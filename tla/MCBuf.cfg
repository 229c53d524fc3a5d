SPECIFICATION FairSpec
CONSTANTS
  Lens <- MCLens
  Values <- MCValues
  MaxHead = 300
INVARIANTS InBounds ReadBack
PROPERTIES NeedEnds
CHECK_DEADLOCK FALSE
