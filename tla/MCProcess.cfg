SPECIFICATION FairSpec
CONSTANTS
  Fiber = {f1}
  Main = main
  File = {a, b}
  MaxFd = 1
  PathOp = {"unlink"}
  Object = {p}
  Cases <- OneRisk
INVARIANTS RightFile FdsAccounted BuffersFreed
PROPERTIES OwnResults CallsEnd
