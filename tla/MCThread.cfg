SPECIFICATION FairSpec
CONSTANTS
  Cases <- AllRisks
  MaxWaits = 4
  MaxHandles = 2
CHECK_DEADLOCK FALSE
INVARIANTS ChildCanSuspend CutShortByJoinOnly
PROPERTIES WaitEnds JoinEnds
