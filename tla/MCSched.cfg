SPECIFICATION FairSpec
CONSTANTS
  Fiber = {f1, f2}
  Main = main
  Timer = {t1}
  Idle = {}
  Risks = {}
  MaxSleep = 1
CHECK_DEADLOCK FALSE
INVARIANTS WaitLinksExact NeverRelinked
PROPERTIES OnlyItsCause MainJoinValues QueuedFiberRuns BlockedEnds
