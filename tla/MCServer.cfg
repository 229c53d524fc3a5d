SPECIFICATION FairSpec
CONSTANTS
  Fiber = {f1, f2}
  Main = main
  Object = {server}
  Cases <- AllRisks
  MaxConn = 3
  MaxFault = 1
CHECK_DEADLOCK FALSE
INVARIANTS ConnsOnce HeldIsCounted
PROPERTIES AcceptEnds
