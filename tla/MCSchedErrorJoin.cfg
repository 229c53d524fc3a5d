SPECIFICATION Spec
CONSTANTS
  Fiber = {f1, f2}
  Main = main
  Timer = {}
  Idle = {}
  Risks = {"error"}
  MaxSleep = 0
CHECK_DEADLOCK FALSE
INVARIANTS NoJoinerOfDead
