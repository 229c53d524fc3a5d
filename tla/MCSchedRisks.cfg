SPECIFICATION Spec
CONSTANTS
  Fiber = {f1, f2}
  Main = main
  Timer = {}
  Idle = {i1}
  Risks = {"poke", "error", "stray"}
  MaxSleep = 0
CHECK_DEADLOCK FALSE
INVARIANTS ReadyQueueExact
PROPERTIES ImplementsStates
