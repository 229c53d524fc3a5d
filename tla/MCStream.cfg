SPECIFICATION Spec
CONSTANTS
  Fiber = {f1}
  Main = main
  Object = {o1}
  Cases <- OneRiskOrAll
  MaxSent = 2
CHECK_DEADLOCK FALSE
INVARIANTS NothingLost ReaderListens WaitersExact OneRequest
PROPERTIES OwnResult
