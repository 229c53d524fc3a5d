SPECIFICATION NetFairSpec
CONSTANTS
  Fiber = {f1}
  Main = main
  Object = {o1}
  Cases <- NetCases
  MaxSent = 1
  Family = {"INET6", "other"}
  Socktype = {}
  Protocol = {}
CHECK_DEADLOCK FALSE
PROPERTIES OwnAddress RequestEnds ReadEnds CloseEnds
