SPECIFICATION FairSpec
CONSTANTS
  Fiber = {f1}
  Main = main
  Object = {socket}
  Cases <- AllRisks
  MaxMsg = 2
  Hwm = 1
CHECK_DEADLOCK FALSE
INVARIANTS MessagesInOrder SentIsAccepted CloseCloses
PROPERTIES WaitersServed
