CONSTANTS
  b1 = b1
  b2 = b2
  b3 = b3
  Threads <- MCThreads3
  Phases = 3
  StoreBuffers <- AnyMachine
  SpinMode = "maybe"
  Deletable = TRUE
SPECIFICATION FairSpec
INVARIANTS NobodyStranded WaitersGoneWhenDeleted
PROPERTIES ImplementsRendezvous ReturnsWhenOrdered DeleteReturns
CHECK_DEADLOCK FALSE
