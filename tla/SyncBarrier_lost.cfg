CONSTANTS
  b1 = b1
  b2 = b2
  b3 = b3
  Threads <- MCThreads2
  Phases = 1
  StoreBuffers <- BufferedMachine
  SpinMode = "never"
  Deletable = FALSE
SPECIFICATION FairSpec
PROPERTY EveryoneReturns
CHECK_DEADLOCK FALSE
