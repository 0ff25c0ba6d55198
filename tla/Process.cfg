CONSTANTS
  t1 = t1
  t2 = t2
  a = a
  b = b
  Copies <- MCCopies
  Threads <- MCThreads
  MaxUnloads = 2
  Clients <- MCThreads
  Runners <- MCRunners
  Works <- MCWorks
  Maximum = 2
  MaxPosts = 2
  MaxWaits = 1
  BlockSize = 2
  MaxPushes = 6
  Cancellers <- MCThreads
  Requests <- MCThreads
  Nil = Nil
SPECIFICATION MCSpec
INVARIANTS HandlesAndViewsBalanced OutlivesUse NothingLost BlockOutlivesUse CancelIsReported RefsOutliveUse
PROPERTIES DataKept TasksRun WaitReturns ClosedIsFreed EveryRequestReported ResolverFreed
CHECK_DEADLOCK FALSE
