CONSTANTS
  t1 = t1
  t2 = t2
  t3 = t3
  t4 = t4
  t5 = t5
  Threads <- LockThreads
  Modes <- LockModes
  Calls <- LockCalls
  Initializers <- MCThreads
  Asynchronous <- MCAsynchronous
  MaxFailures = 1
  Waiters <- MCWaiters
  Wakers <- MCWakers
  TimedChoices <- MCTimedChoices
  WakesAll <- MCWakesAll
  Nil = Nil
SPECIFICATION MCSpec
INVARIANTS InitRunsAlone ContextAgreed NoDanglingBlock NoWakeLost
PROPERTIES EveryoneReturns ImplementsRWLock EveryoneAcquires CalledReturn EveryWaiterReturns
CHECK_DEADLOCK FALSE
