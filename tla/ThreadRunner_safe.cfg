CONSTANTS
  c1 = c1
  c2 = c2
  t1 = t1
  t2 = t2
  t3 = t3
  w1 = w1
  w2 = w2
  w3 = w3
  Nil = Nil
  Root = Root
  Locked = 9
  Clients <- MCClients
  Tasks <- MCTasks3
  Workers <- MCWorkers3
  MaxMessages = 1
  StartFailures <- CreateMayFail
  Exits = TRUE
SPECIFICATION FairSpec
INVARIANTS RefsBalanced WorkerWhileRegistered FreedOnce
PROPERTY WorkerStops
