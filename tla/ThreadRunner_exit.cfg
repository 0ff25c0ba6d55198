CONSTANTS
  c1 = c1
  c2 = c2
  t1 = t1
  t2 = t2
  t3 = t3
  w1 = w1
  w2 = w2
  w3 = w3
  Nil = Nil
  Root = Root
  Locked = 9
  Clients <- OneClient
  Tasks <- MCTasks2
  Workers <- MCWorkers2
  MaxMessages = 1
  StartFailures <- NoFailures
  Exits = TRUE
SPECIFICATION FairSpec
PROPERTY ExitCompletes
