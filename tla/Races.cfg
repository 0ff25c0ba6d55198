CONSTANTS
  w1 = w1
  w2 = w2
  w3 = w3
  k1 = k1
  k2 = k2
  k3 = k3
  p1 = p1
  p2 = p2
  p3 = p3
  Nil = Nil
  Instances <- MCInstances
  Processes <- MCProcesses
  Last = 2
  Waiters <- MCWaiters
  Wakers <- MCWakers
  WakeAll <- MCWakeAll
  Timed <- MCWaiters
  AddressOf <- MCAddressOf
  Calls <- MCCalls
  Comparers <- MCComparers
  Users <- MCUsers
  Objects <- MCObjects
  MaxSpare = 1
SPECIFICATION MCSpec
INVARIANTS ListsAreSound ReleasesMeetWaiters NoneForgotten ComparesRight PeersMatch
