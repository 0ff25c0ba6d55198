CONSTANTS
  Clients = {c1}
  Types = {r1}
  Tasks = {t1}
  MaxSets = 1
  Nil = Nil
SPECIFICATION Spec
PROPERTIES RequestReachesSystem
CHECK_DEADLOCK FALSE
