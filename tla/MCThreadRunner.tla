--------------------------- MODULE MCThreadRunner ---------------------------
(* Instances of ThreadRunner for TLC.                                      *)
EXTENDS ThreadRunner

CONSTANTS c1, c2, t1, t2, t3, w1, w2, w3

MCClients == {c1, c2}
OneClient == {c1}
MCTasks2 == {t1, t2}
MCTasks3 == {t1, t2, t3}
MCWorkers2 == {w1, w2}
MCWorkers3 == {w1, w2, w3}
CreateMayFail == {"create"}
NoFailures == {}
=============================================================================
