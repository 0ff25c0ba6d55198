----------------------------- MODULE Rendezvous ------------------------------
(***************************************************************************)
(* What a synchronization barrier promises its callers: nobody returns     *)
(* from a phase before everybody has entered it, and exactly one call of   *)
(* each phase returns TRUE.                                                *)
(***************************************************************************)
EXTENDS Naturals

CONSTANT Threads

VARIABLES
  entered,  \* how often each thread has called EnterSynchronizationBarrier
  left,     \* how often each thread has returned from it
  winners   \* how many of these calls returned TRUE

vars == <<entered, left, winners>>

Init ==
  /\ entered = [t \in Threads |-> 0]
  /\ left = [t \in Threads |-> 0]
  /\ winners = 0

Enter(t) ==
  /\ left[t] = entered[t]
  /\ entered' = [entered EXCEPT ![t] = @ + 1]
  /\ UNCHANGED <<left, winners>>

Leave(t) ==
  /\ left[t] < entered[t]
  /\ \A u \in Threads : entered[u] >= entered[t]
  /\ left' = [left EXCEPT ![t] = @ + 1]
  /\ UNCHANGED entered

ReturnTrue(t) ==
  /\ Leave(t)
  /\ winners = entered[t] - 1
  /\ winners' = entered[t]

(* The last thread to leave a phase does not return FALSE if nobody has    *)
(* returned TRUE.                                                          *)
ReturnFalse(t) ==
  /\ Leave(t)
  /\ winners = entered[t] \/ \E u \in Threads \ {t} : left[u] = left[t]
  /\ UNCHANGED winners

Next == \E t \in Threads : Enter(t) \/ ReturnTrue(t) \/ ReturnFalse(t)

Spec == Init /\ [][Next]_vars
=============================================================================
