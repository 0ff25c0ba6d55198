------------------------------- MODULE MCRaces -------------------------------
(***************************************************************************)
(* Small instances of the components of Races.  A behaviour belongs to one *)
(* of them, chosen in the initial state.                                   *)
(***************************************************************************)
EXTENDS Races

CONSTANTS w1, w2, w3, k1, k2, k3, p1, p2, p3

(* Both ends of one pipe, and the servers of two more, so that every slot  *)
(* is wanted by others.                                                    *)
MCInstances == {p1, p2, p3}
MCProcesses == {<<"server", p1>>, <<"client", p1>>, <<"server", p2>>, <<"server", p3>>}

(* One of the waiters uses another address than the others and the wakers, *)
(* of which one wakes all and two wake one each.                           *)
MCWaiters == {w1, w2, w3}
MCWakers == {k1, k2, k3}
MCWakeAll == {k1}
MCAddressOf == [t \in MCWaiters \cup MCWakers |-> IF t = w3 THEN "b" ELSE "a"]
MCCalls == [t \in MCWaiters \cup MCWakers |-> IF t = w1 THEN 2 ELSE 1]

(* Two threads compare and one opens or closes; three objects, so that the *)
(* other two can belong to neither handle of a comparison.                 *)
MCComparers == {w1, w2}
MCUsers == {w3}
MCObjects == {p1, p2, p3}

-----------------------------------------------------------------------------
(* Six callers at once are too many: in one kind of behaviours (wait) the  *)
(* three waiters meet the waker that wakes all, in the other one (reuse)   *)
(* two waiters meet the two others, and one of them waits twice with the   *)
(* same block.                                                             *)
VARIABLE active

Taken(kind, t) ==
  IF kind = "reuse" THEN (IF t \in {w1, w2, k2, k3} THEN MCCalls[t] ELSE 0)
                    ELSE (IF t \in {w1, w2, w3, k1} THEN 1 ELSE 0)

BucketNext ==
  /\ \/ W!Next
     \/ (\A t \in W!Callers : aPc[t] = "out") /\ UNCHANGED aVars
  /\ \A t \in W!Callers : aCalls'[t] <= Taken(active, t)

(* Only the comparison has more than one initial state.                    *)
MCInit ==
  /\ active \in {"wait", "reuse", "handles", "pipes"}
  /\ Init /\ W!Init /\ H!Init
  /\ active # "handles" => /\ hPair = [t \in MCComparers |-> <<p1, p1>>]
                           /\ hSpare = [o \in MCObjects |-> 0]

(* Once a process has stored its ID in the slot of another instance        *)
(* PeersMatch promises nothing more, and the behaviour stops there.        *)
MCNext ==
  /\ UNCHANGED active
  /\ \/ active \in {"wait", "reuse"} /\ BucketNext /\ UNCHANGED <<vars, hVars>>
     \/ active = "handles" /\ H!Next /\ UNCHANGED <<vars, aVars>>
     \/ active = "pipes" /\ ~misplaced /\ Next /\ UNCHANGED <<aVars, hVars>>
     \/ active = "pipes" /\ misplaced /\ UNCHANGED <<vars, aVars, hVars>>

MCSpec == MCInit /\ [][MCNext]_<<active, vars, aVars, hVars>>
=============================================================================
