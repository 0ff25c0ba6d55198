----------------------------- MODULE MCProcess ------------------------------
(***************************************************************************)
(* Small instances of the five components of Process.  A behaviour belongs *)
(* to one of them, chosen in the initial state.                            *)
(***************************************************************************)
EXTENDS Process

CONSTANTS t1, t2, a, b

MCCopies == {a, b}

(* Two threads map the data, are clients of the pool, cancel the name      *)
(* lookup and request a proxy: so runners of the pool come and go while    *)
(* tasks are submitted, a cancellation finds the handle exchanged, and a   *)
(* result replaces another while a third thread may read it.               *)
MCThreads == {t1, t2}
MCRunners == {"r1", "r2"}

(* One work object that both clients use.                                  *)
MCWorks == {"w"}

-----------------------------------------------------------------------------
VARIABLE active

mcVars == <<active, vars, pVars, qVars, aVars, xVars>>

MCInit ==
  /\ Init /\ P!Init /\ Q!Init /\ A!Init /\ X!Init
  /\ active \in {"shared", "pool", "queue", "lookup", "proxy"}
  /\ active # "pool" => pMaximum = Maximum
  /\ active # "lookup" => aWants
  /\ active # "proxy" => xFlags = {}

MCNext ==
  /\ UNCHANGED active
  /\ \/ active = "shared" /\ Next /\ UNCHANGED <<pVars, qVars, aVars, xVars>>
     \/ active = "pool" /\ P!Next /\ UNCHANGED <<vars, qVars, aVars, xVars>>
     \/ active = "queue" /\ Q!Next /\ UNCHANGED <<vars, pVars, aVars, xVars>>
     \/ active = "lookup" /\ A!Next /\ UNCHANGED <<vars, pVars, qVars, xVars>>
     \/ active = "proxy" /\ X!Next /\ UNCHANGED <<vars, pVars, qVars, aVars>>

(* Nobody is inside a call of what is not active.                          *)
MCSpec == MCInit /\ [][MCNext]_mcVars /\ P!Fairness /\ A!Fairness /\ X!Fairness

=============================================================================
