---------------------------- MODULE MCKeyedEvent ----------------------------
(***************************************************************************)
(* Small instances of the four primitives whose threads sleep on the keyed *)
(* event of the library: InitOnce, SRWLock, ConditionVariable and          *)
(* WaitOnAddress.  They share nothing else, so that a behaviour belongs to *)
(* one of them, chosen in the initial state; the others keep their initial *)
(* state.                                                                  *)
(***************************************************************************)
EXTENDS KeyedEvent

CONSTANTS t1, t2, t3, t4, t5

MCThreads == {t1, t2, t3, t4, t5}

(* Three threads initialise alone, two asynchronously.                     *)
MCAsynchronous == {t4, t5}

(* The lock: a writer that calls twice, a thread that writes or reads and  *)
(* a reader.                                                               *)
LockThreads == {t1, t2, t3}
LockModes == [t \in LockThreads |->
  CASE t = t1 -> {"exclusive"} [] t = t2 -> {"exclusive", "shared"} [] OTHER -> {"shared"}]
LockCalls == [t \in LockThreads |-> IF t = t1 THEN 2 ELSE 1]

(* The condition variable: three waiters, of which one stays away while    *)
(* others have timeouts; one thread wakes one, another all.                *)
MCWaiters == {t1, t2, t3}
MCWakers == {t4, t5}
MCWakesAll == {t5}
MCTimedChoices == {{}, {t1, t2}}

-----------------------------------------------------------------------------
(* WaitOnAddress: two waiters, one with a timeout, and a thread that wakes *)
(* both.                                                                   *)
VARIABLES aHead, aBack, aNotify, aNext, aFlag, aChanged, aPc, aCur, aItem,
          aWakes, aThen, aLast, aTimed, aCalls

aVars == <<aHead, aBack, aNotify, aNext, aFlag, aChanged, aPc, aCur, aItem,
           aWakes, aThen, aLast, aTimed, aCalls>>

A == INSTANCE WaitOnAddress WITH
  Waiters <- {t1, t2}, Wakers <- {t3}, WakeAll <- {t3}, Timed <- {t1},
  AddressOf <- [t \in {t1, t2, t3} |-> "a"], Calls <- [t \in {t1, t2, t3} |-> 1],
  head <- aHead, back <- aBack, notify <- aNotify, next <- aNext,
  flag <- aFlag, changed <- aChanged, pc <- aPc, cur <- aCur, item <- aItem,
  wakes <- aWakes, then <- aThen, last <- aLast, timed <- aTimed,
  calls <- aCalls

-----------------------------------------------------------------------------
VARIABLE active

mcVars == <<active, vars, oVars, cVars, aVars>>

MCInit ==
  /\ Init /\ O!Init /\ C!Init /\ A!Init
  /\ active \in {"once", "lock", "condition", "address"}
  /\ active # "condition" => cTimed = {}

InLock(B) == active = "lock" /\ B /\ UNCHANGED <<active, oVars, cVars, aVars>>
InOnce(B) == active = "once" /\ B /\ UNCHANGED <<active, vars, cVars, aVars>>
InCondition(B) == active = "condition" /\ B /\ UNCHANGED <<active, vars, oVars, aVars>>
InAddress(B) == active = "address" /\ B /\ UNCHANGED <<active, vars, oVars, cVars>>

MCNext ==
  \/ InLock(Next)
  \/ InOnce(O!Next)
  \/ InCondition(C!Next /\ (cTimed # {} => cPc'[t3] = "start"))
  \/ InAddress(A!Next)

(* The fairness the four state for their threads, of the one that runs.    *)
StepOf(t) ==
  \/ t \in Threads /\ InLock(Step(t))
  \/ InOnce(O!Step(t))
  \/ InCondition(C!Step(t))
  \/ t \in {t1, t2} /\ InAddress(A!WaiterStep(t) \/ A!ListStep(t))
  \/ t = t3 /\ InAddress(A!WakerStep(t) \/ A!ListStep(t))

MCSpec == MCInit /\ [][MCNext]_mcVars /\ \A t \in MCThreads : WF_mcVars(StepOf(t))

-----------------------------------------------------------------------------
(* Once the value has changed, every waiter returns (WaitOnAddress).       *)
EveryWaiterReturns == A!EveryWaiterReturns
=============================================================================
