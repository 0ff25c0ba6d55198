----------------------------- MODULE KeyedEvent -----------------------------
(***************************************************************************)
(* The primitives of api-ms-win-core-synch.hpp whose threads keep a block  *)
(* on their stacks and sleep on the keyed event of the library: the lock   *)
(* (SRWLock), one-time initialisation (InitOnce) and the condition         *)
(* variable (ConditionVariable).  They share nothing but the event, and    *)
(* the event gives every thread its own key.                               *)
(***************************************************************************)
EXTENDS SRWLock

CONSTANTS
  Initializers,    \* the threads that call InitOnceExecuteOnce and the like
  Asynchronous,    \* those of them that pass RTL_RUN_ONCE_ASYNC
  MaxFailures,     \* how often InitFn fails (bound of the model)
  Waiters, Wakers, \* the threads at the condition variable
  TimedChoices,    \* sets of waiters that may have a timeout
  WakesAll         \* the wakers that call WakeAllConditionVariable

ASSUME InitializerAssumption == Nil \notin Initializers
ASSUME ConditionAssumption ==
  Nil \notin Waiters /\ Waiters \cap Wakers = {} /\ IsFiniteSet(Waiters)

VARIABLES oOnce, oCell, oPc, oWake, oContext, oFailures

oVars == <<oOnce, oCell, oPc, oWake, oContext, oFailures>>

O == INSTANCE InitOnce WITH
  Threads <- Initializers, once <- oOnce, cell <- oCell, pc <- oPc, wake <- oWake,
  context <- oContext, failures <- oFailures

VARIABLES cWord, cBack, cNotify, cNext, cFlag, cOwner, cPc, cStatus, cNew,
          cWanted, cOldest, cFirst, cWakee, cCount, cGone, cTimed, cExpired, cOwed, cCalled

cVars == <<cWord, cBack, cNotify, cNext, cFlag, cOwner, cPc, cStatus, cNew,
           cWanted, cOldest, cFirst, cWakee, cCount, cGone, cTimed, cExpired, cOwed, cCalled>>

C == INSTANCE ConditionVariable WITH
  cv <- cWord, back <- cBack, notify <- cNotify, next <- cNext, flag <- cFlag,
  owner <- cOwner, pc <- cPc, status <- cStatus, new <- cNew, wanted <- cWanted,
  oldest <- cOldest, first <- cFirst, wakee <- cWakee, count <- cCount, gone <- cGone,
  timed <- cTimed, expired <- cExpired, owed <- cOwed, called <- cCalled

-----------------------------------------------------------------------------
(* InitFn runs in one synchronous caller at a time, only while the word    *)
(* says so, and never again once it has succeeded (InitOnce).              *)
InitRunsAlone == O!InitRunsAlone

(* Every caller gets the one context that was published (InitOnce).        *)
ContextAgreed == O!ContextAgreed

(* Once initialization has begun every caller returns (InitOnce).          *)
EveryoneReturns == O!EveryoneReturns

(* No walk of a list of waiters, no waker and no timeout meets a block     *)
(* whose thread is gone (SRWLock, ConditionVariable).                      *)
NoDanglingBlock == BlocksWait /\ C!NoDanglingBlock

(* Without timeouts the wakers take as many waiters from the list as the   *)
(* calls of WakeConditionVariable owe (ConditionVariable).                 *)
NoWakeLost == C!NoWakeLost

(* Without timeouts a call of WakeAllConditionVariable frees every waiter  *)
(* that was in the list (ConditionVariable).                               *)
CalledReturn == C!CalledReturn
=============================================================================
