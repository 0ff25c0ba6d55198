------------------------------ MODULE Process -------------------------------
(***************************************************************************)
(* What the library keeps for a process beside its locks: the data its     *)
(* copies share (SharedData), the thread pool (ThreadPool), the pool's     *)
(* queue of tasks (TaskQueue), and two things that run in the system's     *)
(* pool: name lookups (AddrInfoQuery) and proxy lookups (ProxyResolver).   *)
(* They have no state in common.                                           *)
(***************************************************************************)
EXTENDS SharedData

-----------------------------------------------------------------------------
(* The pool.                                                               *)
CONSTANTS Clients, Runners, Works, Maximum, MaxPosts, MaxWaits

ASSUME ThreadPoolAssumption ==
  /\ IsFiniteSet(Clients) /\ IsFiniteSet(Runners) /\ Clients \cap Runners = {}
  /\ Nil \notin Works

VARIABLES pWref, pPending, pWorking, pEvent, pWclosed, pRef, pWakeups,
          pParallel, pStop, pPushLock, pPopLock, pMaximum, pQueue, pPc, pTask,
          pOld, pClosing, pPosts, pWaits, pCancels

pVars == <<pWref, pPending, pWorking, pEvent, pWclosed, pRef, pWakeups,
           pParallel, pStop, pPushLock, pPopLock, pMaximum, pQueue, pPc, pTask,
           pOld, pClosing, pPosts, pWaits, pCancels>>

P == INSTANCE ThreadPool WITH
  wref <- pWref, pending <- pPending, working <- pWorking, event <- pEvent,
  wclosed <- pWclosed, ref <- pRef, wakeups <- pWakeups, parallel <- pParallel,
  maximum <- pMaximum, stop <- pStop, pushLock <- pPushLock, popLock <- pPopLock, queue <- pQueue,
  pc <- pPc, task <- pTask, old <- pOld, closing <- pClosing, posts <- pPosts,
  waits <- pWaits, cancels <- pCancels

-----------------------------------------------------------------------------
(* Its queue.                                                              *)
CONSTANTS BlockSize, MaxPushes

ASSUME QueueAssumption == BlockSize \in Nat \ {0}

VARIABLES qBlock, qDeleted, qFirst, qLast, qPushPc, qPopPc, qGot, qPushed,
          qPopped, qLate, qOvertaken

qVars == <<qBlock, qDeleted, qFirst, qLast, qPushPc, qPopPc, qGot, qPushed,
           qPopped, qLate, qOvertaken>>

Q == INSTANCE TaskQueue WITH
  block <- qBlock, deleted <- qDeleted, first <- qFirst, last <- qLast,
  pushPc <- qPushPc, popPc <- qPopPc, got <- qGot, pushed <- qPushed,
  popped <- qPopped, late <- qLate, overtaken <- qOvertaken

-----------------------------------------------------------------------------
(* A name lookup.                                                          *)
CONSTANT Cancellers

ASSUME LookupAssumption == IsFiniteSet(Cancellers) /\ "callback" \notin Cancellers

VARIABLES aWants, aHandle, aRef, aFreed, aLock, aCompleted, aCaller, aPc,
          aStatus, aLookedUp, aReports, aLate

aVars == <<aWants, aHandle, aRef, aFreed, aLock, aCompleted, aCaller, aPc,
           aStatus, aLookedUp, aReports, aLate>>

A == INSTANCE AddrInfoQuery WITH
  wants <- aWants, handle <- aHandle, ref <- aRef, freed <- aFreed,
  lock <- aLock, completed <- aCompleted, caller <- aCaller, pc <- aPc,
  status <- aStatus, lookedUp <- aLookedUp, reports <- aReports, late <- aLate

-----------------------------------------------------------------------------
(* A proxy resolver.                                                       *)
CONSTANT Requests

ASSUME ProxyAssumption ==
  /\ IsFiniteSet(Requests)
  /\ Nil \notin Requests /\ "client" \notin Requests /\ "resolver" \notin Requests

VARIABLES xFlags, xRef, xResult, xRref, xFreed, xOpen, xReaders, xPc, xOk,
          xHeld, xTold

xVars == <<xFlags, xRef, xResult, xRref, xFreed, xOpen, xReaders, xPc, xOk,
           xHeld, xTold>>

X == INSTANCE ProxyResolver WITH
  flags <- xFlags, ref <- xRef, result <- xResult, rref <- xRref,
  freed <- xFreed, open <- xOpen, readers <- xReaders, pc <- xPc, ok <- xOk,
  held <- xHeld, told <- xTold

-----------------------------------------------------------------------------
(* The references of tasks, runners and owners outlive every use of a pool *)
(* or a work object (ThreadPool).                                          *)
OutlivesUse == P!OutlivesUse

(* A queued task is always taken from the queue (ThreadPool).              *)
TasksRun == P!TasksRun

(* Who waits for callbacks nobody cancels is released (ThreadPool).        *)
WaitReturns == P!WaitReturns

(* What was closed is freed at last (ThreadPool).                          *)
ClosedIsFreed == P!ClosedIsFreed

(* Every entry of the queue is popped once and in order, and no deleted    *)
(* block is used, if no Pop is overtaken by a block of pushes (TaskQueue). *)
NothingLost == Q!NothingLost

(* The block of a name lookup outlives the callback and everybody who      *)
(* cancels it (AddrInfoQuery).                                             *)
BlockOutlivesUse == A!BlockOutlivesUse

(* A lookup is reported once, and as cancelled if its cancellation         *)
(* succeeded (AddrInfoQuery).                                              *)
CancelIsReported == A!CancelIsReported

(* Every lookup is reported at last (AddrInfoQuery).                       *)
EveryRequestReported == A!EveryRequestReported

(* Neither the resolver nor the result somebody reads is freed under his   *)
(* hands (ProxyResolver).                                                  *)
RefsOutliveUse == X!RefsOutliveUse

(* A closed resolver is freed with all its requests (ProxyResolver).       *)
ResolverFreed == X!ClosedIsFreed
=============================================================================
