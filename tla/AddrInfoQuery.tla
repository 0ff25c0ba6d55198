--------------------------- MODULE AddrInfoQuery ----------------------------
(***************************************************************************)
(* One asynchronous GetAddrInfoExW or GetAddrInfoExA of WS2_32.hpp before  *)
(* Windows 8, and the calls of GetAddrInfoExCancel for it.  The caller     *)
(* copies its arguments into a parameter block, submits a callback to the  *)
(* thread pool and only then stores the block in *_pHandle; the callback   *)
(* looks the name up.  Whoever exchanges the block out of *_pHandle owns   *)
(* the reference the handle had.                                           *)
(*                                                                         *)
(* A pointer and a small status share the word *_pHandle: it is the block, *)
(* or a status, of which "success" is 0, the null pointer.                 *)
(***************************************************************************)
EXTENDS Naturals, Sequences, FiniteSets

CONSTANT Cancellers   \* threads that call GetAddrInfoExCancel, once each

VARIABLES
  wants,      \* did the caller pass a _pHandle?
  handle,     \* *_pHandle
  ref,        \* nRef
  freed,      \* is the block freed?
  lock,       \* HandleLock
  completed,  \* HasSignalCompleted
  caller,     \* where GetAddrInfoExW is
  pc,         \* where the callback and the cancellers are
  status,     \* the status each of them has, or returns
  lookedUp,   \* has the callback called the system's GetAddrInfoExW?
  reports,    \* the statuses the completion routine was called with
  late        \* was *_pHandle stored after the callback had looked at it?

block == <<ref, freed, lock, completed>>
vars == <<wants, handle, block, caller, pc, status, lookedUp, reports, late>>

Worker == "callback"
Callers == Cancellers \cup {Worker}
Statuses == {"success", "pending", "cancelled", "failed"}

Init ==
  /\ wants \in BOOLEAN
  /\ handle = "success"
  /\ ref = 0 /\ freed = FALSE
  /\ lock = FALSE /\ completed = FALSE
  /\ caller = "out"
  /\ pc = [t \in Callers |-> "out"]
  /\ status = [t \in Callers |-> "success"]
  /\ lookedUp = FALSE
  /\ reports = <<>>
  /\ late = FALSE

Goto(t, label) == pc' = [pc EXCEPT ![t] = label]
Carry(t, s) == status' = [status EXCEPT ![t] = s]

-----------------------------------------------------------------------------
(* GetAddrInfoExW                                                          *)

Submit ==
  /\ caller = "out"
  /\ ref' = IF wants THEN 2 ELSE 1
  /\ Goto(Worker, "update")
  /\ caller' = IF wants THEN "store" ELSE "returned"
  /\ UNCHANGED <<wants, handle, freed, lock, completed, status, lookedUp, reports, late>>

SubmitFails ==
  /\ caller = "out"
  /\ freed' = TRUE
  /\ caller' = "failed"
  /\ UNCHANGED <<wants, handle, ref, lock, completed, pc, status, lookedUp, reports, late>>

StoreHandle ==
  /\ caller = "store"
  /\ handle' = "block"
  /\ late' = (pc[Worker] # "update" /\ pc[Worker] # "exchange")
  /\ caller' = "returned"
  /\ UNCHANGED <<wants, block, pc, status, lookedUp, reports>>

-----------------------------------------------------------------------------
(* UpdateHandleStatus, called by the callback                              *)

TakeLock ==
  /\ pc[Worker] = "update"
  /\ completed \/ ~lock
  /\ IF completed
     THEN Carry(Worker, "cancelled") /\ Goto(Worker, "signal") /\ UNCHANGED lock
     ELSE lock' = TRUE /\ Goto(Worker, "exchange") /\ UNCHANGED status
  /\ UNCHANGED <<wants, handle, ref, freed, completed, caller, lookedUp, reports, late>>

(* Mutant: the handle is overwritten, whatever it holds.                   *)
ExchangeHandle_Plain ==
  /\ pc[Worker] = "exchange"
  /\ handle' = IF wants THEN "pending" ELSE handle
  /\ Carry(Worker, IF wants THEN "block" ELSE "success")
  /\ Goto(Worker, "unlockUpdate")
  /\ UNCHANGED <<wants, block, caller, lookedUp, reports, late>>

ExchangeHandle ==
  /\ pc[Worker] = "exchange"
  /\ handle' = IF wants /\ handle = "block" THEN "pending" ELSE handle
  /\ Carry(Worker, IF wants THEN handle ELSE "success")
  /\ Goto(Worker, "unlockUpdate")
  /\ UNCHANGED <<wants, block, caller, lookedUp, reports, late>>

(* Mutant: the lock stays taken.                                           *)
UnlockUpdate_Forgotten ==
  /\ pc[Worker] = "unlockUpdate"
  /\ Goto(Worker, CASE status[Worker] = "block" -> "releaseHandle"
                    [] status[Worker] = "success" -> "lookUp"
                    [] OTHER -> "signal")
  /\ UNCHANGED <<wants, handle, block, caller, status, lookedUp, reports, late>>

(* The block was exchanged out of the handle; or there is no handle yet,   *)
(* which counts as success; or a status ends the callback.                 *)
UnlockUpdate ==
  /\ pc[Worker] = "unlockUpdate"
  /\ lock' = FALSE
  /\ Goto(Worker, CASE status[Worker] = "block" -> "releaseHandle"
                    [] status[Worker] = "success" -> "lookUp"
                    [] OTHER -> "signal")
  /\ UNCHANGED <<wants, handle, ref, freed, completed, caller, status, lookedUp, reports, late>>

LookUp ==
  /\ pc[Worker] = "lookUp"
  /\ lookedUp' = TRUE
  /\ \E s \in {"success", "failed"} : Carry(Worker, s)
  /\ Goto(Worker, "signal")
  /\ UNCHANGED <<wants, handle, block, caller, reports, late>>

-----------------------------------------------------------------------------
(* GetAddrInfoExCancel, called after GetAddrInfoExW has returned           *)

CancelRead(c) ==
  /\ pc[c] = "out" /\ caller = "returned" /\ wants
  /\ IF handle = "block"
     THEN Goto(c, "cancel") /\ UNCHANGED status
     ELSE Goto(c, "returned") /\ Carry(c, "failed")
  /\ UNCHANGED <<wants, handle, block, caller, lookedUp, reports, late>>

(* Mutant: the block is not exchanged out but only overwritten.            *)
CancelExchange_Plain(c) ==
  /\ pc[c] = "cancel"
  /\ handle' = "cancelled"
  /\ Goto(c, "signal") /\ Carry(c, "cancelled")
  /\ UNCHANGED <<wants, block, caller, lookedUp, reports, late>>

CancelExchange(c) ==
  /\ pc[c] = "cancel"
  /\ IF handle = "block"
     THEN handle' = "cancelled" /\ Goto(c, "signal") /\ Carry(c, "cancelled")
     ELSE Goto(c, "returned") /\ Carry(c, "failed") /\ UNCHANGED handle
  /\ UNCHANGED <<wants, block, caller, lookedUp, reports, late>>

-----------------------------------------------------------------------------
(* SignalCompleted and Release                                             *)

SignalCompleted(t) ==
  /\ pc[t] = "signal"
  /\ completed' = TRUE
  /\ Goto(t, IF completed THEN "release" ELSE IF wants THEN "lockHandle" ELSE "report")
  /\ UNCHANGED <<wants, handle, ref, freed, lock, caller, status, lookedUp, reports, late>>

LockHandle(t) ==
  /\ pc[t] = "lockHandle" /\ ~lock
  /\ lock' = TRUE
  /\ Goto(t, "writeHandle")
  /\ UNCHANGED <<wants, handle, ref, freed, completed, caller, status, lookedUp, reports, late>>

WriteHandle(t) ==
  /\ pc[t] = "writeHandle"
  /\ handle' = status[t]
  /\ Goto(t, "unlockHandle")
  /\ UNCHANGED <<wants, block, caller, status, lookedUp, reports, late>>

UnlockHandle(t) ==
  /\ pc[t] = "unlockHandle"
  /\ lock' = FALSE
  /\ Goto(t, "report")
  /\ UNCHANGED <<wants, handle, ref, freed, completed, caller, status, lookedUp, reports, late>>

(* The OVERLAPPED, the completion routine and the event: from now on the   *)
(* caller may do with its memory what it likes.                            *)
Report(t) ==
  /\ pc[t] = "report"
  /\ reports' = Append(reports, status[t])
  /\ Goto(t, "release")
  /\ UNCHANGED <<wants, handle, block, caller, status, lookedUp, late>>

(* The reference of the handle, which leaves the callback with its own;    *)
(* or the last thing a thread does.                                        *)
Release(t) ==
  /\ pc[t] \in {"release", "releaseHandle"}
  /\ ref' = ref - 1
  /\ freed' = (freed \/ ref = 1)
  /\ Goto(t, IF pc[t] = "releaseHandle" THEN "lookUp" ELSE "returned")
  /\ Carry(t, IF t = Worker THEN status[t] ELSE "success")
  /\ UNCHANGED <<wants, handle, lock, completed, caller, lookedUp, reports, late>>

-----------------------------------------------------------------------------
SharedStep(t) ==
  \/ SignalCompleted(t) \/ LockHandle(t) \/ WriteHandle(t) \/ UnlockHandle(t)
  \/ Report(t) \/ Release(t)

CallbackStep == TakeLock \/ ExchangeHandle \/ UnlockUpdate \/ LookUp \/ SharedStep(Worker)

CancellerStep(c) == CancelExchange(c) \/ SharedStep(c)

Next ==
  \/ Submit \/ SubmitFails \/ StoreHandle
  \/ CallbackStep
  \/ \E c \in Cancellers : CancelRead(c) \/ CancellerStep(c)

(* The pool runs the callback, and whoever is inside goes on.              *)
Fairness ==
  /\ WF_vars(StoreHandle) /\ WF_vars(CallbackStep)
  /\ \A c \in Cancellers : WF_vars(CancellerStep(c))

Spec == Init /\ [][Next]_vars
FairSpec == Spec /\ Fairness

-----------------------------------------------------------------------------
TypeOK ==
  /\ wants \in BOOLEAN /\ freed \in BOOLEAN /\ lock \in BOOLEAN
  /\ completed \in BOOLEAN /\ lookedUp \in BOOLEAN /\ late \in BOOLEAN
  /\ handle \in Statuses \cup {"block"}
  /\ ref \in 0..2
  /\ caller \in {"out", "store", "returned", "failed"}
  /\ status \in [Callers -> Statuses \cup {"block"}]
  /\ reports \in Seq(Statuses)

(* Who owns a reference: the callback until it returns, a canceller that   *)
(* has the block, and the handle, stored or still to be.                   *)
Users == {t \in Callers : pc[t] \notin {"out", "cancel", "returned"}}
HandleOwns == wants /\ \/ handle = "block"
                       \/ caller = "store"
                       \/ pc[Worker] = "releaseHandle"
                       \/ pc[Worker] = "unlockUpdate" /\ status[Worker] = "block"

(* The block is freed when its last owner lets go of it and never while a  *)
(* callback or a canceller is inside; and it is not lost, if the caller    *)
(* stored it in time.                                                      *)
BlockOutlivesUse ==
  /\ Users # {} => ~freed /\ ref >= Cardinality(Users)
  /\ caller \in {"store", "returned"} => (freed <=> ref = 0)
  /\ ~late /\ caller # "failed" =>
       ref = Cardinality(Users) + (IF HandleOwns /\ caller # "out" THEN 1 ELSE 0)

(* A request is reported once.  If GetAddrInfoExCancel has returned        *)
(* success the name is not looked up and the report, when it comes, says   *)
(* WSA_E_CANCELLED: provided that the handle was stored before the         *)
(* callback looked at it.                                                  *)
CancelIsReported ==
  /\ Len(reports) <= 1
  /\ \A c \in Cancellers :
       pc[c] = "returned" /\ status[c] = "success" /\ ~late =>
         ~lookedUp /\ \A i \in DOMAIN reports : reports[i] = "cancelled"

(* "Once the completion is signaled pHandle can no longer be accessed":    *)
(* the caller may have freed it.                                           *)
HandleLeftAlone == [][reports # <<>> => handle' = handle]_vars

(* Every request that was submitted is reported, cancelled or not.         *)
EveryRequestReported == (caller \in {"store", "returned"}) ~> (reports # <<>>)
=============================================================================
