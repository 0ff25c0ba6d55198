------------------------ MODULE AddrInfoQuery_proofs ------------------------
(***************************************************************************)
(* A name lookup, however many threads cancel it: the block outlives its   *)
(* users and is freed after them, and a lookup is reported once, as        *)
(* cancelled if GetAddrInfoExCancel has said so.                           *)
(***************************************************************************)
EXTENDS AddrInfoQuery, FiniteSetTheorems, SequenceTheorems, TLAPS

Signalling == {"lockHandle", "writeHandle", "unlockHandle", "report"}
Ending == {"signal", "release"} \cup Signalling
Early == {"out", "update", "exchange"}
WorkerLabels == Early \cup Ending \cup {"unlockUpdate", "releaseHandle", "lookUp", "returned"}
CancellerLabels == Ending \cup {"out", "cancel", "returned"}

Types ==
  /\ wants \in BOOLEAN /\ freed \in BOOLEAN /\ completed \in BOOLEAN /\ late \in BOOLEAN
  /\ lookedUp \in BOOLEAN
  /\ handle \in Statuses \cup {"block"}
  /\ ref \in Nat
  /\ caller \in {"out", "store", "returned", "failed"}
  /\ pc \in [Callers -> WorkerLabels \cup {"cancel"}]
  /\ pc[Worker] \in WorkerLabels
  /\ \A c \in Cancellers : pc[c] \in CancellerLabels
  /\ status \in [Callers -> Statuses \cup {"block"}]
  /\ reports \in Seq(Statuses \cup {"block"})

(* Nobody is inside before GetAddrInfoExW has submitted the callback, and  *)
(* no canceller before it has stored the handle.                           *)
Submitted ==
  /\ caller \in {"out", "failed"} => pc[Worker] = "out" /\ ref = 0
  /\ caller \in {"store", "returned"} => pc[Worker] # "out"
  /\ \A c \in Cancellers : pc[c] # "out" => caller = "returned" /\ wants
  /\ caller = "store" => wants
  /\ handle = "block" => caller = "returned" /\ wants
  /\ late => caller = "returned" /\ wants

(* The references: the callback's until it returns, a canceller's that has *)
(* the block, and the handle's, which is lost if it is stored too late.    *)
Owned == IF HandleOwns THEN 1 ELSE 0

Counted ==
  /\ IsFiniteSet(Users)
  /\ ref >= Cardinality(Users) + Owned
  /\ (~late /\ caller # "failed") => ref = Cardinality(Users) + Owned
  /\ caller = "out" => ~freed
  /\ caller \in {"store", "returned"} => (freed <=> ref = 0)

HasExchanged == \/ pc[Worker] = "releaseHandle"
                \/ pc[Worker] = "unlockUpdate" /\ status[Worker] = "block"

Fresh == ~completed /\ reports = <<>> /\ ~lookedUp

(* Only one exchange finds the block in the handle, and nobody overwrites  *)
(* it that has not taken it out, unless the store was late.                *)
Exchanged ==
  /\ HasExchanged => wants /\ caller = "returned" /\ handle # "block"
  /\ \A t \in Callers : pc[t] \in Ending => status[t] # "block"
  /\ (~late /\ handle = "block") =>
       /\ pc[Worker] \in {"update", "exchange"} /\ Fresh
       /\ \A c \in Cancellers : \/ pc[c] \in {"out", "cancel"}
                                \/ pc[c] = "returned" /\ status[c] # "success"

(* Before the callback has exchanged and a canceller can, nothing is done. *)
Untouched == (pc[Worker] \in Early /\ caller # "returned") => Fresh

(* Who sets HasSignalCompleted reports, alone and once.                    *)
Reported ==
  /\ \A t \in Callers : pc[t] \in Signalling => completed /\ reports = <<>>
  /\ \A t, u \in Callers : (pc[t] \in Signalling /\ pc[u] \in Signalling) => t = u
  /\ ~completed => reports = <<>>
  /\ Len(reports) <= 1

(* A canceller that has the block, or has given it back.                   *)
Took(c) == pc[c] \in Ending \/ (pc[c] = "returned" /\ status[c] = "success")

WorkerStopped ==
  \/ pc[Worker] \in {"update", "exchange"}
  \/ pc[Worker] \in Ending \cup {"unlockUpdate", "returned"} /\ status[Worker] = "cancelled"

(* Once a canceller has taken the block, everything says "cancelled".      *)
Cancelled ==
  /\ \A c \in Cancellers : pc[c] \in Ending => status[c] = "cancelled"
  /\ (~late /\ \E c \in Cancellers : Took(c)) =>
       /\ handle = "cancelled" /\ ~lookedUp /\ WorkerStopped
       /\ \A i \in DOMAIN reports : reports[i] = "cancelled"

Inv == Types /\ Submitted /\ Counted /\ Exchanged /\ Untouched /\ Reported /\ Cancelled

(* A user of the block has a reference.                                    *)
LEMMA UsersHoldReferences ==
  ASSUME Types, Counted, NEW t \in Users
  PROVE  Cardinality(Users) \in Nat /\ ref >= Cardinality(Users) /\ Cardinality(Users) >= 1
<1>1. Cardinality(Users) \in Nat
  BY FS_CardinalityType DEF Counted
<1>2. Cardinality(Users) # 0
  BY FS_EmptySet DEF Counted
<1>. QED  BY <1>1, <1>2 DEF Counted, Owned, Types

(* The steps of a lookup keep the types; a reference that is released was held.*)
LEMMA TypesStep ==
  ASSUME IsFiniteSet(Cancellers), Worker \notin Cancellers, Inv, [Next]_vars
  PROVE  Types'
<1>. USE DEF Inv, Types, Goto, Carry, block, Callers, Statuses, Signalling,
    Ending, Early, WorkerLabels, CancellerLabels
<1>1. CASE Submit
  BY <1>1 DEF Submit
<1>2. CASE SubmitFails
  BY <1>2 DEF SubmitFails
<1>3. CASE StoreHandle
  BY <1>3 DEF StoreHandle
<1>4. CASE TakeLock
  BY <1>4 DEF TakeLock
<1>5. CASE ExchangeHandle
  BY <1>5 DEF ExchangeHandle
<1>6. CASE UnlockUpdate
  BY <1>6 DEF UnlockUpdate
<1>7. CASE LookUp
  BY <1>7 DEF LookUp
<1>8. ASSUME NEW c \in Cancellers, CancelRead(c) PROVE Types'
  BY <1>8 DEF CancelRead
<1>9. ASSUME NEW c \in Cancellers, CancelExchange(c) PROVE Types'
  BY <1>9 DEF CancelExchange
<1>10. ASSUME NEW t \in Callers, SignalCompleted(t) PROVE Types'
  BY <1>10 DEF SignalCompleted
<1>11. ASSUME NEW t \in Callers, LockHandle(t) PROVE Types'
  BY <1>11 DEF LockHandle
<1>12. ASSUME NEW t \in Callers, WriteHandle(t) PROVE Types'
  BY <1>12 DEF WriteHandle
<1>13. ASSUME NEW t \in Callers, UnlockHandle(t) PROVE Types'
  BY <1>13 DEF UnlockHandle
<1>14. ASSUME NEW t \in Callers, Report(t) PROVE Types'
  BY <1>14 DEF Report
<1>15. ASSUME NEW t \in Callers, Release(t) PROVE Types'
  <2>1. t \in Users  BY <1>15 DEF Release, Users
  <2>2. Cardinality(Users) \in Nat  BY FS_CardinalityType DEF Counted
  <2>3. ref - 1 \in Nat  BY <2>1, <2>2, UsersHoldReferences
  <2>. QED  BY <1>15, <2>3 DEF Release
<1>16. CASE UNCHANGED vars
  BY <1>16 DEF vars
<1>. QED  BY <1>1, <1>2, <1>3, <1>4, <1>5, <1>6, <1>7, <1>8, <1>9, <1>10,
    <1>11, <1>12, <1>13, <1>14, <1>15, <1>16 DEF Next, CallbackStep,
    CancellerStep, SharedStep, Callers

(* Nobody comes before the callback was submitted and the handle stored.   *)
LEMMA SubmittedStep ==
  ASSUME IsFiniteSet(Cancellers), Worker \notin Cancellers, Inv, [Next]_vars
  PROVE  Submitted'
<1>. USE DEF Inv, Types, Submitted, Exchanged, Goto, Carry, block, Callers,
    Statuses, Signalling, Ending, Early, WorkerLabels, CancellerLabels
<1>1. CASE Submit
  BY <1>1 DEF Submit
<1>2. CASE SubmitFails
  BY <1>2 DEF SubmitFails
<1>3. CASE StoreHandle
  BY <1>3 DEF StoreHandle
<1>4. CASE TakeLock
  BY <1>4 DEF TakeLock
<1>5. CASE ExchangeHandle
  BY <1>5 DEF ExchangeHandle
<1>6. CASE UnlockUpdate
  BY <1>6 DEF UnlockUpdate
<1>7. CASE LookUp
  BY <1>7 DEF LookUp
<1>8. ASSUME NEW c \in Cancellers, CancelRead(c) PROVE Submitted'
  BY <1>8 DEF CancelRead
<1>9. ASSUME NEW c \in Cancellers, CancelExchange(c) PROVE Submitted'
  BY <1>9 DEF CancelExchange
<1>10. ASSUME NEW t \in Callers, SignalCompleted(t) PROVE Submitted'
  BY <1>10 DEF SignalCompleted
<1>11. ASSUME NEW t \in Callers, LockHandle(t) PROVE Submitted'
  BY <1>11 DEF LockHandle
<1>12. ASSUME NEW t \in Callers, WriteHandle(t) PROVE Submitted'
  BY <1>12 DEF WriteHandle
<1>13. ASSUME NEW t \in Callers, UnlockHandle(t) PROVE Submitted'
  BY <1>13 DEF UnlockHandle
<1>14. ASSUME NEW t \in Callers, Report(t) PROVE Submitted'
  BY <1>14 DEF Report
<1>15. ASSUME NEW t \in Callers, Release(t) PROVE Submitted'
  BY <1>15 DEF Release
<1>16. CASE UNCHANGED vars
  BY <1>16 DEF vars
<1>. QED  BY <1>1, <1>2, <1>3, <1>4, <1>5, <1>6, <1>7, <1>8, <1>9, <1>10,
    <1>11, <1>12, <1>13, <1>14, <1>15, <1>16 DEF Next, CallbackStep,
    CancellerStep, SharedStep, Callers

(* One thread takes the block out of the handle.                           *)
LEMMA ExchangedStep ==
  ASSUME IsFiniteSet(Cancellers), Worker \notin Cancellers, Inv, [Next]_vars
  PROVE  Exchanged'
<1>. USE DEF Inv, Types, Submitted, Exchanged, HasExchanged, Fresh, Untouched,
    Goto, Carry, block, Callers, Statuses, Signalling, Ending, Early,
    WorkerLabels, CancellerLabels
<1>1. CASE Submit
  BY <1>1 DEF Submit
<1>2. CASE SubmitFails
  BY <1>2 DEF SubmitFails
<1>3. CASE StoreHandle
  BY <1>3 DEF StoreHandle
<1>4. CASE TakeLock
  BY <1>4 DEF TakeLock
<1>5. CASE ExchangeHandle
  BY <1>5 DEF ExchangeHandle
<1>6. CASE UnlockUpdate
  BY <1>6 DEF UnlockUpdate
<1>7. CASE LookUp
  BY <1>7 DEF LookUp
<1>8. ASSUME NEW c \in Cancellers, CancelRead(c) PROVE Exchanged'
  BY <1>8 DEF CancelRead
<1>9. ASSUME NEW c \in Cancellers, CancelExchange(c) PROVE Exchanged'
  BY <1>9 DEF CancelExchange
<1>10. ASSUME NEW t \in Callers, SignalCompleted(t) PROVE Exchanged'
  BY <1>10 DEF SignalCompleted
<1>11. ASSUME NEW t \in Callers, LockHandle(t) PROVE Exchanged'
  BY <1>11 DEF LockHandle
<1>12. ASSUME NEW t \in Callers, WriteHandle(t) PROVE Exchanged'
  BY <1>12 DEF WriteHandle
<1>13. ASSUME NEW t \in Callers, UnlockHandle(t) PROVE Exchanged'
  BY <1>13 DEF UnlockHandle
<1>14. ASSUME NEW t \in Callers, Report(t) PROVE Exchanged'
  BY <1>14 DEF Report
<1>15. ASSUME NEW t \in Callers, Release(t) PROVE Exchanged'
  BY <1>15 DEF Release
<1>16. CASE UNCHANGED vars
  BY <1>16 DEF vars
<1>. QED  BY <1>1, <1>2, <1>3, <1>4, <1>5, <1>6, <1>7, <1>8, <1>9, <1>10,
    <1>11, <1>12, <1>13, <1>14, <1>15, <1>16 DEF Next, CallbackStep,
    CancellerStep, SharedStep, Callers

(* Before the exchange nothing has been done for the caller.               *)
LEMMA UntouchedStep ==
  ASSUME IsFiniteSet(Cancellers), Worker \notin Cancellers, Inv, [Next]_vars
  PROVE  Untouched'
<1>. USE DEF Inv, Types, Submitted, Untouched, Fresh, Goto, Carry, block,
    Callers, Statuses, Signalling, Ending, Early, WorkerLabels, CancellerLabels
<1>1. CASE Submit
  BY <1>1 DEF Submit
<1>2. CASE SubmitFails
  BY <1>2 DEF SubmitFails
<1>3. CASE StoreHandle
  BY <1>3 DEF StoreHandle
<1>4. CASE TakeLock
  BY <1>4 DEF TakeLock
<1>5. CASE ExchangeHandle
  BY <1>5 DEF ExchangeHandle
<1>6. CASE UnlockUpdate
  BY <1>6 DEF UnlockUpdate
<1>7. CASE LookUp
  BY <1>7 DEF LookUp
<1>8. ASSUME NEW c \in Cancellers, CancelRead(c) PROVE Untouched'
  BY <1>8 DEF CancelRead
<1>9. ASSUME NEW c \in Cancellers, CancelExchange(c) PROVE Untouched'
  BY <1>9 DEF CancelExchange
<1>10. ASSUME NEW t \in Callers, SignalCompleted(t) PROVE Untouched'
  BY <1>10 DEF SignalCompleted
<1>11. ASSUME NEW t \in Callers, LockHandle(t) PROVE Untouched'
  BY <1>11 DEF LockHandle
<1>12. ASSUME NEW t \in Callers, WriteHandle(t) PROVE Untouched'
  BY <1>12 DEF WriteHandle
<1>13. ASSUME NEW t \in Callers, UnlockHandle(t) PROVE Untouched'
  BY <1>13 DEF UnlockHandle
<1>14. ASSUME NEW t \in Callers, Report(t) PROVE Untouched'
  BY <1>14 DEF Report
<1>15. ASSUME NEW t \in Callers, Release(t) PROVE Untouched'
  BY <1>15 DEF Release
<1>16. CASE UNCHANGED vars
  BY <1>16 DEF vars
<1>. QED  BY <1>1, <1>2, <1>3, <1>4, <1>5, <1>6, <1>7, <1>8, <1>9, <1>10,
    <1>11, <1>12, <1>13, <1>14, <1>15, <1>16 DEF Next, CallbackStep,
    CancellerStep, SharedStep, Callers

(* Only one thread finds HasSignalCompleted unset.                         *)
LEMMA ReportedStep ==
  ASSUME IsFiniteSet(Cancellers), Worker \notin Cancellers, Inv, [Next]_vars
  PROVE  Reported'
<1>. USE DEF Inv, Types, Submitted, Reported, Goto, Carry, block, Callers,
    Statuses, Signalling, Ending, Early, WorkerLabels, CancellerLabels
<1>1. CASE Submit
  BY <1>1 DEF Submit
<1>2. CASE SubmitFails
  BY <1>2 DEF SubmitFails
<1>3. CASE StoreHandle
  BY <1>3 DEF StoreHandle
<1>4. CASE TakeLock
  BY <1>4 DEF TakeLock
<1>5. CASE ExchangeHandle
  BY <1>5 DEF ExchangeHandle
<1>6. CASE UnlockUpdate
  BY <1>6 DEF UnlockUpdate
<1>7. CASE LookUp
  BY <1>7 DEF LookUp
<1>8. ASSUME NEW c \in Cancellers, CancelRead(c) PROVE Reported'
  BY <1>8 DEF CancelRead
<1>9. ASSUME NEW c \in Cancellers, CancelExchange(c) PROVE Reported'
  BY <1>9 DEF CancelExchange
<1>10. ASSUME NEW t \in Callers, SignalCompleted(t) PROVE Reported'
  <2>1. CASE completed
    <3>1. pc' = [pc EXCEPT ![t] = "release"]
      BY <1>10, <2>1 DEF SignalCompleted
    <3>2. \A u \in Callers : pc'[u] \in Signalling => pc[u] \in Signalling
      BY <3>1
    <3>3. completed' /\ completed /\ reports' = reports
      BY <1>10, <2>1 DEF SignalCompleted
    <3>. QED  BY <3>2, <3>3
  <2>2. CASE ~completed
    <3>1. reports = <<>> /\ \A u \in Callers : pc[u] \notin Signalling
      BY <2>2
    <3>2. \A u \in Callers : u # t => pc'[u] \notin Signalling
      BY <1>10, <3>1 DEF SignalCompleted
    <3>3. reports' = <<>> /\ completed'
      BY <1>10, <3>1 DEF SignalCompleted
    <3>. QED  BY <3>2, <3>3, <3>1
  <2>. QED  BY <2>1, <2>2
<1>11. ASSUME NEW t \in Callers, LockHandle(t) PROVE Reported'
  BY <1>11 DEF LockHandle
<1>12. ASSUME NEW t \in Callers, WriteHandle(t) PROVE Reported'
  BY <1>12 DEF WriteHandle
<1>13. ASSUME NEW t \in Callers, UnlockHandle(t) PROVE Reported'
  BY <1>13 DEF UnlockHandle
<1>14. ASSUME NEW t \in Callers, Report(t) PROVE Reported'
  BY <1>14 DEF Report
<1>15. ASSUME NEW t \in Callers, Release(t) PROVE Reported'
  BY <1>15 DEF Release
<1>16. CASE UNCHANGED vars
  BY <1>16 DEF vars
<1>. QED  BY <1>1, <1>2, <1>3, <1>4, <1>5, <1>6, <1>7, <1>8, <1>9, <1>10,
    <1>11, <1>12, <1>13, <1>14, <1>15, <1>16 DEF Next, CallbackStep,
    CancellerStep, SharedStep, Callers

(* Everything a thread writes after a cancellation says so.                *)
LEMMA CancelledStep ==
  ASSUME IsFiniteSet(Cancellers), Worker \notin Cancellers, Inv, [Next]_vars
  PROVE  Cancelled'
<1>. USE DEF Inv, Types, Submitted, Exchanged, HasExchanged, Fresh, Cancelled,
    Took, WorkerStopped, Goto, Carry, block, Callers, Statuses, Signalling,
    Ending, Early, WorkerLabels, CancellerLabels
<1>1. CASE Submit
  BY <1>1 DEF Submit
<1>2. CASE SubmitFails
  BY <1>2 DEF SubmitFails
<1>3. CASE StoreHandle
  BY <1>3 DEF StoreHandle
<1>4. CASE TakeLock
  BY <1>4 DEF TakeLock
<1>5. CASE ExchangeHandle
  BY <1>5 DEF ExchangeHandle
<1>6. CASE UnlockUpdate
  BY <1>6 DEF UnlockUpdate
<1>7. CASE LookUp
  BY <1>7 DEF LookUp
<1>8. ASSUME NEW c \in Cancellers, CancelRead(c) PROVE Cancelled'
  BY <1>8 DEF CancelRead
<1>9. ASSUME NEW c \in Cancellers, CancelExchange(c) PROVE Cancelled'
  BY <1>9 DEF CancelExchange
<1>10. ASSUME NEW t \in Callers, SignalCompleted(t) PROVE Cancelled'
  BY <1>10 DEF SignalCompleted
<1>11. ASSUME NEW t \in Callers, LockHandle(t) PROVE Cancelled'
  BY <1>11 DEF LockHandle
<1>12. ASSUME NEW t \in Callers, WriteHandle(t) PROVE Cancelled'
  BY <1>12 DEF WriteHandle
<1>13. ASSUME NEW t \in Callers, UnlockHandle(t) PROVE Cancelled'
  BY <1>13 DEF UnlockHandle
<1>14. ASSUME NEW t \in Callers, Report(t) PROVE Cancelled'
  BY <1>14 DEF Report
<1>15. ASSUME NEW t \in Callers, Release(t) PROVE Cancelled'
  BY <1>15 DEF Release
<1>16. CASE UNCHANGED vars
  BY <1>16 DEF vars
<1>. QED  BY <1>1, <1>2, <1>3, <1>4, <1>5, <1>6, <1>7, <1>8, <1>9, <1>10,
    <1>11, <1>12, <1>13, <1>14, <1>15, <1>16 DEF Next, CallbackStep,
    CancellerStep, SharedStep, Callers

(* Every owner that comes or goes takes its reference along.               *)
LEMMA CountedStep ==
  ASSUME IsFiniteSet(Cancellers), Worker \notin Cancellers, Inv, [Next]_vars
  PROVE  Counted'
<1>. USE DEF Inv, Types, Submitted, Exchanged, HasExchanged, Goto, Carry,
    block, Callers, Statuses, Signalling, Ending, Early, WorkerLabels,
    CancellerLabels
<1>1. CASE Submit
  <2>1. Users = {} /\ Worker \in Callers
    BY <1>1 DEF Submit, Users
  <2>2. Users' = {Worker}
    BY <1>1, <2>1 DEF Submit, Users
  <2>3. Cardinality({Worker}) = 1 /\ IsFiniteSet({Worker})
    BY FS_Singleton
  <2>4. HandleOwns' <=> wants
    BY <1>1 DEF Submit, HandleOwns
  <2>. QED  BY <1>1, <2>2, <2>3, <2>4 DEF Submit, Counted, Owned
<1>2. CASE SubmitFails
  <2>1. Users' = {}
    BY <1>2 DEF SubmitFails, Users
  <2>2. ~HandleOwns'
    BY <1>2 DEF SubmitFails, HandleOwns
  <2>. QED  BY <1>2, <2>1, <2>2, FS_EmptySet DEF SubmitFails, Counted, Owned
<1>3. CASE StoreHandle
  <2>1. Users' = Users
    BY <1>3 DEF StoreHandle, Users
  <2>2. HandleOwns /\ HandleOwns' /\ ~late
    BY <1>3 DEF StoreHandle, HandleOwns
  <2>. QED  BY <1>3, <2>1, <2>2 DEF StoreHandle, Counted, Owned
<1>4. CASE TakeLock
  <2>1. Users' = Users
    BY <1>4 DEF TakeLock, Users
  <2>2. HandleOwns' <=> HandleOwns
    BY <1>4 DEF TakeLock, HandleOwns
  <2>. QED  BY <1>4, <2>1, <2>2 DEF TakeLock, Counted, Owned
<1>5. CASE ExchangeHandle
  <2>1. Users' = Users
    BY <1>5 DEF ExchangeHandle, Users
  <2>2. HandleOwns' <=> HandleOwns
    BY <1>5 DEF ExchangeHandle, HandleOwns
  <2>. QED  BY <1>5, <2>1, <2>2 DEF ExchangeHandle, Counted, Owned
<1>6. CASE UnlockUpdate
  <2>1. Users' = Users
    BY <1>6 DEF UnlockUpdate, Users
  <2>2. HandleOwns' <=> HandleOwns
    BY <1>6 DEF UnlockUpdate, HandleOwns
  <2>. QED  BY <1>6, <2>1, <2>2 DEF UnlockUpdate, Counted, Owned
<1>7. CASE LookUp
  <2>1. Users' = Users
    BY <1>7 DEF LookUp, Users
  <2>2. HandleOwns' <=> HandleOwns
    BY <1>7 DEF LookUp, HandleOwns
  <2>. QED  BY <1>7, <2>1, <2>2 DEF LookUp, Counted, Owned
<1>8. ASSUME NEW c \in Cancellers, CancelRead(c) PROVE Counted'
  <2>1. Users' = Users
    BY <1>8 DEF CancelRead, Users
  <2>2. HandleOwns' <=> HandleOwns
    BY <1>8 DEF CancelRead, HandleOwns
  <2>. QED  BY <1>8, <2>1, <2>2 DEF CancelRead, Counted, Owned
<1>9. ASSUME NEW c \in Cancellers, CancelExchange(c) PROVE Counted'
  <2>1. CASE handle = "block"
    <3>1. Users' = Users \cup {c} /\ c \notin Users
      BY <1>9, <2>1 DEF CancelExchange, Users
    <3>2. Cardinality(Users') = Cardinality(Users) + 1 /\ IsFiniteSet(Users')
      BY <3>1, FS_AddElement DEF Counted
    <3>3. HandleOwns /\ ~HandleOwns'
      BY <1>9, <2>1 DEF CancelExchange, HandleOwns
    <3>4. Cardinality(Users) \in Nat
      BY FS_CardinalityType DEF Counted
    <3>. QED  BY <1>9, <3>2, <3>3, <3>4 DEF CancelExchange, Counted, Owned
  <2>2. CASE handle # "block"
    <3>1. Users' = Users
      BY <1>9, <2>2 DEF CancelExchange, Users
    <3>2. HandleOwns' <=> HandleOwns
      BY <1>9, <2>2 DEF CancelExchange, HandleOwns
    <3>. QED  BY <1>9, <3>1, <3>2 DEF CancelExchange, Counted, Owned
  <2>. QED  BY <2>1, <2>2
<1>10. ASSUME NEW t \in Callers, SignalCompleted(t) PROVE Counted'
  <2>1. Users' = Users
    BY <1>10 DEF SignalCompleted, Users
  <2>2. HandleOwns' <=> HandleOwns
    BY <1>10 DEF SignalCompleted, HandleOwns
  <2>. QED  BY <1>10, <2>1, <2>2 DEF SignalCompleted, Counted, Owned
<1>11. ASSUME NEW t \in Callers, LockHandle(t) PROVE Counted'
  <2>1. Users' = Users
    BY <1>11 DEF LockHandle, Users
  <2>2. HandleOwns' <=> HandleOwns
    BY <1>11 DEF LockHandle, HandleOwns
  <2>. QED  BY <1>11, <2>1, <2>2 DEF LockHandle, Counted, Owned
<1>12. ASSUME NEW t \in Callers, WriteHandle(t) PROVE Counted'
  <2>1. Users' = Users
    BY <1>12 DEF WriteHandle, Users
  <2>2. HandleOwns' => HandleOwns
    BY <1>12 DEF WriteHandle, HandleOwns
  <2>3. ~late => (HandleOwns' <=> HandleOwns)
    BY <1>12 DEF WriteHandle, HandleOwns
  <2>4. Cardinality(Users) \in Nat
    BY FS_CardinalityType DEF Counted
  <2>. QED  BY <1>12, <2>1, <2>2, <2>3, <2>4 DEF WriteHandle, Counted, Owned
<1>13. ASSUME NEW t \in Callers, UnlockHandle(t) PROVE Counted'
  <2>1. Users' = Users
    BY <1>13 DEF UnlockHandle, Users
  <2>2. HandleOwns' <=> HandleOwns
    BY <1>13 DEF UnlockHandle, HandleOwns
  <2>. QED  BY <1>13, <2>1, <2>2 DEF UnlockHandle, Counted, Owned
<1>14. ASSUME NEW t \in Callers, Report(t) PROVE Counted'
  <2>1. Users' = Users
    BY <1>14 DEF Report, Users
  <2>2. HandleOwns' <=> HandleOwns
    BY <1>14 DEF Report, HandleOwns
  <2>. QED  BY <1>14, <2>1, <2>2 DEF Report, Counted, Owned
<1>15. ASSUME NEW t \in Callers, Release(t) PROVE Counted'
  <2>1. t \in Users /\ caller \in {"store", "returned"}
    BY <1>15 DEF Release, Users
  <2>2. ref >= 1 /\ Cardinality(Users) \in Nat
    BY <2>1, UsersHoldReferences, FS_CardinalityType DEF Counted
  <2>3. caller' \in {"store", "returned"} /\ (freed' <=> ref' = 0)
    <3>1. ref' = ref - 1 /\ caller' = caller /\ (freed' <=> (freed \/ ref = 1))
      BY <1>15 DEF Release
    <3>2. ~freed
      BY <2>1, <2>2 DEF Counted
    <3>. QED  BY <3>1, <3>2, <2>1, <2>2
  <2>4. CASE pc[t] = "release"
    <3>1. Users' = Users \ {t}
      BY <1>15, <2>4 DEF Release, Users
    <3>2. Cardinality(Users') = Cardinality(Users) - 1 /\ IsFiniteSet(Users')
      BY <3>1, <2>1, FS_RemoveElement DEF Counted
    <3>3. HandleOwns' <=> HandleOwns
      BY <1>15, <2>4 DEF Release, HandleOwns
    <3>. QED  BY <1>15, <2>2, <2>3, <3>2, <3>3 DEF Release, Counted, Owned
  <2>5. CASE pc[t] = "releaseHandle"
    <3>1. Users' = Users
      BY <1>15, <2>5 DEF Release, Users
    <3>2. HandleOwns /\ ~HandleOwns'
      BY <1>15, <2>5 DEF Release, HandleOwns
    <3>. QED  BY <1>15, <2>2, <2>3, <3>1, <3>2 DEF Release, Counted, Owned
  <2>. QED  BY <1>15, <2>4, <2>5 DEF Release
<1>16. CASE UNCHANGED vars
  BY <1>16 DEF vars, Counted, Users, Owned, HandleOwns
<1>. QED  BY <1>1, <1>2, <1>3, <1>4, <1>5, <1>6, <1>7, <1>8, <1>9, <1>10,
    <1>11, <1>12, <1>13, <1>14, <1>15, <1>16 DEF Next, CallbackStep,
    CancellerStep, SharedStep, Callers

LEMMA Initially ==
  ASSUME Worker \notin Cancellers, Init
  PROVE  Inv
<1>. USE DEF Init, Callers
<1>1. Types
  <2>1. <<>> \in Seq(Statuses \cup {"block"})
    OBVIOUS
  <2>. QED  BY <2>1 DEF Types, Statuses, Signalling, Ending, Early, WorkerLabels,
                        CancellerLabels
<1>2. Submitted
  BY DEF Submitted
<1>3. Counted
  <2>1. Users = {} /\ ~HandleOwns
    BY DEF Users, HandleOwns
  <2>. QED  BY <2>1, FS_EmptySet DEF Counted, Owned
<1>4. Exchanged
  BY DEF Exchanged, HasExchanged, Ending, Signalling
<1>5. Untouched /\ Reported
  BY DEF Untouched, Fresh, Reported, Signalling
<1>6. Cancelled
  BY DEF Cancelled, Took, Ending, Signalling
<1>. QED  BY <1>1, <1>2, <1>3, <1>4, <1>5, <1>6 DEF Inv

(* In every state of a lookup the invariant holds: who is where, who has a *)
(* reference, who has the block, and what has been done for the caller.    *)
THEOREM LookupInvariance ==
  ASSUME IsFiniteSet(Cancellers), Worker \notin Cancellers
  PROVE  Spec => []Inv
<1>1. Init => Inv
  BY Initially
<1>2. Inv /\ [Next]_vars => Inv'
  BY TypesStep, SubmittedStep, CountedStep, ExchangedStep, UntouchedStep,
     ReportedStep, CancelledStep DEF Inv
<1>. QED  BY <1>1, <1>2, PTL DEF Spec

(* The parameter block of a lookup is freed by its last owner and never    *)
(* while the callback or a canceller is inside; a handle stored in time    *)
(* loses no reference.                                                     *)
THEOREM BlockOutlivesItsUsers ==
  ASSUME IsFiniteSet(Cancellers), Worker \notin Cancellers
  PROVE  Spec => []BlockOutlivesUse
<1>1. Inv => BlockOutlivesUse
  <2>. SUFFICES ASSUME Inv PROVE BlockOutlivesUse
    OBVIOUS
  <2>1. Users # {} => ~freed /\ ref >= Cardinality(Users)
    <3>. SUFFICES ASSUME NEW t \in Users PROVE ~freed /\ ref >= Cardinality(Users)
      OBVIOUS
    <3>1. caller \in {"store", "returned"}
      BY DEF Inv, Types, Submitted, Users, Callers
    <3>2. ref >= Cardinality(Users) /\ ref # 0
      BY UsersHoldReferences DEF Inv, Counted
    <3>. QED  BY <3>1, <3>2 DEF Inv, Counted
  <2>2. caller = "out" => ~HandleOwns
    BY DEF Inv, Submitted, HandleOwns
  <2>. QED  BY <2>1, <2>2 DEF Inv, Counted, Owned, BlockOutlivesUse
<1>. QED  BY <1>1, LookupInvariance, PTL

(* A lookup is reported once; and when GetAddrInfoExCancel has returned    *)
(* success, for a handle stored in time, the name is not looked up and the *)
(* report says WSA_E_CANCELLED.                                            *)
THEOREM SuccessfulCancelIsReported ==
  ASSUME IsFiniteSet(Cancellers), Worker \notin Cancellers
  PROVE  Spec => []CancelIsReported
<1>1. Inv => CancelIsReported
  BY DEF Inv, Reported, Cancelled, Took, CancelIsReported
<1>. QED  BY <1>1, LookupInvariance, PTL
=============================================================================
