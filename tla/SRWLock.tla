------------------------------- MODULE SRWLock -------------------------------
(***************************************************************************)
(* The slim reader/writer lock of api-ms-win-core-synch.hpp: one word of   *)
(* four flags and either a count of readers or the newest of the blocks    *)
(* waiting threads keep on their stacks.  From the newest block the others *)
(* are reached through back; notify, in the newest block that has one,     *)
(* leads to the oldest, and next from there to the newer ones.  Whoever    *)
(* sets the Waking flag may repair the links and wake threads.             *)
(*                                                                         *)
(* A read of the word followed by a compare-exchange with nothing visible  *)
(* in between is one step; a failed exchange then only repeats the read.   *)
(* NtReleaseKeyedEvent waits for the thread it releases.                   *)
(***************************************************************************)
EXTENDS Naturals, FiniteSets

CONSTANTS
  Threads,
  Modes,   \* in which modes each thread may acquire the lock
  Calls,   \* how often each thread acquires it (bound of the model)
  Nil

ASSUME LockAssumption ==
  /\ Nil \notin Threads /\ IsFiniteSet(Threads)
  /\ Modes \in [Threads -> SUBSET {"exclusive", "shared"}]
  /\ Calls \in [Threads -> Nat]

VARIABLES
  lock,                            \* the word
  back, notify, next, share, flag, \* the fields of each thread's wait block
  pc,      \* where each thread is
  mode,    \* the mode it holds or wants the lock in
  status,  \* its Status while it optimises or wakes
  then,    \* where it goes on afterwards
  first,   \* the next block it wakes
  wakee,   \* the block whose keyed event it releases
  calls    \* how many calls it has left

blocks == <<back, notify, next, share, flag>>
local == <<mode, status, then, first, wakee, calls>>
vars == <<lock, blocks, pc, local>>

Free == [Locked |-> FALSE, Waiting |-> FALSE, Waking |-> FALSE,
         MultipleShared |-> FALSE, top |-> Nil, Shared |-> 0]

Exclusive == "exclusive"
Shared == "shared"

Init ==
  /\ lock = Free
  /\ back = [t \in Threads |-> Nil]
  /\ notify = [t \in Threads |-> Nil]
  /\ next = [t \in Threads |-> Nil]
  /\ share = [t \in Threads |-> 0]
  /\ flag = [t \in Threads |-> {}]
  /\ pc = [t \in Threads |-> "out"]
  /\ mode = [t \in Threads |-> Exclusive]
  /\ status = [t \in Threads |-> Free]
  /\ then = [t \in Threads |-> "out"]
  /\ first = [t \in Threads |-> Nil]
  /\ wakee = [t \in Threads |-> Nil]
  /\ calls = [t \in Threads |-> Calls[t]]

Goto(t, label) == pc' = [pc EXCEPT ![t] = label]

-----------------------------------------------------------------------------
(* The list.                                                               *)

(* The blocks a walk from b along the links f meets: the least set with b  *)
(* and all its blocks lead to.                                             *)
Reach(f, b) ==
  {x \in Threads : \A S \in SUBSET Threads :
     (b \in S \cup {Nil} /\ \A y \in S : f[y] \in S \cup {Nil}) => x \in S}

(* The blocks from b along back to the first that knows the oldest.        *)
Older == [x \in Threads |-> IF notify[x] # Nil THEN Nil ELSE back[x]]
Walk(b) == Reach(Older, b)
Oldest(b) == notify[CHOOSE x \in Walk(b) : Older[x] = Nil]

(* On the way every block it passes learns its newer neighbour.            *)
Linked(b) ==
  [t \in Threads |-> IF \E x \in Walk(b) : Older[x] = t
                    THEN CHOOSE x \in Walk(b) : Older[x] = t
                    ELSE next[t]]

(* NtReleaseKeyedEvent by t and NtWaitForKeyedEvent by the owner of b.     *)
Meet(t, b, label) ==
  /\ pc[b] = "keyed"
  /\ pc' = [pc EXCEPT ![t] = label, ![b] = "acquire"]

-----------------------------------------------------------------------------
(* AcquireSRWLockExclusive, AcquireSRWLockShared.                          *)

(* Who may have the lock now, and the word that then results.  Only the    *)
(* first attempt of a writer also takes a lock that others wait for.       *)
Grants(m) ==
  IF m = Exclusive THEN ~lock.Locked
  ELSE ~(lock.Locked /\ (lock.Waiting \/ lock.Shared = 0))

Granted(m) ==
  IF m = Exclusive \/ lock.Waiting THEN [lock EXCEPT !.Locked = TRUE]
  ELSE [lock EXCEPT !.Locked = TRUE, !.Shared = @ + 1]

Start(t) ==
  \E m \in Modes[t] :
    /\ pc[t] = "out" /\ calls[t] > 0
    /\ calls' = [calls EXCEPT ![t] = @ - 1]
    /\ mode' = [mode EXCEPT ![t] = m]
    /\ Goto(t, "acquire")
    /\ UNCHANGED <<lock, blocks, status, then, first, wakee>>

Acquire(t) ==
  /\ pc[t] = "acquire" /\ Grants(mode[t])
  /\ lock' = Granted(mode[t])
  /\ Goto(t, "in")
  /\ UNCHANGED <<blocks, local>>

(* TryAcquireSRWLockExclusive, TryAcquireSRWLockShared.                    *)
TryAcquire(t) ==
  \E m \in Modes[t] :
    /\ pc[t] = "out" /\ calls[t] > 0
    /\ calls' = [calls EXCEPT ![t] = @ - 1]
    /\ mode' = [mode EXCEPT ![t] = m]
    /\ lock' = IF Grants(m) THEN Granted(m) ELSE lock
    /\ Goto(t, IF Grants(m) THEN "in" ELSE "out")
    /\ UNCHANGED <<blocks, status, then, first, wakee>>

(* A block behind others: the push that sets Waking also has to optimise.  *)
Queue(t) ==
  LET word == [lock EXCEPT !.Waking = TRUE, !.top = t] IN
  /\ pc[t] = "acquire" /\ ~Grants(mode[t]) /\ lock.Waiting
  /\ lock' = word
  /\ back' = [back EXCEPT ![t] = lock.top]
  /\ notify' = [notify EXCEPT ![t] = Nil]
  /\ next' = [next EXCEPT ![t] = Nil]
  /\ share' = [share EXCEPT ![t] = 0]
  /\ flag' = [flag EXCEPT ![t] = {mode[t], "waiting"}]
  /\ status' = [status EXCEPT ![t] = word]
  /\ then' = [then EXCEPT ![t] = "spin"]
  /\ Goto(t, IF lock.Waking THEN "spin" ELSE "optimize")
  /\ UNCHANGED <<mode, first, wakee, calls>>

(* The first block takes over the count of the readers.                    *)
QueueFirst(t) ==
  /\ pc[t] = "acquire" /\ ~Grants(mode[t]) /\ ~lock.Waiting
  /\ lock' = [lock EXCEPT !.Waiting = TRUE, !.top = t, !.Shared = 0,
                          !.MultipleShared = lock.Shared > 1]
  /\ notify' = [notify EXCEPT ![t] = t]
  /\ next' = [next EXCEPT ![t] = Nil]
  /\ share' = [share EXCEPT ![t] = lock.Shared]
  /\ flag' = [flag EXCEPT ![t] = {mode[t], "waiting"}]
  /\ Goto(t, "spin")
  /\ UNCHANGED <<back, local>>

(* The bit "waiting" is reset by the waiter, who then sleeps, or by a      *)
(* waker, for whom it need not sleep any more.                             *)
FallAsleep(t) ==
  /\ pc[t] = "spin"
  /\ flag' = [flag EXCEPT ![t] = @ \ {"waiting"}]
  /\ Goto(t, IF "waiting" \in flag[t] THEN "keyed" ELSE "acquire")
  /\ UNCHANGED <<lock, back, notify, next, share, local>>

-----------------------------------------------------------------------------
(* RtlpOptimizeSRWLockList.                                                *)

Optimize(t) ==
  LET b == status[t].top IN
  /\ pc[t] = "optimize"
  /\ IF status[t].Locked
     THEN /\ next' = Linked(b)
          /\ notify' = [notify EXCEPT ![b] = Oldest(b)]
          /\ Goto(t, "optimizeCas")
     ELSE /\ Goto(t, "wake")
          /\ UNCHANGED <<next, notify>>
  /\ UNCHANGED <<lock, back, share, flag, local>>

(* A compare-exchange that, when it fails, lets t look at the word again.  *)
Exchange(t, word, success, failure) ==
  IF lock = status[t]
  THEN lock' = word /\ Goto(t, success) /\ UNCHANGED status
  ELSE /\ status' = [status EXCEPT ![t] = lock]
       /\ Goto(t, failure)
       /\ UNCHANGED lock

NotWaking(t) == [status[t] EXCEPT !.Waking = FALSE]

OptimizeDone(t) ==
  /\ pc[t] = "optimizeCas"
  /\ Exchange(t, NotWaking(t), then[t], "optimize")
  /\ UNCHANGED <<blocks, mode, then, first, wakee, calls>>

-----------------------------------------------------------------------------
(* RtlpWakeSRWLock.                                                        *)

(* The oldest waiter is a writer and not the last: it alone is unlinked.   *)
UnlinkWriter(t) ==
  LET b == status[t].top
      f == Oldest(b) IN
  /\ pc[t] = "wake" /\ ~status[t].Locked
  /\ Linked(b)[f] # Nil /\ Exclusive \in flag[f]
  /\ next' = [Linked(b) EXCEPT ![f] = Nil]
  /\ notify' = [notify EXCEPT ![b] = Linked(b)[f]]
  /\ first' = [first EXCEPT ![t] = f]
  /\ Goto(t, "wakeWriter")
  /\ UNCHANGED <<lock, back, share, flag, mode, status, then, wakee, calls>>

WakeWriter(t) ==
  /\ pc[t] = "wakeWriter"
  /\ lock' = [lock EXCEPT !.Waking = FALSE]
  /\ Goto(t, "wakeEach")
  /\ UNCHANGED <<blocks, local>>

(* Otherwise the whole list is taken.                                      *)
LinkAll(t) ==
  LET b == status[t].top
      f == Oldest(b) IN
  /\ pc[t] = "wake" /\ ~status[t].Locked
  /\ ~(Linked(b)[f] # Nil /\ Exclusive \in flag[f])
  /\ next' = Linked(b)
  /\ notify' = [notify EXCEPT ![b] = f]
  /\ first' = [first EXCEPT ![t] = f]
  /\ Goto(t, "takeAll")
  /\ UNCHANGED <<lock, back, share, flag, mode, status, then, wakee, calls>>

TakeAll(t) ==
  /\ pc[t] = "takeAll"
  /\ Exchange(t, Free, "wakeEach", "wake")
  /\ UNCHANGED <<blocks, mode, then, first, wakee, calls>>

(* Mutant: the waker that stops does not reset Waking.                     *)
StopWaking_KeepsFlag(t) ==
  /\ pc[t] = "wake" /\ status[t].Locked
  /\ Goto(t, then[t])
  /\ UNCHANGED <<lock, blocks, local>>

(* Somebody holds the lock again: its release will wake the waiters.       *)
StopWaking(t) ==
  /\ pc[t] = "wake" /\ status[t].Locked
  /\ Exchange(t, NotWaking(t), then[t], "wake")
  /\ UNCHANGED <<blocks, mode, then, first, wakee, calls>>

After(t, b) == IF next[b] = Nil THEN then[t] ELSE "wakeEach"

WakeEach(t) ==
  LET b == first[t] IN
  /\ pc[t] = "wakeEach"
  /\ first' = [first EXCEPT ![t] = next[b]]
  /\ wakee' = [wakee EXCEPT ![t] = b]
  /\ flag' = [flag EXCEPT ![b] = @ \ {"waiting"}]
  /\ Goto(t, IF "waiting" \in flag[b] THEN After(t, b) ELSE "release")
  /\ UNCHANGED <<lock, back, notify, next, share, mode, status, then, calls>>

ReleaseEvent(t) ==
  /\ pc[t] = "release"
  /\ Meet(t, wakee[t], IF first[t] = Nil THEN then[t] ELSE "wakeEach")
  /\ UNCHANGED <<lock, blocks, local>>

-----------------------------------------------------------------------------
(* ReleaseSRWLockExclusive                                                 *)

ReleaseExclusive(t) ==
  /\ pc[t] = "in" /\ mode[t] = Exclusive
  /\ lock' = [lock EXCEPT !.Locked = FALSE]
  /\ status' = [status EXCEPT ![t] = lock']
  /\ then' = [then EXCEPT ![t] = "out"]
  /\ Goto(t, IF lock.Waiting /\ ~lock.Waking THEN "claim" ELSE "out")
  /\ UNCHANGED <<blocks, mode, first, wakee, calls>>

(* If the word has changed, whoever changed it looks after the waiters.    *)
Claim(t) ==
  /\ pc[t] = "claim"
  /\ IF lock = status[t]
     THEN /\ lock' = [lock EXCEPT !.Waking = TRUE]
          /\ status' = [status EXCEPT ![t] = lock']
          /\ Goto(t, "wake")
     ELSE Goto(t, "out") /\ UNCHANGED <<lock, status>>
  /\ UNCHANGED <<blocks, mode, then, first, wakee, calls>>

-----------------------------------------------------------------------------
(* ReleaseSRWLockShared                                                    *)

(* Mutant: the last but one reader frees the lock.                         *)
LeaveShared_Early(t) ==
  /\ pc[t] = "in" /\ mode[t] = Shared /\ ~lock.Waiting
  /\ lock' = IF lock.Shared <= 2 THEN Free ELSE [lock EXCEPT !.Shared = @ - 1]
  /\ Goto(t, "out")
  /\ UNCHANGED <<blocks, local>>

LeaveShared(t) ==
  /\ pc[t] = "in" /\ mode[t] = Shared /\ ~lock.Waiting
  /\ lock' = IF lock.Shared <= 1 THEN Free ELSE [lock EXCEPT !.Shared = @ - 1]
  /\ Goto(t, "out")
  /\ UNCHANGED <<blocks, local>>

(* The count of several readers is in the oldest block.                    *)
DropShare(t) ==
  LET f == Oldest(lock.top) IN
  /\ pc[t] = "in" /\ mode[t] = Shared /\ lock.Waiting /\ lock.MultipleShared
  /\ share' = [share EXCEPT ![f] = @ - 1]
  /\ Goto(t, IF share[f] > 1 THEN "out" ELSE "unlock")
  /\ UNCHANGED <<lock, back, notify, next, flag, local>>

UnlockShared(t) ==
  LET word == [lock EXCEPT !.MultipleShared = FALSE, !.Locked = FALSE,
                           !.Waking = TRUE] IN
  /\ \/ pc[t] = "unlock"
     \/ pc[t] = "in" /\ mode[t] = Shared /\ lock.Waiting /\ ~lock.MultipleShared
  /\ lock' = word
  /\ status' = [status EXCEPT ![t] = word]
  /\ then' = [then EXCEPT ![t] = "out"]
  /\ Goto(t, IF lock.Waking THEN "out" ELSE "wake")
  /\ UNCHANGED <<blocks, mode, first, wakee, calls>>

-----------------------------------------------------------------------------
Step(t) ==
  \/ Acquire(t) \/ Queue(t) \/ QueueFirst(t) \/ FallAsleep(t)
  \/ Optimize(t) \/ OptimizeDone(t)
  \/ UnlinkWriter(t) \/ WakeWriter(t) \/ LinkAll(t) \/ TakeAll(t) \/ StopWaking(t)
  \/ WakeEach(t) \/ ReleaseEvent(t)
  \/ ReleaseExclusive(t) \/ Claim(t)
  \/ LeaveShared(t) \/ DropShare(t) \/ UnlockShared(t)

Next == \E t \in Threads : Start(t) \/ TryAcquire(t) \/ Step(t)

(* Threads run, and leave the lock they hold.                              *)
Fairness == \A t \in Threads : WF_vars(Step(t))

Spec == Init /\ [][Next]_vars /\ Fairness

-----------------------------------------------------------------------------
Holders(m) == {t \in Threads : pc[t] = "in" /\ mode[t] = m}

Promise == INSTANCE RWLock WITH writers <- Holders(Exclusive), readers <- Holders(Shared)

(* The lock behaves as a reader/writer lock: AcquireSRWLock* returns only  *)
(* when nobody holds the lock in a mode that excludes the caller's.        *)
ImplementsRWLock == Promise!Spec

(* Every block that can be reached from the word, and every block a thread *)
(* has taken to wake it, is on the stack of a thread that still waits: no  *)
(* walk of a waker, an optimiser or a reader meets a block that is gone.   *)
Waits(t) ==
  \/ pc[t] \in {"spin", "keyed"}
  \/ pc[t] \in {"wakeEach", "release"} \cup {"optimize", "optimizeCas", "wake",
                                           "wakeWriter", "takeAll"} /\ then[t] = "spin"
BlocksWait ==
  /\ lock.Waiting =>
       \A b \in Walk(lock.top) \cup Reach(next, Oldest(lock.top)) : Waits(b)
  /\ \A t \in Threads : pc[t] \in {"wakeEach", "release"} =>
       \A b \in Reach(next, first[t]) : Waits(b)
  /\ \A t \in Threads : pc[t] = "release" => pc[wakee[t]] = "keyed"

(* As every thread calls only so often, all of them have got the lock and  *)
(* left it in the end: no thread sleeps on because the wake-up it waits    *)
(* for was lost between a push, a release and a wake.                      *)
EveryoneAcquires == <>[](\A t \in Threads : pc[t] = "out")
=============================================================================
