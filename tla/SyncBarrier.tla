----------------------------- MODULE SyncBarrier -----------------------------
(***************************************************************************)
(* The synchronization barrier YY-Thunks provides where Windows has none   *)
(* (before Windows 8): EnterSynchronizationBarrier and                     *)
(* DeleteSynchronizationBarrier of api-ms-win-core-synch.hpp.              *)
(*                                                                         *)
(* lRemainderThreads counts the threads still to arrive; its sign bit, the *)
(* sense, flips when the last one arrives.  The threads of one phase wait  *)
(* for the event selected by the sense; the lowest bit of the handle in    *)
(* hEvent says that somebody may be waiting for it.                        *)
(*                                                                         *)
(* Only the interlocked operations and the calls into the kernel are       *)
(* fences: the other stores are plain.  On a machine with store buffers    *)
(* they sit in the buffer of their processor until they drain, as on x86;  *)
(* without, they reach memory at once.                                     *)
(***************************************************************************)
EXTENDS Naturals, Sequences, FiniteSets

CONSTANTS
  Threads,       \* the lTotalThreads threads that share the barrier
  Phases,        \* how often each of them enters (bound of the model)
  StoreBuffers,  \* the machines to look at: with a store buffer or without
  SpinMode,      \* "never", "maybe" or "always": what the flags and counts say
  Deletable      \* ~SYNCHRONIZATION_BARRIER_FLAGS_NO_DELETE

ASSUME BarrierAssumption ==
  /\ IsFiniteSet(Threads)
  /\ Threads # {}
  /\ Phases \in Nat \ {0}
  /\ StoreBuffers \in SUBSET BOOLEAN
  /\ SpinMode \in {"never", "maybe", "always"}
  /\ Deletable \in BOOLEAN

VARIABLES
  mem,       \* the fields of YY_BARRIER: rem, total and the marks of hEvent
  signaled,  \* the two manual-reset events
  buffered,  \* does this machine have store buffers?  It never changes
  buf,       \* the store buffer of each thread's processor
  pc,        \* where each thread is
  cur,       \* Current: what its InterlockedDecrement returned
  seen,      \* the lTotalThreads a thread has read
  phase,     \* how often each thread has entered
  wins,      \* how often EnterSynchronizationBarrier has returned TRUE
  deleted    \* are the handles closed and the barrier gone?

vars == <<mem, signaled, buffered, buf, pc, cur, seen, phase, wins, deleted>>

N == Cardinality(Threads)

Remainder == [sense : {0, 1}, count : 0..N]

(* The event a phase of the given sense waits for: Current >= 0 ? 1 : 0.   *)
EventIndex(r) == IF r.sense = 0 THEN 1 ELSE 0

Mark(i) == IF i = 0 THEN "mark0" ELSE "mark1"

Flip(r) == 1 - r.sense

Goto(t, label) == pc' = [pc EXCEPT ![t] = label]

-----------------------------------------------------------------------------
(* Loads and stores.                                                       *)

Pending(t, f) == {i \in DOMAIN buf[t] : buf[t][i].field = f}

(* A load sees the thread's own youngest store, else memory.               *)
Load(t, f) ==
  IF Pending(t, f) = {}
  THEN mem[f]
  ELSE buf[t][CHOOSE i \in Pending(t, f) : \A j \in Pending(t, f) : j <= i].val

Store(t, f, v) ==
  IF buffered
  THEN /\ buf' = [buf EXCEPT ![t] = Append(@, [field |-> f, val |-> v])]
       /\ UNCHANGED mem
  ELSE /\ mem' = [mem EXCEPT ![f] = v]
       /\ UNCHANGED buf

Fence(t) == buf[t] = <<>>

Drain(t) ==
  /\ buf[t] # <<>>
  /\ mem' = [mem EXCEPT ![Head(buf[t]).field] = Head(buf[t]).val]
  /\ buf' = [buf EXCEPT ![t] = Tail(@)]
  /\ UNCHANGED <<signaled, buffered, pc, cur, seen, phase, wins, deleted>>
-----------------------------------------------------------------------------
(* InitializeSynchronizationBarrier: both events non-signaled, no marks.   *)
Init ==
  /\ mem = [rem |-> [sense |-> 0, count |-> N], total |-> N,
            mark0 |-> FALSE, mark1 |-> FALSE]
  /\ signaled = [i \in {0, 1} |-> FALSE]
  /\ buffered \in StoreBuffers
  /\ buf = [t \in Threads |-> <<>>]
  /\ pc = [t \in Threads |-> "out"]
  /\ cur = [t \in Threads |-> [sense |-> 0, count |-> N]]
  /\ seen = [t \in Threads |-> 0]
  /\ phase = [t \in Threads |-> 0]
  /\ wins = 0
  /\ deleted = FALSE

(* EnterSynchronizationBarrier: InterlockedDecrement(&lRemainderThreads).   *)
Enter(t) ==
  LET r == [mem.rem EXCEPT !.count = @ - 1] IN
  /\ pc[t] = "out"
  /\ phase[t] < Phases
  /\ Fence(t)
  /\ mem' = [mem EXCEPT !.rem = r]
  /\ cur' = [cur EXCEPT ![t] = r]
  /\ phase' = [phase EXCEPT ![t] = @ + 1]
  /\ Goto(t, IF r.count = 0 THEN "clearMark"
             ELSE IF SpinMode = "never" THEN "readMark" ELSE "spin")
  /\ UNCHANGED <<signaled, buffered, buf, seen, wins, deleted>>
-----------------------------------------------------------------------------
(* The last thread to arrive.                                              *)

(* The event of the next phase: if it is marked, unmark and reset it.      *)
ClearMark(t) ==
  LET next == 1 - EventIndex(cur[t]) IN
  /\ pc[t] = "clearMark"
  /\ IF Load(t, Mark(next))
     THEN Store(t, Mark(next), FALSE) /\ Goto(t, "resetEvent")
     ELSE UNCHANGED <<mem, buf>> /\ Goto(t, "readTotal")
  /\ UNCHANGED <<signaled, cur, seen, phase, wins, deleted>>

(* Mutant: the event of the next phase is not reset.                       *)
ResetNextEvent_Skipped(t) ==
  /\ pc[t] = "resetEvent"
  /\ Fence(t)
  /\ Goto(t, "readTotal")
  /\ UNCHANGED <<mem, signaled, buf, cur, seen, phase, wins, deleted>>

ResetNextEvent(t) ==
  /\ pc[t] = "resetEvent"
  /\ Fence(t)
  /\ signaled' = [signaled EXCEPT ![1 - EventIndex(cur[t])] = FALSE]
  /\ Goto(t, "readTotal")
  /\ UNCHANGED <<mem, buf, cur, seen, phase, wins, deleted>>

ReadTotal(t) ==
  /\ pc[t] = "readTotal"
  /\ seen' = [seen EXCEPT ![t] = Load(t, "total")]
  /\ Goto(t, IF Deletable THEN "storeTotal" ELSE "storeRem")
  /\ UNCHANGED <<mem, signaled, buf, cur, phase, wins, deleted>>

(* Mutant: the last thread does not reset the total.                       *)
StoreTotal_Skipped(t) ==
  /\ pc[t] = "storeTotal"
  /\ Goto(t, "storeRem")
  /\ UNCHANGED <<mem, signaled, buf, cur, seen, phase, wins, deleted>>

(* The last thread counts itself out; every other one adds itself when it  *)
(* leaves.                                                                 *)
StoreTotal(t) ==
  /\ pc[t] = "storeTotal"
  /\ Store(t, "total", 1)
  /\ Goto(t, "storeRem")
  /\ UNCHANGED <<signaled, cur, seen, phase, wins, deleted>>

StoreRem(t) ==
  /\ pc[t] = "storeRem"
  /\ Store(t, "rem", [sense |-> Flip(cur[t]), count |-> seen[t]])
  /\ Goto(t, "readWaiters")
  /\ UNCHANGED <<signaled, cur, seen, phase, wins, deleted>>

(* Mutant: the mark of the other event is read.                            *)
ReadWaiters_OtherEvent(t) ==
  /\ pc[t] = "readWaiters"
  /\ IF Load(t, Mark(1 - EventIndex(cur[t])))
     THEN Goto(t, "setEvent") /\ UNCHANGED wins
     ELSE Goto(t, "out") /\ wins' = wins + 1
  /\ UNCHANGED <<mem, signaled, buf, cur, seen, phase, deleted>>

(* Does anybody wait for the event of this phase?  If not, return TRUE.    *)
ReadWaiters(t) ==
  /\ pc[t] = "readWaiters"
  /\ IF Load(t, Mark(EventIndex(cur[t])))
     THEN Goto(t, "setEvent") /\ UNCHANGED wins
     ELSE Goto(t, "out") /\ wins' = wins + 1
  /\ UNCHANGED <<mem, signaled, buf, cur, seen, phase, deleted>>

WakeWaiters(t) ==
  /\ pc[t] = "setEvent"
  /\ Fence(t)
  /\ signaled' = [signaled EXCEPT ![EventIndex(cur[t])] = TRUE]
  /\ wins' = wins + 1
  /\ Goto(t, "out")
  /\ UNCHANGED <<mem, buf, cur, seen, phase, deleted>>
-----------------------------------------------------------------------------
(* The other threads.                                                      *)

(* Has the sense flipped?                                                  *)
Released(t) == Load(t, "rem").sense # cur[t].sense

SpinSeesFlip(t) ==
  /\ pc[t] = "spin"
  /\ Released(t)
  /\ Goto(t, "leave")
  /\ UNCHANGED <<mem, signaled, buf, cur, seen, phase, wins, deleted>>

SpinGivesUp(t) ==
  /\ pc[t] = "spin"
  /\ SpinMode # "always"
  /\ ~Released(t)
  /\ Goto(t, "readMark")
  /\ UNCHANGED <<mem, signaled, buf, cur, seen, phase, wins, deleted>>

ReadMark(t) ==
  /\ pc[t] = "readMark"
  /\ Goto(t, IF Load(t, Mark(EventIndex(cur[t]))) THEN "checkSense" ELSE "storeMark")
  /\ UNCHANGED <<mem, signaled, buf, cur, seen, phase, wins, deleted>>

(* Mutant: the sense is not read again after the mark is set.              *)
StoreMark_NoRecheck(t) ==
  /\ pc[t] = "storeMark"
  /\ Store(t, Mark(EventIndex(cur[t])), TRUE)
  /\ Goto(t, "wait")
  /\ UNCHANGED <<signaled, cur, seen, phase, wins, deleted>>

StoreMark(t) ==
  /\ pc[t] = "storeMark"
  /\ Store(t, Mark(EventIndex(cur[t])), TRUE)
  /\ Goto(t, "checkSense")
  /\ UNCHANGED <<signaled, cur, seen, phase, wins, deleted>>

CheckSense(t) ==
  /\ pc[t] = "checkSense"
  /\ Goto(t, IF Released(t) THEN "leave" ELSE "wait")
  /\ UNCHANGED <<mem, signaled, buf, cur, seen, phase, wins, deleted>>

WaitForEvent(t) ==
  /\ pc[t] = "wait"
  /\ signaled[EventIndex(cur[t])]
  /\ Goto(t, "leave")
  /\ UNCHANGED <<mem, signaled, buf, cur, seen, phase, wins, deleted>>

(* InterlockedIncrement(&lTotalThreads), unless NO_DELETE; return FALSE.   *)
Leave(t) ==
  /\ pc[t] = "leave"
  /\ IF Deletable
     THEN Fence(t) /\ mem' = [mem EXCEPT !.total = @ + 1]
     ELSE UNCHANGED mem
  /\ Goto(t, "out")
  /\ UNCHANGED <<signaled, buf, cur, seen, phase, wins, deleted>>
-----------------------------------------------------------------------------
(* Mutant: the events are closed without waiting.                          *)
Delete_NoWait(t) ==
  /\ Deletable
  /\ ~deleted
  /\ pc[t] = "out"
  /\ \A u \in Threads : phase[u] = Phases
  /\ deleted' = TRUE
  /\ UNCHANGED <<mem, signaled, buffered, buf, pc, cur, seen, phase, wins>>

(* DeleteSynchronizationBarrier, called by a thread that has returned from *)
(* the last phase.  It sleeps until lTotalThreads equals lRemainderThreads, *)
(* which no longer changes then, closes the events, and its caller may free *)
(* the barrier.                                                            *)
Delete(t) ==
  /\ Deletable
  /\ ~deleted
  /\ pc[t] = "out"
  /\ \A u \in Threads : phase[u] = Phases
  /\ Load(t, "total") = Load(t, "rem").count
  /\ deleted' = TRUE
  /\ UNCHANGED <<mem, signaled, buffered, buf, pc, cur, seen, phase, wins>>
-----------------------------------------------------------------------------
(* What a thread does inside EnterSynchronizationBarrier.                  *)
Step(t) ==
  /\ UNCHANGED buffered
  /\ \/ ClearMark(t) \/ ResetNextEvent(t) \/ ReadTotal(t) \/ StoreTotal(t)
     \/ StoreRem(t) \/ ReadWaiters(t) \/ WakeWaiters(t)
     \/ SpinSeesFlip(t) \/ SpinGivesUp(t) \/ ReadMark(t) \/ StoreMark(t)
     \/ CheckSense(t) \/ WaitForEvent(t) \/ Leave(t)

Finished ==
  /\ \A t \in Threads : phase[t] = Phases /\ pc[t] = "out"
  /\ UNCHANGED vars

Next ==
  \/ \E t \in Threads : Enter(t) \/ Step(t) \/ Drain(t) \/ Delete(t)
  \/ Finished

Spec == Init /\ [][Next]_vars

(* A thread that can run is scheduled, store buffers drain, and the thread *)
(* that deletes the barrier keeps trying.  Nobody is obliged to enter.     *)
FairSpec ==
  /\ Spec
  /\ \A t \in Threads : WF_vars(Step(t)) /\ WF_vars(Drain(t)) /\ WF_vars(Delete(t))
-----------------------------------------------------------------------------
(* The barrier keeps the promise of a rendezvous: nobody returns from      *)
(* EnterSynchronizationBarrier before all threads have entered that phase, *)
(* and one call per phase returns TRUE.                                    *)
Promise == INSTANCE Rendezvous WITH
  entered <- phase,
  left <- [t \in Threads |-> IF pc[t] = "out" THEN phase[t] ELSE phase[t] - 1],
  winners <- wins

ImplementsRendezvous == Promise!Spec

(* No thread waits for an event that a later phase has reset: a thread in  *)
(* WaitForSingleObject belongs to the phase in progress, or its event is   *)
(* signaled, or the last thread of its phase is still going to signal it.  *)
(* (Without store buffers: see EveryoneReturns.)                           *)
Releasing(t) ==
  pc[t] \in {"clearMark", "resetEvent", "readTotal", "storeTotal", "storeRem",
             "readWaiters", "setEvent"}

NobodyStranded ==
  ~buffered => \A t \in Threads : pc[t] = "wait" =>
    \/ mem.rem.sense = cur[t].sense
    \/ signaled[EventIndex(cur[t])]
    \/ \E u \in Threads : Releasing(u) /\ phase[u] = phase[t]

(* DeleteSynchronizationBarrier returns only when every thread that waited *)
(* has left the barrier.                                                   *)
WaitersGoneWhenDeleted ==
  deleted => \A t \in Threads : pc[t] = "out" \/ Releasing(t)

(* When everybody has entered a phase, everybody returns from it.          *)
EveryoneReturns ==
  \A k \in 1..Phases :
    (\A t \in Threads : phase[t] >= k)
      ~> (\A t \in Threads : phase[t] > k \/ pc[t] = "out")

(* The same on a machine whose memory is sequentially consistent: the      *)
(* marks, the counts and the events never lose a wake-up there.            *)
ReturnsWhenOrdered ==
  \A k \in 1..Phases :
    (~buffered /\ \A t \in Threads : phase[t] >= k)
      ~> (\A t \in Threads : phase[t] > k \/ pc[t] = "out")

(* The thread that deletes the barrier after the last phase does not wait  *)
(* for ever, on the same machine.                                          *)
DeleteReturns ==
  (~buffered /\ Deletable /\ \A t \in Threads : phase[t] = Phases) ~> deleted
=============================================================================
