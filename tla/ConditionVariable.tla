-------------------------- MODULE ConditionVariable --------------------------
(***************************************************************************)
(* The condition variables of api-ms-win-core-synch.hpp: one word with the *)
(* newest of the blocks waiting threads keep on their stacks, a bit that   *)
(* gives one thread the list to repair, and a count of the wake-ups other  *)
(* threads ask that thread for (7: wake all).  The links are those of      *)
(* SRWLock.  The lock of the caller, a critical section or an SRWLock, is  *)
(* taken for what RWLock promises of it, with writers only.                *)
(*                                                                         *)
(* Blocks are never moved to the queue of the SRWLock: their field SRWLock *)
(* is always null, so that RtlpQueueWaitBlockToSRWLock is not called.      *)
(***************************************************************************)
EXTENDS Naturals, FiniteSets

CONSTANTS
  Waiters, Wakers,   \* threads that sleep once, threads that wake once
  TimedChoices,      \* sets of waiters that may have a timeout
  WakesAll,          \* the wakers that call WakeAllConditionVariable
  Nil

VARIABLES
  cv,                        \* the word
  back, notify, next, flag,  \* the fields of each waiter's block
  owner,     \* the thread that holds the caller's lock
  pc,        \* where each thread is
  status,    \* its ConditionVariableStatus, or Current
  new,       \* its New, in RtlpWakeSingle
  wanted,    \* its WakeCount
  oldest,    \* the oldest block of the list, which it takes next
  first,     \* the first of the blocks it took, each of which leads back to the next
  wakee,     \* the block whose keyed event it releases
  count,     \* Count: how many it took one by one
  gone,      \* has RtlpWakeSingle found its block?
  timed,     \* the waiters that have a timeout
  expired,   \* those whose timeout has passed
  owed,      \* how many waiters of the list the calls so far have to wake
  called     \* the waiters a WakeAllConditionVariable found in the list

links == <<back, notify, next>>
local == <<status, new, wanted, oldest, first, wakee, count, gone>>
history == <<timed, expired, owed, called>>
vars == <<cv, links, flag, owner, pc, local, history>>

Callers == Waiters \cup Wakers
All == 7
Empty == [top |-> Nil, busy |-> FALSE, wakes |-> 0]
Min2(a, b) == IF a < b THEN a ELSE b

Init ==
  /\ cv = Empty
  /\ back = [w \in Waiters |-> Nil]
  /\ notify = [w \in Waiters |-> Nil]
  /\ next = [w \in Waiters |-> Nil]
  /\ flag = [w \in Waiters |-> FALSE]
  /\ owner = Nil
  /\ pc = [t \in Callers |-> "start"]
  /\ status = [t \in Callers |-> Empty]
  /\ new = [t \in Callers |-> Empty]
  /\ wanted = [t \in Callers |-> 0]
  /\ oldest = [t \in Callers |-> Nil]
  /\ first = [t \in Callers |-> Nil]
  /\ wakee = [t \in Callers |-> Nil]
  /\ count = [t \in Callers |-> 0]
  /\ gone = [t \in Callers |-> FALSE]
  /\ timed \in TimedChoices
  /\ expired = {} /\ owed = 0 /\ called = {}

Goto(t, label) == pc' = [pc EXCEPT ![t] = label]

(* A compare-exchange that, when it fails, lets t see the word again.      *)
Exchange(t, word, success, failure) ==
  IF cv = status[t]
  THEN cv' = word /\ Goto(t, success) /\ UNCHANGED status
  ELSE /\ status' = [status EXCEPT ![t] = cv]
       /\ Goto(t, failure)
       /\ UNCHANGED cv

-----------------------------------------------------------------------------
(* The list.                                                               *)

(* The blocks a walk from b along the links f meets: the least set with b  *)
(* and all its blocks lead to; and the one at its end.                     *)
Reach(f, b) ==
  {x \in Waiters : \A S \in SUBSET Waiters :
     (b \in S \cup {Nil} /\ \A y \in S : f[y] \in S \cup {Nil}) => x \in S}
End(f, b) == CHOOSE x \in Reach(f, b) : f[x] = Nil

(* All blocks from b on; those up to the first that knows the oldest.      *)
Chain(b) == Reach(back, b)
Older == [x \in Waiters |-> IF notify[x] # Nil THEN Nil ELSE back[x]]
Oldest(b) == notify[End(Older, b)]

(* Every block a walk along f passes learns its newer neighbour.           *)
Linked(f, b) ==
  [w \in Waiters |-> IF \E x \in Reach(f, b) : f[x] = w
                     THEN CHOOSE x \in Reach(f, b) : f[x] = w
                     ELSE next[w]]

(* t appends b to the blocks it has taken: to the links k, and to first.   *)
Appended(t, b, k) == IF first[t] = Nil THEN k ELSE [k EXCEPT ![End(back, first[t])] = b]
Take(t, b) == first' = [first EXCEPT ![t] = IF @ = Nil THEN b ELSE @]

(* What the calls still owe once n more waiters were taken from the list:  *)
(* nothing, if it is empty.                                                *)
OwedAfter(word, n) == IF word.top = Nil \/ n > owed THEN 0 ELSE owed - n

-----------------------------------------------------------------------------
(* SleepConditionVariableCS, SleepConditionVariableSRW.                    *)

Lock(w) ==
  /\ pc[w] = "start" /\ owner = Nil
  /\ owner' = w
  /\ Goto(w, "in")
  /\ UNCHANGED <<cv, links, flag, local, history>>

(* A block behind others asks for the list to be optimised; the thread     *)
(* that asks first does it.                                                *)
Push(w) ==
  /\ pc[w] = "in"
  /\ cv' = [cv EXCEPT !.top = w, !.busy = @ \/ cv.top # Nil]
  /\ back' = [back EXCEPT ![w] = cv.top]
  /\ notify' = [notify EXCEPT ![w] = IF cv.top = Nil THEN w ELSE Nil]
  /\ next' = [next EXCEPT ![w] = Nil]
  /\ flag' = [flag EXCEPT ![w] = TRUE]
  /\ status' = [status EXCEPT ![w] = cv']
  /\ Goto(w, IF cv'.busy /\ ~cv.busy THEN "unlockOptimize" ELSE "unlock")
  /\ UNCHANGED <<owner, new, wanted, oldest, first, wakee, count, gone, history>>

Unlock(w) ==
  /\ pc[w] \in {"unlock", "unlockOptimize"}
  /\ owner' = Nil
  /\ Goto(w, IF pc[w] = "unlock" THEN "spin" ELSE "optimize")
  /\ UNCHANGED <<cv, links, flag, local, history>>

(* The flag is reset by the waiter, who then sleeps, or by a waker, for    *)
(* whom it need not sleep any more.                                        *)
FallAsleep(w) ==
  /\ pc[w] = "spin"
  /\ flag' = [flag EXCEPT ![w] = FALSE]
  /\ Goto(w, IF flag[w] THEN "keyed" ELSE "relock")
  /\ UNCHANGED <<cv, links, owner, local, history>>

Timeout(w) ==
  /\ pc[w] = "keyed" /\ w \in timed
  /\ expired' = expired \cup {w}
  /\ Goto(w, "expired")
  /\ UNCHANGED <<cv, links, flag, owner, local, timed, owed, called>>

Relock(w) ==
  /\ pc[w] = "relock" /\ owner = Nil
  /\ owner' = w
  /\ Goto(w, "returned")
  /\ UNCHANGED <<cv, links, flag, local, history>>

Leave(w) ==
  /\ pc[w] = "returned"
  /\ owner' = Nil
  /\ Goto(w, "out")
  /\ UNCHANGED <<cv, links, flag, local, history>>

-----------------------------------------------------------------------------
(* RtlpOptimizeConditionVariableWaitList.                                  *)

Optimize(w) ==
  LET b == status[w].top IN
  /\ pc[w] = "optimize"
  /\ next' = Linked(Older, b)
  /\ notify' = [notify EXCEPT ![b] = Oldest(b)]
  /\ Goto(w, "optimizeCas")
  /\ UNCHANGED <<cv, back, flag, owner, local, history>>

(* Mutant: it gives the list back whatever was asked for meanwhile.        *)
OptimizeDone_NoCompare(w) ==
  /\ pc[w] = "optimizeCas"
  /\ cv' = [Empty EXCEPT !.top = cv.top]
  /\ wanted' = [wanted EXCEPT ![w] = 0]
  /\ count' = [count EXCEPT ![w] = 0]
  /\ Goto(w, "spin")
  /\ UNCHANGED <<links, flag, owner, status, new, oldest, first, wakee, gone, history>>

OptimizeDone(w) ==
  /\ pc[w] = "optimizeCas"
  /\ Exchange(w, [Empty EXCEPT !.top = status[w].top], "spin",
              IF cv.wakes > 0 THEN "wake" ELSE "optimize")
  /\ wanted' = [wanted EXCEPT ![w] = 0]
  /\ count' = [count EXCEPT ![w] = 0]
  /\ UNCHANGED <<links, flag, owner, new, oldest, first, wakee, gone, history>>

-----------------------------------------------------------------------------
(* RtlpWakeConditionVariable: it takes blocks from the old end of the list *)
(* until it has as many as it and others want, or all of them.             *)

MaxWake(t) == wanted[t] + status[t].wakes

WakeAllAsked(t) ==
  /\ pc[t] = "wake" /\ status[t].wakes = All
  /\ cv' = Empty
  /\ back' = Appended(t, cv.top, back)
  /\ Take(t, cv.top)
  /\ owed' = 0
  /\ Goto(t, "signal")
  /\ UNCHANGED <<notify, next, flag, owner, status, new, wanted, oldest, wakee, count,
                 gone, timed, expired, called>>

FindOldest(t) ==
  /\ pc[t] = "wake" /\ status[t].wakes < All
  /\ next' = Linked(Older, status[t].top)
  /\ oldest' = [oldest EXCEPT ![t] = Oldest(status[t].top)]
  /\ Goto(t, IF MaxWake(t) > count[t] THEN "take" ELSE "wakeCas")
  /\ UNCHANGED <<cv, back, notify, flag, owner, status, new, wanted, first, wakee, count,
                 gone, history>>

TakeOldest(t) ==
  LET b == status[t].top
      o == oldest[t] IN
  /\ pc[t] = "take" /\ next[o] # Nil
  /\ back' = Appended(t, o, [back EXCEPT ![o] = Nil, ![next[o]] = Nil])
  /\ notify' = [notify EXCEPT ![b] = next[o]]
  /\ oldest' = [oldest EXCEPT ![t] = next[o]]
  /\ Take(t, o)
  /\ count' = [count EXCEPT ![t] = @ + 1]
  /\ owed' = OwedAfter(cv, 1)
  /\ Goto(t, IF MaxWake(t) > count'[t] THEN "take" ELSE "wakeCas")
  /\ UNCHANGED <<cv, next, flag, owner, status, new, wanted, wakee, gone, timed, expired,
                 called>>

GiveListBack(t) ==
  /\ pc[t] = "wakeCas"
  /\ Exchange(t, [Empty EXCEPT !.top = status[t].top], "signal", "wake")
  /\ UNCHANGED <<links, flag, owner, new, wanted, oldest, first, wakee, count, gone, history>>

(* The last block goes with the whole list.                                *)
TakeLast(t) ==
  LET o == oldest[t] IN
  /\ pc[t] = "take" /\ next[o] = Nil
  /\ Exchange(t, Empty, "signal", "wake")
  /\ IF cv = status[t]
     THEN back' = Appended(t, o, [back EXCEPT ![o] = Nil]) /\ Take(t, o)
     ELSE UNCHANGED <<back, first>>
  /\ owed' = OwedAfter(cv', 0)
  /\ UNCHANGED <<notify, next, flag, owner, new, wanted, oldest, wakee, count, gone, timed,
                 expired, called>>

(* Mutant: a waiter that did not find its block does not wait for the one  *)
(* who took it.                                                            *)
After_NoSecondWait(t) == IF t \in Wakers THEN "out"
                         ELSE IF t \notin expired THEN "spin"
                         ELSE "relock"

(* Where a thread goes on when it has woken what it took.                  *)
After(t) == IF t \in Wakers THEN "out"
            ELSE IF t \notin expired THEN "spin"
            ELSE IF gone[t] THEN "relock"
            ELSE "keyedAgain"

Signal(t) ==
  LET b == first[t] IN
  /\ pc[t] = "signal" /\ b # Nil
  /\ first' = [first EXCEPT ![t] = back[b]]
  /\ wakee' = [wakee EXCEPT ![t] = b]
  /\ flag' = [flag EXCEPT ![b] = FALSE]
  /\ Goto(t, IF flag[b] THEN "signal" ELSE "release")
  /\ UNCHANGED <<cv, links, owner, status, new, wanted, oldest, count, gone, history>>

Finish(t) ==
  /\ pc[t] = "signal" /\ first[t] = Nil
  /\ Goto(t, After(t))
  /\ UNCHANGED <<cv, links, flag, owner, local, history>>

(* NtReleaseKeyedEvent waits for the owner of the block.                   *)
ReleaseEvent(t) ==
  LET b == wakee[t] IN
  /\ pc[t] = "release" /\ pc[b] \in {"keyed", "keyedAgain"}
  /\ pc' = [pc EXCEPT ![t] = "signal", ![b] = "relock"]
  /\ UNCHANGED <<cv, links, flag, owner, local, history>>

-----------------------------------------------------------------------------
(* RtlpWakeSingle: a waiter whose timeout has passed takes its own block   *)
(* out of the list; if another thread has the list, it has all waiters     *)
(* woken and waits for its turn.                                           *)
LeaveList(w) ==
  /\ pc[w] = "expired"
  /\ IF cv = Empty \/ cv.wakes = All \/ cv.busy
     THEN /\ cv' = IF cv = Empty THEN cv ELSE [cv EXCEPT !.wakes = All]
          /\ Goto(w, "keyedAgain")
          /\ UNCHANGED <<status, new>>
     ELSE /\ cv' = [cv EXCEPT !.busy = TRUE]
          /\ status' = [status EXCEPT ![w] = cv']
          /\ new' = [new EXCEPT ![w] = cv']
          /\ Goto(w, "remove")
  /\ gone' = [gone EXCEPT ![w] = FALSE]
  /\ UNCHANGED <<links, flag, owner, wanted, oldest, first, wakee, count, history>>

(* Its block is the newest one.  The flags of the word come from New: when *)
(* the exchange is repeated they are those of before.                      *)
RemoveTop(w) ==
  LET word == IF back[w] = Nil THEN Empty ELSE [new[w] EXCEPT !.top = back[w]] IN
  /\ pc[w] = "remove" /\ status[w].top = w
  /\ new' = [new EXCEPT ![w] = word]
  /\ IF cv = status[w]
     THEN /\ cv' = word
          /\ status' = [status EXCEPT ![w] = word]
          /\ gone' = [gone EXCEPT ![w] = TRUE]
          /\ Goto(w, IF word = Empty THEN "relock" ELSE "remove")
     ELSE /\ status' = [status EXCEPT ![w] = cv]
          /\ UNCHANGED <<cv, gone, pc>>
  /\ owed' = OwedAfter(cv', 0)
  /\ UNCHANGED <<links, flag, owner, wanted, oldest, first, wakee, count, timed, expired,
                 called>>

(* The walk through the whole list, which unlinks its block if it is there.*)
RemoveInside(w) ==
  LET b == status[w].top
      kept == [x \in Waiters |-> IF x \in Chain(b) /\ back[x] = w THEN back[w] ELSE back[x]]
  IN
  /\ pc[w] = "remove" /\ b # w
  /\ back' = kept
  /\ next' = [Linked(kept, b) EXCEPT ![b] = Nil]
  /\ notify' = [notify EXCEPT ![b] = End(kept, b)]
  /\ gone' = [gone EXCEPT ![w] = @ \/ w \in Chain(b)]
  /\ wanted' = [wanted EXCEPT ![w] = 0]
  /\ count' = [count EXCEPT ![w] = 0]
  /\ Goto(w, "wake")
  /\ UNCHANGED <<cv, flag, owner, status, new, oldest, first, wakee, history>>

-----------------------------------------------------------------------------
(* WakeConditionVariable, WakeAllConditionVariable.                        *)

Return(k) == Goto(k, "out") /\ UNCHANGED <<status, wanted, count, first>>

WakeOne(k) ==
  /\ pc[k] = "start" /\ k \notin WakesAll
  /\ IF cv = Empty \/ cv.wakes = All
     THEN Return(k) /\ UNCHANGED <<cv, owed>>
     ELSE /\ owed' = Min2(owed + 1, Cardinality(Waiters))
          /\ IF cv.busy
             THEN cv' = [cv EXCEPT !.wakes = @ + 1] /\ Return(k)
             ELSE /\ cv' = [cv EXCEPT !.busy = TRUE]
                  /\ status' = [status EXCEPT ![k] = cv']
                  /\ wanted' = [wanted EXCEPT ![k] = 1]
                  /\ count' = [count EXCEPT ![k] = 0]
                  /\ Goto(k, "wake")
                  /\ UNCHANGED first
  /\ UNCHANGED <<links, flag, owner, new, oldest, wakee, gone, timed, expired, called>>

(* Mutant: who finds the list taken asks for one wake-up only.             *)
WakeEverybody_One(k) ==
  /\ pc[k] = "start" /\ k \in WakesAll
  /\ called' = called \cup Chain(cv.top)
  /\ IF cv = Empty \/ cv.busy
     THEN /\ cv' = IF cv = Empty \/ cv.wakes = All THEN cv
                   ELSE [cv EXCEPT !.wakes = @ + 1]
          /\ Return(k)
     ELSE /\ cv' = Empty
          /\ first' = [first EXCEPT ![k] = cv.top]
          /\ Goto(k, "signal")
          /\ UNCHANGED <<status, wanted, count>>
  /\ owed' = OwedAfter(cv', 0)
  /\ UNCHANGED <<links, flag, owner, new, oldest, wakee, gone, timed, expired>>

WakeEverybody(k) ==
  /\ pc[k] = "start" /\ k \in WakesAll
  /\ called' = called \cup Chain(cv.top)
  /\ IF cv = Empty \/ cv.busy
     THEN /\ cv' = IF cv = Empty THEN cv ELSE [cv EXCEPT !.wakes = All]
          /\ Return(k)
     ELSE /\ cv' = Empty
          /\ first' = [first EXCEPT ![k] = cv.top]
          /\ Goto(k, "signal")
          /\ UNCHANGED <<status, wanted, count>>
  /\ owed' = OwedAfter(cv', 0)
  /\ UNCHANGED <<links, flag, owner, new, oldest, wakee, gone, timed, expired>>

-----------------------------------------------------------------------------
Wake(t) ==
  \/ WakeAllAsked(t) \/ FindOldest(t) \/ TakeOldest(t) \/ GiveListBack(t) \/ TakeLast(t)
  \/ Signal(t) \/ Finish(t) \/ ReleaseEvent(t)

Step(t) ==
  \/ Wake(t)
  \/ /\ t \in Waiters
     /\ \/ Push(t) \/ Unlock(t) \/ FallAsleep(t) \/ Timeout(t) \/ Relock(t) \/ Leave(t)
        \/ Optimize(t) \/ OptimizeDone(t)
        \/ LeaveList(t) \/ RemoveTop(t) \/ RemoveInside(t)

Call(t) == \/ t \in Waiters /\ Lock(t)
           \/ t \in Wakers /\ (WakeOne(t) \/ WakeEverybody(t))

Next == \E t \in Callers : Call(t) \/ Step(t)

(* A thread that is inside a call goes on, and leaves the lock.            *)
Fairness == \A t \in Callers : WF_vars(Step(t))

Spec == Init /\ [][Next]_vars /\ Fairness

-----------------------------------------------------------------------------
(* Every block in the list, every block taken from it and every block a    *)
(* waker finds is on the stack of a thread that has not gone on: no walk   *)
(* meets a block that is gone, and no waker releases an event nobody will  *)
(* wait for.                                                               *)
Inside(w) == pc[w] \notin {"start", "in", "relock", "returned", "out"}
NoDanglingBlock ==
  /\ \A w \in Chain(cv.top) : Inside(w)
  /\ \A t \in Callers :
       /\ \A w \in Chain(first[t]) : Inside(w)
       /\ pc[t] = "release" => Inside(wakee[t])
       /\ pc[t] \in {"optimize", "wake"} =>
            Reach(next, Oldest(status[t].top)) \cup Chain(status[t].top) \subseteq Chain(cv.top)

(* Without timeouts: when nobody has the list, the calls of                *)
(* WakeConditionVariable have taken as many waiters from it as they must.  *)
NoWakeLost == (timed = {} /\ cv.top # Nil /\ ~cv.busy) => owed = 0

(* Without timeouts: every thread that was in the list when                *)
(* WakeAllConditionVariable was called comes back from its call.           *)
CalledReturn ==
  (timed = {} /\ called # {}) ~> (\A w \in called : pc[w] = "out")
=============================================================================
