---------------------------- MODULE WaitOnAddress ----------------------------
(***************************************************************************)
(* WaitOnAddress, WakeByAddressSingle and WakeByAddressAll as YY-Thunks    *)
(* implements them before Windows 8: one bucket of the hash table of wait  *)
(* lists, api-ms-win-core-synch.hpp.                                       *)
(*                                                                         *)
(* The bucket is one word: the newest wait block and two bits.  Bit 0x2    *)
(* (lock) gives one thread the right to change the list behind the newest  *)
(* block; bit 0x1 (all) asks that thread to wake the entire list when it   *)
(* gives the lock back.  A wait block lives on the stack of its thread, so *)
(* it is named by the thread; back points to the next older block, notify  *)
(* to the next newer one, and next, on some blocks only, to the oldest.    *)
(*                                                                         *)
(* A compare-exchange loop is one action, its successful round, except     *)
(* where a failed round has changed the list.  What is done to the list    *)
(* between two interlocked operations under the lock is one action.        *)
(***************************************************************************)
EXTENDS Naturals, Sequences, FiniteSets

CONSTANTS
  Waiters,    \* threads that call WaitOnAddress
  Wakers,     \* other threads, that change a value and call WakeByAddress
  Nil,        \* the null pointer
  AddressOf,  \* the address each thread uses; all are of one bucket
  WakeAll,    \* wakers that call WakeByAddressAll, not WakeByAddressSingle
  Timed,      \* waiters that pass a finite timeout
  Calls       \* how many calls each thread makes (a bound of the model)

Callers == Waiters \cup Wakers
Addresses == {AddressOf[t] : t \in Callers}
Blocks == Waiters \cup {Nil}

VARIABLES
  head,     \* *ppFirstBlock
  back, notify, next,  \* the links of each wait block
  flag,     \* its state: 1 spinning, 0 asleep, 2 woken, 4 timed out
  changed,  \* addresses whose value no longer is the one waited for
  pc,       \* where each thread is
  cur,      \* the word of the bucket a thread works with
  item,     \* the block a thread is looking at
  wakes,    \* blocks whose keyed event a thread is going to release
  then,     \* where a thread goes on once it has woken an entire list
  last,     \* has a waker emptied the bucket with the block it took out?
  timed,    \* does the wait of this thread have a timeout?
  calls     \* how often each thread has made its call

links == <<back, notify, next>>
local == <<cur, item, wakes, then, last>>
vars == <<head, back, notify, next, flag, changed, pc, cur, item, wakes, then,
          last, timed, calls>>

Words == [blk : Blocks, lock : BOOLEAN, all : BOOLEAN]
Empty == [blk |-> Nil, lock |-> FALSE, all |-> FALSE]

Goto(t, label) == pc' = [pc EXCEPT ![t] = label]

-----------------------------------------------------------------------------
(* The list.                                                               *)

(* The blocks a walk from b along back meets: the fewest that have b and   *)
(* whatever they lead to.                                                  *)
From(b) ==
  {w \in Waiters :
     \A S \in SUBSET Waiters :
       (b \in S \cup {Nil} /\ \A x \in S : back[x] \in S \cup {Nil}) => w \in S}

(* The first block from b that has a next pointer: a walk stops here.      *)
Hint(b) ==
  CHOOSE h \in From(b) : next[h] # Nil /\ \A x \in From(b) \ From(h) : next[x] = Nil

(* A walk over the blocks of S: each of them is noted down in the one it   *)
(* leads to.                                                               *)
Backlinked(older, S) ==
  [w \in Waiters |-> IF \E x \in S : older[x] = w THEN CHOOSE x \in S : older[x] = w
                                                 ELSE notify[w]]

(* Walk from the newest block to the first one with a next pointer, and    *)
(* copy that pointer to the newest block.                                  *)
WalkToHint(b) ==
  /\ notify' = Backlinked(back, From(b) \ From(Hint(b)))
  /\ next' = [next EXCEPT ![b] = next[Hint(b)]]

(* Give the lock back: the list stays, or is emptied to be woken entirely. *)
Unlocked(word) == IF word.all THEN Empty ELSE [word EXCEPT !.lock = FALSE]

WakeEntireList(t, word, label) ==
  /\ item' = [item EXCEPT ![t] = word.blk]
  /\ then' = [then EXCEPT ![t] = label]
  /\ Goto(t, IF word.all THEN "wakeList" ELSE label)

(* NtReleaseKeyedEvent and NtWaitForKeyedEvent meet on the address of the  *)
(* block: the releasing thread goes to label, the owner of b resumes.      *)
Meet(t, b, label) ==
  /\ pc[b] \in {"keyed", "keyedAgain", "keyedLocked"}
  /\ pc' = [pc EXCEPT ![t] = label,
                      ![b] = IF @ = "keyedLocked" THEN "unlock" ELSE "out"]

-----------------------------------------------------------------------------
Init ==
  /\ head = Empty
  /\ back = [w \in Waiters |-> Nil]
  /\ notify = [w \in Waiters |-> Nil]
  /\ next = [w \in Waiters |-> Nil]
  /\ flag = [w \in Waiters |-> 0]
  /\ changed = {}
  /\ pc = [t \in Callers |-> "out"]
  /\ cur = [t \in Callers |-> Empty]
  /\ item = [t \in Callers |-> Nil]
  /\ wakes = [t \in Callers |-> <<>>]
  /\ then = [t \in Callers |-> "out"]
  /\ last = [t \in Callers |-> FALSE]
  /\ timed = [w \in Waiters |-> FALSE]
  /\ calls = [t \in Callers |-> 0]

(* WaitOnAddress up to RtlpAddWaitBlockToWaitList: push the block.  If it  *)
(* was the push that set the lock bit, optimize the list.                  *)
Push(w) ==
  LET behind == head.blk # Nil
      locks == behind /\ ~head.lock IN
  /\ pc[w] = "out"
  /\ calls[w] < Calls[w]
  /\ calls' = [calls EXCEPT ![w] = @ + 1]
  /\ back' = [back EXCEPT ![w] = head.blk]
  /\ next' = [next EXCEPT ![w] = IF behind THEN Nil ELSE w]
  /\ notify' = [notify EXCEPT ![w] = Nil]
  /\ flag' = [flag EXCEPT ![w] = 1]
  /\ timed' = [timed EXCEPT ![w] = w \in Timed]
  /\ head' = [head EXCEPT !.blk = w, !.lock = @ \/ behind]
  /\ cur' = [cur EXCEPT ![w] = head']
  /\ Goto(w, IF locks THEN "optimize" ELSE "compare")
  /\ UNCHANGED <<changed, item, wakes, then, last>>

(* RtlpOptimizeWaitOnAddressWaitList.                                      *)
OptimizeWalk(w) ==
  /\ pc[w] = "optimize"
  /\ WalkToHint(cur[w].blk)
  /\ Goto(w, "optimizeCas")
  /\ UNCHANGED <<head, back, flag, changed, local, timed, calls>>

OptimizeUnlock(w) ==
  /\ pc[w] = "optimizeCas"
  /\ IF head = cur[w]
     THEN /\ head' = Unlocked(cur[w])
          /\ WakeEntireList(w, cur[w], "compare")
          /\ UNCHANGED cur
     ELSE /\ cur' = [cur EXCEPT ![w] = head]
          /\ Goto(w, "optimize")
          /\ UNCHANGED <<head, item, then>>
  /\ UNCHANGED <<links, flag, changed, wakes, last, timed, calls>>

(* Is the value still the one to wait on?                                  *)
Compare(w) ==
  /\ pc[w] = "compare"
  /\ Goto(w, IF AddressOf[w] \in changed THEN "remove" ELSE "spin")
  /\ UNCHANGED <<head, links, flag, changed, local, timed, calls>>
-----------------------------------------------------------------------------
(* RtlpWaitOnAddressWithTimeout                                            *)

SpinSucceeds(w) ==
  /\ pc[w] = "spin"
  /\ flag[w] % 2 = 0
  /\ Goto(w, "out")
  /\ UNCHANGED <<head, links, flag, changed, local, timed, calls>>

(* _interlockedbittestandreset(&flag, 0), then NtWaitForKeyedEvent.        *)
FallAsleep(w) ==
  /\ pc[w] = "spin"
  /\ flag[w] % 2 = 1
  /\ flag' = [flag EXCEPT ![w] = @ - 1]
  /\ Goto(w, "keyed")
  /\ UNCHANGED <<head, links, changed, local, timed, calls>>

Timeout(w) ==
  /\ pc[w] = "keyed"
  /\ timed[w]
  /\ Goto(w, "timedOut")
  /\ UNCHANGED <<head, links, flag, changed, local, timed, calls>>

(* Mutants: the block stays in the list; the mark of the waker is ignored. *)
MarkTimedOut_NoRemove(w) ==
  /\ pc[w] = "timedOut"
  /\ flag' = [flag EXCEPT ![w] = 4]
  /\ Goto(w, IF flag[w] = 2 THEN "keyedAgain" ELSE "out")
  /\ UNCHANGED <<head, links, changed, local, timed, calls>>

MarkTimedOut_IgnoresWake(w) ==
  /\ pc[w] = "timedOut"
  /\ flag' = [flag EXCEPT ![w] = 4]
  /\ Goto(w, "remove")
  /\ UNCHANGED <<head, links, changed, local, timed, calls>>

(* Whoever has already marked the block woken is going to release its      *)
(* keyed event: wait for that.                                             *)
MarkTimedOut(w) ==
  /\ pc[w] = "timedOut"
  /\ flag' = [flag EXCEPT ![w] = 4]
  /\ Goto(w, IF flag[w] = 2 THEN "keyedAgain" ELSE "remove")
  /\ UNCHANGED <<head, links, changed, local, timed, calls>>
-----------------------------------------------------------------------------
(* RtlpWaitOnAddressRemoveWaitBlock                                        *)

RemoveLock(w) ==
  /\ pc[w] = "remove"
  /\ CASE head.blk = Nil ->
            Goto(w, "giveUpRemove") /\ UNCHANGED <<head, cur>>
       [] head.blk # Nil /\ head.lock ->
            /\ head' = [head EXCEPT !.all = TRUE]
            /\ Goto(w, "giveUpRemove")
            /\ UNCHANGED cur
       [] OTHER ->
            /\ head' = [head EXCEPT !.lock = TRUE]
            /\ cur' = [cur EXCEPT ![w] = head']
            /\ Goto(w, "removeWalk")
  /\ UNCHANGED <<links, flag, changed, item, wakes, then, last, timed, calls>>

(* Somebody else holds the block, or will wake the entire list.            *)
GiveUpRemove(w) ==
  /\ pc[w] = "giveUpRemove"
  /\ flag' = [flag EXCEPT ![w] = 1]
  /\ timed' = [timed EXCEPT ![w] = FALSE]
  /\ Goto(w, IF flag[w] = 2 THEN "out" ELSE "spin")
  /\ UNCHANGED <<head, links, changed, local, calls>>

(* The block is the newest of the list: exchange the bucket first.         *)
RemoveHead(w) ==
  LET older == back[w]
      oldest == CHOOSE x \in From(older) : back[x] = Nil IN
  /\ pc[w] = "removeWalk"
  /\ cur[w].blk = w
  /\ IF head # cur[w]
     THEN /\ cur' = [cur EXCEPT ![w] = head]
          /\ UNCHANGED <<head, notify, next, pc>>
     ELSE /\ UNCHANGED cur
          /\ IF older = Nil
             THEN head' = Empty /\ Goto(w, "out") /\ UNCHANGED <<notify, next>>
             ELSE /\ head' = [cur[w] EXCEPT !.blk = older]
                  /\ notify' = [Backlinked(back, From(older)) EXCEPT ![older] = notify[w]]
                  /\ next' = [next EXCEPT ![older] = oldest]
                  /\ Goto(w, "unlock")
  /\ UNCHANGED <<back, flag, changed, item, wakes, then, last, timed, calls>>

(* The block is behind the newest one, or no longer in the list: then      *)
(* whoever took it out marks it, and releases its keyed event if it is     *)
(* asleep.                                                                 *)
RemoveBehind(w) ==
  LET newest == cur[w].blk
      found == w \in From(newest)
      newer == CHOOSE x \in From(newest) : back[x] = w
      rest == From(newest) \ {w}
      oldest == CHOOSE x \in rest : back'[x] = Nil IN
  /\ pc[w] = "removeWalk"
  /\ newest # w
  /\ back' = IF found THEN [back EXCEPT ![newer] = back[w]] ELSE back
  /\ notify' = Backlinked(back', rest)
  /\ IF found
     THEN /\ next' = [next EXCEPT ![newer] = IF back[w] = Nil THEN newer ELSE @,
                                  ![newest] = oldest]
          /\ Goto(w, "unlock")
          /\ UNCHANGED flag
     ELSE /\ next' = [next EXCEPT ![newest] = oldest]
          /\ flag' = [flag EXCEPT ![w] = 0]
          /\ Goto(w, IF flag[w] = 2 THEN "unlock" ELSE "keyedLocked")
  /\ UNCHANGED <<head, changed, local, timed, calls>>
-----------------------------------------------------------------------------
(* Giving the lock back, and RtlpWaitOnAddressWakeEntireList.              *)

(* Mutant: the list is emptied but not woken.                              *)
Unlock_NoWake(t) ==
  /\ pc[t] = "unlock"
  /\ head' = Unlocked(head)
  /\ Goto(t, "out")
  /\ UNCHANGED <<links, flag, changed, local, timed, calls>>

Unlock(t) ==
  /\ pc[t] = "unlock"
  /\ head' = Unlocked(head)
  /\ WakeEntireList(t, head, "out")
  /\ UNCHANGED <<links, flag, changed, cur, wakes, last, timed, calls>>

WakeNextOfList(t) ==
  LET b == item[t] IN
  /\ pc[t] = "wakeList"
  /\ b # Nil
  /\ item' = [item EXCEPT ![t] = back[b]]
  /\ flag' = [flag EXCEPT ![b] = 2]
  /\ IF flag[b] = 0
     THEN wakes' = [wakes EXCEPT ![t] = <<b>>] /\ Goto(t, "releaseOfList")
     ELSE UNCHANGED <<wakes, pc>>
  /\ UNCHANGED <<head, links, changed, cur, then, last, timed, calls>>

ReleaseOfList(t) ==
  /\ pc[t] = "releaseOfList"
  /\ Meet(t, wakes[t][1], "wakeList")
  /\ wakes' = [wakes EXCEPT ![t] = <<>>]
  /\ UNCHANGED <<head, links, flag, changed, cur, item, then, last, timed, calls>>

EndOfList(t) ==
  /\ pc[t] = "wakeList"
  /\ item[t] = Nil
  /\ Goto(t, then[t])
  /\ UNCHANGED <<head, links, flag, changed, local, timed, calls>>
-----------------------------------------------------------------------------
(* RtlpWakeByAddress, called by a thread that has changed the value.       *)

Change(k) ==
  /\ pc[k] = "out"
  /\ calls[k] < Calls[k]
  /\ calls' = [calls EXCEPT ![k] = @ + 1]
  /\ changed' = changed \cup {AddressOf[k]}
  /\ Goto(k, "wake")
  /\ UNCHANGED <<head, links, flag, local, timed>>

(* Mutant: a waker that finds the lock taken does not ask its holder.      *)
WakeLock_NoAsk(k) ==
  /\ pc[k] = "wake"
  /\ IF head.blk = Nil \/ head.lock
     THEN Goto(k, "out") /\ UNCHANGED <<head, cur>>
     ELSE /\ head' = [head EXCEPT !.lock = TRUE]
          /\ cur' = [cur EXCEPT ![k] = head']
          /\ Goto(k, "wakeWalk")
  /\ last' = [last EXCEPT ![k] = FALSE]
  /\ UNCHANGED <<links, flag, changed, item, wakes, then, timed, calls>>

(* Nothing to do, or the holder of the lock is asked to wake everybody, or *)
(* the lock is taken.                                                      *)
WakeLock(k) ==
  /\ pc[k] = "wake"
  /\ CASE head.blk = Nil \/ head.all ->
            Goto(k, "out") /\ UNCHANGED <<head, cur>>
       [] head.blk # Nil /\ ~head.all /\ head.lock ->
            /\ head' = [head EXCEPT !.all = TRUE]
            /\ Goto(k, "out")
            /\ UNCHANGED cur
       [] OTHER ->
            /\ head' = [head EXCEPT !.lock = TRUE]
            /\ cur' = [cur EXCEPT ![k] = head']
            /\ Goto(k, "wakeWalk")
  /\ last' = [last EXCEPT ![k] = FALSE]
  /\ UNCHANGED <<links, flag, changed, item, wakes, then, timed, calls>>

WakeWalk(k) ==
  /\ pc[k] = "wakeWalk"
  /\ WalkToHint(cur[k].blk)
  /\ item' = [item EXCEPT ![k] = next'[cur[k].blk]]
  /\ Goto(k, "wakeItem")
  /\ UNCHANGED <<head, back, flag, changed, cur, wakes, then, last, timed, calls>>

(* From the oldest block to the newest; a block of another address stays.  *)
Matches(k) == item[k] # Nil /\ AddressOf[item[k]] = AddressOf[k]

WakeSkip(k) ==
  /\ pc[k] = "wakeItem"
  /\ item[k] # Nil
  /\ ~Matches(k)
  /\ item' = [item EXCEPT ![k] = notify[item[k]]]
  /\ UNCHANGED <<head, links, flag, changed, pc, cur, wakes, then, last, timed, calls>>

(* Mark block b woken; if it was asleep its keyed event is to be released. *)
(* A single wake ends with the first block that was not yet woken.         *)
MarkWoken(k, b) ==
  /\ flag' = [flag EXCEPT ![b] = 2]
  /\ wakes' = IF flag[b] = 0 THEN [wakes EXCEPT ![k] = <<b>> \o @] ELSE wakes
  /\ item' = [item EXCEPT ![k] = notify[b]]
  /\ Goto(k, IF flag[b] # 2 /\ k \notin WakeAll THEN "release" ELSE "wakeItem")

WakeBehind(k) ==
  LET b == item[k]
      newer == notify[b]
      newest == cur[k].blk IN
  /\ pc[k] = "wakeItem"
  /\ Matches(k)
  /\ b # newest
  /\ back' = [back EXCEPT ![newer] = back[b]]
  /\ IF back[b] # Nil
     THEN /\ notify' = [notify EXCEPT ![back[b]] = newer]
          /\ UNCHANGED next
     ELSE /\ next' = [next EXCEPT ![newest] = newer, ![newer] = newer]
          /\ UNCHANGED notify
  /\ MarkWoken(k, b)
  /\ UNCHANGED <<head, changed, cur, then, last, timed, calls>>

(* The newest block: exchange the bucket first; if that fails, the list    *)
(* has grown or somebody wants everybody woken: walk again.                *)
WakeHead(k) ==
  LET b == item[k]
      older == back[b] IN
  /\ pc[k] = "wakeItem"
  /\ Matches(k)
  /\ b = cur[k].blk
  /\ IF head # cur[k]
     THEN /\ cur' = [cur EXCEPT ![k] = head]
          /\ Goto(k, "wakeWalk")
          /\ UNCHANGED <<head, notify, next, last>>
     ELSE /\ head' = IF older = Nil THEN Empty ELSE [cur[k] EXCEPT !.blk = older]
          /\ last' = [last EXCEPT ![k] = older = Nil]
          /\ Goto(k, "wakeHeadFlag")
          /\ UNCHANGED cur
          /\ IF older = Nil
             THEN UNCHANGED <<notify, next>>
             ELSE /\ notify' = [notify EXCEPT ![older] = Nil]
                  /\ next' = [next EXCEPT ![older] = next[b]]
  /\ UNCHANGED <<back, flag, changed, item, wakes, then, timed, calls>>

WakeHeadFlag(k) ==
  /\ pc[k] = "wakeHeadFlag"
  /\ MarkWoken(k, item[k])
  /\ UNCHANGED <<head, links, changed, cur, then, last, timed, calls>>

WakeEnd(k) ==
  /\ pc[k] = "wakeItem"
  /\ item[k] = Nil
  /\ Goto(k, "release")
  /\ UNCHANGED <<head, links, flag, changed, local, timed, calls>>

(* Release the keyed events, then give the lock back unless it went with   *)
(* the last block.                                                         *)
Release(k) ==
  /\ pc[k] = "release"
  /\ wakes[k] # <<>>
  /\ Meet(k, Head(wakes[k]), "release")
  /\ wakes' = [wakes EXCEPT ![k] = Tail(@)]
  /\ UNCHANGED <<head, links, flag, changed, cur, item, then, last, timed, calls>>

ReleaseEnd(k) ==
  /\ pc[k] = "release"
  /\ wakes[k] = <<>>
  /\ Goto(k, IF last[k] THEN "out" ELSE "unlock")
  /\ UNCHANGED <<head, links, flag, changed, local, timed, calls>>
-----------------------------------------------------------------------------
WaiterStep(w) ==
  \/ OptimizeWalk(w) \/ OptimizeUnlock(w) \/ Compare(w)
  \/ SpinSucceeds(w) \/ FallAsleep(w) \/ MarkTimedOut(w)
  \/ RemoveLock(w) \/ GiveUpRemove(w) \/ RemoveHead(w) \/ RemoveBehind(w)

ListStep(t) ==
  Unlock(t) \/ WakeNextOfList(t) \/ ReleaseOfList(t) \/ EndOfList(t)

WakerStep(k) ==
  \/ Change(k)
  \/ WakeLock(k) \/ WakeWalk(k) \/ WakeSkip(k) \/ WakeBehind(k) \/ WakeHead(k)
  \/ WakeHeadFlag(k) \/ WakeEnd(k) \/ Release(k) \/ ReleaseEnd(k)

(* Every waiter has returned and every waker has done its calls.           *)
Finished ==
  /\ \A t \in Callers : pc[t] = "out"
  /\ \A k \in Wakers : calls[k] = Calls[k]
  /\ UNCHANGED vars

Next ==
  \/ \E w \in Waiters : Push(w) \/ WaiterStep(w) \/ Timeout(w)
  \/ \E t \in Callers : ListStep(t)
  \/ \E k \in Wakers : WakerStep(k)
  \/ Finished

Spec == Init /\ [][Next]_vars

(* Callers that can run are scheduled.  Nobody is obliged to wait, and no  *)
(* timeout is needed for a wake-up to arrive.                              *)
Fairness ==
  /\ \A w \in Waiters : WF_vars(WaiterStep(w) \/ ListStep(w))
  /\ \A k \in Wakers : WF_vars(WakerStep(k) \/ ListStep(k))

-----------------------------------------------------------------------------
(* The lock bit of the bucket has exactly one holder: a thread that walks  *)
(* the list, waits for a keyed event inside Remove, releases keyed events  *)
(* or is about to give the lock back; and it is set exactly that long.     *)
HoldsLock(t) ==
  \/ pc[t] \in {"optimize", "optimizeCas", "removeWalk", "keyedLocked", "unlock",
                "wakeWalk"}
  \/ pc[t] \in {"wakeItem", "wakeHeadFlag", "release"} /\ ~last[t]

LockHeldOnce ==
  /\ \A t, u \in Callers : HoldsLock(t) /\ HoldsLock(u) => t = u
  /\ head.lock <=> \E t \in Callers : HoldsLock(t)

(* No list of wait blocks leads to the stack of a thread that has already  *)
(* returned from WaitOnAddress, and each of them ends, so that it contains *)
(* no block twice.                                                         *)
Inside(w) == pc[w] # "out"

SoundList(b) ==
  /\ b # Nil => \E x \in From(b) : back[x] = Nil
  /\ \A x \in From(b) : Inside(x)

NoDanglingBlock ==
  /\ SoundList(head.blk)
  /\ \A t \in Callers :
       /\ pc[t] = "wakeList" => SoundList(item[t])
       /\ pc[t] \in {"wakeItem", "wakeHeadFlag"} /\ item[t] # Nil => Inside(item[t])

(* Whenever the lock is free, the first next pointer found from the newest *)
(* block leads to the oldest one, and from there notify leads back as far  *)
(* as that first pointer: stale next pointers stay hidden behind it.       *)
HintIsSound ==
  LET newest == head.blk
      hint == Hint(newest) IN
  newest # Nil /\ ~head.lock =>
    /\ \E x \in From(newest) : next[x] # Nil
    /\ next[hint] \in From(newest) /\ back[next[hint]] = Nil
    /\ \A x \in From(hint) : back[x] # Nil => notify[back[x]] = x
    /\ notify[newest] = Nil

(* The list is changed by one thread at a time, never leads to the stack   *)
(* of a thread that has returned, and is well linked whenever it is free.  *)
ListIsSound == LockHeldOnce /\ NoDanglingBlock /\ HintIsSound

(* NtReleaseKeyedEvent blocks until somebody waits: a thread only releases *)
(* the event of a block whose owner is waiting for it or is on its way     *)
(* there and will not return before, and nobody else releases it as well.  *)
ToRelease(t) == {wakes[t][i] : i \in DOMAIN wakes[t]}

ReleaseMeetsWaiter ==
  /\ \A t \in Callers : \A b \in ToRelease(t) :
       pc[b] \in {"keyed", "timedOut", "keyedAgain", "keyedLocked"}
  /\ \A t, u \in Callers : ToRelease(t) \cap ToRelease(u) # {} => t = u

(* A sleeping waiter that nobody has marked woken can still be found: it   *)
(* is in the list, or in the hands of a thread that is going to mark it.   *)
NobodyForgotten ==
  \A w \in Waiters :
    pc[w] \in {"spin", "keyed", "keyedLocked", "keyedAgain"} =>
      \/ flag[w] = 2
      \/ w \in From(head.blk)
      \/ \E t \in Callers :
           \/ pc[t] \in {"wakeList", "releaseOfList"} /\ w \in From(item[t])
           \/ pc[t] = "wakeHeadFlag" /\ item[t] = w
           \/ w \in ToRelease(t)

(* Once the value has changed, every waiter returns: no wake-up is lost    *)
(* between the check of the value and the sleep, to the lock, or to a      *)
(* timeout.  Each thread makes a limited number of calls, so that in the   *)
(* end nobody waits.                                                       *)
EveryWaiterReturns ==
  (\E w \in Waiters : pc[w] # "out") ~> (\A w \in Waiters : pc[w] = "out")
=============================================================================
