----------------------------- MODULE ThreadPool ------------------------------
(***************************************************************************)
(* TP_Pool and the work objects of api-ms-win-core-threadpool.hpp.  A pool *)
(* is a queue and a 64-bit word: the count of tasks to wake up for, a lock *)
(* for each end of the queue, the stop flag and the number of runners.  A  *)
(* runner is a work item of QueueUserWorkItem that empties the queue.  A   *)
(* work object counts its pending and its running callbacks, and has an    *)
(* event that those wait for who want them done.                           *)
(*                                                                         *)
(* A compare-exchange repeated until it succeeds is one step, and so is    *)
(* the queue's Push or Pop, each made under its lock (module TaskQueue).   *)
(* Callers obey the API: no work object is used after CloseThreadpoolWork, *)
(* and nobody but callbacks of the pool uses it after CloseThreadpool.     *)
(***************************************************************************)
EXTENDS Naturals, Integers, Sequences, FiniteSets

CONSTANTS
  Clients,      \* threads that call the API
  Runners,      \* threads of the system's pool
  Works,        \* work objects
  Maximum,      \* the largest uParallelMaximum
  MaxPosts,     \* how often work is submitted (bound of the model)
  MaxWaits,     \* how often each client waits (bound of the model)
  Nil

VARIABLES
  wref, pending, working, event,  \* of each work object
  wclosed,    \* the work objects whose CloseThreadpoolWork was called
  ref,        \* the pool's uRef
  wakeups, parallel, stop, pushLock, popLock,  \* the pool's flags
  maximum,    \* uParallelMaximum, set before the pool is used
  queue,
  pc,         \* where each thread is
  task,       \* the work object each thread is busy with
  old,        \* uParallelCurrent before each thread's push
  closing,    \* has CloseThreadpool been called?
  posts, waits,
  cancels     \* has a waiter cancelled pending callbacks?

workVars == <<wref, pending, working, event, wclosed>>
flags == <<wakeups, parallel, stop, pushLock, popLock>>
poolVars == <<ref, flags, maximum, queue, closing>>
bounds == <<posts, waits, cancels>>
vars == <<workVars, poolVars, pc, task, old, bounds>>

PoolThreads == Clients \cup Runners

Init ==
  /\ wref = [w \in Works |-> 1]
  /\ pending = [w \in Works |-> 0]
  /\ working = [w \in Works |-> 0]
  /\ event = [w \in Works |-> TRUE]
  /\ wclosed = {}
  /\ ref = 1
  /\ wakeups = 0 /\ parallel = 0
  /\ stop = FALSE /\ pushLock = FALSE /\ popLock = FALSE
  /\ maximum \in 1..Maximum
  /\ queue = <<>>
  /\ pc = [t \in PoolThreads |-> "out"]
  /\ task = [t \in PoolThreads |-> Nil]
  /\ old = [t \in PoolThreads |-> 0]
  /\ closing = FALSE
  /\ posts = 0
  /\ waits = [c \in Clients |-> 0]
  /\ cancels = FALSE

Goto(t, label) == pc' = [pc EXCEPT ![t] = label]

(* A thread comes back from SubmitThreadpoolWork to where it was; a thread *)
(* that is done has no task any more.                                      *)
Back(t) == IF t \in Runners THEN "callback" ELSE "out"
Done(t) == task' = [task EXCEPT ![t] = Nil]

-----------------------------------------------------------------------------
(* PostWork.                                                               *)

Post(t, w) ==
  /\ posts < MaxPosts
  /\ posts' = posts + 1
  /\ task' = [task EXCEPT ![t] = w]
  /\ wref' = IF stop THEN wref ELSE [wref EXCEPT ![w] = @ + 1]
  /\ Goto(t, IF stop THEN Back(t) ELSE "addPending")
  /\ UNCHANGED <<pending, working, event, wclosed, poolVars, old, waits, cancels>>

Submit(c, w) == pc[c] = "out" /\ ~closing /\ w \notin wclosed /\ Post(c, w)

Resubmit(r) == pc[r] = "callback" /\ task[r] \notin wclosed /\ Post(r, task[r])

AddPending(t) ==
  LET w == task[t] IN
  /\ pc[t] = "addPending"
  /\ pending' = [pending EXCEPT ![w] = @ + 1]
  /\ Goto(t, IF pending[w] = 0 THEN "resetEvent" ELSE "push")
  /\ UNCHANGED <<wref, working, event, wclosed, poolVars, task, old, bounds>>

ResetEvent(t) ==
  /\ pc[t] = "resetEvent"
  /\ event' = [event EXCEPT ![task[t]] = FALSE]
  /\ Goto(t, "push")
  /\ UNCHANGED <<wref, pending, working, wclosed, poolVars, task, old, bounds>>

(* The exchange that counts the task, locks the queue's end and perhaps    *)
(* makes room for one more runner.                                         *)
More == parallel < maximum /\ wakeups + 1 >= parallel

LockPush(t) ==
  /\ pc[t] = "push" /\ ~pushLock
  /\ ref' = ref + 1
  /\ wakeups' = wakeups + 1
  /\ pushLock' = TRUE
  /\ parallel' = IF More THEN parallel + 1 ELSE parallel
  /\ old' = IF More THEN [old EXCEPT ![t] = parallel] ELSE old
  /\ Goto(t, IF More THEN "pushMore" ELSE "pushSame")
  /\ UNCHANGED <<workVars, stop, popLock, queue, maximum, closing, task, bounds>>

Push(t) ==
  /\ pc[t] \in {"pushMore", "pushSame"}
  /\ queue' = Append(queue, task[t])
  /\ pushLock' = FALSE
  /\ Goto(t, IF pc[t] = "pushMore" THEN "start" ELSE Back(t))
  /\ IF pc'[t] = "out" THEN Done(t) ELSE UNCHANGED task
  /\ UNCHANGED <<workVars, ref, wakeups, parallel, stop, popLock, maximum,
                 closing, old, bounds>>

(* Mutant: the first runner has no reference of its own.                   *)
StartRunner_NoRef(t) ==
  \E r \in Runners :
    /\ pc[t] = "start" /\ pc[r] = "out"
    /\ pc' = [pc EXCEPT ![t] = Back(t), ![r] = "pop"]
    /\ IF t \in Clients THEN Done(t) ELSE UNCHANGED task
    /\ old' = [old EXCEPT ![t] = 0]
    /\ UNCHANGED <<workVars, ref, flags, queue, maximum, closing, bounds>>

(* QueueUserWorkItem.  The first runner has a reference to the pool.       *)
StartRunner(t) ==
  \E r \in Runners :
    /\ pc[t] = "start" /\ pc[r] = "out"
    /\ ref' = IF old[t] = 0 THEN ref + 1 ELSE ref
    /\ pc' = [pc EXCEPT ![t] = Back(t), ![r] = "pop"]
    /\ IF t \in Clients THEN Done(t) ELSE UNCHANGED task
    /\ old' = [old EXCEPT ![t] = 0]
    /\ UNCHANGED <<workVars, flags, queue, maximum, closing, bounds>>

-----------------------------------------------------------------------------
(* PopTask, called by runners and by Close.                                *)

Pop(t) ==
  /\ pc[t] \in {"pop", "closePop"} /\ ~popLock
  /\ popLock' = TRUE
  /\ task' = [task EXCEPT ![t] = IF queue = <<>> THEN Nil ELSE Head(queue)]
  /\ queue' = IF queue = <<>> THEN queue ELSE Tail(queue)
  /\ Goto(t, IF pc[t] = "pop" THEN "popped" ELSE "closePopped")
  /\ UNCHANGED <<workVars, ref, wakeups, parallel, stop, pushLock, maximum,
                 closing, old, bounds>>

Unlock(t) ==
  LET found == task[t] # Nil IN
  /\ pc[t] \in {"popped", "closePopped"}
  /\ popLock' = FALSE
  /\ wakeups' = IF found THEN wakeups - 1 ELSE wakeups
  /\ Goto(t, IF pc[t] = "popped" THEN IF found THEN "claim" ELSE "leave"
             ELSE IF found THEN "closeCancel" ELSE "closeEnd")
  /\ UNCHANGED <<workVars, ref, parallel, stop, pushLock, queue, maximum,
                 closing, task, old, bounds>>

ReleaseWork(t) ==
  /\ pc[t] \in {"releaseWork", "closeReleaseWork"}
  /\ wref' = [wref EXCEPT ![task[t]] = @ - 1]
  /\ Goto(t, IF pc[t] = "releaseWork" THEN "releasePool" ELSE "closeReleasePool")
  /\ UNCHANGED <<pending, working, event, wclosed, poolVars, task, old, bounds>>

ReleasePool(t) ==
  /\ pc[t] \in {"releasePool", "closeReleasePool", "releaseLast", "closeEnd"}
  /\ ref' = ref - 1
  /\ Goto(t, CASE pc[t] = "releasePool" -> "pop"
               [] pc[t] = "closeReleasePool" -> "closePop"
               [] OTHER -> "out")
  /\ Done(t)
  /\ UNCHANGED <<workVars, flags, queue, maximum, closing, old, bounds>>

-----------------------------------------------------------------------------
(* ExecuteTaskRunner.                                                      *)

(* Mutant: a runner that finds its callback cancelled drops no reference.  *)
Claim_NoRelease(r) ==
  LET w == task[r] IN
  /\ pc[r] = "claim"
  /\ IF pending[w] = 0
     THEN /\ Goto(r, "pop")
          /\ UNCHANGED <<pending, working>>
     ELSE /\ pending' = [pending EXCEPT ![w] = @ - 1]
          /\ working' = [working EXCEPT ![w] = @ + 1]
          /\ Goto(r, "callback")
  /\ UNCHANGED <<wref, event, wclosed, poolVars, task, old, bounds>>

(* A callback that was cancelled meanwhile is not run.                     *)
Claim(r) ==
  LET w == task[r] IN
  /\ pc[r] = "claim"
  /\ IF pending[w] = 0
     THEN /\ Goto(r, "releaseWork")
          /\ UNCHANGED <<pending, working>>
     ELSE /\ pending' = [pending EXCEPT ![w] = @ - 1]
          /\ working' = [working EXCEPT ![w] = @ + 1]
          /\ Goto(r, "callback")
  /\ UNCHANGED <<wref, event, wclosed, poolVars, task, old, bounds>>

(* Mutant: the count is tested before it goes down.                        *)
CallbackReturns_OldCount(r) ==
  LET w == task[r] IN
  /\ pc[r] = "callback"
  /\ working' = [working EXCEPT ![w] = @ - 1]
  /\ Goto(r, IF working[w] = 0 /\ pending[w] = 0 THEN "setEvent" ELSE "releaseWork")
  /\ UNCHANGED <<wref, pending, event, wclosed, poolVars, task, old, bounds>>

CallbackReturns(r) ==
  LET w == task[r] IN
  /\ pc[r] = "callback"
  /\ working' = [working EXCEPT ![w] = @ - 1]
  /\ Goto(r, IF working[w] = 1 /\ pending[w] = 0 THEN "setEvent" ELSE "releaseWork")
  /\ UNCHANGED <<wref, pending, event, wclosed, poolVars, task, old, bounds>>

SetEvent(t) ==
  /\ pc[t] \in {"setEvent", "closeSetEvent"}
  /\ event' = [event EXCEPT ![task[t]] = TRUE]
  /\ Goto(t, IF pc[t] = "setEvent" THEN "releaseWork" ELSE "closeReleaseWork")
  /\ UNCHANGED <<wref, pending, working, wclosed, poolVars, task, old, bounds>>

(* Mutant: the runner leaves although a task was counted meanwhile.        *)
LeavePool_IgnoresWakeups(r) ==
  /\ pc[r] = "leave"
  /\ parallel' = parallel - 1
  /\ Goto(r, IF parallel = 1 THEN "releaseLast" ELSE "out")
  /\ UNCHANGED <<workVars, ref, wakeups, stop, pushLock, popLock, queue, maximum,
                 closing, task, old, bounds>>

(* The queue was empty: the runner leaves, unless there is a task again.   *)
LeavePool(r) ==
  /\ pc[r] = "leave"
  /\ parallel' = IF wakeups > 0 THEN parallel ELSE parallel - 1
  /\ Goto(r, IF wakeups > 0 THEN "pop" ELSE IF parallel = 1 THEN "releaseLast" ELSE "out")
  /\ UNCHANGED <<workVars, ref, wakeups, stop, pushLock, popLock, queue, maximum,
                 closing, task, old, bounds>>

-----------------------------------------------------------------------------
(* TppWorkWait, TpReleaseWork, Close.                                      *)

WaitForWork(c, w, cancel) ==
  /\ pc[c] = "out" /\ w \notin wclosed
  /\ waits[c] < MaxWaits
  /\ waits' = [waits EXCEPT ![c] = @ + 1]
  /\ task' = [task EXCEPT ![c] = w]
  /\ pending' = IF cancel THEN [pending EXCEPT ![w] = 0] ELSE pending
  /\ cancels' = (cancels \/ cancel)
  /\ Goto(c, "checkWork")
  /\ UNCHANGED <<wref, working, event, wclosed, poolVars, old, posts>>

CheckWork(c) ==
  LET w == task[c] IN
  /\ pc[c] = "checkWork"
  /\ Goto(c, IF pending[w] = 0 /\ working[w] = 0 THEN "out" ELSE "waitEvent")
  /\ IF pc'[c] = "out" THEN Done(c) ELSE UNCHANGED task
  /\ UNCHANGED <<workVars, poolVars, old, bounds>>

WaitEvent(c) ==
  /\ pc[c] = "waitEvent" /\ event[task[c]]
  /\ Goto(c, "out")
  /\ Done(c)
  /\ UNCHANGED <<workVars, poolVars, old, bounds>>

Busy(w) == \E c \in Clients : pc[c] # "out" /\ task[c] = w

CloseWork(c, w) ==
  /\ pc[c] = "out" /\ w \notin wclosed /\ ~Busy(w)
  /\ wclosed' = wclosed \cup {w}
  /\ wref' = [wref EXCEPT ![w] = @ - 1]
  /\ UNCHANGED <<pending, working, event, poolVars, pc, task, old, bounds>>

ClosePool(c) ==
  /\ pc[c] = "out" /\ ~closing
  /\ \A d \in Clients : pc[d] \in {"out", "checkWork", "waitEvent"}
  /\ closing' = TRUE
  /\ stop' = TRUE
  /\ Goto(c, "closePop")
  /\ UNCHANGED <<workVars, ref, wakeups, parallel, pushLock, popLock, maximum,
                 queue, task, old, bounds>>

(* Close: a task it pops is cancelled.                                     *)
CloseCancel(c) ==
  LET w == task[c]
      last == pending[w] = 1 /\ working[w] = 0 IN
  /\ pc[c] = "closeCancel"
  /\ pending' = IF pending[w] = 0 THEN pending ELSE [pending EXCEPT ![w] = @ - 1]
  /\ Goto(c, IF last THEN "closeSetEvent" ELSE "closeReleaseWork")
  /\ UNCHANGED <<wref, working, event, wclosed, poolVars, task, old, bounds>>

-----------------------------------------------------------------------------
Call(c) ==
  \/ \E w \in Works : \/ Submit(c, w) \/ CloseWork(c, w)
                      \/ \E cancel \in BOOLEAN : WaitForWork(c, w, cancel)
  \/ ClosePool(c)

Step(t) ==
  \/ AddPending(t) \/ ResetEvent(t) \/ LockPush(t) \/ Push(t) \/ StartRunner(t)
  \/ Pop(t) \/ Unlock(t) \/ ReleaseWork(t) \/ ReleasePool(t) \/ SetEvent(t)
  \/ t \in Runners /\ (Claim(t) \/ CallbackReturns(t) \/ LeavePool(t))
  \/ t \in Clients /\ (CheckWork(t) \/ WaitEvent(t) \/ CloseCancel(t))

Next == \/ \E t \in PoolThreads : Step(t)
        \/ \E c \in Clients : Call(c)
        \/ \E r \in Runners : Resubmit(r)

(* A thread inside a call or a work item goes on; a callback returns.      *)
Fairness == \A t \in PoolThreads : WF_vars(Step(t))

Spec == Init /\ [][Next]_vars /\ Fairness

-----------------------------------------------------------------------------
(* The threads whose next step touches the pool, and those whose next step *)
(* touches their task.                                                     *)
UsesPool(t) == pc[t] \in {"push", "pushMore", "pushSame", "start", "pop", "closePop",
  "popped", "closePopped", "leave", "releasePool", "closeReleasePool",
  "releaseLast", "closeEnd"}
UsesWork(t) == pc[t] \in {"addPending", "resetEvent", "claim", "callback",
  "setEvent", "closeSetEvent", "closeCancel", "releaseWork", "closeReleaseWork",
  "checkWork", "waitEvent"}

(* Nobody uses a pool or a work object whose last reference is gone: the   *)
(* references of tasks, runners and owners together last long enough.      *)
OutlivesUse ==
  \A t \in PoolThreads :
    /\ UsesPool(t) => ref > 0
    /\ UsesWork(t) => wref[task[t]] > 0

(* A task that was queued is taken from the queue, by a runner or by       *)
(* CloseThreadpool: no runner leaves while the thread that queues a task   *)
(* relies on it.                                                           *)
TasksRun == (queue # <<>>) ~> (queue = <<>>)

(* Whoever waits for callbacks nobody cancels is released when they are    *)
(* done.                                                                   *)
WaitReturns ==
  \A c \in Clients : (pc[c] = "waitEvent") ~> (pc[c] = "out" \/ cancels)

(* A closed pool is freed at last, and a closed work object too.           *)
ClosedIsFreed == (closing /\ wclosed = Works) ~> (ref = 0 /\ \A w \in Works : wref[w] = 0)
=============================================================================
