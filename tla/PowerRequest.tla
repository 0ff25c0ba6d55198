---------------------------- MODULE PowerRequest -----------------------------
(***************************************************************************)
(* PowerSetRequest and PowerClearRequest of                                *)
(* api-ms-win-core-kernel32-legacy.hpp, for Windows Vista.  The requests   *)
(* of a process share one task of the thread runner: a word {uRef, pTask}  *)
(* exchanged as a whole, and in the task a counter per request type.  The  *)
(* runner's thread calls the task back for each message and shows Windows  *)
(* what is requested (SetThreadExecutionState).                            *)
(*                                                                         *)
(* The runner is reduced to what ThreadRunner shows of it: it starts with  *)
(* the first reference, closes some time after the last one, keeps of      *)
(* several pending tasks only the oldest, and once it has a task with a    *)
(* callback it calls it again and again until the task is removed.         *)
(***************************************************************************)
EXTENDS Naturals, Sequences, FiniteSets

CONSTANTS
  Clients,   \* threads that set and clear requests
  Types,     \* the types of request they use
  Tasks,     \* addresses HeapAlloc can return
  MaxSets,   \* how often a client calls PowerSetRequest (bound of the model)
  Nil

VARIABLES
  word,      \* PowerRequestInfo: uRef and pTask
  heap,      \* which addresses are allocated
  callback,  \* pfnCallback of each task: set or removed
  count,     \* RequestTypeCount of each task
  total,     \* uCount of each task
  shown,     \* fFlagsCurrent of each task: {} until it is first computed
  system,    \* what the runner's thread has requested from Windows
  refs,      \* references to the runner, without that of its window
  up,        \* does the runner's thread exist?
  head,      \* pCallbackList, which never holds more than one task
  pending,   \* pPendingCallbackList, the newest first
  msgs,      \* the queue of the runner's window
  worker,    \* what the runner's thread is doing
  pc, task, type,  \* of each client: where it is, its _pTask, _eRequestType
  mine,      \* the task it allocated in this call
  held,      \* the requests it has set and not cleared, by type
  sets,      \* how often it has called PowerSetRequest
  crashed    \* has a thread used a task after it was freed?

taskVars == <<word, heap, callback, count, total, shown>>
runnerVars == <<refs, up, head, pending, msgs, worker, system>>
clientVars == <<pc, task, type, mine, held, sets>>
vars == <<taskVars, runnerVars, clientVars, crashed>>

NoCounts == [r \in Types |-> 0]
Idle == [at |-> "idle", msg |-> [task |-> Nil, release |-> FALSE], todo |-> {},
         flags |-> {}, drop |-> Nil, merged |-> FALSE, called |-> FALSE]

Init ==
  /\ word = [ref |-> 0, task |-> Nil]
  /\ heap = {}
  /\ callback = [t \in Tasks |-> FALSE]
  /\ count = [t \in Tasks |-> NoCounts]
  /\ total = [t \in Tasks |-> 0]
  /\ shown = [t \in Tasks |-> {}]
  /\ system = {}
  /\ refs = 0 /\ up = FALSE
  /\ head = Nil /\ pending = <<>> /\ msgs = <<>>
  /\ worker = Idle
  /\ pc = [c \in Clients |-> "out"]
  /\ task = [c \in Clients |-> Nil]
  /\ type = [c \in Clients |-> CHOOSE r \in Types : TRUE]
  /\ mine = [c \in Clients |-> Nil]
  /\ held = [c \in Clients |-> NoCounts]
  /\ sets = [c \in Clients |-> 0]
  /\ crashed = FALSE

Goto(c, label) == pc' = [pc EXCEPT ![c] = label]

(* PostMessageW: without a window the message goes nowhere.                *)
Post(m) == msgs' = IF up THEN Append(msgs, m) ELSE msgs

Close == [task |-> Nil, release |-> FALSE]

(* ThreadRunner::Release: the last reference asks the window to close.     *)
ReleaseRunner ==
  /\ refs' = refs - 1
  /\ IF refs = 1 THEN Post(Close) ELSE UNCHANGED msgs

(* A use of a task that was freed: the process is not followed further.    *)
Use(t) == /\ ~crashed
          /\ crashed' = (t \notin heap)

-----------------------------------------------------------------------------
(* PowerSetRequest.                                                        *)

(* Check the arguments and take a reference to the runner, which starts    *)
(* its thread if need be.                                                  *)
Set(c, r) ==
  /\ pc[c] = "out" /\ sets[c] < MaxSets
  /\ sets' = [sets EXCEPT ![c] = @ + 1]
  /\ type' = [type EXCEPT ![c] = r]
  /\ refs' = refs + 1
  /\ up' = TRUE
  /\ Goto(c, "addRef")
  /\ UNCHANGED <<taskVars, head, pending, msgs, worker, system, task, mine, held>>

(* The compare-exchange that takes a reference to the current task.        *)
ShareTask(c) ==
  /\ pc[c] = "addRef" /\ word.ref > 0
  /\ word' = [word EXCEPT !.ref = @ + 1]
  /\ Goto(c, "dropRunner")
  /\ UNCHANGED <<heap, callback, count, total, shown, runnerVars, task, type,
                 mine, held, sets>>

(* The one that publishes a new task.                                      *)
NewTask(c) ==
  \E t \in Tasks \ heap :
    /\ pc[c] = "addRef" /\ word.ref = 0
    /\ word' = [ref |-> 1, task |-> t]
    /\ heap' = heap \cup {t}
    /\ callback' = [callback EXCEPT ![t] = TRUE]
    /\ count' = [count EXCEPT ![t] = NoCounts]
    /\ total' = [total EXCEPT ![t] = 0]
    /\ shown' = [shown EXCEPT ![t] = {}]
    /\ mine' = [mine EXCEPT ![c] = t]
    /\ Goto(c, "check")
    /\ UNCHANGED <<runnerVars, task, type, held, sets>>

(* "The exchange failed, so delete it": the word is read again to see.     *)
CheckMine(c) ==
  /\ pc[c] = "check"
  /\ heap' = IF mine[c] # word.task THEN heap \ {mine[c]} ELSE heap
  /\ mine' = [mine EXCEPT ![c] = Nil]
  /\ Goto(c, "addTask")
  /\ UNCHANGED <<word, callback, count, total, shown, runnerVars, task, type,
                 held, sets>>

(* AddTask(pTask): a reference to the runner for the task, which is pushed *)
(* in front of the pending ones.                                           *)
AddTask(c) ==
  /\ pc[c] = "addTask"
  /\ IF word.task # Nil /\ callback[word.task]
     THEN /\ refs' = refs + 1
          /\ pending' = <<word.task>> \o pending
          /\ Goto(c, "dropRunner")
     ELSE /\ Goto(c, "fail")
          /\ UNCHANGED <<refs, pending>>
  /\ UNCHANGED <<taskVars, up, head, msgs, worker, system, task, type, mine,
                 held, sets>>

(* The reference of the call itself is given back.                         *)
DropRunner(c) ==
  /\ pc[c] \in {"dropRunner", "fail"}
  /\ ReleaseRunner
  /\ Goto(c, IF pc[c] = "fail" THEN "out" ELSE "getTask")
  /\ UNCHANGED <<taskVars, up, head, pending, worker, system, task, type, mine,
                 held, sets>>

GetTask(c) ==
  /\ pc[c] = "getTask"
  /\ task' = [task EXCEPT ![c] = word.task]
  /\ Goto(c, "countAll")
  /\ UNCHANGED <<taskVars, runnerVars, type, mine, held, sets>>

CountAll(c) ==
  /\ pc[c] = "countAll"
  /\ Use(task[c])
  /\ total' = IF task[c] \in heap THEN [total EXCEPT ![task[c]] = @ + 1] ELSE total
  /\ Goto(c, "countType")
  /\ UNCHANGED <<word, heap, callback, count, shown, runnerVars, task, type,
                 mine, held, sets>>

(* InterlockedIncrement(&RequestTypeCount[]) == 0 is never true: no        *)
(* message is posted.                                                      *)
CountType(c) ==
  /\ pc[c] = "countType"
  /\ Use(task[c])
  /\ count' = IF task[c] \in heap THEN [count EXCEPT ![task[c]][type[c]] = @ + 1]
              ELSE count
  /\ held' = [held EXCEPT ![c][type[c]] = @ + 1]
  /\ Goto(c, "out")
  /\ UNCHANGED <<word, heap, callback, total, shown, runnerVars, task, type,
                 mine, sets>>

-----------------------------------------------------------------------------
(* PowerClearRequest, by a client that has set such a request.             *)
Clear(c, r) ==
  /\ pc[c] = "out" /\ held[c][r] > 0
  /\ held' = [held EXCEPT ![c][r] = @ - 1]
  /\ type' = [type EXCEPT ![c] = r]
  /\ task' = [task EXCEPT ![c] = word.task]
  /\ Goto(c, IF word.task = Nil THEN "out" ELSE "uncount")
  /\ UNCHANGED <<taskVars, runnerVars, mine, sets>>

Uncount(c) ==
  LET n == count[task[c]][type[c]] IN
  /\ pc[c] = "uncount"
  /\ Use(task[c])
  /\ count' = IF task[c] \in heap /\ n > 0
              THEN [count EXCEPT ![task[c]][type[c]] = n - 1] ELSE count
  /\ Goto(c, CASE n = 0 -> "out" [] n = 1 -> "uncountAll" [] OTHER -> "release")
  /\ UNCHANGED <<word, heap, callback, total, shown, runnerVars, task, type,
                 mine, held, sets>>

UncountAll(c) ==
  /\ pc[c] = "uncountAll"
  /\ Use(task[c])
  /\ total' = IF task[c] \in heap THEN [total EXCEPT ![task[c]] = @ - 1] ELSE total
  /\ Goto(c, IF total[task[c]] = 1 THEN "postLast" ELSE "postMore")
  /\ UNCHANGED <<word, heap, callback, count, shown, runnerVars, task, type,
                 mine, held, sets>>

(* The last one leaves its reference to the callback, so that the state is *)
(* sure to reach the system.                                               *)
PostChange(c) ==
  /\ pc[c] \in {"postLast", "postMore"}
  /\ Post([task |-> task[c], release |-> pc[c] = "postLast"])
  /\ Goto(c, IF pc[c] = "postLast" THEN "out" ELSE "release")
  /\ UNCHANGED <<taskVars, refs, up, head, pending, worker, system, task, type,
                 mine, held, sets>>

(* PowerRequestInfo::Release, up to its compare-exchange.                  *)
NextWord == IF word.ref = 1 THEN [ref |-> 0, task |-> Nil]
            ELSE [word EXCEPT !.ref = @ - 1]

Release(c) ==
  /\ pc[c] = "release"
  /\ IF word.ref = 0
     THEN Goto(c, "out") /\ UNCHANGED <<word, task>>
     ELSE /\ word' = NextWord
          /\ task' = [task EXCEPT ![c] = word.task]
          /\ Goto(c, IF word.ref = 1 THEN "remove" ELSE "out")
  /\ UNCHANGED <<heap, callback, count, total, shown, runnerVars, type, mine,
                 held, sets>>

(* RemoveTask: the first to take the callback away gives the reference of  *)
(* the task to the runner back.                                            *)
Removed(t) ==
  /\ Use(t)
  /\ callback' = [callback EXCEPT ![t] = FALSE]
  /\ IF callback[t] THEN ReleaseRunner ELSE UNCHANGED <<refs, msgs>>

Remove(c) ==
  /\ pc[c] = "remove"
  /\ Removed(task[c])
  /\ Goto(c, "out")
  /\ UNCHANGED <<word, heap, count, total, shown, up, head, pending, worker,
                 system, task, type, mine, held, sets>>

ClientStep(c) ==
  \/ CountAll(c) \/ CountType(c) \/ Uncount(c) \/ UncountAll(c) \/ Remove(c)
  \/ /\ UNCHANGED crashed
     /\ ~crashed
     /\ \/ ShareTask(c) \/ NewTask(c) \/ CheckMine(c) \/ AddTask(c)
        \/ DropRunner(c) \/ GetTask(c) \/ PostChange(c) \/ Release(c)

Call(c) ==
  /\ ~crashed
  /\ UNCHANGED crashed
  /\ \E r \in Types : Set(c, r) \/ Clear(c, r)

-----------------------------------------------------------------------------
(* The runner's thread.                                                    *)

(* The last task of a list whose newest element comes first: the reversal  *)
(* of WindowProcW loses the others.                                        *)
Oldest(s) == IF s = <<>> THEN Nil ELSE s[Len(s)]

TakeMessage ==
  LET m == Head(msgs) IN
  /\ worker.at = "idle" /\ msgs # <<>>
  /\ ~(m = Close /\ refs = 0)
  /\ msgs' = Tail(msgs)
  /\ worker' = IF m = Close THEN worker
               ELSE [Idle EXCEPT !.at = "walk", !.msg = m]
  /\ UNCHANGED <<taskVars, refs, up, head, pending, system, clientVars, crashed>>

(* TryClean, when nobody took a reference since: every task goes.          *)
CloseWindow ==
  /\ worker.at = "idle" /\ msgs # <<>> /\ Head(msgs) = Close
  /\ refs = 0
  /\ heap' = heap \ ({head} \cup {pending[i] : i \in 1 .. Len(pending)})
  /\ up' = FALSE /\ msgs' = <<>> /\ head' = Nil /\ pending' = <<>>
  /\ system' = {}
  /\ UNCHANGED <<word, callback, count, total, shown, refs, worker,
                 clientVars, crashed>>

(* The task at the head of the list is called back; the loop does not      *)
(* advance, so this is repeated until its callback is removed.  For a      *)
(* message to another task the callback does nothing.                      *)
CallBack ==
  /\ worker.at = "walk" /\ head # Nil
  /\ callback[head] /\ worker.msg.task = head
  /\ worker' = [worker EXCEPT !.at = "read", !.todo = Types, !.flags = {},
                              !.called = TRUE]
  /\ UNCHANGED <<taskVars, refs, up, head, pending, msgs, system, clientVars,
                 crashed>>

(* A task without a callback is unlinked and freed.                        *)
DropTask ==
  /\ worker.at = "walk" /\ head # Nil
  /\ ~callback[head]
  /\ heap' = heap \ {head}
  /\ head' = Nil
  /\ UNCHANGED <<word, callback, count, total, shown, refs, up, pending, msgs,
                 worker, system, clientVars, crashed>>

(* The pending tasks are linked behind the last task called, which the     *)
(* loop has freed since, or else become the list.                          *)
Merge ==
  /\ worker.at = "walk" /\ head = Nil /\ ~worker.merged
  /\ crashed' = (crashed \/ (pending # <<>> /\ worker.called))
  /\ head' = Oldest(pending)
  /\ pending' = <<>>
  /\ worker' = [worker EXCEPT !.merged = TRUE]
  /\ UNCHANGED <<taskVars, refs, up, msgs, system, clientVars>>

EndWalk ==
  /\ worker.at = "walk" /\ head = Nil /\ worker.merged
  /\ worker' = Idle
  /\ UNCHANGED <<taskVars, refs, up, head, pending, msgs, system, clientVars,
                 crashed>>

(* PowerRequestInfo's Callback: the counters are read one by one,          *)
ReadCount ==
  \E r \in worker.todo :
    /\ worker.at = "read"
    /\ worker' = [worker EXCEPT !.todo = @ \ {r},
                   !.flags = IF count[head][r] > 0 THEN @ \cup {r} ELSE @]
    /\ UNCHANGED <<taskVars, refs, up, head, pending, msgs, system, clientVars,
                   crashed>>

(* a change is shown to the system,                                        *)
Show ==
  /\ worker.at = "read" /\ worker.todo = {}
  /\ shown' = [shown EXCEPT ![head] = worker.flags]
  /\ system' = IF shown[head] # worker.flags THEN worker.flags ELSE system
  /\ worker' = [worker EXCEPT !.at = IF worker.msg.release THEN "release" ELSE "walk"]
  /\ UNCHANGED <<word, heap, callback, count, total, refs, up, head, pending,
                 msgs, clientVars, crashed>>

(* and the reference the last PowerClearRequest left is dropped.           *)
WorkerRelease ==
  /\ worker.at = "release"
  /\ word' = IF word.ref = 0 THEN word ELSE NextWord
  /\ worker' = IF word.ref = 1
               THEN [worker EXCEPT !.at = "remove", !.drop = word.task]
               ELSE [worker EXCEPT !.at = "walk"]
  /\ UNCHANGED <<heap, callback, count, total, shown, refs, up, head, pending,
                 msgs, system, clientVars, crashed>>

WorkerRemove ==
  /\ worker.at = "remove"
  /\ Removed(worker.drop)
  /\ worker' = [worker EXCEPT !.at = "walk", !.drop = Nil]
  /\ UNCHANGED <<word, heap, count, total, shown, up, head, pending, system,
                 clientVars>>

WorkerStep ==
  /\ ~crashed
  /\ \/ TakeMessage \/ CallBack \/ DropTask \/ Merge \/ EndWalk
     \/ ReadCount \/ Show \/ WorkerRelease \/ WorkerRemove \/ CloseWindow

Next == WorkerStep \/ \E c \in Clients : Call(c) \/ ClientStep(c)

(* Every thread that is inside a call, and the runner's thread, goes on.   *)
Fairness == WF_vars(WorkerStep) /\ \A c \in Clients : WF_vars(ClientStep(c))

Spec == Init /\ [][Next]_vars /\ Fairness

-----------------------------------------------------------------------------
(* "The state has changed: notify, so that it is applied" (the comment in  *)
(* PowerSetRequest): a request a client has set is shown to the system,    *)
(* unless the client clears it again.                                      *)
RequestReachesSystem ==
  \A c \in Clients, r \in Types :
    (pc[c] = "out" /\ held[c][r] > 0) ~> (r \in system \/ held[c][r] = 0 \/ crashed)
=============================================================================
