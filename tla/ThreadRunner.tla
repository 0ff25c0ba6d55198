---------------------------- MODULE ThreadRunner ----------------------------
(***************************************************************************)
(* The background window thread that thunks share, ThreadRunner.h, as      *)
(* PowerRegisterSuspendResumeNotification uses it (api-ms-win-power-base): *)
(* a client adds a task, the worker calls the callback of every task for   *)
(* every window message, and the worker is started with the first          *)
(* reference and asked to stop with the last.                              *)
(*                                                                         *)
(* Tasks are heap blocks, linked through pNext into two lists: the one     *)
(* the worker walks, whose head pCallbackList is treated as the pNext of a *)
(* task of its own (Root), and the pending one clients push to.  Freed     *)
(* blocks keep their number, so that a use after the free can be seen; a   *)
(* block that is written after it was freed reads back what was written.   *)
(***************************************************************************)
EXTENDS Naturals, Sequences, FiniteSets

CONSTANTS
  Clients,       \* threads that register and unregister notifications
  Tasks,         \* every TaskItem that is ever allocated
  Workers,       \* every worker thread, with its window, that is ever started
  Nil,           \* the null pointer
  Root,          \* pCallbackList, taken for a TaskItem
  Locked,        \* MAXUINT32: uRef while the worker is started or stopped
  MaxMessages,   \* how many broadcasts Windows sends (a bound of the model)
  StartFailures, \* how starting may fail: "create", "class"
  Exits          \* does the process run its atexit functions?

ASSUME RunnerAssumption ==
  /\ IsFiniteSet(Clients) /\ IsFiniteSet(Tasks) /\ IsFiniteSet(Workers)
  /\ Root \notin Tasks
  /\ Nil \notin Tasks \cup Workers
  /\ Locked \in Nat /\ Locked > 1 + Cardinality(Tasks)
  /\ Cardinality(Workers) >= Cardinality(Tasks)
  /\ MaxMessages \in Nat
  /\ StartFailures \subseteq {"create", "class"}
  /\ Exits \in BOOLEAN

VARIABLES
  uRef,     \* 0: no worker; Locked; 1: the worker's own reference; more: in use
  hWnd,     \* the window, named by its worker
  next,     \* pNext of each task, and the head of the list the worker walks
  pending,  \* pPendingCallbackList
  callback, \* pfnCallback of each task: "none" before it is allocated
  freed,    \* tasks given back to the heap
  held,     \* tasks each client has registered
  pc,       \* where each client is
  task,     \* the task a client is adding
  starting, \* the worker a client is starting
  wpc,      \* where each worker is
  outcome,  \* how the start of a worker ended
  queue,    \* posted messages of each window
  at,       \* _pCallbackPrev
  tail,     \* _pLastCallbackPrev
  pass,     \* 1: walking pCallbackList, 2: the tasks merged into it
  mine,     \* lists a worker took in order to free them
  messages, \* how many broadcasts were sent
  exit      \* progress of the atexit function, and the window it closes

lists == <<next, pending, callback, freed>>
client == <<held, pc, task, starting>>
worker == <<wpc, outcome, queue, at, tail, pass, mine>>
vars == <<uRef, hWnd, next, pending, callback, freed, held, pc, task, starting,
          wpc, outcome, queue, at, tail, pass, mine, messages, exit>>

-----------------------------------------------------------------------------
(* The tasks of the list that starts with first: the fewest that have it   *)
(* and whatever they lead to.                                              *)
Listed(first) ==
  {t \in Tasks :
     \A S \in SUBSET Tasks :
       (first \in S \cup {Nil} /\ \A u \in S : next[u] \in S \cup {Nil}) => t \in S}

Oldest(first) == CHOOSE t \in Listed(first) : next[t] = Nil

Goto(c, label) == pc' = [pc EXCEPT ![c] = label]

WorkerGoto(w, label) == wpc' = [wpc EXCEPT ![w] = label]

HasWindow(w) == wpc[w] \notin {"none", "create", "gone"}

Init ==
  /\ uRef = 0
  /\ hWnd = Nil
  /\ next = [t \in Tasks \cup {Root} |-> Nil]
  /\ pending = Nil
  /\ callback = [t \in Tasks |-> "none"]
  /\ freed = {}
  /\ held = [c \in Clients |-> {}]
  /\ pc = [c \in Clients |-> "out"]
  /\ task = [c \in Clients |-> Nil]
  /\ starting = [c \in Clients |-> Nil]
  /\ wpc = [w \in Workers |-> "none"]
  /\ outcome = [w \in Workers |-> "none"]
  /\ queue = [w \in Workers |-> <<>>]
  /\ at = [w \in Workers |-> Root]
  /\ tail = [w \in Workers |-> Root]
  /\ pass = [w \in Workers |-> 1]
  /\ mine = [w \in Workers |-> {}]
  /\ messages = 0
  /\ exit = [at |-> "running", window |-> Nil]

-----------------------------------------------------------------------------
(* Clients: PowerRegisterSuspendResumeNotification, AddTask and AddRef.    *)

(* Tasks and threads get their names in the order they are made.           *)
NewTasks == {t \in Tasks : callback[t] = "none"}
NewWorkers == {w \in Workers : wpc[w] = "none"}

Register(c) ==
  LET t == CHOOSE x \in NewTasks : TRUE IN
  /\ pc[c] = "out"
  /\ exit.at # "done"
  /\ NewTasks # {}
  /\ callback' = [callback EXCEPT ![t] = "set"]
  /\ task' = [task EXCEPT ![c] = t]
  /\ Goto(c, "addRef")
  /\ UNCHANGED <<uRef, hWnd, next, pending, freed, held, starting, worker,
                 messages, exit>>

(* Spins while uRef is locked; the first reference locks it.               *)
AddRef(c) ==
  /\ pc[c] = "addRef"
  /\ uRef # Locked
  /\ IF uRef = 0
     THEN uRef' = Locked /\ Goto(c, "start")
     ELSE uRef' = uRef + 1 /\ Goto(c, "push")
  /\ UNCHANGED <<hWnd, lists, held, task, starting, worker, messages, exit>>

(* AddRef failed: AddTask fails, and the caller frees the task.            *)
GiveUp(c) ==
  /\ uRef' = 0
  /\ freed' = freed \cup {task[c]}
  /\ task' = [task EXCEPT ![c] = Nil]
  /\ Goto(c, "out")

CreateWorker(c) ==
  LET w == CHOOSE x \in NewWorkers : TRUE IN
  /\ pc[c] = "start"
  /\ NewWorkers # {}
  /\ WorkerGoto(w, "create")
  /\ starting' = [starting EXCEPT ![c] = w]
  /\ Goto(c, "starting")
  /\ UNCHANGED <<uRef, hWnd, lists, held, task, outcome, queue, at, tail, pass,
                 mine, messages, exit>>

(* No event or no thread.                                                  *)
CreateFails(c) ==
  /\ pc[c] = "start"
  /\ "create" \in StartFailures
  /\ GiveUp(c)
  /\ UNCHANGED <<hWnd, next, pending, callback, held, starting, worker, messages,
                 exit>>

(* Mutant: the reference of the window itself is forgotten.                *)
Started_OneRef(c) ==
  /\ pc[c] = "starting"
  /\ outcome[starting[c]] \in {"ready", "zero"}
  /\ uRef' = 1
  /\ Goto(c, "push")
  /\ UNCHANGED <<hWnd, lists, held, task, starting, worker, messages, exit>>

(* The event is set, or the thread ended with exit code 0, which is        *)
(* ERROR_SUCCESS: unlock, with one reference for the window.               *)
Started(c) ==
  /\ pc[c] = "starting"
  /\ outcome[starting[c]] \in {"ready", "zero"}
  /\ uRef' = 2
  /\ Goto(c, "push")
  /\ UNCHANGED <<hWnd, lists, held, task, starting, worker, messages, exit>>

NotStarted(c) ==
  /\ pc[c] = "starting"
  /\ outcome[starting[c]] = "error"
  /\ GiveUp(c)
  /\ UNCHANGED <<hWnd, next, pending, callback, held, starting, worker, messages,
                 exit>>

(* The compare-exchange loop of AddTask.                                   *)
Push(c) ==
  /\ pc[c] = "push"
  /\ next' = [next EXCEPT ![task[c]] = pending]
  /\ pending' = task[c]
  /\ held' = [held EXCEPT ![c] = @ \cup {task[c]}]
  /\ task' = [task EXCEPT ![c] = Nil]
  /\ Goto(c, "out")
  /\ UNCHANGED <<uRef, hWnd, callback, freed, starting, worker, messages, exit>>
-----------------------------------------------------------------------------
(* PowerUnregisterSuspendResumeNotification, RemoveTask and Release.       *)

Unregister(c) ==
  /\ pc[c] = "out"
  /\ exit.at # "done"
  /\ \E t \in held[c] :
       /\ callback' = [callback EXCEPT ![t] = "null"]
       /\ held' = [held EXCEPT ![c] = @ \ {t}]
  /\ Goto(c, "release")
  /\ UNCHANGED <<uRef, hWnd, next, pending, freed, task, starting, worker,
                 messages, exit>>

(* Mutant: the worker is not asked to stop.                                *)
Release_NoPost(c) ==
  /\ pc[c] = "release"
  /\ uRef # Locked
  /\ uRef' = IF uRef \in {0, 1} THEN uRef ELSE uRef - 1
  /\ Goto(c, "out")
  /\ UNCHANGED <<hWnd, lists, held, task, starting, worker, messages, exit>>

Release(c) ==
  /\ pc[c] = "release"
  /\ uRef # Locked
  /\ uRef' = IF uRef \in {0, 1} THEN uRef ELSE uRef - 1
  /\ Goto(c, IF uRef = 2 THEN "post" ELSE "out")
  /\ UNCHANGED <<hWnd, lists, held, task, starting, worker, messages, exit>>

(* PostMessageW(hWnd, WM_CLOSE, 0, 0); without a window the message goes   *)
(* to the calling thread and is lost.                                      *)
PostClose(c) ==
  /\ pc[c] = "post"
  /\ queue' = IF hWnd # Nil /\ HasWindow(hWnd)
              THEN [queue EXCEPT ![hWnd] = Append(@, "close")]
              ELSE queue
  /\ Goto(c, "out")
  /\ UNCHANGED <<uRef, hWnd, lists, held, task, starting, wpc, outcome, at, tail,
                 pass, mine, messages, exit>>
-----------------------------------------------------------------------------
(* The worker thread.                                                      *)

WindowCreated(w) ==
  /\ wpc[w] = "create"
  /\ hWnd' = w
  /\ outcome' = [outcome EXCEPT ![w] = "ready"]
  /\ WorkerGoto(w, "loop")
  /\ UNCHANGED <<uRef, lists, client, queue, at, tail, pass, mine, messages, exit>>

(* CreateWindowExW failed: the exit code is its error.  RegisterClassW     *)
(* failed: the exit code is FALSE, 0.                                      *)
WorkerFails(w) ==
  /\ wpc[w] = "create"
  /\ \E failure \in StartFailures :
       outcome' = [outcome EXCEPT ![w] = IF failure = "class" THEN "zero" ELSE "error"]
  /\ WorkerGoto(w, "gone")
  /\ UNCHANGED <<uRef, hWnd, lists, client, queue, at, tail, pass, mine, messages,
                 exit>>

(* Windows broadcasts WM_POWERBROADCAST to the window.                     *)
Broadcast(w) ==
  /\ HasWindow(w)
  /\ messages < MaxMessages
  /\ messages' = messages + 1
  /\ queue' = [queue EXCEPT ![w] = Append(@, "message")]
  /\ UNCHANGED <<uRef, hWnd, lists, client, wpc, outcome, at, tail, pass, mine, exit>>

(* The callbacks run for a message if there are tasks; then the worker     *)
(* goes on at the label that says what the message came from.              *)
Deliver(w, loop, walk) ==
  /\ WorkerGoto(w, IF next[Root] = Nil /\ pending = Nil THEN loop ELSE walk)
  /\ at' = [at EXCEPT ![w] = Root]
  /\ tail' = [tail EXCEPT ![w] = Root]
  /\ pass' = [pass EXCEPT ![w] = 1]

DispatchMessage(w) ==
  /\ wpc[w] = "loop"
  /\ queue[w] # <<>>
  /\ Head(queue[w]) = "message"
  /\ queue' = [queue EXCEPT ![w] = Tail(@)]
  /\ Deliver(w, "loop", "walk")
  /\ UNCHANGED <<uRef, hWnd, lists, client, outcome, mine, messages, exit>>

(* The walk comes from a message, or from the destruction of the window.   *)
Walking(w) == wpc[w] \in {"walk", "lastWalk"}

CallNext(w) ==
  LET n == next[at[w]] IN
  /\ Walking(w)
  /\ n # Nil
  /\ callback[n] = "set"
  /\ tail' = [tail EXCEPT ![w] = n]
  /\ WorkerGoto(w, IF wpc[w] = "walk" THEN "callback" ELSE "lastCallback")
  /\ UNCHANGED <<uRef, hWnd, lists, client, outcome, queue, at, pass, mine, messages,
                 exit>>

(* The callback returns.  _pCallbackPrev is not advanced.                  *)
CallbackReturns(w) ==
  /\ wpc[w] \in {"callback", "lastCallback"}
  /\ WorkerGoto(w, IF wpc[w] = "callback" THEN "walk" ELSE "lastWalk")
  /\ UNCHANGED <<uRef, hWnd, lists, client, outcome, queue, at, tail, pass, mine,
                 messages, exit>>

(* Mutant: a removed task is freed but not unlinked.                       *)
RemoveNext_NoUnlink(w) ==
  LET n == next[at[w]] IN
  /\ Walking(w)
  /\ n # Nil
  /\ callback[n] = "null"
  /\ freed' = freed \cup {n}
  /\ at' = [at EXCEPT ![w] = n]
  /\ UNCHANGED <<uRef, hWnd, next, pending, callback, client, wpc, outcome, queue,
                 tail, pass, mine, messages, exit>>

RemoveNext(w) ==
  LET n == next[at[w]] IN
  /\ Walking(w)
  /\ n # Nil
  /\ callback[n] = "null"
  /\ next' = [next EXCEPT ![at[w]] = next[n]]
  /\ freed' = freed \cup {n}
  /\ UNCHANGED <<uRef, hWnd, pending, callback, client, wpc, outcome, queue, at,
                 tail, pass, mine, messages, exit>>

(* At the end of the first pass the pending list is taken.  The loop that  *)
(* should reverse it only finds its last element, the oldest task, and     *)
(* that one is linked behind the tail.                                     *)
MergePending(w) ==
  /\ Walking(w)
  /\ next[at[w]] = Nil
  /\ pass[w] = 1
  /\ pending # Nil
  /\ next' = [next EXCEPT ![tail[w]] = Oldest(pending)]
  /\ pending' = Nil
  /\ at' = [at EXCEPT ![w] = tail[w]]
  /\ pass' = [pass EXCEPT ![w] = 2]
  /\ UNCHANGED <<uRef, hWnd, callback, freed, client, wpc, outcome, queue, tail, mine,
                 messages, exit>>

EndWalk(w) ==
  /\ Walking(w)
  /\ next[at[w]] = Nil
  /\ pass[w] = 2 \/ pending = Nil
  /\ WorkerGoto(w, IF wpc[w] = "walk" THEN "loop" ELSE "gone")
  /\ UNCHANGED <<uRef, hWnd, lists, client, outcome, queue, at, tail, pass, mine,
                 messages, exit>>
-----------------------------------------------------------------------------
(* WM_CLOSE and TryClean.                                                  *)

(* Mutant: the number of references is not tested again.                   *)
DispatchClose_NoTest(w) ==
  /\ wpc[w] = "loop"
  /\ queue[w] # <<>>
  /\ Head(queue[w]) = "close"
  /\ queue' = [queue EXCEPT ![w] = Tail(@)]
  /\ uRef # Locked
  /\ uRef' = Locked
  /\ WorkerGoto(w, "clean")
  /\ UNCHANGED <<hWnd, lists, client, outcome, at, tail, pass, mine, messages, exit>>

(* Posted by Release: if the worker is in use again nothing happens.       *)
DispatchClose(w) ==
  /\ wpc[w] = "loop"
  /\ queue[w] # <<>>
  /\ Head(queue[w]) = "close"
  /\ queue' = [queue EXCEPT ![w] = Tail(@)]
  /\ IF uRef = 1
     THEN uRef' = Locked /\ WorkerGoto(w, "clean")
     ELSE UNCHANGED <<uRef, wpc>>
  /\ UNCHANGED <<hWnd, lists, client, outcome, at, tail, pass, mine, messages, exit>>

CleanLists(w) ==
  /\ wpc[w] = "clean"
  /\ hWnd' = Nil
  /\ mine' = [mine EXCEPT ![w] = Listed(next[Root]) \cup Listed(pending)]
  /\ next' = [next EXCEPT ![Root] = Nil]
  /\ pending' = Nil
  /\ WorkerGoto(w, "unlock")
  /\ UNCHANGED <<uRef, callback, freed, client, outcome, queue, at, tail, pass,
                 messages, exit>>

Unlock(w) ==
  /\ wpc[w] = "unlock"
  /\ uRef' = 0
  /\ WorkerGoto(w, "free")
  /\ UNCHANGED <<hWnd, lists, client, outcome, queue, at, tail, pass, mine, messages,
                 exit>>

(* Free the tasks; DestroyWindow; leave the message loop.                  *)
FreeLists(w) ==
  /\ wpc[w] = "free"
  /\ freed' = freed \cup mine[w]
  /\ mine' = [mine EXCEPT ![w] = {}]
  /\ WorkerGoto(w, "gone")
  /\ UNCHANGED <<uRef, hWnd, next, pending, callback, client, outcome, queue, at, tail,
                 pass, messages, exit>>
-----------------------------------------------------------------------------
(* The atexit function: SendMessageW(hWnd, WM_CLOSE, 1, 0).                *)

ExitBegins ==
  /\ Exits
  /\ exit.at = "running"
  /\ exit' = IF hWnd = Nil THEN [at |-> "done", window |-> Nil]
                           ELSE [at |-> "closing", window |-> hWnd]
  /\ UNCHANGED <<uRef, hWnd, lists, client, worker, messages>>

(* A forced close.  If TryClean fails only the window is destroyed; it is  *)
(* sent WM_NCDESTROY then, which runs the callbacks once more.             *)
ForcedClose(w) ==
  /\ exit.at = "closing" /\ exit.window = w
  /\ wpc[w] = "loop"
  /\ IF uRef = 1
     THEN /\ uRef' = Locked
          /\ WorkerGoto(w, "clean")
          /\ UNCHANGED <<hWnd, at, tail, pass>>
     ELSE /\ hWnd' = Nil
          /\ Deliver(w, "gone", "lastWalk")
          /\ UNCHANGED uRef
  /\ UNCHANGED <<lists, client, outcome, queue, mine, messages, exit>>

ExitReturns ==
  /\ exit.at = "closing"
  /\ wpc[exit.window] = "gone"
  /\ exit' = [exit EXCEPT !.at = "done"]
  /\ UNCHANGED <<uRef, hWnd, lists, client, worker, messages>>
-----------------------------------------------------------------------------
(* What a client does once it has called, and what a worker does.          *)
ClientStep(c) ==
  \/ AddRef(c) \/ CreateWorker(c) \/ CreateFails(c) \/ Started(c) \/ NotStarted(c)
  \/ Push(c) \/ Release(c) \/ PostClose(c)

WorkerStep(w) ==
  \/ WindowCreated(w) \/ WorkerFails(w)
  \/ DispatchMessage(w) \/ CallNext(w) \/ CallbackReturns(w) \/ RemoveNext(w)
  \/ MergePending(w) \/ EndWalk(w)
  \/ DispatchClose(w) \/ CleanLists(w) \/ Unlock(w) \/ FreeLists(w) \/ ForcedClose(w)

(* Nobody calls and every worker waits for messages.                       *)
Quiet ==
  /\ \A c \in Clients : pc[c] = "out"
  /\ \A w \in Workers :
       wpc[w] \in {"none", "gone"} \/ (wpc[w] = "loop" /\ queue[w] = <<>>)
  /\ UNCHANGED vars

Next ==
  \/ \E c \in Clients : Register(c) \/ Unregister(c) \/ ClientStep(c)
  \/ \E w \in Workers : WorkerStep(w) \/ Broadcast(w)
  \/ ExitBegins
  \/ ExitReturns
  \/ Quiet

Spec == Init /\ [][Next]_vars

(* Threads that can run are scheduled.                                     *)
Fairness ==
  /\ \A c \in Clients : WF_vars(ClientStep(c))
  /\ \A w \in Workers : WF_vars(WorkerStep(w))
  /\ WF_vars(ExitReturns)

FairSpec == Spec /\ Fairness

-----------------------------------------------------------------------------
(* Unless it is locked, uRef counts exactly one reference per registered   *)
(* task, one per client on its way from AddRef or to Release, and one for  *)
(* the window.                                                             *)
References ==
  (UNION {held[c] \X {"task"} : c \in Clients})
    \cup {<<c, "call">> : c \in {d \in Clients : pc[d] \in {"push", "release"}}}

RefsBalanced ==
  /\ uRef = 0 => References = {}
  /\ uRef \notin {0, Locked} => uRef = 1 + Cardinality(References)
  /\ uRef = Locked => References = {}

(* Until the process exits, a registered task has a worker that is in its  *)
(* message loop: the worker is not stopped under it, whatever the order of *)
(* the last Release, the WM_CLOSE it posts and the next AddRef.            *)
Registered == UNION {held[c] : c \in Clients}

WorkerWhileRegistered ==
  exit.at = "running" /\ Registered # {} =>
    /\ hWnd # Nil
    /\ wpc[hWnd] \in {"loop", "walk", "callback"}

(* A freed task is not registered any more and in no list, and no worker   *)
(* frees it a second time.                                                 *)
FreedOnce ==
  /\ freed \cap (Registered \cup Listed(next[Root]) \cup Listed(pending)) = {}
  /\ \A w \in Workers : mine[w] \cap (freed \cup Registered) = {}
  /\ \A v, w \in Workers : mine[v] \cap mine[w] # {} => v = w

(* Once nobody uses the worker it stops, unless it is used again.          *)
WorkerStops ==
  (uRef = 1 /\ exit.at = "running") ~> (uRef # 1 \/ exit.at # "running")

(* "A forced close: we only stop the window": SendMessageW in the atexit   *)
(* function returns, and the process can exit.                             *)
ExitCompletes == (exit.at = "closing") ~> (exit.at = "done")
=============================================================================
