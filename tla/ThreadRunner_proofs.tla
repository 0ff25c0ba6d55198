------------------------ MODULE ThreadRunner_proofs ------------------------
(***************************************************************************)
(* uRef counts the users of the worker, for any number of clients, tasks,  *)
(* workers and messages, and as long as it counts one the worker is there. *)
(* From that and from what the lists look like: no task is freed twice.    *)
(***************************************************************************)
EXTENDS ThreadRunner, FiniteSetTheorems, TLAPS

Labels == {"out", "addRef", "start", "starting", "push", "release", "post"}
Adding == {"addRef", "start", "starting", "push"}
Alive == {"loop", "walk", "callback"}
WorkerLabels ==
  Alive \cup {"none", "create", "lastWalk", "lastCallback", "clean", "unlock", "free", "gone"}

Types ==
  /\ uRef \in Nat
  /\ hWnd \in Workers \cup {Nil}
  /\ callback \in [Tasks -> {"none", "set", "null"}]
  /\ held \in [Clients -> SUBSET Tasks]
  /\ pc \in [Clients -> Labels]
  /\ task \in [Clients -> Tasks \cup {Nil}]
  /\ starting \in [Clients -> Workers \cup {Nil}]
  /\ wpc \in [Workers -> WorkerLabels]
  /\ outcome \in [Workers -> {"none", "ready", "zero", "error"}]

(* A task has one owner, and none before it is allocated.                  *)
TasksOwned ==
  /\ \A c \in Clients : \A t \in held[c] :
       callback[t] = "set" /\ \A d \in Clients : t \in held[d] => d = c
  /\ \A c \in Clients : pc[c] \in Adding =>
       /\ task[c] \in Tasks /\ callback[task[c]] = "set"
       /\ \A d \in Clients : task[c] \notin held[d]
       /\ \A d \in Clients : pc[d] \in Adding /\ task[d] = task[c] => d = c

(* Whoever starts or stops the worker has locked uRef, alone.              *)
Starts(c) == pc[c] \in {"start", "starting"}
Stops(w) == wpc[w] \in {"clean", "unlock"}

LockHeld ==
  /\ \A c \in Clients : Starts(c) =>
       /\ uRef = Locked
       /\ \A d \in Clients : Starts(d) => d = c
       /\ \A w \in Workers : ~Stops(w)
  /\ \A w \in Workers : Stops(w) =>
       uRef = Locked /\ \A v \in Workers : Stops(v) => v = w

(* Every reference, and every call that will get one, is due to a task     *)
(* that was allocated: uRef never counts up to the value that locks it.    *)
Carriers ==
  References \cup {<<c, "call">> : c \in {d \in Clients : pc[d] \in {"addRef", "start", "starting"}}}

FewCarriers == Cardinality(Carriers) + Cardinality(NewTasks) <= Cardinality(Tasks)

CountInv == Types /\ TasksOwned /\ LockHeld /\ FewCarriers /\ RefsBalanced

-----------------------------------------------------------------------------
(* What is in the two sets, element by element.                            *)
InReferences ==
  /\ \A c : <<c, "call">> \in References <=> c \in Clients /\ pc[c] \in {"push", "release"}
  /\ \A t : <<t, "task">> \in References <=> \E c \in Clients : t \in held[c]
  /\ \A x \in References : (\E c \in Clients : x = <<c, "call">>) \/ (\E t \in Tasks : x = <<t, "task">>)

InCarriers ==
  /\ \A c : <<c, "call">> \in Carriers <=> c \in Clients /\ pc[c] \in Adding \cup {"release"}
  /\ \A t : <<t, "task">> \in Carriers <=> \E c \in Clients : t \in held[c]
  /\ \A x \in Carriers : (\E c \in Clients : x = <<c, "call">>) \/ (\E t \in Tasks : x = <<t, "task">>)

LEMMA Elements == Types => InReferences /\ InCarriers
<1> DEFINE Held == UNION {held[c] \X {"task"} : c \in Clients}
           Calls == {<<c, "call">> : c \in {d \in Clients : pc[d] \in {"push", "release"}}}
<1>1. \A x : x \in Held <=> \E c \in Clients : \E t \in held[c] : x = <<t, "task">>
  <2>1. \A x : x \in Held <=> \E c \in Clients : x \in held[c] \X {"task"}
    OBVIOUS
  <2>2. \A S, x : x \in S \X {"task"} <=> \E t \in S : x = <<t, "task">>
    OBVIOUS
  <2> HIDE DEF Held
  <2>3. QED
    BY <2>1, <2>2
<1>2. \A x : x \in Calls <=> \E c \in Clients : pc[c] \in {"push", "release"} /\ x = <<c, "call">>
  OBVIOUS
<1>3. References = Held \cup Calls
  BY DEF References
<1> HIDE DEF Held, Calls
<1>4. Types => InReferences
  BY <1>1, <1>2, <1>3 DEF Types, InReferences
<1>5. QED
  BY <1>4 DEF Carriers, Adding, InReferences, InCarriers

LEMMA ElementsNext == Types' => InReferences' /\ InCarriers'
  BY Elements, PTL

LEMMA AllFinite ==
  ASSUME Types
  PROVE  /\ IsFiniteSet(References) /\ Cardinality(References) \in Nat
         /\ IsFiniteSet(Carriers) /\ Cardinality(Carriers) \in Nat
         /\ IsFiniteSet(NewTasks) /\ Cardinality(NewTasks) \in Nat
         /\ Cardinality(Tasks) \in Nat
<1> DEFINE All == (Clients \X {"call"}) \cup (Tasks \X {"task"})
<1>1. IsFiniteSet(All)
  BY RunnerAssumption, FS_Product, FS_Singleton, FS_Union
<1>2. References \subseteq All /\ Carriers \subseteq All /\ NewTasks \subseteq Tasks
  BY Elements DEF InReferences, InCarriers, NewTasks
<1>3. QED
  BY <1>1, <1>2, RunnerAssumption, FS_Subset, FS_CardinalityType

FewReferences == Cardinality(References) < Locked - 1 /\ Locked > 1

LEMMA CarriersBound == Types /\ FewCarriers => FewReferences
<1>1. Types => Cardinality(References) <= Cardinality(Carriers)
  BY AllFinite, FS_Subset DEF Carriers
<1>2. QED
  BY <1>1, AllFinite, RunnerAssumption DEF FewCarriers, FewReferences

LEMMA CarriersBoundNext == Types' /\ FewCarriers' => FewReferences'
  BY CarriersBound, PTL

-----------------------------------------------------------------------------
LEMMA CountInit == Init => CountInv
<1> SUFFICES ASSUME Init PROVE CountInv
  OBVIOUS
<1>1. Types
  BY DEF Init, Types, Labels, WorkerLabels
<1>2. TasksOwned
  BY DEF Init, TasksOwned, Adding
<1>3. LockHeld
  BY DEF Init, LockHeld, Starts, Stops
<1>4. References = {} /\ Carriers = {} /\ NewTasks = Tasks
  <2>1. NewTasks = Tasks
    BY DEF Init, NewTasks
  <2>2. \A x : x \notin Carriers
    BY <1>1, Elements DEF InCarriers, Init, Adding
  <2>3. QED
    BY <2>1, <2>2 DEF Carriers
<1>5. FewCarriers /\ RefsBalanced
  BY <1>1, <1>4, AllFinite, FS_EmptySet, RunnerAssumption DEF Init, FewCarriers, RefsBalanced
<1>6. QED
  BY <1>1, <1>2, <1>3, <1>5 DEF CountInv

(* Nothing that is counted changes: most steps.                            *)
Uncounted == UNCHANGED <<pc, held, task, callback>>

LEMMA UncountedKeeps ==
  ASSUME CountInv, Uncounted, Types'
  PROVE  /\ TasksOwned' /\ FewCarriers'
         /\ References' = References
  BY DEF CountInv, Uncounted, TasksOwned, FewCarriers, Carriers, References, NewTasks

LEMMA WorkerKeeps ==
  ASSUME CountInv, NEW w \in Workers, WorkerStep(w) \/ Broadcast(w)
  PROVE  CountInv'
<1> USE DEF CountInv
<1>1. Types' /\ Uncounted
  <2> USE RunnerAssumption DEF Types, WorkerStep, Uncounted, client, lists, worker, WorkerGoto, WorkerLabels, Alive
  <2>1. CASE DispatchMessage(w) \/ ForcedClose(w)
    BY <2>1 DEF DispatchMessage, ForcedClose, Deliver
  <2>2. CASE WindowCreated(w) \/ WorkerFails(w) \/ Broadcast(w)
    BY <2>2 DEF WindowCreated, WorkerFails, Broadcast
  <2>3. CASE CallNext(w) \/ CallbackReturns(w) \/ RemoveNext(w) \/ MergePending(w) \/ EndWalk(w)
    BY <2>3 DEF CallNext, CallbackReturns, RemoveNext, MergePending, EndWalk
  <2>4. CASE DispatchClose(w) \/ CleanLists(w) \/ Unlock(w) \/ FreeLists(w)
    BY <2>4 DEF DispatchClose, CleanLists, Unlock, FreeLists
  <2>5. QED
    BY <2>1, <2>2, <2>3, <2>4
<1>2. TasksOwned' /\ FewCarriers' /\ References' = References
  BY <1>1, UncountedKeeps
<1>3. CASE Unlock(w)
  <2>1. uRef = Locked /\ uRef' = 0 /\ Stops(w) /\ UNCHANGED pc /\ wpc' = [wpc EXCEPT ![w] = "free"]
    BY <1>3 DEF Unlock, client, WorkerGoto, LockHeld, Stops
  <2>2. LockHeld' /\ RefsBalanced'
    BY <2>1, <1>2, CarriersBound, RunnerAssumption DEF FewReferences, LockHeld, Starts, Stops, RefsBalanced, Types
  <2>3. QED
    BY <1>1, <1>2, <2>2
<1>4. CASE uRef = 1 /\ uRef' = Locked /\ UNCHANGED pc /\ wpc' = [wpc EXCEPT ![w] = "clean"]
  <2>1. References = {}
    BY <1>4, CarriersBound, AllFinite, FS_EmptySet DEF FewReferences, RefsBalanced
  <2>2. LockHeld' /\ RefsBalanced'
    BY <2>1, <1>4, <1>2, CarriersBound, RunnerAssumption DEF FewReferences, LockHeld, Starts, Stops, RefsBalanced, Types
  <2>3. QED
    BY <1>1, <1>2, <2>2
<1>5. CASE /\ UNCHANGED <<pc, uRef>> 
           /\ \A v \in Workers : Stops(v)' => Stops(v)
  BY <1>1, <1>2, <1>5 DEF LockHeld, Starts, RefsBalanced
<1>6. QED
  <2> USE DEF Types, WorkerStep, client, lists, worker, WorkerGoto, Stops
  <2>1. CASE DispatchClose(w) BY <2>1, <1>4, <1>5 DEF DispatchClose
  <2>2. CASE ForcedClose(w) BY <2>2, <1>4, <1>5 DEF ForcedClose, Deliver
  <2>3. CASE CleanLists(w) BY <2>3, <1>5 DEF CleanLists
  <2>4. CASE FreeLists(w) BY <2>4, <1>5 DEF FreeLists
  <2>5. CASE DispatchMessage(w) BY <2>5, <1>5 DEF DispatchMessage, Deliver
  <2>6. CASE EndWalk(w) BY <2>6, <1>5 DEF EndWalk, Walking
  <2>7. CASE \/ WindowCreated(w) \/ WorkerFails(w) \/ CallNext(w) \/ CallbackReturns(w)
             \/ RemoveNext(w) \/ MergePending(w) \/ Broadcast(w)
    BY <2>7, <1>5 DEF WindowCreated, WorkerFails, CallNext, CallbackReturns, RemoveNext,
       MergePending, Broadcast
  <2>8. QED
    BY <1>3, <2>1, <2>2, <2>3, <2>4, <2>5, <2>6, <2>7
-----------------------------------------------------------------------------
(* The clients.  A step counts one reference or one call in or out, or     *)
(* lets a call stand for a task, or a task for a call.                     *)
LEMMA ClientTypes ==
  ASSUME Types, TasksOwned, NEW c \in Clients, Register(c) \/ Unregister(c) \/ ClientStep(c)
  PROVE  Types'
<1> USE RunnerAssumption DEF Types, lists, worker, Goto, Labels
<1>1. CASE Register(c)
  BY <1>1 DEF Register, NewTasks
<1>2. CASE Unregister(c)
  <2>1. PICK t \in held[c] : /\ callback' = [callback EXCEPT ![t] = "null"]
                            /\ held' = [held EXCEPT ![c] = @ \ {t}]
    BY <1>2 DEF Unregister
  <2>2. held[c] \in SUBSET Tasks /\ held[c] \ {t} \in SUBSET Tasks
    OBVIOUS
  <2>3. callback' \in [Tasks -> {"none", "set", "null"}] /\ held' \in [Clients -> SUBSET Tasks]
    BY <2>1, <2>2
  <2>4. QED
    BY <1>2, <2>3 DEF Unregister
<1>3. CASE AddRef(c) \/ Started(c) \/ PostClose(c)
  BY <1>3 DEF AddRef, Started, PostClose
<1>4. CASE CreateWorker(c)
  BY <1>4 DEF CreateWorker, NewWorkers, WorkerGoto, WorkerLabels, Alive
<1>5. CASE CreateFails(c) \/ NotStarted(c)
  BY <1>5 DEF CreateFails, NotStarted, GiveUp
<1>6. CASE Release(c)
  BY <1>6 DEF Release
<1>7. CASE Push(c)
  <2>1. held[c] \cup {task[c]} \in SUBSET Tasks
    BY <1>7 DEF Push, TasksOwned, Adding
  <2>2. QED
    BY <1>7, <2>1 DEF Push
<1>8. QED
  BY <1>1, <1>2, <1>3, <1>4, <1>5, <1>6, <1>7 DEF ClientStep

LEMMA ClientTasks ==
  ASSUME Types, TasksOwned, NEW c \in Clients, Register(c) \/ Unregister(c) \/ ClientStep(c)
  PROVE  TasksOwned'
<1> USE RunnerAssumption DEF Types, TasksOwned, Adding, lists, worker, Goto, Labels
<1>1. CASE Register(c)
  BY <1>1 DEF Register, NewTasks
<1>2. CASE Unregister(c)
  BY <1>2 DEF Unregister
<1>3. CASE AddRef(c) \/ Started(c) \/ Release(c) \/ PostClose(c)
  BY <1>3 DEF AddRef, Started, Release, PostClose
<1>4. CASE CreateWorker(c)
  BY <1>4 DEF CreateWorker
<1>5. CASE CreateFails(c) \/ NotStarted(c)
  BY <1>5 DEF CreateFails, NotStarted, GiveUp
<1>6. CASE Push(c)
  BY <1>6 DEF Push
<1>7. QED
  BY <1>1, <1>2, <1>3, <1>4, <1>5, <1>6 DEF ClientStep

LEMMA ClientLock ==
  ASSUME CountInv, NEW c \in Clients, Register(c) \/ Unregister(c) \/ ClientStep(c)
  PROVE  LockHeld'
<1> USE RunnerAssumption DEF CountInv, Types, LockHeld, Starts, Stops, lists, worker, Goto, Labels
<1>1. CASE Register(c) \/ Unregister(c)
  BY <1>1 DEF Register, Unregister
<1>2. CASE AddRef(c)
  BY <1>2 DEF AddRef
<1>3. CASE Started(c) \/ CreateFails(c) \/ NotStarted(c)
  BY <1>3 DEF Started, CreateFails, NotStarted, GiveUp
<1>4. CASE Release(c) \/ PostClose(c) \/ Push(c)
  BY <1>4 DEF Release, PostClose, Push
<1>5. CASE CreateWorker(c)
  BY <1>5 DEF CreateWorker, NewWorkers, WorkerGoto
<1>6. QED
  BY <1>1, <1>2, <1>3, <1>4, <1>5 DEF ClientStep

(* How one element in or out changes the two counts.                       *)
LEMMA CountOne ==
  ASSUME Types, NEW x
  PROVE  /\ Cardinality(References \cup {x}) =
              IF x \in References THEN Cardinality(References) ELSE Cardinality(References) + 1
         /\ Cardinality(References \ {x}) =
              IF x \in References THEN Cardinality(References) - 1 ELSE Cardinality(References)
         /\ x \in References => Cardinality(References) # 0
         /\ Cardinality(Carriers \cup {x}) =
              IF x \in Carriers THEN Cardinality(Carriers) ELSE Cardinality(Carriers) + 1
         /\ Cardinality(Carriers \ {x}) =
              IF x \in Carriers THEN Cardinality(Carriers) - 1 ELSE Cardinality(Carriers)
  BY AllFinite, FS_AddElement, FS_RemoveElement, FS_EmptySet

(* One element takes the place of another one.                             *)
LEMMA CountSwap ==
  ASSUME NEW S, IsFiniteSet(S), NEW x \in S, NEW y, y \notin S
  PROVE  Cardinality((S \ {x}) \cup {y}) = Cardinality(S)
<1>1. IsFiniteSet(S \ {x}) /\ Cardinality(S \ {x}) = Cardinality(S) - 1
  BY FS_RemoveElement
<1>2. Cardinality((S \ {x}) \cup {y}) = Cardinality(S \ {x}) + 1
  BY <1>1, FS_AddElement
<1>3. QED
  BY <1>1, <1>2, FS_CardinalityType

LEMMA RegisterCounts ==
  ASSUME CountInv, NEW c \in Clients, Register(c), Types'
  PROVE  References' = References /\ FewCarriers'
<1> USE DEF CountInv
<1> DEFINE x == <<c, "call">>
<1>1. PICK t \in NewTasks : /\ callback' = [callback EXCEPT ![t] = "set"]
                            /\ pc[c] = "out" /\ pc' = [pc EXCEPT ![c] = "addRef"]
                            /\ held' = held
  BY DEF Register, Goto
<1>2. References' = References
  <2>1. \A d \in Clients : pc'[d] \in {"push", "release"} <=> pc[d] \in {"push", "release"}
    BY <1>1 DEF Types
  <2>2. {d \in Clients : pc'[d] \in {"push", "release"}} = {d \in Clients : pc[d] \in {"push", "release"}}
    BY <2>1
  <2>3. QED
    BY <1>1, <2>2 DEF References
<1>3. Carriers' = Carriers \cup {x}
  BY <1>1, Elements, ElementsNext DEF InCarriers, Types, Adding
<1>4. NewTasks' = NewTasks \ {t}
  BY <1>1 DEF NewTasks, Types
<1>5. Cardinality(NewTasks \ {t}) = Cardinality(NewTasks) - 1
  BY AllFinite, FS_RemoveElement
<1>6. Cardinality(Carriers \cup {x}) = Cardinality(Carriers) + 1
  BY <1>1, Elements, CountOne DEF InCarriers, Adding
<1>7. QED
  BY <1>2, <1>3, <1>4, <1>5, <1>6, AllFinite DEF FewCarriers

LEMMA UnregisterCounts ==
  ASSUME CountInv, NEW c \in Clients, Unregister(c), Types'
  PROVE  /\ Cardinality(References)' = Cardinality(References) /\ References # {}
         /\ FewCarriers'
<1> USE DEF CountInv
<1> DEFINE y == <<c, "call">>
<1>1. PICK t \in held[c] : /\ callback' = [callback EXCEPT ![t] = "null"]
                           /\ held' = [held EXCEPT ![c] = @ \ {t}]
                           /\ pc[c] = "out" /\ pc' = [pc EXCEPT ![c] = "release"]
  BY DEF Unregister, Goto
<1> DEFINE x == <<t, "task">>
<1>2. \A u : (\E d \in Clients : u \in held'[d]) <=> u # t /\ \E d \in Clients : u \in held[d]
  BY <1>1 DEF TasksOwned, Types
<1>3. x \in References /\ y \notin References /\ x \in Carriers /\ y \notin Carriers
  BY <1>1, Elements DEF InReferences, InCarriers, Types, Adding
<1>4. \A d \in Clients :
        /\ pc'[d] \in {"push", "release"} <=> pc[d] \in {"push", "release"} \/ d = c
        /\ pc'[d] \in Adding \cup {"release"} <=> pc[d] \in Adding \cup {"release"} \/ d = c
  BY <1>1 DEF Types, Adding
<1>5. References' = (References \ {x}) \cup {y}
  <2>1. \A d : <<d, "call">> \in References' <=> <<d, "call">> \in References \/ d = c
    BY <1>4, Elements, ElementsNext DEF InReferences
  <2>2. \A u : <<u, "task">> \in References' <=> <<u, "task">> \in References /\ u # t
    BY <1>2, Elements, ElementsNext DEF InReferences
  <2>3. QED
    BY <2>1, <2>2, Elements, ElementsNext DEF InReferences
<1>6. Carriers' = (Carriers \ {x}) \cup {y}
  <2>1. \A d : <<d, "call">> \in Carriers' <=> <<d, "call">> \in Carriers \/ d = c
    BY <1>4, Elements, ElementsNext DEF InCarriers
  <2>2. \A u : <<u, "task">> \in Carriers' <=> <<u, "task">> \in Carriers /\ u # t
    BY <1>2, Elements, ElementsNext DEF InCarriers
  <2>3. QED
    BY <2>1, <2>2, Elements, ElementsNext DEF InCarriers
<1>7. NewTasks' = NewTasks
  BY <1>1 DEF NewTasks, TasksOwned, Types
<1>8. QED
  BY <1>3, <1>5, <1>6, <1>7, CountSwap, AllFinite DEF FewCarriers

(* The steps of a call: where it is, and what it does to the references.   *)
Moves(c, from, to) == pc[c] = from /\ pc' = [pc EXCEPT ![c] = to] /\ UNCHANGED <<held, callback>>

LEMMA MoveCounts ==
  ASSUME CountInv, Types', NEW c \in Clients, NEW from, NEW to, Moves(c, from, to)
  PROVE  LET x == <<c, "call">>
             counted == {"push", "release"}
             carried == Adding \cup {"release"}
         IN  /\ (from \in counted <=> to \in counted) => References' = References
             /\ from \notin counted /\ to \in counted =>
                  Cardinality(References)' = Cardinality(References) + 1
             /\ from \in counted /\ to \notin counted =>
                  /\ Cardinality(References)' = Cardinality(References) - 1
                  /\ Cardinality(References) # 0
             /\ (from \in carried <=> to \in carried) => Carriers' = Carriers
             /\ from \in carried /\ to \notin carried =>
                  Cardinality(Carriers)' = Cardinality(Carriers) - 1
             /\ NewTasks' = NewTasks
<1> USE DEF CountInv
<1> DEFINE x == <<c, "call">>
           counted == {"push", "release"}
           carried == Adding \cup {"release"}
<1>1. /\ pc[c] = from /\ pc'[c] = to
      /\ \A d \in Clients : d # c => pc'[d] = pc[d]
      /\ UNCHANGED <<held, callback>>
  BY DEF Moves, Types
<1>2. x \in References <=> from \in counted
  BY <1>1, Elements DEF InReferences
<1>3. x \in Carriers <=> from \in carried
  BY <1>1, Elements DEF InCarriers
<1>4. References' = IF to \in counted THEN References \cup {x} ELSE References \ {x}
  <2>1. \A d : <<d, "call">> \in References' <=>
                 (d = c /\ to \in counted) \/ (d # c /\ <<d, "call">> \in References)
    BY <1>1, Elements, ElementsNext DEF InReferences
  <2>2. \A u : <<u, "task">> \in References' <=> <<u, "task">> \in References
    BY <1>1, Elements, ElementsNext DEF InReferences
  <2>3. QED
    BY <2>1, <2>2, Elements, ElementsNext DEF InReferences
<1>5. Carriers' = IF to \in carried THEN Carriers \cup {x} ELSE Carriers \ {x}
  <2>1. \A d : <<d, "call">> \in Carriers' <=>
                 (d = c /\ to \in carried) \/ (d # c /\ <<d, "call">> \in Carriers)
    BY <1>1, Elements, ElementsNext DEF InCarriers
  <2>2. \A u : <<u, "task">> \in Carriers' <=> <<u, "task">> \in Carriers
    BY <1>1, Elements, ElementsNext DEF InCarriers
  <2>3. QED
    BY <2>1, <2>2, Elements, ElementsNext DEF InCarriers
<1>6. NewTasks' = NewTasks
  BY <1>1 DEF NewTasks
<1> HIDE DEF x, counted, carried
<1>7. /\ (from \in counted <=> to \in counted) => References' = References
      /\ (from \in carried <=> to \in carried) => Carriers' = Carriers
  BY <1>2, <1>3, <1>4, <1>5
<1>8. /\ from \notin counted /\ to \in counted =>
           Cardinality(References)' = Cardinality(References) + 1
      /\ from \in counted /\ to \notin counted =>
           /\ Cardinality(References)' = Cardinality(References) - 1
           /\ Cardinality(References) # 0
  BY <1>2, <1>4, CountOne
<1>9. from \in carried /\ to \notin carried =>
        Cardinality(Carriers)' = Cardinality(Carriers) - 1
  BY <1>3, <1>5, CountOne
<1>10. QED
  BY <1>6, <1>7, <1>8, <1>9 DEF x, counted, carried

LEMMA PushCounts ==
  ASSUME CountInv, NEW c \in Clients, Push(c), Types'
  PROVE  /\ Cardinality(References)' = Cardinality(References) /\ References # {}
         /\ FewCarriers'
<1> USE DEF CountInv
<1> DEFINE x == <<c, "call">>
           t == task[c]
           y == <<t, "task">>
<1>1. /\ pc[c] = "push" /\ pc' = [pc EXCEPT ![c] = "out"] /\ t \in Tasks
      /\ held' = [held EXCEPT ![c] = @ \cup {t}] /\ UNCHANGED callback
      /\ \A d \in Clients : t \notin held[d]
  BY DEF Push, Goto, TasksOwned, Adding
<1>2. \A u : (\E d \in Clients : u \in held'[d]) <=> u = t \/ \E d \in Clients : u \in held[d]
  BY <1>1 DEF Types
<1>3. x \in References /\ y \notin References /\ x \in Carriers /\ y \notin Carriers
  BY <1>1, Elements DEF InReferences, InCarriers, Adding
<1>4. \A d \in Clients :
        /\ pc'[d] \in {"push", "release"} <=> pc[d] \in {"push", "release"} /\ d # c
        /\ pc'[d] \in Adding \cup {"release"} <=> pc[d] \in Adding \cup {"release"} /\ d # c
  BY <1>1 DEF Types, Adding
<1> HIDE DEF t
<1>5. References' = (References \ {x}) \cup {y}
  <2>1. \A d : <<d, "call">> \in References' <=> <<d, "call">> \in References /\ d # c
    BY <1>4, Elements, ElementsNext DEF InReferences
  <2>2. \A u : <<u, "task">> \in References' <=> <<u, "task">> \in References \/ u = t
    BY <1>2, Elements, ElementsNext DEF InReferences
  <2>3. QED
    BY <2>1, <2>2, Elements, ElementsNext DEF InReferences
<1>6. Carriers' = (Carriers \ {x}) \cup {y}
  <2>1. \A d : <<d, "call">> \in Carriers' <=> <<d, "call">> \in Carriers /\ d # c
    BY <1>4, Elements, ElementsNext DEF InCarriers
  <2>2. \A u : <<u, "task">> \in Carriers' <=> <<u, "task">> \in Carriers \/ u = t
    BY <1>2, Elements, ElementsNext DEF InCarriers
  <2>3. QED
    BY <2>1, <2>2, Elements, ElementsNext DEF InCarriers
<1>7. NewTasks' = NewTasks
  BY <1>1 DEF NewTasks
<1>8. QED
  BY <1>3, <1>5, <1>6, <1>7, CountSwap, AllFinite DEF FewCarriers

LEMMA ClientCounts ==
  ASSUME CountInv, NEW c \in Clients, Register(c) \/ Unregister(c) \/ ClientStep(c), Types'
  PROVE  FewCarriers' /\ RefsBalanced'
<1> USE RunnerAssumption DEF CountInv
<1>1. Cardinality(References) = 0 <=> References = {}
  BY AllFinite, FS_EmptySet
<1>2. CASE Register(c)
  BY <1>2, RegisterCounts DEF Register, RefsBalanced
<1>3. CASE Unregister(c)
  <2>1. UNCHANGED uRef /\ uRef \notin {0, Locked}
    BY <1>3, UnregisterCounts DEF Unregister, RefsBalanced
  <2>2. QED
    BY <1>3, <2>1, UnregisterCounts DEF RefsBalanced
<1>4. CASE Push(c)
  <2>1. UNCHANGED uRef /\ uRef \notin {0, Locked}
    BY <1>4, PushCounts DEF Push, RefsBalanced
  <2>2. QED
    BY <1>4, <2>1, PushCounts DEF RefsBalanced
<1>5. CASE AddRef(c)
  <2>1. CASE uRef = 0
    <3>1. Moves(c, "addRef", "start") /\ uRef' = Locked
      BY <1>5, <2>1 DEF AddRef, Moves, Goto, lists
    <3>2. References' = References /\ Carriers' = Carriers /\ NewTasks' = NewTasks
      BY <3>1, MoveCounts DEF Adding
    <3>3. QED
      BY <2>1, <3>1, <3>2 DEF FewCarriers, RefsBalanced
  <2>2. CASE uRef # 0
    <3>1. Moves(c, "addRef", "push") /\ uRef' = uRef + 1 /\ uRef # Locked
      BY <1>5, <2>2 DEF AddRef, Moves, Goto, lists
    <3>2. /\ Cardinality(References)' = Cardinality(References) + 1
          /\ Carriers' = Carriers /\ NewTasks' = NewTasks
      BY <3>1, MoveCounts DEF Adding
    <3>3. Cardinality(References)' = uRef
      BY <2>2, <3>1, <3>2, AllFinite DEF RefsBalanced
    <3>4. FewCarriers'
      BY <3>2 DEF FewCarriers
    <3>5. uRef' # Locked /\ uRef' # 0
      BY <3>1, <3>3, <3>4, CarriersBoundNext DEF FewReferences, Types
    <3>6. QED
      BY <3>1, <3>3, <3>4, <3>5 DEF RefsBalanced, Types
  <2>3. QED
    BY <2>1, <2>2
<1>6. CASE Started(c)
  <2>1. Moves(c, "starting", "push") /\ uRef' = 2 /\ uRef = Locked
    BY <1>6 DEF Started, Moves, Goto, lists, LockHeld, Starts
  <2>2. /\ Cardinality(References)' = Cardinality(References) + 1
        /\ Carriers' = Carriers /\ NewTasks' = NewTasks
    BY <2>1, MoveCounts DEF Adding
  <2>3. Cardinality(References)' = 1
    BY <1>1, <2>1, <2>2 DEF RefsBalanced
  <2>4. FewCarriers'
    BY <2>2 DEF FewCarriers
  <2>5. QED
    BY <2>1, <2>3, <2>4, CarriersBoundNext DEF RefsBalanced, FewReferences
<1>7. CASE CreateFails(c) \/ NotStarted(c)
  <2>1. /\ Moves(c, "start", "out") \/ Moves(c, "starting", "out")
        /\ uRef' = 0 /\ uRef = Locked
    BY <1>7 DEF CreateFails, NotStarted, GiveUp, Moves, Goto, LockHeld, Starts
  <2>2. /\ References' = References /\ NewTasks' = NewTasks
        /\ Cardinality(Carriers)' = Cardinality(Carriers) - 1
    BY <2>1, MoveCounts DEF Adding
  <2>3. References' = {}
    BY <2>1, <2>2 DEF RefsBalanced
  <2>4. FewCarriers'
    BY <2>2, AllFinite DEF FewCarriers
  <2>5. QED
    BY <2>1, <2>3, <2>4 DEF RefsBalanced
<1>8. CASE CreateWorker(c)
  <2>1. Moves(c, "start", "starting") /\ UNCHANGED uRef
    BY <1>8 DEF CreateWorker, Moves, Goto, lists
  <2>2. References' = References /\ Carriers' = Carriers /\ NewTasks' = NewTasks
    BY <2>1, MoveCounts DEF Adding
  <2>3. QED
    BY <2>1, <2>2 DEF FewCarriers, RefsBalanced
<1>9. CASE PostClose(c)
  <2>1. Moves(c, "post", "out") /\ UNCHANGED uRef
    BY <1>9 DEF PostClose, Moves, Goto, lists
  <2>2. References' = References /\ Carriers' = Carriers /\ NewTasks' = NewTasks
    BY <2>1, MoveCounts DEF Adding
  <2>3. QED
    BY <2>1, <2>2 DEF FewCarriers, RefsBalanced
<1>10. CASE Release(c)
  <2>1. /\ Moves(c, "release", "out") \/ Moves(c, "release", "post")
        /\ uRef # Locked /\ uRef' = IF uRef \in {0, 1} THEN uRef ELSE uRef - 1
    BY <1>10 DEF Release, Moves, Goto, lists
  <2>2. /\ Cardinality(References)' = Cardinality(References) - 1
        /\ Cardinality(References) # 0
        /\ Cardinality(Carriers)' = Cardinality(Carriers) - 1
        /\ NewTasks' = NewTasks
    BY <2>1, MoveCounts DEF Adding
  <2>3. uRef = 1 + Cardinality(References) /\ Cardinality(References) \in Nat \ {0}
    BY <1>1, <2>1, <2>2, AllFinite DEF RefsBalanced
  <2>4. uRef' = 1 + Cardinality(References)' /\ uRef' # 0
    BY <2>1, <2>2, <2>3
  <2>5. FewCarriers'
    BY <2>2, AllFinite DEF FewCarriers
  <2>6. QED
    BY <2>2, <2>3, <2>4, <2>5, CarriersBoundNext DEF RefsBalanced, FewReferences
<1>11. QED
  BY <1>2, <1>3, <1>4, <1>5, <1>6, <1>7, <1>8, <1>9, <1>10 DEF ClientStep

LEMMA CountNext == CountInv /\ [Next]_vars => CountInv'
<1> SUFFICES ASSUME CountInv, [Next]_vars PROVE CountInv'
  OBVIOUS
<1>1. ASSUME NEW c \in Clients, Register(c) \/ Unregister(c) \/ ClientStep(c) PROVE CountInv'
  BY <1>1, ClientTypes, ClientTasks, ClientLock, ClientCounts DEF CountInv
<1>2. ASSUME NEW w \in Workers, WorkerStep(w) \/ Broadcast(w) PROVE CountInv'
  BY <1>2, WorkerKeeps
<1>3. CASE ExitBegins \/ ExitReturns \/ UNCHANGED vars
  <2>1. Types' /\ Uncounted /\ UNCHANGED <<uRef, wpc>>
    BY <1>3 DEF ExitBegins, ExitReturns, vars, lists, client, worker, Types, CountInv, Uncounted
  <2>2. QED
    BY <2>1, UncountedKeeps DEF CountInv, Uncounted, LockHeld, Starts, Stops, RefsBalanced
<1>4. QED
  BY <1>1, <1>2, <1>3 DEF Next, Quiet

(* For any number of clients, tasks, workers and messages: unless it is    *)
(* locked, uRef counts the registered tasks, the calls on their way and    *)
(* the window, whoever starts, stops or restarts the worker meanwhile.     *)
THEOREM UseIsCounted == Spec => []RefsBalanced
<1>1. CountInv => RefsBalanced
  BY DEF CountInv
<1>2. QED
  BY <1>1, CountInit, CountNext, PTL DEF Spec
-----------------------------------------------------------------------------
(* The worker that serves, when RegisterClassW does not fail: as long as   *)
(* the process runs it is there for every reference, from the moment its   *)
(* window is announced to the client that starts it.                       *)
Serves(w) == hWnd = w /\ w \in Workers /\ wpc[w] \in Alive

ServedInv ==
  /\ exit \in [at : {"running", "closing", "done"}, window : Workers \cup {Nil}]
  /\ \A w \in Workers :
       /\ outcome[w] # "zero"
       /\ wpc[w] = "none" => outcome[w] = "none"
       /\ wpc[w] = "create" => outcome[w] = "none" /\ \E c \in Clients : pc[c] = "starting" /\ starting[c] = w
  /\ \A c \in Clients : pc[c] = "starting" =>
       /\ starting[c] \in Workers
       /\ outcome[starting[c]] = "ready" /\ exit.at = "running" => Serves(starting[c])
  /\ exit.at = "running" /\ uRef \notin {0, Locked} => Serves(hWnd)

LEMMA ServedInit == Init => ServedInv
  BY DEF Init, ServedInv

LEMMA ServedByClient ==
  ASSUME CountInv, ServedInv, NEW c \in Clients, Register(c) \/ Unregister(c) \/ ClientStep(c)
  PROVE  ServedInv'
<1> USE DEF CountInv, Types, LockHeld, Starts, Stops, ServedInv, Serves, Goto, lists, worker
<1>1. CASE Register(c) \/ Unregister(c)
  BY <1>1 DEF Register, Unregister
<1>2. CASE AddRef(c)
  BY <1>2 DEF AddRef
<1>3. CASE CreateWorker(c)
  BY <1>3 DEF CreateWorker, NewWorkers, WorkerGoto
<1>4. CASE CreateFails(c) \/ NotStarted(c)
  BY <1>4 DEF CreateFails, NotStarted, GiveUp
<1>5. CASE Started(c)
  BY <1>5 DEF Started
<1>6. CASE Release(c)
  BY <1>6 DEF Release
<1>7. CASE Push(c) \/ PostClose(c)
  BY <1>7 DEF Push, PostClose
<1>8. QED
  BY <1>1, <1>2, <1>3, <1>4, <1>5, <1>6, <1>7 DEF ClientStep

LEMMA ServedByWorker ==
  ASSUME "class" \notin StartFailures, CountInv, ServedInv,
         NEW w \in Workers, WorkerStep(w) \/ Broadcast(w)
  PROVE  ServedInv'
<1>0. Locked # 1
  BY CarriersBound DEF FewReferences, CountInv
<1> USE RunnerAssumption DEF CountInv, Types, LockHeld, Starts, Stops, ServedInv, Serves, Alive,
      WorkerLabels, WorkerGoto, lists, client, worker
<1>1. CASE WindowCreated(w)
  BY <1>1 DEF WindowCreated
<1>2. CASE WorkerFails(w)
  BY <1>2 DEF WorkerFails
<1>3. CASE DispatchMessage(w)
  BY <1>3 DEF DispatchMessage, Deliver
<1>4. CASE CallNext(w) \/ CallbackReturns(w) \/ RemoveNext(w) \/ MergePending(w) \/ Broadcast(w)
  BY <1>4 DEF CallNext, CallbackReturns, RemoveNext, MergePending, Broadcast, Walking
<1>5. CASE EndWalk(w)
  BY <1>5 DEF EndWalk, Walking
<1>6. CASE DispatchClose(w)
  <2>1. CASE uRef = 1
    <3>1. /\ uRef' = Locked /\ wpc' = [wpc EXCEPT ![w] = "clean"]
          /\ \A c \in Clients : pc[c] # "starting"
          /\ UNCHANGED <<exit, outcome, pc, starting, hWnd>>
      BY <1>6, <2>1, <1>0 DEF DispatchClose
    <3>2. QED
      BY <3>1
  <2>2. CASE uRef # 1
    BY <1>6, <2>2 DEF DispatchClose
  <2>3. QED
    BY <2>1, <2>2
<1>7. CASE CleanLists(w)
  BY <1>7 DEF CleanLists
<1>8. CASE Unlock(w) \/ FreeLists(w)
  BY <1>8 DEF Unlock, FreeLists
<1>9. CASE ForcedClose(w)
  BY <1>9 DEF ForcedClose, Deliver
<1>10. QED
  BY <1>1, <1>2, <1>3, <1>4, <1>5, <1>6, <1>7, <1>8, <1>9 DEF WorkerStep

(* If registering the window class does not fail, then for any number of   *)
(* clients, tasks and workers a registered task has a worker in its        *)
(* message loop until the process exits.                                   *)
THEOREM RegisteredIsServed ==
  ASSUME "class" \notin StartFailures
  PROVE  Spec => []WorkerWhileRegistered
<1>1. CountInv /\ ServedInv /\ [Next]_vars => ServedInv'
  <2> SUFFICES ASSUME CountInv, ServedInv, [Next]_vars PROVE ServedInv'
    OBVIOUS
  <2>1. CASE ExitBegins \/ ExitReturns \/ UNCHANGED vars
    BY <2>1 DEF ExitBegins, ExitReturns, vars, lists, client, worker, CountInv, Types, ServedInv, Serves
  <2>2. QED
    BY <2>1, ServedByClient, ServedByWorker DEF Next, Quiet
<1>2. CountInv /\ ServedInv => WorkerWhileRegistered
  <2> SUFFICES ASSUME CountInv, ServedInv, exit.at = "running", Registered # {}
               PROVE  hWnd # Nil /\ wpc[hWnd] \in {"loop", "walk", "callback"}
    BY DEF WorkerWhileRegistered
  <2>1. \E t : \E c \in Clients : t \in held[c]
    BY DEF Registered
  <2>2. PICK t : <<t, "task">> \in References
    BY <2>1, Elements DEF InReferences, CountInv
  <2>3. uRef \notin {0, Locked}
    BY <2>2 DEF CountInv, RefsBalanced
  <2>4. QED
    BY <2>3, RunnerAssumption DEF ServedInv, Serves, Alive
<1>3. QED
  BY <1>1, <1>2, CountInit, CountNext, ServedInit, PTL DEF Spec


-----------------------------------------------------------------------------
(* Lists.  Chain(f, first) is what first leads to along f.                 *)
Chain(f, first) ==
  {t \in Tasks :
     \A S \in SUBSET Tasks :
       (first \in S \cup {Nil} /\ \A u \in S : f[u] \in S \cup {Nil}) => t \in S}

Links == [Tasks \cup {Root} -> Tasks \cup {Nil}]

LEMMA ChainLeast ==
  ASSUME NEW f, NEW first, NEW S \in SUBSET Tasks,
         first \in S \cup {Nil}, \A u \in S : f[u] \in S \cup {Nil}
  PROVE  Chain(f, first) \subseteq S
BY DEF Chain

LEMMA ChainClosed ==
  ASSUME NEW f \in Links, NEW first \in Tasks \cup {Nil}
  PROVE  /\ Chain(f, first) \subseteq Tasks
         /\ first \in Chain(f, first) \cup {Nil}
         /\ \A u \in Chain(f, first) : f[u] \in Chain(f, first) \cup {Nil}
BY DEF Chain, Links

(* A list does not change by links that are not its own.                   *)
LEMMA ChainKept ==
  ASSUME NEW f \in Links, NEW g \in Links, NEW first \in Tasks \cup {Nil},
         \A u \in Chain(f, first) : g[u] = f[u]
  PROVE  Chain(g, first) = Chain(f, first)
<1>1. Chain(g, first) \subseteq Chain(f, first)
  BY ChainClosed, ChainLeast
<1>2. ASSUME NEW t \in Chain(f, first), NEW S \in SUBSET Tasks,
             first \in S \cup {Nil}, \A u \in S : g[u] \in S \cup {Nil}
      PROVE  t \in S
  <2>. DEFINE B == S \cap Chain(f, first)
  <2>1. first \in B \cup {Nil} /\ \A u \in B : f[u] \in B \cup {Nil}
    BY <1>2, ChainClosed
  <2>2. B \in SUBSET Tasks
    OBVIOUS
  <2>. QED  BY <2>1, <2>2 DEF Chain
<1>3. Chain(f, first) \subseteq Chain(g, first)
  BY <1>2 DEF Chain
<1>. QED  BY <1>1, <1>3

LEMMA ChainPush ==
  ASSUME NEW f \in Links, NEW first \in Tasks \cup {Nil},
         NEW t \in Tasks, t \notin Chain(f, first),
         NEW g, g = [f EXCEPT ![t] = first]
  PROVE  /\ \A u \in Chain(g, t) : u = t \/ u \in Chain(f, first)
         /\ t \in Chain(g, t) /\ \A u \in Chain(f, first) : u \in Chain(g, t)
<1>1. g \in Links /\ g[t] = first /\ \A u \in Tasks : u # t => g[u] = f[u]
  BY DEF Links
<1>2. Chain(g, first) = Chain(f, first)
  <2>1. \A u \in Chain(f, first) : g[u] = f[u]
    BY <1>1, ChainClosed
  <2>. QED  BY <1>1, <2>1, ChainKept
<1>. DEFINE S == Chain(f, first) \cup {t}
<1>3. S \in SUBSET Tasks /\ t \in S /\ \A u \in S : g[u] \in S \cup {Nil}
  BY <1>1, ChainClosed
<1>4. Chain(g, t) \subseteq S
  BY <1>3, ChainLeast
<1>5. t \in Chain(g, t) /\ first \in Chain(g, t) \cup {Nil}
  <2>1. t \in Chain(g, t) \cup {Nil}
    BY <1>1, ChainClosed
  <2>2. t \in Chain(g, t)
    BY <2>1, RunnerAssumption
  <2>3. g[t] \in Chain(g, t) \cup {Nil}
    BY <1>1, <2>2, ChainClosed
  <2>. QED  BY <1>1, <2>2, <2>3
<1>6. Chain(g, first) \subseteq Chain(g, t)
  <2>1. Chain(g, t) \in SUBSET Tasks /\ \A u \in Chain(g, t) : g[u] \in Chain(g, t) \cup {Nil}
    BY <1>1, ChainClosed
  <2>. QED  BY <1>5, <2>1, ChainLeast
<1>. QED  BY <1>2, <1>4, <1>5, <1>6

LEMMA ChainShort ==
  ASSUME NEW f \in Links
  PROVE  /\ Chain(f, Nil) = {}
         /\ \A t \in Tasks : f[t] = Nil => Chain(f, t) \subseteq {t}
<1>1. Chain(f, Nil) \subseteq {}
  <2>1. {} \in SUBSET Tasks /\ Nil \in {} \cup {Nil} /\ \A u \in {} : f[u] \in {} \cup {Nil}
    OBVIOUS
  <2>. QED  BY <2>1, ChainLeast
<1>2. ASSUME NEW t \in Tasks, f[t] = Nil PROVE Chain(f, t) \subseteq {t}
  <2>1. {t} \in SUBSET Tasks /\ t \in {t} /\ \A u \in {t} : f[u] \in {t} \cup {Nil}
    BY <1>2
  <2>. QED  BY <2>1, ChainLeast
<1>. QED  BY <1>1, <1>2

-----------------------------------------------------------------------------
Active == WorkerLabels \ {"none", "free", "gone"}
Walks == {"walk", "callback", "lastWalk", "lastCallback"}

(* There is one worker at a time, but for those that only free their lists,*)
(* and none when uRef is 0 or a client is about to start one.              *)
OneWorker ==
  /\ \A v, w \in Workers : (wpc[v] \in Active /\ wpc[w] \in Active) => v = w
  /\ \A w \in Workers : wpc[w] \in Active =>
       uRef # 0 /\ \A c \in Clients : pc[c] # "start" /\ (pc[c] = "starting" => starting[c] = w)
  /\ \A c \in Clients : pc[c] = "starting" => starting[c] \in Workers
  /\ \A w \in Workers :
       /\ outcome[w] \in {"zero", "error"} => wpc[w] = "gone"
       /\ wpc[w] \in {"none", "create"} => outcome[w] = "none"

ListTypes ==
  /\ next \in Links
  /\ pending \in Tasks \cup {Nil}
  /\ freed \subseteq Tasks
  /\ mine \in [Workers -> SUBSET Tasks]
  /\ at \in [Workers -> Tasks \cup {Root}]
  /\ tail \in [Workers -> Tasks \cup {Root}]
  /\ pass \in [Workers -> {1, 2}]

(* The list the worker walks never has more than one task; the pending one *)
(* ends.  The first pass starts at the head of the list, and only a task   *)
(* that is freed may be where the second one starts.                       *)
ListShapes ==
  /\ next[Root] # Nil => next[next[Root]] = Nil
  /\ pending # Nil => \E t \in Listed(pending) : next[t] = Nil
  /\ \A w \in Workers : wpc[w] \in Walks =>
       /\ pass[w] = 1 => at[w] = Root /\ tail[w] \in {Root, next[Root]} \cup freed
       /\ at[w] \in {Root} \cup freed
       /\ (at[w] # Root /\ next[at[w]] # Nil) => next[next[at[w]]] = Nil
  /\ \A w \in Workers : \A t \in mine[w] : wpc[w] \in {"unlock", "free"}

(* Where a task may be.  Unlisted are those nobody has added yet, and      *)
(* stray the one that a worker finds behind a task that is freed.          *)
Unlisted(t) == callback[t] = "none" \/ \E c \in Clients : pc[c] \in Adding /\ task[c] = t
IsRegistered(t) == \E c \in Clients : t \in held[c]
Taken(t) == \E w \in Workers : t \in mine[w]
Stray(t) == \E w \in Workers : wpc[w] \in Walks /\ at[w] # Root /\ next[at[w]] = t

OnePlace ==
  /\ \A t \in Tasks :
       /\ Unlisted(t) => ~(\/ t \in freed \/ Taken(t) \/ t \in Listed(pending)
                           \/ t = next[Root] \/ Stray(t))
       /\ t \in freed => ~(\/ IsRegistered(t) \/ Taken(t) \/ t \in Listed(pending)
                           \/ t = next[Root] \/ Stray(t))
       /\ Taken(t) => ~(\/ IsRegistered(t) \/ t \in Listed(pending)
                        \/ t = next[Root] \/ Stray(t))
       /\ t \in Listed(pending) => t # next[Root] /\ ~Stray(t)
       /\ t = next[Root] => ~Stray(t)
  /\ \A v, w \in Workers : \A t \in mine[v] : t \in mine[w] => v = w

ListInv == ListTypes /\ OneWorker /\ ListShapes /\ OnePlace

-----------------------------------------------------------------------------
LEMMA OneWorkerStep ==
  ASSUME CountInv, OneWorker, [Next]_vars
  PROVE  OneWorker'
<1>. USE RunnerAssumption DEF CountInv, Types, OneWorker, Active, WorkerLabels, Alive, LockHeld,
      Starts, Stops, Labels, lists, client, worker, Goto, WorkerGoto
<1>0. Locked # 0
  BY CarriersBound DEF FewReferences
<1>1. ASSUME NEW c \in Clients, Register(c) \/ Unregister(c) \/ Release(c) \/ PostClose(c) \/ Push(c)
      PROVE  OneWorker'
  <2>1. \A d \in Clients : pc'[d] \in {"start", "starting"} => pc'[d] = pc[d]
    BY <1>1 DEF Register, Unregister, Release, PostClose, Push
  <2>2. uRef # 0 => uRef' # 0
    BY <1>1 DEF Register, Unregister, Release, PostClose, Push
  <2>3. UNCHANGED <<wpc, outcome, starting>>
    BY <1>1 DEF Register, Unregister, Release, PostClose, Push
  <2>. QED  BY <2>1, <2>2, <2>3
<1>2. ASSUME NEW c \in Clients, AddRef(c) PROVE OneWorker'
  BY <1>2 DEF AddRef
<1>3. ASSUME NEW c \in Clients, CreateWorker(c) PROVE OneWorker'
  <2>1. PICK x \in NewWorkers : wpc' = [wpc EXCEPT ![x] = "create"] /\ starting' = [starting EXCEPT ![c] = x]
    BY <1>3 DEF CreateWorker
  <2>2. /\ x \in Workers /\ wpc[x] = "none" /\ pc[c] = "start" /\ pc' = [pc EXCEPT ![c] = "starting"]
        /\ UNCHANGED <<uRef, outcome>> /\ uRef = Locked
    BY <1>3, <2>1 DEF CreateWorker, NewWorkers
  <2>3. \A w \in Workers : wpc'[w] \in Active => w = x
    BY <2>1, <2>2
  <2>4. \A d \in Clients : pc'[d] \in {"start", "starting"} => d = c
    BY <2>2
  <2>. QED  BY <1>0, <2>1, <2>2, <2>3, <2>4
<1>4. ASSUME NEW c \in Clients, CreateFails(c) \/ NotStarted(c) PROVE OneWorker'
  <2>1. \A w \in Workers : wpc[w] \notin Active
    BY <1>4 DEF CreateFails, NotStarted
  <2>. QED  BY <1>4, <2>1 DEF CreateFails, NotStarted, GiveUp
<1>5. ASSUME NEW c \in Clients, Started(c) PROVE OneWorker'
  BY <1>5 DEF Started
<1>6. ASSUME NEW w \in Workers, WindowCreated(w) \/ WorkerFails(w) PROVE OneWorker'
  BY <1>6 DEF WindowCreated, WorkerFails
<1>7. ASSUME NEW w \in Workers, DispatchClose(w) \/ ForcedClose(w) PROVE OneWorker'
  <2>1. /\ wpc[w] = "loop" /\ UNCHANGED <<outcome, pc, starting>>
        /\ \A v \in Workers : v # w => wpc'[v] = wpc[v]
        /\ wpc'[w] \in {"loop", "clean", "lastWalk", "gone"}
    BY <1>7 DEF DispatchClose, ForcedClose, Deliver
  <2>2. uRef' \in {uRef, Locked}
    BY <1>7 DEF DispatchClose, ForcedClose, Deliver
  <2>3. \A v \in Workers : wpc'[v] \in Active => wpc[v] \in Active
    BY <2>1
  <2>4. uRef' # 0
    BY <1>0, <2>1, <2>2
  <2>5. \A v \in Workers : (outcome[v] \in {"zero", "error"} => wpc'[v] = "gone") /\ wpc'[v] \in {"none", "create"} => outcome[v] = "none"
    BY <2>1
  <2>. QED  BY <2>1, <2>3, <2>4, <2>5
<1>8. ASSUME NEW w \in Workers, Unlock(w) PROVE OneWorker'
  BY <1>8 DEF Unlock
<1>9. ASSUME NEW w \in Workers, DispatchMessage(w) \/ CallNext(w) \/ CallbackReturns(w) \/ EndWalk(w)
             \/ CleanLists(w) \/ FreeLists(w)
      PROVE OneWorker'
  BY <1>9 DEF DispatchMessage, Deliver, CallNext, CallbackReturns, EndWalk, CleanLists, FreeLists, Walking
<1>10. ASSUME NEW w \in Workers, RemoveNext(w) \/ MergePending(w) \/ Broadcast(w) PROVE OneWorker'
  BY <1>10 DEF RemoveNext, MergePending, Broadcast
<1>11. CASE ExitBegins \/ ExitReturns \/ UNCHANGED vars
  BY <1>11 DEF ExitBegins, ExitReturns, vars
<1>. QED  BY <1>1, <1>2, <1>3, <1>4, <1>5, <1>6, <1>7, <1>8, <1>9, <1>10, <1>11
          DEF Next, ClientStep, WorkerStep, Quiet

(* The pending list ends, so that it has an oldest task.                   *)
LEMMA OldestPending ==
  ASSUME ListTypes, ListShapes, pending # Nil
  PROVE  Oldest(pending) \in Listed(pending) /\ next[Oldest(pending)] = Nil
BY DEF ListTypes, ListShapes, Oldest

LEMMA ListedTasks ==
  ASSUME ListTypes
  PROVE  /\ Listed(pending) = Chain(next, pending) /\ Listed(pending) \subseteq Tasks
         /\ Listed(next[Root]) = Chain(next, next[Root]) /\ Listed(next[Root]) \subseteq Tasks
BY DEF Listed, Chain

LEMMA ListTypesStep ==
  ASSUME CountInv, ListInv, [Next]_vars
  PROVE  ListTypes'
<1>. USE RunnerAssumption DEF CountInv, Types, ListInv, ListTypes, Links, lists, client, worker,
      Goto, WorkerGoto
<1>1. ASSUME NEW c \in Clients,
             \/ Register(c) \/ Unregister(c) \/ Release(c) \/ PostClose(c) \/ AddRef(c)
             \/ CreateWorker(c) \/ Started(c)
      PROVE  ListTypes'
  BY <1>1 DEF Register, Unregister, Release, PostClose, AddRef, CreateWorker, Started
<1>2. ASSUME NEW c \in Clients, Push(c) \/ CreateFails(c) \/ NotStarted(c) PROVE ListTypes'
  <2>1. task[c] \in Tasks
    BY <1>2 DEF Push, CreateFails, NotStarted, TasksOwned, Adding
  <2>. QED  BY <1>2, <2>1 DEF Push, CreateFails, NotStarted, GiveUp
<1>3. ASSUME NEW w \in Workers,
             \/ WindowCreated(w) \/ WorkerFails(w) \/ DispatchClose(w) \/ Unlock(w)
             \/ CallbackReturns(w) \/ EndWalk(w) \/ Broadcast(w)
      PROVE  ListTypes'
  BY <1>3 DEF WindowCreated, WorkerFails, DispatchClose, Unlock, CallbackReturns, EndWalk, Broadcast
<1>4. ASSUME NEW w \in Workers, DispatchMessage(w) \/ ForcedClose(w) PROVE ListTypes'
  BY <1>4 DEF DispatchMessage, ForcedClose, Deliver
<1>5. ASSUME NEW w \in Workers, CallNext(w) PROVE ListTypes'
  BY <1>5 DEF CallNext
<1>6. ASSUME NEW w \in Workers, RemoveNext(w) PROVE ListTypes'
  BY <1>6 DEF RemoveNext
<1>7. ASSUME NEW w \in Workers, MergePending(w) PROVE ListTypes'
  <2>1. Oldest(pending) \in Tasks
    BY <1>7, OldestPending, ListedTasks DEF MergePending
  <2>. QED  BY <1>7, <2>1 DEF MergePending
<1>8. ASSUME NEW w \in Workers, CleanLists(w) PROVE ListTypes'
  BY <1>8, ListedTasks DEF CleanLists
<1>9. ASSUME NEW w \in Workers, FreeLists(w) PROVE ListTypes'
  BY <1>9 DEF FreeLists
<1>10. CASE ExitBegins \/ ExitReturns \/ UNCHANGED vars
  BY <1>10 DEF ExitBegins, ExitReturns, vars
<1>. QED  BY <1>1, <1>2, <1>3, <1>4, <1>5, <1>6, <1>7, <1>8, <1>9, <1>10
          DEF Next, ClientStep, WorkerStep, Quiet

-----------------------------------------------------------------------------
(* The pending list when nobody writes to its links.                       *)
LEMMA PendingKept ==
  ASSUME ListTypes, ListTypes', pending' = pending,
         \A u \in Listed(pending) : next'[u] = next[u]
  PROVE  Listed(pending)' = Listed(pending)
<1>1. Listed(pending)' = Chain(next', pending') /\ Listed(pending) = Chain(next, pending)
  BY DEF Listed, Chain
<1>. QED  BY <1>1, ChainKept DEF ListTypes

LEMMA PendingNil ==
  ASSUME ListTypes', pending' = Nil
  PROVE  Listed(pending)' = {}
<1>1. Listed(pending)' = Chain(next', pending')
  BY DEF Listed, Chain
<1>. QED  BY <1>1, ChainShort DEF ListTypes

LEMMA PendingPush ==
  ASSUME ListTypes, ListTypes', NEW t \in Tasks, t \notin Listed(pending), pending' = t,
         next' = [next EXCEPT ![t] = pending]
  PROVE  \A u : u \in Listed(pending)' <=> u = t \/ u \in Listed(pending)
<1>1. Listed(pending)' = Chain(next', pending') /\ Listed(pending) = Chain(next, pending)
  BY DEF Listed, Chain
<1>3. next \in Links /\ pending \in Tasks \cup {Nil} /\ t \notin Chain(next, pending)
  BY <1>1 DEF ListTypes
<1>2. /\ \A u \in Chain(next', t) : u = t \/ u \in Chain(next, pending)
      /\ t \in Chain(next', t) /\ \A u \in Chain(next, pending) : u \in Chain(next', t)
  BY <1>3, ChainPush
<1>. QED  BY <1>1, <1>2

(* A step that moves no task and lets no worker look at another one.       *)
Looks(w) ==
  \/ at'[w] = Root /\ tail'[w] = Root /\ pass'[w] = 1
  \/ /\ wpc[w] \in Walks /\ at'[w] = at[w] /\ pass'[w] = pass[w]
     /\ tail'[w] \in {tail[w], next[at[w]]}

NothingMoves ==
  /\ UNCHANGED <<next, pending, freed, mine>>
  /\ \A t \in Tasks :
       (Unlisted(t)' => Unlisted(t)) /\ (IsRegistered(t)' => IsRegistered(t))
  /\ \A w \in Workers :
       /\ wpc'[w] \in Walks => Looks(w)
       /\ wpc[w] \in {"unlock", "free"} => wpc'[w] \in {"unlock", "free"}

LEMMA NothingMovesKeeps ==
  ASSUME ListInv, ListTypes', NothingMoves
  PROVE  OnePlace' /\ ListShapes'
<1>. USE DEF NothingMoves
<1>1. Listed(pending)' = Listed(pending)
  BY PendingKept DEF ListInv
<1>2. \A t \in Tasks : Stray(t)' => Stray(t)
  BY DEF Stray, Looks
<1>3. \A t \in Tasks : Taken(t)' <=> Taken(t)
  BY DEF Taken
<1>4. OnePlace'
  BY <1>1, <1>2, <1>3 DEF OnePlace, ListInv
<1>5. ASSUME NEW w \in Workers, wpc'[w] \in Walks
      PROVE  /\ pass'[w] = 1 => at'[w] = Root /\ tail'[w] \in {Root, next[Root]} \cup freed
             /\ at'[w] \in {Root} \cup freed
             /\ (at'[w] # Root /\ next[at'[w]] # Nil) => next[next[at'[w]]] = Nil
  BY <1>5 DEF Looks, ListShapes, ListInv
<1>6. ListShapes'
  BY <1>1, <1>5 DEF ListShapes, ListInv
<1>. QED  BY <1>4, <1>6

(* What the clients do with tasks.                                         *)
LEMMA ClientPlaces ==
  ASSUME CountInv, ListInv, ListTypes', NEW c \in Clients,
         Register(c) \/ Unregister(c) \/ ClientStep(c)
  PROVE  OnePlace' /\ ListShapes'
<1>. USE RunnerAssumption DEF CountInv, Types, ListTypes, lists, worker, Goto, WorkerGoto
<1>1. CASE \/ Register(c) \/ Unregister(c) \/ AddRef(c) \/ Started(c) \/ CreateWorker(c)
           \/ Release(c) \/ PostClose(c)
  <2>1. UNCHANGED <<next, pending, freed, mine, at, tail, pass>>
    BY <1>1 DEF Register, Unregister, AddRef, Started, CreateWorker, Release, PostClose
  <2>2. \A w \in Workers : wpc'[w] \in Walks \cup {"unlock", "free"} => wpc'[w] = wpc[w]
    BY <1>1 DEF Register, Unregister, AddRef, Started, CreateWorker, Release, PostClose, Walks
  <2>3. \A w \in Workers : wpc[w] # "none" => wpc'[w] = wpc[w]
    BY <1>1 DEF Register, Unregister, AddRef, Started, CreateWorker, Release, PostClose, NewWorkers
  <2>4. ASSUME NEW t \in Tasks PROVE (Unlisted(t)' => Unlisted(t)) /\ (IsRegistered(t)' => IsRegistered(t))
    <3>1. CASE Register(c)
      <4>1. PICK x \in NewTasks : /\ callback' = [callback EXCEPT ![x] = "set"] /\ task' = [task EXCEPT ![c] = x]
                                  /\ pc' = [pc EXCEPT ![c] = "addRef"] /\ held' = held
        BY <3>1 DEF Register
      <4>2. IsRegistered(t)' <=> IsRegistered(t)
        BY <4>1 DEF IsRegistered
      <4>3. Unlisted(x)
        BY DEF Unlisted, NewTasks
      <4>4. t # x => (Unlisted(t)' => Unlisted(t))
        BY <4>1 DEF Unlisted
      <4>. QED  BY <4>2, <4>3, <4>4
    <3>2. CASE Unregister(c)
      <4>1. PICK x \in held[c] : /\ callback' = [callback EXCEPT ![x] = "null"] /\ held' = [held EXCEPT ![c] = @ \ {x}]
                                 /\ pc' = [pc EXCEPT ![c] = "release"] /\ task' = task
        BY <3>2 DEF Unregister
      <4>. QED  BY <4>1 DEF Unlisted, IsRegistered, Adding
    <3>3. CASE AddRef(c) \/ Started(c) \/ CreateWorker(c)
      <4>1. /\ UNCHANGED <<callback, held, task>> /\ pc[c] \in Adding
            /\ \A d \in Clients : d # c => pc'[d] = pc[d]
        BY <3>3 DEF AddRef, Started, CreateWorker, Adding
      <4>. QED  BY <4>1 DEF Unlisted, IsRegistered
    <3>4. CASE Release(c) \/ PostClose(c)
      <4>1. /\ UNCHANGED <<callback, held, task>> /\ pc'[c] \notin Adding
            /\ \A d \in Clients : d # c => pc'[d] = pc[d]
        BY <3>4 DEF Release, PostClose, Adding
      <4>. QED  BY <4>1 DEF Unlisted, IsRegistered
    <3>. QED  BY <1>1, <3>1, <3>2, <3>3, <3>4
  <2>5. NothingMoves
    BY <2>1, <2>2, <2>3, <2>4 DEF NothingMoves, Looks
  <2>. QED  BY <2>5, NothingMovesKeeps
<1>2. CASE CreateFails(c) \/ NotStarted(c)
  <2>. DEFINE x == task[c]
  <2>1. /\ x \in Tasks /\ Unlisted(x) /\ callback[x] = "set" /\ ~IsRegistered(x)
        /\ \A d \in Clients : pc[d] \in Adding /\ task[d] = x => d = c
    BY <1>2 DEF CreateFails, NotStarted, TasksOwned, Adding, Unlisted, IsRegistered
  <2>2. /\ freed' = freed \cup {x} /\ pc' = [pc EXCEPT ![c] = "out"] /\ task' = [task EXCEPT ![c] = Nil]
        /\ UNCHANGED <<next, pending, mine, at, tail, pass, wpc, callback, held>>
    BY <1>2 DEF CreateFails, NotStarted, GiveUp
  <2>. HIDE DEF x
  <2>3. Listed(pending)' = Listed(pending)
    BY <2>2, PendingKept DEF ListInv
  <2>4. ASSUME NEW t \in Tasks
        PROVE  /\ Unlisted(t)' => Unlisted(t) /\ t # x
               /\ (IsRegistered(t)' <=> IsRegistered(t)) /\ (Taken(t)' <=> Taken(t)) /\ (Stray(t)' <=> Stray(t))
    BY <2>1, <2>2 DEF Unlisted, Adding, IsRegistered, Taken, Stray
  <2>5. OnePlace'
    BY <2>1, <2>2, <2>3, <2>4 DEF OnePlace, ListInv
  <2>6. ListShapes'
    BY <2>2, <2>3 DEF ListShapes, ListInv
  <2>. QED  BY <2>5, <2>6
<1>3. CASE Push(c)
  <2>. DEFINE x == task[c]
  <2>1. /\ x \in Tasks /\ Unlisted(x) /\ callback[x] = "set"
        /\ \A d \in Clients : pc[d] \in Adding /\ task[d] = x => d = c
    BY <1>3 DEF Push, TasksOwned, Adding, Unlisted
  <2>2. /\ next' = [next EXCEPT ![x] = pending] /\ pending' = x /\ held' = [held EXCEPT ![c] = @ \cup {x}]
        /\ pc' = [pc EXCEPT ![c] = "out"] /\ task' = [task EXCEPT ![c] = Nil]
        /\ UNCHANGED <<freed, mine, at, tail, pass, wpc, callback>>
    BY <1>3 DEF Push
  <2>. HIDE DEF x
  <2>3. /\ x \notin freed /\ ~Taken(x) /\ x \notin Listed(pending) /\ x # next[Root] /\ ~Stray(x)
    BY <2>1 DEF OnePlace, ListInv
  <2>4. \A u : u \in Listed(pending)' <=> u = x \/ u \in Listed(pending)
    BY <2>1, <2>2, <2>3, PendingPush DEF ListInv
  <2>5. next'[Root] = next[Root] /\ \A t \in Tasks \cup {Root} : t # x => next'[t] = next[t]
    BY <2>1, <2>2 DEF Links
  <2>6. \A w \in Workers : wpc[w] \in Walks => next'[at[w]] = next[at[w]] /\ at[w] # x
    BY <2>1, <2>3, <2>5 DEF ListShapes, ListInv
  <2>7. ASSUME NEW t \in Tasks
        PROVE  /\ Unlisted(t)' => Unlisted(t) /\ t # x
               /\ (IsRegistered(t)' <=> t = x \/ IsRegistered(t))
               /\ (Taken(t)' <=> Taken(t)) /\ (Stray(t)' <=> Stray(t))
    BY <2>1, <2>2, <2>6 DEF Unlisted, Adding, IsRegistered, Taken, Stray
  <2>8. OnePlace'
    BY <2>2, <2>3, <2>4, <2>5, <2>7 DEF OnePlace, ListInv
  <2>9. pending' # Nil => \E t \in Listed(pending)' : next'[t] = Nil
    <3>1. CASE pending = Nil
      BY <2>1, <2>2, <2>4, <3>1 DEF Links
    <3>2. CASE pending # Nil
      <4>1. PICK t \in Listed(pending) : next[t] = Nil
        BY <3>2 DEF ListShapes, ListInv
      <4>2. t \in Tasks
        BY ListedTasks DEF ListInv
      <4>. QED  BY <2>3, <2>4, <2>5, <4>1, <4>2
    <3>. QED  BY <3>1, <3>2
  <2>10. next'[Root] # Nil => next'[next'[Root]] = Nil
    BY <2>3, <2>5 DEF ListShapes, ListInv, Links
  <2>11. ASSUME NEW w \in Workers, wpc[w] \in Walks
         PROVE  /\ pass[w] = 1 => at[w] = Root /\ tail[w] \in {Root, next'[Root]} \cup freed
                /\ at[w] \in {Root} \cup freed
                /\ (at[w] # Root /\ next'[at[w]] # Nil) => next'[next'[at[w]]] = Nil
    <3>1. (at[w] # Root /\ next[at[w]] # Nil) => (next[at[w]] \in Tasks /\ next[at[w]] # x /\ next[next[at[w]]] = Nil)
      BY <2>3, <2>11 DEF ListShapes, ListInv, Links, Stray
    <3>2. /\ pass[w] = 1 => at[w] = Root /\ tail[w] \in {Root, next[Root]} \cup freed
          /\ at[w] \in {Root} \cup freed
      BY <2>11 DEF ListShapes, ListInv
    <3>. QED  BY <2>5, <2>6, <2>11, <3>1, <3>2
  <2>12. ListShapes'
    BY <2>2, <2>9, <2>10, <2>11 DEF ListShapes, ListInv
  <2>. QED  BY <2>8, <2>12
<1>. QED  BY <1>1, <1>2, <1>3 DEF ClientStep

(* What the worker does with them.                                         *)
LEMMA RemovePlaces ==
  ASSUME CountInv, ListInv, ListTypes', NEW w \in Workers, RemoveNext(w)
  PROVE  OnePlace' /\ ListShapes'
<1>. USE RunnerAssumption DEF CountInv, Types, ListTypes, Links, client
<1>1. wpc[w] \in Walks /\ wpc[w] \in Active /\ \A v \in Workers : wpc[v] \in Walks => v = w
  BY DEF RemoveNext, Walking, Walks, ListInv, OneWorker, Active, WorkerLabels, Alive
<1>2. PICK n \in Tasks : n = next[at[w]] /\ callback[n] = "null" /\ next[n] = Nil
  BY <1>1 DEF RemoveNext, ListInv, ListShapes
<1>3. /\ next' = [next EXCEPT ![at[w]] = Nil] /\ freed' = freed \cup {n}
      /\ UNCHANGED <<pending, callback, held, pc, task, wpc, at, tail, pass, mine>>
  BY <1>2 DEF RemoveNext
<1>4. ~Unlisted(n) /\ ~IsRegistered(n)
  BY <1>2 DEF Unlisted, IsRegistered, TasksOwned
<1>5. at[w] \in {Root} \cup freed /\ (at[w] = Root => n = next[Root]) /\ (at[w] # Root => Stray(n))
  BY <1>1, <1>2 DEF ListInv, ListShapes, Stray
<1>6. n \notin freed /\ ~Taken(n) /\ n \notin Listed(pending) /\ (n = next[Root] => at[w] = Root)
  BY <1>2, <1>5 DEF ListInv, OnePlace
<1>7. at[w] \notin Listed(pending)
  BY <1>5, ListedTasks DEF ListInv, OnePlace
<1>8. Listed(pending)' = Listed(pending)
  <2>1. \A u \in Listed(pending) : next'[u] = next[u]
    BY <1>3, <1>7, ListedTasks DEF ListInv
  <2>. QED  BY <1>3, <2>1, PendingKept DEF ListInv
<1>9. next'[at[w]] = Nil /\ \A u \in Tasks \cup {Root} : u # at[w] => next'[u] = next[u]
  BY <1>3 DEF ListInv
<1>10. \A v \in Workers : ~(wpc'[v] \in Walks /\ at'[v] # Root /\ next'[at'[v]] # Nil)
  BY <1>1, <1>3, <1>9
<1>11. \A t \in Tasks : ~Stray(t)'
  BY <1>10 DEF Stray
<1>12. ASSUME NEW t \in Tasks
       PROVE  /\ Unlisted(t)' <=> Unlisted(t)
              /\ IsRegistered(t)' <=> IsRegistered(t)
              /\ Taken(t)' <=> Taken(t)
  BY <1>3 DEF Unlisted, IsRegistered, Taken
<1>13. \A t \in Tasks : t = next'[Root] => t = next[Root] /\ t # n
  BY <1>5, <1>6, <1>9
<1>14. OnePlace'
  BY <1>2, <1>3, <1>4, <1>6, <1>8, <1>11, <1>12, <1>13 DEF ListInv, OnePlace
<1>15. next'[Root] # Nil => next'[next'[Root]] = Nil
  BY <1>9 DEF ListInv, ListShapes
<1>16. pending # Nil => \E t \in Listed(pending) : next'[t] = Nil
  BY <1>7, <1>9, ListedTasks DEF ListInv, ListShapes
<1>17. \A v \in Workers : (wpc[v] \in Walks /\ pass[v] = 1) =>
         at[v] = Root /\ tail[v] \in {Root} \cup freed \cup {n}
  BY <1>1, <1>2, <1>5 DEF ListInv, ListShapes
<1>18. \A v \in Workers : wpc[v] \in Walks => at[v] \in {Root} \cup freed
  BY <1>1, <1>5
<1>19. \A v \in Workers : \A t \in mine[v] : wpc[v] \in {"unlock", "free"}
  BY DEF ListInv, ListShapes
<1>20. ListShapes'
  BY <1>3, <1>8, <1>10, <1>15, <1>16, <1>17, <1>18, <1>19 DEF ListShapes
<1>. QED  BY <1>14, <1>20

LEMMA MergePlaces ==
  ASSUME CountInv, ListInv, ListTypes', NEW w \in Workers, MergePending(w)
  PROVE  OnePlace' /\ ListShapes'
<1>. USE RunnerAssumption DEF CountInv, Types, ListTypes, Links, client
<1>1. wpc[w] \in Walks /\ \A v \in Workers : wpc[v] \in Walks => v = w
  BY DEF MergePending, Walking, Walks, ListInv, OneWorker, Active, WorkerLabels, Alive
<1>2. at[w] = Root /\ next[Root] = Nil /\ tail[w] \in {Root} \cup freed
  BY <1>1 DEF MergePending, ListInv, ListShapes
<1>3. PICK o \in Tasks : o = Oldest(pending) /\ o \in Listed(pending) /\ next[o] = Nil
  BY OldestPending, ListedTasks DEF MergePending, ListInv
<1>4. /\ next' = [next EXCEPT ![tail[w]] = o] /\ pending' = Nil
      /\ at' = [at EXCEPT ![w] = tail[w]] /\ pass' = [pass EXCEPT ![w] = 2]
      /\ UNCHANGED <<callback, freed, held, pc, task, wpc, tail, mine>>
  BY <1>3 DEF MergePending
<1>5. o \notin freed /\ ~Taken(o) /\ ~Unlisted(o)
  BY <1>3 DEF ListInv, OnePlace
<1>6. Listed(pending)' = {}
  BY <1>4, PendingNil
<1>7. /\ next'[tail[w]] = o /\ \A u \in Tasks \cup {Root} : u # tail[w] => next'[u] = next[u]
      /\ next'[o] = Nil /\ at'[w] = tail[w] /\ pass'[w] = 2
  BY <1>2, <1>3, <1>4, <1>5 DEF ListInv
<1>8. next'[Root] = IF tail[w] = Root THEN o ELSE Nil
  BY <1>2, <1>7
<1>9. \A t \in Tasks : Stray(t)' => t = o /\ tail[w] # Root
  BY <1>1, <1>4, <1>7 DEF Stray
<1>10. ASSUME NEW t \in Tasks
       PROVE  /\ Unlisted(t)' <=> Unlisted(t)
              /\ IsRegistered(t)' <=> IsRegistered(t)
              /\ Taken(t)' <=> Taken(t)
  BY <1>4 DEF Unlisted, IsRegistered, Taken
<1>11. OnePlace'
  BY <1>4, <1>5, <1>6, <1>8, <1>9, <1>10 DEF ListInv, OnePlace
<1>12. \A v \in Workers : wpc'[v] \in Walks =>
         /\ pass'[v] = 2 /\ at'[v] \in {Root} \cup freed'
         /\ next'[at'[v]] = o
  BY <1>1, <1>2, <1>4, <1>7
<1>13. \A v \in Workers : \A t \in mine[v] : wpc[v] \in {"unlock", "free"}
  BY DEF ListInv, ListShapes
<1>14. next'[Root] # Nil => next'[next'[Root]] = Nil
  BY <1>7, <1>8
<1>15. ListShapes'
  BY <1>4, <1>7, <1>12, <1>13, <1>14 DEF ListShapes
<1>. QED  BY <1>11, <1>15

LEMMA ShortRest ==
  ASSUME ListTypes, ListShapes, next[Root] # Nil
  PROVE  Chain(next, next[Root]) \subseteq {next[Root]}
<1>1. next \in Links /\ next[Root] \in Tasks
  BY DEF ListTypes, Links
<1>2. next[next[Root]] = Nil
  BY <1>1 DEF ListShapes
<1>. QED  BY <1>1, <1>2, ChainShort

LEMMA CleanPlaces ==
  ASSUME CountInv, ListInv, ListTypes', NEW w \in Workers, CleanLists(w)
  PROVE  OnePlace' /\ ListShapes'
<1>. USE RunnerAssumption DEF CountInv, Types, ListTypes, Links, client
<1>1. wpc[w] = "clean" /\ \A v \in Workers : wpc[v] \notin Walks
  BY DEF CleanLists, Walks, ListInv, OneWorker, Active, WorkerLabels, Alive
<1>2. /\ mine' = [mine EXCEPT ![w] = Listed(next[Root]) \cup Listed(pending)]
      /\ next' = [next EXCEPT ![Root] = Nil] /\ pending' = Nil
      /\ wpc' = [wpc EXCEPT ![w] = "unlock"]
      /\ UNCHANGED <<callback, freed, held, pc, task, at, tail, pass>>
  BY DEF CleanLists, WorkerGoto
<1>3. \A t \in Tasks : ~IsRegistered(t)
  <2>1. References = {}
    BY <1>1 DEF LockHeld, Stops, RefsBalanced
  <2>. QED  BY <2>1, Elements DEF InReferences, IsRegistered
<1>4. \A t \in Listed(next[Root]) : t = next[Root] /\ t \in Tasks
  <2>1. Listed(next[Root]) = Chain(next, next[Root]) /\ next \in Links /\ next[Root] \in Tasks \cup {Nil}
    BY ListedTasks DEF ListInv
  <2>2. next[Root] = Nil => Listed(next[Root]) = {}
    BY <2>1, ChainShort
  <2>3. next[Root] # Nil => Listed(next[Root]) \subseteq {next[Root]}
    BY <2>1, ShortRest DEF ListInv
  <2>. QED  BY <2>1, <2>2, <2>3
<1>5. mine[w] = {}
  BY <1>1 DEF ListInv, ListShapes
<1>6. Listed(pending)' = {}
  BY <1>2, PendingNil
<1>7. next'[Root] = Nil /\ \A t \in Tasks : ~Stray(t) /\ ~Stray(t)'
  BY <1>1, <1>2 DEF Stray, Walks, ListInv
<1>8. \A v \in Workers : \A t \in mine'[v] :
        (v # w /\ t \in mine[v]) \/ (v = w /\ (t = next[Root] \/ t \in Listed(pending)))
  BY <1>2, <1>4 DEF ListInv
<1>9. ASSUME NEW t \in Tasks
      PROVE  /\ Unlisted(t)' <=> Unlisted(t)
             /\ ~IsRegistered(t)'
             /\ Taken(t)' => Taken(t) \/ t = next[Root] \/ t \in Listed(pending)
  BY <1>2, <1>3, <1>8 DEF Unlisted, IsRegistered, Taken
<1>10. \A u, v \in Workers : \A t \in mine'[u] : t \in mine'[v] => u = v
  <2>. SUFFICES ASSUME NEW u \in Workers, NEW v \in Workers, NEW t \in mine'[u], t \in mine'[v]
                PROVE  u = v
    OBVIOUS
  <2>1. t \in Tasks
    OBVIOUS
  <2>2. \A x \in Workers : t \in mine[x] => Taken(t)
    BY DEF Taken
  <2>. QED  BY <1>8, <2>1, <2>2 DEF ListInv, OnePlace
<1>11. OnePlace'
  BY <1>2, <1>6, <1>7, <1>9, <1>10 DEF ListInv, OnePlace
<1>12. \A v \in Workers : wpc'[v] \notin Walks
  BY <1>1, <1>2 DEF Walks
<1>13. \A v \in Workers : \A t \in mine'[v] : wpc'[v] \in {"unlock", "free"}
  BY <1>2, <1>8 DEF ListInv, ListShapes
<1>14. ListShapes'
  BY <1>2, <1>7, <1>12, <1>13 DEF ListShapes
<1>. QED  BY <1>11, <1>14

LEMMA FreePlaces ==
  ASSUME CountInv, ListInv, ListTypes', NEW w \in Workers, FreeLists(w)
  PROVE  OnePlace' /\ ListShapes'
<1>. USE RunnerAssumption DEF CountInv, Types, ListTypes, Links, client
<1>1. /\ wpc[w] = "free" /\ wpc' = [wpc EXCEPT ![w] = "gone"]
      /\ freed' = freed \cup mine[w] /\ mine' = [mine EXCEPT ![w] = {}]
      /\ UNCHANGED <<next, pending, callback, held, pc, task, at, tail, pass>>
  BY DEF FreeLists, WorkerGoto
<1>2. Listed(pending)' = Listed(pending)
  BY <1>1, PendingKept DEF ListInv
<1>3. \A v \in Workers : wpc'[v] \in Walks => wpc[v] \in Walks
  BY <1>1 DEF Walks
<1>4. ASSUME NEW t \in Tasks
      PROVE  /\ Unlisted(t)' <=> Unlisted(t)
             /\ IsRegistered(t)' <=> IsRegistered(t)
             /\ Stray(t)' => Stray(t)
             /\ t \in mine[w] => Taken(t)
             /\ Taken(t)' => Taken(t) /\ t \notin mine[w]
  <2>1. Taken(t)' => Taken(t) /\ t \notin mine[w]
    BY <1>1 DEF Taken, ListInv, OnePlace
  <2>. QED  BY <1>1, <1>3, <2>1 DEF Unlisted, IsRegistered, Taken, Stray
<1>5. OnePlace'
  BY <1>1, <1>2, <1>4 DEF ListInv, OnePlace
<1>6. ListShapes'
  BY <1>1, <1>2, <1>3 DEF ListInv, ListShapes
<1>. QED  BY <1>5, <1>6

LEMMA WorkerPlaces ==
  ASSUME CountInv, ListInv, ListTypes', NEW w \in Workers, WorkerStep(w) \/ Broadcast(w)
  PROVE  OnePlace' /\ ListShapes'
<1>. USE RunnerAssumption DEF CountInv, Types, ListTypes, lists, client, WorkerGoto
<1>1. ASSUME UNCHANGED <<next, pending, freed, mine, callback, held, pc, task>>,
             \A v \in Workers : wpc'[v] \in Walks => Looks(v),
             \A v \in Workers : wpc[v] \in {"unlock", "free"} => wpc'[v] \in {"unlock", "free"}
      PROVE  OnePlace' /\ ListShapes'
  <2>1. \A t : (Unlisted(t)' <=> Unlisted(t)) /\ (IsRegistered(t)' <=> IsRegistered(t))
    BY <1>1 DEF Unlisted, IsRegistered
  <2>2. NothingMoves
    BY <1>1, <2>1 DEF NothingMoves
  <2>. QED  BY <2>2, NothingMovesKeeps
<1>2. CASE WindowCreated(w) \/ WorkerFails(w) \/ DispatchClose(w) \/ Unlock(w) \/ Broadcast(w) \/ EndWalk(w)
  BY <1>1, <1>2 DEF WindowCreated, WorkerFails, DispatchClose, Unlock, Broadcast, EndWalk, Walks, Looks, Walking
<1>3. CASE CallNext(w) \/ CallbackReturns(w)
  BY <1>1, <1>3 DEF CallNext, CallbackReturns, Walks, Looks, Walking
<1>4. CASE DispatchMessage(w)
  BY <1>1, <1>4 DEF DispatchMessage, Deliver, Walks, Looks
<1>5. CASE ForcedClose(w)
  BY <1>1, <1>5 DEF ForcedClose, Deliver, Walks, Looks
<1>6. CASE RemoveNext(w) \/ MergePending(w) \/ CleanLists(w) \/ FreeLists(w)
  BY <1>6, RemovePlaces, MergePlaces, CleanPlaces, FreePlaces
<1>. QED  BY <1>2, <1>3, <1>4, <1>5, <1>6 DEF WorkerStep

LEMMA ListInit == Init => ListInv
<1>. SUFFICES ASSUME Init PROVE ListInv
  OBVIOUS
<1>1. ListTypes
  BY DEF Init, ListTypes, Links
<1>2. Listed(pending) = {}
  <2>1. Listed(pending) = Chain(next, Nil)
    BY DEF Init, Listed, Chain
  <2>. QED  BY <1>1, <2>1, ChainShort DEF ListTypes
<1>3. OneWorker
  BY DEF Init, OneWorker, Active
<1>4. next[Root] = Nil /\ pending = Nil
  BY DEF Init
<1>5. ListShapes
  BY <1>2, <1>4 DEF Init, ListShapes, Walks
<1>6. OnePlace
  BY <1>2, <1>4, RunnerAssumption DEF Init, OnePlace, IsRegistered, Taken, Stray, Walks
<1>. QED  BY <1>1, <1>3, <1>5, <1>6 DEF ListInv

LEMMA ListNext ==
  ASSUME CountInv, ListInv, [Next]_vars
  PROVE  ListInv'
<1>1. ListTypes'
  BY ListTypesStep
<1>2. OneWorker'
  BY OneWorkerStep DEF ListInv
<1>3. CASE ExitBegins \/ ExitReturns \/ UNCHANGED vars
  <2>1. UNCHANGED <<next, pending, freed, mine, callback, held, pc, task, wpc, at, tail, pass>>
    BY <1>3 DEF ExitBegins, ExitReturns, vars, lists, client, worker
  <2>2. NothingMoves
    BY <2>1 DEF NothingMoves, Looks, Unlisted, IsRegistered
  <2>. QED  BY <1>1, <1>2, <2>2, NothingMovesKeeps DEF ListInv
<1>4. ASSUME NEW c \in Clients, Register(c) \/ Unregister(c) \/ ClientStep(c) PROVE ListInv'
  BY <1>1, <1>2, <1>4, ClientPlaces DEF ListInv
<1>5. ASSUME NEW w \in Workers, WorkerStep(w) \/ Broadcast(w) PROVE ListInv'
  BY <1>1, <1>2, <1>5, WorkerPlaces DEF ListInv
<1>. QED  BY <1>3, <1>4, <1>5 DEF Next, Quiet

(* For any number of clients, tasks, workers and messages: a task that is  *)
(* freed is not registered any more and in no list, and no worker frees it *)
(* a second time, although the worker may write to a block it has freed.   *)
THEOREM TasksFreedOnce == Spec => []FreedOnce
<1>1. CountInv /\ ListInv => FreedOnce
  <2>. SUFFICES ASSUME CountInv, ListInv PROVE FreedOnce
    OBVIOUS
  <2>1. \A t \in Listed(next[Root]) : t = next[Root] /\ t \in Tasks
    <3>1. next[Root] # Nil => next[Root] \in Tasks /\ next[next[Root]] = Nil
      BY DEF ListInv, ListShapes, ListTypes, Links
    <3>2. Listed(next[Root]) = Chain(next, next[Root]) /\ next \in Links
      BY ListedTasks DEF ListInv, ListTypes
    <3>. QED  BY <3>1, <3>2, ChainShort
  <2>2. \A t \in Registered : IsRegistered(t)
    BY DEF Registered, IsRegistered
  <2>3. freed \cap (Registered \cup Listed(next[Root]) \cup Listed(pending)) = {}
    BY <2>1, <2>2 DEF ListInv, ListTypes, OnePlace
  <2>4. ASSUME NEW w \in Workers PROVE mine[w] \cap (freed \cup Registered) = {}
    <3>1. \A t \in mine[w] : t \in Tasks /\ Taken(t)
      BY DEF ListInv, ListTypes, Taken
    <3>. QED  BY <2>2, <3>1 DEF ListInv, OnePlace
  <2>5. \A v, w \in Workers : mine[v] \cap mine[w] # {} => v = w
    BY DEF ListInv, OnePlace
  <2>. QED  BY <2>3, <2>4, <2>5 DEF FreedOnce
<1>. QED  BY <1>1, CountInit, CountNext, ListInit, ListNext, PTL DEF Spec

=============================================================================
