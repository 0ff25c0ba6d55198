------------------------- MODULE ThunkLoader_proofs -------------------------
(***************************************************************************)
(* Proofs about ThunkLoader, for any number of threads, functions and      *)
(* modules, whichever thread calls a thunk first: the initialisation is    *)
(* exclusive and comes before every lookup, every lookup returns what      *)
(* Windows answers and no answer changes, unless a thread leaves its wait  *)
(* for the initialisation; the references to the modules are balanced.     *)
(***************************************************************************)
EXTENDS ThunkLoader, FiniteSetTheorems, TLAPS

(* A thread in a lookup is looking up a function.                          *)
FunOK ==
  \A t \in Threads : pc[t] \in Lookup \cup {"checkSlot"} => fun[t] \in Funs

TypeInv == TypeOK /\ FunOK

LEMMA TypeInit == Init => TypeInv
<1> SUFFICES ASSUME Init PROVE TypeOK /\ FunOK
  BY DEF TypeInv
<1> USE DEF Init, Statuses, Words, Pointers, RawNull, Labels, Images
<1>1. status \in Statuses
  OBVIOUS
<1>2. slot \in [Funs -> Words]
  OBVIOUS
<1>3. cache \in [Modules -> {"null", "invalid", "handle"}] /\ refs \in [Modules -> Nat]
  OBVIOUS
<1>4. pc \in [Threads -> Labels] /\ FunOK
  BY DEF FunOK, Lookup
<1>5. fun \in [Threads -> Funs \cup {NoFun}] /\ outer \in [Threads -> Funs \cup {NoFun}]
  OBVIOUS
<1>6. todo \in [Threads -> SUBSET Funs] /\ nested \in [Threads -> BOOLEAN]
  OBVIOUS
<1>7. reg \in [Threads -> Words]
  OBVIOUS
<1>8. ret \in [Threads -> [fn : Funs \cup {NoFun}, ptr : Pointers]]
  OBVIOUS
<1>9. QED
  BY <1>1, <1>2, <1>3, <1>4, <1>5, <1>6, <1>7, <1>8 DEF TypeOK

(* What the auxiliary operators of the actions do to the types.            *)
LEMMA FreedType == ASSUME TypeOK, NEW m \in Modules PROVE Freed(m) \in Nat
  BY DEF TypeOK, Freed

LEMMA ReturnPointerType ==
  ASSUME TypeInv, NEW t \in Threads, NEW p \in Pointers, ReturnPointer(t, p)
  PROVE  /\ pc' \in [Threads -> Labels]
         /\ ret' \in [Threads -> [fn : Funs \cup {NoFun}, ptr : Pointers]]
         /\ reg' \in [Threads -> Words]
         /\ \A u \in Threads : pc'[u] \in Lookup \cup {"checkSlot"} =>
              pc[u] \in Lookup \cup {"checkSlot"}
<1>1. pc' \in [Threads -> Labels]
  BY DEF TypeInv, TypeOK, ReturnPointer, Goto, Labels
<1>2. ret' \in [Threads -> [fn : Funs \cup {NoFun}, ptr : Pointers]]
  BY DEF TypeInv, TypeOK, ReturnPointer
<1>3. reg' \in [Threads -> Words]
  BY DEF TypeInv, TypeOK, ReturnPointer, Carry, Words, RawNull, Pointers
<1>4. \A u \in Threads : pc'[u] \in Lookup \cup {"checkSlot"} =>
              pc[u] \in Lookup \cup {"checkSlot"}
  BY DEF TypeInv, TypeOK, ReturnPointer, Goto, Lookup
<1>5. QED
  BY <1>1, <1>2, <1>3, <1>4

LEMMA ReturnFromInitType ==
  ASSUME TypeInv, NEW t \in Threads, NEW s, ReturnFromInit(t, s)
  PROVE  /\ pc' \in [Threads -> Labels]
         /\ fun' \in [Threads -> Funs \cup {NoFun}]
         /\ outer' \in [Threads -> Funs \cup {NoFun}]
         /\ nested' \in [Threads -> BOOLEAN]
         /\ crt' \in {"pending", "running", "done"}
         /\ atExit' \in BOOLEAN
         /\ FunOK'
<1> USE DEF TypeInv, TypeOK, ReturnFromInit, Goto
<1>1. nested' \in [Threads -> BOOLEAN] /\ outer' \in [Threads -> Funs \cup {NoFun}]
  OBVIOUS
<1>2. CASE outer[t] = NoFun
  BY <1>1, <1>2 DEF Labels, FunOK, Lookup
<1>3. CASE outer[t] # NoFun
  <2>1. outer[t] \in Funs BY <1>3
  <2>2. fun' = [fun EXCEPT ![t] = outer[t]] /\ pc' = [pc EXCEPT ![t] = "readSlot"]
    BY <1>3
  <2>3. fun' \in [Threads -> Funs \cup {NoFun}] /\ pc' \in [Threads -> Labels]
    BY <2>1, <2>2 DEF Labels
  <2>4. FunOK' BY <2>1, <2>2 DEF FunOK, Lookup
  <2>5. UNCHANGED <<crt, atExit>> BY <1>3
  <2>6. QED
    BY <1>1, <2>3, <2>4, <2>5
<1>4. QED
  BY <1>2, <1>3

(* One step of a thread preserves the types.                               *)
LEMMA TypeStep ==
  ASSUME TypeInv, NEW t \in Threads, Step(t)
  PROVE  TypeInv'
<1> USE LoaderAssumption
    DEF TypeInv, TypeOK, FunOK, Statuses, Initialized, Words, Pointers, RawNull,
        Labels, Lookup, shared, Goto, Carry, Encode, Decode, Mod
<1>1. CASE CheckSlot(t) BY <1>1 DEF CheckSlot
<1>2. CASE ReadSlot(t) BY <1>2 DEF ReadSlot
<1>3. CASE DecodeSlot(t)
  <2>1. Decode(reg[t], cookie) \in Pointers
    OBVIOUS
  <2>2. CASE Decode(reg[t], cookie) = "null"
    BY <1>3, <2>2 DEF DecodeSlot
  <2>3. CASE Decode(reg[t], cookie) # "null"
    <3>1. PICK p \in Pointers : ReturnPointer(t, p)
      BY <1>3, <2>1, <2>3 DEF DecodeSlot
    <3>2. QED
      BY <1>3, <3>1, ReturnPointerType DEF DecodeSlot
  <2>4. QED
    BY <2>2, <2>3
<1>4. CASE GetProc(t) BY <1>4 DEF GetProc
<1>5. CASE NoModule(t) BY <1>5 DEF NoModule
<1>6. CASE StoreSlot(t) BY <1>6 DEF StoreSlot, ReturnPointer
<1>7. CASE ReadModule(t) BY <1>7 DEF ReadModule
<1>8. CASE LoadModule(t) BY <1>8 DEF LoadModule
<1>9. CASE LoadFails(t) BY <1>9 DEF LoadFails
<1>10. CASE CacheFailure(t) BY <1>10 DEF CacheFailure
<1>11. CASE CacheModule(t) BY <1>11 DEF CacheModule
<1>12. CASE FreeExtra(t)
  <2>1. Mod(t) \in Modules
    BY <1>12 DEF FreeExtra
  <2>2. refs' \in [Modules -> Nat]
    BY <1>12, <2>1, FreedType DEF FreeExtra
  <2>3. QED
    BY <1>12, <2>2 DEF FreeExtra
<1>13. CASE InitClaim(t) BY <1>13 DEF InitClaim
<1>14. CASE InitBusy(t) BY <1>14 DEF InitBusy
<1>15. CASE InitAlreadyDone(t) BY <1>15, ReturnFromInitType DEF InitAlreadyDone
<1>16. CASE InitSpin(t) BY <1>16, ReturnFromInitType DEF InitSpin
<1>17. CASE SetCookie(t) BY <1>17 DEF SetCookie
<1>18. CASE FillSlot(t) BY <1>18 DEF FillSlot
<1>19. CASE Publish(t)
  <2>1. status' \in Statuses
    BY <1>19 DEF Publish
  <2>2. CASE Preload
    <3>1. /\ todo' = [todo EXCEPT ![t] = Funs]
          /\ nested' = [nested EXCEPT ![t] = TRUE]
          /\ pc' = [pc EXCEPT ![t] = "preload"]
          /\ UNCHANGED <<fun, outer, crt, atExit, cookie, slot, cache, refs,
                         mapped, image, leftWait, reg, ret>>
      BY <1>19, <2>2 DEF Publish
    <3>2. QED
      BY <2>1, <3>1
  <2>3. CASE ~Preload
    BY <1>19, <2>3, ReturnFromInitType DEF Publish
  <2>4. QED
    BY <2>2, <2>3
<1>20. CASE PreloadNext(t) BY <1>20 DEF PreloadNext
<1>21. CASE PreloadDone(t) BY <1>21, ReturnFromInitType DEF PreloadDone
<1>22. QED
  BY <1>1, <1>2, <1>3, <1>4, <1>5, <1>6, <1>7, <1>8, <1>9, <1>10, <1>11,
     <1>12, <1>13, <1>14, <1>15, <1>16, <1>17, <1>18, <1>19, <1>20, <1>21
  DEF Step

LEMMA TypeNext == TypeInv /\ [Next]_vars => TypeInv'
<1> SUFFICES ASSUME TypeInv, [Next]_vars PROVE TypeInv'
  OBVIOUS
<1> USE LoaderAssumption
    DEF TypeInv, TypeOK, FunOK, Statuses, Initialized, Words, Labels, Lookup,
        shared, local, Goto
<1>1. ASSUME NEW t \in Threads, Step(t) PROVE TypeInv'
  BY <1>1, TypeStep
<1>2. ASSUME NEW t \in Threads, NEW f \in Funs, Call(t, f) PROVE TypeInv'
  BY <1>2 DEF Call
<1>3. CASE RunCrtInitializer
  BY <1>3 DEF RunCrtInitializer
<1>4. CASE Unload
  <2>1. refs' \in [Modules -> Nat]
    BY <1>4, FreedType DEF Unload
  <2>2. cache' \in [Modules -> {"null", "invalid", "handle"}]
    BY <1>4 DEF Unload
  <2>3. QED
    BY <1>4, <2>1, <2>2 DEF Unload
<1>5. CASE UNCHANGED vars
  BY <1>5 DEF vars
<1>6. QED
  BY <1>1, <1>2, <1>3, <1>4, <1>5 DEF Next, Unmapped

-----------------------------------------------------------------------------
(* Exclusiveness of the initialisation: it is inductive as it stands.      *)

LEMMA InitExclusiveInit == Init => InitExclusive
  BY DEF Init, InitExclusive, Initializing

(* Where a thread is after its call of _YY_initialize_winapi_thunks.       *)
LEMMA ReturnFromInitPlace ==
  ASSUME NEW t \in Threads, NEW s, ReturnFromInit(t, s)
  PROVE  \E l \in {"idle", "readSlot"} : pc' = [pc EXCEPT ![t] = l]
<1>1. CASE outer[t] = NoFun
  BY <1>1 DEF ReturnFromInit, Goto
<1>2. CASE outer[t] # NoFun
  BY <1>2 DEF ReturnFromInit, Goto
<1>3. QED
  BY <1>1, <1>2

(* A thread that is not initialising, and does not claim the               *)
(* initialisation, leaves the status alone and stays outside.              *)
LEMMA BystanderStep ==
  ASSUME TypeInv, NEW t \in Threads, Step(t),
         ~InitClaim(t), ~SetCookie(t), ~FillSlot(t), ~Publish(t)
  PROVE  /\ status' = status
         /\ ~Initializing(t)
         /\ \E l \in Labels \ {"setCookie", "fill"} : pc' = [pc EXCEPT ![t] = l]
<1> USE DEF TypeInv, TypeOK, Initializing, Labels, shared, Goto
<1>1. CASE CheckSlot(t) BY <1>1 DEF CheckSlot
<1>2. CASE ReadSlot(t) BY <1>2 DEF ReadSlot
<1>3. CASE DecodeSlot(t)
  <2>1. status' = status /\ ~Initializing(t)
    BY <1>3 DEF DecodeSlot
  <2>2. CASE Decode(reg[t], cookie) = "null"
    BY <1>3, <2>1, <2>2 DEF DecodeSlot
  <2>3. CASE Decode(reg[t], cookie) # "null"
    <3>1. PICK p : ReturnPointer(t, p)
      BY <1>3, <2>3 DEF DecodeSlot
    <3>2. QED
      BY <2>1, <3>1 DEF ReturnPointer
  <2>4. QED
    BY <2>2, <2>3
<1>4. CASE GetProc(t) BY <1>4 DEF GetProc
<1>5. CASE NoModule(t) BY <1>5 DEF NoModule
<1>6. CASE StoreSlot(t) BY <1>6 DEF StoreSlot, ReturnPointer
<1>7. CASE ReadModule(t) BY <1>7 DEF ReadModule
<1>8. CASE LoadModule(t) BY <1>8 DEF LoadModule
<1>9. CASE LoadFails(t) BY <1>9 DEF LoadFails
<1>10. CASE CacheFailure(t) BY <1>10 DEF CacheFailure
<1>11. CASE CacheModule(t) BY <1>11 DEF CacheModule
<1>12. CASE FreeExtra(t) BY <1>12 DEF FreeExtra
<1>13. CASE InitBusy(t) BY <1>13 DEF InitBusy
<1>14. CASE InitAlreadyDone(t) BY <1>14, ReturnFromInitPlace DEF InitAlreadyDone
<1>15. CASE InitSpin(t) BY <1>15, ReturnFromInitPlace DEF InitSpin
<1>16. CASE PreloadNext(t) BY <1>16 DEF PreloadNext
<1>17. CASE PreloadDone(t) BY <1>17, ReturnFromInitPlace DEF PreloadDone
<1>18. QED
  BY <1>1, <1>2, <1>3, <1>4, <1>5, <1>6, <1>7, <1>8, <1>9, <1>10, <1>11,
     <1>12, <1>13, <1>14, <1>15, <1>16, <1>17
  DEF Step

LEMMA InitExclusiveNext == TypeInv /\ InitExclusive /\ [Next]_vars => InitExclusive'
<1> SUFFICES ASSUME TypeInv, InitExclusive, [Next]_vars PROVE InitExclusive'
  OBVIOUS
<1> USE DEF TypeInv, TypeOK, InitExclusive, Initializing, Labels, shared, local, Goto
<1>1. ASSUME NEW t \in Threads, Step(t) PROVE InitExclusive'
  <2>1. CASE InitClaim(t) BY <2>1 DEF InitClaim
  <2>2. CASE SetCookie(t) BY <2>2 DEF SetCookie
  <2>3. CASE FillSlot(t) BY <2>3 DEF FillSlot
  <2>4. CASE Publish(t)
    <3>1. status' \in Initialized /\ Initializing(t)
      BY <2>4 DEF Publish, Initialized
    <3>2. \E l \in {"preload", "idle", "readSlot"} : pc' = [pc EXCEPT ![t] = l]
      BY <2>4, ReturnFromInitPlace DEF Publish
    <3>3. \A u \in Threads : ~Initializing(u)'
      BY <3>1, <3>2
    <3>4. QED
      BY <3>1, <3>3 DEF Initialized
  <2>5. CASE ~InitClaim(t) /\ ~SetCookie(t) /\ ~FillSlot(t) /\ ~Publish(t)
    BY <1>1, <2>5, BystanderStep
  <2>6. QED
    BY <2>1, <2>2, <2>3, <2>4, <2>5
<1>2. ASSUME NEW t \in Threads, NEW f \in Funs, Call(t, f) PROVE InitExclusive'
  BY <1>2 DEF Call
<1>3. CASE RunCrtInitializer
  BY <1>3, LoaderAssumption DEF RunCrtInitializer
<1>4. CASE Unload
  <2>1. pc' = pc /\ \A t \in Threads : pc[t] = "idle"
    BY <1>4 DEF Unload
  <2>2. status' \in {status, "Uninitialized"}
    BY <1>4 DEF Unload
  <2>3. QED
    BY <2>1, <2>2
<1>5. CASE UNCHANGED vars
  BY <1>5 DEF vars
<1>6. QED
  BY <1>1, <1>2, <1>3, <1>4, <1>5 DEF Next, Unmapped

(* The compare-exchange in _YY_initialize_winapi_thunks is enough: however *)
(* many threads call thunks early, one initialises, and s_eThunksStatus is *)
(* Wait exactly while it does.                                             *)
THEOREM InitIsExclusive == Spec => []InitExclusive
<1>1. Init => TypeInv /\ InitExclusive
  BY TypeInit, InitExclusiveInit
<1>2. TypeInv /\ InitExclusive /\ [Next]_vars => (TypeInv /\ InitExclusive)'
  BY TypeNext, InitExclusiveNext
<1>3. QED
  BY <1>1, <1>2, PTL DEF Spec
-----------------------------------------------------------------------------
(* The start, for any number of threads that call thunks at any time, as   *)
(* long as none has left its wait.                                         *)

StartedInv == TypeInv /\ InitExclusive /\ (~leftWait => StartInv)

(* Only the wait loop's exit sets leftWait, and nothing clears it.         *)
LEMMA WaitingStep ==
  ASSUME NEW t \in Threads, Step(t), ~leftWait'
  PROVE  ~leftWait /\ ~InitSpin(t)
<1>1. ~InitSpin(t)
  BY DEF InitSpin
<1>2. QED
  BY <1>1 DEF Step, shared, CheckSlot, ReadSlot, DecodeSlot, GetProc, NoModule,
    StoreSlot, ReadModule, LoadModule, LoadFails, CacheFailure, CacheModule,
    FreeExtra, InitClaim, InitBusy, InitAlreadyDone, SetCookie, FillSlot, Publish,
    PreloadNext, PreloadDone

LEMMA WaitingNext ==
  ASSUME [Next]_vars, ~leftWait'
  PROVE  ~leftWait
<1>1. QED
  BY WaitingStep DEF Next, Call, RunCrtInitializer, Unload, Unmapped, vars, shared

LEMMA StartedInit == Init => StartedInv
<1>1. Init => StartInv
  BY DEF Init, StartInv, Lookup, Initialized
<1>2. QED
  BY <1>1, TypeInit, InitExclusiveInit DEF StartedInv

(* A thread that moves on inside its lookup, or leaves it, disturbs        *)
(* nothing the start promises.                                             *)
LEMMA StartQuiet ==
  ASSUME TypeInv, StartInv, NEW t \in Threads,
         NEW l \in Labels \ {"setCookie", "fill"}, pc' = [pc EXCEPT ![t] = l],
         UNCHANGED <<status, cookie, slot, crt, mapped, fun>>,
         \A u \in Threads \ {t} :
           todo'[u] = todo[u] /\ nested'[u] = nested[u] /\ reg'[u] = reg[u],
         pc[t] # "idle" \/ mapped,
         l \in Lookup => slot[fun[t]].key = 1,
         l = "storeSlot" => reg'[t].key = 1,
         l = "preload" \/ nested'[t] =>
           status \in Initialized /\ l \in Lookup \cup {"preload", "checkSlot"}
  PROVE  StartInv'
<1>1. pc'[t] = l /\ \A u \in Threads \ {t} : pc'[u] = pc[u]
  BY DEF TypeInv, TypeOK
<1>2. mapped
  BY DEF StartInv
<1>3. ASSUME NEW u \in Threads
      PROVE  /\ pc'[u] = "setCookie" => cookie' = 0
             /\ pc'[u] = "fill" =>
                  cookie' = 1 /\ \A f \in Funs : slot'[f] = RawNull <=> f \in todo'[u]
             /\ pc'[u] \in Lookup => slot'[fun'[u]].key = 1
             /\ pc'[u] = "storeSlot" => reg'[u].key = 1
             /\ pc'[u] = "preload" \/ nested'[u] =>
                  status' \in Initialized /\ pc'[u] \in Lookup \cup {"preload", "checkSlot"}
  <2>1. CASE u = t
    BY <1>1, <2>1
  <2>2. CASE u # t
    BY <1>1, <1>3, <2>2 DEF StartInv
  <2>3. QED
    BY <2>1, <2>2
<1>4. /\ \A f \in Funs : slot'[f] = RawNull \/ (slot'[f].key = 1 /\ cookie' = 1)
      /\ status' = "None" => cookie' = 0
      /\ status' \in Initialized => cookie' = 1 /\ \A f \in Funs : slot'[f].key = 1
      /\ status' = "Uninitialized" => ~mapped'
      /\ ~mapped' => crt' = "done" /\ \A u \in Threads : pc'[u] = "idle"
  BY <1>2 DEF StartInv
<1>5. QED
  BY <1>3, <1>4 DEF StartInv

(* Leaving the initialisation, once it is over.                            *)
LEMMA StartReturn ==
  ASSUME TypeInv, InitExclusive, StartInv, NEW t \in Threads, NEW s,
         ReturnFromInit(t, s), pc[t] # "idle",
         status' \in Initialized, cookie = 1, \A f \in Funs : slot[f].key = 1,
         \A u \in Threads \ {t} : ~Initializing(u),
         UNCHANGED <<cookie, slot, mapped, todo, reg>>
  PROVE  StartInv'
<1> USE DEF TypeInv, TypeOK, Initializing
<1>1. PICK l \in {"readSlot", "idle"} : pc' = [pc EXCEPT ![t] = l]
  BY ReturnFromInitPlace
<1>2. /\ \A u \in Threads \ {t} : fun'[u] = fun[u] /\ pc'[u] = pc[u] /\ nested'[u] = nested[u]
      /\ pc'[t] = l /\ ~nested'[t]
  BY <1>1 DEF ReturnFromInit
<1>3. fun'[t] \in Funs \/ l # "readSlot"
  BY <1>1, ReturnFromInitType DEF FunOK, Lookup
<1>4. mapped
  BY DEF StartInv
<1>5. ASSUME NEW u \in Threads
      PROVE  /\ pc'[u] \notin {"setCookie", "fill"}
             /\ pc'[u] \in Lookup => slot'[fun'[u]].key = 1
             /\ pc'[u] = "storeSlot" => reg'[u].key = 1
             /\ pc'[u] = "preload" \/ nested'[u] => pc'[u] \in Lookup \cup {"preload", "checkSlot"}
  <2>1. CASE u = t
    BY <1>2, <1>3, <2>1 DEF Lookup
  <2>2. CASE u # t
    BY <1>2, <1>5, <2>2 DEF StartInv
  <2>3. QED
    BY <2>1, <2>2
<1>6. QED
  BY <1>4, <1>5 DEF StartInv, Initialized
(* A lookup, and the code in the modules' caches, keeps its slot.          *)
LEMMA StartLookup ==
  ASSUME TypeInv, StartInv, NEW t \in Threads,
         pc[t] \in Lookup, NEW l \in Lookup, pc' = [pc EXCEPT ![t] = l],
         UNCHANGED <<status, cookie, slot, crt, mapped, fun, todo, nested>>,
         \A u \in Threads \ {t} : reg'[u] = reg[u],
         l = "storeSlot" => reg'[t].key = 1
  PROVE  StartInv'
<1>1. slot[fun[t]].key = 1 /\ (nested[t] => status \in Initialized)
  BY DEF StartInv
<1>2. pc[t] # "idle" /\ l \in Labels \ {"setCookie", "fill"} /\ l # "preload"
  BY DEF Lookup, Labels
<1>3. l \in Lookup \cup {"preload", "checkSlot"}
  OBVIOUS
<1>4. QED
  BY <1>1, <1>2, <1>3, StartQuiet

(* A lookup that ends returns to the preload it is part of, or leaves.     *)
LEMMA StartPointer ==
  ASSUME TypeInv, StartInv, NEW t \in Threads, NEW p, ReturnPointer(t, p),
         pc[t] \in Lookup, UNCHANGED <<status, cookie, slot, crt, mapped, fun, todo, nested>>
  PROVE  StartInv'
<1>1. nested[t] => status \in Initialized
  BY DEF StartInv
<1>2. PICK l \in {"preload", "idle"} :
        pc' = [pc EXCEPT ![t] = l] /\ (l = "preload" <=> nested[t])
  BY DEF ReturnPointer, Goto, TypeInv, TypeOK
<1>3. pc[t] # "idle" /\ l \in Labels \ {"setCookie", "fill"} /\ l \notin Lookup
  BY DEF Lookup, Labels
<1>5. l # "storeSlot" /\ \A u \in Threads \ {t} : reg'[u] = reg[u]
  BY DEF ReturnPointer, Carry, TypeInv, TypeOK
<1>4. QED
  BY <1>1, <1>2, <1>3, <1>5, StartQuiet

(* A slot is filled, or exchanged, by a word that is encoded.              *)
LEMMA StartWrite ==
  ASSUME TypeInv, StartInv, NEW g \in Funs, NEW w \in Words, w.key = 1, cookie = 1,
         slot' = [slot EXCEPT ![g] = w],
         UNCHANGED <<status, cookie, crt, mapped, fun, nested>>,
         \A u \in Threads : pc[u] = "fill" => todo'[u] = todo[u] \ {g},
         NEW t \in Threads, NEW l, pc' = [pc EXCEPT ![t] = l], pc[t] # "idle",
         \/ pc[t] = "fill" /\ l = "fill"
         \/ pc[t] = "storeSlot" /\ l = IF nested[t] THEN "preload" ELSE "idle",
         \A u \in Threads \ {t} : reg'[u] = reg[u]
  PROVE  StartInv'
<1> USE DEF TypeInv, TypeOK
<1>1. \A f \in Funs : slot'[f] = IF f = g THEN w ELSE slot[f]
  OBVIOUS
<1>2. w # RawNull
  BY DEF RawNull
<1>3. \A f \in Funs : slot'[f] = RawNull <=> f # g /\ slot[f] = RawNull
  BY <1>1, <1>2
<1>4. \A f \in Funs : slot[f].key = 1 => slot'[f].key = 1
  BY <1>1
<1>5. \A f \in Funs : slot'[f] = RawNull \/ slot'[f].key = 1
  BY <1>1 DEF StartInv
<1>6. pc'[t] = l /\ \A u \in Threads \ {t} : pc'[u] = pc[u]
  OBVIOUS
<1>7. ASSUME NEW u \in Threads, pc'[u] = "fill"
      PROVE  \A f \in Funs : slot'[f] = RawNull <=> f \in todo'[u]
  BY <1>3, <1>6, <1>7 DEF StartInv
<1>8. ASSUME NEW u \in Threads, pc'[u] \in Lookup PROVE slot'[fun'[u]].key = 1
  <2>1. pc[u] \in Lookup
    BY <1>6, <1>8 DEF Lookup
  <2>2. fun[u] \in Funs /\ slot[fun[u]].key = 1
    BY <2>1 DEF FunOK, StartInv
  <2>3. QED
    BY <1>4, <2>2
<1>9. ASSUME NEW u \in Threads, pc'[u] = "storeSlot" PROVE reg'[u].key = 1
  BY <1>6, <1>9 DEF StartInv
<1>10. ASSUME NEW u \in Threads, pc'[u] = "preload" \/ nested'[u]
       PROVE  status' \in Initialized /\ pc'[u] \in Lookup \cup {"preload", "checkSlot"}
  BY <1>6, <1>10 DEF StartInv, Lookup
<1>11. cookie # 0 /\ mapped /\ \A u \in Threads : pc'[u] # "setCookie"
  BY <1>6 DEF StartInv
<1>12. /\ status' = "None" => cookie' = 0
       /\ status' \in Initialized => cookie' = 1 /\ \A f \in Funs : slot'[f].key = 1
       /\ status' = "Uninitialized" => ~mapped'
  BY <1>4 DEF StartInv
<1>13. QED
  BY <1>5, <1>7, <1>8, <1>9, <1>10, <1>11, <1>12 DEF StartInv

LEMMA StartStep ==
  ASSUME TypeInv, InitExclusive, StartInv, NEW t \in Threads, Step(t), ~leftWait'
  PROVE  StartInv'
<1> USE DEF TypeInv, TypeOK, shared, Goto, Carry
<1>1. CASE CheckSlot(t)
  <2>1. fun[t] \in Funs /\ pc[t] = "checkSlot" /\ mapped
    BY <1>1 DEF CheckSlot, FunOK, StartInv
  <2>2. nested[t] => status \in Initialized /\ slot[fun[t]] # RawNull
    BY <2>1 DEF StartInv, RawNull
  <2>3. CASE slot[fun[t]] = RawNull
    <3>1. pc' = [pc EXCEPT ![t] = "initCas"] /\ "initCas" \in Labels \ {"setCookie", "fill"}
      BY <1>1, <2>3 DEF CheckSlot, Labels
    <3>2. "initCas" \notin Lookup \cup {"preload"}
      BY DEF Lookup
    <3>3. QED
      BY <1>1, <2>1, <2>2, <2>3, <3>1, <3>2, StartQuiet DEF CheckSlot
  <2>4. CASE slot[fun[t]] # RawNull
    <3>1. pc' = [pc EXCEPT ![t] = "readSlot"] /\ "readSlot" \in Labels \ {"setCookie", "fill"}
      BY <1>1, <2>4 DEF CheckSlot, Labels
    <3>2. slot[fun[t]].key = 1 /\ "readSlot" \in Lookup
      BY <2>1, <2>4 DEF StartInv, Lookup
    <3>3. QED
      BY <1>1, <2>1, <2>2, <3>1, <3>2, StartQuiet DEF CheckSlot
  <2>5. QED
    BY <2>3, <2>4
<1>2. CASE ReadSlot(t) BY <1>2, StartLookup DEF ReadSlot, Lookup
<1>3. CASE DecodeSlot(t)
  <2>1. pc[t] \in Lookup /\ "readModule" \in Lookup
    BY <1>3 DEF DecodeSlot, Lookup
  <2>2. CASE Decode(reg[t], cookie) = "null"
    BY <1>3, <2>1, <2>2, StartLookup DEF DecodeSlot
  <2>3. CASE Decode(reg[t], cookie) # "null"
    <3>1. PICK p : ReturnPointer(t, p)
      BY <1>3, <2>3 DEF DecodeSlot
    <3>2. QED
      BY <1>3, <2>1, <3>1, StartPointer DEF DecodeSlot
  <2>4. QED
    BY <2>2, <2>3
<1>4. CASE GetProc(t)
  <2>1. pc[t] \in Lookup /\ "storeSlot" \in Lookup /\ cookie = 1
    BY <1>4 DEF GetProc, Lookup, FunOK, StartInv, RawNull
  <2>2. reg'[t].key = 1
    BY <1>4, <2>1 DEF GetProc, Encode
  <2>3. QED
    BY <1>4, <2>1, <2>2, StartLookup DEF GetProc
<1>5. CASE NoModule(t)
  <2>1. pc[t] \in Lookup /\ "storeSlot" \in Lookup /\ cookie = 1
    BY <1>5 DEF NoModule, Lookup, FunOK, StartInv, RawNull
  <2>2. reg'[t].key = 1
    BY <1>5, <2>1 DEF NoModule, Encode
  <2>3. QED
    BY <1>5, <2>1, <2>2, StartLookup DEF NoModule
<1>6. CASE StoreSlot(t)
  <2>1. pc[t] = "storeSlot" /\ fun[t] \in Funs /\ reg[t] \in Words /\ reg[t].key = 1
    BY <1>6 DEF StoreSlot, Lookup, FunOK, StartInv
  <2>2. cookie = 1 /\ \A u \in Threads : pc[u] = "fill" => fun[t] \notin todo[u]
    BY <2>1 DEF StartInv, Lookup, RawNull
  <2>3. \A u \in Threads : pc[u] = "fill" => todo'[u] = todo[u] \ {fun[t]}
    BY <1>6, <2>2 DEF StoreSlot
  <2>4. /\ pc' = [pc EXCEPT ![t] = IF nested[t] THEN "preload" ELSE "idle"]
        /\ slot' = [slot EXCEPT ![fun[t]] = reg[t]]
        /\ UNCHANGED <<status, cookie, crt, mapped, fun, nested>>
        /\ \A u \in Threads \ {t} : reg'[u] = reg[u]
    BY <1>6 DEF StoreSlot, ReturnPointer
  <2>5. QED
    BY <2>1, <2>2, <2>3, <2>4, StartWrite
<1>7. CASE ReadModule(t) BY <1>7, StartLookup DEF ReadModule, Lookup
<1>8. CASE LoadModule(t) BY <1>8, StartLookup DEF LoadModule, Lookup
<1>9. CASE LoadFails(t) BY <1>9, StartLookup DEF LoadFails, Lookup
<1>10. CASE CacheFailure(t) BY <1>10, StartLookup DEF CacheFailure, Lookup
<1>11. CASE CacheModule(t) BY <1>11, StartLookup DEF CacheModule, Lookup
<1>12. CASE FreeExtra(t) BY <1>12, StartLookup DEF FreeExtra, Lookup
<1>13. CASE InitClaim(t)
  <2>1. /\ status' = "Wait" /\ pc' = [pc EXCEPT ![t] = "setCookie"] /\ pc[t] = "initCas"
        /\ UNCHANGED <<cookie, slot, crt, mapped, fun, todo, nested, reg>> /\ cookie = 0
    BY <1>13 DEF InitClaim, StartInv
  <2>2. mapped /\ \A u \in Threads : pc[u] # "preload" /\ ~nested[u]
    BY <1>13, <2>1 DEF InitClaim, StartInv, Initialized
  <2>3. QED
    BY <2>1, <2>2 DEF StartInv, Initialized, Lookup
<1>14. CASE InitBusy(t)
  <2>1. /\ pc[t] = "initCas" /\ pc' = [pc EXCEPT ![t] = "spin"]
        /\ "spin" \in Labels \ {"setCookie", "fill"} /\ "spin" \notin Lookup \cup {"preload"}
    BY <1>14 DEF InitBusy, Labels, Lookup
  <2>2. ~nested[t]
    BY <2>1 DEF StartInv, Lookup
  <2>3. QED
    BY <1>14, <2>1, <2>2, StartQuiet DEF InitBusy
<1>15. CASE InitAlreadyDone(t)
  <2>1. mapped /\ status' \in Initialized /\ status \in Initialized /\ pc[t] # "idle"
    BY <1>15 DEF InitAlreadyDone, StartInv, Statuses
  <2>2. \A u \in Threads : ~Initializing(u)
    BY <2>1 DEF InitExclusive, Initialized
  <2>3. cookie = 1 /\ \A f \in Funs : slot[f].key = 1
    BY <2>1 DEF StartInv
  <2>4. QED
    BY <1>15, <2>1, <2>2, <2>3, StartReturn DEF InitAlreadyDone
<1>17. CASE SetCookie(t)
  <2>1. status = "Wait" /\ \A u \in Threads \ {t} : ~Initializing(u)
    BY <1>17 DEF SetCookie, InitExclusive, Initializing
  <2>2. /\ pc' = [pc EXCEPT ![t] = "fill"] /\ todo' = [todo EXCEPT ![t] = Funs]
        /\ cookie' = 1 /\ pc[t] = "setCookie" /\ cookie = 0
        /\ UNCHANGED <<status, slot, crt, mapped, fun, nested, reg>>
    BY <1>17 DEF SetCookie, StartInv
  <2>3. /\ mapped /\ \A f \in Funs : slot[f] = RawNull
        /\ \A u \in Threads : pc[u] \notin Lookup \cup {"preload"} /\ ~nested[u]
    BY <2>1, <2>2 DEF StartInv, Initialized, RawNull, FunOK
  <2>4. QED
    BY <2>1, <2>2, <2>3 DEF StartInv, Initialized, Initializing, Lookup
<1>18. CASE FillSlot(t)
  <2>1. PICK g \in todo[t] : /\ slot' = [slot EXCEPT ![g] = Encode("null", cookie)]
                             /\ todo' = [todo EXCEPT ![t] = @ \ {g}]
    BY <1>18 DEF FillSlot
  <2>2. cookie = 1 /\ g \in Funs /\ pc[t] = "fill"
    BY <1>18, <2>1 DEF FillSlot, StartInv
  <2>3. \A u \in Threads : pc[u] = "fill" => todo'[u] = todo[u] \ {g}
    BY <2>1, <2>2 DEF InitExclusive, Initializing
  <2>4. Encode("null", cookie) \in Words /\ Encode("null", cookie).key = 1
    BY <2>2 DEF Encode, Words, Pointers
  <2>5. pc' = [pc EXCEPT ![t] = "fill"]
    BY <1>18, <2>2 DEF FillSlot
  <2>6. QED
    BY <1>18, <2>1, <2>2, <2>3, <2>4, <2>5, StartWrite DEF FillSlot
<1>19. CASE Publish(t)
  <2>1. mapped /\ status' \in Initialized /\ pc[t] = "fill" /\ todo[t] = {}
    BY <1>19 DEF Publish, StartInv, Initialized
  <2>2. \A u \in Threads \ {t} : ~Initializing(u)
    BY <2>1 DEF InitExclusive, Initializing
  <2>3. cookie = 1 /\ \A f \in Funs : slot[f].key = 1
    BY <2>1 DEF StartInv
  <2>4. \A u \in Threads : pc[u] # "preload" /\ ~nested[u]
    <3>1. status = "Wait"
      BY <2>1 DEF InitExclusive, Initializing
    <3>2. QED
      BY <3>1 DEF StartInv, Initialized
  <2>5. CASE Preload
    <3>1. /\ pc' = [pc EXCEPT ![t] = "preload"] /\ nested' = [nested EXCEPT ![t] = TRUE]
          /\ UNCHANGED <<cookie, slot, mapped, fun, crt, reg>>
          /\ \A u \in Threads \ {t} : todo'[u] = todo[u]
      BY <1>19, <2>5 DEF Publish
    <3>2. QED
      BY <2>1, <2>2, <2>3, <2>4, <3>1 DEF StartInv, Initializing, Initialized, Lookup
  <2>6. CASE ~Preload
    <3>1. PICK s : ReturnFromInit(t, s)
      BY <1>19, <2>6 DEF Publish
    <3>2. pc[t] # "idle" /\ UNCHANGED <<cookie, slot, mapped, todo, reg>>
      BY <1>19, <2>6 DEF Publish
    <3>3. QED
      BY <2>1, <2>2, <2>3, <3>1, <3>2, StartReturn
  <2>7. QED
    BY <2>5, <2>6
<1>20. CASE PreloadNext(t)
  <2>1. /\ pc[t] = "preload" /\ pc' = [pc EXCEPT ![t] = "checkSlot"] /\ status \in Initialized
        /\ UNCHANGED <<status, cookie, slot, crt, mapped, nested, reg>>
        /\ \A u \in Threads \ {t} : fun'[u] = fun[u] /\ todo'[u] = todo[u] /\ pc'[u] = pc[u]
    BY <1>20 DEF PreloadNext, StartInv
  <2>2. mapped /\ cookie = 1 /\ \A f \in Funs : slot[f].key = 1
    BY <2>1 DEF StartInv
  <2>3. QED
    BY <2>1, <2>2 DEF StartInv, Initialized, Lookup
<1>21. CASE PreloadDone(t)
  <2>1. mapped /\ status' \in Initialized /\ status \in Initialized /\ pc[t] # "idle"
    BY <1>21 DEF PreloadDone, StartInv
  <2>2. \A u \in Threads : ~Initializing(u)
    BY <2>1 DEF InitExclusive, Initialized
  <2>3. cookie = 1 /\ \A f \in Funs : slot[f].key = 1
    BY <2>1 DEF StartInv
  <2>4. QED
    BY <1>21, <2>1, <2>2, <2>3, StartReturn DEF PreloadDone
<1>22. QED
  BY <1>1, <1>2, <1>3, <1>4, <1>5, <1>6, <1>7, <1>8, <1>9, <1>10, <1>11,
     <1>12, <1>13, <1>14, <1>15, <1>17, <1>18, <1>19, <1>20, <1>21,
     WaitingStep DEF Step

LEMMA StartedNext == StartedInv /\ [Next]_vars => StartedInv'
<1> SUFFICES ASSUME StartedInv, [Next]_vars PROVE StartedInv'
  OBVIOUS
<1>1. TypeInv' /\ InitExclusive'
  BY TypeNext, InitExclusiveNext DEF StartedInv
<1>2. ASSUME ~leftWait' PROVE StartInv'
  <2>1. TypeInv /\ InitExclusive /\ StartInv
    BY <1>2, WaitingNext DEF StartedInv
  <2> USE <2>1 DEF TypeInv, TypeOK, shared, local, Goto
  <2>2. ASSUME NEW t \in Threads, Step(t) PROVE StartInv'
    BY <1>2, <2>2, StartStep
  <2>3. ASSUME NEW t \in Threads, NEW f \in Funs, Call(t, f) PROVE StartInv'
    BY <2>3 DEF Call, StartInv, Lookup
  <2>4. CASE RunCrtInitializer
    BY <2>4, LoaderAssumption DEF RunCrtInitializer, StartInv, Lookup
  <2>5. CASE Unload
    <3>1. /\ ~mapped' /\ crt' = "done" /\ \A t \in Threads : pc[t] = "idle"
          /\ UNCHANGED <<slot, cookie, local>> /\ status' \in {status, "Uninitialized"}
      BY <2>5 DEF Unload
    <3>2. QED
      BY <3>1 DEF StartInv, Initialized, Lookup
  <2>6. CASE UNCHANGED vars
    BY <2>6 DEF vars, StartInv
  <2>7. QED
    BY <2>2, <2>3, <2>4, <2>5, <2>6 DEF Next, Unmapped
<1>3. QED
  BY <1>1, <1>2 DEF StartedInv

(* Whoever passes the check of try_get_function uses an initialised slot,  *)
(* however many threads call thunks before or while one initialises: they  *)
(* all wait, and only a thread that leaves that wait can break it.         *)
THEOREM InitComesFirst == Spec => [](~leftWait => InitBeforeLookup)
<1>1. StartedInv => (~leftWait => InitBeforeLookup)
  <2> SUFFICES ASSUME StartedInv, ~leftWait, NEW t \in Threads, pc[t] \in Lookup
      PROVE  slot[fun[t]] # RawNull
    BY DEF InitBeforeLookup
  <2>1. slot[fun[t]].key = 1
    BY DEF StartedInv, StartInv
  <2>2. QED
    BY <2>1 DEF RawNull
<1>2. QED
  BY <1>1, StartedInit, StartedNext, PTL DEF Spec
-----------------------------------------------------------------------------
(* The answers, when no load fails for a passing reason.                   *)

IInv == StartedInv /\ (~leftWait => AnswerInv) /\ LookupCorrect

(* What a state in which nobody has left the wait satisfies.               *)
Orderly == StartedInv /\ ~leftWait /\ StartInv /\ AnswerInv /\ LookupCorrect

LEMMA IInvInit == Init => IInv
<1> SUFFICES ASSUME Init PROVE IInv
  OBVIOUS
<1>1. AnswerInv
  BY DEF Init, AnswerInv, RawNull
<1>2. LookupCorrect
  BY DEF Init, LookupCorrect
<1>3. QED
  BY <1>1, <1>2, StartedInit DEF IInv

(* What a thread that returns from a lookup leaves behind.                 *)
LEMMA ReturnPointerAnswers ==
  ASSUME Orderly, NEW t \in Threads, pc[t] \in Lookup,
         ReturnPointer(t, Answer(fun[t])), UNCHANGED <<fun, cache>>,
         \A f \in Funs : slot'[f] \in {slot[f], Encode(SlotAnswer(f), 1)}
  PROVE  AnswerInv' /\ LookupCorrect'
<1> USE DEF Orderly, StartedInv, TypeInv, TypeOK
<1>1. PICK l \in {"preload", "idle"} : pc' = [pc EXCEPT ![t] = l]
  BY DEF ReturnPointer, Goto
<1>2. \A f \in Funs : slot'[f].key = 1 => slot'[f].val \in {"null", SlotAnswer(f)}
  BY DEF AnswerInv, Encode
<1>3. \A u \in Threads \ {t} : pc'[u] = pc[u] /\ reg'[u] = reg[u] /\ fun'[u] = fun[u]
  BY <1>1 DEF ReturnPointer, Carry
<1>4. AnswerInv'
  BY <1>1, <1>2, <1>3 DEF AnswerInv, Mod, SlotAnswer, Resolvable
<1>5. LookupCorrect'
  BY DEF LookupCorrect, ReturnPointer, Answer, Resolvable
<1>6. QED
  BY <1>4, <1>5

(* What a thread that returns from the initialisation leaves behind.       *)
LEMMA ReturnFromInitAnswers ==
  ASSUME Orderly, NEW t \in Threads, NEW s, ReturnFromInit(t, s),
         UNCHANGED <<cache, slot, reg, ret>>
  PROVE  AnswerInv' /\ LookupCorrect'
<1> USE DEF Orderly, StartedInv, TypeInv, TypeOK
<1>1. PICK l \in {"readSlot", "idle"} : pc' = [pc EXCEPT ![t] = l]
  BY ReturnFromInitPlace
<1>2. \A u \in Threads \ {t} : fun'[u] = fun[u]
  BY DEF ReturnFromInit
<1>3. AnswerInv'
  BY <1>1, <1>2 DEF AnswerInv, Mod, SlotAnswer, Resolvable
<1>4. LookupCorrect'
  BY DEF LookupCorrect, Answer, Resolvable
<1>5. QED
  BY <1>3, <1>4

(* One step of a thread preserves the answers.                             *)
LEMMA AnswerStep ==
  ASSUME ~TransientFailure, Orderly, NEW t \in Threads, Step(t), ~leftWait'
  PROVE  AnswerInv' /\ LookupCorrect'
<1> USE LoaderAssumption
    DEF Orderly, StartedInv, TypeInv, TypeOK, FunOK, shared, Goto, Carry, Labels,
        Lookup
<1>0. ~InitSpin(t)
  BY WaitingStep
<1>1. \A u \in Threads : pc[u] \in Lookup => cookie = 1 /\ slot[fun[u]].key = 1
  BY DEF StartInv, RawNull
<1>2. CASE CheckSlot(t)
  <2>1. AnswerInv'
    BY <1>1, <1>2 DEF CheckSlot, AnswerInv, Mod, SlotAnswer, Resolvable, Encode, Decode
  <2>2. LookupCorrect'
    BY <1>2 DEF CheckSlot, LookupCorrect, Answer, Resolvable
  <2>3. QED
    BY <2>1, <2>2
<1>3. CASE ReadSlot(t)
  <2>1. AnswerInv'
    BY <1>1, <1>3 DEF ReadSlot, AnswerInv, Mod, SlotAnswer, Resolvable, Encode, Decode
  <2>2. LookupCorrect'
    BY <1>3 DEF ReadSlot, LookupCorrect, Answer, Resolvable
  <2>3. QED
    BY <2>1, <2>2
<1>4. CASE DecodeSlot(t)
  <2>1. cookie = 1 /\ reg[t].key = 1 /\ reg[t].val \in {"null", SlotAnswer(fun[t])}
    BY <1>1, <1>4 DEF DecodeSlot, AnswerInv
  <2>2. Decode(reg[t], cookie) = reg[t].val
    BY <2>1 DEF Decode
  <2>3. CASE reg[t].val = "null"
    <3>1. pc' = [pc EXCEPT ![t] = "readModule"] /\ UNCHANGED <<reg, ret>>
      BY <1>4, <2>2, <2>3 DEF DecodeSlot
    <3>2. AnswerInv'
      BY <1>4, <3>1 DEF DecodeSlot, AnswerInv, Mod, SlotAnswer, Resolvable
    <3>3. LookupCorrect'
      BY <1>4, <3>1 DEF DecodeSlot, LookupCorrect, Answer, Resolvable
    <3>4. QED
      BY <3>2, <3>3
  <2>4. CASE reg[t].val # "null"
    <3>1. ReturnPointer(t, Answer(fun[t]))
      BY <1>4, <2>1, <2>2, <2>4 DEF DecodeSlot, SlotAnswer, Answer
    <3>2. QED
      BY <1>4, <3>1, ReturnPointerAnswers DEF DecodeSlot
  <2>5. QED
    BY <2>3, <2>4
<1>5. CASE GetProc(t)
  <2>1. AnswerInv'
    BY <1>1, <1>5 DEF GetProc, AnswerInv, Mod, SlotAnswer, Resolvable, Encode, Decode
  <2>2. LookupCorrect'
    BY <1>5 DEF GetProc, LookupCorrect, Answer, Resolvable
  <2>3. QED
    BY <2>1, <2>2
<1>6. CASE NoModule(t)
  <2>1. AnswerInv'
    BY <1>1, <1>6 DEF NoModule, AnswerInv, Mod, SlotAnswer, Resolvable, Encode, Decode
  <2>2. LookupCorrect'
    BY <1>6 DEF NoModule, LookupCorrect, Answer, Resolvable
  <2>3. QED
    BY <2>1, <2>2
<1>7. CASE StoreSlot(t)
  <2>1. reg[t] = Encode(SlotAnswer(fun[t]), 1)
    BY <1>7 DEF StoreSlot, AnswerInv
  <2>2. ReturnPointer(t, Answer(fun[t]))
    BY <1>7, <2>1 DEF StoreSlot, Encode, SlotAnswer, Answer
  <2>3. \A f \in Funs : slot'[f] \in {slot[f], Encode(SlotAnswer(f), 1)}
    BY <1>7, <2>1 DEF StoreSlot
  <2>4. QED
    BY <1>7, <2>2, <2>3, ReturnPointerAnswers DEF StoreSlot
<1>8. CASE ReadModule(t)
  <2>1. AnswerInv'
    BY <1>1, <1>8 DEF ReadModule, AnswerInv, Mod, SlotAnswer, Resolvable, Encode, Decode
  <2>2. LookupCorrect'
    BY <1>8 DEF ReadModule, LookupCorrect, Answer, Resolvable
  <2>3. QED
    BY <2>1, <2>2
<1>9. CASE LoadModule(t)
  <2>1. AnswerInv'
    BY <1>1, <1>9 DEF LoadModule, AnswerInv, Mod, SlotAnswer, Resolvable, Encode, Decode
  <2>2. LookupCorrect'
    BY <1>9 DEF LoadModule, LookupCorrect, Answer, Resolvable
  <2>3. QED
    BY <2>1, <2>2
<1>10. CASE LoadFails(t)
  <2>1. AnswerInv'
    BY <1>1, <1>10 DEF LoadFails, AnswerInv, Mod, SlotAnswer, Resolvable, Encode, Decode
  <2>2. LookupCorrect'
    BY <1>10 DEF LoadFails, LookupCorrect, Answer, Resolvable
  <2>3. QED
    BY <2>1, <2>2
<1>11. CASE CacheFailure(t)
  <2>1. AnswerInv'
    BY <1>1, <1>11 DEF CacheFailure, AnswerInv, Mod, SlotAnswer, Resolvable, Encode, Decode
  <2>2. LookupCorrect'
    BY <1>11 DEF CacheFailure, LookupCorrect, Answer, Resolvable
  <2>3. QED
    BY <2>1, <2>2
<1>12. CASE CacheModule(t)
  <2>1. AnswerInv'
    BY <1>1, <1>12 DEF CacheModule, AnswerInv, Mod, SlotAnswer, Resolvable, Encode, Decode
  <2>2. LookupCorrect'
    BY <1>12 DEF CacheModule, LookupCorrect, Answer, Resolvable
  <2>3. QED
    BY <2>1, <2>2
<1>13. CASE FreeExtra(t)
  <2>1. AnswerInv'
    BY <1>1, <1>13 DEF FreeExtra, AnswerInv, Mod, SlotAnswer, Resolvable, Encode, Decode
  <2>2. LookupCorrect'
    BY <1>13 DEF FreeExtra, LookupCorrect, Answer, Resolvable
  <2>3. QED
    BY <2>1, <2>2
<1>14. CASE InitClaim(t)
  <2>1. AnswerInv'
    BY <1>1, <1>14 DEF InitClaim, AnswerInv, Mod, SlotAnswer, Resolvable, Encode, Decode
  <2>2. LookupCorrect'
    BY <1>14 DEF InitClaim, LookupCorrect, Answer, Resolvable
  <2>3. QED
    BY <2>1, <2>2
<1>15. CASE InitBusy(t)
  <2>1. AnswerInv'
    BY <1>1, <1>15 DEF InitBusy, AnswerInv, Mod, SlotAnswer, Resolvable, Encode, Decode
  <2>2. LookupCorrect'
    BY <1>15 DEF InitBusy, LookupCorrect, Answer, Resolvable
  <2>3. QED
    BY <2>1, <2>2
<1>16. CASE InitAlreadyDone(t) BY <1>16, ReturnFromInitAnswers DEF InitAlreadyDone
<1>17. CASE SetCookie(t)
  <2>1. AnswerInv'
    BY <1>1, <1>17 DEF SetCookie, AnswerInv, Mod, SlotAnswer, Resolvable, Encode, Decode
  <2>2. LookupCorrect'
    BY <1>17 DEF SetCookie, LookupCorrect, Answer, Resolvable
  <2>3. QED
    BY <2>1, <2>2
<1>18. CASE FillSlot(t)
  <2>1. AnswerInv'
    BY <1>1, <1>18 DEF FillSlot, StartInv, AnswerInv, Mod, SlotAnswer, Resolvable, Encode, Decode
  <2>2. LookupCorrect'
    BY <1>18 DEF FillSlot, LookupCorrect, Answer, Resolvable
  <2>3. QED
    BY <2>1, <2>2
<1>19. CASE Publish(t)
  <2>1. CASE Preload
    <3>1. pc' = [pc EXCEPT ![t] = "preload"] /\ UNCHANGED <<slot, cache, reg, ret, fun>>
      BY <1>19, <2>1 DEF Publish
    <3>2. AnswerInv'
      BY <3>1 DEF AnswerInv, Mod, SlotAnswer, Resolvable
    <3>3. LookupCorrect'
      BY <3>1 DEF LookupCorrect, Answer, Resolvable
    <3>4. QED
      BY <3>2, <3>3
  <2>2. CASE ~Preload
    BY <1>19, <2>2, ReturnFromInitAnswers DEF Publish
  <2>3. QED
    BY <2>1, <2>2
<1>20. CASE PreloadNext(t)
  <2>1. AnswerInv'
    BY <1>1, <1>20 DEF PreloadNext, AnswerInv, Mod, SlotAnswer, Resolvable, Encode, Decode
  <2>2. LookupCorrect'
    BY <1>20 DEF PreloadNext, LookupCorrect, Answer, Resolvable
  <2>3. QED
    BY <2>1, <2>2
<1>21. CASE PreloadDone(t) BY <1>21, ReturnFromInitAnswers DEF PreloadDone
<1>22. QED
  BY <1>0, <1>2, <1>3, <1>4, <1>5, <1>6, <1>7, <1>8, <1>9, <1>10, <1>11, <1>12, <1>13, <1>14, <1>15, <1>16, <1>17, <1>18, <1>19, <1>20, <1>21
  DEF Step

LEMMA IInvNext == ~TransientFailure /\ IInv /\ [Next]_vars => IInv'
<1> SUFFICES ASSUME ~TransientFailure, IInv, [Next]_vars PROVE IInv'
  OBVIOUS
<1>1. StartedInv'
  BY StartedNext DEF IInv
<1>2. ASSUME ~leftWait' PROVE AnswerInv' /\ LookupCorrect'
  <2>1. Orderly
    BY <1>2, WaitingNext DEF IInv, Orderly, StartedInv
  <2> USE DEF Orderly, StartedInv, TypeInv, TypeOK, shared, local, Goto
  <2>2. ASSUME NEW t \in Threads, Step(t) PROVE AnswerInv' /\ LookupCorrect'
    BY <1>2, <2>1, <2>2, AnswerStep
  <2>3. ASSUME NEW t \in Threads, NEW f \in Funs, Call(t, f)
        PROVE  AnswerInv' /\ LookupCorrect'
    <3>1. AnswerInv'
      BY <2>1, <2>3 DEF Call, AnswerInv, Mod, SlotAnswer, Resolvable
    <3>2. LookupCorrect'
      BY <2>1, <2>3 DEF Call, LookupCorrect, Answer, Resolvable
    <3>3. QED
      BY <3>1, <3>2
  <2>4. CASE RunCrtInitializer
    <3>1. AnswerInv'
      BY <2>1, <2>4, LoaderAssumption
      DEF RunCrtInitializer, AnswerInv, Mod, SlotAnswer, Resolvable
    <3>2. LookupCorrect'
      BY <2>1, <2>4 DEF RunCrtInitializer, LookupCorrect, Answer, Resolvable
    <3>3. QED
      BY <3>1, <3>2
  <2>5. CASE Unload
    <3>1. UNCHANGED <<slot, pc, fun, reg, ret>>
      BY <2>5 DEF Unload
    <3>2. \A m \in Modules : cache'[m] \in {cache[m], "null"}
      BY <2>1, <2>5 DEF Unload
    <3>3. AnswerInv'
      BY <2>1, <2>5, <3>1, <3>2 DEF Unload, AnswerInv, Mod, SlotAnswer, Resolvable
    <3>4. LookupCorrect'
      BY <2>1, <3>1 DEF LookupCorrect, Answer, Resolvable
    <3>5. QED
      BY <3>3, <3>4
  <2>6. CASE UNCHANGED vars
    <3>1. AnswerInv'
      BY <2>1, <2>6 DEF vars, AnswerInv, Mod, SlotAnswer, Resolvable
    <3>2. LookupCorrect'
      BY <2>1, <2>6 DEF vars, LookupCorrect, Answer, Resolvable
    <3>3. QED
      BY <3>1, <3>2
  <2>7. QED
    BY <2>2, <2>3, <2>4, <2>5, <2>6 DEF Next, Unmapped
<1>3. leftWait' => LookupCorrect'
  BY DEF LookupCorrect
<1>4. QED
  BY <1>1, <1>2, <1>3 DEF IInv

(* Every lookup of every thread answers what Windows answers, for any      *)
(* number of threads, functions and modules, whoever starts and whatever   *)
(* they race for: the exchange of equal words in try_get_function and      *)
(* try_get_module needs no lock.                                           *)
THEOREM LookupIsCorrect ==
  ASSUME ~TransientFailure
  PROVE  Spec => []LookupCorrect
<1>1. IInv /\ [Next]_vars => IInv'
  BY IInvNext
<1>2. IInv => LookupCorrect
  BY DEF IInv
<1>3. QED
  BY <1>1, <1>2, IInvInit, PTL DEF Spec
-----------------------------------------------------------------------------
(* Answers are final.                                                      *)

(* The only steps that write a slot.                                       *)
LEMMA SlotWriters ==
  ASSUME [Next]_vars
  PROVE  \/ slot' = slot
         \/ \E t \in Threads : FillSlot(t) \/ StoreSlot(t)
<1>1. ASSUME NEW t \in Threads, Step(t), ~FillSlot(t), ~StoreSlot(t) PROVE slot' = slot
  BY <1>1 DEF Step, shared, CheckSlot, ReadSlot, DecodeSlot, GetProc, NoModule,
    ReadModule, LoadModule, LoadFails, CacheFailure, CacheModule, FreeExtra,
    InitClaim, InitBusy, InitAlreadyDone, InitSpin, SetCookie, Publish,
    PreloadNext, PreloadDone
<1>2. QED
  BY <1>1 DEF Next, Call, RunCrtInitializer, Unload, Unmapped, vars, shared

(* Whoever writes a slot that holds an answer stores the same answer: a    *)
(* lookup finds the same, and the initialisation fills a slot once, before *)
(* any lookup gets past it.                                                *)
THEOREM AnswersAreFinal ==
  ASSUME ~TransientFailure
  PROVE  Spec => AnswerIsFinal
<1> DEFINE Keep == ~leftWait =>
             \A f \in Funs :
               Decode(slot[f], cookie) \in {"address", "sentinel"} => slot'[f] = slot[f]
<1>1. IInv /\ [Next]_vars => IInv'
  BY IInvNext
<1>2. IInv /\ [Next]_vars => [Keep]_slot
  <2> SUFFICES ASSUME IInv, [Next]_vars, ~leftWait,
                      NEW f \in Funs, Decode(slot[f], cookie) \in {"address", "sentinel"}
      PROVE  slot'[f] = slot[f]
    OBVIOUS
  <2>1. StartInv /\ AnswerInv /\ slot \in [Funs -> Words]
    BY DEF IInv, StartedInv, TypeInv, TypeOK
  <2>2. slot[f].val \in {"address", "sentinel"}
    BY DEF Decode
  <2>3. slot[f] # RawNull /\ slot[f].key = 1
    BY <2>1, <2>2 DEF StartInv, RawNull
  <2>4. slot[f] = Encode(SlotAnswer(f), 1)
    BY <2>1, <2>2, <2>3 DEF AnswerInv, Words, Encode
  <2>5. ASSUME NEW t \in Threads, FillSlot(t) PROVE slot'[f] = slot[f]
    <3>1. PICK g \in todo[t] : slot' = [slot EXCEPT ![g] = Encode("null", cookie)]
      BY <2>5 DEF FillSlot
    <3>2. f \notin todo[t]
      BY <2>1, <2>3, <2>5 DEF FillSlot, StartInv
    <3>3. QED
      BY <2>1, <3>1, <3>2
  <2>6. ASSUME NEW t \in Threads, StoreSlot(t) PROVE slot'[f] = slot[f]
    <3>1. slot' = [slot EXCEPT ![fun[t]] = Encode(SlotAnswer(fun[t]), 1)]
      BY <2>1, <2>6 DEF StoreSlot, AnswerInv
    <3>2. QED
      BY <2>1, <2>4, <3>1
  <2>7. QED
    BY <2>5, <2>6, SlotWriters
<1>3. QED
  BY <1>1, <1>2, IInvInit, PTL DEF Spec, AnswerIsFinal
-----------------------------------------------------------------------------
(* The module references stay balanced, however many threads start the     *)
(* initialisation.  The invariant counts the threads that carry a          *)
(* reference, so each step that moves one is a step of Cardinality.        *)

(* A module that could not be loaded is not there, and one that is being   *)
(* used is cached: what the cache and the threads between the load and the *)
(* use say of each other and of this Windows version.                      *)
PresenceInv ==
  /\ \A m \in Modules :
       /\ cache[m] = "invalid" => m \notin Present
       /\ cache[m] = "handle" => m \in Present
  /\ \A t \in Threads :
       /\ pc[t] = "cacheFailure" => Mod(t) \notin Present
       /\ pc[t] \in {"cacheModule", "freeExtra"} => Mod(t) \in Present
       /\ pc[t] \in {"freeExtra", "getProc"} => cache[Mod(t)] = "handle"

RefsInv == TypeInv /\ PresenceInv /\ ModuleRefsBalanced

Carrying(t) == pc[t] \in {"cacheModule", "freeExtra"}

LEMMA RefsInit == Init => PresenceInv /\ ModuleRefsBalanced
<1> SUFFICES ASSUME Init PROVE PresenceInv /\ ModuleRefsBalanced
  OBVIOUS
<1>1. PresenceInv
  BY DEF Init, PresenceInv
<1>2. ASSUME NEW m \in Modules PROVE Carriers(m) = {} /\ refs[m] = 0 /\ cache[m] = "null"
  BY <1>2 DEF Init, Carriers
<1>3. ModuleRefsBalanced
  BY <1>2, FS_EmptySet DEF ModuleRefsBalanced
<1>4. QED
  BY <1>1, <1>3

(* Carriers are threads, so there are finitely many.                       *)
LEMMA CarriersFinite ==
  ASSUME NEW m PROVE IsFiniteSet(Carriers(m)) /\ Cardinality(Carriers(m)) \in Nat
<1>1. Carriers(m) \in SUBSET Threads
  BY DEF Carriers
<1>2. QED
  BY <1>1, LoaderAssumption, FS_Subset, FS_CardinalityType

LEMMA OneLess ==
  ASSUME NEW m, NEW t \in Carriers(m), NEW D, D = Carriers(m) \ {t}
  PROVE  /\ Cardinality(D) = Cardinality(Carriers(m)) - 1
         /\ Cardinality(Carriers(m)) # 0
<1>1. IsFiniteSet(Carriers(m)) /\ Carriers(m) # {}
  BY CarriersFinite
<1>2. QED
  BY <1>1, FS_RemoveElement, FS_EmptySet

(* A step that touches neither cache nor references and moves nobody into  *)
(* or out of the two places where a reference is carried.                  *)
Uninvolved ==
  /\ UNCHANGED <<refs, cache>>
  /\ \A u \in Threads :
       /\ Carrying(u)' = Carrying(u)
       /\ Carrying(u) => pc'[u] = pc[u] /\ fun'[u] = fun[u]
       /\ pc'[u] \in {"cacheFailure", "getProc"} => pc'[u] = pc[u] /\ fun'[u] = fun[u]

LEMMA UninvolvedKeeps ==
  ASSUME PresenceInv, ModuleRefsBalanced, Uninvolved
  PROVE  PresenceInv' /\ ModuleRefsBalanced'
<1> USE DEF Uninvolved, Carrying
<1>1. PresenceInv'
  BY DEF PresenceInv, Mod
<1>2. ASSUME NEW m \in Modules PROVE Carriers(m)' = Carriers(m)
  BY <1>2 DEF Carriers, Mod
<1>3. ModuleRefsBalanced'
  BY <1>2 DEF ModuleRefsBalanced
<1>4. QED
  BY <1>1, <1>3

LEMMA StepUninvolved ==
  ASSUME TypeInv, NEW t \in Threads, Step(t), ~LoadModule(t), ~LoadFails(t),
         ~CacheFailure(t), ~CacheModule(t), ~FreeExtra(t), ~ReadModule(t)
  PROVE  Uninvolved
<1> USE DEF TypeInv, TypeOK, Uninvolved, Carrying, shared, Goto
<1>1. CASE CheckSlot(t) BY <1>1 DEF CheckSlot
<1>2. CASE ReadSlot(t) BY <1>2 DEF ReadSlot
<1>3. CASE DecodeSlot(t)
  <2>1. UNCHANGED <<refs, cache, fun>> /\ pc[t] = "decodeSlot"
    BY <1>3 DEF DecodeSlot
  <2>2. \E l \in {"readModule", "preload", "idle"} : pc' = [pc EXCEPT ![t] = l]
    BY <1>3 DEF DecodeSlot, ReturnPointer
  <2>3. QED
    BY <2>1, <2>2
<1>4. CASE GetProc(t) BY <1>4 DEF GetProc
<1>5. CASE NoModule(t) BY <1>5 DEF NoModule
<1>6. CASE StoreSlot(t) BY <1>6 DEF StoreSlot, ReturnPointer
<1>8. CASE InitClaim(t) BY <1>8 DEF InitClaim
<1>9. CASE InitBusy(t) BY <1>9 DEF InitBusy
<1> DEFINE Returns == \E s : ReturnFromInit(t, s)
<1>10. ASSUME Returns, UNCHANGED <<refs, cache>>, ~Carrying(t),
              pc[t] \notin {"cacheFailure", "getProc"}
       PROVE  Uninvolved
  <2>1. PICK l \in {"idle", "readSlot"} : pc' = [pc EXCEPT ![t] = l]
    BY <1>10, ReturnFromInitPlace
  <2>2. ASSUME NEW u \in Threads, u # t PROVE fun'[u] = fun[u]
    BY <1>10, <2>2 DEF ReturnFromInit
  <2>3. QED
    BY <1>10, <2>1, <2>2
<1>11. CASE InitAlreadyDone(t)
  BY <1>10, <1>11 DEF InitAlreadyDone
<1>12. CASE InitSpin(t)
  BY <1>10, <1>12 DEF InitSpin
<1>13. CASE SetCookie(t) BY <1>13 DEF SetCookie
<1>14. CASE FillSlot(t) BY <1>14 DEF FillSlot
<1>15. CASE Publish(t)
  <2>1. CASE Preload BY <1>15, <2>1 DEF Publish
  <2>2. CASE ~Preload BY <1>10, <1>15, <2>2 DEF Publish
  <2>3. QED BY <2>1, <2>2
<1>16. CASE PreloadNext(t) BY <1>16 DEF PreloadNext
<1>17. CASE PreloadDone(t)
  BY <1>10, <1>17 DEF PreloadDone
<1>18. QED
  BY <1>1, <1>2, <1>3, <1>4, <1>5, <1>6, <1>8, <1>9, <1>11, <1>12,
     <1>13, <1>14, <1>15, <1>16, <1>17 DEF Step
-----------------------------------------------------------------------------
(* The four steps that move a reference, and the unload.                   *)

LEMMA LoadModuleRefs ==
  ASSUME RefsInv, NEW t \in Threads, LoadModule(t)
  PROVE  PresenceInv' /\ ModuleRefsBalanced'
<1> USE DEF RefsInv, TypeInv, TypeOK, Goto
<1>1. /\ pc[t] = "loadModule" /\ pc' = [pc EXCEPT ![t] = "cacheModule"]
      /\ Mod(t) \in Present /\ UNCHANGED <<cache, fun>>
      /\ refs' = [refs EXCEPT ![Mod(t)] = IF Mod(t) \in Pinned THEN @ ELSE @ + 1]
  BY DEF LoadModule
<1>2. PresenceInv'
  BY <1>1 DEF PresenceInv, Mod
<1>3. ASSUME NEW m \in Modules \ Pinned
      PROVE  refs'[m] = Cardinality(Carriers(m))' + (IF cache'[m] = "handle" THEN 1 ELSE 0)
  <2>1. CASE m = Mod(t)
    <3>1. Carriers(m)' = Carriers(m) \cup {t} /\ t \notin Carriers(m)
      BY <1>1, <2>1 DEF Carriers, Mod
    <3>2. Cardinality(Carriers(m))' = Cardinality(Carriers(m)) + 1
      BY <3>1, CarriersFinite, FS_AddElement
    <3>3. refs'[m] = refs[m] + 1
      BY <1>1, <2>1
    <3>4. QED
      BY <1>1, <3>2, <3>3, CarriersFinite DEF ModuleRefsBalanced
  <2>2. CASE m # Mod(t)
    <3>1. Carriers(m)' = Carriers(m)
      BY <1>1, <2>2 DEF Carriers, Mod
    <3>2. QED
      BY <1>1, <2>2, <3>1 DEF ModuleRefsBalanced
  <2>3. QED
    BY <2>1, <2>2
<1>4. QED
  BY <1>2, <1>3 DEF ModuleRefsBalanced

LEMMA CacheModuleRefs ==
  ASSUME RefsInv, NEW t \in Threads, CacheModule(t)
  PROVE  PresenceInv' /\ ModuleRefsBalanced'
<1> USE LoaderAssumption DEF RefsInv, TypeInv, TypeOK, FunOK, Goto
<1> DEFINE place == IF cache[Mod(t)] = "null" THEN "getProc" ELSE "freeExtra"
<1>1. /\ pc[t] = "cacheModule" /\ pc' = [pc EXCEPT ![t] = place]
      /\ cache' = [cache EXCEPT ![Mod(t)] = "handle"] /\ UNCHANGED <<refs, fun>>
  BY DEF CacheModule
<1>2. Mod(t) \in Modules /\ Mod(t) \in Present /\ cache[Mod(t)] \in {"null", "handle"}
  BY <1>1 DEF PresenceInv, Mod, Lookup
<1>3. PresenceInv'
  BY <1>1, <1>2 DEF PresenceInv, Mod
<1>4. ASSUME NEW m \in Modules \ Pinned
      PROVE  refs'[m] = Cardinality(Carriers(m))' + (IF cache'[m] = "handle" THEN 1 ELSE 0)
  <2>1. CASE m = Mod(t) /\ cache[m] = "null"
    <3>1. Carriers(m)' = Carriers(m) \ {t} /\ t \in Carriers(m)
      BY <1>1, <2>1 DEF Carriers, Mod
    <3>2. Cardinality(Carriers(m))' = Cardinality(Carriers(m)) - 1
      BY <3>1, OneLess
    <3>3. cache'[m] = "handle"
      BY <1>1, <1>2, <2>1
    <3>4. QED
      BY <1>1, <2>1, <3>2, <3>3, CarriersFinite DEF ModuleRefsBalanced
  <2>2. CASE m # Mod(t) \/ cache[m] = "handle"
    <3>1. Carriers(m)' = Carriers(m) /\ cache'[m] = cache[m]
      BY <1>1, <2>2 DEF Carriers, Mod
    <3>2. QED
      BY <1>1, <3>1 DEF ModuleRefsBalanced
  <2>3. QED
    BY <1>2, <2>1, <2>2
<1>5. QED
  BY <1>3, <1>4 DEF ModuleRefsBalanced

LEMMA FreeExtraRefs ==
  ASSUME RefsInv, NEW t \in Threads, FreeExtra(t)
  PROVE  PresenceInv' /\ ModuleRefsBalanced'
<1> USE LoaderAssumption DEF RefsInv, TypeInv, TypeOK, FunOK, Goto
<1>1. /\ pc[t] = "freeExtra" /\ pc' = [pc EXCEPT ![t] = "getProc"]
      /\ refs' = [refs EXCEPT ![Mod(t)] = Freed(Mod(t))] /\ UNCHANGED <<cache, fun>>
  BY DEF FreeExtra
<1>2. PresenceInv'
  BY <1>1 DEF PresenceInv, Mod
<1>3. ASSUME NEW m \in Modules \ Pinned
      PROVE  refs'[m] = Cardinality(Carriers(m))' + (IF cache'[m] = "handle" THEN 1 ELSE 0)
  <2>1. CASE m = Mod(t)
    <3>1. Carriers(m)' = Carriers(m) \ {t} /\ t \in Carriers(m)
      BY <1>1, <2>1 DEF Carriers, Mod
    <3>2. /\ Cardinality(Carriers(m))' = Cardinality(Carriers(m)) - 1
          /\ Cardinality(Carriers(m)) # 0
      BY <3>1, OneLess
    <3>3. refs[m] # 0
      BY <3>2, CarriersFinite DEF ModuleRefsBalanced
    <3>4. refs'[m] = refs[m] - 1
      BY <1>1, <2>1, <3>3 DEF Freed
    <3>5. QED
      BY <1>1, <3>2, <3>4, CarriersFinite DEF ModuleRefsBalanced
  <2>2. CASE m # Mod(t)
    <3>1. Carriers(m)' = Carriers(m) /\ refs'[m] = refs[m]
      BY <1>1, <2>2 DEF Carriers, Mod
    <3>2. QED
      BY <1>1, <3>1 DEF ModuleRefsBalanced
  <2>3. QED
    BY <2>1, <2>2
<1>4. QED
  BY <1>2, <1>3 DEF ModuleRefsBalanced

(* A handle read from the cache is used at once.                           *)
LEMMA ReadModuleRefs ==
  ASSUME RefsInv, NEW t \in Threads, ReadModule(t)
  PROVE  PresenceInv' /\ ModuleRefsBalanced'
<1> USE LoaderAssumption DEF RefsInv, TypeInv, TypeOK, FunOK, Goto, shared
<1>1. /\ pc[t] = "readModule" /\ UNCHANGED <<refs, cache, fun>>
      /\ \E l \in {"loadModule", "noModule", "getProc"} :
           pc' = [pc EXCEPT ![t] = l] /\ (l = "getProc" => cache[Mod(t)] = "handle")
  BY DEF ReadModule, Mod, Lookup
<1>2. PresenceInv'
  BY <1>1 DEF PresenceInv, Mod
<1>3. ASSUME NEW m \in Modules PROVE Carriers(m)' = Carriers(m)
  BY <1>1 DEF Carriers, Mod
<1>4. QED
  BY <1>1, <1>2, <1>3 DEF ModuleRefsBalanced

(* A load that fails carries nothing, and what it caches is no handle.     *)
LEMMA FailureRefs ==
  ASSUME RefsInv, ~TransientFailure, NEW t \in Threads, LoadFails(t) \/ CacheFailure(t)
  PROVE  PresenceInv' /\ ModuleRefsBalanced'
<1> USE LoaderAssumption DEF RefsInv, TypeInv, TypeOK, FunOK, Goto, shared
<1>1. CASE LoadFails(t)
  <2>1. PresenceInv'
    BY <1>1 DEF LoadFails, PresenceInv, Mod
  <2>2. ASSUME NEW m \in Modules PROVE Carriers(m)' = Carriers(m)
    BY <1>1 DEF LoadFails, Carriers, Mod
  <2>3. UNCHANGED <<refs, cache>>
    BY <1>1 DEF LoadFails
  <2>4. QED
    BY <2>1, <2>2, <2>3 DEF ModuleRefsBalanced
<1>2. CASE CacheFailure(t)
  <2>1. /\ pc[t] = "cacheFailure" /\ pc' = [pc EXCEPT ![t] = "noModule"]
        /\ cache' = [cache EXCEPT ![Mod(t)] = "invalid"] /\ UNCHANGED <<refs, fun>>
    BY <1>2 DEF CacheFailure
  <2>2. Mod(t) \in Modules /\ Mod(t) \notin Present
    BY <2>1 DEF PresenceInv, Mod, Lookup
  <2>3. PresenceInv'
    BY <2>1, <2>2 DEF PresenceInv, Mod
  <2>4. ASSUME NEW m \in Modules PROVE Carriers(m)' = Carriers(m)
    BY <2>1 DEF Carriers, Mod
  <2>5. cache[Mod(t)] # "handle"
    BY <2>2 DEF PresenceInv
  <2>6. \A m \in Modules : cache'[m] = "handle" <=> cache[m] = "handle"
    BY <2>1, <2>5
  <2>7. QED
    BY <2>1, <2>3, <2>4, <2>6 DEF ModuleRefsBalanced
<1>3. QED
  BY <1>1, <1>2

(* When the host is unloaded nobody carries a reference: every cached      *)
(* module gives its one back.                                              *)
LEMMA UnloadRefs ==
  ASSUME RefsInv, Unload
  PROVE  PresenceInv' /\ ModuleRefsBalanced'
<1> USE DEF RefsInv, TypeInv, TypeOK, local
<1>1. UNCHANGED <<pc, fun>> /\ \A t \in Threads : pc[t] = "idle"
  BY DEF Unload
<1>2. ASSUME NEW m \in Modules PROVE Carriers(m) = {} /\ Carriers(m)' = {}
  BY <1>1, <1>2 DEF Carriers
<1>0. Cardinality({}) = 0
  BY FS_EmptySet
<1>3. ASSUME NEW m \in Modules \ Pinned
      PROVE  refs[m] = IF cache[m] = "handle" THEN 1 ELSE 0
  <2>1. Cardinality(Carriers(m)) = 0
    BY <1>0, <1>2, <1>3
  <2>2. refs[m] = Cardinality(Carriers(m)) + (IF cache[m] = "handle" THEN 1 ELSE 0)
    BY <1>3 DEF ModuleRefsBalanced
  <2>3. QED
    BY <2>1, <2>2
<1>4. CASE UNCHANGED <<refs, cache>>
  <2>1. PresenceInv'
    BY <1>1, <1>4 DEF PresenceInv, Mod
  <2>2. ModuleRefsBalanced'
    BY <1>2, <1>4 DEF ModuleRefsBalanced
  <2>3. QED
    BY <2>1, <2>2
<1>5. CASE /\ refs' = [m \in Modules |-> IF cache[m] = "handle" THEN Freed(m) ELSE refs[m]]
           /\ cache' = [m \in Modules |-> "null"]
  <2>1. PresenceInv'
    BY <1>1, <1>5 DEF PresenceInv, Mod
  <2>2. ASSUME NEW m \in Modules \ Pinned PROVE refs'[m] = 0
    BY <1>3, <1>5, <2>2 DEF Freed
  <2>3. ASSUME NEW m \in Modules \ Pinned
        PROVE  Cardinality(Carriers(m))' = 0 /\ cache'[m] # "handle"
    BY <1>0, <1>2, <1>5, <2>3
  <2>4. ModuleRefsBalanced'
    BY <2>2, <2>3 DEF ModuleRefsBalanced
  <2>5. QED
    BY <2>1, <2>4
<1>6. QED
  BY <1>4, <1>5 DEF Unload
-----------------------------------------------------------------------------
LEMMA RefsNext == RefsInv /\ ~TransientFailure /\ [Next]_vars => RefsInv'
<1> SUFFICES ASSUME RefsInv, ~TransientFailure, [Next]_vars PROVE RefsInv'
  OBVIOUS
<1>1. TypeInv'
  BY TypeNext DEF RefsInv
<1>2. ASSUME NEW t \in Threads, Step(t) PROVE PresenceInv' /\ ModuleRefsBalanced'
  <2>1. CASE LoadModule(t)
    BY <2>1, LoadModuleRefs
  <2>2. CASE CacheModule(t)
    BY <2>2, CacheModuleRefs
  <2>3. CASE FreeExtra(t)
    BY <2>3, FreeExtraRefs
  <2>4. CASE LoadFails(t) \/ CacheFailure(t)
    BY <2>4, FailureRefs
  <2>5. CASE ReadModule(t)
    BY <2>5, ReadModuleRefs
  <2>6. CASE /\ ~LoadModule(t) /\ ~LoadFails(t) /\ ~CacheFailure(t)
             /\ ~CacheModule(t) /\ ~FreeExtra(t) /\ ~ReadModule(t)
    <3>1. Uninvolved
      BY <1>2, <2>6, StepUninvolved DEF RefsInv
    <3>2. QED
      BY <3>1, UninvolvedKeeps DEF RefsInv
  <2>7. QED
    BY <2>1, <2>2, <2>3, <2>4, <2>5, <2>6
<1>3. ASSUME NEW t \in Threads, NEW f \in Funs, Call(t, f)
      PROVE  PresenceInv' /\ ModuleRefsBalanced'
  <2>1. Uninvolved
    BY <1>3 DEF Call, Uninvolved, Carrying, RefsInv, TypeInv, TypeOK, shared, Goto
  <2>2. QED
    BY <2>1, UninvolvedKeeps DEF RefsInv
<1>4. ASSUME RunCrtInitializer PROVE PresenceInv' /\ ModuleRefsBalanced'
  <2>1. Uninvolved
    BY <1>4, LoaderAssumption
    DEF RunCrtInitializer, Uninvolved, Carrying, RefsInv, TypeInv, TypeOK, Goto
  <2>2. QED
    BY <2>1, UninvolvedKeeps DEF RefsInv
<1>5. ASSUME Unload PROVE PresenceInv' /\ ModuleRefsBalanced'
  BY <1>5, UnloadRefs
<1>6. ASSUME UNCHANGED vars PROVE PresenceInv' /\ ModuleRefsBalanced'
  <2>1. Uninvolved
    BY <1>6 DEF vars, Uninvolved, Carrying
  <2>2. QED
    BY <2>1, UninvolvedKeeps DEF RefsInv
<1>7. PresenceInv' /\ ModuleRefsBalanced'
  BY <1>2, <1>3, <1>4, <1>5, <1>6 DEF Next, Unmapped
<1>8. QED
  BY <1>1, <1>7 DEF RefsInv

(* Balanced references: however many threads load a module at once, and    *)
(* however many start the initialisation, try_get_module neither leaks a   *)
(* reference nor frees the cached one, and the unload gives all back.      *)
THEOREM ModuleRefsAreBalanced ==
  ASSUME ~TransientFailure
  PROVE  Spec => []ModuleRefsBalanced
<1>1. Init => RefsInv
  BY TypeInit, RefsInit DEF RefsInv
<1>2. RefsInv => ModuleRefsBalanced
  BY DEF RefsInv
<1>3. RefsInv /\ [Next]_vars => RefsInv'
  BY RefsNext
<1>4. QED
  BY <1>1, <1>2, <1>3, PTL DEF Spec
(* GetProcAddress is only asked about a loaded module: a thread that is    *)
(* about to ask found or cached the handle, and that handle owns one of    *)
(* the references.                                                         *)
THEOREM UsedModulesAreLoaded ==
  ASSUME ~TransientFailure
  PROVE  Spec => []ModuleLoadedWhenUsed
<1>1. Init => RefsInv
  BY TypeInit, RefsInit DEF RefsInv
<1>2. RefsInv => ModuleLoadedWhenUsed
  <2> SUFFICES ASSUME RefsInv, NEW t \in Threads, pc[t] = "getProc", Mod(t) \notin Pinned
      PROVE  refs[Mod(t)] > 0
    BY DEF ModuleLoadedWhenUsed
  <2>1. Mod(t) \in Modules
    BY LoaderAssumption DEF RefsInv, TypeInv, FunOK, Lookup, Mod
  <2>2. cache[Mod(t)] = "handle"
    BY DEF RefsInv, PresenceInv
  <2>3. refs[Mod(t)] = Cardinality(Carriers(Mod(t))) + 1
    BY <2>1, <2>2 DEF RefsInv, ModuleRefsBalanced
  <2>4. QED
    BY <2>3, CarriersFinite
<1>3. RefsInv /\ [Next]_vars => RefsInv'
  BY RefsNext
<1>4. QED
  BY <1>1, <1>2, <1>3, PTL DEF Spec
=============================================================================
