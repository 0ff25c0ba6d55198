----------------------------- MODULE ThunkLoader -----------------------------
(***************************************************************************)
(* The late-binding core that every thunk of YY-Thunks goes through before *)
(* it falls back to its own implementation: the one-time initialisation of *)
(* the function-pointer cache (_YY_initialize_winapi_thunks), the lookup   *)
(* of a function (try_get_function), the lookup of its module              *)
(* (try_get_module), the preloading of every function, and the release of  *)
(* the modules when the host DLL is unloaded.                              *)
(*                                                                         *)
(* One action is one atomic access to shared memory or one call into       *)
(* Windows.  Pointers are kept encoded under a cookie that is itself set   *)
(* during initialisation: decoding a word under another cookie than the    *)
(* one it was encoded with yields a pointer to nowhere, here "garbage".    *)
(***************************************************************************)
EXTENDS Naturals, FiniteSets

CONSTANTS
  Threads,          \* threads of the process that may call a thunk
  Main,             \* the thread that runs the static initialisers
  Funs,             \* functions that have a slot in .YYThu$AAB
  NoFun,            \* "no function": an initialisation asked for by the CRT
  Modules,          \* modules that have a slot in .YYThu$AAA
  ModuleOf,         \* the module a function is looked up in
  Present,          \* modules this Windows version has
  Exported,         \* functions this Windows version exports
  Pinned,           \* modules found with USING_GET_MODULE_HANDLE
  TransientFailure, \* may LoadLibraryExW fail once and succeed later?
  Preload           \* ~__YY_Thunks_Disable_Rreload_Dlls

ASSUME LoaderAssumption ==
  /\ IsFiniteSet(Threads)
  /\ Main \in Threads
  /\ NoFun \notin Funs
  /\ ModuleOf \in [Funs -> Modules]
  /\ Pinned \subseteq Modules
  /\ TransientFailure \in BOOLEAN
  /\ Preload \in BOOLEAN

VARIABLES
  status,   \* s_eThunksStatus
  cookie,   \* __security_cookie_yy_thunks: 0 until it is drawn, then 1
  slot,     \* slot[f]: pFun_f, an encoded pointer
  cache,    \* cache[m]: hModule of try_get_module_m
  refs,     \* refs[m]: references to m this component has taken from Windows
  crt,      \* progress of __YY_initialize_winapi_thunks, run by Main
  atExit,   \* is __YY_uninitialize_winapi_thunks registered with atexit?
  mapped,   \* is the host module still mapped?
  image,    \* what the component is linked into: see Images
  leftWait, \* history: has a thread left its wait for an initialisation?
  pc,       \* where each thread is
  fun,      \* the function each thread is looking up
  outer,    \* the lookup that triggered the initialisation a thread runs
  todo,     \* slots still to be filled, or functions still to be preloaded
  nested,   \* is the lookup part of a preload?
  reg,      \* the slot word, or the address, a thread carries
  ret       \* the function and the pointer of each thread's last lookup

shared == <<status, cookie, slot, cache, refs, crt, atExit, mapped, image, leftWait>>
local == <<pc, fun, outer, todo, nested, reg, ret>>
vars == <<status, cookie, slot, cache, refs, crt, atExit, mapped,
          image, leftWait, pc, fun, outer, todo, nested, reg, ret>>

-----------------------------------------------------------------------------
(* Encoded pointers: __CRT_EncodePointer and __CRT_DecodePointer.          *)

Pointers == {"null", "sentinel", "address", "garbage"}
Words == [key : {0, 1}, val : Pointers]
RawNull == [key |-> 0, val |-> "null"]

Encode(p, k) == [key |-> k, val |-> p]

Decode(w, k) == IF w.key = k THEN w.val ELSE "garbage"

(* What __YY_initialize_winapi_thunks tells apart: an exe or a DLL on the  *)
(* CRT's DLL, where only the DLL registers the clean-up with atexit, or an *)
(* image with the CRT in it, whose .CRT$XTY terminators run the clean-up.  *)
(* (A static CRT older than the UCRT does both: the second call finds the  *)
(* status Uninitialized and returns.)                                      *)
Images == {"exe", "dll", "static"}

Initialized == {"InitByDllMain", "InitByCRT", "InitByAPI"}
Statuses == {"Uninitialized", "Wait", "None"} \cup Initialized

(* What GetProcAddress on this Windows version answers for f.              *)
Resolvable(f) == f \in Exported /\ ModuleOf[f] \in Present
Answer(f) == IF Resolvable(f) THEN "address" ELSE "null"

Goto(t, label) == pc' = [pc EXCEPT ![t] = label]

Carry(t, x) == reg' = [reg EXCEPT ![t] = x]

(* try_get_X returns p to its caller: to the preload loop, or to the thunk. *)
ReturnPointer(t, p) ==
  /\ Goto(t, IF nested[t] THEN "preload" ELSE "idle")
  /\ ret' = IF nested[t] THEN ret ELSE [ret EXCEPT ![t] = [fn |-> fun[t], ptr |-> p]]
  /\ Carry(t, RawNull)

(* _YY_initialize_winapi_thunks returns s: to the lookup that called it,   *)
(* or to __YY_initialize_winapi_thunks, which registers the clean-up.      *)
ReturnFromInit(t, s) ==
  /\ nested' = [nested EXCEPT ![t] = FALSE]
  /\ outer' = [outer EXCEPT ![t] = NoFun]
  /\ IF outer[t] = NoFun
     THEN /\ crt' = "done"
          /\ atExit' = (image = "dll" /\ s \in {"InitByCRT", "InitByAPI"})
          /\ Goto(t, "idle")
          /\ UNCHANGED fun
     ELSE /\ fun' = [fun EXCEPT ![t] = outer[t]]
          /\ Goto(t, "readSlot")
          /\ UNCHANGED <<crt, atExit>>
-----------------------------------------------------------------------------
Init ==
  /\ status = "None"
  /\ cookie = 0
  /\ slot = [f \in Funs |-> RawNull]
  /\ cache = [m \in Modules |-> "null"]
  /\ refs = [m \in Modules |-> 0]
  /\ crt = "pending"
  /\ atExit = FALSE
  /\ mapped = TRUE
  /\ image \in Images
  /\ leftWait = FALSE
  /\ pc = [t \in Threads |-> "idle"]
  /\ fun = [t \in Threads |-> NoFun]
  /\ outer = [t \in Threads |-> NoFun]
  /\ todo = [t \in Threads |-> {}]
  /\ nested = [t \in Threads |-> FALSE]
  /\ reg = [t \in Threads |-> RawNull]
  /\ ret = [t \in Threads |-> [fn |-> NoFun, ptr |-> "null"]]

(* A thread calls the thunk of f, which starts with try_get_f(): at any     *)
(* time, also before the CRT's initialisers ran or while they run.         *)
Call(t, f) ==
  /\ mapped
  /\ pc[t] = "idle"
  /\ fun' = [fun EXCEPT ![t] = f]
  /\ Goto(t, "checkSlot")
  /\ UNCHANGED <<shared, outer, todo, nested, reg, ret>>

(* A slot that holds a raw nullptr has never been initialised: initialise.  *)
CheckSlot(t) ==
  /\ pc[t] = "checkSlot"
  /\ IF slot[fun[t]] = RawNull
     THEN /\ outer' = [outer EXCEPT ![t] = fun[t]]
          /\ Goto(t, "initCas")
     ELSE /\ Goto(t, "readSlot")
          /\ UNCHANGED outer
  /\ UNCHANGED <<shared, fun, todo, nested, reg, ret>>

(* The .CRT$XID initialiser calls _YY_initialize_winapi_thunks(InitByCRT).  *)
RunCrtInitializer ==
  /\ crt = "pending"
  /\ pc[Main] = "idle"
  /\ crt' = "running"
  /\ Goto(Main, "initCas")
  /\ UNCHANGED <<status, cookie, slot, cache, refs, atExit, mapped, image, leftWait,
                 fun, outer, todo, nested, reg, ret>>
-----------------------------------------------------------------------------
(* _YY_initialize_winapi_thunks                                            *)

(* Mutant: the status is tested but not claimed with a compare-exchange.   *)
InitClaim_NoCas(t) ==
  /\ pc[t] = "initCas"
  /\ status \in {"None", "Wait"}
  /\ status' = "Wait"
  /\ Goto(t, "setCookie")
  /\ UNCHANGED <<cookie, slot, cache, refs, crt, atExit, mapped, image, leftWait,
                 fun, outer, todo, nested, reg, ret>>

InitClaim(t) ==
  /\ pc[t] = "initCas"
  /\ status = "None"
  /\ status' = "Wait"
  /\ Goto(t, "setCookie")
  /\ UNCHANGED <<cookie, slot, cache, refs, crt, atExit, mapped, image, leftWait,
                 fun, outer, todo, nested, reg, ret>>

InitBusy(t) ==
  /\ pc[t] = "initCas"
  /\ status = "Wait"
  /\ Goto(t, "spin")
  /\ UNCHANGED <<shared, fun, outer, todo, nested, reg, ret>>

InitAlreadyDone(t) ==
  /\ pc[t] = "initCas"
  /\ status \notin {"None", "Wait"}
  /\ ReturnFromInit(t, status)
  /\ UNCHANGED <<status, cookie, slot, cache, refs, mapped, image, leftWait, todo, reg, ret>>

(* do { YieldProcessor(); s = s_eThunksStatus } while (s != Wait): the loop *)
(* ends when it reads Wait, and goes on for ever once it reads anything    *)
(* else, as the status never comes back to Wait.                           *)
InitSpin(t) ==
  /\ pc[t] = "spin"
  /\ status = "Wait"
  /\ ReturnFromInit(t, status)
  /\ leftWait' = TRUE
  /\ UNCHANGED <<status, cookie, slot, cache, refs, mapped, image, todo, reg, ret>>

SetCookie(t) ==
  /\ pc[t] = "setCookie"
  /\ cookie' = 1
  /\ todo' = [todo EXCEPT ![t] = Funs]
  /\ Goto(t, "fill")
  /\ UNCHANGED <<status, slot, cache, refs, crt, atExit, mapped, image, leftWait,
                 fun, outer, nested, reg, ret>>

FillSlot(t) ==
  /\ pc[t] = "fill"
  /\ \E f \in todo[t] :
       /\ slot' = [slot EXCEPT ![f] = Encode("null", cookie)]
       /\ todo' = [todo EXCEPT ![t] = @ \ {f}]
  /\ UNCHANGED <<status, cookie, cache, refs, crt, atExit, mapped, image, leftWait,
                 pc, fun, outer, nested, reg, ret>>

(* InterlockedExchange(&s_eThunksStatus, _sInitStatus), then the preload   *)
(* loop over .YYThr$AAA unless it is disabled.                             *)
Publish(t) ==
  LET s == IF outer[t] = NoFun THEN "InitByCRT" ELSE "InitByAPI" IN
  /\ pc[t] = "fill"
  /\ todo[t] = {}
  /\ status' = s
  /\ IF Preload
     THEN /\ todo' = [todo EXCEPT ![t] = Funs]
          /\ nested' = [nested EXCEPT ![t] = TRUE]
          /\ Goto(t, "preload")
          /\ UNCHANGED <<fun, outer, crt, atExit>>
     ELSE /\ ReturnFromInit(t, s)
          /\ UNCHANGED todo
  /\ UNCHANGED <<cookie, slot, cache, refs, mapped, image, leftWait, reg, ret>>

PreloadNext(t) ==
  /\ pc[t] = "preload"
  /\ \E f \in todo[t] :
       /\ fun' = [fun EXCEPT ![t] = f]
       /\ todo' = [todo EXCEPT ![t] = @ \ {f}]
  /\ Goto(t, "checkSlot")
  /\ UNCHANGED <<shared, outer, nested, reg, ret>>

PreloadDone(t) ==
  /\ pc[t] = "preload"
  /\ todo[t] = {}
  /\ ReturnFromInit(t, IF outer[t] = NoFun THEN "InitByCRT" ELSE "InitByAPI")
  /\ UNCHANGED <<status, cookie, slot, cache, refs, mapped, image, leftWait, todo, reg, ret>>
-----------------------------------------------------------------------------
(* try_get_function                                                        *)

ReadSlot(t) ==
  /\ pc[t] = "readSlot"
  /\ Carry(t, slot[fun[t]])
  /\ Goto(t, "decodeSlot")
  /\ UNCHANGED <<shared, fun, outer, todo, nested, ret>>

(* Mutant: the cached sentinel is taken for a function.                    *)
DecodeSlot_SentinelReturned(t) ==
  LET p == Decode(reg[t], cookie) IN
  /\ pc[t] = "decodeSlot"
  /\ IF p = "null"
     THEN Goto(t, "readModule") /\ UNCHANGED <<reg, ret>>
     ELSE ReturnPointer(t, p)
  /\ UNCHANGED <<shared, fun, outer, todo, nested>>

DecodeSlot(t) ==
  LET p == Decode(reg[t], cookie) IN
  /\ pc[t] = "decodeSlot"
  /\ CASE p = "null"     -> Goto(t, "readModule") /\ UNCHANGED <<reg, ret>>
       [] p = "sentinel" -> ReturnPointer(t, "null")
       [] OTHER          -> ReturnPointer(t, p)
  /\ UNCHANGED <<shared, fun, outer, todo, nested>>

(* try_get_proc_address_from_dll, once try_get_module returned a handle.   *)
GetProc(t) ==
  /\ pc[t] = "getProc"
  /\ Carry(t, Encode(IF Resolvable(fun[t]) THEN "address" ELSE "sentinel",
                     cookie))
  /\ Goto(t, "storeSlot")
  /\ UNCHANGED <<shared, fun, outer, todo, nested, ret>>

(* try_get_module returned nullptr: encode invalid_function_sentinel().    *)
NoModule(t) ==
  /\ pc[t] = "noModule"
  /\ Carry(t, Encode("sentinel", cookie))
  /\ Goto(t, "storeSlot")
  /\ UNCHANGED <<shared, fun, outer, todo, nested, ret>>

StoreSlot(t) ==
  /\ pc[t] = "storeSlot"
  /\ slot' = [slot EXCEPT ![fun[t]] = reg[t]]
  /\ ReturnPointer(t, IF reg[t].val = "sentinel" THEN "null" ELSE reg[t].val)
  /\ UNCHANGED <<status, cookie, cache, refs, crt, atExit, mapped, image, leftWait,
                 fun, outer, todo, nested>>
-----------------------------------------------------------------------------
(* try_get_module                                                          *)

Mod(t) == ModuleOf[fun[t]]

ReadModule(t) ==
  /\ pc[t] = "readModule"
  /\ Goto(t, CASE cache[Mod(t)] = "null"    -> "loadModule"
               [] cache[Mod(t)] = "invalid" -> "noModule"
               [] OTHER                     -> "getProc")
  /\ UNCHANGED <<shared, fun, outer, todo, nested, reg, ret>>

(* GetModuleHandleW takes no reference; LoadLibraryExW and LdrLoadDll do.   *)
LoadModule(t) ==
  /\ pc[t] = "loadModule"
  /\ Mod(t) \in Present
  /\ refs' = [refs EXCEPT ![Mod(t)] = IF Mod(t) \in Pinned THEN @ ELSE @ + 1]
  /\ Goto(t, "cacheModule")
  /\ UNCHANGED <<status, cookie, slot, cache, crt, atExit, mapped, image, leftWait,
                 fun, outer, todo, nested, reg, ret>>

LoadFails(t) ==
  /\ pc[t] = "loadModule"
  /\ Mod(t) \notin Present \/ (TransientFailure /\ Mod(t) \notin Pinned)
  /\ Goto(t, "cacheFailure")
  /\ UNCHANGED <<shared, fun, outer, todo, nested, reg, ret>>

CacheFailure(t) ==
  /\ pc[t] = "cacheFailure"
  /\ cache' = [cache EXCEPT ![Mod(t)] = "invalid"]
  /\ Goto(t, "noModule")
  /\ UNCHANGED <<status, cookie, slot, refs, crt, atExit, mapped, image, leftWait,
                 fun, outer, todo, nested, reg, ret>>

(* Mutants: the loser of the race keeps its reference; the winner releases *)
(* its reference too.                                                      *)
CacheModule_Leak(t) ==
  /\ pc[t] = "cacheModule"
  /\ cache' = [cache EXCEPT ![Mod(t)] = "handle"]
  /\ Goto(t, "getProc")
  /\ UNCHANGED <<status, cookie, slot, refs, crt, atExit, mapped, image, leftWait,
                 fun, outer, todo, nested, reg, ret>>

CacheModule_AlwaysFree(t) ==
  /\ pc[t] = "cacheModule"
  /\ cache' = [cache EXCEPT ![Mod(t)] = "handle"]
  /\ Goto(t, "freeExtra")
  /\ UNCHANGED <<status, cookie, slot, refs, crt, atExit, mapped, image, leftWait,
                 fun, outer, todo, nested, reg, ret>>

CacheModule(t) ==
  /\ pc[t] = "cacheModule"
  /\ cache' = [cache EXCEPT ![Mod(t)] = "handle"]
  /\ Goto(t, IF cache[Mod(t)] = "null" THEN "getProc" ELSE "freeExtra")
  /\ UNCHANGED <<status, cookie, slot, refs, crt, atExit, mapped, image, leftWait,
                 fun, outer, todo, nested, reg, ret>>

(* FreeLibrary: a pinned module ignores it, and it never goes below zero.   *)
Freed(m) == IF m \in Pinned \/ refs[m] = 0 THEN refs[m] ELSE refs[m] - 1

(* Mutant: the loser of the race gives its handle back and answers nullptr. *)
FreeExtra_AnswersNull(t) ==
  /\ pc[t] = "freeExtra"
  /\ refs' = [refs EXCEPT ![Mod(t)] = Freed(Mod(t))]
  /\ Goto(t, "noModule")
  /\ UNCHANGED <<status, cookie, slot, cache, crt, atExit, mapped, image, leftWait,
                 fun, outer, todo, nested, reg, ret>>

FreeExtra(t) ==
  /\ pc[t] = "freeExtra"
  /\ refs' = [refs EXCEPT ![Mod(t)] = Freed(Mod(t))]
  /\ Goto(t, "getProc")
  /\ UNCHANGED <<status, cookie, slot, cache, crt, atExit, mapped, image, leftWait,
                 fun, outer, todo, nested, reg, ret>>
-----------------------------------------------------------------------------
(* The host image ends once no thread runs in it: atexit, or the .CRT$XTY  *)
(* terminator of a static CRT, runs __YY_uninitialize_winapi_thunks, which *)
(* does nothing while the process terminates.                              *)
Unload ==
  /\ mapped
  /\ crt = "done"
  /\ \A t \in Threads : pc[t] = "idle"
  /\ mapped' = FALSE
  /\ IF atExit \/ image = "static"
     THEN /\ status' = "Uninitialized"
          /\ \E terminating \in BOOLEAN :
               IF status \in Initialized /\ ~terminating
               THEN /\ refs' = [m \in Modules |->
                                  IF cache[m] = "handle" THEN Freed(m) ELSE refs[m]]
                    /\ cache' = [m \in Modules |-> "null"]
               ELSE UNCHANGED <<refs, cache>>
     ELSE UNCHANGED <<status, refs, cache>>
  /\ UNCHANGED <<cookie, slot, crt, atExit, image, leftWait, local>>

Unmapped == ~mapped /\ UNCHANGED vars

Step(t) ==
  \/ CheckSlot(t) \/ ReadSlot(t) \/ DecodeSlot(t) \/ GetProc(t) \/ NoModule(t)
  \/ StoreSlot(t)
  \/ ReadModule(t) \/ LoadModule(t) \/ LoadFails(t) \/ CacheFailure(t)
  \/ CacheModule(t) \/ FreeExtra(t)
  \/ InitClaim(t) \/ InitBusy(t) \/ InitAlreadyDone(t) \/ InitSpin(t)
  \/ SetCookie(t) \/ FillSlot(t) \/ Publish(t) \/ PreloadNext(t) \/ PreloadDone(t)

Next ==
  \/ \E t \in Threads : Step(t)
  \/ \E t \in Threads, f \in Funs : Call(t, f)
  \/ RunCrtInitializer
  \/ Unload
  \/ Unmapped

Spec == Init /\ [][Next]_vars

(* Windows keeps scheduling a thread that is not blocked.                  *)
FairSpec == Spec /\ (\A t \in Threads : WF_vars(Step(t))) /\ WF_vars(RunCrtInitializer)
-----------------------------------------------------------------------------
Labels == {"idle", "checkSlot", "initCas", "spin", "setCookie", "fill",
           "preload", "readSlot", "decodeSlot", "readModule", "loadModule",
           "cacheFailure", "noModule", "cacheModule", "freeExtra", "getProc",
           "storeSlot"}

(* Labels at which a thread is looking a function up.                      *)
Lookup == {"readSlot", "decodeSlot", "readModule", "loadModule",
           "cacheFailure", "noModule", "cacheModule", "freeExtra", "getProc",
           "storeSlot"}

(* Every variable keeps its type: in particular a cached handle is null,   *)
(* INVALID_HANDLE_VALUE or a module (try_get_module), and a reference      *)
(* count never goes below zero.                                            *)
TypeOK ==
  /\ status \in Statuses
  /\ cookie \in {0, 1}
  /\ slot \in [Funs -> Words]
  /\ cache \in [Modules -> {"null", "invalid", "handle"}]
  /\ refs \in [Modules -> Nat]
  /\ crt \in {"pending", "running", "done"}
  /\ atExit \in BOOLEAN
  /\ mapped \in BOOLEAN
  /\ image \in Images
  /\ leftWait \in BOOLEAN
  /\ pc \in [Threads -> Labels]
  /\ fun \in [Threads -> Funs \cup {NoFun}]
  /\ outer \in [Threads -> Funs \cup {NoFun}]
  /\ todo \in [Threads -> SUBSET Funs]
  /\ nested \in [Threads -> BOOLEAN]
  /\ reg \in [Threads -> Words]
  /\ ret \in [Threads -> [fn : Funs \cup {NoFun}, ptr : Pointers]]

(* What a slot holds once the function has been looked up.                 *)
SlotAnswer(f) == IF Resolvable(f) THEN "address" ELSE "sentinel"

(* As long as no thread has left its wait: nothing is encoded before the   *)
(* cookie is drawn, a slot is filled once, every slot is filled when the   *)
(* status is published, and whoever is past the check of try_get_function  *)
(* looks at a filled slot, whether or not the status is published.         *)
StartInv ==
  /\ \A f \in Funs : slot[f] = RawNull \/ (slot[f].key = 1 /\ cookie = 1)
  /\ status = "None" => cookie = 0
  /\ status \in Initialized => cookie = 1 /\ \A f \in Funs : slot[f].key = 1
  /\ status = "Uninitialized" => ~mapped
  /\ ~mapped => crt = "done" /\ \A t \in Threads : pc[t] = "idle"
  /\ \A t \in Threads :
       /\ pc[t] = "setCookie" => cookie = 0
       /\ pc[t] = "fill" =>
            cookie = 1 /\ \A f \in Funs : slot[f] = RawNull <=> f \in todo[t]
       /\ pc[t] \in Lookup => slot[fun[t]].key = 1
       /\ pc[t] = "storeSlot" => reg[t].key = 1
       /\ pc[t] = "preload" \/ nested[t] =>
            /\ status \in Initialized
            /\ pc[t] \in Lookup \cup {"preload", "checkSlot"}

(* What the caches and the threads' registers say of this Windows version. *)
AnswerInv ==
  /\ \A f \in Funs : slot[f].key = 1 => slot[f].val \in {"null", SlotAnswer(f)}
  /\ \A m \in Modules :
       /\ cache[m] = "invalid" => m \notin Present
       /\ cache[m] = "handle" => m \in Present
  /\ \A t \in Threads :
       /\ pc[t] = "decodeSlot" =>
            reg[t].key = 1 /\ reg[t].val \in {"null", SlotAnswer(fun[t])}
       /\ pc[t] = "storeSlot" => reg[t] = Encode(SlotAnswer(fun[t]), 1)
       /\ pc[t] \in {"noModule", "cacheFailure"} => Mod(t) \notin Present
       /\ pc[t] \in {"cacheModule", "freeExtra", "getProc"} => Mod(t) \in Present

(* However many threads call thunks before, during and after the           *)
(* initialisation, and however the lookups, the filling of the slots and   *)
(* the preload interleave, a lookup returns exactly what this Windows      *)
(* version answers for the function, never a half-initialised or wrongly   *)
(* decoded pointer, unless a thread left the wait of YY_Thunks.h:723-727,  *)
(* which lets it go on before the initialisation is over.                  *)
LookupCorrect ==
  ~leftWait =>
    \A t \in Threads : ret[t].fn # NoFun => ret[t].ptr = Answer(ret[t].fn)

(* The one-time initialisation is exclusive, and s_eThunksStatus says Wait *)
(* exactly as long as a thread is drawing the cookie or filling slots.     *)
Initializing(t) == pc[t] \in {"setCookie", "fill"}

InitExclusive ==
  /\ \A t, u \in Threads : Initializing(t) /\ Initializing(u) => t = u
  /\ (status = "Wait") <=> (\E t \in Threads : Initializing(t))

(* A thread that passed the initialisation check of try_get_function works *)
(* on a slot that has been initialised ("initialisation has completed").   *)
InitBeforeLookup ==
  \A t \in Threads : pc[t] \in Lookup => slot[fun[t]] # RawNull

(* The component holds exactly one reference to every module it caches,    *)
(* plus one per thread that loaded the module and has not yet cached it or *)
(* given it back: loading the same module twice neither leaks a reference  *)
(* nor gives the cached one away.                                          *)
Carriers(m) ==
  {t \in Threads : pc[t] \in {"cacheModule", "freeExtra"} /\ Mod(t) = m}

ModuleRefsBalanced ==
  \A m \in Modules \ Pinned :
    refs[m] = Cardinality(Carriers(m)) + (IF cache[m] = "handle" THEN 1 ELSE 0)

(* GetProcAddress is only asked about a module that is still loaded.       *)
ModuleLoadedWhenUsed ==
  \A t \in Threads :
    pc[t] = "getProc" => Mod(t) \in Pinned \/ refs[Mod(t)] > 0

(* The _ASSERTEs of try_get_function: once a slot holds an answer, whoever *)
(* writes it again, however late (another lookup of the same function, a   *)
(* preload, the loop that fills the slots), stores the same answer, with   *)
(* the same exception as LookupCorrect.                                    *)
AnswerIsFinal ==
  [][~leftWait =>
       \A f \in Funs :
         Decode(slot[f], cookie) \in {"address", "sentinel"}
           => slot'[f] = slot[f]]_slot

(* A thread that waits for another one's initialisation goes on one day:   *)
(* the status is published before the modules are loaded so that "other    *)
(* threads" do not "wait for too long" (YY_Thunks.h:702).                  *)
InitWaitEnds == \A t \in Threads : pc[t] = "spin" ~> pc[t] # "spin"
=============================================================================
