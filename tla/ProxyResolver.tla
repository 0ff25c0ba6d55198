--------------------------- MODULE ProxyResolver ----------------------------
(***************************************************************************)
(* The proxy resolver of WinHttp.hpp before Windows 8: a handle on which   *)
(* WinHttpGetProxyForUrlEx starts requests that run in the thread pool.  A *)
(* request that succeeds leaves itself in the resolver as its result,      *)
(* calls back, and WinHttpGetProxyResult reads whatever result is there.   *)
(* The handle may be closed at any time; resolver and requests count their *)
(* references.                                                             *)
(*                                                                         *)
(* The caller asks for a result only after a request has completed, from   *)
(* the callback or from a thread of its own ("client").                    *)
(***************************************************************************)
EXTENDS Naturals, FiniteSets

CONSTANTS
  Requests,  \* calls of WinHttpGetProxyForUrlEx; each runs in a pool thread
  Nil        \* the null pointer

VARIABLES
  flags,   \* fNotificationFlags: the outcomes that are called back
  ref,     \* uRef of the resolver
  result,  \* pResult
  rref,    \* uRef of each request
  freed,   \* requests that are freed, and the resolver
  open,    \* has the caller its handle still?
  readers, \* threads that share Lock
  pc,      \* where the request's callback, or the client, is
  ok,      \* requests that found a proxy
  held,    \* the other request a thread has a reference to
  told     \* has a request been called back with its completion?

vars == <<flags, ref, result, rref, freed, open, readers, pc, ok, held, told>>

Client == "client"
Resolver == "resolver"
Callers == Requests \cup {Client}

Init ==
  /\ flags \in SUBSET {"complete", "error"}
  /\ ref = 1 /\ open = TRUE
  /\ result = Nil
  /\ rref = [r \in Requests |-> 0]
  /\ freed = {} /\ readers = {}
  /\ pc = [t \in Callers |-> "out"]
  /\ ok = {} /\ told = FALSE
  /\ held = [t \in Callers |-> Nil]

Goto(t, label) == pc' = [pc EXCEPT ![t] = label]
Hold(t, r) == held' = [held EXCEPT ![t] = r]

-----------------------------------------------------------------------------
(* WinHttpGetProxyForUrlEx                                                 *)

Submit(r) ==
  /\ pc[r] = "out" /\ open
  /\ ref' = ref + 1
  /\ rref' = [rref EXCEPT ![r] = 1]
  /\ Goto(r, "lookUp")
  /\ UNCHANGED <<flags, result, freed, open, readers, ok, held, told>>

(* Both references are given back, and the error is returned.              *)
SubmitFails(r) ==
  /\ pc[r] = "out" /\ open
  /\ freed' = freed \cup {r}
  /\ Goto(r, "done")
  /\ UNCHANGED <<flags, ref, result, rref, open, readers, ok, held, told>>

-----------------------------------------------------------------------------
(* The callback of the pool                                                *)

LookUp(r) ==
  /\ pc[r] = "lookUp"
  /\ \/ /\ ok' = ok \cup {r}
        /\ Goto(r, IF "complete" \in flags THEN "addResult" ELSE "releaseResolver")
     \/ /\ UNCHANGED ok
        /\ Goto(r, IF "error" \in flags THEN "notify" ELSE "releaseResolver")
  /\ UNCHANGED <<flags, ref, result, rref, freed, open, readers, held, told>>

(* SetResult takes its reference before it publishes the request.          *)
AddResult(r) ==
  /\ pc[r] = "addResult"
  /\ rref' = [rref EXCEPT ![r] = @ + 1]
  /\ Goto(r, "setResult")
  /\ UNCHANGED <<flags, ref, result, freed, open, readers, ok, held, told>>

(* Mutant: the lock is not taken.                                          *)
SetResult_NoLock(r) ==
  /\ pc[r] = "setResult"
  /\ result' = r
  /\ Hold(r, result)
  /\ Goto(r, IF result = Nil THEN "notify" ELSE "releaseOld")
  /\ UNCHANGED <<flags, ref, rref, freed, open, readers, ok, told>>

(* Under the exclusive lock; the reference of the result that was there is *)
(* given back outside of it.                                               *)
SetResult(r) ==
  /\ pc[r] = "setResult" /\ readers = {}
  /\ result' = r
  /\ Hold(r, result)
  /\ Goto(r, IF result = Nil THEN "notify" ELSE "releaseOld")
  /\ UNCHANGED <<flags, ref, rref, freed, open, readers, ok, told>>

(* The caller's routine, told the outcome, which may ask for a result.     *)
Notify(r) ==
  /\ pc[r] = "notify"
  /\ told' = (told \/ r \in ok)
  /\ \/ Goto(r, "releaseResolver")
     \/ r \in ok /\ Goto(r, "lockShared")
  /\ UNCHANGED <<flags, ref, result, rref, freed, open, readers, ok, held>>

-----------------------------------------------------------------------------
(* WinHttpGetProxyResult                                                   *)

ClientAsks ==
  /\ pc[Client] = "out" /\ open /\ told
  /\ Goto(Client, "lockShared")
  /\ UNCHANGED <<flags, ref, result, rref, freed, open, readers, ok, held, told>>

LockShared(t) ==
  /\ pc[t] = "lockShared"
  /\ readers' = readers \cup {t}
  /\ Hold(t, result)
  /\ Goto(t, "addShared")
  /\ UNCHANGED <<flags, ref, result, rref, freed, open, ok, told>>

AddShared(t) ==
  /\ pc[t] = "addShared"
  /\ rref' = [rref EXCEPT ![held[t]] = @ + 1]
  /\ Goto(t, "unlockShared")
  /\ UNCHANGED <<flags, ref, result, freed, open, readers, ok, held, told>>

(* From here on the result is used under its reference alone.              *)
UnlockShared(t) ==
  /\ pc[t] = "unlockShared"
  /\ readers' = readers \ {t}
  /\ Goto(t, "release")
  /\ UNCHANGED <<flags, ref, result, rref, freed, open, ok, held, told>>

-----------------------------------------------------------------------------
(* Release                                                                 *)

Drop(r) ==
  /\ rref' = [rref EXCEPT ![r] = @ - 1]
  /\ freed' = IF rref[r] = 1 THEN freed \cup {r} ELSE freed

(* The reference to a result: of the one that was replaced (its successor  *)
(* is still to be announced) or of the one that was asked for.             *)
Release(t) ==
  /\ pc[t] \in {"releaseOld", "release"}
  /\ Drop(held[t]) /\ Hold(t, Nil)
  /\ Goto(t, IF pc[t] = "releaseOld" THEN "notify"
             ELSE IF t = Client THEN "out" ELSE "releaseResolver")
  /\ UNCHANGED <<flags, ref, result, open, readers, ok, told>>

(* WinHttpCloseHandle.                                                     *)
Close ==
  /\ open /\ pc[Client] = "out"
  /\ open' = FALSE
  /\ ref' = ref - 1
  /\ Goto(Client, IF ref = 1 THEN "destroy" ELSE "done")
  /\ UNCHANGED <<flags, result, rref, freed, readers, ok, held, told>>

ReleaseResolver(r) ==
  /\ pc[r] = "releaseResolver"
  /\ ref' = ref - 1
  /\ Goto(r, IF ref = 1 THEN "destroy" ELSE "releaseRequest")
  /\ UNCHANGED <<flags, result, rref, freed, open, readers, ok, held, told>>

(* Mutant: the last result is forgotten.                                   *)
Destroy_KeepsResult(t) ==
  /\ pc[t] = "destroy"
  /\ result' = Nil
  /\ freed' = freed \cup {Resolver}
  /\ Goto(t, IF t = Client THEN "done" ELSE "releaseRequest")
  /\ UNCHANGED <<flags, ref, rref, open, readers, ok, held, told>>

(* Whoever gives the last reference back frees the resolver and releases   *)
(* its result.                                                             *)
Destroy(t) ==
  /\ pc[t] = "destroy"
  /\ result' = Nil
  /\ rref' = IF result = Nil THEN rref ELSE [rref EXCEPT ![result] = @ - 1]
  /\ freed' = freed \cup {Resolver}
                    \cup (IF result # Nil /\ rref[result] = 1 THEN {result} ELSE {})
  /\ Goto(t, IF t = Client THEN "done" ELSE "releaseRequest")
  /\ UNCHANGED <<flags, ref, open, readers, ok, held, told>>

ReleaseRequest(r) ==
  /\ pc[r] = "releaseRequest"
  /\ Drop(r)
  /\ Goto(r, "done")
  /\ UNCHANGED <<flags, ref, result, open, readers, ok, held, told>>

-----------------------------------------------------------------------------
SharedStep(t) ==
  \/ LockShared(t) \/ AddShared(t) \/ UnlockShared(t) \/ Release(t) \/ Destroy(t)

CallbackStep(r) ==
  \/ LookUp(r) \/ AddResult(r) \/ SetResult(r) \/ Notify(r)
  \/ ReleaseResolver(r) \/ ReleaseRequest(r) \/ SharedStep(r)

Next ==
  \/ \E r \in Requests : Submit(r) \/ SubmitFails(r) \/ CallbackStep(r)
  \/ ClientAsks \/ SharedStep(Client)
  \/ Close

(* The pool runs what was submitted to it, and a thread inside goes on.    *)
(* Nobody is obliged to make a request, to ask for a result or to close.   *)
Fairness ==
  /\ \A r \in Requests : WF_vars(CallbackStep(r))
  /\ WF_vars(SharedStep(Client))

Spec == Init /\ [][Next]_vars
FairSpec == Spec /\ Fairness

-----------------------------------------------------------------------------
Inside(t) == pc[t] \notin {"out", "done"}

(* Who owns a reference to the resolver: the handle, and each callback     *)
(* until it gives its own back.                                            *)
UsesResolver(r) == pc[r] \notin {"out", "destroy", "releaseRequest", "done"}

(* Who owns one to a request: its callback, the resolver whose result it   *)
(* is or is about to be, and each thread that holds it as a result.        *)
Holders(r) ==
  {t \in Callers : held[t] = r /\ pc[t] \in {"unlockShared", "releaseOld", "release"}}

Owners(r) ==
  Cardinality(Holders(r)) + (IF Inside(r) THEN 1 ELSE 0)
                          + (IF result = r \/ pc[r] = "setResult" THEN 1 ELSE 0)

(* Nobody uses a resolver or a request that is freed, the counts are the   *)
(* numbers of those who do, and who asks for a result gets one that was    *)
(* found.                                                                  *)
RefsOutliveUse ==
  /\ Resolver \notin freed =>
       ref = Cardinality({r \in Requests : UsesResolver(r)}) + (IF open THEN 1 ELSE 0)
  /\ Resolver \in freed =>
       \A t \in Callers : pc[t] \in {"out", "releaseRequest", "done"}
  /\ \A r \in Requests : pc[r] # "out" =>
       rref[r] = Owners(r) /\ (r \in freed <=> rref[r] = 0)
  /\ \A t \in Callers : pc[t] = "addShared" => held[t] \in ok \ freed

(* Once the handle is closed, the resolver and all its requests are freed. *)
ClosedIsFreed ==
  ~open ~> (Resolver \in freed /\ \A r \in Requests : pc[r] = "out" \/ r \in freed)
=============================================================================
