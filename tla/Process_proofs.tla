--------------------------- MODULE Process_proofs ---------------------------
(***************************************************************************)
(* Theorems about the components of Process, for any number of threads,    *)
(* copies and requests.  First the shared data: the handles and views of   *)
(* the section are balanced, and it lives on once a thread has marked it;  *)
(* the invariant counts owners, so that each step that opens, closes, maps *)
(* or unmaps is one of Cardinality.  Then what AddrInfoQuery_proofs proves *)
(* of a lookup holds of those of the process: their instances make the     *)
(* same steps.  Then the references of proxy resolvers, and those of the   *)
(* thread pool and its work objects.  Last, the pool's queue loses nothing *)
(* and keeps the order.                                                    *)
(***************************************************************************)
EXTENDS Process, Integers, Sequences, FiniteSetTheorems, TLAPS

-----------------------------------------------------------------------------
(* The shared data.                                                        *)

(* A thread has a view exactly from the map to the compare-exchange, or to *)
(* the unmap if it comes second.                                           *)
DataInv ==
  \A t \in Threads :
    /\ pc[t] \in {"out", "map"} => data[t] = Nil
    /\ pc[t] \in {"keep", "unmap"} => data[t] = "section"

SharedInv == TypeOK /\ DataInv /\ HandlesAndViewsBalanced

LEMMA OwnersFinite ==
  /\ IsFiniteSet(HandleOwners) /\ IsFiniteSet(ViewCopies) /\ IsFiniteSet(ViewThreads)
  /\ Cardinality(HandleOwners) \in Nat
  /\ Cardinality(ViewCopies) \in Nat
  /\ Cardinality(ViewThreads) \in Nat
<1>1. /\ HandleOwners \in SUBSET Threads
      /\ ViewCopies \in SUBSET Copies
      /\ ViewThreads \in SUBSET Threads
  BY DEF HandleOwners, ViewCopies, ViewThreads
<1>2. IsFiniteSet(HandleOwners) /\ IsFiniteSet(ViewCopies) /\ IsFiniteSet(ViewThreads)
  BY <1>1, SharedAssumption, FS_Subset
<1>3. QED
  BY <1>2, FS_CardinalityType

LEMMA OneMore ==
  ASSUME NEW S, IsFiniteSet(S), NEW x, x \notin S, NEW T, T = S \cup {x}
  PROVE  Cardinality(T) = Cardinality(S) + 1
BY FS_AddElement

LEMMA OneLess ==
  ASSUME NEW S, IsFiniteSet(S), NEW x, x \in S, NEW T, T = S \ {x}
  PROVE  Cardinality(T) = Cardinality(S) - 1 /\ Cardinality(S) # 0
<1>1. S # {}
  OBVIOUS
<1>2. QED
  BY <1>1, FS_RemoveElement, FS_EmptySet

LEMMA SharedInit == Init => SharedInv
<1> SUFFICES ASSUME Init PROVE SharedInv
  OBVIOUS
<1>1. (CHOOSE c \in Copies : TRUE) \in Copies
  BY SharedAssumption
<1>2. TypeOK
  BY <1>1 DEF Init, TypeOK, Labels, Data
<1>3. DataInv
  BY SharedAssumption DEF Init, DataInv
<1>4. HandleOwners = {} /\ ViewCopies = {} /\ ViewThreads = {}
  BY SharedAssumption DEF Init, HandleOwners, ViewCopies, ViewThreads
<1>5. HandlesAndViewsBalanced
  BY <1>4, FS_EmptySet DEF Init, HandlesAndViewsBalanced
<1>6. QED
  BY <1>2, <1>3, <1>5 DEF SharedInv

(* The types and the ownership of views follow from each action alone.     *)
LEMMA SharedTypes ==
  ASSUME TypeOK, DataInv, HandlesAndViewsBalanced, Next,
         handles' \in Nat, views' \in Nat
  PROVE  TypeOK' /\ DataInv'
<1> USE SharedAssumption DEF TypeOK, DataInv, Labels, Data, Goto, section
<1>1. ASSUME NEW t \in Threads, NEW c \in Copies, CreateSection(t, c)
      PROVE  TypeOK' /\ DataInv'
  BY <1>1 DEF CreateSection
<1>2. ASSUME NEW t \in Threads, NEW c \in Copies, CreateFails(t, c)
      PROVE  TypeOK' /\ DataInv'
  BY <1>2 DEF CreateFails
<1>3. ASSUME NEW t \in Threads, Map(t) PROVE TypeOK' /\ DataInv'
  BY <1>3 DEF Map
<1>4. ASSUME NEW t \in Threads, MapFails(t) PROVE TypeOK' /\ DataInv'
  BY <1>4 DEF MapFails
<1>5. ASSUME NEW t \in Threads, Keep(t) PROVE TypeOK' /\ DataInv'
  BY <1>5 DEF Keep
<1>6. ASSUME NEW t \in Threads, CloseHandle(t) PROVE TypeOK' /\ DataInv'
  BY <1>6 DEF CloseHandle
<1>7. ASSUME NEW t \in Threads, Publish(t) PROVE TypeOK' /\ DataInv'
  BY <1>7 DEF Publish
<1>8. ASSUME NEW t \in Threads, UnmapViewOfFile(t) PROVE TypeOK' /\ DataInv'
  BY <1>8 DEF UnmapViewOfFile
<1>9. ASSUME NEW c \in Copies, Unload(c) PROVE TypeOK' /\ DataInv'
  BY <1>9 DEF Unload
<1>10. QED
  BY <1>1, <1>2, <1>3, <1>4, <1>5, <1>6, <1>7, <1>8, <1>9 DEF Next, Call, Step

(* Who owns what after each action, and what that does to the counts.      *)
LEMMA SharedBalance ==
  ASSUME TypeOK, DataInv, HandlesAndViewsBalanced, Next
  PROVE  HandlesAndViewsBalanced' /\ handles' \in Nat /\ views' \in Nat
<1> DEFINE H == HandleOwners
           C == ViewCopies
           V == ViewThreads
           Goal == HandlesAndViewsBalanced' /\ handles' \in Nat /\ views' \in Nat
<1> USE SharedAssumption DEF TypeOK, Labels, Data, Goto, section
<1>a. /\ IsFiniteSet(H) /\ IsFiniteSet(C) /\ IsFiniteSet(V)
      /\ Cardinality(H) \in Nat /\ Cardinality(C) \in Nat /\ Cardinality(V) \in Nat
  BY OwnersFinite
<1>b. /\ handles = Cardinality(H) + (IF flag THEN 1 ELSE 0)
      /\ views = Cardinality(C) + Cardinality(V)
  BY DEF HandlesAndViewsBalanced
<1>c. flag => Exists
  BY <1>a, <1>b DEF Exists
<1>1. ASSUME NEW t \in Threads, NEW c \in Copies, CreateSection(t, c) PROVE Goal
  <2>1. t \notin H /\ H' = H \cup {t}
    BY <1>1 DEF CreateSection, HandleOwners
  <2>2. C' = C /\ V' = V
    BY <1>1 DEF CreateSection, ViewCopies, ViewThreads
  <2>3. handles' = handles + 1 /\ views' = views /\ flag' = flag
    BY <1>1, <1>c DEF CreateSection
  <2>4. Cardinality(H') = Cardinality(H) + 1
    BY <2>1, <1>a, OneMore
  <2>5. QED
    BY <2>2, <2>3, <2>4, <1>a, <1>b DEF HandlesAndViewsBalanced
<1>2. ASSUME NEW t \in Threads, NEW c \in Copies, CreateFails(t, c) PROVE Goal
  <2>1. H' = H
    BY <1>2 DEF CreateFails, HandleOwners
  <2>2. C' = C
    BY <1>2 DEF CreateFails, ViewCopies
  <2>3. V' = V
    BY <1>2 DEF CreateFails, ViewThreads, DataInv
  <2>4. UNCHANGED <<handles, views, flag>>
    BY <1>2 DEF CreateFails
  <2>5. QED
    BY <2>1, <2>2, <2>3, <2>4 DEF HandlesAndViewsBalanced
<1>3. ASSUME NEW t \in Threads, Map(t) PROVE Goal
  <2>1. H' = H /\ C' = C
    BY <1>3 DEF Map, HandleOwners, ViewCopies
  <2>2. t \notin V /\ V' = V \cup {t}
    BY <1>3 DEF Map, ViewThreads, DataInv
  <2>3. handles' = handles /\ views' = views + 1 /\ flag' = flag
    BY <1>3 DEF Map
  <2>4. Cardinality(V') = Cardinality(V) + 1
    BY <2>2, <1>a, OneMore
  <2>5. QED
    BY <2>1, <2>3, <2>4, <1>a, <1>b DEF HandlesAndViewsBalanced
<1>4. ASSUME NEW t \in Threads, MapFails(t) PROVE Goal
  <2>1. H' = H /\ C' = C
    BY <1>4 DEF MapFails, HandleOwners, ViewCopies
  <2>2. V' = V
    BY <1>4 DEF MapFails, ViewThreads, DataInv
  <2>3. UNCHANGED <<handles, views, flag>>
    BY <1>4 DEF MapFails
  <2>4. QED
    BY <2>1, <2>2, <2>3 DEF HandlesAndViewsBalanced
<1>5. ASSUME NEW t \in Threads, Keep(t) PROVE Goal
  <2>1. C' = C /\ V' = V
    BY <1>5 DEF Keep, ViewCopies, ViewThreads
  <2>2. handles' = handles /\ views' = views /\ flag'
    BY <1>5 DEF Keep
  <2>3. CASE flag
    <3>1. H' = H
      BY <1>5, <2>3 DEF Keep, HandleOwners
    <3>2. QED
      BY <2>1, <2>2, <2>3, <3>1, <1>a, <1>b DEF HandlesAndViewsBalanced
  <2>4. CASE ~flag
    <3>1. t \in H /\ H' = H \ {t}
      BY <1>5, <2>4 DEF Keep, HandleOwners
    <3>2. Cardinality(H') = Cardinality(H) - 1
      BY <3>1, <1>a, OneLess
    <3>3. QED
      BY <2>1, <2>2, <2>4, <3>2, <1>a, <1>b DEF HandlesAndViewsBalanced
  <2>5. QED
    BY <2>3, <2>4
<1>6. ASSUME NEW t \in Threads, CloseHandle(t) PROVE Goal
  <2>1. t \in H /\ H' = H \ {t}
    BY <1>6 DEF CloseHandle, HandleOwners
  <2>2. C' = C /\ V' = V
    BY <1>6 DEF CloseHandle, ViewCopies, ViewThreads
  <2>3. handles' = handles - 1 /\ views' = views /\ flag' = flag
    BY <1>6 DEF CloseHandle
  <2>4. Cardinality(H') = Cardinality(H) - 1 /\ Cardinality(H) # 0
    BY <2>1, <1>a, OneLess
  <2>5. QED
    BY <2>2, <2>3, <2>4, <1>a, <1>b DEF HandlesAndViewsBalanced
<1>7. ASSUME NEW t \in Threads, Publish(t) PROVE Goal
  <2>1. H' = H
    BY <1>7 DEF Publish, HandleOwners
  <2>2. UNCHANGED <<handles, views, flag>>
    BY <1>7 DEF Publish
  <2>3. CASE ptr[copy[t]] = Nil /\ data[t] = "section"
    <3>1. copy[t] \notin C /\ C' = C \cup {copy[t]}
      BY <1>7, <2>3 DEF Publish, ViewCopies
    <3>2. t \in V /\ V' = V \ {t}
      BY <1>7, <2>3 DEF Publish, ViewThreads
    <3>3. Cardinality(C') = Cardinality(C) + 1
      BY <3>1, <1>a, OneMore
    <3>4. Cardinality(V') = Cardinality(V) - 1
      BY <3>2, <1>a, OneLess
    <3>5. QED
      BY <2>1, <2>2, <3>3, <3>4, <1>a, <1>b DEF HandlesAndViewsBalanced
  <2>4. CASE ~(ptr[copy[t]] = Nil /\ data[t] = "section")
    <3>1. C' = C
      BY <1>7, <2>4 DEF Publish, ViewCopies
    <3>2. V' = V
      BY <1>7, <2>4 DEF Publish, ViewThreads
    <3>3. QED
      BY <2>1, <2>2, <3>1, <3>2 DEF HandlesAndViewsBalanced
  <2>5. QED
    BY <2>3, <2>4
<1>8. ASSUME NEW t \in Threads, UnmapViewOfFile(t) PROVE Goal
  <2>1. H' = H /\ C' = C
    BY <1>8 DEF UnmapViewOfFile, HandleOwners, ViewCopies
  <2>2. t \in V /\ V' = V \ {t}
    BY <1>8 DEF UnmapViewOfFile, ViewThreads, DataInv
  <2>3. handles' = handles /\ views' = views - 1 /\ flag' = flag
    BY <1>8 DEF UnmapViewOfFile
  <2>4. Cardinality(V') = Cardinality(V) - 1 /\ Cardinality(V) # 0
    BY <2>2, <1>a, OneLess
  <2>5. QED
    BY <2>1, <2>3, <2>4, <1>a, <1>b DEF HandlesAndViewsBalanced
<1>9. ASSUME NEW c \in Copies, Unload(c) PROVE Goal
  <2>1. H' = H /\ V' = V /\ handles' = handles /\ flag' = flag
    BY <1>9 DEF Unload, HandleOwners, ViewThreads
  <2>2. CASE ptr[c] = "section"
    <3>1. c \in C /\ C' = C \ {c}
      BY <1>9, <2>2 DEF Unload, ViewCopies
    <3>2. Cardinality(C') = Cardinality(C) - 1 /\ Cardinality(C) # 0
      BY <3>1, <1>a, OneLess
    <3>3. views' = views - 1
      BY <1>9, <2>2 DEF Unload
    <3>4. QED
      BY <2>1, <3>2, <3>3, <1>a, <1>b DEF HandlesAndViewsBalanced
  <2>3. CASE ptr[c] # "section"
    <3>1. C' = C /\ views' = views
      BY <1>9, <2>3 DEF Unload, ViewCopies
    <3>2. QED
      BY <2>1, <3>1, <1>a, <1>b DEF HandlesAndViewsBalanced
  <2>4. QED
    BY <2>2, <2>3
<1>10. QED
  BY <1>1, <1>2, <1>3, <1>4, <1>5, <1>6, <1>7, <1>8, <1>9 DEF Next, Call, Step

LEMMA SharedStep == SharedInv /\ [Next]_vars => SharedInv'
<1> SUFFICES ASSUME SharedInv, [Next]_vars PROVE SharedInv'
  OBVIOUS
<1>1. CASE Next
  BY <1>1, SharedTypes, SharedBalance DEF SharedInv
<1>2. CASE UNCHANGED vars
  <2>1. TypeOK' /\ DataInv'
    BY <1>2 DEF SharedInv, TypeOK, DataInv, vars, section
  <2>2. HandleOwners' = HandleOwners /\ ViewCopies' = ViewCopies /\ ViewThreads' = ViewThreads
    BY <1>2 DEF HandleOwners, ViewCopies, ViewThreads, vars
  <2>3. HandlesAndViewsBalanced'
    BY <1>2, <2>2 DEF SharedInv, HandlesAndViewsBalanced, vars, section
  <2>4. QED
    BY <2>1, <2>3 DEF SharedInv
<1>3. QED
  BY <1>1, <1>2

THEOREM SharedInvariance == Spec => []SharedInv
BY SharedInit, SharedStep, PTL DEF Spec

(* The types, and who has a view when.                                     *)
THEOREM SharedTypeCorrect == Spec => []TypeOK
BY SharedInvariance, PTL DEF SharedInv

(* However many copies and threads race for the section, and whatever      *)
(* fails: one handle stays open once the section is marked, and every view *)
(* but the ones in use is unmapped.                                        *)
THEOREM SectionBalanced == Spec => []HandlesAndViewsBalanced
BY SharedInvariance, PTL DEF SharedInv

(* A marked section has a handle nobody will close, so that whoever        *)
(* creates it again opens it.                                              *)
LEMMA KeptStep == SharedInv /\ [Next]_vars => [flag => gen' = gen /\ flag']_vars
<1> SUFFICES ASSUME SharedInv, Next, flag PROVE gen' = gen /\ flag'
  OBVIOUS
<1>1. Exists
  <2>1. Cardinality(HandleOwners) \in Nat
    BY OwnersFinite
  <2>2. handles = Cardinality(HandleOwners) + 1
    BY DEF SharedInv, HandlesAndViewsBalanced
  <2>3. QED
    BY <2>1, <2>2 DEF Exists
<1>2. ASSUME NEW t \in Threads, NEW c \in Copies, CreateSection(t, c) \/ CreateFails(t, c)
      PROVE  gen' = gen /\ flag'
  BY <1>1, <1>2 DEF CreateSection, CreateFails, section
<1>3. ASSUME NEW t \in Threads, Step(t) PROVE gen' = gen /\ flag'
  BY <1>3 DEF Step, Map, MapFails, Keep, CloseHandle, Publish, UnmapViewOfFile, section
<1>4. ASSUME NEW c \in Copies, Unload(c) PROVE gen' = gen /\ flag'
  BY <1>4 DEF Unload
<1>5. QED
  BY <1>2, <1>3, <1>4 DEF Next, Call

(* The shared data live as long as the process: no step of any number of   *)
(* copies destroys a section in use, or makes a second one.                *)
THEOREM DataLiveOn == Spec => DataKept
BY SharedInvariance, KeptStep, PTL DEF Spec, DataKept
-----------------------------------------------------------------------------
(* Name lookups.                                                           *)

AP == INSTANCE AddrInfoQuery_proofs WITH
  wants <- aWants, handle <- aHandle, ref <- aRef, freed <- aFreed,
  lock <- aLock, completed <- aCompleted, caller <- aCaller, pc <- aPc,
  status <- aStatus, lookedUp <- aLookedUp, reports <- aReports, late <- aLate

(* A lookup of the process is one of AddrInfoQuery_proofs.                 *)
LEMMA LookupIsLookup == A!Spec => AP!Init /\ [][AP!Next]_AP!vars
<1>1. A!Init => AP!Init
  BY DEF A!Init, AP!Init, A!Callers, AP!Callers, A!Worker, AP!Worker
<1>2. [A!Next]_A!vars => [AP!Next]_AP!vars
  BY DEF A!Next, AP!Next, A!vars, AP!vars, A!Submit, AP!Submit, A!SubmitFails,
     AP!SubmitFails, A!StoreHandle, AP!StoreHandle, A!CallbackStep,
     AP!CallbackStep, A!CancelRead, AP!CancelRead, A!CancellerStep,
     AP!CancellerStep, A!block, AP!block, A!Goto, AP!Goto, A!Worker,
     AP!Worker, A!TakeLock, AP!TakeLock, A!ExchangeHandle, AP!ExchangeHandle,
     A!UnlockUpdate, AP!UnlockUpdate, A!LookUp, AP!LookUp, A!SharedStep,
     AP!SharedStep, A!Carry, AP!Carry, A!CancelExchange, AP!CancelExchange,
     A!SignalCompleted, AP!SignalCompleted, A!LockHandle, AP!LockHandle,
     A!WriteHandle, AP!WriteHandle, A!UnlockHandle, AP!UnlockHandle, A!Report,
     AP!Report, A!Release, AP!Release
<1>. QED  BY <1>1, <1>2, PTL DEF A!Spec

(* The parameter block of a lookup is freed by its last owner and never    *)
(* while the callback or a canceller is inside.                            *)
THEOREM LookupBlockOutlivesUse == A!Spec => []BlockOutlivesUse
<1>1. AP!IsFiniteSet(Cancellers) /\ AP!Worker \notin Cancellers
  BY LookupAssumption DEF AP!IsFiniteSet, IsFiniteSet, AP!Worker
<1>2. AP!Spec => []AP!BlockOutlivesUse
  BY <1>1, AP!BlockOutlivesItsUsers
<1>3. AP!BlockOutlivesUse => BlockOutlivesUse
  BY DEF BlockOutlivesUse, A!BlockOutlivesUse, AP!BlockOutlivesUse, A!Users,
     AP!Users, A!HandleOwns, AP!HandleOwns, A!Callers, AP!Callers, A!block,
     AP!block, A!Worker, AP!Worker, A!Cardinality, AP!Cardinality
<1>. QED  BY <1>2, <1>3, LookupIsLookup, PTL DEF AP!Spec

(* A lookup is reported once, and when GetAddrInfoExCancel has returned    *)
(* success for a handle stored in time it is reported as cancelled.        *)
THEOREM LookupCancelIsReported == A!Spec => []CancelIsReported
<1>1. AP!IsFiniteSet(Cancellers) /\ AP!Worker \notin Cancellers
  BY LookupAssumption DEF AP!IsFiniteSet, IsFiniteSet, AP!Worker
<1>2. AP!Spec => []AP!CancelIsReported
  BY <1>1, AP!SuccessfulCancelIsReported
<1>3. AP!CancelIsReported => CancelIsReported
  BY DEF CancelIsReported, A!CancelIsReported, AP!CancelIsReported,
     A!Cardinality, AP!Cardinality
<1>. QED  BY <1>2, <1>3, LookupIsLookup, PTL DEF AP!Spec

-----------------------------------------------------------------------------
(* Proxy lookups.  The invariant says what the references to the resolver  *)
(* and to each request are references of, and that whoever may ask for a   *)
(* result finds one: the lock keeps the result a reader is about to take a *)
(* reference to, and the resolver's own reference keeps that result.       *)

ProxyLabels == {"out", "lookUp", "addResult", "setResult", "notify", "lockShared", "addShared",
           "unlockShared", "releaseOld", "release", "releaseResolver", "destroy",
           "releaseRequest", "done"}
ProxyClientLabels == {"out", "lockShared", "addShared", "unlockShared", "release", "destroy", "done"}

ProxyTypes ==
  /\ xFlags \subseteq {"complete", "error"}
  /\ xRef \in Int
  /\ xResult \in Requests \cup {Nil}
  /\ xRref \in [Requests -> Int]
  /\ xFreed \subseteq Requests \cup {X!Resolver}
  /\ xOpen \in BOOLEAN /\ xTold \in BOOLEAN
  /\ xReaders \subseteq X!Callers
  /\ xPc \in [X!Callers -> ProxyLabels] /\ xPc[X!Client] \in ProxyClientLabels
  /\ xOk \subseteq Requests
  /\ xHeld \in [X!Callers -> Requests \cup {Nil}]

ResolverUsers == {r \in Requests : X!UsesResolver(r)}

(* The references to the resolver, and the one who gave back the last.     *)
ResolverCounted ==
  /\ xRef = Cardinality(ResolverUsers) + (IF xOpen THEN 1 ELSE 0)
  /\ xOpen <=> xPc[X!Client] \notin {"destroy", "done"}
  /\ \A t \in X!Callers : xPc[t] = "destroy" => xRef = 0 /\ X!Resolver \notin xFreed
  /\ \A t, u \in X!Callers : (xPc[t] = "destroy" /\ xPc[u] = "destroy") => t = u
  /\ X!Resolver \in xFreed => xRef = 0

(* A result is a request that succeeded; it stays while somebody reads it, *)
(* and whoever may ask for it finds one.                                   *)
ResultSound ==
  /\ xResult # Nil => xResult \in xOk
  /\ \A r \in xOk : xPc[r] \notin {"out", "lookUp"}
  /\ \A r \in Requests : xPc[r] \in {"addResult", "setResult"} => r \in xOk /\ xResult # r
  /\ \A t \in X!Callers : xPc[t] \in {"addShared", "unlockShared"} => t \in xReaders
  /\ \A t \in X!Callers : xPc[t] = "addShared" => xHeld[t] = xResult
  /\ \A t \in X!Callers : (xPc[t] \in {"lockShared", "addShared"} /\ t # X!Client) => t \in xOk
  /\ \A t \in X!Callers : xPc[t] = "releaseOld" => t \in xOk
  /\ xPc[X!Client] \notin {"out", "destroy", "done"} => xTold
  /\ (xResult = Nil /\ X!Resolver \notin xFreed) =>
        ~xTold /\ \A r \in xOk : xPc[r] \notin {"notify", "lockShared", "addShared", "releaseOld"}

(* The references to the requests: X!Owners(r).                            *)
OwnersOf(r) ==
  Cardinality(X!Holders(r)) + (IF X!Inside(r) THEN 1 ELSE 0)
                            + (IF xResult = r \/ xPc[r] = "setResult" THEN 1 ELSE 0)

RequestsCounted ==
  /\ \A t \in X!Callers : xPc[t] \in {"unlockShared", "releaseOld", "release"} => xHeld[t] # Nil
  /\ \A r \in Requests : xPc[r] = "out" =>
       xRref[r] = 0 /\ r \notin xFreed /\ xResult # r /\ X!Holders(r) = {}
  /\ \A r \in Requests : xPc[r] # "out" =>
       xRref[r] = OwnersOf(r) /\ (r \in xFreed <=> xRref[r] = 0)

ProxyInv == ProxyTypes /\ ResolverCounted /\ ResultSound /\ RequestsCounted

LEMMA UsersFinite ==
  ASSUME IsFiniteSet(Requests), NEW S \in SUBSET Requests
  PROVE  IsFiniteSet(S) /\ Cardinality(S) \in Nat
BY FS_Subset, FS_CardinalityType

(* While somebody is inside a call that uses the resolver it is there.     *)
LEMMA AliveWhileUsed ==
  ASSUME IsFiniteSet(Requests), ProxyTypes, ResolverCounted, NEW t \in X!Callers,
         xPc[t] \notin {"destroy", "releaseRequest", "done"}, t = X!Client \/ xPc[t] # "out"
  PROVE  xRef > 0 /\ X!Resolver \notin xFreed /\ \A u \in X!Callers : xPc[u] # "destroy"
<1>1. xRef > 0
  <2>1. ResolverUsers \in SUBSET Requests
    BY DEF ResolverUsers
  <2>2. Cardinality(ResolverUsers) \in Nat /\ IsFiniteSet(ResolverUsers)
    BY <2>1, UsersFinite
  <2>3. CASE t = X!Client
    BY <2>2, <2>3 DEF ResolverCounted
  <2>4. CASE t # X!Client
    <3>1. t \in ResolverUsers
      BY <2>4 DEF ResolverUsers, X!UsesResolver, X!Callers
    <3>2. Cardinality(ResolverUsers) # 0
      BY <3>1, <2>2, FS_EmptySet
    <3>. QED  BY <3>2, <2>2 DEF ResolverCounted
  <2>. QED  BY <2>3, <2>4
<1>. QED  BY <1>1 DEF ResolverCounted

LEMMA ProxyTypesStep ==
  ASSUME IsFiniteSet(Requests), Nil \notin Requests,
         X!Client \notin Requests, X!Resolver \notin Requests, ProxyInv, [X!Next]_(X!vars)
  PROVE  ProxyTypes'
<1>. USE DEF ProxyInv, ProxyTypes, RequestsCounted, ProxyLabels, ProxyClientLabels, X!Goto,
    X!Hold,
    X!Drop, X!Callers
<1>1. ASSUME NEW r \in Requests, X!Submit(r) PROVE ProxyTypes'
  BY <1>1 DEF X!Submit
<1>2. ASSUME NEW r \in Requests, X!SubmitFails(r) PROVE ProxyTypes'
  BY <1>2 DEF X!SubmitFails
<1>3. ASSUME NEW r \in Requests, X!LookUp(r) PROVE ProxyTypes'
  BY <1>3 DEF X!LookUp
<1>4. ASSUME NEW r \in Requests, X!AddResult(r) PROVE ProxyTypes'
  BY <1>4 DEF X!AddResult
<1>5. ASSUME NEW r \in Requests, X!SetResult(r) PROVE ProxyTypes'
  BY <1>5 DEF X!SetResult
<1>6. ASSUME NEW r \in Requests, X!Notify(r) PROVE ProxyTypes'
  BY <1>6 DEF X!Notify
<1>7. ASSUME NEW r \in Requests, X!ReleaseResolver(r) PROVE ProxyTypes'
  BY <1>7 DEF X!ReleaseResolver
<1>8. ASSUME NEW r \in Requests, X!ReleaseRequest(r) PROVE ProxyTypes'
  BY <1>8 DEF X!ReleaseRequest
<1>9. CASE X!ClientAsks
  BY <1>9 DEF X!ClientAsks
<1>10. CASE X!Close
  <2>1. xPc' = [xPc EXCEPT ![X!Client] = IF xRef = 1 THEN "destroy" ELSE "done"]
    BY <1>10 DEF X!Close
  <2>2. X!Client \in X!Callers /\ xPc' \in [X!Callers -> ProxyLabels] /\ xPc'[X!Client] \in ProxyClientLabels
    BY <2>1
  <2>3. xRef' \in Int /\ xOpen' = FALSE
             /\ UNCHANGED <<xFlags, xResult, xRref, xFreed, xReaders, xOk, xHeld, xTold>>
    BY <1>10 DEF X!Close
  <2>. QED  BY <2>2, <2>3
<1>11. ASSUME NEW t \in X!Callers, X!LockShared(t) PROVE ProxyTypes'
  BY <1>11 DEF X!LockShared
<1>12. ASSUME NEW t \in X!Callers, X!AddShared(t) PROVE ProxyTypes'
  <2>1. \A x : xRref[x] + 1 \in Int \/ x \notin Requests
    OBVIOUS
  <2>2. xRref' \in [Requests -> Int]
    BY <1>12, <2>1 DEF X!AddShared
  <2>. QED  BY <1>12, <2>2 DEF X!AddShared
<1>13. ASSUME NEW t \in X!Callers, X!UnlockShared(t) PROVE ProxyTypes'
  BY <1>13 DEF X!UnlockShared
<1>14. ASSUME NEW t \in X!Callers, X!Release(t) PROVE ProxyTypes'
  BY <1>14 DEF X!Release
<1>15. ASSUME NEW t \in X!Callers, X!Destroy(t) PROVE ProxyTypes'
  BY <1>15 DEF X!Destroy
<1>16. CASE UNCHANGED X!vars
  BY <1>16 DEF X!vars
<1>. QED  BY <1>1, <1>2, <1>3, <1>4, <1>5, <1>6, <1>7, <1>8, <1>9, <1>10,
    <1>11, <1>12, <1>13, <1>14, <1>15, <1>16 DEF X!Next, X!CallbackStep,
    X!SharedStep, X!Callers

LEMMA ResultStep ==
  ASSUME IsFiniteSet(Requests), Nil \notin Requests,
         X!Client \notin Requests, X!Resolver \notin Requests, ProxyInv, [X!Next]_(X!vars)
  PROVE  ResultSound'
<1>. USE DEF ProxyInv, ProxyTypes, ResultSound, RequestsCounted, ProxyLabels,
    ProxyClientLabels,
    X!Goto, X!Hold, X!Drop, X!Callers
<1>1. ASSUME NEW r \in Requests, X!Submit(r) PROVE ResultSound'
  BY <1>1 DEF X!Submit
<1>2. ASSUME NEW r \in Requests, X!SubmitFails(r) PROVE ResultSound'
  BY <1>2 DEF X!SubmitFails
<1>3. ASSUME NEW r \in Requests, X!LookUp(r) PROVE ResultSound'
  BY <1>3 DEF X!LookUp
<1>4. ASSUME NEW r \in Requests, X!AddResult(r) PROVE ResultSound'
  BY <1>4 DEF X!AddResult
<1>5. ASSUME NEW r \in Requests, X!SetResult(r) PROVE ResultSound'
  BY <1>5 DEF X!SetResult
<1>6. ASSUME NEW r \in Requests, X!Notify(r) PROVE ResultSound'
  BY <1>6 DEF X!Notify
<1>7. ASSUME NEW r \in Requests, X!ReleaseResolver(r) PROVE ResultSound'
  BY <1>7 DEF X!ReleaseResolver
<1>8. ASSUME NEW r \in Requests, X!ReleaseRequest(r) PROVE ResultSound'
  BY <1>8 DEF X!ReleaseRequest
<1>9. CASE X!ClientAsks
  BY <1>9 DEF X!ClientAsks
<1>10. CASE X!Close
  BY <1>10 DEF X!Close
<1>11. ASSUME NEW t \in X!Callers, X!LockShared(t) PROVE ResultSound'
  BY <1>11 DEF X!LockShared
<1>12. ASSUME NEW t \in X!Callers, X!AddShared(t) PROVE ResultSound'
  BY <1>12 DEF X!AddShared
<1>13. ASSUME NEW t \in X!Callers, X!UnlockShared(t) PROVE ResultSound'
  BY <1>13 DEF X!UnlockShared
<1>14. ASSUME NEW t \in X!Callers, X!Release(t) PROVE ResultSound'
  BY <1>14 DEF X!Release
<1>15. ASSUME NEW t \in X!Callers, X!Destroy(t) PROVE ResultSound'
  <2>1. xRef = 0
    BY <1>15 DEF X!Destroy, ResolverCounted
  <2>2. \A u \in X!Callers : xPc[u] \notin {"lockShared", "addShared", "unlockShared"}
    BY <2>1, AliveWhileUsed
  <2>. QED  BY <1>15, <2>2 DEF X!Destroy
<1>16. CASE UNCHANGED X!vars
  BY <1>16 DEF X!vars
<1>. QED  BY <1>1, <1>2, <1>3, <1>4, <1>5, <1>6, <1>7, <1>8, <1>9, <1>10,
    <1>11, <1>12, <1>13, <1>14, <1>15, <1>16 DEF X!Next, X!CallbackStep,
    X!SharedStep, X!Callers

LEMMA ResolverStep ==
  ASSUME IsFiniteSet(Requests), Nil \notin Requests,
         X!Client \notin Requests, X!Resolver \notin Requests, ProxyInv, [X!Next]_(X!vars)
  PROVE  ResolverCounted'
<1>. USE DEF ProxyInv, ProxyTypes, ResolverCounted, ProxyLabels, ProxyClientLabels, X!Goto,
    X!Hold,
    X!Drop, X!Callers
<1>1. ASSUME NEW r \in Requests, X!Submit(r) PROVE ResolverCounted'
  <2>1. ResolverUsers' = ResolverUsers \cup {r} /\ r \notin ResolverUsers
    BY <1>1 DEF X!Submit, ResolverUsers, X!UsesResolver
  <2>2. Cardinality(ResolverUsers') = Cardinality(ResolverUsers) + 1
    BY <2>1, FS_AddElement, UsersFinite DEF ResolverUsers
  <2>3. Cardinality(ResolverUsers) \in Nat
    BY UsersFinite DEF ResolverUsers
  <2>4. xRef > 0
    BY <1>1, <2>3 DEF X!Submit
  <2>. QED  BY <1>1, <2>2, <2>3, <2>4 DEF X!Submit
<1>2. ASSUME NEW r \in Requests, X!SubmitFails(r) PROVE ResolverCounted'
  <2>1. ResolverUsers' = ResolverUsers
    BY <1>2 DEF X!SubmitFails, ResolverUsers, X!UsesResolver
  <2>. QED  BY <1>2, <2>1 DEF X!SubmitFails
<1>3. ASSUME NEW r \in Requests, X!LookUp(r) PROVE ResolverCounted'
  <2>1. ResolverUsers' = ResolverUsers
    BY <1>3 DEF X!LookUp, ResolverUsers, X!UsesResolver
  <2>. QED  BY <1>3, <2>1 DEF X!LookUp
<1>4. ASSUME NEW r \in Requests, X!AddResult(r) PROVE ResolverCounted'
  <2>1. ResolverUsers' = ResolverUsers
    BY <1>4 DEF X!AddResult, ResolverUsers, X!UsesResolver
  <2>. QED  BY <1>4, <2>1 DEF X!AddResult
<1>5. ASSUME NEW r \in Requests, X!SetResult(r) PROVE ResolverCounted'
  <2>1. ResolverUsers' = ResolverUsers
    BY <1>5 DEF X!SetResult, ResolverUsers, X!UsesResolver
  <2>. QED  BY <1>5, <2>1 DEF X!SetResult
<1>6. ASSUME NEW r \in Requests, X!Notify(r) PROVE ResolverCounted'
  <2>1. ResolverUsers' = ResolverUsers
    BY <1>6 DEF X!Notify, ResolverUsers, X!UsesResolver
  <2>. QED  BY <1>6, <2>1 DEF X!Notify
<1>7. ASSUME NEW r \in Requests, X!ReleaseResolver(r) PROVE ResolverCounted'
  <2>1. ResolverUsers' = ResolverUsers \ {r} /\ r \in ResolverUsers
    BY <1>7 DEF X!ReleaseResolver, ResolverUsers, X!UsesResolver
  <2>3. Cardinality(ResolverUsers) \in Nat /\ IsFiniteSet(ResolverUsers)
    BY UsersFinite DEF ResolverUsers
  <2>2. Cardinality(ResolverUsers') = Cardinality(ResolverUsers) - 1
    BY <2>1, <2>3, FS_RemoveElement
  <2>4. xRef > 0 /\ X!Resolver \notin xFreed /\ \A u \in X!Callers : xPc[u] # "destroy"
    BY <1>7, AliveWhileUsed DEF X!ReleaseResolver
  <2>. QED  BY <1>7, <2>2, <2>3, <2>4 DEF X!ReleaseResolver
<1>8. ASSUME NEW r \in Requests, X!ReleaseRequest(r) PROVE ResolverCounted'
  <2>1. ResolverUsers' = ResolverUsers
    BY <1>8 DEF X!ReleaseRequest, ResolverUsers, X!UsesResolver
  <2>. QED  BY <1>8, <2>1 DEF X!ReleaseRequest
<1>9. CASE X!ClientAsks
  <2>1. ResolverUsers' = ResolverUsers
    BY <1>9 DEF X!ClientAsks, ResolverUsers, X!UsesResolver
  <2>. QED  BY <1>9, <2>1 DEF X!ClientAsks
<1>10. CASE X!Close
  <2>1. ResolverUsers' = ResolverUsers
    BY <1>10 DEF X!Close, ResolverUsers, X!UsesResolver
  <2>2. xRef > 0 /\ X!Resolver \notin xFreed /\ \A u \in X!Callers : xPc[u] # "destroy"
    BY <1>10, AliveWhileUsed DEF X!Close
  <2>3. Cardinality(ResolverUsers) \in Nat
    BY UsersFinite DEF ResolverUsers
  <2>4. xPc' = [xPc EXCEPT ![X!Client] = IF xRef = 1 THEN "destroy" ELSE "done"]
    BY <1>10 DEF X!Close
  <2>. QED  BY <1>10, <2>1, <2>2, <2>3, <2>4 DEF X!Close
<1>11. ASSUME NEW t \in X!Callers, X!LockShared(t) PROVE ResolverCounted'
  <2>1. ResolverUsers' = ResolverUsers
    BY <1>11 DEF X!LockShared, ResolverUsers, X!UsesResolver
  <2>. QED  BY <1>11, <2>1 DEF X!LockShared
<1>12. ASSUME NEW t \in X!Callers, X!AddShared(t) PROVE ResolverCounted'
  <2>1. ResolverUsers' = ResolverUsers
    BY <1>12 DEF X!AddShared, ResolverUsers, X!UsesResolver
  <2>. QED  BY <1>12, <2>1 DEF X!AddShared
<1>13. ASSUME NEW t \in X!Callers, X!UnlockShared(t) PROVE ResolverCounted'
  <2>1. ResolverUsers' = ResolverUsers
    BY <1>13 DEF X!UnlockShared, ResolverUsers, X!UsesResolver
  <2>. QED  BY <1>13, <2>1 DEF X!UnlockShared
<1>14. ASSUME NEW t \in X!Callers, X!Release(t) PROVE ResolverCounted'
  <2>1. ResolverUsers' = ResolverUsers
    BY <1>14 DEF X!Release, ResolverUsers, X!UsesResolver
  <2>2. \A u \in X!Callers : u # t => xPc'[u] = xPc[u]
    BY <1>14 DEF X!Release
  <2>3. xPc'[t] \in {"notify", "out", "releaseResolver"} /\ xPc[t] \notin {"destroy", "done"}
    BY <1>14 DEF X!Release
  <2>4. UNCHANGED <<xRef, xOpen>> /\ (X!Resolver \in xFreed' <=> X!Resolver \in xFreed)
    BY <1>14 DEF X!Release, RequestsCounted
  <2>. QED  BY <2>1, <2>2, <2>3, <2>4
<1>15. ASSUME NEW t \in X!Callers, X!Destroy(t) PROVE ResolverCounted'
  <2>1. ResolverUsers' = ResolverUsers
    BY <1>15 DEF X!Destroy, ResolverUsers, X!UsesResolver
  <2>2. xRef = 0 /\ \A u \in X!Callers : xPc'[u] # "destroy"
    BY <1>15 DEF X!Destroy
  <2>. QED  BY <1>15, <2>1, <2>2 DEF X!Destroy
<1>16. CASE UNCHANGED X!vars
  BY <1>16 DEF X!vars, ResolverUsers, X!UsesResolver
<1>. QED  BY <1>1, <1>2, <1>3, <1>4, <1>5, <1>6, <1>7, <1>8, <1>9, <1>10,
    <1>11, <1>12, <1>13, <1>14, <1>15, <1>16 DEF X!Next, X!CallbackStep,
    X!SharedStep, X!Callers

LEMMA HoldersFinite ==
  ASSUME IsFiniteSet(Requests), NEW x
  PROVE  IsFiniteSet(X!Holders(x)) /\ Cardinality(X!Holders(x)) \in Nat
<1>1. IsFiniteSet(X!Callers)
  BY FS_AddElement DEF X!Callers
<1>2. X!Holders(x) \in SUBSET X!Callers
  BY DEF X!Holders
<1>. QED  BY <1>1, <1>2, FS_Subset, FS_CardinalityType

LEMMA RequestsStep ==
  ASSUME IsFiniteSet(Requests), Nil \notin Requests,
         X!Client \notin Requests, X!Resolver \notin Requests, ProxyInv, [X!Next]_(X!vars)
  PROVE  RequestsCounted'
<1>. USE DEF ProxyInv, ProxyTypes, ResultSound, RequestsCounted, ProxyLabels,
    ProxyClientLabels,
    X!Goto, X!Hold, X!Drop, X!Callers
<1>0. \A x : IsFiniteSet(X!Holders(x)) /\ Cardinality(X!Holders(x)) \in Nat
  BY HoldersFinite
<1>1. ASSUME NEW r \in Requests, X!Submit(r) PROVE RequestsCounted'
  <2>1. \A x \in Requests : X!Holders(x)' = X!Holders(x)
    BY <1>1 DEF X!Submit, X!Holders
  <2>2. Cardinality(X!Holders(r)) = 0 /\ xResult # r
    BY <1>1, FS_EmptySet DEF X!Submit
  <2>. QED  BY <1>1, <1>0, <2>1, <2>2 DEF X!Submit, OwnersOf, X!Inside
<1>2. ASSUME NEW r \in Requests, X!SubmitFails(r) PROVE RequestsCounted'
  <2>1. \A x \in Requests : X!Holders(x)' = X!Holders(x)
    BY <1>2 DEF X!SubmitFails, X!Holders
  <2>2. Cardinality(X!Holders(r)) = 0 /\ xResult # r
    BY <1>2, FS_EmptySet DEF X!SubmitFails
  <2>. QED  BY <1>2, <1>0, <2>1, <2>2 DEF X!SubmitFails, OwnersOf, X!Inside
<1>3. ASSUME NEW r \in Requests, X!LookUp(r) PROVE RequestsCounted'
  <2>1. \A x \in Requests : X!Holders(x)' = X!Holders(x)
    BY <1>3 DEF X!LookUp, X!Holders
  <2>. QED  BY <1>3, <1>0, <2>1 DEF X!LookUp, OwnersOf, X!Inside
<1>4. ASSUME NEW r \in Requests, X!AddResult(r) PROVE RequestsCounted'
  <2>1. \A x \in Requests : X!Holders(x)' = X!Holders(x)
    BY <1>4 DEF X!AddResult, X!Holders
  <2>. QED  BY <1>4, <1>0, <2>1 DEF X!AddResult, OwnersOf, X!Inside
<1>5. ASSUME NEW r \in Requests, X!SetResult(r) PROVE RequestsCounted'
  <2>1. CASE xResult = Nil
    <3>1. \A x \in Requests : X!Holders(x)' = X!Holders(x)
      BY <1>5, <2>1 DEF X!SetResult, X!Holders
    <3>. QED  BY <1>5, <1>0, <2>1, <3>1 DEF X!SetResult, OwnersOf, X!Inside
  <2>2. CASE xResult # Nil
    <3>1. PICK h \in Requests : h = xResult /\ h # r /\ xPc[h] # "out"
      BY <1>5, <2>2 DEF X!SetResult
    <3>2. xPc' = [xPc EXCEPT ![r] = "releaseOld"] /\ xHeld' = [xHeld EXCEPT ![r] = h]
          /\ UNCHANGED <<xRref, xFreed>> /\ xResult' = r /\ xPc[r] = "setResult"
      BY <1>5, <3>1, <2>2 DEF X!SetResult
    <3>3. \A x \in Requests : X!Holders(x)' = IF x = h THEN X!Holders(x) \cup {r} ELSE X!Holders(x)
      BY <3>1, <3>2 DEF X!Holders
    <3>4. r \notin X!Holders(h)
      BY <3>2 DEF X!Holders
    <3>5. ASSUME NEW x \in Requests
          PROVE  Cardinality(X!Holders(x)') = Cardinality(X!Holders(x)) + (IF x = h THEN 1 ELSE 0)
      <4>1. CASE x = h
        <5>1. X!Holders(x)' = X!Holders(x) \cup {r} /\ r \notin X!Holders(x) /\ IsFiniteSet(X!Holders(x))
          BY <3>3, <3>4, <4>1, <1>0
        <5>2. Cardinality(X!Holders(x) \cup {r}) = Cardinality(X!Holders(x)) + 1
          BY <5>1, FS_AddElement
        <5>. QED  BY <5>1, <5>2, <4>1
      <4>2. CASE x # h
        BY <3>3, <4>2, <1>0
      <4>. QED  BY <4>1, <4>2
    <3>6. \A x \in Requests : OwnersOf(x)' = OwnersOf(x) /\ (xPc'[x] = "out" <=> xPc[x] = "out")
      BY <3>1, <3>2, <3>5, <1>0 DEF OwnersOf, X!Inside
    <3>7. \A u \in X!Callers : xPc'[u] \in {"unlockShared", "releaseOld", "release"} => xHeld'[u] # Nil
      BY <3>1, <3>2
    <3>8. \A x \in Requests : xPc'[x] = "out" =>
           xRref'[x] = 0 /\ x \notin xFreed' /\ xResult' # x /\ X!Holders(x)' = {}
      BY <3>1, <3>2, <3>3, <3>6
    <3>9. \A x \in Requests : xPc'[x] # "out" =>
           xRref'[x] = OwnersOf(x)' /\ (x \in xFreed' <=> xRref'[x] = 0)
      BY <3>2, <3>6
    <3>. QED  BY <3>7, <3>8, <3>9
  <2>. QED  BY <2>1, <2>2
<1>6. ASSUME NEW r \in Requests, X!Notify(r) PROVE RequestsCounted'
  <2>1. \A x \in Requests : X!Holders(x)' = X!Holders(x)
    BY <1>6 DEF X!Notify, X!Holders
  <2>. QED  BY <1>6, <1>0, <2>1 DEF X!Notify, OwnersOf, X!Inside
<1>7. ASSUME NEW r \in Requests, X!ReleaseResolver(r) PROVE RequestsCounted'
  <2>1. \A x \in Requests : X!Holders(x)' = X!Holders(x)
    BY <1>7 DEF X!ReleaseResolver, X!Holders
  <2>. QED  BY <1>7, <1>0, <2>1 DEF X!ReleaseResolver, OwnersOf, X!Inside
<1>8. ASSUME NEW r \in Requests, X!ReleaseRequest(r) PROVE RequestsCounted'
  <2>1. \A x \in Requests : X!Holders(x)' = X!Holders(x)
    BY <1>8 DEF X!ReleaseRequest, X!Holders
  <2>. QED  BY <1>8, <1>0, <2>1 DEF X!ReleaseRequest, OwnersOf, X!Inside
<1>9. CASE X!ClientAsks
  <2>1. \A x \in Requests : X!Holders(x)' = X!Holders(x)
    BY <1>9 DEF X!ClientAsks, X!Holders
  <2>. QED  BY <1>9, <1>0, <2>1 DEF X!ClientAsks, OwnersOf, X!Inside
<1>10. CASE X!Close
  <2>1. \A x \in Requests : X!Holders(x)' = X!Holders(x)
    BY <1>10 DEF X!Close, X!Holders
  <2>. QED  BY <1>10, <1>0, <2>1 DEF X!Close, OwnersOf, X!Inside
<1>11. ASSUME NEW t \in X!Callers, X!LockShared(t) PROVE RequestsCounted'
  <2>1. \A x \in Requests : X!Holders(x)' = X!Holders(x)
    BY <1>11 DEF X!LockShared, X!Holders
  <2>. QED  BY <1>11, <1>0, <2>1 DEF X!LockShared, OwnersOf, X!Inside
<1>12. ASSUME NEW t \in X!Callers, X!AddShared(t) PROVE RequestsCounted'
  <2>1. xResult # Nil
    <3>1. X!Resolver \notin xFreed
      BY <1>12, AliveWhileUsed DEF X!AddShared
    <3>2. CASE t = X!Client
      BY <1>12, <3>1, <3>2 DEF X!AddShared
    <3>3. CASE t # X!Client
      <4>1. t \in Requests
        BY <3>3
      <4>. QED  BY <1>12, <3>1, <3>3, <4>1 DEF X!AddShared
    <3>. QED  BY <3>2, <3>3
  <2>2. PICK h \in Requests : h = xHeld[t] /\ h \in xOk /\ xPc[h] # "out" /\ h = xResult
    BY <1>12, <2>1 DEF X!AddShared
  <2>3. \A x \in Requests : X!Holders(x)' = IF x = h THEN X!Holders(x) \cup {t} ELSE X!Holders(x)
    BY <1>12, <2>2 DEF X!AddShared, X!Holders
  <2>4. t \notin X!Holders(h)
    BY <1>12 DEF X!AddShared, X!Holders
  <2>5. \A x \in Requests : Cardinality(X!Holders(x)') = Cardinality(X!Holders(x)) + (IF x = h THEN 1 ELSE 0)
    BY <2>3, <2>4, <1>0, FS_AddElement
  <2>6. xRref' = [xRref EXCEPT ![h] = xRref[h] + 1] /\ xPc' = [xPc EXCEPT ![t] = "unlockShared"]
        /\ UNCHANGED <<xResult, xFreed, xHeld>> /\ xPc[t] = "addShared"
    BY <1>12, <2>2 DEF X!AddShared
  <2>7. \A x \in Requests : OwnersOf(x)' = OwnersOf(x) + (IF x = h THEN 1 ELSE 0) /\ OwnersOf(x) \in Nat
    BY <2>5, <2>6, <1>0 DEF OwnersOf, X!Inside
  <2>8. xRref[h] > 0
    BY <2>2, <2>7, <1>0 DEF OwnersOf, X!Inside
  <2>9. \A x \in Requests : xPc'[x] = "out" <=> xPc[x] = "out"
    BY <2>6
  <2>10. \A x \in Requests : xPc'[x] = "out" =>
           xRref'[x] = 0 /\ x \notin xFreed' /\ xResult' # x /\ X!Holders(x)' = {}
    BY <2>2, <2>3, <2>6, <2>9
  <2>11. \A x \in Requests : xPc'[x] # "out" =>
           xRref'[x] = OwnersOf(x)' /\ (x \in xFreed' <=> xRref'[x] = 0)
    BY <2>6, <2>7, <2>8, <2>9
  <2>12. \A u \in X!Callers : xPc'[u] \in {"unlockShared", "releaseOld", "release"} => xHeld'[u] # Nil
    BY <2>2, <2>6
  <2>. QED  BY <2>10, <2>11, <2>12
<1>13. ASSUME NEW t \in X!Callers, X!UnlockShared(t) PROVE RequestsCounted'
  <2>1. \A x \in Requests : X!Holders(x)' = X!Holders(x)
    BY <1>13 DEF X!UnlockShared, X!Holders
  <2>. QED  BY <1>13, <1>0, <2>1 DEF X!UnlockShared, OwnersOf, X!Inside
<1>14. ASSUME NEW t \in X!Callers, X!Release(t) PROVE RequestsCounted'
  <2>1. PICK h \in Requests : h = xHeld[t]
    BY <1>14 DEF X!Release
  <2>2. /\ xRref' = [xRref EXCEPT ![h] = xRref[h] - 1] /\ xHeld' = [xHeld EXCEPT ![t] = Nil]
        /\ xFreed' = IF xRref[h] = 1 THEN xFreed \cup {h} ELSE xFreed
        /\ xResult' = xResult /\ xPc[t] \in {"releaseOld", "release"}
    BY <1>14, <2>1 DEF X!Release
  <2>3. /\ xPc' \in [X!Callers -> ProxyLabels] /\ \A u \in X!Callers : u # t => xPc'[u] = xPc[u]
        /\ xPc'[t] \in {"notify", "out", "releaseResolver"} /\ (t # X!Client => xPc'[t] # "out")
        /\ (t = X!Client => xPc[t] # "releaseOld")
    BY <1>14 DEF X!Release
  <2>4. \A x \in Requests : X!Holders(x)' = IF x = h THEN X!Holders(x) \ {t} ELSE X!Holders(x)
    BY <2>1, <2>2, <2>3 DEF X!Holders
  <2>5. t \in X!Holders(h)
    BY <2>1, <2>2 DEF X!Holders
  <2>6. Cardinality(X!Holders(h)) > 0
    BY <2>5, <1>0, FS_EmptySet
  <2>7. \A x \in Requests : Cardinality(X!Holders(x)') = Cardinality(X!Holders(x)) - (IF x = h THEN 1 ELSE 0)
    BY <2>4, <2>5, <1>0, FS_RemoveElement
  <2>8. \A x \in Requests : (xPc'[x] # "setResult" /\ xPc[x] # "setResult") \/ xPc'[x] = xPc[x]
    BY <2>2, <2>3
  <2>9. \A x \in Requests : xPc[x] = "out" <=> xPc'[x] = "out"
    BY <2>2, <2>3
  <2>10. \A x \in Requests : xPc[x] = "done" <=> xPc'[x] = "done"
    BY <2>2, <2>3
  <2>11. \A x \in Requests : OwnersOf(x)' = OwnersOf(x) - (IF x = h THEN 1 ELSE 0) /\ OwnersOf(x) \in Nat
    BY <2>2, <2>7, <2>8, <2>9, <2>10, <1>0 DEF OwnersOf, X!Inside
  <2>12. xPc[h] # "out"
    BY <2>5
  <2>13. xRref[h] = OwnersOf(h) /\ xRref[h] > 0
    BY <2>6, <2>12, <1>0 DEF OwnersOf, X!Inside
  <2>14. \A u \in X!Callers : xPc'[u] \in {"unlockShared", "releaseOld", "release"} => xHeld'[u] # Nil
    BY <2>2, <2>3
  <2>15. \A x \in Requests : xPc'[x] = "out" =>
           xRref'[x] = 0 /\ x \notin xFreed' /\ xResult' # x /\ X!Holders(x)' = {}
    BY <2>2, <2>4, <2>9, <2>12
  <2>16. ASSUME NEW x \in Requests, xPc'[x] # "out"
         PROVE  xRref'[x] = OwnersOf(x)' /\ (x \in xFreed' <=> xRref'[x] = 0)
    <3>1. xRref[x] = OwnersOf(x) /\ (x \in xFreed <=> xRref[x] = 0)
      BY <2>9, <2>16
    <3>. QED  BY <2>2, <2>11, <2>13, <3>1
  <2>. QED  BY <2>14, <2>15, <2>16
<1>15. ASSUME NEW t \in X!Callers, X!Destroy(t) PROVE RequestsCounted'
  <2>1. \A x \in Requests : X!Holders(x)' = X!Holders(x)
    BY <1>15 DEF X!Destroy, X!Holders
  <2>. QED  BY <1>15, <1>0, <2>1 DEF X!Destroy, OwnersOf, X!Inside
<1>16. CASE UNCHANGED X!vars
  BY <1>16 DEF X!vars, X!Holders, OwnersOf, X!Inside
<1>. QED  BY <1>1, <1>2, <1>3, <1>4, <1>5, <1>6, <1>7, <1>8, <1>9, <1>10,
    <1>11, <1>12, <1>13, <1>14, <1>15, <1>16 DEF X!Next, X!CallbackStep,
    X!SharedStep, X!Callers

LEMMA ProxyInitially ==
  ASSUME IsFiniteSet(Requests), Nil \notin Requests,
         X!Client \notin Requests, X!Resolver \notin Requests, X!Init
  PROVE  ProxyInv
<1>. USE DEF X!Init
<1>1. ProxyTypes
  <2>1. xPc \in [X!Callers -> ProxyLabels] /\ xPc[X!Client] \in ProxyClientLabels /\ xHeld \in [X!Callers -> Requests \cup {Nil}]
    BY DEF ProxyLabels, ProxyClientLabels, X!Callers
  <2>2. xFlags \subseteq {"complete", "error"} /\ xRef \in Int /\ xRref \in [Requests -> Int]
    OBVIOUS
  <2>3. /\ xResult \in Requests \cup {Nil} /\ xOpen \in BOOLEAN /\ xTold \in BOOLEAN
        /\ xFreed = {} /\ xReaders = {} /\ xOk = {}
    OBVIOUS
  <2>. QED  BY <2>1, <2>2, <2>3 DEF ProxyTypes, ProxyLabels, ProxyClientLabels, X!Callers
<1>2. ResolverUsers = {}
  BY DEF ResolverUsers, X!UsesResolver, X!Callers
<1>3. Cardinality(ResolverUsers) = 0
  BY <1>2, FS_EmptySet
<1>4. ResolverCounted
  BY <1>3 DEF ResolverCounted, X!Callers
<1>5. ResultSound
  BY DEF ResultSound, X!Callers
<1>6. RequestsCounted
  BY DEF RequestsCounted, X!Callers, X!Holders
<1>. QED  BY <1>1, <1>4, <1>5, <1>6 DEF ProxyInv

(* The invariant says what RefsOutliveUse promises.                        *)
LEMMA ProxyPromise ==
  ASSUME IsFiniteSet(Requests), Nil \notin Requests,
         X!Client \notin Requests, X!Resolver \notin Requests, ProxyInv
  PROVE  RefsOutliveUse
<1>. USE DEF ProxyInv
<1>1. X!Resolver \notin xFreed =>
        xRef = Cardinality({r \in Requests : X!UsesResolver(r)}) + (IF xOpen THEN 1 ELSE 0)
  BY DEF ResolverCounted, ResolverUsers
<1>2. ASSUME X!Resolver \in xFreed, NEW t \in X!Callers
      PROVE  xPc[t] \in {"out", "releaseRequest", "done"}
  <2>1. xRef = 0 /\ xPc[t] # "destroy"
    BY <1>2 DEF ResolverCounted
  <2>2. xPc[t] \notin {"destroy", "releaseRequest", "done"} => t # X!Client /\ xPc[t] = "out"
    BY <2>1, AliveWhileUsed
  <2>. QED  BY <2>1, <2>2
<1>3. \A r \in Requests : xPc[r] # "out" =>
        xRref[r] = OwnersOf(r) /\ (r \in xFreed <=> xRref[r] = 0)
  BY DEF RequestsCounted
<1>4. ASSUME NEW t \in X!Callers, xPc[t] = "addShared"
      PROVE  xHeld[t] \in xOk \ xFreed
  <2>1. X!Resolver \notin xFreed
    BY <1>4, AliveWhileUsed
  <2>2. t # X!Client => t \in xOk
    BY <1>4 DEF ResultSound
  <2>3. t = X!Client => xTold
    BY <1>4 DEF ResultSound
  <2>4. xResult # Nil
    BY <1>4, <2>1, <2>2, <2>3 DEF ResultSound
  <2>5. xHeld[t] = xResult /\ xResult \in xOk /\ xResult \in Requests /\ xPc[xResult] # "out"
    BY <1>4, <2>4 DEF ResultSound, ProxyTypes
  <2>6. Cardinality(X!Holders(xResult)) \in Nat
    BY HoldersFinite
  <2>7. OwnersOf(xResult) > 0
    BY <2>5, <2>6 DEF OwnersOf
  <2>. QED  BY <1>3, <2>5, <2>7
<1>5. \A S : X!Cardinality(S) = Cardinality(S)
  BY DEF X!Cardinality, Cardinality
<1>6. \A r : X!Owners(r) = OwnersOf(r)
  BY <1>5 DEF X!Owners, OwnersOf
<1>. QED  BY <1>1, <1>2, <1>3, <1>4, <1>5, <1>6 DEF RefsOutliveUse, X!RefsOutliveUse

(* In every state of a resolver the invariant holds: who owns which        *)
(* reference, who reads the result, and that there is one.                 *)
THEOREM ProxyInvariant == X!Spec => []ProxyInv
<1>1. /\ IsFiniteSet(Requests) /\ Nil \notin Requests
      /\ X!Client \notin Requests /\ X!Resolver \notin Requests
  BY ProxyAssumption DEF X!Client, X!Resolver
<1>2. X!Init => ProxyInv
  BY <1>1, ProxyInitially
<1>3. ProxyInv /\ [X!Next]_(X!vars) => ProxyInv'
  BY <1>1, ProxyTypesStep, ResolverStep, ResultStep, RequestsStep DEF ProxyInv
<1>. QED  BY <1>2, <1>3, PTL DEF X!Spec

(* Neither a proxy resolver nor a request is freed under the hands of who  *)
(* uses it, and the counts are the numbers of those who do.                *)
THEOREM ProxyRefsOutliveUse == X!Spec => []RefsOutliveUse
<1>1. /\ IsFiniteSet(Requests) /\ Nil \notin Requests
      /\ X!Client \notin Requests /\ X!Resolver \notin Requests
  BY ProxyAssumption DEF X!Client, X!Resolver
<1>2. ProxyInv => RefsOutliveUse
  BY <1>1, ProxyPromise
<1>. QED  BY <1>2, ProxyInvariant, PTL

-----------------------------------------------------------------------------
(* The thread pool.                                                        *)
PoolFinite ==
  /\ IsFiniteSet(Clients) /\ IsFiniteSet(Runners) /\ Clients \cap Runners = {}
  /\ Nil \notin Works

-----------------------------------------------------------------------------
PostLabels == {"addPending", "resetEvent", "push", "pushMore", "pushSame", "start"}
CloseLabels == {"closePop", "closePopped", "closeCancel", "closeSetEvent",
                "closeReleaseWork", "closeReleasePool", "closeEnd"}
ClientLabels == {"out", "checkWork", "waitEvent"} \cup PostLabels \cup CloseLabels
RunnerLabels == {"out", "pop", "popped", "claim", "callback", "setEvent", "releaseWork",
                 "releasePool", "leave", "releaseLast"} \cup PostLabels

(* Where a thread works on a task of its own.                              *)
BusyLabels == PostLabels \cup {"claim", "callback", "setEvent", "releaseWork", "checkWork",
                "waitEvent", "closeCancel", "closeSetEvent", "closeReleaseWork"}

PoolTypes ==
  /\ pPc \in [P!PoolThreads -> ClientLabels \cup RunnerLabels]
  /\ \A c \in Clients : pPc[c] \in ClientLabels
  /\ \A r \in Runners : pPc[r] \in RunnerLabels
  /\ pTask \in [P!PoolThreads -> Works \cup {Nil}]
  /\ \A t \in P!PoolThreads : pPc[t] \in BusyLabels => pTask[t] \in Works
  /\ pOld \in [P!PoolThreads -> Int]
  /\ pQueue \in Seq(Works)
  /\ pRef \in Int /\ pParallel \in Int /\ pWref \in [Works -> Int]
  /\ pWclosed \subseteq Works /\ pClosing \in BOOLEAN

-----------------------------------------------------------------------------
(* The pool.  A reference is owed to its owner until CloseThreadpool gives *)
(* it back; to the runners together, from the start of the first of them   *)
(* until the last leaves; to each task that is queued or about to be, or   *)
(* that a thread has taken and not yet given back.                         *)
Pushing == {t \in P!PoolThreads : pPc[t] \in {"pushMore", "pushSame"}}
Carries(t) ==
  \/ pPc[t] \in {"claim", "callback", "setEvent", "releaseWork", "releasePool", "closeCancel",
                "closeSetEvent", "closeReleaseWork", "closeReleasePool"}
  \/ pPc[t] \in {"popped", "closePopped"} /\ pTask[t] # Nil
  \/ t \in Runners /\ pPc[t] \in PostLabels
Carriers == {t \in P!PoolThreads : Carries(t)}
Leavers == {t \in P!PoolThreads : pPc[t] = "releaseLast"}
Active == {t \in P!PoolThreads : t \in Runners /\ pPc[t] \notin {"out", "releaseLast"}}
Starting == {t \in P!PoolThreads : pPc[t] \in {"pushMore", "start"}}
FirstStart == {t \in Starting : pOld[t] = 0}

Owned == IF ~pClosing \/ \E c \in Clients : pPc[c] \in CloseLabels THEN 1 ELSE 0
Group == IF pParallel > 0 /\ FirstStart = {} THEN 1 ELSE 0

PoolCounted ==
  pRef = Owned + Group + Len(pQueue) + Cardinality(Pushing) + Cardinality(Carriers)
          + Cardinality(Leavers)

RunnersCounted ==
  /\ pParallel = Cardinality(Active) + Cardinality(Starting)
  /\ \A t, u \in FirstStart : t = u

(* One client closes the pool, once, and then nobody submits any more.     *)
ClosedOnce ==
  /\ \A c, d \in Clients : pPc[c] \in CloseLabels /\ pPc[d] \in CloseLabels => c = d
  /\ \A c \in Clients : pPc[c] \in CloseLabels => pClosing
  /\ \A c \in Clients : pPc[c] \in PostLabels => ~pClosing

(* The work objects.                                                       *)
Places(q, w) == {i \in 1..Len(q) : q[i] = w}
Queued(w) == Places(pQueue, w)
NewFor(w) ==
  {t \in P!PoolThreads :
     pTask[t] = w /\ pPc[t] \in {"addPending", "resetEvent", "push", "pushMore", "pushSame"}}
Holds(t) ==
  \/ pPc[t] \in {"popped", "claim", "callback", "setEvent", "releaseWork", "closePopped",
                "closeCancel", "closeSetEvent", "closeReleaseWork"}
  \/ t \in Runners /\ pPc[t] \in PostLabels
HeldFor(w) == {t \in P!PoolThreads : pTask[t] = w /\ Holds(t)}

OpenFor(w) == IF w \in pWclosed THEN 0 ELSE 1

WorksCounted ==
  /\ \A w \in Works :
       pWref[w] = OpenFor(w) + Cardinality(Queued(w)) + Cardinality(NewFor(w))
                   + Cardinality(HeldFor(w))
  /\ \A c \in Clients : pPc[c] \in {"checkWork", "waitEvent"} => pTask[c] \notin pWclosed

PoolInv == PoolTypes /\ PoolCounted /\ RunnersCounted /\ ClosedOnce /\ WorksCounted

-----------------------------------------------------------------------------
(* Counting.  A thread that moves changes the number of those with a       *)
(* property by one at most.                                                *)
Shifted(F, G, t) ==
  /\ Cardinality(F) \in Nat /\ Cardinality(G) \in Nat
  /\ (t \in F <=> t \in G) => Cardinality(G) = Cardinality(F)
  /\ (t \in F /\ t \notin G) => Cardinality(F) = Cardinality(G) + 1
  /\ (t \notin F /\ t \in G) => Cardinality(G) = Cardinality(F) + 1

LEMMA MoveOne ==
  ASSUME NEW S, IsFiniteSet(S), NEW F \in SUBSET S, NEW G \in SUBSET S, NEW t,
         \A u \in S : u # t => (u \in F <=> u \in G)
  PROVE  Shifted(F, G, t)
<1>1. IsFiniteSet(F) /\ IsFiniteSet(G)
  BY FS_Subset
<1>2. Cardinality(F) \in Nat /\ Cardinality(G) \in Nat
  BY <1>1, FS_CardinalityType
<1>3. CASE t \in F <=> t \in G
  <2>1. F = G
    BY <1>3
  <2>. QED  BY <1>2, <1>3, <2>1 DEF Shifted
<1>4. CASE t \in F /\ t \notin G
  <2>1. F = G \cup {t}
    BY <1>4
  <2>2. Cardinality(F) = Cardinality(G) + 1
    BY <1>1, <1>4, <2>1, FS_AddElement
  <2>. QED  BY <1>2, <1>4, <2>2 DEF Shifted
<1>5. CASE t \notin F /\ t \in G
  <2>1. G = F \cup {t}
    BY <1>5
  <2>2. Cardinality(G) = Cardinality(F) + 1
    BY <1>1, <1>5, <2>1, FS_AddElement
  <2>. QED  BY <1>2, <1>5, <2>2 DEF Shifted
<1>. QED  BY <1>3, <1>4, <1>5

LEMMA HasSome ==
  ASSUME NEW S, IsFiniteSet(S), NEW F \in SUBSET S
  PROVE  Cardinality(F) \in Nat /\ ((\E x \in F : TRUE) <=> Cardinality(F) > 0)
<1>1. IsFiniteSet(F)
  BY FS_Subset
<1>. QED  BY <1>1, FS_CardinalityType, FS_EmptySet

LEMMA ThreadsFinite ==
  ASSUME PoolFinite
  PROVE  IsFiniteSet(P!PoolThreads)
BY FS_Union DEF PoolFinite, P!PoolThreads

(* The sets of threads that are counted.                                   *)
LEMMA PoolSets ==
  /\ Pushing \in SUBSET P!PoolThreads /\ Carriers \in SUBSET P!PoolThreads
  /\ Leavers \in SUBSET P!PoolThreads /\ Active \in SUBSET P!PoolThreads
  /\ Starting \in SUBSET P!PoolThreads
  /\ \A w : NewFor(w) \in SUBSET P!PoolThreads /\ HeldFor(w) \in SUBSET P!PoolThreads
BY DEF Pushing, Carriers, Leavers, Active, Starting, NewFor, HeldFor

(* The positions of a queue that hold w.                                   *)
LEMMA PlacesFinite ==
  ASSUME NEW q \in Seq(Works), NEW w
  PROVE  IsFiniteSet(Places(q, w)) /\ Cardinality(Places(q, w)) \in Nat
<1>1. IsFiniteSet(1..Len(q))
  BY FS_Interval
<1>2. Places(q, w) \in SUBSET (1..Len(q))
  BY DEF Places
<1>. QED  BY <1>1, <1>2, FS_Subset, FS_CardinalityType

LEMMA PlacesAppend ==
  ASSUME NEW q \in Seq(Works), NEW v \in Works, NEW w
  PROVE  Cardinality(Places(Append(q, v), w)) =
           Cardinality(Places(q, w)) + (IF v = w THEN 1 ELSE 0)
<1>. DEFINE n == Len(q) + 1
<1>1. n \notin Places(q, w) /\ Len(q) \in Nat
  BY DEF Places
<1>2. Places(Append(q, v), w) = IF v = w THEN Places(q, w) \cup {n} ELSE Places(q, w)
  <2>1. Len(Append(q, v)) = n /\ Append(q, v)[n] = v
           /\ \A i \in 1..Len(q) : Append(q, v)[i] = q[i]
    OBVIOUS
  <2>2. 1..n = (1..Len(q)) \cup {n}
    BY <1>1
  <2>. QED  BY <2>1, <2>2 DEF Places
<1>3. CASE v = w
  <2>1. Cardinality(Places(q, w) \cup {n}) = Cardinality(Places(q, w)) + 1
    BY <1>1, PlacesFinite, FS_AddElement
  <2>. QED  BY <1>2, <1>3, <2>1
<1>4. CASE v # w
  BY <1>2, <1>4, PlacesFinite
<1>. QED  BY <1>3, <1>4

LEMMA PlacesTail ==
  ASSUME NEW q \in Seq(Works), q # <<>>, NEW w
  PROVE  Cardinality(Places(q, w)) =
           Cardinality(Places(Tail(q), w)) + (IF Head(q) = w THEN 1 ELSE 0)
<1>. DEFINE F == Places(Tail(q), w)
            G == Places(q, w) \ {1}
            f == [i \in F |-> i + 1]
<1>1. Len(q) \in Nat \ {0} /\ Tail(q) \in Seq(Works) /\ Len(Tail(q)) = Len(q) - 1
         /\ Head(q) = q[1] /\ \A i \in 1..(Len(q) - 1) : Tail(q)[i] = q[i + 1]
  OBVIOUS
<1>2. IsFiniteSet(F) /\ Cardinality(F) \in Nat /\ IsFiniteSet(Places(q, w))
  BY <1>1, PlacesFinite
<1>3. f \in Bijection(F, G)
  <2>1. \A i \in F : i \in 1..(Len(q) - 1) /\ i + 1 \in G
    BY <1>1 DEF Places
  <2>2. \A j \in G : j - 1 \in F /\ j = (j - 1) + 1
    BY <1>1 DEF Places
  <2>3. \A i, j \in F : f[i] = f[j] => i = j
    BY <2>1
  <2>4. \A j \in G : \E i \in F : f[i] = j
    BY <2>2
  <2>5. f \in [F -> G]
    BY <2>1
  <2>6. f \in Injection(F, G)
    BY <2>3, <2>5 DEF Injection, IsInjective
  <2>7. f \in Surjection(F, G)
    BY <2>4, <2>5 DEF Surjection
  <2>. QED  BY <2>6, <2>7 DEF Bijection
<1>4. Cardinality(G) = Cardinality(F) /\ IsFiniteSet(G)
  <2>1. ExistsBijection(F, G)
    BY <1>3 DEF ExistsBijection
  <2>2. IsFiniteSet(G)
    BY <1>2, FS_Subset
  <2>. QED  BY <1>2, <2>1, <2>2, FS_Bijection
<1>5. CASE q[1] = w
  <2>1. Places(q, w) = G \cup {1} /\ 1 \notin G
    BY <1>1, <1>5 DEF Places
  <2>2. Cardinality(Places(q, w)) = Cardinality(G) + 1
    BY <1>4, <2>1, FS_AddElement
  <2>. QED  BY <1>1, <1>4, <1>5, <2>2
<1>6. CASE q[1] # w
  <2>1. Places(q, w) = G
    BY <1>6 DEF Places
  <2>2. Cardinality(Places(q, w)) = Cardinality(F)
    BY <1>4, <2>1
  <2>3. Head(q) # w
    BY <1>1, <1>6
  <2>4. Cardinality(F) + 0 = Cardinality(F)
    BY <1>2
  <2>. QED  BY <2>2, <2>3, <2>4
<1>. QED  BY <1>5, <1>6

LEMMA PoolWaitCases ==
  ASSUME NEW c, NEW w, \E cancel \in BOOLEAN : P!WaitForWork(c, w, cancel)
  PROVE  P!WaitForWork(c, w, TRUE) \/ P!WaitForWork(c, w, FALSE)
OBVIOUS

-----------------------------------------------------------------------------
(* Types.                                                                  *)
LEMMA PoolTypesStep ==
  ASSUME PoolFinite, PoolInv, [P!Next]_(P!vars)
  PROVE  PoolTypes'
<1>. USE DEF PoolInv, PoolTypes, P!PoolThreads, PoolFinite, P!Goto, P!Back, P!Done,
    P!workVars, P!poolVars, P!flags, P!bounds,
    PostLabels, CloseLabels, ClientLabels, RunnerLabels, BusyLabels
<1>1. ASSUME NEW t \in P!PoolThreads, P!AddPending(t) PROVE PoolTypes'
  BY <1>1 DEF P!AddPending
<1>2. ASSUME NEW t \in P!PoolThreads, P!ResetEvent(t) PROVE PoolTypes'
  BY <1>2 DEF P!ResetEvent
<1>3. ASSUME NEW t \in P!PoolThreads, P!LockPush(t) PROVE PoolTypes'
  BY <1>3 DEF P!LockPush
<1>4. ASSUME NEW t \in P!PoolThreads, P!Push(t) PROVE PoolTypes'
  <2>1. pPc' = [pPc EXCEPT ![t] = IF pPc[t] = "pushMore" THEN "start" ELSE P!Back(t)]
           /\ pTask' \in [P!PoolThreads -> Works \cup {Nil}] /\ pTask[t] \in Works
           /\ \A u \in P!PoolThreads : pPc'[u] # "out" => pTask'[u] = pTask[u]
    BY <1>4 DEF P!Push
  <2>2. pQueue' \in Seq(Works)
    BY <1>4, <2>1 DEF P!Push
  <2>. QED  BY <1>4, <2>1, <2>2 DEF P!Push
<1>5. ASSUME NEW t \in P!PoolThreads, P!StartRunner(t) PROVE PoolTypes'
  <2>1. PICK r \in Runners :
           /\ pPc[t] = "start" /\ pPc[r] = "out"
           /\ pRef' = IF pOld[t] = 0 THEN pRef + 1 ELSE pRef
           /\ pPc' = [pPc EXCEPT ![t] = P!Back(t), ![r] = "pop"]
           /\ IF t \in Clients THEN P!Done(t) ELSE UNCHANGED pTask
           /\ pOld' = [pOld EXCEPT ![t] = 0]
           /\ UNCHANGED <<P!workVars, P!flags, pQueue, pMaximum, pClosing, P!bounds>>
    BY <1>5 DEF P!StartRunner
  <2>2. /\ pPc' \in [P!PoolThreads -> ClientLabels \cup RunnerLabels]
        /\ pPc'[t] = P!Back(t) /\ pPc'[r] = "pop"
        /\ \A u \in P!PoolThreads : u # t /\ u # r => pPc'[u] = pPc[u]
    BY <2>1
  <2>3. /\ pTask' \in [P!PoolThreads -> Works \cup {Nil}]
        /\ \A u \in P!PoolThreads : u # t => pTask'[u] = pTask[u]
        /\ t \in Runners => pTask'[t] = pTask[t]
    BY <2>1
  <2>4. /\ \A c \in Clients : pPc'[c] \in ClientLabels
        /\ \A u \in Runners : pPc'[u] \in RunnerLabels
    BY <2>1, <2>2
  <2>5. \A u \in P!PoolThreads : pPc'[u] \in BusyLabels => pTask'[u] \in Works
    BY <2>1, <2>2, <2>3
  <2>6. pRef' \in Int /\ pOld' \in [P!PoolThreads -> Int]
           /\ UNCHANGED <<pQueue, pParallel, pWref, pWclosed, pClosing>>
    BY <2>1
  <2>. QED  BY <2>2, <2>3, <2>4, <2>5, <2>6
<1>6. ASSUME NEW t \in P!PoolThreads, P!Pop(t) PROVE PoolTypes'
  BY <1>6 DEF P!Pop
<1>7. ASSUME NEW t \in P!PoolThreads, P!Unlock(t) PROVE PoolTypes'
  BY <1>7 DEF P!Unlock
<1>8. ASSUME NEW t \in P!PoolThreads, P!ReleaseWork(t) PROVE PoolTypes'
  <2>1. pWref' \in [Works -> Int]
    BY <1>8 DEF P!ReleaseWork
  <2>. QED  BY <1>8, <2>1 DEF P!ReleaseWork
<1>9. ASSUME NEW t \in P!PoolThreads, P!ReleasePool(t) PROVE PoolTypes'
  <2>1. \/ pPc[t] = "releasePool" /\ pPc' = [pPc EXCEPT ![t] = "pop"]
        \/ pPc[t] = "closeReleasePool" /\ pPc' = [pPc EXCEPT ![t] = "closePop"]
        \/ pPc[t] \in {"releaseLast", "closeEnd"} /\ pPc' = [pPc EXCEPT ![t] = "out"]
    BY <1>9 DEF P!ReleasePool
  <2>2. pTask' = [pTask EXCEPT ![t] = Nil] /\ pRef' = pRef - 1
           /\ UNCHANGED <<P!workVars, P!flags, pQueue, pMaximum, pClosing, pOld, P!bounds>>
    BY <1>9 DEF P!ReleasePool
  <2>3. pPc' \in [P!PoolThreads -> ClientLabels \cup RunnerLabels]
    BY <2>1
  <2>4. /\ \A c \in Clients : pPc'[c] \in ClientLabels
        /\ \A u \in Runners : pPc'[u] \in RunnerLabels
    BY <2>1
  <2>5. \A u \in P!PoolThreads : pPc'[u] \in BusyLabels => pTask'[u] \in Works
    BY <2>1, <2>2
  <2>. QED  BY <2>2, <2>3, <2>4, <2>5
<1>10. ASSUME NEW t \in P!PoolThreads, P!SetEvent(t) PROVE PoolTypes'
  BY <1>10 DEF P!SetEvent
<1>11. ASSUME NEW t \in Runners, P!Claim(t) PROVE PoolTypes'
  BY <1>11 DEF P!Claim
<1>12. ASSUME NEW t \in Runners, P!CallbackReturns(t) PROVE PoolTypes'
  BY <1>12 DEF P!CallbackReturns
<1>13. ASSUME NEW t \in Runners, P!LeavePool(t) PROVE PoolTypes'
  BY <1>13 DEF P!LeavePool
<1>14. ASSUME NEW t \in Clients, P!CheckWork(t) PROVE PoolTypes'
  BY <1>14 DEF P!CheckWork
<1>15. ASSUME NEW t \in Clients, P!WaitEvent(t) PROVE PoolTypes'
  BY <1>15 DEF P!WaitEvent
<1>16. ASSUME NEW t \in Clients, P!CloseCancel(t) PROVE PoolTypes'
  BY <1>16 DEF P!CloseCancel
<1>17. ASSUME NEW t \in Clients, NEW w \in Works, P!Submit(t, w) PROVE PoolTypes'
  BY <1>17 DEF P!Submit, P!Post
<1>18. ASSUME NEW t \in Clients, NEW w \in Works, P!CloseWork(t, w) PROVE PoolTypes'
  BY <1>18 DEF P!CloseWork
<1>19. ASSUME NEW t \in Clients, NEW w \in Works,
             P!WaitForWork(t, w, TRUE) \/ P!WaitForWork(t, w, FALSE) PROVE PoolTypes'
  <2>1. /\ pTask' = [pTask EXCEPT ![t] = w] /\ pPc' = [pPc EXCEPT ![t] = "checkWork"]
        /\ UNCHANGED <<pWref, pWclosed, pQueue, pRef, pParallel, pClosing, pOld>>
    BY <1>19 DEF P!WaitForWork
  <2>. QED  BY <2>1
<1>20. ASSUME NEW t \in Clients, P!ClosePool(t) PROVE PoolTypes'
  BY <1>20 DEF P!ClosePool
<1>21. ASSUME NEW t \in Runners, P!Resubmit(t) PROVE PoolTypes'
  BY <1>21 DEF P!Resubmit, P!Post
<1>22. CASE UNCHANGED P!vars
  BY <1>22 DEF P!vars, P!workVars, P!poolVars, P!flags, P!bounds
<1>23. ASSUME NEW t \in P!PoolThreads, P!Step(t) PROVE PoolTypes'
  BY <1>1, <1>2, <1>3, <1>4, <1>5, <1>6, <1>7, <1>8, <1>9, <1>10, <1>11, <1>12, <1>13, <1>14,
      <1>15, <1>16, <1>23 DEF P!Step
<1>24. ASSUME NEW c \in Clients, P!Call(c) PROVE PoolTypes'
  <2>1. ASSUME NEW w \in Works, \E cancel \in BOOLEAN : P!WaitForWork(c, w, cancel) PROVE PoolTypes'
    BY <2>1, PoolWaitCases, <1>19
  <2>. QED  BY <1>17, <1>18, <1>20, <1>24, <2>1 DEF P!Call
<1>. QED  BY <1>21, <1>22, <1>23, <1>24 DEF P!Next

-----------------------------------------------------------------------------
(* Who closes the pool.                                                    *)
LEMMA ClosedOnceStep ==
  ASSUME PoolFinite, PoolInv, [P!Next]_(P!vars)
  PROVE  ClosedOnce'
<1>. USE DEF PoolInv, ClosedOnce, PoolTypes, P!PoolThreads, PoolFinite, P!Goto, P!Back,
    P!Done, P!workVars, P!poolVars, P!flags, P!bounds,
    PostLabels, CloseLabels, ClientLabels, RunnerLabels, BusyLabels
<1>1. ASSUME NEW t \in P!PoolThreads, P!AddPending(t) PROVE ClosedOnce'
  BY <1>1 DEF P!AddPending
<1>2. ASSUME NEW t \in P!PoolThreads, P!ResetEvent(t) PROVE ClosedOnce'
  BY <1>2 DEF P!ResetEvent
<1>3. ASSUME NEW t \in P!PoolThreads, P!LockPush(t) PROVE ClosedOnce'
  BY <1>3 DEF P!LockPush
<1>4. ASSUME NEW t \in P!PoolThreads, P!Push(t) PROVE ClosedOnce'
  BY <1>4 DEF P!Push
<1>5. ASSUME NEW t \in P!PoolThreads, P!StartRunner(t) PROVE ClosedOnce'
  BY <1>5 DEF P!StartRunner
<1>6. ASSUME NEW t \in P!PoolThreads, P!Pop(t) PROVE ClosedOnce'
  BY <1>6 DEF P!Pop
<1>7. ASSUME NEW t \in P!PoolThreads, P!Unlock(t) PROVE ClosedOnce'
  BY <1>7 DEF P!Unlock
<1>8. ASSUME NEW t \in P!PoolThreads, P!ReleaseWork(t) PROVE ClosedOnce'
  BY <1>8 DEF P!ReleaseWork
<1>9. ASSUME NEW t \in P!PoolThreads, P!ReleasePool(t) PROVE ClosedOnce'
  BY <1>9 DEF P!ReleasePool
<1>10. ASSUME NEW t \in P!PoolThreads, P!SetEvent(t) PROVE ClosedOnce'
  BY <1>10 DEF P!SetEvent
<1>11. ASSUME NEW t \in Runners, P!Claim(t) PROVE ClosedOnce'
  BY <1>11 DEF P!Claim
<1>12. ASSUME NEW t \in Runners, P!CallbackReturns(t) PROVE ClosedOnce'
  BY <1>12 DEF P!CallbackReturns
<1>13. ASSUME NEW t \in Runners, P!LeavePool(t) PROVE ClosedOnce'
  BY <1>13 DEF P!LeavePool
<1>14. ASSUME NEW t \in Clients, P!CheckWork(t) PROVE ClosedOnce'
  BY <1>14 DEF P!CheckWork
<1>15. ASSUME NEW t \in Clients, P!WaitEvent(t) PROVE ClosedOnce'
  BY <1>15 DEF P!WaitEvent
<1>16. ASSUME NEW t \in Clients, P!CloseCancel(t) PROVE ClosedOnce'
  BY <1>16 DEF P!CloseCancel
<1>17. ASSUME NEW t \in Clients, NEW w \in Works, P!Submit(t, w) PROVE ClosedOnce'
  BY <1>17 DEF P!Submit, P!Post
<1>18. ASSUME NEW t \in Clients, NEW w \in Works, P!CloseWork(t, w) PROVE ClosedOnce'
  BY <1>18 DEF P!CloseWork
<1>19. ASSUME NEW t \in Clients, NEW w \in Works,
             P!WaitForWork(t, w, TRUE) \/ P!WaitForWork(t, w, FALSE) PROVE ClosedOnce'
  BY <1>19 DEF P!WaitForWork
<1>20. ASSUME NEW t \in Clients, P!ClosePool(t) PROVE ClosedOnce'
  BY <1>20 DEF P!ClosePool
<1>21. ASSUME NEW t \in Runners, P!Resubmit(t) PROVE ClosedOnce'
  BY <1>21 DEF P!Resubmit, P!Post
<1>22. CASE UNCHANGED P!vars
  BY <1>22 DEF P!vars, P!workVars, P!poolVars, P!flags, P!bounds
<1>23. ASSUME NEW t \in P!PoolThreads, P!Step(t) PROVE ClosedOnce'
  BY <1>1, <1>2, <1>3, <1>4, <1>5, <1>6, <1>7, <1>8, <1>9, <1>10, <1>11, <1>12, <1>13, <1>14,
      <1>15, <1>16, <1>23 DEF P!Step
<1>24. ASSUME NEW c \in Clients, P!Call(c) PROVE ClosedOnce'
  <2>1. ASSUME NEW w \in Works, \E cancel \in BOOLEAN : P!WaitForWork(c, w, cancel) PROVE ClosedOnce'
    BY <2>1, PoolWaitCases, <1>19
  <2>. QED  BY <1>17, <1>18, <1>20, <1>24, <2>1 DEF P!Call
<1>. QED  BY <1>21, <1>22, <1>23, <1>24 DEF P!Next

-----------------------------------------------------------------------------
(* One reference less.                                                     *)
LEMMA OneLessOf ==
  ASSUME NEW o \in Int, NEW g \in Int, NEW l \in Int, NEW p \in Int, NEW c \in Int, NEW v \in Int,
         NEW o2 \in Int, NEW c2 \in Int, NEW v2 \in Int,
         \/ o = o2 /\ c = c2 + 1 /\ v = v2
         \/ o = o2 /\ c = c2 /\ v = v2 + 1
         \/ o = o2 + 1 /\ c = c2 /\ v = v2
  PROVE  (o + g + l + p + c + v) - 1 = o2 + g + l + p + c2 + v2
<1>1. o + c + v = o2 + c2 + v2 + 1
  OBVIOUS
<1>. QED  BY <1>1

-----------------------------------------------------------------------------
(* The references of the pool.  First the steps that move nobody into or   *)
(* out of the sets that are counted.                                       *)
PoolUnmoved ==
  \A u \in P!PoolThreads :
    /\ (u \in Pushing)' <=> u \in Pushing
    /\ (u \in Carriers)' <=> u \in Carriers
    /\ (u \in Leavers)' <=> u \in Leavers
    /\ (u \in Active)' <=> u \in Active
    /\ (u \in Starting)' <=> u \in Starting
    /\ pOld'[u] = pOld[u]
    /\ pPc'[u] \in CloseLabels <=> pPc[u] \in CloseLabels

LEMMA PoolQuiet ==
  ASSUME PoolInv, PoolUnmoved, pRef' = pRef, pParallel' = pParallel, pQueue' = pQueue,
         pClosing' = pClosing
  PROVE  PoolCounted' /\ RunnersCounted'
<1>1. /\ Pushing' = Pushing /\ Carriers' = Carriers /\ Leavers' = Leavers
      /\ Active' = Active /\ Starting' = Starting
  BY DEF PoolUnmoved, Pushing, Carriers, Leavers, Active, Starting
<1>2. FirstStart' = FirstStart
  BY <1>1, PoolSets DEF PoolUnmoved, FirstStart
<1>3. Owned' = Owned /\ Group' = Group
  BY <1>2 DEF PoolUnmoved, Owned, Group, P!PoolThreads
<1>. QED  BY <1>1, <1>2, <1>3 DEF PoolInv, PoolCounted, RunnersCounted

(* The others move one thread.                                             *)
OnlyMoves(t) ==
  \A u \in P!PoolThreads : u # t => pPc'[u] = pPc[u] /\ pTask'[u] = pTask[u] /\ pOld'[u] = pOld[u]

LEMMA PoolShifts ==
  ASSUME PoolFinite, NEW t \in P!PoolThreads, OnlyMoves(t)
  PROVE  /\ Shifted(Pushing, Pushing', t) /\ Shifted(Carriers, Carriers', t)
         /\ Shifted(Leavers, Leavers', t) /\ Shifted(Active, Active', t)
         /\ Shifted(Starting, Starting', t)
<1>1. IsFiniteSet(P!PoolThreads)
  BY ThreadsFinite
<1>2. Pushing \in SUBSET P!PoolThreads /\ Pushing' \in SUBSET P!PoolThreads
         /\ \A u \in P!PoolThreads : u # t => (u \in Pushing <=> u \in Pushing')
  BY DEF Pushing, OnlyMoves
<1>3. Carriers \in SUBSET P!PoolThreads /\ Carriers' \in SUBSET P!PoolThreads
         /\ \A u \in P!PoolThreads : u # t => (u \in Carriers <=> u \in Carriers')
  BY DEF Carriers, Carries, OnlyMoves
<1>4. Leavers \in SUBSET P!PoolThreads /\ Leavers' \in SUBSET P!PoolThreads
         /\ \A u \in P!PoolThreads : u # t => (u \in Leavers <=> u \in Leavers')
  BY DEF Leavers, OnlyMoves
<1>5. Active \in SUBSET P!PoolThreads /\ Active' \in SUBSET P!PoolThreads
         /\ \A u \in P!PoolThreads : u # t => (u \in Active <=> u \in Active')
  BY DEF Active, OnlyMoves
<1>6. Starting \in SUBSET P!PoolThreads /\ Starting' \in SUBSET P!PoolThreads
         /\ \A u \in P!PoolThreads : u # t => (u \in Starting <=> u \in Starting')
  BY DEF Starting, OnlyMoves
<1>. QED  BY <1>1, <1>2, <1>3, <1>4, <1>5, <1>6, MoveOne

(* How many there are, and what of it matters.                             *)
LEMMA PoolSizes ==
  ASSUME PoolFinite
  PROVE  /\ Cardinality(Pushing) \in Nat /\ Cardinality(Carriers) \in Nat
         /\ Cardinality(Leavers) \in Nat /\ Cardinality(Active) \in Nat
         /\ Cardinality(Starting) \in Nat /\ Owned \in Nat /\ Group \in Nat
         /\ ((\E t \in Carriers : TRUE) <=> Cardinality(Carriers) > 0)
         /\ ((\E t \in Leavers : TRUE) <=> Cardinality(Leavers) > 0)
         /\ ((\E t \in Active : TRUE) <=> Cardinality(Active) > 0)
         /\ ((\E t \in Starting : TRUE) <=> Cardinality(Starting) > 0)
         /\ ((\E t \in Pushing : TRUE) <=> Cardinality(Pushing) > 0)
<1>1. IsFiniteSet(P!PoolThreads)
  BY ThreadsFinite
<1>2. /\ Cardinality(Pushing) \in Nat /\ ((\E t \in Pushing : TRUE) <=> Cardinality(Pushing) > 0)
      /\ Cardinality(Carriers) \in Nat /\ ((\E t \in Carriers : TRUE) <=> Cardinality(Carriers) > 0)
  BY <1>1, PoolSets, HasSome
<1>3. /\ Cardinality(Leavers) \in Nat /\ ((\E t \in Leavers : TRUE) <=> Cardinality(Leavers) > 0)
      /\ Cardinality(Active) \in Nat /\ ((\E t \in Active : TRUE) <=> Cardinality(Active) > 0)
  BY <1>1, PoolSets, HasSome
<1>4. Cardinality(Starting) \in Nat /\ ((\E t \in Starting : TRUE) <=> Cardinality(Starting) > 0)
  BY <1>1, PoolSets, HasSome
<1>5. Owned \in Nat /\ Group \in Nat
  BY DEF Owned, Group
<1>. QED  BY <1>2, <1>3, <1>4, <1>5

LEMMA PoolNats ==
  ASSUME PoolFinite
  PROVE  /\ Cardinality(Pushing) \in Nat /\ Cardinality(Carriers) \in Nat
         /\ Cardinality(Leavers) \in Nat /\ Cardinality(Active) \in Nat
         /\ Cardinality(Starting) \in Nat /\ Owned \in Nat /\ Group \in Nat
         /\ Owned' \in Nat /\ Group' \in Nat
<1>1. Owned' \in Nat /\ Group' \in Nat
  BY DEF Owned, Group
<1>. QED  BY <1>1, PoolSizes

(* A client that submits finds the pool open.                              *)
LEMMA OwnerKept ==
  ASSUME NEW t \in P!PoolThreads, OnlyMoves(t), pClosing' = pClosing,
         pPc'[t] \in CloseLabels <=> pPc[t] \in CloseLabels
  PROVE  Owned' = Owned
BY DEF OnlyMoves, Owned, P!PoolThreads

LEMMA PoolCountedStep ==
  ASSUME PoolFinite, PoolInv, [P!Next]_(P!vars)
  PROVE  PoolCounted' /\ RunnersCounted'
<1>. USE DEF PoolInv, PoolTypes, P!PoolThreads, PoolFinite, P!Goto, P!Back, P!Done,
    P!workVars, P!poolVars, P!flags, P!bounds,
    PostLabels, CloseLabels, ClientLabels, RunnerLabels, BusyLabels
<1>1. ASSUME NEW t \in P!PoolThreads, P!AddPending(t) PROVE PoolCounted' /\ RunnersCounted'
  <2>1. PoolUnmoved /\ pRef' = pRef /\ pParallel' = pParallel /\ pQueue' = pQueue /\ pClosing' = pClosing
    BY <1>1 DEF P!AddPending, PoolUnmoved, Pushing, Carriers, Carries, Leavers, Active,
        Starting, OnlyMoves
  <2>. QED  BY <2>1, PoolQuiet
<1>2. ASSUME NEW t \in P!PoolThreads, P!ResetEvent(t) PROVE PoolCounted' /\ RunnersCounted'
  <2>1. PoolUnmoved /\ pRef' = pRef /\ pParallel' = pParallel /\ pQueue' = pQueue /\ pClosing' = pClosing
    BY <1>2 DEF P!ResetEvent, PoolUnmoved, Pushing, Carriers, Carries, Leavers, Active,
        Starting, OnlyMoves
  <2>. QED  BY <2>1, PoolQuiet
<1>3. ASSUME NEW t \in P!PoolThreads, P!LockPush(t) PROVE PoolCounted' /\ RunnersCounted'
  <2>1. OnlyMoves(t) /\ pPc[t] = "push" /\ pClosing' = pClosing /\ pQueue' = pQueue
           /\ pRef' = pRef + 1 /\ pPc'[t] \in {"pushMore", "pushSame"}
    BY <1>3 DEF P!LockPush, OnlyMoves
  <2>2. /\ t \notin Pushing /\ t \in Pushing' /\ (t \in Carriers <=> t \in Carriers')
        /\ t \notin Leavers /\ t \notin Leavers' /\ (t \in Active <=> t \in Active')
        /\ t \notin Starting /\ (t \in Starting' <=> pPc'[t] = "pushMore")
    BY <1>3, <2>1 DEF Pushing, Carriers, Carries, Leavers, Active, Starting
  <2>3. /\ Cardinality(Pushing') = Cardinality(Pushing) + 1
        /\ Cardinality(Carriers') = Cardinality(Carriers)
        /\ Cardinality(Leavers') = Cardinality(Leavers)
        /\ Cardinality(Active') = Cardinality(Active)
        /\ Cardinality(Starting') = Cardinality(Starting) + (IF pPc'[t] = "pushMore" THEN 1 ELSE 0)
    BY <2>1, <2>2, PoolShifts DEF Shifted
  <2>4. Owned' = Owned
    BY <2>1, OwnerKept
  <2>5. CASE P!More
    <3>1. pPc'[t] = "pushMore" /\ pParallel' = pParallel + 1 /\ pOld'[t] = pParallel
      BY <1>3, <2>5 DEF P!LockPush
    <3>2. FirstStart' = IF pParallel = 0 THEN FirstStart \cup {t} ELSE FirstStart
      BY <2>1, <2>2, <3>1 DEF FirstStart, Starting, OnlyMoves
    <3>3. pParallel \in Nat /\ (pParallel = 0 => Starting = {})
      BY PoolSizes DEF RunnersCounted
    <3>4. Group' = Group
      BY <3>1, <3>2, <3>3 DEF Group, FirstStart
    <3>5. \A u, v \in FirstStart' : u = v
      BY <3>2, <3>3 DEF RunnersCounted, FirstStart
    <3>0. PoolCounted /\ RunnersCounted /\ Len(pQueue) \in Nat /\ pRef \in Int /\ pParallel \in Int
      OBVIOUS
    <3>. HIDE DEF PoolInv, PoolTypes, PostLabels, CloseLabels, ClientLabels, RunnerLabels,
        BusyLabels
    <3>6. PoolCounted'
      BY <3>0, <2>1, <2>3, <2>4, <3>4, PoolNats DEF PoolCounted
    <3>. QED  BY <3>0, <2>3, <3>1, <3>5, <3>6, PoolSizes DEF RunnersCounted
  <2>6. CASE ~P!More
    <3>1. pPc'[t] = "pushSame" /\ pParallel' = pParallel /\ pOld' = pOld
      BY <1>3, <2>6 DEF P!LockPush
    <3>2. FirstStart' = FirstStart
      BY <2>1, <2>2, <3>1 DEF FirstStart, Starting, OnlyMoves
    <3>4. Group' = Group
      BY <3>1, <3>2 DEF Group
    <3>0. PoolCounted /\ RunnersCounted /\ Len(pQueue) \in Nat /\ pRef \in Int /\ pParallel \in Int
      OBVIOUS
    <3>. HIDE DEF PoolInv, PoolTypes, PostLabels, CloseLabels, ClientLabels, RunnerLabels,
        BusyLabels
    <3>6. PoolCounted'
      BY <3>0, <2>1, <2>3, <2>4, <3>4, PoolNats DEF PoolCounted
    <3>. QED  BY <3>0, <2>3, <3>1, <3>2, <3>6, PoolSizes DEF RunnersCounted
  <2>. QED  BY <2>5, <2>6
<1>4. ASSUME NEW t \in P!PoolThreads, P!Push(t) PROVE PoolCounted' /\ RunnersCounted'
  <2>1. OnlyMoves(t) /\ pPc[t] \in {"pushMore", "pushSame"} /\ pClosing' = pClosing /\ pRef' = pRef
           /\ pParallel' = pParallel /\ pOld' = pOld /\ Len(pQueue') = Len(pQueue) + 1
           /\ pPc'[t] = (IF pPc[t] = "pushMore" THEN "start" ELSE P!Back(t))
    BY <1>4 DEF P!Push, OnlyMoves
  <2>2. /\ t \in Pushing /\ t \notin Pushing' /\ (t \in Carriers <=> t \in Carriers')
        /\ t \notin Leavers /\ t \notin Leavers' /\ (t \in Active <=> t \in Active')
        /\ (t \in Starting <=> t \in Starting')
        /\ (pPc'[t] \in CloseLabels <=> pPc[t] \in CloseLabels)
    BY <2>1 DEF Pushing, Carriers, Carries, Leavers, Active, Starting
  <2>3. /\ Cardinality(Pushing) = Cardinality(Pushing') + 1
        /\ Cardinality(Carriers') = Cardinality(Carriers)
        /\ Cardinality(Leavers') = Cardinality(Leavers)
        /\ Cardinality(Active') = Cardinality(Active)
        /\ Cardinality(Starting') = Cardinality(Starting)
    BY <2>1, <2>2, PoolShifts DEF Shifted
  <2>4. Owned' = Owned
    BY <2>1, <2>2, OwnerKept
  <2>5. FirstStart' = FirstStart
    BY <2>1, <2>2 DEF FirstStart, Starting, OnlyMoves
  <2>6. Group' = Group /\ Len(pQueue) \in Nat /\ Cardinality(Pushing') \in Nat
    BY <2>1, <2>5, PoolShifts DEF Group, Shifted
  <2>0. PoolCounted /\ RunnersCounted /\ Len(pQueue) \in Nat /\ pRef \in Int /\ pParallel \in Int
    OBVIOUS
  <2>. HIDE DEF PoolInv, PoolTypes, PostLabels, CloseLabels, ClientLabels, RunnerLabels,
      BusyLabels
  <2>a. pRef = Owned + Group + Len(pQueue) + Cardinality(Pushing) + Cardinality(Carriers)
               + Cardinality(Leavers)
    BY <2>0 DEF PoolCounted
  <2>b. /\ pRef' = pRef
        /\ Len(pQueue') = Len(pQueue) + 1
        /\ Owned' = Owned
        /\ Group' = Group
        /\ Cardinality(Pushing) = Cardinality(Pushing') + 1
        /\ Cardinality(Carriers') = Cardinality(Carriers)
        /\ Cardinality(Leavers') = Cardinality(Leavers)
    BY <2>1, <2>3, <2>4, <2>6
  <2>c. /\ Owned \in Nat
        /\ Group \in Nat
        /\ Len(pQueue) \in Nat
        /\ Cardinality(Pushing) \in Nat
        /\ Cardinality(Carriers) \in Nat
        /\ Cardinality(Leavers) \in Nat
        /\ Cardinality(Pushing') \in Nat
    BY <2>0, <2>6, PoolNats
  <2>d. pRef' = Owned' + Group' + Len(pQueue') + Cardinality(Pushing') + Cardinality(Carriers')
                + Cardinality(Leavers')
    BY <2>a, <2>b, <2>c
  <2>7. PoolCounted'
    BY <2>d DEF PoolCounted
  <2>. QED  BY <2>0, <2>1, <2>3, <2>5, <2>7, PoolSizes DEF RunnersCounted
<1>5. ASSUME NEW t \in P!PoolThreads, P!StartRunner(t) PROVE PoolCounted' /\ RunnersCounted'
  <2>1. PICK r \in Runners :
           /\ pPc[t] = "start" /\ pPc[r] = "out"
           /\ pRef' = IF pOld[t] = 0 THEN pRef + 1 ELSE pRef
           /\ pPc' = [pPc EXCEPT ![t] = P!Back(t), ![r] = "pop"]
           /\ IF t \in Clients THEN P!Done(t) ELSE UNCHANGED pTask
           /\ pOld' = [pOld EXCEPT ![t] = 0]
           /\ UNCHANGED <<P!workVars, P!flags, pQueue, pMaximum, pClosing, P!bounds>>
    BY <1>5 DEF P!StartRunner
  <2>2. /\ pPc'[t] = P!Back(t) /\ pPc'[r] = "pop" /\ t # r /\ r \in P!PoolThreads
        /\ \A u \in P!PoolThreads : u # t /\ u # r => pPc'[u] = pPc[u]
        /\ \A u \in P!PoolThreads : u # t => pTask'[u] = pTask[u] /\ pOld'[u] = pOld[u]
        /\ t \in Runners => pTask'[t] = pTask[t]
    BY <2>1
  <2>3. /\ Pushing' = Pushing /\ Carriers' = Carriers /\ Leavers' = Leavers
        /\ r \notin Active /\ Active' = Active \cup {r}
        /\ t \in Starting /\ Starting' = Starting \ {t}
    BY <2>1, <2>2 DEF Pushing, Carriers, Carries, Leavers, Active, Starting
  <2>4. /\ Cardinality(Active') = Cardinality(Active) + 1
        /\ Cardinality(Starting) = Cardinality(Starting') + 1 /\ Cardinality(Starting') \in Nat
    <3>1. IsFiniteSet(P!PoolThreads) /\ Active' \in SUBSET P!PoolThreads /\ Starting' \in SUBSET P!PoolThreads
      BY <2>2, <2>3, PoolSets, ThreadsFinite
    <3>2. Shifted(Active, Active', r)
      BY <2>3, <3>1, PoolSets, MoveOne
    <3>3. Shifted(Starting, Starting', t)
      BY <2>3, <3>1, PoolSets, MoveOne
    <3>. QED  BY <2>3, <3>2, <3>3 DEF Shifted
  <2>5. pParallel' = pParallel /\ pParallel > 0
    BY <2>1, <2>4, PoolSizes DEF RunnersCounted
  <2>6. FirstStart' = FirstStart \ {t} /\ (pOld[t] = 0 <=> t \in FirstStart)
    BY <2>2, <2>3, PoolSets DEF FirstStart
  <2>7. Group' = Group + (IF pOld[t] = 0 THEN 1 ELSE 0)
    BY <2>5, <2>6 DEF Group, RunnersCounted
  <2>8. Owned' = Owned
    BY <2>1, <2>2 DEF Owned
  <2>0. PoolCounted /\ RunnersCounted /\ Len(pQueue) \in Nat /\ pRef \in Int /\ pParallel \in Int
    OBVIOUS
  <2>. HIDE DEF PoolInv, PoolTypes, PostLabels, CloseLabels, ClientLabels, RunnerLabels,
      BusyLabels
  <2>a. pRef = Owned + Group + Len(pQueue) + Cardinality(Pushing) + Cardinality(Carriers)
               + Cardinality(Leavers)
    BY <2>0 DEF PoolCounted
  <2>b. /\ pRef' = (IF pOld[t] = 0 THEN pRef + 1 ELSE pRef)
        /\ pQueue' = pQueue
        /\ Owned' = Owned
        /\ Group' = Group + (IF pOld[t] = 0 THEN 1 ELSE 0)
        /\ Cardinality(Pushing') = Cardinality(Pushing)
        /\ Cardinality(Carriers') = Cardinality(Carriers)
        /\ Cardinality(Leavers') = Cardinality(Leavers)
    BY <2>1, <2>3, <2>7, <2>8
  <2>c. /\ Owned \in Nat
        /\ Group \in Nat
        /\ Len(pQueue) \in Nat
        /\ Cardinality(Pushing) \in Nat
        /\ Cardinality(Carriers) \in Nat
        /\ Cardinality(Leavers) \in Nat
        /\ Group' \in Nat
    BY <2>0, <2>7, PoolNats
  <2>d. pRef' = Owned' + Group' + Len(pQueue') + Cardinality(Pushing') + Cardinality(Carriers')
                + Cardinality(Leavers')
    BY <2>a, <2>b, <2>c
  <2>9. PoolCounted'
    BY <2>d DEF PoolCounted
  <2>10. \A u, v \in FirstStart' : u = v
    BY <2>0, <2>6 DEF RunnersCounted
  <2>. QED  BY <2>0, <2>4, <2>5, <2>9, <2>10, PoolSizes DEF RunnersCounted
<1>6. ASSUME NEW t \in P!PoolThreads, P!Pop(t) PROVE PoolCounted' /\ RunnersCounted'
  <2>1. OnlyMoves(t) /\ pPc[t] \in {"pop", "closePop"} /\ pClosing' = pClosing /\ pRef' = pRef
           /\ pParallel' = pParallel /\ pOld' = pOld
           /\ pPc'[t] = (IF pPc[t] = "pop" THEN "popped" ELSE "closePopped")
    BY <1>6 DEF P!Pop, OnlyMoves
  <2>2. \/ pQueue = <<>> /\ pQueue' = pQueue /\ pTask'[t] = Nil
        \/ pQueue # <<>> /\ Len(pQueue) = Len(pQueue') + 1 /\ Len(pQueue') \in Nat /\ pTask'[t] # Nil
    BY <1>6 DEF P!Pop
  <2>3. /\ t \notin Pushing /\ t \notin Pushing'
        /\ t \notin Carriers /\ (t \in Carriers' <=> pQueue # <<>>)
        /\ t \notin Leavers /\ t \notin Leavers' /\ (t \in Active <=> t \in Active')
        /\ t \notin Starting /\ t \notin Starting'
        /\ (pPc'[t] \in CloseLabels <=> pPc[t] \in CloseLabels)
    BY <2>1, <2>2 DEF Pushing, Carriers, Carries, Leavers, Active, Starting
  <2>4. /\ Cardinality(Pushing') = Cardinality(Pushing)
        /\ Cardinality(Carriers') = Cardinality(Carriers) + (IF pQueue = <<>> THEN 0 ELSE 1)
        /\ Cardinality(Leavers') = Cardinality(Leavers)
        /\ Cardinality(Active') = Cardinality(Active)
        /\ Cardinality(Starting') = Cardinality(Starting)
    BY <2>1, <2>3, PoolShifts DEF Shifted
  <2>5. Owned' = Owned
    BY <2>1, <2>3, OwnerKept
  <2>6. FirstStart' = FirstStart
    BY <2>1, <2>3 DEF FirstStart, Starting, OnlyMoves
  <2>7. Group' = Group
    BY <2>1, <2>6 DEF Group
  <2>0. PoolCounted /\ RunnersCounted /\ Len(pQueue) \in Nat /\ pRef \in Int /\ pParallel \in Int
    OBVIOUS
  <2>. HIDE DEF PoolInv, PoolTypes, PostLabels, CloseLabels, ClientLabels, RunnerLabels,
      BusyLabels
  <2>a. pRef = Owned + Group + Len(pQueue) + Cardinality(Pushing) + Cardinality(Carriers)
               + Cardinality(Leavers)
    BY <2>0 DEF PoolCounted
  <2>b. /\ pRef' = pRef
        /\ Len(pQueue) = Len(pQueue') + (IF pQueue = <<>> THEN 0 ELSE 1)
        /\ Owned' = Owned
        /\ Group' = Group
        /\ Cardinality(Pushing') = Cardinality(Pushing)
        /\ Cardinality(Carriers') = Cardinality(Carriers) + (IF pQueue = <<>> THEN 0 ELSE 1)
        /\ Cardinality(Leavers') = Cardinality(Leavers)
    BY <2>0, <2>1, <2>2, <2>4, <2>5, <2>7
  <2>c. /\ Owned \in Nat
        /\ Group \in Nat
        /\ Len(pQueue) \in Nat
        /\ Cardinality(Pushing) \in Nat
        /\ Cardinality(Carriers) \in Nat
        /\ Cardinality(Leavers) \in Nat
        /\ Len(pQueue') \in Nat
    BY <2>0, <2>2, PoolNats
  <2>d. pRef' = Owned' + Group' + Len(pQueue') + Cardinality(Pushing') + Cardinality(Carriers')
                + Cardinality(Leavers')
    <3>1. CASE pQueue = <<>>
      BY <2>a, <2>b, <2>c, <3>1
    <3>2. CASE pQueue # <<>>
      BY <2>a, <2>b, <2>c, <3>2
    <3>. QED  BY <2>b, <3>1, <3>2
  <2>8. PoolCounted'
    BY <2>d DEF PoolCounted
  <2>. QED  BY <2>0, <2>1, <2>4, <2>6, <2>8, PoolSizes DEF RunnersCounted
<1>7. ASSUME NEW t \in P!PoolThreads, P!Unlock(t) PROVE PoolCounted' /\ RunnersCounted'
  <2>1. PoolUnmoved /\ pRef' = pRef /\ pParallel' = pParallel /\ pQueue' = pQueue /\ pClosing' = pClosing
    BY <1>7 DEF P!Unlock, PoolUnmoved, Pushing, Carriers, Carries, Leavers, Active, Starting,
        OnlyMoves
  <2>. QED  BY <2>1, PoolQuiet
<1>8. ASSUME NEW t \in P!PoolThreads, P!ReleaseWork(t) PROVE PoolCounted' /\ RunnersCounted'
  <2>1. PoolUnmoved /\ pRef' = pRef /\ pParallel' = pParallel /\ pQueue' = pQueue /\ pClosing' = pClosing
    BY <1>8 DEF P!ReleaseWork, PoolUnmoved, Pushing, Carriers, Carries, Leavers, Active,
        Starting, OnlyMoves
  <2>. QED  BY <2>1, PoolQuiet
<1>9. ASSUME NEW t \in P!PoolThreads, P!ReleasePool(t) PROVE PoolCounted' /\ RunnersCounted'
  <2>1. OnlyMoves(t) /\ pClosing' = pClosing /\ pRef' = pRef - 1
           /\ pParallel' = pParallel /\ pOld' = pOld /\ pQueue' = pQueue
    BY <1>9 DEF P!ReleasePool, OnlyMoves
  <2>2. \/ pPc[t] = "releasePool" /\ pPc'[t] = "pop"
        \/ pPc[t] = "closeReleasePool" /\ pPc'[t] = "closePop"
        \/ pPc[t] = "releaseLast" /\ pPc'[t] = "out"
        \/ pPc[t] = "closeEnd" /\ pPc'[t] = "out"
    BY <1>9 DEF P!ReleasePool
  <2>3. /\ t \notin Pushing /\ t \notin Pushing' /\ t \notin Carriers' /\ t \notin Leavers'
        /\ (t \in Active <=> t \in Active') /\ t \notin Starting /\ t \notin Starting'
    BY <2>2 DEF Pushing, Carriers, Carries, Leavers, Active, Starting
  <2>4. /\ Cardinality(Pushing') = Cardinality(Pushing)
        /\ Cardinality(Active') = Cardinality(Active)
        /\ Cardinality(Starting') = Cardinality(Starting)
        /\ Cardinality(Carriers') \in Nat /\ Cardinality(Leavers') \in Nat
    BY <2>1, <2>3, PoolShifts DEF Shifted
  <2>6. FirstStart' = FirstStart
    BY <2>1, <2>3 DEF FirstStart, Starting, OnlyMoves
  <2>7. Group' = Group
    BY <2>1, <2>6 DEF Group
  <2>8. \/ /\ Owned = Owned' /\ Cardinality(Carriers) = Cardinality(Carriers') + 1
           /\ Cardinality(Leavers) = Cardinality(Leavers')
        \/ /\ Owned = Owned' /\ Cardinality(Carriers) = Cardinality(Carriers')
           /\ Cardinality(Leavers) = Cardinality(Leavers') + 1
        \/ /\ Owned = Owned' + 1 /\ Cardinality(Carriers) = Cardinality(Carriers')
           /\ Cardinality(Leavers) = Cardinality(Leavers')
    <3>1. CASE pPc[t] \in {"releasePool", "closeReleasePool"}
      <4>1. t \in Carriers /\ t \notin Leavers
        BY <3>1 DEF Carriers, Carries, Leavers
      <4>2. Owned' = Owned
        BY <2>1, <2>2, <3>1, OwnerKept
      <4>. QED  BY <2>1, <2>3, <4>1, <4>2, PoolShifts DEF Shifted
    <3>2. CASE pPc[t] = "releaseLast"
      <4>1. t \notin Carriers /\ t \in Leavers
        BY <3>2 DEF Carriers, Carries, Leavers
      <4>2. Owned' = Owned
        BY <2>1, <2>2, <3>2, OwnerKept
      <4>. QED  BY <2>1, <2>3, <4>1, <4>2, PoolShifts DEF Shifted
    <3>3. CASE pPc[t] = "closeEnd"
      <4>1. t \in Clients /\ pClosing /\ \A c \in Clients : pPc[c] \in CloseLabels => c = t
        BY <3>3 DEF ClosedOnce
      <4>2. \A c \in Clients : pPc'[c] \notin CloseLabels
        BY <2>1, <2>2, <3>3, <4>1 DEF OnlyMoves
      <4>3. Owned = 1 /\ Owned' = 0
        BY <2>1, <3>3, <4>1, <4>2 DEF Owned
      <4>4. t \notin Carriers /\ t \notin Leavers
        BY <3>3, <4>1 DEF Carriers, Carries, Leavers
      <4>. QED  BY <2>1, <2>3, <4>3, <4>4, PoolShifts DEF Shifted
    <3>. QED  BY <2>2, <3>1, <3>2, <3>3
  <2>0. PoolCounted /\ RunnersCounted /\ Len(pQueue) \in Nat /\ pRef \in Int /\ pParallel \in Int
    OBVIOUS
  <2>. HIDE DEF PoolInv, PoolTypes, PostLabels, CloseLabels, ClientLabels, RunnerLabels,
      BusyLabels
  <2>a. pRef = Owned + Group + Len(pQueue) + Cardinality(Pushing) + Cardinality(Carriers)
             + Cardinality(Leavers)
    BY <2>0 DEF PoolCounted
  <2>b. pRef' = pRef - 1 /\ Len(pQueue') = Len(pQueue) /\ Len(pQueue) \in Nat
    BY <2>0, <2>1
  <2>c. /\ Cardinality(Pushing) \in Int /\ Owned \in Int /\ Group \in Int
        /\ Cardinality(Carriers) \in Int /\ Cardinality(Leavers) \in Int /\ Owned' \in Int
        /\ Cardinality(Carriers') \in Int /\ Cardinality(Leavers') \in Int
        /\ Len(pQueue) \in Int
    BY <2>b, <2>4, PoolNats
  <2>e. (Owned + Group + Len(pQueue) + Cardinality(Pushing) + Cardinality(Carriers)
           + Cardinality(Leavers)) - 1
          = Owned' + Group + Len(pQueue) + Cardinality(Pushing) + Cardinality(Carriers')
              + Cardinality(Leavers')
    <3>1. PICK o \in Int, g \in Int, l \in Int, p \in Int, c \in Int, v \in Int :
             /\ o = Owned /\ g = Group /\ l = Len(pQueue) /\ p = Cardinality(Pushing)
             /\ c = Cardinality(Carriers) /\ v = Cardinality(Leavers)
      BY <2>c
    <3>2. PICK o2 \in Int, c2 \in Int, v2 \in Int :
             o2 = Owned' /\ c2 = Cardinality(Carriers') /\ v2 = Cardinality(Leavers')
      BY <2>c
    <3>3. \/ o = o2 /\ c = c2 + 1 /\ v = v2
          \/ o = o2 /\ c = c2 /\ v = v2 + 1
          \/ o = o2 + 1 /\ c = c2 /\ v = v2
      BY <2>8, <3>1, <3>2
    <3>4. (o + g + l + p + c + v) - 1 = o2 + g + l + p + c2 + v2
      BY <3>3, OneLessOf
    <3>. QED  BY <3>1, <3>2, <3>4
  <2>f. pRef - 1 = Owned' + Group + Len(pQueue) + Cardinality(Pushing) + Cardinality(Carriers')
              + Cardinality(Leavers')
    BY <2>a, <2>e
  <2>d. pRef' = Owned' + Group' + Len(pQueue') + Cardinality(Pushing') + Cardinality(Carriers')
              + Cardinality(Leavers')
    BY <2>b, <2>4, <2>7, <2>f
  <2>9. PoolCounted'
    BY <2>d DEF PoolCounted
  <2>. QED  BY <2>0, <2>1, <2>4, <2>6, <2>9, PoolSizes DEF RunnersCounted
<1>10. ASSUME NEW t \in P!PoolThreads, P!SetEvent(t) PROVE PoolCounted' /\ RunnersCounted'
  <2>1. PoolUnmoved /\ pRef' = pRef /\ pParallel' = pParallel /\ pQueue' = pQueue /\ pClosing' = pClosing
    BY <1>10 DEF P!SetEvent, PoolUnmoved, Pushing, Carriers, Carries, Leavers, Active,
        Starting, OnlyMoves
  <2>. QED  BY <2>1, PoolQuiet
<1>11. ASSUME NEW t \in Runners, P!Claim(t) PROVE PoolCounted' /\ RunnersCounted'
  <2>1. PoolUnmoved /\ pRef' = pRef /\ pParallel' = pParallel /\ pQueue' = pQueue /\ pClosing' = pClosing
    BY <1>11 DEF P!Claim, PoolUnmoved, Pushing, Carriers, Carries, Leavers, Active, Starting,
        OnlyMoves
  <2>. QED  BY <2>1, PoolQuiet
<1>12. ASSUME NEW t \in Runners, P!CallbackReturns(t) PROVE PoolCounted' /\ RunnersCounted'
  <2>1. PoolUnmoved /\ pRef' = pRef /\ pParallel' = pParallel /\ pQueue' = pQueue /\ pClosing' = pClosing
    BY <1>12 DEF P!CallbackReturns, PoolUnmoved, Pushing, Carriers, Carries, Leavers, Active,
        Starting, OnlyMoves
  <2>. QED  BY <2>1, PoolQuiet
<1>13. ASSUME NEW t \in Runners, P!LeavePool(t) PROVE PoolCounted' /\ RunnersCounted'
  <2>1. OnlyMoves(t) /\ pClosing' = pClosing /\ pRef' = pRef /\ pOld' = pOld /\ pQueue' = pQueue
           /\ pPc[t] = "leave" /\ t \in P!PoolThreads
    BY <1>13 DEF P!LeavePool, OnlyMoves
  <2>2. CASE pWakeups > 0
    <3>1. pPc'[t] = "pop" /\ pParallel' = pParallel
      BY <1>13, <2>2 DEF P!LeavePool
    <3>2. PoolUnmoved
      BY <1>13, <2>1, <3>1 DEF PoolUnmoved, Pushing, Carriers, Carries, Leavers, Active,
          Starting, OnlyMoves
    <3>. QED  BY <2>1, <3>1, <3>2, PoolQuiet
  <2>3. CASE ~(pWakeups > 0)
    <3>1. pParallel' = pParallel - 1 /\ pPc'[t] = (IF pParallel = 1 THEN "releaseLast" ELSE "out")
      BY <1>13, <2>3 DEF P!LeavePool
    <3>2. /\ t \notin Pushing /\ t \notin Pushing' /\ t \notin Carriers /\ t \notin Carriers'
          /\ t \notin Leavers /\ (t \in Leavers' <=> pParallel = 1)
          /\ t \in Active /\ t \notin Active' /\ t \notin Starting /\ t \notin Starting'
          /\ pPc'[t] \notin CloseLabels /\ pPc[t] \notin CloseLabels
      BY <1>13, <2>1, <3>1 DEF Pushing, Carriers, Carries, Leavers, Active, Starting
    <3>3. /\ Cardinality(Pushing') = Cardinality(Pushing)
          /\ Cardinality(Carriers') = Cardinality(Carriers)
          /\ Cardinality(Leavers') = Cardinality(Leavers) + (IF pParallel = 1 THEN 1 ELSE 0)
          /\ Cardinality(Active) = Cardinality(Active') + 1 /\ Cardinality(Active') \in Nat
          /\ Cardinality(Starting') = Cardinality(Starting)
      BY <2>1, <3>2, PoolShifts DEF Shifted
    <3>4. Owned' = Owned
      BY <2>1, <3>2, OwnerKept
    <3>5. FirstStart' = FirstStart
      BY <2>1, <3>2 DEF FirstStart, Starting, OnlyMoves
    <3>6. pParallel \in Nat /\ pParallel > 0 /\ (pParallel = 1 => Starting = {})
      BY <3>3, PoolSizes DEF RunnersCounted
    <3>7. Group = Group' + (IF pParallel = 1 THEN 1 ELSE 0)
      BY <3>1, <3>5, <3>6 DEF Group, FirstStart
    <3>0. PoolCounted /\ RunnersCounted /\ Len(pQueue) \in Nat /\ pRef \in Int /\ pParallel \in Int
      OBVIOUS
    <3>. HIDE DEF PoolInv, PoolTypes, PostLabels, CloseLabels, ClientLabels, RunnerLabels,
        BusyLabels
    <3>a. pRef = Owned + Group + Len(pQueue) + Cardinality(Pushing) + Cardinality(Carriers)
                 + Cardinality(Leavers)
      BY <3>0 DEF PoolCounted
    <3>b. /\ pRef' = pRef
          /\ pQueue' = pQueue
          /\ Owned' = Owned
          /\ Group = Group' + (IF pParallel = 1 THEN 1 ELSE 0)
          /\ Cardinality(Pushing') = Cardinality(Pushing)
          /\ Cardinality(Carriers') = Cardinality(Carriers)
          /\ Cardinality(Leavers') = Cardinality(Leavers) + (IF pParallel = 1 THEN 1 ELSE 0)
      BY <2>1, <3>3, <3>4, <3>7
    <3>c. /\ Owned \in Nat
          /\ Group \in Nat
          /\ Len(pQueue) \in Nat
          /\ Cardinality(Pushing) \in Nat
          /\ Cardinality(Carriers) \in Nat
          /\ Cardinality(Leavers) \in Nat
          /\ Group' \in Nat
      BY <3>0, <3>3, PoolNats
    <3>d. pRef' = Owned' + Group' + Len(pQueue') + Cardinality(Pushing') + Cardinality(Carriers')
                  + Cardinality(Leavers')
      BY <3>a, <3>b, <3>c
    <3>8. PoolCounted'
      BY <3>d DEF PoolCounted
    <3>. QED  BY <3>0, <3>1, <3>3, <3>5, <3>8, PoolSizes DEF RunnersCounted
  <2>. QED  BY <2>2, <2>3
<1>14. ASSUME NEW t \in Clients, P!CheckWork(t) PROVE PoolCounted' /\ RunnersCounted'
  <2>1. PoolUnmoved /\ pRef' = pRef /\ pParallel' = pParallel /\ pQueue' = pQueue /\ pClosing' = pClosing
    BY <1>14 DEF P!CheckWork, PoolUnmoved, Pushing, Carriers, Carries, Leavers, Active,
        Starting, OnlyMoves
  <2>. QED  BY <2>1, PoolQuiet
<1>15. ASSUME NEW t \in Clients, P!WaitEvent(t) PROVE PoolCounted' /\ RunnersCounted'
  <2>1. PoolUnmoved /\ pRef' = pRef /\ pParallel' = pParallel /\ pQueue' = pQueue /\ pClosing' = pClosing
    BY <1>15 DEF P!WaitEvent, PoolUnmoved, Pushing, Carriers, Carries, Leavers, Active,
        Starting, OnlyMoves
  <2>. QED  BY <2>1, PoolQuiet
<1>16. ASSUME NEW t \in Clients, P!CloseCancel(t) PROVE PoolCounted' /\ RunnersCounted'
  <2>1. PoolUnmoved /\ pRef' = pRef /\ pParallel' = pParallel /\ pQueue' = pQueue /\ pClosing' = pClosing
    BY <1>16 DEF P!CloseCancel, PoolUnmoved, Pushing, Carriers, Carries, Leavers, Active,
        Starting, OnlyMoves
  <2>. QED  BY <2>1, PoolQuiet
<1>17. ASSUME NEW t \in Clients, NEW w \in Works, P!Submit(t, w) PROVE PoolCounted' /\ RunnersCounted'
  <2>1. PoolUnmoved /\ pRef' = pRef /\ pParallel' = pParallel /\ pQueue' = pQueue /\ pClosing' = pClosing
    BY <1>17 DEF P!Submit, P!Post, PoolUnmoved, Pushing, Carriers, Carries, Leavers, Active,
        Starting, OnlyMoves
  <2>. QED  BY <2>1, PoolQuiet
<1>18. ASSUME NEW t \in Clients, NEW w \in Works, P!CloseWork(t, w) PROVE PoolCounted' /\ RunnersCounted'
  <2>1. PoolUnmoved /\ pRef' = pRef /\ pParallel' = pParallel /\ pQueue' = pQueue /\ pClosing' = pClosing
    BY <1>18 DEF P!CloseWork, PoolUnmoved, Pushing, Carriers, Carries, Leavers, Active,
        Starting, OnlyMoves
  <2>. QED  BY <2>1, PoolQuiet
<1>19. ASSUME NEW t \in Clients, NEW w \in Works,
             P!WaitForWork(t, w, TRUE) \/ P!WaitForWork(t, w, FALSE) PROVE PoolCounted' /\ RunnersCounted'
  <2>1. PoolUnmoved /\ pRef' = pRef /\ pParallel' = pParallel /\ pQueue' = pQueue /\ pClosing' = pClosing
    BY <1>19 DEF P!WaitForWork, PoolUnmoved, Pushing, Carriers, Carries, Leavers, Active,
        Starting, OnlyMoves
  <2>. QED  BY <2>1, PoolQuiet
<1>20. ASSUME NEW t \in Clients, P!ClosePool(t) PROVE PoolCounted' /\ RunnersCounted'
  <2>1. OnlyMoves(t) /\ pClosing' /\ ~pClosing /\ pRef' = pRef /\ pOld' = pOld /\ pQueue' = pQueue
           /\ pParallel' = pParallel /\ pPc[t] = "out" /\ pPc'[t] = "closePop" /\ t \in P!PoolThreads
    BY <1>20 DEF P!ClosePool, OnlyMoves
  <2>2. /\ Pushing' = Pushing /\ Carriers' = Carriers /\ Leavers' = Leavers
        /\ Active' = Active /\ Starting' = Starting
    BY <1>20, <2>1 DEF Pushing, Carriers, Carries, Leavers, Active, Starting, OnlyMoves
  <2>3. FirstStart' = FirstStart /\ Group' = Group
    BY <2>1, <2>2 DEF FirstStart, Group
  <2>4. Owned' = 1 /\ Owned = 1
    BY <2>1 DEF Owned
  <2>. QED  BY <2>1, <2>2, <2>3, <2>4 DEF PoolCounted, RunnersCounted
<1>21. ASSUME NEW t \in Runners, P!Resubmit(t) PROVE PoolCounted' /\ RunnersCounted'
  <2>1. PoolUnmoved /\ pRef' = pRef /\ pParallel' = pParallel /\ pQueue' = pQueue /\ pClosing' = pClosing
    BY <1>21 DEF P!Resubmit, P!Post, PoolUnmoved, Pushing, Carriers, Carries, Leavers, Active,
        Starting, OnlyMoves
  <2>. QED  BY <2>1, PoolQuiet
<1>22. CASE UNCHANGED P!vars
  <2>1. PoolUnmoved /\ pRef' = pRef /\ pParallel' = pParallel /\ pQueue' = pQueue /\ pClosing' = pClosing
    BY <1>22 DEF P!vars, P!workVars, P!poolVars, P!flags, P!bounds, PoolUnmoved, Pushing,
        Carriers, Carries, Leavers, Active, Starting, OnlyMoves
  <2>. QED  BY <2>1, PoolQuiet
<1>23. ASSUME NEW t \in P!PoolThreads, P!Step(t) PROVE PoolCounted' /\ RunnersCounted'
  BY <1>1, <1>2, <1>3, <1>4, <1>5, <1>6, <1>7, <1>8, <1>9, <1>10, <1>11, <1>12, <1>13, <1>14,
      <1>15, <1>16, <1>23 DEF P!Step
<1>24. ASSUME NEW c \in Clients, P!Call(c) PROVE PoolCounted' /\ RunnersCounted'
  <2>1. ASSUME NEW w \in Works, \E cancel \in BOOLEAN : P!WaitForWork(c, w, cancel) PROVE PoolCounted' /\ RunnersCounted'
    BY <2>1, PoolWaitCases, <1>19
  <2>. QED  BY <1>17, <1>18, <1>20, <1>24, <2>1 DEF P!Call
<1>. QED  BY <1>21, <1>22, <1>23, <1>24 DEF P!Next

-----------------------------------------------------------------------------
(* The references of the work objects.                                     *)
WorksUnmoved ==
  /\ \A w \in Works, u \in P!PoolThreads :
       /\ (u \in NewFor(w))' <=> u \in NewFor(w)
       /\ (u \in HeldFor(w))' <=> u \in HeldFor(w)
  /\ \A c \in Clients :
       pPc'[c] \in {"checkWork", "waitEvent"} =>
         \/ pPc[c] \in {"checkWork", "waitEvent"} /\ pTask'[c] = pTask[c]
         \/ pTask'[c] \notin pWclosed

LEMMA WorksQuiet ==
  ASSUME PoolInv, WorksUnmoved, pWref' = pWref, pWclosed' = pWclosed, pQueue' = pQueue
  PROVE  WorksCounted'
<1>1. \A w \in Works : NewFor(w)' = NewFor(w) /\ HeldFor(w)' = HeldFor(w) /\ Queued(w)' = Queued(w)
  BY DEF WorksUnmoved, NewFor, HeldFor, Queued
<1>2. \A w \in Works : OpenFor(w)' = OpenFor(w)
  BY DEF OpenFor
<1>3. WorksCounted
  BY DEF PoolInv
<1>4. ASSUME NEW w \in Works
      PROVE  pWref'[w] = OpenFor(w)' + Cardinality(Queued(w)') + Cardinality(NewFor(w)')
                          + Cardinality(HeldFor(w)')
  BY <1>1, <1>2, <1>3 DEF WorksCounted
<1>5. \A c \in Clients : pPc'[c] \in {"checkWork", "waitEvent"} => pTask'[c] \notin pWclosed'
  BY <1>3 DEF WorksUnmoved, WorksCounted
<1>. QED  BY <1>4, <1>5 DEF WorksCounted

LEMMA WorkShifts ==
  ASSUME PoolFinite, NEW t \in P!PoolThreads, OnlyMoves(t), NEW w
  PROVE  Shifted(NewFor(w), NewFor(w)', t) /\ Shifted(HeldFor(w), HeldFor(w)', t)
<1>1. IsFiniteSet(P!PoolThreads)
  BY ThreadsFinite
<1>2. NewFor(w) \in SUBSET P!PoolThreads /\ NewFor(w)' \in SUBSET P!PoolThreads
         /\ \A u \in P!PoolThreads : u # t => (u \in NewFor(w) <=> u \in NewFor(w)')
  BY DEF NewFor, OnlyMoves
<1>3. HeldFor(w) \in SUBSET P!PoolThreads /\ HeldFor(w)' \in SUBSET P!PoolThreads
         /\ \A u \in P!PoolThreads : u # t => (u \in HeldFor(w) <=> u \in HeldFor(w)')
  BY DEF HeldFor, Holds, OnlyMoves
<1>. QED  BY <1>1, <1>2, <1>3, MoveOne

(* Every step that changes what a work object owes changes two of the      *)
(* numbers, or one and the references.                                     *)
Same(m, n) == m \in Int /\ n \in Int /\ n = m
Plus(m, n) == m \in Int /\ n \in Int /\ n = m + 1

Counted(w) ==
  pWref[w] = OpenFor(w) + Cardinality(Queued(w)) + Cardinality(NewFor(w)) + Cardinality(HeldFor(w))

LEMMA WorkMoves ==
  ASSUME NEW w, Counted(w), pWref[w] \in Int, pWref'[w] \in Int,
         LET refs == pWref[w]  open == OpenFor(w)  queued == Cardinality(Queued(w))
             new == Cardinality(NewFor(w))  held == Cardinality(HeldFor(w))
             refs2 == pWref'[w]  open2 == OpenFor(w)'  queued2 == Cardinality(Queued(w)')
             new2 == Cardinality(NewFor(w)')  held2 == Cardinality(HeldFor(w)') IN
         \/ Same(refs, refs2) /\ Same(open, open2) /\ Same(queued, queued2) /\ Same(new, new2) /\ Same(held, held2)
         \/ Plus(refs, refs2) /\ Same(open, open2) /\ Same(queued, queued2) /\ Plus(new, new2) /\ Same(held, held2)
         \/ Same(refs, refs2) /\ Same(open, open2) /\ Plus(queued, queued2) /\ Plus(new2, new) /\ Same(held, held2)
         \/ Same(refs, refs2) /\ Same(open, open2) /\ Plus(queued2, queued) /\ Same(new, new2) /\ Plus(held, held2)
         \/ Plus(refs2, refs) /\ Same(open, open2) /\ Same(queued, queued2) /\ Same(new, new2) /\ Plus(held2, held)
         \/ Plus(refs2, refs) /\ Plus(open2, open) /\ Same(queued, queued2) /\ Same(new, new2) /\ Same(held, held2)
  PROVE  Counted(w)'
<1>1. /\ OpenFor(w) \in Int /\ OpenFor(w)' \in Int
      /\ Cardinality(Queued(w)) \in Int /\ Cardinality(Queued(w)') \in Int
      /\ Cardinality(NewFor(w)) \in Int /\ Cardinality(NewFor(w)') \in Int
      /\ Cardinality(HeldFor(w)) \in Int /\ Cardinality(HeldFor(w)') \in Int
  BY DEF Same, Plus
<1>2. PICK r \in Int, o \in Int, q \in Int, n \in Int, h \in Int :
         /\ r = pWref[w] /\ o = OpenFor(w) /\ q = Cardinality(Queued(w))
         /\ n = Cardinality(NewFor(w)) /\ h = Cardinality(HeldFor(w))
  BY <1>1
<1>3. PICK r2 \in Int, o2 \in Int, q2 \in Int, n2 \in Int, h2 \in Int :
         /\ r2 = pWref'[w] /\ o2 = OpenFor(w)' /\ q2 = Cardinality(Queued(w)')
         /\ n2 = Cardinality(NewFor(w)') /\ h2 = Cardinality(HeldFor(w)')
  BY <1>1
<1>4. \/ Same(r, r2) /\ Same(o, o2) /\ Same(q, q2) /\ Same(n, n2) /\ Same(h, h2)
      \/ Plus(r, r2) /\ Same(o, o2) /\ Same(q, q2) /\ Plus(n, n2) /\ Same(h, h2)
      \/ Same(r, r2) /\ Same(o, o2) /\ Plus(q, q2) /\ Plus(n2, n) /\ Same(h, h2)
      \/ Same(r, r2) /\ Same(o, o2) /\ Plus(q2, q) /\ Same(n, n2) /\ Plus(h, h2)
      \/ Plus(r2, r) /\ Same(o, o2) /\ Same(q, q2) /\ Same(n, n2) /\ Plus(h2, h)
      \/ Plus(r2, r) /\ Plus(o2, o) /\ Same(q, q2) /\ Same(n, n2) /\ Same(h, h2)
  BY <1>2, <1>3
<1>5. r = o + q + n + h
  BY <1>2 DEF Counted
<1>6. r2 = o2 + q2 + n2 + h2
  BY <1>4, <1>5 DEF Same, Plus
<1>. QED  BY <1>3, <1>6 DEF Counted

(* How the counts move when one thread does.                               *)
LEMMA WorkSteps ==
  ASSUME PoolFinite, NEW t \in P!PoolThreads, OnlyMoves(t), NEW w
  PROVE  /\ (t \in NewFor(w) <=> t \in NewFor(w)') =>
              Same(Cardinality(NewFor(w)), Cardinality(NewFor(w)'))
         /\ (t \notin NewFor(w) /\ t \in NewFor(w)') =>
              Plus(Cardinality(NewFor(w)), Cardinality(NewFor(w)'))
         /\ (t \in NewFor(w) /\ t \notin NewFor(w)') =>
              Plus(Cardinality(NewFor(w)'), Cardinality(NewFor(w)))
         /\ (t \in HeldFor(w) <=> t \in HeldFor(w)') =>
              Same(Cardinality(HeldFor(w)), Cardinality(HeldFor(w)'))
         /\ (t \notin HeldFor(w) /\ t \in HeldFor(w)') =>
              Plus(Cardinality(HeldFor(w)), Cardinality(HeldFor(w)'))
         /\ (t \in HeldFor(w) /\ t \notin HeldFor(w)') =>
              Plus(Cardinality(HeldFor(w)'), Cardinality(HeldFor(w)))
BY WorkShifts DEF Shifted, Same, Plus

LEMMA WorkFacts ==
  ASSUME PoolInv, PoolTypes', NEW w \in Works
  PROVE  /\ Counted(w) /\ pWref[w] \in Int /\ pWref'[w] \in Int
         /\ (pWclosed' = pWclosed) => Same(OpenFor(w), OpenFor(w)')
         /\ (pQueue' = pQueue) => Same(Cardinality(Queued(w)), Cardinality(Queued(w)'))
<1>1. Counted(w) /\ pWref[w] \in Int /\ pWref'[w] \in Int
  BY DEF PoolInv, WorksCounted, Counted, PoolTypes
<1>2. (pWclosed' = pWclosed) => Same(OpenFor(w), OpenFor(w)')
  BY DEF OpenFor, Same
<1>3. Cardinality(Queued(w)) \in Int
  BY PlacesFinite DEF PoolInv, PoolTypes, Queued
<1>4. (pQueue' = pQueue) => Same(Cardinality(Queued(w)), Cardinality(Queued(w)'))
  BY <1>3 DEF Queued, Same
<1>. QED  BY <1>1, <1>2, <1>4

LEMMA WorksCountedStep ==
  ASSUME PoolFinite, PoolInv, [P!Next]_(P!vars), PoolTypes'
  PROVE  WorksCounted'
<1>. USE DEF PoolInv, PoolTypes, P!PoolThreads, PoolFinite, P!Goto, P!Back, P!Done,
    P!workVars, P!poolVars, P!flags, P!bounds,
    PostLabels, CloseLabels, ClientLabels, RunnerLabels, BusyLabels
<1>1. ASSUME NEW t \in P!PoolThreads, P!AddPending(t) PROVE WorksCounted'
  <2>1. WorksUnmoved /\ pWref' = pWref /\ pWclosed' = pWclosed /\ pQueue' = pQueue
    BY <1>1 DEF P!AddPending, WorksUnmoved, NewFor, HeldFor, Holds
  <2>. QED  BY <2>1, WorksQuiet
<1>2. ASSUME NEW t \in P!PoolThreads, P!ResetEvent(t) PROVE WorksCounted'
  <2>1. WorksUnmoved /\ pWref' = pWref /\ pWclosed' = pWclosed /\ pQueue' = pQueue
    BY <1>2 DEF P!ResetEvent, WorksUnmoved, NewFor, HeldFor, Holds
  <2>. QED  BY <2>1, WorksQuiet
<1>3. ASSUME NEW t \in P!PoolThreads, P!LockPush(t) PROVE WorksCounted'
  <2>1. WorksUnmoved /\ pWref' = pWref /\ pWclosed' = pWclosed /\ pQueue' = pQueue
    BY <1>3 DEF P!LockPush, WorksUnmoved, NewFor, HeldFor, Holds
  <2>. QED  BY <2>1, WorksQuiet
<1>4. ASSUME NEW t \in P!PoolThreads, P!Push(t) PROVE WorksCounted'
  <2>1. OnlyMoves(t) /\ pWclosed' = pWclosed /\ pQueue' = Append(pQueue, pTask[t]) /\ pWref' = pWref
           /\ pPc[t] \in {"pushMore", "pushSame"} /\ pTask[t] \in Works
           /\ pPc'[t] = (IF pPc[t] = "pushMore" THEN "start" ELSE P!Back(t))
           /\ (t \in Runners => pTask'[t] = pTask[t])
    BY <1>4 DEF P!Push, OnlyMoves
  <2>2. \A v \in Works :
           /\ (t \in NewFor(v) <=> v = pTask[t]) /\ t \notin NewFor(v)'
           /\ (t \in HeldFor(v)' <=> t \in HeldFor(v))
    BY <2>1 DEF NewFor, HeldFor, Holds
  <2>3. pQueue \in Seq(Works)
    OBVIOUS
  <2>8. ASSUME NEW v \in Works PROVE Counted(v)'
    <3>. HIDE DEF PoolInv, PoolTypes, PoolFinite, P!PoolThreads, PostLabels, CloseLabels,
      ClientLabels, RunnerLabels, BusyLabels, WorksCounted
    <3>1. Counted(v) /\ pWref[v] \in Int /\ pWref'[v] \in Int
      BY WorkFacts
    <3>2. Same(OpenFor(v), OpenFor(v)')
      BY <2>1, WorkFacts
    <3>3. Cardinality(Queued(v)') = Cardinality(Queued(v)) + (IF pTask[t] = v THEN 1 ELSE 0) /\ Cardinality(Queued(v)) \in Int
      BY <2>1, <2>3, PlacesAppend, PlacesFinite DEF Queued
    <3>4. IF v = pTask[t] THEN Plus(Cardinality(Queued(v)), Cardinality(Queued(v)')) ELSE Same(Cardinality(Queued(v)), Cardinality(Queued(v)'))
      BY <3>3 DEF Same, Plus
    <3>5. CASE v = pTask[t]
      <4>1. Same(pWref[v], pWref'[v])
        BY <2>1, <3>1, <3>5 DEF Same, Plus
      <4>2. /\ Plus(Cardinality(NewFor(v)'), Cardinality(NewFor(v)))
             /\ Same(Cardinality(HeldFor(v)), Cardinality(HeldFor(v)'))
        BY <2>1, <2>2, <3>5, WorkSteps
      <4>. QED  BY <3>1, <3>2, <3>4, <3>5, <4>1, <4>2, WorkMoves
    <3>6. CASE v # pTask[t]
      <4>1. Same(pWref[v], pWref'[v])
        BY <2>1, <3>1, <3>6 DEF Same, Plus
      <4>2. /\ Same(Cardinality(NewFor(v)), Cardinality(NewFor(v)'))
             /\ Same(Cardinality(HeldFor(v)), Cardinality(HeldFor(v)'))
        BY <2>1, <2>2, <3>6, WorkSteps
      <4>. QED  BY <3>1, <3>2, <3>4, <3>6, <4>1, <4>2, WorkMoves
    <3>. QED  BY <3>5, <3>6
  <2>9. \A c \in Clients : pPc'[c] \in {"checkWork", "waitEvent"} => pTask'[c] \notin pWclosed'
    BY <2>1 DEF OnlyMoves, WorksCounted
  <2>. QED  BY <2>8, <2>9 DEF WorksCounted, Counted
<1>5. ASSUME NEW t \in P!PoolThreads, P!StartRunner(t) PROVE WorksCounted'
  <2>1. WorksUnmoved /\ pWref' = pWref /\ pWclosed' = pWclosed /\ pQueue' = pQueue
    BY <1>5 DEF P!StartRunner, WorksUnmoved, NewFor, HeldFor, Holds
  <2>. QED  BY <2>1, WorksQuiet
<1>6. ASSUME NEW t \in P!PoolThreads, P!Pop(t) PROVE WorksCounted'
  <2>1. OnlyMoves(t) /\ pWclosed' = pWclosed /\ pWref' = pWref
           /\ pPc[t] \in {"pop", "closePop"} /\ pPc'[t] \in {"popped", "closePopped"}
    BY <1>6 DEF P!Pop, OnlyMoves
  <2>2. CASE pQueue = <<>>
    <3>1. pQueue' = pQueue /\ pTask'[t] = Nil
      BY <1>6, <2>2 DEF P!Pop
    <3>2. WorksUnmoved
      BY <2>1, <3>1 DEF WorksUnmoved, OnlyMoves, NewFor, HeldFor, Holds
    <3>. QED  BY <2>1, <3>1, <3>2, WorksQuiet
  <2>3. CASE pQueue # <<>>
    <3>1. pQueue' = Tail(pQueue) /\ pTask'[t] = Head(pQueue)
      BY <1>6, <2>3 DEF P!Pop
    <3>0. pQueue \in Seq(Works) /\ Tail(pQueue) \in Seq(Works) /\ t \in P!PoolThreads
      BY <2>3
    <3>2. \A v \in Works :
             /\ t \notin HeldFor(v) /\ (t \in HeldFor(v)' <=> v = Head(pQueue))
             /\ t \notin NewFor(v) /\ t \notin NewFor(v)'
      BY <2>1, <3>1 DEF NewFor, HeldFor, Holds
    <3>8. ASSUME NEW v \in Works PROVE Counted(v)'
      <4>. HIDE DEF PoolInv, PoolTypes, PoolFinite, P!PoolThreads, PostLabels, CloseLabels,
      ClientLabels, RunnerLabels, BusyLabels, WorksCounted
      <4>1. Counted(v) /\ pWref[v] \in Int /\ pWref'[v] \in Int
        BY WorkFacts
      <4>2. Same(OpenFor(v), OpenFor(v)')
        BY <2>1, WorkFacts
      <4>3. Cardinality(Queued(v)) = Cardinality(Queued(v)') + (IF Head(pQueue) = v THEN 1 ELSE 0) /\ Cardinality(Queued(v)') \in Int
        <5>1. Cardinality(Places(pQueue, v)) = Cardinality(Places(Tail(pQueue), v)) + (IF Head(pQueue) = v THEN 1 ELSE 0)
          BY <2>3, <3>0, PlacesTail
        <5>2. Cardinality(Places(Tail(pQueue), v)) \in Nat
          BY <3>0, PlacesFinite
        <5>. QED  BY <3>1, <5>1, <5>2 DEF Queued
      <4>4. IF v = Head(pQueue) THEN Plus(Cardinality(Queued(v)'), Cardinality(Queued(v))) ELSE Same(Cardinality(Queued(v)), Cardinality(Queued(v)'))
        BY <4>3 DEF Same, Plus
      <4>5. CASE v = Head(pQueue)
        <5>1. Same(pWref[v], pWref'[v])
          BY <2>1, <4>1, <4>5 DEF Same, Plus
        <5>2. /\ Same(Cardinality(NewFor(v)), Cardinality(NewFor(v)'))
               /\ Plus(Cardinality(HeldFor(v)), Cardinality(HeldFor(v)'))
          BY <2>1, <3>2, <4>5, WorkSteps
        <5>. QED  BY <4>1, <4>2, <4>4, <4>5, <5>1, <5>2, WorkMoves
      <4>6. CASE v # Head(pQueue)
        <5>1. Same(pWref[v], pWref'[v])
          BY <2>1, <4>1, <4>6 DEF Same, Plus
        <5>2. /\ Same(Cardinality(NewFor(v)), Cardinality(NewFor(v)'))
               /\ Same(Cardinality(HeldFor(v)), Cardinality(HeldFor(v)'))
          BY <2>1, <3>2, <4>6, WorkSteps
        <5>. QED  BY <4>1, <4>2, <4>4, <4>6, <5>1, <5>2, WorkMoves
      <4>. QED  BY <4>5, <4>6
    <3>9. \A c \in Clients : pPc'[c] \in {"checkWork", "waitEvent"} => pTask'[c] \notin pWclosed'
      BY <2>1 DEF OnlyMoves, WorksCounted
    <3>. QED  BY <3>8, <3>9 DEF WorksCounted, Counted
  <2>. QED  BY <2>2, <2>3
<1>7. ASSUME NEW t \in P!PoolThreads, P!Unlock(t) PROVE WorksCounted'
  <2>1. WorksUnmoved /\ pWref' = pWref /\ pWclosed' = pWclosed /\ pQueue' = pQueue
    BY <1>7 DEF P!Unlock, WorksUnmoved, NewFor, HeldFor, Holds
  <2>. QED  BY <2>1, WorksQuiet
<1>8. ASSUME NEW t \in P!PoolThreads, P!ReleaseWork(t) PROVE WorksCounted'
  <2>1. OnlyMoves(t) /\ pWclosed' = pWclosed /\ pQueue' = pQueue /\ pTask[t] \in Works
           /\ pPc[t] \in {"releaseWork", "closeReleaseWork"}
           /\ pPc'[t] \in {"releasePool", "closeReleasePool"}
           /\ \A v \in Works : pWref'[v] = IF v = pTask[t] THEN pWref[v] - 1 ELSE pWref[v]
    BY <1>8 DEF P!ReleaseWork, OnlyMoves
  <2>2. \A v \in Works :
           /\ (t \in HeldFor(v) <=> v = pTask[t]) /\ t \notin HeldFor(v)'
           /\ t \notin NewFor(v) /\ t \notin NewFor(v)'
    BY <2>1 DEF NewFor, HeldFor, Holds
  <2>8. ASSUME NEW v \in Works PROVE Counted(v)'
    <3>. HIDE DEF PoolInv, PoolTypes, PoolFinite, P!PoolThreads, PostLabels, CloseLabels,
      ClientLabels, RunnerLabels, BusyLabels, WorksCounted
    <3>1. Counted(v) /\ pWref[v] \in Int /\ pWref'[v] \in Int
      BY WorkFacts
    <3>2. Same(OpenFor(v), OpenFor(v)') /\ Same(Cardinality(Queued(v)), Cardinality(Queued(v)'))
      BY <2>1, WorkFacts
    <3>5. CASE v = pTask[t]
      <4>1. Plus(pWref'[v], pWref[v])
        BY <2>1, <3>1, <3>5 DEF Same, Plus
      <4>2. /\ Same(Cardinality(NewFor(v)), Cardinality(NewFor(v)'))
             /\ Plus(Cardinality(HeldFor(v)'), Cardinality(HeldFor(v)))
        BY <2>1, <2>2, <3>5, WorkSteps
      <4>. QED  BY <3>1, <3>2, <3>5, <4>1, <4>2, WorkMoves
    <3>6. CASE v # pTask[t]
      <4>1. Same(pWref[v], pWref'[v])
        BY <2>1, <3>1, <3>6 DEF Same, Plus
      <4>2. /\ Same(Cardinality(NewFor(v)), Cardinality(NewFor(v)'))
             /\ Same(Cardinality(HeldFor(v)), Cardinality(HeldFor(v)'))
        BY <2>1, <2>2, <3>6, WorkSteps
      <4>. QED  BY <3>1, <3>2, <3>6, <4>1, <4>2, WorkMoves
    <3>. QED  BY <3>5, <3>6
  <2>9. \A c \in Clients : pPc'[c] \in {"checkWork", "waitEvent"} => pTask'[c] \notin pWclosed'
    BY <2>1 DEF OnlyMoves, WorksCounted
  <2>. QED  BY <2>8, <2>9 DEF WorksCounted, Counted
<1>9. ASSUME NEW t \in P!PoolThreads, P!ReleasePool(t) PROVE WorksCounted'
  <2>1. WorksUnmoved /\ pWref' = pWref /\ pWclosed' = pWclosed /\ pQueue' = pQueue
    BY <1>9 DEF P!ReleasePool, WorksUnmoved, NewFor, HeldFor, Holds
  <2>. QED  BY <2>1, WorksQuiet
<1>10. ASSUME NEW t \in P!PoolThreads, P!SetEvent(t) PROVE WorksCounted'
  <2>1. WorksUnmoved /\ pWref' = pWref /\ pWclosed' = pWclosed /\ pQueue' = pQueue
    BY <1>10 DEF P!SetEvent, WorksUnmoved, NewFor, HeldFor, Holds
  <2>. QED  BY <2>1, WorksQuiet
<1>11. ASSUME NEW t \in Runners, P!Claim(t) PROVE WorksCounted'
  <2>1. WorksUnmoved /\ pWref' = pWref /\ pWclosed' = pWclosed /\ pQueue' = pQueue
    BY <1>11 DEF P!Claim, WorksUnmoved, NewFor, HeldFor, Holds
  <2>. QED  BY <2>1, WorksQuiet
<1>12. ASSUME NEW t \in Runners, P!CallbackReturns(t) PROVE WorksCounted'
  <2>1. WorksUnmoved /\ pWref' = pWref /\ pWclosed' = pWclosed /\ pQueue' = pQueue
    BY <1>12 DEF P!CallbackReturns, WorksUnmoved, NewFor, HeldFor, Holds
  <2>. QED  BY <2>1, WorksQuiet
<1>13. ASSUME NEW t \in Runners, P!LeavePool(t) PROVE WorksCounted'
  <2>1. WorksUnmoved /\ pWref' = pWref /\ pWclosed' = pWclosed /\ pQueue' = pQueue
    BY <1>13 DEF P!LeavePool, WorksUnmoved, NewFor, HeldFor, Holds
  <2>. QED  BY <2>1, WorksQuiet
<1>14. ASSUME NEW t \in Clients, P!CheckWork(t) PROVE WorksCounted'
  <2>1. WorksUnmoved /\ pWref' = pWref /\ pWclosed' = pWclosed /\ pQueue' = pQueue
    BY <1>14 DEF P!CheckWork, WorksUnmoved, NewFor, HeldFor, Holds
  <2>. QED  BY <2>1, WorksQuiet
<1>15. ASSUME NEW t \in Clients, P!WaitEvent(t) PROVE WorksCounted'
  <2>1. WorksUnmoved /\ pWref' = pWref /\ pWclosed' = pWclosed /\ pQueue' = pQueue
    BY <1>15 DEF P!WaitEvent, WorksUnmoved, NewFor, HeldFor, Holds
  <2>. QED  BY <2>1, WorksQuiet
<1>16. ASSUME NEW t \in Clients, P!CloseCancel(t) PROVE WorksCounted'
  <2>1. WorksUnmoved /\ pWref' = pWref /\ pWclosed' = pWclosed /\ pQueue' = pQueue
    BY <1>16 DEF P!CloseCancel, WorksUnmoved, NewFor, HeldFor, Holds
  <2>. QED  BY <2>1, WorksQuiet
<1>17. ASSUME NEW t \in Clients, NEW w \in Works, P!Submit(t, w) PROVE WorksCounted'
  <2>1. CASE pStop
    <3>1. WorksUnmoved /\ pWref' = pWref /\ pWclosed' = pWclosed /\ pQueue' = pQueue
      BY <1>17, <2>1 DEF P!Submit, P!Post, WorksUnmoved, NewFor, HeldFor, Holds
    <3>. QED  BY <3>1, WorksQuiet
  <2>2. CASE ~pStop
    <3>1. OnlyMoves(t) /\ pWclosed' = pWclosed /\ pQueue' = pQueue /\ pPc'[t] = "addPending"
             /\ pTask'[t] = w /\ w \in Works /\ t \in P!PoolThreads
             /\ \A v \in Works : pWref'[v] = IF v = w THEN pWref[v] + 1 ELSE pWref[v]
      BY <1>17, <2>2 DEF P!Submit, P!Post, OnlyMoves
    <3>2. \A v \in Works :
             /\ t \notin NewFor(v) /\ (t \in NewFor(v)' <=> v = w)
             /\ (t \in HeldFor(v)' <=> t \in HeldFor(v))
      BY <1>17, <3>1 DEF P!Submit, NewFor, HeldFor, Holds
    <3>8. ASSUME NEW v \in Works PROVE Counted(v)'
      <4>. HIDE DEF PoolInv, PoolTypes, PoolFinite, P!PoolThreads, PostLabels, CloseLabels,
      ClientLabels, RunnerLabels, BusyLabels, WorksCounted
      <4>1. Counted(v) /\ pWref[v] \in Int /\ pWref'[v] \in Int
        BY WorkFacts
      <4>2. Same(OpenFor(v), OpenFor(v)') /\ Same(Cardinality(Queued(v)), Cardinality(Queued(v)'))
        BY <3>1, WorkFacts
      <4>5. CASE v = w
        <5>1. Plus(pWref[v], pWref'[v])
          BY <3>1, <4>1, <4>5 DEF Same, Plus
        <5>2. /\ Plus(Cardinality(NewFor(v)), Cardinality(NewFor(v)'))
               /\ Same(Cardinality(HeldFor(v)), Cardinality(HeldFor(v)'))
          BY <3>1, <3>2, <4>5, WorkSteps
        <5>. QED  BY <4>1, <4>2, <4>5, <5>1, <5>2, WorkMoves
      <4>6. CASE v # w
        <5>1. Same(pWref[v], pWref'[v])
          BY <3>1, <4>1, <4>6 DEF Same, Plus
        <5>2. /\ Same(Cardinality(NewFor(v)), Cardinality(NewFor(v)'))
               /\ Same(Cardinality(HeldFor(v)), Cardinality(HeldFor(v)'))
          BY <3>1, <3>2, <4>6, WorkSteps
        <5>. QED  BY <4>1, <4>2, <4>6, <5>1, <5>2, WorkMoves
      <4>. QED  BY <4>5, <4>6
    <3>9. \A c \in Clients : pPc'[c] \in {"checkWork", "waitEvent"} => pTask'[c] \notin pWclosed'
      BY <3>1 DEF OnlyMoves, WorksCounted
    <3>. QED  BY <3>8, <3>9 DEF WorksCounted, Counted
  <2>. QED  BY <2>1, <2>2
<1>18. ASSUME NEW t \in Clients, NEW w \in Works, P!CloseWork(t, w) PROVE WorksCounted'
  <2>2. pWref' = [pWref EXCEPT ![w] = @ - 1] /\ pWref \in [Works -> Int]
    BY <1>18 DEF P!CloseWork
  <2>3. pWclosed' = pWclosed \cup {w} /\ w \notin pWclosed /\ UNCHANGED <<pQueue, pPc, pTask>>
    BY <1>18 DEF P!CloseWork
  <2>4. \A c \in Clients : pPc[c] # "out" => pTask[c] # w
    BY <1>18 DEF P!CloseWork, P!Busy
  <2>5. \A v \in Works : pWref'[v] = IF v = w THEN pWref[v] - 1 ELSE pWref[v]
    BY <2>2
  <2>1. pWclosed' = pWclosed \cup {w} /\ w \notin pWclosed /\ UNCHANGED <<pQueue, pPc, pTask>>
           /\ (\A v \in Works : pWref'[v] = IF v = w THEN pWref[v] - 1 ELSE pWref[v])
           /\ (\A c \in Clients : pPc[c] # "out" => pTask[c] # w)
    BY <2>3, <2>4, <2>5
  <2>8. ASSUME NEW v \in Works PROVE Counted(v)'
    <3>. HIDE DEF PoolInv, PoolTypes, PoolFinite, P!PoolThreads, PostLabels, CloseLabels,
      ClientLabels, RunnerLabels, BusyLabels, WorksCounted
    <3>1. Counted(v) /\ pWref[v] \in Int /\ pWref'[v] \in Int
      BY WorkFacts
    <3>2. /\ Same(Cardinality(NewFor(v)), Cardinality(NewFor(v)'))
          /\ Same(Cardinality(HeldFor(v)), Cardinality(HeldFor(v)'))
          /\ Same(Cardinality(Queued(v)), Cardinality(Queued(v)'))
      <4>1. NewFor(v)' = NewFor(v) /\ HeldFor(v)' = HeldFor(v)
        BY <2>1 DEF NewFor, HeldFor, Holds, P!PoolThreads
      <4>2. Cardinality(NewFor(v)) \in Nat /\ Cardinality(HeldFor(v)) \in Nat
        BY ThreadsFinite, PoolSets, HasSome
      <4>. QED  BY <2>1, <4>1, <4>2, WorkFacts DEF Same
    <3>5. CASE v = w
      <4>1. Plus(pWref'[v], pWref[v]) /\ Plus(OpenFor(v)', OpenFor(v))
        BY <2>1, <3>1, <3>5 DEF Plus, OpenFor
      <4>. QED  BY <3>1, <3>2, <4>1, WorkMoves
    <3>6. CASE v # w
      <4>0. OpenFor(v) \in Int /\ OpenFor(v)' = OpenFor(v)
        BY <2>1, <3>6 DEF OpenFor
      <4>1. Same(pWref[v], pWref'[v]) /\ Same(OpenFor(v), OpenFor(v)')
        BY <2>1, <3>1, <3>6, <4>0 DEF Same
      <4>. QED  BY <3>1, <3>2, <4>1, WorkMoves
    <3>. QED  BY <3>5, <3>6
  <2>9. \A c \in Clients : pPc'[c] \in {"checkWork", "waitEvent"} => pTask'[c] \notin pWclosed'
    <3>1. \A c \in Clients : pPc[c] \in {"checkWork", "waitEvent"} => pTask[c] \notin pWclosed
      BY DEF WorksCounted
    <3>. HIDE DEF PoolInv, PoolTypes
    <3>. QED  BY <2>1, <3>1
  <2>. QED  BY <2>8, <2>9 DEF WorksCounted, Counted
<1>19. ASSUME NEW t \in Clients, NEW w \in Works,
             P!WaitForWork(t, w, TRUE) \/ P!WaitForWork(t, w, FALSE) PROVE WorksCounted'
  <2>1. WorksUnmoved /\ pWref' = pWref /\ pWclosed' = pWclosed /\ pQueue' = pQueue
    BY <1>19 DEF P!WaitForWork, WorksUnmoved, NewFor, HeldFor, Holds
  <2>. QED  BY <2>1, WorksQuiet
<1>20. ASSUME NEW t \in Clients, P!ClosePool(t) PROVE WorksCounted'
  <2>1. WorksUnmoved /\ pWref' = pWref /\ pWclosed' = pWclosed /\ pQueue' = pQueue
    BY <1>20 DEF P!ClosePool, WorksUnmoved, NewFor, HeldFor, Holds
  <2>. QED  BY <2>1, WorksQuiet
<1>21. ASSUME NEW t \in Runners, P!Resubmit(t) PROVE WorksCounted'
  <2>1. CASE pStop
    <3>1. WorksUnmoved /\ pWref' = pWref /\ pWclosed' = pWclosed /\ pQueue' = pQueue
      BY <1>21, <2>1 DEF P!Resubmit, P!Post, WorksUnmoved, NewFor, HeldFor, Holds
    <3>. QED  BY <3>1, WorksQuiet
  <2>2. CASE ~pStop
    <3>1. OnlyMoves(t) /\ pWclosed' = pWclosed /\ pQueue' = pQueue /\ pPc'[t] = "addPending"
             /\ pTask'[t] = pTask[t] /\ pTask[t] \in Works /\ t \in P!PoolThreads
             /\ \A v \in Works : pWref'[v] = IF v = pTask[t] THEN pWref[v] + 1 ELSE pWref[v]
      BY <1>21, <2>2 DEF P!Resubmit, P!Post, OnlyMoves
    <3>2. \A v \in Works :
             /\ t \notin NewFor(v) /\ (t \in NewFor(v)' <=> v = pTask[t])
             /\ (t \in HeldFor(v)' <=> t \in HeldFor(v))
      BY <1>21, <3>1 DEF P!Resubmit, NewFor, HeldFor, Holds
    <3>8. ASSUME NEW v \in Works PROVE Counted(v)'
      <4>. HIDE DEF PoolInv, PoolTypes, PoolFinite, P!PoolThreads, PostLabels, CloseLabels,
      ClientLabels, RunnerLabels, BusyLabels, WorksCounted
      <4>1. Counted(v) /\ pWref[v] \in Int /\ pWref'[v] \in Int
        BY WorkFacts
      <4>2. Same(OpenFor(v), OpenFor(v)') /\ Same(Cardinality(Queued(v)), Cardinality(Queued(v)'))
        BY <3>1, WorkFacts
      <4>5. CASE v = pTask[t]
        <5>1. Plus(pWref[v], pWref'[v])
          BY <3>1, <4>1, <4>5 DEF Same, Plus
        <5>2. /\ Plus(Cardinality(NewFor(v)), Cardinality(NewFor(v)'))
               /\ Same(Cardinality(HeldFor(v)), Cardinality(HeldFor(v)'))
          BY <3>1, <3>2, <4>5, WorkSteps
        <5>. QED  BY <4>1, <4>2, <4>5, <5>1, <5>2, WorkMoves
      <4>6. CASE v # pTask[t]
        <5>1. Same(pWref[v], pWref'[v])
          BY <3>1, <4>1, <4>6 DEF Same, Plus
        <5>2. /\ Same(Cardinality(NewFor(v)), Cardinality(NewFor(v)'))
               /\ Same(Cardinality(HeldFor(v)), Cardinality(HeldFor(v)'))
          BY <3>1, <3>2, <4>6, WorkSteps
        <5>. QED  BY <4>1, <4>2, <4>6, <5>1, <5>2, WorkMoves
      <4>. QED  BY <4>5, <4>6
    <3>9. \A c \in Clients : pPc'[c] \in {"checkWork", "waitEvent"} => pTask'[c] \notin pWclosed'
      BY <3>1 DEF OnlyMoves, WorksCounted
    <3>. QED  BY <3>8, <3>9 DEF WorksCounted, Counted
  <2>. QED  BY <2>1, <2>2
<1>22. CASE UNCHANGED P!vars
  <2>1. WorksUnmoved /\ pWref' = pWref /\ pWclosed' = pWclosed /\ pQueue' = pQueue
    BY <1>22 DEF P!vars, P!workVars, P!poolVars, P!flags, P!bounds, WorksUnmoved, NewFor,
        HeldFor, Holds
  <2>. QED  BY <2>1, WorksQuiet
<1>23. ASSUME NEW t \in P!PoolThreads, P!Step(t) PROVE WorksCounted'
  BY <1>1, <1>2, <1>3, <1>4, <1>5, <1>6, <1>7, <1>8, <1>9, <1>10, <1>11, <1>12, <1>13, <1>14,
      <1>15, <1>16, <1>23 DEF P!Step
<1>24. ASSUME NEW c \in Clients, P!Call(c) PROVE WorksCounted'
  <2>1. ASSUME NEW w \in Works, \E cancel \in BOOLEAN : P!WaitForWork(c, w, cancel) PROVE WorksCounted'
    BY <2>1, PoolWaitCases, <1>19
  <2>. QED  BY <1>17, <1>18, <1>20, <1>24, <2>1 DEF P!Call
<1>. QED  BY <1>21, <1>22, <1>23, <1>24 DEF P!Next

-----------------------------------------------------------------------------
(* The invariant keeps the promise.                                        *)
LEMMA PoolInit ==
  ASSUME PoolFinite, P!Init
  PROVE  PoolInv
<1>. USE DEF P!Init, P!PoolThreads, PoolFinite
<1>1. PoolTypes
  <2>1. pRef \in Int /\ pParallel \in Int /\ pWref \in [Works -> Int] /\ pOld \in [P!PoolThreads -> Int]
          /\ pQueue \in Seq(Works) /\ pWclosed \subseteq Works /\ pClosing \in BOOLEAN
    <3>1. pQueue \in Seq(Works)
      OBVIOUS
    <3>2. pWref \in [Works -> Int]
      OBVIOUS
    <3>3. pOld \in [P!PoolThreads -> Int]
      OBVIOUS
    <3>4. pRef \in Int /\ pParallel \in Int
      OBVIOUS
    <3>5. pWclosed \subseteq Works /\ pClosing \in BOOLEAN
      OBVIOUS
    <3>. QED  BY <3>1, <3>2, <3>3, <3>4, <3>5
  <2>. QED  BY <2>1 DEF PoolTypes, PostLabels, CloseLabels, ClientLabels, RunnerLabels,
      BusyLabels
<1>2. ClosedOnce
  BY DEF ClosedOnce, PostLabels, CloseLabels
<1>3. /\ Pushing = {} /\ Carriers = {} /\ Leavers = {} /\ Active = {} /\ Starting = {}
      /\ FirstStart = {}
  BY DEF Pushing, Carriers, Carries, Leavers, Active, Starting, FirstStart, PostLabels
<1>4. Owned = 1 /\ Group = 0
  BY <1>3 DEF Owned, Group
<1>5. Cardinality({}) = 0
  BY FS_EmptySet
<1>6. PoolCounted /\ RunnersCounted
  BY <1>3, <1>4, <1>5 DEF PoolCounted, RunnersCounted
<1>7. WorksCounted
  <2>1. \A w \in Works : NewFor(w) = {} /\ HeldFor(w) = {} /\ Queued(w) = {}
    BY DEF NewFor, HeldFor, Holds, Queued, Places, PostLabels
  <2>2. \A w \in Works : pWref[w] = 1 /\ OpenFor(w) = 1
    BY DEF OpenFor
  <2>3. \A w \in Works : pWref[w] = OpenFor(w) + Cardinality(Queued(w)) + Cardinality(NewFor(w))
                              + Cardinality(HeldFor(w))
    <3>1. \A w \in Works : /\ Cardinality(Queued(w)) = 0 /\ Cardinality(NewFor(w)) = 0
                            /\ Cardinality(HeldFor(w)) = 0
      BY <1>5, <2>1
    <3>2. 1 = 1 + 0 + 0 + 0
      OBVIOUS
    <3>. HIDE DEF P!Init
    <3>. QED  BY <2>2, <3>1, <3>2
  <2>4. \A c \in Clients : pPc[c] \notin {"checkWork", "waitEvent"}
    OBVIOUS
  <2>. QED  BY <2>3, <2>4 DEF WorksCounted
<1>. QED  BY <1>1, <1>2, <1>6, <1>7 DEF PoolInv

LEMMA PoolStep ==
  ASSUME PoolFinite, PoolInv, [P!Next]_(P!vars)
  PROVE  PoolInv'
BY PoolTypesStep, ClosedOnceStep, PoolCountedStep, WorksCountedStep DEF PoolInv

LEMMA SumPositive ==
  ASSUME NEW a \in Nat, NEW b \in Nat, NEW c \in Nat, NEW d \in Nat, NEW e \in Nat, NEW f \in Nat,
         a > 0 \/ b > 0 \/ c > 0 \/ d > 0 \/ e > 0 \/ f > 0
  PROVE  a + b + c + d + e + f > 0
OBVIOUS

(* A reference of any kind keeps the pool.                                 *)
LEMMA PoolKept ==
  ASSUME PoolFinite, PoolInv,
         \/ Owned = 1 \/ Group = 1 \/ Pushing # {} \/ Carriers # {} \/ Leavers # {}
  PROVE  pRef > 0
<1>1. pRef = Owned + Group + Len(pQueue) + Cardinality(Pushing) + Cardinality(Carriers)
              + Cardinality(Leavers)
  BY DEF PoolInv, PoolCounted
<1>2. /\ Owned \in Nat /\ Group \in Nat /\ Len(pQueue) \in Nat /\ Cardinality(Pushing) \in Nat
      /\ Cardinality(Carriers) \in Nat /\ Cardinality(Leavers) \in Nat
  BY PoolNats DEF PoolInv, PoolTypes
<1>3. \/ Owned > 0 \/ Group > 0 \/ Cardinality(Pushing) > 0 \/ Cardinality(Carriers) > 0
      \/ Cardinality(Leavers) > 0
  BY PoolSizes
<1>4. PICK a \in Nat, b \in Nat, c \in Nat, d \in Nat, e \in Nat, f \in Nat :
         /\ a = Owned /\ b = Group /\ c = Len(pQueue) /\ d = Cardinality(Pushing)
         /\ e = Cardinality(Carriers) /\ f = Cardinality(Leavers)
  BY <1>2
<1>5. a + b + c + d + e + f > 0
  BY <1>3, <1>4, SumPositive
<1>. QED  BY <1>1, <1>4, <1>5

(* While a runner or a thread about to start one is there, one of them     *)
(* carries the reference of all the runners, or is a client whose pool is  *)
(* still open, or a runner with a task.                                    *)
LEMMA RunnersKeepPool ==
  ASSUME PoolFinite, PoolInv, Active # {} \/ Starting # {}
  PROVE  pRef > 0
<1>1. pParallel > 0
  BY PoolSizes DEF PoolInv, RunnersCounted
<1>2. CASE FirstStart = {}
  <2>1. Group = 1
    BY <1>1, <1>2 DEF Group
  <2>. QED  BY <2>1, PoolKept
<1>3. CASE FirstStart # {}
  <2>1. PICK u \in P!PoolThreads : pPc[u] \in {"pushMore", "start"}
    BY <1>3 DEF FirstStart, Starting
  <2>2. CASE u \in Clients
    <3>1. Owned = 1
      BY <2>1, <2>2 DEF PoolInv, ClosedOnce, PostLabels, Owned
    <3>. QED  BY <3>1, PoolKept
  <2>3. CASE u \in Runners
    <3>1. u \in Carriers
      BY <2>1, <2>3 DEF Carriers, Carries, PostLabels
    <3>. QED  BY <3>1, PoolKept
  <2>. QED  BY <2>2, <2>3 DEF P!PoolThreads
<1>. QED  BY <1>2, <1>3

LEMMA WorkKept ==
  ASSUME PoolFinite, PoolInv, NEW w \in Works,
         w \notin pWclosed \/ NewFor(w) # {} \/ HeldFor(w) # {}
  PROVE  pWref[w] > 0
<1>1. pWref[w] = OpenFor(w) + Cardinality(Queued(w)) + Cardinality(NewFor(w)) + Cardinality(HeldFor(w))
  BY DEF PoolInv, WorksCounted
<1>2. OpenFor(w) \in Nat /\ (w \notin pWclosed => OpenFor(w) > 0)
  BY DEF OpenFor
<1>3. Cardinality(Queued(w)) \in Nat
  BY PlacesFinite DEF PoolInv, PoolTypes, Queued
<1>4. /\ Cardinality(NewFor(w)) \in Nat /\ (NewFor(w) # {} => Cardinality(NewFor(w)) > 0)
      /\ Cardinality(HeldFor(w)) \in Nat /\ (HeldFor(w) # {} => Cardinality(HeldFor(w)) > 0)
  BY ThreadsFinite, PoolSets, HasSome
<1>. QED  BY <1>1, <1>2, <1>3, <1>4

LEMMA PoolPromise ==
  ASSUME PoolFinite, PoolInv
  PROVE  OutlivesUse
<1>1. ASSUME NEW t \in P!PoolThreads, P!UsesPool(t) PROVE pRef > 0
  <2>1. PoolTypes /\ ClosedOnce
    BY DEF PoolInv
  <2>2. CASE t \in Clients
    <3>1. Owned = 1
      BY <1>1, <2>1, <2>2 DEF P!UsesPool, PoolTypes, ClientLabels, ClosedOnce, PostLabels,
        CloseLabels, Owned
    <3>. QED  BY <3>1, PoolKept
  <2>3. CASE t \in Runners
    <3>1. t \in Active \/ t \in Leavers
      BY <1>1, <2>3 DEF P!UsesPool, Active, Leavers
    <3>2. CASE t \in Active
      BY <3>2, RunnersKeepPool
    <3>3. CASE t \in Leavers
      BY <3>3, PoolKept
    <3>. QED  BY <3>1, <3>2, <3>3
  <2>. QED  BY <2>2, <2>3 DEF P!PoolThreads
<1>2. ASSUME NEW t \in P!PoolThreads, P!UsesWork(t) PROVE pWref[pTask[t]] > 0
  <2>1. pTask[t] \in Works
    BY <1>2 DEF PoolInv, PoolTypes, P!UsesWork, BusyLabels, PostLabels
  <2>2. \/ pTask[t] \notin pWclosed \/ t \in NewFor(pTask[t]) \/ t \in HeldFor(pTask[t])
    BY <1>2 DEF PoolInv, PoolTypes, WorksCounted, P!UsesWork, NewFor, HeldFor, Holds,
      RunnerLabels, PostLabels, P!PoolThreads
  <2>. QED  BY <2>1, <2>2, WorkKept
<1>. QED  BY <1>1, <1>2 DEF OutlivesUse, P!OutlivesUse

(* In every state of a pool the invariant holds.                           *)
THEOREM PoolInvariance == P!Spec => []PoolInv
<1>0. PoolFinite
  BY ThreadPoolAssumption DEF PoolFinite
<1>1. P!Init => PoolInv
  BY <1>0, PoolInit
<1>2. PoolInv /\ [P!Next]_(P!vars) => PoolInv'
  BY <1>0, PoolStep
<1>. QED  BY <1>1, <1>2, PTL DEF P!Spec

(* Nobody uses a pool, nor a work object, whose last reference is gone.    *)
THEOREM PoolOutlivesUse == P!Spec => []OutlivesUse
<1>0. PoolFinite
  BY ThreadPoolAssumption DEF PoolFinite
<1>1. PoolInv => OutlivesUse
  BY <1>0, PoolPromise
<1>. QED  BY <1>1, PoolInvariance, PTL

-----------------------------------------------------------------------------
(* The queue of the pool.                                                  *)

QueueBlock == [read : Nat, write : Nat, next : Nat, entries : [0..(BlockSize - 1) -> Nat]]

QueueTypes ==
  /\ qBlock \in Seq(QueueBlock)
  /\ qPushPc \in {"out", "first", "isFull", "move", "store", "count"}
  /\ qPopPc \in {"out", "isEmpty", "next", "take", "advance"}
  /\ qPushed \in Nat /\ qLate \in Nat /\ qGot \in Nat
  /\ qPopped \in Seq(Nat)
  /\ qFirst \in 0..Len(qBlock) /\ qLast \in 0..Len(qBlock)
  /\ qDeleted = 1..(qFirst - 1)
  /\ qOvertaken \in BOOLEAN

(* The list of blocks, and where the two ends are.                         *)
QueueShape ==
  /\ \A b \in 1..Len(qBlock) : qBlock[b].next = IF b = Len(qBlock) THEN Q!Null ELSE b + 1
  /\ qLast = IF qPushPc = "move" THEN Len(qBlock) - 1 ELSE Len(qBlock)
  /\ qPushPc # "out" => qLast # Q!Null
  /\ qFirst = Q!Null <=> (Len(qBlock) = 0 \/ qPushPc = "first")
  /\ qPushPc = "first" => Len(qBlock) = 1
  /\ qPopPc # "out" => qFirst # Q!Null

(* How full the blocks are.                                                *)
QueueFill ==
  /\ \A b \in 1..Len(qBlock) : /\ qBlock[b].read <= qBlock[b].write
                               /\ qBlock[b].write <= qBlock[b].read + BlockSize
                               /\ b > qFirst => qBlock[b].read = 0
  /\ qPopPc \in {"take", "advance"} => qBlock[qFirst].read < qBlock[qFirst].write
  /\ qPushPc \in {"store", "count"} => qBlock[qLast].write < qBlock[qLast].read + BlockSize
  /\ qPushPc = "move" => qBlock[Len(qBlock)].write = 0
  /\ (qPopPc = "next" /\ ~qOvertaken) =>
       /\ qBlock[qFirst].write <= qBlock[qFirst].read + qLate /\ qLate < BlockSize
       /\ qFirst < Len(qBlock) => qBlock[qFirst].write = qBlock[qFirst].read

(* The first entry of block b is number base[b] + 1.                       *)
NumberedBlocks(base) ==
  /\ Len(qBlock) > 0 => base[1] = 0
  /\ \A b \in 1..Len(qBlock) :
       base[b] + qBlock[b].write = IF b = Len(qBlock) THEN qPushed ELSE base[b + 1]
  /\ \A b, c \in 1..Len(qBlock) : b < c => base[b] + qBlock[b].write <= base[c]
  /\ \A b \in 1..Len(qBlock) : \A i \in Q!Unread(b) : Q!Entry(b, i) = base[b] + i + 1
  /\ \A e \in 1..qPushed :
       \E b \in 1..Len(qBlock) : base[b] < e /\ e <= base[b] + qBlock[b].write

NumberedPops(base) ==
  /\ (~qOvertaken /\ qFirst # Q!Null) => Len(qPopped) = base[qFirst] + qBlock[qFirst].read
  /\ qPopPc = "advance" => qGot = base[qFirst] + qBlock[qFirst].read + 1

QueueOrder ==
  /\ qPushPc = "count" => Q!Entry(qLast, qBlock[qLast].write) = qPushed + 1
  /\ qFirst = Q!Null => qPopped = <<>>
  /\ ~qOvertaken => qPopped = [i \in 1..Len(qPopped) |-> i]
  /\ \E base \in [Nat -> Nat] : NumberedBlocks(base) /\ NumberedPops(base)

QueueInv == QueueTypes /\ QueueShape /\ QueueFill /\ QueueOrder

-----------------------------------------------------------------------------
(* Rings.                                                                  *)
LEMMA RingType ==
  ASSUME NEW i \in Nat
  PROVE  Q!Ring(i) \in 0..(BlockSize - 1)
BY QueueAssumption DEF Q!Ring

(* The next multiple of n is n away.                                       *)
LEMMA TimesGrows ==
  ASSUME NEW n \in Nat, NEW p \in Nat, NEW q \in Nat, p < q
  PROVE  n * q >= n * p + n
<1>1. PICK d \in Nat : q = p + 1 + d
  <2>1. q - p - 1 \in Nat /\ q = p + 1 + (q - p - 1)
    OBVIOUS
  <2>. QED  BY <2>1
<1>2. n * q = n * p + n + n * d
  BY <1>1
<1>3. n * d \in Nat /\ n * p \in Nat
  OBVIOUS
<1>. QED  BY <1>2, <1>3

(* Numbers that are less than a block apart have entries of their own.     *)
LEMMA RingsDiffer ==
  ASSUME NEW i \in Nat, NEW j \in Nat, i < j, j < i + BlockSize
  PROVE  Q!Ring(i) # Q!Ring(j)
<1>. DEFINE p == i \div BlockSize
            q == j \div BlockSize
            r == i % BlockSize
            s == j % BlockSize
<1>1. /\ i = BlockSize * p + r /\ p \in Nat /\ r \in 0..(BlockSize - 1)
      /\ j = BlockSize * q + s /\ q \in Nat /\ s \in 0..(BlockSize - 1)
      /\ BlockSize \in Nat
  BY QueueAssumption
<1>. HIDE DEF p, q, r, s
<1>2. SUFFICES ASSUME r = s PROVE FALSE
  BY DEF Q!Ring, r, s
<1>3. BlockSize * p \in Nat /\ BlockSize * q \in Nat
  BY <1>1
<1>4. BlockSize * p < BlockSize * q /\ BlockSize * q < BlockSize * p + BlockSize
  BY <1>1, <1>2, <1>3
<1>5. CASE p < q
  <2>1. BlockSize * q >= BlockSize * p + BlockSize
    BY <1>1, <1>5, TimesGrows
  <2>. QED  BY <1>1, <1>3, <1>4, <2>1
<1>6. CASE p = q
  BY <1>3, <1>4, <1>6
<1>7. CASE q < p
  <2>1. BlockSize * p >= BlockSize * q + BlockSize
    BY <1>1, <1>7, TimesGrows
  <2>. QED  BY <1>1, <1>3, <1>4, <2>1
<1>. QED  BY <1>1, <1>5, <1>6, <1>7

-----------------------------------------------------------------------------
(* What the steps do to the blocks.                                        *)

(* A new block has the type of a block.                                    *)
LEMMA NewBlock == Q!New \in QueueBlock
<1>1. [i \in 0..(BlockSize - 1) |-> Q!Null] \in [0..(BlockSize - 1) -> Nat]
  BY DEF Q!Null
<1>. QED  BY <1>1 DEF Q!New, QueueBlock, Q!Null

WithBlock(s, b, v) == [s EXCEPT ![b] = v]

(* One block of the list is replaced, the others stay.                     *)
LEMMA UpdateOne ==
  ASSUME NEW s \in Seq(QueueBlock), NEW b \in 1..Len(s), NEW v \in QueueBlock
  PROVE  /\ WithBlock(s, b, v) \in Seq(QueueBlock) /\ Len(WithBlock(s, b, v)) = Len(s)
         /\ \A c \in 1..Len(s) : WithBlock(s, b, v)[c] = IF c = b THEN v ELSE s[c]
<1>1. s \in [1..Len(s) -> QueueBlock] /\ Len(s) \in Nat
  OBVIOUS
<1>2. WithBlock(s, b, v) \in [1..Len(s) -> QueueBlock]
  BY <1>1 DEF WithBlock
<1>3. WithBlock(s, b, v) \in Seq(QueueBlock)
  BY <1>1, <1>2
<1>4. Len(WithBlock(s, b, v)) = Len(s)
  BY <1>1, <1>2
<1>. QED  BY <1>1, <1>3, <1>4 DEF WithBlock

(* What replacing one field of a block leaves of the others.               *)
LEMMA BlockFields ==
  ASSUME NEW v \in QueueBlock, NEW n \in Nat
  PROVE  /\ [v EXCEPT !.read = n] \in QueueBlock /\ [v EXCEPT !.write = n] \in QueueBlock
         /\ [v EXCEPT !.next = n] \in QueueBlock
         /\ [v EXCEPT !.read = n].read = n /\ [v EXCEPT !.read = n].write = v.write
         /\ [v EXCEPT !.read = n].next = v.next /\ [v EXCEPT !.read = n].entries = v.entries
         /\ [v EXCEPT !.write = n].read = v.read /\ [v EXCEPT !.write = n].write = n
         /\ [v EXCEPT !.write = n].next = v.next /\ [v EXCEPT !.write = n].entries = v.entries
         /\ [v EXCEPT !.next = n].read = v.read /\ [v EXCEPT !.next = n].write = v.write
         /\ [v EXCEPT !.next = n].next = n /\ [v EXCEPT !.next = n].entries = v.entries
BY DEF QueueBlock

WithEntry(v, i, n) == [v EXCEPT !.entries[i] = n]

(* Storing an entry changes that entry only.                               *)
LEMMA EntryField ==
  ASSUME NEW v \in QueueBlock, NEW n \in Nat, NEW i \in 0..(BlockSize - 1)
  PROVE  /\ WithEntry(v, i, n) \in QueueBlock
         /\ WithEntry(v, i, n).read = v.read /\ WithEntry(v, i, n).write = v.write
         /\ WithEntry(v, i, n).next = v.next
         /\ WithEntry(v, i, n).entries = [v.entries EXCEPT ![i] = n]
BY DEF QueueBlock, WithEntry

(* The fields of an allocated block have their types.                      *)
LEMMA BlockTypes ==
  ASSUME QueueTypes, NEW b \in 1..Len(qBlock)
  PROVE  /\ qBlock[b] \in QueueBlock /\ qBlock[b].read \in Nat /\ qBlock[b].write \in Nat
         /\ qBlock[b].next \in Nat /\ qBlock[b].entries \in [0..(BlockSize - 1) -> Nat]
<1>1. qBlock[b] \in QueueBlock
  BY DEF QueueTypes
<1>. QED  BY <1>1 DEF QueueBlock

(* A store changes one entry of the last block.                            *)
LEMMA StoreEffect ==
  ASSUME QueueTypes, QueueShape, Q!Store
  PROVE  /\ qLast \in 1..Len(qBlock) /\ qBlock' \in Seq(QueueBlock) /\ Len(qBlock') = Len(qBlock)
         /\ \A b \in 1..Len(qBlock) :
              /\ qBlock'[b].read = qBlock[b].read /\ qBlock'[b].write = qBlock[b].write
              /\ qBlock'[b].next = qBlock[b].next
              /\ qBlock'[b].entries =
                   IF b = qLast THEN [qBlock[b].entries EXCEPT ![Q!Ring(qBlock[b].write)] = qPushed + 1]
                                ELSE qBlock[b].entries
<1>1. qLast \in 1..Len(qBlock) /\ qBlock \in Seq(QueueBlock) /\ qPushed + 1 \in Nat
  BY DEF QueueTypes, QueueShape, Q!Store, Q!Null
<1>2. qBlock[qLast] \in QueueBlock /\ qBlock[qLast].write \in Nat
  BY <1>1, BlockTypes
<1>3. Q!Ring(qBlock[qLast].write) \in 0..(BlockSize - 1)
  BY <1>2, RingType
<1>. DEFINE i == Q!Ring(qBlock[qLast].write)
            n == qPushed + 1
            v == WithEntry(qBlock[qLast], i, n)
<1>4. qBlock' = WithBlock(qBlock, qLast, v)
  BY DEF Q!Store, WithBlock, WithEntry
<1>8. i \in 0..(BlockSize - 1) /\ n \in Nat
  BY <1>1, <1>3
<1>9. n = qPushed + 1 /\ i = Q!Ring(qBlock[qLast].write)
  OBVIOUS
<1>. HIDE DEF n, i
<1>5. v \in QueueBlock /\ v.read = qBlock[qLast].read /\ v.write = qBlock[qLast].write
        /\ v.next = qBlock[qLast].next /\ v.entries = [qBlock[qLast].entries EXCEPT ![i] = n]
  BY <1>2, <1>8, EntryField
<1>10. v \in QueueBlock
  BY <1>5
<1>. HIDE DEF v
<1>. DEFINE s == WithBlock(qBlock, qLast, v)
<1>7. s \in Seq(QueueBlock) /\ Len(s) = Len(qBlock)
        /\ \A b \in 1..Len(qBlock) : s[b] = IF b = qLast THEN v ELSE qBlock[b]
  BY <1>1, <1>10, UpdateOne
<1>. HIDE DEF s
<1>6. qBlock' \in Seq(QueueBlock) /\ Len(qBlock') = Len(qBlock)
        /\ \A b \in 1..Len(qBlock) : qBlock'[b] = IF b = qLast THEN v ELSE qBlock[b]
  BY <1>4, <1>7 DEF s
<1>. QED  BY <1>1, <1>5, <1>6, <1>9

(* A push is counted in the last block.                                    *)
LEMMA CountEffect ==
  ASSUME QueueTypes, QueueShape, Q!Count
  PROVE  /\ qLast \in 1..Len(qBlock) /\ qBlock' \in Seq(QueueBlock) /\ Len(qBlock') = Len(qBlock)
         /\ \A b \in 1..Len(qBlock) :
              /\ qBlock'[b].read = qBlock[b].read /\ qBlock'[b].next = qBlock[b].next
              /\ qBlock'[b].entries = qBlock[b].entries
              /\ qBlock'[b].write = IF b = qLast THEN qBlock[b].write + 1 ELSE qBlock[b].write
<1>1. qLast \in 1..Len(qBlock) /\ qBlock \in Seq(QueueBlock)
  BY DEF QueueTypes, QueueShape, Q!Count, Q!Null
<1>2. qBlock[qLast] \in QueueBlock /\ qBlock[qLast].write + 1 \in Nat /\ 0 \in 0..(BlockSize - 1)
  BY <1>1, BlockTypes, QueueAssumption
<1>. DEFINE v == [qBlock[qLast] EXCEPT !.write = qBlock[qLast].write + 1]
<1>4. qBlock' = WithBlock(qBlock, qLast, v)
  BY DEF Q!Count, WithBlock
<1>5. v \in QueueBlock /\ v.read = qBlock[qLast].read /\ v.write = qBlock[qLast].write + 1
        /\ v.next = qBlock[qLast].next /\ v.entries = qBlock[qLast].entries
  BY <1>2, BlockFields
<1>. HIDE DEF v
<1>. DEFINE s == WithBlock(qBlock, qLast, v)
<1>7. s \in Seq(QueueBlock) /\ Len(s) = Len(qBlock)
        /\ \A b \in 1..Len(qBlock) : s[b] = IF b = qLast THEN v ELSE qBlock[b]
  BY <1>1, <1>5, UpdateOne
<1>. HIDE DEF s
<1>6. qBlock' \in Seq(QueueBlock) /\ Len(qBlock') = Len(qBlock)
        /\ \A b \in 1..Len(qBlock) : qBlock'[b] = IF b = qLast THEN v ELSE qBlock[b]
  BY <1>4, <1>7 DEF s
<1>. QED  BY <1>1, <1>5, <1>6

(* A pop is counted in the first block.                                    *)
LEMMA AdvanceEffect ==
  ASSUME QueueTypes, QueueShape, Q!Advance
  PROVE  /\ qFirst \in 1..Len(qBlock) /\ qBlock' \in Seq(QueueBlock) /\ Len(qBlock') = Len(qBlock)
         /\ \A b \in 1..Len(qBlock) :
              /\ qBlock'[b].write = qBlock[b].write /\ qBlock'[b].next = qBlock[b].next
              /\ qBlock'[b].entries = qBlock[b].entries
              /\ qBlock'[b].read = IF b = qFirst THEN qBlock[b].read + 1 ELSE qBlock[b].read
<1>1. qFirst \in 1..Len(qBlock) /\ qBlock \in Seq(QueueBlock)
  BY DEF QueueTypes, QueueShape, Q!Advance, Q!Null
<1>2. qBlock[qFirst] \in QueueBlock /\ qBlock[qFirst].read + 1 \in Nat /\ 0 \in 0..(BlockSize - 1)
  BY <1>1, BlockTypes, QueueAssumption
<1>. DEFINE v == [qBlock[qFirst] EXCEPT !.read = qBlock[qFirst].read + 1]
<1>4. qBlock' = WithBlock(qBlock, qFirst, v)
  BY DEF Q!Advance, WithBlock
<1>5. v \in QueueBlock /\ v.write = qBlock[qFirst].write /\ v.read = qBlock[qFirst].read + 1
        /\ v.next = qBlock[qFirst].next /\ v.entries = qBlock[qFirst].entries
  BY <1>2, BlockFields
<1>. HIDE DEF v
<1>. DEFINE s == WithBlock(qBlock, qFirst, v)
<1>7. s \in Seq(QueueBlock) /\ Len(s) = Len(qBlock)
        /\ \A b \in 1..Len(qBlock) : s[b] = IF b = qFirst THEN v ELSE qBlock[b]
  BY <1>1, <1>5, UpdateOne
<1>. HIDE DEF s
<1>6. qBlock' \in Seq(QueueBlock) /\ Len(qBlock') = Len(qBlock)
        /\ \A b \in 1..Len(qBlock) : qBlock'[b] = IF b = qFirst THEN v ELSE qBlock[b]
  BY <1>4, <1>7 DEF s
<1>. QED  BY <1>1, <1>5, <1>6

(* A full block gets a new one behind it.                                  *)
LEMMA LinkEffect ==
  ASSUME QueueTypes, QueueShape, Q!Link, Q!IsFull(qLast)
  PROVE  /\ qLast = Len(qBlock) /\ qLast \in 1..Len(qBlock)
         /\ qBlock' \in Seq(QueueBlock) /\ Len(qBlock') = Len(qBlock) + 1
         /\ qBlock'[Len(qBlock) + 1] = Q!New
         /\ \A b \in 1..Len(qBlock) :
              /\ qBlock'[b].read = qBlock[b].read /\ qBlock'[b].write = qBlock[b].write
              /\ qBlock'[b].entries = qBlock[b].entries
              /\ qBlock'[b].next = IF b = qLast THEN Len(qBlock) + 1 ELSE qBlock[b].next
<1>1. qLast \in 1..Len(qBlock) /\ qLast = Len(qBlock) /\ qBlock \in Seq(QueueBlock) /\ Len(qBlock) \in Nat
  BY DEF QueueTypes, QueueShape, Q!Link, Q!Null
<1>2. qBlock[qLast] \in QueueBlock /\ Len(qBlock) + 1 \in Nat /\ 0 \in 0..(BlockSize - 1)
  BY <1>1, BlockTypes, QueueAssumption
<1>. DEFINE v == [qBlock[qLast] EXCEPT !.next = Len(qBlock) + 1]
            s == WithBlock(qBlock, qLast, v)
<1>4. qBlock' = Append(s, Q!New)
  BY DEF Q!Link, WithBlock
<1>5. v \in QueueBlock /\ v.read = qBlock[qLast].read /\ v.write = qBlock[qLast].write
        /\ v.next = Len(qBlock) + 1 /\ v.entries = qBlock[qLast].entries
  BY <1>2, BlockFields
<1>. HIDE DEF v
<1>6. s \in Seq(QueueBlock) /\ Len(s) = Len(qBlock)
        /\ \A b \in 1..Len(qBlock) : s[b] = IF b = qLast THEN v ELSE qBlock[b]
  BY <1>1, <1>5, UpdateOne
<1>. HIDE DEF s
<1>7. /\ Append(s, Q!New) \in Seq(QueueBlock) /\ Len(Append(s, Q!New)) = Len(qBlock) + 1
      /\ Append(s, Q!New)[Len(qBlock) + 1] = Q!New
      /\ \A b \in 1..Len(qBlock) : Append(s, Q!New)[b] = s[b]
  BY <1>1, <1>6, NewBlock
<1>. QED  BY <1>1, <1>4, <1>5, <1>6, <1>7

(* The first push of all allocates the first block.                        *)
LEMMA BeginEffect ==
  ASSUME QueueTypes, QueueShape, Q!BeginPush, qLast = Q!Null
  PROVE  /\ Len(qBlock) = 0 /\ qBlock' \in Seq(QueueBlock) /\ Len(qBlock') = 1
         /\ qBlock'[1] = Q!New /\ qLast' = 1
<1>1. Len(qBlock) = 0 /\ qBlock \in Seq(QueueBlock)
  BY DEF QueueTypes, QueueShape, Q!BeginPush, Q!Null
<1>2. qBlock' = Append(qBlock, Q!New) /\ qLast' = Len(qBlock')
  BY DEF Q!BeginPush
<1>. QED  BY <1>1, <1>2, NewBlock

-----------------------------------------------------------------------------
(* Every step keeps the types.                                             *)
LEMMA QueueTypesStep ==
  ASSUME QueueInv, [Q!Next]_(Q!vars)
  PROVE  QueueTypes'
<1>. USE DEF QueueInv
<1>0. Len(qBlock) \in Nat
  BY DEF QueueTypes
<1>1. CASE Q!BeginPush
  <2>1. CASE qLast = Q!Null
    <3>. QED  BY <1>1, <2>1, BeginEffect DEF QueueTypes, Q!BeginPush, Q!popVars
  <2>2. CASE qLast # Q!Null
    BY <1>1, <2>2 DEF QueueTypes, Q!BeginPush, Q!popVars
  <2>. QED  BY <2>1, <2>2
<1>2. CASE Q!SetFirst
  <2>1. qFirst = Q!Null /\ qLast = 1 /\ Len(qBlock) = 1
    BY <1>2 DEF Q!SetFirst, QueueShape
  <2>. QED  BY <1>2, <2>1 DEF QueueTypes, Q!SetFirst, Q!popVars, Q!Null
<1>3. CASE Q!Link
  <2>1. CASE Q!IsFull(qLast)
    <3>1. qBlock' \in Seq(QueueBlock) /\ Len(qBlock') = Len(qBlock) + 1
      BY <1>3, <2>1, LinkEffect
    <3>2. /\ qPushPc' = "move"
          /\ UNCHANGED <<qFirst, qLast, qPushed, qDeleted, qPopPc, qGot, qPopped, qLate, qOvertaken>>
      BY <1>3, <2>1 DEF Q!Link, Q!popVars
    <3>3. qFirst \in 0..(Len(qBlock) + 1) /\ qLast \in 0..(Len(qBlock) + 1)
      BY <1>0 DEF QueueTypes
    <3>. QED  BY <3>1, <3>2, <3>3 DEF QueueTypes
  <2>2. CASE ~Q!IsFull(qLast)
    BY <1>3, <2>2 DEF QueueTypes, Q!Link, Q!popVars
  <2>. QED  BY <2>1, <2>2
<1>4. CASE Q!Move
  BY <1>0, <1>4 DEF QueueTypes, Q!Move, Q!popVars
<1>5. CASE Q!Store
  BY <1>5, StoreEffect DEF QueueTypes, Q!Store, Q!popVars
<1>6. CASE Q!Count
  <2>1. qOvertaken' \in BOOLEAN
    BY <1>6 DEF Q!Count
  <2>2. qLate' \in Nat /\ qPushed' \in Nat
    BY <1>6 DEF Q!Count, QueueTypes
  <2>. QED  BY <1>6, <2>1, <2>2, CountEffect DEF QueueTypes, Q!Count, Q!popVars
<1>7. CASE Q!BeginPop
  BY <1>7 DEF QueueTypes, Q!BeginPop, Q!pushVars
<1>8. CASE Q!CheckEmpty
  BY <1>8 DEF QueueTypes, Q!CheckEmpty, Q!pushVars
<1>9. CASE Q!Take
  <2>1. qFirst \in 1..Len(qBlock)
    BY <1>0, <1>9 DEF QueueTypes, QueueShape, Q!Take, Q!Null
  <2>2. qBlock[qFirst].entries \in [0..(BlockSize - 1) -> Nat] /\ Q!Ring(qBlock[qFirst].read) \in 0..(BlockSize - 1)
    BY <2>1, BlockTypes, RingType
  <2>3. qGot' \in Nat
    BY <1>9, <2>2 DEF Q!Take
  <2>. QED  BY <1>9, <2>3 DEF QueueTypes, Q!Take, Q!pushVars
<1>10. CASE Q!Advance
  <2>1. qPopped' \in Seq(Nat)
    BY <1>10 DEF QueueTypes, Q!Advance
  <2>2. qGot' \in Nat
    BY <1>10 DEF Q!Advance, Q!Null
  <2>. QED  BY <1>10, <2>1, <2>2, AdvanceEffect DEF QueueTypes, Q!Advance, Q!pushVars
<1>11. CASE Q!NextBlock
  <2>1. CASE qBlock[qFirst].next = Q!Null
    BY <1>11, <2>1 DEF QueueTypes, Q!NextBlock, Q!pushVars
  <2>2. CASE qBlock[qFirst].next # Q!Null
    <3>1. qFirst \in 1..(Len(qBlock) - 1) /\ qBlock[qFirst].next = qFirst + 1
      BY <1>0, <1>11, <2>2 DEF QueueTypes, QueueShape, Q!NextBlock, Q!Null
    <3>2. qFirst' = qFirst + 1 /\ qDeleted' = qDeleted \cup {qFirst} /\ qBlock' = qBlock
      BY <1>11, <2>2, <3>1 DEF Q!NextBlock
    <3>3. qDeleted' = 1..(qFirst' - 1)
      BY <3>1, <3>2 DEF QueueTypes
    <3>. QED  BY <1>0, <1>11, <2>2, <3>1, <3>2, <3>3 DEF QueueTypes, Q!NextBlock, Q!pushVars
  <2>. QED  BY <2>1, <2>2
<1>12. CASE UNCHANGED Q!vars
  BY <1>12 DEF QueueTypes, Q!vars, Q!pushVars, Q!popVars
<1>. QED  BY <1>1, <1>2, <1>3, <1>4, <1>5, <1>6, <1>7, <1>8, <1>9, <1>10, <1>11, <1>12
       DEF Q!Next, Q!PushStep, Q!PopStep

(* Every step keeps the list in order, and the two ends on it.             *)
LEMMA QueueShapeStep ==
  ASSUME QueueInv, [Q!Next]_(Q!vars)
  PROVE  QueueShape'
<1>. USE DEF QueueInv
<1>0. Len(qBlock) \in Nat /\ qFirst \in 0..Len(qBlock) /\ qLast \in 0..Len(qBlock)
  BY DEF QueueTypes
<1>1. CASE Q!BeginPush
  <2>1. CASE qLast = Q!Null
    <3>. QED  BY <1>0, <1>1, <2>1, BeginEffect DEF QueueShape, Q!BeginPush, Q!popVars, Q!New,
        Q!Null
  <2>2. CASE qLast # Q!Null
    BY <1>0, <1>1, <2>2 DEF QueueShape, Q!BeginPush, Q!popVars, Q!Null
  <2>. QED  BY <2>1, <2>2
<1>2. CASE Q!SetFirst
  BY <1>0, <1>2 DEF QueueShape, Q!SetFirst, Q!popVars, Q!Null
<1>3. CASE Q!Link
  <2>1. CASE Q!IsFull(qLast)
    <3>1. qPushPc' = "move" /\ qLast' = qLast /\ qFirst' = qFirst /\ qPopPc' = qPopPc /\ qPushPc = "isFull"
      BY <1>3, <2>1 DEF Q!Link, Q!popVars
    <3>2. \A b \in 1..Len(qBlock') : qBlock'[b].next = IF b = Len(qBlock') THEN Q!Null ELSE b + 1
      BY <1>0, <1>3, <2>1, LinkEffect DEF QueueShape, Q!New, Q!Null
    <3>. QED  BY <1>0, <1>3, <2>1, <3>1, <3>2, LinkEffect DEF QueueShape, Q!Null
  <2>2. CASE ~Q!IsFull(qLast)
    BY <1>0, <1>3, <2>2 DEF QueueShape, Q!Link, Q!popVars, Q!Null
  <2>. QED  BY <2>1, <2>2
<1>4. CASE Q!Move
  BY <1>0, <1>4 DEF QueueShape, Q!Move, Q!popVars, Q!Null
<1>5. CASE Q!Store
  BY <1>0, <1>5, StoreEffect DEF QueueShape, Q!Store, Q!popVars, Q!Null
<1>6. CASE Q!Count
  BY <1>0, <1>6, CountEffect DEF QueueShape, Q!Count, Q!popVars, Q!Null
<1>7. CASE Q!BeginPop
  BY <1>0, <1>7 DEF QueueShape, Q!BeginPop, Q!pushVars, Q!Null
<1>8. CASE Q!CheckEmpty
  BY <1>0, <1>8 DEF QueueShape, Q!CheckEmpty, Q!pushVars, Q!Null
<1>9. CASE Q!Take
  BY <1>0, <1>9 DEF QueueShape, Q!Take, Q!pushVars, Q!Null
<1>10. CASE Q!Advance
  BY <1>0, <1>10, AdvanceEffect DEF QueueShape, Q!Advance, Q!pushVars, Q!Null
<1>11. CASE Q!NextBlock
  BY <1>0, <1>11 DEF QueueShape, Q!NextBlock, Q!pushVars, Q!Null
<1>12. CASE UNCHANGED Q!vars
  BY <1>12 DEF QueueShape, Q!vars, Q!pushVars, Q!popVars
<1>. QED  BY <1>1, <1>2, <1>3, <1>4, <1>5, <1>6, <1>7, <1>8, <1>9, <1>10, <1>11, <1>12
       DEF Q!Next, Q!PushStep, Q!PopStep

(* Every step keeps the counts of the blocks in bounds. A push finds room  *)
(* since only it adds entries; a pop that found its block empty finds it   *)
(* empty still if a block of pushes has not overtaken it, unless the       *)
(* block has no successor.                                                 *)
LEMMA QueueFillStep ==
  ASSUME QueueInv, [Q!Next]_(Q!vars)
  PROVE  QueueFill'
<1>. USE DEF QueueInv
<1>0. /\ Len(qBlock) \in Nat /\ qFirst \in 0..Len(qBlock) /\ qLast \in 0..Len(qBlock) /\ qLate \in Nat
      /\ BlockSize \in Nat \ {0}
  BY QueueAssumption DEF QueueTypes
<1>00. \A b \in 1..Len(qBlock) : qBlock[b].read \in Nat /\ qBlock[b].write \in Nat
  BY BlockTypes
<1>1. CASE Q!BeginPush
  <2>1. CASE qLast = Q!Null
    <3>1. /\ Len(qBlock') = 1 /\ qBlock'[1].read = 0 /\ qBlock'[1].write = 0
          /\ qPushPc' = "first" /\ qPopPc' = qPopPc /\ qPopPc = "out" /\ qFirst' = qFirst
      BY <1>0, <1>1, <2>1, BeginEffect DEF QueueShape, Q!BeginPush, Q!popVars, Q!New, Q!Null
    <3>. QED  BY <1>0, <3>1 DEF QueueFill
  <2>2. CASE qLast # Q!Null
    BY <1>0, <1>1, <2>2 DEF QueueFill, Q!BeginPush, Q!popVars
  <2>. QED  BY <2>1, <2>2
<1>2. CASE Q!SetFirst
  <2>1. qPopPc' = "out" /\ qPushPc' = "isFull" /\ qBlock' = qBlock /\ qFirst' = 1 /\ Len(qBlock) = 1
    BY <1>0, <1>2 DEF QueueShape, Q!SetFirst, Q!popVars, Q!Null
  <2>. QED  BY <1>0, <2>1 DEF QueueFill
<1>3. CASE Q!Link
  <2>1. CASE Q!IsFull(qLast)
    <3>1. qPushPc' = "move" /\ qFirst' = qFirst /\ qPopPc' = qPopPc /\ qLate' = qLate
             /\ qOvertaken' = qOvertaken
      BY <1>3, <2>1 DEF Q!Link, Q!popVars
    <3>2. qBlock'[Len(qBlock) + 1].read = 0 /\ qBlock'[Len(qBlock) + 1].write = 0
             /\ Len(qBlock') = Len(qBlock) + 1
      BY <1>3, <2>1, LinkEffect DEF Q!New
    <3>3. \A b \in 1..Len(qBlock) : qBlock'[b].read = qBlock[b].read /\ qBlock'[b].write = qBlock[b].write
      BY <1>3, <2>1, LinkEffect
    <3>4. qPopPc = "next" /\ ~qOvertaken => qFirst < Len(qBlock) /\ qFirst \in 1..Len(qBlock)
      <4>1. qLast = Len(qBlock) /\ qBlock[qLast].write = qBlock[qLast].read + BlockSize /\ qLast \in 1..Len(qBlock)
        BY <1>3, <2>1, LinkEffect DEF Q!IsFull
      <4>. QED  BY <1>0, <1>00, <4>1 DEF QueueFill, QueueShape, Q!Null
    <3>5. qPopPc # "out" => qFirst \in 1..Len(qBlock)
      BY <1>0 DEF QueueShape, Q!Null
    <3>6. \A b \in 1..Len(qBlock') : /\ qBlock'[b].read <= qBlock'[b].write
                                     /\ qBlock'[b].write <= qBlock'[b].read + BlockSize
                                     /\ b > qFirst' => qBlock'[b].read = 0
      <4>1. \A b \in 1..Len(qBlock') : b \in 1..Len(qBlock) \/ b = Len(qBlock) + 1
        BY <1>0, <3>2
      <4>2. ASSUME NEW b \in 1..Len(qBlock)
            PROVE  /\ qBlock'[b].read <= qBlock'[b].write
                   /\ qBlock'[b].write <= qBlock'[b].read + BlockSize
                   /\ b > qFirst' => qBlock'[b].read = 0
        BY <3>1, <3>3 DEF QueueFill
      <4>. QED  BY <1>0, <3>2, <4>1, <4>2
    <3>7. qPopPc \in {"take", "advance"} => qBlock'[qFirst].read < qBlock'[qFirst].write
      BY <3>3, <3>5 DEF QueueFill
    <3>8. qPopPc = "next" /\ ~qOvertaken => qBlock[qFirst].write = qBlock[qFirst].read /\ qFirst \in 1..Len(qBlock)
             /\ qLate < BlockSize /\ qBlock[qFirst].write <= qBlock[qFirst].read + qLate
      BY <3>4 DEF QueueFill
    <3>9. qPopPc = "next" /\ ~qOvertaken => qBlock'[qFirst].write = qBlock'[qFirst].read
             /\ qLate < BlockSize /\ qBlock'[qFirst].write <= qBlock'[qFirst].read + qLate
      BY <3>3, <3>8
    <3>a. (\A b \in 1..Len(qBlock) : /\ qBlock[b].read <= qBlock[b].write
                                     /\ qBlock[b].write <= qBlock[b].read + BlockSize
                                     /\ b > qFirst => qBlock[b].read = 0)'
      BY <3>6
    <3>b. (qPopPc \in {"take", "advance"} => qBlock[qFirst].read < qBlock[qFirst].write)'
      BY <3>1, <3>7
    <3>c. (qPushPc \in {"store", "count"} => qBlock[qLast].write < qBlock[qLast].read + BlockSize)'
      BY <3>1
    <3>d. (qPushPc = "move" => qBlock[Len(qBlock)].write = 0)'
      BY <3>2
    <3>e. ((qPopPc = "next" /\ ~qOvertaken) =>
               /\ qBlock[qFirst].write <= qBlock[qFirst].read + qLate /\ qLate < BlockSize
               /\ qFirst < Len(qBlock) => qBlock[qFirst].write = qBlock[qFirst].read)'
      BY <3>1, <3>9
    <3>. QED  BY <3>a, <3>b, <3>c, <3>d, <3>e DEF QueueFill
  <2>2. CASE ~Q!IsFull(qLast)
    <3>1. qLast \in 1..Len(qBlock)
      BY <1>0, <1>3 DEF Q!Link, QueueShape, Q!Null
    <3>2. qBlock[qLast].write < qBlock[qLast].read + BlockSize
      <4>1. qBlock[qLast].write <= qBlock[qLast].read + BlockSize
        BY <3>1 DEF QueueFill
      <4>2. qBlock[qLast].write # qBlock[qLast].read + BlockSize
        BY <2>2 DEF Q!IsFull
      <4>3. qBlock[qLast].read \in Nat /\ qBlock[qLast].write \in Nat
        BY <1>00, <3>1
      <4>. QED  BY <1>0, <4>1, <4>2, <4>3
    <3>. QED  BY <1>0, <1>3, <2>2, <3>2 DEF QueueFill, Q!Link, Q!popVars
  <2>. QED  BY <2>1, <2>2
<1>4. CASE Q!Move
  <2>1. qLast' = Len(qBlock) /\ qLast' \in 1..Len(qBlock) /\ qBlock[qLast'].write < qBlock[qLast'].read + BlockSize
    BY <1>0, <1>00, <1>4 DEF QueueFill, QueueShape, Q!Move, Q!Null
  <2>. QED  BY <1>0, <1>4, <2>1 DEF QueueFill, Q!Move, Q!popVars
<1>5. CASE Q!Store
  <2>1. qPushPc = "store" /\ qPushPc' = "count" /\ UNCHANGED <<qFirst, qLast, qPopPc, qLate, qOvertaken>>
    BY <1>5 DEF Q!Store, Q!popVars
  <2>2. qPopPc # "out" => qFirst \in 1..Len(qBlock)
    BY <1>0 DEF QueueShape, Q!Null
  <2>3. /\ Len(qBlock') = Len(qBlock) /\ qLast \in 1..Len(qBlock)
        /\ \A b \in 1..Len(qBlock) : qBlock'[b].read = qBlock[b].read /\ qBlock'[b].write = qBlock[b].write
    BY <1>5, StoreEffect
  <2>. QED  BY <1>0, <1>00, <2>1, <2>2, <2>3 DEF QueueFill
<1>6. CASE Q!Count
  <2>1. qPushPc = "count" /\ qPushPc' = "out" /\ UNCHANGED <<qFirst, qLast, qPopPc>>
           /\ (qPopPc = "next" => qLate' = qLate + 1) /\ (qOvertaken' <=> qOvertaken \/ qLate' >= BlockSize)
    BY <1>6 DEF Q!Count, Q!popVars
  <2>2. qPopPc # "out" => qFirst \in 1..Len(qBlock)
    BY <1>0 DEF QueueShape, Q!Null
  <2>3. /\ Len(qBlock') = Len(qBlock) /\ qLast \in 1..Len(qBlock)
        /\ \A b \in 1..Len(qBlock) :
             /\ qBlock'[b].read = qBlock[b].read
             /\ qBlock'[b].write = IF b = qLast THEN qBlock[b].write + 1 ELSE qBlock[b].write
    BY <1>6, CountEffect
  <2>4. qLast = Len(qBlock)
    BY <2>1 DEF QueueShape
  <2>5. ASSUME qPopPc' = "next", ~qOvertaken'
        PROVE  /\ qBlock'[qFirst'].write <= qBlock'[qFirst'].read + qLate' /\ qLate' < BlockSize
               /\ qFirst' < Len(qBlock') => qBlock'[qFirst'].write = qBlock'[qFirst'].read
    <3>1. qLate' = qLate + 1 /\ ~qOvertaken /\ ~(qLate' >= BlockSize) /\ qPopPc = "next" /\ qFirst' = qFirst
      BY <2>1, <2>5
    <3>2. qBlock[qFirst].write <= qBlock[qFirst].read + qLate
             /\ (qFirst < Len(qBlock) => qBlock[qFirst].write = qBlock[qFirst].read)
      BY <3>1 DEF QueueFill
    <3>3. qLate' < BlockSize /\ qFirst \in 1..Len(qBlock)
      BY <1>0, <2>2, <3>1
    <3>4. CASE qFirst = qLast
      <4>1. qBlock'[qFirst].read = qBlock[qFirst].read /\ qBlock'[qFirst].write = qBlock[qFirst].write + 1
        BY <2>3, <3>3, <3>4
      <4>2. qBlock'[qFirst].write <= qBlock'[qFirst].read + qLate'
        BY <1>0, <1>00, <3>1, <3>2, <3>3, <4>1
      <4>. QED  BY <1>0, <2>3, <2>4, <3>1, <3>3, <3>4, <4>2
    <3>5. CASE qFirst # qLast
      <4>1. qBlock'[qFirst].read = qBlock[qFirst].read /\ qBlock'[qFirst].write = qBlock[qFirst].write
        BY <2>3, <3>3, <3>5
      <4>2. qBlock'[qFirst].write <= qBlock'[qFirst].read + qLate'
        BY <1>0, <1>00, <3>1, <3>2, <3>3, <4>1
      <4>3. qFirst < Len(qBlock)
        BY <1>0, <2>4, <3>3, <3>5
      <4>. QED  BY <2>3, <3>1, <3>2, <3>3, <4>1, <4>2, <4>3
    <3>. QED  BY <3>4, <3>5
  <2>6. \A b \in 1..Len(qBlock') : /\ qBlock'[b].read <= qBlock'[b].write
                                   /\ qBlock'[b].write <= qBlock'[b].read + BlockSize
                                   /\ b > qFirst' => qBlock'[b].read = 0
    BY <1>0, <1>00, <2>1, <2>3 DEF QueueFill
  <2>7. qPopPc \in {"take", "advance"} => qBlock'[qFirst].read < qBlock'[qFirst].write
    BY <1>0, <1>00, <2>2, <2>3 DEF QueueFill
  <2>8. qPopPc' \in {"take", "advance"} => qBlock'[qFirst'].read < qBlock'[qFirst'].write
    BY <2>1, <2>7
  <2>9. qPushPc' \notin {"store", "count", "move"}
    BY <2>1
  <2>. HIDE DEF QueueInv
  <2>a. (\A b \in 1..Len(qBlock) : /\ qBlock[b].read <= qBlock[b].write
                                   /\ qBlock[b].write <= qBlock[b].read + BlockSize
                                   /\ b > qFirst => qBlock[b].read = 0)'
    BY <2>6
  <2>b. (qPopPc \in {"take", "advance"} => qBlock[qFirst].read < qBlock[qFirst].write)'
    BY <2>8
  <2>c. (qPushPc \in {"store", "count"} => qBlock[qLast].write < qBlock[qLast].read + BlockSize)'
    BY <2>9
  <2>d. (qPushPc = "move" => qBlock[Len(qBlock)].write = 0)'
    BY <2>9
  <2>e. ((qPopPc = "next" /\ ~qOvertaken) =>
             /\ qBlock[qFirst].write <= qBlock[qFirst].read + qLate /\ qLate < BlockSize
             /\ qFirst < Len(qBlock) => qBlock[qFirst].write = qBlock[qFirst].read)'
    BY <2>5
  <2>. QED  BY <2>a, <2>b, <2>c, <2>d, <2>e DEF QueueFill
<1>7. CASE Q!BeginPop
  BY <1>0, <1>7 DEF QueueFill, Q!BeginPop, Q!pushVars
<1>8. CASE Q!CheckEmpty
  <2>1. /\ qFirst \in 1..Len(qBlock) /\ UNCHANGED <<qBlock, qFirst, qLast, qPushPc>>
        /\ qLate' = 0 /\ qPopPc' = IF Q!IsEmpty(qFirst) THEN "next" ELSE "take"
    BY <1>0, <1>8 DEF QueueShape, Q!CheckEmpty, Q!Null, Q!pushVars
  <2>. QED  BY <1>0, <1>00, <2>1 DEF QueueFill, Q!IsEmpty
<1>9. CASE Q!Take
  BY <1>0, <1>9 DEF QueueFill, Q!Take, Q!pushVars
<1>10. CASE Q!Advance
  <2>1. qPopPc = "advance" /\ qPopPc' = "out" /\ UNCHANGED <<qFirst, qLast, qPushPc>>
    BY <1>10 DEF Q!Advance, Q!pushVars
  <2>3. /\ Len(qBlock') = Len(qBlock) /\ qFirst \in 1..Len(qBlock)
        /\ \A b \in 1..Len(qBlock) :
             /\ qBlock'[b].write = qBlock[b].write
             /\ qBlock'[b].read = IF b = qFirst THEN qBlock[b].read + 1 ELSE qBlock[b].read
    BY <1>10, AdvanceEffect
  <2>4. qPushPc \in {"store", "count", "move"} => qLast \in 1..Len(qBlock)
    <3>1. qPushPc \in {"store", "count", "move"} => qLast # 0
      BY DEF QueueShape, Q!Null
    <3>. QED  BY <1>0, <3>1
  <2>5. qBlock[qFirst].read < qBlock[qFirst].write
    BY <2>1 DEF QueueFill
  <2>6. \A b \in 1..Len(qBlock') : /\ qBlock'[b].read <= qBlock'[b].write
                                   /\ qBlock'[b].write <= qBlock'[b].read + BlockSize
                                   /\ b > qFirst' => qBlock'[b].read = 0
    <3>1. ASSUME NEW b \in 1..Len(qBlock)
          PROVE  /\ qBlock'[b].read <= qBlock'[b].write
                 /\ qBlock'[b].write <= qBlock'[b].read + BlockSize
                 /\ b > qFirst => qBlock'[b].read = 0
      <4>1. /\ qBlock[b].read \in Nat /\ qBlock[b].write \in Nat
            /\ qBlock[b].read <= qBlock[b].write /\ qBlock[b].write <= qBlock[b].read + BlockSize
            /\ b > qFirst => qBlock[b].read = 0
        BY <1>00 DEF QueueFill
      <4>2. qBlock'[b].write = qBlock[b].write
              /\ qBlock'[b].read = IF b = qFirst THEN qBlock[b].read + 1 ELSE qBlock[b].read
        BY <2>3
      <4>. HIDE DEF QueueInv
      <4>. QED  BY <1>0, <2>5, <4>1, <4>2
    <3>. QED  BY <2>1, <2>3, <3>1
  <2>7. qPopPc' \notin {"take", "advance", "next"}
    BY <2>1
  <2>8. qPushPc \in {"store", "count"} => qBlock'[qLast].write < qBlock'[qLast].read + BlockSize
    <3>1. qPushPc \in {"store", "count"} => qBlock[qLast].write < qBlock[qLast].read + BlockSize
      BY DEF QueueFill
    <3>. QED  BY <1>0, <1>00, <2>3, <2>4, <3>1
  <2>9. qPushPc = "move" => qBlock'[Len(qBlock)].write = 0
    BY <1>0, <2>3, <2>4 DEF QueueFill
  <2>. HIDE DEF QueueInv
  <2>a. (\A b \in 1..Len(qBlock) : /\ qBlock[b].read <= qBlock[b].write
                                   /\ qBlock[b].write <= qBlock[b].read + BlockSize
                                   /\ b > qFirst => qBlock[b].read = 0)'
    BY <2>6
  <2>b. (qPopPc \in {"take", "advance"} => qBlock[qFirst].read < qBlock[qFirst].write)'
    BY <2>7
  <2>c. (qPushPc \in {"store", "count"} => qBlock[qLast].write < qBlock[qLast].read + BlockSize)'
    BY <2>1, <2>8
  <2>d. (qPushPc = "move" => qBlock[Len(qBlock)].write = 0)'
    BY <2>1, <2>3, <2>9
  <2>e. ((qPopPc = "next" /\ ~qOvertaken) =>
             /\ qBlock[qFirst].write <= qBlock[qFirst].read + qLate /\ qLate < BlockSize
             /\ qFirst < Len(qBlock) => qBlock[qFirst].write = qBlock[qFirst].read)'
    BY <2>7
  <2>. QED  BY <2>a, <2>b, <2>c, <2>d, <2>e DEF QueueFill
<1>11. CASE Q!NextBlock
  <2>1. UNCHANGED <<qBlock, qLast, qPushPc>> /\ qPopPc' \in {"out", "isEmpty"}
           /\ qFirst' \in {qFirst, qBlock[qFirst].next} /\ (qFirst' # qFirst => qBlock[qFirst].next # Q!Null)
    BY <1>11 DEF Q!NextBlock, Q!pushVars
  <2>2. qFirst' >= qFirst
    BY <1>0, <1>11, <2>1 DEF QueueShape, Q!NextBlock, Q!Null
  <2>3. \A b \in 1..Len(qBlock) : b > qFirst' => b > qFirst
    <3>1. qFirst' \in Int
      BY <1>0, <1>11, <2>1 DEF QueueShape, Q!NextBlock, Q!Null
    <3>. QED  BY <1>0, <2>2, <3>1
  <2>. QED  BY <1>0, <2>1, <2>3 DEF QueueFill
<1>12. CASE UNCHANGED Q!vars
  BY <1>12 DEF QueueFill, Q!vars, Q!pushVars, Q!popVars
<1>. QED  BY <1>1, <1>2, <1>3, <1>4, <1>5, <1>6, <1>7, <1>8, <1>9, <1>10, <1>11, <1>12
       DEF Q!Next, Q!PushStep, Q!PopStep

-----------------------------------------------------------------------------
(* The numbers of the entries.                                             *)

(* Facts about sums and intervals, for numbers of their own: the leaves    *)
(* that need them have them of the fields of blocks.                       *)
LEMMA ReadNotWritten ==
  ASSUME NEW r \in Nat, NEW w \in Nat, NEW n \in Nat, w < r + n, NEW i \in r..(w - 1)
  PROVE  i \in Nat /\ i < w /\ w < i + n
OBVIOUS

LEMMA LastCell ==
  ASSUME NEW r \in Nat, NEW w \in Nat, NEW v \in Nat, v = w + 1,
         NEW i \in r..(v - 1), i \notin r..(w - 1)
  PROVE  i = w
OBVIOUS

LEMMA FirstCell ==
  ASSUME NEW r \in Nat, NEW w \in Nat, r < w
  PROVE  r \in r..(w - 1)
OBVIOUS

LEMMA OneMoreRead ==
  ASSUME NEW x \in Nat, NEW r \in Nat, NEW s, s = r + 1
  PROVE  x + s = x + r + 1
OBVIOUS

LEMMA NextNat ==
  ASSUME NEW n \in Nat
  PROVE  n + 1 \in Nat
OBVIOUS

LEMMA StillCovered ==
  ASSUME NEW x \in Nat, NEW w \in Nat, NEW e \in Int, e <= x + w
  PROVE  e <= x + (w + 1)
OBVIOUS

LEMMA UpToOneMore ==
  ASSUME NEW n \in Nat, NEW b \in 1..(n + 1)
  PROVE  b \in 1..n \/ b = n + 1
OBVIOUS

LEMMA NotBeyond ==
  ASSUME NEW x \in Nat, NEW w \in Nat, NEW y \in Nat, NEW v \in Nat, x + w <= y
  PROVE  x + w <= y + v
OBVIOUS

(* A step that leaves the blocks alone leaves their numbers.               *)
LEMMA SameNumbers ==
  ASSUME NEW base \in [Nat -> Nat], NumberedBlocks(base), UNCHANGED <<qBlock, qPushed>>
  PROVE  NumberedBlocks(base)'
BY DEF NumberedBlocks, Q!Unread, Q!Entry

(* A step that reads no entry leaves what Pop has counted.                 *)
LEMMA SamePops ==
  ASSUME NEW base \in [Nat -> Nat], NumberedPops(base), QueueTypes, QueueShape,
         UNCHANGED <<qFirst, qPopped, qGot>>,
         qPopPc' = "advance" => qPopPc = "advance", ~qOvertaken' => ~qOvertaken,
         Len(qBlock') \in Nat,
         \A b \in 1..Len(qBlock) : qBlock'[b].read = qBlock[b].read
  PROVE  NumberedPops(base)'
<1>1. qFirst # Q!Null => qFirst \in 1..Len(qBlock)
  BY DEF QueueTypes, Q!Null
<1>2. qPopPc = "advance" => qFirst # Q!Null
  BY DEF QueueShape
<1>. QED  BY <1>1, <1>2 DEF NumberedPops

(* A store writes the next number, and over none that is unread.           *)
LEMMA StoreNumbers ==
  ASSUME QueueTypes, QueueShape, QueueFill, Q!Store,
         NEW base \in [Nat -> Nat], NumberedBlocks(base)
  PROVE  NumberedBlocks(base)' /\ Q!Entry(qLast, qBlock[qLast].write)' = qPushed + 1
<1>1. /\ qLast \in 1..Len(qBlock) /\ Len(qBlock') = Len(qBlock)
      /\ \A b \in 1..Len(qBlock) :
           /\ qBlock'[b].read = qBlock[b].read /\ qBlock'[b].write = qBlock[b].write
           /\ qBlock'[b].entries =
                IF b = qLast THEN [qBlock[b].entries EXCEPT ![Q!Ring(qBlock[b].write)] = qPushed + 1]
                             ELSE qBlock[b].entries
  BY StoreEffect
<1>2. qLast' = qLast /\ qPushed' = qPushed /\ qBlock[qLast].write < qBlock[qLast].read + BlockSize
  BY DEF Q!Store, QueueFill
<1>3. ASSUME NEW b \in 1..Len(qBlock), NEW i \in Q!Unread(b)
      PROVE  qBlock'[b].entries[Q!Ring(i)] = qBlock[b].entries[Q!Ring(i)]
  <2>1. CASE b = qLast
    <3>1. /\ qBlock[b].read \in Nat /\ qBlock[b].write \in Nat
          /\ qBlock[b].entries \in [0..(BlockSize - 1) -> Nat]
      BY BlockTypes
    <3>2. i \in Nat /\ i < qBlock[b].write /\ qBlock[b].write < i + BlockSize
      <4>1. i \in qBlock[b].read..(qBlock[b].write - 1)
        BY DEF Q!Unread
      <4>2. qBlock[b].write < qBlock[b].read + BlockSize /\ BlockSize \in Nat
        BY <1>2, <2>1, QueueAssumption
      <4>. QED  BY <3>1, <4>1, <4>2, ReadNotWritten
    <3>3. Q!Ring(i) # Q!Ring(qBlock[b].write) /\ Q!Ring(i) \in 0..(BlockSize - 1)
      BY <3>1, <3>2, RingType, RingsDiffer
    <3>. QED  BY <1>1, <2>1, <3>1, <3>3
  <2>2. CASE b # qLast
    BY <1>1, <2>2
  <2>. QED  BY <2>1, <2>2
<1>4. \A b \in 1..Len(qBlock) : Q!Unread(b)' = Q!Unread(b)
  BY <1>1 DEF Q!Unread
<1>5. \A b \in 1..Len(qBlock) : \A i \in Q!Unread(b)' : Q!Entry(b, i)' = base[b] + i + 1
  BY <1>3, <1>4 DEF NumberedBlocks, Q!Entry
<1>6. (\A b \in 1..Len(qBlock) : \A i \in Q!Unread(b) : Q!Entry(b, i) = base[b] + i + 1)'
  BY <1>1, <1>5
<1>7. (Len(qBlock) > 0 => base[1] = 0)'
  BY <1>1 DEF NumberedBlocks
<1>8. (\A b \in 1..Len(qBlock) :
         base[b] + qBlock[b].write = IF b = Len(qBlock) THEN qPushed ELSE base[b + 1])'
  BY <1>1, <1>2 DEF NumberedBlocks
<1>9. (\A b, c \in 1..Len(qBlock) : b < c => base[b] + qBlock[b].write <= base[c])'
  BY <1>1 DEF NumberedBlocks
<1>10. (\A e \in 1..qPushed :
         \E b \in 1..Len(qBlock) : base[b] < e /\ e <= base[b] + qBlock[b].write)'
  BY <1>1, <1>2 DEF NumberedBlocks
<1>11. Q!Entry(qLast, qBlock[qLast].write)' = qPushed + 1
  <2>1. /\ qBlock[qLast].entries \in [0..(BlockSize - 1) -> Nat]
        /\ Q!Ring(qBlock[qLast].write) \in 0..(BlockSize - 1)
    BY <1>1, BlockTypes, RingType
  <2>. QED  BY <1>1, <1>2, <2>1 DEF Q!Entry
<1>. QED  BY <1>6, <1>7, <1>8, <1>9, <1>10, <1>11 DEF NumberedBlocks

(* Counting a push adds its number to the last block.                      *)
LEMMA CountNumbers ==
  ASSUME QueueTypes, QueueShape, QueueFill, Q!Count,
         NEW base \in [Nat -> Nat], NumberedBlocks(base),
         Q!Entry(qLast, qBlock[qLast].write) = qPushed + 1
  PROVE  NumberedBlocks(base)'
<1>1. /\ qLast \in 1..Len(qBlock) /\ Len(qBlock') = Len(qBlock)
      /\ \A b \in 1..Len(qBlock) :
           /\ qBlock'[b].read = qBlock[b].read /\ qBlock'[b].entries = qBlock[b].entries
           /\ qBlock'[b].write = IF b = qLast THEN qBlock[b].write + 1 ELSE qBlock[b].write
  BY CountEffect
<1>2. qLast = Len(qBlock) /\ qPushed' = qPushed + 1 /\ qPushed \in Nat
  BY DEF Q!Count, QueueShape, QueueTypes
<1>3. \A b \in 1..Len(qBlock) : qBlock[b].read \in Nat /\ qBlock[b].write \in Nat /\ base[b] \in Nat
  <2>1. \A b \in 1..Len(qBlock) : base[b] \in Nat
    OBVIOUS
  <2>. QED  BY <2>1, BlockTypes
<1>4. base[qLast] + qBlock[qLast].write = qPushed
  BY <1>1, <1>2 DEF NumberedBlocks
<1>5. ASSUME NEW b \in 1..Len(qBlock), NEW i \in Q!Unread(b)'
      PROVE  Q!Entry(b, i)' = base[b] + i + 1
  <2>1. Q!Entry(b, i)' = Q!Entry(b, i)
    BY <1>1 DEF Q!Entry
  <2>2. CASE i \in Q!Unread(b)
    BY <2>1, <2>2 DEF NumberedBlocks
  <2>3. CASE i \notin Q!Unread(b)
    <3>1. b = qLast /\ i = qBlock[qLast].write
      <4>1. i \in qBlock[b].read..(qBlock'[b].write - 1) /\ i \notin qBlock[b].read..(qBlock[b].write - 1)
        BY <1>1, <2>3 DEF Q!Unread
      <4>2. qBlock[b].read \in Nat /\ qBlock[b].write \in Nat
        BY <1>3
      <4>3. qBlock'[b].write = IF b = qLast THEN qBlock[b].write + 1 ELSE qBlock[b].write
        BY <1>1
      <4>4. b = qLast
        BY <4>1, <4>3
      <4>5. qBlock'[b].write = qBlock[b].write + 1 /\ qBlock'[b].write \in Nat
        <5>1. qBlock'[b].write = qBlock[b].write + 1
          BY <1>1, <4>4
        <5>2. qBlock[b].write + 1 \in Nat
          BY <4>2, NextNat
        <5>. QED  BY <5>1, <5>2
      <4>. QED  BY <4>1, <4>2, <4>4, <4>5, LastCell
    <3>. QED  BY <1>1, <1>2, <1>3, <1>4, <2>1, <3>1
  <2>. QED  BY <2>2, <2>3
<1>6. (\A b \in 1..Len(qBlock) : \A i \in Q!Unread(b) : Q!Entry(b, i) = base[b] + i + 1)'
  BY <1>1, <1>5
<1>7. (Len(qBlock) > 0 => base[1] = 0)'
  BY <1>1 DEF NumberedBlocks
<1>8. (\A b \in 1..Len(qBlock) :
         base[b] + qBlock[b].write = IF b = Len(qBlock) THEN qPushed ELSE base[b + 1])'
  <2>1. ASSUME NEW b \in 1..Len(qBlock)
        PROVE  base[b] + qBlock'[b].write = IF b = Len(qBlock) THEN qPushed + 1 ELSE base[b + 1]
    <3>1. CASE b = Len(qBlock)
      <4>1. qBlock'[b].write = qBlock[b].write + 1 /\ base[b] + qBlock[b].write = qPushed
        BY <1>1, <1>2, <1>4, <3>1
      <4>2. base[b] \in Nat /\ qBlock[b].write \in Nat
        BY <1>3
      <4>. QED  BY <3>1, <4>1, <4>2
    <3>2. CASE b # Len(qBlock)
      BY <1>1, <1>2, <3>2 DEF NumberedBlocks
    <3>. QED  BY <3>1, <3>2
  <2>. QED  BY <1>1, <1>2, <2>1
<1>9. (\A b, c \in 1..Len(qBlock) : b < c => base[b] + qBlock[b].write <= base[c])'
  BY <1>1, <1>2 DEF NumberedBlocks
<1>10. ASSUME NEW e \in 1..(qPushed + 1)
       PROVE  \E b \in 1..Len(qBlock) : base[b] < e /\ e <= base[b] + qBlock'[b].write
  <2>1. CASE e = qPushed + 1
    <3>1. base[qLast] < e /\ e <= base[qLast] + qBlock'[qLast].write
      <4>1. qBlock'[qLast].write = qBlock[qLast].write + 1 /\ base[qLast] + qBlock[qLast].write = qPushed
        BY <1>1, <1>4
      <4>2. base[qLast] \in Nat /\ qBlock[qLast].write \in Nat
        BY <1>1, <1>3
      <4>. QED  BY <2>1, <4>1, <4>2
    <3>. QED  BY <1>1, <3>1
  <2>2. CASE e # qPushed + 1
    <3>1. e \in 1..qPushed
      BY <1>2, <2>2
    <3>2. PICK b \in 1..Len(qBlock) : base[b] < e /\ e <= base[b] + qBlock[b].write
      BY <3>1 DEF NumberedBlocks
    <3>3. e <= base[b] + qBlock'[b].write
      <4>1. qBlock'[b].write = IF b = qLast THEN qBlock[b].write + 1 ELSE qBlock[b].write
        BY <1>1
      <4>2. base[b] \in Nat /\ qBlock[b].write \in Nat
        BY <1>3
      <4>3. e \in Int
        BY <1>2
      <4>. QED  BY <3>2, <4>1, <4>2, <4>3, StillCovered
    <3>. QED  BY <3>2, <3>3
  <2>. QED  BY <2>1, <2>2
<1>11. (\A e \in 1..qPushed :
         \E b \in 1..Len(qBlock) : base[b] < e /\ e <= base[b] + qBlock[b].write)'
  BY <1>1, <1>2, <1>10
<1>. QED  BY <1>6, <1>7, <1>8, <1>9, <1>11 DEF NumberedBlocks

(* Counting a pop takes a number away.                                     *)
LEMMA AdvanceNumbers ==
  ASSUME QueueTypes, QueueShape, Q!Advance,
         NEW base \in [Nat -> Nat], NumberedBlocks(base)
  PROVE  NumberedBlocks(base)'
<1>1. /\ qFirst \in 1..Len(qBlock) /\ Len(qBlock') = Len(qBlock) /\ qPushed' = qPushed
      /\ \A b \in 1..Len(qBlock) :
           /\ qBlock'[b].write = qBlock[b].write /\ qBlock'[b].entries = qBlock[b].entries
           /\ qBlock'[b].read = IF b = qFirst THEN qBlock[b].read + 1 ELSE qBlock[b].read
  BY AdvanceEffect DEF Q!Advance, Q!pushVars
<1>2. \A b \in 1..Len(qBlock) : qBlock[b].read \in Nat /\ qBlock[b].write \in Nat
  BY BlockTypes
<1>3. \A b \in 1..Len(qBlock) : \A i \in Q!Unread(b)' : i \in Q!Unread(b) /\ Q!Entry(b, i)' = Q!Entry(b, i)
  <2>1. ASSUME NEW b \in 1..Len(qBlock), NEW i \in Q!Unread(b)'
        PROVE  i \in Q!Unread(b)
    <3>1. /\ i \in qBlock'[b].read..(qBlock[b].write - 1)
          /\ qBlock'[b].read = IF b = qFirst THEN qBlock[b].read + 1 ELSE qBlock[b].read
      BY <1>1 DEF Q!Unread
    <3>2. qBlock[b].read \in Nat /\ qBlock[b].write \in Nat
      BY <1>2
    <3>3. i \in qBlock[b].read..(qBlock[b].write - 1)
      BY <3>1, <3>2
    <3>. QED  BY <3>3 DEF Q!Unread
  <2>2. \A b \in 1..Len(qBlock) : \A i \in Q!Unread(b)' : Q!Entry(b, i)' = Q!Entry(b, i)
    BY <1>1 DEF Q!Entry
  <2>. QED  BY <2>1, <2>2
<1>4. (\A b \in 1..Len(qBlock) : \A i \in Q!Unread(b) : Q!Entry(b, i) = base[b] + i + 1)'
  BY <1>1, <1>3 DEF NumberedBlocks
<1>. QED  BY <1>1, <1>4 DEF NumberedBlocks

(* The new block starts where the full one ends.                           *)
LEMMA LinkNumbers ==
  ASSUME QueueTypes, QueueShape, Q!Link, Q!IsFull(qLast),
         NEW base \in [Nat -> Nat], NumberedBlocks(base), NumberedPops(base),
         NEW base2, base2 = [base EXCEPT ![Len(qBlock) + 1] = qPushed]
  PROVE  base2 \in [Nat -> Nat] /\ NumberedBlocks(base2)' /\ NumberedPops(base2)'
<1>1. /\ qLast = Len(qBlock) /\ qLast \in 1..Len(qBlock) /\ Len(qBlock') = Len(qBlock) + 1
      /\ qBlock'[Len(qBlock) + 1] = Q!New
      /\ \A b \in 1..Len(qBlock) :
           /\ qBlock'[b].read = qBlock[b].read /\ qBlock'[b].write = qBlock[b].write
           /\ qBlock'[b].entries = qBlock[b].entries
  BY LinkEffect
<1>2. Len(qBlock) \in Nat /\ qPushed \in Nat
  BY DEF QueueTypes
<1>3. \A b \in 1..Len(qBlock) : qBlock[b].read \in Nat /\ qBlock[b].write \in Nat /\ base[b] \in Nat
  <2>1. \A b \in 1..Len(qBlock) : base[b] \in Nat
    OBVIOUS
  <2>. QED  BY <2>1, BlockTypes
<1>4. UNCHANGED <<qFirst, qPushed, qPopPc, qGot, qPopped, qOvertaken>>
  BY DEF Q!Link, Q!popVars
<1>5. base2[Len(qBlock) + 1] = qPushed /\ \A b \in 1..Len(qBlock) : base2[b] = base[b]
  BY <1>2
<1>6. base2 \in [Nat -> Nat]
  BY <1>2
<1>7. qBlock'[Len(qBlock) + 1].read = 0 /\ qBlock'[Len(qBlock) + 1].write = 0
  BY <1>1 DEF Q!New
<1>8. base[Len(qBlock)] + qBlock[Len(qBlock)].write = qPushed
  BY <1>1 DEF NumberedBlocks
<1>9. \A b \in 1..Len(qBlock') : b \in 1..Len(qBlock) \/ b = Len(qBlock) + 1
  <2>1. Len(qBlock') = Len(qBlock) + 1
    BY <1>1
  <2>. QED  BY <1>2, <2>1, UpToOneMore
<1>10. (Len(qBlock) > 0 => base2[1] = 0)'
  BY <1>1, <1>5 DEF NumberedBlocks
<1>11. (\A b \in 1..Len(qBlock) :
         base2[b] + qBlock[b].write = IF b = Len(qBlock) THEN qPushed ELSE base2[b + 1])'
  <2>1. ASSUME NEW b \in 1..Len(qBlock)
        PROVE  base2[b] + qBlock'[b].write = base2[b + 1]
    <3>1. CASE b = Len(qBlock)
      BY <1>1, <1>5, <1>8, <3>1
    <3>2. CASE b # Len(qBlock)
      <4>1. b + 1 \in 1..Len(qBlock)
        BY <1>2, <3>2
      <4>2. base[b] + qBlock[b].write = base[b + 1]
        BY <3>2 DEF NumberedBlocks
      <4>. QED  BY <1>1, <1>5, <4>1, <4>2
    <3>. QED  BY <3>1, <3>2
  <2>2. base2[Len(qBlock) + 1] + qBlock'[Len(qBlock) + 1].write = qPushed
    BY <1>2, <1>5, <1>7
  <2>3. \A b \in 1..Len(qBlock) : b # Len(qBlock')
    BY <1>1, <1>2
  <2>4. ASSUME NEW b \in 1..Len(qBlock')
        PROVE  base2[b] + qBlock'[b].write = IF b = Len(qBlock') THEN qPushed ELSE base2[b + 1]
    <3>1. CASE b \in 1..Len(qBlock)
      BY <2>1, <2>3, <3>1
    <3>2. CASE b = Len(qBlock) + 1
      BY <1>1, <2>2, <3>2
    <3>. QED  BY <1>9, <3>1, <3>2
  <2>5. qPushed' = qPushed
    BY <1>4
  <2>6. \A b \in 1..Len(qBlock') :
          base2[b] + qBlock'[b].write = IF b = Len(qBlock') THEN qPushed' ELSE base2[b + 1]
    BY <2>4, <2>5
  <2>. QED  BY <2>6
<1>12. (\A b, c \in 1..Len(qBlock) : b < c => base2[b] + qBlock[b].write <= base2[c])'
  <2>1. ASSUME NEW b \in 1..Len(qBlock), NEW c \in 1..Len(qBlock), b < c
        PROVE  base2[b] + qBlock'[b].write <= base2[c]
    BY <1>1, <1>5, <2>1 DEF NumberedBlocks
  <2>2. ASSUME NEW b \in 1..Len(qBlock)
        PROVE  base2[b] + qBlock'[b].write <= base2[Len(qBlock) + 1]
    <3>1. CASE b = Len(qBlock)
      BY <1>1, <1>2, <1>5, <1>8, <3>1
    <3>2. CASE b # Len(qBlock)
      <4>1. b < Len(qBlock) /\ Len(qBlock) \in 1..Len(qBlock)
        <5>1. Len(qBlock) \in 1..Len(qBlock)
          BY <1>1
        <5>. QED  BY <1>2, <3>2, <5>1
      <4>2. base[b] + qBlock[b].write <= base[Len(qBlock)]
        BY <4>1 DEF NumberedBlocks
      <4>3. /\ base[Len(qBlock)] \in Nat /\ qBlock[Len(qBlock)].write \in Nat
            /\ base[b] \in Nat /\ qBlock[b].write \in Nat
        BY <1>3, <4>1
      <4>4. base[b] + qBlock[b].write <= qPushed
        BY <1>8, <4>2, <4>3, NotBeyond
      <4>. QED  BY <1>1, <1>5, <4>4
    <3>. QED  BY <3>1, <3>2
  <2>3. \A b \in 1..Len(qBlock') : ~(Len(qBlock) + 1 < b)
    BY <1>1, <1>2
  <2>. QED  BY <1>9, <2>1, <2>2, <2>3
<1>13. (\A b \in 1..Len(qBlock) : \A i \in Q!Unread(b) : Q!Entry(b, i) = base2[b] + i + 1)'
  <2>1. ASSUME NEW b \in 1..Len(qBlock), NEW i \in Q!Unread(b)'
        PROVE  Q!Entry(b, i)' = base2[b] + i + 1
    <3>1. i \in Q!Unread(b) /\ Q!Entry(b, i)' = Q!Entry(b, i)
      BY <1>1, <2>1 DEF Q!Unread, Q!Entry
    <3>. QED  BY <1>5, <3>1 DEF NumberedBlocks
  <2>2. PICK n \in Nat : n = Len(qBlock) + 1
    BY <1>2
  <2>3. Q!Unread(n)' = {}
    <3>1. qBlock'[n].read..(qBlock'[n].write - 1) = 0..(0 - 1)
      BY <1>7, <2>2
    <3>2. 0..(0 - 1) = {}
      OBVIOUS
    <3>. QED  BY <3>1, <3>2 DEF Q!Unread
  <2>4. ASSUME NEW b \in 1..Len(qBlock'), NEW i \in Q!Unread(b)'
        PROVE  Q!Entry(b, i)' = base2[b] + i + 1
    <3>1. CASE b \in 1..Len(qBlock)
      BY <2>1, <3>1
    <3>2. CASE b = n
      BY <2>3, <3>2
    <3>. QED  BY <1>9, <2>2, <3>1, <3>2
  <2>. QED  BY <2>4
<1>14. (\A e \in 1..qPushed :
         \E b \in 1..Len(qBlock) : base2[b] < e /\ e <= base2[b] + qBlock[b].write)'
  <2>1. ASSUME NEW e \in 1..qPushed
        PROVE  \E b \in 1..Len(qBlock) : base2[b] < e /\ e <= base2[b] + qBlock'[b].write
    <3>1. PICK b \in 1..Len(qBlock) : base[b] < e /\ e <= base[b] + qBlock[b].write
      BY DEF NumberedBlocks
    <3>2. base2[b] < e /\ e <= base2[b] + qBlock'[b].write
      BY <1>1, <1>5, <3>1
    <3>. QED  BY <3>2
  <2>2. \A b \in 1..Len(qBlock) : b \in 1..Len(qBlock')
    BY <1>1, <1>2
  <2>. QED  BY <1>4, <2>1, <2>2
<1>15. NumberedPops(base2)'
  <2>1. qFirst # Q!Null => qFirst \in 1..Len(qBlock)
    BY DEF QueueTypes, Q!Null
  <2>2. qPopPc = "advance" => qFirst # Q!Null
    BY DEF QueueShape
  <2>3. qFirst # Q!Null => base2[qFirst] = base[qFirst] /\ qBlock'[qFirst].read = qBlock[qFirst].read
    BY <1>1, <1>5, <2>1
  <2>. QED  BY <1>4, <2>2, <2>3 DEF NumberedPops
<1>. QED  BY <1>6, <1>10, <1>11, <1>12, <1>13, <1>14, <1>15 DEF NumberedBlocks

(* The first block starts with the first number.                           *)
LEMMA FirstNumbers ==
  ASSUME QueueTypes, QueueShape, Q!BeginPush, qLast = Q!Null,
         NEW base \in [Nat -> Nat], NumberedBlocks(base),
         NEW base2, base2 = [base EXCEPT ![1] = 0]
  PROVE  base2 \in [Nat -> Nat] /\ NumberedBlocks(base2)' /\ NumberedPops(base2)'
<1>1. /\ Len(qBlock) = 0 /\ Len(qBlock') = 1 /\ qBlock'[1] = Q!New
  BY BeginEffect
<1>2. qPushed = 0
  <2>1. \A e \in 1..qPushed : FALSE
    BY <1>1 DEF NumberedBlocks
  <2>2. qPushed \in Nat
    BY DEF QueueTypes
  <2>. QED  BY <2>1, <2>2
<1>3. qPushed' = 0 /\ qFirst' = Q!Null /\ qPopPc' = "out"
  BY <1>1, <1>2 DEF Q!BeginPush, QueueShape, Q!popVars, Q!Null
<1>4. base2 \in [Nat -> Nat] /\ base2[1] = 0
  OBVIOUS
<1>5. qBlock'[1].read = 0 /\ qBlock'[1].write = 0
  BY <1>1 DEF Q!New
<1>6. \A b \in 1..Len(qBlock') : b = 1
  BY <1>1
<1>7. (\A b \in 1..Len(qBlock) :
         base2[b] + qBlock[b].write = IF b = Len(qBlock) THEN qPushed ELSE base2[b + 1])'
  BY <1>1, <1>3, <1>4, <1>5, <1>6
<1>8. (\A b, c \in 1..Len(qBlock) : b < c => base2[b] + qBlock[b].write <= base2[c])'
  BY <1>6
<1>9. (\A b \in 1..Len(qBlock) : \A i \in Q!Unread(b) : Q!Entry(b, i) = base2[b] + i + 1)'
  <2>1. Q!Unread(1)' = {}
    <3>1. qBlock'[1].read..(qBlock'[1].write - 1) = 0..(0 - 1)
      BY <1>5
    <3>2. 0..(0 - 1) = {}
      OBVIOUS
    <3>. QED  BY <3>1, <3>2 DEF Q!Unread
  <2>. QED  BY <1>6, <2>1
<1>10. (\A e \in 1..qPushed :
         \E b \in 1..Len(qBlock) : base2[b] < e /\ e <= base2[b] + qBlock[b].write)'
  BY <1>3
<1>11. NumberedPops(base2)'
  BY <1>3 DEF NumberedPops
<1>. QED  BY <1>4, <1>7, <1>8, <1>9, <1>10, <1>11 DEF NumberedBlocks

(* A beginning of 1, 2, 3, ... is continued by its next number.            *)
LEMMA PopInOrder ==
  ASSUME NEW s \in Seq(Nat), NEW n \in Nat, n = Len(s) + 1, s = [i \in 1..Len(s) |-> i]
  PROVE  Append(s, n) = [i \in 1..Len(Append(s, n)) |-> i] /\ Len(Append(s, n)) = n
<1>1. Append(s, n) \in Seq(Nat) /\ Len(Append(s, n)) = n /\ Append(s, n)[n] = n
  OBVIOUS
<1>2. \A i \in 1..Len(s) : Append(s, n)[i] = s[i] /\ s[i] = i
  OBVIOUS
<1>3. \A i \in 1..n : Append(s, n)[i] = i
  <2>1. Len(s) \in Nat
    OBVIOUS
  <2>2. \A i \in 1..n : i \in 1..Len(s) \/ i = n
    BY <2>1
  <2>. QED  BY <1>1, <1>2, <2>2
<1>. DEFINE t == Append(s, n)
<1>. HIDE DEF t
<1>4. t \in Seq(Nat) /\ Len(t) = n /\ \A i \in 1..n : t[i] = i
  BY <1>1, <1>3 DEF t
<1>5. t = [i \in 1..n |-> i]
  <2>1. t = [i \in 1..Len(t) |-> t[i]]
    BY <1>4
  <2>. QED  BY <1>4, <2>1
<1>. QED  BY <1>4, <1>5 DEF t

(* Every step keeps the numbers of the entries, and pops them in order.    *)
LEMMA QueueOrderStep ==
  ASSUME QueueInv, [Q!Next]_(Q!vars)
  PROVE  QueueOrder'
<1>0. QueueTypes /\ QueueShape /\ QueueFill /\ QueueTypes'
  BY QueueTypesStep DEF QueueInv
<1>00. /\ Len(qBlock) \in Nat /\ qFirst \in 0..Len(qBlock) /\ qLast \in 0..Len(qBlock)
       /\ qPopPc # "out" => qFirst # Q!Null
       /\ \A b \in 1..Len(qBlock) : qBlock[b].read \in Nat /\ qBlock[b].write \in Nat
  BY <1>0, BlockTypes DEF QueueTypes, QueueShape
<1>000. PICK base \in [Nat -> Nat] : NumberedBlocks(base) /\ NumberedPops(base)
  BY DEF QueueInv, QueueOrder
<1>c. qPushPc = "count" => Q!Entry(qLast, qBlock[qLast].write) = qPushed + 1
  BY DEF QueueInv, QueueOrder
<1>p. qFirst = Q!Null => qPopped = <<>>
  BY DEF QueueInv, QueueOrder
<1>o. ~qOvertaken => qPopped = [i \in 1..Len(qPopped) |-> i]
  BY DEF QueueInv, QueueOrder
<1>1. CASE Q!BeginPush
  <2>0. qPushPc' # "count" /\ UNCHANGED <<qFirst, qPopped, qOvertaken, qPushed, qPopPc, qGot>>
    BY <1>1 DEF Q!BeginPush, Q!popVars
  <2>1. CASE qLast = Q!Null
    <3>1. [base EXCEPT ![1] = 0] \in [Nat -> Nat]
             /\ NumberedBlocks([base EXCEPT ![1] = 0])' /\ NumberedPops([base EXCEPT ![1] = 0])'
      BY <1>0, <1>000, <1>1, <2>1, FirstNumbers
    <3>. QED  BY <1>p, <1>o, <2>0, <3>1 DEF QueueOrder
  <2>2. CASE qLast # Q!Null
    <3>1. qBlock' = qBlock
      BY <1>1, <2>2 DEF Q!BeginPush
    <3>2. NumberedBlocks(base)' /\ NumberedPops(base)'
      BY <1>0, <1>00, <1>000, <2>0, <3>1, SameNumbers, SamePops
    <3>. QED  BY <1>p, <1>o, <2>0, <3>2 DEF QueueOrder
  <2>. QED  BY <2>1, <2>2
<1>2. CASE Q!SetFirst
  <2>1. /\ qPushPc' = "isFull" /\ qPopPc' = "out" /\ qFirst' = 1 /\ Len(qBlock) = 1 /\ qFirst = 0
        /\ UNCHANGED <<qBlock, qPushed, qPopped, qOvertaken>>
    BY <1>00, <1>0, <1>2 DEF Q!SetFirst, QueueShape, Q!popVars, Q!Null
  <2>2. qBlock[1].read = 0 /\ base[1] = 0
    BY <1>0, <1>000, <2>1 DEF QueueFill, NumberedBlocks
  <2>3. qPopped = <<>> /\ Len(qPopped) = 0
    BY <1>p, <2>1 DEF Q!Null
  <2>4. NumberedBlocks(base)'
    BY <1>000, <2>1, SameNumbers
  <2>5. NumberedPops(base)'
    BY <2>1, <2>2, <2>3 DEF NumberedPops
  <2>. QED  BY <1>o, <2>1, <2>3, <2>4, <2>5 DEF QueueOrder
<1>3. CASE Q!Link
  <2>0. qPushPc' # "count" /\ UNCHANGED <<qFirst, qPopped, qOvertaken, qPushed, qPopPc, qGot>>
    BY <1>3 DEF Q!Link, Q!popVars
  <2>1. CASE Q!IsFull(qLast)
    <3>. DEFINE base2 == [base EXCEPT ![Len(qBlock) + 1] = qPushed]
    <3>1. PICK c : c = base2
      OBVIOUS
    <3>2. c \in [Nat -> Nat] /\ NumberedBlocks(c)' /\ NumberedPops(c)'
      BY <1>0, <1>000, <1>3, <2>1, <3>1, LinkNumbers
    <3>. QED  BY <1>p, <1>o, <2>0, <3>2 DEF QueueOrder
  <2>2. CASE ~Q!IsFull(qLast)
    <3>1. qBlock' = qBlock
      BY <1>3, <2>2 DEF Q!Link
    <3>2. NumberedBlocks(base)' /\ NumberedPops(base)'
      BY <1>0, <1>00, <1>000, <2>0, <3>1, SameNumbers, SamePops
    <3>. QED  BY <1>p, <1>o, <2>0, <3>2 DEF QueueOrder
  <2>. QED  BY <2>1, <2>2
<1>4. CASE Q!Move
  <2>0. qPushPc' # "count" /\ UNCHANGED <<qBlock, qFirst, qPopped, qOvertaken, qPushed, qPopPc, qGot>>
    BY <1>4 DEF Q!Move, Q!popVars
  <2>1. NumberedBlocks(base)' /\ NumberedPops(base)'
    BY <1>0, <1>00, <1>000, <2>0, SameNumbers, SamePops
  <2>. QED  BY <1>p, <1>o, <2>0, <2>1 DEF QueueOrder
<1>5. CASE Q!Store
  <2>0. UNCHANGED <<qFirst, qPopped, qOvertaken, qPushed, qPopPc, qGot>>
    BY <1>5 DEF Q!Store, Q!popVars
  <2>1. NumberedBlocks(base)' /\ Q!Entry(qLast, qBlock[qLast].write)' = qPushed + 1
    BY <1>0, <1>000, <1>5, StoreNumbers
  <2>2. NumberedPops(base)'
    BY <1>0, <1>00, <1>000, <1>5, <2>0, StoreEffect, SamePops
  <2>. QED  BY <1>p, <1>o, <2>0, <2>1, <2>2 DEF QueueOrder
<1>6. CASE Q!Count
  <2>0. qPushPc = "count" /\ qPushPc' = "out" /\ UNCHANGED <<qFirst, qPopped, qPopPc, qGot>>
          /\ (~qOvertaken' => ~qOvertaken)
    BY <1>6 DEF Q!Count, Q!popVars
  <2>1. NumberedBlocks(base)'
    BY <1>0, <1>000, <1>6, <1>c, <2>0, CountNumbers
  <2>2. NumberedPops(base)'
    BY <1>0, <1>00, <1>000, <1>6, <2>0, CountEffect, SamePops
  <2>. QED  BY <1>p, <1>o, <2>0, <2>1, <2>2 DEF QueueOrder
<1>7. CASE Q!BeginPop
  <2>0. qPopPc' # "advance" /\ UNCHANGED <<qBlock, qFirst, qLast, qPushPc, qPopped, qOvertaken, qPushed, qGot>>
    BY <1>7 DEF Q!BeginPop, Q!pushVars
  <2>1. NumberedBlocks(base)' /\ NumberedPops(base)'
    BY <1>0, <1>00, <1>000, <2>0, SameNumbers, SamePops
  <2>. QED  BY <1>p, <1>o, <1>c, <2>0, <2>1 DEF QueueOrder, Q!Entry
<1>8. CASE Q!CheckEmpty
  <2>0. qPopPc' # "advance" /\ UNCHANGED <<qBlock, qFirst, qLast, qPushPc, qPopped, qOvertaken, qPushed, qGot>>
    BY <1>8 DEF Q!CheckEmpty, Q!pushVars
  <2>1. NumberedBlocks(base)' /\ NumberedPops(base)'
    BY <1>0, <1>00, <1>000, <2>0, SameNumbers, SamePops
  <2>. QED  BY <1>p, <1>o, <1>c, <2>0, <2>1 DEF QueueOrder, Q!Entry
<1>9. CASE Q!Take
  <2>0. /\ qPopPc = "take" /\ UNCHANGED <<qBlock, qFirst, qLast, qPushPc, qPopped, qOvertaken, qPushed>>
        /\ qGot' = Q!Entry(qFirst, qBlock[qFirst].read)
    BY <1>9 DEF Q!Take, Q!pushVars, Q!Entry
  <2>1. qFirst \in 1..Len(qBlock) /\ qBlock[qFirst].read < qBlock[qFirst].write
    BY <1>0, <1>00, <2>0 DEF QueueFill, Q!Null
  <2>2. qBlock[qFirst].read \in Q!Unread(qFirst)
    BY <1>00, <2>1, FirstCell DEF Q!Unread
  <2>3. qGot' = base[qFirst] + qBlock[qFirst].read + 1
    BY <1>000, <2>0, <2>1, <2>2 DEF NumberedBlocks
  <2>4. NumberedBlocks(base)'
    BY <1>000, <2>0, SameNumbers
  <2>5. NumberedPops(base)'
    BY <1>000, <2>0, <2>3 DEF NumberedPops
  <2>. QED  BY <1>p, <1>o, <1>c, <2>0, <2>4, <2>5 DEF QueueOrder, Q!Entry
<1>10. CASE Q!Advance
  <2>0. /\ qPopPc = "advance" /\ qPopPc' = "out" /\ qPopped' = Append(qPopped, qGot)
        /\ UNCHANGED <<qFirst, qLast, qPushPc, qOvertaken, qPushed>>
    BY <1>10 DEF Q!Advance, Q!pushVars
  <2>1. /\ qFirst \in 1..Len(qBlock) /\ qFirst # Q!Null /\ Len(qBlock') = Len(qBlock)
        /\ \A b \in 1..Len(qBlock) :
             /\ qBlock'[b].write = qBlock[b].write /\ qBlock'[b].entries = qBlock[b].entries
             /\ qBlock'[b].read = IF b = qFirst THEN qBlock[b].read + 1 ELSE qBlock[b].read
    <3>1. /\ qFirst \in 1..Len(qBlock) /\ Len(qBlock') = Len(qBlock)
          /\ \A b \in 1..Len(qBlock) :
               /\ qBlock'[b].write = qBlock[b].write /\ qBlock'[b].entries = qBlock[b].entries
               /\ qBlock'[b].read = IF b = qFirst THEN qBlock[b].read + 1 ELSE qBlock[b].read
      BY <1>0, <1>10, AdvanceEffect
    <3>2. qFirst # Q!Null
      BY <1>00, <2>0
    <3>. QED  BY <3>1, <3>2
  <2>2. /\ qGot = base[qFirst] + qBlock[qFirst].read + 1
        /\ ~qOvertaken => Len(qPopped) = base[qFirst] + qBlock[qFirst].read
    BY <1>000, <2>0, <2>1 DEF NumberedPops
  <2>3. qPopped \in Seq(Nat) /\ qGot \in Nat
    BY <1>0 DEF QueueTypes
  <2>4. ~qOvertaken => qPopped' = [i \in 1..Len(qPopped') |-> i] /\ Len(qPopped') = qGot
    BY <1>o, <2>0, <2>2, <2>3, PopInOrder
  <2>5. NumberedBlocks(base)'
    BY <1>0, <1>000, <1>10, AdvanceNumbers
  <2>6. base[qFirst] + qBlock'[qFirst].read = qGot
    <3>1. base[qFirst] \in Nat /\ qBlock[qFirst].read \in Nat /\ qBlock'[qFirst].read = qBlock[qFirst].read + 1
      <4>1. qBlock'[qFirst].read = qBlock[qFirst].read + 1
        BY <2>1
      <4>2. qBlock[qFirst].read \in Nat
        BY <1>00, <2>1
      <4>3. base[qFirst] \in Nat
        BY <2>1
      <4>. QED  BY <4>1, <4>2, <4>3
    <3>. QED  BY <2>2, <3>1, OneMoreRead
  <2>7. NumberedPops(base)'
    BY <2>0, <2>4, <2>6 DEF NumberedPops
  <2>8. qPushPc = "count" => Q!Entry(qLast, qBlock[qLast].write)' = qPushed + 1
    <3>1. qPushPc = "count" => qLast \in 1..Len(qBlock)
      BY <1>0, <1>00 DEF QueueShape, Q!Null
    <3>. QED  BY <1>c, <2>0, <2>1, <3>1 DEF Q!Entry
  <2>. QED  BY <2>0, <2>1, <2>4, <2>5, <2>7, <2>8 DEF QueueOrder
<1>11. CASE Q!NextBlock
  <2>0. /\ qPopPc = "next" /\ UNCHANGED <<qBlock, qLast, qPushPc, qPopped, qOvertaken, qPushed, qGot>>
        /\ qPopPc' \in {"out", "isEmpty"} /\ qFirst # Q!Null
    BY <1>00, <1>11 DEF Q!NextBlock, Q!pushVars
  <2>1. NumberedBlocks(base)'
    BY <1>000, <2>0, SameNumbers
  <2>2. CASE qBlock[qFirst].next = Q!Null
    <3>1. qFirst' = qFirst
      BY <1>11, <2>2 DEF Q!NextBlock
    <3>2. NumberedPops(base)'
      BY <1>0, <1>00, <1>000, <2>0, <3>1, SamePops
    <3>. QED  BY <1>p, <1>o, <1>c, <2>0, <2>1, <3>1, <3>2 DEF QueueOrder, Q!Entry
  <2>3. CASE qBlock[qFirst].next # Q!Null
    <3>1. qFirst \in 1..Len(qBlock) /\ qFirst # Len(qBlock) /\ qFirst' = qFirst + 1
      <4>1. qFirst \in 1..Len(qBlock)
        BY <1>00, <2>0 DEF Q!Null
      <4>2. qBlock[qFirst].next = IF qFirst = Len(qBlock) THEN Q!Null ELSE qFirst + 1
        BY <1>0, <4>1 DEF QueueShape
      <4>. QED  BY <1>11, <2>3, <4>1, <4>2 DEF Q!NextBlock
    <3>2. qFirst < Len(qBlock) /\ qFirst + 1 \in 1..Len(qBlock) /\ qFirst + 1 > qFirst /\ qFirst + 1 # Q!Null
      <4>1. qFirst \in 1..Len(qBlock) /\ qFirst # Len(qBlock) /\ Len(qBlock) \in Nat
        BY <1>00, <3>1
      <4>. QED  BY <4>1 DEF Q!Null
    <3>3. ~qOvertaken => qBlock[qFirst].write = qBlock[qFirst].read
      BY <1>0, <2>0, <3>2 DEF QueueFill
    <3>4. qBlock[qFirst + 1].read = 0
      BY <1>0, <3>2 DEF QueueFill
    <3>5. base[qFirst] + qBlock[qFirst].write = base[qFirst + 1] /\ base[qFirst + 1] \in Nat
      BY <1>000, <3>1, <3>2 DEF NumberedBlocks
    <3>6. ~qOvertaken => Len(qPopped) = base[qFirst + 1] + qBlock[qFirst + 1].read
      <4>1. ~qOvertaken => Len(qPopped) = base[qFirst + 1]
        BY <1>000, <2>0, <3>3, <3>5 DEF NumberedPops
      <4>. QED  BY <3>4, <3>5, <4>1
    <3>7. NumberedPops(base)'
      BY <2>0, <3>1, <3>6 DEF NumberedPops
    <3>8. qFirst' # Q!Null
      BY <3>1, <3>2
    <3>. QED  BY <1>o, <1>c, <2>0, <2>1, <3>7, <3>8 DEF QueueOrder, Q!Entry
  <2>. QED  BY <2>2, <2>3
<1>12. CASE UNCHANGED Q!vars
  <2>0. UNCHANGED <<qBlock, qFirst, qLast, qPushPc, qPopPc, qPopped, qOvertaken, qPushed, qGot>>
    BY <1>12 DEF Q!vars, Q!pushVars, Q!popVars
  <2>1. NumberedBlocks(base)' /\ NumberedPops(base)'
    BY <1>0, <1>00, <1>000, <2>0, SameNumbers, SamePops
  <2>. QED  BY <1>p, <1>o, <1>c, <2>0, <2>1 DEF QueueOrder, Q!Entry
<1>. QED  BY <1>1, <1>2, <1>3, <1>4, <1>5, <1>6, <1>7, <1>8, <1>9, <1>10, <1>11, <1>12
       DEF Q!Next, Q!PushStep, Q!PopStep

(* An empty queue satisfies the invariant.                                 *)
LEMMA QueueInit ==
  ASSUME Q!Init
  PROVE  QueueInv
<1>1. qBlock \in Seq(QueueBlock) /\ Len(qBlock) = 0 /\ qPopped \in Seq(Nat) /\ Len(qPopped) = 0
  BY DEF Q!Init
<1>2. QueueTypes
  <2>1. qDeleted = 1..(qFirst - 1)
    BY DEF Q!Init, Q!Null
  <2>2. qFirst \in 0..Len(qBlock) /\ qLast \in 0..Len(qBlock)
    BY <1>1 DEF Q!Init, Q!Null
  <2>3. qPushed \in Nat /\ qLate \in Nat /\ qGot \in Nat /\ qOvertaken \in BOOLEAN
    BY DEF Q!Init, Q!Null
  <2>4. qPushPc = "out" /\ qPopPc = "out"
    BY DEF Q!Init
  <2>. QED  BY <1>1, <2>1, <2>2, <2>3, <2>4 DEF QueueTypes
<1>3. QueueShape /\ QueueFill
  BY <1>1 DEF Q!Init, QueueShape, QueueFill, Q!Null
<1>4. QueueOrder
  <2>1. qPopped = [i \in 1..Len(qPopped) |-> i]
    <3>1. qPopped = [i \in 1..Len(qPopped) |-> qPopped[i]] /\ 1..Len(qPopped) = {}
      BY <1>1
    <3>2. [i \in {} |-> qPopped[i]] = [i \in {} |-> i]
      OBVIOUS
    <3>. QED  BY <3>1, <3>2
  <2>. DEFINE base == [n \in Nat |-> 0]
  <2>2. base \in [Nat -> Nat]
    OBVIOUS
  <2>3. NumberedBlocks(base)
    <3>1. qPushed = 0 /\ ~(Len(qBlock) > 0) /\ 1..Len(qBlock) = {} /\ 1..qPushed = {}
      BY <1>1 DEF Q!Init
    <3>. QED  BY <3>1 DEF NumberedBlocks
  <2>4. NumberedPops(base)
    BY DEF Q!Init, NumberedPops
  <2>5. qPopped = <<>> /\ qPushPc # "count"
    BY DEF Q!Init
  <2>. HIDE DEF base
  <2>. QED  BY <2>1, <2>2, <2>3, <2>4, <2>5 DEF QueueOrder
<1>. QED  BY <1>2, <1>3, <1>4 DEF QueueInv

(* More facts about sums: of numbers that were popped already, and of      *)
(* those that are in a block.                                              *)
LEMMA BeforeFirst ==
  ASSUME NEW x \in Nat, NEW w \in Nat, NEW y \in Nat, NEW r \in Nat, NEW e \in Int,
         x + w <= y, e <= x + w, e > y + r
  PROVE  FALSE
OBVIOUS

LEMMA CellOf ==
  ASSUME NEW x \in Nat, NEW r \in Nat, NEW w \in Nat, NEW e \in Int,
         x + r < e, e <= x + w
  PROVE  /\ e - x - 1 \in r..(w - 1) /\ e = x + (e - x - 1) + 1
OBVIOUS

LEMMA NumberOf ==
  ASSUME NEW x \in Nat, NEW r \in Nat, NEW w \in Nat, NEW i \in r..(w - 1)
  PROVE  /\ i \in Nat /\ x + r < x + i + 1 /\ x + i + 1 <= x + w
OBVIOUS

LEMMA CellsGrow ==
  ASSUME NEW x \in Nat, NEW i \in Nat, NEW j \in Nat, i < j
  PROVE  x + i + 1 < x + j + 1
OBVIOUS

LEMMA BelowLast ==
  ASSUME NEW n \in Nat, NEW b \in 1..n, b # n
  PROVE  b < n /\ n \in 1..n
OBVIOUS

LEMMA SumsGrow ==
  ASSUME NEW x \in Nat, NEW r \in Nat, NEW w \in Nat, r <= w
  PROVE  x + r <= x + w
OBVIOUS

LEMMA SumsMeet ==
  ASSUME NEW x \in Nat, NEW r \in Nat, NEW w \in Nat, NEW y \in Nat, NEW k \in Nat,
         k = x + r, x + r <= x + w, x + w <= y
  PROVE  k <= y
OBVIOUS

LEMMA NumberType ==
  ASSUME NEW x \in Nat, NEW i \in Nat, NEW e, e = x + i + 1
  PROVE  e \in Nat
OBVIOUS

LEMMA SumBound ==
  ASSUME NEW x \in Nat, NEW w \in Nat, NEW p \in Nat, NEW e \in Nat, e <= x + w, x + w <= p
  PROVE  e <= p
OBVIOUS

(* The invariant gives the promise: a number that was not popped is in a   *)
(* block, which is not before the first one, and there it is unread.       *)
LEMMA QueuePromise ==
  ASSUME QueueInv
  PROVE  NothingLost
<1>0. QueueTypes /\ QueueShape /\ QueueFill
  BY DEF QueueInv
<1>1. SUFFICES ASSUME ~qOvertaken
               PROVE  /\ qPopped = [i \in 1..Len(qPopped) |-> i]
                      /\ Q!Found = (Len(qPopped) + 1)..qPushed
                      /\ \A b, c \in Q!Blocks : \A i \in Q!Unread(b), j \in Q!Unread(c) :
                           (b < c \/ (b = c /\ i < j)) => Q!Entry(b, i) < Q!Entry(c, j)
                      /\ qFirst \notin qDeleted
                      /\ qLast \in qDeleted => qPushPc = "move"
  BY DEF NothingLost, Q!NothingLost
<1>2. PICK base \in [Nat -> Nat] : NumberedBlocks(base) /\ NumberedPops(base)
  BY DEF QueueInv, QueueOrder
<1>3. qPopped = [i \in 1..Len(qPopped) |-> i]
  BY <1>1 DEF QueueInv, QueueOrder
<1>4. /\ Len(qBlock) \in Nat /\ qFirst \in 0..Len(qBlock) /\ qPushed \in Nat /\ Len(qPopped) \in Nat
      /\ qDeleted = 1..(qFirst - 1) /\ qLast \in 0..Len(qBlock)
  <2>1. Len(qPopped) \in Nat
    BY <1>0 DEF QueueTypes
  <2>. QED  BY <1>0, <2>1 DEF QueueTypes
<1>5. \A b \in 1..Len(qBlock) :
        qBlock[b].read \in Nat /\ qBlock[b].write \in Nat /\ base[b] \in Nat
  BY <1>0, BlockTypes
<1>6. qFirst \notin qDeleted
  BY <1>4
<1>7. qLast \in qDeleted => qPushPc = "move"
  <2>1. qPushPc # "move" => qLast = Len(qBlock)
    BY <1>0 DEF QueueShape
  <2>. QED  BY <1>4, <2>1
<1>8. \A b \in Q!Blocks : b \in 1..Len(qBlock) /\ b >= qFirst
  BY DEF Q!Blocks
<1>9. \A b \in Q!Blocks : \A i \in Q!Unread(b) :
        /\ Q!Entry(b, i) = base[b] + i + 1 /\ i \in Nat
        /\ base[b] + qBlock[b].read < Q!Entry(b, i) /\ Q!Entry(b, i) <= base[b] + qBlock[b].write
  <2>1. ASSUME NEW b \in Q!Blocks, NEW i \in Q!Unread(b)
        PROVE  /\ Q!Entry(b, i) = base[b] + i + 1 /\ i \in Nat
               /\ base[b] + qBlock[b].read < Q!Entry(b, i) /\ Q!Entry(b, i) <= base[b] + qBlock[b].write
    <3>1. Q!Entry(b, i) = base[b] + i + 1
      BY <1>2, <1>8 DEF NumberedBlocks
    <3>2. i \in qBlock[b].read..(qBlock[b].write - 1)
      BY DEF Q!Unread
    <3>. QED  BY <1>5, <1>8, <3>1, <3>2, NumberOf
  <2>. QED  BY <2>1
<1>10. ASSUME NEW b \in Q!Blocks, NEW c \in Q!Blocks, NEW i \in Q!Unread(b), NEW j \in Q!Unread(c),
              b < c \/ (b = c /\ i < j)
       PROVE  Q!Entry(b, i) < Q!Entry(c, j)
  <2>1. CASE b = c
    <3>1. i < j
      BY <1>4, <1>8, <1>10, <2>1
    <3>2. base[b] \in Nat /\ i \in Nat /\ j \in Nat
      BY <1>5, <1>8, <1>9
    <3>3. Q!Entry(b, i) = base[b] + i + 1 /\ Q!Entry(c, j) = base[b] + j + 1
      BY <1>9, <2>1
    <3>. QED  BY <3>1, <3>2, <3>3, CellsGrow
  <2>2. CASE b < c
    <3>1. base[b] + qBlock[b].write <= base[c]
      BY <1>2, <1>8, <2>2 DEF NumberedBlocks
    <3>2. /\ Q!Entry(b, i) <= base[b] + qBlock[b].write /\ Q!Entry(b, i) = base[b] + i + 1 /\ i \in Nat
          /\ Q!Entry(c, j) = base[c] + j + 1 /\ j \in Nat
      BY <1>9
    <3>3. base[b] \in Nat /\ qBlock[b].write \in Nat /\ base[c] \in Nat
      BY <1>5, <1>8
    <3>. QED  BY <3>1, <3>2, <3>3
  <2>. QED  BY <1>10, <2>1, <2>2
<1>11. \A b \in 1..Len(qBlock) : base[b] + qBlock[b].write <= qPushed
  <2>1. ASSUME NEW b \in 1..Len(qBlock)
        PROVE  base[b] + qBlock[b].write <= qPushed
    <3>1. CASE b = Len(qBlock)
      <4>1. base[b] + qBlock[b].write = qPushed
        BY <1>2, <3>1 DEF NumberedBlocks
      <4>. QED  BY <1>4, <4>1
    <3>2. CASE b # Len(qBlock)
      <4>1. b < Len(qBlock) /\ Len(qBlock) \in 1..Len(qBlock)
        BY <1>4, <3>2, BelowLast
      <4>2. /\ base[b] + qBlock[b].write <= base[Len(qBlock)]
            /\ base[Len(qBlock)] + qBlock[Len(qBlock)].write = qPushed
        BY <1>2, <4>1 DEF NumberedBlocks
      <4>. QED  BY <1>5, <4>1, <4>2, NotBeyond
    <3>. QED  BY <3>1, <3>2
  <2>. QED  BY <2>1
<1>12. qFirst # Q!Null => /\ qFirst \in 1..Len(qBlock)
                          /\ Len(qPopped) = base[qFirst] + qBlock[qFirst].read
                          /\ base[qFirst] + qBlock[qFirst].read <= base[qFirst] + qBlock[qFirst].write
  <2>1. qFirst # Q!Null => qFirst \in 1..Len(qBlock)
    BY <1>4 DEF Q!Null
  <2>2. qFirst # Q!Null => Len(qPopped) = base[qFirst] + qBlock[qFirst].read
    BY <1>1, <1>2 DEF NumberedPops
  <2>3. qFirst # Q!Null => qBlock[qFirst].read <= qBlock[qFirst].write
    BY <1>0, <2>1 DEF QueueFill
  <2>. QED  BY <1>5, <2>1, <2>2, <2>3, SumsGrow
<1>13. qFirst = Q!Null => Len(qPopped) = 0
  BY DEF QueueInv, QueueOrder
<1>14. ASSUME NEW b \in 1..Len(qBlock), b > qFirst
       PROVE  qBlock[b].read = 0 /\ Len(qPopped) <= base[b]
  <2>1. qBlock[b].read = 0
    BY <1>0, <1>14 DEF QueueFill
  <2>2. CASE qFirst = Q!Null
    <3>1. Len(qPopped) = 0 /\ base[b] \in Nat
      BY <1>5, <1>13, <2>2
    <3>. QED  BY <2>1, <3>1
  <2>3. CASE qFirst # Q!Null
    <3>1. base[qFirst] + qBlock[qFirst].write <= base[b]
      BY <1>2, <1>12, <1>14, <2>3 DEF NumberedBlocks
    <3>2. /\ base[qFirst] \in Nat /\ qBlock[qFirst].write \in Nat
          /\ qBlock[qFirst].read \in Nat /\ base[b] \in Nat
      BY <1>5, <1>12, <2>3
    <3>3. Len(qPopped) <= base[b]
      BY <1>4, <1>12, <2>3, <3>1, <3>2, SumsMeet
    <3>. QED  BY <2>1, <3>3
  <2>. QED  BY <2>1, <2>2, <2>3
<1>15. ASSUME NEW e \in Q!Found
       PROVE  e \in (Len(qPopped) + 1)..qPushed
  <2>1. PICK b \in Q!Blocks : \E i \in Q!Unread(b) : e = Q!Entry(b, i)
    BY DEF Q!Found
  <2>2. PICK i \in Q!Unread(b) : e = Q!Entry(b, i)
    BY <2>1
  <2>3. /\ e = base[b] + i + 1 /\ i \in Nat
        /\ base[b] + qBlock[b].read < e /\ e <= base[b] + qBlock[b].write
    BY <1>9, <2>2
  <2>4. /\ b \in 1..Len(qBlock) /\ base[b] \in Nat /\ qBlock[b].read \in Nat
        /\ qBlock[b].write \in Nat /\ b >= qFirst
    BY <1>5, <1>8
  <2>5. e \in Nat
    BY <2>3, <2>4, NumberType
  <2>6. e <= qPushed
    <3>1. base[b] + qBlock[b].write <= qPushed
      BY <1>11, <2>4
    <3>. QED  BY <1>4, <2>3, <2>4, <2>5, <3>1, SumBound
  <2>7. Len(qPopped) < e
    <3>1. CASE b = qFirst
      <4>1. Len(qPopped) = base[b] + qBlock[b].read
        BY <1>12, <2>4, <3>1 DEF Q!Null
      <4>. QED  BY <2>3, <4>1
    <3>2. CASE b # qFirst
      <4>1. b > qFirst
        BY <1>4, <2>4, <3>2
      <4>2. qBlock[b].read = 0 /\ Len(qPopped) <= base[b]
        BY <1>14, <2>4, <4>1
      <4>. QED  BY <1>4, <2>3, <2>4, <4>2
    <3>. QED  BY <3>1, <3>2
  <2>. QED  BY <1>4, <2>5, <2>6, <2>7
<1>16. ASSUME NEW e \in (Len(qPopped) + 1)..qPushed
       PROVE  e \in Q!Found
  <2>1. PICK b \in 1..Len(qBlock) : base[b] < e /\ e <= base[b] + qBlock[b].write
    <3>1. e \in 1..qPushed
      BY <1>4
    <3>. QED  BY <1>2, <3>1 DEF NumberedBlocks
  <2>2. e \in Int /\ Len(qPopped) < e
    BY <1>4
  <2>3. base[b] \in Nat /\ qBlock[b].read \in Nat /\ qBlock[b].write \in Nat
    BY <1>5
  <2>4. b >= qFirst
    <3>1. SUFFICES ASSUME b < qFirst PROVE FALSE
      BY <1>4
    <3>2. qFirst # Q!Null
      BY <1>4, <3>1 DEF Q!Null
    <3>3. base[b] + qBlock[b].write <= base[qFirst]
      BY <1>2, <1>12, <3>1, <3>2 DEF NumberedBlocks
    <3>4. base[qFirst] \in Nat /\ qBlock[qFirst].read \in Nat /\ e > base[qFirst] + qBlock[qFirst].read
      BY <1>5, <1>12, <2>2, <3>2
    <3>. QED  BY <2>1, <2>2, <2>3, <3>3, <3>4, BeforeFirst
  <2>5. b \in Q!Blocks
    BY <2>4 DEF Q!Blocks
  <2>6. base[b] + qBlock[b].read < e
    <3>1. CASE b = qFirst
      <4>1. Len(qPopped) = base[b] + qBlock[b].read
        BY <1>12, <3>1 DEF Q!Null
      <4>. QED  BY <2>2, <4>1
    <3>2. CASE b # qFirst
      <4>1. b > qFirst
        BY <1>4, <2>4, <3>2
      <4>2. qBlock[b].read = 0
        BY <1>14, <4>1
      <4>. QED  BY <2>1, <2>3, <4>2
    <3>. QED  BY <3>1, <3>2
  <2>7. PICK i \in Int : i = e - base[b] - 1
    BY <2>2, <2>3
  <2>8. i \in qBlock[b].read..(qBlock[b].write - 1) /\ e = base[b] + i + 1
    BY <2>1, <2>2, <2>3, <2>6, <2>7, CellOf
  <2>9. i \in Q!Unread(b)
    BY <2>8 DEF Q!Unread
  <2>10. Q!Entry(b, i) = base[b] + i + 1
    BY <1>2, <2>9 DEF NumberedBlocks
  <2>. QED  BY <2>5, <2>8, <2>9, <2>10 DEF Q!Found
<1>17. Q!Found = (Len(qPopped) + 1)..qPushed
  BY <1>15, <1>16
<1>. QED  BY <1>3, <1>6, <1>7, <1>10, <1>17

(* In every state of a queue the invariant holds.                          *)
THEOREM QueueInvariance == Q!Spec => []QueueInv
<1>1. Q!Init => QueueInv
  BY QueueInit
<1>2. QueueInv /\ [Q!Next]_(Q!vars) => QueueInv'
  BY QueueTypesStep, QueueShapeStep, QueueFillStep, QueueOrderStep DEF QueueInv
<1>. QED  BY <1>1, <1>2, PTL DEF Q!Spec

(* What was popped is a beginning of what was pushed, in order; the rest   *)
(* lies in the blocks in that order, and neither end works on a deleted    *)
(* block, if no Pop was overtaken by a block of pushes                     *)
(* (InterlockedQueue::Push and Pop).                                       *)
THEOREM QueueNothingLost == Q!Spec => []NothingLost
<1>1. QueueInv => NothingLost
  BY QueuePromise
<1>. QED  BY <1>1, QueueInvariance, PTL
=============================================================================
