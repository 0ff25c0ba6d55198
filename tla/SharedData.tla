----------------------------- MODULE SharedData -----------------------------
(***************************************************************************)
(* GetYY_ThunksSharedData of YY_Thunks.cpp, and the part of the clean-up   *)
(* of YY_Thunks.h that undoes it.  Each copy of the library in a process   *)
(* finds the same data through a named section: the first thread to see    *)
(* it keeps its handle open for ever.  A copy that cannot map the section  *)
(* falls back to data of its own.                                          *)
(*                                                                         *)
(* The section exists while there is a handle or a view of it.  A copy is  *)
(* unloaded when none of its threads is inside a call, and may be loaded   *)
(* again.                                                                  *)
(***************************************************************************)
EXTENDS Naturals, FiniteSets

CONSTANTS
  Copies,     \* copies of the library in the process
  Threads,
  MaxUnloads, \* how often a copy is unloaded (bound of the model)
  Nil

ASSUME SharedAssumption ==
  /\ IsFiniteSet(Threads) /\ IsFiniteSet(Copies) /\ Copies # {}
  /\ Nil \notin {"section", "own"}

VARIABLES
  gen,      \* how often the section was created
  flag,     \* bit 0 of fYY_ThunksInitFlags in the section's memory
  handles,  \* handles of the section
  views,    \* views of it
  ptr,      \* each copy's s_pYY_ThunksSharedData: Nil, "section" or "own"
  pc,       \* where each thread is
  copy,     \* the copy whose code it runs
  data,     \* its _pData
  unloads

section == <<gen, flag, handles, views>>
vars == <<section, ptr, pc, copy, data, unloads>>

Exists == handles > 0 \/ views > 0

Init ==
  /\ gen = 0
  /\ flag = FALSE
  /\ handles = 0 /\ views = 0
  /\ ptr = [c \in Copies |-> Nil]
  /\ pc = [t \in Threads |-> "out"]
  /\ copy = [t \in Threads |-> CHOOSE c \in Copies : TRUE]
  /\ data = [t \in Threads |-> Nil]
  /\ unloads = 0

Goto(t, label) == pc' = [pc EXCEPT ![t] = label]

-----------------------------------------------------------------------------
(* CreateFileMappingW creates the section or opens it, or fails.           *)
CreateSection(t, c) ==
  /\ pc[t] = "out" /\ ptr[c] = Nil
  /\ copy' = [copy EXCEPT ![t] = c]
  /\ handles' = handles + 1
  /\ gen' = IF Exists THEN gen ELSE gen + 1
  /\ flag' = (flag /\ Exists)
  /\ Goto(t, "map")
  /\ UNCHANGED <<views, ptr, data, unloads>>

CreateFails(t, c) ==
  /\ pc[t] = "out" /\ ptr[c] = Nil
  /\ copy' = [copy EXCEPT ![t] = c]
  /\ data' = [data EXCEPT ![t] = "own"]
  /\ Goto(t, "publish")
  /\ UNCHANGED <<section, ptr, unloads>>

Map(t) ==
  /\ pc[t] = "map"
  /\ views' = views + 1
  /\ data' = [data EXCEPT ![t] = "section"]
  /\ Goto(t, "keep")
  /\ UNCHANGED <<gen, flag, handles, ptr, copy, unloads>>

MapFails(t) ==
  /\ pc[t] = "map"
  /\ data' = [data EXCEPT ![t] = "own"]
  /\ Goto(t, "close")
  /\ UNCHANGED <<section, ptr, copy, unloads>>

(* Mutant: everybody closes the handle again.                              *)
Keep_Never(t) ==
  /\ pc[t] = "keep"
  /\ flag' = TRUE
  /\ Goto(t, "close")
  /\ UNCHANGED <<gen, handles, views, ptr, copy, data, unloads>>

(* InterlockedBitTestAndSet.                                               *)
Keep(t) ==
  /\ pc[t] = "keep"
  /\ flag' = TRUE
  /\ Goto(t, IF flag THEN "close" ELSE "publish")
  /\ UNCHANGED <<gen, handles, views, ptr, copy, data, unloads>>

CloseHandle(t) ==
  /\ pc[t] = "close"
  /\ handles' = handles - 1
  /\ Goto(t, "publish")
  /\ UNCHANGED <<gen, flag, views, ptr, copy, data, unloads>>

(* Mutant: a thread that comes second unmaps nothing.                      *)
Publish_Leak(t) ==
  /\ pc[t] = "publish"
  /\ IF ptr[copy[t]] = Nil
     THEN ptr' = [ptr EXCEPT ![copy[t]] = data[t]]
     ELSE UNCHANGED ptr
  /\ Goto(t, "out")
  /\ data' = [data EXCEPT ![t] = Nil]
  /\ UNCHANGED <<section, copy, unloads>>

(* The compare-exchange: a thread that comes second unmaps its own view.   *)
Publish(t) ==
  LET first == ptr[copy[t]] = Nil
      unmap == ~first /\ data[t] = "section" IN
  /\ pc[t] = "publish"
  /\ ptr' = IF first THEN [ptr EXCEPT ![copy[t]] = data[t]] ELSE ptr
  /\ Goto(t, IF unmap THEN "unmap" ELSE "out")
  /\ data' = IF unmap THEN data ELSE [data EXCEPT ![t] = Nil]
  /\ UNCHANGED <<section, copy, unloads>>

UnmapViewOfFile(t) ==
  /\ pc[t] = "unmap"
  /\ views' = views - 1
  /\ data' = [data EXCEPT ![t] = Nil]
  /\ Goto(t, "out")
  /\ UNCHANGED <<gen, flag, handles, ptr, copy, unloads>>

(* __YY_uninitialize_winapi_thunks; the copy's variables go with it.       *)
Unload(c) ==
  /\ unloads < MaxUnloads
  /\ \A t \in Threads : pc[t] # "out" => copy[t] # c
  /\ ptr[c] # Nil
  /\ ptr' = [ptr EXCEPT ![c] = Nil]
  /\ views' = IF ptr[c] = "section" THEN views - 1 ELSE views
  /\ unloads' = unloads + 1
  /\ UNCHANGED <<gen, flag, handles, pc, copy, data>>

-----------------------------------------------------------------------------
Call(t) == \E c \in Copies : CreateSection(t, c) \/ CreateFails(t, c)

Step(t) == \/ Map(t) \/ MapFails(t) \/ Keep(t) \/ CloseHandle(t)
           \/ Publish(t) \/ UnmapViewOfFile(t)

Next == \/ \E t \in Threads : Call(t) \/ Step(t)
        \/ \E c \in Copies : Unload(c)

Spec == Init /\ [][Next]_vars

-----------------------------------------------------------------------------
Labels == {"out", "map", "keep", "close", "publish", "unmap"}
Data == {Nil, "section", "own"}

TypeOK ==
  /\ gen \in Nat /\ handles \in Nat /\ views \in Nat /\ unloads \in Nat
  /\ flag \in BOOLEAN
  /\ ptr \in [Copies -> Data]
  /\ pc \in [Threads -> Labels]
  /\ copy \in [Threads -> Copies]
  /\ data \in [Threads -> Data]

(* The threads that will close a handle, or decide to keep it; the copies  *)
(* and the threads that own a view.                                        *)
HandleOwners == {t \in Threads : pc[t] \in {"map", "keep", "close"}}
ViewCopies == {c \in Copies : ptr[c] = "section"}
ViewThreads == {t \in Threads : data[t] = "section"}

(* Of all the handles that race for the section exactly one stays open,    *)
(* and every view is unmapped but the one each copy uses.                  *)
HandlesAndViewsBalanced ==
  /\ handles = Cardinality(HandleOwners) + (IF flag THEN 1 ELSE 0)
  /\ views = Cardinality(ViewCopies) + Cardinality(ViewThreads)

(* The data live as long as the process ("to guarantee that the data are   *)
(* not destroyed within the life of the process"): once a thread has put   *)
(* its mark on the section no step lets it disappear or makes a new one,   *)
(* even when every copy that used it is unloaded.                          *)
DataKept == [][flag => gen' = gen /\ flag']_vars
=============================================================================
