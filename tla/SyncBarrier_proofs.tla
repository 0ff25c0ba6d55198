------------------------- MODULE SyncBarrier_proofs -------------------------
(***************************************************************************)
(* The barrier keeps the promise of a rendezvous for any number of threads *)
(* and phases, whether they spin or block, with or without store buffers.  *)
(***************************************************************************)
EXTENDS SyncBarrier, FiniteSetTheorems, SequenceTheorems, TLAPS

Waiting == {"spin", "readMark", "storeMark", "checkSense", "wait", "leave"}
Closers == {"clearMark", "resetEvent", "readTotal", "storeTotal", "storeRem"}
Returning == {"readWaiters", "setEvent"}
Labels == Waiting \cup Closers \cup Returning \cup {"out"}

Remainders == [sense : {0, 1}, count : Nat]
Entries == [field : {"rem", "total", "mark0", "mark1"}, val : Remainders \cup Nat \cup BOOLEAN]

Types ==
  /\ mem \in [rem : Remainders, total : Nat, mark0 : BOOLEAN, mark1 : BOOLEAN]
  /\ signaled \in [{0, 1} -> BOOLEAN]
  /\ buffered \in BOOLEAN
  /\ buf \in [Threads -> Seq(Entries)]
  /\ pc \in [Threads -> Labels]
  /\ cur \in [Threads -> Remainders]
  /\ seen \in [Threads -> Nat]
  /\ phase \in [Threads -> Nat]
  /\ wins \in Nat

Ev(t) == EventIndex(cur[t])
NextEv(t) == 1 - Ev(t)

(* Has t entered the phase in progress?                                    *)
Current(t) == phase[t] # 0 /\ cur[t].sense = mem.rem.sense
Absent == {t \in Threads : ~Current(t)}

(* Waiters of the phase before that have yet to leave.                     *)
Staying == {t \in Threads : pc[t] \in Waiting /\ ~Current(t)}

(* What is in the store buffers.                                           *)
MarkEntry(i, v) == [field |-> Mark(i), val |-> v]
TotalEntry == [field |-> "total", val |-> 1]
RemEntry(t) == [field |-> "rem", val |-> [sense |-> Flip(cur[t]), count |-> N]]

RemPending(t) == \E i \in 1..Len(buf[t]) : buf[t][i].field = "rem"
TotalPending(t) == \E i \in 1..Len(buf[t]) : buf[t][i].field = "total"

Shape(t) ==
  /\ ~buffered \/ pc[t] \in {"clearMark", "readTotal", "storeTotal"} => Len(buf[t]) = 0
  /\ \A i \in 1..Len(buf[t]) :
       \/ buf[t][i] = MarkEntry(Ev(t), TRUE) /\ pc[t] \in Waiting \cup {"out"}
       \/ buf[t][i] = MarkEntry(NextEv(t), FALSE) /\ pc[t] = "resetEvent"
       \/ /\ buf[t][i] = TotalEntry /\ Deletable /\ i = 1
          /\ pc[t] = "storeRem" \/ RemPending(t)
       \/ /\ buf[t][i] = RemEntry(t) /\ i = Len(buf[t])
          /\ pc[t] \in Returning \cup {"out"}

(* The last thread to arrive closes the phase until its store of           *)
(* lRemainderThreads reaches memory.                                       *)
Closing(t) == pc[t] \in Closers \/ RemPending(t)
Last(t) == Closing(t) \/ pc[t] \in Returning

PhasesAgree ==
  \A t, u \in Threads :
    /\ (Current(t) <=> Current(u)) => phase[t] = phase[u]
    /\ Current(t) /\ ~Current(u) => phase[t] = phase[u] + 1

Roles ==
  /\ \A t \in Threads :
       /\ pc[t] # "out" => phase[t] # 0
       /\ Closing(t) => \A u \in Threads : Current(u)
       /\ pc[t] \in Returning \cup {"out", "leave"} /\ Current(t) => RemPending(t)
  /\ \A t, u \in Threads : Last(t) /\ Last(u) => t = u

Counted == mem.rem.count = Cardinality(Absent)

(* The event of the phase in progress is not signaled, nor will that of    *)
(* the next phase be when it begins.                                       *)
Events ==
  /\ ~signaled[EventIndex(mem.rem)]
  /\ \A t \in Threads :
       /\ pc[t] \in {"readTotal", "storeTotal", "storeRem"} \/ RemPending(t) => ~signaled[NextEv(t)]
       /\ pc[t] = "setEvent" => mem[Mark(Ev(t))]
  /\ \A i \in {0, 1} : signaled[i] =>
       mem[Mark(i)] \/ \E t \in Threads : pc[t] = "resetEvent" /\ NextEv(t) = i

Winners ==
  /\ \A t \in Threads :
       /\ pc[t] \in Closers \cup Returning => wins + 1 = phase[t]
       /\ pc[t] = "out" /\ RemPending(t) => wins = phase[t]
  /\ (\A t \in Threads : ~Last(t)) => \A t \in Threads : ~Current(t) => wins = phase[t]

(* lTotalThreads: has the last thread counted itself out?                  *)
Stored(t) ==
  Closing(t) /\ pc[t] \notin Closers \ {"storeRem"} /\ ~TotalPending(t)

Totals ==
  /\ ~Deletable => mem.total = N
  /\ Deletable => /\ \A t \in Threads : Stored(t) => mem.total = 1
                  /\ (\A t \in Threads : ~Stored(t)) => mem.total + Cardinality(Staying) = N
  /\ \A t \in Threads :
       /\ pc[t] = "storeTotal" => Deletable
       /\ pc[t] \in {"storeTotal", "storeRem"} => seen[t] = N

Inv ==
  /\ Types /\ \A t \in Threads : Shape(t)
  /\ PhasesAgree /\ Roles /\ Counted /\ Events /\ Winners /\ Totals
-----------------------------------------------------------------------------
(* Stores, drains and loads.                                               *)

LEMMA Appended ==
  ASSUME Types, NEW t \in Threads, NEW e \in Entries, buf' = [buf EXCEPT ![t] = Append(@, e)]
  PROVE  /\ buf' \in [Threads -> Seq(Entries)]
         /\ Len(buf'[t]) = Len(buf[t]) + 1 /\ buf'[t][Len(buf[t]) + 1] = e
         /\ \A i \in 1..Len(buf[t]) : buf'[t][i] = buf[t][i]
         /\ RemPending(t)' <=> RemPending(t) \/ e.field = "rem"
         /\ TotalPending(t)' <=> TotalPending(t) \/ e.field = "total"
         /\ \A u \in Threads : u # t => /\ buf'[u] = buf[u]
                                        /\ RemPending(u)' <=> RemPending(u)
                                        /\ TotalPending(u)' <=> TotalPending(u)
<1>1. buf[t] \in Seq(Entries) /\ buf'[t] = Append(buf[t], e) /\ \A u \in Threads : u # t => buf'[u] = buf[u]
  BY DEF Types
<1>2. buf' \in [Threads -> Seq(Entries)]
  BY <1>1 DEF Types
<1>3. /\ Len(buf[t]) \in Nat
      /\ Len(buf'[t]) = Len(buf[t]) + 1 /\ buf'[t][Len(buf[t]) + 1] = e
      /\ \A i \in 1..Len(buf[t]) : buf'[t][i] = buf[t][i]
  BY <1>1, AppendProperties, LenProperties
<1>4. /\ RemPending(t)' <=> RemPending(t) \/ e.field = "rem"
      /\ TotalPending(t)' <=> TotalPending(t) \/ e.field = "total"
  BY <1>3 DEF RemPending, TotalPending
<1>5. QED
  BY <1>1, <1>2, <1>3, <1>4 DEF RemPending, TotalPending

LEMMA Drained ==
  ASSUME Types, NEW t \in Threads, Drain(t)
  PROVE  /\ Len(buf[t]) \in Nat \ {0}
         /\ buf' \in [Threads -> Seq(Entries)]
         /\ Len(buf'[t]) = Len(buf[t]) - 1
         /\ \A i \in 1..Len(buf'[t]) : buf'[t][i] = buf[t][i + 1]
         /\ \A u \in Threads : u # t => /\ buf'[u] = buf[u]
                                        /\ RemPending(u)' <=> RemPending(u)
                                        /\ TotalPending(u)' <=> TotalPending(u)
         /\ LET e == buf[t][1] IN
              /\ e \in Entries
              /\ mem' = [mem EXCEPT ![e.field] = e.val]
<1>1. /\ buf[t] \in Seq(Entries) /\ buf[t] # <<>>
      /\ buf'[t] = Tail(buf[t]) /\ \A u \in Threads : u # t => buf'[u] = buf[u]
      /\ buf' = [buf EXCEPT ![t] = Tail(buf[t])]
      /\ mem' = [mem EXCEPT ![Head(buf[t]).field] = Head(buf[t]).val]
  BY DEF Types, Drain
<1>2. /\ Len(buf[t]) \in Nat \ {0} /\ Tail(buf[t]) \in Seq(Entries)
      /\ Len(buf'[t]) = Len(buf[t]) - 1
      /\ \A i \in 1..Len(buf'[t]) : buf'[t][i] = buf[t][i + 1]
      /\ Head(buf[t]) = buf[t][1] /\ Head(buf[t]) \in Entries
  BY <1>1, HeadTailProperties, EmptySeq
<1>3. buf' \in [Threads -> Seq(Entries)]
  BY <1>1, <1>2 DEF Types
<1>4. QED
  BY <1>1, <1>2, <1>3 DEF RemPending, TotalPending

LEMMA LoadsMemory ==
  ASSUME Types, NEW t \in Threads, NEW f, \A i \in 1..Len(buf[t]) : buf[t][i].field # f
  PROVE  Load(t, f) = mem[f]
<1>1. Pending(t, f) = {}
  BY LenProperties DEF Pending, Types
<1>2. QED
  BY <1>1 DEF Load

LEMMA FenceEmpty ==
  ASSUME Types, NEW t \in Threads, Fence(t)
  PROVE  Len(buf[t]) = 0 /\ ~RemPending(t) /\ ~TotalPending(t)
  BY EmptySeq DEF Fence, RemPending, TotalPending

EmptyShape == \A t \in Threads : Len(buf[t]) = 0 => Shape(t)

LEMMA EmptyShapes == EmptyShape
<1> SUFFICES ASSUME NEW t \in Threads, Len(buf[t]) = 0 PROVE Shape(t)
  BY DEF EmptyShape
<1>1. \A i \in 1..Len(buf[t]) : FALSE
  OBVIOUS
<1>2. QED
  BY <1>1 DEF Shape

LEMMA EmptyShapeNext == \A t \in Threads : Len(buf'[t]) = 0 => Shape(t)'
<1>1. EmptyShape'
  BY EmptyShapes, PTL
<1>2. QED
  BY <1>1 DEF EmptyShape

LEMMA WaitersStoreMarks ==
  ASSUME Types, NEW t \in Threads, Shape(t), pc[t] \in Waiting
  PROVE  /\ \A i \in 1..Len(buf[t]) : buf[t][i] = MarkEntry(Ev(t), TRUE)
         /\ ~RemPending(t)
<1>1. \A i \in 1..Len(buf[t]) : buf[t][i] = MarkEntry(Ev(t), TRUE) \/ (buf[t][i] = TotalEntry /\ RemPending(t))
  BY DEF Shape, Waiting, Returning
<1>2. ~RemPending(t)
  BY <1>1 DEF RemPending, MarkEntry, TotalEntry, Mark
<1>3. QED
  BY <1>1, <1>2

(* What the loads of each action return.                                   *)
LEMMA Loads ==
  ASSUME Types, NEW t \in Threads, Shape(t)
  PROVE  /\ pc[t] = "clearMark" => Load(t, Mark(NextEv(t))) = mem[Mark(NextEv(t))]
         /\ pc[t] = "readTotal" => Load(t, "total") = mem.total
         /\ pc[t] = "readWaiters" => Load(t, Mark(Ev(t))) = mem[Mark(Ev(t))]
         /\ pc[t] \in Waiting => Load(t, "rem") = mem.rem
<1> USE DEF Shape, MarkEntry, TotalEntry, RemEntry, Mark
<1>1. ASSUME pc[t] \in {"clearMark", "readTotal"} PROVE \A f : Load(t, f) = mem[f]
  BY <1>1, LoadsMemory
<1>2. ASSUME pc[t] = "readWaiters" PROVE Load(t, Mark(Ev(t))) = mem[Mark(Ev(t))]
  BY <1>2, LoadsMemory DEF Waiting
<1>3. ASSUME pc[t] \in Waiting PROVE Load(t, "rem") = mem.rem
  <2>1. \A i \in 1..Len(buf[t]) : buf[t][i].field # "rem"
    BY <1>3, WaitersStoreMarks DEF RemPending
  <2>2. QED
    BY <2>1, LoadsMemory
<1>4. QED
  BY <1>1, <1>2, <1>3
-----------------------------------------------------------------------------
LEMMA ThreadsFinite ==
  /\ N \in Nat \ {0}
  /\ \A S \in SUBSET Threads : IsFiniteSet(S) /\ Cardinality(S) \in Nat
  /\ \A S \in SUBSET Threads : \A t \in S : Cardinality(S \ {t}) = Cardinality(S) - 1 /\ Cardinality(S) # 0
<1>1. N \in Nat \ {0}
  BY BarrierAssumption, FS_CardinalityType, FS_EmptySet DEF N
<1>2. \A S \in SUBSET Threads : IsFiniteSet(S) /\ Cardinality(S) \in Nat
  BY BarrierAssumption, FS_Subset, FS_CardinalityType
<1>3. ASSUME NEW S \in SUBSET Threads, NEW t \in S
      PROVE  Cardinality(S \ {t}) = Cardinality(S) - 1 /\ Cardinality(S) # 0
  BY <1>2, FS_RemoveElement, FS_EmptySet
<1>4. QED
  BY <1>1, <1>2, <1>3

LEMMA InvInit == Init => Inv
<1> SUFFICES ASSUME Init PROVE Inv
  OBVIOUS
<1>1. Types
  BY ThreadsFinite, EmptySeq, BarrierAssumption DEF Init, Types, Remainders, Labels
<1>2. \A t \in Threads : /\ Len(buf[t]) = 0 /\ ~Current(t) /\ pc[t] = "out" /\ phase[t] = 0
                         /\ ~RemPending(t)
  BY EmptySeq DEF Init, Current, RemPending
<1>3. Absent = Threads /\ Staying = {}
  BY <1>2 DEF Absent, Staying, Waiting
<1>4. /\ \A t \in Threads : Shape(t)
      /\ PhasesAgree /\ Roles
  <2>1. \A t \in Threads : Shape(t)
    BY <1>2, EmptyShapes DEF EmptyShape
  <2>2. \A t \in Threads : ~Closing(t) /\ ~Last(t)
    BY <1>2 DEF Closing, Last, Closers, Returning
  <2>3. PhasesAgree
    BY <1>2 DEF PhasesAgree
  <2>4. Roles
    BY <1>2, <2>2 DEF Roles
  <2>5. QED
    BY <2>1, <2>3, <2>4
<1>5. Counted /\ Totals
  BY <1>2, <1>3, FS_EmptySet, ThreadsFinite
     DEF Init, Counted, Totals, N, Stored, Closing, Closers
<1>6. Events /\ Winners
  BY <1>2 DEF Init, Events, Winners, EventIndex, Closers, Returning
<1>7. QED
  BY <1>1, <1>4, <1>5, <1>6 DEF Inv

-----------------------------------------------------------------------------
(* Steps of one thread that change neither lRemainderThreads in memory nor *)
(* who is the last: they cannot disturb the roles.                         *)
Within(t) ==
  \/ pc'[t] = pc[t] /\ RemPending(t)' = RemPending(t)
  \/ /\ pc[t] \in Waiting /\ pc'[t] \in Waiting /\ RemPending(t)' = RemPending(t)
     /\ pc'[t] = "leave" => ~Current(t)
  \/ pc[t] \in Closers /\ pc'[t] \in Closers /\ RemPending(t)' = RemPending(t)
  \/ pc[t] \in Returning /\ pc'[t] \in Returning /\ RemPending(t)' = RemPending(t)
  \/ pc[t] = "storeRem" /\ pc'[t] = "readWaiters" /\ RemPending(t)'

StaysInPhase(t) ==
  /\ mem'.rem = mem.rem /\ UNCHANGED <<cur, phase, wins>>
  /\ Within(t)
  /\ \A u \in Threads \ {t} : pc'[u] = pc[u] /\ RemPending(u)' = RemPending(u)

LEMMA StaysInPhaseKeeps ==
  ASSUME Inv, NEW t \in Threads, StaysInPhase(t)
  PROVE  /\ \A u \in Threads : /\ Current(u)' = Current(u) /\ Closing(u)' = Closing(u)
                               /\ Last(u)' = Last(u)
                               /\ Ev(u)' = Ev(u) /\ NextEv(u)' = NextEv(u)
         /\ Absent' = Absent /\ Staying' = Staying
         /\ PhasesAgree' /\ Roles' /\ Counted' /\ Winners'
<1> USE DEF Inv, StaysInPhase, Within
<1>1. \A u \in Threads : /\ Current(u)' = Current(u) /\ Ev(u)' = Ev(u) /\ NextEv(u)' = NextEv(u)
  BY DEF Current, Ev, NextEv
<1>2. \A u \in Threads : Closing(u)' = Closing(u) /\ Last(u)' = Last(u)
  BY DEF Closing, Last, Waiting, Closers, Returning
<1>3. PhasesAgree' /\ Roles'
  BY <1>1, <1>2 DEF PhasesAgree, Roles, Waiting, Closers, Returning
<1>4. Absent' = Absent /\ Staying' = Staying
  BY <1>1 DEF Absent, Staying, Waiting, Closers, Returning
<1>5. Counted'
  BY <1>4 DEF Counted
<1>6. Winners'
  BY <1>1, <1>2 DEF Winners, Waiting, Closers, Returning
<1>7. QED
  BY <1>1, <1>2, <1>3, <1>4, <1>5, <1>6

(* The waiters, but for the store of the mark.                             *)
WaiterMoves(t, l) ==
  /\ pc[t] \in Waiting /\ l \in Waiting /\ (l = "leave" => ~Current(t))
  /\ pc' = [pc EXCEPT ![t] = l]
  /\ UNCHANGED <<mem, signaled, buffered, buf, cur, seen, phase, wins>>

LEMMA WaiterMovesKeeps ==
  ASSUME Inv, NEW t \in Threads, NEW l, WaiterMoves(t, l)
  PROVE  Inv'
<1> USE DEF Inv, WaiterMoves
<1>1. Types'
  BY DEF Types, Labels
<1>2. /\ \A u \in Threads : /\ RemPending(u)' = RemPending(u) /\ TotalPending(u)' = TotalPending(u)
                            /\ u # t => pc'[u] = pc[u]
      /\ pc'[t] = l
  BY DEF Types, RemPending, TotalPending
<1>3. StaysInPhase(t)
  BY <1>2 DEF StaysInPhase, Within
<1>4. \A u \in Threads : Shape(u)'
  BY <1>2, <1>3, StaysInPhaseKeeps DEF Shape, RemEntry, MarkEntry, TotalEntry, Waiting, Returning
<1>5. \A u \in Threads : Stored(u)' = Stored(u)
  BY <1>2, <1>3, StaysInPhaseKeeps DEF Stored, Waiting, Closers
<1>6. Totals'
  BY <1>2, <1>3, <1>5, StaysInPhaseKeeps DEF Totals, Waiting
<1>7. Events'
  BY <1>2, <1>3, StaysInPhaseKeeps DEF Events, Waiting
<1>8. QED
  BY <1>1, <1>3, <1>4, <1>6, <1>7, StaysInPhaseKeeps

LEMMA WaiterStepKeeps ==
  ASSUME Inv, NEW t \in Threads, UNCHANGED buffered,
         SpinSeesFlip(t) \/ SpinGivesUp(t) \/ ReadMark(t) \/ CheckSense(t) \/ WaitForEvent(t)
  PROVE  Inv'
<1> USE DEF Inv, Goto
<1>1. pc[t] \in Waiting => (Released(t) <=> ~Current(t))
  BY Loads DEF Released, Current, Roles, Types, Waiting
<1>2. CASE SpinSeesFlip(t)
  BY <1>1, <1>2, WaiterMovesKeeps DEF SpinSeesFlip, WaiterMoves, Waiting
<1>3. CASE SpinGivesUp(t)
  BY <1>3, WaiterMovesKeeps DEF SpinGivesUp, WaiterMoves, Waiting
<1>4. CASE ReadMark(t)
  <2>1. WaiterMoves(t, "checkSense") \/ WaiterMoves(t, "storeMark")
    BY <1>4 DEF ReadMark, WaiterMoves, Waiting
  <2>2. QED
    BY <2>1, WaiterMovesKeeps
<1>5. CASE CheckSense(t)
  <2>1. WaiterMoves(t, "leave") \/ WaiterMoves(t, "wait")
    BY <1>1, <1>5 DEF CheckSense, WaiterMoves, Waiting
  <2>2. QED
    BY <2>1, WaiterMovesKeeps
<1>6. CASE WaitForEvent(t)
  <2>1. ~Current(t)
    BY <1>6 DEF WaitForEvent, Current, Events, EventIndex
  <2>2. QED
    BY <1>6, <2>1, WaiterMovesKeeps DEF WaitForEvent, WaiterMoves, Waiting
<1>7. QED
  BY <1>2, <1>3, <1>4, <1>5, <1>6
-----------------------------------------------------------------------------
(* The last thread, where it stores nothing.                               *)
LastMoves(t, l) ==
  /\ pc' = [pc EXCEPT ![t] = l]
  /\ UNCHANGED <<mem, buffered, buf, cur, phase, wins>>

LEMMA LastMovesFrame ==
  ASSUME Inv, NEW t \in Threads, NEW l, LastMoves(t, l),
         \/ pc[t] \in Closers /\ l \in Closers
         \/ pc[t] \in Returning /\ l \in Returning
  PROVE  /\ StaysInPhase(t) /\ pc'[t] = l
         /\ \A u \in Threads : /\ RemPending(u)' = RemPending(u) /\ TotalPending(u)' = TotalPending(u)
                               /\ u # t => pc'[u] = pc[u] /\ Shape(u)'
                               /\ u # t => ~Last(u)
<1> USE DEF Inv, LastMoves
<1>1. /\ \A u \in Threads : /\ RemPending(u)' = RemPending(u) /\ TotalPending(u)' = TotalPending(u)
                            /\ u # t => pc'[u] = pc[u]
      /\ pc'[t] = l
  BY DEF Types, RemPending, TotalPending
<1>2. StaysInPhase(t)
  BY <1>1 DEF StaysInPhase, Within
<1>3. \A u \in Threads \ {t} : Shape(u)'
  BY <1>1, <1>2, StaysInPhaseKeeps DEF Shape, RemEntry, MarkEntry, TotalEntry
<1>4. \A u \in Threads \ {t} : ~Last(u)
  BY DEF Roles, Last, Closing
<1>5. QED
  BY <1>1, <1>2, <1>3, <1>4

(* While a thread closes the phase nobody is left behind in the one before.*)
LEMMA ClosingAlone ==
  ASSUME Inv, NEW t \in Threads, Closing(t)
  PROVE  /\ \A u \in Threads : Current(u) /\ (u # t => ~Last(u) /\ ~Stored(u))
         /\ Absent = {} /\ Staying = {} /\ Cardinality(Staying) = 0
         /\ EventIndex(mem.rem) = Ev(t)
<1> USE DEF Inv
<1>1. \A u \in Threads : Current(u) /\ (u # t => ~Last(u) /\ ~Stored(u))
  BY DEF Roles, Last, Stored
<1>2. Absent = {} /\ Staying = {}
  BY <1>1 DEF Absent, Staying
<1>3. QED
  BY <1>1, <1>2, FS_EmptySet DEF Current, Ev, EventIndex

LEMMA CloserStepKeeps ==
  ASSUME Inv, NEW t \in Threads, UNCHANGED buffered,
         \/ ClearMark(t) /\ ~Load(t, Mark(NextEv(t)))
         \/ ResetNextEvent(t)
         \/ ReadTotal(t)
  PROVE  Inv'
<1> USE DEF Inv, Goto, LastMoves
<1>0. pc[t] \in Closers /\ Closing(t)
  BY DEF ClearMark, ResetNextEvent, ReadTotal, Closers, Closing
<1>1. CASE ClearMark(t) /\ ~Load(t, Mark(NextEv(t)))
  <2>1. /\ pc[t] = "clearMark" /\ LastMoves(t, "readTotal") /\ UNCHANGED <<signaled, seen>>
        /\ ~mem[Mark(NextEv(t))]
    BY <1>1, Loads DEF ClearMark, NextEv, Ev
  <2>2. StaysInPhase(t) /\ pc'[t] = "readTotal" /\ \A u \in Threads \ {t} : Shape(u)' /\ pc'[u] = pc[u]
    BY <2>1, LastMovesFrame DEF Closers
  <2>3. Types' /\ Shape(t)'
    <3>1. Types'
      BY <2>1, <2>2 DEF Types, Labels, Closers
    <3>2. Len(buf[t]) = 0 /\ buf' = buf
      BY <2>1 DEF Shape
    <3>3. QED
      BY <3>1, <3>2, EmptyShapeNext
  <2>4. ~signaled[NextEv(t)]
    BY <2>1, <1>0, ClosingAlone DEF Events, NextEv, Ev, EventIndex, Last, Closing, Closers
  <2>5. Events'
    BY <2>1, <2>2, <2>4, <1>0, ClosingAlone, StaysInPhaseKeeps, LastMovesFrame DEF Events, Closers, Last, Closing
  <2>6. Totals'
    BY <2>1, <2>2, <1>0, ClosingAlone, StaysInPhaseKeeps, LastMovesFrame DEF Totals, Stored, Closers
  <2>7. QED
    BY <2>2, <2>3, <2>5, <2>6, StaysInPhaseKeeps
<1>2. CASE ResetNextEvent(t)
  <2>1. /\ pc[t] = "resetEvent" /\ LastMoves(t, "readTotal") /\ UNCHANGED seen
        /\ signaled' = [signaled EXCEPT ![NextEv(t)] = FALSE]
        /\ Len(buf[t]) = 0
    BY <1>2, FenceEmpty DEF ResetNextEvent, NextEv, Ev
  <2>2. StaysInPhase(t) /\ pc'[t] = "readTotal" /\ \A u \in Threads \ {t} : Shape(u)' /\ pc'[u] = pc[u]
    BY <2>1, LastMovesFrame DEF Closers
  <2>3. Types' /\ Shape(t)'
    <3>1. Types'
      BY <2>1, <2>2 DEF Types, Labels, Closers
    <3>2. Len(buf[t]) = 0 /\ buf' = buf
      BY <2>1 DEF Shape
    <3>3. QED
      BY <3>1, <3>2, EmptyShapeNext
  <2>4. NextEv(t) \in {0, 1} /\ NextEv(t) # Ev(t)
    BY DEF NextEv, Ev, EventIndex
  <2>5. Events'
    BY <2>1, <2>2, <2>4, <1>0, ClosingAlone, StaysInPhaseKeeps, LastMovesFrame
       DEF Events, Closers, Last, Closing, Types
  <2>6. Totals'
    BY <2>1, <2>2, <1>0, ClosingAlone, StaysInPhaseKeeps, LastMovesFrame DEF Totals, Stored, Closers
  <2>7. QED
    BY <2>2, <2>3, <2>5, <2>6, StaysInPhaseKeeps
<1>3. CASE ReadTotal(t)
  <2> DEFINE l == IF Deletable THEN "storeTotal" ELSE "storeRem"
  <2>1. /\ pc[t] = "readTotal" /\ LastMoves(t, l) /\ UNCHANGED signaled
        /\ seen' = [seen EXCEPT ![t] = mem.total]
    BY <1>3, Loads DEF ReadTotal
  <2>2. StaysInPhase(t) /\ pc'[t] = l /\ \A u \in Threads \ {t} : Shape(u)' /\ pc'[u] = pc[u]
    BY <2>1, LastMovesFrame DEF Closers
  <2>3. Types' /\ Shape(t)'
    <3>1. Types'
      BY <2>1, <2>2 DEF Types, Labels, Closers
    <3>2. Len(buf[t]) = 0 /\ buf' = buf
      BY <2>1 DEF Shape
    <3>3. QED
      BY <3>1, <3>2, EmptyShapeNext
  <2>4. ~Stored(t) /\ mem.total = N
    BY <2>1, <1>0, ClosingAlone, ThreadsFinite DEF Totals, Stored, Closers, Types
  <2>5. Events'
    BY <2>1, <2>2, <1>0, ClosingAlone, StaysInPhaseKeeps, LastMovesFrame DEF Events, Closers, Last, Closing
  <2>6. Totals'
    BY <2>1, <2>2, <2>4, <1>0, ClosingAlone, StaysInPhaseKeeps, LastMovesFrame DEF Totals, Stored, Closers, Types
  <2>7. QED
    BY <2>2, <2>3, <2>5, <2>6, StaysInPhaseKeeps
<1>4. QED
  BY <1>1, <1>2, <1>3
-----------------------------------------------------------------------------
(* The last thread finds a waiter, or returns TRUE.                        *)
LEMMA ReturnKeeps ==
  ASSUME Inv, NEW t \in Threads, UNCHANGED buffered, ReadWaiters(t) \/ WakeWaiters(t)
  PROVE  Inv'
<1> USE DEF Inv, Goto
<1>1. CASE ReadWaiters(t) /\ Load(t, Mark(Ev(t)))
  <2>1. /\ pc[t] = "readWaiters" /\ LastMoves(t, "setEvent") /\ UNCHANGED <<signaled, seen>>
        /\ mem[Mark(Ev(t))]
    BY <1>1, Loads DEF ReadWaiters, Ev, LastMoves
  <2>2. StaysInPhase(t) /\ pc'[t] = "setEvent" /\ \A u \in Threads \ {t} : Shape(u)' /\ pc'[u] = pc[u]
    BY <2>1, LastMovesFrame DEF Returning
  <2>1a. LastMoves(t, "setEvent") /\ UNCHANGED <<signaled, seen>>
    BY <2>1
  <2>3. Types'
    BY <2>1a DEF Types, Labels, Returning, LastMoves
  <2>1b. buf'[t] = buf[t] /\ RemPending(t)' = RemPending(t) /\ RemEntry(t)' = RemEntry(t) /\ buffered' = buffered
    BY <2>1a, <2>2 DEF LastMoves, RemEntry, RemPending
  <2>4. Shape(t)'
    <3>1. pc[t] = "readWaiters" /\ pc'[t] = "setEvent"
      BY <2>1, <2>2
    <3>2. \A i \in 1..Len(buf[t]) :
            \/ buf[t][i] = TotalEntry /\ Deletable /\ i = 1 /\ RemPending(t)
            \/ buf[t][i] = RemEntry(t) /\ i = Len(buf[t])
      BY <3>1 DEF Shape, Waiting
    <3>3. ~buffered => Len(buf[t]) = 0
      BY DEF Shape
    <3>4. QED
      <4>1. \A i \in 1..Len(buf'[t]) :
              \/ buf'[t][i] = TotalEntry' /\ Deletable /\ i = 1 /\ RemPending(t)'
              \/ buf'[t][i] = RemEntry(t)' /\ i = Len(buf'[t])
        BY <3>2, <2>1b DEF TotalEntry
      <4>2. ~buffered' => Len(buf'[t]) = 0
        BY <3>3, <2>1b
      <4>3. QED
        BY <3>1, <4>1, <4>2 DEF Shape, Returning
  <2>5. Events'
    <3>1. /\ mem' = mem /\ signaled' = signaled /\ pc'[t] = "setEvent"
          /\ \A u \in Threads : /\ RemPending(u)' = RemPending(u) /\ Ev(u)' = Ev(u) /\ NextEv(u)' = NextEv(u)
                                /\ u # t => pc'[u] = pc[u]
      <4>1. mem' = mem /\ signaled' = signaled
        BY <2>1a DEF LastMoves
      <4>2. \A u \in Threads : Ev(u)' = Ev(u) /\ NextEv(u)' = NextEv(u) /\ RemPending(u)' = RemPending(u)
        BY <2>1a DEF LastMoves, Ev, NextEv, RemPending
      <4>3. QED
        BY <2>2, <4>1, <4>2
    <3>2. ~signaled'[EventIndex(mem'.rem)]
      BY <3>1 DEF Events
    <3>3. ASSUME NEW u \in Threads
          PROVE  /\ pc'[u] \in {"readTotal", "storeTotal", "storeRem"} \/ RemPending(u)' => ~signaled'[NextEv(u)']
                 /\ pc'[u] = "setEvent" => mem'[Mark(Ev(u)')]
      BY <3>1, <2>1 DEF Events
    <3>4. ASSUME NEW i \in {0, 1}, signaled'[i]
          PROVE  mem'[Mark(i)] \/ \E u \in Threads : pc'[u] = "resetEvent" /\ NextEv(u)' = i
      BY <3>1, <3>4, <2>1 DEF Events
    <3>5. QED
      BY <3>2, <3>3, <3>4 DEF Events, EventIndex, Mark
  <2>6. Totals'
    BY <2>1, <2>2, StaysInPhaseKeeps, LastMovesFrame DEF Totals, Stored, LastMoves, Closers, Returning
  <2>7. QED
    BY <2>2, <2>3, <2>4, <2>5, <2>6, StaysInPhaseKeeps
<1>2. CASE WakeWaiters(t) \/ ~Load(t, Mark(Ev(t)))
  <2>1. /\ pc[t] \in Returning /\ pc' = [pc EXCEPT ![t] = "out"] /\ wins' = wins + 1
        /\ UNCHANGED <<mem, buf, buffered, cur, seen, phase>>
        /\ \/ UNCHANGED signaled
           \/ /\ signaled' = [signaled EXCEPT ![Ev(t)] = TRUE]
              /\ pc[t] = "setEvent" /\ Fence(t)
    BY <1>2 DEF ReadWaiters, WakeWaiters, Ev, Returning
  <2>2. /\ \A u \in Threads : /\ Current(u)' = Current(u) /\ Closing(u)' = Closing(u)
                              /\ Ev(u)' = Ev(u) /\ NextEv(u)' = NextEv(u)
                              /\ RemPending(u)' = RemPending(u) /\ TotalPending(u)' = TotalPending(u)
                              /\ u # t => pc'[u] = pc[u] /\ Last(u)' = Last(u) /\ ~Last(u)
        /\ pc'[t] = "out" /\ Last(t) /\ (Last(t)' => RemPending(t)) /\ (RemPending(t) => Last(t)')
    <3>1. pc'[t] = "out" /\ \A u \in Threads : u # t => pc'[u] = pc[u]
      BY <2>1 DEF Types
    <3>2. \A u \in Threads : /\ Current(u)' = Current(u) /\ Ev(u)' = Ev(u) /\ NextEv(u)' = NextEv(u)
                             /\ RemPending(u)' = RemPending(u) /\ TotalPending(u)' = TotalPending(u)
      BY <2>1 DEF Current, Ev, NextEv, RemPending, TotalPending
    <3>3. \A u \in Threads : Closing(u)' = Closing(u)
      BY <2>1, <3>1, <3>2 DEF Closing, Closers, Returning
    <3>4. Last(t) /\ (Last(t)' <=> RemPending(t)) /\ \A u \in Threads : u # t => Last(u)' = Last(u)
      <4>1. Last(t)
        BY <2>1 DEF Last
      <4>2. Last(t)' <=> RemPending(t)
        BY <3>1, <3>2 DEF Last, Closing, Closers, Returning
      <4>3. \A u \in Threads : u # t => Last(u)' = Last(u)
        BY <3>1, <3>3 DEF Last
      <4>4. QED
        BY <4>1, <4>2, <4>3
    <3>5. \A u \in Threads : u # t => ~Last(u)
      BY <3>4 DEF Roles
    <3>6. QED
      BY <3>1, <3>2, <3>3, <3>4, <3>5
  <2>3. Types'
    <3>1. signaled' \in [{0, 1} -> BOOLEAN]
      BY <2>1 DEF Types
    <3>2. pc' \in [Threads -> Labels] /\ wins' \in Nat
      BY <2>1 DEF Types, Labels
    <3>3. UNCHANGED <<mem, buf, buffered, cur, seen, phase>>
      BY <2>1
    <3>4. QED
      BY <3>1, <3>2, <3>3 DEF Types
  <2>4. \A u \in Threads : Shape(u)'
    BY <2>1, <2>2 DEF Shape, MarkEntry, RemEntry, TotalEntry, Waiting, Returning
  <2>5. PhasesAgree' /\ Roles'
    BY <2>1, <2>2 DEF PhasesAgree, Roles, Returning
  <2>6. Absent' = Absent /\ Staying' = Staying
    BY <2>1, <2>2 DEF Absent, Staying, Waiting, Returning
  <2>7. Counted'
    BY <2>1, <2>6 DEF Counted
  <2>8. wins' = phase[t] /\ (~RemPending(t) => ~Current(t))
    BY <2>1 DEF Roles, Returning, Winners
  <2>9. Winners'
    <3>1. ASSUME NEW u \in Threads
          PROVE  /\ pc'[u] \notin Closers \cup Returning
                 /\ pc'[u] = "out" /\ RemPending(u)' => wins' = phase'[u]
      BY <2>1, <2>2, <2>8 DEF Last, Closing, Closers, Returning
    <3>2. ASSUME \A u \in Threads : ~Last(u)', NEW u \in Threads, ~Current(u)'
          PROVE  wins' = phase'[u]
      <4>1. ~Current(t) /\ ~Current(u)
        BY <2>2, <2>8, <3>2
      <4>2. QED
        BY <2>1, <2>8, <4>1 DEF PhasesAgree
    <3>3. QED
      BY <3>1, <3>2 DEF Winners
  <2>10. Totals'
    BY <2>1, <2>2, <2>6 DEF Totals, Stored, Closers, Returning
  <2>11. Events'
    <3>1. CASE UNCHANGED signaled
      BY <2>1, <2>2, <3>1 DEF Events, Returning
    <3>2. CASE signaled' = [signaled EXCEPT ![Ev(t)] = TRUE] /\ pc[t] = "setEvent" /\ Fence(t)
      <4>1. ~RemPending(t) /\ ~Current(t) /\ phase[t] # 0
        BY <3>2, FenceEmpty DEF Roles, Returning
      <4>2. EventIndex(mem.rem) # Ev(t) /\ Ev(t) \in {0, 1}
        BY <4>1 DEF Current, Ev, EventIndex, Types, Remainders
      <4>3. \A u \in Threads : ~RemPending(u) /\ pc[u] \notin Closers
        BY <2>2, <4>1, <3>2 DEF Last, Closing, Closers
      <4>4. QED
        BY <2>1, <2>2, <3>2, <4>2, <4>3 DEF Events, Types, Returning, Closers
    <3>3. QED
      BY <2>1, <3>1, <3>2
  <2>12. QED
    BY <2>3, <2>4, <2>5, <2>7, <2>9, <2>10, <2>11
<1>3. QED
  BY <1>1, <1>2

-----------------------------------------------------------------------------
(* Entering and leaving.                                                   *)
LEMMA EnterFinds ==
  ASSUME Inv, NEW t \in Threads, Enter(t)
  PROVE  /\ pc[t] = "out" /\ ~Current(t) /\ t \in Absent /\ ~Last(t)
         /\ Len(buf[t]) = 0
         /\ \A u \in Threads : ~Closing(u)
         /\ mem.rem.count \in Nat \ {0} /\ mem.rem.count = Cardinality(Absent)
<1> USE DEF Inv
<1>1. pc[t] = "out" /\ Len(buf[t]) = 0 /\ ~RemPending(t)
  BY FenceEmpty DEF Enter
<1>2. ~Current(t) /\ ~Last(t)
  BY <1>1 DEF Roles, Last, Closing, Closers, Returning
<1>3. t \in Absent /\ \A u \in Threads : ~Closing(u)
  BY <1>2 DEF Absent, Roles
<1>4. QED
  BY <1>1, <1>2, <1>3, ThreadsFinite DEF Counted, Absent

LEMMA EnterKeeps ==
  ASSUME Inv, NEW t \in Threads, UNCHANGED buffered, Enter(t)
  PROVE  Inv'
<1> USE DEF Inv, Goto
<1>1. /\ mem'.rem.count = mem.rem.count - 1 /\ mem'.rem.sense = mem.rem.sense
      /\ mem'.total = mem.total /\ mem'.mark0 = mem.mark0 /\ mem'.mark1 = mem.mark1
      /\ mem' = [mem EXCEPT !.rem = mem'.rem] /\ mem'.rem \in Remainders
      /\ cur' = [cur EXCEPT ![t] = mem'.rem]
      /\ phase' = [phase EXCEPT ![t] = @ + 1]
      /\ pc'[t] \in {"clearMark", "readMark", "spin"}
      /\ pc'[t] = "clearMark" <=> mem'.rem.count = 0
      /\ pc' = [pc EXCEPT ![t] = pc'[t]]
      /\ UNCHANGED <<signaled, buf, seen, wins>>
  <2> DEFINE r == [mem.rem EXCEPT !.count = @ - 1]
  <2>0. mem.rem \in Remainders /\ mem.rem.count \in Nat \ {0}
    BY EnterFinds DEF Types
  <2>1. r.count = mem.rem.count - 1 /\ r.sense = mem.rem.sense /\ r \in Remainders
    BY <2>0 DEF Remainders
  <2>2. mem' = [mem EXCEPT !.rem = r] /\ cur' = [cur EXCEPT ![t] = r]
    BY DEF Enter
  <2>3. /\ mem'.rem = r /\ mem'.total = mem.total
        /\ mem'.mark0 = mem.mark0 /\ mem'.mark1 = mem.mark1
    BY <2>2 DEF Types
  <2>4. pc' = [pc EXCEPT ![t] = IF r.count = 0 THEN "clearMark"
                                ELSE IF SpinMode = "never" THEN "readMark" ELSE "spin"]
    BY DEF Enter
  <2>5. /\ pc'[t] \in {"clearMark", "readMark", "spin"}
        /\ pc'[t] = "clearMark" <=> r.count = 0
        /\ pc' = [pc EXCEPT ![t] = pc'[t]]
    BY <2>4 DEF Types
  <2>6. phase' = [phase EXCEPT ![t] = @ + 1] /\ UNCHANGED <<signaled, buf, seen, wins>>
    BY DEF Enter
  <2>7. QED
    BY <2>1, <2>2, <2>3, <2>5, <2>6
<1>2. Types'
  <2>1. mem' \in [rem : Remainders, total : Nat, mark0 : BOOLEAN, mark1 : BOOLEAN]
    BY <1>1 DEF Types
  <2>2. pc' \in [Threads -> Labels]
    BY <1>1 DEF Types, Labels, Waiting, Closers
  <2>3. cur' \in [Threads -> Remainders] /\ phase' \in [Threads -> Nat]
    BY <1>1 DEF Types
  <2>4. QED
    BY <1>1, <2>1, <2>2, <2>3 DEF Types
<1>3. /\ \A u \in Threads \ {t} : /\ Current(u)' = Current(u) /\ pc'[u] = pc[u] /\ phase'[u] = phase[u]
                                  /\ Ev(u)' = Ev(u) /\ NextEv(u)' = NextEv(u) /\ cur'[u] = cur[u]
      /\ \A u \in Threads : RemPending(u)' = RemPending(u) /\ TotalPending(u)' = TotalPending(u)
      /\ Current(t)' /\ phase'[t] = phase[t] + 1
  BY <1>1 DEF Types, Current, Ev, NextEv, RemPending, TotalPending
<1>4. Absent' = Absent \ {t} /\ Counted'
  <2>1. Absent' = Absent \ {t}
    BY <1>3, EnterFinds DEF Absent
  <2>2. Absent \in SUBSET Threads /\ t \in Absent
    BY EnterFinds DEF Absent
  <2>3. Cardinality(Absent \ {t}) = Cardinality(Absent) - 1
    BY <2>2, ThreadsFinite
  <2>4. QED
    BY <1>1, <2>1, <2>3, EnterFinds DEF Counted
<1>5. pc'[t] = "clearMark" => /\ \A u \in Threads : Current(u)' /\ (u # t => ~Last(u))
                              /\ wins = phase[t]
  <2> SUFFICES ASSUME pc'[t] = "clearMark"
               PROVE  (\A u \in Threads : Current(u)' /\ (u # t => ~Last(u))) /\ wins = phase[t]
    OBVIOUS
  <2>1. Absent' = {}
    BY <1>1, <1>4, FS_EmptySet, ThreadsFinite DEF Counted, Absent
  <2>2. \A u \in Threads : Current(u)' /\ (u # t => Current(u))
    BY <1>3, <2>1 DEF Absent
  <2>3. \A u \in Threads \ {t} : ~Last(u)
    BY <2>2, EnterFinds DEF Roles, Last, Closing, Closers, Returning
  <2>4. QED
    BY <2>2, <2>3, EnterFinds DEF Winners
<1>6. \A u \in Threads : /\ u # t => Closing(u)' = Closing(u) /\ Last(u)' = Last(u)
                         /\ Closing(t)' <=> pc'[t] = "clearMark"
                         /\ Last(t)' <=> pc'[t] = "clearMark"
  BY <1>1, <1>3, EnterFinds DEF Closing, Last, Closers, Returning
<1>7. \A u \in Threads : Shape(u)'
  <2>1. Shape(t)'
    BY <1>1, EnterFinds, EmptyShapeNext
  <2>2. \A u \in Threads \ {t} : Shape(u)'
    BY <1>1, <1>3 DEF Shape, MarkEntry, RemEntry, TotalEntry
  <2>3. QED
    BY <2>1, <2>2
<1>8. PhasesAgree'
  <2>1. \A u \in Threads : phase[u] \in Nat /\ (~Current(u) => phase[u] = phase[t])
                           /\ (Current(u) => phase[u] = phase[t] + 1)
    BY EnterFinds DEF PhasesAgree, Types
  <2>2. \A u \in Threads : /\ (Current(u)' => phase'[u] = phase[t] + 1)
                           /\ (~Current(u)' => phase'[u] = phase[t])
    BY <1>3, <2>1
  <2>3. QED
    BY <2>1, <2>2 DEF PhasesAgree
<1>9. Roles'
  <2>1. \A u \in Threads : pc'[u] # "out" => phase'[u] # 0
    <3>1. phase'[t] # 0
      BY <1>3 DEF Types
    <3>2. QED
      BY <1>3, <3>1 DEF Roles
  <2>2. \A u \in Threads : Closing(u)' => u = t /\ \A v \in Threads : Current(v)'
    BY <1>5, <1>6, EnterFinds
  <2>3. \A u \in Threads : pc'[u] \in Returning \cup {"out", "leave"} /\ Current(u)' => RemPending(u)'
    BY <1>1, <1>3 DEF Roles, Returning
  <2>4. \A u, v \in Threads : Last(u)' /\ Last(v)' => u = v
    BY <1>5, <1>6 DEF Roles
  <2>5. QED
    BY <2>1, <2>2, <2>3, <2>4 DEF Roles
<1>10. Events'
  BY <1>1, <1>3, EnterFinds DEF Events, EventIndex, Mark, Closing
<1>11. Winners'
  BY <1>1, <1>3, <1>5, <1>6, EnterFinds DEF Winners, Closers, Returning, Closing
<1>12. Staying' = Staying
  BY <1>3, EnterFinds DEF Staying, Waiting
<1>13. Totals'
  BY <1>1, <1>3, <1>6, <1>12, EnterFinds DEF Totals, Stored, Closers
<1>14. QED
  BY <1>2, <1>4, <1>7, <1>8, <1>9, <1>10, <1>11, <1>13

LEMMA LeaveKeeps ==
  ASSUME Inv, NEW t \in Threads, UNCHANGED buffered, Leave(t)
  PROVE  Inv'
<1> USE DEF Inv, Goto
<1>1. /\ pc[t] = "leave" /\ pc' = [pc EXCEPT ![t] = "out"]
      /\ UNCHANGED <<signaled, buffered, buf, cur, seen, phase, wins>>
      /\ IF Deletable THEN mem' = [mem EXCEPT !.total = @ + 1] ELSE mem' = mem
  BY DEF Leave
<1>2. ~RemPending(t)
  BY <1>1, WaitersStoreMarks DEF Waiting
<1>3. ~Current(t) /\ \A u \in Threads : ~Closing(u) /\ ~Stored(u)
  BY <1>1, <1>2 DEF Roles, Stored
<1>4. /\ mem' \in [rem : Remainders, total : Nat, mark0 : BOOLEAN, mark1 : BOOLEAN]
      /\ mem'.rem = mem.rem /\ mem'.mark0 = mem.mark0 /\ mem'.mark1 = mem.mark1
      /\ mem'.total = IF Deletable THEN mem.total + 1 ELSE mem.total
  BY <1>1 DEF Types
<1>5. Types'
  BY <1>1, <1>4 DEF Types, Labels
<1>6. /\ pc'[t] = "out" /\ \A u \in Threads : u # t => pc'[u] = pc[u]
      /\ \A u \in Threads : /\ Current(u)' = Current(u) /\ Ev(u)' = Ev(u) /\ NextEv(u)' = NextEv(u)
                            /\ RemPending(u)' = RemPending(u) /\ TotalPending(u)' = TotalPending(u)
  BY <1>1, <1>4 DEF Types, Current, Ev, NextEv, RemPending, TotalPending
<1>7. \A u \in Threads : ~Closing(u)' /\ ~Stored(u)' /\ Last(u)' = Last(u)
  BY <1>1, <1>3, <1>6 DEF Closing, Last, Stored, Closers, Returning
<1>8. \A u \in Threads : Shape(u)'
  <2>1. ASSUME NEW u \in Threads, u # t PROVE Shape(u)'
    BY <1>1, <1>6, <2>1 DEF Shape, MarkEntry, RemEntry, TotalEntry
  <2>2. Shape(t)'
    <3>1. \A i \in 1..Len(buf[t]) : buf[t][i] = MarkEntry(Ev(t), TRUE)
      BY <1>1, WaitersStoreMarks DEF Waiting
    <3>2. /\ buf'[t] = buf[t] /\ buffered' = buffered /\ pc'[t] = "out"
          /\ MarkEntry(Ev(t), TRUE)' = MarkEntry(Ev(t), TRUE)
      BY <1>1, <1>6 DEF MarkEntry
    <3>3. ~buffered => Len(buf[t]) = 0
      BY DEF Shape
    <3>4. \A i \in 1..Len(buf'[t]) : buf'[t][i] = MarkEntry(Ev(t), TRUE)' /\ pc'[t] \in Waiting \cup {"out"}
      BY <3>1, <3>2
    <3>5. ~buffered' \/ pc'[t] \in {"clearMark", "readTotal", "storeTotal"} => Len(buf'[t]) = 0
      BY <3>2, <3>3
    <3>6. QED
      BY <3>4, <3>5 DEF Shape
  <2>3. QED
    BY <2>1, <2>2
<1>9. PhasesAgree' /\ Roles'
  <2>1. PhasesAgree'
    BY <1>1, <1>6 DEF PhasesAgree
  <2>2. Roles'
    BY <1>1, <1>2, <1>3, <1>6, <1>7 DEF Roles
  <2>3. QED
    BY <2>1, <2>2
<1>10. Absent' = Absent /\ t \in Staying /\ Staying' = Staying \ {t}
  BY <1>1, <1>3, <1>6 DEF Absent, Staying, Waiting
<1>11. Counted'
  BY <1>4, <1>10 DEF Counted
<1>12. Events'
  BY <1>1, <1>4, <1>6 DEF Events, Mark
<1>13. Winners'
  BY <1>1, <1>2, <1>6, <1>7 DEF Winners, Closers, Returning
<1>14. Totals'
  <2>1. Staying \in SUBSET Threads /\ Cardinality(Staying \ {t}) = Cardinality(Staying) - 1 /\ Cardinality(Staying) \in Nat
    BY <1>10, ThreadsFinite DEF Staying
  <2>2. Deletable => mem'.total + Cardinality(Staying') = N
    BY <1>3, <1>4, <1>10, <2>1 DEF Totals, Types
  <2>3. QED
    BY <1>1, <1>4, <1>6, <1>7, <2>2 DEF Totals
<1>15. QED
  BY <1>5, <1>8, <1>9, <1>11, <1>12, <1>13, <1>14

(* Deleting the barrier, or a stuttering step.                             *)
LEMMA UnchangedKeeps ==
  ASSUME Inv, UNCHANGED <<mem, signaled, buffered, buf, pc, cur, seen, phase, wins>>
  PROVE  Inv'
<1>1. \A t \in Threads : /\ Current(t)' = Current(t) /\ Closing(t)' = Closing(t) /\ Last(t)' = Last(t)
                         /\ Stored(t)' = Stored(t) /\ Ev(t)' = Ev(t) /\ NextEv(t)' = NextEv(t)
                         /\ RemPending(t)' = RemPending(t) /\ TotalPending(t)' = TotalPending(t)
                         /\ RemEntry(t)' = RemEntry(t)
  BY DEF Current, Closing, Last, Stored, Ev, NextEv, RemPending, TotalPending, RemEntry
<1>2. Absent' = Absent /\ Staying' = Staying
  BY <1>1 DEF Absent, Staying
<1>3. Types' /\ \A t \in Threads : Shape(t)'
  BY <1>1 DEF Inv, Types, Shape, MarkEntry, TotalEntry
<1>4. PhasesAgree' /\ Roles' /\ Counted'
  BY <1>1, <1>2 DEF Inv, PhasesAgree, Roles, Counted
<1>5. Events' /\ Winners' /\ Totals'
  BY <1>1, <1>2 DEF Inv, Events, Winners, Totals, EventIndex
<1>6. QED
  BY <1>3, <1>4, <1>5 DEF Inv
-----------------------------------------------------------------------------
(* What a store does when it reaches memory.                               *)
LEMMA MarkStored ==
  ASSUME Types, NEW i \in {0, 1}, NEW v \in BOOLEAN, mem' = [mem EXCEPT ![Mark(i)] = v]
  PROVE  /\ mem' \in [rem : Remainders, total : Nat, mark0 : BOOLEAN, mark1 : BOOLEAN]
         /\ mem'.rem = mem.rem /\ mem'.total = mem.total
         /\ mem'[Mark(i)] = v
         /\ \A j \in {0, 1} : j # i => mem'[Mark(j)] = mem[Mark(j)]
<1>1. CASE i = 0
  BY <1>1 DEF Types, Mark
<1>2. CASE i = 1
  BY <1>2 DEF Types, Mark
<1>3. QED
  BY <1>1, <1>2

LEMMA EventIndices ==
  /\ EventIndex(mem.rem) \in {0, 1}
  /\ \A t \in Threads : Ev(t) \in {0, 1} /\ NextEv(t) \in {0, 1} /\ NextEv(t) # Ev(t)
  BY DEF EventIndex, Ev, NextEv

LEMMA MarkSetKeeps ==
  ASSUME Inv, NEW t \in Threads, StaysInPhase(t),
         mem' = [mem EXCEPT ![Mark(Ev(t))] = TRUE], UNCHANGED <<signaled, seen>>,
         pc[t] \in Waiting \cup {"out"}, pc'[t] \in Waiting \cup {"out"},
         \A u \in Threads : TotalPending(u)' = TotalPending(u)
  PROVE  Events' /\ Totals'
<1> USE DEF Inv
<1>1. /\ mem'.rem = mem.rem /\ mem'.total = mem.total
      /\ \A i \in {0, 1} : mem'[Mark(i)] = (i = Ev(t) \/ mem[Mark(i)])
  <2>1. /\ mem'.rem = mem.rem /\ mem'.total = mem.total /\ mem'[Mark(Ev(t))] = TRUE
        /\ \A j \in {0, 1} : j # Ev(t) => mem'[Mark(j)] = mem[Mark(j)]
    BY EventIndices, MarkStored
  <2>2. \A i \in {0, 1} : mem[Mark(i)] \in BOOLEAN
    BY DEF Types, Mark
  <2>3. QED
    BY <2>1, <2>2
<1>2. /\ \A u \in Threads : /\ Ev(u)' = Ev(u) /\ NextEv(u)' = NextEv(u)
                            /\ Closing(u)' = Closing(u) /\ RemPending(u)' = RemPending(u)
                            /\ u # t => pc'[u] = pc[u]
      /\ Staying' = Staying
  <2>1. \A u \in Threads : RemPending(u)' = RemPending(u) /\ (u # t => pc'[u] = pc[u])
    BY DEF StaysInPhase, Within, Waiting, Closers, Returning
  <2>2. QED
    BY <2>1, StaysInPhaseKeeps
<1>3. Events'
  <2>1. ~signaled'[EventIndex(mem'.rem)]
    BY <1>1 DEF Events
  <2>2. ASSUME NEW u \in Threads
        PROVE  /\ pc'[u] \in {"readTotal", "storeTotal", "storeRem"} \/ RemPending(u)' => ~signaled'[NextEv(u)']
               /\ pc'[u] = "setEvent" => mem'[Mark(Ev(u)')]
    <3>1. u = t => pc'[u] \notin {"readTotal", "storeTotal", "storeRem", "setEvent"}
      BY DEF Waiting
    <3>2. QED
      BY <1>1, <1>2, <3>1, EventIndices DEF Events
  <2>3. ASSUME NEW i \in {0, 1}, signaled'[i]
        PROVE  mem'[Mark(i)] \/ \E u \in Threads : pc'[u] = "resetEvent" /\ NextEv(u)' = i
    <3>1. pc[t] # "resetEvent"
      BY DEF Waiting
    <3>2. QED
      BY <1>1, <1>2, <2>3, <3>1 DEF Events
  <2>4. QED
    BY <2>1, <2>2, <2>3 DEF Events, EventIndex, Mark
<1>4. \A u \in Threads : Stored(u)' = Stored(u)
  BY <1>2 DEF Stored, Closers, Waiting
<1>5. Totals'
  BY <1>1, <1>2, <1>4 DEF Totals, Waiting
<1>6. QED
  BY <1>3, <1>5

LEMMA MarkClearedKeeps ==
  ASSUME Inv, NEW t \in Threads, StaysInPhase(t),
         mem' = [mem EXCEPT ![Mark(NextEv(t))] = FALSE], UNCHANGED <<signaled, seen>>,
         pc[t] \in {"clearMark", "resetEvent"}, pc'[t] = "resetEvent",
         \A u \in Threads : TotalPending(u)' = TotalPending(u)
  PROVE  Events' /\ Totals'
<1> USE DEF Inv
<1>1. /\ mem'.rem = mem.rem /\ mem'.total = mem.total
      /\ \A i \in {0, 1} : i # NextEv(t) => mem'[Mark(i)] = mem[Mark(i)]
  BY EventIndices, MarkStored
<1>2. Closing(t)
  BY DEF Closing, Closers
<1>3. /\ \A u \in Threads : /\ Ev(u)' = Ev(u) /\ NextEv(u)' = NextEv(u)
                            /\ Closing(u)' = Closing(u) /\ RemPending(u)' = RemPending(u)
                            /\ u # t => pc'[u] = pc[u] /\ ~Last(u) /\ ~Stored(u)
      /\ Staying' = Staying
  <2>1. \A u \in Threads : RemPending(u)' = RemPending(u) /\ (u # t => pc'[u] = pc[u])
    BY DEF StaysInPhase, Within, Waiting, Closers, Returning
  <2>2. QED
    BY <2>1, <1>2, StaysInPhaseKeeps, ClosingAlone
<1>4. Events'
  <2>1. ~signaled'[EventIndex(mem'.rem)]
    BY <1>1 DEF Events
  <2>2. ASSUME NEW u \in Threads
        PROVE  /\ pc'[u] \in {"readTotal", "storeTotal", "storeRem"} \/ RemPending(u)' => ~signaled'[NextEv(u)']
               /\ pc'[u] # "setEvent"
    BY <1>3 DEF Events, Last, Returning
  <2>3. ASSUME NEW i \in {0, 1}, signaled'[i]
        PROVE  mem'[Mark(i)] \/ \E u \in Threads : pc'[u] = "resetEvent" /\ NextEv(u)' = i
    <3>1. \A u \in Threads : pc[u] = "resetEvent" => u = t
      BY <1>3 DEF Last, Closing, Closers
    <3>2. QED
      BY <1>1, <1>3, <2>3, <3>1 DEF Events
  <2>4. QED
    BY <2>1, <2>2, <2>3 DEF Events, EventIndex, Mark
<1>5. \A u \in Threads : ~Stored(u)' /\ ~Stored(u)
  <2>1. ~Stored(t)' /\ ~Stored(t)
    BY DEF Stored, Closers
  <2>2. \A u \in Threads : u # t => ~Stored(u)' /\ ~Stored(u)
    BY <1>3 DEF Stored, Last
  <2>3. QED
    BY <2>1, <2>2
<1>6. Totals'
  BY <1>1, <1>3, <1>5 DEF Totals
<1>7. QED
  BY <1>4, <1>6

LEMMA TotalResetKeeps ==
  ASSUME Inv, NEW t \in Threads, StaysInPhase(t),
         mem' = [mem EXCEPT !.total = 1], UNCHANGED <<signaled, seen>>, Deletable,
         \/ pc[t] = "storeTotal" /\ pc'[t] = "storeRem"
         \/ pc'[t] = pc[t] /\ (pc[t] = "storeRem" \/ (pc[t] \notin Closers /\ RemPending(t))),
         ~TotalPending(t)'
  PROVE  Events' /\ Totals'
<1> USE DEF Inv
<1>1. /\ mem'.rem = mem.rem /\ mem'.total = 1 /\ mem'.mark0 = mem.mark0 /\ mem'.mark1 = mem.mark1
  BY DEF Types
<1>2. Closing(t) /\ Closing(t)'
  <2>1. Closing(t)
    BY DEF Closing, Closers
  <2>2. QED
    BY <2>1, StaysInPhaseKeeps
<1>3. /\ \A u \in Threads : /\ Ev(u)' = Ev(u) /\ NextEv(u)' = NextEv(u)
                            /\ Closing(u)' = Closing(u) /\ RemPending(u)' = RemPending(u)
                            /\ u # t => pc'[u] = pc[u] /\ ~Last(u) /\ ~Stored(u)
  <2>1. \A u \in Threads : RemPending(u)' = RemPending(u) /\ (u # t => pc'[u] = pc[u])
    BY DEF StaysInPhase, Within, Waiting, Closers, Returning
  <2>2. QED
    BY <2>1, <1>2, StaysInPhaseKeeps, ClosingAlone
<1>4. Events'
  <2>1. ~signaled'[EventIndex(mem'.rem)]
    BY <1>1 DEF Events
  <2>2. ASSUME NEW u \in Threads
        PROVE  /\ pc'[u] \in {"readTotal", "storeTotal", "storeRem"} \/ RemPending(u)' => ~signaled'[NextEv(u)']
               /\ pc'[u] = "setEvent" => mem'[Mark(Ev(u)')]
    BY <1>1, <1>3 DEF Events, Mark
  <2>3. ASSUME NEW i \in {0, 1}, signaled'[i]
        PROVE  mem'[Mark(i)] \/ \E u \in Threads : pc'[u] = "resetEvent" /\ NextEv(u)' = i
    <3>1. pc[t] # "resetEvent"
      BY DEF Closers
    <3>2. QED
      BY <1>1, <1>3, <2>3, <3>1 DEF Events, Mark
  <2>4. QED
    BY <2>1, <2>2, <2>3 DEF Events, EventIndex, Mark
<1>5. Stored(t)' /\ \A u \in Threads : u # t => ~Stored(u)'
  <2>1. Stored(t)'
    BY <1>2 DEF Stored, Closers
  <2>2. \A u \in Threads : u # t => ~Stored(u)'
    BY <1>3 DEF Stored, Last
  <2>3. QED
    BY <2>1, <2>2
<1>6. Totals'
  <2>1. \A u \in Threads : /\ pc'[u] = "storeTotal" => Deletable
                           /\ pc'[u] \in {"storeTotal", "storeRem"} => seen'[u] = N
    BY <1>3 DEF Totals, Closers
  <2>2. QED
    BY <1>1, <1>5, <2>1 DEF Totals
<1>7. QED
  BY <1>4, <1>6

(* The sense flips: the phase is over.                                     *)
RemFlips(t) ==
  /\ Closing(t) /\ ~TotalPending(t)
  /\ mem' = [mem EXCEPT !.rem = RemEntry(t).val]
  /\ UNCHANGED <<signaled, buffered, cur, seen, phase, wins>>
  /\ \/ pc[t] = "storeRem" /\ pc' = [pc EXCEPT ![t] = "readWaiters"]
     \/ pc[t] \in Returning \cup {"out"} /\ pc' = pc
  /\ ~RemPending(t)'
  /\ \A u \in Threads \ {t} : RemPending(u)' = RemPending(u)

LEMMA RemFlipsKeeps ==
  ASSUME Inv, NEW t \in Threads, RemFlips(t)
  PROVE  /\ mem' \in [rem : Remainders, total : Nat, mark0 : BOOLEAN, mark1 : BOOLEAN]
         /\ pc' \in [Threads -> Labels]
         /\ PhasesAgree' /\ Roles' /\ Counted' /\ Events' /\ Winners' /\ Totals'
<1> USE DEF Inv, RemFlips
<1>1. /\ mem' \in [rem : Remainders, total : Nat, mark0 : BOOLEAN, mark1 : BOOLEAN]
      /\ mem'.rem.sense = 1 - cur[t].sense /\ mem'.rem.count = N /\ mem'.total = mem.total
      /\ mem'.mark0 = mem.mark0 /\ mem'.mark1 = mem.mark1
  <2> DEFINE v == RemEntry(t).val
  <2>1. v \in Remainders /\ v.sense = 1 - cur[t].sense /\ v.count = N
    <3>1. v = [sense |-> 1 - cur[t].sense, count |-> N]
      BY DEF RemEntry, Flip
    <3>2. cur[t].sense \in {0, 1} /\ N \in Nat
      BY ThreadsFinite DEF Types, Remainders
    <3>3. QED
      BY <3>1, <3>2 DEF Remainders
  <2>2. mem' = [mem EXCEPT !.rem = v]
    OBVIOUS
  <2>3. QED
    BY <2>1, <2>2 DEF Types
<1>2. /\ pc' \in [Threads -> Labels]
      /\ \A u \in Threads : u # t => pc'[u] = pc[u]
      /\ \/ pc[t] = "storeRem" /\ pc'[t] = "readWaiters"
         \/ pc[t] \in Returning \cup {"out"} /\ pc'[t] = pc[t]
  BY DEF Types, Labels, Returning
<1>3. \A u \in Threads : /\ Current(u) /\ phase'[u] = phase[u] /\ phase[u] = phase[t]
                         /\ Ev(u)' = Ev(u) /\ NextEv(u)' = NextEv(u) /\ Ev(u) = Ev(t)
                         /\ u # t => ~Last(u)
  <2>1. \A u \in Threads : Current(u) /\ (u # t => ~Last(u))
    BY ClosingAlone
  <2>2. \A u \in Threads : phase'[u] = phase[u] /\ phase[u] = phase[t]
    BY <2>1 DEF PhasesAgree
  <2>3. \A u \in Threads : Ev(u)' = Ev(u) /\ NextEv(u)' = NextEv(u) /\ Ev(u) = Ev(t)
    BY <2>1 DEF Ev, NextEv, Current, EventIndex
  <2>4. QED
    BY <2>1, <2>2, <2>3
<1>4. \A u \in Threads : ~Current(u)' /\ ~Closing(u)' /\ ~RemPending(u)' /\ (Last(u)' => u = t)
  <2>1. \A u \in Threads : ~Current(u)'
    BY <1>1, <1>3 DEF Current, Types, Remainders
  <2>2. \A u \in Threads : u # t => ~RemPending(u)' /\ pc'[u] \notin Closers \cup Returning
    BY <1>2, <1>3 DEF Last, Closing
  <2>3. pc'[t] \notin Closers
    BY <1>2 DEF Closers, Returning
  <2>4. QED
    BY <2>1, <2>2, <2>3 DEF Closing, Last
<1>5. EventIndex(mem'.rem) = NextEv(t)
  BY <1>1, <1>3 DEF EventIndex, NextEv, Ev, Types, Remainders
<1>6. PhasesAgree' /\ Roles'
  <2>1. PhasesAgree'
    BY <1>3, <1>4 DEF PhasesAgree
  <2>2. \A u \in Threads : pc'[u] # "out" => phase'[u] # 0
    BY <1>3 DEF Current
  <2>3. QED
    BY <1>4, <2>1, <2>2 DEF Roles
<1>7. Counted'
  <2>1. Absent' = Threads
    BY <1>4 DEF Absent
  <2>2. QED
    BY <1>1, <2>1 DEF Counted, N
<1>8. Events'
  <2>1. ~signaled'[NextEv(t)]
    <3>1. pc[t] = "storeRem" \/ RemPending(t)
      BY DEF Closing, Closers, Returning
    <3>2. QED
      BY <3>1 DEF Events
  <2>2. ASSUME NEW u \in Threads
        PROVE  /\ ~(pc'[u] \in {"readTotal", "storeTotal", "storeRem"} \/ RemPending(u)')
               /\ pc'[u] = "setEvent" => mem'[Mark(Ev(u)')]
    <3>1. pc'[u] \notin Closers /\ ~RemPending(u)'
      BY <1>4 DEF Closing
    <3>2. pc'[u] = "setEvent" => pc[u] = "setEvent"
      BY <1>2
    <3>3. QED
      BY <1>1, <1>3, <3>1, <3>2 DEF Events, Mark, Closers
  <2>3. ASSUME NEW i \in {0, 1}, signaled'[i]
        PROVE  mem'[Mark(i)]
    <3>1. \A u \in Threads : pc[u] # "resetEvent"
      BY <1>2, <1>3 DEF Last, Closing, Closers, Returning
    <3>2. QED
      BY <1>1, <2>3, <3>1 DEF Events, Mark
  <2>4. QED
    BY <1>5, <2>1, <2>2, <2>3 DEF Events, EventIndex, Mark
<1>9. Winners'
  <2>1. pc[t] \in {"storeRem"} \cup Returning => wins + 1 = phase[t]
    BY DEF Winners, Closers
  <2>2. pc[t] = "out" => wins = phase[t]
    BY DEF Winners, Closing, Closers
  <2>3. ASSUME NEW u \in Threads PROVE pc'[u] \in Closers \cup Returning => wins' + 1 = phase'[u]
    BY <1>2, <1>3, <1>4, <2>1 DEF Last, Closing, Closers
  <2>4. ASSUME \A u \in Threads : ~Last(u)', NEW u \in Threads PROVE wins' = phase'[u]
    <3>1. pc[t] = "out"
      BY <1>2, <2>4 DEF Last, Returning
    <3>2. QED
      BY <1>3, <2>2, <3>1
  <2>5. QED
    BY <1>4, <2>3, <2>4 DEF Winners
<1>10. Totals'
  <2>1. Staying' = Threads \ {t}
    <3>1. \A u \in Threads : u # t => pc'[u] \in Waiting
      BY <1>2, <1>3 DEF Roles, Types, Labels, Last, Closing, Returning
    <3>2. pc'[t] \notin Waiting
      BY <1>2 DEF Waiting, Returning
    <3>3. QED
      BY <1>4, <3>1, <3>2 DEF Staying
  <2>2. Deletable => mem'.total = 1
    BY <1>1, <1>2 DEF Totals, Stored, Closers, Returning
  <2>3. Deletable => mem'.total + Cardinality(Staying') = N
    BY <2>1, <2>2, ThreadsFinite DEF N
  <2>4. \A u \in Threads : ~Stored(u)' /\ pc'[u] \notin {"storeTotal", "storeRem"}
    BY <1>4 DEF Stored, Closing, Closers
  <2>5. QED
    BY <1>1, <2>3, <2>4 DEF Totals
<1>11. QED
  BY <1>1, <1>2, <1>6, <1>7, <1>8, <1>9, <1>10
-----------------------------------------------------------------------------
(* The steps that store: into the buffer, or into memory.                  *)
StoreMoves(t, e, l) ==
  /\ UNCHANGED <<signaled, buffered, cur, seen, phase, wins>>
  /\ pc' = [pc EXCEPT ![t] = l]
  /\ \/ pc[t] \in Waiting /\ l \in Waiting \ {"leave"} /\ e.field # "rem"
     \/ pc[t] \in Closers /\ l \in Closers /\ e.field # "rem"
     \/ pc[t] = "storeRem" /\ l = "readWaiters" /\ e.field = "rem"
  /\ IF buffered
     THEN buf' = [buf EXCEPT ![t] = Append(@, e)] /\ mem' = mem
     ELSE mem' = [mem EXCEPT ![e.field] = e.val] /\ buf' = buf

LEMMA StoreMovesFrame ==
  ASSUME Inv, NEW t \in Threads, NEW e \in Entries, NEW l, StoreMoves(t, e, l)
  PROVE  /\ pc' \in [Threads -> Labels] /\ pc'[t] = l /\ \A u \in Threads : u # t => pc'[u] = pc[u]
         /\ buf' \in [Threads -> Seq(Entries)]
         /\ \A u \in Threads : u # t => Shape(u)' /\ RemPending(u)' = RemPending(u) /\ TotalPending(u)' = TotalPending(u)
<1> USE DEF Inv
<1>1. l \in Labels /\ UNCHANGED <<buffered, cur>>
  BY DEF StoreMoves, Labels, Returning
<1>2. pc' \in [Threads -> Labels] /\ pc'[t] = l /\ \A u \in Threads : u # t => pc'[u] = pc[u]
  BY <1>1 DEF Types, StoreMoves
<1>3. buf' \in [Threads -> Seq(Entries)] /\ \A u \in Threads : u # t => buf'[u] = buf[u]
  <2>1. CASE buffered
    <3>1. buf' = [buf EXCEPT ![t] = Append(@, e)]
      BY <2>1 DEF StoreMoves
    <3>2. QED
      BY <3>1, Appended
  <2>2. CASE ~buffered
    BY <2>2 DEF Types, StoreMoves
  <2>3. QED
    BY <2>1, <2>2
<1>4. \A u \in Threads : u # t => RemPending(u)' = RemPending(u) /\ TotalPending(u)' = TotalPending(u)
  BY <1>3 DEF RemPending, TotalPending
<1>5. ASSUME NEW u \in Threads, u # t PROVE Shape(u)'
  BY <1>1, <1>2, <1>3, <1>4, <1>5 DEF Shape, MarkEntry, RemEntry, TotalEntry, Ev, NextEv
<1>6. QED
  BY <1>2, <1>3, <1>4, <1>5

LEMMA StoreBuffered ==
  ASSUME Inv, NEW t \in Threads, NEW e \in Entries, NEW l, StoreMoves(t, e, l), buffered
  PROVE  /\ Types' /\ StaysInPhase(t) /\ mem' = mem /\ buffered'
         /\ Len(buf[t]) \in Nat /\ Len(buf'[t]) = Len(buf[t]) + 1
         /\ \A i \in 1..Len(buf'[t]) : \/ i \in 1..Len(buf[t]) /\ buf'[t][i] = buf[t][i]
                                       \/ i = Len(buf'[t]) /\ buf'[t][i] = e
         /\ RemPending(t)' <=> RemPending(t) \/ e.field = "rem"
         /\ TotalPending(t)' <=> TotalPending(t) \/ e.field = "total"
<1> USE DEF Inv
<1>1. buf' = [buf EXCEPT ![t] = Append(@, e)] /\ mem' = mem
  BY DEF StoreMoves
<1>2. /\ Len(buf'[t]) = Len(buf[t]) + 1 /\ buf'[t][Len(buf[t]) + 1] = e
      /\ \A i \in 1..Len(buf[t]) : buf'[t][i] = buf[t][i]
      /\ RemPending(t)' <=> RemPending(t) \/ e.field = "rem"
      /\ TotalPending(t)' <=> TotalPending(t) \/ e.field = "total"
  BY <1>1, Appended
<1>3. Len(buf[t]) \in Nat
  BY LenProperties DEF Types
<1>4. ASSUME NEW i \in 1..Len(buf'[t])
      PROVE  \/ i \in 1..Len(buf[t]) /\ buf'[t][i] = buf[t][i]
             \/ i = Len(buf'[t]) /\ buf'[t][i] = e
  <2>1. i \in 1..Len(buf[t]) \/ i = Len(buf[t]) + 1
    BY <1>2, <1>3
  <2>2. QED
    BY <1>2, <2>1
<1>5. Types'
  BY <1>1, StoreMovesFrame DEF StoreMoves, Types
<1>6. StaysInPhase(t)
  <2>1. RemPending(t)' \in BOOLEAN /\ RemPending(t) \in BOOLEAN
    BY DEF RemPending
  <2>2. e.field # "rem" => RemPending(t)' = RemPending(t)
    BY <1>2, <2>1
  <2>3. QED
    BY <1>1, <1>2, <2>2, StoreMovesFrame DEF StoreMoves, StaysInPhase, Within
<1>7. buffered'
  BY DEF StoreMoves
<1>8. QED
  BY <1>1, <1>2, <1>3, <1>4, <1>5, <1>6, <1>7

LEMMA StoreUnbuffered ==
  ASSUME Inv, NEW t \in Threads, NEW e \in Entries, NEW l, StoreMoves(t, e, l), ~buffered
  PROVE  /\ mem' = [mem EXCEPT ![e.field] = e.val]
         /\ \A u \in Threads : /\ Shape(u)' /\ ~RemPending(u) /\ ~TotalPending(u)
                               /\ ~RemPending(u)' /\ ~TotalPending(u)'
<1>1. mem' = [mem EXCEPT ![e.field] = e.val] /\ buf' = buf
  BY DEF StoreMoves
<1>2. \A u \in Threads : Len(buf[u]) = 0 /\ Len(buf'[u]) = 0
  BY <1>1 DEF Inv, Shape
<1>3. \A u \in Threads : Shape(u)'
  BY <1>2, EmptyShapeNext
<1>4. QED
  BY <1>1, <1>2, <1>3 DEF RemPending, TotalPending

LEMMA StoreMarkKeeps ==
  ASSUME Inv, NEW t \in Threads, UNCHANGED buffered, StoreMark(t)
  PROVE  Inv'
<1> USE DEF Inv, Goto
<1> DEFINE e == MarkEntry(Ev(t), TRUE)
<1>1. /\ e \in Entries /\ e.field = Mark(Ev(t)) /\ e.field \notin {"rem", "total"} /\ e.val = TRUE
      /\ StoreMoves(t, e, "checkSense") /\ pc[t] = "storeMark"
  <2>1. e \in Entries /\ e.field = Mark(Ev(t)) /\ e.field \notin {"rem", "total"} /\ e.val = TRUE
    BY DEF Entries, MarkEntry, Mark
  <2>2. Store(t, e.field, e.val) => IF buffered THEN buf' = [buf EXCEPT ![t] = Append(@, e)] /\ mem' = mem
                                               ELSE mem' = [mem EXCEPT ![e.field] = e.val] /\ buf' = buf
    BY DEF Store, MarkEntry
  <2>3. QED
    BY <2>1, <2>2 DEF StoreMark, StoreMoves, Waiting, Ev
<1> HIDE DEF e
<1>2. /\ pc' \in [Threads -> Labels] /\ pc'[t] = "checkSense" /\ \A u \in Threads : u # t => pc'[u] = pc[u]
      /\ \A u \in Threads : u # t => Shape(u)' /\ RemPending(u)' = RemPending(u) /\ TotalPending(u)' = TotalPending(u)
      /\ pc[t] \in Waiting /\ pc'[t] \in Waiting
      /\ UNCHANGED <<signaled, seen, buffered, cur>>
  BY <1>1, StoreMovesFrame DEF StoreMoves, Waiting
<1>3. CASE buffered
  <2>1. Types' /\ StaysInPhase(t) /\ mem' = mem /\ (RemPending(t)' <=> RemPending(t)) /\ (TotalPending(t)' <=> TotalPending(t))
    BY <1>1, <1>3, StoreBuffered
  <2>2. \A i \in 1..Len(buf'[t]) : buf'[t][i] = e
    <3>1. \A i \in 1..Len(buf[t]) : buf[t][i] = e
      BY <1>2, WaitersStoreMarks DEF e
    <3>2. QED
      BY <1>1, <1>3, <3>1, StoreBuffered
  <2>3. Shape(t)'
    <3>1. e' = e
      BY <1>2 DEF e, MarkEntry, Ev
    <3>2. QED
      BY <1>2, <1>3, <2>1, <2>2, <3>1 DEF Shape, Waiting, e
  <2>4. \A u \in Threads : (RemPending(u)' <=> RemPending(u)) /\ (Stored(u)' <=> Stored(u))
    BY <1>1, <1>2, <2>1 DEF Stored, Closing, Closers
  <2>5. Totals'
    BY <1>1, <1>2, <2>1, <2>4, StaysInPhaseKeeps DEF Totals
  <2>6. Events'
    BY <1>1, <1>2, <2>1, <2>4, StaysInPhaseKeeps DEF Events
  <2>7. QED
    BY <1>2, <2>1, <2>3, <2>5, <2>6, StaysInPhaseKeeps
<1>4. CASE ~buffered
  <2>1. /\ mem' = [mem EXCEPT ![Mark(Ev(t))] = TRUE]
        /\ \A u \in Threads : /\ Shape(u)' /\ RemPending(u)' = RemPending(u) /\ TotalPending(u)' = TotalPending(u)
    BY <1>1, <1>4, StoreUnbuffered DEF RemPending, TotalPending
  <2>2. StaysInPhase(t)
    BY <1>1, <1>2, <2>1, MarkStored, EventIndices DEF StaysInPhase, StoreMoves, Within
  <2>3. Types'
    BY <1>1, <1>2, <1>4, <2>1, MarkStored, EventIndices DEF Types, StoreMoves
  <2>4. Events' /\ Totals'
    BY <1>2, <2>1, <2>2, MarkSetKeeps
  <2>5. QED
    BY <2>1, <2>2, <2>3, <2>4, StaysInPhaseKeeps
<1>5. QED
  BY <1>3, <1>4

LEMMA ClearMarkKeeps ==
  ASSUME Inv, NEW t \in Threads, UNCHANGED buffered, ClearMark(t), Load(t, Mark(NextEv(t)))
  PROVE  Inv'
<1> USE DEF Inv, Goto
<1> DEFINE e == MarkEntry(NextEv(t), FALSE)
<1>1. /\ e \in Entries /\ e.field = Mark(NextEv(t)) /\ e.field \notin {"rem", "total"} /\ e.val = FALSE
      /\ StoreMoves(t, e, "resetEvent") /\ pc[t] = "clearMark"
  <2>1. e \in Entries /\ e.field = Mark(NextEv(t)) /\ e.field \notin {"rem", "total"} /\ e.val = FALSE
    BY DEF Entries, MarkEntry, Mark
  <2>2. Store(t, e.field, e.val) => IF buffered THEN buf' = [buf EXCEPT ![t] = Append(@, e)] /\ mem' = mem
                                               ELSE mem' = [mem EXCEPT ![e.field] = e.val] /\ buf' = buf
    BY DEF Store, MarkEntry
  <2>3. QED
    BY <2>1, <2>2 DEF ClearMark, StoreMoves, Closers, Ev, NextEv
<1> HIDE DEF e
<1>2. /\ pc' \in [Threads -> Labels] /\ pc'[t] = "resetEvent" /\ \A u \in Threads : u # t => pc'[u] = pc[u]
      /\ \A u \in Threads : u # t => Shape(u)' /\ RemPending(u)' = RemPending(u) /\ TotalPending(u)' = TotalPending(u)
      /\ UNCHANGED <<signaled, seen, buffered, cur>>
  BY <1>1, StoreMovesFrame DEF StoreMoves
<1>3. Closing(t)
  BY <1>1 DEF Closing, Closers
<1>4. CASE buffered
  <2>1. Types' /\ StaysInPhase(t) /\ mem' = mem /\ (RemPending(t)' <=> RemPending(t)) /\ (TotalPending(t)' <=> TotalPending(t))
    BY <1>1, <1>4, StoreBuffered
  <2>2. \A i \in 1..Len(buf'[t]) : buf'[t][i] = e
    <3>1. Len(buf[t]) = 0
      BY <1>1 DEF Shape
    <3>2. QED
      BY <1>1, <1>4, <3>1, StoreBuffered
  <2>3. Shape(t)'
    <3>1. e' = e
      BY <1>2 DEF e, MarkEntry, NextEv, Ev
    <3>2. QED
      BY <1>2, <1>4, <2>1, <2>2, <3>1 DEF Shape, e
  <2>4. \A u \in Threads : (RemPending(u)' <=> RemPending(u)) /\ ~Stored(u)' /\ ~Stored(u)
    BY <1>1, <1>2, <1>3, <2>1, ClosingAlone, StaysInPhaseKeeps DEF Stored, Closers
  <2>5. Totals'
    BY <1>1, <1>2, <2>1, <2>4, StaysInPhaseKeeps DEF Totals
  <2>6. Events'
    <3>1. \A i \in {0, 1} : signaled[i] => mem[Mark(i)]
      BY <1>1, <1>3, ClosingAlone DEF Events, Last, Closing, Closers
    <3>2. QED
      BY <1>1, <1>2, <2>1, <2>4, <3>1, StaysInPhaseKeeps DEF Events
  <2>7. QED
    BY <1>2, <2>1, <2>3, <2>5, <2>6, StaysInPhaseKeeps
<1>5. CASE ~buffered
  <2>1. /\ mem' = [mem EXCEPT ![Mark(NextEv(t))] = FALSE]
        /\ \A u \in Threads : /\ Shape(u)' /\ RemPending(u)' = RemPending(u) /\ TotalPending(u)' = TotalPending(u)
    BY <1>1, <1>5, StoreUnbuffered DEF RemPending, TotalPending
  <2>2. StaysInPhase(t)
    BY <1>1, <1>2, <2>1, MarkStored, EventIndices DEF StaysInPhase, StoreMoves, Within, Closers
  <2>3. Types'
    BY <1>1, <1>2, <1>5, <2>1, MarkStored, EventIndices DEF Types, StoreMoves
  <2>4. Events' /\ Totals'
    BY <1>1, <1>2, <2>1, <2>2, MarkClearedKeeps
  <2>5. QED
    BY <2>1, <2>2, <2>3, <2>4, StaysInPhaseKeeps
<1>6. QED
  BY <1>4, <1>5

LEMMA StoreTotalKeeps ==
  ASSUME Inv, NEW t \in Threads, UNCHANGED buffered, StoreTotal(t)
  PROVE  Inv'
<1> USE DEF Inv, Goto
<1>1. /\ TotalEntry \in Entries /\ TotalEntry.field = "total" /\ TotalEntry.val = 1
      /\ StoreMoves(t, TotalEntry, "storeRem") /\ pc[t] = "storeTotal" /\ Deletable
  <2>1. TotalEntry \in Entries /\ TotalEntry.field = "total" /\ TotalEntry.val = 1
    BY DEF Entries, TotalEntry
  <2>2. Store(t, "total", 1) => IF buffered THEN buf' = [buf EXCEPT ![t] = Append(@, TotalEntry)] /\ mem' = mem
                                            ELSE mem' = [mem EXCEPT !["total"] = 1] /\ buf' = buf
    BY DEF Store, TotalEntry
  <2>3. QED
    BY <2>1, <2>2 DEF StoreTotal, StoreMoves, Closers, Totals
<1>2. /\ pc' \in [Threads -> Labels] /\ pc'[t] = "storeRem" /\ \A u \in Threads : u # t => pc'[u] = pc[u]
      /\ \A u \in Threads : u # t => Shape(u)' /\ RemPending(u)' = RemPending(u) /\ TotalPending(u)' = TotalPending(u)
      /\ UNCHANGED <<signaled, seen, buffered, cur>>
  BY <1>1, StoreMovesFrame DEF StoreMoves
<1>3. Closing(t) /\ Len(buf[t]) = 0
  BY <1>1 DEF Closing, Closers, Shape
<1>4. CASE buffered
  <2>1. Types' /\ StaysInPhase(t) /\ mem' = mem /\ (RemPending(t)' <=> RemPending(t)) /\ TotalPending(t)'
    BY <1>1, <1>4, StoreBuffered
  <2>2. \A i \in 1..Len(buf'[t]) : buf'[t][i] = TotalEntry /\ i = 1
    BY <1>1, <1>3, <1>4, StoreBuffered
  <2>3. Shape(t)'
    <3>1. TotalEntry' = TotalEntry
      BY DEF TotalEntry
    <3>2. QED
      BY <1>1, <1>2, <1>4, <2>2, <3>1 DEF Shape
  <2>4. \A u \in Threads : (RemPending(u)' <=> RemPending(u)) /\ ~Stored(u)' /\ ~Stored(u)
    BY <1>1, <1>2, <1>3, <2>1, ClosingAlone, StaysInPhaseKeeps DEF Stored, Closers
  <2>5. Totals'
    BY <1>1, <1>2, <2>1, <2>4, StaysInPhaseKeeps DEF Totals
  <2>6. Events'
    <3>1. \A i \in {0, 1} : signaled[i] => mem[Mark(i)]
      BY <1>1, <1>3, ClosingAlone DEF Events, Last, Closing, Closers
    <3>2. QED
      BY <1>1, <1>2, <2>1, <2>4, <3>1, StaysInPhaseKeeps DEF Events
  <2>7. QED
    BY <1>2, <2>1, <2>3, <2>5, <2>6, StaysInPhaseKeeps
<1>5. CASE ~buffered
  <2>1. /\ mem' = [mem EXCEPT !.total = 1]
        /\ \A u \in Threads : /\ Shape(u)' /\ RemPending(u)' = RemPending(u) /\ ~TotalPending(u)'
    BY <1>1, <1>5, StoreUnbuffered DEF RemPending
  <2>2. mem'.rem = mem.rem /\ mem' \in [rem : Remainders, total : Nat, mark0 : BOOLEAN, mark1 : BOOLEAN]
    BY <2>1 DEF Types
  <2>3. StaysInPhase(t)
    BY <1>1, <1>2, <2>1, <2>2 DEF StaysInPhase, StoreMoves, Within, Closers
  <2>4. Types'
    BY <1>1, <1>2, <1>5, <2>2 DEF Types, StoreMoves
  <2>5. Events' /\ Totals'
    BY <1>1, <1>2, <2>1, <2>3, TotalResetKeeps
  <2>6. QED
    BY <2>1, <2>3, <2>4, <2>5, StaysInPhaseKeeps
<1>6. QED
  BY <1>4, <1>5

LEMMA StoreRemKeeps ==
  ASSUME Inv, NEW t \in Threads, UNCHANGED buffered, StoreRem(t)
  PROVE  Inv'
<1> USE DEF Inv, Goto
<1> DEFINE e == RemEntry(t)
<1>1. /\ e \in Entries /\ e.field = "rem" /\ StoreMoves(t, e, "readWaiters") /\ pc[t] = "storeRem"
  <2>1. /\ e.field = "rem" /\ e.val = [sense |-> Flip(cur[t]), count |-> N] /\ e \in Entries
    <3>1. cur[t].sense \in {0, 1} /\ N \in Nat
      BY ThreadsFinite DEF Types, Remainders
    <3>2. [sense |-> Flip(cur[t]), count |-> N] \in Remainders
      BY <3>1 DEF Flip, Remainders
    <3>3. QED
      BY <3>2 DEF RemEntry, Entries
  <2>2. Store(t, e.field, e.val) => IF buffered THEN buf' = [buf EXCEPT ![t] = Append(@, e)] /\ mem' = mem
                                               ELSE mem' = [mem EXCEPT ![e.field] = e.val] /\ buf' = buf
    BY DEF Store, RemEntry
  <2>3. pc[t] = "storeRem" /\ seen[t] = N
    BY DEF StoreRem, Totals
  <2>4. QED
    BY <2>1, <2>2, <2>3 DEF StoreRem, StoreMoves
<1> HIDE DEF e
<1>2. /\ pc' \in [Threads -> Labels] /\ pc'[t] = "readWaiters" /\ \A u \in Threads : u # t => pc'[u] = pc[u]
      /\ \A u \in Threads : u # t => Shape(u)' /\ RemPending(u)' = RemPending(u) /\ TotalPending(u)' = TotalPending(u)
      /\ UNCHANGED <<signaled, seen, buffered, cur>>
  BY <1>1, StoreMovesFrame DEF StoreMoves
<1>3. Closing(t)
  BY <1>1 DEF Closing, Closers
<1>4. CASE buffered
  <2>1. Types' /\ StaysInPhase(t) /\ mem' = mem /\ RemPending(t)' /\ (TotalPending(t)' <=> TotalPending(t))
    BY <1>1, <1>4, StoreBuffered
  <2>2. \A i \in 1..Len(buf'[t]) : \/ buf'[t][i] = TotalEntry /\ Deletable /\ i = 1
                                   \/ buf'[t][i] = e /\ i = Len(buf'[t])
    <3>1. \A i \in 1..Len(buf[t]) : buf[t][i] = TotalEntry /\ Deletable /\ i = 1
      BY <1>1 DEF Shape, Waiting, Returning
    <3>2. QED
      BY <1>1, <1>4, <3>1, StoreBuffered
  <2>3. Shape(t)'
    <3>1. e' = e /\ TotalEntry' = TotalEntry
      BY <1>2 DEF e, RemEntry, TotalEntry
    <3>2. QED
      BY <1>2, <1>4, <2>1, <2>2, <3>1 DEF Shape, Returning, e
  <2>4. \A u \in Threads : (u # t => RemPending(u)' = RemPending(u)) /\ (Stored(u)' <=> Stored(u))
    <3>1. Stored(t)' <=> Stored(t)
      BY <1>1, <1>2, <1>3, <2>1 DEF Stored, Closing, Closers
    <3>2. \A u \in Threads : u # t => (Stored(u)' <=> Stored(u))
      BY <1>2 DEF Stored, Closing
    <3>3. QED
      BY <1>2, <3>1, <3>2
  <2>5. Totals'
    BY <1>1, <1>2, <2>1, <2>4, StaysInPhaseKeeps DEF Totals
  <2>6. Events'
    <3>1. \A i \in {0, 1} : signaled[i] => mem[Mark(i)]
      BY <1>1, <1>3, ClosingAlone DEF Events, Last, Closing, Closers
    <3>2. ~signaled[NextEv(t)]
      BY <1>1 DEF Events
    <3>3. QED
      BY <1>1, <1>2, <2>1, <2>4, <3>1, <3>2, StaysInPhaseKeeps DEF Events
  <2>7. QED
    BY <1>2, <2>1, <2>3, <2>5, <2>6, StaysInPhaseKeeps
<1>5. CASE ~buffered
  <2>1. /\ mem' = [mem EXCEPT !.rem = e.val]
        /\ \A u \in Threads : /\ Shape(u)' /\ RemPending(u)' = RemPending(u) /\ ~RemPending(u)' /\ ~TotalPending(u)
    BY <1>1, <1>5, StoreUnbuffered DEF RemPending
  <2>2. RemFlips(t)
    BY <1>1, <1>3, <2>1 DEF RemFlips, StoreMoves, e
  <2>3. Types'
    BY <1>1, <1>2, <1>5, <2>2, RemFlipsKeeps DEF Types, StoreMoves
  <2>4. QED
    BY <2>1, <2>2, <2>3, RemFlipsKeeps
<1>6. QED
  BY <1>4, <1>5

LEMMA DrainFrame ==
  ASSUME Inv, NEW t \in Threads, Drain(t)
  PROVE  LET e == buf[t][1] IN
         /\ mem' = [mem EXCEPT ![e.field] = e.val]
         /\ UNCHANGED <<signaled, buffered, pc, cur, seen, phase, wins>>
         /\ buf' \in [Threads -> Seq(Entries)]
         /\ \A u \in Threads : u # t => /\ Shape(u)' /\ RemPending(u)' = RemPending(u)
                                        /\ TotalPending(u)' = TotalPending(u)
         /\ Len(buf[t]) \in Nat \ {0} /\ Len(buf'[t]) = Len(buf[t]) - 1
         /\ \A i \in 1..Len(buf'[t]) : buf'[t][i] = buf[t][i + 1]
         /\ RemPending(t) <=> e.field = "rem" \/ RemPending(t)'
         /\ TotalPending(t) <=> e.field = "total" \/ TotalPending(t)'
<1> USE DEF Inv
<1>1. UNCHANGED <<signaled, buffered, pc, cur, seen, phase, wins>>
  BY DEF Drain
<1>2. /\ Len(buf[t]) \in Nat \ {0} /\ buf' \in [Threads -> Seq(Entries)]
      /\ Len(buf'[t]) = Len(buf[t]) - 1
      /\ \A i \in 1..Len(buf'[t]) : buf'[t][i] = buf[t][i + 1]
      /\ \A u \in Threads : u # t => /\ buf'[u] = buf[u]
                                     /\ RemPending(u)' <=> RemPending(u)
                                     /\ TotalPending(u)' <=> TotalPending(u)
      /\ mem' = [mem EXCEPT ![buf[t][1].field] = buf[t][1].val]
  BY Drained
<1>3. \A u \in Threads : u # t => RemPending(u)' = RemPending(u) /\ TotalPending(u)' = TotalPending(u)
  BY <1>2 DEF RemPending, TotalPending
<1>4. ASSUME NEW u \in Threads, u # t PROVE Shape(u)'
  BY <1>1, <1>2, <1>3, <1>4 DEF Shape, MarkEntry, RemEntry, TotalEntry, Ev, NextEv
<1>5. ASSUME NEW f
      PROVE  (\E i \in 1..Len(buf[t]) : buf[t][i].field = f) <=>
               buf[t][1].field = f \/ \E i \in 1..Len(buf'[t]) : buf'[t][i].field = f
  <2>1. ASSUME NEW i \in 1..Len(buf[t]), buf[t][i].field = f, i # 1
        PROVE  \E j \in 1..Len(buf'[t]) : buf'[t][j].field = f
    <3>1. i - 1 \in 1..Len(buf'[t]) /\ (i - 1) + 1 = i
      BY <1>2, <2>1
    <3>2. buf'[t][i - 1] = buf[t][i]
      BY <1>2, <3>1
    <3>3. QED
      BY <2>1, <3>1, <3>2
  <2>2. ASSUME NEW j \in 1..Len(buf'[t]), buf'[t][j].field = f
        PROVE  \E i \in 1..Len(buf[t]) : buf[t][i].field = f
    <3>1. j + 1 \in 1..Len(buf[t])
      BY <1>2
    <3>2. QED
      BY <1>2, <2>2, <3>1
  <2>3. 1 \in 1..Len(buf[t])
    BY <1>2
  <2>4. QED
    BY <2>1, <2>2, <2>3
<1>6. /\ RemPending(t) <=> buf[t][1].field = "rem" \/ RemPending(t)'
      /\ TotalPending(t) <=> buf[t][1].field = "total" \/ TotalPending(t)'
  BY <1>5 DEF RemPending, TotalPending
<1>7. QED
  BY <1>1, <1>2, <1>3, <1>4, <1>6

LEMMA DrainKeeps ==
  ASSUME Inv, NEW t \in Threads, Drain(t)
  PROVE  Inv'
<1> USE DEF Inv
<1> DEFINE e == buf[t][1]
<1> HIDE DEF e
<1>1. /\ mem' = [mem EXCEPT ![e.field] = e.val]
      /\ UNCHANGED <<signaled, buffered, pc, cur, seen, phase, wins>>
      /\ buf' \in [Threads -> Seq(Entries)]
      /\ \A u \in Threads : u # t => /\ Shape(u)' /\ RemPending(u)' = RemPending(u)
                                     /\ TotalPending(u)' = TotalPending(u)
      /\ Len(buf[t]) \in Nat \ {0} /\ Len(buf'[t]) = Len(buf[t]) - 1
      /\ \A i \in 1..Len(buf'[t]) : buf'[t][i] = buf[t][i + 1]
      /\ RemPending(t) <=> e.field = "rem" \/ RemPending(t)'
      /\ TotalPending(t) <=> e.field = "total" \/ TotalPending(t)'
  BY DrainFrame DEF e
<1>2. buffered /\ pc[t] \notin {"clearMark", "readTotal", "storeTotal"}
  BY <1>1 DEF Shape, Types
<1>3. \A u \in Threads : Ev(u)' = Ev(u) /\ NextEv(u)' = NextEv(u) /\ RemEntry(u)' = RemEntry(u)
  BY <1>1 DEF Ev, NextEv, RemEntry
<1>4. ASSUME NEW i \in 1..Len(buf'[t])
      PROVE  \/ buf'[t][i] = MarkEntry(Ev(t), TRUE) /\ pc[t] \in Waiting \cup {"out"}
             \/ buf'[t][i] = MarkEntry(NextEv(t), FALSE) /\ pc[t] = "resetEvent"
             \/ /\ buf'[t][i] = RemEntry(t) /\ i = Len(buf'[t])
                /\ pc[t] \in Returning \cup {"out"}
  <2>1. i + 1 \in 1..Len(buf[t]) /\ i + 1 # 1 /\ (i + 1 = Len(buf[t]) => i = Len(buf'[t]))
    BY <1>1
  <2>2. QED
    BY <1>1, <2>1 DEF Shape
<1>5. Shape(t)' /\ ~TotalPending(t)'
  <2>1. ~TotalPending(t)'
    BY <1>4 DEF TotalPending, MarkEntry, RemEntry, Mark
  <2>2. Shape(t)'
    BY <1>1, <1>2, <1>3, <1>4 DEF Shape, MarkEntry
  <2>3. QED
    BY <2>1, <2>2
<1>6. \A u \in Threads : Shape(u)'
  BY <1>1, <1>5
<1>7. \/ e = MarkEntry(Ev(t), TRUE) /\ pc[t] \in Waiting \cup {"out"}
      \/ e = MarkEntry(NextEv(t), FALSE) /\ pc[t] = "resetEvent"
      \/ e = TotalEntry /\ Deletable /\ (pc[t] = "storeRem" \/ RemPending(t))
      \/ e = RemEntry(t) /\ Len(buf[t]) = 1 /\ pc[t] \in Returning \cup {"out"}
  <2>1. 1 \in 1..Len(buf[t])
    BY <1>1
  <2>2. QED
    BY <2>1 DEF Shape, e
<1>8. CASE e = MarkEntry(Ev(t), TRUE) /\ pc[t] \in Waiting \cup {"out"}
  <2>1. e.field = Mark(Ev(t)) /\ e.field \notin {"rem", "total"} /\ e.val = TRUE
    BY <1>8 DEF MarkEntry, Mark
  <2>2. \A u \in Threads : RemPending(u)' = RemPending(u) /\ TotalPending(u)' = TotalPending(u)
    BY <1>1, <2>1 DEF RemPending, TotalPending
  <2>3. StaysInPhase(t)
    BY <1>1, <2>1, <2>2, MarkStored, EventIndices DEF StaysInPhase, Within
  <2>4. Types'
    BY <1>1, <2>1, MarkStored, EventIndices DEF Types
  <2>5. Events' /\ Totals'
    BY <1>1, <1>8, <2>1, <2>2, <2>3, MarkSetKeeps
  <2>6. QED
    BY <1>6, <2>3, <2>4, <2>5, StaysInPhaseKeeps
<1>9. CASE e = MarkEntry(NextEv(t), FALSE) /\ pc[t] = "resetEvent"
  <2>1. e.field = Mark(NextEv(t)) /\ e.field \notin {"rem", "total"} /\ e.val = FALSE
    BY <1>9 DEF MarkEntry, Mark
  <2>2. \A u \in Threads : RemPending(u)' = RemPending(u) /\ TotalPending(u)' = TotalPending(u)
    BY <1>1, <2>1 DEF RemPending, TotalPending
  <2>3. StaysInPhase(t)
    BY <1>1, <2>1, <2>2, MarkStored, EventIndices DEF StaysInPhase, Within
  <2>4. Types'
    BY <1>1, <2>1, MarkStored, EventIndices DEF Types
  <2>5. Events' /\ Totals'
    BY <1>1, <1>9, <2>1, <2>2, <2>3, MarkClearedKeeps
  <2>6. QED
    BY <1>6, <2>3, <2>4, <2>5, StaysInPhaseKeeps
<1>10. CASE e = TotalEntry /\ Deletable /\ (pc[t] = "storeRem" \/ RemPending(t))
  <2>1. e.field = "total" /\ e.val = 1 /\ mem' = [mem EXCEPT !.total = 1]
    BY <1>1, <1>10 DEF TotalEntry
  <2>2. \A u \in Threads : RemPending(u)' = RemPending(u)
    BY <1>1, <2>1 DEF RemPending
  <2>3. mem'.rem = mem.rem /\ mem' \in [rem : Remainders, total : Nat, mark0 : BOOLEAN, mark1 : BOOLEAN]
    BY <2>1 DEF Types
  <2>4. StaysInPhase(t)
    BY <1>1, <2>2, <2>3 DEF StaysInPhase, Within
  <2>5. Types'
    BY <1>1, <2>3 DEF Types
  <2>6. pc[t] = "storeRem" \/ (pc[t] \notin Closers /\ RemPending(t))
    <3>1. RemPending(t) => pc[t] \in Returning \cup {"out"}
      <4>1. ASSUME NEW i \in 1..Len(buf[t]), buf[t][i].field = "rem" PROVE pc[t] \in Returning \cup {"out"}
        <5>1. /\ MarkEntry(Ev(t), TRUE).field # "rem" /\ MarkEntry(NextEv(t), FALSE).field # "rem"
              /\ TotalEntry.field # "rem"
          BY DEF MarkEntry, Mark, TotalEntry
        <5>2. buf[t][i] # MarkEntry(Ev(t), TRUE) /\ buf[t][i] # MarkEntry(NextEv(t), FALSE) /\ buf[t][i] # TotalEntry
          BY <4>1, <5>1
        <5>3. QED
          BY <5>2 DEF Shape
      <4>2. QED
        BY <4>1 DEF RemPending
    <3>2. QED
      BY <1>10, <3>1 DEF Closers, Returning
  <2>7. Events' /\ Totals'
    BY <1>1, <1>5, <1>10, <2>1, <2>4, <2>6, TotalResetKeeps
  <2>8. QED
    BY <1>6, <2>4, <2>5, <2>7, StaysInPhaseKeeps
<1>11. CASE e = RemEntry(t) /\ Len(buf[t]) = 1 /\ pc[t] \in Returning \cup {"out"}
  <2>1. e.field = "rem" /\ mem' = [mem EXCEPT !.rem = RemEntry(t).val]
    BY <1>1, <1>11 DEF RemEntry
  <2>2. RemPending(t) /\ ~RemPending(t)' /\ ~TotalPending(t)
    <3>1. ~RemPending(t)'
      BY <1>1, <1>11 DEF RemPending
    <3>2. QED
      BY <1>1, <1>5, <2>1, <3>1
  <2>3. RemFlips(t)
    BY <1>1, <1>11, <2>1, <2>2 DEF RemFlips, Closing
  <2>4. Types'
    BY <1>1, <2>3, RemFlipsKeeps DEF Types
  <2>5. QED
    BY <1>6, <2>3, <2>4, RemFlipsKeeps
<1>12. QED
  BY <1>7, <1>8, <1>9, <1>10, <1>11

LEMMA InvNext == Inv /\ [Next]_vars => Inv'
<1> SUFFICES ASSUME Inv, [Next]_vars PROVE Inv'
  OBVIOUS
<1>1. CASE UNCHANGED vars
  BY <1>1, UnchangedKeeps DEF vars
<1>2. ASSUME NEW t \in Threads, Enter(t) PROVE Inv'
  BY <1>2, EnterKeeps DEF Enter
<1>3. ASSUME NEW t \in Threads, Step(t) PROVE Inv'
  <2>1. CASE ClearMark(t)
    BY <1>3, <2>1, CloserStepKeeps, ClearMarkKeeps DEF Step
  <2>2. CASE ResetNextEvent(t) \/ ReadTotal(t)
    BY <1>3, <2>2, CloserStepKeeps DEF Step
  <2>3. CASE StoreTotal(t) \/ StoreRem(t)
    BY <1>3, <2>3, StoreTotalKeeps, StoreRemKeeps DEF Step
  <2>4. CASE ReadWaiters(t) \/ WakeWaiters(t)
    BY <1>3, <2>4, ReturnKeeps DEF Step
  <2>5. CASE SpinSeesFlip(t) \/ SpinGivesUp(t) \/ ReadMark(t) \/ CheckSense(t) \/ WaitForEvent(t)
    BY <1>3, <2>5, WaiterStepKeeps DEF Step
  <2>6. CASE StoreMark(t) \/ Leave(t)
    BY <1>3, <2>6, StoreMarkKeeps, LeaveKeeps DEF Step
  <2>7. QED
    BY <1>3, <2>1, <2>2, <2>3, <2>4, <2>5, <2>6 DEF Step
<1>4. ASSUME NEW t \in Threads, Drain(t) PROVE Inv'
  BY <1>4, DrainKeeps
<1>5. ASSUME NEW t \in Threads, Delete(t) PROVE Inv'
  BY <1>5, UnchangedKeeps DEF Delete
<1>6. CASE Finished
  BY <1>1, <1>6 DEF Finished
<1>7. QED
  BY <1>1, <1>2, <1>3, <1>4, <1>5, <1>6 DEF Next
-----------------------------------------------------------------------------
(* The waiters of the phase before: on a machine without store buffers     *)
(* their event is marked, and signaled as soon as their last thread has    *)
(* returned; none is left once the barrier is deleted.                     *)
MarkedAndSignaled ==
  \A t \in Threads :
    /\ pc[t] \in {"checkSense", "wait"} => mem[Mark(Ev(t))]
    /\ pc[t] = "wait" /\ ~Current(t) =>
         signaled[Ev(t)] \/ \E u \in Threads : pc[u] \in Returning /\ phase[u] = phase[t]

Waiters ==
  /\ ~buffered => MarkedAndSignaled
  /\ deleted => \A t \in Threads : phase[t] = Phases /\ pc[t] \notin Waiting

(* An empty buffer on a machine without them.                              *)
LEMMA Ordered ==
  ASSUME Inv, ~buffered, NEW t \in Threads
  PROVE  /\ \A f : Load(t, f) = mem[f]
         /\ buf[t] = <<>> /\ ~RemPending(t) /\ ~TotalPending(t)
<1>1. Len(buf[t]) = 0
  BY DEF Inv, Shape
<1>2. buf[t] = <<>>
  BY <1>1, EmptySeq DEF Inv, Types
<1>3. QED
  BY <1>1, <1>2, LoadsMemory DEF Inv, RemPending, TotalPending

(* The thread that deletes the barrier may still have its own stores in    *)
(* its buffer.                                                             *)
LEMMA OwnStores ==
  ASSUME Inv, NEW t \in Threads, RemPending(t)
  PROVE  /\ pc[t] \in Returning \cup {"out"} /\ Load(t, "rem") = RemEntry(t).val
         /\ TotalPending(t) => Load(t, "total") = 1
<1> USE DEF Inv
<1>1. /\ \A i \in 1..Len(buf[t]) : buf[t][i].field = "rem" => /\ buf[t][i] = RemEntry(t) /\ i = Len(buf[t])
                                                             /\ pc[t] \in Returning \cup {"out"}
      /\ \A i \in 1..Len(buf[t]) : buf[t][i].field = "total" => buf[t][i] = TotalEntry /\ i = 1
  <2>1. /\ MarkEntry(Ev(t), TRUE).field \notin {"rem", "total"}
        /\ MarkEntry(NextEv(t), FALSE).field \notin {"rem", "total"}
        /\ TotalEntry.field = "total" /\ RemEntry(t).field = "rem"
    BY DEF MarkEntry, Mark, TotalEntry, RemEntry
  <2>2. QED
    BY <2>1 DEF Shape
<1>2. DOMAIN buf[t] = 1..Len(buf[t]) /\ Len(buf[t]) \in Nat
  BY LenProperties DEF Types
<1>3. Pending(t, "rem") = {Len(buf[t])} /\ Len(buf[t]) \in 1..Len(buf[t])
  BY <1>1, <1>2 DEF Pending, RemPending
<1>4. Load(t, "rem") = RemEntry(t).val
  <2>1. (CHOOSE i \in Pending(t, "rem") : \A j \in Pending(t, "rem") : j <= i) = Len(buf[t])
    BY <1>2, <1>3
  <2>2. buf[t][Len(buf[t])] = RemEntry(t)
    BY <1>1, <1>3 DEF Pending
  <2>3. QED
    BY <1>3, <2>1, <2>2 DEF Load
<1>5. ASSUME TotalPending(t) PROVE Load(t, "total") = 1
  <2>1. Pending(t, "total") = {1} /\ buf[t][1] = TotalEntry
    BY <1>1, <1>2, <1>5 DEF Pending, TotalPending
  <2>2. (CHOOSE i \in Pending(t, "total") : \A j \in Pending(t, "total") : j <= i) = 1
    BY <2>1
  <2>3. QED
    BY <2>1, <2>2 DEF Load, TotalEntry
<1>6. QED
  BY <1>1, <1>4, <1>5 DEF RemPending

LEMMA DeletesAlone ==
  ASSUME Inv, NEW t \in Threads, Delete(t)
  PROVE  \A u \in Threads : phase[u] = Phases /\ pc[u] \notin Waiting
<1> USE DEF Inv
<1>1. /\ Deletable /\ pc[t] = "out" /\ Load(t, "total") = Load(t, "rem").count
      /\ \A u \in Threads : phase[u] = Phases
  BY DEF Delete
<1>2. Phases \in Nat
  BY BarrierAssumption
<1>3. \A u \in Threads : Current(u) <=> Current(t)
  BY <1>1, <1>2 DEF PhasesAgree
<1>4. CASE Current(t)
  <2>1. RemPending(t) /\ Closing(t)
    BY <1>1, <1>4 DEF Roles, Closing
  <2>2. Load(t, "rem").count = N /\ (TotalPending(t) => Load(t, "total") = 1)
    BY <2>1, OwnStores DEF RemEntry
  <2>3. ~TotalPending(t) => Load(t, "total") = 1
    <3>1. ~TotalPending(t) => Load(t, "total") = mem.total
      BY LoadsMemory DEF TotalPending
    <3>2. ~TotalPending(t) => Stored(t)
      BY <1>1, <2>1 DEF Stored, Closers
    <3>3. QED
      BY <1>1, <3>1, <3>2 DEF Totals
  <2>4. Cardinality(Threads) = 1
    BY <1>1, <2>2, <2>3 DEF N
  <2>5. Cardinality(Threads \ {t}) = 0 /\ IsFiniteSet(Threads \ {t})
    BY <2>4, ThreadsFinite
  <2>6. Threads = {t}
    BY <2>5, FS_EmptySet
  <2>7. QED
    BY <1>1, <2>6 DEF Waiting
<1>5. CASE ~Current(t)
  <2>1. \A u \in Threads : ~Closing(u) /\ ~RemPending(u) /\ ~Stored(u)
    BY <1>5 DEF Roles, Closing, Stored
  <2>2. \A i \in 1..Len(buf[t]) : buf[t][i].field \notin {"rem", "total"}
    <3>1. ~(\E i \in 1..Len(buf[t]) : buf[t][i].field = "rem")
      BY <2>1 DEF RemPending
    <3>2. /\ MarkEntry(Ev(t), TRUE).field # "total" /\ MarkEntry(NextEv(t), FALSE).field # "total"
          /\ RemEntry(t).field # "total"
      BY DEF MarkEntry, Mark, RemEntry
    <3>3. ~(\E i \in 1..Len(buf[t]) : buf[t][i].field = "total")
      BY <1>1, <2>1, <3>2 DEF Shape
    <3>4. QED
      BY <3>1, <3>3
  <2>3. Load(t, "rem") = mem.rem /\ Load(t, "total") = mem.total
    BY <2>2, LoadsMemory
  <2>4. Absent = Threads
    BY <1>3, <1>5 DEF Absent
  <2>5. mem.total = N
    BY <1>1, <2>3, <2>4 DEF Counted, N
  <2>6. Staying \in SUBSET Threads /\ IsFiniteSet(Staying) /\ Cardinality(Staying) \in Nat
    BY ThreadsFinite DEF Staying
  <2>7. Cardinality(Staying) = 0
    BY <1>1, <2>1, <2>5, <2>6, ThreadsFinite DEF Totals
  <2>8. Staying = {}
    BY <2>6, <2>7, FS_EmptySet
  <2>9. QED
    BY <1>1, <1>3, <1>5, <2>8 DEF Staying
<1>6. QED
  BY <1>4, <1>5

LEMMA NobodyLeftBehind ==
  ASSUME Inv, Waiters, NEW t \in Threads, Enter(t) \/ Step(t) \/ Drain(t), deleted'
  PROVE  \A u \in Threads : phase'[u] = Phases /\ pc'[u] \notin Waiting
<1>1. deleted /\ \A u \in Threads : phase[u] = Phases /\ pc[u] \notin Waiting
  BY DEF Waiters, Enter, Step, Drain, ClearMark, ResetNextEvent, ReadTotal, StoreTotal, StoreRem,
     ReadWaiters, WakeWaiters, SpinSeesFlip, SpinGivesUp, ReadMark, StoreMark, CheckSense,
     WaitForEvent, Leave
<1>2. ~Enter(t)
  BY <1>1, BarrierAssumption DEF Enter
<1>3. phase' = phase /\ (pc' = pc \/ \E l \in Labels \ Waiting : pc' = [pc EXCEPT ![t] = l])
  <2>1. CASE Drain(t)
    BY <2>1 DEF Drain
  <2>2. CASE Step(t)
    <3>1. phase' = phase
      BY <2>2 DEF Step, ClearMark, ResetNextEvent, ReadTotal, StoreTotal, StoreRem,
         ReadWaiters, WakeWaiters, SpinSeesFlip, SpinGivesUp, ReadMark, StoreMark, CheckSense,
         WaitForEvent, Leave
    <3>2. ~(SpinSeesFlip(t) \/ SpinGivesUp(t) \/ ReadMark(t) \/ StoreMark(t) \/ CheckSense(t)
            \/ WaitForEvent(t) \/ Leave(t))
      BY <1>1 DEF SpinSeesFlip, SpinGivesUp, ReadMark, StoreMark, CheckSense, WaitForEvent, Leave,
         Waiting
    <3>3. \E l \in {"resetEvent", "readTotal", "storeTotal", "storeRem", "readWaiters", "setEvent", "out"} : Goto(t, l)
      BY <2>2, <3>2 DEF Step, ClearMark, ResetNextEvent, ReadTotal, StoreTotal, StoreRem,
         ReadWaiters, WakeWaiters, Goto
    <3>4. QED
      BY <3>1, <3>3 DEF Goto, Labels, Waiting, Closers, Returning
  <2>3. QED
    BY <1>2, <2>1, <2>2
<1>4. QED
  BY <1>1, <1>3 DEF Inv, Types

(* The steps that leave the counts, the sense and the marks alone.         *)
MarksStay(t) ==
  /\ mem'.rem.sense = mem.rem.sense
  /\ \A i \in {0, 1} : mem'[Mark(i)] = mem[Mark(i)]
  /\ UNCHANGED <<buffered, cur, phase>>
  /\ \A u \in Threads \ {t} : pc'[u] = pc[u]

LEMMA MarksStayKeeps ==
  ASSUME Inv, NEW t \in Threads, MarksStay(t), MarkedAndSignaled,
         pc'[t] \in {"checkSense", "wait"} => mem[Mark(Ev(t))],
         pc'[t] = "wait" => Current(t),
         \/ \A i \in {0, 1} : signaled[i] => signaled'[i]
         \/ \A u \in Threads : Current(u),
         pc[t] \in Returning /\ pc'[t] \notin Returning =>
           \A u \in Threads : pc[u] = "wait" /\ phase[u] = phase[t] /\ ~Current(u) => signaled'[Ev(u)]
  PROVE  MarkedAndSignaled'
<1>1. \A u \in Threads : Current(u)' = Current(u) /\ Ev(u)' = Ev(u) /\ phase'[u] = phase[u]
  BY DEF MarksStay, Current, Ev
<1>2. ASSUME NEW u \in Threads, pc'[u] \in {"checkSense", "wait"}
      PROVE  mem'[Mark(Ev(u)')]
  <2>1. mem[Mark(Ev(u))]
    BY <1>2 DEF MarkedAndSignaled, MarksStay
  <2>2. QED
    BY <1>1, <2>1, EventIndices DEF MarksStay
<1>3. ASSUME NEW u \in Threads, pc'[u] = "wait", ~Current(u)'
      PROVE  signaled'[Ev(u)'] \/ \E v \in Threads : pc'[v] \in Returning /\ phase'[v] = phase'[u]
  <2>1. pc[u] = "wait" /\ ~Current(u)
    BY <1>1, <1>3 DEF MarksStay
  <2>2. CASE signaled[Ev(u)]
    BY <1>1, <2>1, <2>2, EventIndices
  <2>3. ASSUME NEW v \in Threads, pc[v] \in Returning, phase[v] = phase[u]
        PROVE  signaled'[Ev(u)'] \/ (pc'[v] \in Returning /\ phase'[v] = phase'[u])
    <3>1. CASE v = t
      BY <1>1, <2>1, <2>3, <3>1
    <3>2. CASE v # t
      BY <1>1, <2>3, <3>2 DEF MarksStay
    <3>3. QED
      BY <3>1, <3>2
  <2>4. QED
    BY <2>1, <2>2, <2>3 DEF MarkedAndSignaled
<1>4. QED
  BY <1>2, <1>3 DEF MarkedAndSignaled

LEMMA OrderedStepKeeps ==
  ASSUME Inv, ~buffered, MarkedAndSignaled, NEW t \in Threads, Enter(t) \/ Step(t)
  PROVE  MarkedAndSignaled'
<1> USE DEF Inv, Goto
<1>0. buffered' = buffered
  BY DEF Enter, Step
<1>1. /\ \A f : Load(t, f) = mem[f]
      /\ \A u \in Threads : ~RemPending(u)
      /\ mem \in [rem : Remainders, total : Nat, mark0 : BOOLEAN, mark1 : BOOLEAN]
  BY Ordered DEF Types
<1>2. \A u \in Threads : pc[u] \in Returning => ~Current(u)
  BY <1>1 DEF Roles
<1>3. \A u, v \in Threads : pc[u] # "out" /\ pc[v] # "out" /\ ~Current(u) /\ ~Current(v) => Ev(u) = Ev(v)
  BY DEF Roles, Current, Ev, EventIndex, Types, Remainders
<1>4. CASE Enter(t)
  <2>1. /\ mem'.rem.sense = mem.rem.sense /\ \A i \in {0, 1} : mem'[Mark(i)] = mem[Mark(i)]
        /\ \A u \in Threads \ {t} : pc'[u] = pc[u] /\ cur'[u] = cur[u] /\ phase'[u] = phase[u]
        /\ pc'[t] \in {"clearMark", "readMark", "spin"} /\ pc[t] = "out" /\ UNCHANGED signaled
    <3>1. /\ mem' = [mem EXCEPT !.rem = [mem.rem EXCEPT !.count = @ - 1]]
          /\ pc[t] = "out" /\ UNCHANGED signaled
      BY <1>4 DEF Enter
    <3>2. mem'.rem = [mem.rem EXCEPT !.count = @ - 1] /\ mem'.mark0 = mem.mark0 /\ mem'.mark1 = mem.mark1
      BY <1>1, <3>1
    <3>3. mem'.rem.sense = mem.rem.sense
      BY <1>1, <3>2 DEF Remainders
    <3>4. /\ \A u \in Threads \ {t} : pc'[u] = pc[u] /\ cur'[u] = cur[u] /\ phase'[u] = phase[u]
          /\ pc'[t] \in {"clearMark", "readMark", "spin"}
      BY <1>4 DEF Enter, Types
    <3>5. QED
      BY <3>1, <3>2, <3>3, <3>4 DEF Mark
  <2>2. \A u \in Threads \ {t} : Current(u)' = Current(u) /\ Ev(u)' = Ev(u)
    BY <2>1 DEF Current, Ev
  <2>3. \A u \in Threads : pc'[u] \in {"checkSense", "wait"} => u # t
    BY <2>1
  <2>4. \A u \in Threads : pc[u] \in Returning => u # t
    BY <2>1 DEF Returning
  <2>5. QED
    BY <2>1, <2>2, <2>3, <2>4, EventIndices DEF MarkedAndSignaled
<1>5. CASE ResetNextEvent(t) \/ ReadTotal(t) \/ (ClearMark(t) /\ ~Load(t, Mark(NextEv(t))))
  <2>1. MarksStay(t) /\ pc'[t] \in {"readTotal", "storeTotal", "storeRem"} /\ pc[t] \in Closers
    BY <1>0, <1>5 DEF ResetNextEvent, ReadTotal, ClearMark, MarksStay, Types, Closers, NextEv, Ev
  <2>2. \A u \in Threads : Current(u)
    BY <2>1, ClosingAlone DEF Closing
  <2>3. QED
    BY <2>1, <2>2, MarksStayKeeps DEF Closers, Returning
<1>6. CASE SpinSeesFlip(t) \/ SpinGivesUp(t) \/ ReadMark(t) \/ CheckSense(t) \/ WaitForEvent(t)
  <2>1. MarksStay(t) /\ UNCHANGED signaled /\ pc[t] \in Waiting /\ pc'[t] \in Waiting
    BY <1>0, <1>6 DEF SpinSeesFlip, SpinGivesUp, ReadMark, CheckSense, WaitForEvent, MarksStay, Types, Waiting
  <2>2. pc'[t] \in {"checkSense", "wait"} => mem[Mark(Ev(t))]
    BY <1>1, <1>6 DEF SpinSeesFlip, SpinGivesUp, ReadMark, CheckSense, WaitForEvent, Types, Ev, MarkedAndSignaled
  <2>3. pc'[t] = "wait" => Current(t)
    BY <1>1, <1>6 DEF SpinSeesFlip, SpinGivesUp, ReadMark, CheckSense, WaitForEvent, Types, Released, Current, Roles
  <2>4. QED
    BY <2>1, <2>2, <2>3, MarksStayKeeps DEF Waiting, Returning
<1>7. CASE ReadWaiters(t) \/ WakeWaiters(t)
  <2>1. MarksStay(t) /\ pc[t] \in Returning /\ pc'[t] \in {"setEvent", "out"}
    BY <1>0, <1>7 DEF ReadWaiters, WakeWaiters, MarksStay, Types, Returning
  <2>2. \A i \in {0, 1} : signaled[i] => signaled'[i]
    BY <1>7 DEF ReadWaiters, WakeWaiters, Types
  <2>3. ASSUME pc'[t] \notin Returning, NEW u \in Threads, pc[u] = "wait", phase[u] = phase[t], ~Current(u)
        PROVE  signaled'[Ev(u)]
    <3>1. Ev(u) = Ev(t) /\ mem[Mark(Ev(u))]
      BY <1>2, <1>3, <2>1, <2>3 DEF MarkedAndSignaled, Returning
    <3>2. WakeWaiters(t)
      BY <1>1, <1>7, <2>3, <3>1 DEF ReadWaiters, Types, Returning, Ev
    <3>3. signaled' = [signaled EXCEPT ![Ev(t)] = TRUE]
      BY <3>2 DEF WakeWaiters, Ev
    <3>4. QED
      BY <3>1, <3>3, EventIndices DEF Types
  <2>4. QED
    BY <2>1, <2>2, <2>3, MarksStayKeeps
<1>8. CASE Leave(t) \/ StoreTotal(t)
  <2>1. mem' = [mem EXCEPT !.total = mem'.total]
    BY <1>1, <1>8 DEF Leave, StoreTotal, Store
  <2>2. MarksStay(t)
    BY <1>0, <1>8, <2>1 DEF Leave, StoreTotal, MarksStay, Types, Mark
  <2>3. /\ pc'[t] \in {"out", "storeRem"} /\ UNCHANGED signaled /\ pc[t] \notin Returning
    BY <1>8 DEF Leave, StoreTotal, Types, Returning
  <2>4. QED
    BY <2>2, <2>3, MarksStayKeeps
<1>9. CASE StoreMark(t)
  <2>1. /\ mem' = [mem EXCEPT ![Mark(Ev(t))] = TRUE] /\ UNCHANGED <<signaled, cur, phase>>
        /\ pc[t] = "storeMark" /\ pc'[t] = "checkSense" /\ \A u \in Threads \ {t} : pc'[u] = pc[u]
    BY <1>9 DEF StoreMark, Store, Types, Ev
  <2>2. /\ mem'.rem = mem.rem /\ mem'[Mark(Ev(t))] = TRUE
        /\ \A i \in {0, 1} : mem[Mark(i)] => mem'[Mark(i)]
    BY <2>1, MarkStored, EventIndices
  <2>3. \A u \in Threads : Current(u)' = Current(u) /\ Ev(u)' = Ev(u) /\ phase'[u] = phase[u]
    BY <2>1, <2>2 DEF Current, Ev
  <2>4. \A u \in Threads : pc[u] \in Returning => u # t
    BY <2>1 DEF Returning
  <2>5. QED
    BY <2>1, <2>2, <2>3, <2>4, EventIndices DEF MarkedAndSignaled
<1>10. CASE ClearMark(t) /\ Load(t, Mark(NextEv(t)))
  <2>1. /\ mem' = [mem EXCEPT ![Mark(NextEv(t))] = FALSE] /\ UNCHANGED <<signaled, cur, phase>>
        /\ pc[t] = "clearMark" /\ pc'[t] = "resetEvent" /\ \A u \in Threads \ {t} : pc'[u] = pc[u]
    BY <1>10 DEF ClearMark, Store, Types, Ev, NextEv
  <2>2. mem'.rem = mem.rem /\ \A i \in {0, 1} : i # NextEv(t) => mem'[Mark(i)] = mem[Mark(i)]
    BY <2>1, MarkStored, EventIndices
  <2>3. \A u \in Threads : Current(u) /\ Current(u)' /\ Ev(u)' = Ev(u) /\ Ev(u) = Ev(t)
    <3>1. \A u \in Threads : Current(u)
      BY <2>1, ClosingAlone DEF Closing, Closers
    <3>2. QED
      BY <2>1, <2>2, <3>1 DEF Current, Ev, EventIndex
  <2>4. QED
    BY <2>1, <2>2, <2>3, EventIndices DEF MarkedAndSignaled
<1>11. CASE StoreRem(t)
  <2>1. /\ mem' = [mem EXCEPT !.rem = mem'.rem] /\ UNCHANGED <<signaled, cur, phase>>
        /\ pc[t] = "storeRem" /\ pc'[t] = "readWaiters" /\ \A u \in Threads \ {t} : pc'[u] = pc[u]
    BY <1>1, <1>11 DEF StoreRem, Store, Types
  <2>2. mem'.mark0 = mem.mark0 /\ mem'.mark1 = mem.mark1 /\ \A u \in Threads : Ev(u)' = Ev(u)
    BY <1>1, <2>1 DEF Ev
  <2>3. \A u \in Threads : phase'[u] = phase'[t]
    BY <2>1, ClosingAlone DEF Closing, Closers, PhasesAgree
  <2>4. pc'[t] \in Returning
    BY <2>1 DEF Returning
  <2>5. QED
    BY <2>1, <2>2, <2>3, <2>4 DEF MarkedAndSignaled, Mark
<1>12. QED
  BY <1>4, <1>5, <1>6, <1>7, <1>8, <1>9, <1>10, <1>11 DEF Step

LEMMA WaitersNext == Inv /\ Waiters /\ [Next]_vars => Waiters'
<1> SUFFICES ASSUME Inv, Waiters, [Next]_vars PROVE Waiters'
  OBVIOUS
<1>1. CASE UNCHANGED <<mem, signaled, buffered, buf, pc, cur, seen, phase, wins>>
  <2>1. \A t \in Threads : Current(t)' = Current(t) /\ Ev(t)' = Ev(t)
    BY <1>1 DEF Current, Ev
  <2>2. MarkedAndSignaled' <=> MarkedAndSignaled
    BY <1>1, <2>1 DEF MarkedAndSignaled, Mark
  <2>3. deleted' => \A t \in Threads : phase[t] = Phases /\ pc[t] \notin Waiting
    BY DeletesAlone DEF Waiters, Next, Enter, Step, Drain, Finished, vars, ClearMark, ResetNextEvent,
       ReadTotal, StoreTotal, StoreRem, ReadWaiters, WakeWaiters, SpinSeesFlip, SpinGivesUp,
       ReadMark, StoreMark, CheckSense, WaitForEvent, Leave
  <2>4. QED
    BY <1>1, <2>2, <2>3 DEF Waiters
<1>2. ASSUME NEW t \in Threads, Enter(t) \/ Step(t) \/ Drain(t) PROVE Waiters'
  <2>1. buffered' = buffered
    BY <1>2 DEF Enter, Step, Drain
  <2>2. ~buffered => Enter(t) \/ Step(t)
    BY <1>2, Ordered DEF Drain
  <2>3. ~buffered => MarkedAndSignaled'
    BY <2>2, OrderedStepKeeps DEF Waiters
  <2>4. QED
    BY <1>2, <2>1, <2>3, NobodyLeftBehind DEF Waiters
<1>3. QED
  BY <1>1, <1>2 DEF Next, Delete, Finished, vars
-----------------------------------------------------------------------------
(* The refinement: a step either enters, or returns, or stutters.          *)
left == [t \in Threads |-> IF pc[t] = "out" THEN phase[t] ELSE phase[t] - 1]

LEMMA RefinesInit == Init => Promise!Init
  BY DEF Init, Promise!Init

(* A thread that returns leaves no thread behind in an earlier phase.      *)
LEMMA ReturnRefines ==
  ASSUME Inv, NEW t \in Threads, pc[t] # "out", pc[t] \notin Closers,
         ~Current(t) \/ RemPending(t),
         pc' = [pc EXCEPT ![t] = "out"], phase' = phase
  PROVE  Promise!Leave(t)
<1> USE DEF Inv
<1>1. left[t] = phase[t] - 1 /\ left[t] < phase[t]
  BY DEF left, Types
<1>2. \A u \in Threads : phase[u] >= phase[t]
  <2>1. CASE RemPending(t)
    BY <2>1, ClosingAlone DEF Closing, PhasesAgree, Types
  <2>2. CASE ~Current(t)
    BY <2>2 DEF PhasesAgree, Types
  <2>3. QED
    BY <2>1, <2>2
<1>3. left' = [left EXCEPT ![t] = @ + 1]
  <2>1. left[t] + 1 = phase[t]
    BY <1>1 DEF Types
  <2>2. pc'[t] = "out" /\ \A u \in Threads \ {t} : pc'[u] = pc[u]
    BY DEF Types
  <2>3. \A u \in Threads : (IF pc'[u] = "out" THEN phase'[u] ELSE phase'[u] - 1) = [left EXCEPT ![t] = @ + 1][u]
    BY <2>1, <2>2 DEF left
  <2>4. QED
    BY <2>3 DEF left
<1>4. QED
  BY <1>1, <1>2, <1>3 DEF Promise!Leave, left

LEMMA MovesStutter ==
  ASSUME Types, UNCHANGED <<phase, wins>>,
         \/ pc' = pc
         \/ \E t \in Threads, l \in Labels \ {"out"} : pc[t] # "out" /\ pc' = [pc EXCEPT ![t] = l]
  PROVE  UNCHANGED Promise!vars
<1>1. left' = left
  BY DEF left, Types
<1>2. QED
  BY <1>1 DEF Promise!vars, left

LEMMA RefinesNext == Inv /\ [Next]_vars => [Promise!Next]_(Promise!vars)
<1> SUFFICES ASSUME Inv, [Next]_vars PROVE [Promise!Next]_(Promise!vars)
  OBVIOUS
<1> USE DEF Inv
<1>1. CASE UNCHANGED <<pc, phase, wins>>
  BY <1>1, MovesStutter
<1>2. ASSUME NEW t \in Threads, Enter(t) PROVE Promise!Next
  <2>1. /\ pc[t] = "out" /\ wins' = wins /\ phase' = [phase EXCEPT ![t] = @ + 1]
        /\ \E l \in Labels \ {"out"} : pc' = [pc EXCEPT ![t] = l]
    <3>1. \E l \in {"clearMark", "readMark", "spin"} : pc' = [pc EXCEPT ![t] = l]
      BY <1>2 DEF Enter, Goto
    <3>2. {"clearMark", "readMark", "spin"} \subseteq Labels \ {"out"}
      BY DEF Labels, Closers, Waiting
    <3>3. QED
      BY <1>2, <3>1, <3>2 DEF Enter
  <2>2. left' = left /\ left[t] = phase[t]
    BY <2>1 DEF left, Types
  <2>3. Promise!Enter(t)
    BY <2>1, <2>2 DEF Promise!Enter, left
  <2>4. QED
    BY <2>3 DEF Promise!Next
<1>3. ASSUME NEW t \in Threads, Step(t) PROVE [Promise!Next]_(Promise!vars)
  <2>1. CASE ReadWaiters(t) \/ WakeWaiters(t)
    <3>1. phase' = phase /\ pc[t] \in Returning
      BY <2>1 DEF ReadWaiters, WakeWaiters, Returning
    <3>2. CASE pc' = [pc EXCEPT ![t] = "out"] /\ wins' = wins + 1
      <4>1. wins + 1 = phase[t] /\ wins \in Nat /\ (~Current(t) \/ RemPending(t))
        BY <3>1 DEF Winners, Roles, Types
      <4>2. Promise!Leave(t)
        BY <3>1, <3>2, <4>1, ReturnRefines DEF Returning, Closers
      <4>3. wins = phase[t] - 1 /\ wins' = phase[t]
        BY <3>2, <4>1
      <4>4. QED
        BY <4>2, <4>3 DEF Promise!ReturnTrue, Promise!Next
    <3>3. CASE pc' = [pc EXCEPT ![t] = "setEvent"] /\ wins' = wins
      BY <3>1, <3>3, MovesStutter DEF Labels, Returning
    <3>4. QED
      BY <2>1, <3>2, <3>3 DEF ReadWaiters, WakeWaiters, Goto
  <2>2. CASE Leave(t)
    <3>1. /\ pc[t] = "leave" /\ pc' = [pc EXCEPT ![t] = "out"] /\ UNCHANGED <<phase, wins>>
      BY <2>2 DEF Leave, Goto
    <3>2. ~Current(t) /\ \A u \in Threads : ~Closing(u)
      <4>1. ~RemPending(t)
        BY <3>1, WaitersStoreMarks DEF Waiting
      <4>2. QED
        BY <3>1, <4>1 DEF Roles
    <3>3. Promise!Leave(t)
      BY <3>1, <3>2, ReturnRefines DEF Closers
    <3>4. wins = phase[t] \/ \E u \in Threads \ {t} : left[u] = left[t]
      <4>1. CASE \A u \in Threads : ~Last(u)
        BY <3>2, <4>1 DEF Winners
      <4>2. ASSUME NEW u \in Threads, Last(u) PROVE u # t /\ left[u] = left[t]
        <5>1. pc[u] \in Returning /\ ~Current(u)
          BY <3>2, <4>2 DEF Last, Roles, Closing
        <5>2. phase[u] = phase[t]
          BY <3>2, <5>1 DEF PhasesAgree
        <5>3. QED
          BY <3>1, <5>1, <5>2 DEF left, Returning
      <4>3. QED
        BY <4>1, <4>2
    <3>5. QED
      BY <3>1, <3>3, <3>4 DEF Promise!ReturnFalse, Promise!Next, left
  <2>3. CASE ~ReadWaiters(t) /\ ~WakeWaiters(t) /\ ~Leave(t)
    <3>1. UNCHANGED <<phase, wins>> /\ pc[t] # "out"
      BY <1>3, <2>3 DEF Step, ClearMark, ResetNextEvent, ReadTotal, StoreTotal, StoreRem, SpinSeesFlip,
         SpinGivesUp, ReadMark, StoreMark, CheckSense, WaitForEvent
    <3>2. \E l \in Closers \cup Waiting \cup Returning : Goto(t, l)
      BY <1>3, <2>3 DEF Step, ClearMark, ResetNextEvent, ReadTotal, StoreTotal, StoreRem, SpinSeesFlip,
         SpinGivesUp, ReadMark, StoreMark, CheckSense, WaitForEvent, Closers, Waiting, Returning, Goto
    <3>3. \E l \in Labels \ {"out"} : pc' = [pc EXCEPT ![t] = l]
      BY <3>2 DEF Goto, Labels, Closers, Waiting, Returning
    <3>4. QED
      BY <3>1, <3>3, MovesStutter
  <2>4. QED
    BY <2>1, <2>2, <2>3
<1>4. QED
  BY <1>1, <1>2, <1>3 DEF Next, Drain, Delete, Finished, vars

-----------------------------------------------------------------------------
(* The inductive invariant behind the theorems below.                      *)
THEOREM BarrierInvariance == Spec => []Inv
BY InvInit, InvNext, PTL DEF Spec

(* EnterSynchronizationBarrier, for any number of threads and phases, spin *)
(* flags and machines: nobody returns from a phase before all threads have *)
(* entered it, and one call of each phase returns TRUE.                    *)
THEOREM BarrierIsRendezvous == Spec => ImplementsRendezvous
BY BarrierInvariance, RefinesInit, RefinesNext, PTL DEF Spec, ImplementsRendezvous, Promise!Spec

LEMMA WaitersInvariance == Spec => []Waiters
<1>1. Init => Waiters
  BY DEF Init, Waiters, MarkedAndSignaled
<1>2. QED
  BY <1>1, BarrierInvariance, WaitersNext, PTL DEF Spec

(* Without store buffers: no thread is left waiting for an event that was  *)
(* reset before it was released.                                           *)
THEOREM NoWaiterIsStranded == Spec => []NobodyStranded
<1>1. Inv /\ Waiters => NobodyStranded
  BY DEF Inv, Roles, Waiters, MarkedAndSignaled, NobodyStranded, Current, Ev, Releasing, Returning
<1>2. QED
  BY <1>1, BarrierInvariance, WaitersInvariance, PTL

(* DeleteSynchronizationBarrier closes the events after the last waiter of *)
(* the last phase has left, with or without store buffers.                 *)
THEOREM DeletedWithoutWaiters == Spec => []WaitersGoneWhenDeleted
<1>1. Inv /\ Waiters => WaitersGoneWhenDeleted
  BY DEF Inv, Types, Labels, Waiters, WaitersGoneWhenDeleted, Releasing, Closers, Returning, Waiting
<1>2. QED
  BY <1>1, BarrierInvariance, WaitersInvariance, PTL
=============================================================================
