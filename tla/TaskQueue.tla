----------------------------- MODULE TaskQueue ------------------------------
(***************************************************************************)
(* InterlockedQueue<TP_Work, 1024> of Shared/InterlockedQueue.h: a list of *)
(* blocks, each a ring of BlockSize entries.  One thread pushes at a time  *)
(* and one pops, under the two locks of TP_Pool; the two work on the same  *)
(* blocks without a lock, one load or store at a time.                     *)
(***************************************************************************)
EXTENDS Naturals, Sequences

CONSTANTS
  BlockSize,  \* kMaxBlockSize
  MaxPushes   \* how many entries are pushed (bound of the model)

VARIABLES
  block,      \* the blocks allocated so far, by their number
  deleted,    \* those that were deleted
  first,      \* pFirstReadBlock
  last,       \* pLastWriteBlock
  pushPc, popPc,  \* where the two threads are
  got,        \* the entry Pop is about to return
  pushed,     \* the number of entries pushed: the entries are 1, 2, 3, ...
  popped,     \* the entries popped
  late,       \* entries pushed since Pop has found its block empty
  overtaken   \* was one Pop ever overtaken by BlockSize pushes?

pushVars == <<last, pushPc, pushed>>
popVars == <<deleted, popPc, got, popped>>
vars == <<block, first, pushVars, popVars, late, overtaken>>

Null == 0
New == [read |-> 0, write |-> 0, next |-> Null, entries |-> [i \in 0..(BlockSize - 1) |-> Null]]
IsEmpty(b) == block[b].read = block[b].write
IsFull(b) == block[b].read + BlockSize = block[b].write
Ring(i) == i % BlockSize

Init ==
  /\ block = <<>>
  /\ deleted = {}
  /\ first = Null /\ last = Null
  /\ pushPc = "out" /\ popPc = "out"
  /\ got = Null
  /\ pushed = 0
  /\ popped = <<>>
  /\ late = 0
  /\ overtaken = FALSE

-----------------------------------------------------------------------------
(* Push.                                                                   *)

BeginPush ==
  /\ pushPc = "out" /\ pushed < MaxPushes
  /\ IF last = Null
     THEN /\ block' = Append(block, New)
          /\ last' = Len(block')
          /\ pushPc' = "first"
     ELSE UNCHANGED <<block, last>> /\ pushPc' = "isFull"
  /\ UNCHANGED <<first, pushed, popVars, late, overtaken>>

SetFirst ==
  /\ pushPc = "first"
  /\ first' = last
  /\ pushPc' = "isFull"
  /\ UNCHANGED <<block, last, pushed, popVars, late, overtaken>>

(* Mutant: the ring takes one entry more than it has room for.             *)
Link_TooLate ==
  /\ pushPc = "isFull"
  /\ IF block[last].read + BlockSize + 1 = block[last].write
     THEN /\ block' = Append([block EXCEPT ![last].next = Len(block) + 1], New)
          /\ pushPc' = "move"
     ELSE pushPc' = "store" /\ UNCHANGED block
  /\ UNCHANGED <<first, last, pushed, popVars, late, overtaken>>

(* The full block gets a successor, and then nothing of it is used.        *)
Link ==
  /\ pushPc = "isFull"
  /\ IF IsFull(last)
     THEN /\ block' = Append([block EXCEPT ![last].next = Len(block) + 1], New)
          /\ pushPc' = "move"
     ELSE pushPc' = "store" /\ UNCHANGED block
  /\ UNCHANGED <<first, last, pushed, popVars, late, overtaken>>

Move ==
  /\ pushPc = "move"
  /\ last' = Len(block)
  /\ pushPc' = "store"
  /\ UNCHANGED <<block, first, pushed, popVars, late, overtaken>>

Store ==
  /\ pushPc = "store"
  /\ block' = [block EXCEPT ![last].entries[Ring(block[last].write)] = pushed + 1]
  /\ pushPc' = "count"
  /\ UNCHANGED <<first, last, pushed, popVars, late, overtaken>>

Count ==
  /\ pushPc = "count"
  /\ block' = [block EXCEPT ![last].write = @ + 1]
  /\ pushed' = pushed + 1
  /\ late' = IF popPc = "next" THEN late + 1 ELSE late
  /\ overtaken' = (overtaken \/ late' >= BlockSize)
  /\ pushPc' = "out"
  /\ UNCHANGED <<first, last, popVars>>

-----------------------------------------------------------------------------
(* Pop.                                                                    *)

BeginPop ==
  /\ popPc = "out" /\ first # Null
  /\ popPc' = "isEmpty"
  /\ UNCHANGED <<block, first, pushVars, deleted, got, popped, late, overtaken>>

CheckEmpty ==
  /\ popPc = "isEmpty"
  /\ popPc' = IF IsEmpty(first) THEN "next" ELSE "take"
  /\ late' = 0
  /\ UNCHANGED <<block, first, pushVars, deleted, got, popped, overtaken>>

Take ==
  /\ popPc = "take"
  /\ got' = block[first].entries[Ring(block[first].read)]
  /\ popPc' = "advance"
  /\ UNCHANGED <<block, first, pushVars, deleted, popped, late, overtaken>>

Advance ==
  /\ popPc = "advance"
  /\ block' = [block EXCEPT ![first].read = @ + 1]
  /\ popped' = Append(popped, got)
  /\ got' = Null
  /\ popPc' = "out"
  /\ UNCHANGED <<first, pushVars, deleted, late, overtaken>>

(* The block was empty: Pop goes on with the next one, if there is one.    *)
NextBlock ==
  /\ popPc = "next"
  /\ IF block[first].next = Null
     THEN popPc' = "out" /\ UNCHANGED <<first, deleted>>
     ELSE /\ first' = block[first].next
          /\ deleted' = deleted \cup {first}
          /\ popPc' = "isEmpty"
  /\ UNCHANGED <<block, pushVars, got, popped, late, overtaken>>

-----------------------------------------------------------------------------
PushStep == BeginPush \/ SetFirst \/ Link \/ Move \/ Store \/ Count
PopStep == BeginPop \/ CheckEmpty \/ Take \/ Advance \/ NextBlock
Next == PushStep \/ PopStep

Spec == Init /\ [][Next]_vars

-----------------------------------------------------------------------------
(* The blocks Pop will still come to, and what it will find there.         *)
Blocks == {b \in 1..Len(block) : b >= first}
Unread(b) == block[b].read..(block[b].write - 1)
Entry(b, i) == block[b].entries[Ring(i)]
Found == UNION {{Entry(b, i) : i \in Unread(b)} : b \in Blocks}

(* Every entry is popped once, in the order of the pushes: what was popped *)
(* is a beginning of what was pushed, and the rest lies in the blocks in   *)
(* that order.  Neither end works on a deleted block.  This needs that no  *)
(* Pop is overtaken by a whole block of pushes between its two looks at    *)
(* the block it found empty: it would delete the block together with those *)
(* entries.                                                                *)
NothingLost ==
  ~overtaken =>
    /\ popped = [i \in 1..Len(popped) |-> i]
    /\ Found = (Len(popped) + 1)..pushed
    /\ \A b, c \in Blocks : \A i \in Unread(b), j \in Unread(c) :
         (b < c \/ (b = c /\ i < j)) => Entry(b, i) < Entry(c, j)
    /\ first \notin deleted
    /\ last \in deleted => pushPc = "move"
=============================================================================
