--------------------------- MODULE HandleCompare ----------------------------
(***************************************************************************)
(* CompareObjectHandles of api-ms-win-core-handle.hpp before Windows 10,   *)
(* for objects that nothing but the number of their handles tells apart,   *)
(* and the thunks of CloseHandle and DuplicateHandle that keep this number *)
(* still meanwhile.  Two handles are taken for handles of one object if a  *)
(* third handle of the first, opened and closed again, changes the handle  *)
(* counts of both.                                                         *)
(*                                                                         *)
(* Comparing threads hold CompareObjectHandlesLock exclusively, closing    *)
(* and duplicating ones share it.  The lock is what RWLock promises.       *)
(***************************************************************************)
EXTENDS Naturals, FiniteSets

CONSTANTS
  Comparers,  \* threads that call CompareObjectHandles, once each
  Users,      \* threads that call CloseHandle or DuplicateHandle, once each
  Objects,
  MaxSpare    \* handles of an object nobody compares (bound of the model)

VARIABLES
  pair,       \* the objects of the two handles each thread compares
  spare,      \* handles nobody compares, of each object
  temp,       \* handles CompareObjectRef has opened for the time being
  exclusive,  \* who holds the lock exclusively
  shared,     \* who shares it
  pc,         \* where each thread is
  first,      \* HandleCount of a comparer's first object
  closing,    \* must it still close its third handle?
  answer,     \* its result
  disturbed,  \* has the count of its objects changed while it had the lock?
  failed      \* has one of the calls it makes failed?

vars == <<pair, spare, temp, exclusive, shared, pc, first, closing, answer, disturbed, failed>>

Callers == Comparers \cup Users

(* HandleCount of NtQueryObject.                                           *)
HandleCount(o) ==
  spare[o] + temp[o] + Cardinality({t \in Comparers : pair[t][1] = o})
                     + Cardinality({t \in Comparers : pair[t][2] = o})

Init ==
  /\ pair \in [Comparers -> Objects \X Objects]
  /\ spare \in [Objects -> 0..MaxSpare]
  /\ temp = [o \in Objects |-> 0]
  /\ exclusive = {} /\ shared = {}
  /\ pc = [t \in Callers |-> "start"]
  /\ first = [t \in Comparers |-> 0]
  /\ closing = [t \in Comparers |-> FALSE]
  /\ answer = [t \in Comparers |-> FALSE]
  /\ disturbed = [t \in Comparers |-> FALSE]
  /\ failed = [t \in Comparers |-> FALSE]

Goto(t, label) == pc' = [pc EXCEPT ![t] = label]

-----------------------------------------------------------------------------
(* CloseHandle and DuplicateHandle                                         *)

(* Mutant: closing and duplicating do not take the lock.                   *)
AcquireShared_None(u) ==
  /\ pc[u] = "start"
  /\ shared' = shared \cup {u}
  /\ Goto(u, "change")
  /\ UNCHANGED <<pair, spare, temp, exclusive, first, closing, answer, disturbed, failed>>

AcquireShared(u) ==
  /\ pc[u] = "start" /\ exclusive = {}
  /\ shared' = shared \cup {u}
  /\ Goto(u, "change")
  /\ UNCHANGED <<pair, spare, temp, exclusive, first, closing, answer, disturbed, failed>>

CloseHandle(u, o) ==
  /\ pc[u] = "change" /\ spare[o] > 0
  /\ spare' = [spare EXCEPT ![o] = @ - 1]
  /\ Goto(u, "release")
  /\ UNCHANGED <<pair, temp, exclusive, shared, first, closing, answer, disturbed, failed>>

DuplicateHandle(u, o) ==
  /\ pc[u] = "change" /\ spare[o] < MaxSpare
  /\ spare' = [spare EXCEPT ![o] = @ + 1]
  /\ Goto(u, "release")
  /\ UNCHANGED <<pair, temp, exclusive, shared, first, closing, answer, disturbed, failed>>

ReleaseShared(u) ==
  /\ pc[u] = "release"
  /\ shared' = shared \ {u}
  /\ Goto(u, "done")
  /\ UNCHANGED <<pair, spare, temp, exclusive, first, closing, answer, disturbed, failed>>

(* Comparers whose count of object o changes under their hands.            *)
Disturb(o) ==
  disturbed' = [t \in Comparers |->
    disturbed[t] \/ (t \in exclusive /\ o \in {pair[t][1], pair[t][2]})]

(* A handle for another process: DuplicateHandle does not take the lock.   *)
DuplicateElsewhere(u, o) ==
  /\ pc[u] = "start" /\ spare[o] < MaxSpare
  /\ spare' = [spare EXCEPT ![o] = @ + 1]
  /\ Disturb(o)
  /\ Goto(u, "done")
  /\ UNCHANGED <<pair, temp, exclusive, shared, first, closing, answer, failed>>

-----------------------------------------------------------------------------
(* CompareObjectHandles up to CompareObjectRef: an object with one handle  *)
(* cannot be the other one.                                                *)
Precheck(t, i, next) ==
  /\ pc[t] = (IF i = 1 THEN "start" ELSE "second")
  /\ Goto(t, IF HandleCount(pair[t][i]) = 1 THEN "done" ELSE next)
  /\ UNCHANGED <<pair, spare, temp, exclusive, shared, first, closing, answer, disturbed, failed>>

(* NtQueryObject or DuplicateHandle fails: the comparison ends, with its    *)
(* answer still FALSE.  Before CompareObjectRef it just returns, inside it *)
(* the lock is given back, and the third handle closed if it is open.      *)
CallFails(t) ==
  /\ pc[t] \in {"start", "second", "lock", "open", "queryFirst", "querySecond"}
  /\ failed' = [failed EXCEPT ![t] = TRUE]
  /\ Goto(t, IF pc[t] \in {"start", "second", "lock"} THEN "done" ELSE "unlock")
  /\ UNCHANGED <<pair, spare, temp, exclusive, shared, first, closing, answer, disturbed>>

AcquireExclusive(t) ==
  /\ pc[t] = "lock" /\ exclusive = {} /\ shared = {}
  /\ exclusive' = {t}
  /\ Goto(t, "open")
  /\ UNCHANGED <<pair, spare, temp, shared, first, closing, answer, disturbed, failed>>

(* The third handle.                                                       *)
Open(t) ==
  /\ pc[t] = "open"
  /\ temp' = [temp EXCEPT ![pair[t][1]] = @ + 1]
  /\ closing' = [closing EXCEPT ![t] = TRUE]
  /\ Goto(t, "queryFirst")
  /\ UNCHANGED <<pair, spare, exclusive, shared, first, answer, disturbed, failed>>

QueryFirst(t) ==
  LET n == HandleCount(pair[t][1]) IN
  /\ pc[t] = "queryFirst"
  /\ first' = [first EXCEPT ![t] = n]
  /\ Goto(t, IF n = 1 THEN "unlock" ELSE "querySecond")
  /\ UNCHANGED <<pair, spare, temp, exclusive, shared, closing, answer, disturbed, failed>>

(* Mutant: one look at the counts decides.                                 *)
QuerySecond_Once(t) ==
  LET equal == HandleCount(pair[t][2]) = first[t] IN
  /\ pc[t] = "querySecond"
  /\ answer' = [answer EXCEPT ![t] = equal]
  /\ Goto(t, "unlock")
  /\ UNCHANGED <<pair, spare, temp, exclusive, shared, first, closing, disturbed, failed>>

(* With the third handle open, and once more after it was closed.          *)
QuerySecond(t) ==
  LET equal == HandleCount(pair[t][2]) = first[t] IN
  /\ pc[t] = "querySecond"
  /\ answer' = [answer EXCEPT ![t] = equal /\ ~closing[t]]
  /\ Goto(t, IF equal /\ closing[t] THEN "close" ELSE "unlock")
  /\ UNCHANGED <<pair, spare, temp, exclusive, shared, first, closing, disturbed, failed>>

Close(t) ==
  /\ pc[t] = "close"
  /\ temp' = [temp EXCEPT ![pair[t][1]] = @ - 1]
  /\ closing' = [closing EXCEPT ![t] = FALSE]
  /\ Goto(t, "queryFirst")
  /\ UNCHANGED <<pair, spare, exclusive, shared, first, answer, disturbed, failed>>

ReleaseExclusive(t) ==
  /\ pc[t] = "unlock"
  /\ exclusive' = {}
  /\ Goto(t, IF closing[t] THEN "closeLate" ELSE "done")
  /\ UNCHANGED <<pair, spare, temp, shared, first, closing, answer, disturbed, failed>>

(* If the counts differed, or a query failed with the third handle open,   *)
(* this handle is closed after the lock was given back, and without it.    *)
CloseLate(t) ==
  /\ pc[t] = "closeLate"
  /\ temp' = [temp EXCEPT ![pair[t][1]] = @ - 1]
  /\ closing' = [closing EXCEPT ![t] = FALSE]
  /\ Disturb(pair[t][1])
  /\ Goto(t, "done")
  /\ UNCHANGED <<pair, spare, exclusive, shared, first, answer, failed>>

-----------------------------------------------------------------------------
UserStep(u) ==
  \/ AcquireShared(u) \/ ReleaseShared(u)
  \/ \E o \in Objects : CloseHandle(u, o) \/ DuplicateHandle(u, o) \/ DuplicateElsewhere(u, o)

ComparerStep(t) ==
  \/ Precheck(t, 1, "second") \/ Precheck(t, 2, "lock") \/ AcquireExclusive(t)
  \/ CallFails(t) \/ Open(t) \/ QueryFirst(t) \/ QuerySecond(t) \/ Close(t)
  \/ ReleaseExclusive(t) \/ CloseLate(t)

Finished == (\A t \in Callers : pc[t] = "done") /\ UNCHANGED vars

Next ==
  \/ \E u \in Users : UserStep(u)
  \/ \E t \in Comparers : ComparerStep(t)
  \/ Finished

Spec == Init /\ [][Next]_vars

-----------------------------------------------------------------------------
(* CompareObjectHandles answers TRUE if and only if both handles are       *)
(* handles of one object and no call failed, unless a handle of one of its *)
(* objects was opened or closed without the lock while it compared: the    *)
(* failure exits, too, leave lock and third handle as the next comparison  *)
(* needs them.                                                             *)
ComparesRight ==
  \A t \in Comparers :
    pc[t] = "done" /\ ~disturbed[t] =>
      (answer[t] <=> ~failed[t] /\ pair[t][1] = pair[t][2])
=============================================================================
