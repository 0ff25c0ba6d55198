-------------------------------- MODULE Races -------------------------------
(***************************************************************************)
(* Components of which only safety is stated, each used by several threads *)
(* or processes at once: the peers of named pipes (PipePeerPool), one      *)
(* bucket of wait lists (WaitOnAddress) and the comparison of handles      *)
(* (HandleCompare).  They have no state in common.                         *)
(***************************************************************************)
EXTENDS PipePeerPool, FiniteSets

-----------------------------------------------------------------------------
(* A bucket of wait lists.                                                 *)
CONSTANTS Waiters, Wakers, WakeAll, Timed, AddressOf, Calls

ASSUME BucketAssumption == Nil \notin Waiters /\ Waiters \cap Wakers = {}

VARIABLES aHead, aBack, aNotify, aNext, aFlag, aChanged, aPc, aCur, aItem,
          aWakes, aThen, aLast, aTimed, aCalls

aVars == <<aHead, aBack, aNotify, aNext, aFlag, aChanged, aPc, aCur, aItem,
           aWakes, aThen, aLast, aTimed, aCalls>>

W == INSTANCE WaitOnAddress WITH
  head <- aHead, back <- aBack, notify <- aNotify, next <- aNext,
  flag <- aFlag, changed <- aChanged, pc <- aPc, cur <- aCur, item <- aItem,
  wakes <- aWakes, then <- aThen, last <- aLast, timed <- aTimed, calls <- aCalls

-----------------------------------------------------------------------------
(* The comparison of handles.                                              *)
CONSTANTS Comparers, Users, Objects, MaxSpare

ASSUME CompareAssumption ==
  IsFiniteSet(Comparers) /\ Comparers \cap Users = {} /\ MaxSpare \in Nat

VARIABLES hPair, hSpare, hTemp, hExclusive, hShared, hPc, hFirst, hClosing,
          hAnswer, hDisturbed, hFailed

hVars == <<hPair, hSpare, hTemp, hExclusive, hShared, hPc, hFirst, hClosing,
           hAnswer, hDisturbed, hFailed>>

H == INSTANCE HandleCompare WITH
  pair <- hPair, spare <- hSpare, temp <- hTemp, exclusive <- hExclusive,
  shared <- hShared, pc <- hPc, first <- hFirst, closing <- hClosing,
  answer <- hAnswer, disturbed <- hDisturbed, failed <- hFailed

-----------------------------------------------------------------------------
(* The list of waiters is changed by one thread at a time, is well linked  *)
(* and leads to no block whose thread has returned (WaitOnAddress).        *)
ListsAreSound == W!ListIsSound

(* Every release of a keyed event meets its waiter, and each waiter meets  *)
(* one release only (WaitOnAddress).                                       *)
ReleasesMeetWaiters == W!ReleaseMeetsWaiter

(* A sleeping waiter that nobody has marked woken can still be found: in   *)
(* the list, or in the hands of a thread that will mark it                 *)
(* (WaitOnAddress).                                                        *)
NoneForgotten == W!NobodyForgotten

(* CompareObjectHandles tells handles of one object from handles of two,   *)
(* as long as nobody opens or closes a handle without the lock             *)
(* (HandleCompare).                                                        *)
ComparesRight == H!ComparesRight
=============================================================================
