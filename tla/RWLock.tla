------------------------------- MODULE RWLock --------------------------------
(***************************************************************************)
(* What a slim reader/writer lock promises: one thread holds it            *)
(* exclusively, or any number of threads share it.  Nothing is said of the *)
(* order in which threads get it.                                          *)
(***************************************************************************)
EXTENDS FiniteSets

CONSTANT Threads

VARIABLES writers, readers   \* the threads that hold the lock, by mode

Init == writers = {} /\ readers = {}

AcquireExclusive(t) ==
  /\ writers = {} /\ readers = {}
  /\ writers' = {t}
  /\ UNCHANGED readers

AcquireShared(t) ==
  /\ writers = {} /\ t \notin readers
  /\ readers' = readers \cup {t}
  /\ UNCHANGED writers

ReleaseExclusive(t) ==
  /\ t \in writers
  /\ writers' = writers \ {t}
  /\ UNCHANGED readers

ReleaseShared(t) ==
  /\ t \in readers
  /\ readers' = readers \ {t}
  /\ UNCHANGED writers

Next ==
  \E t \in Threads :
    \/ AcquireExclusive(t) \/ AcquireShared(t)
    \/ ReleaseExclusive(t) \/ ReleaseShared(t)

Spec == Init /\ [][Next]_<<writers, readers>>

(* A writer excludes everybody else.                                       *)
Exclusion ==
  /\ writers # {} => readers = {}
  /\ \A t, u \in writers : t = u
=============================================================================
