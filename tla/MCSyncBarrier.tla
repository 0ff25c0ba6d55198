---------------------------- MODULE MCSyncBarrier ----------------------------
(* Instances of SyncBarrier for TLC.                                       *)
EXTENDS SyncBarrier

CONSTANTS b1, b2, b3

MCThreads2 == {b1, b2}
MCThreads3 == {b1, b2, b3}
AnyMachine == BOOLEAN
BufferedMachine == {TRUE}
=============================================================================
