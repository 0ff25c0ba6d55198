---------------------------- MODULE PipePeerPool ----------------------------
(***************************************************************************)
(* The pool in shared memory that tells the two ends of a named pipe each  *)
(* other's process ID before Windows Vista: api-ms-win-core-namedpipe.hpp. *)
(* One bucket of it, used by several processes without a lock.  A slot is  *)
(* a word, the index of a pipe instance and the generation of its last     *)
(* use, and two process IDs beside it.                                     *)
(*                                                                         *)
(* Each instance has two processes: its server registers itself, creating  *)
(* or taking over a slot, and then asks for the client; its client, which  *)
(* never creates a slot, registers itself and then asks for the server.  A *)
(* process may stop for ever anywhere: it has crashed.                     *)
(***************************************************************************)
EXTENDS Naturals

CONSTANTS
  Instances,  \* instance indices that fall into the bucket
  Processes,  \* <<"server", i>> and <<"client", i>>: each is its own ID
  Last,       \* the slots are 1..Last
  Nil         \* no index (0), no process ID (0)

ASSUME PoolAssumption ==
  /\ Processes \subseteq {"server", "client"} \X Instances
  /\ Nil \notin Instances /\ Nil \notin Processes
  /\ Nil \notin Processes \X Nat
  /\ Last \in Nat \ {0}

VARIABLES
  index,       \* low half of uPack of each slot; Nil: unused or being written
  stamp,       \* its high half: the call that wrote it; Nil: unused
  serverPid, clientPid,
  misplaced,   \* has a process ever stored its ID in the slot of another instance?
  pc,          \* where each process is
  asks,        \* has it registered, and asks for the other end?
  calls,       \* the calls it has made; with the process, _uGeneration
  seen,        \* the slot it has chosen, and the stamp it saw there
  empty,       \* _pEmpty
  tries,       \* attempts it has left
  pid,         \* the ID it has read
  answer       \* the ID it returned, or Nil

slots == <<index, stamp, serverPid, clientPid, misplaced>>
vars == <<slots, pc, asks, calls, seen, empty, tries, pid, answer>>

Slots == 1..Last
Role(p) == p[1]
Instance(p) == p[2]
Peer(p) == <<IF Role(p) = "server" THEN "client" ELSE "server", Instance(p)>>

(* uGeneration is incremented by every call.  Nothing but whether two      *)
(* generations are the same one ever matters (see Oldest).                 *)
Mine(p) == <<p, calls[p]>>

MayCreate(p) == Role(p) = "server" /\ ~asks[p]

Init ==
  /\ index = [s \in Slots |-> Nil] /\ stamp = [s \in Slots |-> Nil]
  /\ serverPid = [s \in Slots |-> Nil] /\ clientPid = [s \in Slots |-> Nil]
  /\ misplaced = FALSE
  /\ pc = [p \in Processes |-> "find"]
  /\ asks = [p \in Processes |-> FALSE]
  /\ calls = [p \in Processes |-> 0]
  /\ seen = [p \in Processes |-> [slot |-> 1, stamp |-> Nil]]
  /\ empty = [p \in Processes |-> 0]
  /\ tries = [p \in Processes |-> 2]
  /\ pid = [p \in Processes |-> Nil] /\ answer = [p \in Processes |-> Nil]

Goto(p, label) == pc' = [pc EXCEPT ![p] = label]
Rescan(p) ==
  /\ Goto(p, "scan")
  /\ seen' = [seen EXCEPT ![p] = [slot |-> 1, stamp |-> Nil]]
  /\ empty' = [empty EXCEPT ![p] = 0]

-----------------------------------------------------------------------------
(* FindOrCreatePipePeerPidSlot                                             *)

Find(p) ==
  /\ pc[p] = "find"
  /\ calls' = [calls EXCEPT ![p] = @ + 1]
  /\ Rescan(p)
  /\ UNCHANGED <<slots, asks, tries, pid, answer>>

(* Where a scan that has met no slot of the instance goes on: a process    *)
(* that may not create gives up, an empty slot is claimed, and if there is *)
(* none the first is replaced: "_uSlotGeneration - _uOldestGeneration < 0" *)
(* is false of unsigned numbers, so that no later slot is ever older.      *)
Oldest == 1

AfterScan(p, e) ==
  IF ~MayCreate(p) THEN "missed" ELSE IF e # 0 THEN "claim" ELSE "replace"

Scan(p) ==
  LET s == seen[p].slot
      e == IF empty[p] = 0 /\ stamp[s] = Nil THEN s ELSE empty[p]
  IN
  /\ pc[p] = "scan"
  /\ IF index[s] = Instance(p)
     THEN /\ seen' = [seen EXCEPT ![p].stamp = stamp[s]]
          /\ empty' = [empty EXCEPT ![p] = 0]
          /\ Goto(p, "refresh")
     ELSE /\ empty' = [empty EXCEPT ![p] = e]
          /\ IF s < Last
             THEN seen' = [seen EXCEPT ![p].slot = s + 1] /\ UNCHANGED pc
             ELSE /\ Goto(p, AfterScan(p, e))
                  /\ seen' = [seen EXCEPT ![p].slot = IF e # 0 THEN e ELSE Oldest]
  /\ UNCHANGED <<slots, asks, calls, tries, pid, answer>>

(* Index and generation are compared and exchanged as one word.            *)
Refresh(p) ==
  LET s == seen[p].slot IN
  /\ pc[p] = "refresh"
  /\ IF index[s] = Instance(p) /\ stamp[s] = seen[p].stamp
     THEN /\ stamp' = [stamp EXCEPT ![s] = Mine(p)]
          /\ seen' = [seen EXCEPT ![p].stamp = Nil]
          /\ Goto(p, "found") /\ UNCHANGED empty
     ELSE Rescan(p) /\ UNCHANGED stamp
  /\ UNCHANGED <<index, serverPid, clientPid, misplaced, asks, calls, tries, pid, answer>>

Publish(p, s, next) ==
  /\ index' = [index EXCEPT ![s] = Instance(p)]
  /\ stamp' = [stamp EXCEPT ![s] = Mine(p)]
  /\ empty' = [empty EXCEPT ![p] = 0]
  /\ Goto(p, next)
  /\ UNCHANGED seen

Claim(p) ==
  LET s == seen[p].slot IN
  /\ pc[p] = "claim"
  /\ IF stamp[s] = Nil THEN Publish(p, s, "found") ELSE Rescan(p) /\ UNCHANGED <<index, stamp>>
  /\ UNCHANGED <<serverPid, clientPid, misplaced, asks, calls, tries, pid, answer>>

(* Mutant: the new index is published before the IDs are cleared.          *)
Replace_PublishFirst(p) ==
  /\ pc[p] = "replace"
  /\ Publish(p, seen[p].slot, "clearServer")
  /\ UNCHANGED <<serverPid, clientPid, misplaced, asks, calls, tries, pid, answer>>

(* The index is taken away, with a stamp that keeps the slot from being    *)
(* claimed.  Nothing keeps another process from replacing it as well.  (If *)
(* the slot changes just before, the process scans again: as if it had     *)
(* scanned only now.)                                                      *)
Replace(p) ==
  LET s == seen[p].slot IN
  /\ pc[p] = "replace"
  /\ index' = [index EXCEPT ![s] = Nil]
  /\ stamp' = [stamp EXCEPT ![s] = Mine(p)]
  /\ Goto(p, "clearServer")
  /\ UNCHANGED <<serverPid, clientPid, misplaced, asks, calls, seen, empty, tries, pid, answer>>

ClearServer(p) ==
  LET s == seen[p].slot IN
  /\ pc[p] = "clearServer"
  /\ serverPid' = [serverPid EXCEPT ![s] = Nil]
  /\ Goto(p, "clearClient")
  /\ UNCHANGED <<index, stamp, clientPid, misplaced, asks, calls, seen, empty, tries, pid, answer>>

ClearClient(p) ==
  LET s == seen[p].slot IN
  /\ pc[p] = "clearClient"
  /\ clientPid' = [clientPid EXCEPT ![s] = Nil]
  /\ Goto(p, "publish")
  /\ UNCHANGED <<index, stamp, serverPid, misplaced, asks, calls, seen, empty, tries, pid, answer>>

PublishNew(p) ==
  LET s == seen[p].slot IN
  /\ pc[p] = "publish"
  /\ IF index[s] = Nil /\ stamp[s] = Mine(p)
     THEN Publish(p, s, "found")
     ELSE Rescan(p) /\ UNCHANGED <<index, stamp>>
  /\ UNCHANGED <<serverPid, clientPid, misplaced, asks, calls, tries, pid, answer>>

-----------------------------------------------------------------------------
(* RegisterPipeServerProcessId and RegisterPipeClientProcessId: the ID is  *)
(* stored whatever has become of the slot since it was found.              *)
Register(p) ==
  LET s == seen[p].slot IN
  /\ pc[p] = "found" /\ ~asks[p]
  /\ IF Role(p) = "server"
     THEN serverPid' = [serverPid EXCEPT ![s] = p] /\ UNCHANGED clientPid
     ELSE clientPid' = [clientPid EXCEPT ![s] = p] /\ UNCHANGED serverPid
  /\ misplaced' = (misplaced \/ index[s] # Instance(p))
  /\ asks' = [asks EXCEPT ![p] = TRUE]
  /\ Goto(p, "find")
  /\ UNCHANGED <<index, stamp, calls, seen, empty, tries, pid, answer>>

(* A registration without a slot does nothing; the server's ID is looked   *)
(* for twice, because the server may be late, the client's once.           *)
Missed(p) ==
  /\ pc[p] = "missed"
  /\ IF ~asks[p]
     THEN asks' = [asks EXCEPT ![p] = TRUE] /\ Goto(p, "find") /\ UNCHANGED tries
     ELSE /\ tries' = [tries EXCEPT ![p] = @ - 1]
          /\ Goto(p, IF Role(p) = "client" /\ tries[p] = 2 THEN "find" ELSE "failed")
          /\ UNCHANGED asks
  /\ UNCHANGED <<slots, calls, seen, empty, pid, answer>>

-----------------------------------------------------------------------------
(* QueryPipePeerProcessId                                                  *)

ReadPid(p) ==
  LET s == seen[p].slot IN
  /\ pc[p] = "found" /\ asks[p]
  /\ pid' = [pid EXCEPT ![p] = IF Role(p) = "server" THEN clientPid[s] ELSE serverPid[s]]
  /\ Goto(p, "check")
  /\ UNCHANGED <<slots, asks, calls, seen, empty, tries, answer>>

(* If the ID is not there yet the client looks for its slot again, the     *)
(* server waits for the ID in the slot it has found.                       *)
Check(p) ==
  LET kept == index[seen[p].slot] = Instance(p) IN
  /\ pc[p] = "check"
  /\ tries' = [tries EXCEPT ![p] = @ - 1]
  /\ answer' = [answer EXCEPT ![p] = IF kept THEN pid[p] ELSE Nil]
  /\ pid' = [pid EXCEPT ![p] = Nil]
  /\ Goto(p, IF kept /\ pid[p] # Nil THEN "answered"
             ELSE IF ~kept \/ tries[p] = 1 THEN "failed"
             ELSE IF Role(p) = "client" THEN "find" ELSE "found")
  /\ UNCHANGED <<slots, asks, calls, seen, empty>>

-----------------------------------------------------------------------------
Step(p) ==
  \/ Find(p) \/ Scan(p) \/ Refresh(p) \/ Claim(p) \/ Replace(p) \/ ClearServer(p)
  \/ ClearClient(p) \/ PublishNew(p) \/ Register(p) \/ Missed(p) \/ ReadPid(p) \/ Check(p)

Finished == (\A p \in Processes : pc[p] \in {"answered", "failed"}) /\ UNCHANGED vars

Next == (\E p \in Processes : Step(p)) \/ Finished

Spec == Init /\ [][Next]_vars

-----------------------------------------------------------------------------
(* "Even after a crash there is no new index with the process ID of the    *)
(* instance before": whatever the processes do to the bucket at once, and  *)
(* wherever one stops, the IDs in a slot are of processes of the instance  *)
(* the slot is for, and no query returns the ID of another one: as long as *)
(* no process has stored its ID in a slot that had been taken from its     *)
(* instance since it was found.                                            *)
PeersMatch ==
  ~misplaced =>
    /\ \A s \in Slots : index[s] # Nil =>
         /\ serverPid[s] \in {Nil, <<"server", index[s]>>}
         /\ clientPid[s] \in {Nil, <<"client", index[s]>>}
    /\ \A p \in Processes : answer[p] \in {Nil, Peer(p)}
=============================================================================
