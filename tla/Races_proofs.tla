---------------------------- MODULE Races_proofs ----------------------------
(***************************************************************************)
(* Theorems about the components of Races.  For any number of pipes,       *)
(* processes and slots no query answers with the process of another pipe,  *)
(* as long as no process has stored its ID in a slot that had been taken   *)
(* from its pipe.  For any number of threads, objects and handles two      *)
(* handles are compared correctly, if their counts stand still meanwhile.  *)
(* What WaitOnAddress_proofs proves of a bucket of wait lists holds of the *)
(* bucket of Races: their instances make the same steps.                   *)
(***************************************************************************)
EXTENDS Races, FiniteSetTheorems, TLAPS

-----------------------------------------------------------------------------
(* The peers of named pipes.                                               *)

Creating == {"claim", "replace", "clearServer", "clearClient", "publish"}
Using == {"refresh", "found", "check"}
Labels == {"find", "scan", "missed", "answered", "failed"} \cup Creating \cup Using

Stamps == (Processes \X Nat) \cup {Nil}

SlotTypes ==
  /\ index \in [Slots -> Instances \cup {Nil}]
  /\ stamp \in [Slots -> Stamps]
  /\ serverPid \in [Slots -> Processes \cup {Nil}]
  /\ clientPid \in [Slots -> Processes \cup {Nil}]
  /\ misplaced \in BOOLEAN

ProcessTypes ==
  /\ pc \in [Processes -> Labels]
  /\ asks \in [Processes -> BOOLEAN]
  /\ calls \in [Processes -> Nat]
  /\ seen \in [Processes -> [slot : Slots, stamp : Stamps]]
  /\ empty \in [Processes -> 0..Last]
  /\ pid \in [Processes -> Processes \cup {Nil}]
  /\ answer \in [Processes -> Processes \cup {Nil}]

(* The server of instance i has given it a slot once, and never will again *)
(* whatever becomes of that slot.                                          *)
Created(i) ==
  LET p == <<"server", i>> IN p \in Processes /\ (asks[p] \/ pc[p] = "found")

(* Only a server that has not registered creates, and an index that is in  *)
(* a slot, or that a process has seen there, has been created.             *)
CreatedOnce ==
  /\ \A p \in Processes : pc[p] \in Creating => MayCreate(p)
  /\ \A p \in Processes : pc[p] \in Using => Created(Instance(p))
  /\ \A s \in Slots : index[s] # Nil => Created(index[s])

(* What the IDs in a slot are, by the state of the slot: it is unused, it  *)
(* has an index, or a process is replacing it and nobody has interfered.   *)
Replacing(p) ==
  LET s == seen[p].slot IN index[s] = Nil /\ stamp[s] = Mine(p)

SlotsMatch ==
  /\ \A s \in Slots : stamp[s] = Nil =>
       index[s] = Nil /\ serverPid[s] = Nil /\ clientPid[s] = Nil
  /\ \A s \in Slots : index[s] # Nil =>
       /\ serverPid[s] \in {Nil, <<"server", index[s]>>}
       /\ clientPid[s] \in {Nil, <<"client", index[s]>>}
  /\ \A p \in Processes : Replacing(p) =>
       /\ pc[p] \in {"clearClient", "publish"} => serverPid[seen[p].slot] = Nil
       /\ pc[p] = "publish" => clientPid[seen[p].slot] = Nil

(* An ID that was read from a slot is the right one, or the slot no longer *)
(* is of the instance and, as it is created once, will not be again.       *)
AnswersMatch ==
  /\ \A p \in Processes : pc[p] = "check" =>
       pid[p] \in {Nil, Peer(p)} \/ index[seen[p].slot] # Instance(p)
  /\ \A p \in Processes : answer[p] \in {Nil, Peer(p)}

PoolInv == SlotTypes /\ ProcessTypes /\ CreatedOnce /\ (~misplaced => SlotsMatch /\ AnswersMatch)

-----------------------------------------------------------------------------
(* A process is named by its role and its instance.                        *)
LEMMA ProcessNames ==
  ASSUME NEW p \in Processes
  PROVE  /\ Role(p) \in {"server", "client"} /\ Instance(p) \in Instances
         /\ p = <<Role(p), Instance(p)>>
         /\ Instance(p) # Nil
BY PoolAssumption DEF Role, Instance

LEMMA StampTypes ==
  /\ Nil \in Stamps
  /\ \A p \in Processes : calls[p] \in Nat => Mine(p) \in Stamps /\ Mine(p) # Nil
BY PoolAssumption DEF Mine, Stamps

LEMMA PoolInit == Init => PoolInv
<1> SUFFICES ASSUME Init PROVE PoolInv
  OBVIOUS
<1> USE PoolAssumption DEF Init
<1>1. SlotTypes
  BY StampTypes DEF SlotTypes
<1>2. ProcessTypes
  <2>1. 1 \in Slots /\ 0 \in 0..Last
    BY DEF Slots
  <2>2. QED
    BY <2>1, StampTypes DEF ProcessTypes, Labels
<1>3. CreatedOnce
  BY DEF CreatedOnce, Creating, Using
<1>4. SlotsMatch /\ AnswersMatch
  BY DEF SlotsMatch, AnswersMatch
<1>5. QED
  BY <1>1, <1>2, <1>3, <1>4 DEF PoolInv

LEMMA SeenTypes ==
  ASSUME ProcessTypes, NEW p \in Processes, NEW s \in Slots, NEW m \in Stamps
  PROVE  /\ [seen EXCEPT ![p].slot = s] \in [Processes -> [slot : Slots, stamp : Stamps]]
         /\ [seen EXCEPT ![p].stamp = m] \in [Processes -> [slot : Slots, stamp : Stamps]]
<1>1. [slot |-> s, stamp |-> seen[p].stamp] \in [slot : Slots, stamp : Stamps]
  BY DEF ProcessTypes
<1>2. [slot |-> seen[p].slot, stamp |-> m] \in [slot : Slots, stamp : Stamps]
  BY DEF ProcessTypes
<1>3. QED
  BY <1>1, <1>2 DEF ProcessTypes

-----------------------------------------------------------------------------
LEMMA SlotTypesKept ==
  ASSUME PoolInv, NEW p \in Processes, Step(p)
  PROVE  SlotTypes'
<1>0. Mine(p) \in Stamps /\ Nil \in Stamps /\ Instance(p) \in Instances
  BY StampTypes, ProcessNames, PoolAssumption DEF PoolInv, ProcessTypes
<1> USE <1>0 DEF PoolInv, SlotTypes, ProcessTypes, Goto, slots
<1>1. CASE Find(p)
  BY <1>1 DEF Find, Rescan
<1>2. CASE Scan(p)
  BY <1>2 DEF Scan, AfterScan, Oldest
<1>3. CASE Refresh(p)
  BY <1>3 DEF Refresh, Rescan
<1>4. CASE Claim(p)
  BY <1>4 DEF Claim, Publish, Rescan
<1>5. CASE Replace(p)
  BY <1>5 DEF Replace
<1>6. CASE ClearServer(p)
  BY <1>6 DEF ClearServer
<1>7. CASE ClearClient(p)
  BY <1>7 DEF ClearClient
<1>8. CASE PublishNew(p)
  BY <1>8 DEF PublishNew, Publish, Rescan
<1>9. CASE Register(p)
  BY <1>9 DEF Register
<1>10. CASE Missed(p)
  BY <1>10 DEF Missed
<1>11. CASE ReadPid(p)
  BY <1>11 DEF ReadPid
<1>12. CASE Check(p)
  BY <1>12 DEF Check
<1>13. QED
  BY <1>1, <1>2, <1>3, <1>4, <1>5, <1>6, <1>7, <1>8, <1>9, <1>10, <1>11, <1>12 DEF Step

LEMMA ProcessTypesKept ==
  ASSUME PoolInv, NEW p \in Processes, Step(p)
  PROVE  ProcessTypes'
<1>0. Mine(p) \in Stamps /\ Nil \in Stamps /\ Instance(p) \in Instances
  BY StampTypes, ProcessNames, PoolAssumption DEF PoolInv, ProcessTypes
<1>a. /\ 1 \in Slots /\ 0 \in 0..Last /\ Slots \subseteq 0..Last
      /\ \A s \in Slots : s < Last => s + 1 \in Slots
  BY PoolAssumption DEF Slots
<1> USE <1>0, <1>a DEF PoolInv, SlotTypes, ProcessTypes, Goto, slots, Labels, Creating, Using
<1>1. CASE Find(p)
  BY <1>1 DEF Find, Rescan
<1>2. CASE Scan(p)
  <2>1. pc' \in [Processes -> Labels]
    BY <1>2 DEF Scan, AfterScan, Oldest
  <2>2. seen' \in [Processes -> [slot : Slots, stamp : Stamps]]
    <3> DEFINE s == seen[p].slot
               e == IF empty[p] = 0 /\ stamp[s] = Nil THEN s ELSE empty[p]
               f == IF e # 0 THEN e ELSE 1
    <3>1. s \in Slots /\ stamp[s] \in Stamps /\ f \in Slots
      BY DEF Slots
    <3>2. CASE index[s] = Instance(p)
      <4>1. seen' = [seen EXCEPT ![p].stamp = stamp[s]]
        BY <1>2, <3>2 DEF Scan
      <4>2. QED
        BY <4>1, <3>1, SeenTypes
    <3>3. CASE index[s] # Instance(p) /\ s < Last
      <4>1. seen' = [seen EXCEPT ![p].slot = s + 1]
        BY <1>2, <3>3 DEF Scan
      <4>2. QED
        BY <4>1, <3>1, <3>3, SeenTypes
    <3>4. CASE index[s] # Instance(p) /\ ~(s < Last)
      <4>1. seen' = [seen EXCEPT ![p].slot = f]
        BY <1>2, <3>4 DEF Scan, Oldest
      <4>2. QED
        BY <4>1, <3>1, SeenTypes
    <3>5. QED
      BY <3>2, <3>3, <3>4
  <2>3. empty' \in [Processes -> 0..Last]
    BY <1>2 DEF Scan, AfterScan, Oldest
  <2>4. UNCHANGED <<asks, calls, pid, answer>>
    BY <1>2 DEF Scan, AfterScan, Oldest
  <2>5. QED
    BY <2>1, <2>2, <2>3, <2>4
<1>3. CASE Refresh(p)
  <2>1. pc' \in [Processes -> Labels]
    BY <1>3 DEF Refresh, Rescan
  <2>2. seen' \in [Processes -> [slot : Slots, stamp : Stamps]]
    <3>1. CASE seen' = [seen EXCEPT ![p].stamp = Nil]
      BY <3>1, SeenTypes
    <3>2. CASE seen' = [seen EXCEPT ![p] = [slot |-> 1, stamp |-> Nil]]
      BY <3>2
    <3>3. QED
      BY <1>3, <3>1, <3>2 DEF Refresh, Rescan
  <2>3. empty' \in [Processes -> 0..Last]
    BY <1>3 DEF Refresh, Rescan
  <2>4. UNCHANGED <<asks, calls, pid, answer>>
    BY <1>3 DEF Refresh, Rescan
  <2>5. QED
    BY <2>1, <2>2, <2>3, <2>4
<1>4. CASE Claim(p)
  <2>1. pc' \in [Processes -> Labels]
    BY <1>4 DEF Claim, Publish, Rescan
  <2>2. seen' \in [Processes -> [slot : Slots, stamp : Stamps]]
    BY <1>4 DEF Claim, Publish, Rescan
  <2>3. empty' \in [Processes -> 0..Last]
    BY <1>4 DEF Claim, Publish, Rescan
  <2>4. UNCHANGED <<asks, calls, pid, answer>>
    BY <1>4 DEF Claim, Publish, Rescan
  <2>5. QED
    BY <2>1, <2>2, <2>3, <2>4
<1>5. CASE Replace(p)
  BY <1>5 DEF Replace
<1>6. CASE ClearServer(p)
  BY <1>6 DEF ClearServer
<1>7. CASE ClearClient(p)
  BY <1>7 DEF ClearClient
<1>8. CASE PublishNew(p)
  <2>1. pc' \in [Processes -> Labels]
    BY <1>8 DEF PublishNew, Publish, Rescan
  <2>2. seen' \in [Processes -> [slot : Slots, stamp : Stamps]]
    BY <1>8 DEF PublishNew, Publish, Rescan
  <2>3. empty' \in [Processes -> 0..Last]
    BY <1>8 DEF PublishNew, Publish, Rescan
  <2>4. UNCHANGED <<asks, calls, pid, answer>>
    BY <1>8 DEF PublishNew, Publish, Rescan
  <2>5. QED
    BY <2>1, <2>2, <2>3, <2>4
<1>9. CASE Register(p)
  BY <1>9 DEF Register
<1>10. CASE Missed(p)
  BY <1>10 DEF Missed
<1>11. CASE ReadPid(p)
  BY <1>11 DEF ReadPid
<1>12. CASE Check(p)
  BY <1>12 DEF Check
<1>13. QED
  BY <1>1, <1>2, <1>3, <1>4, <1>5, <1>6, <1>7, <1>8, <1>9, <1>10, <1>11, <1>12 DEF Step

(* What has been created stays so.                                         *)
LEMMA CreatedStays ==
  ASSUME PoolInv, NEW p \in Processes, Step(p), NEW i \in Instances, Created(i)
  PROVE  Created(i)'
<1> DEFINE q == <<"server", i>>
<1>1. q \in Processes /\ (asks[q] \/ pc[q] = "found")
  BY DEF Created
<1>2. SUFFICES asks'[q] \/ pc'[q] = "found"
  BY <1>1 DEF Created
<1> USE <1>1 DEF PoolInv, ProcessTypes, Goto
<1> HIDE DEF q
<1>3. CASE Find(p)
  BY <1>3 DEF Find, Rescan
<1>4. CASE Scan(p)
  BY <1>4 DEF Scan, AfterScan
<1>5. CASE Refresh(p)
  BY <1>5 DEF Refresh, Rescan
<1>6. CASE Claim(p)
  BY <1>6 DEF Claim, Publish, Rescan
<1>7. CASE Replace(p)
  BY <1>7 DEF Replace
<1>8. CASE ClearServer(p)
  BY <1>8 DEF ClearServer
<1>9. CASE ClearClient(p)
  BY <1>9 DEF ClearClient
<1>10. CASE PublishNew(p)
  BY <1>10 DEF PublishNew, Publish, Rescan
<1>11. CASE Register(p)
  BY <1>11 DEF Register
<1>12. CASE Missed(p)
  BY <1>12 DEF Missed
<1>13. CASE ReadPid(p)
  BY <1>13 DEF ReadPid
<1>14. CASE Check(p)
  BY <1>14 DEF Check
<1>15. QED
  BY <1>3, <1>4, <1>5, <1>6, <1>7, <1>8, <1>9, <1>10, <1>11, <1>12, <1>13, <1>14 DEF Step

(* Who is creating may create; who works with a slot has seen its index.   *)
LEMMA CreatingKept ==
  ASSUME PoolInv, NEW p \in Processes, Step(p)
  PROVE  \A q \in Processes : pc'[q] \in Creating => MayCreate(q)'
<1> USE DEF PoolInv, ProcessTypes, CreatedOnce, Creating, MayCreate, Goto
<1>1. CASE Find(p)
  BY <1>1 DEF Find, Rescan
<1>2. CASE Scan(p)
  BY <1>2 DEF Scan, AfterScan
<1>3. CASE Refresh(p)
  BY <1>3 DEF Refresh, Rescan
<1>4. CASE Claim(p)
  BY <1>4 DEF Claim, Publish, Rescan
<1>5. CASE Replace(p)
  BY <1>5 DEF Replace
<1>6. CASE ClearServer(p)
  BY <1>6 DEF ClearServer
<1>7. CASE ClearClient(p)
  BY <1>7 DEF ClearClient
<1>8. CASE PublishNew(p)
  BY <1>8 DEF PublishNew, Publish, Rescan
<1>9. CASE Register(p)
  BY <1>9 DEF Register
<1>10. CASE Missed(p)
  BY <1>10 DEF Missed
<1>11. CASE ReadPid(p)
  BY <1>11 DEF ReadPid
<1>12. CASE Check(p)
  BY <1>12 DEF Check
<1>13. QED
  BY <1>1, <1>2, <1>3, <1>4, <1>5, <1>6, <1>7, <1>8, <1>9, <1>10, <1>11, <1>12 DEF Step

(* The server itself is the only one that makes its index appear.          *)
LEMMA UsingKept ==
  ASSUME PoolInv, NEW p \in Processes, Step(p)
  PROVE  \A q \in Processes : pc'[q] \in Using => Created(Instance(q))'
<1>0. /\ \A i \in Instances : Created(i) => Created(i)'
      /\ Instance(p) \in Instances /\ Instance(p) # Nil
      /\ \A q \in Processes : Instance(q) \in Instances
      /\ Role(p) = "server" => p = <<"server", Instance(p)>>
  BY CreatedStays, ProcessNames
<1>a. SUFFICES ASSUME pc'[p] \in Using, pc[p] \notin Using PROVE Created(Instance(p))'
  <2>1. \A q \in Processes : q # p => pc'[q] = pc[q]
    BY DEF PoolInv, ProcessTypes, Step, Find, Scan, Refresh, Claim, Replace, ClearServer,
       ClearClient, PublishNew, Register, Missed, ReadPid, Check, Goto, Rescan, Publish
  <2>2. QED
    BY <2>1, <1>0 DEF PoolInv, CreatedOnce
<1> USE <1>0, <1>a DEF PoolInv, SlotTypes, ProcessTypes, CreatedOnce, Creating, Using, Goto
<1>1. CASE Scan(p)
  <2>1. index[seen[p].slot] = Instance(p) /\ seen[p].slot \in Slots
    BY <1>1 DEF Scan, AfterScan
  <2>2. QED
    BY <2>1
<1>2. CASE Claim(p) \/ PublishNew(p)
  <2>1. pc'[p] = "found" /\ Role(p) = "server"
    BY <1>2 DEF Claim, PublishNew, Publish, Rescan, MayCreate
  <2>2. QED
    BY <2>1 DEF Created
<1>3. CASE ~(Scan(p) \/ Claim(p) \/ PublishNew(p))
  BY <1>3 DEF Step, Find, Refresh, Replace, ClearServer, ClearClient, Register, Missed,
     ReadPid, Check, Rescan
<1>4. QED
  BY <1>1, <1>2, <1>3

(* An index that is in a slot was there before, or its server creates it.  *)
LEMMA IndexKept ==
  ASSUME PoolInv, NEW p \in Processes, Step(p)
  PROVE  (\A s \in Slots : index[s] # Nil => Created(index[s]))'
<1>1. \A i \in Instances : Created(i) => Created(i)'
  BY CreatedStays
<1>2. CASE index' = index \/ index' = [index EXCEPT ![seen[p].slot] = Nil]
  BY <1>1, <1>2 DEF PoolInv, SlotTypes, ProcessTypes, CreatedOnce
<1>3. CASE index' # index /\ index' # [index EXCEPT ![seen[p].slot] = Nil]
  <2>1. /\ Claim(p) \/ PublishNew(p)
        /\ index' = [index EXCEPT ![seen[p].slot] = Instance(p)] /\ pc'[p] = "found"
    BY <1>3 DEF PoolInv, ProcessTypes, Step, Find, Scan, Refresh, Claim, Replace, ClearServer,
       ClearClient, PublishNew, Register, Missed, ReadPid, Check, Goto, Rescan, Publish, slots
  <2>2. Created(Instance(p))'
    BY <2>1, UsingKept DEF Using
  <2>3. QED
    BY <1>1, <2>1, <2>2 DEF PoolInv, SlotTypes, ProcessTypes, CreatedOnce
<1>4. QED
  BY <1>2, <1>3

-----------------------------------------------------------------------------
(* The three states of a slot.  A slot that is being replaced is given its *)
(* index by the process that cleared it, or not at all.                    *)
LEMMA SlotsKept ==
  ASSUME PoolInv, NEW p \in Processes, Step(p), ~misplaced'
  PROVE  SlotsMatch'
<1>1. /\ \A q \in Processes : Mine(q) # Nil /\ (q # p => Mine(q) # Mine(p))
      /\ Instance(p) \in Instances /\ Instance(p) # Nil /\ p = <<Role(p), Instance(p)>>
      /\ Role(p) \in {"server", "client"}
      /\ Nil \notin Processes
  BY StampTypes, ProcessNames, PoolAssumption DEF PoolInv, ProcessTypes, Mine
<1>2. /\ \A q \in Processes : calls'[q] = calls[q] \/ (q = p /\ pc'[p] = "scan")
      /\ \A q \in Processes : q # p => pc'[q] = pc[q] /\ seen'[q] = seen[q]
      /\ ~misplaced
  BY DEF PoolInv, SlotTypes, ProcessTypes, Step, Find, Scan, Refresh, Claim, Replace, ClearServer,
     ClearClient, PublishNew, Register, Missed, ReadPid, Check, Goto, Rescan, Publish, slots
<1>3. \A q \in Processes : Mine(q)' = Mine(q) \/ (q = p /\ pc'[p] = "scan")
  BY <1>2 DEF Mine
<1> HIDE DEF Mine
<1> USE <1>1, <1>2, <1>3 DEF PoolInv, SlotTypes, ProcessTypes, SlotsMatch, Replacing, Goto, slots
<1>4. CASE Find(p)
  BY <1>4 DEF Find, Rescan
<1>5. CASE Scan(p)
  BY <1>5 DEF Scan, AfterScan
<1>6. CASE Refresh(p)
  BY <1>6 DEF Refresh, Rescan
<1>7. CASE Claim(p)
  BY <1>7 DEF Claim, Publish, Rescan
<1>8. CASE Replace(p)
  BY <1>8 DEF Replace
<1>9. CASE ClearServer(p)
  BY <1>9 DEF ClearServer
<1>10. CASE ClearClient(p)
  BY <1>10 DEF ClearClient
<1>11. CASE PublishNew(p)
  <2> DEFINE s == seen[p].slot
  <2>0. s \in Slots
    OBVIOUS
  <2>1. CASE Replacing(p)
    <3>1. /\ index' = [index EXCEPT ![s] = Instance(p)]
          /\ stamp' = [stamp EXCEPT ![s] = Mine(p)]
          /\ serverPid[s] = Nil /\ clientPid[s] = Nil
          /\ UNCHANGED <<serverPid, clientPid>> /\ pc' = [pc EXCEPT ![p] = "found"]
      BY <1>11, <2>1 DEF PublishNew, Publish
    <3>2. QED
      BY <3>1, <2>0
  <2>2. CASE ~Replacing(p)
    <3>1. UNCHANGED <<index, stamp, serverPid, clientPid>> /\ pc'[p] = "scan"
      BY <1>11, <2>2 DEF PublishNew, Rescan
    <3>2. \A q \in Processes : q # p /\ Replacing(q)' => Replacing(q)
      BY <3>1
    <3>3. QED
      BY <3>1, <3>2
  <2>3. QED
    BY <2>1, <2>2
<1>12. CASE Register(p)
  <2> DEFINE s == seen[p].slot
  <2>1. /\ s \in Slots /\ index[s] = Instance(p)
        /\ UNCHANGED <<index, stamp>> /\ pc' = [pc EXCEPT ![p] = "find"]
    BY <1>12 DEF Register
  <2>2. CASE Role(p) = "server"
    <3>1. serverPid' = [serverPid EXCEPT ![s] = <<"server", index[s]>>] /\ UNCHANGED clientPid
      BY <1>12, <2>1, <2>2 DEF Register
    <3>2. QED
      BY <2>1, <3>1
  <2>3. CASE Role(p) = "client"
    <3>1. clientPid' = [clientPid EXCEPT ![s] = <<"client", index[s]>>] /\ UNCHANGED serverPid
      BY <1>12, <2>1, <2>3 DEF Register
    <3>2. QED
      BY <2>1, <3>1
  <2>4. QED
    BY <2>2, <2>3
<1>13. CASE Missed(p)
  BY <1>13 DEF Missed
<1>14. CASE ReadPid(p)
  BY <1>14 DEF ReadPid
<1>15. CASE Check(p)
  BY <1>15 DEF Check
<1>16. QED
  BY <1>4, <1>5, <1>6, <1>7, <1>8, <1>9, <1>10, <1>11, <1>12, <1>13, <1>14, <1>15 DEF Step

(* What was read is right, or the slot is lost to the instance for ever.   *)
LEMMA AnswersKept ==
  ASSUME PoolInv, NEW p \in Processes, Step(p), ~misplaced'
  PROVE  AnswersMatch'
<1>1. /\ \A q \in Processes : q # p => pc'[q] = pc[q] /\ seen'[q] = seen[q] /\ pid'[q] = pid[q]
      /\ \A q \in Processes : q # p => answer'[q] = answer[q]
      /\ ~misplaced
  BY DEF PoolInv, SlotTypes, ProcessTypes, Step, Find, Scan, Refresh, Claim, Replace, ClearServer,
     ClearClient, PublishNew, Register, Missed, ReadPid, Check, Goto, Rescan, Publish, slots
<1>2. \A q \in Processes, s \in Slots :
        pc[q] = "check" /\ index[s] # Instance(q) => index'[s] # Instance(q)
  <2> SUFFICES ASSUME NEW q \in Processes, NEW s \in Slots, pc[q] = "check",
                      index[s] # Instance(q), index'[s] = Instance(q)
               PROVE  FALSE
    OBVIOUS
  <2>1. Created(Instance(q)) /\ Instance(q) # Nil
    BY ProcessNames DEF PoolInv, CreatedOnce, Using
  <2>2. pc[p] \in Creating /\ Instance(p) = Instance(q) /\ pc[p] # "found"
    BY <2>1 DEF PoolInv, SlotTypes, Step, Find, Scan, Refresh, Claim, Replace, ClearServer,
       ClearClient, PublishNew, Register, Missed, ReadPid, Check, Goto, Rescan, Publish, slots,
       Creating
  <2>3. p = <<"server", Instance(q)>> /\ ~asks[p]
    BY <2>2, ProcessNames DEF PoolInv, CreatedOnce, MayCreate
  <2>4. QED
    BY <2>1, <2>2, <2>3 DEF Created
<1> USE <1>1 DEF PoolInv, SlotTypes, ProcessTypes, AnswersMatch, Goto
<1>3. CASE ReadPid(p)
  <2>1. index[seen[p].slot] = Instance(p) => pid'[p] \in {Nil, Peer(p)}
    BY <1>3, ProcessNames DEF ReadPid, SlotsMatch, Peer
  <2>2. QED
    BY <1>3, <2>1 DEF ReadPid, slots
<1>4. CASE Check(p)
  BY <1>4 DEF Check, slots
<1>5. CASE ~ReadPid(p) /\ ~Check(p)
  <2>1. UNCHANGED answer /\ pc'[p] # "check"
    BY <1>5 DEF Step, Find, Scan, Refresh, Claim, Replace, ClearServer,
       ClearClient, PublishNew, Register, Missed, Rescan, Publish, AfterScan
  <2>2. QED
    BY <1>2, <2>1
<1>6. QED
  BY <1>3, <1>4, <1>5

-----------------------------------------------------------------------------
LEMMA PoolStep == PoolInv /\ [Next]_vars => PoolInv'
<1> SUFFICES ASSUME PoolInv, [Next]_vars PROVE PoolInv'
  OBVIOUS
<1>1. ASSUME NEW p \in Processes, Step(p) PROVE PoolInv'
  BY <1>1, SlotTypesKept, ProcessTypesKept, CreatingKept, UsingKept, IndexKept, SlotsKept,
     AnswersKept DEF PoolInv, CreatedOnce
<1>2. CASE UNCHANGED vars
  BY <1>2 DEF vars, slots, PoolInv, SlotTypes, ProcessTypes, CreatedOnce, Created, MayCreate,
     SlotsMatch, Replacing, Mine, AnswersMatch
<1>3. QED
  BY <1>1, <1>2 DEF Next, Finished

THEOREM PoolInvariance == Spec => []PoolInv
BY PoolInit, PoolStep, PTL DEF Spec

(* For any number of pipes, processes and slots: no slot pairs a pipe with *)
(* the process of another one and no query answers with such a process, as *)
(* long as no ID was stored in a slot that had changed hands.              *)
THEOREM PeersAlwaysMatch == Spec => []PeersMatch
<1>1. PoolInv => PeersMatch
  BY DEF PoolInv, SlotsMatch, AnswersMatch, PeersMatch
<1>2. QED
  BY <1>1, PoolInvariance, PTL

-----------------------------------------------------------------------------
(* The comparison of handles.                                              *)
Critical == {"open", "queryFirst", "querySecond", "close", "unlock"}
CompareLabels == Critical \cup {"start", "second", "lock", "closeLate", "done"}
UserLabels == {"start", "change", "release", "done"}

(* The third handles that are open.                                        *)
Thirds(o) == {t \in Comparers : hClosing[t] /\ hPair[t][1] = o}

CompareTypes ==
  /\ hPair \in [Comparers -> Objects \X Objects]
  /\ hSpare \in [Objects -> Nat]
  /\ hTemp \in [Objects -> Nat]
  /\ hPc \in [H!Callers -> CompareLabels \cup UserLabels]
  /\ hFirst \in [Comparers -> Nat]
  /\ hClosing \in [Comparers -> BOOLEAN]
  /\ hAnswer \in [Comparers -> BOOLEAN]
  /\ hDisturbed \in [Comparers -> BOOLEAN]
  /\ hFailed \in [Comparers -> BOOLEAN]
  /\ \A o \in Objects : hTemp[o] = Cardinality(Thirds(o))

(* Who compares is alone, who closes or duplicates is not disturbed by it. *)
CompareLock ==
  /\ \A t \in Comparers : /\ hPc[t] \in CompareLabels
                          /\ hPc[t] \in Critical <=> hExclusive = {t}
                          /\ t \in hExclusive => hExclusive = {t}
  /\ \A u \in Users : /\ hPc[u] \in UserLabels
                      /\ hPc[u] \in {"change", "release"} => u \in hShared
  /\ hExclusive # {} => hShared = {}

(* What a comparison that nobody disturbed knows at each of its steps.     *)
Undisturbed(t) ==
  LET o == hPair[t][1]
      p == hPair[t][2]
  IN  /\ hPc[t] = "queryFirst" => hClosing[t] \/ o = p \/ H!HandleCount(p) = H!HandleCount(o) + 1
      /\ hPc[t] = "querySecond" =>
           /\ hFirst[t] = H!HandleCount(o)
           /\ hClosing[t] \/ o = p \/ H!HandleCount(p) = H!HandleCount(o) + 1
      /\ hPc[t] = "close" => o = p \/ H!HandleCount(p) = H!HandleCount(o)
      /\ hPc[t] \in {"unlock", "closeLate", "done"} => (hAnswer[t] <=> ~hFailed[t] /\ o = p)

CompareSteps ==
  \A t \in Comparers :
    /\ hPc[t] \in {"start", "second", "lock", "open"} => ~hClosing[t]
    /\ hPc[t] \in {"close", "closeLate"} => hClosing[t]
    /\ hPc[t] \notin {"unlock", "closeLate", "done"} => ~hAnswer[t] /\ ~hFailed[t]
    /\ ~hDisturbed[t] => Undisturbed(t)

CompareInv == CompareTypes /\ CompareLock /\ CompareSteps

-----------------------------------------------------------------------------
(* Handle counts.                                                          *)
Compared(o) ==
  Cardinality({t \in Comparers : hPair[t][1] = o}) + Cardinality({t \in Comparers : hPair[t][2] = o})

LEMMA CountIs ==
  ASSUME NEW o
  PROVE  /\ H!HandleCount(o) = hSpare[o] + hTemp[o]
                                + Cardinality({t \in Comparers : hPair[t][1] = o})
                                + Cardinality({t \in Comparers : hPair[t][2] = o})
         /\ H!HandleCount(o)' = hSpare'[o] + hTemp'[o]
                                 + Cardinality({t \in Comparers : hPair'[t][1] = o})
                                 + Cardinality({t \in Comparers : hPair'[t][2] = o})
<1>1. ASSUME NEW S PROVE H!Cardinality(S) = Cardinality(S)
  BY DEF H!Cardinality, Cardinality
<1>. QED  BY <1>1 DEF H!HandleCount

LEMMA CountSplits ==
  ASSUME CompareTypes, NEW o \in Objects
  PROVE  /\ H!HandleCount(o) = hSpare[o] + hTemp[o] + Compared(o)
         /\ Compared(o) \in Nat /\ H!HandleCount(o) \in Nat
<1>. DEFINE A == {t \in Comparers : hPair[t][1] = o}
            B == {t \in Comparers : hPair[t][2] = o}
<1>1. IsFiniteSet(A) /\ IsFiniteSet(B)
  BY CompareAssumption, FS_Subset
<1>2. Cardinality(A) \in Nat /\ Cardinality(B) \in Nat
  BY <1>1, FS_CardinalityType
<1>3. /\ H!HandleCount(o) = hSpare[o] + hTemp[o] + Cardinality(A) + Cardinality(B)
      /\ Compared(o) = Cardinality(A) + Cardinality(B)
  BY CountIs DEF Compared
<1>4. hSpare[o] \in Nat /\ hTemp[o] \in Nat
  BY DEF CompareTypes
<1>. HIDE DEF A, B
<1>. QED  BY <1>2, <1>3, <1>4

(* Two handles of one object are two.                                      *)
LEMMA TwoHandles ==
  ASSUME CompareTypes, NEW t \in Comparers, hPair[t][1] = hPair[t][2]
  PROVE  H!HandleCount(hPair[t][1]) # 1
<1>. DEFINE o == hPair[t][1]
            A == {u \in Comparers : hPair[u][1] = o}
            B == {u \in Comparers : hPair[u][2] = o}
<1>1. IsFiniteSet(A) /\ IsFiniteSet(B)
  BY CompareAssumption, FS_Subset
<1>2. A # {} /\ B # {}
  OBVIOUS
<1>3. /\ Cardinality(A) \in Nat /\ Cardinality(A) # 0
      /\ Cardinality(B) \in Nat /\ Cardinality(B) # 0
  BY <1>1, <1>2, FS_CardinalityType, FS_EmptySet
<1>4. hSpare[o] \in Nat /\ hTemp[o] \in Nat
  BY DEF CompareTypes
<1>5. H!HandleCount(o) = hSpare[o] + hTemp[o] + Cardinality(A) + Cardinality(B)
  BY CountIs
<1>. HIDE DEF A, B, o
<1>6. H!HandleCount(o) # 1
  BY <1>3, <1>4, <1>5
<1>. QED  BY <1>6 DEF o

LEMMA ThirdsFinite ==
  ASSUME NEW o
  PROVE  IsFiniteSet(Thirds(o)) /\ Cardinality(Thirds(o)) \in Nat
BY CompareAssumption, FS_Subset, FS_CardinalityType DEF Thirds

(* A third handle that is opened or closed is counted, and no other.       *)
LEMMA ThirdOpened ==
  ASSUME CompareTypes, NEW t \in Comparers, ~hClosing[t], hPair' = hPair,
         hClosing' = [hClosing EXCEPT ![t] = TRUE],
         hTemp' = [hTemp EXCEPT ![hPair[t][1]] = hTemp[hPair[t][1]] + 1]
  PROVE  hTemp' \in [Objects -> Nat] /\ \A o \in Objects : hTemp'[o] = Cardinality(Thirds(o)')
<1>1. ASSUME NEW o \in Objects PROVE hTemp'[o] = Cardinality(Thirds(o)')
  <2>1. hTemp[o] = Cardinality(Thirds(o)) /\ hTemp[o] \in Nat /\ IsFiniteSet(Thirds(o))
    BY ThirdsFinite DEF CompareTypes
  <2>2. CASE o = hPair[t][1]
    <3>1. Thirds(o)' = Thirds(o) \cup {t} /\ t \notin Thirds(o)
      BY <2>2 DEF Thirds, CompareTypes
    <3>2. Cardinality(Thirds(o)') = Cardinality(Thirds(o)) + 1
      BY <2>1, <3>1, FS_AddElement
    <3>3. hTemp'[o] = hTemp[o] + 1
      BY <2>2 DEF CompareTypes
    <3>. QED  BY <2>1, <3>2, <3>3
  <2>3. CASE o # hPair[t][1]
    <3>1. Thirds(o)' = Thirds(o)
      BY <2>3 DEF Thirds, CompareTypes
    <3>. QED  BY <2>1, <2>3, <3>1 DEF CompareTypes
  <2>. QED  BY <2>2, <2>3
<1>. QED  BY <1>1 DEF CompareTypes

LEMMA ThirdClosed ==
  ASSUME CompareTypes, NEW t \in Comparers, hClosing[t], hPair' = hPair,
         hClosing' = [hClosing EXCEPT ![t] = FALSE],
         hTemp' = [hTemp EXCEPT ![hPair[t][1]] = hTemp[hPair[t][1]] - 1]
  PROVE  hTemp' \in [Objects -> Nat] /\ \A o \in Objects : hTemp'[o] = Cardinality(Thirds(o)')
<1>1. ASSUME NEW o \in Objects PROVE hTemp'[o] \in Nat /\ hTemp'[o] = Cardinality(Thirds(o)')
  <2>1. hTemp[o] = Cardinality(Thirds(o)) /\ hTemp[o] \in Nat /\ IsFiniteSet(Thirds(o))
    BY ThirdsFinite DEF CompareTypes
  <2>2. CASE o = hPair[t][1]
    <3>1. Thirds(o)' = Thirds(o) \ {t} /\ t \in Thirds(o)
      BY <2>2 DEF Thirds, CompareTypes
    <3>2. Cardinality(Thirds(o)') = Cardinality(Thirds(o)) - 1 /\ IsFiniteSet(Thirds(o)')
      BY <2>1, <3>1, FS_RemoveElement
    <3>3. Cardinality(Thirds(o)') \in Nat
      BY <3>2, FS_CardinalityType
    <3>4. hTemp'[o] = hTemp[o] - 1
      BY <2>2 DEF CompareTypes
    <3>. QED  BY <2>1, <3>2, <3>3, <3>4
  <2>3. CASE o # hPair[t][1]
    <3>1. Thirds(o)' = Thirds(o)
      BY <2>3 DEF Thirds, CompareTypes
    <3>. QED  BY <2>1, <2>3, <3>1 DEF CompareTypes
  <2>. QED  BY <2>2, <2>3
<1>. QED  BY <1>1 DEF CompareTypes

-----------------------------------------------------------------------------
(* The invariant.                                                          *)
LEMMA CompareInitInv == H!Init => CompareInv
<1>. SUFFICES ASSUME H!Init PROVE CompareInv
  OBVIOUS
<1>1. \A o \in Objects : hTemp[o] = Cardinality(Thirds(o))
  <2>1. ASSUME NEW o \in Objects PROVE Thirds(o) = {}
    BY DEF Thirds, H!Init
  <2>. QED  BY <2>1, FS_EmptySet DEF H!Init
<1>2. \A t \in H!Callers : hPc[t] = "start"
  BY DEF H!Init
<1>3. CompareTypes
  BY CompareAssumption, <1>1 DEF H!Init, CompareTypes, CompareLabels, UserLabels, Critical
<1>4. CompareLock
  BY <1>2 DEF H!Init, CompareLock, CompareLabels, UserLabels, Critical, H!Callers
<1>5. CompareSteps
  BY <1>2 DEF H!Init, CompareSteps, Undisturbed, H!Callers
<1>. QED  BY <1>3, <1>4, <1>5 DEF CompareInv

LEMMA CompareTypesStep == CompareInv /\ H!Next => CompareTypes'
<1>. SUFFICES ASSUME CompareInv, H!Next PROVE CompareTypes'
  OBVIOUS
<1>. USE CompareAssumption DEF CompareInv, CompareTypes, CompareLabels, UserLabels, Critical, H!Goto
<1>1. ASSUME NEW u \in Users, H!AcquireShared(u) \/ H!ReleaseShared(u) PROVE CompareTypes'
  BY <1>1 DEF H!AcquireShared, H!ReleaseShared, Thirds
<1>2. ASSUME NEW u \in Users, NEW o \in Objects,
             H!CloseHandle(u, o) \/ H!DuplicateHandle(u, o) \/ H!DuplicateElsewhere(u, o)
      PROVE  CompareTypes'
  <2>1. hSpare' \in [Objects -> Nat]
    <3>1. hSpare[o] \in Nat /\ (hSpare[o] > 0 => hSpare[o] - 1 \in Nat) /\ hSpare[o] + 1 \in Nat
      OBVIOUS
    <3>2. \/ hSpare[o] > 0 /\ hSpare' = [hSpare EXCEPT ![o] = hSpare[o] - 1]
          \/ hSpare' = [hSpare EXCEPT ![o] = hSpare[o] + 1]
      BY <1>2 DEF H!CloseHandle, H!DuplicateHandle, H!DuplicateElsewhere
    <3>. QED  BY <3>1, <3>2
  <2>3. hPc' \in [H!Callers -> CompareLabels \cup UserLabels]
    BY <1>2 DEF H!CloseHandle, H!DuplicateHandle, H!DuplicateElsewhere
  <2>4. hDisturbed' \in [Comparers -> BOOLEAN]
    BY <1>2 DEF H!CloseHandle, H!DuplicateHandle, H!DuplicateElsewhere, H!Disturb
  <2>2. UNCHANGED <<hPair, hTemp, hFirst, hClosing, hAnswer, hFailed>>
    BY <1>2 DEF H!CloseHandle, H!DuplicateHandle, H!DuplicateElsewhere
  <2>. QED  BY <2>1, <2>2, <2>3, <2>4 DEF Thirds
<1>3. ASSUME NEW t \in Comparers,
             \/ H!Precheck(t, 1, "second") \/ H!Precheck(t, 2, "lock") \/ H!AcquireExclusive(t)
             \/ H!QuerySecond(t) \/ H!ReleaseExclusive(t)
      PROVE  CompareTypes'
  <2>1. UNCHANGED <<hPair, hSpare, hTemp, hFirst, hClosing, hDisturbed, hFailed>>
    BY <1>3 DEF H!Precheck, H!AcquireExclusive, H!QuerySecond, H!ReleaseExclusive
  <2>2. hPc' \in [H!Callers -> CompareLabels \cup UserLabels]
    BY <1>3 DEF H!Precheck, H!AcquireExclusive, H!QuerySecond, H!ReleaseExclusive
  <2>3. hAnswer' \in [Comparers -> BOOLEAN]
    BY <1>3 DEF H!Precheck, H!AcquireExclusive, H!QuerySecond, H!ReleaseExclusive
  <2>. QED  BY <2>1, <2>2, <2>3 DEF Thirds
<1>4. ASSUME NEW t \in Comparers, H!QueryFirst(t) PROVE CompareTypes'
  BY <1>4, CountSplits DEF H!QueryFirst, Thirds
<1>5. ASSUME NEW t \in Comparers, H!Open(t) PROVE CompareTypes'
  <2>1. ~hClosing[t]
    BY <1>5 DEF H!Open, CompareSteps
  <2>2. hTemp' \in [Objects -> Nat] /\ \A o \in Objects : hTemp'[o] = Cardinality(Thirds(o)')
    BY <1>5, <2>1, ThirdOpened DEF H!Open
  <2>. QED  BY <1>5, <2>2 DEF H!Open
<1>6. ASSUME NEW t \in Comparers, H!Close(t) \/ H!CloseLate(t) PROVE CompareTypes'
  <2>1. hClosing[t]
    BY <1>6 DEF H!Close, H!CloseLate, CompareSteps
  <2>2. hTemp' \in [Objects -> Nat] /\ \A o \in Objects : hTemp'[o] = Cardinality(Thirds(o)')
    BY <1>6, <2>1, ThirdClosed DEF H!Close, H!CloseLate
  <2>. QED  BY <1>6, <2>2 DEF H!Close, H!CloseLate, H!Disturb
<1>7. ASSUME NEW t \in Comparers, H!CallFails(t) PROVE CompareTypes'
  BY <1>7 DEF H!CallFails, Thirds
<1>8. CASE H!Finished
  BY <1>8 DEF H!Finished, H!vars, Thirds
<1>. QED  BY <1>1, <1>2, <1>3, <1>4, <1>5, <1>6, <1>7, <1>8 DEF H!Next, H!UserStep, H!ComparerStep

LEMMA CompareLockStep == CompareInv /\ H!Next => CompareLock'
<1>. SUFFICES ASSUME CompareInv, H!Next PROVE CompareLock'
  OBVIOUS
<1>. USE CompareAssumption DEF CompareInv, CompareTypes, CompareLabels, UserLabels, Critical,
         CompareLock, H!Goto, H!Callers
<1>1. ASSUME NEW u \in Users, NEW o \in Objects,
             \/ H!AcquireShared(u) \/ H!ReleaseShared(u)
             \/ H!CloseHandle(u, o) \/ H!DuplicateHandle(u, o) \/ H!DuplicateElsewhere(u, o)
      PROVE  CompareLock'
  BY <1>1 DEF H!AcquireShared, H!ReleaseShared, H!CloseHandle, H!DuplicateHandle,
         H!DuplicateElsewhere
<1>2. ASSUME NEW u \in Users, H!AcquireShared(u) \/ H!ReleaseShared(u) PROVE CompareLock'
  BY <1>2 DEF H!AcquireShared, H!ReleaseShared
<1>3. ASSUME NEW t \in Comparers, H!AcquireExclusive(t) PROVE CompareLock'
  BY <1>3 DEF H!AcquireExclusive
<1>4. ASSUME NEW t \in Comparers, H!ReleaseExclusive(t) PROVE CompareLock'
  BY <1>4 DEF H!ReleaseExclusive
<1>5. ASSUME NEW t \in Comparers,
             \/ H!Precheck(t, 1, "second") \/ H!Precheck(t, 2, "lock") \/ H!Open(t)
             \/ H!QueryFirst(t) \/ H!QuerySecond(t) \/ H!Close(t) \/ H!CloseLate(t)
             \/ H!CallFails(t)
      PROVE  CompareLock'
  BY <1>5 DEF H!Precheck, H!Open, H!QueryFirst, H!QuerySecond, H!Close, H!CloseLate, H!CallFails
<1>6. CASE H!Finished
  BY <1>6 DEF H!Finished, H!vars
<1>. QED  BY <1>1, <1>2, <1>3, <1>4, <1>5, <1>6 DEF H!Next, H!UserStep, H!ComparerStep

(* What a step leaves to a comparer that does not make it.                 *)
Kept(t) ==
  /\ hPc'[t] = hPc[t] /\ hClosing'[t] = hClosing[t] /\ hAnswer'[t] = hAnswer[t]
  /\ hFirst'[t] = hFirst[t] /\ hFailed'[t] = hFailed[t]
  /\ ~hDisturbed'[t] => ~hDisturbed[t]
  /\ hPair'[t] = hPair[t]
  /\ ~hDisturbed'[t] /\ hPc[t] \in Critical =>
       \A o \in {hPair[t][1], hPair[t][2]} : H!HandleCount(o)' = H!HandleCount(o)

StepsOf(t) ==
  /\ hPc[t] \in {"start", "second", "lock", "open"} => ~hClosing[t]
  /\ hPc[t] \in {"close", "closeLate"} => hClosing[t]
  /\ hPc[t] \notin {"unlock", "closeLate", "done"} => ~hAnswer[t] /\ ~hFailed[t]
  /\ ~hDisturbed[t] => Undisturbed(t)

LEMMA KeptSteps ==
  ASSUME CompareInv, NEW t \in Comparers, Kept(t)
  PROVE  StepsOf(t)'
<1>1. StepsOf(t)
  BY DEF CompareInv, CompareSteps, StepsOf
<1>2. ~hDisturbed'[t] => Undisturbed(t)'
  <2>. SUFFICES ASSUME ~hDisturbed'[t] PROVE Undisturbed(t)'
    OBVIOUS
  <2>1. Undisturbed(t) /\ hPair'[t] = hPair[t] /\ hPc'[t] = hPc[t] /\ hClosing'[t] = hClosing[t]
        /\ hAnswer'[t] = hAnswer[t] /\ hFirst'[t] = hFirst[t] /\ hFailed'[t] = hFailed[t]
    BY <1>1 DEF Kept, StepsOf
  <2>2. CASE hPc[t] \in Critical
    <3>1. \A o \in {hPair[t][1], hPair[t][2]} : H!HandleCount(o)' = H!HandleCount(o)
      BY <2>2 DEF Kept
    <3>. QED  BY <2>1, <3>1 DEF Undisturbed
  <2>3. CASE hPc[t] \notin Critical
    BY <2>1, <2>3 DEF Undisturbed, Critical
  <2>. QED  BY <2>2, <2>3
<1>. QED  BY <1>1, <1>2 DEF Kept, StepsOf

(* The count of an object changes by its own handles only.                 *)
LEMMA CountMoves ==
  ASSUME CompareTypes, CompareTypes', hPair' = hPair, NEW o \in Objects
  PROVE  /\ H!HandleCount(o) = hSpare[o] + hTemp[o] + Compared(o)
         /\ H!HandleCount(o)' = hSpare'[o] + hTemp'[o] + Compared(o)
         /\ Compared(o) \in Nat
<1>. DEFINE A == {t \in Comparers : hPair[t][1] = o}
            B == {t \in Comparers : hPair[t][2] = o}
<1>1. IsFiniteSet(A) /\ IsFiniteSet(B)
  BY CompareAssumption, FS_Subset
<1>2. Cardinality(A) \in Nat /\ Cardinality(B) \in Nat
  BY <1>1, FS_CardinalityType
<1>3. /\ H!HandleCount(o)' = hSpare'[o] + hTemp'[o] + Cardinality(A) + Cardinality(B)
      /\ Compared(o) = Cardinality(A) + Cardinality(B)
  BY CountIs DEF Compared
<1>4. hSpare'[o] \in Nat /\ hTemp'[o] \in Nat
  BY DEF CompareTypes
<1>. HIDE DEF A, B
<1>5. H!HandleCount(o)' = hSpare'[o] + hTemp'[o] + Compared(o)
  BY <1>2, <1>3, <1>4
<1>. QED  BY <1>5, CountSplits

(* A count that changes without the lock disturbs who has it.              *)
LEMMA DisturbedKept ==
  ASSUME CompareInv, NEW o \in Objects, H!Disturb(o), NEW v \in Comparers,
         hPair' = hPair, hPc'[v] = hPc[v], hClosing'[v] = hClosing[v],
         UNCHANGED <<hFirst, hAnswer, hFailed>>,
         \A p \in Objects : p # o => H!HandleCount(p)' = H!HandleCount(p)
  PROVE  Kept(v)
<1>1. hDisturbed'[v] = (hDisturbed[v] \/ (v \in hExclusive /\ o \in {hPair[v][1], hPair[v][2]}))
  BY DEF H!Disturb
<1>2. hPc[v] \in Critical => v \in hExclusive
  BY DEF CompareInv, CompareLock
<1>3. hPair[v][1] \in Objects /\ hPair[v][2] \in Objects
  BY DEF CompareInv, CompareTypes
<1>. QED  BY <1>1, <1>2, <1>3 DEF Kept

LEMMA UserKeeps ==
  ASSUME CompareInv, CompareInv => CompareTypes', NEW u \in Users, H!UserStep(u),
         NEW v \in Comparers
  PROVE  Kept(v)
<1>. USE CompareAssumption DEF H!Callers, H!Goto
<1>1. u # v /\ CompareTypes /\ CompareTypes' /\ hPc \in [H!Callers -> CompareLabels \cup UserLabels]
  BY DEF CompareInv, CompareTypes
<1>2. CASE H!AcquireShared(u) \/ H!ReleaseShared(u)
  <2>1. UNCHANGED <<hPair, hSpare, hTemp, hFirst, hClosing, hAnswer, hDisturbed, hFailed>> /\ hPc'[v] = hPc[v]
    BY <1>1, <1>2 DEF H!AcquireShared, H!ReleaseShared
  <2>. QED  BY <2>1 DEF Kept, H!HandleCount
<1>3. ASSUME NEW o \in Objects, H!CloseHandle(u, o) \/ H!DuplicateHandle(u, o) PROVE Kept(v)
  <2>1. /\ UNCHANGED <<hPair, hTemp, hFirst, hClosing, hAnswer, hDisturbed, hFailed>> /\ hPc'[v] = hPc[v]
        /\ hPc[u] = "change"
    BY <1>1, <1>3 DEF H!CloseHandle, H!DuplicateHandle
  <2>2. hPc[v] \notin Critical
    BY <2>1 DEF CompareInv, CompareLock
  <2>. QED  BY <2>1, <2>2 DEF Kept
<1>4. ASSUME NEW o \in Objects, H!DuplicateElsewhere(u, o) PROVE Kept(v)
  <2>1. /\ UNCHANGED <<hPair, hTemp, hFirst, hClosing, hAnswer, hFailed>> /\ hPc'[v] = hPc[v]
        /\ H!Disturb(o) /\ \A p \in Objects : p # o => hSpare'[p] = hSpare[p]
    BY <1>1, <1>4 DEF H!DuplicateElsewhere, CompareTypes
  <2>2. \A p \in Objects : p # o => H!HandleCount(p)' = H!HandleCount(p)
    BY <1>1, <2>1, CountMoves
  <2>. QED  BY <2>1, <2>2, DisturbedKept
<1>. QED  BY <1>2, <1>3, <1>4 DEF H!UserStep

LEMMA ComparerKeeps ==
  ASSUME CompareInv, CompareInv => CompareTypes', NEW t \in Comparers, H!ComparerStep(t),
         NEW v \in Comparers, v # t
  PROVE  Kept(v)
<1>. USE CompareAssumption DEF H!Callers, H!Goto
<1>1. CompareTypes /\ CompareTypes' /\ hPc \in [H!Callers -> CompareLabels \cup UserLabels]
  BY DEF CompareInv, CompareTypes
<1>2. CASE \/ H!Precheck(t, 1, "second") \/ H!Precheck(t, 2, "lock") \/ H!AcquireExclusive(t)
           \/ H!QueryFirst(t) \/ H!QuerySecond(t) \/ H!ReleaseExclusive(t) \/ H!CallFails(t)
  <2>1. UNCHANGED <<hPair, hSpare, hTemp, hClosing, hDisturbed>>
    BY <1>2 DEF H!Precheck, H!AcquireExclusive, H!QueryFirst, H!QuerySecond, H!ReleaseExclusive,
          H!CallFails
  <2>2. hPc'[v] = hPc[v] /\ hFirst'[v] = hFirst[v] /\ hAnswer'[v] = hAnswer[v] /\ hFailed'[v] = hFailed[v]
    BY <1>1, <1>2 DEF H!Precheck, H!AcquireExclusive, H!QueryFirst, H!QuerySecond,
          H!ReleaseExclusive, H!CallFails, CompareTypes
  <2>. QED  BY <2>1, <2>2 DEF Kept, H!HandleCount
<1>3. CASE H!Open(t) \/ H!Close(t)
  <2>1. /\ UNCHANGED <<hPair, hFirst, hAnswer, hDisturbed, hFailed>> /\ hPc'[v] = hPc[v] /\ hClosing'[v] = hClosing[v]
        /\ hPc[t] \in Critical
    BY <1>1, <1>3 DEF H!Open, H!Close, Critical, CompareTypes
  <2>2. hPc[v] \notin Critical
    BY <2>1 DEF CompareInv, CompareLock
  <2>. QED  BY <2>1, <2>2 DEF Kept
<1>4. CASE H!CloseLate(t)
  <2>1. hPair[t][1] \in Objects
    BY <1>1 DEF CompareTypes
  <2>2. /\ UNCHANGED <<hPair, hSpare, hFirst, hAnswer, hFailed>> /\ hPc'[v] = hPc[v] /\ hClosing'[v] = hClosing[v]
        /\ H!Disturb(hPair[t][1]) /\ \A p \in Objects : p # hPair[t][1] => hTemp'[p] = hTemp[p]
    BY <1>1, <1>4 DEF H!CloseLate, CompareTypes
  <2>3. \A p \in Objects : p # hPair[t][1] => H!HandleCount(p)' = H!HandleCount(p)
    BY <1>1, <2>2, CountMoves
  <2>. QED  BY <2>1, <2>2, <2>3, DisturbedKept
<1>. QED  BY <1>2, <1>3, <1>4 DEF H!ComparerStep

(* The comparer that makes the step.                                       *)
LEMMA ComparerSteps ==
  ASSUME CompareInv, CompareInv => CompareTypes', NEW t \in Comparers, H!ComparerStep(t)
  PROVE  StepsOf(t)'
<1>. USE CompareAssumption DEF H!Callers, H!Goto
<1>1. /\ CompareTypes /\ CompareTypes' /\ hPc \in [H!Callers -> CompareLabels \cup UserLabels]
      /\ StepsOf(t) /\ t \in H!Callers
  BY DEF CompareInv, CompareTypes, CompareSteps, StepsOf
<1>. DEFINE o == hPair[t][1]
            p == hPair[t][2]
<1>2. /\ o \in Objects /\ p \in Objects
      /\ H!HandleCount(o) \in Nat /\ H!HandleCount(p) \in Nat
      /\ o = p => H!HandleCount(o) # 1
  BY <1>1, CountSplits, TwoHandles DEF CompareTypes
<1>3. hPair' = hPair
  BY DEF H!ComparerStep, H!Precheck, H!AcquireExclusive, H!Open, H!QueryFirst, H!QuerySecond, H!Close,
         H!ReleaseExclusive, H!CloseLate, H!CallFails
<1>4. UNCHANGED <<hSpare, hTemp>> => H!HandleCount(o)' = H!HandleCount(o) /\ H!HandleCount(p)' = H!HandleCount(p)
  BY <1>3 DEF H!HandleCount
<1>5. ASSUME NEW i \in {1, 2}, NEW next, <<i, next>> \in {<<1, "second">>, <<2, "lock">>},
             H!Precheck(t, i, next)
      PROVE  StepsOf(t)'
  <2>1. /\ UNCHANGED <<hClosing, hAnswer, hDisturbed, hFailed>> /\ hPc[t] \in {"start", "second"}
        /\ hPc'[t] = IF H!HandleCount(hPair[t][i]) = 1 THEN "done" ELSE next
    BY <1>1, <1>5 DEF H!Precheck
  <2>2. H!HandleCount(hPair[t][i]) = 1 => o # p
    BY <1>2
  <2>. QED  BY <1>1, <1>3, <1>5, <2>1, <2>2 DEF StepsOf, Undisturbed
<1>6. CASE H!AcquireExclusive(t)
  BY <1>1, <1>3, <1>6 DEF H!AcquireExclusive, StepsOf, Undisturbed
<1>7. CASE H!Open(t)
  BY <1>1, <1>3, <1>7 DEF H!Open, StepsOf, Undisturbed, CompareTypes
<1>8. CASE H!QueryFirst(t)
  <2>1. /\ UNCHANGED <<hPair, hSpare, hTemp, hClosing, hAnswer, hDisturbed, hFailed>> /\ hPc[t] = "queryFirst"
        /\ hFirst'[t] = H!HandleCount(o)
        /\ hPc'[t] = IF H!HandleCount(o) = 1 THEN "unlock" ELSE "querySecond"
    BY <1>1, <1>8 DEF H!QueryFirst, CompareTypes
  <2>. QED  BY <1>1, <1>2, <1>4, <2>1 DEF StepsOf, Undisturbed
<1>9. CASE H!QuerySecond(t)
  <2>1. /\ UNCHANGED <<hPair, hSpare, hTemp, hClosing, hFirst, hDisturbed, hFailed>> /\ ~hFailed[t] /\ hPc[t] = "querySecond"
        /\ hAnswer'[t] = (H!HandleCount(p) = hFirst[t] /\ ~hClosing[t])
        /\ hPc'[t] = IF H!HandleCount(p) = hFirst[t] /\ hClosing[t] THEN "close" ELSE "unlock"
    BY <1>1, <1>9 DEF H!QuerySecond, CompareTypes, StepsOf
  <2>2. CASE hPc'[t] = "close"
    BY <1>1, <1>2, <1>4, <2>1, <2>2 DEF StepsOf, Undisturbed
  <2>3. CASE hPc'[t] = "unlock"
    <3>1. PICK m \in Nat, n \in Nat : m = H!HandleCount(o) /\ n = H!HandleCount(p)
      BY <1>2
    <3>2. ~hDisturbed[t] => hFirst[t] = m /\ (hClosing[t] \/ o = p \/ n = m + 1)
      BY <1>1, <2>1, <3>1 DEF StepsOf, Undisturbed
    <3>3. o = p => n = m
      BY <3>1
    <3>4. hAnswer'[t] = (n = hFirst[t] /\ ~hClosing[t]) /\ ~(n = hFirst[t] /\ hClosing[t])
      BY <2>1, <2>3, <3>1
    <3>5. ~hDisturbed[t] => ((n = hFirst[t] /\ ~hClosing[t]) <=> o = p)
      BY <3>1, <3>2, <3>3, <3>4
    <3>6. ~hDisturbed[t] => (hAnswer'[t] <=> o = p)
      BY <3>4, <3>5
    <3>. QED  BY <1>1, <2>1, <2>3, <3>6 DEF StepsOf, Undisturbed
  <2>. QED  BY <2>1, <2>2, <2>3
<1>10. CASE H!Close(t)
  <2>1. /\ UNCHANGED <<hPair, hSpare, hAnswer, hDisturbed, hFailed>> /\ hPc[t] = "close"
        /\ hPc'[t] = "queryFirst" /\ hClosing'[t] = FALSE
        /\ hTemp'[o] = hTemp[o] - 1 /\ \A q \in Objects : q # o => hTemp'[q] = hTemp[q]
    BY <1>1, <1>10 DEF H!Close, CompareTypes
  <2>2. /\ H!HandleCount(o) = hSpare[o] + hTemp[o] + Compared(o)
        /\ H!HandleCount(o)' = hSpare[o] + hTemp'[o] + Compared(o)
        /\ Compared(o) \in Nat /\ hSpare[o] \in Nat /\ hTemp[o] \in Nat
    BY <1>1, <1>2, <2>1, CountMoves DEF CompareTypes
  <2>3. H!HandleCount(o)' = H!HandleCount(o) - 1
    BY <2>1, <2>2
  <2>4. o # p => H!HandleCount(p)' = H!HandleCount(p)
    BY <1>1, <1>2, <2>1, CountMoves
  <2>. QED  BY <1>1, <1>2, <2>1, <2>3, <2>4 DEF StepsOf, Undisturbed
<1>11. CASE H!ReleaseExclusive(t)
  <2>1. /\ UNCHANGED <<hPair, hClosing, hAnswer, hDisturbed, hFailed>> /\ hPc[t] = "unlock"
        /\ hPc'[t] = IF hClosing[t] THEN "closeLate" ELSE "done"
    BY <1>1, <1>11 DEF H!ReleaseExclusive
  <2>. QED  BY <1>1, <2>1 DEF StepsOf, Undisturbed
<1>12. CASE H!CloseLate(t)
  <2>1. /\ UNCHANGED <<hPair, hAnswer, hFailed>> /\ hPc[t] = "closeLate" /\ hPc'[t] = "done"
        /\ ~hDisturbed'[t] => ~hDisturbed[t]
    BY <1>1, <1>12 DEF H!CloseLate, H!Disturb
  <2>. QED  BY <1>1, <2>1 DEF StepsOf, Undisturbed
<1>13. CASE H!CallFails(t)
  <2>1. /\ UNCHANGED <<hPair, hClosing, hAnswer, hDisturbed>> /\ ~hAnswer[t] /\ hFailed'[t]
        /\ hPc'[t] \in {"unlock", "done"}
    BY <1>1, <1>13 DEF H!CallFails, StepsOf, CompareTypes
  <2>. QED  BY <1>1, <2>1 DEF StepsOf, Undisturbed
<1>. QED  BY <1>5, <1>6, <1>7, <1>8, <1>9, <1>10, <1>11, <1>12, <1>13 DEF H!ComparerStep

LEMMA CompareNextInv == CompareInv /\ [H!Next]_(H!vars) => CompareInv'
<1>. SUFFICES ASSUME CompareInv, [H!Next]_(H!vars) PROVE CompareInv'
  OBVIOUS
<1>1. CASE UNCHANGED H!vars
  <2>1. CompareTypes'
    BY <1>1 DEF H!vars, CompareInv, CompareTypes, Thirds
  <2>2. CompareLock'
    BY <1>1 DEF H!vars, CompareInv, CompareLock
  <2>3. CompareSteps'
    BY <1>1 DEF H!vars, CompareInv, CompareSteps, Undisturbed, H!HandleCount
  <2>. QED  BY <2>1, <2>2, <2>3 DEF CompareInv
<1>2. CASE H!Next
  <2>1. CompareTypes' /\ CompareLock'
    BY <1>2, CompareTypesStep, CompareLockStep
  <2>2. ASSUME NEW v \in Comparers PROVE StepsOf(v)'
    <3>1. CASE H!Finished
      BY <3>1 DEF H!Finished, H!vars, CompareInv, CompareSteps, StepsOf, Undisturbed, H!HandleCount
    <3>2. ASSUME NEW u \in Users, H!UserStep(u) PROVE StepsOf(v)'
      BY <2>1, <3>2, UserKeeps, KeptSteps
    <3>3. ASSUME NEW t \in Comparers, H!ComparerStep(t) PROVE StepsOf(v)'
      <4>1. CASE t = v
        BY <2>1, <3>3, <4>1, ComparerSteps
      <4>2. CASE t # v
        BY <2>1, <3>3, <4>2, ComparerKeeps, KeptSteps
      <4>. QED  BY <4>1, <4>2
    <3>. QED  BY <1>2, <3>1, <3>2, <3>3 DEF H!Next
  <2>3. CompareSteps'
    BY <2>2 DEF CompareSteps, StepsOf
  <2>. QED  BY <2>1, <2>3 DEF CompareInv
<1>. QED  BY <1>1, <1>2

(* CompareObjectHandles answers whether both handles are handles of one    *)
(* object, for any number of threads, objects and handles, if nobody opens *)
(* or closes a handle of them without the lock meanwhile.                  *)
THEOREM HandlesComparedRight == H!Spec => []ComparesRight
<1>1. CompareInv => ComparesRight
  BY DEF CompareInv, CompareSteps, Undisturbed, ComparesRight, H!ComparesRight
<1>. QED  BY <1>1, CompareInitInv, CompareNextInv, PTL DEF H!Spec

-----------------------------------------------------------------------------
(* A bucket of wait lists: what WaitOnAddress_proofs proves.               *)

WP == INSTANCE WaitOnAddress_proofs WITH
  head <- aHead, back <- aBack, notify <- aNotify, next <- aNext,
  flag <- aFlag, changed <- aChanged, pc <- aPc, cur <- aCur, item <- aItem,
  wakes <- aWakes, then <- aThen, last <- aLast, timed <- aTimed, calls <- aCalls

(* The bucket of Races is one of WaitOnAddress_proofs.                     *)
LEMMA BucketIsBucket == W!Spec => WP!Init /\ [][WP!Next]_WP!vars
<1>1. W!Init => WP!Init
  BY DEF W!Init, WP!Init, W!Empty, WP!Empty, W!Callers, WP!Callers
<1>2. [W!Next]_W!vars => [WP!Next]_WP!vars
  BY DEF W!Next, WP!Next, W!WaiterStep, WP!WaiterStep, W!ListStep,
     WP!ListStep, W!WakerStep, WP!WakerStep, W!Finished, WP!Finished, W!Push,
     WP!Push, W!OptimizeWalk, WP!OptimizeWalk, W!OptimizeUnlock,
     WP!OptimizeUnlock, W!Compare, WP!Compare, W!SpinSucceeds,
     WP!SpinSucceeds, W!FallAsleep, WP!FallAsleep, W!Timeout, WP!Timeout,
     W!MarkTimedOut, WP!MarkTimedOut, W!RemoveLock, WP!RemoveLock,
     W!GiveUpRemove, WP!GiveUpRemove, W!RemoveHead, WP!RemoveHead,
     W!RemoveBehind, WP!RemoveBehind, W!Unlock, WP!Unlock, W!WakeNextOfList,
     WP!WakeNextOfList, W!ReleaseOfList, WP!ReleaseOfList, W!EndOfList,
     WP!EndOfList, W!Change, WP!Change, W!WakeLock, WP!WakeLock, W!WakeWalk,
     WP!WakeWalk, W!WakeSkip, WP!WakeSkip, W!WakeBehind, WP!WakeBehind,
     W!WakeHead, WP!WakeHead, W!WakeHeadFlag, WP!WakeHeadFlag, W!WakeEnd,
     WP!WakeEnd, W!Release, WP!Release, W!ReleaseEnd, WP!ReleaseEnd,
     W!Callers, WP!Callers, W!Blocks, WP!Blocks, W!Words, WP!Words, W!Empty,
     WP!Empty, W!links, WP!links, W!local, WP!local, W!vars, WP!vars, W!From,
     WP!From, W!Hint, WP!Hint, W!Backlinked, WP!Backlinked, W!WalkToHint,
     WP!WalkToHint, W!Unlocked, WP!Unlocked, W!WakeEntireList,
     WP!WakeEntireList, W!Meet, WP!Meet, W!Goto, WP!Goto, W!Matches,
     WP!Matches, W!MarkWoken, WP!MarkWoken
<1>. QED  BY <1>1, <1>2, PTL DEF W!Spec

LEMMA BucketAssumed == WP!WaitAssumption
BY BucketAssumption DEF WP!WaitAssumption

(* The list of the bucket is changed by one thread at a time, never leads  *)
(* to a thread that has returned, and is well linked whenever it is free:  *)
(* for any number of waiters and wakers.                                   *)
THEOREM ListsStaySound == W!Spec => []ListsAreSound
<1>1. WP!Spec => []WP!ListIsSound
  BY BucketAssumed, WP!ListStaysSound
<1>2. WP!ListIsSound => ListsAreSound
  BY DEF ListsAreSound, W!ListIsSound, WP!ListIsSound, W!LockHeldOnce, WP!LockHeldOnce,
     W!NoDanglingBlock, WP!NoDanglingBlock, W!HintIsSound, WP!HintIsSound,
     W!SoundList, WP!SoundList, W!Inside, WP!Inside, W!HoldsLock,
     WP!HoldsLock, W!From, WP!From, W!Hint, WP!Hint, W!Callers, WP!Callers
<1>. QED  BY <1>1, <1>2, BucketIsBucket, PTL DEF WP!Spec

(* For any number of threads every release of a keyed event meets the one  *)
(* waiter it is for, so that no thread that wakes others blocks for good.  *)
THEOREM ReleasesAlwaysMeet == W!Spec => []ReleasesMeetWaiters
<1>1. WP!Spec => []WP!ReleaseMeetsWaiter
  BY BucketAssumed, WP!EveryReleaseMeetsItsWaiter
<1>2. WP!ReleaseMeetsWaiter => ReleasesMeetWaiters
  BY DEF ReleasesMeetWaiters, W!ReleaseMeetsWaiter, WP!ReleaseMeetsWaiter, W!ToRelease,
     WP!ToRelease, W!Callers, WP!Callers
<1>. QED  BY <1>1, <1>2, BucketIsBucket, PTL DEF WP!Spec

(* For any number of threads a sleeping waiter can always be found by a    *)
(* waker, or is in the hands of one.                                       *)
THEOREM NobodyIsForgotten == W!Spec => []NoneForgotten
<1>1. WP!Spec => []WP!NobodyForgotten
  BY BucketAssumed, WP!NobodyIsForgotten
<1>2. WP!NobodyForgotten => NoneForgotten
  BY DEF NoneForgotten, W!NobodyForgotten, WP!NobodyForgotten, W!ToRelease, WP!ToRelease,
     W!From, WP!From, W!Callers, WP!Callers
<1>. QED  BY <1>1, <1>2, BucketIsBucket, PTL DEF WP!Spec
=============================================================================
