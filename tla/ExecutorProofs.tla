---------------------------- MODULE ExecutorProofs ----------------------------
(* Proofs about Executor: its types, what a finalized row says, that one      *)
(* execution has one nonce and keeps it unless two requests have prepared it  *)
(* together, and that the nonces are neither shared nor left out.             *)
EXTENDS Executor, TLAPS

(* A process has a job exactly while it works.                                *)
AtWork ==
    /\ job \in [Procs -> Jobs \cup {NoJob}]
    /\ \A p \in Procs : job[p] = NoJob <=> pc[p] \in {"idle", "done"}
Todos == todo \in [Procs -> SUBSET Row]

(* The transactions of the chain are in the order of their nonces.            *)
InOrder == \A i \in 1..netNonce : mined[i].tx.nonce = i - 1

TypeInv == TypeOK /\ AtWork /\ Todos /\ InOrder

LEMMA TypeInvInit == Init => TypeInv
<1> SUFFICES ASSUME Init PROVE TypeInv
    OBVIOUS
<1> USE DEF Init
<1>1. mined \in Seq([tx : Tx, ok : BOOLEAN]) /\ Len(mined) = 0
    OBVIOUS
<1>2. TypeOK
  <2>1. /\ rows \in [Slots -> Row \cup {NoRow}] /\ pool \subseteq Tx /\ skipped \subseteq Slots
        /\ contested \subseteq Slots /\ given \subseteq [slot : Slots, nonce : Nat]
      OBVIOUS
  <2>2. nextNonce \in Nat /\ finality \in 0..Len(mined) /\ faults \in 0..MaxFaults
      BY <1>1, BoundsAssumption
  <2>3. /\ pc \in [Procs -> PCs]
        /\ \A p \in Procs : pc[p] \notin {"idle", "done", "unlock"} => job[p] \in Jobs
        /\ \A p \in Procs : todo[p] \subseteq Row
      BY DEF PCs
  <2>q. QED
      BY <1>1, <2>1, <2>2, <2>3 DEF TypeOK
<1>3. AtWork /\ Todos
    BY DEF AtWork, Todos
<1>4. InOrder
    BY <1>1 DEF InOrder, netNonce
<1>q. QED
    BY <1>2, <1>3, <1>4 DEF TypeInv

(* Pieces of actions. *)

LEMMA UpsertTypes ==
    ASSUME TypeOK, NEW tx \in Tx, NEW final \in Endings, Upsert(tx, final)
    PROVE  rows' \in [Slots -> Row \cup {NoRow}]
BY DEF TypeOK, Upsert, Row, Tx

LEMMA LeaveTypes ==
    ASSUME TypeInv, NEW p \in Procs, Leave(p)
    PROVE  pc' \in [Procs -> PCs] /\ AtWork'
BY NullsAssumption DEF TypeInv, TypeOK, AtWork, Leave, PCs

LEMMA GotoTypes ==
    ASSUME TypeInv, NEW p \in Procs, pc[p] \notin {"idle", "done"},
           NEW label \in PCs \ {"idle", "done"}, Goto(p, label)
    PROVE  pc' \in [Procs -> PCs] /\ AtWork'
BY DEF TypeInv, TypeOK, AtWork, Goto

(* A process takes up a job, or goes on with a changed one. *)
LEMMA JobTypes ==
    ASSUME TypeInv, NEW p \in Procs, NEW j \in Jobs, NEW label \in PCs \ {"idle", "done"},
           job' = [job EXCEPT ![p] = j], pc' = [pc EXCEPT ![p] = label]
    PROVE  pc' \in [Procs -> PCs] /\ AtWork'
BY NullsAssumption DEF TypeInv, TypeOK, AtWork

LEMMA JobAtWork ==
    ASSUME TypeInv, NEW p \in Procs, pc[p] \notin {"idle", "done"}
    PROVE  /\ job[p] \in Jobs /\ job[p].tx \in Tx /\ job[p].tx.slot \in Slots
           /\ job[p].tx.nonce \in Nat /\ job[p].tx.fee \in Fees
           /\ job[p].tx.void \in BOOLEAN
           /\ job[p].final \in Endings /\ job[p].fresh \in BOOLEAN
<1>1. job[p] \in Jobs
    BY DEF TypeInv, AtWork
<1>2. job[p].tx \in Tx /\ job[p].final \in Endings /\ job[p].fresh \in BOOLEAN
    BY <1>1 DEF Jobs
<1>q. QED
    BY <1>1, <1>2 DEF Tx

LEMMA ChainTypes ==
    ASSUME TypeInv
    PROVE  /\ netNonce \in Nat /\ finality \in Nat /\ finality <= netNonce
           /\ \A i \in 1..netNonce : mined[i] \in [tx : Tx, ok : BOOLEAN]
<1> DEFINE Block == [tx : Tx, ok : BOOLEAN]
<1>1. mined \in Seq(Block) /\ finality \in 0..Len(mined)
    BY DEF TypeInv, TypeOK
<1> HIDE DEF Block
<1>2. Len(mined) \in Nat /\ \A i \in 1..Len(mined) : mined[i] \in Block
    BY <1>1
<1>q. QED
    BY <1>1, <1>2 DEF netNonce, Block

(* The parts of TypeInv that a step leaves alone. *)
LEMMA TypesKept ==
    ASSUME TypeInv,
           rows' \in [Slots -> Row \cup {NoRow}], nextNonce' \in Nat,
           lock' \in Procs \cup {NoLock}, expired' \in BOOLEAN,
           pool' \subseteq Tx, mined' \in Seq([tx : Tx, ok : BOOLEAN]), InOrder',
           finality' \in 0..Len(mined)', pc' \in [Procs -> PCs], AtWork', Todos',
           faults' \in 0..MaxFaults, skipped' \subseteq Slots, contested' \subseteq Slots,
           given' \subseteq [slot : Slots, nonce : Nat]
    PROVE  TypeInv'
BY DEF TypeInv, TypeOK, AtWork, Todos

LEMMA FaultTypes ==
    ASSUME TypeInv, Fault \/ UNCHANGED faults
    PROVE  faults' \in 0..MaxFaults
BY BoundsAssumption DEF Fault, TypeInv, TypeOK

(* What a step does to the types, action by action. *)
LEMMA TypeInvNext == TypeInv /\ [Next]_vars => TypeInv'
<1> SUFFICES ASSUME TypeInv, [Next]_vars
             PROVE  TypeInv'
    OBVIOUS
<1> USE DEF TypeInv
<1>0. TypeOK /\ AtWork /\ Todos /\ InOrder
    OBVIOUS
<1>1. CASE UNCHANGED vars
    BY <1>1 DEF TypeOK, AtWork, Todos, InOrder, netNonce, vars, history, broadcasterRow, chain, local
<1>2. ASSUME NEW q \in Requests, NEW s \in Slots, NEW fee \in Fees,
             BroadcastExecution(q, s, fee)
      PROVE  TypeInv'
  <2>1. q \in Procs
      BY DEF Procs
  <2>2. pc' \in [Procs -> PCs] /\ AtWork'
    <3>1. CASE Leave(q)
        BY <2>1, <3>1, LeaveTypes
    <3>2. CASE ~Leave(q)
      <4> DEFINE j == [tx |-> [slot |-> s, nonce |-> 0, fee |-> fee, void |-> FALSE],
                       final |-> "no", fresh |-> TRUE]
      <4>1. j \in Jobs
          BY DEF Jobs, Tx, Endings
      <4>2. job' = [job EXCEPT ![q] = j] /\ pc' = [pc EXCEPT ![q] = "acquire"]
          BY <1>2, <3>2 DEF BroadcastExecution
      <4>3. "acquire" \in PCs \ {"idle", "done"}
          BY DEF PCs
      <4> HIDE DEF j
      <4>q. QED
          BY <2>1, <4>1, <4>2, <4>3, JobTypes
    <3>q. QED
        BY <3>1, <3>2
  <2>3. contested' \subseteq Slots
      BY <1>2 DEF BroadcastExecution, TypeOK
  <2>q. QED
      BY <1>2, <2>2, <2>3, TypesKept
         DEF BroadcastExecution, history, TypeOK, Todos, InOrder, netNonce, broadcasterRow, chain
<1>3. ASSUME NEW p \in Procs, Acquire(p)
      PROVE  TypeInv'
  <2>1. job[p] \in Jobs /\ nextNonce \in Nat /\ job[p].tx \in Tx
      BY <1>3, JobAtWork DEF Acquire, TypeOK
  <2>2. ChosenNonce(p) \in Nat
      BY <1>3, <2>1, JobAtWork DEF Acquire, ChosenNonce
  <2>3. pc' \in [Procs -> PCs] /\ AtWork' /\ lock' \in Procs \cup {NoLock} /\ expired' \in BOOLEAN
    <3>1. CASE lock = NoLock \/ expired
      <4> DEFINE j == [job[p] EXCEPT !.tx.nonce = ChosenNonce(p)]
                 label == IF job[p].fresh /\ netNonce > nextNonce THEN "unlock" ELSE "locked"
      <4>1. j \in Jobs
          BY <2>1, <2>2 DEF Jobs, Tx
      <4>2. label \in PCs \ {"idle", "done"}
          BY DEF PCs
      <4>3. job' = [job EXCEPT ![p] = j] /\ pc' = [pc EXCEPT ![p] = label]
          BY <1>3, <3>1 DEF Acquire
      <4> HIDE DEF j, label
      <4>4. pc' \in [Procs -> PCs] /\ AtWork'
          BY <4>1, <4>2, <4>3, JobTypes
      <4>q. QED
          BY <1>3, <3>1, <4>4 DEF Acquire
    <3>2. CASE ~(lock = NoLock \/ expired)
      <4>1. Leave(p) /\ UNCHANGED <<lock, expired>>
          BY <1>3, <3>2 DEF Acquire
      <4>q. QED
          BY <4>1, LeaveTypes DEF TypeOK
    <3>q. QED
        BY <3>1, <3>2
  <2>q. QED
      BY <1>3, <2>3, TypesKept DEF Acquire, history, TypeOK, Todos, InOrder, netNonce, chain
<1>4. ASSUME NEW p \in Procs, Abandon(p)
      PROVE  TypeInv'
  <2>1. pc' \in [Procs -> PCs] /\ AtWork' /\ faults' \in 0..MaxFaults
      BY <1>4, GotoTypes, FaultTypes DEF Abandon, PCs
  <2>q. QED
      BY <1>4, <2>1, TypesKept
         DEF Abandon, history, TypeOK, Todos, InOrder, netNonce, chain, broadcasterRow
<1>18. ASSUME NEW p \in Procs, Refuse(p)
       PROVE  TypeInv'
  <2>1. pc' \in [Procs -> PCs] /\ AtWork'
      BY <1>18, GotoTypes DEF Refuse, PCs
  <2>q. QED
      BY <1>18, <2>1, TypesKept
         DEF Refuse, history, TypeOK, Todos, InOrder, netNonce, chain, broadcasterRow
<1>5. ASSUME NEW p \in Procs, Store(p)
      PROVE  TypeInv'
  <2>1. PICK validity \in Validity :
           LET tx == IF Goes(validity) /\ ~job[p].tx.void THEN SignTransaction(job[p].tx)
                                                        ELSE SignVoidTransaction(job[p].tx)
           IN
             /\ job' = [job EXCEPT ![p].tx = tx]
             /\ \/ /\ lock = p
                   /\ Upsert(tx, "no")
                   /\ nextNonce' = AfterStore(tx.nonce)
                   /\ given' = given \cup {[slot |-> tx.slot, nonce |-> tx.nonce]}
                   /\ UNCHANGED <<faults, skipped>>
                \/ /\ IF lock = p THEN Fault ELSE UNCHANGED faults
                   /\ skipped' = skipped \cup {tx.slot}
                   /\ UNCHANGED <<rows, nextNonce, given>>
      BY <1>5 DEF Store
  <2> DEFINE tx == IF Goes(validity) /\ ~job[p].tx.void THEN SignTransaction(job[p].tx)
                                                      ELSE SignVoidTransaction(job[p].tx)
             j == [job[p] EXCEPT !.tx = tx]
  <2>2. job[p] \in Jobs /\ job[p].tx \in Tx
      BY <1>5, JobAtWork DEF Store
  <2>3. tx \in Tx
      BY <2>2 DEF Tx, SignTransaction, SignVoidTransaction
  <2>4. j \in Jobs /\ job' = [job EXCEPT ![p] = j]
      BY <2>1, <2>2, <2>3 DEF Jobs
  <2>5. pc' = [pc EXCEPT ![p] = "broadcast"] /\ "broadcast" \in PCs \ {"idle", "done"}
      BY <1>5 DEF Store, PCs
  <2> HIDE DEF j, tx
  <2>6. pc' \in [Procs -> PCs] /\ AtWork'
      BY <2>4, <2>5, JobTypes
  <2>7. tx.nonce \in Nat /\ tx.slot \in Slots /\ "no" \in Endings
      BY <2>3 DEF Tx, Endings
  <2>8. /\ rows' \in [Slots -> Row \cup {NoRow}] /\ nextNonce' \in Nat
        /\ skipped' \subseteq Slots /\ faults' \in 0..MaxFaults
        /\ given' \subseteq [slot : Slots, nonce : Nat]
    <3>1. CASE Upsert(tx, "no") /\ nextNonce' = AfterStore(tx.nonce)
                 /\ given' = given \cup {[slot |-> tx.slot, nonce |-> tx.nonce]}
                 /\ UNCHANGED <<faults, skipped>>
        BY <2>3, <2>7, <3>1, UpsertTypes DEF TypeOK, AfterStore
    <3>2. CASE skipped' = skipped \cup {tx.slot} /\ UNCHANGED <<rows, nextNonce, given>>
                 /\ (Fault \/ UNCHANGED faults)
        BY <2>7, <3>2, FaultTypes DEF TypeOK
    <3>q. QED
        BY <2>1, <3>1, <3>2 DEF tx
  <2>q. QED
      BY <1>5, <2>6, <2>8, TypesKept DEF Store, history, FreeLock, TypeOK, Todos, InOrder, netNonce, chain

<1>6. ASSUME NEW p \in Procs, Broadcast(p)
      PROVE  TypeInv'
  <2> DEFINE tx == job[p].tx
             taken == {other \in pool : other.nonce # tx.nonce} \cup {tx}
  <2>1. tx \in Tx /\ "no" \in Endings
      BY <1>6, JobAtWork DEF Broadcast, Endings
  <2>2. pool' \in {pool, taken} /\ taken \subseteq Tx
      BY <1>6, <2>1 DEF Broadcast, TypeOK
  <2>3. faults' \in 0..MaxFaults
      BY <1>6, FaultTypes DEF Broadcast
  <2>4. Upsert(tx, "no") \/ UNCHANGED rows
      BY <1>6 DEF Broadcast
  <2> HIDE DEF tx, taken
  <2>5. rows' \in [Slots -> Row \cup {NoRow}] /\ pool' \subseteq Tx
      BY <2>1, <2>2, <2>4, UpsertTypes DEF TypeOK
  <2>6. pc' \in [Procs -> PCs] /\ AtWork'
      BY <1>6, GotoTypes DEF Broadcast, PCs
  <2>q. QED
      BY <1>6, <2>3, <2>5, <2>6, TypesKept
         DEF Broadcast, history, TypeOK, Todos, InOrder, netNonce, broadcasterRow
<1>7. ASSUME NEW p \in Procs, Unlock(p)
      PROVE  TypeInv'
  <2>1. pc' \in [Procs -> PCs] /\ AtWork'
      BY <1>7, LeaveTypes DEF Unlock
  <2>q. QED
      BY <1>7, <2>1, TypesKept
         DEF Unlock, history, FreeLock, TypeOK, Todos, InOrder, netNonce, chain
<1>8. ASSUME NEW p \in Procs, Crash(p)
      PROVE  TypeInv'
  <2>1. pc' \in [Procs -> PCs] /\ AtWork' /\ faults' \in 0..MaxFaults
      BY <1>8, LeaveTypes, FaultTypes DEF Crash
  <2>2. Todos'
      BY <1>8 DEF Crash, Todos
  <2>q. QED
      BY <1>8, <2>1, <2>2, TypesKept
         DEF Crash, history, TypeOK, InOrder, netNonce, chain, broadcasterRow
<1>9. ASSUME NEW p \in Runs, ReadPending(p)
      PROVE  TypeInv'
  <2>1. Todos'
    <3>1. \A s \in Slots : rows[s] # NoRow => rows[s] \in Row
        BY DEF TypeOK
    <3>2. PICK read \in SUBSET Pending : todo' = [todo EXCEPT ![p] = {rows[s] : s \in read}]
        BY <1>9 DEF ReadPending
    <3>3. {rows[s] : s \in read} \subseteq Row
        BY <3>1, <3>2 DEF Pending
    <3>q. QED
        BY <3>2, <3>3 DEF Todos
  <2>2. AtWork'
      BY <1>9 DEF ReadPending, AtWork
  <2>q. QED
      BY <1>9, <2>1, <2>2, TypesKept
         DEF ReadPending, history, TypeOK, InOrder, netNonce, chain, broadcasterRow
<1>10. ASSUME NEW p \in Runs, NextPending(p)
       PROVE  TypeInv'
  <2>1. p \in Procs
      BY DEF Procs
  <2>2. PICK row \in todo[p] :
          /\ todo' = [todo EXCEPT ![p] = @ \ {row}]
          /\ job' = [job EXCEPT ![p] = [tx |-> row.tx, final |-> "no", fresh |-> FALSE]]
          /\ pc' = [pc EXCEPT ![p] = "status"]
      BY <1>10 DEF NextPending
  <2> DEFINE j == [tx |-> row.tx, final |-> "no", fresh |-> FALSE]
  <2>3. j \in Jobs
      BY <2>1, <2>2 DEF Todos, Jobs, Row, Endings
  <2>4. job' = [job EXCEPT ![p] = j] /\ "status" \in PCs \ {"idle", "done"}
      BY <2>2 DEF PCs
  <2> HIDE DEF j
  <2>5. pc' \in [Procs -> PCs] /\ AtWork'
      BY <2>1, <2>2, <2>3, <2>4, JobTypes
  <2>6. Todos'
      BY <2>1, <2>2 DEF Todos
  <2>q. QED
      BY <1>10, <2>5, <2>6, TypesKept
         DEF NextPending, history, TypeOK, InOrder, netNonce, chain, broadcasterRow
<1>11. ASSUME NEW p \in Runs, Status(p)
       PROVE  TypeInv'
  <2>1. p \in Procs
      BY DEF Procs
  <2>2. pc' \in [Procs -> PCs] /\ AtWork'
    <3>1. CASE Leave(p)
        BY <2>1, <3>1, LeaveTypes
    <3>2. CASE Goto(p, "resubmit")
        BY <1>11, <2>1, <3>2, GotoTypes DEF Status, PCs
    <3>3. CASE ~Leave(p) /\ ~Goto(p, "resubmit")
      <4> DEFINE ending == Ending(job[p].tx)
                 j == [job[p] EXCEPT !.final = ending]
      <4>1. /\ ending \in Endings /\ job' = [job EXCEPT ![p].final = ending]
            /\ pc' = [pc EXCEPT ![p] = "finalise"]
          BY <1>11, <3>3 DEF Status
      <4>2. job[p] \in Jobs
          BY <1>11, <2>1, JobAtWork DEF Status
      <4> HIDE DEF ending
      <4>3. j \in Jobs /\ job' = [job EXCEPT ![p] = j] /\ "finalise" \in PCs \ {"idle", "done"}
          BY <4>1, <4>2 DEF Jobs, PCs
      <4> HIDE DEF j
      <4>q. QED
          BY <2>1, <4>1, <4>3, JobTypes
    <3>q. QED
        BY <3>1, <3>2, <3>3
  <2>3. faults' \in 0..MaxFaults
      BY <1>11, FaultTypes DEF Status
  <2>q. QED
      BY <1>11, <2>2, <2>3, TypesKept
         DEF Status, history, TypeOK, Todos, InOrder, netNonce, chain, broadcasterRow
<1>12. ASSUME NEW p \in Runs, Finalise(p)
       PROVE  TypeInv'
  <2>1. p \in Procs
      BY DEF Procs
  <2>2. job[p].tx \in Tx /\ job[p].final \in Endings
      BY <1>12, <2>1, JobAtWork DEF Finalise
  <2>3. rows' \in [Slots -> Row \cup {NoRow}] /\ faults' \in 0..MaxFaults
      BY <1>12, <2>2, UpsertTypes, FaultTypes DEF Finalise, TypeOK
  <2>4. pc' \in [Procs -> PCs] /\ AtWork' /\ lock' \in Procs \cup {NoLock} /\ expired' \in BOOLEAN
      BY <1>12, <2>1, LeaveTypes DEF Finalise, FreeLock, TypeOK
  <2>q. QED
      BY <1>12, <2>3, <2>4, TypesKept
         DEF Finalise, history, TypeOK, Todos, InOrder, netNonce, chain
<1>13. ASSUME NEW p \in Runs, Resubmit(p)
       PROVE  TypeInv'
  <2>1. p \in Procs
      BY DEF Procs
  <2>2. PICK fee \in Fees, void \in BOOLEAN :
          \/ Leave(p)
          \/ /\ job' = [job EXCEPT ![p].tx.fee = fee, ![p].tx.void = void]
             /\ pc' = [pc EXCEPT ![p] = "acquire"]
      BY <1>13 DEF Resubmit
  <2>3. pc' \in [Procs -> PCs] /\ AtWork'
    <3>1. CASE Leave(p)
        BY <2>1, <3>1, LeaveTypes
    <3>2. CASE ~Leave(p)
      <4> DEFINE j == [job[p] EXCEPT !.tx.fee = fee, !.tx.void = void]
      <4>1. job[p] \in Jobs
          BY <1>13, <2>1, JobAtWork DEF Resubmit
      <4>2. j \in Jobs /\ job' = [job EXCEPT ![p] = j] /\ "acquire" \in PCs \ {"idle", "done"}
          BY <2>2, <3>2, <4>1 DEF Jobs, Tx, PCs
      <4> HIDE DEF j
      <4>q. QED
          BY <2>1, <2>2, <3>2, <4>2, JobTypes
    <3>q. QED
        BY <3>1, <3>2
  <2>4. faults' \in 0..MaxFaults
      BY <1>13, FaultTypes DEF Resubmit
  <2>q. QED
      BY <1>13, <2>3, <2>4, TypesKept
         DEF Resubmit, history, TypeOK, Todos, InOrder, netNonce, chain, broadcasterRow
<1>14. CASE Expire
  <2>1. faults' \in 0..MaxFaults
      BY <1>14, FaultTypes DEF Expire
  <2>2. AtWork' /\ Todos' /\ pc' \in [Procs -> PCs]
      BY <1>14 DEF Expire, local, TypeOK, AtWork, Todos
  <2>q. QED
      BY <1>14, <2>1, <2>2, TypesKept DEF Expire, history, TypeOK, InOrder, netNonce, chain
<1>15. CASE Mine
  <2> DEFINE Block == [tx : Tx, ok : BOOLEAN]
  <2>1. PICK tx \in pool, ok \in BOOLEAN :
          /\ tx.nonce = netNonce
          /\ mined' = Append(mined, [tx |-> tx, ok |-> ok])
          /\ pool' = pool \ {tx}
      BY <1>15 DEF Mine
  <2> DEFINE block == [tx |-> tx, ok |-> ok]
  <2>2. mined \in Seq(Block) /\ block \in Block /\ pool' \subseteq Tx
      BY <2>1 DEF TypeOK
  <2>3. block.tx.nonce = netNonce
      BY <2>1
  <2> HIDE DEF Block, block
  <2>4. mined' = Append(mined, block)
      BY <2>1 DEF block
  <2>5. /\ mined' \in Seq(Block) /\ Len(mined') = Len(mined) + 1 /\ Len(mined) \in Nat
        /\ \A i \in 1..Len(mined) : mined'[i] = mined[i]
        /\ mined'[Len(mined) + 1] = block
      BY <2>2, <2>4
  <2>6. InOrder'
      BY <2>3, <2>5 DEF InOrder, netNonce
  <2>7. finality' \in 0..Len(mined)'
      BY <1>15, <2>5 DEF Mine, TypeOK
  <2>8. mined' \in Seq([tx : Tx, ok : BOOLEAN])
      BY <2>5 DEF Block
  <2>9. AtWork' /\ Todos' /\ pc' \in [Procs -> PCs]
      BY <1>15 DEF Mine, local, TypeOK, AtWork, Todos
  <2>q. QED
      BY <1>15, <2>2, <2>6, <2>7, <2>8, <2>9, TypesKept DEF Mine, history, TypeOK, broadcasterRow
<1>16. CASE BecomeFinal
  <2>1. finality' \in 0..Len(mined)'
      BY <1>16, ChainTypes DEF BecomeFinal, TypeOK, netNonce
  <2>2. AtWork' /\ Todos' /\ InOrder' /\ pc' \in [Procs -> PCs]
      BY <1>16 DEF BecomeFinal, local, TypeOK, AtWork, Todos, InOrder, netNonce
  <2>q. QED
      BY <1>16, <2>1, <2>2, TypesKept DEF BecomeFinal, history, TypeOK, broadcasterRow
<1>17. CASE Drop
  <2>1. faults' \in 0..MaxFaults /\ pool' \subseteq Tx
      BY <1>17, FaultTypes DEF Drop, TypeOK
  <2>2. AtWork' /\ Todos' /\ InOrder' /\ pc' \in [Procs -> PCs]
      BY <1>17 DEF Drop, local, TypeOK, AtWork, Todos, InOrder, netNonce
  <2>q. QED
      BY <1>17, <2>1, <2>2, TypesKept DEF Drop, history, TypeOK, broadcasterRow
<1>q. QED
    BY <1>1, <1>2, <1>3, <1>4, <1>5, <1>6, <1>7, <1>8, <1>9, <1>10, <1>11, <1>12, <1>13,
       <1>14, <1>15, <1>16, <1>17, <1>18 DEF Next, Request, Submit, Process

(* Every variable has its type: what a process works on is signed as a        *)
(* transaction of the execution it has read, and the chain numbers its        *)
(* transactions.                                                              *)
THEOREM ExecutorTypeCorrect == Spec => []TypeOK
<1>1. TypeInv => TypeOK
    BY DEF TypeInv
<1>q. QED
    BY <1>1, TypeInvInit, TypeInvNext, PTL DEF Spec

-----------------------------------------------------------------------------
(* What a finalized row says.                                                 *)

(* Who writes a row: a process that has signed a transaction, or that could   *)
(* not broadcast it, or a run that has found how an execution ended.          *)
SignedBy(p, tx) ==
    /\ pc[p] \in {"locked", "broadcast"}
    /\ tx.slot = job[p].tx.slot /\ tx.nonce = job[p].tx.nonce
    /\ Upsert(tx, "no")
    /\ pc'[p] # pc[p]
    /\ pc[p] = "locked" =>
          /\ lock = p /\ nextNonce' = AfterStore(tx.nonce)
          /\ given' = given \cup {[slot |-> tx.slot, nonce |-> tx.nonce]}
    /\ pc[p] = "broadcast" => nextNonce' = nextNonce
    /\ UNCHANGED <<skipped, contested>>

LEMMA RowsWritten ==
    ASSUME TypeInv, [Next]_vars
    PROVE  \/ UNCHANGED rows
           \/ \E p \in Procs, tx \in Tx : SignedBy(p, tx)
           \/ \E p \in Runs : pc[p] = "finalise" /\ Upsert(job[p].tx, job[p].final)
<1>1. ASSUME NEW p \in Procs, Store(p), ~UNCHANGED rows
      PROVE  \E tx \in Tx : SignedBy(p, tx)
  <2>1. PICK validity \in Validity :
           LET tx == IF Goes(validity) /\ ~job[p].tx.void THEN SignTransaction(job[p].tx)
                                                        ELSE SignVoidTransaction(job[p].tx)
           IN  /\ lock = p /\ Upsert(tx, "no") /\ nextNonce' = AfterStore(tx.nonce)
               /\ given' = given \cup {[slot |-> tx.slot, nonce |-> tx.nonce]}
               /\ UNCHANGED skipped
      BY <1>1 DEF Store
  <2> DEFINE tx == IF Goes(validity) /\ ~job[p].tx.void THEN SignTransaction(job[p].tx)
                                                      ELSE SignVoidTransaction(job[p].tx)
  <2>2. job[p].tx \in Tx /\ pc[p] = "locked"
      BY <1>1, JobAtWork DEF Store
  <2>3. tx \in Tx /\ tx.slot = job[p].tx.slot /\ tx.nonce = job[p].tx.nonce
      BY <2>2 DEF Tx, SignTransaction, SignVoidTransaction
  <2> HIDE DEF tx
  <2>4. /\ lock = p /\ Upsert(tx, "no") /\ nextNonce' = AfterStore(tx.nonce)
        /\ given' = given \cup {[slot |-> tx.slot, nonce |-> tx.nonce]}
        /\ UNCHANGED skipped
      BY <2>1 DEF tx
  <2>q. QED
      BY <1>1, <2>2, <2>3, <2>4 DEF SignedBy, Store, TypeInv, TypeOK
<1>2. ASSUME NEW p \in Procs, Broadcast(p), ~UNCHANGED rows
      PROVE  \E tx \in Tx : SignedBy(p, tx)
  <2>1. job[p].tx \in Tx /\ pc[p] = "broadcast" /\ Upsert(job[p].tx, "no")
      BY <1>2, JobAtWork DEF Broadcast
  <2>q. QED
      BY <1>2, <2>1 DEF SignedBy, Broadcast, Goto, broadcasterRow, history, TypeInv, TypeOK
<1>3. ASSUME NEW p \in Procs, Submit(p) \/ Crash(p)
      PROVE  UNCHANGED rows \/ \E tx \in Tx : SignedBy(p, tx)
    BY <1>1, <1>2, <1>3 DEF Submit, Acquire, Abandon, Refuse, Unlock, Crash
<1>4. ASSUME NEW p \in Runs, Process(p)
      PROVE  UNCHANGED rows \/ (pc[p] = "finalise" /\ Upsert(job[p].tx, job[p].final))
    BY <1>4 DEF Process, ReadPending, NextPending, Status, Finalise, Resubmit
<1>5. CASE Request \/ Expire \/ Mine \/ BecomeFinal \/ Drop \/ UNCHANGED vars
    BY <1>5 DEF Request, BroadcastExecution, Expire, Mine, BecomeFinal, Drop, vars
<1>q. QED
    BY <1>3, <1>4, <1>5 DEF Next

(* The chain: it grows by a transaction with the next nonce.                  *)
LEMMA ChainGrows ==
    ASSUME TypeInv, [Next]_vars
    PROVE  /\ UNCHANGED mined \/ Mine
           /\ finality' \in Nat /\ finality <= finality'
           /\ netNonce \in Nat /\ netNonce' \in Nat /\ netNonce <= netNonce'
           /\ \A i \in 1..netNonce : mined'[i] = mined[i]
           /\ \A i \in 1..netNonce' : i > netNonce => mined'[i].tx.nonce >= netNonce
<1>1. TypeInv'
    BY TypeInvNext
<1>2. UNCHANGED mined \/ Mine
    BY DEF Next, Request, BroadcastExecution, Submit, Acquire, Abandon, Refuse, Store, Broadcast,
           Unlock, Crash, Process, ReadPending, NextPending, Status, Finalise, Resubmit,
           Expire, BecomeFinal, Drop, vars, chain
<1>3. finality' = finality \/ finality' = finality + 1
    BY DEF Next, Request, BroadcastExecution, Submit, Acquire, Abandon, Refuse, Store, Broadcast,
           Unlock, Crash, Process, ReadPending, NextPending, Status, Finalise, Resubmit,
           Expire, Mine, BecomeFinal, Drop, vars, chain
<1>4. netNonce \in Nat /\ netNonce' \in Nat /\ finality \in Nat /\ finality' \in Nat
  <2> DEFINE Block == [tx : Tx, ok : BOOLEAN]
  <2>1. mined' \in Seq(Block)' /\ finality' \in 0..Len(mined')
      BY <1>1 DEF TypeInv, TypeOK
  <2> HIDE DEF Block
  <2>2. Len(mined') \in Nat
      BY <2>1
  <2>q. QED
      BY <2>1, <2>2, ChainTypes DEF netNonce
<1>5. netNonce <= netNonce' /\ \A i \in 1..netNonce : mined'[i] = mined[i]
  <2>1. CASE UNCHANGED mined
      BY <1>4, <2>1 DEF netNonce
  <2>2. CASE Mine
    <3> DEFINE Block == [tx : Tx, ok : BOOLEAN]
    <3>1. mined \in Seq(Block)
        BY DEF TypeInv, TypeOK
    <3>2. PICK tx \in pool, ok \in BOOLEAN : mined' = Append(mined, [tx |-> tx, ok |-> ok])
        BY <2>2 DEF Mine
    <3>3. [tx |-> tx, ok |-> ok] \in Block
        BY <3>2 DEF TypeInv, TypeOK
    <3> HIDE DEF Block
    <3>4. Len(mined') = Len(mined) + 1 /\ \A i \in 1..Len(mined) : mined'[i] = mined[i]
        BY <3>1, <3>2, <3>3
    <3>q. QED
        BY <3>4, <1>4 DEF netNonce
  <2>q. QED
      BY <1>2, <2>1, <2>2
<1>6. \A i \in 1..netNonce' : i > netNonce => mined'[i].tx.nonce >= netNonce
    BY <1>1, <1>4 DEF TypeInv, InOrder
<1>q. QED
    BY <1>2, <1>3, <1>4, <1>5, <1>6

(* What is final stays so, and a transaction with its nonce ends as it did.   *)
LEMMA EndingStays ==
    ASSUME TypeInv, [Next]_vars, NEW tx \in Tx, tx.nonce < finality
    PROVE  tx.nonce < finality' /\ Ending(tx)' = Ending(tx)
<1>1. tx.nonce \in Nat
    BY DEF Tx
<1>2. /\ finality \in Nat /\ finality' \in Nat /\ finality <= finality'
      /\ netNonce \in Nat /\ netNonce' \in Nat /\ netNonce <= netNonce' /\ finality <= netNonce
      /\ \A i \in 1..netNonce : mined'[i] = mined[i]
      /\ \A i \in 1..netNonce' : i > netNonce => mined'[i].tx.nonce >= netNonce
    BY ChainGrows, ChainTypes
<1>3. tx.nonce < finality' /\ tx.nonce < netNonce
    BY <1>1, <1>2
<1>4. \A i \in 1..netNonce' : i > netNonce => mined'[i].tx # tx
    BY <1>1, <1>2, <1>3
<1>5. Included(tx)' <=> Included(tx)
  <2>1. Included(tx) = \E i \in 1..netNonce : mined[i].tx = tx
      BY DEF Included
  <2>2. Included(tx)' = \E i \in 1..netNonce' : mined'[i].tx = tx
      BY DEF Included
  <2>q. QED
      BY <1>2, <1>4, <2>1, <2>2
<1>6. mined'[tx.nonce + 1] = mined[tx.nonce + 1]
    BY <1>1, <1>2, <1>3
<1>q. QED
    BY <1>3, <1>5, <1>6 DEF Ending

(* A run that finalises has found the ending of what it works on.             *)
Found ==
    \A p \in Procs : pc[p] = "finalise" =>
        /\ job[p].tx.nonce < finality
        /\ job[p].final = Ending(job[p].tx)

FinalInv == TypeInv /\ Found /\ FinalTruthful

LEMMA FinalisesAsFound ==
    ASSUME TypeInv, [Next]_vars, NEW p \in Procs, pc'[p] = "finalise"
    PROVE  \/ pc[p] = "finalise" /\ job'[p] = job[p]
           \/ /\ pc[p] = "status" /\ Ending(job[p].tx) \in Endings
              /\ job'[p] = [job[p] EXCEPT !.final = Ending(job[p].tx)]
              /\ UNCHANGED chain
<1> USE DEF TypeInv, AtWork, TypeOK
<1>1. CASE Request
    BY <1>1 DEF Request, BroadcastExecution, Leave, Procs
<1>2. ASSUME NEW o \in Procs, Submit(o) \/ Crash(o)
      PROVE  pc[p] = "finalise" /\ job'[p] = job[p]
  <2>1. CASE Acquire(o)
      BY <2>1 DEF Acquire, Leave
  <2>2. CASE Abandon(o) \/ Refuse(o) \/ Broadcast(o)
      BY <2>2 DEF Abandon, Refuse, Broadcast, Goto
  <2>3. CASE Store(o)
      BY <2>3 DEF Store
  <2>4. CASE Unlock(o) \/ Crash(o)
      BY <2>4 DEF Unlock, Crash, Leave
  <2>q. QED
      BY <1>2, <2>1, <2>2, <2>3, <2>4 DEF Submit
<1>3. ASSUME NEW o \in Runs, ReadPending(o) \/ NextPending(o) \/ Finalise(o) \/ Resubmit(o)
      PROVE  pc[p] = "finalise" /\ job'[p] = job[p]
  <2>1. o \in Procs
      BY DEF Procs
  <2>2. CASE ReadPending(o) \/ Finalise(o)
      BY <2>1, <2>2 DEF ReadPending, Finalise, Leave
  <2>3. CASE NextPending(o)
      BY <2>1, <2>3 DEF NextPending
  <2>4. CASE Resubmit(o)
      BY <2>1, <2>4 DEF Resubmit, Leave
  <2>q. QED
      BY <1>3, <2>2, <2>3, <2>4
<1>4. ASSUME NEW o \in Runs, Status(o)
      PROVE  \/ pc[p] = "finalise" /\ job'[p] = job[p]
             \/ /\ pc[p] = "status" /\ Ending(job[p].tx) \in Endings
                /\ job'[p] = [job[p] EXCEPT !.final = Ending(job[p].tx)]
                /\ UNCHANGED chain
  <2>1. o \in Procs
      BY DEF Procs
  <2>2. CASE o # p
      BY <1>4, <2>1, <2>2 DEF Status, Leave, Goto
  <2>3. CASE o = p
      BY <1>4, <2>1, <2>3 DEF Status, Leave, Goto
  <2>q. QED
      BY <2>2, <2>3
<1>5. CASE Expire \/ Mine \/ BecomeFinal \/ Drop \/ UNCHANGED vars
    BY <1>5 DEF Expire, Mine, BecomeFinal, Drop, vars, local
<1>q. QED
    BY <1>1, <1>2, <1>3, <1>4, <1>5 DEF Next, Process

LEMMA FinalInvNext == FinalInv /\ [Next]_vars => FinalInv'
<1> SUFFICES ASSUME FinalInv, [Next]_vars
             PROVE  FinalInv'
    OBVIOUS
<1>0. TypeInv /\ Found /\ FinalTruthful
    BY DEF FinalInv
<1>1. TypeInv'
    BY <1>0, TypeInvNext
<1>2. Found'
  <2> SUFFICES ASSUME NEW p \in Procs, pc'[p] = "finalise"
               PROVE  (job[p].tx.nonce < finality /\ job[p].final = Ending(job[p].tx))'
      BY DEF Found
  <2>1. CASE pc[p] = "finalise" /\ job'[p] = job[p]
    <3>1. PICK tx \in Tx : tx = job[p].tx
        BY <1>0, <2>1, JobAtWork
    <3>2. tx.nonce < finality /\ job[p].final = Ending(tx)
        BY <1>0, <2>1, <3>1 DEF Found
    <3>3. tx.nonce < finality' /\ Ending(tx)' = Ending(tx)
        BY <1>0, <3>2, EndingStays
    <3>4. job'[p].tx = tx /\ job'[p].final = Ending(tx)'
        BY <2>1, <3>1, <3>2, <3>3
    <3>q. QED
        BY <3>3, <3>4 DEF Ending, Included, netNonce
  <2>2. CASE /\ pc[p] = "status" /\ Ending(job[p].tx) \in Endings
             /\ job'[p] = [job[p] EXCEPT !.final = Ending(job[p].tx)]
             /\ UNCHANGED chain
    <3>1. job[p] \in Jobs
        BY <1>0, <2>2, JobAtWork
    <3>2. PICK tx \in Tx : tx = job[p].tx
        BY <1>0, <2>2, JobAtWork
    <3>3. job'[p].tx = tx /\ job'[p].final = Ending(tx)
        BY <2>2, <3>1, <3>2 DEF Jobs
    <3>4. Ending(tx)' = Ending(tx)
        BY <2>2 DEF Ending, Included, netNonce, chain
    <3>5. tx.nonce < finality
        BY <2>2, <3>2 DEF Ending, Endings
    <3>6. tx.nonce < finality' /\ job'[p].final = Ending(tx)'
        BY <2>2, <3>3, <3>4, <3>5 DEF chain
    <3>q. QED
        BY <3>3, <3>6 DEF Ending, Included, netNonce
  <2>q. QED
      BY <1>0, <2>1, <2>2, FinalisesAsFound
<1>3. ASSUME NEW s \in Slots, rows[s] # NoRow, rows[s].final # "no", rows'[s] = rows[s]
      PROVE  (rows[s].tx.nonce < finality /\ rows[s].final = Ending(rows[s].tx))'
  <2>1. PICK tx \in Tx : tx = rows[s].tx
      BY <1>0, <1>3 DEF TypeInv, TypeOK, Row
  <2>2. tx.nonce < finality /\ rows[s].final = Ending(tx)
      BY <1>0, <1>3, <2>1 DEF FinalTruthful
  <2>3. tx.nonce < finality' /\ Ending(tx)' = Ending(tx)
      BY <1>0, <2>2, EndingStays
  <2>4. rows'[s].tx = tx /\ rows'[s].final = Ending(tx)'
      BY <1>3, <2>1, <2>2, <2>3
  <2>q. QED
      BY <2>3, <2>4 DEF Ending, Included, netNonce
<1>4. ASSUME NEW s \in Slots, rows'[s] # NoRow, rows'[s].final # "no", rows'[s] # rows[s]
      PROVE  (rows[s].tx.nonce < finality /\ rows[s].final = Ending(rows[s].tx))'
  <2>1. rows \in [Slots -> Row \cup {NoRow}]
      BY <1>0 DEF TypeInv, TypeOK
  <2>2. PICK p \in Runs : pc[p] = "finalise" /\ Upsert(job[p].tx, job[p].final)
    <3>1. ASSUME NEW p \in Procs, NEW tx \in Tx, SignedBy(p, tx)
          PROVE  FALSE
        BY <1>4, <2>1, <3>1 DEF SignedBy, Upsert, Tx
    <3>q. QED
        BY <1>0, <1>4, <3>1, RowsWritten
  <2>3. p \in Procs
      BY DEF Procs
  <2>4. PICK tx \in Tx : tx = job[p].tx
      BY <1>0, <2>2, <2>3, JobAtWork
  <2>5. tx.nonce < finality /\ job[p].final = Ending(tx)
      BY <1>0, <2>2, <2>3, <2>4 DEF Found
  <2>6. rows'[s].tx = tx /\ rows'[s].final = job[p].final
      BY <1>4, <2>1, <2>2, <2>4 DEF Upsert, Tx
  <2>7. tx.nonce < finality' /\ Ending(tx)' = Ending(tx)
      BY <1>0, <2>5, EndingStays
  <2>8. rows'[s].final = Ending(tx)'
      BY <2>5, <2>6, <2>7
  <2>q. QED
      BY <2>6, <2>7, <2>8 DEF Ending, Included, netNonce
<1>5. FinalTruthful'
    BY <1>3, <1>4, <1>0 DEF FinalTruthful
<1>q. QED
    BY <1>1, <1>2, <1>5 DEF FinalInv

LEMMA FinalInvHolds == Spec => []FinalInv
<1>1. Init => FinalInv
    BY TypeInvInit DEF Init, FinalInv, Found, FinalTruthful
<1>q. QED
    BY <1>1, FinalInvNext, PTL DEF Spec

(* An execution is recorded with the ending that the chain has for it, for    *)
(* any number of runs that overlap and whatever they read before.             *)
THEOREM FinalAlwaysTruthful == Spec => []FinalTruthful
<1>1. FinalInv => FinalTruthful
    BY DEF FinalInv
<1>q. QED
    BY <1>1, FinalInvHolds, PTL

(* A finalized row is never written again. *)
THEOREM FinalNeverChanges == Spec => FinalImmutable
<1>1. ASSUME TypeInv, [Next]_vars, NEW s \in Slots, rows[s] # NoRow, rows[s].final # "no"
      PROVE  rows'[s] = rows[s]
  <2>1. rows \in [Slots -> Row \cup {NoRow}]
      BY <1>1 DEF TypeInv, TypeOK
  <2>2. ASSUME NEW tx, NEW final, Upsert(tx, final)
        PROVE  rows'[s] = rows[s]
      BY <1>1, <2>1, <2>2 DEF Upsert
  <2>q. QED
      BY <1>1, <2>2, RowsWritten DEF SignedBy
<1>2. TypeInv /\ [Next]_vars =>
          [\A s \in Slots : rows[s] # NoRow /\ rows[s].final # "no"
                              => rows'[s] = rows[s]]_vars
    BY <1>1
<1>q. QED
    BY <1>2, TypeInvInit, TypeInvNext, PTL DEF Spec, FinalImmutable

-----------------------------------------------------------------------------
(* One execution, one nonce.                                                  *)

(* A process makes a step of its own or stays where it is.                    *)
LEMMA SelfOrSame ==
    ASSUME TypeInv, [Next]_vars, NEW p \in Procs
    PROVE  \/ pc'[p] = pc[p] /\ job'[p] = job[p] /\ todo'[p] = todo[p]
           \/ p \in Requests /\ \E s \in Slots, fee \in Fees : BroadcastExecution(p, s, fee)
           \/ Submit(p) \/ Crash(p)
           \/ p \in Runs /\ Process(p)
<1> USE DEF TypeInv, TypeOK, AtWork, Todos
<1>1. CASE Request
    BY <1>1 DEF Request, BroadcastExecution, Leave, Procs
<1>2. ASSUME NEW o \in Procs, Submit(o) \/ Crash(o), o # p
      PROVE  pc'[p] = pc[p] /\ job'[p] = job[p] /\ todo'[p] = todo[p]
  <2>1. CASE Acquire(o)
      BY <1>2, <2>1 DEF Acquire, Leave
  <2>2. CASE Abandon(o) \/ Refuse(o) \/ Broadcast(o)
      BY <1>2, <2>2 DEF Abandon, Refuse, Broadcast, Goto
  <2>3. CASE Store(o)
      BY <1>2, <2>3 DEF Store
  <2>4. CASE Unlock(o) \/ Crash(o)
      BY <1>2, <2>4 DEF Unlock, Crash, Leave
  <2>q. QED
      BY <1>2, <2>1, <2>2, <2>3, <2>4 DEF Submit
<1>3. ASSUME NEW o \in Runs, Process(o), o # p
      PROVE  pc'[p] = pc[p] /\ job'[p] = job[p] /\ todo'[p] = todo[p]
  <2>1. o \in Procs
      BY DEF Procs
  <2>2. CASE ReadPending(o)
      BY <1>3, <2>1, <2>2 DEF ReadPending
  <2>3. CASE NextPending(o)
      BY <1>3, <2>1, <2>3 DEF NextPending
  <2>4. CASE Status(o)
      BY <1>3, <2>1, <2>4 DEF Status, Leave, Goto
  <2>5. CASE Finalise(o)
      BY <1>3, <2>1, <2>5 DEF Finalise, Leave
  <2>6. CASE Resubmit(o)
      BY <1>3, <2>1, <2>6 DEF Resubmit, Leave
  <2>q. QED
      BY <1>3, <2>2, <2>3, <2>4, <2>5, <2>6 DEF Process
<1>4. CASE Expire \/ Mine \/ BecomeFinal \/ Drop \/ UNCHANGED vars
    BY <1>4 DEF Expire, Mine, BecomeFinal, Drop, vars, local
<1>q. QED
    BY <1>1, <1>2, <1>3, <1>4 DEF Next

(* The variables of the history only grow, and so does the next nonce.        *)
LEMMA HistoryGrows ==
    ASSUME TypeInv, [Next]_vars
    PROVE  /\ skipped \subseteq skipped' /\ contested \subseteq contested'
           /\ given \subseteq given'
           /\ nextNonce \in Nat /\ nextNonce' \in Nat /\ nextNonce <= nextNonce'
<1>1. /\ skipped \subseteq skipped' /\ contested \subseteq contested'
      /\ given \subseteq given'
  <2>1. ASSUME NEW q \in Requests, NEW s \in Slots, NEW fee \in Fees, BroadcastExecution(q, s, fee)
        PROVE  contested \subseteq contested' /\ UNCHANGED <<skipped, given>>
      BY <2>1 DEF BroadcastExecution
  <2>2. ASSUME NEW p \in Procs, Store(p)
        PROVE  /\ skipped \subseteq skipped' /\ given \subseteq given'
               /\ UNCHANGED contested
      BY <2>2 DEF Store
  <2>3. ASSUME NEW p \in Procs, Submit(p) \/ Crash(p), ~Store(p)
        PROVE  UNCHANGED history
      BY <2>3 DEF Submit, Acquire, Abandon, Refuse, Broadcast, Unlock, Crash
  <2>4. ASSUME NEW p \in Runs, Process(p)
        PROVE  UNCHANGED history
      BY <2>4 DEF Process, ReadPending, NextPending, Status, Finalise, Resubmit
  <2>5. CASE Expire \/ Mine \/ BecomeFinal \/ Drop \/ UNCHANGED vars
      BY <2>5 DEF Expire, Mine, BecomeFinal, Drop, vars, history
  <2>q. QED
      BY <2>1, <2>2, <2>3, <2>4, <2>5 DEF Next, Request, history
<1>2. nextNonce \in Nat /\ nextNonce' \in Nat
    BY TypeInvNext DEF TypeInv, TypeOK
<1>3. nextNonce' = nextNonce \/ \E n \in Nat : nextNonce' = AfterStore(n)
  <2>1. ASSUME NEW p \in Procs, Store(p)
        PROVE  nextNonce' = nextNonce \/ \E n \in Nat : nextNonce' = AfterStore(n)
    <3>1. job[p].tx \in Tx
        BY <2>1, JobAtWork DEF Store
    <3>2. \A tx \in {SignTransaction(job[p].tx), SignVoidTransaction(job[p].tx)} : tx.nonce \in Nat
        BY <3>1 DEF Tx, SignTransaction, SignVoidTransaction
    <3>q. QED
        BY <2>1, <3>2 DEF Store
  <2>q. QED
      BY <2>1 DEF Next, Request, BroadcastExecution, Submit, Acquire, Abandon, Refuse, Broadcast,
           Unlock, Crash, Process, ReadPending, NextPending, Status, Finalise, Resubmit,
           Expire, Mine, BecomeFinal, Drop, vars, broadcasterRow
<1>4. nextNonce' = nextNonce \/ \E n \in Nat : nextNonce' = n + 1 /\ n >= nextNonce
    BY <1>2, <1>3 DEF AfterStore
<1>q. QED
    BY <1>1, <1>2, <1>4

Given(tx) == [slot |-> tx.slot, nonce |-> tx.nonce] \in given

(* The nonce of tx was given out to its execution, or taken without having    *)
(* been stored.                                                               *)
Known(tx) == tx.nonce <= nextNonce /\ (tx.slot \in skipped \/ Given(tx))

(* The execution of tx has a row, with the nonce of tx unless two requests    *)
(* have prepared it together.                                                 *)
Stored(tx) ==
    /\ Known(tx)
    /\ rows[tx.slot] # NoRow
    /\ rows[tx.slot].tx.nonce = tx.nonce \/ tx.slot \in contested

RowsInPlace == \A s \in Slots : rows[s] # NoRow => rows[s].tx.slot = s /\ Known(rows[s].tx)

(* A new execution is not stored before its transaction is signed, and then   *)
(* is, or has been skipped, as long as it is prepared by one request; any     *)
(* other is stored with the nonce it works with.                              *)
JobGood(p) ==
    job[p] # NoJob =>
        /\ ~job[p].fresh => Stored(job[p].tx)
        /\ job[p].fresh =>
              /\ p \in Requests /\ pc[p] \in {"acquire", "locked", "broadcast", "unlock"}
              /\ job[p].tx.nonce <= nextNonce
              /\ pc[p] \in {"acquire", "locked"} =>
                    rows[job[p].tx.slot] = NoRow \/ job[p].tx.slot \in contested
              /\ pc[p] = "broadcast" =>
                    \/ Stored(job[p].tx)
                    \/ rows[job[p].tx.slot] = NoRow /\ job[p].tx.slot \in skipped

TodosStored == \A p \in Procs : \A row \in todo[p] : Stored(row.tx)

Fresh(p) == job[p] # NoJob /\ job[p].fresh

FreshApart ==
    \A p, o \in Procs : Fresh(p) /\ Fresh(o) /\ p # o
                            => job[p].tx.slot # job[o].tx.slot \/ job[p].tx.slot \in contested

SentKnown == \A tx \in Sent : Stored(tx) \/ tx.slot \in skipped

KeptInv ==
    /\ TypeInv /\ RowsInPlace /\ TodosStored /\ FreshApart /\ SentKnown
    /\ \A p \in Procs : JobGood(p)

LEMMA KnownStays ==
    ASSUME TypeInv, [Next]_vars, NEW tx, tx.nonce \in Nat, Known(tx)
    PROVE  Known(tx)'
BY HistoryGrows DEF Known, Given

(* What a process has signed and stored is known from then on.                *)
LEMMA SignedKnown ==
    ASSUME KeptInv, [Next]_vars, NEW p \in Procs, NEW tx \in Tx, SignedBy(p, tx)
    PROVE  Known(tx)'
<1>0. /\ TypeInv /\ JobGood(p) /\ nextNonce \in Nat /\ tx.nonce \in Nat /\ job[p] # NoJob
      /\ tx.slot = job[p].tx.slot /\ tx.nonce = job[p].tx.nonce /\ job[p].fresh \in BOOLEAN
    BY JobAtWork DEF KeptInv, SignedBy, TypeInv, TypeOK, AtWork, Tx
<1>1. CASE pc[p] = "locked"
    BY <1>0, <1>1 DEF SignedBy, Known, Given, AfterStore
<1>2. CASE pc[p] = "broadcast"
  <2>1. Known(job[p].tx)
      BY <1>0, <1>2 DEF JobGood, Stored, Known
  <2>2. Known(tx)
      BY <1>0, <2>1 DEF Known, Given
  <2>q. QED
      BY <1>0, <2>2, KnownStays
<1>q. QED
    BY <1>1, <1>2 DEF SignedBy

(* What a new row is: of the one process with a new execution for its slot.   *)
LEMMA NewRow ==
    ASSUME KeptInv, [Next]_vars, NEW s \in Slots, rows[s] = NoRow, rows'[s] # NoRow
    PROVE  \E p \in Procs :
              /\ Fresh(p) /\ job[p].tx.slot = s
              /\ pc[p] \in {"locked", "broadcast"} /\ pc'[p] # pc[p]
              /\ rows'[s].tx.slot = s /\ rows'[s].tx.nonce = job[p].tx.nonce
              /\ rows'[s].final = "no"
              /\ pc[p] = "locked" => lock = p /\ nextNonce' = AfterStore(job[p].tx.nonce)
<1>0. TypeInv /\ rows \in [Slots -> Row \cup {NoRow}]
    BY DEF KeptInv, TypeInv, TypeOK
<1>1. ASSUME NEW p \in Runs, pc[p] = "finalise", Upsert(job[p].tx, job[p].final)
      PROVE  FALSE
  <2>1. p \in Procs /\ job[p] # NoJob
      BY <1>0, <1>1 DEF Procs, TypeInv, AtWork
  <2>2. ~job[p].fresh /\ job[p].tx \in Tx
      BY <1>0, <1>1, <2>1, JobAtWork DEF KeptInv, JobGood
  <2>3. Stored(job[p].tx)
      BY <2>1, <2>2 DEF KeptInv, JobGood
  <2>4. job[p].tx.slot # s
      BY <2>3 DEF Stored
  <2>q. QED
      BY <1>0, <1>1, <2>2, <2>4 DEF Upsert, Tx
<1>2. PICK p \in Procs, tx \in Tx : SignedBy(p, tx)
    BY <1>0, <1>1, RowsWritten
<1>3. tx.slot = s /\ rows'[s] = [tx |-> tx, final |-> "no"]
    BY <1>0, <1>2 DEF SignedBy, Upsert, Tx
<1>4. job[p] # NoJob
    BY <1>0, <1>2 DEF SignedBy, TypeInv, AtWork
<1>5. Fresh(p)
    BY <1>2, <1>3, <1>4 DEF KeptInv, JobGood, Stored, SignedBy, Fresh
<1>6. /\ job[p].tx.slot = s /\ pc[p] \in {"locked", "broadcast"} /\ pc'[p] # pc[p]
      /\ tx.nonce = job[p].tx.nonce
    BY <1>2, <1>3 DEF SignedBy
<1>7. rows'[s].tx.slot = s /\ rows'[s].tx.nonce = job[p].tx.nonce /\ rows'[s].final = "no"
    BY <1>3, <1>6
<1>8. pc[p] = "locked" => lock = p /\ nextNonce' = AfterStore(job[p].tx.nonce)
    BY <1>2, <1>6 DEF SignedBy
<1>q. QED
    BY <1>5, <1>6, <1>7, <1>8

(* Whoever writes a row keeps its nonce, unless two requests have prepared    *)
(* the execution together, and writes a nonce that is known.                  *)
LEMMA NonceStays ==
    ASSUME KeptInv, [Next]_vars, NEW s \in Slots, rows[s] # NoRow
    PROVE  /\ rows'[s] # NoRow /\ rows'[s].tx.slot = s
           /\ rows'[s].tx.nonce = rows[s].tx.nonce \/ s \in contested
<1> DEFINE Keeps == /\ rows'[s] # NoRow /\ rows'[s].tx.slot = s
                    /\ rows'[s].tx.nonce = rows[s].tx.nonce \/ s \in contested
<1>0. TypeInv /\ rows \in [Slots -> Row \cup {NoRow}] /\ rows[s].tx.slot = s
    BY DEF KeptInv, TypeInv, TypeOK, RowsInPlace
<1>1. ASSUME NEW p \in Procs, pc[p] \in {"locked", "broadcast", "finalise"},
             job[p].tx.slot = s
      PROVE  job[p].tx.nonce = rows[s].tx.nonce \/ s \in contested
  <2>1. job[p] # NoJob
      BY <1>0, <1>1 DEF TypeInv, AtWork
  <2>q. QED
      BY <1>1, <2>1, <1>0, JobAtWork DEF KeptInv, JobGood, Stored
<1>2. ASSUME NEW tx \in Tx, NEW final \in Endings, Upsert(tx, final),
             tx.slot = s => tx.nonce = rows[s].tx.nonce \/ s \in contested
      PROVE  Keeps
  <2>1. CASE tx.slot = s /\ rows[s].final = "no"
    <3>1. rows'[s] = [tx |-> tx, final |-> final]
        BY <1>0, <1>2, <2>1 DEF Upsert
    <3>2. rows'[s] \in Row
        BY <3>1 DEF Row
    <3>q. QED
        BY <1>2, <2>1, <3>1, <3>2, NullsAssumption
  <2>2. CASE ~(tx.slot = s /\ rows[s].final = "no")
      BY <1>0, <1>2, <2>2 DEF Upsert, Tx
  <2>q. QED
      BY <2>1, <2>2
<1>3. CASE UNCHANGED rows
    BY <1>0, <1>3
<1>4. ASSUME NEW p \in Procs, NEW tx \in Tx, SignedBy(p, tx)
      PROVE  Keeps
  <2>1. tx.slot = s => tx.nonce = rows[s].tx.nonce \/ s \in contested
      BY <1>1, <1>4 DEF SignedBy
  <2>2. Upsert(tx, "no") /\ "no" \in Endings
      BY <1>4 DEF SignedBy, Endings
  <2>q. QED
      BY <1>2, <2>1, <2>2
<1>5. ASSUME NEW p \in Runs, pc[p] = "finalise", Upsert(job[p].tx, job[p].final)
      PROVE  Keeps
  <2>1. p \in Procs
      BY DEF Procs
  <2>2. job[p].tx \in Tx /\ job[p].final \in Endings
      BY <1>0, <1>5, <2>1, JobAtWork
  <2>q. QED
      BY <1>1, <1>2, <1>5, <2>1, <2>2
<1>q. QED
    BY <1>0, <1>3, <1>4, <1>5, RowsWritten

LEMMA StoredStays ==
    ASSUME KeptInv, [Next]_vars, NEW tx, tx.slot \in Slots, tx.nonce \in Nat, Stored(tx)
    PROVE  Stored(tx)'
<1>1. Known(tx)' /\ contested \subseteq contested'
    BY KnownStays, HistoryGrows DEF KeptInv, Stored
<1>q. QED
    BY <1>1, NonceStays DEF Stored

(* A row that is written has a known nonce. *)
LEMMA RowsInPlaceNext ==
    ASSUME KeptInv, [Next]_vars
    PROVE  RowsInPlace'
<1>0. TypeInv /\ TypeInv' /\ rows \in [Slots -> Row \cup {NoRow}]
    BY TypeInvNext DEF KeptInv, TypeInv, TypeOK
<1>1. ASSUME NEW s \in Slots, rows'[s] # NoRow
      PROVE  rows'[s].tx.slot = s
    BY <1>1, NonceStays, NewRow
<1>2. ASSUME NEW s \in Slots, rows[s] # NoRow, rows'[s] = rows[s]
      PROVE  Known(rows[s].tx)'
  <2>1. PICK tx \in Tx : tx = rows[s].tx
      BY <1>0, <1>2 DEF Row
  <2>2. Known(tx)'
      BY <1>2, <2>1, KnownStays DEF KeptInv, RowsInPlace, Tx
  <2>q. QED
      BY <1>2, <2>1, <2>2 DEF Known, Given
<1>3. ASSUME NEW s \in Slots, NEW tx, Known(tx)', rows'[s].tx = tx
      PROVE  Known(rows[s].tx)'
    BY <1>3 DEF Known, Given
<1>4. ASSUME NEW s \in Slots, rows'[s] # NoRow, rows'[s] # rows[s]
      PROVE  Known(rows[s].tx)'
  <2>1. ASSUME NEW tx \in Tx, NEW final, Upsert(tx, final)
        PROVE  rows'[s].tx = tx
      BY <1>0, <1>4, <2>1 DEF Upsert, Tx
  <2>2. ASSUME NEW p \in Procs, NEW tx \in Tx, SignedBy(p, tx)
        PROVE  Known(rows[s].tx)'
    <3>1. Known(tx)' /\ rows'[s].tx = tx
        BY <2>1, <2>2, SignedKnown DEF SignedBy
    <3>q. QED
        BY <1>3, <3>1
  <2>3. ASSUME NEW p \in Runs, pc[p] = "finalise", Upsert(job[p].tx, job[p].final)
        PROVE  Known(rows[s].tx)'
    <3>1. p \in Procs /\ job[p] # NoJob /\ job[p].tx \in Tx /\ job[p].fresh \in BOOLEAN
        BY <1>0, <2>3, JobAtWork DEF Procs, TypeInv, AtWork
    <3>2. PICK tx \in Tx : tx = job[p].tx
        BY <3>1
    <3>3. Known(tx)
        BY <2>3, <3>1, <3>2 DEF KeptInv, JobGood, Stored
    <3>4. Known(tx)' /\ rows'[s].tx = tx
        BY <1>0, <2>1, <2>3, <3>2, <3>3, KnownStays DEF Tx
    <3>q. QED
        BY <1>3, <3>4
  <2>q. QED
      BY <1>0, <1>4, <2>2, <2>3, RowsWritten
<1>5. ASSUME NEW s \in Slots, rows'[s] # NoRow
      PROVE  Known(rows[s].tx)'
    BY <1>2, <1>4, <1>5
<1>q. QED
    BY <1>1, <1>5 DEF RowsInPlace

(* A process that has signed and stored is stored from then on.               *)
LEMMA SignedStored ==
    ASSUME KeptInv, [Next]_vars, NEW p \in Procs, NEW tx \in Tx, SignedBy(p, tx)
    PROVE  Stored(tx)'
<1>0. TypeInv /\ rows \in [Slots -> Row \cup {NoRow}] /\ JobGood(p) /\ job[p] # NoJob
      /\ tx.slot \in Slots /\ tx.slot = job[p].tx.slot /\ tx.nonce = job[p].tx.nonce
      /\ job[p].fresh \in BOOLEAN /\ "no" \in Endings
    BY JobAtWork DEF KeptInv, SignedBy, TypeInv, TypeOK, AtWork, Tx, Endings
<1>1. Known(tx)' /\ contested' = contested
    BY SignedKnown DEF SignedBy
<1>2. CASE rows[tx.slot] # NoRow
  <2>1. rows[tx.slot].tx.nonce = tx.nonce \/ tx.slot \in contested
      BY <1>0, <1>2 DEF JobGood, Stored, SignedBy
  <2>q. QED
      BY <1>0, <1>1, <1>2, <2>1, NonceStays DEF Stored
<1>3. CASE rows[tx.slot] = NoRow
  <2>1. rows'[tx.slot] = [tx |-> tx, final |-> "no"]
      BY <1>0, <1>3 DEF SignedBy, Upsert
  <2>2. rows'[tx.slot] \in Row
      BY <1>0, <2>1 DEF Row
  <2>q. QED
      BY <1>1, <2>1, <2>2, NullsAssumption DEF Stored
<1>q. QED
    BY <1>2, <1>3

(* A process that stays where it is, whatever the others do. *)
LEMMA GoodStays ==
    ASSUME KeptInv, [Next]_vars, NEW p \in Procs, pc'[p] = pc[p], job'[p] = job[p]
    PROVE  JobGood(p)'
<1> SUFFICES ASSUME job[p] # NoJob
             PROVE  JobGood(p)'
    BY DEF JobGood
<1>1. TypeInv /\ JobGood(p)
    BY DEF KeptInv
<1>2. job[p].tx \in Tx /\ job[p].tx.slot \in Slots /\ job[p].fresh \in BOOLEAN
    BY <1>1, JobAtWork DEF TypeInv, AtWork
<1>3. PICK tx \in Tx : tx = job[p].tx
    BY <1>2
<1>4. Stored(tx) => Stored(tx)'
    BY StoredStays DEF Tx
<1>5. ASSUME job[p].fresh, rows[tx.slot] = NoRow
      PROVE  rows'[tx.slot] = NoRow \/ tx.slot \in contested
  <2>1. ASSUME NEW o \in Procs, Fresh(o), job[o].tx.slot = tx.slot
        PROVE  o = p \/ tx.slot \in contested
      BY <1>3, <1>5, <2>1 DEF KeptInv, FreshApart, Fresh
  <2>q. QED
      BY <1>2, <1>3, <1>5, <2>1, NewRow
<1>6. /\ skipped \subseteq skipped' /\ contested \subseteq contested'
      /\ nextNonce \in Nat /\ nextNonce' \in Nat /\ nextNonce <= nextNonce' /\ tx.nonce \in Nat
    BY <1>1, HistoryGrows DEF Tx
<1>7. job'[p].tx = tx
    BY <1>3
<1>8. ASSUME Stored(tx)
      PROVE  Stored(job[p].tx)'
    BY <1>4, <1>7, <1>8 DEF Stored, Known, Given
<1>9. CASE ~job[p].fresh
    BY <1>1, <1>3, <1>8, <1>9 DEF JobGood
<1>10. CASE job[p].fresh
  <2>1. job'[p].tx.nonce <= nextNonce'
      BY <1>1, <1>3, <1>6, <1>7, <1>10 DEF JobGood
  <2>2. pc[p] \in {"acquire", "locked"} => rows'[tx.slot] = NoRow \/ tx.slot \in contested'
      BY <1>1, <1>3, <1>5, <1>6, <1>10 DEF JobGood
  <2>3. CASE pc[p] = "broadcast"
    <3>1. CASE Stored(tx)
        BY <1>1, <1>3, <1>7, <1>8, <1>10, <2>1, <2>3, <3>1 DEF JobGood
    <3>2. CASE ~Stored(tx)
      <4>1. rows[tx.slot] = NoRow /\ tx.slot \in skipped /\ tx.nonce <= nextNonce
          BY <1>1, <1>3, <1>10, <2>3, <3>2 DEF JobGood
      <4>2. Known(tx)'
          BY <1>6, <4>1 DEF Known
      <4>3. rows'[tx.slot] = NoRow \/ Stored(tx)'
          BY <1>5, <1>6, <1>10, <4>1, <4>2 DEF Stored
      <4>4. rows'[tx.slot] = NoRow \/ Stored(job[p].tx)'
          BY <1>7, <4>3 DEF Stored, Known, Given
      <4>q. QED
          BY <1>1, <1>3, <1>6, <1>7, <1>10, <2>1, <2>3, <4>1, <4>4 DEF JobGood
    <3>q. QED
        BY <3>1, <3>2
  <2>q. QED
      BY <1>1, <1>3, <1>7, <1>10, <2>1, <2>2, <2>3 DEF JobGood
<1>q. QED
    BY <1>9, <1>10, <1>2

(* What Store does: the transaction it signs is stored, or its slot skipped.  *)
LEMMA StoreSigns ==
    ASSUME TypeInv, [Next]_vars, NEW p \in Procs, Store(p)
    PROVE  \E tx \in Tx :
              /\ tx.slot = job[p].tx.slot /\ tx.nonce = job[p].tx.nonce
              /\ job'[p] = [job[p] EXCEPT !.tx = tx] /\ pc'[p] = "broadcast"
              /\ \/ SignedBy(p, tx)
                 \/ tx.slot \in skipped' /\ UNCHANGED <<rows, nextNonce, given, contested>>
<1> DEFINE Sign(validity) ==
             IF Goes(validity) /\ ~job[p].tx.void THEN SignTransaction(job[p].tx)
                                                  ELSE SignVoidTransaction(job[p].tx)
<1>1. PICK validity \in Validity :
        /\ job' = [job EXCEPT ![p].tx = Sign(validity)]
        /\ \/ /\ lock = p /\ Upsert(Sign(validity), "no")
              /\ nextNonce' = AfterStore(Sign(validity).nonce)
              /\ given' = given \cup {[slot |-> Sign(validity).slot,
                                       nonce |-> Sign(validity).nonce]}
              /\ UNCHANGED skipped
           \/ /\ skipped' = skipped \cup {Sign(validity).slot}
              /\ UNCHANGED <<rows, nextNonce, given>>
    BY DEF Store
<1>2. job[p].tx \in Tx /\ pc[p] = "locked"
    BY JobAtWork DEF Store
<1>s. /\ Sign(validity) \in Tx /\ Sign(validity).slot = job[p].tx.slot
      /\ Sign(validity).nonce = job[p].tx.nonce
    BY <1>2 DEF Tx, SignTransaction, SignVoidTransaction
<1> HIDE DEF Sign
<1>3. PICK tx \in Tx : /\ tx = Sign(validity)
                       /\ tx.slot = job[p].tx.slot /\ tx.nonce = job[p].tx.nonce
    BY <1>s
<1>4. pc'[p] = "broadcast" /\ contested' = contested /\ job'[p] = [job[p] EXCEPT !.tx = tx]
    BY <1>1, <1>3 DEF Store, TypeInv, TypeOK, AtWork
<1>5. \/ SignedBy(p, tx)
      \/ tx.slot \in skipped' /\ UNCHANGED <<rows, nextNonce, given, contested>>
    BY <1>1, <1>2, <1>3, <1>4 DEF SignedBy
<1>q. QED
    BY <1>3, <1>4, <1>5

(* A process that goes on with an execution that is stored. *)
LEMMA GoodAsStored ==
    ASSUME KeptInv, [Next]_vars, NEW p \in Procs, NEW tx \in Tx, Stored(tx),
           ~job'[p].fresh, job'[p].tx.slot = tx.slot, job'[p].tx.nonce = tx.nonce
    PROVE  JobGood(p)'
<1>1. Stored(tx)'
    BY StoredStays DEF Tx
<1>2. Stored(job[p].tx)'
    BY <1>1 DEF Stored, Known, Given
<1>q. QED
    BY <1>2 DEF JobGood

LEMMA JobGoodNext ==
    ASSUME KeptInv, [Next]_vars, NEW p \in Procs
    PROVE  JobGood(p)'
<1>0. /\ TypeInv /\ JobGood(p)
      /\ nextNonce \in Nat /\ nextNonce' \in Nat /\ nextNonce <= nextNonce'
    BY HistoryGrows DEF KeptInv
<1> USE DEF TypeInv, TypeOK, AtWork
<1>1. CASE pc'[p] = pc[p] /\ job'[p] = job[p]
    BY <1>1, GoodStays
<1>2. ASSUME Leave(p)
      PROVE  JobGood(p)'
    BY <1>0, <1>2 DEF Leave, JobGood
<1>3. ASSUME p \in Requests, NEW s \in Slots, NEW fee \in Fees, BroadcastExecution(p, s, fee)
      PROVE  JobGood(p)'
  <2>1. CASE Leave(p)
      BY <1>2, <2>1
  <2>2. CASE ~Leave(p)
    <3>1. /\ rows[s] = NoRow /\ rows' = rows /\ pc'[p] = "acquire"
          /\ job'[p] = [tx |-> [slot |-> s, nonce |-> 0, fee |-> fee, void |-> FALSE],
                        final |-> "no", fresh |-> TRUE]
        BY <1>0, <1>3, <2>2 DEF BroadcastExecution, AlreadyStored
    <3>2. /\ job'[p].fresh /\ job'[p].tx.slot = s /\ job'[p].tx.nonce <= nextNonce'
        BY <1>0, <3>1
    <3>q. QED
        BY <1>3, <3>1, <3>2 DEF JobGood
  <2>q. QED
      BY <2>1, <2>2
<1>4. CASE Acquire(p)
  <2>1. CASE Leave(p)
      BY <1>2, <2>1
  <2>2. CASE ~Leave(p)
    <3>1. job[p] \in Jobs /\ job[p] # NoJob /\ job[p].tx \in Tx /\ job[p].fresh \in BOOLEAN
        BY <1>0, <1>4, JobAtWork DEF Acquire
    <3>2. /\ job'[p] = [job[p] EXCEPT !.tx.nonce = ChosenNonce(p)]
          /\ pc'[p] \in {"locked", "unlock"} /\ pc[p] = "acquire"
          /\ UNCHANGED <<rows, nextNonce, contested>>
        BY <1>0, <1>4, <2>2 DEF Acquire, history
    <3>3. /\ job'[p].fresh = job[p].fresh /\ job'[p].tx.slot = job[p].tx.slot
          /\ job'[p].tx.nonce = ChosenNonce(p)
        BY <3>1, <3>2 DEF Jobs, Tx
    <3>4. CASE job[p].fresh
      <4>1. rows'[job'[p].tx.slot] = NoRow \/ job'[p].tx.slot \in contested'
          BY <1>0, <3>1, <3>2, <3>3, <3>4 DEF JobGood
      <4>2. p \in Requests /\ job'[p].tx.nonce <= nextNonce'
          BY <1>0, <3>1, <3>2, <3>3, <3>4 DEF JobGood, ChosenNonce
      <4>q. QED
          BY <3>2, <3>3, <3>4, <4>1, <4>2 DEF JobGood
    <3>5. CASE ~job[p].fresh
      <4>1. Stored(job[p].tx)
          BY <1>0, <3>1, <3>5 DEF JobGood
      <4>q. QED
          BY <3>1, <3>3, <3>5, <4>1, GoodAsStored DEF ChosenNonce
    <3>q. QED
        BY <3>1, <3>4, <3>5
  <2>q. QED
      BY <2>1, <2>2
<1>5. CASE Abandon(p) \/ Refuse(p) \/ Broadcast(p)
  <2>1. job[p] # NoJob /\ job[p].tx \in Tx /\ job[p].fresh \in BOOLEAN /\ job[p].tx.nonce \in Nat
      BY <1>0, <1>5, JobAtWork DEF Abandon, Refuse, Broadcast
  <2>2. pc'[p] = "unlock" /\ job'[p] = job[p]
      BY <1>0, <1>5 DEF Abandon, Refuse, Broadcast, Goto
  <2>3. CASE job[p].fresh
      BY <1>0, <2>1, <2>2, <2>3 DEF JobGood
  <2>4. CASE ~job[p].fresh
    <3>1. Stored(job[p].tx)
        BY <1>0, <2>1, <2>4 DEF JobGood
    <3>q. QED
        BY <2>1, <2>2, <2>4, <3>1, GoodAsStored
  <2>q. QED
      BY <2>1, <2>3, <2>4
<1>6. CASE Store(p)
  <2>1. /\ job[p] \in Jobs /\ job[p] # NoJob /\ job[p].tx \in Tx /\ pc[p] = "locked"
        /\ job[p].fresh \in BOOLEAN
      BY <1>0, <1>6, JobAtWork DEF Store
  <2>2. PICK tx \in Tx :
              /\ tx.slot = job[p].tx.slot /\ tx.nonce = job[p].tx.nonce
              /\ job'[p] = [job[p] EXCEPT !.tx = tx] /\ pc'[p] = "broadcast"
              /\ \/ SignedBy(p, tx)
                 \/ tx.slot \in skipped' /\ UNCHANGED <<rows, nextNonce, given, contested>>
      BY <1>0, <1>6, StoreSigns
  <2>3. job'[p].tx = tx /\ job'[p].fresh = job[p].fresh
      BY <2>1, <2>2 DEF Jobs
  <2>4. CASE ~job[p].fresh
    <3>1. Stored(job[p].tx)
        BY <1>0, <2>1, <2>4 DEF JobGood
    <3>q. QED
        BY <2>1, <2>2, <2>3, <2>4, <3>1, GoodAsStored
  <2>5. CASE job[p].fresh
    <3>1. /\ rows[tx.slot] = NoRow \/ tx.slot \in contested
          /\ p \in Requests /\ tx.nonce <= nextNonce /\ tx.nonce \in Nat
        BY <1>0, <2>1, <2>2, <2>5 DEF JobGood, Tx
    <3>2. tx.nonce <= nextNonce'
        BY <1>0, <3>1
    <3>3. Stored(tx)' \/ (rows'[tx.slot] = NoRow /\ tx.slot \in skipped')
      <4>1. CASE SignedBy(p, tx)
          BY <4>1, SignedStored
      <4>2. CASE tx.slot \in skipped' /\ UNCHANGED <<rows, nextNonce, given, contested>>
          BY <3>1, <3>2, <4>2 DEF Stored, Known
      <4>q. QED
          BY <2>2, <4>1, <4>2
    <3>4. Stored(job[p].tx)' \/ (rows'[tx.slot] = NoRow /\ tx.slot \in skipped')
        BY <2>3, <3>3 DEF Stored, Known, Given
    <3>q. QED
        BY <2>2, <2>3, <2>5, <3>1, <3>2, <3>4 DEF JobGood
  <2>q. QED
      BY <2>1, <2>4, <2>5
<1>7. CASE Unlock(p) \/ Crash(p)
    BY <1>2, <1>7 DEF Unlock, Crash
<1>8. ASSUME p \in Runs, Process(p)
      PROVE  JobGood(p)'
  <2>1. CASE ReadPending(p)
      BY <1>1, <2>1 DEF ReadPending
  <2>2. CASE NextPending(p)
    <3>1. PICK row \in todo[p] :
            job'[p] = [tx |-> row.tx, final |-> "no", fresh |-> FALSE]
        BY <1>0, <2>2 DEF NextPending
    <3>2. Stored(row.tx) /\ row.tx \in Tx
        BY <1>0, <3>1 DEF KeptInv, TodosStored, Todos, Row
    <3>q. QED
        BY <3>1, <3>2, GoodAsStored
  <2>3. ASSUME pc[p] \in {"status", "resubmit"}
        PROVE  /\ job[p] \in Jobs /\ job[p] # NoJob /\ ~job[p].fresh
               /\ Stored(job[p].tx) /\ job[p].tx \in Tx
    <3>1. job[p] \in Jobs /\ job[p] # NoJob /\ job[p].fresh \in BOOLEAN /\ job[p].tx \in Tx
        BY <1>0, <2>3, JobAtWork
    <3>q. QED
        BY <1>0, <2>3, <3>1 DEF JobGood
  <2>4. CASE Status(p)
    <3>1. CASE Leave(p)
        BY <1>2, <3>1
    <3>2. CASE ~Leave(p)
      <4>1. \/ job'[p] = [job[p] EXCEPT !.final = Ending(job[p].tx)]
            \/ job'[p] = job[p]
          BY <1>0, <2>4, <3>2 DEF Status, Goto
      <4>2. job'[p].tx = job[p].tx /\ ~job'[p].fresh
          BY <2>3, <2>4, <4>1 DEF Jobs, Status
      <4>q. QED
          BY <2>3, <2>4, <4>2, GoodAsStored DEF Status
    <3>q. QED
        BY <3>1, <3>2
  <2>5. CASE Finalise(p)
      BY <1>2, <2>5 DEF Finalise
  <2>6. CASE Resubmit(p)
    <3>1. CASE Leave(p)
        BY <1>2, <3>1
    <3>2. CASE ~Leave(p)
      <4>1. PICK fee \in Fees, void \in BOOLEAN :
              job'[p] = [job[p] EXCEPT !.tx.fee = fee, !.tx.void = void]
          BY <1>0, <2>6, <3>2 DEF Resubmit
      <4>2. /\ job'[p].tx = [job[p].tx EXCEPT !.fee = fee, !.void = void]
            /\ ~job'[p].fresh
          BY <2>3, <2>6, <4>1 DEF Jobs, Resubmit
      <4>3. job'[p].tx.slot = job[p].tx.slot /\ job'[p].tx.nonce = job[p].tx.nonce
          BY <2>3, <2>6, <4>2 DEF Tx, Resubmit
      <4>q. QED
          BY <2>3, <2>6, <4>2, <4>3, GoodAsStored DEF Resubmit
    <3>q. QED
        BY <3>1, <3>2
  <2>q. QED
      BY <1>8, <2>1, <2>2, <2>4, <2>5, <2>6 DEF Process
<1>q. QED
    BY <1>0, <1>1, <1>3, <1>4, <1>5, <1>6, <1>7, <1>8, SelfOrSame DEF Submit

LEMMA TodosStoredNext ==
    ASSUME KeptInv, [Next]_vars
    PROVE  TodosStored'
<1>0. TypeInv /\ TodosStored /\ RowsInPlace
    BY DEF KeptInv
<1> SUFFICES ASSUME NEW p \in Procs, NEW row \in todo'[p]
             PROVE  Stored(row.tx)'
    BY DEF TodosStored
<1>1. CASE row \in todo[p]
  <2>1. PICK tx \in Tx : tx = row.tx
      BY <1>0, <1>1 DEF TypeInv, Todos, Row
  <2>2. Stored(tx)'
      BY <1>0, <1>1, <2>1, StoredStays DEF TodosStored, Tx
  <2>q. QED
      BY <2>1, <2>2
<1>2. CASE row \notin todo[p]
  <2>1. ReadPending(p) \/ p \notin Runs
    <3> USE DEF TypeInv, Todos
    <3>1. CASE p \in Requests /\ \E s \in Slots, fee \in Fees : BroadcastExecution(p, s, fee)
        BY <1>2, <3>1 DEF BroadcastExecution
    <3>2. CASE Submit(p)
        BY <1>2, <3>2 DEF Submit, Acquire, Abandon, Refuse, Store, Broadcast, Unlock
    <3>3. CASE Crash(p)
        BY <1>0, <1>2, <3>3 DEF Crash
    <3>4. CASE p \in Runs /\ Process(p)
        BY <1>0, <1>2, <3>4 DEF Process, NextPending, Status, Finalise, Resubmit
    <3>q. QED
        BY <1>0, <1>2, <3>1, <3>2, <3>3, <3>4, SelfOrSame
  <2>2. CASE p \notin Runs
    <3> USE DEF TypeInv, Todos
    <3>1. CASE p \in Requests /\ \E s \in Slots, fee \in Fees : BroadcastExecution(p, s, fee)
        BY <1>2, <3>1 DEF BroadcastExecution
    <3>2. CASE Submit(p)
        BY <1>2, <3>2 DEF Submit, Acquire, Abandon, Refuse, Store, Broadcast, Unlock
    <3>3. CASE Crash(p)
        BY <1>0, <1>2, <3>3 DEF Crash
    <3>q. QED
        BY <1>0, <1>2, <2>2, <3>1, <3>2, <3>3, SelfOrSame
  <2>3. CASE ReadPending(p)
    <3>1. PICK read \in SUBSET Pending : todo' = [todo EXCEPT ![p] = {rows[s] : s \in read}]
        BY <2>3 DEF ReadPending
    <3>2. PICK s \in Slots : rows[s] # NoRow /\ row = rows[s]
        BY <1>0, <3>1 DEF Pending, TypeInv, Todos
    <3>3. PICK tx \in Tx : tx = row.tx
        BY <1>0, <3>2 DEF TypeInv, TypeOK, Row
    <3>4. Stored(tx)
        BY <1>0, <3>2, <3>3 DEF RowsInPlace, Stored
    <3>5. Stored(tx)'
        BY <3>4, StoredStays DEF Tx
    <3>q. QED
        BY <3>3, <3>5
  <2>q. QED
      BY <2>1, <2>2, <2>3
<1>q. QED
    BY <1>1, <1>2

(* A slot that a request takes up when another has it is contested.           *)
LEMMA FreshApartNext ==
    ASSUME KeptInv, [Next]_vars
    PROVE  FreshApart'
<1>0. TypeInv /\ FreshApart /\ contested \subseteq contested'
    BY HistoryGrows DEF KeptInv
<1> DEFINE Anew(p) == /\ p \in Requests /\ Fresh(p)'
                      /\ \A o \in Procs \ {p} :
                            Fresh(o) => \/ job[o].tx.slot # job'[p].tx.slot
                                        \/ job'[p].tx.slot \in contested'
           Still(p) == Fresh(p) /\ Fresh(p)' /\ job'[p].tx.slot = job[p].tx.slot
<1>1. ASSUME NEW p \in Procs, Fresh(p)'
      PROVE  Still(p) \/ (Anew(p) /\ Request)
  <2> USE DEF TypeInv, AtWork, TypeOK
  <2>1. ASSUME Leave(p) PROVE FALSE
      BY <1>0, <1>1, <2>1 DEF Leave, Fresh
  <2>2. CASE job'[p] = job[p]
      BY <1>1, <2>2 DEF Fresh
  <2>3. ASSUME p \in Requests, NEW s \in Slots, NEW fee \in Fees, BroadcastExecution(p, s, fee)
        PROVE  Anew(p) /\ Request
    <3>1. job'[p].tx.slot = s /\ (Preparing(s) => s \in contested')
        BY <1>0, <2>1, <2>3 DEF BroadcastExecution
    <3>2. ASSUME NEW o \in Procs, Fresh(o)
          PROVE  job[o].tx.slot # s \/ s \in contested'
      <4>1. o \in Requests /\ job[o] # NoJob
          BY <3>2 DEF KeptInv, JobGood, Fresh
      <4>q. QED
          BY <3>1, <4>1 DEF Preparing
    <3>q. QED
        BY <1>1, <2>3, <3>1, <3>2 DEF Request
  <2>4. CASE Acquire(p)
    <3>1. job[p] \in Jobs /\ job[p] # NoJob
        BY <1>0, <2>4, JobAtWork DEF Acquire
    <3>2. job'[p] = [job[p] EXCEPT !.tx.nonce = ChosenNonce(p)]
        BY <1>0, <2>1, <2>4 DEF Acquire
    <3>q. QED
        BY <1>1, <3>1, <3>2 DEF Fresh, Jobs, Tx
  <2>5. CASE Abandon(p) \/ Refuse(p) \/ Broadcast(p)
      BY <2>2, <2>5 DEF Abandon, Refuse, Broadcast, Goto
  <2>6. CASE Store(p)
    <3>1. job[p] \in Jobs /\ job[p] # NoJob /\ job[p].tx \in Tx
        BY <1>0, <2>6, JobAtWork DEF Store
    <3>2. PICK tx \in {SignTransaction(job[p].tx), SignVoidTransaction(job[p].tx)} :
              job'[p] = [job[p] EXCEPT !.tx = tx]
        BY <1>0, <2>6 DEF Store
    <3>3. tx.slot = job[p].tx.slot
        BY <3>1, <3>2 DEF Tx, SignTransaction, SignVoidTransaction
    <3>q. QED
        BY <1>1, <3>1, <3>2, <3>3 DEF Fresh, Jobs
  <2>7. CASE Unlock(p) \/ Crash(p)
      BY <2>1, <2>7 DEF Unlock, Crash
  <2>8. CASE p \in Runs /\ Process(p)
    <3>1. JobGood(p)' /\ p \notin Requests
        BY <2>8, JobGoodNext, ProcessesAssumption
    <3>q. QED
        BY <1>1, <3>1 DEF JobGood, Fresh
  <2>q. QED
      BY <1>0, <2>2, <2>3, <2>4, <2>5, <2>6, <2>7, <2>8, SelfOrSame DEF Submit
<1>2. ASSUME NEW p \in Procs, NEW o \in Procs, Fresh(p)', Fresh(o)', p # o, Still(p)
      PROVE  job'[p].tx.slot # job'[o].tx.slot \/ job'[p].tx.slot \in contested'
  <2>1. CASE Still(o)
      BY <1>0, <1>2, <2>1 DEF FreshApart
  <2>2. CASE Anew(o)
      BY <1>2, <2>2
  <2>q. QED
      BY <1>1, <1>2, <2>1, <2>2
<1>3. ASSUME NEW p \in Procs, NEW o \in Procs, Fresh(p)', Fresh(o)', p # o,
             ~Still(p), ~Still(o), Request
      PROVE  FALSE
  <2>1. \/ job'[p] = job[p]
        \/ job'[o] = job[o]
      BY <1>0, <1>3 DEF Request, BroadcastExecution, Leave, Procs, TypeInv, AtWork
  <2>q. QED
      BY <1>3, <2>1 DEF Fresh
<1> HIDE DEF Anew, Still
<1>4. ASSUME NEW p \in Procs, NEW o \in Procs, Fresh(p)', Fresh(o)', p # o
      PROVE  job'[p].tx.slot # job'[o].tx.slot \/ job'[p].tx.slot \in contested'
    BY <1>1, <1>2, <1>3, <1>4
<1>q. QED
    BY <1>4 DEF FreshApart

LEMMA SentKnownNext ==
    ASSUME KeptInv, [Next]_vars
    PROVE  SentKnown'
<1>0. TypeInv /\ SentKnown
    BY DEF KeptInv
<1>1. skipped \subseteq skipped'
    BY <1>0, HistoryGrows
<1> SUFFICES ASSUME NEW tx \in Sent'
             PROVE  Stored(tx)' \/ tx.slot \in skipped'
    BY DEF SentKnown
<1>2. ASSUME tx \in Tx, Stored(tx) \/ tx.slot \in skipped
      PROVE  Stored(tx)' \/ tx.slot \in skipped'
    BY <1>1, <1>2, StoredStays DEF Tx
<1>3. CASE tx \in Sent
  <2>1. tx \in Tx
      BY <1>0, <1>3, ChainTypes DEF Sent, TypeInv, TypeOK
  <2>q. QED
      BY <1>0, <1>2, <1>3, <2>1 DEF SentKnown
<1>4. CASE tx \notin Sent
  <2>1. \A i \in 1..netNonce' : mined'[i].tx \in Sent
    <3>1. CASE UNCHANGED mined
        BY <3>1 DEF Sent, netNonce
    <3>2. CASE Mine
      <4> DEFINE Block == [tx : Tx, ok : BOOLEAN]
      <4>1. PICK t \in pool, ok \in BOOLEAN : mined' = Append(mined, [tx |-> t, ok |-> ok])
          BY <3>2 DEF Mine
      <4>2. mined \in Seq(Block) /\ [tx |-> t, ok |-> ok] \in Block
          BY <1>0, <4>1 DEF TypeInv, TypeOK
      <4> HIDE DEF Block
      <4>3. /\ Len(mined') = Len(mined) + 1 /\ Len(mined) \in Nat
            /\ \A i \in 1..Len(mined) : mined'[i] = mined[i]
            /\ mined'[Len(mined) + 1] = [tx |-> t, ok |-> ok]
          BY <4>1, <4>2
      <4>q. QED
          BY <4>1, <4>3 DEF Sent, netNonce
    <3>q. QED
        BY <1>0, <3>1, <3>2, ChainGrows
  <2>2. tx \in pool' /\ tx \notin pool
      BY <1>4, <2>1 DEF Sent, netNonce
  <2>3. PICK p \in Procs : Broadcast(p) /\ tx = job[p].tx
    <3>1. ASSUME NEW p \in Procs, Broadcast(p)
          PROVE  tx = job[p].tx
        BY <2>2, <3>1 DEF Broadcast
    <3>2. \E p \in Procs : Broadcast(p)
        BY <2>2 DEF Next, Request, BroadcastExecution, Submit, Acquire, Abandon, Refuse, Store,
               Unlock, Crash, Process, ReadPending, NextPending, Status, Finalise, Resubmit,
               Expire, Mine, BecomeFinal, Drop, vars, chain
    <3>q. QED
        BY <3>1, <3>2
  <2>4. tx \in Tx /\ job[p] # NoJob /\ pc[p] = "broadcast"
      BY <1>0, <2>3, JobAtWork DEF Broadcast, TypeInv, AtWork
  <2>5. Stored(tx) \/ tx.slot \in skipped
      BY <1>0, <2>3, <2>4, JobAtWork DEF KeptInv, JobGood
  <2>q. QED
      BY <1>2, <2>4, <2>5
<1>q. QED
    BY <1>3, <1>4

LEMMA KeptInvHolds == Spec => []KeptInv
<1>1. Init => KeptInv
  <2> SUFFICES ASSUME Init
               PROVE  KeptInv
      OBVIOUS
  <2>1. TypeInv
      BY TypeInvInit
  <2>2. Sent = {}
      BY DEF Init, Sent, netNonce
  <2>q. QED
      BY <2>1, <2>2 DEF Init, KeptInv, RowsInPlace, TodosStored, FreshApart, Fresh, SentKnown,
                        JobGood
<1>2. KeptInv /\ [Next]_vars => KeptInv'
  <2> SUFFICES ASSUME KeptInv, [Next]_vars
               PROVE  KeptInv'
      OBVIOUS
  <2>1. TypeInv'
      BY TypeInvNext DEF KeptInv
  <2>q. QED
      BY <2>1, RowsInPlaceNext, JobGoodNext, TodosStoredNext, FreshApartNext, SentKnownNext
         DEF KeptInv
<1>q. QED
    BY <1>1, <1>2, PTL DEF Spec

(* The network never has the transactions of an execution under two nonces,   *)
(* unless it was broadcast without having been stored or two requests have    *)
(* prepared it together: for any number of slots, requests, runs and faults,  *)
(* however they overlap.                                                      *)
THEOREM ExecutedAtMostOnce == Spec => []AtMostOnceStored
<1>1. KeptInv => AtMostOnceStored
    BY DEF KeptInv, SentKnown, Stored, AtMostOnceStored
<1>q. QED
    BY <1>1, KeptInvHolds, PTL

LEMMA ContestedMoves ==
    ASSUME [Next]_vars
    PROVE  \/ UNCHANGED contested
           \/ UNCHANGED rows /\ \E s \in Slots : contested' = contested \cup {s}
<1>1. ASSUME NEW q \in Requests, NEW s \in Slots, NEW fee \in Fees,
             BroadcastExecution(q, s, fee)
      PROVE  \/ UNCHANGED contested
             \/ UNCHANGED rows /\ contested' = contested \cup {s}
    BY <1>1 DEF BroadcastExecution
<1>q. QED
    BY <1>1 DEF Next, Request, Submit, Acquire, Abandon, Refuse, Store, Broadcast, Unlock, Crash,
       Process, ReadPending, NextPending, Status, Finalise, Resubmit, Expire, Mine, BecomeFinal,
       Drop, vars, history

(* The executor implements its promise: what it has stored for a slot keeps   *)
(* its nonce unless two requests have prepared it together, is finalized once *)
(* and is never forgotten.                                                    *)
THEOREM ExecutorKeepsPromise == Spec => PromiseKept
<1>1. Init => Promise!Init
    BY DEF Init, Promise!Init, KeptNonces, FinalSlots, Unkept
<1>2. ASSUME KeptInv, FinalInv, [Next]_vars
      PROVE  [Promise!Next]_(Promise!vars)
  <2>0. TypeInv /\ rows \in [Slots -> Row \cup {NoRow}]
      BY <1>2 DEF KeptInv, TypeInv, TypeOK
  <2>1. KeptNonces \in [Slots -> Nat \cup {Unkept}]
      BY <2>0 DEF KeptNonces, Row, Tx
  <2>2. ASSUME NEW s \in Slots
        PROVE  /\ KeptNonces[s] = IF rows[s] = NoRow THEN Unkept ELSE rows[s].tx.nonce
               /\ KeptNonces'[s] = IF rows'[s] = NoRow THEN Unkept ELSE rows'[s].tx.nonce
      BY DEF KeptNonces
  <2>3. ASSUME NEW s \in Slots, rows[s] # NoRow
        PROVE  KeptNonces'[s] = KeptNonces[s] \/ s \in contested
      BY <1>2, <2>2, <2>3, NonceStays
  <2>4. KeptNonces = [s \in Slots |-> KeptNonces[s]]
        /\ KeptNonces' = [s \in Slots |-> KeptNonces'[s]]
      BY DEF KeptNonces
  <2>5. CASE UNCHANGED rows
    <3>1. KeptNonces' = KeptNonces /\ FinalSlots' = FinalSlots
        BY <2>5 DEF KeptNonces, FinalSlots
    <3>q. QED
        BY <1>2, <3>1, ContestedMoves DEF Promise!vars, Promise!Next, Promise!Contest
  (* What a step that writes one row is, to the promise. *)
  <2>6. ASSUME NEW s \in Slots, \A t \in Slots : t # s => rows'[t] = rows[t],
               rows'[s] # NoRow => rows'[s].tx.nonce \in Nat
        PROVE  /\ \A t \in Slots : t # s => KeptNonces'[t] = KeptNonces[t]
               /\ KeptNonces' = [KeptNonces EXCEPT ![s] = KeptNonces'[s]]
               /\ rows'[s] # NoRow => Promise!Becomes(s)
    <3>1. \A t \in Slots : t # s => KeptNonces'[t] = KeptNonces[t]
        BY <2>2, <2>6
    <3>2. KeptNonces' = [KeptNonces EXCEPT ![s] = KeptNonces'[s]]
        BY <2>1, <2>4, <3>1
    <3>3. rows'[s] # NoRow => KeptNonces'[s] \in Nat
        BY <2>2, <2>6
    <3>q. QED
        BY <3>1, <3>2, <3>3 DEF Promise!Becomes
  <2>7. ASSUME NEW p \in Procs, NEW tx \in Tx, SignedBy(p, tx), ~UNCHANGED rows
        PROVE  [Promise!Next]_(Promise!vars)
    <3> DEFINE k == tx.slot
    <3>1. /\ rows[k] = NoRow \/ rows[k].final = "no"
          /\ rows'[k] = [tx |-> tx, final |-> "no"]
          /\ \A t \in Slots : t # k => rows'[t] = rows[t]
          /\ k \in Slots /\ tx.nonce \in Nat
          /\ UNCHANGED contested
        BY <2>0, <2>7 DEF SignedBy, Upsert, Tx
    <3> HIDE DEF k
    <3>2. rows'[k] \in Row /\ rows'[k] # NoRow
      <4>1. rows'[k] \in Row
          BY <3>1 DEF Row, Endings
      <4>q. QED
          BY <4>1, NullsAssumption
    <3>3. Promise!Becomes(k) /\ \A t \in Slots : t # k => KeptNonces'[t] = KeptNonces[t]
        BY <2>6, <3>1, <3>2
    <3>4. FinalSlots' = FinalSlots /\ k \notin FinalSlots
      <4>1. \A s \in Slots : rows'[s] # NoRow /\ rows'[s].final # "no"
                                <=> rows[s] # NoRow /\ rows[s].final # "no"
          BY <3>1
      <4>q. QED
          BY <3>1, <4>1 DEF FinalSlots
    <3>5. CASE rows[k] = NoRow \/ k \in contested
      <4>1. KeptNonces[k] = Unkept \/ (k \in contested /\ k \notin FinalSlots)
          BY <2>2, <3>1, <3>4, <3>5
      <4>q. QED
          BY <3>1, <3>3, <3>4, <4>1 DEF Promise!Next, Promise!Keep
    <3>6. CASE rows[k] # NoRow /\ k \notin contested
      <4>1. KeptNonces'[k] = KeptNonces[k]
          BY <2>3, <3>1, <3>6
      <4>2. \A t \in Slots : KeptNonces'[t] = KeptNonces[t]
          BY <3>3, <4>1
      <4>3. KeptNonces' = KeptNonces
          BY <2>4, <4>2
      <4>q. QED
          BY <3>1, <3>4, <4>3 DEF Promise!vars
    <3>q. QED
        BY <3>5, <3>6
  <2>8. ASSUME NEW p \in Runs, pc[p] = "finalise", Upsert(job[p].tx, job[p].final),
               ~UNCHANGED rows
        PROVE  Promise!Next
    <3> DEFINE tx == job[p].tx
               k == tx.slot
    <3>1. p \in Procs
        BY DEF Procs
    <3>2. tx \in Tx /\ job[p].final \in Endings /\ job[p] # NoJob
        BY <2>0, <2>8, <3>1, JobAtWork DEF TypeInv, AtWork
    <3>3. job[p].final # "no"
        BY <1>2, <2>8, <3>1 DEF FinalInv, Found, Ending
    <3>4. rows[k] # NoRow /\ k \in Slots /\ tx.nonce \in Nat
        BY <1>2, <2>8, <3>1, <3>2, JobAtWork DEF KeptInv, JobGood, Stored, Tx
    <3>5. /\ rows[k].final = "no" /\ rows'[k] = [tx |-> tx, final |-> job[p].final]
          /\ \A t \in Slots : t # k => rows'[t] = rows[t]
        BY <2>0, <2>8, <3>2, <3>4 DEF Upsert
    <3> HIDE DEF tx, k
    <3>6. rows'[k] \in Row /\ rows'[k] # NoRow
      <4>1. rows'[k] \in Row
          BY <3>2, <3>5 DEF Row
      <4>q. QED
          BY <4>1, NullsAssumption
    <3>7. Promise!Becomes(k) /\ \A t \in Slots : t # k => KeptNonces'[t] = KeptNonces[t]
      <4>1. rows'[k].tx.nonce \in Nat
          BY <3>4, <3>5
      <4>q. QED
          BY <2>6, <3>4, <3>5, <3>6, <4>1
    <3>8. KeptNonces[k] # Unkept
        BY <2>0, <2>2, <3>4 DEF Row, Tx, Unkept
    <3>9. FinalSlots' = FinalSlots \cup {k} /\ k \notin FinalSlots
        BY <3>3, <3>4, <3>5, <3>6 DEF FinalSlots
    <3>10. UNCHANGED contested
        BY <1>2, <2>8, ContestedMoves
    <3>11. k \notin contested => KeptNonces' = KeptNonces
      <4>1. ASSUME k \notin contested
            PROVE  \A t \in Slots : KeptNonces'[t] = KeptNonces[t]
          BY <2>3, <3>4, <3>7, <4>1
      <4>q. QED
          BY <2>4, <4>1
    <3>q. QED
        BY <3>4, <3>7, <3>8, <3>9, <3>10, <3>11 DEF Promise!Next, Promise!Settle
  <2>q. QED
      BY <1>2, <2>0, <2>5, <2>7, <2>8, RowsWritten
<1>q. QED
    BY <1>1, <1>2, KeptInvHolds, FinalInvHolds, PTL DEF Spec, PromiseKept, Promise!Spec

-----------------------------------------------------------------------------
(* No nonce is shared, and none is left out.                                  *)

(* The nonce that a request has chosen under the lock is the next one as long *)
(* as the lock is its own.                                                    *)
Holding ==
    \A p \in Procs : lock = p /\ pc[p] = "locked" /\ Fresh(p) => job[p].tx.nonce = nextNonce

(* The nonces below the next one, and only they, have been given out, each to *)
(* one execution, which has a row.                                            *)
GivenBelow == \A g \in given : g.nonce < nextNonce

GivenApart ==
    \A g, h \in given : g.nonce = h.nonce /\ g.slot # h.slot
                            => g.slot \in skipped \/ h.slot \in skipped

GivenAll ==
    \A n \in 0..(nextNonce - 1) : \E s \in Slots : [slot |-> s, nonce |-> n] \in given

GivenStored == \A g \in given : Stored(g)

NonceInv == KeptInv /\ Holding /\ GivenBelow /\ GivenApart /\ GivenAll /\ GivenStored

LEMMA NonceMoves ==
    ASSUME TypeInv, [Next]_vars, ~UNCHANGED <<nextNonce, given>>
    PROVE  \E p \in Procs, tx \in Tx : SignedBy(p, tx) /\ pc[p] = "locked"
<1>1. PICK p \in Procs : Store(p)
    BY DEF Next, Request, BroadcastExecution, Submit, Acquire, Abandon, Refuse, Broadcast,
           Unlock, Crash, Process, ReadPending, NextPending, Status, Finalise, Resubmit,
           Expire, Mine, BecomeFinal, Drop, vars, broadcasterRow, history
<1>2. pc[p] = "locked"
    BY <1>1 DEF Store
<1>q. QED
    BY <1>1, <1>2, StoreSigns

LEMMA LockedAsChosen ==
    ASSUME KeptInv, [Next]_vars, NEW p \in Procs, lock' = p, pc'[p] = "locked", Fresh(p)'
    PROVE  \/ job'[p].tx.nonce = nextNonce /\ nextNonce' = nextNonce
           \/ lock = p /\ pc[p] = "locked" /\ job'[p] = job[p]
<1>0. TypeInv
    BY DEF KeptInv
<1> USE DEF TypeInv, AtWork, TypeOK
<1>1. CASE Acquire(p)
  <2>1. ~Leave(p)
      BY <1>0 DEF Leave, Fresh
  <2>2. job[p] \in Jobs
      BY <1>0, <1>1, JobAtWork DEF Acquire
  <2>3. job'[p] = [job[p] EXCEPT !.tx.nonce = ChosenNonce(p)] /\ nextNonce' = nextNonce
      BY <1>0, <1>1, <2>1 DEF Acquire
  <2>4. job'[p].fresh = job[p].fresh /\ job'[p].tx.nonce = ChosenNonce(p)
      BY <2>2, <2>3 DEF Jobs, Tx
  <2>q. QED
      BY <2>3, <2>4 DEF Fresh, ChosenNonce
<1>2. ASSUME ~Acquire(p)
      PROVE  lock = p
  <2>1. NoLock # p
      BY ProcessesAssumption
  <2>2. ASSUME NEW o \in Procs, Acquire(o)
        PROVE  lock = p
      BY <1>2, <2>2 DEF Acquire
  <2>q. QED
      BY <2>1, <2>2 DEF Next, Request, BroadcastExecution, Submit, Abandon, Refuse, Store, Broadcast,
         Unlock, Crash, Process, ReadPending, NextPending, Status, Finalise, Resubmit,
         Expire, Mine, BecomeFinal, Drop, vars, broadcasterRow, FreeLock
<1>3. ASSUME ~Acquire(p)
      PROVE  pc[p] = "locked" /\ job'[p] = job[p]
  <2>1. ~Leave(p)
      BY <1>0 DEF Leave, Fresh
  <2>2. ASSUME NEW s \in Slots, NEW fee \in Fees, BroadcastExecution(p, s, fee)
        PROVE  FALSE
      BY <1>0, <2>1, <2>2 DEF BroadcastExecution
  <2>3. ~(Abandon(p) \/ Refuse(p) \/ Broadcast(p) \/ Store(p) \/ Unlock(p) \/ Crash(p))
      BY <1>0, <2>1 DEF Abandon, Refuse, Broadcast, Store, Unlock, Crash, Goto
  <2>4. ASSUME p \in Runs, Process(p)
        PROVE  FALSE
    <3>1. JobGood(p)' /\ p \notin Requests
        BY <2>4, JobGoodNext, ProcessesAssumption
    <3>q. QED
        BY <3>1 DEF JobGood, Fresh
  <2>q. QED
      BY <1>0, <1>3, <2>2, <2>3, <2>4, SelfOrSame DEF Submit
<1>q. QED
    BY <1>1, <1>2, <1>3

(* What a process stores under the lock: the next nonce for a new execution,  *)
(* one that it already has for a stored one.                                  *)
LEMMA StoresNonce ==
    ASSUME NonceInv, [Next]_vars, NEW p \in Procs, NEW tx \in Tx, SignedBy(p, tx),
           pc[p] = "locked"
    PROVE  /\ nextNonce' = AfterStore(tx.nonce) /\ tx.nonce \in Nat /\ tx.nonce <= nextNonce
           /\ given' = given \cup {[slot |-> tx.slot, nonce |-> tx.nonce]}
           /\ tx.nonce = nextNonce \/ tx.slot \in skipped \/ Given(tx)
<1>1. /\ TypeInv /\ JobGood(p) /\ Holding /\ job[p] # NoJob /\ job[p].fresh \in BOOLEAN
      /\ tx.slot = job[p].tx.slot /\ tx.nonce = job[p].tx.nonce /\ tx.nonce \in Nat
      /\ lock = p /\ nextNonce' = AfterStore(tx.nonce)
      /\ given' = given \cup {[slot |-> tx.slot, nonce |-> tx.nonce]}
      /\ nextNonce \in Nat
    BY JobAtWork DEF NonceInv, KeptInv, SignedBy, TypeInv, TypeOK, AtWork, Tx
<1>2. CASE job[p].fresh
    BY <1>1, <1>2 DEF Holding, Fresh
<1>3. CASE ~job[p].fresh
    BY <1>1, <1>3 DEF JobGood, Stored, Known, Given
<1>q. QED
    BY <1>1, <1>2, <1>3

LEMMA NonceInvNext ==
    ASSUME NonceInv, [Next]_vars, KeptInv'
    PROVE  NonceInv'
<1>0. /\ KeptInv /\ TypeInv /\ Holding /\ GivenBelow /\ GivenApart /\ GivenAll /\ GivenStored
      /\ skipped \subseteq skipped'
      /\ nextNonce \in Nat /\ nextNonce' \in Nat /\ nextNonce <= nextNonce'
      /\ given \subseteq [slot : Slots, nonce : Nat]
    BY HistoryGrows DEF NonceInv, KeptInv, TypeInv, TypeOK
<1>1. Holding'
  <2> SUFFICES ASSUME NEW p \in Procs, lock' = p, pc'[p] = "locked", Fresh(p)'
               PROVE  job'[p].tx.nonce = nextNonce'
      BY DEF Holding
  <2>1. CASE job'[p].tx.nonce = nextNonce /\ nextNonce' = nextNonce
      BY <2>1
  <2>2. CASE lock = p /\ pc[p] = "locked" /\ job'[p] = job[p]
    <3>1. job[p].tx.nonce = nextNonce
        BY <1>0, <2>2 DEF Holding, Fresh
    <3>2. ASSUME NEW o \in Procs, NEW tx \in Tx, SignedBy(o, tx), pc[o] = "locked"
          PROVE  FALSE
        BY <2>2, <3>2 DEF SignedBy
    <3>3. nextNonce' = nextNonce
        BY <1>0, <3>2, NonceMoves
    <3>q. QED
        BY <2>2, <3>1, <3>3
  <2>q. QED
      BY <1>0, <2>1, <2>2, LockedAsChosen
<1>2. ASSUME NEW g \in given
      PROVE  Stored(g)'
    BY <1>0, <1>2, StoredStays DEF GivenStored
<1>3. CASE UNCHANGED <<nextNonce, given>>
  <2>1. GivenBelow' /\ GivenApart' /\ GivenAll'
      BY <1>0, <1>3 DEF GivenBelow, GivenApart, GivenAll
  <2>2. GivenStored'
      BY <1>2, <1>3 DEF GivenStored
  <2>q. QED
      BY <1>1, <2>1, <2>2 DEF NonceInv
<1>4. ASSUME NEW p \in Procs, NEW tx \in Tx, SignedBy(p, tx), pc[p] = "locked"
      PROVE  NonceInv'
  <2> DEFINE new == [slot |-> tx.slot, nonce |-> tx.nonce]
  <2>1. /\ nextNonce' = AfterStore(tx.nonce) /\ tx.nonce \in Nat /\ tx.nonce <= nextNonce
        /\ given' = given \cup {new} /\ tx.slot \in Slots
        /\ tx.nonce = nextNonce \/ tx.slot \in skipped \/ new \in given
      BY <1>4, StoresNonce DEF Given, Tx
  <2>2. GivenBelow'
    <3>1. new.nonce < nextNonce'
        BY <1>0, <2>1 DEF AfterStore
    <3>2. ASSUME NEW g \in given PROVE g.nonce < nextNonce'
        BY <1>0, <3>2 DEF GivenBelow
    <3>q. QED
        BY <2>1, <3>1, <3>2 DEF GivenBelow
  <2>3. GivenApart'
    <3>1. ASSUME NEW g \in given, g.nonce = tx.nonce, g.slot # tx.slot
          PROVE  g.slot \in skipped \/ tx.slot \in skipped
      <4>1. CASE tx.nonce = nextNonce
          BY <1>0, <3>1, <4>1 DEF GivenBelow
      <4>2. CASE new \in given
          BY <1>0, <3>1, <4>2 DEF GivenApart
      <4>q. QED
          BY <2>1, <4>1, <4>2
    <3>q. QED
        BY <1>0, <2>1, <3>1 DEF GivenApart
  <2>4. GivenAll'
    <3>0. nextNonce \in Int
        BY <1>0
    <3>1. PICK next \in Nat : next = nextNonce'
        BY <1>0
    <3>2. ASSUME NEW n \in 0..(next - 1)
          PROVE  \E s \in Slots : [slot |-> s, nonce |-> n] \in given'
      <4>1. nextNonce \in Int /\ n \in Int /\ 0 <= n /\ n < next
          BY <3>0, <3>2
      <4>2. CASE n < nextNonce
        <5>1. n \in 0..(nextNonce - 1)
            BY <4>1, <4>2
        <5>2. \E s \in Slots : [slot |-> s, nonce |-> n] \in given
            BY <1>0, <5>1 DEF GivenAll
        <5>q. QED
            BY <2>1, <5>2
      <4>3. CASE n >= nextNonce
        <5>1. n = tx.nonce
            BY <2>1, <3>1, <4>1, <4>3 DEF AfterStore
        <5>q. QED
            BY <2>1, <5>1
      <4>q. QED
          BY <4>1, <4>2, <4>3
    <3>q. QED
        BY <3>1, <3>2 DEF GivenAll
  <2>5. GivenStored'
    <3>1. Stored(tx)'
        BY <1>0, <1>4, SignedStored
    <3>2. Stored(new)'
        BY <3>1 DEF Stored, Known, Given
    <3>q. QED
        BY <1>2, <2>1, <3>2 DEF GivenStored
  <2>q. QED
      BY <1>1, <2>2, <2>3, <2>4, <2>5 DEF NonceInv
<1>q. QED
    BY <1>0, <1>3, <1>4, NonceMoves

LEMMA NonceInvHolds == Spec => []NonceInv
<1>1. Init /\ KeptInv => NonceInv
  <2> SUFFICES ASSUME Init, KeptInv
               PROVE  NonceInv
      OBVIOUS
  <2>1. Holding /\ GivenBelow /\ GivenApart /\ GivenStored
      BY DEF Init, Holding, GivenBelow, GivenApart, GivenStored, Fresh
  <2>2. GivenAll
      BY DEF Init, GivenAll
  <2>q. QED
      BY <2>1, <2>2 DEF NonceInv
<1>2. NonceInv /\ [Next]_vars /\ KeptInv' => NonceInv'
    BY NonceInvNext
<1>q. QED
    BY <1>1, <1>2, KeptInvHolds, PTL DEF Spec

(* Two executions have one nonce, in their rows or on the network, only if    *)
(* one of them was broadcast without having been stored, however the requests *)
(* overlap.                                                                   *)
THEOREM NoncesApart == Spec => []NonceNotShared
<1>1. NonceInv => NonceNotShared
  <2> SUFFICES ASSUME NonceInv, NEW a \in Claims, NEW b \in Claims, a.nonce = b.nonce,
                      a.slot # b.slot
               PROVE  a.slot \in skipped \/ b.slot \in skipped
      BY DEF NonceNotShared
  <2>1. ASSUME NEW c \in Claims
        PROVE  c.slot \in skipped \/ Given(c)
    <3>1. CASE c \in Sent
        BY <3>1 DEF NonceInv, KeptInv, SentKnown, Stored, Known
    <3>2. CASE c \notin Sent
        BY <3>2 DEF Claims, NonceInv, KeptInv, RowsInPlace, Known
    <3>q. QED
        BY <3>1, <3>2
  <2>2. ASSUME Given(a), Given(b)
        PROVE  a.slot \in skipped \/ b.slot \in skipped
      BY <2>2 DEF NonceInv, GivenApart, Given
  <2>q. QED
      BY <2>1, <2>2
<1>q. QED
    BY <1>1, NonceInvHolds, PTL

(* Every nonce that was given out has a stored execution, which is broadcast  *)
(* until its nonce is used up: no gap holds back the nonces after it, as long *)
(* as no two requests prepare one execution together.                         *)
THEOREM NoncesAlwaysFollowed == Spec => []NoncesFollowed
<1>1. NonceInv => NoncesFollowed
  <2> SUFFICES ASSUME NonceInv, NEW n \in 0..(nextNonce - 1)
               PROVE  \E s \in Slots :
                        /\ [slot |-> s, nonce |-> n] \in given
                        /\ rows[s] # NoRow
                        /\ rows[s].tx.nonce = n \/ s \in contested
      BY DEF NoncesFollowed
  <2>1. PICK s \in Slots : [slot |-> s, nonce |-> n] \in given
      BY DEF NonceInv, GivenAll
  <2>q. QED
      BY <2>1 DEF NonceInv, GivenStored, Stored
<1>q. QED
    BY <1>1, NonceInvHolds, PTL
=============================================================================
