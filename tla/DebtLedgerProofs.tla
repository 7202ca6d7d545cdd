--------------------------- MODULE DebtLedgerProofs ---------------------------
(* What the updates of the two debt columns do, for every base and offset,    *)
(* the type of the ledger, and for any number of overlapping runs that the    *)
(* columns cover what is owed and that what the client computes suffices.     *)
EXTENDS DebtLedger, SumProofs, TLAPS

(* The two parts of an offset, as BigInt divides it, stand for the offset.    *)
LEMMA PartsOfOffset ==
    ASSUME NEW x \in Int
    PROVE  /\ Quotient(x) \in Int
           /\ Remainder(x) \in Int
           /\ x = Quotient(x) * Base + Remainder(x)
<1>1. ASSUME NEW n \in Nat
      PROVE  /\ n \div Base \in Nat
             /\ n % Base \in Nat
             /\ n = (n \div Base) * Base + (n % Base)
      BY <1>1, BaseAssumption
<1>2. CASE x >= 0
      BY <1>1, <1>2 DEF Quotient, Remainder
<1>3. CASE x < 0
  <2>1. -x \in Nat
        BY <1>3
  <2>2. /\ (-x) \div Base \in Nat
        /\ (-x) % Base \in Nat
        /\ -x = ((-x) \div Base) * Base + ((-x) % Base)
        BY <1>1, <2>1
  <2>3. /\ Quotient(x) = -((-x) \div Base)
        /\ Remainder(x) = -((-x) % Base)
        BY <1>3 DEF Quotient, Remainder
  <2>q. QED
        BY <2>2, <2>3, BaseAssumption
<1>q. QED
      BY <1>2, <1>3

(* An update never makes the columns stand for less than what they stood for  *)
(* and the offset together; without a cut, they stand for exactly that.       *)
THEOREM UpdateCovers ==
    ASSUME debt18 \in Nat, debt0 \in Nat, clamped \in BOOLEAN,
           NEW offset \in Int, AddDebt(offset)
    PROVE  /\ debt18' \in Nat /\ debt0' \in Nat /\ clamped' \in BOOLEAN
           /\ Debt' >= Debt + offset
           /\ ~clamped' => Debt' = Debt + offset
<1> DEFINE d18 == debt18 + Quotient(offset)
           d0 == debt0 + Remainder(offset)
<1>1. /\ d18 \in Int /\ d0 \in Int
      /\ d18 * Base + d0 = Debt + offset
  <2>1. /\ Quotient(offset) \in Int
        /\ Remainder(offset) \in Int
        /\ offset = Quotient(offset) * Base + Remainder(offset)
        BY PartsOfOffset
  <2>2. d18 * Base = debt18 * Base + Quotient(offset) * Base
        BY <2>1, BaseAssumption
  <2>q. QED
        BY <2>1, <2>2, BaseAssumption DEF Debt
<1>2. /\ debt18' = Cut(d18)
      /\ debt0' = Cut(d0)
      /\ clamped' = (clamped \/ d18 < 0 \/ d0 < 0)
      BY DEF AddDebt
<1> HIDE DEF d18, d0
<1>3. /\ Cut(d18) \in Nat /\ Cut(d18) >= d18
      /\ Cut(d0) \in Nat /\ Cut(d0) >= d0
      BY <1>1 DEF Cut
<1>4. Cut(d18) * Base >= d18 * Base
      BY <1>1, <1>3, BaseAssumption
<1>5. Debt' >= Debt + offset
      BY <1>1, <1>2, <1>3, <1>4, BaseAssumption DEF Debt
<1>6. ASSUME ~clamped'
      PROVE  Debt' = Debt + offset
  <2>1. Cut(d18) = d18 /\ Cut(d0) = d0
        BY <1>1, <1>2, <1>6 DEF Cut
  <2>q. QED
        BY <1>1, <1>2, <2>1 DEF Debt
<1>q. QED
      BY <1>2, <1>3, <1>5, <1>6

(* Fees are natural numbers. *)
LEMMA FeesType ==
    /\ Fees(MaxCost) \in Nat
    /\ \A c \in Int : Fees(c) \in Int
<1>1. \A c \in Int : (c * Rate) \div 1000000 \in Int
      BY AmountsAssumption
<1>2. (MaxCost * Rate) \div 1000000 \in Nat
  <2>1. MaxCost * Rate \in Nat
        BY AmountsAssumption
  <2>q. QED
        BY <2>1
<1>q. QED
      BY <1>1, <1>2, AmountsAssumption DEF Fees

-----------------------------------------------------------------------------
(* What a run works on exists, and it has it as it was read until it stores.  *)
Jobs == [of : Executions, row : Row \cup {NoRow}, debt : Nat]

AtWork(p) == pc[p] \notin {"idle", "done"}

JobsReal ==
    \A p \in Procs : AtWork(p) =>
        /\ job[p] \in Jobs
        /\ p \in Runs => rows[job[p].of] \in Row
        /\ p \in Runs /\ pc[p] # "broadcast" => job[p].row \in Row

LedgerInv == TypeOK /\ JobsReal

(* The ledger starts with its invariant. *)
LEMMA LedgerInvInit == Init => LedgerInv
<1> SUFFICES ASSUME Init
             PROVE  TypeOK /\ JobsReal
    BY DEF LedgerInv
<1>1. balance \in Nat /\ 0 \in 0..MaxFaults
      BY AmountsAssumption DEF Init
<1>2. TypeOK
      BY <1>1 DEF Init, TypeOK
<1>3. JobsReal
      BY DEF Init, JobsReal, AtWork
<1>q. QED
      BY <1>2, <1>3

(* An upsert makes rows of rows, so that what a run works on stays there.     *)
LEMMA RowsStay ==
    ASSUME TypeOK, NEW e \in Executions, NEW a \in Nat, NEW f \in BOOLEAN,
           Upsert(e, a, f)
    PROVE  /\ rows' \in [Executions -> Row \cup {NoRow}]
           /\ \A x \in Executions : rows[x] \in Row => rows'[x] \in Row
<1>1. /\ \A x \in Executions : rows[x] \in Row \cup {NoRow}
      /\ DOMAIN rows = Executions
      BY DEF TypeOK
<1>2. /\ rows' = [x \in Executions |-> rows'[x]]
      /\ \A x \in Executions \ {e} : rows'[x] = rows[x]
      BY <1>1 DEF Upsert
<1>3. rows'[e] \in Row
      BY <1>1 DEF Upsert, Row
<1>q. QED
      BY <1>1, <1>2, <1>3

(* Errors stay within their bound.                                            *)
LEMMA FaultsBounded ==
    ASSUME TypeOK, Fault \/ UNCHANGED faults
    PROVE  faults' \in 0..MaxFaults
BY AmountsAssumption DEF TypeOK, Fault

(* Every step preserves the invariant of the ledger.                          *)
LEMMA LedgerInvNext == LedgerInv /\ [Next]_vars => LedgerInv'
<1> SUFFICES ASSUME TypeOK, JobsReal, [Next]_vars
             PROVE  TypeOK' /\ JobsReal'
    BY DEF LedgerInv
<1> USE DEF AtWork
<1>1. ASSUME NEW p \in Procs, LockBroadcaster(p)
      PROVE  TypeOK' /\ JobsReal'
  <2>1. /\ job'[p] \in Jobs
        /\ p \in Runs => job'[p].row = job[p].row /\ job'[p].of = job[p].of
    <3>1. Debt \in Nat
          BY BaseAssumption DEF TypeOK, Debt
    <3>2. CASE p \in Executions
      <4>1. job'[p] = [of |-> p, row |-> NoRow, debt |-> Debt]
            BY <1>1, <3>2 DEF LockBroadcaster, TypeOK
      <4>q. QED
            BY <3>1, <3>2, <4>1, NamesAssumption DEF Jobs
    <3>3. CASE p \in Runs
      <4>1. job[p] \in Jobs
            BY <1>1, <3>3, NamesAssumption DEF LockBroadcaster, JobsReal
      <4>2. job'[p] = [job[p] EXCEPT !.debt = Debt]
            BY <1>1, <3>3, NamesAssumption DEF LockBroadcaster, TypeOK
      <4>q. QED
            BY <3>1, <4>1, <4>2 DEF Jobs
    <3>q. QED
          BY <3>2, <3>3 DEF Procs
  <2>2. \A o \in Procs \ {p} : job'[o] = job[o] /\ pc'[o] = pc[o]
        BY <1>1 DEF LockBroadcaster, TypeOK
  <2>3. TypeOK'
        BY <1>1, <2>1 DEF LockBroadcaster, TypeOK, Jobs, debts, chain, reserve
  <2>4. JobsReal'
        BY <1>1, <2>1, <2>2, NamesAssumption DEF LockBroadcaster, JobsReal, Procs
  <2>q. QED
        BY <2>3, <2>4
<1>2. ASSUME NEW p \in Procs, StoreExecution(p)
      PROVE  TypeOK' /\ JobsReal'
  <2>1. job[p] \in Jobs /\ job[p].of \in Executions
        BY <1>2 DEF StoreExecution, JobsReal, Jobs
  <2>2. /\ rows' \in [Executions -> Row \cup {NoRow}]
        /\ \A x \in Executions : rows[x] \in Row => rows'[x] \in Row
        BY <1>2, <2>1, FeesType, RowsStay DEF StoreExecution, TypeOK
  <2>3. debt18' \in Nat /\ debt0' \in Nat /\ clamped' \in BOOLEAN
    <3>1. Fees(MaxCost) \in Int
          BY FeesType
    <3>2. CASE AddDebt(Fees(MaxCost))
          BY <3>1, <3>2, UpdateCovers DEF TypeOK
    <3>3. CASE UNCHANGED debts
          BY <3>3 DEF TypeOK, debts
    <3>q. QED
          BY <1>2, <3>2, <3>3 DEF StoreExecution
  <2>4. /\ \/ pc'[p] = "idle" /\ job'[p] = NoJob
           \/ pc'[p] = "broadcast" /\ job'[p] = [of |-> job[p].of, row |-> NoRow, debt |-> 0]
        /\ \A o \in Procs \ {p} : job'[o] = job[o] /\ pc'[o] = pc[o]
        BY <1>2 DEF StoreExecution, Leave, Stored, TypeOK
  <2>5. job'[p] \in Jobs \cup {NoJob} /\ (pc'[p] # "idle" => job'[p].of = job[p].of)
        BY <2>1, <2>4 DEF Jobs
  <2>6. /\ pc' \in [Procs -> {"idle", "status", "resubmit", "helped", "store",
                           "broadcast", "finalise", "done"}]
        /\ job' \in [Procs -> Jobs \cup {NoJob}]
    <3>1. CASE Leave(p, "idle")
          BY <3>1 DEF Leave, TypeOK, Jobs
    <3>2. CASE Stored(p)
      <4>1. [of |-> job[p].of, row |-> NoRow, debt |-> 0] \in Jobs
            BY <2>1 DEF Jobs
      <4>2. job' = [job EXCEPT ![p] = [of |-> job[p].of, row |-> NoRow, debt |-> 0]]
            BY <3>2 DEF Stored, TypeOK
      <4>q. QED
            BY <3>2, <4>1, <4>2 DEF Stored, TypeOK, Jobs
    <3>q. QED
          BY <1>2, <3>1, <3>2 DEF StoreExecution
  <2>7. again' \in Nat /\ faults' \in 0..MaxFaults
    <3>1. again' \in Nat
      <4>1. again' = again + 1 \/ again' = again
            BY <1>2 DEF StoreExecution
      <4>q. QED
            BY <4>1 DEF TypeOK
    <3>2. Fault \/ UNCHANGED faults
          BY <1>2 DEF StoreExecution
    <3>q. QED
          BY <3>1, <3>2, FaultsBounded
  <2>8. uncounted' = uncounted /\ raced' = raced
        BY <1>2 DEF StoreExecution, debts
  <2>9. lock' = NoLock /\ uncovered' \in BOOLEAN /\ refused' \in BOOLEAN
    <3>1. lock' = NoLock /\ uncovered' \in BOOLEAN
          BY <1>2 DEF StoreExecution, Unlock, TypeOK
    <3>2. refused' = refused \/ refused' \in BOOLEAN
          BY <1>2 DEF StoreExecution
    <3>q. QED
          BY <3>1, <3>2 DEF TypeOK
  <2>10. TypeOK'
        BY <1>2, <2>2, <2>3, <2>6, <2>7, <2>8, <2>9 DEF StoreExecution, TypeOK, Jobs, chain
  <2>11. JobsReal'
        BY <1>2, <2>2, <2>4, <2>5 DEF StoreExecution, JobsReal, TypeOK, Jobs
  <2>q. QED
        BY <2>10, <2>11
<1>2b. ASSUME NEW p \in Procs, Broadcast(p)
      PROVE  TypeOK' /\ JobsReal'
  <2>1. job[p] \in Jobs /\ job[p].of \in Executions
        BY <1>2b DEF Broadcast, JobsReal, Jobs
  <2>2. /\ rows' \in [Executions -> Row \cup {NoRow}]
        /\ \A x \in Executions : rows[x] \in Row => rows'[x] \in Row
        BY <1>2b, <2>1, FeesType, RowsStay DEF Broadcast, TypeOK
  <2>3. /\ pc' \in [Procs -> {"idle", "status", "resubmit", "helped", "store",
                           "broadcast", "finalise", "done"}]
        /\ job' \in [Procs -> Jobs \cup {NoJob}]
        /\ pc'[p] \in {"idle", "done"}
        /\ \A o \in Procs \ {p} : job'[o] = job[o] /\ pc'[o] = pc[o]
        BY <1>2b DEF Broadcast, Leave, TypeOK, Jobs
  <2>4. uncounted' \subseteq Executions
        BY <1>2b, <2>1 DEF Broadcast, TypeOK
  <2>5. lock' = NoLock /\ uncovered' \in BOOLEAN
        BY <1>2b DEF Broadcast, Unlock, TypeOK
  <2>6. TypeOK'
        BY <1>2b, <2>2, <2>3, <2>4, <2>5 DEF Broadcast, TypeOK, Jobs, chain
  <2>7. JobsReal'
        BY <2>2, <2>3 DEF JobsReal, TypeOK, Jobs
  <2>q. QED
        BY <2>6, <2>7
<1>2c. ASSUME Expire
      PROVE  TypeOK' /\ JobsReal'
      BY <1>2c DEF Expire, Unlock, TypeOK, JobsReal, debts, chain
<1>3. ASSUME NEW p \in Runs, ReadPending(p)
      PROVE  TypeOK' /\ JobsReal'
  <2>1. /\ job'[p] \in Jobs
        /\ job'[p].row \in Row
        /\ rows[job'[p].of] \in Row
        BY <1>3 DEF ReadPending, TypeOK, Jobs, Procs
  <2>2. \A o \in Procs \ {p} : job'[o] = job[o] /\ pc'[o] = pc[o]
        BY <1>3 DEF ReadPending, TypeOK
  <2>3. TypeOK'
        BY <1>3, <2>1 DEF ReadPending, TypeOK, Jobs, debts, chain, reserve, Procs
  <2>4. JobsReal'
        BY <1>3, <2>1, <2>2 DEF ReadPending, JobsReal, Procs
  <2>q. QED
        BY <2>3, <2>4
<1>4. ASSUME NEW p \in Runs, GetTransactionStatus(p)
      PROVE  TypeOK' /\ JobsReal'
  <2>1. TypeOK'
        BY <1>4 DEF GetTransactionStatus, Goto, Leave, TypeOK, debts, chain, reserve, Procs
  <2>2. JobsReal'
        BY <1>4 DEF GetTransactionStatus, Goto, Leave, TypeOK, JobsReal, Procs
  <2>q. QED
        BY <2>1, <2>2
<1>5. ASSUME NEW p \in Runs, Help(p)
      PROVE  TypeOK' /\ JobsReal'
  <2>1. /\ job[p] \in Jobs /\ job[p].of \in Executions
        /\ job[p].row \in Row /\ rows[job[p].of] \in Row
        BY <1>5 DEF Help, JobsReal, Jobs, Procs
  <2>2. /\ rows' \in [Executions -> Row \cup {NoRow}]
        /\ \A x \in Executions : rows[x] \in Row => rows'[x] \in Row
        BY <1>5, <2>1, AmountsAssumption DEF Help, TypeOK, Row
  <2>3. TypeOK'
        BY <1>5, <2>2 DEF Help, Goto, TypeOK, chain, reserve, Procs
  <2>4. JobsReal'
        BY <1>5, <2>2 DEF Help, Goto, TypeOK, JobsReal, Jobs, Procs
  <2>q. QED
        BY <2>3, <2>4
<1>6. ASSUME NEW p \in Runs, GiveUp(p)
      PROVE  TypeOK' /\ JobsReal'
  <2>1. TypeOK'
        BY <1>6 DEF GiveUp, Leave, TypeOK, debts, chain, reserve, Procs
  <2>2. JobsReal'
        BY <1>6 DEF GiveUp, Leave, TypeOK, JobsReal, Procs
  <2>q. QED
        BY <2>1, <2>2
<1>7. ASSUME NEW p \in Runs, Finalise(p)
      PROVE  TypeOK' /\ JobsReal'
  <2>1. job[p].of \in Executions /\ job[p].row \in Row
        BY <1>7 DEF Finalise, JobsReal, Jobs, Procs
  <2>2. job[p].row.assigned \in Nat /\ job[p].row.helped \in Nat
        BY <2>1 DEF Row
  <2>3. cost[job[p].of] \in Int
    <3>1. Costs \cup {0, Unmined} \subseteq Int
          BY AmountsAssumption DEF Unmined
    <3>q. QED
          BY <2>1, <3>1 DEF TypeOK
  <2>4. Settlement(job[p].row, cost[job[p].of]) \in Int
        BY <2>2, <2>3, FeesType DEF Settlement, Excess
  <2>5. /\ rows' \in [Executions -> Row \cup {NoRow}]
        /\ \A x \in Executions : rows[x] \in Row => rows'[x] \in Row
        BY <1>7, <2>1, <2>2, RowsStay DEF Finalise, TypeOK
  <2>6. debt18' \in Nat /\ debt0' \in Nat /\ clamped' \in BOOLEAN
        BY <1>7, <2>4, UpdateCovers DEF Finalise, TypeOK, debts
  <2>7. /\ pc' \in [Procs -> {"idle", "status", "resubmit", "helped", "store",
                           "broadcast", "finalise", "done"}]
        /\ job' \in [Procs -> Jobs \cup {NoJob}]
        /\ pc'[p] \in {"idle", "done"}
        /\ \A o \in Procs \ {p} : job'[o] = job[o] /\ pc'[o] = pc[o]
        BY <1>7 DEF Finalise, Leave, TypeOK, Jobs, Procs
  <2>8. faults' \in 0..MaxFaults
        BY <1>7, FaultsBounded DEF Finalise
  <2>11. uncounted' = uncounted /\ raced' \in BOOLEAN
        BY <1>7 DEF Finalise, TypeOK, debts
  <2>9. TypeOK'
        BY <1>7, <2>5, <2>6, <2>7, <2>8, <2>11 DEF Finalise, TypeOK, Jobs, chain, reserve
  <2>10. JobsReal'
        BY <2>5, <2>7 DEF JobsReal, TypeOK, Jobs
  <2>q. QED
        BY <2>9, <2>10
<1>8. ASSUME NEW e \in Executions, Mine(e)
      PROVE  TypeOK' /\ JobsReal'
  <2>1. balance' \in Nat
        BY <1>8, AmountsAssumption DEF Mine, TypeOK
  <2>2. TypeOK'
        BY <1>8, <2>1 DEF Mine, TypeOK, debts, reserve
  <2>3. JobsReal'
        BY <1>8 DEF Mine, JobsReal
  <2>q. QED
        BY <2>2, <2>3
<1>9. ASSUME Deposit
      PROVE  TypeOK' /\ JobsReal'
      BY <1>9, AmountsAssumption DEF Deposit, TypeOK, JobsReal, debts, reserve
<1>10. ASSUME NEW e \in Executions, ScheduleExecution(e) \/ Release(e)
      PROVE  TypeOK' /\ JobsReal'
  <2>1. reserved' \subseteq Executions
        BY <1>10 DEF ScheduleExecution, Release, TypeOK
  <2>3. uncovered' \in BOOLEAN
        BY <1>10 DEF ScheduleExecution, Release, TypeOK
  <2>4. promised' \in [Executions -> Nat]
    <3>1. PICK amount \in Nat : promised' = [promised EXCEPT ![e] = amount]
          BY <1>10, AmountsAssumption DEF ScheduleExecution, Release
    <3>q. QED
          BY <3>1 DEF TypeOK
  <2>2. JobsReal'
        BY <1>10 DEF ScheduleExecution, Release, JobsReal
  <2>5. TypeOK'
        BY <1>10, <2>1, <2>3, <2>4 DEF ScheduleExecution, Release, TypeOK, debts, chain
  <2>q. QED
        BY <2>2, <2>5
<1>11. CASE UNCHANGED vars
      BY <1>11 DEF vars, debts, chain, reserve, TypeOK, JobsReal
<1>q. QED
      BY <1>1, <1>2, <1>2b, <1>2c, <1>3, <1>4, <1>5, <1>6, <1>7, <1>8, <1>9, <1>10, <1>11 DEF Next

(* The ledger is well typed: the two columns never hold a negative number,    *)
(* and every job has an execution behind it.                                  *)
THEOREM LedgerTypeCorrect == Spec => []TypeOK
<1>1. LedgerInv => TypeOK
      BY DEF LedgerInv
<1>q. QED
      BY <1>1, LedgerInvInit, LedgerInvNext, PTL DEF Spec
-----------------------------------------------------------------------------
(* A request works for its own execution, and until it has stored nobody has. *)
RequestsOwn ==
    \A e \in Executions :
        /\ pc[e] \in {"idle", "store", "broadcast", "done"}
        /\ pc[e] \in {"idle", "store"} => rows[e] = NoRow
        /\ pc[e] \in {"store", "broadcast"} => job[e].of = e

(* A run has read a row that was not final, and help that it has seen is      *)
(* recorded; what it finalizes was mined.                                     *)
RunsRead ==
    \A p \in Runs :
        /\ AtWork(p) /\ pc[p] # "broadcast" =>
              /\ ~job[p].row.final /\ job[p].row.assigned = Fees(MaxCost)
              /\ job[p].row.helped > 0 => rows[job[p].of].helped > 0
        /\ pc[p] = "finalise" => cost[job[p].of] # Unmined

(* Every row has the fee on what was authorized, and is final only after it   *)
(* was mined, which it is not before it is sent.  What was not counted is     *)
(* stored.                                                                    *)
RowsPriced ==
    \A e \in Executions :
        /\ rows[e] # NoRow => rows[e].assigned = Fees(MaxCost)
        /\ rows[e] # NoRow /\ rows[e].final => cost[e] # Unmined
        /\ ~Sent(e) => cost[e] = Unmined
        /\ e \in uncounted => rows[e] # NoRow

FollowInv == LedgerInv /\ RequestsOwn /\ RunsRead /\ RowsPriced

(* What an upsert does to a row that is not there, and to one that is open;   *)
(* one that is final it leaves alone.                                         *)
LEMMA UpsertRow ==
    ASSUME TypeOK, NEW e \in Executions, NEW a \in Nat, NEW f \in BOOLEAN,
           Upsert(e, a, f)
    PROVE  /\ rows[e] = NoRow \/ ~rows[e].final =>
                rows'[e] = [assigned |-> a, final |-> f,
                            helped |-> IF rows[e] = NoRow THEN 0 ELSE rows[e].helped]
           /\ rows[e] # NoRow /\ rows[e].final => rows'[e] = rows[e]
           /\ \A x \in Executions \ {e} : rows'[x] = rows[x]
<1>1. rows[e] = NoRow \/ rows[e] \in Row
      BY DEF TypeOK
<1>2. CASE rows[e] = NoRow
      BY <1>2 DEF TypeOK, Upsert
<1>3. CASE rows[e] # NoRow /\ ~rows[e].final
  <2>1. rows'[e] = [rows[e] EXCEPT !.assigned = a, !.final = f]
        BY <1>3 DEF TypeOK, Upsert
  <2>q. QED
        BY <1>1, <1>3, <2>1 DEF TypeOK, Upsert, Row
<1>4. CASE rows[e] # NoRow /\ rows[e].final
      BY <1>4 DEF TypeOK, Upsert
<1>q. QED
      BY <1>2, <1>3, <1>4

(* Whatever is upserted with the fee on what was authorized, of rows that     *)
(* have it: rows stay, help stays, and the fee is that fee.                   *)
LEMMA UpsertKeeps ==
    ASSUME TypeOK, RowsPriced, NEW e \in Executions, NEW f \in BOOLEAN,
           Upsert(e, Fees(MaxCost), f)
    PROVE  /\ rows'[e] \in Row /\ rows'[e].assigned = Fees(MaxCost)
           /\ rows'[e].final => f \/ (rows[e] # NoRow /\ rows[e].final)
           /\ rows[e] # NoRow => rows'[e].helped = rows[e].helped
           /\ rows[e] = NoRow => rows'[e].helped = 0
           /\ \A x \in Executions \ {e} : rows'[x] = rows[x]
<1>1. Fees(MaxCost) \in Nat
      BY FeesType
<1>2. rows[e] = NoRow \/ rows[e] \in Row
      BY DEF TypeOK
<1>3. CASE rows[e] = NoRow \/ ~rows[e].final
  <2>1. /\ rows'[e] = [assigned |-> Fees(MaxCost), final |-> f,
                       helped |-> IF rows[e] = NoRow THEN 0 ELSE rows[e].helped]
        /\ \A x \in Executions \ {e} : rows'[x] = rows[x]
        BY <1>1, <1>3, UpsertRow
  <2>q. QED
        BY <1>1, <1>2, <2>1 DEF Row
<1>4. CASE rows[e] # NoRow /\ rows[e].final
  <2>1. /\ rows'[e] = rows[e]
        /\ \A x \in Executions \ {e} : rows'[x] = rows[x]
        BY <1>1, <1>4, UpsertRow
  <2>q. QED
        BY <1>2, <1>4, <2>1 DEF RowsPriced
<1>q. QED
      BY <1>3, <1>4

(* The ledger starts with nothing to follow.                                  *)
LEMMA FollowInvInit == Init => FollowInv
BY LedgerInvInit DEF Init, FollowInv, RequestsOwn, RunsRead, RowsPriced, AtWork, Procs

(* Every step preserves what runs and requests rely on.                       *)
LEMMA FollowInvNext == FollowInv /\ [Next]_vars => FollowInv'
<1> SUFFICES ASSUME FollowInv, [Next]_vars
             PROVE  FollowInv'
    OBVIOUS
<1> USE DEF AtWork
<1>0. TypeOK /\ JobsReal /\ RequestsOwn /\ RunsRead /\ RowsPriced /\ LedgerInv'
      BY LedgerInvNext DEF FollowInv, LedgerInv
<1> SUFFICES RequestsOwn' /\ RunsRead' /\ RowsPriced'
    BY <1>0 DEF FollowInv
<1>a. \A p \in Runs : p \in Procs /\ p \notin Executions
      BY NamesAssumption DEF Procs
<1>b. \A e \in Executions : e \in Procs /\ (rows[e] = NoRow \/ rows[e] \in Row)
      BY <1>0 DEF TypeOK, Procs
<1>c. \A p \in Runs : AtWork(p) => /\ job[p].of \in Executions /\ rows[job[p].of] \in Row
                                   /\ pc[p] # "broadcast" => job[p].row \in Row
      BY <1>0, <1>a DEF JobsReal, Jobs
<1>d. \A e \in Executions : pc[e] = "store" \/ pc[e] = "broadcast" => job[e].of \in Executions
      BY <1>0, <1>b DEF JobsReal, Jobs
<1>1. ASSUME NEW p \in Procs, LockBroadcaster(p)
      PROVE  RequestsOwn' /\ RunsRead' /\ RowsPriced'
  <2>1. /\ pc'[p] = "store" /\ \A o \in Procs \ {p} : job'[o] = job[o] /\ pc'[o] = pc[o]
        /\ UNCHANGED <<rows, cost, uncounted>>
        BY <1>0, <1>1 DEF LockBroadcaster, TypeOK, chain, debts
  <2>2. p \in Executions => pc[p] = "idle" /\ job'[p].of = p
        BY <1>0, <1>1, <1>a DEF LockBroadcaster, TypeOK
  <2>3. p \in Runs => /\ AtWork(p) /\ pc[p] # "broadcast"
                      /\ job'[p].of = job[p].of /\ job'[p].row = job[p].row
    <3>1. ASSUME p \in Runs
          PROVE  /\ AtWork(p) /\ pc[p] # "broadcast"
                 /\ job'[p].of = job[p].of /\ job'[p].row = job[p].row
      <4>1. AtWork(p) /\ pc[p] # "broadcast"
            BY <1>1, <3>1, <1>a DEF LockBroadcaster
      <4>2. job[p] \in Jobs
            BY <1>0, <3>1, <4>1 DEF JobsReal
      <4>3. job'[p] = [job[p] EXCEPT !.debt = Debt]
            BY <1>0, <1>1, <3>1, <1>a DEF LockBroadcaster, TypeOK
      <4>q. QED
            BY <4>1, <4>2, <4>3 DEF Jobs
    <3>q. QED
          BY <3>1
  <2>4. RequestsOwn'
        BY <1>0, <1>b, <2>1, <2>2 DEF RequestsOwn
  <2>5. RunsRead'
        BY <1>0, <1>a, <2>1, <2>3 DEF RunsRead
  <2>6. RowsPriced'
        BY <1>0, <1>a, <1>b, <2>1, <2>2 DEF RowsPriced, Sent
  <2>q. QED
        BY <2>4, <2>5, <2>6
<1>2. ASSUME NEW p \in Procs, StoreExecution(p) \/ Broadcast(p)
      PROVE  RequestsOwn' /\ RunsRead' /\ RowsPriced'
  <2>1. /\ pc[p] \in {"store", "broadcast"}
        /\ \/ pc[p] = "store" /\ pc'[p] = "idle" /\ UNCHANGED <<rows, uncounted>>
           \/ /\ pc[p] = "store" /\ pc'[p] = "broadcast" /\ job'[p].of = job[p].of
           \/ pc[p] = "broadcast" /\ pc'[p] = IF p \in Executions THEN "done" ELSE "idle"
        /\ \A o \in Procs \ {p} : job'[o] = job[o] /\ pc'[o] = pc[o]
        /\ UNCHANGED cost
    <3>1. CASE StoreExecution(p)
      <4>1. pc[p] = "store" /\ UNCHANGED cost
            BY <3>1 DEF StoreExecution, chain
      <4>2. CASE Leave(p, "idle") /\ UNCHANGED <<rows, debts>>
            BY <1>0, <4>1, <4>2 DEF Leave, TypeOK, debts
      <4>3. CASE Stored(p)
            BY <1>0, <4>1, <4>3 DEF Stored, TypeOK
      <4>q. QED
            BY <3>1, <4>2, <4>3 DEF StoreExecution
    <3>2. CASE Broadcast(p)
          BY <1>0, <3>2 DEF Broadcast, Leave, TypeOK, chain
    <3>q. QED
          BY <1>2, <3>1, <3>2
  <2>2. job[p].of \in Executions
        BY <1>0, <2>1 DEF JobsReal, Jobs
  <2>3. p \in Executions => job[p].of = p /\ p \notin Runs
        BY <1>0, <1>a, <2>1 DEF RequestsOwn
  <2>4. p \in Runs => rows[job[p].of] # NoRow /\ p \notin Executions
        BY <1>c, <1>a, <2>1, NamesAssumption
  <2>5. \/ UNCHANGED rows /\ UNCHANGED uncounted
        \/ /\ Upsert(job[p].of, Fees(MaxCost), FALSE)
           /\ uncounted' \subseteq uncounted \cup {job[p].of}
           /\ pc'[p] # "idle" \/ p \in Runs
        BY <1>0, <1>2 DEF StoreExecution, Broadcast, Leave, Stored, TypeOK, debts, Procs
  <2>6. CASE UNCHANGED <<rows, uncounted>>
    <3>1. RequestsOwn'
          BY <1>0, <1>b, <2>1, <2>3, <2>6 DEF RequestsOwn
    <3>2. RunsRead'
          BY <1>0, <1>a, <2>1, <2>6 DEF RunsRead
    <3>3. RowsPriced'
          BY <1>0, <1>b, <2>1, <2>6 DEF RowsPriced, Sent
    <3>q. QED
          BY <3>1, <3>2, <3>3
  <2>7. CASE /\ Upsert(job[p].of, Fees(MaxCost), FALSE)
             /\ uncounted' \subseteq uncounted \cup {job[p].of}
             /\ pc'[p] # "idle" \/ p \in Runs
    <3>1. PICK e \in Executions : e = job[p].of
          BY <2>2
    <3>2. /\ rows'[e] \in Row /\ rows'[e].assigned = Fees(MaxCost)
          /\ rows'[e].final => rows[e] # NoRow /\ rows[e].final
          /\ rows[e] # NoRow => rows'[e].helped = rows[e].helped
          /\ \A x \in Executions \ {e} : rows'[x] = rows[x]
          BY <1>0, <2>7, <3>1, UpsertKeeps
    <3>3. rows'[e] # NoRow
          BY <3>2, NamesAssumption
    <3>4. pc'[e] \notin {"idle", "store"}
      <4>1. CASE p \in Executions
            BY <2>1, <2>3, <2>7, <3>1, <4>1
      <4>2. CASE p \in Runs
        <5>1. pc[e] \notin {"idle", "store"}
              BY <1>0, <2>4, <3>1, <4>2 DEF RequestsOwn
        <5>q. QED
              BY <1>b, <2>1, <2>4, <4>2, <5>1
      <4>q. QED
            BY <4>1, <4>2 DEF Procs
    <3>5. RequestsOwn'
      <4>1. ASSUME NEW x \in Executions
            PROVE  /\ pc'[x] \in {"idle", "store", "broadcast", "done"}
                   /\ pc'[x] \in {"idle", "store"} => rows'[x] = NoRow
                   /\ pc'[x] \in {"store", "broadcast"} => job'[x].of = x
        <5>1. CASE x = p
              BY <1>0, <2>1, <2>3, <2>7, <3>1, <3>4, <4>1, <5>1 DEF RequestsOwn
        <5>2. CASE x # p
          <6>1. pc'[x] = pc[x] /\ job'[x] = job[x]
                BY <1>b, <2>1, <4>1, <5>2
          <6>q. QED
                BY <1>0, <3>2, <3>4, <4>1, <6>1 DEF RequestsOwn
        <5>q. QED
              BY <5>1, <5>2
      <4>q. QED
            BY <4>1 DEF RequestsOwn
    <3>6. RunsRead'
      <4>1. ASSUME NEW q \in Runs, AtWork(q)', pc'[q] # "broadcast"
            PROVE  q # p
            BY <2>1, <2>3, <4>1
      <4>2. ASSUME NEW q \in Runs, q # p
            PROVE  pc'[q] = pc[q] /\ job'[q] = job[q]
            BY <1>a, <2>1, <4>2
      <4>3. ASSUME NEW x \in Executions, rows[x] \in Row
            PROVE  rows'[x].helped = rows[x].helped
            BY <3>2, <4>3, NamesAssumption
      <4>4. ASSUME NEW q \in Runs, AtWork(q)', pc'[q] # "broadcast"
            PROVE  /\ ~job'[q].row.final /\ job'[q].row.assigned = Fees(MaxCost)
                   /\ job'[q].row.helped > 0 => rows'[job'[q].of].helped > 0
                   /\ pc'[q] = "finalise" => cost'[job'[q].of] # Unmined
            BY <1>0, <1>c, <2>1, <4>1, <4>2, <4>3, <4>4 DEF RunsRead
      <4>q. QED
            BY <4>4 DEF RunsRead
    <3>7. RowsPriced'
      <4>1. \A x \in Executions : Sent(x) => Sent(x)'
            BY <1>b, <2>1, <3>2, <3>3 DEF Sent
      <4>q. QED
            BY <1>0, <2>1, <2>7, <3>1, <3>2, <3>3, <4>1 DEF RowsPriced
    <3>q. QED
          BY <3>5, <3>6, <3>7
  <2>q. QED
        BY <2>5, <2>6, <2>7
<1>3. ASSUME NEW p \in Runs, ReadPending(p)
      PROVE  RequestsOwn' /\ RunsRead' /\ RowsPriced'
  <2>1. /\ pc'[p] = "status" /\ \A o \in Procs \ {p} : job'[o] = job[o] /\ pc'[o] = pc[o]
        /\ UNCHANGED <<rows, cost, uncounted>>
        /\ \E e \in Executions : /\ rows[e] # NoRow /\ ~rows[e].final
                                 /\ job'[p] = [of |-> e, row |-> rows[e], debt |-> 0]
        BY <1>0, <1>3, <1>a DEF ReadPending, TypeOK, chain, debts
  <2>2. RequestsOwn'
        BY <1>0, <1>a, <1>b, <2>1 DEF RequestsOwn
  <2>3. RunsRead'
        BY <1>0, <1>a, <2>1 DEF RunsRead, RowsPriced
  <2>4. RowsPriced'
        BY <1>0, <1>a, <1>b, <2>1 DEF RowsPriced, Sent
  <2>q. QED
        BY <2>2, <2>3, <2>4
<1>4. ASSUME NEW p \in Runs, GetTransactionStatus(p) \/ GiveUp(p)
      PROVE  RequestsOwn' /\ RunsRead' /\ RowsPriced'
  <2>1. /\ AtWork(p) /\ pc'[p] \in {"idle", "resubmit", "finalise"}
        /\ pc'[p] # "idle" => job'[p] = job[p] /\ pc[p] = "status"
        /\ pc'[p] = "finalise" => cost[job[p].of] # Unmined
        /\ \A o \in Procs \ {p} : job'[o] = job[o] /\ pc'[o] = pc[o]
        /\ UNCHANGED <<rows, cost, uncounted>>
        BY <1>0, <1>4, <1>a DEF GetTransactionStatus, GiveUp, Goto, Leave, TypeOK, chain, debts
  <2>2. RequestsOwn'
        BY <1>0, <1>a, <1>b, <2>1 DEF RequestsOwn
  <2>3. RunsRead'
        BY <1>0, <1>a, <2>1 DEF RunsRead
  <2>4. RowsPriced'
        BY <1>0, <1>a, <1>b, <2>1 DEF RowsPriced, Sent
  <2>q. QED
        BY <2>2, <2>3, <2>4
<1>5. ASSUME NEW p \in Runs, Help(p)
      PROVE  RequestsOwn' /\ RunsRead' /\ RowsPriced'
  <2>1. /\ AtWork(p) /\ pc[p] = "resubmit" /\ pc'[p] = "helped" /\ job' = job
        /\ \A o \in Procs \ {p} : pc'[o] = pc[o]
        /\ UNCHANGED <<cost, uncounted>>
        BY <1>0, <1>5, <1>a DEF Help, Goto, TypeOK, chain
  <2>2. job[p].of \in Executions /\ job[p].row \in Row /\ rows[job[p].of] \in Row
        BY <1>c, <2>1
  <2>3. /\ rows'[job[p].of] \in Row
        /\ rows'[job[p].of].assigned = rows[job[p].of].assigned
        /\ rows'[job[p].of].final = rows[job[p].of].final
        /\ rows'[job[p].of].helped > 0
        /\ \A x \in Executions \ {job[p].of} : rows'[x] = rows[x]
    <3>1. PICK value \in Nat \ {0} :
             rows' = [rows EXCEPT ![job[p].of].helped = job[p].row.helped + value]
          BY <1>5, AmountsAssumption DEF Help
    <3>2. job[p].row.helped + value \in Nat /\ job[p].row.helped + value > 0
          BY <2>2 DEF Row
    <3>3. /\ rows'[job[p].of] = [rows[job[p].of] EXCEPT !.helped = job[p].row.helped + value]
          /\ \A x \in Executions \ {job[p].of} : rows'[x] = rows[x]
          BY <1>0, <2>2, <3>1 DEF TypeOK
    <3>q. QED
          BY <2>2, <3>2, <3>3 DEF Row
  <2>4. rows[job[p].of] # NoRow /\ rows'[job[p].of] # NoRow
        BY <2>2, <2>3, NamesAssumption
  <2>5. RequestsOwn'
        BY <1>0, <1>a, <1>b, <2>1, <2>3, <2>4 DEF RequestsOwn
  <2>6. RunsRead'
    <3>1. \A q \in Runs : q # p => pc'[q] = pc[q] /\ job'[q] = job[q]
          BY <1>a, <2>1
    <3>2. \A x \in Executions : rows'[x].helped > 0 \/ rows'[x] = rows[x]
          BY <2>3
    <3>q. QED
          BY <1>0, <1>c, <2>1, <3>1, <3>2 DEF RunsRead
  <2>7. RowsPriced'
        BY <1>0, <1>a, <1>b, <2>1, <2>2, <2>3, <2>4 DEF RowsPriced, Sent
  <2>q. QED
        BY <2>5, <2>6, <2>7
<1>6. ASSUME NEW p \in Runs, Finalise(p)
      PROVE  RequestsOwn' /\ RunsRead' /\ RowsPriced'
  <2>1. /\ pc[p] = "finalise" /\ pc'[p] = "idle"
        /\ \A o \in Procs \ {p} : job'[o] = job[o] /\ pc'[o] = pc[o]
        /\ UNCHANGED <<cost, uncounted>>
        BY <1>0, <1>6, <1>a DEF Finalise, Leave, TypeOK, chain, debts
  <2>2. /\ job[p].of \in Executions /\ rows[job[p].of] \in Row
        /\ rows[job[p].of] # NoRow
        /\ job[p].row.assigned = Fees(MaxCost) /\ cost[job[p].of] # Unmined
        BY <1>0, <1>c, <2>1, NamesAssumption DEF RunsRead
  <2>0. UNCHANGED rows \/ Upsert(job[p].of, Fees(MaxCost), TRUE)
        BY <1>6, <2>2 DEF Finalise
  <2>3. /\ rows'[job[p].of] # NoRow
        /\ rows'[job[p].of].assigned = Fees(MaxCost)
        /\ rows'[job[p].of].helped = rows[job[p].of].helped
        /\ \A x \in Executions \ {job[p].of} : rows'[x] = rows[x]
    <3>1. CASE UNCHANGED rows
          BY <1>0, <2>2, <3>1 DEF RowsPriced
    <3>2. CASE Upsert(job[p].of, Fees(MaxCost), TRUE)
      <4>1. /\ rows'[job[p].of] \in Row
            /\ rows'[job[p].of].assigned = Fees(MaxCost)
            /\ rows'[job[p].of].helped = rows[job[p].of].helped
            /\ \A x \in Executions \ {job[p].of} : rows'[x] = rows[x]
            BY <1>0, <2>2, <3>2, UpsertKeeps
      <4>q. QED
            BY <4>1, NamesAssumption
    <3>q. QED
          BY <2>0, <3>1, <3>2
  <2>4. RequestsOwn'
        BY <1>0, <1>a, <1>b, <2>1, <2>2, <2>3 DEF RequestsOwn
  <2>5. RunsRead'
    <3>1. \A q \in Runs : q # p => pc'[q] = pc[q] /\ job'[q] = job[q]
          BY <1>a, <2>1
    <3>q. QED
          BY <1>0, <1>c, <2>1, <2>3, <3>1 DEF RunsRead
  <2>6. RowsPriced'
        BY <1>0, <1>a, <1>b, <2>1, <2>2, <2>3 DEF RowsPriced, Sent
  <2>q. QED
        BY <2>4, <2>5, <2>6
<1>7. ASSUME NEW e \in Executions, Mine(e)
      PROVE  RequestsOwn' /\ RunsRead' /\ RowsPriced'
  <2>1. /\ Sent(e) /\ cost'[e] # Unmined
        /\ \A x \in Executions \ {e} : cost'[x] = cost[x]
        /\ UNCHANGED <<rows, pc, job, uncounted>>
        BY <1>0, <1>7, AmountsAssumption DEF Mine, TypeOK, Unmined, debts
  <2>q. QED
        BY <1>0, <1>c, <2>1 DEF RequestsOwn, RunsRead, RowsPriced, Sent
<1>8. ASSUME UNCHANGED <<rows, cost, pc, job, uncounted>>
      PROVE  RequestsOwn' /\ RunsRead' /\ RowsPriced'
      BY <1>0, <1>8 DEF RequestsOwn, RunsRead, RowsPriced, Sent
<1>9. ASSUME \/ Deposit \/ Expire \/ UNCHANGED vars
             \/ \E e \in Executions : ScheduleExecution(e) \/ Release(e)
      PROVE  RequestsOwn' /\ RunsRead' /\ RowsPriced'
  <2>1. UNCHANGED <<rows, cost, pc, job, uncounted>>
        BY <1>9 DEF Deposit, Expire, ScheduleExecution, Release, vars, chain, debts
  <2>q. QED
        BY <1>8, <2>1
<1>q. QED
      BY <1>1, <1>2, <1>3, <1>4, <1>5, <1>6, <1>7, <1>9 DEF Next

-----------------------------------------------------------------------------
(* What an execution owes is an integer: nothing, its fee, or what is left of *)
(* it at its end.                                                             *)
LEMMA OwedForType ==
    ASSUME TypeOK, NEW e \in Executions
    PROVE  /\ OwedFor(e) \in Int /\ cost[e] \in Int
           /\ rows[e] = NoRow => OwedFor(e) = 0
           /\ rows[e] # NoRow /\ ~rows[e].final => OwedFor(e) = rows[e].assigned
<1>1. cost[e] \in Int
  <2>1. Costs \cup {0, Unmined} \subseteq Int
        BY AmountsAssumption DEF Unmined
  <2>q. QED
        BY <2>1 DEF TypeOK
<1>2. rows[e] = NoRow \/ rows[e] \in Row
      BY DEF TypeOK
<1>3. Fees(cost[e]) \in Int
      BY <1>1, FeesType
<1>q. QED
      BY <1>1, <1>2, <1>3 DEF OwedFor, Row

LEMMA CostMined ==
    ASSUME TypeOK, NEW e \in Executions, cost[e] # Unmined
    PROVE  cost[e] \in Nat
<1>1. \A c \in Costs : c \in Nat
      BY AmountsAssumption
<1>2. 0 \in Nat
      OBVIOUS
<1>3. cost[e] \in Costs \/ cost[e] = 0
      BY DEF TypeOK
<1>4. CASE cost[e] \in Costs
      BY <1>1, <1>4
<1>5. CASE cost[e] = 0
      BY <1>2, <1>5, Zenon
<1>q. QED
      BY <1>3, <1>4, <1>5

(* The debt changes at a finalization by what the execution owes less.        *)
LEMMA SettlementExact ==
    ASSUME TypeOK, TypeOK', NEW e \in Executions,
           rows[e] \in Row, ~rows[e].final,
           rows'[e] \in Row, rows'[e].final,
           rows'[e].assigned = rows[e].assigned, rows'[e].helped = rows[e].helped,
           cost[e] # Unmined, cost'[e] = cost[e]
    PROVE  OwedFor(e)' - OwedFor(e) = Settlement(rows[e], cost[e])
<1>1. rows[e] # NoRow /\ rows'[e] # NoRow
      BY NamesAssumption
<1>2. cost[e] \in Nat
      BY CostMined
<1>3. /\ rows[e].assigned \in Nat /\ rows[e].helped \in Nat
      /\ Fees(cost[e]) \in Int
      BY <1>2, FeesType DEF Row
<1>4. OwedFor(e) = rows[e].assigned
      BY <1>1, OwedForType
<1> DEFINE smaller == IF rows[e].assigned < Fees(cost[e]) THEN rows[e].assigned
                                                         ELSE Fees(cost[e])
           unused == rows[e].helped - cost[e]
<1>5. OwedFor(e)' = smaller + (IF unused > 0 THEN unused ELSE 0)
      BY <1>1 DEF OwedFor
<1>6. Settlement(rows[e], cost[e])
         = (IF Fees(cost[e]) < rows[e].assigned THEN Fees(cost[e]) - rows[e].assigned ELSE 0)
              + (IF rows[e].helped > 0 /\ rows[e].helped >= cost[e]
                 THEN rows[e].helped - cost[e] ELSE 0)
      BY DEF Settlement, Excess
<1>q. QED
      BY <1>2, <1>3, <1>4, <1>5, <1>6

(* The sum changes by what one execution owes more or less than before.       *)
LEMMA OwedMoves ==
    ASSUME TypeOK, TypeOK', NEW e \in Executions,
           \A x \in Executions \ {e} : rows'[x] = rows[x] /\ cost'[x] = cost[x]
    PROVE  /\ Owed \in Int /\ OwedFor(e) \in Int /\ OwedFor(e)' \in Int
           /\ Owed' = Owed + OwedFor(e)' - OwedFor(e)
<1> DEFINE f == [x \in Executions |-> OwedFor(x)]
           g == [x \in Executions |-> OwedFor(x)']
<1>1. Owed = SumFunction(f) /\ Owed' = SumFunction(g)
      BY DEF Owed
<1>2. \A x \in Executions : OwedFor(x) \in Int
      BY OwedForType
<1>3. \A x \in Executions : OwedFor(x)' \in Int
  <2>1. ASSUME TypeOK', NEW x \in Executions
        PROVE  OwedFor(x)' \in Int
    <3>1. cost'[x] \in Int
      <4>1. Costs \cup {0, Unmined} \subseteq Int
            BY AmountsAssumption DEF Unmined
      <4>q. QED
            BY <2>1, <4>1 DEF TypeOK
    <3>2. rows'[x] = NoRow \/ rows'[x] \in Row
          BY <2>1 DEF TypeOK
    <3>3. Fees(cost'[x]) \in Int
          BY <3>1, FeesType
    <3>q. QED
          BY <3>1, <3>2, <3>3 DEF OwedFor, Row
  <2>q. QED
        BY <2>1
<1>4. \A x \in Executions \ {e} : OwedFor(x)' = OwedFor(x)
      BY DEF OwedFor
<1>5. /\ f \in [Executions -> Int] /\ g \in [Executions -> Int]
      /\ \A x \in Executions \ {e} : f[x] = g[x]
      /\ f[e] = OwedFor(e) /\ g[e] = OwedFor(e)'
      BY <1>2, <1>3, <1>4
<1> HIDE DEF f, g
<1>6. SumFunction(g) = SumFunction(f) + g[e] - f[e] /\ SumFunction(f) \in Int
      BY <1>5, ExecutionsAssumption, SumChange, SumType
<1>q. QED
      BY <1>1, <1>2, <1>3, <1>5, <1>6

(* The debt, and the fees that were not counted, stand for what the           *)
(* executions owe.                                                            *)
Uncounted == Cardinality(uncounted) * Fees(MaxCost)

DebtInv == FollowInv /\ DebtCovers /\ DebtExact

LEMMA UncountedType ==
    ASSUME uncounted \subseteq Executions
    PROVE  Uncounted \in Nat
<1>1. Cardinality(uncounted) \in Nat
      BY ExecutionsAssumption, FS_Subset, FS_CardinalityType
<1>2. \A m, n \in Nat : m * n \in Nat
      OBVIOUS
<1>q. QED
      BY <1>1, <1>2, FeesType DEF Uncounted

LEMMA DebtInvInit == Init => DebtInv
<1> SUFFICES ASSUME Init
             PROVE  DebtInv
    OBVIOUS
<1>1. FollowInv
      BY FollowInvInit
<1>2. Debt = 0
      BY BaseAssumption DEF Init, Debt
<1>3. Owed = 0
  <2>1. [e \in Executions |-> OwedFor(e)] = [e \in Executions |-> IF e \in {} THEN 0 ELSE 0]
        BY DEF OwedFor, Init
  <2>2. SumFunction([e \in Executions |-> IF e \in {} THEN 0 ELSE 0]) = Cardinality({}) * 0
        BY ExecutionsAssumption, SumConstant
  <2>q. QED
        BY <2>1, <2>2, FS_EmptySet DEF Owed
<1>4. Cardinality(uncounted) * Fees(MaxCost) = 0
      BY FeesType, FS_EmptySet DEF Init
<1>q. QED
      BY <1>1, <1>2, <1>3, <1>4 DEF DebtInv, DebtCovers, DebtExact

(* Nobody forgets that a run was late.                                        *)
LEMMA RacedStays == [Next]_vars /\ raced => raced'
BY DEF Next, LockBroadcaster, StoreExecution, Broadcast, ReadPending, GetTransactionStatus,
   Help, GiveUp, Finalise, ScheduleExecution, Release, Mine, Expire, Deposit, vars, debts

LEMMA DebtInvNext == DebtInv /\ [Next]_vars => DebtInv'
<1> SUFFICES ASSUME DebtInv, [Next]_vars, ~raced'
             PROVE  /\ Debt' + Uncounted' >= Owed'
                    /\ again' = 0 /\ ~clamped' => Debt' + Uncounted' = Owed'
    BY FollowInvNext DEF DebtInv, DebtCovers, DebtExact, Uncounted, Fees
<1>1. /\ FollowInv' /\ TypeOK /\ TypeOK' /\ JobsReal
      /\ RequestsOwn /\ RunsRead /\ RowsPriced /\ ~raced
      BY FollowInvNext, RacedStays DEF DebtInv, FollowInv, LedgerInv
<1>2. /\ Debt \in Int /\ Debt' \in Int
  <2>1. \A m, n \in Nat : m * Base + n \in Int
        BY BaseAssumption
  <2>q. QED
        BY <1>1, <2>1 DEF Debt, TypeOK
<1>3. /\ Uncounted \in Int
      /\ Debt + Uncounted >= Owed
      /\ again = 0 /\ ~clamped => Debt + Uncounted = Owed
      BY <1>1, UncountedType DEF DebtInv, DebtCovers, DebtExact, Uncounted, TypeOK
<1>4. \A e \in Executions : OwedFor(e) \in Int
      BY <1>1, OwedForType
<1>5. Owed \in Int
      BY <1>4, ExecutionsAssumption, SumType DEF Owed
<1> DEFINE Kept == /\ Debt' + Uncounted' >= Owed'
                   /\ again' = 0 /\ ~clamped' => Debt' + Uncounted' = Owed'
(* An update by what one execution owes more keeps the columns in step.       *)
<1>6. ASSUME NEW e \in Executions, NEW offset \in Int, AddDebt(offset),
             UNCHANGED uncounted,
             \A x \in Executions \ {e} : rows'[x] = rows[x] /\ cost'[x] = cost[x],
             OwedFor(e)' - OwedFor(e) <= offset,
             again' = 0 => again = 0 /\ OwedFor(e)' - OwedFor(e) = offset
      PROVE  Kept
  <2>1. /\ Debt' >= Debt + offset
        /\ ~clamped' => Debt' = Debt + offset
        BY <1>1, <1>6, UpdateCovers DEF TypeOK
  <2>2. ~clamped' => ~clamped
        BY <1>1, <1>6 DEF AddDebt, TypeOK
  <2>3. /\ OwedFor(e) \in Int /\ OwedFor(e)' \in Int
        /\ Owed' = Owed + OwedFor(e)' - OwedFor(e)
        BY <1>1, <1>6, OwedMoves
  <2>4. Uncounted' = Uncounted
        BY <1>6 DEF Uncounted, Fees
  <2>q. QED
        BY <1>2, <1>3, <1>5, <1>6, <2>1, <2>2, <2>3, <2>4
(* So does leaving all of it alone.                                           *)
<1>7. ASSUME UNCHANGED <<debt18, debt0, clamped, uncounted>>, again' = 0 => again = 0,
             Owed' = Owed
      PROVE  Kept
  <2>1. Debt' = Debt /\ Uncounted' = Uncounted
        BY <1>7 DEF Debt, Uncounted, Fees
  <2>q. QED
        BY <1>2, <1>3, <1>7, <2>1
<1>8. ASSUME NEW e \in Executions, OwedFor(e)' = OwedFor(e),
             \A x \in Executions \ {e} : rows'[x] = rows[x] /\ cost'[x] = cost[x]
      PROVE  Owed' = Owed
      BY <1>1, <1>4, <1>5, <1>8, OwedMoves
<1>9. ASSUME UNCHANGED <<rows, cost>>
      PROVE  Owed' = Owed
      BY <1>9 DEF Owed, OwedFor
(* What a store of an execution makes of what it owes.                        *)
<1>10. ASSUME NEW p \in Procs, pc[p] \in {"store", "broadcast"}, UNCHANGED cost,
              Upsert(job[p].of, Fees(MaxCost), FALSE)
       PROVE  \E e \in Executions :
                 /\ e = job[p].of
                 /\ \A x \in Executions \ {e} : rows'[x] = rows[x] /\ cost'[x] = cost[x]
                 /\ OwedFor(e) \in Int
                 /\ rows[e] = NoRow => OwedFor(e) = 0 /\ OwedFor(e)' = Fees(MaxCost)
                 /\ rows[e] # NoRow => OwedFor(e)' = OwedFor(e)
  <2>1. PICK e \in Executions : e = job[p].of
        BY <1>1, <1>10 DEF JobsReal, Jobs, AtWork
  <2>2. /\ rows'[e] \in Row /\ rows'[e].assigned = Fees(MaxCost)
        /\ rows'[e].final => rows[e] # NoRow /\ rows[e].final
        /\ \A x \in Executions \ {e} : rows'[x] = rows[x]
        BY <1>1, <1>10, <2>1, UpsertKeeps
  <2>3. rows'[e] # NoRow
        BY <2>2, NamesAssumption
  <2>4. OwedFor(e) \in Int /\ (rows[e] = NoRow => OwedFor(e) = 0)
        BY <1>1, OwedForType
  <2>5. ~rows'[e].final => OwedFor(e)' = Fees(MaxCost)
        BY <2>2, <2>3 DEF OwedFor
  <2>6. CASE rows[e] = NoRow
        BY <1>10, <2>1, <2>2, <2>4, <2>5, <2>6
  <2>7. CASE rows[e] # NoRow /\ ~rows[e].final
    <3>1. OwedFor(e) = Fees(MaxCost)
          BY <1>1, <2>7, OwedForType DEF RowsPriced
    <3>q. QED
          BY <1>10, <2>1, <2>2, <2>4, <2>5, <2>7, <3>1
  <2>8. CASE rows[e] # NoRow /\ rows[e].final
    <3>1. rows'[e] = rows[e]
          BY <1>1, <1>10, <2>1, <2>8, FeesType, UpsertRow
    <3>2. OwedFor(e)' = OwedFor(e)
          BY <1>10, <3>1 DEF OwedFor
    <3>q. QED
          BY <1>10, <2>1, <2>2, <2>4, <2>8, <3>2
  <2>q. QED
        BY <2>6, <2>7, <2>8
<1>11. ASSUME NEW p \in Procs, StoreExecution(p)
       PROVE  Kept
  <2>1. UNCHANGED cost /\ again \in Nat /\ pc[p] = "store"
        BY <1>1, <1>11 DEF StoreExecution, chain, TypeOK
  <2>2. CASE UNCHANGED <<rows, debts, again>>
        BY <1>7, <1>9, <2>1, <2>2 DEF debts
  <2>3. CASE /\ Upsert(job[p].of, Fees(MaxCost), FALSE) /\ AddDebt(Fees(MaxCost))
             /\ again' = (IF p \in Runs THEN again + 1 ELSE again)
             /\ UNCHANGED uncounted
    <3>1. PICK e \in Executions :
             /\ e = job[p].of
             /\ \A x \in Executions \ {e} : rows'[x] = rows[x] /\ cost'[x] = cost[x]
             /\ OwedFor(e) \in Int
             /\ rows[e] = NoRow => OwedFor(e) = 0 /\ OwedFor(e)' = Fees(MaxCost)
             /\ rows[e] # NoRow => OwedFor(e)' = OwedFor(e)
          BY <1>10, <2>1, <2>3
    <3>2. p \in Executions => rows[e] = NoRow
          BY <1>1, <2>1, <3>1 DEF RequestsOwn
    <3>3. Fees(MaxCost) \in Nat
          BY FeesType
    <3>4. again' = 0 => again = 0 /\ p \in Executions
          BY <2>1, <2>3 DEF Procs
    <3>5. OwedFor(e)' - OwedFor(e) <= Fees(MaxCost)
          BY <3>1, <3>3
    <3>6. again' = 0 => again = 0 /\ OwedFor(e)' - OwedFor(e) = Fees(MaxCost)
          BY <3>1, <3>2, <3>3, <3>4
    <3>q. QED
          BY <1>6, <2>3, <3>1, <3>3, <3>5, <3>6
  <2>q. QED
        BY <1>11, <2>2, <2>3 DEF StoreExecution
<1>12. ASSUME NEW p \in Procs, Broadcast(p)
       PROVE  Kept
  <2>1. /\ UNCHANGED <<cost, again, debt18, debt0, clamped>> /\ pc[p] = "broadcast"
        BY <1>12 DEF Broadcast, chain
  <2>2. CASE UNCHANGED <<rows, uncounted>>
        BY <1>7, <1>9, <2>1, <2>2
  <2>3. CASE /\ Upsert(job[p].of, Fees(MaxCost), FALSE)
             /\ uncounted' = uncounted \cup {x \in {job[p].of} : rows[x] = NoRow}
    <3>1. PICK e \in Executions :
             /\ e = job[p].of
             /\ \A x \in Executions \ {e} : rows'[x] = rows[x] /\ cost'[x] = cost[x]
             /\ OwedFor(e) \in Int
             /\ rows[e] = NoRow => OwedFor(e) = 0 /\ OwedFor(e)' = Fees(MaxCost)
             /\ rows[e] # NoRow => OwedFor(e)' = OwedFor(e)
          BY <1>10, <2>1, <2>3
    <3>2. CASE rows[e] # NoRow
      <4>1. uncounted' = uncounted
            BY <2>3, <3>1, <3>2
      <4>q. QED
            BY <1>7, <1>8, <2>1, <3>1, <3>2, <4>1
    <3>3. CASE rows[e] = NoRow
      <4>1. uncounted' = uncounted \cup {e} /\ e \notin uncounted
            BY <1>1, <2>3, <3>1, <3>3 DEF RowsPriced
      <4>2. /\ Cardinality(uncounted) \in Nat
            /\ Cardinality(uncounted') = Cardinality(uncounted) + 1
        <5>1. IsFiniteSet(uncounted)
              BY <1>1, ExecutionsAssumption, FS_Subset DEF TypeOK
        <5>q. QED
              BY <4>1, <5>1, FS_AddElement, FS_CardinalityType
      <4>3. \A n, f \in Nat : (n + 1) * f = n * f + f
            OBVIOUS
      <4>4. Uncounted' = Uncounted + Fees(MaxCost)
            BY <4>2, <4>3, FeesType DEF Uncounted, Fees
      <4>5. Owed' = Owed + Fees(MaxCost)
        <5>1. Owed' = Owed + OwedFor(e)' - OwedFor(e)
              BY <1>1, <3>1, OwedMoves
        <5>q. QED
              BY <1>5, <3>1, <3>3, <5>1, FeesType
      <4>6. Debt' = Debt
            BY <2>1 DEF Debt
      <4>q. QED
            BY <1>2, <1>3, <1>5, <2>1, <4>4, <4>5, <4>6, FeesType
    <3>q. QED
          BY <3>2, <3>3
  <2>q. QED
        BY <1>12, <2>2, <2>3 DEF Broadcast
<1>13. ASSUME NEW p \in Runs, Help(p)
       PROVE  Kept
  <2>1. PICK e \in Executions :
           /\ e = job[p].of /\ rows[e] \in Row /\ ~rows[e].final /\ job[p].row \in Row
    <3>1. rows[job[p].of] = job[p].row
          BY <1>13 DEF Help, Changed
    <3>q. QED
          BY <1>1, <1>13, <3>1 DEF Help, JobsReal, Jobs, AtWork, RunsRead, Procs
  <2>2. /\ rows'[e] \in Row /\ rows'[e].assigned = rows[e].assigned
        /\ ~rows'[e].final
        /\ \A x \in Executions \ {e} : rows'[x] = rows[x]
        BY <1>1, <1>13, <2>1, AmountsAssumption DEF Help, TypeOK, Row
  <2>3. OwedFor(e)' = OwedFor(e)
        BY <2>1, <2>2, NamesAssumption DEF OwedFor
  <2>4. UNCHANGED <<debt18, debt0, clamped, uncounted, again, cost>>
        BY <1>13 DEF Help, chain
  <2>q. QED
        BY <1>7, <1>8, <2>1, <2>2, <2>3, <2>4
<1>14. ASSUME NEW p \in Runs, Finalise(p)
       PROVE  Kept
  <2>1. UNCHANGED <<cost, again>>
        BY <1>14 DEF Finalise, chain
  <2>2. CASE UNCHANGED <<rows, debts>>
        BY <1>7, <1>9, <2>1, <2>2 DEF debts
  <2>3. CASE /\ Upsert(job[p].of, job[p].row.assigned, TRUE)
             /\ AddDebt(Settlement(job[p].row, cost[job[p].of]))
             /\ raced' = (raced \/ Changed(p)) /\ UNCHANGED uncounted
    <3>1. PICK e \in Executions :
             /\ e = job[p].of /\ rows[e] \in Row /\ ~rows[e].final
             /\ job[p].row = rows[e] /\ cost[e] # Unmined
      <4>1. rows[job[p].of] = job[p].row
            BY <2>3 DEF Changed
      <4>q. QED
            BY <1>1, <1>14, <4>1 DEF Finalise, JobsReal, Jobs, AtWork, RunsRead, Procs
    <3>2. rows[e].assigned \in Nat /\ rows[e].helped \in Nat /\ rows[e] # NoRow
          BY <3>1, NamesAssumption DEF Row
    <3>3. /\ rows'[e] = [assigned |-> rows[e].assigned, final |-> TRUE,
                         helped |-> IF rows[e] = NoRow THEN 0 ELSE rows[e].helped]
          /\ \A x \in Executions \ {e} : rows'[x] = rows[x]
          BY <1>1, <2>3, <3>1, <3>2, UpsertRow
    <3>4. /\ rows'[e] \in Row /\ rows'[e].final
          /\ rows'[e].assigned = rows[e].assigned /\ rows'[e].helped = rows[e].helped
          BY <3>2, <3>3 DEF Row
    <3>5. OwedFor(e)' - OwedFor(e) = Settlement(rows[e], cost[e])
          BY <1>1, <2>1, <3>1, <3>4, SettlementExact
    <3>6. OwedFor(e) \in Int /\ OwedFor(e)' \in Int
          BY <1>1, <2>1, <3>1, <3>3, OwedMoves
    <3>7. Settlement(rows[e], cost[e]) \in Int
          BY <3>5, <3>6
    <3>q. QED
          BY <1>6, <2>1, <2>3, <3>1, <3>3, <3>5, <3>7
  <2>q. QED
        BY <1>14, <2>2, <2>3 DEF Finalise
<1>15. ASSUME NEW e \in Executions, Mine(e)
       PROVE  Kept
  <2>1. /\ rows[e] = NoRow \/ ~rows[e].final
        /\ \A x \in Executions \ {e} : cost'[x] = cost[x]
        /\ UNCHANGED <<rows, debts, again>>
        BY <1>1, <1>15 DEF Mine, TypeOK, RowsPriced
  <2>2. OwedFor(e)' = OwedFor(e)
        BY <2>1 DEF OwedFor
  <2>q. QED
        BY <1>7, <1>8, <2>1, <2>2 DEF debts
<1>16. ASSUME \/ \E p \in Procs : LockBroadcaster(p)
              \/ \E p \in Runs : ReadPending(p) \/ GetTransactionStatus(p) \/ GiveUp(p)
              \/ \E e \in Executions : ScheduleExecution(e) \/ Release(e)
              \/ Expire \/ Deposit
              \/ UNCHANGED vars
       PROVE  Kept
  <2>1. UNCHANGED <<rows, cost, debts, again>>
        BY <1>16 DEF LockBroadcaster, ReadPending, GetTransactionStatus, GiveUp,
           ScheduleExecution, Release, Expire, Deposit, vars, chain
  <2>q. QED
        BY <1>7, <1>9, <2>1 DEF debts
<1>q. QED
      BY <1>11, <1>12, <1>13, <1>14, <1>15, <1>16 DEF Next

(* However many runs overlap, whatever is resubmitted, helped, cut at 0,      *)
(* fails to be written or is stored after a failed broadcast, for any number  *)
(* of executions and any fees: with the fees of what only the second store    *)
(* has stored, the columns cover what the executions owe, until a run pays or *)
(* settles for a row that has changed since it read it.                       *)
THEOREM DebtAlwaysCovers == Spec => []DebtCovers
<1>1. DebtInv => DebtCovers
      BY DEF DebtInv
<1>q. QED
      BY <1>1, DebtInvInit, DebtInvNext, PTL DEF Spec

(* And they stand for exactly that as long as nothing is submitted again and  *)
(* no column is cut.                                                          *)
THEOREM DebtAlwaysExact == Spec => []DebtExact
<1>1. DebtInv => DebtExact
      BY DEF DebtInv
<1>q. QED
      BY <1>1, DebtInvInit, DebtInvNext, PTL DEF Spec

-----------------------------------------------------------------------------
(* Nothing has happened that ReserveSuffices makes an exception of, and what  *)
(* the client has summed up covers all.                                       *)
Calm == again = 0 /\ \A e \in Executions : rows[e] # NoRow => rows[e].helped = 0

Quiet == ~uncovered /\ Calm

(* What the account still has to have for a scheduled execution: its cost and *)
(* fee before it is sent, its cost until it is mined.                         *)
Held(e) == IF Sent(e) /\ cost[e] = Unmined THEN MaxCost ELSE 0
Need(e) == IF e \in reserved /\ ~Sent(e) THEN TotalMaxCost ELSE Held(e)

AllHeld == SumFunction([e \in Executions |-> Held(e)])
AllNeeded == SumFunction([e \in Executions |-> Need(e)])

(* A debt that is asked for: no fee, no debt. *)
Asked(debt) == IF Fees(MaxCost) > 0 THEN debt ELSE 0

(* The account can pay the debt and all that is scheduled, with what was      *)
(* promised for it, and the request that has the lock can pay the debt it has *)
(* read and what is not mined.                                                *)
Solvent ==
    Quiet =>
        /\ balance >= Asked(Debt) + AllNeeded
        /\ \A p \in Procs : pc[p] = "store" => lock = p
        /\ \A e \in Executions :
              /\ e \in reserved => promised[e] >= TotalMaxCost
              /\ Sent(e) /\ cost[e] = Unmined => e \in reserved
              /\ pc[e] = "store" =>
                     /\ e \in reserved
                     /\ balance >= Asked(job[e].debt) + TotalMaxCost + AllHeld

(* What is needed and held are sums of natural numbers, and change by what    *)
(* changes for one execution.                                                 *)
LEMMA NeedTypes ==
    /\ MaxCost \in Nat /\ Fees(MaxCost) \in Nat
    /\ TotalMaxCost \in Nat /\ TotalMaxCost = MaxCost + Fees(MaxCost)
    /\ \A e \in Executions : Held(e) \in {0, MaxCost} /\ Need(e) \in {0, MaxCost, TotalMaxCost}
    /\ AllHeld \in Nat /\ AllNeeded \in Nat
<1>1. MaxCost \in Nat /\ Fees(MaxCost) \in Nat
      BY AmountsAssumption, FeesType
<1>2. TotalMaxCost \in Nat /\ TotalMaxCost = MaxCost + Fees(MaxCost)
      BY <1>1 DEF TotalMaxCost
<1>3. \A e \in Executions : Held(e) \in {0, MaxCost} /\ Need(e) \in {0, MaxCost, TotalMaxCost}
      BY DEF Held, Need
<1> DEFINE held == [e \in Executions |-> Held(e)]
           need == [e \in Executions |-> Need(e)]
<1>4. held \in [Executions -> Nat] /\ need \in [Executions -> Nat]
      BY <1>1, <1>2, <1>3
<1>5. AllHeld = SumFunction(held) /\ AllNeeded = SumFunction(need)
      BY DEF AllHeld, AllNeeded
<1> HIDE DEF held, need
<1>6. SumFunction(held) \in Nat /\ SumFunction(need) \in Nat
      BY <1>4, ExecutionsAssumption, SumOfNaturals
<1>q. QED
      BY <1>1, <1>2, <1>3, <1>5, <1>6

LEMMA NeedMoves ==
    ASSUME NEW e \in Executions,
           \A x \in Executions \ {e} : Held(x)' = Held(x) /\ Need(x)' = Need(x)
    PROVE  /\ AllHeld' = AllHeld + Held(e)' - Held(e)
           /\ AllNeeded' = AllNeeded + Need(e)' - Need(e)
<1>1. MaxCost \in Int /\ TotalMaxCost \in Int
      BY NeedTypes
<1>2. \A x \in Executions : Held(x) \in Int /\ Need(x) \in Int
      BY <1>1, NeedTypes
<1>3. \A x \in Executions : Held(x)' \in Int /\ Need(x)' \in Int
      BY <1>1 DEF Held, Need
<1> DEFINE held == [x \in Executions |-> Held(x)]
           heldNow == [x \in Executions |-> Held(x)']
           need == [x \in Executions |-> Need(x)]
           needNow == [x \in Executions |-> Need(x)']
<1>4. /\ AllHeld = SumFunction(held) /\ AllHeld' = SumFunction(heldNow)
      /\ AllNeeded = SumFunction(need) /\ AllNeeded' = SumFunction(needNow)
      BY DEF AllHeld, AllNeeded
<1>5. /\ held \in [Executions -> Int] /\ heldNow \in [Executions -> Int]
      /\ need \in [Executions -> Int] /\ needNow \in [Executions -> Int]
      BY <1>2, <1>3
<1>6. /\ \A x \in Executions \ {e} : held[x] = heldNow[x] /\ need[x] = needNow[x]
      /\ held[e] = Held(e) /\ heldNow[e] = Held(e)'
      /\ need[e] = Need(e) /\ needNow[e] = Need(e)'
      OBVIOUS
<1> HIDE DEF held, heldNow, need, needNow
<1>7. SumFunction(heldNow) = SumFunction(held) + heldNow[e] - held[e]
      BY <1>5, <1>6, ExecutionsAssumption, SumChange
<1>8. SumFunction(needNow) = SumFunction(need) + needNow[e] - need[e]
      BY <1>5, <1>6, ExecutionsAssumption, SumChange
<1>q. QED
      BY <1>4, <1>6, <1>7, <1>8

(* An execution that is scheduled and not sent needs all that it may cost     *)
(* beside what is held for the others.                                        *)
LEMMA NeedBesideHeld ==
    ASSUME NEW e \in reserved, reserved \subseteq Executions, ~Sent(e)
    PROVE  AllNeeded >= TotalMaxCost + AllHeld
<1>1. MaxCost \in Nat /\ TotalMaxCost \in Nat /\ MaxCost <= TotalMaxCost
      BY NeedTypes
<1> DEFINE held == [x \in Executions |-> Held(x)]
           both == [x \in Executions |-> IF x = e THEN TotalMaxCost ELSE Held(x)]
           need == [x \in Executions |-> Need(x)]
<1>2. /\ held \in [Executions -> Int] /\ both \in [Executions -> Int]
      /\ need \in [Executions -> Int]
      BY <1>1, NeedTypes
<1>3. /\ e \in Executions /\ held[e] = 0 /\ both[e] = TotalMaxCost
      /\ \A x \in Executions \ {e} : held[x] = both[x]
      BY DEF Held
<1>4. \A x \in Executions : both[x] <= need[x]
      BY <1>1 DEF Held, Need
<1>5. AllHeld = SumFunction(held) /\ AllNeeded = SumFunction(need)
      BY DEF AllHeld, AllNeeded
<1> HIDE DEF held, both, need
<1>6. SumFunction(both) = SumFunction(held) + both[e] - held[e]
      BY <1>2, <1>3, ExecutionsAssumption, SumChange
<1>7. SumFunction(both) <= SumFunction(need)
      BY <1>2, <1>4, ExecutionsAssumption, SumMonotone
<1>8. /\ SumFunction(held) \in Int /\ SumFunction(both) \in Int /\ SumFunction(need) \in Int
      BY <1>2, ExecutionsAssumption, SumType
<1>q. QED
      BY <1>1, <1>3, <1>5, <1>6, <1>7, <1>8

(* A fee is never cut, and what is taken off never adds to the debt.          *)
LEMMA UpdateBounds ==
    ASSUME debt18 \in Nat, debt0 \in Nat, NEW offset \in Int, AddDebt(offset)
    PROVE  /\ offset >= 0 => Debt' = Debt + offset
           /\ offset <= 0 => Debt' <= Debt
<1> DEFINE d18 == debt18 + Quotient(offset)
           d0 == debt0 + Remainder(offset)
<1>1. /\ Quotient(offset) \in Int /\ Remainder(offset) \in Int
      /\ offset = Quotient(offset) * Base + Remainder(offset)
      BY PartsOfOffset
<1>2. debt18' = Cut(d18) /\ debt0' = Cut(d0)
      BY DEF AddDebt
<1>3. ASSUME offset >= 0
      PROVE  Debt' = Debt + offset
  <2>1. Quotient(offset) >= 0 /\ Remainder(offset) >= 0
        BY <1>3, BaseAssumption DEF Quotient, Remainder
  <2>2. debt18' = debt18 + Quotient(offset) /\ debt0' = debt0 + Remainder(offset)
        BY <1>1, <1>2, <2>1 DEF Cut
  <2>3. debt18' * Base = debt18 * Base + Quotient(offset) * Base
        BY <1>1, <2>2, BaseAssumption
  <2>q. QED
        BY <1>1, <2>2, <2>3, BaseAssumption DEF Debt
<1>4. ASSUME offset <= 0
      PROVE  Debt' <= Debt
  <2>1. Quotient(offset) <= 0 /\ Remainder(offset) <= 0
    <3>1. -offset \in Nat
          BY <1>4
    <3>2. (-offset) \div Base \in Nat /\ (-offset) % Base \in Nat
          BY <3>1, BaseAssumption
    <3>3. CASE offset = 0
          BY <3>3, BaseAssumption DEF Quotient, Remainder
    <3>4. CASE offset < 0
      <4>1. /\ Quotient(offset) = -((-offset) \div Base)
            /\ Remainder(offset) = -((-offset) % Base)
            BY <3>4 DEF Quotient, Remainder
      <4>q. QED
            BY <3>2, <4>1
    <3>q. QED
          BY <1>4, <3>3, <3>4
  <2>2. debt18' \in Nat /\ debt18' <= debt18 /\ debt0' \in Nat /\ debt0' <= debt0
        BY <1>1, <1>2, <2>1 DEF Cut
  <2>3. \A m, n \in Nat : m <= n => m * Base \in Nat /\ n * Base \in Nat /\ m * Base <= n * Base
    <3>1. SUFFICES ASSUME NEW m \in Nat, NEW n \in Nat, m <= n
                   PROVE  m * Base \in Nat /\ n * Base \in Nat /\ m * Base <= n * Base
          OBVIOUS
    <3>2. PICK less \in Nat : n = m + less
      <4>1. n - m \in Nat /\ n = m + (n - m)
            BY <3>1
      <4>q. QED
            BY <4>1
    <3>3. n * Base = m * Base + less * Base
          BY <3>2, BaseAssumption
    <3>4. m * Base \in Nat /\ less * Base \in Nat /\ n * Base \in Nat
          BY BaseAssumption
    <3>q. QED
          BY <3>3, <3>4
  <2>4. /\ debt18' * Base \in Nat /\ debt18 * Base \in Nat
        /\ debt18' * Base <= debt18 * Base
        BY <2>2, <2>3
  <2>q. QED
        BY <2>2, <2>4 DEF Debt
<1>q. QED
      BY <1>3, <1>4

(* A step that leaves nothing to make an exception of started without it.     *)
LEMMA CalmBefore ==
    ASSUME FollowInv, [Next]_vars, Calm'
    PROVE  Calm
<1>1. TypeOK /\ JobsReal
      BY DEF FollowInv, LedgerInv
<1>2. again = 0
  <2>1. again' = again \/ again' = again + 1
        BY DEF Next, LockBroadcaster, StoreExecution, Broadcast, ReadPending,
           GetTransactionStatus, Help, GiveUp, Finalise, ScheduleExecution, Release, Mine,
           Expire, Deposit, vars
  <2>q. QED
        BY <1>1, <2>1 DEF Calm, TypeOK
<1>3. ASSUME NEW e \in Executions, rows[e] # NoRow
      PROVE  rows[e].helped = 0
  <2>1. rows[e] \in Row
        BY <1>1, <1>3 DEF TypeOK
  <2>2. ASSUME rows'[e] # NoRow, rows'[e].helped = rows[e].helped
        PROVE  rows[e].helped = 0
        BY <2>2 DEF Calm
  <2>3. ASSUME NEW p \in Procs, NEW a \in Nat, NEW f \in BOOLEAN, AtWork(p),
               Upsert(job[p].of, a, f)
        PROVE  rows[e].helped = 0
    <3>1. /\ rows'[e] \in Row /\ rows'[e].helped = rows[e].helped
          BY <1>1, <2>1, <2>3, <1>3 DEF Upsert, TypeOK, Row
    <3>q. QED
          BY <2>2, <3>1, NamesAssumption
  <2>4. CASE UNCHANGED rows
        BY <1>3, <2>2, <2>4
  <2>5. ASSUME NEW p \in Procs, StoreExecution(p) \/ Broadcast(p)
        PROVE  rows[e].helped = 0
        BY <2>3, <2>4, <2>5, FeesType DEF StoreExecution, Broadcast, AtWork
  <2>6. ASSUME NEW p \in Runs, Finalise(p)
        PROVE  rows[e].helped = 0
    <3>1. AtWork(p) /\ p \in Procs /\ job[p].row.assigned \in Nat
          BY <1>1, <2>6 DEF Finalise, AtWork, JobsReal, Procs, Row
    <3>q. QED
          BY <2>3, <2>4, <2>6, <3>1 DEF Finalise
  <2>7. ASSUME NEW p \in Runs, Help(p)
        PROVE  rows[e].helped = 0
    <3>1. job[p].of \in Executions /\ job[p].row \in Row
          BY <1>1, <2>7 DEF Help, JobsReal, Jobs, AtWork, Procs
    <3>2. PICK value \in Nat \ {0} :
             rows' = [rows EXCEPT ![job[p].of].helped = job[p].row.helped + value]
          BY <2>7, AmountsAssumption DEF Help
    <3>3. CASE e # job[p].of
      <4>1. rows'[e] = rows[e]
            BY <1>1, <3>2, <3>3 DEF TypeOK
      <4>q. QED
            BY <1>3, <2>2, <4>1
    <3>4. CASE e = job[p].of
      <4>1. rows'[e] \in Row /\ rows'[e].helped = job[p].row.helped + value
            BY <1>1, <2>1, <3>1, <3>2, <3>4 DEF TypeOK, Row
      <4>2. rows'[e].helped = 0
            BY <4>1, NamesAssumption DEF Calm
      <4>3. job[p].row.helped \in Nat
            BY <3>1 DEF Row
      <4>q. QED
            BY <4>1, <4>2, <4>3
    <3>q. QED
          BY <3>3, <3>4
  <2>8. ASSUME \/ \E p \in Procs : LockBroadcaster(p)
               \/ \E p \in Runs : ReadPending(p) \/ GetTransactionStatus(p) \/ GiveUp(p)
               \/ \E x \in Executions : ScheduleExecution(x) \/ Release(x) \/ Mine(x)
               \/ Expire \/ Deposit
               \/ UNCHANGED vars
        PROVE  rows[e].helped = 0
        BY <2>4, <2>8 DEF LockBroadcaster, ReadPending, GetTransactionStatus, GiveUp,
           ScheduleExecution, Release, Mine, Expire, Deposit, vars
  <2>q. QED
        BY <2>5, <2>6, <2>7, <2>8 DEF Next
<1>q. QED
      BY <1>2, <1>3 DEF Calm

LEMMA QuietBefore ==
    ASSUME FollowInv, [Next]_vars, Quiet'
    PROVE  Quiet
<1>1. uncovered => uncovered'
      BY DEF Next, LockBroadcaster, StoreExecution, Broadcast, Unlock, ReadPending,
         GetTransactionStatus, Help, GiveUp, Finalise, ScheduleExecution, Release, Mine,
         Expire, Deposit, vars, reserve
<1>q. QED
      BY <1>1, CalmBefore DEF Quiet

(* The account stays solvent, and what is scheduled is not refused.           *)
SolventInv == FollowInv /\ Solvent /\ ReserveSuffices

LEMMA SolventInvInit == Init => SolventInv
<1> SUFFICES ASSUME Init
             PROVE  SolventInv
    OBVIOUS
<1>1. FollowInv
      BY FollowInvInit
<1>2. Debt = 0 /\ Asked(0) = 0 /\ balance \in Nat
      BY BaseAssumption, AmountsAssumption DEF Init, Debt, Asked
<1>3. AllNeeded = 0
  <2>1. [e \in Executions |-> Need(e)] = [e \in Executions |-> IF e \in {} THEN 0 ELSE 0]
        BY DEF Need, Held, Sent, Init, Procs
  <2>2. SumFunction([e \in Executions |-> IF e \in {} THEN 0 ELSE 0]) = Cardinality({}) * 0
        BY ExecutionsAssumption, SumConstant
  <2>q. QED
        BY <2>1, <2>2, FS_EmptySet DEF AllNeeded
<1>4. Solvent
      BY <1>2, <1>3 DEF Solvent, Init, Sent, Procs
<1>5. ReserveSuffices
      BY DEF ReserveSuffices, Init
<1>q. QED
      BY <1>1, <1>4, <1>5 DEF SolventInv

(* Whoever was promised what it may cost passes the balance check.            *)
LEMMA PromisedAffordable ==
    ASSUME FollowInv, Solvent, Quiet, NEW p \in reserved, pc[p] = "store", p \in Procs
    PROVE  Affordable(job[p].debt)
<1>1. TypeOK /\ JobsReal
      BY DEF FollowInv, LedgerInv
<1>2. p \in Executions /\ balance \in Nat
      BY <1>1 DEF TypeOK
<1>3. job[p].debt \in Nat
      BY <1>1 DEF JobsReal, Jobs, AtWork
<1>4. balance >= Asked(job[p].debt) + TotalMaxCost + AllHeld
      BY <1>2 DEF Solvent
<1>5. Asked(job[p].debt) = IF Fees(MaxCost) > 0 THEN job[p].debt ELSE 0
      BY DEF Asked
<1>6. balance >= MaxCost + Fees(MaxCost) + (IF Fees(MaxCost) > 0 THEN job[p].debt ELSE 0)
      BY <1>2, <1>3, <1>4, <1>5, NeedTypes
<1>q. QED
      BY <1>6 DEF Affordable

LEMMA ReserveSufficesNext == SolventInv /\ [Next]_vars => ReserveSuffices'
<1> SUFFICES ASSUME SolventInv, [Next]_vars, refused'
             PROVE  \/ again' > 0
                    \/ \E e \in Executions : rows'[e] # NoRow /\ rows'[e].helped > 0
    BY DEF ReserveSuffices
<1>1. FollowInv /\ Solvent /\ ReserveSuffices /\ TypeOK /\ TypeOK'
      BY FollowInvNext DEF SolventInv, FollowInv, LedgerInv
<1>2. ASSUME Calm
      PROVE  FALSE
  <2>1. ~refused
    <3>1. ~(again > 0)
          BY <1>2 DEF Calm
    <3>2. ASSUME NEW e \in Executions, rows[e] # NoRow, rows[e].helped > 0
          PROVE  FALSE
          BY <1>2, <3>2 DEF Calm
    <3>q. QED
          BY <1>1, <3>1, <3>2 DEF ReserveSuffices
  <2>2. PICK p \in Procs : StoreExecution(p) /\ ~Affordable(job[p].debt)
                             /\ p \in reserved /\ ~uncovered
    <3>1. ASSUME NEW p \in Procs, StoreExecution(p)
          PROVE  ~Affordable(job[p].debt) /\ p \in reserved /\ ~uncovered
          BY <2>1, <3>1 DEF StoreExecution
    <3>2. ~(\E p \in Procs : StoreExecution(p)) => refused' = refused
          BY DEF Next, LockBroadcaster, Broadcast, ReadPending, GetTransactionStatus, Help,
             GiveUp, Finalise, ScheduleExecution, Release, Mine, Expire, Deposit, vars, reserve
    <3>q. QED
          BY <2>1, <3>1, <3>2
  <2>3. Quiet /\ pc[p] = "store"
        BY <1>2, <2>2 DEF Quiet, StoreExecution
  <2>q. QED
        BY <1>1, <2>2, <2>3, PromisedAffordable
<1>3. ~Calm'
      BY <1>1, <1>2, CalmBefore
<1>4. again' \in Nat /\ \A e \in Executions : rows'[e] # NoRow => rows'[e].helped \in Nat
      BY <1>1 DEF TypeOK, Row
<1>5. CASE again' = 0
  <2>1. PICK e \in Executions : rows'[e] # NoRow /\ rows'[e].helped # 0
        BY <1>3, <1>5 DEF Calm
  <2>2. rows'[e].helped > 0
        BY <1>4, <2>1
  <2>q. QED
        BY <2>1, <2>2
<1>6. CASE again' # 0
      BY <1>4, <1>6
<1>q. QED
      BY <1>5, <1>6

LEMMA SolventNext == SolventInv /\ [Next]_vars => Solvent'
<1> SUFFICES ASSUME SolventInv, [Next]_vars, Quiet'
             PROVE  /\ balance' >= Asked(Debt') + AllNeeded'
                    /\ \A p \in Procs : pc'[p] = "store" => lock' = p
                    /\ \A e \in Executions :
                          /\ e \in reserved' => promised'[e] >= TotalMaxCost
                          /\ Sent(e)' /\ cost'[e] = Unmined => e \in reserved'
                          /\ pc'[e] = "store" =>
                                /\ e \in reserved'
                                /\ balance' >= Asked(job'[e].debt) + TotalMaxCost + AllHeld'
    BY DEF Solvent, Asked, TotalMaxCost, Fees
<1> DEFINE Good == /\ balance' >= Asked(Debt') + AllNeeded'
                   /\ \A p \in Procs : pc'[p] = "store" => lock' = p
                   /\ \A e \in Executions :
                         /\ e \in reserved' => promised'[e] >= TotalMaxCost
                         /\ Sent(e)' /\ cost'[e] = Unmined => e \in reserved'
                         /\ pc'[e] = "store" =>
                               /\ e \in reserved'
                               /\ balance' >= Asked(job'[e].debt) + TotalMaxCost + AllHeld'
<1>1. /\ FollowInv /\ FollowInv' /\ TypeOK /\ TypeOK' /\ JobsReal
      /\ RequestsOwn /\ RunsRead /\ RowsPriced
      BY FollowInvNext DEF SolventInv, FollowInv, LedgerInv
<1>2. Quiet
      BY <1>1, QuietBefore
<1>3. /\ balance >= Asked(Debt) + AllNeeded
      /\ \A p \in Procs : pc[p] = "store" => lock = p
      /\ \A e \in Executions :
            /\ e \in reserved => promised[e] >= TotalMaxCost
            /\ Sent(e) /\ cost[e] = Unmined => e \in reserved
            /\ pc[e] = "store" =>
                  /\ e \in reserved
                  /\ balance >= Asked(job[e].debt) + TotalMaxCost + AllHeld
      BY <1>2 DEF SolventInv, Solvent
<1>4. /\ balance \in Nat /\ balance' \in Nat /\ Debt \in Nat /\ Debt' \in Nat
      /\ reserved \subseteq Executions
      /\ MaxCost \in Nat /\ Fees(MaxCost) \in Nat
      /\ TotalMaxCost \in Nat /\ TotalMaxCost = MaxCost + Fees(MaxCost)
      /\ AllHeld \in Nat /\ AllNeeded \in Nat
  <2>1. balance \in Nat /\ balance' \in Nat /\ reserved \subseteq Executions
        BY <1>1 DEF TypeOK
  <2>2. Debt \in Nat /\ Debt' \in Nat
    <3>1. debt18 \in Nat /\ debt0 \in Nat /\ debt18' \in Nat /\ debt0' \in Nat
          BY <1>1 DEF TypeOK
    <3>2. \A m, n \in Nat : m * Base + n \in Nat
          BY BaseAssumption
    <3>q. QED
          BY <3>1, <3>2 DEF Debt
  <2>q. QED
        BY <2>1, <2>2, NeedTypes
<1>5. \A d \in Nat : Asked(d) \in Nat
      BY DEF Asked
<1>6. \A e \in Executions : pc[e] = "store" => lock = e /\ job[e].debt \in Nat
      BY <1>1, <1>3 DEF JobsReal, AtWork, Jobs, Procs
(* What is sent, asked for and promised is as before, and no more is owed.    *)
<1>7. ASSUME \A e \in Executions : /\ Sent(e)' <=> Sent(e)
                                   /\ pc'[e] = "store" => pc[e] = "store" /\ job'[e] = job[e],
             \A p \in Procs : pc'[p] = "store" => lock' = p,
             UNCHANGED <<cost, reserved, promised>>, balance' >= balance, Debt' <= Debt
      PROVE  Good
  <2>1. AllHeld' = AllHeld /\ AllNeeded' = AllNeeded
        BY <1>7 DEF AllHeld, AllNeeded, Need, Held, TotalMaxCost, Fees
  <2>2. Asked(Debt') <= Asked(Debt) /\ Asked(Debt) \in Nat /\ Asked(Debt') \in Nat
        BY <1>4, <1>7 DEF Asked
  <2>3. balance' >= Asked(Debt') + AllNeeded'
        BY <1>3, <1>4, <1>7, <2>1, <2>2
  <2>4. ASSUME NEW e \in Executions, pc'[e] = "store"
        PROVE  /\ e \in reserved'
               /\ balance' >= Asked(job'[e].debt) + TotalMaxCost + AllHeld'
    <3>1. /\ e \in reserved /\ job[e].debt \in Nat
          /\ balance >= Asked(job[e].debt) + TotalMaxCost + AllHeld
          BY <1>3, <1>6, <1>7, <2>4
    <3>2. Asked(job[e].debt) \in Nat
          BY <1>5, <3>1
    <3>3. job'[e] = job[e]
          BY <1>7, <2>4
    <3>q. QED
          BY <1>4, <1>7, <2>1, <3>1, <3>2, <3>3
  <2>q. QED
        BY <1>3, <1>7, <2>3, <2>4
<1>8. ASSUME NEW p \in Procs, LockBroadcaster(p)
      PROVE  Good
  <2>1. /\ \A o \in Procs \ {p} : job'[o] = job[o] /\ pc'[o] = pc[o]
        /\ lock = NoLock /\ lock' = p /\ pc'[p] = "store"
        /\ UNCHANGED <<rows, cost, balance, debt18, debt0, reserved, promised>>
        BY <1>1, <1>8 DEF LockBroadcaster, TypeOK, chain, debts
  <2>2. \A o \in Procs : pc[o] # "store"
        BY <1>3, <2>1, NamesAssumption
  <2>3. \A e \in Executions : e \in Procs /\ (Sent(e)' <=> Sent(e))
        BY <1>8, <2>1, NamesAssumption DEF LockBroadcaster, Sent, Procs
  <2>4. AllHeld' = AllHeld /\ AllNeeded' = AllNeeded /\ Debt' = Debt
        BY <2>1, <2>3 DEF AllHeld, AllNeeded, Need, Held, Debt, TotalMaxCost, Fees
  <2>5. ASSUME p \in Executions
        PROVE  p \in reserved /\ balance >= Asked(job'[p].debt) + TotalMaxCost + AllHeld
    <3>1. uncovered' = (uncovered \/ p \in Executions \ reserved)
          BY <1>8 DEF LockBroadcaster
    <3>2. p \in reserved
          BY <2>5, <3>1 DEF Quiet
    <3>3. pc[p] = "idle" /\ job' = [job EXCEPT ![p] = [of |-> p, row |-> NoRow, debt |-> Debt]]
          BY <1>8, <2>5, NamesAssumption DEF LockBroadcaster
    <3>4. ~Sent(p) /\ job'[p].debt = Debt
          BY <1>1, <2>5, <3>3 DEF RequestsOwn, Sent, TypeOK, Procs
    <3>5. AllNeeded >= TotalMaxCost + AllHeld
          BY <1>4, <3>2, <3>4, NeedBesideHeld
    <3>6. Asked(job'[p].debt) = Asked(Debt) /\ Asked(Debt) \in Nat
          BY <1>4, <1>5, <3>4
    <3>q. QED
          BY <1>3, <1>4, <3>2, <3>5, <3>6
  <2>6. \A o \in Procs : pc'[o] = "store" => lock' = o
        BY <2>1, <2>2
  <2>7. \A e \in Executions : pc'[e] = "store" => e = p
        BY <2>1, <2>2, <2>3
  <2>q. QED
        BY <1>3, <2>1, <2>3, <2>4, <2>5, <2>6, <2>7
<1>9. ASSUME NEW p \in Procs, StoreExecution(p)
      PROVE  Good
  <2>1. pc[p] = "store" /\ lock = p /\ UNCHANGED <<cost, balance, reserved, promised>>
        BY <1>3, <1>9 DEF StoreExecution, chain
  <2>2. /\ \A o \in Procs \ {p} : job'[o] = job[o] /\ pc'[o] = pc[o]
        /\ pc'[p] \in {"idle", "broadcast"}
        BY <1>1, <1>9 DEF StoreExecution, Leave, Stored, TypeOK
  <2>3. \A o \in Procs : pc'[o] # "store"
        BY <1>3, <2>1, <2>2
  <2>4. \A e \in Executions : e \in Procs
        BY DEF Procs
  <2>5. CASE pc'[p] = "idle" /\ UNCHANGED <<rows, debts>>
    <3>1. \A e \in Executions : Sent(e)' <=> Sent(e)
          BY <2>1, <2>2, <2>4, <2>5 DEF Sent
    <3>2. Debt' = Debt
          BY <2>5 DEF Debt, debts
    <3>q. QED
          BY <1>4, <1>7, <2>1, <2>3, <2>4, <3>1, <3>2
  <2>6. CASE pc'[p] = "broadcast" /\ UNCHANGED <<rows, debts>>
    <3>1. Debt' = Debt
          BY <2>6 DEF Debt, debts
    <3>2. CASE p \in Runs
      <4>1. \A e \in Executions : Sent(e)' <=> Sent(e)
            BY <2>2, <2>4, <2>6, <3>2, NamesAssumption DEF Sent
      <4>q. QED
            BY <1>4, <1>7, <2>1, <2>3, <2>4, <3>1, <4>1
    <3>3. CASE p \in Executions
      <4>1. p \in reserved /\ ~Sent(p) /\ Sent(p)' /\ cost[p] = Unmined
            BY <1>1, <1>3, <2>1, <2>6, <3>3 DEF RequestsOwn, RowsPriced, Sent
      <4>2. \A x \in Executions \ {p} : Sent(x)' <=> Sent(x)
            BY <2>2, <2>4, <2>6 DEF Sent
      <4>3. AllNeeded' \in Int /\ AllNeeded' <= AllNeeded
        <5>1. \A x \in Executions \ {p} : Held(x)' = Held(x) /\ Need(x)' = Need(x)
              BY <2>1, <4>2 DEF Need, Held, TotalMaxCost, Fees
        <5>2. Need(p) = TotalMaxCost /\ Need(p)' = MaxCost
              BY <2>1, <4>1 DEF Need, Held
        <5>3. AllNeeded' = AllNeeded + Need(p)' - Need(p)
              BY <3>3, <5>1, NeedMoves
        <5>q. QED
              BY <1>4, <5>2, <5>3
      <4>5. balance' >= Asked(Debt') + AllNeeded'
            BY <1>3, <1>4, <1>5, <2>1, <3>1, <4>3
      <4>q. QED
            BY <1>3, <2>1, <2>3, <2>4, <4>1, <4>2, <4>5
    <3>q. QED
          BY <3>2, <3>3 DEF Procs
  <2>7. CASE /\ Upsert(job[p].of, Fees(MaxCost), FALSE) /\ AddDebt(Fees(MaxCost))
             /\ again' = (IF p \in Runs THEN again + 1 ELSE again)
             /\ pc'[p] = "broadcast"
    <3>1. p \in Executions
          BY <1>2, <2>7 DEF Quiet, Calm, Procs
    <3>2. /\ job[p].of = p /\ p \in reserved
          /\ cost[p] = Unmined /\ ~Sent(p) /\ Sent(p)'
          BY <1>1, <1>3, <2>1, <2>7, <3>1 DEF RequestsOwn, RowsPriced, Sent
    <3>3. \A x \in Executions \ {p} : rows'[x] = rows[x] /\ (Sent(x)' <=> Sent(x))
      <4>1. \A x \in Executions \ {p} : rows'[x] = rows[x]
            BY <1>1, <2>7, <3>1, <3>2, UpsertKeeps
      <4>q. QED
            BY <2>2, <2>4, <4>1 DEF Sent
    <3>5. AllNeeded' = AllNeeded - Fees(MaxCost)
      <4>1. \A x \in Executions \ {p} : Held(x)' = Held(x) /\ Need(x)' = Need(x)
            BY <2>1, <3>3 DEF Need, Held, TotalMaxCost, Fees
      <4>2. Need(p) = TotalMaxCost /\ Need(p)' = MaxCost
            BY <2>1, <3>2 DEF Need, Held
      <4>3. AllNeeded' = AllNeeded + Need(p)' - Need(p)
            BY <3>1, <4>1, NeedMoves
      <4>q. QED
            BY <1>4, <4>2, <4>3
    <3>6. Debt' = Debt + Fees(MaxCost)
      <4>1. debt18 \in Nat /\ debt0 \in Nat
            BY <1>1 DEF TypeOK
      <4>2. Fees(MaxCost) \in Int /\ Fees(MaxCost) >= 0 /\ AddDebt(Fees(MaxCost))
            BY <1>4, <2>7
      <4>q. QED
            BY <4>1, <4>2, UpdateBounds
    <3>7. Asked(Debt') = Asked(Debt) + Fees(MaxCost)
          BY <1>4, <3>6 DEF Asked
    <3>8. balance' >= Asked(Debt') + AllNeeded'
          BY <1>3, <1>4, <1>5, <2>1, <3>5, <3>7
    <3>q. QED
          BY <1>3, <2>1, <2>3, <2>4, <3>2, <3>3, <3>8
  <2>q. QED
    <3>1. Leave(p, "idle") => pc'[p] = "idle"
          BY <1>1 DEF Leave, TypeOK
    <3>2. Stored(p) => pc'[p] = "broadcast"
          BY <1>1 DEF Stored, TypeOK
    <3>q. QED
          BY <1>9, <2>5, <2>6, <2>7, <3>1, <3>2 DEF StoreExecution
<1>10. ASSUME NEW p \in Procs, Broadcast(p)
       PROVE  Good
  <2>1. /\ pc[p] = "broadcast" /\ pc'[p] = IF p \in Executions THEN "done" ELSE "idle"
        /\ \A o \in Procs \ {p} : job'[o] = job[o] /\ pc'[o] = pc[o]
        /\ UNCHANGED <<cost, balance, reserved, promised, debt18, debt0>>
        BY <1>1, <1>10 DEF Broadcast, Leave, TypeOK, chain
  <2>2. \A e \in Executions : e \in Procs
        BY DEF Procs
  <2>3. \A o \in Procs : pc'[o] # "store"
    <3>1. uncovered' = (uncovered \/ lock \notin {p, NoLock})
          BY <1>10 DEF Broadcast, Unlock
    <3>2. lock \in {p, NoLock}
          BY <3>1 DEF Quiet
    <3>3. \A o \in Procs : pc[o] # "store"
          BY <1>3, <2>1, <3>2, NamesAssumption
    <3>q. QED
          BY <2>1, <3>3
  <2>4. \A e \in Executions : Sent(e)' <=> Sent(e)
    <3>1. CASE UNCHANGED rows
          BY <2>1, <2>2, <3>1 DEF Sent
    <3>2. CASE Upsert(job[p].of, Fees(MaxCost), FALSE)
      <4>1. PICK x \in Executions : x = job[p].of
            BY <1>1, <2>1 DEF JobsReal, Jobs, AtWork
      <4>2. /\ rows'[x] \in Row
            /\ \A e \in Executions \ {x} : rows'[e] = rows[e]
            BY <1>1, <3>2, <4>1, UpsertKeeps
      <4>3. Sent(x) /\ Sent(x)'
        <5>1. rows'[x] # NoRow
              BY <4>2, NamesAssumption
        <5>2. CASE p \in Executions
              BY <1>1, <2>1, <4>1, <5>1, <5>2 DEF RequestsOwn, Sent
        <5>3. CASE p \in Runs
          <6>1. rows[x] \in Row
                BY <1>1, <2>1, <4>1, <5>3 DEF JobsReal, AtWork
          <6>q. QED
                BY <5>1, <6>1, NamesAssumption DEF Sent
        <5>q. QED
              BY <5>2, <5>3 DEF Procs
      <4>q. QED
            BY <2>1, <2>2, <4>2, <4>3 DEF Sent
    <3>q. QED
          BY <1>10, <3>1, <3>2 DEF Broadcast
  <2>5. Debt' = Debt
        BY <2>1 DEF Debt
  <2>q. QED
        BY <1>4, <1>7, <2>1, <2>2, <2>3, <2>4, <2>5
<1>11. ASSUME NEW p \in Runs, Help(p)
       PROVE  Good
  <2>1. /\ job[p].of \in Executions /\ rows[job[p].of] \in Row /\ job[p].row \in Row
        BY <1>1, <1>11 DEF Help, JobsReal, Jobs, AtWork, Procs
  <2>2. /\ rows'[job[p].of] \in Row
        /\ \A x \in Executions \ {job[p].of} : rows'[x] = rows[x]
        BY <1>1, <1>11, <2>1, AmountsAssumption DEF Help, TypeOK, Row
  <2>3. /\ \A e \in Executions : pc'[e] = pc[e] /\ job'[e] = job[e]
        /\ \A o \in Procs : pc'[o] = "store" => pc[o] = "store"
        /\ UNCHANGED <<cost, balance, lock, reserved, promised, debt18, debt0>>
        BY <1>1, <1>11, NamesAssumption DEF Help, Goto, TypeOK, chain, reserve, Procs
  <2>4. Debt' = Debt
        BY <2>3 DEF Debt
  <2>5. \A e \in Executions : Sent(e)' <=> Sent(e)
        BY <2>1, <2>2, <2>3, NamesAssumption DEF Sent
  <2>q. QED
        BY <1>3, <1>4, <1>7, <2>3, <2>4, <2>5
<1>12. ASSUME NEW p \in Runs, Finalise(p)
       PROVE  Good
  <2>1. PICK x \in Executions :
           /\ x = job[p].of /\ rows[x] \in Row /\ job[p].row \in Row /\ cost[x] # Unmined
           /\ job[p].row.assigned = Fees(MaxCost)
           /\ job[p].row.helped > 0 => rows[x].helped > 0
        BY <1>1, <1>12 DEF Finalise, JobsReal, Jobs, AtWork, RunsRead, Procs
  <2>2. /\ \A e \in Executions : pc'[e] = pc[e] /\ job'[e] = job[e]
        /\ \A o \in Procs : pc'[o] = "store" => pc[o] = "store"
        /\ UNCHANGED <<cost, balance, lock, reserved, promised>>
        BY <1>1, <1>12, NamesAssumption DEF Finalise, Leave, TypeOK, chain, reserve, Procs
  <2>3. CASE UNCHANGED <<rows, debts>>
    <3>1. Debt' = Debt
          BY <2>3 DEF Debt, debts
    <3>2. \A e \in Executions : Sent(e)' <=> Sent(e)
          BY <2>2, <2>3 DEF Sent
    <3>q. QED
          BY <1>3, <1>4, <1>7, <2>2, <3>1, <3>2
  <2>4. CASE /\ Upsert(x, Fees(MaxCost), TRUE)
             /\ AddDebt(Settlement(job[p].row, cost[x]))
    <3>1. rows[x] # NoRow /\ rows[x].helped = 0
          BY <1>2, <2>1, NamesAssumption DEF Quiet, Calm
    <3>2. job[p].row.helped = 0
          BY <2>1, <3>1 DEF Row
    <3>3. Fees(cost[x]) \in Int
          BY <1>1, OwedForType, FeesType
    <3>4. /\ Settlement(job[p].row, cost[x]) \in Int
          /\ Settlement(job[p].row, cost[x]) <= 0
      <4>1. Excess(job[p].row.helped, cost[x]) = 0
            BY <3>2 DEF Excess
      <4>q. QED
            BY <1>4, <2>1, <3>3, <4>1 DEF Settlement
    <3>5. Debt' <= Debt
          BY <1>1, <2>4, <3>4, UpdateBounds DEF TypeOK
    <3>6. \A e \in Executions : Sent(e)' <=> Sent(e)
      <4>1. /\ rows'[x] \in Row
            /\ \A e \in Executions \ {x} : rows'[e] = rows[e]
            BY <1>1, <2>1, <2>4, UpsertKeeps
      <4>q. QED
            BY <2>2, <3>1, <4>1, NamesAssumption DEF Sent
    <3>q. QED
          BY <1>3, <1>4, <1>7, <2>2, <3>5, <3>6
  <2>q. QED
        BY <1>12, <2>1, <2>3, <2>4 DEF Finalise
<1>13. ASSUME NEW x \in Executions, Mine(x)
       PROVE  Good
  <2>1. PICK paid \in Costs : balance' = balance - paid
        BY <1>13 DEF Mine
  <2>2. paid \in Nat /\ paid <= MaxCost
        BY AmountsAssumption
  <2>3. /\ Sent(x) /\ cost[x] = Unmined /\ cost'[x] # Unmined
        /\ \A e \in Executions \ {x} : cost'[e] = cost[e]
        /\ \A e \in Executions : Sent(e)' <=> Sent(e)
        /\ UNCHANGED <<rows, pc, job, lock, reserved, promised, debt18, debt0>>
        BY <1>1, <1>13, AmountsAssumption DEF Mine, TypeOK, Unmined, reserve, debts, Sent
  <2>4. AllHeld' = AllHeld - MaxCost /\ AllNeeded' = AllNeeded - MaxCost
    <3>1. \A e \in Executions \ {x} : Held(e)' = Held(e) /\ Need(e)' = Need(e)
          BY <2>3 DEF Need, Held, TotalMaxCost, Fees
    <3>2. Need(x) = MaxCost /\ Need(x)' = 0 /\ Held(x) = MaxCost /\ Held(x)' = 0
          BY <2>3 DEF Need, Held
    <3>3. /\ AllHeld' = AllHeld + Held(x)' - Held(x)
          /\ AllNeeded' = AllNeeded + Need(x)' - Need(x)
          BY <3>1, NeedMoves
    <3>q. QED
          BY <1>4, <3>2, <3>3
  <2>5. Debt' = Debt
        BY <2>3 DEF Debt
  <2>6. balance' >= Asked(Debt') + AllNeeded'
        BY <1>3, <1>4, <1>5, <2>1, <2>2, <2>4, <2>5
  <2>7. ASSUME NEW e \in Executions, pc'[e] = "store"
        PROVE  /\ e \in reserved'
               /\ balance' >= Asked(job'[e].debt) + TotalMaxCost + AllHeld'
    <3>1. /\ e \in reserved /\ job[e].debt \in Nat
          /\ balance >= Asked(job[e].debt) + TotalMaxCost + AllHeld
          BY <1>3, <1>6, <2>3, <2>7
    <3>2. Asked(job[e].debt) \in Nat
          BY <1>5, <3>1
    <3>q. QED
          BY <1>4, <2>1, <2>2, <2>3, <2>4, <3>1, <3>2
  <2>q. QED
        BY <1>3, <2>3, <2>6, <2>7
<1>14. ASSUME NEW x \in Executions, ScheduleExecution(x)
       PROVE  Good
  <2>1. PICK read \in SUBSET Reserving, amount \in Promises :
           /\ balance >= AmountReserved(x, read) + TotalMaxCost
           /\ promised' = [promised EXCEPT ![x] = amount]
           /\ uncovered' = \/ uncovered \/ Debt > 0
                           \/ read # Reserving \/ amount < TotalMaxCost
        BY <1>14 DEF ScheduleExecution
  <2>2. /\ pc[x] = "idle" /\ x \notin reserved /\ reserved' = reserved \cup {x}
        /\ UNCHANGED <<rows, cost, balance, lock, pc, job, debt18, debt0>>
        BY <1>14 DEF ScheduleExecution, chain, debts
  <2>3. ~(Debt > 0) /\ read = Reserving /\ ~(amount < TotalMaxCost)
        BY <2>1 DEF Quiet
  <2>4. Debt' = 0 /\ Asked(Debt') = 0
    <3>1. Debt' = Debt
          BY <2>2 DEF Debt
    <3>q. QED
          BY <1>4, <2>3, <3>1 DEF Asked
  <2>5. \A e \in Executions : Sent(e)' <=> Sent(e)
        BY <2>2 DEF Sent
  <2>6. AllHeld' = AllHeld
        BY <2>2, <2>5 DEF AllHeld, Held
  <2>7. amount \in Nat /\ amount >= TotalMaxCost /\ promised \in [Executions -> Nat]
        BY <1>1, <1>4, <2>3, AmountsAssumption DEF TypeOK
  <2>8. \A e \in Executions : e \in reserved' => promised'[e] >= TotalMaxCost
        BY <1>3, <2>1, <2>2, <2>7
  <2>9. /\ AllNeeded' \in Int /\ AmountReserved(x, read) \in Int
        /\ AllNeeded' <= AmountReserved(x, read) + TotalMaxCost
    <3> DEFINE need == [e \in Executions |-> Need(e)']
               sum == [e \in Executions |-> IF e \in read \ {x} THEN promised[e] ELSE 0]
               most == [e \in Executions |-> IF e = x THEN TotalMaxCost
                                             ELSE IF e \in read \ {x} THEN promised[e] ELSE 0]
    <3>1. /\ need \in [Executions -> Int] /\ sum \in [Executions -> Int]
          /\ most \in [Executions -> Int]
          BY <1>4, <2>7 DEF Need, Held, TotalMaxCost, Fees
    <3>2. ASSUME NEW e \in Executions
          PROVE  need[e] <= most[e]
      <4>1. TotalMaxCost' = TotalMaxCost
            BY DEF TotalMaxCost, Fees
      <4>2. CASE e = x
            BY <1>4, <4>1, <4>2 DEF Need, Held
      <4>3. CASE e # x /\ e \in reserved
        <5>1. need[e] <= TotalMaxCost
              BY <1>4, <4>1 DEF Need, Held
        <5>2. promised[e] >= TotalMaxCost /\ promised[e] \in Nat
              BY <1>3, <2>7, <4>3
        <5>3. most[e] = promised[e]
          <6>1. e \in read => most[e] = promised[e]
                BY <4>3
          <6>2. e \notin read => promised[e] = 0
                BY <2>3, <4>3, <5>2 DEF Reserving
          <6>3. e \notin read => most[e] = 0
                BY <4>3
          <6>q. QED
                BY <6>1, <6>2, <6>3
        <5>q. QED
              BY <1>4, <3>1, <5>1, <5>2, <5>3
      <4>4. CASE e # x /\ e \notin reserved
        <5>1. need[e] = 0
              BY <1>3, <2>2, <2>5, <4>4 DEF Need, Held
        <5>2. most[e] = 0 \/ most[e] = promised[e]
              BY <4>4
        <5>q. QED
              BY <2>7, <5>1, <5>2
      <4>q. QED
            BY <4>2, <4>3, <4>4
    <3>3. AllNeeded' = SumFunction(need) /\ AmountReserved(x, read) = SumFunction(sum)
          BY DEF AllNeeded, AmountReserved
    <3>4. /\ \A e \in Executions \ {x} : sum[e] = most[e]
          /\ sum[x] = 0 /\ most[x] = TotalMaxCost
          OBVIOUS
    <3> HIDE DEF need, sum, most
    <3>5. SumFunction(need) <= SumFunction(most)
          BY <3>1, <3>2, ExecutionsAssumption, SumMonotone
    <3>6. SumFunction(most) = SumFunction(sum) + most[x] - sum[x]
          BY <3>1, <3>4, ExecutionsAssumption, SumChange
    <3>7. SumFunction(need) \in Int /\ SumFunction(sum) \in Int
          BY <3>1, ExecutionsAssumption, SumType
    <3>q. QED
          BY <1>4, <3>3, <3>4, <3>5, <3>6, <3>7
  <2>10. balance' >= Asked(Debt') + AllNeeded'
    <3>1. balance' >= AmountReserved(x, read) + TotalMaxCost
          BY <2>1, <2>2
    <3>q. QED
          BY <1>4, <2>4, <2>9, <3>1
  <2>q. QED
        BY <1>3, <2>2, <2>5, <2>6, <2>8, <2>10
<1>15. ASSUME NEW x \in Executions, Release(x)
       PROVE  Good
  <2>1. /\ rows[x] # NoRow /\ cost[x] # Unmined /\ reserved' = reserved \ {x}
        /\ promised' = [promised EXCEPT ![x] = 0]
        /\ UNCHANGED <<rows, cost, balance, lock, pc, job, debt18, debt0>>
        BY <1>1, <1>15 DEF Release, RowsPriced, chain, debts
  <2>2. \A e \in Executions : (Sent(e)' <=> Sent(e)) /\ promised \in [Executions -> Nat]
        BY <1>1, <2>1 DEF Sent, TypeOK
  <2>3. Debt' = Debt /\ AllHeld' = AllHeld
        BY <2>1, <2>2 DEF Debt, AllHeld, Held
  <2>4. AllNeeded' = AllNeeded
    <3>1. \A e \in Executions : Need(e)' = Need(e)
          BY <2>1, <2>2 DEF Need, Held, Sent, TotalMaxCost, Fees
    <3>q. QED
          BY <3>1 DEF AllNeeded
  <2>5. \A e \in Executions : pc[e] = "store" => e # x
        BY <1>1, <2>1 DEF RequestsOwn
  <2>6. \A e \in Executions \ {x} : promised'[e] = promised[e]
        BY <2>1, <2>2
  <2>q. QED
        BY <1>3, <2>1, <2>2, <2>3, <2>4, <2>5, <2>6
<1>16. ~Expire
  <2>1. Expire => uncovered'
        BY DEF Expire, Unlock
  <2>q. QED
        BY <2>1 DEF Quiet
<1>17. ASSUME \/ \E p \in Runs : ReadPending(p) \/ GetTransactionStatus(p) \/ GiveUp(p)
              \/ Deposit
              \/ UNCHANGED vars
       PROVE  Good
  <2>1. /\ \A e \in Executions : pc'[e] = pc[e] /\ job'[e] = job[e]
        /\ \A o \in Procs : pc'[o] = "store" => pc[o] = "store"
        /\ UNCHANGED <<rows, cost, lock, reserved, promised, debt18, debt0>>
        /\ balance' >= balance
    <3>1. CASE \E p \in Runs : ReadPending(p) \/ GetTransactionStatus(p) \/ GiveUp(p)
          BY <1>1, <1>4, <3>1, NamesAssumption DEF ReadPending, GetTransactionStatus, GiveUp, Goto,
             Leave, TypeOK, debts, chain, reserve, Procs
    <3>2. CASE Deposit
          BY <1>1, <1>4, <3>2, AmountsAssumption DEF Deposit, debts, reserve
    <3>3. CASE UNCHANGED vars
          BY <1>4, <3>3 DEF vars, debts, chain, reserve
    <3>q. QED
          BY <1>17, <3>1, <3>2, <3>3
  <2>2. Debt' = Debt /\ \A e \in Executions : Sent(e)' <=> Sent(e)
        BY <2>1 DEF Debt, Sent
  <2>q. QED
        BY <1>3, <1>4, <1>7, <2>1, <2>2
<1>q. QED
      BY <1>8, <1>9, <1>10, <1>11, <1>12, <1>13, <1>14, <1>15, <1>16, <1>17 DEF Next

(* What the client tells the owner to hold is enough, for any number of       *)
(* executions and of overlapping runs, any costs, promises and fees: no       *)
(* scheduled execution is refused for its balance as long as the client's sum *)
(* covers all (uncovered), unless a transaction was sent again or help was    *)
(* given.                                                                     *)
THEOREM ReserveAlwaysSuffices == Spec => []ReserveSuffices
<1>1. SolventInv /\ [Next]_vars => SolventInv'
      BY FollowInvNext, SolventNext, ReserveSufficesNext DEF SolventInv
<1>2. SolventInv => ReserveSuffices
      BY DEF SolventInv
<1>q. QED
      BY <1>1, <1>2, SolventInvInit, PTL DEF Spec
=============================================================================
