------------------------------ MODULE DebtLedger ------------------------------
(* What a broadcaster owes the service: the columns debt_18 and debt_0 of its *)
(* row in Broadcasters, which stand for debt_18 * 10^18 + debt_0.  A fee is   *)
(* added to them with every submission and corrected when the execution is    *)
(* final (executor.ts, RemoteSQLExecutorStorage.ts).  One broadcaster; each   *)
(* execution is asked for by one request, which may be refused and come       *)
(* again, and runs of processPendingTransactions, which may overlap, resubmit *)
(* and finalize them.  Its owner may schedule an execution first, when the    *)
(* account holds what the client says it has to.                              *)
EXTENDS Integers, FiniteSets, Functions

CONSTANTS
    Executions,  \* executions of the broadcaster, and the requests for them
    Runs,        \* processes that run processPendingTransactions
    Base,        \* 10^18
    Fixed,       \* fees.fixed
    Rate,        \* fees.per_1_000_000
    MaxCost,     \* computeMaxCostAuthorized of every execution
    Costs,       \* what a mined transaction may cost
    Helps,       \* what the payment account may send at a time
    MaxHelp,     \* bound on what it sends for an execution
    Balances,    \* balances the account may have
    Promises,    \* paymentReserve a submission may come with, 0 for none
    ReadLimit,   \* rows that the reserve of a broadcaster is summed over
    MaxAgain,    \* bound on the resubmissions
    MaxFaults,   \* bound on database errors
    NoLock,      \* SQL NULL
    NoRow,       \* an absent row
    NoJob        \* nothing to work on

Procs == Executions \cup Runs

Row == [assigned : Nat, helped : Nat, final : BOOLEAN]

ASSUME NamesAssumption ==
       NoLock \notin Procs /\ NoRow \notin Row /\ Executions \cap Runs = {}
ASSUME ExecutionsAssumption == IsFiniteSet(Executions)
ASSUME BaseAssumption == Base \in Nat \ {0}
ASSUME AmountsAssumption ==
       /\ Fixed \in Nat /\ Rate \in Nat /\ MaxCost \in Nat
       /\ Costs \subseteq 0..MaxCost /\ Helps \subseteq Nat \ {0}
       /\ MaxHelp \in Nat /\ Balances \subseteq Nat
       /\ Promises \subseteq Nat /\ ReadLimit \in Nat
       /\ MaxAgain \in Nat /\ MaxFaults \in Nat

VARIABLES
    debt18, debt0,  \* the columns of the broadcaster
    rows,           \* BroadcastedExecutions: what matters to debts
    cost,           \* cost getTransactionStatus reports once it is final
    balance,        \* balance of the broadcaster on the chain
    lock,           \* Broadcasters.lock
    pc,             \* where each process is
    job,            \* what it works on, as it was read
    again,          \* history: number of resubmissions stored
    clamped,        \* history: whether a column was cut at 0
    faults,         \* number of database errors so far
    uncounted,      \* history: stored by the second store only, without a fee
    raced,          \* history: a run has paid or settled for a row that had
                    \* changed since it read it
    reserved,       \* scheduled executions the scheduler has not finalized
    promised,       \* their paymentReserve
    uncovered,      \* history: what the client has summed up may not cover all
    refused         \* history: a scheduled execution found too low a balance
                    \* while that sum did cover all

debts == <<debt18, debt0, clamped, uncounted, raced>>
chain == <<cost, balance>>
reserve == <<reserved, promised, uncovered, refused>>
vars == <<debts, rows, chain, lock, pc, job, again, faults, reserve>>

Unmined == -1
Debt == debt18 * Base + debt0

TypeOK ==
    /\ debt18 \in Nat /\ debt0 \in Nat /\ clamped \in BOOLEAN
    /\ uncounted \subseteq Executions /\ raced \in BOOLEAN
    /\ rows \in [Executions -> Row \cup {NoRow}]
    /\ cost \in [Executions -> Costs \cup {0, Unmined}]
    /\ balance \in Nat
    /\ lock \in Procs \cup {NoLock}
    /\ pc \in [Procs -> {"idle", "status", "resubmit", "helped", "store",
                      "broadcast", "finalise", "done"}]
    /\ job \in [Procs -> [of : Executions, row : Row \cup {NoRow}, debt : Nat]
                              \cup {NoJob}]
    /\ again \in Nat /\ faults \in 0..MaxFaults
    /\ reserved \subseteq Executions /\ promised \in [Executions -> Nat]
    /\ uncovered \in BOOLEAN /\ refused \in BOOLEAN

Init ==
    /\ debt18 = 0 /\ debt0 = 0 /\ clamped = FALSE
    /\ uncounted = {} /\ raced = FALSE
    /\ rows = [e \in Executions |-> NoRow]
    /\ cost = [e \in Executions |-> Unmined]
    /\ balance \in Balances
    /\ lock = NoLock
    /\ pc = [p \in Procs |-> "idle"]
    /\ job = [p \in Procs |-> NoJob]
    /\ again = 0 /\ faults = 0
    /\ reserved = {} /\ promised = [e \in Executions |-> 0]
    /\ uncovered = FALSE /\ refused = FALSE

-----------------------------------------------------------------------------
(* Arithmetic.                                                                *)

(* computeFees.                                                               *)
Fees(maxCost) ==
    IF Fixed = 0 /\ Rate = 0 THEN 0 ELSE Fixed + (maxCost * Rate) \div 1000000

(* Mutant: division of an offset rounds down.                                 *)
QuotientDown(x) == x \div Base

(* Division of BigInt rounds towards zero, and the remainder has the sign of  *)
(* the dividend.                                                              *)
Quotient(x) == IF x >= 0 THEN x \div Base ELSE -((-x) \div Base)
Remainder(x) == IF x >= 0 THEN x % Base ELSE -((-x) % Base)

(* MAX(0, x).  Mutant: the column is left negative.                           *)
Uncut(x) == x

Cut(x) == IF x < 0 THEN 0 ELSE x

(* The update of the debt in createOrUpdatePendingExecution.                  *)
AddDebt(offset) ==
    LET d18 == debt18 + Quotient(offset)
        d0 == debt0 + Remainder(offset)
    IN /\ debt18' = Cut(d18)
       /\ debt0' = Cut(d0)
       /\ clamped' = (clamped \/ d18 < 0 \/ d0 < 0)

(* Help that the transaction did not need, added to the debt.                 *)
Excess(helped, paid) == IF helped > 0 /\ helped >= paid THEN helped - paid ELSE 0

(* debtOffset of a finalization, from the row as the run has read it.         *)
(* Mutant: the fee on what was authorized is kept.                            *)
ExcessAlone(row, paid) == Excess(row.helped, paid)

Settlement(row, paid) ==
    (IF Fees(paid) < row.assigned THEN Fees(paid) - row.assigned ELSE 0)
      + Excess(row.helped, paid)

-----------------------------------------------------------------------------
(* The owner.                                                                 *)

(* computeTotalMaxCost of the client. *)
TotalMaxCost == MaxCost + Fees(MaxCost)

(* The scheduled executions that the query for a broadcaster selects: a row   *)
(* has a broadcaster only with a paymentReserve.                              *)
Reserving == {e \in reserved : promised[e] > 0}

(* What the service says is reserved for the other executions, summed over    *)
(* the rows it has read.  Mutant: for this one.                               *)
ReservedForSlot(e, read) ==
    SumFunction([x \in Executions |-> IF x \in read \cap {e} THEN promised[x] ELSE 0])

AmountReserved(e, read) ==
    SumFunction([x \in Executions |-> IF x \in read \ {e} THEN promised[x] ELSE 0])

(* computeBalanceRequired, of the ReadLimit rows that come first; the owner   *)
(* schedules one execution after the other, each with the paymentReserve that *)
(* it likes.                                                                  *)
ScheduleExecution(e) ==
    /\ pc[e] = "idle" /\ e \notin reserved
    /\ \E read \in SUBSET Reserving, amount \in Promises :
         /\ read = Reserving \/ Cardinality(read) = ReadLimit
         /\ Cardinality(read) <= ReadLimit
         /\ balance >= AmountReserved(e, read) + TotalMaxCost
         /\ promised' = [promised EXCEPT ![e] = amount]
         /\ uncovered' = \/ uncovered \/ Debt > 0
                         \/ read # Reserving \/ amount < TotalMaxCost
    /\ reserved' = reserved \cup {e}
    /\ UNCHANGED <<debts, rows, chain, lock, pc, job, again, faults, refused>>

(* The scheduler has found it finalized. *)
Release(e) ==
    /\ e \in reserved /\ rows[e] # NoRow /\ rows[e].final
    /\ reserved' = reserved \ {e}
    /\ promised' = [promised EXCEPT ![e] = 0]
    /\ UNCHANGED <<debts, rows, chain, lock, pc, job, again, faults, uncovered, refused>>

-----------------------------------------------------------------------------
Fault == faults < MaxFaults /\ faults' = faults + 1

Goto(p, label) == pc' = [pc EXCEPT ![p] = label] /\ UNCHANGED job

(* A run goes on with the next row, a request ends. *)
Leave(p, end) ==
    /\ pc' = [pc EXCEPT ![p] = IF p \in Executions THEN end ELSE "idle"]
    /\ job' = [job EXCEPT ![p] = NoJob]

(* Unlocking is of whoever holds the lock, and expiry of whoever is slow: the *)
(* balance that the holder will look at is then not that of its debt.         *)
Unlock(p) == lock' = NoLock /\ uncovered' = (uncovered \/ lock \notin {p, NoLock})

Expire ==
    /\ lock # NoLock
    /\ Unlock(NoLock)
    /\ UNCHANGED <<debts, rows, chain, pc, job, again, faults, reserved, promised, refused>>

(* The balance checks of _submitTransaction, with the debt read at the lock.  *)
Affordable(debt) ==
    LET fees == Fees(MaxCost) IN
    balance >= MaxCost + fees + (IF fees > 0 THEN debt ELSE 0)

(* lockBroadcaster returns the row with its debt.                             *)
LockBroadcaster(p) ==
    /\ \/ p \in Executions /\ pc[p] = "idle"
       \/ p \in Runs /\ pc[p] \in {"resubmit", "helped"} /\ again < MaxAgain
    /\ lock = NoLock
    /\ lock' = p
    /\ pc' = [pc EXCEPT ![p] = "store"]
    /\ job' = [job EXCEPT ![p] =
                 IF p \in Executions THEN [of |-> p, row |-> NoRow, debt |-> Debt]
                                     ELSE [@ EXCEPT !.debt = Debt]]
    /\ uncovered' = (uncovered \/ p \in Executions \ reserved)
    /\ UNCHANGED <<debts, rows, chain, again, faults, reserved, promised, refused>>

(* The upsert leaves helpedForUpToGasPrice, and a finalized row, alone.       *)
Upsert(e, assigned, final) ==
    rows' = [rows EXCEPT ![e] =
        IF @ = NoRow THEN [assigned |-> assigned, helped |-> 0, final |-> final]
        ELSE IF @.final THEN @
        ELSE [@ EXCEPT !.assigned = assigned, !.final = final]]

(* The row as it was read, and the debt, have served. *)
Stored(p) ==
    /\ pc' = [pc EXCEPT ![p] = "broadcast"]
    /\ job' = [job EXCEPT ![p] = [of |-> @.of, row |-> NoRow, debt |-> 0]]

(* _submitTransaction from the balance on: it throws, or stores with the fee  *)
(* of the execution as debtOffset, whether it is stored already or not.  The  *)
(* batch is all or nothing; that the lock is another's and an error of the    *)
(* database are swallowed, and the lock is given up in any case.              *)
StoreExecution(p) ==
    /\ pc[p] = "store"
    /\ \/ /\ ~Affordable(job[p].debt)
          /\ refused' = (refused \/ (p \in reserved /\ ~uncovered))
          /\ Leave(p, "idle")
          /\ UNCHANGED <<rows, debts, again, faults>>
       \/ /\ Affordable(job[p].debt) /\ lock = p
          /\ Upsert(job[p].of, Fees(MaxCost), FALSE)
          /\ AddDebt(Fees(MaxCost))
          /\ again' = IF p \in Runs THEN again + 1 ELSE again
          /\ Stored(p)
          /\ UNCHANGED <<faults, refused, uncounted, raced>>
       \/ /\ Affordable(job[p].debt)
          /\ IF lock = p THEN Fault ELSE UNCHANGED faults
          /\ Stored(p)
          /\ UNCHANGED <<rows, debts, again, refused>>
    /\ Unlock(p)
    /\ UNCHANGED <<chain, reserved, promised>>

(* The broadcast is accepted, or fails twice: then the row is stored once     *)
(* more, without debtOffset and with no look at the lock, which the finally   *)
(* clause clears.  When this store is swallowed as well, nothing is stored.   *)
Broadcast(p) ==
    /\ pc[p] = "broadcast"
    /\ \/ UNCHANGED <<rows, uncounted>>
       \/ /\ Upsert(job[p].of, Fees(MaxCost), FALSE)
          /\ uncounted' = uncounted \cup {e \in {job[p].of} : rows[e] = NoRow}
    /\ Leave(p, "done")
    /\ Unlock(p)
    /\ UNCHANGED <<debt18, debt0, clamped, raced, chain, again, faults,
                   reserved, promised, refused>>

(* getPendingExecutions.                                                      *)
ReadPending(p) ==
    /\ p \in Runs /\ pc[p] = "idle"
    /\ \E e \in Executions :
         /\ rows[e] # NoRow /\ ~rows[e].final
         /\ job' = [job EXCEPT ![p] = [of |-> e, row |-> rows[e], debt |-> 0]]
    /\ pc' = [pc EXCEPT ![p] = "status"]
    /\ UNCHANGED <<debts, rows, chain, lock, again, faults, reserve>>

(* getTransactionStatus: final, to be resubmitted, or nothing to do.          *)
GetTransactionStatus(p) ==
    /\ pc[p] = "status"
    /\ IF cost[job[p].of] # Unmined
       THEN Goto(p, "finalise")
       ELSE Goto(p, "resubmit") \/ Leave(p, "done")
    /\ UNCHANGED <<debts, rows, chain, lock, again, faults, reserve>>

(* _resubmitIfNeeded pays for a higher gas price: the batch that stores the   *)
(* payment, an execution of the payment account, records all help so far, of  *)
(* the row as it was read.                                                    *)
Changed(p) == rows[job[p].of] # job[p].row

Help(p) ==
    /\ p \in Runs /\ pc[p] = "resubmit"
    /\ raced' = (raced \/ Changed(p))
    /\ \E value \in Helps :
         /\ job[p].row.helped + value <= MaxHelp
         /\ rows' = [rows EXCEPT ![job[p].of].helped = job[p].row.helped + value]
    /\ Goto(p, "helped")
    /\ UNCHANGED <<debt18, debt0, clamped, uncounted, chain, lock, again, faults, reserve>>

(* The node still has the transaction, or a call to it fails.                 *)
GiveUp(p) ==
    /\ p \in Runs /\ pc[p] \in {"resubmit", "helped"}
    /\ Leave(p, "done")
    /\ UNCHANGED <<debts, rows, chain, lock, again, faults, reserve>>

(* __processPendingTransaction of a transaction that is final.                *)
Finalise(p) ==
    /\ pc[p] = "finalise"
    /\ LET e == job[p].of IN
       \/ /\ Upsert(e, job[p].row.assigned, TRUE)
          /\ AddDebt(Settlement(job[p].row, cost[e]))
          /\ raced' = (raced \/ Changed(p))
          /\ UNCHANGED <<faults, uncounted>>
       \/ Fault /\ UNCHANGED <<rows, debts>>
    /\ Leave(p, "done")
    /\ UNCHANGED <<chain, lock, again, reserve>>

-----------------------------------------------------------------------------
(* What the network may have: what is stored, and what was broadcast without. *)
Sent(e) == rows[e] # NoRow \/ pc[e] \in {"broadcast", "done"}

(* The nonce of an execution is used and final.  The cost of a transaction    *)
(* that replaced it is reported as 0.                                         *)
Mine(e) ==
    /\ Sent(e) /\ cost[e] = Unmined
    /\ \E paid \in Costs :
         /\ paid <= balance
         /\ balance' = balance - paid
         /\ \E reported \in {0, paid} : cost' = [cost EXCEPT ![e] = reported]
    /\ UNCHANGED <<debts, rows, lock, pc, job, again, faults, reserve>>

(* The account is given more: by its user, or by the payment account.         *)
Deposit ==
    /\ \E b \in Balances : b > balance /\ balance' = b
    /\ UNCHANGED <<debts, rows, cost, lock, pc, job, again, faults, reserve>>

Next ==
    \/ \E p \in Procs : LockBroadcaster(p) \/ StoreExecution(p) \/ Broadcast(p)
    \/ \E p \in Runs : \/ ReadPending(p) \/ GetTransactionStatus(p) \/ Help(p)
                       \/ GiveUp(p) \/ Finalise(p)
    \/ \E e \in Executions : ScheduleExecution(e) \/ Release(e) \/ Mine(e)
    \/ Expire \/ Deposit

Spec == Init /\ [][Next]_vars

-----------------------------------------------------------------------------
(* Properties.                                                                *)

(* What an execution adds to the debt: the fee assigned to it and, when it is *)
(* final, no more than the fee on its cost, and the help it did not need.     *)
OwedFor(e) ==
    LET smaller(x, y) == IF x < y THEN x ELSE y
        unused == rows[e].helped - cost[e]
    IN IF rows[e] = NoRow THEN 0
       ELSE IF ~rows[e].final THEN rows[e].assigned
       ELSE smaller(rows[e].assigned, Fees(cost[e]))
              + (IF unused > 0 THEN unused ELSE 0)

Owed == SumFunction([e \in Executions |-> OwedFor(e)])

(* The columns never stand for less than what is owed, whatever is            *)
(* resubmitted, helped, cut at 0, fails to be written or overlaps, apart from *)
(* the fees of executions that only the second store has stored; unless a run *)
(* has paid or settled for a row that had changed since it read it.           *)
DebtCovers == ~raced => Debt + Cardinality(uncounted) * Fees(MaxCost) >= Owed

(* They stand for exactly what is owed, with the same two exceptions, as long *)
(* as no execution was submitted again and no column was cut at 0.            *)
DebtExact ==
    ~raced /\ again = 0 /\ ~clamped
        => Debt + Cardinality(uncounted) * Fees(MaxCost) = Owed

(* An account that holds what the client computes whenever something is       *)
(* scheduled is never refused for its balance: what is spent and owed for one *)
(* execution never eats up what is reserved for another.  That needs          *)
(* everything to be scheduled, at a time without debt, each with a            *)
(* paymentReserve of what it may cost and with no more of them than the       *)
(* service reads, and no lock to be lost (uncovered); and no transaction to   *)
(* be sent again and no help to be given.                                     *)
ReserveSuffices ==
    refused => \/ again > 0
               \/ \E e \in Executions : rows[e] # NoRow /\ rows[e].helped > 0
=============================================================================
