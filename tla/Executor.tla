------------------------------- MODULE Executor -------------------------------
(* The executor (executor.ts) for one broadcaster: requests that broadcast    *)
(* new executions, runs of processPendingTransactions that follow the stored  *)
(* ones, the table BroadcastedExecutions and the chain they send to.  All     *)
(* processes interleave at the awaits that matter to the executions; the      *)
(* statements on the lock are single steps here, BroadcasterLock splits them. *)
EXTENDS Integers, Sequences, FiniteSets

CONSTANTS
    Slots,      \* (account, chainId, slot, batchIndex): one execution each
    Requests,   \* invocations of broadcastExecution
    Runs,       \* processes that run processPendingTransactions again and again
    MaxFee,     \* fees are in 1..MaxFee
    MaxFaults,  \* bound on crashes, errors, lost transactions and slow holders
    Limit,      \* maxNumTransactionsToProcessInOneGo
    NoLock,     \* SQL NULL
    NoRow,      \* an absent row
    NoJob       \* nothing to work on

Procs == Requests \cup Runs
Fees == 1..MaxFee

ASSUME ProcessesAssumption == NoLock \notin Procs /\ Requests \cap Runs = {}
ASSUME BoundsAssumption ==
       /\ MaxFee \in Nat /\ MaxFaults \in Nat /\ Limit \in Nat

(* What is signed.  Equal fields give an equal hash. *)
Tx == [slot : Slots, nonce : Nat, fee : Fees, void : BOOLEAN]
(* A row of BroadcastedExecutions: the last transaction signed for the        *)
(* execution, and how it ended ("no": finalized = FALSE).                     *)
Endings == {"no", "success", "FAILED", "REPLACED"}
Row == [tx : Tx, final : Endings]

VARIABLES
    rows,       \* BroadcastedExecutions
    nextNonce,  \* Broadcasters.nextNonce
    lock,       \* Broadcasters.lock
    expired,    \* whether the lock is older than LOCK_EXPIRY_SECONDS
    pool,       \* transactions the node holds
    mined,      \* transactions included, by nonce, and whether they succeeded
    finality,   \* number of them that expectedFinality blocks cover
    pc,         \* where each process is
    job,        \* the execution a process works on, as it read or signed it
    todo,       \* rows a run has read and not looked at yet
    faults,     \* number of faults so far
    skipped,    \* history: slots broadcast without having been stored
    contested,  \* history: slots that two requests have prepared together
    given       \* history: nonces stored with updateNonceIfNeeded, and for which slot

broadcasterRow == <<nextNonce, lock, expired>>
chain == <<pool, mined, finality>>
local == <<pc, job, todo>>
history == <<skipped, contested, given>>
vars == <<rows, broadcasterRow, chain, local, faults, history>>

PCs == {"idle", "acquire", "locked", "broadcast", "unlock", "done",
        "status", "finalise", "resubmit"}

Jobs == [tx : Tx, final : Endings, fresh : BOOLEAN]

ASSUME NullsAssumption == NoRow \notin Row /\ NoJob \notin Jobs

TypeOK ==
    /\ rows \in [Slots -> Row \cup {NoRow}]
    /\ nextNonce \in Nat
    /\ lock \in Procs \cup {NoLock}
    /\ expired \in BOOLEAN
    /\ pool \subseteq Tx
    /\ mined \in Seq([tx : Tx, ok : BOOLEAN])
    /\ finality \in 0..Len(mined)
    /\ pc \in [Procs -> PCs]
    /\ \A p \in Procs : pc[p] \notin {"idle", "done", "unlock"} => job[p] \in Jobs
    /\ \A p \in Procs : todo[p] \subseteq Row
    /\ faults \in 0..MaxFaults
    /\ skipped \subseteq Slots /\ contested \subseteq Slots
    /\ given \subseteq [slot : Slots, nonce : Nat]

Init ==
    /\ rows = [s \in Slots |-> NoRow]
    /\ nextNonce = 0 /\ lock = NoLock /\ expired = FALSE
    /\ pool = {} /\ mined = <<>> /\ finality = 0
    /\ pc = [p \in Procs |-> "idle"]
    /\ job = [p \in Procs |-> NoJob]
    /\ todo = [p \in Procs |-> {}]
    /\ faults = 0
    /\ skipped = {} /\ contested = {} /\ given = {}

-----------------------------------------------------------------------------
(* getNonce: the number of transactions in the latest block. *)
netNonce == Len(mined)

Included(tx) == \E i \in 1..netNonce : mined[i].tx = tx

(* isTransactionPending, when the node answers. *)
IsTransactionPending(tx) == tx \in pool \/ Included(tx)

Fault == faults < MaxFaults /\ faults' = faults + 1

(* Mutants: an ending is written without the transaction it is of, and a      *)
(* finalized row is overwritten.                                              *)
UpsertEnding(tx, final) ==
    rows' = [rows EXCEPT ![tx.slot] =
                [tx |-> IF @ = NoRow \/ final = "no" THEN tx ELSE @.tx, final |-> final]]
UpsertAlways(tx, final) == rows' = [rows EXCEPT ![tx.slot] = [tx |-> tx, final |-> final]]

(* The upsert of createOrUpdatePendingExecution: a finalized row stays. *)
Upsert(tx, final) ==
    rows' = [rows EXCEPT ![tx.slot] =
                IF @ # NoRow /\ @.final # "no" THEN @ ELSE [tx |-> tx, final |-> final]]

FreeLock == lock' = NoLock /\ expired' = FALSE

(* Where a process goes when it has dealt with its job: a run goes on with    *)
(* its next row, a request returns or throws.                                 *)
Leave(p) ==
    /\ job' = [job EXCEPT ![p] = NoJob]
    /\ pc' = [pc EXCEPT ![p] = IF p \in Requests THEN "done" ELSE "idle"]

Goto(p, label) == pc' = [pc EXCEPT ![p] = label] /\ UNCHANGED job

-----------------------------------------------------------------------------
(* getPendingExecution.  Mutant: only once it is finalized.                   *)
AlreadyFinal(s) == rows[s] # NoRow /\ rows[s].final # "no"

AlreadyStored(s) == rows[s] # NoRow

(* A request for s that has not been answered yet has passed that check. *)
Preparing(s) == \E o \in Requests : job[o] # NoJob /\ job[o].tx.slot = s

(* broadcastExecution: a slot that is stored is answered with slotAlreadyUsed *)
(* and nothing else; otherwise a transaction is prepared.  Each request is    *)
(* for one slot; the scheduler and the api may ask again for the same one,    *)
(* also before the row of the first is written.                               *)
BroadcastExecution(q, s, fee) ==
    /\ pc[q] = "idle"
    /\ IF AlreadyStored(s)
       THEN Leave(q) /\ UNCHANGED contested
       ELSE /\ pc' = [pc EXCEPT ![q] = "acquire"]
            /\ job' = [job EXCEPT ![q] =
                 [tx |-> [slot |-> s, nonce |-> 0, fee |-> fee, void |-> FALSE],
                  final |-> "no", fresh |-> TRUE]]
            /\ contested' = contested \cup IF Preparing(s) THEN {s} ELSE {}
    /\ UNCHANGED <<rows, broadcasterRow, chain, todo, faults, skipped, given>>

(* nextNonce for a new execution, its own for a stored one.  Mutants: the     *)
(* nonce before it, and a new nonce for a stored one.                         *)
LastNonce(p) == nextNonce - 1
NewNonce(p) == nextNonce

ChosenNonce(p) == IF job[p].fresh THEN nextNonce ELSE job[p].tx.nonce

(* _acquireBroadcaster, and the choice of the nonce. *)
Acquire(p) ==
    /\ pc[p] = "acquire"
    /\ IF lock = NoLock \/ expired
       THEN /\ lock' = p /\ expired' = FALSE
            /\ pc' = [pc EXCEPT ![p] =
                 IF job[p].fresh /\ netNonce > nextNonce THEN "unlock" ELSE "locked"]
            /\ job' = [job EXCEPT ![p].tx.nonce = ChosenNonce(p)]
       ELSE Leave(p) /\ UNCHANGED <<lock, expired>>
    /\ UNCHANGED <<rows, nextNonce, chain, todo, faults, history>>

(* The simulation finds that a new execution reverts or lacks gas, or a call  *)
(* to the node throws: nothing is stored.                                     *)
Abandon(p) ==
    /\ pc[p] = "locked"
    /\ IF job[p].fresh THEN UNCHANGED faults ELSE Fault
    /\ Goto(p, "unlock")
    /\ UNCHANGED <<rows, broadcasterRow, chain, todo, history>>

(* The balance is below the cost authorized, the fees and the debt, to which  *)
(* a stored execution has added its own: nothing is stored, nor at any later  *)
(* attempt until the broadcaster has more.  Nothing has to go wrong for it.   *)
Refuse(p) ==
    /\ pc[p] = "locked"
    /\ Goto(p, "unlock")
    /\ UNCHANGED faults
    /\ UNCHANGED <<rows, broadcasterRow, chain, todo, history>>

(* MAX(nextNonce, nonce + 1).  Mutant: one too low. *)
AfterStoreLow(n) == IF n > nextNonce THEN n ELSE nextNonce

AfterStore(n) == IF n >= nextNonce THEN n + 1 ELSE nextNonce

(* checkValidity.  A simulation that fails counts as a revert whatever the    *)
(* error: indexOf of its message is not 0, so that "unknown" is left for      *)
(* errors that are invalid requests or whose message starts with "revert".    *)
Validity == {"valid", "reverts", "lacks gas", "unknown"}
Goes(validity) == validity \in {"valid", "unknown"}

SignTransaction(tx) == tx
SignVoidTransaction(tx) == [tx EXCEPT !.void = TRUE]

(* Signing and createOrUpdatePendingExecution.  A stored execution that       *)
(* would revert now, or that has expired, is signed as a void transaction;    *)
(* a new one is given up.  When the lock is not the one of p, or the database *)
(* fails, the error is swallowed after unlocking.                             *)
Store(p) ==
    /\ pc[p] = "locked"
    /\ \E validity \in Validity :
         LET tx == IF Goes(validity) /\ ~job[p].tx.void THEN SignTransaction(job[p].tx)
                                                      ELSE SignVoidTransaction(job[p].tx)
         IN
           /\ job[p].fresh => Goes(validity)
           /\ job' = [job EXCEPT ![p].tx = tx]
           /\ \/ /\ lock = p
                 /\ Upsert(tx, "no")
                 /\ nextNonce' = AfterStore(tx.nonce)
                 /\ given' = given \cup {[slot |-> tx.slot, nonce |-> tx.nonce]}
                 /\ UNCHANGED <<faults, skipped>>
              \/ /\ IF lock = p THEN Fault ELSE UNCHANGED faults
                 /\ skipped' = skipped \cup {tx.slot}
                 /\ UNCHANGED <<rows, nextNonce, given>>
    /\ FreeLock
    /\ pc' = [pc EXCEPT ![p] = "broadcast"]
    /\ UNCHANGED <<chain, todo, contested>>

(* A node keeps one transaction per nonce, the one with the highest fee. *)
Accepts(tx) ==
    /\ tx.nonce >= netNonce
    /\ \A other \in pool : other.nonce = tx.nonce => other.fee < tx.fee

(* broadcastSignedTransaction.  After two failures, even of a transaction the *)
(* node has taken, the execution is stored once more, for its lastError.      *)
Broadcast(p) ==
    /\ pc[p] = "broadcast"
    /\ LET tx == job[p].tx
           taken == {other \in pool : other.nonce # tx.nonce} \cup {tx}
       IN \/ /\ Accepts(tx)
             /\ pool' = taken
             /\ UNCHANGED <<rows, faults>>
          \/ /\ Upsert(tx, "no")
             /\ IF Accepts(tx) THEN Fault /\ pool' \in {pool, taken}
                               ELSE UNCHANGED <<pool, faults>>
    /\ Goto(p, "unlock")
    /\ UNCHANGED <<broadcasterRow, mined, finality, todo, history>>

(* The finally clause of _submitTransaction, whoever has the lock. *)
Unlock(p) ==
    /\ pc[p] = "unlock"
    /\ FreeLock
    /\ Leave(p)
    /\ UNCHANGED <<rows, nextNonce, chain, todo, faults, history>>

-----------------------------------------------------------------------------
Pending == {s \in Slots : rows[s] # NoRow /\ rows[s].final = "no"}

(* processPendingTransactions reads the unfinished rows, as many as its limit *)
(* allows; which ones depends on times that are not modelled.  It takes them  *)
(* one after the other as it read them.                                       *)
ReadPending(p) ==
    /\ p \in Runs /\ pc[p] = "idle" /\ todo[p] = {}
    /\ \E read \in SUBSET Pending :
         /\ read # {}
         /\ read = Pending \/ Cardinality(read) = Limit
         /\ Cardinality(read) <= Limit
         /\ todo' = [todo EXCEPT ![p] = {rows[s] : s \in read}]
    /\ UNCHANGED <<rows, broadcasterRow, chain, pc, job, faults, history>>

NextPending(p) ==
    /\ p \in Runs /\ pc[p] = "idle"
    /\ \E row \in todo[p] :
         /\ todo' = [todo EXCEPT ![p] = @ \ {row}]
         /\ job' = [job EXCEPT ![p] = [tx |-> row.tx, final |-> "no", fresh |-> FALSE]]
         /\ pc' = [pc EXCEPT ![p] = "status"]
    /\ UNCHANGED <<rows, broadcasterRow, chain, faults, history>>

(* getTransactionStatus: the receipt of this very transaction; without one,   *)
(* whether the final transaction count is beyond its nonce.                   *)
Ending(tx) ==
    IF Included(tx)
    THEN IF tx.nonce < finality
         THEN IF mined[tx.nonce + 1].ok THEN "success" ELSE "FAILED"
         ELSE "pending"
    ELSE IF tx.nonce < finality THEN "REPLACED" ELSE "unknown"

(* __processPendingTransaction up to its first write.  An error of the node   *)
(* is caught, and the run goes on with its next row.                          *)
Status(p) ==
    /\ pc[p] = "status"
    /\ LET ending == Ending(job[p].tx) IN
         \/ /\ ending \in Endings
            /\ job' = [job EXCEPT ![p].final = ending]
            /\ pc' = [pc EXCEPT ![p] = "finalise"]
            /\ UNCHANGED faults
         \/ ending = "pending" /\ Leave(p) /\ UNCHANGED faults
         \/ ending = "unknown" /\ Goto(p, "resubmit") /\ UNCHANGED faults
         \/ Fault /\ Leave(p)
    /\ UNCHANGED <<rows, broadcasterRow, chain, todo, history>>

(* The row is written as it was read, with its ending; a failure of this      *)
(* write is swallowed too, and unlocks the broadcaster.                       *)
Finalise(p) ==
    /\ pc[p] = "finalise"
    /\ \/ Upsert(job[p].tx, job[p].final) /\ UNCHANGED <<lock, expired, faults>>
       \/ Fault /\ FreeLock /\ UNCHANGED rows
    /\ Leave(p)
    /\ UNCHANGED <<nextNonce, chain, todo, history>>

(* Nothing to do when the node still has the transaction and the fee is not   *)
(* higher.  Mutant: whether the node has it or not.                           *)
FeeIsEnough(tx, fee) == fee <= tx.fee

InGoodHands(tx, fee) == IsTransactionPending(tx) /\ fee <= tx.fee

(* _resubmitIfNeeded: with the fee of the moment, as a void transaction when  *)
(* the execution has expired.  An error of the node counts as no transaction. *)
Resubmit(p) ==
    /\ pc[p] = "resubmit"
    /\ \E fee \in Fees, void \in BOOLEAN :
         \/ InGoodHands(job[p].tx, fee) /\ Leave(p) /\ UNCHANGED faults
         \/ /\ IF InGoodHands(job[p].tx, fee) THEN Fault ELSE UNCHANGED faults
            /\ job' = [job EXCEPT ![p].tx.fee = fee, ![p].tx.void = void]
            /\ pc' = [pc EXCEPT ![p] = "acquire"]
    /\ UNCHANGED <<rows, broadcasterRow, chain, todo, history>>

-----------------------------------------------------------------------------
(* The platform, the network and time.                                        *)

(* The platform ends a process; a run starts again with nothing. *)
Crash(p) ==
    /\ pc[p] \notin {"idle", "done"}
    /\ Fault
    /\ Leave(p)
    /\ todo' = [todo EXCEPT ![p] = {}]
    /\ UNCHANGED <<rows, broadcasterRow, chain, history>>

(* The lock of a process that is gone expires; the one of a process that is   *)
(* still at work expires only if it is slow.                                  *)
Expire ==
    /\ lock # NoLock /\ ~expired
    /\ IF pc[lock] \in {"locked", "unlock"} THEN Fault ELSE UNCHANGED faults
    /\ expired' = TRUE
    /\ UNCHANGED <<rows, nextNonce, lock, chain, local, history>>

Mine ==
    /\ \E tx \in pool, ok \in BOOLEAN :
         /\ tx.nonce = netNonce
         /\ tx.void => ok
         /\ mined' = Append(mined, [tx |-> tx, ok |-> ok])
         /\ pool' = pool \ {tx}
    /\ UNCHANGED <<rows, broadcasterRow, finality, local, faults, history>>

BecomeFinal ==
    /\ finality < netNonce
    /\ finality' = finality + 1
    /\ UNCHANGED <<rows, broadcasterRow, pool, mined, local, faults, history>>

(* The node forgets a transaction. *)
Drop ==
    /\ Fault
    /\ \E tx \in pool : pool' = pool \ {tx}
    /\ UNCHANGED <<rows, broadcasterRow, mined, finality, local, history>>

Submit(p) ==
    Acquire(p) \/ Abandon(p) \/ Refuse(p) \/ Store(p) \/ Broadcast(p) \/ Unlock(p)

Process(p) ==
    ReadPending(p) \/ NextPending(p) \/ Status(p) \/ Finalise(p) \/ Resubmit(p)

Request == \E q \in Requests, s \in Slots, fee \in Fees : BroadcastExecution(q, s, fee)

Next ==
    \/ Request
    \/ \E p \in Procs : Submit(p) \/ Crash(p)
    \/ \E p \in Runs : Process(p)
    \/ Expire \/ Mine \/ BecomeFinal \/ Drop

Spec == Init /\ [][Next]_vars

(* A process that has started goes on, the runs are called again and again,   *)
(* the network includes what it holds, and the lock of a dead process ages.   *)
Fairness ==
    /\ \A p \in Procs : WF_vars(Submit(p))
    /\ \A p \in Runs : WF_vars(Process(p))
    /\ WF_vars(Mine) /\ WF_vars(BecomeFinal)
    /\ WF_vars(Expire /\ UNCHANGED faults)

FairSpec == Spec /\ Fairness

-----------------------------------------------------------------------------
(* Properties.                                                                *)

Sent == pool \cup {mined[i].tx : i \in 1..netNonce}

(* "the id tell the executor to not reexecute" (scheduler.ts): the execution  *)
(* of a slot is on the network under one nonce only.                          *)
AtMostOnce ==
    \A a, b \in Sent : a.slot = b.slot /\ ~a.void /\ ~b.void => a.nonce = b.nonce

(* An execution is on the network under two nonces only if it was broadcast   *)
(* without having been stored, or two requests have prepared it together.     *)
AtMostOnceStored ==
    \A a, b \in Sent : a.slot = b.slot /\ a.nonce # b.nonce
                          => a.slot \in skipped \cup contested

(* Two executions claim one nonce, in their rows or on the network, only if   *)
(* one of them was broadcast without having been stored; requests that        *)
(* prepare the same execution together do not share a nonce with others.      *)
Claims == Sent \cup {rows[s].tx : s \in {s \in Slots : rows[s] # NoRow}}

NonceNotShared ==
    \A a, b \in Claims : a.nonce = b.nonce /\ a.slot # b.slot
                            => a.slot \in skipped \/ b.slot \in skipped

(* Every nonce given out is followed by the row of the execution it was given *)
(* to, so that no gap can hold back the nonces after it; where two requests   *)
(* have prepared one execution together, its row follows one nonce of theirs. *)
NoncesFollowed ==
    \A n \in 0..(nextNonce - 1) :
        \E s \in Slots :
            /\ [slot |-> s, nonce |-> n] \in given
            /\ rows[s] # NoRow
            /\ rows[s].tx.nonce = n \/ s \in contested

(* What a finalized row says of its transaction is what the chain says, even  *)
(* when the run that wrote it had read the row before others changed it.      *)
FinalTruthful ==
    \A s \in Slots : rows[s] # NoRow /\ rows[s].final # "no" =>
        /\ rows[s].tx.nonce < finality
        /\ rows[s].final = Ending(rows[s].tx)

(* A finalized row never changes again. *)
FinalImmutable ==
    [][\A s \in Slots : rows[s] # NoRow /\ rows[s].final # "no"
                           => rows'[s] = rows[s]]_vars

(* The executor keeps its promise, slot by slot: the first execution stored   *)
(* keeps its nonce, unless two requests have prepared it together, is         *)
(* finalized once, and is neither forgotten nor reopened by whoever writes a  *)
(* row that it has read before others changed it.                             *)
Unkept == -1
KeptNonces == [s \in Slots |-> IF rows[s] = NoRow THEN Unkept ELSE rows[s].tx.nonce]
FinalSlots == {s \in Slots : rows[s] # NoRow /\ rows[s].final # "no"}

Promise == INSTANCE ExecutorPromise
               WITH Keys <- Slots, Executions <- Nat, Nothing <- Unkept,
                    kept <- KeptNonces, settled <- FinalSlots

PromiseKept == Promise!Spec

(* And it settles what it has stored: whatever crashed or was lost after that *)
(* is tried again until its nonce is used.  That is so from the time on when  *)
(* no balance is short and no run has more to read than its limit, where no   *)
(* two requests have prepared an execution together: the nonce that its row   *)
(* has lost is never sent again, and holds back all others when the node      *)
(* loses it too.                                                              *)
BalancesSuffice == <>[][\A p \in Procs : ~Refuse(p)]_vars
LimitSuffices == <>[](Cardinality(Pending) <= Limit)

PromiseFulfilled ==
    BalancesSuffice /\ LimitSuffices /\ [](contested = {}) => Promise!Fulfilled
=============================================================================
