------------------------------ MODULE FeePolicy ------------------------------
(* The fee of one execution that waits on the network (executor.ts,           *)
(* _resubmitIfNeeded): runs of processPendingTransactions offer what the gas  *)
(* costs now, up to what the user has authorized.  Where the gas costs more   *)
(* than the price the service expects at worst, the payment account sends     *)
(* the difference to the broadcaster and the fee goes beyond.  Blocks come,   *)
(* time passes and the admin changes the expected price in between.           *)
EXTENDS GasEstimate, FiniteSets

CONSTANTS
    Runs,          \* processes that run processPendingTransactions
    Authorized,    \* maxFeePerGasAuthorized
    Gas,           \* gas of the transaction
    Promised,      \* expectedWorstCaseGasPrice when the execution was accepted
    NoPrice,       \* no such price
    History,       \* number of blocks of the fee history
    Bases,         \* base fees that blocks may have
    Loads,         \* shares of gas and priority fees that blocks may report
    Expected,      \* prices the admin may set
    MaxUpdates,    \* bound on the times it does
    ExpiryTime,    \* expiryTime of the execution, which was accepted at time 0
    MaxTime,       \* bound on the clock, which a block advances by one
    MaxFaults,     \* bound on errors and lost transactions
    NoJob          \* nothing to work on

ASSUME PricesAssumption ==
       /\ Authorized \in Nat /\ Gas \in Nat \ {0}
       /\ Promised \in Nat \cup {NoPrice} /\ Expected \subseteq Nat
       /\ History \in Nat \ {0} /\ Bases \subseteq Nat
       /\ Loads \subseteq [used : 0..100, rewards : [Percentiles -> Nat]]
ASSUME BoundsAssumption == {MaxUpdates, ExpiryTime, MaxTime, MaxFaults} \subseteq Nat
ASSUME NoPriceAssumption == NoPrice \notin Nat

VARIABLES
    blocks, pending,  \* the fee history of the node and the next base fee
    now,              \* the chain's timestamp
    expected,         \* ChainConfigurations.expectedGasPrice_current
    row,              \* the execution: its fees and the help recorded with it
    node,             \* fees of the transaction that the node has
    payments,         \* rows of the payment account: the prices they are for
    sent,             \* value of the payments that have gone out
    pc, job,          \* where a run is and what it works on
    updates, faults,  \* number of the admin's changes and of faults so far
    raced,            \* history: a run wrote while another one was at work
    moved,            \* history: the price was lowered after a payment, or changed
                      \* while one was under way
    unstored          \* history: a payment went out without its row

market == <<blocks, pending, now>>
run == <<pc, job>>
history == <<raced, moved, unstored>>
vars == <<market, expected, row, node, payments, sent, run, updates, faults, history>>

Row == [fee : Nat, priority : Nat, upTo : Nat, valueSent : Nat]
PCs == {"idle", "fee", "cover", "look", "pay", "compare"}
Jobs == [row : Row, price : GasPrice, estimate : Nat, base : Nat, upTo : Nat,
         value : Nat, worst : Nat \cup {NoPrice}, helped : BOOLEAN]

TypeOK ==
    /\ \A i \in DOMAIN blocks : blocks[i].base \in Nat /\ blocks[i].used \in 0..100
    /\ pending \in Nat /\ now \in 0..MaxTime
    /\ expected \in Nat \cup {NoPrice}
    /\ row \in Row /\ node \in GasPrice \cup {NoPrice}
    /\ payments \subseteq Nat /\ sent \in Nat
    /\ pc \in [Runs -> PCs] /\ DOMAIN job = Runs
    /\ \A p \in Runs : pc[p] # "idle" => job[p] \in Jobs
    /\ updates \in 0..MaxUpdates /\ faults \in 0..MaxFaults
    /\ raced \in BOOLEAN /\ moved \in BOOLEAN /\ unstored \in BOOLEAN

Block == {[base |-> base, used |-> load.used, rewards |-> load.rewards] :
              base \in Bases, load \in Loads}

(* The execution has just been broadcast with the fee of the moment.          *)
Init ==
    /\ blocks \in [1..History -> Block] /\ pending \in Bases /\ now = 0
    /\ expected \in Expected \cup {NoPrice}
    /\ node = Signed(GasFee(BestGasEstimate(GasPriceEstimate(blocks, pending), FALSE),
                            Authorized))
    /\ row = [fee |-> node.fee, priority |-> node.priority, upTo |-> 0, valueSent |-> 0]
    /\ payments = {} /\ sent = 0
    /\ pc = [p \in Runs |-> "idle"] /\ job = [p \in Runs |-> NoJob]
    /\ updates = 0 /\ faults = 0
    /\ raced = FALSE /\ moved = FALSE /\ unstored = FALSE

-----------------------------------------------------------------------------
Fault == faults < MaxFaults /\ faults' = faults + 1

Goto(p, label) == pc' = [pc EXCEPT ![p] = label]

Leave(p) == Goto(p, "idle") /\ job' = [job EXCEPT ![p] = NoJob]

Race(p) == raced' = (raced \/ \E q \in Runs \ {p} : pc[q] # "idle")

Paid(r) == [fee |-> r.fee, priority |-> r.priority]

(* getPendingExecutions, and a status that is neither final nor pending.      *)
ReadPending(p) ==
    /\ pc[p] = "idle"
    /\ job' = [job EXCEPT ![p] =
          [row |-> row, price |-> Paid(row), estimate |-> 0, base |-> 0, upTo |-> 0,
           value |-> 0, worst |-> NoPrice, helped |-> FALSE]]
    /\ Goto(p, "fee")
    /\ UNCHANGED <<market, expected, row, node, payments, sent, updates, faults, history>>

GetGasFee(p) ==
    /\ pc[p] = "fee"
    /\ LET estimate == BestGasEstimate(GasPriceEstimate(blocks, pending),
                                       Urgent(now, 0, 0, ExpiryTime, 0))
           price == GasFee(estimate, Authorized)
       IN IF estimate.fee > price.fee
          THEN /\ job' = [job EXCEPT ![p].price = price, ![p].estimate = estimate.fee,
                                     ![p].base = pending]
               /\ Goto(p, "cover")
          ELSE job' = [job EXCEPT ![p].price = price] /\ Goto(p, "compare")
    /\ UNCHANGED <<market, expected, row, node, payments, sent, updates, faults, history>>

(* The worst price that is expected: the one of the submission, or the        *)
(* current one when it is lower.                                              *)
WorstPrice(current) ==
    IF current # NoPrice /\ (Promised = NoPrice \/ current < Promised) THEN current
                                                                       ELSE Promised

(* upToGasPrice.  Mutants: the estimate, no more than is left to cover, and a *)
(* difference the wrong way round.                                            *)
UpToSwapped(j, worst) == j.price.fee + (worst - j.estimate)
UpToEstimate(j, worst) == j.estimate
UpToLeft(j, worst) ==
    j.price.fee + (j.estimate - worst) - (IF j.row.upTo > 0 THEN j.row.upTo - j.price.fee ELSE 0)

UpTo(j, worst) == j.price.fee + (j.estimate - worst)

(* diffToCover, less what earlier help covers.                                *)
LeftToCover(j, worst) ==
    j.estimate - worst - (IF j.row.upTo > 0 THEN j.row.upTo - j.price.fee ELSE 0)

(* valueToSend, which generatePaymentTransaction takes as it is.              *)
ValueToSend(j, worst) == Gas * LeftToCover(j, worst)

(* totalValueSent.  Mutant: of this payment alone. *)
ValueAlone(j, worst) == ValueToSend(j, worst)

TotalValue(j, worst) == j.row.valueSent + ValueToSend(j, worst)

Unhelped(j) == [j EXCEPT !.estimate = 0, !.base = 0]

(* Whether the payment account has to help; it may lack the balance.          *)
Cover(p) ==
    /\ pc[p] = "cover"
    /\ LET worst == WorstPrice(expected) IN
       \/ /\ worst # NoPrice /\ worst < job[p].estimate /\ LeftToCover(job[p], worst) > 0
          /\ job' = [job EXCEPT ![p].worst = worst, ![p].upTo = UpTo(job[p], worst),
                                ![p].value = TotalValue(job[p], worst)]
          /\ Goto(p, "look")
          /\ UNCHANGED faults
       \/ /\ worst # NoPrice /\ worst < job[p].estimate /\ LeftToCover(job[p], worst) > 0
          /\ Fault
          /\ Goto(p, "compare") /\ job' = [job EXCEPT ![p] = Unhelped(@)]
       \/ /\ worst = NoPrice \/ worst >= job[p].estimate \/ LeftToCover(job[p], worst) <= 0
          /\ Goto(p, "compare") /\ job' = [job EXCEPT ![p] = Unhelped(@)]
          /\ UNCHANGED faults
    /\ UNCHANGED <<market, expected, row, node, payments, sent, updates, history>>

Raised(j) == [j EXCEPT !.price = [fee |-> j.upTo, priority |-> j.upTo], !.helped = TRUE,
                       !.estimate = 0, !.upTo = 0, !.value = 0]

(* broadcastExecution of the payment, in a slot named after the estimate:     *)
(* one that is stored already counts as paid.                                 *)
LookForPayment(p) ==
    /\ pc[p] = "look"
    /\ IF job[p].estimate \in payments
       THEN Goto(p, "compare") /\ job' = [job EXCEPT ![p] = Raised(@)]
       ELSE Goto(p, "pay") /\ UNCHANGED job
    /\ UNCHANGED <<market, expected, row, node, payments, sent, updates, faults, history>>

(* One batch stores the payment and the help; an error of it is swallowed and *)
(* the payment sent all the same.  Any other error ends the run's work.       *)
Pay(p) ==
    /\ pc[p] = "pay"
    /\ \/ /\ payments' = payments \cup {job[p].estimate}
          /\ row' = [row EXCEPT !.upTo = job[p].upTo, !.valueSent = job[p].value]
          /\ sent' = sent + ValueToSend(job[p], job[p].worst)
          /\ Goto(p, "compare") /\ job' = [job EXCEPT ![p] = Raised(@)]
          /\ Race(p)
          /\ UNCHANGED <<faults, unstored>>
       \/ /\ Fault
          /\ sent' = sent + ValueToSend(job[p], job[p].worst)
          /\ unstored' = TRUE
          /\ Goto(p, "compare") /\ job' = [job EXCEPT ![p] = Raised(@)]
          /\ UNCHANGED <<payments, row, raced>>
       \/ Fault /\ Leave(p) /\ UNCHANGED <<payments, row, sent, raced, unstored>>
    /\ UNCHANGED <<market, expected, node, updates, moved>>

(* Resubmit when the node has lost the transaction as it was read, or for a   *)
(* higher fee.  A node replaces a transaction by one with a higher fee only;  *)
(* the row, with the help it has, is written in any case.                     *)
Compare(p) ==
    /\ pc[p] = "compare"
    /\ LET price == job[p].price
           used == Paid(job[p].row)
           new == Signed(price)
       IN IF \/ node # used
             \/ used.fee < price.fee
             \/ used.fee = price.fee /\ used.priority < price.priority
          THEN /\ row' = [row EXCEPT !.fee = new.fee, !.priority = new.priority]
               /\ node' = IF node = NoPrice \/ new.fee > node.fee THEN new ELSE node
               /\ Race(p)
          ELSE UNCHANGED <<row, node, raced>>
    /\ Leave(p)
    /\ UNCHANGED <<market, expected, payments, sent, updates, faults, moved, unstored>>

ProcessPending(p) ==
    ReadPending(p) \/ GetGasFee(p) \/ Cover(p) \/ LookForPayment(p) \/ Pay(p) \/ Compare(p)

-----------------------------------------------------------------------------
(* updateExpectedWorstCaseGasPrice, by the admin.                             *)
UpdateExpectedWorstCaseGasPrice ==
    /\ updates < MaxUpdates /\ updates' = updates + 1
    /\ expected' \in Expected
    /\ moved' = \/ moved
                \/ payments # {} /\ WorstPrice(expected') < WorstPrice(expected)
                \/ /\ \E p \in Runs : pc[p] \in {"look", "pay"}
                   /\ WorstPrice(expected') # WorstPrice(expected)
    /\ UNCHANGED <<market, row, node, payments, sent, run, faults, raced, unstored>>

(* A block, with its timestamp. *)
NewBlock ==
    /\ now < MaxTime /\ now' = now + 1
    /\ \E block \in Block : block.base = pending /\ blocks' = Append(Tail(blocks), block)
    /\ pending' \in Bases
    /\ UNCHANGED <<expected, row, node, payments, sent, run, updates, faults, history>>

(* The node forgets the transaction. *)
Drop ==
    /\ node # NoPrice /\ Fault
    /\ node' = NoPrice
    /\ UNCHANGED <<market, expected, row, payments, sent, run, updates, history>>

Next ==
    \/ \E p \in Runs : ProcessPending(p)
    \/ UpdateExpectedWorstCaseGasPrice
    \/ NewBlock \/ Drop

Spec == Init /\ [][Next]_vars

-----------------------------------------------------------------------------
(* Properties.                                                                *)

(* An estimate is above the base fee of the block to come and, when blocks    *)
(* are full, above what the base fee can be one block later, urgent or not    *)
(* (EIP-1559 raises it by an eighth, and at least by one).                    *)
EstimateCovers ==
    \A urgent \in BOOLEAN :
        LET g == GasPriceEstimate(blocks, pending)
            fee == BestGasEstimate(g, urgent).fee
        IN /\ fee > pending
           /\ g.full => fee >= pending + Larger(pending \div 8, 1)

(* What a broadcaster is made to pay for gas beyond the user's authorization  *)
(* has been sent to it, even if several runs pay for the same execution,      *)
(* unless the admin lowered the expected price after a payment, or changed it *)
(* while a payment was under way.                                             *)
Own == Larger(Authorized, 1)

FeeCovered == moved \/ row.fee <= Own \/ Gas * (row.fee - Own) <= sent

(* With one run at a time and no failing database, what is recorded with the  *)
(* execution is what has been sent for it, no more and no less, and no price  *)
(* is paid for twice.                                                         *)
HelpRecorded ==
    raced \/ unstored \/ /\ sent = row.valueSent
                         /\ row.valueSent = 0 \/ row.valueSent = Gas * (row.upTo - Own)

(* Help is enough: if the user has authorized the expected price, the fee     *)
(* after a payment is above the base fee that the estimate was made for.      *)
HelpEnough ==
    \A p \in Runs : pc[p] = "compare" /\ job[p].helped /\ Own >= job[p].worst
                       => job[p].price.fee > job[p].base
=============================================================================
