----------------------------- MODULE GasEstimate -----------------------------
(* The price of gas: what getBestGasEstimate (common/src/ethereum.ts) makes   *)
(* of the fee history of a node, what getGasFee of the ethereum protocol      *)
(* leaves of it, and how urgent the executor considers an execution.          *)
(* Prices are natural numbers; shares of gas used are in percent.             *)
EXTENDS Integers, Sequences, Functions

Larger(a, b) == IF a > b THEN a ELSE b

(* avg.                                                                       *)
Total(seq) == SumFunction(seq)
Average(seq) == Total(seq) \div Len(seq)

(* Blocks of eth_feeHistory: base fee, share of gas used and the priority     *)
(* fees at the percentiles 10, 50 and 80.                                     *)
Percentiles == 1..3
Blocks == [base : Nat, used : 0..100, rewards : [Percentiles -> Nat]]

(* getGasPriceEstimate of the blocks, where pending is the last base fee of   *)
(* the history: the one of the block after them.                              *)
GasPriceEstimate(blocks, pending) ==
    LET above(percent) ==
            /\ Total([i \in DOMAIN blocks |-> blocks[i].used]) > percent * Len(blocks)
            /\ blocks[Len(blocks)].used > percent
    IN [priority |-> [k \in Percentiles |->
                         Average([i \in DOMAIN blocks |-> blocks[i].rewards[k]])],
        average |-> Average([i \in DOMAIN blocks |-> blocks[i].base]),
        last |-> pending,
        growing |-> pending > blocks[1].base,
        full |-> above(50),
        almostFull |-> above(10)]

Estimates == [priority : [Percentiles -> Nat], average : Nat, last : Nat,
              growing : BOOLEAN, full : BOOLEAN, almostFull : BOOLEAN]

-----------------------------------------------------------------------------
(* getBestGasEstimate.                                                        *)
HighestFee(g) == Larger(g.average, g.last)

AFifthMore(price) == price + price \div 5

(* The base fee it expects.                                                   *)
BaseFee(g, urgent) ==
    LET pressed == CASE g.full /\ urgent -> 2 * HighestFee(g)
                     [] g.full /\ ~urgent -> AFifthMore(HighestFee(g))
                     [] ~g.full /\ g.almostFull /\ urgent -> AFifthMore(HighestFee(g))
                     [] OTHER -> HighestFee(g)
        raised == IF g.growing /\ (g.full \/ g.almostFull) THEN AFifthMore(pressed)
                                                            ELSE pressed
    IN Larger(raised, 1)

PriorityFee(g, urgent) ==
    LET fee == BaseFee(g, urgent)
        chosen == CASE g.full -> g.priority[IF urgent THEN 3 ELSE 2]
                    [] ~g.full /\ urgent -> g.priority[IF g.almostFull THEN 2 ELSE 1]
                    [] OTHER -> fee \div (IF g.almostFull THEN 10 ELSE 5)
    IN Larger(chosen, 1)

(* Mutant: the priority fee as a part of the fee.                             *)
FeeIncluding(fee, priority) == IF priority > fee THEN priority ELSE fee

FeeWith(fee, priority) == IF priority > fee THEN priority ELSE fee + priority

BestGasEstimate(g, urgent) ==
    [fee |-> FeeWith(BaseFee(g, urgent), PriorityFee(g, urgent)),
     priority |-> PriorityFee(g, urgent)]

GasPrice == [fee : Nat, priority : Nat]

-----------------------------------------------------------------------------
(* getGasFee (ethereum): never beyond what the user has authorized.           *)
GasFee(estimate, authorized) ==
    [fee |-> Larger(1, IF estimate.fee > authorized THEN authorized ELSE estimate.fee),
     priority |-> IF estimate.fee > authorized /\ estimate.priority > authorized
                  THEN authorized ELSE estimate.priority]

(* _submitTransaction: no priority fee becomes one of 10, none exceeds the    *)
(* fee.                                                                       *)
Signed(price) ==
    LET priority == IF price.priority = 0 THEN 10 ELSE price.priority
    IN [price EXCEPT !.priority = IF priority > price.fee THEN price.fee ELSE priority]

(* computeImportanceRatio, and whether it is above the 0.9 of                 *)
(* getBestGasEstimate.  A time of 0 is not given.                             *)
Urgent(time, initial, best, expiry, maxExpiry) ==
    LET deadline == CASE best # 0 -> best
                      [] best = 0 /\ expiry # 0 -> expiry
                      [] OTHER -> initial + maxExpiry
        range == deadline - initial
    IN range <= 0 \/ (time > initial /\ 10 * (time - initial) > 9 * range)
=============================================================================
