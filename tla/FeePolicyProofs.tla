---------------------------- MODULE FeePolicyProofs ----------------------------
(* What every gas estimate satisfies, whatever the history it is made from    *)
(* says, and what becomes of it on its way into a transaction; and that the   *)
(* payment account covers what a broadcaster pays beyond the authorization of *)
(* the user, however the runs that resubmit an execution interleave.          *)
EXTENDS FeePolicy, SumProofs, TLAPS

(* A fifth more is at least an eighth more.                                   *)
LEMMA AFifthCovers ==
    ASSUME NEW x \in Nat
    PROVE  AFifthMore(x) \in Nat /\ AFifthMore(x) >= x /\ AFifthMore(x) >= x + x \div 8
BY DEF AFifthMore

(* The base fee an estimate expects is no lower than the average and the last *)
(* one, and when blocks are full no lower than what an eighth more would be.  *)
LEMMA BaseFeeCovers ==
    ASSUME NEW g \in Estimates, NEW urgent \in BOOLEAN
    PROVE  /\ BaseFee(g, urgent) \in Nat
           /\ BaseFee(g, urgent) >= 1
           /\ BaseFee(g, urgent) >= g.last /\ BaseFee(g, urgent) >= g.average
           /\ g.full => BaseFee(g, urgent) >= g.last + g.last \div 8
<1> DEFINE pressed == CASE g.full /\ urgent -> 2 * HighestFee(g)
                        [] g.full /\ ~urgent -> AFifthMore(HighestFee(g))
                        [] ~g.full /\ g.almostFull /\ urgent -> AFifthMore(HighestFee(g))
                        [] OTHER -> HighestFee(g)
           raised == IF g.growing /\ (g.full \/ g.almostFull) THEN AFifthMore(pressed)
                                                               ELSE pressed
<1>1. /\ g.last \in Nat /\ g.average \in Nat
      /\ g.full \in BOOLEAN /\ g.almostFull \in BOOLEAN /\ g.growing \in BOOLEAN
      BY DEF Estimates
<1>2. /\ HighestFee(g) \in Nat
      /\ HighestFee(g) >= g.last /\ HighestFee(g) >= g.average
      BY <1>1 DEF HighestFee, Larger
<1>3. HighestFee(g) \div 8 >= g.last \div 8
      BY <1>1, <1>2
<1>4. /\ AFifthMore(HighestFee(g)) \in Nat
      /\ AFifthMore(HighestFee(g)) >= HighestFee(g) + HighestFee(g) \div 8
      /\ HighestFee(g) >= HighestFee(g) \div 8
      BY <1>2, AFifthCovers
<1>5. /\ pressed \in Nat
      /\ pressed >= HighestFee(g)
      /\ g.full => pressed >= HighestFee(g) + HighestFee(g) \div 8
  <2>1. CASE g.full /\ urgent
    <3>1. pressed = 2 * HighestFee(g)
          BY <2>1
    <3>q. QED
          BY <3>1, <1>2, <1>4
  <2>2. CASE g.full /\ ~urgent
    <3>1. pressed = AFifthMore(HighestFee(g))
          BY <2>2
    <3>q. QED
          BY <3>1, <1>2, <1>4
  <2>3. CASE ~g.full /\ g.almostFull /\ urgent
    <3>1. pressed = AFifthMore(HighestFee(g))
          BY <2>3
    <3>q. QED
          BY <3>1, <2>3, <1>2, <1>4
  <2>4. CASE ~g.full /\ ~(g.almostFull /\ urgent)
    <3>1. pressed = HighestFee(g)
          BY <2>4
    <3>q. QED
          BY <3>1, <2>4, <1>2
  <2>q. QED
        BY <1>1, <2>1, <2>2, <2>3, <2>4
<1>6. raised \in Nat /\ raised >= pressed
  <2> HIDE DEF pressed
  <2>q. QED
        BY <1>5, AFifthCovers
<1>7. BaseFee(g, urgent) = Larger(raised, 1)
      BY DEF BaseFee
<1> HIDE DEF pressed, raised
<1>q. QED
      BY <1>1, <1>2, <1>3, <1>4, <1>5, <1>6, <1>7 DEF Larger

(* A priority fee is at least one.                                            *)
LEMMA PriorityFeeType ==
    ASSUME NEW g \in Estimates, NEW urgent \in BOOLEAN
    PROVE  PriorityFee(g, urgent) \in Nat /\ PriorityFee(g, urgent) >= 1
<1> DEFINE fee == BaseFee(g, urgent)
           chosen == CASE g.full -> g.priority[IF urgent THEN 3 ELSE 2]
                       [] ~g.full /\ urgent -> g.priority[IF g.almostFull THEN 2 ELSE 1]
                       [] OTHER -> fee \div (IF g.almostFull THEN 10 ELSE 5)
<1>1. g.priority \in [1..3 -> Nat] /\ g.full \in BOOLEAN /\ g.almostFull \in BOOLEAN
      BY DEF Estimates, Percentiles
<1>2. fee \in Nat
      BY BaseFeeCovers
<1> HIDE DEF fee
<1>3. chosen \in Nat
  <2>1. CASE g.full
        BY <1>1, <2>1
  <2>2. CASE ~g.full /\ urgent
        BY <1>1, <2>2
  <2>3. CASE ~g.full /\ ~urgent
    <3>1. chosen = fee \div (IF g.almostFull THEN 10 ELSE 5)
          BY <2>3
    <3>2. fee \div 10 \in Nat /\ fee \div 5 \in Nat
          BY <1>2
    <3>q. QED
          BY <3>1, <3>2
  <2>q. QED
        BY <1>1, <2>1, <2>2, <2>3
<1>4. PriorityFee(g, urgent) = Larger(chosen, 1)
      BY DEF PriorityFee, fee
<1> HIDE DEF chosen
<1>q. QED
      BY <1>3, <1>4 DEF Larger

(* An estimate is above every base fee it was made from, by what a node takes *)
(* for its priority at least, and when blocks are full above what the base    *)
(* fee can be one block later: getBestGasEstimate, urgent or not.             *)
THEOREM EstimateAboveBaseFee ==
    ASSUME NEW g \in Estimates, NEW urgent \in BOOLEAN
    PROVE  LET best == BestGasEstimate(g, urgent) IN
           /\ best \in GasPrice
           /\ 1 <= best.priority /\ best.priority <= best.fee
           /\ best.fee > g.last /\ best.fee > g.average
           /\ g.full => best.fee >= g.last + Larger(g.last \div 8, 1)
<1> DEFINE base == BaseFee(g, urgent)
           priority == PriorityFee(g, urgent)
<1>1. g.last \in Nat /\ g.average \in Nat /\ g.last \div 8 \in Nat
      BY DEF Estimates
<1>2. /\ base \in Nat /\ base >= 1
      /\ base >= g.last /\ base >= g.average
      /\ g.full => base >= g.last + g.last \div 8
      BY BaseFeeCovers
<1>3. priority \in Nat /\ priority >= 1
      BY PriorityFeeType
<1>4. BestGasEstimate(g, urgent) = [fee |-> FeeWith(base, priority), priority |-> priority]
      BY DEF BestGasEstimate
<1> HIDE DEF base, priority
<1>5. /\ FeeWith(base, priority) \in Nat
      /\ FeeWith(base, priority) > base /\ FeeWith(base, priority) >= priority
      BY <1>2, <1>3 DEF FeeWith
<1>6. g.full => FeeWith(base, priority) >= g.last + Larger(g.last \div 8, 1)
      BY <1>1, <1>2, <1>5 DEF Larger
<1>q. QED
      BY <1>1, <1>2, <1>3, <1>4, <1>5, <1>6 DEF GasPrice

(* Whatever the estimate, a transaction that is signed for it offers no more  *)
(* than its user has authorized (or the least there is), and a priority fee   *)
(* that a node accepts with it: getGasFee and _submitTransaction.             *)
THEOREM SignedWithinAuthorization ==
    ASSUME NEW estimate \in GasPrice, NEW authorized \in Nat
    PROVE  LET signed == Signed(GasFee(estimate, authorized)) IN
           /\ signed \in GasPrice
           /\ signed.fee <= Larger(authorized, 1)
           /\ 1 <= signed.priority /\ signed.priority <= signed.fee
<1> DEFINE price == GasFee(estimate, authorized)
<1>1. estimate.fee \in Nat /\ estimate.priority \in Nat
      BY DEF GasPrice
<1>2. /\ price \in GasPrice
      /\ price.fee >= 1 /\ price.fee <= Larger(authorized, 1)
      BY <1>1 DEF GasFee, GasPrice, Larger
<1>3. price.fee \in Nat /\ price.priority \in Nat
      BY <1>2 DEF GasPrice
<1> HIDE DEF price
<1> DEFINE priority == IF price.priority = 0 THEN 10 ELSE price.priority
<1>4. priority \in Nat /\ priority >= 1
      BY <1>3
<1>5. Signed(price) = [price EXCEPT !.priority =
                          IF priority > price.fee THEN price.fee ELSE priority]
      BY DEF Signed
<1> HIDE DEF priority
<1>6. /\ Signed(price) \in GasPrice
      /\ Signed(price).fee = price.fee
      /\ Signed(price).priority = IF priority > price.fee THEN price.fee ELSE priority
      BY <1>2, <1>3, <1>4, <1>5 DEF GasPrice
<1>q. QED
      BY <1>2, <1>3, <1>4, <1>6 DEF price

(* An execution that is urgent stays urgent as time passes.                   *)
THEOREM UrgencyStays ==
    ASSUME NEW time \in Int, NEW later \in Int, later >= time,
           NEW initial \in Int, NEW best \in Nat, NEW expiry \in Nat, NEW maxExpiry \in Nat,
           Urgent(time, initial, best, expiry, maxExpiry)
    PROVE  Urgent(later, initial, best, expiry, maxExpiry)
BY DEF Urgent

(* The average of natural numbers is one.                                     *)
LEMMA AverageType ==
    ASSUME NEW n \in Nat \ {0}, NEW seq \in [1..n -> Nat]
    PROVE  Total(seq) \in Nat /\ Average(seq) \in Nat
<1>1. SumFunction(seq) \in Nat
  <2>1. IsFiniteSet(1..n)
        BY FS_Interval
  <2>q. QED
        BY <2>1, SumOfNaturals
<1>2. Len(seq) = n
      OBVIOUS
<1>3. \A t \in Nat : t \div n \in Nat
      OBVIOUS
<1>q. QED
      BY <1>1, <1>2, <1>3 DEF Total, Average

(* What a node reports of real blocks makes an estimate.                      *)
LEMMA EstimateType ==
    ASSUME NEW n \in Nat \ {0}, NEW bs \in [1..n -> Blocks], NEW next \in Nat
    PROVE  /\ GasPriceEstimate(bs, next) \in Estimates
           /\ GasPriceEstimate(bs, next).last = next
<1>1. DOMAIN bs = 1..n /\ Len(bs) = n
      OBVIOUS
<1>2. \A i \in 1..n : bs[i].base \in Nat /\ bs[i].rewards \in [Percentiles -> Nat]
  <2>1. \A b \in Blocks : b.base \in Nat /\ b.rewards \in [Percentiles -> Nat]
        BY DEF Blocks
  <2>q. QED
        BY <2>1
<1>3. Average([i \in DOMAIN bs |-> bs[i].base]) \in Nat
  <2>1. [i \in DOMAIN bs |-> bs[i].base] \in [1..n -> Nat]
        BY <1>1, <1>2
  <2>q. QED
        BY <2>1, AverageType
<1>4. ASSUME NEW k \in Percentiles
      PROVE  Average([i \in DOMAIN bs |-> bs[i].rewards[k]]) \in Nat
  <2>1. [i \in DOMAIN bs |-> bs[i].rewards[k]] \in [1..n -> Nat]
        BY <1>1, <1>2
  <2>q. QED
        BY <2>1, AverageType
<1> DEFINE above(percent) ==
               /\ Total([i \in DOMAIN bs |-> bs[i].used]) > percent * Len(bs)
               /\ bs[Len(bs)].used > percent
           priority == [k \in Percentiles |->
                           Average([i \in DOMAIN bs |-> bs[i].rewards[k]])]
           average == Average([i \in DOMAIN bs |-> bs[i].base])
           growing == next > bs[1].base
<1>5. GasPriceEstimate(bs, next) =
          [priority |-> priority, average |-> average, last |-> next,
           growing |-> growing, full |-> above(50), almostFull |-> above(10)]
      BY DEF GasPriceEstimate
<1>6. priority \in [Percentiles -> Nat] /\ average \in Nat
      BY <1>3, <1>4
<1>7. growing \in BOOLEAN /\ above(50) \in BOOLEAN /\ above(10) \in BOOLEAN
  <2>1. (next > bs[1].base) \in BOOLEAN
        OBVIOUS
  <2>2. \A percent : above(percent) \in BOOLEAN
        OBVIOUS
  <2>q. QED
        BY <2>1, <2>2
<1> HIDE DEF above, priority, average, growing
<1>q. QED
      BY <1>5, <1>6, <1>7 DEF Estimates

-----------------------------------------------------------------------------
(* The invariants.  The history of the node is one of real blocks.            *)
HistoryReal == blocks \in [1..History -> Block] /\ pending \in Bases

(* What a run has worked out: it pays when the authorization is exhausted,    *)
(* the payment is for what is above the worst price and not covered yet, and  *)
(* without help the fee is within the authorization.                          *)
SoundAt(label, j) ==
    /\ label \in {"fee", "cover", "look", "pay"} => j.helped = FALSE
    /\ label \in {"cover", "look", "pay"} => j.price.fee = Own /\ j.estimate > j.base
    /\ label \in {"look", "pay"} =>
           /\ j.worst \in Nat /\ j.worst < j.estimate
           /\ LeftToCover(j, j.worst) > 0
           /\ j.upTo = UpTo(j, j.worst) /\ j.value = TotalValue(j, j.worst)
    /\ label = "compare" =>
           IF j.helped THEN j.worst \in Nat /\ j.price.fee + j.worst > j.base + Own
                       ELSE j.price.fee <= Own

WorkSound == \A p \in Runs : SoundAt(pc[p], job[p])

FeeInv == TypeOK /\ HistoryReal /\ WorkSound

(* What the authorization allows at most is a price.                          *)
LEMMA OwnType == Own \in Nat /\ Own >= 1
BY PricesAssumption DEF Own, Larger

(* A window of a sequence moves on by one.                                    *)
LEMMA SlidingHistory ==
    ASSUME NEW S, NEW n \in Nat \ {0}, NEW seq \in [1..n -> S], NEW x \in S
    PROVE  Append(Tail(seq), x) \in [1..n -> S]
<1>1. seq \in Seq(S) /\ Len(seq) = n /\ seq # << >>
      OBVIOUS
<1>2. Tail(seq) \in Seq(S) /\ Len(Tail(seq)) = n - 1
      BY <1>1
<1>3. Append(Tail(seq), x) \in Seq(S) /\ Len(Append(Tail(seq), x)) = n
      BY <1>2
<1>4. \A s \in Seq(S) : s \in [1..Len(s) -> S]
      OBVIOUS
<1>q. QED
      BY <1>3, <1>4

(* Blocks of the model are blocks.                                            *)
LEMMA BlockType ==
    /\ Block \subseteq Blocks
    /\ \A block \in Block : block.base \in Nat /\ block.used \in 0..100
<1>1. ASSUME NEW base \in Bases, NEW load \in Loads
      PROVE  [base |-> base, used |-> load.used, rewards |-> load.rewards] \in Blocks
  <2>1. load \in [used : 0..100, rewards : [Percentiles -> Nat]] /\ base \in Nat
        BY PricesAssumption
  <2>q. QED
        BY <2>1 DEF Blocks
<1>2. Block \subseteq Blocks
      BY <1>1 DEF Block
<1>3. \A block \in Blocks : block.base \in Nat /\ block.used \in 0..100
      BY DEF Blocks
<1>q. QED
      BY <1>2, <1>3

(* Estimates are made of the blocks of the node and above the next base fee.  *)
LEMMA EstimateNow ==
    ASSUME HistoryReal, NEW urgent \in BOOLEAN
    PROVE  LET best == BestGasEstimate(GasPriceEstimate(blocks, pending), urgent) IN
           /\ pending \in Nat /\ best \in GasPrice /\ best.fee > pending
           /\ GasPriceEstimate(blocks, pending).full =>
                  best.fee >= pending + Larger(pending \div 8, 1)
<1> DEFINE g == GasPriceEstimate(blocks, pending)
<1>2. blocks \in [1..History -> Blocks]
      BY BlockType DEF HistoryReal
<1>3. pending \in Nat /\ History \in Nat \ {0}
      BY PricesAssumption DEF HistoryReal
<1>4. g \in Estimates /\ g.last = pending
      BY <1>2, <1>3, EstimateType
<1> HIDE DEF g
<1>5. LET best == BestGasEstimate(g, urgent) IN
      /\ best \in GasPrice
      /\ best.fee > g.last
      /\ g.full => best.fee >= g.last + Larger(g.last \div 8, 1)
      BY <1>4, EstimateAboveBaseFee
<1>q. QED
      BY <1>3, <1>4, <1>5 DEF g

(* What getGasFee leaves of an estimate is within the authorization, and all  *)
(* of the authorization if it is less than the estimate.                      *)
LEMMA FeeOfEstimate ==
    ASSUME NEW estimate \in GasPrice
    PROVE  LET price == GasFee(estimate, Authorized) IN
           /\ price \in GasPrice /\ price.fee <= Own
           /\ estimate.fee > price.fee => price.fee = Own
<1>1. estimate.fee \in Nat /\ estimate.priority \in Nat /\ Authorized \in Nat
      BY PricesAssumption DEF GasPrice
<1>q. QED
      BY <1>1 DEF GasFee, GasPrice, Larger, Own

(* A signed transaction offers the fee it was given.                          *)
LEMMA SignedType ==
    ASSUME NEW price \in GasPrice
    PROVE  Signed(price) \in GasPrice /\ Signed(price).fee = price.fee
BY DEF Signed, GasPrice

(* Products with the gas of a transaction.                                    *)
LEMMA GasTimes ==
    ASSUME NEW n \in Int
    PROVE  Gas * n \in Int /\ (n >= 0 => Gas * n >= 0) /\ (n > 0 => Gas * n > 0)
<1>1. Gas \in Nat \ {0}
      BY PricesAssumption
<1>q. QED
      BY <1>1

LEMMA GasMonotone ==
    ASSUME NEW n \in Int, NEW m \in Int, n <= m
    PROVE  Gas * n <= Gas * m
<1>1. Gas \in Nat
      BY PricesAssumption
<1>q. QED
      BY <1>1

(* The fields of a job, and of the execution as it was read.                  *)
LEMMA JobFields ==
    ASSUME NEW j \in Jobs
    PROVE  /\ j.row.fee \in Nat /\ j.row.priority \in Nat
           /\ j.row.upTo \in Nat /\ j.row.valueSent \in Nat
           /\ j.price \in GasPrice /\ j.price.fee \in Nat /\ j.price.priority \in Nat
           /\ j.estimate \in Nat /\ j.base \in Nat /\ j.upTo \in Nat /\ j.value \in Nat
           /\ j.row \in Row
<1>1. j.row \in Row /\ j.price \in GasPrice
      BY DEF Jobs
<1>2. /\ j.row.fee \in Nat /\ j.row.priority \in Nat
      /\ j.row.upTo \in Nat /\ j.row.valueSent \in Nat
      BY <1>1 DEF Row
<1>3. j.price.fee \in Nat /\ j.price.priority \in Nat
      BY <1>1 DEF GasPrice
<1>4. j.estimate \in Nat /\ j.base \in Nat /\ j.upTo \in Nat /\ j.value \in Nat
      BY DEF Jobs
<1>q. QED
      BY <1>1, <1>2, <1>3, <1>4

(* What a run that has to pay goes on with.                                   *)
Covering(j, worst) == [j EXCEPT !.worst = worst, !.upTo = UpTo(j, worst),
                                !.value = TotalValue(j, worst)]

LEMMA CoveringSound ==
    ASSUME NEW j \in Jobs, SoundAt("cover", j),
           NEW worst \in Nat, worst < j.estimate, LeftToCover(j, worst) > 0
    PROVE  Covering(j, worst) \in Jobs /\ SoundAt("look", Covering(j, worst))
<1> DEFINE k == Covering(j, worst)
<1>1. /\ j.row.upTo \in Nat /\ j.row.valueSent \in Nat
      /\ j.price.fee \in Nat /\ j.estimate \in Nat /\ j.base \in Nat
      BY JobFields
<1>2. j.price.fee = Own /\ j.estimate > j.base /\ j.helped = FALSE
      BY DEF SoundAt
<1>3. LeftToCover(j, worst) \in Int /\ UpTo(j, worst) \in Nat
      BY <1>1 DEF LeftToCover, UpTo
<1>4. TotalValue(j, worst) \in Nat
  <2>1. Gas * LeftToCover(j, worst) \in Nat
        BY <1>3, GasTimes
  <2>q. QED
        BY <1>1, <2>1 DEF TotalValue, ValueToSend
<1>5. /\ k \in Jobs
      /\ k.row = j.row /\ k.price = j.price /\ k.estimate = j.estimate /\ k.base = j.base
      /\ k.worst = worst /\ k.upTo = UpTo(j, worst) /\ k.value = TotalValue(j, worst)
      /\ k.helped = j.helped
      BY <1>3, <1>4 DEF Covering, Jobs
<1> HIDE DEF k
<1>6. /\ LeftToCover(k, worst) = LeftToCover(j, worst)
      /\ UpTo(k, worst) = UpTo(j, worst)
      BY <1>5 DEF LeftToCover, UpTo
<1>7. TotalValue(k, worst) = TotalValue(j, worst)
      BY <1>5, <1>6 DEF TotalValue, ValueToSend
<1>8. SoundAt("look", k)
      BY <1>2, <1>5, <1>6, <1>7 DEF SoundAt
<1>q. QED
      BY <1>5, <1>8 DEF k

(* A payment has a value, and reaches the estimate from the worst price.      *)
LEMMA PaymentReaches ==
    ASSUME NEW j \in Jobs, NEW label \in {"look", "pay"}, SoundAt(label, j)
    PROVE  /\ LeftToCover(j, j.worst) \in Nat /\ ValueToSend(j, j.worst) \in Nat
           /\ ValueToSend(j, j.worst) > 0
           /\ j.upTo - Own = j.estimate - j.worst /\ j.upTo > Own
           /\ j.row.upTo = 0 => LeftToCover(j, j.worst) = j.upTo - Own
           /\ j.row.upTo > 0 => LeftToCover(j, j.worst) = j.upTo - j.row.upTo
<1>1. /\ j.row.upTo \in Nat /\ j.price.fee \in Nat /\ j.estimate \in Nat /\ j.upTo \in Nat
      BY JobFields
<1>2. /\ j.price.fee = Own /\ j.worst \in Nat /\ j.worst < j.estimate
      /\ LeftToCover(j, j.worst) > 0 /\ j.upTo = UpTo(j, j.worst)
      BY DEF SoundAt
<1>3. /\ LeftToCover(j, j.worst) \in Nat
      /\ j.upTo - Own = j.estimate - j.worst /\ j.upTo > Own
      /\ j.row.upTo = 0 => LeftToCover(j, j.worst) = j.upTo - Own
      /\ j.row.upTo > 0 => LeftToCover(j, j.worst) = j.upTo - j.row.upTo
      BY <1>1, <1>2, OwnType DEF LeftToCover, UpTo
<1>4. ValueToSend(j, j.worst) \in Nat /\ ValueToSend(j, j.worst) > 0
      BY <1>2, <1>3, GasTimes DEF ValueToSend
<1>q. QED
      BY <1>3, <1>4

(* A run that has paid, or found the payment, offers what it is for.          *)
LEMMA RaisedSound ==
    ASSUME NEW j \in Jobs, NEW label \in {"look", "pay"}, SoundAt(label, j)
    PROVE  /\ Raised(j) \in Jobs /\ SoundAt("compare", Raised(j))
           /\ Raised(j).row = j.row /\ Raised(j).price.fee = j.upTo /\ Raised(j).helped
<1> DEFINE k == Raised(j)
<1>1. j.estimate \in Nat /\ j.base \in Nat /\ j.upTo \in Nat
      BY JobFields
<1>2. j.estimate > j.base /\ j.worst \in Nat
      BY DEF SoundAt
<1>3. j.upTo - Own = j.estimate - j.worst
      BY PaymentReaches
<1>4. [fee |-> j.upTo, priority |-> j.upTo] \in GasPrice
      BY <1>1 DEF GasPrice
<1>5. /\ k \in Jobs /\ k.row = j.row /\ k.price.fee = j.upTo
      /\ k.worst = j.worst /\ k.base = j.base /\ k.helped = TRUE
      BY <1>4 DEF Raised, Jobs
<1> HIDE DEF k
<1>6. k.price.fee + k.worst > k.base + Own
      BY <1>1, <1>2, <1>3, <1>5, OwnType
<1>7. SoundAt("compare", k)
      BY <1>2, <1>5, <1>6 DEF SoundAt
<1>q. QED
      BY <1>5, <1>7 DEF k

(* A run that does not pay stays within the authorization.                    *)
LEMMA UnhelpedSound ==
    ASSUME NEW j \in Jobs, SoundAt("cover", j)
    PROVE  /\ Unhelped(j) \in Jobs /\ SoundAt("compare", Unhelped(j))
           /\ Unhelped(j).row = j.row /\ Unhelped(j).helped = FALSE
<1>1. j.price.fee = Own /\ j.helped = FALSE
      BY DEF SoundAt
<1>2. /\ Unhelped(j) \in Jobs /\ Unhelped(j).row = j.row
      /\ Unhelped(j).price = j.price /\ Unhelped(j).helped = FALSE
      BY <1>1 DEF Unhelped, Jobs
<1>q. QED
      BY <1>1, <1>2, OwnType DEF SoundAt

(* A step of a run leaves the work of the others alone.                       *)
KeepsOthers(p) == \A q \in Runs \ {p} : pc'[q] = pc[q] /\ job'[q] = job[q]

LEMMA RunMoves ==
    ASSUME FeeInv, NEW p \in Runs, NEW label \in PCs, Goto(p, label), DOMAIN job' = Runs,
           \A q \in Runs \ {p} : job'[q] = job[q],
           label # "idle" => job'[p] \in Jobs /\ SoundAt(label, job'[p])
    PROVE  /\ pc' \in [Runs -> PCs] /\ pc'[p] = label /\ KeepsOthers(p)
           /\ \A q \in Runs : pc'[q] # "idle" => job'[q] \in Jobs
           /\ WorkSound'
<1>1. pc \in [Runs -> PCs] /\ \A q \in Runs : pc[q] # "idle" => job[q] \in Jobs
      BY DEF FeeInv, TypeOK
<1>2. pc' \in [Runs -> PCs] /\ pc'[p] = label /\ \A q \in Runs \ {p} : pc'[q] = pc[q]
      BY <1>1 DEF Goto
<1>3. SoundAt("idle", job'[p])
      BY DEF SoundAt
<1>4. \A q \in Runs : SoundAt(pc'[q], job'[q])
      BY <1>2, <1>3 DEF FeeInv, WorkSound
<1>q. QED
      BY <1>1, <1>2, <1>4 DEF WorkSound, KeepsOthers

(* getPendingExecutions.                                                      *)
LEMMA ReadPendingSound ==
    ASSUME FeeInv, NEW p \in Runs, ReadPending(p)
    PROVE  FeeInv' /\ KeepsOthers(p) /\ pc'[p] = "fee" /\ job'[p].row = row
<1> DEFINE j == [row |-> row, price |-> Paid(row), estimate |-> 0, base |-> 0, upTo |-> 0,
                 value |-> 0, worst |-> NoPrice, helped |-> FALSE]
<1>1. /\ Goto(p, "fee") /\ job' = [job EXCEPT ![p] = j]
      /\ UNCHANGED <<market, expected, row, node, payments, sent, updates, faults, history>>
      BY DEF ReadPending
<1>2. j \in Jobs /\ j.helped = FALSE /\ j.row = row
  <2>1. row \in Row /\ Paid(row) \in GasPrice
        BY DEF FeeInv, TypeOK, Row, Paid, GasPrice
  <2>q. QED
        BY <2>1 DEF Jobs
<1> HIDE DEF j
<1>3. DOMAIN job' = Runs /\ job'[p] = j /\ \A q \in Runs \ {p} : job'[q] = job[q]
      BY <1>1 DEF FeeInv, TypeOK
<1>4. SoundAt("fee", j)
      BY <1>2 DEF SoundAt
<1>5. /\ pc' \in [Runs -> PCs] /\ KeepsOthers(p) /\ pc'[p] = "fee"
      /\ \A q \in Runs : pc'[q] # "idle" => job'[q] \in Jobs
      /\ WorkSound'
      BY <1>1, <1>2, <1>3, <1>4, RunMoves DEF PCs
<1>6. FeeInv'
      BY <1>1, <1>3, <1>5 DEF FeeInv, TypeOK, HistoryReal, market, history
<1>q. QED
      BY <1>2, <1>3, <1>5, <1>6

(* The estimate, and the part of it that is authorized.                       *)
LEMMA GetGasFeeSound ==
    ASSUME FeeInv, NEW p \in Runs, GetGasFee(p)
    PROVE  /\ FeeInv' /\ KeepsOthers(p) /\ job'[p].row = job[p].row
           /\ \/ pc'[p] = "cover"
              \/ pc'[p] = "compare" /\ job'[p].helped = FALSE
<1> DEFINE urgent == Urgent(now, 0, 0, ExpiryTime, 0)
           estimate == BestGasEstimate(GasPriceEstimate(blocks, pending), urgent)
           price == GasFee(estimate, Authorized)
           paying == [job[p] EXCEPT !.price = price, !.estimate = estimate.fee, !.base = pending]
           within == [job[p] EXCEPT !.price = price]
<1>1. job[p] \in Jobs /\ job[p].helped = FALSE /\ DOMAIN job = Runs
      BY DEF FeeInv, TypeOK, WorkSound, SoundAt, GetGasFee
<1>2. urgent \in BOOLEAN
      BY DEF Urgent
<1> HIDE DEF urgent
<1>3. pending \in Nat /\ estimate \in GasPrice /\ estimate.fee > pending
      BY <1>2, EstimateNow DEF FeeInv
<1>4. UNCHANGED <<market, expected, row, node, payments, sent, updates, faults, history>>
      BY DEF GetGasFee
<1>5. \/ /\ estimate.fee > price.fee
         /\ job' = [job EXCEPT ![p].price = price, ![p].estimate = estimate.fee,
                               ![p].base = pending]
         /\ Goto(p, "cover")
      \/ job' = [job EXCEPT ![p].price = price] /\ Goto(p, "compare")
      BY DEF GetGasFee, urgent
<1> HIDE DEF estimate
<1>6. /\ price \in GasPrice /\ price.fee <= Own
      /\ estimate.fee > price.fee => price.fee = Own
      BY <1>3, FeeOfEstimate
<1>7. estimate.fee \in Nat
      BY <1>3 DEF GasPrice
<1> HIDE DEF price
<1>8. /\ pc' \in [Runs -> PCs] /\ DOMAIN job' = Runs
      /\ KeepsOthers(p) /\ job'[p].row = job[p].row
      /\ pc'[p] = "cover" \/ (pc'[p] = "compare" /\ job'[p].helped = FALSE)
      /\ \A q \in Runs : pc'[q] # "idle" => job'[q] \in Jobs
      /\ WorkSound'
  <2>1. CASE /\ estimate.fee > price.fee
             /\ job' = [job EXCEPT ![p].price = price, ![p].estimate = estimate.fee,
                                   ![p].base = pending]
             /\ Goto(p, "cover")
    <3>1. /\ paying \in Jobs /\ paying.price = price /\ paying.estimate = estimate.fee
          /\ paying.base = pending /\ paying.helped = FALSE /\ paying.row = job[p].row
          BY <1>1, <1>3, <1>6, <1>7 DEF Jobs
    <3>2. DOMAIN job' = Runs /\ job'[p] = paying /\ \A q \in Runs \ {p} : job'[q] = job[q]
          BY <1>1, <2>1
    <3> HIDE DEF paying
    <3>3. SoundAt("cover", paying)
          BY <1>3, <1>6, <2>1, <3>1 DEF SoundAt
    <3>q. QED
          BY <2>1, <3>1, <3>2, <3>3, RunMoves DEF PCs
  <2>2. CASE job' = [job EXCEPT ![p].price = price] /\ Goto(p, "compare")
    <3>1. within \in Jobs /\ within.price = price /\ within.helped = FALSE /\ within.row = job[p].row
          BY <1>1, <1>6 DEF Jobs
    <3>2. DOMAIN job' = Runs /\ job'[p] = within /\ \A q \in Runs \ {p} : job'[q] = job[q]
          BY <1>1, <2>2
    <3> HIDE DEF within
    <3>3. SoundAt("compare", within)
          BY <1>6, <3>1 DEF SoundAt
    <3>q. QED
          BY <2>2, <3>1, <3>2, <3>3, RunMoves DEF PCs
  <2>q. QED
        BY <1>5, <2>1, <2>2
<1>q. QED
      BY <1>4, <1>8 DEF FeeInv, TypeOK, HistoryReal, market, history

(* The decision to pay.                                                       *)
LEMMA CoverSound ==
    ASSUME FeeInv, NEW p \in Runs, Cover(p)
    PROVE  /\ FeeInv' /\ KeepsOthers(p) /\ job'[p].row = job[p].row
           /\ \/ pc'[p] = "look" /\ job'[p].worst = WorstPrice(expected)
              \/ pc'[p] = "compare" /\ job'[p].helped = FALSE
<1> DEFINE worst == WorstPrice(expected)
<1>1. job[p] \in Jobs /\ SoundAt("cover", job[p]) /\ DOMAIN job = Runs
      BY DEF FeeInv, TypeOK, WorkSound, Cover
<1>2. worst # NoPrice => worst \in Nat
      BY PricesAssumption DEF FeeInv, TypeOK, WorstPrice
<1>3. UNCHANGED <<market, expected, row, node, payments, sent, updates, history>>
      BY DEF Cover
<1>4. faults' \in 0..MaxFaults
      BY BoundsAssumption DEF Cover, Fault, FeeInv, TypeOK
<1>5. \/ /\ worst # NoPrice /\ worst < job[p].estimate /\ LeftToCover(job[p], worst) > 0
         /\ job' = [job EXCEPT ![p].worst = worst, ![p].upTo = UpTo(job[p], worst),
                               ![p].value = TotalValue(job[p], worst)]
         /\ Goto(p, "look")
      \/ Goto(p, "compare") /\ job' = [job EXCEPT ![p] = Unhelped(job[p])]
      BY DEF Cover
<1> HIDE DEF worst
<1>6. /\ pc' \in [Runs -> PCs] /\ DOMAIN job' = Runs
      /\ KeepsOthers(p) /\ job'[p].row = job[p].row
      /\ \/ pc'[p] = "look" /\ job'[p].worst = worst
         \/ pc'[p] = "compare" /\ job'[p].helped = FALSE
      /\ \A q \in Runs : pc'[q] # "idle" => job'[q] \in Jobs
      /\ WorkSound'
  <2>1. CASE /\ worst # NoPrice /\ worst < job[p].estimate /\ LeftToCover(job[p], worst) > 0
             /\ job' = [job EXCEPT ![p].worst = worst, ![p].upTo = UpTo(job[p], worst),
                                   ![p].value = TotalValue(job[p], worst)]
             /\ Goto(p, "look")
    <3> DEFINE j == Covering(job[p], worst)
    <3>1. DOMAIN job' = Runs /\ job'[p] = j /\ \A q \in Runs \ {p} : job'[q] = job[q]
          BY <1>1, <2>1 DEF Covering
    <3>2. j \in Jobs /\ SoundAt("look", j)
          BY <1>1, <1>2, <2>1, CoveringSound
    <3>3. j.worst = worst /\ j.row = job[p].row
          BY <1>1 DEF Covering, Jobs
    <3> HIDE DEF j
    <3>q. QED
          BY <2>1, <3>1, <3>2, <3>3, RunMoves DEF PCs
  <2>2. CASE Goto(p, "compare") /\ job' = [job EXCEPT ![p] = Unhelped(job[p])]
    <3>1. /\ DOMAIN job' = Runs /\ job'[p] = Unhelped(job[p])
          /\ \A q \in Runs \ {p} : job'[q] = job[q]
          BY <1>1, <2>2
    <3>2. /\ Unhelped(job[p]) \in Jobs /\ SoundAt("compare", Unhelped(job[p]))
          /\ Unhelped(job[p]).row = job[p].row /\ Unhelped(job[p]).helped = FALSE
          BY <1>1, UnhelpedSound
    <3>q. QED
          BY <2>2, <3>1, <3>2, RunMoves DEF PCs
  <2>q. QED
        BY <1>5, <2>1, <2>2
<1>7. FeeInv'
      BY <1>3, <1>4, <1>6 DEF FeeInv, TypeOK, HistoryReal, market, history
<1>q. QED
      BY <1>6, <1>7 DEF worst

(* A run whose payment is made, or was already there, offers what it is for.  *)
LEMMA RaisedMoves ==
    ASSUME FeeInv, NEW p \in Runs, pc[p] \in {"look", "pay"},
           Goto(p, "compare"), job' = [job EXCEPT ![p] = Raised(job[p])]
    PROVE  /\ pc' \in [Runs -> PCs] /\ DOMAIN job' = Runs /\ pc'[p] = "compare"
           /\ KeepsOthers(p) /\ job'[p].row = job[p].row
           /\ job'[p].price.fee = job[p].upTo /\ job'[p].helped
           /\ \A q \in Runs : pc'[q] # "idle" => job'[q] \in Jobs
           /\ WorkSound'
<1>1. job[p] \in Jobs /\ SoundAt(pc[p], job[p]) /\ DOMAIN job = Runs
      BY DEF FeeInv, TypeOK, WorkSound
<1>2. /\ Raised(job[p]) \in Jobs /\ SoundAt("compare", Raised(job[p]))
      /\ Raised(job[p]).row = job[p].row /\ Raised(job[p]).price.fee = job[p].upTo
      /\ Raised(job[p]).helped
      BY <1>1, RaisedSound
<1>3. /\ DOMAIN job' = Runs /\ job'[p] = Raised(job[p])
      /\ \A q \in Runs \ {p} : job'[q] = job[q]
      BY <1>1
<1>q. QED
      BY <1>2, <1>3, RunMoves DEF PCs

(* broadcastExecution of a payment, in a slot that may be taken.              *)
LEMMA LookForPaymentSound ==
    ASSUME FeeInv, NEW p \in Runs, LookForPayment(p)
    PROVE  /\ FeeInv' /\ KeepsOthers(p) /\ job'[p].row = job[p].row
           /\ \/ pc'[p] = "pay" /\ job'[p] = job[p]
              \/ /\ pc'[p] = "compare" /\ job[p].estimate \in payments
                 /\ job'[p].price.fee = job[p].upTo
<1>1. UNCHANGED <<market, expected, row, node, payments, sent, updates, faults, history>>
      BY DEF LookForPayment
<1>2. pc[p] = "look"
      BY DEF LookForPayment
<1>3. /\ pc' \in [Runs -> PCs] /\ DOMAIN job' = Runs
      /\ KeepsOthers(p) /\ job'[p].row = job[p].row
      /\ \/ pc'[p] = "pay" /\ job'[p] = job[p]
         \/ /\ pc'[p] = "compare" /\ job[p].estimate \in payments
            /\ job'[p].price.fee = job[p].upTo
      /\ \A q \in Runs : pc'[q] # "idle" => job'[q] \in Jobs
      /\ WorkSound'
  <2>1. CASE /\ job[p].estimate \in payments
             /\ Goto(p, "compare") /\ job' = [job EXCEPT ![p] = Raised(job[p])]
        BY <1>2, <2>1, RaisedMoves
  <2>2. CASE Goto(p, "pay") /\ job' = job
    <3>1. job[p] \in Jobs /\ SoundAt("look", job[p]) /\ DOMAIN job = Runs
          BY <1>2 DEF FeeInv, TypeOK, WorkSound
    <3>2. SoundAt("pay", job[p])
          BY <3>1 DEF SoundAt
    <3>q. QED
          BY <2>2, <3>1, <3>2, RunMoves DEF PCs
  <2>q. QED
        BY <2>1, <2>2 DEF LookForPayment
<1>4. FeeInv'
      BY <1>1, <1>3 DEF FeeInv, TypeOK, HistoryReal, market, history
<1>q. QED
      BY <1>3, <1>4

(* A run whose work ends.                                                     *)
LEMMA LeaveMoves ==
    ASSUME FeeInv, NEW p \in Runs, Leave(p)
    PROVE  /\ pc' \in [Runs -> PCs] /\ DOMAIN job' = Runs /\ pc'[p] = "idle"
           /\ KeepsOthers(p)
           /\ \A q \in Runs : pc'[q] # "idle" => job'[q] \in Jobs
           /\ WorkSound'
<1>1. Goto(p, "idle") /\ DOMAIN job' = Runs /\ \A q \in Runs \ {p} : job'[q] = job[q]
      BY DEF Leave, FeeInv, TypeOK
<1>q. QED
      BY <1>1, RunMoves DEF PCs

(* A payment, the failure to store it and the failure to make it.             *)
LEMMA PaySound ==
    ASSUME FeeInv, NEW p \in Runs, Pay(p)
    PROVE  /\ FeeInv' /\ KeepsOthers(p)
           /\ \/ pc'[p] = "idle"
              \/ /\ pc'[p] = "compare" /\ job'[p].row = job[p].row
                 /\ job'[p].price.fee = job[p].upTo
<1> DEFINE value == ValueToSend(job[p], job[p].worst)
<1>1. pc[p] = "pay" /\ job[p] \in Jobs /\ SoundAt("pay", job[p])
      BY DEF FeeInv, TypeOK, WorkSound, Pay
<1>2. value \in Nat /\ job[p].upTo \in Nat /\ job[p].value \in Nat /\ job[p].estimate \in Nat
      BY <1>1, PaymentReaches, JobFields
<1> HIDE DEF value
<1>3. UNCHANGED <<market, expected, node, updates, moved>>
      BY DEF Pay
<1>4. CASE /\ payments' = payments \cup {job[p].estimate}
           /\ row' = [row EXCEPT !.upTo = job[p].upTo, !.valueSent = job[p].value]
           /\ sent' = sent + value
           /\ Goto(p, "compare") /\ job' = [job EXCEPT ![p] = Raised(job[p])]
           /\ Race(p)
           /\ UNCHANGED <<faults, unstored>>
  <2>1. payments' \subseteq Nat /\ sent' \in Nat /\ row' \in Row
    <3>1. payments \subseteq Nat /\ sent \in Nat /\ row \in Row
          BY DEF FeeInv, TypeOK
    <3>2. row' \in Row
          BY <1>2, <1>4, <3>1 DEF Row
    <3>q. QED
          BY <1>2, <1>4, <3>1, <3>2
  <2>2. raced' \in BOOLEAN
        BY <1>4 DEF Race
  <2>3. /\ pc' \in [Runs -> PCs] /\ DOMAIN job' = Runs /\ pc'[p] = "compare"
        /\ KeepsOthers(p) /\ job'[p].row = job[p].row /\ job'[p].price.fee = job[p].upTo
        /\ \A q \in Runs : pc'[q] # "idle" => job'[q] \in Jobs
        /\ WorkSound'
        BY <1>1, <1>4, RaisedMoves
  <2>4. FeeInv'
        BY <1>3, <1>4, <2>1, <2>2, <2>3 DEF FeeInv, TypeOK, HistoryReal, market
  <2>q. QED
        BY <2>3, <2>4
<1>5. CASE /\ Fault
           /\ sent' = sent + value
           /\ unstored' = TRUE
           /\ Goto(p, "compare") /\ job' = [job EXCEPT ![p] = Raised(job[p])]
           /\ UNCHANGED <<payments, row, raced>>
  <2>1. sent' \in Nat /\ faults' \in 0..MaxFaults
        BY <1>2, <1>5, BoundsAssumption DEF FeeInv, TypeOK, Fault
  <2>2. /\ pc' \in [Runs -> PCs] /\ DOMAIN job' = Runs /\ pc'[p] = "compare"
        /\ KeepsOthers(p) /\ job'[p].row = job[p].row /\ job'[p].price.fee = job[p].upTo
        /\ \A q \in Runs : pc'[q] # "idle" => job'[q] \in Jobs
        /\ WorkSound'
        BY <1>1, <1>5, RaisedMoves
  <2>3. FeeInv'
        BY <1>3, <1>5, <2>1, <2>2 DEF FeeInv, TypeOK, HistoryReal, market
  <2>q. QED
        BY <2>2, <2>3
<1>6. CASE Fault /\ Leave(p) /\ UNCHANGED <<payments, row, sent, raced, unstored>>
  <2>1. faults' \in 0..MaxFaults
        BY <1>6, BoundsAssumption DEF FeeInv, TypeOK, Fault
  <2>2. /\ pc' \in [Runs -> PCs] /\ DOMAIN job' = Runs /\ pc'[p] = "idle" /\ KeepsOthers(p)
        /\ \A q \in Runs : pc'[q] # "idle" => job'[q] \in Jobs
        /\ WorkSound'
        BY <1>6, LeaveMoves
  <2>3. FeeInv'
        BY <1>3, <1>6, <2>1, <2>2 DEF FeeInv, TypeOK, HistoryReal, market
  <2>q. QED
        BY <2>2, <2>3
<1>q. QED
      BY <1>4, <1>5, <1>6 DEF Pay, value

(* The resubmission.                                                          *)
LEMMA CompareSound ==
    ASSUME FeeInv, NEW p \in Runs, Compare(p)
    PROVE  FeeInv' /\ KeepsOthers(p) /\ pc'[p] = "idle"
<1> DEFINE new == Signed(job[p].price)
<1>1. job[p] \in Jobs
      BY DEF FeeInv, TypeOK, Compare
<1>2. new \in GasPrice
      BY <1>1, JobFields, SignedType
<1>3. UNCHANGED <<market, expected, payments, sent, updates, faults, moved, unstored>>
      BY DEF Compare
<1>4. \/ /\ row' = [row EXCEPT !.fee = new.fee, !.priority = new.priority]
         /\ node' = IF node = NoPrice \/ new.fee > node.fee THEN new ELSE node
         /\ Race(p)
      \/ UNCHANGED <<row, node, raced>>
      BY DEF Compare
<1> HIDE DEF new
<1>5. row' \in Row /\ node' \in GasPrice \cup {NoPrice} /\ raced' \in BOOLEAN
  <2>1. CASE /\ row' = [row EXCEPT !.fee = new.fee, !.priority = new.priority]
             /\ node' = IF node = NoPrice \/ new.fee > node.fee THEN new ELSE node
             /\ Race(p)
    <3>1. new.fee \in Nat /\ new.priority \in Nat
          BY <1>2 DEF GasPrice
    <3>2. row' \in Row
          BY <2>1, <3>1 DEF FeeInv, TypeOK, Row
    <3>3. node' \in GasPrice \cup {NoPrice}
          BY <1>2, <2>1 DEF FeeInv, TypeOK
    <3>4. raced' \in BOOLEAN
          BY <2>1 DEF Race
    <3>q. QED
          BY <3>2, <3>3, <3>4
  <2>2. CASE UNCHANGED <<row, node, raced>>
        BY <2>2 DEF FeeInv, TypeOK
  <2>q. QED
        BY <1>4, <2>1, <2>2
<1>6. /\ pc' \in [Runs -> PCs] /\ DOMAIN job' = Runs /\ pc'[p] = "idle" /\ KeepsOthers(p)
      /\ \A q \in Runs : pc'[q] # "idle" => job'[q] \in Jobs
      /\ WorkSound'
      BY LeaveMoves DEF Compare
<1>7. FeeInv'
      BY <1>3, <1>5, <1>6 DEF FeeInv, TypeOK, HistoryReal, market
<1>q. QED
      BY <1>6, <1>7

(* What happens beside the runs leaves their work alone.                      *)
LEMMA MarketSound ==
    ASSUME FeeInv, UpdateExpectedWorstCaseGasPrice \/ NewBlock \/ Drop
    PROVE  FeeInv' /\ UNCHANGED run
<1>1. ASSUME UNCHANGED run
      PROVE  /\ pc' \in [Runs -> PCs] /\ DOMAIN job' = Runs
             /\ \A q \in Runs : pc'[q] # "idle" => job'[q] \in Jobs
             /\ WorkSound'
      BY <1>1 DEF FeeInv, TypeOK, WorkSound, run
<1>2. CASE UpdateExpectedWorstCaseGasPrice
  <2>1. UNCHANGED <<market, row, node, payments, sent, run, faults, raced, unstored>>
        BY <1>2 DEF UpdateExpectedWorstCaseGasPrice
  <2>2. expected' \in Nat /\ updates' \in 0..MaxUpdates
        BY <1>2, PricesAssumption, BoundsAssumption
           DEF UpdateExpectedWorstCaseGasPrice, FeeInv, TypeOK
  <2>3. moved' \in BOOLEAN
        BY <1>2 DEF UpdateExpectedWorstCaseGasPrice
  <2>q. QED
        BY <1>1, <2>1, <2>2, <2>3 DEF FeeInv, TypeOK, HistoryReal, market
<1>3. CASE NewBlock
  <2>1. UNCHANGED <<expected, row, node, payments, sent, run, updates, faults, history>>
        BY <1>3 DEF NewBlock
  <2>2. now' \in 0..MaxTime
        BY <1>3, BoundsAssumption DEF NewBlock, FeeInv, TypeOK
  <2>3. PICK block \in Block : blocks' = Append(Tail(blocks), block)
        BY <1>3 DEF NewBlock
  <2>4. blocks' \in [1..History -> Block]
    <3>1. blocks \in [1..History -> Block] /\ History \in Nat \ {0}
          BY PricesAssumption DEF FeeInv, HistoryReal
    <3>q. QED
          BY <2>3, <3>1, SlidingHistory
  <2>5. pending' \in Bases /\ pending' \in Nat
        BY <1>3, PricesAssumption DEF NewBlock
  <2>6. \A i \in DOMAIN blocks' : blocks'[i].base \in Nat /\ blocks'[i].used \in 0..100
        BY <2>4, BlockType
  <2>q. QED
        BY <1>1, <2>1, <2>2, <2>4, <2>5, <2>6 DEF FeeInv, TypeOK, HistoryReal, history
<1>4. CASE Drop
  <2>1. UNCHANGED <<market, expected, row, payments, sent, run, updates, history>>
        BY <1>4 DEF Drop
  <2>2. node' = NoPrice /\ faults' \in 0..MaxFaults
        BY <1>4, BoundsAssumption DEF Drop, Fault, FeeInv, TypeOK
  <2>q. QED
        BY <1>1, <2>1, <2>2 DEF FeeInv, TypeOK, HistoryReal, market, history
<1>q. QED
      BY <1>2, <1>3, <1>4

(* The execution has just been broadcast.                                     *)
LEMMA FeeInvInit == Init => FeeInv
<1> SUFFICES ASSUME Init
             PROVE  FeeInv
    OBVIOUS
<1> DEFINE estimate == BestGasEstimate(GasPriceEstimate(blocks, pending), FALSE)
<1>1. HistoryReal
      BY DEF Init, HistoryReal
<1>2. estimate \in GasPrice /\ pending \in Nat
      BY <1>1, EstimateNow
<1>3. node = Signed(GasFee(estimate, Authorized))
      BY DEF Init
<1> HIDE DEF estimate
<1>4. node \in GasPrice
      BY <1>2, <1>3, FeeOfEstimate, SignedType
<1>5. row \in Row
  <2>1. node.fee \in Nat /\ node.priority \in Nat
        BY <1>4 DEF GasPrice
  <2>q. QED
        BY <2>1 DEF Init, Row
<1>6. \A i \in DOMAIN blocks : blocks[i].base \in Nat /\ blocks[i].used \in 0..100
      BY <1>1, BlockType DEF HistoryReal
<1>7. expected \in Nat \cup {NoPrice}
      BY PricesAssumption DEF Init
<1>8. TypeOK
  <2>1. /\ now \in 0..MaxTime /\ updates \in 0..MaxUpdates /\ faults \in 0..MaxFaults
        /\ payments \subseteq Nat /\ sent \in Nat
    <3>1. MaxTime \in Nat /\ MaxUpdates \in Nat /\ MaxFaults \in Nat
          BY BoundsAssumption
    <3>2. now = 0 /\ updates = 0 /\ faults = 0 /\ payments = {} /\ sent = 0
          BY DEF Init
    <3>q. QED
          BY <3>1, <3>2
  <2>3. raced \in BOOLEAN /\ moved \in BOOLEAN /\ unstored \in BOOLEAN
        BY DEF Init
  <2>2. /\ pc \in [Runs -> PCs] /\ DOMAIN job = Runs
        /\ \A p \in Runs : pc[p] = "idle"
        BY DEF Init, PCs
  <2>q. QED
        BY <1>2, <1>4, <1>5, <1>6, <1>7, <2>1, <2>2, <2>3 DEF TypeOK
<1>9. WorkSound
      BY DEF Init, WorkSound, SoundAt
<1>q. QED
      BY <1>1, <1>8, <1>9 DEF FeeInv

LEMMA FeeInvStep == FeeInv /\ [Next]_vars => FeeInv'
<1> SUFFICES ASSUME FeeInv, [Next]_vars
             PROVE  FeeInv'
    OBVIOUS
<1>1. ASSUME NEW p \in Runs, ProcessPending(p)
      PROVE  FeeInv'
      BY <1>1, ReadPendingSound, GetGasFeeSound, CoverSound, LookForPaymentSound, PaySound,
         CompareSound DEF ProcessPending
<1>2. CASE UNCHANGED vars
      BY <1>2 DEF vars, market, run, history, FeeInv, TypeOK, HistoryReal, WorkSound
<1>q. QED
      BY <1>1, <1>2, MarketSound DEF Next

LEMMA FeeInvAlways == Spec => []FeeInv
BY FeeInvInit, FeeInvStep, PTL DEF Spec

(* Fees, prices, payments and the work of runs keep their types.              *)
THEOREM FeeTypeCorrect == Spec => []TypeOK
<1>1. FeeInv => TypeOK
      BY DEF FeeInv
<1>q. QED
      BY <1>1, FeeInvAlways, PTL

(* Whatever blocks come, an estimate is above the base fee of the block to    *)
(* come, and above the one after it when blocks are full: GasPriceEstimate    *)
(* and getBestGasEstimate.                                                    *)
THEOREM EstimateAlwaysCovers == Spec => []EstimateCovers
<1>1. FeeInv => EstimateCovers
      BY EstimateNow DEF FeeInv, EstimateCovers
<1>q. QED
      BY <1>1, FeeInvAlways, PTL

(* Whatever the prices are, a fee that has been helped is above the base fee  *)
(* its estimate was made for when the user has authorized the worst price     *)
(* that is expected: upToGasPrice of _resubmitIfNeeded.                       *)
THEOREM HelpAlwaysEnough == Spec => []HelpEnough
<1>1. FeeInv => HelpEnough
  <2> SUFFICES ASSUME FeeInv, NEW p \in Runs,
                      pc[p] = "compare", job[p].helped, Own >= job[p].worst
               PROVE  job[p].price.fee > job[p].base
      BY DEF HelpEnough
  <2>1. job[p] \in Jobs /\ SoundAt("compare", job[p])
        BY DEF FeeInv, TypeOK, WorkSound
  <2>2. job[p].price.fee \in Nat /\ job[p].base \in Nat
        BY <2>1, JobFields
  <2>3. job[p].worst \in Nat /\ job[p].price.fee + job[p].worst > job[p].base + Own
        BY <2>1 DEF SoundAt
  <2>q. QED
        BY <2>2, <2>3, OwnType
<1>q. QED
      BY <1>1, FeeInvAlways, PTL

-----------------------------------------------------------------------------
(* What has been sent covers a price.                                         *)
Covers(price) == Gas * (price - Own) <= sent

(* What a run relies on: the help it has read is covered, and the worst price *)
(* it pays from is the one that is expected.                                  *)
HelpAt(label, j) ==
    /\ label # "idle" /\ j.row.upTo > 0 => Covers(j.row.upTo)
    /\ label \in {"look", "pay"} => j.worst = WorstPrice(expected)
    /\ label = "compare" /\ j.helped => Covers(j.price.fee)

(* Unless the admin has moved the price under a payment, the value that has   *)
(* been sent covers the fee, the help that is recorded and every payment that *)
(* a later run may find, measured from the worst price expected now.          *)
HelpCovers ==
    ~moved =>
        /\ row.fee <= Own \/ Covers(row.fee)
        /\ row.upTo > 0 => Covers(row.upTo)
        /\ \A e \in payments :
              WorstPrice(expected) # NoPrice /\ Gas * (e - WorstPrice(expected)) <= sent
        /\ \A p \in Runs : HelpAt(pc[p], job[p])

(* What was covered stays covered.                                            *)
LEMMA CoveredStays ==
    ASSUME sent \in Nat, sent' \in Nat, sent' >= sent, NEW price \in Nat, Covers(price)
    PROVE  Covers(price)'
<1>1. Gas * (price - Own) \in Int
      BY OwnType, GasTimes
<1>q. QED
      BY <1>1 DEF Covers

(* A step of a run that sends nothing or more and writes nothing.             *)
LEMMA HelpMoves ==
    ASSUME FeeInv, FeeInv', HelpCovers, ~moved, NEW p \in Runs, KeepsOthers(p),
           expected' = expected, sent' >= sent, HelpAt(pc[p], job[p])'
    PROVE  \A q \in Runs : HelpAt(pc[q], job[q])'
<1> SUFFICES ASSUME NEW q \in Runs \ {p}
             PROVE  HelpAt(pc[q], job[q])'
    OBVIOUS
<1>1. sent \in Nat /\ sent' \in Nat /\ (pc[q] # "idle" => job[q] \in Jobs)
      BY DEF FeeInv, TypeOK
<1>2. HelpAt(pc[q], job[q])
      BY DEF HelpCovers
<1>3. pc'[q] = pc[q] /\ job'[q] = job[q]
      BY DEF KeepsOthers
<1>4. pc[q] # "idle" => job[q].row.upTo \in Nat /\ job[q].price.fee \in Nat
      BY <1>1, JobFields
<1>q. QED
      BY <1>1, <1>2, <1>3, <1>4, CoveredStays DEF HelpAt, Covers

(* Without a change of rows, payments and price, only the run matters.        *)
LEMMA HelpKept ==
    ASSUME FeeInv, FeeInv', HelpCovers, NEW p \in Runs, KeepsOthers(p),
           UNCHANGED <<expected, row, payments, sent, moved>>,
           ~moved => HelpAt(pc[p], job[p])'
    PROVE  HelpCovers'
<1> SUFFICES ASSUME ~moved
             PROVE  HelpCovers'
    BY DEF HelpCovers
<1>1. \A q \in Runs : HelpAt(pc[q], job[q])'
  <2>1. sent' >= sent
        BY DEF FeeInv, TypeOK
  <2>q. QED
        BY <2>1, HelpMoves
<1>2. WorstPrice(expected)' = WorstPrice(expected)
      BY DEF WorstPrice
<1>q. QED
      BY <1>1, <1>2 DEF HelpCovers, Covers

LEMMA HelpReadPending ==
    ASSUME FeeInv, FeeInv', HelpCovers, NEW p \in Runs, ReadPending(p)
    PROVE  HelpCovers'
<1>1. KeepsOthers(p) /\ pc'[p] = "fee" /\ job'[p].row = row
      BY ReadPendingSound
<1>2. UNCHANGED <<expected, row, payments, sent, moved>>
      BY DEF ReadPending, history
<1>3. ~moved => HelpAt(pc[p], job[p])'
      BY <1>1, <1>2 DEF HelpCovers, HelpAt, Covers
<1>q. QED
      BY <1>1, <1>2, <1>3, HelpKept

LEMMA HelpGetGasFee ==
    ASSUME FeeInv, FeeInv', HelpCovers, NEW p \in Runs, GetGasFee(p)
    PROVE  HelpCovers'
<1>1. /\ KeepsOthers(p) /\ job'[p].row = job[p].row /\ pc[p] = "fee"
      /\ \/ pc'[p] = "cover"
         \/ pc'[p] = "compare" /\ job'[p].helped = FALSE
      BY GetGasFeeSound DEF GetGasFee
<1>2. UNCHANGED <<expected, row, payments, sent, moved>>
      BY DEF GetGasFee, history
<1>3. ~moved => HelpAt(pc[p], job[p])'
      BY <1>1, <1>2 DEF HelpCovers, HelpAt, Covers
<1>q. QED
      BY <1>1, <1>2, <1>3, HelpKept

LEMMA HelpCover ==
    ASSUME FeeInv, FeeInv', HelpCovers, NEW p \in Runs, Cover(p)
    PROVE  HelpCovers'
<1>1. /\ KeepsOthers(p) /\ job'[p].row = job[p].row /\ pc[p] = "cover"
      /\ \/ pc'[p] = "look" /\ job'[p].worst = WorstPrice(expected)
         \/ pc'[p] = "compare" /\ job'[p].helped = FALSE
      BY CoverSound DEF Cover
<1>2. UNCHANGED <<expected, row, payments, sent, moved>>
      BY DEF Cover, history
<1>3. WorstPrice(expected)' = WorstPrice(expected)
      BY <1>2 DEF WorstPrice
<1>4. ~moved => HelpAt(pc[p], job[p])'
      BY <1>1, <1>2, <1>3 DEF HelpCovers, HelpAt, Covers
<1>q. QED
      BY <1>1, <1>2, <1>4, HelpKept

LEMMA HelpLookForPayment ==
    ASSUME FeeInv, FeeInv', HelpCovers, NEW p \in Runs, LookForPayment(p)
    PROVE  HelpCovers'
<1>1. /\ KeepsOthers(p) /\ job'[p].row = job[p].row /\ pc[p] = "look"
      /\ \/ pc'[p] = "pay" /\ job'[p] = job[p]
         \/ /\ pc'[p] = "compare" /\ job[p].estimate \in payments
            /\ job'[p].price.fee = job[p].upTo
      BY LookForPaymentSound DEF LookForPayment
<1>2. UNCHANGED <<expected, row, payments, sent, moved>>
      BY DEF LookForPayment, history
<1>3. WorstPrice(expected)' = WorstPrice(expected)
      BY <1>2 DEF WorstPrice
<1>4. job[p] \in Jobs /\ SoundAt("look", job[p])
      BY <1>1 DEF FeeInv, TypeOK, WorkSound
<1>5. job[p].upTo - Own = job[p].estimate - job[p].worst
      BY <1>4, PaymentReaches
<1>6. ~moved => HelpAt(pc[p], job[p])'
      BY <1>1, <1>2, <1>3, <1>5 DEF HelpCovers, HelpAt, Covers
<1>q. QED
      BY <1>1, <1>2, <1>6, HelpKept

(* A payment adds to what was sent exactly what the help that was read lacks. *)
LEMMA PaymentCovers ==
    ASSUME FeeInv, HelpCovers, ~moved, NEW p \in Runs, pc[p] = "pay",
           sent' = sent + ValueToSend(job[p], job[p].worst)
    PROVE  /\ sent' \in Nat /\ sent' >= sent
           /\ Gas * (job[p].upTo - Own) <= sent'
<1> DEFINE j == job[p]
           left == LeftToCover(j, j.worst)
<1>1. j \in Jobs /\ SoundAt("pay", j) /\ sent \in Nat
      BY DEF FeeInv, TypeOK, WorkSound
<1>2. /\ left \in Nat /\ ValueToSend(j, j.worst) \in Nat
      /\ j.row.upTo = 0 => left = j.upTo - Own
      /\ j.row.upTo > 0 => left = j.upTo - j.row.upTo
      BY <1>1, PaymentReaches
<1>3. ValueToSend(j, j.worst) = Gas * left
      BY DEF ValueToSend
<1>4. j.row.upTo > 0 => Gas * (j.row.upTo - Own) <= sent
      BY DEF HelpCovers, HelpAt, Covers
<1>5. j.upTo \in Nat /\ j.row.upTo \in Nat
      BY <1>1, JobFields
<1> HIDE DEF j, left
<1>6. sent' = sent + Gas * left /\ Gas * left \in Nat
      BY <1>2, <1>3 DEF j
<1>7. CASE j.row.upTo = 0
      BY <1>1, <1>2, <1>5, <1>6, <1>7 DEF j
<1>8. CASE j.row.upTo > 0
  <2>1. j.upTo - Own = (j.row.upTo - Own) + left /\ j.row.upTo - Own \in Int
        BY <1>2, <1>5, <1>8, OwnType
  <2>2. Gas * (j.upTo - Own) = Gas * (j.row.upTo - Own) + Gas * left
    <3> DEFINE read == j.row.upTo - Own
    <3>1. read \in Int /\ left \in Int /\ j.upTo - Own = read + left
          BY <1>2, <2>1
    <3> HIDE DEF read
    <3>2. Gas * (read + left) = Gas * read + Gas * left
          BY <3>1, PricesAssumption
    <3>q. QED
          BY <3>1, <3>2 DEF read
  <2>3. Gas * (j.row.upTo - Own) \in Int
        BY <2>1, GasTimes
  <2>q. QED
        BY <1>1, <1>4, <1>6, <1>8, <2>2, <2>3 DEF j
<1>q. QED
      BY <1>5, <1>7, <1>8

LEMMA HelpPay ==
    ASSUME FeeInv, FeeInv', HelpCovers, NEW p \in Runs, Pay(p)
    PROVE  HelpCovers'
<1> SUFFICES ASSUME ~moved
             PROVE  HelpCovers'
    BY DEF HelpCovers, Pay
<1>1. /\ KeepsOthers(p) /\ pc[p] = "pay" /\ UNCHANGED <<expected, moved>>
      /\ \/ pc'[p] = "idle"
         \/ /\ pc'[p] = "compare" /\ job'[p].row = job[p].row
            /\ job'[p].price.fee = job[p].upTo
      BY PaySound DEF Pay
<1>2. WorstPrice(expected)' = WorstPrice(expected)
      BY <1>1 DEF WorstPrice
<1>3. job[p] \in Jobs /\ SoundAt("pay", job[p]) /\ row \in Row /\ payments \subseteq Nat
      BY <1>1 DEF FeeInv, TypeOK, WorkSound
<1>4. /\ job[p].upTo - Own = job[p].estimate - job[p].worst
      /\ job[p].worst \in Nat /\ job[p].upTo \in Nat /\ job[p].row.upTo \in Nat
      BY <1>3, PaymentReaches, JobFields DEF SoundAt
<1>5. job[p].worst = WorstPrice(expected)
      BY <1>1 DEF HelpCovers, HelpAt
<1>6. row.fee \in Nat /\ row.upTo \in Nat
      BY <1>3 DEF Row
<1>7. CASE sent' = sent + ValueToSend(job[p], job[p].worst) /\ pc'[p] = "compare"
  <2>1. sent' \in Nat /\ sent' >= sent /\ Gas * (job[p].upTo - Own) <= sent'
        BY <1>1, <1>7, PaymentCovers
  <2>2. sent \in Nat
        BY DEF FeeInv, TypeOK
  <2>3. \A price \in Nat : Covers(price) => Gas * (price - Own) <= sent'
        BY <2>1, <2>2, CoveredStays DEF Covers
  <2>4. HelpAt(pc[p], job[p])'
        BY <1>1, <1>4, <1>7, <2>1, <2>3 DEF HelpCovers, HelpAt, Covers
  <2>5. \A q \in Runs : HelpAt(pc[q], job[q])'
        BY <1>1, <2>1, <2>4, HelpMoves
  <2>6. /\ row'.fee = row.fee
        /\ row'.upTo = row.upTo \/ row'.upTo = job[p].upTo
        BY <1>3 DEF Pay, Row, Leave
  <2>7. row'.fee <= Own \/ Gas * (row'.fee - Own) <= sent'
        BY <1>6, <2>3, <2>6 DEF HelpCovers
  <2>8. row'.upTo > 0 => Gas * (row'.upTo - Own) <= sent'
        BY <1>6, <2>1, <2>3, <2>6 DEF HelpCovers
  <2>9. payments' \subseteq payments \cup {job[p].estimate}
        BY DEF Pay
  <2>10. ASSUME NEW e \in payments'
         PROVE  /\ WorstPrice(expected) # NoPrice
                /\ Gas * (e - WorstPrice(expected)) <= sent'
    <3>1. CASE e \in payments
      <4>1. WorstPrice(expected) # NoPrice /\ Gas * (e - WorstPrice(expected)) <= sent
            BY <3>1 DEF HelpCovers
      <4>2. Gas * (e - WorstPrice(expected)) \in Int
        <5>1. e \in Nat /\ WorstPrice(expected) \in Nat
              BY <1>3, <1>4, <1>5, <3>1
        <5>2. e - WorstPrice(expected) \in Int
              BY <5>1
        <5>q. QED
              BY <5>2, GasTimes
      <4>q. QED
            BY <2>1, <2>2, <4>1, <4>2
    <3>2. CASE e = job[p].estimate
          BY <1>4, <1>5, <2>1, <3>2, NoPriceAssumption
    <3>q. QED
          BY <2>9, <3>1, <3>2
  <2>q. QED
        BY <1>2, <2>5, <2>7, <2>8, <2>10 DEF HelpCovers, Covers
<1>8. CASE UNCHANGED <<payments, row, sent>> /\ Leave(p)
  <2>1. pc'[p] = "idle"
        BY <1>8, LeaveMoves
  <2>2. HelpAt(pc[p], job[p])'
        BY <2>1 DEF HelpAt
  <2>q. QED
        BY <1>1, <1>8, <2>2, HelpKept
<1>9. pc \in [Runs -> PCs]
      BY DEF FeeInv, TypeOK
<1>q. QED
      BY <1>7, <1>8, <1>9 DEF Pay, Goto

LEMMA HelpCompare ==
    ASSUME FeeInv, FeeInv', HelpCovers, NEW p \in Runs, Compare(p)
    PROVE  HelpCovers'
<1> SUFFICES ASSUME ~moved
             PROVE  HelpCovers'
    BY DEF HelpCovers, Compare
<1>1. /\ KeepsOthers(p) /\ pc'[p] = "idle" /\ pc[p] = "compare"
      /\ UNCHANGED <<expected, payments, sent, moved>>
      BY CompareSound DEF Compare
<1>2. WorstPrice(expected)' = WorstPrice(expected)
      BY <1>1 DEF WorstPrice
<1>3. job[p] \in Jobs /\ SoundAt("compare", job[p]) /\ row \in Row
      BY <1>1 DEF FeeInv, TypeOK, WorkSound
<1>4. job[p].price.fee <= Own \/ Covers(job[p].price.fee)
      BY <1>1, <1>3 DEF SoundAt, HelpCovers, HelpAt
<1>5. Signed(job[p].price).fee = job[p].price.fee
      BY <1>3, JobFields, SignedType
<1>6. /\ row'.upTo = row.upTo
      /\ row'.fee = row.fee \/ row'.fee = job[p].price.fee
      BY <1>3, <1>5 DEF Compare, Row
<1>7. \A q \in Runs : HelpAt(pc[q], job[q])'
  <2>1. HelpAt(pc[p], job[p])'
        BY <1>1 DEF HelpAt
  <2>2. sent' >= sent
        BY <1>1 DEF FeeInv, TypeOK
  <2>q. QED
        BY <1>1, <2>1, <2>2, HelpMoves
<1>8. row'.fee <= Own \/ Gas * (row'.fee - Own) <= sent'
      BY <1>1, <1>4, <1>6 DEF HelpCovers, Covers
<1>9. row'.upTo > 0 => Gas * (row'.upTo - Own) <= sent'
      BY <1>1, <1>6 DEF HelpCovers, Covers
<1>10. \A e \in payments' :
          WorstPrice(expected)' # NoPrice /\ Gas * (e - WorstPrice(expected)') <= sent'
      BY <1>1, <1>2 DEF HelpCovers
<1>q. QED
      BY <1>7, <1>8, <1>9, <1>10 DEF HelpCovers, Covers

(* A price that moves up, or while nobody pays and nothing is paid, leaves    *)
(* what was sent enough.                                                      *)
LEMMA HelpUpdate ==
    ASSUME FeeInv, FeeInv', HelpCovers, UpdateExpectedWorstCaseGasPrice
    PROVE  HelpCovers'
<1> DEFINE before == WorstPrice(expected)
           after == WorstPrice(expected)'
<1> SUFFICES ASSUME ~moved'
             PROVE  HelpCovers'
    BY DEF HelpCovers
<1>1. UNCHANGED <<row, node, payments, sent, run>>
      BY DEF UpdateExpectedWorstCaseGasPrice
<1>2. /\ ~moved
      /\ payments = {} \/ ~(after < before)
      /\ (\E p \in Runs : pc[p] \in {"look", "pay"}) => after = before
      BY DEF UpdateExpectedWorstCaseGasPrice, WorstPrice
<1>3. before \in Nat \cup {NoPrice} /\ after \in Nat
  <2>1. expected \in Nat \cup {NoPrice} /\ expected' \in Nat
        BY PricesAssumption DEF FeeInv, TypeOK, UpdateExpectedWorstCaseGasPrice
  <2>q. QED
        BY <2>1, PricesAssumption, NoPriceAssumption DEF WorstPrice
<1> HIDE DEF before, after
<1>4. ASSUME NEW e \in payments
      PROVE  after # NoPrice /\ Gas * (e - after) <= sent
  <2>1. before # NoPrice /\ Gas * (e - before) <= sent
        BY <1>2 DEF HelpCovers, before
  <2>2. e \in Nat /\ sent \in Nat /\ before \in Nat /\ before <= after
    <3>1. e \in Nat /\ sent \in Nat
          BY DEF FeeInv, TypeOK
    <3>2. before \in Nat /\ ~(after < before)
          BY <1>2, <1>3, <2>1
    <3>q. QED
          BY <1>3, <3>1, <3>2
  <2> DEFINE reaches == e - after
             reached == e - before
  <2>3. reaches \in Int /\ reached \in Int /\ reaches <= reached
        BY <1>3, <2>2
  <2> HIDE DEF reaches, reached
  <2>4. Gas * reaches \in Int /\ Gas * reached \in Int /\ Gas * reaches <= Gas * reached
        BY <2>3, GasTimes, GasMonotone
  <2>5. Gas * (e - after) \in Int /\ Gas * (e - after) <= Gas * (e - before)
        BY <2>4 DEF reaches, reached
  <2>q. QED
        BY <1>3, <2>1, <2>2, <2>4, <2>5, NoPriceAssumption DEF reached
<1>5. ASSUME NEW p \in Runs
      PROVE  HelpAt(pc[p], job[p])'
  <2>1. HelpAt(pc[p], job[p])
        BY <1>2 DEF HelpCovers
  <2>q. QED
        BY <1>1, <1>2, <2>1 DEF HelpAt, Covers, run, before, after
<1>6. row.fee <= Own \/ Covers(row.fee)
      BY <1>2 DEF HelpCovers
<1>7. row.upTo > 0 => Covers(row.upTo)
      BY <1>2 DEF HelpCovers
<1>q. QED
      BY <1>1, <1>4, <1>5, <1>6, <1>7 DEF HelpCovers, Covers, after

LEMMA HelpUnchanged ==
    ASSUME HelpCovers, UNCHANGED <<expected, row, payments, sent, run, moved>>
    PROVE  HelpCovers'
<1>1. WorstPrice(expected)' = WorstPrice(expected)
      BY DEF WorstPrice
<1>q. QED
      BY <1>1 DEF HelpCovers, HelpAt, Covers, run

HelpInv == FeeInv /\ HelpCovers

LEMMA HelpInvInit == Init => HelpInv
<1>1. ASSUME Init
      PROVE  HelpCovers
  <2> DEFINE estimate == BestGasEstimate(GasPriceEstimate(blocks, pending), FALSE)
  <2>1. estimate \in GasPrice
        BY <1>1, EstimateNow DEF Init, HistoryReal
  <2>2. node = Signed(GasFee(estimate, Authorized)) /\ row.fee = node.fee
        BY <1>1 DEF Init
  <2> HIDE DEF estimate
  <2>3. row.fee <= Own
        BY <2>1, <2>2, FeeOfEstimate, SignedType
  <2>4. row.upTo = 0 /\ payments = {} /\ \A p \in Runs : pc[p] = "idle"
        BY <1>1 DEF Init
  <2>q. QED
        BY <2>3, <2>4 DEF HelpCovers, HelpAt
<1>q. QED
      BY <1>1, FeeInvInit DEF HelpInv

LEMMA HelpInvStep == HelpInv /\ [Next]_vars => HelpInv'
<1> SUFFICES ASSUME FeeInv, HelpCovers, [Next]_vars
             PROVE  FeeInv' /\ HelpCovers'
    BY DEF HelpInv
<1>1. FeeInv'
      BY FeeInvStep
<1>2. ASSUME NEW p \in Runs, ProcessPending(p)
      PROVE  HelpCovers'
      BY <1>1, <1>2, HelpReadPending, HelpGetGasFee, HelpCover, HelpLookForPayment, HelpPay,
         HelpCompare DEF ProcessPending
<1>3. CASE NewBlock \/ Drop \/ UNCHANGED vars
      BY <1>1, <1>3, HelpUnchanged DEF NewBlock, Drop, vars, history, run
<1>q. QED
      BY <1>1, <1>2, <1>3, HelpUpdate DEF Next

(* However runs interleave, payments fail to be stored and prices move, what  *)
(* a broadcaster pays beyond the authorization has been sent to it, unless    *)
(* the admin moved the expected price under a payment: _resubmitIfNeeded.     *)
THEOREM FeeAlwaysCovered == Spec => []FeeCovered
<1>1. HelpInv => FeeCovered
      BY DEF HelpInv, HelpCovers, Covers, FeeCovered
<1>q. QED
      BY <1>1, HelpInvInit, HelpInvStep, PTL DEF Spec

-----------------------------------------------------------------------------
(* A run at work has read what is recorded.                                   *)
RecordAt(label, j) ==
    label \in {"fee", "cover", "look", "pay"} =>
        j.row.upTo = row.upTo /\ j.row.valueSent = row.valueSent

(* As long as no run wrote beside another and no payment went out unrecorded, *)
(* the record is exact, for the runs at work too.                             *)
RecordExact ==
    ~raced /\ ~unstored =>
        /\ sent = row.valueSent
        /\ row.valueSent = 0 <=> row.upTo = 0
        /\ row.valueSent = 0 \/ row.valueSent = Gas * (row.upTo - Own)
        /\ \A p \in Runs : RecordAt(pc[p], job[p])

(* Steps that leave the record and what is sent alone.                        *)
LEMMA RecordKept ==
    ASSUME FeeInv, RecordExact, NEW p \in Runs, KeepsOthers(p),
           UNCHANGED <<sent, unstored>>, row'.upTo = row.upTo, row'.valueSent = row.valueSent,
           ~raced' => ~raced,
           \/ pc'[p] \in {"idle", "compare"}
           \/ pc[p] \in {"fee", "cover", "look", "pay"} /\ job'[p].row = job[p].row
           \/ job'[p].row = row
    PROVE  RecordExact'
<1> SUFFICES ASSUME ~raced', ~unstored'
             PROVE  RecordExact'
    BY DEF RecordExact
<1>1. \A q \in Runs : RecordAt(pc[q], job[q])'
  <2>1. RecordAt(pc[p], job[p])'
        BY DEF RecordExact, RecordAt
  <2>2. \A q \in Runs \ {p} : RecordAt(pc[q], job[q])'
        BY DEF RecordExact, RecordAt, KeepsOthers
  <2>q. QED
        BY <2>1, <2>2
<1>q. QED
      BY <1>1 DEF RecordExact

(* A payment that is recorded, by the only run at work.                       *)
LEMMA RecordPay ==
    ASSUME FeeInv, RecordExact, NEW p \in Runs, Pay(p)
    PROVE  RecordExact'
<1> DEFINE j == job[p]
           left == LeftToCover(j, j.worst)
           value == ValueToSend(j, j.worst)
<1> SUFFICES ASSUME ~raced', ~unstored'
             PROVE  RecordExact'
    BY DEF RecordExact
<1>1. pc[p] = "pay" /\ j \in Jobs /\ SoundAt("pay", j) /\ row \in Row
      BY DEF FeeInv, TypeOK, WorkSound, Pay
<1>2. KeepsOthers(p) /\ (pc'[p] = "idle" \/ pc'[p] = "compare")
      BY PaySound
<1>3. CASE /\ row' = [row EXCEPT !.upTo = j.upTo, !.valueSent = j.value]
           /\ sent' = sent + value
           /\ Race(p)
           /\ UNCHANGED unstored
  <2>1. ~raced /\ ~unstored /\ \A q \in Runs \ {p} : pc[q] = "idle"
        BY <1>3 DEF Race
  <2>2. /\ sent = row.valueSent
        /\ row.valueSent = 0 <=> row.upTo = 0
        /\ row.valueSent = 0 \/ row.valueSent = Gas * (row.upTo - Own)
        /\ j.row.upTo = row.upTo /\ j.row.valueSent = row.valueSent
        BY <1>1, <2>1 DEF RecordExact, RecordAt
  <2>3. /\ j.row.upTo \in Nat /\ j.row.valueSent \in Nat /\ j.upTo \in Nat
        BY <1>1, JobFields
  <2>4. /\ left \in Nat /\ value \in Nat /\ value > 0 /\ j.upTo > Own
        /\ j.row.upTo = 0 => left = j.upTo - Own
        /\ j.row.upTo > 0 => left = j.upTo - j.row.upTo
        BY <1>1, PaymentReaches
  <2>5. value = Gas * left
        BY DEF ValueToSend
  <2>6. j.value = j.row.valueSent + value
        BY <1>1 DEF SoundAt, TotalValue
  <2>7. row'.upTo = j.upTo /\ row'.valueSent = j.value
        BY <1>1, <1>3 DEF Row
  <2> HIDE DEF j, left, value
  <2>8. sent' = row'.valueSent
        BY <1>3, <2>2, <2>6, <2>7
  <2>9. row'.valueSent > 0 /\ row'.upTo > 0
        BY <2>3, <2>4, <2>6, <2>7, OwnType
  <2>10. row'.valueSent = Gas * (row'.upTo - Own)
    <3>1. CASE j.row.upTo = 0
          BY <2>2, <2>3, <2>4, <2>5, <2>6, <2>7, <3>1
    <3>2. CASE j.row.upTo > 0
      <4> DEFINE read == j.row.upTo - Own
      <4>1. /\ read \in Int /\ j.row.valueSent = Gas * read
            /\ j.upTo - Own = read + left
            BY <2>2, <2>3, <2>4, <3>2, OwnType
      <4> HIDE DEF read
      <4>2. Gas * (read + left) = Gas * read + Gas * left
            BY <2>4, <4>1, PricesAssumption
      <4>q. QED
            BY <2>5, <2>6, <2>7, <4>1, <4>2
    <3>q. QED
          BY <2>3, <3>1, <3>2
  <2>11. \A q \in Runs : RecordAt(pc[q], job[q])'
        BY <1>2, <2>1 DEF RecordAt, KeepsOthers
  <2>q. QED
        BY <2>8, <2>9, <2>10, <2>11 DEF RecordExact
<1>4. CASE UNCHANGED <<row, sent, raced, unstored>>
      BY <1>2, <1>4, RecordKept
<1>q. QED
      BY <1>3, <1>4 DEF Pay

(* The resubmission writes the fee and leaves the record alone.               *)
LEMMA RecordCompare ==
    ASSUME FeeInv, RecordExact, NEW p \in Runs, Compare(p)
    PROVE  RecordExact'
<1>1. KeepsOthers(p) /\ pc'[p] = "idle"
      BY CompareSound
<1>2. row'.upTo = row.upTo /\ row'.valueSent = row.valueSent
  <2>1. row \in Row
        BY DEF FeeInv, TypeOK
  <2>q. QED
        BY <2>1 DEF Compare, Row
<1>3. UNCHANGED <<sent, unstored>> /\ (~raced' => ~raced)
      BY DEF Compare, Race
<1>q. QED
      BY <1>1, <1>2, <1>3, RecordKept

RecordInv == FeeInv /\ RecordExact

LEMMA RecordInvInit == Init => RecordInv
<1>1. Init => RecordExact
      BY DEF Init, RecordExact, RecordAt
<1>q. QED
      BY <1>1, FeeInvInit DEF RecordInv

LEMMA RecordInvStep == RecordInv /\ [Next]_vars => RecordInv'
<1> SUFFICES ASSUME FeeInv, RecordExact, [Next]_vars
             PROVE  FeeInv' /\ RecordExact'
    BY DEF RecordInv
<1>1. FeeInv'
      BY FeeInvStep
<1>2. ASSUME NEW p \in Runs, ProcessPending(p)
      PROVE  RecordExact'
  <2>1. CASE ReadPending(p)
    <3>1. UNCHANGED <<row, sent, raced, unstored>>
          BY <2>1 DEF ReadPending, history
    <3>q. QED
          BY <2>1, <3>1, ReadPendingSound, RecordKept
  <2>2. CASE GetGasFee(p)
    <3>1. UNCHANGED <<row, sent, raced, unstored>> /\ pc[p] = "fee"
          BY <2>2 DEF GetGasFee, history
    <3>q. QED
          BY <2>2, <3>1, GetGasFeeSound, RecordKept
  <2>3. CASE Cover(p)
    <3>1. UNCHANGED <<row, sent, raced, unstored>> /\ pc[p] = "cover"
          BY <2>3 DEF Cover, history
    <3>q. QED
          BY <2>3, <3>1, CoverSound, RecordKept
  <2>4. CASE LookForPayment(p)
    <3>1. UNCHANGED <<row, sent, raced, unstored>> /\ pc[p] = "look"
          BY <2>4 DEF LookForPayment, history
    <3>q. QED
          BY <2>4, <3>1, LookForPaymentSound, RecordKept
  <2>q. QED
        BY <1>2, <2>1, <2>2, <2>3, <2>4, RecordPay, RecordCompare DEF ProcessPending
<1>3. ASSUME UNCHANGED <<row, sent, run, raced, unstored>>
      PROVE  RecordExact'
      BY <1>3 DEF RecordExact, RecordAt, run
<1>4. CASE UpdateExpectedWorstCaseGasPrice \/ NewBlock \/ Drop \/ UNCHANGED vars
  <2>1. UNCHANGED <<row, sent, run, raced, unstored>>
        BY <1>4 DEF UpdateExpectedWorstCaseGasPrice, NewBlock, Drop, vars, history, run
  <2>q. QED
        BY <1>1, <1>3, <2>1
<1>q. QED
      BY <1>1, <1>2, <1>4 DEF Next

(* Until a run writes beside another or a payment goes out without its row,   *)
(* the record of the help is what was sent, and every unit of price between   *)
(* the authorization and upToGasPrice was paid for once: totalValueSent.      *)
THEOREM HelpAlwaysRecorded == Spec => []HelpRecorded
<1>1. RecordInv => HelpRecorded
      BY DEF RecordInv, RecordExact, HelpRecorded
<1>q. QED
      BY <1>1, RecordInvInit, RecordInvStep, PTL DEF Spec
=============================================================================
