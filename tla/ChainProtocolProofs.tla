------------------------- MODULE ChainProtocolProofs -------------------------
(* What getTransactionStatus calls final is final and true, for every         *)
(* expectedFinality, depth of reorganisations and length of the chain.        *)
EXTENDS ChainProtocol, TLAPS, SequenceTheorems

(* A block that was read as part of the chain and is no longer: it was so     *)
(* close to the end that it cannot be taken for final.                        *)
ReceiptTrue ==
    pc \in {"number", "block"} =>
        /\ receipt.number \in 1..Len(chain)
        /\ receipt.status \in Ours
        /\ orphaned => receipt.number > Len(chain) - MaxReorg - grown
        /\ ~orphaned => chain[receipt.number] = receipt.status

(* While there was no receipt the transaction can only have been included     *)
(* close to the end.                                                          *)
AbsenceTrue ==
    pc \in {"numberOnly", "count"} =>
        \A i \in 1..Len(chain) :
            chain[i] \in Ours => i > Len(chain) - MaxReorg - grown

ProtocolInv == TypeOK /\ ReceiptTrue /\ AbsenceTrue /\ FinalTrue

-----------------------------------------------------------------------------
(* New blocks make the chain longer by one, and leave what is below them.     *)
LEMMA Growth ==
    ASSUME NEW S, NEW c \in Seq(S), NEW k \in 0..Len(c),
           NEW blocks \in [1..(k + 1) -> S],
           NEW d, d = SubSeq(c, 1, Len(c) - k) \o blocks
    PROVE  /\ d \in Seq(S)
           /\ Len(d) = Len(c) + 1
           /\ \A i \in 1..(Len(c) - k) : d[i] = c[i]
<1> DEFINE kept == SubSeq(c, 1, Len(c) - k)
<1>1. Len(c) \in Nat /\ k \in Nat /\ k <= Len(c)
  BY LenProperties
<1>2. /\ kept \in Seq(S) /\ Len(kept) = Len(c) - k
      /\ \A i \in 1..(Len(c) - k) : kept[i] = c[i]
  BY <1>1, SubSeqProperties
<1>3. blocks \in Seq(S) /\ Len(blocks) = k + 1
  BY <1>1
<1> QED
  BY <1>1, <1>2, <1>3, ConcatProperties

(* The first states satisfy the invariant.                                    *)
LEMMA ProtocolInvInit == Init => ProtocolInv
<1> SUFFICES ASSUME Init PROVE ProtocolInv
  OBVIOUS
<1> USE ChainAssumption DEF Init
<1>1. chain \in Seq(Contents) /\ Len(chain) = 0
  OBVIOUS
<1>2. TypeOK
  <2>1. Unknown \in Answer
    BY DEF Unknown, Answer
  <2>2. latest \in 0..Len(chain) /\ grown \in 0..MaxAdvance /\ faults \in 0..MaxFaults
    BY <1>1
  <2>3. Len(chain) <= MaxBlocks
    BY <1>1
  <2>4. receipt \in [number : 1..Len(chain), status : Ours] \cup {NoReceipt}
    OBVIOUS
  <2> QED
    BY <1>1, <2>1, <2>2, <2>3, <2>4 DEF TypeOK
<1>3. ReceiptTrue /\ AbsenceTrue /\ FinalTrue
  BY DEF ReceiptTrue, AbsenceTrue, FinalTrue, Unknown
<1> QED
  BY <1>2, <1>3 DEF ProtocolInv

(* New blocks, in the midst of an invocation or between two.                  *)
LEMMA NewBlocksKeep ==
    ASSUME ProtocolInv, NEW k \in 0..MaxReorg, NewBlocks(k)
    PROVE  ProtocolInv'
<1> USE ChainAssumption, DepthAssumption
<1>1. /\ chain \in Seq(Contents) /\ Len(chain) \in Nat
      /\ Len(chain) < MaxBlocks /\ k \in 0..Len(chain)
  BY LenProperties DEF ProtocolInv, TypeOK, NewBlocks
<1>2. PICK blocks \in [1..(k + 1) -> Contents] :
        chain' = SubSeq(chain, 1, Len(chain) - k) \o blocks
  BY DEF NewBlocks
<1>3. /\ chain' \in Seq(Contents) /\ Len(chain') = Len(chain) + 1
      /\ \A i \in 1..(Len(chain) - k) : chain'[i] = chain[i]
  <2> HIDE DEF Contents
  <2> QED BY <1>1, <1>2, Growth
<1>4. /\ grown \in 0..MaxAdvance /\ grown' \in 0..MaxAdvance
      /\ pc # "receipt" => grown' = grown + 1
  BY DEF ProtocolInv, TypeOK, NewBlocks
<1>5. TypeOK'
  <2>1. receipt' \in [number : 1..Len(chain'), status : Ours] \cup {NoReceipt}
    BY <1>1, <1>3 DEF ProtocolInv, TypeOK, NewBlocks
  <2>2. orphaned' \in BOOLEAN
    BY DEF ProtocolInv, TypeOK, NewBlocks
  <2>3. latest' \in 0..Len(chain')
    BY <1>1, <1>3 DEF ProtocolInv, TypeOK, NewBlocks
  <2> QED
    BY <1>1, <1>3, <1>4, <2>1, <2>2, <2>3 DEF ProtocolInv, TypeOK, NewBlocks
<1>6. ReceiptTrue'
  <2> SUFFICES ASSUME pc \in {"number", "block"}
               PROVE  /\ receipt.number \in 1..Len(chain')
                      /\ receipt.status \in Ours
                      /\ orphaned' => receipt.number > Len(chain') - MaxReorg - grown'
                      /\ ~orphaned' => chain'[receipt.number] = receipt.status
    BY DEF ReceiptTrue, NewBlocks
  <2>1. /\ receipt.number \in 1..Len(chain) /\ receipt.status \in Ours
        /\ orphaned => receipt.number > Len(chain) - MaxReorg - grown
        /\ ~orphaned => chain[receipt.number] = receipt.status
    BY DEF ProtocolInv, ReceiptTrue
  <2>2. /\ orphaned' => orphaned \/ receipt.number > Len(chain) - k
        /\ ~orphaned' => ~orphaned /\ ~(receipt.number > Len(chain) - k)
    BY DEF ProtocolInv, TypeOK, NewBlocks
  <2>3. grown' = grown + 1
    BY <1>4
  <2>4. orphaned' => receipt.number > Len(chain') - MaxReorg - grown'
    <3>1. CASE orphaned
      BY <1>1, <1>3, <1>4, <2>1, <2>3, <3>1
    <3>2. CASE receipt.number > Len(chain) - k
      BY <1>1, <1>3, <1>4, <2>1, <2>3, <3>2
    <3> QED
      BY <2>2, <3>1, <3>2
  <2>5. ~orphaned' => chain'[receipt.number] = receipt.status
    <3> SUFFICES ASSUME ~orphaned'
                 PROVE  chain'[receipt.number] = receipt.status
      OBVIOUS
    <3>1. receipt.number \in 1..(Len(chain) - k)
      BY <1>1, <2>1, <2>2
    <3> QED
      BY <1>3, <2>1, <2>2, <3>1
  <2> QED
    BY <1>1, <1>3, <2>1, <2>4, <2>5
<1>7. AbsenceTrue'
  <2> SUFFICES ASSUME pc \in {"numberOnly", "count"},
                      NEW i \in 1..Len(chain'), chain'[i] \in Ours
               PROVE  i > Len(chain') - MaxReorg - grown'
    BY DEF AbsenceTrue, NewBlocks
  <2>1. grown' = grown + 1
    BY <1>4
  <2>2. CASE i <= Len(chain) - k
    <3>1. i \in 1..Len(chain) /\ chain[i] \in Ours
      BY <1>1, <1>3, <2>2
    <3> QED
      BY <1>1, <1>3, <1>4, <2>1, <3>1 DEF ProtocolInv, AbsenceTrue
  <2>3. CASE i > Len(chain) - k
    BY <1>1, <1>3, <1>4, <2>1, <2>3
  <2> QED
    BY <1>1, <1>3, <2>2, <2>3
<1>8. FinalTrue'
  <2> SUFFICES ASSUME answer.final
               PROVE  \E i \in 1..Len(chain') :
                         i <= Len(chain') - Finality /\ Says(chain[i])'
    BY DEF FinalTrue, NewBlocks
  <2>1. PICK i \in 1..Len(chain) : i <= Len(chain) - Finality /\ Says(chain[i])
    BY DEF ProtocolInv, FinalTrue
  <2>2. i \in 1..Len(chain') /\ i <= Len(chain') - Finality /\ chain'[i] = chain[i]
    <3>1. i \in 1..(Len(chain) - k)
      BY <1>1, <2>1
    <3> QED
      BY <1>1, <1>3, <2>1, <3>1
  <2>3. Says(chain[i])'
    BY <2>1, <2>2 DEF Says, NewBlocks
  <2> QED
    BY <2>2, <2>3
<1> QED
  BY <1>5, <1>6, <1>7, <1>8 DEF ProtocolInv

-----------------------------------------------------------------------------
(* A receipt is that of a block of the chain, and its absence shows that the  *)
(* transaction is in none.                                                    *)
LEMMA ReceiptKeeps ==
    ASSUME ProtocolInv, GetTransactionReceipt
    PROVE  ProtocolInv'
<1> USE ChainAssumption DEF GetTransactionReceipt
<1>1. chain' = chain /\ latest' = latest /\ faults' = faults
      /\ grown' = 0 /\ orphaned' = FALSE /\ answer.final = FALSE
  BY DEF ProtocolInv, TypeOK
<1>2. Len(chain) \in Nat
  BY LenProperties DEF ProtocolInv, TypeOK
<1>3. answer' = answer \/ answer' = Unknown
  BY DEF Return
<1>4. answer'.final = FALSE
  BY <1>1, <1>3 DEF Unknown
<1>5. CASE \E n \in 1..Len(chain) :
             /\ chain[n] \in Ours
             /\ receipt' = [number |-> n, status |-> chain[n]]
             /\ pc' = "number" /\ UNCHANGED answer
  <2>1. TypeOK'
    <3>1. receipt' \in [number : 1..Len(chain), status : Ours]
      BY <1>5
    <3>2. answer' = answer /\ pc' = "number" /\ 0 \in 0..MaxAdvance
      BY <1>5
    <3> QED
      BY <1>1, <3>1, <3>2 DEF ProtocolInv, TypeOK
  <2>2. ReceiptTrue'
    BY <1>1, <1>5 DEF ReceiptTrue
  <2> QED
    BY <1>1, <1>4, <1>5, <2>1, <2>2 DEF ProtocolInv, AbsenceTrue, FinalTrue
<1>6. CASE /\ \A n \in 1..Len(chain) : chain[n] \notin Ours
           /\ receipt' = NoReceipt
           /\ pc' \in {"numberOnly", "receipt"}
  <2>1. TypeOK'
    <3>1. answer' \in Answer
      <4>1. Unknown \in Answer
        BY DEF Unknown, Answer
      <4> QED
        BY <1>3, <4>1 DEF ProtocolInv, TypeOK
    <3>2. 0 \in 0..MaxAdvance
      OBVIOUS
    <3> QED
      BY <1>1, <1>6, <3>1, <3>2 DEF ProtocolInv, TypeOK
  <2>2. AbsenceTrue'
    BY <1>1, <1>6 DEF AbsenceTrue
  <2> QED
    BY <1>1, <1>4, <1>6, <2>1, <2>2 DEF ProtocolInv, ReceiptTrue, FinalTrue
<1> QED
  BY <1>5, <1>6 DEF Return

(* The number of the latest block.                                            *)
LEMMA NumberKeeps ==
    ASSUME ProtocolInv, BlockNumber
    PROVE  ProtocolInv'
<1> USE DEF BlockNumber, LatestBlock
<1>1. Len(chain) \in Nat
  BY LenProperties DEF ProtocolInv, TypeOK
<1>2. TypeOK'
  BY <1>1 DEF ProtocolInv, TypeOK
<1>3. ReceiptTrue'
  BY DEF ProtocolInv, ReceiptTrue
<1>4. AbsenceTrue'
  BY DEF ProtocolInv, AbsenceTrue
<1>5. FinalTrue'
  BY DEF ProtocolInv, FinalTrue, Says
<1> QED
  BY <1>2, <1>3, <1>4, <1>5 DEF ProtocolInv

(* A receipt whose block is buried is still that of a block of the chain.     *)
LEMMA BlockKeeps ==
    ASSUME ProtocolInv, GetBlockByHash
    PROVE  ProtocolInv'
<1> USE ChainAssumption, DepthAssumption DEF GetBlockByHash
<1>1. /\ Len(chain) \in Nat /\ latest \in 0..Len(chain)
      /\ grown \in 0..MaxAdvance /\ orphaned \in BOOLEAN
  BY LenProperties DEF ProtocolInv, TypeOK
<1>2. /\ receipt.number \in 1..Len(chain) /\ receipt.status \in Ours
      /\ orphaned => receipt.number > Len(chain) - MaxReorg - grown
      /\ ~orphaned => chain[receipt.number] = receipt.status
  BY DEF ProtocolInv, ReceiptTrue
<1>3. PICK final \in BOOLEAN :
        /\ final => Buried(receipt.number)
        /\ pc' = "receipt"
        /\ answer' = [final |-> final, status |-> Outcome[receipt.status],
                      pending |-> ~final]
  BY <1>1 DEF Return, Buried
<1>4. Outcome[receipt.status] \in {"success", "failed"}
  BY <1>2 DEF Outcome, Ours
<1>5. TypeOK'
  BY <1>3, <1>4 DEF ProtocolInv, TypeOK, Answer
<1>6. ReceiptTrue' /\ AbsenceTrue'
  BY <1>3 DEF ReceiptTrue, AbsenceTrue
<1>7. FinalTrue'
  <2> SUFFICES ASSUME final
               PROVE  \E i \in 1..Len(chain) :
                         i <= Len(chain) - Finality /\ Says(chain[i])'
    BY <1>3 DEF FinalTrue
  <2>1. receipt.number <= latest - Finality
    BY <1>1, <1>2, <1>3 DEF Buried, FinalNumber
  <2>2. chain[receipt.number] = receipt.status
    BY <1>1, <1>2, <2>1
  <2>3. Says(chain[receipt.number])'
    BY <1>2, <1>3, <2>2 DEF Says
  <2> QED
    BY <1>1, <1>2, <2>1, <2>3
<1> QED
  BY <1>5, <1>6, <1>7 DEF ProtocolInv

(* A nonce that is used in a buried block is used by another transaction.     *)
LEMMA CountKeeps ==
    ASSUME ProtocolInv, GetTransactionCount
    PROVE  ProtocolInv'
<1> USE ChainAssumption, DepthAssumption DEF GetTransactionCount
<1> DEFINE replaced == [final |-> TRUE, status |-> "replaced", pending |-> FALSE]
<1>1. /\ Len(chain) \in Nat /\ latest \in 0..Len(chain)
      /\ grown \in 0..MaxAdvance
  BY LenProperties DEF ProtocolInv, TypeOK
<1>2. /\ chain' = chain /\ pc' = "receipt"
      /\ answer' = IF UsedForGood THEN replaced ELSE Unknown
  BY DEF Return
<1>3. TypeOK'
  BY <1>2 DEF ProtocolInv, TypeOK, Unknown, Answer
<1>4. ReceiptTrue' /\ AbsenceTrue'
  BY <1>2 DEF ReceiptTrue, AbsenceTrue
<1>5. FinalTrue'
  <2> SUFFICES ASSUME UsedForGood
               PROVE  \E i \in 1..Len(chain) :
                         i <= Len(chain) - Finality /\ Says(chain[i])'
    BY <1>2 DEF FinalTrue, Unknown
  <2>1. PICK i \in 1..Len(chain) : i <= latest - Finality /\ chain[i] \in Used
    BY DEF UsedForGood, UsedUpTo
  <2>2. chain[i] \notin Ours
    BY <1>1, <2>1 DEF ProtocolInv, AbsenceTrue
  <2>3. Says(chain[i])'
    BY <1>2, <2>1, <2>2 DEF Says, Used
  <2> QED
    BY <1>1, <2>1, <2>3
<1> QED
  BY <1>3, <1>4, <1>5 DEF ProtocolInv

(* A call that fails leaves the answer as it was.                             *)
LEMMA FailureKeeps ==
    ASSUME ProtocolInv, CallFails
    PROVE  ProtocolInv'
<1> USE ChainAssumption DEF CallFails, Return
<1>1. faults' \in 0..MaxFaults
  BY DEF ProtocolInv, TypeOK
<1>2. TypeOK'
  BY <1>1 DEF ProtocolInv, TypeOK
<1>3. ReceiptTrue' /\ AbsenceTrue'
  BY DEF ReceiptTrue, AbsenceTrue
<1>4. FinalTrue'
  BY DEF ProtocolInv, FinalTrue, Says
<1> QED
  BY <1>2, <1>3, <1>4 DEF ProtocolInv

(* Every step preserves the invariant.                                        *)
LEMMA ProtocolInvStep == ProtocolInv /\ [Next]_vars => ProtocolInv'
<1> SUFFICES ASSUME ProtocolInv, [Next]_vars PROVE ProtocolInv'
  OBVIOUS
<1>1. CASE GetTransactionStatus
  BY <1>1, ReceiptKeeps, NumberKeeps, BlockKeeps, CountKeeps, FailureKeeps
     DEF GetTransactionStatus
<1>2. CASE \E k \in 0..MaxReorg : NewBlocks(k)
  BY <1>2, NewBlocksKeep
<1>3. CASE UNCHANGED vars
  BY <1>3 DEF vars, local, ProtocolInv, TypeOK, ReceiptTrue, AbsenceTrue,
     FinalTrue, Says
<1> QED
  BY <1>1, <1>2, <1>3 DEF Next

(* What was read of a chain stays true of it, or of its end only.             *)
THEOREM ProtocolInvariant == Spec => []ProtocolInv
  BY ProtocolInvInit, ProtocolInvStep, PTL DEF Spec

(* getTransactionStatus: the calls and what they return keep their types.     *)
THEOREM ProtocolTypeCorrect == Spec => []TypeOK
<1>1. ProtocolInv => TypeOK
  BY DEF ProtocolInv
<1> QED
  BY <1>1, ProtocolInvariant, PTL

(* getTransactionStatus: a final answer is true of the chain for ever.        *)
THEOREM FinalAnswersTrue == Spec => []FinalTrue
<1>1. ProtocolInv => FinalTrue
  BY DEF ProtocolInv
<1> QED
  BY <1>1, ProtocolInvariant, PTL
=============================================================================
