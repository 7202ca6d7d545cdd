---------------------------- MODULE ChainProtocol ----------------------------
(* getTransactionStatus (chain-protocol, ethereum and starknet): a chain      *)
(* protocol finds out how one transaction ended by several calls to a node,   *)
(* while the chain grows and reorganises.  The executor asks again until the  *)
(* answer is final, and then for good records what it says.                   *)
(* Block n is chain[n]; only what becomes of the nonce of the transaction is  *)
(* kept of it.  "other" is another transaction with the same nonce.           *)
EXTENDS Integers, Sequences

CONSTANTS
    Finality,    \* config.expectedFinality
    MaxReorg,    \* how many blocks a reorganisation may replace
    MaxAdvance,  \* by how many blocks the chain may grow during one invocation
    MaxBlocks,   \* bound on the length of the chain
    MaxFaults    \* bound on calls that fail

ASSUME ChainAssumption ==
       /\ Finality \in Nat /\ MaxReorg \in Nat /\ MaxAdvance \in Nat
       /\ MaxBlocks \in Nat /\ MaxFaults \in Nat

(* What expectedFinality has to be chosen for.                                *)
ASSUME DepthAssumption == MaxAdvance + MaxReorg <= Finality

VARIABLES
    counts,      \* whether the protocol asks for the transaction count: ethereum
                 \* does, starknet does not
    chain,       \* the blocks, as the node sees them
    pc,          \* the call that is next
    receipt,     \* receipt of the transaction: its block number and status
    orphaned,    \* whether its block has been replaced since it was read
    latest,      \* latestBlockNumber
    grown,       \* blocks by which the chain grew in this invocation
    answer,      \* what the last invocation returned
    faults       \* number of calls that failed

local == <<pc, receipt, orphaned, latest>>
vars == <<counts, chain, local, grown, answer, faults>>

Outcome == [ok |-> "success", failed |-> "failed"]
Ours == {"ok", "failed"}
Used == Ours \cup {"other"}
Contents == Used \cup {"none"}

NoReceipt == [number |-> 0, status |-> "none"]
Answer == [final : BOOLEAN,
           status : {"success", "failed", "replaced", "unknown"},
           pending : BOOLEAN]
Unknown == [final |-> FALSE, status |-> "unknown", pending |-> FALSE]

TypeOK ==
    /\ counts \in BOOLEAN
    /\ chain \in Seq(Contents) /\ Len(chain) <= MaxBlocks
    /\ pc \in {"receipt", "number", "block", "numberOnly", "count"}
    /\ receipt \in [number : 1..Len(chain), status : Ours] \cup {NoReceipt}
    /\ orphaned \in BOOLEAN
    /\ latest \in 0..Len(chain)
    /\ grown \in 0..MaxAdvance
    /\ answer \in Answer
    /\ faults \in 0..MaxFaults

Init ==
    /\ counts \in BOOLEAN
    /\ chain = <<>>
    /\ pc = "receipt" /\ receipt = NoReceipt /\ orphaned = FALSE
    /\ latest = 0 /\ grown = 0
    /\ answer = Unknown
    /\ faults = 0

-----------------------------------------------------------------------------
(* The node.                                                                  *)

(* A nonce is used once in a chain.                                           *)
UsedOnce(c) ==
    \A i, j \in 1..Len(c) : c[i] \in Used /\ c[j] \in Used => i = j

(* The last k blocks give way to k + 1 others; for k = 0 the chain grows.     *)
NewBlocks(k) ==
    /\ k <= Len(chain) /\ Len(chain) < MaxBlocks
    /\ \E blocks \in [1..(k + 1) -> Contents] :
         chain' = SubSeq(chain, 1, Len(chain) - k) \o blocks
    /\ UsedOnce(chain')
    /\ IF pc = "receipt"
       THEN UNCHANGED grown
       ELSE grown < MaxAdvance /\ grown' = grown + 1
    /\ orphaned' = (orphaned \/ receipt.number > Len(chain) - k)
    /\ UNCHANGED <<counts, pc, receipt, latest, answer, faults>>

UsedUpTo(n) == \E i \in 1..Len(chain) : i <= n /\ chain[i] \in Used

-----------------------------------------------------------------------------
(* getTransactionStatus, call by call.                                        *)

Return(result) == pc' = "receipt" /\ answer' = result

(* The receipt of this very transaction, by its hash.                         *)
GetTransactionReceipt ==
    /\ pc = "receipt" /\ ~answer.final
    /\ grown' = 0 /\ orphaned' = FALSE
    /\ \/ \E n \in 1..Len(chain) :
            /\ chain[n] \in Ours
            /\ receipt' = [number |-> n, status |-> chain[n]]
            /\ pc' = "number" /\ UNCHANGED answer
       \/ /\ \A n \in 1..Len(chain) : chain[n] \notin Ours
          /\ receipt' = NoReceipt
          /\ IF counts THEN pc' = "numberOnly" /\ UNCHANGED answer
                       ELSE Return(Unknown)
    /\ UNCHANGED <<counts, chain, latest, faults>>

(* Mutant: the number of the pending block.                                   *)
PendingBlock == Len(chain) + 1

LatestBlock == Len(chain)

(* eth_blockNumber, with and without a receipt.  Without one, a chain with    *)
(* fewer blocks than expectedFinality makes the next call fail.               *)
BlockNumber ==
    /\ pc \in {"number", "numberOnly"}
    /\ latest' = LatestBlock
    /\ pc' = IF pc = "number" THEN "block" ELSE "count"
    /\ UNCHANGED <<counts, chain, receipt, orphaned, grown, answer, faults>>

(* The number up to which blocks are final.  Mutant: one too many.            *)
FinalNumberLate == IF latest - Finality + 1 < 0 THEN 0 ELSE latest - Finality + 1

FinalNumber == IF latest - Finality < 0 THEN 0 ELSE latest - Finality

Buried(number) == number <= FinalNumber

(* The block of the receipt, by its hash.  A node may or may not know a block *)
(* that has been replaced.                                                    *)
GetBlockByHash ==
    /\ pc = "block"
    /\ \E found \in IF orphaned THEN BOOLEAN ELSE {TRUE} :
         LET final == found /\ Buried(receipt.number) IN
         Return([final |-> final, status |-> Outcome[receipt.status],
                 pending |-> ~final])
    /\ UNCHANGED <<counts, chain, receipt, orphaned, latest, grown, faults>>

(* Mutant: the count is not compared, as for starknet.                        *)
NeverReplaced == FALSE

(* The transaction count at the last final block is beyond the nonce.         *)
UsedForGood == UsedUpTo(latest - Finality)

GetTransactionCount ==
    /\ pc = "count" /\ latest >= Finality
    /\ Return(IF UsedForGood
              THEN [final |-> TRUE, status |-> "replaced", pending |-> FALSE]
              ELSE Unknown)
    /\ UNCHANGED <<counts, chain, receipt, orphaned, latest, grown, faults>>

(* A call fails: the invocation reports the error or throws, and the executor *)
(* goes on with its next execution.                                           *)
CallFails ==
    /\ \/ pc = "count" /\ latest < Finality /\ UNCHANGED faults
       \/ /\ ~answer.final
          /\ faults < MaxFaults /\ faults' = faults + 1
    /\ Return(answer)
    /\ UNCHANGED <<counts, chain, receipt, orphaned, latest, grown>>

GetTransactionStatus ==
    \/ GetTransactionReceipt \/ BlockNumber \/ GetBlockByHash
    \/ GetTransactionCount \/ CallFails

Next == GetTransactionStatus \/ \E k \in 0..MaxReorg : NewBlocks(k)

Spec == Init /\ [][Next]_vars

(* Periodic runs ask again and again; a call that is made is answered.        *)
Fairness == WF_vars(GetTransactionStatus)

FairSpec == Spec /\ Fairness

-----------------------------------------------------------------------------
(* Properties.                                                                *)

(* A final answer is what the chain will say for ever: no reorganisation that *)
(* is no deeper than expectedFinality undoes it, and no block that arrives    *)
(* between two of the calls makes it wrong, as long as MaxAdvance + MaxReorg  *)
(* is at most expectedFinality.                                               *)
Says(content) ==
    \/ content \in Ours /\ answer.status = Outcome[content]
    \/ content = "other" /\ answer.status = "replaced"

FinalTrue ==
    answer.final => \E i \in 1..Len(chain) :
                       i <= Len(chain) - Finality /\ Says(chain[i])

(* Once its nonce is used in a final block, a transaction is reported final,  *)
(* whatever calls fail.                                                       *)
InFinalBlock(contents) ==
    \E i \in 1..Len(chain) : i <= Len(chain) - Finality /\ chain[i] \in contents

Reported == InFinalBlock(IF counts THEN Used ELSE Ours) ~> answer.final
=============================================================================
