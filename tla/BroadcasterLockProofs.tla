------------------------ MODULE BroadcasterLockProofs ------------------------
(* Proofs about BroadcasterLock, for every set of requests, expiry, first     *)
(* nonce and bound.                                                           *)
EXTENDS BroadcasterLock, TLAPS

(* Reading the network nonce: a row that is not there yet can only be inserted *)
(* with the first nonce.                                                      *)
LEMMA ReadNetworkNonceInv ==
    ASSUME LockInv, NEW r \in Requests, ReadNetworkNonce(r)
    PROVE  LockInv'
<1>1. TypeOK'
    BY DEF LockInv, TypeOK, PCs, ReadNetworkNonce, Goto, row, chain, history
<1>2. FirstInsert'
    BY DEF LockInv, TypeOK, FirstInsert, ReadNetworkNonce, Goto, row, chain,
           history
<1>3. HoldersHold'
    BY DEF LockInv, TypeOK, HoldersHold, InSection, Section, ReadNetworkNonce,
           Goto, row, history
<1>4. NoncesDense'
  <2>1. r \notin recorded
    BY DEF LockInv, Provenance, After, ReadNetworkNonce
  <2>2. \A q \in recorded : nonce'[q] = nonce[q]
    BY <2>1 DEF LockInv, TypeOK, ReadNetworkNonce
  <2> QED BY <2>2 DEF LockInv, NoncesDense, ReadNetworkNonce, row, history
<1>5. DistinctNonces'
    BY DEF LockInv, TypeOK, DistinctNonces, ReadNetworkNonce, history
<1>6. Provenance'
    BY DEF LockInv, TypeOK, Provenance, RecordedNonce, After, ReadNetworkNonce,
           Goto, chain, history
<1>7. NetworkFollows'
    BY DEF LockInv, NetworkFollows, ReadNetworkNonce, chain
<1> QED BY <1>1, <1>2, <1>3, <1>4, <1>5, <1>6, <1>7 DEF LockInv

(* The upsert of the lock: who loses its lock is in lost, and the nonce of the *)
(* row is the first one or stays.                                             *)
LEMMA LockBroadcasterInv ==
    ASSUME LockInv, NEW r \in Requests, LockBroadcaster(r)
    PROVE  LockInv'
<1>1. TypeOK'
  <2>1. CASE LockRow(r) /\ Goto(r, "readBack") /\ UNCHANGED faulted
    <3>1. lock' \in Requests \cup {NoLock} /\ lockAge' \in 0..(LockExpiry + 1)
      BY <2>1, NumbersAssumption DEF LockInv, TypeOK, LockRow
    <3>2. lost' \subseteq Requests
      BY <2>1 DEF LockInv, TypeOK, LockRow, Deprived
    <3>3. present' \in BOOLEAN /\ nextNonce' \in Nat
      BY <2>1 DEF LockInv, TypeOK, LockRow, NonceOnLock
    <3> QED BY <2>1, <3>1, <3>2, <3>3 DEF LockInv, TypeOK, PCs, LockBroadcaster, Goto, chain
  <2>2. CASE Fault(r, "done") /\ UNCHANGED <<row, lost>>
    BY <2>2 DEF LockInv, TypeOK, PCs, LockBroadcaster, Fault, Goto, row, chain
  <2> QED BY <2>1, <2>2 DEF LockBroadcaster
<1>2. FirstInsert'
    BY DEF LockInv, TypeOK, FirstInsert, LockBroadcaster, Goto, row, chain,
           LockRow, NonceOnLock, Fault
<1>3. HoldersHold'
    BY NoLockAssumption
       DEF LockInv, TypeOK, FirstInsert, HoldersHold, InSection, Section,
           LockBroadcaster, Goto, row, LockRow, NonceOnLock, Deprived, Fault
<1>4. NoncesDense'
  <2>1. CASE present
    <3>1. /\ present' /\ nextNonce' = nextNonce
          /\ lost \subseteq lost' /\ faulted \subseteq faulted'
      BY <2>1 DEF LockBroadcaster, LockRow, NonceOnLock, Fault, row
    <3> QED BY <2>1, <3>1 DEF LockInv, NoncesDense, LockBroadcaster
  <2>2. CASE ~present
    <3>1. recorded' = {} /\ (present' => nextNonce' = FirstNonce)
      BY <2>2
         DEF LockInv, FirstInsert, LockBroadcaster, LockRow, NonceOnLock, row
    <3> QED BY <3>1, NumbersAssumption DEF NoncesDense
  <2> QED BY <2>1, <2>2
<1>5. DistinctNonces'
    BY DEF LockInv, DistinctNonces, LockBroadcaster, LockRow
<1>6. Provenance'
    BY DEF LockInv, TypeOK, Provenance, RecordedNonce, After, LockBroadcaster,
           Goto, chain, LockRow, Fault
<1>7. NetworkFollows'
    BY DEF LockInv, NetworkFollows, LockBroadcaster, chain, LockRow
<1> QED BY <1>1, <1>2, <1>3, <1>4, <1>5, <1>6, <1>7 DEF LockInv

(* The read-back: a new execution that finds its lock takes nextNonce, a      *)
(* resubmission the nonce of a stored execution.                              *)
LEMMA ReadBackInv ==
    ASSUME LockInv, NEW r \in Requests, ReadBack(r)
    PROVE  LockInv'
<1>1. TypeOK'
    BY DEF LockInv, TypeOK, PCs, ReadBack, Acquired, Goto, row, chain, Fault
<1>2. FirstInsert'
    BY DEF LockInv, FirstInsert, ReadBack, Acquired, row
<1>3. HoldersHold'
    BY DEF LockInv, TypeOK, HoldersHold, InSection, Section, ReadBack, Acquired,
           Goto, row, Fault
<1>4. NoncesDense'
  <2>1. \A q \in recorded : q # r /\ nonce'[q] = nonce[q]
    BY DEF LockInv, TypeOK, Provenance, After, ReadBack, Acquired
  <2>2. faulted \subseteq faulted'
    BY DEF ReadBack, Fault
  <2> QED BY <2>1, <2>2 DEF LockInv, NoncesDense, ReadBack, Acquired, row
<1>5. DistinctNonces'
  <2>1. \A q \in recorded : q # r /\ nonce'[q] = nonce[q]
    BY DEF LockInv, TypeOK, Provenance, After, ReadBack, Acquired
  <2> QED BY <2>1 DEF LockInv, DistinctNonces, ReadBack, Acquired
<1>6. Provenance'
    BY DEF LockInv, TypeOK, Provenance, RecordedNonce, After, ReadBack,
           Acquired, Goto, chain, Fault
<1>7. NetworkFollows'
    BY DEF LockInv, NetworkFollows, ReadBack, Acquired, chain
<1> QED BY <1>1, <1>2, <1>3, <1>4, <1>5, <1>6, <1>7 DEF LockInv

(* Preparing touches the request only.                                        *)
LEMMA PrepareInv ==
    ASSUME LockInv, NEW r \in Requests, Prepare(r)
    PROVE  LockInv'
<1>1. TypeOK'
    BY DEF LockInv, TypeOK, PCs, Prepare, Goto, row, chain, history
<1>2. FirstInsert'
    BY DEF LockInv, FirstInsert, Prepare, row
<1>3. HoldersHold'
    BY DEF LockInv, TypeOK, HoldersHold, InSection, Section, Prepare, Goto, row,
           history
<1>4. NoncesDense'
    BY DEF LockInv, NoncesDense, Prepare, row, history
<1>5. DistinctNonces'
    BY DEF LockInv, DistinctNonces, Prepare, history
<1>6. Provenance'
    BY DEF LockInv, TypeOK, Provenance, RecordedNonce, After, Prepare, Goto,
           chain, history
<1>7. NetworkFollows'
    BY DEF LockInv, NetworkFollows, Prepare, chain
<1> QED BY <1>1, <1>2, <1>3, <1>4, <1>5, <1>6, <1>7 DEF LockInv

(* Who is sent on without its lock has lost it or met an error.               *)
LEMMA VerifyLockInv ==
    ASSUME LockInv, NEW r \in Requests, VerifyLock(r)
    PROVE  LockInv'
<1>1. TypeOK'
    BY DEF LockInv, TypeOK, PCs, VerifyLock, Goto, row, chain, Fault
<1>2. FirstInsert'
    BY DEF LockInv, FirstInsert, VerifyLock, row
<1>3. HoldersHold'
    BY DEF LockInv, TypeOK, HoldersHold, InSection, Section, VerifyLock, Goto,
           row, Fault
<1>4. NoncesDense'
  <2>1. faulted \subseteq faulted'
    BY DEF VerifyLock, Fault
  <2> QED BY <2>1 DEF LockInv, NoncesDense, VerifyLock, row
<1>5. DistinctNonces'
    BY DEF LockInv, DistinctNonces, VerifyLock
<1>6. Provenance'
  <2>1. pc'[r] \in {"swallow", "broadcast", "storeAgain"} => r \in lost' \cup faulted'
    BY DEF LockInv, TypeOK, HoldersHold, InSection, Section, VerifyLock, Fault,
           Goto
  <2>2. \A q \in Requests \ {r} : pc'[q] = pc[q]
    BY DEF LockInv, TypeOK, VerifyLock, Fault, Goto
  <2>3. r \notin recorded
    BY DEF LockInv, Provenance, After, VerifyLock
  <2>4. faulted \subseteq faulted' /\ UNCHANGED <<recorded, patched, lost, nonce, kind, sent>>
    BY DEF VerifyLock, Fault, chain
  <2>5. \A n \in sent' : \E q \in recorded' \cup lost' \cup faulted' :
            nonce'[q] = n /\ pc'[q] \in After
    BY <2>2, <2>4 DEF LockInv, TypeOK, Provenance, After, VerifyLock
  <2> QED BY <2>1, <2>2, <2>3, <2>4, <2>5
        DEF LockInv, TypeOK, Provenance, RecordedNonce
<1>7. NetworkFollows'
    BY DEF LockInv, NetworkFollows, VerifyLock, chain
<1> QED BY <1>1, <1>2, <1>3, <1>4, <1>5, <1>6, <1>7 DEF LockInv

(* The batch: the only step that moves nextNonce, by one, and only for the    *)
(* nonce it was at.                                                           *)
LEMMA StoreExecutionInv ==
    ASSUME LockInv, NEW r \in Requests, StoreExecution(r)
    PROVE  LockInv'
<1>1. TypeOK'
    BY NumbersAssumption
       DEF LockInv, TypeOK, PCs, StoreExecution, Goto, row, chain, StoreRow,
           NonceAfter, Deprived, Fault
<1>2. FirstInsert'
    BY NumbersAssumption
       DEF LockInv, TypeOK, FirstInsert, StoreExecution, row, StoreRow,
           NonceAfter
<1>3. HoldersHold'
    BY NoLockAssumption
       DEF LockInv, TypeOK, HoldersHold, InSection, Section, StoreExecution,
           Goto, row, StoreRow, NonceAfter, Deprived, Fault
<1>4. NoncesDense'
  <2>1. CASE StoreRow(r)
    <3>1. present /\ nonce[r] \in Nat /\ nextNonce \in Nat /\ nonce[r] <= nextNonce
      BY DEF LockInv, TypeOK, FirstInsert, HoldersHold, StoreExecution
    <3>2. nextNonce' = nextNonce \/ (nextNonce' = nextNonce + 1 /\ nonce[r] = nextNonce)
      BY <2>1, <3>1 DEF StoreRow, NonceAfter
    <3>3. nonce[r] < nextNonce' /\ nextNonce <= nextNonce'
      BY <2>1, <3>1 DEF StoreRow, NonceAfter
    <3>4. present' /\ recorded' = recorded \cup {r} /\ nonce' = nonce
      BY <2>1, <3>1 DEF StoreRow, StoreExecution
    <3>5. ASSUME NEW n \in FirstNonce..(nextNonce' - 1)
          PROVE  \E q \in recorded' : nonce'[q] = n
      <4>1. n \in FirstNonce..(nextNonce - 1) \/ n = nonce[r]
        BY <3>1, <3>2, NumbersAssumption
      <4> QED BY <3>1, <3>4, <4>1 DEF LockInv, NoncesDense
    <3>6. \A q \in recorded' : nonce'[q] < nextNonce' \/
                               (nonce'[q] = nextNonce' /\ q \in patched' \cap (lost' \cup faulted'))
      <4>1. patched' = patched /\ lost \subseteq lost' /\ faulted \subseteq faulted'
        BY <2>1 DEF StoreRow, StoreExecution, Fault
      <4>2. \A q \in recorded : nonce[q] \in Nat
        BY DEF LockInv, TypeOK
      <4> QED BY <3>1, <3>2, <3>3, <3>4, <4>1, <4>2 DEF LockInv, NoncesDense
    <3> QED BY <3>5, <3>6 DEF NoncesDense
  <2>2. CASE UNCHANGED <<row, lost, recorded>>
    <3>1. faulted \subseteq faulted'
      BY DEF StoreExecution, Fault
    <3> QED BY <2>2, <3>1 DEF LockInv, NoncesDense, StoreExecution, row
  <2> QED BY <2>1, <2>2 DEF StoreExecution
<1>5. DistinctNonces'
  <2>1. CASE StoreRow(r)
    <3>1. recorded' = recorded \cup {r} /\ lost \subseteq lost'
          /\ UNCHANGED <<nonce, kind>>
      BY <2>1 DEF StoreRow, StoreExecution
    <3>2. present
      BY DEF LockInv, FirstInsert, StoreExecution
    <3>3. \A q \in recorded :
             nonce[q] \in Nat /\ (nonce[q] < nextNonce \/ q \in patched)
      BY <3>2 DEF LockInv, TypeOK, NoncesDense
    <3>4. kind[r] = "fresh" /\ r \notin lost => nonce[r] = nextNonce
      BY DEF LockInv, HoldersHold, InSection, Section, StoreExecution
    <3>5. \A q \in recorded : kind[r] = "fresh" /\ nonce[q] = nonce[r]
                              => r \in lost \/ q \in patched
      BY <3>3, <3>4 DEF LockInv, TypeOK
    <3>6. patched' = patched
      BY DEF StoreExecution
    <3> QED BY <3>1, <3>5, <3>6 DEF LockInv, DistinctNonces
  <2>2. CASE UNCHANGED <<row, lost, recorded>>
    BY <2>2 DEF LockInv, DistinctNonces, StoreExecution
  <2> QED BY <2>1, <2>2 DEF StoreExecution
<1>6. Provenance'
    BY DEF LockInv, TypeOK, Provenance, RecordedNonce, After, StoreExecution,
           Goto, chain, StoreRow, Fault
<1>7. NetworkFollows'
    BY DEF LockInv, NetworkFollows, StoreExecution, chain, StoreRow
<1> QED BY <1>1, <1>2, <1>3, <1>4, <1>5, <1>6, <1>7 DEF LockInv

(* Unlocking after a swallowed error may take the lock of another request.    *)
LEMMA SwallowErrorInv ==
    ASSUME LockInv, NEW r \in Requests, SwallowError(r)
    PROVE  LockInv'
<1>1. TypeOK'
    BY NumbersAssumption
       DEF LockInv, TypeOK, PCs, SwallowError, Goto, row, chain, UnlockRow,
           Deprived
<1>2. FirstInsert'
    BY DEF LockInv, FirstInsert, SwallowError, row, UnlockRow
<1>3. HoldersHold'
    BY DEF LockInv, HoldersHold, InSection, Section, SwallowError, Goto, row,
           UnlockRow, Deprived
<1>4. NoncesDense'
    BY DEF LockInv, NoncesDense, SwallowError, row, UnlockRow, Deprived
<1>5. DistinctNonces'
    BY DEF LockInv, DistinctNonces, SwallowError, UnlockRow
<1>6. Provenance'
    BY DEF LockInv, Provenance, RecordedNonce, After, SwallowError, Goto, chain,
           UnlockRow
<1>7. NetworkFollows'
    BY DEF LockInv, NetworkFollows, SwallowError, chain, UnlockRow
<1> QED BY <1>1, <1>2, <1>3, <1>4, <1>5, <1>6, <1>7 DEF LockInv

(* What is sent was stored, or its request lost its lock or met an error.     *)
LEMMA BroadcastInv ==
    ASSUME LockInv, NEW r \in Requests, Broadcast(r)
    PROVE  LockInv'
<1>1. TypeOK'
    BY DEF LockInv, TypeOK, PCs, Broadcast, Goto, row, history
<1>2. FirstInsert'
    BY DEF LockInv, FirstInsert, Broadcast, row
<1>3. HoldersHold'
    BY DEF LockInv, HoldersHold, InSection, Section, Broadcast, Goto, row,
           history
<1>4. NoncesDense'
    BY DEF LockInv, NoncesDense, Broadcast, row, history
<1>5. DistinctNonces'
    BY DEF LockInv, DistinctNonces, Broadcast, history
<1>6. Provenance'
    BY DEF LockInv, Provenance, RecordedNonce, After, Broadcast, Goto, history
<1>7. NetworkFollows'
    BY DEF LockInv, NetworkFollows, Broadcast
<1> QED BY <1>1, <1>2, <1>3, <1>4, <1>5, <1>6, <1>7 DEF LockInv

(* The second store adds a nonce that nextNonce has not passed only when the  *)
(* first store was swallowed.                                                 *)
LEMMA StoreAgainInv ==
    ASSUME LockInv, NEW r \in Requests, StoreAgain(r)
    PROVE  LockInv'
<1>1. TypeOK'
    BY DEF LockInv, TypeOK, PCs, StoreAgain, StoreOnly, Goto, row, chain, Fault
<1>2. FirstInsert'
    BY DEF LockInv, FirstInsert, StoreAgain, row
<1>3. HoldersHold'
    BY DEF LockInv, TypeOK, HoldersHold, InSection, Section, StoreAgain, Goto,
           row, Fault
<1>4. present /\ UNCHANGED <<present, nextNonce, lost, nonce, kind, sent>>
    BY DEF LockInv, FirstInsert, StoreAgain, row, chain
<1>5. faulted \subseteq faulted' /\ r \in recorded \cup lost \cup faulted
    BY DEF LockInv, Provenance, StoreAgain, Fault
<1>6. ASSUME StoreOnly(r)
      PROVE  NoncesDense' /\ DistinctNonces' /\ Provenance'
  <2>1. recorded' = recorded \cup {r} /\ patched' = patched \cup ({r} \ recorded)
      BY <1>6 DEF StoreOnly
  <2>2. nonce[r] \in Nat /\ nextNonce \in Nat /\ nonce[r] <= nextNonce
      BY DEF LockInv, TypeOK, HoldersHold
  <2>3. NoncesDense'
      BY <1>4, <1>5, <2>1, <2>2 DEF LockInv, NoncesDense
  <2>4. DistinctNonces'
      BY <1>4, <2>1 DEF LockInv, DistinctNonces
  <2>5. \A q \in Requests \ {r} : pc'[q] = pc[q]
      BY DEF LockInv, TypeOK, StoreAgain, Fault, Goto
  <2>6. pc[r] \in After /\ pc'[r] \in After
      BY DEF LockInv, TypeOK, StoreAgain, Fault, Goto, After
  <2>7. \A q \in recorded' : pc'[q] \in After
      BY <2>1, <2>5, <2>6 DEF LockInv, TypeOK, Provenance
  <2>8. \A q \in Requests : kind'[q] = "resubmit" => RecordedNonce(nonce[q])'
      BY <1>4, <2>1 DEF LockInv, Provenance, RecordedNonce
  <2>9. \A q \in Requests : pc'[q] \in {"swallow", "broadcast", "storeAgain"}
                              => q \in recorded' \cup lost' \cup faulted'
      BY <1>4, <1>5, <2>1, <2>5 DEF LockInv, Provenance
  <2>10. patched' \subseteq recorded' \cap (lost' \cup faulted')
      BY <1>4, <1>5, <2>1 DEF LockInv, Provenance
  <2>11. \A n \in sent' : \E q \in recorded' \cup lost' \cup faulted' :
            nonce'[q] = n /\ pc'[q] \in After
      BY <1>4, <1>5, <2>1, <2>5, <2>6 DEF LockInv, TypeOK, Provenance
  <2> QED BY <2>3, <2>4, <2>7, <2>8, <2>9, <2>10, <2>11 
             DEF Provenance, RecordedNonce
<1>7. ASSUME UNCHANGED <<recorded, patched>>
      PROVE  NoncesDense' /\ DistinctNonces' /\ Provenance'
  <2>1. NoncesDense' /\ DistinctNonces'
      BY <1>4, <1>5, <1>7 DEF LockInv, NoncesDense, DistinctNonces
  <2>2. Provenance'
      BY <1>4, <1>5, <1>7
         DEF LockInv, TypeOK, Provenance, RecordedNonce, After, StoreAgain, Goto,
             Fault
  <2> QED BY <2>1, <2>2
<1>8. NoncesDense' /\ DistinctNonces' /\ Provenance'
    BY <1>6, <1>7 DEF StoreAgain
<1>9. NetworkFollows'
    BY DEF LockInv, NetworkFollows, StoreAgain, chain
<1> QED BY <1>1, <1>2, <1>3, <1>8, <1>9 DEF LockInv

(* The finally clause may take the lock of another request, too.              *)
LEMMA UnlockBroadcasterInv ==
    ASSUME LockInv, NEW r \in Requests, UnlockBroadcaster(r)
    PROVE  LockInv'
<1>1. TypeOK'
    BY NumbersAssumption
       DEF LockInv, TypeOK, PCs, UnlockBroadcaster, Goto, row, chain, UnlockRow,
           Deprived, Fault
<1>2. FirstInsert'
    BY DEF LockInv, FirstInsert, UnlockBroadcaster, row, UnlockRow
<1>3. HoldersHold'
    BY DEF LockInv, TypeOK, HoldersHold, InSection, Section, UnlockBroadcaster,
           Goto, row, UnlockRow, Deprived, Fault
<1>4. NoncesDense'
  <2>1. /\ UNCHANGED <<present, nextNonce, recorded, patched, nonce>>
        /\ lost \subseteq lost' /\ faulted \subseteq faulted'
    BY DEF UnlockBroadcaster, UnlockRow, Fault, row
  <2> QED BY <2>1 DEF LockInv, NoncesDense
<1>5. DistinctNonces'
    BY DEF LockInv, DistinctNonces, UnlockBroadcaster, UnlockRow
<1>6. Provenance'
    BY DEF LockInv, TypeOK, Provenance, RecordedNonce, After, UnlockBroadcaster,
           Goto, chain, UnlockRow, Fault
<1>7. NetworkFollows'
    BY DEF LockInv, NetworkFollows, UnlockBroadcaster, chain, UnlockRow
<1> QED BY <1>1, <1>2, <1>3, <1>4, <1>5, <1>6, <1>7 DEF LockInv

(* A crash leaves the row as it is.                                           *)
LEMMA CrashInv ==
    ASSUME LockInv, NEW r \in Requests, Crash(r)
    PROVE  LockInv'
<1>1. TypeOK'
    BY DEF LockInv, TypeOK, PCs, Crash, Goto, row, chain, history
<1>2. FirstInsert'
    BY DEF LockInv, FirstInsert, Crash, Goto, row, chain, history
<1>3. HoldersHold'
    BY DEF LockInv, HoldersHold, InSection, Section, Crash, Goto, row, history
<1>4. NoncesDense'
    BY DEF LockInv, NoncesDense, Crash, row, history
<1>5. DistinctNonces'
    BY DEF LockInv, DistinctNonces, Crash, history
<1>6. Provenance'
    BY DEF LockInv, Provenance, RecordedNonce, After, Crash, Goto, chain,
           history
<1>7. NetworkFollows'
    BY DEF LockInv, NetworkFollows, Crash, chain
<1> QED BY <1>1, <1>2, <1>3, <1>4, <1>5, <1>6, <1>7 DEF LockInv

(* Time ages the lock only.                                                   *)
LEMMA TickInv ==
    ASSUME LockInv, Tick
    PROVE  LockInv'
<1>1. TypeOK'
    BY NumbersAssumption DEF LockInv, TypeOK, Tick, Expired, chain, history
<1>2. FirstInsert'
    BY DEF LockInv, FirstInsert, Tick
<1>3. HoldersHold' /\ NoncesDense' /\ DistinctNonces' /\ NetworkFollows'
    BY DEF LockInv, HoldersHold, InSection, NoncesDense, DistinctNonces,
           NetworkFollows, Tick, chain, history
<1>4. Provenance'
    BY DEF LockInv, Provenance, RecordedNonce, Tick, chain, history
<1> QED BY <1>1, <1>2, <1>3, <1>4 DEF LockInv

(* The network includes the next nonce only if it was sent.                   *)
LEMMA MineInv ==
    ASSUME LockInv, Mine
    PROVE  LockInv'
<1>1. TypeOK'
    BY DEF LockInv, TypeOK, Mine, row, history
<1>2. FirstInsert'
    BY DEF LockInv, FirstInsert, Mine, row
<1>3. HoldersHold' /\ NoncesDense' /\ DistinctNonces'
    BY DEF LockInv, HoldersHold, InSection, NoncesDense, DistinctNonces, Mine,
           row, history
<1>4. Provenance'
    BY DEF LockInv, Provenance, RecordedNonce, Mine, history
<1>5. NetworkFollows'
    BY NumbersAssumption DEF LockInv, TypeOK, NetworkFollows, Mine
<1> QED BY <1>1, <1>2, <1>3, <1>4, <1>5 DEF LockInv

(* The empty table satisfies the invariant.                                   *)
LEMMA LockInvInit == Init => LockInv
<1> SUFFICES ASSUME Init PROVE LockInv
    OBVIOUS
<1>1. TypeOK
  <2>1. lockAge \in 0..(LockExpiry + 1)
    BY NumbersAssumption DEF Init
  <2>2. pc \in [Requests -> PCs] /\ kind \in [Requests -> {"fresh", "resubmit"}]
    BY DEF Init, PCs
  <2> QED BY <2>1, <2>2, NumbersAssumption DEF Init, TypeOK
<1>2. FirstInsert /\ NoncesDense /\ DistinctNonces
    BY DEF Init, FirstInsert, NoncesDense, DistinctNonces
<1>3. HoldersHold
    BY DEF Init, HoldersHold, InSection, Section
<1>4. Provenance /\ NetworkFollows
    BY NumbersAssumption DEF Init, Provenance, NetworkFollows
<1> QED BY <1>1, <1>2, <1>3, <1>4 DEF LockInv

(* Every step of any request preserves the invariant.                         *)
LEMMA LockInvStep == LockInv /\ [Next]_vars => LockInv'
<1> SUFFICES ASSUME LockInv, [Next]_vars PROVE LockInv'
    OBVIOUS
<1>1. CASE UNCHANGED vars
    BY <1>1
       DEF LockInv, TypeOK, FirstInsert, HoldersHold, InSection, NoncesDense,
           DistinctNonces, Provenance, RecordedNonce, NetworkFollows,
           vars, row, chain, history
<1>2. CASE Tick
    BY <1>2, TickInv
<1>3. CASE Mine
    BY <1>3, MineInv
<1>4. ASSUME NEW r \in Requests, Step(r)
      PROVE  LockInv'
    BY <1>4, ReadNetworkNonceInv, LockBroadcasterInv, ReadBackInv, PrepareInv,
       VerifyLockInv, StoreExecutionInv, SwallowErrorInv, BroadcastInv,
       StoreAgainInv, UnlockBroadcasterInv, CrashInv DEF Step
<1> QED BY <1>1, <1>2, <1>3, <1>4 DEF Next

(* Every reachable state satisfies the strengthened invariant. *)
THEOREM LockInvariant == Spec => []LockInv
<1> QED BY LockInvInit, LockInvStep, PTL DEF Spec

(* Type correctness of the row, the network and the requests. *)
THEOREM TypeCorrect == Spec => []TypeOK
<1>1. LockInv => TypeOK
    BY DEF LockInv
<1> QED BY LockInvariant, <1>1, PTL

(* Only a request that lost its lock can be in the section with another one. *)
THEOREM MutualExclusion == Spec => []Exclusion
<1>1. LockInv => Exclusion
    BY DEF LockInv, HoldersHold, Exclusion
<1> QED BY LockInvariant, <1>1, PTL

(* Unless one of their submissions lost its lock or was stored by the second  *)
(* store only, stored executions have nonces of their own.                    *)
THEOREM NoncesDistinct == Spec => []DistinctNonces
<1>1. LockInv => DistinctNonces
    BY DEF LockInv
<1> QED BY LockInvariant, <1>1, PTL

(* The stored executions cover every nonce below nextNonce, whatever the      *)
(* requests lost, wherever they crashed and whatever failed, and reach        *)
(* nextNonce only by the second store after a swallowed first one.            *)
THEOREM NoncesHaveNoGap == Spec => []NoncesDense
<1>1. LockInv => NoncesDense
    BY DEF LockInv
<1> QED BY LockInvariant, <1>1, PTL

(* A transaction the network has comes from a stored execution, or from a     *)
(* submission that lost its lock or met a database error.                     *)
THEOREM BroadcastsTracked == Spec => []BroadcastsRecorded
<1>1. LockInv => BroadcastsRecorded
    BY DEF LockInv, Provenance, BroadcastsRecorded
<1> QED BY LockInvariant, <1>1, PTL

(* A broadcaster whose network nonce is beyond nextNonce has seen a lost lock *)
(* or a database error.                                                       *)
THEOREM NeverStuckByItself == Spec => []StuckOnlyByLoss
<1>1. LockInv => StuckOnlyByLoss
  <2> SUFFICES ASSUME LockInv, Stuck, lost \cup faulted = {} PROVE FALSE
    BY DEF StuckOnlyByLoss
  <2>1. netNonce - 1 \in sent /\ present /\ netNonce > nextNonce
    BY NumbersAssumption
       DEF LockInv, TypeOK, FirstInsert, NetworkFollows, Stuck
  <2>2. PICK q \in recorded : nonce[q] = netNonce - 1
    BY <2>1 DEF LockInv, Provenance
  <2>3. nonce[q] < nextNonce
    BY <2>1 DEF LockInv, NoncesDense
  <2> QED BY <2>1, <2>2, <2>3 DEF LockInv, TypeOK
<1> QED BY LockInvariant, <1>1, PTL

(* nextNonce never goes back and never skips a nonce. *)
THEOREM NextNonceAdvancesByOne == Spec => NextNonceSteps
<1>1. LockInv /\ [Next]_vars => [present => nextNonce' \in {nextNonce, nextNonce + 1}]_vars
  <2> SUFFICES ASSUME LockInv, Next, present
               PROVE  nextNonce' \in {nextNonce, nextNonce + 1}
    OBVIOUS
  <2>1. ASSUME NEW r \in Requests, StoreExecution(r)
        PROVE  nextNonce' \in {nextNonce, nextNonce + 1}
    <3>1. nonce[r] \in Nat /\ nextNonce \in Nat /\ nonce[r] <= nextNonce
      BY <2>1 DEF LockInv, TypeOK, HoldersHold
    <3>2. CASE StoreRow(r)
      BY <3>1, <3>2 DEF StoreRow, NonceAfter
    <3>3. CASE UNCHANGED <<row, lost, recorded>>
      BY <3>3 DEF row
    <3> QED BY <2>1, <3>2, <3>3 DEF StoreExecution
  <2>2. ASSUME NEW r \in Requests, Step(r), ~StoreExecution(r)
        PROVE  nextNonce' = nextNonce
    BY <2>2
       DEF Step, ReadNetworkNonce, LockBroadcaster, LockRow, NonceOnLock,
           ReadBack, Acquired, Prepare,
           VerifyLock, SwallowError, UnlockRow, Broadcast, StoreAgain,
           UnlockBroadcaster, Crash, row
  <2> QED BY <2>1, <2>2 DEF Next, Tick, Mine, row
<1> QED BY LockInvariant, <1>1, PTL DEF Spec, NextNonceSteps
=============================================================================
