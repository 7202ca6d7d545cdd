--------------------------- MODULE BroadcasterLock ---------------------------
(* The row of table Broadcasters that every submission of one broadcaster     *)
(* goes through: its lock, the time of the lock and the nonce of the next     *)
(* transaction.  A request is one invocation of _submitTransaction            *)
(* (executor.ts); the text between two awaits of it is one action, so any     *)
(* other request may run in between.  Time passes at any moment, a request    *)
(* may crash anywhere, and a call to the database or to the node may throw.   *)
(* The code reads the clock and lock_timestamp only to compare their          *)
(* difference with the expiry: lockAge is that difference, up to the first    *)
(* value at which the lock has expired.                                       *)
(*                                                                            *)
(* A request takes the lock at most once and its 16 random bytes never        *)
(* collide: the request itself stands for them.                               *)
EXTENDS Integers, FiniteSets

CONSTANTS
    Requests,      \* invocations of _submitTransaction for the broadcaster
    NoLock,        \* SQL NULL in column lock
    LockExpiry,    \* LOCK_EXPIRY_SECONDS
    FirstNonce,    \* nonce of the broadcaster on the network at the beginning
    MaxFaults,     \* bound on the requests that meet a database error
    MaxCrashes     \* bound on the requests that crash

ASSUME NoLockAssumption == NoLock \notin Requests
ASSUME NumbersAssumption == LockExpiry \in Nat /\ FirstNonce \in Nat

VARIABLES
    present,       \* whether the row exists
    nextNonce,     \* column nextNonce
    lock,          \* column lock
    lockAge,       \* UNIXEPOCH() - lock_timestamp, 0 when lock is NoLock
    netNonce,      \* transaction count of the broadcaster on the network
    sent,          \* nonces of the transactions the network has accepted
    pc,            \* where each request is
    kind,          \* "fresh": a new execution; "resubmit": forceNonce is given
    seen,          \* currentNonceAsPerNetwork of each request
    nonce,         \* nonce of each request
    recorded,      \* history: requests whose execution has been stored
    patched,       \* history: those of them stored after the broadcast only
    lost,          \* history: holders whose lock another request removed
    faulted        \* history: requests that met a database error

row == <<present, nextNonce, lock, lockAge>>
chain == <<netNonce, sent>>
history == <<recorded, patched, lost, faulted>>
vars == <<row, chain, pc, kind, seen, nonce, history>>

PCs == {"start", "lock", "readBack", "inside", "verify", "batch", "swallow",
        "broadcast", "storeAgain", "swallowAgain", "unlock", "done", "crashed"}

(* From the read-back that succeeded to the statement that gives the lock up. *)
Section == {"inside", "verify", "batch"}
InSection(r) == pc[r] \in Section

TypeOK ==
    /\ present \in BOOLEAN
    /\ nextNonce \in Nat
    /\ lock \in Requests \cup {NoLock}
    /\ lockAge \in 0..(LockExpiry + 1)
    /\ netNonce \in Nat
    /\ sent \subseteq Nat
    /\ pc \in [Requests -> PCs]
    /\ kind \in [Requests -> {"fresh", "resubmit"}]
    /\ seen \in [Requests -> Nat]
    /\ nonce \in [Requests -> Nat]
    /\ recorded \subseteq Requests
    /\ patched \subseteq Requests
    /\ lost \subseteq Requests
    /\ faulted \subseteq Requests

Init ==
    /\ present = FALSE
    /\ nextNonce = 0
    /\ lock = NoLock
    /\ lockAge = 0
    /\ netNonce = FirstNonce
    /\ sent = {}
    /\ pc = [r \in Requests |-> "start"]
    /\ kind = [r \in Requests |-> "fresh"]
    /\ seen = [r \in Requests |-> 0]
    /\ nonce = [r \in Requests |-> 0]
    /\ recorded = {}
    /\ patched = {}
    /\ lost = {}
    /\ faulted = {}

Goto(r, label) == pc' = [pc EXCEPT ![r] = label]

(* The holder that loses its lock when r takes the lock off the row. *)
Deprived(r) == {lock} \ {r, NoLock}

-----------------------------------------------------------------------------
(* The row statements.                                                        *)

(* Mutant: the lock expires a second later. *)
ExpiredLate == lockAge > LockExpiry + 1

Expired == lockAge > LockExpiry

(* nextNonce is set on insertion only.  Mutant: it follows the network.       *)
NonceCatchesUp(r) == IF present /\ nextNonce >= seen[r] THEN nextNonce ELSE seen[r]

NonceOnLock(r) == IF present THEN nextNonce ELSE seen[r]

(* INSERT .. ON CONFLICT DO UPDATE of lockBroadcaster: the lock is taken when *)
(* there is none or it has expired.                                           *)
LockRow(r) ==
    /\ present' = TRUE
    /\ nextNonce' = NonceOnLock(r)
    /\ IF ~present \/ lock = NoLock \/ Expired
       THEN /\ lock' = r
            /\ lockAge' = 0
            /\ lost' = lost \cup Deprived(r)
       ELSE UNCHANGED <<lock, lockAge, lost>>

(* UPDATE of unlockBroadcaster: whoever holds the lock loses it. *)
UnlockRow(r) ==
    /\ lock' = NoLock
    /\ lockAge' = 0
    /\ lost' = lost \cup Deprived(r)
    /\ UNCHANGED <<present, nextNonce>>

(* MAX(nextNonce, nonce + 1).  Mutants: without the maximum, and not at all.  *)
NonceOverwritten(r) == nonce[r] + 1
NonceKept(r) == nextNonce

NonceAfter(r) == IF nonce[r] + 1 > nextNonce THEN nonce[r] + 1 ELSE nextNonce

(* The batch of createOrUpdatePendingExecution: the execution is stored,      *)
(* nextNonce is updated and the lock is cleared, whoever holds it.            *)
StoreRow(r) ==
    /\ nextNonce' = NonceAfter(r)
    /\ lock' = NoLock
    /\ lockAge' = 0
    /\ lost' = lost \cup Deprived(r)
    /\ recorded' = recorded \cup {r}
    /\ UNCHANGED present

-----------------------------------------------------------------------------
(* The steps of a request.                                                    *)

MayFault(r) == Cardinality(faulted \cup {r}) <= MaxFaults

(* The request meets a database error and goes on at label. *)
Fault(r, label) ==
    /\ MayFault(r)
    /\ faulted' = faulted \cup {r}
    /\ Goto(r, label)

(* getNonce of the network.  A resubmission is of an execution that has been  *)
(* stored, with the nonce it was stored with.                                 *)
ReadNetworkNonce(r) ==
    /\ pc[r] = "start"
    /\ seen' = [seen EXCEPT ![r] = netNonce]
    /\ Goto(r, "lock")
    /\ \/ UNCHANGED <<kind, nonce>>
       \/ \E q \in recorded :
             /\ kind' = [kind EXCEPT ![r] = "resubmit"]
             /\ nonce' = [nonce EXCEPT ![r] = nonce[q]]
    /\ UNCHANGED <<row, chain, history>>

LockBroadcaster(r) ==
    /\ pc[r] = "lock"
    /\ \/ LockRow(r) /\ Goto(r, "readBack") /\ UNCHANGED faulted
       \/ Fault(r, "done") /\ UNCHANGED <<row, lost>>
    /\ UNCHANGED <<chain, kind, seen, nonce, recorded, patched>>

(* Whether the lock that was read back is the own one.  Mutant: any lock.     *)
AcquiredAny(r) == lock # NoLock

Acquired(r) == lock = r

(* The SELECT after the upsert.  It throws or finds the lock of another       *)
(* request: _acquireBroadcaster throws, outside the try, so nothing unlocks.  *)
ReadBack(r) ==
    /\ pc[r] = "readBack"
    /\ \/ /\ IF Acquired(r)
             THEN /\ Goto(r, "inside")
                  /\ nonce' = IF kind[r] = "fresh"
                              THEN [nonce EXCEPT ![r] = nextNonce] ELSE nonce
             ELSE Goto(r, "done") /\ UNCHANGED nonce
          /\ UNCHANGED faulted
       \/ Fault(r, "done") /\ UNCHANGED nonce
    /\ UNCHANGED <<row, chain, kind, seen, recorded, patched, lost>>

(* Mutant: what fails on the way is broadcast all the same. *)
PrepareRegardless(r) ==
    /\ pc[r] = "inside"
    /\ \E label \in {"verify", "broadcast"} : Goto(r, label)
    /\ UNCHANGED <<row, chain, kind, seen, nonce, history>>

(* From the choice of the nonce to the store: the network being ahead of      *)
(* nextNonce is an error; simulation, balance or a call to the node may end   *)
(* the submission, and the finally clause unlocks.                            *)
Prepare(r) ==
    /\ pc[r] = "inside"
    /\ \/ /\ kind[r] = "fresh" => seen[r] <= nonce[r]
          /\ Goto(r, "verify")
       \/ Goto(r, "unlock")
    /\ UNCHANGED <<row, chain, kind, seen, nonce, history>>

(* createOrUpdatePendingExecution reads the row and compares the lock; what   *)
(* it throws it catches itself.                                               *)
VerifyLock(r) ==
    /\ pc[r] = "verify"
    /\ \/ Goto(r, IF lock = r THEN "batch" ELSE "swallow") /\ UNCHANGED faulted
       \/ Fault(r, "swallow")
    /\ UNCHANGED <<row, chain, kind, seen, nonce, recorded, patched, lost>>

(* The batch is atomic, but its answer may be an error after it was applied.  *)
StoreExecution(r) ==
    /\ pc[r] = "batch"
    /\ \/ StoreRow(r) /\ Goto(r, "broadcast") /\ UNCHANGED faulted
       \/ Fault(r, "swallow") /\ (StoreRow(r) \/ UNCHANGED <<row, lost, recorded>>)
    /\ UNCHANGED <<chain, kind, seen, nonce, patched>>

(* The catch clause of createOrUpdatePendingExecution: unlock, and return     *)
(* normally, so that the caller goes on.                                      *)
SwallowError(r) ==
    /\ pc[r] \in {"swallow", "swallowAgain"}
    /\ \/ UnlockRow(r) /\ UNCHANGED faulted
       \/ /\ MayFault(r)
          /\ faulted' = faulted \cup {r}
          /\ UNCHANGED <<row, lost>>
    /\ Goto(r, IF pc[r] = "swallow" THEN "broadcast" ELSE "unlock")
    /\ UNCHANGED <<chain, kind, seen, nonce, recorded, patched>>

(* broadcastSignedTransaction, tried twice: it answers, or both calls throw,  *)
(* and either way the network may have the transaction or not.                *)
Broadcast(r) ==
    /\ pc[r] = "broadcast"
    /\ sent' \in {sent, sent \cup {nonce[r]}}
    /\ \E label \in {"unlock", "storeAgain"} : Goto(r, label)
    /\ UNCHANGED <<row, netNonce, kind, seen, nonce, history>>

(* The batch after two failed broadcasts: the execution alone, with its nonce *)
(* and lastError.  No lock is compared and neither nextNonce nor the lock is  *)
(* written.                                                                   *)
StoreOnly(r) ==
    /\ recorded' = recorded \cup {r}
    /\ patched' = patched \cup ({r} \ recorded)

StoreAgain(r) ==
    /\ pc[r] = "storeAgain"
    /\ \/ StoreOnly(r) /\ Goto(r, "unlock") /\ UNCHANGED faulted
       \/ Fault(r, "swallowAgain") /\ (StoreOnly(r) \/ UNCHANGED <<recorded, patched>>)
    /\ UNCHANGED <<row, chain, kind, seen, nonce, lost>>

(* The finally clause of _submitTransaction. *)
UnlockBroadcaster(r) ==
    /\ pc[r] = "unlock"
    /\ \/ UnlockRow(r) /\ Goto(r, "done") /\ UNCHANGED faulted
       \/ Fault(r, "done") /\ UNCHANGED <<row, lost>>
    /\ UNCHANGED <<chain, kind, seen, nonce, recorded, patched>>

(* The process dies, or the platform ends the handler. *)
Crash(r) ==
    /\ pc[r] \notin {"start", "done", "crashed"}
    /\ Cardinality({q \in Requests : pc[q] = "crashed"}) < MaxCrashes
    /\ Goto(r, "crashed")
    /\ UNCHANGED <<row, chain, kind, seen, nonce, history>>

-----------------------------------------------------------------------------
(* The environment.                                                           *)

Tick ==
    /\ lock # NoLock /\ ~Expired
    /\ lockAge' = lockAge + 1
    /\ UNCHANGED <<present, nextNonce, lock, chain, pc, kind, seen, nonce, history>>

(* The network includes the next transaction of the broadcaster. *)
Mine ==
    /\ netNonce \in sent
    /\ netNonce' = netNonce + 1
    /\ UNCHANGED <<row, sent, pc, kind, seen, nonce, history>>

Step(r) ==
    \/ ReadNetworkNonce(r) \/ LockBroadcaster(r) \/ ReadBack(r) \/ Prepare(r)
    \/ VerifyLock(r) \/ StoreExecution(r) \/ SwallowError(r) \/ Broadcast(r)
    \/ StoreAgain(r) \/ UnlockBroadcaster(r) \/ Crash(r)

Next == (\E r \in Requests : Step(r)) \/ Tick \/ Mine

Spec == Init /\ [][Next]_vars

-----------------------------------------------------------------------------
(* Properties.                                                                *)

(* A lock can be taken from a live request: by expiry, or because another     *)
(* request that had held the lock unlocks without looking (lost).  Apart from *)
(* those requests, at most one request at a time is between the read-back of  *)
(* lockBroadcaster and its store.                                             *)
Exclusion ==
    \A r, q \in Requests : InSection(r) /\ InSection(q) /\ r # q
                              => r \in lost \/ q \in lost

(* Two new executions are stored with the same nonce only if one of the       *)
(* submissions lost its lock on the way, or was stored by the second store    *)
(* only, which keeps the nonce for nobody.                                    *)
DistinctNonces ==
    \A r, q \in recorded :
        /\ r # q /\ kind[r] = "fresh" /\ kind[q] = "fresh"
        /\ nonce[r] = nonce[q]
        => {r, q} \cap (lost \cup patched) # {}

(* nextNonce runs ahead of nothing: whatever was lost, expired, crashed or    *)
(* failed, each nonce below it was stored with some execution (which          *)
(* processPendingTransactions will follow).  No nonce above it was stored,    *)
(* and nextNonce itself only by the second store of a submission whose first  *)
(* store was swallowed: the next new execution will get that nonce as well.   *)
NoncesDense ==
    present => /\ \A n \in FirstNonce..(nextNonce - 1) :
                     \E r \in recorded : nonce[r] = n
               /\ \A r \in recorded :
                     \/ nonce[r] < nextNonce
                     \/ nonce[r] = nextNonce /\ r \in patched \cap (lost \cup faulted)

(* A transaction on the network carries the nonce of a stored execution,      *)
(* except when its submission lost the lock or met a database error: the      *)
(* storage swallows both and the executor broadcasts all the same.            *)
BroadcastsRecorded ==
    \A n \in sent : \E r \in recorded \cup lost \cup faulted : nonce[r] = n

(* _submitTransaction refuses every new execution of a broadcaster whose      *)
(* network nonce is beyond nextNonce, and nothing moves nextNonce then.  This *)
(* happens only after a lock was lost or the database failed.                 *)
Stuck == present /\ netNonce > nextNonce
StuckOnlyByLoss == Stuck => lost \cup faulted # {}

(* nextNonce never goes back, not even for a resubmission of an old nonce,    *)
(* and never jumps.                                                           *)
NextNonceSteps == [][present => nextNonce' \in {nextNonce, nextNonce + 1}]_vars

(* A broadcast that fails twice is "going to [be handled] when processing     *)
(* recorded transactions": with a database that never fails, a request that   *)
(* broadcasts has been recorded.                                              *)
BroadcastAfterRecord ==
    \A r \in Requests : pc[r] = "broadcast" /\ r \notin faulted => r \in recorded

-----------------------------------------------------------------------------
(* The strengthening of the properties above that every step preserves.      *)

(* Statements that come after the store. *)
After == {"swallow", "broadcast", "storeAgain", "swallowAgain", "unlock", "done",
          "crashed"}

(* Before the row exists nothing has been stored or sent, so the request that *)
(* inserts it inserts the first nonce.                                        *)
FirstInsert ==
    IF present
    THEN nextNonce >= FirstNonce
    ELSE /\ lock = NoLock /\ netNonce = FirstNonce /\ sent = {} /\ recorded = {}
         /\ nextNonce = 0
         /\ \A r \in Requests :
               /\ pc[r] \in {"start", "lock", "done", "crashed"}
               /\ pc[r] = "lock" => seen[r] = FirstNonce

(* Who has not lost the lock holds it, and no nonce was given since.  Nobody  *)
(* ever has a nonce beyond nextNonce.                                         *)
HoldersHold ==
    \A r \in Requests :
        /\ nonce[r] <= nextNonce
        /\ InSection(r) /\ r \notin lost
              => lock = r /\ (kind[r] = "fresh" => nonce[r] = nextNonce)

RecordedNonce(n) == \E q \in recorded : nonce[q] = n

(* Nonces of resubmissions come from stored executions; what is broadcast was *)
(* stored or its submission failed; what was stored stays as it was.          *)
Provenance ==
    /\ \A r \in recorded : pc[r] \in After
    /\ \A r \in Requests : kind[r] = "resubmit" => RecordedNonce(nonce[r])
    /\ \A r \in Requests : pc[r] \in {"swallow", "broadcast", "storeAgain"}
          => r \in recorded \cup lost \cup faulted
    /\ patched \subseteq recorded \cap (lost \cup faulted)
    /\ \A n \in sent : \E q \in recorded \cup lost \cup faulted :
          nonce[q] = n /\ pc[q] \in After

NetworkFollows ==
    netNonce >= FirstNonce /\ (netNonce > FirstNonce => netNonce - 1 \in sent)

LockInv ==
    /\ TypeOK
    /\ FirstInsert
    /\ HoldersHold
    /\ NoncesDense
    /\ DistinctNonces
    /\ Provenance
    /\ NetworkFollows
=============================================================================
