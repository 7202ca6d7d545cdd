------------------------------ MODULE Scheduler ------------------------------
(* The scheduler (scheduler.ts) over its two tables: users schedule and       *)
(* schedule again, runs of processQueue take the rows that are due, check the *)
(* transaction they depend on and hand their executions to the executor, and  *)
(* checkScheduledExecutionStatus marks what the executor has finalized.  A    *)
(* row is written as it was read, however old that reading is.  Of the        *)
(* executor there is what it answers: whether it has an execution of a slot   *)
(* and batch index already, which it stores later if not, and that it         *)
(* finalizes what it has in the end.                                          *)
EXTENDS Integers, Sequences, FiniteSets

CONSTANTS
    Slots,        \* (account, chainId, slot)
    Runs,         \* processes that run processQueue again and again
    Kinds,        \* kinds of timing that users ask for
    BatchSize,    \* executions of a slot
    Delta,        \* delta of delta-time
    Expiry,       \* expiryDelta, or maxExpiry
    Grace,        \* expectedFinality * worstCaseBlockTime
    MaxRetries,   \* 100
    Limit,        \* maxNumTransactionsToProcessInOneGo
    Times,        \* times that users ask for
    Targets,      \* targetTimeUnlessHigherDelta, 0 for none
    LastBlock,    \* bound on the time of a transaction's block
    MaxTime,      \* bound on the clock
    MaxVersions,  \* bound on the submissions for a slot
    MaxFaults,    \* bound on crashes, errors and interventions of the admin
    NoRow         \* an absent row

(* "fixed": fixed-time and fixed-round; "assumed": the same with an           *)
(* assumedTransaction; "delta": delta-time, and with a target that is not 0   *)
(* delta-time-with-target-time.                                               *)
ASSUME KindsAssumption == Kinds \subseteq {"fixed", "assumed", "delta"}
ASSUME NumbersAssumption ==
       /\ {BatchSize, Delta, MaxRetries, Limit, MaxTime} \subseteq Nat \ {0}
       /\ {Expiry, Grace, LastBlock, MaxVersions, MaxFaults} \subseteq Nat
ASSUME TimesAssumption == Times \subseteq Nat /\ Targets \subseteq Nat /\ 0 \in Targets
ASSUME SlotsAssumption == IsFiniteSet(Slots)

Batch == 1..BatchSize
NoTime == 0

VARIABLES
    asked,      \* history: the submissions accepted for each slot
    rows,       \* ScheduledExecutions
    archived,   \* ArchivedScheduledExecutions
    prior,      \* the transaction each slot depends on: its state ...
    priorTime,  \* ... and the time of its block
    taken,      \* BroadcastedExecutions: submission that each batch index has
    final,      \* those of them that are finalized
    now,        \* the chain's timestamp
    pc,         \* where each run is
    todo,       \* rows a run has read; the first is the one it processes
    stamp,      \* chainTimestamps of a run
    index,      \* batch index a run is at
    checking,   \* rows checkScheduledExecutionStatus has read
    admin,      \* rows archiveSubmission has read
    faults,     \* number of faults so far
    raced,      \* history: slots scheduled again while a process had their row
    deleted,    \* history: slots whose finalized row was deleted
    reopened    \* history: slots scheduled again before they were broadcasted

tables == <<rows, archived>>
env == <<prior, priorTime, taken, final, now>>
run == <<pc, todo, stamp, index>>
history == <<asked, raced, deleted, reopened>>
readings == <<checking, admin>>
vars == <<tables, env, run, readings, faults, history>>

PCs == {"idle", "check", "archive", "retry", "save", "decrypt", "execute", "store", "finish"}

Request == [kind : Kinds, at : Nat, target : Targets]

Row == [slot : Slots, version : 1..MaxVersions, timing : Request, checkin : Nat,
        confirmed : BOOLEAN, retries : 0..MaxRetries, broadcasted : BOOLEAN,
        finalized : BOOLEAN]

ASSUME NullsAssumption == NoRow \notin Row

TypeOK ==
    /\ \A s \in Slots : \A v \in DOMAIN asked[s] : asked[s][v] \in Request
    /\ \A table \in {rows, archived}, s \in Slots :
          table[s] = NoRow \/ (table[s] \in Row /\ table[s].slot = s)
    /\ \A s \in Slots : prior[s] \in {"pending", "mined", "success", "failed", "replaced"}
    /\ \A s \in Slots : priorTime[s] \in Nat
    /\ taken \in [Slots -> [Batch -> 0..MaxVersions]]
    /\ final \subseteq Slots \X Batch
    /\ now \in 1..MaxTime
    /\ \A p \in Runs : /\ pc[p] \in PCs
                       /\ \A i \in DOMAIN todo[p] : todo[p][i] \in Row
                       /\ stamp[p] \in 0..MaxTime
                       /\ index[p] \in Batch
                       /\ pc[p] # "idle" => todo[p] # <<>>
    /\ checking \subseteq Row /\ admin \subseteq Row
    /\ faults \in 0..MaxFaults
    /\ raced \subseteq Slots /\ deleted \subseteq Slots /\ reopened \subseteq Slots

Init ==
    /\ asked = [s \in Slots |-> <<>>]
    /\ rows = [s \in Slots |-> NoRow]
    /\ archived = [s \in Slots |-> NoRow]
    /\ prior = [s \in Slots |-> "pending"]
    /\ priorTime = [s \in Slots |-> 0]
    /\ taken = [s \in Slots |-> [i \in Batch |-> 0]]
    /\ final = {}
    /\ now = 1
    /\ pc = [p \in Runs |-> "idle"]
    /\ todo = [p \in Runs |-> <<>>]
    /\ stamp = [p \in Runs |-> NoTime]
    /\ index = [p \in Runs |-> 1]
    /\ checking = {} /\ admin = {}
    /\ faults = 0
    /\ raced = {} /\ deleted = {} /\ reopened = {}

-----------------------------------------------------------------------------
Fault == faults < MaxFaults /\ faults' = faults + 1

Kind(row) == row.timing.kind
At(row) == row.timing.at
Target(row) == row.timing.target

(* The delta after a time, or the target when that is later.                  *)
Delayed(row, time) == IF Target(row) > time + Delta THEN Target(row) ELSE time + Delta

(* Mutant of Due: the target is for the time of the submission alone.         *)
DueByDelta(row) ==
    IF Kind(row) = "delta" /\ row.confirmed THEN priorTime[row.slot] + Delta ELSE At(row)

(* computePotentialExecutionTime: of a delta-time, from the block of the      *)
(* transaction once it is confirmed, before that from its broadcast time,     *)
(* which is the time of the submission.                                       *)
Due(row) ==
    IF Kind(row) = "delta" /\ row.confirmed THEN Delayed(row, priorTime[row.slot]) ELSE At(row)

(* checkAndUpdateExecutionIfNeeded has to look at the transaction the row     *)
(* depends on: an assumed one when the time has come, else at once.           *)
Waits(row, time) ==
    /\ ~row.confirmed
    /\ \/ Kind(row) = "delta"
       \/ Kind(row) = "assumed" /\ time >= At(row)

Queued(s) == rows[s] # NoRow /\ ~rows[s].broadcasted
Settled(s) == prior[s] \in {"success", "failed", "replaced"}

(* createOrUpdateQueuedExecution: insert or overwrite, without condition. *)
Save(row) == rows' = [rows EXCEPT ![row.slot] = row] /\ UNCHANGED archived

(* Mutant: the two statements are no batch.                                   *)
ArchiveApart(row) ==
    /\ rows' = [rows EXCEPT ![row.slot] = NoRow]
    /\ archived' = [archived EXCEPT ![row.slot] = IF @ = NoRow THEN row ELSE @]

(* archiveExecution: the row of the slot is deleted and the given one is      *)
(* inserted into the archive, which refuses a slot it already has; the batch  *)
(* is undone then and the error ends the processing of the row.               *)
Archive(row) ==
    IF archived[row.slot] = NoRow
    THEN /\ rows' = [rows EXCEPT ![row.slot] = NoRow]
         /\ archived' = [archived EXCEPT ![row.slot] = row]
    ELSE UNCHANGED tables

InHand(s) ==
    \/ \E p \in Runs : \E i \in DOMAIN todo[p] : todo[p][i].slot = s
    \/ \E row \in checking \cup admin : row.slot = s

(* Nothing is left to be given to the executor.                               *)
Finished(s) ==
    \/ asked[s] = <<>> \/ s \in deleted
    \/ rows[s] # NoRow /\ rows[s].broadcasted

-----------------------------------------------------------------------------
(* scheduleExecution: refused when its time has passed, else the slot starts  *)
(* anew, whatever there was.  The time of a delta-time with target is no      *)
(* earlier than the target.                                                   *)
ScheduleExecution(s, kind, at, target) ==
    /\ Len(asked[s]) < MaxVersions
    /\ at >= now
    /\ target # 0 => kind = "delta" /\ at >= target
    /\ LET request == [kind |-> kind, at |-> at, target |-> target] IN
         /\ asked' = [asked EXCEPT ![s] = Append(@, request)]
         /\ Save([slot |-> s, version |-> Len(asked[s]) + 1, timing |-> request,
                  checkin |-> at, confirmed |-> FALSE, retries |-> 0,
                  broadcasted |-> FALSE, finalized |-> FALSE])
    /\ raced' = IF InHand(s) THEN raced \cup {s} ELSE raced
    /\ deleted' = deleted \ {s}
    /\ reopened' = IF InHand(s) \/ ~Finished(s) THEN reopened \cup {s} ELSE reopened
    /\ UNCHANGED <<env, run, readings, faults>>

-----------------------------------------------------------------------------
(* A run of processQueue.                                                     *)

(* What a LIMIT of an ORDER BY nextCheckTime may return. *)
TopMost(set) ==
    LET n == IF Cardinality(set) < Limit THEN Cardinality(set) ELSE Limit
    IN {q \in [1..n -> set] :
          /\ \A i, j \in 1..n : i < j => q[i] # q[j] /\ q[i].checkin <= q[j].checkin
          /\ \A row \in set \ {q[i] : i \in 1..n} : \A i \in 1..n : q[i].checkin <= row.checkin}

GetQueueTopMostExecutions(p) ==
    /\ pc[p] = "idle"
    /\ \E q \in TopMost({rows[s] : s \in {s \in Slots : Queued(s)}}) :
         /\ q # <<>>
         /\ todo' = [todo EXCEPT ![p] = q]
    /\ pc' = [pc EXCEPT ![p] = "check"]
    /\ stamp' = [stamp EXCEPT ![p] = NoTime]
    /\ UNCHANGED <<tables, env, index, readings, faults, history>>

(* The run is through with its first row; an error goes no further either. *)
NextRow(p) ==
    /\ todo' = [todo EXCEPT ![p] = Tail(@)]
    /\ pc' = [pc EXCEPT ![p] = IF Len(todo[p]) = 1 THEN "idle" ELSE "check"]
    /\ index' = [index EXCEPT ![p] = 1]

Continue(p, label, row) ==
    /\ todo' = [todo EXCEPT ![p][1] = row]
    /\ pc' = [pc EXCEPT ![p] = label]
    /\ UNCHANGED index

(* processExecution once the dependency is known: too late, due or not yet. *)
Decide(p, row, time, changed) ==
    IF time > Due(row) + Expiry + Grace THEN Continue(p, "archive", row)
    ELSE IF time >= Due(row) THEN Continue(p, "decrypt", row)
    ELSE IF changed THEN Continue(p, "save", row)
    ELSE NextRow(p)

(* chainTimestamps: asked for once in a run. *)
Timestamp(p) == IF stamp[p] = NoTime THEN now ELSE stamp[p]

(* checkAndUpdateExecutionIfNeeded: a transaction that is not final yet ends  *)
(* a fixed time and is waited for by a delta-time; a replaced one is ignored. *)
CheckExecution(p) ==
    /\ pc[p] = "check"
    /\ LET row == Head(todo[p])
           time == Timestamp(p)
           state == prior[row.slot]
           waits == Waits(row, time)
       IN /\ stamp' = [stamp EXCEPT ![p] = time]
          /\ \/ /\ ~waits \/ state = "replaced"
                /\ Decide(p, row, time, FALSE)
             \/ /\ waits /\ state = "success"
                /\ Decide(p, [row EXCEPT !.confirmed = TRUE], time, TRUE)
             \/ /\ waits /\ (state = "failed" \/ (~Settled(row.slot) /\ Kind(row) = "assumed"))
                /\ Continue(p, "archive", row)
             \/ /\ waits /\ ~Settled(row.slot) /\ Kind(row) = "delta"
                /\ Continue(p, "retry", [row EXCEPT !.checkin =
                      Delayed(row, IF state = "mined" THEN priorTime[row.slot] ELSE time)])
    /\ UNCHANGED <<tables, env, readings, faults, history>>

(* The timestamp or the status of the transaction cannot be had: the row is   *)
(* left as it is.                                                             *)
CheckFails(p) ==
    /\ pc[p] = "check"
    /\ Fault
    /\ \/ stamp[p] = NoTime /\ UNCHANGED stamp
       \/ /\ Waits(Head(todo[p]), Timestamp(p))
          /\ stamp' = [stamp EXCEPT ![p] = Timestamp(p)]
    /\ NextRow(p)
    /\ UNCHANGED <<tables, env, readings, history>>

ArchiveExecution(p) ==
    /\ pc[p] = "archive"
    /\ Archive(Head(todo[p]))
    /\ NextRow(p)
    /\ UNCHANGED <<env, stamp, readings, faults, history>>

(* Mutants: one retry too many, and a count that is not kept. *)
ExhaustedLate(row) == row.retries > MaxRetries
Uncounted(row) == row

Exhausted(row) == row.retries >= MaxRetries
Retried(row) == [row EXCEPT !.retries = @ + 1]

RetryLater(p) ==
    /\ pc[p] = "retry"
    /\ LET row == Retried(Head(todo[p]))
       IN IF Exhausted(row) THEN Archive(row) ELSE Save(row)
    /\ NextRow(p)
    /\ UNCHANGED <<env, stamp, readings, faults, history>>

SaveExecution(p) ==
    /\ pc[p] = "save"
    /\ Save(Head(todo[p]))
    /\ NextRow(p)
    /\ UNCHANGED <<env, stamp, readings, faults, history>>

(* execute, up to the payload.  A decrypter may fail, which leaves the row in *)
(* the queue, or name a later time, which only moves it in the queue.         *)
Decrypt(p) ==
    /\ pc[p] = "decrypt"
    /\ \/ Continue(p, "execute", Head(todo[p])) /\ UNCHANGED <<tables, faults>>
       \/ Fault /\ NextRow(p) /\ UNCHANGED tables
       \/ /\ Fault /\ NextRow(p)
          /\ \E later \in Times : Save([Head(todo[p]) EXCEPT !.checkin = later])
    /\ UNCHANGED <<env, stamp, readings, history>>

(* The loop over the executions.                                              *)
More(i) == i < BatchSize

NextExecution(p) ==
    IF More(index[p])
    THEN /\ index' = [index EXCEPT ![p] = @ + 1]
         /\ pc' = [pc EXCEPT ![p] = "execute"]
         /\ UNCHANGED todo
    ELSE Continue(p, "finish", Head(todo[p]))

(* executor.broadcastExecution of one batch index, up to the look for an      *)
(* execution that the executor has already, which is then left alone, ...     *)
AskExecutor(p) ==
    /\ pc[p] = "execute"
    /\ LET row == Head(todo[p]) IN
         IF taken[row.slot][index[p]] # 0 THEN NextExecution(p) ELSE Continue(p, "store", row)
    /\ UNCHANGED <<tables, env, stamp, readings, faults, history>>

(* ... and from there: another run may have given it one in between, which is *)
(* overwritten unless it is finalized.  An execution counts as taken when it  *)
(* is answered for; that its store may have been swallowed is the subject of  *)
(* BroadcasterLock.                                                           *)
Given(p) ==
    LET row == Head(todo[p]) IN
    taken' = IF <<row.slot, index[p]>> \in final THEN taken
             ELSE [taken EXCEPT ![row.slot][index[p]] = row.version]

BroadcastExecution(p) ==
    /\ pc[p] = "store"
    /\ Given(p)
    /\ NextExecution(p)
    /\ UNCHANGED <<tables, prior, priorTime, final, now, stamp, readings, faults, history>>

SaveBroadcasted(p) ==
    /\ pc[p] = "finish"
    /\ Save([Head(todo[p]) EXCEPT !.broadcasted = TRUE])
    /\ NextRow(p)
    /\ UNCHANGED <<env, stamp, readings, faults, history>>

(* Mutant: marked before the loop over the executions.                        *)
FailedAsBroadcasted(row) == [row EXCEPT !.broadcasted = TRUE]

(* The row with its lastError.                                                *)
Failed(row) == row

(* broadcastExecution throws, before or after it has stored the execution:    *)
(* the row is saved with lastError and stays in the queue.                    *)
BroadcastFails(p) ==
    /\ pc[p] \in {"execute", "store"}
    /\ Fault
    /\ UNCHANGED taken \/ (pc[p] = "store" /\ Given(p))
    /\ Save(Failed(Head(todo[p])))
    /\ NextRow(p)
    /\ UNCHANGED <<prior, priorTime, final, now, stamp, readings, history>>

(* The platform ends the run; the next one starts from the table. *)
Crash(p) ==
    /\ pc[p] # "idle"
    /\ Fault
    /\ pc' = [pc EXCEPT ![p] = "idle"]
    /\ todo' = [todo EXCEPT ![p] = <<>>]
    /\ index' = [index EXCEPT ![p] = 1]
    /\ UNCHANGED <<tables, env, stamp, readings, history>>

-----------------------------------------------------------------------------
(* checkScheduledExecutionStatus: reads rows that are broadcasted and not     *)
(* finalized, and asks the executor about one after the other; its            *)
(* getExecutionStatus looks for an execution of the slot that is not final.   *)
GetUnFinalized ==
    /\ checking = {}
    /\ \E q \in TopMost({rows[s] : s \in {s \in Slots :
                            rows[s] # NoRow /\ rows[s].broadcasted /\ ~rows[s].finalized}}) :
         checking' = {q[i] : i \in DOMAIN q}
    /\ checking' # {}
    /\ UNCHANGED <<tables, env, run, admin, faults, history>>

(* Mutant: one finalized execution is enough. *)
FinalizedInPart(s) == \E i \in Batch : <<s, i>> \in final

Finalized(s) == \A i \in Batch : taken[s][i] # 0 => <<s, i>> \in final

CheckStatus ==
    /\ \E row \in checking :
         /\ IF Finalized(row.slot) THEN Save([row EXCEPT !.finalized = TRUE])
            ELSE UNCHANGED tables
         /\ checking' = checking \ {row}
    /\ UNCHANGED <<env, run, admin, faults, history>>

(* An error ends the loop. *)
CheckStatusFails ==
    /\ checking # {}
    /\ Fault
    /\ checking' = {}
    /\ UNCHANGED <<tables, env, run, admin, history>>

(* The admin's archiveSubmission reads the row of a slot ...                  *)
GetQueuedExecution(s) ==
    /\ rows[s] # NoRow
    /\ Fault
    /\ admin' = admin \cup {rows[s]}
    /\ UNCHANGED <<tables, env, run, checking, history>>

(* ... and archives what it has read, whatever has become of the slot.        *)
ArchiveSubmission ==
    /\ \E row \in admin : Archive(row) /\ admin' = admin \ {row}
    /\ UNCHANGED <<env, run, checking, faults, history>>

(* deleteFinalizedScheduledExecutions, one statement.                         *)
DeleteFinalized(s) ==
    /\ rows[s] # NoRow /\ rows[s].finalized
    /\ Fault
    /\ rows' = [rows EXCEPT ![s] = NoRow]
    /\ deleted' = deleted \cup {s}
    /\ UNCHANGED <<archived, env, run, readings, asked, raced, reopened>>

-----------------------------------------------------------------------------
(* The chain and the executor.                                                *)

Tick ==
    /\ now < MaxTime
    /\ now' = now + 1
    /\ UNCHANGED <<tables, prior, priorTime, taken, final, run, readings, faults, history>>

PriorAdvances(s) ==
    /\ \/ /\ prior[s] = "pending"
          /\ \/ /\ now <= LastBlock
                /\ prior' = [prior EXCEPT ![s] = "mined"]
                /\ priorTime' = [priorTime EXCEPT ![s] = now]
             \/ prior' = [prior EXCEPT ![s] = "replaced"] /\ UNCHANGED priorTime
       \/ /\ prior[s] = "mined"
          /\ \E state \in {"success", "failed"} : prior' = [prior EXCEPT ![s] = state]
          /\ UNCHANGED priorTime
    /\ UNCHANGED <<tables, taken, final, now, run, readings, faults, history>>

ExecutorFinalizes(s, i) ==
    /\ taken[s][i] # 0
    /\ final' = final \cup {<<s, i>>}
    /\ UNCHANGED <<tables, prior, priorTime, taken, now, run, readings, faults, history>>

ProcessExecution(p) ==
    \/ CheckExecution(p) \/ ArchiveExecution(p) \/ RetryLater(p) \/ SaveExecution(p)
    \/ Decrypt(p) \/ AskExecutor(p) \/ BroadcastExecution(p) \/ SaveBroadcasted(p)

Schedule ==
    \E s \in Slots, kind \in Kinds, at \in Times, target \in Targets :
        ScheduleExecution(s, kind, at, target)

Next ==
    \/ Schedule
    \/ \E p \in Runs : \/ GetQueueTopMostExecutions(p) \/ ProcessExecution(p)
                       \/ CheckFails(p) \/ BroadcastFails(p) \/ Crash(p)
    \/ GetUnFinalized \/ CheckStatus \/ CheckStatusFails
    \/ \E s \in Slots : GetQueuedExecution(s) \/ DeleteFinalized(s) \/ PriorAdvances(s)
    \/ ArchiveSubmission
    \/ \E s \in Slots, i \in Batch : ExecutorFinalizes(s, i)
    \/ Tick

Spec == Init /\ [][Next]_vars

(* The cron triggers of the platforms call the runs and the status check      *)
(* again and again, time passes, and the executor settles what it has.        *)
Fairness ==
    /\ \A p \in Runs : WF_vars(GetQueueTopMostExecutions(p)) /\ WF_vars(ProcessExecution(p))
    /\ WF_vars(GetUnFinalized) /\ WF_vars(CheckStatus)
    /\ WF_vars(Tick)
    /\ \A s \in Slots, i \in Batch : WF_vars(ExecutorFinalizes(s, i) /\ <<s, i>> \notin final)

FairSpec == Spec /\ Fairness

-----------------------------------------------------------------------------
(* Properties.                                                                *)

(* Nothing reaches the executor before its time, from however old a row: a    *)
(* fixed time has come; the transaction of an assumption or of a delta-time   *)
(* is final and did not fail, and the delta has passed since its block, or    *)
(* since its broadcast when it was replaced; a target time has come as well.  *)
Allowed(s, request) ==
    CASE request.kind = "fixed" -> now >= request.at
      [] request.kind = "assumed" -> now >= request.at /\ prior[s] \in {"success", "replaced"}
      [] request.kind = "delta" ->
            \/ /\ prior[s] = "success"
               /\ now >= priorTime[s] + Delta /\ now >= request.target
            \/ prior[s] = "replaced" /\ now >= request.at

NeverEarly ==
    [][\A s \in Slots, i \in Batch :
          taken'[s][i] # taken[s][i] => Allowed(s, asked[s][taken'[s][i]])]_vars

(* A row marked as broadcasted or finalized stands for a whole batch that the *)
(* executor has or has finalized, whatever failed halfway and was tried again.*)
BroadcastedWhole ==
    \A s \in Slots : rows[s] # NoRow =>
        /\ rows[s].broadcasted => \A i \in Batch : taken[s][i] # 0
        /\ rows[s].finalized => \A i \in Batch : <<s, i>> \in final

(* The last accepted submission of a slot is in one of the tables, or was     *)
(* deleted when finalized.  It can be lost only when it is accepted while a   *)
(* run, the status check or the admin has the previous row in its hands.      *)
SubmissionKept ==
    \A s \in Slots \ (raced \cup deleted) :
        LET last == Len(asked[s]) IN
        last > 0 => \E table \in {rows, archived} :
                       table[s] # NoRow /\ table[s].version = last

(* Every submission ends in the archive, finalized, or deleted as finalized,  *)
(* although a run takes a bounded number of rows and a row that is not due    *)
(* stays where it is in the queue.                                            *)
Completes ==
    \A s \in Slots :
        asked[s] # <<>> ~> \/ archived[s] # NoRow \/ s \in deleted
                           \/ rows[s] # NoRow /\ rows[s].finalized

(* What the executor has of a batch comes from one submission, also where     *)
(* runs overlap, crash halfway and try again: a slot that is scheduled again  *)
(* after its batch was given adds nothing to it.  Two submissions can be      *)
(* mixed only when the second came before the first was broadcasted, or while *)
(* a process had its row.                                                     *)
BatchUnmixed ==
    \A s \in Slots \ reopened : \A i, j \in Batch :
        taken[s][i] # 0 /\ taken[s][j] # 0 => taken[s][i] = taken[s][j]
=============================================================================
