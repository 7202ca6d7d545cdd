------------------------------ MODULE Submission ------------------------------
(* A submission on its way: the client (client/src/index.ts) fetches the      *)
(* parameters of the service, locks the payload up to a round of drand and    *)
(* sends it; the scheduler or, for an execution at once, the executor         *)
(* compares the parameters with its own; when an execution is due the         *)
(* scheduler has its payload decrypted (tlock-decrypter).  The admin changes  *)
(* the parameters in between and the chain lags behind the clock.             *)
EXTENDS ServiceParameters, FiniteSets, Functions

CONSTANTS
    Requests,    \* submissions, each of a slot of its own
    Fees,        \* fees the admin may set
    Prices,      \* worst gas prices the admin may set; 0 is none
    Times,       \* times that may be asked for
    Period,      \* seconds between two rounds of drand
    MaxLag,      \* how far the chain may be behind the clock
    MaxTime,     \* bound on the clock
    MaxUpdates,  \* bound on the number of the admin's changes
    NoRequest    \* no submission yet

ASSUME TimesAssumption ==
       /\ Times \subseteq Nat /\ Period \in Nat \ {0}
       /\ {MaxLag, MaxTime, MaxUpdates} \subseteq Nat
ASSUME ValuesAssumption ==
       /\ Nothing \notin Fees \cup Prices
       /\ Nothing \notin Updateable(Fees \cup {DefaultFees}) \cup Updateable(Prices)

VARIABLES
    now, chain,      \* the clock and the time of the last block
    fees, price,     \* ChainConfigurations
    pc, sent,        \* where a submission is, and what the client has sent
    stamp,           \* time of the chain as the scheduler has read it
    moved,           \* start of the transaction depended on, once it is known
    fetchedAt, readAt,  \* history: clock when a client fetched the parameters
                        \* and when the time to compare them at was read
    changed,         \* history: number of changes of a parameter since fetched
    ended,           \* history: when a value was replaced as the current one
    updates          \* number of changes so far

clocks == <<now, chain>>
config == <<fees, price, updates>>
history == <<fetchedAt, readAt, changed, ended>>
vars == <<clocks, config, pc, sent, stamp, moved, history>>

Kinds == {"fixed-time", "fixed-round", "delta-time", "delta-time-with-target-time"}
(* TimingTypesCompatibleWithTimeLock. *)
Lockable(kind) == kind # "delta-time"

Parameters == {"fees", "price"}
Never == -1

(* at is the scheduledTime, expectedTime or targetTimeUnlessHigherDelta,      *)
(* start the broadcastTime plus delta; a payload may hold another one.        *)
Timing == [kind : Kinds, at : Times, start : Times]
(* The timings that differ: a field that a kind does not have is the other.   *)
Timings ==
    {timing \in Timing : timing.at = timing.start \/ timing.kind = "delta-time-with-target-time"}
Round == Nat
Sealed == [round : Round, layered : BOOLEAN]
Submitted == [timing : Timing, locked : Sealed \cup {Nothing}, fees : Fees \cup {DefaultFees},
              price : Prices \cup {Nothing}, direct : BOOLEAN]
PCs == {"new", "sent", "timed", "queued", "broadcast", "failed", "outdated", "late",
        "refused"}

TypeOK ==
    /\ now \in 0..MaxTime /\ chain \in 0..now
    /\ fees \in Updateable(Fees) \cup {Nothing}
    /\ price \in Updateable(Prices) \cup {Nothing}
    /\ pc \in [Requests -> PCs]
    /\ sent \in [Requests -> Submitted \cup {NoRequest}]
    /\ \A r \in Requests : sent[r] # NoRequest /\ sent[r].locked # Nothing
                              => Lockable(sent[r].timing.kind)
    /\ stamp \in [Requests -> 0..MaxTime] /\ moved \in [Requests -> Times \cup {Never}]
    /\ fetchedAt \in [Requests -> 0..MaxTime] /\ readAt \in [Requests -> 0..MaxTime]
    /\ changed \in [Requests -> [Parameters -> 0..MaxUpdates]]
    /\ ended \in [Parameters -> [Fees \cup Prices \cup {DefaultFees} -> -1..MaxTime]]
    /\ updates \in 0..MaxUpdates

Init ==
    /\ now = 0 /\ chain = 0
    /\ fees \in {Nothing} \cup {[current |-> f, previous |-> Nothing, update |-> 0] : f \in Fees}
    /\ price = Nothing
    /\ pc = [r \in Requests |-> "new"] /\ sent = [r \in Requests |-> NoRequest]
    /\ stamp = [r \in Requests |-> 0] /\ moved = [r \in Requests |-> Never]
    /\ fetchedAt = [r \in Requests |-> 0] /\ readAt = [r \in Requests |-> 0]
    /\ changed = [r \in Requests |-> [p \in Parameters |-> 0]]
    /\ ended = [p \in Parameters |-> [v \in Fees \cup Prices \cup {DefaultFees} |-> Never]]
    /\ updates = 0

Goto(r, label) == pc' = [pc EXCEPT ![r] = label]

-----------------------------------------------------------------------------
(* Drand: the round of a time is the last one published by then.              *)
RoundAt(time) == time \div Period
RoundTime(round) == round * Period

(* The client.                                                                *)

(* The round up to which scheduleExecution locks a payload.  Mutant: the one  *)
(* of the time to start at.                                                   *)
RoundOfStart(timing) == RoundAt(timing.start)

RoundOf(timing) == RoundAt(timing.at)

(* What it sends, or whether it throws: a round cannot be used in clear, and  *)
(* a delta-time without target has no round to lock up to.                    *)
(* Mutant: the latter is forgotten.                                           *)
PreparedAny(timing, inClear) == timing.kind = "fixed-round" => ~inClear

Prepared(timing, inClear) ==
    /\ timing.kind = "fixed-round" => ~inClear
    /\ ~Lockable(timing.kind) => inClear

Fetch(r) ==
    /\ fetchedAt' = [fetchedAt EXCEPT ![r] = now]
    /\ changed' = [changed EXCEPT ![r] = [p \in Parameters |-> 0]]

(* scheduleExecution of the client.  A user without it may lock a payload     *)
(* that is itself locked.                                                     *)
ScheduleExecution(r, timing, inClear, layered) ==
    /\ pc[r] = "new"
    /\ Prepared(timing, inClear)
    /\ sent' = [sent EXCEPT ![r] =
          [timing |-> timing, direct |-> FALSE,
           locked |-> IF inClear THEN Nothing
                                 ELSE [round |-> RoundOf(timing), layered |-> layered],
           fees |-> FeesOfService(fees).current, price |-> Told(price)]]
    /\ Goto(r, "sent") /\ Fetch(r)
    /\ UNCHANGED <<clocks, config, stamp, moved, readAt, ended>>

(* broadcastExecution of the client. *)
BroadcastExecution(r) ==
    /\ pc[r] = "new"
    /\ \E timing \in Timings : timing.kind = "fixed-time" /\ sent' = [sent EXCEPT ![r] =
          [timing |-> timing,
           locked |-> Nothing, direct |-> TRUE,
           fees |-> FeesOfService(fees).current, price |-> Told(price)]]
    /\ Goto(r, "sent") /\ Fetch(r)
    /\ UNCHANGED <<clocks, config, stamp, moved, readAt, ended>>

-----------------------------------------------------------------------------
(* The service.                                                               *)

(* computeInitialExecutionTimeFromSubmission.                                 *)
InitialTime(timing) ==
    CASE timing.kind \in {"fixed-time", "fixed-round"} -> timing.at
      [] timing.kind = "delta-time" -> timing.start
      [] OTHER -> IF timing.at > timing.start THEN timing.at ELSE timing.start

(* computePotentialExecutionTime, given the start of the transaction that the *)
(* execution depends on.  Mutant: whatever its target.                        *)
PotentialWithoutTarget(timing, start) ==
    IF timing.kind \in {"fixed-time", "fixed-round"} THEN timing.at
    ELSE IF start = Never THEN timing.start ELSE start

PotentialTime(timing, start) ==
    InitialTime([timing EXCEPT !.start = IF start = Never THEN @ ELSE start])

Valid(r, time) ==
    Accepts(sent[r].fees, FeesOfService(fees), time) /\ Accepts(sent[r].price, price, time)

(* scheduleExecution of the scheduler: the time of the chain is read before   *)
(* the parameters, each with an await.                                        *)
ReadTimestamp(r) ==
    /\ pc[r] = "sent" /\ ~sent[r].direct
    /\ stamp' = [stamp EXCEPT ![r] = chain]
    /\ readAt' = [readAt EXCEPT ![r] = now]
    /\ Goto(r, IF InitialTime(sent[r].timing) < chain THEN "late" ELSE "timed")
    /\ UNCHANGED <<clocks, config, sent, moved, fetchedAt, changed, ended>>

ValidateParameters(r) ==
    /\ pc[r] = "timed"
    /\ Goto(r, IF Valid(r, stamp[r]) THEN "queued" ELSE "outdated")
    /\ UNCHANGED <<clocks, config, sent, stamp, moved, history>>

(* broadcastExecution of the executor, which is asked by the user: parameters *)
(* are compared at the clock.                                                 *)
BroadcastAtOnce(r) ==
    /\ pc[r] = "sent" /\ sent[r].direct
    /\ stamp' = [stamp EXCEPT ![r] = now]
    /\ readAt' = [readAt EXCEPT ![r] = now]
    /\ Goto(r, IF Valid(r, now) THEN "broadcast" ELSE "outdated")
    /\ UNCHANGED <<clocks, config, sent, moved, fetchedAt, changed, ended>>

(* checkAndUpdateExecutionIfNeeded learns when the transaction has started.   *)
ConfirmStart(r) ==
    /\ pc[r] = "queued" /\ moved[r] = Never
    /\ sent[r].timing.kind \in {"delta-time", "delta-time-with-target-time"}
    /\ \E start \in Times : moved' = [moved EXCEPT ![r] = start]
    /\ UNCHANGED <<clocks, config, pc, sent, stamp, history>>

(* timelockDecrypt.                                                           *)
Opens(sealed) == RoundTime(sealed.round) <= now

(* decrypt: a failure is reported without a time to retry, and a payload that *)
(* holds a locked one is refused for every timing that can be locked.         *)
Decrypt(r) ==
    CASE sent[r].locked = Nothing -> "broadcast"
      [] sent[r].locked # Nothing /\ ~Opens(sent[r].locked) -> "failed"
      [] OTHER -> IF sent[r].locked.layered THEN "refused" ELSE "broadcast"

(* processExecution and execute, once it is due by the time of the chain.     *)
Execute(r) ==
    /\ pc[r] = "queued"
    /\ PotentialTime(sent[r].timing, moved[r]) <= chain
    /\ Goto(r, Decrypt(r))
    /\ UNCHANGED <<clocks, config, sent, stamp, moved, history>>

-----------------------------------------------------------------------------
(* The admin.                                                                 *)

(* What a change does to the history of a parameter. *)
Replace(p, stored) ==
    /\ changed' = [r \in Requests |-> [changed[r] EXCEPT ![p] =
                       IF pc[r] = "new" THEN @ ELSE @ + 1]]
    /\ ended' = IF stored = Nothing THEN ended
                ELSE [ended EXCEPT ![p][stored.current] = now]

UpdateFees ==
    /\ updates < MaxUpdates /\ updates' = updates + 1
    /\ \E f \in Fees : fees' = Updated(fees, f, now)
    /\ Replace("fees", FeesOfService(fees))
    /\ UNCHANGED <<clocks, price, pc, sent, stamp, moved, fetchedAt, readAt>>

(* A price above zero needs a payment account with a balance; whether there   *)
(* is one is up to the operator.                                              *)
UpdateExpectedGasPrice ==
    /\ updates < MaxUpdates /\ updates' = updates + 1
    /\ \E v \in Prices : price' = Updated(price, v, now)
    /\ Replace("price", price)
    /\ UNCHANGED <<clocks, fees, pc, sent, stamp, moved, fetchedAt, readAt>>

Tick ==
    /\ now < MaxTime /\ now' = now + 1
    /\ chain' = IF now' - chain > MaxLag THEN chain + 1 ELSE chain
    /\ UNCHANGED <<config, pc, sent, stamp, moved, history>>

NewBlock ==
    /\ chain < now /\ chain' \in (chain + 1)..now
    /\ UNCHANGED <<now, config, pc, sent, stamp, moved, history>>

Client(r) ==
    \/ \E timing \in Timings, inClear, layered \in BOOLEAN :
           ScheduleExecution(r, timing, inClear, layered)
    \/ BroadcastExecution(r)

Service(r) ==
    ReadTimestamp(r) \/ ValidateParameters(r) \/ BroadcastAtOnce(r) \/ ConfirmStart(r)
      \/ Execute(r)

Next ==
    \/ \E r \in Requests : Client(r) \/ Service(r)
    \/ UpdateFees \/ UpdateExpectedGasPrice \/ Tick \/ NewBlock

Spec == Init /\ [][Next]_vars

-----------------------------------------------------------------------------
(* Properties.                                                                *)

Current(p) == IF p = "fees" THEN FeesOfService(fees).current ELSE Told(price)
Given(r, p) == IF p = "fees" THEN sent[r].fees ELSE sent[r].price

(* Parameters that are accepted are the current ones, or were replaced less   *)
(* than Delay before their time was read, plus what the chain lags behind the *)
(* clock, whatever changes between that reading and the comparison.           *)
AcceptedFresh ==
    [][\A r \in Requests :
          pc[r] \in {"sent", "timed"} /\ pc'[r] \in {"queued", "broadcast"} =>
              \A p \in Parameters :
                  \/ Given(r, p) \in {Nothing, Current(p)}
                  \/ /\ ended[p][Given(r, p)] # Never
                     /\ readAt'[r] < ended[p][Given(r, p)] + Delay + MaxLag]_vars

(* A client is not refused the parameters it was told within Delay if each    *)
(* changed at most once since.  Fees that were never set have no such grace.  *)
GraceKept ==
    \A r \in Requests : pc[r] = "outdated" =>
        \/ \E p \in Parameters : changed[r][p] > 1
        \/ readAt[r] >= fetchedAt[r] + Delay
        \/ sent[r].fees = DefaultFees

(* What the client has locked can be opened when the scheduler executes it,   *)
(* for every timing and wherever the transaction it depends on has moved it.  *)
OpensInTime == \A r \in Requests : pc[r] # "failed"

(* It cannot be opened earlier than one round before the time asked for.      *)
SealedUntilAsked ==
    \A r \in Requests :
        sent[r] # NoRequest /\ sent[r].locked # Nothing /\ Opens(sent[r].locked)
            => now + Period > sent[r].timing.at
=============================================================================
