--------------------------- MODULE SubmissionProofs ---------------------------
(* What holds of every submission, for every set of requests, values, times,  *)
(* period and delay: parameters are judged by what was true when they were    *)
(* fetched, and payloads can be opened when they are due and not much before. *)
EXTENDS Submission, TLAPS

-----------------------------------------------------------------------------
(* The first half of the invariant: types, clocks and what was sent.          *)

Clocks == chain <= now /\ now <= chain + MaxLag

(* A submission has been sent, and what is locked is locked up to the round   *)
(* of the time that was asked for.                                            *)
SentSealed ==
    \A r \in Requests :
        /\ pc[r] = "new" => sent[r] = NoRequest
        /\ pc[r] # "new" =>
              /\ sent[r] \in Submitted
              /\ sent[r].locked # Nothing =>
                    /\ Lockable(sent[r].timing.kind)
                    /\ sent[r].locked.round = RoundAt(sent[r].timing.at)

ChangesCounted == \A r \in Requests, p \in Parameters : changed[r][p] <= updates

TypeInv == TypeOK /\ Clocks /\ SentSealed /\ ChangesCounted

LEMMA Numbers ==
    /\ Delay \in Nat /\ MaxLag \in Nat /\ MaxTime \in Nat /\ MaxUpdates \in Nat
    /\ Times \subseteq Nat /\ Period \in Nat /\ Period > 0
    /\ Never \notin Times /\ Never \in Int
BY DelayAssumption, TimesAssumption DEF Never

(* A round is published at its time, and the next one a period later.         *)
LEMMA RoundBounds ==
    ASSUME NEW time \in Nat
    PROVE  /\ RoundAt(time) \in Nat
           /\ RoundTime(RoundAt(time)) \in Nat
           /\ RoundTime(RoundAt(time)) <= time
           /\ time < RoundTime(RoundAt(time)) + Period
BY Numbers DEF RoundAt, RoundTime

(* What a client is told is a value the service has.                          *)
LEMMA ToldValues ==
    ASSUME TypeOK
    PROVE  /\ FeesOfService(fees).current \in Fees \cup {DefaultFees}
           /\ Told(price) \in Prices \cup {Nothing}
BY DEF TypeOK, FeesOfService, Told, Updateable

LEMMA TypeInvInit == Init => TypeInv
<1> SUFFICES ASSUME Init PROVE TypeInv
    OBVIOUS
<1>1. fees \in Updateable(Fees) \cup {Nothing}
  <2>1. \A f \in Fees : [current |-> f, previous |-> Nothing, update |-> 0] \in Updateable(Fees)
        BY DEF Updateable
  <2>q. QED
        BY <2>1 DEF Init
<1>2. TypeOK
  <2>1. changed \in [Requests -> [Parameters -> 0..MaxUpdates]]
        BY Numbers DEF Init
  <2>2. ended \in [Parameters -> [Fees \cup Prices \cup {DefaultFees} -> -1..MaxTime]]
        BY Numbers DEF Init, Never
  <2>q. QED
        BY <1>1, <2>1, <2>2, Numbers DEF Init, TypeOK, PCs
<1>3. Clocks
      BY Numbers DEF Init, Clocks
<1>4. SentSealed
      BY DEF Init, SentSealed
<1>5. ChangesCounted
      BY DEF Init, ChangesCounted
<1>q. QED
      BY <1>2, <1>3, <1>4, <1>5 DEF TypeInv

(* What either call of the client sends is a submission.                      *)
LEMMA SentByClient ==
    ASSUME TypeInv, NEW r \in Requests, Client(r)
    PROVE  /\ pc[r] = "new"
           /\ sent' = [sent EXCEPT ![r] = sent'[r]]
           /\ sent'[r] \in Submitted
           /\ sent'[r].fees = FeesOfService(fees).current
           /\ sent'[r].price = Told(price)
           /\ sent'[r].locked # Nothing =>
                 /\ Lockable(sent'[r].timing.kind)
                 /\ sent'[r].locked.round = RoundAt(sent'[r].timing.at)
           /\ pc' = [pc EXCEPT ![r] = "sent"]
           /\ fetchedAt' = [fetchedAt EXCEPT ![r] = now]
           /\ changed' = [changed EXCEPT ![r] = [p \in Parameters |-> 0]]
           /\ UNCHANGED <<clocks, config, stamp, moved, readAt, ended>>
<1>1. /\ FeesOfService(fees).current \in Fees \cup {DefaultFees}
      /\ Told(price) \in Prices \cup {Nothing}
      BY ToldValues DEF TypeInv
<1>2. CASE BroadcastExecution(r)
  <2>1. PICK timing \in Timings : /\ timing.kind = "fixed-time"
                                  /\ sent' = [sent EXCEPT ![r] =
                                       [timing |-> timing,
                                        locked |-> Nothing, direct |-> TRUE,
                                        fees |-> FeesOfService(fees).current,
                                        price |-> Told(price)]]
        BY <1>2 DEF BroadcastExecution
  <2>2. timing \in Timing
        BY DEF Timings
  <2>3. sent'[r] = [timing |-> timing, locked |-> Nothing, direct |-> TRUE,
                    fees |-> FeesOfService(fees).current, price |-> Told(price)]
        BY <2>1 DEF TypeInv, TypeOK
  <2>4. sent' = [sent EXCEPT ![r] = sent'[r]]
        BY <2>1, <2>3 DEF TypeInv, TypeOK
  <2>5. sent'[r] \in Submitted /\ sent'[r].locked = Nothing
        BY <1>1, <2>2, <2>3 DEF Submitted
  <2>q. QED
        BY <1>2, <2>3, <2>4, <2>5 DEF BroadcastExecution, Goto, Fetch
<1>3. ASSUME NEW timing \in Timings, NEW inClear \in BOOLEAN, NEW layered \in BOOLEAN,
             ScheduleExecution(r, timing, inClear, layered)
      PROVE  /\ pc[r] = "new"
             /\ sent' = [sent EXCEPT ![r] = sent'[r]]
             /\ sent'[r] \in Submitted
             /\ sent'[r].fees = FeesOfService(fees).current
             /\ sent'[r].price = Told(price)
             /\ sent'[r].locked # Nothing =>
                   /\ Lockable(sent'[r].timing.kind)
                   /\ sent'[r].locked.round = RoundAt(sent'[r].timing.at)
             /\ pc' = [pc EXCEPT ![r] = "sent"]
             /\ fetchedAt' = [fetchedAt EXCEPT ![r] = now]
             /\ changed' = [changed EXCEPT ![r] = [p \in Parameters |-> 0]]
             /\ UNCHANGED <<clocks, config, stamp, moved, readAt, ended>>
  <2> DEFINE sealed == [round |-> RoundOf(timing), layered |-> layered]
             locked == IF inClear THEN Nothing ELSE sealed
  <2>1. timing \in Timing /\ timing.at \in Nat
        BY Numbers DEF Timings, Timing
  <2>2. sealed \in Sealed /\ sealed.round = RoundAt(timing.at)
        BY <2>1, RoundBounds DEF Sealed, Round, RoundOf
  <2>3. sent'[r] = [timing |-> timing, direct |-> FALSE, locked |-> locked,
                    fees |-> FeesOfService(fees).current, price |-> Told(price)]
        BY <1>3 DEF ScheduleExecution, TypeInv, TypeOK
  <2>4. locked # Nothing => Lockable(timing.kind) /\ locked = sealed
        BY <1>3 DEF ScheduleExecution, Prepared
  <2>5. locked \in Sealed \cup {Nothing}
        BY <2>2
  <2> HIDE DEF sealed, locked
  <2>6. sent' = [sent EXCEPT ![r] = sent'[r]]
        BY <1>3, <2>3 DEF ScheduleExecution, TypeInv, TypeOK
  <2>7. sent'[r] \in Submitted
        BY <1>1, <2>1, <2>3, <2>5 DEF Submitted
  <2>q. QED
        BY <1>3, <2>2, <2>3, <2>4, <2>6, <2>7 DEF ScheduleExecution, Goto, Fetch
<1>q. QED
      BY <1>2, <1>3 DEF Client

(* Every step preserves the first half.                                       *)
LEMMA TypeInvNext == TypeInv /\ [Next]_vars => TypeInv'
<1> SUFFICES ASSUME TypeInv, [Next]_vars PROVE TypeInv'
    OBVIOUS
<1> USE Numbers DEF TypeInv
<1>1. ASSUME NEW r \in Requests, Client(r)
      PROVE  TypeInv'
  <2> DEFINE this == sent'[r]
  <2>1. /\ pc[r] = "new"
        /\ sent' = [sent EXCEPT ![r] = this]
        /\ this \in Submitted
        /\ this.locked # Nothing =>
              /\ Lockable(this.timing.kind)
              /\ this.locked.round = RoundAt(this.timing.at)
        /\ pc' = [pc EXCEPT ![r] = "sent"]
        /\ fetchedAt' = [fetchedAt EXCEPT ![r] = now]
        /\ changed' = [changed EXCEPT ![r] = [p \in Parameters |-> 0]]
        /\ UNCHANGED <<clocks, config, stamp, moved, readAt, ended>>
        BY <1>1, SentByClient
  <2> HIDE DEF this
  <2>2. TypeOK'
    <3>1. sent' \in [Requests -> Submitted \cup {NoRequest}] /\ pc' \in [Requests -> PCs]
          BY <2>1 DEF TypeOK, PCs
    <3>2. \A x \in Requests : sent'[x] # NoRequest /\ sent'[x].locked # Nothing
                                 => Lockable(sent'[x].timing.kind)
          BY <2>1 DEF TypeOK
    <3>3. fetchedAt' \in [Requests -> 0..MaxTime]
          BY <2>1 DEF TypeOK
    <3>4. changed' \in [Requests -> [Parameters -> 0..MaxUpdates]]
          BY <2>1 DEF TypeOK
    <3>q. QED
          BY <2>1, <3>1, <3>2, <3>3, <3>4 DEF TypeOK, clocks, config
  <2>3. SentSealed'
        BY <2>1 DEF SentSealed, TypeOK
  <2>4. ChangesCounted'
        BY <2>1 DEF ChangesCounted, TypeOK, config
  <2>5. Clocks'
        BY <2>1 DEF Clocks, clocks
  <2>q. QED
        BY <2>2, <2>3, <2>4, <2>5
<1>2. ASSUME NEW r \in Requests, Service(r)
      PROVE  TypeInv'
  <2>1. /\ pc[r] # "new"
        /\ \E label \in PCs \ {"new"} : pc' = [pc EXCEPT ![r] = label]
        /\ UNCHANGED <<clocks, config, sent, fetchedAt, changed, ended>>
        BY <1>2 DEF Service, ReadTimestamp, ValidateParameters, BroadcastAtOnce, ConfirmStart,
                    Execute, Decrypt, Goto, PCs, TypeOK, history
  <2>2. /\ stamp' \in [Requests -> 0..MaxTime] /\ readAt' \in [Requests -> 0..MaxTime]
        /\ moved' \in [Requests -> Times \cup {Never}]
    <3>1. chain \in 0..MaxTime
          BY DEF TypeOK
    <3>2. now \in 0..MaxTime
          BY DEF TypeOK
    <3>3. CASE ReadTimestamp(r) \/ BroadcastAtOnce(r)
      <4>1. /\ stamp \in [Requests -> 0..MaxTime] /\ readAt \in [Requests -> 0..MaxTime]
            /\ moved \in [Requests -> Times \cup {Never}]
            BY DEF TypeOK
      <4>2. /\ \E t \in {now, chain} : stamp' = [stamp EXCEPT ![r] = t]
            /\ readAt' = [readAt EXCEPT ![r] = now]
            /\ moved' = moved
            BY <3>3 DEF ReadTimestamp, BroadcastAtOnce
      <4>q. QED
            BY <3>1, <3>2, <4>1, <4>2
    <3>4. CASE ValidateParameters(r) \/ Execute(r)
          BY <3>4 DEF ValidateParameters, Execute, TypeOK, history
    <3>5. CASE ConfirmStart(r)
          BY <3>5 DEF ConfirmStart, TypeOK, history
    <3>q. QED
          BY <1>2, <3>3, <3>4, <3>5 DEF Service
  <2>3. TypeOK'
    <3>1. pc' \in [Requests -> PCs]
          BY <2>1 DEF TypeOK
    <3>q. QED
          BY <2>1, <2>2, <3>1 DEF TypeOK, clocks, config
  <2>4. SentSealed'
        BY <2>1 DEF SentSealed, TypeOK
  <2>5. Clocks' /\ ChangesCounted'
        BY <2>1 DEF Clocks, ChangesCounted, clocks, config
  <2>q. QED
        BY <2>3, <2>4, <2>5
<1>3. ASSUME NEW q \in Parameters, NEW stored, Replace(q, stored),
             stored = Nothing \/ stored.current \in Fees \cup Prices \cup {DefaultFees},
             updates < MaxUpdates, updates' = updates + 1,
             fees' \in Updateable(Fees) \cup {Nothing},
             price' \in Updateable(Prices) \cup {Nothing},
             UNCHANGED <<clocks, pc, sent, stamp, moved, fetchedAt, readAt>>
      PROVE  TypeInv'
  <2>1. \A r \in Requests, p \in Parameters :
           changed'[r][p] \in 0..updates'
        BY <1>3 DEF Replace, TypeOK, ChangesCounted
  <2>2. changed' \in [Requests -> [Parameters -> 0..MaxUpdates]]
    <3>1. \A r \in Requests : [changed[r] EXCEPT ![q] = IF pc[r] = "new" THEN @ ELSE @ + 1]
                                    \in [Parameters -> Int]
          BY DEF TypeOK
    <3>2. changed' \in [Requests -> [Parameters -> Int]]
          BY <1>3, <3>1 DEF Replace
    <3>3. \A r \in Requests, p \in Parameters : changed'[r][p] \in 0..MaxUpdates
          BY <1>3, <2>1, <3>2 DEF TypeOK
    <3>q. QED
          BY <3>2, <3>3
  <2>3. ended' \in [Parameters -> [Fees \cup Prices \cup {DefaultFees} -> -1..MaxTime]]
    <3>1. now \in -1..MaxTime
          BY DEF TypeOK
    <3> DEFINE values == Fees \cup Prices \cup {DefaultFees}
    <3>2. ended \in [Parameters -> [values -> -1..MaxTime]]
          BY DEF TypeOK
    <3>3. CASE stored = Nothing
          BY <1>3, <3>2, <3>3 DEF Replace
    <3>4. CASE stored # Nothing
      <4>1. ended' = [ended EXCEPT ![q] = [ended[q] EXCEPT ![stored.current] = now]]
            BY <1>3, <3>4 DEF Replace
      <4>2. [ended[q] EXCEPT ![stored.current] = now] \in [values -> -1..MaxTime]
            BY <1>3, <3>1, <3>2
      <4>q. QED
            BY <3>2, <4>1, <4>2
    <3>q. QED
          BY <3>3, <3>4
  <2>4. TypeOK'
    <3>1. updates' \in 0..MaxUpdates
          BY <1>3 DEF TypeOK
    <3>q. QED
          BY <1>3, <2>2, <2>3, <3>1 DEF TypeOK, clocks
  <2>5. Clocks' /\ SentSealed' /\ ChangesCounted'
        BY <1>3, <2>1, <2>2 DEF Clocks, SentSealed, ChangesCounted, clocks
  <2>q. QED
        BY <2>4, <2>5
<1>4. CASE UpdateFees
  <2>1. \A f \in Fees : Updated(fees, f, now) \in Updateable(Fees)
        BY DEF Updated, Updateable, Told, TypeOK
  <2>2. FeesOfService(fees).current \in Fees \cup {DefaultFees}
        BY ToldValues
  <2>q. QED
        BY <1>3, <1>4, <2>1, <2>2 DEF UpdateFees, Parameters, TypeOK
<1>5. CASE UpdateExpectedGasPrice
  <2>1. \A v \in Prices : Updated(price, v, now) \in Updateable(Prices)
        BY DEF Updated, Updateable, Told, TypeOK
  <2>2. price = Nothing \/ price.current \in Prices
        BY DEF Updateable, TypeOK
  <2>q. QED
        BY <1>3, <1>5, <2>1, <2>2 DEF UpdateExpectedGasPrice, Parameters, TypeOK
<1>6. CASE Tick \/ NewBlock
  <2>1. now' \in 0..MaxTime /\ chain' \in 0..now' /\ Clocks'
        BY <1>6 DEF Tick, NewBlock, TypeOK, Clocks
  <2>2. UNCHANGED <<config, pc, sent, stamp, moved, history>>
        BY <1>6 DEF Tick, NewBlock
  <2>q. QED
        BY <2>1, <2>2 DEF TypeOK, SentSealed, ChangesCounted, config, history
<1>7. CASE UNCHANGED vars
      BY <1>7 DEF vars, TypeOK, Clocks, SentSealed, ChangesCounted, clocks, config, history
<1>q. QED
      BY <1>1, <1>2, <1>4, <1>5, <1>6, <1>7 DEF Next

(* The submission stays well typed.                                           *)
THEOREM SubmissionTypeCorrect == Spec => []TypeOK
<1>1. TypeInv => TypeOK
      BY DEF TypeInv
<1>q. QED
      BY <1>1, TypeInvInit, TypeInvNext, PTL DEF Spec

-----------------------------------------------------------------------------
(* Locked payloads.                                                           *)

(* What can be opened was asked for less than a period later at most: the     *)
(* round of a time is no earlier (scheduleExecution of the client).           *)
THEOREM SealedUntilAlmostAsked == Spec => []SealedUntilAsked
<1>1. ASSUME TypeInv PROVE SealedUntilAsked
  <2> SUFFICES ASSUME NEW r \in Requests, sent[r] # NoRequest, sent[r].locked # Nothing,
                      Opens(sent[r].locked)
               PROVE  now + Period > sent[r].timing.at
      BY DEF SealedUntilAsked
  <2>1. /\ sent[r] \in Submitted
        /\ sent[r].locked.round = RoundAt(sent[r].timing.at)
        BY <1>1 DEF TypeInv, SentSealed
  <2>2. sent[r].timing.at \in Nat
        BY <2>1, Numbers DEF Submitted, Timing
  <2>3. RoundTime(RoundAt(sent[r].timing.at)) <= now
        BY <2>1 DEF Opens
  <2>4. now \in Nat
        BY <1>1, Numbers DEF TypeInv, TypeOK
  <2>q. QED
        BY <2>2, <2>3, <2>4, RoundBounds, Numbers
<1>q. QED
      BY <1>1, TypeInvInit, TypeInvNext, PTL DEF Spec

(* An execution that can be locked is due no earlier than the time asked for, *)
(* wherever the transaction it depends on has moved its start.                *)
LEMMA DueAfterAsked ==
    ASSUME NEW timing \in Timing, NEW start \in Times \cup {Never}, Lockable(timing.kind)
    PROVE  PotentialTime(timing, start) \in Nat /\ PotentialTime(timing, start) >= timing.at
<1> DEFINE moment == [timing EXCEPT !.start = IF start = Never THEN @ ELSE start]
<1>1. /\ timing.at \in Nat /\ timing.start \in Nat
      /\ timing.kind \in Kinds \ {"delta-time"}
      BY Numbers DEF Timing, Lockable
<1>2. /\ moment.kind = timing.kind /\ moment.at = timing.at
      /\ moment.start \in Nat
      BY <1>1, Numbers DEF Timing
<1>3. PotentialTime(timing, start) = InitialTime(moment)
      BY DEF PotentialTime
<1> HIDE DEF moment
<1>4. CASE moment.kind \in {"fixed-time", "fixed-round"}
  <2>1. InitialTime(moment) = moment.at
        BY <1>4 DEF InitialTime
  <2>q. QED
        BY <1>1, <1>2, <1>3, <2>1
<1>5. CASE moment.kind = "delta-time-with-target-time"
  <2>1. InitialTime(moment) = IF moment.at > moment.start THEN moment.at ELSE moment.start
        BY <1>5 DEF InitialTime
  <2>q. QED
        BY <1>1, <1>2, <1>3, <2>1
<1>q. QED
      BY <1>1, <1>2, <1>4, <1>5 DEF Kinds

(* What the client has locked is open when the scheduler executes it          *)
(* (timelockDecrypt, called by execute of the scheduler).                     *)
THEOREM PayloadsOpenInTime == Spec => []OpensInTime
<1>1. Init => OpensInTime
      BY DEF Init, OpensInTime
<1>2. TypeInv /\ OpensInTime /\ [Next]_vars => OpensInTime'
  <2> SUFFICES ASSUME TypeInv, OpensInTime, [Next]_vars, NEW x \in Requests
               PROVE  pc'[x] # "failed"
      BY DEF OpensInTime
  <2>1. pc \in [Requests -> PCs] /\ pc[x] # "failed"
        BY DEF TypeInv, TypeOK, OpensInTime
  <2>2. ASSUME NEW r \in Requests, Client(r) PROVE pc'[x] # "failed"
        BY <2>1, <2>2 DEF Client, ScheduleExecution, BroadcastExecution, Goto
  <2>3. ASSUME NEW r \in Requests, Execute(r) PROVE pc'[x] # "failed"
    <3>1. /\ pc[r] = "queued" /\ pc' = [pc EXCEPT ![r] = Decrypt(r)]
          /\ PotentialTime(sent[r].timing, moved[r]) <= chain
          BY <2>3 DEF Execute, Goto
    <3>2. sent[r] \in Submitted
          BY <3>1 DEF TypeInv, SentSealed
    <3>3. sent[r].locked # Nothing => Opens(sent[r].locked)
      <4> SUFFICES ASSUME sent[r].locked # Nothing PROVE Opens(sent[r].locked)
          OBVIOUS
      <4>1. /\ Lockable(sent[r].timing.kind)
            /\ sent[r].locked.round = RoundAt(sent[r].timing.at)
            BY <3>1 DEF TypeInv, SentSealed
      <4>2. /\ sent[r].timing \in Timing /\ sent[r].timing.at \in Nat
            /\ moved[r] \in Times \cup {Never}
            BY <3>2, Numbers DEF Submitted, Timing, TypeInv, TypeOK
      <4>3. /\ PotentialTime(sent[r].timing, moved[r]) \in Nat
            /\ PotentialTime(sent[r].timing, moved[r]) >= sent[r].timing.at
            BY <4>1, <4>2, DueAfterAsked
      <4>4. chain \in Nat /\ now \in Nat /\ chain <= now
            BY Numbers DEF TypeInv, TypeOK, Clocks
      <4>q. QED
            BY <3>1, <4>1, <4>2, <4>3, <4>4, RoundBounds DEF Opens
    <3>4. Decrypt(r) \in {"broadcast", "refused"}
          BY <3>3 DEF Decrypt
    <3>q. QED
          BY <2>1, <3>1, <3>4
  <2>4. ASSUME NEW r \in Requests, Service(r), ~Execute(r) PROVE pc'[x] # "failed"
        BY <2>1, <2>4 DEF Service, ReadTimestamp, ValidateParameters, BroadcastAtOnce,
                          ConfirmStart, Goto
  <2>5. CASE UpdateFees \/ UpdateExpectedGasPrice \/ Tick \/ NewBlock
        BY <2>1, <2>5 DEF UpdateFees, UpdateExpectedGasPrice, Tick, NewBlock
  <2>6. CASE UNCHANGED vars
        BY <2>1, <2>6 DEF vars
  <2>q. QED
        BY <2>2, <2>3, <2>4, <2>5, <2>6 DEF Next
<1>q. QED
      BY <1>1, <1>2, TypeInvInit, TypeInvNext, PTL DEF Spec

-----------------------------------------------------------------------------
(* Parameters.                                                                *)

Stored(p) == IF p = "fees" THEN fees ELSE price

(* The value before the current one was replaced at the time of the update.   *)
ReplacedAtUpdate ==
    \A p \in Parameters :
        Stored(p) # Nothing /\ Stored(p).previous # Nothing
            => ended[p][Stored(p).previous] = Stored(p).update

(* Readings are as old as they say.                                           *)
ReadInPast ==
    \A r \in Requests :
        /\ fetchedAt[r] <= now
        /\ pc[r] = "timed" => stamp[r] <= readAt[r] /\ readAt[r] <= stamp[r] + MaxLag

(* What a client was told and has not been compared yet is the current value, *)
(* or after one change the one before, which was current when it was fetched. *)
ToldLately ==
    \A r \in Requests : pc[r] \in {"sent", "timed"} /\ sent[r].fees # DefaultFees =>
        \A p \in Parameters :
            /\ changed[r][p] = 0 => Given(r, p) = Current(p)
            /\ changed[r][p] = 1 /\ Given(r, p) # Nothing =>
                  /\ Stored(p) # Nothing /\ Stored(p).previous = Given(r, p)
                  /\ Stored(p).update >= fetchedAt[r]

ParametersInv == ReplacedAtUpdate /\ ReadInPast /\ ToldLately /\ GraceKept

LEMMA ParametersInvInit == Init => ParametersInv
BY DEF Init, ParametersInv, ReplacedAtUpdate, ReadInPast, ToldLately, GraceKept, Stored

(* A value that the service accepts is none, the current one, or the one      *)
(* before within Delay; one that it refuses is none of those.                 *)
LEMMA Accepted ==
    ASSUME TypeInv, NEW r \in Requests, sent[r] \in Submitted, NEW time \in Nat
    PROVE  Valid(r, time) <=>
              \A p \in Parameters :
                 \/ Given(r, p) \in {Nothing, Current(p)}
                 \/ /\ Stored(p) # Nothing /\ Stored(p).previous = Given(r, p)
                    /\ time < Stored(p).update + Delay
<1>1. /\ sent[r].fees # Nothing
      /\ fees = Nothing \/ fees \in Updateable(Fees)
      /\ price = Nothing \/ price \in Updateable(Prices)
      BY ValuesAssumption, DefaultAssumption DEF Submitted, TypeInv, TypeOK
<1>2. Accepts(sent[r].fees, FeesOfService(fees), time) <=>
         \/ Given(r, "fees") \in {Nothing, Current("fees")}
         \/ /\ Stored("fees") # Nothing /\ Stored("fees").previous = Given(r, "fees")
            /\ time < Stored("fees").update + Delay
  <2>1. CASE fees = Nothing
    <3>1. FeesOfService(fees) = [current |-> DefaultFees, previous |-> Nothing, update |-> 0]
          BY <2>1 DEF FeesOfService
    <3>2. FeesOfService(fees) # Nothing
          BY <3>1, ValuesAssumption DEF Updateable
    <3>q. QED
          BY <1>1, <2>1, <3>1, <3>2 DEF Accepts, Given, Current, Stored
  <2>2. CASE fees # Nothing
        BY <1>1, <2>2 DEF Accepts, FeesOfService, Given, Current, Stored
  <2>q. QED
        BY <2>1, <2>2
<1>3. Accepts(sent[r].price, price, time) <=>
         \/ Given(r, "price") \in {Nothing, Current("price")}
         \/ /\ Stored("price") # Nothing /\ Stored("price").previous = Given(r, "price")
            /\ time < Stored("price").update + Delay
  <2>1. CASE price = Nothing
        BY <1>1, <2>1 DEF Accepts, Told, Given, Current, Stored
  <2>2. CASE price # Nothing
        BY <1>1, <2>2 DEF Accepts, Told, Given, Current, Stored
  <2>q. QED
        BY <2>1, <2>2
<1>q. QED
      BY <1>2, <1>3 DEF Valid, Parameters

(* What is accepted was replaced lately, if at all.                           *)
LEMMA AcceptedLately ==
    ASSUME TypeInv, ParametersInv, NEW r \in Requests, sent[r] \in Submitted,
           NEW time \in Nat, NEW read \in Nat, read <= time + MaxLag, Valid(r, time),
           NEW p \in Parameters
    PROVE  \/ Given(r, p) \in {Nothing, Current(p)}
           \/ /\ ended[p][Given(r, p)] # Never
              /\ read < ended[p][Given(r, p)] + Delay + MaxLag
<1> SUFFICES ASSUME Given(r, p) \notin {Nothing, Current(p)}
             PROVE  /\ ended[p][Given(r, p)] # Never
                    /\ read < ended[p][Given(r, p)] + Delay + MaxLag
    OBVIOUS
<1>1. /\ Stored(p) # Nothing /\ Stored(p).previous = Given(r, p)
      /\ time < Stored(p).update + Delay
      BY Accepted
<1>2. Stored(p).update \in Nat
      BY <1>1 DEF Stored, TypeInv, TypeOK, Updateable
<1>3. ended[p][Given(r, p)] = Stored(p).update
      BY <1>1 DEF ParametersInv, ReplacedAtUpdate
<1>q. QED
      BY <1>1, <1>2, <1>3, Numbers DEF Never

(* Parameters that changed at most once since a client fetched them are       *)
(* refused only after Delay.                                                  *)
LEMMA RefusedLate ==
    ASSUME TypeInv, ParametersInv, NEW r \in Requests, pc[r] \in {"sent", "timed"},
           NEW time \in Nat, NEW read \in Nat, time <= read, ~Valid(r, time)
    PROVE  \/ \E p \in Parameters : changed[r][p] > 1
           \/ read >= fetchedAt[r] + Delay
           \/ sent[r].fees = DefaultFees
<1> SUFFICES ASSUME \A p \in Parameters : ~(changed[r][p] > 1),
                    sent[r].fees # DefaultFees
             PROVE  read >= fetchedAt[r] + Delay
    OBVIOUS
<1>1. sent[r] \in Submitted
      BY DEF TypeInv, SentSealed
<1>2. PICK p \in Parameters :
         /\ Given(r, p) \notin {Nothing, Current(p)}
         /\ ~(/\ Stored(p) # Nothing /\ Stored(p).previous = Given(r, p)
              /\ time < Stored(p).update + Delay)
      BY <1>1, Accepted
<1>3. changed[r][p] \in Nat
      BY Numbers DEF TypeInv, TypeOK
<1>4. changed[r][p] \in {0, 1}
      BY <1>3
<1>5. /\ changed[r][p] = 0 => Given(r, p) = Current(p)
      /\ changed[r][p] = 1 /\ Given(r, p) # Nothing =>
            /\ Stored(p) # Nothing /\ Stored(p).previous = Given(r, p)
            /\ Stored(p).update >= fetchedAt[r]
      BY DEF ParametersInv, ToldLately
<1>6. /\ Stored(p) # Nothing /\ Stored(p).previous = Given(r, p)
      /\ Stored(p).update >= fetchedAt[r]
      BY <1>2, <1>4, <1>5
<1>7. Stored(p).update \in Nat /\ fetchedAt[r] \in Nat
      BY <1>6, Numbers DEF Stored, TypeInv, TypeOK, Updateable
<1>q. QED
      BY <1>2, <1>6, <1>7, Numbers

(* A change of one parameter: its value is remembered as the one before, with *)
(* the time, and whoever was told it has it as the one before.                *)
LEMMA ChangePreserves ==
    ASSUME TypeInv, ParametersInv, NEW q \in Parameters, NEW old, NEW value,
           Replace(q, old),
           old = Stored(q) \/ (q = "fees" /\ fees = Nothing),
           Stored(q)' = Updated(Stored(q), value, now),
           Stored(q)' # Nothing,
           \A p \in Parameters \ {q} : Stored(p)' = Stored(p) /\ Current(p)' = Current(p),
           UNCHANGED <<now, pc, sent, stamp, fetchedAt, readAt>>
    PROVE  ParametersInv'
<1> USE DEF TypeInv, ParametersInv
<1>1. /\ changed \in [Requests -> [Parameters -> Int]]
      /\ changed' = [r \in Requests |-> [changed[r] EXCEPT ![q] =
                                            IF pc[r] = "new" THEN @ ELSE @ + 1]]
      /\ ended' = IF old = Nothing THEN ended ELSE [ended EXCEPT ![q][old.current] = now]
      /\ ended \in [Parameters -> [Fees \cup Prices \cup {DefaultFees} -> -1..MaxTime]]
  <2>1. /\ changed \in [Requests -> [Parameters -> 0..MaxUpdates]]
        /\ ended \in [Parameters -> [Fees \cup Prices \cup {DefaultFees} -> -1..MaxTime]]
        BY DEF TypeOK
  <2>2. changed \in [Requests -> [Parameters -> Int]]
        BY <2>1
  <2>q. QED
        BY <2>1, <2>2 DEF Replace
<1>2. /\ Stored(q)'.previous = Told(Stored(q))
      /\ Stored(q)'.update = now
      BY DEF Updated
<1>3. /\ Stored(q) # Nothing => Stored(q).current \in Fees \cup Prices \cup {DefaultFees}
      /\ Stored(q) # Nothing => old = Stored(q)
      BY DEF Stored, TypeOK, Updateable
<1>4. ReplacedAtUpdate'
  <2> SUFFICES ASSUME NEW p \in Parameters, Stored(p)' # Nothing,
                      Stored(p)'.previous # Nothing
               PROVE  ended'[p][Stored(p)'.previous] = Stored(p)'.update
      BY DEF ReplacedAtUpdate
  <2>1. CASE p = q
    <3>1. Stored(q) # Nothing /\ Stored(q)'.previous = Stored(q).current
          BY <1>2, <2>1 DEF Told
    <3>2. ended' = [ended EXCEPT ![q][Stored(q).current] = now]
          BY <1>1, <1>3, <3>1
    <3>3. ended'[q][Stored(q).current] = now
          BY <1>1, <1>3, <3>1, <3>2
    <3>q. QED
          BY <1>2, <2>1, <3>1, <3>3
  <2>2. CASE p # q
    <3>1. ended'[p] = ended[p] /\ Stored(p)' = Stored(p)
          BY <1>1, <2>2
    <3>q. QED
          BY <3>1 DEF ReplacedAtUpdate
  <2>q. QED
        BY <2>1, <2>2
<1>5. ReadInPast'
      BY DEF ReadInPast
<1>6. ToldLately'
  <2> SUFFICES ASSUME NEW r \in Requests, pc[r] \in {"sent", "timed"},
                      sent[r].fees # DefaultFees, NEW p \in Parameters
               PROVE  /\ changed'[r][p] = 0 => Given(r, p) = Current(p)'
                      /\ changed'[r][p] = 1 /\ Given(r, p) # Nothing =>
                            /\ Stored(p)' # Nothing /\ Stored(p)'.previous = Given(r, p)
                            /\ Stored(p)'.update >= fetchedAt[r]
      BY DEF ToldLately, Given
  <2>1. /\ changed[r][p] = 0 => Given(r, p) = Current(p)
        /\ changed[r][p] = 1 /\ Given(r, p) # Nothing =>
              /\ Stored(p) # Nothing /\ Stored(p).previous = Given(r, p)
              /\ Stored(p).update >= fetchedAt[r]
        BY DEF ToldLately
  <2>2. changed[r][p] \in Nat /\ fetchedAt[r] <= now
        BY Numbers DEF TypeOK, ReadInPast
  <2>3. CASE p = q
    <3>1. changed'[r][p] = changed[r][p] + 1
          BY <1>1, <2>3
    <3>2. ASSUME changed[r][p] = 0, Given(r, p) # Nothing
          PROVE  Told(Stored(q)) = Given(r, p)
          BY <2>1, <2>3, <3>2 DEF Current, Given, Stored, FeesOfService, Told, Parameters
    <3>q. QED
          BY <1>2, <2>2, <2>3, <3>1, <3>2
  <2>4. CASE p # q
    <3>1. changed'[r][p] = changed[r][p]
          BY <1>1, <2>4
    <3>q. QED
          BY <2>1, <2>4, <3>1
  <2>q. QED
        BY <2>3, <2>4
<1>7. GraceKept'
  <2>1. \A r \in Requests, p \in Parameters : changed[r][p] > 1 => changed'[r][p] > 1
        BY <1>1
  <2>q. QED
        BY <2>1 DEF GraceKept
<1>q. QED
      BY <1>4, <1>5, <1>6, <1>7

(* Every step preserves the second half.                                      *)
LEMMA ParametersInvNext ==
    TypeInv /\ ParametersInv /\ [Next]_vars => ParametersInv'
<1> SUFFICES ASSUME TypeInv, ParametersInv, [Next]_vars PROVE ParametersInv'
    OBVIOUS
<1>1. ASSUME NEW r \in Requests, Client(r)
      PROVE  ParametersInv'
  <2>1. /\ sent' = [sent EXCEPT ![r] = sent'[r]]
        /\ sent'[r].fees = FeesOfService(fees).current
        /\ sent'[r].price = Told(price)
        /\ pc' = [pc EXCEPT ![r] = "sent"]
        /\ fetchedAt' = [fetchedAt EXCEPT ![r] = now]
        /\ changed' = [changed EXCEPT ![r] = [p \in Parameters |-> 0]]
        /\ UNCHANGED <<clocks, config, stamp, moved, readAt, ended>>
        BY <1>1, SentByClient
  <2>2. now \in Nat
        BY Numbers DEF TypeInv, TypeOK
  <2>3. ReplacedAtUpdate'
        BY <2>1 DEF ParametersInv, ReplacedAtUpdate, Stored, config
  <2>4. ReadInPast'
        BY <2>1, <2>2 DEF ParametersInv, ReadInPast, clocks, TypeInv, TypeOK
  <2>5. ToldLately'
    <3>1. \A p \in Parameters : changed'[r][p] = 0 /\ Given(r, p)' = Current(p)'
          BY <2>1 DEF Given, Current, config, TypeInv, TypeOK
    <3>2. \A x \in Requests \ {r} : /\ changed'[x] = changed[x] /\ pc'[x] = pc[x]
                                    /\ sent'[x] = sent[x] /\ fetchedAt'[x] = fetchedAt[x]
          BY <2>1 DEF TypeInv, TypeOK
    <3>3. \A p \in Parameters : Stored(p)' = Stored(p) /\ Current(p)' = Current(p)
          BY <2>1 DEF Stored, Current, config
    <3>q. QED
          BY <3>1, <3>2, <3>3 DEF ParametersInv, ToldLately, Given
  <2>6. GraceKept'
        BY <2>1 DEF ParametersInv, GraceKept, TypeInv, TypeOK
  <2>q. QED
        BY <2>3, <2>4, <2>5, <2>6 DEF ParametersInv
<1>2. ASSUME NEW r \in Requests, Service(r)
      PROVE  ParametersInv'
  <2>1. /\ UNCHANGED <<clocks, config, sent, fetchedAt, changed, ended>>
        /\ \A x \in Requests \ {r} : /\ pc'[x] = pc[x] /\ stamp'[x] = stamp[x]
                                     /\ readAt'[x] = readAt[x]
        BY <1>2 DEF Service, ReadTimestamp, ValidateParameters, BroadcastAtOnce, ConfirmStart,
                    Execute, Goto, TypeInv, TypeOK, history
  <2>2. pc'[r] \in {"sent", "timed"} => pc[r] \in {"sent", "timed"}
        BY <1>2 DEF Service, ReadTimestamp, ValidateParameters, BroadcastAtOnce, ConfirmStart,
                    Execute, Decrypt, Goto, TypeInv, TypeOK, history
  <2>3. /\ now \in Nat /\ chain \in Nat /\ stamp[r] \in Nat /\ readAt[r] \in Nat
        /\ chain <= now /\ now <= chain + MaxLag
        BY Numbers DEF TypeInv, TypeOK, Clocks
  <2>4. pc'[r] = "timed" => stamp'[r] <= readAt'[r] /\ readAt'[r] <= stamp'[r] + MaxLag
    <3>1. CASE ReadTimestamp(r)
          BY <2>3, <3>1 DEF ReadTimestamp, TypeInv, TypeOK
    <3>2. CASE ~ReadTimestamp(r)
          BY <1>2, <3>2 DEF Service, ValidateParameters, BroadcastAtOnce, ConfirmStart,
                    Execute, Decrypt, Goto, TypeInv, TypeOK, history
    <3>q. QED
          BY <3>1, <3>2
  <2>5. ReplacedAtUpdate'
        BY <2>1 DEF ParametersInv, ReplacedAtUpdate, Stored, config
  <2>6. ReadInPast'
        BY <2>1, <2>4 DEF ParametersInv, ReadInPast, clocks
  <2>7. ToldLately'
    <3>1. \A p \in Parameters, x \in Requests :
             /\ Stored(p)' = Stored(p) /\ Current(p)' = Current(p)
             /\ Given(x, p)' = Given(x, p)
          BY <2>1 DEF Stored, Current, Given, config
    <3>2. \A x \in Requests : pc'[x] \in {"sent", "timed"} => pc[x] \in {"sent", "timed"}
          BY <2>1, <2>2
    <3>q. QED
          BY <2>1, <3>1, <3>2 DEF ParametersInv, ToldLately
  <2>8. GraceKept'
    <3>1. ASSUME pc'[r] = "outdated"
          PROVE  \/ \E p \in Parameters : changed[r][p] > 1
                 \/ readAt'[r] >= fetchedAt[r] + Delay
                 \/ sent[r].fees = DefaultFees
      <4>1. CASE ValidateParameters(r)
        <5>1. pc[r] = "timed" /\ ~Valid(r, stamp[r]) /\ readAt' = readAt
              BY <3>1, <4>1 DEF ValidateParameters, Goto, TypeInv, TypeOK, history
        <5>2. stamp[r] <= readAt[r]
              BY <5>1 DEF ParametersInv, ReadInPast
        <5>q. QED
              BY <2>3, <5>1, <5>2, RefusedLate
      <4>2. CASE BroadcastAtOnce(r)
        <5>1. pc[r] = "sent" /\ ~Valid(r, now) /\ readAt'[r] = now
              BY <3>1, <4>2 DEF BroadcastAtOnce, Goto, TypeInv, TypeOK
        <5>q. QED
              BY <2>3, <5>1, RefusedLate
      <4>3. CASE ~ValidateParameters(r) /\ ~BroadcastAtOnce(r)
        <5>1. FALSE
              BY <1>2, <3>1, <4>3 DEF Service, ReadTimestamp, ConfirmStart, Execute, Decrypt,
                                      Goto, TypeInv, TypeOK
        <5>q. QED
              BY <5>1
      <4>q. QED
            BY <4>1, <4>2, <4>3
    <3>2. \A x \in Requests \ {r} : pc'[x] = pc[x] /\ readAt'[x] = readAt[x]
          BY <2>1
    <3>q. QED
          BY <2>1, <3>1, <3>2 DEF ParametersInv, GraceKept
  <2>q. QED
        BY <2>5, <2>6, <2>7, <2>8 DEF ParametersInv
<1>3. CASE UpdateFees
  <2>1. PICK f \in Fees : fees' = Updated(fees, f, now)
        BY <1>3 DEF UpdateFees
  <2>2. fees' \in Updateable(Fees \cup {DefaultFees}) /\ fees' # Nothing
    <3>1. now \in Nat /\ (fees = Nothing \/ fees \in Updateable(Fees))
          BY Numbers DEF TypeInv, TypeOK
    <3>2. fees' \in Updateable(Fees \cup {DefaultFees})
          BY <2>1, <3>1 DEF Updated, Told, Updateable
    <3>q. QED
          BY <3>2, ValuesAssumption
  <2>3. FeesOfService(fees) = fees \/ fees = Nothing
        BY DEF FeesOfService
  <2>4. /\ Stored("fees") = fees /\ Stored("fees")' = fees'
        /\ \A p \in Parameters \ {"fees"} : Stored(p)' = Stored(p) /\ Current(p)' = Current(p)
        BY <1>3 DEF UpdateFees, Stored, Current, Parameters
  <2>5. Replace("fees", FeesOfService(fees))
        BY <1>3 DEF UpdateFees
  <2>6. UNCHANGED <<now, pc, sent, stamp, fetchedAt, readAt>>
        BY <1>3 DEF UpdateFees, clocks
  <2>q. QED
        BY <2>1, <2>2, <2>3, <2>4, <2>5, <2>6, ChangePreserves DEF Parameters
<1>4. CASE UpdateExpectedGasPrice
  <2>1. PICK v \in Prices : price' = Updated(price, v, now)
        BY <1>4 DEF UpdateExpectedGasPrice
  <2>2. price' # Nothing
    <3>1. now \in Nat /\ (price = Nothing \/ price \in Updateable(Prices))
          BY Numbers DEF TypeInv, TypeOK
    <3>2. price' \in Updateable(Prices)
          BY <2>1, <3>1 DEF Updated, Told, Updateable
    <3>q. QED
          BY <3>2, ValuesAssumption
  <2>3. /\ Stored("price") = price /\ Stored("price")' = price'
        /\ \A p \in Parameters \ {"price"} : Stored(p)' = Stored(p) /\ Current(p)' = Current(p)
        BY <1>4 DEF UpdateExpectedGasPrice, Stored, Current, Parameters
  <2>4. Replace("price", price)
        BY <1>4 DEF UpdateExpectedGasPrice
  <2>5. UNCHANGED <<now, pc, sent, stamp, fetchedAt, readAt>>
        BY <1>4 DEF UpdateExpectedGasPrice, clocks
  <2>q. QED
        BY <2>1, <2>2, <2>3, <2>4, <2>5, ChangePreserves DEF Parameters
<1>5. CASE Tick \/ NewBlock
  <2>1. now' >= now /\ UNCHANGED <<config, pc, sent, stamp, history>>
        BY <1>5, Numbers DEF Tick, NewBlock, TypeInv, TypeOK
  <2>2. \A r \in Requests : now \in Nat /\ now' \in Nat /\ fetchedAt[r] \in Nat
        BY <1>5, Numbers DEF Tick, NewBlock, TypeInv, TypeOK
  <2>q. QED
        BY <2>1, <2>2 DEF ParametersInv, ReplacedAtUpdate, ReadInPast, ToldLately, GraceKept,
                          Stored, Current, Given, config, history
<1>6. CASE UNCHANGED vars
      BY <1>6 DEF vars, ParametersInv, ReplacedAtUpdate, ReadInPast, ToldLately, GraceKept,
                  Stored, Current, Given, clocks, config, history
<1>q. QED
      BY <1>1, <1>2, <1>3, <1>4, <1>5, <1>6 DEF Next

(* Clients are not refused what they were told within Delay, if it changed    *)
(* once (validateParameters, over every interleaving with the admin).         *)
THEOREM GraceAlwaysKept == Spec => []GraceKept
<1>1. ParametersInv => GraceKept
      BY DEF ParametersInv
<1>q. QED
      BY <1>1, TypeInvInit, TypeInvNext, ParametersInvInit, ParametersInvNext, PTL DEF Spec

(* What is accepted is current, or was replaced at most Delay before, by the  *)
(* time of a chain that lags no more than MaxLag.                             *)
THEOREM OnlyFreshAccepted == Spec => AcceptedFresh
<1>1. ASSUME TypeInv, ParametersInv, [Next]_vars, NEW r \in Requests,
             pc[r] \in {"sent", "timed"}, pc'[r] \in {"queued", "broadcast"},
             NEW p \in Parameters
      PROVE  \/ Given(r, p) \in {Nothing, Current(p)}
             \/ /\ ended[p][Given(r, p)] # Never
                /\ readAt'[r] < ended[p][Given(r, p)] + Delay + MaxLag
  <2>1. sent[r] \in Submitted
        BY <1>1 DEF TypeInv, SentSealed
  <2>2. /\ now \in Nat /\ stamp[r] \in Nat /\ readAt[r] \in Nat
        BY <1>1, Numbers DEF TypeInv, TypeOK
  <2>3. CASE ValidateParameters(r)
    <3>1. pc[r] = "timed" /\ Valid(r, stamp[r]) /\ readAt' = readAt
          BY <1>1, <2>3 DEF ValidateParameters, Goto, TypeInv, TypeOK, history
    <3>2. readAt[r] <= stamp[r] + MaxLag
          BY <1>1, <3>1 DEF ParametersInv, ReadInPast
    <3>q. QED
          BY <1>1, <2>1, <2>2, <3>1, <3>2, AcceptedLately
  <2>4. CASE BroadcastAtOnce(r)
    <3>1. Valid(r, now) /\ readAt'[r] = now /\ now <= now + MaxLag
          BY <1>1, <2>2, <2>4, Numbers DEF BroadcastAtOnce, Goto, TypeInv, TypeOK
    <3>q. QED
          BY <1>1, <2>1, <2>2, <3>1, AcceptedLately
  <2>5. ASSUME ~ValidateParameters(r), ~BroadcastAtOnce(r)
        PROVE  FALSE
    <3>1. pc \in [Requests -> PCs]
          BY <1>1 DEF TypeInv, TypeOK
    <3>2. ASSUME NEW x \in Requests, Client(x) PROVE pc'[r] = pc[r] \/ pc'[r] = "sent"
          BY <3>1, <3>2 DEF Client, ScheduleExecution, BroadcastExecution, Goto
    <3>3. ASSUME NEW x \in Requests, Service(x)
          PROVE  pc'[r] = pc[r] \/ pc'[r] \in {"late", "timed"}
      <4>1. CASE x = r
            BY <1>1, <2>5, <3>1, <3>3, <4>1 DEF Service, ReadTimestamp, ConfirmStart, Execute,
                                                Goto
      <4>2. CASE x # r
            BY <3>1, <3>3, <4>2 DEF Service, ReadTimestamp, ValidateParameters, BroadcastAtOnce,
                                    ConfirmStart, Execute, Goto
      <4>q. QED
            BY <4>1, <4>2
    <3>4. CASE UpdateFees \/ UpdateExpectedGasPrice \/ Tick \/ NewBlock \/ UNCHANGED vars
          BY <1>1, <3>4 DEF UpdateFees, UpdateExpectedGasPrice, Tick, NewBlock, vars
    <3>q. QED
          BY <1>1, <3>2, <3>3, <3>4 DEF Next
  <2>q. QED
        BY <2>3, <2>4, <2>5
<1>2. TypeInv /\ ParametersInv /\ [Next]_vars =>
         [\A r \in Requests :
             pc[r] \in {"sent", "timed"} /\ pc'[r] \in {"queued", "broadcast"} =>
                \A p \in Parameters :
                   \/ Given(r, p) \in {Nothing, Current(p)}
                   \/ /\ ended[p][Given(r, p)] # Never
                      /\ readAt'[r] < ended[p][Given(r, p)] + Delay + MaxLag]_vars
      BY <1>1
<1>q. QED
      BY <1>2, TypeInvInit, TypeInvNext, ParametersInvInit, ParametersInvNext, PTL
      DEF Spec, AcceptedFresh
=============================================================================
