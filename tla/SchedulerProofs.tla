---------------------------- MODULE SchedulerProofs ----------------------------
(* Proofs about Scheduler, for every number of slots, overlapping runs,       *)
(* submissions and faults: its types, that nothing is early, that a row stands *)
(* for a whole batch, that no submission is lost and that no batch is mixed.  *)
EXTENDS Scheduler, FiniteSetTheorems, SequenceTheorems, TLAPS

(* A row that is not given up has retries left.                               *)
Live == {row \in Row : row.retries < MaxRetries}

States == {"pending", "mined", "success", "failed", "replaced"}

(* Rows that a process has in its hands.                                      *)
Held(p) == {todo[p][i] : i \in DOMAIN todo[p]}

TablesTyped ==
    /\ rows \in [Slots -> Live \cup {NoRow}]
    /\ archived \in [Slots -> Row \cup {NoRow}]
    /\ \A s \in Slots : /\ rows[s] # NoRow => rows[s].slot = s
                        /\ archived[s] # NoRow => archived[s].slot = s

RunsTyped ==
    /\ pc \in [Runs -> PCs]
    /\ todo \in [Runs -> Seq(Live)]
    /\ stamp \in [Runs -> 0..MaxTime]
    /\ index \in [Runs -> Batch]
    /\ \A p \in Runs : pc[p] # "idle" => todo[p] # <<>>

EnvTyped ==
    /\ prior \in [Slots -> States]
    /\ priorTime \in [Slots -> Nat]
    /\ taken \in [Slots -> [Batch -> 0..MaxVersions]]
    /\ final \subseteq Slots \X Batch
    /\ \A s \in Slots, i \in Batch : <<s, i>> \in final => taken[s][i] # 0
    /\ now \in 1..MaxTime

RestTyped ==
    /\ asked \in [Slots -> Seq(Request)]
    /\ checking \subseteq Live /\ admin \subseteq Live
    /\ faults \in 0..MaxFaults
    /\ raced \subseteq Slots /\ deleted \subseteq Slots /\ reopened \subseteq Slots

TypeInv == TablesTyped /\ RunsTyped /\ EnvTyped /\ RestTyped

LEMMA Numbers ==
    /\ BatchSize \in Nat \ {0} /\ Delta \in Nat \ {0} /\ MaxRetries \in Nat \ {0}
    /\ Limit \in Nat \ {0} /\ MaxTime \in Nat \ {0}
    /\ Expiry \in Nat /\ Grace \in Nat /\ LastBlock \in Nat
    /\ MaxVersions \in Nat /\ MaxFaults \in Nat
BY NumbersAssumption

LEMMA TypeInvInit == Init => TypeInv
<1> SUFFICES ASSUME Init PROVE TypeInv
    OBVIOUS
<1> USE DEF Init
<1>1. TablesTyped
    BY DEF TablesTyped
<1>2. RunsTyped
    BY Numbers DEF RunsTyped, PCs, Batch, NoTime
<1>3. EnvTyped
    BY Numbers DEF EnvTyped, States
<1>4. RestTyped
    BY Numbers DEF RestTyped
<1>q. QED
    BY <1>1, <1>2, <1>3, <1>4 DEF TypeInv

LEMMA TypeInvTypes == TypeInv => TypeOK
<1> SUFFICES ASSUME TypeInv PROVE TypeOK
    OBVIOUS
<1>1. \A s \in Slots : \A v \in DOMAIN asked[s] : asked[s][v] \in Request
    BY DEF TypeInv, RestTyped
<1>2. \A table \in {rows, archived}, s \in Slots :
          table[s] = NoRow \/ (table[s] \in Row /\ table[s].slot = s)
    BY DEF TypeInv, TablesTyped, Live
<1>3. \A p \in Runs : /\ pc[p] \in PCs
                      /\ \A i \in DOMAIN todo[p] : todo[p][i] \in Row
                      /\ stamp[p] \in 0..MaxTime
                      /\ index[p] \in Batch
                      /\ pc[p] # "idle" => todo[p] # <<>>
  <2>1. \A p \in Runs : \A i \in DOMAIN todo[p] : todo[p][i] \in Live
      BY DEF TypeInv, RunsTyped
  <2>2. Live \subseteq Row
      BY DEF Live
  <2>q. QED
      BY <2>1, <2>2 DEF TypeInv, RunsTyped
<1>4. checking \subseteq Row /\ admin \subseteq Row
    BY DEF TypeInv, RestTyped, Live
<1>q. QED
    BY <1>1, <1>2, <1>3, <1>4 DEF TypeInv, EnvTyped, RestTyped, TypeOK, States

-----------------------------------------------------------------------------
(* Pieces of actions.                                                         *)

LEMMA AtHead ==
    ASSUME TypeInv, NEW p \in Runs, pc[p] # "idle"
    PROVE  /\ todo[p] \in Seq(Live) /\ todo[p] # <<>>
           /\ Head(todo[p]) \in Live /\ Head(todo[p]) \in Row
           /\ Head(todo[p]) \in Held(p)
<1>1. todo[p] \in Seq(Live) /\ todo[p] # <<>>
    BY DEF TypeInv, RunsTyped
<1>2. Head(todo[p]) = todo[p][1] /\ 1 \in DOMAIN todo[p] /\ Head(todo[p]) \in Live
    BY <1>1
<1>q. QED
    BY <1>1, <1>2 DEF Held, Live

(* The run goes on to its next row.                                           *)
LEMMA NextRowHolds ==
    ASSUME TypeInv, NEW p \in Runs, pc[p] # "idle", NextRow(p)
    PROVE  /\ pc' \in [Runs -> PCs] /\ index' \in [Runs -> Batch]
           /\ todo' \in [Runs -> Seq(Live)]
           /\ \A q \in Runs : pc'[q] # "idle" => todo'[q] # <<>>
           /\ \A q \in Runs : Held(q)' \subseteq Held(q)
           /\ index'[p] = 1 /\ pc'[p] \in {"idle", "check"}
           /\ \A q \in Runs \ {p} : pc'[q] = pc[q] /\ index'[q] = index[q] /\ todo'[q] = todo[q]
<1>1. /\ pc \in [Runs -> PCs] /\ index \in [Runs -> Batch] /\ todo \in [Runs -> Seq(Live)]
      /\ \A q \in Runs : pc[q] # "idle" => todo[q] # <<>>
    BY DEF TypeInv, RunsTyped
<1>2. /\ Tail(todo[p]) \in Seq(Live) /\ Len(Tail(todo[p])) = Len(todo[p]) - 1
      /\ \A i \in 1..Len(Tail(todo[p])) : Tail(todo[p])[i] = todo[p][i + 1]
    BY <1>1, HeadTailProperties
<1>3. Len(todo[p]) # 1 => Tail(todo[p]) # <<>>
  <2>1. Len(todo[p]) \in Nat /\ Len(<<>>) = 0
      BY <1>1, EmptySeq
  <2>2. ASSUME Tail(todo[p]) = <<>> PROVE Len(todo[p]) = 1
    <3>1. Len(Tail(todo[p])) = 0
        BY <2>1, <2>2, Zenon
    <3>q. QED
        BY <1>2, <2>1, <3>1
  <2>q. QED
      BY <2>2
<1>4. todo' = [todo EXCEPT ![p] = Tail(todo[p])]
      /\ pc' = [pc EXCEPT ![p] = IF Len(todo[p]) = 1 THEN "idle" ELSE "check"]
      /\ index' = [index EXCEPT ![p] = 1]
    BY DEF NextRow
<1>5. ASSUME NEW q \in Runs PROVE Held(q)' \subseteq Held(q)
  <2>1. CASE q # p
      BY <1>1, <1>4, <2>1 DEF Held
  <2>2. CASE q = p
    <3>1. todo'[p] = Tail(todo[p])
        BY <1>1, <1>4
    <3>2. \A i \in DOMAIN todo'[p] : i + 1 \in DOMAIN todo[p] /\ todo'[p][i] = todo[p][i + 1]
        BY <1>1, <1>2, <3>1
    <3>q. QED
        BY <2>2, <3>2 DEF Held
  <2>q. QED
      BY <2>1, <2>2
<1>6. 1 \in Batch
    BY Numbers DEF Batch
<1>7. pc'[p] \in {"idle", "check"} /\ index'[p] = 1 /\ todo'[p] = Tail(todo[p])
      /\ (pc'[p] # "idle" => Len(todo[p]) # 1)
    BY <1>1, <1>4
<1>8. pc' \in [Runs -> PCs] /\ index' \in [Runs -> Batch]
    BY <1>1, <1>4, <1>6 DEF PCs
<1>9. todo' \in [Runs -> Seq(Live)]
    BY <1>1, <1>2, <1>4
<1>10. \A q \in Runs \ {p} : pc'[q] = pc[q] /\ index'[q] = index[q] /\ todo'[q] = todo[q]
    BY <1>1, <1>4
<1>q. QED
    BY <1>1, <1>3, <1>5, <1>7, <1>8, <1>9, <1>10

(* The run stays at its first row, perhaps changed.                           *)
LEMMA ContinueHolds ==
    ASSUME TypeInv, NEW p \in Runs, pc[p] # "idle", NEW row \in Live,
           NEW label \in PCs, Continue(p, label, row)
    PROVE  /\ pc' \in [Runs -> PCs] /\ index' \in [Runs -> Batch]
           /\ todo' \in [Runs -> Seq(Live)]
           /\ \A q \in Runs : pc'[q] # "idle" => todo'[q] # <<>>
           /\ \A q \in Runs : Held(q)' \subseteq Held(q) \cup {row}
           /\ index' = index /\ pc'[p] = label /\ Head(todo'[p]) = row
           /\ \A q \in Runs \ {p} : pc'[q] = pc[q] /\ index'[q] = index[q] /\ todo'[q] = todo[q]
<1>1. /\ pc \in [Runs -> PCs] /\ index \in [Runs -> Batch] /\ todo \in [Runs -> Seq(Live)]
      /\ \A q \in Runs : pc[q] # "idle" => todo[q] # <<>>
    BY DEF TypeInv, RunsTyped
<1> DEFINE new == [todo[p] EXCEPT ![1] = row]
<1>2. todo[p] \in Seq(Live) /\ todo[p] # <<>> /\ 1 \in 1..Len(todo[p])
    BY <1>1
<1>3. /\ new \in Seq(Live) /\ Len(new) = Len(todo[p])
      /\ \A i \in 1..Len(todo[p]) : new[i] = IF i = 1 THEN row ELSE todo[p][i]
    BY <1>2, ExceptSeq
<1>4. /\ todo' = [todo EXCEPT ![p] = new]
      /\ pc' = [pc EXCEPT ![p] = label] /\ index' = index
    BY DEF Continue
<1> HIDE DEF new
<1>5. new # <<>> /\ Head(new) = row
    BY <1>2, <1>3
<1>6. todo'[p] = new /\ pc'[p] = label
    BY <1>1, <1>4
<1>7. ASSUME NEW q \in Runs PROVE Held(q)' \subseteq Held(q) \cup {row}
  <2>1. CASE q # p
      BY <1>1, <1>4, <2>1 DEF Held
  <2>2. CASE q = p
    <3>1. \A i \in DOMAIN todo'[p] : i \in DOMAIN todo[p] /\ todo'[p][i] \in {row, todo[p][i]}
        BY <1>1, <1>3, <1>6
    <3>q. QED
        BY <2>2, <3>1 DEF Held
  <2>q. QED
      BY <2>1, <2>2
<1>8. todo' \in [Runs -> Seq(Live)] /\ pc' \in [Runs -> PCs]
    BY <1>1, <1>3, <1>4
<1>9. \A q \in Runs \ {p} : pc'[q] = pc[q] /\ index'[q] = index[q] /\ todo'[q] = todo[q]
    BY <1>1, <1>4
<1>q. QED
    BY <1>1, <1>4, <1>5, <1>6, <1>7, <1>8, <1>9

LEMMA SaveTypes ==
    ASSUME TypeInv, NEW row \in Live, Save(row)
    PROVE  TablesTyped' /\ row.slot \in Slots /\ row # NoRow
<1>1. row.slot \in Slots /\ row # NoRow
    BY NullsAssumption DEF Live, Row
<1>q. QED
    BY <1>1 DEF TypeInv, TablesTyped, Save

LEMMA ArchiveTypes ==
    ASSUME TypeInv, NEW row \in Row, Archive(row)
    PROVE  TablesTyped' /\ row.slot \in Slots /\ row # NoRow
<1>1. row.slot \in Slots /\ row # NoRow
    BY NullsAssumption DEF Row
<1>q. QED
    BY <1>1 DEF TypeInv, TablesTyped, Archive, tables

LEMMA FaultTypes ==
    ASSUME TypeInv, Fault \/ UNCHANGED faults
    PROVE  faults' \in 0..MaxFaults
BY Numbers DEF Fault, TypeInv, RestTyped

(* What is read of a table with a limit is a sequence of its rows.            *)
LEMMA TopMostRows ==
    ASSUME TypeInv, NEW S \in SUBSET Slots, \A s \in S : rows[s] # NoRow,
           NEW q \in TopMost({rows[s] : s \in S})
    PROVE  q \in Seq({rows[s] : s \in S}) /\ q \in Seq(Live)
<1> DEFINE T == {rows[s] : s \in S}
           n == IF Cardinality(T) < Limit THEN Cardinality(T) ELSE Limit
           f == [s \in S |-> rows[s]]
<1>1. IsFiniteSet(S)
    BY SlotsAssumption, FS_Subset
<1>2. f \in Surjection(S, T)
    BY DEF Surjection
<1>3. IsFiniteSet(T)
    BY <1>1, <1>2, FS_Surjection
<1>4. n \in Nat
    BY <1>3, FS_CardinalityType, Numbers
<1>5. q \in [1..n -> T]
    BY DEF TopMost
<1>6. T \subseteq Live
    BY DEF TypeInv, TablesTyped
<1> HIDE DEF T, n
<1>q. QED
    BY <1>4, <1>5, <1>6 DEF T

-----------------------------------------------------------------------------
(* What a run does with its first row, whichever step it is.                  *)

Same(row, other) ==
    row.slot = other.slot /\ row.version = other.version /\ row.timing = other.timing

(* A row made of the first one: what it claims, that one claimed, or it has   *)
(* just become true.                                                          *)
Derived(p, row) ==
    LET h == Head(todo[p]) IN
    /\ Same(row, h)
    /\ row.confirmed => h.confirmed \/ prior[h.slot] = "success"
    /\ row.broadcasted => h.broadcasted \/ pc[p] = "finish"
    /\ row.finalized => h.finalized

(* Its time has come, and what it waits for has.                              *)
Ripe(row, time) == time >= Due(row) /\ (~Waits(row, time) \/ prior[row.slot] = "replaced")

(* What the run does to itself, ...                                           *)
Moves(p, row) ==
    \/ NextRow(p)
    \/ /\ pc[p] = "check" /\ row \in Live
       /\ \E label \in {"archive", "retry", "save", "decrypt"} :
             Continue(p, label, row) /\ (label = "decrypt" => Ripe(row, Timestamp(p)))
    \/ /\ pc[p] = "decrypt" /\ row = Head(todo[p])
       /\ Continue(p, "execute", row)
    \/ /\ pc[p] = "execute" /\ row = Head(todo[p])
       /\ Continue(p, "store", row) /\ taken[row.slot][index[p]] = 0
    \/ /\ row = Head(todo[p]) /\ NextExecution(p)
       /\ \/ pc[p] = "execute" /\ taken[row.slot][index[p]] # 0
          \/ pc[p] = "store" /\ Given(p)

(* ... to the tables and to the executor.                                     *)
Writes(row) == (row \in Live /\ Save(row)) \/ Archive(row) \/ UNCHANGED tables

Gives(p) == UNCHANGED taken \/ (pc[p] = "store" /\ Given(p))

Step(p, row) ==
    /\ pc[p] # "idle"
    /\ Derived(p, row) /\ Moves(p, row) /\ Writes(row) /\ Gives(p)
    /\ stamp' \in {stamp, [stamp EXCEPT ![p] = Timestamp(p)]}
    /\ Fault \/ UNCHANGED faults
    /\ UNCHANGED <<prior, priorTime, final, now, readings, history>>

Work(p) == ProcessExecution(p) \/ CheckFails(p) \/ BroadcastFails(p)

LEMMA CheckShape ==
    ASSUME TypeInv, NEW p \in Runs, CheckExecution(p)
    PROVE  \E row \in Row : Step(p, row)
<1> DEFINE h == Head(todo[p])
           time == Timestamp(p)
<1>1. /\ pc[p] = "check" /\ stamp' = [stamp EXCEPT ![p] = time]
      /\ UNCHANGED <<tables, env, readings, faults, history>>
    BY DEF CheckExecution
<1>2. h \in Live /\ h \in Row
    BY <1>1, AtHead
<1>3. time \in Nat /\ priorTime[h.slot] \in Nat /\ Target(h) \in Nat
  <2>1. h.slot \in Slots /\ h.timing \in Request
      BY <1>2 DEF Row
  <2>2. h.timing.target \in Nat
      BY <2>1, TimesAssumption DEF Request
  <2>q. QED
      BY <2>1, <2>2 DEF Timestamp, TypeInv, RunsTyped, EnvTyped, Target
<1>4. ASSUME NEW row \in Live, Derived(p, row), Moves(p, row) PROVE \E r \in Row : Step(p, r)
  <2>1. row \in Row
      BY DEF Live
  <2>q. QED
      BY <1>1, <1>4, <2>1 DEF Step, Writes, Gives, env
<1>5. ASSUME NEW row \in Live, Derived(p, row), NEW changed, Decide(p, row, time, changed),
             ~Waits(row, time) \/ prior[row.slot] = "replaced"
      PROVE  \E r \in Row : Step(p, r)
  <2>1. CASE Continue(p, "archive", row) \/ Continue(p, "save", row)
      BY <1>1, <1>4, <1>5, <2>1 DEF Moves
  <2>2. CASE Continue(p, "decrypt", row) /\ time >= Due(row)
    <3>1. Ripe(row, time)
        BY <1>5, <2>2 DEF Ripe
    <3>q. QED
        BY <1>1, <1>4, <1>5, <2>2, <3>1 DEF Moves
  <2>3. CASE NextRow(p)
      BY <1>4, <1>5, <2>3 DEF Moves
  <2>q. QED
      BY <1>5, <2>1, <2>2, <2>3 DEF Decide
<1>6. Derived(p, h)
    BY DEF Derived, Same
<1>7. ASSUME NEW checkin \in Nat
      PROVE  [h EXCEPT !.checkin = checkin] \in Live /\ Derived(p, [h EXCEPT !.checkin = checkin])
    BY <1>2 DEF Derived, Same, Live, Row
<1>8. CASE (~Waits(h, time) \/ prior[h.slot] = "replaced") /\ Decide(p, h, time, FALSE)
    BY <1>2, <1>5, <1>6, <1>8
<1>9. CASE prior[h.slot] = "success" /\ Decide(p, [h EXCEPT !.confirmed = TRUE], time, TRUE)
  <2> DEFINE row == [h EXCEPT !.confirmed = TRUE]
  <2>1. row \in Live /\ Derived(p, row) /\ row.confirmed
      BY <1>2, <1>9 DEF Derived, Same, Live, Row
  <2>2. ~Waits(row, time)
      BY <2>1 DEF Waits
  <2> HIDE DEF row
  <2>q. QED
      BY <1>5, <1>9, <2>1, <2>2 DEF row
<1>10. CASE Continue(p, "archive", h)
    BY <1>1, <1>2, <1>4, <1>6, <1>10 DEF Moves
<1>11. CASE Continue(p, "retry", [h EXCEPT !.checkin =
                     Delayed(h, IF prior[h.slot] = "mined" THEN priorTime[h.slot] ELSE time)])
  <2>1. Delayed(h, IF prior[h.slot] = "mined" THEN priorTime[h.slot] ELSE time) \in Nat
      BY <1>3, Numbers DEF Delayed
  <2>q. QED
      BY <1>1, <1>4, <1>7, <1>11, <2>1 DEF Moves
<1>q. QED
    BY <1>8, <1>9, <1>10, <1>11 DEF CheckExecution

LEMMA WorkShape ==
    ASSUME TypeInv, NEW p \in Runs, Work(p)
    PROVE  \E row \in Row : Step(p, row)
<1> DEFINE h == Head(todo[p])
<1>0. ASSUME pc[p] # "idle" PROVE h \in Live /\ h \in Row /\ Derived(p, h)
    BY <1>0, AtHead DEF Derived, Same
<1>1. CASE CheckExecution(p)
    BY <1>1, CheckShape
<1>2. CASE CheckFails(p)
    BY <1>0, <1>2 DEF CheckFails, Step, Moves, Writes, Gives, env
<1>3. CASE ArchiveExecution(p)
    BY <1>0, <1>3 DEF ArchiveExecution, Step, Moves, Writes, Gives, env
<1>4. CASE RetryLater(p)
  <2> DEFINE row == Retried(h)
  <2>1. h \in Live /\ h \in Row /\ row = [h EXCEPT !.retries = h.retries + 1] /\ pc[p] # "idle"
      BY <1>0, <1>4 DEF RetryLater, Retried
  <2>2. row \in Row /\ Derived(p, row) /\ row.retries = h.retries + 1
      BY <2>1, Numbers DEF Live, Row, Derived, Same
  <2>3. ~Exhausted(row) => row \in Live
      BY <2>2, Numbers DEF Live, Exhausted, Row
  <2>4. Writes(row)
      BY <1>4, <2>3 DEF RetryLater, Writes
  <2>q. QED
      BY <1>4, <2>1, <2>2, <2>4 DEF RetryLater, Step, Moves, Gives, env
<1>5. CASE SaveExecution(p)
    BY <1>0, <1>5 DEF SaveExecution, Step, Moves, Writes, Gives, env
<1>6. CASE Decrypt(p)
  <2>1. h \in Live /\ h \in Row /\ Derived(p, h) /\ pc[p] = "decrypt"
      BY <1>0, <1>6 DEF Decrypt
  <2>2. UNCHANGED <<env, stamp, readings, history>>
      BY <1>6 DEF Decrypt
  <2>3. CASE Continue(p, "execute", h) /\ UNCHANGED <<tables, faults>>
      BY <2>1, <2>2, <2>3 DEF Step, Moves, Writes, Gives, env
  <2>4. CASE Fault /\ NextRow(p) /\ UNCHANGED tables
      BY <2>1, <2>2, <2>4 DEF Step, Moves, Writes, Gives, env
  <2>5. ASSUME NEW later \in Times, Save([h EXCEPT !.checkin = later]),
               Fault, NextRow(p)
        PROVE  \E row \in Row : Step(p, row)
    <3> DEFINE row == [h EXCEPT !.checkin = later]
    <3>1. row \in Live /\ row \in Row /\ Derived(p, row)
      <4>1. later \in Nat
          BY TimesAssumption
      <4>q. QED
          BY <2>1, <4>1 DEF Live, Row, Derived, Same
    <3>q. QED
        BY <2>1, <2>2, <2>5, <3>1 DEF Step, Moves, Writes, Gives, env
  <2>q. QED
      BY <1>6, <2>3, <2>4, <2>5 DEF Decrypt
<1>7. CASE AskExecutor(p) \/ BroadcastExecution(p)
  <2>1. CASE AskExecutor(p)
      BY <1>0, <1>7, <2>1 DEF AskExecutor, Step, Moves, Writes, Gives, env
  <2>2. CASE BroadcastExecution(p)
      BY <1>0, <1>7, <2>2 DEF BroadcastExecution, Step, Moves, Writes, Gives
  <2>q. QED
      BY <1>7, <2>1, <2>2
<1>8. CASE SaveBroadcasted(p)
  <2> DEFINE row == [h EXCEPT !.broadcasted = TRUE]
  <2>1. row \in Live /\ row \in Row /\ Derived(p, row) /\ pc[p] # "idle"
      BY <1>0, <1>8 DEF SaveBroadcasted, Live, Row, Derived, Same
  <2>q. QED
      BY <1>8, <2>1 DEF SaveBroadcasted, Step, Moves, Writes, Gives, env
<1>9. CASE BroadcastFails(p)
    BY <1>0, <1>9 DEF BroadcastFails, Failed, Step, Moves, Writes, Gives
<1>q. QED
    BY <1>1, <1>2, <1>3, <1>4, <1>5, <1>6, <1>7, <1>8, <1>9 DEF Work, ProcessExecution

LEMMA MovesTypes ==
    ASSUME TypeInv, NEW p \in Runs, NEW row \in Row, Step(p, row)
    PROVE  RunsTyped'
<1>1. stamp' \in [Runs -> 0..MaxTime]
  <2>1. stamp \in [Runs -> 0..MaxTime] /\ now \in 1..MaxTime
      BY DEF TypeInv, RunsTyped, EnvTyped
  <2>2. Timestamp(p) \in 0..MaxTime
      BY <2>1 DEF Timestamp
  <2>q. QED
      BY <2>1, <2>2 DEF Step
<1>2. CASE NextRow(p)
    BY <1>1, <1>2, NextRowHolds DEF Step, RunsTyped
<1>3. Head(todo[p]) \in Live
    BY AtHead DEF Step
<1>4. ASSUME row \in Live, NEW label \in PCs, Continue(p, label, row)
      PROVE  RunsTyped'
    BY <1>1, <1>4, ContinueHolds DEF Step, RunsTyped
<1>5. CASE NextExecution(p) /\ row = Head(todo[p])
  <2>1. CASE More(index[p])
    <3>1. index[p] \in Batch /\ index[p] + 1 \in Batch
        BY <2>1, Numbers DEF TypeInv, RunsTyped, More, Batch
    <3>2. /\ index' = [index EXCEPT ![p] = @ + 1]
          /\ pc' = [pc EXCEPT ![p] = "execute"] /\ UNCHANGED todo
        BY <1>5, <2>1 DEF NextExecution
    <3>3. pc[p] # "idle"
        BY DEF Step
    <3>q. QED
        BY <1>1, <3>1, <3>2, <3>3 DEF TypeInv, RunsTyped, PCs
  <2>2. CASE ~More(index[p])
      BY <1>3, <1>4, <1>5, <2>2 DEF NextExecution, PCs
  <2>q. QED
      BY <2>1, <2>2
<1>q. QED
    BY <1>2, <1>3, <1>4, <1>5 DEF Step, Moves, PCs

LEMMA GivesTypes ==
    ASSUME TypeInv, NEW p \in Runs, NEW row \in Row, Step(p, row)
    PROVE  taken' \in [Slots -> [Batch -> 0..MaxVersions]]
<1> DEFINE h == Head(todo[p])
<1>1. h \in Row
    BY AtHead DEF Step
<1>2. h.slot \in Slots /\ h.version \in 1..MaxVersions
    BY <1>1 DEF Row
<1>3. h.version \in 0..MaxVersions
    BY <1>2
<1>4. index[p] \in Batch /\ taken \in [Slots -> [Batch -> 0..MaxVersions]]
    BY DEF TypeInv, RunsTyped, EnvTyped
<1>q. QED
    BY <1>2, <1>3, <1>4 DEF Step, Gives, Given

LEMMA GivesKeep ==
    ASSUME TypeInv, NEW p \in Runs, NEW row \in Row, Step(p, row)
    PROVE  \A s \in Slots, i \in Batch : taken[s][i] # 0 => taken'[s][i] # 0
<1> DEFINE h == Head(todo[p])
<1>1. h \in Row
    BY AtHead DEF Step
<1>2. h.slot \in Slots /\ h.version \in 1..MaxVersions
    BY <1>1 DEF Row
<1>3. h.version # 0
    BY <1>2, Numbers
<1>4. index[p] \in Batch /\ taken \in [Slots -> [Batch -> 0..MaxVersions]]
    BY DEF TypeInv, RunsTyped, EnvTyped
<1>q. QED
    BY <1>2, <1>3, <1>4 DEF Step, Gives, Given

LEMMA TypeInvNext == TypeInv /\ [Next]_vars => TypeInv'
<1> SUFFICES ASSUME TypeInv, [Next]_vars PROVE TypeInv'
    OBVIOUS
<1>0. TablesTyped /\ RunsTyped /\ EnvTyped /\ RestTyped
    BY DEF TypeInv
<1>a. UNCHANGED tables => TablesTyped'
    BY <1>0 DEF TablesTyped, tables
<1>b. UNCHANGED run => RunsTyped'
    BY <1>0 DEF RunsTyped, run
<1>c. UNCHANGED env => EnvTyped'
    BY <1>0 DEF EnvTyped, env
<1>d. ASSUME UNCHANGED <<asked, raced, reopened>>, checking' \subseteq Live,
             admin' \subseteq Live, deleted' \subseteq Slots, Fault \/ UNCHANGED faults
      PROVE  RestTyped'
    BY <1>0, <1>d, FaultTypes DEF RestTyped
<1>e. checking \subseteq Live /\ admin \subseteq Live /\ deleted \subseteq Slots
    BY <1>0 DEF RestTyped
<1> HIDE DEF TypeInv
<1>1. ASSUME NEW s \in Slots, NEW kind \in Kinds, NEW at \in Times, NEW target \in Targets,
             ScheduleExecution(s, kind, at, target)
      PROVE  TypeInv'
  <2> DEFINE request == [kind |-> kind, at |-> at, target |-> target]
             row == [slot |-> s, version |-> Len(asked[s]) + 1, timing |-> request,
                     checkin |-> at, confirmed |-> FALSE, retries |-> 0,
                     broadcasted |-> FALSE, finalized |-> FALSE]
  <2>1. asked[s] \in Seq(Request) /\ Len(asked[s]) \in Nat /\ Len(asked[s]) < MaxVersions
      BY <1>0, <1>1 DEF RestTyped, ScheduleExecution
  <2>2. row \in Live
    <3>1. request \in Request /\ at \in Nat
        BY TimesAssumption DEF Request
    <3> HIDE DEF request
    <3>q. QED
        BY <2>1, <3>1, Numbers DEF Live, Row
  <2>3. Save(row)
      BY <1>1 DEF ScheduleExecution
  <2>4. TablesTyped'
      BY <2>2, <2>3, SaveTypes
  <2>5. request \in Request
      BY TimesAssumption DEF Request
  <2>6. Append(asked[s], request) \in Seq(Request)
      BY <2>1, <2>5
  <2>7. asked' = [asked EXCEPT ![s] = Append(asked[s], request)]
      BY <1>1 DEF ScheduleExecution
  <2>8. asked' \in [Slots -> Seq(Request)]
      BY <1>0, <2>6, <2>7 DEF RestTyped
  <2>9. /\ raced' \subseteq Slots /\ deleted' \subseteq Slots /\ reopened' \subseteq Slots
        /\ UNCHANGED <<env, run, checking, admin, faults>>
      BY <1>0, <1>1 DEF RestTyped, ScheduleExecution, readings
  <2>q. QED
      BY <1>0, <1>b, <1>c, <2>4, <2>8, <2>9 DEF TypeInv, RestTyped
<1>2. ASSUME NEW p \in Runs, GetQueueTopMostExecutions(p)
      PROVE  TypeInv'
  <2> DEFINE S == {s \in Slots : Queued(s)}
  <2>1. PICK q \in TopMost({rows[s] : s \in S}) :
            q # <<>> /\ todo' = [todo EXCEPT ![p] = q]
      BY <1>2 DEF GetQueueTopMostExecutions
  <2>2. q \in Seq(Live)
      BY <2>1, TopMostRows DEF Queued
  <2>3. RunsTyped'
      BY <1>0, <1>2, <2>1, <2>2, Numbers DEF RunsTyped, GetQueueTopMostExecutions, PCs, NoTime
  <2>q. QED
      BY <1>2, <1>a, <1>c, <1>d, <1>e, <2>3 DEF TypeInv, GetQueueTopMostExecutions, readings, history
<1>3. ASSUME NEW p \in Runs, Work(p)
      PROVE  TypeInv'
  <2>1. PICK row \in Row : Step(p, row)
      BY <1>3, WorkShape
  <2>2. TablesTyped'
      BY <1>a, <2>1, SaveTypes, ArchiveTypes DEF Step, Writes
  <2>3. EnvTyped'
    <3>1. \A s \in Slots, i \in Batch : taken[s][i] # 0 => taken'[s][i] # 0
        BY <2>1, GivesKeep
    <3>q. QED
        BY <1>0, <2>1, <3>1, GivesTypes DEF Step, EnvTyped
  <2>4. RestTyped'
      BY <1>d, <1>e, <2>1 DEF Step, readings, history
  <2>q. QED
      BY <2>1, <2>2, <2>3, <2>4, MovesTypes DEF TypeInv
<1>4. ASSUME NEW p \in Runs, Crash(p)
      PROVE  TypeInv'
  <2>1. RunsTyped'
      BY <1>0, <1>4, Numbers, EmptySeq DEF RunsTyped, Crash, PCs, Batch
  <2>q. QED
      BY <1>4, <1>a, <1>c, <1>d, <1>e, <2>1 DEF TypeInv, Crash, readings, history
<1>5. CASE GetUnFinalized
  <2> DEFINE S == {s \in Slots : rows[s] # NoRow /\ rows[s].broadcasted /\ ~rows[s].finalized}
  <2>1. PICK q \in TopMost({rows[s] : s \in S}) : checking' = {q[i] : i \in DOMAIN q}
      BY <1>5 DEF GetUnFinalized
  <2>2. q \in Seq(Live)
      BY <2>1, TopMostRows
  <2>3. checking' \subseteq Live
      BY <2>1, <2>2
  <2>q. QED
      BY <1>5, <1>a, <1>b, <1>c, <1>d, <1>e, <2>3 DEF TypeInv, GetUnFinalized, history
<1>6. CASE CheckStatus
  <2>1. PICK row \in checking :
            /\ IF Finalized(row.slot) THEN Save([row EXCEPT !.finalized = TRUE])
               ELSE UNCHANGED tables
            /\ checking' = checking \ {row}
      BY <1>6 DEF CheckStatus
  <2>2. [row EXCEPT !.finalized = TRUE] \in Live
      BY <1>e, <2>1 DEF Live, Row
  <2>3. TablesTyped'
      BY <1>a, <2>1, <2>2, SaveTypes
  <2>q. QED
      BY <1>6, <1>b, <1>c, <1>d, <1>e, <2>1, <2>3 DEF TypeInv, CheckStatus, history
<1>7. CASE CheckStatusFails
    BY <1>7, <1>a, <1>b, <1>c, <1>d, <1>e DEF TypeInv, CheckStatusFails, history
<1>8. CASE ArchiveSubmission
  <2>1. PICK row \in admin : Archive(row) /\ admin' = admin \ {row}
      BY <1>8 DEF ArchiveSubmission
  <2>2. row \in Row
      BY <1>e, <2>1 DEF Live
  <2>3. TablesTyped'
      BY <2>1, <2>2, ArchiveTypes
  <2>q. QED
      BY <1>8, <1>b, <1>c, <1>d, <1>e, <2>1, <2>3 DEF TypeInv, ArchiveSubmission, history
<1>14. ASSUME NEW s \in Slots, GetQueuedExecution(s)
       PROVE  TypeInv'
  <2>1. admin' \subseteq Live
      BY <1>0, <1>14, <1>e DEF GetQueuedExecution, TablesTyped
  <2>q. QED
      BY <1>14, <1>a, <1>b, <1>c, <1>d, <1>e, <2>1 DEF TypeInv, GetQueuedExecution, history
<1>9. ASSUME NEW s \in Slots, DeleteFinalized(s)
      PROVE  TypeInv'
  <2>1. TablesTyped'
      BY <1>0, <1>9 DEF DeleteFinalized, TablesTyped
  <2>q. QED
      BY <1>9, <1>b, <1>c, <1>d, <1>e, <2>1 DEF TypeInv, DeleteFinalized, readings
<1>10. CASE Tick
  <2>1. EnvTyped'
      BY <1>0, <1>10, Numbers DEF EnvTyped, Tick
  <2>q. QED
      BY <1>10, <1>a, <1>b, <1>d, <1>e, <2>1 DEF TypeInv, Tick, readings, history
<1>11. ASSUME NEW s \in Slots, PriorAdvances(s)
       PROVE  TypeInv'
  <2>1. EnvTyped'
    <3>1. prior' \in [Slots -> States]
        BY <1>0, <1>11 DEF EnvTyped, PriorAdvances, States
    <3>2. now \in Nat
        BY <1>0, Numbers DEF EnvTyped
    <3>3. priorTime' \in [Slots -> Nat]
        BY <1>0, <1>11, <3>2 DEF EnvTyped, PriorAdvances
    <3>4. UNCHANGED <<taken, final, now>>
        BY <1>11 DEF PriorAdvances
    <3>q. QED
        BY <1>0, <3>1, <3>3, <3>4 DEF EnvTyped
  <2>q. QED
      BY <1>11, <1>a, <1>b, <1>d, <1>e, <2>1 DEF TypeInv, PriorAdvances, readings, history
<1>12. ASSUME NEW s \in Slots, NEW i \in Batch, ExecutorFinalizes(s, i)
       PROVE  TypeInv'
  <2>1. EnvTyped'
      BY <1>0, <1>12 DEF EnvTyped, ExecutorFinalizes
  <2>q. QED
      BY <1>12, <1>a, <1>b, <1>d, <1>e, <2>1 DEF TypeInv, ExecutorFinalizes, readings, history
<1>13. CASE UNCHANGED vars
    BY <1>13, <1>a, <1>b, <1>c, <1>d, <1>e DEF TypeInv, vars, readings, history
<1>q. QED
    BY <1>1, <1>2, <1>3, <1>4, <1>5, <1>6, <1>7, <1>8, <1>9, <1>10, <1>11, <1>12, <1>13,
       <1>14
    DEF Next, Schedule, Work

(* The tables, the runs and the environment keep their types.                 *)
THEOREM SchedulerTypeCorrect == Spec => []TypeOK
<1>q. QED
    BY TypeInvInit, TypeInvNext, TypeInvTypes, PTL DEF Spec

-----------------------------------------------------------------------------
(* What rows claim, and why it stays true.                                    *)

(* A row in the queue, or in the hands of a process.                          *)
InPlay(row) ==
    \/ \E s \in Slots : rows[s] = row /\ row # NoRow
    \/ \E p \in Runs : row \in Held(p)
    \/ row \in checking \cup admin

Sound(row) ==
    /\ row.version <= Len(asked[row.slot])
    /\ row.timing = asked[row.slot][row.version]
    /\ row.confirmed => prior[row.slot] = "success"
    /\ row.broadcasted => \A i \in Batch : taken[row.slot][i] # 0
    /\ row.finalized => \A i \in Batch : <<row.slot, i>> \in final

Sounds == \A row \in Row : InPlay(row) => Sound(row)
StatusOfBroadcasted == \A row \in checking : row.broadcasted

(* What a run has established about its first row when it comes to a point.   *)
Place(p) ==
    LET h == Head(todo[p]) IN
    /\ stamp[p] <= now
    /\ pc[p] \notin {"execute", "store", "finish"} => index[p] = 1
    /\ pc[p] \in {"execute", "store"} => \A i \in Batch : i < index[p] => taken[h.slot][i] # 0
    /\ pc[p] = "finish" => \A i \in Batch : taken[h.slot][i] # 0
    /\ pc[p] \in {"decrypt", "execute", "store"} => Allowed(h.slot, h.timing)

Placed == \A p \in Runs : Place(p)

QueueInv == TypeInv /\ Sounds /\ StatusOfBroadcasted /\ Placed

(* Time, the chain and the executor only go on, and no submission is forgotten. *)
Advances ==
    /\ \A s \in Slots : /\ Len(asked[s]) <= Len(asked'[s])
                        /\ \A v \in 1..Len(asked[s]) : asked'[s][v] = asked[s][v]
    /\ \A s \in Slots : prior[s] \in {"success", "replaced"}
                           => prior'[s] = prior[s] /\ priorTime'[s] = priorTime[s]
    /\ now <= now'
    /\ \A s \in Slots, i \in Batch : taken[s][i] # 0 => taken'[s][i] # 0
    /\ final \subseteq final'

LEMMA Taken ==
    ASSUME TypeInv, NEW p \in Runs, pc[p] # "idle", Given(p)
    PROVE  LET h == Head(todo[p]) IN
           /\ h.slot \in Slots /\ h.version \in 1..MaxVersions /\ index[p] \in Batch
           /\ taken'[h.slot][index[p]] # 0
           /\ \A s \in Slots, i \in Batch :
                 taken'[s][i] = IF s = h.slot /\ i = index[p] /\ <<s, i>> \notin final
                                THEN h.version ELSE taken[s][i]
<1> DEFINE h == Head(todo[p])
<1>1. h.slot \in Slots /\ h.version \in 1..MaxVersions
    BY AtHead DEF Row
<1>2. /\ index[p] \in Batch /\ taken \in [Slots -> [Batch -> 0..MaxVersions]]
      /\ \A s \in Slots, i \in Batch : <<s, i>> \in final => taken[s][i] # 0
    BY DEF TypeInv, RunsTyped, EnvTyped
<1>3. taken' = IF <<h.slot, index[p]>> \in final THEN taken
               ELSE [taken EXCEPT ![h.slot][index[p]] = h.version]
    BY DEF Given
<1> HIDE DEF h
<1>4. \A s \in Slots, i \in Batch :
         taken'[s][i] = IF s = h.slot /\ i = index[p] /\ <<s, i>> \notin final
                        THEN h.version ELSE taken[s][i]
    BY <1>1, <1>2, <1>3
<1>5. <<h.slot, index[p]>> \in final => taken[h.slot][index[p]] # 0
    BY <1>1, <1>2
<1>6. taken'[h.slot][index[p]] # 0
    BY <1>1, <1>2, <1>4, <1>5, Numbers
<1>q. QED
    BY <1>1, <1>2, <1>4, <1>6 DEF h

LEMMA Advance ==
    ASSUME TypeInv, [Next]_vars
    PROVE  Advances
<1>0. asked \in [Slots -> Seq(Request)] /\ now \in Nat /\ final \subseteq Slots \X Batch
      /\ taken \in [Slots -> [Batch -> 0..MaxVersions]]
    BY DEF TypeInv, RestTyped, EnvTyped
<1>a. \A s \in Slots : Len(asked[s]) \in Nat
    BY <1>0
<1>b. ASSUME UNCHANGED <<asked, env>> PROVE Advances
    BY <1>0, <1>a, <1>b DEF Advances, env
<1>c. ASSUME UNCHANGED <<asked, prior, priorTime, final, now>>,
             \A s \in Slots, i \in Batch : taken[s][i] # 0 => taken'[s][i] # 0
      PROVE  Advances
    BY <1>0, <1>a, <1>c DEF Advances
<1>1. ASSUME NEW s \in Slots, NEW kind \in Kinds, NEW at \in Times, NEW target \in Targets,
             ScheduleExecution(s, kind, at, target)
      PROVE  Advances
  <2> DEFINE request == [kind |-> kind, at |-> at, target |-> target]
  <2>1. request \in Request
      BY TimesAssumption DEF Request
  <2>2. asked' = [asked EXCEPT ![s] = Append(asked[s], request)] /\ UNCHANGED env
      BY <1>1 DEF ScheduleExecution
  <2> HIDE DEF request
  <2>3. /\ Len(Append(asked[s], request)) = Len(asked[s]) + 1
        /\ \A v \in 1..Len(asked[s]) : Append(asked[s], request)[v] = asked[s][v]
      BY <1>0, <2>1
  <2>4. \A t \in Slots : asked'[t] = IF t = s THEN Append(asked[s], request) ELSE asked[t]
      BY <1>0, <2>2
  <2>5. ASSUME NEW t \in Slots
        PROVE  /\ Len(asked[t]) <= Len(asked'[t])
               /\ \A v \in 1..Len(asked[t]) : asked'[t][v] = asked[t][v]
    <3>1. CASE t = s
      <4>1. asked'[t] = Append(asked[s], request)
          BY <2>4, <3>1
      <4>q. QED
          BY <1>a, <2>3, <3>1, <4>1
    <3>2. CASE t # s
      <4>1. asked'[t] = asked[t]
          BY <2>4, <3>2
      <4>q. QED
          BY <1>a, <4>1
    <3>q. QED
        BY <3>1, <3>2
  <2>q. QED
      BY <1>0, <2>2, <2>5 DEF Advances, env
<1>2. ASSUME NEW p \in Runs, Work(p)
      PROVE  Advances
  <2>1. PICK row \in Row : Step(p, row)
      BY <1>2, WorkShape
  <2>2. \A s \in Slots, i \in Batch : taken[s][i] # 0 => taken'[s][i] # 0
      BY <2>1, GivesKeep
  <2>q. QED
      BY <1>c, <2>1, <2>2 DEF Step, history
<1>3. CASE Tick
    BY <1>0, <1>3, <1>a DEF Advances, Tick, history
<1>4. ASSUME NEW s \in Slots, PriorAdvances(s)
      PROVE  Advances
  <2>1. prior \in [Slots -> States] /\ priorTime \in [Slots -> Nat]
      BY DEF TypeInv, EnvTyped
  <2>2. \A t \in Slots : prior[t] \in {"success", "replaced"}
                            => prior'[t] = prior[t] /\ priorTime'[t] = priorTime[t]
      BY <1>4, <2>1 DEF PriorAdvances
  <2>q. QED
      BY <1>0, <1>4, <1>a, <2>2 DEF Advances, PriorAdvances, history
<1>5. ASSUME NEW s \in Slots, NEW i \in Batch, ExecutorFinalizes(s, i)
      PROVE  Advances
    BY <1>0, <1>5, <1>a DEF Advances, ExecutorFinalizes, history
<1>6. CASE \/ \E p \in Runs : GetQueueTopMostExecutions(p) \/ Crash(p)
           \/ GetUnFinalized \/ CheckStatus \/ CheckStatusFails
           \/ ArchiveSubmission \/ \E s \in Slots : GetQueuedExecution(s) \/ DeleteFinalized(s)
           \/ UNCHANGED vars
    BY <1>6, <1>b DEF GetQueueTopMostExecutions, Crash, GetUnFinalized, CheckStatus,
                      CheckStatusFails, GetQueuedExecution, ArchiveSubmission,
                      DeleteFinalized, vars, history
<1>q. QED
    BY <1>1, <1>2, <1>3, <1>4, <1>5, <1>6 DEF Next, Schedule, Work

LEMMA SoundStays ==
    ASSUME TypeInv, Advances, NEW row \in Row, Sound(row), TypeInv'
    PROVE  Sound(row)'
<1>1. row.slot \in Slots /\ row.version \in 1..MaxVersions
    BY Numbers DEF Row
<1>2. Len(asked[row.slot]) \in Nat /\ Len(asked'[row.slot]) \in Nat
    BY <1>1 DEF TypeInv, RestTyped
<1>3. row.version \in 1..Len(asked[row.slot]) /\ row.timing = asked[row.slot][row.version]
    BY <1>1, <1>2, Numbers DEF Sound
<1>4. row.version <= Len(asked'[row.slot]) /\ row.timing = asked'[row.slot][row.version]
    BY <1>1, <1>2, <1>3 DEF Advances
<1>q. QED
    BY <1>1, <1>4 DEF Sound, Advances

(* What was allowed stays allowed.                                            *)
LEMMA AllowedStays ==
    ASSUME TypeInv, TypeInv', Advances, NEW row \in Row, Allowed(row.slot, row.timing)
    PROVE  Allowed(row.slot, row.timing)'
<1>1. PICK request \in Request : request = row.timing
    BY DEF Row
<1>2. row.slot \in Slots
    BY DEF Row
<1>3. request.kind \in {"fixed", "assumed", "delta"} /\ request.at \in Nat
      /\ request.target \in Nat
    BY KindsAssumption, TimesAssumption DEF Request
<1>4. /\ now \in Nat /\ now' \in Nat /\ now <= now'
      /\ priorTime[row.slot] \in Nat /\ priorTime'[row.slot] \in Nat
      /\ prior[row.slot] \in {"success", "replaced"} =>
            prior'[row.slot] = prior[row.slot] /\ priorTime'[row.slot] = priorTime[row.slot]
    BY <1>2 DEF TypeInv, EnvTyped, Advances
<1>5. Allowed(row.slot, request)
    BY <1>1
<1>6. Allowed(row.slot, request)'
  <2>1. CASE request.kind = "fixed"
      BY <1>3, <1>4, <1>5, <2>1 DEF Allowed
  <2>2. CASE request.kind = "assumed"
      BY <1>3, <1>4, <1>5, <2>2 DEF Allowed
  <2>3. CASE request.kind = "delta"
    <3>1. \/ /\ prior[row.slot] = "success"
             /\ now >= priorTime[row.slot] + Delta /\ now >= request.target
          \/ prior[row.slot] = "replaced" /\ now >= request.at
        BY <1>5, <2>3 DEF Allowed
    <3>2. \/ /\ prior'[row.slot] = "success"
             /\ now' >= priorTime'[row.slot] + Delta /\ now' >= request.target
          \/ prior'[row.slot] = "replaced" /\ now' >= request.at
        BY <1>3, <1>4, <3>1, Numbers
    <3>q. QED
        BY <2>3, <3>2 DEF Allowed
  <2>q. QED
      BY <1>3, <2>1, <2>2, <2>3
<1>q. QED
    BY <1>1, <1>6

-----------------------------------------------------------------------------
(* A step makes rows of those in play, and a user makes a new one.            *)

LEMMA HeadInPlay ==
    ASSUME TypeInv, NEW p \in Runs, pc[p] # "idle"
    PROVE  Head(todo[p]) \in Row /\ InPlay(Head(todo[p]))
BY AtHead DEF InPlay

(* What a run makes of its first row is true.                                 *)
LEMMA DerivedSound ==
    ASSUME QueueInv, Advances, NEW p \in Runs, NEW row \in Row, Step(p, row)
    PROVE  Sound(row)'
<1> DEFINE h == Head(todo[p])
<1>1. h \in Row /\ InPlay(h) /\ Sound(h) /\ pc[p] # "idle"
    BY HeadInPlay DEF QueueInv, Sounds, Step
<1>2. h.slot \in Slots /\ h.version \in Nat
    BY <1>1, Numbers DEF Row
<1>3. /\ row.slot = h.slot /\ row.version = h.version /\ row.timing = h.timing
      /\ row.confirmed => h.confirmed \/ prior[h.slot] = "success"
      /\ row.broadcasted => h.broadcasted \/ pc[p] = "finish"
      /\ row.finalized => h.finalized
    BY DEF Step, Derived, Same
<1>4. pc[p] = "finish" => \A i \in Batch : taken[h.slot][i] # 0
    BY DEF QueueInv, Placed, Place
<1>5. Len(asked[h.slot]) \in Nat /\ asked' = asked /\ prior' = prior /\ final' = final
    BY <1>2 DEF QueueInv, TypeInv, RestTyped, Step, history
<1> HIDE DEF h
<1>6. \A i \in Batch : taken[h.slot][i] # 0 => taken'[h.slot][i] # 0
    BY <1>2 DEF Advances
<1>7. row.broadcasted => \A i \in Batch : taken'[row.slot][i] # 0
    BY <1>1, <1>3, <1>4, <1>6 DEF Sound
<1>8. /\ row.version <= Len(asked[row.slot])
      /\ row.timing = asked[row.slot][row.version]
      /\ row.confirmed => prior[row.slot] = "success"
      /\ row.finalized => \A i \in Batch : <<row.slot, i>> \in final
    BY <1>1, <1>3 DEF Sound
<1>q. QED
    BY <1>5, <1>7, <1>8 DEF Sound

LEMMA StepPlay ==
    ASSUME TypeInv, NEW p \in Runs, NEW made \in Row, Step(p, made),
           NEW row \in Row, InPlay(row)'
    PROVE  InPlay(row) \/ row = made
<1>1. CASE \E s \in Slots : rows'[s] = row /\ row # NoRow
  <2>1. PICK s \in Slots : rows'[s] = row /\ row # NoRow
      BY <1>1
  <2>2. rows[s] = row \/ row = made
      BY <2>1 DEF Step, Writes, Save, Archive, tables, TypeInv, TablesTyped
  <2>q. QED
      BY <2>1, <2>2 DEF InPlay
<1>2. CASE \E q \in Runs : row \in Held(q)'
  <2>1. PICK q \in Runs : row \in Held(q)'
      BY <1>2
  <2>2. CASE NextRow(p)
      BY <2>1, <2>2, NextRowHolds DEF Step, InPlay
  <2>3. ASSUME made \in Live, NEW label \in PCs, Continue(p, label, made)
        PROVE  InPlay(row) \/ row = made
      BY <2>1, <2>3, ContinueHolds DEF Step, InPlay
  <2>4. CASE UNCHANGED todo
      BY <2>1, <2>4 DEF Held, InPlay
  <2>5. Head(todo[p]) \in Live
      BY AtHead DEF Step
  <2>6. CASE NextExecution(p) /\ made = Head(todo[p])
      BY <2>3, <2>4, <2>5, <2>6 DEF NextExecution, PCs
  <2>q. QED
      BY <2>2, <2>3, <2>5, <2>6 DEF Step, Moves, PCs
<1>3. CASE row \in (checking \cup admin)'
    BY <1>3 DEF Step, InPlay, readings
<1>q. QED
    BY <1>1, <1>2, <1>3 DEF InPlay

Scheduled(row) ==
    /\ row.version = Len(asked'[row.slot]) /\ row.timing = asked'[row.slot][row.version]
    /\ ~row.confirmed /\ ~row.broadcasted /\ ~row.finalized

FromPlay(row) ==
    \E old \in Row : InPlay(old) /\ Same(row, old) /\ (row = old \/ Sound(row)')

LEMMA PlayNext ==
    ASSUME QueueInv, [Next]_vars, NEW row \in Row, InPlay(row)'
    PROVE  FromPlay(row) \/ Scheduled(row)
<1>0. TypeInv /\ TypeInv' /\ Advances
    BY TypeInvNext, Advance DEF QueueInv
<1>a. ASSUME InPlay(row) PROVE FromPlay(row)
    BY <1>a DEF FromPlay, Same
<1>b. ASSUME UNCHANGED todo, checking' \cup admin' \subseteq checking \cup admin,
             \A s \in Slots : rows'[s] \in {rows[s], NoRow}
      PROVE  InPlay(row)
    BY <1>b DEF InPlay, Held
<1>1. ASSUME NEW s \in Slots, NEW kind \in Kinds, NEW at \in Times, NEW target \in Targets,
             ScheduleExecution(s, kind, at, target)
      PROVE  FromPlay(row) \/ Scheduled(row)
  <2> DEFINE request == [kind |-> kind, at |-> at, target |-> target]
             new == [slot |-> s, version |-> Len(asked[s]) + 1, timing |-> request,
                     checkin |-> at, confirmed |-> FALSE, retries |-> 0,
                     broadcasted |-> FALSE, finalized |-> FALSE]
  <2>1. rows' = [rows EXCEPT ![s] = new] /\ UNCHANGED <<todo, checking, admin>>
        /\ asked' = [asked EXCEPT ![s] = Append(asked[s], request)]
      BY <1>1 DEF ScheduleExecution, Save, run, readings
  <2>2. request \in Request /\ asked \in [Slots -> Seq(Request)]
    <3>1. request \in Request
        BY TimesAssumption DEF Request
    <3>q. QED
        BY <1>0, <3>1 DEF TypeInv, RestTyped
  <2>3. Len(asked'[s]) = Len(asked[s]) + 1 /\ asked'[s][Len(asked[s]) + 1] = request
    <3> HIDE DEF request
    <3>q. QED
        BY <2>1, <2>2
  <2>4. new.slot = s /\ Scheduled(new)
      BY <2>3 DEF Scheduled
  <2> HIDE DEF new
  <2>5. InPlay(row) \/ row = new
      BY <1>0, <2>1 DEF InPlay, Held, TypeInv, TablesTyped
  <2>q. QED
      BY <1>a, <2>4, <2>5
<1>2. ASSUME NEW p \in Runs, GetQueueTopMostExecutions(p)
      PROVE  InPlay(row)
  <2> DEFINE S == {s \in Slots : Queued(s)}
  <2>1. PICK q \in TopMost({rows[s] : s \in S}) :
            q # <<>> /\ todo' = [todo EXCEPT ![p] = q]
      BY <1>2 DEF GetQueueTopMostExecutions
  <2>2. q \in Seq({rows[s] : s \in S})
      BY <1>0, <2>1, TopMostRows DEF Queued
  <2>3. \A i \in DOMAIN q : \E s \in Slots : q[i] = rows[s] /\ rows[s] # NoRow
    <3> DEFINE T == {rows[s] : s \in S}
    <3>1. \A i \in DOMAIN q : q[i] \in T
      <4> HIDE DEF T
      <4>q. QED
          BY <2>2 DEF T
    <3>q. QED
        BY <3>1 DEF Queued
  <2>4. \A r \in Runs : Held(r)' \subseteq Held(r) \cup {q[i] : i \in DOMAIN q}
      BY <1>0, <2>1 DEF Held, TypeInv, RunsTyped
  <2>q. QED
      BY <1>2, <2>3, <2>4 DEF GetQueueTopMostExecutions, InPlay, tables, readings
<1>3. ASSUME NEW p \in Runs, Work(p)
      PROVE  FromPlay(row)
  <2>1. PICK made \in Row : Step(p, made)
      BY <1>0, <1>3, WorkShape
  <2>2. CASE row = made
    <3>1. Sound(row)'
        BY <1>0, <2>1, <2>2, DerivedSound
    <3>2. Head(todo[p]) \in Row /\ InPlay(Head(todo[p])) /\ Same(row, Head(todo[p]))
        BY <1>0, <2>1, <2>2, HeadInPlay DEF Step, Derived
    <3>q. QED
        BY <3>1, <3>2 DEF FromPlay
  <2>q. QED
      BY <1>0, <1>a, <2>1, <2>2, StepPlay
<1>4. ASSUME NEW p \in Runs, Crash(p)
      PROVE  InPlay(row)
  <2>1. \A r \in Runs : Held(r)' \subseteq Held(r)
      BY <1>0, <1>4, EmptySeq DEF Held, TypeInv, RunsTyped, Crash
  <2>q. QED
      BY <1>4, <2>1 DEF Crash, InPlay, tables, readings
<1>5. ASSUME GetUnFinalized
      PROVE  InPlay(row)
  <2> DEFINE S == {s \in Slots : rows[s] # NoRow /\ rows[s].broadcasted /\ ~rows[s].finalized}
             T == {rows[s] : s \in S}
  <2>1. PICK q \in TopMost(T) : checking' = {q[i] : i \in DOMAIN q}
      BY <1>5 DEF GetUnFinalized
  <2>2. q \in Seq(T)
      BY <1>0, <2>1, TopMostRows
  <2>3. checking' \subseteq T
    <3> HIDE DEF T
    <3>q. QED
        BY <2>1, <2>2
  <2>4. row \in checking' => InPlay(row)
      BY <2>3 DEF InPlay
  <2>q. QED
      BY <1>5, <2>4 DEF GetUnFinalized, InPlay, Held, tables, run
<1>6. CASE CheckStatus
  <2>1. PICK old \in checking :
            /\ IF Finalized(old.slot) THEN Save([old EXCEPT !.finalized = TRUE])
               ELSE UNCHANGED tables
            /\ checking' = checking \ {old}
      BY <1>6 DEF CheckStatus
  <2> DEFINE new == [old EXCEPT !.finalized = TRUE]
  <2>2. old \in Row /\ InPlay(old) /\ Sound(old) /\ old.broadcasted
      BY <1>0, <2>1 DEF QueueInv, Sounds, StatusOfBroadcasted, InPlay, TypeInv, RestTyped, Live
  <2>3. /\ new.slot = old.slot /\ new.version = old.version /\ new.timing = old.timing
        /\ new.confirmed = old.confirmed
        /\ new.broadcasted = old.broadcasted /\ new \in Row /\ Same(new, old)
        /\ old.slot \in Slots
      BY <2>2 DEF Row, Same
  <2> HIDE DEF new
  <2>4. UNCHANGED <<env, run, admin, history>>
      BY <1>6 DEF CheckStatus
  <2>5. ASSUME Finalized(old.slot) PROVE Sound(new)'
    <3>1. \A i \in Batch : <<old.slot, i>> \in final
        BY <2>2, <2>5 DEF Sound, Finalized
    <3>q. QED
        BY <2>2, <2>3, <2>4, <3>1 DEF Sound, env, history
  <2>6. InPlay(row) \/ (row = new /\ Finalized(old.slot))
    <3>1. \A s \in Slots : \/ rows'[s] = rows[s]
                           \/ rows'[s] = new /\ Finalized(old.slot)
        BY <1>0, <2>1, <2>3 DEF Save, tables, TypeInv, TablesTyped, new
    <3>q. QED
        BY <2>1, <2>4, <3>1 DEF InPlay, Held, run
  <2>q. QED
      BY <1>a, <2>2, <2>3, <2>5, <2>6 DEF FromPlay
<1>7. ASSUME CheckStatusFails PROVE InPlay(row)
    BY <1>7 DEF CheckStatusFails, InPlay, Held, tables, run
<1>8. ASSUME ArchiveSubmission \/ \E s \in Slots : DeleteFinalized(s)
      PROVE  InPlay(row)
  <2>1. \A t \in Slots : rows'[t] \in {rows[t], NoRow}
      BY <1>0, <1>8 DEF ArchiveSubmission, DeleteFinalized, Archive, tables, TypeInv, TablesTyped
  <2>2. checking' \cup admin' \subseteq checking \cup admin
      BY <1>8 DEF ArchiveSubmission, DeleteFinalized, readings
  <2>q. QED
      BY <1>8, <1>b, <2>1, <2>2 DEF ArchiveSubmission, DeleteFinalized, run
<1>10. ASSUME NEW s \in Slots, GetQueuedExecution(s)
       PROVE  InPlay(row)
    BY <1>10 DEF GetQueuedExecution, InPlay, Held, tables, run
<1>9. ASSUME \/ Tick
             \/ \E s \in Slots : PriorAdvances(s)
             \/ \E s \in Slots, i \in Batch : ExecutorFinalizes(s, i)
             \/ UNCHANGED vars
      PROVE  InPlay(row)
    BY <1>9, <1>b DEF Tick, PriorAdvances, ExecutorFinalizes, vars, tables, run, readings
<1>q. QED
    BY <1>a, <1>1, <1>2, <1>3, <1>4, <1>5, <1>6, <1>7, <1>8, <1>9, <1>10 DEF Next, Schedule, Work

-----------------------------------------------------------------------------
(* The invariant.                                                             *)

(* A row that is ripe at a time that has come is allowed to be executed.      *)
LEMMA RipeAllowed ==
    ASSUME TypeInv, NEW row \in Row, Sound(row), NEW time \in Nat, time <= now, Ripe(row, time)
    PROVE  Allowed(row.slot, row.timing)
<1> DEFINE request == row.timing
<1>1. row.slot \in Slots /\ request \in Request
    BY DEF Row
<1>2. request.kind \in {"fixed", "assumed", "delta"} /\ request.at \in Nat
      /\ request.target \in Nat
    BY <1>1, KindsAssumption, TimesAssumption DEF Request
<1>3. now \in Nat /\ priorTime[row.slot] \in Nat
    BY <1>1 DEF TypeInv, EnvTyped
<1>4. /\ \/ row.confirmed
         \/ request.kind # "delta" /\ ~(request.kind = "assumed" /\ time >= request.at)
         \/ prior[row.slot] = "replaced"
      /\ row.confirmed => prior[row.slot] = "success"
    BY DEF Ripe, Waits, Kind, At, Sound
<1>5. request.kind = "delta" /\ row.confirmed
         => time >= priorTime[row.slot] + Delta /\ time >= request.target
    BY <1>2, <1>3, Numbers DEF Ripe, Due, Delayed, Kind, Target
<1>6. ~(request.kind = "delta" /\ row.confirmed) => time >= request.at
    BY DEF Ripe, Due, Kind, At
<1> HIDE DEF request
<1>7. Allowed(row.slot, request)
  <2>1. CASE request.kind = "fixed"
      BY <1>2, <1>3, <1>6, <2>1 DEF Allowed
  <2>2. CASE request.kind = "assumed"
      BY <1>2, <1>3, <1>4, <1>6, <2>2 DEF Allowed
  <2>3. CASE request.kind = "delta"
    <3>1. \/ /\ prior[row.slot] = "success"
             /\ now >= priorTime[row.slot] + Delta /\ now >= request.target
          \/ prior[row.slot] = "replaced" /\ now >= request.at
        BY <1>2, <1>3, <1>4, <1>5, <1>6, <2>3, Numbers
    <3>q. QED
        BY <2>3, <3>1 DEF Allowed
  <2>q. QED
      BY <1>2, <2>1, <2>2, <2>3
<1>q. QED
    BY <1>7 DEF request

(* A run that does nothing keeps what it has established.                     *)
LEMMA PlaceStays ==
    ASSUME QueueInv, TypeInv', Advances, NEW p \in Runs, pc'[p] = pc[p],
           index'[p] = index[p], todo'[p] = todo[p], stamp'[p] <= now'
    PROVE  Place(p)'
<1> DEFINE h == Head(todo[p])
<1>1. CASE pc[p] = "idle"
    BY <1>1 DEF QueueInv, Placed, Place
<1>2. CASE pc[p] # "idle"
  <2>1. h \in Row /\ h.slot \in Slots /\ Sound(h) /\ TypeInv
      BY <1>2, HeadInPlay DEF QueueInv, Sounds, Row
  <2>2. Head(todo'[p]) = h
      OBVIOUS
  <2>3. Place(p)
      BY DEF QueueInv, Placed
  <2> HIDE DEF h
  <2>4. \A i \in Batch : taken[h.slot][i] # 0 => taken'[h.slot][i] # 0
      BY <2>1 DEF Advances
  <2>5. ASSUME NEW row \in Row, row = h, Allowed(row.slot, row.timing)
        PROVE  Allowed(row.slot, row.timing)'
      BY <2>1, <2>5, AllowedStays
  <2>6. PICK row \in Row : row = h
      BY <2>1
  <2>7. pc[p] \in {"decrypt", "execute", "store"} => Allowed(row.slot, row.timing)'
      BY <2>3, <2>5, <2>6 DEF Place, h
  <2>8. /\ pc[p] \in {"execute", "store"} => \A i \in Batch : i < index[p] => taken'[row.slot][i] # 0
        /\ pc[p] = "finish" => \A i \in Batch : taken'[row.slot][i] # 0
      BY <2>3, <2>4, <2>6 DEF Place, h
  <2>9. pc[p] \notin {"execute", "store", "finish"} => index[p] = 1
      BY <2>3 DEF Place
  <2>10. Head(todo[p])' = row
      BY <2>2, <2>6
  <2>q. QED
      BY <2>7, <2>8, <2>9, <2>10 DEF Place
<1>q. QED
    BY <1>1, <1>2

LEMMA PlaceOfStep ==
    ASSUME QueueInv, TypeInv', Advances, NEW p \in Runs, NEW made \in Row, Step(p, made)
    PROVE  Placed'
<1>0. TypeInv /\ pc[p] # "idle" /\ Place(p)
    BY DEF QueueInv, Placed, Step
<1>1. now' = now /\ now \in Nat /\ stamp \in [Runs -> 0..MaxTime]
    BY <1>0 DEF Step, TypeInv, EnvTyped, RunsTyped
<1>2. \A q \in Runs : stamp[q] <= now
    BY DEF QueueInv, Placed, Place
<1>3. Timestamp(p) \in Nat /\ Timestamp(p) <= now
    BY <1>1, <1>2 DEF Timestamp
<1>4. \A q \in Runs : stamp'[q] <= now'
    BY <1>1, <1>2, <1>3 DEF Step
<1>5. \A q \in Runs \ {p} : pc'[q] = pc[q] /\ index'[q] = index[q] /\ todo'[q] = todo[q]
  <2>1. Head(todo[p]) \in Live
      BY <1>0, AtHead
  <2>2. CASE NextExecution(p)
      BY <1>0, <2>1, <2>2, ContinueHolds DEF NextExecution, TypeInv, RunsTyped, PCs
  <2>q. QED
      BY <1>0, <2>1, <2>2, NextRowHolds, ContinueHolds DEF Step, Moves, PCs
<1>6. \A q \in Runs \ {p} : Place(q)'
    BY <1>4, <1>5, PlaceStays
<1>7. Place(p)'
  <2> DEFINE h == Head(todo[p])
  <2>0. h \in Row /\ h \in Live /\ h.slot \in Slots /\ Sound(h)
      BY <1>0, HeadInPlay, AtHead DEF QueueInv, Sounds, Row
  <2>1. CASE NextRow(p)
    <3>1. index'[p] = 1 /\ pc'[p] \in {"idle", "check"}
        BY <1>0, <2>1, NextRowHolds
    <3>q. QED
        BY <1>4, <3>1 DEF Place
  <2>2. ASSUME pc[p] = "check", made \in Live,
               NEW label \in {"archive", "retry", "save", "decrypt"},
               Continue(p, label, made), label = "decrypt" => Ripe(made, Timestamp(p))
        PROVE  Place(p)'
    <3>1. pc'[p] = label /\ index'[p] = index[p] /\ Head(todo[p])' = made
        BY <1>0, <2>2, ContinueHolds DEF PCs
    <3>2. index[p] = 1
        BY <1>0, <2>2 DEF Place
    <3>3. ASSUME label = "decrypt"
          PROVE  Allowed(made.slot, made.timing)'
      <4>1. made.slot = h.slot /\ made.version = h.version /\ made.timing = h.timing
            /\ (made.confirmed => h.confirmed \/ prior[h.slot] = "success")
            /\ (made.broadcasted => h.broadcasted) /\ (made.finalized => h.finalized)
          BY <2>2 DEF Step, Derived, Same
      <4>2. Sound(made)
        <5> HIDE DEF h
        <5>q. QED
            BY <2>0, <4>1 DEF Sound
      <4>3. Allowed(made.slot, made.timing)
          BY <1>0, <1>3, <2>2, <3>3, <4>2, RipeAllowed
      <4>q. QED
          BY <1>0, <4>3, AllowedStays
    <3>q. QED
        BY <1>4, <3>1, <3>2, <3>3 DEF Place
  <2>3. CASE pc[p] = "decrypt" /\ made = h /\ Continue(p, "execute", made)
    <3>1. pc'[p] = "execute" /\ index'[p] = index[p] /\ Head(todo[p])' = made
        BY <1>0, <2>0, <2>3, ContinueHolds DEF PCs
    <3>2. index[p] = 1 /\ Allowed(made.slot, made.timing)
        BY <1>0, <2>3 DEF Place
    <3>3. Allowed(made.slot, made.timing)'
        BY <1>0, <3>2, AllowedStays
    <3>4. \A i \in Batch : ~(i < index[p])
        BY <3>2 DEF Batch
    <3>q. QED
        BY <1>4, <3>1, <3>3, <3>4 DEF Place
  <2>a. ASSUME pc[p] \in {"execute", "store"}, made = h
        PROVE  /\ Allowed(made.slot, made.timing)'
               /\ \A i \in Batch : i < index[p] => taken'[made.slot][i] # 0
    <3>1. /\ \A i \in Batch : i < index[p] => taken[made.slot][i] # 0
          /\ \A i \in Batch : taken[made.slot][i] # 0 => taken'[made.slot][i] # 0
        BY <1>0, <2>0, <2>a DEF Place, Advances
    <3>2. Allowed(made.slot, made.timing)
        BY <1>0, <2>a DEF Place
    <3>q. QED
        BY <1>0, <3>1, <3>2, AllowedStays
  <2>4. CASE pc[p] = "execute" /\ made = h /\ Continue(p, "store", made)
    <3>1. pc'[p] = "store" /\ index'[p] = index[p] /\ Head(todo[p])' = made
        BY <1>0, <2>0, <2>4, ContinueHolds DEF PCs
    <3>q. QED
        BY <1>4, <2>4, <2>a, <3>1 DEF Place
  <2>5. CASE /\ made = h /\ NextExecution(p)
             /\ \/ pc[p] = "execute" /\ taken[made.slot][index[p]] # 0
                \/ pc[p] = "store" /\ Given(p)
    <3>1. taken'[made.slot][index[p]] # 0 /\ index[p] \in Batch
      <4>1. index[p] \in Batch
          BY <1>0 DEF TypeInv, RunsTyped
      <4>2. CASE pc[p] = "execute" /\ taken[made.slot][index[p]] # 0
          BY <2>0, <2>5, <4>1, <4>2 DEF Advances
      <4>3. CASE pc[p] = "store" /\ Given(p)
          BY <1>0, <2>5, <4>1, <4>3, Taken
      <4>q. QED
          BY <2>5, <4>1, <4>2, <4>3
    <3>2. \A i \in Batch : i < index[p] + 1 => taken'[made.slot][i] # 0
        BY <2>5, <2>a, <3>1 DEF Batch
    <3>3. CASE More(index[p])
      <4>1. pc'[p] = "execute" /\ index'[p] = index[p] + 1 /\ Head(todo[p])' = made
          BY <1>0, <2>5, <3>3 DEF NextExecution, TypeInv, RunsTyped
      <4>q. QED
          BY <1>4, <2>5, <2>a, <3>2, <4>1 DEF Place
    <3>4. CASE ~More(index[p])
      <4>1. pc'[p] = "finish" /\ Head(todo[p])' = made
          BY <1>0, <2>0, <2>5, <3>4, ContinueHolds DEF NextExecution, PCs
      <4>2. \A i \in Batch : i < index[p] + 1
          BY <3>1, <3>4, Numbers DEF More, Batch
      <4>3. \A i \in Batch : taken'[made.slot][i] # 0
          BY <3>2, <4>2
      <4>q. QED
          BY <1>4, <4>1, <4>3 DEF Place
    <3>q. QED
        BY <3>3, <3>4
  <2>q. QED
      BY <2>1, <2>2, <2>3, <2>4, <2>5 DEF Step, Moves
<1>q. QED
    BY <1>6, <1>7 DEF Placed

(* The steps that are not of a run, and what they leave alone.                *)
OtherStep ==
    \/ Schedule \/ GetUnFinalized \/ CheckStatus \/ CheckStatusFails
    \/ \E s \in Slots : GetQueuedExecution(s) \/ DeleteFinalized(s) \/ PriorAdvances(s)
    \/ ArchiveSubmission
    \/ \E s \in Slots, i \in Batch : ExecutorFinalizes(s, i)
    \/ Tick
    \/ UNCHANGED vars

LEMMA StepsOfNext ==
    ASSUME [Next]_vars
    PROVE  \/ \E p \in Runs : GetQueueTopMostExecutions(p) \/ Work(p) \/ Crash(p)
           \/ OtherStep
BY DEF Next, Work, OtherStep

LEMMA OtherStepsLeave ==
    ASSUME OtherStep
    PROVE  /\ UNCHANGED <<run, taken>>
           /\ UNCHANGED checking \/ GetUnFinalized \/ CheckStatus \/ CheckStatusFails
<1>1. CASE Schedule
    BY <1>1 DEF Schedule, ScheduleExecution, env, readings
<1>2. CASE GetUnFinalized \/ CheckStatus \/ CheckStatusFails
    BY <1>2 DEF GetUnFinalized, CheckStatus, CheckStatusFails, env
<1>3. ASSUME NEW s \in Slots, GetQueuedExecution(s) \/ DeleteFinalized(s) \/ PriorAdvances(s)
      PROVE  UNCHANGED <<run, taken, checking>>
    BY <1>3 DEF GetQueuedExecution, DeleteFinalized, PriorAdvances, env, readings
<1>4. CASE ArchiveSubmission
    BY <1>4 DEF ArchiveSubmission, env
<1>5. ASSUME NEW s \in Slots, NEW i \in Batch, ExecutorFinalizes(s, i)
      PROVE  UNCHANGED <<run, taken, checking>>
    BY <1>5 DEF ExecutorFinalizes, readings
<1>6. CASE Tick \/ UNCHANGED vars
    BY <1>6 DEF Tick, vars, env, readings
<1>q. QED
    BY <1>1, <1>2, <1>3, <1>4, <1>5, <1>6 DEF OtherStep

LEMMA QueueInvInit == Init => QueueInv
<1> SUFFICES ASSUME Init PROVE QueueInv
    OBVIOUS
<1>1. \A p \in Runs : Held(p) = {}
    BY EmptySeq DEF Init, Held
<1>2. Sounds /\ StatusOfBroadcasted
    BY <1>1 DEF Init, Sounds, StatusOfBroadcasted, InPlay
<1>3. Placed
    BY DEF Init, Placed, Place, NoTime
<1>q. QED
    BY <1>2, <1>3, TypeInvInit DEF QueueInv

LEMMA QueueInvNext == QueueInv /\ [Next]_vars => QueueInv'
<1> SUFFICES ASSUME QueueInv, [Next]_vars PROVE QueueInv'
    OBVIOUS
<1>0. TypeInv /\ TypeInv' /\ Advances
    BY TypeInvNext, Advance DEF QueueInv
<1>1. Sounds'
  <2>1. ASSUME NEW row \in Row, InPlay(row)' PROVE Sound(row)'
    <3>1. CASE FromPlay(row)
      <4>1. PICK old \in Row : InPlay(old) /\ (row = old \/ Sound(row)')
          BY <3>1 DEF FromPlay
      <4>2. Sound(old)
          BY <4>1 DEF QueueInv, Sounds
      <4>3. CASE row = old
          BY <1>0, <4>2, <4>3, SoundStays
      <4>q. QED
          BY <4>1, <4>3
    <3>2. CASE Scheduled(row)
      <4>1. Len(asked'[row.slot]) \in Nat
          BY <1>0 DEF TypeInv, RestTyped, Row
      <4>q. QED
          BY <3>2, <4>1 DEF Scheduled, Sound
    <3>q. QED
        BY <2>1, <3>1, <3>2, PlayNext
  <2>q. QED
      BY <2>1 DEF Sounds
<1>2. StatusOfBroadcasted'
  <2>1. CASE checking' \subseteq checking
      BY <2>1 DEF QueueInv, StatusOfBroadcasted
  <2>2. CASE GetUnFinalized
    <3> DEFINE S == {s \in Slots : rows[s] # NoRow /\ rows[s].broadcasted /\ ~rows[s].finalized}
               T == {rows[s] : s \in S}
    <3>1. PICK q \in TopMost(T) : checking' = {q[i] : i \in DOMAIN q}
        BY <2>2 DEF GetUnFinalized
    <3>2. q \in Seq(T)
        BY <1>0, <3>1, TopMostRows
    <3>3. checking' \subseteq T
      <4> HIDE DEF T
      <4>q. QED
          BY <3>1, <3>2
    <3>q. QED
        BY <3>3 DEF StatusOfBroadcasted
  <2>3. ASSUME NEW p \in Runs, Work(p) PROVE UNCHANGED checking
      BY <1>0, <2>3, WorkShape DEF Step, readings
  <2>4. ASSUME NEW p \in Runs, GetQueueTopMostExecutions(p) \/ Crash(p) PROVE UNCHANGED checking
      BY <2>4 DEF GetQueueTopMostExecutions, Crash, readings
  <2>5. CASE CheckStatus \/ CheckStatusFails
      BY <2>5, <1>0 DEF CheckStatus, CheckStatusFails, QueueInv, StatusOfBroadcasted
  <2>q. QED
      BY <2>1, <2>2, <2>3, <2>4, <2>5, StepsOfNext, OtherStepsLeave
<1>3. Placed'
  <2>a. \A p \in Runs : stamp[p] <= now /\ stamp[p] \in Nat
      BY <1>0 DEF QueueInv, Placed, Place, TypeInv, RunsTyped
  <2>b. now \in Nat /\ now' \in Nat /\ now <= now'
      BY <1>0 DEF TypeInv, EnvTyped, Advances
  <2>1. CASE UNCHANGED run
    <3>1. \A p \in Runs : stamp'[p] <= now'
        BY <2>a, <2>b, <2>1 DEF run
    <3>q. QED
        BY <1>0, <2>1, <3>1, PlaceStays DEF run, Placed
  <2>2. ASSUME NEW p \in Runs, Work(p) PROVE Placed'
      BY <1>0, <2>2, WorkShape, PlaceOfStep
  <2>3. ASSUME NEW p \in Runs, GetQueueTopMostExecutions(p) PROVE Placed'
    <3>1. \A q \in Runs \ {p} : pc'[q] = pc[q] /\ index'[q] = index[q] /\ todo'[q] = todo[q]
          /\ stamp'[q] = stamp[q]
        BY <1>0, <2>3 DEF GetQueueTopMostExecutions, TypeInv, RunsTyped
    <3>2. pc[p] = "idle" /\ pc'[p] = "check" /\ index'[p] = index[p] /\ stamp'[p] = 0
        BY <1>0, <2>3 DEF GetQueueTopMostExecutions, TypeInv, RunsTyped, NoTime
    <3>3. Place(p)'
        BY <2>b, <3>2 DEF QueueInv, Placed, Place
    <3>4. \A q \in Runs \ {p} : Place(q)'
        BY <1>0, <2>a, <2>b, <3>1, PlaceStays
    <3>q. QED
        BY <3>3, <3>4 DEF Placed
  <2>4. ASSUME NEW p \in Runs, Crash(p) PROVE Placed'
    <3>1. \A q \in Runs \ {p} : pc'[q] = pc[q] /\ index'[q] = index[q] /\ todo'[q] = todo[q]
        BY <1>0, <2>4 DEF Crash, TypeInv, RunsTyped
    <3>2. pc'[p] = "idle" /\ index'[p] = 1 /\ stamp' = stamp
        BY <1>0, <2>4 DEF Crash, TypeInv, RunsTyped
    <3>3. Place(p)'
        BY <2>a, <2>b, <3>2 DEF Place
    <3>4. \A q \in Runs \ {p} : Place(q)'
        BY <1>0, <2>a, <2>b, <3>1, <3>2, PlaceStays
    <3>q. QED
        BY <3>3, <3>4 DEF Placed
  <2>q. QED
      BY <2>1, <2>2, <2>3, <2>4, StepsOfNext, OtherStepsLeave
<1>q. QED
    BY <1>0, <1>1, <1>2, <1>3 DEF QueueInv

(* The strengthened invariant, of every reachable state.                      *)
THEOREM SchedulerInvariant == Spec => []QueueInv
<1>q. QED
    BY QueueInvInit, QueueInvNext, PTL DEF Spec

(* A row marked as broadcasted or finalized stands for a whole batch, for     *)
(* batches of any size and however runs and the status check overlap.         *)
THEOREM BatchesWhole == Spec => []BroadcastedWhole
<1>1. ASSUME QueueInv PROVE BroadcastedWhole
  <2> SUFFICES ASSUME NEW s \in Slots, rows[s] # NoRow
               PROVE  /\ rows[s].broadcasted => \A i \in Batch : taken[s][i] # 0
                      /\ rows[s].finalized => \A i \in Batch : <<s, i>> \in final
      BY DEF BroadcastedWhole
  <2>1. rows[s] \in Row /\ rows[s].slot = s /\ InPlay(rows[s])
      BY <1>1 DEF QueueInv, TypeInv, TablesTyped, Live, InPlay
  <2>q. QED
      BY <1>1, <2>1 DEF QueueInv, Sounds, Sound
<1>q. QED
    BY <1>1, SchedulerInvariant, PTL

(* What a step gives to the executor.                                         *)
LEMMA GivenBy ==
    ASSUME QueueInv, [Next]_vars
    PROVE  \/ UNCHANGED taken
           \/ \E p \in Runs : pc[p] = "store" /\ Given(p) /\ UNCHANGED final
<1>0. TypeInv
    BY DEF QueueInv
<1>1. ASSUME NEW p \in Runs, Work(p)
      PROVE  UNCHANGED taken \/ (pc[p] = "store" /\ Given(p) /\ UNCHANGED final)
    BY <1>0, <1>1, WorkShape DEF Step, Gives
<1>2. ASSUME NEW p \in Runs, GetQueueTopMostExecutions(p) \/ Crash(p) PROVE UNCHANGED taken
    BY <1>2 DEF GetQueueTopMostExecutions, Crash, env
<1>q. QED
    BY <1>1, <1>2, StepsOfNext, OtherStepsLeave

(* Nothing reaches the executor before its time, from however old a row.      *)
THEOREM NothingEarly == Spec => NeverEarly
<1>1. ASSUME QueueInv, [Next]_vars
      PROVE  \A s \in Slots, i \in Batch :
                 taken'[s][i] # taken[s][i] => Allowed(s, asked[s][taken'[s][i]])
  <2>1. CASE UNCHANGED taken
      BY <2>1
  <2>2. ASSUME NEW p \in Runs, pc[p] = "store", Given(p),
               NEW s \in Slots, NEW i \in Batch, taken'[s][i] # taken[s][i]
        PROVE  Allowed(s, asked[s][taken'[s][i]])
    <3>1. s = Head(todo[p]).slot /\ taken'[s][i] = Head(todo[p]).version
      <4>1. TypeInv /\ pc[p] # "idle"
          BY <1>1, <2>2 DEF QueueInv
      <4>2. taken'[s][i] = IF s = Head(todo[p]).slot /\ i = index[p] /\ <<s, i>> \notin final
                           THEN Head(todo[p]).version ELSE taken[s][i]
          BY <2>2, <4>1, Taken
      <4>q. QED
          BY <2>2, <4>2
    <3>2. Allowed(Head(todo[p]).slot, Head(todo[p]).timing)
        BY <1>1, <2>2 DEF QueueInv, Placed, Place
    <3>3. Sound(Head(todo[p]))
        BY <1>1, <2>2, HeadInPlay DEF QueueInv, Sounds
    <3>q. QED
        BY <3>1, <3>2, <3>3 DEF Sound
  <2>q. QED
      BY <1>1, <2>1, <2>2, GivenBy
<1>2. QueueInv /\ [Next]_vars
         => [\A s \in Slots, i \in Batch :
                 taken'[s][i] # taken[s][i] => Allowed(s, asked[s][taken'[s][i]])]_vars
    BY <1>1
<1>q. QED
    BY <1>2, SchedulerInvariant, PTL DEF Spec, NeverEarly

-----------------------------------------------------------------------------
(* No submission is lost.  A slot that was never scheduled again under the    *)
(* hands of a process has only rows of its last submission in play.           *)

LastInPlay ==
    \A row \in Row : InPlay(row) /\ row.slot \notin raced => row.version = Len(asked[row.slot])

KeptInv == QueueInv /\ LastInPlay /\ SubmissionKept

(* The slot has its last submission in a table.                               *)
InTable(s, last) ==
    \E table \in {rows, archived} : table[s] # NoRow /\ table[s].version = last

LEMMA WriteKeeps ==
    ASSUME TypeInv, NEW row \in Row, Save(row) \/ Archive(row) \/ UNCHANGED tables,
           NEW s \in Slots, NEW last, row.slot = s => row.version = last, InTable(s, last)
    PROVE  InTable(s, last)'
<1>1. \/ rows[s] # NoRow /\ rows[s].version = last
      \/ archived[s] # NoRow /\ archived[s].version = last
    BY DEF InTable
<1>2. row # NoRow /\ row.slot \in Slots
    BY NullsAssumption DEF Row
<1>3. rows \in [Slots -> Live \cup {NoRow}] /\ archived \in [Slots -> Row \cup {NoRow}]
    BY DEF TypeInv, TablesTyped
<1>4. \/ rows'[s] # NoRow /\ rows'[s].version = last
      \/ archived'[s] # NoRow /\ archived'[s].version = last
  <2>1. CASE Save(row)
    <3>1. rows' = [rows EXCEPT ![row.slot] = row] /\ archived' = archived
        BY <2>1 DEF Save
    <3>2. CASE row.slot = s
        BY <1>2, <1>3, <3>1, <3>2
    <3>3. CASE row.slot # s
        BY <1>1, <1>3, <3>1, <3>3
    <3>q. QED
        BY <3>2, <3>3
  <2>2. CASE Archive(row)
      BY <1>1, <1>2, <1>3, <2>2 DEF Archive, tables
  <2>3. CASE UNCHANGED tables
      BY <1>1, <2>3 DEF tables
  <2>q. QED
      BY <2>1, <2>2, <2>3
<1>q. QED
    BY <1>4 DEF InTable

(* Every step but a submission leaves the history of submissions alone, and   *)
(* what it writes is made of a row in play.                                   *)
LEMMA OtherSteps ==
    ASSUME QueueInv, [Next]_vars
    PROVE  \/ Schedule
           \/ /\ UNCHANGED <<asked, raced>>
              /\ \/ UNCHANGED <<tables, deleted>>
                 \/ \E s \in Slots : DeleteFinalized(s)
                 \/ /\ UNCHANGED deleted
                    /\ \E row, old \in Row : /\ InPlay(old) /\ Same(row, old)
                                             /\ Save(row) \/ Archive(row)
<1>0. TypeInv
    BY DEF QueueInv
<1>1. ASSUME NEW p \in Runs, Work(p)
      PROVE  /\ UNCHANGED <<asked, raced, deleted>>
             /\ \/ UNCHANGED tables
                \/ \E row, old \in Row : /\ InPlay(old) /\ Same(row, old)
                                         /\ Save(row) \/ Archive(row)
  <2>1. PICK row \in Row : Step(p, row)
      BY <1>0, <1>1, WorkShape
  <2>2. Head(todo[p]) \in Row /\ InPlay(Head(todo[p])) /\ Same(row, Head(todo[p]))
      BY <1>0, <2>1, HeadInPlay DEF Step, Derived
  <2>q. QED
      BY <2>1, <2>2 DEF Step, Writes, history
<1>2. ASSUME CheckStatus
      PROVE  /\ UNCHANGED <<asked, raced, deleted>>
             /\ \/ UNCHANGED tables
                \/ \E row, old \in Row : /\ InPlay(old) /\ Same(row, old)
                                         /\ Save(row) \/ Archive(row)
  <2>1. PICK old \in checking :
            IF Finalized(old.slot) THEN Save([old EXCEPT !.finalized = TRUE]) ELSE UNCHANGED tables
      BY <1>2 DEF CheckStatus
  <2>2. old \in Row /\ InPlay(old)
      BY <1>0, <2>1 DEF InPlay, TypeInv, RestTyped, Live
  <2>3. [old EXCEPT !.finalized = TRUE] \in Row /\ Same([old EXCEPT !.finalized = TRUE], old)
      BY <2>2 DEF Row, Same
  <2>q. QED
      BY <1>2, <2>1, <2>2, <2>3 DEF CheckStatus, history
<1>3. ASSUME ArchiveSubmission
      PROVE  /\ UNCHANGED <<asked, raced, deleted>>
             /\ \E row, old \in Row : /\ InPlay(old) /\ Same(row, old)
                                      /\ Save(row) \/ Archive(row)
  <2>1. PICK old \in admin : Archive(old)
      BY <1>3 DEF ArchiveSubmission
  <2>2. old \in Row /\ InPlay(old) /\ Same(old, old)
      BY <1>0, <2>1 DEF InPlay, Same, TypeInv, RestTyped, Live
  <2>q. QED
      BY <1>3, <2>1, <2>2 DEF ArchiveSubmission, history
<1>4. ASSUME NEW s \in Slots, DeleteFinalized(s) PROVE UNCHANGED <<asked, raced>>
    BY <1>4 DEF DeleteFinalized
<1>5. CASE \/ \E p \in Runs : GetQueueTopMostExecutions(p) \/ Crash(p)
           \/ GetUnFinalized \/ CheckStatusFails \/ Tick
           \/ \E s \in Slots : PriorAdvances(s) \/ GetQueuedExecution(s)
           \/ \E s \in Slots, i \in Batch : ExecutorFinalizes(s, i)
           \/ UNCHANGED vars
    BY <1>5 DEF GetQueueTopMostExecutions, Crash, GetUnFinalized, CheckStatusFails, Tick,
                GetQueuedExecution, PriorAdvances, ExecutorFinalizes, vars, history
<1>q. QED
    BY <1>1, <1>2, <1>3, <1>4, <1>5 DEF Next, Work

LEMMA KeptScheduled ==
    ASSUME KeptInv, Schedule
    PROVE  (LastInPlay /\ SubmissionKept)'
<1>0. TypeInv
    BY DEF KeptInv, QueueInv
<1>1. PICK s \in Slots, kind \in Kinds, at \in Times, target \in Targets :
          ScheduleExecution(s, kind, at, target)
    BY DEF Schedule
<1> DEFINE request == [kind |-> kind, at |-> at, target |-> target]
           new == [slot |-> s, version |-> Len(asked[s]) + 1, timing |-> request,
                   checkin |-> at, confirmed |-> FALSE, retries |-> 0,
                   broadcasted |-> FALSE, finalized |-> FALSE]
<1>2. /\ rows' = [rows EXCEPT ![s] = new] /\ UNCHANGED <<archived, todo, checking, admin>>
      /\ asked' = [asked EXCEPT ![s] = Append(asked[s], request)]
      /\ raced' = (IF InHand(s) THEN raced \cup {s} ELSE raced)
      /\ deleted' = deleted \ {s}
    BY <1>1 DEF ScheduleExecution, Save, run, readings
<1>3. request \in Request
    BY TimesAssumption DEF Request
<1>4. asked \in [Slots -> Seq(Request)]
    BY <1>0 DEF TypeInv, RestTyped
<1> HIDE DEF request
<1>5. Len(asked'[s]) = Len(asked[s]) + 1 /\ \A t \in Slots \ {s} : asked'[t] = asked[t]
    BY <1>2, <1>3, <1>4
<1>6. new.slot = s /\ new.version = Len(asked'[s])
    BY <1>5
<1>7. new # NoRow
  <2>1. new \in Row
    <3>1. new.version \in 1..MaxVersions
        BY <1>1, <1>4, Numbers DEF ScheduleExecution
    <3>q. QED
        BY <1>3, <3>1, Numbers, TimesAssumption DEF Row
  <2>q. QED
      BY <2>1, NullsAssumption
<1> HIDE DEF new
<1>8. LastInPlay'
  <2> SUFFICES ASSUME NEW row \in Row, InPlay(row)', row.slot \notin raced'
               PROVE  row.version = Len(asked'[row.slot])
      BY DEF LastInPlay
  <2>1. CASE row = new
      BY <1>6, <2>1
  <2>2. CASE row # new
    <3>1. InPlay(row)
        BY <1>0, <1>2, <2>2 DEF InPlay, Held, TypeInv, TablesTyped
    <3>2. row.slot # s
      <4> SUFFICES ASSUME row.slot = s PROVE FALSE
          OBVIOUS
      <4>1. ~InHand(s)
          BY <1>2
      <4>2. row \notin checking \cup admin /\ \A p \in Runs : row \notin Held(p)
          BY <4>1 DEF InHand, Held
      <4>3. PICK t \in Slots : rows'[t] = row /\ row # NoRow
          BY <1>2, <4>2 DEF InPlay, Held
      <4>4. t # s
          BY <1>0, <1>2, <2>2, <4>3 DEF TypeInv, TablesTyped
      <4>q. QED
          BY <1>0, <1>2, <4>3, <4>4 DEF TypeInv, TablesTyped
    <3>3. row.slot \in Slots /\ row.slot \notin raced
        BY <1>2 DEF Row
    <3>q. QED
        BY <1>5, <3>1, <3>2, <3>3 DEF KeptInv, LastInPlay
  <2>q. QED
      BY <2>1, <2>2
<1>9. SubmissionKept'
  <2> SUFFICES ASSUME NEW t \in Slots, t \notin raced', t \notin deleted', Len(asked'[t]) > 0
               PROVE  InTable(t, Len(asked[t]))'
      BY DEF SubmissionKept, InTable
  <2>1. CASE t = s
    <3>1. rows'[t] # NoRow /\ rows'[t].version = Len(asked'[t])
        BY <1>0, <1>2, <1>6, <1>7, <2>1 DEF TypeInv, TablesTyped
    <3>q. QED
        BY <3>1 DEF InTable
  <2>2. CASE t # s
    <3>1. t \notin raced /\ t \notin deleted /\ asked'[t] = asked[t]
        BY <1>2, <1>5, <2>2
    <3>2. \E table \in {rows, archived} : table[t] # NoRow /\ table[t].version = Len(asked[t])
        BY <3>1 DEF KeptInv, SubmissionKept
    <3>3. rows'[t] = rows[t] /\ archived'[t] = archived[t]
        BY <1>0, <1>2, <2>2 DEF TypeInv, TablesTyped
    <3>q. QED
        BY <3>1, <3>2, <3>3 DEF InTable
  <2>q. QED
      BY <2>1, <2>2
<1>q. QED
    BY <1>8, <1>9

LEMMA KeptInvNext == KeptInv /\ [Next]_vars => KeptInv'
<1> SUFFICES ASSUME KeptInv, [Next]_vars PROVE KeptInv'
    OBVIOUS
<1>0. QueueInv /\ QueueInv' /\ TypeInv
    BY QueueInvNext DEF KeptInv, QueueInv
<1>1. CASE Schedule
    BY <1>0, <1>1, KeptScheduled DEF KeptInv
<1>2. ASSUME UNCHANGED <<asked, raced>>,
             \/ UNCHANGED <<tables, deleted>>
             \/ \E s \in Slots : DeleteFinalized(s)
             \/ /\ UNCHANGED deleted
                /\ \E row, old \in Row : /\ InPlay(old) /\ Same(row, old)
                                         /\ Save(row) \/ Archive(row)
      PROVE  KeptInv'
  <2>1. LastInPlay'
    <3> SUFFICES ASSUME NEW row \in Row, InPlay(row)', row.slot \notin raced'
                 PROVE  row.version = Len(asked'[row.slot])
        BY DEF LastInPlay
    <3>1. CASE Scheduled(row)
        BY <3>1 DEF Scheduled
    <3>2. CASE FromPlay(row)
        BY <1>2, <3>2 DEF FromPlay, Same, KeptInv, LastInPlay
    <3>q. QED
        BY <1>0, <3>1, <3>2, PlayNext
  <2>2. SubmissionKept'
    <3> SUFFICES ASSUME NEW s \in Slots, s \notin raced', s \notin deleted', Len(asked'[s]) > 0
                 PROVE  InTable(s, Len(asked[s]))'
        BY DEF SubmissionKept, InTable
    <3>1. deleted \subseteq deleted'
        BY <1>2 DEF DeleteFinalized
    <3>2. InTable(s, Len(asked[s]))
        BY <1>2, <3>1 DEF KeptInv, SubmissionKept, InTable
    <3>3. CASE UNCHANGED <<tables, deleted>>
        BY <1>2, <3>2, <3>3 DEF InTable, tables
    <3>4. ASSUME NEW t \in Slots, DeleteFinalized(t)
          PROVE  InTable(s, Len(asked[s]))'
      <4>1. t # s
          BY <3>4 DEF DeleteFinalized
      <4>2. rows'[s] = rows[s] /\ archived'[s] = archived[s]
          BY <1>0, <3>4, <4>1 DEF DeleteFinalized, TypeInv, TablesTyped
      <4>q. QED
          BY <1>2, <3>2, <4>2 DEF InTable
    <3>5. ASSUME NEW row \in Row, NEW old \in Row, InPlay(old), Same(row, old),
                 Save(row) \/ Archive(row)
          PROVE  InTable(s, Len(asked[s]))'
      <4>1. row.slot = s => row.version = Len(asked[s])
          BY <1>2, <3>5 DEF KeptInv, LastInPlay, Same
      <4>2. PICK last : last = Len(asked[s])
          OBVIOUS
      <4>3. InTable(s, last)'
          BY <1>0, <3>2, <3>5, <4>1, <4>2, WriteKeeps
      <4>q. QED
          BY <1>2, <4>2, <4>3 DEF InTable
    <3>q. QED
        BY <1>2, <3>3, <3>4, <3>5
  <2>q. QED
      BY <1>0, <2>1, <2>2 DEF KeptInv
<1>q. QED
    BY <1>0, <1>1, <1>2, OtherSteps

LEMMA KeptInvInit == Init => KeptInv
<1> SUFFICES ASSUME Init PROVE KeptInv
    OBVIOUS
<1>1. \A p \in Runs : Held(p) = {}
    BY EmptySeq DEF Init, Held
<1>2. LastInPlay
    BY <1>1 DEF Init, LastInPlay, InPlay
<1>3. SubmissionKept
    BY EmptySeq DEF Init, SubmissionKept
<1>q. QED
    BY <1>2, <1>3, QueueInvInit DEF KeptInv

(* The last accepted submission of a slot is in one of the tables, or was     *)
(* deleted when finalized, for any number of submissions, runs and faults.    *)
THEOREM SubmissionsKept == Spec => []SubmissionKept
<1>1. Init => KeptInv
    BY KeptInvInit
<1>2. KeptInv => SubmissionKept
    BY DEF KeptInv
<1>q. QED
    BY <1>1, <1>2, KeptInvNext, PTL DEF Spec
-----------------------------------------------------------------------------
(* No batch is mixed.  Of a slot that was scheduled again only when nothing   *)
(* was left to be given, the executor has its last submission, or it has a    *)
(* whole batch of an earlier one and no run is about to add to it.            *)

Whole(s) == \A i \in Batch : taken[s][i] # 0
Storing(p, s) == pc[p] = "store" /\ Head(todo[p]).slot = s

Mix(s) ==
    \/ \A i \in Batch : taken[s][i] \in {0, Len(asked[s])}
    \/ /\ Whole(s)
       /\ \A i, j \in Batch : taken[s][i] = taken[s][j]
       /\ \A p \in Runs : ~Storing(p, s)

MixInv ==
    /\ KeptInv
    /\ raced \subseteq reopened
    /\ \A s \in deleted : Whole(s)
    /\ \A s \in Slots, i \in Batch : taken[s][i] <= Len(asked[s])
    /\ \A s \in Slots \ reopened : Mix(s)

LEMMA MixScheduled ==
    ASSUME MixInv, Schedule, KeptInv'
    PROVE  MixInv'
<1>0. TypeInv /\ QueueInv
    BY DEF MixInv, KeptInv, QueueInv
<1>1. PICK s \in Slots, kind \in Kinds, at \in Times, target \in Targets :
          ScheduleExecution(s, kind, at, target)
    BY DEF Schedule
<1> DEFINE request == [kind |-> kind, at |-> at, target |-> target]
<1>2. /\ asked' = [asked EXCEPT ![s] = Append(asked[s], request)]
      /\ UNCHANGED <<taken, pc, todo>> /\ deleted' = deleted \ {s}
      /\ raced' = (IF InHand(s) THEN raced \cup {s} ELSE raced)
      /\ reopened' = (IF InHand(s) \/ ~Finished(s) THEN reopened \cup {s} ELSE reopened)
    BY <1>1 DEF ScheduleExecution, env, run
<1>3. request \in Request /\ asked \in [Slots -> Seq(Request)]
      /\ taken \in [Slots -> [Batch -> 0..MaxVersions]]
    BY <1>0, TimesAssumption DEF Request, TypeInv, RestTyped, EnvTyped
<1> HIDE DEF request
<1>4. \A t \in Slots : Len(asked[t]) \in Nat /\ Len(asked'[t]) \in Nat
      /\ Len(asked[t]) <= Len(asked'[t]) /\ (t # s => asked'[t] = asked[t])
    BY <1>2, <1>3
<1>5. \A t \in Slots, i \in Batch : taken'[t][i] <= Len(asked'[t])
    BY <1>2, <1>3, <1>4, Numbers DEF MixInv
<1>6. raced' \subseteq reopened' /\ \A t \in deleted' : Whole(t)'
    BY <1>2 DEF MixInv, Whole
<1>7. ASSUME NEW t \in Slots \ reopened', t # s PROVE Mix(t)'
  <2>1. Mix(t)
      BY <1>2, <1>7 DEF MixInv
  <2>q. QED
      BY <1>2, <1>4, <1>7, <2>1 DEF Mix, Whole, Storing
<1>8. ASSUME s \notin reopened' PROVE Mix(s)'
  <2>1. ~InHand(s) /\ Finished(s) /\ Mix(s)
      BY <1>2, <1>8 DEF MixInv
  <2>2. CASE asked[s] = <<>>
    <3>1. \A i \in Batch : taken[s][i] <= 0 /\ taken[s][i] \in Nat
        BY <1>3, <2>2 DEF MixInv
    <3>q. QED
        BY <1>2, <3>1 DEF Mix
  <2>3. CASE Whole(s)
    <3>1. \A i, j \in Batch : taken[s][i] = taken[s][j]
        BY <2>1, <2>3 DEF Mix, Whole
    <3>2. \A p \in Runs : ~Storing(p, s)
      <4>1. ASSUME NEW p \in Runs, Storing(p, s) PROVE FALSE
        <5>1. Head(todo[p]) \in Held(p) /\ Head(todo[p]).slot = s
            BY <1>0, <4>1, AtHead DEF Storing
        <5>q. QED
            BY <2>1, <5>1 DEF Held, InHand
      <4>q. QED
          BY <4>1
    <3>q. QED
        BY <1>2, <2>3, <3>1, <3>2 DEF Mix, Whole, Storing
  <2>4. s \in deleted => Whole(s)
      BY DEF MixInv
  <2>5. rows[s] # NoRow /\ rows[s].broadcasted => Whole(s)
    <3>1. ASSUME rows[s] # NoRow, rows[s].broadcasted PROVE Whole(s)
      <4>1. rows[s] \in Row /\ rows[s].slot = s /\ InPlay(rows[s])
          BY <1>0, <3>1 DEF TypeInv, TablesTyped, Live, InPlay
      <4>q. QED
          BY <1>0, <3>1, <4>1 DEF QueueInv, Sounds, Sound, Whole
    <3>q. QED
        BY <3>1
  <2>q. QED
      BY <2>1, <2>2, <2>3, <2>4, <2>5 DEF Finished
<1>9. \A t \in Slots \ reopened' : Mix(t)'
    BY <1>7, <1>8
<1>q. QED
    BY <1>5, <1>6, <1>9 DEF MixInv

LEMMA MixOfStep ==
    ASSUME MixInv, NEW p \in Runs, NEW made \in Row, Step(p, made), TypeInv'
    PROVE  /\ \A s \in Slots, i \in Batch : taken'[s][i] <= Len(asked'[s])
           /\ \A s \in Slots \ reopened' : Mix(s)'
<1> DEFINE h == Head(todo[p])
<1>0. TypeInv /\ QueueInv /\ LastInPlay /\ pc[p] # "idle"
    BY DEF MixInv, KeptInv, QueueInv, Step
<1>1. h \in Row /\ h \in Live /\ InPlay(h) /\ Sound(h) /\ h.slot \in Slots
    BY <1>0, HeadInPlay, AtHead DEF QueueInv, Sounds, Row
<1>2. asked' = asked /\ reopened' = reopened
    BY DEF Step, history
<1>3. \A s \in Slots, i \in Batch :
         \/ taken'[s][i] = taken[s][i]
         \/ pc[p] = "store" /\ s = h.slot /\ taken'[s][i] = h.version
  <2>1. CASE UNCHANGED taken
      BY <2>1
  <2>2. CASE pc[p] = "store" /\ Given(p)
    <3>1. ASSUME NEW s \in Slots, NEW i \in Batch
          PROVE  taken'[s][i] = taken[s][i] \/ (s = h.slot /\ taken'[s][i] = h.version)
      <4>1. taken'[s][i] = IF s = h.slot /\ i = index[p] /\ <<s, i>> \notin final
                           THEN h.version ELSE taken[s][i]
          BY <1>0, <2>2, Taken
      <4> HIDE DEF h
      <4>q. QED
          BY <4>1
    <3>q. QED
        BY <2>2, <3>1
  <2>q. QED
      BY <2>1, <2>2 DEF Step, Gives
<1>4. \A s \in Slots, i \in Batch : taken'[s][i] <= Len(asked'[s])
  <2>1. h.version <= Len(asked[h.slot])
      BY <1>1 DEF Sound
  <2> HIDE DEF h
  <2>q. QED
      BY <1>2, <1>3, <2>1 DEF MixInv
<1>5. ASSUME NEW s \in Slots \ reopened', NEW q \in Runs, Storing(q, s)', Whole(s)
      PROVE  Storing(q, s)
  <2>1. CASE NextRow(p)
      BY <1>0, <1>5, <2>1, NextRowHolds DEF Storing
  <2>2. ASSUME made \in Live, NEW label \in PCs, label # "store", Continue(p, label, made)
        PROVE  Storing(q, s)
      BY <1>0, <1>5, <2>2, ContinueHolds DEF Storing
  <2>3. CASE Continue(p, "store", made) /\ made = h /\ taken[made.slot][index[p]] = 0
    <3>1. made.slot # s
        BY <1>0, <1>5, <2>3 DEF Whole, TypeInv, RunsTyped
    <3>2. Head(todo'[p]) = made /\ \A r \in Runs \ {p} : pc'[r] = pc[r] /\ todo'[r] = todo[r]
        BY <1>0, <1>1, <2>3, ContinueHolds DEF PCs
    <3>q. QED
        BY <1>5, <3>1, <3>2 DEF Storing
  <2>4. CASE NextExecution(p) /\ made = h
    <3>1. CASE More(index[p])
        BY <1>0, <1>5, <2>4, <3>1 DEF NextExecution, Storing, TypeInv, RunsTyped
    <3>2. CASE ~More(index[p])
        BY <1>1, <2>2, <2>4, <3>2 DEF NextExecution, PCs
    <3>q. QED
        BY <3>1, <3>2
  <2>q. QED
      BY <1>1, <2>1, <2>2, <2>3, <2>4 DEF Step, Moves, PCs
<1>6. ASSUME NEW s \in Slots \ reopened' PROVE Mix(s)'
  <2>1. s \notin raced /\ Mix(s)
      BY <1>2, <1>6 DEF MixInv
  <2>2. h.slot = s => h.version = Len(asked[s])
      BY <1>0, <1>1, <2>1 DEF LastInPlay
  <2>3. CASE \A i \in Batch : taken[s][i] \in {0, Len(asked[s])}
    <3>1. \A i \in Batch : taken'[s][i] \in {0, Len(asked[s])}
      <4> HIDE DEF h
      <4>q. QED
          BY <1>3, <2>2, <2>3
    <3>q. QED
        BY <1>2, <3>1 DEF Mix
  <2>4. CASE /\ Whole(s) /\ \A i, j \in Batch : taken[s][i] = taken[s][j]
             /\ \A q \in Runs : ~Storing(q, s)
    <3>1. \A i \in Batch : taken'[s][i] = taken[s][i]
        BY <1>3, <2>4 DEF Storing
    <3>2. \A q \in Runs : ~Storing(q, s)'
        BY <1>5, <2>4
    <3>q. QED
        BY <2>4, <3>1, <3>2 DEF Mix, Whole
  <2>q. QED
      BY <2>1, <2>3, <2>4 DEF Mix
<1>q. QED
    BY <1>4, <1>6

LEMMA MixInvNext == MixInv /\ [Next]_vars => MixInv'
<1> SUFFICES ASSUME MixInv, [Next]_vars PROVE MixInv'
    OBVIOUS
<1>0. KeptInv' /\ QueueInv /\ TypeInv /\ TypeInv' /\ Advances
    BY KeptInvNext, TypeInvNext, Advance DEF MixInv, KeptInv, QueueInv
<1>a. \A s \in Slots : Whole(s) => Whole(s)'
    BY <1>0 DEF Whole, Advances
<1>b. ASSUME UNCHANGED <<asked, raced, deleted, reopened, taken>>,
             \A p \in Runs, s \in Slots : Storing(p, s)' => Storing(p, s)
      PROVE  MixInv'
  <2>1. \A s \in Slots \ reopened' : Mix(s)'
      BY <1>b DEF MixInv, Mix, Whole
  <2>q. QED
      BY <1>0, <1>b, <2>1 DEF MixInv, Whole
<1>1. CASE Schedule
    BY <1>0, <1>1, MixScheduled
<1>2. ASSUME NEW p \in Runs, Work(p) PROVE MixInv'
  <2>1. PICK made \in Row : Step(p, made)
      BY <1>0, <1>2, WorkShape
  <2>2. UNCHANGED <<raced, deleted, reopened>>
      BY <2>1 DEF Step, history
  <2>3. deleted \subseteq Slots
      BY <1>0 DEF TypeInv, RestTyped
  <2>q. QED
      BY <1>0, <1>a, <2>1, <2>2, <2>3, MixOfStep DEF MixInv
<1>3. ASSUME NEW p \in Runs, GetQueueTopMostExecutions(p) PROVE MixInv'
  <2>1. pc'[p] = "check" /\ \A q \in Runs \ {p} : pc'[q] = pc[q] /\ todo'[q] = todo[q]
      BY <1>0, <1>3 DEF GetQueueTopMostExecutions, TypeInv, RunsTyped
  <2>q. QED
      BY <1>3, <1>b, <2>1 DEF GetQueueTopMostExecutions, Storing, env, history
<1>4. ASSUME NEW p \in Runs, Crash(p) PROVE MixInv'
  <2>1. pc'[p] = "idle" /\ \A q \in Runs \ {p} : pc'[q] = pc[q] /\ todo'[q] = todo[q]
      BY <1>0, <1>4 DEF Crash, TypeInv, RunsTyped
  <2>q. QED
      BY <1>4, <1>b, <2>1 DEF Crash, Storing, env, history
<1>5. ASSUME NEW s \in Slots, DeleteFinalized(s) PROVE MixInv'
  <2>1. rows[s] \in Row /\ rows[s].slot = s /\ InPlay(rows[s]) /\ rows[s].finalized
      BY <1>0, <1>5 DEF DeleteFinalized, TypeInv, TablesTyped, Live, InPlay
  <2>2. \A i \in Batch : <<s, i>> \in final
      BY <1>0, <2>1 DEF QueueInv, Sounds, Sound
  <2>3. Whole(s)
      BY <1>0, <2>2 DEF Whole, TypeInv, EnvTyped
  <2>4. UNCHANGED <<asked, raced, reopened, taken, pc, todo>> /\ deleted' = deleted \cup {s}
      BY <1>5 DEF DeleteFinalized, env, run
  <2>5. \A t \in Slots \ reopened' : Mix(t)'
      BY <2>4 DEF MixInv, Mix, Whole, Storing
  <2>q. QED
      BY <1>0, <2>3, <2>4, <2>5 DEF MixInv, Whole
<1>6. CASE \/ GetUnFinalized \/ CheckStatus \/ CheckStatusFails \/ ArchiveSubmission \/ Tick
           \/ \E s \in Slots : GetQueuedExecution(s) \/ PriorAdvances(s)
           \/ \E s \in Slots, i \in Batch : ExecutorFinalizes(s, i)
           \/ UNCHANGED vars
  <2>1. UNCHANGED <<asked, raced, deleted, reopened, taken, pc, todo>>
      BY <1>6 DEF GetUnFinalized, CheckStatus, CheckStatusFails, ArchiveSubmission, Tick,
         GetQueuedExecution, PriorAdvances, ExecutorFinalizes, vars, env, run, history
  <2>q. QED
      BY <1>b, <2>1 DEF Storing
<1>q. QED
    BY <1>1, <1>2, <1>3, <1>4, <1>5, <1>6 DEF Next, Work

(* What the executor has of a batch comes from one submission, for batches of *)
(* any size and any number of runs, submissions and faults.                   *)
THEOREM BatchesUnmixed == Spec => []BatchUnmixed
<1>1. Init => MixInv
  <2> SUFFICES ASSUME Init PROVE MixInv
      OBVIOUS
  <2>1. KeptInv
      BY KeptInvInit
  <2>q. QED
      BY <2>1, EmptySeq DEF Init, MixInv, Mix, Whole
<1>2. MixInv => BatchUnmixed
    BY DEF MixInv, Mix, BatchUnmixed
<1>q. QED
    BY <1>1, <1>2, MixInvNext, PTL DEF Spec
=============================================================================
