# fuzd: specifications, model checking and proofs

fuzd executes transactions on behalf of users, later.  A user schedules a
submission for a slot; a scheduler keeps it until its time has come and hands
its executions to an executor; the executor signs them with an account derived
for the user (the *broadcaster*), gives each the next nonce, stores it, sends
it to a network, and follows it until it is final.  All state is in an SQL
database; requests and periodic runs share it and interleave at every `await`.

Paths below are relative to `src/`.

## Inventory

| part | state | operations | modelled by |
|---|---|---|---|
| Broadcaster lock and nonces (`packages/executor/src/executor.ts`, `packages/server/src/storage/RemoteSQLExecutorStorage.ts`) | row of `Broadcasters`: `nextNonce`, `lock`, `lock_timestamp` | `lockBroadcaster`, `unlockBroadcaster`, the update in `createOrUpdatePendingExecution` | `BroadcasterLock` |
| Executor (same files) | `BroadcastedExecutions` | `broadcastExecution`, `_submitTransaction`, `processPendingTransactions`, `_resubmitIfNeeded`, `getExecutionStatus` | `Executor`, which implements `ExecutorPromise` |
| Scheduler (`packages/scheduler/src/scheduler.ts`, `RemoteSQLSchedulerStorage.ts`) | `ScheduledExecutions`, `ArchivedScheduledExecutions` | `scheduleExecution`, `processQueue`, `checkScheduledExecutionStatus`; the admin's `archiveSubmission` and `deleteFinalizedScheduledExecutions` | `Scheduler` |
| Debts and reserves (`executor.ts` `computeFees`, columns `debt_18`, `debt_0`; `packages/client/src/index.ts` `computeBalanceRequired`) | two columns; what is scheduled | offsets on store and on finalization; the balance a client asks for | `DebtLedger` |
| Fee policy and payment help (`executor.ts`, `_resubmitIfNeeded`) | fee of a row, `helpedForUpToGasPrice` | a higher fee; a transfer of the payment account | `FeePolicy` |
| Gas estimate (`packages/common/src/ethereum.ts`) | none | `getGasPriceEstimate`, `getBestGasEstimate` | `GasEstimate` |
| Service parameters (`packages/common/src/utils/index.ts`, `ChainConfigurations`) | current and previous values, time of the change | `validateParameters`, `updateFees`, `updateExpectedWorstCaseGasPrice` | `ServiceParameters` |
| Timing (`packages/scheduler/src/utils/execution.ts`) | none | initial and potential execution time | `Submission`, `Scheduler` |
| Time-lock decrypter (`packages/tlock-decrypter`), client (`packages/client`) | none | `decrypt`; `scheduleExecution`, `broadcastExecution` | `Submission` |
| Chain protocols (`packages/chain-protocol`) | none; the chain's | `getTransactionStatus`, `isTransactionPending`, `broadcastSignedTransaction`, `getGasFee`, ... | `ChainProtocol`; the network behind it as `Ending`, `Accepts`, `Included` of `Executor` |
| Server, platforms (`packages/server`, `platforms`) | none | http requests, timers and cron triggers | as the processes of the models |
| Dashboard | none | displays | not modelled |

How they interact.  The platforms call `processQueue`,
`processPendingTransactions` and `checkScheduledExecutionStatus` periodically;
`platforms/nodejs/src/cli.ts` does so every second with `setInterval` and
does not wait for the previous calls, so runs overlap with each other and
with the requests of users.  The scheduler calls the executor
(`broadcastExecution`, `getExecutionStatus`); the executor calls the network
through a chain protocol.  Nothing but the database is shared, and the only
mutual exclusion is the lock in the row of a broadcaster.

What is hard, and what would make each part correct:

* **lock and nonces** -- a lock with an expiry, taken and checked by separate
  statements and released without looking at the holder; the process may end
  or the database fail between any two.  Correct: one submission at a time,
  no nonce twice, none left out, nothing on the network that was not stored.
* **executor** -- concurrent requests for a slot; resubmission with another
  fee or as a void transaction; runs that write rows as they have read them;
  nodes that forget.  Correct: a slot is executed once, a stored execution is
  followed to its end, and the end that is recorded is the true one.
* **debts** -- an amount in two columns that are changed apart, offsets that
  are computed from what was read earlier, and an update that is not protected
  the way the row is.  Correct: the debt stands for what the broadcaster's
  executions owe, whatever is resubmitted, helped or finalized; what a client
  was told to deposit is enough.
* **fees and help** -- a run computes a price from the node, the stored
  parameters and the expected price at three different times, pays from another
  account, and writes the row last; another run does the same.  Correct: a
  broadcaster is never made to pay for gas beyond the user's authorization
  without having been sent the difference, and nothing is paid for twice.
* **parameters** -- a client uses what it was told a while ago, the service
  compares at the time of a chain that lags, the admin changes the values in
  between.  Correct: nobody is refused within the grace, nothing is accepted
  long after it.
* **time-locks** -- the client locks to a round computed from one time, the
  scheduler opens at another one that depends on a transaction.  Correct:
  open when due, sealed before.
* **chain protocols** -- one answer is put together from several calls, and the
  chain goes on and reorganises between them.  Correct: an answer that is final
  is true for ever, and is given some day.
* **scheduler** -- rows depend on other transactions, runs write whole rows
  as they have read them, batches fail halfway, slots are used again.
  Correct: nothing too early, no submission lost, a row marked as broadcast
  stands for a whole batch, and every submission leaves the queue.

`PROJECT.json` lists the hazards with the line where each bites and the
properties that would catch it.

## The modules

```
            Submission ---- ServiceParameters          GasEstimate
                |  (what reaches the queue)                 |
            Scheduler                                   FeePolicy
                |  (what the executor is given)             :  one execution's fee
            Executor  ......................................:
                |  implements
         ExecutorPromise

   (below Executor, in more detail:)
   BroadcasterLock   DebtLedger   ChainProtocol
```

The modules are layered by abstraction.  `BroadcasterLock` splits a
submission into its database statements and forgets what is submitted.
`Executor` keeps the executions, takes each statement on the lock as one step
and `getTransactionStatus` as one step; `ChainProtocol` splits the latter into
calls.  `DebtLedger` and `FeePolicy` are the executor seen from the money.
`Scheduler` keeps the queue and has of the executor what answers it: the look
for an execution that is there already and the upsert that comes later.
`ExecutorPromise` says what `Executor` does, and `Executor` is shown to
implement it.  `Submission` is the way from the client to the queue.  The
atomicity that one module assumes is what the module below it is about.

A definition preceded by a comment "Mutant:" is a plausible mistake in the
definition that follows; nothing uses it in the specifications.  The runs'
properties are known to fail when it takes that definition's place.

### BroadcasterLock

One element of `Requests` is one invocation of `_submitTransaction`.  `pc`
holds the point between two awaits; the actions are, in order,

| action | code |
|---|---|
| `ReadNetworkNonce` | `getNonce` in `_acquireBroadcaster` (executor.ts 371) |
| `LockBroadcaster` | the upsert of `lockBroadcaster` (storage 238-254) |
| `ReadBack` | its SELECT and the comparison (256-273); the nonce is chosen |
| `Prepare` | validity, signing, balance (executor.ts 428-620), or the end by an error |
| `VerifyLock` | the SELECT in `createOrUpdatePendingExecution` (storage 326-336) |
| `StoreExecution` | its batch (338-386) |
| `SwallowError` | its catch clause (397-400) |
| `Broadcast` | the two attempts of executor.ts 633-679 |
| `StoreAgain` | the second store after both have failed (680): the execution alone, without a look at the lock, `nextNonce` or the debt |
| `UnlockBroadcaster` | the finally clause (691-696) |

`Crash` ends a request anywhere, `Tick` lets the lock age, `Mine` lets the
network include the next transaction.  `lockAge` is
`UNIXEPOCH() - lock_timestamp` up to the first value at which the lock has
expired: larger values are all alike to the code.  `kind` tells resubmissions
(`forceNonce`) from new executions; a resubmission takes the nonce of some
stored execution.  `recorded`, `patched`, `lost` and `faulted` are history:
requests that have stored, those of them that only the second store has stored,
holders whose lock another request has removed, requests that met a database
error.  They are never in a guard except to bound faults.

The properties are relative to `lost`, `faulted` and `patched` because the code
does not promise more: when the first store of a submission is swallowed (its
lock is another's, or the database fails) and its broadcast fails twice, the
second store brings in a row with the nonce `nextNonce`, which the next
submission is given again.  `NoncesDense` says that this is the only way in
which a stored nonce is not below `nextNonce`, and that none is above it, and
`DistinctNonces` names the same exception.  The properties are `Exclusion`, `DistinctNonces`, `NoncesDense`,
`BroadcastsRecorded`, `StuckOnlyByLoss`, `NextNonceSteps`.  The run that
expects a violation shows that a lock is lost, and a transaction broadcast
without record, without any expiry, crash or error.

### ExecutorPromise

The abstract specification: for each key the executor keeps the first of the
executions it is given, settles it once, and neither forgets nor reopens it.
Those who give it two at once for a key (`Contest`) do not know which of them it
keeps until it has settled one.  `Executor` implements it with a slot as the
key, the nonce of its row as what is kept, the finalized rows as settled and its
own `contested` (`PromiseKept`).  `Fulfilled`, that all that is kept is settled
in the end, is what `PromiseFulfilled` shows of `Executor` under the premises it
names.

### Executor

`rows` is `BroadcastedExecutions` (one slot stands for account, chain, slot
and batch index), with the last transaction signed and how it ended; `pool`,
`mined`, `finality` are the network.  A process is a request or a run of
`processPendingTransactions`; `job` is the row as the process has read or
signed it, `todo` what a run has read and not yet looked at -- both can be
older than the row.  `Store` takes what the simulation of a transaction says
(`Validity`, where an error of the node counts as a revert, as it does in the
code) and signs it as it is or as a void one.  `Broadcast`, `Status` and
`Finalise` can fail the way the calls in the code can.  `Abandon` is a
simulation or a call that ends a submission, which for a stored execution is a
fault; `Refuse` is the balance check, which may refuse an execution, a stored
one too, again and again with nothing going wrong (its own fee is part of the
debt it is asked to cover).  A run reads as many of the `Pending` rows as
`Limit` allows, whichever they are.  `skipped`, `contested` and `given` are
history: slots that were broadcast without having been stored, slots that two
requests have prepared together, and the nonces stored with
`updateNonceIfNeeded`, each with its slot.

Requests for one slot overlap freely: the check of `broadcastExecution` and the
store are steps apart.  With such an overlap the code executes twice, which run
`executor_overlap` shows for `AtMostOnce`.  The other properties are about all
behaviours and say what an overlap costs: `AtMostOnceStored` exempts the slots
in `contested` and `skipped`, `NoncesFollowed` that the row of a contested slot
follows one of its nonces, while `NonceNotShared`, `FinalTruthful` and
`FinalImmutable` make no exception for it.

`PromiseFulfilled` has three premises, because the code has three ways to leave
a stored execution alone for ever: a balance that stays too low
(`BalancesSuffice`), more pending rows than a run reads (`LimitSuffices`), and
the nonce that a contested row has lost, which nobody sends again when the node
loses its transaction, so that it holds back all that follow.

Abstractions: one broadcaster, fees are small numbers and a node replaces a
transaction by one with a higher fee only (what go-ethereum does, without the
10% margin); the network nonce is read together with the lock
(`BroadcasterLock` separates them); debts and payments are in `DebtLedger` and
`FeePolicy`, of which `Refuse` is the outcome; no preliminary transactions; the
order in which pending rows are read is any.

### Scheduler

`rows` and `archived` are the two tables, `asked` the history of accepted
submissions of each slot; a row refers to its submission by version.  Kinds of
timing: `fixed` (fixed-time and fixed-round), `assumed` (the same with an
`assumedTransaction`), `delta` (delta-time with or without target time; its
`at` is its first due time, and `target` its target time or 0).  Once the
transaction it depends on is confirmed, a delta-time is due the delta after its
block, but not before its target (`Delayed`, `Due`).  `prior` is the transaction a slot depends
on.  A run goes through `check`, then `archive`, `retry`, `save` or `decrypt`,
`execute` and `store` (the executor's look for an existing execution and its
upsert, for one batch index after the other) and `finish`; it works on rows in
`todo` as they were read and saves them whole.  `stamp` is the chain time cached for
the run.  `taken` is what the executor has of each batch index: another run may
have given it something since it was asked, which is then overwritten unless it
is final.  `admin` are rows that the admin has read and is about to archive
(`GetQueuedExecution`, `ArchiveSubmission`); a submission accepted in between is
deleted with the row, which is why `SubmissionKept` is about slots that nobody
has in hand when they are scheduled again (`raced`).  `reopened` is history as
well: slots scheduled again before they were broadcasted or while somebody had
their row.

`BatchUnmixed` is what the scheduler makes of the executor's answer: the
executions of a batch are given one by one, runs overlap and fail halfway, and
still all that the executor has of a slot comes from one submission, unless the
slot is in `reopened`.

Abstractions: a failed broadcast and the save of `lastError` are one step; that
the executor swallows a failing store is in `BroadcasterLock`; parameters and payload are in
`Submission`; the transaction a slot depends on is the same for all its
submissions.

### DebtLedger

`debt18` and `debt0` are the columns, which stand for `debt18 * Base + debt0`
with `Base` for 10^18.  An element of `Executions` is an execution and the
request that submits it, one of `Runs` a run of `processPendingTransactions`.
`LockBroadcaster` reads the debt, `StoreExecution` is `_submitTransaction` from
the balance checks to the batch, `Help` the part of `_resubmitIfNeeded` that
pays for a higher gas price, `Finalise` the settlement.  Division is that of
BigInt, towards zero, so a negative offset has a negative remainder.
`Broadcast` has the second store after two failed broadcasts (executor.ts 680),
which inserts or updates the row without `debtOffset`, and `Unlock` clears the
lock whoever holds it; the lock may also expire (`Expire`).  A refused request
may be made again.

`ScheduleExecution` is the client's check that the account holds what is
reserved for all its scheduled executions and for this one.  What is reserved is
summed over the rows that the service reads, at most `ReadLimit` of them (100 in
`api/scheduling/index.ts`), and each counts with the `paymentReserve` its
submission came with, which is the user's to choose and may be absent
(`promised`, `Promises`).  `Release` lets it go when the scheduler has found the
execution finalized.

`clamped`, `again`, `uncounted`, `raced`, `uncovered` and `refused` are history:
a column was cut at 0; how often an execution was submitted again; executions
that only the second store has stored, whose fee is in their row but in no
column; whether a run has paid or settled for a row that had changed since it
read it; whether what the client has summed up may be too low (debt at the time,
rows beyond the limit, a `paymentReserve` below the cost, an execution asked for
without being scheduled, a lock that was lost); and whether a scheduled
execution found the balance too low while none of this was so.

`DebtCovers` and `DebtExact` take the fees of `uncounted` executions into
account one by one, and make `raced` their exception, because two runs that
finalize one execution do settle its debt twice: the row is protected by
`WHERE finalized = FALSE`, the columns are not.

Abstractions: one broadcaster, one set of fees and one authorized cost for all
executions; columns do not overflow; what is sent as help is any of a few
amounts (`FeePolicy` computes them); the owner schedules one execution after the
other.

### GasEstimate and FeePolicy

`GasEstimate` translates the pure functions: the averages over
`eth_feeHistory`, whether blocks are full, the base fee and priority fee that
`getBestGasEstimate` makes of them, what `getGasFee` leaves of the estimate
under the user's authorization, the last adjustments before signing, and
`computeImportanceRatio` as `Urgent`.  Shares of gas used are in percent.

`FeePolicy` is `_resubmitIfNeeded` for one execution, with a step per await:

| action | code (`executor.ts`) |
|---|---|
| `ReadPending` | the row as `getPendingExecutions` returns it |
| `GetGasFee` | the fee of the moment under the authorization; what is above it is to be covered |
| `Cover` | the expected price, `diffToCover`, `upToGasPrice`; the payment account may lack the balance |
| `LookForPayment` | `broadcastExecution` of the payment finds its slot stored or not |
| `Pay` | the batch that stores the payment and the help, which may fail and be swallowed |
| `Compare` | resubmission for a higher fee or of a lost transaction, and the write of the row |

The admin's `UpdateExpectedWorstCaseGasPrice`, `NewBlock` and `Drop` come in
between.  `node` is what the node has of the execution, `payments` the slots of
the payment account by the estimate they are named after.  `raced`, `moved`
and `unstored` are history: a run wrote while another was at work, the worst
price was lowered after a payment or changed while one was under way, a payment
went out without being stored.

Abstractions: a payment counts as sent when it is handed to the executor (its
own fate is that of any execution); that the payment account lacks the balance
is a fault; the execution is not finalized meanwhile (`Executor`).

### ServiceParameters and Submission

`ServiceParameters` has the operators of one parameter: what a client is told,
what is accepted, what an update keeps.  `Submission` follows a submission:
`ScheduleExecution` and `BroadcastExecution` are the client, which fetches the
parameters and locks the payload (`RoundOf`, `Sealed`); `ReadTimestamp` and
`ValidateParameters` are the two awaits of the scheduler's
`scheduleExecution`, `BroadcastAtOnce` the executor's check against the clock,
`ConfirmStart` what the scheduler learns of the transaction a submission
depends on, `Execute` the decryption once the submission is due (`Decrypt`).
`pc` says where the submission is or why it was refused: `late`, `outdated`
(parameters), `failed` (not to be opened yet), `refused` (a payload that holds
another locked one).  `now` is the clock of server, client and drand, `chain`
the time of the last block, at most `MaxLag` behind.  `fetchedAt`, `readAt`,
`changed` and `ended` are history: when the parameters were fetched and the
time was read, the number of changes since, and when a value was replaced.

Abstractions: drand starts at time 0 and publishes on time; a submission has
one execution; a submission that is refused is not sent again; the queue
between acceptance and execution is `Scheduler`.

### ChainProtocol

One invocation of `getTransactionStatus` is a cycle of `pc` with an action per
call to the node; blocks arrive between the calls (`NewBlocks(k)` replaces the
last `k` by `k + 1` others).  A block is kept as what becomes of the nonce of
the transaction in it: the transaction succeeds or fails, another one takes its
nonce, or nothing.  `grown` counts the blocks that arrived during the
invocation, `orphaned` says whether the block of the receipt has been replaced.
`counts` tells the protocols apart: starknet does not ask for the transaction
count, so that a transaction whose nonce another one has used is never final.

`DepthAssumption` says what `expectedFinality` has to be chosen for: a
reorganisation, and the blocks that arrive during one invocation, together are
no deeper than it.  The bound is tight: with one more block per invocation TLC
finds a final answer that is not true.

## The runs

| run | instance | shows |
|---|---|---|
| `lock` | 3 requests (symmetric), expiry after 2 ticks, 1 crash, 1 request with database errors | all invariants of `BroadcasterLock` and the invariant of the proofs |
| `lock_broadcast` (violated) | 2 requests, expiry of the code, no fault | `BroadcastAfterRecord` |
| `executor` | 2 slots, 2 overlapping requests for either or both, 1 run that reads 1 row, 1 fault | execution at most once but for overlaps, nonces neither shared nor forgotten, the promise kept |
| `executor_stale` | 1 slot, 2 fees, 2 overlapping runs, 1 fault | recorded endings are true and stay, the promise kept |
| `executor_live` | 1 slot, 2 fees, 1 run, 2 faults, fairness | `PromiseFulfilled`: every stored execution is finalized, if its balance suffices in the end |
| `executor_overlap` (violated) | 2 overlapping requests for a slot, no fault | `AtMostOnce` |
| `scheduler` | 1 slot scheduled twice, with target time or without, 2 overlapping runs (symmetric), batch of 2, 1 fault | nothing early, nothing lost, batches whole and of one submission |
| `scheduler_live` | 2 slots, limit of 1 row, fairness | every submission ends |
| `debt` | 2 executions (symmetric), 2 runs (symmetric) that overlap, 1 resubmission, help, lost locks, 1 fault, 2 balances | the debt covers what is owed, exactly so without resubmission and cut; a client's reserve is enough |
| `protocol` | ethereum and starknet, finality 3, reorganisations of 2 blocks, 1 block per invocation, chains of 6, 2 faults, fairness | final answers are true and are given |
| `fees` | 1 execution, 2 overlapping runs (symmetric), full and nearly empty blocks, 1 new block, 1 change of the expected price, 1 fault | the estimate outlasts a block, fees beyond the authorization are covered, help is recorded and enough |
| `submission` | 1 submission of any timing, rounds of 2 seconds, a chain up to 1 second late, 2 changes of parameters | what is accepted, what is refused, when a payload opens |

Bounds.  Three requests are the least with which one request can free the
lock that a second has just taken and let a third in; the proofs remove this
bound.  Two fees are enough to have a transaction replaced by a resubmission
and the older one mined after all; a third adds no case to the comparison.
One fault lets every single failure meet every interleaving; liveness uses two
so that a retry can fail too.  In run `executor` a limit of 1 with two slots has runs that leave a pending row
unread; in the other runs of `Executor` there is one slot, so that
`LimitSuffices` and `[](contested = {})` hold there and `executor_live` rests on
`BalancesSuffice` alone: a balance is refused any number of times and then no
more.  In `Scheduler` times up to 3 give every order of submission, block,
due time and expiry with a delta of 1; a target of 3 lies behind the delta of a
block mined at 1 and on that of one mined at 2.  `LastBlock`, `Times` and
`Targets` keep what is asked for and what is mined early enough for the clock to
reach the due time.  Run `scheduler` has the two kinds of timing that wait for a
transaction, `scheduler_live` those without one, too; one retry is the least
after which an execution is given up.  `Decrypt` uses up a fault when it fails or
asks for a later time, and so does the admin when it archives or deletes.  In
`DebtLedger` a `Base` of 3 with fees of 5 makes quotients and remainders of
either sign; help of 9 exceeds the cost of 8; the
balances are enough for one execution and, to the unit, for two with their fees.
Its constraint `FewAtWork` lets runs overlap only until a second execution has
been asked for: two runs and two requests at once are beyond TLC's time, and the
proofs have no such bound.  Every `paymentReserve` of the instance is what an
execution may cost, and with two executions no other than the one row that may
be read is reserved, so that a missing reserve and a sum cut at `ReadLimit` are
left to the proof of `ReserveSuffices`.  In
`ChainProtocol` six blocks leave three to be buried under and two to be
replaced, so that the nonce can be used, given free by a reorganisation and used
again before anything is final.  In run `fees` a block that is full or
nearly empty, and urgency after one block, make estimates of 10, 11 and 30, all
above the authorization of 4 and the promised price of 5, below which the admin
sets 2 or 3 at any moment, up or down; a second run, a second block and a lost
transaction make the help needed twice.  One base fee is enough for what is paid;
the proofs are about all fees and histories.  In `Submission` a `Delay` of 2 and a clock up to 4
let a client use parameters that changed twice, inside and after the grace; the
times 1 and 3 lie on either side of a round.  A run of TLC takes between a
second and two minutes.

Deadlock is not checked anywhere: requests end, clocks are bounded, and a
state in which everything is finalized has no successor.

Fairness.  `Executor!Fairness` and `Scheduler!Fairness` are weak fairness of
the steps of a process that has started (an await returns), of the runs
(`setInterval`, cron triggers: `platforms/nodejs/src/cli.ts` 74-83,
`platforms/cf-worker/src/worker.ts` 30-34), of time, and of a network that
includes what it holds and of an executor that finalizes what it has (what
`PromiseFulfilled` says of it, under its premises).  Nothing is assumed of users, of faults, or of the
transaction that a scheduled execution waits for: `Completes` holds without it
because retries are counted.  `ChainProtocol!Fairness` is weak fairness of the
calls: runs ask again and a call returns or fails; of the chain nothing is assumed.
`FeePolicy`, `DebtLedger` and `Submission` state safety only.

## Findings

Two runs expect a violation; `PROJECT.json` quotes the text each contradicts.

1. `BroadcastAfterRecord`: the storage swallows its own lock error, which a
   second unlock by `finally` can cause, and the transaction goes out untracked;
   if it is mined, the broadcaster refuses every new execution from then on.
   The text quoted, "failed again but we ignore it as we are going to handle it
   when processing recorded transactions" (executor.ts 682), is a weak claim: it
   is about a broadcast that has failed twice, for which line 680 has just
   stored the row again.  For the transaction of this run, which the network
   takes, nothing is stored at all, and no text says that this may not happen.
2. `AtMostOnce`: overlapping requests for a slot execute it twice.

What else the models show, where no document of the repository says otherwise:

* a slot can be archived once only (`Archive`): a slot scheduled again stays at
  its place in the queue once it is to be archived a second time;
* the two debt columns are cut at 0 one by one, so a settlement that needs a
  borrow between them leaves debt that is not owed (`clamped` of `DebtExact`);
* each resubmission adds the fee to the debt again, which is why `DebtExact` is
  about executions submitted once; a second run that finalizes an execution
  settles its debt again (`raced` of `DebtCovers`);
* the debt of an execution counts against its own resubmission (`Affordable`,
  `Executor!Refuse`), so that a stored execution may be refused at every attempt
  with nothing going wrong, and its nonce then holds back those after it;
* after a swallowed store and two failed broadcasts the second store leaves a
  row whose nonce is given again (`patched` of `NoncesDense`) and whose fee is
  in no column (`uncounted` of `DebtCovers`);
* of two requests that have prepared one execution together the row keeps one
  nonce; when the node loses the transaction with the other, nobody sends it
  again (`[](contested = {})` of `PromiseFulfilled`);
* a submission that is accepted between the two steps of the admin's archiving
  is deleted (`raced` of `SubmissionKept`);
* an execution that "will retry later" uses up a retry in every run, whatever
  time it was given (`Retried`);
* the slot of a payment is named after the estimated price alone, so that a
  price lowered by the admin after a payment leaves help unpaid, and so does one
  raised between the moment a run works out what is to be covered and the moment
  it looks for the payment: it finds one of the same estimate, made by another
  run for less (`moved` of `FeeCovered`); a payment whose batch failed has gone out all the same
  (`unstored` of `HelpRecorded`);
* `indexOf('revert')` is true of every message that does not begin with it: any
  error of the simulation voids a resubmission (`Validity`);
* a payload that holds another locked payload is refused for every timing that
  can be locked (`Decrypt`);
* the first fees ever set are without grace for those who were told the default
  (`GraceKept`).

## The proofs

Eight modules hold proofs, for every value of the constants that the named
assumptions allow.  Every listed theorem has TLC's agreement on an instance
first, except those about pure functions and sums, which have no behaviour to
run but are about what the runs evaluate.

### The lock

`BroadcasterLockProofs` proves every safety property of run `lock`, for every
set of requests (finite or not), every expiry and first nonce, and every bound
on faults and crashes.  Assumptions: `NoLockAssumption` (NULL is no
request), `NumbersAssumption` (the expiry and the first nonce are natural
numbers).

None of the properties is inductive.  `DistinctNonces` needs to know that a
submission that has not lost its lock holds a nonce equal to `nextNonce`;
`BroadcastsRecorded` that what is about to be broadcast has been stored or
failed; `NoncesDense` that no submission holds a nonce beyond `nextNonce`, that
one that has it and stores a second time without having stored before has lost
its lock or met a database error, and that the row is inserted with the first
nonce.  `LockInv` conjoins these facts:

* `FirstInsert` -- before the row exists nothing was stored or sent, so any
  request that may insert it has read the first nonce;
* `HoldersHold` -- in the section, who has not lost the lock holds it and has
  `nextNonce` as its nonce, and any new execution's nonce is at most that;
* `Provenance` -- where nonces of resubmissions, of pending broadcasts and of
  transactions on the network come from;
* `NetworkFollows` -- the network advances only over what was sent;

with `TypeOK`, `NoncesDense` and `DistinctNonces`.  There is one lemma per
action that it preserves the invariant, with a step per conjunct
(`LockInvStep`), and the theorems follow by the usual temporal step.  Run
`lock` checks `LockInv` on its instance, too.

### The executor

`ExecutorProofs` works in three layers, each an inductive invariant on top of
the one before; assumptions `ProcessesAssumption`, `BoundsAssumption`,
`NullsAssumption`.

* `TypeInv`: `TypeOK` with what a process in the middle of something works on.
* `FinalInv`: what a run is about to write as the end of a transaction (`Found`)
  is its end on the chain, and that is for ever (`EndingStays`: a final nonce
  stays used by the same transaction).  It gives `FinalAlwaysTruthful` and
  `FinalNeverChanges` for any overlap of requests and runs.
* `KeptInv`: the nonce of a row, and of every copy of it that a process works on
  or has read, was given to its slot unless that was skipped (`Known`), and a
  copy has the nonce of the row unless the slot is contested (`Stored`); of two requests with a new
  execution for one slot at most one is at work, or the slot is contested
  (`FreshApart`); and what is on the network is of the row or was skipped
  (`SentKnown`).  It gives `ExecutedAtMostOnce` and the refinement
  `ExecutorKeepsPromise`: `Init` maps to `Promise!Init`; a request that joins
  another is `Contest` of its slot, a step that inserts a row, or changes the
  nonce of a contested one, is `Keep`, a step that finalizes one is `Settle`, and
  every other step is a stutter.
* `NonceInv` adds that only the holder of the lock has a new nonce, which is
  `nextNonce` (`Holding`), that the nonces given out are those below `nextNonce`
  and all of these (`GivenBelow`, `GivenAll`), and that none was given to two
  slots unless one of them was skipped (`GivenApart`); it gives `NoncesApart` and
  `NoncesAlwaysFollowed`.

None of this restricts how requests overlap.  What `NoncesAlwaysFollowed` cannot
say, since it is not so, is that both nonces of a contested slot are followed.

### The scheduler

`SchedulerProofs` has one invariant, `QueueInv`, and everything about runs is
proved through one shape of their steps: whatever a run does in a step, it
derives at most one row from its first one (`Derived`), moves itself in one of
four ways (`Moves`), and may write that row or give its execution to the
executor (`WorkShape`: each action is a `Step`).  `InPlay` are the rows in the
queue and in the hands of runs, of the status check and of the admin; `PlayNext` says that a
row in play after a step was, but for its claims, in play before, or has just
been scheduled.

* `Sounds`: what a row in play claims is true, however old the reading: a
  confirmed transaction has succeeded, a broadcasted row's batch is whole, a
  finalized one's is final.  Claims survive because the chain and the executor
  only go on (`Advance`).  It gives `BatchesWhole`.
* `Placed`: what a run has established about its first row at each point -- the
  batch indices given so far, the cached time not being ahead of the chain, and
  from `decrypt` on that execution is allowed (`RipeAllowed`, `AllowedStays`).
  It gives `NothingEarly`.
* `KeptInv` adds that rows in play of a slot that was not scheduled under a
  process's hands are of its last submission (`LastInPlay`), which gives
  `SubmissionsKept`.
* `MixInv` adds, for slots that were not scheduled again too early, that what the
  executor has is of the last submission, as are the rows that runs have in hand,
  or is a whole batch of an earlier one that no run is about to overwrite
  (`Mix`): a slot that is scheduled again finds nobody with its row and a whole
  batch, so that no run gets beyond the executor's look for an existing
  execution (`MixScheduled`).  It gives `BatchesUnmixed`.

Assumptions: `KindsAssumption`, `NumbersAssumption`, `TimesAssumption`, `SlotsAssumption` (finitely
many rows, for the query with a limit), `NullsAssumption`.

### Submissions and parameters

`SubmissionProofs` has `TypeInv` (`TypeOK`, the clocks' relation, payloads sealed
by the client's rule, no more changes noted than updates made) and on top
of it `ParametersInv`: the value before the current one was replaced at the time
noted (`ReplacedAtUpdate`), readings are as old as they say (`ReadInPast`), and
what a client was told is the current value or, after one change, the one before,
which was current when it was fetched (`ToldLately`).  From these follow
`GraceAlwaysKept` and `OnlyFreshAccepted`; `SealedUntilAlmostAsked` and
`PayloadsOpenInTime` follow from `TypeInv` and the arithmetic of rounds
(`RoundBounds`, `DueAfterAsked`), for every timing and length of round.
Assumptions: `DelayAssumption`, `DefaultAssumption`, `TimesAssumption`,
`ValuesAssumption`.

### Sums

What all executions owe, what is reserved for all of them and the average of a
fee history are sums over sets of any size, `SumFunction` of the community
modules, which is defined by recursion.  The installed provers cannot
instantiate an induction theorem that takes a predicate, but a predicate on the
subsets of a set is a set of subsets: `SubsetInduction` states induction that
way, from the least element of a set of numbers (`LeastNumber`).  `SumProofs`
shows that the recursion has a solution (`SumsExist`), that it does not depend
on the order of the elements (`SumsCommute`), and from it what the other proofs
use: a sum changes by what one of its terms changes by (`SumChange`), grows with
its terms (`SumMonotone`), is a multiple when they are equal (`SumConstant`) and
a natural number when they are (`SumOfNaturals`).

### Gas estimates and fees

`FeePolicyProofs` proves first what holds of the functions, for any prices:
`EstimateAboveBaseFee` (for blocks that were full also above what the
next block but one can ask, by `AFifthCovers`: the estimate's increase by a
fifth is at least EIP-1559's eighth), `SignedWithinAuthorization`, and
`UrgencyStays`; and that a history of real blocks, of any length, makes an
estimate (`EstimateType`).

It then proves all properties of run `fees`, for any number of
runs, any histories, prices, gas and bounds (`PricesAssumption`,
`BoundsAssumption`, `NoPriceAssumption`).  Three invariants carry them:

* `FeeInv` follows a run: it goes on to pay only when the authorization is
  exhausted, what it has worked out is for an estimate above the base fee and
  above the worst price, and without help it stays within the authorization
  (`SoundAt`).  `FeeTypeCorrect` (no payment of a negative value),
  `EstimateAlwaysCovers` and `HelpAlwaysEnough` need no more.
* `HelpCovers` is why `FeeAlwaysCovered` holds although runs overlap and read
  rows that others write: not only the fee but every `upToGasPrice` that is
  recorded, or that a run has read, and every payment that a run may find is
  covered by what was sent.  A run sends what is missing from the help *it has
  read*, so its own price is covered afterwards (`PaymentCovers`), whatever
  others sent in between.  A payment is measured from the worst price that is
  expected now, which is why the admin can break it: by lowering that price, or
  by changing it while a run holds one worked out from the old.  The proof needs
  exactly the two exceptions of `moved`.
* `RecordExact` adds to `HelpRecorded` that a run at work has read what is
  recorded, as long as no other has written beside it (`RecordPay`).

### Debts

`DebtLedgerProofs` proves that an update of the two columns, for every debt and
every offset, makes the debt no smaller than the exact sum, and equal to it if
no column is cut (`UpdateCovers`, from `PartsOfOffset`: quotient and remainder
towards zero make up the offset), and that columns, rows and runs keep their
types (`LedgerTypeCorrect`) for all fees, costs and amounts of help
(`BaseAssumption`, `AmountsAssumption`, `NamesAssumption`).

For any finite set of executions (`ExecutionsAssumption`) it proves the three
properties of run `debt`, `DebtAlwaysCovers`, `DebtAlwaysExact` and
`ReserveAlwaysSuffices`, for any number of runs and requests that overlap, with
locks that expire or are unlocked by others.

* `FollowInv`: until a request has stored its execution nobody has
  (`RequestsOwn`); the row a run has read was open, and is mined when the run is
  about to settle it (`RunsRead`); every row has the fee on what was authorized
  (`RowsPriced`).
* `DebtInv` adds the two properties themselves: until a run writes for a row that
  has changed (`raced`), a settlement is made from the row that is there and
  changes what the execution owes by exactly the offset (`SettlementExact`), and
  the second store changes it by the fee of one more `uncounted` execution, so
  that the two sides change by the same or the columns by more (`OwedMoves`).
* `SolventInv`: as long as nothing happened that `ReserveSuffices` makes an
  exception of (`Quiet`), the balance pays the debt and, beside it, what every
  scheduled execution still needs: its cost and fee before it is sent, its cost
  until it is mined (`Need`).  A request that holds the lock has read a debt that
  may have become smaller, so what it has read is part of the invariant
  (`Solvent`).

### Chain protocols

`ChainProtocolProofs` proves `FinalTrue` for every expectedFinality, depth of
reorganisations and length of the chain (`FinalAnswersTrue`), under
`DepthAssumption`.  `FinalTrue` is not inductive: a run acts on what it has
read.  `ProtocolInv` adds that a receipt is true of the chain unless its block
has been replaced, and was then among the last `MaxReorg + grown` blocks
(`ReceiptTrue`), and that a transaction without receipt can since have been
included among those only (`AbsenceTrue`).  `NewBlocksKeep` is where the depths
are added up; `Growth` is what it needs about sequences.

### Model-checked only

* `PromiseFulfilled`, `Completes`, `Reported`: liveness under fairness is out of
  the prover's reach.

## Not modelled

* The dashboard, the documentation site, the ABIs, the command line and
  deployment scripts of the platforms: display, data and configuration.
* Authentication, signatures, derivation of accounts, encryption: calls into
  libraries, of which the models take only that they do what they say.
* The queries of the executor's storage that read without being part of an
  operation, and its schema migrations.
* The order in which pending executions are read, by `nextCheckTime`: `Executor`
  reads any of them up to its limit, so that all that is said of it holds for
  every order.
* The preliminary (batched) transactions of starknet and its encodings;
  starknet's `getTransactionStatus` is in `ChainProtocol`, with its different
  behaviour.
* The admin's deletion of executions, which has the executor forget a slot that
  was finalized: the promise is about an executor that does not forget.
* `getRoughGasPriceEstimate` regroups an estimate for display.
* The width of the debt columns: `debt_0` is never carried over into `debt_18`,
  and is bounded only by the number of fees.

Where a component is `partly` in `PROJECT.json`, its note names which of these
it is about.

## What could be added

A composition of `Executor` and `Scheduler` with the admin's deletions, in which
`ExecutorPromise` is the interface that breaks; the order of the executor's runs
by `nextCheckTime`; what the debt columns stand for when two runs
overlap, as a bound by the number of settlements that were made twice.
