# Verification of the billing service

TLA+ models, TLC runs and TLAPS proofs for the billing service (`src/billing`):
an Encore service with a PostgreSQL database and a Temporal workflow per bill.

## 1. The system

| Component | State | Operations | Interacts with |
|---|---|---|---|
| API handlers (`create_bill.go`, `add_line_item.go`, `close_bill.go`, `get_bill.go`, `list_bills.go`, `async.go`) | none; goroutines on their way to Temporal | CreateBill, AddLineItem, CloseBill, GetBill, ListBills | business service (calls); Temporal: start workflow (in the request), signal and terminate (in a goroutine, 5 s, errors only logged) |
| Idempotency middleware (`middleware/idempotency`) | cache entry per path and key: processing / completed, 24 h | wraps the three writing handlers | handlers, Redis cache |
| Bill business service (`business/bill`) | none | ActivateBill, UpdateBillTotal, CloseBill, AddLineItemToBill, CreateBill, reads | state machine (callbacks under the row lock), currency service, repositories |
| Bill state machine (`domain/bill_state_machine`) | **fields `billTx`, `lineItemTx`, `currentTx`, one set per process** | transitionWithLock and the statements of the transitions | connection pool, repositories |
| Repositories and database (`repository`, `db/migrations`) | tables bills, line_items, currencies; row locks; unique index on idempotency keys | the sqlc statements | |
| Workflow and activities (`workflow`) | workflow position, timer, signal queues, activity attempts (kept by Temporal) | BillingPeriod; Activate-, UpdateBillTotal-, CloseBillActivity | business service |
| Currency conversion (`business/currency`) | none | ConvertAmount, GetCurrency | currencies table, through the pool |
| Connection pool (`pgxpool`, external) | connections | acquire, release | every database call |
| Service (`service.go`) | the pool, the Temporal client and worker | initService, Shutdown | all of the above |

What is hard here: calls of one process share the state machine's fields; a
close is three statements that race with new line items; transactions fail,
time out ambiguously or die with the process at any statement; activities run
at least once; signals, terminations and the start of the workflow can be lost
or come late; the timer of the workflow is relative. `PROJECT.json` lists each
of these hazards at its line with the properties that watch it.

What makes each component correct:

* **State machine and business service** - every committed transaction is one
  legal step of the bill's life; the total of a closed bill is the sum of its
  items; a closed bill never changes; what was acknowledged is committed; every
  call returns.
* **Workflow and handlers** - a bill is not active before its start and not
  auto-closed before its end; a started bill is closed in the end, whatever is
  lost or retried; a bill nobody watches takes no items; a workflow gives up only
  when retries cannot help any more.
* **Middleware** - a request is applied once and its duplicates get the same
  answer, their own; who is refused is refused for something that is stored; a key
  is blocked only by a request under way or by a mishap.
* **Connection pool** - holders of connections do not wait for each other for
  ever.
* **Conversion** - what is stored is what the amount is worth, up to half a cent;
  whole cents stay exact; totals do not overflow silently.
* **Reads** - whatever is committed between the two statements of a read, the
  answer makes sense: the total shown is covered by the items shown, a closed
  bill is shown whole, and paging misses no bill.

## 2. The modules

| Module | Models | Its state |
|---|---|---|
| `BillLifecycle` | the committed rows: what the service promises a reader | `row`, `items` |
| `BillStateMachine` | the transaction protocol that implements it | the rows; per call: `pc`, `call`, `res`, `on`; per process: `billTx`, `lineItemTx`; per session: `tx`, `holds`, `draft`, `fresh`; `crossed`, a history variable |
| `BillingPeriod` | handlers, goroutines, workflow and activities around one bill | the rows, the clock, the workflow (`wf`, `due`, `act`, queues), the goroutines |
| `Idempotency` | the middleware around duplicate requests | per request: `pc`, `req`, `response`; `cache`, `rows` |
| `BillReads` | GetBill and ListBills on the rows of `BillLifecycle` | the rows; `created`; `reader`: the read under way |
| `ConnectionPool` | the connections and row locks of one instance | per call: `pc`, `call`; `conns`, `lock` |
| `ConvertAmount` | the amounts of a bill: conversion, line items, total | `currency`, `items`, `total`, `status` |
| `*Proofs`, `BillStateMachineRefinement` | theorems, see section 4 | |
| `MC*` | constants and symmetries of the runs | |

`BillReads` extends `BillLifecycle`: between any two steps of a reader every
transaction may be committed. `BillStateMachine` instantiates `BillLifecycle` as `Data` (its rows are the
committed ones, a closing call is its own reason) and checks `Data!Spec` as the
property `Lifecycle`. `BillingPeriod` instantiates it as `DB` and uses its
actions as the effects of the activities and handlers: a transaction is atomic
there because `BillStateMachine` shows it is, and that the row then lives the life
of `BillLifecycle` is no property of the workflow but how it is written down.

`ConnectionPool` and
`ConvertAmount` look at one call each in a way the others leave out: what it
waits for, and what it computes.

### BillLifecycle

A total is the set of item keys it sums, so that two totals are compared item
by item; NULL is `NoTotal`, which readers are shown as 0 (`Shown`).
`Recalculate` has no status guard because `UpdateBillTotal` has none: it may run
on a closed bill, and `ClosedIsTerminal` says why that is harmless.

### BillStateMachine

A call is a `pc` over the statements of `transitionWithLock` and its callback.
`Begin` opens the session, `SetBillTx` and `SetLineItemTx` are the two
assignments to the shared fields, `Send` reads the field and hands the statement
to that session's connection, and one action per SQL statement
(`GetBillForUpdate`, `UpdateBillStatus`, `UpdateBillClosure`, `UpdateBillTotal`,
`CreateLineItem`) is its execution by the server and the callback's reaction.
`on[o]` is the session the statement really runs on: the call's own one, unless
another call of the process has replaced the field. `StatementFails` is any error
or lost connection at any statement, `CommitLost` the ambiguous commit, `Crash`
the death of a process.

`crossed` remembers whether any statement has run on another call's transaction;
no action looks at it.

The server is PostgreSQL at READ COMMITTED, external to the repository: lock
modes FOR UPDATE / NO KEY UPDATE / KEY SHARE with their conflicts, inserts that
wait for an uncommitted equal key, transactions aborted by a failed statement
(with their locks released), pgx's "conn busy" and "tx is closed". It also looks
for sessions that wait for each other in a circle and fails a statement on one
(`Awaits`, `Circles`, `DeadlockDetected`): as long as calls keep to their own
transactions there is no circle (`NoCircles`), but three calls that share them do
get into one. One call locks b1 and waits to insert a key that a second call, its
field overwritten, has inserted through the session of a third one, and that third
one waits for b1. Left out:
that a blocked UPDATE evaluates its sub-select on the snapshot from before it
waited (a call that holds the row lock never waits there; only calls that share
a transaction could see more anomalies than the model shows); that a server
process may outlive its client's connection for a moment.

`Overlap` is the switch between the design and the code as deployed. With
`FALSE` an instance is in one call at a time; several instances still work in
parallel on the same database. With `TRUE` it is given calls at any time, as
Encore's HTTP server and the Temporal worker do. Overlapping calls may lose what
they were promised, but only from the first crossing on (`LossNeedsCrossing`),
and calls that do not overlap never cross.

### BillReads

`GetBill` reads the row, then the items; `ListBills` reads a page, then the
number of bills; the client of a listing asks for the next page (`NextPage`) until
`offset + limit` reaches `total_count`. One reader is enough, because reading
writes and locks nothing. `created` is the `created_at` of each bill, chosen
freely at the start: it is the time of the transaction, so a bill may be stored
after another and still have the earlier stamp. `PagesMissNothing` is therefore
about the bills that were there when the client began, and excepts those that
share their stamp with another one, for which `ORDER BY created_at DESC` promises
no order. The page size is normalised by `PageSize` as the handler does it.

### ConnectionPool

Three kinds of calls: `update` (all transactions that stay on their connection),
`convert` (a new line item in another currency, which reads two currencies, each
on a second connection, while its row is locked) and `read` (two statements
without a transaction, and CreateBill). A call waits in `begin` and `lock` on
lockCtx, which `TimesOut`, and in `first` and `second` on the context of the
request, which only the client ends (`Cancelled`). `conns` holds the connections
in use; which one a call gets makes no difference. The database, the pool and
the timer are external. Left out: connections the pool closes by age, and other
instances, whose locks would only add waits that lockCtx bounds.

### ConvertAmount

The computation is modelled with integers: a rate is a number of 10^-8 units
(`decimal(18,8)`), the exchange rate a quotient rounded half up to 1 / `Precision`
(the 16 digits of shopspring's `Div`), the product is rounded half up again, and
`IntPart` keeps the low bits of what does not fit. `UpdateBillTotal` fails when
the sum leaves the range, as PostgreSQL's cast to bigint does. The widths are
constants: TLC runs with 9-bit integers and a precision of 100, the theorems
hold for all. Assumed: a rate survives the float64 it is read through, which is
so up to 15 significant digits.

### BillingPeriod

One bill, one workflow. `Validate` and `CreateBill` are separate steps because
the clock may move between them: an omitted start time is filled in after the
end time has been checked. `wf` is the place in `BillingPeriod()`; `act` the activity
it waits for, with its attempt number and phase. An attempt may fail without
effect (`AttemptFails`: with an error of the business layer, such as a database
that cannot be reached or a lock that is not had in time, or `lost`: the worker
died, or its dependencies are not set yet while the service starts) or succeed
unreported (`AttemptForgotten`, for the activities in `Forgetful`: a commit whose
answer is lost, a worker that dies, or a shutdown, which closes the Temporal
client before it stops the worker). Some errors return whatever is tried
(`Effect`): activating a bill that is not pending, and totalling or closing one
whose items have a sum that does not fit the total (`Overflows`, `Fits`). Temporal
retries up to `MaxAttempts`, except an error of the business layer that a
recalculation meets, which the code makes non-retryable. `Select...` are the three cases of the selector, any ready one of
which may be taken. The goroutines of `safeAsync` are counters of messages under
way that may be lost. The clock is an integer that may advance at any moment, so
every step may be late. Nothing in the service sends the close-bill signal; the
model lets an operator do it, because the workflow listens for it. Left out:
backoff delays (any delay is possible anyway) and an attempt whose transaction
commits after Temporal has timed it out.

### Idempotency

A request is a `pc` over the calls of `IdempotencyMiddleware`: look up (`Get`),
mark (`MarkAsProcessing`), the handler, store (`MarkAsCompleted`) or delete
(`DeleteEntry`). They are separate calls to a shared cache, hence separate
actions, and any of them may fail, carried out or not (`Unsure`). The handler is one step, since
`BillStateMachine` shows that its transaction is one: it inserts a row unless the
unique index has its key (`Apply`, `AlreadyApplied`), or closes the bill, which
may be repeated, or fails, also after its commit (`HandlerFails`). Bodies stand
for their hashes; a row stands for what a response shows of it. Left out: MD5
collisions, and the fallbacks for an unknown status or an unreadable response,
which no entry the middleware writes leads to.

## 3. The runs

| Run | Question | Result |
|---|---|---|
| `reads` | what a reader may rely on: of the rows (`ClosedTotalIsFinal`, `ItemsNeedStart`, `ClosedIsTerminal`, `TotalsGrow`) and of answers put together from two statements (`ReadTotalCovered`, `ReadClosedIsExact`, `PagesMissNothing`) | holds |
| `locking` | does the row lock make each transaction one step of `BillLifecycle` (`Lifecycle`), with `ClosedTotalIsFinal`, `NoHalfClosedBill`, `AcknowledgedIsCommitted`, and without calls that wait in a circle (`NoCircles`), when no process overlaps calls, also with the fields an earlier call or a crash has left behind? | holds |
| `shared` | what survives when three calls of a process overlap: `OneItemPerKey`, everything up to the first crossing (`LossNeedsCrossing`), and `CallsReturn` | holds |
| `shared_total` | is the total of a closed bill final when calls of a process overlap? | **violated** |
| `failed_close` | does a failed close leave `attention_required` (`FailedCloseIsFlagged`)? | **violated** |
| `period` | is a bill active and closed on time (`OnTime`); no items without a workflow (`UnwatchedTakesNoItems`); when a workflow fails (`GivesUpOnlyAfterFaults`); is a started bill closed with all its items, and does its workflow end (`EventuallyClosed`, `ItemsAreTotalled`, `WorkflowEnds`)? | holds |
| `period_unwatched` | does an active bill always have a workflow to close it (`ActiveIsWatched`)? | **violated** |
| `period_late` | are items refused after the end of the period (`ItemsWithinPeriod`)? | **violated** |
| `idempotency` | have duplicates one row and one answer (`SameAnswer`), the client's own content (`AnswersOwnBody`), refusals a reason that is stored (`RefusedRightly`); are there no more blocked keys than mishaps (`MishapsBlock`), and are successes remembered (`Replayable`)? | holds |
| `pool` | how many calls can keep a connection and wait for another (`JamTakesBills`), and does every call return (`CallsReturn`) with more connections than bills? | holds |
| `pool_jam` | does every call return with as many bills as connections? | **violated** |
| `conversion` | how far is what is stored from what an amount is worth (`NearExact`, `WholeIsExact`, `TotalNearExact`)? | holds |

What the violations show:

* `shared_total`: a close whose field was overwritten runs its statements in
  the transaction of a concurrent AddLineItem; the AddLineItem commits the bill as
  closed together with its own item, which the total misses. In the same
  configuration `AcknowledgedIsCommitted` fails as well: a close answers "ok"
  after committing its own empty transaction.
* `failed_close`: the failure transition is written in the transaction that the
  returned error rolls back; after a failed statement it is refused anyway.
* `period_unwatched`: an activation that was committed but not reported is
  retried and refused ("must be pending"), the workflow fails, and the bill stays
  active with nobody to close it. The close activity does not have this
  problem, since closing a closed bill succeeds.
* `period_late`: the timer runs for end - start from the moment the workflow
  reaches it, so a worker that was down at the start shifts the end.
* `pool_jam`: conversions on different bills take all connections and each waits
  for one more, on the context of the request; lockCtx does not bound that wait,
  so they hang until their clients go away, and everything else with them.

What the passing runs concede: `MishapsBlock` allows a mishap to block a key (the
error of the call that should delete the entry is only logged, and the entry
stays for up to 24 hours); `EventuallyClosed` allows a workflow to fail, and
`GivesUpOnlyAfterFaults` says when; it, `ItemsAreTotalled` and `WorkflowEnds` except
an active bill whose items have a sum beyond bigint (`Unclosable`): nothing closes
such a bill, and its workflow tries for ever; `NearExact` and `TotalNearExact` are about amounts that fit, the
others wrap around; `PagesMissNothing` excepts equal stamps.

Deadlock checking is off in all runs: calls, requests and the clock are finite
and the system may rest. Waiting for ever is covered by the liveness properties.

### Bounds

* `reads`: 3 bills, so that one can be listed, one pushed to the next page and one
  created meanwhile; 2 keys, 2 closing calls, 3 stamps (with ties); pages of 1 and
  2, the default size and one above the limit.
* `locking`: 3 calls of any kind on 2 bills with 1 key: two calls race and a
  third one meets their effect or waits for either; the single key makes inserts
  on different bills collide; two of the calls share an instance, one after the
  other. `shared` (`ThreeSpec`): 3 calls on 2 active bills with 1 key, all begun in
  one instance, which is what the circle above takes; two of them are new line
  items and the third is of any kind, so that keys and row locks are waited for
  both ways; what fails is a commit or a conversion of the third call, and a
  statement where the server breaks a circle. `shared_total` needs only 1 bill.
* `period`: 3 items, any two of which have a sum that fits and all three have not;
  3 attempts and 3 faults, so that attempts can just run out; 1 close signal; periods that start now, later, at an omitted time, and
  of length zero; 4 instants, the last of which stands for all later ones.
* `idempotency`: 3 requests, so that two duplicates overwrite each other's entry
  and a third one meets the result; 2 bodies, 2 keys; two bills that share a table
  and one path that closes; 3 mishaps, so that they can follow each other on one
  key and fall on both.
* `pool`: 3 calls of each kind on 2 bills with 3 connections, the smallest pool
  that is larger than the number of bills and yet full with 3 calls; `pool_jam`
  takes one connection away.
* `conversion`: 3 items, each in any currency, of 5 amounts on both sides of the precision, 6
  currencies: equal, coprime, far apart, zero, disabled; integers of 9 bits, so that
  converted amounts and sums leave the range.

### Fairness

`BillStateMachine!FairSpec`: weak fairness of each call's next step, i.e. its
goroutine and the server run. `DetectedSpec`, which `shared` runs, adds that the
server's deadlock detector acts on a circle that lasts (PostgreSQL looks for one
after `deadlock_timeout`, a second by default). Without it `CallsReturn` would
fail: the circle of three calls stands. With it nothing else is needed: the five
seconds of lockCtx, which bound the wait for the row lock, and the deadlines of
activities may end a wait earlier, but an INSERT on behalf of an API request has
no deadline of its own. `BillingPeriod!FairSpec`: weak fairness of time, of Temporal and its
worker, and of goroutines that were started; requests are never forced, failures
are never forced. `ConnectionPool!FairSpec`: weak fairness of each call's own
steps (connections and locks are handed to those who wait, statements are
answered) and of its lockCtx timer; clients are never forced to go away, so a
call has to return by itself.

## 4. The proofs

`BillLifecycleProofs`, for all sets of bills, keys and reasons: `TypeCorrect`,
`ClosedTotalCorrect`, `NoHalfClosed`, `ItemsNeedStartCorrect`, and the action
properties `ClosedIsTerminalCorrect` and `TotalsGrowCorrect`. The inductive
invariant `IInv` is, per bill (`BillInv`): the total counts only items the bill has
(needed for totals to grow), a bill not yet started has none (needed to close
it with a NULL total), a closed one counts all. The lemma `SumOfMore` says that an
item of one bill does not change the sum of another.

`BillStateMachineProofs`, for all sets of calls, bills, keys and instances and
either value of `Overlap`: `TypeCorrect`, and `OneItemPerKeyCorrect`. The latter
needs `SeenOnce` and `PendingApart`, because a key may be taken by an item that is
not committed yet: no session sees a key twice, and no two sessions hold the
same key uncommitted. It holds even when calls run their statements on each
other's transactions, since the index belongs to the server.

`BillStateMachineRefinement`, for all sets of calls, bills, keys and instances and
either value of `Overlap`: up to the first statement that runs on another call's
transaction, every step is one of `BillLifecycle` or a stutter, and if there never
is one, `Lifecycle` holds (`Implements`); until then totals are final, closes
whole and acknowledged effects stored (`LossNeedsCrossingCorrect`), no sessions
wait in a circle (`NoCirclesCorrect`), and nothing a reader sees of a closed bill
changes (`ClosedIsTerminalCorrect`). The argument:

* `Own`: a call's statements run on no transaction but its own. This is what
  `~crossed` gives, and `shared_total` shows that it cannot be dropped.
* `Exclusive`: one session at a time holds a bill's row FOR UPDATE.
* `Locked`: once a call has that lock, what it has read is still so, and what it
  has written is what its callback builds on. `Written` says so statement by
  statement, e.g. of a close of an active bill before its last statement: the
  draft is "closing" with the sum of the items that are committed *now*. It is
  preserved by other commits because they change only bills their own calls have
  locked (`CommitEffect`, `FinishStep`).
* `Clean` and `Held`: a transaction that has not reached the lock has written
  nothing; afterwards it holds locks on its own bill only, and has an item in hand
  only at its commit.

`LockInv` is the conjunction; it was model-checked as an invariant before it was
proved. `CommitEffect` then maps each commit to `Activate`, `AddItem`,
`Recalculate`, `CloseUnstarted`, `CloseStarted` or a stutter, and `DiskStep` every
other step to a stutter. `Answered` adds that no step of `BillLifecycle`
takes back what was stored (`StoredStays`). In a circle nobody would have an item
in hand, since who has one is about to commit; so each would wait for the row of
its bill that the next one holds, while holding it itself.

The lemma `NeverCrossed` closes the gap for calls that do not overlap: with
`~Overlap` an instance is in one call at a time (`Alone`), so the field a call
reads for each statement is the one it stored (`OwnFields`), and no statement ever
crosses over. What `locking` checks follows from it and the theorems.

`BillReadsProofs`, on top of the theorems about `BillLifecycle`:
`ReadersDoNotDisturb` (a step with readers is a step of `BillLifecycle` or a
stutter, so that all its theorems hold with readers), `ReadTypeCorrect`,
`ReadTotalCoveredCorrect`, `ReadClosedIsExactCorrect`, for all sets of bills and
items, and `PagesMissNothingCorrect`, for any finite set of bills and any limits.
The invariant of a GetBill under way is that the total it has read counts only
items the bill has *now*, and exactly these if it has read "closed"; it holds
because items are never taken away and a closed bill gets none. The invariant
of a listing is about positions: a bill there was at the start and has not been
shown has at least `offset` bills that are newer than it or as old; those that are
created meanwhile only add to them.

`ConnectionPoolProofs`, for all sets of calls and bills and any size of the pool:
`TypeCorrect` and `JamTakesBillsCorrect`. Each call that waits with a connection in
hand has locked a row of its own (`GreedyHaveBills`), so there are never more of
them than bills they are about. A pool with more connections than bills is
therefore never jammed by them; nothing in the code keeps the number of bills that
low, and `pool_jam` shows what happens when it is not.

`ConvertAmountProofs`, for all rates, precisions, widths and amounts:
`TypeCorrect`, `NearExactCorrect`, `WholeIsExactCorrect`. Each rounding is off by
at most half a unit (`RoundDivError`), the first error is multiplied by the amount
(`ConversionError`), and a whole number of cents is nearer than any other when the
amount is below the precision. `TotalNearExactCorrect` adds these errors up over
any number of items in any mix of currencies, brought to one unit by a common
multiple of the rates (`Unit`, `FinerUnit`, `ItemWorth`). The library defines a sum by a function on the subsets of a
set that refers to itself, and picks it by CHOOSE; `LeastSubset` (a non-empty set
of subsets of a finite set has a least one, from the library's theorem that
strict inclusion is well founded) takes the place of induction: for a least
subset without such a function one could be put together (`SumsExist`), on a
least subset two of them could not differ (`SumsAgree`), and on a least subset
where the errors were too many one item could be taken out (`SumsNear`).

`IdempotencyProofs`, for any numbers of requests, paths, keys, bodies and mishaps:
`TypeCorrect`, `SameAnswerCorrect`, `AnswersOwnBodyCorrect`,
`RefusedRightlyCorrect`, `MishapsBlockCorrect`, `ReplayableCorrect`. The answers of
success rest on an invariant that a row which is kept anywhere, in
a completed entry or in an answer, fits the path, key and body it is kept for
(`Fit`), and on `RowsApart`: no two rows are in each other's way, since the second
one would have been turned down. For the refusals, `RefusedInv` adds that the hash
of a completed entry is that of a request with the same key. `MishapsBlock` is not inductive, because a
request that is refused makes a blocked key look like one in use while it lasts;
`FewLeft` counts only requests that have marked an entry themselves as holders.
`Replayable` needs all of this: an entry changes under a success only by the step
of a duplicate; one that completes writes the same row (`RowOfSuccess`), one that
deletes was turned down (`DropsRefused`), and one that is answered "busy" has met
the entry of a third request that is on its way, since without a mishap nothing
is left in processing (`NoneLeft`).

`BillingPeriodProofs`, for any period, retry policy, set of keys and number of
faults: `OnTimeCorrect`, `UnwatchedCorrect`, `GivesUpCorrect`, `TypeCorrect`,
`ClosedForGood`. The invariant ties the
place of the workflow to the status of the bill (`Stage`), to the clock (`Clock`:
the timer is never set before the end of the period), to the activity
(`Acting`: an attempt may outlive a workflow that was terminated, but then the
bill is closed), and counts the failed attempts against the faults (`Excused`).
It was model-checked as an invariant before it was proved. `TypeCorrect` adds
`Counted`: the signals on their way and in the queue are together no more than
the line items. The transactions of handlers and activities are actions of
`BillLifecycle` by definition, provided that a close has a reason (`CloseReason`,
`LivesTheLife`), and `ClosedForGood` is what the theorems about `BillLifecycle`
then say of the bill: activities that are repeated, or that outlive a terminated
workflow, change nothing of a closed bill.

Assumptions: the named ASSUMEs of the modules. They say that NULL, the absent
row, body and call are not values, that each call goes to an instance, that
bounds and widths are natural numbers, that a bill has finitely many line
items and a listing finitely many bills, that a set of items is beyond bigint if a
part of it is and one item never is (amounts are positive bigints), and that the
rates have a common multiple, as finitely many have. No theorem about the service
assumes that calls do not overlap or that the pool is large: only the lemma
`NeverCrossed` has `~Overlap` as a hypothesis, which the code does not guarantee.

Only model-checked: liveness (`CallsReturn`, `EventuallyClosed`,
`ItemsAreTotalled`, `WorkflowEnds`), which is beyond the prover. Every invariant
and every action property that a passing run checks is a theorem, or, for those of
`locking`, follows from one by `NeverCrossed`.

## 5. Plan

Done: the seven models and their theorems above. Next would be the composition
of `BillStateMachine` with the waits of `ConnectionPool`.

Not modelled:

* HTTP, JSON, field validation and logging: pure data, no state.
* The conversion of ids and offsets to 32 bits in the reading handlers: bills are
  model values here, so it is listed as a hazard without a property.
* The generated queries that nothing calls (`GetBillByIdempotencyKey`,
  `GetLineItem`, `UpdateLineItem`, `DeleteLineItem`, `GetTotalAmountByBill`).
* Start-up and shutdown as such; what an activity meets of them is in
  `BillingPeriod`.
* Generated mocks and the tests.
