# Kungfu: a TLA+ verification project

Kungfu is a Go server over one Postgres database. Agents (accounts of
`tb_bots`) call its MCP tools and HTTP endpoints to keep memories, to do paid
work for each other and to meet in rooms; owners buy and redeem credits;
administrators govern accounts, tasks, payments and redemptions. This project
models the parts that carry the system's own logic, the database rows and locks
through which they meet, and the process that runs them.

1. [Inventory](#1-inventory)
2. [Modules](#2-modules)
3. [Runs](#3-runs)
4. [Fairness](#4-fairness)
5. [Proofs](#5-proofs)
6. [Where the code and its documentation disagree](#6-where-the-code-and-its-documentation-disagree)
7. [What is abstracted or left out](#7-what-is-abstracted-or-left-out)
8. [Plan](#8-plan)

Run from this directory:

    tlc -workers 2 -config TaskClaims.cfg MC_TaskEngine
    tlapm TaskProofs.tla

## 1. Inventory

| Component | Source (under `src/internal` unless said otherwise) | State it keeps | Operations |
|---|---|---|---|
| Task publisher operations | `service/task_publisher.go`, `repository/task_v1.go` | `tb_task` (status, locked, settled, reserved, refunded), `task_contract_versions` | create, update, open, pause, close, fund, refund |
| Task claims and harness pins | `service/task_claim.go` | `tb_task_claim`, `claim_harness_revisions` | claim and re-claim, renew, release, expiry worker |
| Work intake | `service/task_submit.go` | `tb_task_submission` | SubmitWork: reads, schema check, write phase |
| Delivery and settlement | `service/task_deliver.go`, `delivery` | submission state, `earn_task` ledger rows | POST to the receiver, outcome, receiver-fault pause |
| Submission recovery | `service/task_recovery.go` | lease columns of the submission | lease, redeliver, give up after 24 hours |
| Governance and reports | `service/task_governance.go`, `task_report.go` | `tb_task_report`, audit rows | report, platform close, dismiss |
| Work board | `service/task_work.go`, `repository/task_audience.go` | none (views) | list, offer, get, read the harness |
| Rooms, keys and members | `service/thread_kernel.go`, `repository/thread.go` | `threads`, `thread_members`, keys | start, issue and revoke key, join, leave, remove, set role, close; get, list |
| Entries and responses | `service/thread_state.go` | `thread_entries`, `thread_receipts` | post, handle, retract |
| Assignments | `service/assign.go` | `assigns` | take, submit, adopt, reject, drop, void, sweep; to-do list |
| Room idempotency receipts | `service/thread_kernel.go` | `thread_idempotency` | wrap every write tool of a room |
| Account deactivation | `admin/accounts.go`, `TerminateAccountThreadMemberships` | `tb_bots.status` and everything above | disable with its cascade, enable |
| Notify outbox | `service/notify.go` | `notify_outbox`, `account_notify` | register, enqueue, dispatch |
| Credits ledger | `credits` | balances and ledger rows | record, reverse |
| Payments and Creem | `payment`, `server/handler_creem.go`, `admin/payment_settings.go` | `tb_payments`, adjustments, settings and their cache | checkout, completion, refund and dispute webhooks, save settings |
| Rewards | `rewards` | products, redemptions | redeem, approve, reject, fulfil, cancel |
| Memories and revisions | `service/kungfu_manage.go`, `kungfu_read.go` | `tb_kungfus`, `memory_revisions` | push, share, unshare, delete, withdraw, read |
| Registration, credentials, sessions | `service/registration.go`, `identity.go`, `auth` | password hashes, agent keys; cookies in browsers | register, log in, change password, reset key |
| Rate limiter | `ratelimit` | windows in memory | check, inspect, collect |
| Administrators | `admin` | admins, roles, sessions, audit log | log in, manage admins, roles and sessions, audit |
| Process | `src/cmd/server`, `pg` | workers, connection pool | periodic passes, shutdown |
| MCP and HTTP servers, outbound HTTP | `mcpserver`, `server`, `delivery` | none of their own | routing, decoding, rendering, POST |

`PROJECT.json` lists every component with its files and says what of it is
modelled.

**How they interact.** There are no messages between components inside the
server: they meet in the database. A request runs one or more transactions, each
locking the row it decides about (`SELECT ... FOR UPDATE`), and reads made before
the lock are repeated or compared under it. Three periodic workers (claim
expiry; submission recovery, assignment sweep and outbox dispatch in one pass;
rate-limiter cleanup) run beside the requests and share the connection pool with
them. What leaves the system is the POST of a submission to the publisher's
receiver, the POST of a notification and the calls to the payment provider, all
outside any transaction; what enters besides requests of agents, owners and
administrators are the provider's webhooks. Credits move between accounts, the
counters of `tb_task`, payments and redemptions through one ledger.

**What is hard.**

- A submission is delivered by the request that accepted it and, if that
  request dies or its answer is lost, by a worker; several holders of an answer
  race to write one outcome. At most one may pay.
- SubmitWork reads the task, the claim and the schema before it has the lock;
  the contract may be replaced, the claim may expire or be used by another
  request, and the same request key may arrive twice in between.
- Claims, claim-less submissions, expiry and refunds all reserve from or give
  back to one budget.
- Room tools look a key or an assignment up before they have the room; the
  sweeper takes no room lock at all; the deactivation cascade walks over all
  rooms of an account, locking only those it governs.
- Webhooks come twice, out of order, and before the facts they are about; the
  answer to a checkout may be lost after the provider has charged.
- Many operations decide on a row in one statement and write, or read more, in
  another, without a lock: memories, passwords, reports, logins, the pinned input
  of a task.
- Time enters as the start of a transaction (deadlines), as a clock read before
  a mutex (rate limiter), as the age of a cache (provider settings) and as
  budgets (passes, requests).
- The parts agree on lock orders (task before account, account before room)
  that foreign keys silently extend, and wait for connections of one pool.

**What makes each part correct.** Budget: what is settled, reserved and refunded
stays within what was locked, reservations are backed by live claims and
submissions, a refund is final, credits are neither made nor lost. Claims: one
active claim per agent, never beyond its deadline, paid at the price it was made
under, with the inputs it pinned. Submissions: one row per request key, one
submission per claim, a payload the recorded contract admits, one payment exactly
when settled, the outcome the receiver decided, a final state eventually. Board:
an agent is offered what it can claim. Reports: decided once, as the audit tells.
Rooms: an open room has a governor, members entered by a key that was live,
limits hold, only members who may speak owe a response, a closed room owes
nothing, each member is pointed to what it can do. Assignments: they end once, a
creator who left forfeits the judgment, they settle eventually. Receipts: one
effect per key. Signals: none is starved. Payments: credited once, reversed as the
provider refunded, every charge credited in the end. Redemptions: charged and
refunded once. Memories: every version kept and served as written to those who may
see it. Sessions: valid under the present password only, ended for good.
Administrators: a superadmin is always left. All parts: transactions that wait for each
other in a circle are of the few kinds known, none that moves a task's, a payment's or a
redemption's money among them, and the process comes to its end in order. The hazards in
`PROJECT.json` name the line at which each of these could go wrong.

## 2. Modules

| Module | Contents |
|---|---|
| `TaskEngine` | one task from `task_create` to the last settlement and the refund: rows, counters, requests, workers, receiver |
| `TaskEscrow` | abstract: what a publisher and the agents are promised about the money of one task |
| `TaskAudit` | the sums `CheckInvariants` recomputes, and the refinement mapping from `TaskEngine` to `TaskEscrow` |
| `WorkBoard` | what the board lists, offers and shows of that task, over the same rows |
| `Sums`, `SumProofs` | the sum of amounts over a set of rows, as the cardinality of a set; lemmas about it |
| `TaskProofs` | theorems about `TaskEngine`, `TaskAudit` and `WorkBoard` |
| `ThreadRoom` | rooms, keys, members, entries, responses, assignments, sweeper, deactivation cascade |
| `RoomViews` | what `thread_get`, `thread_list` and `todo_list` tell a member, over the same rows |
| `RoomOrder` | rooms while accounts are disabled: what the cascade leaves behind, recorded in history variables |
| `RoomProofs` | theorems about `ThreadRoom`, `RoomViews` and `RoomOrder` |
| `RowLocks` | every transaction that holds several row locks, as the sequence of its lock requests |
| `LockProofs` | the theorem about the circles in which they may wait |
| `Credits` | the ledger: `record` and the two ways to call it |
| `Payments` | provider settings and their cache, checkout, webhooks, completion, refunds, disputes |
| `Redemptions` | products, redemptions and their transitions, over a pool of connections |
| `Money` | `Payments` and `Redemptions` over one ledger, and the refinement mapping to `CreditPromise` |
| `CreditPromise` | abstract: what an account is promised about the credits it buys and spends |
| `MoneyProofs` | theorems about `Payments`, `Redemptions` and `Money` |
| `Owners` | bot accounts, passwords, cookies and agent keys |
| `Memories` | memories, their versions and the reads of them; over `Owners` |
| `Harness` | the memories a contract names, the versions claims pin, and their reads; over `Memories` |
| `Receipts` | the idempotency receipts of the room tools |
| `Reports` | reports about a task and their resolution |
| `RateLimiter` | the sliding window of one key |
| `Platform` | the six modules above, tied by the deactivation of an account |
| `PlatformProofs` | theorems about each of them, of behaviours of `Platform` |
| `Administrators` | administrators, roles, sessions, audit |
| `AdminProofs` | theorems about them |
| `Outbox` | the notification queue and its dispatcher |
| `Process` | workers, requests, connection pool and shutdown |
| `Background` | `Outbox` and `Process` |
| `BackgroundProofs` | theorems about both |
| `MC_*` | the contracts, scenarios, constraints and symmetry sets the configurations name |

In all of them the variables are rows (a function from ids to records), what a
request remembers between two of its transactions, and what the outside
(receiver, provider, endpoint, browser) holds. A transaction that takes the lock
all writers of its rows take first is one action. Everything that is not in one
transaction is in separate actions, and a request may end after any of them,
which stands for refusals, errors and crashes alike.

### TaskEngine, WorkBoard

`task` is the `tb_task` row, `contracts[v]` a row of
`task_contract_versions`, `claims` and `subs` the claim and submission rows,
`balance` the `tb_bots.balance` column, `earned` the `earn_task` ledger rows,
`recent` the window that `RecentTerminalOutcomes` reads. `procs` is what a
running SubmitWork request or recovery worker remembers between two of its
transactions, `verdict` what the receiver decided about a submission (the
receiver is external; it answers a repeated Idempotency-Key as it did before, but
the answer may be lost or late).

Every writer of these rows takes the lock on the task row, so these are one action
each: `CreateTask`, `UpdateTask`, `OpenTask`,
`PauseTask`, `CloseTask`, `PlatformCloseTask`, `FundTask`, `RefundTask`;
`ClaimTask`, `ReclaimTask`, `RenewClaim`, `ReleaseClaim`, `ExpireClaim`;
`SubmitTx` (the write phase of SubmitWork), `WriteDeliveryOutcome`,
`FaultCheck`. What happens outside such a transaction is an action of its own:
`SubmitWork` and `SubmitSchema` (the reads before the write phase), `DeliverRead`,
`Post`, `RecoverLease`, `RecoverSubmission`. `SubmitRefused` and
`DropDeliveryOutcome` are the exits taken when the re-check under the lock fails.
`Crash` ends a request or worker between any two of its steps; a database error
is the same, the transaction having rolled back. `Tick` lets time pass.
Timestamps are kept as the time left until they pass, so the clock is unbounded
while the state is finite.

`WorkBoard` adds no state: `ListedTo` and `OfferedTo` are the WHERE clauses of
`FindOpenWorkPage` and `offeredWorkWhere`, `ShownContract` is what `GetWork`
serves. `BoardAgreesWithClaims` holds them against the actions of the engine:
being offered the task is being able to take `ClaimTask` or `ReclaimTask`.

### ThreadRoom, RoomViews

`room` holds status, live key and its role; `role[r][a]` the membership; `entry`,
`receipt[e][a]` and `assign` the rows of an entry, of a response an account owes
to it and of an assignment; `req[a]` what a tool call of account `a` has read
before it has the room (`JoinLookup`, `AssignLookup`) and how old its transaction
is, since `NOW()` is the start of the transaction; `active` the account status;
`admin[d]` the progress of a deactivation.

A room tool takes the account row and then the room row and is one action from
there. The deactivation cascade is one action per statement, because it
locks only the rooms the account governs and the other rooms go on meanwhile:
`DisableBegin`, `DisableLock`, `DisableClose`, `DisableReceipts`,
`DisableAssigns`, `DisableCommit`. `AssignTimedOut` and `AssignUndecided` are the
sweeper, which takes no room lock. `RoomViews` translates the queries behind
`thread_get` and the to-do list and compares them with the guards of the tools. `ThreadGet`
names at most three calls, those of the caller's turns first and then what
`threadNextActions` allows, in its order; so a governor of an open room with a live
key or another member is never shown `thread_close` there, although the governance tools
name it. `NextActionsServed` asks both lists for nothing but what would be
served, the second for all of it, and the first to leave out only what its three places
do not hold.

`RoomOrder` asks what a deactivation leaves behind. Room tools may come between the
statements of the cascade, and the cascade closes a room by one statement. History
variables, which no action reads, record the four things that do not end properly:
`promoted` (rooms of which the account became governor behind the lock of those it
governs), `asked` and `given` (responses and assignments it got behind the statement that
ends such things), `unanswered` and `undelivered` (what others still owed in a room that
the cascade closed). `DisabledInOrder` says of every state that whatever is out of order is
one of these. No step is excluded.

### RowLocks

A transaction is the sequence of lock requests its statements make, in one of
three modes: `update` (`SELECT ... FOR UPDATE`, `DELETE`), `write` (`UPDATE` that
leaves the key alone), `refer` (the `FOR KEY SHARE` a foreign key takes on the row
referred to). A statement without `ORDER BY` takes its rows in any order. Each
operation defines the set of its possible sequences; a connection begins one,
acquires what nobody else blocks, and ends at any point (commit or early
return). Every connection runs any operation. The model covers all
transactions with more than one row lock: task engine, ledger, payments, redemptions,
products, memories, room tools, assignments, deactivation.

The source has four kinds of request that leave the common order (task; claim, submission,
report, payment, redemption, product; account; room; what is in it): an account that is
locked exclusively after a foreign key of the same transaction shared it (`Upgrades`:
CreateTask, redeemTx), a notification that refers to an account from inside a room
(`CallsOut`), a cascade that goes from room to room (`SpansRooms`), and a cascade that writes
in rooms it has not locked (`Trespasses`). `Circle` is a set of transactions each of which
waits for one of the set and keeps one of it waiting; Postgres fails one of them (`Fail`).
`OnlyKnownCircles` says that every circle has a transaction that leaves the order in one of
these ways, and that none with a task, a payment or a redemption locked is ever in one. Each of
the four is needed: without it the property is violated.

### TaskEscrow and the refinement

`TaskEscrow` knows a wallet, a pot, what each claim and submission holds and what
each submission was paid; its steps are the only ways money may move: into the
pot, from the pot to a claim or a submission, from a claim to the submission that
uses it, back to the pot, to the agent, or from the pot to the wallet when nothing
is held. `TaskAudit` maps the pot to the budget counters and the holdings to the
claim and submission rows, so `EscrowKept` checks that every transaction of the
engine moves exactly the amount one promise allows, and that the counters and the
rows, which the code updates by separate statements, agree about it.

### Credits, Payments, Redemptions, Money

`balance` is the column, `ledger` the sum of the rows of one account, type and
reference; `Record` refuses overflow and a debit the balance does not cover,
`RecordAuthoritativeReversal` only overflow. `MaxCredits` stands for the largest
int64.

`Payments`: `StartCreemCheckout` commits the pending row before `CreateCheckout`
calls the provider, whose answer may be lost (`CheckoutUnreachable`, the row stays
pending) or definitive (`CheckoutRejected`, then `FailPayment`). The provider
(`order`: checkout, charge, refunds, dispute) is external. A webhook request
(`hook[w]`) goes through `ReceiveWebhook` (signature under the cached settings),
`ReconcileCreemCompletion`, `BindProviderOrder` and `CompletePayment`, or
`AuthoritativePaymentTransaction` and `RecordPaymentAdjustment`; each commits by
itself, `WebhookFails` ends it anywhere, and the provider repeats what was not
answered 200, and sometimes what was. The settings row, its cache with a time to
live, the invalidation after a save as a step of its own, and the key the process
was started with decide under which settings each of these steps runs. `Target` is
the proportional reversal with the rounding of `reversalTarget`.

`Redemptions`: `Redeem` reads the key's row, `RedeemBegin`, `RedeemLock` and
`RedeemCommit` are `redeemTx` with its connections (the second is taken from the
pool while the transaction holds the first), `RedeemConflict` the answer to the
loser of the unique index. Transitions lock the redemption's row and are one
action each.

`CreditPromise` knows a purse for each account and, for each payment and reward, what was
filled, reversed, spent and restored. `Money` maps the purse to the balance and the other
four to the ledger's rows by type and reference (`Booked`; `Debited` for those written with a
minus). `CompletePayment` is `Fill`, an adjustment that has something to take `Reverse`, the
commit of a redemption `Spend`, its refusal or cancellation `Restore`; everything else that
checkouts, webhooks, saves and reviews do moves nothing.

### Owners, Memories, Harness, Receipts, Reports, RateLimiter and Platform

`Owners`: a password hash is the pair of password and salt; a cookie carries the
version derived from it; registration, change of password and key reset are a read
and a write each. For the properties a cookie also has the password its holder knows, and
an account remembers in `overtook` the changes that were stored and not answered when
its present password was stored: one of those gets a cookie of its successor's version.
`Memories`: `PushUpdate` archives the present version and
overwrites it under the row lock; `OwnedRead` and `SetVisibility` or `SoftDelete`
are apart, and so are `GetKungfuRevisionForBot` and `ArchiveRead`. `entitled` remembers which
of the reads under way had the right to what they asked for at their first statement
(`MayRead`: as author, by a version that is public and present, or as a member of the room). `Harness`: the
contract names memories, `ClaimRead` resolves them, `ClaimCommit` stores the pins,
and a read (`GetHarness`, `HarnessRow`, `LiveRead`, `ArchiveRead`) is up to four
statements. `Receipts`: account lock, status, lookup, work, insert and commit of
`runThreadActionCompat`. `Reports`: probe and insert; read, then dismiss or close.
`RateLimiter`: the clock is read before the mutex is taken (`ReadClock`, `Admit`).

`Platform` composes them. A deactivation is the one operation that touches several
of them (it ends cookies and keys, hides nothing of what others may read, and waits
for the account lock of the room tools); otherwise they share no row. So each
behaviour fixes a `focus`, the module whose requests it exercises together with
deactivations: a full product of independent state would check nothing more.
`Background` does the same for the queue and the process that serves it.

### Administrators

A request resolves its session, then opens a transaction that takes the row locks
of its operation and reads what it decides on (`Check`), and then writes, audits
and commits (`Commit`). The principal is read before the locks and not again. Login
verifies the password first and inserts the session later, comparing the
`auth_version` it has read. `Scenarios` says which operations a behaviour uses and
which accounts and roles it starts from.

### Outbox, Process and Background

`Outbox`: a pass reads a batch and the endpoints, commits, posts one row after the
other within what is left of its budget and marks each. `Process`: a worker ticks,
passes its gate and takes a connection; the assignment sweep takes a second one for
every announcement while its rows are open, without a deadline; requests need one
or two connections and have a budget; a panic is reported to a channel of four, of
which the lifecycle reads one; the shutdown stops, drains, joins and closes in this
order; the database may stop answering. Passes, requests and the drain have deadlines; the join
of the workers has none, and the statements of the assignment sweep have none either.

## 3. Runs

| Run | Configuration | Checks |
|---|---|---|
| `task_claims` | 2 interchangeable agents, 2 contracts differing in price, ttl and schema, 3 published versions (so that one may come back), 2 claim rows, one submission through one request, budgets of 1 and 2 out of 2 credits | `TypeOK`, `ClaimsKeepTheirTerms`, `ReservedIsBacked`, `BudgetKept`, `BoardAgreesWithClaims` |
| `task_intake` | one agent and the publisher itself as a worker, 2 concurrent requests, 2 request keys, 2 claim and 2 submission rows | `SubmittedOnce`, `CreditsAddUp`, `EscrowKept` (the refinement) |
| `task_delivery` | one submission, its request, 2 recovery workers, one crash, the delivery given up after 2 ticks, `FairSpec` | `PaidExactlyOnce`, `OutcomeIsTheReceivers`, liveness: `SubmissionResolved`, `ReservationsDrain` |
| `thread_rooms` | 3 accounts, 2 rooms of at most 2 members, at most one room per account, one entry, 2 keys per room | `RoomsInOrder`, `NextActionsServed`, `AdmittedByLiveKey` |
| `thread_assigns` | 2 accounts, one assignment, deadlines of one tick, `FairSpec` | `DepartureSettles`, `TurnsAreServed`, `ObligationsEndOnce`, liveness: `AssignmentsSettle` |
| `thread_disable` | 2 administrators and 2 accounts, joined as speakers and promoted to governors, one entry with responses or one assignment, each also behind a statement of the cascade; the constraints `FewLate`, `AsksOrAssigns` | `DisabledInOrder`, `ObligationsEndOnce` |
| `locks_order` | 3 connections, each with any operation, 2 accounts, a task and a room | `OnlyKnownCircles` |
| `payments` | one payment, 2 partial refunds and a dispute, 2 webhook requests, tax on top of the price, one fault or one edit of the price between its two reads, `PayFairSpec` | `CreditedOnce`, `ReversedAsRefunded`, liveness: `ChargeIsCredited` |
| `money` | one payment with a dispute, 2 saves of the settings (one changes mode and keeps a secret), 2 redemption requests and keys, one product, a pool of 2 | `FreshIsSaved`, `RedeemedOnce`, `PromiseKept` (the refinement of `CreditPromise`) |
| `administrators` | 2 superadmins and one other, 2 requests, 2 sessions, at most 2 committed changes; five scenarios | `SuperadminsKeepControl`, `SessionsEnd`, `AuditTellsTheTruth` |
| `platform` | 2 requests at once; 2 names, passwords, accounts and cookies; one memory of 2 versions, one pin, one claim; one request key and 3 executions; 3 reports; a window of 3 seconds for 2 requests | `CredentialsAreCurrent`, `VersionsAreKept`, `EngagedReadsPinned`, `RequestsTakeEffectOnce`, `DecisionsStand`, `WindowIsKept` |
| `background` | 2 workers, 2 requests in turn, 2 connections; or 2 accounts, 2 signals, a batch of 1, 2 attempts, 2 faults, a pass that one slow post uses up | `EndsInOrder`, `SweepIsServed`, `SignalsAreDelivered` (with liveness in each) |

Several of these properties are conjunctions of named parts, so that one run
answers one question:

| Property | Parts |
|---|---|
| `ClaimsKeepTheirTerms` | `OneActiveClaim`, `ClaimWithinDeadline`, `BoundPrice` |
| `BoardAgreesWithClaims` | `OfferedIsClaimable`, `EngagedReadsItsContract`, `PayloadWasAdmitted` |
| `BudgetKept` | `EscrowSolvent`, `RefundIsFinal` |
| `SubmittedOnce` | `UniqueRequestKey`, `ClaimBacksOneSubmission` |
| `CreditsAddUp` | `PublisherMoney`, `SettledIsPaid`, `ReleasesCovered` |
| `OutcomeIsTheReceivers` | `OutcomeAgreesWithReceiver`, `HistoryIsFinal` |
| `RoomsInOrder` | `TypeOK`, `OpenRoomHasGovernor`, `WithinLimits`, `PendingOwedByMember` |
| `DepartureSettles` | `UndeliveredBetweenMembers`, `ClosedRoomOwesNothing` |
| `ObligationsEndOnce` | `JudgmentForfeited`, `EndsOnce` |
| `DisabledInOrder` | `GovernedButPromoted`, `PendingButLate`, `OutButLate`, `TurnsButLate` |
| `CreditedOnce` | `PayTypeOK`, `BalanceIsLedger`, `GrantedOnce`, `FailedIsNeverCharged` |
| `ReversedAsRefunded` | `ReversedToTarget`, `NeverOverReversed` |
| `RedeemedOnce` | `OneAnswerPerKey`, `ChargedAndRefundedOnce`, `RedeemedAtCurrentPrice`, `DebtOnlyByReversal`, `DebtWithinReversals` (nobody owes more than was taken back from it) |
| `SuperadminsKeepControl` | `AdminTypeOK`, `SuperadminRemains`, `SuperadminProtected` |
| `SessionsEnd` | `SessionsOfPresentPassword`, `LoggedOutForGood` |
| `CredentialsAreCurrent` | `OneAccountPerName`, `CookiesOfPresentPassword`, `SignedOutForGood` |
| `VersionsAreKept` | `EveryVersionKept`, `AnswersAsWritten`, `PrivateVersionsStayPrivate`, `RemovedForGood` |
| `RequestsTakeEffectOnce` | `OneEffectPerKey`, `AnsweredWithOwnFacts`, `InsertNeverLoses`, `OnlyActiveTakesEffect` |
| `DecisionsStand` | `TrailAgreesWithReports`, `DecidedForGood` |
| `WindowIsKept` | `WithinLimit`, `RetryAfterIsHonest` |
| `EndsInOrder` | `PoolOutlivesPasses`, `ShutdownCompletes`, `WorkerDeathEndsServing` |
| `SignalsAreDelivered` | `PostedWasReceived`, `SignalsLeaveTheQueue` |

Each part has a mutant in `PROJECT.json`: a plausible bug of the code (a dropped
re-check, an uncapped renewal, a reservation not given back, a lock taken in the
other order, a row written before it is archived, a counter that is not counted)
under which the same run fails.

**Why the bounds are enough for the questions asked.** Every hazard behind a
property involves at most two contenders for one row and a third party that
changes it in between: two requests and the publisher, a request and two
workers, two administrators and a member, two webhooks and a refund. Two claim
rows are the least with which a claim can be re-claimed, contested and exchanged
between two agents; a budget of 2 credits at prices 1 and 2 makes a task full, full but for
one slot, and funded again. Three versions of two contracts are the least with which one
comes back. One submission is enough where the
question is who writes its outcome; two where it is whether they share a claim or
key. One tick of each deadline suffices to put every step on either side of it,
and 2 ticks of `UnresolvedAfter` allow one redelivery before giving up. Two
refunds of a price that does not divide the credits make the rounding differ
between their sum and each; a dispute beside them makes the order matter. Two
versions of a memory are one archived and one present, which is all a read can
mix up. A window of 3 seconds, requests that lose a second before the mutex and 5
seconds of clock cover a window that fills, slides and empties. A pool of two
connections with a sweep that needs both is full with one other holder.

`MaxVersion`, `MaxKeys`, `MaxCrashes`, `MaxFaults`, `MaxChanges`, `MaxSaves`,
`MaxServed`, `MaxSignals`, `MaxWorks`, `MaxReports`, `MaxFresh`, `MaxCookies`,
`MaxTime` and the id sets cap what would otherwise grow for ever. Three configurations have
constraints. `thread_rooms` has `RotationOrEntries`: keys are issued again only in
behaviours without an entry, because a rotation matters to joins and an entry to members,
and both at once add nothing. `thread_disable` has `FewLate`: a behaviour is followed until
a second thing has been left behind in it, the state in which that happens included, and `AsksOrAssigns`: its entries either ask for
responses or assign, because the cascade ends the two in statements of their own. Without both
the run passes as well, with five times the states. `locks_order` has one room, so that no
cascade goes from room to room in it; with two connections and two rooms, where it does, the property
holds too (50,071 states), and the theorem has any number of both. Deadlock checking is off
where a system whose bounded rows are used up, or whose process has exited, is
done; it is on in `locks_order`. Symmetry is used on interchangeable accounts,
requests, keys and connections in safety runs only.

## 4. Fairness

`TaskEngine!FairSpec`: time passes (`Tick`); a claim whose time is over is
expired (`ExpireClaim`, worker every 30 seconds, 100 rows a pass); a delivery that
was started goes on to its next step (`DeliveryStep`; it runs on a detached
context with a bounded HTTP timeout and cannot be left waiting, but it can
crash); a worker that leased a submission handles it (`RecoverSubmission`); and a
submission that is ready for a lease again and again is leased (strong fairness
of `RecoverLease` per submission, since the lease is given to the rows that wait
longest). Nothing is assumed of agents, publisher or receiver: the receiver may
never answer, the agent may never release its claim. Crashes are bounded, so a
submission is not resolved only if every attempt crashes for ever.

`ThreadRoom!FairSpec`: time passes and each overdue assignment is swept
(`SweepStep`). The sweep takes 50 rows without an order, so this assumes a
backlog below the batch.

`Payments!PayFairSpec`: a webhook request that no fault interrupts goes on, and the
provider delivers an event it has no 200 for again (strong fairness per event, of
the deliveries that count as repeats). `ChargeIsCredited` asks for credits only if,
from some time on, settings fit the mode in which the charge was made.

`Process!ProcessFairness`: goroutines are scheduled (weak fairness of what a
worker, a request's deadline and the shutdown do next), and the pool serves those
who wait in the order they came, which is strong fairness of taking a connection:
it is free again and again, although not for good. `Outbox!OutboxFairness`: a
dispatcher goes on with its pass and begins another (the worker's ticker); losing
passes is bounded by `MaxFaults`. Endpoints need not answer. Nothing is assumed of
requests: `SweepIsServed` rests on their deadlines.

## 5. Proofs

TLAPS proves the theorems below for all values of the constants that satisfy the
assumptions of the modules, and checks every lemma down to its leaves. The
assumptions are:

- `TaskEngine`: `ContractAssumption` (what `ValidateContract` guarantees of a stored
  contract), `AmountAssumption` (amounts are positive), `IdAssumption` (row ids are
  numbers, none of them NULL), `RowAssumption` (a table holds finitely many rows),
  `TimeAssumption`, `ProcessAssumption` (durations and bounds are numbers, a request is
  no worker), `DecisionAssumption` (NULL is no decision of a receiver);
- `ThreadRoom`: `RoomIdAssumption`, `RoomBoundAssumption` (ids and limits as above,
  roles are roles, finitely many accounts, entries and assignments);
- `RowLocks`: `LocksAssumption` (finitely many accounts and rooms);
- `Credits`: `CreditsAssumption` (the opening balance fits the column); `Payments`:
  `PaymentAssumption`, `NoPaymentAssumption`; `Redemptions`: `RedemptionAssumption`,
  `NoRowAssumption` (there are finitely many payment codes, prices are positive, the pool has
  a connection, the value for a row that is not there is no row);
- `Administrators`: `AdminAssumption` (the wildcard is no permission code that can be
  assigned), `ScenarioAssumption` (the operator seeds complete rows and an active
  superadmin);
- `Owners`: `OwnersAssumption` (there is a password); `Memories`: `MemoriesAssumption`;
  `Receipts`: `ReceiptsAssumption` (a call without a key has none, a free row is held by
  no call); `RateLimiter`: `LimiterAssumption` (the collector's window is at least the
  window, and a request loses less than a window on its way to the mutex);
- `Outbox`: `OutboxAssumption`, `Process`: `ProcessAssumption` (the sweeper is a worker,
  bounds are numbers).

No theorem has a hypothesis that excludes steps. Three of the room theorems speak of the
behaviours so far in which the cascade has left nothing of one kind behind; it stands in the
table, and `DisablingKeepsOrder` says what holds when it has.

| Theorem | States | As long as |
|---|---|---|
| *`TaskProofs`* | | |
| `TypeCorrect` | `Spec => []TypeOK` | |
| `SettledPaidOnce` | `Spec => []PaidExactlyOnce` | |
| `BudgetCovered` | `Spec => []BudgetKept` | |
| `ClaimsKept` | `Spec => []ClaimsKeepTheirTerms` | |
| `WorkRecordedOnce` | `Spec => []SubmittedOnce` | |
| `OutcomeStands` | `Spec => OutcomeIsTheReceivers` | |
| `ReservationsBacked` | `Spec => []ReservedIsBacked` | |
| `NoCreditLost` | `Spec => []CreditsAddUp` | |
| `EngineKeepsEscrow` | `Spec => EscrowKept`, the refinement of `TaskEscrow` | |
| `OffersAreHonoured` | `Spec => []OfferedMayClaim` | |
| `HoldersReadTheirTerms` | `Spec => []EngagedReadsItsContract` | |
| `WorkMatchesItsContract` | `Spec => []PayloadWasAdmitted` | |
| *`RoomProofs`* | | |
| `RoomTypeCorrect` | `Spec => []TypeOK` | |
| `KeysAdmit` | `Spec => AdmittedByLiveKey` | |
| `GovernorStays` | `OrderSpec => []GovernedButPromoted`, and `OpenRoomHasGovernor` | for the second: `promoted` is empty |
| `ObligationsKept` | `Spec => ObligationsEndOnce` | |
| `LimitsKept` | `Spec => []WithinLimits` | |
| `RoomsStayInOrder` | `OrderSpec =>` always `RoomsInOrder` | `promoted` and `asked` are empty |
| `DeparturesSettle` | `OrderSpec =>` always `DepartureSettles` | `given`, `unanswered` and `undelivered` are empty |
| `TurnsServed` | `OrderSpec =>` always `TurnsAreServed` | `asked` and `unanswered` are empty |
| `DisablingKeepsOrder` | `OrderSpec => []DisabledInOrder` | |
| `NextActionsHonest` | `Spec => []NextActionsServed` | |
| *`LockProofs`* | | |
| `NobodyWaitsInACircle` | `Spec => []OnlyKnownCircles` | |
| *`MoneyProofs`* | | |
| `PaymentsCreditedOnce` | `PaySpec => []CreditedOnce` | |
| `ReversalsFollowRefunds` | `PaySpec => []ReversedAsRefunded` | |
| `SettingsServedAreSaved` | `PaySpec => []FreshIsSaved` | |
| `RedemptionsPaidOnce` | `MoneySpec => RedeemedOnce` | |
| `MoneyKeepsPromise` | `MoneySpec => PromiseKept`, the refinement of `CreditPromise` | |
| *`AdminProofs`* | | |
| `SuperadminsStay` | `AdminSpec => SuperadminsKeepControl` | |
| `SessionsEndForGood` | `AdminSpec => SessionsEnd` | |
| `AuditIsTrue` | `AdminSpec => AuditTellsTheTruth` | |
| *`PlatformProofs`* | | |
| `ReceiptsAnswerOnce` | `PlatformSpec => RequestsTakeEffectOnce` | |
| `CredentialsStayCurrent` | `PlatformSpec => CredentialsAreCurrent` | |
| `DecisionsAreLogged` | `PlatformSpec => DecisionsStand` | |
| `MemoriesAreKept` | `PlatformSpec => VersionsAreKept` | |
| `ClaimsReadWhatTheyPinned` | `PlatformSpec => EngagedReadsPinned` | |
| `LimiterKeepsItsWord` | `PlatformSpec => WindowIsKept` | |
| *`BackgroundProofs`* | | |
| `PassesFindThePoolOpen` | `BackgroundSpec => []PoolOutlivesPasses` | |
| `PostedMeansReceived` | `BackgroundSpec => []PostedWasReceived` | |

`OrderSpec` is `Spec` with the history variables of `RoomOrder`. In `thread_rooms` and
`thread_assigns` nobody is disabled, so that all of them stay empty.

*Types.* `TypeOK` is not inductive: a write to the counters is an integer only if
the rows it copies amounts from are complete, and a request's next step has its
type only if what it remembers refers to a row. `TypeInv` adds `TaskComplete` (a
task that exists has a contract), `RowsComplete` (a claim or submission in use has
an owner and a request key) and `ProcsComplete` (what a request or worker
remembers refers to rows that exist, and an outcome about to be written is an
edge of the submission states). One lemma per action shows that
it preserves `TypeInv`.

*Payment.* `PaidExactlyOnce` says that `earned[s]` is the submission's amount if
it is settled and zero otherwise. It is inductive together with `TypeInv`. The
argument is the compare-and-set of `writeDeliveryOutcome`: an outcome passes
only if the row is still in the state the holder read, that state is in flight,
and a row in flight has been paid nothing; every other action leaves `earned`
and settled rows alone.

*Budget.* `EscrowSolvent` (`settled + reserved + refunded <= locked`) and
`RefundIsFinal` (after a refund the task is closed, nothing is reserved and
nothing available) need each other: a settlement after a refund would break the
first, and the second holds because reserving needs availability. Their
conjunction `BudgetKept` is inductive with `TypeInv`: reserving is guarded by
what is available, releasing and settling by what is reserved, a refund takes
exactly what is left and only when nothing is reserved.

*Claims.* Two lemmas say what any step does to a row: a claim row keeps its agent,
version and amount and is never taken back into use, or it is born on the contract
in force (`StepKeepsClaims`); a submission row keeps what it is bound to, unless it
is the one `SubmitTx` writes (`StepKeepsSubs`); and published versions stay
(`StepKeepsVersions`). The bound price and the deadline follow, the latter because
`ValidateContract` admits no ttl above the claim's life. That an agent has one
active claim needs what `ClaimTask` looked for and that `ReclaimTask` expires the old
claim in the same transaction.

*Submissions.* The request key is looked for again under the lock. A submission takes
a claim that was not used before and used claims keep their row, so no claim backs
two; `BlankRows` (a free row names no claim) makes this inductive.

*Outcomes.* `OutcomeAgreesWithReceiver` is not inductive: an answer travels from `Post`
to the write in what the request remembers. `AnswersAgree` (an answer about to be
written is one the receiver gave) closes the gap, because a receiver that decided
repeats itself and nothing but a POST carries an answer to the write. That history is
final is a property of steps: `HistoryStep` derives it from the lemmas above and from
the edges of the kernel, of which none leaves a terminal state.

*Rooms.* `TypeInv` of `RoomProofs` adds to the types that a live key grants a role, that
a join remembers a key and an assignment tool an assignment, and that a disable
transaction is about an account. Admission follows from it at once: a member's role
comes from no other step than the creation and the join, and the join looks at the key
again under the lock.

*Governors.* Leaving, removal and demotion ask for another governor under the room's
lock (`RoleChangeKeeps`). Disabling decides in one statement and deletes in a later one;
between them `GovernInv` holds: the open rooms the account governs are among those its
transaction locked (`GovernedLocked`), no two transactions lock the same room
(`LocksApart`), and in each of them that is still open somebody else governs
(`AnotherStays`), whom no room tool can take away, since the room is locked, and no
other administrator either, who would have locked the room. A promotion behind the lock is
what breaks `GovernedLocked`, and nothing else does: so all of this is said of the rooms that
are not in `promoted`, which is where such a promotion puts its room.

*Obligations.* `JudgmentForfeited` is about who has left. The invariant `DutyInv` says
in addition where an assignment is (`AssignsPlaced`), that its creator is a member
while it is out (`CreatorIsMember`), and that an account whose assignments a disable
transaction has ended has none to wait for or to judge until the memberships go
(`NothingLeft`): its row is locked, so it posts nothing in between. All steps but
departures and posts are cases of one lemma (`MovesKeep`): they move rows along the
edges of `RowMoves` and take no membership. `EndsOnce` comes out of the same lemmas:
`StillAsRead` makes a tool that read too early act on what is still there, or not at
all.

*Limits and turns.* `LimitInv` (rooms and memberships are finite, an unused room is empty)
makes the counts of `WithinLimits` arithmetic of cardinalities: a join adds one to a
set that was below its limit under the room's lock, and the account's lock keeps its
other rooms as they were counted. Who owes is said by three invariants: a pending response
is of a speaker of its room (`AskedInv`), an assignment not yet delivered is between two
members (`HeldInv`), and nothing is owed in a closed room (`ClosedInv`). Between the
statements of a deactivation each says in addition what the statements so far have
emptied: who is about to lose its memberships has no pending response and holds no
assignment, but for those that `asked` and `given` record. `OwedKept` is the statement that a
step keeps each of the three, and is proved once per action. Every departure and
closing empties exactly these sets, or leaves what `unanswered` and `undelivered` record, so
the views, which read the same rows by other queries, name the turns the tools would serve
(`TurnsFollow`). `DisablingKeepsOrder` collects what the three and the governors' invariant
say. In `NextActionsFollow` the actions are in the order of `threadNextActions`, and the
places that turns and earlier actions take are counted.

*Sums and the refinement.* A sum over a table is `Total`, the number of units in it: the
cardinality of the set of pairs of a row and a number up to its amount. That makes
`Added`, `Taken` and the like consequences of the library's theorems about finite sets
(`SumProofs`), without induction over data. `AuditInv` joins what is reserved to the sum
of what active claims and submissions in flight hold, what is settled to what was earned,
and the publisher's balance to the counters. Each action is then one of the steps of
`TaskEscrow` (`EngineKeepsEscrow`): a claim that becomes a submission is `HandOver`, a
re-claim `Replace`, an outcome `DropSub` or `Pay`. That `Refund` finds nothing held is
`ReservedIsBacked` read backwards.

*Board.* `BoardInv` holds what SubmitWork has read: a request in its write phase was
admitted by the version its claim is bound to or, without a claim, by some version
published since the one it read first. Under the lock the present contract must equal the
one read first; so either the version that admitted the payload is one of its publications,
or it stood between two of them (`AdmittedInBetween`). `OfferedMayClaim` follows
from `OneActiveClaim`, `ReleasesCovered` and the division `available / price`. `MayClaim`
gathers the guards of `ClaimTask` and `ReclaimTask`; `MayClaimIsEnough` shows that they
allow nobody else and writes out the next state they lead to, which is what `ENABLED` would
say.

*Locks.* `LocksInv`: every open transaction holds exactly the first requests of one of the
plans of its operation, and the locks of two transactions are compatible. `Rank` orders the
kinds of requests: task, payment, redemption; then the rows of a task and a product; account;
a reference to an account; room; what is in a room; the rows that are only referred to. `Reach`
is the last rank that has to wait while a lock is held. In a plan a request comes after
`Reach` of what it follows, is inside a room, or leaves the order by one of the source's leaps
(`MayAsk`, for each operation). So in a circle without an `OutOfOrder` transaction, the one
that waits at the lowest rank keeps somebody waiting who waits earlier still
(`EveryCircleIsKnown`). That none has a task, a payment or a redemption is not a matter of the four
exceptions: whoever asks for one of those first keeps nobody waiting, and whoever has one keeps
waiting only those that ask for such a row, for a row of the task, or for the account,
with which it then asks for references alone (`LedgerStaysOut`).

*Payments.* `PayInv` says that what checkouts and webhooks remember is still so when they
write, because the provider's facts only advance and a pending row changes under its lock
(`CodeInv`, `HookInv`, `FactInv`, `Advances`). `Target` grows with the facts, so taking back
the difference to it, at each fact, takes back the target of all of them, in any order
and any number of repetitions (`ReverseInv`); `GrantInv` is the same for the credits.
Both state sums of ledger rows, which the theorem about `RedeemedOnce` extends by those
of redemptions (`MoneyInv`). `RedeemInv` keeps the price read under the product's lock and
the uniqueness of keys. Under `MoneyInv` every step is one of `CreditPromise` or moves
nothing (`PromiseStep`): a completed payment is `Fill`, because `GrantInv` finds nothing granted
for it before; an adjustment is `Reverse`, because its target is at most what was granted
(`ReversalWithin`); a commit is `Spend` and a refusal `Restore`, by what
`ChargedAndRefundedOnce` says of the sums before. `DebtWithinReversals` is inductive over the
steps of the abstract specification alone (`DebtStays`): only `Reverse` takes from a purse what
it may not hold, and it books all of it.

*Administrators.* `CheckedInv`: what a request was accepted for under the locks would be
accepted again at its commit. It is stable because whoever changes a row holds it and
the held sets are disjoint (`HeldKept`, `LocksApart`). A superadmin is left because every
operation that may remove one counts them under the one lock of `LockSuperadminInvariant`. A session or login carries an
`auth_version` with the password of that time, and every change of password or status
raises it (`Current`). The audit's last row is about how things are (`AuditInv`), so no
change goes unreported. The proofs take all operations together, where the run takes
them scenario by scenario.

*Receipts.* Past the lock of the account row there is at most one call (`ServingHolds`).
What it saw of the account (`AdmittedIsActive`) and of the key (`InsertNeverLoses`)
therefore still holds when it commits, because a deactivation wants the same row; and a
receipt states the key, the facts and the hash of an effect (`ReceiptsHaveEffects`), so
that a replay under the present encoding answers the request it was made for.

*The rest of Platform.* Salts are drawn once and never return, so a cookie of an old
password stays refused (`RowsFollow`). A change that has been stored and not answered
either wrote the salt that the row has, or is in `overtook` (`OwnerCallsOK`), which is all that
the cookie it is answered with may say. A report leaves `open` once, and its log line is
written in the same transaction; the row of a close about a report follows the close
directly, after which the report is actioned, or a row before it tells its dismissal
(`ReportInv`). A read that continues in a second statement is in `entitled` if it had the right
at the first (`EntitledOK`), and every answer is given by such a read or under the right
itself (`RightStep`). No share begins on a removed memory, so those under way only grow fewer. Every version of a memory is in the row or in
the archive, and no step takes back what a request has read of it: author, the existence
of a version, a pin (`MemoryInv`, `HistoryKept`). The limiter's store holds all that was
admitted within the window less a stall and never more than the limit; when the oldest
admission leaves, a place is free, which is why `Retry-After` is honest (`LimiterInv`; the
oldest exists because numbers are well ordered).

*Background.* The pool is closed only after each worker has exited, and an exited worker
stays so. A pass that holds a 2xx answer holds it about the first of its targets, so
the row it marks is the one received (`PostInv`).

*Only model-checked.* Liveness under fairness (`SubmissionResolved`,
`ReservationsDrain`, `AssignmentsSettle`, `ChargeIsCredited`, `SweepIsServed`,
`ShutdownCompletes`, `WorkerDeathEndsServing`, `SignalsLeaveTheQueue`) and the part of
`BoardAgreesWithClaims` that uses `ENABLED` (`OfferedIsClaimable`, of which
`OffersAreHonoured` and `MayClaimIsEnough` are the provable form) are outside the prover's
reach. Every other property of the runs is stated by a theorem, `BoardAgreesWithClaims` by
one for each of its parts.

## 6. Where the code and its documentation disagree

The runs ask what holds of the code, and no comment of a property quotes what does not.
Each of these was met while modelling and is visible in the definitions named.

*The runs reach these, and their properties say exactly what is left:*

- `task_submit.go:250`: a claim-less payload is checked against the schema read at
  line 212; under the lock the check is repeated only if the contract differs from
  the one read at line 111. Two updates that go to another contract and back leave
  them equal, so a payload only the contract in between admits is recorded,
  although lines 243-245 promise the checks against the CURRENT version
  (`AdmittedInBetween`; `PayloadWasAdmitted` allows this and nothing else).
- `repository/thread.go:394`: the deactivation locks the rooms the account governs
  at that statement; a member promoted afterwards, whose promoter then leaves, is
  deleted as the only governor of an open room (kungfu.md:128: "An open thread MUST
  always have at least one governor"). Such a room
  is in `promoted`.
- `repository/thread.go:411`: a room closed by the deactivation of its only
  governor keeps the responses and assignments of its other members, unlike one
  closed by `thread_close` (lines 436-437: "Rooms closed above already collected
  everything"). They are in `unanswered` and `undelivered`.
- `repository/thread.go:439`, `:454` and `:463`: a member asked for a response, or given an
  assignment, between the statement that looks for it and the end of its deactivation
  owes it after its membership is gone (`asked`, `given`).
- `service/notify.go:149`: the foreign key of an outbox row asks for the notified
  account while the post holds the room; a room tool of that account holds the
  account and waits for the room. Postgres fails one of them, although the comment
  says that the accelerator "must not be able to break the fact it decorates".
  This is `CallsOut`.
- `task_publisher.go:244` and `rewards.go:280`: the foreign key of the new task or
  redemption shares the account row, which is then asked for exclusively; two
  such transactions of one account wait for each other (`Upgrades`). `repository/thread.go:439`
  and `:454` write receipts before assignments, `thread_kernel.go` the other way round
  (`Trespasses`); and the cascade takes its rooms one after the other, as does another
  beside it (`SpansRooms`). Postgres fails one of each pair.
- `service/identity.go:269`: of two changes of password at once, the one that writes
  first hands its browser a cookie for the other's password, because the cookie is
  made from the hash as it is then (`ChangeCookie`; `overtook` has such changes).
- `admin/operations.go:72`: "private so a restore can never re-publish it". A `Share`
  under way, which checks ownership in one statement and writes in another, marks
  the removed memory public (`SetVisibility`; `RemovedForGood` allows it to those that were
  under way, once each). It stays removed, and nobody is served more
  of it for the mark.
- `kungfu_read.go:120`: a read of several statements is answered even if its
  reader has left the room, or the memory was withdrawn, between them (`DeliveredMemory`,
  `ArchiveRead`); it was entitled when it began, and the next one is refused.
- `task_governance.go:156`: "(this one included) to actioned". Closing the task by a
  report that another administrator has just dismissed answers `actioned` and
  writes an audit row `open` to `actioned` about a report that stays dismissed
  (`ResolveByClose`). The row that tells the dismissal is before it in the log (`CameBy`).
- `cmd/server/lifecycle.go:100`: "never an unbounded wait". The sweep's statements run
  on `context.Background()` (`repository/thread.go:990`), so its join may wait for
  ever on a database that does not answer. `ShutdownCompletes` allows `[]SweepHangs`, and
  says that all that comes before the join, and every other worker, ends.
- `thread_kernel.go:1104-1113`: `thread_get` names three calls at most, so that a governor of
  a room with other members is told of `thread_remove` but neither of `thread_set_role` nor of
  `thread_close`, which the same list names in the answers of the governance tools (`ThreadGet`).

*Tasks:*

- `task_claim.go:177`: `ClaimTask` expires an overdue claim and releases its
  reservation, then counts slots on the row as read before. On a fully
  reserved task the holder gets `SLOTS_EXHAUSTED` and the expiry rolls back, until
  the worker has swept the claim. `ReclaimTask` has the stale count in its guard.
- `task_submit.go:431`: the rejection limit counts rejections already written, so
  several submissions in flight may bring an agent above it (`UnderRejectionLimit`).
- `task_recovery.go:28-31` says a delivery given up after 24 hours joins the fault
  count, line 66 and `task_deliver.go:281` that it does not (`Counts`).
- `mcpserver/registry.go:261`: "one open report per agent per task". `ReportTask`
  looks first and inserts later, without a lock or an index, so two calls at once
  leave two (`FileProbe`, `InsertTaskReport`).
- `task_work.go:458`: a read that found the memory still named, and no pin, may serve
  a version pushed after the contract stopped naming it (`LiveRead`).

*Rooms and accounts:*

- `repository/thread.go:444-446`: notifications of a deactivated account die with
  its obligations, but the announcements of the sweeper and of rooms that have not
  yet lost the member are queued again afterwards (`InsertNotifyOutbox` asks for no
  status).
- `repository/thread.go:1385`: the deadline is compared with the start of the
  transaction, so a request that waited for the room acts after its deadline
  (`AssignAct`, with the age of the request).
- `thread_kernel.go:155`: the recovery from a lost race for the receipt cannot be
  reached, because the account lock is held since before the lookup
  (`InsertNeverLoses`); and two different requests may share a hash in the encoding
  of before the upgrade, which joins its fields with a delimiter (`LegacyHash`).
- `service/notify.go:125-140`: once the pass's budget is used up, the posts that are
  left fail at once and each costs its row an attempt, so healthy endpoints lose
  signals to slow ones (`Post`).

*Administrators and the process:*

- `admin/session.go:240-245`: "the single global lock order". `UpdateRole` and
  `SetRolePermissions` lock the role's row and then, by the foreign key of the audit
  row, ask for the actor's; `SetAdminRoles` locks administrators and then, by its
  foreign keys, asks for roles (`Locks`). Two such requests may wait for each other.
- `admin/management.go:275`: `ChangeOwnPassword` compares the present password with
  the hash its request has read at the start; after a reset in between it succeeds
  with the old one. A request of an administrator who is disabled meanwhile still
  commits (`Commit`: the principal is not read again).
- `cmd/server/lifecycle.go:83`: "no new recovery pass may start". A worker that has
  passed its gate starts one after the stop (`BeginPass`); it is joined all the same
  (`PoolOutlivesPasses`).
- `ratelimit.go:142`: the clock is read before the mutex, so a window may admit one
  request too many by the seconds lost on the way (`MaxStall` in `WithinLimit`).

## 7. What is abstracted or left out

*Task engine.* One task. The reads of SubmitWork before the schema read are one
action. An idempotent replay changes nothing and is a stutter. Payloads are
values and a schema is the set it admits, credential scan and JSON checks
included. Reasons of pauses and closes and the resolution of the
audience are left out; the audience is fixed. The kinds of a failed POST are the
event `mapReply` makes of them. `recent` is ordered by commit. The 24-hour window
of rejections is judged at the present. A failing `UncertainSince` query, which
the code ignores, is left out. Other income of the accounts is left out. The board's
paging, search and sorting are left out.

*Rooms.* Entry contents and sequence numbers are left out; receipts, pinned memories
and the outbox are in modules of their own. A post that waits for a foreign key
behind the deactivation commits after it, and is placed just before the
cascade's last step. The cascade's writes are visible at once (readers would wait
for them) and a cascade that rolls back is one that never began. A victim of a
deadlock rolls back as a whole, so the room tools stay atomic. Counts and the unread
marks of the views are left out.

*Locks.* Leases that skip locked rows never wait. The rows of administrator
management, which meet the others only at the audit row, are in `Administrators`.

*Money.* The rows of the ledger are kept as their sums. The provider charges once per
checkout. Prices of a package in a currency are one number; the 128-bit product is
an integer. The encryption of settings is the key they can be read with.

*Accounts.* A hash is the pair of password and salt: hashing is injective. Failed
logins and their rate limits, CSRF tokens, names' normalisation and operation logs
are left out. Cookies do not expire by time.

*Platform and Background.* A behaviour exercises one module (its focus), except for
deactivations. `Receipts` takes one account, because every row and lock it uses is
keyed by it; `RateLimiter` one key, whose slice is kept by the number of admission,
since only its length and its least are read; `Reports` one task, `Harness` one task whose
engagements only form and end (their life is in `TaskEngine`).

*Process.* Passes are one or two connections long; what they do is in the other
modules. Requests beyond the bound are not begun.

*Not modelled*: the MCP and HTTP servers (routing, decoding and rendering around the
operations above), outbound HTTP (its result is the nondeterministic reply of
`Post`), the example receiver (any receiver is allowed), web pages, configuration and
the application of migrations (they run before the first request). *Partly*: contract
validation (a contract is a price, a ttl, a limit and the payloads it admits), the
audience, views, and the finance reports and listings of the administration, which
change no state.

## 8. Plan

Done: all modules of section 2; theorems for every invariant and action property of the
runs, and for the refinements of `TaskEscrow` and `CreditPromise`.

Next, in order:

1. Abstract specifications of a memory's versions, with the refinement by `Memories`, and of
   an order of lock acquisition, with the refinement by `RowLocks`.
2. The resolution of an audience and contract validation as operators, checked against
   what the board and `SubmitWork` use of them.
