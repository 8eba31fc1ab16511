----------------------------- MODULE TaskEngine -----------------------------
(***************************************************************************)
(* One task of the platform, from task_create to the last settled          *)
(* submission and the refund: the publisher's lifecycle operations, the    *)
(* executors' claims, the intake of work, the delivery of accepted work to *)
(* the publisher's receiver, the recovery worker and the claim expiry      *)
(* worker.  The state is the database rows the code keeps (tb_task,        *)
(* task_contract_versions, tb_task_claim, tb_task_submission, balances and *)
(* earn_task ledger rows), what a running request or worker remembers      *)
(* between two of its transactions, and the receiver's own decisions.      *)
(*                                                                         *)
(* A transaction that locks the task row (SELECT ... FOR UPDATE) is one    *)
(* action: every writer of these rows takes that lock first.  Reads made   *)
(* outside such a transaction, and the outbound POST, are actions of their *)
(* own, so that everything else may happen between them.                   *)
(*                                                                         *)
(* Timestamps are kept as the time left until they pass.  Only the order   *)
(* of deadlines and the present matters to the code, and time left is      *)
(* bounded, so the clock needs no bound of its own.                        *)
(***************************************************************************)
EXTENDS Integers, Sequences, FiniteSets

CONSTANTS
    Publisher,        \* the account that created the task
    Agents,           \* accounts that call the work_* tools
    Audience,         \* accounts the task is visible to (fixed at creation)
    Keys,             \* request_key values
    Payloads,         \* submission payloads
    Contracts,        \* contract contents the publisher may write
    Amounts,          \* amounts the publisher locks or adds
    Credits,          \* the publisher's balance before the task exists
    MaxAmount,        \* task.MaxAmount
    Handlers,         \* concurrent SubmitWork requests
    Workers,          \* recovery workers
    ClaimIds,         \* claim_id values (bound on rows)
    SubIds,           \* submission_id values (bound on rows)
    MaxVersion,       \* bound on published contract versions
    LeaseDelivering,  \* time a delivering row is left alone (15s)
    LeaseUncertain,   \* time between redeliveries (30s)
    UnresolvedAfter,  \* uncertainUnresolvedAfter (24h)
    RejectionWindow,  \* rejectionWindow (24h)
    FaultThreshold,   \* receiverFaultThreshold
    MaxCrashes,       \* bound on crashes of requests and workers
    None              \* SQL NULL / Go nil

ContractType ==
    [price : Nat \ {0}, required : BOOLEAN, ttl : Nat \ {0}, life : Nat \ {0},
     cap : Nat \ {0}, schema : SUBSET Payloads]

\* What ValidateContract guarantees of every stored contract.
ASSUME ContractAssumption ==
    /\ Contracts \subseteq ContractType
    /\ \A k \in Contracts : k.price <= MaxAmount /\ k.ttl <= k.life

ASSUME AmountAssumption ==
    /\ Amounts \subseteq Nat \ {0}
    /\ Credits \in Nat
    /\ MaxAmount \in Nat

\* Row identifiers are assigned in increasing order.
ASSUME IdAssumption ==
    /\ ClaimIds \subseteq Nat
    /\ SubIds \subseteq Nat
    /\ None \notin ClaimIds
    /\ None \notin SubIds

\* A table holds finitely many rows.
ASSUME RowAssumption == IsFiniteSet(ClaimIds) /\ IsFiniteSet(SubIds)

ASSUME TimeAssumption ==
    /\ LeaseDelivering \in Nat
    /\ LeaseUncertain \in Nat
    /\ UnresolvedAfter \in Nat
    /\ RejectionWindow \in Nat

ASSUME ProcessAssumption ==
    /\ Handlers \cap Workers = {}
    /\ FaultThreshold \in Nat \ {0}
    /\ MaxVersion \in Nat
    /\ MaxCrashes \in Nat

ASSUME DecisionAssumption == None \notin {"accept", "reject"}

Procs == Handlers \cup Workers

VARIABLES
    task,       \* the tb_task row
    contracts,  \* task_contract_versions: contracts[v] is version v
    claims,     \* tb_task_claim rows by claim_id
    subs,       \* tb_task_submission rows by submission_id
    balance,    \* tb_bots.balance
    earned,     \* credits paid by earn_task rows that reference a submission
    recent,     \* the newest terminal outcomes, newest first: TRUE iff the
                \* outcome is a counting receiver failure
    procs,      \* what each running request or worker remembers
    verdict,    \* the receiver's own decision on each submission
    crashes     \* crashes so far

vars == <<task, contracts, claims, subs, balance, earned, recent, procs,
          verdict, crashes>>

TaskStatuses == {"absent", "paused", "open", "closed"}
ClaimStatuses == {"none", "active", "released", "expired", "used"}
SubStates == {"none", "delivering", "uncertain", "settled", "rejected", "failed"}
InFlight == {"delivering", "uncertain"}
Terminal == {"settled", "rejected", "failed"}
Events == {"deliver_2xx", "deliver_4xx", "delivery_failed", "timeout", "unresolved"}

NoTask == [status |-> "absent", locked |-> 0, settled |-> 0, reserved |-> 0,
           refunded |-> 0]
NoClaim == [status |-> "none", agent |-> None, ver |-> 0, amount |-> 0,
            left |-> 0, life |-> 0]
NoSub == [state |-> "none", agent |-> None, key |-> None, payload |-> None,
          amount |-> 0, claim |-> None, ver |-> 0, revises |-> None,
          wait |-> 0, clock |-> 0]
Idle == [pc |-> "idle", agent |-> None, key |-> None, payload |-> None,
         claim |-> None, ver |-> 0, revises |-> None, sub |-> None,
         pre |-> None, event |-> None]

Init ==
    /\ task = NoTask
    /\ contracts = <<>>
    /\ claims = [c \in ClaimIds |-> NoClaim]
    /\ subs = [s \in SubIds |-> NoSub]
    /\ balance = [a \in Agents \cup {Publisher} |->
                    IF a = Publisher THEN Credits ELSE 0]
    /\ earned = [s \in SubIds |-> 0]
    /\ recent = <<>>
    /\ procs = [p \in Procs |-> Idle]
    /\ verdict = [s \in SubIds |-> None]
    /\ crashes = 0

-----------------------------------------------------------------------------
(* The task row: derived amounts, transition kernel and money primitives.  *)

Version == Len(contracts)
Contract == contracts[Version]

\* Mutant for the runs: the reservations are forgotten.
AvailableUnreserved == task.locked - task.settled - task.refunded

Available == task.locked - task.settled - task.reserved - task.refunded

\* slots >= 1
HasSlot == Available >= Contract.price

\* taskTransitions: the status after an event, None where there is no edge.
TaskTransition(from, event) ==
    CASE from = "paused" /\ event = "open" -> "open"
      [] from = "open" /\ event \in {"pause", "platform_pause"} -> "paused"
      [] from \in {"open", "paused"} /\ event \in {"close", "platform_close"} -> "closed"
      [] OTHER -> None

\* claimTransitions
ClaimTransition(from, event) ==
    CASE from = "active" /\ event = "renew" -> "active"
      [] from = "active" /\ event = "release" -> "released"
      [] from = "active" /\ event = "expire" -> "expired"
      [] from = "active" /\ event = "use" -> "used"
      [] OTHER -> None

\* submissionTransitions
SubmissionTransition(from, event) ==
    CASE from \in InFlight /\ event = "deliver_2xx" -> "settled"
      [] from \in InFlight /\ event = "deliver_4xx" -> "rejected"
      [] from \in InFlight /\ event = "delivery_failed" -> "failed"
      [] from = "delivering" /\ event = "timeout" -> "uncertain"
      [] from = "uncertain" /\ event = "unresolved" -> "failed"
      [] OTHER -> None

ApplyTaskStatus(event) ==
    /\ TaskTransition(task.status, event) # None
    /\ task' = [task EXCEPT !.status = TaskTransition(task.status, event)]

CanReserve(amount) == Available >= amount

CanRelease(amount) == task.reserved >= amount

\* Mutant for the runs: the reservation is checked and not recorded.
ReserveTaskAmountLost(amount) == CanReserve(amount) /\ UNCHANGED task

ReserveTaskAmount(amount) ==
    /\ CanReserve(amount)
    /\ task' = [task EXCEPT !.reserved = @ + amount]

\* Mutant for the runs: the reservation is never given back.
ReleaseTaskReservationLost(amount) == CanRelease(amount) /\ UNCHANGED task

ReleaseTaskReservation(amount) ==
    /\ CanRelease(amount)
    /\ task' = [task EXCEPT !.reserved = @ - amount]

\* Mutant for the runs: the budget counters move and the settled one is missed.
SettleTaskSubmissionUncounted(s) ==
    /\ CanRelease(subs[s].amount)
    /\ task' = [task EXCEPT !.reserved = @ - subs[s].amount]
    /\ balance' = [balance EXCEPT ![subs[s].agent] = @ + subs[s].amount]
    /\ earned' = [earned EXCEPT ![s] = @ + subs[s].amount]

\* credits.Record of an earn_task row inside the settling transaction.
SettleTaskSubmission(s) ==
    /\ CanRelease(subs[s].amount)
    /\ task' = [task EXCEPT !.reserved = @ - subs[s].amount,
                            !.settled = @ + subs[s].amount]
    /\ balance' = [balance EXCEPT ![subs[s].agent] = @ + subs[s].amount]
    /\ earned' = [earned EXCEPT ![s] = @ + subs[s].amount]

\* Mutant for the runs: a debit is not checked against the balance.
LockTaskBudgetUnchecked(amount, row) ==
    /\ balance' = [balance EXCEPT ![Publisher] = @ - amount]
    /\ task' = [row EXCEPT !.locked = @ + amount]

\* LockTaskBudget and FundTaskBudget: credits.Record refuses a debit the
\* balance does not cover.
LockTaskBudget(amount, row) ==
    /\ balance[Publisher] >= amount
    /\ balance' = [balance EXCEPT ![Publisher] = @ - amount]
    /\ task' = [row EXCEPT !.locked = @ + amount]

-----------------------------------------------------------------------------
(* The publisher and the platform.                                         *)

CreateTask(k, budget) ==
    /\ task.status = "absent"
    /\ budget >= k.price
    /\ budget <= MaxAmount
    /\ LockTaskBudget(budget, [NoTask EXCEPT !.status = "paused"])
    /\ contracts' = <<k>>
    /\ UNCHANGED <<claims, subs, earned, recent, procs, verdict, crashes>>

\* Mutant for the runs: an update rewrites the current version in place.
UpdateTaskInPlace(k) ==
    /\ task.status = "paused"
    /\ contracts' = [contracts EXCEPT ![Version] = k]
    /\ UNCHANGED <<task, claims, subs, balance, earned, recent, procs, verdict,
                   crashes>>

\* ReplaceTaskContract: a new version; the older ones stay as they are.
UpdateTask(k) ==
    /\ task.status = "paused"
    /\ Version < MaxVersion
    /\ contracts' = Append(contracts, k)
    /\ UNCHANGED <<task, claims, subs, balance, earned, recent, procs, verdict,
                   crashes>>

StatusChange(event) ==
    /\ ApplyTaskStatus(event)
    /\ UNCHANGED <<contracts, claims, subs, balance, earned, recent, procs,
                   verdict, crashes>>

OpenTask == StatusChange("open")
PauseTask == StatusChange("pause")
CloseTask == StatusChange("close")
\* platformClose; it also decides the task's open reports, which no other
\* operation of this module reads.
PlatformCloseTask == StatusChange("platform_close")

FundTask(amount) ==
    /\ task.status \in {"paused", "open"}
    /\ task.locked + amount <= MaxAmount
    /\ LockTaskBudget(amount, task)
    /\ UNCHANGED <<contracts, claims, subs, earned, recent, procs, verdict,
                   crashes>>

\* Mutant for the runs: a refund does not wait for the reservations to drain.
RefundTaskEarly ==
    /\ task.status = "closed"
    /\ Available > 0
    /\ task' = [task EXCEPT !.refunded = @ + Available]
    /\ balance' = [balance EXCEPT ![Publisher] = @ + Available]
    /\ UNCHANGED <<contracts, claims, subs, earned, recent, procs, verdict,
                   crashes>>

RefundTask ==
    /\ task.status = "closed"
    /\ task.reserved = 0
    /\ Available > 0
    /\ task' = [task EXCEPT !.refunded = @ + Available]
    /\ balance' = [balance EXCEPT ![Publisher] = @ + Available]
    /\ UNCHANGED <<contracts, claims, subs, earned, recent, procs, verdict,
                   crashes>>

-----------------------------------------------------------------------------
(* Claims.                                                                 *)

\* Mutant for the runs: the publisher may work on its own task.
MayWorkOnOwn(a) == a \in Audience

\* requireTaskAudience, then OWN_TASK.
MayWork(a) == a \in Audience /\ a # Publisher

NextClaim(c) ==
    /\ claims[c].status = "none"
    /\ \A d \in ClaimIds : d < c => claims[d].status # "none"

NextSub(s) ==
    /\ subs[s].state = "none"
    /\ \A t \in SubIds : t < s => subs[t].state # "none"

HoldsClaim(a, c) == claims[c].status = "active" /\ claims[c].agent = a

\* Mutant for the runs: an agent may hold any number of claims.
HoldsNoClaimUnchecked(a) == TRUE

HoldsNoClaim(a) == \A c \in ClaimIds : ~HoldsClaim(a, c)

\* checkRejectionLimit over CountAgentSubmissions.
RejectedInWindow(a) ==
    {s \in SubIds : /\ subs[s].state = "rejected"
                    /\ subs[s].agent = a
                    /\ subs[s].clock > 0}

UnderRejectionLimit(a) == Cardinality(RejectedInWindow(a)) < Contract.cap

NewClaim(a) ==
    [status |-> "active", agent |-> a, ver |-> Version,
     amount |-> Contract.price, left |-> Contract.ttl, life |-> Contract.life]

SetClaimStatus(c, event) == [claims[c] EXCEPT !.status = ClaimTransition(@, event)]

ClaimTask(a, c) ==
    /\ MayWork(a)
    /\ task.status = "open"
    /\ HoldsNoClaim(a)
    /\ UnderRejectionLimit(a)
    /\ HasSlot
    /\ NextClaim(c)
    /\ claims' = [claims EXCEPT ![c] = NewClaim(a)]
    /\ ReserveTaskAmount(Contract.price)
    /\ UNCHANGED <<contracts, subs, balance, earned, recent, procs, verdict,
                   crashes>>

\* work_claim by the holder of a claim whose time has passed but which the
\* expiry worker has not swept.  The slots are counted on the task row as it
\* was read, before the old reservation is released.
ReclaimTask(a, old, c) ==
    /\ MayWork(a)
    /\ task.status = "open"
    /\ HoldsClaim(a, old)
    /\ claims[old].left = 0
    /\ CanRelease(claims[old].amount)
    /\ UnderRejectionLimit(a)
    /\ HasSlot
    /\ NextClaim(c)
    /\ claims' = [claims EXCEPT ![old] = SetClaimStatus(old, "expire"),
                                ![c] = NewClaim(a)]
    /\ task' = [task EXCEPT !.reserved = @ - claims[old].amount + Contract.price]
    /\ UNCHANGED <<contracts, subs, balance, earned, recent, procs, verdict,
                   crashes>>

\* Mutant for the runs: a renewal runs past the deadline.
RenewedLeftUncapped(c) == Contract.ttl

RenewedLeft(c) ==
    IF Contract.ttl > claims[c].life THEN claims[c].life ELSE Contract.ttl

RenewClaim(c) ==
    /\ claims[c].status = "active"
    /\ claims[c].left > 0
    /\ task.status = "open"
    /\ claims[c].life > 0
    /\ claims' = [claims EXCEPT ![c].left = RenewedLeft(c)]
    /\ UNCHANGED <<task, contracts, subs, balance, earned, recent, procs,
                   verdict, crashes>>

\* Mutant for the runs: a claim ends and keeps its reservation.
EndClaimHolding(c, event) ==
    /\ claims[c].status = "active"
    /\ claims' = [claims EXCEPT ![c] = SetClaimStatus(c, event)]
    /\ UNCHANGED <<task, contracts, subs, balance, earned, recent, procs, verdict,
                   crashes>>

EndClaim(c, event) ==
    /\ claims[c].status = "active"
    /\ claims' = [claims EXCEPT ![c] = SetClaimStatus(c, event)]
    /\ ReleaseTaskReservation(claims[c].amount)
    /\ UNCHANGED <<contracts, subs, balance, earned, recent, procs, verdict,
                   crashes>>

ReleaseClaim(c) == EndClaim(c, "release")

\* Mutant for the runs: the expiry worker looks at open tasks only.
ExpireClaimOpenOnly(c) ==
    task.status = "open" /\ claims[c].left = 0 /\ EndClaim(c, "expire")

ExpireClaim(c) == claims[c].left = 0 /\ EndClaim(c, "expire")

-----------------------------------------------------------------------------
(* Intake: SubmitWork.                                                     *)

Identity(a, k) == {s \in SubIds : /\ subs[s].state # "none"
                                  /\ subs[s].agent = a
                                  /\ subs[s].key = k}

\* checkRevises
Revisable(a) == {s \in SubIds : subs[s].state = "rejected" /\ subs[s].agent = a}

\* The acceptance steps (b) to (g), read outside any transaction.  A carried
\* claim also fixes the contract version whose schema governs, step (h).
SubmitWork(p, a, k, payload, c, revises) ==
    /\ procs[p].pc = "idle"
    /\ task.status # "absent"
    /\ Identity(a, k) = {}
    /\ MayWork(a)
    /\ UnderRejectionLimit(a)
    /\ \/ /\ c = None
          /\ task.status = "open"
          /\ HasSlot
          /\ ~Contract.required
       \/ /\ c \in ClaimIds
          /\ HoldsClaim(a, c)
          /\ claims[c].left > 0
          /\ payload \in contracts[claims[c].ver].schema
    /\ revises \in Revisable(a) \cup {None}
    /\ procs' = [procs EXCEPT ![p] =
                    [Idle EXCEPT !.pc = IF c = None THEN "schema" ELSE "tx",
                                 !.agent = a, !.key = k, !.payload = payload,
                                 !.claim = c, !.ver = Version,
                                 !.revises = revises]]
    /\ UNCHANGED <<task, contracts, claims, subs, balance, earned, recent,
                   verdict, crashes>>

\* Step (h) of a claim-less submission: taskSchema reads the task again.
SubmitSchema(p) ==
    /\ procs[p].pc = "schema"
    /\ procs' = [procs EXCEPT ![p] =
                    IF procs[p].payload \in Contract.schema
                    THEN [procs[p] EXCEPT !.pc = "tx"] ELSE Idle]
    /\ UNCHANGED <<task, contracts, claims, subs, balance, earned, recent,
                   verdict, crashes>>

\* Mutant for the runs: the contract is not looked at again under the lock.
StillAcceptableByOldContract(r) ==
    /\ UnderRejectionLimit(r.agent)
    /\ IF r.claim = None THEN task.status = "open" /\ CanReserve(Contract.price)
                         ELSE HoldsClaim(r.agent, r.claim)

\* Mutant for the runs: the carried claim is not looked at again under the lock.
StillAcceptableByOldClaim(r) ==
    /\ UnderRejectionLimit(r.agent)
    /\ r.claim = None =>
         /\ contracts[r.ver] # Contract =>
               /\ ~Contract.required
               /\ r.payload \in Contract.schema
         /\ task.status = "open"
         /\ CanReserve(Contract.price)

\* Checks repeated under the task lock.  The carried claim's expiry is judged
\* by the time the request took when it started, when the claim had not
\* expired; a renewal since then set expires_at after its own, later time, so
\* that part cannot fail.
StillAcceptable(r) ==
    /\ UnderRejectionLimit(r.agent)
    /\ IF r.claim = None
       THEN /\ contracts[r.ver] # Contract =>
                  /\ ~Contract.required
                  /\ r.payload \in Contract.schema
            /\ task.status = "open"
            /\ CanReserve(Contract.price)
       ELSE HoldsClaim(r.agent, r.claim)

\* Mutant for the runs: the unique index on the request key is missing.
UniqueKeyUnchecked(r) == TRUE

\* InsertSubmission refuses a second row for (agent, task, request_key).
UniqueKey(r) == Identity(r.agent, r.key) = {}

NewSub(r, claim, ver, amount) ==
    [state |-> "delivering", agent |-> r.agent, key |-> r.key,
     payload |-> r.payload, amount |-> amount, claim |-> claim, ver |-> ver,
     revises |-> r.revises, wait |-> LeaseDelivering, clock |-> 0]

\* A claim-less submission records its engagement as a claim born used.
UsedClaim(a) == [NewClaim(a) EXCEPT !.status = "used", !.left = 0, !.life = 0]

SubmitTx(p, s) ==
    LET r == procs[p] IN
    /\ r.pc = "tx"
    /\ StillAcceptable(r)
    /\ UniqueKey(r)
    /\ NextSub(s)
    /\ \/ /\ r.claim = None
          /\ ReserveTaskAmount(Contract.price)
          /\ \E c \in ClaimIds :
               /\ NextClaim(c)
               /\ claims' = [claims EXCEPT ![c] = UsedClaim(r.agent)]
               /\ subs' = [subs EXCEPT ![s] = NewSub(r, c, Version, Contract.price)]
       \/ /\ r.claim # None
          /\ claims' = [claims EXCEPT ![r.claim] = SetClaimStatus(r.claim, "use")]
          /\ subs' = [subs EXCEPT ![s] =
                         NewSub(r, r.claim, claims[r.claim].ver, claims[r.claim].amount)]
          /\ UNCHANGED task
    /\ procs' = [procs EXCEPT ![p] = [Idle EXCEPT !.pc = "read", !.sub = s]]
    /\ UNCHANGED <<contracts, balance, earned, recent, verdict, crashes>>

\* The write phase refuses; the transaction rolls back.
SubmitRefused(p) ==
    /\ procs[p].pc = "tx"
    /\ ~(StillAcceptable(procs[p]) /\ UniqueKey(procs[p]))
    /\ procs' = [procs EXCEPT ![p] = Idle]
    /\ UNCHANGED <<task, contracts, claims, subs, balance, earned, recent,
                   verdict, crashes>>

-----------------------------------------------------------------------------
(* Delivery: DeliverSubmission, called by SubmitWork and by the recovery   *)
(* worker.                                                                 *)

DeliverRead(p) ==
    LET st == subs[procs[p].sub].state IN
    /\ procs[p].pc = "read"
    /\ procs' = [procs EXCEPT ![p] =
                    IF st \in InFlight
                    THEN [procs[p] EXCEPT !.pc = "post", !.pre = st] ELSE Idle]
    /\ UNCHANGED <<task, contracts, claims, subs, balance, earned, recent,
                   verdict, crashes>>

\* The receiver remembers its decision under the Idempotency-Key and repeats
\* it; None is a receiver that has not reached one.
Decisions(s) == IF verdict[s] = None THEN {None, "accept", "reject"}
                                     ELSE {verdict[s]}

\* Mutant for the runs: a redirect is taken for an acceptance.
RepliesWithRedirects(v) ==
    {"timeout", "delivery_failed", "deliver_2xx"}
        \cup (IF v = "reject" THEN {"deliver_4xx"} ELSE {})

\* mapReply: the events a POST can produce once the receiver has decided v.
\* Whatever it decided, the answer may be lost (timeout) or be a failure
\* (a 1xx, 3xx or 5xx status, or a connection that is refused).
Replies(v) ==
    {"timeout", "delivery_failed"}
        \cup (IF v = "accept" THEN {"deliver_2xx"} ELSE {})
        \cup (IF v = "reject" THEN {"deliver_4xx"} ELSE {})

\* The POST, outside any transaction.  Another timeout of an uncertain
\* submission ends the delivery without a write.
Post(p) ==
    LET r == procs[p] IN
    /\ r.pc = "post"
    /\ \E v \in Decisions(r.sub) : \E e \in Replies(v) :
         /\ verdict' = [verdict EXCEPT ![r.sub] = v]
         /\ procs' = [procs EXCEPT ![p] =
                         IF e = "timeout" /\ r.pre = "uncertain" THEN Idle
                         ELSE [r EXCEPT !.pc = "write", !.event = e]]
    /\ UNCHANGED <<task, contracts, claims, subs, balance, earned, recent,
                   crashes>>

\* The row after SetSubmissionState: the payload is kept only while the
\* submission may be delivered again.
SetSubmissionState(s, event) ==
    LET to == SubmissionTransition(subs[s].state, event) IN
    [subs[s] EXCEPT
        !.state = to,
        !.payload = IF to \in Terminal THEN None ELSE @,
        !.wait = IF to = "uncertain" THEN LeaseUncertain ELSE 0,
        !.clock = CASE to = "uncertain" -> UnresolvedAfter
                    [] to = "rejected" -> RejectionWindow
                    [] OTHER -> 0]

\* countingFailures: of the failures, an unresolved delivery does not count.
Counts(event) == event = "delivery_failed"

\* RecentTerminalOutcomes(limit = FaultThreshold)
Recorded(event) ==
    SubSeq(<<Counts(event)>> \o recent, 1,
           IF Len(recent) < FaultThreshold THEN Len(recent) + 1 ELSE FaultThreshold)

\* After the write a failed delivery goes on to the receiver-fault check.
AfterWrite(r) == IF r.event = "delivery_failed" THEN [r EXCEPT !.pc = "fault"]
                                                ELSE Idle

\* Mutant for the runs: an outcome overwrites whatever is there.
StillUndecidedUnchecked(r) == TRUE

\* The compare-and-set of the write: the row is in the state it was read in.
StillUndecided(r) == subs[r.sub].state = r.pre

WriteDeliveryOutcome(p) ==
    LET r == procs[p] IN
    /\ r.pc = "write"
    /\ StillUndecided(r)
    /\ subs' = [subs EXCEPT ![r.sub] = SetSubmissionState(r.sub, r.event)]
    /\ \/ /\ r.event = "deliver_2xx"
          /\ SettleTaskSubmission(r.sub)
          /\ recent' = Recorded(r.event)
       \/ /\ r.event \in {"deliver_4xx", "delivery_failed", "unresolved"}
          /\ ReleaseTaskReservation(subs[r.sub].amount)
          /\ recent' = Recorded(r.event)
          /\ UNCHANGED <<balance, earned>>
       \/ /\ r.event = "timeout"
          /\ UNCHANGED <<task, balance, earned, recent>>
    /\ procs' = [procs EXCEPT ![p] = AfterWrite(r)]
    /\ UNCHANGED <<contracts, claims, verdict, crashes>>

\* Someone else already wrote an outcome: theirs stands.
DropDeliveryOutcome(p) ==
    LET r == procs[p] IN
    /\ r.pc = "write"
    /\ ~StillUndecided(r)
    /\ procs' = [procs EXCEPT ![p] = AfterWrite(r)]
    /\ UNCHANGED <<task, contracts, claims, subs, balance, earned, recent,
                   verdict, crashes>>

ReceiverFaulty ==
    Len(recent) = FaultThreshold /\ \A i \in 1..Len(recent) : recent[i]

\* maybePauseForReceiverFault
FaultCheck(p) ==
    /\ procs[p].pc = "fault"
    /\ IF task.status = "open" /\ ReceiverFaulty
       THEN ApplyTaskStatus("platform_pause") ELSE UNCHANGED task
    /\ procs' = [procs EXCEPT ![p] = Idle]
    /\ UNCHANGED <<contracts, claims, subs, balance, earned, recent, verdict,
                   crashes>>

-----------------------------------------------------------------------------
(* The recovery worker, one leased row at a time.                          *)

\* Mutant for the runs: only uncertain rows are recovered.
LeasableUncertain(s) == subs[s].state = "uncertain" /\ subs[s].wait = 0

\* LeaseRecoverableSubmissions
Leasable(s) == subs[s].state \in InFlight /\ subs[s].wait = 0

RecoverLease(p, s) ==
    /\ procs[p].pc = "idle"
    /\ Leasable(s)
    /\ subs' = [subs EXCEPT ![s].wait = IF subs[s].state = "delivering"
                                        THEN LeaseDelivering ELSE LeaseUncertain]
    /\ procs' = [procs EXCEPT ![p] = [Idle EXCEPT !.pc = "recover", !.sub = s]]
    /\ UNCHANGED <<task, contracts, claims, balance, earned, recent, verdict,
                   crashes>>

RecoverSubmission(p) ==
    LET r == procs[p]
        row == subs[r.sub]
        write(event) == [r EXCEPT !.pc = "write", !.pre = row.state, !.event = event]
    IN
    /\ r.pc = "recover"
    /\ procs' = [procs EXCEPT ![p] =
                    CASE row.state = "delivering" -> write("timeout")
                      [] row.state = "uncertain" /\ row.clock = 0 -> write("unresolved")
                      [] row.state = "uncertain" /\ row.clock > 0 -> [r EXCEPT !.pc = "read"]
                      [] OTHER -> Idle]
    /\ UNCHANGED <<task, contracts, claims, subs, balance, earned, recent,
                   verdict, crashes>>

-----------------------------------------------------------------------------
(* Time and failures.                                                      *)

Down(n) == IF n > 0 THEN n - 1 ELSE 0

Tick ==
    /\ \/ \E c \in ClaimIds : claims[c].left > 0 \/ claims[c].life > 0
       \/ \E s \in SubIds : subs[s].wait > 0 \/ subs[s].clock > 0
    /\ claims' = [c \in ClaimIds |->
                    [claims[c] EXCEPT !.left = Down(@), !.life = Down(@)]]
    /\ subs' = [s \in SubIds |->
                    [subs[s] EXCEPT !.wait = Down(@), !.clock = Down(@)]]
    /\ UNCHANGED <<task, contracts, balance, earned, recent, procs, verdict,
                   crashes>>

\* A request or a worker dies (process exit, database error, caller gone
\* before the write phase): what it remembered is lost, committed rows stay.
Crash(p) ==
    /\ procs[p].pc # "idle"
    /\ crashes < MaxCrashes
    /\ crashes' = crashes + 1
    /\ procs' = [procs EXCEPT ![p] = Idle]
    /\ UNCHANGED <<task, contracts, claims, subs, balance, earned, recent, verdict>>

-----------------------------------------------------------------------------

PublisherStep ==
    \/ \E k \in Contracts, b \in Amounts : CreateTask(k, b)
    \/ \E k \in Contracts : UpdateTask(k)
    \/ OpenTask \/ PauseTask \/ CloseTask \/ PlatformCloseTask
    \/ \E x \in Amounts : FundTask(x)
    \/ RefundTask

ClaimStep ==
    \/ \E a \in Agents, c \in ClaimIds : ClaimTask(a, c)
    \/ \E a \in Agents, c, old \in ClaimIds : ReclaimTask(a, old, c)
    \/ \E c \in ClaimIds : RenewClaim(c) \/ ReleaseClaim(c) \/ ExpireClaim(c)

IntakeStep(p) ==
    \/ \E a \in Agents, k \in Keys, y \in Payloads,
          c \in ClaimIds \cup {None}, v \in SubIds \cup {None} :
            SubmitWork(p, a, k, y, c, v)
    \/ SubmitSchema(p)
    \/ \E s \in SubIds : SubmitTx(p, s)
    \/ SubmitRefused(p)

DeliveryStep(p) ==
    \/ DeliverRead(p) \/ Post(p) \/ WriteDeliveryOutcome(p)
    \/ DropDeliveryOutcome(p) \/ FaultCheck(p)

RecoveryStep(p) ==
    \/ \E s \in SubIds : RecoverLease(p, s)
    \/ RecoverSubmission(p)

Next ==
    \/ PublisherStep
    \/ ClaimStep
    \/ \E p \in Handlers : IntakeStep(p)
    \/ \E p \in Workers : RecoveryStep(p)
    \/ \E p \in Procs : DeliveryStep(p) \/ Crash(p)
    \/ Tick

Spec == Init /\ [][Next]_vars

\* Time passes; a delivery, once started, runs on (its context is detached
\* from the caller and every wait in it is bounded); the two periodic workers
\* reach every row: their work lists are ordered by how long a row has waited.
Fairness ==
    /\ WF_vars(Tick)
    /\ \A c \in ClaimIds : WF_vars(ExpireClaim(c))
    /\ \A p \in Procs : WF_vars(DeliveryStep(p))
    /\ \A p \in Workers : WF_vars(RecoverSubmission(p))
    /\ \A s \in SubIds : SF_vars(\E p \in Workers : RecoverLease(p, s))

FairSpec == Spec /\ Fairness

-----------------------------------------------------------------------------
(* Properties.                                                             *)

TaskType == [status : TaskStatuses, locked : Nat, settled : Nat, reserved : Nat,
             refunded : Nat]

ClaimType == [status : ClaimStatuses, agent : Agents \cup {None},
              ver : Nat, amount : Nat, left : Nat, life : Nat]

SubType == [state : SubStates, agent : Agents \cup {None},
            key : Keys \cup {None}, payload : Payloads \cup {None},
            amount : Nat, claim : ClaimIds \cup {None}, ver : Nat,
            revises : SubIds \cup {None}, wait : Nat, clock : Nat]

ProcType == [pc : {"idle", "schema", "tx", "read", "post", "write", "fault", "recover"},
             agent : Agents \cup {None}, key : Keys \cup {None},
             payload : Payloads \cup {None}, claim : ClaimIds \cup {None},
             ver : Nat, revises : SubIds \cup {None}, sub : SubIds \cup {None},
             pre : InFlight \cup {None}, event : Events \cup {None}]

\* The variables hold values of their types; the counters of the task row and
\* the ledger never go below zero (tb_task is BIGINT NOT NULL with no CHECK on
\* reserved, so it is the guards of the money primitives that keep it there).
TypeOK ==
    /\ task \in TaskType
    /\ contracts \in Seq(Contracts)
    /\ claims \in [ClaimIds -> ClaimType]
    /\ subs \in [SubIds -> SubType]
    /\ balance \in [Agents \cup {Publisher} -> Nat]
    /\ earned \in [SubIds -> Nat]
    /\ recent \in Seq(BOOLEAN)
    /\ procs \in [Procs -> ProcType]
    /\ verdict \in [SubIds -> {None, "accept", "reject"}]
    /\ crashes \in Nat

\* CheckInvariants 10.3: a submission has been paid its amount exactly when
\* it is settled and never otherwise, whatever requests, redeliveries and
\* crashes raced to write its outcome (writeDeliveryOutcome).
PaidExactlyOnce ==
    \A s \in SubIds :
        earned[s] = IF subs[s].state = "settled" THEN subs[s].amount ELSE 0

\* CheckInvariants 10.1: the budget covers what was settled, reserved and
\* refunded.
EscrowSolvent == task.settled + task.reserved + task.refunded <= task.locked

\* What the publisher has, plus what it locked and did not get back, is what
\* it started with (LockTaskBudget, FundTaskBudget, RefundTaskAvailable).
PublisherMoney == balance[Publisher] + task.locked - task.refunded = Credits

\* RefundTask: once the rest of the budget went back, the task is closed,
\* holds no reservation and has nothing left, for good - no claim still
\* running and no late delivery can spend budget that was returned.
RefundIsFinal ==
    task.refunded > 0 =>
        task.status = "closed" /\ task.reserved = 0 /\ Available = 0

\* The budget covers its uses and a refund ends it: a settlement after a refund would
\* break the first, a reservation after it the second.
BudgetKept == EscrowSolvent /\ RefundIsFinal

\* SubmitWork: every submission rests on a used claim of its own agent, with
\* the claim's version and amount, and no claim backs two submissions.
ClaimBacksOneSubmission ==
    \A s \in SubIds : subs[s].state # "none" =>
        /\ subs[s].claim \in ClaimIds
        /\ LET c == claims[subs[s].claim] IN
             /\ c.status = "used"
             /\ c.agent = subs[s].agent
             /\ c.ver = subs[s].ver
             /\ c.amount = subs[s].amount
        /\ \A t \in SubIds \ {s} : subs[t].claim # subs[s].claim

\* Task 1.1, 7.1: a claim and the work under it keep the version and the price
\* they bound, whatever versions UpdateTask publishes later.
BoundPrice ==
    /\ \A c \in ClaimIds : claims[c].status # "none" =>
         claims[c].ver \in 1..Version /\ claims[c].amount = contracts[claims[c].ver].price
    /\ \A s \in SubIds : subs[s].state # "none" =>
         subs[s].ver \in 1..Version /\ subs[s].amount = contracts[subs[s].ver].price

\* ClaimTask: an agent holds at most one active claim on the task.
OneActiveClaim ==
    \A a \in Agents, c, d \in ClaimIds :
        HoldsClaim(a, c) /\ HoldsClaim(a, d) => c = d

\* RenewClaim: a running claim never outlives its deadline, however often it
\* is renewed and whatever ttl a later contract version sets.
ClaimWithinDeadline ==
    \A c \in ClaimIds : claims[c].left <= claims[c].life

\* CheckInvariants 10.6: one submission per (agent, request_key), also when
\* two requests with the same key pass the pre-check together.
UniqueRequestKey ==
    \A s, t \in SubIds :
        /\ subs[s].state # "none" /\ subs[t].state # "none"
        /\ subs[s].agent = subs[t].agent /\ subs[s].key = subs[t].key
        => s = t

\* mapReply and the recovery worker: work the receiver accepted is never
\* recorded as rejected, and work it refused is never paid, even when the
\* outcome was written by a redelivery.
OutcomeAgreesWithReceiver ==
    \A s \in SubIds :
        /\ subs[s].state = "settled" => verdict[s] = "accept"
        /\ subs[s].state = "rejected" => verdict[s] = "reject"

\* A release or settlement that is due finds its reservation: the guard
\* reserved >= amount of ReleaseTaskReservation and SettleTaskSubmission never
\* turns an outcome into ErrInsufficientReservation.
ReleasesCovered ==
    /\ \A c \in ClaimIds : claims[c].status = "active" => CanRelease(claims[c].amount)
    /\ \A s \in SubIds : subs[s].state \in InFlight => CanRelease(subs[s].amount)

\* The contract of version v was replaced by one that admits y, and came back.
AdmittedInBetween(y, v) ==
    \E u, w \in 1 .. v : u < w /\ contracts[u] = contracts[v] /\ y \in contracts[w].schema

\* SubmitWork step h: the payload of work in flight is admitted by the version it is bound
\* to, or else by one that stood between two publications of the same contract: the check
\* under the lock compares contracts, and it is the only gap it leaves.
PayloadWasAdmitted ==
    \A s \in SubIds : subs[s].state \in InFlight =>
        \/ subs[s].payload \in contracts[subs[s].ver].schema
        \/ AdmittedInBetween(subs[s].payload, subs[s].ver)

\* The transition kernel as the rows see it: a terminal submission and an
\* ended claim keep their row, a closed task stays closed, a published version
\* never changes, and the settled and refunded counters never go down.
HistoryKept ==
    /\ \A s \in SubIds : subs[s].state \in Terminal =>
         subs'[s].state = subs[s].state /\ subs'[s].amount = subs[s].amount
    /\ \A c \in ClaimIds : claims[c].status \in {"released", "expired", "used"} =>
         claims'[c].status = claims[c].status
    /\ task.status = "closed" => task'.status = "closed"
    /\ task'.settled >= task.settled /\ task'.refunded >= task.refunded
    /\ \A v \in 1..Version : v <= Len(contracts') /\ contracts'[v] = contracts[v]

\* No step rewrites history.
HistoryIsFinal == [][HistoryKept]_vars

\* Tasks 1.0 and 1.1: an agent has one claim, which no renewal carries past its
\* deadline, and the claim and the work under it keep the version they bound and
\* its price, whatever UpdateTask publishes.
ClaimsKeepTheirTerms == OneActiveClaim /\ ClaimWithinDeadline /\ BoundPrice

\* CheckInvariants 10.4 and 10.6: a piece of work is recorded once, whether its
\* request arrives twice or its claim is contested by the worker, the agent and
\* another request.
SubmittedOnce == UniqueRequestKey /\ ClaimBacksOneSubmission

\* writeDeliveryOutcome: the outcome of a submission is the one its receiver
\* decided, whoever writes it, and final.
OutcomeIsTheReceivers == []OutcomeAgreesWithReceiver /\ HistoryIsFinal

\* Spec 10.4: every accepted submission reaches a final state - the request
\* that accepted it may crash, the receiver may never answer.
SubmissionResolved ==
    \A s \in SubIds : (subs[s].state \in InFlight) ~> (subs[s].state \in Terminal)

\* CloseTask: after a close the reservations drain, so the publisher can be
\* refunded.
ReservationsDrain == (task.status = "closed") ~> (task.reserved = 0)
=============================================================================
