------------------------------ MODULE RowLocks ------------------------------
(* The row locks of every transaction that holds more than one of them: the *)
(* task engine, the credits ledger, payments, redemptions, memories, the    *)
(* room tools, the notify outbox and the deactivation cascade, which live in *)
(* one Postgres database and meet on the account rows of tb_bots.            *)
(*                                                                           *)
(* A transaction is the sequence of lock requests its statements make and    *)
(* keeps its locks until it ends.  SELECT ... FOR UPDATE and DELETE take     *)
(* "update", an UPDATE that leaves the key alone "write", and the foreign    *)
(* key check of an INSERT takes "refer" (FOR KEY SHARE) on the row referred  *)
(* to.  A statement without ORDER BY takes the locks of its rows in any      *)
(* order.  Statements that skip locked rows (the leases of the workers)      *)
(* never wait and are left out.                                              *)
EXTENDS FiniteSets, Sequences, SequencesExt

CONSTANTS
    Txns,      \* connections that run transactions
    Accounts,  \* rows of tb_bots, each a publisher, an agent and a member
    Tasks,     \* rows of tb_task
    Rooms      \* rows of threads, with every account a member

ASSUME LocksAssumption == IsFiniteSet(Accounts) /\ IsFiniteSet(Rooms)

VARIABLES
    todo,      \* the requests a transaction has not been granted yet
    held       \* the locks it holds, empty when no transaction is open

vars == <<todo, held>>

Update(row) == [row |-> row, mode |-> "update"]
Write(row) == [row |-> row, mode |-> "write"]
Refer(row) == [row |-> row, mode |-> "refer"]

\* The table of row-level lock conflicts, for the three modes in use.
Conflict(m, n) == "update" \in {m, n} \/ (m = "write" /\ n = "write")

Bot(a) == <<"tb_bots", a>>
Task(k) == <<"tb_task", k>>
Claim(k, a) == <<"tb_task_claim", k, a>>
Submission(k, a) == <<"tb_task_submission", k, a>>
Report(k) == <<"tb_task_report", k>>
Memory == <<"tb_kungfus">>
Product == <<"tb_rewards_products">>
Redemption(a) == <<"tb_redemptions", a>>
Payment(a) == <<"tb_payments", a>>
Admin == <<"tb_admins">>
Room(r) == <<"threads", r>>
Member(r, a) == <<"thread_members", r, a>>
Receipts(r, a) == <<"thread_receipts", r, a>>
Assigns(r) == <<"assigns", r>>

\* One statement over the rows S, in the order its plan happens to visit them.
Orders(S) == SetToSeqs(S)

-----------------------------------------------------------------------------
(* The task engine.                                                        *)

\* CreateTask: the foreign keys of tb_task and task_audience, then the ledger.
CreateTask(p) ==
    UNION {{<<Refer(Bot(p))>> \o s \o <<Update(Bot(p))>> :
               s \in Orders({Refer(Bot(x)) : x \in audience})} :
           audience \in SUBSET (Accounts \ {p})}

\* UpdateTask, OpenTask, PauseTask, CloseTask, maybePauseForReceiverFault
ChangeTask(k) == {<<Update(Task(k))>>}

\* FundTask, RefundTask
MoveBudget(k, p) == {<<Update(Task(k)), Update(Bot(p))>>}

\* ClaimTask, with the expiry of an old claim and the pins of the harness
ClaimTask(k, a) ==
    {<<Update(Task(k)), Write(Claim(k, a)), Refer(Bot(a)), Refer(Memory)>>}

\* RenewClaim, ReleaseClaim, ExpireClaims
EndClaim(k, a) == {<<Update(Task(k)), Update(Claim(k, a))>>}

\* SubmitWork, without and with a claim
SubmitWork(k, a) ==
    {<<Update(Task(k)), Refer(Bot(a)), Refer(Memory)>>,
     <<Update(Task(k)), Update(Claim(k, a)), Refer(Bot(a))>>}

\* Mutant for the runs: the submission is locked before its task.
WriteOutcomeInverted(k, a) ==
    {<<Update(Bot(a)), Update(Submission(k, a)), Update(Task(k))>>}

\* writeDeliveryOutcome, with the settlement
WriteOutcome(k, a) ==
    {<<Update(Task(k)), Update(Submission(k, a)), Update(Bot(a))>>}

PlatformClose(k) == {<<Update(Task(k)), Write(Report(k)), Refer(Admin)>>}
ResolveReport(k) == {<<Update(Report(k)), Refer(Admin)>>}

-----------------------------------------------------------------------------
(* Payments, redemptions and memories.                                     *)

\* CompletePayment, RecordPaymentAdjustment
MovePayment(a) == {<<Update(Payment(a)), Update(Bot(a))>>}

\* redeemTx
Redeem(a) == {<<Update(Product), Refer(Bot(a)), Update(Bot(a))>>}

\* refundTransitionTx, lockTransitionTx under WithAuditTx
RefundRedemption(a) ==
    {<<Update(Redemption(a)), Update(Bot(a)), Refer(Admin)>>,
     <<Update(Redemption(a)), Refer(Admin)>>}

ChangeProduct == {<<Update(Product), Refer(Admin)>>}
UpdateMemory == {<<Update(Memory)>>}

-----------------------------------------------------------------------------
(* The room tools: runThreadAction locks the account, the tool its room.   *)

Enter(a, r) == <<Update(Bot(a)), Update(Room(r))>>

\* ThreadStart, ThreadJoin, ThreadIssueKey, ThreadRevokeKey
EnterRoom(a, r) == {Enter(a, r)}
HandleEntry(a, r) == {Enter(a, r) \o <<Write(Receipts(r, a))>>}

RetractEntry(a, r) ==
    {Enter(a, r) \o s : s \in Orders({Write(Receipts(r, x)) : x \in Accounts \ {a}})}

SetRole(a, r, m) ==
    {Enter(a, r) \o <<Write(Receipts(r, m)), Write(Member(r, m))>>}

\* Mutant for the runs: the account that is removed is locked too.
EndMembershipLocking(a, r, m) ==
    {Enter(a, r) \o <<Update(Bot(m)), Write(Assigns(r)), Write(Receipts(r, m))>>}

\* ThreadLeave (m = a), ThreadRemoveMember
EndMembership(a, r, m) ==
    {Enter(a, r) \o <<Write(Assigns(r)), Write(Receipts(r, m)), Update(Member(r, m))>>}

CloseRoom(a, r) ==
    {Enter(a, r) \o <<Write(Assigns(r))>> \o s :
        s \in Orders({Write(Receipts(r, x)) : x \in Accounts})}

\* ThreadPost: the foreign key of notify_outbox for each account it notifies,
\* then the receipt it answers.
PostEntry(a, r) ==
    UNION {{Enter(a, r) \o <<Refer(Memory)>> \o s \o <<Write(Receipts(r, a))>> :
               s \in Orders({Refer(Bot(x)) : x \in asked})} :
           asked \in SUBSET (Accounts \ {a})}

\* AssignTake, AssignSubmit, AssignJudge, AssignDrop, AssignVoid
AssignTool(a, r) ==
    {Enter(a, r) \o <<Write(Assigns(r)), Write(Receipts(r, a)), Refer(Bot(x))>> :
        x \in Accounts}

\* TerminateAccountThreadMemberships of an account that governs the rooms in g and is
\* a member of those in s.
Cascade(a, g, s) ==
    {<<Update(Bot(a))>> \o rooms \o receipts \o assigns \o members \o <<Refer(Admin)>> :
        rooms \in Orders({Update(Room(r)) : r \in g}),
        receipts \in Orders({Write(Receipts(r, a)) : r \in s}),
        assigns \in Orders({Write(Assigns(r)) : r \in s}),
        members \in Orders({Update(Member(r, a)) : r \in s})}

\* setPlatformAccountStatus
Deactivate(a) == UNION {Cascade(a, x[1], x[2]) : x \in {y \in (SUBSET Rooms) \X (SUBSET Rooms) : y[1] \subseteq y[2]}}

-----------------------------------------------------------------------------
Idle(t) == todo[t] = <<>> /\ held[t] = {}

Init ==
    /\ todo = [t \in Txns |-> <<>>]
    /\ held = [t \in Txns |-> {}]

\* A connection opens a transaction for an operation: any, beside any others.
Begin(t, plans) ==
    /\ Idle(t)
    /\ \E plan \in plans : todo' = [todo EXCEPT ![t] = plan]
    /\ UNCHANGED held

BeginTask(t) == \E k \in Tasks, a \in Accounts :
    \/ Begin(t, ChangeTask(k))
    \/ Begin(t, MoveBudget(k, a))
    \/ Begin(t, ClaimTask(k, a))
    \/ Begin(t, EndClaim(k, a))
    \/ Begin(t, SubmitWork(k, a))
    \/ Begin(t, WriteOutcome(k, a))
    \/ Begin(t, PlatformClose(k))
    \/ Begin(t, ResolveReport(k))

BeginMoney(t) == \E a \in Accounts :
    \/ Begin(t, CreateTask(a))
    \/ Begin(t, MovePayment(a))
    \/ Begin(t, Redeem(a))
    \/ Begin(t, RefundRedemption(a))
    \/ Begin(t, ChangeProduct)
    \/ Begin(t, UpdateMemory)

BeginRoom(t) == \E a \in Accounts, r \in Rooms :
    \/ Begin(t, EnterRoom(a, r))
    \/ Begin(t, HandleEntry(a, r))
    \/ Begin(t, RetractEntry(a, r))
    \/ \E m \in Accounts : Begin(t, SetRole(a, r, m))
    \/ \E m \in Accounts : Begin(t, EndMembership(a, r, m))
    \/ Begin(t, CloseRoom(a, r))
    \/ Begin(t, PostEntry(a, r))
    \/ Begin(t, AssignTool(a, r))
    \/ Begin(t, Deactivate(a))

Waits(t) == todo[t] # <<>>
Wanted(t) == Head(todo[t])

\* u holds a lock that the next request of t conflicts with.
Blocks(u, t) ==
    /\ u # t /\ Waits(t)
    /\ \E l \in held[u] : l.row = Wanted(t).row /\ Conflict(l.mode, Wanted(t).mode)

Blocked(t) == \E u \in Txns : Blocks(u, t)

Acquire(t) ==
    /\ Waits(t)
    /\ ~Blocked(t)
    /\ held' = [held EXCEPT ![t] = @ \cup {Wanted(t)}]
    /\ todo' = [todo EXCEPT ![t] = Tail(@)]

Leave(t) ==
    /\ todo' = [todo EXCEPT ![t] = <<>>]
    /\ held' = [held EXCEPT ![t] = {}]

\* The transaction commits, or an early return rolls it back.
End(t) == held[t] # {} /\ ~Blocked(t) /\ Leave(t)

\* Transactions that wait for each other: each waits for one of them, and keeps one
\* of them waiting.
Circle(S) ==
    /\ S # {}
    /\ \A t \in S : (\E u \in S : Blocks(u, t)) /\ (\E u \in S : Blocks(t, u))

\* Postgres finds a circle and fails one of its transactions.
Fail(t) == (\E S \in SUBSET Txns : Circle(S) /\ t \in S) /\ Leave(t)

Next == \E t \in Txns :
    BeginTask(t) \/ BeginMoney(t) \/ BeginRoom(t) \/ Acquire(t) \/ End(t) \/ Fail(t)

Spec == Init /\ [][Next]_vars

-----------------------------------------------------------------------------
(* Where transactions may come to wait for each other, as the source has it. *)

InsideRoom == {"thread_members", "thread_receipts", "assigns"}

\* CreateTask and redeemTx lock an account which an insert of theirs refers to.
Upgrades(t) == \E x \in Accounts : Wanted(t) = Update(Bot(x)) /\ Refer(Bot(x)) \in held[t]

\* ThreadPost and the assignment tools notify an account while they have their room.
CallsOut(t) ==
    (\E x \in Accounts : Wanted(t) = Refer(Bot(x))) /\ \E r \in Rooms : Update(Room(r)) \in held[t]

\* The cascade of a deactivation goes from room to room.
SpansRooms(t) ==
    (\E r \in Rooms : Wanted(t) = Update(Room(r))) /\ \E r \in Rooms : Update(Room(r)) \in held[t]

\* ... and into rooms its account does not govern without locking them.
Trespasses(t) ==
    \E l \in held[t] \cup {Wanted(t)} :
        l.row[1] \in InsideRoom /\ Update(Room(l.row[2])) \notin held[t]

OutOfOrder(t) == Upgrades(t) \/ CallsOut(t) \/ SpansRooms(t) \/ Trespasses(t)

\* What money depends on: the tasks, the payments and the redemptions.
LedgerKinds == {"tb_task", "tb_payments", "tb_redemptions"}

\* Whatever operations run beside each other, transactions come to wait for each other
\* in a circle, of which Postgres fails one, only through a request that leaves the
\* common order (task; claim, submission, report, payment, redemption, product; account;
\* room; what is in it) in one of the four ways above, all of which the code has.  And no
\* transaction that has a task, a payment or a redemption is in such a circle: funding,
\* claiming, the outcome of a delivery, a charge and a refund are never the one to fail,
\* not even beside the operations that leave the order.
OnlyKnownCircles ==
    \A S \in SUBSET Txns : Circle(S) =>
        /\ \E t \in S : OutOfOrder(t)
        /\ \A t \in S : \A l \in held[t] : l.row[1] \notin LedgerKinds
=============================================================================
