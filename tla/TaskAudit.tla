----------------------------- MODULE TaskAudit ------------------------------
(***************************************************************************)
(* The books of one task: the sums CheckInvariants recomputes from the     *)
(* claim and submission rows, and the promise of TaskEscrow.               *)
(***************************************************************************)
EXTENDS TaskEngine, Sums

HeldByClaim(c) == IF claims[c].status = "active" THEN claims[c].amount ELSE 0

HeldBySub(s) == IF subs[s].state \in InFlight THEN subs[s].amount ELSE 0

\* What is held for each claim, for each submission, and what an agent earned
\* with each of its own.
HeldOnClaims == [c \in ClaimIds |-> HeldByClaim(c)]
HeldOnSubs == [s \in SubIds |-> HeldBySub(s)]
EarnedBy(a) == [s \in SubIds |-> IF subs[s].agent = a THEN earned[s] ELSE 0]

\* CheckInvariants 10.2: reserved is the sum of the active claims and of the
\* submissions in flight, after every claim, hand-over, renewal, expiry,
\* delivery outcome and recovery.
ReservedIsBacked ==
    task.reserved = Total(HeldOnClaims, ClaimIds) + Total(HeldOnSubs, SubIds)

\* What the task row calls settled is what the ledger paid, and an agent's
\* balance is what its own submissions earned.
SettledIsPaid ==
    /\ task.settled = Total(earned, SubIds)
    /\ \A a \in Agents \ {Publisher} : balance[a] = Total(EarnedBy(a), SubIds)

\* No credits are made or lost between the publisher's balance, the counters of
\* the task, the ledger and the agents' balances, which the code moves by
\* separate statements, and every release that falls due is covered.
CreditsAddUp == PublisherMoney /\ SettledIsPaid /\ ReleasesCovered

Escrow == INSTANCE TaskEscrow WITH
    wallet <- balance[Publisher],
    pot <- Available,
    onClaim <- HeldOnClaims,
    onSub <- HeldOnSubs,
    paid <- earned

\* The task engine keeps the promise of TaskEscrow: every step moves exactly
\* the money one promise allows, and the publisher is refunded only when no
\* claim and no submission holds any.
EscrowKept == Escrow!Spec
=============================================================================
