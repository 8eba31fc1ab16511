------------------------------ MODULE WorkBoard ------------------------------
(***************************************************************************)
(* What an agent is shown of a task: the lists of work, the work offered   *)
(* to it by name, and the contract it reads.  Each is a query over the     *)
(* same rows the work tools decide about, written again in SQL.            *)
(***************************************************************************)
EXTENDS TaskAudit

\* slotsFor.
Slots == Available \div Contract.price

\* A task with audience rows; its publisher cannot be among them (resolveAudience).
Restricted == Publisher \notin Audience

\* FindOpenWorkPage for a signed-in agent (work_list).
ListedTo(a) ==
    /\ task.status = "open"
    /\ Slots >= 1
    /\ a # Publisher
    /\ UnderRejectionLimit(a)
    /\ a \in Audience

\* An active claim that has not run out.
Engaged(a) == \E c \in ClaimIds : HoldsClaim(a, c) /\ claims[c].left > 0

\* Mutant: any active claim takes the offer away, swept or not.
OfferedToUnlessClaimed(a) == ListedTo(a) /\ Restricted /\ HoldsNoClaim(a)

\* offeredWorkWhere: listed, named, not already taken.
OfferedTo(a) == ListedTo(a) /\ Restricted /\ ~Engaged(a)

\* ListWork: work_list, with offered_to_me or without.
ListWork(a, offeredToMe) == IF offeredToMe THEN OfferedTo(a) ELSE ListedTo(a)

\* visibleTask: the audience is fixed when the task is created.
VisibleTo(a) == a = Publisher \/ a \in Audience

\* Mutant: every reader is shown the current contract.
ShownContractCurrent(a) == Contract

\* GetWork: the version the agent's active claim bound, or else the current one.
ShownContract(a) ==
    IF HoldsNoClaim(a) THEN Contract
    ELSE contracts[claims[CHOOSE c \in ClaimIds : HoldsClaim(a, c)].ver]

-----------------------------------------------------------------------------
(* Properties.                                                             *)

\* An agent is offered a restricted task exactly when work_claim would engage it, an
\* expired claim of its own that the worker has not swept included (task_audience.go:
\* "an opportunity is exactly work_list would list it plus named plus not already taken").
OfferedIsClaimable ==
    Restricted /\ (\E c \in ClaimIds : NextClaim(c)) =>
        \A a \in Agents :
            ListWork(a, TRUE) <=> ENABLED \E c \in ClaimIds :
                                  \/ ClaimTask(a, c)
                                  \/ \E old \in ClaimIds : ReclaimTask(a, old, c)

\* An engaged agent may read its task, and the contract it reads is the one its claim reserved the price of and its
\* request in flight was checked against, whatever the publisher has published since.
EngagedReadsItsContract ==
    /\ \A c \in ClaimIds :
         claims[c].status = "active" =>
           /\ VisibleTo(claims[c].agent)
           /\ ShownContract(claims[c].agent).price = claims[c].amount
    /\ \A p \in Procs :
         procs[p].pc = "tx" /\ procs[p].claim # None /\ HoldsClaim(procs[p].agent, procs[p].claim)
           => procs[p].payload \in ShownContract(procs[p].agent).schema

\* What the board and GetWork show is what the claims allow, nobody works by a contract that is not its own, and
\* what it hands in was admitted by the contract it is bound to, unless that contract has come back while SubmitWork
\* was reading: then by one in between.
BoardAgreesWithClaims ==
    OfferedIsClaimable /\ EngagedReadsItsContract /\ PayloadWasAdmitted
=============================================================================
