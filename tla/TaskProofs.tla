----------------------------- MODULE TaskProofs -----------------------------
(***************************************************************************)
(* Proofs about one task, for every set of agents, contracts, rows,        *)
(* requests and workers and for every value of the delays.                 *)
(*                                                                         *)
(* Types; what becomes of a task's money (a settled submission is paid     *)
(* once and nothing else is paid, the budget covers its uses, a refund is  *)
(* final); what becomes of its claims and submissions (a claim keeps its   *)
(* terms, a piece of work is recorded once, its outcome is the receiver's  *)
(* and final); the books (what is reserved is held by a running claim or   *)
(* work in flight, what is settled was paid, and every step is one that    *)
(* TaskEscrow promises); and the board (an offer is one that work_claim    *)
(* honours, and whoever works reads the contract it is bound to).          *)
(***************************************************************************)
EXTENDS WorkBoard, SumProofs, SequenceTheorems

-----------------------------------------------------------------------------
(* The inductive invariant of the types.                                   *)

\* A task that exists has a contract.
TaskComplete ==
    /\ task.status = "absent" => task = NoTask /\ contracts = <<>>
    /\ task.status # "absent" => Version >= 1

\* A claim row and a submission row name who they belong to.
RowsComplete ==
    /\ \A c \in ClaimIds : claims[c].status # "none" => claims[c].agent \in Agents
    /\ \A s \in SubIds : subs[s].state # "none" =>
         subs[s].agent \in Agents /\ subs[s].key \in Keys

\* What a request or worker remembers names rows that exist, and an outcome
\* about to be written is an edge of the submission kernel.
ProcComplete(r, rows, n) ==
    /\ r.pc \in {"schema", "tx"} =>
         r.agent \in Agents /\ r.key \in Keys /\ r.ver \in 1..n
    /\ r.pc \in {"read", "post", "write", "fault", "recover"} =>
         r.sub \in SubIds /\ rows[r.sub].state # "none"
    /\ r.pc \in {"post", "write"} => r.pre \in InFlight
    /\ r.pc = "write" =>
         /\ r.event \in Events
         /\ r.event = "timeout" => r.pre = "delivering"
         /\ r.event = "unresolved" => r.pre = "uncertain"

ProcsComplete == \A p \in Procs : ProcComplete(procs[p], subs, Version)

\* The rows have their types, and what requests, workers and rows refer to
\* exists: the invariant that is inductive on its own.
TypeInv == TypeOK /\ TaskComplete /\ RowsComplete /\ ProcsComplete

-----------------------------------------------------------------------------
(* Facts about the building blocks.                                        *)

\* A request or worker that forgets everything is in a legal state.
LEMMA IdleIsProc ==
  /\ Idle \in ProcType
  /\ \A rows, n : ProcComplete(Idle, rows, n)
  BY DEF Idle, ProcType, ProcComplete

\* A task that exists is offered under one of the contracts the publisher may
\* write, with a positive price, ttl and life.
LEMMA ContractInForce ==
  ASSUME TypeInv, task.status # "absent"
  PROVE  /\ Version \in Nat /\ Version >= 1
         /\ Contract \in Contracts
         /\ Contract.price \in Nat /\ Contract.ttl \in Nat /\ Contract.life \in Nat
         /\ Contract.price > 0
  <1>1. Version \in Nat /\ Version >= 1
    BY DEF TypeInv, TypeOK, TaskComplete, Version
  <1>2. Contract \in Contracts
    BY <1>1 DEF TypeInv, TypeOK, Contract, Version
  <1>3. Contract \in ContractType
    BY <1>2, ContractAssumption
  <1> QED
    BY <1>1, <1>2, <1>3 DEF ContractType

\* A step that keeps every row and every version.
RowsStay ==
    /\ \A s \in SubIds : subs[s].state # "none" => subs'[s].state # "none"
    /\ Version' \in Nat /\ Version' >= Version

\* One process moves to a legal state, no row disappears and no version does:
\* what the others remember stays legal.
LEMMA ProcsKept ==
  ASSUME TypeInv, NEW p \in Procs, NEW r,
         procs' = [procs EXCEPT ![p] = r], r \in ProcType, ProcComplete(r, subs', Version'),
         RowsStay
  PROVE  procs' \in [Procs -> ProcType] /\ ProcsComplete'
  <1>1. procs \in [Procs -> ProcType]
    BY DEF TypeInv, TypeOK
  <1>2. procs' \in [Procs -> ProcType]
    BY <1>1
  <1>3. SUFFICES ASSUME NEW q \in Procs, q # p
                 PROVE  ProcComplete(procs'[q], subs', Version')
    BY <1>1, <1>2 DEF ProcsComplete
  <1>4. procs'[q] = procs[q] /\ ProcComplete(procs[q], subs, Version) /\ procs[q] \in ProcType
    BY <1>1, <1>3 DEF TypeInv, ProcsComplete
  <1>5. Version \in Nat
    BY DEF TypeInv, TypeOK, Version
  <1> QED
    BY <1>4, <1>5 DEF ProcComplete, ProcType, RowsStay

\* The same when no process moves.
LEMMA ProcsUnmoved ==
  ASSUME TypeInv, procs' = procs, RowsStay
  PROVE  procs' \in [Procs -> ProcType] /\ ProcsComplete'
  <1>1. procs \in [Procs -> ProcType]
    BY DEF TypeInv, TypeOK
  <1>2. SUFFICES ASSUME NEW q \in Procs PROVE ProcComplete(procs'[q], subs', Version')
    BY <1>1 DEF ProcsComplete
  <1>3. procs'[q] = procs[q] /\ ProcComplete(procs[q], subs, Version) /\ procs[q] \in ProcType
    BY <1>1 DEF TypeInv, ProcsComplete
  <1>4. Version \in Nat
    BY DEF TypeInv, TypeOK, Version
  <1> QED
    BY <1>3, <1>4 DEF ProcComplete, ProcType, RowsStay

\* In the initial state no row exists and every request and worker is idle.
LEMMA TypeInit == Init => TypeInv
  BY ContractAssumption, AmountAssumption, IdAssumption, TimeAssumption
     DEF Init, TypeInv, TypeOK, TaskComplete, RowsComplete, ProcsComplete, ProcComplete,
         TaskType, ClaimType, SubType, ProcType, NoTask, NoClaim, NoSub, Idle,
         TaskStatuses, ClaimStatuses, SubStates, Version

-----------------------------------------------------------------------------
(* The publisher's operations.                                             *)

\* CreateTask writes a draft row with a positive budget and version 1.
LEMMA TypeCreateTask ==
  ASSUME TypeInv, NEW k \in Contracts, NEW b \in Amounts, CreateTask(k, b)
  PROVE  TypeInv'
  <1>1. task' = [status |-> "paused", locked |-> 0 + b, settled |-> 0, reserved |-> 0,
                 refunded |-> 0]
    BY DEF CreateTask, LockTaskBudget, NoTask
  <1>2. b \in Nat
    BY AmountAssumption
  <1>3. task' \in TaskType /\ task'.status = "paused"
    BY <1>1, <1>2 DEF TaskType, TaskStatuses
  <1>4. contracts' \in Seq(Contracts) /\ Version' = 1 /\ Version = 0
    BY DEF CreateTask, Version, TypeInv, TaskComplete
  <1>5. balance' \in [Agents \cup {Publisher} -> Nat]
    BY <1>2 DEF TypeInv, TypeOK, CreateTask, LockTaskBudget
  <1>6. ProcsComplete'
    BY <1>4, ProcsUnmoved DEF CreateTask, RowsStay
  <1> QED
    BY <1>3, <1>4, <1>5, <1>6
       DEF TypeInv, TypeOK, TaskComplete, RowsComplete, CreateTask

\* UpdateTask only appends a contract version.
LEMMA TypeUpdateTask ==
  ASSUME TypeInv, NEW k \in Contracts, UpdateTask(k)
  PROVE  TypeInv'
  <1>1. contracts \in Seq(Contracts) /\ contracts' = Append(contracts, k)
    BY DEF TypeInv, TypeOK, UpdateTask
  <1>2. contracts' \in Seq(Contracts) /\ Version' = Version + 1 /\ Version \in Nat
    BY <1>1 DEF Version
  <1>3. ProcsComplete'
    BY <1>2, ProcsUnmoved DEF UpdateTask, RowsStay
  <1> QED
    BY <1>2, <1>3 DEF TypeInv, TypeOK, TaskComplete, RowsComplete, UpdateTask

\* A status change leaves the counters alone.
LEMMA TypeApplyStatus ==
  ASSUME TypeInv, NEW e, ApplyTaskStatus(e)
  PROVE  /\ task' \in TaskType
         /\ task.status # "absent"
         /\ task'.status # "absent"
  <1>1. task \in TaskType
    BY DEF TypeInv, TypeOK
  <1>2. /\ task.status \in {"open", "paused"}
        /\ TaskTransition(task.status, e) \in {"open", "paused", "closed"}
    BY DEF ApplyTaskStatus, TaskTransition
  <1> QED
    BY <1>1, <1>2 DEF ApplyTaskStatus, TaskType, TaskStatuses

\* Open, pause, close and platform close follow an edge of taskTransitions.
LEMMA TypeStatusChange ==
  ASSUME TypeInv, NEW e, StatusChange(e)
  PROVE  TypeInv'
  <1>1. task' \in TaskType /\ task.status # "absent" /\ task'.status # "absent"
    BY TypeApplyStatus DEF StatusChange
  <1>2. Version' = Version /\ Version \in Nat
    BY DEF StatusChange, Version, TypeInv, TypeOK
  <1>3. ProcsComplete'
    BY <1>2, ProcsUnmoved DEF StatusChange, RowsStay
  <1> QED
    BY <1>1, <1>2, <1>3
       DEF TypeInv, TypeOK, TaskComplete, RowsComplete, StatusChange

\* FundTask moves credits from the wallet to the locked budget.
LEMMA TypeFundTask ==
  ASSUME TypeInv, NEW x \in Amounts, FundTask(x)
  PROVE  TypeInv'
  <1>1. x \in Nat
    BY AmountAssumption
  <1>2. task \in TaskType
    BY DEF TypeInv, TypeOK
  <1>3. task' \in TaskType /\ task'.status = task.status /\ task.status # "absent"
    BY <1>1, <1>2 DEF FundTask, LockTaskBudget, TaskType
  <1>4. balance' \in [Agents \cup {Publisher} -> Nat]
    BY <1>1 DEF TypeInv, TypeOK, FundTask, LockTaskBudget
  <1>5. Version' = Version /\ Version \in Nat
    BY DEF FundTask, Version, TypeInv, TypeOK
  <1>6. ProcsComplete'
    BY <1>5, ProcsUnmoved DEF FundTask, RowsStay
  <1> QED
    BY <1>3, <1>4, <1>5, <1>6
       DEF TypeInv, TypeOK, TaskComplete, RowsComplete, FundTask

\* RefundTask moves what is available back to the wallet.
LEMMA TypeRefundTask ==
  ASSUME TypeInv, RefundTask
  PROVE  TypeInv'
  <1>1. task \in TaskType
    BY DEF TypeInv, TypeOK
  <1>2. Available \in Nat
    BY <1>1 DEF RefundTask, Available, TaskType
  <1>3. task' \in TaskType /\ task'.status = task.status /\ task.status # "absent"
    BY <1>1, <1>2 DEF RefundTask, TaskType
  <1>4. balance' \in [Agents \cup {Publisher} -> Nat]
    BY <1>2 DEF TypeInv, TypeOK, RefundTask
  <1>5. Version' = Version /\ Version \in Nat
    BY DEF RefundTask, Version, TypeInv, TypeOK
  <1>6. ProcsComplete'
    BY <1>5, ProcsUnmoved DEF RefundTask, RowsStay
  <1> QED
    BY <1>3, <1>4, <1>5, <1>6
       DEF TypeInv, TypeOK, TaskComplete, RowsComplete, RefundTask

-----------------------------------------------------------------------------
(* Claims.                                                                 *)

\* A fresh claim is a legal row.
LEMMA NewClaimType ==
  ASSUME TypeInv, task.status # "absent", NEW a \in Agents
  PROVE  /\ NewClaim(a) \in ClaimType
         /\ NewClaim(a).agent = a
         /\ NewClaim(a).status = "active"
  BY ContractInForce DEF NewClaim, ClaimType, ClaimStatuses

\* Ending an active claim gives a legal row that keeps its agent and amount.
LEMMA EndedClaimType ==
  ASSUME TypeInv, NEW c \in ClaimIds, claims[c].status = "active",
         NEW e \in {"release", "expire", "use"}
  PROVE  /\ SetClaimStatus(c, e) \in ClaimType
         /\ SetClaimStatus(c, e).agent = claims[c].agent
         /\ SetClaimStatus(c, e).status # "none"
         /\ claims[c] \in ClaimType
         /\ claims[c].agent \in Agents
  <1>1. claims[c] \in ClaimType /\ claims[c].agent \in Agents
    BY DEF TypeInv, TypeOK, RowsComplete
  <1>2. ClaimTransition("active", e) \in {"released", "expired", "used"}
    BY DEF ClaimTransition
  <1> QED
    BY <1>1, <1>2 DEF SetClaimStatus, ClaimType, ClaimStatuses

\* ClaimTask writes the next claim row and reserves the price.
LEMMA TypeClaimTask ==
  ASSUME TypeInv, NEW a \in Agents, NEW c \in ClaimIds, ClaimTask(a, c)
  PROVE  TypeInv'
  <1>1. task.status # "absent"
    BY DEF ClaimTask
  <1>2. task \in TaskType /\ claims \in [ClaimIds -> ClaimType]
    BY DEF TypeInv, TypeOK
  <1>3. task' \in TaskType /\ task'.status = task.status
    BY <1>1, <1>2, ContractInForce DEF ClaimTask, ReserveTaskAmount, TaskType
  <1>4. /\ claims' \in [ClaimIds -> ClaimType]
        /\ \A d \in ClaimIds : claims'[d].status # "none" => claims'[d].agent \in Agents
    BY <1>1, <1>2, NewClaimType DEF ClaimTask, TypeInv, RowsComplete
  <1>5. Version' = Version /\ Version \in Nat
    BY DEF ClaimTask, Version, TypeInv, TypeOK
  <1>6. ProcsComplete'
    BY <1>5, ProcsUnmoved DEF ClaimTask, RowsStay
  <1> QED
    BY <1>1, <1>3, <1>4, <1>5, <1>6
       DEF TypeInv, TypeOK, TaskComplete, RowsComplete, ClaimTask

\* A re-claim ends the expired row and writes the next one.
LEMMA TypeReclaimTask ==
  ASSUME TypeInv, NEW a \in Agents, NEW c \in ClaimIds, NEW old \in ClaimIds,
         ReclaimTask(a, old, c)
  PROVE  TypeInv'
  <1>1. task.status # "absent" /\ claims[old].status = "active"
    BY DEF ReclaimTask, HoldsClaim
  <1>2. task \in TaskType /\ claims \in [ClaimIds -> ClaimType]
    BY DEF TypeInv, TypeOK
  <1>3. claims[old].amount \in Nat
    BY <1>2 DEF ClaimType
  <1>4. task' \in TaskType /\ task'.status = task.status
    BY <1>1, <1>2, <1>3, ContractInForce DEF ReclaimTask, CanRelease, TaskType
  <1>5. /\ claims' \in [ClaimIds -> ClaimType]
        /\ \A d \in ClaimIds : claims'[d].status # "none" => claims'[d].agent \in Agents
    BY <1>1, <1>2, NewClaimType, EndedClaimType DEF ReclaimTask, TypeInv, RowsComplete
  <1>6. Version' = Version /\ Version \in Nat
    BY DEF ReclaimTask, Version, TypeInv, TypeOK
  <1>7. ProcsComplete'
    BY <1>6, ProcsUnmoved DEF ReclaimTask, RowsStay
  <1> QED
    BY <1>1, <1>4, <1>5, <1>6, <1>7
       DEF TypeInv, TypeOK, TaskComplete, RowsComplete, ReclaimTask

\* RenewClaim moves a deadline forward, never past the task's life.
LEMMA TypeRenewClaim ==
  ASSUME TypeInv, NEW c \in ClaimIds, RenewClaim(c)
  PROVE  TypeInv'
  <1>1. task.status # "absent"
    BY DEF RenewClaim
  <1>2. claims \in [ClaimIds -> ClaimType]
    BY DEF TypeInv, TypeOK
  <1>3. RenewedLeft(c) \in Nat
    BY <1>1, <1>2, ContractInForce DEF RenewedLeft, ClaimType
  <1>4. claims' = [claims EXCEPT ![c].left = RenewedLeft(c)]
    BY DEF RenewClaim
  <1>5. [claims[c] EXCEPT !.left = RenewedLeft(c)] \in ClaimType
    BY <1>2, <1>3 DEF ClaimType
  <1>6. /\ claims' \in [ClaimIds -> ClaimType]
        /\ \A d \in ClaimIds : claims'[d].status = claims[d].status
                               /\ claims'[d].agent = claims[d].agent
    BY <1>2, <1>4, <1>5 DEF ClaimType
  <1>7. Version' = Version /\ Version \in Nat
    BY DEF RenewClaim, Version, TypeInv, TypeOK
  <1>8. ProcsComplete'
    BY <1>7, ProcsUnmoved DEF RenewClaim, RowsStay
  <1> QED
    BY <1>6, <1>7, <1>8
       DEF TypeInv, TypeOK, TaskComplete, RowsComplete, RenewClaim

\* A release or an expiry gives back the reserved amount.
LEMMA TypeEndClaim ==
  ASSUME TypeInv, NEW c \in ClaimIds, NEW e \in {"release", "expire"}, EndClaim(c, e)
  PROVE  TypeInv'
  <1>1. claims[c].status = "active"
    BY DEF EndClaim
  <1>2. task \in TaskType /\ claims \in [ClaimIds -> ClaimType]
    BY DEF TypeInv, TypeOK
  <1>3. claims[c].amount \in Nat
    BY <1>2 DEF ClaimType
  <1>4. task' \in TaskType /\ task'.status = task.status
    BY <1>2, <1>3 DEF EndClaim, ReleaseTaskReservation, CanRelease, TaskType
  <1>5. task.status = "absent" => task' = NoTask
    BY <1>2, <1>3, <1>4
       DEF EndClaim, ReleaseTaskReservation, CanRelease, TypeInv, TaskComplete, NoTask
  <1>6. /\ claims' \in [ClaimIds -> ClaimType]
        /\ \A d \in ClaimIds : claims'[d].status # "none" => claims'[d].agent \in Agents
    BY <1>1, <1>2, EndedClaimType DEF EndClaim, TypeInv, RowsComplete
  <1>7. Version' = Version /\ Version \in Nat
    BY DEF EndClaim, Version, TypeInv, TypeOK
  <1>8. ProcsComplete'
    BY <1>7, ProcsUnmoved DEF EndClaim, RowsStay
  <1> QED
    BY <1>4, <1>5, <1>6, <1>7, <1>8
       DEF TypeInv, TypeOK, TaskComplete, RowsComplete, EndClaim

-----------------------------------------------------------------------------
(* Intake.                                                                 *)

\* The reads of SubmitWork are remembered by the request alone.
LEMMA TypeSubmitWork ==
  ASSUME TypeInv, NEW p \in Procs, NEW a \in Agents, NEW k \in Keys,
         NEW y \in Payloads, NEW c \in ClaimIds \cup {None},
         NEW v \in SubIds \cup {None}, SubmitWork(p, a, k, y, c, v)
  PROVE  TypeInv'
  <1> DEFINE pc == IF c = None THEN "schema" ELSE "tx"
             r == [Idle EXCEPT !.pc = pc,
                               !.agent = a, !.key = k, !.payload = y,
                               !.claim = c, !.ver = Version, !.revises = v]
  <1>1. procs' = [procs EXCEPT ![p] = r]
    BY DEF SubmitWork
  <1>2. task.status # "absent"
    BY DEF SubmitWork
  <1>3. Version \in Nat /\ Version >= 1 /\ Version' = Version
    BY <1>2, ContractInForce DEF SubmitWork, Version
  <1>4. pc \in {"schema", "tx"}
    OBVIOUS
  <1> HIDE DEF pc
  <1>5. Idle \in ProcType
    BY IdleIsProc
  <1>6. /\ r \in ProcType /\ r.pc = pc
        /\ r.agent = a /\ r.key = k /\ r.ver = Version
    BY ZenonT(60), <1>3, <1>4, <1>5 DEF ProcType
  <1> HIDE DEF r
  <1>7. ProcComplete(r, subs', Version')
    BY <1>3, <1>4, <1>6 DEF ProcComplete
  <1>8. procs' \in [Procs -> ProcType] /\ ProcsComplete'
    <2>1. RowsStay
      BY <1>3 DEF SubmitWork, RowsStay
    <2> QED
      BY <1>1, <1>6, <1>7, <2>1, ProcsKept
  <1> QED
    BY <1>3, <1>8 DEF TypeInv, TypeOK, TaskComplete, RowsComplete, SubmitWork

\* So is the version whose schema the payload was checked against.
LEMMA TypeSubmitSchema ==
  ASSUME TypeInv, NEW p \in Procs, SubmitSchema(p)
  PROVE  TypeInv'
  <1>1. procs[p] \in ProcType /\ ProcComplete(procs[p], subs, Version)
    BY DEF TypeInv, TypeOK, ProcsComplete
  <1>2. Version \in Nat /\ Version' = Version
    BY DEF SubmitSchema, TypeInv, TypeOK, Version
  <1>3. PICK r : /\ procs' = [procs EXCEPT ![p] = r]
                 /\ r = Idle \/ r = [procs[p] EXCEPT !.pc = "tx"]
    BY DEF SubmitSchema
  <1>4. r \in ProcType /\ ProcComplete(r, subs', Version')
    BY <1>1, <1>2, <1>3, IdleIsProc DEF SubmitSchema, ProcType, ProcComplete
  <1>5. procs' \in [Procs -> ProcType] /\ ProcsComplete'
    <2>1. RowsStay
      BY <1>2 DEF SubmitSchema, RowsStay
    <2> QED
      BY <1>3, <1>4, <2>1, ProcsKept
  <1> QED
    BY <1>2, <1>5 DEF TypeInv, TypeOK, TaskComplete, RowsComplete, SubmitSchema

\* A request that enters the write phase carries an agent, a key and a payload
\* that make a legal row.
LEMMA NewSubType ==
  ASSUME TypeInv, NEW p \in Procs, procs[p].pc = "tx",
         NEW c \in ClaimIds, NEW v \in Nat, NEW x \in Nat
  PROVE  /\ NewSub(procs[p], c, v, x) \in SubType
         /\ NewSub(procs[p], c, v, x).state = "delivering"
         /\ NewSub(procs[p], c, v, x).agent \in Agents
         /\ NewSub(procs[p], c, v, x).key \in Keys
  <1>1. procs[p] \in ProcType /\ ProcComplete(procs[p], subs, Version)
    BY DEF TypeInv, TypeOK, ProcsComplete
  <1> QED
    BY <1>1, TimeAssumption DEF NewSub, ProcType, ProcComplete, SubType, SubStates

\* The engagement of a claim-less submission is a legal row.
LEMMA UsedClaimType ==
  ASSUME TypeInv, task.status # "absent", NEW a \in Agents
  PROVE  /\ UsedClaim(a) \in ClaimType
         /\ UsedClaim(a).agent = a
         /\ UsedClaim(a).status = "used"
  BY NewClaimType DEF UsedClaim, ClaimType, ClaimStatuses

\* The write phase records a legal row and a legal engagement.
LEMMA TypeSubmitTx ==
  ASSUME TypeInv, NEW p \in Procs, NEW s \in SubIds, SubmitTx(p, s)
  PROVE  TypeInv'
  <1> DEFINE r == procs[p]
  <1>1. r \in ProcType /\ ProcComplete(r, subs, Version) /\ r.pc = "tx" /\ r.agent \in Agents
    BY DEF TypeInv, TypeOK, ProcsComplete, SubmitTx, ProcComplete
  <1>2. /\ task \in TaskType /\ claims \in [ClaimIds -> ClaimType]
        /\ subs \in [SubIds -> SubType]
    BY DEF TypeInv, TypeOK
  <1>3. Version' = Version /\ Version \in Nat
    BY DEF SubmitTx, Version, TypeInv, TypeOK
  <1>4. /\ task' \in TaskType /\ task'.status = task.status
        /\ task.status = "absent" => task' = NoTask
        /\ claims' \in [ClaimIds -> ClaimType]
        /\ \A d \in ClaimIds : claims'[d].status # "none" => claims'[d].agent \in Agents
        /\ \E c \in ClaimIds, v, x \in Nat : subs' = [subs EXCEPT ![s] = NewSub(r, c, v, x)]
    <2>1. CASE r.claim = None
      <3>1. task.status # "absent"
        BY <2>1 DEF SubmitTx, StillAcceptable
      <3>2. PICK c \in ClaimIds :
              /\ claims' = [claims EXCEPT ![c] = UsedClaim(r.agent)]
              /\ subs' = [subs EXCEPT ![s] = NewSub(r, c, Version, Contract.price)]
        BY <2>1 DEF SubmitTx
      <3>3. ReserveTaskAmount(Contract.price)
        BY <2>1 DEF SubmitTx
      <3>4. task' \in TaskType /\ task'.status = task.status
        BY <1>2, <3>1, <3>3, ContractInForce DEF ReserveTaskAmount, TaskType
      <3>5. /\ claims' \in [ClaimIds -> ClaimType]
            /\ \A d \in ClaimIds : claims'[d].status # "none" => claims'[d].agent \in Agents
        BY <1>1, <1>2, <3>1, <3>2, UsedClaimType DEF TypeInv, RowsComplete
      <3> QED
        BY <1>3, <3>1, <3>2, <3>4, <3>5, ContractInForce
    <2>2. CASE r.claim # None
      <3>1. r.claim \in ClaimIds /\ claims[r.claim].status = "active"
        BY <1>1, <2>2 DEF SubmitTx, StillAcceptable, HoldsClaim, ProcType
      <3>2. /\ claims' = [claims EXCEPT ![r.claim] = SetClaimStatus(r.claim, "use")]
            /\ subs' = [subs EXCEPT ![s] =
                 NewSub(r, r.claim, claims[r.claim].ver, claims[r.claim].amount)]
            /\ task' = task
        BY <2>2 DEF SubmitTx
      <3>3. claims[r.claim].ver \in Nat /\ claims[r.claim].amount \in Nat
        BY <1>2, <3>1 DEF ClaimType
      <3>4. /\ claims' \in [ClaimIds -> ClaimType]
            /\ \A d \in ClaimIds : claims'[d].status # "none" => claims'[d].agent \in Agents
        BY <1>2, <3>1, <3>2, EndedClaimType DEF TypeInv, RowsComplete
      <3> QED
        BY <1>2, <3>1, <3>2, <3>3, <3>4 DEF TypeInv, TaskComplete
    <2> QED
      BY <2>1, <2>2
  <1>5. PICK c \in ClaimIds, v \in Nat, x \in Nat :
          subs' = [subs EXCEPT ![s] = NewSub(r, c, v, x)]
    BY <1>4
  <1>6. /\ subs' \in [SubIds -> SubType]
        /\ \A t \in SubIds : subs'[t].state # "none" =>
             subs'[t].agent \in Agents /\ subs'[t].key \in Keys
        /\ \A t \in SubIds : subs[t].state # "none" => subs'[t].state # "none"
        /\ subs'[s].state # "none"
    BY <1>1, <1>2, <1>5, NewSubType DEF TypeInv, RowsComplete
  <1>7. PICK q : procs' = [procs EXCEPT ![p] = q] /\ q = [Idle EXCEPT !.pc = "read", !.sub = s]
    BY DEF SubmitTx
  <1>8. q \in ProcType /\ ProcComplete(q, subs', Version')
    BY <1>6, <1>7 DEF Idle, ProcType, ProcComplete
  <1>9. procs' \in [Procs -> ProcType] /\ ProcsComplete'
    <2>1. RowsStay
      BY <1>3, <1>6 DEF RowsStay
    <2> QED
      BY <1>7, <1>8, <2>1, ProcsKept
  <1> QED
    BY <1>3, <1>4, <1>6, <1>9 DEF TypeInv, TypeOK, TaskComplete, RowsComplete, SubmitTx

-----------------------------------------------------------------------------
(* Steps that change nothing but what one process remembers, and perhaps   *)
(* the receiver's decision or the number of crashes.                       *)

\* A step of one request or worker that writes no task, claim or submission.
LEMMA TypeProcStep ==
  ASSUME TypeInv, NEW p \in Procs, NEW r, procs' = [procs EXCEPT ![p] = r],
         r \in ProcType, ProcComplete(r, subs, Version),
         UNCHANGED <<task, contracts, claims, subs, balance, earned, recent>>,
         verdict' \in [SubIds -> {None, "accept", "reject"}], crashes' \in Nat
  PROVE  TypeInv'
  <1>1. Version \in Nat /\ Version' = Version
    BY DEF TypeInv, TypeOK, Version
  <1>2. ProcComplete(r, subs', Version')
    BY <1>1 DEF ProcComplete
  <1>3. procs' \in [Procs -> ProcType] /\ ProcsComplete'
    <2>1. RowsStay
      BY <1>1 DEF RowsStay
    <2> QED
      BY <1>2, <2>1, ProcsKept
  <1> QED
    BY <1>1, <1>3 DEF TypeInv, TypeOK, TaskComplete, RowsComplete

\* A refused request forgets what it read.
LEMMA TypeSubmitRefused ==
  ASSUME TypeInv, NEW p \in Procs, SubmitRefused(p)
  PROVE  TypeInv'
  BY TypeProcStep, IdleIsProc DEF SubmitRefused, TypeInv, TypeOK

\* So does a request or a worker whose process dies.
LEMMA TypeCrash ==
  ASSUME TypeInv, NEW p \in Procs, Crash(p)
  PROVE  TypeInv'
  <1>1. crashes' \in Nat
    BY DEF Crash, TypeInv, TypeOK
  <1>2. verdict' \in [SubIds -> {None, "accept", "reject"}]
    BY DEF Crash, TypeInv, TypeOK
  <1> QED
    BY <1>1, <1>2, TypeProcStep, IdleIsProc DEF Crash

\* The delivery reads the row it will compare with when it writes.
LEMMA TypeDeliverRead ==
  ASSUME TypeInv, NEW p \in Procs, DeliverRead(p)
  PROVE  TypeInv'
  <1>1. procs[p] \in ProcType /\ ProcComplete(procs[p], subs, Version)
    BY DEF TypeInv, TypeOK, ProcsComplete
  <1>2. PICK r : /\ procs' = [procs EXCEPT ![p] = r]
                 /\ \/ r = Idle
                    \/ /\ subs[procs[p].sub].state \in InFlight
                       /\ r = [procs[p] EXCEPT !.pc = "post",
                                               !.pre = subs[procs[p].sub].state]
    BY DEF DeliverRead
  <1>3. r \in ProcType /\ ProcComplete(r, subs, Version)
    <2>1. CASE r = Idle
      BY <2>1, IdleIsProc
    <2>2. CASE r # Idle
      <3>1. procs[p].pc = "read"
        BY DEF DeliverRead
      <3>2. subs[procs[p].sub].state \in InFlight
        BY <1>2, <2>2
      <3>3. r = [procs[p] EXCEPT !.pc = "post",
                                 !.pre = subs[procs[p].sub].state]
        BY <1>2, <2>2
      <3>4. r \in ProcType
        BY <1>1, <3>2, <3>3 DEF ProcType
      <3>5. r.pc = "post" /\ r.pre \in InFlight /\ r.sub = procs[p].sub
        BY <1>1, <3>2, <3>3 DEF ProcType
      <3>6. r.sub \in SubIds /\ subs[r.sub].state # "none"
        BY <1>1, <3>1, <3>5 DEF ProcComplete
      <3> QED
        BY <3>4, <3>5, <3>6 DEF ProcComplete
    <2> QED
      BY <2>1, <2>2
  <1> QED
    BY <1>2, <1>3, TypeProcStep DEF DeliverRead, TypeInv, TypeOK

\* The POST changes the receiver's decision and the request's outcome only.
LEMMA TypePost ==
  ASSUME TypeInv, NEW p \in Procs, Post(p)
  PROVE  TypeInv'
  <1>1. procs[p] \in ProcType /\ ProcComplete(procs[p], subs, Version) /\ procs[p].pc = "post"
    BY DEF TypeInv, TypeOK, ProcsComplete, Post
  <1>2. procs[p].sub \in SubIds /\ procs[p].pre \in InFlight
    BY <1>1 DEF ProcComplete
  <1>3. PICK v \in Decisions(procs[p].sub) : \E e \in Replies(v) :
          /\ verdict' = [verdict EXCEPT ![procs[p].sub] = v]
          /\ procs' = [procs EXCEPT ![p] =
                          IF e = "timeout" /\ procs[p].pre = "uncertain" THEN Idle
                          ELSE [procs[p] EXCEPT !.pc = "write", !.event = e]]
    BY DEF Post
  <1>4. PICK e \in Replies(v) :
          procs' = [procs EXCEPT ![p] =
                          IF e = "timeout" /\ procs[p].pre = "uncertain" THEN Idle
                          ELSE [procs[p] EXCEPT !.pc = "write", !.event = e]]
    BY <1>3
  <1>5. v \in {None, "accept", "reject"}
    BY <1>2 DEF Decisions, TypeInv, TypeOK
  <1>6. verdict' \in [SubIds -> {None, "accept", "reject"}]
    BY <1>2, <1>3, <1>5 DEF TypeInv, TypeOK
  <1>7. e \in {"timeout", "delivery_failed", "deliver_2xx", "deliver_4xx"}
    BY DEF Replies
  <1>8. PICK r : /\ procs' = [procs EXCEPT ![p] = r]
                 /\ \/ r = Idle
                    \/ /\ e = "timeout" => procs[p].pre # "uncertain"
                       /\ r = [procs[p] EXCEPT !.pc = "write", !.event = e]
    BY <1>4
  <1>9. r \in ProcType /\ ProcComplete(r, subs, Version)
    <2>1. CASE r = Idle
      BY <2>1, IdleIsProc
    <2>2. CASE r # Idle
      BY ZenonT(60), <1>1, <1>2, <1>7, <1>8, <2>2 DEF ProcType, ProcComplete, InFlight, Events
    <2> QED
      BY <2>1, <2>2
  <1> QED
    BY <1>6, <1>8, <1>9, TypeProcStep DEF Post, TypeInv, TypeOK

\* A recovery worker decides by the state of the row it leased.
LEMMA TypeRecoverSubmission ==
  ASSUME TypeInv, NEW p \in Procs, RecoverSubmission(p)
  PROVE  TypeInv'
  <1>1. procs[p] \in ProcType /\ ProcComplete(procs[p], subs, Version) /\ procs[p].pc = "recover"
    BY DEF TypeInv, TypeOK, ProcsComplete, RecoverSubmission
  <1>2. procs[p].sub \in SubIds
    BY <1>1 DEF ProcComplete
  <1> DEFINE row == subs[procs[p].sub]
             write(e) == [procs[p] EXCEPT !.pc = "write", !.pre = row.state, !.event = e]
             r == CASE row.state = "delivering" -> write("timeout")
                    [] row.state = "uncertain" /\ row.clock = 0 -> write("unresolved")
                    [] row.state = "uncertain" /\ row.clock > 0 -> [procs[p] EXCEPT !.pc = "read"]
                    [] OTHER -> Idle
  <1>3. row \in SubType
    BY <1>2 DEF TypeInv, TypeOK
  <1>4. \/ row.state = "delivering" /\ r = write("timeout")
        \/ row.state = "uncertain" /\ r = write("unresolved")
        \/ r = [procs[p] EXCEPT !.pc = "read"]
        \/ r = Idle
    BY SMTT(60), <1>3 DEF SubType
  <1>5. procs' = [procs EXCEPT ![p] = r]
    BY DEF RecoverSubmission
  <1> HIDE DEF r
  <1>6. r \in ProcType /\ ProcComplete(r, subs, Version)
    <2>1. CASE r = Idle
      BY <2>1, IdleIsProc
    <2>2. CASE row.state = "delivering" /\ r = write("timeout")
      BY <1>1, <1>2, <2>2 DEF ProcType, ProcComplete, InFlight, Events
    <2>3. CASE row.state = "uncertain" /\ r = write("unresolved")
      BY <1>1, <1>2, <2>3 DEF ProcType, ProcComplete, InFlight, Events
    <2>4. CASE r = [procs[p] EXCEPT !.pc = "read"]
      BY <1>1, <1>2, <2>4 DEF ProcType, ProcComplete
    <2> QED
      BY <1>4, <2>1, <2>2, <2>3, <2>4
  <1> QED
    BY <1>5, <1>6, TypeProcStep DEF RecoverSubmission, TypeInv, TypeOK

\* What a process does after the write is legal whatever it wrote.
LEMMA AfterWriteType ==
  ASSUME TypeInv, NEW p \in Procs, procs[p].pc = "write"
  PROVE  AfterWrite(procs[p]) \in ProcType /\ ProcComplete(AfterWrite(procs[p]), subs, Version)
  <1>1. procs[p] \in ProcType /\ ProcComplete(procs[p], subs, Version)
    BY DEF TypeInv, TypeOK, ProcsComplete
  <1> QED
    BY <1>1, IdleIsProc DEF AfterWrite, ProcType, ProcComplete

\* An outcome whose compare-and-set fails is dropped.
LEMMA TypeDropDeliveryOutcome ==
  ASSUME TypeInv, NEW p \in Procs, DropDeliveryOutcome(p)
  PROVE  TypeInv'
  BY TypeProcStep, AfterWriteType DEF DropDeliveryOutcome, TypeInv, TypeOK

\* The fault check pauses a task or does nothing.
LEMMA TypeFaultCheck ==
  ASSUME TypeInv, NEW p \in Procs, FaultCheck(p)
  PROVE  TypeInv'
  <1>1. /\ task' \in TaskType
        /\ \/ task' = task
           \/ task.status # "absent" /\ task'.status # "absent"
    BY TypeApplyStatus DEF FaultCheck, TypeInv, TypeOK
  <1>2. Version' = Version /\ Version \in Nat
    BY DEF FaultCheck, Version, TypeInv, TypeOK
  <1>3. procs' \in [Procs -> ProcType] /\ ProcsComplete'
    <2>1. RowsStay
      BY <1>2 DEF FaultCheck, RowsStay
    <2> QED
      BY <2>1, ProcsKept, IdleIsProc DEF FaultCheck
  <1> QED
    BY <1>1, <1>2, <1>3 DEF TypeInv, TypeOK, TaskComplete, RowsComplete, FaultCheck

-----------------------------------------------------------------------------
(* Steps that write a submission row.                                      *)

\* An outcome written on a row in the state it was read in is an edge of the
\* kernel: the row stays legal and keeps its agent, key and amount.
LEMMA OutcomeRowType ==
  ASSUME TypeInv, NEW p \in Procs, procs[p].pc = "write",
         subs[procs[p].sub].state = procs[p].pre
  PROVE  LET s == procs[p].sub
             row == SetSubmissionState(s, procs[p].event)
         IN /\ s \in SubIds
            /\ row \in SubType
            /\ row.state \in {"uncertain"} \cup Terminal
            /\ row.agent = subs[s].agent
            /\ row.key = subs[s].key
            /\ row.amount = subs[s].amount
            /\ row.claim = subs[s].claim
            /\ row.ver = subs[s].ver
            /\ subs[s].agent \in Agents
            /\ subs[s].amount \in Nat
  <1> DEFINE s == procs[p].sub
             e == procs[p].event
             to == SubmissionTransition(subs[s].state, e)
  <1>1. ProcComplete(procs[p], subs, Version)
    BY DEF TypeInv, ProcsComplete
  <1>2. /\ s \in SubIds /\ subs[s].state \in InFlight /\ e \in Events
        /\ e = "timeout" => subs[s].state = "delivering"
        /\ e = "unresolved" => subs[s].state = "uncertain"
    BY <1>1 DEF ProcComplete
  <1>3. subs[s] \in SubType /\ subs[s].agent \in Agents
    BY <1>2 DEF TypeInv, TypeOK, RowsComplete, InFlight
  <1>4. to \in {"uncertain"} \cup Terminal
    BY <1>2 DEF SubmissionTransition, Events, InFlight, Terminal
  <1> HIDE DEF to
  <1> DEFINE pay == IF to \in Terminal THEN None ELSE subs[s].payload
             wait == IF to = "uncertain" THEN LeaseUncertain ELSE 0
             clock == CASE to = "uncertain" -> UnresolvedAfter
                        [] to = "rejected" -> RejectionWindow
                        [] OTHER -> 0
  <1>5. pay \in Payloads \cup {None}
    BY <1>3 DEF SubType
  <1>6. wait \in Nat /\ clock \in Nat
    BY TimeAssumption
  <1>7. SetSubmissionState(s, e) =
          [subs[s] EXCEPT !.state = to, !.payload = pay, !.wait = wait, !.clock = clock]
    BY DEF SetSubmissionState, to
  <1> HIDE DEF pay, wait, clock
  <1> QED
    BY ZenonT(60), <1>2, <1>3, <1>4, <1>5, <1>6, <1>7 DEF SubType, SubStates, Terminal

\* The window of recent outcomes is a sequence of booleans.
LEMMA RecordedType ==
  ASSUME TypeInv, NEW e
  PROVE  Recorded(e) \in Seq(BOOLEAN)
  <1> DEFINE w == <<Counts(e)>> \o recent
             n == IF Len(recent) < FaultThreshold THEN Len(recent) + 1 ELSE FaultThreshold
  <1>1. recent \in Seq(BOOLEAN)
    BY DEF TypeInv, TypeOK
  <1>2. Counts(e) \in BOOLEAN
    BY DEF Counts
  <1>3. w \in Seq(BOOLEAN) /\ Len(w) = Len(recent) + 1
    BY <1>1, <1>2
  <1>4. n \in Nat /\ n <= Len(w)
    BY <1>1, <1>3, ProcessAssumption
  <1> HIDE DEF w, n
  <1>5. \A i \in 1..n : w[i] \in BOOLEAN
    BY <1>3, <1>4
  <1>6. SubSeq(w, 1, n) \in Seq(BOOLEAN)
    BY <1>4, <1>5, SubSeqProperties
  <1> QED
    BY <1>6 DEF Recorded, w, n

\* The write of an outcome settles, releases or rearms the row it read.
LEMMA TypeWriteDeliveryOutcome ==
  ASSUME TypeInv, NEW p \in Procs, WriteDeliveryOutcome(p)
  PROVE  TypeInv'
  <1> DEFINE r == procs[p]
             s == r.sub
             row == SetSubmissionState(s, r.event)
  <1>1. r.pc = "write" /\ subs[s].state = r.pre
    BY DEF WriteDeliveryOutcome, StillUndecided
  <1>2. /\ s \in SubIds /\ row \in SubType
        /\ row.state # "none"
        /\ row.agent = subs[s].agent /\ row.key = subs[s].key
        /\ subs[s].agent \in Agents /\ subs[s].amount \in Nat
        /\ subs[s].state # "none"
    <2>1. r.pre \in InFlight
      BY <1>1 DEF TypeInv, ProcsComplete, ProcComplete
    <2> QED
      BY <1>1, <2>1, OutcomeRowType DEF InFlight, Terminal
  <1>3. subs' = [subs EXCEPT ![s] = row]
    BY DEF WriteDeliveryOutcome
  <1> HIDE DEF row
  <1>4. /\ subs' \in [SubIds -> SubType]
        /\ \A t \in SubIds : subs'[t].state # "none" =>
             subs'[t].agent \in Agents /\ subs'[t].key \in Keys
        /\ \A t \in SubIds : subs[t].state # "none" => subs'[t].state # "none"
    BY <1>2, <1>3 DEF TypeInv, TypeOK, RowsComplete
  <1>5. Version' = Version /\ Version \in Nat
    BY DEF WriteDeliveryOutcome, Version, TypeInv, TypeOK
  <1>6. task \in TaskType
    BY DEF TypeInv, TypeOK
  <1>7. /\ task' \in TaskType /\ task'.status = task.status
        /\ balance' \in [Agents \cup {Publisher} -> Nat]
        /\ earned' \in [SubIds -> Nat]
        /\ task.status = "absent" => task' = NoTask
    <2>1. CASE r.event = "deliver_2xx" /\ SettleTaskSubmission(s)
      <3>1. subs[s].amount <= task.reserved
        BY <2>1 DEF SettleTaskSubmission, CanRelease
      <3>2. task' = [task EXCEPT !.reserved = task.reserved - subs[s].amount,
                                 !.settled = task.settled + subs[s].amount]
        BY <2>1 DEF SettleTaskSubmission
      <3>3. task' \in TaskType /\ task'.status = task.status
        <4>1. task.reserved - subs[s].amount \in Nat /\ task.settled + subs[s].amount \in Nat
          BY <1>2, <1>6, <3>1 DEF TaskType
        <4> QED
          BY <1>6, <3>2, <4>1 DEF TaskType
      <3>4. task.status = "absent" => task' = NoTask
        <4>1. task.status = "absent" => task = NoTask
          BY DEF TypeInv, TaskComplete
        <4>2. task = NoTask => subs[s].amount = 0
          BY <1>2, <3>1 DEF NoTask
        <4>3. ASSUME task = NoTask PROVE task' = NoTask
          <5>1. /\ task'.status = "absent" /\ task'.locked = 0 /\ task'.refunded = 0
                /\ task'.reserved = 0 /\ task'.settled = 0
            BY <3>2, <4>2, <4>3 DEF NoTask
          <5> QED
            BY <3>3, <5>1 DEF NoTask, TaskType
        <4> QED
          BY <4>1, <4>3
      <3>5. balance' \in [Agents \cup {Publisher} -> Nat]
        BY <1>2, <2>1 DEF SettleTaskSubmission, TypeInv, TypeOK
      <3>6. earned' \in [SubIds -> Nat]
        BY SMTT(60), <1>2, <2>1 DEF SettleTaskSubmission, TypeInv, TypeOK
      <3> QED
        BY <3>3, <3>4, <3>5, <3>6
    <2>2. CASE ReleaseTaskReservation(subs[s].amount) /\ UNCHANGED <<balance, earned>>
      <3>1. subs[s].amount <= task.reserved
        BY <2>2 DEF ReleaseTaskReservation, CanRelease
      <3>2. task' = [task EXCEPT !.reserved = task.reserved - subs[s].amount]
        BY <2>2 DEF ReleaseTaskReservation
      <3>3. task' \in TaskType /\ task'.status = task.status
        BY <1>2, <1>6, <3>1, <3>2 DEF TaskType
      <3>4. task.status = "absent" => task' = NoTask
        BY <1>2, <3>1, <3>2 DEF TypeInv, TaskComplete, NoTask
      <3> QED
        BY <2>2, <3>3, <3>4 DEF TypeInv, TypeOK
    <2>3. CASE UNCHANGED <<task, balance, earned>>
      BY <2>3 DEF TypeInv, TypeOK, TaskComplete
    <2> QED
      BY <2>1, <2>2, <2>3 DEF WriteDeliveryOutcome
  <1>8. recent' \in Seq(BOOLEAN)
    BY RecordedType DEF WriteDeliveryOutcome, TypeInv, TypeOK
  <1>9. procs' \in [Procs -> ProcType] /\ ProcsComplete'
    <2>1. RowsStay
      BY <1>4, <1>5 DEF RowsStay
    <2>2. PICK q : q = AfterWrite(r) /\ procs' = [procs EXCEPT ![p] = q]
      BY DEF WriteDeliveryOutcome
    <2>3. q \in ProcType /\ ProcComplete(q, subs, Version)
      BY <1>1, <2>2, AfterWriteType
    <2>4. ProcComplete(q, subs', Version')
      BY <1>4, <1>5, <2>3 DEF ProcComplete
    <2> QED
      BY <2>1, <2>2, <2>3, <2>4, ProcsKept
  <1> QED
    BY <1>4, <1>5, <1>7, <1>8, <1>9
       DEF TypeInv, TypeOK, TaskComplete, RowsComplete, WriteDeliveryOutcome

\* A lease postpones the next attempt on a row in flight.
LEMMA TypeRecoverLease ==
  ASSUME TypeInv, NEW p \in Procs, NEW s \in SubIds, RecoverLease(p, s)
  PROVE  TypeInv'
  <1> DEFINE lease == IF subs[s].state = "delivering" THEN LeaseDelivering
                                                      ELSE LeaseUncertain
  <1>1. subs \in [SubIds -> SubType] /\ subs[s].state # "none"
    BY DEF RecoverLease, Leasable, InFlight, TypeInv, TypeOK
  <1>2. lease \in Nat /\ subs' = [subs EXCEPT ![s].wait = lease]
    BY TimeAssumption DEF RecoverLease
  <1> HIDE DEF lease
  <1>3. [subs[s] EXCEPT !.wait = lease] \in SubType
    BY <1>1, <1>2 DEF SubType
  <1>4. /\ subs' \in [SubIds -> SubType]
        /\ \A t \in SubIds : /\ subs'[t].state = subs[t].state
                             /\ subs'[t].agent = subs[t].agent
                             /\ subs'[t].key = subs[t].key
    BY <1>1, <1>2, <1>3 DEF SubType
  <1>5. Version' = Version /\ Version \in Nat
    BY DEF RecoverLease, Version, TypeInv, TypeOK
  <1>6. procs' \in [Procs -> ProcType] /\ ProcsComplete'
    <2>1. RowsStay
      BY <1>4, <1>5 DEF RowsStay
    <2>2. PICK q : q = [Idle EXCEPT !.pc = "recover", !.sub = s]
                   /\ procs' = [procs EXCEPT ![p] = q]
      BY DEF RecoverLease
    <2>3. q \in ProcType /\ ProcComplete(q, subs', Version')
      BY <1>1, <1>4, <2>2 DEF Idle, ProcType, ProcComplete
    <2> QED
      BY <2>1, <2>2, <2>3, ProcsKept
  <1> QED
    BY <1>4, <1>5, <1>6 DEF TypeInv, TypeOK, TaskComplete, RowsComplete, RecoverLease

\* Time lowers counters that are positive, and no other.
LEMMA TypeTick ==
  ASSUME TypeInv, Tick
  PROVE  TypeInv'
  <1>1. \A n \in Nat : Down(n) \in Nat
    BY DEF Down
  <1>2. claims \in [ClaimIds -> ClaimType] /\ subs \in [SubIds -> SubType]
    BY DEF TypeInv, TypeOK
  <1>3. ASSUME NEW c \in ClaimIds
        PROVE  /\ claims'[c] \in ClaimType
               /\ claims'[c].status = claims[c].status
               /\ claims'[c].agent = claims[c].agent
    <2>1. claims'[c] = [claims[c] EXCEPT !.left = Down(claims[c].left),
                                         !.life = Down(claims[c].life)]
      BY DEF Tick
    <2>2. Down(claims[c].left) \in Nat /\ Down(claims[c].life) \in Nat
      BY <1>1, <1>2 DEF ClaimType
    <2> QED
      BY <1>2, <2>1, <2>2 DEF ClaimType
  <1>4. ASSUME NEW s \in SubIds
        PROVE  /\ subs'[s] \in SubType
               /\ subs'[s].state = subs[s].state
               /\ subs'[s].agent = subs[s].agent
               /\ subs'[s].key = subs[s].key
    <2>1. subs'[s] = [subs[s] EXCEPT !.wait = Down(subs[s].wait),
                                     !.clock = Down(subs[s].clock)]
      BY DEF Tick
    <2>2. Down(subs[s].wait) \in Nat /\ Down(subs[s].clock) \in Nat
      BY <1>1, <1>2 DEF SubType
    <2> QED
      BY ZenonT(60), <1>2, <2>1, <2>2 DEF SubType
  <1>5. claims' \in [ClaimIds -> ClaimType] /\ subs' \in [SubIds -> SubType]
    <2>1. /\ claims' = [c \in ClaimIds |-> claims'[c]]
          /\ subs' = [s \in SubIds |-> subs'[s]]
      BY DEF Tick
    <2> QED
      BY <1>3, <1>4, <2>1
  <1>6. Version' = Version /\ Version \in Nat
    <2>1. contracts' = contracts
      BY DEF Tick
    <2> QED
      BY <2>1 DEF Version, TypeInv, TypeOK
  <1>7. ProcsComplete'
    <2>1. RowsStay
      BY <1>4, <1>6 DEF RowsStay
    <2>2. procs' = procs
      BY DEF Tick
    <2> QED
      BY <2>1, <2>2, ProcsUnmoved
  <1>8. TypeOK' /\ TaskComplete'
    <2>1. UNCHANGED <<task, contracts, balance, earned, recent, procs, verdict, crashes>>
      BY DEF Tick
    <2> QED
      BY <1>5, <1>6, <2>1 DEF TypeInv, TypeOK, TaskComplete
  <1>9. RowsComplete'
    BY <1>3, <1>4 DEF TypeInv, RowsComplete
  <1> QED
    BY <1>7, <1>8, <1>9 DEF TypeInv

-----------------------------------------------------------------------------
(* Every step keeps the types.                                             *)

\* The induction step of TypeInvHolds.
LEMMA TypeStep == TypeInv /\ [Next]_vars => TypeInv'
  <1> SUFFICES ASSUME TypeInv, [Next]_vars PROVE TypeInv'
    OBVIOUS
  <1>1. CASE UNCHANGED vars
    BY <1>1 DEF vars, TypeInv, TypeOK, TaskComplete, RowsComplete, ProcsComplete, Version
  <1>2. CASE PublisherStep
    BY <1>2, TypeCreateTask, TypeUpdateTask, TypeStatusChange, TypeFundTask, TypeRefundTask
       DEF PublisherStep, OpenTask, PauseTask, CloseTask, PlatformCloseTask
  <1>3. CASE ClaimStep
    BY <1>3, TypeClaimTask, TypeReclaimTask, TypeRenewClaim, TypeEndClaim
       DEF ClaimStep, ReleaseClaim, ExpireClaim
  <1>4. ASSUME NEW p \in Handlers, IntakeStep(p) PROVE TypeInv'
    BY <1>4, TypeSubmitWork, TypeSubmitSchema, TypeSubmitTx, TypeSubmitRefused
       DEF IntakeStep, Procs
  <1>5. ASSUME NEW p \in Workers, RecoveryStep(p) PROVE TypeInv'
    BY <1>5, TypeRecoverLease, TypeRecoverSubmission DEF RecoveryStep, Procs
  <1>6. ASSUME NEW p \in Procs, DeliveryStep(p) PROVE TypeInv'
    BY <1>6, TypeDeliverRead, TypePost, TypeWriteDeliveryOutcome, TypeDropDeliveryOutcome,
       TypeFaultCheck DEF DeliveryStep
  <1> QED
    BY <1>1, <1>2, <1>3, <1>4, <1>5, <1>6, TypeCrash, TypeTick DEF Next

\* The inductive invariant holds in every reachable state.
THEOREM TypeInvHolds == Spec => []TypeInv
  BY TypeInit, TypeStep, PTL DEF Spec

\* Every row keeps its type and no counter of the task row, balance or ledger
\* entry ever goes below zero, whatever the publisher, the agents, the
\* receiver, the workers and the crashes do.
THEOREM TypeCorrect == Spec => []TypeOK
  <1>1. TypeInv => TypeOK
    BY DEF TypeInv
  <1> QED
    BY <1>1, TypeInvHolds, PTL

-----------------------------------------------------------------------------
(* Payments.                                                               *)

\* A step that pays nothing, settles nothing and keeps every settled row's
\* amount.
PaysNothing ==
    /\ earned' = earned
    /\ \A s \in SubIds :
         /\ subs'[s].state = "settled" <=> subs[s].state = "settled"
         /\ subs[s].state = "settled" => subs'[s].amount = subs[s].amount

\* Such a step keeps the payments right.
LEMMA PaymentsKept ==
  ASSUME PaidExactlyOnce, PaysNothing
  PROVE  PaidExactlyOnce'
  BY DEF PaidExactlyOnce, PaysNothing

\* A new submission takes a row that never held one: it is not settled.
LEMMA SubmitTxPaysNothing ==
  ASSUME TypeInv, NEW p \in Procs, NEW s \in SubIds, SubmitTx(p, s)
  PROVE  PaysNothing
  <1>1. subs \in [SubIds -> SubType] /\ subs[s].state = "none"
    BY DEF TypeInv, TypeOK, SubmitTx, NextSub
  <1>2. PICK c, v, x : subs' = [subs EXCEPT ![s] = NewSub(procs[p], c, v, x)]
    BY DEF SubmitTx
  <1>3. NewSub(procs[p], c, v, x).state = "delivering"
    BY DEF NewSub
  <1>4. earned' = earned
    BY DEF SubmitTx
  <1> QED
    BY <1>1, <1>2, <1>3, <1>4 DEF PaysNothing

\* The write of an outcome: the compare-and-set lets it through only on a row
\* that is still in flight, so a settlement is the first and only payment.
LEMMA WritePaysOnce ==
  ASSUME TypeInv, PaidExactlyOnce, NEW p \in Procs, WriteDeliveryOutcome(p)
  PROVE  PaidExactlyOnce'
  <1> DEFINE s == procs[p].sub
             e == procs[p].event
             row == SetSubmissionState(s, e)
  <1>1. procs[p].pc = "write" /\ subs[s].state = procs[p].pre
    BY DEF WriteDeliveryOutcome, StillUndecided
  <1>2. /\ s \in SubIds /\ row \in SubType /\ row.amount = subs[s].amount
        /\ subs[s].amount \in Nat /\ subs[s].state \in InFlight
        /\ e \in Events
        /\ e = "timeout" => subs[s].state = "delivering"
        /\ e = "unresolved" => subs[s].state = "uncertain"
    <2>1. ProcComplete(procs[p], subs, Version)
      BY DEF TypeInv, ProcsComplete
    <2>2. /\ procs[p].pre \in InFlight /\ e \in Events
          /\ e = "timeout" => procs[p].pre = "delivering"
          /\ e = "unresolved" => procs[p].pre = "uncertain"
      BY <1>1, <2>1 DEF ProcComplete
    <2> QED
      BY <1>1, <2>2, OutcomeRowType
  <1>3. subs' = [subs EXCEPT ![s] = row] /\ subs \in [SubIds -> SubType]
    BY DEF WriteDeliveryOutcome, TypeInv, TypeOK
  <1>4. earned \in [SubIds -> Nat] /\ earned[s] = 0
    BY <1>2 DEF PaidExactlyOnce, InFlight, TypeInv, TypeOK
  <1>5. row.state = SubmissionTransition(subs[s].state, e)
    BY <1>2, <1>3 DEF SetSubmissionState, SubType
  <1>6. row.state = "settled" <=> e = "deliver_2xx"
    BY <1>2, <1>5 DEF SubmissionTransition, Events, InFlight
  <1> HIDE DEF row
  <1>7. CASE e = "deliver_2xx"
    <2>1. earned' = [earned EXCEPT ![s] = earned[s] + subs[s].amount]
      BY <1>7 DEF WriteDeliveryOutcome, SettleTaskSubmission
    <2> QED
      BY <1>2, <1>3, <1>4, <1>6, <1>7, <2>1 DEF PaidExactlyOnce
  <1>8. CASE e # "deliver_2xx"
    <2>1. earned' = earned
      BY <1>8 DEF WriteDeliveryOutcome
    <2> QED
      BY <1>2, <1>3, <1>4, <1>6, <1>8, <2>1 DEF PaidExactlyOnce
  <1> QED
    BY <1>7, <1>8

\* Every step keeps the payments right.
LEMMA PaidStep == TypeInv /\ PaidExactlyOnce /\ [Next]_vars => PaidExactlyOnce'
  <1> SUFFICES ASSUME TypeInv, PaidExactlyOnce, [Next]_vars PROVE PaidExactlyOnce'
    OBVIOUS
  <1>1. CASE UNCHANGED vars
    BY <1>1 DEF vars, PaidExactlyOnce
  <1>2. CASE PublisherStep
    <2>1. PaysNothing
      BY <1>2 DEF PublisherStep, OpenTask, PauseTask, CloseTask, PlatformCloseTask,
            StatusChange, CreateTask, UpdateTask, FundTask, RefundTask, PaysNothing
    <2> QED
      BY <2>1, PaymentsKept
  <1>3. CASE ClaimStep
    <2>1. PaysNothing
      BY <1>3 DEF ClaimStep, ClaimTask, ReclaimTask, RenewClaim, ReleaseClaim,
            ExpireClaim, EndClaim, PaysNothing
    <2> QED
      BY <2>1, PaymentsKept
  <1>4. ASSUME NEW p \in Handlers, IntakeStep(p) PROVE PaidExactlyOnce'
    <2>1. ASSUME NEW s \in SubIds, SubmitTx(p, s) PROVE PaidExactlyOnce'
      BY <2>1, SubmitTxPaysNothing, PaymentsKept DEF Procs
    <2>2. CASE ~ \E s \in SubIds : SubmitTx(p, s)
      BY ZenonT(60), <1>4, <2>2, PaymentsKept
         DEF IntakeStep, SubmitWork, SubmitSchema, SubmitRefused, PaysNothing
    <2> QED
      BY <2>1, <2>2
  <1>5. ASSUME NEW p \in Workers, RecoveryStep(p) PROVE PaidExactlyOnce'
    <2>1. subs \in [SubIds -> SubType]
      BY DEF TypeInv, TypeOK
    <2>2. ASSUME NEW s \in SubIds, RecoverLease(p, s) PROVE PaysNothing
      <3>1. PICK w : subs' = [subs EXCEPT ![s].wait = w]
        BY <2>2 DEF RecoverLease
      <3>2. \A t \in SubIds : subs'[t].state = subs[t].state /\ subs'[t].amount = subs[t].amount
        BY <2>1, <3>1 DEF SubType
      <3>3. earned' = earned
        BY <2>2 DEF RecoverLease
      <3> QED
        BY <3>2, <3>3 DEF PaysNothing
    <2>3. CASE RecoverSubmission(p)
      BY <2>3, PaymentsKept DEF RecoverSubmission, PaysNothing
    <2> QED
      BY <1>5, <2>2, <2>3, PaymentsKept DEF RecoveryStep
  <1>6. ASSUME NEW p \in Procs, DeliveryStep(p) PROVE PaidExactlyOnce'
    <2>1. CASE WriteDeliveryOutcome(p)
      BY <2>1, WritePaysOnce
    <2>2. CASE ~WriteDeliveryOutcome(p)
      <3>1. subs' = subs /\ earned' = earned
        BY <1>6, <2>2 DEF DeliveryStep, DeliverRead, Post, DropDeliveryOutcome, FaultCheck
      <3> QED
        BY <3>1, PaymentsKept DEF PaysNothing
    <2> QED
      BY <2>1, <2>2
  <1>7. ASSUME NEW p \in Procs, Crash(p) PROVE PaidExactlyOnce'
    BY <1>7, PaymentsKept DEF Crash, PaysNothing
  <1>8. CASE Tick
    <2>1. subs \in [SubIds -> SubType] /\ earned' = earned
      BY <1>8 DEF TypeInv, TypeOK, Tick
    <2>2. ASSUME NEW s \in SubIds
          PROVE  subs'[s].state = subs[s].state /\ subs'[s].amount = subs[s].amount
      <3>1. subs'[s] = [subs[s] EXCEPT !.wait = Down(subs[s].wait),
                                       !.clock = Down(subs[s].clock)]
        BY <1>8 DEF Tick
      <3> QED
        BY <2>1, <3>1 DEF SubType
    <2> QED
      BY <2>1, <2>2, PaymentsKept DEF PaysNothing
  <1> QED
    BY <1>1, <1>2, <1>3, <1>4, <1>5, <1>6, <1>7, <1>8 DEF Next

\* CheckInvariants 10.3, for every instance: a submission has been paid its
\* amount exactly when it is settled, whatever requests, recovery workers and
\* crashes raced in writeDeliveryOutcome.
THEOREM SettledPaidOnce == Spec => []PaidExactlyOnce
  <1>1. Init => PaidExactlyOnce
    BY DEF Init, PaidExactlyOnce, NoSub
  <1> QED
    BY <1>1, PaidStep, TypeInvHolds, PTL DEF Spec
-----------------------------------------------------------------------------
(* The budget.                                                             *)

\* Neither conjunct of BudgetKept is inductive alone: that the budget covers its uses
\* keeps a refund from being undone, and the guards of the money primitives on the
\* counters keep it covered.

\* A step on an open task that stays within the budget, and a step that moves
\* reserved credits to settled or back, keep the budget covered; after a refund
\* nothing is reserved, so such a step moves nothing.
LEMMA BudgetMoved ==
  ASSUME TypeInv, BudgetKept, task' \in TaskType,
         task'.locked = task.locked, task'.refunded = task.refunded,
         task'.status = task.status, task'.settled >= task.settled,
         \/ task'.settled + task'.reserved <= task.settled + task.reserved
         \/ /\ task.status = "open"
            /\ task'.settled + task'.reserved + task.refunded <= task.locked
  PROVE  BudgetKept'
  <1>1. /\ task.locked \in Nat /\ task.settled \in Nat /\ task.reserved \in Nat
        /\ task.refunded \in Nat /\ task'.settled \in Nat /\ task'.reserved \in Nat
    BY DEF TypeInv, TypeOK, TaskType
  <1>2. EscrowSolvent'
    BY <1>1 DEF BudgetKept, EscrowSolvent
  <1>3. ASSUME task.refunded > 0
        PROVE  task'.reserved = 0 /\ task'.settled = task.settled /\ task.reserved = 0
    BY <1>1, <1>3 DEF BudgetKept, RefundIsFinal
  <1>4. ASSUME task.refunded > 0 PROVE Available' = Available
    BY <1>1, <1>3, <1>4 DEF Available
  <1>5. RefundIsFinal'
    BY <1>3, <1>4 DEF BudgetKept, RefundIsFinal
  <1> QED
    BY <1>2, <1>5 DEF BudgetKept

\* Reserving the price of the contract in force on an open task.
LEMMA BudgetReserved ==
  ASSUME TypeInv, BudgetKept, task.status = "open", ReserveTaskAmount(Contract.price)
  PROVE  BudgetKept'
  <1>1. task \in TaskType /\ Contract.price \in Nat
    BY ContractInForce DEF TypeInv, TypeOK
  <1>2. /\ task' \in TaskType
        /\ task'.locked = task.locked /\ task'.refunded = task.refunded
        /\ task'.status = task.status /\ task'.settled = task.settled
        /\ task'.reserved = task.reserved + Contract.price
    BY <1>1 DEF ReserveTaskAmount, TaskType
  <1>3. task.locked - task.settled - task.reserved - task.refunded >= Contract.price
    BY DEF ReserveTaskAmount, CanReserve, Available
  <1> QED
    BY <1>1, <1>2, <1>3, BudgetMoved DEF TaskType

\* Giving reserved credits back.
LEMMA BudgetReleased ==
  ASSUME TypeInv, BudgetKept, NEW x \in Nat, ReleaseTaskReservation(x)
  PROVE  BudgetKept'
  <1>1. task \in TaskType /\ task.reserved >= x
    BY DEF TypeInv, TypeOK, ReleaseTaskReservation, CanRelease
  <1>2. /\ task' \in TaskType
        /\ task'.locked = task.locked /\ task'.refunded = task.refunded
        /\ task'.status = task.status /\ task'.settled = task.settled
        /\ task'.reserved = task.reserved - x
    BY <1>1 DEF ReleaseTaskReservation, TaskType
  <1> QED
    BY <1>1, <1>2, BudgetMoved DEF TaskType

\* Settling a submission in flight.
LEMMA BudgetSettled ==
  ASSUME TypeInv, BudgetKept, NEW s \in SubIds, SettleTaskSubmission(s)
  PROVE  BudgetKept'
  <1>1. task \in TaskType /\ subs[s].amount \in Nat /\ task.reserved >= subs[s].amount
    BY DEF TypeInv, TypeOK, SubType, SettleTaskSubmission, CanRelease
  <1>2. task' = [task EXCEPT !.reserved = task.reserved - subs[s].amount,
                             !.settled = task.settled + subs[s].amount]
    BY DEF SettleTaskSubmission
  <1>3. task.reserved - subs[s].amount \in Nat /\ task.settled + subs[s].amount \in Nat
    BY <1>1 DEF TaskType
  <1>4. /\ task' \in TaskType
        /\ task'.locked = task.locked /\ task'.refunded = task.refunded
        /\ task'.status = task.status
        /\ task'.settled = task.settled + subs[s].amount
        /\ task'.reserved = task.reserved - subs[s].amount
    BY <1>1, <1>2, <1>3 DEF TaskType
  <1> QED
    BY <1>1, <1>4, BudgetMoved DEF TaskType

\* A status change never opens a task that was closed.
LEMMA BudgetStatus ==
  ASSUME TypeInv, BudgetKept, NEW e, ApplyTaskStatus(e)
  PROVE  BudgetKept'
  <1>1. task \in TaskType /\ task.status \in {"open", "paused"}
    BY DEF TypeInv, TypeOK, ApplyTaskStatus, TaskTransition
  <1>2. PICK st : task' = [task EXCEPT !.status = st]
    BY DEF ApplyTaskStatus
  <1>3. /\ task'.locked = task.locked /\ task'.refunded = task.refunded
        /\ task'.settled = task.settled /\ task'.reserved = task.reserved
    BY <1>1, <1>2 DEF TaskType
  <1> QED
    BY <1>1, <1>3 DEF BudgetKept, EscrowSolvent, RefundIsFinal

\* The publisher's money operations: the budget grows only while nothing was
\* refunded, and a refund returns exactly what is available.
LEMMA BudgetPublisher ==
  ASSUME TypeInv, BudgetKept, PublisherStep
  PROVE  BudgetKept'
  <1>1. task \in TaskType
    BY DEF TypeInv, TypeOK
  <1>2. ASSUME NEW k \in Contracts, NEW b \in Amounts, CreateTask(k, b) PROVE BudgetKept'
    <2>1. task' = [status |-> "paused", locked |-> 0 + b, settled |-> 0, reserved |-> 0,
                   refunded |-> 0]
      BY <1>2 DEF CreateTask, LockTaskBudget, NoTask
    <2> QED
      BY <2>1, AmountAssumption DEF BudgetKept, EscrowSolvent, RefundIsFinal
  <1>3. ASSUME NEW k \in Contracts, UpdateTask(k) PROVE BudgetKept'
    BY <1>3 DEF UpdateTask, BudgetKept, EscrowSolvent, RefundIsFinal, Available
  <1>4. ASSUME NEW e, StatusChange(e) PROVE BudgetKept'
    BY <1>4, BudgetStatus DEF StatusChange
  <1>5. ASSUME NEW x \in Amounts, FundTask(x) PROVE BudgetKept'
    <2>1. x \in Nat
      BY AmountAssumption
    <2>2. /\ task'.locked = task.locked + x /\ task'.refunded = task.refunded
          /\ task'.settled = task.settled /\ task'.reserved = task.reserved
          /\ task.status \in {"paused", "open"}
      BY <1>1, <1>5 DEF FundTask, LockTaskBudget, TaskType
    <2> QED
      BY <1>1, <2>1, <2>2 DEF BudgetKept, EscrowSolvent, RefundIsFinal, TaskType
  <1>6. CASE RefundTask
    <2>1. Available \in Nat
      BY <1>1, <1>6 DEF RefundTask, Available, TaskType
    <2>2. /\ task'.locked = task.locked /\ task'.refunded = task.refunded + Available
          /\ task'.settled = task.settled /\ task'.reserved = 0
          /\ task'.status = "closed" /\ task.reserved = 0
      BY <1>1, <1>6 DEF RefundTask, TaskType
    <2>3. Available = task.locked - task.settled - task.reserved - task.refunded
      BY DEF Available
    <2>4. Available' = 0
      BY <1>1, <2>1, <2>2, <2>3 DEF Available, TaskType
    <2>5. EscrowSolvent'
      BY <1>1, <2>1, <2>2, <2>3 DEF EscrowSolvent, TaskType
    <2> QED
      BY <2>2, <2>4, <2>5 DEF BudgetKept, RefundIsFinal
  <1> QED
    BY <1>2, <1>3, <1>4, <1>5, <1>6
       DEF PublisherStep, OpenTask, PauseTask, CloseTask, PlatformCloseTask

\* Claims reserve on an open task, within the budget, and give back what they
\* held when they end.
LEMMA BudgetClaims ==
  ASSUME TypeInv, BudgetKept, ClaimStep
  PROVE  BudgetKept'
  <1>1. task \in TaskType /\ claims \in [ClaimIds -> ClaimType]
    BY DEF TypeInv, TypeOK
  <1>2. ASSUME NEW a \in Agents, NEW c \in ClaimIds, ClaimTask(a, c) PROVE BudgetKept'
    BY <1>2, BudgetReserved DEF ClaimTask
  <1>3. ASSUME NEW a \in Agents, NEW c \in ClaimIds, NEW old \in ClaimIds,
               ReclaimTask(a, old, c)
        PROVE  BudgetKept'
    <2>1. /\ claims[old].amount \in Nat /\ Contract.price \in Nat
          /\ task.status = "open" /\ task.reserved >= claims[old].amount
          /\ task.locked - task.settled - task.reserved - task.refunded >= Contract.price
      BY <1>1, <1>3, ContractInForce
         DEF ReclaimTask, ClaimType, CanRelease, HasSlot, Available
    <2>2. /\ task' \in TaskType
          /\ task'.locked = task.locked /\ task'.refunded = task.refunded
          /\ task'.status = task.status /\ task'.settled = task.settled
          /\ task'.reserved = task.reserved - claims[old].amount + Contract.price
      BY <1>1, <1>3, <2>1 DEF ReclaimTask, TaskType
    <2> QED
      BY <1>1, <2>1, <2>2, BudgetMoved DEF TaskType
  <1>4. ASSUME NEW c \in ClaimIds, RenewClaim(c) PROVE BudgetKept'
    BY <1>4 DEF RenewClaim, BudgetKept, EscrowSolvent, RefundIsFinal, Available
  <1>5. ASSUME NEW c \in ClaimIds, NEW e, EndClaim(c, e) PROVE BudgetKept'
    <2>1. claims[c].amount \in Nat
      BY <1>1 DEF ClaimType
    <2> QED
      BY <1>5, <2>1, BudgetReleased DEF EndClaim
  <1> QED
    BY <1>2, <1>3, <1>4, <1>5 DEF ClaimStep, ReleaseClaim, ExpireClaim

\* Every step keeps the budget covered and a refund final.
LEMMA BudgetStep == TypeInv /\ BudgetKept /\ [Next]_vars => BudgetKept'
  <1> SUFFICES ASSUME TypeInv, BudgetKept, [Next]_vars PROVE BudgetKept'
    OBVIOUS
  <1>1. ASSUME task' = task PROVE BudgetKept'
    BY <1>1 DEF BudgetKept, EscrowSolvent, RefundIsFinal, Available
  <1>2. ASSUME NEW p \in Handlers, IntakeStep(p) PROVE BudgetKept'
    <2>1. ASSUME NEW s \in SubIds, SubmitTx(p, s) PROVE BudgetKept'
      <3>1. CASE procs[p].claim = None
        BY <2>1, <3>1, BudgetReserved DEF SubmitTx, StillAcceptable
      <3>2. CASE procs[p].claim # None
        BY <1>1, <2>1, <3>2 DEF SubmitTx
      <3> QED
        BY <3>1, <3>2
    <2> QED
      BY ZenonT(60), <1>1, <1>2, <2>1 DEF IntakeStep, SubmitWork, SubmitSchema, SubmitRefused
  <1>3. ASSUME NEW p \in Procs, DeliveryStep(p) PROVE BudgetKept'
    <2>1. CASE WriteDeliveryOutcome(p)
      <3>1. procs[p].sub \in SubIds /\ subs[procs[p].sub].amount \in Nat
        <4>1. ProcComplete(procs[p], subs, Version) /\ procs[p].pc = "write"
          BY <2>1 DEF WriteDeliveryOutcome, TypeInv, ProcsComplete
        <4> QED
          BY <4>1 DEF ProcComplete, TypeInv, TypeOK, SubType
      <3> QED
        BY <1>1, <2>1, <3>1, BudgetSettled, BudgetReleased DEF WriteDeliveryOutcome
    <2>2. CASE FaultCheck(p)
      BY <1>1, <2>2, BudgetStatus DEF FaultCheck
    <2> QED
      BY <1>1, <1>3, <2>1, <2>2 DEF DeliveryStep, DeliverRead, Post, DropDeliveryOutcome
  <1>4. ASSUME NEW p \in Workers, RecoveryStep(p) PROVE task' = task
    BY <1>4 DEF RecoveryStep, RecoverLease, RecoverSubmission
  <1>5. ASSUME \/ UNCHANGED vars
               \/ \E p \in Procs : Crash(p)
               \/ Tick
        PROVE  task' = task
    BY <1>5 DEF vars, Crash, Tick
  <1> QED
    BY <1>1, <1>2, <1>3, <1>4, <1>5, BudgetPublisher, BudgetClaims DEF Next

\* CheckInvariants 10.1 and RefundTask, for every instance: what was settled, reserved and
\* refunded never exceeds what the publisher locked, and after a refund the task is closed,
\* holds no reservation and has nothing available, for good.
THEOREM BudgetCovered == Spec => []BudgetKept
  <1>1. Init => BudgetKept
    BY DEF Init, BudgetKept, EscrowSolvent, RefundIsFinal, NoTask
  <1> QED
    BY <1>1, BudgetStep, TypeInvHolds, PTL DEF Spec

-----------------------------------------------------------------------------
(* What a step may do to the rows.                                         *)

\* A published version stays, and the number of versions does not go down.
VersionsStay ==
    /\ Version \in Nat /\ Version' \in Nat /\ Version' >= Version
    /\ \A v \in 1..Version : contracts'[v] = contracts[v]

\* A claim row keeps its terms, is not taken back into use, and keeps to its
\* deadline.
ClaimKept(c) ==
    /\ claims'[c].agent = claims[c].agent
    /\ claims'[c].ver = claims[c].ver
    /\ claims'[c].amount = claims[c].amount
    /\ claims'[c].status = "none" <=> claims[c].status = "none"
    /\ claims'[c].status = "active" => claims[c].status = "active"
    /\ claims[c].status \in {"released", "expired", "used"} =>
         claims'[c].status = claims[c].status
    /\ claims[c].left <= claims[c].life => claims'[c].left <= claims'[c].life

\* A claim row is born on the contract in force.
ClaimBorn(c) ==
    /\ claims[c].status = "none"
    /\ claims'[c].status \in {"active", "used"}
    /\ claims'[c].ver = Version /\ Version >= 1
    /\ claims'[c].amount = Contract.price
    /\ claims'[c].left <= claims'[c].life
    /\ contracts' = contracts

\* A submission row keeps whose it is and what it is bound to.
SubKept(s) ==
    /\ subs'[s].state = "none" <=> subs[s].state = "none"
    /\ subs'[s].agent = subs[s].agent
    /\ subs'[s].key = subs[s].key
    /\ subs'[s].claim = subs[s].claim
    /\ subs'[s].ver = subs[s].ver
    /\ subs'[s].amount = subs[s].amount

\* The contract a task has been published with stays readable.
LEMMA StepKeepsVersions == TypeInv /\ [Next]_vars => VersionsStay
  <1> SUFFICES ASSUME TypeInv, [Next]_vars PROVE VersionsStay
    OBVIOUS
  <1>1. contracts \in Seq(Contracts) /\ Version = Len(contracts) /\ Version \in Nat
    BY DEF TypeInv, TypeOK, Version
  <1>2. ASSUME contracts' = contracts PROVE VersionsStay
    BY <1>1, <1>2 DEF VersionsStay, Version
  <1>3. ASSUME NEW k \in Contracts, NEW b \in Amounts, CreateTask(k, b) PROVE VersionsStay
    <2>1. contracts = <<>> /\ contracts' = <<k>>
      BY <1>3 DEF CreateTask, TypeInv, TaskComplete
    <2> QED
      BY <2>1 DEF VersionsStay, Version
  <1>4. ASSUME NEW k \in Contracts, UpdateTask(k) PROVE VersionsStay
    BY <1>1, <1>4 DEF UpdateTask, VersionsStay, Version
  <1>5. CASE PublisherStep
    BY <1>2, <1>3, <1>4, <1>5
       DEF PublisherStep, OpenTask, PauseTask, CloseTask, PlatformCloseTask, StatusChange,
           FundTask, RefundTask
  <1>6. CASE ClaimStep
    BY <1>2, <1>6 DEF ClaimStep, ClaimTask, ReclaimTask, RenewClaim, ReleaseClaim,
                      ExpireClaim, EndClaim
  <1>7. ASSUME NEW p \in Procs, IntakeStep(p) \/ RecoveryStep(p) \/ DeliveryStep(p) \/ Crash(p)
        PROVE  contracts' = contracts
    BY ZenonT(60), <1>7 DEF IntakeStep, SubmitWork, SubmitSchema, SubmitTx, SubmitRefused,
                RecoveryStep, RecoverLease, RecoverSubmission, DeliveryStep, DeliverRead,
                Post, WriteDeliveryOutcome, DropDeliveryOutcome, FaultCheck, Crash
  <1>8. CASE Tick \/ UNCHANGED vars
    BY <1>2, <1>8 DEF Tick, vars
  <1> QED
    BY <1>2, <1>5, <1>6, <1>7, <1>8 DEF Next, Procs

\* A new claim has the terms of the contract in force.
LEMMA NewClaimIsBorn ==
  ASSUME TypeInv, task.status # "absent", NEW a \in Agents
  PROVE  /\ NewClaim(a).ver = Version /\ Version >= 1
         /\ NewClaim(a).amount = Contract.price
         /\ NewClaim(a).left <= NewClaim(a).life
         /\ NewClaim(a).agent = a /\ NewClaim(a).status = "active"
         /\ UsedClaim(a).ver = Version
         /\ UsedClaim(a).amount = Contract.price
         /\ UsedClaim(a).left <= UsedClaim(a).life
         /\ UsedClaim(a).agent = a /\ UsedClaim(a).status = "used"
  <1>1. /\ Contract \in Contracts /\ Contract.ttl \in Nat /\ Contract.life \in Nat
        /\ Version >= 1
    BY ContractInForce
  <1>2. Contract.ttl <= Contract.life
    BY <1>1, ContractAssumption
  <1> QED
    BY <1>1, <1>2 DEF NewClaim, UsedClaim

\* An active claim that ends keeps its terms.
LEMMA EndedClaimIsKept ==
  ASSUME TypeInv, NEW c \in ClaimIds, claims[c].status = "active",
         NEW e \in {"release", "expire", "use"},
         claims'[c] = SetClaimStatus(c, e)
  PROVE  ClaimKept(c) /\ claims'[c].status \in {"released", "expired", "used"}
  <1>1. claims[c] \in ClaimType
    BY DEF TypeInv, TypeOK
  <1>2. ClaimTransition("active", e) \in {"released", "expired", "used"}
    BY DEF ClaimTransition
  <1> QED
    BY <1>1, <1>2 DEF SetClaimStatus, ClaimKept, ClaimType

\* What the write phase of SubmitWork does: one new submission row, on a claim
\* that was not used before and is now, with that claim's agent and terms.
LEMMA SubmittedRow ==
  ASSUME TypeInv, NEW p \in Procs, NEW s \in SubIds, SubmitTx(p, s)
  PROVE  \E c \in ClaimIds :
            /\ claims[c].status # "used" /\ claims'[c].status = "used"
            /\ ClaimKept(c) \/ ClaimBorn(c)
            /\ subs'[s].claim = c /\ subs'[s].state = "delivering"
            /\ subs'[s].agent = procs[p].agent /\ subs'[s].key = procs[p].key
            /\ claims'[c].agent = subs'[s].agent
            /\ claims'[c].ver = subs'[s].ver
            /\ claims'[c].amount = subs'[s].amount
            /\ \A d \in ClaimIds \ {c} : claims'[d] = claims[d]
            /\ \A t \in SubIds \ {s} : subs'[t] = subs[t]
            /\ subs[s].state = "none"
            /\ Identity(procs[p].agent, procs[p].key) = {}
  <1> DEFINE r == procs[p]
  <1>1. /\ claims \in [ClaimIds -> ClaimType] /\ subs \in [SubIds -> SubType]
        /\ r \in ProcType /\ r.agent \in Agents
    BY DEF TypeInv, TypeOK, ProcsComplete, ProcComplete, SubmitTx
  <1>2. subs[s].state = "none" /\ Identity(r.agent, r.key) = {} /\ contracts' = contracts
    BY DEF SubmitTx, NextSub, UniqueKey
  <1>3. CASE r.claim = None
    <2>1. task.status # "absent"
      BY <1>3 DEF SubmitTx, StillAcceptable
    <2>2. PICK c \in ClaimIds :
            /\ claims[c].status = "none"
            /\ claims' = [claims EXCEPT ![c] = UsedClaim(r.agent)]
            /\ subs' = [subs EXCEPT ![s] = NewSub(r, c, Version, Contract.price)]
      BY <1>3 DEF SubmitTx, NextClaim
    <2>3. claims'[c] = UsedClaim(r.agent)
      BY <1>1, <2>2
    <2>4. ClaimBorn(c)
      BY <1>1, <1>2, <2>1, <2>2, <2>3, NewClaimIsBorn DEF ClaimBorn
    <2>5. subs'[s] = NewSub(r, c, Version, Contract.price)
      BY <1>1, <2>2
    <2> QED
      BY <1>1, <1>2, <2>1, <2>2, <2>3, <2>4, <2>5, NewClaimIsBorn DEF NewSub
  <1>4. CASE r.claim # None
    <2>1. r.claim \in ClaimIds /\ claims[r.claim].status = "active" /\ claims[r.claim].agent = r.agent
      BY <1>1, <1>4 DEF SubmitTx, StillAcceptable, HoldsClaim, ProcType
    <2>2. /\ claims' = [claims EXCEPT ![r.claim] = SetClaimStatus(r.claim, "use")]
          /\ subs' = [subs EXCEPT ![s] =
               NewSub(r, r.claim, claims[r.claim].ver, claims[r.claim].amount)]
      BY <1>4 DEF SubmitTx
    <2>3. claims'[r.claim] = SetClaimStatus(r.claim, "use")
      BY <1>1, <2>1, <2>2
    <2>4. ClaimKept(r.claim)
      BY <2>1, <2>3, EndedClaimIsKept
    <2>5. claims'[r.claim].status = "used"
      BY <1>1, <2>1, <2>3 DEF SetClaimStatus, ClaimTransition, ClaimType
    <2>6. subs'[s] = NewSub(r, r.claim, claims[r.claim].ver, claims[r.claim].amount)
      BY <1>1, <2>2
    <2> QED
      BY <1>1, <1>2, <2>1, <2>2, <2>4, <2>5, <2>6 DEF NewSub, ClaimKept
  <1> QED
    BY <1>3, <1>4

\* Every step keeps a claim row or bears it on the contract in force.
LEMMA StepKeepsClaims ==
  TypeInv /\ [Next]_vars => \A c \in ClaimIds : ClaimKept(c) \/ ClaimBorn(c)
  <1> SUFFICES ASSUME TypeInv, [Next]_vars, NEW c \in ClaimIds
               PROVE  ClaimKept(c) \/ ClaimBorn(c)
    OBVIOUS
  <1>1. claims \in [ClaimIds -> ClaimType]
    BY DEF TypeInv, TypeOK
  <1>2. ASSUME claims'[c] = claims[c] PROVE ClaimKept(c)
    BY <1>2 DEF ClaimKept
  <1>3. CASE ClaimStep
    <2>1. ASSUME NEW a \in Agents, NEW d \in ClaimIds, ClaimTask(a, d)
          PROVE  ClaimKept(c) \/ ClaimBorn(c)
      <3>1. task.status # "absent" /\ claims[d].status = "none" /\ contracts' = contracts
        BY <2>1 DEF ClaimTask, NextClaim
      <3>2. claims' = [claims EXCEPT ![d] = NewClaim(a)]
        BY <2>1 DEF ClaimTask
      <3> QED
        BY <1>1, <1>2, <3>1, <3>2, NewClaimIsBorn DEF ClaimBorn
    <2>2. ASSUME NEW a \in Agents, NEW d \in ClaimIds, NEW old \in ClaimIds,
                 ReclaimTask(a, old, d)
          PROVE  ClaimKept(c) \/ ClaimBorn(c)
      <3>1. /\ task.status # "absent" /\ claims[d].status = "none"
            /\ claims[old].status = "active" /\ contracts' = contracts
        BY <2>2 DEF ReclaimTask, NextClaim, HoldsClaim
      <3>2. claims' = [claims EXCEPT ![old] = SetClaimStatus(old, "expire"),
                                     ![d] = NewClaim(a)]
        BY <2>2 DEF ReclaimTask
      <3>3. CASE c = d
        BY <1>1, <3>1, <3>2, <3>3, NewClaimIsBorn DEF ClaimBorn
      <3>4. CASE c = old /\ c # d
        BY <1>1, <3>1, <3>2, <3>4, EndedClaimIsKept
      <3> QED
        BY <1>1, <1>2, <3>2, <3>3, <3>4
    <2>3. ASSUME NEW d \in ClaimIds, RenewClaim(d) PROVE ClaimKept(c)
      <3>1. claims' = [claims EXCEPT ![d].left = RenewedLeft(d)] /\ task.status = "open"
        BY <2>3 DEF RenewClaim
      <3>2. RenewedLeft(d) <= claims[d].life
        BY <1>1, <3>1, ContractInForce DEF RenewedLeft, ClaimType
      <3> QED
        BY <1>1, <1>2, <3>1, <3>2 DEF ClaimKept, ClaimType
    <2>4. ASSUME NEW d \in ClaimIds, NEW e \in {"release", "expire"}, EndClaim(d, e)
          PROVE  ClaimKept(c)
      <3>1. claims' = [claims EXCEPT ![d] = SetClaimStatus(d, e)] /\ claims[d].status = "active"
        BY <2>4 DEF EndClaim
      <3> QED
        BY <1>1, <1>2, <3>1, EndedClaimIsKept
    <2> QED
      BY <1>3, <2>1, <2>2, <2>3, <2>4 DEF ClaimStep, ReleaseClaim, ExpireClaim
  <1>4. ASSUME NEW p \in Handlers, IntakeStep(p) PROVE ClaimKept(c) \/ ClaimBorn(c)
    <2>1. ASSUME NEW s \in SubIds, SubmitTx(p, s) PROVE ClaimKept(c) \/ ClaimBorn(c)
      BY <1>2, <2>1, SubmittedRow DEF Procs
    <2> QED
      BY ZenonT(60), <1>2, <1>4, <2>1 DEF IntakeStep, SubmitWork, SubmitSchema, SubmitRefused
  <1>5. CASE PublisherStep
    BY <1>2, <1>5
       DEF PublisherStep, CreateTask, UpdateTask, OpenTask, PauseTask, CloseTask,
           PlatformCloseTask, StatusChange, FundTask, RefundTask
  <1>6. ASSUME NEW p \in Procs, RecoveryStep(p) \/ DeliveryStep(p) \/ Crash(p)
        PROVE  claims' = claims
    BY <1>6 DEF RecoveryStep, RecoverLease, RecoverSubmission, DeliveryStep, DeliverRead,
                Post, WriteDeliveryOutcome, DropDeliveryOutcome, FaultCheck, Crash
  <1>7. CASE Tick
    <2>1. /\ claims'[c] = [claims[c] EXCEPT !.left = Down(@), !.life = Down(@)]
          /\ claims[c] \in ClaimType
      BY <1>1, <1>7 DEF Tick
    <2>2. \A m, n \in Nat : m <= n => Down(m) <= Down(n)
      BY DEF Down
    <2> QED
      BY <2>1, <2>2 DEF ClaimKept, ClaimType
  <1>8. CASE UNCHANGED vars
    BY <1>2, <1>8 DEF vars
  <1> QED
    BY <1>2, <1>3, <1>4, <1>5, <1>6, <1>7, <1>8 DEF Next, Procs

\* Every step but the write phase of SubmitWork keeps what a submission row
\* is bound to.
LEMMA StepKeepsSubs ==
  TypeInv /\ [Next]_vars =>
    \/ \A s \in SubIds : SubKept(s)
    \/ \E p \in Procs, s \in SubIds : SubmitTx(p, s)
  <1> SUFFICES ASSUME TypeInv, [Next]_vars,
                      \A p \in Procs, s \in SubIds : ~SubmitTx(p, s),
                      NEW s \in SubIds
               PROVE  SubKept(s)
    OBVIOUS
  <1>1. subs \in [SubIds -> SubType]
    BY DEF TypeInv, TypeOK
  <1>2. ASSUME subs'[s] = subs[s] PROVE SubKept(s)
    BY <1>2 DEF SubKept
  <1>3. ASSUME NEW p \in Procs, WriteDeliveryOutcome(p) PROVE SubKept(s)
    <2>1. /\ procs[p].pc = "write" /\ subs[procs[p].sub].state = procs[p].pre
          /\ subs' = [subs EXCEPT ![procs[p].sub] =
                        SetSubmissionState(procs[p].sub, procs[p].event)]
      BY <1>3 DEF WriteDeliveryOutcome, StillUndecided
    <2>2. procs[p].pre \in InFlight
      BY <2>1 DEF TypeInv, ProcsComplete, ProcComplete
    <2> QED
      BY <1>1, <1>2, <2>1, <2>2, OutcomeRowType DEF SubKept, InFlight, Terminal
  <1>4. ASSUME NEW p \in Procs, NEW t \in SubIds, RecoverLease(p, t) PROVE SubKept(s)
    <2>1. PICK w : subs' = [subs EXCEPT ![t].wait = w]
      BY <1>4 DEF RecoverLease
    <2> QED
      BY <1>1, <1>2, <2>1 DEF SubKept, SubType
  <1>5. CASE Tick
    <2>1. /\ subs'[s] = [subs[s] EXCEPT !.wait = Down(@), !.clock = Down(@)]
          /\ subs[s] \in SubType
      BY <1>1, <1>5 DEF Tick
    <2> QED
      BY <2>1 DEF SubKept, SubType
  <1>6. CASE PublisherStep \/ ClaimStep
    BY <1>2, <1>6
       DEF PublisherStep, CreateTask, UpdateTask, OpenTask, PauseTask, CloseTask,
           PlatformCloseTask, StatusChange, FundTask, RefundTask, ClaimStep, ClaimTask,
           ReclaimTask, RenewClaim, ReleaseClaim, ExpireClaim, EndClaim
  <1>7. ASSUME NEW p \in Procs, IntakeStep(p) PROVE SubKept(s)
    BY ZenonT(60), <1>2, <1>7 DEF IntakeStep, SubmitWork, SubmitSchema, SubmitRefused
  <1>8. ASSUME NEW p \in Procs, RecoveryStep(p) \/ DeliveryStep(p) \/ Crash(p)
        PROVE  SubKept(s)
    BY <1>2, <1>3, <1>4, <1>8
       DEF RecoveryStep, RecoverSubmission, DeliveryStep, DeliverRead, Post,
           DropDeliveryOutcome, FaultCheck, Crash
  <1>9. CASE UNCHANGED vars
    BY <1>2, <1>9 DEF vars
  <1> QED
    BY <1>5, <1>6, <1>7, <1>8, <1>9 DEF Next, Procs

-----------------------------------------------------------------------------
(* Claims keep their terms.                                                *)

\* A claim row becomes active only by work_claim.
LEMMA ActiveByClaiming ==
  ASSUME TypeInv, [Next]_vars, NEW c \in ClaimIds,
         claims'[c].status = "active", claims[c].status # "active"
  PROVE  \E a \in Agents : \/ ClaimTask(a, c)
                           \/ \E old \in ClaimIds : ReclaimTask(a, old, c)
  <1>1. claims \in [ClaimIds -> ClaimType]
    BY DEF TypeInv, TypeOK
  <1>2. claims'[c] # claims[c]
    OBVIOUS
  <1>3. ~ClaimKept(c)
    BY DEF ClaimKept
  <1>4. ASSUME NEW p \in Handlers, IntakeStep(p) PROVE FALSE
    <2>1. ASSUME NEW s \in SubIds, SubmitTx(p, s) PROVE FALSE
      BY <1>2, <2>1, SubmittedRow DEF Procs
    <2> QED
      BY ZenonT(60), <1>2, <1>4, <2>1 DEF IntakeStep, SubmitWork, SubmitSchema, SubmitRefused
  <1>5. ASSUME NEW d \in ClaimIds, RenewClaim(d) PROVE FALSE
    BY <1>1, <1>2, <1>5 DEF RenewClaim, ClaimType
  <1>6. ASSUME NEW d \in ClaimIds, NEW e \in {"release", "expire"}, EndClaim(d, e) PROVE FALSE
    <2>1. claims' = [claims EXCEPT ![d] = SetClaimStatus(d, e)] /\ claims[d].status = "active"
      BY <1>6 DEF EndClaim
    <2> QED
      BY <1>1, <1>2, <1>3, <2>1, EndedClaimIsKept
  <1>7. ASSUME NEW a \in Agents, NEW d \in ClaimIds, d # c, ClaimTask(a, d) PROVE FALSE
    BY <1>1, <1>2, <1>7 DEF ClaimTask
  <1>8. ASSUME NEW a \in Agents, NEW d \in ClaimIds, NEW old \in ClaimIds, d # c,
               ReclaimTask(a, old, d)
        PROVE  FALSE
    <2>1. /\ claims' = [claims EXCEPT ![old] = SetClaimStatus(old, "expire"),
                                      ![d] = NewClaim(a)]
          /\ claims[old].status = "active"
      BY <1>8 DEF ReclaimTask, HoldsClaim
    <2> QED
      BY <1>1, <1>2, <1>3, <1>8, <2>1, EndedClaimIsKept
  <1>9. CASE PublisherStep
    BY <1>2, <1>9
       DEF PublisherStep, CreateTask, UpdateTask, OpenTask, PauseTask, CloseTask,
           PlatformCloseTask, StatusChange, FundTask, RefundTask
  <1>10. ASSUME NEW p \in Procs, RecoveryStep(p) \/ DeliveryStep(p) \/ Crash(p)
         PROVE  claims' = claims
    BY <1>10 DEF RecoveryStep, RecoverLease, RecoverSubmission, DeliveryStep, DeliverRead,
                 Post, WriteDeliveryOutcome, DropDeliveryOutcome, FaultCheck, Crash
  <1>11. ~Tick
    <2>1. ASSUME Tick PROVE claims'[c].status = claims[c].status
      BY <1>1, <2>1 DEF Tick, ClaimType
    <2> QED
      BY <2>1
  <1>12. ~UNCHANGED vars
    BY <1>2 DEF vars
  <1> QED
    BY <1>2, <1>4, <1>5, <1>6, <1>7, <1>8, <1>9, <1>10, <1>11, <1>12
       DEF Next, Procs, ClaimStep, ReleaseClaim, ExpireClaim

\* Whoever claims holds nothing else on the task: the claim it held, if any,
\* expires in the same transaction.
LEMMA OneActiveStep ==
  TypeInv /\ OneActiveClaim /\ [Next]_vars => OneActiveClaim'
  <1> SUFFICES ASSUME TypeInv, OneActiveClaim, [Next]_vars PROVE OneActiveClaim'
    OBVIOUS
  <1>1. claims \in [ClaimIds -> ClaimType]
    BY DEF TypeInv, TypeOK
  <1>2. ASSUME NEW b \in Agents, NEW n \in ClaimIds,
               ClaimTask(b, n) \/ \E old \in ClaimIds : ReclaimTask(b, old, n)
        PROVE  /\ claims'[n].agent = b
               /\ \A d \in ClaimIds \ {n} :
                    claims'[d].status = "active" =>
                       claims'[d] = claims[d] /\ claims[d].agent # b
    <2>1. CASE ClaimTask(b, n)
      <3>1. /\ claims' = [claims EXCEPT ![n] = NewClaim(b)] /\ HoldsNoClaim(b)
            /\ task.status # "absent"
        BY <2>1 DEF ClaimTask
      <3> QED
        BY <1>1, <3>1, NewClaimIsBorn DEF HoldsNoClaim, HoldsClaim
    <2>2. ASSUME NEW old \in ClaimIds, ReclaimTask(b, old, n)
          PROVE  /\ claims'[n].agent = b
                 /\ \A d \in ClaimIds \ {n} :
                      claims'[d].status = "active" =>
                         claims'[d] = claims[d] /\ claims[d].agent # b
      <3>1. /\ claims' = [claims EXCEPT ![old] = SetClaimStatus(old, "expire"),
                                       ![n] = NewClaim(b)]
            /\ HoldsClaim(b, old) /\ task.status # "absent" /\ claims[n].status = "none"
        BY <2>2 DEF ReclaimTask, NextClaim
      <3>2. n # old /\ claims'[n] = NewClaim(b) /\ claims'[old] = SetClaimStatus(old, "expire")
        BY <1>1, <3>1 DEF HoldsClaim
      <3>3. claims'[old].status # "active"
        BY <3>1, <3>2, EndedClaimIsKept DEF HoldsClaim
      <3>4. \A d \in ClaimIds \ {n, old} : claims'[d] = claims[d]
        BY <1>1, <3>1
      <3>5. \A d \in ClaimIds \ {old} : claims[d].status = "active" => claims[d].agent # b
        BY <3>1 DEF OneActiveClaim, HoldsClaim
      <3>6. claims'[n].agent = b
        BY <3>1, <3>2, NewClaimIsBorn
      <3>7. ASSUME NEW d \in ClaimIds \ {n}, claims'[d].status = "active"
            PROVE  claims'[d] = claims[d] /\ claims[d].agent # b
        <4>1. d \in ClaimIds \ {n, old}
          BY <3>3, <3>7
        <4> QED
          BY <3>4, <3>5, <3>7, <4>1
      <3> QED
        BY <3>6, <3>7
    <2> QED
      BY <1>2, <2>1, <2>2
  <1>3. SUFFICES ASSUME NEW a \in Agents, NEW c \in ClaimIds, NEW d \in ClaimIds,
                        HoldsClaim(a, c)', HoldsClaim(a, d)', c # d
                 PROVE  FALSE
    BY DEF OneActiveClaim
  <1>4. /\ claims'[c].status = "active" /\ claims'[c].agent = a
        /\ claims'[d].status = "active" /\ claims'[d].agent = a
    BY <1>3 DEF HoldsClaim
  <1>5. claims[c].status = "active"
    BY <1>2, <1>3, <1>4, ActiveByClaiming
  <1>6. claims[d].status = "active"
    BY <1>2, <1>3, <1>4, ActiveByClaiming
  <1>7. claims[c].agent = a /\ claims[d].agent = a
    BY <1>4, <1>5, <1>6, StepKeepsClaims DEF ClaimKept, ClaimBorn
  <1> QED
    BY <1>3, <1>5, <1>6, <1>7 DEF OneActiveClaim, HoldsClaim

\* Rows keep the price of the version they bound, and running claims their
\* deadline.
LEMMA TermsStep ==
  TypeInv /\ BoundPrice /\ ClaimWithinDeadline /\ [Next]_vars
    => BoundPrice' /\ ClaimWithinDeadline'
  <1> SUFFICES ASSUME TypeInv, BoundPrice, ClaimWithinDeadline, [Next]_vars
               PROVE  BoundPrice' /\ ClaimWithinDeadline'
    OBVIOUS
  <1>1. VersionsStay /\ \A c \in ClaimIds : ClaimKept(c) \/ ClaimBorn(c)
    BY StepKeepsVersions, StepKeepsClaims
  <1>2. ClaimWithinDeadline'
    BY <1>1 DEF ClaimWithinDeadline, ClaimKept, ClaimBorn
  <1>3. ASSUME NEW c \in ClaimIds, claims'[c].status # "none"
        PROVE  /\ claims'[c].ver \in 1..Version'
               /\ claims'[c].amount = contracts'[claims'[c].ver].price
    <2>1. CASE ClaimKept(c)
      BY <1>1, <1>3, <2>1 DEF BoundPrice, ClaimKept, VersionsStay
    <2>2. CASE ClaimBorn(c)
      <3>1. Version \in 1..Version /\ Version' = Version
        BY <1>1, <2>2 DEF ClaimBorn, VersionsStay, Version
      <3> QED
        BY <2>2, <3>1 DEF ClaimBorn, Contract
    <2> QED
      BY <1>1, <2>1, <2>2
  <1>4. ASSUME NEW s \in SubIds, subs'[s].state # "none"
        PROVE  /\ subs'[s].ver \in 1..Version'
               /\ subs'[s].amount = contracts'[subs'[s].ver].price
    <2>1. CASE SubKept(s)
      BY <1>1, <1>4, <2>1 DEF BoundPrice, SubKept, VersionsStay
    <2>2. ASSUME NEW p \in Procs, NEW t \in SubIds, SubmitTx(p, t)
          PROVE  \/ SubKept(s)
                 \/ \E c \in ClaimIds : /\ claims'[c].status = "used"
                                        /\ claims'[c].ver = subs'[s].ver
                                        /\ claims'[c].amount = subs'[s].amount
      BY <2>2, SubmittedRow DEF SubKept
    <2> QED
      BY <1>3, <2>1, <2>2, StepKeepsSubs
  <1> QED
    BY <1>2, <1>3, <1>4 DEF BoundPrice

\* Tasks 1.0 and 1.1, for every instance: an agent has one active claim, a
\* claim keeps to its deadline through every renewal, and claims and work keep
\* the version they bound and its price through every UpdateTask.
THEOREM ClaimsKept == Spec => []ClaimsKeepTheirTerms
  <1>1. Init => ClaimsKeepTheirTerms
    BY DEF Init, ClaimsKeepTheirTerms, OneActiveClaim, HoldsClaim, ClaimWithinDeadline,
           BoundPrice, NoClaim, NoSub
  <1>2. TypeInv /\ ClaimsKeepTheirTerms /\ [Next]_vars => ClaimsKeepTheirTerms'
    BY OneActiveStep, TermsStep DEF ClaimsKeepTheirTerms
  <1> QED
    BY <1>1, <1>2, TypeInvHolds, PTL DEF Spec

-----------------------------------------------------------------------------
(* A piece of work is recorded once.                                       *)

\* The write phase looks for the request key under the task lock.
LEMMA KeyStep ==
  TypeInv /\ UniqueRequestKey /\ [Next]_vars => UniqueRequestKey'
  <1> SUFFICES ASSUME TypeInv, UniqueRequestKey, [Next]_vars PROVE UniqueRequestKey'
    OBVIOUS
  <1>1. CASE \A s \in SubIds : SubKept(s)
    BY <1>1 DEF UniqueRequestKey, SubKept
  <1>2. ASSUME NEW p \in Procs, NEW s \in SubIds, SubmitTx(p, s) PROVE UniqueRequestKey'
    <2>1. /\ subs'[s].agent = procs[p].agent /\ subs'[s].key = procs[p].key
          /\ \A t \in SubIds \ {s} : subs'[t] = subs[t]
          /\ Identity(procs[p].agent, procs[p].key) = {}
      BY <1>2, SubmittedRow
    <2>2. \A t \in SubIds \ {s} :
            subs'[t].state # "none" =>
              ~(subs'[t].agent = subs'[s].agent /\ subs'[t].key = subs'[s].key)
      BY <2>1 DEF Identity
    <2> QED
      BY <2>1, <2>2 DEF UniqueRequestKey
  <1> QED
    BY <1>1, <1>2, StepKeepsSubs

\* A row that holds no submission names no claim.
BlankRows == \A s \in SubIds : subs[s].state = "none" => subs[s].claim = None

\* A submission takes a claim that was not used before, and a used claim
\* keeps its row for good.
LEMMA BackingStep ==
  TypeInv /\ BlankRows /\ ClaimBacksOneSubmission /\ [Next]_vars
    => BlankRows' /\ ClaimBacksOneSubmission'
  <1> SUFFICES ASSUME TypeInv, BlankRows, ClaimBacksOneSubmission, [Next]_vars
               PROVE  BlankRows' /\ ClaimBacksOneSubmission'
    OBVIOUS
  <1> DEFINE Backed(t) == /\ subs[t].claim \in ClaimIds
                          /\ claims[subs[t].claim].status = "used"
                          /\ claims[subs[t].claim].agent = subs[t].agent
                          /\ claims[subs[t].claim].ver = subs[t].ver
                          /\ claims[subs[t].claim].amount = subs[t].amount
  <1>1. \A t \in SubIds : subs[t].state # "none" =>
          Backed(t) /\ \A u \in SubIds \ {t} : subs[u].claim # subs[t].claim
    BY DEF ClaimBacksOneSubmission
  <1>2. \A c \in ClaimIds : claims[c].status = "used" => ClaimKept(c)
    BY StepKeepsClaims DEF ClaimBorn
  <1>3. ASSUME NEW t \in SubIds, SubKept(t), subs'[t].state # "none"
        PROVE  Backed(t)'
    <2>1. Backed(t)
      BY <1>1, <1>3 DEF SubKept
    <2> QED
      BY <1>2, <1>3, <2>1 DEF SubKept, ClaimKept
  <1>4. CASE \A s \in SubIds : SubKept(s)
    <2>1. \A s \in SubIds : subs'[s].claim = subs[s].claim
                            /\ (subs'[s].state # "none" => subs[s].state # "none")
      BY <1>4 DEF SubKept
    <2>2. BlankRows'
      BY <1>4 DEF BlankRows, SubKept
    <2> QED
      BY <1>1, <1>3, <1>4, <2>1, <2>2 DEF ClaimBacksOneSubmission
  <1>5. ASSUME NEW p \in Procs, NEW s \in SubIds, SubmitTx(p, s)
        PROVE  BlankRows' /\ ClaimBacksOneSubmission'
    <2>1. PICK c \in ClaimIds :
            /\ claims[c].status # "used" /\ claims'[c].status = "used"
            /\ subs'[s].claim = c /\ subs'[s].state = "delivering"
            /\ claims'[c].agent = subs'[s].agent
            /\ claims'[c].ver = subs'[s].ver
            /\ claims'[c].amount = subs'[s].amount
            /\ \A t \in SubIds \ {s} : subs'[t] = subs[t]
      BY <1>5, SubmittedRow
    <2>2. \A t \in SubIds \ {s} : SubKept(t)
      BY <2>1 DEF SubKept
    <2>3. \A t \in SubIds \ {s} : subs'[t].claim = subs[t].claim /\ subs[t].claim # c
      BY <1>1, <2>1, IdAssumption DEF BlankRows
    <2>4. BlankRows'
      BY <2>1 DEF BlankRows
    <2>5. ASSUME NEW t \in SubIds, subs'[t].state # "none"
          PROVE  Backed(t)' /\ \A u \in SubIds \ {t} : subs'[u].claim # subs'[t].claim
      <3>1. CASE t = s
        BY <2>1, <2>3, <3>1
      <3>2. CASE t # s
        <4>1. subs[t].state # "none"
          BY <2>1, <2>5, <3>2
        <4> QED
          BY <1>1, <1>3, <2>1, <2>2, <2>3, <2>5, <3>2, <4>1
      <3> QED
        BY <3>1, <3>2
    <2> QED
      BY <2>4, <2>5 DEF ClaimBacksOneSubmission
  <1> QED
    BY <1>4, <1>5, StepKeepsSubs

\* CheckInvariants 10.4 and 10.6, for every instance.
THEOREM WorkRecordedOnce == Spec => []SubmittedOnce
  <1>1. Init => BlankRows /\ SubmittedOnce
    BY DEF Init, BlankRows, SubmittedOnce, UniqueRequestKey, ClaimBacksOneSubmission, NoSub
  <1>2. TypeInv /\ BlankRows /\ SubmittedOnce /\ [Next]_vars
          => BlankRows' /\ SubmittedOnce'
    BY KeyStep, BackingStep DEF SubmittedOnce
  <1> QED
    BY <1>1, <1>2, TypeInvHolds, PTL DEF Spec

-----------------------------------------------------------------------------
(* The outcome is the receiver's, and final.                               *)

\* An answer about to be written is one the receiver gave.
AnswersAgree ==
    \A p \in Procs : procs[p].pc = "write" =>
        /\ procs[p].event = "deliver_2xx" => verdict[procs[p].sub] = "accept"
        /\ procs[p].event = "deliver_4xx" => verdict[procs[p].sub] = "reject"

\* A decision the receiver reached stays.
DecisionsStay == \A s \in SubIds : verdict[s] # None => verdict'[s] = verdict[s]

\* Only a POST takes an answer of the receiver to the write.
LEMMA AnswersComeFrom ==
  ASSUME TypeInv, [Next]_vars, NEW q \in Procs,
         procs'[q].pc = "write", procs'[q] # procs[q]
  PROVE  Post(q) \/ procs'[q].event \in {"timeout", "unresolved"}
  <1>1. procs \in [Procs -> ProcType] /\ Idle.pc = "idle"
    BY DEF TypeInv, TypeOK, Idle
  <1>2. ASSUME NEW p \in Procs, NEW r, procs' = [procs EXCEPT ![p] = r] PROVE p = q /\ r.pc = "write"
    BY <1>1, <1>2
  <1>3. ASSUME NEW p \in Procs, IntakeStep(p) PROVE FALSE
    <2>1. ASSUME NEW s \in SubIds, SubmitTx(p, s) PROVE FALSE
      <3>1. PICK r : procs' = [procs EXCEPT ![p] = r] /\ r = [Idle EXCEPT !.pc = "read", !.sub = s]
        BY <2>1 DEF SubmitTx
      <3> QED
        BY <1>2, <3>1 DEF Idle
    <2>2. ASSUME NEW a, NEW k, NEW y, NEW c, NEW v, SubmitWork(p, a, k, y, c, v) PROVE FALSE
      <3>1. PICK r : /\ procs' = [procs EXCEPT ![p] = r]
                     /\ r = [Idle EXCEPT !.pc = IF c = None THEN "schema" ELSE "tx",
                                         !.agent = a, !.key = k, !.payload = y,
                                         !.claim = c, !.ver = Version, !.revises = v]
        BY <2>2 DEF SubmitWork
      <3>2. r.pc = IF c = None THEN "schema" ELSE "tx"
        BY <3>1 DEF Idle
      <3> QED
        BY <1>2, <3>1, <3>2
    <2>3. ~SubmitSchema(p)
      <3>1. ASSUME SubmitSchema(p) PROVE FALSE
        <4>1. [procs[p] EXCEPT !.pc = "tx"].pc = "tx"
          BY <1>1 DEF ProcType
        <4> QED
          BY <1>1, <1>2, <3>1, <4>1 DEF SubmitSchema
      <3> QED
        BY <3>1
    <2>4. ~SubmitRefused(p)
      BY <1>1, <1>2 DEF SubmitRefused
    <2> QED
      BY <1>3, <2>1, <2>2, <2>3, <2>4 DEF IntakeStep
  <1>4. ASSUME NEW p \in Procs, DeliveryStep(p) PROVE Post(q)
    <2>1. CASE DeliverRead(p)
      <3>1. ASSUME NEW x PROVE [procs[p] EXCEPT !.pc = "post", !.pre = x].pc = "post"
        BY <1>1 DEF ProcType
      <3> QED
        BY <1>1, <1>2, <2>1, <3>1 DEF DeliverRead
    <2>2. CASE Post(p)
      <3>1. PICK r : procs' = [procs EXCEPT ![p] = r]
        BY <2>2 DEF Post
      <3> QED
        BY <1>2, <2>2, <3>1
    <2>3. CASE WriteDeliveryOutcome(p) \/ DropDeliveryOutcome(p)
      <3>1. procs' = [procs EXCEPT ![p] = AfterWrite(procs[p])]
        BY <2>3 DEF WriteDeliveryOutcome, DropDeliveryOutcome
      <3>2. AfterWrite(procs[p]).pc \in {"fault", "idle"}
        BY <1>1 DEF AfterWrite, ProcType
      <3> QED
        BY <1>2, <3>1, <3>2
    <2>4. CASE FaultCheck(p)
      BY <1>1, <1>2, <2>4 DEF FaultCheck
    <2> QED
      BY <1>4, <2>1, <2>2, <2>3, <2>4 DEF DeliveryStep
  <1>5. ASSUME NEW p \in Procs, RecoveryStep(p)
        PROVE  procs'[q].event \in {"timeout", "unresolved"}
    <2>1. ASSUME NEW s \in SubIds, RecoverLease(p, s) PROVE FALSE
      <3>1. PICK r : procs' = [procs EXCEPT ![p] = r] /\ r = [Idle EXCEPT !.pc = "recover", !.sub = s]
        BY <2>1 DEF RecoverLease
      <3> QED
        BY <1>2, <3>1 DEF Idle
    <2>2. CASE RecoverSubmission(p)
      <3>1. procs'[p] = procs'[q] /\ p = q
        BY <1>1, <1>2, <2>2 DEF RecoverSubmission
      <3>2. procs[p] \in ProcType
        BY <1>1
      <3> DEFINE row == subs[procs[p].sub]
                 write(e) == [procs[p] EXCEPT !.pc = "write", !.pre = row.state, !.event = e]
      <3>3. write("timeout").event = "timeout" /\ write("unresolved").event = "unresolved"
        BY <3>2 DEF ProcType
      <3>4. [procs[p] EXCEPT !.pc = "read"].pc = "read"
        BY <3>2 DEF ProcType
      <3>5. procs'[q] \in {write("timeout"), write("unresolved"), [procs[p] EXCEPT !.pc = "read"], Idle}
        BY <1>1, <2>2, <3>1 DEF RecoverSubmission
      <3> HIDE DEF write
      <3> QED
        BY <1>1, <3>3, <3>4, <3>5
    <2> QED
      BY <1>5, <2>1, <2>2 DEF RecoveryStep
  <1>6. ASSUME NEW p \in Procs, Crash(p) PROVE FALSE
    BY <1>1, <1>2, <1>6 DEF Crash
  <1>7. ASSUME PublisherStep \/ ClaimStep \/ Tick \/ UNCHANGED vars PROVE procs' = procs
    BY <1>7
       DEF PublisherStep, CreateTask, UpdateTask, OpenTask, PauseTask, CloseTask,
           PlatformCloseTask, StatusChange, FundTask, RefundTask, ClaimStep, ClaimTask,
           ReclaimTask, RenewClaim, ReleaseClaim, ExpireClaim, EndClaim, Tick, vars
  <1> QED
    BY <1>3, <1>4, <1>5, <1>6, <1>7 DEF Next, Procs

\* Only a POST moves the receiver, and a receiver that decided repeats itself.
LEMMA StepKeepsDecisions == TypeInv /\ [Next]_vars => DecisionsStay
  <1> SUFFICES ASSUME TypeInv, [Next]_vars PROVE DecisionsStay
    OBVIOUS
  <1>1. verdict \in [SubIds -> {None, "accept", "reject"}]
    BY DEF TypeInv, TypeOK
  <1>2. ASSUME verdict' = verdict PROVE DecisionsStay
    BY <1>2 DEF DecisionsStay
  <1>3. ASSUME NEW p \in Procs, Post(p) PROVE DecisionsStay
    <2>1. PICK v \in Decisions(procs[p].sub) :
            verdict' = [verdict EXCEPT ![procs[p].sub] = v]
      BY <1>3 DEF Post
    <2> QED
      BY <1>1, <2>1 DEF Decisions, DecisionsStay
  <1>4. ASSUME NEW p \in Procs, IntakeStep(p) \/ RecoveryStep(p) \/ DeliveryStep(p) \/ Crash(p)
        PROVE  DecisionsStay
    BY ZenonT(60), <1>2, <1>3, <1>4
       DEF IntakeStep, SubmitWork, SubmitSchema, SubmitTx, SubmitRefused,
           RecoveryStep, RecoverLease, RecoverSubmission, DeliveryStep, DeliverRead,
           WriteDeliveryOutcome, DropDeliveryOutcome, FaultCheck, Crash
  <1>5. ASSUME PublisherStep \/ ClaimStep \/ Tick \/ UNCHANGED vars PROVE verdict' = verdict
    BY <1>5
       DEF PublisherStep, CreateTask, UpdateTask, OpenTask, PauseTask, CloseTask,
           PlatformCloseTask, StatusChange, FundTask, RefundTask, ClaimStep, ClaimTask,
           ReclaimTask, RenewClaim, ReleaseClaim, ExpireClaim, EndClaim, Tick, vars
  <1> QED
    BY <1>2, <1>4, <1>5 DEF Next, Procs

\* An answer waiting to be written stays the receiver's.
LEMMA AnswersStep == TypeInv /\ AnswersAgree /\ [Next]_vars => AnswersAgree'
  <1> SUFFICES ASSUME TypeInv, AnswersAgree, [Next]_vars,
                      NEW q \in Procs, procs'[q].pc = "write"
               PROVE  /\ procs'[q].event = "deliver_2xx" => verdict'[procs'[q].sub] = "accept"
                      /\ procs'[q].event = "deliver_4xx" => verdict'[procs'[q].sub] = "reject"
    BY DEF AnswersAgree
  <1>1. /\ procs \in [Procs -> ProcType] /\ verdict \in [SubIds -> {None, "accept", "reject"}]
        /\ ProcComplete(procs[q], subs, Version)
    BY DEF TypeInv, TypeOK, ProcsComplete
  <1>2. CASE procs'[q] = procs[q]
    <2>1. procs[q].sub \in SubIds
      BY <1>1, <1>2 DEF ProcComplete
    <2> QED
      BY <1>2, <2>1, StepKeepsDecisions, DecisionAssumption DEF AnswersAgree, DecisionsStay
  <1>3. CASE procs'[q] # procs[q] /\ Post(q)
    <2>1. procs[q].pc = "post" /\ procs[q].sub \in SubIds /\ Idle.pc = "idle"
      BY <1>1, <1>3 DEF Post, ProcComplete, Idle
    <2>2. PICK v \in Decisions(procs[q].sub) : \E e \in Replies(v) :
            /\ verdict' = [verdict EXCEPT ![procs[q].sub] = v]
            /\ procs'[q] = IF e = "timeout" /\ procs[q].pre = "uncertain" THEN Idle
                           ELSE [procs[q] EXCEPT !.pc = "write", !.event = e]
      BY <1>1, <1>3 DEF Post
    <2>3. PICK e \in Replies(v) :
            /\ verdict' = [verdict EXCEPT ![procs[q].sub] = v]
            /\ procs'[q] = IF e = "timeout" /\ procs[q].pre = "uncertain" THEN Idle
                           ELSE [procs[q] EXCEPT !.pc = "write", !.event = e]
      BY <2>2
    <2>4. /\ procs'[q] = [procs[q] EXCEPT !.pc = "write", !.event = e]
          /\ procs[q] \in ProcType
      BY <1>1, <2>1, <2>3
    <2>5. procs'[q].event = e /\ procs'[q].sub = procs[q].sub
      BY <2>4 DEF ProcType
    <2>6. verdict'[procs'[q].sub] = v
      BY <1>1, <2>1, <2>3, <2>5
    <2> QED
      BY <2>3, <2>5, <2>6 DEF Replies
  <1>4. CASE procs'[q].event \in {"timeout", "unresolved"}
    BY <1>4
  <1> QED
    BY <1>2, <1>3, <1>4, AnswersComeFrom

\* A submission changes its state by its acceptance or by an outcome written
\* on a row still in flight.
LEMMA StateChanges ==
  ASSUME TypeInv, [Next]_vars, NEW s \in SubIds, subs'[s].state # subs[s].state
  PROVE  \/ subs[s].state = "none" /\ subs'[s].state = "delivering"
         \/ \E p \in Procs :
              /\ procs[p].pc = "write" /\ procs[p].sub = s
              /\ subs[s].state \in InFlight /\ subs[s].state = procs[p].pre
              /\ subs'[s].state = SubmissionTransition(subs[s].state, procs[p].event)
  <1>1. subs \in [SubIds -> SubType]
    BY DEF TypeInv, TypeOK
  <1>2. subs'[s] # subs[s]
    OBVIOUS
  <1>3. ASSUME NEW p \in Procs, WriteDeliveryOutcome(p)
        PROVE  /\ procs[p].pc = "write" /\ procs[p].sub = s
               /\ subs[s].state \in InFlight /\ subs[s].state = procs[p].pre
               /\ subs'[s].state = SubmissionTransition(subs[s].state, procs[p].event)
    <2>1. /\ procs[p].pc = "write" /\ subs[procs[p].sub].state = procs[p].pre
          /\ subs' = [subs EXCEPT ![procs[p].sub] =
                        SetSubmissionState(procs[p].sub, procs[p].event)]
      BY <1>3 DEF WriteDeliveryOutcome, StillUndecided
    <2>2. procs[p].pre \in InFlight
      BY <2>1 DEF TypeInv, ProcsComplete, ProcComplete
    <2>3. procs[p].sub = s
      BY <1>1, <1>2, <2>1
    <2>4. SetSubmissionState(s, procs[p].event).state =
            SubmissionTransition(subs[s].state, procs[p].event)
      BY <1>1 DEF SetSubmissionState, SubType
    <2> QED
      BY <1>1, <2>1, <2>2, <2>3, <2>4
  <1>4. ASSUME NEW p \in Procs, NEW t \in SubIds, SubmitTx(p, t)
        PROVE  subs[s].state = "none" /\ subs'[s].state = "delivering"
    BY <1>2, <1>4, SubmittedRow
  <1>5. ASSUME NEW p \in Procs, NEW t \in SubIds, RecoverLease(p, t) PROVE FALSE
    <2>1. PICK w : subs' = [subs EXCEPT ![t].wait = w]
      BY <1>5 DEF RecoverLease
    <2> QED
      BY <1>1, <2>1 DEF SubType
  <1>6. ~Tick
    <2>1. ASSUME Tick PROVE subs'[s].state = subs[s].state
      BY <1>1, <2>1 DEF Tick, SubType
    <2> QED
      BY <2>1
  <1>7. ASSUME PublisherStep \/ ClaimStep \/ UNCHANGED vars PROVE subs' = subs
    BY <1>7
       DEF PublisherStep, CreateTask, UpdateTask, OpenTask, PauseTask, CloseTask,
           PlatformCloseTask, StatusChange, FundTask, RefundTask, ClaimStep, ClaimTask,
           ReclaimTask, RenewClaim, ReleaseClaim, ExpireClaim, EndClaim, vars
  <1>8. ASSUME NEW p \in Procs, IntakeStep(p)
        PROVE  subs[s].state = "none" /\ subs'[s].state = "delivering"
    BY ZenonT(60), <1>2, <1>4, <1>8 DEF IntakeStep, SubmitWork, SubmitSchema, SubmitRefused
  <1>9. ASSUME NEW p \in Procs, RecoveryStep(p) \/ DeliveryStep(p) \/ Crash(p)
        PROVE  WriteDeliveryOutcome(p)
    BY <1>2, <1>5, <1>9
       DEF RecoveryStep, RecoverSubmission, DeliveryStep, DeliverRead, Post,
           DropDeliveryOutcome, FaultCheck, Crash
  <1> QED
    BY <1>2, <1>3, <1>6, <1>7, <1>8, <1>9 DEF Next, Procs

\* What is written as the receiver's decision is the receiver's decision.
LEMMA OutcomeStep ==
  TypeInv /\ AnswersAgree /\ OutcomeAgreesWithReceiver /\ [Next]_vars
    => OutcomeAgreesWithReceiver'
  <1> SUFFICES ASSUME TypeInv, AnswersAgree, OutcomeAgreesWithReceiver, [Next]_vars,
                      NEW s \in SubIds
               PROVE  /\ subs'[s].state = "settled" => verdict'[s] = "accept"
                      /\ subs'[s].state = "rejected" => verdict'[s] = "reject"
    BY DEF OutcomeAgreesWithReceiver
  <1>1. verdict[s] \in {"accept", "reject"} => verdict'[s] = verdict[s]
    BY StepKeepsDecisions, DecisionAssumption DEF DecisionsStay
  <1>2. CASE subs'[s].state = subs[s].state
    BY <1>1, <1>2 DEF OutcomeAgreesWithReceiver
  <1>3. ASSUME NEW p \in Procs, procs[p].pc = "write", procs[p].sub = s,
               subs[s].state \in InFlight, subs[s].state = procs[p].pre,
               subs'[s].state = SubmissionTransition(subs[s].state, procs[p].event)
        PROVE  /\ subs'[s].state = "settled" => verdict'[s] = "accept"
               /\ subs'[s].state = "rejected" => verdict'[s] = "reject"
    <2>1. procs[p].event \in Events
      BY <1>3 DEF TypeInv, ProcsComplete, ProcComplete
    <2>2. ProcComplete(procs[p], subs, Version)
      BY DEF TypeInv, ProcsComplete
    <2>3. /\ subs'[s].state = "settled" => procs[p].event = "deliver_2xx"
          /\ subs'[s].state = "rejected" => procs[p].event = "deliver_4xx"
      BY <1>3, <2>1, <2>2 DEF SubmissionTransition, Events, InFlight, ProcComplete
    <2> QED
      BY <1>1, <1>3, <2>3 DEF AnswersAgree
  <1> QED
    BY <1>2, <1>3, StateChanges

\* The task row: no edge leaves "closed", and the settled and refunded
\* counters only grow.
LEMMA TaskHistory ==
  TypeInv /\ [Next]_vars =>
    /\ task.status = "closed" => task'.status = "closed"
    /\ task'.settled >= task.settled /\ task'.refunded >= task.refunded
  <1> DEFINE Kept == /\ task.status = "closed" => task'.status = "closed"
                     /\ task'.settled >= task.settled /\ task'.refunded >= task.refunded
  <1> SUFFICES ASSUME TypeInv, [Next]_vars PROVE Kept
    OBVIOUS
  <1>1. task \in TaskType /\ claims \in [ClaimIds -> ClaimType] /\ subs \in [SubIds -> SubType]
    BY DEF TypeInv, TypeOK
  <1>2. ASSUME task' = task PROVE Kept
    BY <1>1, <1>2 DEF TaskType
  <1>3. ASSUME NEW e, ApplyTaskStatus(e) PROVE Kept
    <2>1. PICK to : task' = [task EXCEPT !.status = to] /\ to = TaskTransition(task.status, e) /\ to # None
      BY <1>3 DEF ApplyTaskStatus
    <2>2. task.status # "closed"
      BY <2>1 DEF TaskTransition
    <2> QED
      BY <1>1, <2>1, <2>2 DEF TaskType
  <1>4. ASSUME NEW x, \/ ReserveTaskAmount(x)
                      \/ ReleaseTaskReservation(x)
                      \/ LockTaskBudget(x, task)
        PROVE  Kept
    BY <1>1, <1>4 DEF ReserveTaskAmount, ReleaseTaskReservation, LockTaskBudget, TaskType
  <1>5. CASE PublisherStep
    <2>1. ASSUME NEW k \in Contracts, NEW b \in Amounts, CreateTask(k, b) PROVE Kept
      <3>1. task = NoTask
        BY <2>1 DEF CreateTask, TypeInv, TaskComplete
      <3>2. PICK row : row = [NoTask EXCEPT !.status = "paused"] /\ task' = [row EXCEPT !.locked = @ + b]
        BY <2>1 DEF CreateTask, LockTaskBudget
      <3> QED
        BY <3>1, <3>2 DEF NoTask
    <2>2. CASE RefundTask
      <3>1. /\ task' = [task EXCEPT !.refunded = @ + Available] /\ Available > 0
            /\ Available \in Int
        BY <1>1, <2>2 DEF RefundTask, Available, TaskType
      <3> QED
        BY <1>1, <3>1 DEF TaskType
    <2> QED
      BY <1>2, <1>3, <1>4, <1>5, <2>1, <2>2
         DEF PublisherStep, UpdateTask, OpenTask, PauseTask, CloseTask, PlatformCloseTask,
             StatusChange, FundTask
  <1>6. CASE ClaimStep
    <2>1. ASSUME NEW a, NEW old, NEW c, ReclaimTask(a, old, c) PROVE Kept
      BY <1>1, <2>1 DEF ReclaimTask, TaskType
    <2> QED
      BY <1>2, <1>4, <1>6, <2>1
         DEF ClaimStep, ClaimTask, RenewClaim, ReleaseClaim, ExpireClaim, EndClaim
  <1>7. ASSUME NEW p \in Procs, WriteDeliveryOutcome(p) PROVE Kept
    <2>1. procs[p].sub \in SubIds
      BY <1>7, OutcomeRowType DEF WriteDeliveryOutcome, StillUndecided
    <2>2. ASSUME SettleTaskSubmission(procs[p].sub) PROVE Kept
      <3>1. /\ subs[procs[p].sub].amount \in Nat
            /\ task' = [task EXCEPT !.reserved = @ - subs[procs[p].sub].amount,
                                    !.settled = @ + subs[procs[p].sub].amount]
        BY <1>1, <2>1, <2>2 DEF SettleTaskSubmission, SubType
      <3> QED
        BY <1>1, <3>1 DEF TaskType
    <2> QED
      BY <1>2, <1>4, <1>7, <2>2 DEF WriteDeliveryOutcome
  <1>8. ASSUME NEW p \in Procs, IntakeStep(p) \/ RecoveryStep(p) \/ DeliveryStep(p) \/ Crash(p)
        PROVE  Kept
    <2> HIDE DEF Kept
    <2> QED
      BY ZenonT(60), <1>2, <1>3, <1>4, <1>7, <1>8
         DEF IntakeStep, SubmitWork, SubmitSchema, SubmitTx, SubmitRefused,
             RecoveryStep, RecoverLease, RecoverSubmission, DeliveryStep, DeliverRead, Post,
             DropDeliveryOutcome, FaultCheck, Crash
  <1>9. CASE Tick \/ UNCHANGED vars
    BY <1>2, <1>9 DEF Tick, vars
  <1> QED
    BY <1>5, <1>6, <1>8, <1>9 DEF Next, Procs

\* Every step keeps what is decided.
LEMMA HistoryStep == TypeInv /\ [Next]_vars => HistoryKept
  <1> SUFFICES ASSUME TypeInv, [Next]_vars PROVE HistoryKept
    OBVIOUS
  <1>1. ASSUME NEW s \in SubIds, subs[s].state \in Terminal
        PROVE  subs'[s].state = subs[s].state /\ subs'[s].amount = subs[s].amount
    <2>1. subs[s].state \notin InFlight \cup {"none"}
      BY <1>1 DEF Terminal, InFlight
    <2>2. subs'[s].state = subs[s].state
      BY <2>1, StateChanges
    <2>3. CASE SubKept(s)
      BY <2>2, <2>3 DEF SubKept
    <2>4. ASSUME NEW p \in Procs, NEW t \in SubIds, SubmitTx(p, t)
          PROVE  subs'[s].amount = subs[s].amount
      BY <2>1, <2>4, SubmittedRow
    <2> QED
      BY <2>2, <2>3, <2>4, StepKeepsSubs
  <1>2. ASSUME NEW c \in ClaimIds, claims[c].status \in {"released", "expired", "used"}
        PROVE  claims'[c].status = claims[c].status
    BY <1>2, StepKeepsClaims DEF ClaimKept, ClaimBorn
  <1>3. ASSUME NEW v \in 1..Version
        PROVE  v <= Len(contracts') /\ contracts'[v] = contracts[v]
    BY <1>3, StepKeepsVersions DEF VersionsStay, Version
  <1> QED
    BY <1>1, <1>2, <1>3, TaskHistory DEF HistoryKept

\* writeDeliveryOutcome, for every instance: what the receiver accepted is
\* never rejected and what it refused is never paid, whichever of the racing
\* requests and workers wrote it, and no step rewrites an outcome.
THEOREM OutcomeStands == Spec => OutcomeIsTheReceivers
  <1>1. Init => AnswersAgree /\ OutcomeAgreesWithReceiver
    BY DEF Init, AnswersAgree, OutcomeAgreesWithReceiver, Idle, NoSub
  <1>2. TypeInv /\ AnswersAgree /\ OutcomeAgreesWithReceiver /\ [Next]_vars
          => AnswersAgree' /\ OutcomeAgreesWithReceiver'
    BY AnswersStep, OutcomeStep
  <1>3. Spec => []OutcomeAgreesWithReceiver
    BY <1>1, <1>2, TypeInvHolds, PTL DEF Spec
  <1>4. TypeInv /\ [Next]_vars => [HistoryKept]_vars
    BY HistoryStep
  <1>5. Spec => HistoryIsFinal
    BY <1>4, TypeInvHolds, PTL DEF Spec, HistoryIsFinal
  <1> QED
    BY <1>3, <1>5, PTL DEF OutcomeIsTheReceivers

-----------------------------------------------------------------------------
(* Nobody works on its own task.                                           *)

\* Requests and rows belong to agents other than the publisher, so that what
\* an agent is paid never mixes with what the publisher locks and gets back.
OthersWork ==
    /\ \A s \in SubIds : subs[s].state # "none" => subs[s].agent # Publisher
    /\ \A p \in Procs : procs[p].pc \in {"schema", "tx"} => procs[p].agent # Publisher

\* What SubmitWork remembers of a request it lets pass.
Remembered(a, k, payload, c, v) ==
    [Idle EXCEPT !.pc = IF c = None THEN "schema" ELSE "tx",
                 !.agent = a, !.key = k, !.payload = payload,
                 !.claim = c, !.ver = Version, !.revises = v]

LEMMA WhatIsRemembered ==
  ASSUME NEW a, NEW k, NEW y, NEW c, NEW v
  PROVE  LET r == Remembered(a, k, y, c, v)
         IN  /\ r.pc = IF c = None THEN "schema" ELSE "tx"
             /\ r.agent = a /\ r.payload = y /\ r.claim = c /\ r.ver = Version
  <1> DEFINE r == Remembered(a, k, y, c, v)
  <1>1. r.pc = IF c = None THEN "schema" ELSE "tx"
    BY DEF Remembered, Idle
  <1>2. r.agent = a /\ r.payload = y
    BY DEF Remembered, Idle
  <1>3. r.claim = c /\ r.ver = Version
    BY DEF Remembered, Idle
  <1> QED
    BY <1>1, <1>2, <1>3

\* A process enters the intake only through SubmitWork, and stays in it only
\* through the schema check, which changes nothing it remembers.
LEMMA RequestsComeFrom ==
  ASSUME TypeInv, [Next]_vars, NEW p \in Procs, NEW now, now = procs'[p],
         now.pc \in {"schema", "tx"}, now # procs[p]
  PROVE  \/ \E a \in Agents, k \in Keys, y \in Payloads,
               c \in ClaimIds \cup {None}, v \in SubIds \cup {None} :
              SubmitWork(p, a, k, y, c, v) /\ now = Remembered(a, k, y, c, v)
         \/ SubmitSchema(p) /\ now = [procs[p] EXCEPT !.pc = "tx"]
              /\ procs[p].payload \in Contract.schema
  <1> DEFINE Entered == \E a \in Agents, k \in Keys, y \in Payloads,
                           c \in ClaimIds \cup {None}, v \in SubIds \cup {None} :
                          SubmitWork(p, a, k, y, c, v) /\ now = Remembered(a, k, y, c, v)
             Checked == /\ SubmitSchema(p) /\ now = [procs[p] EXCEPT !.pc = "tx"]
                        /\ procs[p].payload \in Contract.schema
  <1>1. procs \in [Procs -> ProcType]
    BY DEF TypeInv, TypeOK
  <1>2. Entered \/ Checked
    <2>1. Idle.pc = "idle"
      BY DEF Idle
    <2>2. PublisherStep \/ ClaimStep \/ Tick \/ UNCHANGED vars => procs' = procs
      BY DEF PublisherStep, OpenTask, PauseTask, CloseTask, PlatformCloseTask, StatusChange,
             CreateTask, UpdateTask, FundTask, RefundTask, ClaimStep, ClaimTask,
             ReclaimTask, RenewClaim, ReleaseClaim, ExpireClaim, EndClaim, Tick, vars
    <2>3. ASSUME NEW q \in Procs, NEW r, procs' = [procs EXCEPT ![q] = r]
          PROVE  q = p /\ procs'[p] = r
      <3>1. procs'[p] = IF p = q THEN r ELSE procs[p]
        BY <1>1, <2>3
      <3> QED
        BY <3>1
    <2>4. ASSUME NEW q \in Handlers, NEW a \in Agents, NEW k \in Keys, NEW y \in Payloads,
                 NEW c \in ClaimIds \cup {None}, NEW v \in SubIds \cup {None},
                 SubmitWork(q, a, k, y, c, v)
          PROVE  Entered
      <3>1. procs' = [procs EXCEPT ![q] = Remembered(a, k, y, c, v)]
        BY <2>4 DEF SubmitWork, Remembered
      <3>2. q = p /\ procs'[p] = Remembered(a, k, y, c, v)
        BY <2>3, <3>1 DEF Procs
      <3> QED
        BY <2>4, <3>2
    <2>5. ASSUME NEW q \in Handlers, SubmitSchema(q)
          PROVE  Checked
      <3>1. PICK r : /\ procs' = [procs EXCEPT ![q] = r]
                     /\ \/ r = Idle
                        \/ r = [procs[q] EXCEPT !.pc = "tx"] /\ procs[q].payload \in Contract.schema
        BY <2>5 DEF SubmitSchema
      <3>2. q = p /\ procs'[p] = r
        BY <2>3, <3>1 DEF Procs
      <3> QED
        BY <2>1, <2>5, <3>1, <3>2
    <2>6. ASSUME NEW q \in Procs, NEW r, procs' = [procs EXCEPT ![q] = r],
                 r.pc \notin {"schema", "tx"}
          PROVE  FALSE
      BY <2>3, <2>6
    <2>7. ASSUME NEW q \in Procs, DeliveryStep(q) \/ Crash(q) PROVE FALSE
      <3>1. ASSUME DropDeliveryOutcome(q) \/ WriteDeliveryOutcome(q) PROVE FALSE
        <4>1. procs' = [procs EXCEPT ![q] = AfterWrite(procs[q])]
          BY <3>1 DEF DropDeliveryOutcome, WriteDeliveryOutcome
        <4>2. AfterWrite(procs[q]).pc \in {"fault", "idle"}
          BY <1>1, <2>1 DEF AfterWrite, ProcType
        <4> QED
          BY <2>6, <4>1, <4>2
      <3>2. ASSUME DeliverRead(q) PROVE FALSE
        <4>1. PICK r : /\ procs' = [procs EXCEPT ![q] = r]
                       /\ \/ r = Idle
                          \/ \E st : r = [procs[q] EXCEPT !.pc = "post", !.pre = st]
          BY <3>2 DEF DeliverRead
        <4> QED
          BY <1>1, <2>1, <2>6, <4>1 DEF ProcType
      <3>3. ASSUME Post(q) PROVE FALSE
        <4>1. PICK r : /\ procs' = [procs EXCEPT ![q] = r]
                       /\ \/ r = Idle
                          \/ \E e : r = [procs[q] EXCEPT !.pc = "write", !.event = e]
          BY <3>3 DEF Post
        <4> QED
          BY <1>1, <2>1, <2>6, <4>1 DEF ProcType
      <3>4. ASSUME FaultCheck(q) \/ Crash(q) PROVE FALSE
        BY <2>1, <2>6, <3>4 DEF FaultCheck, Crash
      <3> QED
        BY <2>7, <3>1, <3>2, <3>3, <3>4 DEF DeliveryStep
    <2>8. ASSUME NEW q \in Workers, RecoveryStep(q) PROVE FALSE
      <3>1. ASSUME NEW s \in SubIds, RecoverLease(q, s) PROVE FALSE
        <4>1. procs' = [procs EXCEPT ![q] = [Idle EXCEPT !.pc = "recover", !.sub = s]]
          BY <3>1 DEF RecoverLease
        <4> QED
          BY <2>6, <4>1 DEF Idle, Procs
      <3>2. ASSUME RecoverSubmission(q) PROVE FALSE
        <4> DEFINE st == subs[procs[q].sub].state
                   write(e) == [procs[q] EXCEPT !.pc = "write", !.pre = st, !.event = e]
                   read == [procs[q] EXCEPT !.pc = "read"]
                   new == CASE st = "delivering" -> write("timeout")
                      [] st = "uncertain" /\ subs[procs[q].sub].clock = 0 -> write("unresolved")
                      [] st = "uncertain" /\ subs[procs[q].sub].clock > 0 -> read
                      [] OTHER -> Idle
        <4>1. procs' = [procs EXCEPT ![q] = new]
          BY <3>2 DEF RecoverSubmission
        <4>2. /\ \A e : write(e).pc = "write"
              /\ read.pc = "read"
          BY <1>1 DEF ProcType, Procs
        <4> HIDE DEF write, read
        <4>3. new \in {write("timeout"), write("unresolved"), read, Idle}
          OBVIOUS
        <4> HIDE DEF new
        <4>4. new.pc \notin {"schema", "tx"}
          BY <2>1, <4>2, <4>3
        <4> QED
          BY <2>6, <4>1, <4>4 DEF Procs
      <3> QED
        BY <2>8, <3>1, <3>2 DEF RecoveryStep
    <2>9. ASSUME NEW q \in Handlers, NEW s \in SubIds, SubmitTx(q, s) PROVE FALSE
      <3>1. procs' = [procs EXCEPT ![q] = [Idle EXCEPT !.pc = "read", !.sub = s]]
        BY <2>9 DEF SubmitTx
      <3> QED
        BY <2>6, <3>1 DEF Idle, Procs
    <2>10. ASSUME NEW q \in Handlers, SubmitRefused(q) PROVE FALSE
      BY <2>1, <2>6, <2>10 DEF SubmitRefused, Procs
    <2> HIDE DEF Entered, Checked
    <2> QED
      BY <2>2, <2>4, <2>5, <2>7, <2>8, <2>9, <2>10 DEF Next, IntakeStep
  <1> QED
    BY <1>2

\* SubmitWork refuses the publisher, and nothing else brings an agent in.
LEMMA RequestsByOthers ==
  ASSUME TypeInv, OthersWork, [Next]_vars, NEW p \in Procs,
         procs'[p].pc \in {"schema", "tx"}
  PROVE  procs'[p].agent # Publisher
  <1>1. procs[p] \in ProcType
    BY DEF TypeInv, TypeOK
  <1>2. CASE procs'[p] = procs[p]
    BY <1>2 DEF OthersWork
  <1>3. ASSUME NEW a \in Agents, NEW k \in Keys, NEW y \in Payloads,
               NEW c \in ClaimIds \cup {None}, NEW v \in SubIds \cup {None},
               SubmitWork(p, a, k, y, c, v), procs'[p] = Remembered(a, k, y, c, v)
        PROVE  procs'[p].agent # Publisher
    BY <1>3, WhatIsRemembered DEF SubmitWork, MayWork
  <1>4. CASE SubmitSchema(p) /\ procs'[p] = [procs[p] EXCEPT !.pc = "tx"]
    BY <1>1, <1>4 DEF SubmitSchema, OthersWork, ProcType
  <1> QED
    BY <1>2, <1>3, <1>4, RequestsComeFrom

\* Every step keeps it so.
LEMMA OthersStep == TypeInv /\ OthersWork /\ [Next]_vars => OthersWork'
  <1> SUFFICES ASSUME TypeInv, OthersWork, [Next]_vars PROVE OthersWork'
    OBVIOUS
  <1>1. \A p \in Procs : procs'[p].pc \in {"schema", "tx"} => procs'[p].agent # Publisher
    BY RequestsByOthers
  <1>2. ASSUME NEW s \in SubIds, subs'[s].state # "none" PROVE subs'[s].agent # Publisher
    <2>1. CASE \A t \in SubIds : SubKept(t)
      BY <1>2, <2>1 DEF SubKept, OthersWork
    <2>2. ASSUME NEW p \in Procs, NEW t \in SubIds, SubmitTx(p, t)
          PROVE  subs'[s].agent # Publisher
      <3>1. /\ subs'[t].agent = procs[p].agent
            /\ \A u \in SubIds \ {t} : subs'[u] = subs[u]
        BY <2>2, SubmittedRow
      <3>2. procs[p].agent # Publisher
        BY <2>2 DEF SubmitTx, OthersWork
      <3> QED
        BY <1>2, <3>1, <3>2 DEF OthersWork
    <2> QED
      BY <2>1, <2>2, StepKeepsSubs
  <1> QED
    BY <1>1, <1>2 DEF OthersWork

-----------------------------------------------------------------------------
(* The books.                                                              *)

\* What the sums need of a state: each part is inductive only with the others.
\* That a refund finds nothing held rests on the reservations being backed,
\* that these stay backed on every credit being moved and none made or lost,
\* and that no payment reaches the publisher's own balance.
AuditInv ==
    /\ TypeInv /\ BudgetKept /\ PaidExactlyOnce /\ OthersWork
    /\ PublisherMoney /\ SettledIsPaid /\ ReservedIsBacked

\* What TaskEscrow sees of the rows are amounts.
BooksOK ==
    /\ HeldOnClaims \in [ClaimIds -> Nat]
    /\ HeldOnSubs \in [SubIds -> Nat]
    /\ earned \in [SubIds -> Nat]
    /\ \A a \in Agents : EarnedBy(a) \in [SubIds -> Nat]
    /\ balance[Publisher] \in Nat
    /\ Available \in Int

LEMMA BooksType == TypeInv => BooksOK
  <1> SUFFICES ASSUME TypeInv PROVE BooksOK
    OBVIOUS
  <1>1. /\ claims \in [ClaimIds -> ClaimType] /\ subs \in [SubIds -> SubType]
        /\ earned \in [SubIds -> Nat] /\ balance \in [Agents \cup {Publisher} -> Nat]
        /\ task \in TaskType
    BY DEF TypeInv, TypeOK
  <1>2. HeldOnClaims \in [ClaimIds -> Nat]
    BY <1>1 DEF HeldOnClaims, HeldByClaim, ClaimType
  <1>3. HeldOnSubs \in [SubIds -> Nat]
    BY <1>1 DEF HeldOnSubs, HeldBySub, SubType
  <1>4. ASSUME NEW a PROVE EarnedBy(a) \in [SubIds -> Nat]
    BY <1>1 DEF EarnedBy
  <1>5. Available \in Int
    BY <1>1 DEF Available, TaskType
  <1> QED
    BY <1>1, <1>2, <1>3, <1>4, <1>5 DEF BooksOK

\* All the credits TaskEscrow knows of.
AllCredits ==
    balance[Publisher] + Available + Total(HeldOnClaims, ClaimIds)
        + Total(HeldOnSubs, SubIds) + Total(earned, SubIds)

\* TaskEscrow makes no credits and loses none.
LEMMA EscrowConserves ==
  ASSUME TypeInv, TypeInv', [Escrow!Next]_(Escrow!escrowVars)
  PROVE  AllCredits' = AllCredits
  <1> DEFINE f == HeldOnClaims
             g == HeldOnSubs
             C == Total(HeldOnClaims, ClaimIds)
             S == Total(HeldOnSubs, SubIds)
             P == Total(earned, SubIds)
             w == balance[Publisher]
  <1>0. TypeInv' => BooksOK'
    BY BooksType, PTL
  <1>1. /\ f \in [ClaimIds -> Nat] /\ g \in [SubIds -> Nat] /\ earned \in [SubIds -> Nat]
        /\ w \in Nat /\ Available \in Int /\ w' \in Nat /\ Available' \in Int
    BY <1>0, BooksType DEF BooksOK
  <1> USE RowAssumption
  <1>2. C \in Nat /\ S \in Nat /\ P \in Nat /\ AllCredits = w + Available + C + S + P
    BY <1>1, TotalType DEF AllCredits
  <1>3. AllCredits' = w' + Available' + C' + S' + P'
    BY DEF AllCredits
  <1>4. ASSUME NEW c \in ClaimIds, NEW n \in Nat, f' = [f EXCEPT ![c] = n]
        PROVE  C' = C - f[c] + n
    <2>1. /\ f' \in [ClaimIds -> Nat] /\ f'[c] = n
          /\ \A i \in ClaimIds \ {c} : f[i] = f'[i]
      BY <1>1, <1>4
    <2>2. C' = C - f[c] + f'[c]
      BY <1>1, <2>1, TotalUpdate
    <2> QED
      BY <2>1, <2>2
  <1>5. ASSUME NEW s \in SubIds, NEW n \in Nat, g' = [g EXCEPT ![s] = n]
        PROVE  S' = S - g[s] + n
    <2>1. /\ g' \in [SubIds -> Nat] /\ g'[s] = n
          /\ \A i \in SubIds \ {s} : g[i] = g'[i]
      BY <1>1, <1>5
    <2>2. S' = S - g[s] + g'[s]
      BY <1>1, <2>1, TotalUpdate
    <2> QED
      BY <2>1, <2>2
  <1>6. ASSUME NEW s \in SubIds, NEW n \in Nat, earned' = [earned EXCEPT ![s] = n]
        PROVE  P' = P - earned[s] + n
    <2>1. /\ earned' \in [SubIds -> Nat] /\ earned'[s] = n
          /\ \A i \in SubIds \ {s} : earned[i] = earned'[i]
      BY <1>1, <1>6
    <2>2. P' = P - earned[s] + earned'[s]
      BY <1>1, <2>1, TotalUpdate
    <2> QED
      BY <2>1, <2>2
  <1>7. /\ \A c \in ClaimIds : f[c] \in Nat
        /\ \A s \in SubIds : g[s] \in Nat /\ earned[s] \in Nat
    BY <1>1
  <1>8. /\ f' = f => C' = C
        /\ g' = g => S' = S
        /\ earned' = earned => P' = P
    OBVIOUS
  <1> HIDE DEF C, S, P
  <1> USE DEF Escrow!Next, Escrow!Deposit, Escrow!Refund, Escrow!HoldForClaim, Escrow!DropClaim,
              Escrow!HoldForSub, Escrow!DropSub, Escrow!Pay, Escrow!HandOver, Escrow!Replace
  <1>9. CASE UNCHANGED Escrow!escrowVars
    BY <1>2, <1>3, <1>8, <1>9 DEF Escrow!escrowVars
  <1>10. CASE Escrow!Deposit \/ Escrow!Refund
    <2>1. w' + Available' = w + Available
      BY <1>1, <1>10
    <2>2. f' = f /\ g' = g /\ earned' = earned
      BY <1>10
    <2> QED
      BY <1>1, <1>2, <1>3, <1>8, <2>1, <2>2
  <1>11. ASSUME NEW c \in ClaimIds, Escrow!HoldForClaim(c) \/ Escrow!DropClaim(c)
         PROVE  AllCredits' = AllCredits
    <2>1. PICK n \in Nat : f' = [f EXCEPT ![c] = n] /\ n = Available - Available' + f[c]
      BY <1>1, <1>7, <1>11
    <2>2. C' = C - f[c] + n
      BY <1>4, <2>1
    <2> QED
      BY <1>1, <1>2, <1>3, <1>7, <1>8, <1>11, <2>1, <2>2
  <1>12. ASSUME NEW s \in SubIds, Escrow!HoldForSub(s) \/ Escrow!DropSub(s)
         PROVE  AllCredits' = AllCredits
    <2>1. PICK n \in Nat : g' = [g EXCEPT ![s] = n] /\ n = Available - Available' + g[s]
      BY <1>1, <1>7, <1>12
    <2>2. S' = S - g[s] + n
      BY <1>5, <2>1
    <2> QED
      BY <1>1, <1>2, <1>3, <1>7, <1>8, <1>12, <2>1, <2>2
  <1>13. ASSUME NEW s \in SubIds, Escrow!Pay(s)
         PROVE  AllCredits' = AllCredits
    <2>1. S' = S - g[s] + 0
      <3>1. g' = [g EXCEPT ![s] = 0] /\ 0 \in Nat
        BY <1>13
      <3> QED
        BY <1>5, <3>1
    <2>2. P' = P - earned[s] + g[s] /\ earned[s] = 0
      BY <1>6, <1>7, <1>13
    <2> QED
      BY <1>1, <1>2, <1>3, <1>7, <1>8, <1>13, <2>1, <2>2
  <1>14. ASSUME NEW c \in ClaimIds, NEW s \in SubIds, Escrow!HandOver(c, s)
         PROVE  AllCredits' = AllCredits
    <2>1. C' = C - f[c] + 0
      BY <1>4, <1>14
    <2>2. g' = [g EXCEPT ![s] = f[c]] /\ g[s] = 0 /\ f[c] \in Nat
      BY <1>7, <1>14
    <2>3. S' = S - g[s] + f[c]
      BY <1>5, <2>2
    <2> QED
      BY <1>1, <1>2, <1>3, <1>7, <1>8, <1>14, <2>1, <2>2, <2>3
  <1>15. ASSUME NEW old \in ClaimIds, NEW c \in ClaimIds, Escrow!Replace(old, c)
         PROVE  AllCredits' = AllCredits
    <2> DEFINE h == [f EXCEPT ![old] = 0]
               n == Available + f[old] - Available'
    <2>1. h \in [ClaimIds -> Nat] /\ h[old] = 0 /\ h[c] = 0 /\ n \in Nat
          /\ \A i \in ClaimIds \ {old} : f[i] = h[i]
      BY <1>1, <1>7, <1>15
    <2>2. /\ f' \in [ClaimIds -> Nat] /\ f'[c] = n
          /\ \A i \in ClaimIds \ {c} : h[i] = f'[i]
      BY <1>1, <1>15, <2>1
    <2> HIDE DEF h, n
    <2>3. Total(h, ClaimIds) = C - f[old] + h[old]
      BY <1>1, <2>1, TotalUpdate DEF C
    <2>4. C' = Total(h, ClaimIds) - h[c] + f'[c]
      BY <2>1, <2>2, TotalUpdate DEF C
    <2>5. C' = C - f[old] + n
      BY <1>2, <1>7, <2>1, <2>2, <2>3, <2>4
    <2>6. w' = w /\ g' = g /\ earned' = earned
      BY <1>15
    <2> QED
      BY <1>1, <1>2, <1>3, <1>7, <1>8, <2>5, <2>6 DEF n
  <1> QED
    BY <1>9, <1>10, <1>11, <1>12, <1>13, <1>14, <1>15

-----------------------------------------------------------------------------
(* What a step does to the books.                                          *)

\* A step keeps the promise and the counters that are not reservations.
BooksMoved == [Escrow!Next]_(Escrow!escrowVars) /\ PublisherMoney' /\ SettledIsPaid'

\* A step that pays nothing leaves what was paid as it is, also when it writes
\* a submission row: that one has earned nothing yet.
LEMMA SettledKept ==
  ASSUME SettledIsPaid, task'.settled = task.settled, earned' = earned,
         \A a \in Agents \ {Publisher} : balance'[a] = balance[a],
         \A s \in SubIds : subs'[s].agent = subs[s].agent \/ earned[s] = 0
  PROVE  SettledIsPaid'
  <1>1. \A a \in Agents : EarnedBy(a)' = EarnedBy(a)
    BY DEF EarnedBy
  <1>2. Total(earned, SubIds)' = Total(earned, SubIds)
    OBVIOUS
  <1>3. ASSUME NEW a \in Agents \ {Publisher} PROVE balance'[a] = Total(EarnedBy(a), SubIds)'
    <2>1. Total(EarnedBy(a), SubIds)' = Total(EarnedBy(a), SubIds)
      BY <1>1
    <2> QED
      BY <2>1 DEF SettledIsPaid
  <1> QED
    BY <1>2, <1>3 DEF SettledIsPaid

\* A step that moves no money.
Quiet ==
    /\ task'.locked = task.locked /\ task'.settled = task.settled
    /\ task'.reserved = task.reserved /\ task'.refunded = task.refunded
    /\ balance' = balance /\ earned' = earned
    /\ \A c \in ClaimIds : HeldByClaim(c)' = HeldByClaim(c)
    /\ \A s \in SubIds : HeldBySub(s)' = HeldBySub(s) /\ subs'[s].agent = subs[s].agent

LEMMA QuietMoved ==
  ASSUME AuditInv, Quiet
  PROVE  BooksMoved
  <1>1. Available' = Available
    BY DEF Available, Quiet
  <1>2. HeldOnClaims' = HeldOnClaims /\ HeldOnSubs' = HeldOnSubs
    BY DEF HeldOnClaims, HeldOnSubs, Quiet
  <1>3. UNCHANGED Escrow!escrowVars
    BY <1>1, <1>2 DEF Quiet, Escrow!escrowVars
  <1>4. PublisherMoney'
    BY DEF AuditInv, PublisherMoney, Quiet
  <1>5. SettledIsPaid'
    BY SettledKept DEF AuditInv, Quiet
  <1> QED
    BY <1>3, <1>4, <1>5 DEF BooksMoved

\* Rows that keep their state, amount and agent hold what they held.
LEMMA RowsQuiet ==
  ASSUME AuditInv,
         \/ task' = task
         \/ \E e : ApplyTaskStatus(e),
         balance' = balance, earned' = earned,
         \A c \in ClaimIds : claims'[c].status = claims[c].status
                               /\ claims'[c].amount = claims[c].amount,
         \A s \in SubIds : subs'[s].state = subs[s].state
                             /\ subs'[s].amount = subs[s].amount
                             /\ subs'[s].agent = subs[s].agent
  PROVE  BooksMoved
  <1>1. task \in TaskType
    BY DEF AuditInv, TypeInv, TypeOK
  <1>2. /\ task'.locked = task.locked /\ task'.settled = task.settled
        /\ task'.reserved = task.reserved /\ task'.refunded = task.refunded
    BY <1>1 DEF ApplyTaskStatus, TaskType
  <1> QED
    BY <1>2, QuietMoved DEF Quiet, HeldByClaim, HeldBySub

\* The publisher pays into the pot.
LEMMA DepositMoved ==
  ASSUME AuditInv, NEW x \in Nat, NEW row, LockTaskBudget(x, row), row \in TaskType,
         row.locked = task.locked, row.settled = task.settled,
         row.reserved = task.reserved, row.refunded = task.refunded,
         UNCHANGED <<claims, subs, earned>>
  PROVE  BooksMoved
  <1>1. /\ task \in TaskType /\ balance \in [Agents \cup {Publisher} -> Nat]
        /\ Available \in Int
    BY BooksType DEF AuditInv, TypeInv, TypeOK, BooksOK
  <1>2. /\ task'.locked = task.locked + x /\ task'.settled = task.settled
        /\ task'.reserved = task.reserved /\ task'.refunded = task.refunded
        /\ balance[Publisher] >= x
        /\ balance' = [balance EXCEPT ![Publisher] = balance[Publisher] - x]
    BY DEF LockTaskBudget, TaskType
  <1>3. balance'[Publisher] = balance[Publisher] - x /\ balance'[Publisher] \in Nat
    BY <1>1, <1>2
  <1>4. Available' = Available + x
    BY <1>1, <1>2 DEF Available, TaskType
  <1>5. HeldOnClaims' = HeldOnClaims /\ HeldOnSubs' = HeldOnSubs
    BY DEF HeldOnClaims, HeldOnSubs, HeldByClaim, HeldBySub
  <1>6. Escrow!Deposit
    BY <1>1, <1>2, <1>3, <1>4, <1>5 DEF Escrow!Deposit
  <1>7. PublisherMoney'
    BY <1>1, <1>2, <1>3 DEF AuditInv, PublisherMoney, TaskType
  <1>8. SettledIsPaid'
    BY <1>1, <1>2, SettledKept DEF AuditInv
  <1> QED
    BY <1>6, <1>7, <1>8 DEF BooksMoved, Escrow!Next

\* A refund finds nothing held: the reservations are backed and there are none.
LEMMA RefundMoved ==
  ASSUME AuditInv, RefundTask
  PROVE  BooksMoved
  <1>1. /\ task \in TaskType /\ balance \in [Agents \cup {Publisher} -> Nat]
        /\ Available \in Nat /\ task.reserved = 0
        /\ HeldOnClaims \in [ClaimIds -> Nat] /\ HeldOnSubs \in [SubIds -> Nat]
    <2>1. TypeInv /\ BooksOK
      BY BooksType DEF AuditInv
    <2> QED
      BY <2>1 DEF TypeInv, TypeOK, BooksOK, RefundTask
  <1>2. /\ task'.locked = task.locked /\ task'.settled = task.settled
        /\ task'.reserved = task.reserved /\ task'.refunded = task.refunded + Available
        /\ balance' = [balance EXCEPT ![Publisher] = balance[Publisher] + Available]
    BY <1>1 DEF RefundTask, TaskType
  <1>3. balance'[Publisher] = balance[Publisher] + Available
    BY <1>1, <1>2
  <1>4. Available' = 0
    BY <1>1, <1>2 DEF Available, TaskType
  <1>5. HeldOnClaims' = HeldOnClaims /\ HeldOnSubs' = HeldOnSubs
    BY DEF HeldOnClaims, HeldOnSubs, HeldByClaim, HeldBySub, RefundTask
  <1>6. /\ \A c \in ClaimIds : HeldOnClaims[c] = 0
        /\ \A s \in SubIds : HeldOnSubs[s] = 0
    <2>1. /\ Total(HeldOnClaims, ClaimIds) \in Nat /\ Total(HeldOnSubs, SubIds) \in Nat
      BY <1>1, RowAssumption, TotalType
    <2>2. Total(HeldOnClaims, ClaimIds) = 0 /\ Total(HeldOnSubs, SubIds) = 0
      BY <1>1, <2>1 DEF AuditInv, ReservedIsBacked
    <2>3. /\ \A c \in ClaimIds : HeldOnClaims[c] <= Total(HeldOnClaims, ClaimIds)
          /\ \A s \in SubIds : HeldOnSubs[s] <= Total(HeldOnSubs, SubIds)
      BY <1>1, RowAssumption, TotalCovers
    <2> QED
      BY <1>1, <2>2, <2>3
  <1>7. Escrow!Refund
    BY <1>3, <1>4, <1>5, <1>6 DEF Escrow!Refund, RefundTask
  <1>8. PublisherMoney'
    BY <1>1, <1>2, <1>3 DEF AuditInv, PublisherMoney, TaskType
  <1>9. SettledIsPaid'
    BY <1>1, <1>2, SettledKept DEF AuditInv, RefundTask
  <1> QED
    BY <1>7, <1>8, <1>9 DEF BooksMoved, Escrow!Next

\* A step that changes nothing but claims, submissions and the reservations.
LEMMA ReservedOnly ==
  ASSUME AuditInv, task'.locked = task.locked, task'.settled = task.settled,
         task'.refunded = task.refunded, balance' = balance, earned' = earned,
         \A s \in SubIds : subs'[s].agent = subs[s].agent \/ earned[s] = 0
  PROVE  /\ PublisherMoney' /\ SettledIsPaid'
         /\ task'.reserved \in Int =>
              Available' = Available + task.reserved - task'.reserved
  <1>1. task \in TaskType
    BY DEF AuditInv, TypeInv, TypeOK
  <1>2. PublisherMoney'
    BY DEF AuditInv, PublisherMoney
  <1>3. SettledIsPaid'
    BY SettledKept DEF AuditInv
  <1>4. task'.reserved \in Int => Available' = Available + task.reserved - task'.reserved
    BY <1>1 DEF Available, TaskType
  <1> QED
    BY <1>2, <1>3, <1>4

\* A new claim takes its price from the pot.
LEMMA ClaimMoved ==
  ASSUME AuditInv, NEW a \in Agents, NEW c \in ClaimIds, ClaimTask(a, c)
  PROVE  BooksMoved
  <1> DEFINE x == Contract.price
  <1>1. /\ task \in TaskType /\ claims \in [ClaimIds -> ClaimType]
        /\ Available \in Int /\ x \in Nat
    <2>1. TypeInv /\ BooksOK /\ task.status # "absent"
      BY BooksType DEF AuditInv, ClaimTask
    <2> QED
      BY <2>1, ContractInForce DEF TypeInv, TypeOK, BooksOK
  <1>2. /\ task'.locked = task.locked /\ task'.settled = task.settled
        /\ task'.reserved = task.reserved + x /\ task'.refunded = task.refunded
        /\ Available >= x
    BY <1>1 DEF ClaimTask, ReserveTaskAmount, CanReserve, TaskType
  <1>3. balance' = balance /\ earned' = earned /\ subs' = subs
    BY DEF ClaimTask
  <1>4. PublisherMoney' /\ SettledIsPaid' /\ Available' = Available - x
    BY <1>1, <1>2, <1>3, ReservedOnly DEF TaskType
  <1>5. claims' = [claims EXCEPT ![c] = NewClaim(a)] /\ claims[c].status = "none"
    BY DEF ClaimTask, NextClaim
  <1>6. /\ HeldOnClaims[c] = 0
        /\ HeldOnClaims' = [HeldOnClaims EXCEPT ![c] = x]
    BY <1>1, <1>5 DEF HeldOnClaims, HeldByClaim, NewClaim
  <1>7. HeldOnSubs' = HeldOnSubs
    BY <1>3 DEF HeldOnSubs, HeldBySub
  <1> HIDE DEF x
  <1>8. Escrow!HoldForClaim(c)
    BY <1>1, <1>2, <1>3, <1>4, <1>6, <1>7 DEF Escrow!HoldForClaim
  <1> QED
    BY <1>4, <1>8 DEF BooksMoved, Escrow!Next

\* A claim that ran out makes room for the next of its agent.
LEMMA ReclaimMoved ==
  ASSUME AuditInv, NEW a \in Agents, NEW c \in ClaimIds, NEW old \in ClaimIds,
         ReclaimTask(a, old, c)
  PROVE  BooksMoved
  <1> DEFINE x == Contract.price
             y == claims[old].amount
  <1>1. /\ task \in TaskType /\ claims \in [ClaimIds -> ClaimType]
        /\ Available \in Int /\ x \in Nat /\ y \in Nat
    <2>1. TypeInv /\ BooksOK /\ task.status # "absent"
      BY BooksType DEF AuditInv, ReclaimTask
    <2> QED
      BY <2>1, ContractInForce DEF TypeInv, TypeOK, BooksOK, ClaimType
  <1>2. task'.locked = task.locked /\ task'.settled = task.settled
        /\ task'.reserved = task.reserved - y + x /\ task'.refunded = task.refunded
        /\ Available >= x
    BY <1>1 DEF ReclaimTask, HasSlot, TaskType
  <1>3. balance' = balance /\ earned' = earned /\ subs' = subs
    BY DEF ReclaimTask
  <1>4. PublisherMoney' /\ SettledIsPaid' /\ Available' = Available + y - x
    BY <1>1, <1>2, <1>3, ReservedOnly DEF TaskType
  <1>5. /\ claims' = [claims EXCEPT ![old] = SetClaimStatus(old, "expire"),
                                    ![c] = NewClaim(a)]
        /\ claims[c].status = "none" /\ claims[old].status = "active"
    BY DEF ReclaimTask, NextClaim, HoldsClaim
  <1>6. SetClaimStatus(old, "expire").status = "expired"
    BY <1>1, <1>5 DEF SetClaimStatus, ClaimTransition, ClaimType
  <1>7. NewClaim(a).status = "active" /\ NewClaim(a).amount = x
    BY DEF NewClaim
  <1>8. /\ HeldOnClaims[c] = 0 /\ HeldOnClaims[old] = y
        /\ HeldOnClaims' = [HeldOnClaims EXCEPT ![old] = 0, ![c] = x]
    BY <1>1, <1>5, <1>6, <1>7 DEF HeldOnClaims, HeldByClaim
  <1>9. HeldOnSubs' = HeldOnSubs
    BY <1>3 DEF HeldOnSubs, HeldBySub
  <1> HIDE DEF x, y
  <1>10. x = Available + HeldOnClaims[old] - Available'
    BY <1>1, <1>4, <1>8
  <1>11. Escrow!Replace(old, c)
    BY <1>1, <1>2, <1>3, <1>4, <1>8, <1>9, <1>10 DEF Escrow!Replace
  <1> QED
    BY <1>4, <1>11 DEF BooksMoved, Escrow!Next

\* A claim that ends returns what it held.
LEMMA EndClaimMoved ==
  ASSUME AuditInv, NEW c \in ClaimIds, NEW e \in {"release", "expire"}, EndClaim(c, e)
  PROVE  BooksMoved
  <1> DEFINE y == claims[c].amount
  <1>1. /\ task \in TaskType /\ claims \in [ClaimIds -> ClaimType]
        /\ Available \in Int /\ y \in Nat
    <2>1. TypeInv /\ BooksOK
      BY BooksType DEF AuditInv
    <2> QED
      BY <2>1 DEF TypeInv, TypeOK, BooksOK, ClaimType
  <1>2. task'.locked = task.locked /\ task'.settled = task.settled
        /\ task'.reserved = task.reserved - y /\ task'.refunded = task.refunded
    BY <1>1 DEF EndClaim, ReleaseTaskReservation, TaskType
  <1>3. balance' = balance /\ earned' = earned /\ subs' = subs
    BY DEF EndClaim
  <1>4. PublisherMoney' /\ SettledIsPaid' /\ Available' = Available + y
    BY <1>1, <1>2, <1>3, ReservedOnly DEF TaskType
  <1>5. /\ claims' = [claims EXCEPT ![c] = SetClaimStatus(c, e)]
        /\ claims[c].status = "active"
    BY DEF EndClaim
  <1>6. SetClaimStatus(c, e).status \in {"released", "expired"}
    BY <1>1, <1>5 DEF SetClaimStatus, ClaimTransition, ClaimType
  <1>7. /\ HeldOnClaims[c] = y
        /\ HeldOnClaims' = [HeldOnClaims EXCEPT ![c] = 0]
    BY <1>1, <1>5, <1>6 DEF HeldOnClaims, HeldByClaim
  <1>8. HeldOnSubs' = HeldOnSubs
    BY <1>3 DEF HeldOnSubs, HeldBySub
  <1> HIDE DEF y
  <1>9. Escrow!DropClaim(c)
    BY <1>3, <1>4, <1>7, <1>8 DEF Escrow!DropClaim
  <1> QED
    BY <1>4, <1>9 DEF BooksMoved, Escrow!Next

\* Recorded work takes its price from the pot, or over from its claim.
LEMMA SubmitMoved ==
  ASSUME AuditInv, NEW p \in Procs, NEW s \in SubIds, SubmitTx(p, s)
  PROVE  BooksMoved
  <1> DEFINE r == procs[p]
  <1>1. /\ task \in TaskType /\ claims \in [ClaimIds -> ClaimType]
        /\ subs \in [SubIds -> SubType] /\ Available \in Int /\ r \in ProcType
    <2>1. TypeInv /\ BooksOK
      BY BooksType DEF AuditInv
    <2> QED
      BY <2>1 DEF TypeInv, TypeOK, BooksOK
  <1>2. subs[s].state = "none" /\ earned[s] = 0 /\ HeldOnSubs[s] = 0
    <2>1. subs[s].state = "none"
      BY DEF SubmitTx, NextSub
    <2> QED
      BY <2>1 DEF AuditInv, PaidExactlyOnce, HeldOnSubs, HeldBySub, InFlight
  <1>3. /\ balance' = balance /\ earned' = earned
        /\ \A t \in SubIds \ {s} : subs'[t] = subs[t]
    BY SubmittedRow DEF SubmitTx, AuditInv
  <1>4. CASE r.claim = None
    <2> DEFINE x == Contract.price
    <2>1. x \in Nat
      BY <1>4, ContractInForce DEF SubmitTx, StillAcceptable, AuditInv
    <2>2. task'.locked = task.locked /\ task'.settled = task.settled
          /\ task'.reserved = task.reserved + x /\ task'.refunded = task.refunded
          /\ Available >= x
      BY <1>1, <1>4 DEF SubmitTx, ReserveTaskAmount, CanReserve, TaskType
    <2>3. PublisherMoney' /\ SettledIsPaid' /\ Available' = Available - x
      BY <1>1, <1>2, <1>3, <2>1, <2>2, ReservedOnly DEF TaskType
    <2>4. PICK c \in ClaimIds :
            /\ claims[c].status = "none"
            /\ claims' = [claims EXCEPT ![c] = UsedClaim(r.agent)]
            /\ subs' = [subs EXCEPT ![s] = NewSub(r, c, Version, x)]
      BY <1>4 DEF SubmitTx, NextClaim
    <2>5. UsedClaim(r.agent).status = "used"
      BY DEF UsedClaim, NewClaim
    <2>6. HeldOnClaims' = HeldOnClaims
      BY <1>1, <2>4, <2>5 DEF HeldOnClaims, HeldByClaim
    <2>7. NewSub(r, c, Version, x).state = "delivering" /\ NewSub(r, c, Version, x).amount = x
      BY DEF NewSub
    <2>8. HeldOnSubs' = [HeldOnSubs EXCEPT ![s] = x]
      BY <1>1, <2>4, <2>7 DEF HeldOnSubs, HeldBySub, InFlight
    <2> HIDE DEF x
    <2>9. Escrow!HoldForSub(s)
      <3>1. x = Available - Available' /\ Available' \in 0..Available
        BY <1>1, <2>1, <2>2, <2>3
      <3> QED
        BY <1>2, <1>3, <2>3, <2>6, <2>8, <3>1 DEF Escrow!HoldForSub
    <2> QED
      BY <2>3, <2>9 DEF BooksMoved, Escrow!Next
  <1>5. CASE r.claim # None
    <2> DEFINE c == r.claim
               y == claims[c].amount
    <2>1. c \in ClaimIds /\ claims[c].status = "active" /\ y \in Nat
      BY <1>1, <1>5 DEF SubmitTx, StillAcceptable, HoldsClaim, ProcType, ClaimType
    <2>2. /\ claims' = [claims EXCEPT ![c] = SetClaimStatus(c, "use")]
          /\ subs' = [subs EXCEPT ![s] = NewSub(r, c, claims[c].ver, y)]
          /\ task' = task
      BY <1>5 DEF SubmitTx
    <2>3. PublisherMoney' /\ SettledIsPaid' /\ Available' = Available
      BY <1>1, <1>2, <1>3, <2>2, ReservedOnly DEF TaskType, Available
    <2>4. SetClaimStatus(c, "use").status = "used"
      BY <1>1, <2>1 DEF SetClaimStatus, ClaimTransition, ClaimType
    <2>5. HeldOnClaims[c] = y /\ HeldOnClaims' = [HeldOnClaims EXCEPT ![c] = 0]
      BY <1>1, <2>1, <2>2, <2>4 DEF HeldOnClaims, HeldByClaim
    <2>6. /\ NewSub(r, c, claims[c].ver, y).state = "delivering"
          /\ NewSub(r, c, claims[c].ver, y).amount = y
      BY DEF NewSub
    <2>7. HeldOnSubs' = [HeldOnSubs EXCEPT ![s] = y]
      BY <1>1, <2>2, <2>6 DEF HeldOnSubs, HeldBySub, InFlight
    <2> HIDE DEF y
    <2>8. Escrow!HandOver(c, s)
      BY <1>2, <1>3, <2>3, <2>5, <2>7 DEF Escrow!HandOver
    <2> QED
      BY <2>1, <2>3, <2>8 DEF BooksMoved, Escrow!Next
  <1> QED
    BY <1>4, <1>5

\* An outcome pays what the submission held or returns it; a timeout does
\* neither.
LEMMA WriteMoved ==
  ASSUME AuditInv, NEW p \in Procs, WriteDeliveryOutcome(p)
  PROVE  BooksMoved
  <1> DEFINE s == procs[p].sub
             e == procs[p].event
             row == SetSubmissionState(s, e)
             x == subs[s].amount
  <1>1. /\ task \in TaskType /\ claims \in [ClaimIds -> ClaimType]
        /\ subs \in [SubIds -> SubType] /\ Available \in Int
        /\ earned \in [SubIds -> Nat] /\ balance \in [Agents \cup {Publisher} -> Nat]
    <2>1. TypeInv /\ BooksOK
      BY BooksType DEF AuditInv
    <2> QED
      BY <2>1 DEF TypeInv, TypeOK, BooksOK
  <1>2. TypeInv /\ procs[p].pc = "write" /\ subs[s].state = procs[p].pre
    BY DEF AuditInv, WriteDeliveryOutcome, StillUndecided
  <1>3. /\ s \in SubIds /\ row \in SubType /\ row.amount = x /\ row.agent = subs[s].agent
        /\ subs[s].agent \in Agents /\ x \in Nat
    BY <1>2, OutcomeRowType
  <1>4. /\ subs[s].state \in InFlight /\ e \in Events
        /\ e = "timeout" => subs[s].state = "delivering"
        /\ e = "unresolved" => subs[s].state = "uncertain"
    <2>1. ProcComplete(procs[p], subs, Version)
      BY <1>2 DEF TypeInv, ProcsComplete
    <2> QED
      BY <1>2, <2>1 DEF ProcComplete
  <1>5. row.state = SubmissionTransition(subs[s].state, e)
    BY <1>1, <1>3 DEF SetSubmissionState, SubType
  <1>6. /\ e = "timeout" => row.state = "uncertain"
        /\ e # "timeout" => row.state \in Terminal
    BY <1>4, <1>5 DEF SubmissionTransition, Events, InFlight, Terminal
  <1>7. subs' = [subs EXCEPT ![s] = row] /\ claims' = claims
    BY DEF WriteDeliveryOutcome
  <1> HIDE DEF row
  <1>8. /\ HeldOnSubs[s] = x /\ earned[s] = 0
        /\ subs[s].agent # Publisher
    BY <1>3, <1>4 DEF HeldOnSubs, HeldBySub, AuditInv, PaidExactlyOnce, OthersWork, InFlight
  <1>9. HeldOnClaims' = HeldOnClaims /\ \A t \in SubIds : subs'[t].agent = subs[t].agent
    BY <1>1, <1>3, <1>7 DEF HeldOnClaims, HeldByClaim
  <1>10. e # "timeout" => HeldOnSubs' = [HeldOnSubs EXCEPT ![s] = 0]
    BY <1>1, <1>3, <1>6, <1>7 DEF HeldOnSubs, HeldBySub, InFlight, Terminal
  <1>11. CASE e = "timeout"
    <2>1. task' = task /\ balance' = balance /\ earned' = earned
      BY <1>11 DEF WriteDeliveryOutcome
    <2>2. \A t \in SubIds : HeldBySub(t)' = HeldBySub(t)
      BY <1>1, <1>3, <1>4, <1>6, <1>7, <1>11 DEF HeldBySub, InFlight
    <2>3. \A c \in ClaimIds : HeldByClaim(c)' = HeldByClaim(c)
      BY <1>7 DEF HeldByClaim
    <2>4. Quiet
      BY <1>9, <2>1, <2>2, <2>3 DEF Quiet
    <2> QED
      BY <2>4, QuietMoved
  <1>12. CASE e \in {"deliver_4xx", "delivery_failed", "unresolved"}
    <2>1. /\ ReleaseTaskReservation(x) /\ balance' = balance /\ earned' = earned
      BY <1>12 DEF WriteDeliveryOutcome
    <2>2. task'.locked = task.locked /\ task'.settled = task.settled
          /\ task'.reserved = task.reserved - x /\ task'.refunded = task.refunded
      BY <1>1, <2>1 DEF ReleaseTaskReservation, TaskType
    <2>3. PublisherMoney' /\ SettledIsPaid' /\ Available' = Available + x
      BY <1>1, <1>3, <1>9, <2>1, <2>2, ReservedOnly DEF TaskType
    <2>4. Escrow!DropSub(s)
      BY <1>8, <1>9, <1>10, <1>12, <2>1, <2>3 DEF Escrow!DropSub
    <2> QED
      BY <1>3, <2>3, <2>4 DEF BooksMoved, Escrow!Next
  <1>13. CASE e = "deliver_2xx"
    <2> DEFINE a == subs[s].agent
    <2>1. /\ task'.locked = task.locked /\ task'.settled = task.settled + x
          /\ task'.reserved = task.reserved - x /\ task'.refunded = task.refunded
          /\ balance' = [balance EXCEPT ![a] = balance[a] + x]
          /\ earned' = [earned EXCEPT ![s] = earned[s] + x]
      BY <1>1, <1>13 DEF WriteDeliveryOutcome, SettleTaskSubmission, TaskType
    <2>2. Available' = Available
      BY <1>1, <1>3, <2>1 DEF Available, TaskType
    <2>3. balance'[Publisher] = balance[Publisher]
      BY <1>1, <1>8, <2>1
    <2>4. PublisherMoney'
      BY <2>1, <2>3 DEF AuditInv, PublisherMoney
    <2>5. earned' = [earned EXCEPT ![s] = x]
      <3>1. earned[s] + x = x
        BY <1>3, <1>8
      <3> QED
        BY <2>1, <3>1
    <2>6. /\ earned' \in [SubIds -> Nat] /\ earned'[s] = x
           /\ \A t \in SubIds \ {s} : earned[t] = earned'[t]
      BY <1>1, <1>3, <2>5
    <2>7. Escrow!Pay(s)
      BY <1>8, <1>9, <1>10, <1>13, <2>2, <2>3, <2>5 DEF Escrow!Pay
    <2>8. Total(earned', SubIds) = Total(earned, SubIds) + x
      <3>1. Total(earned', SubIds) = Total(earned, SubIds) - earned[s] + earned'[s]
        BY <1>1, <1>3, <2>6, RowAssumption, TotalUpdate
      <3>2. Total(earned, SubIds) \in Nat
        BY <1>1, RowAssumption, TotalType
      <3> QED
        BY <1>3, <1>8, <2>6, <3>1, <3>2
    <2>9. ASSUME NEW b \in Agents \ {Publisher}
          PROVE  balance'[b] = Total(EarnedBy(b)', SubIds)
      <3> DEFINE f == EarnedBy(b)
      <3>1. f \in [SubIds -> Nat] /\ f' \in [SubIds -> Nat]
        BY <1>1, <2>6 DEF EarnedBy
      <3>2. /\ \A t \in SubIds \ {s} : f[t] = f'[t]
            /\ f[s] = 0 /\ f'[s] = IF b = a THEN x ELSE 0
        BY <1>1, <1>3, <1>8, <1>9, <2>6 DEF EarnedBy
      <3>3. balance[b] = Total(f, SubIds)
        BY DEF AuditInv, SettledIsPaid
      <3> HIDE DEF f
      <3>4. Total(f', SubIds) = Total(f, SubIds) - f[s] + f'[s]
        BY <1>3, <3>1, <3>2, RowAssumption, TotalUpdate
      <3>5. Total(f, SubIds) \in Nat
        BY <3>1, RowAssumption, TotalType
      <3>6. Total(f', SubIds) = balance[b] + (IF b = a THEN x ELSE 0)
        BY <1>3, <3>2, <3>3, <3>4, <3>5
      <3>7. balance'[b] = balance[b] + (IF b = a THEN x ELSE 0)
        BY <1>1, <1>3, <2>1
      <3> QED
        BY <3>6, <3>7 DEF f
    <2>10. SettledIsPaid'
      <3>1. task'.settled = Total(earned', SubIds)
        BY <2>1, <2>8 DEF AuditInv, SettledIsPaid
      <3> QED
        BY <2>9, <3>1 DEF SettledIsPaid
    <2> QED
      BY <1>3, <2>4, <2>7, <2>10 DEF BooksMoved, Escrow!Next
  <1> QED
    BY <1>4, <1>11, <1>12, <1>13 DEF Events

\* The publisher and the platform.
LEMMA PublisherMoved ==
  ASSUME AuditInv, PublisherStep
  PROVE  BooksMoved
  <1>1. TypeInv
    BY DEF AuditInv
  <1>2. ASSUME NEW k \in Contracts, NEW b \in Amounts, CreateTask(k, b) PROVE BooksMoved
    <2> DEFINE row == [NoTask EXCEPT !.status = "paused"]
    <2>1. task = NoTask /\ LockTaskBudget(b, row) /\ b \in Nat
      BY <1>1, <1>2, AmountAssumption DEF CreateTask, TypeInv, TaskComplete
    <2>2. /\ row \in TaskType /\ row.locked = task.locked /\ row.settled = task.settled
          /\ row.reserved = task.reserved /\ row.refunded = task.refunded
      BY <2>1 DEF NoTask, TaskType, TaskStatuses
    <2>3. UNCHANGED <<claims, subs, earned>>
      BY <1>2 DEF CreateTask
    <2> HIDE DEF row
    <2> QED
      BY <2>1, <2>2, <2>3, DepositMoved
  <1>3. ASSUME NEW x \in Amounts, FundTask(x) PROVE BooksMoved
    <2>1. task \in TaskType /\ x \in Nat /\ LockTaskBudget(x, task)
      BY <1>1, <1>3, AmountAssumption DEF FundTask, TypeInv, TypeOK
    <2>2. UNCHANGED <<claims, subs, earned>>
      BY <1>3 DEF FundTask
    <2> QED
      BY <2>1, <2>2, DepositMoved
  <1>4. ASSUME NEW e, StatusChange(e) PROVE BooksMoved
    BY <1>4, RowsQuiet DEF StatusChange
  <1>5. ASSUME NEW k \in Contracts, UpdateTask(k) PROVE BooksMoved
    BY <1>5, RowsQuiet DEF UpdateTask
  <1> QED
    BY <1>2, <1>3, <1>4, <1>5, RefundMoved
       DEF PublisherStep, OpenTask, PauseTask, CloseTask, PlatformCloseTask

\* Agents and the expiry worker.
LEMMA ClaimsMoved ==
  ASSUME AuditInv, ClaimStep
  PROVE  BooksMoved
  <1>1. ASSUME NEW c \in ClaimIds, RenewClaim(c) PROVE BooksMoved
    <2>1. claims \in [ClaimIds -> ClaimType]
      BY DEF AuditInv, TypeInv, TypeOK
    <2>2. claims' = [claims EXCEPT ![c].left = RenewedLeft(c)]
      BY <1>1 DEF RenewClaim
    <2>3. \A d \in ClaimIds : claims'[d].status = claims[d].status
                                /\ claims'[d].amount = claims[d].amount
      BY <2>1, <2>2 DEF ClaimType
    <2> QED
      BY <1>1, <2>3, RowsQuiet DEF RenewClaim
  <1> QED
    BY <1>1, ClaimMoved, ReclaimMoved, EndClaimMoved
       DEF ClaimStep, ReleaseClaim, ExpireClaim

\* Intake, delivery, recovery, crashes and time.
LEMMA WorkMoved ==
  ASSUME AuditInv,
         \/ \E p \in Handlers : IntakeStep(p)
         \/ \E p \in Workers : RecoveryStep(p)
         \/ \E p \in Procs : DeliveryStep(p) \/ Crash(p)
         \/ Tick
  PROVE  BooksMoved
  <1> DEFINE RowsStill ==
        /\ \A c \in ClaimIds : claims'[c].status = claims[c].status
                                 /\ claims'[c].amount = claims[c].amount
        /\ \A s \in SubIds : subs'[s].state = subs[s].state
                               /\ subs'[s].amount = subs[s].amount
                               /\ subs'[s].agent = subs[s].agent
  <1>1. /\ claims \in [ClaimIds -> ClaimType] /\ subs \in [SubIds -> SubType]
    BY DEF AuditInv, TypeInv, TypeOK
  <1>2. ASSUME UNCHANGED <<task, claims, subs, balance, earned>> PROVE BooksMoved
    BY <1>2, RowsQuiet
  <1>3. ASSUME NEW p \in Handlers, IntakeStep(p) PROVE BooksMoved
    <2>1. ASSUME NEW s \in SubIds, SubmitTx(p, s) PROVE BooksMoved
      BY <2>1, SubmitMoved DEF Procs
    <2>2. ASSUME NEW a \in Agents, NEW k \in Keys, NEW y \in Payloads,
                 NEW c \in ClaimIds \cup {None}, NEW v \in SubIds \cup {None},
                 SubmitWork(p, a, k, y, c, v)
          PROVE  BooksMoved
      BY <1>2, <2>2 DEF SubmitWork
    <2>3. ASSUME SubmitSchema(p) \/ SubmitRefused(p) PROVE BooksMoved
      BY <1>2, <2>3 DEF SubmitSchema, SubmitRefused
    <2> QED
      BY <1>3, <2>1, <2>2, <2>3 DEF IntakeStep
  <1>4. ASSUME NEW p \in Workers, RecoveryStep(p) PROVE BooksMoved
    <2>1. ASSUME NEW s \in SubIds, RecoverLease(p, s) PROVE BooksMoved
      <3>1. PICK w : subs' = [subs EXCEPT ![s].wait = w]
        BY <2>1 DEF RecoverLease
      <3>2. RowsStill
        BY <1>1, <2>1, <3>1 DEF RecoverLease, SubType
      <3> QED
        BY <2>1, <3>2, RowsQuiet DEF RecoverLease
    <2>2. ASSUME RecoverSubmission(p) PROVE BooksMoved
      BY <1>2, <2>2 DEF RecoverSubmission
    <2> QED
      BY <1>4, <2>1, <2>2 DEF RecoveryStep
  <1>5. ASSUME NEW p \in Procs, DeliveryStep(p) \/ Crash(p) PROVE BooksMoved
    <2>1. ASSUME DeliverRead(p) \/ Post(p) \/ DropDeliveryOutcome(p) \/ Crash(p)
          PROVE  BooksMoved
      BY <1>2, <2>1 DEF DeliverRead, Post, DropDeliveryOutcome, Crash
    <2>2. ASSUME FaultCheck(p) PROVE BooksMoved
      BY <2>2, RowsQuiet DEF FaultCheck
    <2> QED
      BY <1>5, <2>1, <2>2, WriteMoved DEF DeliveryStep
  <1>6. CASE Tick
    <2>1. ASSUME NEW c \in ClaimIds
          PROVE  claims'[c].status = claims[c].status /\ claims'[c].amount = claims[c].amount
      <3>1. claims'[c] = [claims[c] EXCEPT !.left = Down(claims[c].left),
                                           !.life = Down(claims[c].life)]
        BY <1>6 DEF Tick
      <3> QED
        BY <1>1, <3>1 DEF ClaimType
    <2>2. ASSUME NEW s \in SubIds
          PROVE  /\ subs'[s].state = subs[s].state /\ subs'[s].amount = subs[s].amount
                 /\ subs'[s].agent = subs[s].agent
      <3>1. subs'[s] = [subs[s] EXCEPT !.wait = Down(subs[s].wait),
                                       !.clock = Down(subs[s].clock)]
        BY <1>6 DEF Tick
      <3> QED
        BY <1>1, <3>1 DEF SubType
    <2>3. RowsStill
      BY <2>1, <2>2
    <2> QED
      BY <1>6, <2>3, RowsQuiet DEF Tick
  <1> QED
    BY <1>3, <1>4, <1>5, <1>6

\* Every step keeps the books.
LEMMA AuditStep == AuditInv /\ [Next]_vars => BooksMoved /\ AuditInv'
  <1> SUFFICES ASSUME AuditInv, [Next]_vars PROVE BooksMoved /\ AuditInv'
    OBVIOUS
  <1>1. BooksMoved
    <2>1. CASE UNCHANGED vars
      BY <2>1, RowsQuiet DEF vars
    <2>2. CASE Next
      BY <2>2, PublisherMoved, ClaimsMoved, WorkMoved DEF Next
    <2> QED
      BY <2>1, <2>2
  <1>2. TypeInv' /\ BudgetKept' /\ PaidExactlyOnce' /\ OthersWork'
    BY TypeStep, BudgetStep, PaidStep, OthersStep DEF AuditInv
  <1>3. PublisherMoney' /\ SettledIsPaid' /\ AllCredits' = AllCredits
    BY <1>1, <1>2, EscrowConserves DEF BooksMoved, AuditInv
  <1>4. ReservedIsBacked'
    <2> DEFINE C == Total(HeldOnClaims, ClaimIds)
               S == Total(HeldOnSubs, SubIds)
               P == Total(earned, SubIds)
               w == balance[Publisher]
    <2>1. BooksOK /\ BooksOK'
      <3>1. TypeInv' => BooksOK'
        BY BooksType, PTL
      <3> QED
        BY <1>2, <3>1, BooksType DEF AuditInv
    <2>2. /\ task.locked \in Nat /\ task.settled \in Nat /\ task.reserved \in Nat
          /\ task.refunded \in Nat
          /\ task'.locked \in Nat /\ task'.settled \in Nat /\ task'.reserved \in Nat
          /\ task'.refunded \in Nat
      BY <1>2 DEF AuditInv, TypeInv, TypeOK, TaskType
    <2>3. w \in Nat /\ w' \in Nat
      BY <2>1 DEF BooksOK
    <2>4. C \in Nat /\ S \in Nat /\ P \in Nat
      BY <2>1, RowAssumption, TotalType DEF BooksOK
    <2>5. C' \in Nat /\ S' \in Nat /\ P' \in Nat
      BY <2>1, RowAssumption, TotalType DEF BooksOK
    <2>6. /\ AllCredits = w + Available + C + S + P
          /\ AllCredits' = w' + Available' + C' + S' + P'
      BY DEF AllCredits
    <2>7. /\ Available = task.locked - task.settled - task.reserved - task.refunded
          /\ Available' = task'.locked - task'.settled - task'.reserved - task'.refunded
      BY DEF Available
    <2>8. /\ w + task.locked - task.refunded = Credits
          /\ w' + task'.locked - task'.refunded = Credits
          /\ task.settled = P /\ task'.settled = P'
          /\ task.reserved = C + S
      BY <1>3 DEF AuditInv, PublisherMoney, SettledIsPaid, ReservedIsBacked
    <2> HIDE DEF C, S, P, w
    <2>9. task'.reserved = C' + S'
      <3>1. AllCredits = Credits - task.settled - task.reserved + C + S + P
        BY <2>2, <2>3, <2>4, <2>6, <2>7, <2>8
      <3>2. AllCredits' = Credits - task'.settled - task'.reserved + C' + S' + P'
        BY <2>2, <2>3, <2>5, <2>6, <2>7, <2>8
      <3>3. Credits \in Int
        BY <2>2, <2>3, <2>8
      <3>4. AllCredits = Credits /\ AllCredits' = Credits - task'.reserved + C' + S'
        BY <2>2, <2>4, <2>5, <2>8, <3>1, <3>2, <3>3
      <3> QED
        BY <1>3, <2>2, <2>5, <3>3, <3>4
    <2> QED
      BY <2>9 DEF ReservedIsBacked, C, S
  <1> QED
    BY <1>1, <1>2, <1>3, <1>4 DEF AuditInv

\* Before the task exists nothing is held, settled or paid.
LEMMA AuditInit == Init => AuditInv /\ Escrow!Init
  <1> SUFFICES ASSUME Init PROVE AuditInv /\ Escrow!Init
    OBVIOUS
  <1>1. TypeInv
    BY TypeInit
  <1>2. BudgetKept /\ PaidExactlyOnce
    BY DEF Init, BudgetKept, EscrowSolvent, RefundIsFinal, NoTask, PaidExactlyOnce, NoSub
  <1>3. OthersWork
    BY DEF Init, OthersWork, NoSub, Idle
  <1>4. balance[Publisher] = Credits /\ PublisherMoney /\ Available = 0
    BY AmountAssumption DEF Init, PublisherMoney, NoTask, Available
  <1>5. /\ HeldOnClaims = [c \in ClaimIds |-> 0]
        /\ HeldOnSubs = [s \in SubIds |-> 0]
        /\ earned = [s \in SubIds |-> 0]
        /\ \A a \in Agents : EarnedBy(a) = [s \in SubIds |-> 0]
    BY DEF Init, HeldOnClaims, HeldByClaim, NoClaim, HeldOnSubs, HeldBySub, NoSub, InFlight,
           EarnedBy
  <1>6. /\ Total(HeldOnClaims, ClaimIds) = 0 /\ Total(HeldOnSubs, SubIds) = 0
        /\ Total(earned, SubIds) = 0
        /\ \A a \in Agents : Total(EarnedBy(a), SubIds) = 0
    BY <1>5, TotalZero
  <1>7. SettledIsPaid /\ ReservedIsBacked
    BY <1>6 DEF Init, SettledIsPaid, ReservedIsBacked, NoTask
  <1> QED
    BY <1>1, <1>2, <1>3, <1>4, <1>5, <1>7 DEF AuditInv, Escrow!Init

\* The inductive invariant of the books holds in every reachable state.
THEOREM AuditInvHolds == Spec => []AuditInv
  BY AuditInit, AuditStep, PTL DEF Spec

\* CheckInvariants 10.2, for every instance: reserved is the sum of what the
\* active claims and the submissions in flight hold, whatever agents, requests,
\* workers and crashes are at work.
THEOREM ReservationsBacked == Spec => []ReservedIsBacked
  <1>1. AuditInv => ReservedIsBacked
    BY DEF AuditInv
  <1> QED
    BY <1>1, AuditInvHolds, PTL

\* No credits are made or lost between the publisher's balance, the counters of
\* the task row, the ledger and the agents' balances, and no release or
\* settlement that falls due lacks its reservation, for every instance.
THEOREM NoCreditLost == Spec => []CreditsAddUp
  <1>1. AuditInv => CreditsAddUp
    <2> SUFFICES ASSUME AuditInv PROVE CreditsAddUp
      OBVIOUS
    <2>1. /\ HeldOnClaims \in [ClaimIds -> Nat] /\ HeldOnSubs \in [SubIds -> Nat]
      BY BooksType DEF AuditInv, BooksOK
    <2>2. /\ \A c \in ClaimIds : HeldOnClaims[c] <= Total(HeldOnClaims, ClaimIds)
          /\ \A s \in SubIds : HeldOnSubs[s] <= Total(HeldOnSubs, SubIds)
      BY <2>1, RowAssumption, TotalCovers
    <2>3. Total(HeldOnClaims, ClaimIds) \in Nat /\ Total(HeldOnSubs, SubIds) \in Nat
      BY <2>1, RowAssumption, TotalType
    <2>4. /\ \A c \in ClaimIds : HeldOnClaims[c] <= task.reserved
          /\ \A s \in SubIds : HeldOnSubs[s] <= task.reserved
      BY <2>1, <2>2, <2>3 DEF AuditInv, ReservedIsBacked
    <2>5. ReleasesCovered
      BY <2>4 DEF ReleasesCovered, CanRelease, HeldOnClaims, HeldByClaim, HeldOnSubs, HeldBySub
    <2> QED
      BY <2>5 DEF AuditInv, CreditsAddUp
  <1> QED
    BY <1>1, AuditInvHolds, PTL

\* The task engine implements TaskEscrow, for every instance: each transaction
\* moves exactly the credits one of its steps allows, from the wallet to the
\* pot, the pot to one claim or submission, a claim to its submission, and from
\* there to one agent or back.
THEOREM EngineKeepsEscrow == Spec => EscrowKept
  <1>1. AuditInv /\ [Next]_vars => [Escrow!Next]_(Escrow!escrowVars)
    BY AuditStep DEF BooksMoved
  <1> QED
    BY <1>1, AuditInit, AuditInvHolds, PTL DEF Spec, EscrowKept, Escrow!Spec

-----------------------------------------------------------------------------
(* What the board shows.                                                   *)

\* Admitted by a version between the one a claim-less request has read and the current one.
AdmittedSince(r) == \E v \in r.ver .. Version : r.payload \in contracts[v].schema

\* Admitted by the version the carried claim is bound to.
AdmittedByClaim(r) ==
    /\ claims[r.claim].status # "none"
    /\ r.payload \in contracts[claims[r.claim].ver].schema

\* Active claims belong to accounts the task is visible to, and a request about to write has
\* had its payload admitted.
BoardInv ==
    /\ \A c \in ClaimIds : claims[c].status = "active" => claims[c].agent \in Audience
    /\ \A p \in Procs :
         /\ procs[p].pc = "schema" => procs[p].claim = None
         /\ procs[p].pc = "tx" =>
              IF procs[p].claim = None THEN AdmittedSince(procs[p]) ELSE AdmittedByClaim(procs[p])

\* Nobody comes to hold a claim of a task it may not see.
LEMMA HoldersStep ==
  ASSUME TypeInv, BoardInv, [Next]_vars, NEW c \in ClaimIds, claims'[c].status = "active"
  PROVE  claims'[c].agent \in Audience
  <1>1. claims \in [ClaimIds -> ClaimType]
    BY DEF TypeInv, TypeOK
  <1>2. CASE claims[c].status = "active"
    BY <1>2, StepKeepsClaims DEF BoardInv, ClaimKept, ClaimBorn
  <1>3. ASSUME NEW a \in Agents, ClaimTask(a, c)
        PROVE  claims'[c].agent \in Audience
    <2>1. claims' = [claims EXCEPT ![c] = NewClaim(a)] /\ a \in Audience /\ task.status # "absent"
      BY <1>3 DEF ClaimTask, MayWork
    <2> QED
      BY <1>1, <2>1, NewClaimIsBorn
  <1>4. ASSUME NEW a \in Agents, NEW old \in ClaimIds, ReclaimTask(a, old, c)
        PROVE  claims'[c].agent \in Audience
    <2>1. /\ claims' = [claims EXCEPT ![old] = SetClaimStatus(old, "expire"), ![c] = NewClaim(a)]
          /\ a \in Audience /\ task.status # "absent"
      BY <1>4 DEF ReclaimTask, MayWork
    <2> QED
      BY <1>1, <2>1, NewClaimIsBorn
  <1> QED
    BY <1>2, <1>3, <1>4, ActiveByClaiming

\* What a version admitted it admits for good, and a claim keeps its version.
LEMMA AdmittedForGood ==
  ASSUME TypeInv, BoundPrice, [Next]_vars, NEW r, r.ver \in 1 .. Version
  PROVE  /\ AdmittedSince(r) => AdmittedSince(r)'
         /\ r.claim \in ClaimIds /\ AdmittedByClaim(r) => AdmittedByClaim(r)'
  <1>1. VersionsStay
    BY StepKeepsVersions
  <1>2. ASSUME AdmittedSince(r)
        PROVE  AdmittedSince(r)'
    <2>1. PICK v \in r.ver .. Version : r.payload \in contracts[v].schema
      BY <1>2 DEF AdmittedSince
    <2>2. v \in r.ver .. Version' /\ contracts'[v] = contracts[v]
      BY <1>1, <2>1 DEF VersionsStay
    <2> QED
      BY <2>1, <2>2 DEF AdmittedSince
  <1>3. ASSUME r.claim \in ClaimIds, AdmittedByClaim(r)
        PROVE  AdmittedByClaim(r)'
    <2>1. claims[r.claim].ver \in 1 .. Version
      BY <1>3 DEF AdmittedByClaim, BoundPrice
    <2>2. ClaimKept(r.claim)
      BY <1>3, StepKeepsClaims DEF AdmittedByClaim, ClaimBorn
    <2> QED
      BY <1>1, <1>3, <2>1, <2>2 DEF AdmittedByClaim, ClaimKept, VersionsStay
  <1> QED
    BY <1>2, <1>3

\* Who reaches the write phase has just passed a check, by its claim or of the version in
\* force.
LEMMA AdmissionStep ==
  ASSUME TypeInv, BoundPrice, BoardInv, [Next]_vars, NEW p \in Procs, NEW r, r = procs'[p]
  PROVE  /\ r.pc = "schema" => r.claim = None
         /\ r.pc = "tx" => IF r.claim = None THEN AdmittedSince(r)' ELSE AdmittedByClaim(r)'
  <1>1. procs[p] \in ProcType
    BY DEF TypeInv, TypeOK
  <1>2. CASE r = procs[p]
    <2>1. SUFFICES ASSUME r.pc = "tx"
                   PROVE  IF r.claim = None THEN AdmittedSince(r)' ELSE AdmittedByClaim(r)'
      BY <1>2 DEF BoardInv
    <2>2. r.ver \in 1 .. Version
      BY <1>2, <2>1 DEF TypeInv, ProcsComplete, ProcComplete
    <2>3. r.claim # None => r.claim \in ClaimIds
      BY <1>1, <1>2 DEF ProcType
    <2>4. IF r.claim = None THEN AdmittedSince(r) ELSE AdmittedByClaim(r)
      BY <1>2, <2>1 DEF BoardInv
    <2> QED
      BY <2>2, <2>3, <2>4, AdmittedForGood
  <1>3. ASSUME NEW a \in Agents, NEW k \in Keys, NEW y \in Payloads,
               NEW c \in ClaimIds \cup {None}, NEW v \in SubIds \cup {None},
               SubmitWork(p, a, k, y, c, v), r = Remembered(a, k, y, c, v)
        PROVE  IF c = None THEN r.pc = "schema" /\ r.claim = None
                           ELSE r.pc = "tx" /\ r.claim # None /\ AdmittedByClaim(r)'
    <2>1. r.claim = c /\ r.payload = y /\ r.pc = IF c = None THEN "schema" ELSE "tx"
      BY <1>3, WhatIsRemembered
    <2>2. ASSUME c # None
          PROVE  AdmittedByClaim(r)'
      <3>1. /\ claims[c].status = "active" /\ y \in contracts[claims[c].ver].schema
            /\ UNCHANGED <<claims, contracts>>
        BY <1>3, <2>2 DEF SubmitWork, HoldsClaim
      <3> QED
        BY <2>1, <3>1 DEF AdmittedByClaim
    <2> QED
      BY <2>1, <2>2
  <1>4. ASSUME SubmitSchema(p), r = [procs[p] EXCEPT !.pc = "tx"],
               procs[p].payload \in Contract.schema
        PROVE  r.pc = "tx" /\ r.claim = None /\ AdmittedSince(r)'
    <2>1. procs[p].pc = "schema" /\ UNCHANGED contracts
      BY <1>4 DEF SubmitSchema
    <2>2. r.pc = "tx" /\ r.ver = procs[p].ver /\ r.payload = procs[p].payload /\ r.claim = procs[p].claim
      BY <1>1, <1>4 DEF ProcType
    <2>3. procs[p].ver \in 1 .. Version /\ Version \in Nat
      BY <2>1 DEF TypeInv, TypeOK, ProcsComplete, ProcComplete, Version
    <2>4. Version \in r.ver .. Version /\ Version' = Version
      BY <2>1, <2>2, <2>3 DEF Version
    <2>5. procs[p].claim = None
      BY <2>1 DEF BoardInv
    <2> QED
      BY <1>4, <2>1, <2>2, <2>4, <2>5 DEF AdmittedSince, Contract
  <1>5. CASE r # procs[p] /\ r.pc \in {"schema", "tx"}
    <2>1. CASE \E a \in Agents, k \in Keys, y \in Payloads,
                  c \in ClaimIds \cup {None}, v \in SubIds \cup {None} :
                 SubmitWork(p, a, k, y, c, v) /\ r = Remembered(a, k, y, c, v)
      BY <1>3, <2>1
    <2>2. CASE SubmitSchema(p) /\ r = [procs[p] EXCEPT !.pc = "tx"] /\ procs[p].payload \in Contract.schema
      BY <1>4, <2>2
    <2> QED
      BY <1>5, <2>1, <2>2, RequestsComeFrom
  <1> QED
    BY <1>2, <1>5

LEMMA BoardStep ==
  TypeInv /\ BoundPrice /\ BoardInv /\ [Next]_vars => BoardInv'
  <1> SUFFICES ASSUME TypeInv, BoundPrice, BoardInv, [Next]_vars
               PROVE  BoardInv'
    OBVIOUS
  <1>1. \A c \in ClaimIds : claims'[c].status = "active" => claims'[c].agent \in Audience
    BY HoldersStep
  <1>2. ASSUME NEW p \in Procs
        PROVE  /\ procs'[p].pc = "schema" => procs'[p].claim = None
               /\ procs'[p].pc = "tx" =>
                    IF procs'[p].claim = None
                    THEN \E v \in procs'[p].ver .. Version' : procs'[p].payload \in contracts'[v].schema
                    ELSE /\ claims'[procs'[p].claim].status # "none"
                         /\ procs'[p].payload \in contracts'[claims'[procs'[p].claim].ver].schema
    <2>1. PICK r : r = procs'[p]
      OBVIOUS
    <2> QED
      BY <2>1, AdmissionStep DEF AdmittedSince, AdmittedByClaim
  <1> QED
    BY <1>1, <1>2 DEF BoardInv, AdmittedSince, AdmittedByClaim

\* task_audience.go and GetWork, for every instance: whoever holds a claim may read the task,
\* the contract it is shown has the price its claim reserved, and what it is about to hand in
\* under the claim was admitted by that contract, whatever UpdateTask publishes meanwhile.
THEOREM HoldersReadTheirTerms == Spec => []EngagedReadsItsContract
  <1>1. Init => BoardInv
    BY DEF Init, BoardInv, NoClaim, Idle
  <1>2. BoardInv /\ TypeInv /\ ClaimsKeepTheirTerms => EngagedReadsItsContract
    <2> SUFFICES ASSUME BoardInv, TypeInv, ClaimsKeepTheirTerms
                 PROVE  EngagedReadsItsContract
      OBVIOUS
    <2>1. ASSUME NEW c \in ClaimIds, claims[c].status = "active"
          PROVE  ShownContract(claims[c].agent) = contracts[claims[c].ver]
      <3>1. claims[c].agent \in Agents
        BY <2>1 DEF TypeInv, RowsComplete
      <3>2. \A d \in ClaimIds : HoldsClaim(claims[c].agent, d) <=> d = c
        BY <2>1, <3>1 DEF ClaimsKeepTheirTerms, OneActiveClaim, HoldsClaim
      <3>3. (CHOOSE d \in ClaimIds : HoldsClaim(claims[c].agent, d)) = c
        BY <3>2
      <3> QED
        BY <3>2, <3>3 DEF ShownContract, HoldsNoClaim
    <2>2. ASSUME NEW c \in ClaimIds, claims[c].status = "active"
          PROVE  VisibleTo(claims[c].agent) /\ ShownContract(claims[c].agent).price = claims[c].amount
      BY <2>1, <2>2 DEF BoardInv, VisibleTo, ClaimsKeepTheirTerms, BoundPrice
    <2>3. ASSUME NEW p \in Procs, procs[p].pc = "tx", procs[p].claim # None,
                 HoldsClaim(procs[p].agent, procs[p].claim)
          PROVE  procs[p].payload \in ShownContract(procs[p].agent).schema
      <3>1. procs[p].claim \in ClaimIds
        BY <2>3 DEF TypeInv, TypeOK, ProcType
      <3>2. claims[procs[p].claim].status = "active" /\ claims[procs[p].claim].agent = procs[p].agent
        BY <2>3 DEF HoldsClaim
      <3>3. procs[p].payload \in contracts[claims[procs[p].claim].ver].schema
        BY <2>3 DEF BoardInv, AdmittedByClaim
      <3> QED
        BY <2>1, <3>1, <3>2, <3>3
    <2> QED
      BY <2>2, <2>3 DEF EngagedReadsItsContract
  <1>3. ClaimsKeepTheirTerms => BoundPrice
    BY DEF ClaimsKeepTheirTerms
  <1> QED
    BY <1>1, <1>2, <1>3, BoardStep, ClaimsKept, TypeInvHolds, PTL DEF Spec

\* Only the publisher writes contracts.
LEMMA ContractsChange ==
  [Next]_vars => \/ UNCHANGED contracts
                 \/ \E k \in Contracts, b \in Amounts : CreateTask(k, b)
                 \/ \E k \in Contracts : UpdateTask(k)
  <1> SUFFICES ASSUME [Next]_vars,
                      ~(\E k \in Contracts, b \in Amounts : CreateTask(k, b)),
                      ~(\E k \in Contracts : UpdateTask(k))
               PROVE  UNCHANGED contracts
    OBVIOUS
  <1>1. CASE PublisherStep
    BY <1>1 DEF PublisherStep, OpenTask, PauseTask, CloseTask, PlatformCloseTask, StatusChange,
                FundTask, RefundTask
  <1>2. CASE ClaimStep
    BY <1>2 DEF ClaimStep, ClaimTask, ReclaimTask, RenewClaim, ReleaseClaim, ExpireClaim, EndClaim
  <1>3. ASSUME NEW p \in Procs, IntakeStep(p) \/ RecoveryStep(p) \/ DeliveryStep(p) \/ Crash(p)
        PROVE  UNCHANGED contracts
    BY ZenonT(60), <1>3 DEF IntakeStep, SubmitWork, SubmitSchema, SubmitTx, SubmitRefused,
                RecoveryStep, RecoverLease, RecoverSubmission, DeliveryStep, DeliverRead,
                Post, WriteDeliveryOutcome, DropDeliveryOutcome, FaultCheck, Crash
  <1>4. CASE Tick \/ UNCHANGED vars
    BY <1>4 DEF Tick, vars
  <1> QED
    BY <1>1, <1>2, <1>3, <1>4 DEF Next, Procs

\* Work in flight keeps its payload.
LEMMA PayloadKept ==
  ASSUME TypeInv, [Next]_vars, NEW s \in SubIds, subs'[s].state \in InFlight,
         \A p \in Procs : ~SubmitTx(p, s)
  PROVE  /\ subs[s].state \in InFlight
         /\ subs'[s].payload = subs[s].payload /\ subs'[s].ver = subs[s].ver
  <1> DEFINE Kept == /\ subs[s].state \in InFlight
                     /\ subs'[s].payload = subs[s].payload /\ subs'[s].ver = subs[s].ver
  <1>1. subs \in [SubIds -> SubType]
    BY DEF TypeInv, TypeOK
  <1>2. ASSUME subs'[s] = subs[s] PROVE Kept
    BY <1>2
  <1>3. ASSUME NEW p \in Procs, WriteDeliveryOutcome(p) PROVE Kept
    <2> DEFINE e == procs[p].event
               to == SubmissionTransition(subs[s].state, e)
    <2>1. /\ procs[p].pc = "write" /\ subs[procs[p].sub].state = procs[p].pre
          /\ subs' = [subs EXCEPT ![procs[p].sub] = SetSubmissionState(procs[p].sub, e)]
      BY <1>3 DEF WriteDeliveryOutcome, StillUndecided
    <2>2. CASE procs[p].sub # s
      BY <1>1, <1>2, <2>1, <2>2
    <2>3. CASE procs[p].sub = s
      <3>1. subs[s].state \in InFlight
        BY <2>1, <2>3 DEF TypeInv, ProcsComplete, ProcComplete
      <3>2. subs'[s] = SetSubmissionState(s, e)
        BY <1>1, <2>1, <2>3
      <3>3. /\ subs'[s].state = to /\ subs'[s].ver = subs[s].ver
            /\ subs'[s].payload = IF to \in Terminal THEN None ELSE subs[s].payload
        BY <1>1, <3>2 DEF SetSubmissionState, SubType
      <3>4. to \notin Terminal
        BY <3>3 DEF InFlight, Terminal
      <3> QED
        BY <3>1, <3>3, <3>4
    <2> QED
      BY <2>2, <2>3
  <1>4. ASSUME NEW p \in Procs, NEW t \in SubIds, RecoverLease(p, t) PROVE Kept
    <2>1. PICK w : subs' = [subs EXCEPT ![t].wait = w]
      BY <1>4 DEF RecoverLease
    <2> QED
      BY <1>1, <2>1 DEF SubType
  <1>5. ASSUME NEW p \in Procs, NEW t \in SubIds, SubmitTx(p, t) PROVE Kept
    <2>1. t # s
      BY <1>5
    <2> QED
      BY <1>2, <1>5, <2>1, SubmittedRow
  <1>6. CASE Tick
    <2>1. /\ subs'[s] = [subs[s] EXCEPT !.wait = Down(@), !.clock = Down(@)]
          /\ subs[s] \in SubType
      BY <1>1, <1>6 DEF Tick
    <2> QED
      BY <2>1 DEF SubType
  <1>7. CASE PublisherStep \/ ClaimStep \/ UNCHANGED vars
    BY <1>2, <1>7
       DEF PublisherStep, CreateTask, UpdateTask, OpenTask, PauseTask, CloseTask,
           PlatformCloseTask, StatusChange, FundTask, RefundTask, ClaimStep, ClaimTask,
           ReclaimTask, RenewClaim, ReleaseClaim, ExpireClaim, EndClaim, vars
  <1> HIDE DEF Kept
  <1>8. ASSUME NEW p \in Procs, IntakeStep(p) PROVE Kept
    BY ZenonT(60), <1>2, <1>5, <1>8 DEF IntakeStep, SubmitWork, SubmitSchema, SubmitRefused
  <1>9. ASSUME NEW p \in Procs, RecoveryStep(p) \/ DeliveryStep(p) \/ Crash(p)
        PROVE  Kept
    BY <1>2, <1>3, <1>4, <1>9
       DEF RecoveryStep, RecoverSubmission, DeliveryStep, DeliverRead, Post,
           DropDeliveryOutcome, FaultCheck, Crash
  <1> QED
    BY <1>6, <1>7, <1>8, <1>9 DEF Next, Procs, Kept

\* Under the task lock a payload that came through the checks is admitted by the contract it
\* is going to be bound to, because the request has read that version or because it is checked
\* again.  Or else that contract has come back since the request read it, and the payload was
\* checked by one between.
LEMMA AdmittedAtWrite ==
  ASSUME TypeInv, BoundPrice, BoardInv,
         NEW p \in Procs, NEW s \in SubIds, SubmitTx(p, s)
  PROVE  /\ \/ subs'[s].payload \in contracts[subs'[s].ver].schema
            \/ AdmittedInBetween(subs'[s].payload, subs'[s].ver)
         /\ subs'[s].ver \in 1 .. Version
  <1> DEFINE r == procs[p]
  <1>1. /\ subs \in [SubIds -> SubType] /\ r \in ProcType
        /\ r.pc = "tx" /\ r.ver \in 1 .. Version /\ Version \in Nat
    BY DEF TypeInv, TypeOK, ProcsComplete, ProcComplete, SubmitTx, Version
  <1>2. CASE r.claim = None
    <2>1. PICK c \in ClaimIds : subs' = [subs EXCEPT ![s] = NewSub(r, c, Version, Contract.price)]
      BY <1>2 DEF SubmitTx
    <2>2. subs'[s].payload = r.payload /\ subs'[s].ver = Version
      BY <1>1, <2>1 DEF NewSub
    <2>3. PICK v \in r.ver .. Version : r.payload \in contracts[v].schema
      BY <1>1, <1>2 DEF BoardInv, AdmittedSince
    <2>4. CASE contracts[r.ver] # Contract
      BY <1>1, <1>2, <2>2, <2>4 DEF SubmitTx, StillAcceptable, Contract
    <2>5. CASE contracts[r.ver] = Contract
      <3>1. r.ver \in 1 .. Version /\ Version \in 1 .. Version /\ v \in r.ver .. Version
        BY <1>1
      <3>2. CASE r.payload \in contracts[Version].schema
        BY <2>2, <3>1, <3>2
      <3>3. CASE r.payload \notin contracts[Version].schema
        <4>1. contracts[r.ver] = contracts[Version]
          BY <2>5 DEF Contract
        <4>2. v # r.ver
          BY <2>3, <3>3, <4>1
        <4>3. r.ver < v /\ v \in 1 .. Version
          BY <3>1, <4>2
        <4> QED
          BY <2>2, <2>3, <3>1, <4>1, <4>3 DEF AdmittedInBetween
      <3> QED
        BY <3>2, <3>3
    <2> QED
      BY <2>4, <2>5
  <1>3. CASE r.claim # None
    <2>1. subs' = [subs EXCEPT ![s] = NewSub(r, r.claim, claims[r.claim].ver, claims[r.claim].amount)]
      BY <1>3 DEF SubmitTx
    <2>2. subs'[s].payload = r.payload /\ subs'[s].ver = claims[r.claim].ver
      BY <1>1, <2>1 DEF NewSub
    <2>3. r.claim \in ClaimIds
      BY <1>1, <1>3 DEF ProcType
    <2> QED
      BY <1>1, <1>3, <2>2, <2>3 DEF BoardInv, AdmittedByClaim, BoundPrice
  <1> QED
    BY <1>2, <1>3

\* SubmitWork, step (h), for every instance: work in flight was admitted by the version it is
\* bound to, although the schema is read before the task is locked, or by one that stood
\* between two publications of that contract.
THEOREM WorkMatchesItsContract == Spec => []PayloadWasAdmitted
  <1> DEFINE Admitted(y, v) == y \in contracts[v].schema \/ AdmittedInBetween(y, v)
             Inv == BoardInv /\ PayloadWasAdmitted
  <1>1. Init => Inv
    BY DEF Init, BoardInv, NoClaim, NoSub, Idle, Version, PayloadWasAdmitted, InFlight
  <1>2. TypeInv /\ BoundPrice /\ Inv /\ [Next]_vars => Inv'
    <2> SUFFICES ASSUME TypeInv, BoundPrice, Inv, [Next]_vars
                 PROVE  Inv'
      OBVIOUS
    <2>1. BoardInv'
      BY BoardStep
    <2>2. ASSUME NEW y, NEW v \in 1 .. Version, Admitted(y, v)
          PROVE  Admitted(y, v)'
      <3>1. \A w \in 1 .. Version : contracts'[w] = contracts[w]
        BY StepKeepsVersions DEF VersionsStay
      <3>2. \A w \in 1 .. v : w \in 1 .. Version
        BY DEF TypeInv, TypeOK, Version
      <3>3. CASE y \in contracts[v].schema
        BY <3>1, <3>3
      <3>4. CASE AdmittedInBetween(y, v)
        <4>1. PICK u, w \in 1 .. v : u < w /\ contracts[u] = contracts[v] /\ y \in contracts[w].schema
          BY <3>4 DEF AdmittedInBetween
        <4>2. /\ contracts'[u] = contracts[u] /\ contracts'[v] = contracts[v]
              /\ contracts'[w] = contracts[w]
          BY <3>1, <3>2
        <4> QED
          BY <4>1, <4>2 DEF AdmittedInBetween
      <3> QED
        BY <2>2, <3>3, <3>4
    <2>3. ASSUME NEW s \in SubIds, subs'[s].state \in InFlight
          PROVE  Admitted(subs[s].payload, subs[s].ver)'
      <3>1. ASSUME NEW p \in Procs, SubmitTx(p, s)
            PROVE  Admitted(subs[s].payload, subs[s].ver)'
        <4>1. /\ Admitted(subs'[s].payload, subs'[s].ver)
              /\ subs'[s].ver \in 1 .. Version
          BY <3>1, AdmittedAtWrite
        <4> QED
          BY <4>1, <2>2
      <3>2. CASE \A p \in Procs : ~SubmitTx(p, s)
        <4>1. /\ subs[s].state \in InFlight
              /\ subs'[s].payload = subs[s].payload /\ subs'[s].ver = subs[s].ver
          BY <2>3, <3>2, PayloadKept
        <4>2. subs[s].ver \in 1 .. Version
          BY <4>1 DEF BoundPrice, InFlight
        <4>3. Admitted(subs[s].payload, subs[s].ver)
          BY <4>1 DEF PayloadWasAdmitted
        <4> QED
          BY <2>2, <4>1, <4>2, <4>3
      <3> QED
        BY <3>1, <3>2
    <2> QED
      BY <2>1, <2>3 DEF PayloadWasAdmitted
  <1>3. ClaimsKeepTheirTerms => BoundPrice
    BY DEF ClaimsKeepTheirTerms
  <1> QED
    BY <1>1, <1>2, <1>3, ClaimsKept, TypeInvHolds, PTL DEF Spec

\* What work_claim asks of an account that it engages, for the first time or over a claim of
\* its own that has run out: the guards of ClaimTask and of ReclaimTask, but for the new row.
MayClaim(a) ==
    /\ MayWork(a) /\ task.status = "open" /\ UnderRejectionLimit(a) /\ HasSlot
    /\ \/ HoldsNoClaim(a)
       \/ \E old \in ClaimIds : HoldsClaim(a, old) /\ claims[old].left = 0 /\ CanRelease(claims[old].amount)

\* A restricted task is offered to exactly those that may claim it.
OfferedMayClaim == Restricted => \A a \in Agents : OfferedTo(a) <=> MayClaim(a)

\* No other account claims, and whoever may claim can: the next state of the rows is written
\* out, and it is one that work_claim leads to.
LEMMA MayClaimIsEnough ==
  ASSUME NEW a \in Agents, NEW c \in ClaimIds, NextClaim(c)
  PROVE  /\ ClaimTask(a, c) \/ (\E old \in ClaimIds : ReclaimTask(a, old, c)) => MayClaim(a)
         /\ MayClaim(a) /\ HoldsNoClaim(a)
            /\ task' = [task EXCEPT !.reserved = @ + Contract.price]
            /\ claims' = [claims EXCEPT ![c] = NewClaim(a)]
            /\ UNCHANGED <<contracts, subs, balance, earned, recent, procs, verdict, crashes>>
              => ClaimTask(a, c)
         /\ \A old \in ClaimIds :
              MayClaim(a) /\ HoldsClaim(a, old) /\ claims[old].left = 0 /\ CanRelease(claims[old].amount)
              /\ task' = [task EXCEPT !.reserved = @ - claims[old].amount + Contract.price]
              /\ claims' = [claims EXCEPT ![old] = SetClaimStatus(old, "expire"), ![c] = NewClaim(a)]
              /\ UNCHANGED <<contracts, subs, balance, earned, recent, procs, verdict, crashes>>
                => ReclaimTask(a, old, c)
  BY DEF ClaimTask, ReclaimTask, MayClaim, ReserveTaskAmount, CanReserve, HasSlot

\* The board counts slots by a division.
LEMMA SlotIsLeft ==
  ASSUME NEW left \in Nat, NEW price \in Nat \ {0}
  PROVE  left \div price >= 1 <=> left >= price
  OBVIOUS

\* task_audience.go, "an opportunity is exactly work_list would list it plus named plus not
\* already taken", for every instance: an agent is offered a restricted task exactly when
\* work_claim would engage it, an expired claim of its own that no worker has swept included.
THEOREM OffersAreHonoured == Spec => []OfferedMayClaim
  <1>1. TypeInv /\ BudgetKept /\ ClaimsKeepTheirTerms /\ CreditsAddUp => OfferedMayClaim
    <2> SUFFICES ASSUME TypeInv, BudgetKept, ClaimsKeepTheirTerms, CreditsAddUp, Restricted,
                        NEW a \in Agents, task.status = "open"
                 PROVE  OfferedTo(a) <=> MayClaim(a)
      BY DEF OfferedMayClaim, OfferedTo, ListedTo, MayClaim
    <2>1. claims \in [ClaimIds -> ClaimType]
      BY DEF TypeInv, TypeOK
    <2>2. Slots >= 1 <=> HasSlot
      <3>1. Contract.price \in Nat /\ Contract.price > 0
        BY ContractInForce
      <3>2. Available \in Nat
        BY DEF TypeInv, TypeOK, TaskType, BudgetKept, EscrowSolvent, Available
      <3> QED
        BY <3>1, <3>2, SlotIsLeft DEF Slots, HasSlot
    <2>3. ListedTo(a) <=> MayWork(a) /\ UnderRejectionLimit(a) /\ HasSlot
      BY <2>2 DEF ListedTo, MayWork
    <2>4. ASSUME NEW old \in ClaimIds, HoldsClaim(a, old)
          PROVE  /\ Engaged(a) <=> claims[old].left > 0
                 /\ CanRelease(claims[old].amount) /\ claims[old].left \in Nat
      <3>1. \A c \in ClaimIds : HoldsClaim(a, c) => c = old
        BY <2>4 DEF ClaimsKeepTheirTerms, OneActiveClaim
      <3>2. CanRelease(claims[old].amount)
        BY <2>4 DEF CreditsAddUp, ReleasesCovered, HoldsClaim
      <3> QED
        BY <2>1, <2>4, <3>1, <3>2 DEF Engaged, ClaimType
    <2>5. ~Engaged(a) <=>
            \/ HoldsNoClaim(a)
            \/ \E old \in ClaimIds : HoldsClaim(a, old) /\ claims[old].left = 0 /\ CanRelease(claims[old].amount)
      <3>1. CASE HoldsNoClaim(a)
        BY <3>1 DEF HoldsNoClaim, Engaged
      <3>2. CASE ~HoldsNoClaim(a)
        <4>1. PICK old \in ClaimIds : HoldsClaim(a, old)
          BY <3>2 DEF HoldsNoClaim
        <4>2. Engaged(a) <=> claims[old].left # 0
          BY <2>4, <4>1
        <4>3. \A c \in ClaimIds : HoldsClaim(a, c) => c = old
          BY <4>1 DEF ClaimsKeepTheirTerms, OneActiveClaim
        <4> QED
          BY <2>4, <3>2, <4>1, <4>2, <4>3
      <3> QED
        BY <3>1, <3>2
    <2> QED
      BY <2>3, <2>5 DEF OfferedTo, MayClaim
  <1> QED
    BY <1>1, ClaimsKept, NoCreditLost, AuditInvHolds, PTL DEF AuditInv
=============================================================================
