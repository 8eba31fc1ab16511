------------------------------- MODULE Harness -------------------------------
(***************************************************************************)
(* The input of a task: memories of its publisher that the contract names. *)
(* A claim binds the contract and pins the version each named memory has   *)
(* when it is formed; whoever browses reads the present one.  The task row *)
(* is locked while a claim is formed, the memories are not.                *)
(***************************************************************************)
EXTENDS Memories

CONSTANTS
    TaskPublisher,   \* the account that publishes the task
    MaxEngagements   \* bound on claims formed

VARIABLES
    named,        \* memories the current contract names
    engagements   \* tb_task_claim and claim_harness_revisions, in order

harnessVars == <<memoryVars, named, engagements>>

Engaged(a, i) == engagements[i].agent = a /\ engagements[i].active

\* The engagement's rows of claim_harness_revisions for a memory.
PinsOf(i, k) == {x \in engagements[i].pins : x[1] = k}

TaskLocked == \E q \in MemoryRequests : memoryRequest[q].step = "claim"

\* task_create and task_update: every reference is an active memory of the publisher.
NameMemories(refs) ==
    /\ ~TaskLocked
    /\ refs # named /\ \A k \in refs : Owns(TaskPublisher, k)
    /\ named' = refs
    /\ UNCHANGED <<memory, archive, pins, inRoom, memoryRequest, written, engagements>>

\* resolveHarnessRefs, in the claim's transaction: a withdrawn memory pins nothing.
ClaimRead(q, a) ==
    /\ Starts(q, a) /\ a # TaskPublisher
    /\ ~TaskLocked
    /\ Len(engagements) < MaxEngagements
    /\ ~\E i \in DOMAIN engagements : Engaged(a, i)
    /\ Becomes(q, [step |-> "claim", agent |-> a,
                   pins |-> {<<k, memory[k].revision>> : k \in {k \in named : Owns(TaskPublisher, k)}}])
    /\ UNCHANGED <<memory, archive, pins, inRoom, written, named, engagements>>

ClaimCommit(q) ==
    LET r == memoryRequest[q]
    IN  /\ r.step = "claim"
        /\ engagements' = Append(engagements,
              [agent |-> r.agent, active |-> TRUE, refs |-> named, pins |-> r.pins])
        /\ Ends(q)
        /\ UNCHANGED <<memory, archive, pins, inRoom, written, named>>

EngagementEnds(i) ==
    /\ engagements[i].active
    /\ engagements' = [engagements EXCEPT ![i].active = FALSE]
    /\ UNCHANGED <<memory, archive, pins, inRoom, memoryRequest, written, named>>

\* GetHarness: the caller's claim, and the contract it bound or else the current one.
GetHarness(q, a, k) ==
    LET is == {i \in DOMAIN engagements : Engaged(a, i)}
    IN  /\ Starts(q, a)
        /\ \/ \E i \in is : /\ k \in engagements[i].refs
                            /\ Continues(q, [step |-> "harness", agent |-> a, code |-> k, under |-> i])
           \/ /\ is = {} /\ k \in named
              /\ Continues(q, [step |-> "harness", agent |-> a, code |-> k, under |-> 0])
        /\ UNCHANGED <<memory, archive, pins, inRoom, written, named, engagements>>

\* Mutant: an active memory is served as it is now.
ServePresent(q, r, rev) ==
    IF IsActive(r.code) THEN Answers(q, r.agent, "pinned", r.code, memory[r.code].revision, memory[r.code].content)
    ELSE Continues(q, [step |-> "archive", agent |-> r.agent, how |-> "pinned", code |-> r.code,
                       revision |-> rev, present |-> TRUE, under |-> r.under])

\* The pinned version, in the row or to be read from the archive next.
ServePinned(q, r, rev) ==
    IF rev = memory[r.code].revision
    THEN Answers(q, r.agent, "pinned", r.code, rev, memory[r.code].content)
    ELSE Continues(q, [step |-> "archive", agent |-> r.agent, how |-> "pinned", code |-> r.code,
                       revision |-> rev, present |-> TRUE, under |-> r.under])

\* FindKungfuByCodeAnyStatus and ClaimHarnessRevision.
HarnessRow(q) ==
    LET r == memoryRequest[q]
        own == IF r.under = 0 THEN {} ELSE PinsOf(r.under, r.code)
    IN  /\ r.step = "harness"
        /\ \/ \E x \in own : ServePinned(q, r, x[2])
           \/ own = {} /\ Continues(q, [r EXCEPT !.step = "live"])
        /\ UNCHANGED <<memory, archive, pins, inRoom, written, named, engagements>>

\* Without a pin: the memory as it is, if the publisher has not withdrawn it.
LiveRead(q) ==
    LET r == memoryRequest[q]
    IN  /\ r.step = "live"
        /\ IF Owns(TaskPublisher, r.code)
           THEN Answers(q, r.agent, "live", r.code, memory[r.code].revision, memory[r.code].content)
           ELSE Ends(q) /\ answer' = NoAnswer
        /\ UNCHANGED <<memory, archive, pins, inRoom, written, named, engagements>>

HarnessInit == named = {} /\ engagements = <<>>

HarnessNext ==
    /\ \/ /\ \/ MemoryWrites /\ UNCHANGED <<named, engagements>>
             \/ \E refs \in SUBSET MemoryCodes : NameMemories(refs)
             \/ \E q \in MemoryRequests : (\E a \in Bots : ClaimRead(q, a)) \/ ClaimCommit(q)
             \/ \E i \in DOMAIN engagements : EngagementEnds(i)
          /\ answer' = NoAnswer
       \/ MemoryReads /\ UNCHANGED <<named, engagements>>
       \/ \E q \in MemoryRequests :
             (\E a \in Bots, k \in MemoryCodes : GetHarness(q, a, k)) \/ HarnessRow(q) \/ LiveRead(q)
    /\ Remember

-----------------------------------------------------------------------------
(* Properties.                                                             *)

\* A claim pins versions there were, of memories its contract names, and a read under it
\* gives the pinned one, whatever the publisher updates, withdraws or stops naming before
\* the claim's commit, during the read or after (task_work.go: "the ref is served at the
\* revision the claim PINNED, even after the publisher updates or withdraws the memory").
EngagedReadsPinned ==
    [][\A q \in MemoryRequests :
         LET r == memoryRequest[q]
         IN  /\ r.step \in {"harness", "live", "archive"} /\ "under" \in DOMAIN r /\ r.under # 0
             /\ memoryRequest'[q] = NoMemoryRequest /\ answer' # NoAnswer
             => /\ answer'.how # "missing"
                /\ \A x \in PinsOf(r.under, r.code) :
                     answer'.revision = x[2] /\ answer'.content = written[x]]_harnessVars
=============================================================================
