------------------------------- MODULE Outbox -------------------------------
(***************************************************************************)
(* Notifications: content-free signals queued in the transaction of the    *)
(* facts that cause them, posted later to the account's endpoint.          *)
(*                                                                         *)
(* A pass reads a batch and each account's endpoint in one transaction,    *)
(* commits, and then posts.  The posts share what the sweeps before them   *)
(* have left of the pass's budget: once it is used up every further post   *)
(* fails at once, but each result is still written.  Deactivating an       *)
(* account deletes its queue.                                              *)
(***************************************************************************)
EXTENDS Naturals, Sequences, FiniteSets, SequencesExt

CONSTANTS
    Recipients,    \* accounts
    Dispatchers,   \* processes that run passes
    BatchSize,     \* rows of a pass, 50 in the code
    MaxAttempts,   \* attempts < 5
    SlowPosts,     \* posts that time out before the budget of 25 s is used up
    MaxSignals,    \* bound on signals queued
    MaxFaults      \* bound on what becomes of endpoints and on crashes, together

ASSUME OutboxAssumption ==
    /\ {BatchSize, MaxAttempts} \subseteq Nat \ {0}
    /\ {SlowPosts, MaxSignals, MaxFaults} \subseteq Nat

VARIABLES
    outbox,     \* notify_outbox, by id: account, attempts and how the row ended, if it did
    endpoint,   \* account_notify, and whether the endpoint answers 2xx
    pass,       \* each dispatcher's targets still to post, the answer to the first of them,
                \* and the budget left
    received,   \* signals an endpoint has answered with 2xx
    faults      \* changes of endpoints and crashes so far

outboxVars == <<outbox, endpoint, pass, received, faults>>

NoPass == [targets |-> <<>>, answer |-> "none", budget |-> 0]

\* Unsent and not given up.
Queued(i) == outbox[i].end = "none" /\ outbox[i].attempts < MaxAttempts

\* enqueueNotify and RecoverAssigns, with the facts; the account's status is not looked at.
InsertNotifyOutbox(a) ==
    /\ Len(outbox) < MaxSignals
    /\ outbox' = Append(outbox, [account |-> a, attempts |-> 0, end |-> "none"])
    /\ UNCHANGED <<endpoint, pass, received, faults>>

EndpointBecomes(a, what) ==
    /\ faults < MaxFaults
    /\ faults' = faults + 1
    /\ endpoint' = [endpoint EXCEPT ![a] = what]
    /\ UNCHANGED <<outbox, pass, received>>

\* NotifyRegister, once the endpoint has echoed the challenge.
NotifyRegister(a) == endpoint[a] # "up" /\ EndpointBecomes(a, "up")

NotifyDelete(a) == endpoint[a] # "none" /\ EndpointBecomes(a, "none")

\* A registered endpoint refuses, or it hangs.
EndpointFails(a) ==
    endpoint[a] = "up" /\ \E how \in {"down", "hung"} : EndpointBecomes(a, how)

\* TerminateAccountThreadMemberships: the queue dies with the obligations; the endpoint stays.
DropQueue(a) ==
    /\ outbox' = [i \in DOMAIN outbox |->
                    IF outbox[i].account = a /\ outbox[i].end = "none"
                    THEN [outbox[i] EXCEPT !.end = "deleted"] ELSE outbox[i]]
    /\ UNCHANGED <<endpoint, pass, received, faults>>

\* ListUnsentOutbox: the oldest rows first.
Batch ==
    LET listed == {i \in DOMAIN outbox : Queued(i)}
    IN  {i \in listed : Cardinality({j \in listed : j < i}) < BatchSize}

\* In the order of the list.
InOrder(rows) == SetToSortSeq(rows, <)

\* The transaction of a pass: rows without an endpoint are done, the others posted next.
DispatchNotifyOutbox(d) ==
    LET posts == {i \in Batch : endpoint[outbox[i].account] # "none"}
    IN  /\ pass[d] = NoPass
        /\ Batch # {}
        /\ outbox' = [i \in DOMAIN outbox |->
                        IF i \in Batch \ posts THEN [outbox[i] EXCEPT !.end = "unwanted"] ELSE outbox[i]]
        /\ \E left \in 0 .. SlowPosts :
             pass' = [pass EXCEPT ![d] = IF posts = {} THEN NoPass ELSE
                        [targets |-> InOrder(posts), answer |-> "none", budget |-> left]]
        /\ UNCHANGED <<endpoint, received, faults>>

\* What a post to the URL of the batch may come to; the endpoint may be another by now.
PostResults(i) ==
    [up |-> {"2xx"}, down |-> {"failed"}, hung |-> {"slow"}, none |-> {"2xx", "failed"}]
        [endpoint[outbox[i].account]]

Post(d) ==
    LET i == Head(pass[d].targets)
    IN  /\ pass[d].targets # <<>> /\ pass[d].answer = "none"
        /\ \E answer \in IF pass[d].budget = 0 THEN {"skipped"} ELSE PostResults(i) :
             /\ pass' = [pass EXCEPT ![d].answer = answer,
                                     ![d].budget = IF answer = "slow" THEN @ - 1 ELSE @]
             /\ received' = IF answer = "2xx" THEN received \cup {i} ELSE received
        /\ UNCHANGED <<outbox, endpoint, faults>>

\* Mutant: the row is marked sent whatever the endpoint answered.
SentAnyway(answer) == TRUE

Sent(answer) == answer = "2xx"

\* Mutant: only a post that reached somebody counts as an attempt.
AfterUncounted(attempts) == attempts

After(attempts) == attempts + 1

\* MarkOutboxSent: by id, under no budget; a deleted row has nothing to mark.
MarkOutboxSent(d) ==
    LET i == Head(pass[d].targets)
        rest == Tail(pass[d].targets)
    IN  /\ pass[d].answer # "none"
        /\ outbox' = IF outbox[i].end = "deleted" THEN outbox
                     ELSE IF Sent(pass[d].answer) THEN [outbox EXCEPT ![i].end = "posted"]
                     ELSE [outbox EXCEPT ![i].attempts = After(@)]
        /\ pass' = [pass EXCEPT ![d] = IF rest = <<>> THEN NoPass
                       ELSE [@ EXCEPT !.targets = rest, !.answer = "none"]]
        /\ UNCHANGED <<endpoint, received, faults>>

\* The process dies in the middle of a pass.
PassLost(d) ==
    /\ pass[d] # NoPass /\ faults < MaxFaults
    /\ pass' = [pass EXCEPT ![d] = NoPass]
    /\ faults' = faults + 1
    /\ UNCHANGED <<outbox, endpoint, received>>

-----------------------------------------------------------------------------
OutboxInit ==
    /\ outbox = <<>> /\ received = {} /\ faults = 0
    /\ endpoint = [a \in Recipients |-> "up"]
    /\ pass = [d \in Dispatchers |-> NoPass]

PassStep(d) == DispatchNotifyOutbox(d) \/ Post(d) \/ MarkOutboxSent(d)

OutboxNext ==
    \/ \E a \in Recipients :
        \/ InsertNotifyOutbox(a)
        \/ NotifyRegister(a) \/ NotifyDelete(a) \/ EndpointFails(a)
    \/ \E d \in Dispatchers : PassStep(d) \/ PassLost(d)

\* The ticker of the recovery worker starts a pass every 30 seconds; a pass ends, because
\* every post of it has a time limit.
OutboxFairness == \A d \in Dispatchers : WF_outboxVars(PassStep(d))

-----------------------------------------------------------------------------
(* Properties.                                                             *)

\* A row is closed as posted only if an endpoint has answered 2xx to it, whichever of the
\* passes that hold it writes last (notify.go, mark sent or count the attempt).
PostedWasReceived == \A i \in DOMAIN outbox : outbox[i].end = "posted" => i \in received

\* Every signal leaves the queue, whatever endpoints before it in the queue refuse or hang,
\* whoever is deactivated and however passes are lost: no row is starved.
SignalsLeaveTheQueue ==
    \A i \in 1 .. MaxSignals :
        (i \in DOMAIN outbox /\ Queued(i)) ~> (i \in DOMAIN outbox /\ ~Queued(i))

\* Every signal leaves the queue, and as posted only if somebody received it.
SignalsAreDelivered == []PostedWasReceived /\ SignalsLeaveTheQueue
=============================================================================
