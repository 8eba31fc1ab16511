------------------------------ MODULE Receipts ------------------------------
(***************************************************************************)
(* The idempotency seam of the room's write tools (runThreadAction).       *)
(*                                                                         *)
(* A call is one transaction: lock the caller's account row, see that the  *)
(* account is active, look the key up, do the work, store the facts under  *)
(* the key, commit.  It may fail at any statement, its answer may be lost  *)
(* after the commit, and its caller may repeat it under the same key, or   *)
(* use the key for another request.  Receipts are per account and tool;    *)
(* here one account calls one tool.                                        *)
(***************************************************************************)
EXTENDS Owners

CONSTANTS
    Calls,        \* calls served at once
    RequestKeys,  \* idempotency keys
    NoKey,        \* a call without one
    Bodies,       \* requests: the parameters the hash covers
    MaxWorks      \* bound on executions of a tool's work

VARIABLES
    receipts,   \* rows of thread_idempotency: key, request hash, facts
    effects,    \* committed executions: key, request, facts
    works,      \* executions begun so far; each makes facts of its own
    rowHolder,  \* the call whose transaction holds the account row
    roomCall,   \* where each call is
    answered    \* answers with facts: the call's key and request, the facts, the hash they came by

receiptVars == <<receipts, effects, works, rowHolder, roomCall, answered>>

NoCall == [step |-> "idle"]
Nobody == "nobody"
Caller == 1

ASSUME ReceiptsAssumption == NoKey \notin RequestKeys /\ Nobody \notin Calls

\* The hash of a request: JSON keeps requests apart; the delimited encoding of before
\* the upgrade joins their parts, and different requests may come to the same text.
RequestHash(body) == [encoding |-> "v2", of |-> {body}]
LegacyHash(body) == [encoding |-> "v1", of |-> Bodies]

\* Mutant: whatever is stored under the key answers the call.
SameRequestUnchecked(stored, body) == TRUE

SameRequest(stored, body) == stored \in {RequestHash(body), LegacyHash(body)}

\* FindThreadIdempotency.
Found(key) == {r \in receipts : r.key = key}

StepsTo(c, r) == roomCall' = [roomCall EXCEPT ![c] = r]

\* The transaction is over, whatever it did.
Over(c) ==
    /\ StepsTo(c, NoCall)
    /\ rowHolder' = IF rowHolder = c THEN Nobody ELSE rowHolder

Answer(c, facts, encoding) ==
    answered' = answered \cup {[key |-> roomCall[c].key, body |-> roomCall[c].body, facts |-> facts,
                                encoding |-> encoding]}

-----------------------------------------------------------------------------
Begin(c, key, body) ==
    /\ roomCall[c] = NoCall
    /\ StepsTo(c, [step |-> "begun", key |-> key, body |-> body])
    /\ UNCHANGED <<receipts, effects, works, rowHolder, answered>>

\* Mutant: the account row is not locked.
LockAccountRowMissing(c) ==
    /\ roomCall[c].step = "begun"
    /\ StepsTo(c, [roomCall[c] EXCEPT !.step = "locked"])
    /\ UNCHANGED <<receipts, effects, works, rowHolder, answered>>

\* FOR UPDATE waits for the transaction that holds the row.
LockAccountRow(c) ==
    /\ roomCall[c].step = "begun"
    /\ rowHolder = Nobody
    /\ rowHolder' = c
    /\ StepsTo(c, [roomCall[c] EXCEPT !.step = "locked"])
    /\ UNCHANGED <<receipts, effects, works, answered>>

RequireActiveAccount(c) ==
    /\ roomCall[c].step = "locked"
    /\ Active(Caller)
    /\ StepsTo(c, [roomCall[c] EXCEPT !.step = "active"])
    /\ UNCHANGED <<receipts, effects, works, rowHolder, answered>>

\* The stored facts, verbatim; another request under the key is a conflict.
Replay(c) ==
    /\ roomCall[c].step = "active"
    /\ \E r \in Found(roomCall[c].key) :
         IF SameRequest(r.hash, roomCall[c].body) THEN Answer(c, r.facts, r.hash.encoding)
                                              ELSE UNCHANGED answered
    /\ Over(c)
    /\ UNCHANGED <<receipts, effects, works>>

\* The tool's own writes, seen by nobody before the commit.
Work(c) ==
    /\ roomCall[c].step = "active"
    /\ Found(roomCall[c].key) = {}
    /\ works < MaxWorks
    /\ works' = works + 1
    /\ StepsTo(c, [step |-> "worked", key |-> roomCall[c].key, body |-> roomCall[c].body,
                   facts |-> works + 1])
    /\ UNCHANGED <<receipts, effects, rowHolder, answered>>

\* Mutant: the receipt is not part of the transaction.
StoredApart(key, body, facts) == {}

\* InsertThreadIdempotency: a call without a key leaves no receipt.
Stored(key, body, facts) ==
    IF key = NoKey THEN {} ELSE {[key |-> key, hash |-> RequestHash(body), facts |-> facts]}

\* The insert, which the primary key of the table refuses a second time, and the commit;
\* the first answer carries the raw key as well, if it arrives.
Commit(c) ==
    LET key == roomCall[c].key
        body == roomCall[c].body
        facts == roomCall[c].facts
    IN  /\ roomCall[c].step = "worked"
        /\ Found(key) = {}
        /\ effects' = effects \cup {[key |-> key, body |-> body, facts |-> facts]}
        /\ receipts' = receipts \cup Stored(key, body, facts)
        /\ Answer(c, facts, "v2") \/ UNCHANGED answered
        /\ Over(c)
        /\ UNCHANGED works

\* An inactive account, a refusal of the tool, an error, a lost server: rolled back.
CallFails(c) ==
    /\ roomCall[c] # NoCall
    /\ Over(c)
    /\ UNCHANGED <<receipts, effects, works, answered>>

\* Receipts of before the upgrade may be there already.
ReceiptsInit(registered) ==
    /\ effects \in {{}} \cup {{[key |-> key, body |-> body, facts |-> 0]} :
                                 key \in registered, body \in Bodies}
    /\ receipts = {[key |-> e.key, hash |-> LegacyHash(e.body), facts |-> e.facts] : e \in effects}
    /\ works = 0 /\ rowHolder = Nobody /\ answered = {}
    /\ roomCall = [c \in Calls |-> NoCall]

ReceiptsNext ==
    \E c \in Calls :
        \/ \E key \in RequestKeys \cup {NoKey}, body \in Bodies : Begin(c, key, body)
        \/ LockAccountRow(c) \/ RequireActiveAccount(c)
        \/ Replay(c) \/ Work(c) \/ Commit(c) \/ CallFails(c)

-----------------------------------------------------------------------------
(* Properties.                                                             *)

\* However often a request is repeated under its key, at once or after a lost answer, its
\* work takes effect once, and the key's receipt states the facts of that effect.
OneEffectPerKey ==
    \A e \in effects : e.key # NoKey => {r.facts : r \in Found(e.key)} = {e.facts}

\* Every answer states the facts of an effect of the request that was made; only a receipt
\* in the old encoding may stand for another request.
AnsweredWithOwnFacts ==
    \A a \in answered : \E e \in effects :
        e.key = a.key /\ e.facts = a.facts /\ (a.encoding = "v2" => e.body = a.body)

\* The account lock leaves no second transaction to lose the race for the receipt: the
\* recovery from a unique violation is never needed.
InsertNeverLoses == \A c \in Calls : roomCall[c].step = "worked" => Found(roomCall[c].key) = {}

\* Nothing takes effect for an account that is not active when it commits: a deactivation
\* comes before the call or after it.
OnlyActiveTakesEffect == [][effects' # effects => Active(Caller)]_receiptVars

\* A key has one effect and one answer, in the order of its account's deactivations.
RequestsTakeEffectOnce ==
    [](OneEffectPerKey /\ AnsweredWithOwnFacts /\ InsertNeverLoses) /\ OnlyActiveTakesEffect
=============================================================================
