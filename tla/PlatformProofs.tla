--------------------------- MODULE PlatformProofs ---------------------------
(***************************************************************************)
(* Accounts, memories, the input of tasks, receipts, reports and the rate  *)
(* limiter, for any number of accounts, memories, requests, administrators *)
(* and callers.                                                            *)
(*                                                                         *)
(* Receipts rest on the account row's lock.  The others lock little or     *)
(* nothing between what they read and what they write, and rest on facts   *)
(* that no step undoes: salts and keys are drawn once, versions are kept   *)
(* as written, what was shown stays shown, a report is decided once.       *)
(***************************************************************************)
EXTENDS Platform, SequenceTheorems, FiniteSetTheorems, WellFoundedInduction, TLAPS

-----------------------------------------------------------------------------
(***************************************************************************)
(* RECEIPTS.  Of the calls past the account row's lock there is at most    *)
(* one, so what that call has seen of the account and of the key still     *)
(* holds when it commits.                                                  *)
(***************************************************************************)

\* The steps in which a call's transaction holds the account row.
Serving == {"locked", "active", "worked"}

CallType ==
    {NoCall}
    \cup [step : {"begun", "locked", "active"}, key : RequestKeys \cup {NoKey}, body : Bodies]
    \cup [step : {"worked"}, key : RequestKeys \cup {NoKey}, body : Bodies, facts : Nat]

CallsTyped == works \in Nat /\ roomCall \in [Calls -> CallType]

\* A call that is past the lock is the one that holds the row.
ServingHolds == \A c \in Calls : roomCall[c].step \in Serving => rowHolder = c

\* What the holder has seen of the account is still so.
AdmittedIsActive ==
    \A c \in Calls : roomCall[c].step \in {"active", "worked"} => Active(Caller)

\* Calls are served in the behaviours that exercise the receipts, in no other.
ServedInFocus == focus # "receipts" => \A c \in Calls : roomCall[c] = NoCall

\* A receipt states the key, the facts and the request of an effect.
ReceiptsHaveEffects ==
    \A r \in receipts : \E e \in effects :
        /\ e.key = r.key /\ e.facts = r.facts
        /\ r.hash \in {RequestHash(e.body), LegacyHash(e.body)}

ReceiptInv ==
    /\ CallsTyped /\ ServingHolds /\ AdmittedIsActive /\ ServedInFocus
    /\ ReceiptsHaveEffects
    /\ OneEffectPerKey /\ AnsweredWithOwnFacts /\ InsertNeverLoses

-----------------------------------------------------------------------------
(* One call.                                                               *)

\* A call has the fields of its step.
LEMMA CallFields ==
  ASSUME CallsTyped, NEW c \in Calls
  PROVE  /\ roomCall[c] \in CallType
         /\ roomCall[c].step \in {"idle", "begun"} \cup Serving
         /\ roomCall[c].step = "idle" <=> roomCall[c] = NoCall
         /\ roomCall[c].step # "idle" =>
              roomCall[c].key \in RequestKeys \cup {NoKey} /\ roomCall[c].body \in Bodies
         /\ roomCall[c].step = "worked" => roomCall[c].facts \in Nat
  BY DEF CallsTyped, CallType, NoCall, Serving

\* Of the calls past the lock there is at most one.
LEMMA OneIsServed ==
  ASSUME ServingHolds, NEW c \in Calls, NEW d \in Calls,
         roomCall[c].step \in Serving, roomCall[d].step \in Serving
  PROVE  c = d
  BY DEF ServingHolds

\* While a call is past the lock the row is held.
LEMMA HeldWhileServed ==
  ASSUME ServingHolds, rowHolder = Nobody, NEW c \in Calls
  PROVE  roomCall[c].step \notin Serving
  BY ReceiptsAssumption DEF ServingHolds

\* A call that ends leaves the others as they were, and holds nothing itself.
LEMMA OverKeeps ==
  ASSUME CallsTyped, ServingHolds, NEW c \in Calls, Over(c)
  PROVE  /\ roomCall' \in [Calls -> CallType]
         /\ \A d \in Calls : roomCall'[d] = NoCall \/ (d # c /\ roomCall'[d] = roomCall[d])
         /\ ServingHolds'
  <1>1. roomCall' = [roomCall EXCEPT ![c] = NoCall]
    BY DEF Over, StepsTo
  <1>2. NoCall \in CallType
    BY DEF CallType
  <1>3. roomCall' \in [Calls -> CallType]
    BY <1>1, <1>2 DEF CallsTyped
  <1>4. \A d \in Calls : roomCall'[d] = NoCall \/ (d # c /\ roomCall'[d] = roomCall[d])
    BY <1>1 DEF CallsTyped
  <1>5. ASSUME NEW d \in Calls, roomCall'[d].step \in Serving PROVE rowHolder' = d
    <2>1. d # c /\ roomCall'[d] = roomCall[d]
      BY <1>4, <1>5 DEF NoCall, Serving
    <2>2. rowHolder = d
      BY <1>5, <2>1 DEF ServingHolds
    <2> QED
      BY <2>1, <2>2 DEF Over
  <1> QED
    BY <1>3, <1>4, <1>5 DEF ServingHolds

-----------------------------------------------------------------------------
(* The steps of a call.                                                    *)

\* What the receipts and the answers say depends on nothing else.
LEMMA RecordsKept ==
  ASSUME ReceiptInv, UNCHANGED <<receipts, effects, answered>>
  PROVE  ReceiptsHaveEffects' /\ OneEffectPerKey' /\ AnsweredWithOwnFacts'
  BY DEF ReceiptInv, ReceiptsHaveEffects, OneEffectPerKey, AnsweredWithOwnFacts, Found

\* Begin, the lock and the account's check move one call and write nothing.
LEMMA BeginKeeps ==
  ASSUME ReceiptInv, focus = "receipts", UNCHANGED <<ownerVars, focus>>,
         NEW c \in Calls, NEW key \in RequestKeys \cup {NoKey}, NEW body \in Bodies,
         Begin(c, key, body)
  PROVE  ReceiptInv'
  <1>1. PICK r \in CallType : r.step = "begun" /\ roomCall' = [roomCall EXCEPT ![c] = r]
    <2>1. [step |-> "begun", key |-> key, body |-> body] \in CallType
      BY DEF CallType
    <2> QED
      BY <2>1 DEF Begin, StepsTo
  <1>2. CallsTyped'
    BY <1>1 DEF ReceiptInv, CallsTyped, Begin
  <1>3. \A d \in Calls : roomCall'[d].step = "begun" \/ roomCall'[d] = roomCall[d]
    BY <1>1 DEF ReceiptInv, CallsTyped
  <1>4. ServingHolds'
    BY <1>3 DEF ReceiptInv, ServingHolds, Serving, Begin
  <1>5. AdmittedIsActive'
    BY <1>3 DEF ReceiptInv, AdmittedIsActive, ownerVars, Active, Bots
  <1>6. InsertNeverLoses'
    BY <1>3 DEF ReceiptInv, InsertNeverLoses, Found, Begin
  <1> QED
    BY <1>2, <1>4, <1>5, <1>6, RecordsKept DEF ReceiptInv, ServedInFocus, Begin

\* The lock is granted when nobody is past it.
LEMMA LockKeeps ==
  ASSUME ReceiptInv, focus = "receipts", UNCHANGED <<ownerVars, focus>>,
         NEW c \in Calls, LockAccountRow(c)
  PROVE  ReceiptInv'
  <1>1. PICK r \in CallType : r.step = "locked" /\ roomCall' = [roomCall EXCEPT ![c] = r]
    <2>1. [roomCall[c] EXCEPT !.step = "locked"] \in CallType
      BY CallFields DEF ReceiptInv, LockAccountRow, CallType, NoCall
    <2>2. [roomCall[c] EXCEPT !.step = "locked"].step = "locked"
      BY CallFields DEF ReceiptInv, LockAccountRow, CallType, NoCall
    <2> QED
      BY <2>1, <2>2 DEF LockAccountRow, StepsTo
  <1>2. CallsTyped'
    BY <1>1 DEF ReceiptInv, CallsTyped, LockAccountRow
  <1>3. /\ roomCall'[c].step = "locked"
        /\ \A d \in Calls : d # c => roomCall'[d] = roomCall[d]
    BY <1>1 DEF ReceiptInv, CallsTyped
  <1>4. \A d \in Calls : roomCall[d].step \notin Serving
    BY HeldWhileServed DEF ReceiptInv, LockAccountRow
  <1>5. ServingHolds'
    BY <1>3, <1>4 DEF ServingHolds, LockAccountRow
  <1>6. AdmittedIsActive'
    BY <1>3, <1>4 DEF AdmittedIsActive, Serving
  <1>7. InsertNeverLoses'
    BY <1>3, <1>4 DEF InsertNeverLoses, Serving
  <1> QED
    BY <1>2, <1>5, <1>6, <1>7, RecordsKept DEF ReceiptInv, ServedInFocus, LockAccountRow

\* The account is seen to be active under the lock.
LEMMA RequireActiveKeeps ==
  ASSUME ReceiptInv, focus = "receipts", UNCHANGED <<ownerVars, focus>>,
         NEW c \in Calls, RequireActiveAccount(c)
  PROVE  ReceiptInv'
  <1>1. PICK r \in CallType : r.step = "active" /\ roomCall' = [roomCall EXCEPT ![c] = r]
    <2>1. [roomCall[c] EXCEPT !.step = "active"] \in CallType
      BY CallFields DEF ReceiptInv, RequireActiveAccount, CallType, NoCall
    <2>2. [roomCall[c] EXCEPT !.step = "active"].step = "active"
      BY CallFields DEF ReceiptInv, RequireActiveAccount, CallType, NoCall
    <2> QED
      BY <2>1, <2>2 DEF RequireActiveAccount, StepsTo
  <1>2. CallsTyped'
    BY <1>1 DEF ReceiptInv, CallsTyped, RequireActiveAccount
  <1>3. /\ roomCall'[c].step = "active"
        /\ \A d \in Calls : d # c => roomCall'[d] = roomCall[d]
    BY <1>1 DEF ReceiptInv, CallsTyped
  <1>4. rowHolder = c
    BY DEF ReceiptInv, ServingHolds, Serving, RequireActiveAccount
  <1>5. ServingHolds'
    BY <1>3, <1>4 DEF ReceiptInv, ServingHolds, RequireActiveAccount
  <1>6. AdmittedIsActive'
    BY <1>3 DEF ReceiptInv, AdmittedIsActive, ownerVars, Active, Bots, RequireActiveAccount
  <1>7. InsertNeverLoses'
    BY <1>3 DEF ReceiptInv, InsertNeverLoses, Found, RequireActiveAccount
  <1> QED
    BY <1>2, <1>5, <1>6, <1>7, RecordsKept DEF ReceiptInv, ServedInFocus, RequireActiveAccount

\* A call ends without an effect: the others are where they were.
LEMMA EndKeeps ==
  ASSUME ReceiptInv, focus = "receipts", UNCHANGED <<ownerVars, focus>>,
         NEW c \in Calls, Over(c), UNCHANGED <<receipts, works>>
  PROVE  CallsTyped' /\ ServingHolds' /\ AdmittedIsActive' /\ ServedInFocus' /\ InsertNeverLoses'
  <1>1. /\ roomCall' \in [Calls -> CallType] /\ ServingHolds'
        /\ \A d \in Calls : roomCall'[d] = NoCall \/ roomCall'[d] = roomCall[d]
    BY OverKeeps DEF ReceiptInv
  <1>2. AdmittedIsActive'
    BY <1>1 DEF ReceiptInv, AdmittedIsActive, ownerVars, Active, Bots, NoCall
  <1>3. InsertNeverLoses'
    BY <1>1 DEF ReceiptInv, InsertNeverLoses, Found, NoCall
  <1> QED
    BY <1>1, <1>2, <1>3 DEF ReceiptInv, CallsTyped, ServedInFocus

LEMMA CallFailsKeeps ==
  ASSUME ReceiptInv, focus = "receipts", UNCHANGED <<ownerVars, focus>>,
         NEW c \in Calls, CallFails(c)
  PROVE  ReceiptInv'
  BY EndKeeps, RecordsKept DEF ReceiptInv, CallFails

\* A replay answers with a stored receipt, and a stored receipt states an effect's facts.
LEMMA ReplayKeeps ==
  ASSUME ReceiptInv, focus = "receipts", UNCHANGED <<ownerVars, focus>>,
         NEW c \in Calls, Replay(c)
  PROVE  ReceiptInv'
  <1>1. ReceiptsHaveEffects' /\ OneEffectPerKey'
    BY DEF ReceiptInv, Replay, ReceiptsHaveEffects, OneEffectPerKey, Found
  <1>2. PICK r \in Found(roomCall[c].key) :
          IF SameRequest(r.hash, roomCall[c].body) THEN Answer(c, r.facts, r.hash.encoding)
                                               ELSE UNCHANGED answered
    BY DEF Replay
  <1>3. PICK e \in effects : /\ e.key = r.key /\ e.facts = r.facts
                             /\ r.hash \in {RequestHash(e.body), LegacyHash(e.body)}
    BY DEF ReceiptInv, ReceiptsHaveEffects, Found
  <1>4. r.key = roomCall[c].key
    BY DEF Found
  <1>5. ASSUME SameRequest(r.hash, roomCall[c].body) PROVE AnsweredWithOwnFacts'
    <2> DEFINE a == [key |-> roomCall[c].key, body |-> roomCall[c].body, facts |-> r.facts,
                     encoding |-> r.hash.encoding]
    <2>1. answered' = answered \cup {a} /\ effects' = effects
      BY <1>2, <1>5 DEF Answer, Replay
    <2>2. a.encoding = "v2" => e.body = a.body
      <3>1. SUFFICES ASSUME r.hash.encoding = "v2" PROVE e.body = roomCall[c].body
        OBVIOUS
      <3>2. r.hash = RequestHash(e.body)
        BY <1>3, <3>1 DEF LegacyHash
      <3>3. r.hash = RequestHash(roomCall[c].body)
        BY <1>5, <3>1 DEF SameRequest, LegacyHash
      <3>4. {e.body} = {roomCall[c].body}
        BY <3>2, <3>3 DEF RequestHash
      <3> QED
        BY <3>4
    <2>3. e.key = a.key /\ e.facts = a.facts
      BY <1>3, <1>4
    <2> QED
      BY <2>1, <2>2, <2>3 DEF ReceiptInv, AnsweredWithOwnFacts
  <1>6. AnsweredWithOwnFacts'
    <2>1. CASE SameRequest(r.hash, roomCall[c].body)
      BY <1>5, <2>1
    <2>2. CASE ~SameRequest(r.hash, roomCall[c].body)
      BY <1>2, <2>2 DEF Replay, ReceiptInv, AnsweredWithOwnFacts
    <2> QED
      BY <2>1, <2>2
  <1> QED
    BY <1>1, <1>6, EndKeeps DEF ReceiptInv, Replay

\* The work is done for a key without a receipt.
LEMMA WorkKeeps ==
  ASSUME ReceiptInv, focus = "receipts", UNCHANGED <<ownerVars, focus>>,
         NEW c \in Calls, Work(c)
  PROVE  ReceiptInv'
  <1> DEFINE r == [step |-> "worked", key |-> roomCall[c].key, body |-> roomCall[c].body,
                   facts |-> works + 1]
  <1>1. r \in CallType /\ works' \in Nat
    BY CallFields DEF ReceiptInv, CallsTyped, Work, CallType
  <1>2. roomCall' = [roomCall EXCEPT ![c] = r]
    BY DEF Work, StepsTo
  <1>3. CallsTyped'
    BY <1>1, <1>2 DEF ReceiptInv, CallsTyped
  <1>4. roomCall'[c] = r /\ \A d \in Calls : d # c => roomCall'[d] = roomCall[d]
    BY <1>2 DEF ReceiptInv, CallsTyped
  <1>5. rowHolder = c /\ Active(Caller)
    BY DEF ReceiptInv, ServingHolds, Serving, AdmittedIsActive, Work
  <1>6. ServingHolds'
    BY <1>4, <1>5 DEF ReceiptInv, ServingHolds, Work
  <1>7. AdmittedIsActive'
    BY <1>4, <1>5 DEF ReceiptInv, AdmittedIsActive, ownerVars, Active, Bots
  <1>8. InsertNeverLoses'
    BY <1>4 DEF ReceiptInv, InsertNeverLoses, Found, Work
  <1> QED
    BY <1>3, <1>6, <1>7, <1>8, RecordsKept DEF ReceiptInv, ServedInFocus, Work

-----------------------------------------------------------------------------
(* The commit.                                                             *)

\* Without a receipt under the key there is no effect under it either.
LEMMA NewKey ==
  ASSUME OneEffectPerKey, NEW key, key # NoKey, Found(key) = {}, NEW e \in effects
  PROVE  e.key # key
  BY DEF OneEffectPerKey

LEMMA CommitKeeps ==
  ASSUME ReceiptInv, focus = "receipts", UNCHANGED <<ownerVars, focus>>,
         NEW c \in Calls, Commit(c)
  PROVE  ReceiptInv'
  <1> DEFINE key == roomCall[c].key
             body == roomCall[c].body
             facts == roomCall[c].facts
             new == [key |-> key, body |-> body, facts |-> facts]
             row == [key |-> key, hash |-> RequestHash(body), facts |-> facts]
  <1>1. /\ roomCall[c].step = "worked" /\ Found(key) = {} /\ works' = works
        /\ effects' = effects \cup {new} /\ receipts' = receipts \cup Stored(key, body, facts)
        /\ Answer(c, facts, "v2") \/ UNCHANGED answered
        /\ Over(c)
    BY DEF Commit
  <1>2. receipts' = IF key = NoKey THEN receipts ELSE receipts \cup {row}
    BY <1>1 DEF Stored
  <1> HIDE DEF row, new
  <1>3. row.key = key /\ row.facts = facts /\ row.hash = RequestHash(body)
    BY DEF row
  <1>4. new.key = key /\ new.facts = facts /\ new.body = body
    BY DEF new
  <1>5. ReceiptsHaveEffects'
    BY <1>1, <1>2, <1>3, <1>4 DEF ReceiptInv, ReceiptsHaveEffects
  <1>6. OneEffectPerKey'
    <2>1. SUFFICES ASSUME NEW e \in effects', e.key # NoKey
                   PROVE  {r.facts : r \in Found(e.key)'} = {e.facts}
      BY DEF OneEffectPerKey, Found
    <2>2. CASE key = NoKey
      BY <1>1, <1>2, <1>4, <2>1, <2>2 DEF ReceiptInv, OneEffectPerKey, Found
    <2>3. CASE key # NoKey /\ e.key = key
      <3>1. e = new
        BY <1>1, <2>1, <2>3, NewKey DEF ReceiptInv
      <3>2. Found(e.key)' = {row}
        BY <1>1, <1>2, <1>3, <2>3 DEF Found
      <3> QED
        BY <1>3, <1>4, <2>3, <3>1, <3>2 DEF Found
    <2>4. CASE key # NoKey /\ e.key # key
      <3>1. e \in effects
        BY <1>1, <1>4, <2>1, <2>4
      <3>2. Found(e.key)' = Found(e.key)
        BY <1>2, <1>3, <2>4 DEF Found
      <3> QED
        BY <2>1, <3>1, <3>2 DEF ReceiptInv, OneEffectPerKey
    <2> QED
      BY <2>2, <2>3, <2>4
  <1>7. AnsweredWithOwnFacts'
    <2> DEFINE a == [key |-> key, body |-> body, facts |-> facts, encoding |-> "v2"]
    <2>1. answered' \subseteq answered \cup {a}
      BY <1>1 DEF Answer
    <2>2. a.key = new.key /\ a.facts = new.facts /\ a.body = new.body
      BY <1>4
    <2> QED
      BY <1>1, <2>1, <2>2 DEF ReceiptInv, AnsweredWithOwnFacts
  <1>8. /\ roomCall' \in [Calls -> CallType] /\ ServingHolds'
        /\ \A d \in Calls : roomCall'[d] = NoCall \/ (d # c /\ roomCall'[d] = roomCall[d])
    BY <1>1, OverKeeps DEF ReceiptInv
  <1>9. AdmittedIsActive'
    BY <1>8 DEF ReceiptInv, AdmittedIsActive, ownerVars, Active, Bots, NoCall
  <1>10. ASSUME NEW d \in Calls, roomCall'[d].step = "worked" PROVE FALSE
    <2>1. d # c /\ roomCall[d].step = "worked"
      BY <1>8, <1>10 DEF NoCall
    <2> QED
      BY <1>1, <2>1, OneIsServed DEF ReceiptInv, Serving
  <1>11. InsertNeverLoses'
    BY <1>10 DEF InsertNeverLoses
  <1> QED
    BY <1>1, <1>5, <1>6, <1>7, <1>8, <1>9, <1>11 DEF ReceiptInv, CallsTyped, ServedInFocus

-----------------------------------------------------------------------------
(* The steps of the system.                                                *)

\* An administrator changes the account when no call is past the lock.
LEMMA SetStatusKeeps ==
  ASSUME ReceiptInv, focus = "receipts", UNCHANGED <<receiptVars, focus>>, rowHolder = Nobody
  PROVE  ReceiptInv'
  <1>1. \A c \in Calls : roomCall[c].step \notin Serving
    BY HeldWhileServed DEF ReceiptInv
  <1>2. AdmittedIsActive'
    BY <1>1 DEF AdmittedIsActive, Serving, receiptVars
  <1> QED
    BY <1>2, RecordsKept
    DEF ReceiptInv, receiptVars, CallsTyped, ServingHolds, ServedInFocus, InsertNeverLoses, Found

\* Behaviours with another focus serve no call.
LEMMA OtherFocusKeeps ==
  ASSUME ReceiptInv, focus # "receipts", UNCHANGED <<receiptVars, focus>>
  PROVE  ReceiptInv'
  <1>1. AdmittedIsActive'
    BY DEF ReceiptInv, ServedInFocus, AdmittedIsActive, NoCall, receiptVars
  <1> QED
    BY <1>1, RecordsKept
    DEF ReceiptInv, receiptVars, CallsTyped, ServingHolds, ServedInFocus, InsertNeverLoses, Found

LEMMA InvInit == PlatformInit => ReceiptInv
  <1> SUFFICES ASSUME PlatformInit PROVE ReceiptInv
    OBVIOUS
  <1>1. /\ receipts = {[key |-> e.key, hash |-> LegacyHash(e.body), facts |-> e.facts] : e \in effects}
        /\ works = 0 /\ answered = {} /\ roomCall = [c \in Calls |-> NoCall]
    BY DEF PlatformInit, ReceiptsInit
  <1>2. \A c \in Calls : roomCall[c] = NoCall /\ roomCall[c].step = "idle"
    BY <1>1 DEF NoCall
  <1>3. CallsTyped
    BY <1>1 DEF CallsTyped, CallType
  <1>4. ServingHolds /\ AdmittedIsActive /\ ServedInFocus /\ InsertNeverLoses
    BY <1>2 DEF ServingHolds, Serving, AdmittedIsActive, ServedInFocus, InsertNeverLoses
  <1>5. ReceiptsHaveEffects
    BY <1>1 DEF ReceiptsHaveEffects
  <1>6. \A e \in effects : effects = {e}
    BY DEF PlatformInit, ReceiptsInit
  <1>7. ASSUME NEW e \in effects PROVE {r.facts : r \in Found(e.key)} = {e.facts}
    <2> DEFINE row == [key |-> e.key, hash |-> LegacyHash(e.body), facts |-> e.facts]
    <2>1. receipts = {row}
      BY <1>1, <1>6
    <2>2. row.key = e.key /\ row.facts = e.facts
      OBVIOUS
    <2> HIDE DEF row
    <2>3. Found(e.key) = {row}
      BY <2>1, <2>2 DEF Found
    <2> QED
      BY <2>2, <2>3
  <1>8. OneEffectPerKey /\ AnsweredWithOwnFacts
    BY <1>1, <1>7 DEF OneEffectPerKey, AnsweredWithOwnFacts
  <1> QED
    BY <1>3, <1>4, <1>5, <1>8 DEF ReceiptInv

LEMMA InvNext == ReceiptInv /\ [PlatformNext]_platformVars => ReceiptInv'
  <1> SUFFICES ASSUME ReceiptInv, [PlatformNext]_platformVars PROVE ReceiptInv'
    OBVIOUS
  <1>1. CASE focus = "receipts" /\ ReceiptsStep /\ UNCHANGED focus
    <2>1. CASE ReceiptsNext /\ UNCHANGED ownerVars
      BY <1>1, <2>1, BeginKeeps, LockKeeps, RequireActiveKeeps, ReplayKeeps, WorkKeeps,
         CommitKeeps, CallFailsKeeps
      DEF ReceiptsNext
    <2>2. CASE rowHolder = Nobody /\ UNCHANGED receiptVars
      BY <1>1, <2>2, SetStatusKeeps
    <2> QED
      BY <1>1, <2>1, <2>2 DEF ReceiptsStep
  <1>2. CASE focus # "receipts" /\ UNCHANGED <<receiptVars, focus>>
    BY <1>2, OtherFocusKeeps
  <1>3. CASE UNCHANGED platformVars
    <2>1. UNCHANGED <<receiptVars, ownerVars, focus>>
      BY <1>3 DEF platformVars
    <2>2. AdmittedIsActive'
      BY <2>1 DEF ReceiptInv, AdmittedIsActive, receiptVars, ownerVars, Active, Bots
    <2> QED
      BY <2>1, <2>2, RecordsKept
      DEF ReceiptInv, receiptVars, CallsTyped, ServingHolds, ServedInFocus, InsertNeverLoses, Found
  <1> QED
    BY <1>1, <1>2, <1>3
    DEF PlatformNext, OwnersStep, MemoriesStep, HarnessStep, LimiterStep, ReportsStep

\* An effect is a commit, by a call whose account is still as it was checked.
LEMMA EffectsOfActive ==
  ReceiptInv /\ [PlatformNext]_platformVars => [effects' # effects => Active(Caller)]_receiptVars
  <1> SUFFICES ASSUME ReceiptInv, [PlatformNext]_platformVars, effects' # effects
               PROVE  Active(Caller)
    OBVIOUS
  <1>1. PICK c \in Calls : Commit(c)
    BY DEF PlatformNext, platformVars, receiptVars, OwnersStep, MemoriesStep, HarnessStep,
           ReceiptsStep, LimiterStep, ReportsStep, ReceiptsNext, Begin, LockAccountRow,
           RequireActiveAccount, Replay, Work, CallFails
  <1> QED
    BY <1>1 DEF ReceiptInv, AdmittedIsActive, Commit

\* However often, at once or after lost answers, a request is made under its key, it takes
\* effect once, is answered with the facts of that effect, and only for an account that is
\* active at the commit (runThreadAction).
THEOREM ReceiptsAnswerOnce == PlatformSpec => RequestsTakeEffectOnce
  <1>1. ReceiptInv => OneEffectPerKey /\ AnsweredWithOwnFacts /\ InsertNeverLoses
    BY DEF ReceiptInv
  <1> QED
    BY <1>1, InvInit, InvNext, EffectsOfActive, PTL
    DEF PlatformSpec, RequestsTakeEffectOnce, OnlyActiveTakesEffect

-----------------------------------------------------------------------------
(***************************************************************************)
(* CREDENTIALS.  An account keeps salt and password together or draws the  *)
(* salt anew, so a version once refused never returns.                     *)
(***************************************************************************)

BotRow == [name : Names \cup Nat, status : {"active", "disabled"}, pw : Passwords, salt : Nat, key : Nat,
           overtook : SUBSET Nat]
Cookie == [bot : Nat, version : Passwords \X Nat, knows : Passwords, salt : Nat]
OwnerCall ==
    {NoRequest}
    \cup [step : {"insert"}, name : Names, pw : Passwords]
    \cup [step : {"session", "reset"}, bot : Nat]
    \cup [step : {"write"}, bot : Nat, new : Passwords]
    \cup [step : {"cookie"}, bot : Nat, new : Passwords, salt : Nat]

\* Every salt and key was drawn once; names are apart.
AccountsOK ==
    /\ fresh \in Nat /\ bots \in Seq(BotRow)
    /\ \A b \in Bots : bots[b].salt < fresh /\ bots[b].key < fresh
    /\ \A b, d \in Bots : b # d => bots[b].name # bots[d].name /\ bots[b].key # bots[d].key

\* A cookie carries a version that was drawn.  While that is the present one, its holder
\* knows the password of it, or is a change that it overtook.
CookieOK(c) ==
    /\ c \in Cookie /\ c.bot \in Bots /\ c.version[2] < fresh
    /\ bots[c.bot].salt = c.version[2] =>
         bots[c.bot].pw = c.version[1] /\ (c.knows = c.version[1] \/ c.salt \in bots[c.bot].overtook)

\* What a request remembers: an account there is, and the salt it has written, which is
\* the row's or was overtaken.
OwnerCallOK(r) ==
    /\ r \in OwnerCall
    /\ r.step \in {"session", "reset", "write", "cookie"} => r.bot \in Bots
    /\ r.step = "cookie" =>
         /\ r.salt < fresh /\ (bots[r.bot].salt = r.salt => bots[r.bot].pw = r.new)
         /\ bots[r.bot].salt # r.salt => r.salt \in bots[r.bot].overtook

OwnerCallsOK ==
    /\ ownerRequest \in [OwnerRequests -> OwnerCall]
    /\ \A q \in OwnerRequests : OwnerCallOK(ownerRequest[q])

CookiesOK == \A c \in cookies : CookieOK(c)

OwnerInv == AccountsOK /\ CookiesOK /\ OwnerCallsOK

-----------------------------------------------------------------------------
\* Accounts stay, and keep salt and password together or draw a salt anew, which overtakes
\* the changes that are not answered.
RowsFollow ==
    /\ Bots \subseteq Bots' /\ fresh <= fresh'
    /\ \A b \in Bots :
         \/ /\ bots'[b].salt = bots[b].salt /\ bots'[b].pw = bots[b].pw
            /\ bots'[b].overtook = bots[b].overtook
         \/ /\ bots'[b].salt >= fresh
            /\ Unanswered(b) \subseteq bots'[b].overtook

LEMMA CallFieldsOwner ==
  ASSUME NEW r \in OwnerCall
  PROVE  /\ r.step = "insert" => r.name \in Names /\ r.pw \in Passwords
         /\ r.step \in {"session", "reset"} => r.bot \in Nat
         /\ r.step = "write" => r.bot \in Nat /\ r.new \in Passwords
         /\ r.step = "cookie" => r.bot \in Nat /\ r.new \in Passwords /\ r.salt \in Nat
  BY DEF OwnerCall, NoRequest

LEMMA BotFields ==
  ASSUME AccountsOK, NEW b \in Bots
  PROVE  /\ bots[b] \in BotRow /\ bots[b].salt \in Nat /\ bots[b].key \in Nat /\ bots[b].pw \in Passwords
         /\ b \in Nat /\ b \in 1 .. Len(bots) /\ Len(bots) \in Nat
  <1>1. Bots = 1 .. Len(bots) /\ Len(bots) \in Nat /\ bots \in [1 .. Len(bots) -> BotRow]
    BY LenProperties DEF AccountsOK, Bots
  <1> QED
    BY <1>1 DEF BotRow

\* A row with another key or status is a row like it.
LEMMA RowWith ==
  ASSUME NEW row \in BotRow
  PROVE  /\ \A key \in Nat :
              /\ [row EXCEPT !.key = key] \in BotRow
              /\ [row EXCEPT !.key = key].name = row.name
              /\ [row EXCEPT !.key = key].key = key
              /\ [row EXCEPT !.key = key].salt = row.salt
              /\ [row EXCEPT !.key = key].pw = row.pw
              /\ [row EXCEPT !.key = key].overtook = row.overtook
         /\ \A status \in {"active", "disabled"} :
              /\ [row EXCEPT !.status = status] \in BotRow
              /\ [row EXCEPT !.status = status].name = row.name
              /\ [row EXCEPT !.status = status].key = row.key
              /\ [row EXCEPT !.status = status].salt = row.salt
              /\ [row EXCEPT !.status = status].pw = row.pw
              /\ [row EXCEPT !.status = status].overtook = row.overtook
  BY DEF BotRow

\* What requests and cookies say of a row survives the row's change.
LEMMA MemoriesFollow ==
  ASSUME OwnerInv, RowsFollow, fresh' \in Nat
  PROVE  /\ \A q \in OwnerRequests : \A r : OwnerCallOK(r) /\ r = ownerRequest[q] => OwnerCallOK(r)'
         /\ \A c : CookieOK(c) => CookieOK(c)'
  <1>1. ASSUME NEW q \in OwnerRequests, NEW r, r = ownerRequest[q], OwnerCallOK(r) PROVE OwnerCallOK(r)'
    <2>1. CASE r.step = "cookie"
      <3>1. r.bot \in Bots /\ r.salt \in Nat /\ r.salt < fresh
        BY <1>1, <2>1, CallFieldsOwner DEF OwnerCallOK
      <3>2. bots'[r.bot].salt = r.salt => bots'[r.bot].pw = r.new
        BY <1>1, <2>1, <3>1 DEF RowsFollow, OwnerCallOK, OwnerInv, AccountsOK
      <3>3. r.salt \in Unanswered(r.bot)
        BY <1>1, <2>1 DEF Unanswered
      <3>4. bots'[r.bot].salt # r.salt => r.salt \in bots'[r.bot].overtook
        BY <1>1, <2>1, <3>1, <3>3 DEF RowsFollow, OwnerCallOK
      <3> QED
        BY <1>1, <2>1, <3>1, <3>2, <3>4 DEF OwnerCallOK, RowsFollow, OwnerInv, AccountsOK
    <2> QED
      BY <1>1, <2>1 DEF OwnerCallOK, RowsFollow
  <1>2. ASSUME NEW c, CookieOK(c) PROVE CookieOK(c)'
    <2>1. c \in Cookie /\ c.bot \in Bots /\ c.version[2] < fresh /\ c.version[2] \in Nat /\ fresh \in Nat
      BY <1>2 DEF CookieOK, Cookie, OwnerInv, AccountsOK
    <2>2. c.bot \in Bots' /\ c.version[2] < fresh'
      BY <2>1 DEF RowsFollow
    <2>3. CASE bots'[c.bot].salt = bots[c.bot].salt /\ bots'[c.bot].pw = bots[c.bot].pw
               /\ bots'[c.bot].overtook = bots[c.bot].overtook
      BY <1>2, <2>1, <2>2, <2>3 DEF CookieOK
    <2>4. CASE bots'[c.bot].salt >= fresh
      BY <2>1, <2>2, <2>4 DEF CookieOK
    <2> QED
      BY <2>1, <2>3, <2>4 DEF RowsFollow
  <1> QED
    BY <1>1, <1>2

\* A step of one request leaves the others what they remember.
LEMMA RequestMoves ==
  ASSUME OwnerInv, RowsFollow, fresh' \in Nat, NEW q \in OwnerRequests, NEW r, OwnerCallOK(r)',
         ownerRequest' = [ownerRequest EXCEPT ![q] = r]
  PROVE  OwnerCallsOK'
  <1>1. r \in OwnerCall
    BY DEF OwnerCallOK
  <1>2. \A p \in OwnerRequests : ownerRequest'[p] = IF p = q THEN r ELSE ownerRequest[p]
    BY DEF OwnerInv, OwnerCallsOK
  <1>3. ownerRequest' \in [OwnerRequests -> OwnerCall]
    BY <1>1 DEF OwnerInv, OwnerCallsOK
  <1>4. \A p \in OwnerRequests : OwnerCallOK(ownerRequest[p])'
    BY <1>2, MemoriesFollow DEF OwnerInv, OwnerCallsOK, OwnerCallOK
  <1> QED
    BY <1>3, <1>4 DEF OwnerCallsOK

LEMMA NobodyMoves ==
  ASSUME OwnerInv, RowsFollow, fresh' \in Nat, UNCHANGED ownerRequest
  PROVE  OwnerCallsOK'
  BY MemoriesFollow DEF OwnerInv, OwnerCallsOK, OwnerCallOK

LEMMA NoRequestOK == OwnerCallOK(NoRequest) /\ OwnerCallOK(NoRequest)'
  BY DEF OwnerCallOK, OwnerCall, NoRequest

\* The accounts as they are.
LEMMA RowsStay ==
  ASSUME OwnerInv, UNCHANGED <<bots, fresh>>
  PROVE  RowsFollow /\ AccountsOK' /\ fresh' \in Nat
  BY BotFields DEF OwnerInv, AccountsOK, RowsFollow, Bots

LEMMA CookiesStay ==
  ASSUME OwnerInv, RowsFollow, fresh' \in Nat, cookies' \subseteq cookies
  PROVE  CookiesOK'
  BY MemoriesFollow DEF OwnerInv, CookiesOK

\* One account's row changes, keeping its name.
LEMMA RowChanges ==
  ASSUME OwnerInv, NEW b \in Bots, NEW row \in BotRow, bots' = [bots EXCEPT ![b] = row],
         fresh' \in Nat, fresh <= fresh', row.name = bots[b].name,
         row.key = bots[b].key \/ (row.key = fresh /\ fresh < fresh'),
         \/ row.salt = bots[b].salt /\ row.pw = bots[b].pw /\ row.overtook = bots[b].overtook
         \/ row.salt = fresh /\ fresh < fresh' /\ row.overtook = Unanswered(b)
  PROVE  RowsFollow /\ AccountsOK'
  <1>1. bots' \in Seq(BotRow) /\ Len(bots') = Len(bots)
        /\ \A d \in 1 .. Len(bots) : bots'[d] = IF d = b THEN row ELSE bots[d]
    BY ExceptSeq, BotFields DEF OwnerInv, AccountsOK
  <1>2. Bots = 1 .. Len(bots) /\ Bots' = 1 .. Len(bots)
    BY <1>1, LenProperties DEF OwnerInv, AccountsOK, Bots
  <1>3. \A d \in Bots : bots'[d] = IF d = b THEN row ELSE bots[d]
    BY <1>1, <1>2
  <1>4. RowsFollow
    BY <1>2, <1>3, BotFields DEF RowsFollow, OwnerInv, AccountsOK
  <1>5. \A d \in Bots : bots'[d].salt < fresh' /\ bots'[d].key < fresh'
    BY <1>3, BotFields DEF OwnerInv, AccountsOK
  <1>6. \A d, e \in Bots : d # e => bots'[d].name # bots'[e].name /\ bots'[d].key # bots'[e].key
    BY <1>3, BotFields DEF OwnerInv, AccountsOK
  <1> QED
    BY <1>1, <1>2, <1>4, <1>5, <1>6 DEF AccountsOK

\* A cookie is handed out.
LEMMA CookieIssued ==
  ASSUME OwnerInv, UNCHANGED <<bots, fresh>>, NEW b \in Bots, NEW pw \in Passwords, NEW salt \in Nat,
         NewCookie(b, pw, salt), bots[b].pw = pw \/ salt \in bots[b].overtook
  PROVE  CookiesOK'
  <1> DEFINE new == [bot |-> b, version |-> VersionOf(b), knows |-> pw, salt |-> salt]
  <1>1. cookies' = cookies \cup {new}
    BY DEF NewCookie
  <1>2. CookieOK(new)
    BY BotFields DEF CookieOK, Cookie, VersionOf, PasswordVersion, OwnerInv, AccountsOK
  <1>3. CookieOK(new)'
    <2>1. \A c : CookieOK(c) => CookieOK(c)'
      BY RowsStay, MemoriesFollow
    <2> QED
      BY <1>2, <2>1 DEF CookieOK, VersionOf, Bots
  <1>4. \A c \in cookies : CookieOK(c)'
    BY RowsStay, MemoriesFollow DEF OwnerInv, CookiesOK
  <1> QED
    BY <1>1, <1>3, <1>4 DEF CookiesOK, VersionOf, CookieOK, Bots

-----------------------------------------------------------------------------
(* The steps.                                                              *)

OwnerStepOK == OwnerInv' /\ RowsFollow

\* A request moves and nothing else does.
LEMMA OnlyRequestMoves ==
  ASSUME OwnerInv, UNCHANGED <<bots, cookies, fresh>>, NEW q \in OwnerRequests, NEW r, OwnerCallOK(r),
         ownerRequest' = [ownerRequest EXCEPT ![q] = r]
  PROVE  OwnerStepOK
  <1>1. OwnerCallOK(r)'
    BY DEF OwnerCallOK, Bots
  <1>2. RowsFollow /\ AccountsOK' /\ fresh' \in Nat
    BY RowsStay
  <1>3. CookiesOK' /\ OwnerCallsOK'
    BY <1>1, <1>2, CookiesStay, RequestMoves
  <1> QED
    BY <1>2, <1>3 DEF OwnerStepOK, OwnerInv

LEMMA RegisterKeeps ==
  ASSUME OwnerInv, NEW q \in OwnerRequests, Register(q)
  PROVE  OwnerStepOK
  <1> DEFINE r == ownerRequest[q]
             row == [name |-> r.name, status |-> "active", pw |-> r.pw, salt |-> fresh, key |-> fresh,
                     overtook |-> {}]
  <1>1. /\ r.step = "insert" /\ NameFree(r.name) /\ bots' = Append(bots, row) /\ fresh' = fresh + 1
        /\ ownerRequest' = [ownerRequest EXCEPT ![q] = NoRequest] /\ cookies' = cookies
    BY DEF Register
  <1>2. row \in BotRow
    BY <1>1, CallFieldsOwner DEF OwnerInv, OwnerCallsOK, AccountsOK, BotRow
  <1>3. row.name = r.name /\ row.salt = fresh /\ row.key = fresh
    OBVIOUS
  <1> HIDE DEF row
  <1>4. /\ bots' \in Seq(BotRow) /\ Len(bots') = Len(bots) + 1 /\ bots'[Len(bots) + 1] = row
        /\ \A d \in 1 .. Len(bots) : bots'[d] = bots[d]
    BY <1>1, <1>2, AppendProperties DEF OwnerInv, AccountsOK
  <1>5. Bots = 1 .. Len(bots) /\ Bots' = 1 .. Len(bots) + 1 /\ Len(bots) \in Nat /\ fresh \in Nat
    BY <1>4, LenProperties DEF OwnerInv, AccountsOK, Bots
  <1>6. RowsFollow
    BY <1>1, <1>4, <1>5 DEF RowsFollow
  <1>7. \A d \in Bots' : bots'[d].salt < fresh' /\ bots'[d].key < fresh'
    BY <1>1, <1>3, <1>4, <1>5, BotFields DEF OwnerInv, AccountsOK
  <1>8. \A d, e \in Bots' : d # e => bots'[d].name # bots'[e].name /\ bots'[d].key # bots'[e].key
    <2>1. SUFFICES ASSUME NEW d \in Bots', NEW e \in Bots', d # e
                   PROVE  bots'[d].name # bots'[e].name /\ bots'[d].key # bots'[e].key
      OBVIOUS
    <2>2. CASE d \in Bots /\ e \in Bots
      BY <1>4, <1>5, <2>1, <2>2 DEF OwnerInv, AccountsOK
    <2>3. CASE d \notin Bots
      BY <1>1, <1>3, <1>4, <1>5, <2>1, <2>3, BotFields DEF OwnerInv, AccountsOK, NameFree
    <2>4. CASE e \notin Bots
      BY <1>1, <1>3, <1>4, <1>5, <2>1, <2>4, BotFields DEF OwnerInv, AccountsOK, NameFree
    <2> QED
      BY <2>2, <2>3, <2>4
  <1>9. AccountsOK'
    BY <1>1, <1>4, <1>5, <1>7, <1>8 DEF AccountsOK
  <1>10. fresh' \in Nat
    BY <1>1, <1>5
  <1>11. OwnerCallsOK'
    BY <1>1, <1>6, <1>10, RequestMoves, NoRequestOK
  <1> QED
    BY <1>1, <1>6, <1>9, <1>10, <1>11, CookiesStay DEF OwnerStepOK, OwnerInv

LEMMA LoginKeeps ==
  ASSUME OwnerInv, NEW b \in Bots, OwnerLogin(b)
  PROVE  OwnerStepOK
  BY RowsStay, CookieIssued, NobodyMoves, BotFields DEF OwnerLogin, OwnerStepOK, OwnerInv

LEMMA CookieEndsKeeps ==
  ASSUME OwnerInv, NEW c, CookieEnds(c)
  PROVE  OwnerStepOK
  BY RowsStay, CookiesStay, NobodyMoves DEF CookieEnds, OwnerStepOK, OwnerInv

LEMMA ChangePasswordKeeps ==
  ASSUME OwnerInv, NEW q \in OwnerRequests, ChangePassword(q)
  PROVE  OwnerStepOK
  <1>1. PICK r \in OwnerCall : r = ownerRequest[q]
    BY DEF OwnerInv, OwnerCallsOK
  <1>2. PICK b \in Bots : b = r.bot
    BY <1>1 DEF ChangePassword, OwnerInv, OwnerCallsOK, OwnerCallOK
  <1>3. /\ r.step = "write"
        /\ bots' = [bots EXCEPT ![b].pw = r.new, ![b].salt = fresh, ![b].overtook = Unanswered(b)]
        /\ fresh' = fresh + 1 /\ cookies' = cookies
        /\ ownerRequest' = [ownerRequest EXCEPT ![q] = [step |-> "cookie", bot |-> b, new |-> r.new, salt |-> fresh]]
    BY <1>1, <1>2 DEF ChangePassword
  <1>4. /\ r.new \in Passwords /\ fresh \in Nat /\ fresh' \in Nat /\ fresh <= fresh' /\ fresh < fresh'
        /\ b \in Nat /\ bots[b] \in BotRow /\ b \in DOMAIN bots
    BY <1>3, CallFieldsOwner, BotFields DEF OwnerInv, AccountsOK, Bots
  <1>5. PICK row : row = [bots[b] EXCEPT !.pw = r.new, !.salt = fresh, !.overtook = Unanswered(b)]
    OBVIOUS
  <1>6. /\ row \in BotRow /\ row.name = bots[b].name /\ row.key = bots[b].key
        /\ row.salt = fresh /\ row.pw = r.new /\ row.overtook = Unanswered(b)
    <2>1. Unanswered(b) \subseteq Nat
      BY CallFieldsOwner DEF Unanswered, OwnerInv, OwnerCallsOK
    <2> QED
      BY <1>4, <1>5, <2>1 DEF BotRow
  <1>7. bots' = [bots EXCEPT ![b] = row]
    BY <1>3, <1>4, <1>5
  <1>8. RowsFollow /\ AccountsOK'
    BY <1>4, <1>6, <1>7, RowChanges
  <1>9. PICK n : n = [step |-> "cookie", bot |-> b, new |-> r.new, salt |-> fresh]
    OBVIOUS
  <1>10. OwnerCallOK(n)'
    <2>1. n \in OwnerCall
      BY <1>4, <1>9 DEF OwnerCall
    <2>2. n.step = "cookie" /\ n.bot = b /\ n.salt = fresh /\ n.new = r.new
      BY <1>9
    <2>3. bots'[b].pw = r.new /\ bots'[b].salt = fresh /\ b \in Bots'
      BY <1>4, <1>6, <1>7, <1>8 DEF RowsFollow
    <2> QED
      BY <1>4, <2>1, <2>2, <2>3 DEF OwnerCallOK
  <1>11. OwnerCallsOK'
    BY <1>3, <1>4, <1>8, <1>9, <1>10, RequestMoves
  <1> QED
    BY <1>3, <1>4, <1>8, <1>11, CookiesStay DEF OwnerStepOK, OwnerInv

LEMMA ChangeCookieKeeps ==
  ASSUME OwnerInv, NEW q \in OwnerRequests, ChangeCookie(q)
  PROVE  OwnerStepOK
  <1> DEFINE r == ownerRequest[q]
  <1>1. /\ r.step = "cookie" /\ OwnerCallOK(r) /\ UNCHANGED <<bots, fresh>>
        /\ IF Active(r.bot) THEN NewCookie(r.bot, r.new, r.salt) ELSE UNCHANGED cookies
        /\ ownerRequest' = [ownerRequest EXCEPT ![q] = NoRequest]
    BY DEF ChangeCookie, OwnerInv, OwnerCallsOK
  <1>2. /\ r.bot \in Bots /\ r.new \in Passwords /\ r.salt \in Nat
        /\ bots[r.bot].pw = r.new \/ r.salt \in bots[r.bot].overtook
    BY <1>1, CallFieldsOwner DEF OwnerCallOK
  <1>3. CookiesOK'
    <2>1. CASE Active(r.bot)
      BY <1>1, <1>2, <2>1, CookieIssued
    <2>2. CASE ~Active(r.bot)
      BY <1>1, <2>2, RowsStay, CookiesStay
    <2> QED
      BY <2>1, <2>2
  <1> QED
    BY <1>1, <1>3, RowsStay, RequestMoves, NoRequestOK DEF OwnerStepOK, OwnerInv

LEMMA ResetKeyKeeps ==
  ASSUME OwnerInv, NEW q \in OwnerRequests, ResetKey(q)
  PROVE  OwnerStepOK
  <1>1. PICK b \in Bots : b = ownerRequest[q].bot
    BY DEF ResetKey, OwnerInv, OwnerCallsOK, OwnerCallOK
  <1>2. /\ bots' = [bots EXCEPT ![b].key = fresh] /\ fresh' = fresh + 1 /\ cookies' = cookies
        /\ ownerRequest' = [ownerRequest EXCEPT ![q] = NoRequest]
    BY <1>1 DEF ResetKey
  <1>3. fresh \in Nat /\ fresh' \in Nat /\ fresh <= fresh' /\ fresh < fresh' /\ bots[b] \in BotRow
    BY <1>2, BotFields DEF OwnerInv, AccountsOK
  <1>4. PICK row : row = [bots[b] EXCEPT !.key = fresh]
    OBVIOUS
  <1>5. /\ row \in BotRow /\ row.name = bots[b].name /\ row.key = fresh
        /\ row.salt = bots[b].salt /\ row.pw = bots[b].pw /\ row.overtook = bots[b].overtook
    BY <1>3, <1>4, RowWith
  <1>6. RowsFollow /\ AccountsOK'
    <2>1. bots' = [bots EXCEPT ![b] = row]
      BY <1>2, <1>4
    <2> QED
      BY <1>3, <1>5, <2>1, RowChanges
  <1>7. OwnerCallsOK'
    BY <1>2, <1>3, <1>6, RequestMoves, NoRequestOK
  <1> QED
    BY <1>2, <1>3, <1>6, <1>7, CookiesStay DEF OwnerStepOK, OwnerInv

LEMMA StatusKeeps ==
  ASSUME OwnerInv, NEW b, NEW status \in {"active", "disabled"}, SetBotStatus(b, status)
  PROVE  OwnerStepOK
  <1>1. /\ b \in Bots /\ bots' = [bots EXCEPT ![b].status = status] /\ fresh' = fresh
        /\ UNCHANGED <<cookies, ownerRequest>>
    BY DEF SetBotStatus
  <1>2. fresh \in Nat /\ fresh' \in Nat /\ fresh <= fresh' /\ bots[b] \in BotRow
    BY <1>1, BotFields DEF OwnerInv, AccountsOK
  <1>3. PICK row : row = [bots[b] EXCEPT !.status = status]
    OBVIOUS
  <1>4. /\ row \in BotRow /\ row.name = bots[b].name /\ row.key = bots[b].key
        /\ row.salt = bots[b].salt /\ row.pw = bots[b].pw /\ row.overtook = bots[b].overtook
    BY <1>2, <1>3, RowWith
  <1>5. RowsFollow /\ AccountsOK'
    <2>1. bots' = [bots EXCEPT ![b] = row]
      BY <1>1, <1>3
    <2> QED
      BY <1>1, <1>2, <1>4, <2>1, RowChanges
  <1> QED
    BY <1>1, <1>2, <1>5, CookiesStay, NobodyMoves DEF OwnerStepOK, OwnerInv

LEMMA OwnersNextKeeps ==
  ASSUME OwnerInv, OwnersNext
  PROVE  OwnerStepOK
  <1>1. ASSUME NEW q \in OwnerRequests, NEW n \in Names, NEW pw \in Passwords, RegisterProbe(q, n, pw)
        PROVE  OwnerStepOK
    <2>1. OwnerCallOK([step |-> "insert", name |-> n, pw |-> pw])
      BY DEF OwnerCallOK, OwnerCall
    <2> QED
      BY <1>1, <2>1, OnlyRequestMoves DEF RegisterProbe
  <1>2. ASSUME NEW q \in OwnerRequests, NEW c \in cookies, RequireOwnerSession(q, c)
        PROVE  OwnerStepOK
    <2>1. OwnerCallOK([step |-> "session", bot |-> c.bot])
      BY DEF OwnerCallOK, OwnerCall, OwnerInv, CookiesOK, CookieOK, Cookie
    <2> QED
      BY <1>2, <2>1, OnlyRequestMoves DEF RequireOwnerSession
  <1>3. ASSUME NEW q \in OwnerRequests, NEW new \in Passwords, ChangeVerify(q, new)
        PROVE  OwnerStepOK
    <2>1. ownerRequest[q].bot \in Bots /\ ownerRequest[q].bot \in Nat
      BY <1>3, CallFieldsOwner DEF ChangeVerify, OwnerInv, OwnerCallsOK, OwnerCallOK
    <2>2. OwnerCallOK([step |-> "write", bot |-> ownerRequest[q].bot, new |-> new])
      BY <2>1 DEF OwnerCallOK, OwnerCall
    <2> QED
      BY <1>3, <2>2, OnlyRequestMoves DEF ChangeVerify
  <1>4. ASSUME NEW q \in OwnerRequests, ResetRead(q)
        PROVE  OwnerStepOK
    <2>1. ownerRequest[q].bot \in Bots /\ ownerRequest[q].bot \in Nat
      BY <1>4, CallFieldsOwner DEF ResetRead, OwnerInv, OwnerCallsOK, OwnerCallOK
    <2>2. OwnerCallOK([step |-> "reset", bot |-> ownerRequest[q].bot])
      BY <2>1 DEF OwnerCallOK, OwnerCall
    <2> QED
      BY <1>4, <2>2, OnlyRequestMoves DEF ResetRead
  <1>5. ASSUME NEW q \in OwnerRequests, OwnerRequestEnds(q)
        PROVE  OwnerStepOK
    BY <1>5, NoRequestOK, OnlyRequestMoves DEF OwnerRequestEnds
  <1> QED
    BY <1>1, <1>2, <1>3, <1>4, <1>5, RegisterKeeps, LoginKeeps, CookieEndsKeeps, ChangePasswordKeeps,
       ChangeCookieKeeps, ResetKeyKeeps
    DEF OwnersNext

LEMMA OwnerInvNext ==
  ASSUME OwnerInv, [PlatformNext]_platformVars
  PROVE  OwnerStepOK
  <1>1. CASE UNCHANGED ownerVars
    <2>1. RowsFollow /\ AccountsOK' /\ fresh' \in Nat
      BY <1>1, RowsStay DEF ownerVars
    <2> QED
      BY <1>1, <2>1, CookiesStay, NobodyMoves DEF ownerVars, OwnerStepOK, OwnerInv
  <1>2. CASE OwnersStep
    BY <1>2, OwnersNextKeeps, StatusKeeps DEF OwnersStep
  <1>3. CASE MemoriesStep
    BY <1>1, <1>3, StatusKeeps DEF MemoriesStep
  <1>4. CASE HarnessStep
    BY <1>1, <1>4, StatusKeeps DEF HarnessStep
  <1>5. CASE ReceiptsStep
    BY <1>1, <1>5, StatusKeeps DEF ReceiptsStep
  <1> QED
    BY <1>1, <1>2, <1>3, <1>4, <1>5 DEF PlatformNext, LimiterStep, ReportsStep, platformVars

LEMMA OwnerInvInit == PlatformInit => OwnerInv
  <1> SUFFICES ASSUME PlatformInit PROVE OwnerInv
    OBVIOUS
  <1>1. PICK n \in {0, 1, 2} : OwnersInit([i \in 1 .. n |-> Registered(i)])
    BY DEF PlatformInit
  <1> DEFINE rows == [i \in 1 .. n |-> Registered(i)]
  <1>2. \A i \in 1 .. n : Registered(i) \in BotRow /\ Registered(i).salt = i
                          /\ Registered(i).key = i /\ Registered(i).name = i
    BY OwnersAssumption DEF Registered, BotRow
  <1>3. rows \in Seq(BotRow) /\ Len(rows) = n /\ DOMAIN rows = 1 .. n
    BY <1>2, IsASeq
  <1>4. bots = rows /\ cookies = {} /\ fresh = n + 1 /\ ownerRequest = [q \in OwnerRequests |-> NoRequest]
    BY <1>1, <1>3 DEF OwnersInit
  <1>5. AccountsOK
    BY <1>2, <1>3, <1>4 DEF AccountsOK, Bots
  <1> QED
    BY <1>4, <1>5, NoRequestOK DEF OwnerInv, CookiesOK, OwnerCallsOK, OwnerCallOK

LEMMA OneAccount == OwnerInv => OneAccountPerName
  BY DEF OwnerInv, AccountsOK, OneAccountPerName, AgentOf

LEMMA PresentPassword == OwnerInv => CookiesOfPresentPassword
  BY DEF OwnerInv, CookiesOK, CookieOK, CookiesOfPresentPassword, Accepted, VersionOf, PasswordVersion

LEMMA RefusedStays ==
  OwnerInv /\ [PlatformNext]_platformVars =>
    [\A c \in cookies \cap cookies' : Active(c.bot) /\ ~Accepted(c) => ~Accepted(c)']_ownerVars
  <1> SUFFICES ASSUME OwnerInv, RowsFollow, NEW c \in cookies, Active(c.bot), ~Accepted(c) PROVE ~Accepted(c)'
    BY OwnerInvNext DEF OwnerStepOK
  <1>1. c \in Cookie /\ c.bot \in Bots /\ c.version[2] < fresh /\ c.version[2] \in Nat /\ fresh \in Nat
    BY DEF OwnerInv, CookiesOK, CookieOK, Cookie, AccountsOK
  <1>2. c.version # <<bots[c.bot].pw, bots[c.bot].salt>>
    BY DEF Accepted, VersionOf, PasswordVersion
  <1>3. c.version # <<bots'[c.bot].pw, bots'[c.bot].salt>>
    BY <1>1, <1>2 DEF RowsFollow
  <1> QED
    BY <1>3 DEF Accepted, VersionOf, PasswordVersion

\* A name and a key open one account; a cookie that is accepted is held by whoever knows
\* the present password or by a change of password that was stored and not answered when
\* that one was stored; once refused for its version it stays refused: for any number of
\* accounts, requests and changes of password.
THEOREM CredentialsStayCurrent == PlatformSpec => CredentialsAreCurrent
  <1>1. PlatformSpec => []OwnerInv
    <2>1. OwnerInv /\ [PlatformNext]_platformVars => OwnerInv'
      BY OwnerInvNext DEF OwnerStepOK
    <2> QED
      BY <2>1, OwnerInvInit, PTL DEF PlatformSpec
  <1>2. PlatformSpec => [](OneAccountPerName /\ CookiesOfPresentPassword)
    BY <1>1, OneAccount, PresentPassword, PTL
  <1>3. PlatformSpec => SignedOutForGood
    BY <1>1, RefusedStays, PTL DEF PlatformSpec, SignedOutForGood
  <1> QED
    BY <1>2, <1>3, PTL DEF CredentialsAreCurrent

-----------------------------------------------------------------------------
(***************************************************************************)
(* REPORTS.  A report leaves "open" once, under its row's condition, and the*)
(* audit log gains its line in the same transaction.                       *)
(***************************************************************************)

Report == [by : Reporters, status : {"open", "dismissed", "actioned"}]
TrailRow == [about : Nat, to : {"dismissed", "actioned", "closed"}, moved : Nat]

ActionedReports == {i \in DOMAIN reports : reports[i].status = "actioned"}

ReportsTyped ==
    /\ taskClosed \in BOOLEAN /\ reports \in Seq(Report) /\ trail \in Seq(TrailRow)
    /\ filing \in [Filings -> [step : {"idle"}] \cup [step : {"insert"}, by : Reporters]]
    /\ resolving \in [Resolvers -> Nat]
    /\ \A v \in Resolvers : resolving[v] = 0 \/ resolving[v] \in DOMAIN reports

\* The log tells of reports there are; each dismissal is there once.
DismissalsLogged ==
    /\ \A j \in DOMAIN trail : trail[j].about = 0 \/ trail[j].about \in DOMAIN reports
    /\ \A i \in DOMAIN reports :
         IF reports[i].status = "dismissed" THEN \E j \in DOMAIN trail : Dismissals(i) = {j}
         ELSE Dismissals(i) = {}

\* Only the close of the task actions reports, and it does so once.
CloseLogged ==
    /\ ~taskClosed => ActionedReports = {} /\ \A j \in DOMAIN trail : trail[j].to # "closed"
    /\ \A j \in DOMAIN trail : trail[j].to = "closed" => trail[j].moved = Cardinality(ActionedReports)

\* The row about the report by which a close came.
ActionedLogged ==
    \A j \in DOMAIN trail : \A i : trail[j].to = "actioned" /\ trail[j].about = i => CameBy(j, i)

ReportInv == ReportsTyped /\ DismissalsLogged /\ CloseLogged /\ ActionedLogged

LEMMA ReportFacts ==
  ASSUME ReportsTyped
  PROVE  /\ Len(reports) \in Nat /\ DOMAIN reports = 1 .. Len(reports)
         /\ Len(trail) \in Nat /\ DOMAIN trail = 1 .. Len(trail)
         /\ \A i \in DOMAIN reports : reports[i] \in Report
         /\ \A j \in DOMAIN trail : trail[j] \in TrailRow
  BY LenProperties DEF ReportsTyped

LEMMA InvTells == ReportInv => TrailAgreesWithReports
  <1> SUFFICES ASSUME ReportInv PROVE TrailAgreesWithReports
    OBVIOUS
  <1>1. ASSUME NEW i \in DOMAIN reports
        PROVE  Cardinality(Dismissals(i)) = IF reports[i].status = "dismissed" THEN 1 ELSE 0
    BY FS_EmptySet, FS_Singleton DEF ReportInv, DismissalsLogged
  <1> QED
    BY <1>1 DEF TrailAgreesWithReports, ReportInv, CloseLogged, ActionedLogged, ActionedReports

\* Steps that leave reports and log alone.
LEMMA LogStays ==
  ASSUME ReportInv, UNCHANGED <<taskClosed, reports, trail>>
  PROVE  DismissalsLogged' /\ CloseLogged' /\ ActionedLogged' /\ DecidedForGood
  BY DEF ReportInv, DismissalsLogged, CloseLogged, ActionedLogged, CameBy, Dismissals, ActionedReports, DecidedForGood

\* Rows stay where they are, and what they tell of decided reports stays true.
LEMMA ActionedLasts ==
  ASSUME ReportInv, DecidedForGood, DOMAIN reports \subseteq DOMAIN reports', DOMAIN trail \subseteq DOMAIN trail',
         \A j \in DOMAIN trail : trail'[j] = trail[j],
         NEW j \in DOMAIN trail, NEW i, CameBy(j, i)
  PROVE  CameBy(j, i)'
  <1>1. i \in DOMAIN reports' /\ (reports[i].status = "actioned" => reports'[i].status = "actioned")
    BY DEF CameBy, DecidedForGood, StillOpen
  <1>2. Dismissals(i) \subseteq Dismissals(i)'
    BY DEF Dismissals
  <1> QED
    BY <1>1, <1>2 DEF CameBy

LEMMA InsertKeeps ==
  ASSUME ReportInv, NEW f \in Filings, InsertTaskReport(f)
  PROVE  ReportInv' /\ DecidedForGood
  <1> DEFINE n == Len(reports) + 1
  <1>1. PICK r \in Report : r.status = "open" /\ reports' = Append(reports, r)
    BY DEF InsertTaskReport, ReportInv, ReportsTyped, Report
  <1>2. /\ reports' \in Seq(Report) /\ Len(reports') = n /\ reports'[n] = r
        /\ \A i \in 1 .. Len(reports) : reports'[i] = reports[i]
    BY <1>1, AppendProperties DEF ReportInv, ReportsTyped
  <1>3. /\ DOMAIN reports' = 1 .. n /\ DOMAIN reports = 1 .. Len(reports) /\ Len(reports) \in Nat
        /\ DOMAIN reports' = DOMAIN reports \cup {n} /\ n \notin DOMAIN reports /\ n # 0
    BY <1>2, LenProperties DEF ReportInv, ReportsTyped
  <1>4. trail' = trail /\ taskClosed' = taskClosed /\ resolving' = resolving
        /\ filing' = [filing EXCEPT ![f] = [step |-> "idle"]]
    BY DEF InsertTaskReport
  <1>5. ReportsTyped'
    BY <1>2, <1>3, <1>4 DEF ReportInv, ReportsTyped
  <1>6. ActionedReports' = ActionedReports
    BY <1>1, <1>2, <1>3 DEF ActionedReports
  <1>7. DismissalsLogged'
    <2>1. \A i : Dismissals(i)' = Dismissals(i)
      BY <1>4 DEF Dismissals
    <2>2. Dismissals(n) = {}
      BY <1>3 DEF Dismissals, ReportInv, DismissalsLogged
    <2> QED
      BY <1>1, <1>2, <1>3, <1>4, <2>1, <2>2 DEF DismissalsLogged, ReportInv
  <1>8. CloseLogged'
    BY <1>4, <1>6 DEF CloseLogged, ReportInv
  <1>9. DecidedForGood
    BY <1>2, <1>3 DEF DecidedForGood
  <1>10. ActionedLogged'
    BY <1>3, <1>4, <1>9, ActionedLasts DEF ActionedLogged, ReportInv
  <1> QED
    BY <1>5, <1>7, <1>8, <1>9, <1>10 DEF ReportInv

LEMMA DismissKeeps ==
  ASSUME ReportInv, NEW v \in Resolvers, Dismiss(v)
  PROVE  ReportInv' /\ DecidedForGood
  <1>1. PICK i \in DOMAIN reports : i = resolving[v]
    BY DEF Dismiss, ReportInv, ReportsTyped
  <1>2. /\ reports[i].status = "open" /\ reports' = [reports EXCEPT ![i].status = "dismissed"]
        /\ trail' = Append(trail, [about |-> i, to |-> "dismissed", moved |-> 1])
        /\ resolving' = [resolving EXCEPT ![v] = 0] /\ taskClosed' = taskClosed /\ filing' = filing
    BY <1>1 DEF Dismiss, StillOpen, Resolved
  <1>3. /\ Len(reports) \in Nat /\ DOMAIN reports = 1 .. Len(reports) /\ i \in Nat /\ i # 0
        /\ Len(trail) \in Nat /\ DOMAIN trail = 1 .. Len(trail) /\ reports[i] \in Report
    BY ReportFacts DEF ReportInv
  <1>4. PICK row : row = [about |-> i, to |-> "dismissed", moved |-> 1]
    OBVIOUS
  <1>5. row \in TrailRow /\ row.about = i /\ row.to = "dismissed"
    BY <1>3, <1>4 DEF TrailRow
  <1>6. PICK r : r = [reports[i] EXCEPT !.status = "dismissed"]
    OBVIOUS
  <1>7. r \in Report /\ r.status = "dismissed"
    BY <1>3, <1>6 DEF Report
  <1>8. /\ reports' \in Seq(Report) /\ Len(reports') = Len(reports) /\ DOMAIN reports' = DOMAIN reports
        /\ \A k \in DOMAIN reports : reports'[k] = IF k = i THEN r ELSE reports[k]
    BY <1>2, <1>3, <1>6, <1>7, ExceptSeq, LenProperties DEF ReportInv, ReportsTyped
  <1> DEFINE n == Len(trail) + 1
  <1>9. /\ trail' \in Seq(TrailRow) /\ Len(trail') = n /\ trail'[n] = row
        /\ \A j \in 1 .. Len(trail) : trail'[j] = trail[j]
    BY <1>2, <1>4, <1>5, AppendProperties DEF ReportInv, ReportsTyped
  <1>10. DOMAIN trail' = DOMAIN trail \cup {n} /\ n \notin DOMAIN trail
    BY <1>3, <1>9, LenProperties
  <1>11. ReportsTyped'
    BY <1>2, <1>8, <1>9 DEF ReportInv, ReportsTyped
  <1>12. ActionedReports' = ActionedReports
    BY <1>2, <1>7, <1>8 DEF ActionedReports
  <1>13. DismissalsLogged'
    <2>1. \A k : Dismissals(k)' = IF k = i THEN Dismissals(k) \cup {n} ELSE Dismissals(k)
      BY <1>3, <1>5, <1>9, <1>10 DEF Dismissals
    <2>2. Dismissals(i) = {}
      BY <1>2 DEF ReportInv, DismissalsLogged
    <2>3. \A j \in DOMAIN trail' : trail'[j].about = 0 \/ trail'[j].about \in DOMAIN reports'
      BY <1>3, <1>5, <1>8, <1>9, <1>10 DEF ReportInv, DismissalsLogged
    <2>4. ASSUME NEW k \in DOMAIN reports'
          PROVE  IF reports'[k].status = "dismissed" THEN \E j \in DOMAIN trail' : Dismissals(k)' = {j}
                 ELSE Dismissals(k)' = {}
      <3>1. CASE k = i
        BY <1>7, <1>8, <1>10, <2>1, <2>2, <3>1
      <3>2. CASE k # i
        BY <1>8, <1>10, <2>1, <2>4, <3>2 DEF ReportInv, DismissalsLogged
      <3> QED
        BY <3>1, <3>2
    <2> QED
      BY <2>3, <2>4 DEF DismissalsLogged
  <1>14. CloseLogged'
    BY <1>2, <1>3, <1>5, <1>9, <1>10, <1>12 DEF CloseLogged, ReportInv
  <1>15. DecidedForGood
    BY <1>2, <1>8 DEF DecidedForGood, StillOpen
  <1>16. ActionedLogged'
    <2>1. \A j \in DOMAIN trail : trail'[j] = trail[j]
      BY <1>3, <1>9
    <2>2. \A j \in DOMAIN trail' : trail'[j].to = "actioned" => j \in DOMAIN trail /\ trail[j].to = "actioned"
      BY <1>5, <1>9, <1>10, <2>1
    <2> QED
      BY <1>8, <1>10, <1>15, <2>1, <2>2, ActionedLasts DEF ActionedLogged, ReportInv
  <1> QED
    BY <1>11, <1>13, <1>14, <1>15, <1>16 DEF ReportInv

LEMMA CloseKeeps ==
  ASSUME ReportInv, NEW i, i = 0 \/ i \in DOMAIN reports, PlatformClose(i)
  PROVE  /\ DismissalsLogged' /\ CloseLogged' /\ ActionedLogged' /\ DecidedForGood
         /\ taskClosed' \in BOOLEAN /\ reports' \in Seq(Report) /\ trail' \in Seq(TrailRow)
         /\ DOMAIN reports' = DOMAIN reports
  <1>1. /\ ~taskClosed /\ taskClosed' = TRUE /\ reports' = ActionOpenReports
        /\ Len(reports) \in Nat /\ DOMAIN reports = 1 .. Len(reports)
        /\ Len(trail) \in Nat /\ DOMAIN trail = 1 .. Len(trail) /\ i \in Nat
        /\ \A k \in DOMAIN reports : reports[k] \in Report
    BY ReportFacts DEF ReportInv, PlatformClose
  <1>2. DOMAIN reports' = DOMAIN reports
    BY <1>1 DEF ActionOpenReports
  <1>3. ASSUME NEW k \in DOMAIN reports
        PROVE  /\ reports'[k] \in Report
               /\ reports[k].status = "open" => reports'[k].status = "actioned"
               /\ reports[k].status # "open" => reports'[k] = reports[k]
    <2>1. reports'[k] = IF reports[k].status = "open" THEN [reports[k] EXCEPT !.status = "actioned"] ELSE reports[k]
      BY <1>1, <1>3 DEF ActionOpenReports, OpenReports, StillOpen
    <2>2. reports[k] \in Report
      BY <1>1, <1>3
    <2> QED
      BY <2>1, <2>2 DEF Report
  <1>4. reports' \in Seq(Report)
    BY <1>1, <1>2, <1>3, IsASeq DEF ActionOpenReports
  <1>5. ActionedReports = {}
    BY <1>1 DEF ReportInv, CloseLogged
  <1>6. ActionedReports' = OpenReports
    BY <1>2, <1>3, <1>5 DEF ActionedReports, OpenReports, StillOpen
  <1>7. Cardinality(OpenReports) \in Nat
    <2>1. OpenReports \subseteq 1 .. Len(reports)
      BY <1>1 DEF OpenReports
    <2> QED
      <3>1. IsFiniteSet(1 .. Len(reports))
        BY <1>1, FS_Interval
      <3>2. IsFiniteSet(OpenReports)
        BY <2>1, <3>1, FS_Subset
      <3> QED
        BY <3>2, FS_CardinalityType
  <1>8. PICK row : row = [about |-> 0, to |-> "closed", moved |-> Cardinality(OpenReports)]
    OBVIOUS
  <1>9. row \in TrailRow /\ row.about = 0 /\ row.to = "closed" /\ row.moved = Cardinality(OpenReports)
    BY <1>7, <1>8 DEF TrailRow
  <1>10. PICK of \in TrailRow : of = [about |-> i, to |-> "actioned", moved |-> 1]
    BY <1>1 DEF TrailRow
  <1>11. of.about = i /\ of.to = "actioned"
    BY <1>10
  <1> DEFINE n == Len(trail) + 1
  <1>12. trail' = IF i = 0 THEN Append(trail, row) ELSE Append(Append(trail, row), of)
    <2>1. trail' = trail \o <<row>> \o (IF i = 0 THEN <<>> ELSE <<of>>)
      BY <1>8, <1>10 DEF PlatformClose
    <2> QED
      BY <1>9, <2>1, AppendIsConcat, ConcatEmptySeq, AppendProperties DEF ReportInv, ReportsTyped
  <1>13. /\ trail' \in Seq(TrailRow) /\ DOMAIN trail \subseteq DOMAIN trail' /\ n \in DOMAIN trail'
         /\ trail'[n] = row
         /\ \A j \in DOMAIN trail : trail'[j] = trail[j]
         /\ \A j \in DOMAIN trail' \ DOMAIN trail : j = n \/ (i # 0 /\ j = n + 1 /\ trail'[j] = of)
    <2>1. /\ Append(trail, row) \in Seq(TrailRow) /\ Len(Append(trail, row)) = n
          /\ Append(trail, row)[n] = row
          /\ \A j \in 1 .. Len(trail) : Append(trail, row)[j] = trail[j]
      BY <1>9, AppendProperties DEF ReportInv, ReportsTyped
    <2>2. CASE i = 0
      BY <1>1, <1>12, <2>1, <2>2, LenProperties
    <2>3. CASE i # 0
      <3>1. PICK s \in Seq(TrailRow) : s = Append(trail, row)
        BY <2>1
      <3>2. /\ Append(s, of) \in Seq(TrailRow) /\ Len(Append(s, of)) = n + 1
            /\ Append(s, of)[n + 1] = of
            /\ \A j \in 1 .. n : Append(s, of)[j] = s[j]
        BY <2>1, <3>1, AppendProperties
      <3>3. trail' = Append(s, of)
        BY <1>12, <2>3, <3>1
      <3>4. DOMAIN trail' = 1 .. n + 1
        BY <3>2, <3>3, LenProperties
      <3>5. \A j \in DOMAIN trail : trail'[j] = trail[j]
        BY <1>1, <2>1, <3>1, <3>2, <3>3
      <3> QED
        BY <1>1, <2>1, <2>3, <3>1, <3>2, <3>3, <3>4, <3>5
    <2> QED
      BY <2>2, <2>3
  <1>14. \A k : Dismissals(k)' = Dismissals(k)
    BY <1>9, <1>11, <1>13 DEF Dismissals
  <1>15. DismissalsLogged'
    <2>1. \A j \in DOMAIN trail' : trail'[j].about = 0 \/ trail'[j].about \in DOMAIN reports'
      BY <1>2, <1>9, <1>11, <1>13 DEF ReportInv, DismissalsLogged
    <2>2. ASSUME NEW k \in DOMAIN reports
          PROVE  IF reports'[k].status = "dismissed" THEN \E j \in DOMAIN trail' : Dismissals(k)' = {j}
                 ELSE Dismissals(k)' = {}
      BY <1>3, <1>13, <1>14 DEF ReportInv, DismissalsLogged
    <2> QED
      BY <1>2, <2>1, <2>2 DEF DismissalsLogged
  <1>16. CloseLogged'
    BY <1>1, <1>6, <1>9, <1>11, <1>13 DEF ReportInv, CloseLogged
  <1>17. DecidedForGood
    BY <1>2, <1>3 DEF DecidedForGood, StillOpen
  <1>18. ActionedLogged'
    <2>1. ASSUME NEW j \in DOMAIN trail', trail'[j].to = "actioned", j \notin DOMAIN trail
          PROVE  trail'[j].about = i /\ CameBy(j, i)'
      <3>1. j = n + 1 /\ trail'[j] = of /\ i \in DOMAIN reports
        BY <1>9, <1>13, <2>1
      <3>2. j - 1 \in DOMAIN trail' /\ trail'[j - 1].to = "closed"
        BY <1>1, <1>9, <1>13, <3>1
      <3>3. CASE reports[i].status = "open"
        BY <1>2, <1>3, <1>11, <3>1, <3>2, <3>3 DEF CameBy
      <3>4. CASE reports[i].status = "dismissed"
        <4>1. PICK h \in DOMAIN trail : Dismissals(i) = {h}
          BY <3>1, <3>4 DEF ReportInv, DismissalsLogged
        <4>2. h \in Dismissals(i)' /\ h < j
          BY <1>1, <1>14, <3>1, <4>1
        <4> QED
          BY <1>2, <1>11, <3>1, <3>2, <4>2 DEF CameBy
      <3>5. reports[i].status \in {"open", "dismissed"}
        BY <1>1, <1>5, <3>1 DEF Report, ActionedReports
      <3> QED
        BY <3>3, <3>4, <3>5
    <2>2. ASSUME NEW j \in DOMAIN trail, NEW k, trail[j].to = "actioned", trail[j].about = k
          PROVE  CameBy(j, k)'
      BY <1>2, <1>13, <1>17, <2>2, ActionedLasts DEF ActionedLogged, ReportInv
    <2> QED
      BY <1>13, <2>1, <2>2 DEF ActionedLogged
  <1> QED
    BY <1>1, <1>2, <1>4, <1>13, <1>15, <1>16, <1>17, <1>18

LEMMA ReportsNextKeeps ==
  ASSUME ReportInv, ReportsNext
  PROVE  ReportInv' /\ DecidedForGood
  <1>1. ASSUME NEW f \in Filings, NEW a \in Reporters, FileProbe(f, a)
        PROVE  ReportInv' /\ DecidedForGood
    BY <1>1, LogStays DEF FileProbe, ReportInv, ReportsTyped
  <1>2. ASSUME NEW v \in Resolvers, NEW i \in DOMAIN reports, ResolveRead(v, i)
        PROVE  ReportInv' /\ DecidedForGood
    BY <1>2, LogStays, ReportFacts DEF ResolveRead, ReportInv, ReportsTyped
  <1>3. ASSUME NEW v \in Resolvers, ResolveByClose(v)
        PROVE  ReportInv' /\ DecidedForGood
    <2>1. PICK i \in DOMAIN reports : i = resolving[v]
      BY <1>3 DEF ResolveByClose, ReportInv, ReportsTyped
    <2>2. PlatformClose(i) /\ resolving' = [resolving EXCEPT ![v] = 0] /\ filing' = filing
      BY <1>3, <2>1 DEF ResolveByClose, Resolved, PlatformClose
    <2> QED
      BY <2>2, CloseKeeps DEF ReportInv, ReportsTyped
  <1>4. ASSUME NEW v \in Resolvers, ResolveRefused(v)
        PROVE  ReportInv' /\ DecidedForGood
    BY <1>4, LogStays DEF ResolveRefused, Resolved, ReportInv, ReportsTyped
  <1>5. ASSUME PlatformClose(0), UNCHANGED resolving
        PROVE  ReportInv' /\ DecidedForGood
    BY <1>5, CloseKeeps DEF ReportInv, ReportsTyped, PlatformClose
  <1> QED
    BY <1>1, <1>2, <1>3, <1>4, <1>5, InsertKeeps, DismissKeeps DEF ReportsNext

LEMMA ReportInvNext ==
  ASSUME ReportInv, [PlatformNext]_platformVars
  PROVE  ReportInv' /\ DecidedForGood
  <1>1. CASE UNCHANGED reportVars
    BY <1>1, LogStays DEF reportVars, ReportInv, ReportsTyped
  <1>2. CASE ReportsStep
    BY <1>2, ReportsNextKeeps DEF ReportsStep
  <1> QED
    BY <1>1, <1>2 DEF PlatformNext, OwnersStep, MemoriesStep, HarnessStep, ReceiptsStep, LimiterStep, platformVars

LEMMA ReportInvInit == PlatformInit => ReportInv
  <1> SUFFICES ASSUME PlatformInit PROVE ReportInv
    OBVIOUS
  <1>1. /\ taskClosed = FALSE /\ reports = <<>> /\ trail = <<>>
        /\ filing = [f \in Filings |-> [step |-> "idle"]] /\ resolving = [v \in Resolvers |-> 0]
    BY DEF PlatformInit, ReportsInit
  <1>2. DOMAIN reports = {} /\ DOMAIN trail = {}
    BY <1>1
  <1>3. ReportsTyped
    <2>1. reports \in Seq(Report) /\ trail \in Seq(TrailRow)
      BY <1>1, EmptySeq
    <2> QED
      BY <1>1, <2>1 DEF ReportsTyped
  <1> QED
    BY <1>1, <1>2, <1>3 DEF ReportInv, DismissalsLogged, CloseLogged, ActionedLogged, ActionedReports

\* A report is decided once, for good, and the audit log tells of every dismissal and of how
\* many the close decided; of the report by which a close came it tells the truth, or what
\* an earlier row of it contradicts: for any number of administrators that act on what they
\* have read.
THEOREM DecisionsAreLogged == PlatformSpec => DecisionsStand
  <1>1. ReportInv /\ [PlatformNext]_platformVars => ReportInv' /\ DecidedForGood
    BY ReportInvNext
  <1>2. ReportInv' => TrailAgreesWithReports'
    BY InvTells, PTL
  <1> QED
    BY <1>1, <1>2, ReportInvInit, PTL DEF PlatformSpec, DecisionsStand

-----------------------------------------------------------------------------
(***************************************************************************)
(* MEMORIES.  A version, once written, is in the row or in the archive for *)
(* good; what a request remembers of a version it has read cannot become   *)
(* false, whatever happens to the row before its next statement.           *)
(***************************************************************************)

\* What a request remembers between its statements.
MemoryCall ==
    {NoMemoryRequest}
    \cup [step : {"update", "share", "unshare", "delete"}, agent : Nat, code : MemoryCodes]
    \cup [step : {"pin"}, agent : Nat, code : MemoryCodes, kind : {"entry", "delivery"}, revision : Nat]
    \cup [step : {"delivered"}, agent : Nat, code : MemoryCodes, revision : Nat]
    \cup [step : {"archive"}, agent : Nat, how : {"revision", "delivered"}, code : MemoryCodes, revision : Nat,
          present : BOOLEAN]
    \cup [step : {"archive"}, agent : Nat, how : {"pinned"}, code : MemoryCodes, revision : Nat,
          present : BOOLEAN, under : Nat]
    \cup [step : {"claim"}, agent : Nat, pins : SUBSET (MemoryCodes \X Nat)]
    \cup [step : {"harness", "live"}, agent : Nat, code : MemoryCodes, under : Nat]

Engagement == [agent : Nat, active : BOOLEAN, refs : SUBSET MemoryCodes, pins : SUBSET (MemoryCodes \X Nat)]

\* A version there is.
Has(k, v) == <<k, v>> \in DOMAIN written

MemoriesTyped == memory \in [MemoryCodes -> MemoryRow \cup {Absent}]

VersionsOK ==
    /\ DOMAIN written \subseteq MemoryCodes \X Nat
    /\ DOMAIN archive \subseteq DOMAIN written
    /\ \A k \in MemoryCodes, v \in Nat :
         /\ Has(k, v) <=> Exists(k) /\ 1 <= v /\ v <= memory[k].revision
         /\ Has(k, v) =>
              IF v = memory[k].revision
              THEN memory[k].content = written[<<k, v>>] /\ <<k, v>> \notin DOMAIN archive
              ELSE <<k, v>> \in DOMAIN archive /\ archive[<<k, v>>] = written[<<k, v>>]

\* What the room refers to is a version there is.
PinOK(p) ==
    /\ p \in [kind : {"entry", "delivery"}, code : MemoryCodes, revision : Nat, author : Nat]
    /\ Exists(p.code) /\ Has(p.code, p.revision)

\* A claim pins one version of a memory.
ClaimedOK(s) ==
    /\ \A x \in s : Exists(x[1]) /\ x \in DOMAIN written
    /\ \A x, y \in s : x[1] = y[1] => x = y

\* Under no claim, or one that pins the version, if any, that the set allows.
UnderOK(u, k, vs) ==
    u # 0 => u \in DOMAIN engagements /\ \A x \in PinsOf(u, k) : x[2] \in vs

RequestOK(r) ==
    /\ r \in MemoryCall
    /\ r.step \in {"update", "share", "unshare", "delete", "pin", "delivered", "archive", "harness", "live"} =>
         Exists(r.code)
    /\ r.step \in {"pin", "delivered"} => Has(r.code, r.revision)
    /\ r.step = "archive" =>
         /\ r.present => 1 <= r.revision /\ r.revision < memory[r.code].revision
         /\ r.how = "pinned" => r.present /\ UnderOK(r.under, r.code, {r.revision})
    /\ r.step = "claim" => ClaimedOK(r.pins)
    /\ r.step = "harness" => UnderOK(r.under, r.code, Nat)
    /\ r.step = "live" => UnderOK(r.under, r.code, {})

RequestsOK ==
    /\ memoryRequest \in [MemoryRequests -> MemoryCall]
    /\ \A q \in MemoryRequests : RequestOK(memoryRequest[q])

AnswerOK(a) ==
    \/ a = NoAnswer
    \/ a.how = "missing" /\ a.was = FALSE
    \/ /\ a.how \in {"current", "revision", "delivered", "entry", "pinned", "live"}
       /\ a.code \in MemoryCodes /\ Exists(a.code) /\ <<a.code, a.revision>> \in DOMAIN written
       /\ a.content = written[<<a.code, a.revision>>]

EngagementsOK ==
    /\ named \subseteq MemoryCodes /\ \A k \in named : Exists(k)
    /\ engagements \in Seq(Engagement)
    /\ \A i \in DOMAIN engagements :
         ClaimedOK(engagements[i].pins) /\ \A k \in engagements[i].refs : Exists(k)

\* Tasks are worked on in the behaviours that exercise their input, in no other.
ForHarness(r) == r.step \in {"claim", "harness", "live"} \/ (r.step = "archive" /\ r.how = "pinned")
HarnessInFocus ==
    focus # "harness" =>
      /\ named = {} /\ engagements = <<>>
      /\ \A q \in MemoryRequests : ~ForHarness(memoryRequest[q])

MemoryInv ==
    /\ MemoriesTyped /\ VersionsOK /\ RequestsOK /\ EngagementsOK /\ HarnessInFocus
    /\ \A p \in pins : PinOK(p)
    /\ AnswerOK(answer)

-----------------------------------------------------------------------------
(* What a step may do.                                                     *)

\* Memories, their versions and what claims pin stay; a removed memory stays as it is.
HistoryKept ==
    /\ \A k \in MemoryCodes : Exists(k) =>
         /\ Exists(k)' /\ memory'[k].author = memory[k].author
         /\ memory[k].revision <= memory'[k].revision
         /\ memory[k].status = "deleted" =>
              /\ memory'[k].status = "deleted" /\ memory'[k].revision = memory[k].revision
              /\ memory'[k].content = memory[k].content
    /\ \A x \in DOMAIN written : x \in DOMAIN written' /\ written'[x] = written[x]
    /\ DOMAIN engagements \subseteq DOMAIN engagements'
    /\ \A i \in DOMAIN engagements : engagements'[i].pins = engagements[i].pins

\* The answer under a claim is the version it pins.
AnsweredUnder(r, a) ==
    r.step \in {"harness", "live", "archive"} /\ "under" \in DOMAIN r /\ r.under # 0 /\ a # NoAnswer =>
      /\ a.how # "missing"
      /\ \A x \in PinsOf(r.under, r.code) : a.revision = x[2] /\ a.content = written[x]

PinnedAnswers ==
    \A q \in MemoryRequests :
      memoryRequest'[q] = NoMemoryRequest => AnsweredUnder(memoryRequest[q], answer')

MemoryStepOK == MemoryInv' /\ HistoryKept /\ PinnedAnswers

-----------------------------------------------------------------------------
(* Shapes.                                                                 *)

LEMMA MemoryCallFields ==
  ASSUME NEW r \in MemoryCall
  PROVE  /\ r.step \in {"idle", "update", "share", "unshare", "delete", "pin", "delivered", "archive", "claim",
                        "harness", "live"}
         /\ r.step \in {"update", "share", "unshare", "delete", "pin", "delivered", "archive", "harness", "live"} =>
              r.agent \in Nat /\ r.code \in MemoryCodes
         /\ r.step \in {"pin", "delivered", "archive"} => r.revision \in Nat
         /\ r.step = "pin" => r.kind \in {"entry", "delivery"}
         /\ r.step = "archive" => r.how \in {"revision", "delivered", "pinned"} /\ r.present \in BOOLEAN
         /\ r.step \in {"harness", "live"} => r.under \in Nat
         /\ r.step = "claim" => r.agent \in Nat /\ r.pins \subseteq MemoryCodes \X Nat
         /\ r.step = "idle" => r = NoMemoryRequest
  BY DEF MemoryCall, NoMemoryRequest

LEMMA UnderIsPinned ==
  ASSUME NEW r \in MemoryCall, r.step = "archive", "under" \in DOMAIN r
  PROVE  r.how = "pinned" /\ r.under \in Nat
  <1> DEFINE Plain == [step : {"archive"}, agent : Nat, how : {"revision", "delivered"}, code : MemoryCodes,
                       revision : Nat, present : BOOLEAN]
             Pinned == [step : {"archive"}, agent : Nat, how : {"pinned"}, code : MemoryCodes, revision : Nat,
                        present : BOOLEAN, under : Nat]
  <1>1. r \in Plain \/ r \in Pinned
    BY DEF MemoryCall, NoMemoryRequest
  <1>2. ASSUME NEW x \in Plain PROVE "under" \notin DOMAIN x
    <2>1. DOMAIN x = {"step", "agent", "how", "code", "revision", "present"}
      BY <1>2
    <2> QED
      BY <2>1
  <1>3. r \in Pinned
    BY <1>1, <1>2
  <1> QED
    BY <1>3

LEMMA RowFields ==
  ASSUME MemoriesTyped, NEW k \in MemoryCodes, Exists(k)
  PROVE  /\ memory[k] \in MemoryRow /\ memory[k].author \in Nat /\ memory[k].revision \in Nat
         /\ memory[k].revision >= 1 /\ memory[k].status \in {"active", "deleted"}
         /\ memory[k].visibility \in {"private", "public"} /\ memory[k].content \in Contents
  <1>1. memory[k] \in MemoryRow
    BY DEF MemoriesTyped, Exists
  <1> QED
    BY <1>1 DEF MemoryRow

\* A version of a memory as the row or the archive has it.
LEMMA VersionRead ==
  ASSUME MemoriesTyped, VersionsOK, NEW k \in MemoryCodes, NEW v \in Nat, Has(k, v)
  PROVE  /\ Exists(k) /\ 1 <= v /\ v <= memory[k].revision
         /\ v = memory[k].revision => memory[k].content = written[<<k, v>>]
         /\ v # memory[k].revision =>
              v < memory[k].revision /\ <<k, v>> \in DOMAIN archive /\ archive[<<k, v>>] = written[<<k, v>>]
  <1>1. /\ Exists(k) /\ 1 <= v /\ v <= memory[k].revision
        /\ IF v = memory[k].revision
           THEN memory[k].content = written[<<k, v>>] /\ <<k, v>> \notin DOMAIN archive
           ELSE <<k, v>> \in DOMAIN archive /\ archive[<<k, v>>] = written[<<k, v>>]
    BY DEF VersionsOK
  <1>2. memory[k].revision \in Nat
    BY <1>1, RowFields
  <1>3. v # memory[k].revision => v < memory[k].revision
    BY <1>1, <1>2
  <1> QED
    BY <1>1, <1>3

LEMMA PresentVersion ==
  ASSUME MemoriesTyped, VersionsOK, NEW k \in MemoryCodes, Exists(k)
  PROVE  Has(k, memory[k].revision) /\ memory[k].content = written[<<k, memory[k].revision>>]
  BY RowFields DEF VersionsOK

LEMMA VersionsTell == MemoryInv => EveryVersionKept
  <1> SUFFICES ASSUME MemoryInv PROVE EveryVersionKept
    OBVIOUS
  <1>1. DOMAIN written = UNION {{k} \X (1 .. memory[k].revision) : k \in {k \in MemoryCodes : Exists(k)}}
    <2>1. ASSUME NEW x \in DOMAIN written
          PROVE  x \in UNION {{k} \X (1 .. memory[k].revision) : k \in {k \in MemoryCodes : Exists(k)}}
      <3>1. PICK k \in MemoryCodes, v \in Nat : x = <<k, v>>
        BY <2>1 DEF MemoryInv, VersionsOK
      <3>2. Exists(k) /\ v \in 1 .. memory[k].revision
        BY <2>1, <3>1, RowFields DEF MemoryInv, VersionsOK, Has
      <3> QED
        BY <3>1, <3>2
    <2>2. ASSUME NEW k \in MemoryCodes, Exists(k), NEW x \in {k} \X (1 .. memory[k].revision)
          PROVE  x \in DOMAIN written
      BY <2>2, RowFields DEF MemoryInv, VersionsOK, Has
    <2> QED
      BY <2>1, <2>2
  <1>2. ASSUME NEW x \in DOMAIN written
        PROVE  IF x[2] = memory[x[1]].revision
               THEN memory[x[1]].content = written[x] /\ x \notin DOMAIN archive
               ELSE x \in DOMAIN archive /\ archive[x] = written[x]
    <2>1. PICK k \in MemoryCodes, v \in Nat : x = <<k, v>>
      BY <1>2 DEF MemoryInv, VersionsOK
    <2> QED
      BY <1>2, <2>1 DEF MemoryInv, VersionsOK, Has
  <1> QED
    BY <1>1, <1>2 DEF EveryVersionKept, MemoryInv, VersionsOK, PinOK, Has

LEMMA AnswersTell == MemoryInv => AnswersAsWritten
  BY DEF MemoryInv, AnswerOK, AnswersAsWritten, NoAnswer

-----------------------------------------------------------------------------
(* What lasts.                                                             *)

LEMMA PinsOfLast ==
  ASSUME HistoryKept, NEW u \in DOMAIN engagements, NEW k
  PROVE  u \in DOMAIN engagements' /\ PinsOf(u, k)' = PinsOf(u, k)
  BY DEF HistoryKept, PinsOf

LEMMA ClaimedLasts ==
  ASSUME HistoryKept, NEW s \in SUBSET (MemoryCodes \X Nat), ClaimedOK(s)
  PROVE  ClaimedOK(s)'
  BY DEF HistoryKept, ClaimedOK

LEMMA UnderLasts ==
  ASSUME HistoryKept, NEW u, NEW k, NEW vs, UnderOK(u, k, vs)
  PROVE  UnderOK(u, k, vs)'
  BY PinsOfLast DEF UnderOK

\* What a request remembers stays so.
LEMMA RequestLasts ==
  ASSUME MemoriesTyped, MemoriesTyped', HistoryKept, NEW r, RequestOK(r)
  PROVE  RequestOK(r)'
  <1>1. r \in MemoryCall
    BY DEF RequestOK
  <1>2. CASE r.step \in {"idle", "claim"}
    BY <1>1, <1>2, MemoryCallFields, ClaimedLasts DEF RequestOK
  <1>3. CASE r.step \notin {"idle", "claim"}
    <2>1. /\ r.code \in MemoryCodes /\ Exists(r.code) /\ Exists(r.code)'
          /\ memory'[r.code].author = memory[r.code].author
          /\ memory[r.code].revision <= memory'[r.code].revision
          /\ memory[r.code].revision \in Nat /\ memory'[r.code].revision \in Nat
      <3>1. r.code \in MemoryCodes /\ Exists(r.code)
        BY <1>1, <1>3, MemoryCallFields DEF RequestOK
      <3>2. Exists(r.code)'
        BY <3>1 DEF HistoryKept
      <3>3. memory'[r.code].revision \in Nat
        BY <3>1, <3>2 DEF MemoriesTyped, MemoryRow, Exists
      <3> QED
        BY <3>1, <3>2, <3>3, RowFields DEF HistoryKept
    <2>2. r.step \in {"pin", "delivered"} => Has(r.code, r.revision)'
      BY DEF RequestOK, Has, HistoryKept
    <2>3. r.step = "archive" => (r.present => 1 <= r.revision /\ r.revision < memory'[r.code].revision)
      BY <1>1, <2>1, MemoryCallFields DEF RequestOK
    <2>4. r.step = "archive" => (r.how = "pinned" => r.present /\ UnderOK(r.under, r.code, {r.revision})')
      BY UnderLasts DEF RequestOK
    <2>5. (r.step = "harness" => UnderOK(r.under, r.code, Nat)') /\ (r.step = "live" => UnderOK(r.under, r.code, {})')
      BY UnderLasts DEF RequestOK
    <2> QED
      BY <1>1, <1>3, <2>1, <2>2, <2>3, <2>4, <2>5 DEF RequestOK
  <1> QED
    BY <1>2, <1>3

LEMMA AnswerLasts ==
  ASSUME HistoryKept, NEW a, AnswerOK(a)
  PROVE  AnswerOK(a)'
  BY DEF AnswerOK, HistoryKept

LEMMA PinLasts ==
  ASSUME HistoryKept, NEW p, PinOK(p)
  PROVE  PinOK(p)'
  BY DEF PinOK, HistoryKept, Has

LEMMA EngagementsLast ==
  ASSUME MemoryInv, HistoryKept, UNCHANGED <<named, engagements>>
  PROVE  EngagementsOK'
  <1>1. ASSUME NEW i \in DOMAIN engagements
        PROVE  ClaimedOK(engagements[i].pins)' /\ \A k \in engagements[i].refs : Exists(k)'
    <2>1. engagements[i] \in Engagement
      BY <1>1, LenProperties DEF MemoryInv, EngagementsOK
    <2>2. PICK s \in SUBSET (MemoryCodes \X Nat), ks \in SUBSET MemoryCodes :
            s = engagements[i].pins /\ ks = engagements[i].refs
      BY <2>1 DEF Engagement
    <2>3. ClaimedOK(s) /\ \A k \in ks : Exists(k)
      BY <1>1, <2>2 DEF MemoryInv, EngagementsOK
    <2>4. ClaimedOK(s)' /\ \A k \in ks : Exists(k)'
      BY <2>3, ClaimedLasts DEF HistoryKept
    <2> QED
      BY <2>2, <2>4 DEF ClaimedOK
  <1> QED
    BY <1>1 DEF MemoryInv, EngagementsOK, HistoryKept

\* No memory moves.
LEMMA HistoryStays ==
  ASSUME MemoriesTyped, UNCHANGED <<memory, written, engagements>>
  PROVE  HistoryKept
  BY RowFields DEF HistoryKept, Exists

\* Status and visibility change.
LEMMA VersionsStay ==
  ASSUME VersionsOK, UNCHANGED <<written, archive>>,
         \A k \in MemoryCodes :
            /\ Exists(k)' <=> Exists(k)
            /\ Exists(k) => memory'[k].revision = memory[k].revision /\ memory'[k].content = memory[k].content
  PROVE  VersionsOK'
  BY DEF VersionsOK, Has

-----------------------------------------------------------------------------
(* Steps of requests.                                                      *)

LEMMA RequestsMove ==
  ASSUME MemoryInv, MemoriesTyped', HistoryKept, NEW q \in MemoryRequests, NEW r, RequestOK(r)', Becomes(q, r)
  PROVE  RequestsOK'
  <1>1. r \in MemoryCall
    BY DEF RequestOK
  <1>2. \A p \in MemoryRequests : memoryRequest'[p] = IF p = q THEN r ELSE memoryRequest[p]
    BY DEF Becomes, MemoryInv, RequestsOK
  <1>3. memoryRequest' \in [MemoryRequests -> MemoryCall]
    BY <1>1 DEF Becomes, MemoryInv, RequestsOK
  <1>4. ASSUME NEW p \in MemoryRequests, NEW x, x = memoryRequest'[p]
        PROVE  RequestOK(x)'
    <2>1. CASE p = q
      BY <1>2, <1>4, <2>1
    <2>2. CASE p # q
      <3>1. x = memoryRequest[p]
        BY <1>2, <1>4, <2>2
      <3>2. RequestOK(x)
        BY <3>1 DEF MemoryInv, RequestsOK
      <3> QED
        BY <3>2, RequestLasts DEF MemoryInv
    <2> QED
      BY <2>1, <2>2
  <1>5. \A p \in MemoryRequests : RequestOK(memoryRequest[p])'
    BY <1>4 DEF RequestOK
  <1> QED
    BY <1>3, <1>5 DEF RequestsOK

LEMMA RequestsStay ==
  ASSUME MemoryInv, MemoriesTyped', HistoryKept, UNCHANGED memoryRequest
  PROVE  RequestsOK'
  <1>1. ASSUME NEW p \in MemoryRequests, NEW x, x = memoryRequest'[p]
        PROVE  RequestOK(x)'
    BY <1>1, RequestLasts DEF MemoryInv, RequestsOK
  <1>2. \A p \in MemoryRequests : RequestOK(memoryRequest[p])'
    BY <1>1 DEF RequestOK
  <1> QED
    BY <1>2 DEF RequestsOK, MemoryInv

LEMMA FocusMoves ==
  ASSUME MemoryInv, UNCHANGED focus, NEW q \in MemoryRequests, NEW r, Becomes(q, r),
         focus # "harness" => ~ForHarness(r) /\ UNCHANGED <<named, engagements>>
  PROVE  HarnessInFocus'
  <1>1. \A p \in MemoryRequests : memoryRequest'[p] = IF p = q THEN r ELSE memoryRequest[p]
    BY DEF Becomes, MemoryInv, RequestsOK
  <1> QED
    BY <1>1 DEF HarnessInFocus, MemoryInv, ForHarness

LEMMA FocusStays ==
  ASSUME MemoryInv, UNCHANGED <<focus, memoryRequest>>,
         focus # "harness" => UNCHANGED <<named, engagements>>
  PROVE  HarnessInFocus'
  BY DEF HarnessInFocus, MemoryInv, ForHarness

\* All of the invariant.
LEMMA Assembled ==
  ASSUME MemoriesTyped', VersionsOK', RequestsOK', EngagementsOK', HarnessInFocus', \A p \in pins' : PinOK(p)',
         AnswerOK(answer)'
  PROVE  MemoryInv'
  BY DEF MemoryInv

LEMMA NoAnswerOK == AnswerOK(NoAnswer) /\ AnswerOK(NoAnswer)'
  BY DEF AnswerOK

LEMMA NoMemoryRequestOK ==
  /\ RequestOK(NoMemoryRequest) /\ RequestOK(NoMemoryRequest)' /\ ~ForHarness(NoMemoryRequest)
  BY DEF RequestOK, MemoryCall, NoMemoryRequest, ForHarness

LEMMA UnansweredPinned ==
  ASSUME answer' = NoAnswer
  PROVE  PinnedAnswers
  BY DEF PinnedAnswers, AnsweredUnder

LEMMA OneAnswered ==
  ASSUME MemoryInv, NEW q \in MemoryRequests, NEW r, Becomes(q, r),
         r = NoMemoryRequest => AnsweredUnder(memoryRequest[q], answer')
  PROVE  PinnedAnswers
  <1>1. \A p \in MemoryRequests : memoryRequest'[p] = IF p = q THEN r ELSE memoryRequest[p]
    BY DEF Becomes, MemoryInv, RequestsOK
  <1> QED
    BY <1>1 DEF PinnedAnswers, AnsweredUnder, NoMemoryRequest

\* A request reads, and perhaps answers.
LEMMA ReadKeeps ==
  ASSUME MemoryInv, UNCHANGED <<focus, memory, archive, pins, written, named, engagements>>,
         NEW q \in MemoryRequests, NEW r, RequestOK(r)', Becomes(q, r), focus # "harness" => ~ForHarness(r),
         AnswerOK(answer)', r = NoMemoryRequest => AnsweredUnder(memoryRequest[q], answer')
  PROVE  MemoryStepOK
  <1>1. MemoriesTyped' /\ HistoryKept
    BY HistoryStays DEF MemoryInv, MemoriesTyped
  <1>2. VersionsOK'
    BY VersionsStay DEF MemoryInv, Exists
  <1>3. \A p \in pins' : PinOK(p)'
    BY <1>1, PinLasts DEF MemoryInv
  <1>4. RequestsOK' /\ EngagementsOK' /\ HarnessInFocus' /\ PinnedAnswers
    BY <1>1, RequestsMove, EngagementsLast, FocusMoves, OneAnswered
  <1> QED
    BY <1>1, <1>2, <1>3, <1>4, Assembled DEF MemoryStepOK

\* A request ends or a memory's row changes, without an answer.
LEMMA WriteKeeps ==
  ASSUME MemoryInv, UNCHANGED <<focus, named, engagements>>, HistoryKept, MemoriesTyped', VersionsOK',
         RequestsOK', HarnessInFocus', \A p \in pins' : PinOK(p)', answer' = NoAnswer
  PROVE  MemoryStepOK
  <1>1. AnswerOK(answer)'
    BY NoAnswerOK DEF AnswerOK, NoAnswer
  <1> QED
    BY <1>1, EngagementsLast, UnansweredPinned, Assembled DEF MemoryStepOK

-----------------------------------------------------------------------------
(* Writing.                                                                *)

LEMMA AgentIsNat ==
  ASSUME OwnerInv, NEW a, Active(a)
  PROVE  a \in Nat
  BY BotFields DEF OwnerInv, Active

LEMMA RequestNow ==
  ASSUME MemoryInv, UNCHANGED <<memory, written, engagements>>, NEW r, RequestOK(r)
  PROVE  RequestOK(r)'
  BY RequestLasts, HistoryStays DEF MemoryInv, MemoriesTyped

LEMMA Silent ==
  ASSUME answer' = NoAnswer
  PROVE  AnswerOK(answer)' /\ \A r : AnsweredUnder(r, answer')
  BY NoAnswerOK DEF AnswerOK, NoAnswer, AnsweredUnder

\* What a request has asked for and remembers.
LEMMA Asked ==
  ASSUME MemoryInv, NEW q \in MemoryRequests
  PROVE  /\ memoryRequest[q] \in MemoryCall /\ RequestOK(memoryRequest[q])
         /\ focus # "harness" => ~ForHarness(memoryRequest[q])
  BY DEF MemoryInv, RequestsOK, RequestOK, HarnessInFocus

\* A row changes its status or its visibility.
LEMMA RowChangesSharing ==
  ASSUME MemoryInv, NEW k \in MemoryCodes, Exists(k), NEW row \in MemoryRow,
         row.author = memory[k].author, row.revision = memory[k].revision, row.content = memory[k].content,
         memory[k].status = "deleted" => row.status = "deleted",
         memory' = [memory EXCEPT ![k] = row], UNCHANGED <<archive, written, engagements>>
  PROVE  HistoryKept /\ MemoriesTyped' /\ VersionsOK'
  <1>1. MemoriesTyped'
    BY DEF MemoryInv, MemoriesTyped
  <1>2. \A x \in MemoryCodes : memory'[x] = IF x = k THEN row ELSE memory[x]
    BY DEF MemoryInv, MemoriesTyped
  <1>3. \A x \in MemoryCodes : Exists(x)' <=> Exists(x)
    BY <1>2, MemoriesAssumption DEF Exists
  <1>4. HistoryKept
    BY <1>2, <1>3, RowFields DEF MemoryInv, HistoryKept
  <1>5. VersionsOK'
    BY <1>2, <1>3, VersionsStay DEF MemoryInv
  <1> QED
    BY <1>1, <1>4, <1>5

LEMMA PinsStay ==
  ASSUME MemoryInv, HistoryKept, UNCHANGED pins
  PROVE  \A p \in pins' : PinOK(p)'
  BY PinLasts DEF MemoryInv

LEMMA PushCreateKeeps ==
  ASSUME MemoryInv, OwnerInv, UNCHANGED <<focus, named, engagements>>, answer' = NoAnswer,
         NEW q \in MemoryRequests, NEW a, NEW k \in MemoryCodes, NEW content \in Contents, PushCreate(q, a, k, content)
  PROVE  MemoryStepOK
  <1>1. PICK row : row = [author |-> a, status |-> "active", visibility |-> "private", revision |-> 1,
                          content |-> content]
    OBVIOUS
  <1>2. row \in MemoryRow /\ row.revision = 1 /\ row.content = content /\ row # Absent
    BY <1>1, AgentIsNat, MemoriesAssumption DEF PushCreate, Starts, MemoryRow
  <1>3. /\ memory[k] = Absent /\ memory' = [memory EXCEPT ![k] = row]
        /\ written' = [x \in DOMAIN written \cup {<<k, 1>>} |-> IF x = <<k, 1>> THEN content ELSE written[x]]
        /\ Becomes(q, NoMemoryRequest) /\ archive' = archive /\ pins' = pins
    BY <1>1 DEF PushCreate, Exists, Ends
  <1>4. /\ MemoriesTyped'
        /\ \A x \in MemoryCodes : memory'[x] = IF x = k THEN row ELSE memory[x]
    BY <1>2, <1>3 DEF MemoryInv, MemoriesTyped
  <1>5. \A x \in MemoryCodes : Exists(x)' <=> Exists(x) \/ x = k
    BY <1>2, <1>3, <1>4 DEF Exists
  <1>6. \A v \in Nat : <<k, v>> \notin DOMAIN written /\ <<k, v>> \notin DOMAIN archive
    BY <1>3 DEF MemoryInv, VersionsOK, Has, Exists
  <1>7. HistoryKept
    <2>1. \A x \in DOMAIN written : x \in DOMAIN written' /\ written'[x] = written[x]
      BY <1>3, <1>6
    <2>2. \A x \in MemoryCodes : Exists(x) => x # k
      BY <1>3 DEF Exists
    <2> QED
      BY <1>4, <1>5, <2>1, <2>2, RowFields DEF HistoryKept, MemoryInv
  <1>8. VersionsOK'
    <2>1. DOMAIN written' = DOMAIN written \cup {<<k, 1>>} /\ DOMAIN archive \subseteq DOMAIN written
          /\ DOMAIN written \subseteq MemoryCodes \X Nat
      BY <1>3 DEF MemoryInv, VersionsOK
    <2>2. ASSUME NEW x \in MemoryCodes, NEW v \in Nat
          PROVE  /\ Has(x, v)' <=> Exists(x)' /\ 1 <= v /\ v <= memory'[x].revision
                 /\ Has(x, v)' =>
                      IF v = memory'[x].revision
                      THEN memory'[x].content = written'[<<x, v>>] /\ <<x, v>> \notin DOMAIN archive'
                      ELSE <<x, v>> \in DOMAIN archive' /\ archive'[<<x, v>>] = written'[<<x, v>>]
      <3>1. CASE x = k
        <4>1. Has(x, v)' <=> v = 1
          BY <1>6, <2>1, <3>1 DEF Has
        <4>2. Exists(x)' /\ memory'[x].revision = 1 /\ memory'[x].content = content
          BY <1>2, <1>4, <1>5, <3>1
        <4> QED
          BY <1>3, <1>6, <3>1, <4>1, <4>2
      <3>2. CASE x # k
        <4>1. /\ memory'[x] = memory[x] /\ (Exists(x)' <=> Exists(x)) /\ (Has(x, v)' <=> Has(x, v))
              /\ (Has(x, v) => written'[<<x, v>>] = written[<<x, v>>])
          BY <1>3, <1>4, <1>5, <2>1, <3>2 DEF Has
        <4> QED
          BY <1>3, <4>1 DEF MemoryInv, VersionsOK
      <3> QED
        BY <3>1, <3>2
    <2> QED
      <3>1. DOMAIN written' \subseteq MemoryCodes \X Nat /\ DOMAIN archive' \subseteq DOMAIN written'
        BY <1>3, <2>1
      <3> QED
        BY <2>2, <3>1 DEF VersionsOK
  <1> QED
    BY <1>3, <1>4, <1>7, <1>8, WriteKeeps, PinsStay, RequestsMove, FocusMoves, NoMemoryRequestOK

LEMMA PushUpdateKeeps ==
  ASSUME MemoryInv, OwnerInv, UNCHANGED <<focus, named, engagements>>, answer' = NoAnswer,
         NEW q \in MemoryRequests, NEW content \in Contents, PushUpdate(q, content)
  PROVE  MemoryStepOK
  <1>1. PICK k \in MemoryCodes : k = memoryRequest[q].code /\ Exists(k) /\ memory[k].status = "active"
    BY Asked, MemoryCallFields DEF PushUpdate, Locked, Owns, IsActive
  <1>2. PICK rev \in Nat : rev = memory[k].revision /\ rev >= 1
    BY <1>1, RowFields DEF MemoryInv
  <1>3. PICK row : row = [memory[k] EXCEPT !.content = content, !.revision = rev + 1]
    OBVIOUS
  <1>4. /\ row \in MemoryRow /\ row.revision = rev + 1 /\ row.content = content
        /\ row.author = memory[k].author /\ row # Absent
    <2>1. PICK old \in MemoryRow : old = memory[k]
      BY <1>1, RowFields DEF MemoryInv
    <2>2. row \in MemoryRow /\ row.revision = rev + 1 /\ row.content = content /\ row.author = old.author
      <3>1. row = [old EXCEPT !.content = content, !.revision = rev + 1]
        BY <1>3, <2>1
      <3>2. rev + 1 \in Nat \ {0}
        BY <1>2
      <3> QED
        BY <3>1, <3>2 DEF MemoryRow
    <2> QED
      BY <2>1, <2>2, MemoriesAssumption
  <1> DEFINE was == <<k, rev>>
             now == <<k, rev + 1>>
  <1>5. /\ memory' = [memory EXCEPT ![k] = row]
        /\ archive' = [x \in DOMAIN archive \cup {was} |-> IF x = was THEN memory[k].content ELSE archive[x]]
        /\ written' = [x \in DOMAIN written \cup {now} |-> IF x = now THEN content ELSE written[x]]
        /\ Becomes(q, NoMemoryRequest) /\ pins' = pins
    <2>1. memory' = [memory EXCEPT ![k].content = content, ![k].revision = @ + 1]
      BY <1>1 DEF PushUpdate, Overwritten
    <2>2. memory' = [memory EXCEPT ![k] = row]
      BY <1>1, <1>2, <1>3, <2>1 DEF MemoryInv, MemoriesTyped
    <2> QED
      BY <1>1, <1>2, <2>2 DEF PushUpdate, Archived, Ends
  <1>6. /\ MemoriesTyped'
        /\ \A x \in MemoryCodes : memory'[x] = IF x = k THEN row ELSE memory[x]
    BY <1>4, <1>5 DEF MemoryInv, MemoriesTyped
  <1>7. \A x \in MemoryCodes : Exists(x)' <=> Exists(x)
    BY <1>1, <1>4, <1>6 DEF Exists
  <1>8. /\ now \notin DOMAIN written /\ was \in DOMAIN written /\ written[was] = memory[k].content
        /\ now \notin DOMAIN archive
    BY <1>1, <1>2 DEF MemoryInv, VersionsOK, Has
  <1>9. HistoryKept
    <2>1. \A x \in DOMAIN written : x \in DOMAIN written' /\ written'[x] = written[x]
      BY <1>5, <1>8
    <2>2. memory[k].revision <= memory'[k].revision
      BY <1>2, <1>4, <1>6
    <2> QED
      BY <1>1, <1>4, <1>6, <1>7, <2>1, <2>2, RowFields DEF HistoryKept, MemoryInv
  <1>10. VersionsOK'
    <2>1. /\ DOMAIN written' = DOMAIN written \cup {now} /\ DOMAIN archive' = DOMAIN archive \cup {was}
          /\ DOMAIN archive \subseteq DOMAIN written /\ DOMAIN written \subseteq MemoryCodes \X Nat
          /\ now \in MemoryCodes \X Nat
      BY <1>2, <1>5 DEF MemoryInv, VersionsOK
    <2>2. ASSUME NEW x \in MemoryCodes, NEW v \in Nat
          PROVE  /\ Has(x, v)' <=> Exists(x)' /\ 1 <= v /\ v <= memory'[x].revision
                 /\ Has(x, v)' =>
                      IF v = memory'[x].revision
                      THEN memory'[x].content = written'[<<x, v>>] /\ <<x, v>> \notin DOMAIN archive'
                      ELSE <<x, v>> \in DOMAIN archive' /\ archive'[<<x, v>>] = written'[<<x, v>>]
      <3>1. /\ Has(x, v) <=> Exists(x) /\ 1 <= v /\ v <= memory[x].revision
            /\ Has(x, v) =>
                 IF v = memory[x].revision
                 THEN memory[x].content = written[<<x, v>>] /\ <<x, v>> \notin DOMAIN archive
                 ELSE <<x, v>> \in DOMAIN archive /\ archive[<<x, v>>] = written[<<x, v>>]
        BY DEF MemoryInv, VersionsOK
      <3>2. CASE x = k /\ v = rev + 1
        <4>1. memory'[x].revision = rev + 1 /\ memory'[x].content = content /\ Exists(x)' /\ <<x, v>> = now
          BY <1>1, <1>4, <1>6, <1>7, <3>2
        <4>2. written'[now] = content /\ now \in DOMAIN written' /\ now \notin DOMAIN archive'
          BY <1>5, <1>8, <2>1
        <4> QED
          BY <1>2, <3>2, <4>1, <4>2 DEF Has
      <3>3. CASE x = k /\ v # rev + 1
        <4>1. memory'[x].revision = rev + 1 /\ Exists(x)' /\ Exists(x)
          BY <1>1, <1>4, <1>6, <1>7, <3>3
        <4>2. Has(x, v)' <=> Has(x, v)
          BY <2>1, <3>3 DEF Has
        <4>3. Has(x, v)' <=> Exists(x)' /\ 1 <= v /\ v <= memory'[x].revision
          BY <1>2, <3>1, <3>3, <4>1, <4>2
        <4>4. Has(x, v) => written'[<<x, v>>] = written[<<x, v>>]
          BY <1>9 DEF HistoryKept, Has
        <4>5. ASSUME Has(x, v) PROVE <<x, v>> \in DOMAIN archive' /\ archive'[<<x, v>>] = written[<<x, v>>]
          <5>1. CASE v = rev
            BY <1>2, <1>5, <1>8, <2>1, <3>3, <5>1
          <5>2. CASE v # rev
            <6>1. <<x, v>> \in DOMAIN archive /\ archive[<<x, v>>] = written[<<x, v>>]
              BY <1>2, <3>1, <3>3, <4>5, <5>2
            <6> QED
              BY <1>5, <2>1, <5>2, <6>1
          <5> QED
            BY <5>1, <5>2
        <4> QED
          BY <3>3, <4>1, <4>2, <4>3, <4>4, <4>5
      <3>4. CASE x # k
        <4>1. /\ memory'[x] = memory[x] /\ (Exists(x)' <=> Exists(x)) /\ (Has(x, v)' <=> Has(x, v))
              /\ (<<x, v>> \in DOMAIN archive' <=> <<x, v>> \in DOMAIN archive)
          BY <1>6, <1>7, <2>1, <3>4 DEF Has
        <4>2. Has(x, v) => written'[<<x, v>>] = written[<<x, v>>]
          BY <1>9 DEF HistoryKept, Has
        <4>3. <<x, v>> \in DOMAIN archive => archive'[<<x, v>>] = archive[<<x, v>>]
          BY <1>5, <3>4
        <4> QED
          BY <3>1, <4>1, <4>2, <4>3
      <3> QED
        BY <3>2, <3>3, <3>4
    <2>3. DOMAIN archive' \subseteq DOMAIN written'
      BY <1>8, <2>1
    <2> QED
      BY <2>1, <2>2, <2>3 DEF VersionsOK
  <1> QED
    BY <1>5, <1>6, <1>9, <1>10, WriteKeeps, PinsStay, RequestsMove, FocusMoves, NoMemoryRequestOK

LEMMA SharingKeeps ==
  ASSUME MemoryInv, UNCHANGED <<focus, named, engagements>>, answer' = NoAnswer,
         NEW q \in MemoryRequests, SetVisibility(q) \/ SoftDelete(q)
  PROVE  MemoryStepOK
  <1>1. PICK k \in MemoryCodes : k = memoryRequest[q].code /\ Exists(k)
    BY Asked, MemoryCallFields DEF SetVisibility, SoftDelete, RequestOK
  <1>2. Becomes(q, NoMemoryRequest) /\ UNCHANGED <<archive, pins, written>>
    BY DEF SetVisibility, SoftDelete, Ends
  <1>3. PICK row : /\ memory' = [memory EXCEPT ![k] = row]
                   /\ \/ \E v \in {"public", "private"} : row = [memory[k] EXCEPT !.visibility = v]
                      \/ row = [memory[k] EXCEPT !.status = "deleted"]
    BY <1>1 DEF SetVisibility, SoftDelete
  <1>4. /\ row \in MemoryRow /\ row.author = memory[k].author /\ row.revision = memory[k].revision
        /\ row.content = memory[k].content /\ (memory[k].status = "deleted" => row.status = "deleted")
    <2>1. PICK old \in MemoryRow : old = memory[k]
      BY <1>1, RowFields DEF MemoryInv
    <2> QED
      <3>1. (\E v \in {"public", "private"} : row = [old EXCEPT !.visibility = v])
            \/ row = [old EXCEPT !.status = "deleted"]
        BY <1>3, <2>1
      <3>2. /\ row \in MemoryRow /\ row.author = old.author /\ row.revision = old.revision
            /\ row.content = old.content /\ (old.status = "deleted" => row.status = "deleted")
        BY <3>1 DEF MemoryRow
      <3> QED
        BY <2>1, <3>2
  <1>5. HistoryKept /\ MemoriesTyped' /\ VersionsOK'
    BY <1>1, <1>2, <1>3, <1>4, RowChangesSharing
  <1> QED
    BY <1>2, <1>5, WriteKeeps, PinsStay, RequestsMove, FocusMoves, NoMemoryRequestOK

LEMMA WithdrawalKeeps ==
  ASSUME MemoryInv, UNCHANGED <<focus, named, engagements>>, answer' = NoAnswer,
         NEW k \in MemoryCodes, UnshareMemory(k) \/ RemoveMemory(k)
  PROVE  MemoryStepOK
  <1>1. Exists(k) /\ UNCHANGED <<archive, pins, memoryRequest, written>>
    BY DEF UnshareMemory, RemoveMemory
  <1>2. PICK old \in MemoryRow : old = memory[k]
    BY <1>1, RowFields DEF MemoryInv
  <1>3. PICK row : /\ memory' = [memory EXCEPT ![k] = row]
                   /\ \/ row = [old EXCEPT !.visibility = "private"]
                      \/ row = [old EXCEPT !.visibility = "private", !.status = "deleted"]
    <2>1. CASE UnshareMemory(k)
      BY <1>2, <2>1 DEF UnshareMemory
    <2>2. CASE RemoveMemory(k)
      <3>1. memory' = [memory EXCEPT ![k] = [old EXCEPT !.visibility = "private", !.status = "deleted"]]
        BY <1>2, <2>2 DEF RemoveMemory, MemoryInv, MemoriesTyped
      <3> QED
        BY <3>1
    <2> QED
      BY <2>1, <2>2
  <1>4. /\ row \in MemoryRow /\ row.author = old.author /\ row.revision = old.revision
        /\ row.content = old.content /\ (old.status = "deleted" => row.status = "deleted")
    BY <1>3 DEF MemoryRow
  <1>5. HistoryKept /\ MemoriesTyped' /\ VersionsOK'
    BY <1>1, <1>2, <1>3, <1>4, RowChangesSharing
  <1> QED
    BY <1>1, <1>5, WriteKeeps, PinsStay, RequestsStay, FocusStays

\* Whatever is public has been recorded.
LEMMA OwnedReadKeeps ==
  ASSUME MemoryInv, OwnerInv, UNCHANGED <<focus, named, engagements>>, answer' = NoAnswer,
         NEW q \in MemoryRequests, NEW a, NEW k \in MemoryCodes, NEW op \in {"update", "share", "unshare", "delete"},
         OwnedRead(q, a, k, op)
  PROVE  MemoryStepOK
  <1>1. PICK r : r = [step |-> op, agent |-> a, code |-> k]
    OBVIOUS
  <1>2. Becomes(q, r) /\ UNCHANGED <<memory, archive, pins, written>> /\ Exists(k) /\ a \in Nat
    BY <1>1, AgentIsNat DEF OwnedRead, Starts, Owns, IsActive
  <1>3. RequestOK(r) /\ ~ForHarness(r) /\ r # NoMemoryRequest
    BY <1>1, <1>2 DEF RequestOK, MemoryCall, ForHarness, NoMemoryRequest
  <1>4. RequestOK(r)'
    BY <1>2, <1>3, RequestNow
  <1> QED
    BY <1>2, <1>3, <1>4, Silent, ReadKeeps

LEMMA PinReadKeeps ==
  ASSUME MemoryInv, OwnerInv, UNCHANGED <<focus, named, engagements>>, answer' = NoAnswer,
         NEW q \in MemoryRequests, NEW a, NEW k \in MemoryCodes, NEW kind \in {"entry", "delivery"},
         PinRead(q, a, k, kind)
  PROVE  MemoryStepOK
  <1>1. PICK r : r = [step |-> "pin", agent |-> a, code |-> k, kind |-> kind, revision |-> memory[k].revision]
    OBVIOUS
  <1>2. Becomes(q, r) /\ UNCHANGED <<memory, archive, pins, written>> /\ Exists(k) /\ a \in Nat
    BY <1>1, AgentIsNat DEF PinRead, Starts, Owns, Public, IsActive
  <1>3. Has(k, memory[k].revision) /\ memory[k].revision \in Nat
    BY <1>2, PresentVersion, RowFields DEF MemoryInv
  <1>4. RequestOK(r) /\ ~ForHarness(r) /\ r # NoMemoryRequest
    BY <1>1, <1>2, <1>3 DEF RequestOK, MemoryCall, ForHarness, NoMemoryRequest
  <1>5. RequestOK(r)'
    BY <1>2, <1>4, RequestNow
  <1> QED
    BY <1>2, <1>4, <1>5, Silent, ReadKeeps

LEMMA PinKeeps ==
  ASSUME MemoryInv, UNCHANGED <<focus, named, engagements>>, answer' = NoAnswer,
         NEW q \in MemoryRequests, Pin(q)
  PROVE  MemoryStepOK
  <1>1. PICK r : r = memoryRequest[q]
    OBVIOUS
  <1>2. PICK p : p = [kind |-> r.kind, code |-> r.code, revision |-> r.revision, author |-> r.agent]
    OBVIOUS
  <1>3. /\ r.step = "pin" /\ r \in MemoryCall /\ RequestOK(r) /\ Becomes(q, NoMemoryRequest)
        /\ pins' = pins \cup {p} /\ UNCHANGED <<memory, archive, written>>
    BY <1>1, <1>2, Asked DEF Pin, Ends
  <1>4. HistoryKept /\ MemoriesTyped' /\ VersionsOK'
    BY <1>3, HistoryStays, VersionsStay DEF MemoryInv, MemoriesTyped, Exists
  <1>5. PinOK(p)'
    <2>1. p \in [kind : {"entry", "delivery"}, code : MemoryCodes, revision : Nat, author : Nat]
      BY <1>2, <1>3, MemoryCallFields
    <2>2. p.code = r.code /\ p.revision = r.revision /\ p.author = r.agent
      BY <1>2
    <2>3. Exists(p.code)' /\ Has(p.code, p.revision)'
      BY <1>3, <2>2 DEF RequestOK, Exists, Has
    <2> QED
      BY <2>1, <2>3 DEF PinOK
  <1>6. \A x \in pins' : PinOK(x)'
    BY <1>3, <1>4, <1>5, PinLasts DEF MemoryInv
  <1> QED
    BY <1>3, <1>4, <1>6, WriteKeeps, RequestsMove, FocusMoves, NoMemoryRequestOK

LEMMA LeaveKeeps ==
  ASSUME MemoryInv, UNCHANGED <<focus, named, engagements>>, answer' = NoAnswer, NEW a, Leave(a)
  PROVE  MemoryStepOK
  <1>1. UNCHANGED <<memory, archive, pins, memoryRequest, written>>
    BY DEF Leave
  <1>2. HistoryKept /\ MemoriesTyped' /\ VersionsOK'
    BY <1>1, HistoryStays, VersionsStay DEF MemoryInv, MemoriesTyped, Exists
  <1> QED
    BY <1>1, <1>2, WriteKeeps, PinsStay, RequestsStay, FocusStays

LEMMA MemoryRequestEndsKeeps ==
  ASSUME MemoryInv, UNCHANGED <<focus, named, engagements>>, answer' = NoAnswer,
         NEW q \in MemoryRequests, MemoryRequestEnds(q)
  PROVE  MemoryStepOK
  BY Silent, ReadKeeps, NoMemoryRequestOK DEF MemoryRequestEnds, Ends

LEMMA MemoryWritesKeep ==
  ASSUME MemoryInv, OwnerInv, UNCHANGED <<focus, named, engagements>>, answer' = NoAnswer, MemoryWrites
  PROVE  MemoryStepOK
  BY PushCreateKeeps, OwnedReadKeeps, PinReadKeeps, PushUpdateKeeps, SharingKeeps, PinKeeps, MemoryRequestEndsKeeps,
     WithdrawalKeeps, LeaveKeeps DEF MemoryWrites

-----------------------------------------------------------------------------
(* Reading.                                                                *)

\* A read answers with a version as it was written.
LEMMA AnswerKeeps ==
  ASSUME MemoryInv, UNCHANGED <<focus, memory, archive, pins, written, named, engagements>>,
         NEW q \in MemoryRequests, NEW a, NEW how \in {"current", "revision", "delivered", "entry", "pinned", "live"},
         NEW k \in MemoryCodes, NEW v \in Nat, NEW content, Has(k, v), content = written[<<k, v>>],
         Answers(q, a, how, k, v, content), AnsweredUnder(memoryRequest[q], answer')
  PROVE  MemoryStepOK
  <1>1. /\ answer' = [agent |-> a, how |-> how, code |-> k, revision |-> v, content |-> content]
        /\ Becomes(q, NoMemoryRequest)
    BY DEF Answers, Ends
  <1>2. Exists(k)
    BY VersionRead DEF MemoryInv
  <1>3. AnswerOK(answer)'
    BY <1>1, <1>2 DEF AnswerOK, Exists, Has
  <1> QED
    BY <1>1, <1>3, ReadKeeps, NoMemoryRequestOK

LEMMA ContinueKeeps ==
  ASSUME MemoryInv, UNCHANGED <<focus, memory, archive, pins, written, named, engagements>>,
         NEW q \in MemoryRequests, NEW r, RequestOK(r), focus # "harness" => ~ForHarness(r), Continues(q, r)
  PROVE  MemoryStepOK
  <1>1. Becomes(q, r) /\ answer' = NoAnswer
    BY DEF Continues
  <1>2. RequestOK(r)'
    BY RequestNow
  <1> QED
    BY <1>1, <1>2, Silent, ReadKeeps

\* Nothing is answered under a claim unless the request reads for one.
LEMMA NotUnder ==
  ASSUME NEW r, r.step \notin {"harness", "live", "archive"}
  PROVE  \A a : AnsweredUnder(r, a)
  BY DEF AnsweredUnder

LEMMA GetKungfuForBotKeeps ==
  ASSUME MemoryInv, UNCHANGED <<focus, named, engagements>>, NEW q \in MemoryRequests, NEW a,
         NEW k \in MemoryCodes, GetKungfuForBot(q, a, k)
  PROVE  MemoryStepOK
  <1>1. Exists(k) /\ memoryRequest[q].step = "idle" /\ UNCHANGED <<memory, archive, pins, written>>
    BY DEF GetKungfuForBot, Starts, Owns, Public, IsActive
  <1>2. Has(k, memory[k].revision) /\ memory[k].content = written[<<k, memory[k].revision>>]
        /\ memory[k].revision \in Nat
    BY <1>1, PresentVersion, RowFields DEF MemoryInv
  <1> QED
    BY <1>1, <1>2, NotUnder, AnswerKeeps DEF GetKungfuForBot

LEMMA ServeOrLookUpKeeps ==
  ASSUME MemoryInv, UNCHANGED <<focus, memory, archive, pins, written, named, engagements>>,
         NEW q \in MemoryRequests, memoryRequest[q].step \in {"idle", "delivered"}, NEW a \in Nat,
         NEW how \in {"revision", "delivered"}, NEW k \in MemoryCodes, Exists(k), NEW v \in Nat, 1 <= v,
         ServeOrLookUp(q, a, how, k, v)
  PROVE  MemoryStepOK
  <1>1. Has(k, memory[k].revision) /\ memory[k].content = written[<<k, memory[k].revision>>]
        /\ memory[k].revision \in Nat
    BY PresentVersion, RowFields DEF MemoryInv
  <1>2. CASE v = memory[k].revision
    BY <1>1, <1>2, NotUnder, AnswerKeeps DEF ServeOrLookUp
  <1>3. CASE v # memory[k].revision
    <2>1. PICK r : r = [step |-> "archive", agent |-> a, how |-> how, code |-> k, revision |-> v,
                        present |-> v < memory[k].revision]
      OBVIOUS
    <2>3. r \in [step : {"archive"}, agent : Nat, how : {"revision", "delivered"}, code : MemoryCodes, revision : Nat,
                 present : BOOLEAN]
      BY <2>1
    <2>4. r \in MemoryCall /\ r.step = "archive" /\ r.how = how /\ r.code = k /\ r.agent = a /\ r.revision = v
          /\ (r.present <=> v < memory[k].revision)
      BY <2>1, <2>3 DEF MemoryCall
    <2>6. RequestOK(r) /\ ~ForHarness(r)
      BY <2>4 DEF RequestOK, ForHarness
    <2>5. Continues(q, r)
      BY <1>3, <2>1 DEF ServeOrLookUp
    <2> QED
      BY <2>6, <2>5, ContinueKeeps
  <1> QED
    BY <1>2, <1>3

LEMMA GetKungfuRevisionForBotKeeps ==
  ASSUME MemoryInv, OwnerInv, UNCHANGED <<focus, named, engagements>>, NEW q \in MemoryRequests, NEW a,
         NEW k \in MemoryCodes, NEW v \in 1 .. MaxRevision, GetKungfuRevisionForBot(q, a, k, v)
  PROVE  MemoryStepOK
  <1>1. /\ Exists(k) /\ memoryRequest[q].step = "idle" /\ UNCHANGED <<memory, archive, pins, written>>
        /\ a \in Nat /\ ServeOrLookUp(q, a, "revision", k, v)
    BY AgentIsNat DEF GetKungfuRevisionForBot, Starts
  <1>2. v \in Nat /\ 1 <= v
    OBVIOUS
  <1> QED
    BY <1>1, <1>2, ServeOrLookUpKeeps

LEMMA DeliveryReadKeeps ==
  ASSUME MemoryInv, OwnerInv, UNCHANGED <<focus, named, engagements>>, NEW q \in MemoryRequests, NEW a,
         NEW p \in pins, DeliveryRead(q, a, p)
  PROVE  MemoryStepOK
  <1>1. PICK r : r = [step |-> "delivered", agent |-> a, code |-> p.code, revision |-> p.revision]
    OBVIOUS
  <1>2. PinOK(p) /\ a \in Nat /\ Continues(q, r) /\ UNCHANGED <<memory, archive, pins, written>>
    BY <1>1, AgentIsNat DEF DeliveryRead, Starts, MemoryInv
  <1>3. p.code \in MemoryCodes /\ p.revision \in Nat
    BY <1>2 DEF PinOK
  <1>4. RequestOK(r) /\ ~ForHarness(r)
    BY <1>1, <1>2, <1>3 DEF RequestOK, PinOK, MemoryCall, ForHarness
  <1> QED
    BY <1>2, <1>4, ContinueKeeps

LEMMA DeliveredMemoryKeeps ==
  ASSUME MemoryInv, UNCHANGED <<focus, named, engagements>>, NEW q \in MemoryRequests, DeliveredMemory(q)
  PROVE  MemoryStepOK
  <1>1. PICK r : r = memoryRequest[q]
    OBVIOUS
  <1>2. /\ r \in MemoryCall /\ RequestOK(r) /\ r.step = "delivered"
        /\ ServeOrLookUp(q, r.agent, "delivered", r.code, r.revision) /\ UNCHANGED <<memory, archive, pins, written>>
    BY <1>1, Asked DEF DeliveredMemory
  <1>3. r.agent \in Nat /\ r.code \in MemoryCodes /\ r.revision \in Nat
    BY <1>2, MemoryCallFields
  <1>4. Exists(r.code) /\ Has(r.code, r.revision)
    BY <1>2 DEF RequestOK
  <1>5. 1 <= r.revision
    BY <1>3, <1>4, VersionRead DEF MemoryInv
  <1> QED
    BY <1>1, <1>2, <1>3, <1>4, <1>5, ServeOrLookUpKeeps

\* What a claim pins is one version of the memory, there to be read.
LEMMA PinnedVersion ==
  ASSUME MemoryInv, NEW u \in DOMAIN engagements, NEW k, NEW x \in PinsOf(u, k)
  PROVE  /\ k \in MemoryCodes /\ x = <<k, x[2]>> /\ x[2] \in Nat /\ Has(k, x[2])
         /\ \A y \in PinsOf(u, k) : y = x
  <1>1. engagements[u] \in Engagement
    BY LenProperties DEF MemoryInv, EngagementsOK
  <1>2. x \in engagements[u].pins /\ x[1] = k /\ engagements[u].pins \subseteq MemoryCodes \X Nat
    BY <1>1 DEF PinsOf, Engagement
  <1>3. ClaimedOK(engagements[u].pins)
    BY DEF MemoryInv, EngagementsOK
  <1>4. k \in MemoryCodes /\ x = <<k, x[2]>> /\ x[2] \in Nat
    BY <1>2
  <1> QED
    BY <1>2, <1>3, <1>4 DEF ClaimedOK, Has, PinsOf

LEMMA ArchiveReadKeeps ==
  ASSUME MemoryInv, UNCHANGED <<focus, named, engagements>>, NEW q \in MemoryRequests, ArchiveRead(q)
  PROVE  MemoryStepOK
  <1>1. PICK r : r = memoryRequest[q]
    OBVIOUS
  <1>2. /\ r \in MemoryCall /\ RequestOK(r) /\ r.step = "archive" /\ UNCHANGED <<memory, archive, pins, written>>
    BY <1>1, Asked DEF ArchiveRead
  <1>3. /\ r.agent \in Nat /\ r.code \in MemoryCodes /\ r.revision \in Nat /\ r.present \in BOOLEAN
        /\ r.how \in {"revision", "delivered", "pinned"}
    BY <1>2, MemoryCallFields
  <1>4. ASSUME "under" \in DOMAIN r, r.under # 0
        PROVE  /\ r.present
               /\ \A x \in PinsOf(r.under, r.code) : x = <<r.code, r.revision>>
    <2>1. r.present /\ UnderOK(r.under, r.code, {r.revision})
      BY <1>2, <1>4, UnderIsPinned DEF RequestOK
    <2>2. r.under \in DOMAIN engagements /\ \A x \in PinsOf(r.under, r.code) : x[2] = r.revision
      BY <1>4, <2>1 DEF UnderOK
    <2> QED
      BY <2>1, <2>2, PinnedVersion
  <1>5. Exists(r.code)
        /\ (r.present => 1 <= r.revision /\ r.revision < memory[r.code].revision)
    BY <1>2 DEF RequestOK
  <1>6. CASE <<r.code, r.revision>> \in DOMAIN archive
    <2>1. Has(r.code, r.revision)
      BY <1>6 DEF MemoryInv, VersionsOK, Has
    <2>2. archive[<<r.code, r.revision>>] = written[<<r.code, r.revision>>]
      BY <1>3, <1>6, <2>1 DEF MemoryInv, VersionsOK
    <2>3. Answers(q, r.agent, r.how, r.code, r.revision, archive[<<r.code, r.revision>>])
      BY <1>1, <1>6 DEF ArchiveRead
    <2>4. answer'.revision = r.revision /\ answer'.content = written[<<r.code, r.revision>>] /\ answer'.how = r.how
      BY <2>2, <2>3 DEF Answers
    <2>5. AnsweredUnder(r, answer')
      BY <1>3, <1>4, <2>4 DEF AnsweredUnder
    <2> QED
      BY <1>1, <1>2, <1>3, <1>5, <2>1, <2>2, <2>3, <2>5, AnswerKeeps
  <1>7. CASE <<r.code, r.revision>> \notin DOMAIN archive
    <2>1. r.present = FALSE
      <3>1. SUFFICES ASSUME r.present PROVE FALSE
        BY <1>3
      <3>2. Has(r.code, r.revision) /\ r.revision # memory[r.code].revision
        <4>1. /\ 1 <= r.revision /\ r.revision < memory[r.code].revision /\ memory[r.code].revision \in Nat
              /\ Exists(r.code)
          BY <1>3, <1>5, <3>1, RowFields DEF MemoryInv
        <4>2. r.revision <= memory[r.code].revision /\ r.revision # memory[r.code].revision
          BY <1>3, <4>1
        <4> QED
          BY <1>3, <4>1, <4>2 DEF MemoryInv, VersionsOK
      <3> QED
        BY <1>3, <1>7, <3>2 DEF MemoryInv, VersionsOK
    <2>2. Becomes(q, NoMemoryRequest) /\ answer' = [how |-> "missing", was |-> FALSE]
      BY <1>1, <1>7, <2>1 DEF ArchiveRead, Ends
    <2>3. AnswerOK(answer)'
      BY <2>2 DEF AnswerOK
    <2>4. AnsweredUnder(r, answer')
      BY <1>4, <2>1 DEF AnsweredUnder
    <2> QED
      BY <1>1, <1>2, <2>2, <2>3, <2>4, ReadKeeps, NoMemoryRequestOK
  <1> QED
    BY <1>6, <1>7

LEMMA ExpandThreadEntriesKeeps ==
  ASSUME MemoryInv, UNCHANGED <<focus, named, engagements>>, NEW q \in MemoryRequests, NEW a,
         NEW p \in pins, ExpandThreadEntries(q, a, p)
  PROVE  MemoryStepOK
  <1>1. PICK content : content = IF p.revision = memory[p.code].revision THEN memory[p.code].content
                                 ELSE archive[<<p.code, p.revision>>]
    OBVIOUS
  <1>2. /\ memoryRequest[q].step = "idle" /\ Answers(q, a, "entry", p.code, p.revision, content)
        /\ UNCHANGED <<memory, archive, pins, written>>
    BY <1>1 DEF ExpandThreadEntries, Starts
  <1>3. p.code \in MemoryCodes /\ p.revision \in Nat /\ Has(p.code, p.revision)
    BY DEF MemoryInv, PinOK
  <1>4. content = written[<<p.code, p.revision>>]
    BY <1>1, <1>3, VersionRead DEF MemoryInv
  <1> QED
    BY <1>2, <1>3, <1>4, NotUnder, AnswerKeeps

LEMMA MemoryReadsKeep ==
  ASSUME MemoryInv, OwnerInv, UNCHANGED <<focus, named, engagements>>, MemoryReads
  PROVE  MemoryStepOK
  BY GetKungfuForBotKeeps, GetKungfuRevisionForBotKeeps, DeliveryReadKeeps, ExpandThreadEntriesKeeps,
     DeliveredMemoryKeeps, ArchiveReadKeeps DEF MemoryReads

-----------------------------------------------------------------------------
(* The input of a task.                                                    *)

LEMMA EngagementFields ==
  ASSUME MemoryInv, NEW i \in DOMAIN engagements
  PROVE  /\ engagements[i] \in Engagement /\ engagements[i].refs \subseteq MemoryCodes
         /\ engagements[i].pins \subseteq MemoryCodes \X Nat /\ engagements[i].agent \in Nat
         /\ i \in Nat /\ i # 0 /\ i \in 1 .. Len(engagements) /\ Len(engagements) \in Nat
         /\ ClaimedOK(engagements[i].pins) /\ \A k \in engagements[i].refs : Exists(k)
  <1>1. /\ engagements \in [1 .. Len(engagements) -> Engagement] /\ DOMAIN engagements = 1 .. Len(engagements)
        /\ Len(engagements) \in Nat
    BY LenProperties DEF MemoryInv, EngagementsOK
  <1>2. engagements[i] \in Engagement
    BY <1>1
  <1> QED
    BY <1>1, <1>2 DEF Engagement, MemoryInv, EngagementsOK

LEMMA NameMemoriesKeeps ==
  ASSUME MemoryInv, focus = "harness", UNCHANGED focus, answer' = NoAnswer,
         NEW refs \in SUBSET MemoryCodes, NameMemories(refs)
  PROVE  MemoryStepOK
  <1>1. /\ named' = refs /\ UNCHANGED <<memory, archive, pins, memoryRequest, written, engagements>>
        /\ \A k \in refs : Exists(k)
    BY DEF NameMemories, Owns, IsActive
  <1>2. HistoryKept /\ MemoriesTyped' /\ VersionsOK'
    BY <1>1, HistoryStays, VersionsStay DEF MemoryInv, MemoriesTyped, Exists
  <1>3. EngagementsOK'
    BY <1>1, <1>2, ClaimedLasts DEF MemoryInv, EngagementsOK, ClaimedOK, Exists, HistoryKept
  <1> QED
    BY <1>1, <1>2, <1>3, Silent, PinsStay, RequestsStay, FocusStays, UnansweredPinned, Assembled DEF MemoryStepOK

LEMMA ClaimReadKeeps ==
  ASSUME MemoryInv, OwnerInv, focus = "harness", UNCHANGED focus, answer' = NoAnswer,
         NEW q \in MemoryRequests, NEW a, ClaimRead(q, a)
  PROVE  MemoryStepOK
  <1> DEFINE s == {<<k, memory[k].revision>> : k \in {k \in named : Owns(TaskPublisher, k)}}
  <1>1. PICK r : r = [step |-> "claim", agent |-> a, pins |-> s]
    OBVIOUS
  <1>2. Becomes(q, r) /\ UNCHANGED <<memory, archive, pins, written, named, engagements>> /\ a \in Nat
    BY <1>1, AgentIsNat DEF ClaimRead, Starts
  <1>3. ASSUME NEW k \in named, Owns(TaskPublisher, k)
        PROVE  k \in MemoryCodes /\ memory[k].revision \in Nat /\ Exists(k) /\ Has(k, memory[k].revision)
    <2>1. k \in MemoryCodes /\ Exists(k)
      BY <1>3 DEF MemoryInv, EngagementsOK
    <2> QED
      BY <2>1, PresentVersion, RowFields DEF MemoryInv
  <1>4. s \subseteq MemoryCodes \X Nat /\ ClaimedOK(s)
    BY <1>3 DEF ClaimedOK, Has
  <1>5. RequestOK(r) /\ r # NoMemoryRequest
    <2> HIDE DEF s
    <2> QED
      BY <1>1, <1>2, <1>4 DEF RequestOK, MemoryCall, NoMemoryRequest
  <1>6. RequestOK(r)'
    BY <1>2, <1>5, RequestNow
  <1> QED
    BY <1>2, <1>5, <1>6, Silent, ReadKeeps

LEMMA ClaimCommitKeeps ==
  ASSUME MemoryInv, focus = "harness", UNCHANGED focus, answer' = NoAnswer,
         NEW q \in MemoryRequests, ClaimCommit(q)
  PROVE  MemoryStepOK
  <1>1. PICK r : r = memoryRequest[q]
    OBVIOUS
  <1>2. PICK e : e = [agent |-> r.agent, active |-> TRUE, refs |-> named, pins |-> r.pins]
    OBVIOUS
  <1>3. /\ r.step = "claim" /\ r \in MemoryCall /\ RequestOK(r) /\ engagements' = Append(engagements, e)
        /\ Becomes(q, NoMemoryRequest) /\ UNCHANGED <<memory, archive, pins, written, named>>
    BY <1>1, <1>2, Asked DEF ClaimCommit, Ends
  <1>4. e \in Engagement /\ e.refs = named /\ e.pins = r.pins /\ e.pins \subseteq MemoryCodes \X Nat
    <2>1. r.agent \in Nat /\ r.pins \subseteq MemoryCodes \X Nat /\ named \subseteq MemoryCodes
      BY <1>3, MemoryCallFields DEF MemoryInv, EngagementsOK
    <2> QED
      BY <1>2, <2>1 DEF Engagement
  <1>5. /\ engagements' \in Seq(Engagement) /\ Len(engagements) \in Nat
        /\ DOMAIN engagements = 1 .. Len(engagements) /\ DOMAIN engagements' = 1 .. Len(engagements) + 1
        /\ \A i \in DOMAIN engagements : engagements'[i] = engagements[i]
        /\ engagements'[Len(engagements) + 1] = e
    BY <1>3, <1>4, AppendProperties, LenProperties DEF MemoryInv, EngagementsOK
  <1>6. HistoryKept
    BY <1>3, <1>5, RowFields DEF HistoryKept, Exists, MemoryInv
  <1>7. MemoriesTyped' /\ VersionsOK'
    BY <1>3, VersionsStay DEF MemoryInv, MemoriesTyped, Exists
  <1>8. EngagementsOK'
    <2>1. named' \subseteq MemoryCodes /\ \A k \in named' : Exists(k)'
      BY <1>3 DEF MemoryInv, EngagementsOK, Exists
    <2>2. ASSUME NEW i \in DOMAIN engagements', NEW s \in SUBSET (MemoryCodes \X Nat), s = engagements'[i].pins,
                 NEW ks \in SUBSET MemoryCodes, ks = engagements'[i].refs
          PROVE  ClaimedOK(s)' /\ \A k \in ks : Exists(k)'
      <3>1. CASE i \in DOMAIN engagements
        <4>1. ClaimedOK(s) /\ \A k \in ks : Exists(k)
          BY <1>5, <2>2, <3>1, EngagementFields
        <4> QED
          BY <1>6, <4>1, ClaimedLasts DEF HistoryKept
      <3>2. CASE i = Len(engagements) + 1
        <4>1. s = r.pins /\ ks = named
          BY <1>4, <1>5, <2>2, <3>2
        <4>2. ClaimedOK(s) /\ \A k \in ks : Exists(k)
          BY <1>3, <4>1 DEF RequestOK, MemoryInv, EngagementsOK
        <4> QED
          BY <1>6, <4>2, ClaimedLasts DEF HistoryKept
      <3> QED
        BY <1>5, <2>2, <3>1, <3>2
    <2>3. ASSUME NEW i \in DOMAIN engagements'
          PROVE  ClaimedOK(engagements[i].pins)' /\ \A k \in engagements'[i].refs : Exists(k)'
      <3>1. engagements'[i] \in Engagement
        BY <1>4, <1>5, EngagementFields
      <3>2. engagements'[i].pins \in SUBSET (MemoryCodes \X Nat) /\ engagements'[i].refs \in SUBSET MemoryCodes
        BY <3>1 DEF Engagement
      <3>3. PICK s \in SUBSET (MemoryCodes \X Nat), ks \in SUBSET MemoryCodes :
              s = engagements'[i].pins /\ ks = engagements'[i].refs
        BY <3>2
      <3>4. ClaimedOK(s)' /\ \A k \in ks : Exists(k)'
        BY <2>2, <3>3
      <3> QED
        BY <3>3, <3>4 DEF ClaimedOK
    <2> QED
      BY <1>5, <2>1, <2>3 DEF EngagementsOK
  <1> QED
    BY <1>3, <1>6, <1>7, <1>8, Silent, PinsStay, RequestsMove, FocusMoves, NoMemoryRequestOK, UnansweredPinned,
       Assembled DEF MemoryStepOK

LEMMA EngagementEndsKeeps ==
  ASSUME MemoryInv, focus = "harness", UNCHANGED focus, answer' = NoAnswer,
         NEW i \in DOMAIN engagements, EngagementEnds(i)
  PROVE  MemoryStepOK
  <1>1. PICK old \in Engagement : old = engagements[i]
    BY EngagementFields
  <1>2. PICK e : e = [old EXCEPT !.active = FALSE]
    OBVIOUS
  <1>3. /\ engagements' = [engagements EXCEPT ![i] = e]
        /\ UNCHANGED <<memory, archive, pins, memoryRequest, written, named>>
    BY <1>1, <1>2 DEF EngagementEnds
  <1>4. e \in Engagement /\ e.refs = old.refs /\ e.pins = old.pins
    BY <1>2 DEF Engagement
  <1>5. /\ engagements' \in Seq(Engagement) /\ DOMAIN engagements' = DOMAIN engagements
        /\ \A j \in DOMAIN engagements : engagements'[j].refs = engagements[j].refs
                                         /\ engagements'[j].pins = engagements[j].pins
    <2>1. /\ engagements' \in Seq(Engagement) /\ DOMAIN engagements' = DOMAIN engagements
          /\ \A j \in DOMAIN engagements : engagements'[j] = IF j = i THEN e ELSE engagements[j]
      BY <1>3, <1>4, ExceptSeq, LenProperties DEF MemoryInv, EngagementsOK
    <2> QED
      BY <1>1, <1>4, <2>1
  <1>6. HistoryKept
    BY <1>3, <1>5, RowFields DEF HistoryKept, Exists, MemoryInv
  <1>7. MemoriesTyped' /\ VersionsOK'
    BY <1>3, VersionsStay DEF MemoryInv, MemoriesTyped, Exists
  <1>8. EngagementsOK'
    <2>1. ASSUME NEW j \in DOMAIN engagements'
          PROVE  ClaimedOK(engagements[j].pins)' /\ \A k \in engagements'[j].refs : Exists(k)'
      <3>1. PICK s \in SUBSET (MemoryCodes \X Nat), ks \in SUBSET MemoryCodes :
              s = engagements[j].pins /\ ks = engagements[j].refs
        BY <1>5, EngagementFields
      <3>2. ClaimedOK(s) /\ \A k \in ks : Exists(k)
        BY <1>5, <3>1, EngagementFields
      <3>3. ClaimedOK(s)' /\ \A k \in ks : Exists(k)'
        BY <1>6, <3>2, ClaimedLasts DEF HistoryKept
      <3> QED
        BY <1>5, <3>1, <3>3 DEF ClaimedOK
    <2> QED
      BY <1>3, <1>5, <2>1 DEF MemoryInv, EngagementsOK, Exists
  <1> QED
    BY <1>3, <1>6, <1>7, <1>8, Silent, PinsStay, RequestsStay, FocusStays, UnansweredPinned, Assembled DEF MemoryStepOK

LEMMA GetHarnessKeeps ==
  ASSUME MemoryInv, OwnerInv, focus = "harness", UNCHANGED focus, NEW q \in MemoryRequests, NEW a,
         NEW k \in MemoryCodes, GetHarness(q, a, k)
  PROVE  MemoryStepOK
  <1>1. a \in Nat /\ UNCHANGED <<memory, archive, pins, written, named, engagements>>
    BY AgentIsNat DEF GetHarness, Starts
  <1>2. PICK u \in Nat : /\ u # 0 => u \in DOMAIN engagements
                         /\ Exists(k)
                         /\ Continues(q, [step |-> "harness", agent |-> a, code |-> k, under |-> u])
    BY EngagementFields DEF GetHarness, MemoryInv, EngagementsOK
  <1>3. PICK r : r = [step |-> "harness", agent |-> a, code |-> k, under |-> u]
    OBVIOUS
  <1>4. UnderOK(u, k, Nat)
    BY <1>2, PinnedVersion DEF UnderOK
  <1>5. RequestOK(r)
    <2>1. r \in [step : {"harness", "live"}, agent : Nat, code : MemoryCodes, under : Nat]
      BY <1>1, <1>3
    <2>2. r.step = "harness" /\ r.code = k /\ r.under = u /\ r \in MemoryCall
      BY <1>3, <2>1 DEF MemoryCall
    <2> QED
      BY <1>2, <1>4, <2>2 DEF RequestOK
  <1> QED
    BY <1>1, <1>2, <1>3, <1>5, ContinueKeeps

LEMMA HarnessRowKeeps ==
  ASSUME MemoryInv, focus = "harness", UNCHANGED focus, NEW q \in MemoryRequests, HarnessRow(q)
  PROVE  MemoryStepOK
  <1>1. PICK r : r = memoryRequest[q]
    OBVIOUS
  <1>2. PICK own : own = IF r.under = 0 THEN {} ELSE PinsOf(r.under, r.code)
    OBVIOUS
  <1>3. /\ r.step = "harness" /\ UNCHANGED <<memory, archive, pins, written, named, engagements>>
        /\ \/ \E x \in own : ServePinned(q, r, x[2])
           \/ own = {} /\ Continues(q, [r EXCEPT !.step = "live"])
    BY <1>1, <1>2 DEF HarnessRow
  <1>4. /\ RequestOK(r) /\ r \in [step : {"harness", "live"}, agent : Nat, code : MemoryCodes, under : Nat]
        /\ Exists(r.code) /\ UnderOK(r.under, r.code, Nat)
    <2>1. RequestOK(r) /\ r \in MemoryCall
      BY <1>1, Asked
    <2> QED
      BY <1>3, <2>1 DEF RequestOK, MemoryCall, NoMemoryRequest
  <1>5. ASSUME NEW x \in own, ServePinned(q, r, x[2])
        PROVE  MemoryStepOK
    <2>1. r.under # 0 /\ r.under \in DOMAIN engagements /\ x \in PinsOf(r.under, r.code)
      BY <1>2, <1>4, <1>5 DEF UnderOK
    <2>2. PICK v \in Nat : /\ x = <<r.code, v>> /\ v = x[2] /\ Has(r.code, v)
                           /\ \A y \in PinsOf(r.under, r.code) : y = x
      BY <2>1, PinnedVersion
    <2>3. CASE v = memory[r.code].revision
      <3>1. Answers(q, r.agent, "pinned", r.code, v, memory[r.code].content)
        BY <1>5, <2>2, <2>3 DEF ServePinned
      <3>2. memory[r.code].content = written[<<r.code, v>>]
        BY <1>4, <2>2, <2>3, VersionRead DEF MemoryInv
      <3>3. AnsweredUnder(r, answer')
        BY <2>2, <3>1, <3>2 DEF AnsweredUnder, Answers
      <3> QED
        BY <1>1, <1>3, <1>4, <2>2, <3>1, <3>2, <3>3, AnswerKeeps
    <2>4. CASE v # memory[r.code].revision
      <3>1. PICK n : n = [step |-> "archive", agent |-> r.agent, how |-> "pinned", code |-> r.code, revision |-> v,
                          present |-> TRUE, under |-> r.under]
        OBVIOUS
      <3>2. Continues(q, n)
        BY <1>5, <2>2, <2>4, <3>1 DEF ServePinned
      <3>3. 1 <= v /\ v < memory[r.code].revision
        BY <1>4, <2>2, <2>4, VersionRead DEF MemoryInv
      <3>4. UnderOK(r.under, r.code, {v})
        BY <2>1, <2>2 DEF UnderOK
      <3>5. /\ n \in MemoryCall /\ n.step = "archive" /\ n.code = r.code /\ n.revision = v /\ n.present = TRUE
            /\ n.under = r.under /\ n.agent = r.agent
        BY <1>4, <3>1 DEF MemoryCall
      <3>6. RequestOK(n)
        BY <1>4, <2>2, <3>3, <3>4, <3>5 DEF RequestOK
      <3> QED
        BY <1>3, <3>2, <3>6, ContinueKeeps
    <2> QED
      BY <2>3, <2>4
  <1>6. ASSUME own = {}, Continues(q, [r EXCEPT !.step = "live"])
        PROVE  MemoryStepOK
    <2>1. PICK n : n = [r EXCEPT !.step = "live"]
      OBVIOUS
    <2>2. /\ n \in MemoryCall /\ n.step = "live" /\ n.code = r.code /\ n.under = r.under
      BY <1>4, <2>1 DEF MemoryCall
    <2>3. UnderOK(r.under, r.code, {})
      BY <1>2, <1>4, <1>6 DEF UnderOK
    <2>4. RequestOK(n)
      BY <1>4, <2>2, <2>3 DEF RequestOK
    <2> QED
      BY <1>3, <1>6, <2>1, <2>4, ContinueKeeps
  <1> QED
    BY <1>3, <1>5, <1>6

LEMMA LiveReadKeeps ==
  ASSUME MemoryInv, focus = "harness", UNCHANGED focus, NEW q \in MemoryRequests, LiveRead(q)
  PROVE  MemoryStepOK
  <1>1. PICK r : r = memoryRequest[q]
    OBVIOUS
  <1>2. /\ r.step = "live" /\ UNCHANGED <<memory, archive, pins, written, named, engagements>> /\ r \in MemoryCall
        /\ RequestOK(r)
    BY <1>1, Asked DEF LiveRead
  <1>3. r.code \in MemoryCodes /\ Exists(r.code) /\ UnderOK(r.under, r.code, {})
    BY <1>2, MemoryCallFields DEF RequestOK
  <1>4. CASE Owns(TaskPublisher, r.code)
    <2>1. Answers(q, r.agent, "live", r.code, memory[r.code].revision, memory[r.code].content)
      BY <1>1, <1>4 DEF LiveRead
    <2>2. /\ Has(r.code, memory[r.code].revision) /\ memory[r.code].revision \in Nat
          /\ memory[r.code].content = written[<<r.code, memory[r.code].revision>>]
      BY <1>3, PresentVersion, RowFields DEF MemoryInv
    <2>3. AnsweredUnder(r, answer')
      <3>1. r.under # 0 => PinsOf(r.under, r.code) = {}
        BY <1>3 DEF UnderOK
      <3> QED
        BY <2>1, <3>1 DEF AnsweredUnder, Answers
    <2> QED
      BY <1>1, <1>2, <1>3, <2>1, <2>2, <2>3, AnswerKeeps
  <1>5. CASE ~Owns(TaskPublisher, r.code)
    <2>1. Becomes(q, NoMemoryRequest) /\ answer' = NoAnswer
      BY <1>1, <1>5 DEF LiveRead, Ends
    <2> QED
      BY <1>2, <2>1, Silent, ReadKeeps, NoMemoryRequestOK
  <1> QED
    BY <1>4, <1>5

-----------------------------------------------------------------------------
(* Theorems.                                                               *)

LEMMA MemoriesNextKeeps ==
  ASSUME MemoryInv, OwnerInv, focus = "memories", UNCHANGED <<focus, named, engagements>>, MemoriesNext
  PROVE  MemoryStepOK
  BY MemoryWritesKeep, MemoryReadsKeep DEF MemoriesNext

LEMMA HarnessNextKeeps ==
  ASSUME MemoryInv, OwnerInv, focus = "harness", UNCHANGED focus, HarnessNext
  PROVE  MemoryStepOK
  BY MemoryWritesKeep, MemoryReadsKeep, NameMemoriesKeeps, ClaimReadKeeps, ClaimCommitKeeps, EngagementEndsKeeps,
     GetHarnessKeeps, HarnessRowKeeps, LiveReadKeeps DEF HarnessNext

LEMMA NoMemoryStep ==
  ASSUME MemoryInv, UNCHANGED <<harnessVars, focus>>
  PROVE  MemoryStepOK
  <1>1. UNCHANGED <<memory, archive, pins, inRoom, memoryRequest, answer, written, named, engagements, focus>>
    BY DEF harnessVars, memoryVars
  <1>2. HistoryKept /\ MemoriesTyped' /\ VersionsOK'
    BY <1>1, HistoryStays, VersionsStay DEF MemoryInv, MemoriesTyped, Exists
  <1>3. AnswerOK(answer)'
    BY <1>1 DEF MemoryInv, AnswerOK, Exists
  <1>4. PinnedAnswers
    BY <1>1 DEF PinnedAnswers, AnsweredUnder, NoMemoryRequest
  <1> QED
    BY <1>1, <1>2, <1>3, <1>4, PinsStay, RequestsStay, EngagementsLast, FocusStays, Assembled DEF MemoryStepOK

LEMMA MemoryInvNext ==
  ASSUME MemoryInv, OwnerInv, [PlatformNext]_platformVars
  PROVE  MemoryStepOK
  <1>1. UNCHANGED focus
    BY DEF PlatformNext, platformVars
  <1>2. CASE UNCHANGED harnessVars
    BY <1>1, <1>2, NoMemoryStep
  <1>3. CASE focus = "memories" /\ MemoriesStep
    BY <1>1, <1>2, <1>3, MemoriesNextKeeps DEF MemoriesStep, harnessVars
  <1>4. CASE focus = "harness" /\ HarnessStep
    BY <1>1, <1>2, <1>4, HarnessNextKeeps DEF HarnessStep
  <1> QED
    BY <1>2, <1>3, <1>4 DEF PlatformNext, OwnersStep, ReceiptsStep, LimiterStep, ReportsStep, platformVars

LEMMA MemoryInvInit == PlatformInit => MemoryInv
  <1> SUFFICES ASSUME PlatformInit PROVE MemoryInv
    OBVIOUS
  <1>1. /\ memory = [k \in MemoryCodes |-> Absent] /\ archive = <<>> /\ written = <<>> /\ pins = {}
        /\ answer = NoAnswer /\ memoryRequest = [q \in MemoryRequests |-> NoMemoryRequest]
        /\ named = {} /\ engagements = <<>>
    BY DEF PlatformInit, MemoriesInit, HarnessInit
  <1>2. DOMAIN archive = {} /\ DOMAIN written = {} /\ DOMAIN engagements = {} /\ engagements \in Seq(Engagement)
    BY <1>1, EmptySeq
  <1>3. \A k \in MemoryCodes : ~Exists(k)
    BY <1>1 DEF Exists
  <1>4. MemoriesTyped /\ VersionsOK
    BY <1>1, <1>2, <1>3 DEF MemoriesTyped, VersionsOK, Has
  <1>5. \A q \in MemoryRequests : memoryRequest[q] = NoMemoryRequest
    BY <1>1
  <1>6. RequestsOK
    BY <1>1, <1>5, NoMemoryRequestOK DEF RequestsOK, RequestOK, MemoryCall
  <1>7. EngagementsOK /\ HarnessInFocus
    BY <1>1, <1>2, <1>5, NoMemoryRequestOK DEF EngagementsOK, HarnessInFocus
  <1> QED
    BY <1>1, <1>4, <1>6, <1>7, NoAnswerOK DEF MemoryInv

LEMMA MemoriesHold == PlatformSpec => []MemoryInv /\ [][MemoryStepOK]_platformVars
  <1>1. OwnerInv /\ [PlatformNext]_platformVars => OwnerInv'
    BY OwnerInvNext DEF OwnerStepOK
  <1>2. MemoryInv /\ OwnerInv /\ [PlatformNext]_platformVars => MemoryInv' /\ MemoryStepOK
    BY MemoryInvNext DEF MemoryStepOK
  <1> QED
    BY <1>1, <1>2, OwnerInvInit, MemoryInvInit, PTL DEF PlatformSpec

-----------------------------------------------------------------------------
(* Who is answered, and who may still share.                               *)

\* The reads that take several statements.
Reads(r) == r.step = "delivered" \/ (r.step = "archive" /\ r.how \in {"revision", "delivered"})

EntitledOK == \A q \in MemoryRequests : Reads(memoryRequest[q]) => q \in entitled

\* The right was there in the one statement, or at the first.
AnsweredRightly ==
    answer'.how \in {"current", "revision", "delivered", "entry"} =>
      \/ /\ UNCHANGED memoryRequest
         /\ MayRead(answer'.agent, answer'.code, answer'.revision)
      \/ \E q \in entitled :
           LET r == memoryRequest[q]
           IN  /\ r.agent = answer'.agent /\ r.code = answer'.code /\ r.revision = answer'.revision
               /\ memoryRequest'[q] = NoMemoryRequest

\* A removed memory is shared by those that were about to, if by any.
SharingFollows ==
    \A k \in MemoryCodes :
      Removed(k) =>
        /\ Sharing(k)' \subseteq Sharing(k)
        /\ memory[k].visibility = "private" /\ memory'[k].visibility = "public" => Sharing(k)' # Sharing(k)

RightStep == EntitledOK' /\ AnsweredRightly /\ SharingFollows

\* A removed memory becomes public, if at all, by the share that ends.
OnlyBy(q, r) ==
    /\ r.step = "share" => ~Removed(r.code)
    /\ \A k \in MemoryCodes :
         Removed(k) /\ memory[k].visibility = "private" /\ memory'[k].visibility = "public" =>
           memoryRequest[q].step = "share" /\ memoryRequest[q].code = k /\ r.step # "share"

LEMMA MovesRightly ==
  ASSUME MemoryInv, EntitledOK, Remember, NEW q \in MemoryRequests, NEW r, Becomes(q, r), OnlyBy(q, r),
         Reads(r) => \/ memoryRequest[q].step # "idle" /\ q \in entitled
                     \/ memoryRequest[q].step = "idle" /\ MayRead(r.agent, r.code, r.revision)
  PROVE  EntitledOK' /\ SharingFollows
  <1>1. \A p \in MemoryRequests : memoryRequest'[p] = IF p = q THEN r ELSE memoryRequest[p]
    BY DEF Becomes, MemoryInv, RequestsOK
  <1>2. SharingFollows
    BY <1>1 DEF SharingFollows, Sharing, OnlyBy
  <1>3. ASSUME NEW p \in MemoryRequests, Reads(memoryRequest'[p])
        PROVE  p \in entitled'
    <2>1. memoryRequest'[p].step \in {"delivered", "archive"}
      BY <1>3 DEF Reads
    <2>2. CASE p = q
      <3>1. IF memoryRequest[p].step = "idle" THEN MayRead(r.agent, r.code, r.revision) ELSE p \in entitled
        BY <1>1, <1>3, <2>2
      <3> QED
        BY <1>1, <2>1, <2>2, <3>1 DEF Remember
    <2>3. CASE p # q
      <3>1. memoryRequest[p].step # "idle" /\ p \in entitled
        BY <1>1, <1>3, <2>3 DEF EntitledOK, Reads
      <3> QED
        BY <2>1, <3>1 DEF Remember
    <2> QED
      BY <2>2, <2>3
  <1> QED
    BY <1>2, <1>3 DEF EntitledOK, Reads

\* A request moves without an answer.
LEMMA MovesSilently ==
  ASSUME MemoryInv, EntitledOK, Remember, answer' = NoAnswer, NEW q \in MemoryRequests, NEW r, Becomes(q, r),
         OnlyBy(q, r),
         Reads(r) => \/ memoryRequest[q].step # "idle" /\ q \in entitled
                     \/ memoryRequest[q].step = "idle" /\ MayRead(r.agent, r.code, r.revision)
  PROVE  RightStep
  BY MovesRightly DEF RightStep, AnsweredRightly, NoAnswer

\* No request moves, and nothing is answered.
LEMMA StaysSilent ==
  ASSUME MemoryInv, EntitledOK, Remember, answer' = NoAnswer, UNCHANGED memoryRequest,
         \A k \in MemoryCodes : memory'[k].visibility = memory[k].visibility \/ memory'[k].visibility = "private"
  PROVE  RightStep
  <1>1. SharingFollows
    BY DEF SharingFollows, Sharing
  <1>2. ASSUME NEW p \in MemoryRequests, Reads(memoryRequest'[p])
        PROVE  p \in entitled'
    <2>1. memoryRequest'[p].step \in {"delivered", "archive"} /\ memoryRequest[p].step # "idle" /\ p \in entitled
      BY <1>2 DEF EntitledOK, Reads
    <2> QED
      BY <2>1 DEF Remember
  <1> QED
    BY <1>1, <1>2 DEF RightStep, AnsweredRightly, NoAnswer, EntitledOK, Reads

LEMMA ReadsNothing ==
  /\ ~Reads(NoMemoryRequest) /\ NoMemoryRequest.step # "share"
  /\ \A q : UNCHANGED memory => OnlyBy(q, NoMemoryRequest)
  BY DEF Reads, NoMemoryRequest, OnlyBy

\* A request answers, in its one statement or at the end of several.
LEMMA AnswersRightly ==
  ASSUME MemoryInv, EntitledOK, Remember, UNCHANGED memory, NEW q \in MemoryRequests, NEW a, NEW how, NEW k, NEW v,
         NEW content, Answers(q, a, how, k, v, content),
         \/ how \in {"pinned", "live"}
         \/ memoryRequest[q].step = "idle" /\ MayRead(a, k, v)
         \/ /\ q \in entitled
            /\ memoryRequest[q].agent = a /\ memoryRequest[q].code = k /\ memoryRequest[q].revision = v
  PROVE  RightStep
  <1>1. /\ answer' = [agent |-> a, how |-> how, code |-> k, revision |-> v, content |-> content]
        /\ Becomes(q, NoMemoryRequest)
    BY DEF Answers, Ends
  <1>2. EntitledOK' /\ SharingFollows
    BY <1>1, MovesRightly, ReadsNothing
  <1>3. memoryRequest'[q] = NoMemoryRequest
    BY <1>1 DEF Becomes, MemoryInv, RequestsOK
  <1>4. memoryRequest[q].step = "idle" => UNCHANGED memoryRequest
    <2>1. memoryRequest[q].step = "idle" => memoryRequest[q] = NoMemoryRequest
      BY Asked DEF MemoryCall, NoMemoryRequest
    <2> QED
      BY <1>1, <2>1 DEF Becomes, MemoryInv, RequestsOK
  <1>5. AnsweredRightly
    BY <1>1, <1>3, <1>4 DEF AnsweredRightly
  <1> QED
    BY <1>2, <1>5 DEF RightStep

LEMMA WritesRightly ==
  ASSUME MemoryInv, EntitledOK, Remember, answer' = NoAnswer, MemoryWrites
  PROVE  RightStep
  <1>1. ASSUME NEW q \in MemoryRequests, NEW a \in Bots, NEW k \in MemoryCodes, NEW content \in Contents,
               PushCreate(q, a, k, content)
        PROVE  RightStep
    <2>1. \A x \in MemoryCodes : memory'[x] = memory[x] \/ ~Exists(x)
      BY <1>1 DEF PushCreate, MemoryInv, MemoriesTyped
    <2>2. OnlyBy(q, NoMemoryRequest) /\ Becomes(q, NoMemoryRequest)
      BY <1>1, <2>1, ReadsNothing DEF OnlyBy, Removed, PushCreate, Ends
    <2> QED
      BY <2>2, MovesSilently, ReadsNothing
  <1>2. ASSUME NEW q \in MemoryRequests, NEW a \in Bots, NEW k \in MemoryCodes,
               NEW op \in {"update", "share", "unshare", "delete"}, OwnedRead(q, a, k, op)
        PROVE  RightStep
    <2>1. PICK r : r = [step |-> op, agent |-> a, code |-> k]
      OBVIOUS
    <2>2. Becomes(q, r) /\ OnlyBy(q, r) /\ ~Reads(r)
      BY <1>2, <2>1 DEF OwnedRead, OnlyBy, Removed, Owns, IsActive, Reads
    <2> QED
      BY <2>2, MovesSilently
  <1>3. ASSUME NEW q \in MemoryRequests, NEW a \in Bots, NEW k \in MemoryCodes, NEW kind \in {"entry", "delivery"},
               PinRead(q, a, k, kind)
        PROVE  RightStep
    <2>1. PICK r : r = [step |-> "pin", agent |-> a, code |-> k, kind |-> kind, revision |-> memory[k].revision]
      OBVIOUS
    <2>2. Becomes(q, r) /\ OnlyBy(q, r) /\ ~Reads(r)
      BY <1>3, <2>1 DEF PinRead, OnlyBy, Reads
    <2> QED
      BY <2>2, MovesSilently
  <1>4. ASSUME NEW q \in MemoryRequests, NEW content \in Contents, PushUpdate(q, content)
        PROVE  RightStep
    <2>1. PICK r : r = memoryRequest[q]
      OBVIOUS
    <2>2. /\ r.code \in MemoryCodes /\ Exists(r.code) /\ memory' = Overwritten(r.code, content)
          /\ Becomes(q, NoMemoryRequest)
      BY <1>4, <2>1, Asked, MemoryCallFields DEF PushUpdate, Locked, Owns, IsActive, Ends
    <2>3. \A x \in MemoryCodes : memory'[x].visibility = memory[x].visibility
      <3>1. memory[r.code] \in MemoryRow
        BY <2>2 DEF MemoryInv, MemoriesTyped, Exists
      <3>2. PICK row : row = [memory[r.code] EXCEPT !.content = content, !.revision = @ + 1]
        OBVIOUS
      <3>3. row.visibility = memory[r.code].visibility
        BY <3>1, <3>2 DEF MemoryRow
      <3>4. memory' = [memory EXCEPT ![r.code] = row]
        BY <2>2, <3>2 DEF Overwritten, MemoryInv, MemoriesTyped
      <3> QED
        BY <2>2, <3>3, <3>4 DEF MemoryInv, MemoriesTyped
    <2>4. OnlyBy(q, NoMemoryRequest)
      BY <2>3, ReadsNothing DEF OnlyBy
    <2> QED
      BY <2>2, <2>4, MovesSilently, ReadsNothing
  <1>5. ASSUME NEW q \in MemoryRequests, SetVisibility(q)
        PROVE  RightStep
    <2>1. PICK r : r = memoryRequest[q]
      OBVIOUS
    <2>2. /\ r.step \in {"share", "unshare"} /\ r.code \in MemoryCodes /\ Becomes(q, NoMemoryRequest)
          /\ memory' = [memory EXCEPT ![r.code].visibility = IF r.step = "share" THEN "public" ELSE "private"]
      BY <1>5, <2>1, Asked, MemoryCallFields DEF SetVisibility, Ends
    <2>3. memory[r.code] \in MemoryRow
      <3>1. Exists(r.code)
        BY <2>1, <2>2, Asked DEF RequestOK
      <3> QED
        BY <2>2, <3>1 DEF MemoryInv, MemoriesTyped, Exists
    <2>4. \A x \in MemoryCodes : memory'[x] = memory[x] \/ x = r.code
      BY <2>2 DEF MemoryInv, MemoriesTyped
    <2>5. r.step = "unshare" => memory'[r.code].visibility = "private"
      BY <2>2, <2>3 DEF MemoryInv, MemoriesTyped, MemoryRow
    <2>6. OnlyBy(q, NoMemoryRequest)
      BY <2>1, <2>2, <2>4, <2>5, ReadsNothing DEF OnlyBy
    <2> QED
      BY <2>2, <2>6, MovesSilently, ReadsNothing
  <1>6. ASSUME NEW q \in MemoryRequests, SoftDelete(q)
        PROVE  RightStep
    <2>1. PICK r : r = memoryRequest[q]
      OBVIOUS
    <2>2. /\ r.step = "delete" /\ r.code \in MemoryCodes /\ Becomes(q, NoMemoryRequest)
          /\ memory' = [memory EXCEPT ![r.code].status = "deleted"]
      BY <1>6, <2>1, Asked, MemoryCallFields DEF SoftDelete, Ends
    <2>3. memory[r.code] \in MemoryRow
      <3>1. Exists(r.code)
        BY <2>1, <2>2, Asked DEF RequestOK
      <3> QED
        BY <2>2, <3>1 DEF MemoryInv, MemoriesTyped, Exists
    <2>4. \A x \in MemoryCodes : memory'[x].visibility = memory[x].visibility
      BY <2>2, <2>3 DEF MemoryInv, MemoriesTyped, MemoryRow
    <2>5. OnlyBy(q, NoMemoryRequest)
      BY <2>4, ReadsNothing DEF OnlyBy
    <2> QED
      BY <2>2, <2>5, MovesSilently, ReadsNothing
  <1>7. ASSUME NEW q \in MemoryRequests, Pin(q) \/ MemoryRequestEnds(q)
        PROVE  RightStep
    BY <1>7, MovesSilently, ReadsNothing DEF Pin, MemoryRequestEnds, Ends
  <1>8. ASSUME NEW k \in MemoryCodes, UnshareMemory(k) \/ RemoveMemory(k)
        PROVE  RightStep
    <2>1. memory[k] \in MemoryRow /\ UNCHANGED memoryRequest
      BY <1>8 DEF UnshareMemory, RemoveMemory, MemoryInv, MemoriesTyped, Exists
    <2>2. memory'[k].visibility = "private" /\ \A x \in MemoryCodes : x = k \/ memory'[x] = memory[x]
      BY <1>8, <2>1 DEF UnshareMemory, RemoveMemory, MemoryInv, MemoriesTyped, MemoryRow
    <2> QED
      BY <2>1, <2>2, StaysSilent
  <1>9. ASSUME NEW a \in Bots, Leave(a)
        PROVE  RightStep
    BY <1>9, StaysSilent DEF Leave
  <1> QED
    BY <1>1, <1>2, <1>3, <1>4, <1>5, <1>6, <1>7, <1>8, <1>9 DEF MemoryWrites

LEMMA ServedRightly ==
  ASSUME MemoryInv, EntitledOK, Remember, UNCHANGED memory, NEW q \in MemoryRequests, NEW a, NEW how, NEW k, NEW v,
         ServeOrLookUp(q, a, how, k, v),
         \/ memoryRequest[q].step = "idle" /\ MayRead(a, k, v)
         \/ /\ q \in entitled /\ memoryRequest[q].step # "idle"
            /\ memoryRequest[q].agent = a /\ memoryRequest[q].code = k /\ memoryRequest[q].revision = v
  PROVE  RightStep
  <1>1. CASE v = memory[k].revision
    BY <1>1, AnswersRightly DEF ServeOrLookUp
  <1>2. CASE v # memory[k].revision
    <2>1. PICK r : r = [step |-> "archive", agent |-> a, how |-> how, code |-> k, revision |-> v,
                        present |-> v < memory[k].revision]
      OBVIOUS
    <2>2. Becomes(q, r) /\ answer' = NoAnswer
      BY <1>2, <2>1 DEF ServeOrLookUp, Continues
    <2>3. OnlyBy(q, r) /\ r.agent = a /\ r.code = k /\ r.revision = v
      BY <2>1 DEF OnlyBy
    <2> QED
      BY <2>2, <2>3, MovesSilently
  <1> QED
    BY <1>1, <1>2

LEMMA ReadsRightly ==
  ASSUME MemoryInv, EntitledOK, Remember, MemoryReads
  PROVE  RightStep
  <1>1. ASSUME NEW q \in MemoryRequests, NEW a \in Bots, NEW k \in MemoryCodes, GetKungfuForBot(q, a, k)
        PROVE  RightStep
    <2>1. MayRead(a, k, memory[k].revision)
      BY <1>1 DEF GetKungfuForBot, Owns, MayRead
    <2> QED
      BY <1>1, <2>1, AnswersRightly DEF GetKungfuForBot, Starts
  <1>2. ASSUME NEW q \in MemoryRequests, NEW a \in Bots, NEW k \in MemoryCodes, NEW v \in 1 .. MaxRevision,
               GetKungfuRevisionForBot(q, a, k, v)
        PROVE  RightStep
    <2>1. MayRead(a, k, v)
      BY <1>2 DEF GetKungfuRevisionForBot, MayReadRevision, MayRead
    <2> QED
      BY <1>2, <2>1, ServedRightly DEF GetKungfuRevisionForBot, Starts
  <1>3. ASSUME NEW q \in MemoryRequests, NEW a \in Bots, NEW p \in pins, DeliveryRead(q, a, p)
        PROVE  RightStep
    <2>1. PICK r : r = [step |-> "delivered", agent |-> a, code |-> p.code, revision |-> p.revision]
      OBVIOUS
    <2>2. /\ Becomes(q, r) /\ answer' = NoAnswer /\ UNCHANGED memory /\ memoryRequest[q].step = "idle"
          /\ a \in inRoom /\ p.kind = "delivery"
      BY <1>3, <2>1 DEF DeliveryRead, Continues, Starts, IsMember
    <2>3. OnlyBy(q, r) /\ MayRead(r.agent, r.code, r.revision)
      BY <2>1, <2>2 DEF OnlyBy, MayRead
    <2> QED
      BY <2>2, <2>3, MovesSilently
  <1>4. ASSUME NEW q \in MemoryRequests, NEW a \in Bots, NEW p \in pins, ExpandThreadEntries(q, a, p)
        PROVE  RightStep
    <2>1. MayRead(a, p.code, p.revision) /\ memoryRequest[q].step = "idle" /\ UNCHANGED memory
      BY <1>4 DEF ExpandThreadEntries, MayRead, Starts, IsMember
    <2> QED
      BY <1>4, <2>1, AnswersRightly DEF ExpandThreadEntries
  <1>5. ASSUME NEW q \in MemoryRequests, DeliveredMemory(q)
        PROVE  RightStep
    <2>1. q \in entitled /\ memoryRequest[q].step # "idle"
      BY <1>5 DEF DeliveredMemory, EntitledOK, Reads
    <2> QED
      BY <1>5, <2>1, ServedRightly DEF DeliveredMemory
  <1>6. ASSUME NEW q \in MemoryRequests, ArchiveRead(q)
        PROVE  RightStep
    <2>1. PICK r : r = memoryRequest[q]
      OBVIOUS
    <2>2. r.step = "archive" /\ r.how \in {"revision", "delivered", "pinned"} /\ UNCHANGED memory
      BY <1>6, <2>1, Asked, MemoryCallFields DEF ArchiveRead
    <2>3. r.how = "pinned" \/ q \in entitled
      BY <2>1, <2>2 DEF EntitledOK, Reads
    <2>4. CASE <<r.code, r.revision>> \in DOMAIN archive
      <3>1. Answers(q, r.agent, r.how, r.code, r.revision, archive[<<r.code, r.revision>>])
        BY <1>6, <2>1, <2>4 DEF ArchiveRead
      <3> QED
        BY <2>1, <2>2, <2>3, <3>1, AnswersRightly
    <2>5. CASE <<r.code, r.revision>> \notin DOMAIN archive
      <3>1. Becomes(q, NoMemoryRequest) /\ answer' = [how |-> "missing", was |-> r.present]
        BY <1>6, <2>1, <2>5 DEF ArchiveRead, Ends
      <3> QED
        BY <2>2, <3>1, MovesRightly, ReadsNothing DEF RightStep, AnsweredRightly
    <2> QED
      BY <2>4, <2>5
  <1> QED
    BY <1>1, <1>2, <1>3, <1>4, <1>5, <1>6 DEF MemoryReads

LEMMA TasksRightly ==
  ASSUME MemoryInv, EntitledOK, Remember, HarnessNext
  PROVE  RightStep
  <1>1. ASSUME answer' = NoAnswer, (\E refs \in SUBSET MemoryCodes : NameMemories(refs))
                                   \/ (\E i \in DOMAIN engagements : EngagementEnds(i))
        PROVE  RightStep
    BY <1>1, StaysSilent DEF NameMemories, EngagementEnds
  <1>2. ASSUME answer' = NoAnswer, NEW q \in MemoryRequests, NEW a, ClaimRead(q, a)
        PROVE  RightStep
    <2>1. PICK s : s = {<<k, memory[k].revision>> : k \in {k \in named : Owns(TaskPublisher, k)}}
      OBVIOUS
    <2>2. PICK r : r = [step |-> "claim", agent |-> a, pins |-> s]
      OBVIOUS
    <2>3. Becomes(q, r) /\ UNCHANGED memory
      BY <1>2, <2>1, <2>2 DEF ClaimRead
    <2>4. OnlyBy(q, r) /\ ~Reads(r)
      BY <2>2, <2>3 DEF OnlyBy, Reads
    <2> QED
      BY <1>2, <2>3, <2>4, MovesSilently
  <1>3. ASSUME answer' = NoAnswer, NEW q \in MemoryRequests, ClaimCommit(q)
        PROVE  RightStep
    BY <1>3, MovesSilently, ReadsNothing DEF ClaimCommit, Ends
  <1>4. ASSUME NEW q \in MemoryRequests, NEW a, NEW k, GetHarness(q, a, k)
        PROVE  RightStep
    <2>1. PICK u : Continues(q, [step |-> "harness", agent |-> a, code |-> k, under |-> u]) /\ UNCHANGED memory
      BY <1>4 DEF GetHarness
    <2>2. PICK r : r = [step |-> "harness", agent |-> a, code |-> k, under |-> u]
      OBVIOUS
    <2>3. Becomes(q, r) /\ answer' = NoAnswer /\ OnlyBy(q, r) /\ ~Reads(r)
      BY <2>1, <2>2 DEF Continues, OnlyBy, Reads
    <2> QED
      BY <2>3, MovesSilently
  <1>5. ASSUME NEW q \in MemoryRequests, HarnessRow(q)
        PROVE  RightStep
    <2>1. PICK r : r = memoryRequest[q]
      OBVIOUS
    <2>2. r \in [step : {"harness", "live"}, agent : Nat, code : MemoryCodes, under : Nat] /\ UNCHANGED memory
      BY <1>5, <2>1, Asked DEF HarnessRow, MemoryCall, NoMemoryRequest
    <2>3. ASSUME NEW v, ServePinned(q, r, v)
          PROVE  RightStep
      <3>1. CASE v = memory[r.code].revision
        BY <2>2, <2>3, <3>1, AnswersRightly DEF ServePinned
      <3>2. CASE v # memory[r.code].revision
        <4>1. PICK n : n = [step |-> "archive", agent |-> r.agent, how |-> "pinned", code |-> r.code, revision |-> v,
                            present |-> TRUE, under |-> r.under]
          OBVIOUS
        <4>2. Becomes(q, n) /\ answer' = NoAnswer /\ OnlyBy(q, n) /\ ~Reads(n)
          BY <2>2, <2>3, <3>2, <4>1 DEF ServePinned, Continues, OnlyBy, Reads
        <4> QED
          BY <4>2, MovesSilently
      <3> QED
        BY <3>1, <3>2
    <2>4. ASSUME Continues(q, [r EXCEPT !.step = "live"])
          PROVE  RightStep
      <3>1. PICK n : n = [r EXCEPT !.step = "live"]
        OBVIOUS
      <3>2. n.step = "live"
        BY <2>2, <3>1
      <3>3. Becomes(q, n) /\ answer' = NoAnswer /\ OnlyBy(q, n) /\ ~Reads(n)
        BY <2>2, <2>4, <3>1, <3>2 DEF Continues, OnlyBy, Reads
      <3> QED
        BY <3>3, MovesSilently
    <2> QED
      BY <1>5, <2>1, <2>3, <2>4 DEF HarnessRow
  <1>6. ASSUME NEW q \in MemoryRequests, LiveRead(q)
        PROVE  RightStep
    <2>1. PICK r : r = memoryRequest[q]
      OBVIOUS
    <2>2. CASE Owns(TaskPublisher, r.code)
      BY <1>6, <2>1, <2>2, AnswersRightly DEF LiveRead
    <2>3. CASE ~Owns(TaskPublisher, r.code)
      BY <1>6, <2>1, <2>3, MovesSilently, ReadsNothing DEF LiveRead, Ends
    <2> QED
      BY <2>2, <2>3
  <1> QED
    BY <1>1, <1>2, <1>3, <1>4, <1>5, <1>6, WritesRightly, ReadsRightly DEF HarnessNext

LEMMA EntitledNext ==
  ASSUME MemoryInv, EntitledOK, [PlatformNext]_platformVars
  PROVE  EntitledOK' /\ [AnsweredRightly /\ SharingFollows]_memoryVars
  <1>1. CASE UNCHANGED memoryVars
    BY <1>1 DEF memoryVars, EntitledOK, Reads
  <1>2. CASE focus = "memories" /\ MemoriesStep /\ ~UNCHANGED memoryVars
    <2>1. MemoriesNext
      BY <1>2 DEF MemoriesStep
    <2> QED
      BY <2>1, WritesRightly, ReadsRightly DEF MemoriesNext, RightStep
  <1>3. CASE focus = "harness" /\ HarnessStep /\ ~UNCHANGED memoryVars
    <2>1. HarnessNext
      BY <1>3 DEF HarnessStep, harnessVars
    <2>2. Remember
      BY <2>1 DEF HarnessNext
    <2> QED
      BY <2>1, <2>2, TasksRightly DEF RightStep
  <1>4. PlatformNext => UNCHANGED memoryVars \/ (focus = "memories" /\ MemoriesStep) \/ (focus = "harness" /\ HarnessStep)
    BY DEF PlatformNext, OwnersStep, ReceiptsStep, LimiterStep, ReportsStep, harnessVars
  <1>5. UNCHANGED platformVars => UNCHANGED memoryVars
    BY DEF platformVars, harnessVars
  <1> QED
    BY <1>1, <1>2, <1>3, <1>4, <1>5

LEMMA EntitledInit == PlatformInit => EntitledOK
  BY DEF PlatformInit, MemoriesInit, EntitledOK, Reads, NoMemoryRequest

\* Every version of a memory is kept once and as written and is read as written; it is
\* answered to an agent that had the right to read it when it asked; a removed memory stays
\* as it is, but for the mark of sharing, which is set only by shares that were under way
\* when it was removed, by each once: for any number of memories, versions, accounts and
\* requests in flight.
THEOREM MemoriesAreKept == PlatformSpec => VersionsAreKept
  <1>1. MemoryInv => EveryVersionKept /\ AnswersAsWritten
    BY VersionsTell, AnswersTell
  <1>2. ASSUME MemoryInv, OwnerInv, EntitledOK, [PlatformNext]_platformVars
        PROVE  [\A k \in MemoryCodes :
                  Removed(k) =>
                    /\ Removed(k)'
                    /\ memory'[k].revision = memory[k].revision
                    /\ memory'[k].content = memory[k].content
                    /\ Sharing(k)' \subseteq Sharing(k)
                    /\ memory[k].visibility = "private" /\ memory'[k].visibility = "public" =>
                         Sharing(k)' # Sharing(k)]_memoryVars
    <2>1. HistoryKept
      BY <1>2, MemoryInvNext DEF MemoryStepOK
    <2>2. [SharingFollows]_memoryVars
      BY <1>2, EntitledNext
    <2> QED
      BY <2>1, <2>2 DEF HistoryKept, SharingFollows, Removed
  <1>3. ASSUME MemoryInv, EntitledOK, [PlatformNext]_platformVars
        PROVE  [answer'.how \in {"current", "revision", "delivered", "entry"} =>
                  \/ /\ UNCHANGED memoryRequest
                     /\ MayRead(answer'.agent, answer'.code, answer'.revision)
                  \/ \E q \in entitled :
                       LET r == memoryRequest[q]
                       IN  /\ r.agent = answer'.agent /\ r.code = answer'.code /\ r.revision = answer'.revision
                           /\ memoryRequest'[q] = NoMemoryRequest]_memoryVars
    BY <1>3, EntitledNext DEF AnsweredRightly
  <1>4. OwnerInv /\ [PlatformNext]_platformVars => OwnerInv'
    BY OwnerInvNext DEF OwnerStepOK
  <1>5. PlatformSpec => []OwnerInv
    BY <1>4, OwnerInvInit, PTL DEF PlatformSpec
  <1>6. MemoryInv /\ EntitledOK /\ [PlatformNext]_platformVars => EntitledOK'
    BY EntitledNext
  <1>7. PlatformSpec => []EntitledOK
    BY <1>6, EntitledInit, MemoriesHold, PTL DEF PlatformSpec
  <1>8. PlatformSpec => RemovedForGood
    BY <1>2, <1>5, <1>7, MemoriesHold, PTL DEF PlatformSpec, RemovedForGood
  <1>9. PlatformSpec => PrivateVersionsStayPrivate
    BY <1>3, <1>7, MemoriesHold, PTL DEF PlatformSpec, PrivateVersionsStayPrivate
  <1> QED
    BY <1>1, <1>8, <1>9, MemoriesHold, PTL DEF VersionsAreKept

\* A read under a claim is answered with the version the claim pinned, for any number of claims, updates and
\* withdrawals meanwhile.
THEOREM ClaimsReadWhatTheyPinned == PlatformSpec => EngagedReadsPinned
  <1>1. ASSUME MemoryInv, OwnerInv, [PlatformNext]_platformVars
        PROVE  [\A q \in MemoryRequests :
                  LET r == memoryRequest[q]
                  IN  /\ r.step \in {"harness", "live", "archive"} /\ "under" \in DOMAIN r /\ r.under # 0
                      /\ memoryRequest'[q] = NoMemoryRequest /\ answer' # NoAnswer
                      => /\ answer'.how # "missing"
                         /\ \A x \in PinsOf(r.under, r.code) :
                              answer'.revision = x[2] /\ answer'.content = written[x]]_harnessVars
    BY <1>1, MemoryInvNext DEF MemoryStepOK, PinnedAnswers, AnsweredUnder
  <1>2. OwnerInv /\ [PlatformNext]_platformVars => OwnerInv'
    BY OwnerInvNext DEF OwnerStepOK
  <1>3. PlatformSpec => []OwnerInv
    BY <1>2, OwnerInvInit, PTL DEF PlatformSpec
  <1> QED
    BY <1>1, <1>3, MemoriesHold, PTL DEF PlatformSpec, EngagedReadsPinned

-----------------------------------------------------------------------------
(***************************************************************************)
(* THE LIMITER.  What was admitted within the window less what a request   *)
(* may lose on its way is still in the store, which never holds more than  *)
(* the limit; and when the oldest leaves, a place is free.                 *)
(***************************************************************************)

LimiterCall ==
    {NotCalling} \cup [step : {"check"}, now : Nat, waited : BOOLEAN]
    \cup [step : {"details"}] \cup [step : {"inspect"}, now : Nat]

\* Requests of the store that are still in the window at a second.
LiveAt(timestamps, second) == {i \in DOMAIN timestamps : timestamps[i] + Window > second}

LimiterTyped ==
    /\ clock \in Nat /\ clock <= MaxTime /\ admitted \in Seq(Nat)
    /\ call \in [Callers -> LimiterCall] /\ told \in [Callers -> [at : Nat, after : Nat]]

\* The store has admitted requests, no more than the limit, at seconds they had read shortly before.
StoreOK ==
    /\ DOMAIN store \subseteq DOMAIN admitted /\ store = [i \in DOMAIN store |-> store[i]]
    /\ Used(store) <= Limit
    /\ \A i \in DOMAIN store :
         store[i] \in Nat /\ store[i] <= admitted[i] /\ admitted[i] <= store[i] + MaxStall

\* What was admitted lately is in the store.
AdmittedOK ==
    \A i \in DOMAIN admitted :
      admitted[i] <= clock /\ (admitted[i] + Window > clock + MaxStall => i \in DOMAIN store)

CallOK(c) ==
    /\ call[c].step \in {"check", "inspect"} => call[c].now <= clock /\ clock <= call[c].now + MaxStall
    /\ call[c].step = "check" /\ call[c].waited => told[c].at <= call[c].now

\* With nobody admitted since, a place is free by the time it was told.
ToldOK(c) ==
    /\ told[c].after <= Len(admitted)
    /\ told[c].after = Len(admitted) => Cardinality(LiveAt(store, told[c].at)) < Limit

LimiterInv ==
    LimiterTyped /\ StoreOK /\ AdmittedOK /\ \A c \in Callers : CallOK(c) /\ ToldOK(c)

\* A caller that waited and is served finds that others were admitted, or is admitted.
HonestStep ==
    \A c \in Callers :
      call[c].step = "check" /\ call'[c].step # "check" /\ call[c].waited => Len(admitted') > told[c].after

LimiterStepOK == LimiterInv' /\ HonestStep

-----------------------------------------------------------------------------
LEMMA LeastNumber ==
  ASSUME NEW T \in SUBSET Nat, T # {}
  PROVE  \E x \in T : \A y \in T : x <= y
  <1> DEFINE R == {ss \in Nat \X Nat : ss[1] < ss[2]}
  <1>1. IsWellFoundedOn(R, Nat)
    BY NatLessThanWellFounded DEF OpToRel
  <1> HIDE DEF R
  <1>2. PICK x \in T : \A y \in T : ~ (<<y, x>> \in R)
    BY <1>1, WFMin
  <1>3. \A y \in T : ~ (y < x)
    BY <1>2 DEF R
  <1> QED
    BY <1>3

LEMMA LimiterCallFields ==
  ASSUME NEW r \in LimiterCall
  PROVE  /\ r.step \in {"idle", "check", "details", "inspect"}
         /\ r.step \in {"check", "inspect"} => r.now \in Nat
         /\ r.step = "check" => r.waited \in BOOLEAN
  BY DEF LimiterCall, NotCalling

LEMMA StoreIsFinite ==
  ASSUME LimiterInv
  PROVE  /\ Len(admitted) \in Nat /\ DOMAIN admitted = 1 .. Len(admitted) /\ \A i \in DOMAIN admitted : admitted[i] \in Nat
         /\ IsFiniteSet(DOMAIN store) /\ Used(store) \in Nat
  <1>1. /\ Len(admitted) \in Nat /\ DOMAIN admitted = 1 .. Len(admitted) /\ \A i \in DOMAIN admitted : admitted[i] \in Nat
    BY LenProperties, ElementOfSeq DEF LimiterInv, LimiterTyped
  <1>2. IsFiniteSet(1 .. Len(admitted))
    BY <1>1, FS_Interval
  <1>3. IsFiniteSet(DOMAIN store)
    BY <1>1, <1>2, FS_Subset DEF LimiterInv, StoreOK
  <1> QED
    BY <1>1, <1>3, FS_CardinalityType DEF Used

\* Dropping what has left the window, or a longer one.
LEMMA Filtered ==
  ASSUME LimiterInv, NEW now \in Nat, now <= clock, NEW w \in Nat, w >= Window,
         NEW live, live = filterWindow(store, now, w)
  PROVE  /\ DOMAIN live \subseteq DOMAIN store /\ live = [i \in DOMAIN live |-> live[i]]
         /\ \A i \in DOMAIN live : live[i] = store[i]
         /\ w = Window => DOMAIN live = LiveAt(store, now)
         /\ IsFiniteSet(DOMAIN live) /\ Used(live) \in Nat /\ Used(live) <= Used(store) /\ Used(live) <= Limit
         /\ \A i \in DOMAIN admitted : admitted[i] + Window > clock + MaxStall => i \in DOMAIN live
         /\ \A second \in Nat : /\ LiveAt(live, second) \subseteq LiveAt(store, second)
                                /\ Cardinality(LiveAt(live, second)) <= Cardinality(LiveAt(store, second))
                                /\ Cardinality(LiveAt(live, second)) \in Nat
                                /\ Cardinality(LiveAt(store, second)) \in Nat
  <1>1. DOMAIN live = {i \in DOMAIN store : store[i] + w > now} /\ live = [i \in DOMAIN live |-> live[i]]
        /\ \A i \in DOMAIN live : live[i] = store[i]
    BY DEF filterWindow
  <1>2. IsFiniteSet(DOMAIN live) /\ Used(live) \in Nat /\ Used(live) <= Used(store) /\ Used(live) <= Limit
    <2>1. IsFiniteSet(DOMAIN live) /\ Used(live) <= Used(store)
      BY <1>1, StoreIsFinite, FS_Subset DEF Used
    <2> QED
      BY <2>1, StoreIsFinite, FS_CardinalityType, LimiterAssumption DEF Used, LimiterInv, StoreOK
  <1>3. ASSUME NEW i \in DOMAIN admitted, admitted[i] + Window > clock + MaxStall
        PROVE  i \in DOMAIN live
    <2>1. i \in DOMAIN store /\ store[i] \in Nat /\ admitted[i] <= store[i] + MaxStall /\ admitted[i] \in Nat
      BY <1>3, StoreIsFinite DEF LimiterInv, AdmittedOK, StoreOK
    <2>2. clock \in Nat /\ MaxStall \in Nat /\ Window \in Nat
      BY LimiterAssumption DEF LimiterInv, LimiterTyped
    <2> QED
      BY <1>1, <1>3, <2>1, <2>2
  <1>4. ASSUME NEW second \in Nat
        PROVE  /\ LiveAt(live, second) \subseteq LiveAt(store, second)
               /\ Cardinality(LiveAt(live, second)) <= Cardinality(LiveAt(store, second))
               /\ Cardinality(LiveAt(live, second)) \in Nat
               /\ Cardinality(LiveAt(store, second)) \in Nat
    <2>1. LiveAt(live, second) \subseteq LiveAt(store, second) /\ LiveAt(store, second) \subseteq DOMAIN store
      BY <1>1 DEF LiveAt
    <2>2. IsFiniteSet(LiveAt(store, second))
      BY <2>1, StoreIsFinite, FS_Subset
    <2>3. IsFiniteSet(LiveAt(live, second)) /\ Cardinality(LiveAt(live, second)) <= Cardinality(LiveAt(store, second))
      BY <2>1, <2>2, FS_Subset
    <2> QED
      BY <2>1, <2>2, <2>3, FS_CardinalityType
  <1>5. w = Window => DOMAIN live = LiveAt(store, now)
    BY <1>1 DEF LiveAt
  <1> QED
    BY <1>1, <1>2, <1>3, <1>4, <1>5

\* The store is filtered, nobody is admitted.
LEMMA FilteredStore ==
  ASSUME LimiterInv, NEW now \in Nat, now <= clock, NEW w \in Nat, w >= Window,
         store' = filterWindow(store, now, w), UNCHANGED <<clock, admitted>>
  PROVE  StoreOK' /\ AdmittedOK'
  <1>1. PICK live : live = filterWindow(store, now, w)
    OBVIOUS
  <1>2. /\ DOMAIN live \subseteq DOMAIN store /\ live = [i \in DOMAIN live |-> live[i]]
        /\ \A i \in DOMAIN live : live[i] = store[i]
        /\ Used(live) <= Limit
        /\ \A i \in DOMAIN admitted : admitted[i] + Window > clock + MaxStall => i \in DOMAIN live
    BY <1>1, Filtered
  <1>3. store' = live
    BY <1>1
  <1>4. StoreOK'
    BY <1>2, <1>3 DEF LimiterInv, StoreOK, Used
  <1>5. AdmittedOK'
    BY <1>2, <1>3 DEF LimiterInv, AdmittedOK
  <1> QED
    BY <1>4, <1>5

\* What a caller was told stays true of a smaller store.
LEMMA ToldStays ==
  ASSUME LimiterInv, NEW now \in Nat, now <= clock, NEW w \in Nat, w >= Window,
         store' = filterWindow(store, now, w), UNCHANGED admitted, NEW c \in Callers, told'[c] = told[c]
  PROVE  ToldOK(c)'
  <1>1. PICK live : live = filterWindow(store, now, w)
    OBVIOUS
  <1>2. told[c].at \in Nat /\ told[c].after \in Nat
    BY DEF LimiterInv, LimiterTyped
  <1>3. PICK at \in Nat : at = told[c].at
    BY <1>2
  <1>4. /\ Cardinality(LiveAt(live, at)) <= Cardinality(LiveAt(store, at))
        /\ Cardinality(LiveAt(live, at)) \in Nat /\ Cardinality(LiveAt(store, at)) \in Nat
    BY <1>1, Filtered
  <1>5. told[c].after = Len(admitted) => Cardinality(LiveAt(live, at)) < Limit
    BY <1>3, <1>4, LimiterAssumption DEF LimiterInv, ToldOK
  <1> QED
    BY <1>1, <1>3, <1>5 DEF LimiterInv, ToldOK, LiveAt

\* When the oldest has left the window a place is free.
LEMMA RetryAfterFrees ==
  ASSUME LimiterInv, NEW now \in Nat, now <= clock, NEW live, live = filterWindow(store, now, Window),
         Used(live) >= Limit, NEW seconds, seconds = RetryAfter(live, now)
  PROVE  seconds \in Nat /\ Cardinality(LiveAt(live, clock + seconds)) < Limit
  <1> DEFINE T == {live[i] : i \in DOMAIN live}
  <1>1. /\ Window \in Nat /\ clock \in Nat /\ Limit \in Nat /\ Limit >= 1
    BY LimiterAssumption DEF LimiterInv, LimiterTyped
  <1>2. /\ DOMAIN live = LiveAt(store, now) /\ \A i \in DOMAIN live : live[i] = store[i]
        /\ DOMAIN live \subseteq DOMAIN store
        /\ IsFiniteSet(DOMAIN live) /\ Used(live) \in Nat /\ Used(live) <= Limit
    BY <1>1, Filtered
  <1>3. \A i \in DOMAIN live : live[i] \in Nat /\ live[i] + Window > now
    BY <1>2 DEF LimiterInv, StoreOK, LiveAt
  <1>4. DOMAIN live # {}
    BY <1>1, <1>2, FS_EmptySet DEF Used
  <1>5. T \in SUBSET Nat /\ T # {}
    BY <1>3, <1>4
  <1>6. PICK t \in T : \A y \in T : t <= y
    <2> HIDE DEF T
    <2> QED
      BY <1>5, LeastNumber
  <1>7. PICK oldest : /\ oldest = CHOOSE x \in T : \A i \in DOMAIN live : x <= live[i]
                      /\ oldest \in T /\ \A i \in DOMAIN live : oldest <= live[i]
    <2>1. \E x \in T : \A i \in DOMAIN live : x <= live[i]
      BY <1>6
    <2> QED
      BY <2>1
  <1>8. PICK i \in DOMAIN live : live[i] = oldest
    BY <1>7
  <1>9. seconds = oldest + Window - now /\ seconds \in Nat
    <2>1. oldest \in Nat /\ oldest + Window > now
      BY <1>3, <1>8
    <2>2. seconds = IF DOMAIN live = {} \/ oldest + Window < now THEN 0 ELSE oldest + Window - now
      BY <1>7 DEF RetryAfter
    <2> QED
      BY <1>1, <1>4, <2>1, <2>2
  <1>10. i \notin LiveAt(live, clock + seconds)
    BY <1>1, <1>3, <1>8, <1>9 DEF LiveAt
  <1>11. LiveAt(live, clock + seconds) \subseteq DOMAIN live \ {i}
    BY <1>10 DEF LiveAt
  <1>12. Cardinality(DOMAIN live \ {i}) = Used(live) - 1 /\ IsFiniteSet(DOMAIN live \ {i})
    BY <1>2, <1>8, FS_RemoveElement DEF Used
  <1>13. Cardinality(LiveAt(live, clock + seconds)) <= Used(live) - 1
         /\ Cardinality(LiveAt(live, clock + seconds)) \in Nat
    BY <1>11, <1>12, FS_Subset, FS_CardinalityType
  <1> QED
    BY <1>1, <1>2, <1>9, <1>13

\* Where a call is and what it was told, after a step of one of them.
LEMMA CallMoves ==
  ASSUME LimiterInv, NEW c \in Callers, NEW r \in LimiterCall, NEW t \in [at : Nat, after : Nat],
         call' = [call EXCEPT ![c] = r], told' = [told EXCEPT ![c] = t], UNCHANGED clock,
         r.step \in {"check", "inspect"} => r.now <= clock /\ clock <= r.now + MaxStall,
         r.step = "check" /\ r.waited => t.at <= r.now
  PROVE  /\ call' \in [Callers -> LimiterCall] /\ told' \in [Callers -> [at : Nat, after : Nat]]
         /\ \A d \in Callers : CallOK(d)'
         /\ call'[c] = r /\ told'[c] = t
         /\ \A d \in Callers : d # c => call'[d] = call[d] /\ told'[d] = told[d]
  BY DEF LimiterInv, LimiterTyped, CallOK

\* One call is served; the others are where they were.
LEMMA HonestOf ==
  ASSUME NEW c \in Callers, \A d \in Callers : d # c => call'[d] = call[d],
         call[c].step = "check" /\ call'[c].step # "check" /\ call[c].waited => Len(admitted') > told[c].after
  PROVE  HonestStep
  BY DEF HonestStep

\* Whoever waited as told and is refused sees that others were admitted.
LEMMA RefusedSeesOthers ==
  ASSUME LimiterInv, NEW c \in Callers, call[c].step = "check", call[c].waited,
         Used(filterWindow(store, call[c].now, Window)) >= Limit
  PROVE  Len(admitted) > told[c].after
  <1>1. PICK now \in Nat : now = call[c].now /\ now <= clock /\ told[c].at <= now
    BY LimiterCallFields DEF LimiterInv, LimiterTyped, CallOK
  <1>2. PICK at \in Nat : at = told[c].at /\ at <= now
    BY <1>1 DEF LimiterInv, LimiterTyped
  <1>3. PICK live : live = filterWindow(store, now, Window)
    OBVIOUS
  <1>4. Window \in Nat /\ Limit \in Nat
    BY LimiterAssumption
  <1>5. DOMAIN live = LiveAt(store, now) /\ Used(live) \in Nat /\ Used(live) >= Limit
    BY <1>1, <1>3, <1>4, Filtered
  <1>6. \A i \in DOMAIN store : store[i] \in Nat
    BY DEF LimiterInv, StoreOK
  <1>7. LiveAt(store, now) \subseteq LiveAt(store, at)
    BY <1>2, <1>4, <1>6 DEF LiveAt
  <1>8. Cardinality(LiveAt(store, at)) \in Nat /\ Cardinality(LiveAt(store, now)) <= Cardinality(LiveAt(store, at))
    <2>1. IsFiniteSet(LiveAt(store, at))
      BY StoreIsFinite, FS_Subset DEF LiveAt
    <2> QED
      BY <1>7, <2>1, FS_Subset, FS_CardinalityType
  <1>9. Cardinality(LiveAt(store, at)) >= Limit
    BY <1>4, <1>5, <1>8 DEF Used
  <1>10. told[c].after # Len(admitted)
    BY <1>2, <1>4, <1>8, <1>9 DEF LimiterInv, ToldOK
  <1> QED
    BY <1>10, StoreIsFinite DEF LimiterInv, ToldOK, LimiterTyped

\* A call ends with an answer, or goes on, and the store is filtered.
LEMMA ServedWithout ==
  ASSUME LimiterInv, NEW c \in Callers, NEW r \in LimiterCall, r.step \notin {"check", "inspect"},
         NEW t \in [at : Nat, after : Nat], NEW now \in Nat, now <= clock, NEW live,
         live = filterWindow(store, now, Window), store' = live, UNCHANGED <<clock, admitted>>,
         call' = [call EXCEPT ![c] = r], told' = [told EXCEPT ![c] = t],
         t = told[c] \/ (t.after = Len(admitted) /\ Cardinality(LiveAt(live, t.at)) < Limit),
         call[c].step = "check" /\ call[c].waited => Len(admitted) > told[c].after
  PROVE  LimiterStepOK
  <1>1. Window \in Nat
    BY LimiterAssumption
  <1>2. StoreOK' /\ AdmittedOK'
    BY <1>1, FilteredStore
  <1>3. /\ call' \in [Callers -> LimiterCall] /\ told' \in [Callers -> [at : Nat, after : Nat]]
        /\ \A d \in Callers : CallOK(d)'
        /\ call'[c] = r /\ told'[c] = t
        /\ \A d \in Callers : d # c => call'[d] = call[d] /\ told'[d] = told[d]
    BY CallMoves
  <1>4. ASSUME NEW d \in Callers PROVE ToldOK(d)'
    <2>1. CASE told'[d] = told[d]
      BY <1>1, <2>1, ToldStays
    <2>2. CASE told'[d] # told[d]
      <3>1. d = c /\ t.after = Len(admitted) /\ Cardinality(LiveAt(live, t.at)) < Limit
        BY <1>3, <2>2
      <3>2. told'[d].after = Len(admitted') /\ Cardinality(LiveAt(store', told'[d].at)) < Limit
        BY <1>3, <3>1
      <3> QED
        BY <3>2, StoreIsFinite DEF ToldOK, LiveAt
    <2> QED
      BY <2>1, <2>2
  <1>5. LimiterTyped'
    BY <1>3 DEF LimiterInv, LimiterTyped
  <1>6. HonestStep
    BY <1>3, HonestOf
  <1> QED
    BY <1>2, <1>3, <1>4, <1>5, <1>6 DEF LimiterStepOK, LimiterInv

\* A call reads the clock.
LEMMA ClockRead ==
  ASSUME LimiterInv, NEW c \in Callers, call[c].step # "check", NEW r \in LimiterCall,
         r.step \in {"check", "inspect"}, r.now = clock, r.step = "check" /\ r.waited => told[c].at <= clock,
         call' = [call EXCEPT ![c] = r], UNCHANGED <<clock, store, told, admitted>>
  PROVE  LimiterStepOK
  <1>1. PICK t \in [at : Nat, after : Nat] : t = told[c] /\ told' = [told EXCEPT ![c] = t]
    BY DEF LimiterInv, LimiterTyped
  <1>2. clock \in Nat /\ MaxStall \in Nat /\ clock <= clock + MaxStall
    BY LimiterAssumption DEF LimiterInv, LimiterTyped
  <1>3. /\ r.now <= clock /\ clock <= r.now + MaxStall
        /\ r.step = "check" /\ r.waited => t.at <= r.now
    BY <1>1, <1>2
  <1>4. /\ call' \in [Callers -> LimiterCall] /\ told' \in [Callers -> [at : Nat, after : Nat]]
        /\ \A d \in Callers : CallOK(d)'
        /\ \A d \in Callers : d # c => call'[d] = call[d]
    BY <1>1, <1>3, CallMoves
  <1>5. LimiterTyped' /\ StoreOK'
    BY <1>4 DEF LimiterInv, LimiterTyped, StoreOK, Used
  <1>6. AdmittedOK' /\ \A d \in Callers : ToldOK(d)'
    BY DEF LimiterInv, AdmittedOK, ToldOK, LiveAt
  <1>7. HonestStep
    BY <1>4, HonestOf
  <1> QED
    BY <1>4, <1>5, <1>6, <1>7 DEF LimiterStepOK, LimiterInv

LEMMA ReadClockKeeps ==
  ASSUME LimiterInv, NEW c \in Callers, ReadClock(c) \/ ReadClockAgain(c)
  PROVE  LimiterStepOK
  <1>1. clock \in Nat /\ told[c].at \in Nat
    BY DEF LimiterInv, LimiterTyped
  <1>2. CASE ReadClock(c)
    <2>1. PICK r : r = [step |-> "check", now |-> clock, waited |-> clock >= told[c].at]
      OBVIOUS
    <2>2. r \in [step : {"check"}, now : Nat, waited : BOOLEAN]
      BY <1>1, <2>1
    <2>3. r \in LimiterCall /\ r.step = "check" /\ r.now = clock
      BY <2>1, <2>2 DEF LimiterCall
    <2>4. r.waited => told[c].at <= clock
      BY <1>1, <2>1
    <2>5. call' = [call EXCEPT ![c] = r] /\ call[c].step = "idle" /\ UNCHANGED <<clock, store, told, admitted>>
      BY <1>2, <2>1 DEF ReadClock
    <2> QED
      BY <2>3, <2>4, <2>5, ClockRead
  <1>3. CASE ReadClockAgain(c)
    <2>1. PICK r : r = [step |-> "inspect", now |-> clock]
      OBVIOUS
    <2>2. r \in LimiterCall /\ r.step = "inspect" /\ r.now = clock
      BY <1>1, <2>1 DEF LimiterCall
    <2> QED
      BY <1>3, <2>1, <2>2, ClockRead DEF ReadClockAgain
  <1> QED
    BY <1>2, <1>3

LEMMA AdmitKeeps ==
  ASSUME LimiterInv, NEW c \in Callers, Admit(c)
  PROVE  LimiterStepOK
  <1>1. PICK now \in Nat : now = call[c].now /\ now <= clock /\ clock <= now + MaxStall
    BY LimiterCallFields DEF Admit, LimiterInv, LimiterTyped, CallOK
  <1>2. PICK live : live = filterWindow(store, now, Window)
    OBVIOUS
  <1>3. PICK n : n = Len(admitted) + 1
    OBVIOUS
  <1>4. /\ Used(live) < Limit /\ UNCHANGED clock /\ admitted' = Append(admitted, clock)
        /\ store' = [i \in DOMAIN live \cup {n} |-> IF i = n THEN now ELSE live[i]]
        /\ call' = [call EXCEPT ![c] = NotCalling] /\ told' = [told EXCEPT ![c] = NotTold]
    BY <1>1, <1>2, <1>3 DEF Admit
  <1>5. /\ Window \in Nat /\ Limit \in Nat /\ MaxTime \in Nat /\ MaxStall \in Nat /\ clock \in Nat
        /\ Len(admitted) \in Nat /\ DOMAIN admitted = 1 .. Len(admitted)
    BY LimiterAssumption, StoreIsFinite DEF LimiterInv, LimiterTyped
  <1>6. /\ DOMAIN live \subseteq DOMAIN store /\ \A i \in DOMAIN live : live[i] = store[i]
        /\ IsFiniteSet(DOMAIN live) /\ Used(live) \in Nat
        /\ \A i \in DOMAIN admitted : admitted[i] + Window > clock + MaxStall => i \in DOMAIN live
    BY <1>1, <1>2, <1>5, Filtered
  <1>7. /\ admitted' \in Seq(Nat) /\ Len(admitted') = n /\ DOMAIN admitted' = DOMAIN admitted \cup {n}
        /\ \A i \in DOMAIN admitted : admitted'[i] = admitted[i]
        /\ admitted'[n] = clock /\ n \notin DOMAIN admitted /\ n \in Nat /\ n > 0
    <2>1. /\ admitted' \in Seq(Nat) /\ Len(admitted') = n /\ DOMAIN admitted' = 1 .. n
          /\ \A i \in 1 .. Len(admitted) : admitted'[i] = admitted[i]
          /\ admitted'[n] = clock
      BY <1>3, <1>4, <1>5, AppendProperties, LenProperties DEF LimiterInv, LimiterTyped
    <2> QED
      BY <1>3, <1>5, <2>1
  <1>8. NotCalling \in LimiterCall /\ NotCalling.step = "idle"
    BY DEF LimiterCall, NotCalling
  <1>9. NotTold \in [at : Nat, after : Nat] /\ NotTold.after = 0
    BY <1>5 DEF NotTold
  <1>10. /\ call' \in [Callers -> LimiterCall] /\ told' \in [Callers -> [at : Nat, after : Nat]]
         /\ \A d \in Callers : CallOK(d)'
         /\ told'[c] = NotTold
         /\ \A d \in Callers : d # c => call'[d] = call[d] /\ told'[d] = told[d]
    BY <1>4, <1>8, <1>9, CallMoves
  <1>11. n \notin DOMAIN live
    BY <1>6, <1>7 DEF LimiterInv, StoreOK
  <1>12. StoreOK'
    <2>1. DOMAIN store' = DOMAIN live \cup {n} /\ store' = [i \in DOMAIN store' |-> store'[i]]
      BY <1>4
    <2>2. Used(store') = Used(live) + 1
      BY <1>6, <1>11, <2>1, FS_AddElement DEF Used
    <2>3. Used(store') <= Limit
      BY <1>4, <1>5, <1>6, <2>2
    <2>4. DOMAIN store' \subseteq DOMAIN admitted'
      BY <1>6, <1>7, <2>1 DEF LimiterInv, StoreOK
    <2>5. ASSUME NEW i \in DOMAIN store'
          PROVE  store'[i] \in Nat /\ store'[i] <= admitted'[i] /\ admitted'[i] <= store'[i] + MaxStall
      <3>1. CASE i = n
        BY <1>1, <1>4, <1>5, <1>7, <2>1, <3>1
      <3>2. CASE i # n
        <4>1. i \in DOMAIN store /\ i \in DOMAIN admitted /\ store'[i] = store[i]
          BY <1>4, <1>6, <2>1, <2>5, <3>2 DEF LimiterInv, StoreOK
        <4> QED
          BY <1>7, <4>1 DEF LimiterInv, StoreOK
      <3> QED
        BY <3>1, <3>2
    <2> QED
      BY <2>1, <2>3, <2>4, <2>5 DEF StoreOK, Used
  <1>13. AdmittedOK'
    <2>1. ASSUME NEW i \in DOMAIN admitted'
          PROVE  admitted'[i] <= clock /\ (admitted'[i] + Window > clock + MaxStall => i \in DOMAIN store')
      <3>1. CASE i = n
        BY <1>4, <1>5, <1>7, <3>1
      <3>2. CASE i \in DOMAIN admitted
        BY <1>4, <1>6, <1>7, <3>2 DEF LimiterInv, AdmittedOK
      <3> QED
        BY <1>7, <2>1, <3>1, <3>2
    <2> QED
      BY <1>4, <2>1 DEF AdmittedOK
  <1>14. \A d \in Callers : ToldOK(d)'
    <2>1. ASSUME NEW d \in Callers PROVE told'[d].after < Len(admitted') /\ told'[d].after \in Nat
      <3>1. CASE d = c
        BY <1>7, <1>9, <1>10, <3>1
      <3>2. CASE d # c
        <4>1. told'[d] = told[d] /\ told[d].after \in Nat /\ told[d].after <= Len(admitted)
          BY <1>10, <3>2 DEF LimiterInv, LimiterTyped, ToldOK
        <4> QED
          BY <1>3, <1>5, <1>7, <4>1
      <3> QED
        BY <3>1, <3>2
    <2> QED
      BY <1>7, <2>1 DEF ToldOK
  <1>15. HonestStep
    <2>1. Len(admitted') > told[c].after
      BY <1>3, <1>5, <1>7 DEF LimiterInv, LimiterTyped, ToldOK
    <2> QED
      BY <1>10, <2>1, HonestOf
  <1>16. LimiterTyped'
    BY <1>4, <1>7, <1>10 DEF LimiterInv, LimiterTyped
  <1> QED
    BY <1>10, <1>12, <1>13, <1>14, <1>15, <1>16 DEF LimiterStepOK, LimiterInv

LEMMA RefuseKeeps ==
  ASSUME LimiterInv, NEW c \in Callers, Refuse(c) \/ RefuseAgent(c) \/ CheckAgentWithDetails(c)
  PROVE  LimiterStepOK
  <1>1. PICK now \in Nat : now = call[c].now /\ now <= clock
    BY LimiterCallFields DEF Refuse, RefuseAgent, CheckAgentWithDetails, LimiterInv, LimiterTyped, CallOK
  <1>2. PICK live : live = filterWindow(store, now, Window)
    OBVIOUS
  <1>3. /\ Window \in Nat /\ clock \in Nat /\ Limit \in Nat /\ Len(admitted) \in Nat
        /\ NotCalling \in LimiterCall /\ NotCalling.step = "idle"
    BY LimiterAssumption, StoreIsFinite DEF LimiterInv, LimiterTyped, LimiterCall, NotCalling
  <1>4. store' = live /\ UNCHANGED <<clock, admitted>>
    BY <1>1, <1>2 DEF Refuse, RefuseAgent, CheckAgentWithDetails, Tell
  <1>5. ASSUME NEW seconds \in Nat, Tell(c, seconds), Cardinality(LiveAt(live, clock + seconds)) < Limit,
               call[c].step = "check" /\ call[c].waited => Len(admitted) > told[c].after
        PROVE  LimiterStepOK
    <2>1. PICK t : t = [at |-> clock + seconds, after |-> Len(admitted)]
      OBVIOUS
    <2>2. /\ t \in [at : Nat, after : Nat] /\ t.after = Len(admitted)
          /\ Cardinality(LiveAt(live, t.at)) < Limit
      BY <1>3, <1>5, <2>1
    <2>3. told' = [told EXCEPT ![c] = t] /\ call' = [call EXCEPT ![c] = NotCalling]
      BY <1>5, <2>1 DEF Tell
    <2> QED
      BY <1>1, <1>2, <1>3, <1>4, <1>5, <2>2, <2>3, ServedWithout
  <1>6. call[c].step = "check" /\ call[c].waited /\ Used(live) >= Limit => Len(admitted) > told[c].after
    BY <1>1, <1>2, RefusedSeesOthers
  <1>7. CASE Refuse(c)
    <2>1. Used(live) >= Limit /\ Tell(c, RetryAfter(live, now))
      BY <1>1, <1>2, <1>7 DEF Refuse
    <2>2. PICK seconds : seconds = RetryAfter(live, now)
      OBVIOUS
    <2>3. seconds \in Nat /\ Cardinality(LiveAt(live, clock + seconds)) < Limit
      BY <1>1, <1>2, <2>1, <2>2, RetryAfterFrees
    <2> QED
      BY <1>5, <1>6, <2>1, <2>2, <2>3
  <1>8. CASE RefuseAgent(c)
    <2>1. PICK r : r = [step |-> "details"]
      OBVIOUS
    <2>2. r \in LimiterCall /\ r.step = "details"
      BY <2>1 DEF LimiterCall
    <2>3. /\ Used(live) >= Limit /\ call' = [call EXCEPT ![c] = r] /\ told[c] \in [at : Nat, after : Nat]
          /\ told' = [told EXCEPT ![c] = told[c]]
      BY <1>1, <1>2, <1>8, <2>1 DEF RefuseAgent, LimiterInv, LimiterTyped
    <2> QED
      BY <1>1, <1>2, <1>4, <1>6, <2>2, <2>3, ServedWithout
  <1>9. CASE CheckAgentWithDetails(c)
    <2>1. /\ call[c].step = "inspect"
          /\ Tell(c, IF Used(live) < Limit THEN 0 ELSE RetryAfter(live, now))
      BY <1>1, <1>2, <1>9 DEF CheckAgentWithDetails
    <2>2. Used(live) \in Nat /\ IsFiniteSet(DOMAIN live)
      BY <1>1, <1>2, <1>3, Filtered
    <2>3. CASE Used(live) < Limit
      <3>1. Cardinality(LiveAt(live, clock + 0)) \in Nat /\ Cardinality(LiveAt(live, clock + 0)) <= Used(live)
        BY <2>2, FS_Subset, FS_CardinalityType DEF LiveAt, Used
      <3>2. Cardinality(LiveAt(live, clock + 0)) < Limit
        BY <1>3, <2>2, <2>3, <3>1
      <3> QED
        BY <1>5, <2>1, <2>3, <3>2
    <2>4. CASE ~(Used(live) < Limit)
      <3>1. PICK seconds : seconds = RetryAfter(live, now)
        OBVIOUS
      <3>2. seconds \in Nat /\ Cardinality(LiveAt(live, clock + seconds)) < Limit
        BY <1>1, <1>2, <1>3, <2>2, <2>4, <3>1, RetryAfterFrees
      <3>3. Tell(c, seconds)
        BY <2>1, <2>4, <3>1
      <3> QED
        BY <1>5, <2>1, <3>2, <3>3
    <2> QED
      BY <2>3, <2>4
  <1> QED
    BY <1>7, <1>8, <1>9

LEMMA GCKeeps == LimiterInv /\ GC => LimiterStepOK
  <1> SUFFICES ASSUME LimiterInv, GC PROVE LimiterStepOK
    OBVIOUS
  <1>1. PICK now \in Nat : now = clock
    BY DEF LimiterInv, LimiterTyped
  <1>2. GCWindow \in Nat /\ GCWindow >= Window /\ now <= clock
    BY <1>1, LimiterAssumption
  <1>3. store' = filterWindow(store, now, GCWindow) /\ UNCHANGED <<clock, call, told, admitted>>
    BY <1>1 DEF GC
  <1>4. StoreOK' /\ AdmittedOK' /\ \A c \in Callers : ToldOK(c)'
    BY <1>2, <1>3, FilteredStore, ToldStays
  <1> QED
    BY <1>3, <1>4 DEF LimiterStepOK, HonestStep, LimiterInv, LimiterTyped, CallOK

LEMMA TimePassesKeeps == LimiterInv /\ TimePasses => LimiterStepOK
  <1> SUFFICES ASSUME LimiterInv, TimePasses PROVE LimiterStepOK
    OBVIOUS
  <1>1. /\ clock \in Nat /\ clock' = clock + 1 /\ clock' <= MaxTime /\ MaxTime \in Nat /\ MaxStall \in Nat
        /\ Window \in Nat /\ UNCHANGED <<store, call, told, admitted>>
    BY LimiterAssumption DEF TimePasses, LimiterInv, LimiterTyped
  <1>2. AdmittedOK'
    BY <1>1, StoreIsFinite DEF LimiterInv, AdmittedOK
  <1>3. ASSUME NEW c \in Callers PROVE CallOK(c)'
    <2>1. call[c].step \in {"check", "inspect"} => call[c].now \in Nat /\ clock < call[c].now + MaxStall
      BY LimiterCallFields DEF TimePasses, LimiterInv, LimiterTyped
    <2> QED
      BY <1>1, <2>1 DEF LimiterInv, CallOK
  <1>4. LimiterTyped'
    BY <1>1 DEF LimiterInv, LimiterTyped
  <1>5. StoreOK'
    BY <1>1 DEF LimiterInv, StoreOK, Used
  <1>6. \A c \in Callers : ToldOK(c)'
    BY <1>1 DEF LimiterInv, ToldOK, LiveAt
  <1>7. HonestStep
    BY <1>1 DEF HonestStep
  <1> QED
    BY <1>2, <1>3, <1>4, <1>5, <1>6, <1>7 DEF LimiterStepOK, LimiterInv

LEMMA LimiterInvNext ==
  ASSUME LimiterInv, [PlatformNext]_platformVars
  PROVE  LimiterStepOK
  <1>1. CASE UNCHANGED limiterVars
    BY <1>1 DEF limiterVars, LimiterStepOK, HonestStep, LimiterInv, LimiterTyped, StoreOK, Used, AdmittedOK, CallOK,
       ToldOK, LiveAt
  <1>2. CASE LimiterStep
    BY <1>2, ReadClockKeeps, AdmitKeeps, RefuseKeeps, GCKeeps, TimePassesKeeps DEF LimiterStep, LimiterNext
  <1> QED
    BY <1>1, <1>2 DEF PlatformNext, OwnersStep, MemoriesStep, HarnessStep, ReceiptsStep, ReportsStep, platformVars

LEMMA LimiterInvInit == PlatformInit => LimiterInv
  <1> SUFFICES ASSUME PlatformInit PROVE LimiterInv
    OBVIOUS
  <1>1. /\ clock = 0 /\ store = <<>> /\ admitted = <<>> /\ call = [c \in Callers |-> NotCalling]
        /\ told = [c \in Callers |-> NotTold]
    BY DEF PlatformInit, LimiterInit
  <1>2. /\ MaxTime \in Nat /\ Limit \in Nat /\ Limit >= 1 /\ DOMAIN store = {} /\ DOMAIN admitted = {}
        /\ admitted \in Seq(Nat) /\ Len(admitted) = 0 /\ Cardinality({}) = 0
    BY <1>1, LimiterAssumption, EmptySeq, FS_EmptySet
  <1>3. NotCalling \in LimiterCall /\ NotCalling.step = "idle" /\ NotTold \in [at : Nat, after : Nat]
        /\ NotTold.after = 0
    BY <1>2 DEF LimiterCall, NotCalling, NotTold
  <1>4. LimiterTyped
    BY <1>1, <1>2, <1>3 DEF LimiterTyped
  <1>5. StoreOK /\ AdmittedOK
    BY <1>1, <1>2 DEF StoreOK, Used, AdmittedOK
  <1>6. \A second : LiveAt(store, second) = {}
    BY <1>2 DEF LiveAt
  <1>7. ASSUME NEW c \in Callers PROVE CallOK(c) /\ ToldOK(c)
    <2>1. call[c].step = "idle" /\ told[c].after = 0
      BY <1>1, <1>3
    <2>2. Cardinality(LiveAt(store, told[c].at)) = 0
      BY <1>2, <1>6
    <2> QED
      BY <1>2, <2>1, <2>2 DEF CallOK, ToldOK
  <1> QED
    BY <1>4, <1>5, <1>7 DEF LimiterInv

LEMMA LimitHolds == LimiterInv => WithinLimit
  <1> SUFFICES ASSUME LimiterInv PROVE WithinLimit
    OBVIOUS
  <1> DEFINE lately == {i \in DOMAIN admitted : admitted[i] + Window > clock + MaxStall}
  <1>1. lately \subseteq DOMAIN store
    BY DEF LimiterInv, AdmittedOK
  <1>2. Cardinality(lately) <= Used(store) /\ Cardinality(lately) \in Nat /\ Used(store) \in Nat
    BY <1>1, StoreIsFinite, FS_Subset, FS_CardinalityType DEF Used
  <1>3. Used(store) <= Limit /\ Limit \in Nat
    BY LimiterAssumption DEF LimiterInv, StoreOK
  <1> QED
    BY <1>2, <1>3 DEF WithinLimit

\* No more than the limit are admitted within the window less what a request may lose on its way to the mutex, and
\* whoever waits as told is refused only if others were admitted, for any limit, window and number of callers.
THEOREM LimiterKeepsItsWord == PlatformSpec => WindowIsKept
  <1>1. LimiterInv /\ [PlatformNext]_platformVars => LimiterInv'
    BY LimiterInvNext DEF LimiterStepOK
  <1>2. PlatformSpec => []LimiterInv
    BY <1>1, LimiterInvInit, PTL DEF PlatformSpec
  <1>3. ASSUME LimiterInv, [PlatformNext]_platformVars
        PROVE  [\A c \in Callers :
                  call[c].step = "check" /\ call'[c].step # "check" /\ call[c].waited
                    => Len(admitted') > told[c].after]_limiterVars
    BY <1>3, LimiterInvNext DEF LimiterStepOK, HonestStep
  <1>4. PlatformSpec => RetryAfterIsHonest
    BY <1>2, <1>3, PTL DEF PlatformSpec, RetryAfterIsHonest
  <1> QED
    BY <1>2, <1>4, LimitHolds, PTL DEF WindowIsKept
=============================================================================
