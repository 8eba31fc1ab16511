----------------------------- MODULE TaskEscrow -----------------------------
(***************************************************************************)
(* What the platform promises about a task's money, without saying how:    *)
(* credits leave the publisher's wallet for the task's pot, are held for   *)
(* one claim or one submission at a time, and end up either with the agent *)
(* of exactly one submission or back in the pot and, once nothing is held  *)
(* any more, back in the wallet.  Nothing is created or lost on the way.   *)
(***************************************************************************)
EXTENDS Integers

CONSTANTS Credits, ClaimIds, SubIds

VARIABLES
    wallet,   \* the publisher's balance
    pot,      \* locked in the task and free
    onClaim,  \* held for a claim
    onSub,    \* held for a submission in flight
    paid      \* paid to the agent of a submission

escrowVars == <<wallet, pot, onClaim, onSub, paid>>

Init ==
    /\ wallet = Credits
    /\ pot = 0
    /\ onClaim = [c \in ClaimIds |-> 0]
    /\ onSub = [s \in SubIds |-> 0]
    /\ paid = [s \in SubIds |-> 0]

Deposit ==
    /\ wallet' \in 0..wallet
    /\ pot' = pot + (wallet - wallet')
    /\ UNCHANGED <<onClaim, onSub, paid>>

\* Money moves from the pot to one claim that held nothing.
HoldForClaim(c) ==
    /\ onClaim[c] = 0
    /\ pot' \in 0..pot
    /\ onClaim' = [onClaim EXCEPT ![c] = pot - pot']
    /\ UNCHANGED <<wallet, onSub, paid>>

\* The same for a submission, which has never been paid.
HoldForSub(s) ==
    /\ onSub[s] = 0 /\ paid[s] = 0
    /\ pot' \in 0..pot
    /\ onSub' = [onSub EXCEPT ![s] = pot - pot']
    /\ UNCHANGED <<wallet, onClaim, paid>>

\* The submission takes over exactly what its claim held.
HandOver(c, s) ==
    /\ onSub[s] = 0 /\ paid[s] = 0
    /\ onSub' = [onSub EXCEPT ![s] = onClaim[c]]
    /\ onClaim' = [onClaim EXCEPT ![c] = 0]
    /\ UNCHANGED <<wallet, pot, paid>>

\* A claim ends unused: everything it held returns to the pot.
DropClaim(c) ==
    /\ pot' = pot + onClaim[c]
    /\ onClaim' = [onClaim EXCEPT ![c] = 0]
    /\ UNCHANGED <<wallet, onSub, paid>>

\* One claim ends and another starts in the same step.
Replace(old, c) ==
    /\ onClaim[c] = 0
    /\ pot' \in 0..(pot + onClaim[old])
    /\ onClaim' = [onClaim EXCEPT ![old] = 0,
                                  ![c] = pot + onClaim[old] - pot']
    /\ UNCHANGED <<wallet, onSub, paid>>

DropSub(s) ==
    /\ pot' = pot + onSub[s]
    /\ onSub' = [onSub EXCEPT ![s] = 0]
    /\ UNCHANGED <<wallet, onClaim, paid>>

Pay(s) ==
    /\ paid[s] = 0
    /\ paid' = [paid EXCEPT ![s] = onSub[s]]
    /\ onSub' = [onSub EXCEPT ![s] = 0]
    /\ UNCHANGED <<wallet, pot, onClaim>>

\* The pot goes back only when nothing is held.
Refund ==
    /\ \A c \in ClaimIds : onClaim[c] = 0
    /\ \A s \in SubIds : onSub[s] = 0
    /\ wallet' = wallet + pot
    /\ pot' = 0
    /\ UNCHANGED <<onClaim, onSub, paid>>

Next ==
    \/ Deposit
    \/ Refund
    \/ \E c \in ClaimIds : HoldForClaim(c) \/ DropClaim(c)
    \/ \E s \in SubIds : HoldForSub(s) \/ DropSub(s) \/ Pay(s)
    \/ \E c \in ClaimIds, s \in SubIds : HandOver(c, s)
    \/ \E old, c \in ClaimIds : Replace(old, c)

Spec == Init /\ [][Next]_escrowVars
=============================================================================
