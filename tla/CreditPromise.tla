---------------------------- MODULE CreditPromise ----------------------------
(***************************************************************************)
(* What the platform promises about the credits of its accounts, without   *)
(* saying how: a purse is filled once for a payment, the provider may take *)
(* back what that payment filled and no more, a reward is bought once and  *)
(* from a purse that covers it, and its cost comes back once or never.     *)
(* Nothing else moves credits.                                             *)
(***************************************************************************)
EXTENDS Integers

CONSTANTS
    Owners,    \* accounts
    Payments,  \* payments there may be
    Rewards,   \* rewards that may be bought
    Gift,      \* what an account is given when it is opened
    Most       \* the most one payment can fill

VARIABLES
    purse,     \* what each owner has, below zero after a late reversal
    filled,    \* by owner and payment: the credits bought
    reversed,  \* by owner and payment: the credits taken back
    spent,     \* by owner and reward: its cost
    restored   \* by owner and reward: the cost given back

promiseVars == <<purse, filled, reversed, spent, restored>>

\* A page for each owner, on which nothing is written.
Blank(Entries) == [o \in Owners |-> [e \in Entries |-> 0]]

Init ==
    /\ purse = [o \in Owners |-> Gift]
    /\ filled = Blank(Payments) /\ reversed = Blank(Payments)
    /\ spent = Blank(Rewards) /\ restored = Blank(Rewards)

\* n credits come into the purse of o, or leave it.
Moves(o, n) == purse' = [purse EXCEPT ![o] = @ + n]

\* A payment fills one purse, once.
Fill(o, p) ==
    /\ \A q \in Owners : filled[q][p] = 0
    /\ \E n \in 1 .. Most : Moves(o, n) /\ filled' = [filled EXCEPT ![o][p] = n]
    /\ UNCHANGED <<reversed, spent, restored>>

\* The provider takes back a part of what it was paid for, also from an empty purse.
Reverse(o, p) ==
    /\ \E n \in 1 .. filled[o][p] - reversed[o][p] :
          Moves(o, -n) /\ reversed' = [reversed EXCEPT ![o][p] = @ + n]
    /\ UNCHANGED <<filled, spent, restored>>

\* A reward is bought once, with what the purse holds.
Spend(o, r) ==
    /\ \A q \in Owners : spent[q][r] = 0
    /\ \E n \in 1 .. purse[o] : Moves(o, -n) /\ spent' = [spent EXCEPT ![o][r] = n]
    /\ UNCHANGED <<filled, reversed, restored>>

\* Its cost comes back whole, once.
Restore(o, r) ==
    /\ spent[o][r] > 0 /\ restored[o][r] = 0
    /\ Moves(o, spent[o][r]) /\ restored' = [restored EXCEPT ![o][r] = spent[o][r]]
    /\ UNCHANGED <<filled, reversed, spent>>

Next ==
    \E o \in Owners :
        \/ \E p \in Payments : Fill(o, p) \/ Reverse(o, p)
        \/ \E r \in Rewards : Spend(o, r) \/ Restore(o, r)

Spec == Init /\ [][Next]_promiseVars
=============================================================================
