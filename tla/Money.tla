-------------------------------- MODULE Money --------------------------------
(***************************************************************************)
(* Payments and redemptions over one credits ledger: what is bought can be *)
(* spent before the provider takes it back.                                *)
(***************************************************************************)
EXTENDS Payments, Redemptions

moneyVars == <<payVars, rewVars>>
payOnly == <<setVars, pay, checkout, provVars, hook, fact, count>>

MoneyInit == PayInit /\ RewInit

MoneyNext == (PayNext /\ UNCHANGED rewVars) \/ (RewNext /\ UNCHANGED payOnly)

MoneySpec == MoneyInit /\ [][MoneyNext]_moneyVars

\* The rows of one kind about the objects ids, by account.
Booked(type, ids) == [a \in Accounts |-> [i \in ids |-> SumAmountByTypeRef(a, type, i)]]
Debited(type, ids) == [a \in Accounts |-> [i \in ids |-> -SumAmountByTypeRef(a, type, i)]]

\* Nobody owes more than the provider has taken back from it, whatever it has spent in between.
DebtWithinReversals ==
    \A a \in Accounts : balance[a] + Total(Debited("reverse_payment", Codes)[a], Codes) >= 0

\* Only the provider's reversals take an account below zero or deeper into debt:
\* whatever is spent is spent from a balance that covers it, at the moment it is
\* written, however old the balance the request looked at.
DebtOnlyByReversal ==
    [][\A a \in Accounts :
         balance'[a] < balance[a] /\ balance'[a] < 0 =>
           \E c \in Codes : SumAmountByTypeRef(a, "reverse_payment", c)'
                            < SumAmountByTypeRef(a, "reverse_payment", c)]_moneyVars

Promise == INSTANCE CreditPromise WITH
    Owners <- Accounts, Payments <- Codes, Rewards <- Redeemed, Gift <- Opening, Most <- MaxCredits,
    purse <- balance,
    filled <- Booked("grant_payment", Codes),
    reversed <- Debited("reverse_payment", Codes),
    spent <- Debited("spend_redemption", Redeemed),
    restored <- Booked("refund_redemption", Redeemed)

\* Payments, webhooks, redemptions and their review, over one ledger, keep the promise of CreditPromise: whatever
\* races or is repeated, each step moves the credits of one purse by what one of the four promises allows.
PromiseKept == Promise!Spec

\* A request key buys one thing, at the price of the moment, from a balance that covers it, and gets its credits
\* back once if it is turned down; nobody owes more than was taken back from it.
RedeemedOnce ==
    /\ [](OneAnswerPerKey /\ ChargedAndRefundedOnce /\ DebtWithinReversals)
    /\ RedeemedAtCurrentPrice /\ DebtOnlyByReversal
=============================================================================
