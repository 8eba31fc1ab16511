------------------------------ MODULE Credits ------------------------------
(***************************************************************************)
(* The credits ledger: balances in tb_bots and the rows of tb_transactions *)
(* behind them.  record locks the account, checks the sum against int64    *)
(* and the debit against the balance, and writes the balance and the row   *)
(* in the caller's transaction, so it is part of the caller's action.      *)
(* Rows of one account, type and reference are kept as their sum.          *)
(***************************************************************************)
EXTENDS Integers, FiniteSetsExt, Sums

CONSTANTS
    Accounts,    \* tb_bots
    MaxCredits,  \* the largest int64
    Opening      \* the credits an account has earned at the start, as a grant_signup row

ASSUME CreditsAssumption == MaxCredits \in Nat /\ Opening \in 0 .. MaxCredits

VARIABLES
    balance,     \* tb_bots.balance
    ledger       \* tb_transactions: <<account, type, reference>> |-> sum of the rows

\* Register: the account and its genesis row are one transaction.
CreditsInit ==
    /\ balance = [a \in Accounts |-> Opening]
    /\ ledger = [k \in {<<a, "grant_signup", a>> : a \in Accounts} |-> Opening]

\* SumAmountByTypeRef: the rows of one kind about one object.
SumAmountByTypeRef(a, type, ref) ==
    IF <<a, type, ref>> \in DOMAIN ledger THEN ledger[<<a, type, ref>>] ELSE 0

\* checkAdd: the sum is a number the ledger can hold.
checkAdd(a, amount) == balance[a] + amount \in -MaxCredits - 1 .. MaxCredits

\* Mutant: the debit is checked against the balance the caller looked at.
CanRecordUnchecked(a, amount) == checkAdd(a, amount)

\* An ordinary row: a debit never takes the balance below zero, a credit may leave a debt.
CanRecord(a, amount) ==
    /\ checkAdd(a, amount)
    /\ amount < 0 => balance[a] + amount >= 0

\* A reversal takes back what the provider has refunded, into debt if need be.
CanReverse(a, amount) == amount < 0 /\ checkAdd(a, amount)

\* Mutant: two rows of one kind about one object are kept as one.
PostOnce(a, type, ref, amount) ==
    /\ balance' = [balance EXCEPT ![a] = @ + amount]
    /\ ledger' = [k \in DOMAIN ledger \cup {<<a, type, ref>>} |->
                    IF k = <<a, type, ref>> THEN amount ELSE ledger[k]]

\* record, after its checks.
Post(a, type, ref, amount) ==
    /\ balance' = [balance EXCEPT ![a] = @ + amount]
    /\ ledger' = [k \in DOMAIN ledger \cup {<<a, type, ref>>} |->
                    IF k = <<a, type, ref>>
                    THEN SumAmountByTypeRef(a, type, ref) + amount ELSE ledger[k]]

Record(a, type, ref, amount) == CanRecord(a, amount) /\ Post(a, type, ref, amount)

RecordAuthoritativeReversal(a, type, ref, amount) ==
    CanReverse(a, amount) /\ Post(a, type, ref, amount)

-----------------------------------------------------------------------------
\* What the ledger's rows about an account add to its balance, and what they take.
KeysOf(a) == {k \in DOMAIN ledger : k[1] = a}
Added == [k \in DOMAIN ledger |-> IF ledger[k] > 0 THEN ledger[k] ELSE 0]
Taken == [k \in DOMAIN ledger |-> IF ledger[k] < 0 THEN -ledger[k] ELSE 0]

\* Every balance is the sum of the account's ledger rows (record writes both
\* in one transaction, whatever else that transaction does).
BalanceIsLedger ==
    \A a \in Accounts : balance[a] = Total(Added, KeysOf(a)) - Total(Taken, KeysOf(a))
=============================================================================
