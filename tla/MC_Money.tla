------------------------------- MODULE MC_Money -------------------------------
(***************************************************************************)
(* Instances of payments and redemptions over one ledger.                  *)
(***************************************************************************)
EXTENDS Money, TLC

\* The dearest price at first.
Dearest == [p \in Products |-> Max(Prices)]

\* A first save, and one for production whose webhook secret is still the test one.
MCInputs == {[enabled |-> TRUE, mode |-> "test", key |-> "test", secret |-> "test",
              packages |-> {[code |-> "starter", product |-> "p1", credits |-> 2]}],
             [enabled |-> TRUE, mode |-> "prod", key |-> "prod", secret |-> None,
              packages |-> {[code |-> "starter", product |-> "p1", credits |-> 1]}]}

RequestsAlike == Permutations(Requests) \cup Permutations(Keys) \cup Permutations(Redeemed)
=============================================================================
