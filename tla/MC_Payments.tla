----------------------------- MODULE MC_Payments -----------------------------
(***************************************************************************)
(* Instances of Payments.                                                  *)
(***************************************************************************)
EXTENDS Payments, TLC

\* The dearest price at first.
Dearest == [p \in Products |-> Max(Prices)]

Package(c, p, n) == [code |-> c, product |-> p, credits |-> n]
Input(e, m, k, s, pk) == [enabled |-> e, mode |-> m, key |-> k, secret |-> s, packages |-> pk]

OneSave == {Input(TRUE, "test", "test", "test", {Package("starter", "p1", 2)})}

\* A first save; one that keeps the secrets and changes the package; one for production
\* whose webhook secret is still the test one; one that sells a product twice.
Saves == OneSave \cup
    {Input(FALSE, "test", None, None, {Package("starter", "p1", 1)}),
     Input(TRUE, "prod", "prod", None, {Package("starter", "p1", 2)}),
     Input(TRUE, "test", None, None, {Package("starter", "p1", 2), Package("more", "p1", 1)})}

Alike == Permutations(Workers) \cup Permutations(Refunds)
=============================================================================
