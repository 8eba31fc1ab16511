-------------------------------- MODULE Sums --------------------------------
(***************************************************************************)
(* Sums of amounts.  The amounts of the platform are whole credits, so a   *)
(* sum counts them: it is the number of credits in the amounts it adds up. *)
(***************************************************************************)
EXTENDS Integers, FiniteSets

\* The single credits of the amounts f[i], i \in S.
CreditsIn(f, S) == UNION {{i} \X (1..f[i]) : i \in S}

\* The sum of the natural numbers f[i], i \in S.
Total(f, S) == Cardinality(CreditsIn(f, S))
=============================================================================
