----------------------------- MODULE SumProofs ------------------------------
(***************************************************************************)
(* The laws of sums, for every finite set of amounts.                      *)
(***************************************************************************)
EXTENDS Sums, FiniteSetTheorems, TLAPS

\* The credits of one amount.
LEMMA CreditsOfOne ==
  ASSUME NEW i, NEW n \in Nat
  PROVE  /\ IsFiniteSet({i} \X (1..n))
         /\ Cardinality({i} \X (1..n)) = n
  <1>1. IsFiniteSet({i}) /\ Cardinality({i}) = 1
    BY FS_Singleton
  <1>2. IsFiniteSet(1..n) /\ Cardinality(1..n) = n
    BY FS_Interval
  <1>3. /\ IsFiniteSet({i} \X (1..n))
        /\ Cardinality({i} \X (1..n)) = Cardinality({i}) * Cardinality(1..n)
    BY <1>1, <1>2, FS_Product, Zenon
  <1> QED
    BY <1>1, <1>2, <1>3

\* A sum of finitely many amounts is a natural number.
LEMMA TotalType ==
  ASSUME NEW S, IsFiniteSet(S), NEW f \in [S -> Nat], NEW R \in SUBSET S
  PROVE  IsFiniteSet(CreditsIn(f, R)) /\ Total(f, R) \in Nat
  <1> DEFINE C == {{i} \X (1..f[i]) : i \in R}
             g == [i \in R |-> {i} \X (1..f[i])]
  <1>1. IsFiniteSet(R)
    BY FS_Subset
  <1>2. g \in Surjection(R, C)
    BY DEF Surjection
  <1>3. IsFiniteSet(C)
    BY <1>1, <1>2, FS_Surjection
  <1>4. \A T \in C : IsFiniteSet(T)
    <2>1. ASSUME NEW i \in R PROVE IsFiniteSet({i} \X (1..f[i]))
      BY CreditsOfOne, f[i] \in Nat, Zenon
    <2> QED
      BY <2>1, Zenon
  <1>5. IsFiniteSet(CreditsIn(f, R))
    BY <1>3, <1>4, FS_UNION DEF CreditsIn
  <1> QED
    BY <1>5, FS_CardinalityType DEF Total

\* A sum is one of its amounts and the sum of the others.
LEMMA TotalSplit ==
  ASSUME NEW S, IsFiniteSet(S), NEW f \in [S -> Nat], NEW x \in S
  PROVE  /\ Total(f, S \ {x}) \in Nat
         /\ Total(f, S) = Total(f, S \ {x}) + f[x]
  <1> DEFINE A == CreditsIn(f, S \ {x})
             B == {x} \X (1..f[x])
  <1>1. Total(f, S) = Cardinality(A \cup B)
    BY DEF CreditsIn, Total
  <1>2. A \cap B = {}
    BY DEF CreditsIn
  <1>3. IsFiniteSet(A) /\ Cardinality(A) \in Nat /\ Total(f, S \ {x}) = Cardinality(A)
    BY TotalType DEF Total
  <1>4. IsFiniteSet(B) /\ Cardinality(B) = f[x]
    BY CreditsOfOne
  <1> HIDE DEF A, B
  <1>5. Cardinality(A \cup B) = Cardinality(A) + Cardinality(B) - Cardinality(A \cap B)
    BY <1>3, <1>4, FS_Union
  <1>6. Cardinality(A \cap B) = 0
    BY <1>2, FS_EmptySet
  <1>7. Cardinality(A \cup B) = Cardinality(A) + f[x]
    BY <1>3, <1>4, <1>5, <1>6
  <1> QED
    BY <1>1, <1>3, <1>7

\* Only the amounts of the set count.
LEMMA TotalSame ==
  ASSUME NEW R, NEW f, NEW g, \A i \in R : f[i] = g[i]
  PROVE  Total(f, R) = Total(g, R)
  BY DEF Total, CreditsIn

\* A changed amount moves the sum by the difference.
LEMMA TotalUpdate ==
  ASSUME NEW S, IsFiniteSet(S), NEW f \in [S -> Nat], NEW g \in [S -> Nat],
         NEW x \in S, \A i \in S \ {x} : f[i] = g[i]
  PROVE  Total(g, S) = Total(f, S) - f[x] + g[x]
  <1>1. Total(f, S \ {x}) = Total(g, S \ {x})
    BY TotalSame
  <1>2. Total(g, S) = Total(g, S \ {x}) + g[x] /\ Total(g, S \ {x}) \in Nat
    BY TotalSplit
  <1>3. Total(f, S) = Total(f, S \ {x}) + f[x] /\ f[x] \in Nat
    BY TotalSplit
  <1> QED
    BY <1>1, <1>2, <1>3

\* Nothing adds up to nothing.
LEMMA TotalZero ==
  ASSUME NEW S, NEW f, \A i \in S : f[i] = 0
  PROVE  Total(f, S) = 0
  <1>1. CreditsIn(f, S) = {}
    <2>1. \A i \in S : {i} \X (1..f[i]) = {}
      OBVIOUS
    <2> QED
      BY <2>1 DEF CreditsIn
  <1> QED
    BY <1>1, FS_EmptySet DEF Total

\* Each amount is part of the sum.
LEMMA TotalCovers ==
  ASSUME NEW S, IsFiniteSet(S), NEW f \in [S -> Nat], NEW x \in S
  PROVE  f[x] <= Total(f, S)
  <1>1. Total(f, S \ {x}) \in Nat /\ Total(f, S) = Total(f, S \ {x}) + f[x]
    BY TotalSplit
  <1> QED
    BY <1>1

=============================================================================
