---------------------------- MODULE MC_RowLocks ----------------------------
EXTENDS RowLocks, TLC

\* Accounts and connections are interchangeable.
Peers == Permutations(Accounts) \cup Permutations(Txns)
=============================================================================
