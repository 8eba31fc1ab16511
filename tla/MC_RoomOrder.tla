---------------------------- MODULE MC_RoomOrder ----------------------------
(***************************************************************************)
(* Instances of RoomOrder for TLC.                                         *)
(***************************************************************************)
EXTENDS RoomOrder, TLC

\* Nothing tells one account from another, or one administrator from another.
OrderSymmetry == Permutations(Accounts) \cup Permutations(Admins)

\* Bounds: a behaviour is followed until a second thing is left behind in it,
MaxLate == 1

FewLate ==
    Cardinality(promoted) + Cardinality(asked) + Cardinality(given)
      + Cardinality(unanswered) + Cardinality(undelivered) <= MaxLate

\* and while its entries either ask for a response or assign.
AsksOrAssigns ==
    \/ \A e \in EntryIds, a \in Accounts : receipt[e][a] = "none"
    \/ \A w \in AssignIds : ~AssignUsed(w)
=============================================================================
