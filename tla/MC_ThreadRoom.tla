--------------------------- MODULE MC_ThreadRoom ---------------------------
(***************************************************************************)
(* Instances of ThreadRoom for TLC.                                        *)
(***************************************************************************)
EXTENDS RoomViews, TLC

\* Accounts are interchangeable.
AccountSymmetry == Permutations(Accounts)

\* A bound: keys are issued again in behaviours in which nobody posts.
RotationOrEntries ==
    (\A r \in Rooms : room[r].issued <= 1) \/ (\A e \in EntryIds : entry[e] = NoEntry)
=============================================================================
