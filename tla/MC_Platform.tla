----------------------------- MODULE MC_Platform -----------------------------
(***************************************************************************)
(* Instances of Platform.                                                  *)
(***************************************************************************)
EXTENDS Platform, TLC

CONSTANTS req1, req2, text1, text2, name1, name2

\* Two requests are interchangeable, and so are two contents and two names.
Alike == Permutations({req1, req2}) \cup Permutations({text1, text2}) \cup Permutations({name1, name2})
=============================================================================
