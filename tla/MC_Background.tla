---------------------------- MODULE MC_Background ----------------------------
(***************************************************************************)
(* Instances of Background.                                                *)
(***************************************************************************)
EXTENDS Background

CONSTANTS a, b, d, r
=============================================================================
