------------------------------- MODULE MCUndo -------------------------------
(***************************************************************************)
(* The instances of Undo that TLC checks: two files, two filed places and  *)
(* quarantine, so that a place one decision has left can be taken by       *)
(* another file before the decision is undone.                             *)
(***************************************************************************)
EXTENDS Undo, TLC

\* The two files are alike.
Alike == Permutations(Files)

=============================================================================
