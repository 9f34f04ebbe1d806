---------------------------- MODULE MCImageSwap ----------------------------
(***************************************************************************)
(* Two image jobs on a small card.                                         *)
(***************************************************************************)
EXTENDS ImageSwap, TLC

\* The jobs differ in nothing but their names.
Alike == Permutations(Draws)
=============================================================================
