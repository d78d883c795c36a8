------------------------------ MODULE MCBreaks ------------------------------
(***************************************************************************)
(* Breaks and their overlay on a small instance.                           *)
(***************************************************************************)
EXTENDS Overlay, TLC

Symmetry == Permutations(Request) \cup Permutations(Break)
=============================================================================
