------------------------------ MODULE MCContext ------------------------------
(***************************************************************************)
(* Instances of Context for TLC.                                           *)
(***************************************************************************)
EXTENDS ContextInv, TLC

AppSymmetry == Permutations(App)
=============================================================================
