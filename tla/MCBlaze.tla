------------------------------ MODULE MCBlaze ------------------------------
(* Instances of Blaze for TLC.                                             *)
EXTENDS Blaze, TLC

Symmetry == Permutations(Workers)
=============================================================================
