-------------------------- MODULE MCLoopbackDisks --------------------------
(* Instances of LoopbackDisks for TLC. *)
EXTENDS LoopbackDisks, TLC

UserSymmetry == Permutations(Users)
=============================================================================
