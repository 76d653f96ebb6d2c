------------------------------ MODULE MCJBoxd ------------------------------
(* Instances of JBoxd for TLC. *)
EXTENDS JBoxd, TLC

CONSTANTS ebs, parallel

\* One plugin, both features: JBoxEBSHousekeep alone.
OnePlugin == <<ebs>>

\* The cluster plugins of the default configuration: vol_ebs and parallel.
TwoPlugins == <<ebs, parallel>>

ClientSymmetry == Permutations(Clients)
=============================================================================
