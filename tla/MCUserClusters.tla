--------------------------- MODULE MCUserClusters ---------------------------
(* Small instances of UserClusters. *)
EXTENDS UserClusters
=============================================================================
