--------------------------- MODULE MCDataVolumes ---------------------------
(* Small instances of DataVolumes. *)
EXTENDS DataVolumes
=============================================================================
