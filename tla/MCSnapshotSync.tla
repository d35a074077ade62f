---------------------------- MODULE MCSnapshotSync ----------------------------
(***************************************************************************)
(* A joiner and its source over the small DAGs of MCDags.                  *)
(***************************************************************************)
EXTENDS SnapshotSync, MCDags

=============================================================================
