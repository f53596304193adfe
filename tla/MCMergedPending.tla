-------------------------- MODULE MCMergedPending --------------------------
(* Instance of MergedPending for TLC: more lanes than the table holds. *)
EXTENDS MergedPending
=============================================================================
