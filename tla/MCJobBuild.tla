---------------------------- MODULE MCJobBuild ----------------------------
(* Instance of JobBuild for TLC: one connection, with its immediate, block   *)
(* and parent tasks.                                                         *)
EXTENDS JobBuild
=============================================================================
