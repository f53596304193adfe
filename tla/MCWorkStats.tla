---------------------------- MODULE MCWorkStats ----------------------------
(* The instance of WorkStats for TLC: one worker, two connections. *)
EXTENDS WorkStats

CONSTANTS a, x, none

MCNoId == <<none, none>>
MCIds == {<<a, x>>}
MCPowers == {2, 4, 8}
=============================================================================
