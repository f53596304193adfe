--------------------------- MODULE MCMiningState ---------------------------
(* Instance of MiningState for TLC: a ring of two slots that wraps twice. *)
EXTENDS MiningState, TLC

Symmetry == Permutations(Jobs) \union Permutations(Diffs)
=============================================================================
