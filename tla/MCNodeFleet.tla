---------------------------- MODULE MCNodeFleet ----------------------------
(* Small instances of NodeFleet. *)
EXTENDS NodeFleet, TLC

CONSTANTS n1, n2, t1, t2

Symmetry == Permutations({t1, t2})
=============================================================================
