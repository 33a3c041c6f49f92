---------------------- MODULE MCCommercialSubscriptions ----------------------
(* Small instances of CommercialSubscriptions for TLC.                     *)
EXTENDS CommercialSubscriptions, TLC

CONSTANTS t1, t2, k1, k2, p1, p2, d1

(* Sound for the safety runs: model values that only equality tells apart. *)
Symmetry == Permutations(Threads) \cup Permutations(Tokens) \cup Permutations(Payments)
=============================================================================
