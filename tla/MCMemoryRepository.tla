------------------------- MODULE MCMemoryRepository -------------------------
(* A small instance of MemoryRepository. *)
EXTENDS MemoryRepository, TLC

(* Sound for safety: model values that only equality tells apart.          *)
Symmetry == Permutations(Threads) \cup Permutations(Users) \cup Permutations(Devices)
=============================================================================
