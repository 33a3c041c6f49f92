----------------------------- MODULE MCAccounts -----------------------------
(* A small instance of Accounts.                                           *)
EXTENDS Accounts, TLC

(* Sound for safety: model values that only equality tells apart.          *)
Symmetry == Permutations(Threads) \cup Permutations(Users) \cup Permutations(Devices)
=============================================================================
