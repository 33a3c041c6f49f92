--------------------------- MODULE MCMobileClient ---------------------------
(* A small instance of MobileClient. *)
EXTENDS MobileClient, TLC

(* Sound for safety: model values that only equality tells apart.          *)
Symmetry == Permutations(Tasks)

(* Bound: when a second token has been issued, the tunnel rests and no     *)
(* handler is without its screen; the app's process may still die.         *)
SecondTokenAtRest ==
  \/ Len(account) < 2
  \/ /\ commands = <<>> /\ current = "disconnected"
     /\ \A t \in Tasks : task[t].screen \/ task[t].op \in {"none", "activate", "read"}
=============================================================================
