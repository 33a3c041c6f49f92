--------------------------- MODULE MCNodeRotation ---------------------------
(* Small instances of NodeRotation. *)
EXTENDS NodeRotation

StatusReport(status) ==
  [score |-> 100, status |-> status, health |-> None, rate |-> None, latency |-> None]

(* A report of a status alone, and one that gives all but the status.      *)
MCReports ==
  {StatusReport("disabled"),
   [score |-> 60, status |-> None, health |-> "healthy", rate |-> 7500, latency |-> 0]}
=============================================================================
