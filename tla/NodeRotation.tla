---------------------------- MODULE NodeRotation ----------------------------
(***************************************************************************)
(* One node over time: the health-check timer probes it again and again    *)
(* while its link comes and goes, and an administrator now and then turns  *)
(* it off and on or reports its health.  Every state the evaluator can     *)
(* bring a node to is here: nothing bounds the number of probes.  (The     *)
(* races between worker and administrator are NodeFleet's.)                *)
(***************************************************************************)
EXTENDS NodeHealth

CONSTANTS IncludeDisabled,  \* the worker's --include-disabled
          Reports           \* what administrators report of a node's health

(* The body of PATCH health: the score is required, the rest may be left   *)
(* out.                                                                    *)
Report == [score : 0..100, status : Statuses \cup {None}, health : Healths \cup {None},
           rate : Rates \cup {None}, latency : Latencies \cup {None}]

ASSUME IncludeAssumption == IncludeDisabled \in BOOLEAN
ASSUME ReportsAssumption == Reports \subseteq Report

VARIABLES
  node,      \* the row
  link,      \* the latency of its link now, None while it is down
  answered,  \* history: the last probe was answered, or an administrator spoke since
  streak     \* history: prompt answers in a row, up to 4, since the last report

vars == <<node, link, answered, streak>>

Prompt(probe) == probe # None /\ probe <= 170

LinkChanges == /\ link' \in Probes
               /\ link' # link
               /\ UNCHANGED <<node, answered, streak>>

(* run_once for this node: the verdict is saved by update_node_health.     *)
Check == /\ IncludeDisabled \/ node.status # "disabled"
         /\ \E verdict \in Evaluate(node, link) : node' = Updated(node, verdict)
         /\ answered' = (link # None)
         /\ streak' = IF ~Prompt(link) THEN 0 ELSE IF streak < 4 THEN streak + 1 ELSE 4
         /\ UNCHANGED link

(* An administrator: DELETE or PATCH enabled; PATCH health.                *)
AdminSets(enabled) == /\ node' = Enabled(node, enabled)
                      /\ answered' = TRUE
                      /\ UNCHANGED <<link, streak>>

AdminReports(report) == /\ node' = Updated(node, report)
                        /\ answered' = TRUE
                        /\ streak' = 0
                        /\ UNCHANGED link

Init == node = Fresh /\ link \in Probes /\ answered = TRUE /\ streak = 0

Admin == \/ \E enabled \in BOOLEAN : AdminSets(enabled)
         \/ \E report \in Reports : AdminReports(report)

Next == LinkChanges \/ Check \/ Admin

Spec == Init /\ [][Next]_vars

(* The systemd timer starts the worker again and again.                    *)
FairSpec == Spec /\ WF_vars(Check)

-----------------------------------------------------------------------------
(* The row, the link and the history variables have their types.           *)
TypeOK == node \in Health /\ link \in Probes /\ answered \in BOOLEAN /\ streak \in 0..4

(* Configs and subscriptions only carry nodes that answered their last     *)
(* probe, unless an administrator has spoken since.                        *)
ServedNodesAnswered == Usable(node) => answered

(* A node that is disabled, by whomever, is not brought back by a probe,   *)
(* not even one made with --include-disabled.                              *)
ProbesNeverEnable ==
  [][node.status = "disabled" /\ node'.status # "disabled" => Admin]_vars

(* An answer within 170 ms never makes the worker disable a node, however  *)
(* badly it did before: the score of an answer alone stays above 20.       *)
PromptAnswersNeverDisable ==
  [][Check /\ Prompt(link) => node'.health # "disabled"]_vars

(* Four prompt answers in a row put a node that is not disabled back into  *)
(* every config, whatever rate and score it had: enabling it resets        *)
(* neither, so that until then it may be enabled and not served.           *)
FourAnswersServe == streak = 4 /\ node.status # "disabled" => Usable(node)

(* A node that answers promptly from some time on is served again, and     *)
(* again after every change, as long as it is not disabled: the smoothed   *)
(* rate climbs back whatever it has fallen to.                             *)
ReachableNodeIsServed ==
  <>[]Prompt(link) => []<>(Usable(node) \/ node.status = "disabled")
=============================================================================
