----------------------------- MODULE NodeHealth -----------------------------
(***************************************************************************)
(* How one probe of a VPN node changes what the backend thinks of it       *)
(* (NodeHealthEvaluator) and which nodes are put into configs              *)
(* (VpnNode.is_usable).                                                    *)
(*                                                                         *)
(* success_rate is a float rounded to four digits: here a number of        *)
(* 1/10000.  Floats only matter where decimal arithmetic meets a boundary: *)
(* round() at a tie and int() of what should be a whole number may go      *)
(* either way there, so both are sets of outcomes.                         *)
(***************************************************************************)
EXTENDS Integers

CONSTANTS Latencies,  \* connection times, measured or reported, in ms
          None        \* NULL: no latency known; in a request: left out

ASSUME LatenciesAssumption == Latencies \subseteq Nat

(* What TcpNodeProbe may return: at least 1 ms, None when nothing answers. *)
Probes == (Latencies \ {0}) \cup {None}

Statuses == {"active", "draining", "disabled"}
Healths == {"healthy", "degraded", "disabled"}
Rates == 0..10000

ASSUME NoLatencyAssumption == None \notin Latencies \cup Int \cup Statuses \cup Healths

Health == [status : Statuses, health : Healths, score : 0..100,
           rate : Rates, latency : Latencies \cup {None}]

(* What a node is created with.                                            *)
Fresh == [status |-> "active", health |-> "healthy", score |-> 100,
          rate |-> 10000, latency |-> None]

(* VpnNode.is_usable: the filter of every config and subscription.         *)
Usable(node) == /\ node.status \in {"active", "draining"}
                /\ node.health = "healthy"
                /\ node.score >= 40
                /\ node.rate >= 7500

(* The new success rate before rounding, in 1/1000000: 65 % of the old     *)
(* rate and 35 % of this probe.  (Variant: the two weights do not add up.) *)
SmoothedUnevenly(rate, ok) == 65 * rate + (IF ok THEN 250000 ELSE 0)
Smoothed(rate, ok) == 65 * rate + (IF ok THEN 350000 ELSE 0)

(* round(success_rate, 4).                                                 *)
Rounded(smoothed) ==
  {r \in {smoothed \div 100, smoothed \div 100 + 1} :
     /\ 100 * r - smoothed <= 50
     /\ smoothed - 100 * r <= 50}

(* _health_score, in 1/30000 before int(): the rate in percent, less 20    *)
(* for a failed probe, less a twelfth of the latency (1000 when unknown;   *)
(* an administrator may report 0, which counts as unknown).  (Variant: no  *)
(* max(0, ...).)                                                          *)
RawScore(smoothed, latency, ok) ==
  3 * smoothed - (IF ok THEN 0 ELSE 600000)
    - 2500 * (IF latency \in {None, 0} \/ latency > 1000 THEN 1000 ELSE latency)
ScoresUnclamped(smoothed, latency, ok) == {RawScore(smoothed, latency, ok) \div 30000}
Scores(smoothed, latency, ok) ==
  LET raw == RawScore(smoothed, latency, ok)
  IN  IF raw <= 0 THEN {0}
      ELSE IF raw % 30000 = 0 THEN {raw \div 30000 - 1, raw \div 30000}
      ELSE {raw \div 30000}

(* _health.                                                                *)
Verdict(smoothed, score, ok) ==
  IF smoothed < 350000 \/ score < 20 THEN "disabled"
  ELSE IF ~ok \/ smoothed < 750000 \/ score < 55 THEN "degraded"
  ELSE "healthy"

(* evaluate: the outcomes of a probe of a node as it was last read; probe  *)
(* is the latency measured, None when nothing answered.  The status is     *)
(* that of the node as it was read, unless the verdict disables it.        *)
(* (Variants: a node that answers is put back to active; a latency that is *)
(* known is taken for an answer.)                                          *)
Outcomes(node, status, ok, latency) ==
  LET smoothed == Smoothed(node.rate, ok)
  IN  {[status |-> IF Verdict(smoothed, score, ok) = "disabled" THEN "disabled" ELSE status,
        health |-> Verdict(smoothed, score, ok), score |-> score,
        rate |-> rate, latency |-> latency] :
         score \in Scores(smoothed, latency, ok), rate \in Rounded(smoothed)}
LastLatency(node, probe) == IF probe # None THEN probe ELSE node.latency
EvaluateAndEnable(node, probe) ==
  Outcomes(node, "active", probe # None, LastLatency(node, probe))
EvaluateByLatency(node, probe) ==
  Outcomes(node, node.status, LastLatency(node, probe) # None, LastLatency(node, probe))
Evaluate(node, probe) ==
  Outcomes(node, node.status, probe # None, LastLatency(node, probe))

(* update_node_health: what is left out stays as the row has it.           *)
Given(value, otherwise) == IF value = None THEN otherwise ELSE value
Updated(row, report) ==
  [status |-> Given(report.status, row.status), health |-> Given(report.health, row.health),
   score |-> report.score, rate |-> Given(report.rate, row.rate),
   latency |-> Given(report.latency, row.latency)]

(* DELETE, and PATCH enabled: status and health are set, nothing else.     *)
(* (Variant: the status is forgotten.)                                     *)
EnabledByHealth(row, enabled) ==
  [row EXCEPT !.health = IF enabled THEN "healthy" ELSE "disabled"]
Enabled(row, enabled) ==
  [row EXCEPT !.status = IF enabled THEN "active" ELSE "disabled",
              !.health = IF enabled THEN "healthy" ELSE "disabled"]
=============================================================================
