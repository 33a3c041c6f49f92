------------------------ MODULE NodeRotation_proofs ------------------------
(* What holds of a node for every set of latencies and every report.       *)
EXTENDS NodeRotation, TLAPS

-----------------------------------------------------------------------------
(* The evaluator, for every latency.                                       *)

(* A smoothed rate: a number of 1/1000000. *)
Smooth(x) == x \in Int /\ 0 <= x /\ x <= 1000000

(* One that an answer has just raised. *)
Raised(x) == Smooth(x) /\ x >= 350000

(* The operators' ranges. *)
LEMMA SmoothedRange ==
  ASSUME NEW rate \in Rates, NEW ok \in BOOLEAN
  PROVE  Smooth(Smoothed(rate, ok)) /\ (ok => Raised(Smoothed(rate, ok)))
  BY SMT DEF Rates, Smoothed, Smooth, Raised

LEMMA RatesAreNumbers == Rates \subseteq Int /\ \A rate \in Rates : rate >= 0
  BY SMT DEF Rates

LEMMA RoundedRange ==
  ASSUME NEW smoothed, Smooth(smoothed)
  PROVE  Rounded(smoothed) \subseteq Rates
<1> SUFFICES ASSUME NEW r \in Rounded(smoothed)
             PROVE  r \in Rates
  OBVIOUS
<1>1. r \in Int /\ 100 * r - smoothed <= 50 /\ smoothed - 100 * r <= 50
  BY SMT DEF Rounded, Smooth
<1> QED BY SMT, <1>1 DEF Rates, Smooth

LEMMA RawScoreRange ==
  ASSUME NEW smoothed, Smooth(smoothed), NEW latency \in Latencies \cup {None}, NEW ok \in BOOLEAN
  PROVE  RawScore(smoothed, latency, ok) \in Int /\ RawScore(smoothed, latency, ok) <= 3000000
<1> DEFINE penalty == IF latency \in {None, 0} \/ latency > 1000 THEN 1000 ELSE latency
<1>1. penalty \in Nat
  BY SMT, LatenciesAssumption
<1>2. RawScore(smoothed, latency, ok) = 3 * smoothed - (IF ok THEN 0 ELSE 600000) - 2500 * penalty
  BY SMT DEF RawScore
<1> HIDE DEF penalty
<1> QED BY SMT, <1>1, <1>2 DEF Smooth

LEMMA ScoresRange ==
  ASSUME NEW smoothed, Smooth(smoothed), NEW latency \in Latencies \cup {None}, NEW ok \in BOOLEAN
  PROVE  Scores(smoothed, latency, ok) \subseteq 0..100
<1> DEFINE raw == RawScore(smoothed, latency, ok)
<1>1. raw \in Int /\ raw <= 3000000
  BY SMT, RawScoreRange
<1>2. Scores(smoothed, latency, ok) =
        IF raw <= 0 THEN {0}
        ELSE IF raw % 30000 = 0 THEN {raw \div 30000 - 1, raw \div 30000} ELSE {raw \div 30000}
  BY SMT DEF Scores
<1> HIDE DEF raw
<1> QED BY SMT, <1>1, <1>2

(* An answer within 170 ms scores at least 20 and leaves the rate at 0.35  *)
(* or more, so that the verdict is not "disabled".                         *)
LEMMA PromptScores ==
  ASSUME NEW smoothed, Raised(smoothed), NEW latency \in Probes, Prompt(latency),
         NEW ok \in BOOLEAN, ok
  PROVE  \A score \in Scores(smoothed, latency, ok) : score >= 20
<1> DEFINE raw == RawScore(smoothed, latency, ok)
           whole == raw \div 30000
           exact == raw % 30000 = 0
<1>1. latency \in Nat /\ latency \notin {None, 0} /\ latency <= 170
  BY SMT, LatenciesAssumption, NoLatencyAssumption DEF Probes, Prompt
<1>2. raw = 3 * smoothed - 2500 * latency
  BY SMT, <1>1 DEF RawScore, Raised, Smooth
<1>3. raw \in Int /\ raw >= 625000
  <2> HIDE DEF raw
  <2> QED BY SMT, <1>1, <1>2 DEF Raised, Smooth
<1>4. Scores(smoothed, latency, ok) =
        IF raw <= 0 THEN {0} ELSE IF exact THEN {whole - 1, whole} ELSE {whole}
  BY SMT DEF Scores
<1>5. ~(raw <= 0) /\ whole >= 20 /\ (exact => whole - 1 >= 20)
  <2> HIDE DEF raw
  <2> QED BY SMT, <1>3
<1> HIDE DEF raw, whole, exact
<1> QED BY Zenon, <1>4, <1>5

(* What a probe may and may not make of a row. *)
LEMMA EvaluateType ==
  ASSUME NEW row \in Health, NEW probe \in Probes, NEW verdict \in Evaluate(row, probe)
  PROVE  /\ verdict \in Health
         /\ row.status = "disabled" => verdict.status = "disabled"
         /\ verdict.health = "healthy" => probe # None
         /\ Prompt(probe) => verdict.health # "disabled"
<1> DEFINE ok == probe # None
           latency == LastLatency(row, probe)
           smoothed == Smoothed(row.rate, ok)
<1>1. latency \in Latencies \cup {None} /\ (ok => latency = probe /\ probe \in Latencies \ {0})
  BY SMT DEF LastLatency, Health, Probes
<1>2. Smooth(smoothed) /\ (ok => Raised(smoothed))
  <2>1. row.rate \in Rates /\ ok \in BOOLEAN
    BY SMT DEF Health
  <2> HIDE DEF ok
  <2> QED BY SMT, <2>1, SmoothedRange
<1>3. PICK score \in Scores(smoothed, latency, ok), rate \in Rounded(smoothed) :
        verdict = [status |-> IF Verdict(smoothed, score, ok) = "disabled"
                              THEN "disabled" ELSE row.status,
                   health |-> Verdict(smoothed, score, ok), score |-> score,
                   rate |-> rate, latency |-> latency]
  BY SMT DEF Evaluate, Outcomes
<1>4. score \in 0..100 /\ rate \in Rates
  <2> HIDE DEF ok, latency, smoothed
  <2>1. ok \in BOOLEAN
    BY DEF ok
  <2> QED BY SMT, <1>1, <1>2, <2>1, ScoresRange, RoundedRange
<1>5. Verdict(smoothed, score, ok) \in Healths
  BY SMT DEF Verdict, Healths
<1>6. verdict \in Health /\ (row.status = "disabled" => verdict.status = "disabled")
  <2> HIDE DEF ok, latency, smoothed
  <2> QED BY SMT, <1>1, <1>3, <1>4, <1>5 DEF Health, Statuses
<1>7. ~ok => Verdict(smoothed, score, ok) # "healthy"
  <2> HIDE DEF ok, latency, smoothed
  <2> QED BY SMT DEF Verdict
<1>8. ASSUME Prompt(probe)
      PROVE  Verdict(smoothed, score, ok) # "disabled"
  <2>1. ok /\ ok \in BOOLEAN
    BY <1>8 DEF Prompt
  <2> HIDE DEF ok, smoothed, latency
  <2>2. score >= 20
    BY Zenon, <1>1, <1>2, <1>3, <1>8, <2>1, PromptScores
  <2> QED BY SMT, <1>2, <1>4, <2>1, <2>2 DEF Verdict, Raised, Smooth
<1> QED BY SMT, <1>3, <1>6, <1>7, <1>8

(* A prompt answer brings the rate closer to 1, and from 0.7253 on it is a *)
(* healthy node whose score is at least 60.                                *)
LEMMA PromptVerdict ==
  ASSUME NEW row \in Health, NEW probe \in Probes, Prompt(probe),
         NEW verdict \in Evaluate(row, probe)
  PROVE  /\ 100 * verdict.rate + 50 >= 65 * row.rate + 350000
         /\ row.rate >= 7253 => verdict.health = "healthy" /\ verdict.score >= 60
<1> DEFINE ok == probe # None
           latency == LastLatency(row, probe)
           smoothed == Smoothed(row.rate, ok)
           raw == RawScore(smoothed, latency, ok)
           whole == raw \div 30000
           exact == raw % 30000 = 0
           old == row.rate
<1>1. ok /\ latency = probe /\ probe \in Nat /\ probe # 0 /\ probe <= 170
  BY SMT, LatenciesAssumption, NoLatencyAssumption DEF LastLatency, Prompt, Probes
<1>2. PICK score \in Scores(smoothed, latency, ok), rate \in Rounded(smoothed) :
        verdict = [status |-> IF Verdict(smoothed, score, ok) = "disabled"
                              THEN "disabled" ELSE row.status,
                   health |-> Verdict(smoothed, score, ok), score |-> score,
                   rate |-> rate, latency |-> latency]
  BY SMT DEF Evaluate, Outcomes
<1>3. /\ verdict.rate = rate /\ verdict.score = score
      /\ verdict.health = Verdict(smoothed, score, ok)
  BY Zenon, <1>2
<1>4. old \in Int /\ old >= 0
  <2>1. old \in Rates
    BY Zenon DEF Health
  <2> QED BY Zenon, <2>1, RatesAreNumbers
<1>5. smoothed = 65 * old + 350000
  BY SMT, <1>1 DEF Smoothed
<1>6. Scores(smoothed, latency, ok) =
        IF raw <= 0 THEN {0} ELSE IF exact THEN {whole - 1, whole} ELSE {whole}
  BY SMT DEF Scores
<1>7. latency \notin {None, 0} /\ ~(latency > 1000)
  BY SMT, <1>1, LatenciesAssumption, NoLatencyAssumption DEF Prompt
<1>8. raw = 3 * smoothed - 2500 * probe
  <2> HIDE DEF smoothed, latency, ok
  <2>1. smoothed \in Int
    BY SMT, <1>4, <1>5
  <2> QED BY SMT, <1>1, <1>7, <2>1 DEF RawScore
<1> HIDE DEF ok, smoothed, latency, raw, whole, exact, old
<1>9. 100 * rate + 50 >= smoothed
  <2>1. smoothed \in Int
    BY SMT, <1>4, <1>5
  <2> QED BY SMT, <1>2, <2>1 DEF Rounded
<1>10. ASSUME old >= 7253
       PROVE  Verdict(smoothed, score, ok) = "healthy" /\ score >= 60
  <2>1. smoothed \in Int /\ smoothed >= 821445
    BY SMT, <1>4, <1>5, <1>10
  <2>2. raw \in Int /\ raw >= 2039335
    BY SMT, <1>1, <1>8, <2>1
  <2>3. whole \in Int /\ ~(raw <= 0) /\ whole >= 60 /\ (exact => whole - 1 >= 60)
    BY SMT, <2>2 DEF whole, exact
  <2>4. score \in {whole - 1, whole} /\ score \in Int /\ score >= 60
    BY SMT, <1>2, <1>6, <2>3
  <2> QED BY SMT, <1>1, <2>1, <2>4 DEF Verdict
<1> QED BY SMT, <1>3, <1>4, <1>5, <1>9, <1>10 DEF old

(* A saved verdict replaces everything but a latency it does not know. *)
LEMMA SavedVerdict ==
  ASSUME NEW row \in Health, NEW verdict \in Health
  PROVE  /\ Updated(row, verdict) \in Health
         /\ Updated(row, verdict).status = verdict.status
         /\ Updated(row, verdict).health = verdict.health
         /\ Updated(row, verdict).rate = verdict.rate
         /\ Updated(row, verdict).score = verdict.score
<1>1. /\ verdict.status \in Statuses /\ verdict.health \in Healths
      /\ verdict.rate \in Rates /\ verdict.score \in 0..100
      /\ verdict.latency \in Latencies \cup {None} /\ row.latency \in Latencies \cup {None}
  BY SMT DEF Health
<1>2. verdict.status # None /\ verdict.health # None
  BY SMT, <1>1, NoLatencyAssumption
<1>2a. verdict.rate # None
  BY Zenon, <1>1, NoLatencyAssumption, RatesAreNumbers
<1>3. Updated(row, verdict) =
        [status |-> verdict.status, health |-> verdict.health, score |-> verdict.score,
         rate |-> verdict.rate, latency |-> Given(verdict.latency, row.latency)]
  BY SMT, <1>2, <1>2a DEF Updated, Given
<1>4. Given(verdict.latency, row.latency) \in Latencies \cup {None}
  BY SMT, <1>1 DEF Given
<1> QED BY SMT, <1>1, <1>3, <1>4 DEF Health

(* The other ways to change a row. *)
LEMMA EnabledType ==
  ASSUME NEW row \in Health, NEW enabled \in BOOLEAN
  PROVE  Enabled(row, enabled) \in Health
<1>1. \A status \in Statuses, health \in Healths :
        [row EXCEPT !.status = status, !.health = health] \in Health
  BY Zenon DEF Health
<1>2. CASE enabled
  BY SMT, <1>1, <1>2 DEF Enabled, Statuses, Healths
<1>3. CASE ~enabled
  BY SMT, <1>1, <1>3 DEF Enabled, Statuses, Healths
<1> QED BY <1>2, <1>3

LEMMA FreshType == Fresh \in Health /\ Fresh.status = "active"
  BY SMT DEF Fresh, Health, Statuses, Healths, Rates

-----------------------------------------------------------------------------
(* The node.                                                               *)

(* The type invariant, step by step. *)
LEMMA ReportedType ==
  ASSUME NEW row \in Health, NEW report \in Reports
  PROVE  Updated(row, report) \in Health
  BY SMT, ReportsAssumption DEF Updated, Given, Health, Report

LEMMA TypedStep ==
  TypeOK /\ [Next]_vars => TypeOK'
<1> SUFFICES ASSUME TypeOK, [Next]_vars
             PROVE  TypeOK'
  OBVIOUS
<1> USE DEF TypeOK
<1>1. CASE LinkChanges
  BY <1>1 DEF LinkChanges
<1>2. CASE Check
  BY <1>2, EvaluateType, SavedVerdict DEF Check
<1>3. ASSUME NEW enabled \in BOOLEAN, AdminSets(enabled)
      PROVE  TypeOK'
  BY <1>3, EnabledType DEF AdminSets
<1>4. ASSUME NEW report \in Reports, AdminReports(report)
      PROVE  TypeOK'
  BY <1>4, ReportedType DEF AdminReports
<1>5. CASE UNCHANGED vars
  BY <1>5 DEF vars
<1> QED BY <1>1, <1>2, <1>3, <1>4, <1>5 DEF Next, Admin

LEMMA TypedInit == Init => TypeOK
  BY FreshType DEF Init, TypeOK

(* The row keeps its type whatever is measured and reported: no score      *)
(* leaves 0..100 and no success rate 0..1 (update_node_health checks none).*)
THEOREM TypeCorrect == Spec => []TypeOK
  BY TypedInit, TypedStep, PTL DEF Spec

(* A probe's verdict, once saved. *)
LEMMA CheckedRow ==
  ASSUME TypeOK, Check
  PROVE  /\ node.status = "disabled" => node'.status = "disabled"
         /\ node'.health = "healthy" => link # None
         /\ Prompt(link) => node'.health # "disabled"
<1>1. PICK verdict \in Evaluate(node, link) : node' = Updated(node, verdict)
  BY DEF Check
<1>2. /\ verdict \in Health
      /\ node.status = "disabled" => verdict.status = "disabled"
      /\ verdict.health = "healthy" => link # None
      /\ Prompt(link) => verdict.health # "disabled"
  BY EvaluateType DEF TypeOK
<1> QED BY <1>1, <1>2, SavedVerdict DEF TypeOK

LEMMA AnsweredStep ==
  TypeOK /\ ServedNodesAnswered /\ [Next]_vars => ServedNodesAnswered'
<1> SUFFICES ASSUME TypeOK, ServedNodesAnswered, [Next]_vars
             PROVE  ServedNodesAnswered'
  OBVIOUS
<1>1. CASE Check
  <2>1. node'.health = "healthy" => answered'
    BY <1>1, CheckedRow DEF Check
  <2>2. Usable(node)' => node'.health = "healthy"
    BY DEF Usable
  <2> QED BY <2>1, <2>2 DEF ServedNodesAnswered
<1>2. CASE Admin
  BY <1>2 DEF Admin, AdminSets, AdminReports, ServedNodesAnswered
<1>3. CASE UNCHANGED <<node, answered>>
  BY <1>3 DEF ServedNodesAnswered, Usable
<1>4. LinkChanges \/ UNCHANGED vars => UNCHANGED <<node, answered>>
  BY DEF LinkChanges, vars
<1> QED BY <1>1, <1>2, <1>3, <1>4 DEF Next

(* No config carries a node whose last probe failed, however good its      *)
(* smoothed rate and its last latency still look.                          *)
THEOREM ServedAnswered == Spec => []ServedNodesAnswered
<1>1. Init => ServedNodesAnswered
  BY DEF Init, ServedNodesAnswered
<1> QED BY <1>1, AnsweredStep, TypeCorrect, PTL DEF Spec

(* The worker never puts a disabled node back, with or without             *)
(* --include-disabled: only an administrator does.                         *)
THEOREM OnlyAdminsEnable == Spec => ProbesNeverEnable
<1>1. TypeOK /\ [Next]_vars =>
        [node.status = "disabled" /\ node'.status # "disabled" => Admin]_vars
  <2> SUFFICES ASSUME TypeOK, Next, node.status = "disabled", node'.status # "disabled"
               PROVE  Admin
    OBVIOUS
  <2>1. ~Check
    BY CheckedRow
  <2>2. ~LinkChanges
    BY DEF LinkChanges
  <2> QED BY <2>1, <2>2 DEF Next
<1> QED BY <1>1, TypeCorrect, PTL DEF Spec, ProbesNeverEnable

(* For every link and every history of probes and reports, an answer       *)
(* within 170 ms leaves the node out of "disabled".                        *)
THEOREM PromptAnswersHelp == Spec => PromptAnswersNeverDisable
<1>1. TypeOK /\ [Next]_vars =>
        [Check /\ Prompt(link) => node'.health # "disabled"]_vars
  BY CheckedRow
<1> QED BY <1>1, TypeCorrect, PTL DEF Spec, PromptAnswersNeverDisable

(* How far the rate has climbed after some prompt answers in a row, and    *)
(* what the fourth one makes of the row.                                   *)
Climbed == /\ streak >= 1 => node.rate >= 3500
           /\ streak >= 2 => node.rate >= 5775
           /\ streak >= 3 => node.rate >= 7253
           /\ streak = 4 => /\ node.rate >= 7500 /\ node.score >= 40
                            /\ node.status # "disabled" => node.health = "healthy"

LEMMA ClimbedStep ==
  TypeOK /\ Climbed /\ [Next]_vars => Climbed'
<1> SUFFICES ASSUME TypeOK, Climbed, [Next]_vars
             PROVE  Climbed'
  OBVIOUS
<1>1. CASE Check
  <2>1. CASE ~Prompt(link)
    BY <1>1, <2>1 DEF Check, Climbed
  <2>2. CASE Prompt(link)
    <3>1. PICK verdict \in Evaluate(node, link) : node' = Updated(node, verdict)
      BY <1>1 DEF Check
    <3>2. verdict \in Health /\ node \in Health /\ link \in Probes
      BY EvaluateType DEF TypeOK
    <3>3. /\ node'.rate = verdict.rate /\ node'.score = verdict.score
          /\ node'.health = verdict.health
      BY <3>1, <3>2, SavedVerdict
    <3>4. /\ 100 * verdict.rate + 50 >= 65 * node.rate + 350000
          /\ node.rate >= 7253 => verdict.health = "healthy" /\ verdict.score >= 60
      BY <2>2, <3>2, PromptVerdict
    <3>5. /\ node.rate \in Int /\ node.rate >= 0 /\ verdict.rate \in Int
          /\ verdict.score \in Int /\ streak \in 0..4
      <4>1. /\ node.rate \in Rates /\ verdict.rate \in Rates /\ verdict.score \in 0..100
        BY Zenon, <3>2 DEF Health
      <4>2. streak \in 0..4
        BY DEF TypeOK
      <4>3. /\ node.rate \in Int /\ node.rate >= 0 /\ verdict.rate \in Int
        BY Zenon, <4>1, RatesAreNumbers
      <4> QED BY SMT, <4>1, <4>2, <4>3
    <3>6. streak' = IF streak < 4 THEN streak + 1 ELSE 4
      BY <1>1, <2>2 DEF Check
    <3> QED BY SMT, <3>3, <3>4, <3>5, <3>6 DEF Climbed
  <2> QED BY <2>1, <2>2
<1>2. ASSUME NEW enabled \in BOOLEAN, AdminSets(enabled)
      PROVE  Climbed'
  <2>1. /\ node'.rate = node.rate /\ node'.score = node.score
        /\ node'.status # "disabled" => node'.health = "healthy"
    BY <1>2 DEF AdminSets, Enabled, TypeOK, Health
  <2> QED BY <1>2, <2>1 DEF AdminSets, Climbed
<1>3. ASSUME NEW report \in Reports, AdminReports(report)
      PROVE  Climbed'
  BY <1>3 DEF AdminReports, Climbed
<1>4. CASE UNCHANGED <<node, streak>>
  BY <1>4 DEF Climbed
<1>5. LinkChanges \/ UNCHANGED vars => UNCHANGED <<node, streak>>
  BY DEF LinkChanges, vars
<1> QED BY <1>1, <1>2, <1>3, <1>4, <1>5 DEF Next, Admin

(* From whatever rate and score, four prompt answers in a row bring a node *)
(* that is not disabled back into the configs, and no change of enabled    *)
(* afterwards takes more out of them than the disabled status does.        *)
THEOREM FourAnswersAreEnough == Spec => []FourAnswersServe
<1>1. Init => Climbed
  BY DEF Init, Climbed
<1>2. TypeOK /\ Climbed => FourAnswersServe
  BY DEF TypeOK, Health, Statuses, Climbed, FourAnswersServe, Usable
<1> QED BY <1>1, <1>2, ClimbedStep, TypeCorrect, PTL DEF Spec
=============================================================================
