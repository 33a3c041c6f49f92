--------------------------- MODULE NodeFleet_proofs ---------------------------
(* What holds of worker and administrators for any nodes and threads.      *)
EXTENDS NodeFleet, TLAPS

-----------------------------------------------------------------------------
(* What NodeRotation_proofs proves of the evaluator, for any node.          *)
Rotation == INSTANCE NodeRotation_proofs
  WITH Reports <- {}, IncludeDisabled <- FALSE,
       node <- Fresh, link <- None, answered <- TRUE, streak <- 0

LEMMA SameEvaluator ==
  /\ Rotation!Health = Health /\ Rotation!Probes = Probes /\ Rotation!Fresh = Fresh
  /\ Rotation!Statuses = Statuses /\ Rotation!Healths = Healths
  /\ \A row, probe : Rotation!Evaluate(row, probe) = Evaluate(row, probe)
  /\ \A row, report : Rotation!Updated(row, report) = Updated(row, report)
  /\ \A row, enabled : Rotation!Enabled(row, enabled) = Enabled(row, enabled)
<1>1. /\ Rotation!Health = Health /\ Rotation!Probes = Probes /\ Rotation!Fresh = Fresh
      /\ Rotation!Statuses = Statuses /\ Rotation!Healths = Healths
  BY DEF Rotation!Health, Health, Rotation!Probes, Probes, Rotation!Fresh, Fresh,
         Rotation!Statuses, Statuses, Rotation!Healths, Healths, Rotation!Rates, Rates
<1>2. \A row, probe : Rotation!Evaluate(row, probe) = Evaluate(row, probe)
  BY DEF Rotation!Evaluate, Evaluate, Rotation!Outcomes, Outcomes,
         Rotation!LastLatency, LastLatency, Rotation!Smoothed, Smoothed,
         Rotation!Verdict, Verdict, Rotation!Scores, Scores,
         Rotation!RawScore, RawScore, Rotation!Rounded, Rounded
<1>3. \A row, report : Rotation!Updated(row, report) = Updated(row, report)
  BY DEF Rotation!Updated, Updated, Rotation!Given, Given
<1>4. \A row, enabled : Rotation!Enabled(row, enabled) = Enabled(row, enabled)
  BY DEF Rotation!Enabled, Enabled
<1> QED BY <1>1, <1>2, <1>3, <1>4

LEMMA EvaluateType ==
  ASSUME NEW row \in Health, NEW probe \in Probes, NEW verdict \in Evaluate(row, probe)
  PROVE  /\ verdict \in Health
         /\ row.status = "disabled" => verdict.status = "disabled"
         /\ verdict.health = "healthy" => probe # None
  BY Rotation!EvaluateType, SameEvaluator, LatenciesAssumption, NoLatencyAssumption

LEMMA SavedVerdict ==
  ASSUME NEW row \in Health, NEW verdict \in Health
  PROVE  /\ Updated(row, verdict) \in Health
         /\ Updated(row, verdict).status = verdict.status
         /\ Updated(row, verdict).health = verdict.health
  BY Rotation!SavedVerdict, SameEvaluator, LatenciesAssumption, NoLatencyAssumption

LEMMA EnabledType ==
  ASSUME NEW row \in Health, NEW enabled \in BOOLEAN
  PROVE  Enabled(row, enabled) \in Health
  BY Rotation!EnabledType, SameEvaluator, LatenciesAssumption, NoLatencyAssumption

LEMMA FreshType == Fresh \in Health /\ Fresh.status = "active"
  BY Rotation!FreshType, SameEvaluator, LatenciesAssumption, NoLatencyAssumption

-----------------------------------------------------------------------------
(* The inductive invariant.                                                *)

Time == 0..MaxTime

(* The run's record, which has other fields at other places. *)
Scanned(w) == /\ w.todo \subseteq DOMAIN w.seen /\ Table(w.seen)
              /\ w.newest \in Time \cup {None} /\ w.since \in Time
Listing(w) == /\ w.at = "next"
              /\ w = [at |-> "next", todo |-> w.todo, seen |-> w.seen, newest |-> w.newest,
                      since |-> w.since]
              /\ Scanned(w)
Saving(w) == /\ w.at \in {"save", "record"}
             /\ w = [at |-> w.at, todo |-> w.todo, seen |-> w.seen, newest |-> w.newest,
                     since |-> w.since, node |-> w.node, verdict |-> w.verdict]
             /\ Scanned(w) /\ w.newest # None
             /\ w.node \in DOMAIN w.seen /\ w.verdict \in Health
Ending(w) == /\ w \in [at : {"prune"}, newest : Time, since : Time]
             /\ Retention > 0

Typed == /\ Table(nodes)
         /\ audit \subseteq Event /\ answered \subseteq Event
         /\ checks \subseteq [node : Nodes, time : Time]
         /\ locked \in BOOLEAN /\ now \in Time
         /\ worker = Idle \/ Listing(worker) \/ Saving(worker) \/ Ending(worker)
         /\ req \in [Threads -> RequestState]
         /\ contested \subseteq Threads /\ held \subseteq Nodes /\ exposed \subseteq Nodes
         /\ runs \in 0..MaxRuns /\ requests \in 0..MaxAdmin /\ failures \in 0..MaxFailures

(* The newest probe lies between the start of its run and now. *)
Dated == worker.at # "idle" =>
           /\ worker.since <= now
           /\ worker.newest # None => worker.since <= worker.newest /\ worker.newest <= now

(* An event is there, or was too old to stay. *)
EventKept(e) == e \in audit \/ (Retention > 0 /\ e.time < now - Retention)

Recorded == /\ \A e \in answered : EventKept(e)
            /\ \A t \in Threads : req[t].at = "respond" =>
                 EventKept([id |-> req[t].id, time |-> req[t].time])

(* Requests at one node at the same time know of each other. *)
Busy(t, n) == req[t].at # "idle" /\ req[t].node = n
Crossing == \A t, u \in Threads, n \in Nodes :
              t # u /\ Busy(t, n) /\ Busy(u, n) => t \in contested
HeldAlone == \A n \in held, t \in Threads : ~Busy(t, n)

(* A disabled node that the run under way will leave disabled. *)
Safe(n) == /\ n \in DOMAIN nodes /\ nodes[n].status = "disabled"
           /\ ~Stale(n)

(* What a request that is to disable a node has achieved so far. *)
Disables(t) == req[t].at # "idle" /\ req[t].disables =>
                 /\ req[t].at \in {"write", "audit"} => req[t].row.status = "disabled"
                 /\ req[t].at \in {"audit", "respond"} /\ t \notin contested
                      /\ req[t].node \notin exposed => Safe(req[t].node)
Disabling == \A t \in Threads : Disables(t)

HeldSafe == \A n \in held \ exposed : Safe(n)

Promises == Crossing /\ HeldAlone /\ Disabling /\ HeldSafe

IInv == Typed /\ Dated /\ Recorded /\ Promises

-----------------------------------------------------------------------------
(* What most steps have in common.                                         *)

(* A step that touches no request and makes no node unsafe. *)
LEMMA PromisesKept ==
  ASSUME Promises, UNCHANGED <<req, contested, held, exposed>>,
         \A n : Safe(n) => Safe(n)'
  PROVE  Promises'
<1> USE DEF Promises
<1>1. Crossing' /\ HeldAlone'
  BY Zenon DEF Crossing, HeldAlone, Busy
<1>2. Disabling'
  BY Zenon DEF Disabling, Disables
<1>3. HeldSafe'
  BY Zenon DEF HeldSafe
<1> QED BY <1>1, <1>2, <1>3

(* A step that deletes no event. *)
LEMMA RecordedKept ==
  ASSUME Recorded, UNCHANGED <<req, answered, now>>, audit \subseteq audit'
  PROVE  Recorded'
  BY Zenon DEF Recorded, EventKept

(* The table with one row changed. *)
LEMMA ExceptType ==
  ASSUME NEW S, NEW f, f \in [DOMAIN f -> S], NEW a, NEW v, a \in DOMAIN f => v \in S
  PROVE  [f EXCEPT ![a] = v] \in [DOMAIN f -> S]
  OBVIOUS

(* A time is never None. *)
LEMMA Absent == None \notin Time
  BY SMT, NoLatencyAssumption, BoundsAssumption DEF Time

-----------------------------------------------------------------------------
(* The worker.                                                             *)

LEMMA StartRunStep ==
  ASSUME IInv, StartRun
  PROVE  IInv'
<1> USE DEF IInv
<1>1. Typed'
  BY SMT, BoundsAssumption DEF StartRun, history, Typed, Listing, Scanned, Table, Time
<1>2. Dated'
  BY SMT DEF StartRun, Dated, Typed, Time
<1>3. Recorded'
  BY RecordedKept DEF StartRun, history
<1>4. ASSUME NEW n, Safe(n) PROVE Safe(n)'
  BY SMT, <1>4 DEF StartRun, Safe, Stale
<1>5. Promises'
  BY PromisesKept, <1>4 DEF StartRun, history
<1> QED BY <1>1, <1>2, <1>3, <1>5

LEMMA SkipNodeStep ==
  ASSUME IInv, NEW n \in Nodes, SkipNode(n)
  PROVE  IInv'
<1> USE DEF IInv
<1>1. Listing(worker)
  BY SMT DEF SkipNode, Typed, Idle, Saving, Ending
<1>2. worker' = [at |-> "next", todo |-> worker.todo \ {n}, seen |-> worker.seen,
                 newest |-> worker.newest, since |-> worker.since]
  BY SMT, <1>1 DEF SkipNode, Listing
<1>3. Typed'
  BY SMT, <1>1, <1>2 DEF SkipNode, history, counters, Typed, Listing, Scanned
<1>4. Dated'
  BY SMT, <1>1, <1>2 DEF SkipNode, Listing, Dated
<1>5. Recorded'
  BY RecordedKept DEF SkipNode, history
<1>6. ASSUME NEW m, Safe(m) PROVE Safe(m)'
  BY SMT, <1>1, <1>2, <1>6 DEF SkipNode, Listing, Safe, Stale
<1>7. Promises'
  BY PromisesKept, <1>6 DEF SkipNode, history
<1> QED BY <1>3, <1>4, <1>5, <1>7

LEMMA ProbeNodeStep ==
  ASSUME IInv, NEW n \in Nodes, ProbeNode(n)
  PROVE  IInv'
<1> USE DEF IInv
<1>1. Listing(worker) /\ n \in worker.todo /\ n \in DOMAIN worker.seen
  BY SMT DEF ProbeNode, Typed, Idle, Listing, Saving, Ending, Scanned
<1>2. worker.seen[n] \in Health
  BY Zenon, <1>1 DEF Listing, Scanned, Table
<1>3. PICK probe \in Probes : \E verdict \in Evaluate(worker.seen[n], probe) :
        worker' = [at |-> "save", todo |-> worker.todo \ {n}, seen |-> worker.seen,
                   newest |-> now, since |-> worker.since, node |-> n, verdict |-> verdict]
  BY DEF ProbeNode
<1>4. PICK verdict \in Evaluate(worker.seen[n], probe) :
        worker' = [at |-> "save", todo |-> worker.todo \ {n}, seen |-> worker.seen,
                   newest |-> now, since |-> worker.since, node |-> n, verdict |-> verdict]
  BY <1>3
<1>5. /\ verdict \in Health
      /\ worker.seen[n].status = "disabled" => verdict.status = "disabled"
  BY Zenon, <1>2, EvaluateType
<1>6. now \in Time /\ now # None
  BY Absent DEF Typed
<1>7. Typed'
  <2>1. Saving(worker)'
    BY SMT, <1>1, <1>4, <1>5, <1>6 DEF Listing, Saving, Scanned
  <2> QED BY SMT, <2>1 DEF ProbeNode, history, counters, Typed
<1>8. Dated'
  BY SMT, <1>1, <1>4, <1>6 DEF ProbeNode, Listing, Scanned, Dated, Time
<1>9. Recorded'
  BY RecordedKept DEF ProbeNode, history
<1>10. ASSUME NEW m, Safe(m) PROVE Safe(m)'
  BY SMT, <1>1, <1>4, <1>5, <1>10 DEF ProbeNode, Listing, Safe, Stale
<1>11. Promises'
  BY PromisesKept, <1>10 DEF ProbeNode, history
<1> QED BY <1>7, <1>8, <1>9, <1>11

LEMMA SaveVerdictStep ==
  ASSUME IInv, SaveVerdict
  PROVE  IInv'
<1> USE DEF IInv
<1>1. Saving(worker)
  BY SMT DEF SaveVerdict, Typed, Idle, Listing, Ending
<1>2. worker' = [at |-> "record", todo |-> worker.todo, seen |-> worker.seen,
                 newest |-> worker.newest, since |-> worker.since,
                 node |-> worker.node, verdict |-> worker.verdict]
  BY SMT, <1>1 DEF SaveVerdict, Saving
<1>3. worker.verdict \in Health
  BY <1>1 DEF Saving
<1>4. \A m \in DOMAIN nodes : nodes[m] \in Health
  BY DEF Typed, Table
<1>5. /\ DOMAIN nodes' = DOMAIN nodes
      /\ \A m \in DOMAIN nodes :
           nodes'[m] = IF m = worker.node THEN Updated(nodes[m], worker.verdict) ELSE nodes[m]
  BY SMT DEF SaveVerdict
<1>6. \A m \in DOMAIN nodes : Updated(nodes[m], worker.verdict) \in Health
                              /\ Updated(nodes[m], worker.verdict).status = worker.verdict.status
  BY Zenon, <1>3, <1>4, SavedVerdict
<1>7. Typed'
  <2>1. Table(nodes')
    <3>1. nodes' = [nodes EXCEPT ![worker.node] = Updated(nodes[worker.node], worker.verdict)]
      BY Zenon DEF SaveVerdict
    <3>2. nodes \in [DOMAIN nodes -> Health] /\ DOMAIN nodes \subseteq Nodes
      BY DEF Typed, Table
    <3>3. worker.node \in DOMAIN nodes =>
            Updated(nodes[worker.node], worker.verdict) \in Health
      BY Zenon, <1>6
    <3>4. nodes' \in [DOMAIN nodes -> Health]
      BY Zenon, <3>1, <3>2, <3>3, ExceptType
    <3> QED BY Zenon, <1>5, <3>2, <3>4 DEF Table
  <2>2. Saving(worker)'
    BY SMT, <1>1, <1>2 DEF Saving, Scanned
  <2> QED BY SMT, <2>1, <2>2 DEF SaveVerdict, history, counters, Typed
<1>8. Dated'
  BY SMT, <1>1, <1>2 DEF SaveVerdict, Saving, Dated
<1>9. Recorded'
  BY RecordedKept DEF SaveVerdict, history
<1>10. ASSUME NEW m, Safe(m) PROVE Safe(m)'
  <2>1. m \in DOMAIN nodes /\ nodes[m].status = "disabled" /\ ~Stale(m)
    BY <1>10 DEF Safe
  <2>2. worker.node = m => worker.verdict.status = "disabled"
    BY <2>1 DEF SaveVerdict, Stale
  <2>3. m \in DOMAIN nodes' /\ nodes'[m].status = "disabled"
    BY Zenon, <1>5, <1>6, <2>1, <2>2
  <2>4. ~Stale(m)'
    BY SMT, <1>1, <1>2, <2>1 DEF SaveVerdict, Saving, Stale
  <2> QED BY <2>3, <2>4 DEF Safe
<1>11. Promises'
  BY PromisesKept, <1>10 DEF SaveVerdict, history
<1> QED BY <1>7, <1>8, <1>9, <1>11

LEMMA RecordCheckStep ==
  ASSUME IInv, RecordCheck
  PROVE  IInv'
<1> USE DEF IInv
<1>1. Saving(worker)
  BY SMT DEF RecordCheck, Typed, Idle, Listing, Ending
<1>2. worker.newest \in Time /\ worker.node \in Nodes
  BY SMT, <1>1 DEF Saving, Scanned, Table
<1>3. Typed'
  <2>1. checks' \subseteq [node : Nodes, time : Time]
    BY SMT, <1>2 DEF RecordCheck, Typed
  <2>2. Listing(worker)'
    BY SMT, <1>1 DEF RecordCheck, Saving, Listing, Scanned
  <2> QED BY SMT, <2>1, <2>2 DEF RecordCheck, history, counters, Typed
<1>4. Dated'
  BY SMT, <1>1 DEF RecordCheck, Saving, Dated
<1>5. Recorded'
  BY RecordedKept DEF RecordCheck, history
<1>6. ASSUME NEW m, Safe(m) PROVE Safe(m)'
  BY SMT, <1>1, <1>6 DEF RecordCheck, Saving, Safe, Stale
<1>7. Promises'
  BY PromisesKept, <1>6 DEF RecordCheck, history
<1> QED BY <1>3, <1>4, <1>5, <1>7

LEMMA PruneChecksStep ==
  ASSUME IInv, PruneChecks
  PROVE  IInv'
<1> USE DEF IInv
<1>1. Listing(worker)
  BY SMT DEF PruneChecks, Pruning, Typed, Idle, Saving, Ending
<1>2. worker.newest \in Time /\ worker.since \in Time
  BY SMT, <1>1 DEF PruneChecks, Pruning, Listing, Scanned
<1>3. Typed'
  <2>1. Ending(worker)'
    BY SMT, <1>2 DEF PruneChecks, Pruning, Ending
  <2> QED BY SMT, <2>1 DEF PruneChecks, Expired, history, counters, Typed
<1>4. Dated'
  BY SMT, <1>1 DEF PruneChecks, Pruning, Listing, Dated
<1>5. Recorded'
  BY RecordedKept DEF PruneChecks, history
<1>6. ASSUME NEW m, Safe(m) PROVE Safe(m)'
  BY SMT, <1>6 DEF PruneChecks, Safe, Stale
<1>7. Promises'
  BY PromisesKept, <1>6 DEF PruneChecks, history
<1> QED BY <1>3, <1>4, <1>5, <1>7

(* A run that ends, however it does. *)
LEMMA IdleWorkerStep ==
  ASSUME IInv, worker' = Idle, failures' \in 0..MaxFailures,
         UNCHANGED <<nodes, audit, checks, locked, now, req, history, runs, requests>>
  PROVE  IInv'
<1> USE DEF IInv
<1>1. Typed'
  BY SMT DEF history, Typed
<1>2. Dated'
  BY SMT DEF Dated, Idle
<1>3. Recorded'
  BY RecordedKept DEF history
<1>4. ASSUME NEW m, Safe(m) PROVE Safe(m)'
  BY SMT, <1>4 DEF Safe, Stale, Idle
<1>5. Promises'
  BY PromisesKept, <1>4 DEF history
<1> QED BY <1>1, <1>2, <1>3, <1>5

(* What the audit loses is older than any event need be. *)
LEMMA PruneAuditStep ==
  ASSUME IInv, PruneAudit
  PROVE  IInv'
<1> USE DEF IInv
<1>1. Ending(worker)
  BY SMT DEF PruneAudit, Typed, Idle, Listing, Saving
<1>2. worker.newest \in Int /\ worker.newest <= now /\ now \in Int /\ Retention \in Int
  <2>1. worker.newest \in Time /\ now \in Time
    BY SMT, <1>1 DEF Ending, Typed
  <2>2. worker.newest # None
    BY <2>1, Absent
  <2> QED BY SMT, <2>1, <2>2, RetentionAssumption DEF PruneAudit, Dated, Time
<1>3. Typed'
  BY SMT DEF PruneAudit, Expired, history, counters, Typed
<1>4. Dated'
  BY SMT DEF PruneAudit, Dated, Idle
<1>5. ASSUME NEW e \in Event, EventKept(e) PROVE EventKept(e)'
  <2>1. CASE e \in Expired(audit, worker.newest)
    <3>1. e.time \in Int /\ e.time < worker.newest - Retention
      BY SMT, <2>1 DEF Expired, Cutoff, Event
    <3> QED BY SMT, <1>1, <1>2, <3>1 DEF PruneAudit, EventKept, Ending
  <2>2. CASE e \notin Expired(audit, worker.newest)
    BY <1>5, <2>2 DEF PruneAudit, EventKept
  <2> QED BY <2>1, <2>2
<1>6. Recorded'
  <2>1. answered \subseteq Event
    BY DEF Typed
  <2>2. ASSUME NEW t \in Threads, req[t].at = "respond"
        PROVE  [id |-> req[t].id, time |-> req[t].time] \in Event
    BY SMT, <2>2 DEF Typed, RequestState, Idle, Event
  <2> QED BY Zenon, <1>5, <2>1, <2>2 DEF PruneAudit, history, Recorded
<1>7. ASSUME NEW m, Safe(m) PROVE Safe(m)'
  BY SMT, <1>7 DEF PruneAudit, Safe, Stale, Idle
<1>8. Promises'
  BY PromisesKept, <1>7 DEF PruneAudit, history
<1> QED BY <1>3, <1>4, <1>6, <1>8

LEMMA OtherEndsStep ==
  ASSUME IInv, EndWithoutPruning \/ AbortRun \/ WorkerCrash
  PROVE  IInv'
<1>1. /\ worker' = Idle
      /\ UNCHANGED <<nodes, audit, checks, locked, now, req, history, runs, requests>>
  BY Zenon DEF EndWithoutPruning, AbortRun, WorkerCrash, counters
<1>2. failures \in 0..MaxFailures /\ MaxFailures \in Nat
  BY BoundsAssumption DEF IInv, Typed
<1>3. failures' = failures \/ (failures < MaxFailures /\ failures' = failures + 1)
  BY Zenon DEF EndWithoutPruning, AbortRun, WorkerCrash, counters
<1>4. failures' \in 0..MaxFailures
  BY SMT, <1>2, <1>3
<1> QED BY <1>1, <1>4, IdleWorkerStep

-----------------------------------------------------------------------------
(* The administrators.                                                     *)

(* A request under way, field by field. *)
LEMMA RequestFields ==
  ASSUME req \in [Threads -> RequestState], NEW t \in Threads
  PROVE  /\ req[t].at \in {"idle", "write", "audit", "respond"}
         /\ req[t].at = "idle" => req[t] = Idle
         /\ req[t].at # "idle" => /\ req[t].id \in 1..MaxAdmin /\ req[t].node \in Nodes
                                 /\ req[t].disables \in BOOLEAN
         /\ req[t].at \in {"write", "audit"} => req[t].row \in Health /\ req[t].retags \in BOOLEAN
         /\ req[t].at = "respond" => req[t].time \in Time
<1>1. req[t] \in RequestState
  BY Zenon
<1> QED BY SMT, <1>1 DEF RequestState, Idle, Time

(* One request moves, the others stay. *)
LEMMA OneMoves ==
  ASSUME req \in [Threads -> RequestState], NEW t \in Threads, NEW r,
         req' = [req EXCEPT ![t] = r]
  PROVE  /\ req'[t] = r /\ \A u \in Threads \ {t} : req'[u] = req[u]
         /\ r \in RequestState => req' \in [Threads -> RequestState]
  BY Zenon

(* A new request ends what was held at its node, and is contested by the *)
(* others there. *)
LEMMA AcceptStep ==
  ASSUME IInv, NEW t \in Threads, NEW n \in Nodes, NEW row \in Health,
         NEW disables \in BOOLEAN, NEW retags \in BOOLEAN,
         disables => row.status = "disabled",
         Accept(t, n, row, disables, retags)
  PROVE  IInv'
<1> USE DEF IInv
<1> DEFINE r == [at |-> "write", id |-> requests + 1, node |-> n, row |-> row,
                 disables |-> disables, retags |-> retags]
<1>1. /\ requests' = requests + 1 /\ req' = [req EXCEPT ![t] = r]
      /\ req \in [Threads -> RequestState]
  BY Zenon DEF Accept, Typed
<1>2. requests + 1 \in 1..MaxAdmin /\ requests + 1 \in 0..MaxAdmin
  BY SMT, BoundsAssumption DEF Accept, Typed
<1>3. r \in RequestState
  BY SMT, <1>2 DEF RequestState
<1>4. /\ req'[t] = r /\ \A u \in Threads \ {t} : req'[u] = req[u]
      /\ req' \in [Threads -> RequestState]
  BY Zenon, <1>1, <1>3, OneMoves
<1>5. r.at = "write" /\ r.node = n /\ r.row = row /\ r.disables = disables
  OBVIOUS
<1> HIDE DEF r
<1>6. contested' \subseteq Threads /\ contested \ {t} \subseteq contested'
  BY Zenon DEF Accept, Others, Typed
<1>7. Typed'
  BY SMT, <1>1, <1>2, <1>4, <1>6 DEF Accept, Typed
<1>8. Dated'
  BY Zenon DEF Accept, Dated
<1>9. Recorded'
  <2>1. \A e : EventKept(e) => EventKept(e)'
    BY Zenon DEF Accept, EventKept
  <2>2. \A u \in Threads : req'[u].at = "respond" => u # t
    BY SMT, <1>4, <1>5
  <2> QED BY Zenon, <1>4, <2>1, <2>2 DEF Accept, Recorded
<1>10. \A u \in Threads \ {t} : Busy(u, n) => t \in contested' /\ u \in contested'
  <2> SUFFICES ASSUME NEW u \in Threads \ {t}, Busy(u, n)
               PROVE  t \in contested' /\ u \in contested'
    OBVIOUS
  <2>1. u \in Others(t, n)
    BY DEF Busy, Others
  <2> QED BY Zenon, <2>1 DEF Accept
<1>11. /\ \A u \in Threads \ {t}, m \in Nodes : Busy(u, m)' => Busy(u, m)
       /\ \A m \in Nodes : Busy(t, m)' => m = n
  BY Zenon, <1>4, <1>5 DEF Busy
<1>12. Crossing'
  <2> SUFFICES ASSUME NEW u \in Threads, NEW v \in Threads, NEW m \in Nodes,
                      u # v, Busy(u, m)', Busy(v, m)'
               PROVE  u \in contested'
    BY DEF Crossing
  <2>1. CASE u = t \/ v = t
    BY Zenon, <1>10, <1>11, <2>1
  <2>2. CASE u # t /\ v # t
    BY Zenon, <1>6, <1>11, <2>2 DEF Promises, Crossing
  <2> QED BY <2>1, <2>2
<1>13. HeldAlone'
  <2>1. held' = held \ {n}
    BY DEF Accept
  <2>2. held \subseteq Nodes
    BY DEF Typed
  <2> QED BY Zenon, <1>11, <2>1, <2>2 DEF Promises, HeldAlone
<1>14. \A m : Safe(m)' <=> Safe(m)
  BY Zenon DEF Accept, Safe, Stale
<1>15. Disabling'
  <2> SUFFICES ASSUME NEW u \in Threads
               PROVE  Disables(u)'
    BY DEF Disabling
  <2>1. CASE u = t
    BY SMT, <1>4, <1>5, <2>1 DEF Disables
  <2>2. CASE u # t
    <3>1. req'[u] = req[u] /\ exposed' = exposed /\ (u \in contested => u \in contested')
      BY Zenon, <1>4, <1>6, <2>2 DEF Accept
    <3> QED BY Zenon, <1>14, <3>1 DEF Promises, Disabling, Disables
  <2> QED BY <2>1, <2>2
<1>16. HeldSafe'
  BY Zenon, <1>14 DEF Accept, Promises, HeldSafe
<1> QED BY <1>7, <1>8, <1>9, <1>12, <1>13, <1>15, <1>16 DEF Promises

(* The four kinds of request. *)
LEMMA NewRequestStep ==
  ASSUME IInv, NEW t \in Threads,
         EnableNode(t) \/ RelabelNode(t) \/ PatchHealth(t) \/ PostNode(t)
  PROVE  IInv'
<1>1. DOMAIN nodes \subseteq Nodes /\ \A n \in DOMAIN nodes : nodes[n] \in Health
  BY DEF IInv, Typed, Table
<1>2. Fresh \in Health
  BY FreshType
<1>3. ASSUME NEW row \in Health, NEW enabled \in BOOLEAN
      PROVE  Enabled(row, enabled) \in Health
             /\ (~enabled => Enabled(row, enabled).status = "disabled")
  <2>1. Enabled(row, enabled) \in Health
    BY EnabledType
  <2>2. ~enabled => Enabled(row, enabled).status = "disabled"
    BY SMT DEF Enabled, Health
  <2> QED BY <2>1, <2>2
<1>4. CASE EnableNode(t)
  BY Zenon, <1>1, <1>3, <1>4, AcceptStep DEF EnableNode
<1>5. CASE RelabelNode(t)
  BY Zenon, <1>1, <1>5, AcceptStep DEF RelabelNode
<1>6. CASE PatchHealth(t)
  <2>1. PICK n \in DOMAIN nodes, status \in {"active", "disabled"} :
          Accept(t, n, [nodes[n] EXCEPT !.status = status, !.score = 100], status = "disabled", FALSE)
    BY <1>6 DEF PatchHealth
  <2> DEFINE row == [nodes[n] EXCEPT !.status = status, !.score = 100]
  <2>2. row \in Health /\ row.status = status
    <3>1. nodes[n] \in Health
      BY <1>1
    <3>2. status \in Statuses /\ 100 \in 0..100
      BY SMT DEF Statuses
    <3> QED BY Zenon, <3>1, <3>2 DEF Health
  <2>3. (status = "disabled") \in BOOLEAN
    OBVIOUS
  <2> HIDE DEF row
  <2> QED BY Zenon, <1>1, <2>1, <2>2, <2>3, AcceptStep DEF row
<1>7. CASE PostNode(t)
  <2>1. PICK n \in Nodes, enabled \in BOOLEAN :
          Accept(t, n, IF enabled THEN Fresh ELSE Enabled(Fresh, FALSE), ~enabled, TRUE)
    BY <1>7 DEF PostNode
  <2>2. CASE enabled
    BY Zenon, <1>2, <2>1, <2>2, AcceptStep
  <2>3. CASE ~enabled
    BY Zenon, <1>2, <1>3, <2>1, <2>3, AcceptStep
  <2> QED BY <2>1, <2>2, <2>3
<1> QED BY <1>4, <1>5, <1>6, <1>7

(* A request that crosses no other writes what holds from then on. *)
LEMMA WriteNodeStep ==
  ASSUME IInv, NEW t \in Threads, WriteNode(t)
  PROVE  IInv'
<1> USE DEF IInv
<1> DEFINE r == [req[t] EXCEPT !.at = "audit"]
<1>1. /\ req \in [Threads -> RequestState] /\ req' = [req EXCEPT ![t] = r]
      /\ req[t].at = "write"
  BY Zenon DEF WriteNode, Typed
<1>2. PICK n \in Nodes : n = req[t].node /\ req[t].row \in Health
  BY SMT, <1>1, RequestFields
<1>3. /\ r.at = "audit" /\ r.node = n /\ r.row = req[t].row /\ r.disables = req[t].disables
      /\ r \in RequestState
  <2>1. req[t] \in [at : {"write", "audit"}, id : 1..MaxAdmin, node : Nodes, row : Health,
                    disables : BOOLEAN, retags : BOOLEAN]
    BY SMT, <1>1 DEF RequestState, Idle
  <2> QED BY SMT, <1>2, <2>1 DEF RequestState
<1>4. /\ req'[t] = r /\ \A u \in Threads \ {t} : req'[u] = req[u]
      /\ req' \in [Threads -> RequestState]
  <2> HIDE DEF r
  <2> QED BY Zenon, <1>1, <1>3, OneMoves
<1>5. /\ DOMAIN nodes' = DOMAIN nodes \cup {n} /\ nodes'[n] = req[t].row
      /\ \A m \in DOMAIN nodes \ {n} : nodes'[m] = nodes[m]
  BY Zenon, <1>2 DEF WriteNode
<1>6. /\ Stale(n) => exposed' = exposed \cup {n}
      /\ ~Stale(n) => exposed' = exposed \ {n}
  BY Zenon, <1>2 DEF WriteNode
<1> HIDE DEF r
<1>7. Typed'
  <2>1. Table(nodes')
    <3>1. nodes' = [m \in DOMAIN nodes \cup {n} |-> IF m = n THEN req[t].row ELSE nodes[m]]
      BY Zenon, <1>2 DEF WriteNode
    <3>2. \A m \in DOMAIN nodes \cup {n} : (IF m = n THEN req[t].row ELSE nodes[m]) \in Health
      BY Zenon, <1>2 DEF Typed, Table
    <3>3. nodes' \in [DOMAIN nodes \cup {n} -> Health]
      BY Zenon, <3>1, <3>2
    <3> QED BY Zenon, <1>2, <1>5, <3>3 DEF Typed, Table
  <2>2. exposed' \subseteq Nodes
    BY Zenon, <1>2, <1>6 DEF Typed
  <2>3. req' \in [Threads -> RequestState] /\ locked' \in BOOLEAN
    BY Zenon, <1>4 DEF WriteNode
  <2> QED BY Zenon, <2>1, <2>2, <2>3 DEF WriteNode, counters, Typed
<1>8. Dated'
  BY Zenon DEF WriteNode, Dated
<1>9. Recorded'
  <2>1. \A e : EventKept(e) => EventKept(e)'
    BY Zenon DEF WriteNode, EventKept
  <2>2. \A u \in Threads : req'[u].at = "respond" => u # t
    BY SMT, <1>3, <1>4
  <2> QED BY Zenon, <1>4, <2>1, <2>2 DEF WriteNode, Recorded
<1>10. \A u \in Threads : \A m : Busy(u, m)' <=> Busy(u, m)
  BY SMT, <1>1, <1>2, <1>3, <1>4 DEF Busy
<1>11. Crossing' /\ HeldAlone'
  BY Zenon, <1>10 DEF WriteNode, Promises, Crossing, HeldAlone
<1>12. \A m : Stale(m)' <=> Stale(m)
  BY Zenon DEF WriteNode, Stale
<1>13. \A m : m # n /\ Safe(m) => Safe(m)'
  BY Zenon, <1>5, <1>12 DEF Safe
<1>14. \A m : m # n => (m \in exposed' <=> m \in exposed)
  BY Zenon, <1>6
<1>15. n \notin exposed' /\ req[t].disables => Safe(n)'
  <2>1. req[t].disables => req[t].row.status = "disabled"
    BY SMT, <1>1 DEF Promises, Disabling, Disables
  <2> QED BY Zenon, <1>5, <1>6, <1>12, <2>1 DEF Safe
<1>16. Busy(t, n)
  BY SMT, <1>1, <1>2 DEF Busy
<1>17. Disabling'
  <2> SUFFICES ASSUME NEW u \in Threads
               PROVE  Disables(u)'
    BY DEF Disabling
  <2>1. CASE u = t
    <3>1. req[t].disables => req[t].row.status = "disabled"
      BY SMT, <1>1 DEF Promises, Disabling, Disables
    <3>2. req'[t].disables = req[t].disables /\ req'[t].node = n /\ req'[t].row = req[t].row
      BY Zenon, <1>3, <1>4
    <3>3. Disables(t)'
      BY Zenon, <1>15, <3>1, <3>2 DEF Disables
    <3> QED BY Zenon, <2>1, <3>3
  <2>2. CASE u # t
    <3>1. req'[u] = req[u] /\ contested' = contested
      BY Zenon, <1>4, <2>2 DEF WriteNode
    <3>2. u \notin contested /\ req[u].at # "idle" => req[u].node # n
      BY Zenon, <1>2, <1>16, <2>2, <3>1 DEF Promises, Crossing, Busy
    <3>3. Disables(u)
      BY DEF Promises, Disabling
    <3> QED BY SMT, <1>13, <1>14, <3>1, <3>2, <3>3 DEF Disables
  <2> QED BY <2>1, <2>2
<1>18. HeldSafe'
  <2>1. n \notin held /\ held' = held
    BY Zenon, <1>16 DEF WriteNode, Promises, HeldAlone
  <2> QED BY Zenon, <1>13, <1>14, <2>1 DEF Promises, HeldSafe
<1> QED BY <1>7, <1>8, <1>9, <1>11, <1>17, <1>18 DEF Promises

LEMMA TagConflictStep ==
  ASSUME IInv, NEW t \in Threads, TagConflict(t)
  PROVE  IInv'
<1> USE DEF IInv
<1>1. /\ req' = [req EXCEPT ![t] = Idle] /\ Idle \in RequestState
      /\ req \in [Threads -> RequestState]
  BY Zenon DEF TagConflict, Typed, RequestState
<1>2. /\ req'[t] = Idle /\ \A u \in Threads \ {t} : req'[u] = req[u]
      /\ req' \in [Threads -> RequestState]
  BY Zenon, <1>1, OneMoves
<1>3. Idle.at = "idle"
  BY DEF Idle
<1>4. failures' \in 0..MaxFailures
  BY SMT, BoundsAssumption DEF TagConflict, Typed
<1>5. Typed'
  BY Zenon, <1>2, <1>4 DEF TagConflict, history, Typed
<1>6. Dated'
  BY Zenon DEF TagConflict, Dated
<1>7. \A u \in Threads : req'[u].at # "idle" => u # t /\ req'[u] = req[u]
  BY Zenon, <1>2, <1>3
<1>8. Recorded'
  <2>1. \A e : EventKept(e) => EventKept(e)'
    BY Zenon DEF TagConflict, EventKept
  <2>2. \A u \in Threads : req'[u].at = "respond" => req'[u].at # "idle"
    OBVIOUS
  <2> QED BY Zenon, <1>7, <2>1, <2>2 DEF TagConflict, history, Recorded
<1>9. \A m : Safe(m)' <=> Safe(m)
  BY Zenon DEF TagConflict, Safe, Stale
<1>10. /\ \A u \in Threads : \A m : Busy(u, m)' => Busy(u, m)
       /\ contested' = contested /\ held' = held /\ exposed' = exposed
  BY SMT, <1>7 DEF TagConflict, history, Busy
<1>11. Crossing' /\ HeldAlone'
  BY Zenon, <1>10 DEF Promises, Crossing, HeldAlone
<1>12. HeldSafe'
  BY Zenon, <1>9, <1>10 DEF Promises, HeldSafe
<1>13. ASSUME NEW u \in Threads PROVE Disables(u)'
  <2>1. Disables(u) /\ (req'[u].at # "idle" => req'[u] = req[u])
    BY Zenon, <1>7 DEF Promises, Disabling
  <2> QED BY SMT, <1>9, <1>10, <2>1 DEF Disables
<1> QED BY <1>5, <1>6, <1>8, <1>11, <1>12, <1>13 DEF Promises, Disabling

LEMMA WriteAuditStep ==
  ASSUME IInv, NEW t \in Threads, WriteAudit(t)
  PROVE  IInv'
<1> USE DEF IInv
<1> DEFINE r == [at |-> "respond", id |-> req[t].id, node |-> req[t].node,
                 disables |-> req[t].disables, time |-> now]
<1>1. /\ req \in [Threads -> RequestState] /\ req' = [req EXCEPT ![t] = r]
      /\ req[t].at = "audit" /\ now \in Time
  BY Zenon DEF WriteAudit, Audited, Typed
<1>2. req[t].id \in 1..MaxAdmin /\ req[t].node \in Nodes /\ req[t].disables \in BOOLEAN
  BY SMT, <1>1, RequestFields
<1>3. /\ r.at = "respond" /\ r.id = req[t].id /\ r.node = req[t].node
      /\ r.disables = req[t].disables /\ r.time = now
      /\ r \in RequestState
  BY SMT, <1>1, <1>2 DEF RequestState, Time
<1> HIDE DEF r
<1>4. /\ req'[t] = r /\ \A u \in Threads \ {t} : req'[u] = req[u]
      /\ req' \in [Threads -> RequestState]
  BY Zenon, <1>1, <1>3, OneMoves
<1>5. Typed'
  <2>1. audit' \subseteq Event
    <3>1. [id |-> req[t].id, time |-> now] \in Event
      BY SMT, <1>1, <1>2 DEF Event, Time
    <3> QED BY Zenon, <3>1 DEF WriteAudit, Typed
  <2>2. locked' \in BOOLEAN
    BY Zenon DEF WriteAudit
  <2> QED BY Zenon, <1>4, <2>1, <2>2 DEF WriteAudit, history, counters, Typed
<1>6. Dated'
  BY Zenon DEF WriteAudit, Dated
<1>7. Recorded'
  <2>1. \A e : EventKept(e) => EventKept(e)'
    BY Zenon DEF WriteAudit, EventKept
  <2>2. [id |-> req[t].id, time |-> req[t].time]' \in audit'
    BY Zenon, <1>3, <1>4 DEF WriteAudit
  <2>3. EventKept([id |-> req[t].id, time |-> req[t].time])'
    BY Zenon, <2>2 DEF EventKept
  <2> QED BY Zenon, <1>4, <2>1, <2>3 DEF WriteAudit, history, Recorded
<1>8. \A u \in Threads : req'[u].at # "idle" =>
        req[u].at # "idle" /\ req'[u].node = req[u].node
  BY SMT, <1>1, <1>3, <1>4
<1>9. \A m : Safe(m)' <=> Safe(m)
  BY Zenon DEF WriteAudit, Safe, Stale
<1>10. /\ \A u \in Threads : \A m : Busy(u, m)' => Busy(u, m)
       /\ contested' = contested /\ held' = held /\ exposed' = exposed
  <2>1. \A u \in Threads : \A m : Busy(u, m)' => Busy(u, m)
    BY Zenon, <1>8 DEF Busy
  <2> QED BY Zenon, <2>1 DEF WriteAudit, history
<1>11. Crossing' /\ HeldAlone'
  BY Zenon, <1>10 DEF Promises, Crossing, HeldAlone
<1>12. HeldSafe'
  BY Zenon, <1>9, <1>10 DEF Promises, HeldSafe
<1>13. Disabling'
  <2> SUFFICES ASSUME NEW u \in Threads
               PROVE  Disables(u)'
    BY DEF Disabling
  <2>1. Disables(u)
    BY DEF Promises, Disabling
  <2>2. contested' = contested /\ exposed' = exposed
    BY DEF WriteAudit, history
  <2>3. CASE u # t
    BY Zenon, <1>4, <1>9, <2>1, <2>2, <2>3 DEF Disables
  <2>4. CASE u = t
    <3>1. Disables(t)'
      <4>1. req'[t].at = "respond" /\ req'[t].node = req[t].node
            /\ req'[t].disables = req[t].disables
        BY Zenon, <1>3, <1>4
      <4>2. req[t].at # "idle" /\ req'[t].at \notin {"write", "audit"}
        BY SMT, <1>1, <4>1
      <4> QED BY Zenon, <1>1, <1>9, <2>1, <2>2, <2>4, <4>1, <4>2 DEF Disables
    <3> QED BY Zenon, <2>4, <3>1
  <2> QED BY <2>3, <2>4
<1> QED BY <1>5, <1>6, <1>7, <1>11, <1>12, <1>13 DEF Promises

(* The node of a request that crossed no other is held from here on. *)
LEMMA RespondStep ==
  ASSUME IInv, NEW t \in Threads, Respond(t)
  PROVE  IInv'
<1> USE DEF IInv
<1>1. /\ req' = [req EXCEPT ![t] = Idle] /\ Idle \in RequestState
      /\ req \in [Threads -> RequestState] /\ req[t].at = "respond"
  BY Zenon DEF Respond, Typed, RequestState
<1>2. /\ req'[t] = Idle /\ \A u \in Threads \ {t} : req'[u] = req[u]
      /\ req' \in [Threads -> RequestState]
  BY Zenon, <1>1, OneMoves
<1>3. Idle.at = "idle"
  BY DEF Idle
<1>4. /\ req[t].id \in 1..MaxAdmin /\ req[t].time \in Time
      /\ req[t].node \in Nodes /\ req[t].disables \in BOOLEAN
  BY SMT, <1>1, RequestFields
<1>5. Typed'
  <2>1. answered' \subseteq Event
    <3>1. [id |-> req[t].id, time |-> req[t].time] \in Event
      BY SMT, <1>4 DEF Event, Time
    <3> QED BY Zenon, <3>1 DEF Respond, Typed
  <2>2. held' \subseteq Nodes
    BY Zenon, <1>4 DEF Respond, Typed
  <2> QED BY Zenon, <1>2, <2>1, <2>2 DEF Respond, counters, Typed
<1>6. Dated'
  BY Zenon DEF Respond, Dated
<1>7. \A u \in Threads : req'[u].at # "idle" => u # t /\ req'[u] = req[u]
  BY Zenon, <1>2, <1>3
<1>8. Recorded'
  <2>1. \A e : EventKept(e) => EventKept(e)'
    BY Zenon DEF Respond, EventKept
  <2>2. \A u \in Threads : req'[u].at = "respond" => req'[u].at # "idle"
    OBVIOUS
  <2>3. EventKept([id |-> req[t].id, time |-> req[t].time])
    BY Zenon, <1>1 DEF Recorded
  <2>4. \A e \in answered' : e \in answered \/ e = [id |-> req[t].id, time |-> req[t].time]
    BY Zenon DEF Respond
  <2>5. \A e \in answered' : EventKept(e)'
    BY Zenon, <2>1, <2>3, <2>4 DEF Recorded
  <2>6. ASSUME NEW u \in Threads, req'[u].at = "respond"
        PROVE  EventKept([id |-> req[u].id, time |-> req[u].time])'
    BY Zenon, <1>7, <2>1, <2>2, <2>6 DEF Recorded
  <2> QED BY Zenon, <2>5, <2>6 DEF Recorded
<1>9. \A m : Safe(m)' <=> Safe(m)
  BY Zenon DEF Respond, Safe, Stale
<1>10. req[t].at # "idle" /\ req[t].at \in {"audit", "respond"}
  BY <1>1
<1>11. Crossing'
  BY Zenon, <1>7 DEF Respond, Promises, Crossing, Busy
<1>12. held' = held \/ (held' = held \cup {req[t].node} /\ req[t].disables /\ t \notin contested)
  BY Zenon DEF Respond
<1>13. HeldAlone'
  <2> SUFFICES ASSUME NEW m \in held', NEW u \in Threads, Busy(u, m)'
               PROVE  FALSE
    BY DEF HeldAlone
  <2>1. u # t /\ Busy(u, m)
    BY SMT, <1>7 DEF Busy
  <2>2. CASE m \in held
    BY Zenon, <2>1, <2>2 DEF Promises, HeldAlone
  <2>3. CASE m = req[t].node /\ t \notin contested
    BY Zenon, <1>4, <1>10, <2>1, <2>3 DEF Promises, Crossing, Busy
  <2> QED BY Zenon, <1>12, <2>2, <2>3
<1>14. HeldSafe'
  <2>1. req[t].disables /\ t \notin contested /\ req[t].node \notin exposed => Safe(req[t].node)
    BY Zenon, <1>10 DEF Promises, Disabling, Disables
  <2>2. exposed' = exposed
    BY DEF Respond
  <2> SUFFICES ASSUME NEW m \in held', m \notin exposed
               PROVE  Safe(m)
    BY Zenon, <1>9, <2>2 DEF HeldSafe
  <2> QED BY Zenon, <1>12, <2>1 DEF Promises, HeldSafe
<1>15. Disabling'
  <2> SUFFICES ASSUME NEW u \in Threads
               PROVE  Disables(u)'
    BY DEF Disabling
  <2>1. /\ Disables(u) /\ (req'[u].at # "idle" => req'[u] = req[u])
        /\ contested' = contested /\ exposed' = exposed
    BY Zenon, <1>7 DEF Respond, Promises, Disabling
  <2> QED BY SMT, <1>9, <2>1 DEF Disables
<1> QED BY <1>5, <1>6, <1>8, <1>11, <1>13, <1>14, <1>15 DEF Promises

-----------------------------------------------------------------------------
(* The other steps.                                                        *)

LEMMA ServerCrashStep ==
  ASSUME IInv, ServerCrash
  PROVE  IInv'
<1> USE DEF IInv
<1>1. /\ req' \in [Threads -> RequestState]
      /\ \A t \in Threads : req'[t] = Idle
  <2>1. Idle \in RequestState /\ req' = [t \in Threads |-> Idle]
    BY Zenon DEF ServerCrash, RequestState
  <2> QED BY Zenon, <2>1
<1>2. \A t \in Threads : req'[t].at = "idle"
  <2>1. Idle.at = "idle"
    BY DEF Idle
  <2> QED BY Zenon, <1>1, <2>1
<1>3. failures' \in 0..MaxFailures
  BY SMT, BoundsAssumption DEF ServerCrash, Typed
<1>4. Typed'
  BY Zenon, <1>1, <1>3 DEF ServerCrash, history, Typed
<1>5. Dated'
  BY Zenon DEF ServerCrash, Dated
<1>6. \A t \in Threads : req'[t].at # "respond"
  BY SMT, <1>2
<1>7. Recorded'
  BY Zenon, <1>6 DEF ServerCrash, history, Recorded, EventKept
<1>8. \A m : Safe(m)' <=> Safe(m)
  BY Zenon DEF ServerCrash, Safe, Stale
<1>9. Promises'
  BY Zenon, <1>2, <1>8
     DEF ServerCrash, history, Promises, Crossing, HeldAlone, Disabling, Disables, HeldSafe, Busy
<1> QED BY <1>4, <1>5, <1>7, <1>9

LEMMA TickStep ==
  ASSUME IInv, Tick
  PROVE  IInv'
<1> USE DEF IInv
<1>1. now \in Int /\ now' = now + 1 /\ now' \in Time /\ Retention \in Int
  BY SMT, BoundsAssumption, RetentionAssumption DEF Tick, Typed, Time
<1>2. Typed'
  BY Zenon, <1>1 DEF Tick, history, counters, Typed
<1>3. Dated'
  <2>1. worker.at # "idle" => worker.since \in Int
                              /\ (worker.newest # None => worker.newest \in Int)
    BY SMT DEF Typed, Listing, Saving, Ending, Scanned, Idle, Time
  <2> QED BY SMT, <1>1, <2>1 DEF Tick, Dated
<1>4. Recorded'
  <2>1. ASSUME NEW e \in Event, EventKept(e) PROVE EventKept(e)'
    <3>1. e.time \in Int
      BY SMT DEF Event
    <3> QED BY SMT, <1>1, <2>1, <3>1 DEF Tick, EventKept
  <2>2. answered \subseteq Event
    BY DEF Typed
  <2>3. ASSUME NEW t \in Threads, req[t].at = "respond"
        PROVE  [id |-> req[t].id, time |-> req[t].time] \in Event
    BY SMT, <2>3, RequestFields DEF Typed, Event, Time
  <2> QED BY Zenon, <2>1, <2>2, <2>3 DEF Tick, history, Recorded
<1>5. ASSUME NEW m, Safe(m) PROVE Safe(m)'
  BY Zenon, <1>5 DEF Tick, Safe, Stale
<1>6. Promises'
  BY PromisesKept, <1>5 DEF Tick, history
<1> QED BY <1>2, <1>3, <1>4, <1>6

LEMMA StutterStep ==
  ASSUME IInv, UNCHANGED vars
  PROVE  IInv'
<1> USE DEF IInv
<1>1. Typed' /\ Dated'
  BY Zenon DEF vars, history, counters, Typed, Dated
<1>2. Recorded'
  BY RecordedKept DEF vars, history
<1>3. ASSUME NEW m, Safe(m) PROVE Safe(m)'
  BY Zenon, <1>3 DEF vars, Safe, Stale
<1>4. Promises'
  BY PromisesKept, <1>3 DEF vars, history
<1> QED BY <1>1, <1>2, <1>4

LEMMA Initially == Init => IInv
<1> SUFFICES ASSUME Init PROVE IInv
  OBVIOUS
<1>1. Idle.at = "idle" /\ Idle \in RequestState
  BY Zenon DEF Idle, RequestState
<1>2. \A t \in Threads : req[t].at = "idle"
  BY Zenon, <1>1 DEF Init
<1>3. Typed
  <2>1. Table(nodes)
    BY Zenon, SeededAssumption, FreshType DEF Init, Table
  <2>2. req \in [Threads -> RequestState]
    BY Zenon, <1>1 DEF Init
  <2>3. now \in Time /\ runs \in 0..MaxRuns /\ requests \in 0..MaxAdmin
        /\ failures \in 0..MaxFailures
    BY SMT, BoundsAssumption DEF Init, Time
  <2> QED BY Zenon, <2>1, <2>2, <2>3 DEF Init, Typed
<1>4. Dated
  BY Zenon, <1>1 DEF Init, Dated
<1>5. \A t \in Threads : req[t].at # "respond"
  BY SMT, <1>2
<1>6. Recorded
  BY Zenon, <1>5 DEF Init, Recorded
<1>7. Promises
  BY Zenon, <1>2 DEF Init, Promises, Crossing, HeldAlone, Disabling, Disables, HeldSafe, Busy
<1> QED BY <1>3, <1>4, <1>6, <1>7 DEF IInv

LEMMA Inductive == IInv /\ [Next]_vars => IInv'
<1> SUFFICES ASSUME IInv, [Next]_vars PROVE IInv'
  OBVIOUS
<1>1. CASE WorkerStep
  BY Zenon, <1>1, StartRunStep, SkipNodeStep, ProbeNodeStep, SaveVerdictStep, RecordCheckStep,
     PruneChecksStep, PruneAuditStep, OtherEndsStep DEF WorkerStep
<1>2. CASE WorkerCrash
  BY <1>2, OtherEndsStep
<1>3. ASSUME NEW t \in Threads,
             \/ EnableNode(t) \/ RelabelNode(t)
             \/ PatchHealth(t) \/ PostNode(t)
             \/ RequestStep(t) \/ TagConflict(t)
      PROVE  IInv'
  BY Zenon, <1>3, NewRequestStep, WriteNodeStep, WriteAuditStep, RespondStep, TagConflictStep
     DEF RequestStep
<1>4. CASE ServerCrash
  BY <1>4, ServerCrashStep
<1>5. CASE Tick
  BY <1>5, TickStep
<1>6. CASE Quiet \/ UNCHANGED vars
  BY <1>6, StutterStep DEF Quiet
<1> QED BY Zenon, <1>1, <1>2, <1>3, <1>4, <1>5, <1>6 DEF Next

LEMMA Throughout == Spec => []IInv
  BY Initially, Inductive, PTL DEF Spec

-----------------------------------------------------------------------------
(* What follows for every node, thread and retention time.                 *)

LEMMA TypedMeansTypeOK == IInv => TypeOK
<1> SUFFICES ASSUME IInv PROVE TypeOK
  OBVIOUS
<1>1. WorkerOK
  BY SMT DEF IInv, Typed, Listing, Saving, Ending, Scanned, WorkerOK, Time
<1> QED BY <1>1 DEF IInv, Typed, TypeOK, Time

LEMMA SafeMeansUnusable == IInv => OnlyOverlapRevives
  BY SMT DEF IInv, Promises, HeldSafe, Safe, OnlyOverlapRevives, Usable

LEMMA RecordedMeansAudited == IInv => AnsweredChangesAreAudited
  BY DEF IInv, Recorded, EventKept, AnsweredChangesAreAudited

(* The cutoff of a run lies after the cutoff of the moment it began.       *)
LEMMA CutoffSuffices ==
  ASSUME IInv, PruneAudit \/ EndWithoutPruning, Retention > 0, worker.newest # None
  PROVE  \A e \in audit' : e.time >= worker.since - Retention
<1>1. PruneAudit
  BY RetentionAssumption DEF EndWithoutPruning
<1>2. Ending(worker)
  BY SMT, <1>1 DEF IInv, Typed, PruneAudit, Idle, Listing, Saving
<1>3. /\ worker.newest \in Int /\ worker.since \in Int /\ worker.since <= worker.newest
      /\ Retention \in Int
  BY SMT, <1>1, <1>2, RetentionAssumption DEF IInv, Dated, PruneAudit, Ending, Time
<1>4. audit \subseteq Event
  BY DEF IInv, Typed
<1>5. ASSUME NEW e \in audit' PROVE e.time >= worker.since - Retention
  <2>1. e \in Event /\ ~(e.time < worker.newest - Retention)
    BY Zenon, <1>1, <1>4 DEF PruneAudit, Expired, Cutoff
  <2>2. e.time \in Int
    BY SMT, <2>1 DEF Event
  <2> QED BY SMT, <1>3, <2>1, <2>2
<1> QED BY <1>5

(* Whatever worker, administrators and crashes do, every variable keeps    *)
(* its type.                                                               *)
THEOREM TypeCorrect == Spec => []TypeOK
  BY Throughout, TypedMeansTypeOK, PTL

(* A node that an answered request has disabled stays out of every config, *)
(* unless a run had read it as enabled when the request wrote it.          *)
THEOREM DisabledUnlessOverlapped == Spec => []OnlyOverlapRevives
  BY Throughout, SafeMeansUnusable, PTL

(* The event of an answered change is there until it is too old.           *)
THEOREM ChangesAreAudited == Spec => []AnsweredChangesAreAudited
  BY Throughout, RecordedMeansAudited, PTL

(* A run that has probed and ends without an error leaves no event that    *)
(* was too old when it began.                                              *)
THEOREM RetentionHolds == Spec => RetentionIsEnforced
<1>1. IInv /\ [Next]_vars =>
        [(PruneAudit \/ EndWithoutPruning) /\ Retention > 0 /\ worker.newest # None =>
           \A e \in audit' : e.time >= worker.since - Retention]_vars
  BY CutoffSuffices
<1> QED BY Throughout, <1>1, PTL DEF Spec, RetentionIsEnforced
=============================================================================
