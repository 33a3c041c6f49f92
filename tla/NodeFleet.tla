------------------------------ MODULE NodeFleet ------------------------------
(***************************************************************************)
(* The nodes table between its two writers: the health-check worker, a     *)
(* process of its own that works from the list it read when it started,    *)
(* and the administrators' requests to the API server, each of which reads *)
(* a whole node, changes it in memory and writes it back before it records *)
(* an audit event.  Either process may die between two statements, and a   *)
(* refused upsert leaves the API's connection inside a transaction that    *)
(* keeps the worker out (see SharedConnection).                            *)
(***************************************************************************)
EXTENDS NodeHealth, FiniteSets

CONSTANTS
  Nodes,            \* node ids
  Seeded,           \* those in the table from the start
  Threads,          \* concurrent admin requests
  Retention,        \* VPN_ROUTER_AUDIT_RETENTION_DAYS, 0 for no pruning
  IncludeDisabled,  \* the worker's --include-disabled
  MaxTime,          \* bound: the clock stops here
  MaxRuns,          \* bound: worker runs
  MaxAdmin,         \* bound: admin requests
  MaxFailures       \* bound: crashes of either process, tag conflicts

ASSUME SeededAssumption == Seeded \subseteq Nodes
ASSUME RetentionAssumption == Retention \in Nat
ASSUME FleetAssumption == IncludeDisabled \in BOOLEAN
ASSUME BoundsAssumption == {MaxTime, MaxRuns, MaxAdmin, MaxFailures} \subseteq Nat

VARIABLES
  nodes,      \* the nodes table: the rows by id, none is ever deleted
  audit,      \* admin_audit_events: the request's number and when it occurred
  checks,     \* node_health_events: the node and when it was probed
  locked,     \* the API's connection is in a transaction nobody ends
  now,        \* the wall clock, in days
  worker,     \* the run under way: where it is and its local variables
  req,        \* the admin requests under way
  answered,   \* history: the audit events of the requests answered with 200
  contested,  \* history: requests that had another at the same node beside them
  held,       \* history: nodes an answered request disabled, none changing them since
  exposed,    \* history: nodes a run had read as enabled when they were last written
  runs, requests, failures   \* counters under the bounds

history == <<answered, contested, held, exposed>>
counters == <<runs, requests, failures>>
vars == <<nodes, audit, checks, locked, now, worker, req, history, counters>>

Idle == [at |-> "idle"]

-----------------------------------------------------------------------------
(* The worker: run_once.                                                   *)

(* list_nodes: the snapshot every verdict of this run starts from.         *)
StartRun ==
  /\ worker.at = "idle" /\ runs < MaxRuns
  /\ runs' = runs + 1
  /\ worker' = [at |-> "next", todo |-> DOMAIN nodes, seen |-> nodes, newest |-> None, since |-> now]
  /\ UNCHANGED <<nodes, audit, checks, locked, now, req, history, requests, failures>>

Skipped(n) == worker.seen[n].status = "disabled" /\ ~IncludeDisabled

SkipNode(n) ==
  /\ worker.at = "next" /\ n \in worker.todo /\ Skipped(n)
  /\ worker' = [worker EXCEPT !.todo = @ \ {n}]
  /\ UNCHANGED <<nodes, audit, checks, locked, now, req, history, counters>>

(* The TCP connect, seconds long, and the verdict on what was read before. *)
ProbeNode(n) ==
  /\ worker.at = "next" /\ n \in worker.todo /\ ~Skipped(n)
  /\ \E probe \in Probes :
       \E verdict \in Evaluate(worker.seen[n], probe) :
         worker' = [at |-> "save", todo |-> worker.todo \ {n}, seen |-> worker.seen,
                    newest |-> now, since |-> worker.since, node |-> n, verdict |-> verdict]
  /\ UNCHANGED <<nodes, audit, checks, locked, now, req, history, counters>>

(* update_node_health, committed.                                          *)
SaveVerdict ==
  /\ worker.at = "save" /\ ~locked
  /\ nodes' = [nodes EXCEPT ![worker.node] = Updated(@, worker.verdict)]
  /\ worker' = [worker EXCEPT !.at = "record"]
  /\ UNCHANGED <<audit, checks, locked, now, req, history, counters>>

(* add_node_health_event, committed.                                       *)
RecordCheck ==
  /\ worker.at = "record" /\ ~locked
  /\ checks' = checks \cup {[node |-> worker.node, time |-> worker.newest]}
  /\ worker' = [at |-> "next", todo |-> worker.todo, seen |-> worker.seen,
                newest |-> worker.newest, since |-> worker.since]
  /\ UNCHANGED <<nodes, audit, locked, now, req, history, counters>>

(* The two prunes, each committed; skipped when nothing was checked.       *)
(* (Variants: a day less is kept; a day more.)                             *)
CutoffTooLate(newest) == newest - Retention + 1
CutoffTooEarly(newest) == newest - Retention - 1
Cutoff(newest) == newest - Retention
Expired(events, newest) == {e \in events : e.time < Cutoff(newest)}

Pruning == worker.at = "next" /\ worker.todo = {} /\ Retention > 0 /\ worker.newest # None

PruneChecks ==
  /\ Pruning /\ ~locked
  /\ checks' = checks \ Expired(checks, worker.newest)
  /\ worker' = [at |-> "prune", newest |-> worker.newest, since |-> worker.since]
  /\ UNCHANGED <<nodes, audit, locked, now, req, history, counters>>

PruneAudit ==
  /\ worker.at = "prune" /\ ~locked
  /\ audit' = audit \ Expired(audit, worker.newest)
  /\ worker' = Idle
  /\ UNCHANGED <<nodes, checks, locked, now, req, history, counters>>

EndWithoutPruning ==
  /\ worker.at = "next" /\ worker.todo = {}
  /\ (Retention = 0 \/ worker.newest = None)
  /\ worker' = Idle
  /\ UNCHANGED <<nodes, audit, checks, locked, now, req, history, counters>>

(* "database is locked" ends the run with an exception.                    *)
AbortRun ==
  /\ locked /\ (worker.at \in {"save", "record", "prune"} \/ Pruning)
  /\ worker' = Idle
  /\ UNCHANGED <<nodes, audit, checks, locked, now, req, history, counters>>

WorkerCrash ==
  /\ worker.at # "idle" /\ failures < MaxFailures
  /\ failures' = failures + 1
  /\ worker' = Idle
  /\ UNCHANGED <<nodes, audit, checks, locked, now, req, history, runs, requests>>

-----------------------------------------------------------------------------
(* The administrators.                                                     *)

(* The request has computed the row it will write.  disables: it was asked *)
(* for a disabled node; retags: it may choose a tag that another node has. *)
Others(t, n) == {u \in Threads \ {t} : req[u].at # "idle" /\ req[u].node = n}

Accept(t, n, row, disables, retags) ==
  /\ req[t].at = "idle" /\ requests < MaxAdmin
  /\ requests' = requests + 1
  /\ req' = [req EXCEPT ![t] = [at |-> "write", id |-> requests', node |-> n,
                                row |-> row, disables |-> disables, retags |-> retags]]
  /\ held' = held \ {n}
  /\ contested' = IF Others(t, n) = {} THEN contested \ {t} ELSE contested \cup Others(t, n) \cup {t}
  /\ UNCHANGED <<nodes, audit, checks, locked, now, worker, answered, exposed, runs, failures>>

(* DELETE, PATCH enabled: get_node, and the change in memory.              *)
EnableNode(t) ==
  \E n \in DOMAIN nodes, enabled \in BOOLEAN :
    Accept(t, n, Enabled(nodes[n], enabled), ~enabled, FALSE)

(* PATCH of the label or the priority alone changes nothing that is        *)
(* modelled, yet the whole node is written back.                           *)
RelabelNode(t) == \E n \in DOMAIN nodes : Accept(t, n, nodes[n], FALSE, TRUE)

(* PATCH health: the score is required, what is left out is kept as read.  *)
PatchHealth(t) ==
  \E n \in DOMAIN nodes, status \in {"active", "disabled"} :
    Accept(t, n, [nodes[n] EXCEPT !.status = status, !.score = 100], status = "disabled", FALSE)

(* POST of a whole node or of a vless:// link: nothing is read.            *)
PostNode(t) == \E n \in Nodes, enabled \in BOOLEAN :
                 Accept(t, n, IF enabled THEN Fresh ELSE Enabled(Fresh, FALSE), ~enabled, TRUE)

(* What the run under way will still write from what it read before.       *)
Stale(n) == \/ worker.at \in {"next", "save", "record"} /\ n \in worker.todo
               /\ worker.seen[n].status # "disabled"
            \/ worker.at = "save" /\ worker.node = n /\ worker.verdict.status # "disabled"

(* upsert_node or the UPDATE of update_node_health; its commit also ends a *)
(* transaction that an earlier request has left open.                      *)
WriteNode(t) ==
  /\ req[t].at = "write"
  /\ nodes' = [n \in DOMAIN nodes \cup {req[t].node} |->
                 IF n = req[t].node THEN req[t].row ELSE nodes[n]]
  /\ locked' = FALSE
  /\ exposed' = IF Stale(req[t].node) THEN exposed \cup {req[t].node} ELSE exposed \ {req[t].node}
  /\ req' = [req EXCEPT ![t].at = "audit"]
  /\ UNCHANGED <<audit, checks, now, worker, answered, contested, held, counters>>

(* The tag belongs to another node: IntegrityError, the connection stays   *)
(* in the transaction that the statement began.                            *)
TagConflict(t) ==
  /\ req[t].at = "write" /\ req[t].retags
  /\ failures < MaxFailures
  /\ failures' = failures + 1
  /\ locked' = TRUE
  /\ req' = [req EXCEPT ![t] = Idle]
  /\ UNCHANGED <<nodes, audit, checks, now, worker, history, runs, requests>>

(* add_admin_audit_event.  (Variant: the event waits in the transaction    *)
(* for a commit that does not come.)                                       *)
Audited(t) ==
  req' = [req EXCEPT ![t] = [at |-> "respond", id |-> @.id, node |-> @.node,
                             disables |-> @.disables, time |-> now]]
AuditUncommitted(t) ==
  /\ req[t].at = "audit"
  /\ Audited(t)
  /\ locked' = TRUE
  /\ UNCHANGED <<nodes, audit, checks, now, worker, history, counters>>
WriteAudit(t) ==
  /\ req[t].at = "audit"
  /\ Audited(t)
  /\ audit' = audit \cup {[id |-> req[t].id, time |-> now]}
  /\ locked' = FALSE
  /\ UNCHANGED <<nodes, checks, now, worker, history, counters>>

(* 200.  A node counts as held when no other request was changing it too.  *)
Respond(t) ==
  /\ req[t].at = "respond"
  /\ answered' = answered \cup {[id |-> req[t].id, time |-> req[t].time]}
  /\ held' = IF req[t].disables /\ t \notin contested
             THEN held \cup {req[t].node} ELSE held
  /\ req' = [req EXCEPT ![t] = Idle]
  /\ UNCHANGED <<nodes, audit, checks, locked, now, worker, contested, exposed, counters>>

ServerCrash ==
  /\ failures < MaxFailures
  /\ failures' = failures + 1
  /\ locked' = FALSE
  /\ req' = [t \in Threads |-> Idle]
  /\ UNCHANGED <<nodes, audit, checks, now, worker, history, runs, requests>>

Tick ==
  /\ now < MaxTime
  /\ now' = now + 1
  /\ UNCHANGED <<nodes, audit, checks, locked, worker, req, history, counters>>

(* Between two firings of the timer and without a request nothing happens. *)
Quiet == worker = Idle /\ (\A t \in Threads : req[t] = Idle) /\ UNCHANGED vars

-----------------------------------------------------------------------------
Init ==
  /\ nodes = [n \in Seeded |-> Fresh]
  /\ audit = {} /\ checks = {} /\ locked = FALSE
  /\ now = 0
  /\ worker = Idle
  /\ req = [t \in Threads |-> Idle]
  /\ answered = {} /\ contested = {} /\ held = {} /\ exposed = {}
  /\ runs = 0 /\ requests = 0 /\ failures = 0

WorkerStep == \/ StartRun
              \/ \E n \in Nodes : SkipNode(n) \/ ProbeNode(n)
              \/ SaveVerdict \/ RecordCheck
              \/ PruneChecks \/ PruneAudit \/ EndWithoutPruning
              \/ AbortRun
RequestStep(t) == WriteNode(t) \/ WriteAudit(t) \/ Respond(t)

Next == \/ WorkerStep \/ WorkerCrash
        \/ \E t \in Threads : \/ EnableNode(t) \/ RelabelNode(t)
                              \/ PatchHealth(t) \/ PostNode(t)
                              \/ RequestStep(t) \/ TagConflict(t)
        \/ ServerCrash \/ Tick \/ Quiet

Spec == Init /\ [][Next]_vars

-----------------------------------------------------------------------------
Event == [id : 1..MaxAdmin, time : 0..MaxTime]
Table(rows) == DOMAIN rows \subseteq Nodes /\ rows \in [DOMAIN rows -> Health]
WorkerOK ==
  \/ worker = Idle
  \/ worker \in [at : {"prune"}, newest : 0..MaxTime, since : 0..MaxTime]
  \/ /\ worker.at \in {"next", "save", "record"}
     /\ worker.todo \subseteq DOMAIN worker.seen /\ Table(worker.seen)
     /\ worker.newest \in (0..MaxTime) \cup {None} /\ worker.since \in 0..MaxTime
     /\ worker.at # "next" => worker.node \in DOMAIN worker.seen /\ worker.verdict \in Health
RequestState ==
  {Idle}
  \cup [at : {"write", "audit"}, id : 1..MaxAdmin, node : Nodes, row : Health,
        disables : BOOLEAN, retags : BOOLEAN]
  \cup [at : {"respond"}, id : 1..MaxAdmin, node : Nodes, disables : BOOLEAN, time : 0..MaxTime]

(* Every variable has its type; the counters stay under their bounds.      *)
TypeOK ==
  /\ Table(nodes)
  /\ audit \subseteq Event /\ answered \subseteq Event
  /\ checks \subseteq [node : Nodes, time : 0..MaxTime]
  /\ locked \in BOOLEAN /\ now \in 0..MaxTime
  /\ WorkerOK
  /\ req \in [Threads -> RequestState]
  /\ contested \subseteq Threads /\ held \subseteq Nodes /\ exposed \subseteq Nodes
  /\ runs \in 0..MaxRuns /\ requests \in 0..MaxAdmin /\ failures \in 0..MaxFailures

(* README: a node an administrator has disabled is in no later config.     *)
DisabledStaysOut == \A n \in held : ~Usable(nodes[n])

(* Only the run that was under way when the node was disabled can bring it *)
(* back: no later run, crash, lock or pruning does.                        *)
OnlyOverlapRevives == \A n \in held \ exposed : ~Usable(nodes[n])

(* An answered change has its audit event until the event is older than    *)
(* the retention time.                                                     *)
AnsweredChangesAreAudited ==
  \A e \in answered : e \in audit \/ (Retention > 0 /\ e.time < now - Retention)

(* operations.md: retention is enforced by the worker: a run that has      *)
(* probed a node and ends without an error leaves no event that was too    *)
(* old when it began.                                                      *)
RetentionIsEnforced ==
  [][(PruneAudit \/ EndWithoutPruning) /\ Retention > 0 /\ worker.newest # None =>
       \A e \in audit' : e.time >= worker.since - Retention]_vars
=============================================================================
