------------------------ MODULE ClientConfigs_proofs ------------------------
(* What clients get from the nodes table, for every set of nodes, tags,     *)
(* priorities and reports, every limit, and any number of requests.         *)
EXTENDS ClientConfigs, FiniteSetTheorems, SequenceTheorems, TLAPS

-----------------------------------------------------------------------------
(* The order of tuples.                                                     *)
LEMMA Precedes3 ==
  ASSUME NEW k, NEW l, DOMAIN k = 1..3
  PROVE  Precedes(k, l) <=> \/ k[1] < l[1]
                            \/ k[1] = l[1] /\ k[2] < l[2]
                            \/ k[1] = l[1] /\ k[2] = l[2] /\ k[3] < l[3]
<1>1. Precedes(k, l) <=> \E i \in 1..3 : k[i] < l[i] /\ \A j \in 1..(i - 1) : k[j] = l[j]
  BY DEF Precedes
<1>2. 1..(1 - 1) = {} /\ 1..(2 - 1) = {1} /\ 1..(3 - 1) = {1, 2} /\ 1..3 = {1, 2, 3}
  OBVIOUS
<1> QED BY <1>1, <1>2

LEMMA Precedes4 ==
  ASSUME NEW k, NEW l, DOMAIN k = 1..4
  PROVE  Precedes(k, l) <=> \/ k[1] < l[1]
                            \/ k[1] = l[1] /\ k[2] < l[2]
                            \/ k[1] = l[1] /\ k[2] = l[2] /\ k[3] < l[3]
                            \/ k[1] = l[1] /\ k[2] = l[2] /\ k[3] = l[3] /\ k[4] < l[4]
<1>1. Precedes(k, l) <=> \E i \in 1..4 : k[i] < l[i] /\ \A j \in 1..(i - 1) : k[j] = l[j]
  BY DEF Precedes
<1>2. /\ 1..(1 - 1) = {} /\ 1..(2 - 1) = {1} /\ 1..(3 - 1) = {1, 2}
      /\ 1..(4 - 1) = {1, 2, 3} /\ 1..4 = {1, 2, 3, 4}
  OBVIOUS
<1> QED BY <1>1, <1>2

(* Keys that order the rows of a set strictly, and where each row comes.    *)
Orders(key, S) ==
  /\ \A r \in S : ~Precedes(key[r], key[r])
  /\ \A r, s, u \in S : Precedes(key[r], key[s]) /\ Precedes(key[s], key[u]) =>
                          Precedes(key[r], key[u])
  /\ \A r, s \in S : r # s => Precedes(key[r], key[s]) \/ Precedes(key[s], key[r])
Before(r, S, key) == {s \in S : Precedes(key[s], key[r])}

(* SortedBy is a list of the rows, each once and each at its place.         *)
LEMMA Sorted ==
  ASSUME NEW S, IsFiniteSet(S), NEW key, Orders(key, S)
  PROVE  /\ Cardinality(S) \in Nat
         /\ SortedBy(S, key) \in [1..Cardinality(S) -> S]
         /\ \A i, j \in 1..Cardinality(S) : SortedBy(S, key)[i] = SortedBy(S, key)[j] => i = j
         /\ \A r \in S : /\ Cardinality(Before(r, S, key)) \in 0..(Cardinality(S) - 1)
                         /\ SortedBy(S, key)[Cardinality(Before(r, S, key)) + 1] = r
         /\ \A i \in 1..Cardinality(S) :
              Cardinality(Before(SortedBy(S, key)[i], S, key)) = i - 1
<1> DEFINE n == Cardinality(S)
           B(r) == Before(r, S, key)
           place == [r \in S |-> Cardinality(B(r)) + 1]
<1>1. n \in Nat
  BY FS_CardinalityType
<1>2. ASSUME NEW r \in S
      PROVE  IsFiniteSet(B(r)) /\ Cardinality(B(r)) \in Nat /\ Cardinality(B(r)) <= n - 1
  <2>1. IsFiniteSet(S \ {r}) /\ Cardinality(S \ {r}) = n - 1
    BY FS_RemoveElement
  <2>2. B(r) \in SUBSET (S \ {r})
    BY DEF Orders, Before
  <2>3. IsFiniteSet(B(r)) /\ Cardinality(B(r)) <= n - 1
    BY <2>1, <2>2, FS_Subset
  <2> QED BY <2>3, FS_CardinalityType
<1>3. ASSUME NEW r \in S, NEW s \in S, Precedes(key[r], key[s])
      PROVE  Cardinality(B(r)) < Cardinality(B(s))
  <2>1. r \notin B(r)
    BY DEF Orders, Before
  <2>2. B(r) \cup {r} \in SUBSET B(s)
    BY <1>3 DEF Orders, Before
  <2>3. IsFiniteSet(B(r)) /\ IsFiniteSet(B(s)) /\ Cardinality(B(r)) \in Nat /\ Cardinality(B(s)) \in Nat
    BY <1>2
  <2>4. Cardinality(B(r) \cup {r}) = Cardinality(B(r)) + 1
    BY <2>1, <2>3, FS_AddElement
  <2>5. Cardinality(B(r) \cup {r}) <= Cardinality(B(s))
    BY <2>2, <2>3, FS_Subset
  <2> HIDE DEF B
  <2> QED BY <2>3, <2>4, <2>5
<1>4. \A r, s \in S : Cardinality(B(r)) = Cardinality(B(s)) => r = s
  <2> SUFFICES ASSUME NEW r \in S, NEW s \in S, r # s, Cardinality(B(r)) = Cardinality(B(s))
               PROVE  FALSE
    OBVIOUS
  <2>1. Precedes(key[r], key[s]) \/ Precedes(key[s], key[r])
    BY DEF Orders
  <2>2. Cardinality(B(r)) \in Nat
    BY <1>2
  <2> HIDE DEF B
  <2> QED BY <1>3, <2>1, <2>2
<1>5. place \in [S -> 1..n]
  <2>1. \A r \in S : Cardinality(B(r)) + 1 \in 1..n
    <3> HIDE DEF B, n
    <3> QED BY <1>1, <1>2
  <2> HIDE DEF B, n
  <2> QED BY <2>1
<1>6. place \in Surjection(S, 1..n)
  <2>1. \A r, s \in S : place[r] = place[s] => r = s
    <3>1. \A r \in S : Cardinality(B(r)) \in Nat
      BY <1>2
    <3> HIDE DEF B, n
    <3> QED BY <1>4, <3>1
  <2>2. place \in Injection(S, 1..n)
    <3> HIDE DEF place, n
    <3> QED BY <1>5, <2>1 DEF Injection, IsInjective
  <2>3. IsFiniteSet(1..n) /\ Cardinality(1..n) = n
    <3> HIDE DEF n
    <3> QED BY <1>1, FS_Interval
  <2> HIDE DEF place
  <2> QED BY <2>2, <2>3, FS_Injection
<1>7. \A i \in 1..n : \E r \in S : Cardinality(B(r)) = i - 1
  <2> SUFFICES ASSUME NEW i \in 1..n PROVE \E r \in S : Cardinality(B(r)) = i - 1
    OBVIOUS
  <2>1. PICK r \in S : place[r] = i
    <3> HIDE DEF place, n
    <3> QED BY <1>6 DEF Surjection
  <2>2. Cardinality(B(r)) \in Nat /\ Cardinality(B(r)) + 1 = i
    BY <1>2, <2>1
  <2> HIDE DEF B
  <2> QED BY <2>2
<1> DEFINE sorted == SortedBy(S, key)
<1>8. sorted = [i \in 1..n |-> CHOOSE r \in S : Cardinality(B(r)) = i - 1]
  BY DEF SortedBy, Before
<1> HIDE DEF B, n, sorted
<1>9. \A i \in 1..n : sorted[i] \in S /\ Cardinality(B(sorted[i])) = i - 1
  <2> SUFFICES ASSUME NEW i \in 1..n
               PROVE  sorted[i] \in S /\ Cardinality(B(sorted[i])) = i - 1
    OBVIOUS
  <2>1. sorted[i] = CHOOSE r \in S : Cardinality(B(r)) = i - 1
    BY <1>8
  <2>2. \E r \in S : Cardinality(B(r)) = i - 1
    BY <1>7
  <2> QED BY <2>1, <2>2
<1>10. sorted \in [1..n -> S]
  BY <1>8, <1>9
<1>11. \A i, j \in 1..n : sorted[i] = sorted[j] => i = j
  BY <1>1, <1>9
<1>12. ASSUME NEW r \in S
       PROVE  Cardinality(B(r)) \in 0..(n - 1) /\ sorted[Cardinality(B(r)) + 1] = r
  <2>1. Cardinality(B(r)) \in 0..(n - 1) /\ Cardinality(B(r)) + 1 \in 1..n
    BY <1>1, <1>2
  <2>2. Cardinality(B(sorted[Cardinality(B(r)) + 1])) = Cardinality(B(r))
    BY <1>9, <2>1
  <2> QED BY <1>4, <1>9, <2>1, <2>2
<1> QED BY <1>1, <1>9, <1>10, <1>11, <1>12 DEF n, B, sorted

-----------------------------------------------------------------------------
(* The table: every row is a node under its own id, whose options are what  *)
(* the requests admit for its protocol, and no two rows share a tag.        *)
Admitted(node) == /\ node.protocol = "vless" => node.options \in {"raw_url", "fields"}
                  /\ node.protocol # "vless" => node.options \in {"own", "none"}
IInv == /\ \A n \in DOMAIN nodes : /\ n \in NodeIds /\ nodes[n] \in Node /\ nodes[n].id = n
                                   /\ Admitted(nodes[n])
        /\ \A m, n \in DOMAIN nodes : nodes[m].tag = nodes[n].tag => m = n

LEMMA FreshTyped == Fresh \in Health
  BY DEF Fresh, Health, Statuses, Healths, Rates

LEMMA VpnNodeTyped ==
  ASSUME NEW row \in Health, NEW id \in NodeIds, NEW tag \in Tags, NEW protocol \in Protocols,
         NEW options \in Options, NEW priority \in Int
  PROVE  LET node == VpnNode(id, row, tag, protocol, options, priority)
         IN  /\ node \in Node /\ node.id = id /\ node.tag = tag /\ node.protocol = protocol
             /\ node.options = options /\ node.priority = priority
             /\ node.score = row.score /\ node.rate = row.rate /\ node.latency = row.latency
  BY DEF VpnNode, Node, Health

LEMMA EnabledTyped ==
  ASSUME NEW row, NEW enabled \in BOOLEAN
  PROVE  /\ row \in Health => Enabled(row, enabled) \in Health
         /\ row \in Node => /\ Enabled(row, enabled) \in Node
                            /\ Enabled(row, enabled).id = row.id
                            /\ Enabled(row, enabled).tag = row.tag
                            /\ Enabled(row, enabled).protocol = row.protocol
                            /\ Enabled(row, enabled).options = row.options
<1>1. PICK status \in Statuses, health \in Healths :
        Enabled(row, enabled) = [row EXCEPT !.status = status, !.health = health]
  BY DEF Enabled, Statuses, Healths
<1>2. row \in Health => [row EXCEPT !.status = status, !.health = health] \in Health
  BY DEF Health
<1> DEFINE new == [row EXCEPT !.status = status, !.health = health]
<1>3. row \in Node => /\ new \in Node /\ new.id = row.id /\ new.tag = row.tag
                      /\ new.protocol = row.protocol /\ new.options = row.options
  BY DEF Node
<1> QED BY <1>1, <1>2, <1>3

LEMMA UpdatedTyped ==
  ASSUME NEW row \in Node, NEW report \in Reports
  PROVE  Updated(row, report) \in Health
<1>1. /\ row.status \in Statuses /\ row.health \in Healths /\ row.rate \in Rates
      /\ row.latency \in Latencies \cup {None}
  BY DEF Node
<1>2. /\ report.score \in 0..100 /\ report.status \in Statuses \cup {None}
      /\ report.health \in Healths \cup {None} /\ report.rate \in Rates \cup {None}
      /\ report.latency \in Latencies \cup {None}
  BY ReportsAssumption
<1> QED BY <1>1, <1>2 DEF Updated, Given, Health

(* What an upsert leaves of the table.                                     *)
LEMMA UpsertStep ==
  ASSUME IInv, NEW node \in Node, Admitted(node), Upsert(node)
  PROVE  IInv'
<1>1. /\ DOMAIN nodes' = DOMAIN nodes \cup {node.id}
      /\ \A n \in DOMAIN nodes' : nodes'[n] = IF n = node.id THEN node ELSE nodes[n]
  BY DEF Upsert
<1>2. node.id \in NodeIds
  BY DEF Node
<1>3. \A n \in DOMAIN nodes \ {node.id} : nodes[n].tag # node.tag
  BY DEF Upsert, TagFree
<1>4. ASSUME NEW n \in DOMAIN nodes'
      PROVE  n \in NodeIds /\ nodes'[n] \in Node /\ nodes'[n].id = n /\ Admitted(nodes'[n])
  BY <1>1, <1>2 DEF IInv
<1>5. ASSUME NEW m \in DOMAIN nodes', NEW n \in DOMAIN nodes', nodes'[m].tag = nodes'[n].tag
      PROVE  m = n
  BY <1>1, <1>3, <1>5 DEF IInv
<1>6. \A n \in DOMAIN nodes' : Admitted(nodes[n])' <=> Admitted(nodes'[n])
  BY DEF Admitted
<1> QED BY <1>4, <1>5, <1>6 DEF IInv

LEMMA ReportStep ==
  ASSUME IInv, NEW n \in DOMAIN nodes, NEW report \in Reports, UpdateNodeHealth(n, report)
  PROVE  /\ DOMAIN nodes' = DOMAIN nodes
         /\ \A m \in DOMAIN nodes \ {n} : nodes'[m] = nodes[m]
         /\ nodes'[n] \in Node /\ nodes'[n].id = n /\ nodes'[n].tag = nodes[n].tag
         /\ nodes'[n].protocol = nodes[n].protocol /\ nodes'[n].options = nodes[n].options
         /\ nodes'[n].priority = nodes[n].priority
<1> DEFINE old == nodes[n]
           new == VpnNode(n, Updated(old, report), old.tag, old.protocol, old.options, old.priority)
<1>1. nodes' = [nodes EXCEPT ![n] = new]
  BY DEF UpdateNodeHealth
<1>2. /\ n \in NodeIds /\ old \in Node /\ old.tag \in Tags /\ old.protocol \in Protocols
      /\ old.options \in Options /\ old.priority \in Int
  BY DEF IInv, Node
<1>3. Updated(old, report) \in Health
  BY <1>2, UpdatedTyped
<1>4. /\ new \in Node /\ new.id = n /\ new.tag = old.tag /\ new.protocol = old.protocol
      /\ new.options = old.options /\ new.priority = old.priority
  BY <1>2, <1>3, VpnNodeTyped
<1>5. nodes'[n] = new
  BY <1>1
<1> HIDE DEF new
<1> QED BY <1>1, <1>4, <1>5

LEMMA TableStep ==
  ASSUME IInv, [Next]_vars
  PROVE  IInv'
<1>1. CASE PostNode
  <2>0. PICK n \in NodeIds, tag \in Tags, protocol \in Protocols,
             given \in {"fields", "incomplete", "own"}, admission \in Admissions,
             priority \in Priorities :
          \E options \in PayloadOptions(protocol, given) :
            Upsert(VpnNode(n, [Fresh EXCEPT !.status = admission.status, !.health = admission.health],
                           tag, protocol, options, priority))
    BY <1>1 DEF PostNode
  <2>1. PICK options \in PayloadOptions(protocol, given) :
          Upsert(VpnNode(n, [Fresh EXCEPT !.status = admission.status, !.health = admission.health],
                         tag, protocol, options, priority))
    BY <2>0
  <2> DEFINE row == [Fresh EXCEPT !.status = admission.status, !.health = admission.health]
  <2>2. row \in Health
    <3>1. admission.status \in Statuses /\ admission.health \in Healths
      BY RequestsAssumption
    <3>2. Fresh \in Health
      BY FreshTyped
    <3> QED BY <3>1, <3>2 DEF Health
  <2>3. /\ options \in Options /\ priority \in Int
        /\ protocol = "vless" => options \in {"raw_url", "fields"}
        /\ protocol # "vless" => options \in {"own", "none"}
    BY RequestsAssumption DEF PayloadOptions, Options, Vless
  <2> HIDE DEF row
  <2>4. /\ VpnNode(n, row, tag, protocol, options, priority) \in Node
        /\ Admitted(VpnNode(n, row, tag, protocol, options, priority))
    BY <2>2, <2>3, VpnNodeTyped DEF Admitted
  <2> QED BY <2>1, <2>4, UpsertStep DEF row
<1>2. CASE ImportVless
  <2>1. PICK n \in NodeIds, tag \in Tags, enabled \in BOOLEAN, priority \in Priorities :
          Upsert(VpnNode(n, Enabled(Fresh, enabled), tag, "vless", "raw_url", priority))
    BY <1>2 DEF ImportVless
  <2>2. /\ Enabled(Fresh, enabled) \in Health /\ priority \in Int /\ "raw_url" \in Options
        /\ "vless" \in Protocols
    BY FreshTyped, EnabledTyped, RequestsAssumption DEF Options, Vless, Protocols
  <2> DEFINE row == Enabled(Fresh, enabled)
             protocol == "vless"
             options == "raw_url"
             node == VpnNode(n, row, tag, protocol, options, priority)
  <2> HIDE DEF row
  <2>3. node \in Node /\ node.protocol = "vless" /\ node.options = "raw_url"
    <3>1. row \in Health
      BY <2>2 DEF row
    <3>2. tag \in Tags /\ protocol \in Protocols /\ options \in Options /\ priority \in Int
      BY <2>2
    <3> HIDE DEF protocol, options
    <3>3. node \in Node /\ node.protocol = protocol /\ node.options = options
      BY <3>1, <3>2, VpnNodeTyped
    <3> QED BY <3>3 DEF protocol, options
  <2>4. Upsert(node)
    BY <2>1 DEF row
  <2> HIDE DEF node
  <2> QED BY <2>3, <2>4, UpsertStep DEF Admitted
<1>3. CASE PatchNode
  <2>1. PICK n \in DOMAIN nodes, enabled \in BOOLEAN \cup {None},
             priority \in Priorities \cup {None}, label \in Tags \cup {None} :
          LET node == IF enabled = None THEN nodes[n] ELSE Enabled(nodes[n], enabled)
          IN  Upsert([node EXCEPT !.priority = Given(priority, @),
                                  !.tag = IF node.options \in Vless THEN Given(label, @) ELSE @])
    BY <1>3 DEF PatchNode
  <2> DEFINE node == IF enabled = None THEN nodes[n] ELSE Enabled(nodes[n], enabled)
             tag == IF node.options \in Vless THEN Given(label, node.tag) ELSE node.tag
             new == [node EXCEPT !.priority = Given(priority, node.priority), !.tag = tag]
  <2>2. nodes[n] \in Node /\ Admitted(nodes[n])
    BY DEF IInv
  <2>3. node \in Node /\ node.protocol = nodes[n].protocol /\ node.options = nodes[n].options
    BY <2>2, EnabledTyped
  <2>4. Given(priority, node.priority) \in Int /\ tag \in Tags
    <3>1. node.priority \in Int /\ node.tag \in Tags
      BY <2>3 DEF Node
    <3> HIDE DEF node
    <3>2. Given(priority, node.priority) \in Int
      BY <3>1, RequestsAssumption DEF Given
    <3>3. tag \in Tags
      BY <3>1 DEF Given
    <3> QED BY <3>2, <3>3
  <2>5. Upsert(new)
    BY <2>1
  <2> HIDE DEF node, tag
  <2>6. new \in Node /\ new.protocol = node.protocol /\ new.options = node.options
    BY <2>3, <2>4 DEF Node
  <2> HIDE DEF new
  <2>7. Admitted(new)
    BY <2>2, <2>3, <2>6 DEF Admitted
  <2> QED BY <2>5, <2>6, <2>7, UpsertStep
<1>4. CASE DisableNode
  <2>1. PICK n \in DOMAIN nodes : Upsert(Enabled(nodes[n], FALSE))
    BY <1>4 DEF DisableNode
  <2>2. nodes[n] \in Node /\ Admitted(nodes[n])
    BY DEF IInv
  <2>3. Enabled(nodes[n], FALSE) \in Node /\ Admitted(Enabled(nodes[n], FALSE))
    BY <2>2, EnabledTyped DEF Admitted
  <2> QED BY <2>1, <2>3, UpsertStep
<1>5. ASSUME NEW n \in DOMAIN nodes, NEW report \in Reports, UpdateNodeHealth(n, report)
      PROVE  IInv'
  <2>1. /\ DOMAIN nodes' = DOMAIN nodes
        /\ \A m \in DOMAIN nodes \ {n} : nodes'[m] = nodes[m]
        /\ nodes'[n] \in Node /\ nodes'[n].id = n /\ nodes'[n].tag = nodes[n].tag
        /\ nodes'[n].protocol = nodes[n].protocol /\ nodes'[n].options = nodes[n].options
    BY <1>5, ReportStep
  <2>2. \A m \in DOMAIN nodes' : m \in NodeIds /\ nodes'[m] \in Node /\ nodes'[m].id = m
    BY <2>1 DEF IInv
  <2>3. \A m \in DOMAIN nodes' : /\ nodes'[m].tag = nodes[m].tag
                                 /\ nodes'[m].protocol = nodes[m].protocol
                                 /\ nodes'[m].options = nodes[m].options
    BY <2>1
  <2> QED BY <2>1, <2>2, <2>3 DEF IInv, Admitted
<1>6. CASE ReadConfig \/ UNCHANGED vars
  BY <1>6 DEF ReadConfig, vars, IInv, Admitted
<1> QED BY <1>1, <1>2, <1>3, <1>4, <1>5, <1>6 DEF Next

LEMMA DemoTyped ==
  ASSUME NEW id \in [1..4 -> NodeIds], \A i \in 1..4 : DemoTags[i] \in Tags, NEW i \in 1..4
  PROVE  /\ DemoNodes(id)[i] \in Node /\ DemoNodes(id)[i].id = id[i]
         /\ DemoNodes(id)[i].tag = DemoTags[i] /\ Admitted(DemoNodes(id)[i])
<1> DEFINE row(k) == CASE k = 1 -> Measured("active", "healthy", 98, 9900, 55)
                       [] k = 2 -> Measured("active", "healthy", 92, 9700, 70)
                       [] k = 3 -> Measured("draining", "healthy", 70, 9200, 140)
                       [] OTHER -> Measured("disabled", "disabled", 10, 1000, 350)
           protocol(k) == IF k = 2 THEN "shadowsocks" ELSE "vless"
           options(k) == IF k = 2 THEN "own" ELSE "fields"
           node(k) == VpnNode(id[k], row(k), DemoTags[k], protocol(k), options(k), 10 * k)
<1>1. DemoNodes(id) = <<node(1), node(2), node(3), node(4)>>
  BY DEF DemoNodes
<1>2. DemoNodes(id)[i] = node(i)
  <2> HIDE DEF node
  <2>1. i \in {1, 2, 3, 4}
    OBVIOUS
  <2> QED BY <1>1, <2>1
<1>3. row(i) \in Health
  BY DemoAssumption DEF Measured, Health, Statuses, Healths, Rates
<1>4. /\ id[i] \in NodeIds /\ DemoTags[i] \in Tags /\ protocol(i) \in Protocols
      /\ options(i) \in Options /\ 10 * i \in Int
  BY DEF Protocols, Options, Vless
<1>5. (protocol(i) = "vless" => options(i) = "fields") /\ (protocol(i) # "vless" => options(i) = "own")
  OBVIOUS
<1> HIDE DEF row, protocol, options
<1> QED BY <1>2, <1>3, <1>4, <1>5, VpnNodeTyped DEF Admitted

LEMMA TableInit == Init => IInv
<1> SUFFICES ASSUME Init PROVE IInv
  OBVIOUS
<1>1. CASE nodes \in EnvTables
  <2>0. PICK ids \in SUBSET NodeIds \ {{}} :
          nodes \in {[n \in ids |-> EnvNode(n, tag[n], enabled[n], priority)] :
                       tag \in Injection(ids, EnvTags), enabled \in [ids -> BOOLEAN],
                       priority \in Priorities}
    BY <1>1 DEF EnvTables
  <2>1. PICK tag \in Injection(ids, EnvTags), enabled \in [ids -> BOOLEAN], priority \in Priorities :
          nodes = [n \in ids |-> EnvNode(n, tag[n], enabled[n], priority)]
    BY <2>0
  <2>2. ASSUME NEW n \in ids
        PROVE  /\ nodes[n] \in Node /\ nodes[n].id = n /\ nodes[n].tag = tag[n]
               /\ Admitted(nodes[n])
    <3>1. tag[n] \in Tags
      BY TagsAssumption DEF Injection
    <3>2. Enabled(Fresh, enabled[n]) \in Health /\ priority \in Int
      BY FreshTyped, EnabledTyped, RequestsAssumption
    <3>3. nodes[n] = VpnNode(n, Enabled(Fresh, enabled[n]), tag[n], "vless", "fields", priority)
      BY <2>1 DEF EnvNode
    <3>4. "vless" \in Protocols /\ "fields" \in Options
      BY DEF Protocols, Options, Vless
    <3> QED BY <3>1, <3>2, <3>3, <3>4, VpnNodeTyped DEF Admitted
  <2>3. \A m, n \in ids : tag[m] = tag[n] => m = n
    BY DEF Injection, IsInjective
  <2> QED BY <2>1, <2>2, <2>3 DEF IInv
<1>2. CASE nodes \in DemoTables
  <2>1. PICK id \in Injection(1..4, NodeIds) :
          nodes = [n \in Range(id) |-> DemoNodes(id)[CHOOSE i \in 1..4 : id[i] = n]]
    BY <1>2 DEF DemoTables
  <2>2. /\ \A i \in 1..4 : DemoTags[i] \in Tags
        /\ \A i, j \in 1..4 : DemoTags[i] = DemoTags[j] => i = j
    <3>1. DemoTags \in [1..4 -> Tags]
      BY TagsAssumption, LenProperties
    <3> QED BY <3>1, TagsAssumption DEF IsInjective
  <2>3. /\ id \in [1..4 -> NodeIds] /\ Range(id) = {id[i] : i \in 1..4}
        /\ \A i, j \in 1..4 : id[i] = id[j] => i = j
    BY DEF Injection, IsInjective, Range
  <2>4. ASSUME NEW i \in 1..4
        PROVE  /\ DemoNodes(id)[i] \in Node /\ DemoNodes(id)[i].id = id[i]
               /\ DemoNodes(id)[i].tag = DemoTags[i] /\ Admitted(DemoNodes(id)[i])
    BY <2>2, <2>3, DemoTyped
  <2>5. \A i \in 1..4 : nodes[id[i]] = DemoNodes(id)[i]
    <3> SUFFICES ASSUME NEW i \in 1..4 PROVE nodes[id[i]] = DemoNodes(id)[i]
      OBVIOUS
    <3>1. (CHOOSE j \in 1..4 : id[j] = id[i]) = i
      BY <2>3
    <3>2. nodes[id[i]] = DemoNodes(id)[CHOOSE j \in 1..4 : id[j] = id[i]]
      BY <2>1, <2>3
    <3> QED BY <3>1, <3>2
  <2>6. DOMAIN nodes = {id[i] : i \in 1..4}
    BY <2>1, <2>3
  <2> QED BY <2>2, <2>3, <2>4, <2>5, <2>6 DEF IInv
<1> QED BY <1>1, <1>2 DEF Init

(* Every table the requests can make of any start is of this kind.          *)
THEOREM TableAdmitted == Spec => []IInv
  BY TableInit, TableStep, PTL DEF Spec

-----------------------------------------------------------------------------
(* The rows can be sorted: they are finitely many, having different tags,   *)
(* and for the same reason no two have the same key.                        *)
LEMMA TagRanks ==
  /\ \A tag \in Tags : TagRank(tag) \in 1..Len(TagOrder)
  /\ \A tag, other \in Tags : TagRank(tag) = TagRank(other) => tag = other
  /\ Len(TagOrder) \in Nat
<1>1. DOMAIN TagOrder = 1..Len(TagOrder) /\ Len(TagOrder) \in Nat
  BY TagsAssumption, LenProperties
<1>2. \A tag \in Tags : \E i \in DOMAIN TagOrder : TagOrder[i] = tag
  BY DEF Tags, ToSet
<1>3. \A tag \in Tags : TagRank(tag) \in DOMAIN TagOrder /\ TagOrder[TagRank(tag)] = tag
  BY <1>2 DEF TagRank
<1> QED BY <1>1, <1>3

LEMMA RowsKnown ==
  ASSUME IInv
  PROVE  /\ \A r \in Rows : /\ r \in Node /\ Admitted(r) /\ r.tag \in Tags
                            /\ r.id \in DOMAIN nodes /\ nodes[r.id] = r
         /\ \A r, s \in Rows : r.tag = s.tag => r = s
         /\ IsFiniteSet(Rows)
<1>1. \A r \in Rows : /\ r \in Node /\ Admitted(r) /\ r.id \in DOMAIN nodes /\ nodes[r.id] = r
  BY DEF IInv, Rows
<1>2. \A r, s \in Rows : r.tag = s.tag => r = s
  BY DEF IInv, Rows
<1>3. \A r \in Rows : r.tag \in Tags
  BY <1>1 DEF Node
<1>4. IsFiniteSet(Rows)
  <2> DEFINE rank == [r \in Rows |-> TagRank(r.tag)]
  <2>1. rank \in [Rows -> 1..Len(TagOrder)]
    BY <1>3, TagRanks
  <2>2. \A r, s \in Rows : rank[r] = rank[s] => r = s
    BY <1>2, <1>3, TagRanks
  <2>3. rank \in Injection(Rows, 1..Len(TagOrder))
    <3> HIDE DEF rank
    <3> QED BY <2>1, <2>2 DEF Injection, IsInjective
  <2>4. IsFiniteSet(1..Len(TagOrder))
    BY TagRanks, FS_Interval
  <2> HIDE DEF rank
  <2> QED BY <2>3, <2>4, FS_Injection
<1> QED BY <1>1, <1>2, <1>3, <1>4

Age(node) == IF Known(node.latency) THEN node.latency ELSE 10000
ScoreLess(r, s) ==
  \/ node_score(s) < node_score(r)
  \/ node_score(s) = node_score(r) /\ r.priority < s.priority
  \/ node_score(s) = node_score(r) /\ r.priority = s.priority /\ Age(r) < Age(s)
  \/ /\ node_score(s) = node_score(r) /\ r.priority = s.priority /\ Age(r) = Age(s)
     /\ TagRank(r.tag) < TagRank(s.tag)
PriorityLess(r, s) ==
  \/ r.priority < s.priority
  \/ r.priority = s.priority /\ s.score < r.score
  \/ r.priority = s.priority /\ s.score = r.score /\ TagRank(r.tag) < TagRank(s.tag)

LEMMA MeasuresAreInts == (\A k \in 0..100 : k \in Int) /\ (\A k \in Rates : k \in Int)
  BY DEF Rates

LEMMA KeyParts ==
  ASSUME NEW r \in Node
  PROVE  /\ node_score(r) \in Int /\ r.priority \in Int /\ Age(r) \in Int /\ r.score \in Int
         /\ TagRank(r.tag) \in Int /\ r.tag \in Tags
         /\ r.rate \in Int /\ r.latency \in Latencies \cup {None}
<1>1. /\ r.priority \in Int /\ r.score \in 0..100 /\ r.rate \in Rates
      /\ r.latency \in Latencies \cup {None} /\ r.tag \in Tags
  BY DEF Node
<1>2. Known(r.latency) => r.latency \in Nat
  <2>1. r.latency \in Latencies => r.latency \in Nat
    BY LatenciesAssumption
  <2>2. Known(r.latency) => r.latency # None
    BY DEF Known
  <2> QED BY <1>1, <2>1, <2>2
<1>3. Age(r) \in Nat
  <2>1. CASE Known(r.latency)
    BY <1>2, <2>1 DEF Age
  <2>2. CASE ~Known(r.latency)
    BY <2>2 DEF Age
  <2> QED BY <2>1, <2>2
<1>4. Penalty(r) \in Int
  <2> DEFINE age == IF Known(r.latency) THEN Least(r.latency, 1000) ELSE 0
  <2>1. age \in Int
    <3>1. CASE Known(r.latency)
      <4> DEFINE l == r.latency
      <4>1. l \in Nat
        BY <1>2, <3>1
      <4> HIDE DEF l
      <4>2. Least(l, 1000) \in Int
        BY <4>1 DEF Least
      <4> QED BY <3>1, <4>2 DEF l
    <3>2. CASE ~Known(r.latency)
      BY <3>2
    <3> QED BY <3>1, <3>2
  <2>2. Penalty(r) = 1000 * age + 2000 * r.priority
    BY DEF Penalty
  <2> DEFINE p == r.priority
  <2>3. p \in Int
    BY <1>1
  <2> HIDE DEF age, p
  <2>4. 1000 * age + 2000 * p \in Int
    BY <2>1, <2>3
  <2> QED BY <2>2, <2>4 DEF p
<1>5. Quality(r) \in Int
  <2> DEFINE q == r.score
             x == r.rate
  <2>1. q \in Int /\ x \in Int
    <3>1. q \in 0..100 /\ x \in Rates
      BY <1>1
    <3> HIDE DEF q, x
    <3> QED BY <3>1, MeasuresAreInts
  <2> HIDE DEF q, x
  <2>2. 5500 * q + 35 * x + 100000 \in Int
    BY <2>1
  <2> QED BY <2>2 DEF q, x, Quality
<1>6. node_score(r) \in Nat
  <2> DEFINE d == Quality(r) - Penalty(r)
  <2>1. d \in Int
    BY <1>4, <1>5
  <2> HIDE DEF d
  <2>2. Clamped(d) \in Nat
    BY <2>1 DEF Clamped
  <2> QED BY <2>2 DEF d, node_score
<1>7. TagRank(r.tag) \in Int
  <2> DEFINE rank == TagRank(r.tag)
  <2>1. rank \in 1..Len(TagOrder) /\ Len(TagOrder) \in Nat
    BY <1>1, TagRanks
  <2> HIDE DEF rank
  <2>2. rank \in Int
    BY <2>1
  <2> QED BY <2>2 DEF rank
<1>8. r.score \in Int /\ r.rate \in Int
  BY <1>1, MeasuresAreInts, Zenon
<1>9. node_score(r) \in Int /\ Age(r) \in Int
  BY <1>3, <1>6
<1> QED BY <1>1, <1>7, <1>8, <1>9

LEMMA ScoreOrder ==
  ASSUME NEW r \in Node, NEW s \in Node
  PROVE  Precedes(ScoreKey(r), ScoreKey(s)) <=> ScoreLess(r, s)
<1> DEFINE k == ScoreKey(r)
           l == ScoreKey(s)
<1>1. /\ DOMAIN k = 1..4 /\ k[1] = -node_score(r) /\ k[2] = r.priority /\ k[3] = Age(r)
      /\ k[4] = TagRank(r.tag)
  BY DEF ScoreKey, Age
<1>2. /\ l[1] = -node_score(s) /\ l[2] = s.priority /\ l[3] = Age(s) /\ l[4] = TagRank(s.tag)
  BY DEF ScoreKey, Age
<1>3. /\ -node_score(r) < -node_score(s) <=> node_score(s) < node_score(r)
      /\ -node_score(r) = -node_score(s) <=> node_score(s) = node_score(r)
  <2> DEFINE x == node_score(r)
             y == node_score(s)
  <2>1. x \in Int /\ y \in Int
    BY KeyParts
  <2> HIDE DEF x, y
  <2>2. (-x < -y <=> y < x) /\ (-x = -y <=> y = x)
    BY <2>1
  <2> QED BY <2>2 DEF x, y
<1> HIDE DEF k, l
<1>4. Precedes(k, l) <=> \/ k[1] < l[1]
                         \/ k[1] = l[1] /\ k[2] < l[2]
                         \/ k[1] = l[1] /\ k[2] = l[2] /\ k[3] < l[3]
                         \/ k[1] = l[1] /\ k[2] = l[2] /\ k[3] = l[3] /\ k[4] < l[4]
  BY <1>1, Precedes4
<1> QED BY <1>1, <1>2, <1>3, <1>4, Zenon DEF k, l, ScoreLess

LEMMA PriorityOrder ==
  ASSUME NEW r \in Node, NEW s \in Node
  PROVE  Precedes(PriorityKey(r), PriorityKey(s)) <=> PriorityLess(r, s)
<1> DEFINE k == PriorityKey(r)
           l == PriorityKey(s)
<1>1. DOMAIN k = 1..3 /\ k[1] = r.priority /\ k[2] = -r.score /\ k[3] = TagRank(r.tag)
  BY DEF PriorityKey
<1>2. l[1] = s.priority /\ l[2] = -s.score /\ l[3] = TagRank(s.tag)
  BY DEF PriorityKey
<1>3. (-r.score < -s.score <=> s.score < r.score) /\ (-r.score = -s.score <=> s.score = r.score)
  <2> DEFINE x == r.score
             y == s.score
  <2>1. x \in Int /\ y \in Int
    BY KeyParts
  <2> HIDE DEF x, y
  <2>2. (-x < -y <=> y < x) /\ (-x = -y <=> y = x)
    BY <2>1
  <2> QED BY <2>2 DEF x, y
<1> HIDE DEF k, l
<1>4. Precedes(k, l) <=> \/ k[1] < l[1]
                         \/ k[1] = l[1] /\ k[2] < l[2]
                         \/ k[1] = l[1] /\ k[2] = l[2] /\ k[3] < l[3]
  BY <1>1, Precedes3
<1> QED BY <1>1, <1>2, <1>3, <1>4, Zenon DEF k, l, PriorityLess

LEMMA ScoresOrder ==
  ASSUME IInv, NEW S \in SUBSET Rows
  PROVE  Orders([r \in S |-> ScoreKey(r)], S)
<1> DEFINE key == [r \in S |-> ScoreKey(r)]
           x(n) == node_score(n)
           p(n) == n.priority
           g(n) == Age(n)
           t(n) == TagRank(n.tag)
<1>1. \A r \in S : /\ r \in Node /\ x(r) \in Int /\ p(r) \in Int /\ g(r) \in Int
                   /\ t(r) \in Int
  BY RowsKnown, KeyParts
<1>2. \A r, s \in S : t(r) = t(s) => r = s
  BY RowsKnown, TagRanks
<1>3. \A r, s \in S : Precedes(key[r], key[s]) <=>
                        \/ x(s) < x(r)
                        \/ x(s) = x(r) /\ p(r) < p(s)
                        \/ x(s) = x(r) /\ p(r) = p(s) /\ g(r) < g(s)
                        \/ x(s) = x(r) /\ p(r) = p(s) /\ g(r) = g(s) /\ t(r) < t(s)
  BY <1>1, ScoreOrder DEF ScoreLess
<1> HIDE DEF key, x, p, g, t
<1>4. \A r \in S : ~Precedes(key[r], key[r])
  BY <1>1, <1>3
<1>5. ASSUME NEW r \in S, NEW s \in S, NEW u \in S,
             Precedes(key[r], key[s]), Precedes(key[s], key[u])
      PROVE  Precedes(key[r], key[u])
  <2>1. /\ x(r) \in Int /\ p(r) \in Int /\ g(r) \in Int /\ t(r) \in Int
        /\ x(s) \in Int /\ p(s) \in Int /\ g(s) \in Int /\ t(s) \in Int
        /\ x(u) \in Int /\ p(u) \in Int /\ g(u) \in Int /\ t(u) \in Int
    BY <1>1
  <2>2. /\ \/ x(s) < x(r)
           \/ x(s) = x(r) /\ p(r) < p(s)
           \/ x(s) = x(r) /\ p(r) = p(s) /\ g(r) < g(s)
           \/ x(s) = x(r) /\ p(r) = p(s) /\ g(r) = g(s) /\ t(r) < t(s)
        /\ \/ x(u) < x(s)
           \/ x(u) = x(s) /\ p(s) < p(u)
           \/ x(u) = x(s) /\ p(s) = p(u) /\ g(s) < g(u)
           \/ x(u) = x(s) /\ p(s) = p(u) /\ g(s) = g(u) /\ t(s) < t(u)
    BY <1>3, <1>5
  <2>3. \/ x(u) < x(r)
        \/ x(u) = x(r) /\ p(r) < p(u)
        \/ x(u) = x(r) /\ p(r) = p(u) /\ g(r) < g(u)
        \/ x(u) = x(r) /\ p(r) = p(u) /\ g(r) = g(u) /\ t(r) < t(u)
    BY ONLY <2>1, <2>2
  <2> QED BY <1>3, <2>3
<1>6. ASSUME NEW r \in S, NEW s \in S, r # s
      PROVE  Precedes(key[r], key[s]) \/ Precedes(key[s], key[r])
  <2>1. /\ x(r) \in Int /\ p(r) \in Int /\ g(r) \in Int /\ t(r) \in Int
        /\ x(s) \in Int /\ p(s) \in Int /\ g(s) \in Int /\ t(s) \in Int
    BY <1>1
  <2>2. t(r) # t(s)
    BY <1>2, <1>6
  <2> QED BY <1>3, <2>1, <2>2
<1>7. Orders(key, S)
  BY <1>4, <1>5, <1>6 DEF Orders
<1> QED BY <1>7 DEF key

LEMMA PrioritiesOrder ==
  ASSUME IInv, NEW S \in SUBSET Rows
  PROVE  Orders([r \in S |-> PriorityKey(r)], S)
<1> DEFINE key == [r \in S |-> PriorityKey(r)]
           x(n) == n.score
           p(n) == n.priority
           t(n) == TagRank(n.tag)
<1>1. \A r \in S : r \in Node /\ x(r) \in Int /\ p(r) \in Int /\ t(r) \in Int
  BY RowsKnown, KeyParts
<1>2. \A r, s \in S : t(r) = t(s) => r = s
  BY RowsKnown, TagRanks
<1>3. \A r, s \in S : Precedes(key[r], key[s]) <=>
                        \/ p(r) < p(s)
                        \/ p(r) = p(s) /\ x(s) < x(r)
                        \/ p(r) = p(s) /\ x(s) = x(r) /\ t(r) < t(s)
  BY <1>1, PriorityOrder DEF PriorityLess
<1> HIDE DEF key, x, p, t
<1>4. \A r \in S : ~Precedes(key[r], key[r])
  BY <1>1, <1>3
<1>5. ASSUME NEW r \in S, NEW s \in S, NEW u \in S,
             Precedes(key[r], key[s]), Precedes(key[s], key[u])
      PROVE  Precedes(key[r], key[u])
  <2>1. /\ x(r) \in Int /\ p(r) \in Int /\ t(r) \in Int
        /\ x(s) \in Int /\ p(s) \in Int /\ t(s) \in Int
        /\ x(u) \in Int /\ p(u) \in Int /\ t(u) \in Int
    BY <1>1
  <2>2. /\ \/ p(r) < p(s)
           \/ p(r) = p(s) /\ x(s) < x(r)
           \/ p(r) = p(s) /\ x(s) = x(r) /\ t(r) < t(s)
        /\ \/ p(s) < p(u)
           \/ p(s) = p(u) /\ x(u) < x(s)
           \/ p(s) = p(u) /\ x(u) = x(s) /\ t(s) < t(u)
    BY <1>3, <1>5
  <2>3. \/ p(r) < p(u)
        \/ p(r) = p(u) /\ x(u) < x(r)
        \/ p(r) = p(u) /\ x(u) = x(r) /\ t(r) < t(u)
    BY ONLY <2>1, <2>2
  <2> QED BY <1>3, <2>3
<1>6. ASSUME NEW r \in S, NEW s \in S, r # s
      PROVE  Precedes(key[r], key[s]) \/ Precedes(key[s], key[r])
  <2>1. /\ x(r) \in Int /\ p(r) \in Int /\ t(r) \in Int
        /\ x(s) \in Int /\ p(s) \in Int /\ t(s) \in Int
    BY <1>1
  <2>2. t(r) # t(s)
    BY <1>2, <1>6
  <2> QED BY <1>3, <2>1, <2>2
<1>7. Orders(key, S)
  BY <1>4, <1>5, <1>6 DEF Orders
<1> QED BY <1>7 DEF key

-----------------------------------------------------------------------------
(* What is chosen: of the usable rows, those that fewer than the limit      *)
(* precede; of the VLESS rows, all the usable ones.                         *)
UsableRows == {r \in Rows : Usable(r)}
ByScore == [r \in UsableRows |-> ScoreKey(r)]
LinkRows == {r \in Rows : r.protocol = "vless" /\ Usable(r) /\ r.options \in Vless}
ByPriority == [r \in LinkRows |-> PriorityKey(r)]

LEMMA ListLen ==
  ASSUME NEW S, NEW n \in Nat, NEW f \in [1..n -> S]
  PROVE  f \in Seq(S) /\ Len(f) = n /\ DOMAIN f = 1..n
<1>1. f \in Seq(S)
  BY SeqDef
<1>2. Len(f) \in Nat /\ 1..Len(f) = 1..n
  BY <1>1, LenProperties
<1> DEFINE l == Len(f)
<1>3. l \in Nat /\ 1..l = 1..n
  BY <1>2
<1> HIDE DEF l
<1>4. \A i \in Int : i \in 1..l <=> i \in 1..n
  BY <1>3
<1>5. l = n
  BY <1>3, <1>4
<1> QED BY <1>1, <1>5 DEF l

LEMMA PreferredRows ==
  ASSUME IInv
  PROVE  LET k == Least(Cardinality(UsableRows), PreferredLimit)
         IN  /\ Cardinality(UsableRows) \in Nat /\ IsFiniteSet(UsableRows)
             /\ k \in Nat /\ (k = 0 <=> UsableRows = {})
             /\ Preferred \in Seq(UsableRows) /\ Preferred \in [1..k -> UsableRows]
             /\ Len(Preferred) = k /\ DOMAIN Preferred = 1..k
             /\ \A i, j \in 1..k : Preferred[i] = Preferred[j] => i = j
             /\ \A r \in UsableRows :
                  (\E i \in 1..k : Preferred[i] = r) <=>
                    Cardinality(Before(r, UsableRows, ByScore)) < PreferredLimit
<1> DEFINE n == Cardinality(UsableRows)
           k == Least(n, PreferredLimit)
           sorted == SortedBy(UsableRows, ByScore)
           place(r) == Cardinality(Before(r, UsableRows, ByScore))
<1>1. UsableRows \subseteq Rows /\ IsFiniteSet(Rows)
  BY RowsKnown DEF UsableRows
<1>2. IsFiniteSet(UsableRows)
  BY <1>1, FS_Subset
<1>3. Orders(ByScore, UsableRows)
  BY <1>1, ScoresOrder DEF ByScore
<1>4. /\ n \in Nat /\ sorted \in [1..n -> UsableRows]
      /\ \A i, j \in 1..n : sorted[i] = sorted[j] => i = j
      /\ \A r \in UsableRows : place(r) \in 0..(n - 1) /\ sorted[place(r) + 1] = r
      /\ \A i \in 1..n : place(sorted[i]) = i - 1
  BY <1>2, <1>3, Sorted
<1>5. n = 0 <=> UsableRows = {}
  BY <1>2, FS_EmptySet
<1>6. Preferred = SubSeq(sorted, 1, Least(Len(sorted), PreferredLimit))
  BY DEF Preferred, choose_preferred_nodes, sort_nodes_by_score, UsableRows, ByScore
<1> HIDE DEF n, sorted, place
<1>7. Len(sorted) = n
  BY <1>4, ListLen
<1>8. PreferredLimit \in Nat \ {0}
  BY LimitAssumption
<1>9. k \in Nat /\ k <= n /\ k <= PreferredLimit /\ (k = n \/ k = PreferredLimit)
  BY <1>4, <1>8 DEF Least
<1>10. Preferred = SubSeq(sorted, 1, k)
  BY <1>6, <1>7
<1> HIDE DEF k
<1>11. \A i \in 1..k : i \in 1..n /\ sorted[i] \in UsableRows
  BY <1>4, <1>9
<1>12. /\ Preferred \in Seq(UsableRows)
       /\ Len(Preferred) = IF 1 <= k THEN k - 1 + 1 ELSE 0
       /\ \A i \in 1..(k - 1 + 1) : Preferred[i] = sorted[1 + i - 1]
  BY <1>9, <1>10, <1>11, SubSeqProperties
<1>13. Len(Preferred) = k /\ \A i \in 1..k : Preferred[i] = sorted[i]
  BY <1>9, <1>12
<1>14. DOMAIN Preferred = 1..k /\ Preferred \in [1..k -> UsableRows]
  BY <1>12, <1>13, LenProperties
<1>15. \A i, j \in 1..k : Preferred[i] = Preferred[j] => i = j
  BY <1>4, <1>11, <1>13
<1>16. ASSUME NEW r \in UsableRows
       PROVE  (\E i \in 1..k : Preferred[i] = r) <=> place(r) < PreferredLimit
  <2>1. place(r) \in 0..(n - 1) /\ sorted[place(r) + 1] = r
    BY <1>4
  <2>2. ASSUME NEW i \in 1..k, Preferred[i] = r PROVE place(r) < PreferredLimit
    <3>1. place(r) = i - 1
      BY <1>4, <1>11, <1>13, <2>2
    <3> QED BY <1>8, <1>9, <3>1
  <2>3. ASSUME place(r) < PreferredLimit PROVE \E i \in 1..k : Preferred[i] = r
    <3>1. place(r) + 1 \in 1..k
      BY <1>4, <1>8, <1>9, <2>1, <2>3
    <3> QED BY <1>13, <2>1, <3>1
  <2> QED BY <2>2, <2>3
<1>17. k = 0 <=> UsableRows = {}
  BY <1>4, <1>5, <1>8, <1>9
<1> QED BY <1>2, <1>4, <1>9, <1>12, <1>13, <1>14, <1>15, <1>16, <1>17 DEF k, n, place

LEMMA LinksRows ==
  ASSUME IInv
  PROVE  LET k == Cardinality(LinkRows)
         IN  /\ k \in Nat /\ IsFiniteSet(LinkRows) /\ (k = 0 <=> LinkRows = {})
             /\ Links \in Seq(LinkRows) /\ Len(Links) = k /\ DOMAIN Links = 1..k
             /\ \A r \in LinkRows : \E i \in 1..k : Links[i] = r
             /\ \A i \in 1..k : Links[i] \in LinkRows
<1> DEFINE k == Cardinality(LinkRows)
           place(r) == Cardinality(Before(r, LinkRows, ByPriority))
<1>1. LinkRows \subseteq Rows /\ IsFiniteSet(Rows)
  BY RowsKnown DEF LinkRows
<1>2. IsFiniteSet(LinkRows)
  BY <1>1, FS_Subset
<1>3. Orders(ByPriority, LinkRows)
  BY <1>1, PrioritiesOrder DEF ByPriority
<1>4. Links = SortedBy(LinkRows, ByPriority)
  BY DEF Links, active_vless_nodes, LinkRows, ByPriority
<1>5. /\ k \in Nat /\ Links \in [1..k -> LinkRows]
      /\ \A r \in LinkRows : place(r) \in 0..(k - 1) /\ Links[place(r) + 1] = r
  BY <1>2, <1>3, <1>4, Sorted
<1>6. k = 0 <=> LinkRows = {}
  BY <1>2, FS_EmptySet
<1> HIDE DEF k, place
<1>7. Links \in Seq(LinkRows) /\ Len(Links) = k /\ DOMAIN Links = 1..k
  BY <1>5, ListLen
<1>8. ASSUME NEW r \in LinkRows PROVE \E i \in 1..k : Links[i] = r
  <2>1. place(r) + 1 \in 1..k
    BY <1>5
  <2> QED BY <1>5, <2>1
<1>9. \A i \in 1..k : Links[i] \in LinkRows
  BY <1>5
<1> QED BY <1>2, <1>5, <1>6, <1>7, <1>8, <1>9 DEF k

-----------------------------------------------------------------------------
(* The subscription.                                                        *)
LEMMA LinkedWhenAdmitted ==
  ASSUME IInv
  PROVE  UsableNodesAreLinked
<1> DEFINE usable == {n \in DOMAIN nodes : nodes[n].protocol = "vless" /\ Usable(nodes[n])}
           k == Cardinality(LinkRows)
           id == [r \in LinkRows |-> r.id]
<1>1. \A r \in Rows : /\ r.id \in DOMAIN nodes /\ nodes[r.id] = r
                      /\ r.protocol = "vless" => r.options \in {"raw_url", "fields"}
  BY RowsKnown DEF Admitted
<1>2. \A n \in DOMAIN nodes : nodes[n] \in Rows /\ nodes[n].id = n
  BY DEF Rows, IInv
<1>3. \A r \in LinkRows : r.id \in usable /\ nodes[r.id] = r /\ Linkable(r)
  BY <1>1 DEF LinkRows, Linkable
<1>4. \A n \in usable : nodes[n] \in LinkRows /\ nodes[n].id = n
  BY <1>1, <1>2 DEF LinkRows, Vless
<1>5. /\ k \in Nat /\ IsFiniteSet(LinkRows) /\ (k = 0 <=> LinkRows = {})
      /\ Links \in Seq(LinkRows) /\ Len(Links) = k /\ DOMAIN Links = 1..k
      /\ \A r \in LinkRows : \E i \in 1..k : Links[i] = r
      /\ \A i \in 1..k : Links[i] \in LinkRows
  BY LinksRows
<1> HIDE DEF usable, k
<1>6. SubscriptionServed <=> usable # {}
  <2>1. Links = <<>> <=> k = 0
    BY <1>5, EmptySeq
  <2>2. \A i \in DOMAIN Links : Linkable(Links[i])
    BY <1>3, <1>5
  <2>3. usable = {} <=> LinkRows = {}
    BY <1>3, <1>4
  <2> QED BY <1>5, <2>1, <2>2, <2>3 DEF SubscriptionServed
<1>7. {Links[i].id : i \in DOMAIN Links} = usable
  BY <1>3, <1>4, <1>5
<1>8. Cardinality(usable) = k
  <2>1. id \in [LinkRows -> usable]
    BY <1>3
  <2>2. \A r, s \in LinkRows : id[r] = id[s] => r = s
    BY <1>3
  <2>3. \A n \in usable : \E r \in LinkRows : id[r] = n
    BY <1>4
  <2> HIDE DEF id
  <2>4. id \in Bijection(LinkRows, usable)
    BY <2>1, <2>2, <2>3 DEF Bijection, Injection, Surjection, IsInjective
  <2> QED BY <1>5, <2>4, FS_Bijection DEF ExistsBijection, k
<1> QED BY <1>5, <1>6, <1>7, <1>8 DEF UsableNodesAreLinked, usable

(* A usable VLESS node is in every subscription, once, and no request can   *)
(* take the subscription from the clients while there is one.               *)
THEOREM NodesAreLinked == Spec => []UsableNodesAreLinked
<1>1. IInv => UsableNodesAreLinked
  BY LinkedWhenAdmitted
<1> QED BY <1>1, TableAdmitted, PTL

-----------------------------------------------------------------------------
(* The rules, written out.                                                  *)
LEMMA Joined ==
  ASSUME NEW S, NEW m \in Nat, NEW n \in Nat, NEW s \in Seq(S), NEW t \in Seq(S), NEW u \in Seq(S),
         Len(s) = m, Len(t) = n, Len(u) = m + n,
         \A i \in 1..(m + n) : u[i] = IF i <= m THEN s[i] ELSE t[i - m]
  PROVE  s \o t = u
<1> DEFINE st == s \o t
<1>1. /\ st \in Seq(S) /\ Len(st) = m + n
      /\ \A i \in 1..(m + n) : st[i] = IF i <= m THEN s[i] ELSE t[i - m]
  BY ConcatProperties
<1> HIDE DEF st
<1>2. st = u
  BY <1>1, SeqEqual
<1> QED BY <1>2 DEF st

LEMMA Join2 ==
  ASSUME NEW a, NEW b
  PROVE  <<a>> \o <<b>> = <<a, b>>
<1> DEFINE S == {a, b}
           s == <<a>>
           t == <<b>>
           u == <<a, b>>
<1>1. s \in Seq(S) /\ t \in Seq(S) /\ u \in Seq(S)
  OBVIOUS
<1>2. Len(s) = 1 /\ Len(t) = 1 /\ Len(u) = 1 + 1
  OBVIOUS
<1>3. \A i \in 1..(1 + 1) : u[i] = IF i <= 1 THEN s[i] ELSE t[i - 1]
  OBVIOUS
<1>4. 1 \in Nat /\ 1 \in Nat
  OBVIOUS
<1> HIDE DEF S, s, t, u
<1>5. s \o t = u
  BY <1>1, <1>2, <1>3, <1>4, Joined, Zenon
<1> QED BY <1>5 DEF s, t, u

LEMMA Join3 ==
  ASSUME NEW a, NEW b, NEW c
  PROVE  <<a, b>> \o <<c>> = <<a, b, c>>
<1> DEFINE S == {a, b, c}
           s == <<a, b>>
           t == <<c>>
           u == <<a, b, c>>
<1>1. s \in Seq(S) /\ t \in Seq(S) /\ u \in Seq(S)
  OBVIOUS
<1>2. Len(s) = 2 /\ Len(t) = 1 /\ Len(u) = 2 + 1
  OBVIOUS
<1>3. \A i \in 1..(2 + 1) : u[i] = IF i <= 2 THEN s[i] ELSE t[i - 2]
  OBVIOUS
<1>4. 2 \in Nat /\ 1 \in Nat
  OBVIOUS
<1> HIDE DEF S, s, t, u
<1>5. s \o t = u
  BY <1>1, <1>2, <1>3, <1>4, Joined, Zenon
<1> QED BY <1>5 DEF s, t, u

LEMMA Join4 ==
  ASSUME NEW a, NEW b, NEW c, NEW d
  PROVE  <<a>> \o <<b, c, d>> = <<a, b, c, d>>
<1> DEFINE S == {a, b, c, d}
           s == <<a>>
           t == <<b, c, d>>
           u == <<a, b, c, d>>
<1>1. s \in Seq(S) /\ t \in Seq(S) /\ u \in Seq(S)
  OBVIOUS
<1>2. Len(s) = 1 /\ Len(t) = 3 /\ Len(u) = 1 + 3
  OBVIOUS
<1>3. \A i \in 1..(1 + 3) : u[i] = IF i <= 1 THEN s[i] ELSE t[i - 1]
  OBVIOUS
<1>4. 1 \in Nat /\ 3 \in Nat
  OBVIOUS
<1> HIDE DEF S, s, t, u
<1>5. s \o t = u
  BY <1>1, <1>2, <1>3, <1>4, Joined, Zenon
<1> QED BY <1>5 DEF s, t, u

LEMMA Join5 ==
  ASSUME NEW a, NEW b, NEW c, NEW d, NEW e
  PROVE  <<a, b, c, d>> \o <<e>> = <<a, b, c, d, e>>
<1> DEFINE S == {a, b, c, d, e}
           s == <<a, b, c, d>>
           t == <<e>>
           u == <<a, b, c, d, e>>
<1>1. s \in Seq(S) /\ t \in Seq(S) /\ u \in Seq(S)
  OBVIOUS
<1>2. Len(s) = 4 /\ Len(t) = 1 /\ Len(u) = 4 + 1
  OBVIOUS
<1>3. \A i \in 1..(4 + 1) : u[i] = IF i <= 4 THEN s[i] ELSE t[i - 4]
  OBVIOUS
<1>4. 4 \in Nat /\ 1 \in Nat
  OBVIOUS
<1> HIDE DEF S, s, t, u
<1>5. s \o t = u
  BY <1>1, <1>2, <1>3, <1>4, Joined, Zenon
<1> QED BY <1>5 DEF s, t, u

LEMMA RouteRules ==
  route_rules = <<Rule("protocol", {"dns"}, "direct"),
                  Rule("domain_suffix", {"RussianSuffixes"}, "direct"),
                  Rule("domain", {"RussianServices"}, "direct"),
                  Rule("rule_set", {"geosite-ru", "geoip-ru"}, "direct"),
                  Rule("domain", {"BlockedServices"}, "auto")>>
<1> DEFINE p == Rule("protocol", {"dns"}, "direct")
           s == Rule("domain_suffix", {"RussianSuffixes"}, "direct")
           d == Rule("domain", {"RussianServices"}, "direct")
           r == Rule("rule_set", {"geosite-ru", "geoip-ru"}, "direct")
           b == Rule("domain", {"BlockedServices"}, "auto")
<1>1. /\ NonEmpty(s) = <<s>> /\ NonEmpty(d) = <<d>> /\ NonEmpty(r) = <<r>> /\ NonEmpty(b) = <<b>>
      /\ NonEmpty(Rule("domain_suffix", {}, "auto")) = <<>>
      /\ NonEmpty(Rule("rule_set", {}, "auto")) = <<>>
  BY DEF NonEmpty, Rule
<1>2. to_route_rules(DEFAULT_DIRECT) = NonEmpty(s) \o NonEmpty(d) \o NonEmpty(r)
  BY DEF to_route_rules, DEFAULT_DIRECT
<1>3. to_route_rules(DEFAULT_PROXY) =
        NonEmpty(Rule("domain_suffix", {}, "auto")) \o NonEmpty(b)
        \o NonEmpty(Rule("rule_set", {}, "auto"))
  BY DEF to_route_rules, DEFAULT_PROXY
<1> HIDE DEF p, s, d, r, b
<1>4. <<s>> \o <<d>> \o <<r>> = <<s, d, r>>
  <2>1. <<s>> \o <<d>> = <<s, d>>
    BY Join2
  <2>2. <<s, d>> \o <<r>> = <<s, d, r>>
    BY Join3
  <2> QED BY <2>1, <2>2
<1>5. <<>> \o <<b>> \o <<>> = <<b>>
  OBVIOUS
<1>6. <<p>> \o <<s, d, r>> \o <<b>> = <<p, s, d, r, b>>
  <2>1. <<p>> \o <<s, d, r>> = <<p, s, d, r>>
    BY Join4
  <2>2. <<p, s, d, r>> \o <<b>> = <<p, s, d, r, b>>
    BY Join5
  <2> QED BY <2>1, <2>2
<1>7. route_rules = <<p>> \o to_route_rules(DEFAULT_DIRECT) \o to_route_rules(DEFAULT_PROXY)
  BY DEF route_rules, p
<1>8. route_rules = <<p, s, d, r, b>>
  BY <1>1, <1>2, <1>3, <1>4, <1>5, <1>6, <1>7
<1> QED BY <1>8 DEF p, s, d, r, b

LEMMA DnsRules ==
  dns_rules = <<Rule("domain_suffix", {"RussianSuffixes"}, "ru-dns"),
                Rule("domain", {"RussianServices"}, "ru-dns")>>
<1> DEFINE s == Rule("domain_suffix", {"RussianSuffixes"}, "ru-dns")
           d == Rule("domain", {"RussianServices"}, "ru-dns")
<1>1. NonEmpty(s) = <<s>> /\ NonEmpty(d) = <<d>>
  BY DEF NonEmpty, Rule
<1>2. dns_rules = NonEmpty(s) \o NonEmpty(d)
  BY DEF dns_rules, to_dns_rules, DEFAULT_DIRECT
<1> HIDE DEF s, d
<1>3. <<s>> \o <<d>> = <<s, d>>
  BY Join2
<1>4. dns_rules = <<s, d>>
  BY <1>1, <1>2, <1>3
<1> QED BY <1>4 DEF s, d

(* Which hosts the rules reach directly, and which they look up at home.    *)
LEMMA RoutedDirectly ==
  ASSUME NEW host \in Hosts
  PROVE  Target(route_rules, host, "auto") = "direct" <=>
           host \cap {"RussianSuffixes", "RussianServices", "geosite-ru", "geoip-ru"} # {}
<1> DEFINE m == {i \in DOMAIN route_rules : route_rules[i].entries \cap host # {}}
           first == CHOOSE i \in m : \A j \in m : i <= j
<1>1. /\ DOMAIN route_rules = 1..5
      /\ route_rules[1].entries = {"dns"} /\ route_rules[2].entries = {"RussianSuffixes"}
      /\ route_rules[3].entries = {"RussianServices"}
      /\ route_rules[4].entries = {"geosite-ru", "geoip-ru"}
      /\ route_rules[5].entries = {"BlockedServices"}
  BY RouteRules DEF Rule
<1>2. /\ route_rules[2].target = "direct" /\ route_rules[3].target = "direct"
      /\ route_rules[4].target = "direct" /\ route_rules[5].target = "auto"
  BY RouteRules DEF Rule
<1>3. "dns" \notin host
  BY DEF Hosts
<1>4. /\ m \subseteq 2..5 /\ (2 \in m <=> "RussianSuffixes" \in host)
      /\ (3 \in m <=> "RussianServices" \in host)
      /\ (4 \in m <=> "geosite-ru" \in host \/ "geoip-ru" \in host)
  <2>1. 1..5 = {1} \cup 2..5
    OBVIOUS
  <2>2. 1 \notin m
    BY <1>1, <1>3
  <2>3. m \subseteq 2..5
    BY <1>1, <2>1, <2>2
  <2> QED BY <1>1, <2>3
<1>5. Target(route_rules, host, "auto") = IF m = {} THEN "auto" ELSE route_rules[first].target
  BY DEF Target
<1> HIDE DEF m
<1>6. m # {} => \E i \in m : \A j \in m : i <= j
  <2>1. \A i \in m : i = 2 \/ i = 3 \/ i = 4 \/ i = 5
    <3>1. \A i \in 2..5 : i = 2 \/ i = 3 \/ i = 4 \/ i = 5
      OBVIOUS
    <3> QED BY <1>4, <3>1
  <2>2. CASE 2 \in m
    BY <2>1, <2>2
  <2>3. CASE 2 \notin m /\ 3 \in m
    BY <2>1, <2>3
  <2>4. CASE 2 \notin m /\ 3 \notin m /\ 4 \in m
    BY <2>1, <2>4
  <2>5. CASE 2 \notin m /\ 3 \notin m /\ 4 \notin m
    BY <2>1, <2>5
  <2> QED BY <2>2, <2>3, <2>4, <2>5
<1>7. m # {} => first \in m /\ \A j \in m : first <= j
  BY <1>6
<1> HIDE DEF first
<1>8. m # {} => (route_rules[first].target = "direct" <=> first # 5)
  <2>1. 2..5 = {2, 3, 4, 5}
    OBVIOUS
  <2> QED BY <1>2, <1>4, <1>7, <2>1
<1>9. m # {} => (first # 5 <=> 2 \in m \/ 3 \in m \/ 4 \in m)
  <2> SUFFICES ASSUME m # {} PROVE first # 5 <=> 2 \in m \/ 3 \in m \/ 4 \in m
    OBVIOUS
  <2>1. \A i \in m : i = 2 \/ i = 3 \/ i = 4 \/ i = 5
    <3>1. \A i \in 2..5 : i = 2 \/ i = 3 \/ i = 4 \/ i = 5
      OBVIOUS
    <3> QED BY <1>4, <3>1
  <2>2. ASSUME first = 5 PROVE 2 \notin m /\ 3 \notin m /\ 4 \notin m
    BY <1>7, <2>2
  <2>3. first \in m
    BY <1>7
  <2> QED BY <2>1, <2>2, <2>3
<1> QED BY <1>4, <1>5, <1>8, <1>9

LEMMA LookedUpAtHome ==
  ASSUME NEW host \in Hosts
  PROVE  Target(dns_rules, host, "remote-dns") = "ru-dns" <=>
           host \cap {"RussianSuffixes", "RussianServices"} # {}
<1> DEFINE m == {i \in DOMAIN dns_rules : dns_rules[i].entries \cap host # {}}
           first == CHOOSE i \in m : \A j \in m : i <= j
<1>1. /\ DOMAIN dns_rules = {1, 2} /\ dns_rules[1].entries = {"RussianSuffixes"}
      /\ dns_rules[2].entries = {"RussianServices"}
      /\ dns_rules[1].target = "ru-dns" /\ dns_rules[2].target = "ru-dns"
  BY DnsRules DEF Rule
<1>2. m \subseteq {1, 2} /\ (m # {} <=> host \cap {"RussianSuffixes", "RussianServices"} # {})
  BY <1>1
<1>3. Target(dns_rules, host, "remote-dns") =
        IF m = {} THEN "remote-dns" ELSE dns_rules[first].target
  BY DEF Target
<1> HIDE DEF m
<1>4. m # {} => first \in m
  <2>1. m # {} => \E i \in m : \A j \in m : i <= j
    <3>1. CASE 1 \in m
      BY <1>2, <3>1
    <3>2. CASE 1 \notin m
      <4>1. \A i \in m : i = 2
        BY <1>2, <3>2
      <4> QED BY <4>1
    <3> QED BY <3>1, <3>2
  <2> QED BY <2>1
<1> HIDE DEF first
<1> QED BY <1>1, <1>2, <1>3, <1>4

(* Whatever the nodes are, names are looked up where their hosts are        *)
(* reached, but for those that only the downloaded rule sets know.          *)
THEOREM NamesAgree == Spec => []NamesFollowRoutes
<1>1. /\ Config.route.rules = route_rules /\ Config.route.final = "auto"
      /\ Config.dns.rules = dns_rules /\ Config.dns.final = "remote-dns"
  BY DEF Config, build_client_config
<1>2. NamesFollowRoutes
  BY <1>1, RoutedDirectly, LookedUpAtHome DEF NamesFollowRoutes
<1> QED BY <1>2, PTL

-----------------------------------------------------------------------------
(* The outbounds of a config: the urltest, one for each node chosen, and    *)
(* the two that need no node.                                               *)
OutboundsOf(out, k, preferred) ==
  /\ DOMAIN out = 1..(k + 3) /\ Len(out) = k + 3
  /\ out[1].tag = "auto" /\ out[1].members = [i \in 1..k |-> preferred[i].tag]
  /\ \A i \in 1..k : out[i + 1].tag = preferred[i].tag
  /\ out[k + 2].tag = "direct" /\ out[k + 3].tag = "block"

LEMMA OutboundsKnown ==
  ASSUME NEW S, NEW k \in Nat, NEW preferred \in [1..k -> S]
  PROVE  OutboundsOf(Outbounds(preferred), k, preferred)
<1> DEFINE auto == [type |-> "urltest", tag |-> "auto", members |-> [i \in 1..k |-> preferred[i].tag]]
           o(i) == [type |-> preferred[i].protocol, tag |-> preferred[i].tag]
           direct == [type |-> "direct", tag |-> "direct"]
           block == [type |-> "block", tag |-> "block"]
           body == [i \in 1..k |-> o(i)]
           ends == <<direct, block>>
           T == {auto, direct, block} \cup {o(i) : i \in 1..k}
           out == Outbounds(preferred)
<1>1. out = <<auto>> \o body \o ends
  BY DEF Outbounds
<1>2. /\ auto.tag = "auto" /\ auto.members = [i \in 1..k |-> preferred[i].tag]
      /\ \A i \in 1..k : o(i).tag = preferred[i].tag
      /\ direct.tag = "direct" /\ block.tag = "block"
  OBVIOUS
<1> HIDE DEF auto, o, direct, block, out
<1>3. body \in [1..k -> T]
  OBVIOUS
<1>4. body \in Seq(T) /\ Len(body) = k
  BY <1>3, ListLen
<1>5. /\ <<auto>> \in Seq(T) /\ Len(<<auto>>) = 1 /\ <<auto>>[1] = auto
      /\ ends \in Seq(T) /\ Len(ends) = 2 /\ ends[1] = direct /\ ends[2] = block
  OBVIOUS
<1>6. \A i \in 1..k : body[i] = o(i)
  OBVIOUS
<1> DEFINE head == <<auto>> \o body
<1> HIDE DEF T, body, ends
<1>7. /\ head \in Seq(T) /\ Len(head) = 1 + k
      /\ \A i \in 1..(1 + k) : head[i] = IF i <= 1 THEN <<auto>>[i] ELSE body[i - 1]
  BY <1>4, <1>5, ConcatProperties
<1>13. out = head \o ends
  BY <1>1
<1> HIDE DEF head
<1>8. /\ out \in Seq(T) /\ Len(out) = 1 + k + 2
      /\ \A i \in 1..(1 + k + 2) : out[i] = IF i <= 1 + k THEN head[i] ELSE ends[i - (1 + k)]
  <2>1. head \in Seq(T) /\ ends \in Seq(T)
    BY <1>5, <1>7
  <2>2. /\ head \o ends \in Seq(T) /\ Len(head \o ends) = Len(head) + Len(ends)
        /\ \A i \in 1..(Len(head) + Len(ends)) :
             (head \o ends)[i] = IF i <= Len(head) THEN head[i] ELSE ends[i - Len(head)]
    BY ONLY <2>1, ConcatProperties
  <2> QED BY <1>5, <1>7, <1>13, <2>2
<1>9. Len(out) = k + 3 /\ DOMAIN out = 1..(k + 3)
  BY <1>8, LenProperties
<1>10. out[1] = auto
  <2>1. 1 \in 1..(1 + k) /\ 1 \in 1..(1 + k + 2)
    OBVIOUS
  <2> QED BY <1>5, <1>7, <1>8, <2>1
<1>11. ASSUME NEW i \in 1..k PROVE out[i + 1] = o(i)
  <2>1. /\ i + 1 \in 1..(1 + k) /\ i + 1 \in 1..(1 + k + 2) /\ ~(i + 1 <= 1) /\ i + 1 <= 1 + k
        /\ (i + 1) - 1 = i
    OBVIOUS
  <2>2. out[i + 1] = head[i + 1]
    BY <1>8, <2>1
  <2>3. head[i + 1] = body[(i + 1) - 1]
    BY <1>7, <2>1
  <2> QED BY <1>6, <2>1, <2>2, <2>3
<1>12. out[k + 2] = direct /\ out[k + 3] = block
  <2>1. /\ k + 2 \in 1..(1 + k + 2) /\ ~(k + 2 <= 1 + k) /\ (k + 2) - (1 + k) = 1
        /\ k + 3 \in 1..(1 + k + 2) /\ ~(k + 3 <= 1 + k) /\ (k + 3) - (1 + k) = 2
    OBVIOUS
  <2> QED BY <1>5, <1>8, <2>1
<1>14. OutboundsOf(out, k, preferred)
  BY <1>2, <1>9, <1>10, <1>11, <1>12 DEF OutboundsOf
<1> QED BY <1>14 DEF out

(* What the outbounds are called, and when each has a name of its own.      *)
LEMMA OutboundNames ==
  ASSUME IInv
  PROVE  /\ OutboundTags(Config) =
              {"auto", "direct", "block"} \cup {Preferred[i].tag : i \in DOMAIN Preferred}
         /\ \A i \in DOMAIN Preferred : Preferred[i] \in UsableRows
         /\ LET tag == [i \in DOMAIN Config.outbounds |-> Config.outbounds[i].tag]
            IN  /\ IsInjective(tag) <=> \A i \in DOMAIN Preferred : Preferred[i].tag \notin Reserved
                /\ Len(Config.outbounds) \in Nat
                /\ DOMAIN Config.outbounds = 1..Len(Config.outbounds)
         /\ Config.outbounds[1].members = [i \in DOMAIN Preferred |-> Preferred[i].tag]
         /\ (\A i \in DOMAIN Config.outbounds : Config.outbounds[i].tag # "") <=>
              \A i \in DOMAIN Preferred : Preferred[i].tag # ""
<1> DEFINE k == Least(Cardinality(UsableRows), PreferredLimit)
           out == Config.outbounds
           p(i) == Preferred[i].tag
           tag == [i \in DOMAIN out |-> out[i].tag]
<1>1. /\ k \in Nat /\ Preferred \in [1..k -> UsableRows] /\ DOMAIN Preferred = 1..k
      /\ \A i, j \in 1..k : Preferred[i] = Preferred[j] => i = j
  BY PreferredRows
<1>2. out = Outbounds(Preferred)
  BY DEF Config, build_client_config
<1> HIDE DEF k, out
<1>3. /\ DOMAIN out = 1..(k + 3) /\ Len(out) = k + 3
      /\ out[1].tag = "auto" /\ out[1].members = [i \in 1..k |-> Preferred[i].tag]
      /\ \A i \in 1..k : out[i + 1].tag = Preferred[i].tag
      /\ out[k + 2].tag = "direct" /\ out[k + 3].tag = "block"
  <2>1. Preferred \in [1..k -> UsableRows] /\ k \in Nat
    BY <1>1
  <2>2. OutboundsOf(Outbounds(Preferred), k, Preferred)
    BY <2>1, OutboundsKnown, Zenon
  <2> QED BY <1>2, <2>2 DEF OutboundsOf
<1>4. \A i, j \in 1..k : p(i) = p(j) => i = j
  <2>1. \A r, s \in UsableRows : r.tag = s.tag => r = s
    BY RowsKnown DEF UsableRows
  <2>2. \A i \in 1..k : Preferred[i] \in UsableRows
    BY <1>1
  <2> QED BY <1>1, <2>1, <2>2
<1>5. \A i \in 1..(k + 3) : i = 1 \/ i = k + 2 \/ i = k + 3 \/ \E j \in 1..k : i = j + 1
  <2> SUFFICES ASSUME NEW i \in 1..(k + 3), i # 1, i # k + 2, i # k + 3
               PROVE  \E j \in 1..k : i = j + 1
    OBVIOUS
  <2>1. i - 1 \in 1..k /\ i = (i - 1) + 1
    BY <1>1
  <2> QED BY <2>1
<1> HIDE DEF p
<1>6. \A i \in 1..k : out[i + 1].tag = p(i)
  BY <1>3 DEF p
<1>7. /\ 1 \in 1..(k + 3) /\ k + 2 \in 1..(k + 3) /\ k + 3 \in 1..(k + 3)
      /\ \A i \in 1..k : i + 1 \in 1..(k + 3)
  BY <1>1
<1>8. {out[i].tag : i \in DOMAIN out} = {"auto", "direct", "block"} \cup {p(i) : i \in 1..k}
  BY <1>3, <1>5, <1>6, <1>7
<1>9. (\A i \in DOMAIN out : out[i].tag # "") <=> \A i \in 1..k : p(i) # ""
  <2> DEFINE empty == ""
  <2>1. "auto" # empty /\ "direct" # empty /\ "block" # empty
    BY Zenon
  <2> HIDE DEF empty
  <2>2. (\A i \in DOMAIN out : out[i].tag # empty) <=> \A i \in 1..k : p(i) # empty
    BY <1>3, <1>5, <1>6, <1>7, <2>1
  <2> QED BY <2>2, Zenon DEF empty
<1>10. ASSUME \A i \in 1..k : p(i) \notin Reserved PROVE IsInjective(tag)
  <2> SUFFICES ASSUME NEW i \in 1..(k + 3), NEW j \in 1..(k + 3), out[i].tag = out[j].tag
               PROVE  i = j
    BY <1>3 DEF IsInjective
  <2>1. /\ \A l \in 1..k : out[l + 1].tag \notin Reserved
        /\ \A l, m \in 1..k : out[l + 1].tag = out[m + 1].tag => l = m
    BY <1>4, <1>6, <1>10
  <2>2. CASE \E l \in 1..k : i = l + 1
    BY <1>3, <1>5, <2>1, <2>2 DEF Reserved
  <2>3. CASE \E l \in 1..k : j = l + 1
    BY <1>3, <1>5, <2>1, <2>3 DEF Reserved
  <2>4. CASE /\ i = 1 \/ i = k + 2 \/ i = k + 3
             /\ j = 1 \/ j = k + 2 \/ j = k + 3
    BY <1>3, <2>4
  <2> QED BY <1>5, <2>2, <2>3, <2>4
<1>11. ASSUME NEW i \in 1..k, p(i) \in Reserved PROVE ~IsInjective(tag)
  <2>1. out[i + 1].tag = p(i) /\ i + 1 \in DOMAIN out
    BY <1>3, <1>6, <1>7
  <2>2. i + 1 # 1 /\ i + 1 # k + 2 /\ i + 1 # k + 3
    BY <1>1
  <2>3. tag[i + 1] = out[i + 1].tag /\ tag[1] = "auto" /\ tag[k + 2] = "direct" /\ tag[k + 3] = "block"
    BY <1>3, <1>7, <2>1
  <2> HIDE DEF tag
  <2>4. DOMAIN tag = DOMAIN out
    BY DEF tag
  <2> QED BY <1>3, <1>7, <1>11, <2>1, <2>2, <2>3, <2>4 DEF IsInjective, Reserved
<1>12. Len(out) \in Nat /\ DOMAIN out = 1..Len(out)
  BY <1>1, <1>3
<1>13. \A i \in DOMAIN Preferred : Preferred[i] \in UsableRows
  BY <1>1
<1> HIDE DEF tag
<1>14. IsInjective(tag) <=> \A i \in 1..k : p(i) \notin Reserved
  BY <1>10, <1>11
<1> QED BY <1>1, <1>3, <1>8, <1>9, <1>12, <1>13, <1>14, Zenon DEF tag, out, p, OutboundTags

-----------------------------------------------------------------------------
(* When a config is served, and what a served one holds.                    *)
LEMMA RulesKnown ==
  /\ DOMAIN route_rules = 1..5 /\ route_rules[1].target = "direct"
  /\ \A i \in DOMAIN route_rules :
       /\ route_rules[i].target \in {"direct", "auto"}
       /\ route_rules[i].field = "rule_set" => route_rules[i].entries = {"geosite-ru", "geoip-ru"}
  /\ DOMAIN dns_rules = {1, 2}
  /\ \A i \in DOMAIN dns_rules : dns_rules[i].target = "ru-dns"
<1>1. /\ DOMAIN route_rules = 1..5 /\ route_rules[1].target = "direct"
      /\ route_rules[2].target = "direct" /\ route_rules[3].target = "direct"
      /\ route_rules[4].target = "direct" /\ route_rules[5].target = "auto"
  BY RouteRules DEF Rule
<1>2. /\ route_rules[1].field # "rule_set" /\ route_rules[2].field # "rule_set"
      /\ route_rules[3].field # "rule_set" /\ route_rules[5].field # "rule_set"
      /\ route_rules[4].entries = {"geosite-ru", "geoip-ru"}
  BY RouteRules DEF Rule
<1>3. \A i \in 1..5 : i = 1 \/ i = 2 \/ i = 3 \/ i = 4 \/ i = 5
  OBVIOUS
<1>4. /\ DOMAIN dns_rules = {1, 2} /\ dns_rules[1].target = "ru-dns"
      /\ dns_rules[2].target = "ru-dns"
  BY DnsRules DEF Rule
<1>5. ASSUME NEW i \in DOMAIN route_rules
      PROVE  /\ route_rules[i].target \in {"direct", "auto"}
             /\ route_rules[i].field = "rule_set" =>
                  route_rules[i].entries = {"geosite-ru", "geoip-ru"}
  BY <1>1, <1>2, <1>3
<1> QED BY <1>1, <1>4, <1>5

LEMMA ConfigKnown ==
  /\ Config.route.rules = route_rules /\ Config.route.final = "auto"
  /\ Config.route.rule_set = RemoteRuleSets
  /\ Config.dns.rules = dns_rules /\ Config.dns.final = "remote-dns"
  /\ Config.dns.servers = {[tag |-> "ru-dns", detour |-> "direct"],
                           [tag |-> "remote-dns", detour |-> "auto"]}
  BY DEF Config, build_client_config

LEMMA ServedWhen ==
  ASSUME IInv
  PROVE  ConfigServed <=> /\ Preferred # <<>>
                          /\ \A i \in DOMAIN Preferred : ~Unservable(Preferred[i])
<1> DEFINE out == Config.outbounds
           empty == ""
<1>1. ValidateReferences(Config)
  <2> DEFINE tags == OutboundTags(Config)
             rules == Config.route.rules
  <2>1. "auto" \in tags /\ "direct" \in tags
    BY OutboundNames
  <2>2. "auto" # empty /\ "direct" # empty
    BY Zenon
  <2>3. rules = route_rules /\ Config.route.final = "auto"
    BY ConfigKnown
  <2> HIDE DEF tags, rules, empty
  <2>4. {"direct", "auto", Config.route.final} \subseteq tags \ {empty}
    BY <2>1, <2>2, <2>3
  <2>5. \A i \in DOMAIN rules : rules[i].target \in tags
    BY <2>1, <2>3, RulesKnown
  <2>6. \E i \in DOMAIN rules : rules[i].target = "direct"
    <3>1. 1 \in DOMAIN route_rules
      BY RulesKnown
    <3> QED BY <2>3, <3>1, RulesKnown
  <2> QED BY <2>4, <2>5, <2>6, Zenon DEF ValidateReferences, tags, rules, empty
<1>2. \A i \in DOMAIN Preferred : Convertible(Preferred[i]) <=> Preferred[i].options # "none"
  <2>1. \A r \in UsableRows : r \in Node /\ Admitted(r)
    BY RowsKnown DEF UsableRows
  <2>2. ASSUME NEW r \in UsableRows PROVE Convertible(r) <=> r.options # "none"
    <3>1. CASE r.protocol = "vless"
      BY <2>1, <3>1 DEF Admitted, Convertible, Vless
    <3>2. CASE r.protocol # "vless"
      BY <2>1, <3>2 DEF Admitted, Convertible
    <3> QED BY <3>1, <3>2
  <2> QED BY <2>2, OutboundNames
<1>3. validate_config_shape(Config) <=>
        \A i \in DOMAIN Preferred : Preferred[i].tag \notin Reserved /\ Preferred[i].tag # ""
  <2>1. IsInjective([i \in DOMAIN out |-> out[i].tag]) <=>
          \A i \in DOMAIN Preferred : Preferred[i].tag \notin Reserved
    BY OutboundNames, Zenon
  <2>2. (\A i \in DOMAIN out : out[i].tag # "") <=> \A i \in DOMAIN Preferred : Preferred[i].tag # ""
    BY OutboundNames, Zenon
  <2> QED BY <1>1, <2>1, <2>2, Zenon DEF validate_config_shape
<1>4. \A i \in DOMAIN Preferred :
        Unservable(Preferred[i]) <=> \/ Preferred[i].tag \in Reserved
                                     \/ Preferred[i].tag = ""
                                     \/ Preferred[i].options = "none"
  BY Zenon DEF Unservable
<1> QED BY <1>2, <1>3, <1>4, Zenon DEF ConfigServed

LEMMA ProperWhenAdmitted ==
  ASSUME IInv
  PROVE  ProperNodesServe
<1>1. Preferred # <<>> <=> UsableRows # {}
  <2> DEFINE k == Least(Cardinality(UsableRows), PreferredLimit)
  <2>1. k \in Nat /\ (k = 0 <=> UsableRows = {}) /\ Preferred \in Seq(UsableRows) /\ Len(Preferred) = k
    BY PreferredRows
  <2> HIDE DEF k
  <2> QED BY <2>1, EmptySeq
<1>2. UsableRows # {} <=> \E n \in DOMAIN nodes : Usable(nodes[n])
  BY DEF UsableRows, Rows
<1> QED BY <1>1, <1>2, ServedWhen, Zenon DEF ProperNodesServe

LEMMA ClosedWhenAdmitted ==
  ASSUME IInv
  PROVE  ServedConfigsAreClosed
<1> SUFFICES ASSUME ConfigServed PROVE ServedConfigsAreClosed
  BY DEF ServedConfigsAreClosed
<1> DEFINE out == Config.outbounds
           tags == OutboundTags(Config)
           tag == [i \in DOMAIN out |-> out[i].tag]
           n == Len(out)
           proxies == Config.outbounds[1].members
           rules == Config.route.rules
           sets == {s.tag : s \in Config.route.rule_set}
           servers == {s.tag : s \in Config.dns.servers}
<1>1. \A i \in DOMAIN Preferred : Preferred[i].tag \notin Reserved
  BY ServedWhen, Zenon DEF Unservable
<1>2. IsInjective(tag) /\ n \in Nat /\ DOMAIN out = 1..n
  BY <1>1, OutboundNames
<1>3. proxies = [i \in DOMAIN Preferred |-> Preferred[i].tag]
  BY OutboundNames
<1>4. Cardinality(tags) = n
  <2>1. tags = {out[i].tag : i \in DOMAIN out}
    BY DEF OutboundTags
  <2> HIDE DEF out, tags, n
  <2>2. tag \in Bijection(1..n, tags)
    BY <1>2, <2>1 DEF Bijection, Injection, Surjection, IsInjective
  <2> HIDE DEF tag
  <2> QED BY <1>2, <2>2, FS_CountingElements DEF ExistsBijection
<1>5. ToSet(proxies) = {Preferred[i].tag : i \in DOMAIN Preferred}
  BY <1>3 DEF ToSet
<1>6. ToSet(proxies) \cap Reserved = {}
  BY <1>1, <1>5
<1>7. "auto" \in tags /\ "direct" \in tags
  BY OutboundNames
<1>8. {s.detour : s \in Config.dns.servers} \cup {s.download_detour : s \in Config.route.rule_set}
        \cup {rules[i].target : i \in DOMAIN rules} \cup {Config.route.final} \subseteq tags
  <2> HIDE DEF tags
  <2>1. {s.detour : s \in Config.dns.servers} \subseteq {"auto", "direct"}
    BY ConfigKnown
  <2>2. {s.download_detour : s \in Config.route.rule_set} \subseteq {"auto", "direct"}
    BY ConfigKnown DEF RemoteRuleSets
  <2>3. {rules[i].target : i \in DOMAIN rules} \subseteq {"auto", "direct"}
    BY ConfigKnown, RulesKnown
  <2>4. Config.route.final = "auto"
    BY ConfigKnown
  <2> QED BY <1>7, <2>1, <2>2, <2>3, <2>4
<1>9. UNION {rules[i].entries : i \in {j \in DOMAIN rules : rules[j].field = "rule_set"}} \subseteq sets
  <2>1. "geosite-ru" \in sets /\ "geoip-ru" \in sets
    BY ConfigKnown DEF RemoteRuleSets
  <2>2. \A i \in DOMAIN rules : rules[i].field = "rule_set" =>
                                 rules[i].entries = {"geosite-ru", "geoip-ru"}
    BY ConfigKnown, RulesKnown
  <2> HIDE DEF sets, rules
  <2> QED BY <2>1, <2>2
<1>10. {Config.dns.rules[i].target : i \in DOMAIN Config.dns.rules} \cup {Config.dns.final}
         \subseteq servers
  <2>1. "ru-dns" \in servers /\ "remote-dns" \in servers
    BY ConfigKnown
  <2> HIDE DEF servers
  <2> QED BY <2>1, ConfigKnown, RulesKnown
<1> HIDE DEF tags, n, proxies, rules, sets, servers
<1> QED BY <1>4, <1>5, <1>6, <1>8, <1>9, <1>10
        DEF ServedConfigsAreClosed, tags, n, out, proxies, rules, sets, servers

(* As long as none of the nodes chosen was given an empty or a reserved tag *)
(* or lost its options, every client gets a config whenever a node is       *)
(* usable: nothing else that requests and probes do to the table can take   *)
(* the config away.                                                         *)
THEOREM ProperNodesAreServed == Spec => []ProperNodesServe
<1>1. IInv => ProperNodesServe
  BY ProperWhenAdmitted
<1> QED BY <1>1, TableAdmitted, PTL

(* Everything that a served config refers to is in it, once, however many   *)
(* nodes were chosen and whatever they are called.                          *)
THEOREM ConfigsAreClosed == Spec => []ServedConfigsAreClosed
<1>1. IInv => ServedConfigsAreClosed
  BY ClosedWhenAdmitted
<1> QED BY <1>1, TableAdmitted, PTL

-----------------------------------------------------------------------------
(* A node is chosen when it is usable and fewer than the limit are ahead of *)
(* it; a better report puts none ahead of it that was not there before.     *)
Ahead(n) == {s \in UsableRows : ScoreLess(s, nodes[n])}
ChosenWhen ==
  /\ IsFiniteSet(UsableRows)
  /\ \A n \in DOMAIN nodes :
       Chosen(n) <=> Usable(nodes[n]) /\ Cardinality(Ahead(n)) < PreferredLimit

LEMMA ChosenKnown == IInv => ChosenWhen
<1> SUFFICES ASSUME IInv PROVE ChosenWhen
  OBVIOUS
<1> DEFINE k == Least(Cardinality(UsableRows), PreferredLimit)
<1>1. /\ IsFiniteSet(UsableRows) /\ DOMAIN Preferred = 1..k /\ Preferred \in [1..k -> UsableRows]
      /\ \A r \in UsableRows :
           (\E i \in 1..k : Preferred[i] = r) <=>
             Cardinality(Before(r, UsableRows, ByScore)) < PreferredLimit
  BY PreferredRows
<1> HIDE DEF k
<1>2. \A r \in UsableRows : r \in Node /\ r.id \in DOMAIN nodes /\ nodes[r.id] = r
  BY RowsKnown DEF UsableRows
<1>3. ASSUME NEW n \in DOMAIN nodes
      PROVE  Chosen(n) <=> Usable(nodes[n]) /\ Cardinality(Ahead(n)) < PreferredLimit
  <2> DEFINE r == nodes[n]
  <2>1. r \in Node /\ r.id = n /\ r \in Rows
    BY DEF IInv, Rows
  <2>2. r \in UsableRows <=> Usable(r)
    BY <2>1 DEF UsableRows
  <2>3. Chosen(n) <=> \E i \in 1..k : Preferred[i] = r
    <3>1. \A i \in 1..k : Preferred[i].id = n <=> Preferred[i] = r
      BY <1>1, <1>2, <2>1
    <3> QED BY <1>1, <3>1 DEF Chosen
  <2> HIDE DEF r
  <2>4. CASE r \in UsableRows
    <3>1. \A s \in UsableRows : Precedes(ByScore[s], ByScore[r]) <=> ScoreLess(s, r)
      BY <1>2, <2>1, <2>4, ScoreOrder DEF ByScore
    <3>2. Before(r, UsableRows, ByScore) = Ahead(n)
      BY <3>1 DEF Before, Ahead, r
    <3> QED BY <1>1, <2>2, <2>3, <2>4, <3>2 DEF r
  <2>5. CASE r \notin UsableRows
    <3>1. ~Chosen(n)
      BY <1>1, <2>3, <2>5
    <3> QED BY <2>2, <2>5, <3>1 DEF r
  <2> QED BY <2>4, <2>5
<1> QED BY <1>1, <1>3 DEF ChosenWhen

LEMMA BetterScore ==
  ASSUME NEW r \in Node, NEW new \in Node, NoWorse(new, r), new.priority = r.priority
  PROVE  node_score(r) <= node_score(new) /\ Age(new) <= Age(r)
<1>1. /\ r.latency \in Nat /\ new.latency \in Nat /\ new.latency <= r.latency
      /\ r.score \in Int /\ new.score \in Int /\ r.score <= new.score
      /\ r.rate \in Int /\ new.rate \in Int /\ r.rate <= new.rate
      /\ Known(r.latency) /\ Known(new.latency) /\ r.priority \in Int
  <2>1. Known(r.latency) /\ Known(new.latency) /\ new.latency <= r.latency
    BY DEF NoWorse
  <2>2. r.latency \in Latencies \cup {None} /\ new.latency \in Latencies \cup {None}
    BY KeyParts
  <2>3. r.latency # None /\ new.latency # None
    BY <2>1 DEF Known
  <2>4. \A l \in Latencies : l \in Nat
    BY LatenciesAssumption
  <2>5. r.latency \in Nat /\ new.latency \in Nat
    BY <2>2, <2>3, <2>4
  <2>7. r.rate \in Int /\ new.rate \in Int
    BY KeyParts
  <2>8. r.score \in Int /\ new.score \in Int /\ r.priority \in Int
    BY KeyParts
  <2>9. r.score <= new.score /\ r.rate <= new.rate
    <3>1. new.score >= r.score /\ new.rate >= r.rate
      BY DEF NoWorse
    <3> DEFINE a == r.score
               b == new.score
               c == r.rate
               d == new.rate
    <3>2. b >= a /\ d >= c /\ a \in Int /\ b \in Int /\ c \in Int /\ d \in Int
      BY <2>7, <2>8, <3>1
    <3> HIDE DEF a, b, c, d
    <3>3. a <= b /\ c <= d
      BY <3>2
    <3> QED BY <3>3 DEF a, b, c, d
  <2> QED BY <2>1, <2>5, <2>7, <2>8, <2>9
<1>2. Age(r) = r.latency /\ Age(new) = new.latency
  BY <1>1 DEF Age
<1>3. Penalty(r) = 1000 * Least(r.latency, 1000) + 2000 * r.priority
  BY <1>1 DEF Penalty
<1>4. Penalty(new) = 1000 * Least(new.latency, 1000) + 2000 * r.priority
  BY <1>1 DEF Penalty
<1>5. /\ Quality(r) = 5500 * r.score + 35 * r.rate + 100000
      /\ Quality(new) = 5500 * new.score + 35 * new.rate + 100000
  BY DEF Quality
<1> DEFINE l == r.latency
           m == new.latency
           p == r.priority
           s == r.score
           t == new.score
           x == r.rate
           y == new.rate
           a == Penalty(r)
           b == Penalty(new)
           c == Quality(r)
           d == Quality(new)
<1>6. /\ l \in Nat /\ m \in Nat /\ m <= l /\ p \in Int /\ s \in Int /\ t \in Int /\ s <= t
      /\ x \in Int /\ y \in Int /\ x <= y
  BY <1>1
<1>7. /\ a = 1000 * Least(l, 1000) + 2000 * p /\ b = 1000 * Least(m, 1000) + 2000 * p
      /\ c = 5500 * s + 35 * x + 100000 /\ d = 5500 * t + 35 * y + 100000
  BY <1>3, <1>4, <1>5
<1> HIDE DEF l, m, p, s, t, x, y, a, b, c, d
<1>8. Least(l, 1000) \in Int /\ Least(m, 1000) \in Int /\ Least(m, 1000) <= Least(l, 1000)
  BY <1>6 DEF Least
<1>9. a \in Int /\ b \in Int /\ b <= a
  <2> DEFINE u == Least(l, 1000)
             v == Least(m, 1000)
  <2>1. u \in Int /\ v \in Int /\ v <= u /\ a = 1000 * u + 2000 * p /\ b = 1000 * v + 2000 * p
    BY <1>7, <1>8
  <2> HIDE DEF u, v
  <2> QED BY <1>6, <2>1
<1>10. c \in Int /\ d \in Int /\ c <= d
  BY <1>6, <1>7
<1>11. Clamped(c - a) <= Clamped(d - b)
  <2>1. c - a \in Int /\ d - b \in Int /\ c - a <= d - b
    BY <1>9, <1>10
  <2> DEFINE e == c - a
             f == d - b
  <2>2. e \in Int /\ f \in Int /\ e <= f
    BY <2>1
  <2> HIDE DEF e, f
  <2>3. Clamped(e) <= Clamped(f)
    BY <2>2 DEF Clamped
  <2> QED BY <2>3 DEF e, f
<1>12. node_score(r) <= node_score(new)
  BY <1>11 DEF node_score, a, b, c, d
<1> QED BY <1>2, <1>6, <1>12 DEF l, m

LEMMA BetterPlace ==
  ASSUME NEW r \in Node, NEW new \in Node, NEW other \in Node, NoWorse(new, r),
         new.priority = r.priority, new.tag = r.tag, ScoreLess(other, new)
  PROVE  ScoreLess(other, r)
<1> DEFINE xr == node_score(r)
           xn == node_score(new)
           xo == node_score(other)
           gr == Age(r)
           gn == Age(new)
           go == Age(other)
           p == r.priority
           q == other.priority
           t == TagRank(r.tag)
           u == TagRank(other.tag)
<1>1. /\ xr \in Int /\ xn \in Int /\ xo \in Int /\ gr \in Int /\ gn \in Int /\ go \in Int
      /\ p \in Int /\ q \in Int /\ t \in Int /\ u \in Int
  BY KeyParts
<1>2. xr <= xn /\ gn <= gr
  BY BetterScore
<1>3. \/ xn < xo
      \/ xn = xo /\ q < p
      \/ xn = xo /\ q = p /\ go < gn
      \/ xn = xo /\ q = p /\ go = gn /\ u < t
  BY Zenon DEF ScoreLess
<1> HIDE DEF xr, xn, xo, gr, gn, go, p, q, t, u
<1>4. \/ xr < xo
      \/ xr = xo /\ q < p
      \/ xr = xo /\ q = p /\ go < gr
      \/ xr = xo /\ q = p /\ go = gr /\ u < t
  BY <1>1, <1>2, <1>3
<1> QED BY <1>4 DEF ScoreLess, xr, xo, gr, go, p, q, t, u

LEMMA BetterStep ==
  ASSUME IInv, IInv', ChosenWhen, ChosenWhen', NEW n \in DOMAIN nodes, NEW report \in Reports,
         UpdateNodeHealth(n, report), NoWorse(nodes'[n], nodes[n]), Chosen(n)
  PROVE  Chosen(n)'
<1> DEFINE r == nodes[n]
           new == nodes'[n]
<1>1. /\ DOMAIN nodes' = DOMAIN nodes
      /\ \A m \in DOMAIN nodes \ {n} : nodes'[m] = nodes[m]
      /\ new \in Node /\ new.tag = r.tag /\ new.priority = r.priority
  BY ReportStep
<1>2. r \in Node /\ Usable(new)
  BY DEF IInv, NoWorse
<1>3. Ahead(n)' \subseteq Ahead(n)
  <2> SUFFICES ASSUME NEW s \in UsableRows', ScoreLess(s, new)
               PROVE  s \in Ahead(n)
    BY DEF Ahead
  <2>1. PICK m \in DOMAIN nodes : s = nodes'[m] /\ Usable(s)
    BY <1>1 DEF UsableRows, Rows
  <2>2. s # new
    <3>1. node_score(new) \in Int /\ new.priority \in Int /\ Age(new) \in Int /\ TagRank(new.tag) \in Int
      BY <1>1, KeyParts
    <3>2. \A a \in Int : ~(a < a)
      OBVIOUS
    <3>3. ~ScoreLess(new, new)
      BY <3>1, <3>2, Zenon DEF ScoreLess
    <3> QED BY <3>3
  <2>3. m # n /\ s = nodes[m]
    BY <1>1, <2>1, <2>2
  <2>4. s \in Node /\ s \in UsableRows
    BY <2>1, <2>3 DEF IInv, UsableRows, Rows
  <2>5. ScoreLess(s, r)
    BY <1>1, <1>2, <2>4, BetterPlace
  <2> QED BY <2>4, <2>5 DEF Ahead
<1>4. Cardinality(Ahead(n)') <= Cardinality(Ahead(n)) /\ Cardinality(Ahead(n)) < PreferredLimit
  <2>1. IsFiniteSet(Ahead(n)) /\ Cardinality(Ahead(n)) < PreferredLimit
    <3>1. Ahead(n) \subseteq UsableRows /\ IsFiniteSet(UsableRows)
      BY DEF Ahead, ChosenWhen
    <3> QED BY <3>1, FS_Subset DEF ChosenWhen
  <2> QED BY <1>3, <2>1, FS_Subset
<1>5. Cardinality(Ahead(n)') \in Nat /\ Cardinality(Ahead(n)) \in Nat
  <2>1. IsFiniteSet(Ahead(n))
    <3>1. Ahead(n) \subseteq UsableRows /\ IsFiniteSet(UsableRows)
      BY DEF Ahead, ChosenWhen
    <3> QED BY <3>1, FS_Subset
  <2> QED BY <1>3, <2>1, FS_Subset, FS_CardinalityType
<1>6. Cardinality(Ahead(n)') < PreferredLimit
  <2> DEFINE a == Cardinality(Ahead(n)')
             b == Cardinality(Ahead(n))
  <2>1. a \in Nat /\ b \in Nat /\ a <= b /\ b < PreferredLimit /\ PreferredLimit \in Nat
    BY <1>4, <1>5, LimitAssumption
  <2> HIDE DEF a, b
  <2>2. a < PreferredLimit
    BY <2>1
  <2> QED BY <2>2 DEF a
<1> QED BY <1>1, <1>2, <1>6 DEF ChosenWhen

(* A node that does better by every measure stays in the configs it is in,  *)
(* whoever reports it and whatever the other nodes are.                     *)
THEOREM BetterNodesStay == Spec => BetterReportsKeepNodes
<1> DEFINE Stay == \A n \in DOMAIN nodes : \A report \in Reports :
                     UpdateNodeHealth(n, report) /\ NoWorse(nodes'[n], nodes[n]) /\ Chosen(n)
                       => Chosen(n)'
<1>1. IInv => ChosenWhen
  BY ChosenKnown
<1>2. IInv' => ChosenWhen'
  BY <1>1, PTL
<1>3. ASSUME IInv, [Next]_vars
      PROVE  Stay
  <2>1. IInv' /\ ChosenWhen /\ ChosenWhen'
    BY <1>1, <1>2, <1>3, TableStep
  <2> QED BY <1>3, <2>1, BetterStep
<1>4. IInv /\ [Next]_vars => [Stay]_vars
  BY <1>3
<1> QED BY <1>4, TableAdmitted, PTL DEF Spec, BetterReportsKeepNodes
=============================================================================
