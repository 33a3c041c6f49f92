--------------------------- MODULE ClientConfigs ---------------------------
(***************************************************************************)
(* What the nodes table is made of and what every client gets from it: the *)
(* sing-box config of the mobile apps (the best nodes by score) and the    *)
(* v2ray subscription (all VLESS nodes by priority).  One node that cannot *)
(* be written down takes the whole document from every client, so what the *)
(* requests let into the table decides what can be served.  Each request   *)
(* is one step here: NodeFleet has their interleaving.                     *)
(***************************************************************************)
EXTENDS NodeHealth, RulesEngine, SequencesExt

CONSTANTS
  NodeIds,
  TagOrder,        \* labels and tags, in the order of their characters
  EnvTags,         \* the tags vless-env-<n> of the VPN_NODE_<n>_ variables
  DemoTags,        \* those of the four demo nodes
  Priorities,      \* those the environment or a request may set
  Admissions,      \* the status and health a POST may give
  Reports,         \* what the worker or an administrator reports of a node
  PreferredLimit,  \* choose_preferred_nodes: 8
  MaxChanges       \* bound: requests and verdicts

Tags == ToSet(TagOrder)
Reserved == {"auto", "direct", "block"}
Protocols == {"vless", "shadowsocks"}

(* VlessOptions with the original link, with all the fields of a link, or  *)
(* with some missing; the options of another protocol; None.               *)
Vless == {"raw_url", "fields", "incomplete"}
Options == Vless \cup {"own", "none"}

ASSUME TagsAssumption ==
  /\ TagOrder \in Seq(Tags) /\ IsInjective(TagOrder)
  /\ EnvTags \cup ToSet(DemoTags) \subseteq Tags \ (Reserved \cup {""})
  /\ DemoTags \in Seq(Tags) /\ Len(DemoTags) = 4 /\ IsInjective(DemoTags)
ASSUME RequestsAssumption ==
  Priorities \subseteq Int /\ Admissions \subseteq [status : Statuses, health : Healths]
ASSUME DemoAssumption == {55, 70, 140, 350} \subseteq Latencies
ASSUME LimitAssumption == PreferredLimit \in Nat \ {0} /\ MaxChanges \in Nat
ASSUME ReportsAssumption ==
  Reports \subseteq [score : 0..100, status : Statuses \cup {None}, health : Healths \cup {None},
                     rate : Rates \cup {None}, latency : Latencies \cup {None}]

VARIABLES
  nodes,   \* the nodes table: the rows by id
  changes  \* counter under MaxChanges

vars == <<nodes, changes>>

Node == [status : Statuses, health : Healths, score : 0..100, rate : Rates,
         latency : Latencies \cup {None}, id : NodeIds, tag : Tags, protocol : Protocols,
         options : Options, priority : Int]

VpnNode(id, row, tag, protocol, options, priority) ==
  [id |-> id, tag |-> tag, protocol |-> protocol, options |-> options, priority |-> priority,
   status |-> row.status, health |-> row.health, score |-> row.score, rate |-> row.rate,
   latency |-> row.latency]
Rows == {nodes[n] : n \in DOMAIN nodes}

-----------------------------------------------------------------------------
(* Selection.                                                              *)

Known(latency) == latency \notin {None, 0}

(* node_score, times 10000, of a usable node; the weight is always 100.    *)
(* (Floats may order two different sums that are equal here: an instance   *)
(* should have none.  Variant: a poor health is preferred.)                *)
Least(a, b) == IF a <= b THEN a ELSE b
Penalty(node) == 1000 * (IF Known(node.latency) THEN Least(node.latency, 1000) ELSE 0)
                 + 2000 * node.priority
PoorQuality(node) == 5500 * (100 - node.score) + 35 * node.rate + 100000
Quality(node) == 5500 * node.score + 35 * node.rate + 100000
Clamped(score) == IF score < 0 THEN 0 ELSE score
node_score(node) == Clamped(Quality(node) - Penalty(node))

(* Tuples as Python compares them.                                         *)
Precedes(k, l) == \E i \in DOMAIN k : k[i] < l[i] /\ \A j \in 1..(i - 1) : k[j] = l[j]

TagRank(tag) == CHOOSE i \in DOMAIN TagOrder : TagOrder[i] = tag
ScoreKey(node) == <<-node_score(node), node.priority,
                    IF Known(node.latency) THEN node.latency ELSE 10000, TagRank(node.tag)>>
PriorityKey(node) == <<node.priority, -node.score, TagRank(node.tag)>>

(* sorted, of rows whose keys differ: each comes after those of less key.  *)
SortedBy(rows, key) ==
  [i \in 1..Cardinality(rows) |->
     CHOOSE r \in rows : Cardinality({s \in rows : Precedes(key[s], key[r])}) = i - 1]

sort_nodes_by_score(rows) ==
  LET usable == {r \in rows : Usable(r)}
  IN  SortedBy(usable, [r \in usable |-> ScoreKey(r)])

choose_preferred_nodes(rows) ==
  LET sorted == sort_nodes_by_score(rows)
  IN  SubSeq(sorted, 1, Least(Len(sorted), PreferredLimit))
active_vless_nodes(rows) ==
  LET active == {r \in rows : r.protocol = "vless" /\ Usable(r) /\ r.options \in Vless}
  IN  SortedBy(active, [r \in active |-> PriorityKey(r)])

-----------------------------------------------------------------------------
(* The config of the apps.                                                 *)

(* _node_to_outbound raises unless the options are those of the protocol.  *)
(* (Variant: imported links are only good for subscriptions.)              *)
ConvertibleFields(node) ==
  node.options \in IF node.protocol = "vless" THEN Vless \ {"raw_url"} ELSE {"own"}
Convertible(node) == node.options \in IF node.protocol = "vless" THEN Vless ELSE {"own"}

(* build_client_config, without what is the same text in every config.     *)
Outbounds(preferred) ==
  <<[type |-> "urltest", tag |-> "auto", members |-> [i \in DOMAIN preferred |-> preferred[i].tag]]>>
  \o [i \in DOMAIN preferred |-> [type |-> preferred[i].protocol, tag |-> preferred[i].tag]]
  \o <<[type |-> "direct", tag |-> "direct"], [type |-> "block", tag |-> "block"]>>
build_client_config(preferred) ==
  [outbounds |-> Outbounds(preferred),
   dns |-> [servers |-> {[tag |-> "ru-dns", detour |-> "direct"],
                         [tag |-> "remote-dns", detour |-> "auto"]},
            rules |-> dns_rules, final |-> "remote-dns"],
   route |-> [rules |-> route_rules, rule_set |-> RemoteRuleSets, final |-> "auto"]]

OutboundTags(config) == {config.outbounds[i].tag : i \in DOMAIN config.outbounds}

(* (Variant: tags need not differ.)                                        *)
ValidateReferences(config) ==
  LET tags == OutboundTags(config)
      rules == config.route.rules
  IN  /\ {"direct", "auto", config.route.final} \subseteq tags \ {""}
      /\ \A i \in DOMAIN rules : rules[i].target \in tags
      /\ \E i \in DOMAIN rules : rules[i].target = "direct"
validate_config_shape(config) ==
  /\ \A i \in DOMAIN config.outbounds : config.outbounds[i].tag # ""
  /\ IsInjective([i \in DOMAIN config.outbounds |-> config.outbounds[i].tag])
  /\ ValidateReferences(config)

(* ApiService.config: the config, or 503.                                  *)
Preferred == choose_preferred_nodes(Rows)
Config == build_client_config(Preferred)
ConfigServed == /\ Preferred # <<>>
                /\ \A i \in DOMAIN Preferred : Convertible(Preferred[i])
                /\ validate_config_shape(Config)

(* The subscription of /sub, or 503; the page of /connect lists the same   *)
(* nodes.                                                                  *)
Linkable(node) == node.options # "incomplete"
Links == active_vless_nodes(Rows)
SubscriptionServed == Links # <<>> /\ \A i \in DOMAIN Links : Linkable(Links[i])

-----------------------------------------------------------------------------
(* The table's writers.                                                    *)

(* nodes.tag UNIQUE; a refused request changes nothing (but see            *)
(* NodeFleet.TagConflict).                                                 *)
TagFree(n, tag) == \A o \in DOMAIN nodes \ {n} : nodes[o].tag # tag

(* One request more.                                                       *)
Change == changes < MaxChanges /\ changes' = changes + 1

Upsert(node) ==
  /\ TagFree(node.id, node.tag)
  /\ nodes' = [n \in DOMAIN nodes \cup {node.id} |-> IF n = node.id THEN node ELSE nodes[n]]

(* What _node_from_payload makes of the options of a POST: VLESS needs all *)
(* the fields of a link; those of other protocols are ignored.  (Variant:  *)
(* only the identity of the user is needed.)                               *)
LenientPayloadOptions(protocol, given) ==
  IF protocol # "vless" THEN {"none"} ELSE {given} \ {"own"}
PayloadOptions(protocol, given) ==
  IF protocol # "vless" THEN {"none"} ELSE {given} \ {"own", "incomplete"}

PostNode ==
  /\ Change
  /\ \E n \in NodeIds, tag \in Tags, protocol \in Protocols, given \in {"fields", "incomplete", "own"},
        admission \in Admissions, priority \in Priorities :
       \E options \in PayloadOptions(protocol, given) :
         LET row == [Fresh EXCEPT !.status = admission.status, !.health = admission.health]
         IN  Upsert(VpnNode(n, row, tag, protocol, options, priority))

(* parse_vless_url: the tag is the label, the fragment or the host, never  *)
(* empty; the id may be chosen or follow from the label.                   *)
ImportVless ==
  /\ Change
  /\ \E n \in NodeIds, tag \in Tags \ {""}, enabled \in BOOLEAN, priority \in Priorities :
       Upsert(VpnNode(n, Enabled(Fresh, enabled), tag, "vless", "raw_url", priority))

(* admin_patch_node: any of the three may be given.                        *)
PatchNode ==
  /\ Change
  /\ \E n \in DOMAIN nodes, enabled \in BOOLEAN \cup {None}, priority \in Priorities \cup {None},
        label \in Tags \cup {None} :
       LET node == IF enabled = None THEN nodes[n] ELSE Enabled(nodes[n], enabled)
       IN  Upsert([node EXCEPT !.priority = Given(priority, @),
                               !.tag = IF node.options \in Vless THEN Given(label, @) ELSE @])

DisableNode == Change /\ \E n \in DOMAIN nodes : Upsert(Enabled(nodes[n], FALSE))

UpdateNodeHealth(n, report) ==
  /\ Change
  /\ nodes' = [nodes EXCEPT ![n] = VpnNode(n, Updated(@, report), @.tag, @.protocol,
                                           @.options, @.priority)]

(* The requests of the clients only read.                                  *)
ReadConfig == UNCHANGED vars

-----------------------------------------------------------------------------
(* An empty database is filled from the environment or, if that names no   *)
(* node, with demo nodes.                                                  *)
EnvNode(n, tag, enabled, priority) ==
  VpnNode(n, Enabled(Fresh, enabled), tag, "vless", "fields", priority)
EnvTables ==
  UNION {{[n \in ids |-> EnvNode(n, tag[n], enabled[n], priority)] :
            tag \in Injection(ids, EnvTags), enabled \in [ids -> BOOLEAN], priority \in Priorities} :
           ids \in SUBSET NodeIds \ {{}}}

Measured(status, health, score, rate, latency) ==
  [status |-> status, health |-> health, score |-> score, rate |-> rate, latency |-> latency]
DemoNodes(id) ==
  <<VpnNode(id[1], Measured("active", "healthy", 98, 9900, 55), DemoTags[1], "vless", "fields", 10),
    VpnNode(id[2], Measured("active", "healthy", 92, 9700, 70), DemoTags[2], "shadowsocks", "own", 20),
    VpnNode(id[3], Measured("draining", "healthy", 70, 9200, 140), DemoTags[3], "vless", "fields", 30),
    VpnNode(id[4], Measured("disabled", "disabled", 10, 1000, 350), DemoTags[4], "vless", "fields", 40)>>
DemoTables ==
  {[n \in Range(id) |-> DemoNodes(id)[CHOOSE i \in 1..4 : id[i] = n]] : id \in Injection(1..4, NodeIds)}

Init == nodes \in EnvTables \cup DemoTables /\ changes = 0

Next == \/ PostNode \/ ImportVless \/ PatchNode \/ DisableNode
        \/ \E n \in DOMAIN nodes, report \in Reports : UpdateNodeHealth(n, report)
        \/ ReadConfig

Spec == Init /\ [][Next]_vars

-----------------------------------------------------------------------------
(* Only two kinds of request can take the config from the clients: one     *)
(* that gives a node an empty or a reserved tag, and a POST of a node of   *)
(* another protocol than VLESS, whose options it drops.  As long as none   *)
(* of the nodes chosen is from such a request, every client gets a config  *)
(* whenever any node is usable.                                            *)
Unservable(node) == node.tag \in Reserved \cup {""} \/ node.options = "none"
ProperNodesServe ==
  (\A i \in DOMAIN Preferred : ~Unservable(Preferred[i])) =>
    (ConfigServed <=> \E n \in DOMAIN nodes : Usable(nodes[n]))

(* A usable VLESS node is in every subscription, once, whatever request    *)
(* brought it, and no node can take the subscription from the clients:     *)
(* what the requests admit, _vless_link can write.                         *)
UsableNodesAreLinked ==
  LET usable == {n \in DOMAIN nodes : nodes[n].protocol = "vless" /\ Usable(nodes[n])}
  IN  /\ SubscriptionServed <=> usable # {}
      /\ {Links[i].id : i \in DOMAIN Links} = usable /\ Len(Links) = Cardinality(usable)

(* Everything a served config refers to is in it, once: the members of the *)
(* urltest, the detours of the DNS servers and of the rule sets, the       *)
(* targets and the rule sets of the rules.                                 *)
ServedConfigsAreClosed ==
  ConfigServed =>
    LET tags == OutboundTags(Config)
        proxies == Config.outbounds[1].members
        rules == Config.route.rules
        sets == {s.tag : s \in Config.route.rule_set}
        servers == {s.tag : s \in Config.dns.servers}
    IN  /\ Cardinality(tags) = Len(Config.outbounds)
        /\ ToSet(proxies) = {Preferred[i].tag : i \in DOMAIN Preferred}
        /\ ToSet(proxies) \cap Reserved = {}
        /\ {s.detour : s \in Config.dns.servers} \cup {s.download_detour : s \in Config.route.rule_set}
             \cup {rules[i].target : i \in DOMAIN rules} \cup {Config.route.final} \subseteq tags
        /\ UNION {rules[i].entries : i \in {j \in DOMAIN rules : rules[j].field = "rule_set"}} \subseteq sets
        /\ {Config.dns.rules[i].target : i \in DOMAIN Config.dns.rules} \cup {Config.dns.final} \subseteq servers

(* A better report of a node never drops it from the configs.              *)
NoWorse(after, before) ==
  /\ after.score >= before.score /\ after.rate >= before.rate /\ Usable(after)
  /\ Known(before.latency) /\ Known(after.latency) /\ after.latency <= before.latency
Chosen(n) == \E i \in DOMAIN Preferred : Preferred[i].id = n
BetterReportsKeepNodes ==
  [][\A n \in DOMAIN nodes : \A report \in Reports :
       UpdateNodeHealth(n, report) /\ NoWorse(nodes'[n], nodes[n]) /\ Chosen(n) => Chosen(n)']_vars

(* A host that is reached directly is not looked up through the VPN, and   *)
(* the other way round, unless only a downloaded rule set knows it.        *)
NamesFollowRoutes ==
  \A host \in Hosts :
    LET direct == Target(Config.route.rules, host, Config.route.final) = "direct"
        atHome == Target(Config.dns.rules, host, Config.dns.final) = "ru-dns"
    IN  /\ atHome => direct
        /\ direct /\ ~atHome => host \cap {"geosite-ru", "geoip-ru"} # {}
=============================================================================
