---------------------------- MODULE RulesEngine ----------------------------
(***************************************************************************)
(* The rules of every client config: which hosts are reached directly,     *)
(* which through the VPN, and which DNS server is asked for them.  The     *)
(* lists of names are abstracted to one entry each: a host is the set of   *)
(* the entries that match it.                                              *)
(***************************************************************************)
EXTENDS Naturals, Sequences

RemoteRuleSets == {[tag |-> "geosite-ru", download_detour |-> "direct"],
                   [tag |-> "geoip-ru", download_detour |-> "direct"]}

DEFAULT_DIRECT == [domain_suffixes |-> {"RussianSuffixes"}, domains |-> {"RussianServices"},
                   rule_sets |-> {"geosite-ru", "geoip-ru"}, outbound |-> "direct"]
DEFAULT_PROXY == [domain_suffixes |-> {}, domains |-> {"BlockedServices"},
                  rule_sets |-> {}, outbound |-> "auto"]

(* A service is in one of the two lists; all else may coincide.            *)
Hosts == {host \in SUBSET {"RussianSuffixes", "RussianServices", "geosite-ru", "geoip-ru",
                           "BlockedServices"} :
            ~({"RussianServices", "BlockedServices"} \subseteq host)}

Rule(field, entries, target) == [field |-> field, entries |-> entries, target |-> target]
NonEmpty(rule) == IF rule.entries = {} THEN <<>> ELSE <<rule>>

to_route_rules(category) ==
  NonEmpty(Rule("domain_suffix", category.domain_suffixes, category.outbound))
  \o NonEmpty(Rule("domain", category.domains, category.outbound))
  \o NonEmpty(Rule("rule_set", category.rule_sets, category.outbound))
(* (Variant: the suffixes are forgotten.)                                  *)
DnsRulesOfDomains(category, server) ==
  NonEmpty(Rule("domain", category.domains, server))
to_dns_rules(category, server) ==
  NonEmpty(Rule("domain_suffix", category.domain_suffixes, server))
  \o NonEmpty(Rule("domain", category.domains, server))

(* The packets of DNS itself match no host.                                *)
route_rules == <<Rule("protocol", {"dns"}, "direct")>>
               \o to_route_rules(DEFAULT_DIRECT) \o to_route_rules(DEFAULT_PROXY)
dns_rules == to_dns_rules(DEFAULT_DIRECT, "ru-dns")

(* How sing-box reads a list of rules: the first that matches decides.     *)
Target(rules, host, final) ==
  LET matching == {i \in DOMAIN rules : rules[i].entries \cap host # {}}
  IN  IF matching = {} THEN final
      ELSE rules[CHOOSE i \in matching : \A j \in matching : i <= j].target
=============================================================================
