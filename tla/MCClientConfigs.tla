-------------------------- MODULE MCClientConfigs --------------------------
(* A small instance of ClientConfigs. *)
EXTENDS ClientConfigs

CONSTANTS n1, n2, n3, n4

Symmetry == Permutations(NodeIds)

MCTagOrder == <<"", "auto", "eu-1", "eu-2", "off", "us-1">>
MCEnvTags == {"eu-1", "eu-2"}
MCDemoTags == <<"eu-1", "eu-2", "us-1", "off">>
MCPriorities == {10, 600}
MCAdmissions == {[status |-> "active", health |-> "healthy"], [status |-> "disabled", health |-> "disabled"]}

Report(status, health, score, rate, latency) ==
  [status |-> status, health |-> health, score |-> score, rate |-> rate, latency |-> latency]
MCReports == {Report(None, None, 100, None, None),
              Report("active", "healthy", 95, 9900, 55),
              Report("active", "healthy", 95, 9900, 140),
              Report(None, "degraded", 50, 6500, None)}
=============================================================================
