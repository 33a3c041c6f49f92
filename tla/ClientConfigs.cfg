CONSTANTS
  n1 = n1
  n2 = n2
  n3 = n3
  n4 = n4
  None = None
  NodeIds = {n1, n2, n3, n4}
  Latencies = {0, 55, 70, 140, 350}
  TagOrder <- MCTagOrder
  EnvTags <- MCEnvTags
  DemoTags <- MCDemoTags
  Priorities <- MCPriorities
  Admissions <- MCAdmissions
  Reports <- MCReports
  PreferredLimit = 2
  MaxChanges = 2
SYMMETRY Symmetry
SPECIFICATION Spec
INVARIANTS
  ProperNodesServe
  UsableNodesAreLinked
  ServedConfigsAreClosed
  NamesFollowRoutes
PROPERTY
  BetterReportsKeepNodes
