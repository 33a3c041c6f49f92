\* Any number of probes of one node over a fast, a slow and a dead link.
CONSTANTS
  None = None
  Latencies = {0, 170, 600}
  IncludeDisabled = TRUE
  Reports <- MCReports
SPECIFICATION FairSpec
INVARIANTS
  TypeOK
  ServedNodesAnswered
  FourAnswersServe
PROPERTIES
  ProbesNeverEnable
  PromptAnswersNeverDisable
  ReachableNodeIsServed
