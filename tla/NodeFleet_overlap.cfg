\* Runs of the worker and two administrators on one node, while days go by.
CONSTANTS
  n1 = n1
  n2 = n2
  t1 = t1
  t2 = t2
  None = None
  Nodes = {n1}
  Seeded = {n1}
  Threads = {t1, t2}
  Latencies = {40}
  Retention = 1
  IncludeDisabled = FALSE
  MaxTime = 2
  MaxRuns = 2
  MaxAdmin = 2
  MaxFailures = 1
SPECIFICATION Spec
SYMMETRY Symmetry
INVARIANTS
  OnlyOverlapRevives
  AnsweredChangesAreAudited
PROPERTIES
  RetentionIsEnforced
