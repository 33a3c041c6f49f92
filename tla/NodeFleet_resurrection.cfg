\* A node is disabled while a run is under way.
CONSTANTS
  n1 = n1
  n2 = n2
  t1 = t1
  t2 = t2
  None = None
  Nodes = {n1}
  Seeded = {n1}
  Threads = {t1}
  Latencies = {40}
  Retention = 0
  IncludeDisabled = FALSE
  MaxTime = 0
  MaxRuns = 1
  MaxAdmin = 1
  MaxFailures = 1
SPECIFICATION Spec
INVARIANTS
  DisabledStaysOut
