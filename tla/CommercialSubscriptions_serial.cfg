\* One request at a time: what the handlers promise when they do not overlap.
CONSTANTS
  t1 = t1
  t2 = t2
  k1 = k1
  k2 = k2
  p1 = p1
  p2 = p2
  d1 = d1
  Threads = {t1}
  Tokens = {k1}
  Devices = {d1}
  Payments = {p1}
  Durations = {1, 2}
  CheckoutMode = "yookassa"
  Repository = "sqlite"
  None = None
  MaxTime = 1
  MaxDeliveries = 3
  MaxAdmin = 1
  MaxClient = 1
  MaxFailures = 2
SPECIFICATION FairSpec
INVARIANTS
  GrantedDaysAreKept
PROPERTIES
  ExpiryNeverMovesBack
  PaidLinkBecomesActive
