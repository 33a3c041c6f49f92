\* Two activations of one link on two threads.
CONSTANTS
  t1 = t1
  t2 = t2
  k1 = k1
  k2 = k2
  p1 = p1
  p2 = p2
  d1 = d1
  Threads = {t1, t2}
  Tokens = {k1}
  Devices = {d1}
  Payments = {p1}
  Durations = {1}
  CheckoutMode = "crypto_manual"
  Repository = "sqlite"
  None = None
  MaxTime = 0
  MaxDeliveries = 1
  MaxAdmin = 2
  MaxClient = 0
  MaxFailures = 0
SPECIFICATION Spec
INVARIANTS
  GrantedDaysAreKept
