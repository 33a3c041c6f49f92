\* Two request threads on one connection, YooKassa checkout.
CONSTANTS
  t1 = t1
  t2 = t2
  k1 = k1
  k2 = k2
  p1 = p1
  p2 = p2
  d1 = d1
  Threads = {t1, t2}
  Tokens = {k1, k2}
  Devices = {d1}
  Payments = {p1}
  Durations = {1}
  CheckoutMode = "yookassa"
  Repository = "sqlite"
  None = None
  MaxTime = 0
  MaxDeliveries = 1
  MaxAdmin = 1
  MaxClient = 1
  MaxFailures = 1
SPECIFICATION Spec
SYMMETRY Symmetry
INVARIANTS
  TypeOK
  ActivationHasCause
  PaymentHasDurableToken
  TokenAccountsAreClaimed
  AnswersAreDurable
PROPERTIES
  ImplementsLifecycle
