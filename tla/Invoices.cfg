CONSTANTS
  Threads = {t1, t2}
  None = None
  Clients = {"client"}
  Limit = 1
  Window = 1
  Coins = {"tether", "bitcoin"}
  CacheTTL = 1
  Configured <- MCConfigured
  MaxTime = 2
  MaxRequests = 3
SPECIFICATION FairSpec
INVARIANTS
  LimitHoldsWhenCalm
  RefusalsAreEarned
  OvershootIsBounded
  OnlyCrossedCallsFail
  QuotesAreFresh
PROPERTIES
  AnswersAreSpaced
  RequestsEnd
