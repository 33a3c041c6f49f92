--------------------------- MODULE ExchangeRates ---------------------------
(***************************************************************************)
(* ExchangeRateService: the rates of all coins, fetched together at most   *)
(* every quarter of an hour and shared by all request threads under a      *)
(* lock, which a thread also holds while it waits for the provider.        *)
(* A rate is abstracted to the time it was quoted.                         *)
(***************************************************************************)
EXTENDS RequestThreads

CONSTANTS Coins,     \* the provider's coin ids
          CacheTTL   \* _CACHE_TTL

ASSUME CacheAssumption == CacheTTL \in Nat

VARIABLES
  rates,         \* _rates: when the rate of each coin was quoted, None if unknown
  last_updated,  \* _last_updated
  lock,          \* the thread that holds _lock, None if it is free
  lookup         \* the call of _get_rate of each thread

exchange == <<rates, last_updated, lock, lookup>>

NoLookup == [at |-> "none", coin |-> None, checked |-> None, failed |-> FALSE, quoted |-> None]

(* _get_rate is called.                                                    *)
GetRate(t, coin) ==
  /\ lookup[t] = NoLookup
  /\ lookup' = [lookup EXCEPT ![t] = [NoLookup EXCEPT !.at = "wait", !.coin = coin]]
  /\ UNCHANGED <<rates, last_updated, lock>>

(* with self._lock.  (Variant: without.)                                   *)
AcquireNothing(t) ==
  /\ lookup[t].at = "wait"
  /\ lookup' = [lookup EXCEPT ![t].at = "check"]
  /\ UNCHANGED <<rates, last_updated, lock>>
Acquire(t) ==
  /\ lookup[t].at = "wait" /\ lock = None
  /\ lock' = t
  /\ lookup' = [lookup EXCEPT ![t].at = "check"]
  /\ UNCHANGED <<rates, last_updated>>

IsStale == last_updated = None \/ now - last_updated > CacheTTL

CheckAge(t) ==
  /\ lookup[t].at = "check"
  /\ lookup' = [lookup EXCEPT ![t].at = IF IsStale THEN "refresh" ELSE "read",
                              ![t].checked = now]
  /\ UNCHANGED <<rates, last_updated, lock>>

(* _refresh_locked: the provider answers for some of the coins, and the    *)
(* answer replaces the whole table.  (Variant: it is added to the table.)  *)
Updated(answered) ==
  [coin \in Coins |-> IF coin \in answered THEN now ELSE rates[coin]]
Replaced(answered) ==
  [coin \in Coins |-> IF coin \in answered THEN now ELSE None]

Refresh(t) ==
  /\ lookup[t].at = "refresh"
  /\ \E answered \in SUBSET Coins \ {{}} : rates' = Replaced(answered)
  /\ last_updated' = now
  /\ lookup' = [lookup EXCEPT ![t].at = "read"]
  /\ UNCHANGED <<lock>>

(* No answer in 8 seconds, an empty or an unreadable one: the old rates    *)
(* are served, however old.  The fixed provider asks nobody: it behaves as *)
(* one that never answers.  (Variant: the thread tries again.)             *)
TryAgain(t) ==
  /\ lookup[t].at = "refresh"
  /\ lookup' = [lookup EXCEPT ![t].at = "wait", ![t].failed = TRUE]
  /\ lock' = None
  /\ UNCHANGED <<rates, last_updated>>
KeepRates(t) ==
  /\ lookup[t].at = "refresh"
  /\ lookup' = [lookup EXCEPT ![t].at = "read", ![t].failed = TRUE]
  /\ UNCHANGED <<rates, last_updated, lock>>

(* _rates.get, and the lock is released.                                   *)
ReadRate(t) ==
  /\ lookup[t].at = "read"
  /\ lookup' = [lookup EXCEPT ![t].at = "done", ![t].quoted = rates[lookup[t].coin]]
  /\ lock' = None
  /\ UNCHANGED <<rates, last_updated>>

RateStep(t) == Acquire(t) \/ CheckAge(t) \/ Refresh(t) \/ KeepRates(t) \/ ReadRate(t)

RateTaken(t) == /\ lookup[t].at = "done"
                /\ lookup' = [lookup EXCEPT ![t] = NoLookup]
                /\ UNCHANGED <<rates, last_updated, lock>>

RatesInit ==
  /\ rates = [coin \in Coins |-> None] /\ last_updated = None
  /\ lock = None
  /\ lookup = [t \in Threads |-> NoLookup]

-----------------------------------------------------------------------------
Lookups == [at : {"none", "wait", "check", "refresh", "read", "done"}, coin : Coins \cup {None},
            checked : Times \cup {None}, failed : BOOLEAN, quoted : Times \cup {None}]

(* Every variable has its type: a cached rate and the time of the last     *)
(* refresh are times of the clock, and a thread or nobody has the lock.    *)
RatesTypeOK ==
  /\ rates \in [Coins -> Times \cup {None}] /\ last_updated \in Times \cup {None}
  /\ lock \in Threads \cup {None}
  /\ lookup \in [Threads -> Lookups]

(* An amount is computed from a rate that was at most a quarter of an hour *)
(* old when the cache was looked at, unless this very call asked the       *)
(* provider in vain.                                                       *)
QuotesAreFresh ==
  \A t \in Threads :
    lookup[t].at = "done" /\ lookup[t].quoted # None /\ ~lookup[t].failed =>
      lookup[t].checked - lookup[t].quoted <= CacheTTL

(* However many threads find the rates out of date at once, the provider's *)
(* answer is taken once in a quarter of an hour.                           *)
AnswersAreSpaced ==
  [][last_updated' # last_updated /\ last_updated # None => now - last_updated > CacheTTL]_last_updated
=============================================================================
