--------------------------- MODULE Invoices_proofs ---------------------------
(* What holds of the pages of invoices for any threads, clients and coins, *)
(* any limit, any age of the cache and every bound.                        *)
EXTENDS Invoices, FiniteSetTheorems, TLAPS

-----------------------------------------------------------------------------
(* The cache.  None of its properties is inductive: a rate is fresh because *)
(* nobody else has come between the look at its age and the read, which is  *)
(* what the lock is for.                                                    *)

Locked == {"check", "refresh", "read"}

(* What a thread in _get_rate relies on. *)
LookupSound(t) ==
  LET l == lookup[t]
  IN  /\ l.at # "none" => l.coin \in Coins
      /\ l.at \in Locked => lock = t
      /\ l.at \in {"refresh", "read", "done"} => l.checked \in Times /\ l.checked <= now
      /\ l.at = "refresh" => last_updated = None \/ l.checked - last_updated > CacheTTL
      /\ l.at = "read" /\ ~l.failed => last_updated # None /\ l.checked - last_updated <= CacheTTL
      /\ l.at = "done" /\ ~l.failed /\ l.quoted # None => l.checked - l.quoted <= CacheTTL

(* All known rates come from the newest answer. *)
RatesDated == /\ last_updated # None => last_updated <= now
              /\ \A coin \in Coins : rates[coin] # None => rates[coin] = last_updated

CacheInv == /\ now \in Times
            /\ RatesTypeOK
            /\ RatesDated
            /\ \A t \in Threads : LookupSound(t)

LEMMA CacheTypes ==
  ASSUME CacheInv, NEW t \in Threads
  PROVE  /\ now \in Int /\ CacheTTL \in Nat /\ None \notin Int
         /\ last_updated # None => last_updated \in Int
         /\ lookup[t].checked # None => lookup[t].checked \in Int
         /\ lookup \in [Threads -> Lookups]
         /\ lookup[t] \in Lookups
  BY ClockAssumption, NothingAssumption, CacheAssumption DEF CacheInv, RatesTypeOK, Lookups, Times

LEMMA CacheStart == Init => CacheInv
<1> SUFFICES ASSUME Init PROVE CacheInv
  OBVIOUS
<1>1. now \in Times
  BY ClockAssumption DEF Init, Times
<1>2. RatesTypeOK
  BY DEF Init, RatesInit, RatesTypeOK, Lookups, NoLookup
<1>3. RatesDated
  BY DEF Init, RatesInit, RatesDated
<1>4. \A t \in Threads : LookupSound(t)
  BY DEF Init, RatesInit, NoLookup, LookupSound, Locked
<1> QED BY <1>1, <1>2, <1>3, <1>4 DEF CacheInv

(* The steps of others: the lock keeps them from the rates. *)
LEMMA SoundOfOthers ==
  ASSUME CacheInv, NEW t \in Threads, NEW u \in Threads, u # t,
         lookup'[u] = lookup[u], now' = now,
         lock' \in {lock, None, t},
         lock \in {t, None},
         UNCHANGED <<rates, last_updated>> \/ lookup[t].at \in Locked
  PROVE  LookupSound(u)'
<1>1. LookupSound(u)
  BY DEF CacheInv
<1>2. None \notin Threads
  BY NothingAssumption
<1>3. lookup[u].at \notin Locked
  BY <1>1, <1>2 DEF LookupSound
<1> QED BY <1>1, <1>3 DEF LookupSound, Locked

LEMMA CacheStep ==
  ASSUME CacheInv, NEW t \in Threads, RateStep(t), UNCHANGED now
  PROVE  CacheInv'
<1> DEFINE l == lookup[t]
<1>0. /\ lookup \in [Threads -> Lookups] /\ l \in Lookups
      /\ now \in Int /\ CacheTTL \in Nat /\ None \notin Int
      /\ last_updated # None => last_updated \in Int
  BY CacheTypes
<1>a. now' \in Times /\ now \in Times /\ LookupSound(t) /\ RatesDated /\ RatesTypeOK
  BY DEF CacheInv
<1>b. None \notin Threads
  BY NothingAssumption
<1>1. CASE Acquire(t)
  <2>1. RatesTypeOK'
    BY <1>0, <1>a, <1>1 DEF Acquire, RatesTypeOK, Lookups
  <2>2. RatesDated'
    BY <1>a, <1>1 DEF Acquire, RatesDated
  <2>3. LookupSound(t)'
    BY <1>0, <1>a, <1>1 DEF Acquire, LookupSound, Locked, Lookups
  <2>4. \A u \in Threads \ {t} : LookupSound(u)'
    BY <1>0, <1>1, SoundOfOthers DEF Acquire
  <2> QED BY <1>a, <2>1, <2>2, <2>3, <2>4 DEF CacheInv
<1>2. CASE CheckAge(t)
  <2>1. RatesTypeOK'
    BY <1>0, <1>a, <1>2 DEF CheckAge, RatesTypeOK, Lookups
  <2>2. RatesDated'
    BY <1>a, <1>2 DEF CheckAge, RatesDated
  <2>3. LookupSound(t)'
    BY <1>0, <1>a, <1>2 DEF CheckAge, LookupSound, Locked, IsStale
  <2>4. lock = t
    BY <1>a, <1>2 DEF CheckAge, LookupSound, Locked
  <2>5. \A u \in Threads \ {t} : LookupSound(u)'
    BY <1>0, <1>2, <2>4, SoundOfOthers DEF CheckAge
  <2> QED BY <1>a, <2>1, <2>2, <2>3, <2>5 DEF CacheInv
<1>3. CASE Refresh(t)
  <2>0. PICK answered \in SUBSET Coins \ {{}} : rates' = Replaced(answered)
    BY <1>3 DEF Refresh
  <2>1. RatesTypeOK'
    BY <1>0, <1>a, <1>3, <2>0 DEF Refresh, RatesTypeOK, Lookups, Replaced
  <2>2. RatesDated'
    BY <1>0, <1>3, <2>0 DEF Refresh, RatesDated, Replaced
  <2>3. LookupSound(t)'
    <3>1. l.at = "refresh" /\ lookup' = [lookup EXCEPT ![t].at = "read"] /\ lock' = lock
          /\ last_updated' = now
      BY <1>3 DEF Refresh
    <3>2. l.coin \in Coins /\ lock = t /\ l.checked \in Times /\ l.checked <= now
      BY <1>a, <3>1 DEF LookupSound, Locked
    <3>3. l.checked \in Int /\ l.checked - now <= CacheTTL /\ now # None
      BY <1>0, <3>2, ClockAssumption DEF Times
    <3>4. lookup'[t] = [l EXCEPT !.at = "read"]
      BY <1>0, <3>1
    <3>5. lookup'[t].at = "read" /\ lookup'[t].coin = l.coin /\ lookup'[t].checked = l.checked
      BY <1>0, <3>4 DEF Lookups
    <3> QED BY <1>a, <3>1, <3>2, <3>3, <3>5 DEF LookupSound, Locked
  <2>4. lock = t /\ l.at \in Locked
    BY <1>a, <1>3 DEF Refresh, LookupSound, Locked
  <2>5. \A u \in Threads \ {t} : LookupSound(u)'
    BY <1>0, <1>3, <2>4, SoundOfOthers DEF Refresh
  <2> QED BY <1>a, <2>1, <2>2, <2>3, <2>5 DEF CacheInv
<1>4. CASE KeepRates(t)
  <2>1. RatesTypeOK'
    BY <1>0, <1>a, <1>4 DEF KeepRates, RatesTypeOK, Lookups
  <2>2. RatesDated'
    BY <1>a, <1>4 DEF KeepRates, RatesDated
  <2>3. LookupSound(t)'
    BY <1>0, <1>a, <1>4 DEF KeepRates, LookupSound, Locked
  <2>4. lock = t
    BY <1>a, <1>4 DEF KeepRates, LookupSound, Locked
  <2>5. \A u \in Threads \ {t} : LookupSound(u)'
    BY <1>0, <1>4, <2>4, SoundOfOthers DEF KeepRates
  <2> QED BY <1>a, <2>1, <2>2, <2>3, <2>5 DEF CacheInv
<1>5. CASE ReadRate(t)
  <2>0. /\ l.at = "read" /\ lock' = None
        /\ lookup' = [lookup EXCEPT ![t] = [l EXCEPT !.at = "done", !.quoted = rates[l.coin]]]
        /\ UNCHANGED <<rates, last_updated>>
    BY <1>5, Zenon DEF ReadRate
  <2>1. l.coin \in Coins /\ lock = t /\ l.checked \in Times /\ l.checked <= now
        /\ (~l.failed => last_updated # None /\ l.checked - last_updated <= CacheTTL)
    BY <1>a, <2>0 DEF LookupSound, Locked
  <2>2. rates[l.coin] \in Times \cup {None}
        /\ (rates[l.coin] # None => rates[l.coin] = last_updated)
    BY <1>a, <2>1 DEF RatesTypeOK, RatesDated
  <2>3. lookup'[t] = [l EXCEPT !.at = "done", !.quoted = rates[l.coin]]
    BY <1>0, <2>0
  <2>4. RatesTypeOK'
    <3>1. [l EXCEPT !.at = "done", !.quoted = rates[l.coin]] \in Lookups
      BY <1>0, <2>2 DEF Lookups
    <3> QED BY <1>0, <1>a, <2>0, <3>1 DEF RatesTypeOK
  <2>5. RatesDated'
    BY <1>a, <2>0 DEF RatesDated
  <2>6. LookupSound(t)'
    BY <1>0, <1>a, <2>0, <2>1, <2>2, <2>3 DEF LookupSound, Locked, Lookups
  <2>7. \A u \in Threads \ {t} : LookupSound(u)'
    BY <1>0, <2>0, <2>1, SoundOfOthers
  <2> QED BY <1>a, <2>4, <2>5, <2>6, <2>7 DEF CacheInv
<1> QED BY <1>1, <1>2, <1>3, <1>4, <1>5 DEF RateStep

(* Asking for a rate and taking it: only the thread's own call changes.    *)
LEMMA CallChanges ==
  ASSUME CacheInv, NEW t \in Threads, UNCHANGED <<now, rates, last_updated, lock>>,
         NEW called \in Lookups, lookup' = [lookup EXCEPT ![t] = called],
         called.at \in {"none", "wait"}, called.at # "none" => called.coin \in Coins
  PROVE  CacheInv'
<1>0. lookup \in [Threads -> Lookups] /\ RatesTypeOK /\ RatesDated /\ now \in Times
  BY DEF CacheInv, RatesTypeOK
<1>1. RatesTypeOK'
  BY <1>0 DEF RatesTypeOK
<1>2. RatesDated'
  BY <1>0 DEF RatesDated
<1>3. lookup'[t] = called
  BY <1>0
<1>4. LookupSound(t)'
  BY <1>3 DEF LookupSound, Locked
<1>5. ASSUME NEW u \in Threads \ {t} PROVE LookupSound(u)'
  <2>1. lookup'[u] = lookup[u] /\ LookupSound(u)
    BY <1>0 DEF CacheInv
  <2> QED BY <2>1 DEF LookupSound
<1> QED BY <1>0, <1>1, <1>2, <1>4, <1>5 DEF CacheInv

LEMMA CallStep ==
  ASSUME CacheInv, NEW t \in Threads, UNCHANGED now,
         \/ RateTaken(t)
         \/ \E coin \in Coins : GetRate(t, coin)
  PROVE  CacheInv'
<1>1. CASE RateTaken(t)
  <2>1. NoLookup \in Lookups /\ NoLookup.at = "none"
    BY DEF NoLookup, Lookups
  <2> QED BY <1>1, <2>1, CallChanges DEF RateTaken
<1>2. ASSUME NEW coin \in Coins, GetRate(t, coin)
      PROVE  CacheInv'
  <2> DEFINE called == [NoLookup EXCEPT !.at = "wait", !.coin = coin]
  <2>1. called \in Lookups /\ called.at = "wait" /\ called.coin = coin
    BY DEF NoLookup, Lookups
  <2>2. lookup' = [lookup EXCEPT ![t] = called] /\ UNCHANGED <<rates, last_updated, lock>>
    BY <1>2 DEF GetRate
  <2> HIDE DEF called
  <2> QED BY <2>1, <2>2, CallChanges
<1> QED BY <1>1, <1>2

LEMMA TimePasses == CacheInv /\ Advance /\ UNCHANGED exchange => CacheInv'
<1> SUFFICES ASSUME CacheInv, Advance, UNCHANGED exchange PROVE CacheInv'
  OBVIOUS
<1>0. now \in Int /\ MaxTime \in Nat /\ now' = now + 1 /\ now' \in Times
      /\ (last_updated # None => last_updated \in Int)
  BY ClockAssumption, CacheTypes DEF CacheInv, Advance, Times, RatesTypeOK
<1>1. RatesTypeOK'
  BY DEF CacheInv, RatesTypeOK, exchange
<1>2. RatesDated'
  BY <1>0 DEF CacheInv, RatesDated, exchange
<1>3. ASSUME NEW t \in Threads PROVE LookupSound(t)'
  <2>1. LookupSound(t) /\ lookup'[t] = lookup[t] /\ UNCHANGED <<last_updated, lock>>
    BY DEF CacheInv, exchange
  <2>2. lookup[t].checked \in Times => lookup[t].checked \in Int
    BY ClockAssumption DEF Times
  <2> QED BY <1>0, <2>1, <2>2 DEF LookupSound
<1> QED BY <1>0, <1>1, <1>2, <1>3 DEF CacheInv

LEMMA NothingHappens == CacheInv /\ UNCHANGED <<now, exchange>> => CacheInv'
  BY DEF CacheInv, RatesTypeOK, RatesDated, LookupSound, exchange

(* Which coin an invoice is at. *)
PagesCount == page \in [Threads -> [at : {"idle", "invoice", "page", "coins"}, next : Nat]]
              /\ \A t \in Threads : page[t].at = "coins" => page[t].next > 0

LEMMA PagesStart == Init => PagesCount
  BY DEF Init, PagesCount, Idle

LEMMA PagesKept == PagesCount /\ [Next]_vars => PagesCount'
<1> SUFFICES ASSUME PagesCount, [Next]_vars PROVE PagesCount'
  OBVIOUS
<1>1. CASE UNCHANGED page
  BY <1>1 DEF PagesCount
<1>2. ASSUME NEW t \in Threads, NEW c \in Clients, NEW target \in {"invoice", "page"},
             Get(t, c, target)
      PROVE  PagesCount'
  BY <1>2 DEF PagesCount, Get, Idle
<1>3. ASSUME NEW t \in Threads, NEW new \in [at : {"idle", "coins"}, next : Nat],
             new.at = "coins" => new.next > 0, page' = [page EXCEPT ![t] = new]
      PROVE  PagesCount'
  BY <1>3 DEF PagesCount
<1>4. ASSUME NEW t \in Threads, Proceed(t) \/ Respond(t) PROVE PagesCount'
  <2> DEFINE coins == [at |-> "coins", next |-> 1]
             idle == [at |-> "idle", next |-> 0]
  <2>1. page' = [page EXCEPT ![t] = coins] \/ page' = [page EXCEPT ![t] = idle]
    BY <1>4 DEF Proceed, Respond, Idle
  <2>2. /\ coins \in [at : {"idle", "coins"}, next : Nat] /\ coins.next > 0
        /\ idle \in [at : {"idle", "coins"}, next : Nat] /\ idle.at # "coins"
    OBVIOUS
  <2> HIDE DEF coins, idle
  <2> QED BY <1>3, <2>1, <2>2
<1>5. ASSUME NEW t \in Threads, FixedAmount(t) \/ Amount(t) PROVE PagesCount'
  <2>1. page' = [page EXCEPT ![t].next = page[t].next + 1]
    BY <1>5 DEF FixedAmount, Amount, NextCoin
  <2> QED BY <2>1 DEF PagesCount
<1>6. CASE UNCHANGED vars
  BY <1>1, <1>6 DEF vars
<1>7. CASE Next
  BY <1>1, <1>2, <1>4, <1>5, <1>6, <1>7
     DEF Next, Step, InLimiter, AskRate, LookUp, Tick, Quiet
<1> QED BY <1>6, <1>7

LEMMA CoinsAreKnown ==
  ASSUME PagesCount, NEW t \in Threads, Pending(t), Coin(t) # None
  PROVE  Coin(t) \in Coins
<1>1. page[t].next \in 1..Len(Configured)
  BY ConfiguredAssumption DEF Pending, PagesCount
<1> QED BY <1>1, ConfiguredAssumption DEF Coin

LEMMA CacheKept == CacheInv /\ PagesCount /\ [Next]_vars => CacheInv'
<1> SUFFICES ASSUME CacheInv, PagesCount, [Next]_vars PROVE CacheInv'
  OBVIOUS
<1>1. CASE UNCHANGED <<now, exchange>>
  BY <1>1, NothingHappens
<1>2. CASE Tick
  BY <1>2, TimePasses DEF Tick
<1>3. ASSUME NEW t \in Threads, LookUp(t) PROVE CacheInv'
  BY <1>3, CacheStep DEF LookUp
<1>4. ASSUME NEW t \in Threads, Amount(t) PROVE CacheInv'
  BY <1>4, CallStep DEF Amount
<1>5. ASSUME NEW t \in Threads, AskRate(t) PROVE CacheInv'
  BY <1>5, CoinsAreKnown, CallStep DEF AskRate
<1>6. CASE UNCHANGED vars
  BY <1>1, <1>6 DEF vars
<1>7. CASE Next
  BY <1>1, <1>2, <1>3, <1>4, <1>5, <1>6, <1>7
     DEF Next, Step, Get, InLimiter, Proceed, FixedAmount, Respond, Quiet
<1> QED BY <1>6, <1>7

LEMMA CacheAlways == Spec => [](CacheInv /\ PagesCount)
<1>1. Init => CacheInv /\ PagesCount
  BY CacheStart, PagesStart
<1>2. (CacheInv /\ PagesCount) /\ [Next]_vars => (CacheInv /\ PagesCount)'
  BY CacheKept, PagesKept
<1> QED BY <1>1, <1>2, PTL DEF Spec

(* The types of the cache and of what threads know of it. *)
THEOREM RatesAreTyped == Spec => []RatesTypeOK
<1>1. CacheInv => RatesTypeOK
  BY DEF CacheInv
<1> QED BY <1>1, CacheAlways, PTL

(* exchange_rates.py: a rate that is quoted was at most CacheTTL old when   *)
(* the cache was looked at, unless this call asked the provider in vain.    *)
THEOREM EveryQuoteIsFresh == Spec => []QuotesAreFresh
<1>1. CacheInv => QuotesAreFresh
  BY DEF CacheInv, LookupSound, QuotesAreFresh
<1> QED BY <1>1, CacheAlways, PTL

(* exchange_rates.py: two answers of the provider are more than CacheTTL    *)
(* apart, however many threads find the cache stale.                        *)
THEOREM EveryAnswerIsSpaced == Spec => AnswersAreSpaced
<1> DEFINE Spaced == last_updated' # last_updated /\ last_updated # None
                       => now - last_updated > CacheTTL
<1>1. CacheInv /\ [Next]_vars => [Spaced]_last_updated
  <2> SUFFICES ASSUME CacheInv, [Next]_vars, last_updated' # last_updated, last_updated # None
               PROVE  now - last_updated > CacheTTL
    OBVIOUS
  <2>1. PICK t \in Threads : Refresh(t)
    BY DEF Next, Step, Get, InLimiter, Proceed, AskRate, FixedAmount, LookUp, Amount, Respond,
           Tick, Quiet, vars, exchange, RateStep, Acquire, CheckAge, KeepRates, ReadRate,
           RateTaken, GetRate
  <2>2. lookup[t].at = "refresh" /\ LookupSound(t)
    BY <2>1 DEF Refresh, CacheInv
  <2>3. lookup[t].checked \in Times /\ lookup[t].checked <= now
        /\ lookup[t].checked - last_updated > CacheTTL
    BY <2>2 DEF LookupSound
  <2>4. lookup[t].checked \in Int /\ now \in Int /\ last_updated \in Int /\ CacheTTL \in Int
    BY <2>3, ClockAssumption, CacheAssumption DEF CacheInv, RatesTypeOK, Times
  <2> QED BY <2>3, <2>4
<1> QED BY <1>1, CacheAlways, PTL DEF Spec, AnswersAreSpaced

-----------------------------------------------------------------------------
(* The limiter, which has no lock: what a call has seen of its bucket is   *)
(* only known to be true as long as no other call of the client crosses it. *)

Calls == [at : {"none", "look", "peek", "pop", "count", "append"} \cup Results,
          key : Clients \cup {None}, current : Times \cup {None}, crossed : BOOLEAN]

LimiterTyped == /\ now \in Times
                /\ buckets \in [Clients -> Seq(Times)]
                /\ call \in [Threads -> Calls]
                /\ \A t \in Threads : call[t].at # "none" =>
                                        call[t].key \in Clients /\ call[t].current \in Times

(* Two calls of a client that are under way at once know it. *)
CrossingsNoted ==
  \A t, u \in Threads :
    t # u /\ Inside(t) /\ Inside(u) /\ call[t].key = call[u].key => call[t].crossed

(* A call that nobody crosses finds the bucket as it has left it. *)
UncrossedSound(t) ==
  ~call[t].crossed => /\ call[t].at \in {"peek", "pop"} => buckets[call[t].key] # <<>>
                      /\ call[t].at # "IndexError"

LimiterInv == LimiterTyped /\ CrossingsNoted /\ \A t \in Threads : UncrossedSound(t)

LEMMA LimiterStart == Init => LimiterInv
<1> SUFFICES ASSUME Init PROVE LimiterInv
  OBVIOUS
<1>1. LimiterTyped
  BY ClockAssumption DEF Init, LimiterInit, LimiterTyped, Calls, NoCall, Times
<1>2. \A t \in Threads : call[t].at = "none"
  BY DEF Init, LimiterInit, NoCall
<1> QED BY <1>1, <1>2 DEF LimiterInv, CrossingsNoted, UncrossedSound, Inside

(* A step of one call, which stays or ends: it may change the client's      *)
(* bucket, for every call of that client it crosses has been noted.         *)
LEMMA OneCallMoves ==
  ASSUME LimiterInv, NEW t \in Threads, Inside(t), UNCHANGED now,
         NEW location \in {"look", "peek", "pop", "count", "append"} \cup Results,
         Continue(t, location),
         NEW bucket \in Seq(Times), buckets' = [buckets EXCEPT ![call[t].key] = bucket],
         ~call[t].crossed => /\ location \in {"peek", "pop"} => bucket # <<>>
                             /\ location # "IndexError"
  PROVE  LimiterInv'
<1>0. /\ call \in [Threads -> Calls] /\ buckets \in [Clients -> Seq(Times)] /\ now \in Times
      /\ call' = [call EXCEPT ![t].at = location]
      /\ call[t].at # "none" /\ call[t].key \in Clients /\ call[t].current \in Times
  BY DEF LimiterInv, LimiterTyped, Continue, Inside
<1>1. /\ call'[t].at = location /\ call'[t].key = call[t].key /\ call'[t].current = call[t].current
      /\ call'[t].crossed = call[t].crossed
      /\ \A u \in Threads \ {t} : call'[u] = call[u]
  BY <1>0 DEF Calls
<1>2. LimiterTyped'
  <2>1. call' \in [Threads -> Calls]
    BY <1>0 DEF Calls
  <2>2. buckets' \in [Clients -> Seq(Times)]
    BY <1>0
  <2>3. \A u \in Threads : call'[u].at # "none" => call'[u].key \in Clients /\ call'[u].current \in Times
    BY <1>0, <1>1 DEF LimiterInv, LimiterTyped
  <2> QED BY <1>0, <2>1, <2>2, <2>3 DEF LimiterTyped
<1>3. CrossingsNoted'
  <2>1. \A u \in Threads : Inside(u)' => Inside(u)
    BY <1>1 DEF Inside
  <2>2. \A u \in Threads : call'[u].key = call[u].key /\ call'[u].crossed = call[u].crossed
    BY <1>1
  <2> QED BY <2>1, <2>2 DEF LimiterInv, CrossingsNoted
<1>4. UncrossedSound(t)'
  BY <1>0, <1>1 DEF UncrossedSound
<1>5. ASSUME NEW u \in Threads \ {t} PROVE UncrossedSound(u)'
  <2>1. UncrossedSound(u) /\ call'[u] = call[u]
    BY <1>1 DEF LimiterInv
  <2>2. CASE Inside(u) /\ call[u].key = call[t].key
    <3>1. call[u].crossed
      BY <2>2 DEF LimiterInv, CrossingsNoted
    <3> QED BY <2>1, <3>1 DEF UncrossedSound
  <2>3. CASE Inside(u) /\ call[u].key # call[t].key
    <3>1. call[u].key \in Clients
      BY <2>3 DEF LimiterInv, LimiterTyped, Inside
    <3>2. buckets'[call[u].key] = buckets[call[u].key]
      BY <1>0, <2>3, <3>1
    <3> QED BY <2>1, <3>2 DEF UncrossedSound
  <2>4. CASE ~Inside(u)
    BY <2>1, <2>4 DEF UncrossedSound, Inside, Results
  <2> QED BY <2>2, <2>3, <2>4
<1> QED BY <1>2, <1>3, <1>4, <1>5 DEF LimiterInv

LEMMA LimiterStep ==
  ASSUME LimiterInv, NEW t \in Threads, AllowStep(t), UNCHANGED now
  PROVE  LimiterInv'
<1> DEFINE key == call[t].key
<1>0. /\ key \in Clients /\ call[t].current \in Times
      /\ buckets \in [Clients -> Seq(Times)] /\ buckets[key] \in Seq(Times)
      /\ UncrossedSound(t) /\ Inside(t)
  <2>1. call[t].at \in {"look", "peek", "pop", "count", "append"}
    BY DEF AllowStep, LookAtBucket, PeekHead, PopHead, Count, AppendHit
  <2>2. Inside(t)
    BY <2>1 DEF Inside, Results
  <2> QED BY <2>1, <2>2 DEF LimiterInv, LimiterTyped
<1>1. Bucket(t) = buckets[key]
  BY DEF Bucket
<1>2. CASE UNCHANGED buckets
  <2>1. buckets' = [buckets EXCEPT ![key] = buckets[key]]
    BY <1>0, <1>2
  <2>2. PICK location \in {"look", "peek", "pop", "count", "append"} \cup Results :
          /\ Continue(t, location)
          /\ ~call[t].crossed => /\ location \in {"peek", "pop"} => buckets[key] # <<>>
                                 /\ location # "IndexError"
    <3>1. CASE LookAtBucket(t)
      BY <1>0, <1>1, <3>1 DEF LookAtBucket
    <3>2. CASE PeekHead(t)
      <4>1. call[t].at = "peek" /\ (~call[t].crossed => buckets[key] # <<>>)
        BY <1>0, <3>2 DEF PeekHead, UncrossedSound
      <4>2. CASE buckets[key] = <<>>
        BY <1>1, <3>2, <4>1, <4>2 DEF PeekHead, Finish, Results
      <4>3. CASE buckets[key] # <<>>
        BY <1>1, <3>2, <4>1, <4>3 DEF PeekHead
      <4> QED BY <4>2, <4>3
    <3>3. CASE PopHead(t)
      <4>1. call[t].at = "pop" /\ (~call[t].crossed => buckets[key] # <<>>)
        BY <1>0, <3>3 DEF PopHead, UncrossedSound
      <4>2. CASE buckets[key] = <<>>
        BY <1>1, <3>3, <4>1, <4>2 DEF PopHead, Finish, Results
      <4>3. CASE buckets[key] # <<>>
        BY <1>1, <3>3, <4>1, <4>3 DEF PopHead
      <4> QED BY <4>2, <4>3
    <3>4. CASE Count(t)
      BY <1>1, <3>4 DEF Count, Finish, Results
    <3>5. CASE AppendHit(t)
      BY <3>5 DEF AppendHit, Finish, Results
    <3> QED BY <3>1, <3>2, <3>3, <3>4, <3>5 DEF AllowStep
  <2> QED BY <1>0, <2>1, <2>2, OneCallMoves
<1>3. CASE PopHead(t) /\ Bucket(t) # <<>>
  <2> DEFINE rest == Tail(buckets[key])
  <2>1. buckets' = [buckets EXCEPT ![key] = rest] /\ Continue(t, "look")
    BY <1>3 DEF PopHead
  <2>2. rest \in Seq(Times)
    BY <1>0, <1>1, <1>3
  <2> HIDE DEF rest
  <2>3. "look" \in {"look", "peek", "pop", "count", "append"} \cup Results
    OBVIOUS
  <2>4. ~call[t].crossed => /\ "look" \in {"peek", "pop"} => rest # <<>>
                            /\ "look" # "IndexError"
    OBVIOUS
  <2> QED BY <1>0, <2>1, <2>2, <2>3, <2>4, OneCallMoves, Zenon
<1>4. CASE AppendHit(t)
  <2> DEFINE longer == Append(buckets[key], call[t].current)
  <2>1. buckets' = [buckets EXCEPT ![key] = longer] /\ Continue(t, "allowed")
    BY <1>4 DEF AppendHit, Finish
  <2>2. longer \in Seq(Times)
    BY <1>0
  <2> HIDE DEF longer
  <2>3. "allowed" \in {"look", "peek", "pop", "count", "append"} \cup Results
    BY DEF Results
  <2>4. ~call[t].crossed => /\ "allowed" \in {"peek", "pop"} => longer # <<>>
                            /\ "allowed" # "IndexError"
    OBVIOUS
  <2> QED BY <1>0, <2>1, <2>2, <2>3, <2>4, OneCallMoves, Zenon
<1> QED BY <1>2, <1>3, <1>4 DEF AllowStep, LookAtBucket, PeekHead, PopHead, Count

(* A call begins: all that are under way for the client are crossed. *)
LEMMA CallBegins ==
  ASSUME LimiterInv, NEW t \in Threads, NEW c \in Clients, Allow(t, c), UNCHANGED now
  PROVE  LimiterInv'
<1> DEFINE called == [at |-> IF Limit = 0 THEN "allowed" ELSE "look", key |-> c,
                      current |-> now, crossed |-> Beside(t, c) # {}]
<1>0. call \in [Threads -> Calls] /\ buckets \in [Clients -> Seq(Times)] /\ now \in Times
  BY DEF LimiterInv, LimiterTyped
<1>1. UNCHANGED buckets /\ call[t] = NoCall
  BY DEF Allow
<1>2. call' = [u \in Threads |-> IF u = t THEN called
                                ELSE IF u \in Beside(t, c) THEN [call[u] EXCEPT !.crossed = TRUE]
                                ELSE call[u]]
  BY DEF Allow
<1>3. called \in Calls /\ called.at \in {"allowed", "look"} /\ called.key = c /\ called.current = now
      /\ called.crossed = (Beside(t, c) # {})
  BY <1>0 DEF Calls, Results
<1> HIDE DEF called
<1>4. call'[t] = called
  BY <1>2
<1>5. ASSUME NEW u \in Threads \ {t}
      PROVE  /\ call'[u] \in Calls
             /\ call'[u].at = call[u].at /\ call'[u].key = call[u].key
             /\ call'[u].current = call[u].current
             /\ call'[u].crossed = (call[u].crossed \/ u \in Beside(t, c))
  <2>1. CASE u \in Beside(t, c)
    <3>1. call'[u] = [call[u] EXCEPT !.crossed = TRUE]
      BY <1>2, <2>1
    <3> QED BY <1>0, <2>1, <3>1 DEF Calls
  <2>2. CASE u \notin Beside(t, c)
    <3>1. call'[u] = call[u]
      BY <1>2, <2>2
    <3> QED BY <1>0, <2>2, <3>1 DEF Calls
  <2> QED BY <2>1, <2>2
<1>6. LimiterTyped'
  <2>1. call' \in [Threads -> Calls]
    BY <1>2, <1>3, <1>4, <1>5
  <2> QED BY <1>0, <1>1, <1>3, <1>4, <1>5, <2>1 DEF LimiterInv, LimiterTyped
<1>7. CrossingsNoted'
  <2> SUFFICES ASSUME NEW u \in Threads, NEW v \in Threads, u # v, Inside(u)', Inside(v)',
                      call'[u].key = call'[v].key
               PROVE  call'[u].crossed
    BY DEF CrossingsNoted
  <2>1. CASE u = t
    <3>1. v \in Threads \ {t} /\ call'[v].key = c
      BY <1>3, <1>4, <2>1
    <3>2. call[v].at = call'[v].at /\ call[v].key = c
      BY <1>5, <3>1
    <3>3. v \in Beside(t, c)
      BY <3>1, <3>2 DEF Beside, Inside
    <3> QED BY <1>3, <1>4, <2>1, <3>3
  <2>2. CASE v = t
    <3>1. u \in Threads \ {t} /\ call'[u].key = c
      BY <1>3, <1>4, <2>2
    <3>2. call[u].at = call'[u].at /\ call[u].key = c
      BY <1>5, <3>1
    <3>3. u \in Beside(t, c)
      BY <3>1, <3>2 DEF Beside, Inside
    <3> QED BY <1>5, <3>1, <3>3
  <2>3. CASE u # t /\ v # t
    BY <1>5, <2>3 DEF LimiterInv, CrossingsNoted, Inside
  <2> QED BY <2>1, <2>2, <2>3
<1>8. ASSUME NEW u \in Threads PROVE UncrossedSound(u)'
  <2>1. CASE u = t
    BY <1>3, <1>4, <2>1 DEF UncrossedSound
  <2>2. CASE u # t
    <3>1. UncrossedSound(u)
      BY DEF LimiterInv
    <3> QED BY <1>1, <1>5, <2>2, <3>1 DEF UncrossedSound
  <2> QED BY <2>1, <2>2
<1> QED BY <1>6, <1>7, <1>8 DEF LimiterInv

LEMMA CallReturns ==
  ASSUME LimiterInv, NEW t \in Threads, Return(t), UNCHANGED now
  PROVE  LimiterInv'
<1>0. call \in [Threads -> Calls] /\ buckets' = buckets /\ call' = [call EXCEPT ![t] = NoCall]
  BY DEF LimiterInv, LimiterTyped, Return
<1>1. call'[t] = NoCall /\ \A u \in Threads \ {t} : call'[u] = call[u]
  BY <1>0
<1>2. NoCall \in Calls /\ NoCall.at = "none"
  BY DEF NoCall, Calls
<1>3. LimiterTyped'
  BY <1>0, <1>1, <1>2 DEF LimiterInv, LimiterTyped
<1>4. CrossingsNoted'
  BY <1>1, <1>2 DEF LimiterInv, CrossingsNoted, Inside
<1>5. \A u \in Threads : UncrossedSound(u)'
  BY <1>0, <1>1, <1>2 DEF LimiterInv, UncrossedSound
<1> QED BY <1>3, <1>4, <1>5 DEF LimiterInv

LEMMA LimiterKept == LimiterInv /\ [Next]_vars => LimiterInv'
<1> SUFFICES ASSUME LimiterInv, [Next]_vars PROVE LimiterInv'
  OBVIOUS
<1>1. CASE UNCHANGED limiter /\ now' \in Times
  BY <1>1 DEF limiter, LimiterInv, LimiterTyped, CrossingsNoted, UncrossedSound, Inside
<1>2. now \in Times
  BY DEF LimiterInv, LimiterTyped
<1>3. CASE Tick
  BY <1>1, <1>2, <1>3, ClockAssumption DEF Tick, Advance, Times
<1>4. ASSUME NEW t \in Threads, NEW c \in Clients, NEW target \in {"invoice", "page"},
             Get(t, c, target)
      PROVE  LimiterInv'
  BY <1>4, CallBegins DEF Get
<1>5. ASSUME NEW t \in Threads, InLimiter(t) PROVE LimiterInv'
  BY <1>5, LimiterStep DEF InLimiter
<1>6. ASSUME NEW t \in Threads, Proceed(t) PROVE LimiterInv'
  BY <1>6, CallReturns DEF Proceed
<1>7. CASE UNCHANGED vars
  BY <1>1, <1>2, <1>7 DEF vars
<1>8. CASE Next
  BY <1>1, <1>2, <1>3, <1>4, <1>5, <1>6, <1>7, <1>8
     DEF Next, Step, AskRate, FixedAmount, LookUp, Amount, Respond, Quiet
<1> QED BY <1>7, <1>8

(* The calls that have found room and are about to use it. *)
Appending(c) == {t \in Threads : call[t].at = "append" /\ call[t].key = c}

RoomTaken ==
  Limit > 0 => \A c \in Clients :
    Len(buckets[c]) + Cardinality(Appending(c)) <= Limit + Cardinality(Threads) - 1

LEMMA AppendingIsFinite ==
  ASSUME NEW S, S \subseteq Threads
  PROVE  /\ IsFiniteSet(S) /\ Cardinality(S) \in Nat
         /\ Cardinality(Threads) \in Nat /\ Cardinality(S) <= Cardinality(Threads)
  BY ThreadsAssumption, FS_Subset, FS_CardinalityType

(* One step of one call of the client, if it is not one of the two that    *)
(* matter: it takes nobody to the append and makes no deque longer.        *)
LEMMA OtherSteps ==
  ASSUME LimiterInv, NEW t \in Threads, NEW c \in Clients, AllowStep(t),
         ~(AppendHit(t) /\ call[t].key = c),
         ~(Count(t) /\ call[t].key = c /\ Len(buckets[c]) < Limit)
  PROVE  Appending(c)' \subseteq Appending(c) /\ Len(buckets'[c]) <= Len(buckets[c])
<1>0. /\ call \in [Threads -> Calls] /\ buckets \in [Clients -> Seq(Times)]
      /\ call[t].at # "none" => call[t].key \in Clients
      /\ buckets[c] \in Seq(Times) /\ Len(buckets[c]) \in Nat
  BY DEF LimiterInv, LimiterTyped
<1>1. PICK location : Continue(t, location)
  BY DEF AllowStep, LookAtBucket, PeekHead, PopHead, Count, AppendHit, Finish
<1>2. /\ call'[t].at = location /\ call'[t].key = call[t].key
      /\ \A u \in Threads \ {t} : call'[u] = call[u]
  BY <1>0, <1>1 DEF Continue, Calls
<1>3. call[t].key = c => location # "append"
  <2>1. call[t].key = c => Bucket(t) = buckets[c]
    BY DEF Bucket
  <2>2. CASE LookAtBucket(t)
    BY <1>0, <1>2, <2>2 DEF LookAtBucket, Continue, Calls
  <2>3. CASE PeekHead(t)
    BY <1>0, <1>2, <2>3 DEF PeekHead, Continue, Finish, Calls
  <2>4. CASE PopHead(t)
    BY <1>0, <1>2, <2>4 DEF PopHead, Continue, Finish, Calls
  <2>5. CASE Count(t) /\ call[t].key = c
    <3>1. Len(Bucket(t)) >= Limit
      BY <1>0, <2>1, <2>5, LimiterAssumption
    <3> QED BY <1>0, <1>2, <2>5, <3>1 DEF Count, Continue, Finish, Calls
  <2>6. CASE AppendHit(t)
    BY <1>0, <1>2, <2>6 DEF AppendHit, Continue, Finish, Calls
  <2> QED BY <2>2, <2>3, <2>4, <2>5, <2>6 DEF AllowStep
<1>4. Appending(c)' \subseteq Appending(c)
  BY <1>2, <1>3 DEF Appending
<1>5. Len(buckets'[c]) <= Len(buckets[c])
  <2>1. CASE UNCHANGED buckets
    BY <1>0, <2>1
  <2>2. CASE PopHead(t) /\ Bucket(t) # <<>>
    <3>1. buckets' = [buckets EXCEPT ![call[t].key] = Tail(@)] /\ Bucket(t) = buckets[call[t].key]
      BY <2>2 DEF PopHead, Bucket
    <3>2. CASE call[t].key = c
      BY <1>0, <2>2, <3>1, <3>2
    <3>3. CASE call[t].key # c
      BY <1>0, <3>1, <3>3
    <3> QED BY <3>2, <3>3
  <2>3. CASE AppendHit(t) /\ call[t].key # c
    BY <1>0, <2>3 DEF AppendHit
  <2> QED BY <2>1, <2>2, <2>3 DEF AllowStep, LookAtBucket, PeekHead, PopHead, Count
<1> QED BY <1>4, <1>5

LEMMA RoomArithmetic ==
  ASSUME NEW taken \in Nat, NEW more \in Nat, NEW left \in Nat, NEW rest \in Nat,
         NEW threads \in Nat, taken + more <= Limit + threads - 1,
         \/ left <= taken /\ rest <= more
         \/ left = taken + 1 /\ rest <= more - 1
  PROVE  left + rest <= Limit + threads - 1
  BY SMT, LimiterAssumption

LEMMA RoomKept == LimiterInv /\ RoomTaken /\ [Next]_vars => RoomTaken'
<1> SUFFICES ASSUME LimiterInv, RoomTaken, [Next]_vars, Limit > 0, NEW c \in Clients
             PROVE  Len(buckets'[c]) + Cardinality(Appending(c)')
                      <= Limit + Cardinality(Threads) - 1
  BY DEF RoomTaken
<1>0. /\ call \in [Threads -> Calls] /\ buckets \in [Clients -> Seq(Times)]
      /\ buckets[c] \in Seq(Times) /\ Len(buckets[c]) \in Nat /\ Limit \in Nat
  BY LimiterAssumption DEF LimiterInv, LimiterTyped
<1>1. /\ Appending(c) \subseteq Threads /\ Appending(c)' \subseteq Threads
      /\ IsFiniteSet(Appending(c)) /\ Cardinality(Appending(c)) \in Nat
      /\ Cardinality(Appending(c)') \in Nat /\ Cardinality(Threads) \in Nat
      /\ Cardinality(Appending(c)') <= Cardinality(Threads)
  BY AppendingIsFinite DEF Appending
<1>2. Len(buckets[c]) + Cardinality(Appending(c)) <= Limit + Cardinality(Threads) - 1
  BY DEF RoomTaken
<1>3. ASSUME Appending(c)' \subseteq Appending(c), Len(buckets'[c]) <= Len(buckets[c]),
             Len(buckets'[c]) \in Nat
      PROVE  Len(buckets'[c]) + Cardinality(Appending(c)') <= Limit + Cardinality(Threads) - 1
  <2>1. Cardinality(Appending(c)') <= Cardinality(Appending(c))
    BY <1>1, <1>3, FS_Subset
  <2> QED BY Zenon, <1>0, <1>1, <1>2, <1>3, <2>1, RoomArithmetic
<1>4. Len(buckets'[c]) \in Nat
  <2>1. LimiterInv'
    BY LimiterKept
  <2> QED BY <2>1 DEF LimiterInv, LimiterTyped
<1>5. ASSUME NEW t \in Threads, Count(t), call[t].key = c, Len(buckets[c]) < Limit
      PROVE  Len(buckets'[c]) + Cardinality(Appending(c)') <= Limit + Cardinality(Threads) - 1
  <2>1. buckets' = buckets
    BY <1>5 DEF Count
  <2> QED BY <1>0, <1>1, <1>5, <2>1
<1>6. ASSUME NEW t \in Threads, AppendHit(t), call[t].key = c
      PROVE  Len(buckets'[c]) + Cardinality(Appending(c)') <= Limit + Cardinality(Threads) - 1
  <2>1. Len(buckets'[c]) = Len(buckets[c]) + 1
    BY <1>0, <1>6 DEF AppendHit, LimiterInv, LimiterTyped
  <2>2. t \in Appending(c) /\ t \notin Appending(c)' /\ Appending(c)' \subseteq Appending(c)
    BY <1>0, <1>6 DEF AppendHit, Appending, Finish, Continue, Calls
  <2>3. Appending(c)' \subseteq Appending(c) \ {t}
    BY <2>2
  <2>4. /\ IsFiniteSet(Appending(c) \ {t})
        /\ Cardinality(Appending(c) \ {t}) = Cardinality(Appending(c)) - 1
    BY <1>1, <2>2, FS_RemoveElement
  <2>5. Cardinality(Appending(c)') <= Cardinality(Appending(c)) - 1
    BY <2>3, <2>4, FS_Subset
  <2> QED BY <1>0, <1>1, <1>2, <1>4, <2>1, <2>5, RoomArithmetic
<1>7. ASSUME NEW t \in Threads, InLimiter(t)
      PROVE  Len(buckets'[c]) + Cardinality(Appending(c)') <= Limit + Cardinality(Threads) - 1
  BY <1>3, <1>4, <1>5, <1>6, <1>7, OtherSteps DEF InLimiter
<1>8. ASSUME NEW t \in Threads, NEW d \in Clients, NEW target \in {"invoice", "page"},
             Get(t, d, target)
      PROVE  Len(buckets'[c]) + Cardinality(Appending(c)') <= Limit + Cardinality(Threads) - 1
  <2>1. Allow(t, d)
    BY <1>8 DEF Get
  <2>2. call'[t].at = "look"
    BY <2>1 DEF Allow
  <2>3. \A u \in Threads \ {t} : call'[u].at = call[u].at /\ call'[u].key = call[u].key
    BY <1>0, <2>1 DEF Allow, Calls
  <2>4. Appending(c)' \subseteq Appending(c) /\ buckets' = buckets
    BY <2>1, <2>2, <2>3 DEF Allow, Appending
  <2> QED BY <1>0, <1>3, <1>4, <2>4
<1>9. ASSUME NEW t \in Threads, Proceed(t)
      PROVE  Len(buckets'[c]) + Cardinality(Appending(c)') <= Limit + Cardinality(Threads) - 1
  <2>1. Appending(c)' \subseteq Appending(c) /\ buckets' = buckets
    BY <1>0, <1>9 DEF Proceed, Return, Appending, NoCall
  <2> QED BY <1>0, <1>3, <1>4, <2>1
<1>10. CASE UNCHANGED limiter
  BY <1>0, <1>3, <1>4, <1>10 DEF limiter, Appending
<1>11. CASE Next
  BY <1>7, <1>8, <1>9, <1>10, <1>11
     DEF Next, Step, AskRate, FixedAmount, LookUp, Amount, Respond, Quiet, Tick, vars
<1> QED BY <1>10, <1>11 DEF vars

(* rate_limit.py: however many calls count the hits of a client before the *)
(* first of them appends its own, its deque has no more than one hit above *)
(* the limit for each thread but one.                                      *)
THEOREM BucketsAreBounded == Spec => []OvershootIsBounded
<1>1. Init => RoomTaken
  <2> SUFFICES ASSUME Init, Limit > 0, NEW c \in Clients
               PROVE  Len(buckets[c]) + Cardinality(Appending(c)) <= Limit + Cardinality(Threads) - 1
    BY DEF RoomTaken
  <2>1. Len(buckets[c]) = 0 /\ Appending(c) = {}
    BY DEF Init, LimiterInit, NoCall, Appending
  <2>2. Cardinality(Appending(c)) = 0
    BY <2>1, FS_EmptySet
  <2>3. Cardinality(Threads) \in Nat
    BY AppendingIsFinite
  <2> QED BY <2>1, <2>2, <2>3, LimiterAssumption
<1>2. LimiterInv /\ RoomTaken => OvershootIsBounded
  <2> SUFFICES ASSUME LimiterInv, RoomTaken, Limit > 0, NEW c \in Clients
               PROVE  Len(buckets[c]) <= Limit + Cardinality(Threads) - 1
    BY DEF OvershootIsBounded
  <2>1. Cardinality(Appending(c)) \in Nat /\ Cardinality(Threads) \in Nat
    BY AppendingIsFinite DEF Appending
  <2>2. Len(buckets[c]) \in Nat
    BY DEF LimiterInv, LimiterTyped
  <2> QED BY <2>1, <2>2, LimiterAssumption DEF RoomTaken
<1> QED BY <1>1, <1>2, LimiterStart, LimiterKept, RoomKept, PTL DEF Spec

(* rate_limit.py: a call ends in an IndexError only if another call of the *)
(* same client was under way at some moment of it.                         *)
THEOREM OnlyCrossingsFail == Spec => []OnlyCrossedCallsFail
<1>1. Init => LimiterInv
  BY LimiterStart
<1>2. LimiterInv /\ [Next]_vars => LimiterInv'
  BY LimiterKept
<1>3. LimiterInv => OnlyCrossedCallsFail
  BY DEF LimiterInv, UncrossedSound, OnlyCrossedCallsFail
<1> QED BY <1>1, <1>2, <1>3, PTL DEF Spec

-----------------------------------------------------------------------------
(* The limit.  The bucket is what is left of the log of allowed hits when   *)
(* hits are dropped at its head.  A hit that is still in the window has     *)
(* only been dropped while two calls of the client were under way, and only *)
(* then hits are logged out of order or too many of them.                   *)

Later(log, s) == {i \in 1..Len(log) : log[i] > s}
Within(log, low, high) == {i \in DOMAIN log : low < log[i] /\ log[i] <= high}

SoundLog(log, bucket, over, time, crowded) ==
  /\ Len(bucket) <= Len(log)
  /\ \A i \in 1..Len(bucket) : bucket[i] = log[Len(log) - Len(bucket) + i]
  /\ \A i \in 1..Len(log) : log[i] <= time
  /\ \A i \in 1..(Len(log) - Len(bucket)) :
       log[i] <= over \/ log[i] <= time - Window \/ crowded
  /\ \A i, j \in 1..Len(log) : i < j => log[i] <= log[j] \/ log[i] <= over
  /\ \A s \in Int : s >= over /\ s >= time - Window => Cardinality(Later(log, s)) <= Limit

Crowded(c) == \E t, u \in Threads : /\ t # u /\ Inside(t) /\ Inside(u)
                                    /\ call[t].key = c /\ call[u].key = c

LogSound(c) == SoundLog(admitted[c], buckets[c], overlapped[c], now, Crowded(c))

(* What a call relies on: hits later than its own are excused by an overlap, *)
(* so is a crossing that is over; a call that nobody crosses is right about  *)
(* the bucket.                                                               *)
CallSound(t) ==
  LET c == call[t].key
      current == call[t].current
      bucket == buckets[c]
  IN  Inside(t) =>
        /\ Limit > 0 /\ current <= now
        /\ \A i \in 1..Len(admitted[c]) : admitted[c][i] <= current \/ admitted[c][i] <= overlapped[c]
        /\ call[t].crossed => Beside(t, c) # {} \/ overlapped[c] >= current
        /\ ~call[t].crossed =>
             /\ call[t].at = "pop" => Expired(t, Head(bucket))
             /\ call[t].at = "count" => bucket = <<>> \/ ~Expired(t, Head(bucket))
             /\ call[t].at = "append" => Len(bucket) < Limit

RefusalSound(t) ==
  call[t].at = "refused" =>
    \/ overlapped[call[t].key] > call[t].current - Window
    \/ AllowedBefore(call[t].key, call[t].current) >= Limit

HistoryTyped == admitted \in [Clients -> Seq(Times)] /\ overlapped \in [Clients -> Int]

HistoryInv == /\ HistoryTyped
              /\ \A c \in Clients : overlapped[c] <= now /\ LogSound(c)
              /\ \A t \in Threads : CallSound(t) /\ RefusalSound(t)

LEMMA TimesAreIntegers == Times \subseteq Int /\ Window \in Int /\ Window > 0 /\ Limit \in Int /\ Limit >= 0
BY LimiterAssumption, ClockAssumption DEF Times

LEMMA HitsAreIntegers ==
  ASSUME NEW log \in Seq(Times)
  PROVE  Len(log) \in Nat /\ \A i \in 1..Len(log) : log[i] \in Int
<1>1. Len(log) \in Nat /\ \A i \in 1..Len(log) : log[i] \in Times
  OBVIOUS
<1> QED BY <1>1, TimesAreIntegers

LEMMA IntervalSize ==
  ASSUME NEW a \in Int, NEW b \in Int, a <= b
  PROVE  IsFiniteSet(a..b) /\ Cardinality(a..b) = b - a + 1
BY FS_Interval

(* Time passes, an overlap is noted: what was excused stays excused. *)
LEMMA LogStays ==
  ASSUME NEW log \in Seq(Times), NEW bucket \in Seq(Times),
         NEW over \in Int, NEW time \in Int, NEW crowded \in BOOLEAN,
         NEW over2 \in Int, NEW time2 \in Int, NEW crowded2 \in BOOLEAN,
         SoundLog(log, bucket, over, time, crowded),
         over2 >= over, time2 >= time, crowded => crowded2 \/ over2 >= time
  PROVE  SoundLog(log, bucket, over2, time2, crowded2)
<1>0. Window \in Int /\ Len(log) \in Nat /\ Len(bucket) \in Nat /\ \A i \in 1..Len(log) : log[i] \in Int
  BY TimesAreIntegers, HitsAreIntegers
<1>1. \A i \in 1..Len(log) : log[i] <= time2
  BY <1>0 DEF SoundLog
<1>2. \A i \in 1..(Len(log) - Len(bucket)) :
        log[i] <= over2 \/ log[i] <= time2 - Window \/ crowded2
  <2> SUFFICES ASSUME NEW i \in 1..(Len(log) - Len(bucket)), ~crowded2
               PROVE  log[i] <= over2 \/ log[i] <= time2 - Window
    OBVIOUS
  <2>1. log[i] \in Int /\ log[i] <= time
    BY <1>0 DEF SoundLog
  <2>2. log[i] <= over \/ log[i] <= time - Window \/ crowded
    BY DEF SoundLog
  <2> QED BY <1>0, <2>1, <2>2
<1>3. \A i, j \in 1..Len(log) : i < j => log[i] <= log[j] \/ log[i] <= over2
  BY <1>0 DEF SoundLog
<1>4. \A s \in Int : s >= over2 /\ s >= time2 - Window => Cardinality(Later(log, s)) <= Limit
  <2> SUFFICES ASSUME NEW s \in Int, s >= over2, s >= time2 - Window
               PROVE  Cardinality(Later(log, s)) <= Limit
    OBVIOUS
  <2>1. s >= over /\ s >= time - Window
    BY <1>0
  <2> QED BY <2>1 DEF SoundLog
<1> QED BY <1>1, <1>2, <1>3, <1>4 DEF SoundLog

LEMMA LogPops ==
  ASSUME NEW log \in Seq(Times), NEW bucket \in Seq(Times),
         NEW over \in Int, NEW time \in Int, NEW crowded \in BOOLEAN,
         SoundLog(log, bucket, over, time, crowded), bucket # <<>>,
         Head(bucket) <= over \/ Head(bucket) <= time - Window \/ crowded
  PROVE  SoundLog(log, Tail(bucket), over, time, crowded)
<1>0. /\ Len(log) \in Nat /\ Len(bucket) \in Nat /\ Len(bucket) > 0
      /\ Len(Tail(bucket)) = Len(bucket) - 1 /\ Head(bucket) = bucket[1]
      /\ \A i \in 1..(Len(bucket) - 1) : Tail(bucket)[i] = bucket[i + 1]
  OBVIOUS
<1> DEFINE gone == Len(log) - Len(bucket)
<1>1. /\ gone \in Nat /\ Len(log) - Len(Tail(bucket)) = gone + 1
      /\ Len(Tail(bucket)) <= Len(log)
  BY <1>0 DEF SoundLog
<1>2. \A i \in 1..Len(Tail(bucket)) : Tail(bucket)[i] = log[gone + 1 + i]
  <2> SUFFICES ASSUME NEW i \in 1..Len(Tail(bucket)) PROVE Tail(bucket)[i] = log[gone + 1 + i]
    OBVIOUS
  <2>1. i + 1 \in 1..Len(bucket) /\ Tail(bucket)[i] = bucket[i + 1] /\ gone + (i + 1) = gone + 1 + i
    BY <1>0, <1>1
  <2>2. bucket[i + 1] = log[gone + (i + 1)]
    BY <2>1 DEF SoundLog
  <2> QED BY <2>1, <2>2
<1>3. \A i \in 1..(gone + 1) : log[i] <= over \/ log[i] <= time - Window \/ crowded
  <2> SUFFICES ASSUME NEW i \in 1..(gone + 1)
               PROVE  log[i] <= over \/ log[i] <= time - Window \/ crowded
    OBVIOUS
  <2>1. CASE i = gone + 1
    <3>1. bucket[1] = log[gone + 1]
      BY <1>0 DEF SoundLog
    <3> QED BY <1>0, <2>1, <3>1
  <2>2. CASE i \in 1..gone
    BY <2>2 DEF SoundLog
  <2> QED BY <1>1, <2>1, <2>2
<1> QED BY <1>1, <1>2, <1>3 DEF SoundLog

LEMMA LaterIsFinite ==
  ASSUME NEW log \in Seq(Times), NEW s \in Int
  PROVE  IsFiniteSet(Later(log, s)) /\ Cardinality(Later(log, s)) \in Nat
<1>1. IsFiniteSet(1..Len(log)) /\ Later(log, s) \subseteq 1..Len(log)
  BY FS_Interval DEF Later
<1> QED BY <1>1, FS_Subset, FS_CardinalityType

(* A hit is logged: by a call whose overlaps are noted, or by a call that   *)
(* is alone and has found room in the bucket.                               *)
LEMMA LogGrows ==
  ASSUME NEW log \in Seq(Times), NEW bucket \in Seq(Times), NEW hit \in Times,
         NEW over \in Int, NEW time \in Int, NEW crowded \in BOOLEAN,
         SoundLog(log, bucket, over, time, crowded), hit <= time,
         \A i \in 1..Len(log) : log[i] <= hit \/ log[i] <= over,
         hit <= over \/ (Len(bucket) < Limit /\ ~crowded)
  PROVE  SoundLog(Append(log, hit), Append(bucket, hit), over, time, crowded)
<1> DEFINE longer == Append(log, hit)
           fuller == Append(bucket, hit)
           gone == Len(log) - Len(bucket)
<1>0. /\ Len(log) \in Nat /\ Len(bucket) \in Nat /\ gone \in Nat /\ hit \in Int /\ Window \in Int
      /\ Limit \in Int
      /\ \A i \in 1..Len(log) : log[i] \in Int
  <2>1. Len(log) \in Nat /\ Len(bucket) \in Nat /\ \A i \in 1..Len(log) : log[i] \in Int
    BY HitsAreIntegers
  <2>2. Len(bucket) <= Len(log)
    BY DEF SoundLog
  <2>3. hit \in Int /\ Window \in Int /\ Limit \in Int
    BY TimesAreIntegers
  <2> QED BY <2>1, <2>2, <2>3
<1>1. /\ longer \in Seq(Times) /\ Len(longer) = Len(log) + 1 /\ longer[Len(log) + 1] = hit
      /\ \A i \in 1..Len(log) : longer[i] = log[i]
  OBVIOUS
<1>2. /\ Len(fuller) = Len(bucket) + 1 /\ fuller[Len(bucket) + 1] = hit
      /\ \A i \in 1..Len(bucket) : fuller[i] = bucket[i]
  OBVIOUS
<1> HIDE DEF longer, fuller
<1>3. Len(longer) - Len(fuller) = gone /\ Len(fuller) <= Len(longer)
  BY <1>0, <1>1, <1>2
<1>4. \A i \in 1..Len(fuller) : fuller[i] = longer[gone + i]
  <2> SUFFICES ASSUME NEW i \in 1..Len(fuller) PROVE fuller[i] = longer[gone + i]
    OBVIOUS
  <2>1. CASE i \in 1..Len(bucket)
    <3>1. bucket[i] = log[gone + i] /\ gone + i \in 1..Len(log)
      BY <1>0, <2>1 DEF SoundLog
    <3> QED BY <1>1, <1>2, <2>1, <3>1
  <2>2. CASE i = Len(bucket) + 1
    <3>1. gone + i = Len(log) + 1
      BY <1>0, <2>2
    <3> QED BY <1>1, <1>2, <2>2, <3>1
  <2> QED BY <1>0, <1>2, <2>1, <2>2
<1>5. \A i \in 1..Len(longer) : longer[i] <= time
  BY <1>0, <1>1 DEF SoundLog
<1>6. \A i \in 1..gone : longer[i] <= over \/ longer[i] <= time - Window \/ crowded
  <2>1. \A i \in 1..gone : i \in 1..Len(log)
    BY <1>0
  <2>2. \A i \in 1..gone : log[i] <= over \/ log[i] <= time - Window \/ crowded
    BY DEF SoundLog
  <2> QED BY <1>1, <2>1, <2>2
<1>7. \A i, j \in 1..Len(longer) : i < j => longer[i] <= longer[j] \/ longer[i] <= over
  <2> SUFFICES ASSUME NEW i \in 1..Len(longer), NEW j \in 1..Len(longer), i < j
               PROVE  longer[i] <= longer[j] \/ longer[i] <= over
    OBVIOUS
  <2>1. i \in 1..Len(log)
    BY <1>0, <1>1
  <2>2. CASE j \in 1..Len(log)
    BY <1>1, <2>1, <2>2 DEF SoundLog
  <2>3. CASE j = Len(log) + 1
    BY <1>1, <2>1, <2>3
  <2> QED BY <1>0, <1>1, <2>2, <2>3
<1>8. ASSUME NEW s \in Int, s >= over, s >= time - Window
      PROVE  Cardinality(Later(longer, s)) <= Limit
  <2>1. CASE hit <= over
    <3>1. Later(longer, s) = Later(log, s)
      <4>1. ~(hit > s)
        BY <1>0, <1>8, <2>1
      <4>2. ASSUME NEW i \in 1..Len(longer), longer[i] > s PROVE i \in 1..Len(log) /\ log[i] > s
        BY <1>0, <1>1, <4>1, <4>2
      <4>3. ASSUME NEW i \in 1..Len(log), log[i] > s PROVE i \in 1..Len(longer) /\ longer[i] > s
        BY <1>0, <1>1, <4>3
      <4> QED BY <4>2, <4>3 DEF Later
    <3>2. Cardinality(Later(log, s)) <= Limit
      BY <1>8 DEF SoundLog
    <3> QED BY <3>1, <3>2
  <2>2. CASE Len(bucket) < Limit /\ ~crowded
    <3> DEFINE kept == (gone + 1)..(Len(log) + 1)
    <3>1. Later(longer, s) \subseteq kept
      <4> SUFFICES ASSUME NEW i \in 1..Len(longer), longer[i] > s PROVE i \in kept
        BY DEF Later
      <4>1. i \notin 1..gone
        <5>1. SUFFICES ASSUME i \in 1..gone PROVE FALSE
          OBVIOUS
        <5>2. longer[i] <= over \/ longer[i] <= time - Window
          BY <1>6, <2>2, <5>1
        <5>3. longer[i] \in Int
          <6>1. i \in 1..Len(log)
            BY <1>0, <5>1
          <6> QED BY <1>0, <1>1, <6>1
        <5> QED BY <1>0, <1>8, <5>2, <5>3
      <4> QED BY <1>0, <1>1, <4>1
    <3>2. IsFiniteSet(kept) /\ Cardinality(kept) = Len(bucket) + 1
      <4>1. gone + 1 \in Int /\ Len(log) + 1 \in Int /\ gone + 1 <= Len(log) + 1
        BY <1>0
      <4>2. Cardinality(kept) = (Len(log) + 1) - (gone + 1) + 1 /\ IsFiniteSet(kept)
        BY <4>1, IntervalSize
      <4> QED BY <1>0, <4>2
    <3>3. Cardinality(Later(longer, s)) <= Cardinality(kept) /\ Cardinality(Later(longer, s)) \in Nat
      BY <1>1, <3>1, <3>2, FS_Subset, LaterIsFinite
    <3> QED BY <1>0, <2>2, <3>2, <3>3
  <2> QED BY <2>1, <2>2
<1>9. SoundLog(longer, fuller, over, time, crowded)
  BY <1>3, <1>4, <1>5, <1>6, <1>7, <1>8 DEF SoundLog
<1> QED BY <1>9 DEF longer, fuller

(* A later hit takes nothing away from what was allowed before. *)
LEMMA WithinGrows ==
  ASSUME NEW log \in Seq(Times), NEW hit \in Times, NEW low \in Int, NEW high \in Int
  PROVE  /\ Cardinality(Within(log, low, high)) \in Nat
         /\ Cardinality(Within(Append(log, hit), low, high)) \in Nat
         /\ Cardinality(Within(log, low, high)) <= Cardinality(Within(Append(log, hit), low, high))
<1> DEFINE longer == Append(log, hit)
<1>1. /\ Len(longer) = Len(log) + 1 /\ DOMAIN longer = 1..Len(longer) /\ DOMAIN log = 1..Len(log)
      /\ Len(log) \in Nat /\ \A i \in 1..Len(log) : longer[i] = log[i]
  OBVIOUS
<1> HIDE DEF longer
<1>2. IsFiniteSet(1..Len(longer)) /\ Within(longer, low, high) \subseteq 1..Len(longer)
  BY <1>1, FS_Interval DEF Within
<1>3. Within(log, low, high) \subseteq Within(longer, low, high)
  <2> SUFFICES ASSUME NEW i \in 1..Len(log), low < log[i], log[i] <= high
               PROVE  i \in 1..Len(longer) /\ low < longer[i] /\ longer[i] <= high
    BY <1>1 DEF Within
  <2> QED BY <1>1
<1>4. IsFiniteSet(Within(longer, low, high)) /\ IsFiniteSet(Within(log, low, high))
  BY <1>2, <1>3, FS_Subset
<1>5. Cardinality(Within(log, low, high)) <= Cardinality(Within(longer, low, high))
  BY <1>3, <1>4, FS_Subset
<1> QED BY <1>4, <1>5, FS_CardinalityType DEF longer

(* A call goes on or ends, and an overlap is noted if others stay. *)
Moves(t, location) ==
  /\ Inside(t) /\ Continue(t, location)
  /\ location \in {"look", "peek", "pop", "count", "append"} \cup Results
  /\ overlapped' = IF location \in Results /\ Beside(t, call[t].key) # {}
                   THEN [overlapped EXCEPT ![call[t].key] = now] ELSE overlapped
  /\ UNCHANGED now

LEMMA MoveFacts ==
  ASSUME HistoryInv, LimiterInv, NEW t \in Threads, NEW location, Moves(t, location),
         NEW c, c = call[t].key
  PROVE  /\ c \in Clients /\ call[t].current \in Times /\ now \in Times /\ now' = now
         /\ overlapped \in [Clients -> Int] /\ overlapped' \in [Clients -> Int]
         /\ \A d \in Clients : overlapped'[d] >= overlapped[d] /\ overlapped'[d] <= now
         /\ \A d \in Clients : d # c => overlapped'[d] = overlapped[d]
         /\ location \in Results /\ Beside(t, c) # {} => overlapped'[c] = now
         /\ call'[t].at = location /\ call'[t].key = c /\ call'[t].current = call[t].current
         /\ call'[t].crossed = call[t].crossed
         /\ \A u \in Threads \ {t} : call'[u] = call[u]
         /\ location \notin Results => Inside(t)'
         /\ location \in Results => ~Inside(t)'
<1>0. /\ call \in [Threads -> Calls] /\ now \in Times /\ now \in Int
      /\ call' = [call EXCEPT ![t].at = location]
      /\ c \in Clients /\ call[t].current \in Times
      /\ overlapped \in [Clients -> Int] /\ now' = now
      /\ \A d \in Clients : overlapped[d] <= now
  BY TimesAreIntegers DEF LimiterInv, LimiterTyped, Moves, Continue, Inside, HistoryInv, HistoryTyped
<1>1. /\ call'[t].at = location /\ call'[t].key = c /\ call'[t].current = call[t].current
      /\ call'[t].crossed = call[t].crossed
      /\ \A u \in Threads \ {t} : call'[u] = call[u]
  BY <1>0 DEF Calls
<1>2. overlapped' \in [Clients -> Int]
  BY <1>0 DEF Moves
<1>3. \A d \in Clients : /\ overlapped'[d] >= overlapped[d] /\ overlapped'[d] <= now
                         /\ d # c => overlapped'[d] = overlapped[d]
  <2> SUFFICES ASSUME NEW d \in Clients
               PROVE  /\ overlapped'[d] >= overlapped[d] /\ overlapped'[d] <= now
                      /\ d # c => overlapped'[d] = overlapped[d]
    OBVIOUS
  <2>1. overlapped'[d] = overlapped[d] \/ (d = c /\ overlapped'[d] = now)
    BY <1>0 DEF Moves
  <2>2. overlapped[d] \in Int /\ overlapped[d] <= now
    BY <1>0
  <2> QED BY <1>0, <2>1, <2>2
<1>4. location \in Results /\ Beside(t, c) # {} => overlapped'[c] = now
  BY <1>0 DEF Moves
<1>5. /\ location \notin Results => Inside(t)'
      /\ location \in Results => ~Inside(t)'
  BY <1>1 DEF Inside, Moves
<1> QED BY <1>0, <1>1, <1>2, <1>3, <1>4, <1>5

(* The calls beside the one that moves see it leave at most. *)
LEMMA MoveCrowds ==
  ASSUME HistoryInv, LimiterInv, NEW t \in Threads, NEW location, Moves(t, location),
         NEW c, c = call[t].key
  PROVE  /\ Crowded(c) => Crowded(c)' \/ overlapped'[c] = now
         /\ \A d \in Clients : d # c => Crowded(d)' = Crowded(d)
         /\ Crowded(c)' => Beside(t, c) # {}
         /\ location \notin Results => Beside(t, c)' = Beside(t, c)
<1>0. /\ call'[t].at = location /\ call'[t].key = c
      /\ \A u \in Threads \ {t} : call'[u] = call[u]
      /\ location \notin Results => Inside(t)'
      /\ location \in Results => ~Inside(t)'
      /\ location \in Results /\ Beside(t, c) # {} => overlapped'[c] = now
      /\ Inside(t) /\ c = call[t].key
  BY MoveFacts DEF Moves
<1>1. \A u \in Threads : Inside(u)' => Inside(u)
  BY <1>0 DEF Inside
<1>2. \A u \in Threads \ {t} : Inside(u) => Inside(u)'
  BY <1>0 DEF Inside
<1>3. \A u \in Threads : call'[u].key = call[u].key
  BY <1>0
<1>4. Crowded(c) => Beside(t, c) # {}
  <2> SUFFICES ASSUME NEW u \in Threads, NEW v \in Threads, u # v, Inside(u), Inside(v),
                      call[u].key = c, call[v].key = c
               PROVE  Beside(t, c) # {}
    BY DEF Crowded
  <2>1. CASE u # t
    BY <2>1 DEF Beside
  <2>2. CASE v # t
    BY <2>2 DEF Beside
  <2> QED BY <2>1, <2>2
<1>5. Crowded(c) => Crowded(c)' \/ overlapped'[c] = now
  <2>1. CASE location \in Results
    BY <1>0, <1>4, <2>1
  <2>2. CASE location \notin Results
    BY <1>0, <1>2, <1>3, <2>2 DEF Crowded
  <2> QED BY <2>1, <2>2
<1>6. \A d \in Clients : d # c => Crowded(d)' = Crowded(d)
  BY <1>0, <1>1, <1>2, <1>3 DEF Crowded
<1>7. Crowded(c)' => Crowded(c)
  BY <1>1, <1>3 DEF Crowded
<1>8. Beside(t, c)' = Beside(t, c)
  BY <1>1, <1>2, <1>3 DEF Beside
<1> QED BY <1>4, <1>5, <1>6, <1>7, <1>8

(* What a move leaves behind: a sound log, and a reason for where it goes. *)
Recorded(t, location, c, log, bucket) ==
  /\ c = call[t].key /\ log \in Seq(Times) /\ bucket \in Seq(Times)
  /\ admitted' = [admitted EXCEPT ![c] = log]
  /\ buckets' = [buckets EXCEPT ![c] = bucket]
  /\ SoundLog(log, bucket, overlapped'[c], now, Crowded(c)')
  /\ \/ log = admitted[c]
     \/ location = "allowed" /\ log = Append(admitted[c], call[t].current)
  /\ ~call[t].crossed =>
       /\ location = "pop" => Head(bucket) <= call[t].current - Window
       /\ location = "count" => bucket = <<>> \/ ~(Head(bucket) <= call[t].current - Window)
       /\ location = "append" => Len(bucket) < Limit
  /\ location = "refused" => \/ overlapped'[c] > call[t].current - Window
                             \/ AllowedBefore(c, call[t].current) >= Limit

LEMMA MoveKeeps ==
  ASSUME HistoryInv, LimiterInv, NEW t \in Threads, NEW location, Moves(t, location),
         NEW c, NEW log, NEW bucket, Recorded(t, location, c, log, bucket)
  PROVE  HistoryInv'
<1> c = call[t].key /\ log \in Seq(Times) /\ bucket \in Seq(Times)
  BY DEF Recorded
<1>0. /\ c \in Clients /\ call[t].current \in Times /\ now \in Times /\ now' = now
      /\ overlapped \in [Clients -> Int] /\ overlapped' \in [Clients -> Int]
      /\ \A d \in Clients : overlapped'[d] >= overlapped[d] /\ overlapped'[d] <= now
      /\ \A d \in Clients : d # c => overlapped'[d] = overlapped[d]
      /\ location \in Results /\ Beside(t, c) # {} => overlapped'[c] = now
      /\ call'[t].at = location /\ call'[t].key = c /\ call'[t].current = call[t].current
      /\ call'[t].crossed = call[t].crossed
      /\ \A u \in Threads \ {t} : call'[u] = call[u]
      /\ location \notin Results => Inside(t)'
      /\ location \in Results => ~Inside(t)'
  <2>1. /\ c \in Clients /\ call[t].current \in Times /\ now \in Times /\ now' = now
        /\ overlapped \in [Clients -> Int] /\ overlapped' \in [Clients -> Int]
    BY MoveFacts
  <2>2. /\ \A d \in Clients : overlapped'[d] >= overlapped[d] /\ overlapped'[d] <= now
        /\ \A d \in Clients : d # c => overlapped'[d] = overlapped[d]
    BY MoveFacts
  <2>3. /\ location \in Results /\ Beside(t, c) # {} => overlapped'[c] = now
        /\ location \notin Results => Inside(t)'
        /\ location \in Results => ~Inside(t)'
    BY MoveFacts
  <2>4. /\ call'[t].at = location /\ call'[t].key = c /\ call'[t].current = call[t].current
        /\ call'[t].crossed = call[t].crossed
        /\ \A u \in Threads \ {t} : call'[u] = call[u]
    BY MoveFacts
  <2> QED BY <2>1, <2>2, <2>3, <2>4
<1>1. /\ \A d \in Clients : d # c => Crowded(d)' = Crowded(d)
      /\ location \notin Results => Beside(t, c)' = Beside(t, c)
  BY MoveCrowds
<1>2. /\ admitted \in [Clients -> Seq(Times)] /\ buckets \in [Clients -> Seq(Times)]
      /\ call \in [Threads -> Calls] /\ Inside(t)
  BY DEF HistoryInv, HistoryTyped, LimiterInv, LimiterTyped, Moves
<1>3. /\ admitted'[c] = log /\ buckets'[c] = bucket
      /\ \A d \in Clients : d # c => admitted'[d] = admitted[d] /\ buckets'[d] = buckets[d]
      /\ admitted' \in [Clients -> Seq(Times)]
  BY <1>0, <1>2 DEF Recorded
<1>4. HistoryTyped'
  BY <1>0, <1>3 DEF HistoryTyped
<1>5. ASSUME NEW d \in Clients PROVE overlapped'[d] <= now' /\ LogSound(d)'
  <2>1. CASE d = c
    BY <1>0, <1>3, <2>1 DEF LogSound, Recorded
  <2>2. CASE d # c
    <3>1. LogSound(d) /\ Crowded(d)' = Crowded(d)
      BY <1>1, <2>2 DEF HistoryInv
    <3> QED BY <1>0, <1>3, <2>2, <3>1 DEF LogSound
  <2> QED BY <2>1, <2>2
<1>6. CallSound(t)'
  <2> SUFFICES ASSUME location \notin Results PROVE CallSound(t)'
    BY <1>0 DEF CallSound
  <2>1. log = admitted[c] /\ CallSound(t) /\ Beside(t, c)' = Beside(t, c)
    BY <1>1 DEF HistoryInv, Results, Recorded
  <2>2. Limit > 0 /\ call'[t].current <= now'
    BY <1>0, <1>2, <2>1 DEF CallSound
  <2>3. ASSUME NEW i \in 1..Len(log)
        PROVE  log[i] <= call[t].current \/ log[i] <= overlapped'[c]
    <3>1. log[i] <= call[t].current \/ log[i] <= overlapped[c]
      BY <1>2, <2>1, <2>3 DEF CallSound
    <3>2. log[i] \in Int /\ overlapped[c] \in Int /\ overlapped'[c] \in Int /\ overlapped'[c] >= overlapped[c]
      BY <1>0, <2>3, HitsAreIntegers
    <3> QED BY <3>1, <3>2
  <2>4. call[t].crossed => Beside(t, c) # {} \/ overlapped'[c] >= call[t].current
    <3>1. call[t].crossed => Beside(t, c) # {} \/ overlapped[c] >= call[t].current
      BY <1>2, <2>1 DEF CallSound
    <3>2. call[t].current \in Int /\ overlapped[c] \in Int /\ overlapped'[c] \in Int
          /\ overlapped'[c] >= overlapped[c]
      BY <1>0, TimesAreIntegers
    <3> QED BY <3>1, <3>2
  <2>5. ~call'[t].crossed =>
          /\ call'[t].at = "pop" => Expired(t, Head(bucket))'
          /\ call'[t].at = "count" => bucket = <<>> \/ ~Expired(t, Head(bucket))'
          /\ call'[t].at = "append" => Len(bucket) < Limit
    BY <1>0 DEF Expired, Recorded
  <2> QED BY <1>0, <1>3, <2>1, <2>2, <2>3, <2>4, <2>5 DEF CallSound
<1>7. ASSUME NEW u \in Threads \ {t} PROVE CallSound(u)'
  <2> DEFINE d == call[u].key
  <2> SUFFICES ASSUME Inside(u) PROVE CallSound(u)'
    BY <1>0 DEF CallSound, Inside
  <2>1. /\ d \in Clients /\ call[u].current \in Times /\ call'[u] = call[u] /\ CallSound(u)
        /\ Inside(u)'
    BY <1>0 DEF HistoryInv, LimiterInv, LimiterTyped, Inside
  <2>2. Limit > 0 /\ call[u].current <= now
    BY <2>1 DEF CallSound
  <2>3. CASE d = c
    <3>1. u \in Beside(t, c) /\ call[u].crossed
      BY <1>2, <2>3 DEF Beside, LimiterInv, CrossingsNoted
    <3>2. CASE location \in Results
      <4>1. overlapped'[c] = now
        BY <1>0, <3>1, <3>2
      <4>2. \A i \in 1..Len(log) : log[i] <= now
        BY DEF SoundLog, Recorded
      <4>3. overlapped'[c] >= call[u].current
        BY <2>1, <2>2, <4>1, <1>0, TimesAreIntegers
      <4> QED BY <1>0, <1>3, <2>1, <2>2, <2>3, <3>1, <4>1, <4>2, <4>3 DEF CallSound
    <3>3. CASE location \notin Results
      <4>1. t \in Beside(u, c)'
        BY <1>0, <3>3 DEF Beside
      <4>2. log = admitted[c]
        BY <3>3 DEF Results, Recorded
      <4>3. ASSUME NEW i \in 1..Len(log)
            PROVE  log[i] <= call[u].current \/ log[i] <= overlapped'[c]
        <5>1. log[i] <= call[u].current \/ log[i] <= overlapped[c]
          BY <2>1, <2>3, <4>2, <4>3 DEF CallSound
        <5>2. log[i] \in Int /\ overlapped[c] \in Int /\ overlapped'[c] \in Int
              /\ overlapped'[c] >= overlapped[c]
          BY <1>0, <4>3, HitsAreIntegers
        <5> QED BY <5>1, <5>2
      <4> QED BY <1>0, <1>3, <2>1, <2>2, <2>3, <3>1, <4>1, <4>3 DEF CallSound
    <3> QED BY <3>2, <3>3
  <2>4. CASE d # c
    <3>1. Beside(u, d) # {} => Beside(u, d)' # {}
      <4> SUFFICES ASSUME NEW v \in Beside(u, d) PROVE v \in Beside(u, d)'
        OBVIOUS
      <4>1. v \in Threads \ {u} /\ Inside(v) /\ call[v].key = d
        BY DEF Beside
      <4>2. v # t
        BY <2>4, <4>1
      <4>3. call'[v] = call[v]
        BY <1>0, <4>1, <4>2
      <4> QED BY <2>1, <4>1, <4>3 DEF Beside, Inside
    <3>2. /\ admitted'[d] = admitted[d] /\ buckets'[d] = buckets[d] /\ overlapped'[d] = overlapped[d]
      BY <1>0, <1>3, <2>1, <2>4
    <3>3. call'[u] = call[u] /\ now' = now
      BY <1>0
    <3> QED BY <2>1, <3>1, <3>2, <3>3 DEF CallSound, Expired
  <2> QED BY <2>3, <2>4
<1>8. ASSUME NEW d \in Clients, NEW current \in Times
      PROVE  LET before == Cardinality(Within(admitted[d], current - Window, current))
                 after  == Cardinality(Within(admitted'[d], current - Window, current))
             IN  before \in Int /\ after \in Int /\ after >= before
  <2>1. current - Window \in Int /\ current \in Int /\ admitted[d] \in Seq(Times)
        /\ call[t].current \in Times
    BY <1>0, <1>2, TimesAreIntegers
  <2>2. PICK log1 \in Seq(Times), hit \in Times :
          log1 = admitted[d] /\ (admitted'[d] = log1 \/ admitted'[d] = Append(log1, hit))
    BY <1>3, <2>1 DEF Recorded
  <2> DEFINE longer == Append(log1, hit)
  <2>3. /\ Cardinality(Within(log1, current - Window, current)) \in Nat
        /\ Cardinality(Within(longer, current - Window, current)) \in Nat
        /\ Cardinality(Within(log1, current - Window, current)) <=
             Cardinality(Within(longer, current - Window, current))
    BY <2>1, WithinGrows
  <2>4. admitted'[d] = log1 \/ admitted'[d] = longer
    BY <2>2
  <2> HIDE DEF longer
  <2> QED BY <2>2, <2>3, <2>4
<1>9. ASSUME NEW u \in Threads PROVE RefusalSound(u)'
  <2> SUFFICES ASSUME call'[u].at = "refused" PROVE RefusalSound(u)'
    BY DEF RefusalSound
  <2>1. PICK d \in Clients, current \in Times :
          /\ d = call[u].key /\ current = call[u].current
          /\ d = call'[u].key /\ current = call'[u].current
    <3>1. call[u].at # "none"
      BY <1>0, <1>2 DEF Inside
    <3>2. call[u].key \in Clients /\ call[u].current \in Times
      BY <3>1 DEF LimiterInv, LimiterTyped
    <3>3. call'[u].key = call[u].key /\ call'[u].current = call[u].current
      BY <1>0
    <3> QED BY <3>2, <3>3
  <2> DEFINE before == Cardinality(Within(admitted[d], current - Window, current))
             after == Cardinality(Within(admitted'[d], current - Window, current))
  <2>2. before \in Int /\ after \in Int /\ after >= before
    BY <1>8
  <2>3. /\ AllowedBefore(call[u].key, call[u].current) = before
        /\ AllowedBefore(call[u].key, call[u].current)' = after
    BY <2>1 DEF AllowedBefore, Within
  <2> HIDE DEF before, after
  <2>4. overlapped[d] > current - Window \/ before >= Limit
        => overlapped'[d] > current - Window \/ after >= Limit
    <3>1. overlapped[d] \in Int /\ overlapped'[d] \in Int /\ overlapped'[d] >= overlapped[d]
          /\ current \in Int /\ Window \in Int /\ Limit \in Int
      BY <1>0, TimesAreIntegers
    <3> QED BY <2>2, <3>1
  <2>5. \/ overlapped'[d] > current - Window
        \/ after >= Limit
    <3>1. CASE u = t
      <4>1. location = "refused" /\ d = c
        BY <1>0, <2>1, <3>1
      <4>2. overlapped'[c] > current - Window \/ before >= Limit
        BY <2>1, <2>3, <3>1, <4>1 DEF Recorded
      <4>3. overlapped'[d] \in Int /\ before \in Int /\ after \in Int /\ after >= before /\ Limit \in Int
        BY <1>0, <2>2, TimesAreIntegers
      <4> QED BY <4>1, <4>2, <4>3
    <3>2. CASE u # t
      <4>1. call[u].at = "refused" /\ RefusalSound(u)
        BY <1>0, <3>2 DEF HistoryInv
      <4> QED BY <2>1, <2>3, <2>4, <4>1 DEF RefusalSound
    <3> QED BY <3>1, <3>2
  <2> QED BY <2>1, <2>3, <2>5 DEF RefusalSound
<1> QED BY <1>4, <1>5, <1>6, <1>7, <1>9 DEF HistoryInv

LEMMA HeadIsLogged ==
  ASSUME NEW log \in Seq(Times), NEW bucket \in Seq(Times), NEW over, NEW time, NEW crowded,
         SoundLog(log, bucket, over, time, crowded), bucket # <<>>
  PROVE  \E i \in 1..Len(log) : Head(bucket) = log[i]
<1>1. /\ Len(log) \in Nat /\ Len(bucket) \in Nat /\ Len(bucket) > 0 /\ Head(bucket) = bucket[1]
      /\ Len(bucket) <= Len(log)
  BY DEF SoundLog
<1>2. bucket[1] = log[Len(log) - Len(bucket) + 1]
  BY <1>1 DEF SoundLog
<1> QED BY <1>1, <1>2

(* A call that is right about its bucket and finds it full counts hits of  *)
(* its own window only.                                                    *)
LEMMA WindowFull ==
  ASSUME NEW log \in Seq(Times), NEW bucket \in Seq(Times),
         NEW over \in Int, NEW time \in Int, NEW crowded \in BOOLEAN, NEW current \in Int,
         SoundLog(log, bucket, over, time, crowded), bucket # <<>>,
         ~(Head(bucket) <= current - Window), over <= current - Window,
         \A i \in 1..Len(log) : log[i] <= current \/ log[i] <= over
  PROVE  Cardinality(Within(log, current - Window, current)) >= Len(bucket)
<1> DEFINE gone == Len(log) - Len(bucket)
           kept == (gone + 1)..Len(log)
<1>0. /\ Len(log) \in Nat /\ Len(bucket) \in Nat /\ Window \in Int /\ Window > 0
      /\ \A i \in 1..Len(log) : log[i] \in Int
  BY TimesAreIntegers, HitsAreIntegers
<1>1. gone \in Nat /\ Len(bucket) > 0 /\ DOMAIN log = 1..Len(log)
  BY <1>0 DEF SoundLog
<1>2. Head(bucket) = log[gone + 1] /\ gone + 1 \in 1..Len(log)
  <2>1. Head(bucket) = bucket[1] /\ 1 \in 1..Len(bucket)
    BY <1>0, <1>1
  <2>2. bucket[1] = log[gone + 1]
    BY <2>1 DEF SoundLog
  <2> QED BY <1>0, <1>1, <2>1, <2>2
<1>3. kept \subseteq Within(log, current - Window, current)
  <2> SUFFICES ASSUME NEW i \in kept
               PROVE  i \in DOMAIN log /\ current - Window < log[i] /\ log[i] <= current
    BY DEF Within
  <2>1. i \in 1..Len(log) /\ (i = gone + 1 \/ gone + 1 < i)
    BY <1>0, <1>1
  <2>2. log[gone + 1] <= log[i] \/ log[gone + 1] <= over
    <3>1. CASE i = gone + 1
      BY <1>0, <1>2, <3>1
    <3>2. CASE gone + 1 < i
      BY <1>2, <2>1, <3>2 DEF SoundLog
    <3> QED BY <2>1, <3>1, <3>2
  <2>3. log[gone + 1] \in Int /\ log[i] \in Int /\ ~(log[gone + 1] <= current - Window)
    BY <1>0, <1>2, <2>1
  <2>4. current - Window < log[i]
    BY <1>0, <2>2, <2>3
  <2>5. log[i] <= current
    BY <1>0, <2>1, <2>3
  <2> QED BY <1>1, <2>1, <2>4, <2>5
<1>4. IsFiniteSet(Within(log, current - Window, current))
  <2>1. Within(log, current - Window, current) \subseteq 1..Len(log)
    BY <1>1 DEF Within
  <2>2. IsFiniteSet(1..Len(log))
    BY <1>0, FS_Interval
  <2> QED BY <2>1, <2>2, FS_Subset
<1>5. Cardinality(kept) <= Cardinality(Within(log, current - Window, current))
      /\ Cardinality(Within(log, current - Window, current)) \in Nat
  BY <1>3, <1>4, FS_Subset, FS_CardinalityType
<1>6. Cardinality(kept) = Len(bucket)
  <2>1. gone + 1 \in Int /\ Len(log) \in Int /\ gone + 1 <= Len(log)
    BY <1>0, <1>1
  <2>2. Cardinality(kept) = Len(log) - (gone + 1) + 1
    BY <2>1, IntervalSize
  <2> QED BY <1>0, <2>2
<1> QED BY <1>0, <1>5, <1>6

(* What the call that moves knows of its client. *)
LEMMA MoverKnows ==
  ASSUME HistoryInv, LimiterInv, NEW t \in Threads, NEW location, Moves(t, location),
         NEW c, c = call[t].key, NEW current, current = call[t].current
  PROVE  /\ admitted[c] \in Seq(Times) /\ buckets[c] \in Seq(Times) /\ current \in Times
         /\ current <= now /\ Limit > 0
         /\ \A i \in 1..Len(admitted[c]) : admitted[c][i] <= current \/ admitted[c][i] <= overlapped'[c]
         /\ call[t].crossed => Beside(t, c) # {} \/ overlapped'[c] >= current
         /\ Crowded(c)' \in BOOLEAN /\ overlapped'[c] \in Int
         /\ SoundLog(admitted[c], buckets[c], overlapped'[c], now, Crowded(c)')
<1>0. /\ c \in Clients /\ current \in Times /\ now \in Times
      /\ overlapped \in [Clients -> Int] /\ overlapped' \in [Clients -> Int]
      /\ overlapped'[c] >= overlapped[c]
  BY MoveFacts
<1>1. /\ admitted[c] \in Seq(Times) /\ buckets[c] \in Seq(Times)
      /\ Inside(t) /\ CallSound(t) /\ LogSound(c)
  BY <1>0 DEF HistoryInv, HistoryTyped, LimiterInv, LimiterTyped, Moves
<1>2. /\ current <= now /\ Limit > 0
      /\ \A i \in 1..Len(admitted[c]) : admitted[c][i] <= current \/ admitted[c][i] <= overlapped[c]
      /\ call[t].crossed => Beside(t, c) # {} \/ overlapped[c] >= current
  BY <1>1 DEF CallSound
<1>3. /\ overlapped[c] \in Int /\ overlapped'[c] \in Int /\ current \in Int /\ now \in Int
      /\ \A i \in 1..Len(admitted[c]) : admitted[c][i] \in Int
  BY <1>0, <1>1, TimesAreIntegers, HitsAreIntegers
<1>4. /\ \A i \in 1..Len(admitted[c]) : admitted[c][i] <= current \/ admitted[c][i] <= overlapped'[c]
      /\ call[t].crossed => Beside(t, c) # {} \/ overlapped'[c] >= current
  BY <1>0, <1>2, <1>3
<1>5. Crowded(c) \in BOOLEAN /\ Crowded(c)' \in BOOLEAN
  BY DEF Crowded
<1>6. Crowded(c) => Crowded(c)' \/ overlapped'[c] >= now
  BY <1>3, MoveCrowds
<1>7. SoundLog(admitted[c], buckets[c], overlapped'[c], now, Crowded(c)')
  <2>1. SoundLog(admitted[c], buckets[c], overlapped[c], now, Crowded(c))
    BY <1>1 DEF LogSound
  <2>2. now >= now
    BY <1>3
  <2> DEFINE crowded == Crowded(c)
             crowded2 == Crowded(c)'
             over == overlapped[c]
             over2 == overlapped'[c]
             log == admitted[c]
             bucket == buckets[c]
  <2>3. /\ log \in Seq(Times) /\ bucket \in Seq(Times) /\ over \in Int /\ over2 \in Int
        /\ now \in Int /\ crowded \in BOOLEAN /\ crowded2 \in BOOLEAN /\ over2 >= over
        /\ SoundLog(log, bucket, over, now, crowded)
        /\ crowded => crowded2 \/ over2 >= now
    <3>1. /\ over \in Int /\ over2 \in Int /\ now \in Int /\ over2 >= over
          /\ crowded \in BOOLEAN /\ crowded2 \in BOOLEAN
          /\ crowded => crowded2 \/ over2 >= now
      BY <1>0, <1>3, <1>5, <1>6
    <3>2. SoundLog(log, bucket, over, now, crowded)
      BY <2>1
    <3> QED BY <1>1, <3>1, <3>2
  <2> HIDE DEF crowded, crowded2, over, over2, log, bucket
  <2>4. SoundLog(log, bucket, over2, now, crowded2)
    BY <2>2, <2>3, LogStays
  <2> QED BY <2>4 DEF crowded2, over2, log, bucket
<1> QED BY <1>0, <1>1, <1>2, <1>3, <1>4, <1>5, <1>7

LEMMA HistoryStep ==
  ASSUME HistoryInv, LimiterInv, NEW t \in Threads, AllowStep(t), UNCHANGED now
  PROVE  HistoryInv'
<1>1. PICK c, current : c = call[t].key /\ current = call[t].current
  OBVIOUS
<1>2. /\ call[t].at \in {"look", "peek", "pop", "count", "append"} /\ Inside(t)
      /\ c \in Clients /\ admitted \in [Clients -> Seq(Times)] /\ buckets \in [Clients -> Seq(Times)]
      /\ Bucket(t) = buckets[c] /\ CallSound(t) /\ UncrossedSound(t)
  <2>1. call[t].at \in {"look", "peek", "pop", "count", "append"}
    BY DEF AllowStep, LookAtBucket, PeekHead, PopHead, Count, AppendHit
  <2>2. Inside(t)
    BY <2>1 DEF Inside, Results
  <2> QED BY <1>1, <2>1, <2>2 DEF LimiterInv, LimiterTyped, HistoryInv, HistoryTyped, Bucket
<1>3. /\ admitted[c] \in Seq(Times) /\ buckets[c] \in Seq(Times)
      /\ admitted = [admitted EXCEPT ![c] = admitted[c]]
      /\ buckets = [buckets EXCEPT ![c] = buckets[c]]
  BY <1>2
<1>4. ASSUME NEW location \in {"look", "peek", "pop", "count", "append"}, Continue(t, location),
             overlapped' = overlapped
      PROVE  Moves(t, location)
  BY <1>2, <1>4 DEF Moves, Results
<1>5. ASSUME NEW location \in Results, Finish(t, location)
      PROVE  Moves(t, location)
  BY <1>2, <1>5 DEF Moves, Finish
<1>6. CASE LookAtBucket(t)
  <2>1. PICK location \in {"count", "peek"} :
          Continue(t, location) /\ (location = "count" => buckets[c] = <<>>)
    BY <1>2, <1>6 DEF LookAtBucket
  <2>2. Moves(t, location)
    BY <1>4, <1>6, <2>1 DEF LookAtBucket
  <2>3. admitted' = [admitted EXCEPT ![c] = admitted[c]] /\ buckets' = [buckets EXCEPT ![c] = buckets[c]]
    BY <1>3, <1>6 DEF LookAtBucket
  <2>4. SoundLog(admitted[c], buckets[c], overlapped'[c], now, Crowded(c)')
    BY <1>1, <2>2, MoverKnows
  <2>5. Recorded(t, location, c, admitted[c], buckets[c])
    BY <1>1, <1>3, <2>1, <2>3, <2>4 DEF Recorded
  <2> QED BY <2>2, <2>5, MoveKeeps
<1>7. CASE PeekHead(t)
  <2>1. PICK location \in {"IndexError", "pop", "count"} :
          /\ Moves(t, location)
          /\ location = "pop" => Head(buckets[c]) <= current - Window
          /\ location = "count" => ~(Head(buckets[c]) <= current - Window)
    <3>1. CASE buckets[c] = <<>>
      BY <1>2, <1>5, <1>7, <3>1 DEF PeekHead, Results
    <3>2. CASE buckets[c] # <<>> /\ Expired(t, Head(buckets[c]))
      BY <1>1, <1>2, <1>4, <1>7, <3>2 DEF PeekHead, Expired
    <3>3. CASE buckets[c] # <<>> /\ ~Expired(t, Head(buckets[c]))
      BY <1>1, <1>2, <1>4, <1>7, <3>3 DEF PeekHead, Expired
    <3> QED BY <3>1, <3>2, <3>3
  <2>2. admitted' = [admitted EXCEPT ![c] = admitted[c]] /\ buckets' = [buckets EXCEPT ![c] = buckets[c]]
    BY <1>3, <1>7 DEF PeekHead
  <2>3. SoundLog(admitted[c], buckets[c], overlapped'[c], now, Crowded(c)')
    BY <1>1, <2>1, MoverKnows
  <2>4. Recorded(t, location, c, admitted[c], buckets[c])
    BY <1>1, <1>3, <2>1, <2>2, <2>3 DEF Recorded
  <2> QED BY <2>1, <2>4, MoveKeeps
<1>8. CASE PopHead(t) /\ buckets[c] = <<>>
  <2>1. Moves(t, "IndexError")
    BY <1>2, <1>5, <1>8 DEF PopHead, Results
  <2>2. admitted' = [admitted EXCEPT ![c] = admitted[c]] /\ buckets' = [buckets EXCEPT ![c] = buckets[c]]
    BY <1>2, <1>3, <1>8 DEF PopHead
  <2>3. SoundLog(admitted[c], buckets[c], overlapped'[c], now, Crowded(c)')
    BY <1>1, <2>1, MoverKnows
  <2>4. Recorded(t, "IndexError", c, admitted[c], buckets[c])
    BY <1>1, <1>3, <2>2, <2>3 DEF Recorded
  <2> QED BY <2>1, <2>4, MoveKeeps
<1>9. CASE PopHead(t) /\ buckets[c] # <<>>
  <2> DEFINE rest == Tail(buckets[c])
  <2>1. Moves(t, "look") /\ buckets' = [buckets EXCEPT ![c] = rest]
        /\ admitted' = [admitted EXCEPT ![c] = admitted[c]]
    <3>1. Continue(t, "look") /\ overlapped' = overlapped /\ admitted' = admitted
          /\ buckets' = [buckets EXCEPT ![c] = rest]
      BY <1>1, <1>2, <1>9 DEF PopHead
    <3> QED BY <1>3, <1>4, <3>1
  <2>2. rest \in Seq(Times)
    BY <1>3, <1>9
  <2>3. /\ current \in Times /\ current <= now
        /\ \A i \in 1..Len(admitted[c]) : admitted[c][i] <= current \/ admitted[c][i] <= overlapped'[c]
        /\ call[t].crossed => Beside(t, c) # {} \/ overlapped'[c] >= current
        /\ Crowded(c)' \in BOOLEAN /\ overlapped'[c] \in Int
        /\ SoundLog(admitted[c], buckets[c], overlapped'[c], now, Crowded(c)')
    BY <1>1, <2>1, MoverKnows
  <2>4. current \in Int /\ now \in Int /\ Window \in Int
    BY <2>3, TimesAreIntegers DEF LimiterInv, LimiterTyped
  <2>5. Head(buckets[c]) \in Int
    <3>1. Head(buckets[c]) \in Times
      BY <1>3, <1>9
    <3> QED BY <3>1, TimesAreIntegers
  <2>6. \/ Head(buckets[c]) <= overlapped'[c]
        \/ Head(buckets[c]) <= now - Window
        \/ Crowded(c)'
    <3>1. CASE ~call[t].crossed
      <4>1. Head(buckets[c]) <= current - Window
        BY <1>1, <1>2, <1>9, <3>1 DEF CallSound, PopHead, Expired
      <4> QED BY <2>3, <2>4, <2>5, <4>1
    <3>2. CASE call[t].crossed /\ Beside(t, c) # {}
      <4>1. Beside(t, c)' # {}
        BY <1>1, <2>1, <3>2, MoveCrowds DEF Results
      <4>2. Inside(t)' /\ call'[t].key = c
        BY <1>1, <2>1, MoveFacts DEF Results
      <4>3. Crowded(c)'
        BY <4>1, <4>2 DEF Beside, Crowded
      <4> QED BY <4>3
    <3>3. CASE overlapped'[c] >= current
      <4> DEFINE over == overlapped'[c]
                 crowded == Crowded(c)'
      <4>1. SoundLog(admitted[c], buckets[c], over, now, crowded)
        BY <2>3
      <4> HIDE DEF over, crowded
      <4>2. \E i \in 1..Len(admitted[c]) : Head(buckets[c]) = admitted[c][i]
        BY <1>3, <1>9, <4>1, HeadIsLogged
      <4>3. Head(buckets[c]) <= current \/ Head(buckets[c]) <= overlapped'[c]
        BY <2>3, <4>2
      <4> QED BY <2>3, <2>4, <2>5, <3>3, <4>3
    <3> QED BY <2>3, <3>1, <3>2, <3>3
  <2>7. SoundLog(admitted[c], rest, overlapped'[c], now, Crowded(c)')
    BY <1>3, <1>9, <2>3, <2>4, <2>6, LogPops
  <2> HIDE DEF rest
  <2>8. Recorded(t, "look", c, admitted[c], rest)
    BY <1>1, <1>3, <2>1, <2>2, <2>7 DEF Recorded
  <2> QED BY <2>1, <2>8, MoveKeeps
<1>10. ASSUME Count(t) \/ AppendHit(t), NEW location, Moves(t, location)
       PROVE  /\ current \in Times /\ current <= now /\ Limit > 0
              /\ current \in Int /\ now \in Int /\ Window \in Int /\ Window > 0 /\ Limit \in Int
              /\ Len(buckets[c]) \in Nat
              /\ \A i \in 1..Len(admitted[c]) : admitted[c][i] <= current \/ admitted[c][i] <= overlapped'[c]
              /\ call[t].crossed => Beside(t, c) # {} \/ overlapped'[c] >= current
              /\ Crowded(c)' \in BOOLEAN /\ overlapped'[c] \in Int
              /\ SoundLog(admitted[c], buckets[c], overlapped'[c], now, Crowded(c)')
              /\ location \in Results /\ Beside(t, c) # {} => overlapped'[c] = now
              /\ Crowded(c)' => Beside(t, c) # {}
  <2>1. /\ current \in Times /\ current <= now /\ Limit > 0
        /\ \A i \in 1..Len(admitted[c]) : admitted[c][i] <= current \/ admitted[c][i] <= overlapped'[c]
        /\ call[t].crossed => Beside(t, c) # {} \/ overlapped'[c] >= current
        /\ Crowded(c)' \in BOOLEAN /\ overlapped'[c] \in Int
        /\ SoundLog(admitted[c], buckets[c], overlapped'[c], now, Crowded(c)')
    BY <1>1, <1>10, MoverKnows
  <2>2. location \in Results /\ Beside(t, c) # {} => overlapped'[c] = now
    BY <1>1, <1>10, MoveFacts
  <2>3. Crowded(c)' => Beside(t, c) # {}
    BY <1>1, <1>10, MoveCrowds
  <2>4. current \in Int /\ now \in Int /\ Window \in Int /\ Window > 0 /\ Limit \in Int
    BY <2>1, TimesAreIntegers DEF LimiterInv, LimiterTyped
  <2> QED BY <1>3, <2>1, <2>2, <2>3, <2>4
<1>11. CASE Count(t) /\ Len(buckets[c]) >= Limit
  <2>1. Moves(t, "refused")
    BY <1>2, <1>5, <1>11 DEF Count, Results
  <2>2. admitted' = [admitted EXCEPT ![c] = admitted[c]] /\ buckets' = [buckets EXCEPT ![c] = buckets[c]]
    BY <1>3, <1>11 DEF Count
  <2>3. /\ current \in Int /\ now \in Int /\ Window \in Int /\ Window > 0 /\ Limit \in Int
        /\ Limit > 0 /\ current <= now /\ Len(buckets[c]) \in Nat
        /\ \A i \in 1..Len(admitted[c]) : admitted[c][i] <= current \/ admitted[c][i] <= overlapped'[c]
        /\ call[t].crossed => Beside(t, c) # {} \/ overlapped'[c] >= current
        /\ Beside(t, c) # {} => overlapped'[c] = now
        /\ Crowded(c)' \in BOOLEAN /\ overlapped'[c] \in Int
        /\ SoundLog(admitted[c], buckets[c], overlapped'[c], now, Crowded(c)')
    BY <1>10, <1>11, <2>1 DEF Results
  <2>4. overlapped'[c] > current - Window \/ AllowedBefore(c, current) >= Limit
    <3>1. CASE call[t].crossed
      BY <2>3, <3>1
    <3>2. CASE ~call[t].crossed /\ overlapped'[c] <= current - Window
      <4>1. buckets[c] # <<>>
        BY <1>3, <1>11, <2>3
      <4>2. ~(Head(buckets[c]) <= current - Window)
        BY <1>1, <1>2, <1>11, <3>2, <4>1 DEF CallSound, Count, Expired
      <4> DEFINE over == overlapped'[c]
                 crowded == Crowded(c)'
      <4>3. /\ over \in Int /\ crowded \in BOOLEAN /\ over <= current - Window
            /\ SoundLog(admitted[c], buckets[c], over, now, crowded)
            /\ \A i \in 1..Len(admitted[c]) : admitted[c][i] <= current \/ admitted[c][i] <= over
        BY <2>3, <3>2
      <4> HIDE DEF over, crowded
      <4>4. Cardinality(Within(admitted[c], current - Window, current)) >= Len(buckets[c])
        BY <1>3, <2>3, <4>1, <4>2, <4>3, WindowFull
      <4>5. AllowedBefore(c, current) = Cardinality(Within(admitted[c], current - Window, current))
        BY DEF AllowedBefore, Within
      <4>6. Cardinality(Within(admitted[c], current - Window, current)) \in Nat
        <5>1. Within(admitted[c], current - Window, current) \subseteq 1..Len(admitted[c])
          BY <1>3 DEF Within
        <5>2. IsFiniteSet(1..Len(admitted[c]))
          <6>1. Len(admitted[c]) \in Int
            BY <1>3
          <6> QED BY <6>1, FS_Interval
        <5> QED BY <5>1, <5>2, FS_Subset, FS_CardinalityType
      <4> QED BY <1>11, <2>3, <4>4, <4>5, <4>6
    <3> QED BY <2>3, <3>1, <3>2
  <2>5. Recorded(t, "refused", c, admitted[c], buckets[c])
    BY <1>1, <1>3, <2>2, <2>3, <2>4 DEF Recorded
  <2> QED BY <2>1, <2>5, MoveKeeps
<1>12. CASE Count(t) /\ ~(Len(buckets[c]) >= Limit)
  <2>1. Moves(t, "append")
    BY <1>2, <1>4, <1>12 DEF Count
  <2>2. admitted' = [admitted EXCEPT ![c] = admitted[c]] /\ buckets' = [buckets EXCEPT ![c] = buckets[c]]
    BY <1>3, <1>12 DEF Count
  <2>3. Limit \in Int /\ Len(buckets[c]) \in Nat
        /\ SoundLog(admitted[c], buckets[c], overlapped'[c], now, Crowded(c)')
    BY <1>10, <1>12, <2>1
  <2>4. Len(buckets[c]) < Limit
    BY <1>12, <2>3
  <2>5. Recorded(t, "append", c, admitted[c], buckets[c])
    BY <1>1, <1>3, <2>2, <2>3, <2>4 DEF Recorded
  <2> QED BY <2>1, <2>5, MoveKeeps
<1>13. CASE AppendHit(t)
  <2> DEFINE log == Append(admitted[c], current)
             bucket == Append(buckets[c], current)
  <2>1. Moves(t, "allowed")
    BY <1>5, <1>13 DEF AppendHit, Results
  <2>2. admitted' = [admitted EXCEPT ![c] = log] /\ buckets' = [buckets EXCEPT ![c] = bucket]
    BY <1>1, <1>2, <1>13 DEF AppendHit
  <2>3. /\ current \in Times /\ current \in Int /\ now \in Int /\ current <= now
        /\ \A i \in 1..Len(admitted[c]) : admitted[c][i] <= current \/ admitted[c][i] <= overlapped'[c]
        /\ call[t].crossed => Beside(t, c) # {} \/ overlapped'[c] >= current
        /\ Crowded(c)' \in BOOLEAN /\ overlapped'[c] \in Int
        /\ SoundLog(admitted[c], buckets[c], overlapped'[c], now, Crowded(c)')
        /\ Beside(t, c) # {} => overlapped'[c] = now
        /\ Crowded(c)' => Beside(t, c) # {}
    BY <1>10, <1>13, <2>1 DEF Results
  <2>4. current <= overlapped'[c] \/ (Len(buckets[c]) < Limit /\ ~Crowded(c)')
    <3>1. CASE Beside(t, c) # {} \/ call[t].crossed
      BY <2>3, <3>1
    <3>2. CASE Beside(t, c) = {} /\ ~call[t].crossed
      <4>1. Len(buckets[c]) < Limit
        BY <1>1, <1>2, <1>13, <3>2 DEF CallSound, AppendHit
      <4> QED BY <2>3, <3>2, <4>1
    <3> QED BY <3>1, <3>2
  <2>5. log \in Seq(Times) /\ bucket \in Seq(Times)
    BY <1>3, <2>3
  <2>6. SoundLog(log, bucket, overlapped'[c], now, Crowded(c)')
    <3> DEFINE over == overlapped'[c]
               crowded == Crowded(c)'
    <3>1. /\ over \in Int /\ crowded \in BOOLEAN
          /\ SoundLog(admitted[c], buckets[c], over, now, crowded)
          /\ \A i \in 1..Len(admitted[c]) : admitted[c][i] <= current \/ admitted[c][i] <= over
          /\ current <= over \/ (Len(buckets[c]) < Limit /\ ~crowded)
      BY <2>3, <2>4
    <3> HIDE DEF over, crowded
    <3>2. SoundLog(log, bucket, over, now, crowded)
      BY <1>3, <2>3, <3>1, LogGrows
    <3> QED BY <3>2 DEF over, crowded
  <2> HIDE DEF bucket
  <2>7. log = Append(admitted[c], call[t].current)
    BY <1>1
  <2> HIDE DEF log
  <2>8. Recorded(t, "allowed", c, log, bucket)
    BY <1>1, <2>2, <2>5, <2>6, <2>7 DEF Recorded
  <2> QED BY <2>1, <2>8, MoveKeeps
<1> QED BY <1>6, <1>7, <1>8, <1>9, <1>11, <1>12, <1>13 DEF AllowStep

(* A call begins now: every hit before it is earlier. *)
LEMMA HistoryCall ==
  ASSUME HistoryInv, LimiterInv, NEW t \in Threads, NEW c \in Clients, Allow(t, c), UNCHANGED now
  PROVE  HistoryInv'
<1>1. /\ UNCHANGED <<buckets, admitted, overlapped>> /\ now' = now /\ call[t] = NoCall
      /\ now \in Times /\ call \in [Threads -> Calls]
  BY DEF Allow, LimiterInv, LimiterTyped
<1> DEFINE called == [at |-> IF Limit = 0 THEN "allowed" ELSE "look", key |-> c,
                      current |-> now, crossed |-> Beside(t, c) # {}]
<1>2. call' = [u \in Threads |-> IF u = t THEN called
                                ELSE IF u \in Beside(t, c) THEN [call[u] EXCEPT !.crossed = TRUE]
                                ELSE call[u]]
  BY DEF Allow
<1>3. /\ Limit = 0 => called.at = "allowed"
      /\ Limit # 0 => called.at = "look"
      /\ called.key = c /\ called.current = now /\ called.crossed = (Beside(t, c) # {})
  OBVIOUS
<1> HIDE DEF called
<1>4. call'[t] = called
  BY <1>2
<1>5. ASSUME NEW u \in Threads \ {t}
      PROVE  /\ call'[u].at = call[u].at /\ call'[u].key = call[u].key
             /\ call'[u].current = call[u].current
             /\ u \notin Beside(t, c) => call'[u] = call[u]
             /\ u \in Beside(t, c) => call'[u].crossed
  <2>1. CASE u \in Beside(t, c)
    <3>1. call'[u] = [call[u] EXCEPT !.crossed = TRUE]
      BY <1>2, <2>1
    <3> QED BY <1>1, <2>1, <3>1 DEF Calls
  <2>2. CASE u \notin Beside(t, c)
    BY <1>2, <2>2
  <2> QED BY <2>1, <2>2
<1>6. ~Inside(t)
  BY <1>1 DEF Inside, NoCall
<1>7. \A u \in Threads : Inside(u) => u # t /\ Inside(u)' /\ call'[u].key = call[u].key
  BY <1>5, <1>6 DEF Inside
<1>8. HistoryTyped'
  BY <1>1 DEF HistoryInv, HistoryTyped
<1>9. ASSUME NEW d \in Clients PROVE overlapped'[d] <= now' /\ LogSound(d)'
  <2> DEFINE crowded == Crowded(d)
             crowded2 == Crowded(d)'
             log == admitted[d]
             bucket == buckets[d]
             over == overlapped[d]
  <2>1. /\ log \in Seq(Times) /\ bucket \in Seq(Times) /\ over \in Int /\ over <= now
        /\ now \in Int /\ now >= now /\ over >= over
    BY <1>1, TimesAreIntegers DEF HistoryInv, HistoryTyped, LimiterInv, LimiterTyped
  <2>2. crowded \in BOOLEAN /\ crowded2 \in BOOLEAN /\ (crowded => crowded2)
    BY <1>7 DEF Crowded
  <2>3. SoundLog(log, bucket, over, now, crowded)
    BY DEF HistoryInv, LogSound
  <2>4. LogSound(d)' = SoundLog(log, bucket, over, now, crowded2)
    BY <1>1 DEF LogSound
  <2>5. overlapped'[d] = over
    BY <1>1
  <2> HIDE DEF crowded, crowded2, log, bucket, over
  <2>6. SoundLog(log, bucket, over, now, crowded2)
    BY <2>1, <2>2, <2>3, LogStays
  <2> QED BY <1>1, <2>1, <2>4, <2>5, <2>6
<1>10. CallSound(t)'
  <2> SUFFICES ASSUME Limit # 0 PROVE CallSound(t)'
    BY <1>3, <1>4 DEF CallSound, Inside, Results
  <2>1. Limit > 0
    BY LimiterAssumption
  <2>2. /\ now \in Int /\ now <= now /\ admitted[c] \in Seq(Times)
        /\ \A i \in 1..Len(admitted[c]) : admitted[c][i] <= now
    <3>1. now \in Int /\ admitted[c] \in Seq(Times) /\ LogSound(c)
      BY <1>1, TimesAreIntegers DEF HistoryInv, HistoryTyped
    <3>2. \A i \in 1..Len(admitted[c]) : admitted[c][i] <= now
      BY <3>1 DEF LogSound, SoundLog
    <3> QED BY <3>1, <3>2
  <2>3. Beside(t, c) # {} => Beside(t, c)' # {}
    <3> SUFFICES ASSUME NEW v \in Beside(t, c) PROVE v \in Beside(t, c)'
      OBVIOUS
    <3> QED BY <1>7 DEF Beside
  <2>4. /\ call'[t].at = "look" /\ call'[t].key = c /\ call'[t].current = now
        /\ call'[t].crossed = (Beside(t, c) # {})
    BY <1>3, <1>4
  <2> QED BY <1>1, <2>1, <2>2, <2>3, <2>4 DEF CallSound
<1>11. ASSUME NEW u \in Threads \ {t} PROVE CallSound(u)'
  <2> SUFFICES ASSUME Inside(u) PROVE CallSound(u)'
    BY <1>5 DEF CallSound, Inside
  <2>1. PICK d : d = call[u].key /\ d = call'[u].key
    BY <1>5
  <2>2. call'[u].at = call[u].at /\ call'[u].current = call[u].current /\ CallSound(u)
    BY <1>5 DEF HistoryInv
  <2>3. Beside(u, d) # {} => Beside(u, d)' # {}
    <3> SUFFICES ASSUME NEW v \in Beside(u, d) PROVE v \in Beside(u, d)'
      OBVIOUS
    <3> QED BY <1>7 DEF Beside
  <2>4. CASE u \in Beside(t, c)
    <3>1. t \in Beside(u, d)' \/ ~Inside(t)'
      <4>1. d = c /\ call'[t].key = c
        BY <1>3, <1>4, <2>1, <2>4 DEF Beside
      <4> QED BY <4>1 DEF Beside
    <3>2. Limit > 0 => Inside(t)'
      BY <1>3, <1>4 DEF Inside, Results
    <3>3. call'[u].crossed /\ Limit > 0
      BY <1>5, <2>2, <2>4 DEF CallSound
    <3> QED BY <1>1, <2>1, <2>2, <3>1, <3>2, <3>3 DEF CallSound
  <2>5. CASE u \notin Beside(t, c)
    <3>1. call'[u] = call[u]
      BY <1>5, <2>5
    <3> QED BY <1>1, <2>1, <2>2, <2>3, <3>1 DEF CallSound, Expired
  <2> QED BY <2>4, <2>5
<1>12. ASSUME NEW u \in Threads PROVE RefusalSound(u)'
  <2>1. CASE u = t
    BY <1>3, <1>4, <2>1 DEF RefusalSound
  <2>2. CASE u # t
    <3>1. RefusalSound(u) /\ call'[u].at = call[u].at /\ call'[u].key = call[u].key
          /\ call'[u].current = call[u].current
      BY <1>5, <2>2 DEF HistoryInv
    <3> QED BY <1>1, <3>1 DEF RefusalSound, AllowedBefore
  <2> QED BY <2>1, <2>2
<1> QED BY <1>8, <1>9, <1>10, <1>11, <1>12 DEF HistoryInv

(* Nothing happens to the calls under way, and time may pass. *)
LEMMA HistoryWaits ==
  ASSUME HistoryInv, LimiterInv, UNCHANGED <<buckets, admitted, overlapped>>,
         now' \in Times, now' >= now,
         \A u \in Threads : call'[u] = call[u] \/ (~Inside(u) /\ call'[u] = NoCall)
  PROVE  HistoryInv'
<1>1. \A u \in Threads : ~Inside(u) => ~Inside(u)'
  BY DEF Inside, NoCall
<1>2. \A u \in Threads : Inside(u) => Inside(u)' /\ call'[u] = call[u]
  BY DEF Inside
<1>3. now \in Int /\ now' \in Int
  BY TimesAreIntegers DEF LimiterInv, LimiterTyped
<1>4. HistoryTyped'
  BY DEF HistoryInv, HistoryTyped
<1>5. ASSUME NEW d \in Clients PROVE overlapped'[d] <= now' /\ LogSound(d)'
  <2> DEFINE crowded == Crowded(d)
             crowded2 == Crowded(d)'
             log == admitted[d]
             bucket == buckets[d]
             over == overlapped[d]
             later == now'
  <2>1. /\ log \in Seq(Times) /\ bucket \in Seq(Times) /\ over \in Int /\ over <= now
        /\ now \in Int /\ later \in Int /\ later >= now /\ over >= over
    BY <1>3 DEF HistoryInv, HistoryTyped, LimiterInv, LimiterTyped
  <2>2. crowded \in BOOLEAN /\ crowded2 \in BOOLEAN /\ (crowded => crowded2)
    BY <1>2 DEF Crowded
  <2>3. SoundLog(log, bucket, over, now, crowded)
    BY DEF HistoryInv, LogSound
  <2>4. LogSound(d)' = SoundLog(log, bucket, over, later, crowded2)
    BY DEF LogSound
  <2>5. overlapped'[d] = over
    OBVIOUS
  <2> HIDE DEF crowded, crowded2, log, bucket, over, later
  <2>6. SoundLog(log, bucket, over, later, crowded2)
    BY <2>1, <2>2, <2>3, LogStays
  <2>7. over <= later
    BY <2>1
  <2>8. overlapped'[d] <= now'
    BY <2>5, <2>7 DEF later
  <2>9. LogSound(d)'
    BY <2>4, <2>6
  <2> QED BY <2>8, <2>9
<1>6. ASSUME NEW u \in Threads PROVE CallSound(u)'
  <2> SUFFICES ASSUME Inside(u) PROVE CallSound(u)'
    BY <1>1 DEF CallSound
  <2>1. PICK d : d = call[u].key
    OBVIOUS
  <2>2. call'[u] = call[u] /\ CallSound(u)
    BY <1>2 DEF HistoryInv
  <2>3. Beside(u, d) # {} => Beside(u, d)' # {}
    <3> SUFFICES ASSUME NEW v \in Beside(u, d) PROVE v \in Beside(u, d)'
      OBVIOUS
    <3>1. v \in Threads \ {u} /\ Inside(v) /\ call[v].key = d
      BY DEF Beside
    <3>2. Inside(v)' /\ call'[v] = call[v]
      BY <1>2, <3>1
    <3> QED BY <3>1, <3>2 DEF Beside
  <2>4. call[u].current \in Int
    BY TimesAreIntegers DEF LimiterInv, LimiterTyped, Inside
  <2>5. call[u].current <= now => call[u].current <= now'
    BY <1>3, <2>4
  <2> QED BY <2>1, <2>2, <2>3, <2>5 DEF CallSound, Expired
<1>7. ASSUME NEW u \in Threads PROVE RefusalSound(u)'
  <2>1. RefusalSound(u)
    BY DEF HistoryInv
  <2> QED BY <2>1 DEF RefusalSound, AllowedBefore, NoCall
<1> QED BY <1>4, <1>5, <1>6, <1>7 DEF HistoryInv

LEMMA HistoryStart == Init => HistoryInv
<1> SUFFICES ASSUME Init PROVE HistoryInv
  OBVIOUS
<1>1. /\ now = 0 /\ now \in Times
      /\ \A c \in Clients : buckets[c] = <<>> /\ admitted[c] = <<>> /\ overlapped[c] = -Window
      /\ \A t \in Threads : call[t].at = "none"
      /\ -Window \in Int /\ -Window <= 0
  BY LimiterAssumption, ClockAssumption DEF Init, LimiterInit, NoCall, Times
<1>2. HistoryTyped
  BY <1>1 DEF HistoryTyped, Init, LimiterInit
<1>3. \A t \in Threads : CallSound(t) /\ RefusalSound(t)
  BY <1>1 DEF CallSound, RefusalSound, Inside
<1>4. ASSUME NEW c \in Clients PROVE overlapped[c] <= now /\ LogSound(c)
  <2> DEFINE empty == <<>>
  <2>1. Len(empty) = 0 /\ 1..Len(empty) = {} /\ 1..(Len(empty) - Len(empty)) = {}
    OBVIOUS
  <2>2. \A s \in Int : Cardinality(Later(empty, s)) <= Limit
    <3>1. \A s \in Int : Later(empty, s) = {}
      BY <2>1 DEF Later
    <3> QED BY <3>1, FS_EmptySet, LimiterAssumption
  <2>3. \A over, crowded : SoundLog(empty, empty, over, now, crowded)
    BY <2>1, <2>2 DEF SoundLog
  <2> QED BY <1>1, <2>3 DEF LogSound
<1> QED BY <1>2, <1>3, <1>4 DEF HistoryInv

LEMMA HistoryKept == HistoryInv /\ LimiterInv /\ [Next]_vars => HistoryInv'
<1> SUFFICES ASSUME HistoryInv, LimiterInv, [Next]_vars PROVE HistoryInv'
  OBVIOUS
<1>1. now \in Times /\ now \in Int
  BY TimesAreIntegers DEF LimiterInv, LimiterTyped
<1>2. CASE UNCHANGED limiter /\ UNCHANGED now
  BY <1>1, <1>2, HistoryWaits DEF limiter
<1>3. CASE Tick
  <2>1. now' \in Times /\ now' >= now
    BY <1>1, <1>3, ClockAssumption DEF Tick, Advance, Times
  <2> QED BY <1>3, <2>1, HistoryWaits DEF Tick, limiter
<1>4. ASSUME NEW t \in Threads, NEW c \in Clients, NEW target \in {"invoice", "page"},
             Get(t, c, target)
      PROVE  HistoryInv'
  BY <1>4, HistoryCall DEF Get
<1>5. ASSUME NEW t \in Threads, InLimiter(t) PROVE HistoryInv'
  BY <1>5, HistoryStep DEF InLimiter
<1>6. ASSUME NEW t \in Threads, Proceed(t) PROVE HistoryInv'
  <2>1. /\ UNCHANGED <<buckets, admitted, overlapped>> /\ UNCHANGED now
        /\ call' = [call EXCEPT ![t] = NoCall] /\ ~Inside(t)
    BY <1>6 DEF Proceed, Return, Inside
  <2>2. \A u \in Threads : call'[u] = call[u] \/ (~Inside(u) /\ call'[u] = NoCall)
    BY <2>1 DEF LimiterInv, LimiterTyped
  <2> QED BY <1>1, <2>1, <2>2, HistoryWaits
<1>7. CASE UNCHANGED vars
  BY <1>2, <1>7 DEF vars
<1>8. CASE Next
  BY <1>2, <1>3, <1>4, <1>5, <1>6, <1>7, <1>8
     DEF Next, Step, AskRate, FixedAmount, LookUp, Amount, Respond, Quiet
<1> QED BY <1>7, <1>8

LEMMA HistoryAlways == Spec => [](HistoryInv /\ LimiterInv)
<1>1. Init => HistoryInv /\ LimiterInv
  BY HistoryStart, LimiterStart
<1>2. HistoryInv /\ LimiterInv /\ [Next]_vars => (HistoryInv /\ LimiterInv)'
  BY HistoryKept, LimiterKept
<1> QED BY <1>1, <1>2, PTL DEF Spec

(* rate_limit.py: however the calls of a client have overlapped before, in  *)
(* the minute after the last overlap at most the limit of its requests are  *)
(* allowed; what the race has lost or disordered in the deque is forgotten. *)
THEOREM LimitReturns == Spec => []LimitHoldsWhenCalm
<1>1. HistoryInv /\ LimiterInv => LimitHoldsWhenCalm
  <2> SUFFICES ASSUME HistoryInv, LimiterInv, NEW c \in Clients, Calm(c, now)
               PROVE  AllowedBefore(c, now) <= Limit
    BY DEF LimitHoldsWhenCalm
  <2>1. /\ admitted[c] \in Seq(Times) /\ now - Window \in Int /\ Limit \in Int
        /\ now - Window >= overlapped[c] /\ now - Window >= now - Window
    BY TimesAreIntegers DEF HistoryInv, HistoryTyped, LimiterInv, LimiterTyped, Calm
  <2>2. Cardinality(Later(admitted[c], now - Window)) <= Limit
    BY <2>1 DEF HistoryInv, LogSound, SoundLog
  <2>3. Within(admitted[c], now - Window, now) \subseteq Later(admitted[c], now - Window)
    BY <2>1, HitsAreIntegers DEF Within, Later
  <2>4. /\ IsFiniteSet(Later(admitted[c], now - Window))
        /\ Cardinality(Later(admitted[c], now - Window)) \in Nat
    BY <2>1, LaterIsFinite
  <2>5. /\ Cardinality(Within(admitted[c], now - Window, now)) <=
             Cardinality(Later(admitted[c], now - Window))
        /\ Cardinality(Within(admitted[c], now - Window, now)) \in Nat
    BY <2>3, <2>4, FS_Subset, FS_CardinalityType
  <2>6. AllowedBefore(c, now) = Cardinality(Within(admitted[c], now - Window, now))
    BY DEF AllowedBefore, Within
  <2> QED BY <2>1, <2>2, <2>4, <2>5, <2>6
<1> QED BY <1>1, HistoryAlways, PTL

(* rate_limit.py: a request that is refused with 429 while no overlap is    *)
(* younger than a minute comes from a client that has used up its limit.    *)
THEOREM RefusalsEarned == Spec => []RefusalsAreEarned
<1>1. HistoryInv /\ LimiterInv => RefusalsAreEarned
  <2> SUFFICES ASSUME HistoryInv, LimiterInv, NEW t \in Threads, call[t].at = "refused",
                      Calm(call[t].key, call[t].current)
               PROVE  AllowedBefore(call[t].key, call[t].current) >= Limit
    BY DEF RefusalsAreEarned
  <2>1. call[t].key \in Clients /\ call[t].current \in Times
    BY DEF LimiterInv, LimiterTyped
  <2>2. /\ overlapped[call[t].key] \in Int /\ call[t].current - Window \in Int
        /\ overlapped[call[t].key] <= call[t].current - Window
    <3>1. overlapped \in [Clients -> Int] /\ call[t].current \in Int /\ Window \in Int
      BY <2>1, TimesAreIntegers DEF HistoryInv, HistoryTyped
    <3>2. overlapped[call[t].key] <= call[t].current - Window
      BY DEF Calm
    <3> QED BY <2>1, <3>1, <3>2
  <2>3. \/ overlapped[call[t].key] > call[t].current - Window
        \/ AllowedBefore(call[t].key, call[t].current) >= Limit
    BY DEF HistoryInv, RefusalSound
  <2> QED BY <2>2, <2>3
<1> QED BY <1>1, HistoryAlways, PTL
=============================================================================
