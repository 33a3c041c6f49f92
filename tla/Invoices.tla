------------------------------ MODULE Invoices ------------------------------
(***************************************************************************)
(* The page of an invoice in crypto money: a GET passes the rate limiter,  *)
(* then asks for the rate of one configured coin after the other.  Many    *)
(* request threads share the limiter, without a lock, and the rates, under *)
(* one.                                                                    *)
(***************************************************************************)
EXTENDS RateLimiter, ExchangeRates

CONSTANTS
  Configured,  \* the coins with a wallet, in order; None for the testnet coin of fixed amount
  MaxRequests  \* bound: requests

ASSUME ConfiguredAssumption == Configured \in Seq(Coins \cup {None}) /\ MaxRequests \in Nat

VARIABLES
  page,     \* each request thread: idle, in the limiter, or at which coin
  requests  \* counter under MaxRequests

vars == <<now, limiter, exchange, page, requests>>

Idle == [at |-> "idle", next |-> 0]

(* do_GET of an invoice, or of any other page.                             *)
Get(t, c, target) ==
  /\ page[t] = Idle /\ requests < MaxRequests
  /\ requests' = requests + 1
  /\ page' = [page EXCEPT ![t].at = target]
  /\ Allow(t, c)
  /\ UNCHANGED <<now, exchange>>

InLimiter(t) == AllowStep(t) /\ UNCHANGED <<now, exchange, page, requests>>

(* _is_rate_limited has its result: 429, no answer at all, another page,   *)
(* or the first coin.                                                      *)
Proceed(t) ==
  /\ Return(t)
  /\ page' = [page EXCEPT ![t] = IF call[t].at = "allowed" /\ @.at = "invoice"
                                 THEN [at |-> "coins", next |-> 1] ELSE Idle]
  /\ UNCHANGED <<now, exchange, requests>>

(* _build_coin_options: the testnet coin needs no rate.                    *)
Coin(t) == Configured[page[t].next]
Pending(t) == page[t].at = "coins" /\ page[t].next <= Len(Configured)
NextCoin(t) == page' = [page EXCEPT ![t].next = @ + 1]

AskRate(t) ==
  /\ Pending(t) /\ Coin(t) # None
  /\ GetRate(t, Coin(t))
  /\ UNCHANGED <<now, limiter, page, requests>>
FixedAmount(t) ==
  /\ Pending(t) /\ Coin(t) = None
  /\ NextCoin(t)
  /\ UNCHANGED <<now, limiter, exchange, requests>>
LookUp(t) == RateStep(t) /\ UNCHANGED <<now, limiter, page, requests>>
Amount(t) ==
  /\ RateTaken(t) /\ NextCoin(t)
  /\ UNCHANGED <<now, limiter, requests>>

(* 200, or 503 without any coin.                                           *)
Respond(t) ==
  /\ page[t].at = "coins" /\ ~Pending(t)
  /\ page' = [page EXCEPT ![t] = Idle]
  /\ UNCHANGED <<now, limiter, exchange, requests>>

Tick == Advance /\ UNCHANGED <<limiter, exchange, page, requests>>

(* Without requests nothing happens.                                       *)
Quiet == (\A t \in Threads : page[t] = Idle) /\ UNCHANGED vars

Init == /\ now = 0
        /\ LimiterInit /\ RatesInit
        /\ page = [t \in Threads |-> Idle]
        /\ requests = 0

Step(t) == \/ InLimiter(t) \/ Proceed(t)
           \/ AskRate(t) \/ FixedAmount(t) \/ LookUp(t) \/ Amount(t)
           \/ Respond(t)

Next == \/ \E t \in Threads, c \in Clients, target \in {"invoice", "page"} : Get(t, c, target)
        \/ \E t \in Threads : Step(t)
        \/ Tick \/ Quiet

Spec == Init /\ [][Next]_vars

(* Every thread goes on: the provider answers or times out, the lock is    *)
(* handed to a waiting thread when it stays free.                          *)
FairSpec == Spec /\ \A t \in Threads : WF_vars(Step(t))

-----------------------------------------------------------------------------
(* Every request is answered, or at least ends: no thread waits for ever   *)
(* for the lock, and no failing provider keeps one.                        *)
RequestsEnd == \A t \in Threads : page[t] # Idle ~> page[t] = Idle
=============================================================================
