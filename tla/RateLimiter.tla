---------------------------- MODULE RateLimiter ----------------------------
(***************************************************************************)
(* RateLimiter.allow: a sliding window of a client's last requests in a    *)
(* deque that all request threads share without a lock.  The interpreter   *)
(* may switch threads between any two operations on the deque.             *)
(***************************************************************************)
EXTENDS RequestThreads, Sequences, FiniteSets

CONSTANTS Clients,  \* client addresses, the keys
          Limit,    \* limit_per_minute, 0 for no limit
          Window    \* timedelta(minutes=1)

ASSUME LimiterAssumption == Limit \in Nat /\ Window \in Nat \ {0}
ASSUME ThreadsAssumption == IsFiniteSet(Threads)

VARIABLES
  buckets,     \* the deque of each client
  call,        \* the call of allow() of each thread
  admitted,    \* history: the hits each client was allowed, in the order allowed
  overlapped   \* history: when a call of a client last ended beside another

limiter == <<buckets, call, admitted, overlapped>>

NoCall == [at |-> "none", key |-> None, current |-> None, crossed |-> FALSE]
Results == {"allowed", "refused", "IndexError"}
Inside(t) == call[t].at \notin Results \cup {"none"}
Beside(t, c) == {u \in Threads \ {t} : Inside(u) /\ call[u].key = c}

Continue(t, location) == call' = [call EXCEPT ![t].at = location]
Bucket(t) == buckets[call[t].key]
(* (Variant: a hit of exactly a minute ago still counts.)                  *)
ExpiredLate(t, hit) == hit < call[t].current - Window
Expired(t, hit) == hit <= call[t].current - Window

(* The clock is read; every other call of the client that is under way and *)
(* this one have crossed.                                                  *)
Allow(t, c) ==
  /\ call[t] = NoCall
  /\ call' = [u \in Threads |->
                IF u = t THEN [at |-> IF Limit = 0 THEN "allowed" ELSE "look", key |-> c,
                               current |-> now, crossed |-> Beside(t, c) # {}]
                ELSE IF u \in Beside(t, c) THEN [call[u] EXCEPT !.crossed = TRUE]
                ELSE call[u]]
  /\ UNCHANGED <<buckets, admitted, overlapped>>

(* while bucket and bucket[0] <= window_start: bucket.popleft()            *)
(* (Variant: an empty bucket is not looked for.)                           *)
LookAtHead(t) ==
  /\ call[t].at = "look"
  /\ Continue(t, "peek")
  /\ UNCHANGED <<buckets, admitted, overlapped>>
LookAtBucket(t) ==
  /\ call[t].at = "look"
  /\ Continue(t, IF Bucket(t) = <<>> THEN "count" ELSE "peek")
  /\ UNCHANGED <<buckets, admitted, overlapped>>

(* A call is over: others still under way have overlapped with it.         *)
Finish(t, result) ==
  /\ Continue(t, result)
  /\ overlapped' = IF Beside(t, call[t].key) = {} THEN overlapped
                   ELSE [overlapped EXCEPT ![call[t].key] = now]

PeekHead(t) ==
  /\ call[t].at = "peek"
  /\ IF Bucket(t) = <<>> THEN Finish(t, "IndexError")
     ELSE /\ Continue(t, IF Expired(t, Head(Bucket(t))) THEN "pop" ELSE "count")
          /\ UNCHANGED overlapped
  /\ UNCHANGED <<buckets, admitted>>

PopHead(t) ==
  /\ call[t].at = "pop"
  /\ IF Bucket(t) = <<>> THEN Finish(t, "IndexError") /\ UNCHANGED buckets
     ELSE /\ buckets' = [buckets EXCEPT ![call[t].key] = Tail(@)]
          /\ Continue(t, "look")
          /\ UNCHANGED overlapped
  /\ UNCHANGED admitted

(* (Variant: one request too many.)                                        *)
CountOneMore(t) ==
  /\ call[t].at = "count"
  /\ IF Len(Bucket(t)) > Limit THEN Finish(t, "refused")
     ELSE Continue(t, "append") /\ UNCHANGED overlapped
  /\ UNCHANGED <<buckets, admitted>>
Count(t) ==
  /\ call[t].at = "count"
  /\ IF Len(Bucket(t)) >= Limit THEN Finish(t, "refused")
     ELSE Continue(t, "append") /\ UNCHANGED overlapped
  /\ UNCHANGED <<buckets, admitted>>

AppendHit(t) ==
  LET c == call[t].key
      hit == call[t].current
  IN  /\ call[t].at = "append"
      /\ buckets' = [buckets EXCEPT ![c] = Append(@, hit)]
      /\ admitted' = [admitted EXCEPT ![c] = Append(@, hit)]
      /\ Finish(t, "allowed")

AllowStep(t) == LookAtBucket(t) \/ PeekHead(t) \/ PopHead(t) \/ Count(t) \/ AppendHit(t)

(* The result is taken.                                                    *)
Return(t) == /\ call[t].at \in Results
             /\ call' = [call EXCEPT ![t] = NoCall]
             /\ UNCHANGED <<buckets, admitted, overlapped>>

LimiterInit == /\ buckets = [c \in Clients |-> <<>>]
               /\ call = [t \in Threads |-> NoCall]
               /\ admitted = [c \in Clients |-> <<>>]
               /\ overlapped = [c \in Clients |-> -Window]

-----------------------------------------------------------------------------
(* allow() was called with the clock at the given time: what the client    *)
(* was allowed in the window before.                                       *)
AllowedBefore(c, current) ==
  Cardinality({i \in DOMAIN admitted[c] :
                 current - Window < admitted[c][i] /\ admitted[c][i] <= current})

(* A window in which no call of the client has ended beside another.       *)
Calm(c, current) == overlapped[c] <= current - Window

(* However the calls of a client have overlapped before, a minute later    *)
(* the limit holds again: lost or disordered hits do no lasting harm.      *)
LimitHoldsWhenCalm ==
  Limit > 0 => \A c \in Clients : Calm(c, now) => AllowedBefore(c, now) <= Limit

(* Then nobody is refused either who has not used up the limit.            *)
RefusalsAreEarned ==
  \A t \in Threads :
    call[t].at = "refused" /\ Calm(call[t].key, call[t].current) =>
      AllowedBefore(call[t].key, call[t].current) >= Limit

(* However the calls overlap, a deque never holds more hits than the limit *)
(* and one for each other thread: the count and the append of a call are   *)
(* two steps, but what the calls of one moment add is all they exceed by.  *)
OvershootIsBounded ==
  Limit > 0 => \A c \in Clients : Len(buckets[c]) <= Limit + Cardinality(Threads) - 1

(* Only a call that crossed another one of the client can end in an        *)
(* IndexError, which no handler catches.                                   *)
OnlyCrossedCallsFail == \A t \in Threads : call[t].at = "IndexError" => call[t].crossed
=============================================================================
