--------------------------- MODULE RequestThreads ---------------------------
(* The request threads of the API server and the wall clock they all read. *)
EXTENDS Integers

CONSTANTS Threads,  \* concurrent HTTP requests
          None,     \* nothing
          MaxTime   \* bound: the clock stops here

ASSUME ClockAssumption == MaxTime \in Nat
ASSUME NothingAssumption == None \notin Int \cup Threads

VARIABLE now        \* the wall clock, datetime.now(timezone.utc)

Times == 0..MaxTime

(* Two readings may be equal: a thread may do several things at one time.  *)
Advance == now < MaxTime /\ now' = now + 1
=============================================================================
