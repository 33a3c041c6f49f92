--------------------------- MODULE AccountRegistry ---------------------------
(***************************************************************************)
(* What the mobile accounts promise, without threads, statements or        *)
(* crashes: a device has one account at most, a subscription belongs to an *)
(* account and lasts as long as it does, and an account only goes when its *)
(* holder has asked for that.                                              *)
(***************************************************************************)
CONSTANTS Users, Devices, None

VARIABLES
  device,      \* the device of each account, None for an id that has none
  subscribed,  \* the accounts with a subscription
  leaving      \* the accounts whose holders have asked for their deletion

Exists(devices) == {u \in Users : devices[u] # None}

Init == device = [u \in Users |-> None] /\ subscribed = {} /\ leaving = {}

AskToLeave == \E u \in Exists(device) : /\ leaving' = leaving \cup {u}
                                        /\ UNCHANGED <<device, subscribed>>

(* Several accounts may change at once: requests share commits.            *)
Change ==
  /\ device' \in [Users -> Devices \cup {None}]
  /\ \A u \in Users : \/ device'[u] = device[u]
                      \/ device[u] = None
                      \/ device'[u] = None /\ u \in leaving
  /\ \A u, v \in Exists(device') : device'[u] = device'[v] => u = v
  /\ subscribed' \subseteq Exists(device')
  /\ subscribed \cap Exists(device') \subseteq subscribed'
  /\ UNCHANGED leaving

Next == AskToLeave \/ Change

Spec == Init /\ [][Next]_<<device, subscribed, leaving>>
=============================================================================
