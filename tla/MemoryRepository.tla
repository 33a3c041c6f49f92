-------------------------- MODULE MemoryRepository --------------------------
(***************************************************************************)
(* InMemoryRepository: the accounts in plain dictionaries                  *)
(* (VPN_ROUTER_REPOSITORY=memory), without a lock or a transaction.  A     *)
(* single operation on a dictionary is atomic, and request threads may be  *)
(* switched between any two of them.  A restart empties everything, which  *)
(* is Init again.                                                          *)
(***************************************************************************)
CONSTANTS
  Devices,    \* device ids
  Users,      \* user ids: new_id("usr") never repeats
  Threads,    \* concurrent HTTP requests
  None        \* nothing

ASSUME NoneAssumption == None \notin Devices \cup Users

VARIABLES
  users_by_id,         \* the device of each user, None for an id that is no key
  users_by_device_id,  \* the user of each device
  subscriptions,       \* the keys of subscriptions_by_user_id
  req,                 \* the request of each thread
  alone,               \* the devices whose app sends one request at a time
  owner,               \* history: the device that each id was drawn for
  holders,             \* accounts whose bearer token a client has received
  leaving,             \* accounts whose holder has sent DELETE /api/me
  deleted              \* history: accounts whose deletion was answered with 200

accounts == <<users_by_id, users_by_device_id, subscriptions>>
history == <<owner, holders, leaving, deleted>>
vars == <<accounts, req, alone, history>>

-----------------------------------------------------------------------------
Idle == [at |-> "idle", op |-> "none", device |-> None, user |-> None]

Goto(t, location) == req' = [req EXCEPT ![t].at = location]
Leave(t) == req' = [req EXCEPT ![t] = Idle]

(* A request of or for a device; those alone wait for their turn.          *)
Accept(t, location, op, device, user) ==
  /\ req[t] = Idle
  /\ device \in alone => \A other \in Threads : req[other].device # device
  /\ req' = [req EXCEPT ![t] = [at |-> location, op |-> op, device |-> device,
                                user |-> user]]

(* auth_init; auth_receipt and the webhook of a device's payment, which    *)
(* activate_subscription.                                                  *)
StartSignUp(t) ==
  /\ \E op \in {"init", "receipt", "webhook"}, d \in Devices : Accept(t, "get", op, d, None)
  /\ UNCHANGED <<accounts, alone, history>>

StartDelete(t) ==
  /\ \E u \in holders : /\ Accept(t, "authorize", "delete", owner[u], u)
                        /\ leaving' = leaving \cup {u}
  /\ UNCHANGED <<accounts, alone, owner, holders, deleted>>

-----------------------------------------------------------------------------
(* get_or_create_user.                                                     *)
Created(t, location) == Goto(t, IF req[t].op = "init" THEN "respond" ELSE location)

(* (Variant: every sign-up makes a user.)                                  *)
NeverFound(t) == None
FoundUser(t) == users_by_device_id[req[t].device]

GetDevice(t) ==
  LET found == FoundUser(t)
  IN  /\ req[t].at = "get"
      /\ IF found # None
         THEN req' = [req EXCEPT ![t].at = "fetch", ![t].user = found] /\ UNCHANGED owner
         ELSE \/ \E u \in Users :
                   /\ owner[u] = None
                   /\ owner' = [owner EXCEPT ![u] = req[t].device]
                   /\ req' = [req EXCEPT ![t].at = "insert user", ![t].user = u]
              \/ (\A u \in Users : owner[u] # None) /\ Leave(t) /\ UNCHANGED owner
      /\ UNCHANGED <<accounts, alone, holders, leaving, deleted>>

(* users_by_id[...]: KeyError ends the request.                            *)
FetchUser(t) ==
  /\ req[t].at = "fetch"
  /\ IF users_by_id[req[t].user] = None THEN Leave(t) ELSE Created(t, "subscribe")
  /\ UNCHANGED <<accounts, alone, history>>

InsertUser(t) ==
  /\ req[t].at = "insert user"
  /\ users_by_id' = [users_by_id EXCEPT ![req[t].user] = req[t].device]
  /\ Goto(t, "insert device")
  /\ UNCHANGED <<users_by_device_id, subscriptions, alone, history>>

InsertDevice(t) ==
  /\ req[t].at = "insert device"
  /\ users_by_device_id' = [users_by_device_id EXCEPT ![req[t].device] = req[t].user]
  /\ Created(t, "subscribe")
  /\ UNCHANGED <<users_by_id, subscriptions, alone, history>>

(* activate_subscription: nobody looks whether the user is still there.    *)
Subscribe(t) ==
  /\ req[t].at = "subscribe"
  /\ subscriptions' = subscriptions \cup {req[t].user}
  /\ Goto(t, "respond")
  /\ UNCHANGED <<users_by_id, users_by_device_id, alone, history>>

-----------------------------------------------------------------------------
(* user_id_from_authorization, then delete_user.                           *)
Authorize(t) ==
  /\ req[t].at = "authorize"
  /\ IF users_by_id[req[t].user] = None THEN Leave(t) ELSE Goto(t, "pop user")
  /\ UNCHANGED <<accounts, alone, history>>

(* (Variant: whichever user the device has by now.)                        *)
PopUserOfDevice(t) ==
  LET u == users_by_device_id[req[t].device]
  IN  /\ req[t].at = "pop user"
      /\ IF u = None THEN Leave(t) ELSE Goto(t, "pop device")
      /\ users_by_id' = [v \in Users |-> IF v = u THEN None ELSE users_by_id[v]]
      /\ UNCHANGED <<users_by_device_id, subscriptions, alone, history>>
PopUser(t) ==
  /\ req[t].at = "pop user"
  /\ IF users_by_id[req[t].user] = None THEN Leave(t) ELSE Goto(t, "pop device")
  /\ users_by_id' = [users_by_id EXCEPT ![req[t].user] = None]
  /\ UNCHANGED <<users_by_device_id, subscriptions, alone, history>>

(* Whichever user the device has by now.  (Variant: the entry is left.)    *)
KeepDevice(t) ==
  /\ req[t].at = "pop device"
  /\ Goto(t, "pop subscription")
  /\ UNCHANGED <<accounts, alone, history>>
PopDevice(t) ==
  /\ req[t].at = "pop device"
  /\ users_by_device_id' = [users_by_device_id EXCEPT ![req[t].device] = None]
  /\ Goto(t, "pop subscription")
  /\ UNCHANGED <<users_by_id, subscriptions, alone, history>>

(* (Variant: the subscription stays behind.)                               *)
KeepSubscription(t) ==
  /\ req[t].at = "pop subscription"
  /\ Goto(t, "respond")
  /\ UNCHANGED <<accounts, alone, history>>
PopSubscription(t) ==
  /\ req[t].at = "pop subscription"
  /\ subscriptions' = subscriptions \ {req[t].user}
  /\ Goto(t, "respond")
  /\ UNCHANGED <<users_by_id, users_by_device_id, alone, history>>

-----------------------------------------------------------------------------
(* 200; a receipt is answered with a bearer token.                         *)
Respond(t) ==
  LET r == req[t]
  IN  /\ r.at = "respond"
      /\ Leave(t)
      /\ holders' = IF r.op = "receipt" THEN holders \cup {r.user} ELSE holders
      /\ deleted' = IF r.op = "delete" THEN deleted \cup {r.user} ELSE deleted
      /\ UNCHANGED <<accounts, alone, owner, leaving>>

Init ==
  /\ users_by_id = [u \in Users |-> None] /\ users_by_device_id = [d \in Devices |-> None]
  /\ subscriptions = {}
  /\ req = [t \in Threads |-> Idle]
  /\ alone \in SUBSET Devices
  /\ owner = [u \in Users |-> None]
  /\ holders = {} /\ leaving = {} /\ deleted = {}

Step(t) == \/ StartSignUp(t) \/ StartDelete(t)
           \/ GetDevice(t) \/ FetchUser(t) \/ InsertUser(t) \/ InsertDevice(t) \/ Subscribe(t)
           \/ Authorize(t) \/ PopUser(t) \/ PopDevice(t) \/ PopSubscription(t)
           \/ Respond(t)

Next == \E t \in Threads : Step(t)

Spec == Init /\ [][Next]_vars

-----------------------------------------------------------------------------
(* A device never leads to a user that is gone, except while that user's   *)
(* deletion is between its first two steps: no interleaving locks a device *)
(* out with a KeyError for good.                                           *)
NoDanglingDevice ==
  \A d \in Devices :
    LET u == users_by_device_id[d]
    IN  u # None /\ users_by_id[u] # d =>
          \E t \in Threads : req[t].at = "pop device" /\ req[t].user = u

(* Who holds a bearer token keeps account and subscription until asking    *)
(* for the deletion, whatever the other requests do; later payments of the *)
(* device reach that account, if the device has one request at a time.     *)
HoldersKeepAccount ==
  \A u \in holders \ leaving :
    /\ users_by_id[u] # None /\ u \in subscriptions
    /\ owner[u] \in alone => users_by_device_id[owner[u]] = u

(* After 200 {"deleted": true} the account is gone and stays gone; so is   *)
(* its subscription, if the device had one request at a time.              *)
DeletedIsGone ==
  \A u \in deleted : /\ users_by_id[u] = None
                     /\ \A d \in Devices : users_by_device_id[d] # u
                     /\ owner[u] \in alone => u \notin subscriptions

(* The accounts of the devices with one request at a time behave like      *)
(* AccountRegistry, although their changes take several steps.             *)
DeviceAlone == [u \in Users |-> IF users_by_id[u] \in alone THEN users_by_id[u] ELSE None]
SubscribedAlone == {u \in subscriptions : DeviceAlone[u] # None}
LeavingAlone == {u \in leaving : owner[u] \in alone}
Registry == INSTANCE AccountRegistry WITH
              device <- DeviceAlone, subscribed <- SubscribedAlone, leaving <- LeavingAlone
ImplementsRegistry == Registry!Spec
=============================================================================
