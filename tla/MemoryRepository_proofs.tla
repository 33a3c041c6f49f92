----------------------- MODULE MemoryRepository_proofs -----------------------
(* What holds of the dictionaries for any devices, users and threads.      *)
EXTENDS MemoryRepository, TLAPS

-----------------------------------------------------------------------------
(* The inductive invariant.  The properties are about the dictionaries     *)
(* between requests; what makes them last is what each request under way   *)
(* may rely on after the step it has come to.                              *)

SignUps == {"init", "receipt", "webhook"}
Inserting == {"insert user", "insert device"}
Locations == {"idle", "get", "fetch", "subscribe", "authorize", "pop user", "pop device",
              "pop subscription", "respond"} \cup Inserting
Requests == [at : Locations, op : SignUps \cup {"delete", "none"}, device : Devices \cup {None},
             user : Users \cup {None}]

Typed == /\ users_by_id \in [Users -> Devices \cup {None}]
         /\ users_by_device_id \in [Devices -> Users \cup {None}]
         /\ subscriptions \in SUBSET Users
         /\ req \in [Threads -> Requests]
         /\ alone \in SUBSET Devices
         /\ owner \in [Users -> Devices \cup {None}]
         /\ holders \in SUBSET Users /\ leaving \in SUBSET Users /\ deleted \in SUBSET Users

(* Which requests get where. *)
Shaped(t) ==
  LET r == req[t]
  IN  /\ r.at = "idle" => r = Idle
      /\ r.at # "idle" => r.device \in Devices
      /\ r.at = "get" => r.op \in SignUps /\ r.user = None
      /\ r.at \in {"fetch", "subscribe"} \cup Inserting => r.op \in SignUps /\ r.user \in Users
      /\ r.at \in {"authorize", "pop user", "pop device", "pop subscription"} =>
           r.op = "delete" /\ r.user \in Users
      /\ r.at = "respond" => r.op # "none" /\ r.user \in Users
      /\ r.user # None => owner[r.user] = r.device
      /\ r.op = "delete" => r.user \in leaving

(* Every account belongs to the device that its id was drawn for. *)
Owned == /\ \A u \in Users : users_by_id[u] # None => users_by_id[u] = owner[u]
         /\ \A d \in Devices : users_by_device_id[d] # None => owner[users_by_device_id[d]] = d
         /\ \A u \in holders \cup subscriptions : owner[u] # None
         /\ leaving \subseteq holders /\ deleted \subseteq leaving

(* A device that sends one request at a time. *)
OneAtATime == \A t, u \in Threads : t # u /\ req[t].device \in alone => req[t].device # req[u].device

(* A new id is known to its request only. *)
FreshSound(t) ==
  LET r == req[t]
  IN  r.at \in Inserting =>
        /\ r.user \notin holders \cup subscriptions
        /\ \A d \in Devices : users_by_device_id[d] # r.user
        /\ \A u \in Threads \ {t} : req[u].user # r.user
        /\ r.at = "insert user" => users_by_id[r.user] = None
        /\ r.at = "insert device" => users_by_id[r.user] = r.device
        /\ r.device \in alone => users_by_device_id[r.device] = None

(* A sign-up has an account, as long as its holder does not leave. *)
SignUpSound(t) ==
  LET r == req[t]
  IN  /\ r.op \in SignUps /\ r.at \in {"subscribe", "respond"} /\ r.user \notin leaving =>
           users_by_id[r.user] # None
      /\ r.op \in SignUps \ {"init"} /\ r.at = "respond" /\ r.user \notin leaving =>
           r.user \in subscriptions
      /\ r.op \in SignUps /\ r.at \in {"fetch", "subscribe", "respond"} /\ r.device \in alone =>
           users_by_device_id[r.device] = r.user

(* How far a deletion has come. *)
DeleteSound(t) ==
  LET r == req[t]
  IN  r.op = "delete" =>
        /\ r.at \in {"pop device", "pop subscription", "respond"} => users_by_id[r.user] = None
        /\ r.at = "pop device" /\ r.device \in alone => users_by_device_id[r.device] = r.user
        /\ r.at \in {"pop subscription", "respond"} =>
             \A d \in Devices : users_by_device_id[d] # r.user
        /\ r.at = "respond" /\ r.device \in alone => r.user \notin subscriptions

(* The account of a device that sends one request at a time is found. *)
AloneFound ==
  \A u \in Users :
    users_by_id[u] # None /\ owner[u] \in alone =>
      \/ users_by_device_id[owner[u]] = u
      \/ \E t \in Threads : req[t].at = "insert device" /\ req[t].user = u

Kept == \A u \in holders \ leaving : users_by_id[u] # None /\ u \in subscriptions

IInv == /\ Typed /\ Owned /\ OneAtATime
        /\ \A t \in Threads : Shaped(t) /\ FreshSound(t) /\ SignUpSound(t) /\ DeleteSound(t)
        /\ NoDanglingDevice /\ AloneFound /\ Kept /\ DeletedIsGone

LEMMA Start == Init => IInv
<1> SUFFICES ASSUME Init PROVE IInv
  OBVIOUS
<1>1. Typed
  BY DEF Init, Typed, Requests, Idle, Locations
<1>2. \A t \in Threads : Shaped(t) /\ FreshSound(t) /\ SignUpSound(t) /\ DeleteSound(t)
  BY DEF Init, Idle, Shaped, FreshSound, SignUpSound, DeleteSound, Inserting, SignUps
<1>3. Owned /\ Kept /\ DeletedIsGone /\ AloneFound
  BY DEF Init, Owned, Kept, DeletedIsGone, AloneFound
<1>4. OneAtATime /\ NoDanglingDevice
  BY NoneAssumption DEF Init, Idle, OneAtATime, NoDanglingDevice
<1> QED BY <1>1, <1>2, <1>3, <1>4 DEF IInv

(* The next request of a thread. *)
LEMMA ReqChanges ==
  ASSUME Typed, NEW t \in Threads, NEW r, req' = [req EXCEPT ![t] = r], r \in Requests
  PROVE  /\ req' \in [Threads -> Requests]
         /\ req'[t] = r
         /\ \A u \in Threads \ {t} : req'[u] = req[u]
  BY DEF Typed

LEMMA IdleIsRequest == Idle \in Requests
  BY DEF Idle, Requests, Locations

(* Leaving and going on. *)
LEMMA Leaves ==
  ASSUME Typed, NEW t \in Threads, Leave(t)
  PROVE  /\ req' \in [Threads -> Requests]
         /\ req'[t] = Idle
         /\ \A u \in Threads \ {t} : req'[u] = req[u]
  BY ReqChanges, IdleIsRequest DEF Leave

LEMMA GoesOn ==
  ASSUME Typed, NEW t \in Threads, NEW location \in Locations, Goto(t, location)
  PROVE  /\ req' \in [Threads -> Requests]
         /\ req'[t].at = location /\ req'[t].op = req[t].op
         /\ req'[t].device = req[t].device /\ req'[t].user = req[t].user
         /\ \A u \in Threads \ {t} : req'[u] = req[u]
<1> DEFINE r == [req[t] EXCEPT !.at = location]
<1>1. req[t] \in Requests
  BY DEF Typed
<1>2. /\ r \in Requests
      /\ r.at = location /\ r.op = req[t].op /\ r.device = req[t].device /\ r.user = req[t].user
  BY <1>1 DEF Requests
<1>3. req' = [req EXCEPT ![t] = r]
  BY DEF Goto
<1> HIDE DEF r
<1> QED BY <1>2, <1>3, ReqChanges

-----------------------------------------------------------------------------
(* Steps that touch no dictionary: a request moves, an id is drawn, a      *)
(* holder asks to leave.                                                   *)
OnlyRequest(t) ==
  /\ req[t].at \notin {"pop device", "insert device"}
  /\ UNCHANGED <<users_by_id, users_by_device_id, subscriptions, alone, holders, deleted>>
  /\ req' \in [Threads -> Requests] /\ \A u \in Threads \ {t} : req'[u] = req[u]
  /\ leaving' \in SUBSET Users /\ leaving \subseteq leaving' /\ leaving' \subseteq holders
  /\ owner' \in [Users -> Devices \cup {None}]
  /\ \A u \in Users : owner[u] # None => owner'[u] = owner[u]
  /\ \A u \in Threads \ {t} :
       /\ req'[t].device \in alone => req[u].device # req'[t].device
       /\ req[u].at \in Inserting => req[u].user # req'[t].user

LEMMA RequestMoves ==
  ASSUME IInv, NEW t \in Threads, OnlyRequest(t),
         Shaped(t)', FreshSound(t)', SignUpSound(t)', DeleteSound(t)'
  PROVE  IInv'
<1> USE DEF OnlyRequest
<1>u. UNCHANGED <<users_by_id, users_by_device_id, subscriptions, alone, holders, deleted>>
  OBVIOUS
<1>n. None \notin Devices /\ None \notin Users /\ alone \subseteq Devices
  BY NoneAssumption DEF IInv, Typed
<1>1. Typed'
  BY <1>u DEF IInv, Typed
<1>2. Owned'
  <2>1. /\ Owned /\ users_by_id \in [Users -> Devices \cup {None}]
        /\ users_by_device_id \in [Devices -> Users \cup {None}]
        /\ holders \subseteq Users /\ subscriptions \subseteq Users
    BY DEF IInv, Typed
  <2>2. ASSUME NEW u \in Users, users_by_id[u] # None PROVE users_by_id[u] = owner'[u]
    BY <2>1, <2>2 DEF Owned
  <2>3. ASSUME NEW d \in Devices, users_by_device_id[d] # None
        PROVE  owner'[users_by_device_id[d]] = d
    <3>1. users_by_device_id[d] \in Users /\ owner[users_by_device_id[d]] = d
      BY <2>1, <2>3 DEF Owned
    <3> QED BY <1>n, <3>1
  <2>4. \A u \in holders \cup subscriptions : owner'[u] # None
    BY <2>1 DEF Owned
  <2>5. deleted \subseteq leaving'
    BY <2>1 DEF Owned
  <2> QED BY <1>u, <2>2, <2>3, <2>4, <2>5 DEF Owned
<1>3. Kept'
  BY <1>u DEF IInv, Kept
<1>4. DeletedIsGone'
  <2>1. \A u \in deleted : owner'[u] = owner[u]
    BY DEF IInv, Owned, Typed
  <2> QED BY <1>u, <2>1 DEF IInv, DeletedIsGone
<1>5. OneAtATime'
  BY <1>u DEF IInv, OneAtATime
<1>6. ASSUME NEW u \in Threads \ {t}
      PROVE  Shaped(u)' /\ FreshSound(u)' /\ SignUpSound(u)' /\ DeleteSound(u)'
  <2>1. Shaped(u) /\ FreshSound(u) /\ SignUpSound(u) /\ DeleteSound(u) /\ req'[u] = req[u]
        /\ req[u] \in Requests
    BY DEF IInv, Typed
  <2>2. Shaped(u)'
    <3>1. req[u].user # None => req[u].user \in Users /\ owner'[req[u].user] = req[u].device
      <4>0. Idle.user = None
        BY DEF Idle
      <4>1. req[u].user \in Users \cup {None} /\ (req[u].at = "idle" => req[u].user = None)
        BY <2>1, <4>0 DEF Requests, Shaped
      <4>2. req[u].user # None => req[u].device \in Devices /\ owner[req[u].user] = req[u].device
        BY <2>1, <4>1 DEF Shaped
      <4> QED BY <1>n, <4>1, <4>2
    <3> QED BY <2>1, <3>1 DEF Shaped
  <2>3. SignUpSound(u)' /\ DeleteSound(u)'
    BY <1>u, <2>1 DEF SignUpSound, DeleteSound
  <2>4. FreshSound(u)'
    <3>1. \A v \in Threads \ {u} : req[v].user # req[u].user /\ req[u].at \in Inserting =>
            req'[v].user # req[u].user
      OBVIOUS
    <3> QED BY <1>u, <2>1, <3>1 DEF FreshSound
  <2> QED BY <2>2, <2>3, <2>4
<1>7. NoDanglingDevice'
  <2> SUFFICES ASSUME NEW d \in Devices, users_by_device_id[d] # None,
                      users_by_id[users_by_device_id[d]] # d
               PROVE  \E u \in Threads : req'[u].at = "pop device" /\ req'[u].user = users_by_device_id[d]
    BY <1>u DEF NoDanglingDevice
  <2>1. PICK u \in Threads : req[u].at = "pop device" /\ req[u].user = users_by_device_id[d]
    BY DEF IInv, NoDanglingDevice
  <2> QED BY <2>1
<1>8. AloneFound'
  <2> SUFFICES ASSUME NEW u \in Users, users_by_id[u] # None, owner'[u] \in alone
               PROVE  \/ users_by_device_id[owner'[u]] = u
                      \/ \E v \in Threads : req'[v].at = "insert device" /\ req'[v].user = u
    BY <1>u DEF AloneFound
  <2>1. owner[u] # None
    BY <1>n DEF IInv, Owned
  <2>2. \/ users_by_device_id[owner[u]] = u
        \/ \E v \in Threads : req[v].at = "insert device" /\ req[v].user = u
    BY <2>1 DEF IInv, AloneFound
  <2> QED BY <2>1, <2>2
<1> QED BY <1>1, <1>2, <1>3, <1>4, <1>5, <1>6, <1>7, <1>8 DEF IInv

(* A request that ends leaves everything as it is. *)
LEMMA LeaveKeeps ==
  ASSUME IInv, NEW t \in Threads, Leave(t), req[t].at \notin {"pop device", "insert device"},
         UNCHANGED <<accounts, alone, history>>
  PROVE  IInv'
<1>0. /\ req'[t] = Idle /\ req' \in [Threads -> Requests]
      /\ \A u \in Threads \ {t} : req'[u] = req[u]
  BY Leaves DEF IInv
<1>u. UNCHANGED <<users_by_id, users_by_device_id, subscriptions, alone, owner, holders, leaving, deleted>>
  BY DEF accounts, history
<1>i. /\ Idle.at = "idle" /\ Idle.op = "none" /\ Idle.device = None /\ Idle.user = None
      /\ None \notin Devices /\ None \notin Users
  BY NoneAssumption DEF Idle
<1>1. Shaped(t)' /\ FreshSound(t)' /\ SignUpSound(t)' /\ DeleteSound(t)'
  BY <1>0, <1>i DEF Shaped, FreshSound, SignUpSound, DeleteSound, Inserting, SignUps
<1>2. \A u \in Threads \ {t} : req[u].at \in Inserting => req[u].user # None
  BY <1>i DEF IInv, Shaped
<1>3. None \notin alone /\ leaving \subseteq holders /\ leaving \in SUBSET Users
      /\ owner \in [Users -> Devices \cup {None}]
  BY <1>i DEF IInv, Typed, Owned
<1>4. OnlyRequest(t)
  BY <1>0, <1>u, <1>i, <1>2, <1>3 DEF OnlyRequest
<1> QED BY <1>1, <1>4, RequestMoves

LEMMA SignUpStarts ==
  ASSUME IInv, NEW t \in Threads, StartSignUp(t)
  PROVE  IInv'
<1>1. PICK op \in SignUps, d \in Devices : Accept(t, "get", op, d, None)
  BY DEF StartSignUp, SignUps
<1> DEFINE r == [at |-> "get", op |-> op, device |-> d, user |-> None]
<1>2. /\ r \in Requests /\ r.at = "get" /\ r.op = op /\ r.device = d /\ r.user = None
  BY DEF Requests, Locations
<1>3. req' = [req EXCEPT ![t] = r] /\ req[t] = Idle
  BY <1>1 DEF Accept
<1> HIDE DEF r
<1>4. req' \in [Threads -> Requests] /\ req'[t] = r /\ \A u \in Threads \ {t} : req'[u] = req[u]
  BY <1>2, <1>3, ReqChanges DEF IInv
<1>5. UNCHANGED <<users_by_id, users_by_device_id, subscriptions, alone, owner, holders, leaving, deleted>>
  BY DEF StartSignUp, accounts, history
<1>6. Shaped(t)' /\ FreshSound(t)' /\ SignUpSound(t)' /\ DeleteSound(t)'
  BY <1>2, <1>4 DEF Shaped, FreshSound, SignUpSound, DeleteSound, Inserting, SignUps
<1>7. \A u \in Threads \ {t} : /\ d \in alone => req[u].device # d
                               /\ req[u].at \in Inserting => req[u].user # None
  <2>1. \A u \in Threads \ {t} : d \in alone => req[u].device # d
    BY <1>1 DEF Accept
  <2>2. \A u \in Threads \ {t} : req[u].at \in Inserting => req[u].user # None
    BY NoneAssumption DEF IInv, Shaped
  <2> QED BY <2>1, <2>2
<1>8. leaving \subseteq holders /\ leaving \in SUBSET Users /\ owner \in [Users -> Devices \cup {None}]
  BY DEF IInv, Typed, Owned
<1>9. req[t].at \notin {"pop device", "insert device"}
  BY <1>3 DEF Idle
<1>a. \A u \in Threads \ {t} : /\ req'[t].device \in alone => req[u].device # req'[t].device
                               /\ req[u].at \in Inserting => req[u].user # req'[t].user
  BY <1>2, <1>4, <1>7
<1>c. OnlyRequest(t)
  BY <1>4, <1>5, <1>8, <1>9, <1>a DEF OnlyRequest
<1> QED BY <1>6, <1>c, RequestMoves

LEMMA DeleteStarts ==
  ASSUME IInv, NEW t \in Threads, StartDelete(t)
  PROVE  IInv'
<1>1. PICK v \in holders : Accept(t, "authorize", "delete", owner[v], v) /\ leaving' = leaving \cup {v}
  BY DEF StartDelete
<1>v. v \in Users /\ owner[v] \in Devices /\ leaving \subseteq holders /\ leaving \in SUBSET Users
      /\ owner \in [Users -> Devices \cup {None}]
  BY DEF IInv, Typed, Owned
<1> DEFINE r == [at |-> "authorize", op |-> "delete", device |-> owner[v], user |-> v]
<1>2. /\ r \in Requests /\ r.at = "authorize" /\ r.op = "delete" /\ r.device = owner[v] /\ r.user = v
  BY <1>v DEF Requests, Locations
<1>3. req' = [req EXCEPT ![t] = r] /\ req[t] = Idle
  BY <1>1 DEF Accept
<1> HIDE DEF r
<1>4. req' \in [Threads -> Requests] /\ req'[t] = r /\ \A u \in Threads \ {t} : req'[u] = req[u]
  BY <1>2, <1>3, ReqChanges DEF IInv
<1>5. UNCHANGED <<users_by_id, users_by_device_id, subscriptions, alone, owner, holders, deleted>>
  BY DEF StartDelete, accounts
<1>6. Shaped(t)' /\ FreshSound(t)' /\ SignUpSound(t)' /\ DeleteSound(t)'
  BY <1>v, <1>1, <1>2, <1>4, <1>5 DEF Shaped, FreshSound, SignUpSound, DeleteSound, Inserting, SignUps
<1>7. \A u \in Threads \ {t} : /\ owner[v] \in alone => req[u].device # owner[v]
                               /\ req[u].at \in Inserting => req[u].user # v
  <2>1. \A u \in Threads \ {t} : owner[v] \in alone => req[u].device # owner[v]
    BY <1>1 DEF Accept
  <2>2. \A u \in Threads \ {t} : req[u].at \in Inserting => req[u].user # v
    BY DEF IInv, FreshSound
  <2> QED BY <2>1, <2>2
<1>9. req[t].at \notin {"pop device", "insert device"}
  BY <1>3 DEF Idle
<1>a. \A u \in Threads \ {t} : /\ req'[t].device \in alone => req[u].device # req'[t].device
                               /\ req[u].at \in Inserting => req[u].user # req'[t].user
  BY <1>2, <1>4, <1>7
<1>b. /\ leaving' \in SUBSET Users /\ leaving \subseteq leaving' /\ leaving' \subseteq holders
  BY <1>v, <1>1, <1>5
<1>c. OnlyRequest(t)
  BY <1>v, <1>4, <1>5, <1>9, <1>a, <1>b DEF OnlyRequest
<1> QED BY <1>6, <1>c, RequestMoves

LEMMA DeviceGot ==
  ASSUME IInv, NEW t \in Threads, GetDevice(t)
  PROVE  IInv'
<1> DEFINE d == req[t].device
           found == users_by_device_id[d]
<1>0. /\ req[t].at = "get" /\ req[t].op \in SignUps /\ req[t].user = None /\ d \in Devices
      /\ req[t] \in Requests /\ Typed /\ Shaped(t)
      /\ found \in Users \cup {None}
      /\ leaving \subseteq holders /\ leaving \in SUBSET Users /\ owner \in [Users -> Devices \cup {None}]
      /\ None \notin Devices /\ None \notin Users
  <2>1. req[t].at = "get" /\ Shaped(t) /\ Typed /\ Owned
    BY DEF GetDevice, IInv
  <2> QED BY <2>1, NoneAssumption DEF Shaped, Typed, Owned
<1>n. \A u \in Threads \ {t} : d \in alone => req[u].device # d
  BY DEF IInv, OneAtATime
<1>u. UNCHANGED <<users_by_id, users_by_device_id, subscriptions, alone, holders, leaving, deleted>>
  BY DEF GetDevice, accounts
<1>1. CASE found # None
  <2> DEFINE r == [req[t] EXCEPT !.at = "fetch", !.user = found]
  <2>1. req' = [req EXCEPT ![t] = r] /\ UNCHANGED owner
    BY <1>1, Zenon DEF GetDevice, FoundUser
  <2>2. r \in Requests /\ r.at = "fetch" /\ r.op = req[t].op /\ r.device = d /\ r.user = found
    BY <1>0 DEF Requests, Locations
  <2> HIDE DEF r
  <2>3. req' \in [Threads -> Requests] /\ req'[t] = r /\ \A u \in Threads \ {t} : req'[u] = req[u]
    BY <1>0, <2>1, <2>2, ReqChanges
  <2>4. owner[found] = d /\ found \in Users
    BY <1>0, <1>1 DEF IInv, Owned
  <2>5. \A u \in Threads \ {t} : req[u].at \in Inserting => req[u].user # found
    BY <1>0 DEF IInv, FreshSound
  <2>6. Shaped(t)' /\ FreshSound(t)' /\ SignUpSound(t)' /\ DeleteSound(t)'
    BY <1>0, <1>u, <2>1, <2>2, <2>3, <2>4
       DEF Shaped, FreshSound, SignUpSound, DeleteSound, Inserting, SignUps
  <2>7. OnlyRequest(t)
    BY <1>0, <1>n, <1>u, <2>1, <2>2, <2>3, <2>5 DEF OnlyRequest
  <2> QED BY <2>6, <2>7, RequestMoves
<1>2. ASSUME found = None, NEW u \in Users, owner[u] = None,
             owner' = [owner EXCEPT ![u] = d],
             req' = [req EXCEPT ![t].at = "insert user", ![t].user = u]
      PROVE  IInv'
  <2> DEFINE r == [req[t] EXCEPT !.at = "insert user", !.user = u]
  <2>1. req' = [req EXCEPT ![t] = r]
    BY <1>2, Zenon
  <2>2. r \in Requests /\ r.at = "insert user" /\ r.op = req[t].op /\ r.device = d /\ r.user = u
    BY <1>0 DEF Requests, Locations, Inserting
  <2> HIDE DEF r
  <2>3. req' \in [Threads -> Requests] /\ req'[t] = r /\ \A v \in Threads \ {t} : req'[v] = req[v]
    BY <1>0, <2>1, <2>2, ReqChanges
  <2>4. owner' \in [Users -> Devices \cup {None}] /\ owner'[u] = d
        /\ \A v \in Users : owner[v] # None => owner'[v] = owner[v]
    BY <1>0, <1>2
  <2>5. /\ u \notin holders \cup subscriptions /\ users_by_id[u] = None
        /\ \A e \in Devices : users_by_device_id[e] # u
    <3>1. /\ Owned /\ users_by_id \in [Users -> Devices \cup {None}]
          /\ users_by_device_id \in [Devices -> Users \cup {None}]
      BY DEF IInv, Typed
    <3>2. u \notin holders \cup subscriptions
      BY <1>2, <3>1 DEF Owned
    <3>3. users_by_id[u] = None
      BY <1>2, <3>1 DEF Owned
    <3>4. ASSUME NEW e \in Devices, users_by_device_id[e] = u PROVE FALSE
      BY <1>0, <1>2, <3>1, <3>4 DEF Owned
    <3> QED BY <3>2, <3>3, <3>4
  <2>6. \A v \in Threads \ {t} : req[v].user # u
    <3>1. ASSUME NEW v \in Threads \ {t}, req[v].user = u PROVE FALSE
      <4>1. Shaped(v) /\ Idle.user = None
        BY DEF IInv, Idle
      <4> QED BY <1>0, <1>2, <3>1, <4>1 DEF Shaped
    <3> QED BY <3>1
  <2>7. Shaped(t)' /\ SignUpSound(t)' /\ DeleteSound(t)'
    BY <1>0, <2>2, <2>3, <2>4 DEF Shaped, SignUpSound, DeleteSound, Inserting, SignUps
  <2>8. FreshSound(t)'
    BY <1>0, <1>2, <1>u, <2>2, <2>3, <2>5, <2>6 DEF FreshSound
  <2>9. OnlyRequest(t)
    BY <1>0, <1>n, <1>u, <2>2, <2>3, <2>4, <2>6 DEF OnlyRequest
  <2> QED BY <2>7, <2>8, <2>9, RequestMoves
<1>3. CASE Leave(t) /\ UNCHANGED owner
  BY <1>0, <1>u, <1>3, LeaveKeeps DEF accounts, history
<1> QED BY <1>1, <1>2, <1>3, Zenon DEF GetDevice, FoundUser

(* Going on after a look at users_by_id. *)
LEMMA UserFound ==
  ASSUME IInv, NEW t \in Threads, FetchUser(t) \/ Authorize(t)
  PROVE  IInv'
<1> DEFINE u == req[t].user
<1>0. /\ req[t].at \in {"fetch", "authorize"} /\ Typed /\ Shaped(t) /\ SignUpSound(t) /\ u \in Users
      /\ leaving \subseteq holders /\ leaving \in SUBSET Users /\ owner \in [Users -> Devices \cup {None}]
      /\ UNCHANGED <<users_by_id, users_by_device_id, subscriptions, alone, owner, holders, leaving, deleted>>
  <2>1. req[t].at \in {"fetch", "authorize"}
    BY DEF FetchUser, Authorize
  <2> QED BY <2>1 DEF IInv, Shaped, FetchUser, Authorize, accounts, history, Typed, Owned
<1>1. CASE Leave(t)
  BY <1>0, <1>1, LeaveKeeps DEF accounts, history
<1>2. CASE users_by_id[u] # None
  <2>1. PICK location \in {"subscribe", "respond", "pop user"} :
          Goto(t, location) /\ (location = "pop user" <=> req[t].at = "authorize")
                            /\ (location = "respond" => req[t].op = "init")
    BY <1>2 DEF FetchUser, Authorize, Created
  <2>2. /\ req' \in [Threads -> Requests]
        /\ req'[t].at = location /\ req'[t].op = req[t].op
        /\ req'[t].device = req[t].device /\ req'[t].user = u
        /\ \A v \in Threads \ {t} : req'[v] = req[v]
    BY <1>0, <2>1, GoesOn DEF Locations
  <2>3. Shaped(t)' /\ DeleteSound(t)'
    BY <1>0, <2>1, <2>2 DEF Shaped, DeleteSound, SignUps, Inserting
  <2>4. SignUpSound(t)' /\ FreshSound(t)'
    BY <1>0, <1>2, <2>1, <2>2 DEF Shaped, SignUpSound, FreshSound, SignUps, Inserting
  <2>5. \A v \in Threads \ {t} : /\ req[t].device \in alone => req[v].device # req[t].device
                                 /\ req[v].at \in Inserting => req[v].user # u
    <3>1. \A v \in Threads \ {t} : req[t].device \in alone => req[v].device # req[t].device
      BY DEF IInv, OneAtATime
    <3>2. \A v \in Threads \ {t} : req[v].at \in Inserting => req[v].user # u
      BY DEF IInv, FreshSound
    <3> QED BY <3>1, <3>2
  <2>6. OnlyRequest(t)
    BY <1>0, <2>2, <2>5 DEF OnlyRequest
  <2> QED BY <2>3, <2>4, <2>6, RequestMoves
<1> QED BY <1>1, <1>2 DEF FetchUser, Authorize

-----------------------------------------------------------------------------
(* Steps on the dictionaries.  Goto leaves the devices, the users and the  *)
(* other requests as they are.                                             *)
LEMMA Moves ==
  ASSUME IInv, NEW t \in Threads, NEW location \in Locations, Goto(t, location),
         UNCHANGED <<alone, owner, leaving>>
  PROVE  /\ req' \in [Threads -> Requests]
         /\ req'[t].at = location /\ req'[t].op = req[t].op
         /\ req'[t].device = req[t].device /\ req'[t].user = req[t].user
         /\ \A v \in Threads \ {t} : req'[v] = req[v] /\ Shaped(v)'
         /\ \A v \in Threads : req'[v].user = req[v].user /\ req'[v].device = req[v].device
         /\ OneAtATime'
<1>1. /\ req' \in [Threads -> Requests]
      /\ req'[t].at = location /\ req'[t].op = req[t].op
      /\ req'[t].device = req[t].device /\ req'[t].user = req[t].user
      /\ \A v \in Threads \ {t} : req'[v] = req[v]
  BY GoesOn DEF IInv
<1>2. \A v \in Threads : req'[v].user = req[v].user /\ req'[v].device = req[v].device
  BY <1>1
<1>3. OneAtATime'
  BY <1>2 DEF IInv, OneAtATime
<1>4. ASSUME NEW v \in Threads \ {t} PROVE Shaped(v)'
  <2>1. Shaped(v) /\ req'[v] = req[v]
    BY <1>1 DEF IInv
  <2> QED BY <2>1 DEF Shaped
<1> QED BY <1>1, <1>2, <1>3, <1>4

(* Two parts that most steps leave alone. *)
LEMMA NothingDangles ==
  ASSUME NoDanglingDevice, UNCHANGED <<users_by_id, users_by_device_id>>,
         \A v \in Threads : req[v].at = "pop device" => req'[v] = req[v]
  PROVE  NoDanglingDevice'
<1> SUFFICES ASSUME NEW d \in Devices, users_by_device_id[d] # None,
                    users_by_id[users_by_device_id[d]] # d
             PROVE  \E v \in Threads : req'[v].at = "pop device" /\ req'[v].user = users_by_device_id[d]
  BY DEF NoDanglingDevice
<1>1. PICK v \in Threads : req[v].at = "pop device" /\ req[v].user = users_by_device_id[d]
  BY DEF NoDanglingDevice
<1> QED BY <1>1

LEMMA AloneStaysFound ==
  ASSUME AloneFound, UNCHANGED <<users_by_device_id, alone, owner>>,
         \A w \in Users : users_by_id'[w] # None => users_by_id'[w] = users_by_id[w],
         \A v \in Threads : req[v].at = "insert device" => req'[v] = req[v]
  PROVE  AloneFound'
<1> SUFFICES ASSUME NEW w \in Users, users_by_id'[w] # None, owner[w] \in alone
             PROVE  \/ users_by_device_id[owner[w]] = w
                    \/ \E v \in Threads : req'[v].at = "insert device" /\ req'[v].user = w
  BY DEF AloneFound
<1>1. \/ users_by_device_id[owner[w]] = w
      \/ \E v \in Threads : req[v].at = "insert device" /\ req[v].user = w
  BY DEF AloneFound
<1> QED BY <1>1

LEMMA UserInserted ==
  ASSUME IInv, NEW t \in Threads, InsertUser(t)
  PROVE  IInv'
<1> DEFINE u == req[t].user
           d == req[t].device
<1>1. /\ req[t].at = "insert user" /\ Goto(t, "insert device")
      /\ users_by_id' = [users_by_id EXCEPT ![u] = d]
      /\ UNCHANGED <<users_by_device_id, subscriptions, alone, owner, holders, leaving, deleted>>
  BY DEF InsertUser, history
<1>2. /\ u \in Users /\ d \in Devices /\ req[t].op \in SignUps /\ owner[u] = d
      /\ u \notin holders \cup subscriptions
      /\ \A e \in Devices : users_by_device_id[e] # u
      /\ \A v \in Threads \ {t} : req[v].user # u
      /\ users_by_id[u] = None
      /\ d \in alone => users_by_device_id[d] = None
      /\ None \notin Users /\ None \notin Devices
  BY <1>1, NoneAssumption DEF IInv, Shaped, FreshSound, Inserting, SignUps
<1>3. /\ req' \in [Threads -> Requests]
      /\ req'[t].at = "insert device" /\ req'[t].op = req[t].op
      /\ req'[t].device = d /\ req'[t].user = u
      /\ \A v \in Threads \ {t} : req'[v] = req[v] /\ Shaped(v)'
      /\ \A v \in Threads : req'[v].user = req[v].user
      /\ OneAtATime'
  BY <1>1, Moves DEF Locations, Inserting
<1>4. /\ users_by_id' \in [Users -> Devices \cup {None}] /\ users_by_id'[u] = d
      /\ \A v \in Users \ {u} : users_by_id'[v] = users_by_id[v]
  BY <1>1, <1>2 DEF IInv, Typed
<1> HIDE DEF u, d
<1>5. Typed'
  BY <1>1, <1>3, <1>4 DEF IInv, Typed
<1>6. Owned'
  BY <1>1, <1>2, <1>4 DEF IInv, Owned
<1>7. Shaped(t)' /\ FreshSound(t)' /\ SignUpSound(t)' /\ DeleteSound(t)'
  <2>1. Shaped(t)'
    <3>1. owner' = owner /\ req[t].op # "delete"
      BY <1>1, <1>2 DEF SignUps
    <3> QED BY <3>1, <1>2, <1>3 DEF Shaped, Inserting
  <2>2. \A v \in Threads \ {t} : req'[v].user # u
    BY <1>2, <1>3
  <2>3. /\ u \notin (holders \cup subscriptions)'
        /\ \A e \in Devices : users_by_device_id'[e] # u
        /\ d \in alone' => users_by_device_id'[d] = None
    BY <1>1, <1>2
  <2>4. FreshSound(t)'
    BY <1>3, <1>4, <2>2, <2>3 DEF FreshSound
  <2>5. SignUpSound(t)'
    BY <1>3 DEF SignUpSound
  <2>6. DeleteSound(t)'
    BY <1>2, <1>3 DEF DeleteSound, SignUps
  <2> QED BY <2>1, <2>4, <2>5, <2>6
<1>8. ASSUME NEW v \in Threads \ {t}
      PROVE  FreshSound(v)' /\ SignUpSound(v)' /\ DeleteSound(v)'
  <2>1. /\ Shaped(v) /\ FreshSound(v) /\ SignUpSound(v) /\ DeleteSound(v)
        /\ req'[v] = req[v] /\ req[v].user # u /\ req[v].user \in Users \cup {None}
    BY <1>2, <1>3 DEF IInv, Typed, Requests
  <2>2. req[v].user # None => users_by_id'[req[v].user] = users_by_id[req[v].user]
    BY <1>4, <2>1
  <2>3. FreshSound(v)'
    <3>1. \A w \in Threads \ {v} : req'[w].user = req[w].user
      BY <1>3
    <3>2. req[v].at \in Inserting => req[v].user \in Users
      BY <2>1 DEF Shaped
    <3> QED BY <1>1, <1>2, <2>1, <2>2, <3>1, <3>2 DEF FreshSound
  <2>4. SignUpSound(v)'
    BY <1>1, <1>2, <2>1, <2>2 DEF SignUpSound, Shaped, SignUps
  <2>5. DeleteSound(v)'
    BY <1>1, <1>2, <2>1, <2>2 DEF DeleteSound, Shaped
  <2> QED BY <2>3, <2>4, <2>5
<1>9. NoDanglingDevice'
  <2> SUFFICES ASSUME NEW e \in Devices, users_by_device_id[e] # None,
                      users_by_id'[users_by_device_id[e]] # e
               PROVE  \E v \in Threads : req'[v].at = "pop device" /\ req'[v].user = users_by_device_id[e]
    BY <1>1 DEF NoDanglingDevice
  <2>1. users_by_device_id[e] \in Users \ {u}
    BY <1>2 DEF IInv, Typed
  <2>2. PICK v \in Threads : req[v].at = "pop device" /\ req[v].user = users_by_device_id[e]
    BY <1>4, <2>1 DEF IInv, NoDanglingDevice
  <2> QED BY <1>1, <1>3, <2>2
<1>a. AloneFound'
  <2> SUFFICES ASSUME NEW w \in Users, users_by_id'[w] # None, owner[w] \in alone
               PROVE  \/ users_by_device_id[owner[w]] = w
                      \/ \E v \in Threads : req'[v].at = "insert device" /\ req'[v].user = w
    BY <1>1 DEF AloneFound
  <2>1. CASE w = u
    BY <1>3, <2>1
  <2>2. CASE w # u
    <3>1. \/ users_by_device_id[owner[w]] = w
          \/ \E v \in Threads : req[v].at = "insert device" /\ req[v].user = w
      BY <1>4, <2>2 DEF IInv, AloneFound
    <3> QED BY <1>1, <1>3, <3>1
  <2> QED BY <2>1, <2>2
<1>b. Kept'
  BY <1>1, <1>2, <1>4 DEF IInv, Typed, Kept
<1>c. DeletedIsGone'
  <2>1. deleted \subseteq Users \ {u}
    BY <1>2 DEF IInv, Typed, Owned
  <2>2. \A w \in deleted : users_by_id'[w] = users_by_id[w]
    BY <1>4, <2>1
  <2> QED BY <1>1, <2>1, <2>2 DEF IInv, DeletedIsGone
<1> QED BY <1>3, <1>5, <1>6, <1>7, <1>8, <1>9, <1>a, <1>b, <1>c DEF IInv

LEMMA DeviceInserted ==
  ASSUME IInv, NEW t \in Threads, InsertDevice(t)
  PROVE  IInv'
<1> DEFINE u == req[t].user
           d == req[t].device
<1>1. /\ req[t].at = "insert device" /\ Created(t, "subscribe")
      /\ users_by_device_id' = [users_by_device_id EXCEPT ![d] = u]
      /\ UNCHANGED <<users_by_id, subscriptions, alone, owner, holders, leaving, deleted>>
  BY DEF InsertDevice, history
<1>2. /\ u \in Users /\ d \in Devices /\ req[t].op \in SignUps /\ owner[u] = d
      /\ u \notin holders \cup subscriptions
      /\ \A e \in Devices : users_by_device_id[e] # u
      /\ \A v \in Threads \ {t} : req[v].user # u
      /\ users_by_id[u] = d
      /\ d \in alone => users_by_device_id[d] = None
      /\ None \notin Users /\ None \notin Devices
  BY <1>1, NoneAssumption DEF IInv, Shaped, FreshSound, Inserting, SignUps
<1>3. \A v \in Threads \ {t} : d \in alone => req[v].device # d
  BY DEF IInv, OneAtATime
<1>4. PICK location \in {"subscribe", "respond"} :
        Goto(t, location) /\ (location = "respond" => req[t].op = "init")
  BY <1>1 DEF Created
<1>5. /\ req' \in [Threads -> Requests]
      /\ req'[t].at = location /\ req'[t].op = req[t].op
      /\ req'[t].device = d /\ req'[t].user = u
      /\ \A v \in Threads \ {t} : req'[v] = req[v] /\ Shaped(v)'
      /\ \A v \in Threads : req'[v].user = req[v].user
      /\ OneAtATime'
  BY <1>1, <1>4, Moves DEF Locations
<1>6. /\ users_by_device_id' \in [Devices -> Users \cup {None}] /\ users_by_device_id'[d] = u
      /\ \A e \in Devices \ {d} : users_by_device_id'[e] = users_by_device_id[e]
  BY <1>1, <1>2 DEF IInv, Typed
<1> HIDE DEF u, d
<1>7. Typed'
  BY <1>1, <1>5, <1>6 DEF IInv, Typed
<1>8. Owned'
  <2>1. \A e \in Devices : users_by_device_id'[e] # None => owner[users_by_device_id'[e]] = e
    BY <1>2, <1>6 DEF IInv, Owned
  <2> QED BY <1>1, <2>1 DEF IInv, Owned
<1>9. Shaped(t)' /\ FreshSound(t)' /\ SignUpSound(t)' /\ DeleteSound(t)'
  BY <1>1, <1>2, <1>4, <1>5, <1>6 DEF Shaped, FreshSound, SignUpSound, DeleteSound, Inserting, SignUps
<1>a. ASSUME NEW v \in Threads \ {t}
      PROVE  FreshSound(v)' /\ SignUpSound(v)' /\ DeleteSound(v)'
  <2>1. /\ Shaped(v) /\ FreshSound(v) /\ SignUpSound(v) /\ DeleteSound(v)
        /\ req'[v] = req[v] /\ req[v].user # u /\ req[v].device \in Devices \cup {None}
    BY <1>2, <1>5 DEF IInv, Typed, Requests
  <2>2. req[v].device \in alone => users_by_device_id'[req[v].device] = users_by_device_id[req[v].device]
    <3>1. alone \subseteq Devices
      BY DEF IInv, Typed
    <3> QED BY <1>3, <1>6, <2>1, <3>1
  <2>3. FreshSound(v)'
    <3>1. \A w \in Threads \ {v} : req'[w].user = req[w].user
      BY <1>5
    <3>2. \A e \in Devices : users_by_device_id[e] # req[v].user => users_by_device_id'[e] # req[v].user
      BY <1>6, <2>1
    <3> QED BY <1>1, <2>1, <2>2, <3>1, <3>2 DEF FreshSound
  <2>4. SignUpSound(v)'
    BY <1>1, <2>1, <2>2 DEF SignUpSound
  <2>5. DeleteSound(v)'
    <3>1. \A e \in Devices : users_by_device_id[e] # req[v].user => users_by_device_id'[e] # req[v].user
      BY <1>6, <2>1
    <3> QED BY <1>1, <2>1, <2>2, <3>1 DEF DeleteSound
  <2> QED BY <2>3, <2>4, <2>5
<1>b. NoDanglingDevice'
  <2> SUFFICES ASSUME NEW e \in Devices, users_by_device_id'[e] # None,
                      users_by_id[users_by_device_id'[e]] # e
               PROVE  \E v \in Threads : req'[v].at = "pop device" /\ req'[v].user = users_by_device_id'[e]
    BY <1>1 DEF NoDanglingDevice
  <2>1. users_by_device_id'[e] = users_by_device_id[e]
    BY <1>2, <1>6
  <2>2. PICK v \in Threads : req[v].at = "pop device" /\ req[v].user = users_by_device_id[e]
    BY <2>1 DEF IInv, NoDanglingDevice
  <2> QED BY <1>1, <1>5, <2>1, <2>2
<1>c. AloneFound'
  <2> SUFFICES ASSUME NEW w \in Users, users_by_id[w] # None, owner[w] \in alone
               PROVE  \/ users_by_device_id'[owner[w]] = w
                      \/ \E v \in Threads : req'[v].at = "insert device" /\ req'[v].user = w
    BY <1>1 DEF AloneFound
  <2>1. CASE w = u
    BY <1>2, <1>6, <2>1
  <2>2. CASE w # u
    <3>1. \/ users_by_device_id[owner[w]] = w
          \/ \E v \in Threads : req[v].at = "insert device" /\ req[v].user = w
      BY DEF IInv, AloneFound
    <3>2. CASE \E v \in Threads : req[v].at = "insert device" /\ req[v].user = w
      <4>1. PICK v \in Threads : req[v].at = "insert device" /\ req[v].user = w
        BY <3>2
      <4>2. v # t
        BY <2>2, <4>1 DEF u
      <4> QED BY <1>5, <4>1, <4>2
    <3>3. CASE users_by_device_id[owner[w]] = w
      <4>1. owner[w] # d /\ owner[w] \in Devices
        BY <1>2, <3>3 DEF IInv, Typed
      <4> QED BY <1>6, <3>3, <4>1
    <3> QED BY <3>1, <3>2, <3>3
  <2> QED BY <2>1, <2>2
<1>d. Kept'
  BY <1>1 DEF IInv, Kept
<1>e. DeletedIsGone'
  <2>1. u \notin deleted
    BY <1>2 DEF IInv, Owned
  <2>2. \A w \in deleted, e \in Devices : users_by_device_id'[e] # w
    BY <1>6, <2>1 DEF IInv, DeletedIsGone
  <2> QED BY <1>1, <2>2 DEF IInv, DeletedIsGone
<1> QED BY <1>5, <1>7, <1>8, <1>9, <1>a, <1>b, <1>c, <1>d, <1>e DEF IInv

LEMMA Subscribed ==
  ASSUME IInv, NEW t \in Threads, Subscribe(t)
  PROVE  IInv'
<1> DEFINE u == req[t].user
           d == req[t].device
<1>1. /\ req[t].at = "subscribe" /\ Goto(t, "respond")
      /\ subscriptions' = subscriptions \cup {u}
      /\ UNCHANGED <<users_by_id, users_by_device_id, alone, owner, holders, leaving, deleted>>
  BY DEF Subscribe, history
<1>2. /\ u \in Users /\ d \in Devices /\ req[t].op \in SignUps /\ owner[u] = d
      /\ u \notin leaving => users_by_id[u] # None
      /\ d \in alone => users_by_device_id[d] = u
      /\ None \notin Users /\ None \notin Devices
  BY <1>1, NoneAssumption DEF IInv, Shaped, SignUpSound, SignUps
<1>3. \A v \in Threads \ {t} : /\ d \in alone => req[v].device # d
                               /\ req[v].at \in Inserting => req[v].user # u
  BY DEF IInv, OneAtATime, FreshSound
<1>4. /\ req' \in [Threads -> Requests]
      /\ req'[t].at = "respond" /\ req'[t].op = req[t].op
      /\ req'[t].device = d /\ req'[t].user = u
      /\ \A v \in Threads \ {t} : req'[v] = req[v] /\ Shaped(v)'
      /\ \A v \in Threads : req'[v].user = req[v].user
      /\ OneAtATime'
  BY <1>1, Moves DEF Locations
<1> HIDE DEF u, d
<1>5. Typed'
  BY <1>1, <1>2, <1>4 DEF IInv, Typed
<1>6. Owned'
  BY <1>1, <1>2 DEF IInv, Owned
<1>7. Shaped(t)' /\ FreshSound(t)' /\ SignUpSound(t)' /\ DeleteSound(t)'
  BY <1>1, <1>2, <1>4 DEF Shaped, FreshSound, SignUpSound, DeleteSound, Inserting, SignUps
<1>8. ASSUME NEW v \in Threads \ {t}
      PROVE  FreshSound(v)' /\ SignUpSound(v)' /\ DeleteSound(v)'
  <2>1. /\ Shaped(v) /\ FreshSound(v) /\ SignUpSound(v) /\ DeleteSound(v) /\ req'[v] = req[v]
    BY <1>4 DEF IInv
  <2>2. FreshSound(v)'
    <3>1. \A w \in Threads \ {v} : req'[w].user = req[w].user
      BY <1>4
    <3> QED BY <1>1, <1>3, <2>1, <3>1 DEF FreshSound
  <2>3. SignUpSound(v)'
    BY <1>1, <2>1 DEF SignUpSound
  <2>4. DeleteSound(v)'
    <3>1. req[v].at = "respond" /\ req[v].device \in alone => req[v].user # u
      BY <1>2, <1>3, <2>1 DEF Shaped
    <3> QED BY <1>1, <2>1, <3>1 DEF DeleteSound
  <2> QED BY <2>2, <2>3, <2>4
<1>9. NoDanglingDevice' /\ AloneFound'
  <2>1. \A v \in Threads : req[v].at \in {"pop device", "insert device"} => req'[v] = req[v]
    BY <1>1, <1>4
  <2> QED BY <1>1, <2>1, NothingDangles, AloneStaysFound DEF IInv
<1>a. Kept'
  BY <1>1 DEF IInv, Kept
<1>b. DeletedIsGone'
  <2>1. owner[u] \in alone => u \notin deleted
    BY <1>2 DEF IInv, DeletedIsGone
  <2> QED BY <1>1, <2>1 DEF IInv, DeletedIsGone
<1> QED BY <1>4, <1>5, <1>6, <1>7, <1>8, <1>9, <1>a, <1>b DEF IInv

LEMMA UserPopped ==
  ASSUME IInv, NEW t \in Threads, PopUser(t)
  PROVE  IInv'
<1> DEFINE u == req[t].user
           d == req[t].device
<1>1. /\ req[t].at = "pop user"
      /\ users_by_id' = [users_by_id EXCEPT ![u] = None]
      /\ UNCHANGED <<users_by_device_id, subscriptions, alone, owner, holders, leaving, deleted>>
  BY DEF PopUser, history
<1>2. /\ u \in Users /\ d \in Devices /\ req[t].op = "delete" /\ owner[u] = d /\ u \in leaving
      /\ None \notin Users /\ None \notin Devices
  BY <1>1, NoneAssumption DEF IInv, Shaped, SignUps
<1>3. CASE users_by_id[u] = None
  <2>1. Leave(t) /\ users_by_id' = users_by_id
    BY <1>1, <1>2, <1>3 DEF PopUser, IInv, Typed
  <2> QED BY <1>1, <2>1, LeaveKeeps DEF accounts, history
<1>4. CASE users_by_id[u] # None
  <2>1. Goto(t, "pop device")
    BY <1>4 DEF PopUser
  <2>2. /\ req' \in [Threads -> Requests]
        /\ req'[t].at = "pop device" /\ req'[t].op = req[t].op
        /\ req'[t].device = d /\ req'[t].user = u
        /\ \A v \in Threads \ {t} : req'[v] = req[v] /\ Shaped(v)'
        /\ \A v \in Threads : req'[v].user = req[v].user
        /\ OneAtATime'
    BY <1>1, <2>1, Moves DEF Locations
  <2>3. /\ users_by_id' \in [Users -> Devices \cup {None}] /\ users_by_id'[u] = None
        /\ \A v \in Users \ {u} : users_by_id'[v] = users_by_id[v]
    BY <1>1, <1>2 DEF IInv, Typed
  <2>4. d \in alone => users_by_device_id[d] = u
    <3>1. \A v \in Threads : req[v].at = "insert device" => req[v].user # u
      BY <1>1 DEF IInv, FreshSound, Inserting
    <3> QED BY <1>2, <1>4, <3>1 DEF IInv, AloneFound
  <2> HIDE DEF u, d
  <2>5. Typed'
    BY <1>1, <2>2, <2>3 DEF IInv, Typed
  <2>6. Owned'
    BY <1>1, <2>3 DEF IInv, Owned
  <2>7. Shaped(t)' /\ FreshSound(t)' /\ SignUpSound(t)' /\ DeleteSound(t)'
    BY <1>1, <1>2, <2>2, <2>3, <2>4 DEF Shaped, FreshSound, SignUpSound, DeleteSound, Inserting, SignUps
  <2>8. ASSUME NEW v \in Threads \ {t}
        PROVE  FreshSound(v)' /\ SignUpSound(v)' /\ DeleteSound(v)'
    <3>1. /\ Shaped(v) /\ FreshSound(v) /\ SignUpSound(v) /\ DeleteSound(v) /\ req'[v] = req[v]
          /\ req[v].at \notin {"idle", "get"} => req[v].user \in Users
          /\ req[v].at \in Inserting => req[v].user # u
      <4>1. req[v] \in Requests /\ Shaped(v) /\ FreshSound(v)
        BY DEF IInv, Typed
      <4>2. req[v].at \notin {"idle", "get"} => req[v].user \in Users
        BY <4>1 DEF Shaped, Requests, Locations, Inserting
      <4>3. req[v].at \in Inserting => req[v].user # u
        BY <4>1 DEF FreshSound, u
      <4> QED BY <2>2, <4>2, <4>3 DEF IInv
    <3>2. FreshSound(v)'
      <4>1. \A w \in Threads \ {v} : req'[w].user = req[w].user
        BY <2>2
      <4>2. req[v].at \in Inserting => users_by_id'[req[v].user] = users_by_id[req[v].user]
        BY <2>3, <3>1 DEF Inserting
      <4> QED BY <1>1, <3>1, <4>1, <4>2 DEF FreshSound
    <3>3. SignUpSound(v)'
      <4>1. req[v].at \in {"subscribe", "respond"} /\ req[v].user \notin leaving =>
              users_by_id'[req[v].user] = users_by_id[req[v].user]
        BY <1>2, <2>3, <3>1
      <4> QED BY <1>1, <3>1, <4>1 DEF SignUpSound
    <3>4. DeleteSound(v)'
      <4>1. req[v].at \notin {"idle", "get"} /\ users_by_id[req[v].user] = None =>
              users_by_id'[req[v].user] = None
        BY <2>3, <3>1
      <4> QED BY <1>1, <3>1, <4>1 DEF DeleteSound
    <3> QED BY <3>2, <3>3, <3>4
  <2>9. NoDanglingDevice'
    <3> SUFFICES ASSUME NEW e \in Devices, users_by_device_id[e] # None,
                        users_by_id'[users_by_device_id[e]] # e
                 PROVE  \E v \in Threads : req'[v].at = "pop device" /\ req'[v].user = users_by_device_id[e]
      BY <1>1 DEF NoDanglingDevice
    <3>1. CASE users_by_device_id[e] = u
      BY <2>2, <3>1
    <3>2. CASE users_by_device_id[e] # u
      <4>1. users_by_device_id[e] \in Users \ {u}
        BY <3>2 DEF IInv, Typed
      <4>2. PICK v \in Threads : req[v].at = "pop device" /\ req[v].user = users_by_device_id[e]
        BY <2>3, <4>1 DEF IInv, NoDanglingDevice
      <4> QED BY <1>1, <2>2, <4>2
    <3> QED BY <3>1, <3>2
  <2>a. AloneFound'
    <3>1. \A v \in Threads : req[v].at = "insert device" => req'[v] = req[v]
      BY <1>1, <2>2
    <3> QED BY <1>1, <2>3, <3>1, AloneStaysFound DEF IInv
  <2>b. Kept'
    <3>1. \A w \in holders \ leaving : users_by_id'[w] = users_by_id[w]
      BY <1>2, <2>3 DEF IInv, Typed
    <3> QED BY <1>1, <3>1 DEF IInv, Kept
  <2>c. DeletedIsGone'
    <3>1. \A w \in deleted : users_by_id[w] = None => users_by_id'[w] = None
      BY <2>3 DEF IInv, Typed
    <3> QED BY <1>1, <3>1 DEF IInv, DeletedIsGone
  <2> QED BY <2>2, <2>5, <2>6, <2>7, <2>8, <2>9, <2>a, <2>b, <2>c DEF IInv
<1> QED BY <1>3, <1>4

LEMMA DevicePopped ==
  ASSUME IInv, NEW t \in Threads, PopDevice(t)
  PROVE  IInv'
<1> DEFINE u == req[t].user
           d == req[t].device
<1>1. /\ req[t].at = "pop device" /\ Goto(t, "pop subscription")
      /\ users_by_device_id' = [users_by_device_id EXCEPT ![d] = None]
      /\ UNCHANGED <<users_by_id, subscriptions, alone, owner, holders, leaving, deleted>>
  BY DEF PopDevice, history
<1>2. /\ u \in Users /\ d \in Devices /\ req[t].op = "delete" /\ owner[u] = d /\ u \in leaving
      /\ users_by_id[u] = None
      /\ d \in alone => users_by_device_id[d] = u
      /\ None \notin Users /\ None \notin Devices
  BY <1>1, NoneAssumption DEF IInv, Shaped, DeleteSound, SignUps
<1>3. \A v \in Threads \ {t} : d \in alone => req[v].device # d
  BY DEF IInv, OneAtATime
<1>4. /\ req' \in [Threads -> Requests]
      /\ req'[t].at = "pop subscription" /\ req'[t].op = req[t].op
      /\ req'[t].device = d /\ req'[t].user = u
      /\ \A v \in Threads \ {t} : req'[v] = req[v] /\ Shaped(v)'
      /\ \A v \in Threads : req'[v].user = req[v].user
      /\ OneAtATime'
  BY <1>1, Moves DEF Locations
<1>5. /\ users_by_device_id' \in [Devices -> Users \cup {None}] /\ users_by_device_id'[d] = None
      /\ \A e \in Devices \ {d} : users_by_device_id'[e] = users_by_device_id[e]
  BY <1>1, <1>2 DEF IInv, Typed
<1> HIDE DEF u, d
<1>6. Typed'
  BY <1>1, <1>4, <1>5 DEF IInv, Typed
<1>7. Owned'
  <2>1. \A e \in Devices : users_by_device_id'[e] # None => owner[users_by_device_id'[e]] = e
    BY <1>2, <1>5 DEF IInv, Owned
  <2> QED BY <1>1, <2>1 DEF IInv, Owned
<1>8. Shaped(t)' /\ FreshSound(t)' /\ SignUpSound(t)' /\ DeleteSound(t)'
  <2>1. \A e \in Devices : users_by_device_id'[e] # u
    BY <1>2, <1>5 DEF IInv, Owned
  <2> QED BY <1>1, <1>2, <1>4, <2>1
         DEF Shaped, FreshSound, SignUpSound, DeleteSound, Inserting, SignUps
<1>9. ASSUME NEW v \in Threads \ {t}
      PROVE  FreshSound(v)' /\ SignUpSound(v)' /\ DeleteSound(v)'
  <2>1. /\ Shaped(v) /\ FreshSound(v) /\ SignUpSound(v) /\ DeleteSound(v)
        /\ req'[v] = req[v] /\ req[v].device \in Devices \cup {None}
    BY <1>4 DEF IInv, Typed, Requests
  <2>2. req[v].device \in alone => users_by_device_id'[req[v].device] = users_by_device_id[req[v].device]
    <3>1. alone \subseteq Devices
      BY DEF IInv, Typed
    <3> QED BY <1>3, <1>5, <2>1, <3>1
  <2>3. req[v].user \in Users =>
          \A e \in Devices : users_by_device_id[e] # req[v].user => users_by_device_id'[e] # req[v].user
    BY <1>2, <1>5
  <2>4. FreshSound(v)'
    <3>1. \A w \in Threads \ {v} : req'[w].user = req[w].user
      BY <1>4
    <3>2. req[v].at \in Inserting => req[v].user \in Users
      BY <2>1 DEF Shaped
    <3> QED BY <1>1, <2>1, <2>2, <2>3, <3>1, <3>2 DEF FreshSound
  <2>5. SignUpSound(v)'
    BY <1>1, <2>1, <2>2 DEF SignUpSound
  <2>6. DeleteSound(v)'
    <3>1. req[v].at \in {"pop subscription", "respond"} => req[v].user \in Users
      BY <2>1 DEF Shaped
    <3> QED BY <1>1, <2>1, <2>2, <2>3, <3>1 DEF DeleteSound
  <2> QED BY <2>4, <2>5, <2>6
<1>a. NoDanglingDevice'
  <2> SUFFICES ASSUME NEW e \in Devices, users_by_device_id'[e] # None,
                      users_by_id[users_by_device_id'[e]] # e
               PROVE  \E v \in Threads : req'[v].at = "pop device" /\ req'[v].user = users_by_device_id'[e]
    BY <1>1 DEF NoDanglingDevice
  <2>1. users_by_device_id'[e] = users_by_device_id[e] /\ e # d
    BY <1>5
  <2>2. PICK v \in Threads : req[v].at = "pop device" /\ req[v].user = users_by_device_id[e]
    BY <2>1 DEF IInv, NoDanglingDevice
  <2>3. users_by_device_id[e] # u
    BY <1>2, <2>1 DEF IInv, Owned
  <2>4. v # t
    BY <2>2, <2>3 DEF u
  <2> QED BY <1>4, <2>1, <2>2, <2>4
<1>b. AloneFound'
  <2> SUFFICES ASSUME NEW w \in Users, users_by_id[w] # None, owner[w] \in alone
               PROVE  \/ users_by_device_id'[owner[w]] = w
                      \/ \E v \in Threads : req'[v].at = "insert device" /\ req'[v].user = w
    BY <1>1 DEF AloneFound
  <2>1. \/ users_by_device_id[owner[w]] = w
        \/ \E v \in Threads : req[v].at = "insert device" /\ req[v].user = w
    BY DEF IInv, AloneFound
  <2>2. CASE \E v \in Threads : req[v].at = "insert device" /\ req[v].user = w
    BY <1>1, <1>4, <2>2
  <2>3. CASE users_by_device_id[owner[w]] = w
    <3>1. owner[w] # d /\ owner[w] \in Devices
      <4>1. alone \subseteq Devices
        BY DEF IInv, Typed
      <4> QED BY <1>2, <2>3, <4>1
    <3> QED BY <1>5, <2>3, <3>1
  <2> QED BY <2>1, <2>2, <2>3
<1>c. Kept'
  BY <1>1 DEF IInv, Kept
<1>d. DeletedIsGone'
  <2>1. deleted \subseteq Users
    BY DEF IInv, Typed
  <2>2. \A w \in deleted, e \in Devices : users_by_device_id'[e] # w
    BY <1>2, <1>5, <2>1 DEF IInv, DeletedIsGone
  <2> QED BY <1>1, <2>2 DEF IInv, DeletedIsGone
<1> QED BY <1>4, <1>6, <1>7, <1>8, <1>9, <1>a, <1>b, <1>c, <1>d DEF IInv

LEMMA SubscriptionPopped ==
  ASSUME IInv, NEW t \in Threads, PopSubscription(t)
  PROVE  IInv'
<1> DEFINE u == req[t].user
           d == req[t].device
<1>1. /\ req[t].at = "pop subscription" /\ Goto(t, "respond")
      /\ subscriptions' = subscriptions \ {u}
      /\ UNCHANGED <<users_by_id, users_by_device_id, alone, owner, holders, leaving, deleted>>
  BY DEF PopSubscription, history
<1>2. /\ u \in Users /\ d \in Devices /\ req[t].op = "delete" /\ owner[u] = d /\ u \in leaving
      /\ users_by_id[u] = None /\ \A e \in Devices : users_by_device_id[e] # u
  <2>1. Shaped(t) /\ DeleteSound(t)
    BY DEF IInv
  <2>2. /\ u \in Users /\ d \in Devices /\ req[t].op = "delete" /\ u \in leaving
    BY <1>1, <2>1 DEF Shaped
  <2>3. owner[u] = d
    BY <2>1, <2>2, NoneAssumption DEF Shaped
  <2> QED BY <1>1, <2>1, <2>2, <2>3 DEF DeleteSound
<1>3. /\ req' \in [Threads -> Requests]
      /\ req'[t].at = "respond" /\ req'[t].op = req[t].op
      /\ req'[t].device = d /\ req'[t].user = u
      /\ \A v \in Threads \ {t} : req'[v] = req[v] /\ Shaped(v)'
      /\ \A v \in Threads : req'[v].user = req[v].user
      /\ OneAtATime'
  BY <1>1, Moves DEF Locations
<1> HIDE DEF u, d
<1>4. Typed'
  BY <1>1, <1>3 DEF IInv, Typed
<1>5. Owned'
  BY <1>1 DEF IInv, Owned
<1>6. Shaped(t)' /\ FreshSound(t)' /\ SignUpSound(t)' /\ DeleteSound(t)'
  BY <1>1, <1>2, <1>3 DEF Shaped, FreshSound, SignUpSound, DeleteSound, Inserting, SignUps
<1>7. ASSUME NEW v \in Threads \ {t}
      PROVE  FreshSound(v)' /\ SignUpSound(v)' /\ DeleteSound(v)'
  <2>1. /\ FreshSound(v) /\ SignUpSound(v) /\ DeleteSound(v) /\ req'[v] = req[v]
    BY <1>3 DEF IInv
  <2>2. FreshSound(v)'
    <3>1. \A w \in Threads \ {v} : req'[w].user = req[w].user
      BY <1>3
    <3> QED BY <1>1, <2>1, <3>1 DEF FreshSound
  <2>3. SignUpSound(v)'
    BY <1>1, <1>2, <2>1 DEF SignUpSound
  <2>4. DeleteSound(v)'
    BY <1>1, <2>1 DEF DeleteSound
  <2> QED BY <2>2, <2>3, <2>4
<1>8. NoDanglingDevice' /\ AloneFound'
  <2>1. \A v \in Threads : req[v].at \in {"pop device", "insert device"} => req'[v] = req[v]
    BY <1>1, <1>3
  <2> QED BY <1>1, <2>1, NothingDangles, AloneStaysFound DEF IInv
<1>9. Kept'
  BY <1>1, <1>2 DEF IInv, Kept
<1>a. DeletedIsGone'
  BY <1>1 DEF IInv, DeletedIsGone
<1> QED BY <1>3, <1>4, <1>5, <1>6, <1>7, <1>8, <1>9, <1>a DEF IInv

LEMMA Responded ==
  ASSUME IInv, NEW t \in Threads, Respond(t)
  PROVE  IInv'
<1> DEFINE u == req[t].user
           d == req[t].device
<1>1. /\ req[t].at = "respond" /\ Leave(t)
      /\ holders' = IF req[t].op = "receipt" THEN holders \cup {u} ELSE holders
      /\ deleted' = IF req[t].op = "delete" THEN deleted \cup {u} ELSE deleted
      /\ UNCHANGED <<users_by_id, users_by_device_id, subscriptions, alone, owner, leaving>>
  BY DEF Respond, accounts
<1>2. /\ u \in Users /\ d \in Devices /\ owner[u] = d
      /\ None \notin Users /\ None \notin Devices
  BY <1>1, NoneAssumption DEF IInv, Shaped, SignUps
<1>3. req[t].op = "receipt" /\ u \notin leaving => users_by_id[u] # None /\ u \in subscriptions
  BY <1>1 DEF IInv, SignUpSound, SignUps
<1>4. req[t].op = "delete" =>
        /\ u \in leaving /\ users_by_id[u] = None
        /\ \A e \in Devices : users_by_device_id[e] # u
        /\ d \in alone => u \notin subscriptions
  BY <1>1 DEF IInv, Shaped, DeleteSound
<1>5. /\ req' \in [Threads -> Requests] /\ req'[t] = Idle
      /\ \A v \in Threads \ {t} : req'[v] = req[v]
  BY <1>1, Leaves DEF IInv
<1>6. Idle.at = "idle" /\ Idle.op = "none" /\ Idle.device = None /\ Idle.user = None
  BY DEF Idle
<1>7. \A v \in Threads \ {t} : req[v].at \in Inserting => req[v].user # u /\ req[v].user \in Users
  <2>1. \A v \in Threads \ {t} : req[v].at \in Inserting => req[v].user # u
    BY DEF IInv, FreshSound
  <2>2. \A v \in Threads \ {t} : req[v].at \in Inserting => req[v].user \in Users
    BY DEF IInv, Shaped
  <2> QED BY <2>1, <2>2
<1> HIDE DEF u, d
<1>8. Typed'
  BY <1>1, <1>2, <1>5 DEF IInv, Typed
<1>9. Owned'
  BY <1>1, <1>2, <1>4 DEF IInv, Owned
<1>a. OneAtATime'
  <2>1. alone \subseteq Devices
    BY DEF IInv, Typed
  <2> QED BY <1>1, <1>2, <1>5, <1>6, <2>1 DEF IInv, OneAtATime
<1>b. Shaped(t)' /\ FreshSound(t)' /\ SignUpSound(t)' /\ DeleteSound(t)'
  BY <1>5, <1>6 DEF Shaped, FreshSound, SignUpSound, DeleteSound, Inserting, SignUps
<1>c. ASSUME NEW v \in Threads \ {t}
      PROVE  Shaped(v)' /\ FreshSound(v)' /\ SignUpSound(v)' /\ DeleteSound(v)'
  <2>1. /\ Shaped(v) /\ FreshSound(v) /\ SignUpSound(v) /\ DeleteSound(v) /\ req'[v] = req[v]
    BY <1>5 DEF IInv
  <2>2. Shaped(v)'
    BY <1>1, <2>1 DEF Shaped
  <2>3. FreshSound(v)'
    <3>1. \A w \in Threads \ {v} : req[v].at \in Inserting => req'[w].user # req[v].user
      BY <1>2, <1>5, <1>6, <1>7, <2>1 DEF FreshSound
    <3>2. req[v].at \in Inserting => req[v].user \notin holders'
      BY <1>1, <1>7, <2>1 DEF FreshSound
    <3> QED BY <1>1, <2>1, <3>1, <3>2 DEF FreshSound
  <2>4. SignUpSound(v)' /\ DeleteSound(v)'
    BY <1>1, <2>1 DEF SignUpSound, DeleteSound
  <2> QED BY <2>2, <2>3, <2>4
<1>d. NoDanglingDevice' /\ AloneFound'
  <2>1. \A v \in Threads : req[v].at \in {"pop device", "insert device"} => req'[v] = req[v]
    BY <1>1, <1>5
  <2> QED BY <1>1, <2>1, NothingDangles, AloneStaysFound DEF IInv
<1>e. Kept'
  BY <1>1, <1>3 DEF IInv, Kept
<1>f. DeletedIsGone'
  <2>1. DeletedIsGone
    BY DEF IInv
  <2>2. CASE req[t].op = "delete"
    <3>1. ASSUME NEW w \in deleted'
          PROVE  /\ users_by_id[w] = None
                 /\ \A e \in Devices : users_by_device_id[e] # w
                 /\ owner[w] \in alone => w \notin subscriptions
      <4>1. CASE w = u
        BY <1>2, <1>4, <2>2, <4>1
      <4>2. CASE w # u
        BY <1>1, <2>1, <4>2 DEF DeletedIsGone
      <4> QED BY <4>1, <4>2
    <3> QED BY <1>1, <3>1 DEF DeletedIsGone
  <2>3. CASE req[t].op # "delete"
    BY <1>1, <2>1, <2>3 DEF DeletedIsGone
  <2> QED BY <2>2, <2>3
<1> QED BY <1>5, <1>8, <1>9, <1>a, <1>b, <1>c, <1>d, <1>e, <1>f DEF IInv

-----------------------------------------------------------------------------
LEMMA Keeps == IInv /\ [Next]_vars => IInv'
<1> SUFFICES ASSUME IInv, [Next]_vars PROVE IInv'
  OBVIOUS
<1>1. ASSUME NEW t \in Threads, Step(t) PROVE IInv'
  BY <1>1, SignUpStarts, DeleteStarts, DeviceGot, UserFound, UserInserted, DeviceInserted,
     Subscribed, UserPopped, DevicePopped, SubscriptionPopped, Responded DEF Step
<1>2. CASE UNCHANGED vars
  <2>1. UNCHANGED <<users_by_id, users_by_device_id, subscriptions, req, alone, owner, holders,
                    leaving, deleted>>
    BY <1>2 DEF vars, accounts, history
  <2>2. Typed' /\ Owned' /\ OneAtATime'
    BY <2>1 DEF IInv, Typed, Owned, OneAtATime
  <2>3. ASSUME NEW t \in Threads
        PROVE  Shaped(t)' /\ FreshSound(t)' /\ SignUpSound(t)' /\ DeleteSound(t)'
    <3>1. Shaped(t) /\ FreshSound(t) /\ SignUpSound(t) /\ DeleteSound(t)
      BY DEF IInv
    <3>2. Shaped(t)' /\ FreshSound(t)'
      BY <2>1, <3>1 DEF Shaped, FreshSound
    <3>3. SignUpSound(t)' /\ DeleteSound(t)'
      BY <2>1, <3>1 DEF SignUpSound, DeleteSound
    <3> QED BY <3>2, <3>3
  <2>4. NoDanglingDevice' /\ AloneFound'
    BY <2>1, NothingDangles, AloneStaysFound DEF IInv
  <2>5. Kept' /\ DeletedIsGone'
    BY <2>1 DEF IInv, Kept, DeletedIsGone
  <2> QED BY <2>2, <2>3, <2>4, <2>5 DEF IInv
<1> QED BY <1>1, <1>2 DEF Next

LEMMA Always == Spec => []IInv
  BY Start, Keeps, PTL DEF Spec

(* No interleaving of requests leaves a device for good with a user that   *)
(* is gone, which would answer all its later sign-ups with an error        *)
(* (get_or_create_user, delete_user).                                      *)
THEOREM NothingDanglesEver == Spec => []NoDanglingDevice
<1>1. IInv => NoDanglingDevice
  BY DEF IInv
<1> QED BY <1>1, Always, PTL

(* Whoever holds a token keeps account and subscription until asking for   *)
(* the deletion, whatever other requests interleave with it.               *)
THEOREM HoldersAreKept == Spec => []HoldersKeepAccount
<1>1. ASSUME IInv PROVE HoldersKeepAccount
  <2>1. ASSUME NEW u \in holders \ leaving
        PROVE  /\ users_by_id[u] # None /\ u \in subscriptions
               /\ owner[u] \in alone => users_by_device_id[owner[u]] = u
    <3>1. users_by_id[u] # None /\ u \in subscriptions /\ u \in Users
      BY <1>1 DEF IInv, Kept, Typed
    <3>2. \A t \in Threads : req[t].at = "insert device" => req[t].user # u
      BY <1>1 DEF IInv, FreshSound, Inserting
    <3>3. owner[u] \in alone => users_by_device_id[owner[u]] = u
      BY <1>1, <3>1, <3>2 DEF IInv, AloneFound
    <3> QED BY <3>1, <3>3
  <2> QED BY <2>1 DEF HoldersKeepAccount
<1> QED BY <1>1, Always, PTL

(* An answered deletion is final, whatever sign-up was under way           *)
(* (delete_user).                                                          *)
THEOREM DeletionsAreFinal == Spec => []DeletedIsGone
<1>1. IInv => DeletedIsGone
  BY DEF IInv
<1> QED BY <1>1, Always, PTL

-----------------------------------------------------------------------------
(* The refinement: two accounts never share a device whose app sends one   *)
(* request at a time, and only a deletion takes an account away.           *)
OneEach == \A u, v \in Users :
             users_by_id[u] # None /\ users_by_id[v] = users_by_id[u] /\ users_by_id[u] \in alone =>
               u = v

LEMMA OneAccountEach == IInv => OneEach
<1> SUFFICES ASSUME IInv, NEW u \in Users, NEW v \in Users, users_by_id[u] # None,
                    users_by_id[v] = users_by_id[u], users_by_id[u] \in alone
             PROVE  u = v
  BY DEF OneEach
<1> DEFINE d == users_by_id[u]
<1>1. owner[u] = d /\ owner[v] = d /\ d \in Devices /\ None \notin Devices /\ None \notin Users
  <2>1. Owned /\ alone \subseteq Devices
    BY DEF IInv, Typed
  <2> QED BY <2>1, NoneAssumption DEF Owned
<1>2. \A w \in {u, v} : \/ users_by_device_id[d] = w
                        \/ \E t \in Threads : req[t].at = "insert device" /\ req[t].user = w
  BY <1>1 DEF IInv, AloneFound
<1>3. \A w \in {u, v}, t \in Threads :
        req[t].at = "insert device" /\ req[t].user = w =>
          req[t].device = d /\ users_by_device_id[d] = None
  <2>1. ASSUME NEW w \in {u, v}, NEW t \in Threads, req[t].at = "insert device", req[t].user = w
        PROVE  req[t].device = d /\ users_by_device_id[d] = None
    <3>1. Shaped(t) /\ FreshSound(t)
      BY DEF IInv
    <3>2. req[t].device = d
      BY <1>1, <2>1, <3>1 DEF Shaped
    <3> QED BY <2>1, <3>1, <3>2 DEF FreshSound, Inserting
  <2> QED BY <2>1
<1>4. CASE users_by_device_id[d] = None
  <2>1. PICK t \in Threads : req[t].at = "insert device" /\ req[t].user = u
    BY <1>1, <1>2, <1>4
  <2>2. PICK s \in Threads : req[s].at = "insert device" /\ req[s].user = v
    BY <1>1, <1>2, <1>4
  <2>3. s = t
    BY <1>3, <2>1, <2>2 DEF IInv, OneAtATime
  <2> QED BY <2>1, <2>2, <2>3
<1>5. CASE users_by_device_id[d] # None
  BY <1>2, <1>3, <1>5
<1> QED BY <1>4, <1>5

(* A step that gives no account another device is a Change. *)
AccountsOnlyGoWhenAsked ==
  /\ UNCHANGED <<alone, leaving>>
  /\ \A u \in leaving : owner'[u] = owner[u]
  /\ \A u \in Users : users_by_id[u] # None =>
       users_by_id'[u] \in {None, users_by_id[u]} /\ (users_by_id'[u] = None => u \in leaving)
  /\ \A u \in subscriptions : users_by_id[u] # None => u \in subscriptions'

LEMMA Changes ==
  ASSUME IInv, Typed', OneEach', AccountsOnlyGoWhenAsked
  PROVE  Registry!Change
<1> USE DEF AccountsOnlyGoWhenAsked
<1>1. /\ users_by_id \in [Users -> Devices \cup {None}] /\ users_by_id' \in [Users -> Devices \cup {None}]
      /\ subscriptions' \subseteq Users /\ None \notin alone /\ Owned
  BY NoneAssumption DEF IInv, Typed
<1>2. \A u \in Users : /\ DeviceAlone[u] = IF users_by_id[u] \in alone THEN users_by_id[u] ELSE None
                       /\ DeviceAlone'[u] = IF users_by_id'[u] \in alone THEN users_by_id'[u] ELSE None
  BY DEF DeviceAlone
<1>3. DeviceAlone' \in [Users -> Devices \cup {None}]
  BY <1>1 DEF DeviceAlone
<1>4. ASSUME NEW u \in Users, DeviceAlone'[u] # DeviceAlone[u], DeviceAlone[u] # None
      PROVE  DeviceAlone'[u] = None /\ u \in LeavingAlone
  <2>1. users_by_id[u] \in alone /\ users_by_id[u] # None /\ users_by_id'[u] # users_by_id[u]
    BY <1>1, <1>2, <1>4
  <2>2. users_by_id'[u] = None /\ u \in leaving
    BY <2>1
  <2>3. owner[u] \in alone
    BY <1>1, <2>1 DEF Owned
  <2> QED BY <1>1, <1>2, <2>2, <2>3 DEF LeavingAlone
<1>5. ASSUME NEW u \in Registry!Exists(DeviceAlone'), NEW v \in Registry!Exists(DeviceAlone'),
             DeviceAlone'[u] = DeviceAlone'[v]
      PROVE  u = v
  <2>1. /\ u \in Users /\ v \in Users /\ users_by_id'[u] \in alone' /\ users_by_id'[v] = users_by_id'[u]
        /\ users_by_id'[u] # None
    BY <1>1, <1>2, <1>5 DEF Registry!Exists
  <2> QED BY <2>1 DEF OneEach
<1>6. SubscribedAlone' \subseteq Registry!Exists(DeviceAlone')
  BY <1>1 DEF SubscribedAlone, Registry!Exists
<1>7. SubscribedAlone \cap Registry!Exists(DeviceAlone') \subseteq SubscribedAlone'
  BY <1>1, <1>2 DEF SubscribedAlone, Registry!Exists, IInv, Typed
<1>8. UNCHANGED LeavingAlone
  BY DEF LeavingAlone
<1> QED BY <1>3, <1>4, <1>5, <1>6, <1>7, <1>8 DEF Registry!Change

LEMMA RegistryInit == Init => Registry!Init
<1> SUFFICES ASSUME Init PROVE Registry!Init
  OBVIOUS
<1>1. None \notin alone
  BY NoneAssumption DEF Init
<1>2. DeviceAlone = [u \in Users |-> None]
  BY <1>1 DEF Init, DeviceAlone
<1>3. SubscribedAlone = {} /\ LeavingAlone = {}
  BY DEF Init, SubscribedAlone, LeavingAlone
<1> QED BY <1>2, <1>3 DEF Registry!Init

LEMMA RegistrySteps ==
  ASSUME IInv, Typed', OneEach', [Next]_vars
  PROVE  [Registry!Next]_<<DeviceAlone, SubscribedAlone, LeavingAlone>>
<1>1. /\ Typed /\ Owned /\ Kept /\ None \notin Devices /\ None \notin Users
  BY NoneAssumption DEF IInv
<1>2. AccountsOnlyGoWhenAsked => Registry!Next
  BY Changes DEF Registry!Next
<1>3. ASSUME UNCHANGED <<users_by_id, subscriptions, alone, leaving>>,
             \A u \in Users : owner[u] # None => owner'[u] = owner[u]
      PROVE  AccountsOnlyGoWhenAsked
  <2>1. \A u \in leaving : u \in Users /\ owner[u] # None
    BY <1>1 DEF Typed, Owned
  <2> QED BY <1>3, <2>1 DEF AccountsOnlyGoWhenAsked
<1>4. ASSUME NEW t \in Threads, Step(t)
      PROVE  [Registry!Next]_<<DeviceAlone, SubscribedAlone, LeavingAlone>>
  <2> DEFINE u == req[t].user
  <2>0. Shaped(t) /\ FreshSound(t) /\ DeleteSound(t)
    BY DEF IInv
  <2>1. CASE \/ StartSignUp(t) \/ FetchUser(t) \/ InsertDevice(t) \/ Authorize(t) \/ PopDevice(t)
             \/ Respond(t)
    <3>1. UNCHANGED <<users_by_id, subscriptions, alone, leaving, owner>>
      BY <2>1 DEF StartSignUp, FetchUser, InsertDevice, Authorize, PopDevice, Respond, accounts, history
    <3> QED BY <1>2, <1>3, <3>1
  <2>2. CASE StartDelete(t)
    <3>1. PICK v \in holders : leaving' = leaving \cup {v}
      BY <2>2 DEF StartDelete
    <3>2. UNCHANGED <<users_by_id, subscriptions, alone, owner>> /\ v \in Users
      BY <1>1, <2>2 DEF StartDelete, accounts, Typed
    <3>3. UNCHANGED <<DeviceAlone, SubscribedAlone>>
      BY <3>2 DEF DeviceAlone, SubscribedAlone
    <3>4. CASE v \in leaving \/ owner[v] \notin alone
      <4>1. UNCHANGED LeavingAlone
        BY <3>1, <3>2, <3>4 DEF LeavingAlone
      <4> QED BY <3>3, <4>1
    <3>5. CASE v \notin leaving /\ owner[v] \in alone
      <4>1. LeavingAlone' = LeavingAlone \cup {v}
        BY <3>1, <3>2, <3>5 DEF LeavingAlone
      <4>2. users_by_id[v] = owner[v] /\ users_by_id[v] # None
        BY <1>1, <3>2, <3>5 DEF Kept, Owned
      <4>3. v \in Registry!Exists(DeviceAlone)
        BY <3>2, <3>5, <4>2 DEF DeviceAlone, Registry!Exists
      <4> QED BY <3>3, <4>1, <4>3 DEF Registry!Next, Registry!AskToLeave
    <3> QED BY <3>4, <3>5
  <2>3. CASE GetDevice(t)
    <3>1. UNCHANGED <<users_by_id, subscriptions, alone, leaving>>
      BY <2>3 DEF GetDevice, accounts
    <3>2. \A v \in Users : owner[v] # None => owner'[v] = owner[v]
      BY <1>1, <2>3 DEF GetDevice, Typed
    <3> QED BY <1>2, <1>3, <3>1, <3>2
  <2>4. CASE InsertUser(t)
    <3>1. /\ req[t].at = "insert user" /\ UNCHANGED <<subscriptions, alone, owner, leaving>>
          /\ users_by_id' = [users_by_id EXCEPT ![u] = req[t].device]
      BY <2>4 DEF InsertUser, history
    <3>2. u \in Users /\ users_by_id[u] = None
      BY <2>0, <3>1 DEF Shaped, FreshSound, Inserting
    <3>3. AccountsOnlyGoWhenAsked
      BY <1>1, <3>1, <3>2 DEF AccountsOnlyGoWhenAsked, Typed
    <3> QED BY <1>2, <3>3
  <2>5. CASE Subscribe(t)
    <3>1. AccountsOnlyGoWhenAsked
      BY <2>5 DEF Subscribe, history, AccountsOnlyGoWhenAsked
    <3> QED BY <1>2, <3>1
  <2>6. CASE PopUser(t)
    <3>1. /\ req[t].at = "pop user" /\ UNCHANGED <<subscriptions, alone, owner, leaving>>
          /\ users_by_id' = [users_by_id EXCEPT ![u] = None]
      BY <2>6 DEF PopUser, history
    <3>2. u \in Users /\ u \in leaving
      BY <2>0, <3>1 DEF Shaped
    <3>3. AccountsOnlyGoWhenAsked
      BY <1>1, <3>1, <3>2 DEF AccountsOnlyGoWhenAsked, Typed
    <3> QED BY <1>2, <3>3
  <2>7. CASE PopSubscription(t)
    <3>1. /\ req[t].at = "pop subscription" /\ subscriptions' = subscriptions \ {u}
          /\ UNCHANGED <<users_by_id, alone, owner, leaving>>
      BY <2>7 DEF PopSubscription, history
    <3>2. users_by_id[u] = None
      BY <2>0, <3>1 DEF Shaped, DeleteSound
    <3>3. AccountsOnlyGoWhenAsked
      BY <1>1, <3>1, <3>2 DEF AccountsOnlyGoWhenAsked, Typed
    <3> QED BY <1>2, <3>3
  <2> QED BY <1>4, <2>1, <2>2, <2>3, <2>4, <2>5, <2>6, <2>7 DEF Step
<1>5. CASE UNCHANGED vars
  BY <1>5 DEF vars, accounts, history, DeviceAlone, SubscribedAlone, LeavingAlone
<1> QED BY <1>4, <1>5 DEF Next

(* The dictionaries promise the devices with one request at a time what    *)
(* the abstract registry says, although a sign-up and a deletion take      *)
(* several steps each.                                                     *)
THEOREM DictionariesImplementRegistry == Spec => ImplementsRegistry
<1>1. IInv => Typed /\ OneEach
  BY OneAccountEach DEF IInv
<1>2. IInv /\ Typed' /\ OneEach' /\ [Next]_vars =>
        [Registry!Next]_<<DeviceAlone, SubscribedAlone, LeavingAlone>>
  BY RegistrySteps
<1> QED BY <1>1, <1>2, RegistryInit, Always, PTL DEF Spec, ImplementsRegistry, Registry!Spec
=============================================================================
