--------------------------- MODULE Accounts_proofs ---------------------------
(* What holds of the accounts for any devices, users and threads.          *)
EXTENDS Accounts, TLAPS

-----------------------------------------------------------------------------
(* The inductive invariant.  The view is ahead of the file, but only by    *)
(* accounts that are new or whose holders leave; what a request relies on  *)
(* is in view once it has run its statement, and in the file once it has   *)
(* seen a transaction end.                                                 *)

SignUps == {"init", "receipt", "webhook"}

(* Rows that the constraints allow. *)
Sound(tables) ==
  /\ \A u, v \in Users : tables.users[u] # None /\ tables.users[v] = tables.users[u] => u = v
  /\ \A u \in tables.subscriptions : tables.users[u] # None

TablesSound ==
  /\ Sound(db.view) /\ Sound(db.disk) /\ NothingPending(db)
  /\ \A u \in Users : db.disk.users[u] # None =>
       \/ /\ db.view.users[u] = db.disk.users[u]
          /\ u \in db.disk.subscriptions => u \in db.view.subscriptions
       \/ db.view.users[u] = None /\ u \in leaving
  /\ \A u \in Users : db.view.users[u] # None \/ db.disk.users[u] # None => u \in drawn
  /\ holders \subseteq drawn /\ leaving \subseteq holders /\ deleted \subseteq leaving

Gone(u) == db.view.users[u] = None /\ db.disk.users[u] = None
Subscribed(tables, u) == tables.users[u] # None /\ u \in tables.subscriptions

(* Which requests get where. *)
Shaped(t) ==
  LET r == req[t]
  IN  /\ pc[t] = "idle" => r = NoRequest
      /\ pc[t] = "select" => r.op \in SignUps /\ r.device \in Devices /\ r.user = None /\ r.statement = "none"
      /\ pc[t] = "authorize" => r.op = "delete" /\ r.statement = "none"
      /\ pc[t] \in {"execute", "begin", "write", "commit", "committing"} => r.statement # "none"
      /\ r.statement = "insert user" => r.op \in SignUps /\ r.device \in Devices /\ r.user \in drawn
      /\ r.statement = "insert subscription" => r.op \in {"receipt", "webhook"} /\ r.user \in drawn
      /\ r.statement = "delete user" => r.op = "delete"
      /\ r.statement = "other" => r.op = "other"
      /\ r.op = "delete" => r.user \in leaving
      /\ r.user # None => r.user \in drawn
      /\ pc[t] = "respond" /\ r.op = "receipt" => r.statement = "insert subscription"

(* A new id is in no table, and known to its request only. *)
Inserts(t) == req[t].statement = "insert user" /\ pc[t] \in {"execute", "begin", "write"}

FreshSound(t) ==
  Inserts(t) => /\ Gone(req[t].user) /\ req[t].user \notin holders
                /\ \A s \in Threads \ {t} : req[s].user # req[t].user

SignUpSound(t) ==
  LET r == req[t]
  IN  r.statement = "insert subscription" /\ r.user \notin leaving =>
        /\ pc[t] \in {"commit", "committing"} => Subscribed(db.view, r.user)
        /\ pc[t] = "respond" => Subscribed(db.disk, r.user)

DeleteSound(t) ==
  LET r == req[t]
  IN  r.op = "delete" =>
        /\ pc[t] \in {"commit", "committing"} => db.view.users[r.user] = None
        /\ pc[t] = "respond" => Gone(r.user)

Kept == \A u \in holders \ leaving : Subscribed(db.disk, u)

AllGone == \A u \in deleted : Gone(u)

IInv == /\ TypeOK /\ TablesSound
        /\ \A t \in Threads : Shaped(t) /\ FreshSound(t) /\ SignUpSound(t) /\ DeleteSound(t)
        /\ Kept /\ AllGone

LEMMA Start == Init => IInv
<1> SUFFICES ASSUME Init PROVE IInv
  OBVIOUS
<1> DEFINE empty == [users |-> [u \in Users |-> None], subscriptions |-> {}]
<1>1. /\ empty \in Tables /\ Sound(empty)
      /\ \A u \in Users : empty.users[u] = None
  BY DEF Tables, Sound
<1>2. db = [view |-> empty, disk |-> empty, open |-> FALSE]
  BY DEF Init, Connect
<1> HIDE DEF empty
<1>3. db.view = empty /\ db.disk = empty /\ db.open = FALSE
      /\ db \in [view : Tables, disk : Tables, open : BOOLEAN]
  BY <1>1, <1>2
<1>4. NoRequest \in Request /\ NoRequest.user = None /\ NoRequest.op = "none" /\ NoRequest.statement = "none"
  BY DEF NoRequest, Request
<1>5. TypeOK
  BY <1>3, <1>4, BoundAssumption DEF Init, TypeOK, Locations
<1>6. TablesSound
  BY <1>1, <1>3 DEF Init, TablesSound, NothingPending
<1>7. \A t \in Threads : Shaped(t) /\ FreshSound(t) /\ SignUpSound(t) /\ DeleteSound(t)
  BY <1>4 DEF Init, Shaped, FreshSound, Inserts, SignUpSound, DeleteSound
<1>8. Kept /\ AllGone
  BY DEF Init, Kept, AllGone
<1> QED BY <1>5, <1>6, <1>7, <1>8 DEF IInv

-----------------------------------------------------------------------------
(* What one request's step may do to the others: it inserts none but its   *)
(* own new ids, X, and removes nothing of those who stay.                  *)
Onward(X) ==
  /\ \A u \in Users \ X : db.view.users[u] = None => db'.view.users[u] = None
  /\ \A u \in Users \ X : Gone(u) => Gone(u)'
  /\ \A u \in Users \ leaving : /\ Subscribed(db.view, u) => Subscribed(db'.view, u)
                                /\ Subscribed(db.disk, u) => Subscribed(db'.disk, u)

OneStep(t, X) ==
  /\ db' \in [view : Tables, disk : Tables, open : BOOLEAN]
  /\ Onward(X)
  /\ \A u \in X : u \notin holders /\ \A s \in Threads \ {t} : req[s].user # u
  /\ pc' \in [Threads -> Locations] /\ req' \in [Threads -> Request]
  /\ \A s \in Threads \ {t} : pc'[s] = pc[s] /\ req'[s] = req[s]
  /\ drawn \subseteq drawn' /\ drawn' \subseteq Users
  /\ leaving \subseteq leaving' /\ leaving' \subseteq Users
  /\ failures' \in 0..MaxFailures
  /\ \A s \in Threads \ {t} : Inserts(s) => req'[t].user # req[s].user /\ req[s].user \notin holders'

LEMMA OthersSound ==
  ASSUME IInv, NEW t \in Threads, NEW X, OneStep(t, X), NEW s \in Threads \ {t}
  PROVE  Shaped(s)' /\ FreshSound(s)' /\ SignUpSound(s)' /\ DeleteSound(s)'
<1>1. /\ Shaped(s) /\ FreshSound(s) /\ SignUpSound(s) /\ DeleteSound(s)
      /\ pc'[s] = pc[s] /\ req'[s] = req[s] /\ drawn \subseteq drawn' /\ leaving \subseteq leaving'
      /\ drawn \subseteq Users /\ leaving \subseteq Users
      /\ req[s].user \notin X
  BY DEF IInv, OneStep, TypeOK
<1>2. Shaped(s)'
  BY <1>1 DEF Shaped
<1>3. FreshSound(s)'
  <2>1. SUFFICES ASSUME Inserts(s)
                 PROVE  /\ Gone(req[s].user)' /\ req[s].user \notin holders'
                        /\ \A r \in Threads \ {s} : req'[r].user # req[s].user
    BY <1>1 DEF FreshSound, Inserts
  <2>2. req[s].user \in Users /\ Gone(req[s].user)
    BY <1>1, <2>1 DEF FreshSound, Shaped, Inserts
  <2>3. Gone(req[s].user)'
    BY <1>1, <2>2 DEF OneStep, Onward
  <2>4. \A r \in Threads \ {s} : req'[r].user # req[s].user
    BY <1>1, <2>1 DEF OneStep, FreshSound
  <2> QED BY <2>1, <2>3, <2>4 DEF OneStep
<1>4. SignUpSound(s)'
  <2>1. SUFFICES ASSUME req[s].statement = "insert subscription", req[s].user \notin leaving'
                 PROVE  /\ pc[s] \in {"commit", "committing"} => Subscribed(db'.view, req[s].user)
                        /\ pc[s] = "respond" => Subscribed(db'.disk, req[s].user)
    BY <1>1 DEF SignUpSound, Subscribed
  <2>2. req[s].user \in Users \ leaving
    BY <1>1, <2>1 DEF Shaped
  <2> QED BY <1>1, <2>1, <2>2 DEF SignUpSound, OneStep, Onward
<1>5. DeleteSound(s)'
  <2>1. SUFFICES ASSUME req[s].op = "delete"
                 PROVE  /\ pc[s] \in {"commit", "committing"} => db'.view.users[req[s].user] = None
                        /\ pc[s] = "respond" => Gone(req[s].user)'
    BY <1>1 DEF DeleteSound
  <2>2. req[s].user \in Users \ X
    BY <1>1, <2>1 DEF Shaped
  <2> QED BY <1>1, <2>1, <2>2 DEF DeleteSound, OneStep, Onward
<1> QED BY <1>2, <1>3, <1>4, <1>5

(* Each step but Respond. *)
LEMMA StepKeeps ==
  ASSUME IInv, NEW t \in Threads, NEW X, OneStep(t, X), TablesSound', UNCHANGED <<holders, deleted>>,
         Shaped(t)', FreshSound(t)', SignUpSound(t)', DeleteSound(t)'
  PROVE  IInv'
<1>1. TypeOK'
  BY DEF IInv, TypeOK, OneStep
<1>2. \A s \in Threads : Shaped(s)' /\ FreshSound(s)' /\ SignUpSound(s)' /\ DeleteSound(s)'
  BY OthersSound
<1>3. Kept'
  <2>1. ASSUME NEW u \in holders \ leaving' PROVE Subscribed(db'.disk, u)
    <3>1. u \in Users \ leaving /\ Subscribed(db.disk, u)
      BY DEF IInv, TypeOK, Kept, OneStep
    <3> QED BY <3>1 DEF OneStep, Onward
  <2> QED BY <2>1 DEF Kept, Subscribed
<1>4. AllGone'
  <2>1. ASSUME NEW u \in deleted PROVE Gone(u)'
    <3>1. u \in Users \ X /\ Gone(u)
      BY DEF IInv, TypeOK, TablesSound, AllGone, OneStep
    <3> QED BY <3>1 DEF OneStep, Onward
  <2> QED BY <2>1 DEF AllGone
<1> QED BY <1>1, <1>2, <1>3, <1>4 DEF IInv

(* Steps that leave the rows as they are. *)
SameRows == /\ db' \in [view : Tables, disk : Tables, open : BOOLEAN]
            /\ db'.view = db.view /\ db'.disk = db.disk /\ NothingPending(db)'

LEMMA RowsKeep ==
  ASSUME IInv, SameRows
  PROVE  Onward({})
  BY DEF SameRows, Onward, Gone, Subscribed

LEMMA SameTables ==
  ASSUME IInv, SameRows, drawn \subseteq drawn', leaving \subseteq leaving', leaving' \subseteq holders',
         holders' \subseteq drawn', deleted' \subseteq leaving'
  PROVE  TablesSound'
<1>1. TablesSound
  BY DEF IInv
<1> QED BY <1>1 DEF TablesSound, SameRows, Sound, NothingPending

-----------------------------------------------------------------------------
(* Steps that leave the rows as they are and take the request elsewhere.   *)
QuietStep(t) ==
  /\ SameRows
  /\ pc' \in [Threads -> Locations] /\ req' \in [Threads -> Request]
  /\ \A s \in Threads \ {t} : pc'[s] = pc[s] /\ req'[s] = req[s]
  /\ drawn \subseteq drawn' /\ drawn' \subseteq Users
  /\ leaving \subseteq leaving' /\ leaving' \subseteq holders
  /\ failures' \in 0..MaxFailures /\ UNCHANGED <<holders, deleted>>
  /\ \A s \in Threads \ {t} : Inserts(s) => req'[t].user # req[s].user

LEMMA QuietKeeps ==
  ASSUME IInv, NEW t \in Threads, QuietStep(t),
         Shaped(t)', FreshSound(t)', SignUpSound(t)', DeleteSound(t)'
  PROVE  IInv'
<1> USE DEF QuietStep
<1>0. TablesSound /\ holders \subseteq Users
  BY DEF IInv, TypeOK
<1>1. TablesSound'
  BY <1>0, SameTables DEF TablesSound
<1>2. \A s \in Threads \ {t} : Inserts(s) => req[s].user \notin holders'
  BY DEF IInv, FreshSound
<1>3. OneStep(t, {})
  BY <1>0, <1>2, RowsKeep DEF OneStep, SameRows
<1> QED BY <1>1, <1>3, StepKeeps

(* Facts about a thread's request, and about its next one. *)
LEMMA Locals ==
  ASSUME IInv, NEW t \in Threads
  PROVE  /\ Shaped(t) /\ FreshSound(t) /\ SignUpSound(t) /\ DeleteSound(t) /\ TablesSound
         /\ req[t] \in Request /\ pc[t] \in Locations /\ db \in [view : Tables, disk : Tables, open : BOOLEAN]
         /\ pc \in [Threads -> Locations] /\ req \in [Threads -> Request]
         /\ db.view \in Tables /\ db.disk \in Tables
         /\ drawn \subseteq Users /\ holders \subseteq Users /\ leaving \subseteq holders
         /\ holders \subseteq drawn /\ deleted \subseteq leaving
         /\ failures \in 0..MaxFailures /\ None \notin Users /\ None \notin Devices
  BY NoneAssumption DEF IInv, TypeOK, TablesSound

LEMMA NoRequestFacts ==
  /\ NoRequest \in Request /\ NoRequest.op = "none" /\ NoRequest.device = None
  /\ NoRequest.user = None /\ NoRequest.statement = "none" /\ NoRequest.rowcount = 0
  BY DEF NoRequest, Request

LEMMA Moves ==
  ASSUME IInv, NEW t \in Threads, NEW location \in Locations, NEW r \in Request,
         pc' = [pc EXCEPT ![t] = location], req' = [req EXCEPT ![t] = r]
  PROVE  /\ pc' \in [Threads -> Locations] /\ req' \in [Threads -> Request]
         /\ pc'[t] = location /\ req'[t] = r
         /\ \A s \in Threads \ {t} : pc'[s] = pc[s] /\ req'[s] = req[s]
  BY Locals

LEMMA Stays ==
  ASSUME IInv, NEW t \in Threads, NEW location \in Locations, Goto(t, location), UNCHANGED req
  PROVE  /\ pc' \in [Threads -> Locations] /\ req' \in [Threads -> Request]
         /\ pc'[t] = location /\ req'[t] = req[t]
         /\ \A s \in Threads \ {t} : pc'[s] = pc[s] /\ req'[s] = req[s]
  BY Locals DEF Goto

LEMMA Leaves ==
  ASSUME IInv, NEW t \in Threads, Leave(t)
  PROVE  /\ pc' \in [Threads -> Locations] /\ req' \in [Threads -> Request]
         /\ pc'[t] = "idle" /\ req'[t] = NoRequest
         /\ \A s \in Threads \ {t} : pc'[s] = pc[s] /\ req'[s] = req[s]
  BY Moves, NoRequestFacts DEF Leave, Goto, Locations

(* A request that has ended relies on nothing. *)
LEMMA IdleSound ==
  ASSUME NEW t \in Threads, pc'[t] = "idle", req'[t] = NoRequest
  PROVE  Shaped(t)' /\ FreshSound(t)' /\ SignUpSound(t)' /\ DeleteSound(t)'
  BY NoRequestFacts DEF Shaped, FreshSound, Inserts, SignUpSound, DeleteSound

(* The rows and the histories stay, while a request moves. *)
Same == /\ UNCHANGED <<drawn, holders, leaving, deleted>> /\ failures' \in 0..MaxFailures

LEMMA DbSame == ASSUME IInv, UNCHANGED db PROVE SameRows
  BY Locals DEF IInv, SameRows, TypeOK, TablesSound, NothingPending

LEMMA LeaveKeeps ==
  ASSUME IInv, NEW t \in Threads, Leave(t), SameRows, Same
  PROVE  IInv'
<1>1. Shaped(t)' /\ FreshSound(t)' /\ SignUpSound(t)' /\ DeleteSound(t)'
  BY Leaves, IdleSound
<1>2. \A s \in Threads \ {t} : Inserts(s) => req[s].user # None
  BY Locals DEF IInv, Shaped, Inserts
<1>3. QuietStep(t)
  BY <1>2, Leaves, Locals, NoRequestFacts DEF QuietStep, Same
<1> QED BY <1>1, <1>3, QuietKeeps

LEMMA GoKeeps ==
  ASSUME IInv, NEW t \in Threads, NEW location \in Locations, NEW r \in Request,
         pc' = [pc EXCEPT ![t] = location], req' = [req EXCEPT ![t] = r],
         r.user \in {req[t].user, None}, SameRows, Same,
         Shaped(t)', FreshSound(t)', SignUpSound(t)', DeleteSound(t)'
  PROVE  IInv'
<1>1. \A s \in Threads \ {t} : Inserts(s) => req[s].user # None /\ req[s].user # req[t].user
  BY Locals DEF IInv, Shaped, FreshSound, Inserts
<1>2. QuietStep(t)
  BY <1>1, Moves, Locals DEF QuietStep, Same
<1> QED BY <1>2, QuietKeeps

LEMMA StayKeeps ==
  ASSUME IInv, NEW t \in Threads, NEW location \in Locations, Goto(t, location), UNCHANGED req,
         SameRows, Same, Shaped(t)', FreshSound(t)', SignUpSound(t)', DeleteSound(t)'
  PROVE  IInv'
<1>1. \A s \in Threads \ {t} : Inserts(s) => req[s].user # req[t].user
  BY Locals DEF IInv, FreshSound, Inserts
<1>2. QuietStep(t)
  BY <1>1, Stays, Locals DEF QuietStep, Same
<1> QED BY <1>2, QuietKeeps

LEMMA SignUpStarts == ASSUME IInv, NEW t \in Threads, StartSignUp(t) PROVE IInv'
<1>1. PICK op \in SignUps, d \in Devices :
        Accept(t, "select", [NoRequest EXCEPT !.op = op, !.device = d])
  BY DEF StartSignUp, SignUps
<1> DEFINE r == [NoRequest EXCEPT !.op = op, !.device = d]
<1>2. /\ r \in Request /\ r.op = op /\ r.device = d /\ r.user = None /\ r.statement = "none"
  BY DEF NoRequest, Request, SignUps, Operations
<1>3. pc' = [pc EXCEPT ![t] = "select"] /\ req' = [req EXCEPT ![t] = r] /\ SameRows /\ Same
  BY <1>1, DbSame, Locals DEF Accept, Goto, StartSignUp, Same, history
<1> HIDE DEF r
<1>4. pc'[t] = "select" /\ req'[t] = r
  BY <1>2, <1>3, Moves DEF Locations
<1>5. Shaped(t)' /\ FreshSound(t)' /\ SignUpSound(t)' /\ DeleteSound(t)'
  BY <1>2, <1>4 DEF Shaped, FreshSound, Inserts, SignUpSound, DeleteSound, SignUps
<1> QED BY <1>2, <1>3, <1>5, GoKeeps DEF Locations

LEMMA OtherStarts == ASSUME IInv, NEW t \in Threads, StartOther(t) PROVE IInv'
<1> DEFINE r == [NoRequest EXCEPT !.op = "other", !.statement = "other"]
<1>2. /\ r \in Request /\ r.op = "other" /\ r.user = None /\ r.statement = "other"
  BY DEF NoRequest, Request, Statements, Operations
<1>3. pc' = [pc EXCEPT ![t] = "execute"] /\ req' = [req EXCEPT ![t] = r] /\ SameRows /\ Same
  BY DbSame, Locals DEF Accept, Goto, StartOther, Same, history
<1> HIDE DEF r
<1>4. pc'[t] = "execute" /\ req'[t] = r
  BY <1>2, <1>3, Moves DEF Locations
<1>5. Shaped(t)' /\ FreshSound(t)' /\ SignUpSound(t)' /\ DeleteSound(t)'
  BY <1>2, <1>4 DEF Shaped, FreshSound, Inserts, SignUpSound, DeleteSound, SignUps
<1> QED BY <1>2, <1>3, <1>5, GoKeeps DEF Locations

LEMMA DeleteStarts == ASSUME IInv, NEW t \in Threads, StartDelete(t) PROVE IInv'
<1>1. PICK u \in holders : /\ Accept(t, "authorize", [NoRequest EXCEPT !.op = "delete", !.user = u])
                           /\ leaving' = leaving \cup {u}
  BY DEF StartDelete
<1> DEFINE r == [NoRequest EXCEPT !.op = "delete", !.user = u]
<1>2. /\ r \in Request /\ r.op = "delete" /\ r.user = u /\ r.statement = "none" /\ u \in drawn
  BY Locals DEF NoRequest, Request, Operations
<1>3. /\ pc' = [pc EXCEPT ![t] = "authorize"] /\ req' = [req EXCEPT ![t] = r] /\ SameRows
      /\ UNCHANGED <<drawn, holders, deleted, failures>>
  BY <1>1, DbSame DEF Accept, Goto, StartDelete
<1> HIDE DEF r
<1>4. /\ pc'[t] = "authorize" /\ req'[t] = r
      /\ pc' \in [Threads -> Locations] /\ req' \in [Threads -> Request]
      /\ \A s \in Threads \ {t} : pc'[s] = pc[s] /\ req'[s] = req[s]
  BY <1>2, <1>3, Moves DEF Locations
<1>5. Shaped(t)' /\ FreshSound(t)' /\ SignUpSound(t)' /\ DeleteSound(t)'
  BY <1>1, <1>2, <1>3, <1>4 DEF Shaped, FreshSound, Inserts, SignUpSound, DeleteSound, SignUps
<1>6. \A s \in Threads \ {t} : Inserts(s) => req[s].user # u
  BY DEF IInv, FreshSound
<1>7. QuietStep(t)
  BY <1>1, <1>2, <1>3, <1>4, <1>6, Locals DEF QuietStep
<1> QED BY <1>5, <1>7, QuietKeeps

LEMMA Authorized == ASSUME IInv, NEW t \in Threads, Authorize(t) PROVE IInv'
<1>1. pc[t] = "authorize" /\ SameRows /\ Same
  BY DbSame, Locals DEF Authorize, Same, history
<1>2. CASE Leave(t)
  BY <1>1, <1>2, LeaveKeeps
<1>3. CASE Execution(t, [req[t] EXCEPT !.statement = "delete user"])
  <2> DEFINE r == [req[t] EXCEPT !.statement = "delete user"]
  <2>1. /\ r \in Request /\ r.op = "delete" /\ r.user = req[t].user /\ r.statement = "delete user"
        /\ r.user \in leaving
    BY <1>1, Locals DEF Request, Statements, Shaped
  <2>2. pc' = [pc EXCEPT ![t] = "execute"] /\ req' = [req EXCEPT ![t] = r]
    BY <1>3 DEF Execution, Goto
  <2> HIDE DEF r
  <2>3. pc'[t] = "execute" /\ req'[t] = r
    BY <2>1, <2>2, Moves DEF Locations
  <2>4. Shaped(t)' /\ FreshSound(t)' /\ SignUpSound(t)' /\ DeleteSound(t)'
    BY <1>1, <2>1, <2>3, Locals DEF Shaped, FreshSound, Inserts, SignUpSound, DeleteSound, SignUps, Same
  <2> QED BY <1>1, <2>1, <2>2, <2>4, GoKeeps DEF Locations
<1> QED BY <1>2, <1>3 DEF Authorize

(* The select of get_or_create_user: the user found is in view, a new one  *)
(* in no table.                                                            *)
LEMMA UserSelected == ASSUME IInv, NEW t \in Threads, SelectUser(t) PROVE IInv'
<1> DEFINE d == req[t].device
<1>1. /\ pc[t] = "select" /\ SameRows /\ UNCHANGED <<holders, leaving, deleted, failures>>
      /\ req[t].op \in SignUps /\ d \in Devices /\ req[t].user = None /\ req[t].statement = "none"
      /\ d # None
  <2>1. pc[t] = "select" /\ SameRows /\ UNCHANGED <<holders, leaving, deleted, failures>>
    BY DbSame DEF SelectUser
  <2> QED BY <2>1, Locals DEF Shaped
<1>2. ASSUME NEW u \in Users, NEW r \in Request, NEW location \in Locations, r.user = u,
             pc' = [pc EXCEPT ![t] = location], req' = [req EXCEPT ![t] = r],
             drawn' \in SUBSET Users, drawn \subseteq drawn',
             \A s \in Threads \ {t} : Inserts(s) => req[s].user # u,
             Shaped(t)', FreshSound(t)', SignUpSound(t)', DeleteSound(t)'
      PROVE  IInv'
  <2>1. QuietStep(t)
    BY <1>1, <1>2, Moves, Locals DEF QuietStep
  <2> QED BY <1>2, <2>1, QuietKeeps
<1>3. ASSUME NEW u \in ofDevice(db.view, d), FoundUser(t, u)
      PROVE  IInv'
  <2>1. u \in Users /\ db.view.users[u] = d /\ u \in drawn /\ UNCHANGED drawn
    <3>1. u \in Users /\ db.view.users[u] = d
      BY DEF ofDevice
    <3>2. u \in drawn
      BY <1>1, <3>1, Locals DEF TablesSound
    <3> QED BY <1>3, <3>1, <3>2 DEF FoundUser
  <2>2. \A s \in Threads \ {t} : Inserts(s) => req[s].user # u
    BY <1>1, <2>1 DEF IInv, FreshSound, Gone
  <2>3. CASE req[t].op = "init"
    <3> DEFINE r == [req[t] EXCEPT !.user = u]
    <3>1. r \in Request /\ r.op = "init" /\ r.user = u /\ r.statement = "none"
      BY <1>1, <2>1, <2>3, Locals DEF Request
    <3>2. pc' = [pc EXCEPT ![t] = "respond"] /\ req' = [req EXCEPT ![t] = r]
      BY <1>3, <2>3 DEF FoundUser, Goto
    <3> HIDE DEF r
    <3>3. pc'[t] = "respond" /\ req'[t] = r
      BY <3>1, <3>2, Moves DEF Locations
    <3>4. Shaped(t)' /\ FreshSound(t)' /\ SignUpSound(t)' /\ DeleteSound(t)'
      BY <2>1, <3>1, <3>3 DEF Shaped, FreshSound, Inserts, SignUpSound, DeleteSound
    <3> QED BY <1>2, <2>1, <2>2, <3>1, <3>2, <3>4, Locals DEF Locations
  <2>4. CASE req[t].op # "init"
    <3> DEFINE r == [req[t] EXCEPT !.user = u, !.statement = "insert subscription"]
    <3>1. r \in Request /\ r.op = req[t].op /\ r.user = u /\ r.statement = "insert subscription"
      BY <1>1, <2>1, <2>4, Locals DEF Request, Statements
    <3>2. pc' = [pc EXCEPT ![t] = "execute"] /\ req' = [req EXCEPT ![t] = r]
      BY <1>3, <2>4 DEF FoundUser, Execution, Goto
    <3> HIDE DEF r
    <3>3. pc'[t] = "execute" /\ req'[t] = r
      BY <3>1, <3>2, Moves DEF Locations
    <3>4. Shaped(t)' /\ FreshSound(t)' /\ SignUpSound(t)' /\ DeleteSound(t)'
      BY <1>1, <2>1, <2>4, <3>1, <3>3 DEF Shaped, FreshSound, Inserts, SignUpSound, DeleteSound, SignUps
    <3> QED BY <1>2, <2>1, <2>2, <3>1, <3>2, <3>4, Locals DEF Locations
  <2> QED BY <2>3, <2>4
<1>4. ASSUME NEW u \in Users, NewUser(t, u)
      PROVE  IInv'
  <2> DEFINE r == [req[t] EXCEPT !.user = u, !.statement = "insert user"]
  <2>1. r \in Request /\ r.op = req[t].op /\ r.device = d /\ r.user = u /\ r.statement = "insert user"
    BY <1>1, <1>4, Locals DEF Request, Statements
  <2>2. /\ pc' = [pc EXCEPT ![t] = "execute"] /\ req' = [req EXCEPT ![t] = r]
        /\ u \notin drawn /\ drawn' = drawn \cup {u}
    BY <1>4 DEF NewUser, Execution, Goto
  <2> HIDE DEF r
  <2>3. /\ pc'[t] = "execute" /\ req'[t] = r
        /\ \A s \in Threads \ {t} : req'[s] = req[s]
    BY <2>1, <2>2, Moves DEF Locations
  <2>4. \A s \in Threads \ {t} : req[s].user # u
    BY <2>2, Locals DEF IInv, Shaped
  <2>5. Gone(u)' /\ u \notin holders'
    <3>1. Gone(u) /\ u \notin holders
      BY <2>2, Locals DEF Gone, TablesSound
    <3> QED BY <1>1, <3>1 DEF Gone, SameRows
  <2>6. FreshSound(t)'
    BY <2>1, <2>3, <2>4, <2>5 DEF FreshSound
  <2>7. Shaped(t)' /\ SignUpSound(t)' /\ DeleteSound(t)'
    <3>1. r.op \in SignUps /\ r.op # "delete" /\ d \in Devices /\ u \in drawn'
      BY <1>1, <2>1, <2>2 DEF SignUps
    <3>2. Shaped(t)'
      BY <2>1, <2>3, <3>1 DEF Shaped
    <3>3. SignUpSound(t)' /\ DeleteSound(t)'
      BY <2>1, <2>3, <3>1 DEF SignUpSound, DeleteSound
    <3> QED BY <3>2, <3>3
  <2>8. drawn' \in SUBSET Users /\ drawn \subseteq drawn'
    BY <2>2, Locals
  <2> QED BY <1>2, <2>1, <2>2, <2>4, <2>6, <2>7, <2>8 DEF Locations
<1>5. CASE Leave(t) /\ UNCHANGED drawn
  BY <1>1, <1>5, LeaveKeeps, Locals DEF Same
<1> QED BY <1>3, <1>4, <1>5 DEF SelectUser

LEMMA TransactionLooked == ASSUME IInv, NEW t \in Threads, LookAtTransaction(t) PROVE IInv'
<1>1. pc[t] = "execute" /\ SameRows /\ Same /\ UNCHANGED <<db, req>>
  BY DbSame, Locals DEF LookAtTransaction, Same, history
<1>2. PICK location \in {"write", "begin"} : Goto(t, location)
  BY DEF LookAtTransaction
<1>3. /\ pc'[t] = location /\ req'[t] = req[t]
      /\ \A s \in Threads \ {t} : req'[s] = req[s]
  BY <1>1, <1>2, Stays DEF Locations
<1>4. Shaped(t)' /\ FreshSound(t)'
  BY <1>1, <1>3, Locals DEF Shaped, FreshSound, Inserts, Gone, Same
<1>5. SignUpSound(t)' /\ DeleteSound(t)'
  BY <1>1, <1>3 DEF SignUpSound, DeleteSound
<1> QED BY <1>1, <1>2, <1>4, <1>5, StayKeeps DEF Locations

LEMMA TransactionBegun == ASSUME IInv, NEW t \in Threads, BeginTransaction(t) PROVE IInv'
<1>1. pc[t] = "begin" /\ Same
  BY Locals DEF BeginTransaction, Same, history
<1>2. CASE Leave(t) /\ UNCHANGED db
  BY <1>1, <1>2, DbSame, LeaveKeeps
<1>3. CASE Goto(t, "write") /\ db' = Begin(db) /\ UNCHANGED req
  <2>1. SameRows
    BY <1>3, Locals DEF SameRows, Begin, NothingPending
  <2>2. /\ pc'[t] = "write" /\ req'[t] = req[t]
        /\ \A s \in Threads \ {t} : req'[s] = req[s]
    BY <1>3, Stays DEF Locations
  <2>3. Shaped(t)' /\ FreshSound(t)'
    <3>1. Shaped(t)'
      BY <1>1, <2>2, Locals DEF Shaped, Same
    <3>2. Inserts(t)' => Inserts(t) /\ FreshSound(t)
      BY <1>1, <2>2, Locals DEF Inserts
    <3>3. Inserts(t) /\ FreshSound(t) => Gone(req[t].user)'
      BY <2>1, <2>2 DEF FreshSound, Gone, SameRows
    <3>4. FreshSound(t)'
      BY <1>1, <2>2, <3>2, <3>3 DEF FreshSound, Gone, Same
    <3> QED BY <3>1, <3>4
  <2>4. SignUpSound(t)' /\ DeleteSound(t)'
    BY <1>1, <2>2 DEF SignUpSound, DeleteSound
  <2> QED BY <1>1, <1>3, <2>1, <2>3, <2>4, StayKeeps DEF Locations
<1> QED BY <1>2, <1>3 DEF BeginTransaction

LEMMA ConstraintViolated == ASSUME IInv, NEW t \in Threads, ViolateConstraint(t) PROVE IInv'
<1>1. Leave(t) /\ SameRows /\ Same
  BY DbSame, Locals DEF ViolateConstraint, Same, history
<1> QED BY <1>1, LeaveKeeps

LEMMA RequestAbandoned == ASSUME IInv, NEW t \in Threads, AbandonRequest(t) PROVE IInv'
<1>1. Leave(t) /\ SameRows /\ Same
  BY DbSame, Locals, BoundAssumption DEF AbandonRequest, Same, history
<1> QED BY <1>1, LeaveKeeps

-----------------------------------------------------------------------------
(* The end of a transaction, whoever ended it: the file has what is in     *)
(* view.                                                                   *)
Committed == /\ db' \in [view : Tables, disk : Tables, open : BOOLEAN]
             /\ db'.view = db.view /\ db'.disk = db.view

LEMMA CommittedTables ==
  ASSUME IInv, NEW t \in Threads, Committed, Same
  PROVE  TablesSound' /\ Onward({})
<1>1. TablesSound
  BY DEF IInv
<1>2. TablesSound'
  BY <1>1 DEF TablesSound, Committed, Same, Sound, NothingPending
<1>3. \A u \in Users : Gone(u) => Gone(u)'
  BY DEF Gone, Committed
<1>4. ASSUME NEW u \in Users \ leaving, Subscribed(db.disk, u)
      PROVE  Subscribed(db'.disk, u)
  BY <1>1, <1>4 DEF TablesSound, Subscribed, Committed
<1> QED BY <1>2, <1>3, <1>4 DEF Onward, Committed, Subscribed

LEMMA CommitKeeps ==
  ASSUME IInv, NEW t \in Threads, pc[t] \in {"commit", "committing"}, Committed, Same,
         UNCHANGED failures, AfterCommit(t)
  PROVE  IInv'
<1> DEFINE r == req[t]
<1>1. /\ TablesSound' /\ Onward({})
      /\ \A s \in Threads \ {t} : Inserts(s) => /\ req[s].user # r.user /\ req[s].user # None
                                                /\ req[s].user \notin holders
  <2>1. \A s \in Threads \ {t} : Inserts(s) => req[s].user # None
    BY Locals DEF IInv, Shaped, Inserts
  <2>2. \A s \in Threads \ {t} : Inserts(s) => req[s].user # r.user /\ req[s].user \notin holders
    BY DEF IInv, FreshSound
  <2> QED BY <2>1, <2>2, CommittedTables
<1>2. ASSUME NEW location \in Locations, NEW next \in Request,
             pc' = [pc EXCEPT ![t] = location], req' = [req EXCEPT ![t] = next],
             next.user \in {r.user, None},
             Shaped(t)', FreshSound(t)', SignUpSound(t)', DeleteSound(t)'
      PROVE  IInv'
  <2>1. OneStep(t, {})
    BY <1>1, <1>2, Moves, Locals DEF OneStep, Committed, Same
  <2> QED BY <1>1, <1>2, <2>1, StepKeeps DEF Same
<1>3. CASE r.statement = "insert user" /\ r.op # "init"
  <2> DEFINE next == [r EXCEPT !.statement = "insert subscription"]
  <2>1. /\ next \in Request /\ next.op = r.op /\ next.user = r.user
        /\ next.statement = "insert subscription"
        /\ r.op \in {"receipt", "webhook"} /\ r.user \in drawn
    BY <1>3, Locals DEF Request, Statements, Shaped, SignUps
  <2>2. pc' = [pc EXCEPT ![t] = "execute"] /\ req' = [req EXCEPT ![t] = next]
    <3>1. Execution(t, next)
      BY <1>3, <2>1 DEF AfterCommit
    <3> QED BY <3>1 DEF Execution, Goto
  <2> HIDE DEF next, r
  <2>3. pc'[t] = "execute" /\ req'[t] = next
    BY <2>1, <2>2, Moves DEF Locations
  <2>4. Shaped(t)' /\ FreshSound(t)' /\ SignUpSound(t)' /\ DeleteSound(t)'
    BY <2>1, <2>3 DEF Shaped, FreshSound, Inserts, SignUpSound, DeleteSound, Same
  <2> QED BY <1>2, <2>1, <2>2, <2>4 DEF Locations
<1>4. CASE Leave(t)
  <2>1. pc' = [pc EXCEPT ![t] = "idle"] /\ req' = [req EXCEPT ![t] = NoRequest]
    BY <1>4 DEF Leave, Goto
  <2>2. Shaped(t)' /\ FreshSound(t)' /\ SignUpSound(t)' /\ DeleteSound(t)'
    BY <1>4, Leaves, IdleSound
  <2> QED BY <1>2, <2>1, <2>2, NoRequestFacts DEF Locations
<1>5. CASE ~(r.statement = "insert user" /\ r.op # "init") /\ Goto(t, "respond") /\ UNCHANGED req
  <2>1. /\ pc' = [pc EXCEPT ![t] = "respond"] /\ req' = [req EXCEPT ![t] = r]
        /\ pc'[t] = "respond" /\ req'[t] = r
    BY <1>5, Stays, Locals DEF Goto, Locations
  <2>2. r.op = "receipt" => r.statement = "insert subscription"
    <3>1. r.statement # "none" /\ r.statement \in Statements \cup {"none"}
      BY Locals DEF Shaped, Request
    <3> QED BY <1>5, <3>1, Locals DEF Shaped, Statements
  <2>3. Shaped(t)'
    BY <2>1, <2>2, Locals DEF Shaped, Same
  <2>4. FreshSound(t)'
    BY <2>1 DEF FreshSound, Inserts
  <2>5. SignUpSound(t)' /\ DeleteSound(t)'
    BY <2>1, Locals DEF SignUpSound, DeleteSound, Committed, Same, Subscribed, Gone
  <2> QED BY <1>2, <2>1, <2>3, <2>4, <2>5, Locals DEF Locations
<1> QED BY <1>3, <1>4, <1>5 DEF AfterCommit

LEMMA CommitLooked == ASSUME IInv, NEW t \in Threads, LookBeforeCommit(t) PROVE IInv'
<1>1. pc[t] = "commit" /\ UNCHANGED <<db, failures>> /\ Same
  BY Locals DEF LookBeforeCommit, Same, history
<1>2. CASE db.open
  <2>1. Goto(t, "committing") /\ UNCHANGED req
    BY <1>2 DEF LookBeforeCommit
  <2>2. /\ pc'[t] = "committing" /\ req'[t] = req[t]
    BY <2>1, Stays DEF Locations
  <2>3. Shaped(t)'
    BY <1>1, <2>2, Locals DEF Shaped, Same
  <2>4. FreshSound(t)' /\ SignUpSound(t)' /\ DeleteSound(t)'
    BY <1>1, <2>2, Locals DEF FreshSound, Inserts, SignUpSound, DeleteSound, Same, Subscribed
  <2> QED BY <1>1, <2>1, <2>3, <2>4, DbSame, StayKeeps DEF Locations
<1>3. CASE ~db.open
  <2>1. Committed
    BY <1>1, <1>3, Locals DEF Committed, TablesSound, NothingPending
  <2>2. AfterCommit(t)
    BY <1>3 DEF LookBeforeCommit
  <2> QED BY <1>1, <2>1, <2>2, CommitKeeps
<1> QED BY <1>2, <1>3

LEMMA TransactionCommitted == ASSUME IInv, NEW t \in Threads, CommitTransaction(t) PROVE IInv'
<1>1. pc[t] = "committing" /\ UNCHANGED failures /\ Same
  BY Locals DEF CommitTransaction, Same, history
<1>2. CASE db.open
  <2>1. Committed
    <3>1. db' = [view |-> db.view, disk |-> db.view, open |-> FALSE]
      BY <1>2 DEF CommitTransaction, Commit
    <3> QED BY <3>1, Locals DEF Committed
  <2>2. AfterCommit(t)
    BY <1>2 DEF CommitTransaction
  <2> QED BY <1>1, <2>1, <2>2, CommitKeeps
<1>3. CASE ~db.open
  BY <1>1, <1>3, DbSame, LeaveKeeps DEF CommitTransaction
<1> QED BY <1>2, <1>3

-----------------------------------------------------------------------------
(* The answer, and the end of the process.                                 *)
LEMMA Responded == ASSUME IInv, NEW t \in Threads, Respond(t) PROVE IInv'
<1> DEFINE r == req[t]
<1>1. /\ pc[t] = "respond" /\ Leave(t) /\ UNCHANGED <<db, drawn, leaving, failures>>
      /\ holders' = IF r.op = "receipt" THEN holders \cup {r.user} ELSE holders
      /\ deleted' = IF r.op = "delete" THEN deleted \cup {r.user} ELSE deleted
  BY DEF Respond
<1>2. r.op = "receipt" => r.user \in drawn /\ (r.user \notin leaving => Subscribed(db.disk, r.user))
  BY <1>1, Locals DEF Shaped, SignUpSound
<1>3. r.op = "delete" => r.user \in leaving /\ Gone(r.user)
  BY <1>1, Locals DEF Shaped, DeleteSound
<1>4. SameRows
  BY <1>1, DbSame
<1>5. /\ pc' \in [Threads -> Locations] /\ req' \in [Threads -> Request]
      /\ pc'[t] = "idle" /\ req'[t] = NoRequest
      /\ \A s \in Threads \ {t} : pc'[s] = pc[s] /\ req'[s] = req[s]
  BY <1>1, Leaves
<1>6. \A s \in Threads \ {t} :
        Inserts(s) => req[s].user # None /\ req[s].user # r.user /\ req[s].user \notin holders
  <2>1. \A s \in Threads \ {t} : Inserts(s) => req[s].user # None
    BY Locals DEF IInv, Shaped, Inserts
  <2>2. \A s \in Threads \ {t} : Inserts(s) => req[s].user # r.user /\ req[s].user \notin holders
    BY DEF IInv, FreshSound
  <2> QED BY <2>1, <2>2
<1> HIDE DEF r
<1>7. /\ holders \subseteq holders' /\ holders' \subseteq drawn /\ leaving \subseteq holders'
      /\ deleted' \subseteq leaving
  BY <1>1, <1>2, <1>3, Locals
<1>8. TablesSound'
  BY <1>1, <1>4, <1>7, SameTables
<1>9. OneStep(t, {})
  BY <1>1, <1>4, <1>5, <1>6, RowsKeep, Locals, NoRequestFacts DEF OneStep, SameRows
<1>a. TypeOK'
  BY <1>1, <1>5, <1>7, Locals DEF IInv, TypeOK
<1>b. \A s \in Threads : Shaped(s)' /\ FreshSound(s)' /\ SignUpSound(s)' /\ DeleteSound(s)'
  BY <1>5, <1>9, OthersSound, IdleSound
<1>c. Kept'
  BY <1>1, <1>2 DEF IInv, Kept, Subscribed
<1>d. AllGone'
  BY <1>1, <1>3 DEF IInv, AllGone, Gone
<1> QED BY <1>8, <1>a, <1>b, <1>c, <1>d DEF IInv

LEMMA Crashed == ASSUME IInv, Crash PROVE IInv'
<1>1. /\ TypeOK /\ TablesSound /\ Kept /\ AllGone
      /\ db \in [view : Tables, disk : Tables, open : BOOLEAN]
  BY DEF IInv, TypeOK
<1>2. /\ db' = [view |-> db.disk, disk |-> db.disk, open |-> FALSE]
      /\ pc' = [t \in Threads |-> "idle"] /\ req' = [t \in Threads |-> NoRequest]
      /\ UNCHANGED <<drawn, holders, leaving, deleted>> /\ failures' \in 0..MaxFailures
  BY <1>1, BoundAssumption DEF Crash, Reconnect, Connect, history, TypeOK
<1>3. /\ db'.view = db.disk /\ db'.disk = db.disk /\ db'.open = FALSE
      /\ db' \in [view : Tables, disk : Tables, open : BOOLEAN]
  BY <1>1, <1>2
<1>4. TypeOK'
  BY <1>1, <1>2, <1>3, NoRequestFacts DEF TypeOK, Locations
<1>5. TablesSound'
  BY <1>1, <1>2, <1>3 DEF TablesSound, Sound, NothingPending
<1>6. \A t \in Threads : Shaped(t)' /\ FreshSound(t)' /\ SignUpSound(t)' /\ DeleteSound(t)'
  BY <1>2, IdleSound
<1>7. Kept' /\ AllGone'
  BY <1>1, <1>2, <1>3 DEF Kept, AllGone, Gone, Subscribed
<1> QED BY <1>4, <1>5, <1>6, <1>7 DEF IInv

-----------------------------------------------------------------------------
(* What the statement makes of the rows in view.                           *)
LEMMA TablesWritten ==
  ASSUME IInv, NEW t \in Threads, pc[t] = "write", ConstraintsHold(req[t]),
         NEW new, new = Written(req[t], db.view)
  PROVE  /\ new \in Tables /\ Sound(new)
         /\ \A u \in Users : new.users[u] # db.view.users[u] =>
              \/ Inserts(t) /\ u = req[t].user
              \/ new.users[u] = None /\ u \in leaving
         /\ \A u \in db.view.subscriptions : new.users[u] # None => u \in new.subscriptions
         /\ req[t].statement = "insert subscription" => Subscribed(new, req[t].user)
         /\ req[t].op = "delete" => new.users[req[t].user] = None
<1> DEFINE r == req[t]
           old == db.view
<1>1. /\ Shaped(t) /\ FreshSound(t) /\ old \in Tables /\ Sound(old) /\ r \in Request
      /\ None \notin Users /\ None \notin Devices /\ drawn \subseteq Users /\ leaving \subseteq Users
  BY Locals DEF TablesSound
<1>2. r.statement \in Statements
  BY <1>1 DEF Shaped, Request
<1>o. /\ old.users \in [Users -> Devices \cup {None}] /\ old.subscriptions \subseteq Users
      /\ old = [users |-> old.users, subscriptions |-> old.subscriptions]
  BY <1>1 DEF Tables
<1>3. CASE r.statement = "insert user"
  <2>1. /\ r.user \in Users /\ r.device \in Devices /\ r.op # "delete"
        /\ Inserts(t) /\ old.users[r.user] = None
        /\ \A u \in Users : old.users[u] # r.device
    <3>1. r.user \in Users /\ r.device \in Devices /\ r.op # "delete" /\ Inserts(t)
      BY <1>1, <1>3 DEF Shaped, SignUps, Inserts
    <3>2. old.users[r.user] = None
      BY <1>1, <3>1 DEF FreshSound, Gone
    <3>3. \A u \in Users : old.users[u] # r.device
      BY <1>3 DEF ConstraintsHold, ofDevice
    <3> QED BY <3>1, <3>2, <3>3
  <2>2. new = [old EXCEPT !.users[r.user] = r.device]
    BY <1>3 DEF Written
  <2>3. new.users = [old.users EXCEPT ![r.user] = r.device] /\ new.subscriptions = old.subscriptions
        /\ new \in Tables
    BY <1>o, <2>1, <2>2 DEF Tables
  <2> HIDE DEF r, old
  <2>4. /\ new.users[r.user] = r.device
        /\ \A u \in Users \ {r.user} : new.users[u] = old.users[u]
    BY <1>o, <2>1, <2>3
  <2>5. Sound(new)
    BY <1>1, <1>o, <2>1, <2>3, <2>4 DEF Sound
  <2> QED BY <1>3, <1>o, <2>1, <2>3, <2>4, <2>5 DEF r, old
<1>4. CASE r.statement = "insert subscription"
  <2>1. r.user \in Users /\ r.op # "delete" /\ old.users[r.user] # None
    BY <1>1, <1>4 DEF Shaped, ConstraintsHold, known
  <2>2. new = [old EXCEPT !.subscriptions = @ \cup {r.user}]
    BY <1>4 DEF Written
  <2>3. new.users = old.users /\ new.subscriptions = old.subscriptions \cup {r.user} /\ new \in Tables
    BY <1>o, <2>1, <2>2 DEF Tables
  <2>4. Sound(new)
    BY <1>1, <2>1, <2>3 DEF Sound
  <2> QED BY <1>4, <2>1, <2>3, <2>4 DEF Subscribed
<1>5. CASE r.statement = "delete user"
  <2>1. r.user \in leaving /\ r.user \in Users
    BY <1>1, <1>5 DEF Shaped
  <2>2. new = [old EXCEPT !.users[r.user] = None, !.subscriptions = @ \ {r.user}]
    BY <1>5 DEF Written
  <2>3. /\ new.users = [old.users EXCEPT ![r.user] = None]
        /\ new.subscriptions = old.subscriptions \ {r.user} /\ new \in Tables
    <3> DEFINE rest == old.subscriptions \ {r.user}
               users == [old.users EXCEPT ![r.user] = None]
    <3>1. rest \subseteq Users /\ users \in [Users -> Devices \cup {None}]
      BY <1>o, <2>1
    <3>2. new = [[old EXCEPT !.users = users] EXCEPT !.subscriptions = rest]
      BY <1>o, <2>2
    <3> HIDE DEF rest, users
    <3>3. new.users = users /\ new.subscriptions = rest /\ new \in Tables
      BY <1>o, <3>1, <3>2 DEF Tables
    <3> QED BY <3>3 DEF rest, users
  <2> HIDE DEF r, old
  <2>4. /\ new.users[r.user] = None
        /\ \A u \in Users \ {r.user} : new.users[u] = old.users[u]
    BY <1>o, <2>1, <2>3
  <2>5. Sound(new)
    BY <1>1, <1>o, <2>3, <2>4 DEF Sound
  <2> QED BY <1>5, <1>o, <2>1, <2>3, <2>4, <2>5 DEF r, old
<1>6. CASE r.statement = "other"
  <2>1. new = old /\ r.op # "delete"
    BY <1>1, <1>6 DEF Written, Shaped
  <2> QED BY <1>1, <1>6, <2>1
<1> QED BY <1>2, <1>3, <1>4, <1>5, <1>6 DEF Statements

LEMMA StatementWritten == ASSUME IInv, NEW t \in Threads, WriteStatement(t) PROVE IInv'
<1> DEFINE r == req[t]
           new == Written(r, db.view)
           X == IF Inserts(t) THEN {r.user} ELSE {}
<1>1. /\ pc[t] = "write" /\ ConstraintsHold(r) /\ Goto(t, "commit") /\ Same /\ UNCHANGED failures
      /\ db' = [view |-> new, disk |-> IF db.open THEN db.disk ELSE new, open |-> db.open]
  BY Locals DEF WriteStatement, Execute, Same, history
<1>2. /\ new \in Tables /\ Sound(new)
      /\ \A u \in Users : new.users[u] # db.view.users[u] =>
           \/ Inserts(t) /\ u = r.user
           \/ new.users[u] = None /\ u \in leaving
      /\ \A u \in db.view.subscriptions : new.users[u] # None => u \in new.subscriptions
      /\ r.statement = "insert subscription" => Subscribed(new, r.user)
      /\ r.op = "delete" => new.users[r.user] = None
  BY <1>1, TablesWritten
<1> DEFINE next == [r EXCEPT !.rowcount = IF r.op = "delete" /\ known(r.user) THEN 1 ELSE 0]
<1>3. /\ next \in Request /\ next.op = r.op /\ next.device = r.device /\ next.user = r.user
      /\ next.statement = r.statement
  BY Locals DEF Request
<1>4. pc' = [pc EXCEPT ![t] = "commit"] /\ req' = [req EXCEPT ![t] = next]
  BY <1>1 DEF WriteStatement, Goto
<1> HIDE DEF next
<1>5. /\ pc' \in [Threads -> Locations] /\ req' \in [Threads -> Request]
      /\ pc'[t] = "commit" /\ req'[t] = next
      /\ \A s \in Threads \ {t} : pc'[s] = pc[s] /\ req'[s] = req[s]
  BY <1>3, <1>4, Moves DEF Locations
<1> HIDE DEF new
<1>6. /\ db'.view = new /\ db'.open = db.open
      /\ db'.disk = IF db.open THEN db.disk ELSE new
      /\ ~db.open => db.view = db.disk
      /\ db' \in [view : Tables, disk : Tables, open : BOOLEAN]
  BY <1>1, <1>2, Locals DEF TablesSound, NothingPending
<1>7. \A u \in X : u \notin holders /\ Gone(u) /\ u \in drawn /\ \A s \in Threads \ {t} : req[s].user # u
  BY Locals DEF FreshSound, Shaped, Inserts
<1>8. TablesSound'
  <2>1. /\ Sound(db'.view) /\ Sound(db'.disk) /\ NothingPending(db')
    BY <1>2, <1>6, Locals DEF TablesSound, NothingPending
  <2>2. ASSUME NEW u \in Users, db'.disk.users[u] # None
        PROVE  \/ /\ db'.view.users[u] = db'.disk.users[u]
                  /\ u \in db'.disk.subscriptions => u \in db'.view.subscriptions
               \/ db'.view.users[u] = None /\ u \in leaving
    <3>1. CASE db.open
      <4>1. db'.disk = db.disk /\ db'.view = new
        BY <1>6, <3>1
      <4>2. \/ /\ db.view.users[u] = db.disk.users[u]
               /\ u \in db.disk.subscriptions => u \in db.view.subscriptions
            \/ db.view.users[u] = None /\ u \in leaving
        BY <2>2, <4>1, Locals DEF TablesSound
      <4>3. u \notin X
        BY <1>7, <2>2, <4>1 DEF Gone
      <4>4. new.users[u] = db.view.users[u] \/ (new.users[u] = None /\ u \in leaving)
        BY <1>2, <4>3
      <4> QED BY <1>2, <2>2, <4>1, <4>2, <4>4
    <3>2. CASE ~db.open
      BY <1>6, <3>2
    <3> QED BY <3>1, <3>2
  <2>3. ASSUME NEW u \in Users, db'.view.users[u] # None \/ db'.disk.users[u] # None
        PROVE  u \in drawn
    <3>1. CASE u \in X
      BY <1>7, <3>1
    <3>2. CASE u \notin X
      <4>1. db.view.users[u] # None \/ db.disk.users[u] # None
        BY <1>2, <1>6, <2>3, <3>2
      <4> QED BY <4>1, Locals DEF TablesSound
    <3> QED BY <3>1, <3>2
  <2> QED BY <1>1, <2>1, <2>2, <2>3, Locals DEF TablesSound, Same
<1>9. Onward(X)
  <2>1. ASSUME NEW u \in Users \ X
        PROVE  /\ db.view.users[u] = None => db'.view.users[u] = None
               /\ Gone(u) => Gone(u)'
    BY <1>2, <1>6 DEF Gone
  <2>2. ASSUME NEW u \in Users \ leaving
        PROVE  /\ Subscribed(db.view, u) => Subscribed(db'.view, u)
               /\ Subscribed(db.disk, u) => Subscribed(db'.disk, u)
    <3>1. u \in X => db.view.users[u] = None
      BY <1>7 DEF Gone
    <3>2. Subscribed(db.view, u) => Subscribed(new, u)
      BY <1>2, <3>1 DEF Subscribed
    <3> QED BY <1>6, <3>2
  <2> QED BY <2>1, <2>2 DEF Onward
<1>a. OneStep(t, X)
  <2>1. \A s \in Threads \ {t} : Inserts(s) => r.user # req[s].user /\ req[s].user \notin holders
    BY DEF IInv, FreshSound
  <2> HIDE DEF r, X
  <2> QED BY <1>1, <1>3, <1>5, <1>6, <1>7, <1>9, <2>1, Locals DEF OneStep, Same
<1>b. Shaped(t)'
  <2>1. Shaped(t)
    BY Locals
  <2> QED BY <1>1, <1>3, <1>5, <2>1 DEF Shaped, Same
<1>c. FreshSound(t)' /\ SignUpSound(t)' /\ DeleteSound(t)'
  BY <1>1, <1>2, <1>3, <1>5, <1>6 DEF FreshSound, Inserts, SignUpSound, DeleteSound, Same
<1> QED BY <1>1, <1>8, <1>a, <1>b, <1>c, StepKeeps DEF Same

-----------------------------------------------------------------------------
LEMMA Keeps == IInv /\ [Next]_vars => IInv'
<1> SUFFICES ASSUME IInv, [Next]_vars PROVE IInv'
  OBVIOUS
<1>1. ASSUME NEW t \in Threads, ThreadStep(t) PROVE IInv'
  BY <1>1, SignUpStarts, DeleteStarts, OtherStarts, UserSelected, Authorized, TransactionLooked,
     TransactionBegun, StatementWritten, ConstraintViolated, CommitLooked, TransactionCommitted,
     Responded, RequestAbandoned DEF ThreadStep
<1>2. CASE Crash
  BY <1>2, Crashed
<1>3. CASE UNCHANGED vars
  <2>1. UNCHANGED <<db, pc, req, drawn, holders, leaving, deleted, failures>>
    BY <1>3 DEF vars, history
  <2>2. TypeOK' /\ TablesSound'
    BY <2>1 DEF IInv, TypeOK, TablesSound, Sound, NothingPending
  <2>3. ASSUME NEW t \in Threads
        PROVE  Shaped(t)' /\ FreshSound(t)' /\ SignUpSound(t)' /\ DeleteSound(t)'
    <3>1. Shaped(t)'
      BY <2>1, Locals DEF Shaped
    <3>2. FreshSound(t)' /\ SignUpSound(t)' /\ DeleteSound(t)'
      BY <2>1, Locals DEF FreshSound, Inserts, SignUpSound, DeleteSound, Gone, Subscribed
    <3> QED BY <3>1, <3>2
  <2>4. Kept' /\ AllGone'
    BY <2>1 DEF IInv, Kept, AllGone, Gone, Subscribed
  <2> QED BY <2>2, <2>3, <2>4 DEF IInv
<1> QED BY <1>1, <1>2, <1>3 DEF Next

LEMMA Always == Spec => []IInv
  BY Start, Keeps, PTL DEF Spec

(* Every variable of the accounts has its type. *)
THEOREM TypeCorrect == Spec => []TypeOK
<1>1. IInv => TypeOK
  BY DEF IInv
<1> QED BY <1>1, Always, PTL

(* auth_receipt: whoever got a token has an account and a subscription     *)
(* that survive a restart, until asking for the deletion.                  *)
THEOREM HoldersAreKept == Spec => []HoldersKeepAccount
<1>1. IInv => HoldersKeepAccount
  BY DEF IInv, Kept, Subscribed, HoldersKeepAccount
<1> QED BY <1>1, Always, PTL

(* delete_me: an answered deletion is final, in view and on disk.          *)
THEOREM DeletionsAreFinal == Spec => []DeletedIsGone
<1>1. ASSUME IInv PROVE DeletedIsGone
  <2>1. ASSUME NEW u \in deleted, NEW tables \in {db.view, db.disk}
        PROVE  tables.users[u] = None /\ u \notin tables.subscriptions
    <3>1. Gone(u) /\ Sound(tables)
      BY <1>1 DEF IInv, AllGone, TablesSound
    <3>2. tables.users[u] = None
      BY <3>1 DEF Gone
    <3> QED BY <3>1, <3>2 DEF Sound
  <2> QED BY <2>1 DEF DeletedIsGone
<1> QED BY <1>1, Always, PTL

-----------------------------------------------------------------------------
(* The refinement: what becomes durable was in view, and the view is ahead *)
(* of the file by new accounts and by those whose holders leave.           *)
Moved == /\ UNCHANGED leaving
         /\ \A u \in Users : db.disk.users[u] # None =>
              \/ /\ db'.disk.users[u] = db.disk.users[u]
                 /\ u \in db.disk.subscriptions => u \in db'.disk.subscriptions
              \/ db'.disk.users[u] = None /\ u \in leaving

LEMMA Changes ==
  ASSUME IInv, TypeOK', TablesSound', Moved
  PROVE  Registry!Change
<1>1. /\ db.disk \in Tables /\ db'.disk \in Tables /\ Sound(db'.disk)
  BY DEF IInv, TypeOK, TablesSound
<1>2. db'.disk.users \in [Users -> Devices \cup {None}] /\ db'.disk.subscriptions \subseteq Users
  BY <1>1 DEF Tables
<1>3. \A u \in Users : \/ db'.disk.users[u] = db.disk.users[u]
                       \/ db.disk.users[u] = None
                       \/ db'.disk.users[u] = None /\ u \in leaving
  BY DEF Moved
<1>4. \A u, v \in Registry!Exists(db'.disk.users) : db'.disk.users[u] = db'.disk.users[v] => u = v
  BY <1>1 DEF Sound, Registry!Exists
<1>5. db'.disk.subscriptions \subseteq Registry!Exists(db'.disk.users)
  BY <1>1, <1>2 DEF Sound, Registry!Exists
<1>6. db.disk.subscriptions \cap Registry!Exists(db'.disk.users) \subseteq db'.disk.subscriptions
  <2>1. Sound(db.disk)
    BY DEF IInv, TablesSound
  <2> QED BY <2>1 DEF Moved, Sound, Registry!Exists
<1> QED BY <1>2, <1>3, <1>4, <1>5, <1>6 DEF Registry!Change, Moved

LEMMA DiskMoves ==
  ASSUME IInv, NEW t \in Threads, CommitTransaction(t) \/ WriteStatement(t)
  PROVE  Moved
<1>1. CASE CommitTransaction(t)
  <2>1. UNCHANGED leaving /\ (db'.disk = db.view \/ db' = db)
    BY <1>1 DEF CommitTransaction, Commit, history
  <2> QED BY <2>1, Locals DEF Moved, TablesSound
<1>2. CASE WriteStatement(t)
  <2> DEFINE new == Written(req[t], db.view)
  <2>1. /\ pc[t] = "write" /\ ConstraintsHold(req[t]) /\ UNCHANGED leaving
        /\ db'.disk = IF db.open THEN db.disk ELSE new
        /\ ~db.open => db.view = db.disk
    BY <1>2, Locals DEF WriteStatement, Execute, history, TablesSound, NothingPending
  <2>2. /\ \A u \in Users : new.users[u] # db.view.users[u] =>
             \/ Inserts(t) /\ u = req[t].user
             \/ new.users[u] = None /\ u \in leaving
        /\ \A u \in db.view.subscriptions : new.users[u] # None => u \in new.subscriptions
    BY <2>1, TablesWritten
  <2>3. Inserts(t) => db.disk.users[req[t].user] = None
    BY Locals DEF FreshSound, Gone
  <2> HIDE DEF new
  <2> QED BY <2>1, <2>2, <2>3 DEF Moved
<1> QED BY <1>1, <1>2

LEMMA RegistryInit == Init => Registry!Init
<1> SUFFICES ASSUME Init PROVE Registry!Init
  OBVIOUS
<1>1. db.disk = [users |-> [u \in Users |-> None], subscriptions |-> {}]
  BY DEF Init, Connect
<1> QED BY <1>1 DEF Init, Registry!Init

LEMMA RegistrySteps ==
  ASSUME IInv, TypeOK', TablesSound', [Next]_vars
  PROVE  [Registry!Next]_<<db.disk.users, db.disk.subscriptions, leaving>>
<1>1. CASE UNCHANGED <<db.disk, leaving>>
  BY <1>1
<1>2. CASE Moved
  BY <1>2, Changes DEF Registry!Next
<1>3. ASSUME NEW t \in Threads, ThreadStep(t)
      PROVE  [Registry!Next]_<<db.disk.users, db.disk.subscriptions, leaving>>
  <2>1. CASE StartDelete(t)
    <3>1. PICK u \in holders : leaving' = leaving \cup {u}
      BY <2>1 DEF StartDelete
    <3>2. UNCHANGED db.disk
      BY <2>1 DEF StartDelete
    <3>3. CASE u \in leaving
      BY <1>1, <3>1, <3>2, <3>3
    <3>4. CASE u \notin leaving
      <4>1. u \in Registry!Exists(db.disk.users)
        BY <3>4, Locals DEF IInv, Kept, Subscribed, Registry!Exists
      <4> QED BY <3>1, <3>2, <4>1 DEF Registry!Next, Registry!AskToLeave
    <3> QED BY <3>3, <3>4
  <2>2. CASE CommitTransaction(t) \/ WriteStatement(t)
    BY <1>2, <2>2, DiskMoves
  <2>3. CASE BeginTransaction(t)
    <3>1. UNCHANGED <<db.disk, leaving>>
      BY <2>3, Locals DEF BeginTransaction, Begin, history
    <3> QED BY <1>1, <3>1
  <2>4. CASE \/ StartSignUp(t) \/ StartOther(t) \/ SelectUser(t) \/ Authorize(t)
             \/ LookAtTransaction(t) \/ ViolateConstraint(t) \/ LookBeforeCommit(t)
             \/ Respond(t) \/ AbandonRequest(t)
    <3>1. UNCHANGED <<db, leaving>>
      BY <2>4 DEF StartSignUp, StartOther, SelectUser, Authorize, LookAtTransaction,
                  ViolateConstraint, LookBeforeCommit, Respond, AbandonRequest, history
    <3> QED BY <1>1, <3>1
  <2> QED BY <1>3, <2>1, <2>2, <2>3, <2>4 DEF ThreadStep
<1>4. CASE Crash
  <2>1. UNCHANGED <<db.disk, leaving>>
    BY <1>4 DEF Crash, Reconnect, Connect, history
  <2> QED BY <1>1, <2>1
<1>5. CASE UNCHANGED vars
  BY <1>1, <1>5 DEF vars, history
<1> QED BY <1>3, <1>4, <1>5 DEF Next

(* The rows on disk promise what the abstract registry says, although      *)
(* threads, shared transactions and crashes come between.                  *)
THEOREM Refinement == Spec => ImplementsRegistry
<1>1. IInv => TypeOK /\ TablesSound
  BY DEF IInv
<1>2. IInv /\ TypeOK' /\ TablesSound' /\ [Next]_vars =>
        [Registry!Next]_<<db.disk.users, db.disk.subscriptions, leaving>>
  BY RegistrySteps
<1> QED BY <1>1, <1>2, RegistryInit, Always, PTL DEF Spec, ImplementsRegistry, Registry!Spec
=============================================================================
