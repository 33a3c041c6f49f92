------------------------------ MODULE Accounts ------------------------------
(***************************************************************************)
(* The accounts of the mobile app: sign-up of a device, receipts, webhooks *)
(* of payments for a device, deletion (auth_init, auth_receipt,            *)
(* yookassa_webhook, delete_me), each on a thread of its own over the      *)
(* shared SQLite connection (SharedConnection).  Requests that only read   *)
(* (me, config, nodes, export) change nothing and are left out.            *)
(***************************************************************************)
EXTENDS Naturals, SharedConnection

CONSTANTS
  Devices,     \* device ids
  Users,       \* user ids: new_id("usr") never repeats
  Threads,     \* concurrent HTTP requests
  None,        \* NULL
  MaxFailures  \* bound: crashes, failing calls, answers that are lost

ASSUME NoneAssumption == None \notin Devices \cup Users
ASSUME BoundAssumption == MaxFailures \in Nat

VARIABLES
  db,        \* the shared connection
  pc,        \* where each request thread stands
  req,       \* what each request thread holds in local variables
  drawn,     \* ids that new_id has returned
  holders,   \* accounts whose bearer token a client has received
  leaving,   \* accounts whose holder has sent DELETE /api/me
  deleted,   \* history: accounts whose deletion was answered with 200
  failures   \* counter under the bound

history == <<drawn, holders, leaving, deleted>>
vars == <<db, pc, req, history, failures>>

-----------------------------------------------------------------------------
(* users by id, the device of each; subscriptions by user_id.              *)
Tables == [users : [Users -> Devices \cup {None}], subscriptions : SUBSET Users]

Operations == {"init", "receipt", "webhook", "delete", "other"}
Statements == {"insert user", "insert subscription", "delete user", "other"}
Request == [op : Operations \cup {"none"}, device : Devices \cup {None},
            user : Users \cup {None}, statement : Statements \cup {"none"},
            rowcount : {0, 1}]
NoRequest == [op |-> "none", device |-> None, user |-> None,
              statement |-> "none", rowcount |-> 0]
Locations == {"idle", "select", "authorize", "execute", "begin", "write",
              "commit", "committing", "respond"}

known(u) == db.view.users[u] # None
ofDevice(tables, d) == {u \in Users : tables.users[u] = d}

Goto(t, location) == pc' = [pc EXCEPT ![t] = location]
Leave(t) == Goto(t, "idle") /\ req' = [req EXCEPT ![t] = NoRequest]
Accept(t, location, request) == /\ pc[t] = "idle"
                                /\ Goto(t, location)
                                /\ req' = [req EXCEPT ![t] = request]
Execution(t, r) == Goto(t, "execute") /\ req' = [req EXCEPT ![t] = r]

-----------------------------------------------------------------------------
(* POST auth/init; auth/receipt with a receipt the verifier accepts; the   *)
(* webhook of a payment that has succeeded.                                *)
StartSignUp(t) ==
  /\ \E op \in {"init", "receipt", "webhook"}, d \in Devices :
       Accept(t, "select", [NoRequest EXCEPT !.op = op, !.device = d])
  /\ UNCHANGED <<db, history, failures>>

(* DELETE /api/me with a token whose signature and expiry are good.        *)
StartDelete(t) ==
  /\ \E u \in holders :
       /\ Accept(t, "authorize", [NoRequest EXCEPT !.op = "delete", !.user = u])
       /\ leaving' = leaving \cup {u}
  /\ UNCHANGED <<db, drawn, holders, deleted, failures>>

(* Any other handler that writes on the same connection.                   *)
StartOther(t) ==
  /\ Accept(t, "execute", [NoRequest EXCEPT !.op = "other", !.statement = "other"])
  /\ UNCHANGED <<db, history, failures>>

(* get_or_create_user: the user the device has, or a new id to insert.     *)
(* (When no id is left, a bound of the model, the request ends.)           *)
FoundUser(t, u) ==
  /\ IF req[t].op = "init"
     THEN Goto(t, "respond") /\ req' = [req EXCEPT ![t].user = u]
     ELSE Execution(t, [req[t] EXCEPT !.user = u, !.statement = "insert subscription"])
  /\ UNCHANGED drawn
NewUser(t, u) ==
  /\ u \notin drawn
  /\ drawn' = drawn \cup {u}
  /\ Execution(t, [req[t] EXCEPT !.user = u, !.statement = "insert user"])

SelectUser(t) ==
  LET found == ofDevice(db.view, req[t].device)
  IN  /\ pc[t] = "select"
      /\ \/ \E u \in found : FoundUser(t, u)
         \/ found = {} /\ \E u \in Users : NewUser(t, u)
         \/ found = {} /\ Users = drawn /\ Leave(t) /\ UNCHANGED drawn
      /\ UNCHANGED <<db, holders, leaving, deleted, failures>>

(* user_id_from_authorization: 401 when the user is gone.                  *)
Authorize(t) ==
  /\ pc[t] = "authorize"
  /\ IF known(req[t].user)
     THEN Execution(t, [req[t] EXCEPT !.statement = "delete user"])
     ELSE Leave(t)
  /\ UNCHANGED <<db, history, failures>>

-----------------------------------------------------------------------------
(* One data-changing statement and its commit().                           *)
LookAtTransaction(t) ==
  /\ pc[t] = "execute"
  /\ Goto(t, IF db.open THEN "write" ELSE "begin")
  /\ UNCHANGED <<db, req, history, failures>>

BeginTransaction(t) ==
  /\ pc[t] = "begin"
  /\ IF db.open THEN Leave(t) /\ UNCHANGED db
                ELSE Goto(t, "write") /\ db' = Begin(db) /\ UNCHANGED req
  /\ UNCHANGED <<history, failures>>

(* users.device_id is unique, subscriptions.user_id refers to users with   *)
(* PRAGMA foreign_keys on.  (Variants: without the pragma, the constraint.)*)
WithoutForeignKeys(r) ==
  r.statement = "insert user" => ofDevice(db.view, r.device) = {}
WithoutUnique(r) ==
  r.statement = "insert subscription" => known(r.user)
ConstraintsHold(r) ==
  /\ r.statement = "insert user" => ofDevice(db.view, r.device) = {}
  /\ r.statement = "insert subscription" => known(r.user)

(* The tables after the statement; a deleted user takes the subscription   *)
(* along (ON DELETE CASCADE).  (Variant: it does not.)                     *)
WrittenWithoutCascade(r, tables) ==
  CASE r.statement = "insert user" -> [tables EXCEPT !.users[r.user] = r.device]
    [] r.statement = "insert subscription" -> [tables EXCEPT !.subscriptions = @ \cup {r.user}]
    [] r.statement = "delete user" -> [tables EXCEPT !.users[r.user] = None]
    [] OTHER -> tables
Written(r, tables) ==
  CASE r.statement = "insert user" -> [tables EXCEPT !.users[r.user] = r.device]
    [] r.statement = "insert subscription" -> [tables EXCEPT !.subscriptions = @ \cup {r.user}]
    [] r.statement = "delete user" -> [tables EXCEPT !.users[r.user] = None,
                                                     !.subscriptions = @ \ {r.user}]
    [] OTHER -> tables

WriteStatement(t) ==
  /\ pc[t] = "write" /\ ConstraintsHold(req[t])
  /\ db' = Execute(db, Written(req[t], db.view))
  /\ req' = [req EXCEPT ![t].rowcount =
               IF req[t].op = "delete" /\ known(req[t].user) THEN 1 ELSE 0]
  /\ Goto(t, "commit")
  /\ UNCHANGED <<history, failures>>

(* IntegrityError, of this statement or of another handler's: the request  *)
(* ends with the transaction as it is and no answer.                       *)
ViolateConstraint(t) ==
  /\ pc[t] = "write" /\ (req[t].op = "other" \/ ~ConstraintsHold(req[t]))
  /\ Leave(t)
  /\ UNCHANGED <<db, history, failures>>

(* What each handler does after its commit(): a paid device goes on to its *)
(* subscription; a deletion that found no row is a 401.                    *)
AfterCommit(t) ==
  CASE req[t].statement = "insert user" /\ req[t].op # "init" ->
         Execution(t, [req[t] EXCEPT !.statement = "insert subscription"])
    [] req[t].op = "delete" /\ req[t].rowcount = 0 -> Leave(t)
    [] OTHER -> Goto(t, "respond") /\ UNCHANGED req

(* (Variant: the transaction of requests under way is left to them.)       *)
CommitUnlessShared(t) ==
  /\ pc[t] = "commit"
  /\ IF db.open /\ \A u \in Threads \ {t} : pc[u] = "idle"
     THEN Goto(t, "committing") /\ UNCHANGED req
     ELSE AfterCommit(t)
  /\ UNCHANGED <<db, history, failures>>
LookBeforeCommit(t) ==
  /\ pc[t] = "commit"
  /\ IF db.open THEN Goto(t, "committing") /\ UNCHANGED req ELSE AfterCommit(t)
  /\ UNCHANGED <<db, history, failures>>

CommitTransaction(t) ==
  /\ pc[t] = "committing"
  /\ IF db.open THEN db' = Commit(db) /\ AfterCommit(t) ELSE Leave(t) /\ UNCHANGED db
  /\ UNCHANGED <<history, failures>>

(* 200.  A receipt is answered with a bearer token for its user.           *)
Respond(t) ==
  LET r == req[t]
  IN  /\ pc[t] = "respond"
      /\ Leave(t)
      /\ holders' = IF r.op = "receipt" THEN holders \cup {r.user} ELSE holders
      /\ deleted' = IF r.op = "delete" THEN deleted \cup {r.user} ELSE deleted
      /\ UNCHANGED <<db, drawn, leaving, failures>>

-----------------------------------------------------------------------------
(* A statement meets a locked file, or the client is gone.                 *)
AbandonRequest(t) ==
  /\ pc[t] \in {"write", "committing", "respond"}
  /\ failures < MaxFailures
  /\ failures' = failures + 1
  /\ Leave(t)
  /\ UNCHANGED <<db, history>>

Crash ==
  /\ failures < MaxFailures
  /\ failures' = failures + 1
  /\ db' = Reconnect(db)
  /\ pc' = [t \in Threads |-> "idle"]
  /\ req' = [t \in Threads |-> NoRequest]
  /\ UNCHANGED history

Init ==
  /\ db = Connect([users |-> [u \in Users |-> None], subscriptions |-> {}])
  /\ pc = [t \in Threads |-> "idle"]
  /\ req = [t \in Threads |-> NoRequest]
  /\ drawn = {} /\ holders = {} /\ leaving = {} /\ deleted = {}
  /\ failures = 0

ThreadStep(t) ==
  \/ StartSignUp(t) \/ StartDelete(t) \/ StartOther(t)
  \/ SelectUser(t) \/ Authorize(t)
  \/ LookAtTransaction(t) \/ BeginTransaction(t) \/ WriteStatement(t)
  \/ ViolateConstraint(t) \/ LookBeforeCommit(t) \/ CommitTransaction(t)
  \/ Respond(t) \/ AbandonRequest(t)

Next == Crash \/ \E t \in Threads : ThreadStep(t)

Spec == Init /\ [][Next]_vars

-----------------------------------------------------------------------------
(* Every variable has its type; the counter stays under its bound.         *)
TypeOK ==
  /\ db \in [view : Tables, disk : Tables, open : BOOLEAN]
  /\ pc \in [Threads -> Locations]
  /\ req \in [Threads -> Request]
  /\ drawn \subseteq Users /\ holders \subseteq Users
  /\ leaving \subseteq Users /\ deleted \subseteq Users
  /\ failures \in 0..MaxFailures

(* Who holds a bearer token has an account and a subscription that survive *)
(* a restart, until the holder asks for the deletion: whichever request's  *)
(* COMMIT it was that wrote them.                                          *)
HoldersKeepAccount ==
  \A u \in holders \ leaving : /\ db.disk.users[u] # None
                               /\ u \in db.disk.subscriptions

(* After 200 {"deleted": true} nothing of the account is on disk or in     *)
(* view, and no receipt under way brings any of it back.                   *)
DeletedIsGone ==
  \A u \in deleted : \A tables \in {db.view, db.disk} :
    tables.users[u] = None /\ u \notin tables.subscriptions

(* The durable rows behave like AccountRegistry.                           *)
Registry == INSTANCE AccountRegistry WITH
              device <- db.disk.users, subscribed <- db.disk.subscriptions
ImplementsRegistry == Registry!Spec
=============================================================================
