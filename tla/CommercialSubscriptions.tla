----------------------- MODULE CommercialSubscriptions -----------------------
(***************************************************************************)
(* Selling a subscription link: checkout, the YooKassa webhook, manual     *)
(* activation by an administrator.                                         *)
(*                                                                         *)
(* Every HTTP request runs on a thread of its own and every thread uses    *)
(* the same SQLite connection (SharedConnection), so a handler is split at *)
(* each call that leaves the thread: each SQL statement, each look at the  *)
(* connection's transaction state, each call to YooKassa, the response.    *)
(* The process may be killed and restarted between any two of them.        *)
(*                                                                         *)
(* The in-memory repository keeps the rows in dictionaries instead: an     *)
(* assignment is there for every thread at once and nothing is begun or    *)
(* committed, as on a connection where no transaction is ever open.  Its   *)
(* tables end with the process, and so do the behaviours.                  *)
(***************************************************************************)
EXTENDS Naturals, SharedConnection

CONSTANTS
  Tokens,         \* subscription tokens, secrets that only their customers can send
  Devices,        \* all other strings that clients send as device ids
  Payments,       \* ids YooKassa gives to payments
  Threads,        \* concurrent HTTP requests
  Durations,      \* the lengths of the tariffs and of manual activations, in days
  CheckoutMode,   \* VPN_ROUTER_CHECKOUT_MODE
  Repository,     \* VPN_ROUTER_REPOSITORY
  None,           \* SQL's NULL, Python's None
  MaxTime,        \* bound: the clock stops here
  MaxDeliveries,  \* bound: webhook deliveries of one payment that can change state
  MaxAdmin,       \* bound: manual activations
  MaxClient,      \* bound: receipts and deletions
  MaxFailures     \* bound: crashes, lost responses, YooKassa and lock errors

ASSUME DurationsAssumption == Durations \subseteq Nat \ {0}
ASSUME ModeAssumption == CheckoutMode \in {"mock", "crypto_manual", "yookassa"}
ASSUME RepositoryAssumption == Repository \in {"sqlite", "memory"}
ASSUME NoneAssumption == None \notin Tokens \cup Devices \cup Payments
ASSUME TargetAssumption == Tokens \cap Devices = {}
ASSUME BoundsAssumption == {MaxTime, MaxDeliveries, MaxAdmin, MaxClient, MaxFailures} \subseteq Nat

VARIABLES
  db,             \* the shared connection
  now,            \* the wall clock, in days
  payments,       \* YooKassa's side of each payment
  pc,             \* where each request thread stands
  req,            \* what each request thread holds in local variables
  drawn,          \* tokens new_subscription_token() has returned
  issued,         \* tokens a customer has received in a checkout response
  asked,          \* tokens an administrator has asked to activate
  claimed,        \* history: tokens sent with a receipt, as if they were device ids
  forgotten,      \* history: device ids whose account was asked to be deleted
  granted,        \* history: days whose activation was answered with 200
  vouched,        \* history: tokens whose manual activation was answered with 200
  acked,          \* payments whose webhook was answered with 200 "activated"
  deliveries, adminRequests, clientRequests, failures  \* counters under the bounds

external == <<now, payments>>
history == <<drawn, issued, asked, claimed, forgotten, granted, vouched, acked>>
counters == <<deliveries, adminRequests, clientRequests, failures>>
vars == <<db, external, pc, req, history, counters>>

-----------------------------------------------------------------------------
(* The rows and the requests.                                              *)

Absent == [status |-> "absent", expires |-> 0, payment |-> None]
Created == [status |-> "created", expires |-> 0, payment |-> None]   \* a variant
Pending == [status |-> "pending", expires |-> 0, payment |-> None]
Row == [status : {"absent", "pending", "active"},
        expires : Nat, payment : Payments \cup {None}]

(* subs is commercial_subscriptions; audit holds the tokens with an        *)
(* activation event in admin_audit_events; accounts the device ids with a  *)
(* user and a subscription row, which activate_subscription writes.        *)
Tables == [subs : [Tokens -> Row], audit : SUBSET Tokens,
           accounts : SUBSET (Tokens \cup Devices)]

Payment == [status : {"none", "pending", "succeeded", "canceled"},
            target : Tokens \cup Devices \cup {None}, days : Durations \cup {0}]

Statements == {"insert", "update", "audit", "account", "forget", "other"}
Request == [op : {"none", "checkout", "webhook", "admin", "receipt", "delete", "other"},
            target : Tokens \cup Devices \cup {None},
            payment : Payments \cup {None},
            days : Durations \cup {0},
            expires : Nat,
            statement : Statements \cup {"none"}]
NoRequest == [op |-> "none", target |-> None, payment |-> None, days |-> 0,
              expires |-> 0, statement |-> "none"]

Locations == {"idle", "fetch", "select", "execute", "begin", "write",
              "commit", "committing", "provider", "respond"}

(* create_repository.                                                      *)
InMemory == Repository = "memory"

sub(tok) == db.view.subs[tok]
paid(tok) == \E p \in Payments : /\ payments[p].status = "succeeded"
                                 /\ payments[p].target = tok

(* Time bought runs from the later of now and the present expiry.          *)
(* (Variant: always from now.)                                             *)
RenewedExpiryFromNow(expires, time, days) == time + days
RenewedExpiry(expires, time, days) ==
  (IF expires > time THEN expires ELSE time) + days

-----------------------------------------------------------------------------
(* Steps of a thread.                                                      *)

Goto(t, location) == pc' = [pc EXCEPT ![t] = location]

Leave(t) == /\ Goto(t, "idle")
            /\ req' = [req EXCEPT ![t] = NoRequest]

Accept(t, location, request) == /\ pc[t] = "idle"
                                /\ Goto(t, location)
                                /\ req' = [req EXCEPT ![t] = request]

(* new_subscription_token: 32 random bytes, which never repeat.  (Variant: *)
(* a generator that may return a token twice.)                             *)
RepeatingTokens == Tokens
FreshTokens == Tokens \ drawn

(* POST /checkout: a new random token and a tariff.                        *)
StartCheckout(t) ==
  \E tok \in FreshTokens, days \in Durations :
    /\ Accept(t, "execute",
              [NoRequest EXCEPT !.op = "checkout", !.target = tok,
                                !.days = days, !.statement = "insert"])
    /\ drawn' = drawn \cup {tok}
    /\ UNCHANGED <<db, external, issued, asked, claimed, forgotten, granted, vouched, acked,
                   counters>>

(* POST /webhooks/yookassa with event payment.succeeded.  A delivery of a  *)
(* payment that has not succeeded is ignored below and is not counted.     *)
StartWebhook(t, p) ==
  /\ payments[p].status # "none"
  /\ IF payments[p].status = "succeeded"
     THEN /\ deliveries[p] < MaxDeliveries
          /\ deliveries' = [deliveries EXCEPT ![p] = @ + 1]
     ELSE UNCHANGED deliveries
  /\ Accept(t, "fetch", [NoRequest EXCEPT !.op = "webhook", !.payment = p])
  /\ UNCHANGED <<db, external, history, adminRequests, clientRequests, failures>>

(* POST /admin/.../activate: the administrator has the token from the      *)
(* customer's invoice, or mistypes it (None).                              *)
StartAdminActivation(t) ==
  \E tok \in issued \cup {None}, days \in Durations :
    /\ adminRequests < MaxAdmin
    /\ adminRequests' = adminRequests + 1
    /\ Accept(t, "select",
              [NoRequest EXCEPT !.op = "admin", !.target = tok, !.days = days])
    /\ asked' = asked \cup ({tok} \cap Tokens)
    /\ UNCHANGED <<db, external, drawn, issued, claimed, forgotten, granted, vouched, acked,
                   deliveries, clientRequests, failures>>

ClientRequest == /\ clientRequests < MaxClient
                 /\ clientRequests' = clientRequests + 1
                 /\ UNCHANGED <<deliveries, adminRequests, failures>>

(* POST /auth/receipt: a client names the device, by any string it has, and *)
(* a payment of YooKassa's with its product, or another store's receipt    *)
(* (which is verified without a call that leaves the thread).              *)
StartReceipt(t) ==
  \E d \in Devices \cup issued :
    /\ \/ Accept(t, "execute",
                 [NoRequest EXCEPT !.op = "receipt", !.target = d, !.statement = "account"])
       \/ \E p \in Payments, days \in Durations :
            /\ payments[p].status # "none"
            /\ Accept(t, "fetch",
                      [NoRequest EXCEPT !.op = "receipt", !.target = d, !.payment = p,
                                        !.days = days])
    /\ claimed' = claimed \cup ({d} \cap Tokens)
    /\ ClientRequest
    /\ UNCHANGED <<db, external, drawn, issued, asked, forgotten, granted, vouched, acked>>

(* DELETE /me: the rows of an account go in one statement.                 *)
StartDeletion(t) ==
  \E d \in db.view.accounts :
    /\ Accept(t, "execute",
              [NoRequest EXCEPT !.op = "delete", !.target = d, !.statement = "forget"])
    /\ forgotten' = forgotten \cup {d}
    /\ ClientRequest
    /\ UNCHANGED <<db, external, drawn, issued, asked, claimed, granted, vouched, acked>>

(* Any other handler that writes: /auth/init and the administration of     *)
(* nodes, to other tables of the same connection.                          *)
StartOther(t) ==
  /\ Accept(t, "execute", [NoRequest EXCEPT !.op = "other", !.statement = "other"])
  /\ UNCHANGED <<db, external, history, counters>>

(* fetch_payment: the notification is not believed, YooKassa is asked.     *)
(* (Variants: the notification is believed; a status is expected that a    *)
(* captured payment never has.)                                            *)
BelieveNotification(p) == TRUE
AwaitsCapture(p) == payments[p].status = "pending"
PaymentSucceeded(p) == payments[p].status = "succeeded"

(* A receipt must be of the device and the product it was paid for.        *)
ReceiptMatches(r) == payments[r.payment].target = r.target /\ payments[r.payment].days = r.days

FetchPayment(t) ==
  LET p == req[t].payment
  IN  /\ pc[t] = "fetch"
      /\ CASE req[t].op = "webhook" /\ PaymentSucceeded(p) ->
              /\ Goto(t, "select")
              /\ req' = [req EXCEPT ![t].target = payments[p].target,
                                    ![t].days = payments[p].days]
           [] req[t].op = "receipt" /\ PaymentSucceeded(p) /\ ReceiptMatches(req[t]) ->
              /\ Goto(t, "execute")
              /\ req' = [req EXCEPT ![t].statement = "account"]
           [] OTHER -> Leave(t)
      /\ UNCHANGED <<db, external, history, counters>>

(* Whether a row answers the SELECT.  (Variant: only an active one does.)  *)
RecordedAndActive(tok) == tok \in Tokens /\ sub(tok).status = "active"
Recorded(tok) == tok \in Tokens /\ sub(tok).status # "absent"

(* get_commercial_subscription: the UPDATE will be based on the expiry and *)
(* the payment id read here.  A paid target that is no token is a device,  *)
(* whose mobile subscription activate_subscription writes (one statement   *)
(* stands for its two).                                                    *)
SelectSubscription(t) ==
  LET tok == req[t].target
      found == Recorded(tok)
  IN  /\ pc[t] = "select"
      /\ CASE found ->
              /\ Goto(t, "execute")
              /\ req' = [req EXCEPT ![t].expires = sub(tok).expires,
                                    ![t].payment = IF @ = None THEN sub(tok).payment ELSE @,
                                    ![t].statement = "update"]
           [] ~found /\ req[t].op = "webhook" ->
              /\ Goto(t, "execute")
              /\ req' = [req EXCEPT ![t].statement = "account"]
           [] OTHER -> Leave(t)
      /\ UNCHANGED <<db, external, history, counters>>

(* The new expiry is computed, then the statement looks at the connection. *)
ExecuteStatement(t) ==
  /\ pc[t] = "execute"
  /\ Goto(t, IF db.open \/ InMemory THEN "write" ELSE "begin")
  /\ req' = IF req[t].statement = "update"
            THEN [req EXCEPT ![t].expires = RenewedExpiry(@, now, req[t].days)]
            ELSE req
  /\ UNCHANGED <<db, external, history, counters>>

(* BEGIN; an error when another thread has begun since this one looked.    *)
BeginTransaction(t) ==
  /\ pc[t] = "begin"
  /\ IF db.open
     THEN Leave(t) /\ UNCHANGED db
     ELSE Goto(t, "write") /\ db' = Begin(db) /\ UNCHANGED req
  /\ UNCHANGED <<external, history, counters>>

(* The tables after the thread's INSERT or UPDATE.                         *)
Written(r, tables) ==
  CASE r.statement = "insert" -> [tables EXCEPT !.subs[r.target] = Pending]
    [] r.statement = "update" ->
         [tables EXCEPT !.subs[r.target] =
            [status |-> "active", expires |-> r.expires, payment |-> r.payment]]
    [] r.statement = "audit" -> [tables EXCEPT !.audit = @ \cup {r.target}]
    [] r.statement = "account" -> [tables EXCEPT !.accounts = @ \cup {r.target}]
    [] r.statement = "forget" -> [tables EXCEPT !.accounts = @ \ {r.target}]
    [] OTHER -> tables

(* A statement breaks a constraint (a second user of a device, a user just *)
(* deleted, a taken tag): the error leaves the handler with the            *)
(* transaction still open and no thread to end it.                         *)
ViolateConstraint(t) ==
  /\ pc[t] = "write" /\ req[t].statement \in {"account", "other"} /\ ~InMemory
  /\ Leave(t)
  /\ UNCHANGED <<db, external, history, counters>>

(* What each handler does once a statement of its own is committed.        *)
AfterCommit(t) ==
  CASE req[t].statement = "insert" ->
         /\ Goto(t, CASE CheckoutMode = "mock" -> "select"
                      [] CheckoutMode = "crypto_manual" -> "respond"
                      [] OTHER -> "provider")
         /\ UNCHANGED req
    [] req[t].statement = "update" /\ req[t].op = "admin" ->
         /\ Goto(t, "execute")
         /\ req' = [req EXCEPT ![t].statement = "audit"]
    [] OTHER -> Goto(t, "respond") /\ UNCHANGED req

(* The statement itself.  (Variant: no commit() follows it.)               *)
WriteWithoutCommit(t) ==
  /\ pc[t] = "write"
  /\ db' = Execute(db, Written(req[t], db.view))
  /\ AfterCommit(t)
  /\ UNCHANGED <<external, history, counters>>
WriteStatement(t) ==
  /\ pc[t] = "write"
  /\ db' = Execute(db, Written(req[t], db.view))
  /\ Goto(t, "commit")
  /\ UNCHANGED <<external, req, history, counters>>

(* commit() looks at the connection and returns when nothing is open.      *)
(* (Variant: it leaves the COMMIT to the other requests under way.)        *)
CommitUnlessShared(t) ==
  /\ pc[t] = "commit"
  /\ IF db.open /\ \A u \in Threads \ {t} : pc[u] = "idle"
     THEN Goto(t, "committing") /\ UNCHANGED req
     ELSE AfterCommit(t)
  /\ UNCHANGED <<db, external, history, counters>>
LookBeforeCommit(t) ==
  /\ pc[t] = "commit"
  /\ IF db.open THEN Goto(t, "committing") /\ UNCHANGED req ELSE AfterCommit(t)
  /\ UNCHANGED <<db, external, history, counters>>

(* COMMIT; an error when another thread has committed since.               *)
CommitTransaction(t) ==
  /\ pc[t] = "committing"
  /\ IF db.open THEN db' = Commit(db) /\ AfterCommit(t)
                ELSE Leave(t) /\ UNCHANGED db
  /\ UNCHANGED <<external, history, counters>>

(* create_payment of a checkout: YooKassa keeps the token as metadata.     *)
CreatePayment(t) ==
  /\ pc[t] = "provider"
  /\ \E p \in Payments :
       /\ payments[p].status = "none"
       /\ payments' = [payments EXCEPT ![p] = [status |-> "pending",
                         target |-> req[t].target, days |-> req[t].days]]
  /\ Goto(t, "respond")
  /\ UNCHANGED <<db, now, req, history, counters>>

(* YooKassa turns the payment down (or has no id left): 503, the row stays.*)
RefusePayment(t) ==
  /\ pc[t] = "provider"
  /\ Leave(t)
  /\ UNCHANGED <<db, external, history, counters>>

(* The answer reaches the client.                                          *)
Respond(t) ==
  LET r == req[t]
  IN  /\ pc[t] = "respond"
      /\ Leave(t)
      /\ issued' = IF r.op = "checkout" THEN issued \cup {r.target} ELSE issued
      /\ granted' = IF r.statement \in {"update", "audit"}
                    THEN [granted EXCEPT ![r.target] = @ + r.days] ELSE granted
      /\ vouched' = IF r.op = "admin" THEN vouched \cup {r.target} ELSE vouched
      /\ acked' = IF r.op = "webhook" THEN acked \cup {r.payment} ELSE acked
      /\ UNCHANGED <<db, external, drawn, asked, claimed, forgotten, counters>>

(* The call fails: YooKassa is unreachable, the database file is locked by *)
(* the worker process for longer than the connection waits, or the client  *)
(* is gone before the answer.  The handler ends where it is.               *)
AbandonRequest(t) ==
  /\ pc[t] \in {"fetch", "provider", "write", "committing", "respond"}
  /\ ~(pc[t] = "write" /\ InMemory)
  /\ failures < MaxFailures
  /\ failures' = failures + 1
  /\ Leave(t)
  /\ UNCHANGED <<db, external, history, deliveries, adminRequests, clientRequests>>

-----------------------------------------------------------------------------
(* The process, the customer and YooKassa.                                 *)

Crash ==
  /\ ~InMemory
  /\ failures < MaxFailures
  /\ failures' = failures + 1
  /\ db' = Reconnect(db)
  /\ pc' = [t \in Threads |-> "idle"]
  /\ req' = [t \in Threads |-> NoRequest]
  /\ UNCHANGED <<external, history, deliveries, adminRequests, clientRequests>>

(* POST /payments/yookassa: a payment for the device id a client sends,    *)
(* which may be a link's token again; no row is written.  Its days are its *)
(* product's, or the link's tariff's when no tariff has that name.         *)
CreateDevicePayment(p) ==
  /\ payments[p].status = "none"
  /\ \E d \in Devices \cup issued, days \in Durations :
       payments' = [payments EXCEPT ![p] = [status |-> "pending",
                                            target |-> d, days |-> days]]
  /\ UNCHANGED <<db, now, pc, req, history, counters>>

(* The customer pays at the confirmation URL the checkout answered, or the *)
(* payment is canceled.                                                    *)
Settle(p) ==
  /\ payments[p].status = "pending"
  /\ \/ /\ payments[p].target \in issued \cup Devices
        /\ payments' = [payments EXCEPT ![p].status = "succeeded"]
     \/ payments' = [payments EXCEPT ![p].status = "canceled"]
  /\ UNCHANGED <<db, now, pc, req, history, counters>>

Tick ==
  /\ now < MaxTime
  /\ now' = now + 1
  /\ UNCHANGED <<db, payments, pc, req, history, counters>>

-----------------------------------------------------------------------------
Init ==
  /\ db = Connect([subs |-> [tok \in Tokens |-> Absent], audit |-> {}, accounts |-> {}])
  /\ now = 0
  /\ payments = [p \in Payments |-> [status |-> "none", target |-> None, days |-> 0]]
  /\ pc = [t \in Threads |-> "idle"]
  /\ req = [t \in Threads |-> NoRequest]
  /\ drawn = {} /\ issued = {} /\ asked = {} /\ vouched = {} /\ acked = {}
  /\ claimed = {} /\ forgotten = {}
  /\ granted = [tok \in Tokens |-> 0]
  /\ deliveries = [p \in Payments |-> 0]
  /\ adminRequests = 0
  /\ clientRequests = 0
  /\ failures = 0

(* The steps a running handler takes when no call of its own fails.        *)
HandlerStep(t) ==
  \/ FetchPayment(t) \/ SelectSubscription(t) \/ ExecuteStatement(t)
  \/ BeginTransaction(t) \/ WriteStatement(t)
  \/ LookBeforeCommit(t) \/ CommitTransaction(t)
  \/ CreatePayment(t) \/ RefusePayment(t) \/ Respond(t)

ThreadStep(t) ==
  \/ StartCheckout(t) \/ StartAdminActivation(t)
  \/ StartReceipt(t) \/ StartDeletion(t) \/ StartOther(t)
  \/ \E p \in Payments : StartWebhook(t, p)
  \/ HandlerStep(t) \/ ViolateConstraint(t) \/ AbandonRequest(t)

Next ==
  \/ \E t \in Threads : ThreadStep(t)
  \/ \E p \in Payments : CreateDevicePayment(p) \/ Settle(p)
  \/ Crash
  \/ Tick

Spec == Init /\ [][Next]_vars

(* ThreadingHTTPServer gives every request a thread, which keeps running;  *)
(* YooKassa repeats a notification until one delivery is answered with 200.*)
Redeliver(p) == p \notin acked /\ \E t \in Threads : StartWebhook(t, p)
Fairness == /\ \A t \in Threads : WF_vars(HandlerStep(t))
            /\ \A p \in Payments : SF_vars(Redeliver(p))
FairSpec == Spec /\ Fairness

-----------------------------------------------------------------------------
(* Every variable has its type; the counters stay under their bounds.      *)
TypeOK ==
  /\ db \in [view : Tables, disk : Tables, open : BOOLEAN]
  /\ now \in 0..MaxTime
  /\ payments \in [Payments -> Payment]
  /\ pc \in [Threads -> Locations]
  /\ req \in [Threads -> Request]
  /\ drawn \subseteq Tokens /\ issued \subseteq Tokens /\ asked \subseteq Tokens
  /\ claimed \subseteq Tokens /\ forgotten \subseteq Tokens \cup Devices
  /\ vouched \subseteq Tokens /\ acked \subseteq Payments
  /\ granted \in [Tokens -> Nat]
  /\ deliveries \in [Payments -> 0..MaxDeliveries]
  /\ adminRequests \in 0..MaxAdmin
  /\ clientRequests \in 0..MaxClient
  /\ failures \in 0..MaxFailures

Entitled(tok) == paid(tok) \/ tok \in asked \/ CheckoutMode = "mock"

(* A link is active only for a cause: YooKassa holds a succeeded payment   *)
(* for this very token, an administrator asked for it, or the shop is a    *)
(* mock.  A payment id in the row is that of a succeeded payment for it.   *)
ActivationHasCause ==
  \A tok \in Tokens :
    /\ sub(tok).status = "active" => Entitled(tok)
    /\ sub(tok).payment # None =>
         /\ payments[sub(tok).payment].status = "succeeded"
         /\ payments[sub(tok).payment].target = tok

(* No payment exists at YooKassa for a token that a restart would not find *)
(* (checkout commits the row before it calls create_payment).              *)
PaymentHasDurableToken ==
  \A p \in Payments : payments[p].target \in Tokens =>
    db.disk.subs[payments[p].target].status # "absent"

(* A payment made for a link does not turn into the mobile account of a    *)
(* device with the token's name by itself (the webhook's branch for other  *)
(* payments): such an account is there only if a client has sent the token *)
(* as its device id with a receipt.                                        *)
TokenAccountsAreClaimed == db.view.accounts \cap Tokens \subseteq claimed

(* What was answered with 200 survives a restart: the link a customer was  *)
(* sent to, the activation a webhook or an administrator was told of, the  *)
(* account of a device unless it was deleted, and the administrator's      *)
(* audit event.                                                            *)
AnswersAreDurable ==
  /\ \A tok \in issued : db.disk.subs[tok].status # "absent"
  /\ \A tok \in Tokens : granted[tok] > 0 => db.disk.subs[tok].status = "active"
  /\ \A p \in acked : IF payments[p].target \in Tokens
                       THEN db.disk.subs[payments[p].target].status = "active"
                       ELSE payments[p].target \in db.disk.accounts \cup forgotten
  /\ vouched \subseteq db.disk.audit

(* Every activation that was answered adds its days to what was bought     *)
(* before: the link runs for at least the sum of them.                     *)
GrantedDaysAreKept ==
  \A tok \in Tokens : db.disk.subs[tok].expires >= granted[tok]

(* No step, a crash included, takes back time that a link already had.     *)
ExpiryNeverMovesBack ==
  [][\A tok \in Tokens : db'.disk.subs[tok].expires >= db.disk.subs[tok].expires]_db

(* The durable rows go through the stages of SubscriptionLifecycle only.   *)
Lifecycle == INSTANCE SubscriptionLifecycle WITH
               stage <- [tok \in Tokens |-> db.disk.subs[tok].status],
               entitled <- {tok \in Tokens : Entitled(tok)}
ImplementsLifecycle == Lifecycle!Spec

(* A link whose payment has succeeded becomes active, through failures,    *)
(* restarts and lost answers, as long as YooKassa repeats the webhook.     *)
PaidLinkBecomesActive ==
  \A tok \in Tokens : paid(tok) ~> db.disk.subs[tok].status = "active"

-----------------------------------------------------------------------------
(* The inductive invariant the proofs of CommercialSubscriptions_proofs    *)
(* rest on.  First what a request's locals say at each location, whatever  *)
(* the database holds.                                                     *)
InStatement == {"execute", "begin", "write", "commit", "committing"}

RequestShape(t, r) ==
  /\ pc[t] = "idle" <=> r.op = "none"
  /\ r.op = "none" => r = NoRequest
  /\ pc[t] = "fetch" => r.op \in {"webhook", "receipt"} /\ r.statement = "none"
  /\ pc[t] = "select" => \/ r.op \in {"webhook", "admin"} /\ r.statement = "none"
                         \/ r.op = "checkout" /\ r.statement = "insert"
  /\ pc[t] = "provider" => r.statement = "insert"
  /\ pc[t] \in InStatement \cup {"respond"} => r.statement # "none"
  /\ r.statement = "insert" => r.op = "checkout"
  /\ r.statement = "audit" => r.op = "admin"
  /\ r.statement = "account" => r.op \in {"webhook", "receipt"}
  /\ r.statement = "forget" => r.op = "delete" /\ r.target \in forgotten
  /\ r.statement \in {"insert", "update", "audit"} => r.target \in Tokens
  /\ r.statement = "update" => r.op \in {"checkout", "webhook", "admin"}
  /\ r.op = "other" <=> r.statement = "other"
  /\ r.op = "checkout" => r.target \in drawn
  /\ r.op = "receipt" => /\ r.target \in Devices \cup claimed
                         /\ pc[t] = "fetch" => r.payment \in Payments
  /\ r.op = "webhook" => r.payment \in Payments
  /\ r.op = "webhook" /\ pc[t] # "fetch" =>
       /\ r.target \in Tokens \cup Devices
       /\ payments[r.payment].status = "succeeded"
       /\ payments[r.payment].target = r.target
  /\ r.op = "admin" => r.target \in asked \cup {None}
  /\ r.op = "admin" /\ pc[t] = "respond" => r.statement = "audit"

Shape == /\ \A t \in Threads : RequestShape(t, req[t])
         /\ \A p \in Payments : payments[p].status # "none" =>
                                  payments[p].target \in Tokens \cup Devices
         /\ asked \subseteq issued

(* Then how the connection, the file and the requests under way agree.     *)
durable(tok) == db.disk.subs[tok].status # "absent"

(* A view only runs ahead of the file, by one stage at most.               *)
ViewAhead ==
  /\ NothingPending(db)
  /\ \A tok \in Tokens :
       /\ durable(tok) => sub(tok).status # "absent"
       /\ db.disk.subs[tok].status = "active" => sub(tok).status = "active"
       /\ sub(tok).status = "active" => durable(tok)
       /\ sub(tok).status # "absent" => tok \in drawn
  /\ db.disk.audit \subseteq db.view.audit
  /\ db.disk.accounts \subseteq db.view.accounts \cup forgotten
  /\ db.disk.accounts \cap Tokens \subseteq claimed

(* What a request may rely on at the statement it has come to: a token to  *)
(* insert is nowhere yet and no other request inserts it; a row to update  *)
(* is on disk and has a cause; what was committed is on disk.              *)
RequestSound(t, r) ==
  /\ r.statement = "insert" =>
       /\ r.payment = None
       /\ pc[t] \in {"execute", "begin", "write"} =>
            /\ sub(r.target).status = "absent"
            /\ \A u \in Threads \ {t} :
                 req[u].op = "checkout" => req[u].target # r.target
       /\ pc[t] \in {"commit", "committing"} => sub(r.target).status # "absent"
       /\ pc[t] \in {"select", "provider", "respond"} => durable(r.target)
       /\ pc[t] = "select" => CheckoutMode = "mock"
  /\ r.statement = "update" =>
       /\ durable(r.target) /\ Entitled(r.target)
       /\ r.payment # None => /\ payments[r.payment].status = "succeeded"
                              /\ payments[r.payment].target = r.target
       /\ pc[t] \in {"commit", "committing"} => sub(r.target).status = "active"
       /\ pc[t] = "respond" => db.disk.subs[r.target].status = "active"
  /\ r.statement = "audit" =>
       /\ db.disk.subs[r.target].status = "active"
       /\ pc[t] \in {"commit", "committing"} => r.target \in db.view.audit
       /\ pc[t] = "respond" => r.target \in db.disk.audit
  /\ r.statement = "account" =>
       /\ r.target \in Devices \cup claimed
       /\ r.op = "webhook" => r.target \in Devices
       /\ pc[t] \in {"commit", "committing"} => r.target \in db.view.accounts \cup forgotten
       /\ pc[t] = "respond" => r.target \in db.disk.accounts \cup forgotten
  /\ r.op = "admin" /\ pc[t] = "select" => r.payment = None

(* The cause of an activation, for a row of the view or of the file.       *)
HasCause(tok, row) ==
  /\ row.status = "active" => Entitled(tok)
  /\ row.payment # None => /\ payments[row.payment].status = "succeeded"
                           /\ payments[row.payment].target = tok
Caused ==
  /\ \A tok \in Tokens : HasCause(tok, sub(tok)) /\ HasCause(tok, db.disk.subs[tok])
  /\ \A p \in acked : payments[p].status = "succeeded"

IInv == /\ TypeOK /\ Shape /\ ViewAhead /\ Caused
        /\ \A t \in Threads : RequestSound(t, req[t])
        /\ PaymentHasDurableToken /\ TokenAccountsAreClaimed /\ AnswersAreDurable
=============================================================================
