-------------------- MODULE CommercialSubscriptions_proofs --------------------
(***************************************************************************)
(* For any number of tokens, payments, threads, failures and any checkout  *)
(* mode: the types, the safety invariants of CommercialSubscriptions and   *)
(* the refinement of SubscriptionLifecycle.                                *)
(***************************************************************************)
EXTENDS CommercialSubscriptions, TLAPS

USE DurationsAssumption, ModeAssumption, NoneAssumption, TargetAssumption, BoundsAssumption

-----------------------------------------------------------------------------
(* Types and the shape of the requests, before any fact about the tables.  *)

(* A row is stored under its own token: writing keeps the tables' type.    *)
LEMMA WrittenType ==
  ASSUME NEW r \in Request, NEW tables \in Tables,
         r.statement \in {"insert", "update", "audit"} => r.target \in Tokens,
         r.statement = "account" => r.target \in Tokens \cup Devices
  PROVE  Written(r, tables) \in Tables
<1> DEFINE row == [status |-> "active", expires |-> r.expires, payment |-> r.payment]
<1>1. row \in Row /\ Pending \in Row
  BY DEF Row, Pending, Request
<1>2. CASE r.statement = "insert"
  BY <1>1, <1>2 DEF Written, Tables
<1>3. CASE r.statement = "update"
  BY <1>1, <1>3 DEF Written, Tables
<1>4. CASE r.statement \in {"audit", "account", "forget"}
  BY <1>4 DEF Written, Tables
<1>5. CASE r.statement \in {"other", "none"}
  BY <1>5 DEF Written
<1>6. QED
  BY <1>2, <1>3, <1>4, <1>5 DEF Request, Statements

(* Every operation on the connection keeps the type of its tables.         *)
LEMMA ConnectionType ==
  ASSUME NEW T, NEW c \in [view : T, disk : T, open : BOOLEAN], NEW tables \in T
  PROVE  /\ Begin(c) \in [view : T, disk : T, open : BOOLEAN]
         /\ Execute(c, tables) \in [view : T, disk : T, open : BOOLEAN]
         /\ Commit(c) \in [view : T, disk : T, open : BOOLEAN]
         /\ Reconnect(c) \in [view : T, disk : T, open : BOOLEAN]
         /\ Connect(tables) \in [view : T, disk : T, open : BOOLEAN]
BY DEF Begin, Execute, Commit, Reconnect, Connect

(* No open transaction, nothing pending: kept by every operation.          *)
LEMMA ConnectionPending ==
  ASSUME NEW T, NEW c \in [view : T, disk : T, open : BOOLEAN], NEW tables \in T,
         NothingPending(c)
  PROVE  /\ NothingPending(Begin(c))
         /\ NothingPending(Execute(c, tables))
         /\ NothingPending(Commit(c))
         /\ NothingPending(Reconnect(c))
BY DEF Begin, Execute, Commit, Reconnect, Connect, NothingPending

Typed == TypeOK /\ Shape

LEMMA TypedInit == Init => Typed
<1> SUFFICES ASSUME Init PROVE TypeOK /\ Shape
  BY DEF Typed
<1>1. Absent \in Row
  BY DEF Absent, Row
<1>2. [subs |-> [tok \in Tokens |-> Absent], audit |-> {}, accounts |-> {}] \in Tables
  BY <1>1 DEF Tables
<1>3. db \in [view : Tables, disk : Tables, open : BOOLEAN]
  BY <1>2 DEF Init, Connect
<1>4. NoRequest \in Request
  BY DEF NoRequest, Request
<1>5. TypeOK
  BY <1>3, <1>4 DEF Init, TypeOK, Payment, Locations
<1>6. Shape
  BY DEF Init, Shape, RequestShape, NoRequest, InStatement
<1>7. QED
  BY <1>5, <1>6

(* Only thread t moves.                                                    *)
OnlyMoves(t) ==
  /\ pc' = [pc EXCEPT ![t] = pc'[t]]
  /\ req' = [req EXCEPT ![t] = req'[t]]

(* What the world outside the thread does to what it knows.                *)
KnowledgeKept ==
  /\ drawn \subseteq drawn' /\ asked \subseteq asked' /\ issued \subseteq issued'
  /\ claimed \subseteq claimed' /\ forgotten \subseteq forgotten'
  /\ \A p \in Payments : payments[p].status = "succeeded" => payments'[p] = payments[p]
PaymentsShape ==
  \A p \in Payments : payments[p].status # "none" => payments[p].target \in Tokens \cup Devices

(* A step of one thread disturbs the shape of its own request only.        *)
LEMMA ShapeOfOthers ==
  ASSUME Typed, TypeOK', NEW t \in Threads, OnlyMoves(t), KnowledgeKept,
         RequestShape(t, req[t])', PaymentsShape', asked' \subseteq issued'
  PROVE  Typed'
<1>1. ASSUME NEW u \in Threads, u # t PROVE RequestShape(u, req[u])'
  <2>1. pc'[u] = pc[u] /\ req'[u] = req[u]
    BY <1>1 DEF Typed, TypeOK, OnlyMoves
  <2>2. RequestShape(u, req[u])
    BY DEF Typed, Shape
  <2>3. QED
    BY <2>1, <2>2 DEF KnowledgeKept, RequestShape, Typed, TypeOK, Request, Payment
<1>2. QED
  BY <1>1 DEF Typed, Shape, PaymentsShape

(* What the three ways to move a thread do to its location and locals.     *)
LEMMA Moves ==
  ASSUME TypeOK, NEW t \in Threads, NEW l \in Locations, NEW r \in Request
  PROVE  /\ Accept(t, l, r) =>
              /\ OnlyMoves(t) /\ pc'[t] = l /\ req'[t] = r /\ pc[t] = "idle"
              /\ pc' \in [Threads -> Locations] /\ req' \in [Threads -> Request]
         /\ Leave(t) =>
              /\ OnlyMoves(t) /\ pc'[t] = "idle" /\ req'[t] = NoRequest
              /\ pc' \in [Threads -> Locations] /\ req' \in [Threads -> Request]
         /\ Goto(t, l) => pc' = [pc EXCEPT ![t] = l] /\ pc'[t] = l /\ pc' \in [Threads -> Locations]
<1>1. NoRequest \in Request /\ "idle" \in Locations
  BY DEF NoRequest, Request, Locations
<1>2. QED
  BY <1>1 DEF Accept, Leave, Goto, OnlyMoves, TypeOK

LEMMA TypedStart ==
  ASSUME Typed, NEW t \in Threads, StartCheckout(t) \/ StartAdminActivation(t) \/ StartOther(t)
  PROVE  Typed'
<1> USE DEF external, history, counters
<1>0. TypeOK /\ Shape
  BY DEF Typed
<1>1. CASE StartCheckout(t)
  <2>1. PICK tok \in Tokens \ drawn, days \in Durations :
          /\ Accept(t, "execute", [NoRequest EXCEPT !.op = "checkout", !.target = tok,
                                     !.days = days, !.statement = "insert"])
          /\ drawn' = drawn \cup {tok}
    BY <1>1 DEF StartCheckout, FreshTokens
  <2> DEFINE r == [NoRequest EXCEPT !.op = "checkout", !.target = tok,
                                     !.days = days, !.statement = "insert"]
  <2>2. r \in Request /\ "execute" \in Locations
    BY DEF NoRequest, Request, Statements, Locations
  <2>3. r.op = "checkout" /\ r.statement = "insert" /\ r.target = tok
    BY DEF NoRequest
  <2>4. /\ OnlyMoves(t) /\ pc'[t] = "execute" /\ req'[t] = r
        /\ pc' \in [Threads -> Locations] /\ req' \in [Threads -> Request]
    BY <1>0, <2>1, <2>2, Moves
  <2>5. TypeOK' /\ KnowledgeKept
    BY <1>0, <1>1, <2>1, <2>4 DEF StartCheckout, TypeOK, KnowledgeKept
  <2>6. RequestShape(t, req[t])'
    BY <2>1, <2>3, <2>4 DEF RequestShape, InStatement
  <2>7. PaymentsShape' /\ asked' \subseteq issued'
    BY <1>0, <1>1 DEF StartCheckout, PaymentsShape, Shape
  <2>8. QED
    BY <2>4, <2>5, <2>6, <2>7, ShapeOfOthers
<1>2. CASE StartAdminActivation(t)
  <2>1. PICK tok \in issued \cup {None}, days \in Durations :
          /\ Accept(t, "select", [NoRequest EXCEPT !.op = "admin", !.target = tok, !.days = days])
          /\ asked' = asked \cup ({tok} \cap Tokens)
          /\ adminRequests < MaxAdmin /\ adminRequests' = adminRequests + 1
          /\ UNCHANGED <<db, external, drawn, issued, claimed, forgotten, granted, vouched, acked,
                         deliveries, clientRequests, failures>>
    BY <1>2 DEF StartAdminActivation
  <2> DEFINE r == [NoRequest EXCEPT !.op = "admin", !.target = tok, !.days = days]
  <2>2. r \in Request /\ "select" \in Locations
    BY <1>0 DEF NoRequest, Request, Statements, Locations, TypeOK
  <2>3. r.op = "admin" /\ r.statement = "none" /\ r.target = tok
    BY DEF NoRequest
  <2>4. /\ OnlyMoves(t) /\ pc'[t] = "select" /\ req'[t] = r
        /\ pc' \in [Threads -> Locations] /\ req' \in [Threads -> Request]
    BY <1>0, <2>1, <2>2, Moves
  <2>5. TypeOK' /\ KnowledgeKept
    BY <1>0, <2>1, <2>4 DEF TypeOK, KnowledgeKept
  <2>6. RequestShape(t, req[t])'
    BY <1>0, <2>1, <2>3, <2>4 DEF RequestShape, InStatement, TypeOK
  <2>7. PaymentsShape' /\ asked' \subseteq issued'
    BY <1>0, <1>2, <2>1 DEF StartAdminActivation, PaymentsShape, Shape
  <2>8. QED
    BY <2>4, <2>5, <2>6, <2>7, ShapeOfOthers
<1>3. CASE StartOther(t)
  <2> DEFINE r == [NoRequest EXCEPT !.op = "other", !.statement = "other"]
  <2>2. r \in Request /\ "execute" \in Locations
    BY DEF NoRequest, Request, Statements, Locations
  <2>3. r.op = "other" /\ r.statement = "other"
    BY DEF NoRequest
  <2>4. /\ OnlyMoves(t) /\ pc'[t] = "execute" /\ req'[t] = r
        /\ pc' \in [Threads -> Locations] /\ req' \in [Threads -> Request]
    BY <1>0, <1>3, <2>2, Moves DEF StartOther
  <2>5. TypeOK' /\ KnowledgeKept /\ PaymentsShape' /\ asked' \subseteq issued'
    BY <1>0, <1>3, <2>4 DEF StartOther, TypeOK, KnowledgeKept, PaymentsShape, Shape
  <2>6. RequestShape(t, req[t])'
    BY <2>3, <2>4 DEF RequestShape, InStatement
  <2>8. QED
    BY <2>4, <2>5, <2>6, ShapeOfOthers
<1>4. QED
  BY <1>1, <1>2, <1>3

(* A client's receipt or deletion: the histories grow by what it names.    *)
LEMMA TypedStartClient ==
  ASSUME Typed, NEW t \in Threads, StartReceipt(t) \/ StartDeletion(t)
  PROVE  Typed'
<1> USE DEF external, history, counters
<1>0. TypeOK /\ Shape
  BY DEF Typed
<1>1. clientRequests' \in 0..MaxClient /\ UNCHANGED <<deliveries, adminRequests, failures>>
  <2>1. ClientRequest
    BY DEF StartReceipt, StartDeletion
  <2>2. MaxClient \in Nat /\ clientRequests \in 0..MaxClient
    BY <1>0, BoundsAssumption DEF TypeOK
  <2>3. QED
    BY <2>1, <2>2 DEF ClientRequest
<1>2. CASE StartReceipt(t)
  <2>1. PICK d \in Devices \cup issued :
          /\ \/ Accept(t, "execute", [NoRequest EXCEPT !.op = "receipt", !.target = d,
                                         !.statement = "account"])
             \/ \E p \in Payments, days \in Durations :
                  /\ payments[p].status # "none"
                  /\ Accept(t, "fetch", [NoRequest EXCEPT !.op = "receipt", !.target = d,
                                           !.payment = p, !.days = days])
          /\ claimed' = claimed \cup ({d} \cap Tokens)
    BY <1>2 DEF StartReceipt
  <2>2. d \in Tokens \cup Devices /\ d \in Devices \cup claimed'
    BY <1>0, <2>1 DEF TypeOK
  <2>3. UNCHANGED <<db, external, drawn, issued, asked, forgotten, granted, vouched, acked>>
    BY <1>2 DEF StartReceipt
  <2>4. KnowledgeKept /\ PaymentsShape' /\ asked' \subseteq issued'
    BY <1>0, <2>1, <2>3 DEF KnowledgeKept, PaymentsShape, Shape
  <2>5. pc' \in [Threads -> Locations] /\ req' \in [Threads -> Request] => TypeOK'
    BY <1>0, <1>1, <2>1, <2>3 DEF TypeOK
  <2>6. CASE Accept(t, "execute", [NoRequest EXCEPT !.op = "receipt", !.target = d,
                                     !.statement = "account"])
    <3> DEFINE r == [NoRequest EXCEPT !.op = "receipt", !.target = d, !.statement = "account"]
    <3>1. r \in Request /\ "execute" \in Locations
      BY <2>2 DEF NoRequest, Request, Statements, Locations
    <3>2. r.op = "receipt" /\ r.statement = "account" /\ r.target = d
      BY DEF NoRequest
    <3>3. /\ OnlyMoves(t) /\ pc'[t] = "execute" /\ req'[t] = r
          /\ pc' \in [Threads -> Locations] /\ req' \in [Threads -> Request]
      BY <1>0, <2>6, <3>1, Moves
    <3>4. RequestShape(t, req[t])'
      BY <2>2, <3>2, <3>3 DEF RequestShape, InStatement
    <3>5. QED
      BY <2>4, <2>5, <3>3, <3>4, ShapeOfOthers
  <2>7. ASSUME NEW p \in Payments, NEW days \in Durations,
               Accept(t, "fetch", [NoRequest EXCEPT !.op = "receipt", !.target = d,
                                     !.payment = p, !.days = days])
        PROVE  Typed'
    <3> DEFINE r == [NoRequest EXCEPT !.op = "receipt", !.target = d, !.payment = p, !.days = days]
    <3>1. r \in Request /\ "fetch" \in Locations
      BY <2>2 DEF NoRequest, Request, Statements, Locations
    <3>2. r.op = "receipt" /\ r.statement = "none" /\ r.target = d /\ r.payment = p
      BY DEF NoRequest
    <3>3. /\ OnlyMoves(t) /\ pc'[t] = "fetch" /\ req'[t] = r
          /\ pc' \in [Threads -> Locations] /\ req' \in [Threads -> Request]
      BY <1>0, <2>7, <3>1, Moves
    <3>4. RequestShape(t, req[t])'
      BY <2>2, <3>2, <3>3 DEF RequestShape, InStatement
    <3>5. QED
      BY <2>4, <2>5, <3>3, <3>4, ShapeOfOthers
  <2>8. QED
    BY <2>1, <2>6, <2>7
<1>3. CASE StartDeletion(t)
  <2>1. PICK d \in db.view.accounts :
          /\ Accept(t, "execute", [NoRequest EXCEPT !.op = "delete", !.target = d,
                                     !.statement = "forget"])
          /\ forgotten' = forgotten \cup {d}
    BY <1>3 DEF StartDeletion
  <2> DEFINE r == [NoRequest EXCEPT !.op = "delete", !.target = d, !.statement = "forget"]
  <2>2. d \in Tokens \cup Devices
    BY <1>0, <2>1 DEF TypeOK, Tables
  <2>3. r \in Request /\ "execute" \in Locations
    BY <2>2 DEF NoRequest, Request, Statements, Locations
  <2>4. r.op = "delete" /\ r.statement = "forget" /\ r.target = d
    BY DEF NoRequest
  <2>5. /\ OnlyMoves(t) /\ pc'[t] = "execute" /\ req'[t] = r
        /\ pc' \in [Threads -> Locations] /\ req' \in [Threads -> Request]
    BY <1>0, <2>1, <2>3, Moves
  <2>6. UNCHANGED <<db, external, drawn, issued, asked, claimed, granted, vouched, acked>>
    BY <1>3 DEF StartDeletion
  <2>7. TypeOK'
    BY <1>0, <1>1, <2>1, <2>2, <2>5, <2>6 DEF TypeOK
  <2>8. KnowledgeKept /\ PaymentsShape' /\ asked' \subseteq issued'
    BY <1>0, <2>1, <2>6 DEF KnowledgeKept, PaymentsShape, Shape
  <2>9. RequestShape(t, req[t])'
    BY <2>1, <2>4, <2>5 DEF RequestShape, InStatement
  <2>10. QED
    BY <2>5, <2>7, <2>8, <2>9, ShapeOfOthers
<1>4. QED
  BY <1>2, <1>3

LEMMA TypedStartWebhook ==
  ASSUME Typed, NEW t \in Threads, NEW p \in Payments, StartWebhook(t, p)
  PROVE  Typed'
<1> USE DEF external, history, counters
<1> DEFINE r == [NoRequest EXCEPT !.op = "webhook", !.payment = p]
<1>0. TypeOK /\ Shape
  BY DEF Typed
<1>1. r \in Request /\ "fetch" \in Locations
  BY DEF NoRequest, Request, Statements, Locations
<1>2. r.op = "webhook" /\ r.statement = "none" /\ r.payment = p
  BY DEF NoRequest
<1>3. /\ OnlyMoves(t) /\ pc'[t] = "fetch" /\ req'[t] = r
      /\ pc' \in [Threads -> Locations] /\ req' \in [Threads -> Request]
  BY <1>0, <1>1, Moves DEF StartWebhook
<1>4. TypeOK' /\ KnowledgeKept /\ PaymentsShape' /\ asked' \subseteq issued'
  BY <1>0, <1>3 DEF StartWebhook, TypeOK, KnowledgeKept, PaymentsShape, Shape
<1>5. RequestShape(t, req[t])'
  BY <1>2, <1>3 DEF RequestShape, InStatement
<1>6. QED
  BY <1>3, <1>4, <1>5, ShapeOfOthers

LEMMA LeavingShape ==
  ASSUME TypeOK, NEW t \in Threads, Leave(t)
  PROVE  OnlyMoves(t) /\ RequestShape(t, req[t])'
         /\ pc' \in [Threads -> Locations] /\ req' \in [Threads -> Request]
<1>1. pc'[t] = "idle" /\ req'[t] = NoRequest
  BY Moves, "idle" \in Locations, NoRequest \in Request DEF Locations, NoRequest, Request
<1>2. NoRequest.op = "none" /\ NoRequest.statement = "none"
  BY DEF NoRequest
<1>3. RequestShape(t, req[t])'
  BY <1>1, <1>2 DEF RequestShape, InStatement
<1>4. QED
  BY <1>3, Moves, "idle" \in Locations, NoRequest \in Request DEF Locations, NoRequest, Request

(* Where a handler goes once its statement is committed.                   *)
LEMMA CommittedMoves ==
  ASSUME TypeOK, NEW t \in Threads, AfterCommit(t)
  PROVE  /\ OnlyMoves(t)
         /\ pc' \in [Threads -> Locations] /\ req' \in [Threads -> Request]
         /\ \/ /\ req[t].statement = "insert" /\ req'[t] = req[t]
               /\ \/ CheckoutMode = "mock" /\ pc'[t] = "select"
                  \/ pc'[t] \in {"respond", "provider"}
            \/ /\ req[t].statement = "update" /\ req[t].op = "admin"
               /\ pc'[t] = "execute" /\ req'[t] = [req[t] EXCEPT !.statement = "audit"]
            \/ /\ req[t].statement # "insert"
               /\ ~(req[t].statement = "update" /\ req[t].op = "admin")
               /\ pc'[t] = "respond" /\ req'[t] = req[t]
<1>1. CASE req[t].statement = "insert"
  BY <1>1 DEF AfterCommit, Goto, OnlyMoves, TypeOK, Locations
<1>2. CASE req[t].statement = "update" /\ req[t].op = "admin"
  <2>1. [req[t] EXCEPT !.statement = "audit"] \in Request
    <3>1. req[t] \in Request
      BY DEF TypeOK
    <3>2. QED
      BY <3>1 DEF Request, Statements
  <2>2. /\ pc' = [pc EXCEPT ![t] = "execute"]
        /\ req' = [req EXCEPT ![t] = [req[t] EXCEPT !.statement = "audit"]]
    BY <1>2 DEF AfterCommit, Goto
  <2>3. QED
    BY <1>2, <2>1, <2>2 DEF OnlyMoves, TypeOK, Locations
<1>3. CASE /\ req[t].statement # "insert"
           /\ ~(req[t].statement = "update" /\ req[t].op = "admin")
  <2>1. pc' = [pc EXCEPT ![t] = "respond"] /\ req' = req
    BY <1>3 DEF AfterCommit, Goto
  <2>2. QED
    BY <1>3, <2>1 DEF OnlyMoves, TypeOK, Locations
<1>4. QED
  BY <1>1, <1>2, <1>3

LEMMA TypedStatement ==
  ASSUME Typed, NEW t \in Threads,
         \/ ExecuteStatement(t) \/ BeginTransaction(t) \/ WriteStatement(t)
         \/ ViolateConstraint(t) \/ LookBeforeCommit(t) \/ CommitTransaction(t)
  PROVE  Typed'
<1> USE DEF external, history, counters
<1>0. /\ TypeOK /\ Shape /\ RequestShape(t, req[t]) /\ req[t] \in Request
      /\ db \in [view : Tables, disk : Tables, open : BOOLEAN]
  BY DEF Typed, Shape, TypeOK
<1>1. UNCHANGED <<external, history, counters>>
  BY DEF ExecuteStatement, BeginTransaction, WriteStatement, ViolateConstraint,
         LookBeforeCommit, CommitTransaction
<1>2. /\ KnowledgeKept /\ PaymentsShape' /\ asked' \subseteq issued'
      /\ db' \in [view : Tables, disk : Tables, open : BOOLEAN]
         /\ pc' \in [Threads -> Locations] /\ req' \in [Threads -> Request] => TypeOK'
  BY <1>0, <1>1 DEF TypeOK, KnowledgeKept, PaymentsShape, Shape
<1>3. CASE ExecuteStatement(t)
  <2> DEFINE r == [req[t] EXCEPT !.expires = RenewedExpiry(req[t].expires, now, req[t].days)]
  <2>1. r \in Request
    BY <1>0, DurationsAssumption DEF TypeOK, Request, RenewedExpiry
  <2>2. /\ pc' \in [Threads -> Locations] /\ pc'[t] \in {"write", "begin"}
        /\ req' = [req EXCEPT ![t] = r] \/ req' = req
        /\ OnlyMoves(t) /\ db' = db
    BY <1>0, <1>3 DEF ExecuteStatement, Goto, OnlyMoves, TypeOK, Locations
  <2>3. /\ req' \in [Threads -> Request]
        /\ req'[t] = r \/ req'[t] = req[t]
    BY <1>0, <2>1, <2>2 DEF TypeOK
  <2>4. RequestShape(t, req[t])'
    <3>1. /\ req'[t].op = req[t].op /\ req'[t].statement = req[t].statement
          /\ req'[t].target = req[t].target /\ req'[t].payment = req[t].payment
      BY <1>0, <2>3 DEF Request
    <3>2. QED
      BY <1>0, <1>1, <1>3, <2>2, <3>1 DEF RequestShape, InStatement, ExecuteStatement, NoRequest
  <2>5. QED
    BY <1>0, <1>2, <2>2, <2>3, <2>4, ShapeOfOthers
<1>4. CASE BeginTransaction(t)
  <2>1. db' \in [view : Tables, disk : Tables, open : BOOLEAN]
    BY <1>0, <1>4, ConnectionType DEF BeginTransaction
  <2>2. \/ Leave(t)
        \/ pc' = [pc EXCEPT ![t] = "write"] /\ req' = req
    BY <1>4 DEF BeginTransaction, Goto
  <2>3. OnlyMoves(t) /\ TypeOK' /\ RequestShape(t, req[t])'
    <3>1. CASE Leave(t)
      BY <1>0, <1>2, <2>1, <3>1, LeavingShape
    <3>2. CASE pc' = [pc EXCEPT ![t] = "write"] /\ req' = req
      BY <1>0, <1>1, <1>2, <1>4, <2>1, <3>2
         DEF RequestShape, InStatement, OnlyMoves, TypeOK, Locations, BeginTransaction
    <3>3. QED
      BY <2>2, <3>1, <3>2
  <2>4. QED
    BY <1>2, <2>3, ShapeOfOthers
<1>5. CASE WriteStatement(t)
  <2>1. Written(req[t], db.view) \in Tables
    <3>1. /\ req[t].statement \in {"insert", "update", "audit"} => req[t].target \in Tokens
          /\ req[t].statement = "account" => req[t].target \in Tokens \cup Devices
          /\ db.view \in Tables
      BY <1>0, <1>5 DEF WriteStatement, RequestShape, TypeOK
    <3>2. QED
      BY <1>0, <3>1, WrittenType
  <2>2. db' \in [view : Tables, disk : Tables, open : BOOLEAN]
    BY <1>0, <1>5, <2>1, ConnectionType DEF WriteStatement
  <2>3. OnlyMoves(t) /\ TypeOK' /\ RequestShape(t, req[t])'
    BY <1>0, <1>1, <1>2, <1>5, <2>2
       DEF RequestShape, InStatement, OnlyMoves, TypeOK, Locations, WriteStatement, Goto
  <2>4. QED
    BY <1>2, <2>3, ShapeOfOthers
<1>6. CASE ViolateConstraint(t)
  <2>1. OnlyMoves(t) /\ TypeOK' /\ RequestShape(t, req[t])'
    BY <1>0, <1>2, <1>6, LeavingShape DEF ViolateConstraint
  <2>2. QED
    BY <1>2, <2>1, ShapeOfOthers
<1>7. ASSUME AfterCommit(t), pc[t] \in {"commit", "committing"}
      PROVE  RequestShape(t, req[t])'
  <2>1. req[t].statement # "none"
    BY <1>0, <1>7 DEF RequestShape, InStatement
  <2>2. QED
    BY <1>0, <1>1, <1>7, <2>1, CommittedMoves DEF RequestShape, InStatement, Request, Statements
<1>8. CASE LookBeforeCommit(t)
  <2>1. CASE db.open
    BY <1>0, <1>1, <1>2, <1>8, <2>1, ShapeOfOthers
       DEF RequestShape, InStatement, OnlyMoves, TypeOK, Locations, LookBeforeCommit, Goto
  <2>2. CASE ~db.open
    BY <1>0, <1>2, <1>7, <1>8, <2>2, CommittedMoves, ShapeOfOthers DEF LookBeforeCommit
  <2>3. QED
    BY <2>1, <2>2
<1>9. CASE CommitTransaction(t)
  <2>1. db' \in [view : Tables, disk : Tables, open : BOOLEAN]
    BY <1>0, <1>9, ConnectionType DEF CommitTransaction
  <2>2. CASE db.open
    BY <1>0, <1>2, <1>7, <1>9, <2>1, <2>2, CommittedMoves, ShapeOfOthers DEF CommitTransaction
  <2>3. CASE ~db.open
    <3>1. OnlyMoves(t) /\ TypeOK' /\ RequestShape(t, req[t])'
      BY <1>0, <1>2, <1>9, <2>1, <2>3, LeavingShape DEF CommitTransaction
    <3>2. QED
      BY <1>2, <3>1, ShapeOfOthers
  <2>4. QED
    BY <2>2, <2>3
<1>10. QED
  BY <1>3, <1>4, <1>5, <1>6, <1>8, <1>9

LEMMA TypedCall ==
  ASSUME Typed, NEW t \in Threads,
         \/ FetchPayment(t) \/ SelectSubscription(t) \/ CreatePayment(t)
         \/ RefusePayment(t) \/ Respond(t) \/ AbandonRequest(t)
  PROVE  Typed'
<1> USE DEF external, history, counters
<1>0. /\ TypeOK /\ Shape /\ RequestShape(t, req[t]) /\ req[t] \in Request
  BY DEF Typed, Shape, TypeOK
<1>1. CASE FetchPayment(t)
  <2> DEFINE p == req[t].payment
  <2>1. /\ UNCHANGED <<db, external, history, counters>> /\ pc[t] = "fetch"
        /\ p \in Payments /\ req[t].op \in {"webhook", "receipt"} /\ req[t].statement = "none"
    BY <1>0, <1>1 DEF FetchPayment, RequestShape
  <2>2. KnowledgeKept /\ PaymentsShape' /\ asked' \subseteq issued'
    BY <1>0, <2>1 DEF KnowledgeKept, PaymentsShape, Shape
  <2>3. CASE req[t].op = "webhook" /\ PaymentSucceeded(p)
    <3> DEFINE r == [req[t] EXCEPT !.target = payments[p].target, !.days = payments[p].days]
    <3>1. /\ pc' = [pc EXCEPT ![t] = "select"] /\ req' = [req EXCEPT ![t] = r]
      BY <1>1, <2>3 DEF FetchPayment, Goto
    <3>2. r \in Request
      BY <1>0, <2>1 DEF TypeOK, Request, Payment
    <3>3. OnlyMoves(t) /\ TypeOK' /\ pc'[t] = "select" /\ req'[t] = r
      BY <1>0, <2>1, <3>1, <3>2 DEF OnlyMoves, TypeOK, Locations
    <3>4. /\ r.op = "webhook" /\ r.statement = "none" /\ r.payment = p
          /\ r.target = payments[p].target /\ r.target \in Tokens \cup Devices
          /\ payments[p].status = "succeeded"
      BY <1>0, <2>1, <2>3 DEF Request, PaymentSucceeded, Shape
    <3>5. RequestShape(t, req[t])'
      BY <2>1, <3>3, <3>4 DEF RequestShape, InStatement
    <3>6. QED
      BY <2>2, <3>3, <3>5, ShapeOfOthers
  <2>4. CASE req[t].op = "receipt" /\ PaymentSucceeded(p) /\ ReceiptMatches(req[t])
    <3> DEFINE r == [req[t] EXCEPT !.statement = "account"]
    <3>1. /\ pc' = [pc EXCEPT ![t] = "execute"] /\ req' = [req EXCEPT ![t] = r]
      BY <1>1, <2>4 DEF FetchPayment, Goto
    <3>2. r \in Request
      BY <1>0 DEF Request, Statements
    <3>3. OnlyMoves(t) /\ TypeOK' /\ pc'[t] = "execute" /\ req'[t] = r
      BY <1>0, <2>1, <3>1, <3>2 DEF OnlyMoves, TypeOK, Locations
    <3>4. /\ r.op = "receipt" /\ r.statement = "account" /\ r.target = req[t].target
          /\ r.target \in Devices \cup claimed
      BY <1>0, <2>4 DEF Request, RequestShape
    <3>5. RequestShape(t, req[t])'
      BY <2>1, <3>3, <3>4 DEF RequestShape, InStatement
    <3>6. QED
      BY <2>2, <3>3, <3>5, ShapeOfOthers
  <2>5. CASE /\ ~(req[t].op = "webhook" /\ PaymentSucceeded(p))
             /\ ~(req[t].op = "receipt" /\ PaymentSucceeded(p) /\ ReceiptMatches(req[t]))
    <3>1. Leave(t)
      BY <1>1, <2>5 DEF FetchPayment
    <3>2. OnlyMoves(t) /\ TypeOK' /\ RequestShape(t, req[t])'
      BY <1>0, <2>1, <3>1, LeavingShape DEF TypeOK
    <3>3. QED
      BY <2>2, <3>2, ShapeOfOthers
  <2>6. QED
    BY <2>3, <2>4, <2>5
<1>2. CASE SelectSubscription(t)
  <2> DEFINE tok == req[t].target
  <2>1. UNCHANGED <<db, external, history, counters>> /\ pc[t] = "select"
    BY <1>2 DEF SelectSubscription
  <2>2. KnowledgeKept /\ PaymentsShape' /\ asked' \subseteq issued'
    BY <1>0, <2>1 DEF KnowledgeKept, PaymentsShape, Shape
  <2>3. CASE Recorded(tok)
    <3> DEFINE r == [req[t] EXCEPT !.expires = sub(tok).expires,
                       !.payment = IF req[t].payment = None THEN sub(tok).payment
                                   ELSE req[t].payment,
                       !.statement = "update"]
    <3>1. pc' = [pc EXCEPT ![t] = "execute"] /\ req' = [req EXCEPT ![t] = r]
      BY <1>2, <2>3 DEF SelectSubscription, Goto
    <3>2. tok \in Tokens /\ sub(tok) \in Row
      BY <1>0, <2>3 DEF Recorded, sub, TypeOK, Tables
    <3>3. r \in Request
      BY <1>0, <3>2 DEF Request, Row, Statements
    <3>4. OnlyMoves(t) /\ TypeOK' /\ pc'[t] = "execute" /\ req'[t] = r
      BY <1>0, <2>1, <3>1, <3>3 DEF OnlyMoves, TypeOK, Locations
    <3>5. /\ r.op = req[t].op /\ r.statement = "update" /\ r.target = tok
          /\ req[t].op = "webhook" => r.payment = req[t].payment
      BY <1>0 DEF Request, RequestShape
    <3>6. RequestShape(t, req[t])'
      BY <1>0, <2>1, <3>2, <3>4, <3>5 DEF RequestShape, InStatement
    <3>7. QED
      BY <2>2, <3>4, <3>6, ShapeOfOthers
  <2>4. CASE ~Recorded(tok) /\ req[t].op = "webhook"
    <3> DEFINE r == [req[t] EXCEPT !.statement = "account"]
    <3>1. pc' = [pc EXCEPT ![t] = "execute"] /\ req' = [req EXCEPT ![t] = r]
      BY <1>2, <2>4 DEF SelectSubscription, Goto
    <3>2. r \in Request
      BY <1>0 DEF Request, Statements
    <3>3. OnlyMoves(t) /\ TypeOK' /\ pc'[t] = "execute" /\ req'[t] = r
      BY <1>0, <2>1, <3>1, <3>2 DEF OnlyMoves, TypeOK, Locations
    <3>4. /\ r.op = "webhook" /\ r.statement = "account" /\ r.target = tok
          /\ r.payment = req[t].payment
      BY <1>0, <2>4 DEF Request
    <3>5. RequestShape(t, req[t])'
      BY <1>0, <2>1, <2>4, <3>3, <3>4 DEF RequestShape, InStatement
    <3>6. QED
      BY <2>2, <3>3, <3>5, ShapeOfOthers
  <2>5. CASE ~Recorded(tok) /\ req[t].op # "webhook"
    <3>1. OnlyMoves(t) /\ TypeOK' /\ RequestShape(t, req[t])'
      BY <1>0, <1>2, <2>1, <2>5, LeavingShape DEF SelectSubscription, TypeOK
    <3>2. QED
      BY <2>2, <3>1, ShapeOfOthers
  <2>6. QED
    BY <2>3, <2>4, <2>5
<1>3. CASE CreatePayment(t)
  <2>1. PICK p \in Payments :
          /\ payments[p].status = "none"
          /\ payments' = [payments EXCEPT ![p] = [status |-> "pending",
                            target |-> req[t].target, days |-> req[t].days]]
    BY <1>3 DEF CreatePayment
  <2>2. /\ pc[t] = "provider" /\ pc' = [pc EXCEPT ![t] = "respond"] /\ req' = req
        /\ UNCHANGED <<db, now, history, counters>>
    BY <1>3 DEF CreatePayment, Goto
  <2>3. req[t].statement = "insert" /\ req[t].op = "checkout" /\ req[t].target \in Tokens
    BY <1>0, <2>2 DEF RequestShape
  <2>4. [status |-> "pending", target |-> req[t].target, days |-> req[t].days] \in Payment
    BY <1>0 DEF Payment, Request
  <2>5. OnlyMoves(t) /\ TypeOK' /\ pc'[t] = "respond"
    BY <1>0, <2>1, <2>2, <2>4 DEF OnlyMoves, TypeOK, Locations
  <2>6. KnowledgeKept /\ PaymentsShape' /\ asked' \subseteq issued'
    BY <1>0, <2>1, <2>2, <2>3 DEF KnowledgeKept, PaymentsShape, Shape, TypeOK
  <2>7. RequestShape(t, req[t])'
    BY <1>0, <2>2, <2>3, <2>5 DEF RequestShape, InStatement
  <2>8. QED
    BY <2>5, <2>6, <2>7, ShapeOfOthers
<1>4. CASE RefusePayment(t)
  <2>1. OnlyMoves(t) /\ TypeOK' /\ RequestShape(t, req[t])'
    BY <1>0, <1>4, LeavingShape DEF RefusePayment, TypeOK
  <2>2. KnowledgeKept /\ PaymentsShape' /\ asked' \subseteq issued'
    BY <1>0, <1>4 DEF RefusePayment, KnowledgeKept, PaymentsShape, Shape
  <2>3. QED
    BY <2>1, <2>2, ShapeOfOthers
<1>5. CASE Respond(t)
  <2>1. /\ Leave(t) /\ pc[t] = "respond"
        /\ UNCHANGED <<db, external, drawn, asked, claimed, forgotten, counters>>
        /\ issued \subseteq issued' /\ issued' \subseteq issued \cup {req[t].target}
        /\ req[t].op # "checkout" => issued' = issued
    BY <1>5 DEF Respond
  <2>2. req[t].statement # "none"
    BY <1>0, <2>1 DEF RequestShape, InStatement
  <2>3. /\ req[t].op \in {"checkout", "admin"} => req[t].target \in Tokens
        /\ req[t].op = "webhook" => req[t].payment \in Payments
        /\ req[t].statement \in {"update", "audit"} => req[t].target \in Tokens
    BY <1>0, <2>1, <2>2 DEF RequestShape, Request, Statements
  <2>4. /\ issued' \subseteq Tokens /\ vouched' \subseteq Tokens /\ acked' \subseteq Payments
        /\ granted' \in [Tokens -> Nat]
    <3>1. issued' \subseteq Tokens /\ vouched' \subseteq Tokens /\ acked' \subseteq Payments
      BY <1>0, <1>5, <2>3 DEF Respond, TypeOK
    <3>2. req[t].days \in Nat
      <4>1. req[t].days \in Durations \cup {0}
        BY <1>0 DEF Request
      <4>2. \A n \in Durations \cup {0} : n \in Nat
        BY DurationsAssumption
      <4>3. QED
        BY <4>1, <4>2, Zenon
    <3>3. \/ granted' = granted
          \/ /\ req[t].target \in Tokens
             /\ granted' = [granted EXCEPT ![req[t].target] = @ + req[t].days]
      BY <1>5, <2>3 DEF Respond
    <3>4. granted' \in [Tokens -> Nat]
      BY <1>0, <3>2, <3>3 DEF TypeOK
    <3>5. QED
      BY <3>1, <3>4
  <2>5. OnlyMoves(t) /\ TypeOK' /\ RequestShape(t, req[t])'
    BY <1>0, <2>1, <2>4, LeavingShape DEF TypeOK
  <2>6. KnowledgeKept /\ PaymentsShape' /\ asked' \subseteq issued'
    BY <1>0, <2>1 DEF KnowledgeKept, PaymentsShape, Shape
  <2>7. QED
    BY <2>5, <2>6, ShapeOfOthers
<1>6. CASE AbandonRequest(t)
  <2>1. OnlyMoves(t) /\ TypeOK' /\ RequestShape(t, req[t])'
    BY <1>0, <1>6, LeavingShape DEF AbandonRequest, TypeOK
  <2>2. KnowledgeKept /\ PaymentsShape' /\ asked' \subseteq issued'
    BY <1>0, <1>6 DEF AbandonRequest, KnowledgeKept, PaymentsShape, Shape
  <2>3. QED
    BY <2>1, <2>2, ShapeOfOthers
<1>7. QED
  BY <1>1, <1>2, <1>3, <1>4, <1>5, <1>6

LEMMA TypedOutside ==
  ASSUME Typed,
         \/ \E p \in Payments : CreateDevicePayment(p) \/ Settle(p)
         \/ Crash \/ Tick \/ UNCHANGED vars
  PROVE  Typed'
<1> USE DEF external, history, counters
<1>0. TypeOK /\ Shape
  BY DEF Typed
<1>1. ASSUME TypeOK', KnowledgeKept, PaymentsShape', UNCHANGED <<pc, req, asked, issued>>
      PROVE  Typed'
  BY <1>0, <1>1 DEF Typed, Shape, PaymentsShape, KnowledgeKept, RequestShape, TypeOK, Request
<1>2. ASSUME NEW p \in Payments, CreateDevicePayment(p) PROVE Typed'
  <2>1. PICK d \in Devices \cup issued, days \in Durations :
          payments' = [payments EXCEPT ![p] = [status |-> "pending",
                                              target |-> d, days |-> days]]
    BY <1>2 DEF CreateDevicePayment
  <2>2. TypeOK'
    <3>1. d \in Tokens \cup Devices
      BY <1>0, <2>1 DEF TypeOK
    <3>2. QED
      BY <1>0, <1>2, <2>1, <3>1 DEF CreateDevicePayment, TypeOK, Payment
  <2>3. KnowledgeKept /\ PaymentsShape'
    BY <1>0, <1>2, <2>1 DEF CreateDevicePayment, KnowledgeKept, PaymentsShape, Shape, TypeOK
  <2>4. QED
    BY <1>1, <1>2, <2>2, <2>3 DEF CreateDevicePayment
<1>3. ASSUME NEW p \in Payments, Settle(p) PROVE Typed'
  <2>1. PICK status \in {"succeeded", "canceled"} :
          payments' = [payments EXCEPT ![p].status = status]
    BY <1>3 DEF Settle
  <2>2. TypeOK'
    BY <1>0, <1>3, <2>1 DEF Settle, TypeOK, Payment
  <2>3. KnowledgeKept /\ PaymentsShape'
    BY <1>0, <1>3, <2>1 DEF Settle, KnowledgeKept, PaymentsShape, Shape, TypeOK, Payment
  <2>4. QED
    BY <1>1, <1>3, <2>2, <2>3 DEF Settle
<1>4. CASE Crash
  <2>1. db' \in [view : Tables, disk : Tables, open : BOOLEAN]
    BY <1>0, <1>4 DEF Crash, Reconnect, Connect, TypeOK
  <2>2. NoRequest \in Request
    BY DEF NoRequest, Request
  <2>3. TypeOK'
    BY <1>0, <1>4, <2>1, <2>2 DEF Crash, TypeOK, Locations
  <2>4. \A t \in Threads : RequestShape(t, req[t])'
    BY <1>4 DEF Crash, RequestShape, NoRequest, InStatement
  <2>5. QED
    BY <1>0, <1>4, <2>3, <2>4 DEF Crash, Typed, Shape
<1>5. CASE Tick
  BY <1>0, <1>1, <1>5 DEF Tick, TypeOK, KnowledgeKept, PaymentsShape, Shape
<1>6. CASE UNCHANGED vars
  BY <1>0, <1>1, <1>6 DEF vars, TypeOK, KnowledgeKept, PaymentsShape, Shape
<1>7. QED
  BY <1>2, <1>3, <1>4, <1>5, <1>6

LEMMA TypedStep == Typed /\ [Next]_vars => Typed'
<1> SUFFICES ASSUME Typed, [Next]_vars PROVE Typed'
  OBVIOUS
<1>1. ASSUME NEW t \in Threads, ThreadStep(t) PROVE Typed'
  BY <1>1, TypedStart, TypedStartClient, TypedStartWebhook, TypedStatement, TypedCall
     DEF ThreadStep, HandlerStep
<1>2. QED
  BY <1>1, TypedOutside DEF Next

(* TypeOK, with the shape that makes it inductive: a handler reaches each  *)
(* statement only with the locals that statement needs.                    *)
THEOREM TypeCorrect == Spec => []TypeOK
<1>1. Typed => TypeOK
  BY DEF Typed
<1>2. QED
  BY <1>1, TypedInit, TypedStep, PTL DEF Spec

-----------------------------------------------------------------------------
(* The inductive invariant.  A row only moves forward, in the view as on   *)
(* disk, and an account is gone only once its deletion was asked for, so   *)
(* what a waiting request relies on stays true while others run.           *)
Forward(before, after) ==
  /\ before.status # "absent" => after.status # "absent"
  /\ before.status = "active" => after.status = "active"

TablesGrow ==
  /\ \A tok \in Tokens : /\ Forward(sub(tok), sub(tok)')
                         /\ Forward(db.disk.subs[tok], db'.disk.subs[tok])
  /\ db.view.audit \subseteq db'.view.audit /\ db.disk.audit \subseteq db'.disk.audit
  /\ db.view.accounts \subseteq db'.view.accounts \cup forgotten'
  /\ db.disk.accounts \subseteq db'.disk.accounts \cup forgotten'

LEMMA CausesLast ==
  ASSUME Typed, Typed', KnowledgeKept, NEW tok \in Tokens
  PROVE  /\ Entitled(tok) => Entitled(tok)'
         /\ \A row \in Row : HasCause(tok, row) => HasCause(tok, row)'
<1>1. paid(tok) => paid(tok)'
  BY DEF KnowledgeKept, paid
<1>2. Entitled(tok) => Entitled(tok)'
  BY <1>1 DEF KnowledgeKept, Entitled
<1>3. QED
  BY <1>2 DEF HasCause, KnowledgeKept, Row

(* A request that waits keeps what it relies on, unless its token is       *)
(* inserted by another.                                                    *)
WaitsToInsert(u) == /\ req[u].statement = "insert"
                    /\ pc[u] \in {"execute", "begin", "write"}

LEMMA SoundOfOthers ==
  ASSUME IInv, Typed', NEW t \in Threads, OnlyMoves(t), KnowledgeKept, TablesGrow,
         \/ req'[t].op # "checkout"
         \/ req[t].op = "checkout" /\ req'[t].target = req[t].target
         \/ req'[t].target \notin drawn,
         \A u \in Threads \ {t} : WaitsToInsert(u) => sub(req[u].target)'.status = "absent"
  PROVE  \A u \in Threads \ {t} : RequestSound(u, req[u])'
<1> SUFFICES ASSUME NEW u \in Threads \ {t} PROVE RequestSound(u, req[u])'
  OBVIOUS
<1>0. /\ Typed /\ TypeOK /\ RequestSound(u, req[u]) /\ RequestShape(u, req[u])
      /\ \A w \in Threads : RequestShape(w, req[w])
  BY DEF IInv, Typed, Shape
<1>1. pc'[u] = pc[u] /\ req'[u] = req[u]
  BY <1>0 DEF TypeOK, OnlyMoves
<1>2. req[u].statement \in {"insert", "update", "audit"} => req[u].target \in Tokens
  BY <1>0 DEF RequestShape
<1>3. CASE req[u].statement = "insert"
  <2>1. \A w \in Threads \ {t} : req'[w] = req[w]
    BY <1>0 DEF TypeOK, OnlyMoves
  <2>2. req[u].op = "checkout" /\ req[u].target \in drawn /\ req[u].target \in Tokens
    BY <1>0, <1>3 DEF RequestShape
  <2>3. WaitsToInsert(u) =>
          \A w \in Threads \ {u} : req'[w].op = "checkout" => req'[w].target # req'[u].target
    <3> SUFFICES ASSUME WaitsToInsert(u), NEW w \in Threads \ {u}, req'[w].op = "checkout"
                 PROVE  req'[w].target # req[u].target
      BY <1>1
    <3>1. req[w].op = "checkout" => req[w].target # req[u].target
      BY <1>0, <1>3 DEF RequestSound, WaitsToInsert
    <3>2. CASE w # t
      BY <2>1, <3>1, <3>2
    <3>3. CASE w = t
      BY <2>2, <3>1, <3>3
    <3>4. QED
      BY <3>2, <3>3
  <2>4. LET tok == req[u].target
        IN  /\ sub(tok).status # "absent" => sub(tok)'.status # "absent"
            /\ durable(tok) => durable(tok)'
    BY <1>1, <2>2 DEF TablesGrow, Forward, durable, sub
  <2>5. WaitsToInsert(u) => sub(req[u].target)'.status = "absent"
    OBVIOUS
  <2>6. WaitsToInsert(u) <=> pc[u] \in {"execute", "begin", "write"}
    BY <1>3 DEF WaitsToInsert
  <2>7. /\ req'[u].statement = "insert" /\ req'[u].op = "checkout"
        /\ pc'[u] \in {"execute", "begin", "write"} =>
             /\ sub(req[u].target)'.status = "absent"
             /\ \A w \in Threads \ {u} :
                  req'[w].op = "checkout" => req'[w].target # req'[u].target
    BY <1>1, <1>3, <2>2, <2>3, <2>5, <2>6
  <2>8. /\ pc'[u] \in {"commit", "committing"} => sub(req[u].target)'.status # "absent"
        /\ pc'[u] \in {"select", "provider", "respond"} => durable(req[u].target)'
        /\ pc'[u] = "select" => CheckoutMode = "mock"
    BY <1>0, <1>1, <1>3, <2>4 DEF RequestSound
  <2>9. req'[u].payment = None
    BY <1>0, <1>1, <1>3 DEF RequestSound
  <2>10. QED
    BY <2>7, <2>8, <2>9 DEF RequestSound
<1>4. CASE req[u].statement = "update"
  <2>1. Entitled(req[u].target)'
    <3>1. req[u].target \in Tokens /\ Entitled(req[u].target)
      BY <1>0, <1>2, <1>4 DEF RequestSound
    <3>2. \A tok \in Tokens : Entitled(tok) => Entitled(tok)'
      BY <1>0, CausesLast
    <3>3. QED
      BY <1>1, <3>1, <3>2 DEF Entitled, paid
  <2>2. req[u].payment # None => req[u].payment \in Payments
    BY <1>0 DEF TypeOK, Request
  <2>3. QED
    BY <1>0, <1>1, <1>2, <1>4, <2>1, <2>2
       DEF RequestSound, TablesGrow, Forward, durable, sub, KnowledgeKept
<1>5. CASE req[u].statement = "account"
  BY <1>0, <1>1, <1>5 DEF RequestSound, TablesGrow, KnowledgeKept
<1>6. CASE req[u].statement \in {"audit", "forget", "other", "none"}
  BY <1>0, <1>1, <1>2, <1>6 DEF RequestSound, TablesGrow, Forward
<1>7. QED
  BY <1>0, <1>3, <1>4, <1>5, <1>6 DEF TypeOK, Request, Statements

(* Nothing that was drawn, asked or issued is taken back, and a payment    *)
(* that has succeeded keeps its target.                                    *)
LEMMA KnowledgeLasts == TypeOK /\ [Next]_vars => KnowledgeKept
<1> SUFFICES ASSUME TypeOK, [Next]_vars PROVE KnowledgeKept
  OBVIOUS
<1> USE DEF external, history, counters
<1>1. ASSUME NEW t \in Threads, ThreadStep(t) PROVE KnowledgeKept
  <2>1. CASE StartCheckout(t)
    BY <2>1 DEF StartCheckout, KnowledgeKept
  <2>2. CASE StartAdminActivation(t)
    BY <2>2 DEF StartAdminActivation, KnowledgeKept
  <2>3. CASE \/ StartReceipt(t) \/ StartDeletion(t) \/ StartOther(t)
             \/ \E p \in Payments : StartWebhook(t, p)
    BY <2>3 DEF StartReceipt, StartDeletion, StartOther, StartWebhook, KnowledgeKept
  <2>4. CASE \/ FetchPayment(t) \/ SelectSubscription(t) \/ ExecuteStatement(t)
             \/ BeginTransaction(t) \/ WriteStatement(t)
    BY <2>4 DEF FetchPayment, SelectSubscription, ExecuteStatement, BeginTransaction,
                WriteStatement, KnowledgeKept
  <2>5. CASE \/ LookBeforeCommit(t) \/ CommitTransaction(t) \/ RefusePayment(t)
             \/ ViolateConstraint(t) \/ AbandonRequest(t)
    BY <2>5 DEF LookBeforeCommit, CommitTransaction, RefusePayment, ViolateConstraint,
                AbandonRequest, KnowledgeKept
  <2>6. CASE CreatePayment(t)
    BY <2>6 DEF CreatePayment, KnowledgeKept, TypeOK
  <2>7. CASE Respond(t)
    BY <2>7 DEF Respond, KnowledgeKept
  <2>8. QED
    BY <1>1, <2>1, <2>2, <2>3, <2>4, <2>5, <2>6, <2>7 DEF ThreadStep, HandlerStep
<1>2. ASSUME NEW p \in Payments, CreateDevicePayment(p) \/ Settle(p) PROVE KnowledgeKept
  BY <1>2 DEF CreateDevicePayment, Settle, KnowledgeKept, TypeOK
<1>3. CASE Crash \/ Tick \/ UNCHANGED vars
  BY <1>3 DEF Crash, Tick, vars, KnowledgeKept
<1>4. QED
  BY <1>1, <1>2, <1>3 DEF Next

(* What the tables promised stays promised while they grow.                *)
LEMMA PromisesLast ==
  ASSUME IInv, Typed', KnowledgeKept, TablesGrow
  PROVE  /\ (\A p \in Payments : payments'[p].target \in Tokens =>
                payments'[p].target = payments[p].target) => PaymentHasDurableToken'
         /\ UNCHANGED <<issued, granted, vouched, acked>> => AnswersAreDurable'
<1>1. TypeOK /\ TypeOK' /\ PaymentHasDurableToken /\ AnswersAreDurable /\ Caused
  BY DEF IInv, Typed
<1>2. \A tok \in Tokens : /\ durable(tok) => db'.disk.subs[tok].status # "absent"
                          /\ db.disk.subs[tok].status = "active" =>
                               db'.disk.subs[tok].status = "active"
  BY DEF TablesGrow, Forward, durable
<1>3. ASSUME \A p \in Payments : payments'[p].target \in Tokens =>
                payments'[p].target = payments[p].target
      PROVE  PaymentHasDurableToken'
  BY <1>1, <1>2, <1>3 DEF PaymentHasDurableToken, durable
<1>4. ASSUME UNCHANGED <<issued, granted, vouched, acked>> PROVE AnswersAreDurable'
  <2>1. issued \subseteq Tokens /\ acked \subseteq Payments
    BY <1>1 DEF TypeOK
  <2>2. /\ \A tok \in issued' : db'.disk.subs[tok].status # "absent"
        /\ \A tok \in Tokens : granted'[tok] > 0 => db'.disk.subs[tok].status = "active"
    BY <1>1, <1>2, <1>4, <2>1 DEF AnswersAreDurable, durable
  <2>3. ASSUME NEW p \in acked'
        PROVE  IF payments'[p].target \in Tokens
               THEN db'.disk.subs[payments'[p].target].status = "active"
               ELSE payments'[p].target \in db'.disk.accounts \cup forgotten'
    <3>1. p \in acked /\ p \in Payments /\ payments'[p] = payments[p]
      BY <1>1, <1>4, <2>1, <2>3 DEF Caused, KnowledgeKept
    <3>2. IF payments[p].target \in Tokens
          THEN db.disk.subs[payments[p].target].status = "active"
          ELSE payments[p].target \in db.disk.accounts \cup forgotten
      BY <1>1, <3>1 DEF AnswersAreDurable
    <3>3. QED
      BY <1>2, <3>1, <3>2 DEF TablesGrow, KnowledgeKept
  <2>4. vouched' \subseteq db'.disk.audit
    BY <1>1, <1>4 DEF AnswersAreDurable, TablesGrow
  <2>5. QED
    BY <2>2, <2>3, <2>4 DEF AnswersAreDurable
<1>5. QED
  BY <1>3, <1>4

(* A token that no other request inserts.                                  *)
OwnToken(t) == \/ req'[t].op # "checkout"
               \/ req[t].op = "checkout" /\ req'[t].target = req[t].target
               \/ req'[t].target \notin drawn

(* A step of one thread that leaves the tables alone and promises nothing  *)
(* new disturbs only what its own request relies on.                       *)
LEMMA SilentStep ==
  ASSUME IInv, Typed', KnowledgeKept, NEW t \in Threads, OnlyMoves(t), OwnToken(t),
         db'.view = db.view, db'.disk = db.disk, NothingPending(db'),
         UNCHANGED <<payments, issued, granted, vouched, acked>>,
         RequestSound(t, req[t])'
  PROVE  IInv'
<1>1. TypeOK /\ TypeOK' /\ ViewAhead /\ Caused /\ Typed /\ TokenAccountsAreClaimed
  BY DEF IInv, Typed
<1>2. TablesGrow
  BY DEF TablesGrow, Forward, sub
<1>3. PaymentHasDurableToken' /\ AnswersAreDurable'
  BY <1>2, PromisesLast
<1>4. ViewAhead'
  BY <1>1 DEF ViewAhead, durable, sub, KnowledgeKept
<1>5. Caused'
  <2>1. \A tok \in Tokens : sub(tok) \in Row /\ db.disk.subs[tok] \in Row
    BY <1>1 DEF sub, TypeOK, Tables
  <2>2. \A tok \in Tokens : HasCause(tok, sub(tok)) /\ HasCause(tok, db.disk.subs[tok])
    BY <1>1 DEF Caused
  <2>3. \A tok \in Tokens : \A row \in Row : HasCause(tok, row) => HasCause(tok, row)'
    BY <1>1, CausesLast
  <2>4. \A tok \in Tokens : HasCause(tok, sub(tok))' /\ HasCause(tok, db.disk.subs[tok])'
    BY <2>1, <2>2, <2>3 DEF sub, HasCause
  <2>5. QED
    BY <1>1, <2>4 DEF Caused
<1>6. \A u \in Threads : RequestSound(u, req[u])'
  <2>1. \A u \in Threads \ {t} : WaitsToInsert(u) => sub(req[u].target)'.status = "absent"
    <3>1. ASSUME NEW u \in Threads \ {t}, WaitsToInsert(u)
          PROVE  sub(req[u].target)'.status = "absent"
      <4>1. RequestSound(u, req[u]) /\ req'[u] = req[u]
        BY <1>1 DEF IInv, TypeOK, OnlyMoves
      <4>2. QED
        BY <3>1, <4>1 DEF RequestSound, WaitsToInsert, sub
    <3>2. QED
      BY <3>1
  <2>2. \A u \in Threads \ {t} : RequestSound(u, req[u])'
    BY <1>2, <2>1, SoundOfOthers DEF OwnToken
  <2>3. QED
    BY <2>2
<1>7. TokenAccountsAreClaimed'
  BY <1>1 DEF TokenAccountsAreClaimed, KnowledgeKept
<1>8. QED
  BY <1>3, <1>4, <1>5, <1>6, <1>7 DEF IInv, Typed

(* A request that has just started relies on nothing but its new token.    *)
LEMMA SoundStart ==
  ASSUME IInv, Typed', KnowledgeKept, NEW t \in Threads,
         \/ StartCheckout(t) \/ StartAdminActivation(t)
         \/ StartReceipt(t) \/ StartDeletion(t) \/ StartOther(t)
         \/ \E p \in Payments : StartWebhook(t, p)
  PROVE  IInv'
<1> USE DEF external, history, counters
<1>1. TypeOK /\ ViewAhead /\ Shape
  BY DEF IInv
<1>2. CASE StartCheckout(t)
  <2>1. PICK tok \in Tokens \ drawn, days \in Durations :
          /\ Accept(t, "execute", [NoRequest EXCEPT !.op = "checkout", !.target = tok,
                                     !.days = days, !.statement = "insert"])
          /\ UNCHANGED <<db, external, issued, asked, claimed, forgotten, granted, vouched, acked,
                         counters>>
    BY <1>2 DEF StartCheckout, FreshTokens
  <2> DEFINE r == [NoRequest EXCEPT !.op = "checkout", !.target = tok,
                                     !.days = days, !.statement = "insert"]
  <2>2. r \in Request /\ "execute" \in Locations
    BY DEF NoRequest, Request, Statements, Locations
  <2>3. r.op = "checkout" /\ r.statement = "insert" /\ r.target = tok /\ r.payment = None
    BY DEF NoRequest
  <2>4. OnlyMoves(t) /\ pc'[t] = "execute" /\ req'[t] = r
    BY <1>1, <2>1, <2>2, Moves
  <2>5. sub(tok).status = "absent"
    BY <1>1, <2>1 DEF ViewAhead
  <2>6. ASSUME NEW u \in Threads \ {t}, req'[u].op = "checkout" PROVE req'[u].target # tok
    <3>1. req'[u] = req[u]
      BY <1>1, <2>4 DEF TypeOK, OnlyMoves
    <3>2. req[u].target \in drawn
      BY <1>1, <2>6, <3>1 DEF Shape, RequestShape
    <3>3. QED
      BY <2>1, <3>1, <3>2
  <2>7. RequestSound(t, req[t])'
    BY <2>1, <2>3, <2>4, <2>5, <2>6 DEF RequestSound, sub
  <2>8. OwnToken(t) /\ NothingPending(db')
    BY <1>1, <2>1, <2>3, <2>4 DEF OwnToken, ViewAhead
  <2> HIDE DEF r
  <2>9. QED
    BY <2>1, <2>4, <2>7, <2>8, SilentStep
<1>3. CASE StartAdminActivation(t)
  <2>1. PICK tok \in issued \cup {None}, days \in Durations :
          /\ Accept(t, "select", [NoRequest EXCEPT !.op = "admin", !.target = tok, !.days = days])
          /\ UNCHANGED <<db, external, drawn, issued, claimed, forgotten, granted, vouched, acked,
                         deliveries, clientRequests, failures>>
    BY <1>3 DEF StartAdminActivation
  <2> DEFINE r == [NoRequest EXCEPT !.op = "admin", !.target = tok, !.days = days]
  <2>2. r \in Request /\ "select" \in Locations
    BY <1>1 DEF NoRequest, Request, Statements, Locations, TypeOK
  <2>3. r.op = "admin" /\ r.statement = "none" /\ r.payment = None
    BY DEF NoRequest
  <2>4. OnlyMoves(t) /\ pc'[t] = "select" /\ req'[t] = r
    BY <1>1, <2>1, <2>2, Moves
  <2>5. RequestSound(t, req[t])'
    BY <2>3, <2>4 DEF RequestSound
  <2>6. QED
    BY <1>1, <2>1, <2>3, <2>4, <2>5, SilentStep DEF OwnToken, ViewAhead
<1>4. CASE StartOther(t)
  <2> DEFINE r == [NoRequest EXCEPT !.op = "other", !.statement = "other"]
  <2>2. r \in Request /\ "execute" \in Locations
    BY DEF NoRequest, Request, Statements, Locations
  <2>3. r.op = "other" /\ r.statement = "other"
    BY DEF NoRequest
  <2>4. OnlyMoves(t) /\ req'[t] = r
    BY <1>1, <1>4, <2>2, Moves DEF StartOther
  <2>5. RequestSound(t, req[t])'
    BY <2>3, <2>4 DEF RequestSound
  <2>6. QED
    BY <1>1, <1>4, <2>3, <2>4, <2>5, SilentStep DEF OwnToken, ViewAhead, StartOther
<1>5. ASSUME NEW p \in Payments, StartWebhook(t, p) PROVE IInv'
  <2> DEFINE r == [NoRequest EXCEPT !.op = "webhook", !.payment = p]
  <2>2. r \in Request /\ "fetch" \in Locations
    BY DEF NoRequest, Request, Statements, Locations
  <2>3. r.op = "webhook" /\ r.statement = "none"
    BY DEF NoRequest
  <2>4. OnlyMoves(t) /\ req'[t] = r
    BY <1>1, <1>5, <2>2, Moves DEF StartWebhook
  <2>5. RequestSound(t, req[t])'
    BY <2>3, <2>4 DEF RequestSound
  <2>6. QED
    BY <1>1, <1>5, <2>3, <2>4, <2>5, SilentStep DEF OwnToken, ViewAhead, StartWebhook
<1>6. CASE StartReceipt(t)
  <2>1. PICK d \in Devices \cup issued :
          /\ \/ Accept(t, "execute", [NoRequest EXCEPT !.op = "receipt", !.target = d,
                                         !.statement = "account"])
             \/ \E p \in Payments, days \in Durations :
                  Accept(t, "fetch", [NoRequest EXCEPT !.op = "receipt", !.target = d,
                                       !.payment = p, !.days = days])
          /\ claimed' = claimed \cup ({d} \cap Tokens)
    BY <1>6 DEF StartReceipt
  <2>2. d \in Tokens \cup Devices /\ d \in Devices \cup claimed'
    BY <1>1, <2>1 DEF TypeOK
  <2>3. UNCHANGED <<db, external, drawn, issued, asked, forgotten, granted, vouched, acked>>
    BY <1>6 DEF StartReceipt
  <2>4. NothingPending(db')
    BY <1>1, <2>3 DEF ViewAhead
  <2>5. CASE Accept(t, "execute", [NoRequest EXCEPT !.op = "receipt", !.target = d,
                                     !.statement = "account"])
    <3> DEFINE r == [NoRequest EXCEPT !.op = "receipt", !.target = d, !.statement = "account"]
    <3>1. r \in Request /\ "execute" \in Locations
      BY <2>2 DEF NoRequest, Request, Statements, Locations
    <3>2. r.op = "receipt" /\ r.statement = "account" /\ r.target = d
      BY DEF NoRequest
    <3>3. OnlyMoves(t) /\ pc'[t] = "execute" /\ req'[t] = r
      BY <1>1, <2>5, <3>1, Moves
    <3>4. RequestSound(t, req[t])' /\ OwnToken(t)
      BY <2>2, <3>2, <3>3 DEF RequestSound, OwnToken
    <3>5. QED
      BY <2>3, <2>4, <3>3, <3>4, SilentStep
  <2>6. ASSUME NEW p \in Payments, NEW days \in Durations,
               Accept(t, "fetch", [NoRequest EXCEPT !.op = "receipt", !.target = d,
                                     !.payment = p, !.days = days])
        PROVE  IInv'
    <3> DEFINE r == [NoRequest EXCEPT !.op = "receipt", !.target = d, !.payment = p, !.days = days]
    <3>1. r \in Request /\ "fetch" \in Locations
      BY <2>2 DEF NoRequest, Request, Statements, Locations
    <3>2. r.op = "receipt" /\ r.statement = "none"
      BY DEF NoRequest
    <3>3. OnlyMoves(t) /\ pc'[t] = "fetch" /\ req'[t] = r
      BY <1>1, <2>6, <3>1, Moves
    <3>4. RequestSound(t, req[t])' /\ OwnToken(t)
      BY <3>2, <3>3 DEF RequestSound, OwnToken
    <3>5. QED
      BY <2>3, <2>4, <3>3, <3>4, SilentStep
  <2>7. QED
    BY <2>1, <2>5, <2>6
<1>7. CASE StartDeletion(t)
  <2>1. PICK d \in db.view.accounts :
          Accept(t, "execute", [NoRequest EXCEPT !.op = "delete", !.target = d,
                                 !.statement = "forget"])
    BY <1>7 DEF StartDeletion
  <2> DEFINE r == [NoRequest EXCEPT !.op = "delete", !.target = d, !.statement = "forget"]
  <2>2. r \in Request /\ "execute" \in Locations
    BY <1>1, <2>1 DEF NoRequest, Request, Statements, Locations, TypeOK, Tables
  <2>3. r.op = "delete" /\ r.statement = "forget"
    BY DEF NoRequest
  <2>4. OnlyMoves(t) /\ req'[t] = r
    BY <1>1, <2>1, <2>2, Moves
  <2>5. RequestSound(t, req[t])' /\ OwnToken(t)
    BY <2>3, <2>4 DEF RequestSound, OwnToken
  <2>6. NothingPending(db') /\ UNCHANGED <<db, payments, issued, granted, vouched, acked>>
    BY <1>1, <1>7 DEF StartDeletion, ViewAhead
  <2> HIDE DEF r
  <2>7. QED
    BY <2>4, <2>5, <2>6, SilentStep
<1>8. QED
  BY <1>2, <1>3, <1>4, <1>5, <1>6, <1>7

(* An ended request relies on nothing.                                     *)
LEMMA SoundLeave ==
  ASSUME IInv, Typed', KnowledgeKept, NEW t \in Threads, Leave(t),
         db' = db, UNCHANGED <<payments, issued, granted, vouched, acked>>
  PROVE  IInv'
<1>1. TypeOK /\ ViewAhead
  BY DEF IInv
<1>2. /\ NoRequest \in Request /\ "idle" \in Locations
      /\ NoRequest.op = "none" /\ NoRequest.statement = "none"
  BY DEF NoRequest, Request, Locations
<1>3. OnlyMoves(t) /\ req'[t] = NoRequest
  BY <1>1, <1>2, Moves
<1>4. RequestSound(t, req[t])'
  BY <1>2, <1>3 DEF RequestSound
<1>5. QED
  BY <1>1, <1>2, <1>3, <1>4, SilentStep DEF OwnToken, ViewAhead

(* What is read before a statement: the payment, the row, the connection.  *)
LEMMA SoundCall ==
  ASSUME IInv, Typed', KnowledgeKept, NEW t \in Threads,
         \/ FetchPayment(t) \/ SelectSubscription(t)
         \/ ExecuteStatement(t) \/ BeginTransaction(t)
  PROVE  IInv'
<1> USE DEF external, history, counters
<1>0. /\ TypeOK /\ Shape /\ RequestShape(t, req[t]) /\ RequestSound(t, req[t])
      /\ req[t] \in Request /\ ViewAhead /\ Caused
  BY DEF IInv, Shape, TypeOK
<1>1. CASE FetchPayment(t)
  <2> DEFINE p == req[t].payment
  <2>1. UNCHANGED <<db, external, history, counters>> /\ pc[t] = "fetch"
    BY <1>1 DEF FetchPayment
  <2>2. req[t].op \in {"webhook", "receipt"} /\ req[t].statement = "none"
    BY <1>0, <2>1 DEF RequestShape
  <2>3. CASE req[t].op = "webhook" /\ PaymentSucceeded(p)
    <3> DEFINE r == [req[t] EXCEPT !.target = payments[p].target, !.days = payments[p].days]
    <3>1. pc' = [pc EXCEPT ![t] = "select"] /\ req' = [req EXCEPT ![t] = r]
      BY <1>1, <2>3 DEF FetchPayment, Goto
    <3>2. r.op = "webhook" /\ r.statement = "none"
      BY <1>0, <2>2, <2>3 DEF Request
    <3>3. OnlyMoves(t) /\ req'[t] = r
      BY <1>0, <3>1 DEF OnlyMoves, TypeOK
    <3>4. RequestSound(t, req[t])' /\ OwnToken(t) /\ NothingPending(db')
      BY <1>0, <2>1, <3>2, <3>3 DEF RequestSound, OwnToken, ViewAhead
    <3>5. QED
      BY <2>1, <3>3, <3>4, SilentStep
  <2>4. CASE req[t].op = "receipt" /\ PaymentSucceeded(p) /\ ReceiptMatches(req[t])
    <3> DEFINE r == [req[t] EXCEPT !.statement = "account"]
    <3>1. pc' = [pc EXCEPT ![t] = "execute"] /\ req' = [req EXCEPT ![t] = r]
      BY <1>1, <2>4 DEF FetchPayment, Goto
    <3>2. /\ r.op = "receipt" /\ r.statement = "account" /\ r.target = req[t].target
          /\ r.target \in Devices \cup claimed
      BY <1>0, <2>4 DEF Request, RequestShape
    <3>3. OnlyMoves(t) /\ pc'[t] = "execute" /\ req'[t] = r
      BY <1>0, <3>1 DEF OnlyMoves, TypeOK
    <3>4. RequestSound(t, req[t])' /\ OwnToken(t) /\ NothingPending(db')
      BY <1>0, <2>1, <3>2, <3>3 DEF RequestSound, OwnToken, ViewAhead
    <3>5. QED
      BY <2>1, <3>3, <3>4, SilentStep
  <2>5. CASE /\ ~(req[t].op = "webhook" /\ PaymentSucceeded(p))
             /\ ~(req[t].op = "receipt" /\ PaymentSucceeded(p) /\ ReceiptMatches(req[t]))
    <3>1. Leave(t)
      BY <1>1, <2>5 DEF FetchPayment
    <3>2. QED
      BY <2>1, <3>1, SoundLeave
  <2>6. QED
    BY <2>3, <2>4, <2>5
<1>2. CASE SelectSubscription(t)
  <2> DEFINE tok == req[t].target
  <2>1. UNCHANGED <<db, external, history, counters>> /\ pc[t] = "select"
    BY <1>2 DEF SelectSubscription
  <2>2. CASE Recorded(tok)
    <3> DEFINE r == [req[t] EXCEPT !.expires = sub(tok).expires,
                       !.payment = IF req[t].payment = None THEN sub(tok).payment
                                   ELSE req[t].payment,
                       !.statement = "update"]
    <3>1. pc' = [pc EXCEPT ![t] = "execute"] /\ req' = [req EXCEPT ![t] = r]
      BY <1>2, <2>2 DEF SelectSubscription, Goto
    <3>2. OnlyMoves(t) /\ pc'[t] = "execute" /\ req'[t] = r
      BY <1>0, <3>1 DEF OnlyMoves, TypeOK
    <3>3. /\ r.op = req[t].op /\ r.statement = "update" /\ r.target = tok
          /\ r.payment = IF req[t].payment = None THEN sub(tok).payment ELSE req[t].payment
      BY <1>0 DEF Request
    <3>4. tok \in Tokens
      BY <2>2 DEF Recorded
    <3>5. durable(tok) /\ Entitled(tok)
      <4>1. CASE req[t].op = "checkout"
        BY <1>0, <2>1, <4>1 DEF RequestSound, RequestShape, Entitled
      <4>2. CASE req[t].op = "webhook"
        <5>1. req[t].payment \in Payments /\ payments[req[t].payment].target = tok
              /\ payments[req[t].payment].status = "succeeded"
          BY <1>0, <2>1, <4>2 DEF RequestShape
        <5>2. QED
          BY <3>4, <5>1 DEF IInv, PaymentHasDurableToken, durable, Entitled, paid
      <4>3. CASE req[t].op = "admin"
        <5>1. tok \in asked /\ tok \in issued
          BY <1>0, <3>4, <4>3, NoneAssumption DEF RequestShape, Shape
        <5>2. QED
          BY <5>1 DEF IInv, AnswersAreDurable, durable, Entitled
      <4>4. QED
        BY <1>0, <2>1, <4>1, <4>2, <4>3 DEF RequestShape
    <3>6. r.payment # None => /\ payments[r.payment].status = "succeeded"
                              /\ payments[r.payment].target = tok
      <4>1. CASE req[t].payment = None
        BY <1>0, <3>3, <3>4, <4>1 DEF Caused, HasCause
      <4>2. CASE req[t].payment # None /\ req[t].op = "webhook"
        BY <1>0, <2>1, <3>3, <4>2 DEF RequestShape
      <4>3. CASE req[t].payment # None /\ req[t].op = "admin"
        BY <1>0, <2>1, <4>3 DEF RequestSound
      <4>4. CASE req[t].payment # None /\ req[t].op = "checkout"
        BY <1>0, <2>1, <4>4 DEF RequestShape, RequestSound
      <4>5. QED
        BY <1>0, <2>1, <4>1, <4>2, <4>3, <4>4 DEF RequestShape
    <3>7. UNCHANGED <<db, payments, asked>>
      BY <2>1
    <3> HIDE DEF r
    <3>8. RequestSound(t, req[t])' /\ OwnToken(t) /\ NothingPending(db')
      BY <1>0, <3>2, <3>3, <3>5, <3>6, <3>7
         DEF RequestSound, OwnToken, ViewAhead, durable, Entitled, paid
    <3>9. QED
      BY <2>1, <3>2, <3>8, SilentStep
  <2>3. CASE ~Recorded(tok) /\ req[t].op = "webhook"
    <3> DEFINE r == [req[t] EXCEPT !.statement = "account"]
    <3>1. pc' = [pc EXCEPT ![t] = "execute"] /\ req' = [req EXCEPT ![t] = r]
      BY <1>2, <2>3 DEF SelectSubscription, Goto
    <3>2. OnlyMoves(t) /\ pc'[t] = "execute" /\ req'[t] = r
      BY <1>0, <3>1 DEF OnlyMoves, TypeOK
    <3>3. r.op = "webhook" /\ r.statement = "account" /\ r.target = tok
      BY <1>0, <2>3 DEF Request
    <3>4. tok \in Devices
      <4>1. /\ tok \in Tokens \cup Devices /\ req[t].payment \in Payments
            /\ payments[req[t].payment].target = tok
        BY <1>0, <2>1, <2>3 DEF RequestShape
      <4>2. tok \notin Tokens
        <5> SUFFICES ASSUME tok \in Tokens PROVE FALSE
          OBVIOUS
        <5>1. durable(tok)
          BY <4>1 DEF IInv, PaymentHasDurableToken, durable
        <5>2. QED
          BY <1>0, <2>3, <5>1 DEF ViewAhead, Recorded
      <4>3. QED
        BY <4>1, <4>2
    <3> HIDE DEF r
    <3>5. RequestSound(t, req[t])' /\ OwnToken(t) /\ NothingPending(db')
      BY <1>0, <2>1, <3>2, <3>3, <3>4 DEF RequestSound, OwnToken, ViewAhead
    <3>6. QED
      BY <2>1, <3>2, <3>5, SilentStep
  <2>4. QED
    BY <1>2, <2>1, <2>2, <2>3, SoundLeave DEF SelectSubscription
<1>3. CASE ExecuteStatement(t)
  <2> DEFINE r == IF req[t].statement = "update"
                  THEN [req[t] EXCEPT !.expires = RenewedExpiry(@, now, req[t].days)]
                  ELSE req[t]
  <2>1. /\ UNCHANGED <<db, external, history, counters>> /\ pc[t] = "execute"
        /\ OnlyMoves(t) /\ pc'[t] \in {"write", "begin"} /\ req'[t] = r
    BY <1>0, <1>3 DEF ExecuteStatement, Goto, OnlyMoves, TypeOK
  <2>2. /\ r.op = req[t].op /\ r.statement = req[t].statement
        /\ r.target = req[t].target /\ r.payment = req[t].payment
    BY <1>0 DEF Request
  <2>3. \A u \in Threads \ {t} : req'[u] = req[u]
    BY <1>0, <2>1 DEF OnlyMoves, TypeOK
  <2> HIDE DEF r
  <2>4. RequestSound(t, req[t])' /\ OwnToken(t) /\ NothingPending(db')
    BY <1>0, <2>1, <2>2, <2>3
       DEF RequestSound, OwnToken, ViewAhead, durable, Entitled, paid, sub
  <2>5. QED
    BY <2>1, <2>4, SilentStep
<1>4. CASE BeginTransaction(t)
  <2>1. UNCHANGED <<external, history, counters>> /\ pc[t] = "begin"
    BY <1>4 DEF BeginTransaction
  <2>2. CASE db.open
    BY <1>4, <2>1, <2>2, SoundLeave DEF BeginTransaction
  <2>3. CASE ~db.open
    <3>1. /\ OnlyMoves(t) /\ pc'[t] = "write" /\ req' = req
          /\ db' = Begin(db)
      BY <1>0, <1>4, <2>3 DEF BeginTransaction, Goto, OnlyMoves, TypeOK
    <3>2. db'.view = db.view /\ db'.disk = db.disk /\ NothingPending(db')
      BY <1>0, <3>1, ConnectionPending DEF TypeOK, Begin, NothingPending
    <3>3. RequestSound(t, req[t])' /\ OwnToken(t)
      BY <1>0, <2>1, <3>1, <3>2
         DEF RequestSound, OwnToken, durable, Entitled, paid, sub
    <3>4. QED
      BY <2>1, <3>1, <3>2, <3>3, SilentStep
  <2>4. QED
    BY <2>2, <2>3
<1>5. QED
  BY <1>1, <1>2, <1>3, <1>4

(* Once its statement is on disk a handler may rely on it.                 *)
LEMMA CommittedSound ==
  ASSUME IInv, TypeOK', KnowledgeKept, TablesGrow, NEW t \in Threads, AfterCommit(t),
         pc[t] \in {"commit", "committing"}, db'.disk = db.view,
         UNCHANGED <<payments, asked>>
  PROVE  RequestSound(t, req[t])' /\ OwnToken(t) /\ OnlyMoves(t)
<1>0. /\ TypeOK /\ RequestShape(t, req[t]) /\ RequestSound(t, req[t]) /\ req[t] \in Request
  BY DEF IInv, Shape, TypeOK
<1>1. /\ OnlyMoves(t)
      /\ \/ /\ req[t].statement = "insert" /\ req'[t] = req[t]
            /\ \/ CheckoutMode = "mock" /\ pc'[t] = "select"
               \/ pc'[t] \in {"respond", "provider"}
         \/ /\ req[t].statement = "update" /\ req[t].op = "admin"
            /\ pc'[t] = "execute" /\ req'[t] = [req[t] EXCEPT !.statement = "audit"]
         \/ /\ req[t].statement # "insert"
            /\ ~(req[t].statement = "update" /\ req[t].op = "admin")
            /\ pc'[t] = "respond" /\ req'[t] = req[t]
  BY <1>0, CommittedMoves
<1>2. OwnToken(t)
  BY <1>0, <1>1 DEF OwnToken, Request
<1>3. CASE req[t].statement = "insert"
  <2>1. /\ req'[t] = req[t] /\ pc'[t] \in {"select", "respond", "provider"}
        /\ pc'[t] = "select" => CheckoutMode = "mock"
    BY <1>1, <1>3
  <2>2. db'.disk.subs[req[t].target].status # "absent" /\ req[t].payment = None
    BY <1>0, <1>3 DEF RequestSound, sub
  <2>3. req[t].op = "checkout"
    BY <1>0, <1>3 DEF RequestShape
  <2>4. QED
    BY <1>1, <1>2, <1>3, <2>1, <2>2, <2>3 DEF RequestSound, durable
<1>4. CASE req[t].statement = "update"
  <2>1. /\ db'.disk.subs[req[t].target].status = "active" /\ Entitled(req[t].target)
        /\ req[t].payment # None => /\ payments[req[t].payment].status = "succeeded"
                                    /\ payments[req[t].payment].target = req[t].target
    BY <1>0, <1>4 DEF RequestSound, sub
  <2>2. CASE req[t].op = "admin"
    <3>1. /\ req'[t].statement = "audit" /\ req'[t].target = req[t].target
          /\ pc'[t] = "execute"
      BY <1>0, <1>1, <1>4, <2>2 DEF Request
    <3>2. QED
      BY <1>1, <1>2, <2>1, <3>1 DEF RequestSound
  <2>3. CASE req[t].op # "admin"
    <3>1. req'[t] = req[t] /\ pc'[t] = "respond"
      BY <1>1, <1>4, <2>3
    <3>2. Entitled(req[t].target)'
      BY <2>1, <3>1 DEF Entitled, paid
    <3>3. QED
      BY <1>1, <1>2, <1>4, <2>1, <3>1, <3>2 DEF RequestSound, durable
  <2>4. QED
    BY <2>2, <2>3
<1>5. CASE req[t].statement = "audit"
  <2>1. /\ req'[t] = req[t] /\ pc'[t] = "respond" /\ req[t].target \in Tokens
    BY <1>0, <1>1, <1>5 DEF RequestShape
  <2>2. /\ db.disk.subs[req[t].target].status = "active" /\ req[t].target \in db.view.audit
    BY <1>0, <1>5 DEF RequestSound
  <2>3. db'.disk.subs[req[t].target].status = "active" /\ req[t].target \in db'.disk.audit
    BY <2>1, <2>2 DEF TablesGrow, Forward
  <2>4. QED
    BY <1>1, <1>2, <1>5, <2>1, <2>3 DEF RequestSound
<1>6. CASE req[t].statement = "account"
  <2>1. /\ req'[t] = req[t] /\ pc'[t] = "respond"
        /\ req[t].target \in db'.disk.accounts \cup forgotten'
    BY <1>0, <1>1, <1>6 DEF RequestSound, KnowledgeKept
  <2>2. QED
    BY <1>0, <1>1, <1>2, <1>6, <2>1 DEF RequestSound, KnowledgeKept
<1>7. CASE req[t].statement \in {"forget", "other", "none"}
  BY <1>0, <1>1, <1>2, <1>7 DEF RequestSound
<1>8. QED
  BY <1>0, <1>3, <1>4, <1>5, <1>6, <1>7 DEF Request, Statements

LEMMA SoundLook ==
  ASSUME IInv, Typed', KnowledgeKept, NEW t \in Threads, LookBeforeCommit(t)
  PROVE  IInv'
<1> USE DEF external, history, counters
<1>0. /\ TypeOK /\ TypeOK' /\ RequestSound(t, req[t]) /\ ViewAhead
  BY DEF IInv, Typed
<1>1. UNCHANGED <<db, external, history, counters>> /\ pc[t] = "commit"
  BY DEF LookBeforeCommit
<1>2. CASE db.open
  <2>1. OnlyMoves(t) /\ pc'[t] = "committing" /\ req' = req
    BY <1>0, <1>2 DEF LookBeforeCommit, Goto, OnlyMoves, TypeOK
  <2>2. RequestSound(t, req[t])' /\ OwnToken(t) /\ NothingPending(db')
    BY <1>0, <1>1, <2>1
       DEF RequestSound, OwnToken, ViewAhead, durable, Entitled, paid, sub
  <2>3. QED
    BY <1>1, <2>1, <2>2, SilentStep
<1>3. CASE ~db.open
  <2>1. TablesGrow /\ db'.disk = db.view /\ NothingPending(db')
    BY <1>0, <1>1, <1>3 DEF TablesGrow, Forward, sub, ViewAhead, NothingPending
  <2>2. AfterCommit(t)
    BY <1>3 DEF LookBeforeCommit
  <2>3. RequestSound(t, req[t])' /\ OwnToken(t) /\ OnlyMoves(t)
    BY <1>0, <1>1, <2>1, <2>2, CommittedSound
  <2>4. QED
    BY <1>1, <2>1, <2>3, SilentStep
<1>4. QED
  BY <1>2, <1>3

(* A step that changes the tables promises nothing new by itself.          *)
LEMMA GrowingStep ==
  ASSUME IInv, Typed', KnowledgeKept, TablesGrow, NEW t \in Threads, OnlyMoves(t), OwnToken(t),
         UNCHANGED <<payments, issued, granted, vouched, acked>>,
         ViewAhead', \A tok \in Tokens : HasCause(tok, sub(tok))' /\ HasCause(tok, db.disk.subs[tok])',
         TokenAccountsAreClaimed', RequestSound(t, req[t])',
         \A u \in Threads \ {t} : WaitsToInsert(u) => sub(req[u].target)'.status = "absent"
  PROVE  IInv'
<1>1. PaymentHasDurableToken' /\ AnswersAreDurable'
  BY PromisesLast
<1>2. \A u \in Threads : RequestSound(u, req[u])'
  <2>1. \A u \in Threads \ {t} : RequestSound(u, req[u])'
    BY SoundOfOthers DEF OwnToken
  <2>2. QED
    BY <2>1
<1>3. Caused'
  BY DEF IInv, Caused
<1>4. QED
  BY <1>1, <1>2, <1>3 DEF IInv, Typed

LEMMA SoundCommit ==
  ASSUME IInv, Typed', KnowledgeKept, NEW t \in Threads, CommitTransaction(t)
  PROVE  IInv'
<1> USE DEF external, history, counters
<1>0. /\ TypeOK /\ TypeOK' /\ ViewAhead /\ Caused /\ TokenAccountsAreClaimed
  BY DEF IInv, Typed
<1>1. UNCHANGED <<external, history, counters>> /\ pc[t] = "committing"
  BY DEF CommitTransaction
<1>2. CASE ~db.open
  BY <1>1, <1>2, SoundLeave DEF CommitTransaction
<1>3. CASE db.open
  <2>1. /\ AfterCommit(t) /\ db'.view = db.view /\ db'.disk = db.view /\ NothingPending(db')
    BY <1>3 DEF CommitTransaction, Commit, NothingPending
  <2>2. TablesGrow
    BY <1>0, <1>1, <2>1 DEF TablesGrow, Forward, ViewAhead, sub, durable
  <2>3. RequestSound(t, req[t])' /\ OwnToken(t) /\ OnlyMoves(t)
    BY <1>0, <1>1, <2>1, <2>2, CommittedSound
  <2>4. ViewAhead'
    BY <1>0, <1>1, <2>1 DEF ViewAhead, TokenAccountsAreClaimed, sub, durable
  <2>5. \A tok \in Tokens : HasCause(tok, sub(tok))' /\ HasCause(tok, db.disk.subs[tok])'
    BY <1>0, <1>1, <2>1 DEF Caused, HasCause, sub, Entitled, paid
  <2>6. TokenAccountsAreClaimed'
    BY <1>0, <1>1, <2>1 DEF TokenAccountsAreClaimed
  <2>7. \A u \in Threads \ {t} : WaitsToInsert(u) => sub(req[u].target)'.status = "absent"
    <3>1. ASSUME NEW u \in Threads \ {t}, WaitsToInsert(u)
          PROVE  sub(req[u].target)'.status = "absent"
      <4>1. RequestSound(u, req[u]) /\ req'[u] = req[u]
        BY <1>0, <2>3 DEF IInv, TypeOK, OnlyMoves
      <4>2. QED
        BY <2>1, <3>1, <4>1 DEF RequestSound, WaitsToInsert, sub
    <3>2. QED
      BY <3>1
  <2>8. QED
    BY <1>1, <2>2, <2>3, <2>4, <2>5, <2>6, <2>7, GrowingStep
<1>4. QED
  BY <1>2, <1>3

(* What a statement does to the rows it is not about, and to its own.      *)
LEMMA WrittenGrows ==
  ASSUME IInv, NEW t \in Threads, pc[t] = "write", NEW tok \in Tokens
  PROVE  LET after == Written(req[t], db.view)
         IN  /\ Forward(sub(tok), after.subs[tok])
             /\ HasCause(tok, after.subs[tok])
             /\ after.subs[tok].status # "absent" => tok \in drawn
             /\ after.subs[tok].status = "active" => durable(tok)
             /\ db.view.audit \subseteq after.audit
             /\ db.view.accounts \subseteq after.accounts \cup forgotten
             /\ after.accounts \cap Tokens \subseteq claimed
             /\ after.subs[tok] # sub(tok) => req[t].statement \in {"insert", "update"}
                                              /\ req[t].target = tok
<1> DEFINE after == Written(req[t], db.view)
<1>0. /\ TypeOK /\ ViewAhead /\ Caused /\ TokenAccountsAreClaimed
      /\ RequestShape(t, req[t]) /\ RequestSound(t, req[t]) /\ req[t] \in Request
      /\ db.view \in Tables /\ db.view.subs \in [Tokens -> Row]
  BY DEF IInv, Shape, TypeOK, Tables
<1>1. CASE req[t].statement = "insert"
  <2>1. /\ after.subs = [db.view.subs EXCEPT ![req[t].target] = Pending]
        /\ after.audit = db.view.audit /\ after.accounts = db.view.accounts
    BY <1>0, <1>1 DEF Written, Tables
  <2>2. req[t].op = "checkout" /\ req[t].target \in drawn /\ sub(req[t].target).status = "absent"
    BY <1>0, <1>1 DEF RequestShape, RequestSound
  <2>3. QED
    BY <1>0, <1>1, <2>1, <2>2
       DEF Forward, HasCause, Pending, Caused, ViewAhead, TokenAccountsAreClaimed, sub
<1>2. CASE req[t].statement = "update"
  <2> DEFINE row == [status |-> "active", expires |-> req[t].expires, payment |-> req[t].payment]
  <2>1. /\ after.subs = [db.view.subs EXCEPT ![req[t].target] = row]
        /\ after.audit = db.view.audit /\ after.accounts = db.view.accounts
    BY <1>0, <1>2 DEF Written, Tables
  <2>2. /\ req[t].target \in Tokens /\ durable(req[t].target) /\ Entitled(req[t].target)
        /\ req[t].payment # None => /\ payments[req[t].payment].status = "succeeded"
                                    /\ payments[req[t].payment].target = req[t].target
    BY <1>0, <1>2 DEF RequestShape, RequestSound
  <2>3. HasCause(req[t].target, row) /\ row.status = "active"
    BY <2>2 DEF HasCause
  <2> HIDE DEF row
  <2>4. CASE tok = req[t].target
    BY <1>0, <1>2, <2>1, <2>2, <2>3, <2>4 DEF Forward, ViewAhead, TokenAccountsAreClaimed
  <2>5. CASE tok # req[t].target
    BY <1>0, <1>2, <2>1, <2>2, <2>5 DEF Forward, Caused, ViewAhead, TokenAccountsAreClaimed, sub
  <2>6. QED
    BY <2>4, <2>5
<1>3. CASE req[t].statement \in {"audit", "account", "forget"}
  <2>1. /\ after.subs = db.view.subs
        /\ db.view.audit \subseteq after.audit
        /\ \/ after.accounts = db.view.accounts
           \/ req[t].statement = "account" /\ after.accounts = db.view.accounts \cup {req[t].target}
           \/ req[t].statement = "forget" /\ after.accounts = db.view.accounts \ {req[t].target}
    BY <1>0, <1>3 DEF Written, Tables
  <2>2. /\ req[t].statement = "account" => req[t].target \in Devices \cup claimed
        /\ req[t].statement = "forget" => req[t].target \in forgotten
    BY <1>0 DEF RequestSound, RequestShape
  <2>3. /\ after.accounts \cap Tokens \subseteq claimed
        /\ db.view.accounts \subseteq after.accounts \cup forgotten
    BY <1>0, <2>1, <2>2, TargetAssumption DEF TokenAccountsAreClaimed
  <2> HIDE DEF after
  <2>4. QED
    BY <1>0, <2>1, <2>3 DEF Forward, Caused, ViewAhead, sub, after
<1>4. CASE req[t].statement \in {"other", "none"}
  <2>1. after = db.view
    BY <1>4 DEF Written
  <2> HIDE DEF after
  <2>2. QED
    BY <1>0, <2>1 DEF Forward, Caused, ViewAhead, TokenAccountsAreClaimed, sub, after
<1>5. QED
  BY <1>0, <1>1, <1>2, <1>3, <1>4 DEF Request, Statements

LEMMA SoundWrite ==
  ASSUME IInv, Typed', KnowledgeKept, NEW t \in Threads, WriteStatement(t)
  PROVE  IInv'
<1> USE DEF external, history, counters
<1> DEFINE after == Written(req[t], db.view)
<1>0. /\ TypeOK /\ TypeOK' /\ ViewAhead /\ Caused /\ TokenAccountsAreClaimed
      /\ RequestShape(t, req[t]) /\ RequestSound(t, req[t]) /\ req[t] \in Request
  BY DEF IInv, Typed, Shape, TypeOK
<1>1. /\ UNCHANGED <<external, req, history, counters>> /\ pc[t] = "write"
      /\ OnlyMoves(t) /\ pc'[t] = "commit" /\ db' = Execute(db, after)
  BY <1>0 DEF WriteStatement, Goto, OnlyMoves, TypeOK
<1>2. /\ db'.view = after
      /\ db'.disk = db.disk \/ (db.view = db.disk /\ db'.disk = after)
  BY <1>0, <1>1 DEF Execute, ViewAhead, NothingPending
<1>3. \A tok \in Tokens :
        /\ Forward(sub(tok), after.subs[tok])
        /\ HasCause(tok, after.subs[tok])
        /\ after.subs[tok].status # "absent" => tok \in drawn
        /\ after.subs[tok].status = "active" => durable(tok)
        /\ after.subs[tok] # sub(tok) => req[t].statement \in {"insert", "update"}
                                         /\ req[t].target = tok
  BY <1>1, WrittenGrows
<1>4. /\ db.view.audit \subseteq after.audit
      /\ db.view.accounts \subseteq after.accounts \cup forgotten
      /\ after.accounts \cap Tokens \subseteq claimed
      /\ req[t].statement = "insert" => after.subs[req[t].target].status # "absent"
      /\ req[t].statement = "update" => after.subs[req[t].target].status = "active"
      /\ req[t].statement = "audit" => req[t].target \in after.audit
      /\ req[t].statement = "account" => req[t].target \in after.accounts
  <2>1. /\ req[t].statement \in {"insert", "update"} => req[t].target \in Tokens
        /\ db.view \in Tables
    BY <1>0 DEF RequestShape, TypeOK
  <2>2. CASE req[t].statement \in {"insert", "update"}
    BY <1>0, <2>1, <2>2 DEF Written, Tables, Pending, TokenAccountsAreClaimed
  <2>3. CASE req[t].statement \in {"audit", "account", "forget"}
    <3>1. /\ req[t].statement = "account" => req[t].target \in Devices \cup claimed
          /\ req[t].statement = "forget" => req[t].target \in forgotten
      BY <1>0 DEF RequestSound, RequestShape
    <3>2. QED
      BY <1>0, <2>1, <2>3, <3>1, TargetAssumption DEF Written, Tables, TokenAccountsAreClaimed
  <2>4. CASE req[t].statement \in {"other", "none"}
    BY <1>0, <2>4 DEF Written, TokenAccountsAreClaimed
  <2>5. QED
    BY <1>0, <2>2, <2>3, <2>4 DEF Request, Statements
<1>5. NothingPending(db')
  BY <1>0, <1>1 DEF Execute, ViewAhead, NothingPending
<1> HIDE DEF after
<1>6. TablesGrow
  BY <1>0, <1>1, <1>2, <1>3, <1>4 DEF TablesGrow, Forward, sub, ViewAhead
<1>7. ViewAhead'
  <2>1. ASSUME NEW tok \in Tokens
        PROVE  /\ durable(tok)' => sub(tok)'.status # "absent"
               /\ db'.disk.subs[tok].status = "active" => sub(tok)'.status = "active"
               /\ sub(tok)'.status = "active" => durable(tok)'
               /\ sub(tok)'.status # "absent" => tok \in drawn'
    <3>1. CASE db'.disk = db.disk
      BY <1>0, <1>1, <1>2, <1>3, <3>1 DEF Forward, sub, ViewAhead, durable
    <3>2. CASE db.view = db.disk /\ db'.disk = after
      BY <1>0, <1>1, <1>2, <1>3, <3>2 DEF Forward, sub, ViewAhead, durable
    <3>3. QED
      BY <1>2, <3>1, <3>2
  <2>2. /\ db'.disk.audit \subseteq db'.view.audit
        /\ db'.disk.accounts \subseteq db'.view.accounts \cup forgotten'
        /\ db'.disk.accounts \cap Tokens \subseteq claimed'
    BY <1>0, <1>1, <1>2, <1>4 DEF ViewAhead
  <2>3. QED
    BY <1>5, <2>1, <2>2 DEF ViewAhead
<1>8. ASSUME NEW tok \in Tokens
      PROVE  HasCause(tok, sub(tok))' /\ HasCause(tok, db.disk.subs[tok])'
  <2>1. HasCause(tok, db'.view.subs[tok]) /\ HasCause(tok, db'.disk.subs[tok])
    BY <1>0, <1>2, <1>3 DEF Caused
  <2>2. QED
    BY <1>1, <2>1 DEF HasCause, Entitled, paid, sub
<1>9. TokenAccountsAreClaimed'
  BY <1>1, <1>2, <1>4 DEF TokenAccountsAreClaimed
<1>10. RequestSound(t, req[t])' /\ OwnToken(t)
  <2>1. /\ req[t].statement = "insert" => req[t].payment = None /\ req[t].op = "checkout"
        /\ req[t].statement = "update" =>
             /\ durable(req[t].target)' /\ Entitled(req[t].target)'
             /\ req[t].payment # None => /\ payments'[req[t].payment].status = "succeeded"
                                         /\ payments'[req[t].payment].target = req[t].target
        /\ req[t].statement = "audit" => db'.disk.subs[req[t].target].status = "active"
        /\ req[t].statement = "account" => /\ req[t].target \in Devices \cup claimed
                                           /\ req[t].op = "webhook" => req[t].target \in Devices
    <3>1. req[t].statement \in {"update", "audit"} => req[t].target \in Tokens
      BY <1>0 DEF RequestShape
    <3>2. QED
      BY <1>0, <1>1, <1>6, <3>1
         DEF RequestSound, RequestShape, TablesGrow, Forward, durable, Entitled, paid
  <2>2. QED
    BY <1>0, <1>1, <1>2, <1>4, <2>1 DEF RequestSound, OwnToken, sub
<1>11. ASSUME NEW u \in Threads \ {t}, WaitsToInsert(u)
       PROVE  sub(req[u].target)'.status = "absent"
  <2>1. RequestSound(u, req[u]) /\ RequestShape(u, req[u]) /\ req' = req
    BY <1>1 DEF IInv, Shape
  <2>2. req[u].target \in Tokens /\ sub(req[u].target).status = "absent" /\ req[u].op = "checkout"
    BY <1>11, <2>1 DEF RequestSound, RequestShape, WaitsToInsert
  <2>3. after.subs[req[u].target] = sub(req[u].target)
    <3>1. CASE req[t].statement = "insert"
      BY <1>0, <1>1, <1>3, <2>2, <3>1 DEF RequestSound
    <3>2. CASE req[t].statement = "update"
      BY <1>0, <1>3, <2>2, <3>2 DEF RequestSound, ViewAhead
    <3>3. QED
      BY <1>3, <2>2, <3>1, <3>2
  <2>4. QED
    BY <1>2, <2>1, <2>2, <2>3 DEF sub
<1>12. QED
  BY <1>1, <1>6, <1>7, <1>8, <1>9, <1>10, <1>11, GrowingStep

(* A step that leaves the tables alone and whose promises hold.            *)
LEMMA PromisingStep ==
  ASSUME IInv, Typed', KnowledgeKept, db' = db, drawn' = drawn,
         PaymentHasDurableToken', AnswersAreDurable',
         \A p \in acked' : payments'[p].status = "succeeded",
         \A t \in Threads : RequestSound(t, req[t])'
  PROVE  IInv'
<1>1. TypeOK /\ Typed /\ ViewAhead /\ Caused /\ TokenAccountsAreClaimed
  BY DEF IInv, Typed
<1>2. ViewAhead' /\ TokenAccountsAreClaimed'
  BY <1>1 DEF ViewAhead, sub, durable, TokenAccountsAreClaimed, KnowledgeKept
<1>3. Caused'
  <2>1. \A tok \in Tokens : sub(tok) \in Row /\ db.disk.subs[tok] \in Row
    BY <1>1 DEF sub, TypeOK, Tables
  <2>2. \A tok \in Tokens : HasCause(tok, sub(tok)) /\ HasCause(tok, db.disk.subs[tok])
    BY <1>1 DEF Caused
  <2>3. \A tok \in Tokens : \A row \in Row : HasCause(tok, row) => HasCause(tok, row)'
    BY <1>1, CausesLast
  <2>4. \A tok \in Tokens : HasCause(tok, sub(tok))' /\ HasCause(tok, db.disk.subs[tok])'
    BY <2>1, <2>2, <2>3 DEF sub, HasCause
  <2>5. QED
    BY <2>4 DEF Caused
<1>4. QED
  BY <1>2, <1>3 DEF IInv, Typed

(* With the tables and the other threads at rest the other requests keep   *)
(* what they rely on.                                                      *)
LEMMA OthersRest ==
  ASSUME IInv, Typed', KnowledgeKept, db' = db, NEW t \in Threads, OnlyMoves(t), OwnToken(t),
         RequestSound(t, req[t])'
  PROVE  \A u \in Threads : RequestSound(u, req[u])'
<1>1. TypeOK /\ TablesGrow
  BY DEF IInv, TablesGrow, Forward, sub
<1>2. ASSUME NEW u \in Threads \ {t}, WaitsToInsert(u)
      PROVE  sub(req[u].target)'.status = "absent"
  <2>1. RequestSound(u, req[u]) /\ req'[u] = req[u]
    BY <1>1 DEF IInv, TypeOK, OnlyMoves
  <2>2. QED
    BY <1>2, <2>1 DEF RequestSound, WaitsToInsert, sub
<1>3. \A u \in Threads \ {t} : RequestSound(u, req[u])'
  BY <1>1, <1>2, SoundOfOthers DEF OwnToken
<1>4. QED
  BY <1>3

(* create_payment is called with a token that is already on disk.          *)
LEMMA SoundPayment ==
  ASSUME IInv, Typed', KnowledgeKept, NEW t \in Threads, CreatePayment(t)
  PROVE  IInv'
<1> USE DEF external, history, counters
<1>0. /\ TypeOK /\ RequestSound(t, req[t]) /\ RequestShape(t, req[t])
      /\ Caused /\ AnswersAreDurable /\ PaymentHasDurableToken
  BY DEF IInv, Shape
<1>1. PICK p \in Payments :
        /\ payments[p].status = "none"
        /\ payments' = [payments EXCEPT ![p] = [status |-> "pending",
                          target |-> req[t].target, days |-> req[t].days]]
  BY DEF CreatePayment
<1>2. /\ pc[t] = "provider" /\ UNCHANGED <<db, now, req, history, counters>>
      /\ OnlyMoves(t) /\ pc'[t] = "respond"
  BY <1>0 DEF CreatePayment, Goto, OnlyMoves, TypeOK, Locations
<1>3. req[t].statement = "insert" /\ durable(req[t].target) /\ req[t].payment = None
      /\ req[t].op = "checkout"
  BY <1>0, <1>2 DEF RequestShape, RequestSound
<1>4. PaymentHasDurableToken'
  BY <1>0, <1>1, <1>2, <1>3 DEF PaymentHasDurableToken, TypeOK, durable
<1>5. /\ AnswersAreDurable'
      /\ \A q \in acked' : payments'[q].status = "succeeded"
  <2>1. TablesGrow
    BY <1>2 DEF TablesGrow, Forward, sub
  <2>2. \A q \in acked : payments'[q] = payments[q] /\ payments[q].status = "succeeded"
    BY <1>0 DEF Caused, KnowledgeKept, TypeOK
  <2>3. QED
    BY <1>2, <2>1, <2>2, PromisesLast
<1>6. RequestSound(t, req[t])' /\ OwnToken(t)
  BY <1>2, <1>3 DEF RequestSound, OwnToken, durable
<1>7. \A u \in Threads : RequestSound(u, req[u])'
  BY <1>2, <1>6, OthersRest
<1>8. QED
  BY <1>2, <1>4, <1>5, <1>7, PromisingStep

(* A 200 promises only what the request relies on by then.                 *)
LEMMA SoundRespond ==
  ASSUME IInv, Typed', KnowledgeKept, NEW t \in Threads, Respond(t)
  PROVE  IInv'
<1> USE DEF external, history, counters
<1> DEFINE r == req[t]
<1>0. /\ TypeOK /\ TypeOK' /\ RequestSound(t, req[t]) /\ RequestShape(t, req[t])
      /\ req[t] \in Request
      /\ Caused /\ AnswersAreDurable /\ PaymentHasDurableToken
  BY DEF IInv, Shape, TypeOK, Typed
<1>1. /\ pc[t] = "respond" /\ Leave(t)
      /\ UNCHANGED <<db, external, drawn, asked, claimed, forgotten, counters>>
      /\ issued' = IF r.op = "checkout" THEN issued \cup {r.target} ELSE issued
      /\ granted' = IF r.statement \in {"update", "audit"}
                    THEN [granted EXCEPT ![r.target] = @ + r.days] ELSE granted
      /\ vouched' = IF r.op = "admin" THEN vouched \cup {r.target} ELSE vouched
      /\ acked' = IF r.op = "webhook" THEN acked \cup {r.payment} ELSE acked
  BY DEF Respond
<1>2. /\ NoRequest \in Request /\ "idle" \in Locations
      /\ NoRequest.op = "none" /\ NoRequest.statement = "none"
  BY DEF NoRequest, Request, Locations
<1>3. OnlyMoves(t) /\ req'[t] = NoRequest
  BY <1>0, <1>1, <1>2, Moves
<1>4. RequestSound(t, req[t])' /\ OwnToken(t)
  BY <1>2, <1>3 DEF RequestSound, OwnToken
<1>5. \A u \in Threads : RequestSound(u, req[u])'
  BY <1>1, <1>3, <1>4, OthersRest
<1>6. PaymentHasDurableToken'
  BY <1>0, <1>1 DEF PaymentHasDurableToken
<1>7. \A p \in acked' : payments'[p].status = "succeeded"
  BY <1>0, <1>1 DEF Caused, RequestShape
<1>8. AnswersAreDurable'
  <2>1. r.op = "checkout" => durable(r.target)
    BY <1>0, <1>1 DEF RequestShape, RequestSound, InStatement, Request, Statements
  <2>2. r.statement \in {"update", "audit"} => db.disk.subs[r.target].status = "active"
    BY <1>0, <1>1 DEF RequestSound
  <2>3. r.op = "admin" => r.target \in db.disk.audit
    BY <1>0, <1>1 DEF RequestShape, RequestSound
  <2>4. r.op = "webhook" =>
          /\ payments[r.payment].target = r.target
          /\ IF r.target \in Tokens THEN db.disk.subs[r.target].status = "active"
             ELSE r.target \in db.disk.accounts \cup forgotten
    <3>1. r.op = "webhook" => r.statement \in {"update", "account"}
      BY <1>0, <1>1 DEF RequestShape, InStatement, Request, Statements
    <3>2. /\ r.statement = "update" => r.target \in Tokens
          /\ r.op = "webhook" => payments[r.payment].target = r.target
      BY <1>0, <1>1 DEF RequestShape
    <3>3. r.op = "webhook" /\ r.statement = "account" =>
            r.target \notin Tokens /\ r.target \in db.disk.accounts \cup forgotten
      BY <1>0, <1>1, TargetAssumption DEF RequestSound
    <3>4. QED
      BY <2>2, <3>1, <3>2, <3>3
  <2>5. \A tok \in issued' : db'.disk.subs[tok].status # "absent"
    BY <1>0, <1>1, <2>1 DEF AnswersAreDurable, durable
  <2>6. \A tok \in Tokens : granted'[tok] > 0 => db'.disk.subs[tok].status = "active"
    <3>1. CASE r.statement \in {"update", "audit"}
      BY <1>0, <1>1, <2>2, <3>1 DEF AnswersAreDurable, TypeOK
    <3>2. CASE r.statement \notin {"update", "audit"}
      BY <1>0, <1>1, <3>2 DEF AnswersAreDurable
    <3>3. QED
      BY <3>1, <3>2
  <2>7. \A p \in acked' : IF payments'[p].target \in Tokens
                          THEN db'.disk.subs[payments'[p].target].status = "active"
                          ELSE payments'[p].target \in db'.disk.accounts \cup forgotten'
    BY <1>0, <1>1, <2>4 DEF AnswersAreDurable
  <2>8. vouched' \subseteq db'.disk.audit
    BY <1>0, <1>1, <2>3 DEF AnswersAreDurable
  <2>9. QED
    BY <2>5, <2>6, <2>7, <2>8 DEF AnswersAreDurable
<1>9. QED
  BY <1>1, <1>5, <1>6, <1>7, <1>8, PromisingStep

(* YooKassa, the clock and a restart.                                      *)
LEMMA SoundOutside ==
  ASSUME IInv, Typed', KnowledgeKept,
         \/ \E p \in Payments : CreateDevicePayment(p) \/ Settle(p)
         \/ Tick \/ UNCHANGED vars
  PROVE  IInv'
<1> USE DEF external, history, counters
<1>0. /\ TypeOK /\ TypeOK' /\ Typed /\ Caused /\ AnswersAreDurable /\ PaymentHasDurableToken
      /\ \A t \in Threads : RequestSound(t, req[t]) /\ RequestShape(t, req[t])
  BY DEF IInv, Typed, Shape
<1>1. UNCHANGED <<db, pc, req, history>>
  BY DEF CreateDevicePayment, Settle, Tick, vars
<1>2. TablesGrow
  BY <1>1 DEF TablesGrow, Forward, sub
<1>3. ASSUME NEW t \in Threads PROVE RequestSound(t, req[t])'
  <2>1. req[t].statement = "update" =>
          /\ Entitled(req[t].target)'
          /\ req[t].payment # None => /\ payments'[req[t].payment].status = "succeeded"
                                      /\ payments'[req[t].payment].target = req[t].target
    <3> SUFFICES ASSUME req[t].statement = "update"
                 PROVE  /\ Entitled(req[t].target)'
                        /\ req[t].payment # None =>
                             /\ payments'[req[t].payment].status = "succeeded"
                             /\ payments'[req[t].payment].target = req[t].target
      OBVIOUS
    <3>1. req[t].target \in Tokens /\ Entitled(req[t].target) /\ req' = req
      BY <1>0, <1>1 DEF RequestShape, RequestSound
    <3>2. \A tok \in Tokens : Entitled(tok) => Entitled(tok)'
      BY <1>0, CausesLast
    <3>3. req[t].payment # None => req[t].payment \in Payments
      BY <1>0 DEF TypeOK, Request
    <3>4. req[t].payment # None => /\ payments[req[t].payment].status = "succeeded"
                                   /\ payments[req[t].payment].target = req[t].target
      BY <1>0 DEF RequestSound
    <3>5. Entitled(req[t].target)'
      BY <3>1, <3>2 DEF Entitled, paid
    <3>6. QED
      BY <3>3, <3>4, <3>5 DEF KnowledgeKept
  <2>2. QED
    BY <1>0, <1>1, <2>1 DEF RequestSound, durable, sub
<1>4. \A p \in acked' : payments'[p].status = "succeeded"
  BY <1>0, <1>1 DEF Caused, KnowledgeKept, TypeOK
<1>5. AnswersAreDurable'
  BY <1>1, <1>2, PromisesLast
<1>6. PaymentHasDurableToken'
  <2>1. ASSUME NEW p \in Payments, CreateDevicePayment(p) PROVE PaymentHasDurableToken'
    <3>1. PICK d \in Devices \cup issued, days \in Durations :
            payments' = [payments EXCEPT ![p] = [status |-> "pending",
                                                target |-> d, days |-> days]]
      BY <2>1 DEF CreateDevicePayment
    <3>2. d \in Tokens => db.disk.subs[d].status # "absent"
      BY <1>0, <3>1, TargetAssumption DEF AnswersAreDurable
    <3>3. QED
      BY <1>0, <1>1, <3>1, <3>2 DEF PaymentHasDurableToken, TypeOK
  <2>2. ASSUME NEW p \in Payments, Settle(p) PROVE PaymentHasDurableToken'
    <3>1. PICK status \in {"succeeded", "canceled"} :
            payments' = [payments EXCEPT ![p].status = status]
      BY <2>2 DEF Settle
    <3>2. QED
      BY <1>0, <1>1, <3>1 DEF PaymentHasDurableToken, TypeOK, Payment
  <2>3. CASE Tick \/ UNCHANGED vars
    BY <1>0, <2>3 DEF PaymentHasDurableToken, Tick, vars
  <2>4. QED
    BY <2>1, <2>2, <2>3
<1>7. QED
  BY <1>1, <1>3, <1>4, <1>5, <1>6, PromisingStep

(* A restart goes back to the file; no request is left to rely on the view.*)
LEMMA SoundCrash ==
  ASSUME IInv, Typed', KnowledgeKept, Crash
  PROVE  IInv'
<1> USE DEF external, history, counters
<1>0. /\ TypeOK /\ ViewAhead /\ Caused /\ TokenAccountsAreClaimed
      /\ AnswersAreDurable /\ PaymentHasDurableToken
  BY DEF IInv
<1>1. /\ db'.view = db.disk /\ db'.disk = db.disk /\ UNCHANGED <<external, history>>
      /\ \A t \in Threads : req'[t] = NoRequest
  BY DEF Crash, Reconnect, Connect
<1>2. ViewAhead'
  BY <1>0, <1>1 DEF ViewAhead, NothingPending, sub, durable
<1>3. Caused'
  BY <1>0, <1>1 DEF Caused, HasCause, Entitled, paid, sub
<1>4. TokenAccountsAreClaimed' /\ PaymentHasDurableToken' /\ AnswersAreDurable'
  BY <1>0, <1>1 DEF ViewAhead, TokenAccountsAreClaimed, PaymentHasDurableToken, AnswersAreDurable
<1>5. \A t \in Threads : RequestSound(t, req[t])'
  BY <1>1 DEF RequestSound, NoRequest
<1>6. QED
  BY <1>2, <1>3, <1>4, <1>5 DEF IInv, Typed

LEMMA SoundInit == Init => IInv
<1> SUFFICES ASSUME Init PROVE IInv
  OBVIOUS
<1>1. Typed
  BY TypedInit
<1>2. /\ db.view = db.disk /\ db.disk.audit = {} /\ db.disk.accounts = {}
      /\ \A tok \in Tokens : db.disk.subs[tok] = Absent
  BY DEF Init, Connect
<1>3. Absent.status = "absent" /\ Absent.payment = None
  BY DEF Absent
<1>4. ViewAhead /\ Caused
  BY <1>2, <1>3 DEF ViewAhead, NothingPending, Caused, HasCause, sub, durable, Init
<1>5. \A t \in Threads : RequestSound(t, req[t])
  BY DEF Init, RequestSound, NoRequest
<1>6. PaymentHasDurableToken /\ TokenAccountsAreClaimed /\ AnswersAreDurable
  <2>1. \A p \in Payments : payments[p].target \notin Tokens
    BY DEF Init
  <2>2. issued = {} /\ acked = {} /\ vouched = {} /\ \A tok \in Tokens : ~(granted[tok] > 0)
    BY DEF Init
  <2>3. AnswersAreDurable
    BY <2>2 DEF AnswersAreDurable
  <2>4. QED
    BY <1>2, <2>1, <2>3 DEF PaymentHasDurableToken, TokenAccountsAreClaimed
<1>7. QED
  BY <1>1, <1>4, <1>5, <1>6 DEF IInv, Typed

LEMMA SoundStep == IInv /\ [Next]_vars => IInv'
<1> SUFFICES ASSUME IInv, [Next]_vars PROVE IInv'
  OBVIOUS
<1>1. Typed' /\ KnowledgeKept
  BY TypedStep, KnowledgeLasts DEF IInv, Typed
<1>2. ASSUME NEW t \in Threads, ThreadStep(t) PROVE IInv'
  <2>1. CASE \/ StartCheckout(t) \/ StartAdminActivation(t)
             \/ StartReceipt(t) \/ StartDeletion(t) \/ StartOther(t)
             \/ \E p \in Payments : StartWebhook(t, p)
    BY <1>1, <2>1, SoundStart
  <2>2. CASE \/ FetchPayment(t) \/ SelectSubscription(t)
             \/ ExecuteStatement(t) \/ BeginTransaction(t)
    BY <1>1, <2>2, SoundCall
  <2>3. CASE \/ WriteStatement(t) \/ LookBeforeCommit(t) \/ CommitTransaction(t)
    BY <1>1, <2>3, SoundWrite, SoundLook, SoundCommit
  <2>4. CASE \/ CreatePayment(t) \/ Respond(t)
    BY <1>1, <2>4, SoundPayment, SoundRespond
  <2>5. CASE \/ RefusePayment(t) \/ ViolateConstraint(t) \/ AbandonRequest(t)
    BY <1>1, <2>5, SoundLeave
       DEF RefusePayment, ViolateConstraint, AbandonRequest, external, history, counters
  <2>6. QED
    BY <1>2, <2>1, <2>2, <2>3, <2>4, <2>5 DEF ThreadStep, HandlerStep
<1>3. QED
  BY <1>1, <1>2, SoundOutside, SoundCrash DEF Next

THEOREM Invariance == Spec => []IInv
BY SoundInit, SoundStep, PTL DEF Spec

-----------------------------------------------------------------------------
(* What it is for.                                                         *)

(* However requests, errors and restarts interleave on the one connection, *)
(* a link is active only when it was paid for or an administrator asked.   *)
THEOREM EveryActivationHasCause == Spec => []ActivationHasCause
<1>1. IInv => ActivationHasCause
  BY DEF IInv, Caused, HasCause, ActivationHasCause
<1>2. QED
  BY <1>1, Invariance, PTL

(* A customer is never sent to pay for a link that a restart would lose.   *)
THEOREM EveryPaymentHasDurableToken == Spec => []PaymentHasDurableToken
<1>1. IInv => PaymentHasDurableToken
  BY DEF IInv
<1>2. QED
  BY <1>1, Invariance, PTL

(* The mobile account of a device with a link's token for a name is there  *)
(* only if a client sent the token as its device id with a receipt: the    *)
(* webhook never takes a link's payment for that of a device, however it   *)
(* interleaves with checkouts, deletions and restarts.                     *)
THEOREM TokenAccountsNeedClaims == Spec => []TokenAccountsAreClaimed
<1>1. IInv => TokenAccountsAreClaimed
  BY DEF IInv
<1>2. QED
  BY <1>1, Invariance, PTL

(* An answer 200 is never taken back by a crash, even when another thread  *)
(* has committed, or failed to commit, the statement it reports.           *)
THEOREM EveryAnswerIsDurable == Spec => []AnswersAreDurable
<1>1. IInv => AnswersAreDurable
  BY DEF IInv
<1>2. QED
  BY <1>1, Invariance, PTL


-----------------------------------------------------------------------------
(* The refinement of SubscriptionLifecycle.                                *)
stage == [tok \in Tokens |-> db.disk.subs[tok].status]
entitled == {tok \in Tokens : Entitled(tok)}

LEMMA LifecycleInit == Init => Lifecycle!Init
<1> SUFFICES ASSUME Init PROVE Lifecycle!Init
  OBVIOUS
<1>1. \A tok \in Tokens : db.disk.subs[tok].status = "absent"
  BY DEF Init, Connect, Absent
<1>2. \A tok \in Tokens : Entitled(tok) <=> CheckoutMode = "mock"
  BY DEF Init, Entitled, paid
<1>3. QED
  BY <1>1, <1>2 DEF Lifecycle!Init

(* Only what is on disk and what entitles matter to the abstract spec.     *)
LEMMA Stutters ==
  ASSUME UNCHANGED <<stage, entitled>>
  PROVE  [Lifecycle!Next]_<<stage, entitled>>
OBVIOUS

(* A recorded token that an event entitles.                                *)
LEMMA Entitles ==
  ASSUME NEW tok \in Tokens, durable(tok), UNCHANGED stage,
         entitled' = entitled \cup {tok}
  PROVE  [Lifecycle!Next]_<<stage, entitled>>
<1>1. Lifecycle!Entitle(tok)
  BY DEF Lifecycle!Entitle, stage, entitled, durable
<1>2. QED
  BY <1>1 DEF Lifecycle!Next

(* The rows on disk after a commit or an autocommitted statement.          *)
LEMMA Records ==
  ASSUME TypeOK', UNCHANGED entitled, TypeOK,
         \A tok \in Tokens :
           LET before == db.disk.subs[tok]
               after == db'.disk.subs[tok]
           IN  /\ Forward(before, after) /\ HasCause(tok, after)
               /\ after.status = "active" => before.status # "absent"
  PROVE  [Lifecycle!Next]_<<stage, entitled>>
<1>1. \A tok \in Tokens : db.disk.subs[tok] \in Row /\ db'.disk.subs[tok] \in Row
  BY DEF TypeOK, Tables
<1>2. stage' \in [Tokens -> Lifecycle!Stages]
  BY <1>1 DEF stage, Lifecycle!Stages, Row
<1>3. ASSUME NEW tok \in Tokens
      PROVE  Lifecycle!Follows(stage[tok], stage'[tok], tok \in entitled)
  BY <1>1 DEF Lifecycle!Follows, stage, entitled, Row, Forward, HasCause
<1>4. Lifecycle!Record
  BY <1>2, <1>3 DEF Lifecycle!Record, stage, entitled
<1>5. QED
  BY <1>4 DEF Lifecycle!Next

LEMMA LifecycleStep ==
  ASSUME IInv, Typed', [Next]_vars
  PROVE  [Lifecycle!Next]_<<stage, entitled>>
<1> USE DEF external, history, counters
<1>0. /\ TypeOK /\ TypeOK' /\ ViewAhead /\ Caused /\ AnswersAreDurable
  BY DEF IInv, Typed
<1>1. ASSUME UNCHANGED <<payments, asked>> PROVE UNCHANGED entitled
  BY <1>1 DEF entitled, Entitled, paid
<1>2. ASSUME db'.disk = db.disk PROVE UNCHANGED stage
  BY <1>2 DEF stage
<1>3. ASSUME db'.disk = db.disk,
             \A p \in Payments : /\ payments'[p].status = "succeeded" <=>
                                      payments[p].status = "succeeded"
                                 /\ payments[p].status = "succeeded" =>
                                      payments'[p] = payments[p],
             asked' = asked
      PROVE  [Lifecycle!Next]_<<stage, entitled>>
  <2>1. \A tok \in Tokens : Entitled(tok)' <=> Entitled(tok)
    BY <1>3 DEF Entitled, paid
  <2>2. UNCHANGED entitled
    BY <2>1 DEF entitled
  <2>3. QED
    BY <1>2, <1>3, <2>2, Stutters
<1>4. ASSUME NEW t \in Threads, ThreadStep(t) PROVE [Lifecycle!Next]_<<stage, entitled>>
  <2>1. CASE StartAdminActivation(t)
    <3>1. PICK tok \in issued \cup {None} : asked' = asked \cup ({tok} \cap Tokens)
      BY <2>1 DEF StartAdminActivation
    <3>2. UNCHANGED <<db, payments>>
      BY <2>1 DEF StartAdminActivation
    <3>3. CASE tok \in Tokens
      <4>1. durable(tok)
        BY <1>0, <3>1, <3>3, NoneAssumption DEF AnswersAreDurable, durable
      <4>2. entitled' = entitled \cup {tok}
        BY <3>1, <3>2, <3>3 DEF entitled, Entitled, paid
      <4>3. QED
        BY <1>2, <3>2, <3>3, <4>1, <4>2, Entitles
    <3>4. CASE tok \notin Tokens
      BY <1>3, <3>1, <3>2, <3>4
    <3>5. QED
      BY <3>3, <3>4
  <2>2. CASE WriteStatement(t)
    <3>1. /\ UNCHANGED <<payments, asked>> /\ pc[t] = "write"
          /\ db' = Execute(db, Written(req[t], db.view))
      BY <2>2 DEF WriteStatement
    <3>2. CASE db.open
      <4>1. db'.disk = db.disk
        BY <3>1, <3>2 DEF Execute
      <4>2. QED
        BY <1>3, <3>1, <4>1
    <3>3. CASE ~db.open
      <4>1. db.view = db.disk /\ db'.disk = Written(req[t], db.view)
        BY <1>0, <3>1, <3>3 DEF Execute, ViewAhead, NothingPending
      <4>2. ASSUME NEW tok \in Tokens
            PROVE  /\ Forward(db.disk.subs[tok], db'.disk.subs[tok])
                   /\ HasCause(tok, db'.disk.subs[tok])
                   /\ db'.disk.subs[tok].status = "active" =>
                        db.disk.subs[tok].status # "absent"
        BY <3>1, <4>1, WrittenGrows DEF sub, durable
      <4>3. QED
        BY <1>0, <1>1, <3>1, <4>2, Records
    <3>4. QED
      BY <3>2, <3>3
  <2>3. CASE CommitTransaction(t)
    <3>1. UNCHANGED <<payments, asked>>
      BY <2>3 DEF CommitTransaction
    <3>2. CASE ~db.open
      BY <1>3, <2>3, <3>1, <3>2 DEF CommitTransaction
    <3>3. CASE db.open
      <4>1. db'.disk = db.view
        BY <2>3, <3>3 DEF CommitTransaction, Commit
      <4>2. ASSUME NEW tok \in Tokens
            PROVE  /\ Forward(db.disk.subs[tok], db'.disk.subs[tok])
                   /\ HasCause(tok, db'.disk.subs[tok])
                   /\ db'.disk.subs[tok].status = "active" =>
                        db.disk.subs[tok].status # "absent"
        BY <1>0, <4>1 DEF ViewAhead, Caused, Forward, durable, sub
      <4>3. QED
        BY <1>0, <1>1, <3>1, <4>2, Records
    <3>4. QED
      BY <3>2, <3>3
  <2>4. CASE BeginTransaction(t)
    <3>1. UNCHANGED <<payments, asked>> /\ (db' = db \/ db' = Begin(db))
      BY <2>4 DEF BeginTransaction
    <3>2. db'.disk = db.disk
      BY <1>0, <3>1 DEF Begin, TypeOK
    <3>3. QED
      BY <1>3, <3>1, <3>2
  <2>5. CASE CreatePayment(t)
    <3>1. db'.disk = db.disk /\ asked' = asked
      BY <2>5 DEF CreatePayment
    <3>2. \A p \in Payments : /\ payments'[p].status = "succeeded" <=>
                                   payments[p].status = "succeeded"
                              /\ payments[p].status = "succeeded" =>
                                   payments'[p] = payments[p]
      BY <1>0, <2>5 DEF CreatePayment, TypeOK
    <3>3. QED
      BY <1>3, <3>1, <3>2
  <2>6. CASE \/ StartCheckout(t) \/ StartReceipt(t) \/ StartDeletion(t) \/ StartOther(t)
             \/ \E p \in Payments : StartWebhook(t, p)
    BY <1>3, <2>6 DEF StartCheckout, StartReceipt, StartDeletion, StartOther, StartWebhook
  <2>7. CASE FetchPayment(t) \/ SelectSubscription(t) \/ ExecuteStatement(t) \/ LookBeforeCommit(t)
    BY <1>3, <2>7 DEF FetchPayment, SelectSubscription, ExecuteStatement, LookBeforeCommit
  <2>8. CASE RefusePayment(t) \/ ViolateConstraint(t) \/ AbandonRequest(t) \/ Respond(t)
    BY <1>3, <2>8 DEF RefusePayment, ViolateConstraint, AbandonRequest, Respond
  <2>9. QED
    BY <1>4, <2>1, <2>2, <2>3, <2>4, <2>5, <2>6, <2>7, <2>8 DEF ThreadStep, HandlerStep
<1>5. ASSUME NEW p \in Payments, CreateDevicePayment(p)
      PROVE  [Lifecycle!Next]_<<stage, entitled>>
  <2>1. db'.disk = db.disk /\ asked' = asked
    BY <1>5 DEF CreateDevicePayment
  <2>2. \A q \in Payments : /\ payments'[q].status = "succeeded" <=>
                                 payments[q].status = "succeeded"
                            /\ payments[q].status = "succeeded" => payments'[q] = payments[q]
    BY <1>0, <1>5 DEF CreateDevicePayment, TypeOK
  <2>3. QED
    BY <1>3, <2>1, <2>2
<1>6. ASSUME NEW p \in Payments, Settle(p) PROVE [Lifecycle!Next]_<<stage, entitled>>
  <2>1. UNCHANGED <<db, asked, issued>> /\ payments[p].status = "pending"
    BY <1>6 DEF Settle
  <2>2. CASE payments' = [payments EXCEPT ![p].status = "canceled"]
    <3>1. \A q \in Payments : /\ payments'[q].status = "succeeded" <=>
                                   payments[q].status = "succeeded"
                              /\ payments[q].status = "succeeded" => payments'[q] = payments[q]
      BY <1>0, <2>1, <2>2 DEF TypeOK, Payment
    <3>2. QED
      BY <1>3, <2>1, <3>1
  <2>3. CASE /\ payments[p].target \in issued \cup Devices
             /\ payments' = [payments EXCEPT ![p].status = "succeeded"]
    <3> DEFINE tok == payments[p].target
    <3>1. /\ \A q \in Payments \ {p} : payments'[q] = payments[q]
          /\ payments'[p].status = "succeeded" /\ payments'[p].target = tok
      BY <1>0, <2>3 DEF TypeOK, Payment
    <3>2. \A k \in Tokens : paid(k)' <=> paid(k) \/ k = tok
      BY <2>1, <3>1 DEF paid
    <3>3. \A k \in Tokens : Entitled(k)' <=> Entitled(k) \/ k = tok
      BY <2>1, <3>2 DEF Entitled
    <3>4. CASE tok \in issued
      <4>1. tok \in Tokens /\ durable(tok)
        BY <1>0, <3>4 DEF AnswersAreDurable, durable, TypeOK
      <4>2. entitled' = entitled \cup {tok}
        BY <3>3, <4>1 DEF entitled
      <4>3. UNCHANGED stage
        BY <1>2, <2>1
      <4> HIDE DEF tok
      <4>4. QED
        BY <4>1, <4>2, <4>3, Entitles
    <3>5. CASE tok \notin issued
      <4>1. tok \notin Tokens
        BY <2>3, <3>5, TargetAssumption
      <4>2. entitled' = entitled
        BY <3>3, <4>1 DEF entitled
      <4>3. QED
        BY <1>2, <2>1, <4>2, Stutters
    <3>6. QED
      BY <3>4, <3>5
  <2>4. QED
    BY <1>6, <2>2, <2>3 DEF Settle
<1>7. CASE Crash \/ Tick \/ UNCHANGED vars
  <2>1. ASSUME Crash PROVE db'.disk = db.disk /\ UNCHANGED <<payments, asked>>
    BY <2>1 DEF Crash, Reconnect, Connect
  <2>2. ASSUME Tick \/ UNCHANGED vars PROVE db'.disk = db.disk /\ UNCHANGED <<payments, asked>>
    BY <2>2 DEF Tick, vars
  <2>3. QED
    BY <1>3, <1>7, <2>1, <2>2
<1>8. QED
  BY <1>4, <1>5, <1>6, <1>7 DEF Next

(* Threads, statements, shared transactions, webhooks and crashes          *)
(* implement the life of a link: one stage at a time, never back, never    *)
(* active without a cause.                                                 *)
THEOREM Refinement == Spec => ImplementsLifecycle
<1>1. Init => Lifecycle!Init
  BY LifecycleInit
<1>2. IInv /\ Typed' /\ [Next]_vars => [Lifecycle!Next]_<<stage, entitled>>
  BY LifecycleStep
<1>3. Spec => []IInv /\ []Typed
  <2>1. IInv => Typed
    BY DEF IInv, Typed
  <2>2. QED
    BY <2>1, Invariance, PTL
<1>4. QED
  BY <1>1, <1>2, <1>3, PTL DEF Spec, ImplementsLifecycle, Lifecycle!Spec, stage, entitled

-----------------------------------------------------------------------------
(* The time a link has.  With many threads an extension may be lost, when   *)
(* two requests read the same expiry before one of them writes.  That is    *)
(* the only way: whatever else overlaps, fails or restarts.                 *)
Updates(t) == req[t].statement = "update" /\ pc[t] \in {"execute", "begin", "write"}

(* No two requests are between their SELECT and their UPDATE of a link.     *)
NoRacingUpdates ==
  \A t, u \in Threads : Updates(t) /\ Updates(u) /\ req[t].target = req[u].target => t = u

(* No two requests are about the same link, from SELECT to response.        *)
OneRequestPerLink ==
  \A t, u \in Threads : req[t].target \in Tokens /\ req[t].target = req[u].target => t = u

(* The expiry a request is to write is that of the row, days added.         *)
TimeSound(t) ==
  Updates(t) => req[t].expires >= sub(req[t].target).expires
                                  + (IF pc[t] = "execute" THEN 0 ELSE req[t].days)
TimeAhead(tok) ==
  /\ sub(tok).expires >= db.disk.subs[tok].expires
  /\ sub(tok).status = "absent" => sub(tok).expires = 0
  /\ db.disk.subs[tok].status = "absent" => db.disk.subs[tok].expires = 0
TimeInv == (\A tok \in Tokens : TimeAhead(tok)) /\ \A t \in Threads : TimeSound(t)

(* What a request has written and not answered is there to be answered.     *)
DaysSound(t) ==
  LET r == req[t]
      owed == granted[r.target] + r.days
  IN  /\ r.statement = "update" /\ pc[t] \in {"commit", "committing"} => sub(r.target).expires >= owed
      /\ \/ r.statement = "update" /\ pc[t] = "respond"
         \/ r.statement = "audit"
         => db.disk.subs[r.target].expires >= owed
DaysInv == GrantedDaysAreKept /\ \A t \in Threads : DaysSound(t)

LEMMA RowTypes ==
  ASSUME TypeOK
  PROVE  /\ \A tok \in Tokens : /\ sub(tok) \in Row /\ sub(tok).expires \in Nat
                                /\ db.disk.subs[tok] \in Row /\ db.disk.subs[tok].expires \in Nat
         /\ \A t \in Threads : req[t] \in Request /\ req[t].expires \in Nat /\ req[t].days \in Nat
         /\ now \in Nat
<1>1. \A tok \in Tokens : sub(tok) \in Row /\ db.disk.subs[tok] \in Row
  BY DEF TypeOK, Tables, sub
<1>2. \A row \in Row : row.expires \in Nat
  BY DEF Row
<1>3. \A r \in Request : r.expires \in Nat /\ r.days \in Nat
  <2>1. \A r \in Request : r.expires \in Nat /\ r.days \in Durations \cup {0}
    BY DEF Request
  <2>2. Durations \cup {0} \subseteq Nat
    BY DurationsAssumption
  <2> QED BY <2>1, <2>2
<1>4. \A t \in Threads : req[t] \in Request
  BY DEF TypeOK
<1> QED BY <1>1, <1>2, <1>3, <1>4 DEF TypeOK

LEMMA RowTypesNext ==
  ASSUME TypeOK'
  PROVE  /\ \A tok \in Tokens : sub(tok)'.expires \in Nat /\ db'.disk.subs[tok].expires \in Nat
         /\ \A t \in Threads : req'[t] \in Request /\ req'[t].expires \in Nat /\ req'[t].days \in Nat
<1>1. \A tok \in Tokens : sub(tok)' \in Row /\ db'.disk.subs[tok] \in Row
  BY DEF TypeOK, Tables, sub
<1>2. \A row \in Row : row.expires \in Nat
  BY DEF Row
<1>3. \A r \in Request : r.expires \in Nat /\ r.days \in Nat
  <2>1. \A r \in Request : r.expires \in Nat /\ r.days \in Durations \cup {0}
    BY DEF Request
  <2>2. Durations \cup {0} \subseteq Nat
    BY DurationsAssumption
  <2> QED BY <2>1, <2>2
<1>4. \A t \in Threads : req'[t] \in Request
  BY DEF TypeOK
<1> QED BY <1>1, <1>2, <1>3, <1>4

LEMMA TimeInit == Init => TimeInv /\ DaysInv
<1> SUFFICES ASSUME Init PROVE TimeInv /\ DaysInv
  OBVIOUS
<1>1. \A tok \in Tokens : sub(tok) = Absent /\ db.disk.subs[tok] = Absent /\ granted[tok] = 0
  BY DEF Init, Connect, sub
<1>2. \A t \in Threads : req[t].statement = "none"
  BY DEF Init, NoRequest
<1>3. Absent.expires = 0
  BY DEF Absent
<1>4. TimeInv
  BY <1>1, <1>2, <1>3 DEF TimeInv, TimeAhead, TimeSound, Updates
<1>5. GrantedDaysAreKept
  BY <1>1, <1>3 DEF GrantedDaysAreKept
<1>6. \A t \in Threads : DaysSound(t)
  BY <1>2 DEF DaysSound
<1> QED BY <1>4, <1>5, <1>6 DEF DaysInv

(* What a statement does to the expiry of each row.                         *)
LEMMA WrittenTime ==
  ASSUME IInv, TimeInv, NEW t \in Threads, pc[t] = "write", NEW tok \in Tokens
  PROVE  LET after == Written(req[t], db.view).subs[tok]
         IN  /\ after.expires \in Nat
             /\ after.expires >= sub(tok).expires
             /\ after.status = "absent" => after.expires = 0
             /\ ~(req[t].statement = "update" /\ req[t].target = tok) => after.expires = sub(tok).expires
             /\ req[t].statement = "update" /\ req[t].target = tok =>
                  after.expires >= sub(tok).expires + req[t].days
<1> DEFINE after == Written(req[t], db.view).subs[tok]
<1>0. /\ TypeOK /\ RequestShape(t, req[t]) /\ RequestSound(t, req[t]) /\ req[t] \in Request
      /\ db.view \in Tables /\ db.view.subs \in [Tokens -> Row] /\ TimeAhead(tok) /\ TimeSound(t)
  BY DEF IInv, Shape, TypeOK, Tables, TimeInv
<1>1. /\ sub(tok).expires \in Nat /\ req[t].expires \in Nat /\ req[t].days \in Nat
  BY <1>0, RowTypes
<1>2. CASE req[t].statement = "insert"
  <2>1. Written(req[t], db.view).subs = [db.view.subs EXCEPT ![req[t].target] = Pending]
    BY <1>0, <1>2 DEF Written, Tables
  <2>2. sub(req[t].target).status = "absent"
    BY <1>0, <1>2 DEF RequestSound
  <2>3. Pending.expires = 0 /\ Pending.status = "pending"
    BY DEF Pending
  <2>4. CASE tok = req[t].target
    <3>1. after = Pending
      BY <1>0, <2>1, <2>4
    <3>2. sub(tok).expires = 0
      BY <1>0, <2>2, <2>4 DEF TimeAhead
    <3> QED BY <1>2, <2>3, <3>1, <3>2
  <2>5. CASE tok # req[t].target
    <3>1. after = sub(tok)
      BY <1>0, <2>1, <2>5 DEF sub
    <3> QED BY <1>0, <1>1, <1>2, <3>1 DEF TimeAhead
  <2> QED BY <2>4, <2>5
<1>3. CASE req[t].statement = "update"
  <2> DEFINE row == [status |-> "active", expires |-> req[t].expires, payment |-> req[t].payment]
  <2>1. Written(req[t], db.view).subs = [db.view.subs EXCEPT ![req[t].target] = row]
    BY <1>0, <1>3 DEF Written, Tables
  <2>2. row.expires = req[t].expires /\ row.status = "active"
    OBVIOUS
  <2> HIDE DEF row
  <2>3. CASE tok = req[t].target
    <3>1. after = row
      BY <1>0, <2>1, <2>3
    <3>2. req[t].expires >= sub(tok).expires + req[t].days
      BY <1>0, <1>3, <2>3 DEF TimeSound, Updates
    <3> QED BY <1>1, <1>3, <2>2, <2>3, <3>1, <3>2
  <2>4. CASE tok # req[t].target
    <3>1. after = sub(tok)
      BY <1>0, <2>1, <2>4 DEF sub
    <3> QED BY <1>0, <1>1, <1>3, <2>4, <3>1 DEF TimeAhead
  <2> QED BY <2>3, <2>4
<1>4. CASE req[t].statement \notin {"insert", "update"}
  <2>1. Written(req[t], db.view).subs = db.view.subs
    BY <1>0, <1>4 DEF Written, Tables
  <2>2. after = sub(tok)
    BY <2>1 DEF sub
  <2> QED BY <1>0, <1>1, <1>4, <2>2 DEF TimeAhead
<1> QED BY <1>2, <1>3, <1>4

(* No row loses time, in the view or on disk, except that a restart goes    *)
(* back to the disk.                                                        *)
LEMMA RowsKeepTime ==
  ASSUME IInv, TimeInv, [Next]_vars, NEW tok \in Tokens
  PROVE  /\ TimeAhead(tok)'
         /\ db'.disk.subs[tok].expires >= db.disk.subs[tok].expires
         /\ Crash \/ sub(tok)'.expires >= sub(tok).expires
         /\ \/ sub(tok)'.expires = sub(tok).expires
            \/ Crash
            \/ \E t \in Threads : /\ WriteStatement(t) /\ req[t].statement = "update"
                                  /\ req[t].target = tok
<1>0. /\ TypeOK /\ TimeAhead(tok) /\ ViewAhead
      /\ sub(tok).expires \in Nat /\ db.disk.subs[tok].expires \in Nat
      /\ sub(tok) = db.view.subs[tok] /\ sub(tok)' = db'.view.subs[tok]
  BY RowTypes DEF IInv, TimeInv, sub
<1>1. CASE db'.view = db.view /\ db'.disk = db.disk
  BY <1>0, <1>1 DEF TimeAhead
<1>2. CASE db'.view = db.view /\ db'.disk = db.view
  BY <1>0, <1>2 DEF TimeAhead
<1>3. CASE Crash
  <2>1. db'.view = db.disk /\ db'.disk = db.disk
    BY <1>3 DEF Crash, Reconnect, Connect
  <2> QED BY <1>0, <1>3, <2>1 DEF TimeAhead
<1>4. ASSUME NEW t \in Threads, WriteStatement(t)
      PROVE  /\ TimeAhead(tok)'
             /\ db'.disk.subs[tok].expires >= db.disk.subs[tok].expires
             /\ sub(tok)'.expires >= sub(tok).expires
             /\ \/ sub(tok)'.expires = sub(tok).expires
                \/ req[t].statement = "update" /\ req[t].target = tok
  <2> DEFINE tables == Written(req[t], db.view)
             after == tables.subs[tok]
  <2>1. /\ pc[t] = "write" /\ db' = Execute(db, tables)
    BY <1>4 DEF WriteStatement
  <2>2. /\ after.expires \in Nat /\ after.expires >= sub(tok).expires
        /\ after.status = "absent" => after.expires = 0
        /\ ~(req[t].statement = "update" /\ req[t].target = tok) => after.expires = sub(tok).expires
    BY <2>1, WrittenTime
  <2>3. sub(tok)' = after /\ (db'.disk = db.disk \/ db'.disk = tables)
    BY <1>0, <2>1 DEF Execute
  <2> HIDE DEF tables
  <2>4. db'.disk.subs[tok] = db.disk.subs[tok] \/ db'.disk.subs[tok] = after
    BY <2>3
  <2> HIDE DEF after
  <2> QED BY <1>0, <2>2, <2>3, <2>4 DEF TimeAhead
<1>5. ASSUME NEW t \in Threads, BeginTransaction(t) \/ CommitTransaction(t)
      PROVE  db'.view = db.view /\ (db'.disk = db.disk \/ db'.disk = db.view)
  BY <1>0, <1>5 DEF BeginTransaction, CommitTransaction, Begin, Commit, TypeOK
<1>6. ASSUME NEW t \in Threads, ThreadStep(t), ~WriteStatement(t),
             ~BeginTransaction(t), ~CommitTransaction(t)
      PROVE  db' = db
  BY <1>6 DEF ThreadStep, HandlerStep, StartCheckout, StartAdminActivation, StartReceipt,
              StartDeletion, StartOther, StartWebhook,
              FetchPayment, SelectSubscription, ExecuteStatement, LookBeforeCommit, CreatePayment,
              RefusePayment, Respond, ViolateConstraint, AbandonRequest
<1>7. CASE Tick \/ UNCHANGED vars \/ \E p \in Payments : CreateDevicePayment(p) \/ Settle(p)
  BY <1>1, <1>7 DEF Tick, vars, CreateDevicePayment, Settle
<1> QED BY <1>1, <1>2, <1>3, <1>4, <1>5, <1>6, <1>7 DEF Next

(* A request changes by a step of its own thread or ends with the process.  *)
LEMMA OwnSteps ==
  ASSUME TypeOK, [Next]_vars, NEW u \in Threads
  PROVE  \/ Crash
         \/ ThreadStep(u)
         \/ pc'[u] = pc[u] /\ req'[u] = req[u]
<1>0. pc \in [Threads -> Locations] /\ req \in [Threads -> Request]
  BY DEF TypeOK
<1>1. ASSUME NEW t \in Threads \ {u}, ThreadStep(t)
      PROVE  pc'[u] = pc[u] /\ req'[u] = req[u]
  <2>1. \A l, r : Accept(t, l, r) => pc'[u] = pc[u] /\ req'[u] = req[u]
    BY <1>0 DEF Accept, Goto
  <2>2. \A l : Goto(t, l) => pc'[u] = pc[u]
    BY <1>0 DEF Goto
  <2>3. Leave(t) => pc'[u] = pc[u] /\ req'[u] = req[u]
    BY <1>0 DEF Leave, Goto
  <2>4. AfterCommit(t) => pc'[u] = pc[u] /\ req'[u] = req[u]
    <3>1. AfterCommit(t) => OnlyMoves(t)
      BY CommittedMoves
    <3> QED BY <1>0, <3>1 DEF OnlyMoves
  <2>5. CASE \/ StartCheckout(t) \/ StartAdminActivation(t) \/ StartOther(t)
             \/ \E p \in Payments : StartWebhook(t, p)
    BY <2>1, <2>5 DEF StartCheckout, StartAdminActivation, StartOther, StartWebhook
  <2>14. CASE StartReceipt(t) \/ StartDeletion(t)
    BY <2>1, <2>14 DEF StartReceipt, StartDeletion
  <2>6. CASE FetchPayment(t)
    BY <1>0, <2>2, <2>3, <2>6 DEF FetchPayment
  <2>7. CASE SelectSubscription(t)
    BY <1>0, <2>2, <2>3, <2>7 DEF SelectSubscription
  <2>8. CASE ExecuteStatement(t)
    BY <1>0, <2>2, <2>8 DEF ExecuteStatement
  <2>9. CASE BeginTransaction(t)
    BY <2>2, <2>3, <2>9 DEF BeginTransaction
  <2>10. CASE WriteStatement(t)
    BY <2>2, <2>10 DEF WriteStatement
  <2>11. CASE LookBeforeCommit(t) \/ CommitTransaction(t)
    BY <2>2, <2>3, <2>4, <2>11 DEF LookBeforeCommit, CommitTransaction
  <2>12. CASE CreatePayment(t)
    BY <2>2, <2>12 DEF CreatePayment
  <2>13. CASE RefusePayment(t) \/ Respond(t) \/ ViolateConstraint(t) \/ AbandonRequest(t)
    BY <2>3, <2>13 DEF RefusePayment, Respond, ViolateConstraint, AbandonRequest
  <2> QED BY <1>1, <2>5, <2>6, <2>7, <2>8, <2>9, <2>10, <2>11, <2>12, <2>13, <2>14
      DEF ThreadStep, HandlerStep
<1>2. CASE Tick \/ UNCHANGED vars \/ \E p \in Payments : CreateDevicePayment(p) \/ Settle(p)
  BY <1>2 DEF Tick, vars, CreateDevicePayment, Settle
<1> QED BY <1>1, <1>2 DEF Next

(* Where a request may come to by a step of its own, for those that update. *)
LEMMA UpdateSteps ==
  ASSUME IInv, NEW u \in Threads, ThreadStep(u), Updates(u)'
  PROVE  \/ /\ SelectSubscription(u) /\ pc'[u] = "execute" /\ req'[u].target = req[u].target
            /\ req'[u].expires = sub(req[u].target).expires
         \/ /\ ExecuteStatement(u) /\ Updates(u) /\ pc'[u] # "execute"
            /\ req'[u].target = req[u].target /\ req'[u].days = req[u].days
            /\ req'[u].expires = RenewedExpiry(req[u].expires, now, req[u].days)
         \/ /\ BeginTransaction(u) /\ Updates(u) /\ pc[u] = "begin" /\ pc'[u] = "write"
            /\ req'[u] = req[u]
<1>0. /\ pc \in [Threads -> Locations] /\ req \in [Threads -> Request] /\ TypeOK
      /\ RequestShape(u, req[u]) /\ req[u] \in Request
  BY DEF IInv, TypeOK, Shape
<1>1. NoRequest.statement = "none"
  BY DEF NoRequest
<1>2. ~Leave(u)
  BY <1>0, <1>1 DEF Leave, Updates
<1>3. CASE \/ StartCheckout(u) \/ StartAdminActivation(u)
           \/ StartReceipt(u) \/ StartDeletion(u) \/ StartOther(u)
           \/ \E p \in Payments : StartWebhook(u, p)
  <2>1. req'[u].statement # "update"
    <3>1. \A l, r : Accept(u, l, r) => req'[u] = r
      BY <1>0 DEF Accept
    <3>2. CASE StartCheckout(u)
      <4>1. PICK tok \in FreshTokens, days \in Durations :
              Accept(u, "execute", [NoRequest EXCEPT !.op = "checkout", !.target = tok,
                                       !.days = days, !.statement = "insert"])
        BY <3>2 DEF StartCheckout
      <4> QED BY <3>1, <4>1 DEF NoRequest
    <3>3. CASE StartAdminActivation(u)
      <4>1. PICK tok \in issued \cup {None}, days \in Durations :
              Accept(u, "select", [NoRequest EXCEPT !.op = "admin", !.target = tok, !.days = days])
        BY <3>3 DEF StartAdminActivation
      <4> QED BY <3>1, <4>1 DEF NoRequest
    <3>4. CASE StartOther(u)
      BY <3>1, <3>4 DEF StartOther, NoRequest
    <3>5. ASSUME NEW p \in Payments, StartWebhook(u, p) PROVE req'[u].statement # "update"
      BY <3>1, <3>5 DEF StartWebhook, NoRequest
    <3>6. CASE StartReceipt(u)
      <4>1. PICK d \in Devices \cup issued :
              \/ Accept(u, "execute", [NoRequest EXCEPT !.op = "receipt", !.target = d,
                                          !.statement = "account"])
              \/ \E p \in Payments, days \in Durations :
                   Accept(u, "fetch", [NoRequest EXCEPT !.op = "receipt", !.target = d,
                                        !.payment = p, !.days = days])
        BY <3>6 DEF StartReceipt
      <4> QED BY <3>1, <4>1 DEF NoRequest
    <3>7. CASE StartDeletion(u)
      <4>1. PICK d \in db.view.accounts :
              Accept(u, "execute", [NoRequest EXCEPT !.op = "delete", !.target = d,
                                      !.statement = "forget"])
        BY <3>7 DEF StartDeletion
      <4> QED BY <3>1, <4>1 DEF NoRequest
    <3> QED BY <1>3, <3>2, <3>3, <3>4, <3>5, <3>6, <3>7
  <2> QED BY <2>1 DEF Updates
<1>4. CASE FetchPayment(u)
  <2>1. \/ pc' = [pc EXCEPT ![u] = "select"]
        \/ req' = [req EXCEPT ![u].statement = "account"]
    BY <1>2, <1>4 DEF FetchPayment, Goto
  <2>2. pc'[u] = "select" \/ req'[u].statement = "account"
    BY <1>0, <2>1 DEF Request
  <2> QED BY <2>2 DEF Updates
<1>5. CASE SelectSubscription(u)
  <2>1. CASE Recorded(req[u].target)
    <3>1. /\ pc' = [pc EXCEPT ![u] = "execute"]
          /\ req' = [req EXCEPT ![u].expires = sub(req[u].target).expires,
                                ![u].payment = IF @ = None THEN sub(req[u].target).payment ELSE @,
                                ![u].statement = "update"]
      BY <1>5, <2>1 DEF SelectSubscription, Goto
    <3>2. /\ pc'[u] = "execute" /\ req'[u].target = req[u].target
          /\ req'[u].expires = sub(req[u].target).expires
      BY <1>0, <3>1 DEF Request
    <3> QED BY <1>5, <3>2
  <2>2. CASE ~Recorded(req[u].target) /\ req[u].op = "webhook"
    <3>1. req' = [req EXCEPT ![u].statement = "account"]
      BY <1>5, <2>2 DEF SelectSubscription
    <3>2. req'[u].statement = "account"
      BY <1>0, <3>1 DEF Request
    <3> QED BY <3>2 DEF Updates
  <2>3. CASE ~Recorded(req[u].target) /\ req[u].op # "webhook"
    BY <1>2, <1>5, <2>3 DEF SelectSubscription
  <2> QED BY <2>1, <2>2, <2>3
<1>6. CASE ExecuteStatement(u)
  <2>1. pc[u] = "execute" /\ pc'[u] # "execute"
    BY <1>0, <1>6 DEF ExecuteStatement, Goto
  <2>2. CASE req[u].statement = "update"
    <3>1. req' = [req EXCEPT ![u].expires = RenewedExpiry(@, now, req[u].days)]
      BY <1>6, <2>2 DEF ExecuteStatement
    <3>2. /\ req'[u].target = req[u].target /\ req'[u].days = req[u].days
          /\ req'[u].expires = RenewedExpiry(req[u].expires, now, req[u].days)
      BY <1>0, <3>1 DEF Request
    <3> QED BY <1>6, <2>1, <2>2, <3>2 DEF Updates
  <2>3. CASE req[u].statement # "update"
    BY <1>6, <2>3 DEF ExecuteStatement, Updates
  <2> QED BY <2>2, <2>3
<1>7. CASE BeginTransaction(u)
  <2>1. pc[u] = "begin" /\ pc' = [pc EXCEPT ![u] = "write"] /\ req' = req
    BY <1>2, <1>7 DEF BeginTransaction, Goto
  <2> QED BY <1>0, <1>7, <2>1 DEF Updates
<1>8. CASE WriteStatement(u)
  BY <1>0, <1>8 DEF WriteStatement, Goto, Updates
<1>9. CASE LookBeforeCommit(u) \/ CommitTransaction(u)
  <2>1. \/ AfterCommit(u)
        \/ pc' = [pc EXCEPT ![u] = "committing"]
    BY <1>2, <1>9 DEF LookBeforeCommit, CommitTransaction, Goto
  <2>2. CASE AfterCommit(u)
    <3>1. CASE pc'[u] = "execute"
      <4>1. req'[u] = [req[u] EXCEPT !.statement = "audit"]
        BY <1>0, <2>2, <3>1, CommittedMoves
      <4> QED BY <1>0, <4>1 DEF Updates, Request
    <3>2. CASE pc'[u] # "execute"
      BY <1>0, <2>2, <3>2, CommittedMoves DEF Updates
    <3> QED BY <3>1, <3>2
  <2> QED BY <1>0, <2>1, <2>2 DEF Updates
<1>10. CASE CreatePayment(u)
  BY <1>0, <1>10 DEF CreatePayment, Goto, Updates
<1>11. CASE RefusePayment(u) \/ Respond(u) \/ ViolateConstraint(u) \/ AbandonRequest(u)
  BY <1>2, <1>11 DEF RefusePayment, Respond, ViolateConstraint, AbandonRequest
<1> QED BY <1>3, <1>4, <1>5, <1>6, <1>7, <1>8, <1>9, <1>10, <1>11 DEF ThreadStep, HandlerStep

LEMMA TimeStep ==
  ASSUME IInv, IInv', TimeInv, NoRacingUpdates, [Next]_vars
  PROVE  TimeInv'
<1>0. TypeOK /\ TypeOK'
  BY DEF IInv
<1>1. \A tok \in Tokens : TimeAhead(tok)'
  BY RowsKeepTime
<1>2. ASSUME NEW u \in Threads, Updates(u)' PROVE TimeSound(u)'
  <2>1. ~Crash
    BY <1>2 DEF Crash, Updates
  <2>2. PICK tok \in Tokens : tok = req'[u].target
    <3>1. RequestShape(u, req[u])'
      BY DEF IInv, Shape
    <3> QED BY <1>2, <3>1 DEF RequestShape, Updates
  <2>3. /\ sub(tok).expires \in Nat /\ sub(tok)'.expires \in Nat
        /\ req[u].expires \in Nat /\ req'[u].expires \in Nat
        /\ req[u].days \in Nat /\ req'[u].days \in Nat /\ now \in Nat
    BY <1>0, RowTypes, RowTypesNext
  <2>4. CASE pc'[u] = pc[u] /\ req'[u] = req[u]
    <3>1. Updates(u) /\ req[u].target = tok /\ TimeSound(u)
      BY <1>2, <2>2, <2>4 DEF Updates, TimeInv
    <3>2. sub(tok)'.expires = sub(tok).expires
      <4>1. SUFFICES ASSUME NEW t \in Threads, WriteStatement(t), req[t].statement = "update",
                            req[t].target = tok
                     PROVE  FALSE
        BY <2>1, RowsKeepTime
      <4>2. Updates(t)
        BY <4>1 DEF Updates, WriteStatement
      <4>3. t = u
        BY <3>1, <4>1, <4>2 DEF NoRacingUpdates
      <4>4. pc[u] = "write" /\ pc'[u] = "commit"
        BY <1>0, <4>1, <4>3 DEF WriteStatement, Goto, TypeOK
      <4> QED BY <2>4, <4>4
    <3> QED BY <2>2, <2>3, <2>4, <3>1, <3>2 DEF TimeSound, sub
  <2>5. CASE ThreadStep(u)
    <3>1. CASE /\ SelectSubscription(u) /\ pc'[u] = "execute" /\ req'[u].target = req[u].target
               /\ req'[u].expires = sub(req[u].target).expires
      <4>1. sub(tok)'.expires = sub(tok).expires
        BY <3>1 DEF SelectSubscription, sub
      <4> QED BY <2>2, <2>3, <3>1, <4>1 DEF TimeSound, sub
    <3>2. CASE /\ ExecuteStatement(u) /\ Updates(u) /\ pc'[u] # "execute"
               /\ req'[u].target = req[u].target /\ req'[u].days = req[u].days
               /\ req'[u].expires = RenewedExpiry(req[u].expires, now, req[u].days)
      <4>1. sub(tok)'.expires = sub(tok).expires /\ pc[u] = "execute"
        BY <3>2 DEF ExecuteStatement, sub
      <4>2. req[u].expires >= sub(tok).expires + 0
        BY <2>2, <3>2, <4>1 DEF TimeInv, TimeSound
      <4>3. req'[u].expires >= req[u].expires + req[u].days
        BY <2>3, <3>2 DEF RenewedExpiry
      <4>4. req'[u].expires >= sub(tok)'.expires + req'[u].days
        BY <2>3, <3>2, <4>1, <4>2, <4>3
      <4> QED BY <2>2, <3>2, <4>4 DEF TimeSound, sub
    <3>3. CASE /\ BeginTransaction(u) /\ Updates(u) /\ pc[u] = "begin" /\ pc'[u] = "write"
               /\ req'[u] = req[u]
      <4>1. sub(tok)'.expires = sub(tok).expires
        BY <1>0, <3>3 DEF BeginTransaction, Begin, sub, TypeOK
      <4>2. req[u].expires >= sub(tok).expires + req[u].days
        BY <2>2, <3>3 DEF TimeInv, TimeSound
      <4> QED BY <2>2, <3>3, <4>1, <4>2 DEF TimeSound, sub
    <3> QED BY <1>2, <2>5, <3>1, <3>2, <3>3, UpdateSteps
  <2> QED BY <1>0, <2>1, <2>4, <2>5, OwnSteps
<1> QED BY <1>1, <1>2 DEF TimeInv, TimeSound

(* What is owed moves with the request: written, committed, answered.       *)
LEMMA DaysOwnStep ==
  ASSUME IInv, IInv', TimeInv, DaysInv, [Next]_vars,
         NEW u \in Threads, ThreadStep(u), ~Respond(u)
  PROVE  DaysSound(u)'
<1>0. /\ pc \in [Threads -> Locations] /\ req \in [Threads -> Request] /\ TypeOK /\ TypeOK'
      /\ RequestShape(u, req[u]) /\ req[u] \in Request /\ DaysSound(u) /\ ViewAhead
      /\ db \in [view : Tables, disk : Tables, open : BOOLEAN] /\ granted \in [Tokens -> Nat]
      /\ RequestShape(u, req[u])'
  BY DEF IInv, TypeOK, Shape, DaysInv
<1>1. NoRequest.statement = "none"
  BY DEF NoRequest
<1>2. Leave(u) => DaysSound(u)'
  BY <1>0, <1>1 DEF Leave, DaysSound
<1>3. granted' = granted
  BY DEF ThreadStep, HandlerStep, StartCheckout, StartAdminActivation, StartReceipt,
              StartDeletion, StartOther, StartWebhook,
         FetchPayment, SelectSubscription, ExecuteStatement, BeginTransaction, WriteStatement,
         LookBeforeCommit, CommitTransaction, CreatePayment,
         RefusePayment, ViolateConstraint, AbandonRequest, history
<1> DEFINE Waits == /\ req'[u].statement # "audit"
                    /\ req'[u].statement = "update" => pc'[u] \notin {"commit", "committing", "respond"}
<1>4. Waits => DaysSound(u)'
  BY DEF DaysSound
(* An audit statement that goes on: the days are on disk already.          *)
<1>5. ASSUME req[u].statement = "audit", req'[u] = req[u] PROVE DaysSound(u)'
  <2>1. PICK tok \in Tokens : tok = req[u].target
    BY <1>0, <1>5 DEF RequestShape
  <2>2. db.disk.subs[tok].expires >= granted[tok] + req[u].days
    BY <1>0, <1>5, <2>1 DEF DaysSound
  <2>3. /\ db'.disk.subs[tok].expires >= db.disk.subs[tok].expires
        /\ db'.disk.subs[tok].expires \in Nat /\ db.disk.subs[tok].expires \in Nat
        /\ granted[tok] \in Nat /\ req[u].days \in Nat
    BY <1>0, RowsKeepTime, RowTypes, RowTypesNext
  <2>4. db'.disk.subs[tok].expires >= granted'[tok] + req[u].days
    BY <1>3, <2>2, <2>3
  <2> QED BY <1>5, <2>1, <2>4 DEF DaysSound
(* An update that reaches the disk.                                        *)
<1>6. ASSUME NEW tok \in Tokens, req[u].statement = "update", tok = req[u].target,
             db'.disk.subs[tok].expires >= granted[tok] + req[u].days,
             pc'[u] \notin {"commit", "committing"},
             req'[u].target = tok, req'[u].days = req[u].days
      PROVE  DaysSound(u)'
  BY <1>3, <1>6 DEF DaysSound
<1>7. CASE \/ StartCheckout(u) \/ StartAdminActivation(u)
           \/ StartReceipt(u) \/ StartDeletion(u) \/ StartOther(u)
           \/ \E p \in Payments : StartWebhook(u, p)
  <2>1. req'[u].statement \notin {"update", "audit"}
    <3>1. \A l, r : Accept(u, l, r) => req'[u] = r
      BY <1>0 DEF Accept
    <3>2. CASE StartCheckout(u)
      <4>1. PICK tok \in FreshTokens, days \in Durations :
              Accept(u, "execute", [NoRequest EXCEPT !.op = "checkout", !.target = tok,
                                       !.days = days, !.statement = "insert"])
        BY <3>2 DEF StartCheckout
      <4> QED BY <3>1, <4>1 DEF NoRequest
    <3>3. CASE StartAdminActivation(u)
      <4>1. PICK tok \in issued \cup {None}, days \in Durations :
              Accept(u, "select", [NoRequest EXCEPT !.op = "admin", !.target = tok, !.days = days])
        BY <3>3 DEF StartAdminActivation
      <4> QED BY <3>1, <4>1 DEF NoRequest
    <3>4. CASE StartOther(u)
      BY <3>1, <3>4 DEF StartOther, NoRequest
    <3>5. ASSUME NEW p \in Payments, StartWebhook(u, p)
          PROVE  req'[u].statement \notin {"update", "audit"}
      BY <3>1, <3>5 DEF StartWebhook, NoRequest
    <3>6. CASE StartReceipt(u)
      <4>1. PICK d \in Devices \cup issued :
              \/ Accept(u, "execute", [NoRequest EXCEPT !.op = "receipt", !.target = d,
                                          !.statement = "account"])
              \/ \E p \in Payments, days \in Durations :
                   Accept(u, "fetch", [NoRequest EXCEPT !.op = "receipt", !.target = d,
                                        !.payment = p, !.days = days])
        BY <3>6 DEF StartReceipt
      <4> QED BY <3>1, <4>1 DEF NoRequest
    <3>7. CASE StartDeletion(u)
      <4>1. PICK d \in db.view.accounts :
              Accept(u, "execute", [NoRequest EXCEPT !.op = "delete", !.target = d,
                                      !.statement = "forget"])
        BY <3>7 DEF StartDeletion
      <4> QED BY <3>1, <4>1 DEF NoRequest
    <3> QED BY <1>7, <3>2, <3>3, <3>4, <3>5, <3>6, <3>7
  <2> QED BY <1>4, <2>1
<1>8. CASE FetchPayment(u)
  <2>1. CASE Leave(u)
    BY <1>2, <2>1
  <2>2. CASE ~Leave(u)
    <3>1. \/ pc' = [pc EXCEPT ![u] = "select"]
          \/ req' = [req EXCEPT ![u].statement = "account"]
      BY <1>8, <2>2 DEF FetchPayment, Goto
    <3>2. pc'[u] = "select" \/ req'[u].statement = "account"
      BY <1>0, <3>1 DEF Request
    <3> QED BY <1>0, <1>4, <3>2 DEF RequestShape
  <2> QED BY <2>1, <2>2
<1>9. CASE SelectSubscription(u)
  <2>1. CASE Leave(u)
    BY <1>2, <2>1
  <2>2. CASE ~Leave(u)
    <3>1. pc'[u] = "execute"
      BY <1>0, <1>9, <2>2 DEF SelectSubscription, Goto
    <3>2. req'[u].statement \in {"update", "account"}
      <4>1. CASE Recorded(req[u].target)
        <5>1. req' = [req EXCEPT ![u].expires = sub(req[u].target).expires,
                                 ![u].payment = IF @ = None THEN sub(req[u].target).payment ELSE @,
                                 ![u].statement = "update"]
          BY <1>9, <4>1 DEF SelectSubscription
        <5> QED BY <1>0, <5>1 DEF Request
      <4>2. CASE ~Recorded(req[u].target)
        <5>1. req' = [req EXCEPT ![u].statement = "account"]
          BY <1>9, <2>2, <4>2 DEF SelectSubscription
        <5> QED BY <1>0, <5>1 DEF Request
      <4> QED BY <4>1, <4>2
    <3> QED BY <1>4, <3>1, <3>2
  <2> QED BY <2>1, <2>2
<1>10. CASE ExecuteStatement(u)
  <2>1. pc'[u] \in {"write", "begin"}
    BY <1>0, <1>10 DEF ExecuteStatement, Goto
  <2>2. CASE req[u].statement = "update"
    <3>1. req' = [req EXCEPT ![u].expires = RenewedExpiry(@, now, req[u].days)]
      BY <1>10, <2>2 DEF ExecuteStatement
    <3>2. req'[u].statement = "update"
      BY <1>0, <2>2, <3>1 DEF Request
    <3> QED BY <1>4, <2>1, <3>2
  <2>3. CASE req[u].statement # "update"
    <3>1. req'[u] = req[u]
      BY <1>10, <2>3 DEF ExecuteStatement
    <3> QED BY <1>4, <1>5, <2>1, <2>3, <3>1
  <2> QED BY <2>2, <2>3
<1>11. CASE BeginTransaction(u)
  <2>1. CASE Leave(u)
    BY <1>2, <2>1
  <2>2. CASE ~Leave(u)
    <3>1. pc'[u] = "write" /\ req'[u] = req[u]
      BY <1>0, <1>11, <2>2 DEF BeginTransaction, Goto
    <3> QED BY <1>4, <1>5, <3>1
  <2> QED BY <2>1, <2>2
<1>12. CASE WriteStatement(u)
  <2>1. pc[u] = "write" /\ pc'[u] = "commit" /\ req'[u] = req[u]
        /\ db' = Execute(db, Written(req[u], db.view))
    BY <1>0, <1>12 DEF WriteStatement, Goto
  <2>2. CASE req[u].statement = "update"
    <3>1. PICK tok \in Tokens : tok = req[u].target
      BY <1>0, <2>2 DEF RequestShape
    <3> DEFINE after == Written(req[u], db.view).subs[tok]
    <3>2. after.expires >= sub(tok).expires + req[u].days /\ after.expires \in Nat
      BY <2>1, <2>2, <3>1, WrittenTime
    <3>3. sub(tok)' = after
      BY <2>1 DEF Execute, sub
    <3>4. /\ sub(tok).expires >= db.disk.subs[tok].expires
          /\ db.disk.subs[tok].expires >= granted[tok]
      BY DEF TimeInv, TimeAhead, DaysInv, GrantedDaysAreKept
    <3>5. /\ sub(tok).expires \in Nat /\ db.disk.subs[tok].expires \in Nat
          /\ granted[tok] \in Nat /\ req[u].days \in Nat
      BY <1>0, RowTypes
    <3> HIDE DEF after
    <3>6. sub(tok)'.expires >= granted'[tok] + req[u].days
      BY <1>3, <3>2, <3>3, <3>4, <3>5
    <3> QED BY <2>1, <2>2, <3>1, <3>6 DEF DaysSound, sub
  <2>3. CASE req[u].statement # "update"
    BY <1>4, <1>5, <2>1, <2>3
  <2> QED BY <2>2, <2>3
(* A commit, or the discovery that another one has done it.                *)
<1>13. ASSUME AfterCommit(u), pc[u] \in {"commit", "committing"}, db'.disk = db.view
       PROVE  DaysSound(u)'
  <2>1. req'[u] \in Request /\ (req[u].statement = "audit" => req'[u] = req[u])
    BY <1>0, <1>13, CommittedMoves, RowTypesNext
  <2>2. CASE req[u].statement = "update"
    <3>1. PICK tok \in Tokens : tok = req[u].target
      BY <1>0, <2>2 DEF RequestShape
    <3>2. sub(tok).expires >= granted[tok] + req[u].days
      BY <1>0, <1>13, <2>2, <3>1 DEF DaysSound
    <3>3. db'.disk.subs[tok].expires = sub(tok).expires
      BY <1>13 DEF sub
    <3>4. pc'[u] \notin {"commit", "committing"}
      BY <1>0, <1>13, <2>2, CommittedMoves
    <3>5. req'[u].target = tok /\ req'[u].days = req[u].days
      <4>1. req'[u] = req[u] \/ req'[u] = [req[u] EXCEPT !.statement = "audit"]
        BY <1>0, <1>13, CommittedMoves
      <4> QED BY <1>0, <3>1, <4>1 DEF Request
    <3> QED BY <1>6, <2>2, <3>1, <3>2, <3>3, <3>4, <3>5
  <2>3. CASE req[u].statement = "audit"
    BY <1>5, <2>1, <2>3
  <2>4. CASE req[u].statement \notin {"update", "audit"}
    <3>1. req'[u].statement = req[u].statement
      BY <1>0, <1>13, <2>4, CommittedMoves
    <3> QED BY <1>4, <2>4, <3>1
  <2> QED BY <2>2, <2>3, <2>4
<1>14. CASE LookBeforeCommit(u)
  <2>1. CASE db.open
    <3>1. pc'[u] = "committing" /\ pc[u] = "commit" /\ req'[u] = req[u] /\ db' = db
      BY <1>0, <1>14, <2>1 DEF LookBeforeCommit, Goto
    <3> QED BY <1>0, <1>3, <3>1 DEF DaysSound, sub
  <2>2. CASE ~db.open
    <3>1. AfterCommit(u) /\ pc[u] = "commit" /\ db'.disk = db.view
      BY <1>0, <1>14, <2>2 DEF LookBeforeCommit, ViewAhead, NothingPending
    <3> QED BY <1>13, <3>1
  <2> QED BY <2>1, <2>2
<1>15. CASE CommitTransaction(u)
  <2>1. CASE db.open
    <3>1. AfterCommit(u) /\ pc[u] = "committing" /\ db'.disk = db.view
      BY <1>15, <2>1 DEF CommitTransaction, Commit
    <3> QED BY <1>13, <3>1
  <2>2. CASE ~db.open
    BY <1>2, <1>15, <2>2 DEF CommitTransaction
  <2> QED BY <2>1, <2>2
<1>16. CASE CreatePayment(u)
  <2>1. pc[u] = "provider" /\ req'[u] = req[u]
    BY <1>16 DEF CreatePayment
  <2> QED BY <1>0, <1>4, <2>1 DEF RequestShape
<1>17. CASE RefusePayment(u) \/ ViolateConstraint(u) \/ AbandonRequest(u)
  BY <1>2, <1>17 DEF RefusePayment, ViolateConstraint, AbandonRequest
<1> QED BY <1>7, <1>8, <1>9, <1>10, <1>11, <1>12, <1>14, <1>15, <1>16, <1>17 DEF ThreadStep, HandlerStep

(* The ledger of answers grows by answers only.                            *)
LEMMA GrantedSteps ==
  ASSUME [Next]_vars
  PROVE  granted' = granted \/ \E t \in Threads : Respond(t)
<1>1. ASSUME NEW t \in Threads, ThreadStep(t), ~Respond(t) PROVE granted' = granted
  BY <1>1 DEF ThreadStep, HandlerStep, StartCheckout, StartAdminActivation, StartReceipt,
              StartDeletion, StartOther, StartWebhook,
              FetchPayment, SelectSubscription, ExecuteStatement, BeginTransaction, WriteStatement,
              LookBeforeCommit, CommitTransaction, CreatePayment,
              RefusePayment, ViolateConstraint, AbandonRequest, history
<1>2. CASE Crash \/ Tick \/ UNCHANGED vars \/ \E p \in Payments : CreateDevicePayment(p) \/ Settle(p)
  BY <1>2 DEF Crash, Tick, vars, CreateDevicePayment, Settle, history
<1> QED BY <1>1, <1>2 DEF Next

(* An answer adds to the ledger what its request has brought to the disk.  *)
LEMMA AnswerStep ==
  ASSUME IInv, DaysInv, NEW t \in Threads, Respond(t)
  PROVE  /\ db' = db
         /\ \A tok \in Tokens : tok # req[t].target => granted'[tok] = granted[tok]
         /\ GrantedDaysAreKept'
<1>0. /\ granted \in [Tokens -> Nat] /\ TypeOK /\ RequestShape(t, req[t]) /\ DaysSound(t)
      /\ pc[t] = "respond" /\ GrantedDaysAreKept
  BY DEF IInv, TypeOK, Shape, DaysInv, Respond
<1>1. db' = db
  BY DEF Respond
<1>2. CASE req[t].statement \in {"update", "audit"}
  <2>1. granted' = [granted EXCEPT ![req[t].target] = @ + req[t].days]
    BY <1>2 DEF Respond
  <2>2. PICK tok \in Tokens : tok = req[t].target
    BY <1>0, <1>2 DEF RequestShape
  <2>3. db.disk.subs[tok].expires >= granted[tok] + req[t].days
    BY <1>0, <1>2, <2>2 DEF DaysSound
  <2>4. /\ granted'[tok] = granted[tok] + req[t].days
        /\ \A k \in Tokens : k # tok => granted'[k] = granted[k]
    BY <1>0, <2>1, <2>2
  <2>5. ASSUME NEW k \in Tokens PROVE db'.disk.subs[k].expires >= granted'[k]
    BY <1>0, <1>1, <2>3, <2>4 DEF GrantedDaysAreKept
  <2> QED BY <1>1, <2>2, <2>4, <2>5 DEF GrantedDaysAreKept
<1>3. CASE req[t].statement \notin {"update", "audit"}
  <2>1. granted' = granted
    BY <1>3 DEF Respond
  <2> QED BY <1>0, <1>1, <2>1 DEF GrantedDaysAreKept
<1> QED BY <1>2, <1>3

LEMMA DaysStep ==
  ASSUME IInv, IInv', TimeInv, DaysInv, OneRequestPerLink, [Next]_vars
  PROVE  DaysInv'
<1>0. /\ TypeOK /\ TypeOK' /\ GrantedDaysAreKept /\ granted \in [Tokens -> Nat]
      /\ pc \in [Threads -> Locations] /\ req \in [Threads -> Request]
  BY DEF IInv, TypeOK, DaysInv
<1>1. \A tok \in Tokens : /\ db'.disk.subs[tok].expires >= db.disk.subs[tok].expires
                          /\ db'.disk.subs[tok].expires \in Nat /\ db.disk.subs[tok].expires \in Nat
                          /\ sub(tok)'.expires \in Nat /\ sub(tok).expires \in Nat
                          /\ granted[tok] \in Nat
                          /\ Crash \/ sub(tok)'.expires >= sub(tok).expires
  BY <1>0, RowsKeepTime, RowTypes, RowTypesNext
<1>2. GrantedDaysAreKept'
  <2>1. CASE granted' = granted
    BY <1>0, <1>1, <2>1 DEF GrantedDaysAreKept
  <2>2. ASSUME NEW t \in Threads, Respond(t) PROVE GrantedDaysAreKept'
    BY <2>2, AnswerStep
  <2> QED BY <2>1, <2>2, GrantedSteps
<1>3. ASSUME NEW u \in Threads PROVE DaysSound(u)'
  <2>1. CASE Crash
    <3>1. req'[u].statement = "none"
      BY <2>1 DEF Crash, NoRequest
    <3> QED BY <3>1 DEF DaysSound
  <2>2. CASE ThreadStep(u) /\ ~Respond(u)
    BY <2>2, DaysOwnStep
  <2>3. CASE Respond(u)
    <3>1. req'[u].statement = "none"
      BY <1>0, <2>3 DEF Respond, Leave, NoRequest
    <3> QED BY <3>1 DEF DaysSound
  (* Another thread's step: no other request can have added to the ledger   *)
  (* of this one's link.                                                    *)
  <2>4. CASE ~Crash /\ ~Respond(u) /\ pc'[u] = pc[u] /\ req'[u] = req[u]
    <3>1. CASE req[u].statement \notin {"update", "audit"}
      BY <2>4, <3>1 DEF DaysSound
    <3>2. CASE req[u].statement \in {"update", "audit"}
      <4>1. PICK tok \in Tokens : tok = req[u].target
        BY <3>2 DEF IInv, Shape, RequestShape
      <4>2. granted'[tok] = granted[tok]
        <5>1. ASSUME NEW t \in Threads, Respond(t) PROVE tok # req[t].target
          BY <2>4, <4>1, <5>1 DEF OneRequestPerLink
        <5> QED BY <5>1, AnswerStep, GrantedSteps
      <4>3. DaysSound(u)
        BY DEF DaysInv
      <4>4. /\ sub(tok)'.expires >= sub(tok).expires /\ sub(tok)'.expires \in Nat
            /\ db'.disk.subs[tok].expires >= db.disk.subs[tok].expires
            /\ db'.disk.subs[tok].expires \in Nat /\ req[u].days \in Nat
        BY <1>0, <1>1, <2>4, RowTypes
      <4>5. CASE req[u].statement = "update" /\ pc[u] \in {"commit", "committing"}
        <5>1. sub(tok).expires >= granted[tok] + req[u].days
          BY <4>1, <4>3, <4>5 DEF DaysSound
        <5>2. sub(tok)'.expires >= granted'[tok] + req'[u].days
          BY <1>1, <2>4, <4>2, <4>4, <5>1
        <5> QED BY <2>4, <4>1, <4>5, <5>2 DEF DaysSound, sub
      <4>6. CASE (req[u].statement = "update" /\ pc[u] = "respond") \/ req[u].statement = "audit"
        <5>1. db.disk.subs[tok].expires >= granted[tok] + req[u].days
          BY <4>1, <4>3, <4>6 DEF DaysSound
        <5>2. db'.disk.subs[tok].expires >= granted'[tok] + req'[u].days
          BY <1>1, <2>4, <4>2, <4>4, <5>1
        <5> QED BY <2>4, <4>1, <4>6, <5>2 DEF DaysSound
      <4>7. CASE req[u].statement = "update" /\ pc[u] \notin {"commit", "committing", "respond"}
        BY <2>4, <4>7 DEF DaysSound
      <4> QED BY <3>2, <4>5, <4>6, <4>7
    <3> QED BY <3>1, <3>2
  <2> QED BY <1>0, <2>1, <2>2, <2>3, <2>4, OwnSteps
<1> QED BY <1>2, <1>3 DEF DaysInv

(* An update is about a link, so that requests one per link do not race.    *)
LEMMA OnePerLinkDoesNotRace == IInv /\ OneRequestPerLink => NoRacingUpdates
<1>1. ASSUME IInv, NEW t \in Threads, Updates(t) PROVE req[t].target \in Tokens
  BY <1>1 DEF IInv, Shape, RequestShape, Updates
<1> QED BY <1>1 DEF OneRequestPerLink, NoRacingUpdates

(* As long as no two requests are between the SELECT and the UPDATE of the  *)
(* same link at the same time, no step takes back time a link had: shared   *)
(* transactions, foreign commits, errors and restarts do not.               *)
THEOREM TimeIsNeverLost == Spec /\ []NoRacingUpdates => ExpiryNeverMovesBack
<1>1. Init => TimeInv
  BY TimeInit
<1>2. IInv /\ IInv' /\ TimeInv /\ NoRacingUpdates /\ [Next]_vars => TimeInv'
  BY TimeStep
<1>3. IInv /\ TimeInv /\ [Next]_vars =>
        [\A tok \in Tokens : db'.disk.subs[tok].expires >= db.disk.subs[tok].expires]_db
  BY RowsKeepTime
<1> QED BY <1>1, <1>2, <1>3, Invariance, PTL DEF Spec, ExpiryNeverMovesBack

(* As long as the requests for a link come one after the other, however     *)
(* many run for other links, every activation that was answered has added   *)
(* its days: neither a repeated webhook, an administrator's activation, a   *)
(* lost answer nor a restart makes a later one swallow an earlier one.      *)
THEOREM DaysAreKept == Spec /\ []OneRequestPerLink => []GrantedDaysAreKept
<1>1. Init => TimeInv /\ DaysInv
  BY TimeInit
<1>2. IInv /\ IInv' /\ TimeInv /\ DaysInv /\ OneRequestPerLink /\ [Next]_vars => TimeInv' /\ DaysInv'
  BY TimeStep, DaysStep, OnePerLinkDoesNotRace
<1>3. DaysInv => GrantedDaysAreKept
  BY DEF DaysInv
<1> QED BY <1>1, <1>2, <1>3, Invariance, PTL DEF Spec
=============================================================================
