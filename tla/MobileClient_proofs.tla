-------------------------- MODULE MobileClient_proofs --------------------------
(* What holds of the Expo client for any handlers, tokens and commands.    *)
EXTENDS MobileClient, TLAPS

-----------------------------------------------------------------------------
(* The inductive invariant.                                                *)

Tokens == 1..Len(account)
Maybe == Tokens \cup {None}

Handlers == {"connect", "disconnect", "activate", "read", "delete"}
Places == {"idle", "read token", "request", "answer", "save token", "save config",
           "clear token", "clear config", "read config", "prepare", "start", "stop"}
Answers == {"none", "ok", "unavailable", "refused", "unauthorized"}
TaskRecord == [op : Handlers \cup {"none"}, at : Places, token : Nat \cup {None},
               answer : Answers, screen : BOOLEAN]

(* The server does not know its token any more. *)
Denied(r) == r.op # "activate" /\ (r.answer = "unauthorized" \/ (r.op = "delete" /\ r.answer = "ok"))

(* A handler under way, place by place. *)
Located(r) ==
  /\ r.at \in {"idle", "read token", "prepare", "start", "stop"} => r.token = None /\ r.answer = "none"
  /\ r.at = "read token" => r.op \in {"connect", "read", "delete"}
  /\ r.at = "request" => r.answer = "none" /\ (r.op = "activate" <=> r.token = None)
  /\ r.answer = "ok" \/ (r.answer # "none" /\ r.op # "activate") => r.token # None
  /\ r.op = "activate" => r.answer # "unauthorized"
  /\ r.at = "save token" => r.op = "activate" /\ r.answer = "ok"
  /\ r.at = "save config" => r.op = "connect" /\ r.answer = "ok"
  /\ r.at \in {"clear token", "clear config"} => Denied(r)
  /\ r.at = "clear config" => r.op = "delete"

Typed ==
  /\ token \in Maybe /\ config \in Maybe /\ saved \in Maybe
  /\ account \in Seq(Nat) /\ (\A i \in Tokens : account[i] \in Tokens)
  /\ valid \subseteq Tokens /\ existing \in Maybe
  /\ reported \subseteq Tokens
  /\ task \in [Tasks -> TaskRecord]
  /\ \A t \in Tasks : task[t].token \in Maybe /\ Located(task[t])

(* The server accepts tokens of the device's account only. *)
Accepted == \A tok \in valid : account[tok] = existing

(* What a handler has been told stays true. *)
Told(t) == /\ Denied(task[t]) => task[t].token \notin valid
           /\ task[t].op = "delete" /\ task[t].answer = "ok" =>
                account[task[t].token] # existing

(* While the saved token is accepted and was not overtaken, it is the one  *)
(* that is stored and the one that every handler has read.                 *)
Latest == saved \in valid /\ ~overtaken =>
            /\ token = saved
            /\ \A t \in Tasks : task[t].op # "activate" /\ task[t].token # None =>
                 task[t].token = saved

(* The handler will store something. *)
Stores(r) == /\ r.at \in {"answer", "save token", "save config"}
             /\ r.op \in {"activate", "connect"} /\ r.answer = "ok"

(* Nothing of the account is about to be stored. *)
Unsought(a) == \A t \in Tasks : Stores(task[t]) => account[task[t].token] # a
Untaken(a) == token # None => account[token] # a

(* A deletion that has cleared the token will leave nothing behind. *)
Half == \A t \in Tasks :
          task[t].at = "clear config" /\ task[t].answer = "ok" =>
            LET a == account[task[t].token]
            IN  a \in raced \/ (Untaken(a) /\ Unsought(a))

Cleared == \A a \in reported \ raced :
             a # existing /\ Untaken(a) /\ Unsought(a) /\ (config # None => account[config] # a)

DataInv == Typed /\ Accepted /\ (\A t \in Tasks : Told(t)) /\ Latest /\ Half /\ Cleared

(* The tunnel: it takes consent, and the last command decides.  The screen *)
(* claims that it is closed, or will when the first status arrives.        *)
Consented == ~consent => /\ ~tun /\ \A i \in 1..Len(commands) : commands[i] # "connect"
                         /\ \A t \in Tasks : task[t].at # "start"
Closing == IF commands = <<>> THEN ~tun ELSE commands[Len(commands)] = "disconnect"
Claimed == \/ status = "disconnected" /\ opening = "no" /\ ~overridden
           \/ opening = "disconnected" /\ ~late
TunnelInv == /\ commands \in Seq({"connect", "disconnect"})
             /\ current \in {"disconnected", "connecting", "connected", "error"}
             /\ current = "disconnected" => ~tun
             /\ Consented
             /\ Claimed => Closing

IInv == DataInv /\ TunnelInv

-----------------------------------------------------------------------------
(* One handler moves, the others stay.                                     *)

LEMMA OneMoves ==
  ASSUME task \in [Tasks -> TaskRecord], NEW t \in Tasks, NEW r, task' = [task EXCEPT ![t] = r]
  PROVE  /\ task'[t] = r /\ \A u \in Tasks \ {t} : task'[u] = task[u]
         /\ r \in TaskRecord => task' \in [Tasks -> TaskRecord]
  BY Zenon

LEMMA Numbers ==
  ASSUME DataInv
  PROVE  Tokens \subseteq Nat /\ None \notin Tokens
<1>1. Len(account) \in Nat
  BY SMT DEF DataInv, Typed
<1> QED BY SMT, <1>1, NoneAssumption DEF Tokens

LEMMA IdleType == Idle \in TaskRecord /\ Located(Idle) /\ Idle.token = None /\ Idle.at = "idle"
                  /\ Idle.answer = "none" /\ ~Denied(Idle) /\ ~Stores(Idle) /\ Idle.op = "none"
  BY SMT DEF Idle, TaskRecord, Places, Answers, Located, Denied, Stores

(* A handler goes to another place. *)
LEMMA MovedFields ==
  ASSUME NEW r \in TaskRecord, NEW place \in Places
  PROVE  LET new == [r EXCEPT !.at = place]
         IN  /\ new \in TaskRecord
             /\ new.op = r.op /\ new.at = place
             /\ new.token = r.token /\ new.answer = r.answer
  BY Zenon DEF TaskRecord

(* What is known of a handler under way. *)
LEMMA TaskFacts ==
  ASSUME DataInv, NEW t \in Tasks
  PROVE  /\ task[t] \in TaskRecord /\ Located(task[t]) /\ task[t].token \in Maybe
         /\ Told(t)
         /\ Stores(task[t]) => task[t].token \in Tokens /\ account[task[t].token] \in Tokens
         /\ Denied(task[t]) => task[t].token \in Tokens /\ account[task[t].token] \in Tokens
<1>1. task[t] \in TaskRecord /\ Located(task[t]) /\ task[t].token \in Maybe /\ Told(t)
  BY Zenon DEF DataInv, Typed
<1>2. Stores(task[t]) \/ Denied(task[t]) => task[t].token # None
  BY Zenon, <1>1 DEF Located, Stores, Denied, TaskRecord, Answers
<1> QED BY Zenon, <1>1, <1>2 DEF DataInv, Typed, Maybe

(* A handler that does not touch the store, and is told nothing new about  *)
(* tokens but what the server vouches for.                                 *)
LEMMA HandlerMoves ==
  ASSUME DataInv, NEW t \in Tasks, NEW r \in TaskRecord, task' = [task EXCEPT ![t] = r],
         UNCHANGED <<store, server, history>>,
         Located(r), r.token \in Maybe, r.at # "clear config",
         Denied(r) => r.token \notin valid,
         r.op = "delete" /\ r.answer = "ok" => account[r.token] # existing,
         saved \in valid /\ ~overtaken /\ r.op # "activate" /\ r.token # None => r.token = saved,
         Stores(r) => \/ account[r.token] = existing
                      \/ Stores(task[t]) /\ task[t].token = r.token
  PROVE  DataInv'
<1> USE DEF DataInv
<1>1. /\ task'[t] = r /\ \A u \in Tasks \ {t} : task'[u] = task[u]
      /\ task' \in [Tasks -> TaskRecord]
  BY Zenon, OneMoves DEF Typed
<1>2. /\ token' = token /\ config' = config /\ saved' = saved /\ overtaken' = overtaken
      /\ account' = account /\ valid' = valid /\ existing' = existing
      /\ reported' = reported /\ raced' = raced
  BY DEF store, server, history
<1>3. Tokens' = Tokens /\ Maybe' = Maybe
  BY Zenon, <1>2 DEF Tokens, Maybe
<1>4. Typed'
  <2>1. \A u \in Tasks : task'[u].token \in Maybe /\ Located(task'[u])
    BY Zenon, <1>1 DEF Typed
  <2> QED BY Zenon, <1>1, <1>2, <1>3, <2>1 DEF Typed
<1>5. Accepted'
  BY Zenon, <1>2 DEF Accepted
<1>6. ASSUME NEW u \in Tasks PROVE Told(u)'
  <2>1. CASE u = t
    BY Zenon, <1>1, <1>2, <2>1 DEF Told
  <2>2. CASE u # t
    BY Zenon, <1>1, <1>2, <2>2 DEF Told
  <2> QED BY <2>1, <2>2
<1>7. Latest'
  BY Zenon, <1>1, <1>2 DEF Latest
<1>8. ASSUME NEW x, x # existing, Unsought(x) PROVE Unsought(x)'
  <2>1. ASSUME NEW u \in Tasks, Stores(task'[u]) PROVE account[task'[u].token] # x
    BY Zenon, <1>1, <1>8, <2>1 DEF Unsought
  <2> QED BY Zenon, <1>2, <2>1 DEF Unsought
<1>9. \A x : Untaken(x)' <=> Untaken(x)
  BY Zenon, <1>2 DEF Untaken
<1>10. Half'
  <2> SUFFICES ASSUME NEW u \in Tasks, task'[u].at = "clear config", task'[u].answer = "ok",
                      account[task'[u].token] \notin raced
               PROVE  /\ Untaken(account[task'[u].token])
                      /\ \A v \in Tasks : Stores(task'[v]) =>
                           account[task'[v].token] # account[task'[u].token]
    BY Zenon, <1>2 DEF Half, Untaken, Unsought
  <2>1. u # t /\ task'[u] = task[u]
    BY Zenon, <1>1
  <2>2. PICK x : x = account[task[u].token]
    OBVIOUS
  <2>3. Untaken(x) /\ Unsought(x)
    BY Zenon, <2>1, <2>2 DEF Half
  <2>4. x # existing
    <3>1. task[u].op = "delete"
      BY Zenon, <2>1 DEF Typed, Located
    <3> QED BY Zenon, <2>1, <2>2, <3>1 DEF Told
  <2>5. Unsought(x)'
    BY <1>8, <2>3, <2>4
  <2> QED BY Zenon, <1>2, <2>1, <2>2, <2>3, <2>5 DEF Unsought
<1>11. Cleared'
  BY Zenon, <1>2, <1>8, <1>9 DEF Cleared
<1> QED BY <1>4, <1>5, <1>6, <1>7, <1>10, <1>11

(* A handler ends. *)
LEMMA HandlerEnds ==
  ASSUME DataInv, NEW t \in Tasks, End(t), UNCHANGED <<store, server, history>>
  PROVE  DataInv'
<1>1. task' = [task EXCEPT ![t] = Idle]
  BY DEF End
<1>2. /\ Idle.token \in Maybe /\ Idle.at # "clear config" /\ Idle.op # "delete"
      /\ ~(Idle.token # None)
  BY IdleType, SMT DEF Maybe
<1> QED BY Zenon, <1>1, <1>2, IdleType, HandlerMoves

(* The steps that leave the store and the server alone.                    *)

LEMMA PressData ==
  ASSUME DataInv, NEW t \in Tasks, Press(t)
  PROVE  DataInv'
<1>1. PICK op \in Handlers, place \in Places :
        /\ Begin(t, op, place)
        /\ \/ op = "connect" /\ place = "read token"
           \/ op = "disconnect" /\ place = "stop"
           \/ op = "activate" /\ place = "request"
           \/ op = "read" /\ place = "read token"
           \/ op = "delete" /\ place = "read token"
  BY Zenon DEF Press, Handlers, Places
<1> DEFINE r == [Idle EXCEPT !.op = op, !.at = place,
                             !.screen = op \in {"connect", "disconnect", "delete"}]
<1>2. task' = [task EXCEPT ![t] = r]
  BY Zenon, <1>1 DEF Begin
<1>3. /\ r \in TaskRecord /\ Located(r) /\ r.token = None /\ r.at # "clear config"
      /\ ~Denied(r) /\ ~Stores(r) /\ r.answer # "ok"
  <2>1. (op \in {"connect", "disconnect", "delete"}) \in BOOLEAN
    OBVIOUS
  <2>2. r \in TaskRecord /\ r.op = op /\ r.at = place /\ r.token = None /\ r.answer = "none"
    BY Zenon, <2>1, IdleType DEF TaskRecord
  <2> HIDE DEF r
  <2>3. Located(r)
    BY Zenon, <1>1, <2>2 DEF Located, Idle
  <2> QED BY Zenon, <1>1, <2>2, <2>3 DEF Denied, Stores
<1>4. r.token \in Maybe
  BY <1>3 DEF Maybe
<1> HIDE DEF r
<1>5. UNCHANGED <<store, server, history>>
  BY DEF Press
<1> QED BY Zenon, <1>2, <1>3, <1>4, <1>5, HandlerMoves

LEMMA ReadTokenData ==
  ASSUME DataInv, NEW t \in Tasks, ReadToken(t)
  PROVE  DataInv'
<1>1. UNCHANGED <<store, server, history>>
  BY DEF ReadToken
<1>2. CASE token = None
  BY <1>1, <1>2, HandlerEnds DEF ReadToken, GiveUp
<1>3. CASE token # None
  <2> DEFINE r == [task[t] EXCEPT !.at = "request", !.token = token]
  <2>1. /\ task[t] \in TaskRecord /\ task[t].answer = "none"
        /\ task[t].op \in {"connect", "read", "delete"}
    BY Zenon, TaskFacts DEF ReadToken, Located
  <2>2. task' = [task EXCEPT ![t] = r]
    BY Zenon, <1>3 DEF ReadToken
  <2>3. token \in Nat \cup {None} /\ token \in Maybe
    BY Zenon, Numbers DEF DataInv, Typed, Maybe
  <2>4. /\ r \in TaskRecord /\ Located(r) /\ r.token = token /\ r.at = "request"
        /\ ~Denied(r) /\ ~Stores(r) /\ r.answer = "none"
    <3>1. "request" \in Places /\ task[t].op \in Handlers
      BY SMT, <2>1 DEF Places, Handlers
    <3>2. /\ r \in TaskRecord /\ r.op = task[t].op /\ r.at = "request" /\ r.token = token
          /\ r.answer = "none"
      BY Zenon, <2>1, <2>3, <3>1 DEF TaskRecord
    <3> HIDE DEF r
    <3> QED BY SMT, <1>3, <2>1, <3>2 DEF Located, Denied, Stores
  <2>5. saved \in valid /\ ~overtaken => token = saved
    BY DEF DataInv, Latest
  <2>6. r.at # "clear config" /\ r.answer # "ok"
    BY <2>4
  <2> HIDE DEF r
  <2> QED BY Zenon, <1>1, <2>2, <2>3, <2>4, <2>5, <2>6, HandlerMoves
<1> QED BY <1>2, <1>3

LEMMA RespondData ==
  ASSUME DataInv, NEW t \in Tasks, Respond(t)
  PROVE  DataInv'
<1>1. UNCHANGED <<store, server, history>>
  BY DEF Respond
<1>2. PICK answer :
        /\ task' = [task EXCEPT ![t] =
                      [task[t] EXCEPT !.at = "answer", !.answer = answer, !.token = task[t].token]]
        /\ \/ answer = "unavailable"
           \/ answer = "refused"
           \/ answer = "unauthorized" /\ task[t].op # "activate" /\ task[t].token \notin valid
           \/ answer = "ok" /\ task[t].op # "activate" /\ task[t].token \in valid
                            /\ task[t].op # "delete"
  BY Zenon DEF Respond, Answer
<1> DEFINE r == [task[t] EXCEPT !.at = "answer", !.answer = answer, !.token = task[t].token]
<1>3. /\ task[t] \in TaskRecord /\ task[t].at = "request" /\ Located(task[t])
      /\ task[t].token \in Maybe
  BY Zenon, TaskFacts DEF Respond
<1>4. task' = [task EXCEPT ![t] = r]
  BY Zenon, <1>2
<1>5. /\ r \in TaskRecord /\ r.op = task[t].op /\ r.at = "answer" /\ r.token = task[t].token
      /\ r.answer = answer
  <2>1. "answer" \in Places /\ answer \in Answers
    BY SMT, <1>2 DEF Places, Answers
  <2>2. task[t].token \in Nat \cup {None}
    BY Zenon, <1>3, Numbers DEF Maybe
  <2> QED BY Zenon, <1>3, <2>1, <2>2 DEF TaskRecord
<1> HIDE DEF r
<1>5a. Located(r)
  BY SMT, <1>2, <1>3, <1>5 DEF Located
<1>6. /\ r.at # "clear config" /\ r.token \in Maybe
      /\ Denied(r) => r.token \notin valid
      /\ ~(r.op = "delete" /\ r.answer = "ok")
      /\ Stores(r) => r.token \in valid
  BY SMT, <1>2, <1>3, <1>5 DEF Denied, Stores
<1>8. saved \in valid /\ ~overtaken /\ r.op # "activate" /\ r.token # None => r.token = saved
  BY Zenon, <1>5 DEF DataInv, Latest
<1>9. r.token \in valid => account[r.token] = existing
  BY DEF DataInv, Accepted
<1> QED BY Zenon, <1>1, <1>4, <1>5, <1>5a, <1>6, <1>8, <1>9, HandlerMoves

(* A handler goes on with what it knows. *)
LEMMA HandlerGoesOn ==
  ASSUME DataInv, NEW t \in Tasks, NEW place \in Places,
         Goto(t, place), UNCHANGED <<store, server, history>>,
         place # "clear config", Located([task[t] EXCEPT !.at = place]),
         place \in {"answer", "save token", "save config"} => task[t].at = "answer"
  PROVE  DataInv'
<1> DEFINE r == [task[t] EXCEPT !.at = place]
<1>1. task[t] \in TaskRecord /\ task[t].token \in Maybe /\ Told(t)
  BY TaskFacts
<1>2. task' = [task EXCEPT ![t] = r]
  BY Zenon DEF Goto
<1>3. /\ r \in TaskRecord /\ r.op = task[t].op /\ r.token = task[t].token
      /\ r.answer = task[t].answer /\ r.at = place
  BY Zenon, <1>1, MovedFields
<1>4. Located(r)
  OBVIOUS
<1> HIDE DEF r
<1>5. (Denied(r) <=> Denied(task[t])) /\ (Stores(r) => Stores(task[t]))
  BY Zenon, <1>3 DEF Denied, Stores
<1>6. saved \in valid /\ ~overtaken /\ r.op # "activate" /\ r.token # None => r.token = saved
  BY Zenon, <1>3 DEF DataInv, Latest
<1>7. r.at # "clear config" /\ r.token \in Maybe
  BY <1>1, <1>3
<1>8. /\ Denied(r) => r.token \notin valid
      /\ r.op = "delete" /\ r.answer = "ok" => account[r.token] # existing
      /\ Stores(r) => Stores(task[t]) /\ task[t].token = r.token
  BY Zenon, <1>1, <1>3, <1>5 DEF Told
<1> QED BY Zenon, <1>2, <1>3, <1>4, <1>6, <1>7, <1>8, HandlerMoves

(* Where an answer leads to. *)
LEMMA NextPlace ==
  ASSUME NEW op, NEW answer
  PROVE  LET next == NextAfter(op, answer)
         IN  \/ next = "save config" /\ op = "connect" /\ answer = "ok"
             \/ next = "read config"
             \/ next = "save token" /\ op = "activate" /\ answer = "ok"
             \/ next = "clear token" /\ op = "delete" /\ answer = "ok"
             \/ next = "clear token" /\ answer = "unauthorized"
             \/ next = "give up"
  BY SMT DEF NextAfter

LEMMA ReceiveData ==
  ASSUME DataInv, NEW t \in Tasks, Receive(t)
  PROVE  DataInv'
<1> DEFINE next == NextAfter(task[t].op, task[t].answer)
<1>1. UNCHANGED <<store, server, history>>
  BY DEF Receive
<1>2. CASE next = "give up"
  BY <1>1, <1>2, HandlerEnds DEF Receive, GiveUp
<1>3. CASE next # "give up"
  <2>1. Goto(t, next) /\ task[t].at = "answer"
    BY Zenon, <1>3 DEF Receive
  <2>2. task[t] \in TaskRecord /\ Located(task[t])
    BY TaskFacts
  <2>3. task[t].op = "activate" => task[t].answer # "unauthorized"
    BY <2>2 DEF Located
  <2>4. \/ next = "save config" /\ task[t].op = "connect" /\ task[t].answer = "ok"
        \/ next = "read config"
        \/ next = "save token" /\ task[t].op = "activate" /\ task[t].answer = "ok"
        \/ next = "clear token" /\ Denied(task[t])
    BY Zenon, <1>3, <2>3, NextPlace DEF Denied
  <2> HIDE DEF next
  <2>5. PICK place \in Places : place = next
    <3>1. next \in Places
      BY Zenon, <2>4 DEF Places
    <3> QED BY <3>1
  <2>6. place # "clear config"
    BY Zenon, <2>4, <2>5
  <2> DEFINE r == [task[t] EXCEPT !.at = place]
  <2>7. /\ r.op = task[t].op /\ r.token = task[t].token
        /\ r.answer = task[t].answer /\ r.at = place
    BY Zenon, <2>2, MovedFields
  <2> HIDE DEF r
  <2>8. Denied(task[t]) => Denied(r)
    BY Zenon, <2>7 DEF Denied
  <2>9. Located(r)
    BY Zenon, <2>2, <2>4, <2>5, <2>7, <2>8 DEF Located
  <2> QED BY Zenon, <1>1, <2>1, <2>5, <2>6, <2>9, HandlerGoesOn DEF r
<1> QED BY <1>2, <1>3

LEMMA PrepareData ==
  ASSUME DataInv, NEW t \in Tasks, Prepare(t)
  PROVE  DataInv'
<1>1. UNCHANGED <<store, server, history>>
  BY DEF Prepare
<1>2. CASE End(t)
  BY <1>1, <1>2, HandlerEnds
<1>3. CASE Goto(t, "start")
  <2>1. task[t] \in TaskRecord /\ task[t].token = None /\ task[t].answer = "none"
        /\ Located(task[t])
    BY Zenon, TaskFacts DEF Prepare, Located
  <2>2. "start" \in Places
    BY DEF Places
  <2> DEFINE r == [task[t] EXCEPT !.at = "start"]
  <2>3. /\ r.op = task[t].op /\ r.token = None /\ r.answer = "none" /\ r.at = "start"
    BY Zenon, <2>1, <2>2, MovedFields
  <2> HIDE DEF r
  <2>4. Located(r)
    BY Zenon, <2>1, <2>3 DEF Located
  <2> QED BY Zenon, <1>1, <1>3, <2>2, <2>4, HandlerGoesOn DEF r
<1> QED BY <1>2, <1>3 DEF Prepare, GiveUp

LEMMA CommandData ==
  ASSUME DataInv, NEW t \in Tasks, Start(t) \/ Stop(t)
  PROVE  DataInv'
  BY HandlerEnds DEF Start, Stop, Send, Fail

(* A config in hand. *)
LEMMA ConfigInHand ==
  ASSUME NEW old \in TaskRecord
  PROVE  LET r == [old EXCEPT !.at = "prepare", !.token = None, !.answer = "none"]
         IN  /\ r \in TaskRecord /\ Located(r) /\ r.token = None /\ r.answer = "none"
             /\ r.at = "prepare" /\ ~Denied(r) /\ ~Stores(r)
<1> DEFINE r == [old EXCEPT !.at = "prepare", !.token = None, !.answer = "none"]
<1>1. "prepare" \in Places /\ "none" \in Answers
  BY DEF Places, Answers
<1>2. /\ r \in TaskRecord /\ r.token = None /\ r.answer = "none" /\ r.at = "prepare"
  BY Zenon, <1>1 DEF TaskRecord
<1> HIDE DEF r
<1>3. Located(r) /\ ~Denied(r) /\ ~Stores(r)
  BY Zenon, <1>2 DEF Located, Denied, Stores
<1> QED BY Zenon, <1>2, <1>3 DEF r

LEMMA ReadConfigData ==
  ASSUME DataInv, NEW t \in Tasks, ReadConfig(t)
  PROVE  DataInv'
<1>1. UNCHANGED <<store, server, history>>
  BY DEF ReadConfig
<1>2. CASE config = None
  BY <1>1, <1>2, HandlerEnds DEF ReadConfig, GiveUp
<1>3. CASE config # None
  <2> DEFINE r == [task[t] EXCEPT !.at = "prepare", !.token = None, !.answer = "none"]
  <2>1. task' = [task EXCEPT ![t] = r]
    BY Zenon, <1>3 DEF ReadConfig, HaveConfig
  <2>2. /\ r \in TaskRecord /\ Located(r) /\ r.token = None /\ r.answer # "ok"
        /\ r.at # "clear config" /\ ~Denied(r) /\ ~Stores(r)
    BY Zenon, TaskFacts, ConfigInHand
  <2>3. r.token \in Maybe
    BY Zenon, <2>2 DEF Maybe
  <2> HIDE DEF r
  <2> QED BY Zenon, <1>1, <2>1, <2>2, <2>3, HandlerMoves
<1> QED BY <1>2, <1>3

(* What is stored is what the handler was told to.                         *)
LEMMA SaveConfigData ==
  ASSUME DataInv, NEW t \in Tasks, SaveConfig(t)
  PROVE  DataInv'
<1> USE DEF DataInv
<1> DEFINE r == [task[t] EXCEPT !.at = "prepare", !.token = None, !.answer = "none"]
<1>1. task' = [task EXCEPT ![t] = r]
  BY Zenon DEF SaveConfig, HaveConfig
<1>2. /\ r \in TaskRecord /\ Located(r) /\ r.token = None /\ r.answer # "ok"
      /\ r.at = "prepare" /\ ~Denied(r) /\ ~Stores(r)
  BY Zenon, TaskFacts, ConfigInHand
<1> HIDE DEF r
<1>3. /\ task'[t] = r /\ \A u \in Tasks \ {t} : task'[u] = task[u]
      /\ task' \in [Tasks -> TaskRecord]
  BY Zenon, <1>1, <1>2, OneMoves DEF Typed
<1>4. /\ token' = token /\ config' = task[t].token /\ saved' = saved /\ overtaken' = overtaken
      /\ account' = account /\ valid' = valid /\ existing' = existing
      /\ reported' = reported /\ raced' = raced
  BY DEF SaveConfig, server, history
<1>5. Stores(task[t]) /\ task[t].token \in Maybe
  BY Zenon, TaskFacts DEF SaveConfig, Located, Stores
<1>6. Tokens' = Tokens /\ Maybe' = Maybe
  BY Zenon, <1>4 DEF Tokens, Maybe
<1>7. Typed'
  <2>1. \A u \in Tasks : task'[u].token \in Maybe /\ Located(task'[u])
    BY Zenon, <1>2, <1>3 DEF Typed, Maybe
  <2> QED BY Zenon, <1>3, <1>4, <1>5, <1>6, <2>1 DEF Typed
<1>8. Accepted'
  BY Zenon, <1>4 DEF Accepted
<1>9. \A u \in Tasks : Told(u)'
  BY Zenon, <1>2, <1>3, <1>4 DEF Told
<1>10. Latest'
  BY Zenon, <1>2, <1>3, <1>4 DEF Latest
<1>11. \A x : /\ Unsought(x) => Unsought(x)' /\ account[task[t].token] # x
              /\ Untaken(x)' <=> Untaken(x)
  BY Zenon, <1>2, <1>3, <1>4, <1>5 DEF Unsought, Untaken
<1>12. Half'
  <2> SUFFICES ASSUME NEW u \in Tasks, task'[u].at = "clear config", task'[u].answer = "ok",
                      account[task'[u].token] \notin raced
               PROVE  /\ Untaken(account[task'[u].token])
                      /\ \A v \in Tasks : Stores(task'[v]) =>
                           account[task'[v].token] # account[task'[u].token]
    BY Zenon, <1>4 DEF Half, Untaken, Unsought
  <2>1. u # t /\ task'[u] = task[u]
    BY Zenon, <1>2, <1>3
  <2> QED BY Zenon, <1>2, <1>3, <2>1 DEF Half, Unsought
<1>13. Cleared'
  BY Zenon, <1>4, <1>11 DEF Cleared
<1> QED BY <1>7, <1>8, <1>9, <1>10, <1>12, <1>13

LEMMA SaveTokenData ==
  ASSUME DataInv, NEW t \in Tasks, SaveToken(t)
  PROVE  DataInv'
<1> USE DEF DataInv
<1>1. task' = [task EXCEPT ![t] = Idle]
  BY Zenon DEF SaveToken, End
<1>2. /\ task'[t] = Idle /\ \A u \in Tasks \ {t} : task'[u] = task[u]
      /\ task' \in [Tasks -> TaskRecord]
  BY Zenon, <1>1, IdleType, OneMoves DEF Typed
<1>3. /\ token' = task[t].token /\ config' = config /\ saved' = token'
      /\ overtaken' = (Others(t) # {})
      /\ account' = account /\ valid' = valid /\ existing' = existing
      /\ reported' = reported /\ raced' = raced
  BY DEF SaveToken, server
<1>4. Stores(task[t]) /\ task[t].token \in Maybe
  BY Zenon, TaskFacts DEF SaveToken, Located, Stores
<1>5. Tokens' = Tokens /\ Maybe' = Maybe
  BY Zenon, <1>3 DEF Tokens, Maybe
<1>6. Typed'
  <2>1. \A u \in Tasks : task'[u].token \in Maybe /\ Located(task'[u])
    BY Zenon, <1>2, IdleType DEF Typed, Maybe
  <2> QED BY Zenon, <1>2, <1>3, <1>4, <1>5, <2>1 DEF Typed
<1>7. Accepted'
  BY Zenon, <1>3 DEF Accepted
<1>8. \A u \in Tasks : Told(u)'
  BY Zenon, <1>2, <1>3, IdleType DEF Told, Idle
<1>9. Latest'
  <2>1. Others(t) = {} => \A u \in Tasks \ {t} : task[u].token = None
    BY Zenon DEF Others
  <2> QED BY Zenon, <1>2, <1>3, <2>1, IdleType DEF Latest
<1>10. \A x : Unsought(x) => Unsought(x)' /\ account[task[t].token] # x /\ Untaken(x)'
  BY Zenon, <1>2, <1>3, <1>4, IdleType DEF Unsought, Untaken
<1>11. Half'
  <2> SUFFICES ASSUME NEW u \in Tasks, task'[u].at = "clear config", task'[u].answer = "ok",
                      account[task'[u].token] \notin raced
               PROVE  /\ task[t].token # None => account[task[t].token] # account[task'[u].token]
                      /\ \A v \in Tasks : Stores(task'[v]) =>
                           account[task'[v].token] # account[task'[u].token]
    BY Zenon, <1>3 DEF Half, Untaken, Unsought
  <2>1. u # t /\ task'[u] = task[u]
    BY Zenon, <1>2, IdleType
  <2> QED BY Zenon, <1>2, <1>4, <2>1, IdleType DEF Half, Unsought
<1>12. Cleared'
  BY Zenon, <1>3, <1>10 DEF Cleared
<1> QED BY <1>6, <1>7, <1>8, <1>9, <1>11, <1>12

(* Clearing the token notes whose data may yet be stored.                  *)
LEMMA ClearTokenData ==
  ASSUME DataInv, NEW t \in Tasks, ClearToken(t)
  PROVE  DataInv'
<1> USE DEF DataInv
<1> DEFINE moved == [task[t] EXCEPT !.at = "clear config"]
<1>1. /\ task[t] \in TaskRecord /\ Located(task[t]) /\ task[t].at = "clear token"
      /\ Denied(task[t]) /\ Told(t) /\ task[t].token \in Tokens
  BY Zenon, TaskFacts DEF ClearToken, Located
<1>2. /\ moved \in TaskRecord /\ moved.op = task[t].op /\ moved.at = "clear config"
      /\ moved.token = task[t].token /\ moved.answer = task[t].answer
  <2>1. "clear config" \in Places
    BY DEF Places
  <2> QED BY Zenon, <1>1, <2>1, MovedFields
<1>3. task' = [task EXCEPT ![t] = IF task[t].op = "delete" THEN moved ELSE Idle]
  BY Zenon DEF ClearToken, AfterToken, Goto, GiveUp, End
<1> HIDE DEF moved
<1>4. PICK r : r = IF task[t].op = "delete" THEN moved ELSE Idle
  OBVIOUS
<1>5. r = Idle \/ (r = moved /\ task[t].op = "delete")
  BY <1>4
<1>6. r \in TaskRecord /\ (r.token # None => r.token = task[t].token) /\ ~Stores(r)
  BY Zenon, <1>2, <1>5, IdleType DEF Stores
<1>7. Located(r)
  <2>1. CASE r = Idle
    BY Zenon, <2>1, IdleType
  <2>2. CASE r = moved /\ task[t].op = "delete"
    <3>1. Denied(r) /\ r.op = "delete" /\ r.at = "clear config" /\ r.token # None
      BY Zenon, <1>1, <1>2, <2>2, Numbers DEF Denied
    <3> QED BY Zenon, <3>1 DEF Located
  <2> QED BY <1>5, <2>1, <2>2
<1>8. /\ task'[t] = r /\ \A u \in Tasks \ {t} : task'[u] = task[u]
      /\ task' \in [Tasks -> TaskRecord]
  BY Zenon, <1>3, <1>4, <1>6, OneMoves DEF Typed
<1>9. /\ token' = None /\ config' = config /\ saved' = saved /\ overtaken' = overtaken
      /\ account' = account /\ valid' = valid /\ existing' = existing
      /\ reported' = reported /\ raced \subseteq raced'
      /\ task[t].op = "delete" => raced' = Raced(t)
  BY Zenon DEF ClearToken, Raced, server
<1>10. Tokens' = Tokens /\ Maybe' = Maybe
  BY Zenon, <1>9 DEF Tokens, Maybe
<1>11. Typed'
  <2>1. \A u \in Tasks : task'[u].token \in Maybe /\ Located(task'[u])
    BY Zenon, <1>1, <1>6, <1>7, <1>8 DEF Typed, Maybe
  <2>2. None \in Maybe
    BY DEF Maybe
  <2> QED BY Zenon, <1>8, <1>9, <1>10, <2>1, <2>2 DEF Typed
<1>12. Accepted'
  BY Zenon, <1>9 DEF Accepted
<1>13. Told(t)'
  <2>1. CASE r = Idle
    BY Zenon, <1>8, <2>1, IdleType DEF Told, Denied, Idle
  <2>2. CASE r = moved
    BY Zenon, <1>1, <1>2, <1>8, <1>9, <2>2 DEF Told, Denied
  <2> QED BY <1>5, <2>1, <2>2
<1>14. \A u \in Tasks : Told(u)'
  BY Zenon, <1>8, <1>9, <1>13 DEF Told
<1>15. Latest'
  <2>1. saved \in valid /\ ~overtaken => FALSE
    <3>1. task[t].op # "activate" /\ task[t].token \notin valid
      BY Zenon, <1>1 DEF Denied, Told
    <3>2. task[t].token # None
      BY <1>1, Numbers
    <3> QED BY Zenon, <3>1, <3>2 DEF Latest
  <2> QED BY Zenon, <1>9, <2>1 DEF Latest
<1>16. \A x : Untaken(x)' /\ (Unsought(x) => Unsought(x)')
  BY Zenon, <1>6, <1>8, <1>9 DEF Unsought, Untaken
<1>17. Half'
  <2> SUFFICES ASSUME NEW u \in Tasks, task'[u].at = "clear config", task'[u].answer = "ok",
                      account[task'[u].token] \notin raced'
               PROVE  \A v \in Tasks : Stores(task'[v]) =>
                        account[task'[v].token] # account[task'[u].token]
    BY Zenon, <1>9 DEF Half, Untaken, Unsought
  <2>1. CASE u = t
    <3>1. /\ task[t].op = "delete" /\ task'[t].token = task[t].token
          /\ account[task[t].token] \notin Raced(t)
      BY Zenon, <1>2, <1>5, <1>8, <1>9, <2>1, IdleType
    <3>2. ~\E v \in Others(t) : Storing(v) /\ account[task[v].token] = account[task[t].token]
      BY Zenon, <3>1 DEF Raced
    <3>3. ASSUME NEW v \in Tasks, Stores(task'[v])
          PROVE  account[task'[v].token] # account[task'[u].token]
      <4>1. v # t /\ task'[v] = task[v]
        BY Zenon, <1>6, <1>8, <3>3
      <4>2. v \in Others(t) /\ Storing(v)
        <5>1. Stores(task[v]) /\ task[v].token # None
          BY Zenon, <3>3, <4>1, TaskFacts, Numbers
        <5> QED BY Zenon, <4>1, <5>1 DEF Others, Storing, Stores
      <4> QED BY Zenon, <2>1, <3>1, <3>2, <4>1, <4>2
    <3> QED BY <3>3
  <2>2. CASE u # t
    BY Zenon, <1>6, <1>8, <1>9, <2>2 DEF Half, Unsought
  <2> QED BY <2>1, <2>2
<1>18. Cleared'
  BY Zenon, <1>9, <1>16 DEF Cleared
<1> QED BY <1>11, <1>12, <1>14, <1>15, <1>17, <1>18

(* Then nothing of a reported account is there or on its way. *)
LEMMA ClearConfigData ==
  ASSUME DataInv, NEW t \in Tasks, ClearConfig(t)
  PROVE  DataInv'
<1> USE DEF DataInv
<1> DEFINE k == task[t].token
<1>1. /\ task[t].at = "clear config" /\ task[t].op = "delete" /\ Told(t)
      /\ k \in Tokens /\ account[k] \in Tokens
  BY Zenon, TaskFacts DEF ClearConfig, ClearConfigAs, Located
<1>2. task' = [task EXCEPT ![t] = Idle]
  BY Zenon DEF ClearConfig, ClearConfigAs, End
<1>3. /\ task'[t] = Idle /\ \A u \in Tasks \ {t} : task'[u] = task[u]
      /\ task' \in [Tasks -> TaskRecord]
  BY Zenon, <1>2, IdleType, OneMoves DEF Typed
<1>4. /\ token' = token /\ config' = None /\ saved' = saved /\ overtaken' = overtaken
      /\ account' = account /\ valid' = valid /\ existing' = existing
      /\ raced \subseteq raced'
      /\ reported' = reported \/ (task[t].answer = "ok" /\ reported' = reported \cup {account[k]})
  BY Zenon DEF ClearConfig, ClearConfigAs, Raced, server
<1>5. Tokens' = Tokens /\ Maybe' = Maybe
  BY Zenon, <1>4 DEF Tokens, Maybe
<1>6. Typed'
  <2>1. \A u \in Tasks : task'[u].token \in Maybe /\ Located(task'[u])
    BY Zenon, <1>3, IdleType DEF Typed, Maybe
  <2>2. None \in Maybe
    BY DEF Maybe
  <2>3. reported' \subseteq Tokens
    BY Zenon, <1>1, <1>4 DEF Typed
  <2> QED BY Zenon, <1>3, <1>4, <1>5, <2>1, <2>2, <2>3 DEF Typed
<1>7. Accepted'
  BY Zenon, <1>4 DEF Accepted
<1>8. \A u \in Tasks : Told(u)'
  BY Zenon, <1>3, <1>4, IdleType DEF Told, Idle
<1>9. Latest'
  BY Zenon, <1>3, <1>4, IdleType DEF Latest
<1>10. \A x : (Untaken(x)' <=> Untaken(x)) /\ (Unsought(x) => Unsought(x)')
  BY Zenon, <1>3, <1>4, IdleType DEF Unsought, Untaken
<1>11. Half'
  <2> SUFFICES ASSUME NEW u \in Tasks, task'[u].at = "clear config", task'[u].answer = "ok",
                      account[task'[u].token] \notin raced'
               PROVE  /\ Untaken(account[task'[u].token])
                      /\ \A v \in Tasks : Stores(task'[v]) =>
                           account[task'[v].token] # account[task'[u].token]
    BY Zenon, <1>4 DEF Half, Untaken, Unsought
  <2>1. u # t /\ task'[u] = task[u]
    BY Zenon, <1>3, IdleType
  <2> QED BY Zenon, <1>3, <1>4, <2>1, IdleType DEF Half, Unsought
<1>12. Cleared'
  <2> SUFFICES ASSUME NEW x \in reported', x \notin raced'
               PROVE  x # existing /\ Untaken(x) /\ Unsought(x)
    BY Zenon, <1>4, <1>10 DEF Cleared
  <2>1. CASE x \in reported
    BY Zenon, <1>4, <2>1 DEF Cleared
  <2>2. CASE x = account[k] /\ task[t].answer = "ok"
    BY Zenon, <1>1, <1>4, <2>2 DEF Half, Told
  <2> QED BY Zenon, <1>4, <2>1, <2>2
<1> QED BY <1>6, <1>7, <1>8, <1>9, <1>11, <1>12

(* A new token is of the device's account, whose name no handler that was  *)
(* told of a deletion knows.                                               *)
LEMMA IssueData ==
  ASSUME DataInv, NEW t \in Tasks, Issue(t)
  PROVE  DataInv'
<1> USE DEF DataInv
<1> DEFINE new == Len(account) + 1
           a == IF existing = None THEN new ELSE existing
<1>1. PICK answer \in {"ok", "unavailable"} :
        task' = [task EXCEPT ![t] =
                   [task[t] EXCEPT !.at = "answer", !.answer = answer, !.token = new]]
  BY Zenon DEF Issue, Answer
<1> DEFINE r == [task[t] EXCEPT !.at = "answer", !.answer = answer, !.token = new]
<1>2. /\ account' = Append(account, a) /\ existing' = a /\ valid' = valid \cup {new}
      /\ token' = token /\ config' = config /\ saved' = saved /\ overtaken' = overtaken
      /\ reported' = reported /\ raced' = raced
  BY DEF Issue, store, history
<1>3. /\ Len(account) \in Nat /\ new \in Nat /\ new \notin Tokens /\ new # None
      /\ Tokens' = Tokens \cup {new} /\ None \notin Tokens
      /\ \A i \in Tokens : account'[i] = account[i]
      /\ account'[new] = a /\ account' \in Seq(Nat) /\ a \in Tokens' /\ a # None
  <2>1. Len(account) \in Nat /\ account \in Seq(Nat) /\ existing \in Maybe
    BY SMT DEF Typed
  <2>2. new \in Nat /\ new \notin Tokens /\ new # None /\ None \notin Tokens
    BY SMT, <2>1, NoneAssumption DEF Tokens
  <2>3. a \in Nat /\ a # None /\ (a = new \/ a \in Tokens)
    BY SMT, <2>1, <2>2, NoneAssumption DEF Maybe, Tokens
  <2> HIDE DEF a
  <2>4. /\ Len(account') = new /\ account'[new] = a /\ account' \in Seq(Nat)
        /\ \A i \in Tokens : account'[i] = account[i]
    BY SMT, <1>2, <2>1, <2>3 DEF Tokens
  <2>5. Tokens' = Tokens \cup {new}
    BY SMT, <2>1, <2>4 DEF Tokens
  <2> QED BY Zenon, <2>1, <2>2, <2>3, <2>4, <2>5
<1>4. /\ task[t] \in TaskRecord /\ task[t].at = "request" /\ task[t].op = "activate"
      /\ Located(task[t])
  BY Zenon, TaskFacts DEF Issue
<1>5. /\ r \in TaskRecord /\ r.op = "activate" /\ r.at = "answer" /\ r.token = new
      /\ r.answer = answer
  <2>1. "answer" \in Places /\ answer \in Answers
    BY SMT, <1>1 DEF Places, Answers
  <2>2. new \in Nat \cup {None}
    BY Zenon, <1>3
  <2> HIDE DEF new
  <2> QED BY Zenon, <1>4, <2>1, <2>2 DEF TaskRecord
<1>6. task' = [task EXCEPT ![t] = r]
  BY <1>1
<1> HIDE DEF r, new, a
<1>7. Located(r) /\ ~Denied(r)
  BY Zenon, <1>3, <1>5 DEF Located, Denied
<1>8. /\ task'[t] = r /\ \A u \in Tasks \ {t} : task'[u] = task[u]
      /\ task' \in [Tasks -> TaskRecord]
  BY Zenon, <1>5, <1>6, OneMoves DEF Typed
<1>9. a = existing \/ (existing = None /\ a = new)
  BY DEF a
<1>10. Maybe \subseteq Maybe' /\ Tokens \subseteq Tokens' /\ new \in Maybe'
  BY Zenon, <1>3 DEF Maybe
<1>11. Typed'
  <2>1. \A u \in Tasks : task'[u].token \in Maybe' /\ Located(task'[u])
    BY Zenon, <1>5, <1>7, <1>8, <1>10 DEF Typed
  <2>2. \A i \in Tokens' : account'[i] \in Tokens'
    BY Zenon, <1>3, <1>10 DEF Typed
  <2>3. valid' \subseteq Tokens' /\ existing' \in Maybe' /\ reported' \subseteq Tokens'
    BY Zenon, <1>2, <1>3 DEF Typed, Maybe
  <2>4. token' \in Maybe' /\ config' \in Maybe' /\ saved' \in Maybe'
    BY Zenon, <1>2, <1>10 DEF Typed
  <2> QED BY Zenon, <1>3, <1>8, <2>1, <2>2, <2>3, <2>4 DEF Typed
<1>12. Accepted'
  BY Zenon, <1>2, <1>3, <1>9 DEF Accepted, Typed
<1>13. ASSUME NEW u \in Tasks, task[u].op = "delete", task[u].answer = "ok"
       PROVE  account[task[u].token] # a
  <2>1. Denied(task[u])
    BY Zenon, <1>13 DEF Denied
  <2> QED BY Zenon, <1>3, <1>9, <1>13, <2>1, TaskFacts DEF Told
<1>14. \A u \in Tasks : Denied(task[u]) => task[u].token \in Tokens
  BY TaskFacts
<1>15. \A u \in Tasks : Told(u)'
  <2>1. Told(t)'
    BY Zenon, <1>5, <1>7, <1>8 DEF Told
  <2>2. ASSUME NEW u \in Tasks \ {t} PROVE Told(u)'
    <3>1. Denied(task[u]) => task[u].token \notin valid'
      BY Zenon, <1>2, <1>3, <1>14 DEF Told
    <3>2. task[u].op = "delete" /\ task[u].answer = "ok" => account'[task[u].token] # existing'
      <4>1. task[u].op = "delete" /\ task[u].answer = "ok" => Denied(task[u])
        BY Zenon DEF Denied
      <4> QED BY Zenon, <1>2, <1>3, <1>13, <1>14, <4>1
    <3> QED BY Zenon, <1>8, <3>1, <3>2 DEF Told
  <2> QED BY <2>1, <2>2
<1>16. Latest'
  <2>1. saved # new
    BY Zenon, <1>3 DEF Typed, Maybe
  <2> QED BY Zenon, <1>2, <1>5, <1>8, <2>1 DEF Latest
<1>17. ASSUME NEW x \in Tokens, x # a
       PROVE  /\ Unsought(x) => Unsought(x)'
              /\ Untaken(x) => Untaken(x)'
  <2>1. ASSUME Unsought(x), NEW u \in Tasks, Stores(task'[u]) PROVE account'[task'[u].token] # x
    <3>1. CASE u = t
      BY Zenon, <1>3, <1>5, <1>8, <1>17, <3>1
    <3>2. CASE u # t
      BY Zenon, <1>3, <1>8, <2>1, <3>2, TaskFacts DEF Unsought
    <3> QED BY <3>1, <3>2
  <2>2. Untaken(x) => Untaken(x)'
    BY Zenon, <1>2, <1>3 DEF Untaken, Typed, Maybe
  <2> QED BY Zenon, <2>1, <2>2 DEF Unsought
<1>18. Half'
  <2> SUFFICES ASSUME NEW u \in Tasks, task'[u].at = "clear config", task'[u].answer = "ok",
                      account'[task'[u].token] \notin raced'
               PROVE  /\ token # None => account'[token] # account'[task'[u].token]
                      /\ \A v \in Tasks : Stores(task'[v]) =>
                           account'[task'[v].token] # account'[task'[u].token]
    BY Zenon, <1>2 DEF Half, Untaken, Unsought
  <2>1. u # t /\ task'[u] = task[u]
    BY Zenon, <1>5, <1>8
  <2>2. Denied(task[u]) /\ task[u].op = "delete"
    BY Zenon, <2>1 DEF Typed, Located, Denied
  <2>3. PICK x : x = account[task[u].token]
    OBVIOUS
  <2>4. x = account'[task'[u].token] /\ x \in Tokens /\ x # a
    BY Zenon, <1>3, <1>13, <2>1, <2>2, <2>3, TaskFacts
  <2>5. Untaken(x) /\ Unsought(x)
    BY Zenon, <1>2, <2>1, <2>3, <2>4 DEF Half
  <2>6. Untaken(x)' /\ Unsought(x)'
    BY <1>17, <2>4, <2>5
  <2> QED BY Zenon, <1>2, <2>4, <2>6 DEF Untaken, Unsought
<1>19. Cleared'
  <2> SUFFICES ASSUME NEW x \in reported, x \notin raced
               PROVE  /\ x # existing' /\ Untaken(x)' /\ Unsought(x)'
                      /\ config # None => account'[config] # x
    BY Zenon, <1>2 DEF Cleared, Untaken, Unsought
  <2>1. /\ x # existing /\ Untaken(x) /\ Unsought(x) /\ x \in Tokens
        /\ config # None => account[config] # x
    BY Zenon DEF Cleared, Typed
  <2>2. x # a
    BY Zenon, <1>3, <1>9, <2>1
  <2>3. config # None => account'[config] # x
    BY Zenon, <1>3, <2>1 DEF Typed, Maybe
  <2> QED BY Zenon, <1>2, <1>17, <2>1, <2>2, <2>3
<1> QED BY <1>11, <1>12, <1>15, <1>16, <1>18, <1>19

(* A deletion takes the account and its tokens.                            *)
LEMMA DeleteData ==
  ASSUME DataInv, NEW t \in Tasks, Delete(t)
  PROVE  DataInv'
<1> USE DEF DataInv
<1> DEFINE k == task[t].token
<1>1. PICK answer \in {"ok", "unavailable"} :
        task' = [task EXCEPT ![t] =
                   [task[t] EXCEPT !.at = "answer", !.answer = answer, !.token = k]]
  BY Zenon DEF Delete, Answer
<1> DEFINE r == [task[t] EXCEPT !.at = "answer", !.answer = answer, !.token = k]
<1>2. /\ account' = account /\ existing' = None /\ valid' = {}
      /\ token' = token /\ config' = config /\ saved' = saved /\ overtaken' = overtaken
      /\ reported' = reported /\ raced' = raced
  BY DEF Delete, store, history
<1>3. /\ task[t] \in TaskRecord /\ task[t].op = "delete"
      /\ Located(task[t]) /\ k \in Tokens /\ Tokens \subseteq Nat /\ None \notin Tokens
  BY Zenon, TaskFacts, Numbers DEF Delete, Typed
<1>4. /\ r \in TaskRecord /\ r.op = "delete" /\ r.at = "answer" /\ r.token = k
      /\ r.answer = answer
  <2>1. "answer" \in Places /\ answer \in Answers
    BY SMT, <1>1 DEF Places, Answers
  <2>2. k \in Nat \cup {None}
    BY Zenon, <1>3
  <2> HIDE DEF k
  <2> QED BY Zenon, <1>3, <2>1, <2>2 DEF TaskRecord, k
<1>5. task' = [task EXCEPT ![t] = r]
  BY <1>1
<1> HIDE DEF r, k
<1>6. Located(r) /\ ~Stores(r)
  BY Zenon, <1>3, <1>4 DEF Located, Stores
<1>7. /\ task'[t] = r /\ \A u \in Tasks \ {t} : task'[u] = task[u]
      /\ task' \in [Tasks -> TaskRecord]
  BY Zenon, <1>4, <1>5, OneMoves DEF Typed
<1>8. Tokens' = Tokens /\ Maybe' = Maybe
  BY Zenon, <1>2 DEF Tokens, Maybe
<1>9. Typed'
  <2>1. \A u \in Tasks : task'[u].token \in Maybe /\ Located(task'[u])
    BY Zenon, <1>3, <1>4, <1>6, <1>7 DEF Typed, Maybe
  <2>2. None \in Maybe
    BY DEF Maybe
  <2> QED BY Zenon, <1>2, <1>7, <1>8, <2>1, <2>2 DEF Typed
<1>10. Accepted'
  BY Zenon, <1>2 DEF Accepted
<1>11. \A u \in Tasks : Told(u)'
  <2>1. Told(t)'
    BY Zenon, <1>2, <1>3, <1>4, <1>7 DEF Told, Typed
  <2>2. ASSUME NEW u \in Tasks \ {t} PROVE Told(u)'
    <3>1. task[u].op = "delete" /\ task[u].answer = "ok" => account[task[u].token] # None
      BY Zenon, <1>3, TaskFacts DEF Denied
    <3> QED BY Zenon, <1>2, <1>7, <3>1 DEF Told
  <2> QED BY <2>1, <2>2
<1>12. Latest'
  BY Zenon, <1>2 DEF Latest
<1>13. \A x : (Untaken(x)' <=> Untaken(x)) /\ (Unsought(x) => Unsought(x)')
  BY Zenon, <1>2, <1>6, <1>7 DEF Unsought, Untaken
<1>14. Half'
  <2> SUFFICES ASSUME NEW u \in Tasks, task'[u].at = "clear config", task'[u].answer = "ok",
                      account[task'[u].token] \notin raced
               PROVE  /\ Untaken(account[task'[u].token])
                      /\ \A v \in Tasks : Stores(task'[v]) =>
                           account[task'[v].token] # account[task'[u].token]
    BY Zenon, <1>2 DEF Half, Untaken, Unsought
  <2>1. u # t /\ task'[u] = task[u]
    BY Zenon, <1>4, <1>7
  <2> QED BY Zenon, <1>6, <1>7, <2>1 DEF Half, Unsought
<1>15. Cleared'
  <2>1. \A x \in reported : x # None
    BY Zenon, <1>3 DEF Typed
  <2> QED BY Zenon, <1>2, <1>13, <2>1 DEF Cleared
<1> QED BY <1>9, <1>10, <1>11, <1>12, <1>14, <1>15

LEMMA ExpireData ==
  ASSUME DataInv, Expire
  PROVE  DataInv'
<1> USE DEF DataInv
<1>1. /\ account' = account /\ existing' = existing /\ valid' \subseteq valid /\ task' = task
      /\ token' = token /\ config' = config /\ saved' = saved /\ overtaken' = overtaken
      /\ reported' = reported /\ raced' = raced
  BY Zenon DEF Expire, store, history
<1>2. Tokens' = Tokens /\ Maybe' = Maybe
  BY Zenon, <1>1 DEF Tokens, Maybe
<1>3. Typed' /\ Accepted' /\ Latest'
  BY Zenon, <1>1, <1>2 DEF Typed, Accepted, Latest
<1>4. \A u \in Tasks : Told(u)'
  BY Zenon, <1>1 DEF Told
<1>5. Half' /\ Cleared'
  BY Zenon, <1>1 DEF Half, Cleared, Untaken, Unsought
<1> QED BY <1>3, <1>4, <1>5

(* Handlers that die store nothing. *)
LEMMA KillData ==
  ASSUME DataInv, Kill
  PROVE  DataInv'
<1> USE DEF DataInv
<1>1. /\ account' = account /\ existing' = existing /\ valid' = valid
      /\ token' = token /\ config' = config /\ saved' = saved /\ overtaken' = overtaken
      /\ reported' = reported /\ raced' = raced
  BY DEF Kill, store, server, history
<1>2. /\ task' \in [Tasks -> TaskRecord]
      /\ \A u \in Tasks : task'[u] = Idle
  BY Zenon, IdleType DEF Kill
<1>3. Tokens' = Tokens /\ Maybe' = Maybe
  BY Zenon, <1>1 DEF Tokens, Maybe
<1>4. Typed'
  BY Zenon, <1>1, <1>2, <1>3, IdleType DEF Typed, Maybe
<1>5. Accepted' /\ Latest'
  BY Zenon, <1>1, <1>2, IdleType DEF Accepted, Latest
<1>6. \A u \in Tasks : Told(u)'
  BY Zenon, <1>2, IdleType DEF Told, Idle
<1>7. Half' /\ Cleared'
  BY Zenon, <1>1, <1>2, IdleType DEF Half, Cleared, Untaken, Unsought
<1> QED BY <1>4, <1>5, <1>6, <1>7

(* Handlers that lose their screen do what they would have done. *)
LEMMA WithoutScreen ==
  ASSUME NEW r \in TaskRecord
  PROVE  LET new == [r EXCEPT !.screen = FALSE]
         IN  /\ new \in TaskRecord /\ new.op = r.op /\ new.at = r.at
             /\ new.token = r.token /\ new.answer = r.answer
             /\ (Denied(new) <=> Denied(r)) /\ (Stores(new) <=> Stores(r))
             /\ Located(r) => Located(new)
<1> DEFINE new == [r EXCEPT !.screen = FALSE]
<1>1. /\ new \in TaskRecord /\ new.op = r.op /\ new.at = r.at
      /\ new.token = r.token /\ new.answer = r.answer
  BY Zenon DEF TaskRecord
<1> HIDE DEF new
<1>2. (Denied(new) <=> Denied(r)) /\ (Stores(new) <=> Stores(r))
  BY Zenon, <1>1 DEF Denied, Stores
<1>3. Located(r) => Located(new)
  BY Zenon, <1>1, <1>2 DEF Located
<1> QED BY <1>1, <1>2, <1>3 DEF new

LEMMA ReopenData ==
  ASSUME DataInv, Reopen
  PROVE  DataInv'
<1> USE DEF DataInv
<1>1. /\ account' = account /\ existing' = existing /\ valid' = valid
      /\ token' = token /\ config' = config /\ saved' = saved /\ overtaken' = overtaken
      /\ reported' = reported /\ raced' = raced
  BY DEF Reopen, store, server, history
<1>2. ASSUME NEW u \in Tasks
      PROVE  /\ task'[u] \in TaskRecord /\ task'[u].op = task[u].op /\ task'[u].at = task[u].at
             /\ task'[u].token = task[u].token /\ task'[u].answer = task[u].answer
             /\ (Denied(task'[u]) <=> Denied(task[u])) /\ (Stores(task'[u]) <=> Stores(task[u]))
             /\ Located(task'[u])
  <2>1. task'[u] = [task[u] EXCEPT !.screen = FALSE]
    BY Zenon DEF Reopen
  <2>2. task[u] \in TaskRecord /\ Located(task[u])
    BY TaskFacts
  <2> QED BY Zenon, <2>1, <2>2, WithoutScreen
<1>3. task' \in [Tasks -> TaskRecord]
  <2>1. task' = [u \in Tasks |-> task'[u]]
    BY Zenon DEF Reopen
  <2> QED BY Zenon, <1>2, <2>1
<1>4. Tokens' = Tokens /\ Maybe' = Maybe
  BY Zenon, <1>1 DEF Tokens, Maybe
<1>5. Typed'
  BY Zenon, <1>1, <1>2, <1>3, <1>4 DEF Typed
<1>6. Accepted' /\ Latest'
  BY Zenon, <1>1, <1>2 DEF Accepted, Latest
<1>7. \A u \in Tasks : Told(u)'
  BY Zenon, <1>1, <1>2 DEF Told
<1>8. \A x : (Untaken(x)' <=> Untaken(x)) /\ (Unsought(x)' <=> Unsought(x))
  BY Zenon, <1>1, <1>2 DEF Unsought, Untaken
<1>9. Half' /\ Cleared'
  BY Zenon, <1>1, <1>2, <1>8 DEF Half, Cleared
<1> QED BY <1>5, <1>6, <1>7, <1>9

LEMMA DataLeftAlone ==
  ASSUME DataInv, UNCHANGED <<store, server, history, task>>
  PROVE  DataInv'
<1>1. /\ account' = account /\ existing' = existing /\ valid' = valid /\ task' = task
      /\ token' = token /\ config' = config /\ saved' = saved /\ overtaken' = overtaken
      /\ reported' = reported /\ raced' = raced
  BY DEF store, server, history
<1>2. Tokens' = Tokens /\ Maybe' = Maybe
  BY Zenon, <1>1 DEF Tokens, Maybe
<1>3. Typed' /\ Accepted' /\ Latest'
  BY Zenon, <1>1, <1>2 DEF DataInv, Typed, Accepted, Latest
<1>4. \A u \in Tasks : Told(u)'
  BY Zenon, <1>1 DEF DataInv, Told
<1>5. Half' /\ Cleared'
  BY Zenon, <1>1 DEF DataInv, Half, Cleared, Untaken, Unsought
<1> QED BY <1>3, <1>4, <1>5 DEF DataInv

LEMMA DataNext ==
  ASSUME DataInv, [Next]_vars
  PROVE  DataInv'
<1>1. CASE \E t \in Tasks :
             \/ Press(t) \/ ReadToken(t) \/ Respond(t) \/ Receive(t)
             \/ Prepare(t) \/ Start(t) \/ Stop(t)
  BY Zenon, <1>1, PressData, ReadTokenData, RespondData, ReceiveData, PrepareData, CommandData
<1>2. CASE \E t \in Tasks : Issue(t) \/ Delete(t)
  BY Zenon, <1>2, IssueData, DeleteData
<1>3. CASE \E t \in Tasks :
             \/ SaveToken(t) \/ SaveConfig(t) \/ ReadConfig(t) \/ ClearToken(t) \/ ClearConfig(t)
  BY Zenon, <1>3, SaveTokenData, SaveConfigData, ReadConfigData, ClearTokenData, ClearConfigData
<1>4. CASE StartOpening \/ Deliver \/ Destroy \/ ReadStatus \/ FirstStatus \/ UNCHANGED vars
  <2>1. UNCHANGED <<store, server, history, task>>
    BY <1>4 DEF StartOpening, Deliver, Destroy, ReadStatus, FirstStatus, vars
  <2> QED BY <2>1, DataLeftAlone
<1>5. CASE Expire
  BY <1>5, ExpireData
<1>6. CASE Reopen \/ Kill
  BY <1>6, ReopenData, KillData
<1> QED BY <1>1, <1>2, <1>3, <1>4, <1>5, <1>6 DEF Next

-----------------------------------------------------------------------------
(* The tunnel.                                                             *)

(* Nothing is sent and nothing is claimed anew. *)
LEMMA NothingSent ==
  ASSUME TunnelInv, UNCHANGED native, Claimed' => Claimed,
         \A u \in Tasks : task'[u].at = "start" => task[u].at = "start"
  PROVE  TunnelInv'
<1>1. consent' = consent /\ commands' = commands /\ tun' = tun /\ current' = current
  BY DEF native
<1>2. Closing' <=> Closing
  BY Zenon, <1>1 DEF Closing
<1>3. Consented'
  BY Zenon, <1>1 DEF TunnelInv, Consented
<1> QED BY Zenon, <1>1, <1>2, <1>3 DEF TunnelInv

LEMMA NothingClaimed ==
  ASSUME UNCHANGED mount, UNCHANGED view \/ status' # "disconnected" \/ overridden'
  PROVE  Claimed' => Claimed
<1>1. opening' = opening /\ late' = late
  BY DEF mount
<1>2. CASE UNCHANGED view
  <2>1. status' = status /\ overridden' = overridden
    BY <1>2 DEF view
  <2> QED BY Zenon, <1>1, <2>1 DEF Claimed
<1>3. CASE status' # "disconnected" \/ overridden'
  BY Zenon, <1>1, <1>3 DEF Claimed
<1> QED BY <1>2, <1>3

LEMMA HandlerSendsNothing ==
  ASSUME DataInv, TunnelInv, NEW t \in Tasks, NEW r, task' = [task EXCEPT ![t] = r],
         r.at # "start", UNCHANGED <<mount, native>>,
         UNCHANGED view \/ status' # "disconnected" \/ overridden'
  PROVE  TunnelInv'
<1>1. task'[t] = r /\ \A u \in Tasks \ {t} : task'[u] = task[u]
  BY Zenon DEF DataInv, Typed
<1>2. \A u \in Tasks : task'[u].at = "start" => task[u].at = "start"
  BY Zenon, <1>1
<1>3. UNCHANGED mount /\ UNCHANGED native
  OBVIOUS
<1> QED BY Zenon, <1>2, <1>3, NothingClaimed, NothingSent

(* What is shown, if anything, is not "disconnected". *)
LEMMA ShowsOther ==
  ASSUME NEW t, NEW shown, shown # "disconnected", Show(t, shown)
  PROVE  UNCHANGED view \/ status' # "disconnected" \/ overridden'
  BY Zenon DEF Show, Shown

(* Giving up shows "error" or nothing. *)
LEMMA GivingUp ==
  ASSUME DataInv, TunnelInv, NEW t \in Tasks, GiveUp(t), UNCHANGED <<mount, native>>
  PROVE  TunnelInv'
<1>1. task' = [task EXCEPT ![t] = Idle] /\ Idle.at # "start"
  BY IdleType DEF GiveUp, End
<1>2. "error" # "disconnected"
  OBVIOUS
<1>3. UNCHANGED view \/ status' # "disconnected" \/ overridden'
  BY Zenon, <1>2, ShowsOther DEF GiveUp, Shown
<1> QED BY Zenon, <1>1, <1>3, HandlerSendsNothing

LEMMA PressTunnel ==
  ASSUME DataInv, TunnelInv, NEW t \in Tasks, Press(t)
  PROVE  TunnelInv'
<1>1. PICK op \in Handlers, place \in Places \ {"start"} : Begin(t, op, place)
  BY Zenon DEF Press, Handlers, Places
<1> DEFINE r == [Idle EXCEPT !.op = op, !.at = place,
                             !.screen = op \in {"connect", "disconnect", "delete"}]
<1>2. task' = [task EXCEPT ![t] = r]
  BY Zenon, <1>1 DEF Begin
<1>3. r.at # "start"
  BY Zenon, <1>1, IdleType DEF TaskRecord
<1> HIDE DEF r
<1>4. UNCHANGED <<mount, native>> /\ (status' = "connecting" \/ Shown)
  BY Zenon DEF Press
<1>5. UNCHANGED view \/ status' # "disconnected" \/ overridden'
  <2>1. "connecting" # "disconnected"
    OBVIOUS
  <2> QED BY Zenon, <1>4, <2>1 DEF Shown
<1> QED BY Zenon, <1>2, <1>3, <1>4, <1>5, HandlerSendsNothing

(* A handler that has asked or been answered. *)
LEMMA AskedTunnel ==
  ASSUME DataInv, TunnelInv, NEW t \in Tasks, NEW place \in Places \ {"start"}, NEW ans, NEW tok,
         task' = [task EXCEPT ![t] = [task[t] EXCEPT !.at = place, !.answer = ans, !.token = tok]],
         UNCHANGED <<mount, native, view>>
  PROVE  TunnelInv'
<1> DEFINE r == [task[t] EXCEPT !.at = place, !.answer = ans, !.token = tok]
<1>1. task[t] \in TaskRecord
  BY TaskFacts
<1>2. r.at # "start"
  BY Zenon, <1>1 DEF TaskRecord
<1> HIDE DEF r
<1> QED BY Zenon, <1>2, HandlerSendsNothing DEF r

LEMMA GoingOn ==
  ASSUME DataInv, TunnelInv, NEW t \in Tasks, NEW place \in Places \ {"start"},
         Goto(t, place), Shown, UNCHANGED <<mount, native>>
  PROVE  TunnelInv'
<1> DEFINE r == [task[t] EXCEPT !.at = place]
<1>1. r.at # "start"
  BY Zenon, TaskFacts, MovedFields
<1>2. task' = [task EXCEPT ![t] = r]
  BY Zenon DEF Goto
<1> HIDE DEF r
<1> QED BY Zenon, <1>1, <1>2, HandlerSendsNothing DEF Shown

LEMMA RequestTunnel ==
  ASSUME DataInv, TunnelInv, NEW t \in Tasks,
         ReadToken(t) \/ Issue(t) \/ Delete(t) \/ Respond(t)
  PROVE  TunnelInv'
<1>1. CASE ReadToken(t)
  <2>1. CASE token = None
    BY <1>1, <2>1, GivingUp DEF ReadToken
  <2>2. CASE token # None
    <3> DEFINE r == [task[t] EXCEPT !.at = "request", !.token = token]
    <3>1. task' = [task EXCEPT ![t] = r] /\ Shown /\ UNCHANGED <<mount, native>>
      BY Zenon, <1>1, <2>2 DEF ReadToken
    <3>2. r.at # "start"
      BY Zenon, TaskFacts DEF TaskRecord
    <3> HIDE DEF r
    <3> QED BY Zenon, <3>1, <3>2, HandlerSendsNothing DEF Shown
  <2> QED BY <2>1, <2>2
<1>2. CASE Issue(t) \/ Delete(t) \/ Respond(t)
  <2>1. UNCHANGED <<mount, native, view>>
    BY <1>2 DEF Issue, Delete, Respond
  <2>2. PICK ans, tok :
          task' = [task EXCEPT ![t] = [task[t] EXCEPT !.at = "answer", !.answer = ans, !.token = tok]]
    BY Zenon, <1>2 DEF Issue, Delete, Respond, Answer
  <2>3. "answer" \in Places \ {"start"}
    BY SMT DEF Places
  <2> QED BY Zenon, <2>1, <2>2, <2>3, AskedTunnel
<1> QED BY <1>1, <1>2

LEMMA ReceiveTunnel ==
  ASSUME DataInv, TunnelInv, NEW t \in Tasks, Receive(t)
  PROVE  TunnelInv'
<1> DEFINE next == NextAfter(task[t].op, task[t].answer)
<1>1. UNCHANGED <<mount, native>>
  BY DEF Receive
<1>2. CASE next = "give up"
  BY <1>1, <1>2, GivingUp DEF Receive
<1>3. CASE next # "give up"
  <2>1. Goto(t, next) /\ Shown
    BY Zenon, <1>3 DEF Receive
  <2>2. next \in {"save config", "read config", "save token", "clear token"}
    BY Zenon, <1>3, NextPlace
  <2> HIDE DEF next
  <2>3. next \in Places \ {"start"}
    BY Zenon, <2>2 DEF Places
  <2> QED BY Zenon, <1>1, <2>1, <2>3, GoingOn
<1> QED BY <1>2, <1>3

LEMMA StoreTunnel ==
  ASSUME DataInv, TunnelInv, NEW t \in Tasks,
         \/ SaveToken(t) \/ SaveConfig(t) \/ ReadConfig(t) \/ ClearToken(t) \/ ClearConfig(t)
  PROVE  TunnelInv'
<1>1. UNCHANGED <<mount, native>>
  BY DEF SaveToken, SaveConfig, ReadConfig, ClearToken, ClearConfig, ClearConfigAs
<1>2. CASE GiveUp(t)
  BY <1>1, <1>2, GivingUp
<1>3. CASE Goto(t, "clear config") /\ Shown
  <2>1. "clear config" \in Places \ {"start"}
    BY SMT DEF Places
  <2> QED BY Zenon, <1>1, <1>3, <2>1, GoingOn
<1>4. CASE HaveConfig(t) /\ Shown
  <2> DEFINE r == [task[t] EXCEPT !.at = "prepare", !.token = None, !.answer = "none"]
  <2>1. task' = [task EXCEPT ![t] = r]
    BY Zenon, <1>4 DEF HaveConfig
  <2>2. r.at # "start"
    BY Zenon, TaskFacts, ConfigInHand
  <2> HIDE DEF r
  <2> QED BY Zenon, <1>1, <1>4, <2>1, <2>2, HandlerSendsNothing DEF Shown
<1>5. CASE SaveToken(t) \/ ClearConfig(t)
  <2>1. task' = [task EXCEPT ![t] = Idle] /\ Idle.at # "start"
    BY <1>5, IdleType DEF SaveToken, ClearConfig, ClearConfigAs, End
  <2>2. UNCHANGED view \/ status' # "disconnected" \/ overridden'
    BY Zenon, <1>5 DEF SaveToken, ClearConfig, ClearConfigAs, Shown
  <2> QED BY Zenon, <1>1, <2>1, <2>2, HandlerSendsNothing
<1>6. CASE SaveConfig(t)
  BY <1>4, <1>6 DEF SaveConfig, Shown
<1>7. CASE ReadConfig(t)
  BY <1>2, <1>4, <1>7 DEF ReadConfig
<1>8. CASE ClearToken(t)
  BY <1>2, <1>3, <1>8 DEF ClearToken, AfterToken
<1> QED BY <1>5, <1>6, <1>7, <1>8

(* Without consent there is nothing to close. *)
LEMMA NothingToClose ==
  ASSUME TunnelInv, ~consent
  PROVE  Closing
<1>1. commands \in Seq({"connect", "disconnect"})
  BY DEF TunnelInv
<1>2. commands # <<>> => Len(commands) \in 1..Len(commands)
                         /\ commands[Len(commands)] \in {"connect", "disconnect"}
  BY SMT, <1>1
<1> QED BY Zenon, <1>2 DEF TunnelInv, Consented, Closing

LEMMA PrepareTunnel ==
  ASSUME DataInv, TunnelInv, NEW t \in Tasks, Prepare(t)
  PROVE  TunnelInv'
<1>1. commands' = commands /\ tun' = tun /\ current' = current /\ UNCHANGED mount
  BY DEF Prepare
<1>2. CASE consent /\ Shown /\ UNCHANGED consent
  <2>1. Closing' <=> Closing
    BY Zenon, <1>1 DEF Closing
  <2>2. Claimed' => Claimed
    BY <1>1, <1>2, NothingClaimed DEF Shown
  <2> QED BY Zenon, <1>1, <1>2, <2>1, <2>2 DEF TunnelInv, Consented
<1>3. CASE ~consent /\ End(t)
  <2>1. \A u \in Tasks : task'[u].at = "start" => task[u].at = "start"
    BY Zenon, <1>3, IdleType DEF End, DataInv, Typed
  <2>2. Closing /\ (Closing' <=> Closing)
    BY Zenon, <1>1, <1>3, NothingToClose DEF Closing
  <2> QED BY Zenon, <1>1, <1>3, <2>1, <2>2 DEF TunnelInv, Consented
<1>4. CASE GiveUp(t) /\ UNCHANGED consent
  BY <1>1, <1>4, GivingUp DEF native
<1> QED BY <1>2, <1>3, <1>4 DEF Prepare

LEMMA CommandTunnel ==
  ASSUME DataInv, TunnelInv, NEW t \in Tasks, Start(t) \/ Stop(t)
  PROVE  TunnelInv'
<1>1. /\ consent' = consent /\ tun' = tun /\ current' = current /\ opening' = opening
      /\ task' = [task EXCEPT ![t] = Idle]
      /\ Start(t) => task[t].at = "start"
  BY DEF Start, Stop, Send, Fail, End
<1>2. \A u \in Tasks : task'[u].at = "start" => task[u].at = "start"
  BY Zenon, <1>1, IdleType DEF DataInv, Typed
<1>3. CASE Fail(t)
  <2>1. Show(t, "error") /\ UNCHANGED mount /\ UNCHANGED native
    BY Zenon, <1>1, <1>3 DEF Fail, mount, native
  <2>2. "error" # "disconnected"
    OBVIOUS
  <2>3. UNCHANGED view \/ status' # "disconnected" \/ overridden'
    BY Zenon, <2>1, <2>2, ShowsOther
  <2> QED BY Zenon, <1>2, <2>1, <2>3, NothingClaimed, NothingSent
<1>4. ASSUME NEW command \in {"connect", "disconnect"}, Send(t, command),
             command = "connect" => consent /\ ~Claimed'
      PROVE  TunnelInv'
  <2>1. commands' = Append(commands, command)
    BY <1>4 DEF Send
  <2>2. /\ commands \in Seq({"connect", "disconnect"}) /\ commands' # <<>>
        /\ commands' \in Seq({"connect", "disconnect"})
        /\ commands'[Len(commands')] = command
        /\ \A i \in 1..Len(commands') :
             \/ commands'[i] = command
             \/ i \in 1..Len(commands) /\ commands'[i] = commands[i]
    <3>1. commands \in Seq({"connect", "disconnect"}) /\ Len(commands) \in Nat
      BY SMT DEF TunnelInv
    <3>2. /\ commands' \in Seq({"connect", "disconnect"})
          /\ Len(commands') = Len(commands) + 1
          /\ commands'[Len(commands) + 1] = command
          /\ \A i \in 1..Len(commands) : commands'[i] = commands[i]
      BY SMT, <2>1, <3>1
    <3> QED BY SMT, <3>1, <3>2
  <2>3. Consented'
    BY Zenon, <1>1, <1>2, <1>4, <2>2 DEF TunnelInv, Consented
  <2>4. Claimed' => Closing'
    BY Zenon, <1>4, <2>2 DEF Closing
  <2> QED BY Zenon, <1>1, <2>2, <2>3, <2>4 DEF TunnelInv
<1>5. CASE Start(t) /\ ~Fail(t)
  <2>1. consent /\ Send(t, "connect")
    BY Zenon, <1>1, <1>5 DEF TunnelInv, Consented, Start
  <2>2. opening = "disconnected" => late'
    BY Zenon, <1>5 DEF Start
  <2>3. \/ status' = "connected"
        \/ status' = status /\ (status = "disconnected" => overridden')
    BY Zenon, <1>5 DEF Start, Show
  <2>4. "connected" # "disconnected"
    OBVIOUS
  <2>5. ~Claimed'
    BY Zenon, <1>1, <2>2, <2>3, <2>4 DEF Claimed
  <2> QED BY <1>4, <2>1, <2>5
<1>6. CASE Stop(t) /\ ~Fail(t)
  <2>1. "disconnect" # "connect" /\ Send(t, "disconnect")
    BY <1>6 DEF Stop
  <2> QED BY <1>4, <2>1
<1> QED BY <1>3, <1>5, <1>6

(* The last command decides: when it arrives, the interface is closed. *)
LEMMA DeliverTunnel ==
  ASSUME DataInv, TunnelInv, Deliver
  PROVE  TunnelInv'
<1>1. /\ commands # <<>> /\ commands' = Tail(commands)
      /\ consent' = consent /\ task' = task
      /\ status' = status /\ overridden' = overridden /\ opening' = opening /\ late' = late
  BY DEF Deliver, view, mount
<1>2. /\ Head(commands) # "connect" => tun' = FALSE /\ current' = "disconnected"
      /\ Head(commands) = "connect" => current' = "connected" \/ current' = "error"
  BY Zenon DEF Deliver, Connected, Disconnected
<1>3. current' \in {"disconnected", "connecting", "connected", "error"}
      /\ (current' = "disconnected" => ~tun')
  <2>1. "connected" # "disconnected" /\ "error" # "disconnected"
    OBVIOUS
  <2> QED BY Zenon, <1>2, <2>1
<1>4. /\ commands \in Seq({"connect", "disconnect"})
      /\ commands' \in Seq({"connect", "disconnect"})
      /\ 1 \in 1..Len(commands) /\ Head(commands) = commands[1]
      /\ \A i \in 1..Len(commands') : i + 1 \in 1..Len(commands)
                                      /\ commands'[i] = commands[i + 1]
      /\ commands' # <<>> => commands'[Len(commands')] = commands[Len(commands)]
      /\ commands' = <<>> => Head(commands) = commands[Len(commands)]
  BY SMT, <1>1 DEF TunnelInv
<1>5. Consented'
  BY Zenon, <1>1, <1>2, <1>4 DEF TunnelInv, Consented
<1>6. Closing => Closing'
  <2>1. "disconnect" # "connect"
    OBVIOUS
  <2> QED BY Zenon, <1>1, <1>2, <1>4, <2>1 DEF Closing
<1>7. Claimed' => Claimed
  BY Zenon, <1>1 DEF Claimed
<1> QED BY Zenon, <1>3, <1>4, <1>5, <1>6, <1>7 DEF TunnelInv

(* The service opens the interface or goes: no claim gets worse. *)
LEMMA ServiceTunnel ==
  ASSUME TunnelInv, StartOpening \/ Destroy
  PROVE  TunnelInv'
<1>1. /\ commands' = commands /\ consent' = consent /\ task' = task
      /\ status' = status /\ overridden' = overridden /\ opening' = opening /\ late' = late
  BY DEF StartOpening, Destroy, view, mount
<1>2. \/ tun' = tun /\ current' = "connecting"
      \/ tun' = FALSE /\ current' = "disconnected"
  BY DEF StartOpening, Destroy
<1>3. current' \in {"disconnected", "connecting", "connected", "error"}
      /\ (current' = "disconnected" => ~tun')
  <2>1. "connecting" # "disconnected"
    OBVIOUS
  <2> QED BY Zenon, <1>2, <2>1
<1>4. ~tun => ~tun'
  BY <1>2
<1>5. Consented'
  BY Zenon, <1>1, <1>4 DEF TunnelInv, Consented
<1>6. Closing => Closing'
  BY Zenon, <1>1, <1>4 DEF Closing
<1>7. Claimed' => Claimed
  BY Zenon, <1>1 DEF Claimed
<1> QED BY Zenon, <1>1, <1>3, <1>5, <1>6, <1>7 DEF TunnelInv

(* The first status claims what the service has. *)
LEMMA ReadStatusTunnel ==
  ASSUME TunnelInv, ReadStatus
  PROVE  TunnelInv'
<1>1. UNCHANGED native /\ task' = task
  BY DEF ReadStatus
<1>2. opening' # "no"
  BY SMT DEF TunnelInv, ReadStatus
<1>3. opening' = "disconnected" => current = "disconnected" /\ (Starting => late')
  <2>1. opening' = "disconnected" => current = "disconnected"
    BY SMT DEF ReadStatus
  <2>2. opening' = "disconnected" /\ Starting => late'
    BY Zenon DEF ReadStatus
  <2> QED BY <2>1, <2>2
<1>4. commands # <<>> => commands[Len(commands)] \in {"connect", "disconnect"}
  BY SMT DEF TunnelInv
<1>5. Claimed' => Closing
  BY Zenon, <1>2, <1>3, <1>4 DEF Claimed, TunnelInv, Starting, Closing
<1>6. consent' = consent /\ commands' = commands /\ tun' = tun /\ current' = current
  BY <1>1 DEF native
<1>7. Consented' /\ (Closing' <=> Closing)
  BY Zenon, <1>1, <1>6 DEF TunnelInv, Consented, Closing
<1> QED BY Zenon, <1>5, <1>6, <1>7 DEF TunnelInv

LEMMA FirstStatusTunnel ==
  ASSUME TunnelInv, FirstStatus
  PROVE  TunnelInv'
<1>1. UNCHANGED native /\ task' = task
  BY DEF FirstStatus
<1>2. Claimed' => Claimed
  BY SMT DEF FirstStatus, Claimed
<1> QED BY <1>1, <1>2, NothingSent

(* A mounted App claims nothing yet. *)
LEMMA MountedTunnel ==
  ASSUME DataInv, TunnelInv, Reopen \/ Kill
  PROVE  TunnelInv'
<1>1. ~Claimed'
  BY SMT DEF Reopen, Kill, Mount, Claimed
<1>2. CASE Reopen
  <2>1. UNCHANGED native
    BY <1>2 DEF Reopen
  <2>2. ASSUME NEW u \in Tasks PROVE task'[u].at = task[u].at
    <3>1. task'[u] = [task[u] EXCEPT !.screen = FALSE]
      BY Zenon, <1>2 DEF Reopen
    <3> QED BY Zenon, <3>1, TaskFacts, WithoutScreen
  <2> QED BY Zenon, <1>1, <2>1, <2>2, NothingSent
<1>3. CASE Kill
  <2>1. /\ commands' = <<>> /\ tun' = FALSE /\ current' = "disconnected"
        /\ \A u \in Tasks : task'[u].at # "start"
    BY Zenon, <1>3, IdleType DEF Kill
  <2>2. commands' \in Seq({"connect", "disconnect"}) /\ 1..Len(commands') = {}
    BY SMT, <2>1
  <2> QED BY Zenon, <1>1, <2>1, <2>2 DEF TunnelInv, Consented
<1> QED BY <1>2, <1>3

LEMMA TunnelNext ==
  ASSUME DataInv, TunnelInv, [Next]_vars
  PROVE  TunnelInv'
<1>1. CASE \E t \in Tasks :
             \/ Press(t) \/ ReadToken(t) \/ Issue(t) \/ Delete(t) \/ Respond(t) \/ Receive(t)
  BY Zenon, <1>1, PressTunnel, RequestTunnel, ReceiveTunnel
<1>2. CASE \E t \in Tasks :
             \/ SaveToken(t) \/ SaveConfig(t) \/ ReadConfig(t) \/ ClearToken(t) \/ ClearConfig(t)
  BY Zenon, <1>2, StoreTunnel
<1>3. CASE \E t \in Tasks : Prepare(t) \/ Start(t) \/ Stop(t)
  BY Zenon, <1>3, PrepareTunnel, CommandTunnel
<1>4. CASE Expire \/ UNCHANGED vars
  <2>1. UNCHANGED native /\ task' = task /\ UNCHANGED mount /\ UNCHANGED view
    BY <1>4 DEF Expire, vars
  <2> QED BY <2>1, NothingClaimed, NothingSent
<1>5. CASE StartOpening \/ Deliver \/ Destroy
  BY <1>5, DeliverTunnel, ServiceTunnel
<1>6. CASE ReadStatus \/ FirstStatus \/ Reopen \/ Kill
  BY <1>6, ReadStatusTunnel, FirstStatusTunnel, MountedTunnel
<1> QED BY <1>1, <1>2, <1>3, <1>4, <1>5, <1>6 DEF Next

-----------------------------------------------------------------------------
(* The theorems.                                                           *)

LEMMA InitIInv == Init => IInv
<1> SUFFICES ASSUME Init PROVE IInv
  OBVIOUS
<1>1. /\ token = None /\ config = None /\ saved = None /\ existing = None
      /\ account = <<>> /\ valid = {} /\ reported = {}
      /\ commands = <<>> /\ tun = FALSE /\ current = "disconnected" /\ opening = "asked"
      /\ task \in [Tasks -> TaskRecord] /\ \A u \in Tasks : task[u] = Idle
  BY Zenon, IdleType DEF Init
<1>2. /\ Tokens = {} /\ None \in Maybe /\ account \in Seq(Nat)
      /\ commands \in Seq({"connect", "disconnect"}) /\ 1..Len(commands) = {}
  BY SMT, <1>1 DEF Tokens, Maybe
<1>3. Typed
  BY Zenon, <1>1, <1>2, IdleType DEF Typed
<1>4. Accepted /\ Latest
  BY Zenon, <1>1, IdleType DEF Accepted, Latest
<1>5. (\A u \in Tasks : Told(u)) /\ Half /\ Cleared
  BY Zenon, <1>1, IdleType DEF Told, Half, Cleared, Idle
<1>6. TunnelInv
  <2>1. ~Claimed
    BY SMT, <1>1 DEF Claimed
  <2> QED BY Zenon, <1>1, <1>2, <2>1, IdleType DEF TunnelInv, Consented
<1> QED BY <1>3, <1>4, <1>5, <1>6 DEF IInv, DataInv

THEOREM Inductive == Spec => []IInv
<1>1. IInv /\ [Next]_vars => IInv'
  BY DataNext, TunnelNext DEF IInv
<1> QED BY InitIInv, <1>1, PTL DEF Spec

(* DELETE /api/me, deleteAccount and the secure store: whatever handlers   *)
(* run with it, whenever the app dies and whichever answers are lost, what *)
(* is stored after a reported deletion is not of the deleted account, but  *)
(* where an answer with its token or config was being taken.               *)
THEOREM DeletedDataIsGone == Spec => []OnlyRacesLeaveData
<1>1. IInv => OnlyRacesLeaveData
  BY Zenon DEF IInv, DataInv, Cleared, Untaken, OnlyRacesLeaveData, StoredFor
<1> QED BY <1>1, Inductive, PTL

(* clearAccessToken, called by every handler that is told "unauthorized":  *)
(* it never takes a token from the store that the server accepts, if no    *)
(* request with an older one was under way when the token was saved.       *)
THEOREM ValidTokenStays == Spec => []ValidTokenIsKept
<1>1. IInv => ValidTokenIsKept
  BY Zenon DEF IInv, DataInv, Latest, ValidTokenIsKept
<1> QED BY <1>1, Inductive, PTL

(* VpnController, VpnRouterService and the status on the screen: with      *)
(* commands delivered in order, however often the App is mounted anew over *)
(* a service that lives on, the tunnel is closed behind a screen that says *)
(* so once the first status has come; except after a deletion, and after a *)
(* start that the screen's first status did not see.                       *)
THEOREM TunnelIsShown == Spec => []NoHiddenTunnel
<1>1. IInv => NoHiddenTunnel
  BY Zenon DEF IInv, TunnelInv, Claimed, Closing, NoHiddenTunnel
<1> QED BY <1>1, Inductive, PTL
=============================================================================
