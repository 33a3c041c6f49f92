---------------------------- MODULE MobileClient ----------------------------
(***************************************************************************)
(* The Expo app on one device: its button handlers, each an asynchronous   *)
(* function that other handlers overtake at every await; the secure store  *)
(* they share (SecureTokenStore); the API that answers, refuses or fails;  *)
(* and the Android service, which gets its commands later, in order, and   *)
(* outlives the screen: the activity may be destroyed and the App mounted  *)
(* anew while the tunnel is open.                                          *)
(* A handler sets its button's busy state, but one state serves all the    *)
(* account buttons, so that any of them frees the others: any handlers may *)
(* run at once, except that Connect and Disconnect depend on status.       *)
(***************************************************************************)
EXTENDS Naturals, Sequences

CONSTANTS
  Tasks,        \* handlers under way at once
  None,         \* nothing
  MaxTokens,    \* bound: bearer tokens that are issued
  MaxCommands   \* bound: commands the service has not got yet

ASSUME TokensAssumption == MaxTokens \in Nat /\ MaxCommands \in Nat
ASSUME NoneAssumption == None \notin Nat

VARIABLES
  token,       \* the stored access token, a number in the order of issue
  config,      \* the last known good config: the token it was fetched with
  status,      \* App: the VPN status on the screen
  task,        \* the handlers under way
  opening,     \* the first status: "asked" for, read, or shown ("no" more)
  consent,     \* the user has allowed the app to be a VPN
  commands,    \* intents on their way to VpnRouterService
  current,     \* VpnRouterStatus.current
  tun,         \* VpnRouterService.tun is open
  account,     \* server: the account of each token issued, named by its first token
  valid,       \* server: the tokens that are accepted
  existing,    \* server: the account of the device, None if there is none
  reported,    \* history: accounts that the app has reported as deleted
  raced,       \* history: those whose token or config was on its way to the store then
  saved,       \* history: the token saved last
  overtaken,   \* history: another token was in use when it was saved
  late,        \* history: the first status may be from before a start
  overridden   \* history: status hides a start, or was reset by a deletion

store == <<token, config>>
native == <<consent, commands, current, tun>>
server == <<account, valid, existing>>
history == <<reported, raced, saved, overtaken>>
view == <<status, overridden>>
mount == <<opening, late>>
vars == <<store, view, task, mount, native, server, history>>

-----------------------------------------------------------------------------
(* screen: the status is the handler's to set, and its screen still there. *)
Idle == [op |-> "none", at |-> "idle", token |-> None, answer |-> "none", screen |-> FALSE]

Begin(t, op, location) ==
  /\ task[t] = Idle
  /\ task' = [task EXCEPT ![t] = [@ EXCEPT !.op = op, !.at = location,
                                          !.screen = op \in {"connect", "disconnect", "delete"}]]
Goto(t, location) == task' = [task EXCEPT ![t] = [@ EXCEPT !.at = location]]
End(t) == task' = [task EXCEPT ![t] = Idle]

(* A handler of the VPN button sets the status, if its screen is there.    *)
Shown == UNCHANGED view
Show(t, shown) == IF task[t].screen THEN status' = shown /\ overridden' = FALSE ELSE Shown

(* The handler ends without success; only Connect shows that in status.    *)
GiveUp(t) == /\ End(t)
             /\ IF task[t].op = "connect" THEN Show(t, "error") ELSE Shown

(* toggleVpn, the activations, a reader (checkSubscription, exportAccount- *)
(* Data, refreshNodes), confirmDeleteAccount.                              *)
Press(t) ==
  /\ \/ /\ status \notin {"connected", "connecting"}
        /\ Begin(t, "connect", "read token")
        /\ status' = "connecting" /\ overridden' = FALSE
     \/ /\ status = "connected"
        /\ Begin(t, "disconnect", "stop") /\ Shown
     \/ Begin(t, "activate", "request") /\ Shown
     \/ \E op \in {"read", "delete"} : Begin(t, op, "read token") /\ Shown
  /\ UNCHANGED <<store, mount, native, server, history>>

ReadToken(t) ==
  /\ task[t].at = "read token"
  /\ IF token = None THEN GiveUp(t)
     ELSE task' = [task EXCEPT ![t] = [@ EXCEPT !.at = "request", !.token = token]] /\ Shown
  /\ UNCHANGED <<store, mount, native, server, history>>

-----------------------------------------------------------------------------
(* The API.  An answer may be lost after the request was carried out.      *)
Answer(t, answers, issued) ==
  \E answer \in answers :
    task' = [task EXCEPT ![t] =
               [@ EXCEPT !.at = "answer", !.answer = answer, !.token = issued]]

(* auth_receipt: the device's account, or a new one, and a new token.      *)
Issue(t) ==
  LET new == Len(account) + 1
      a == IF existing = None THEN new ELSE existing
  IN  /\ task[t].at = "request" /\ task[t].op = "activate" /\ new <= MaxTokens
      /\ account' = Append(account, a)
      /\ existing' = a
      /\ valid' = valid \cup {new}
      /\ Answer(t, {"ok", "unavailable"}, new)
      /\ UNCHANGED <<store, view, mount, native, history>>

Delete(t) ==
  /\ task[t].at = "request" /\ task[t].op = "delete" /\ task[t].token \in valid
  /\ existing' = None
  /\ valid' = {}
  /\ Answer(t, {"ok", "unavailable"}, task[t].token)
  /\ UNCHANGED <<store, view, mount, native, account, history>>

(* Every other answer; "refused" stands for 403 and for the 4xx that       *)
(* nobody handles, "unavailable" for 5xx and for a failing network.        *)
Respond(t) ==
  /\ task[t].at = "request"
  /\ Answer(t, {"unavailable"}
               \cup (IF task[t].op = "activate" THEN {"refused"}
                     ELSE IF task[t].token \notin valid THEN {"unauthorized"}
                     ELSE IF task[t].op = "delete" THEN {} ELSE {"ok", "refused"}),
            task[t].token)
  /\ UNCHANGED <<store, view, mount, native, server, history>>

(* The lifetime of a token is over.                                        *)
Expire ==
  /\ \E tok \in valid : valid' = valid \ {tok}
  /\ UNCHANGED <<store, view, task, mount, native, account, existing, history>>

-----------------------------------------------------------------------------
(* What a handler does next with its answer.  (Variant: a config refused   *)
(* for want of a subscription signs out.)                                  *)
NextIfRefusedToo(op, answer) ==
  CASE op = "connect" /\ answer = "ok" -> "save config"
    [] op = "connect" /\ answer = "unavailable" -> "read config"
    [] op = "activate" /\ answer = "ok" -> "save token"
    [] op = "delete" /\ answer = "ok" -> "clear token"
    [] answer \in {"unauthorized", "refused"} /\ op # "activate" -> "clear token"
    [] OTHER -> "give up"
NextAfter(op, answer) ==
  CASE op = "connect" /\ answer = "ok" -> "save config"
    [] op = "connect" /\ answer = "unavailable" -> "read config"
    [] op = "activate" /\ answer = "ok" -> "save token"
    [] op = "delete" /\ answer = "ok" -> "clear token"
    [] answer = "unauthorized" -> "clear token"
    [] OTHER -> "give up"

Receive(t) ==
  LET next == NextAfter(task[t].op, task[t].answer)
  IN  /\ task[t].at = "answer"
      /\ IF next = "give up" THEN GiveUp(t) ELSE Goto(t, next) /\ Shown
      /\ UNCHANGED <<store, mount, native, server, history>>

(* Other handlers that hold a token; those that will store something, and  *)
(* so undo what a deletion clears now.                                     *)
Others(t) == {u \in Tasks \ {t} : task[u].token # None}
Storing(u) == /\ task[u].at \in {"answer", "save token", "save config"}
              /\ task[u].op \in {"activate", "connect"} /\ task[u].answer = "ok"
Raced(t) == LET a == account[task[t].token]
            IN  IF \E u \in Others(t) : Storing(u) /\ account[task[u].token] = a
                THEN raced \cup {a} ELSE raced

SaveToken(t) ==
  /\ task[t].at = "save token"
  /\ token' = task[t].token
  /\ saved' = token'
  /\ overtaken' = (Others(t) # {})
  /\ End(t)
  /\ UNCHANGED <<config, view, mount, native, server, reported, raced>>

(* loadConfig returns: its token and answer are gone.                      *)
HaveConfig(t) ==
  task' = [task EXCEPT ![t] = [@ EXCEPT !.at = "prepare", !.token = None, !.answer = "none"]]

SaveConfig(t) ==
  /\ task[t].at = "save config"
  /\ config' = task[t].token
  /\ HaveConfig(t)
  /\ UNCHANGED <<token, view, mount, native, server, history>>

(* The last known good config, whoever it was fetched for.                 *)
ReadConfig(t) ==
  /\ task[t].at = "read config"
  /\ IF config = None THEN GiveUp(t) ELSE HaveConfig(t) /\ Shown
  /\ UNCHANGED <<store, mount, native, server, history>>

(* After 401, or a deletion, which goes on with the config.  (Variant: it  *)
(* does not.)                                                              *)
AfterToken(t) == IF task[t].op = "delete" THEN Goto(t, "clear config") /\ Shown ELSE GiveUp(t)
ClearToken(t) ==
  /\ task[t].at = "clear token"
  /\ token' = None
  /\ raced' = IF task[t].op = "delete" THEN Raced(t) ELSE raced
  /\ AfterToken(t)
  /\ UNCHANGED <<config, mount, native, server, reported, saved, overtaken>>

(* "deleted" also resets the screen, but stops nothing.                    *)
ClearConfigAs(t, cleared) ==
  LET a == account[task[t].token]
      done == task[t].answer = "ok"
  IN  /\ task[t].at = "clear config"
      /\ config' = cleared
      /\ End(t)
      /\ IF done /\ task[t].screen THEN status' = "disconnected" /\ overridden' = TRUE ELSE Shown
      /\ reported' = IF done THEN reported \cup {a} ELSE reported
      /\ raced' = Raced(t)
      /\ UNCHANGED <<token, mount, native, server, saved, overtaken>>
(* (Variant: the config is left.)                                          *)
LeaveConfig(t) == ClearConfigAs(t, config)
ClearConfig(t) == ClearConfigAs(t, None)

-----------------------------------------------------------------------------
(* VpnController and VpnRouterNativeModule.                                *)

(* "requested" opens the system's dialog; the user may agree.  Without an  *)
(* activity prepare fails.                                                 *)
Prepare(t) ==
  /\ task[t].at = "prepare"
  /\ \/ consent /\ Goto(t, "start") /\ Shown /\ UNCHANGED consent
     \/ ~consent /\ End(t) /\ Show(t, "disconnected") /\ consent' \in BOOLEAN
     \/ GiveUp(t) /\ UNCHANGED consent
  /\ UNCHANGED <<store, mount, commands, current, tun, server, history>>

(* The call returns when the command is on its way.                        *)
Send(t, command) ==
  /\ Len(commands) < MaxCommands
  /\ commands' = Append(commands, command)
  /\ End(t)

Fail(t) == End(t) /\ Show(t, "error") /\ UNCHANGED <<commands, late>>

(* The screen of another mount shows nothing of the start.                 *)
Start(t) ==
  /\ task[t].at = "start"
  /\ \/ /\ Send(t, "connect") /\ late' = (opening = "disconnected")
        /\ IF task[t].screen THEN Show(t, "connected")
           ELSE overridden' = (status = "disconnected") /\ UNCHANGED status
     \/ Fail(t)
  /\ UNCHANGED <<store, opening, consent, current, tun, server, history>>

Stop(t) ==
  /\ task[t].at = "stop"
  /\ \/ Send(t, "disconnect") /\ Show(t, "disconnected") /\ UNCHANGED late
     \/ Fail(t)
  /\ UNCHANGED <<store, opening, consent, current, tun, server, history>>

(* connect: it is under way while current is "connecting".                 *)
Opening == current = "connecting"
StartOpening ==
  /\ commands # <<>> /\ Head(commands) = "connect" /\ ~tun /\ ~Opening
  /\ current' = "connecting"
  /\ UNCHANGED <<store, view, task, mount, consent, commands, tun, server, history>>

(* onStartCommand: an open interface is kept; establish may fail; a runner *)
(* that fails leaves the interface open; disconnect closes it.  (Variant:  *)
(* disconnect only stops the runner.)                                      *)
Connected == /\ tun \/ Opening
             /\ \/ tun' = TRUE /\ current' = "connected"
                \/ ~tun /\ tun' \in BOOLEAN /\ current' = "error"
KeepInterface == tun' = tun /\ current' = "disconnected"
Disconnected == tun' = FALSE /\ current' = "disconnected"
Deliver ==
  /\ commands # <<>>
  /\ commands' = Tail(commands)
  /\ IF Head(commands) = "connect" THEN Connected ELSE Disconnected
  /\ UNCHANGED <<store, view, task, mount, consent, server, history>>

(* onDestroy: after stopSelf, or when the system takes the VPN away.       *)
Destroy ==
  /\ ~Opening
  /\ tun' = FALSE /\ current' = "disconnected"
  /\ UNCHANGED <<store, view, task, mount, consent, commands, server, history>>

-----------------------------------------------------------------------------
(* useEffect asks for the status that the service has; the call may fail.  *)
Starting == commands # <<>> /\ commands[Len(commands)] = "connect"
ReadStatus ==
  /\ opening = "asked"
  /\ opening' \in {current, "error"}
  /\ late' = (opening' = "disconnected" /\ Starting)
  /\ UNCHANGED <<store, view, task, native, server, history>>

(* Its answer arrives, whatever has been shown since.                      *)
FirstStatus ==
  /\ opening \notin {"asked", "no"}
  /\ status' = opening /\ opening' = "no" /\ overridden' = late /\ late' = FALSE
  /\ UNCHANGED <<store, task, native, server, history>>

(* App is mounted: nothing is known of the service.                        *)
Mount == /\ status' = "disconnected" /\ overridden' = FALSE
         /\ opening' = "asked" /\ late' = FALSE

(* The activity was destroyed and is opened again; the process, with its   *)
(* handlers and its service, lives on.                                     *)
Reopen ==
  /\ Mount
  /\ task' = [t \in Tasks |-> [task[t] EXCEPT !.screen = FALSE]]
  /\ UNCHANGED <<store, native, server, history>>

(* The app's process dies, its service with it, and is opened again.       *)
Kill ==
  /\ Mount
  /\ task' = [t \in Tasks |-> Idle]
  /\ commands' = <<>> /\ tun' = FALSE /\ current' = "disconnected"
  /\ UNCHANGED <<store, consent, server, history>>

Init ==
  /\ token = None /\ config = None
  /\ status = "disconnected" /\ opening = "asked" /\ late = FALSE
  /\ task = [t \in Tasks |-> Idle]
  /\ consent = FALSE /\ commands = <<>> /\ current = "disconnected" /\ tun = FALSE
  /\ account = <<>> /\ valid = {} /\ existing = None
  /\ reported = {} /\ raced = {} /\ saved = None /\ overtaken = FALSE
  /\ overridden = FALSE

Next ==
  \/ \E t \in Tasks :
       \/ Press(t) \/ ReadToken(t)
       \/ Issue(t) \/ Delete(t) \/ Respond(t)
       \/ Receive(t) \/ SaveToken(t) \/ SaveConfig(t) \/ ReadConfig(t)
       \/ ClearToken(t) \/ ClearConfig(t)
       \/ Prepare(t) \/ Start(t) \/ Stop(t)
  \/ Expire
  \/ StartOpening \/ Deliver \/ Destroy
  \/ ReadStatus \/ FirstStatus \/ Reopen \/ Kill

Spec == Init /\ [][Next]_vars

-----------------------------------------------------------------------------
StoredFor(a) == \E tok \in {token, config} \ {None} : account[tok] = a

(* mobile-api-contract.md: after a successful DELETE /api/me the stored    *)
(* access token and last-known-good config are cleared.                    *)
DeletionClearsDevice == \A a \in reported : ~StoredFor(a)

(* Nothing of a deleted account stays on the device, through any deaths of *)
(* the app and lost answers, unless an answer with a token or a config was *)
(* being taken at that moment.                                             *)
OnlyRacesLeaveData == \A a \in reported \ raced : ~StoredFor(a)

(* A token that the server accepts is not lost, unless a request with an   *)
(* older one was under way when it was saved.                              *)
ValidTokenIsKept == saved \in valid /\ ~overtaken => token = saved

(* When the first status has come, the screen says "disconnected" only if  *)
(* the tunnel is closed, or will be by the commands that are under way;    *)
(* except after a deletion, which only writes it, and after a start whose  *)
(* handler's screen is gone or that the first status did not see.          *)
NoHiddenTunnel ==
  status = "disconnected" /\ opening = "no" /\ ~overridden /\ commands = <<>> => ~tun
=============================================================================
