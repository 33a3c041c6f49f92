# A verification of the VPN Router MVP

These TLA+ modules model the stateful parts of the VPN Router: the Python
backend under `backend/app` and the Expo client under `apps/mobile-expo`. TLC checks them on
small instances, TLAPS proves the theorems listed at the end for all instances.
Every definition is translated from the source; `PROJECT.json` maps each one to
its lines.

    tlc -workers 2 -config CommercialSubscriptions_threads.cfg MCCommercialSubscriptions.tla
    tlapm CommercialSubscriptions_proofs.tla

## 1. The system

Paths are relative to the repository; `app/` is `backend/app/`.

| Component | State it keeps | Operations | What makes it correct |
|---|---|---|---|
| Subscription links (`app/api/service.py`, `app/repositories/sqlite.py`) | `commercial_subscriptions`: status, expiry, payment id per token | checkout, YooKassa webhook, manual activation, receipts beside them | no activation without a cause; what was answered is durable; days bought are kept; a paid link becomes active |
| Shared SQLite connection (`sqlite.py`) | one connection, its open transaction | execute (implicit BEGIN), commit | nothing answered depends on another thread's transaction |
| YooKassa (`app/services/yookassa.py`) | payments, at the provider | create_payment, fetch_payment, notifications | (external) |
| Node health (`app/domain/health_checker.py`, `models.py`) | status, health, score, success rate, latency of a node | probe, evaluate, filter usable nodes | dead nodes are not served; disabled ones stay out; reachable ones come back |
| Health-check worker (`app/services/health_worker.py`, `app/cli/health_check.py`) | the nodes it listed, the time of its newest probe | run_once, prune | works beside administrators; keeps audit events as long as promised and no longer |
| Node administration (`service.py`) | `nodes`, `admin_audit_events` | POST, import, DELETE, PATCH of nodes and health | every answered change has its event; a disabled node stays disabled |
| Accounts (`service.py`, `app/security/tokens.py`, `app/services/receipt_verifier.py`) | `users`, `subscriptions`, bearer tokens | sign-up, receipt, me, export, delete | a token answers for one user; a deleted user leaves nothing |
| In-memory repository (`app/repositories/memory.py`) | the same tables as dictionaries | the same | the same, with no lock at all |
| Rate limiter (`app/api/rate_limit.py`) | a deque of times per client | allow | no race does lasting harm to the limit; nobody is refused below it |
| Exchange rates (`app/services/exchange_rates.py`, `app/domain/coins.py`) | cached rates, their time, a lock | coin_amount | fresh rates when the source answers; it is not asked too often; nobody waits for ever |
| Client configs and subscriptions (`app/domain/config_builder.py`, `config_validation.py`, `node_selection.py`, `node_scoring.py`, `rules_engine.py`, `v2ray_subscription.py`) | none: a function of the table | select, build, validate | no node takes the config from all clients; a config refers only to what is in it; better nodes are not dropped; names are resolved the way they are routed |
| HTTP server (`app/api/server.py`) | none between requests | do_GET, do_POST, do_PATCH, do_DELETE | each request answered once |
| Node definitions (`app/domain/vless_parser.py`, `app/cli/import_vless.py`) | none | parse a link, seed the table | - |
| Settings, factory, pages, QR codes, tools, `setup.sh` | none | - | - |
| Expo client (`apps/mobile-expo/src`) | tokens and config in secure storage, the screen's status | sign in, restore, load config, connect, delete account | nothing of an account survives its deletion |
| Native VPN (`apps/mobile-expo/modules/vpn-router-native`, `apps/android`, `apps/ios`) | tunnel, core, status | connect, disconnect | the status shown is that of the tunnel |

How they interact. `ThreadingHTTPServer` runs each request on a thread of its
own; all threads call one `ApiService`, which calls one repository, which has
one SQLite connection (opened with `check_same_thread=False`). The service
calls YooKassa over HTTP inside a request; YooKassa calls the webhook and
repeats it until it gets a 200. The health-check worker is another process,
started by a systemd timer, on the same database file. Mobile clients poll the
API for a config built from the usable nodes.

What is hard here: (1) transactions belong to the connection, so threads begin,
commit and fail in each other's; (2) several handlers are read-compute-write
with no lock; (3) the worker acts seconds later on rows it read before;
(4) the process may die, and answers may be lost, between any two commits;
(5) webhooks are late, repeated or about payments that failed; (6) scores and
rates are floats, compared to thresholds, with feedback from one probe to the
next; (7) clients await the network while the user signs out. The list of
hazards with their lines is in `PROJECT.json`.

## 2. The modules

    SharedConnection ----> CommercialSubscriptions ---> MCCommercialSubscriptions
                              |  refines                CommercialSubscriptions_proofs
                              v
                           SubscriptionLifecycle
    SharedConnection ----> Accounts ----------> MCAccounts, Accounts_proofs
                              |  refines
                              v
                           AccountRegistry
                              ^
                              |  refines, for devices with one request at a time
                           MemoryRepository --> MCMemoryRepository, MemoryRepository_proofs
    NodeHealth --+-------> NodeRotation ------> MCNodeRotation, NodeRotation_proofs
                 +-------> NodeFleet ---------> MCNodeFleet, NodeFleet_proofs
                 +-------> ClientConfigs -----> MCClientConfigs, ClientConfigs_proofs
    RulesEngine -+
    RequestThreads --+---> RateLimiter ---+
                     +---> ExchangeRates -+---> Invoices ---> MCInvoices, Invoices_proofs
    MobileClient -----------------------------> MCMobileClient, MobileClient_proofs

The lemmas on the evaluator are in `NodeRotation_proofs`; `NodeFleet_proofs` cites them
through an instance of it.

### SharedConnection
Operators on a connection `[view, disk, open]`: what a SELECT returns, what a
restarted process would find, whether a transaction is open. Python's `sqlite3`
looks at the connection before a data-changing statement and runs BEGIN when no
transaction is open; `commit()` looks again before COMMIT. Threads interleave
between the look and the statement, so a BEGIN or a COMMIT may fail because
another thread was faster, a statement may run in another thread's transaction,
and it may be committed on the spot if that one has just ended. (These outcomes
were confirmed by running `sqlite3` with several threads on one connection.)

### CommercialSubscriptions
Every request is a thread with a program counter `pc[t]` and its local
variables `req[t]`. A step is what happens between two points where another
thread can be observed:

| Action | Code |
|---|---|
| `StartCheckout`, `StartWebhook`, `StartAdminActivation` | the request has been parsed by `checkout`, `yookassa_webhook`, `admin_activate_commercial_subscription` |
| `StartReceipt`, `StartDeletion` | `auth_receipt` with any device id a client has, also a link's token, and with a YooKassa payment or another store's receipt; `delete_me` |
| `StartOther`, `ViolateConstraint` | any other writer of the connection (`auth_init`, the administration of nodes); the IntegrityError of a statement leaves the transaction open |
| `FetchPayment` | `fetch_payment` and the tests of what it answers, of `yookassa_webhook` and of `_verify_yookassa_claim` (`ReceiptMatches`) |
| `SelectSubscription` | `get_commercial_subscription` and the SELECT of `activate_commercial_subscription` |
| `ExecuteStatement`, `BeginTransaction`, `WriteStatement` | one `connection.execute` of a data-changing statement |
| `LookBeforeCommit`, `CommitTransaction` | one `connection.commit()`, and what the handler does next (`AfterCommit`) |
| `CreatePayment`, `RefusePayment` | `create_payment` of a checkout |
| `Respond` | the answer reaches the client |
| `AbandonRequest` | a call fails, or the client is gone |
| `Crash` | the process dies and restarts |
| `CreateDevicePayment`, `Settle`, `Tick` | the surroundings: payments for devices, customers paying, time |

The state of the code is `db` (the tables `subs`, `audit`, `accounts`); the rest
is YooKassa's (`payments`), the threads', or history that only properties read
(`issued`, `granted`, `vouched`, `acked`, `asked`, `drawn`, `claimed`, `forgotten`).

`accounts` has two writers, the webhook and `auth_receipt`, and one that removes. A device id
is any string a client sends, so `Devices` are those that are no token of a link, and
receipts and payments for devices also take the tokens that were `issued`: with a
link's own payment and token, `auth_receipt` does make a mobile account of the token's
name, beside the link. `claimed` are the tokens that a client has sent so.

Abstractions. The webhook's two SELECTs of one row are one step: rows are never
deleted, and the row's status does not matter to the branch between them.
`activate_subscription` writes two rows in one transaction; one statement stands
for both, as one does for their deletion (`Accounts` has them apart). Reads after a commit (to build the answer) change nothing. Tokens are
fresh (32 random bytes) and known only to whoever received the checkout's answer.
The clock is in days, as the tariffs are. A statement may also fail because the
worker process holds the file's lock; this is one of `AbandonRequest`'s cases and
leaves the transaction open, as the code does.

`Repository` is "sqlite" or "memory". The in-memory repository keeps the same rows in dictionaries
and a list; its writes are assignments, which every thread sees at once, like statements of
a connection on which no transaction is ever open. So with "memory" no statement is preceded by BEGIN,
none fails, `db.open` stays false, `db.disk` equals `db.view` and `commit` has
nothing to do. "Durable" then means: for as long as the process lives. A restart would lose the
tables; the behaviours with "memory" end before it (no `Crash`). The runs are those of
the deployed system, with "sqlite"; the theorems cover both, and a config of `threads` with
`Repository = "memory"` passes too.

### SubscriptionLifecycle
What the handlers promise to whoever does not look at threads and statements: a
link is absent, then pending, then active for good, one stage at a time; it is
active only if somebody is entitled to it; nobody can be entitled through a link
that is not recorded. `CommercialSubscriptions` implements it under the mapping
from `db.disk`.

### Accounts and AccountRegistry
The mobile side of the same connection, split at the same points: `SelectUser`
is the SELECT of `get_or_create_user`, `Authorize` the lookup of a bearer
token's user, the statement actions are the INSERT of a user, the upsert of a
subscription and the DELETE, each with its commit. A receipt or a webhook of a device
is two statements with two commits. `ConstraintsHold` is the schema: one user
per device, no subscription without its user (`PRAGMA foreign_keys`); a
statement that breaks it ends the request with the transaction still open. A
receipt's answer carries the token; `auth_init`'s and a webhook's do not. Expiry
dates are abstracted to having a subscription. `AccountRegistry` is the promise
without threads: one account per device, a subscription lasts as long as its
account, an account only goes when its holder has asked.

### NodeHealth
`NodeHealthEvaluator.evaluate`, `VpnNode.is_usable` and the two ways a row is
changed (`update_node_health`, `enabled`) as pure operators. The success rate
is a float rounded to four digits: here an integer of 1/10000, and the numbers
before rounding are exact integers of 1/1000000 and 1/30000. Floats differ from
exact arithmetic only at boundaries: `round` at a tie may go either way, and
`int()` of what should be a whole number may be one less. Both are sets of
outcomes (`Rounded`, `Scores`), so that whatever the float does is allowed.
(Compared with the Python code over all rates.)

### NodeRotation
One node, probed any number of times. There is no bound on the number of probes
and none on the rates: the run visits every value that the smoothing reaches. Two history
variables: `answered`, and `streak`, the prompt answers in a row since an administrator's
report last overwrote the score (counted up to 4; enabling and disabling do not end one).

### NodeFleet
The nodes table between its two writers. The worker's `run_once` is split at
each of its commits; an administrator's request reads a node, computes the whole
row, writes it, records an audit event, answers. The shared connection appears
as `locked`: a refused upsert leaves the API's transaction open, which fails the
worker's next write, until some API request commits. Its finer races are
`SharedConnection`'s. Node ids come from the seed or from a POST, nodes are
never deleted. `Quiet` is the idle system, so that deadlock can be checked.

### MemoryRepository
`VPN_ROUTER_REPOSITORY=memory`: accounts in three dictionaries, no lock. One
action is one operation on a dictionary, which is what the interpreter keeps
whole; threads switch between any two. `get_or_create_user` is up to four of
them, `delete_user` three. `alone` are the devices whose app waits for an answer
before it sends the next request: for those the dictionaries behave like
`AccountRegistry` (a refinement mapping that looks at their accounts only),
although other devices' requests run in between. For the others two promises do
break, and the properties say so by their condition: a second first request may
take the device away from an account whose token was just handed out, and a
payment that overtakes a deletion leaves a subscription without an account.
The repository's links are in `CommercialSubscriptions`; its nodes repeat SQLite's logic in
single assignments and are left out; a restart is `Init`.

### RulesEngine and ClientConfigs
The table of nodes and the two documents made of it. A node is what selection
and conversion look at: status, health, score, rate, latency, priority, protocol,
tag, and which of its options are there (`raw_url`, all `fields`, `incomplete`,
another protocol's `own`, `none`). Every writer of the table is an action with
what it lets in: `_node_from_payload`, `parse_vless_url`, `admin_patch_node`,
the seeds and the environment. `Config` is the sing-box config reduced to what
refers to something; `Links` the subscription. `SortedBy` is
Python's `sorted`: the row at place i is the one that i - 1 others precede (the keys
end in the tag, which no two rows share). `RulesEngine` has the rules: a
host is the set of list entries that match it, and `Target` is how sing-box reads
a list. Scores are exact integers (10000 times `node_score`); the instance has no
two different sums that are equal, where a float might order them either way.

Worth knowing, as the module shows it: a POST of a node of another protocol
drops its options, and an imported label may be `auto` or `direct`; either makes
every config 503 while that node is among the preferred. A node that was never
probed has no latency and pays no penalty for it, so that it ranks above equal
nodes that answered. Slugs of different labels may coincide, in which case an
import replaces the other node. Nodes of the environment are ignored once the
table has any.

### RequestThreads, RateLimiter, ExchangeRates, Invoices
`RequestThreads` is the clock that all threads read. `RateLimiter.allow` takes
no lock: `LookAtBucket`, `PeekHead`, `PopHead`, `Count`, `AppendHit` are its
operations on the deque. Two calls of a client may both count below the limit,
and both may see an expired head that only one can pop (the other one pops a
younger hit, or meets IndexError and its request ends without an answer).
Two histories are kept for the properties: `admitted`, the hits a client was allowed
in the order it was allowed them, and `overlapped`, when a call of the client last
ended beside another one. `Calm` is a window without such an end. A hit bears the time its call
began, so that with overlapping calls the deque need not be in order, nor hold all
that still counts.
`ExchangeRates` is the cache under its lock: `Acquire`, `CheckAge`, `Refresh` or
`KeepRates`, `ReadRate`. A rate is represented by the time it was quoted. A
provider set to `fixed` is one that never answers, which is why an invoice then
shows no amounts (`CRYPTO_USDT_RATE_RUB` of .env.example is read by nobody).
`Invoices` composes them: a GET of an invoice passes the limiter and asks for one
coin after the other; other pages pass the limiter only. A page may show amounts
of two different fetches, and a failing provider costs each of its coins up to
8 seconds under the lock that all pages share.

### MobileClient
The Expo app: two or more button handlers of `App.tsx` under way, each split at
its awaits (`ReadToken`, the request and its answer, `SaveToken`, `SaveConfig`,
`ClearToken`, `ClearConfig`, `Prepare`, `Start`, `Stop`). The buttons share one
busy state, which any handler's end clears, so any two may overlap, also the same
one twice; only Connect and Disconnect depend on `status`. The store is two keys.
The server is its accounts and tokens, which may expire at any moment; an answer
may be lost after the request was carried out. `config` is
represented by the token it was fetched with. `initUser`, `createYooKassaPayment`,
`refreshVersion` only change what is displayed.

The Android service gets its intents later, in order (`Deliver`). Opening the interface takes
two steps, because `VpnRouterStatus.current` says "connecting" meanwhile (`StartOpening`);
establish may fail, and a runner that fails leaves the interface open with the
status "error". The runner that is bundled always fails, the model allows one that
starts, too. `Destroy` is `onDestroy`: after `stopSelf`, or when the user or the system
takes the VPN away. The service outlives the screen: `Reopen` destroys the activity and mounts
the App anew, with the status "disconnected", while service, tunnel and the
handlers of the old screen live on (their `setStatus` does nothing any more, `screen`). The mounted App asks
for `current` (`ReadStatus`, or "error" when the call fails), and shows the answer when it comes
(`FirstStatus`), over whatever a button has shown since. `Kill` ends the process at any point,
with its service; what START_STICKY restarts then gets a null intent, which does
nothing. The histories `late` and `overridden` note when
"disconnected" may stand on the screen over a start it has not seen: one sent by a handler
of a former screen, or while the answer with the first status was on its way.

Assumed: the secure store does not fail, and consent that was given is not revoked (the tunnel may be).
A handler that the system cuts off with its activity is one that never goes on.

## 3. The runs

| Run | What it asks | Instance |
|---|---|---|
| `threads` | do two requests in each other's transactions keep every promise? | 2 threads, 2 tokens, a device, a payment, one receipt or deletion, one failure |
| `serial` | do renewals add up, and does a paid link become active, when requests do not overlap? | 1 thread, durations 1 and 2, 3 deliveries, 2 failures, 2 days |
| `lost_extension` | finding: two renewals at the same time | 2 threads, 1 token |
| `accounts` | can sign-ups, receipts and deletions get in each other's way? | 2 threads, 2 devices, 3 user ids, one failure |
| `memory` | the same without lock or transaction | 3 threads, 2 devices, 3 user ids |
| `probes` | which nodes are served, and do they come back? | latencies 0, 170 and 600 ms, all rates |
| `overlap` | what can undo a disable? is every change audited, and kept as long as promised? | 1 node, 2 requests at a time, 2 in all, 2 worker runs, days 0 to 2, retention 1 day |
| `resurrection` | finding: a disabled node comes back | 1 node |
| `configs` | which requests can take the config from the clients? what is in it? | 4 nodes, 6 tags, 2 changes from any table of seeds or environment, 2 preferred |
| `invoices` | what do races do to the limiter, how old are rates, does every request end? | 2 threads, 3 requests, limit 1, window 1, 2 coins, times 0 to 2 |
| `mobile` | what does a deletion leave, when is a token lost, is the tunnel visible? | 2 handlers at a time, any number in all, 2 tokens, 2 commands, any number of mounts and deaths |
| `deletion` | finding: a config is stored after the deletion | 1 token |

The bounds. `MaxTime`, `MaxDeliveries`, `MaxAdmin`, `MaxClient`, `MaxRuns`, `MaxFailures`
bound the clock, deliveries of a payment, administrators' requests, receipts and deletions, worker runs,
and crashes or failing calls; they appear only in guards. Two threads are enough
for a race between any two kinds of request, one failure for a crash between any
two statements; `memory` has three threads because a deletion between two others'
steps is the case there; two tokens let one request hold a link that another one's COMMIT
publishes; three user ids let a device come back after a deletion while another
one signs up. 2 days and retention 1 reach the boundary of the strict `<` in the
pruning from both sides. The latencies are a prompt, a slow and a useless one
(600 ms costs 50 points); 170 ms is the whole number used in the promise: with
the lowest rate the score of an answer within 170 ms is 35 - 14, still at 20 or
above. In `configs` two changes after any start reach a refused tag, a node
posted and then patched, and a report after an import; two preferred of four
nodes make ranking matter. In `invoices` times 0 to 2 with window and cache of 1
put a hit and a rate on, before and after the boundary; a third request meets
what two that overlapped have left. In `mobile` `MaxTokens` 2 is an old and a new
token, of one account or of two; `MaxCommands` bounds intents that wait, not those
that are sent. `SecondTokenAtRest` keeps the two questions of that run from
multiplying: once a second token is issued, the tunnel is closed, no command waits and no
handler of a former screen is left; with one token everything happens together. The proofs below do without any of these bounds. Symmetry is used in
safety runs only, over model values that are only compared.

Fairness. In `serial`, each running handler continues (a request has a thread of
its own and every call in it returns or raises) and YooKassa redelivers a
notification until it is answered with 200 (its documented behaviour, which the
handler relies on): strong fairness, because the thread that would take it may be busy again
and again. Failures are bounded, time and customers need not do anything. In `invoices` each thread's
next step is weakly fair: the fetch has a timeout of 8 seconds, the lock is free
again after it, and with the request bound a thread cannot be overtaken for ever;
nothing makes the clock move or requests come. In `probes`, the worker's check is repeated (the
systemd timer); links and administrators are not fair.

### The properties

- `ActivationHasCause`: an active link was paid for (a payment for this very
  token that YooKassa says succeeded), vouched for, or sold by a mock shop.
- `PaymentHasDurableToken`: no payment exists for a token that a restarted
  server would not know.
- `TokenAccountsAreClaimed`: a link's payment does not become a mobile account by
  itself: one with a token's name is there only if a client sent the token as its
  device id with a receipt. The webhook, which tells links from devices by whether
  the row is there at that moment, makes none.
- `AnswersAreDurable`: what was answered with 200 is on disk, although the
  COMMIT that put it there may have been another thread's.
- `ImplementsLifecycle`: the refinement.
- `GrantedDaysAreKept`, `ExpiryNeverMovesBack`: renewals add up. True of requests
  one after another (`serial`), false of two at the same time (`lost_extension`); the
  proofs say how far apart two must be.
- `PaidLinkBecomesActive`: liveness, through lost answers, crashes, errors.
- `HoldersKeepAccount`: who holds a bearer token has an account and a
  subscription on disk until asking for their deletion.
- `DeletedIsGone`: after 200 `{"deleted": true}` nothing of the account comes
  back, not even from a receipt that had looked the user up before.
- `ImplementsRegistry`: the refinement of `AccountRegistry`.
- `ServedNodesAnswered`, `ProbesNeverEnable`, `PromptAnswersNeverDisable`,
  `ReachableNodeIsServed`: the worker's verdicts over any history of probes.
- `FourAnswersServe`: from the lowest rate and score there are, four prompt answers
  in a row bring a node that is not disabled back into the configs; three do not.
  That is how long PATCH `enabled`, which resets neither, may leave it unserved.
- `OnlyOverlapRevives`: a node whose disabling was answered is only ever served
  again if the worker run that was under way at that moment brings it back, or
  another administrator does. Two requests at one node at the same time are
  last-writer-wins and are left out.
- `AnsweredChangesAreAudited`, `RetentionIsEnforced`: the audit trail, from both
  sides; the second for runs that had a node to probe.
- `NoDanglingDevice`: no interleaving in the dictionaries leaves a device with a
  user that is gone, which would answer it with errors for good.
- `ProperNodesServe`: a config is served whenever a node is usable, unless one of
  the preferred came from a POST of another protocol or has a reserved or empty
  tag. No sequence of imports, patches, reports can take it from the clients.
- `UsableNodesAreLinked`: the subscription has each usable VLESS node once.
- `ServedConfigsAreClosed`: tags are unique and every reference resolves.
- `BetterReportsKeepNodes`: a report that is better in every respect never drops
  a node from the preferred, through clamping, ties and the limit.
- `NamesFollowRoutes`: what is resolved by the Russian DNS server is routed
  directly, and the other way round except for hosts only a rule set knows
  (those are resolved through the VPN and then reached directly).
- `OvershootIsBounded`: the count of a client's hits and the append of a new one are
  two steps, so that overlapping calls exceed the limit; but its deque never holds more
  than the limit and one hit for each other thread, however often they overlap.
- `LimitHoldsWhenCalm`, `RefusalsAreEarned`: a window after overlapping calls the
  limit is exact again, from both sides. While they overlap it is not: both may
  pass. `OnlyCrossedCallsFail`: IndexError takes a crossing.
- `QuotesAreFresh`, `AnswersAreSpaced`, `RequestsEnd`: the cache.
- `OnlyRacesLeaveData`: a reported deletion leaves neither token nor config of
  the account on the device, through deaths of the app and lost answers, unless
  a token or a config of it was just being stored.
- `ValidTokenIsKept`: only a request that held an older token when a new one was
  saved can take that from the store while the server accepts it.
- `NoHiddenTunnel`: once the first status has come, the screen does not say
  "disconnected" over an open tunnel, however often the App is mounted over the living
  service. Excepted are a deletion, which sets the screen and stops nothing, and
  a start that the screen could not see (see `late` above): the code asks for the status
  once per mount and never again.

### Findings

1. `lost_extension`: `activate_commercial_subscription` (sqlite.py:194-220) reads
   an expiry, adds to it, writes it. Two activations of a link at the same time
   keep the days of one (as they do in memory.py:118). The test `test_sqlite_repository.py:59` expects the
   second to extend the first.
2. `resurrection`: the worker (health_worker.py:55) writes back the status it
   read before its probes; a node disabled in between is active again, against
   README.md:162.
3. `deletion`: `loadConfig` (configRepository.ts:26) stores the config it was
   answered although `deleteAccount` has cleared the store in between, against
   docs/mobile-api-contract.md:148.

Divergences from the docs that need no run, because they show in one line:

- `is_usable` (models.py:135) accepts draining nodes for new configs, against
  docs/node-scaling.md:178.
- PATCH `enabled` (service.py:511) leaves score and rate as they are, so the node
  may stay unserved until it has answered a few probes, against docs/3x-ui-import.md:78.
- A worker run with no node to check prunes no audit events (health_worker.py:85),
  against docs/operations.md:23; a fleet that is disabled altogether keeps them.
- A 401 or 403 does not stop a running VPN (configRepository.ts:30-36), and
  neither does a deletion (App.tsx:133-136), which also sets the screen to
  "disconnected", against docs/mobile-api-contract.md:155-156.

## 4. The proofs

`CommercialSubscriptions_proofs` proves, for any sets of tokens, devices,
payments, threads and durations, each checkout mode and every bound,
`TypeCorrect`, `EveryActivationHasCause`, `EveryPaymentHasDurableToken`,
`TokenAccountsNeedClaims`, `EveryAnswerIsDurable` and `Refinement` (that
`Spec` implements `SubscriptionLifecycle`), each for both repositories. They assume only what the module
assumes: `Devices` are the strings that are no tokens, `None` is neither, tariffs last at least a day.

None of these is inductive. That an answer is durable, say, depends on what the
thread knows at each of its statements: at `commit` the row is visible, at
`respond` it is on disk - but between the two another thread may have committed
it, or its own COMMIT may have failed. The inductive invariant `IInv` says this:
`Shape` (what the locals of a request are at each location), `ViewAhead` (the
view is ahead of the file by one stage at most, and not at all when no
transaction is open), `RequestSound` (what each request may rely on at the
statement it has come to: nobody else inserts its token, the row it updates is
durable and has a cause), `Caused`. The proof takes one lemma per
group of actions; `SoundOfOthers` carries what a request relies on over the
steps of the others, because the links' rows and what is known about payments only grow
(accounts go only after they were asked to be `forgotten`).
The refinement follows: a step that changes the file is a commit or an
autocommit, and `ViewAhead` with `Caused` says which stages it moves.

Whether renewals add up depends on a condition, since `lost_extension` shows that it
does not hold of `Spec` alone. `TimeIsNeverLost` has `[]NoRacingUpdates` as
its hypothesis: no two requests are between the SELECT and the UPDATE of the same link
at the same time. That is the race of `lost_extension` and no more: everything else may
happen, any number of requests, also for that link, foreign
BEGINs and COMMITs, failed statements, restarts. Then no step lowers an expiry on disk.
`TimeInv` says why: the view is never behind the file (`TimeAhead`), and what a request
is about to write is at least what the row has, days included (`TimeSound`).
`DaysAreKept` concerns what was answered, so its hypothesis `[]OneRequestPerLink` reaches
from a request's SELECT to its answer, for one link at a time: then every
activation that was answered has its days on disk. `DaysInv` counts what a request
owes between its write and its answer. Runs of one thread (`serial`) satisfy both
hypotheses, as do runs of any number of threads on links of their own.

`NodeRotation_proofs` proves, for any latencies and any reports, `TypeCorrect`
(scores and rates stay in range through any float outcome), `ServedAnswered`,
`OnlyAdminsEnable`, `PromptAnswersHelp` (the score of a prompt answer is at least 20
from any rate) and `FourAnswersAreEnough`, the safety core of
`ReachableNodeIsServed`: its invariant `Climbed` says how far the rate has come after
each answer (0.35, 0.5775, 0.7253, and the fourth passes 0.75, in spite of the rounding). They rest
on lemmas about the arithmetic of the evaluator (`SmoothedRange`, `RoundedRange`, `ScoresRange`,
`PromptScores`, `PromptVerdict`).

`NodeFleet_proofs` proves, for any nodes, threads, retention time and bounds,
`TypeCorrect`, `DisabledUnlessOverlapped`, `ChangesAreAudited`, `RetentionHolds`.
The invariant says what worker and requests rely on: `Dated` (the newest probe
lies between the start of its run and now, so the cutoff is neither too early for
what is due nor too late for what is not), `Recorded` (the events of answered and
of answering requests are there or too old), `Crossing` (requests at one node know
of each other), `HeldAlone`, and `Disabling` with `HeldSafe`: a node that was disabled is
`Safe`, which means that the row says so and that nothing in the run's snapshot or
in its verdict says otherwise. Without the part on the snapshot it is not inductive.

`Accounts_proofs` proves, for any devices, users, threads and failures,
`TypeCorrect`, `HoldersAreKept`, `DeletionsAreFinal` and `Refinement`. The invariant:
`TablesSound` (view and file satisfy the schema, and every account in the file is
in the view too, or is being deleted), `FreshSound` (an id drawn is in no table
and nobody else's until its INSERT), `SignUpSound`, `DeleteSound` (what a request
knows of its user's rows at each statement). `OthersSound` carries what the other
requests know over a step of one thread (`OneStep`); the refinement follows from how
such a step may change the file. Assumed: `None` is no user and no device, and
`MaxFailures` is a number.

`MemoryRepository_proofs` proves `NothingDanglesEver`, `HoldersAreKept`,
`DeletionsAreFinal` and `DictionariesImplementRegistry`. There is no transaction,
so the invariant names every state between two dictionary operations: `Owned` (both
dictionaries name the owner of an account), `FreshSound` (how much of its account a
running sign-up has entered), `AloneFound` (a device that sends one request at a time
finds its account, or is just entering it), `DeleteSound` (how much a running deletion
has removed). `OneAccountEach` is
the step to the refinement, for devices with one request at a time.

`Invoices_proofs` proves `EveryQuoteIsFresh`, `EveryAnswerIsSpaced`,
`OnlyCrossingsFail`. For the cache: under the lock nobody else changes the rates,
so that what a thread has looked up holds until it lets go (`LookupSound`,
`RatesDated`). For the limiter: every crossing is noted by both sides
(`CrossingsNoted`), and a call that nobody crosses finds the bucket as it left it
(`UncrossedSound`). Assumed: `None` is no number and no thread.

`BucketsAreBounded` needs to know of the calls that have counted and not yet appended:
`RoomTaken` adds them to the hits in the deque. A call that finds room makes one more of them,
at a moment when the deque is below the limit and there are no more calls than threads; its append
turns it into a hit (`OtherSteps`: no other step raises the sum). Assumed: there are finitely many threads.

It also proves `LimitReturns` and `RefusalsEarned`, for any limit, window and number
of threads: the limiter, which races may leave with hits dropped too early, out of order or
beyond the limit, is exact again a window after the last overlap. The properties speak of
the past and the code of the deque, so the invariant (`HistoryInv`) says how the two are
related. `LogSound`: the deque is the end of the log of allowed hits; a hit that is no longer in it, a
pair out of order, one hit too many in a window all lie before the last overlap (or, the first,
out of the window). `Crowded` is the exception for calls that are side by side right now:
their overlap is recorded only when one of them ends. `CallSound` is what a call may rely on if
nobody crosses it: the head it is about to pop is expired, the one it counts behind is
not, and there is room when it appends; a crossed call will leave an overlap behind.
`RefusalSound` keeps the second property for as long as a refusal waits to be
taken. The clock, as `RequestThreads` has it, does not go back.

`MobileClient_proofs` proves `DeletedDataIsGone`, `ValidTokenStays` and `TunnelIsShown`
for any number of handlers, tokens and commands. The invariant: `Located` (what a
handler holds at each place), `Told` (a handler that was told "unauthorized" or
"deleted" holds a token the server will never accept again), `Latest` (the token saved
last is the one in the store and in every handler, while it is accepted and was not
overtaken), and `Half` and `Cleared`: once a deletion has cleared the token nothing of
its account is stored again, unless an answer was being taken then. For the tunnel,
`Consented` and `Closing`: the last command under way decides; `Claimed`: what the screen
says, or will say when the first status arrives, is "disconnected", and no start was missed. A mount
claims nothing until the service has answered, and `current` is "disconnected"
only while the interface is closed. Assumed: `None` is no
number, and the bounds are numbers.

`ClientConfigs_proofs` proves, for any number of nodes, tags, priorities, reports and
any number of preferred nodes, `NodesAreLinked`, `NamesAgree`, `ProperNodesAreServed`,
`ConfigsAreClosed` and the action property `BetterNodesStay`. The inductive invariant
(`TableAdmitted`) is what every writer of the table keeps up: rows are filed
under their own id, no two share a tag, a VLESS row has a link or all its fields, another row has
none of a VLESS row's options. The work is in the lists made of such a table. `Sorted`: under keys that
order the rows strictly, `SortedBy` has each row once, and its place is the number of
rows before it; `Precedes3` and `Precedes4` spell out how Python compares the tuples
that are the keys. From it follow who is linked (`LinksRows`) and who is preferred
(`PreferredRows`). `OutboundNames` says when the outbounds' tags are distinct, `ServedWhen`
when the validation lets a config pass, `RouteRules` and `DnsRules` which lists
`RulesEngine` makes. For `BetterNodesStay`: an update that is no worse in score,
rate and latency does not lower `node_score` through its clamping (`BetterScore`), hence
lets no other row come before it that did not before (`BetterPlace`). Assumed: the
tags the program ships or takes from its settings are neither empty nor reserved and differ from one another, latencies
include the four of the seeds, and reports have scores of 0 to 100, as
`admin_update_node_health` checks.

Type correctness (`TypeOK`, `RatesTypeOK`, `LimiterTyped` and so on) is proved of every
state machine; of the runs only `threads` and `probes` check it, the others leave it to the proofs, where
it is the first conjunct of every inductive invariant.

Only model-checked: liveness (`PaidLinkBecomesActive`, `ReachableNodeIsServed`,
`RequestsEnd`), which is out of TLAPS's reach; of the second, `FourAnswersServe` is the part that
can be proved. Every other property of a passing run has
a theorem. The two on renewals have theirs under a hypothesis, as above.

## 5. Not modelled

Text: JSON and vless:// output, HTML pages, QR codes, logs, parsing of links and
of settings. Routing and headers. Settings are read once: they are the CONSTANTS. Deployment
scripts and tools. Reads that change nothing (metrics, lists, subscription
bodies) are not actions. The in-memory repository's nodes. The iOS
sources, whose behaviour is that of Apple's tunnel manager, and the standalone
Android app, one activity around a library that the repository does not contain.

What is left to do: the standalone Android service against the life cycle of
its tunnel.
