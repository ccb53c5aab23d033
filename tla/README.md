# Verification of the live-graph agent and its gateway

The repository holds two Python programs:

- `src/ui-agents/s13code` ("S13Core"): an agent service. A request becomes a
  *run*: a durable task graph that a planner extends by small patches while an
  executor runs ready tasks. Around it: an A2A task server and client, a memory
  store, an event stream and a composed page for user interfaces.
- `src/glc_v3/glc` ("GLC"): the gateway the agent calls for language models
  (routing between providers, rate limits, cache) and through which messaging
  channels come in (pairing, allow list, rate limit, audit, adapters).

Section 1 is the inventory of both, section 2 the plan and what is left of it,
section 3 describes the modules, section 4 the runs, bounds, fairness and
findings, section 5 the proofs, section 6 what is only model-checked, and
section 7 what is abstracted, with the behaviours of the code that a reader of
the properties should know of.

Source paths are relative to `src/ui-agents/s13code` unless they start with
`glc/` (then to `src/glc_v3`).

## 1. Inventory

| Component | State | Operations | What makes it correct | What is hard | Module |
|---|---|---|---|---|---|
| **Graph store** `core/live_graph/store.py` | SQLite tables `nodes`, `edges`, `events`, `patches`, `runs.finished` | `start`, `resume`, `mark_running`, `record_outcome`, `apply_patch`, `record_external_event`, reads | a task has one outcome; an event has one patch; a finished run is closed for good | two executors; crash between two transactions; a patch of several lists | `GraphStore` |
| **Executor** `core/live_graph/core.py` | in-flight futures, per call of `run()` | replay, launch, wait, record, plan, cancel, return | bounded work, nothing lost, nothing left, returns | awaits; late results after a cancellation; resume beside a live run | `LiveGraph` |
| **Planner and workers** `runtime.py` | the request, the graph it reads | one patch per event; workers | patches always fit; evidence before synthesis; the request is answered | outcomes in any order, failures, replay against a newer graph | `AgentRun` |
| **Constrained planner** `planner.py` | none | asks a model, falls back to the deterministic planner | - | malformed answers | - |
| **A2A task server** `core/a2a_adapter/server.py` | task objects and rows, `_jobs`, push ledger | `send`, `stream`, `cancel`, `get`, `start`, `close`, push with retries | every task ends once and its end is reported | cancellation against completion, lost replies, restart | `A2ATasks` |
| **A2A bridge and official binding** `core/a2a_adapter/official.py`, `grpc_binding.py`, `client.py` | remote ids and results (memory) | dispatch of a waiting node, follow, wake, cancel, result | a waiting node is woken by the end of its own remote task | restart loses the ids; the run may have finished; cancellation against a late end | `A2ABridge` |
| **Card trust, schema** `core/a2a_adapter/trust.py`, `schema.py` | none | validation of one document | pure functions | - | - |
| **Memory store** `core/memory/store.py` | `records`, documents, full-text table, audit records, vector index | `write`, `ingest_document`, `recall` | one current version; what was returned is kept and audited; the index agrees with the table | a raise leaves statements in the open transaction; index freshness; the process dies between commit and index | `MemoryStore` |
| **What a run keeps in memory** `runtime.py`, `routes.py`, `main.py` | episodes, facts, answers beside the graph | remember, recall, answer, POST, A2A task | evidence is of others, not of the run itself; an answer returned is kept | two databases; crash between them; concurrent runs | `RunMemory` |
| **Chunking** `core/memory/chunking.py` | pending suffix, chunks | cut, ask for a second topic, roll over | every unit is in exactly one chunk, in order | quotes repeated in a block; a model that invents; a cut inside a word | `Chunking` |
| **AG-UI stream** `ui/agui.py`, `ui/routes.py`, `ui/client` | the client's fold of the journal | stream, snapshot, reconnect | a viewer sees only what was true, and the end | patches are not idempotent; a snapshot newer than the stream's read | `LiveView` |
| **Composed page** `runtime.py`, `ui/validator.py`, `ui/routes.py`, `ui/client` | the page's turn, result of the compose step | run, compose, validate, append, serve, paint, tap | a claim's warrant is drawn, as the run earned it | a model's reply; poisoned labels; retries after a failed paint | `ComposedTurn` |
| **Surface content, catalog** `ui/surfaces.py`, `ui/catalog.py` | none | layout data | - | - | - |
| **Provider routing** `glc/routing.py`, `glc/routes/chat.py` | sliding windows, day counters, backoff | router, pick, post, retry, failover, batch, embed | limits are kept, a refusal is true, every request ends | check and use around awaits; midnight; retries while others wait | `RateMeter`, `ProviderRouting` |
| **Content cache** `glc/cache.py` | entries with expiry | `get_or_create` | no expired name is posted | lock released around the request | `ProviderRouting` |
| **Provider clients** `glc/providers.py`, `glc/embedders.py` | none | write a conversation for a provider, read its reply, remedies | a provider takes each result for the answer to its call | four wire forms in one conversation | `ChatDialects`, `ProviderRouting` |
| **Pairing, allow list, trust** `glc/security/*.py` | pairings, pending codes | issue, confirm, decide | - | replaced rows; owners read once by a socket | `ChannelGateway` |
| **Channel rate limiter** `glc/security/rate_limits.py` | windows per user | `check_*` | at most n per minute | window boundary, sockets and webhooks together | `ChannelGateway` |
| **Channel routes** `glc/routes/channels.py` | connections | websocket loop, webhook | admissions bounded; a redelivered message is taken | failures between decision, audit and answer | `ChannelGateway` |
| **Channel adapters** `glc/channels/catalogue/*` | conversation caches, reply tokens, offsets, voice buffers | `on_message`, `send`, the drivers | an answer goes home, once; speech is its caller's | handlers of several events overlap | `ChannelAdapters`, `VoiceStreams` |
| **Gmail process** `glc/channels/catalogue/gmail/server.py` | `last_history_id`, processed ids | poll, handle, answer | a mail is answered at most once and taken | exceptions in a round, restarts, own answers in the mailbox | `MailPoller` |
| **Audit and call log** `glc/audit/store.py`, `glc/db.py` | append-only rows | append, query | - | a failing audit in the middle of a handler | `ChannelGateway` (inbound row) |
| **Policy engine** `glc/policy/engine.py`, `glc/main.py` | rules | `evaluate`, `reload` | - | signal handler and lock | - |
| **Control, configuration, CLI, voice routes, entry points** | application state | thin handlers | - | - | - |

How they interact: `POST /runs` starts a run and awaits the executor; the
executor calls the planner (a function of snapshot and event) and the workers
(coroutines, which call the gateway, tools and the memory store); all of them
share one event loop and one SQLite connection, on which every store method is
one transaction. `POST /runs/{id}/resume` calls the same executor again, after a
restart or, since nothing forbids it, beside the live one. The A2A server runs
its handler (an agent run) in a coroutine per task; the bridge lets a remote
A2A task wake a waiting node of a graph. Interfaces read the journal, and the
composed page posts a run per turn. The gateway is another process: its chat
route serves the agent's requests, its channel routes and drivers carry
messages to the agent and answers back.

## 2. Plan

Done: `GraphStore`, `LiveGraph`, `RunLedger` (abstract specification),
`LiveGraphProofs`, `AgentRun`, `A2ATasks`; then `A2ABridge` (composes the graph
with remote tasks), `MemoryStore`, `RunMemory`, `Chunking`, `LiveView`,
`ComposedTurn` (composed by `MCAgentService`), `RateMeter`, `ProviderRouting`,
`ChatDialects`, `ChannelGateway`, `ChannelAdapters`, `MailPoller`,
`VoiceStreams` (composed by `MCChannels`).

Proved: everything in section 5 (`LiveGraphProofs`, `AgentRunProofs`,
`A2ABridgeProofs`, `A2ATasksProofs`, `MemoryStoreProofs`, `AgentServiceProofs`,
`ProviderRoutingProofs`, `ChannelProofs`).

Every invariant and action property a passing run checks is proved; section 6
lists what is left to TLC. The policy engine's rules and the constrained planner
stay out: section 7.

## 3. Modules

### The graph and its run

**GraphStore** - the tables of one run. `state` is the node table (`"absent"`
before the INSERT), `edges`, `journal` (events), `patched` (the patch table's
trigger events), `finished`. One operator per committed transaction:
`Start`, `Resume`, `MarkRunning`, `RecordOutcome`, `ApplyPatch`, and the
bridge's external event; `ValidPatch` is
every check of `apply_patch` that raises, `Edited` the updates in their order,
`Leftovers` what finish cancels. A sequence number is a position in `journal`;
events one transaction writes together are one entry. Payloads, skills, times
and reasons are left out.

**LiveGraph** - `LiveGraphExecutor.run`. `pc` is where a call of `run()` is:

| `pc` | in `core.py` |
|---|---|
| `idle`, `done`, `aborted` | not called / returned / raised |
| `replay`, `replay_plan` | the loop of `_replay_pending_planner_events`, and its `await planner.plan` |
| `fill` | the top of `while True` |
| `waiting` | `await asyncio.wait` |
| `batch`, `batch_plan` | the `for future in sorted(done)` loop, and its `await planner.plan` |

All executors share an event loop, so that a step requires every other executor
to be suspended at an await (`HoldsLoop`); the planner's answer arrives after
one, from any graph in between, and is one of the patches `Patches`. An
attempt in `inflight` is a future with its status; `cancelling` is a future told
to stop that has not observed it. `Abort` is an exception leaving `run()`.
`Crash` forgets everything but the store and may fall between any two
transactions. `Executors` is the set of concurrent calls.

**RunLedger** - what the graph promises, without journal, queue or executor: an
outcome is written once, start and every outcome are decided at most once, a
decision may cancel tasks without outcome, nothing is written after the end.
`LiveGraph` implements it by `ledgerOutcome` (terminal states) and
`ledgerDecided` (outcome events with a patch).

**AgentRun** - extends `LiveGraph` with the planner of `runtime.py`.
`PlannerPatch` is `DeterministicPlanner.plan`: `OutcomeRules` lists its `if`
statements in order as condition/patch pairs of which the first whose condition
holds decides, `FirstPatch` is the answer to `run_started`. A request is its
mode (`_work_intent`) and whether it asks to remember something. Nodes are
numbered in the order of their names, which `ORDER BY id` and `sorted` use.
A worker may fail or succeed; what it found (search hits, files) is chosen when
its outcome is committed. The deterministic planner has no await, so its patch is
computed from the graph it is applied to. `Immediate` names the workers without
an await: launched together with others, they are done first. `AgentWorkerEnds`
makes the answer worker fail when it reads `remember`'s row before its result.

**A2ATasks** - `A2ADemoServer` with its SQLite store. `kind` is the call that
created a task, `worker` where the coroutine completing it is (`yielded`: a
stream's first update; `sleeping`: a job's delay; `handling`: in the handler;
`reporting`, `announcing`: in `_notify`), `job` its membership in `_jobs`,
`pushes` the `_notify` calls in progress, `delivered` and `attempts` the push
ledger, `received` what the receiver accepted. `Post` may lose the reply.
A gRPC call may be cancelled by its client wherever it awaits (`official.py`,
`grpc_binding.py`): `Disconnect` cancels the coroutine of a request that created
a task, as does a closed stream, and `left` remembers it, because such a task
stays open until the next restart; `CancellerLeaves` cancels a `CancelTask` while
the server tells of the cancellation. `cut` remembers the notifications that
either of them, or a crash, cut short.

**A2ABridge** - `A2AGraphBridge` of `official.py`, extending `LiveGraph`. `call`
is a `dispatch_waiting` (starting the remote task, subscribed to it, waking the
node), `seen` in it the state of the remote task when it was subscribed: the
subscription tests the task after each snapshot it sends, so that the last one,
which the bridge keeps, shows the end or the task still at work. `canceller` is
the application's cancellation of a node, `remote` the tasks of the remote agent,
of which only what `A2ATasks` promises is used: they end once. `remote_ids` and `results` are the bridge's dictionaries, which a crash
forgets. Waking journals an external event and applies its patch, and a live
executor then launches the node, whose worker is `result_skill`.

### What the agent remembers and shows

**MemoryStore** - `db` is what the connection sees, `disk` what is committed: a
call that raises (an embedding cannot be made) leaves the statements it executed
in the open transaction, from which a later commit makes them durable and a
rollback or a restart forgets them. A record has its kind, its scope, what
supersedes it, its audit record and the model of its vector. `index` is the
vector index with its save and load, `returned` what a caller was told is
stored.

**RunMemory** - a run of mode "memory" over the two databases: the prompt's
episode is written before the graph is created, workers remember, recall and
answer, a crash falls between any two writes, a restart resumes tasks of the A2A server (as a
new run) and a resume request a run's graph. What is recalled is chosen
(`Candidates`, sorted facts first, `Kept`), with the run's own records left out
as the code does.

**Chunking** - `semantic_chunks`. A document is a sequence of units (words that
begin a line of text, a heading, a table row or a fence, other words, parts of
words). One step takes a block, asks a model that may answer with any quote of
the block, with nothing, or fail, and keeps the block or leaves its suffix to
the next. `StructuralEnd` is `_structural_end` with its order of preferences.

**LiveView** - the journal translated into frames, the stream of one read of it,
the client that folds frames and reconnects once with a snapshot first. The
stream's frames are delivered one by one and a connection may break between any
two.

**ComposedTurn** - a turn of the page from the run's result to what is painted:
`found` is what the run found, `DataModel` what is made of it, a reply of the
model passes `ValidateSurface`, what it left out is appended
(`ComposeSurface`), `/composed` validates again, and the client paints. Component
properties are abstracted to their kind and the class of the value. A tap on
what was drawn is the next turn.

**MCAgentService** - these five, with `A2ATasks`, under one specification. They share no state here, so a behaviour watches one of them and
the rest stay initial: their state spaces add up instead of multiplying.

### The gateway

**RateMeter** - `RateState`: a record with the window of calls, the window of
tokens, day counters, cooldown and backoff; `Cleaned` is `gc`, `WithinLimits`
`can_use`, and so on, each a function of the meter and the time.

**ProviderRouting** - what `POST /v1/chat`, `/v1/chat/batch` and `/v1/embed` do,
a step from one await to the next. The set-up is computed as the code does it:
which instances exist (`Workers`, `Routers`, `Embedders`) from the environment,
what they are believed to do (`Capabilities`) and what a client asks of its model
(`ModelOf`, `Thought`), which differ for Gemini. Each pool has instances and
meters of its own (`PoolsAssumption`). A request resolves its images (which may raise),
is classified by a router if it asks for it, collects candidates
(`BeginChat`, `EnterRouting`), picks the first that fits and may be used, posts
to it (`FirstBody`, and after an error the client's remedies), retries, marks a
provider unavailable, goes on to the next one or waits, and records. The Gemini
cache's `get_or_create` runs before these posts (`EnterChat`), in a stream when it
is read (`StreamRuns`); `since` is when a request looked there. Time passes at awaits only.

**ChatDialects** - what a provider is posted of a conversation with tools. The
client keeps one form and sends all of it each turn; each turn may be served by
a provider of another wire form. `items` is what the body says of each message,
`Answered`/`AnsweredIn` which call a result belongs to for the client and for
the provider.

**ChannelGateway** - the socket and webhook routes for one channel (WhatsApp):
body and signature, pairing and allow list, limiter, audit row, answer. `post`
is where a webhook message is, `socket` a connection with the owners it read,
`recent` the limiter, `inbound` the audit's rows of the last `Window` seconds,
by the process that wrote them. `Restart` forgets limiter, connections and
requests under way; rows, pairings and codes stay.

**ChannelAdapters** - the other adapters and their drivers, on top of
`ChannelGateway`. `channel` and `config` are chosen at the start; events arrive,
are taken or dropped (`Takes`), asked about, and answered with overlapping
handlers that meet in `conv_cache`, `reply_tokens`, `offset` and `owner_id`.

**MailPoller** - the Gmail process: one sequential loop, mail arriving in
between, exceptions that end a round, restarts, and the client's history cache,
which answers one later poll when a round broke off before the adapter used it.

**VoiceStreams** - the Twilio Voice adapter: webhook, TwiML, media streams whose
frames meet in two dictionaries while transcriptions are awaited. `said` and
`heard` are histories: what each call's caller said, and what was handed on as
heard through each socket.

**MCChannels** - these four with `ChatDialects` under one specification; as in
`MCAgentService` a behaviour watches one, because they share only the pairing
store, which is keyed by channel.

**MCLiveGraph**, **MCAgentRun**, **MCA2ABridge**, **MCProviderRouting** - values
of constants. The modules named `...Proofs` - section 5. Operators commented *Mutant* are
wrong variants of the definition after them; `PROJECT.json` says which property
notices each.

## 4. Runs

| Run | Instance | Question |
|---|---|---|
| `live_graph_crash` | 1 executor, 2 workers, 4 tasks, 7 patches, 2 resumes, 1 crash; 249,520 states | does one executor bound its work, lose nothing, leave nothing, and return? |
| `live_graph_race` | 2 executors, 2 workers, 3 tasks, 4 patches, 2 resumes, 1 crash; 637,176 states | does the store keep its promises when two executors race, and implement `RunLedger`? |
| `agent_run` | all 11 modes with and without something to remember, 2 workers, lists of 2 items, 1 resume, 1 crash; 191,407 states | do the rules' patches always fit, does evidence precede synthesis, which requests are answered? |
| `a2a_bridge` | 2 tasks, one of them remote, 2 calls of dispatch, 2 remote tasks, a cancellation, 1 resume, 1 crash; 1,831,533 states | is a node woken, by its own remote task's end, or cancelled with its remote task? |
| `agent_service` | sum of: a store of 5 records, 2 scopes, 2 contents, 2 models, 1 restart; 2 requests of 2 runs with 1 crash and 1 fact; 1 A2A task, 2 push attempts, 2 restarts; a journal of 4 events with 2 broken connections; one turn of the page with 1 retry; short documents of all kinds of lines; 939,438 states | is what was returned kept, is evidence sound, does a task end once, is a view true, is a claim's warrant drawn as it was earned? |
| `provider_routing` | 2 concurrent requests of every kind, a Gemini pool and one more provider, routers, cache, embedders; 6 values of the clock, midnight in between; 108,630 states | do picks stay within limits, is a refusal true, do cached names live, do requests end? |
| `channels` | sum of: 2 webhook messages, a socket with 2 messages, 1 code, 2 faults, 1 restart; 3 mails, 2 faults, 2 restarts; 3 events on each other channel; 2 calls of 3 frames; 2 turns of up to 2 calls; 876,036 states | are admissions bounded, is every message taken, answered once and at home, is no speech and no tool result taken for another's? |
| `resume_beside_live` | violation | `run()`'s docstring on resumption |
| `stop_is_deliberate` | violation | the comment at the loop's exit |
| `cancel_sticks` | violation | the test of cancellation |
| `index_follows_model` | violation | the comment on incompatible vectors |
| `poisoned_node` | violation | the validator's docstring |

**Bounds, and why they are enough.** Two executors are the smallest race, and a
third would only repeat either's steps; four tasks and two workers are the
smallest instance in which an outcome makes more tasks ready than there are free
slots; the menu adds, fans in, cancels, parks, wakes and finishes, and every
patch is refused in some graph; one crash with two resumes gives a replay that
is itself interrupted or raced by a second one. Two items per list distinguish
"one of them" from "all of them" in the planner's rules, which treat all alike.
One remote node dispatched twice shows every order of two ends with one
cancellation. A2A tasks share nothing but the loop, so one shows every
interleaving a task can meet; two push attempts are the first and the last. Five
records make a chain of three versions beside a document and another scope. Two
runs are a reader and a writer. Two connections are all a viewer opens. Two
requests are one that holds a provider and one that finds it held, and every
kind stands beside a plain, a pinned or an embedding one; the clock crosses one
midnight with a full window on each side. A cap of one admitted message with a
window of one second gives a boundary with messages before, on and after it.
Three events of two senders in two places give each pair that shares a
conversation cache entry and one beside it. Two streams share what the adapter
shares; three frames fill a buffer of two and leave one. Two turns with two
calls each give a turn served by one wire form and answered to another, with
equal and different tools.

Bounds on the environment (names beginning `Max`, `LastBegin`, `Items`,
`PushAttempts`, `Retries`) are named in the modules; the rest is finite by
itself. `Retries` is 1 where the client has 12, and a page has one turn per
behaviour: a retry starts from the same state as the one before it.

Deadlock checking is off everywhere: a run that returned, a task that ended, a
request that was answered, and a process to which nothing comes may stay as they
are.

**Fairness.** `FairSpec` and `AgentFairSpec` are weakly fair to each executor's
steps and to its workers' ends: a step without an await cannot be postponed, and
the planner's and workers' calls carry HTTP timeouts (`tools.py:64`,
`gateway.py:21`, `runtime.py:786`). `BridgeSpec` is fair to the executor's steps,
to the bridge's own and to the ends of remote tasks, since `FollowedNodeIsWoken`
is about nodes whose remote task ends. `agent_service` is fair to the A2A server's work and posts for the
same reason, to its restart, since a server that stays down completes nothing,
and to the view's process start, its next frame and the browser's reconnection.
`provider_routing` is fair to the clock and to the answers of requests: each
post has a timeout and each sleep is finite. `channels` is fair to the clock, to
the handler of a posted message, and to the poller's loop, which sleeps and runs
again whatever it met; a side that posts again until it is answered 200 does so
when time passes (`Tick`). `EveryMessageIsTaken` needs one thing more that the
code does not enforce and the bounds supply: that a sender's other messages, the
failures and the restarts come to an end (`MaxSocketMessages`, `MaxFaults`,
`MaxRestarts`). Crashes, faults, arrivals and calls are under no fairness. `live_graph_race` needs none.

**What the properties say** is written above each in the modules. Some were
weakened to what the code keeps, and the difference is worth knowing:

- `NothingIsMissed` (in `WorkersHaveTheirInputs`) assumes no crash, and its run
  has two workers. With `S13_MAX_WORKERS=1`, or after a crash between the
  outcomes of `recall` and `remember`, the answer worker is launched while
  `remember` has no result; it then evaluates `None.get("fact")`
  (`runtime.py:525`), the answer fails, and the pending `remember` is cancelled
  by finish. With two workers a distillation may start before `remember` ended,
  which is no input of it; the answer and the page start after everything.
- `RequestsAreAnswered` excludes two requests no worker of which failed and which
  are still never answered: a birthday reminder with nothing to remember (its
  `recall` leads nowhere, line 428) and a search whose hits have no link (no
  task is added, line 449). It names the modes that are answered whatever fails
  (memory, a file, a composed answer, a directory unless something is to be
  remembered besides). In the others a failed fetch, search, file index or
  recall leaves the run unfinished: the cause of `stop_is_deliberate`.
- `ResultJoinsItsNode` says that no woken node's worker fails only while no
  crash happened: a crash forgets `remote_ids` and `results`, the worker then
  raises `KeyError`, and a waiting node stays so until it is dispatched again.
  Nor does it say that the result shows the end: a subscription tests the task
  only after each snapshot it sent (`core/a2a_adapter/official.py:82-84`), so that
  a task ending meanwhile closes it on a snapshot at work, which
  `dispatch_waiting` returns, journals and keeps (`:122-125`). The test of a
  dispatch expects the end (`core/a2a_adapter/tests/test_hardening.py:152`).
- `NotificationsTellTheEnd` lets an end go untold whose telling was cut short: by
  a crash (`start()` looks at open tasks only), or by the client of the very call
  that was sending it. An end written by a job has no such client, so that only
  a crash cuts it.
- `PicksWithinLimits` is about picks, which `RateState` counts, of an instance in
  its pool. What one pick posts besides its first request (the second try after a
  failure, a body posted again without what was refused, the repair of a reply)
  is in no limit, and a provider configured in both pools may be asked up to the
  limits of each (`glc/routing.py:147`, `:223`).
- `CachedNameAlive` promises a post its cached content for the margin, 60 seconds,
  after the request looked for it. The post that repeats one refused later than
  that may name a content that is gone; the client leaves the name out only when
  the refusal is a 400 that says "cache" (`glc/providers.py:771-781`).
- `AdmissionBounded` is a bound for each process. A restart starts an empty
  limiter beside an audit that keeps its rows, so that an interval around it may
  show the cap of each process that served in it.
- `EvidenceIsSound` lets a record be written twice by a task that was executed
  twice, and lets an A2A task recovered after a restart, which is a new run, use
  what its earlier attempt left.
- `EndIsSeen` holds if the run ended before the journal was read for the last
  time: it is read once per connection, and a viewer opens two.
- `WarrantIsDrawn` is about pages whose root draws what is appended to it: under
  a leaf type or tabs, or beside an unreachable tile of the model's own of the
  same type, evidence is not drawn.
- `UnavailableIsTrue` is about chat; embedding requests have no deadline. Whether
  an instance fits is what the code believes of it: capabilities are resolved
  under the name of the instance, `gemini_1`, where the rule for reasoning asks for
  `gemini` (`glc/providers.py:1198`, `:1146`), so that a request that must reason
  may be posted to a Gemini model that cannot, although the comment says that
  `pick` sees the resolved truth (`:1194-1196`).
- `AnsweredAtHome` lets a Teams user be answered in another of his
  conversations, and says nothing of Slack, whose `send` knows no conversation.
- `EveryMessageIsTaken` is about sides that post again, and about mail that came
  after the process's last start; and it assumes that the sender's other traffic
  ends. Sockets and webhooks of a sender share one window, no place in it is kept
  for a message that was refused, and a sender who never stops writing may fill
  it before each time that message is posted again.

**Findings** (in `PROJECT.json`, each shown by a run):

1. A resume request beside a live run returns tasks to pending that are being
   executed (`store.py:90`; docstring `core.py:105`). The store stays
   consistent, as `live_graph_race` and the theorems show: the second outcome is
   refused and the request that brings it fails.
2. `distill` is connected from failed research and never becomes ready; the run
   returns unfinished and nothing waits (`runtime.py:410`; comment
   `core.py:137`).
3. A streamed task cancelled during its handler becomes completed
   (`server.py:239`; test `test_adapter.py:66-70`).
4. After a change of the embedding model the refreshed vectors do not reach the
   index, whose ids have not changed (`core/memory/store.py:121`; comment
   `:253-255`).
5. A component whose fallback is an object, or whose `$bind` is no string, makes
   the validator raise, and nothing of the page renders (`ui/validator.py:192`,
   `:183`; docstring `:11-13`).

## 5. Proofs

Every theorem holds for all values of the constants under the assumptions named
in the modules that declare them; no other assumption is made except where a
theorem says so itself. Each specification has one invariant that is inductive,
stated as a conjunction of named parts; a theorem about a property then says that
the invariant implies it. The invariants were model-checked on the runs'
instances before they were proved.

### The graph (`LiveGraphProofs`)

From `TasksAssumption`, `PatchesAssumption` and `LimitsAssumption` only: any
planner, any number of executors, workers, crashes and resumes.

| Theorem | What it states |
|---|---|
| `LiveGraphTypes` | `TypeOK` |
| `LiveGraphFinishedIsQuiet` | a finished run has no open task |
| `LiveGraphTerminalIsFinal` | a terminal task never changes |
| `LiveGraphFinishedIsFrozen` | nothing but the journal changes after finish |
| `LiveGraphOutcomeOnce` | one outcome event per task, agreeing with its row |
| `LiveGraphDecidedOnce` | one patch per event, ledger and journal agreeing |
| `LiveGraphImplementsRunLedger` | the refinement of `RunLedger` |
| `LiveGraphCancelledIsJournalled` | a cancelled row was journalled by its patch |
| `LiveGraphNothingRunnableLeft` | calls that returned left nothing they could have run |
| `LiveGraphNoOutcomeForgotten` | calls that returned left no event undecided |
| `LiveGraphBoundedWork` | futures and running rows stay within `max_workers` |

The argument. `StepIsStoreStep`: whichever executor, worker or crash moves, at
most one transaction of the store is committed (`StoreStep`). The invariants of
the store are then proved over the five transactions instead of all actions.
`FinishedIsQuiet` is inductive with the types, because `Leftovers` empties the
open states and no transaction opens a task of a finished run: `Runnable` and
`running` are empty there. `OutcomeOnce` is inductive because `RecordOutcome`
asks for a running row, and a running row has no outcome event.
`DecidedOnce` needs to know what a planner is asked about: an executor's
`trigger`, while it plans, and its `replay` set are positions of planner events
in the journal (`AsksAboutEvents`, itself an invariant); without it a patch
could be committed for an event that does not exist. The refinement uses the
conjunction of all these (`LedgerInv`), and that `run_started` is the first
entry of the journal and the only one of its kind (`JournalShape`): each
transaction is a `Report` (`RecordIsReport`), a decision (`PatchIsDecision`),
`Begin`, or a stutter.

The theorems about executors need to know where an event is. `NobodyForgets`:
until the run is finished, some call aborted, or none is at work, or every
undecided event is in somebody's hand (`InHand`: in a replay that is not over, or
the one the planner is being asked about). `BoundedWork` is stated for one
executor (`Executors = {e}`, a hypothesis of the theorem, as in its property:
two calls on one run exceed it). Its invariant `WorkInv` relates futures and
rows: a future's row is running or cancelled, every running row has its future
while the loop is at work and none is running during a replay, so that the
number of futures is the number of tasks they work on; the capacity test is
about the futures, the rows follow.

### Requests (`AgentRunProofs`)

For any set of requests, any `max_workers`, crashes and resumes, and one call of
`run()` at a time (`Executors = {e}`).

| Theorem | What it states |
|---|---|
| `AgentRunPlannerNeverRejected` | `run()` raises for no request |
| `AgentRunDistillHasEvidence` | synthesis starts after every subject and its retry landed |
| `AgentRunRequestsAreAnswered` | where no worker failed, and in some modes whatever failed, a returned run is finished |
| `AgentRunWorkersHaveTheirInputs` | with two workers or more, who puts outcomes together starts after all of them |
| `AgentRunIsLiveGraph` | every behaviour is one of the live graph under some planner |
| `AgentRunImplementsRunLedger` | every behaviour is one of the run ledger |
| `AgentRunKeepsGraph` | the invariants and action properties of the graph hold of requests |

`AnySpec` is `LiveGraph` with a planner that answers any patch of the type; the
lemmas about steps are proved of it, so that they serve `LiveGraph`, the bridge
and the requests alike. The argument for the planner: an event it is asked about
and that has no patch yet is either the start, and then the graph is empty, or
the one outcome of its task, and then that outcome is undecided (`TriggerFacts`).
`GrowthInv` says which decided outcome each node that is added without being
looked for came from; since the outcome at hand is undecided, such a node is not
there yet (`RuleFits`, one case per kind of answer of the rules). That a patch
makes no cycle is an order of the nodes (`Rank`) along which every edge the rules
add goes up (`RankedIsAcyclic`). `RetryInv` relates a retry to the search it
corrects, `AskedInv` says that at most one event is undecided while a run is
unfinished, so that a weak search that succeeded has been answered with its
retry before `distill` can be added. That `record_outcome` never finds its row
moved on is `WorkInv` of the graph: a future's row is running or cancelled.

*What the graph promises.* Every step of a request is a `StoreStep`, and `RunInv`
contains `LedgerInv`: the graph's lemmas, one per invariant, apply as they stand,
and give the refinement of `RunLedger` and `AgentRunKeepsGraph` under the program's
own planner.

*Answers.* `FollowInv` says what each decided outcome of an unfinished run was
followed by: whichever of several outcomes was decided last, the node that waited
for them was added (`ResearchFollowed`, `IndexFollowed`, `MemoryFollowed`,
`FetchFollowed`, `DistillFollowed`), and no node but a synthesis or its page
depends on what may have failed (`GraphInv`). `FollowPatch` is the step, by the
first rule that holds (`RuleAnswer`). At the return of an unfinished run
(`LeftByReturn`) nothing is runnable and every outcome is decided; where nothing
failed, a pending node of least rank would be runnable, so none is pending
(`AllSucceed`), and then the chain of what follows what leads to `answer` or
`surface`, whose outcome finishes the run.

*Inputs.* `LayerInv`: a node that puts others together (`Joins`: distill,
validate, surface, answer) is added when every node of lower rank but `remember`
was decided, and no rule adds one below it later (`LayerAdded`, which uses what
the modes allow, `UniverseInv`, and the one event at hand, `Answering`). So what
such an attempt must have before it has an outcome in the journal when it is
launched (`JoinLaunched`), and while it is at work nothing is added
(`JoinAddsNothing`): `JoinInv`. What remains is `remember`, of which nobody is a
parent. It is never launched after others but fetches (`RememberInv`), because
with two workers there is room for it beside the one node that may go before it
in the order of ids (`RememberHasRoom`), and once launched it is done before any
worker that awaits something (`SettleInv`), so that an answer or a page finds its
outcome. A crash breaks this, as `remember` may then run again beside an answer:
`NothingIsMissed` is about runs without one. The hypothesis `2 <= MaxWorkers`
holds of both defaults (4 of `S13_MAX_WORKERS`, `runtime.py:1333`; 3 of the
executor, `core/live_graph/core.py:96`) and is needed: with one worker, which the
code accepts, `remember` comes after every node whose name precedes it, so that
the answer is launched first and its worker raises.

### The bridge (`A2ABridgeProofs`)

| Theorem | What it states |
|---|---|
| `A2ABridgeInvariant` | `BridgeInv`, inductive |
| `A2ABridgeFinishedIsQuiet`, `A2ABridgeTerminalIsFinal`, `A2ABridgeFinishedIsFrozen`, `A2ABridgeOutcomeOnce` | the graph keeps these beside the bridge's transactions |
| `A2ABridgeWakeIsAccepted` | the patch that wakes a node is never refused |
| `A2ABridgeCancelIsComplete` | a cancellation that came back holds for good |
| `A2ABridgeResultJoinsItsNode` | a woken node's worker finds a snapshot of its own node's remote task, which is over |

A step of the bridge is a step of the graph or one more transaction
(`GraphStep`, `ExternalStep`), so that the graph's lemmas are used again and only
the new transactions are new cases. `AloneInv` says that of all coroutines of the
bridge at most one is between its event and its patch, and that this event is
the journal's last and undecided: hence the patch meets the state the test saw,
and its key is free. A node that waits is of an unfinished run (`FinishedIsQuiet`),
and the graph has no cycle: hence the patch is valid. Of the ledger's
promises the bridge keeps `OutcomeOnce`, as an end it journals is no outcome, but not
`DecidedOnce` as stated: its patches decide events that are not the planner's. `CallInv` and `RemoteInv`
join ids, dictionaries and remote tasks.

`A2ABridgeResultJoinsItsNode` has the hypothesis `PlannersPark`: planners add a
remote node parked and leave its waking to the bridge. No code enforces it; it is
what an application of the bridge does (the planner of
`core/a2a_adapter/tests/test_hardening.py`), and `MCA2ABridge` has TLC test it of
the run's patches. Without it a node could be launched before its remote task
ended, and its worker would raise `KeyError`. The first half of the property, that
a result is of its own node, of a task that is over, and shows that end or the
task at work, is part of `BridgeInv` and needs no hypothesis. The theorem does not
say that it shows the end, which the code does not keep.

### A2A tasks (`A2ATasksProofs`)

`A2ATasksTypes` (with it: no event is attempted more than `push_attempts` times),
`A2ATasksOpenIsAttended`, `A2ATasksNotificationsTellTheEnd` and the action property
`A2ATasksOutcomeIsFinal`. The invariant `TasksInv` says where a coroutine is for
each state and call (`WorkerInv`: what is handled under a job is not terminal),
whose a notification in progress is (`PushInv`: no event has two senders, the
canceller sends only cancellations), that a process that is down does nothing
(`DownInv`), and how each end that was not told came to be cut: it is in the
ledger `cut`, and an end that a job wrote only if there was a restart. The steps of `MCAgentService` that change A2A's variables
are those of `TasksSpec`.

### Memory, runs, chunks, view, turn (`MemoryStoreProofs`, `AgentServiceProofs`)

| Theorem | What it states |
|---|---|
| `MemoryInvariant` | `MemInv`, inductive |
| `MemoryChainHasOneHead` | what is superseded has one heir |
| `MemoryReturnedIsAudited` | what was returned is on disk with its audit record |
| `MemoryLastVersionIsEvidence` | exactly the last version's chunks are evidence |
| `ServiceInvariant` | `ServiceInv`: `MemInv`, `RunsInv`, `ChunkInv`, `ViewInv`, `TurnInv` |
| `ServiceReturnedIsKept`, `ServiceEvidenceIsSound` | the properties of the run `agent_service` |
| `ServiceViewWasTrue` | a viewer holds a state the run really had |
| `ServiceConfidenceIsEarned` | a claim stands on what the run gathered of its subject |
| `ServiceWarrantIsDrawn` | whatever the model composed, claims, taps and the run are drawn |

The connection's view and the disk go through the same changes at different
times: a call that raises leaves its statements in the first, a later commit
copies them, a restart forgets them. `MemInv` therefore is one statement about
tables, `TableInv`, made of both; the lemmas say of any table that inserting a
row, retiring a document's rows and making vectors anew keep it. `Numbered` is
the heart of the document part: a document's versions are 1 to n, the active one
and its current chunks are those of n. `RunsInv` says what a run's graph vouches
for (`RunOK`), over records that are only ever added. `ChunkInv` says that the
chunks cut so far are contiguous and the pending suffix follows; that a cut moves
forward and not beyond its block is a lemma about `StructuralEnd`, from the
least-number principle.

`ViewInv` says what is still in the stream: unless a snapshot comes first or has
come, the frames are those of the events right after what the view has folded, up
to the terminal frame. A state is compared with the journal by `IsStateAfter`,
which knows no fold; `DeltaAdvances` is one frame, `SnapshotIsWhole` the fold of
all of them. `ConfidenceIsEarned` is inductive (`TurnInv`), since surface and
evidence change together; the work is in `MergeIsEarned`, an induction over the
stated claims whose invariant adds that every researched subject has its claim, so
that only a label nobody researched is appended. The folds of these two modules
are recursive functions, for which the lemmas prove first that there is a solution
of the recursion, then what any solution does (`Induction`, over sets of numbers);
`ComposedTurnAssumption` says the types of what a run finds.

`WarrantIsDrawn` needs only that the screen was drawn from the surface at hand
(`DrawnInv`); the rest is about one surface. What passed the wall with the data
model at hand passes it without, a filled fallback included (`FilledIsSame`,
`PassesAlways`), so what the compose step kept is served as it is. The root has
gained the rows (`ComposedIsShaped`), a row has all of its ids
(`SetToSeqHasAll`), and what hangs from a root that draws its children, or from a
row of it, is reached, since two parents allow for two generations
(`HungIsDrawn`). `ProposalsAssumption` says that a reply names each component
once, and none of them, nor its root, as the harness names its own: nothing in
the code checks this. A reply with a component `_ev_row` as its root would hide the
run graph. The proof showed that the property holds of the first six taps only:
the compose step makes no seventh button.

A source called "none", which stands for no document, is
excluded by `MemoryAssumption`.

### Provider routing (`ProviderRoutingProofs`)

`RoutingPicksWithinLimits`, `RoutingCachedNameAlive` and the action property
`RoutingUnavailableIsTrue`, from `RateAssumption`, `RoutingAssumption` (the margin
is shorter than the lifetime), `PoolsAssumption` (instances of two pools differ),
`LimitsAssumption` (limits are numbers, and no provider cools down for longer than
a pinned request waits: 6 seconds at most of 30) and `OrdersAssumption` (orders
are lists of names, and there is a name for every key of Gemini).

- *Quotas.* `QuotaInv` compares each meter with the history of its instance's
  picks. `WindowOK`: the queue is the end of the history, what is missing from it
  is over a minute old, and it is never longer than `rpm`. `DayOK`: `day_start`
  is a midnight, every call counted was before its end, and those since it are at
  most `calls_today`. That a day's counter is reset exactly at the next midnight,
  also if nothing was asked for days, is `NextDay` (the start of a later day is
  not before the end of an earlier one). A call is recorded in the step that
  asked (`AttemptStep`, `ClassifyStep`: the candidate taken was cleaned and
  allowed), so that no other request's call comes between.
- *Cached contents.* `CacheInv`: the expiry the cache stores is never after the
  moment Gemini drops the content, because it counts from before the request was
  sent; a post that is under way, the first or a repeated one, of a chat or of a
  stream, names what was found or minted after `since`, when the request looked.
- *The refusal.* `PlanInv`: while a request is among its candidates, those it has
  left and those that failed are all of them, and it has more turns than
  candidates left (`WithoutFacts`: a failure takes one of them away), so that the
  loop never runs out of turns before it runs out of candidates. At the refusal
  every one left was just asked; `CleanedTwice` (after gc nothing more is popped)
  says that asking changed nothing of the answer. A request that names one
  provider is refused only after its loop: what would have made it wait, a
  cooldown before the deadline, is then excluded by the bound on cooldowns.
  Lists of providers are built by recursive functions (`Among`, `Expand`).

### Channels (`ChannelProofs`)

`ChannelsInvariant` (`ChannelInv`), and from it `ChannelsAdmissionBounded`,
`ChannelsAnsweredAtHome`, `ChannelsMailAnsweredOnce` (also of the poller alone:
`MailPollerAnsweredOnce`), `ChannelsSpeechIsItsCallers` and
`ChannelsConversationIsWhole`.

- *Admissions.* The limiter's window and the audit are two lists of ages; the
  rows of the last `Window` seconds that the running process wrote are covered by
  as many younger entries of its limiter's window (`Covers`), which has at most
  `Cap` of them after `_gc`. The rows of the processes before it only grow older,
  and one that has not started has none (`AdmitInv`). A failing audit leaves an entry without a row, never a row without
  an entry.
- *Answers.* `EventOK`: nothing final has been told while an event is in a state
  before its answer; what was told went to one of its rooms. It shows besides that
  LINE never falls back to a reply by token: the acknowledgement has always used
  the token up when the answer comes, so that the answer is pushed.
- *Mail.* `PollInv` and `AnswerInv`: mails of a page are newer than the start of
  the process, an answered mail is in `processed_ids` or older than that start.
- *Speech.* Per stream (`Parts`): the named frames that were heard, are being
  transcribed and are buffered are, one part after the other and in order, all
  those that were said; after a stop the buffer is empty and the caller
  forgotten. `VoiceAssumption` excludes a stream that is
  called by the name the adapter uses for "no stream".

- *Conversations.* `TurnsInv`: the ids of a turn's calls differ, and every result
  in the messages is that of the call as far behind its turn as it is itself, with
  results alone between. `BodyInv`: what was posted translates the messages as
  they still are. A reader by id, by name or by order then finds the same call
  (`OpenAIAnswers`, `GeminiAnswers`, `OllamaAnswers`); by name, because among the
  calls up to a result's there are as many of its name as results of that name.

`WithoutOld` (`_gc`) and `PopBefore` (`RateState.gc`) are written as the code's
loops have it, the suffix after the entries that are too old, because the provers know nothing of `SelectSeq`.

## 6. What is only model-checked

- Liveness (`RunReturns`, `FollowedNodeIsWoken`, `EveryTaskEnds`, `EndIsSeen`,
  `RequestsEnd`, `EveryMessageIsTaken`) is beyond the proof system.
- The violations of section 4 are traces that TLC finds; nothing is proved of them.

`MCAgentService` and `MCChannels` watch one component at a time. That loses no
behaviour of a component, since what it shares with the others (for the
channels, the pairing store, keyed by channel) none of them writes for it; it
says nothing of their shared use of a processor.

## 7. Abstractions, and what is not modelled

### Components left out

- *Policy engine*: no route calls `evaluate`; its file is reloaded by a signal
  whose handler takes a lock that is not reentrant. Its docstring says the first
  matching rule wins; the code lets a denial win.
- *Constrained LLM planner*: without state. Whatever patch it answers is one of
  the arbitrary planner of `LiveGraph`, whose theorems hold for it. It only
  parses: a patch that parses and that the store refuses makes `run()` raise,
  where the docstring says that invalid output falls back to the deterministic
  planner, and an empty patch for `run_started` loses the first tasks.
- *Card trust and schema, surface content, voice routes*: functions of one
  document, layout data, one external request per call.
- *Control routes, configuration, command line, entry points*: they read state
  kept elsewhere, start processes, or hand a request on.
- SQLite itself: a transaction is atomic and durable. `check_same_thread=False`
  connections are used from one event loop.

### Graph, runs and bridge

- `max_completed` of `run()`, which only tests use.
- What prompts map to which mode; the slug of a subject (two subjects with one
  slug share their retry node, `runtime.py:400`); lists longer than two; contents
  of answers.
- The menu of patches has no single patch that cancels a task and also waits for
  it or resumes it; `ValidPatch` and `Edited` are defined for it, and the theorems,
  which hold for any set of patches, cover it.
- `result_skill` returns success even if the remote task failed; two dispatches
  of a node start two remote tasks of which only the later can be cancelled; a
  cancellation before the start came back raises `KeyError`; an external finish
  while the planner is awaited makes `run()` raise. `DurablePushConfigs`,
  authentication and the conversion to and from protocol buffers are left out.
- `A2ATasks`: `push_callback` (a test hook) in place of HTTP; transport framing.
  `updated_at`, part of the event id, is fixed once a state is reached, so that a
  state's event is the pair of task and state.

### Memory and chunks

- In `RunMemory` an outcome and its planner patch are one step (`LiveGraph` has
  the gap between them and its replay). A task executed again writes its record
  again. A crash between prompt and graph leaves an episode without a run. The
  client of the API learns its run's id from the answer only. A fact replaced
  between recall and answer is still used. The code takes eight candidates by
  score *before* it sorts facts first, so that eight similar episodes crowd a
  fact out despite the comment (`runtime.py:510-513`). Queries of the corpus are
  left out.
- `MemoryStore`: a write that raised may become durable, without an audit
  record, with the next commit (`store.py:76`); an ingestion repeated marks the
  audit record of the one before superseded. Neighbour expansion, limits, expiry,
  scores and a change of dimension are left out. The write gate applies to facts,
  policies and audit records.
- `Chunking`: text normalisation, metadata and the release of the model are left
  out. The docstring of `_structural_end` is not met in these cases: a line
  `# ...` inside a fence counts as a heading and cuts inside it; a table at a
  block's start is cut row by row, and in a document that begins with a table in
  the middle of a row; the last heading of a block is always cut off, even when
  the budget is not reached.

### Live view and page

- The client's 0.25 s pacing and the choice of view are left out. The journal is
  read once per connection and there are two, so that a run that ends after the
  second read is never shown as finished.
- Metrics, series and tables of the structured answer are left out; a property's
  value is its class, and numbers and booleans are checked for scripts only.
- A section that is no object raises in the headings (`runtime.py:1274`),
  although line 1025 skips it. The comment at `runtime.py:870-902` says that a
  researched claim's value is drawn as "-", but its label is bound there; the one
  at 1102 says that a claim without label or sources is dropped, and only one
  without label is. The validation of children that `ui/validator.py:113` names
  does not exist: a circular reference reaches the client, whose paint raises.
- `/v1/action` answers that a run was resumed and resumes none.

### Routing and clients

- Token counts, prices, schema cleaning, usage figures, stream deltas and vision
  hints are left out; `/v1/vision` is a chat with an image. A stream may be left
  by its reader at any of its awaits, which the model ends like any other end.
- What the limits count is calls as `record` sees them: retries, corrective calls
  and repeated posts are not counted against calls per minute; tokens in flight
  or of a reply that failed validation are not seen; tokens added after midnight
  are the next day's; a later failure may shorten a longer backoff; a router's
  exception leaves none; embedders record on success only, so that concurrent
  embeddings exceed their rate and a success clears a backoff set meanwhile.
- `agent_routing.yaml` (lines 10-14) calls a pin "a preference, not a hard
  binding"; the route makes it explicit (`glc/routes/chat.py:368-372`), so that a
  pinned provider that fails is answered by an error, without failover. A pin to
  "gemini" never applies, and automatic routing skips the Gemini pool.
- One system prompt is long enough for the Gemini cache. The cache's key has the
  model and the text but not the API key; a 403 for a stale name is not remedied.
- `ChatDialects` assumes that clients keep the order of results and name their
  tools (Ollama's wire form has neither ids nor names). System messages within a
  conversation are dropped by Gemini, and by the others when there is a system
  text. The comment at `glc/providers.py:118` says links never reach the clients;
  those in "image" or "input_image" blocks do, and Gemini and Ollama drop them.
  Gemini and Ollama stream texts only.

### Channels

- A sender who is allow-listed and not paired is admitted and answered 200 with
  no reply. An error result of the provider's API is ignored (200), so that the
  fall-back from Meta to Twilio happens only outside the route. Confirming a
  code downgrades an owner, and a new code may replace another's. Sockets read
  the owners once (`glc/routes/channels.py:57`). Webhook deliveries are not told
  apart, so that a repeated one is a message again. A failing audit uses up a
  place of the limiter. Of a Meta body only the first message is read.
- Drivers exist in the source for Telegram, LINE and Twilio SMS; the other
  adapters are driven by the generic one of the gateway. Discord, Matrix and the
  web interface name no destination in what they send. Slack has no rule on
  mentions, and without a mock sends to a fixed channel. LINE waits up to 300
  seconds before it answers a webhook, and an exception of one event drops the
  rest of its batch. Teams' conversations are kept per user, where the docstring
  says per conversation. Twilio's adapters mark a sender that public channels
  refuse, but the gateway admits an owner again, because only Telegram, the
  webhook and the local microphone tell it that a channel is public. The owner
  of a Telegram bot without `TELEGRAM_OWNER_ID` is whoever writes first.
- Message formats, media, artifact stores, OAuth tokens and learned numbers are
  left out, and so are disconnections, which only the tests' transports have.
- Voice: frames without a stream id share one buffer and are heard, when it is
  full, as no one's; a stream that ends without a stop frame keeps its entries.
- Mail: delivery is at most once. Only one page of the history is read, and an
  expired history id lists nothing for ever; the cache of message bodies is left out.
