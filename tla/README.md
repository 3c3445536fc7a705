# AIMiddlePlatform: specifications, model checking and proofs

AIMiddlePlatform takes frames from cameras and HTTP clients, runs them through
pipelines of vision models or an LLM agent, stores the results and raises
alerts; two browser consoles show and administer it. This directory holds TLA+
modules of its core and of the consoles, TLC configurations that check them on
small instances and proofs checked by TLAPS. `PROJECT.json` maps
every definition to the lines it stands for. Paths below are relative to the
repository.

## 1. Inventory

### Components, their state, and how they meet

| Component | State | Operations | Meets |
|---|---|---|---|
| Analyze API `src/api/routes/analyze.py`, preprocessor `src/frame_preprocessor` | sampler history per camera | accept, reject, skip, push | pushes one stream entry per accepted frame |
| Task queue `src/queue/redis_streams.py` | Redis stream, consumer group, pending list | push (XADD MAXLEN), consume (XREADGROUP, XACK), backlog_size | API, worker, camera sessions |
| Worker `src/worker.py` | semaphore, two bounded queues, one coroutine per task | consume loop, process_one, _enqueue_save, _db_worker, _rule_worker | queue, fast path, agent, rule evaluation, database |
| Rule evaluation `src/worker.py`, rule engine `src/pipeline/rule_engine.py` | tracks during one evaluation; alert rows | _evaluate_rules_for_task, evaluate | rows edited by the admin API |
| Admin API for rules `src/api/routes/admin_rules.py` | rows of rules and bindings | create, update, delete | database |
| Fast path `src/routing/fast_path.py`, scene router, pipeline registry | routes, pipelines | resolve, reload, register | DAG executor |
| DAG executor `src/pipeline/executor.py` | results, completed, pending of an execution | execute | handlers, circuit breakers |
| Circuit breaker `src/resilience/circuit_breaker.py` | state, two counters, last failure; a global registry | call, reset, is_available, stats | shared by all executions of a process |
| Verify handler `src/pipeline/verify_handler.py`, result cache `src/cache` | Redis keys: an entry per frame hash, an index per camera | get, set | LLM client, agent |
| Agent `src/agent` | active client, tools | analyze, escalation, apply_config | LLM, result cache, model inference |
| Ingestion `src/ingestion/stream_manager.py` | session per camera, reconnect count and delay, backlog | add_stream, remove_stream, the reading loop | queue, video cache |
| Video cache `src/ingestion/video_cache.py` | frames per camera | push, trim, evict | worker |
| Shared Redis client `src/core/redis_client.py` | client, "unavailable" flag, loop id | get_redis, close_redis | everybody |
| Rate limiter `src/core/security.py` | window counters in Redis, local buckets | check, reset | API middleware |
| WebSocket manager `src/ws/manager.py` | connections, subscriber task | connect, heartbeat, broadcast | Redis channels |
| Monitoring `src/monitoring` | trace map and order, log ring | export, get_traces | tracer |
| Model registry and packages `src/models` | specs, versions, files | register, remove, status, install | inference |
| Pipeline routes `src/api/routes/admin/pipelines.py` | registry of graphs | create, update, delete, get | registry, both consoles |
| Console v1 `src/frontend/src` (Vue): views, stores, API clients, router | token in local storage; per store a list, filters and flags; the editor's graph and canvas | log in, list, filter, switch, remove, import, configure the agent, edit pipelines | the HTTP API |
| Console v2 `src/src/frontend/src` (Vue): the same parts for alerts, cameras, models, pipelines, rules, channels and the dashboard's timer | the same, with filters in the views | log in, poll, list, filter, switch, remove, register, edit rules | the HTTP API |
| Data pipeline, notifications, storage, deployment | files, rows | batch tools, I/O | |

The consoles are two programs of one shape. A *view* calls its *store*, the
store calls an *API client*, and all clients share one axios instance whose
interceptors add the stored token and treat a 401. v1 sets no time limit, v2
ten seconds. Nothing cancels or numbers a call, so a page is a small
concurrent program: the user, the server and the answers take turns in any
order. The two consoles were kept apart where they differ (`V1Console`,
`V2Console`, and the named pages and dialogs) and are one model where they do
not.

### What is hard

- *One event loop, many coroutines.* Everything between two awaits is atomic;
  everything else interleaves. A step of a model is one such stretch.
- *Two processes and Redis.* API and worker share only Redis and the database;
  the worker may die at any point and is restarted by the container runtime.
- *Bounded queues with time limits.* A full queue is waited on for five
  seconds, with a semaphore permit in hand, and then skipped.
- *Shared breakers.* A breaker is shared by every execution that has a node of
  that name, and results arrive in whatever state it is in by then.
- *Several Redis commands make one operation.* Cache lookups and stores
  interleave command by command, and keys expire between them.
- *An admin edits what an evaluation reads.*
- *Tabs share a token.* Local storage is one for all tabs, the store's copy is
  the tab's own, and any refused call clears the former.
- *Answers cross.* A filter, a switch, a removal and a timer have calls in
  flight at once; an answer finds a page, a dialog or an editor that has moved
  on since it was asked for.
- *Two copies of a graph.* The pipeline editor keeps the nodes it saves and the
  nodes and edges the canvas draws, and finds both by an identifier that the
  user may change.

`PROJECT.json` lists the hazards that weigh most at their lines, with the
properties about them; a hazard of a part that is not modelled says so. Of most
hazards the property says that the code gets it right. Of some the code gets it
wrong, in the consoles above all, and such a property does not forbid what the
code does: it says exactly when it happens and what it can hurt, so that a
change of the code that lets it happen otherwise is caught, and one that repairs
it can be met by a stronger property. The `note` of the hazard says so:
answers that cross (`RestShowsServer` supposes order), a cancelled edit
(`OpensWhatWasAsked` names its item), the blank form of a later visit
(`WipedOnlyByRevisit` names the visit), dependencies on removed nodes and
colliding identifiers (`OnlyRemovalDangles`, `DuplicatesAreLoadedOrTyped` name
them), and the update that deletes (`RegisteredUntilRemoved` names the node).

### What makes each component correct

- Queue and worker: no task is lost except where a log line or a crash accounts
  for it; a decision about a task is final; every task is decided; permits are
  conserved; an alert's task has had its turn to be saved.
- Rule evaluation: alerts are what is due, at most one per task and rule, all or
  nothing.
- Breaker: counters fit the state; recovery needs a clean run; an open breaker
  lets nobody through, cools down, and eventually tries again.
- DAG executor: a node's inputs are there when it runs, its result is final, an
  execution returns, with everything that some order can run.
- Cache: a hit answers the question that was asked.
- Session: a token that is still good is not thrown away by a call that
  carried it; a dead session ends on the login page.
- Pages: at rest they show what the server has; no spinner turns for nothing.
- Forms: a dialog is for what it was opened for; the agent's configuration is
  not overwritten by a form nobody filled.
- Pipelines: what is registered can be executed; only removed and changed
  identifiers make a graph unacceptable; what is drawn is saved, but for edges
  to a changed identifier; a pipeline disappears only when it is deleted, or for
  such reasons.
- Ingestion: one session per camera, bounded reconnects, the reader released.
- Redis client: it recovers. Rate limiter: at most the rate per window.
  WebSocket manager: a dead connection leaves, a live one gets every broadcast.
  Trace store: bounded memory, every listed trace has its detail.

## 2. Modules

| Module | Models | Checked by |
|---|---|---|
| `TaskLedger` | abstract: what the service promises about a task | implemented by `Worker` |
| `Worker` | stream, consume loop, coroutines, queues, drains, crash | `MCWorker` |
| `WorkerProofs` | theorems about `Worker` and its refinement of `TaskLedger` | TLAPS |
| `RuleEvaluation` | one evaluation after another, with the admin's edits; the engine as operators | `MCRuleEvaluation` |
| `RuleEvaluationProofs` | theorems about `RuleEvaluation` and the engine | TLAPS |
| `Breaker` | transitions of a breaker as operators on its value | through the next two |
| `CircuitBreaker` | one breaker and concurrent callers | itself |
| `CircuitBreakerProofs` | theorems about `CircuitBreaker` | TLAPS |
| `PipelineRun` | abstract: what executing a pipeline promises | implemented by `DAGExecutor` |
| `DAGExecutor` | concurrent executions of one pipeline over shared breakers | `MCDAGExecutor` |
| `DAGExecutorProofs` | theorems about `DAGExecutor` and its refinement of `PipelineRun` | TLAPS |
| `ResultCache` | the cache of one camera and its users, command by command | `MCResultCache` |
| `ResultCacheProofs` | theorems about `ResultCache` | TLAPS |
| `Session` | both consoles' login: token, tabs, guard, interceptors, timer, the server's tokens | itself |
| `SessionProofs` | theorems about `Session` | TLAPS |
| `Tables` | the pages of both consoles that show a list or an item, and their stores | `MCConsole` |
| `TablesProofs` | theorems about `Tables` | TLAPS |
| `Dialogs` | the form dialogs of both consoles | `MCConsole` |
| `AgentForm` | the agent's configuration page of v1 | `MCConsole` |
| `PipelineEditor` | the pipeline page of v1, its store, the pipeline routes of the API | `MCConsole` |
| `ConsoleProofs` | theorems about `Dialogs`, `AgentForm` and `PipelineEditor` | TLAPS |

`Tables`, `Dialogs`, `AgentForm` and `PipelineEditor` are the parts of a console
behind its login. They are not composed: each has its own store, and the one
exception, the models that the pipeline page fetches for its node dialog, is to
the page of the models one more `Refresh`. `MCConsole` only puts their instances
into one run: the first state says which of the four the behaviour is one of.

Definitions named "Mutated" stand beside the definition they change. They are
plausible bugs; no specification uses them, and putting one in the place of its
neighbour makes the property listed for it in `PROJECT.json` fail.

### Worker

State: `stream` (not delivered), `pel` (pending), `reader` and `inHand` (the
consume loop), `job` (the coroutine of each task), `lineup` and `permits` (the
semaphore, first come first served), `dbq`, `dbBusy`, `ruleq`, `ruleBusy` (the
queues and drains), `rows` and `alerted` (the database). `fate` is what the log
says of a task whose row will never come; it is written where the code logs, at
a trim and at a crash, which nobody logs.

Actions follow the awaits. `Deliver`, `Spawn`, `Ack` are the three stretches of
the consume loop: the generator acknowledges an entry when it is asked for the
next, after `create_task`. `Acquire` enters the semaphore and parses the entry.
`FastPath` and `Agent` are what the two paths return, `Raise` any exception of
either. `SaveNow` is `_enqueue_save` from its first put on: with room in both
queues it is one step, since `put_nowait` does not await; a full queue leads to
"dbput" or "ruleput", where `DbPut`/`RulePut` race with the timeouts. `RuleTurn`
is the second half, which follows the first without an await. `Crash` loses the
memory; `Restart` joins the group under a new name and reads new entries only.

Two things the model takes from the code that a reader may not expect. The
agent raises for every frame that decodes, because `if image_data` is asked of
an array (`src/agent/agent.py:78`): `Agent` answers only for tasks without an
image. And `run_worker` is modelled with the `QwenVLClient` that
`src/worker.py:192` names but does not import, as if it were there: without it
there is no worker to model.

Left out: the frame itself, latencies, metrics, the video cache (its push cannot
fail a task: its exceptions are caught), the WebSocket event. One worker process
is modelled, as in `docker-compose.yml`; several would share the stream, and
each would be this module over its share.

### RuleEvaluation

`_rule_worker` evaluates one task at a time. `Begin` reads the enabled bindings
and keeps those whose camera fits; `Look` is the loop for one binding up to the
duplicate check, `Check` the check and the insert, `Commit` the end. The order
of the bindings is open, since the query has none. `Raise` is an exception of
`evaluate`, `DbError` one of the database; both discard the session. The admin's
edits come in between; a row of a rule may be read as it is or as it was earlier
in the evaluation (`SeesOn`, `SeesOff`), which covers the session's identity map
and both isolation levels the two supported databases have by default.

The engine's two loops over the detections of one frame are given by the tracks
known after the first n of them (`TracksAfter`, a recursive function), which
decide whether the next detection is a match. It starts with none, since the
code creates engine and state anew for each task. With that state no track
outlives a frame, so a loitering time above zero never triggers; the design
document `2026-07-12-rule-based-alerting-engine-design.md` intends the state to
live on. A binding with `scene_type` alone never applies, as no result has that
key at its top. After the commit, reading `alert_obj.id` raises, because this
session expires its objects; the exception is logged, the alerts stay and the
event is not sent. `config_overrides` is a text column, so an override raises.

Polygons are abstracted to one bit per detection, and the bit is the same for
all rules: each rule looks at one polygon. Directions "within" and "both" are
left out: they are the disjunctions of what is there.

### Breaker and CircuitBreaker

The breaker is a record; `age` is the time since the last recorded failure and
saturates at the recovery timeout, the only value it is compared with. `Enter`
is `call` up to the await: reading `state` may turn open to half-open. The
function returns later (`Succeed`, `Fail`), or is cancelled, which is no
`Exception` and records nothing. `streak` and `cooled` are history for the
properties: successes since the last failure, and time since the breaker opened.
Total counters are left out: they are only reported. A success in the closed
state does not reset the count, so "consecutive failures" in the log message is
a count of failures since the breaker last closed; the model does as the code.

### DAGExecutor

`deps` is any dependency function of the pipelines considered. `NextWave` is the
loop from one `gather` to the next, with nodes that have no handler settled at
once; `Launch`, `Return`, `Raise` are a node's coroutine before and after its
await. All executions share `breaker`. `Tick` lets each breaker's time pass on
its own, which admits every combination of clock readings. In
`MCDAGExecutor.cfg` a breaker opens at the first failure, so that refusals and
half-open probes occur with two executions; the code's threshold of three only
makes them rarer.

### ResultCache

`Get`, `Scan`, `Probe` are the lookup's Redis commands, `Store`, `Add`, `Expire`
those of `set`; `GetFails`, `GetError` and `SetError` are Redis errors, which
both users treat as a miss and as nothing: `GetFails` at the first GET or at
the count of the hit it found (the INCR raises, and the hit is lost), `GetError`
later in the lookup. `Near` stands for the Hamming distance of the
perceptual hashes; it is reflexive and symmetric and need not be transitive.
A member of the index has its age; those older than the TTL are left out,
because lookups ask for the last TTL only, and the key's own expiry is kept. The
lookup's loop passes over candidates of another context or beyond the threshold
without an await (`GoOn`), so that `Probe` meets matching ones only, with
whatever entry they have by then.

### Session

`storage` is the `token` of local storage, `memory[t]` the auth store's copy in
a tab, `requests` the calls in flight of each tab, `valid` what the server
still accepts. `Visit` is a navigation through the router's guard, which asks
local storage in v1 and the tab's store in v2. `LoadPage` is the browser
loading the page, on the user's wish or because the 401 interceptor set
`location.href`: the store starts from local storage and the calls of the old
page are gone. `Poll` is the timer of v2's dashboard, whose second call follows
the first (`more`). `Unauthorised` is the interceptor, which treats every 401
alike: an expired token, a late refusal of a call sent under another token, and
a wrong password, for which the server also answers 401. The login's key event
is not guarded by its loading flag, so two logins may be under way. `LoseRequest`
is a network error or, in v2, the ten seconds.

### Tables

One module stands for seventeen pages, a view and a store each; the definitions
`AlertsV1` to `RulesV2` and `AlertStoreV1` to `SceneStoreV2` say what
distinguishes them, and a behaviour is one page's. A call in flight carries its
query, the answer once it was handled, and whether the row object it was made
from is still displayed (`live`): a fetch replaces the row objects, and a
switch that comes back later changes an object nobody sees. `Mount`,
`ChooseQuery`, `Refresh`, `Toggle`, `SaveRow`, `RemoveRow` and `ClearRows` are
the handlers of the views with what the stores do; `HandleCall` is the server,
`ArriveList` to `ArriveReload` what follows each await, `FailCall` every error.
`inOrder` and `alone` are history: they say under which circumstances
`RestShowsServer` may be expected.

A row is a name with a status, and a query is all, those that are on, or one
row. What the model takes from the code as it is: the delete button of v1's
camera page reports success and fetches, but asks nothing of the server
("pretend"); the rules of v2 are removed from the page while the server only
disables them (`soft`); v2's rule switch negates what the row shows when the
answer comes ("flip"); the last answer wins, whatever was asked last. A row of
a model page is a model with one version: switching names no version and the
server then takes the last, removing takes all.

### Dialogs

One dialog of six at a time, again described by what distinguishes it. Opening,
typing and cancelling touch the form only; `Submit` freezes it into a `job`;
`Save` and `Keep` are the server; `Succeed` and `FailSubmit` are what follows
the await, which closes or leaves whatever dialog is open by then. `creates`
says what the server does with something new: `create_rule` and
`create_pipeline` refuse a name that exists, `add_stream` answers as if it had
started a camera that runs and changes nothing, and the camera form of v1 has
no `camera_id`, so that each of its submissions is rejected. A camera that has
stopped is started again with what was submitted; that is what is stored, since
only a submission that is stored already counts as the same camera, so `Keep`
stands for both. `asked` and `left` are history: what the
dialog was opened for, and the item of a cancelled edit that is still in the
form. Cancelling an edit of a rule leaves form and edit mode, so that the next
New Rule shows the old rule and changes it. `OpensWhatWasAsked` therefore says
of a dialog for something new that its form is of no item or of `left`, and of
an edit that it is of the item asked for, without exception.

### AgentForm

The store (`config`, `fetching`, `saving`) outlives the page, the form
(`filled`) does not. `EnterAgent` mounts the page and loads, `LoadArrives`
fills the form of its own visit only, `SaveForm` is possible when the store has
a configuration and the spinner is gone, `ServeSave` replaces the server's
configuration. `lapsed` is history: the load of this visit failed, or a load of
an earlier one ended before it and took the spinner away; a save, and the
server, remember it of the form they were given. The page is safe on a first
visit and on any visit whose own load was the first to end and succeeded,
whatever went wrong in others; `WipedOnlyByRevisit` says what remains, that a
blank form over the configuration of an earlier visit can be saved.

### PipelineEditor

`nodes` is what would be saved, `drawn` and `edges` what the canvas has; a node
has a key besides its identifier because the code changes identifiers in place.
`Drop`, `Connect`, `RemoveNode`, `Rename` and `Erase` are the handlers; a
connection is recorded and not drawn, and what the canvas deletes on its own
(`Erase`) the graph keeps. `AskOpen`, `AskRemove` and `SaveEditor` start calls
of the store, which share one `saving` flag and go on with a second call
(`ArriveFirst`); the second answer closes the editor that is open by then.
`ServeCreate`, `ServeUpdate` and `ServeRemove` are the routes with the registry:
an update unregisters the old graph before the new one is validated, so a
refused update deletes the pipeline, and nodes are kept by identifier, so that
of two with one identifier one remains (`Kept`). Dropped nodes are numbered by
`_dropCounter`, which starts again with every visit; the page's other counter,
`nodeIdCounter`, is set on load and never used.

What the editor gets wrong the properties pin to its cause, for which there are
three histories since a graph was opened: `cut`, the identifiers removed;
`renamed`, those changed, with what they were changed to; `above`, those loaded
that the counter had not reached. A dependency dangles only on an identifier
that was removed or changed (`Lost`). Two nodes have one identifier only if it is
in `above` or was typed (`Typed`). An edge of the canvas that would not be saved leads to
an identifier that was changed. A save carries `Lost` of the moment it was sent
(`lost`, kept until it is handled), which is where `RegisteredUntilRemoved`
looks for the reason of a refusal. None of these properties is confined to
graphs without removals or changes: what was removed or changed excuses its own
identifier only. A node may depend on itself: the editor connects it and the
server accepts it (the executor then returns without it).

## 3. Runs

| Run | Question | Instance |
|---|---|---|
| `worker_safety` | bookkeeping, losses, order of save and alert, final decisions | 4 tasks (routed, agent without image, agent with image, not JSON), 2 permits, queues of 1, stream of 2, 1 crash |
| `worker_progress` | is every accepted task decided? | 3 tasks, 1 crash |
| `worker_intake` | does the semaphore hold back the consume loop? (no) | 4 tasks, 1 permit |
| `worker_ack` | is an entry acknowledged after its row is saved? (no) | 3 tasks |
| `breaker` | counters, clean recovery, cooling, trying again | 3 callers, threshold 3, recovery 2 ticks, 2 probes |
| `dag` | inputs, completeness, termination, the promise of `PipelineRun` | all 64 dependency functions of 3 nodes, 2 executions, one node without handler |
| `rules` | what an evaluation commits | 2 tasks, up to 3 detections of one track or none, 3 rules, 5 bindings, 1 edit |
| `rules_extract` | do model outputs reach the rules? (no) | 1 task |
| `cache` | is a hit of a near frame, and of whose context? | 2 coroutines, 3 frames, 2 contexts, TTL 1, 2 candidates |
| `cache_context` | is a hit of the caller's context? (no) | the same |
| `session` | who loses a good token; does a dead session end? | both consoles, 2 tabs with 1 call each, 2 tokens |
| `consoles`: tables | what pages show at rest; spinners | each of 17 pages; 2 rows, 2 calls in flight |
| `consoles`: dialogs | what forms and submissions belong to | each of 6 dialogs; 2 items, 2 contents and the incomplete one |
| `consoles`: agent | when a blank form replaces the configuration | 3 loads in flight |
| `consoles`: pipelines | which edits spoil a graph; canvas and graph; what is registered | 2 pipelines, a chain of two nodes and a single one; 2 identifiers, 2 changes, 2 calls in flight |

Why the bounds suffice. Worker: four tasks fill two permits, a queue slot, a
drain and leave one in line or in the stream, so every queue is full while
somebody waits, and a stream of two is trimmed. A crash is possible in each of
those states; a second one meets nothing new, as the first leaves no memory.
Breaker: three callers can hold results from before it opened, from the
half-open period and from after; two probes distinguish "all" from "one", and a
threshold of three from both. DAG: three nodes have chains, forks, joins,
cycles of two and three and nodes behind a cycle; two executions are the least
that share a breaker. Rules: three detections hold inside, outside, inside of
one track; two bindings of one rule are the least for a duplicate; one edit
falls before, between and after the reads. Cache: overwriting takes two
coroutines and two contexts on one frame, the index with two members exceeds
what one lookup has in hand, and a TTL of one tick lets expiry fall between any
two commands. Session: two tabs are the least of which one can end the other's
session, and two tokens distinguish the one a late refusal carried from the one
in use; one call per tab suffices because the crossing calls are those of two
tabs. Tables: two calls are the least that cross, and a fetch and a switch in
flight meet each other in both orders; two rows distinguish a row from the
list. Dialogs: two items and two contents let an edit of one item be cancelled
and another be opened, submitted or refused as a duplicate. Agent: of three
loads one is of the visit, one of an earlier visit, and one more can fail or
end between them. Pipelines: two names let two graphs be asked for and their
answers cross, with the first graph edited in between; the chain has a
dependency to dangle, identifiers the counter can reach and pass, and an edge
to erase, and the single node is a graph that differs; other graphs, and none,
come from saving and removing. Of two changes, one meets the other's result
(drop and connect, drop and rename, connect and erase, rename and remove), and
two calls race open with open, save and remove. Calls of the editor differ by
their slot only, so slots are symmetric; no liveness is checked there. For the
safety properties the bounds matter less, because each is also proved for all
values.

What the failing runs show. Each states a sentence of the repository's own
documents or comments and TLC finds the code doing otherwise; `findings` in
`PROJECT.json` quotes them. The worker acknowledges before it processes and
never holds back, so a crash loses everything in memory (`NoSilentLoss` says
precisely what); the fast path's detections never reach the rules; a similarity
hit may be the verdict on another label of the same frame.

Deadlock is not checked where the system may come to rest (all tasks done, the
execution returned, an idle cache); it is checked for the breaker, the session
and the parts of the consoles, which never rest: a user can always do
something.

### Fairness

For the server, weak fairness only, of the program's own steps: asyncio runs every ready
coroutine; node handlers are under `wait_for`, the LLM client under an HTTP
timeout, the queue waits under five seconds; database calls are taken to return
or raise. `WF(Restart)` is the `restart: unless-stopped` of
`docker-compose.yml`. Nothing makes the API push, the process crash or the admin
edit. In `CircuitBreaker`, `EventuallyTriesAgain` needs callers that keep
calling, because an open breaker half-opens only when somebody asks for its
state. `ResultCache` states no liveness.

`Session` has weak fairness of the dashboard's timer, which the browser fires
as long as the page is there, and of loading a page that `location.href` was
set to. Serving a tab's calls and receiving their answers have strong fairness:
the network may lose any call, and a page that is reloaded forgets its calls,
so neither step stays enabled; strong fairness says no more than that the
network is not down for ever, and `DeadSessionEnds` is false without it. Nothing
makes a user act, a token expire or a call fail. The other modules of the
consoles promise no liveness: an answer may never come in v1, which has no time
limit.

## 4. Proofs

`WorkerProofs` proves every safety property of `worker_safety` for every finite
set of tasks and any positive numbers of permits, queue slots and stream entries
(`WorkerAssumption`), with any bound on the number of crashes: `TypeCorrect`, `Permits`,
`Accounted` (`[]NoSilentLoss`), `SaveFirst`, `Pending`, `AtMostOnce`, and
`Implements` (`Spec => Ledger!Safe`).

The inductive invariant `IInv` has six parts, each preserved with the help of
the first two only. `Shape` is `TypeOK` without the upper bound of the permits,
which follows from their balance. `OnePlace` says that a task is at one place:
in the stream, in the hand of the consume loop, waiting, past the semaphore, or
saved. Permits, losses and finality rest on it. A duplicate in the line
would release a permit twice; an entry both in the stream and in a coroutine
would be trimmed and yet get its row, so that `NoSilentLoss` fails; a save queue
with a duplicate would fail a transaction of a row that is stored. `SaveTurnDone`
adds to `SaveTurnFirst` the coroutine that waits for the rule queue, and
`PendingOnce` adds to `PendingIsNotBacklog` that the entry in hand is pending.
A reason in `fate` is never taken back (`FateKept`); with `NoSilentLoss` before
and after a step this gives "lost stays lost", the half of the refinement that
is not visible in the rows. The other half is that only `DbCommit` adds a row
(`RowsFacts`) and that acceptance puts a task into the stream (`AcceptFacts`).
`StatusStep` puts the two together, and `Implements` maps `DbCommit` to
`Complete`, `RuleDone` to `RaiseAlert` and all else to `AcceptOrLose`.

`CircuitBreakerProofs` proves for every set of callers and every positive
threshold, recovery time and half-open limit (`BreakerAssumption`): `TypeCorrect`
(`Spec => []TypeOK`), `Consistency` (`[]BreakerConsistent`), `CleanRun` and
`Cooling` (the two action properties of the run).

The inductive invariant is `TypeOK /\ BreakerConsistent`. Neither part is
inductive alone: that a failure in the closed state keeps the count within the
threshold needs the count to be below it, which is the first conjunct of
`BreakerConsistent`; that closing needs a clean run follows from
`probes <= streak`, which holds only because turning half-open resets the probes
and a failure that resets the streak ends the half-open state; that the breaker
stays open for the recovery time follows from `age <= cooled`: late failures set
`age` back, never forward. Lemmas give the type and the value of each operator
of `Breaker`; the step theorem has one case per action.

`DAGExecutorProofs` proves for every finite set of nodes, any dependency
functions, cyclic ones included, any executions and any breaker settings:
`TypeCorrect`, `Inputs` (`[]InputsPresent`), `Returns` (`[]ReturnsAllRunnable`),
`Final` (`ResultsFinal`) and `Implements` (`RunsAsPromised`). The invariant says
of one execution (`ExecOK`): what runs is of the wave, and the wave is pending;
a running node has no result, nor has a pending one outside the wave; what is no
longer pending has one; everything a node of the wave depends on is completed;
and `Unrunnable`, the union of all sets whose nodes each depend on one of the
set, stays pending and outside the wave. The last part is what makes `Returns`
inductive: when nothing is ready, every pending node depends on a pending one,
so the pending nodes are such a set, and no such set ever enters a wave. For the
breakers it suffices that each can still take a result (`Live`). Executions
share the breakers and nothing else (`OthersStay`), so a step is one lemma about
its own execution.

`Implements` maps the variables of the executor that a caller sees, pipeline,
results and phase, to those of `PipelineRun`, which knows no waves. A node's
result maps to `Settle`, since the wave has its inputs; the step to the next
wave settles the nodes without a handler, or is `Return` when nothing is ready:
with the wave settled, what is ready is all that could be settled
(`PossibleFacts`). Launching a node, refused or not, and the clock stutter or
settle one node.

`RuleEvaluationProofs` proves every safety property of `rules` for any rules,
bindings, tasks, edits and frames. The invariant adds to the four what an
evaluation under way has done (`Progress`): outside one nothing is pending; the
task under evaluation is new; what was added or is being checked was triggered
by a selected binding whose rule was enabled at some time; and a binding that
the loop has passed, whose rule was enabled all through and triggers, has its
rule's alert. The last part is the one `AddsWhatIsDue` needs: the duplicate check sees
the session's own alerts, so the second binding of a rule finds the first's.
`EngineHolds` says that the loops find what they are to find: a track is known
before a detection exactly if it was inside at some earlier one and not outside
since. This is an induction over the detections. The library's induction
theorems take an operator as parameter, so it is done with a least element:
`WFMin` and `NatLessThanWellFounded` give that a set of numbers with 0 and all
successors misses none (`NatSetInduction`), and the sets used are those of the n
for which the statement about the first n detections holds.

`ResultCacheProofs` proves every safety property of `cache` for any callers,
frames, contexts, requests, threshold, TTL and number of candidates. An answer
goes through an entry, a member of the sorted set and a candidate, each read in
a step of its own, so the invariant says of each what it keeps of the request it
comes from: an entry under a frame answers a request for that frame, the sorted
set and the candidates are of requests, the first candidate matches, and the set
is ordered by age without repetition (`Sorted`), which `Add` keeps by taking the
member out of its old place and `Tick` by taking a front piece off.

`SessionProofs` proves `SessionTypeCorrect` and `SessionFreshTokenSafe`. The
latter needs that tokens are numbered in the order they are issued and that
whatever is stored, carried or accepted was issued before: then a token that
is not accepted is never accepted again, and the refusal of a call that carried
the stored token can only come when that token is no longer valid.

`TablesProofs` proves `TablesTypeCorrect`, `TablesSpinnerHasACall` and
`TablesRestShowsServer`. The second is inductive by itself; its proof rests on
what removing a call from the middle of a sequence leaves in place (`RemoveAt`),
stated once as lemmas.

`RestShowsServer` speaks of a page at rest only; what makes it true happens
while calls are under way. The invariant (`ComesToAgree`) follows the answers
that are still to come. As long as the server handles the calls in the order
they were sent, it has handled the first h of them (`HandledUpto`). Then either
a fetch is still to be handled or a removal still to fetch the list (`Renews`),
or what the page will show after those h answers, one after the other, agrees
with what the server has now (`Settles`); where a list is among the answers, it
is enough to begin with that. Handling a call changes the server and adds an
answer, and the lemmas `SwitchAgrees` and `RemoveAgrees` say that one keeps up
with the other: a switch that is looked up does always, one of the clicked row
object only if no other call overlapped, because then the row still shows what
it was asked to change (`OneAtATime`). When the first answer arrives the page
shows what it was to show after one answer and h is one less (`FirstSettles`).
A fetch sent by anybody renews the list for the query on display, which is why
the invariant also says that the last fetch asks for that query
(`LatestAsksForQuery`), and that pages which change rows show all of them
(`AsksForAll`). TLC checked this invariant on an instance of one row with three
calls and of two rows with two before it was proved.

`ConsoleProofs` proves for the forms the types of both modules
(`DialogsTypeCorrect`, `AgentFormTypeCorrect`), `DialogsOpenWhatWasAsked` and
`AgentWipedOnlyByRevisit`. For the dialogs the invariant adds that a form belongs to an
item exactly while the edit mode is on, that this item is `left` whenever the
dialog is closed or for something new, and that a submission keeps the button busy until
its list is back (`FormConsistent`, `JobConsistent`): only with them does a
late success leave a dialog that was opened again consistent. For the agent's form it says
when an unfilled form can be on display at all: as long as a visit has not
lapsed, its load is in flight under the spinner or its form is filled
(`CalmVisit`, for which a visit has one load, `OneLoad`); on a first visit the
store has no configuration before the form is filled (`FirstVisit`); and nothing
is sent before the store has one (`SentFilled`).

For the pipelines it proves `EditorTypeCorrect` and each of the five
properties of the editor, for any names, any identifiers, any set of closed
graphs without duplicates registered at first and any number of calls in flight.
Three of them are part of the invariant as they stand (`GraphOK`), with one
conjunct more: every identifier in the graph was counted, loaded ahead of the
counter, or typed (`Numbered`), so a dropped node meets none but those of the
latter two kinds. Calls that are on their way carry graphs, so the invariant
speaks of them too (`Carries`): a graph that an open call brings was registered
when it was served, hence closed and without duplicates, whatever has become of
the pipeline since; and a graph that a save brings dangles only where its
editor had lost identifiers. Keeping one of several nodes with an identifier
adds no dangling dependency (`KeptDanglesNoMore`), so a graph that is refused
did dangle when it was sent, and `RegisteredUntilRemoved` follows.

Only model-checked: `EveryTaskSettles`, `EventuallyTriesAgain`,
`EveryExecutionReturns`, `EveryEvaluationEnds` and `DeadSessionEnds`. They are
liveness properties, which stay with TLC for good. The inductive invariants of
`RuleEvaluation`, `ResultCache` and of `RestShowsServer` were checked by TLC
before they were proved, as invariants of the runs' instances.

## 5. Plan

What is left, by weight in the system:

1. `CameraSession` and its manager with the video cache: reconnects that are
   never forgotten, a backlog that counts acknowledged entries only, the
   overlap of two sessions of one camera, a reader that is not released, and
   eviction while it iterates. Abstract: one reader per camera.
2. `RedisClient`: the retry loop over globals, the flag that sticks, concurrent
   first callers; composed with the rate limiter and the queue's local fallback
   as the API's intake, which `Worker.Push` then refines.
3. `LLMClient`, the agent's escalation and configuration changes: attempts,
   fallback without tools, a client closed in use.
4. `ConnectionManager`: connections under heartbeat, endpoint and broadcast.
5. Router reload, model registry with versions (the rows of `Tables` then have
   several), creating rules and bindings, trace store, sampler.
6. Abstract specifications of rule evaluation (a task's alerts as one atomic
   decision) and of the breakers inside `DAGExecutor` (each node's is a
   `CircuitBreaker`), with their refinements.

## 6. Not modelled

Model adapters and inference libraries, image decoding and hashing, the data
pipeline (sequential, offline), notifications, storage and configuration, schema
migrations, deployment manifests, metrics and logs: they keep no state that
interleaves, or are libraries and I/O. `PROJECT.json` gives the reason for each
component; those under Plan are left out only for now.

Of the consoles: layout, charts, formatting, paging (a page is one query of many),
and v2's `fetchStats`, which fills numbers nobody acts on. Of the pipeline
editor: the entry and output nodes of a pipeline and the content of a node's
configuration, which neither editor nor registry looks at. Of the agent's form:
the defaults of a provider and the fields of routing rules, which are part of
the form's content. Types, styles and static configuration of the consoles have
no behaviour.
