# TLA+ models of the LLM platform

These modules model the platform under `src/src`: how requests are routed to providers,
throttled and streamed, how agents run, communicate and ask for approval, what is
remembered, retrieved and cached, who may do what, and how the HTTP service is put together
from these parts. TLC checks the models on small instances (`*.cfg`); TLAPS checks proofs
about twenty-five of them for every value of the constants (`*_proofs.tla`,
`StreamInterrupter.tla`). `PROJECT.json` lists components, runs, the code each definition
stands for, the hazards and the results. Paths below are relative to `src/src` unless they
begin with `src/`.

    tlc -workers 2 -config Calls.cfg MCCalls.tla
    tlapm Calls_proofs.tla

Contents: 1 the system, 2 the modules, 3 the runs, 4 fairness, 5 the proofs,
6 where code and documentation differ, 7 what is not modelled, 8 the plan.

## 1. The system

One asyncio process serves HTTP (`api/app.py`). Its startup publishes services
on the application object one by one, each reading what earlier ones left:
database, Redis, the model client, the agent executor with the expert registry
and the approval gate, the RAG pipeline, tools, stores, examples. The gateway,
the streaming service and the MCP session manager are classes for the same
process, with an `asyncio.Lock`, an `asyncio.Condition` or nothing around their
state.

What makes the code hard is the same everywhere: a coroutine runs undisturbed
from one await to the next and anything may happen at an await, cancellation
included. So a model's step is what a coroutine does between two awaits
that can suspend it, and the state of a coroutine is the await it is at. A
method that never awaits is one step, and where such code is a fold over its
input (a chunker, a scanner, a window of messages) it is a function, checked
over all inputs up to a bound against what it must achieve.

| Component | State it keeps | Operations | Interacts through | What is hard | What makes it correct |
|---|---|---|---|---|---|
| Circuit breaker `ai_gateway/circuit_breaker.py` | state, failure times, openings, allowance and successes of HALF_OPEN | before_call, on_success, on_failure, reset | called around every provider call | late reports, cancelled calls, streams that never asked | few failures while CLOSED, bounded probes, growing backoff, no state for ever |
| Gateway `gateway.py`, `fallback.py`, `retry.py`, `cache.py` | breakers, response cache, audit | route, route_stream | key manager, limiter, breakers, providers | retries inside fallbacks inside concurrent requests; the request is changed on the way | every admitted call reported once, cache keyed by the model that answered, bounded attempts |
| Rate limiter `rate_limiter.py` | two token buckets per tenant and endpoint, tiers | check, check_or_wait, set_tenant_tier | gateway, Redis | waiting callers, two buckets, several instances | no window lets through more than burst + refill; nobody sleeps past a deadline |
| Providers `load_balancer.py`, `provider_registry.py`, `providers/` | weights, counters, latencies; mappings; pieces of tool calls; totals | select, register, close, chat_stream | gateway | weights that change, a registry that changes while it is closed, pieces that mix | shares kept, calls put together whole, everything closed |
| Backpressure `streaming/backpressure.py` | queue, closed flag, two conditions | produce, consume, try_*, close | streaming service | notification long before the notified task runs, cancellation | bounded FIFO, no lost wake-up, close releases all |
| Streaming RAG `streaming_rag_service.py`, `latency_tracker.py` | per stream: progress, heartbeat task; shared: queue, tracker, scanner buffer | stream_rag_response, close | the client that reads, RAG, providers | a generator may be cancelled or abandoned at every suspension; streams share objects made for one | no orphan tasks, true counts, blocked is final |
| Interrupter `stream_interrupter.py` | state and reason of each stream, one lock | start_stream, add_token, interrupt, resume_stream, cleanup | streaming endpoints | late tokens, second reasons, the lock | text and reason frozen, operations return |
| Scanning and masking `security/pii_detector.py`, `streaming/stream_scanner.py`, `content_safety.py`, `injection_defense.py` | a window over the stream, detections | detect, mask, monitor_token, check | streaming service, API | values that overlap, secrets cut into tokens | only values change, a completed secret ends its stream |
| Experts and approvals `agents/expert.py`, `mcp/approval.py` | runs; pending requests and history | run, request, wait_for_decision, decide | API, tools | polls, deadlines and users race; cancelled runs | each gated execution has an approval of its own; decisions final; runs end |
| MCP client `mcp/client` | connections, sessions, pipe, discovered tools | connect, disconnect, health checks, requests, discovery | servers over pipes and HTTP | eviction under the lock, late replies, searches that overlap | calls return, counts agree, a tool is found once |
| MCP registry, pool, server `mcp/` | servers, peers, handlers | register, health monitor, handle_request | client, API | dropping and reconnecting at once, hooks that refuse | a server that stays is connected again; refused tools do not run |
| Agent runs `agents/executor.py`, `patterns`, `pev.py`, harness | plan, trace, limits | run | model, tools | the model may answer anything | calls bounded, all runnable steps run |
| Agent communication `agents/communication` | mailboxes, futures, heartbeats, graph of waits | send, request, respond, track, detect | agents | late responses, cycles | a response reaches its request; a cycle of the graph is found |
| Orchestration `agents/orchestration`, `langgraph_workflows` | outputs, bids, votes | run of each pattern | agents | failures in the middle | bounded calls, asked in turn |
| Agent tools `agents/tools`, `agents/safety.py` | registry, executions, history, log | register, execute, check, audit | executor, MCP | retries, failing writes of the log | categories agree, retries bounded, log catches up |
| Memory `memory`, `services/conversation_memory.py` | blackboard with versions; short, long, episodic; summaries | write, add, update, forget, consolidate, compress, clear | agents, API | read, await, write; versions begin anew | no update lost, indexes agree, what was cleared stays cleared |
| Resilience `resilience` | resources | register, reclaim | everyone | collected before awaited | nothing cleaned twice, expired ones go |
| RAG `rag` | index, queue, caches, stores, files | upload, delete, search, process, save, load | API, streaming | rows, ids and files apart; overlapping batches; layered lifetimes | search agrees with the documents, answers bounded in age |
| Answering `rag/advanced`, `quality/answer_voting.py` | documents, answers, messages | answer | model, retriever | answers that are nonsense | bounded rounds, unsupported answers not passed off |
| Prompts `domain/prompt_engineering` | versions, examples, trends, compiled modules | update, rollback, select, optimize, compile | database, API | concurrent sessions | no version lost, selection is best, texts within budget |
| Experiments `ab_testing`, `evaluation`, `herms` | experiments, splits, the loop's configuration, live answers | assign, record, optimize, check | pipeline, API | configuring before measuring, experiments that overlap | ends at its best, winners tested, users stay |
| Tokens `domain/token_management` | records, budgets | record, alerts, allocate, optimize_prompt | gateway | days and months, rounding | spending is seen, breakdowns agree |
| Context `domain/context_management` | five zones, windows | add, truncate, reorder | prompts | condensing and cutting | what is kept fits, least important first |
| Conversation `domain/conversation` | state machine, slots, index of names | trigger, fill, add_turn, resolve | API | callbacks that trigger events, forgotten turns | executed only confirmed, mentions are kept |
| Access `security`, `api/dependencies.py`, `human_in_loop.py` | roles, policies, keys and copies, approvals | check, add, revoke, resolve | API, Redis | three awaits around one key | deny prevails, keys run out, decided once |
| Records `observability/audit.py`, `harness` | files with chained hashes, operations, snapshots | log, verify, query, commit, abort, recover | API | restarts, undoing that overlaps | tampering shows, undone once and in reverse |
| HTTP API `api`, `rag/pipeline.py` | the application object, caches, streams, rows | startup, endpoints | all | steps that fail, order of publishing | wired alike, searches answer with the best, streams whole |
| Token engine, JSON buffer, SSE formatting; MCP tools; built-in tools; repositories, metrics, frontend | texts, connections, pages | — | — | — | not modelled, see 7 |

## 2. The modules

| Module | Models | How |
|---|---|---|
| `BreakerOps` | the methods of `CircuitBreaker` | functions from a breaker's state to the next, with lemmas about them, shared by `CircuitBreaker` and `Gateway` |
| `CircuitBreaker` | one breaker and the calls around it | one action per report of the gateway |
| `BreakerProtocol` | the transitions the docstring draws, with bounds | abstract; refined by `CircuitBreaker` |
| `Gateway` | `GatewayRouter.route` | composes requests, the cache and one `BreakerOps` breaker per provider |
| `RateLimiter` | `RateLimiter`, `TokenBucket` | one tenant on several instances |
| `Providers` | load balancer, registry with closing, streamed tool calls and totals | by class |
| `Backpressure` | `BackpressureController` | producers, consumers, both conditions |
| `BoundedFifo` | a bounded queue that can be shut | abstract; refined by `Backpressure` |
| `StreamingRag` | `StreamingRAGService` | concurrent streams and the objects they share |
| `StreamInterrupter` | `StreamInterruptionHandler` | one lock, streams by name; with its theorems |
| `Masking` | detector, masking, stream monitor, content filter, prompt sections, placeholders of prompts | texts up to a length, by class |
| `ToolApproval` | `BusinessExpert.run`, `ApprovalGate` | concurrent runs, users, deadlines; with the values of its constants for TLC |
| `McpSessions` | `SessionManager` | callers around one lock, at their awaits |
| `McpPipe` | client and server on one stdio pipe | lines sent, served, unread; who waits for which |
| `McpRegistry` | `MCPRegistry` with its health monitor | servers that die and return |
| `AgentRuns` | executor, ReAct, plan-execute, ReWOO, reflection, PEV with its harness | a graph of nodes; what the model says is a choice |
| `AgentBus` | message bus, heartbeats | queues, futures, timeouts, cancellation |
| `DeadlockDetector` | waits-for graph, and how edges are dropped from it | the search as a recursive function |
| `Orchestrations` | eight patterns and the router | by kind |
| `Tools` | registry and execution, discovery, MCP server and pool, guard, log | by class |
| `Blackboard`, `Memory`, `ConversationMemory` | `memory`, `services/conversation_memory.py` | tasks at their awaits |
| `Reclaimer` | `ResourceReclaimer` | rounds that overlap |
| `RagIndex` | upload, delete, search; the incremental queue; the layered caches | by class |
| `Retrieval` | chunkers, fusion, batches of embeddings, FAISS store, outside stores, terms | by class |
| `RagLoops` | Self-RAG, agentic RAG, CRAG, the vote | by strategy |
| `Prompts` | versions, examples, cutting, trends, compiling, cleaning | by class |
| `Experiments` | A/B tests, splitter and canary, golden data sets, tuning loop, live monitor | by class |
| `TokenUsage`, `Dialogue`, `ContextWindows` | `domain/token_management`, `conversation`, `context_management`; in the last also how the gateway cuts a request | by class |
| `Access` | RBAC, ABAC, key look-up, human in the loop | by class |
| `Records` | writing and verifying the audit log, transactions, checkpoints | by class |
| `Api` | startup, search, evaluations, completions, tenants, reports | by class |
| `MCGateway` | — | a map of providers and two of fallbacks for `Gateway` |
| `MCCalls`, `MCWaits`, `MCLimits`, `MCComponents` | — | several components in one run (below), and the statements of the documentation some runs refute |
| `*_proofs` | — | the theorems |

**By class.** Some modules hold several classes of code that share a purpose and
no state. A variable (`kind`, `prepares`, `retrieves`, `serves`, ...) is chosen in
`Init` and never changes; each disjunct of `Next` is of one class and the
variables of the others stay as they are. A state space is then a sum, not a
product.

**By part.** The MC modules do the same one level up: `part` names the component
that runs, `Parts` in the `.cfg` which there are; a component that does not run
stays as it starts. `MCCalls` holds what goes out: the breaker, the choice of a provider
and its adapters, the sessions (their liveness), the pipe and the registry. `MCWaits`
holds who waits for whom: the queue, the interrupter, the bus, the blackboard, the
detector, the memories of agents and of conversations, and the tools. `MCLimits` holds
what is limited and recorded: the limiter, the reclaimer, the runs of agents and the
patterns that orchestrate them, the sessions, access and the records. The constants of
these three are parameters, so that theorems can be about them. `MCComponents` extends
`ToolApproval` and holds the other ten, with constants of its own. An invariant of a run is one conjunction
per component (`QueueInv`, `SessionsInv`, ...), each part of which is a named
operator with its own comment; `RunsInv`, `MemoriesInv`, `RetrievalInv`, `DomainInv` and
`ServingInv` join those of related components.

Correspondences worth knowing:

* **Time** is counted in ticks and kept as ages or as time left, not as clock
  readings, wherever the code compares only differences: a failure's age, an
  OPEN breaker's `elapsed`, a request's `left`. Ages stop at the value beyond
  which the code no longer tells them apart (`OpenCap` does the same for the
  number of openings). The limiter's windows, the caches and the reports
  of `Api` need a clock.
* **CircuitBreaker**: `before_call` is `Admits` and `BeforeCalled`. Its allowance
  is assigned by the transition to HALF_OPEN and again afterwards; the model
  keeps both. `BeginStream` is `route_stream`, which reports without asking.
  `probing`, `probes` and `lost` are history.
* **Backpressure**: `notFull`, `notEmpty` are the conditions' waiters;
  `wokenP`, `wokenC` are tasks that were notified and have not run. The two
  conditions have different locks, yet guard one deque; that is sound only
  because nothing inside suspends, and a step of the model is such a stretch.
  A notified task that is cancelled does not pass its notification on (Python
  3.12); `lostP`, `lostC` count those.
* **StreamingRag**: `pc` names the yield or await a generator is suspended at.
  Closing a generator at a yield is `Abandon`: the next yield in its finally
  clause is a `RuntimeError`. What the scanner does with a token is a choice
  here and is modelled in `Masking`.
* **Gateway**: all requests ask the same question, so a cache key is a model's
  name. `TryFrom` is the loop of `FallbackChain.execute` up to its next await.
  `admitted`, `reported`, `dropped` and `attempts` are history. The choice among
  providers, of which the gateway offers one, is in `Providers`.
* **Providers**: latencies are small numbers, and shares are compared by products instead
  of ratios. A piece of a streamed tool call is its place in the call; `kept` is what the
  adapter has of each call, `calls` what comes of it. `steady` says that weights and
  candidates have not changed since the counters began, which is when shares can be told.
* **DeadlockDetector**: the nested `dfs` is one recursive function from all that a
  search depends on (what is visited, the path, who is next) to what it leaves. Python's
  sets have no order, so the agents are taken in one that is fixed and unknown.
* **RateLimiter**: levels are in units of which a token is `Cost`, so that
  refills of less than a token exist. A bucket that does not exist yet is full;
  it is created with the tier of the moment and keeps it.
* **ToolApproval**: a request's random identifier is the call it is made for.
  The pending registry and the history are one function `status`.
* **McpPipe**: a line is its number, and the server answers every line, those of
  notifications too (`Serve`). `answered` pairs the line of a request with the line that the
  reply it read is to, a history that `OwnReply` and `RepliesOnce` look at.
* **Masking, Retrieval, Prompts, ContextWindows**: a text is a sequence of kinds of
  characters or of lengths, just fine enough for the code's conditions; what a
  regular expression matches is a set of spans. Sorting, cutting and joining
  are done as the code does them.
* **Records**: the hash of an entry is the entry's number, so tampering is a number
  that does not fit; `Written` and `Log` are apart, a restart may come between.
* **Api**: `Starting` runs the twelve steps of `lifespan`; an attribute is
  published where `_init_*` assigns it, and `Answers` gives for each endpoint
  the status codes that follow from what is there. The search is over chunks, of
  which a document may have several, in a ranking that is fixed; `Reach` is how many of them
  are taken before the filters.
* **Experiments**: a configuration is the number of the iteration that made it; None is
  the empty best configuration, with which `configure` changes nothing.

## 3. The runs

"Violation" runs check a statement of the repository's own documentation that
the code does not keep (section 6).

| Run | Instance | Shows |
|---|---|---|
| `calls` | a breaker of threshold 3 with three calls and a stream; three providers by weight and by latency, two ids that are registered, streamed and closed; two tasks on a pipe of five lines; two registered servers with one fault; callers of sessions (191,637 states) | the breaker's window, bounded probes, its one way to wedge, growing waits, refinement of `BreakerProtocol`, no state for ever; shares are kept, closing reaches every provider, tool calls are put together and requests counted; calls on sessions return; a server that stays is connected again; replies on the pipe are read in the order of the lines and none twice |
| `mcp_replies` | one client, five lines | **violation**: after the handshake a request gets the reply to the notification before it |
| `breaker_streams` | one call, one stream | **violation**: a stream starts while its provider's breaker is OPEN |
| `waits` | two producers and two consumers of a queue of 2; two interrupted streams; agents with mailboxes of limited length and a blackboard; three agents that ask each other, four requests; two callers of a conversation; an agent's short and long memory; a registry, discovery, server, guard and log of tools (416,760 states) | the queue loses, repeats and reorders nothing, no wake-up is lost, closing releases all, refinement of `BoundedFifo`; text and reason of interrupted streams are frozen; a response reaches its request once; an update replaces what was read; nobody waits in the graph without a request, the search finds the cycles of the graph exactly; what was cleared stays cleared, in order; indexes and counts of memories agree with them; categories agree with the tools, retries are bounded, a tool is found once, refused tools do not run, the log catches up |
| `streaming_rag` | two streams of two tokens from two sources, a queue of 2, a buffer of 2 (557,230 states) | heartbeats end with their streams, counts are true, a stopped stream sends nothing, closing ends all |
| `streaming_rag_stall` | the same, a queue of 3, a patient client | **violation**: a stream to a client that keeps reading stops for ever |
| `interrupter_resume` | two streams, nothing cancelled | **violation**: `resume_stream` never returns |
| `gateway` | two requests, four models, two providers, one retry, cache (184,192 states) | the cache holds what its key says, breakers hear of each call once, attempts are bounded, a request that gives up has tried all; requests end |
| `gateway_skip` | every model falls back to the same one | **violation**: a failed model is tried again |
| `limits` | a waiting caller, two tiers, five half-seconds; two rounds over two resources; five kinds of runs of agents, eight patterns and the router; two callers and two sessions; roles, five policies, keys, approvals; a logger over two days that restarts, two aborts of a transaction, snapshots (646,170 states) | the bound of every window, sleeps end at the deadline; resources are cleaned once, expired ones go; the loops of agents are bounded and run what can be run; patterns ask as often as their kind allows and in turn; connections are counted, none outlives its session; deny prevails, keys run out, approvals are decided once; tampering shows, operations are undone in reverse, the latest snapshots are kept |
| `rate_limiter_redis` | two instances, one burst | **violation**: each instance has a budget of its own |
| `components` | two runs of experts of two steps, answers of up to two calls; the ten components below, one at a time (593,885 states) | each gated execution has an approval of its own, pending requests are awaited, decisions final, runs end; one invariant per group, below |

Beside the approvals `components` asserts: `RetrievalInv` (the index against its documents, the
queue, the caches' age; chunks, fusion, batches, stores; rounds of the answering
strategies and what an answer rests on), `DomainInv` (versions of prompts,
selection and cutting; winners of experiments, the tuning loop; usage and alerts,
conversation, context windows) and `ServingInv` (masking, scanning, placeholders;
startup, search, evaluations, completions, reports).

`SearchIsExact` (`waits`) stands apart from the invariant of its component, because it says
what a recursive definition computes and has a proof of its own.

The search of the API (`SearchBest`) ranks three chunks of two documents of different
bases, with two candidates per answer where the code has 50, and at most three where it has
10,000: asked for one chunk of the second base, it cuts its candidates before the only one that
matches. It then answers with nothing, as the code does when more chunks of other
bases rank first than it takes; the property says that it falls short in no other case.
The tuning loop sees scores of 0, so that it also ends without a best configuration.

Why the bounds are enough. Every interleaving of interest here is between two
actors of a kind (two producers that race for a place, two requests on
one cache, two callers of one lock, two sessions on one template), or between
one actor and time, a user, a failure or a cancellation. The bounds that count
things are one beyond the value at which behaviour changes: a threshold of three
failures with a window of two ticks lets failures expire; four tokens wrap
around a queue of two; texts are longer than the windows, chunks and keys they
are compared with; queues, caches and snapshots are filled and evict. Bounds
that belong to the models only are named and commented in the CONSTANTS of each
module (`OpenCap`, `TokenBound`, `TimeBound`, `MaxSent`, `MaxText`, ...). The proofs
of section 5 have no such bounds, except those a constant states.

Deadlock is checked in `breaker_streams` only, where time never stops. The other
runs have parts that are over: all requests answered, all inputs tried, the
clock at its bound. That nobody waits for ever
is stated by the liveness properties and by `NoLostWakeup` instead.

Each property of a run that passes has one mutant in `PROJECT.json`, a plausible bug in a definition
that TLC must then find: a dropped check after waking up, a reset that is
missing, a lookup key used again, a copy that outlives its original.

## 4. Fairness

Liveness holds under these assumptions and no others.

* breaker (`StatesAreLeft`): time passes, requests keep arriving, and a call that
  is not cancelled reports: the HTTP clients have timeouts. Nothing is assumed
  of streams' beginnings, of reset or of cancellation.
* MCP sessions (`CallsReturn`): a call that is not waiting for the lock goes on,
  the lock is given to a waiting caller. Every call then returns unless an
  eviction waits for the lock its own caller holds.
* MCP registry (`Recovers`): the monitor's rounds go on, a disconnect and an
  attempt to connect end; not that the attempt succeeds.
* queue (`CloseReleases`): the event loop runs a task that was notified. Nobody
  has to produce or consume.
* `streaming_rag`: per stream, the client reads and retrieval and generation
  answer or fail. Heartbeats, closing and cancellation are free.
* `streaming_rag_stall` and `interrupter_resume` are given the same and more: no
  cancellation, no client that leaves. They fail even so.
* `gateway`: a provider answers or fails and a retry's sleep ends.
* limiter and reclaimer: time passes and a due sleep is woken; rounds are begun
  again and go on. A cleanup ends, or fails.
* approvals (`RunsEnd`): time passes, a waiting run polls, a model and a tool return.
  No user has to decide.

In the MC modules fairness is that of the running part: `WF_vars(part = p /\ A)`.

## 5. The proofs

Theorems stand in the six `*_proofs` modules and in `StreamInterrupter`; `BreakerOps` holds
the lemmas on a breaker's operations that two of them share. `Calls_proofs`, `Waits_proofs`
and `Limits_proofs` extend `MCCalls`, `MCWaits` and `MCLimits`, where the constants are
parameters: a theorem there is about `PartsSpec`, for any set of parts, or about the
component that the MC module extends. Five theorems are about a component by itself, a part of
what `components` checks: `VersionsSafe`, `TuningEnds`, `AnswersYoung`, `TasksSafe` and
`DialogueSafe`. All assumptions are the named `ASSUME`s on constants; those of the last four
are conditions that name what the component takes for granted (`TuningAssumption`,
`CacheAssumption`, `TasksAssumption`, `DialogueAssumption`), and `MCComponents` assumes them of
its constants, so that TLC evaluates them. What is proved was model-checked first, and so was each inductive invariant. All that the runs `calls`,
`waits`, `limits`, `streaming_rag` and `gateway` assert as an invariant or of a step is
proved, for every value of the constants, and so is what `components` asserts of approvals.

A proof about a component of `PartsSpec` has four lemmas: its initial states satisfy
the inductive invariant (`...Starts`), its steps keep it (`...Steps`, one
step per action), it implies the property (`...Hold`), and a step of the run is a
step of the component or leaves it alone.

### `Calls_proofs`

**Breaker**: `TypeCorrect`, `ClosedBelow`, `ProbeLimit`, `NoWedge`,
joined in `BreakerSafe` (`BreakerInv`), and `BackingOff` (`BackoffGrows`),
`Refinement` (`KeepsProtocol`). The invariant is `IndInv`. `ClosedBelowThreshold`
and `ProbesBounded` alone are not inductive: whether a HALF_OPEN breaker can be
wedged needs `ProbesAccounted`, where each probe is at the provider, lost, or a
success, or still to come; and a breaker that reports in the wrong state must find
counts at rest (`AtRest`), also the fact that one not CLOSED has opened, on
which the backoff depends. The doubling of the backoff uses `PowersAssumption`,
four facts of the powers of two that no prover here can derive by induction;
TLC evaluates them over the range of the model.

**Pipe**: `PipeSafe` (`PipeInv`): replies are read in the order of the lines they answer, and
none twice. The client reads whatever comes first, so what was read lies before what is in
the pipe, what is in the pipe before what the server has not seen (`Paired`). That a
reply is the reply to its request is not so, and no theorem says it: `mcp_replies` refutes
it in the handshake already, where nothing has timed out.

**Providers**: `ProvidersSafe` (`ProvidersInv`), by class. The balancer: that no provider is
ahead of its share by more than one request is inductive (`BalancerIInv`), by the
products by which the least ratio is found. The registry: an id names one entry (`IdsDiffer`),
a mapping that was not made too early leads to a provider (`MappingsLead`), and what is
still to be closed is looked for under an id it has (`CloseAccounted`). The adapters: of each
call that was heard of, all pieces that were sent are kept if the adapter finds them
(`StreamTyped`), and a step moves a request from those in flight to the totals (`Counting`).

### `Waits_proofs`

**Queue**: `TypeCorrect`, `Conserved`, `InOrder`, `WakeupsSuffice`,
`CloseWakes`, joined with `LostOnlyWhenClosed` in `QueueSafe` (`QueueInv`), and
`Refinement` (`IsBoundedFifo`). `NoLostWakeup` counts tokens against notified tasks
plus those cancelled after notification; the step cases are about how notifying
one task and running one change both sides by one. A promise of `try_produce` is
kept because the histories only grow (`PromisesKept`) and because a call that
has seen a place does not block. The refinement maps the queue and the flag;
steps of waiting and notifying are stutters.

**Interrupter**: `InterrupterSafe` (`InterrupterInv`) and `ReasonsStay`
(`NonResumableStays`). Its invariant is inductive by itself, as `StreamInterrupter`
proves for an action at a time: what a late token, a second interruption or a clean-up
finds is a whole record, because each holds the lock to its end.

**Bus**: `BusSafe` (`BusInv`). A response is set on the future of the request it
answers because every message in a mailbox names a request that was made, by whom and to
whom (`MessagesGenuine`); the count of missed heartbeats is bounded by the requests
that were made (`MissedCounted`).

**Blackboard**: `BlackboardSafe` (`BlackboardInv`). Within one life of a key the
versions only grow, so the version an agent has read stands for the value it
has read (`VersionsTell`). The lives are what makes that true: after a delete
the versions begin anew, and only the model remembers which life a version is of.

**Detector**: `DetectorSafe` (`DetectorInv`). Who waits in the graph has a request in
the list: an edge goes with any of its requests, also while another of the same two
agents is left, so the graph may have fewer edges than the list, never more. A request is
answered, dropped or still there, once each (`DetectorIInv` adds up the three);
of the search only that the requests it drops are in the list is used.

**Search of the detector**: `SearchExactly` (`SearchIsExact`): on every graph of waits of any
agents, in whatever order they are taken, the search reports a cycle if and only if there is
one, and what it reports is a cycle. This is about what a recursive function computes,
and the induction theorems of the library cannot be used; the proof does
without. That the function exists is shown from the least set of runs that is closed
under the recursion (`RunsExist`, `OneRunEach`, `SearchExists`). That every search keeps its
promise (`Promise`) is shown by the least search that would not: one with the fewest
agents unvisited and, among those, the fewest to look at next, exists by counting
(`LeastSearch`), and the searches it makes keep theirs (`ReportPromises`, `EnteredPromises`,
`RestPromises`). The promise is that what a search leaves visited is closed under
waiting except for the path, and holds no cycle unless one was reported.

**Memory**: `MemoriesSafe` (`MemoriesInv`), of conversations and of agents. In a
conversation each entry holds messages from a number on (`From`), and a task that was
suspended while it summarized may give its entry only what that entry may hold
(`TasksKnown`). A caller that is alone still has its own message last (`OwnKept`),
which is what puts it into the prompt. In an agent's memory the weight of the
short buffer is a sum, which the proof counts as a set of pairs, so that the entry that is
evicted takes away what it weighs (`WeightOf`, `Evicted`); in the long one a tag lists
what it should although updates and deletions overtake each other: what an update leaves in
the index is right whenever its memory is there, and only a memory that is still to be inserted
could come to be there (`Fresh`); of that one the index holds nothing yet (`Indexed`).

**Tools**: `ToolsSafe` (`ToolsInv`), by class. Each list of a category is the order of
registration restricted to it (`Sorted`), and conflicting tools are apart (`Apart`). The
calls that are counted are pairs of a tool and a number, at most as many
as were executed less those at a tool right now (`ExecutionsIInv`). A tool is found by one of
the searches that overlap, so their numbers add up to the tools that were found, each once in its
server's list (`FoundIInv`). A hook that refuses leaves the trace of calls where it is
(`ServedIInv`). What the guard counts within its window is a set of places that a step
shifts by one (`RecentOf`), and a loop would have been seen one action earlier
(`GuardIInv`). The log's file holds all but the last calls that failed in a row, fewer
than a batch (`AuditIInv`).

### `Limits_proofs`

**Limiter**: `TypeCorrect`, `BoundedInEveryWindow` and `BucketSafe`
(`BucketInv`), for every rate, capacity, tier and number of instances. `IInv` adds
that a slot without buckets has charged nothing in the window, and that a bucket
of requests that exists has a rate (`Untouched`): a bucket that is created full
in the middle of a window would break the bound otherwise, and the time until
the next token divides by the rate. `SleepsToDeadline` rests on each sleep being
the least of the time to the reset, to the deadline and a second.

**Reclaimer**: `ReclaimerSafe` (`ReclaimerInv`). What a round holds to clean is
no longer registered, no two rounds hold the same, and numbers that were not given
out are clean (`Registered`): so that nothing is cleaned twice however rounds overlap.

**Runs of agents**: `RunsSafe` (`RunsInv`). `Counted` says at every node how many calls
of the model may have been made by then, which gives the bounds of the loops; the
bound of PEV is a product of two constants and needs a lemma (`RoundsAdd`).
`BatchesSound` says that the steps of a ReWOO plan that ran lie in every set closed
under its references, and are closed themselves when the loop is left.

**Orchestration**: in `RunsSafe` as well. A run that goes on has asked as many agents as its
stage tells (`Paced`), with products as for PEV (`TimesGrow`). Who wins a subtask of the
auction has none yet, or all who bid for it have one (`WinsFairly`); the subtasks with a
winner are in their order, each at a place of its own, by counting (`InOrderSound`). In the
escalation the tiers below the stage have all passed the task on, so an answer is the last
and final one.

**Sessions**: `SessionsSafe` (`SessionsInv`). A caller between two awaits names a
registration that exists (`CallsTyped`), only the one that holds the lock dials and
closes, the client it closes is still there (`ClosingHasClient`), and the clients are
at most as many as were opened (`Accounted`).

**Access**: `AccessSafe` (`AccessInv`). Policies are sorted because the new one is put
where the sort puts it (`PoliciesSorted`), so the first that matches is one of
greatest priority. The age of a copy of a key and the time since a caller held what it read
make no more than the life of a copy, and a copy without a limit still
has the caller that will limit it unless that one was cut off (`CopiesEnd`).

**Records**: `RecordsSafe` (`RecordsInv`). The hashes of a file grow, so an entry that is
changed, inserted or removed no longer follows (`HashesGrow`, `ChangesShow`), and a single
logger without a restart goes on with the hash of the last entry (`ChainGoesOn`). An abort
that is suspended has undone, from the last on, exactly the operations that were to be
undone (`UndoneSoFar`). Snapshots are numbered without a gap up to the latest
(`SnapshotIInv`).

### The others

**`ToolApproval_proofs`**: `TypeCorrect`, `EachCallApproved`, `NoStrayRequest`, joined
in `ApprovalSafe` (`ApprovalInv`), and `DecisionsStay` (`DecisionsFinal`). `IInv` adds
that nothing was asked for the calls a run has not reached (`Unasked`), so that a
new request is new, and that under the request a run waits for nothing was
executed yet (`WaitsUnbegun`), so that the one approval is used once.

**`Gateway_proofs`**: `GatewaySafe` (`GatewayInv`), for any requests, models,
providers, chains and retries. The invariant is a conjunction over the requests
(`RequestSafe`) and one over what they share (`Shared`): the cache, the breakers
and the counts of calls. A request's part says that the models before the place
`at` in its plan are given up, how many calls the places up to there may have cost
(`CallsFor`), and that it has neither answer nor status before it is over; with
these, `AttemptsBounded` and `Outcomes` follow for a request that moves on to the
next place. `OneReportPerCall` counts the requests in flight at a provider, a set
that a step changes by one request at most. The other requests stay as they are
(`Moves`). The plan is searched for the least place that may be tried, which exists
because the natural numbers are well founded (`LeastOf`). `GatewayAssumption` says
that `None` is neither a model, a provider nor a status.

**`StreamingRag_proofs`**: `StreamingSafe` (`StreamingInv`) and `BlockedEnds`
(`BlockedIsFinal`). `IInv` adds `BlockedStops`: a stream the scanner stopped is at
its error event or on its way out, never at an await where a token may come or a
cancellation replace its reason. The tracker's count is the size of a set of
streams (`Counted`) that only starting and returning change, which is what makes
an abandoned stream count for ever. In the same module stand five theorems about parts around
the service, each by itself, which `components` checks for a small instance:

* **Tuning loop**: `TuningEnds` (`Experiments!LoopEndsAtItsBest`). The score of an
  iteration is a sum over the dimensions, a fold, of which the proof needs that it exists
  and is a natural number: the function on the subsets with n members exists for every n
  because there is no least n without it (`SumsExist`), and likewise no least set whose sum is
  not natural (`AllSumsNatural`). While the loop goes on, the iterations without an improvement
  are those since the best one. What the loop reports as the best configuration is the one it
  made right after the best measurement (`MadeBy`): measured by it only when nothing was
  tuned. With no score above 0 there is none, and the pipeline keeps the last one made.
* **Cached answers**: `AnswersYoung` (`RagIndex!AgeBounded`). An entry of a layer is
  no younger than its answer, and how much older the answer may be is known for each layer
  (`CacheIInv`): L2 stores after an embedding, L1 copies what L2 found, and looking an entry up
  does not renew it. What is given was therefore made at most an embedding and one life
  of each layer ago.
* **Index tasks**: `TasksSafe` (`RagIndex!TasksAccounted`), for any number of callers.
  A task waits at one place (`Apart`), and the tasks of a batch are in order, so that its
  deletions are its first (`DeletionsFirst`): what is left after them has been tried no more
  often than a task that waits may have been. That the tasks of a queue can be put in order is
  shown by counting (`OrderExists`). What the batches hold is a sum over the callers, which a
  step changes by what it does to one batch (`SumChanges`).
* **Conversation**: `DialogueSafe` (`Dialogue!DialogueInv`, all of it). That nothing is
  executed unconfirmed is not inductive: what is executed, or waits for an approval, was
  confirmed or met an error earlier on its path. Callbacks trigger events from within each
  other, a recursive function of which each stage keeps the path one of the table,
  there being no least stage that does not. A mention is resolved by the latest of the turns that
  name something, and by the index of names only to one of a turn that is kept.
* **Versions of a prompt**: `VersionsSafe` (`Prompts!NoLostVersion`), for any sessions and
  contents. What a session has read may be old, but then the number it is about to write is
  taken and the database refuses the row (`SessionsFollow`): a new number means that its author
  saw the version before it.

**Only model-checked**

* All liveness, which needs fairness and `ENABLED`: `StatesAreLeft`, `CallsReturn`,
  `Recovers`, `CloseReleases`, `CloseFrees`, `RequestsEnd`,
  `WaitersReturn`, `ExpiredGo`, `RunsEnd`.
* `RetrievalInv`, `DomainInv` and `ServingInv` of `components` as wholes. Of `RetrievalInv` the index tasks and
  the cached answers are proved, of `DomainInv` the conversation, the tuning loop and the
  versions of prompts. Most of the other parts are about recursion and folds over texts
  and lists (chunks, windows, scanners, placeholders, sums of costs) or about `SelectSeq`, of
  which the provers know nothing. The library's induction theorems take an operator as a
  parameter, which none of the provers can instantiate; the detour by least
  counterexamples, taken above wherever a recursive definition is reasoned about, is some
  hundred lines long for each. TLC checks these parts for all inputs up to the bounds, on
  constants that `MCComponents` fixes.

## 6. Where code and documentation differ

Shown by runs:

* `breaker_streams`: `route_stream` never asks the breaker (`gateway.py:371`),
  although its docstring says the check is done once.
* `streaming_rag_stall`: tokens enter the backpressure queue and nothing
  takes them out (`streaming_rag_service.py:157`); after `max_size` tokens all
  streams of the service block for ever.
* `interrupter_resume`: `resume_stream` calls `can_resume` under the lock that
  both take (`stream_interrupter.py:176`).
* `gateway_skip`: `failed_models or set()` replaces the gateway's still empty set
  (`fallback.py:152`), so no failed model is ever skipped.
* `mcp_replies`: the server answers a notification (`mcp/server/server.py:232` says "no
  response needed") and the client reads no reply to one (`mcp/client/client.py:309`, "no
  response expected"). After the handshake's notification `tools/list` reads its empty
  result, so that no tools are found, and every later request reads the reply to the line before.
* `rate_limiter_redis`: a bucket is written to Redis only if it was found there
  (`rate_limiter.py:363`), so none is ever found and each instance has its own.

What follows was met while modelling. Where a module covers the code, the
model does as the code does and its properties say what is left of the promise;
some modules state the promise as an operator that no run checks: `ConnectReturns` (`McpSessions`), `PlanIsFollowed` and `StepsLimited`
(`AgentRuns`), `HighestTierAnswers` (`Orchestrations`), `NoLostUpdate`
(`Blackboard`), `TokensExact` and `IndexClean` (`Memory`), `OnlyExpiredCleaned`
(`Reclaimer`), `NothingMissed` (`DeadlockDetector`), `NothingDropped`
(`ConversationMemory`), `OnlyReported` and `SavedAreEnough` (`Experiments`).

**Gateway, breaker, limiter, providers**

* A HALF_OPEN breaker lets `half_open_max_requests` + 1 calls through: the one
  that finds the timeout elapsed is not counted (`circuit_breaker.py:163`).
* A retry goes to the provider even if its breaker has opened since. A cancelled
  request is audited as "success" (`gateway.py:273`).
* A rejected request is still charged to the bucket that had enough
  (`rate_limiter.py:239`), a tier change leaves existing buckets as they are, the
  burst of a full daily bucket comes on top of a day's refill, and
  `check_or_wait` may give up early because the time it sleeps for is
  truncated to a second (`rate_limiter.py:286`).
* The gateway offers the load balancer one candidate only. Weighted counters are
  shared by all models, so a provider registered late gets every request until it
  has caught up; by latency, an unmeasured provider is not tried once another is
  measured. A model mapped to an unregistered provider gets none, others or not.
* A request cut to fit its model's window is counted without its system messages and
  blocks, though the check that decides to cut counts them; it may still be too
  long when it is sent.
* `gateway.close` checks health first and misses providers that are registered or
  replaced meanwhile. A stream its consumer closes is not counted, and `chat` is
  counted as a success before its answer is parsed.
* Streamed tool calls of Anthropic are kept by `block.id` and looked up by
  `event.index` (`anthropic_provider.py:257`, `:276`): their arguments are always
  empty. OpenAI-compatible adapters order them by id. Messages of role "tool" are
  dropped for Anthropic; the price of a dated gpt-4o-mini is that of gpt-4o.

**Streaming and scanning**

* `try_produce` answers True on a closed queue (`backpressure.py:118`) and the
  count of dropped tokens is never increased.
* A client that goes away leaves its stream counted as active: the generator's
  finally clause yields, so `end_request` is never reached
  (`streaming_rag_service.py:202`). Tokens may be missing from the total when
  another stream's end cleared the start time (`latency_tracker.py:67`).
* A source that fails in the middle of its answer is followed by the whole answer
  of the next. What one stream left in the scanner's buffer is scanned with the
  next stream's tokens and may block it.
* `pii_detector.py:518`: the docstring says the longer match wins; the earlier
  does. The stream scanner skips a blocking match that an earlier one
  overlaps, may see a number in the rest of a longer one after its window is cut,
  masks a value only if it lies within one token, and reports a detection again for
  each token while it is in the buffer. What was sent is not withdrawn.
* Every severity of the content filter is at least high, so its thresholds and
  `block_on_medium` change nothing. `sanitize_input` promises two newlines at most
  and may leave three.

**Agents, tools, MCP**

* An approval after the last poll before the deadline is recorded as approved
  while the call is refused (`mcp/approval.py:102`); a cancelled run leaves its
  request pending for ever.
* At the limit of connections `connect` waits for the lock it holds
  (`session.py:119`). A reply that arrives after its request timed out is given to
  the next request as well. A heartbeat of None counts as healthy; unregistering closes no
  client, `connect_all` leaks those it replaces, a pool calls servers that are not
  connected and lists their tools.
* `MCPServer` counts neither unknown methods nor handlers' own errors. A prompt is
  filled one argument after the other, so an argument that holds a placeholder is
  filled again. Discovery never stores a category, ignores `max_tools`, never
  removes a tool, and a second refresh loop replaces the handle of the first.
* Conflicts of tools are looked at from the newcomer's side only, unregistering
  leaves dependents, errors that cannot be retried are retried, and failures by
  exception are missing from the statistics. `_flush_audit_log` writes the last 100
  entries each time. `SafetyGuard` limits operations within its last 50 actions
  only, and the harness never calls `check_loop`.
* The sequential pipeline reports success after an agent failed; the auction
  ignores subtasks nobody bids for; hierarchical delegation cuts the subtasks
  beyond its limit and reports success; a comment of the escalation names a highest tier
  that need not answer (`escalation.py:168`); the supervisor's limit counts distinct
  workers; the swarm fails on an unbound name when its first
  agent fails.
* Expired requests of `human_in_loop.py` stay interrupted, and a handler that
  answers PENDING puts its request into the history as pending for ever.
* Transactions: `abort` undoes operations that were prepared and not applied, does
  so after a commit, and twice if called twice.

* A deadlock is said to be resolved by cancelling the oldest request or answering it with an error
  (`agents/communication/deadlock.py:45`, `:228`). The code only drops edges and open requests
  from its graph: nobody is cancelled or answered, and who waited goes on waiting. Of two requests
  between two agents the end of one also drops the edge of the other, so a cycle through it is
  missed (`NothingMissed`).

**Memory, retrieval, prompts**

* A writer that read before a key was deleted may match a later version of the
  blackboard (`blackboard.py:86`). A vector is stored with metadata None, which the
  store cannot take; consolidation adds the same turns again. In the memory of a
  conversation a later summary replaces an earlier one, messages may leave the
  short memory before they are summarized, and one added while another call
  summarizes is lost.
* `FixedSizeChunker` never ends for a text longer than a chunk when chunks overlap
  (`fixed_size.py:83`). The recursive one repeats text before a piece that is too
  long; the one for markdown loses what precedes the first heading.
* Embeddings of failed batches leave no gap, so those that follow belong to other
  texts. FAISS keeps the old document when an id is added again, acknowledges
  documents without an embedding and drops them, and saves two files one after the
  other. Milvus and Chroma answer the ids of inserts that failed. "8/10" is read
  by the reranker as 1.0, CRAG reads "1/5" as 15.
* The incremental indexer deletes by document id while chunks are stored under
  ids of their own, and a delete of higher priority overtakes an earlier add.
* A search with filters takes fifty chunks per answer and filters after (`rag/pipeline.py:218`).
  The comment there says that this keeps it from returning too few when other collections rank
  higher; it still does when more chunks of them rank first than it takes (`SearchBest`).
* The pipeline's cache ignores its time to live and the filters; cached answers
  keep sources of deleted documents. A query whose cached answer has sources is answered
  with 500: the endpoint unpacks the cached `RetrievalChunk` objects as dictionaries
  (`api/routes/rag_routes.py:206`).
* Self-RAG throws a refined answer away unless it is that of the last round; the
  agent that names an unknown tool is asked the same question again.
* The cost optimizer's separators are outside its budget, so the last cut takes the
  end of the closing (`cost_optimizer.py:153`). Few-shot examples are read, changed
  and deleted by id without their tenant. A failed optimization of DSPy exports the
  module before it, and a failed evaluation reports an accuracy made up.

**Domain, experiments, records, access, API**

* A daily warning hides a monthly critical alert; `optimize_prompt` keeps up to
  five messages whatever their size; "pinned" text is cut last, not never; condensing
  a text barely over its limit may lengthen it; a limit of 0 turns keeps all. After
  an error, "retry" executes without a confirmation. A name mentioned again is
  forgotten with its first turn.
* The tuning loop reports as best the configuration it made after the best measurement
  (`iteration_loop.py:189`), which nothing has measured. With no score above 0 it reports an empty
  one and leaves the last one made in place (`:118`, `:232`). It also configures the pipeline though `auto_apply` is off.
  Identical scores without variance have no winner.
* The builder of golden data sets counts the minimum before it removes duplicates, so a
  set that is saved may be smaller; a build that fails leaves its examples behind; a split
  whose parts share queries is only logged.
* The audit log cannot be verified across midnight, a crash or two loggers
  (`audit.py:156`); cut off last entries are not noticed; the middleware's hash is
  per request, so its chain never links. A query answers the oldest entries, because it
  reads from the first file on and stops at its limit, though `audit.py:120` says "most recent
  first", and a page of the log shows the end of those.
* A key's copy in Redis has no expiry if its caller is cut off between two
  commands. A permission without a namespace matches every resource of that name.
* `app.state` never holds a gateway, prompt manager, experiment manager, optimizer
  or orchestrator: their endpoints answer 503 or nothing. `/ready` and `/health`
  answer 500 where 503 is documented. The middlewares of `middleware_stack.py` are
  never installed; HTTP client and Redis pool are not closed at shutdown.
* A monthly report ends at the time of day it was asked for on the first of
  the next month (`admin_routes.py:315`), "custom" is daily. Deleting an unknown
  document answers "deleted" where 404 is documented.

## 7. What is not modelled

Wording, prices, scores, metrics and log lines are left out everywhere; where
control depends on one, it is a choice or a member of a small set.

Components without a module, with reasons in `PROJECT.json`: the token engine, the
JSON buffer and the formatting of events (generators over one text, no shared
state); the web client; MCP tools and built-in tools (one call of a process, a
service or a file each); tokens of users (signing and reading); services,
infrastructure, repositories and metrics (adapters, dictionaries); budgets of
retries and timeouts, verification (counters of one task); evaluation metrics and
RAGAS (scores of one answer); query processing, parsing and quality of RAG (prompts
and texts).

Left out of components that are modelled in part: percentiles of latency; MCP over HTTP,
where a reply is paired with its request by the transport; chunks by tokens and with
parents; the adaptive router and the graph strategy; rendering of templates; recommendations
of cheaper models; extraction of entities, clarification, moods and personas; compression of
texts; risk scores; all but five of the operators of a policy's condition; translation of
messages by adapters; confidences and role patterns of the detectors; permissions of tools;
the contents of requests and answers of the API.

A stream that is cancelled during retrieval meets an unbound name
(`streaming_rag_service.py:168`), whose exception leaves the generator after the same last
steps; the model does not tell it from a return. Preconditions on callers: additions to a FAISS store do not raise
after they registered their documents (`faiss_store.py:137`); the in-memory store is given no
known id (`rag/indexing/vector_store.py:89`); rounds of the reclaimer are begun again.

## 8. The plan

1. Theorems for more of what `components` asserts, each about its component by itself, as is
   done for conversations, tuning, cached answers and index tasks: the rows of a FAISS store
   agree with its documents (`Retrieval`), streamed completions are whole (`Api`), the winners
   of experiments and the alerts (`Experiments`), usage and its alerts (`TokenUsage`).
2. An abstract approval service, a request that is decided at most once and used
   at most once, refined by `ToolApproval` and by the approvals in `Access`; an
   abstract index, refined by upload, delete and search of `Api`.
3. More of the code: the refreshing of tokens by several requests of the web client;
   budgets of retries around `RetryHandler`; the stores of skills and permissions in
   `services`.
4. Larger instances, run apart from the others: three requests in `gateway`, three
   streams in `streaming_rag`, three loggers in `Records`.
