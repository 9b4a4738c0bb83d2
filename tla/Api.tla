-------------------------------- MODULE Api --------------------------------
(***************************************************************************)
(* The HTTP service (src/api): how it starts and what its endpoints answer *)
(* when a part of it did not, and the handlers that keep state over        *)
(* several steps.  `serves` says what the instance follows:                *)
(*   "startup"  lifespan() publishes the parts in a fixed order and goes   *)
(*              on when one fails; the endpoints look for what they need;  *)
(*   "search"   /v1/rag/search with its cache, beside uploads and          *)
(*              deletions;                                                 *)
(*   "evaluations"  /v1/rag/evaluate and its store of runs;                *)
(*   "chat"     /v1/gateway/chat/completions, at once and streamed;        *)
(*   "tenants"  the administration of tenants read page by page;           *)
(*   "reports"  the windows of the usage reports.                          *)
(***************************************************************************)
EXTENDS Naturals, FiniteSets, SequencesExt

CONSTANTS Failing,      \* the publications that may fail in this instance
          Ranking,      \* the chunks <<document, place>>, the most similar first
          Base,         \* the knowledge base of each document
          Limits,       \* the values of top_k
          Widening,     \* candidates per answer when there are filters (50)
          MaxCandidates,\* and no more than so many (10000)
          Searchers,    \* the callers of the search
          MaxSearches,  \* bound on the requests to the search
          Marks,        \* scores of an evaluated answer
          MaxRuns,      \* evaluations kept
          Chats,        \* the requests to the gateway
          MaxDeltas,    \* bound on the pieces of a stream
          MaxTenants,   \* bound on the tenants created
          PageSize,     \* page_size
          DaysPerWeek, DaysPerMonth, PartsPerDay,   \* the calendar
          MaxMoment,    \* bound on the moments reported about
          None          \* no value

VARIABLES serves, step, next, holds, demo, tenant, wired, reply,
          store, cache, hits, misses, asked, search, found, runs,
          chat, requests, firstTokens,
          rows, walk, report

startup == <<step, next, holds, demo, tenant, wired>>
searching == <<store, cache, hits, misses, asked, search, found, runs>>
chatting == <<chat, requests, firstTokens>>
managing == <<rows, walk>>
vars == <<serves, startup, reply, searching, chatting, managing, report>>

-----------------------------------------------------------------------------
(* Startup.  Each step publishes attributes of app.state in this order; the
   seeds count as publications too. *)
Steps == <<
  <<"db_session_factory", "demo_tenant">>,
  <<"redis">>,
  <<"token_counter">>,
  <<"deepseek_client", "llm">>,
  <<"tool_registry", "agent_executor">>,
  <<"rag_pipeline">>,
  <<"document_generator", "ocr_service", "conversation_memory">>,
  <<"approval_gate", "mcp_server", "expert_registry", "mcp_pool">>,
  <<"skill_store">>,
  <<"permission_store">>,
  <<"seeded_skills", "seeded_experts", "seeded_documents", "seeded_servers">>,
  <<"langsmith_status">> >>

(* Attributes that the routes look for and no step publishes. *)
Unpublished == {"gateway", "prompt_manager", "experiment_manager", "dspy_optimizer",
                "agent_orchestrator"}

Attributes == UNION {Range(Steps[i]) : i \in DOMAIN Steps} \cup Unpublished

(* What the first seeds read without a default. *)
SeedReads == [seeded_skills |-> {"skill_store"}, seeded_experts |-> {"expert_registry"}]

(* What the publication of an attribute reads without a default. *)
Reads(a) ==
  CASE a = "rag_pipeline"       -> {"deepseek_client"}
    [] a = "expert_registry"    -> {"tool_registry"}
    [] a \in DOMAIN SeedReads   -> SeedReads[a]
    [] OTHER                    -> {}

(* What it passes over silently when it is not there. *)
LooksFor(a) ==
  CASE a = "seeded_documents" -> {"rag_pipeline"}
    [] a = "seeded_servers"   -> {"mcp_pool"}
    [] OTHER                  -> {}

Starting == serves = "startup" /\ step <= Len(Steps)

Attribute == Steps[step][next]

Readable == \A a \in Reads(Attribute) : holds[a] # "unset"

(* Where the next publication is. *)
Advance ==
  IF next < Len(Steps[step])
  THEN next' = next + 1 /\ UNCHANGED step
  ELSE next' = 1 /\ step' = step + 1

(* The value published: the client and the model are None without a key. *)
Value(a, keyed) ==
  IF a \in {"deepseek_client", "llm"} /\ ~keyed THEN "none"
  ELSE IF \E b \in LooksFor(a) : holds[b] # "set" THEN "unset"
  ELSE "set"

(* The key is read at the client's step and again by the model's class. *)
Keyed == IF Attribute = "llm" THEN {holds["deepseek_client"] = "set"} ELSE BOOLEAN

(* The tenant of the examples: the demo tenant when the database gives it. *)
ExampleTenants == {"default"} \cup (IF demo /\ holds["db_session_factory"] = "set"
                                    THEN {"demo"} ELSE {})

Publish ==
  /\ Starting
  /\ Readable
  /\ \E keyed \in Keyed : holds' = [holds EXCEPT ![Attribute] = Value(Attribute, keyed)]
  /\ demo' = (demo \/ Attribute = "demo_tenant")
  /\ tenant' \in IF Attribute = "seeded_skills" THEN ExampleTenants ELSE {tenant}
  /\ wired' = IF Attribute = "expert_registry"
              THEN [model |-> holds["llm"], pipeline |-> holds["rag_pipeline"]]
              ELSE wired
  /\ Advance
  /\ UNCHANGED <<serves, reply, searching, chatting, managing, report>>

(* _try_init logs the exception and goes on with the next step. *)
StepFails ==
  /\ Starting
  /\ Readable => Attribute \in Failing
  /\ step' = step + 1
  /\ next' = 1
  /\ UNCHANGED <<serves, holds, demo, tenant, wired, reply, searching, chatting, managing,
                 report>>

-----------------------------------------------------------------------------
(* The endpoints: what each looks for, in the order of its dependencies,
   with the answer when it is missing, and what the call itself may answer.
   "tenant" stands for get_current_tenant. *)
Endpoint(needs, outcomes) == [needs |-> needs, outcomes |-> outcomes]
Authenticated == <<<<"tenant", 0>>>>
Counted == <<<<"tenant", 0>>, <<"token_counter", 503>>>>
OfPipeline == <<<<"tenant", 0>>, <<"rag_pipeline", 503>>>>
With(attribute, status) == <<<<"tenant", 0>>, <<attribute, status>>>>

OfGateway == [
  completions |-> Endpoint(<<<<"gateway", 503>>>> \o Counted, {200, 429, 502}),
  models |-> Endpoint(<<<<"gateway", 503>>>> \o Authenticated, {200}),
  gateway_health |-> Endpoint(<<<<"gateway", 503>>>>, {200})]

OfRag == [
  upload |-> Endpoint(OfPipeline \o <<<<"db_session_factory", 500>>>>, {201, 400, 413, 500}),
  search |-> Endpoint(OfPipeline \o <<<<"token_counter", 503>>>>, {200, 500}),
  evaluate |-> Endpoint(OfPipeline, {200, 500}),
  documents |-> Endpoint(OfPipeline, {200})]

OfAgents == [
  run |-> Endpoint(Counted \o <<<<"agent_executor", 503>>>>, {200, 500}),
  orchestrate |-> Endpoint(With("agent_orchestrator", 503), {200, 500})]

OfAgentTools == [
  tools |-> Endpoint(With("tool_registry", 200), {200}),
  approve |-> Endpoint(Authenticated, {404}),
  conversation |-> Endpoint(Authenticated, {404})]

OfTemplates == [
  render |-> Endpoint(Counted \o <<<<"prompt_manager", 503>>>>, {200, 400, 404}),
  templates |-> Endpoint(With("prompt_manager", 200), {200})]

OfTemplateVersions == [
  create |-> Endpoint(With("prompt_manager", 503), {201, 409}),
  versions |-> Endpoint(With("prompt_manager", 503), {200, 404}),
  rollback |-> Endpoint(With("prompt_manager", 503), {200, 404})]

OfExperiments == [
  experiment |-> Endpoint(With("experiment_manager", 503), {201}),
  results |-> Endpoint(With("experiment_manager", 503), {200, 404}),
  dspy |-> Endpoint(With("dspy_optimizer", 503), {200, 500})]

OfMcpTools == [
  manifest |-> Endpoint(<<>>, {200}),
  mcp_tools |-> Endpoint(With("mcp_pool", 200), {200, 502}),
  mcp_call |-> Endpoint(With("mcp_pool", 503), {200, 400, 502})]

OfMcpServers == [
  mcp_servers |-> Endpoint(With("mcp_pool", 200), {200}),
  connect |-> Endpoint(With("mcp_pool", 503), {201, 400}),
  disconnect |-> Endpoint(With("mcp_pool", 503), {200, 404}),
  resources |-> Endpoint(With("mcp_pool", 200), {200, 502})]

OfExperts == [
  experts |-> Endpoint(With("expert_registry", 500), {200}),
  expert_run |-> Endpoint(With("expert_registry", 500), {200, 404}),
  approvals |-> Endpoint(With("approval_gate", 500), {200}),
  decide |-> Endpoint(With("approval_gate", 500), {200, 404})]

OfDocuments == [
  generate |-> Endpoint(With("document_generator", 500), {200, 400, 500, 503}),
  ocr |-> Endpoint(With("ocr_service", 500), {200, 400, 500})]

OfSkills == [
  skills |-> Endpoint(With("skill_store", 500), {200, 404})]

OfPermissions == [
  permissions |-> Endpoint(With("permission_store", 500), {200})]

OfAdmin == [
  tenants |-> Endpoint(With("db_session_factory", 500), {200, 403}),
  new_tenant |-> Endpoint(With("db_session_factory", 500), {201, 403, 409}),
  change_tenant |-> Endpoint(With("db_session_factory", 500), {200, 400, 403, 404}),
  usage_report |-> Endpoint(With("db_session_factory", 500), {200, 400, 403}),
  new_key |-> Endpoint(With("db_session_factory", 500), {201, 403}),
  audit_logs |-> Endpoint(Authenticated, {200, 400, 403}),
  stats |-> Endpoint(Authenticated, {200, 403})]

OfHealth == [
  health |-> Endpoint(<<<<"redis", 500>>, <<"db_session_factory", 500>>>>, {200}),
  ready |-> Endpoint(<<<<"redis", 500>>, <<"db_session_factory", 500>>>>, {200, 503}),
  live |-> Endpoint(<<>>, {200})]

OfApp == [
  simple_chat |-> Endpoint(<<<<"deepseek_client", 503>>>>, {200, 500}),
  memory_chat |-> Endpoint(<<<<"llm", 503>>, <<"conversation_memory", 500>>>>, {200, 500}),
  memory_state |-> Endpoint(<<<<"conversation_memory", 200>>>>, {200}),
  sync |-> Endpoint(<<<<"conversation_memory", 503>>>>, {200}),
  parse |-> Endpoint(<<>>, {200, 500})]

OfLogin == [login |-> Endpoint(<<>>, {200, 400})]

Endpoints == OfGateway @@ OfRag @@ OfAgents @@ OfAgentTools @@ OfTemplates @@ OfTemplateVersions
             @@ OfExperiments @@ OfMcpTools @@ OfMcpServers @@ OfExperts @@ OfDocuments
             @@ OfSkills @@ OfPermissions @@ OfAdmin @@ OfHealth @@ OfApp @@ OfLogin

Missing(a) == holds[a] # "set"

(* get_current_tenant: the answer to a request with this key, 0 when it
   goes on.  A key not copied to Redis is looked up in the database. *)
Tenanted(key) ==
  IF Missing("redis") THEN 503
  ELSE CASE key = "none"   -> 401
         [] key = "cached" -> 0
         [] Missing("db_session_factory") -> 500
         [] key = "unknown" -> 403
         [] OTHER -> 0

Refusal(need, key) ==
  IF need[1] = "tenant" THEN Tenanted(key) ELSE IF Missing(need[1]) THEN need[2] ELSE 0

(* The possible answers of an endpoint: the first refusal, or the call's. *)
StatusesOf(name, key) ==
  LET needs == Endpoints[name].needs
      refused == {i \in DOMAIN needs : Refusal(needs[i], key) # 0}
  IN IF refused = {} THEN Endpoints[name].outcomes
     ELSE {Refusal(needs[CHOOSE i \in refused : \A j \in refused : i <= j], key)}

(* The server takes requests when every step has been tried; one request is
   followed. *)
Request ==
  /\ serves = "startup"
  /\ step > Len(Steps)
  /\ reply = None
  /\ \E name \in DOMAIN Endpoints, key \in {"none", "cached", "valid", "unknown"} :
       \E status \in StatusesOf(name, key) : reply' = <<name, status>>
  /\ UNCHANGED <<serves, startup, searching, chatting, managing, report>>

-----------------------------------------------------------------------------
(* The search.  The place of a chunk in the ranking stands for its score. *)
Least(m, n) == IF m < n THEN m ELSE n

First(s, n) == SubSeq(s, 1, Least(n, Len(s)))

Matches(chunk, filter) == filter \in {None, Base[chunk[1]]}

(* The chunks of these documents, the most similar first. *)
ChunksOf(documents) == SelectSeq(Ranking, LAMBDA chunk : chunk[1] \in documents)

(* How many are taken before the filters: candidate_k. *)
Reach(k) == Least(k * Widening, MaxCandidates)

(* Mutant of Candidates: no more are taken when there are filters. *)
CandidatesNotWidened(k, filter) == First(ChunksOf(store), k)

(* With filters the store is asked for more, and the filters come after. *)
Candidates(k, filter) == First(ChunksOf(store), IF filter = None THEN k ELSE Reach(k))

Sources(k, filter) ==
  First(SelectSeq(Candidates(k, filter), LAMBDA chunk : Matches(chunk, filter)), k)

Searching == serves = "search"
Elsewhere == UNCHANGED <<serves, startup, reply, chatting, managing, report>>

Resting == [phase |-> "idle", route |-> "search", k |-> 0, filter |-> None, sources |-> <<>>]

(* The request; the search looks into the cache first, under a key that
   holds the query and top_k.  The sources it keeps are objects, and what
   comes out of the cache is unpacked as if they were mappings: outside the
   try, so that a hit is answered only if it has no sources. *)
Ask(c) ==
  /\ Searching
  /\ search[c].phase = "idle"
  /\ asked < MaxSearches
  /\ asked' = asked + 1
  /\ \E route \in {"search", "chat", "retrieve"}, k \in Limits, filter \in {None} \cup Range(Base) :
       LET cached == route = "search" /\ k \in DOMAIN cache
           phase == IF ~cached THEN "retrieving" ELSE IF cache[k] = <<>> THEN "answered" ELSE "idle"
       IN /\ hits' = hits + (IF cached THEN 1 ELSE 0)
          /\ misses' = misses + (IF route = "search" /\ ~cached THEN 1 ELSE 0)
          /\ search' = IF phase = "idle" THEN search
                       ELSE [search EXCEPT ![c] = [phase |-> phase, route |-> route, k |-> k,
                                                   filter |-> filter, sources |-> <<>>]]
  /\ UNCHANGED <<store, cache, found, runs>>
  /\ Elsewhere

(* rerank(): by new scores, in any order; /chat does without. *)
Orders(route, sources) ==
  IF route = "chat" THEN {sources}
  ELSE {order \in [DOMAIN sources -> Range(sources)] : Range(order) = Range(sources)}

(* After the query was embedded; `found` keeps the documents there then. *)
Retrieve(c) ==
  /\ Searching
  /\ search[c].phase = "retrieving"
  /\ LET s == search[c]
     IN /\ \E sources \in Orders(s.route, Sources(s.k, s.filter)) :
             search' = [search EXCEPT ![c].sources = sources, ![c].phase =
                          IF s.route = "retrieve" THEN "answered" ELSE "generating"]
        /\ found' = [found EXCEPT ![c] = store]
  /\ UNCHANGED <<store, cache, hits, misses, asked, runs>>
  /\ Elsewhere

(* The answer was generated; only the search is cached. *)
Answer(c) ==
  /\ Searching
  /\ search[c].phase = "generating"
  /\ search' = [search EXCEPT ![c].phase = "answered"]
  /\ cache' = IF search[c].route = "search"
              THEN [k \in DOMAIN cache \cup {search[c].k} |->
                      IF k = search[c].k THEN search[c].sources ELSE cache[k]]
              ELSE cache
  /\ UNCHANGED <<store, hits, misses, asked, found, runs>>
  /\ Elsewhere

(* An exception on the way, caught (rag_search) or not: 500, and nothing is
   cached. *)
SearchFails(c) ==
  /\ Searching
  /\ search[c].phase \in {"retrieving", "generating"}
  /\ search' = [search EXCEPT ![c] = Resting]
  /\ found' = [found EXCEPT ![c] = {}]
  /\ UNCHANGED <<store, cache, hits, misses, asked, runs>>
  /\ Elsewhere

Leave(c) ==
  /\ Searching
  /\ search[c].phase = "answered"
  /\ search' = [search EXCEPT ![c] = Resting]
  /\ found' = [found EXCEPT ![c] = {}]
  /\ UNCHANGED <<store, cache, hits, misses, asked, runs>>
  /\ Elsewhere

(* An upload indexes a new document; deleting one answers "deleted" whether
   it was there or not.  Neither touches the cache. *)
Upload ==
  /\ Searching
  /\ \E d \in DOMAIN Base \ store : store' = store \cup {d}
  /\ UNCHANGED <<cache, hits, misses, asked, search, found, runs>>
  /\ Elsewhere

Delete ==
  /\ Searching
  /\ \E d \in DOMAIN Base : store' = store \ {d}
  /\ UNCHANGED <<cache, hits, misses, asked, search, found, runs>>
  /\ Elsewhere

(* The averages of an evaluation, as sums over the number of answers: the
   correctness of an answer may be missing and then counts for nothing. *)
Sum(s) == SumFunctionOnSet(s, DOMAIN s)

Averages(results) ==
  [overall |-> Sum([i \in DOMAIN results |-> results[i].overall]),
   correct |-> IF \E i \in DOMAIN results : results[i].correct # None
               THEN Sum([i \in DOMAIN results |->
                           IF results[i].correct = None THEN 0 ELSE results[i].correct])
               ELSE None,
   of |-> Len(results)]

(* The run is kept, and the oldest one given up over MaxRuns. *)
Kept(all) == SubSeq(all, Len(all) - Least(MaxRuns, Len(all)) + 1, Len(all))

Evaluate ==
  /\ serves = "evaluations"
  /\ \E results \in SeqOf([overall : Marks, correct : Marks \cup {None}], 2) \ {<<>>} :
       runs' = Kept(Append(runs, Averages(results)))
  /\ UNCHANGED <<store, cache, hits, misses, asked, search, found>>
  /\ Elsewhere

-----------------------------------------------------------------------------
(* The gateway's completions.  A request is refused by the rate limiter or
   counted, then routed at once or streamed. *)
Chatting == serves = "chat"
Apart == UNCHANGED <<serves, startup, reply, searching, managing, report>>

Admit(r) ==
  /\ Chatting
  /\ chat[r].phase = "new"
  /\ \E phase \in {"limited", "routing", "streaming"} :
       chat' = [chat EXCEPT ![r].phase = phase]
  /\ UNCHANGED <<requests, firstTokens>>
  /\ Apart

(* The answer at once, or the error of the gateway: one of them is counted. *)
Route(r) ==
  /\ Chatting
  /\ chat[r].phase = "routing"
  /\ \E outcome \in {"success", "error"} :
       /\ requests' = [requests EXCEPT ![outcome] = @ + 1]
       /\ chat' = [chat EXCEPT ![r].phase = outcome]
  /\ UNCHANGED firstTokens
  /\ Apart

(* A piece of the stream, with its index. *)
Delta(r) ==
  /\ Chatting
  /\ chat[r].phase = "streaming"
  /\ Len(chat[r].events) < MaxDeltas
  /\ firstTokens' = firstTokens + (IF chat[r].events = <<>> THEN 1 ELSE 0)
  /\ chat' = [chat EXCEPT ![r].events = Append(@, Len(@)), ![r].content = @ + 1]
  /\ UNCHANGED requests
  /\ Apart

(* The end: the tokens of the whole text are counted and reported.  When the
   stream or the counting fails there is an error instead. *)
StreamEnds(r) ==
  /\ Chatting
  /\ chat[r].phase = "streaming"
  /\ \E end \in {"done", "broken"} :
       chat' = [chat EXCEPT ![r].phase = end, ![r].reported =
                  IF end = "done" THEN chat[r].content ELSE 0]
  /\ UNCHANGED <<requests, firstTokens>>
  /\ Apart

(* The client goes away: the generator is closed and says nothing more. *)
ClientLeaves(r) ==
  /\ Chatting
  /\ chat[r].phase = "streaming"
  /\ chat' = [chat EXCEPT ![r].phase = "left"]
  /\ UNCHANGED <<requests, firstTokens>>
  /\ Apart

-----------------------------------------------------------------------------
(* The tenants, the newest first, and a client that reads them by pages. *)
Managing == serves = "tenants"
Alone == UNCHANGED <<serves, startup, reply, searching, chatting, report>>

(* LIMIT and OFFSET over the rows that the filter lets through. *)
Shown(filter) == SelectSeq(rows, LAMBDA row : filter \in {None, row.active})

Page(all, p) == SubSeq(all, (p - 1) * PageSize + 1, Least(p * PageSize, Len(all)))

CreateTenant ==
  /\ Managing
  /\ Len(rows) < MaxTenants
  /\ rows' = <<[id |-> Len(rows) + 1, active |-> TRUE]>> \o rows
  /\ UNCHANGED walk
  /\ Alone

(* Only the fields given change; here the one that a filter looks at. *)
UpdateTenant ==
  /\ Managing
  /\ \E i \in DOMAIN rows, active \in BOOLEAN : rows' = [rows EXCEPT ![i].active = active]
  /\ walk' = [walk EXCEPT !.changed = TRUE]
  /\ Alone

StartReading ==
  /\ Managing
  /\ walk.page = 0
  /\ \E filter \in {None, TRUE} :
       walk' = [page |-> 1, filter |-> filter, changed |-> FALSE, seen |-> {},
                before |-> Range(Shown(filter))]
  /\ UNCHANGED rows
  /\ Alone

(* The next page; one that is not full is the last.  The total that comes
   with it was counted by a query before and may be older than the page. *)
ReadPage ==
  /\ Managing
  /\ walk.page \in 1..MaxTenants
  /\ LET shown == Page(Shown(walk.filter), walk.page)
     IN walk' = [walk EXCEPT !.seen = @ \cup Range(shown),
                             !.page = IF Len(shown) < PageSize THEN MaxTenants + 1 ELSE @ + 1]
  /\ UNCHANGED rows
  /\ Alone

-----------------------------------------------------------------------------
(* The usage reports.  A moment counts parts of days; weeks and months have
   as many days as the constants say. *)
DayOf(t) == t \div PartsPerDay
StartOfDay(day) == day * PartsPerDay
StartOfWeek(t) == StartOfDay(DayOf(t) - (DayOf(t) % DaysPerWeek))
StartOfMonth(t) == StartOfDay(DayOf(t) - (DayOf(t) % DaysPerMonth))

(* The window of the report: the end of a month is the first day of the next
   one at the time of the moment asked about. *)
Window(period, t) ==
  CASE period = "weekly" ->
         [from |-> StartOfWeek(t), to |-> StartOfWeek(t) + DaysPerWeek * PartsPerDay]
    [] period = "monthly" ->
         [from |-> StartOfMonth(t),
          to |-> StartOfMonth(t) + DaysPerMonth * PartsPerDay + (t % PartsPerDay)]
    [] OTHER -> [from |-> StartOfDay(DayOf(t)), to |-> StartOfDay(DayOf(t) + 1)]

Report ==
  /\ serves = "reports"
  /\ \E period \in {"daily", "weekly", "monthly", "custom"}, t \in 0..MaxMoment :
       report' = [period |-> period, at |-> t, window |-> Window(period, t)]
  /\ UNCHANGED <<serves, startup, reply, searching, chatting, managing>>

-----------------------------------------------------------------------------
Init ==
  /\ serves \in {"startup", "search", "evaluations", "chat", "tenants", "reports"}
  /\ step = 1 /\ next = 1
  /\ holds = [a \in Attributes |-> "unset"]
  /\ demo \in IF serves = "startup" THEN BOOLEAN ELSE {FALSE}
  /\ tenant = "none"
  /\ wired = None
  /\ reply = None
  /\ store = {} /\ cache = <<>> /\ hits = 0 /\ misses = 0 /\ asked = 0
  /\ search = [c \in Searchers |-> Resting]
  /\ found = [c \in Searchers |-> {}]
  /\ runs = <<>>
  /\ chat = [r \in Chats |-> [phase |-> "new", events |-> <<>>, content |-> 0, reported |-> 0]]
  /\ requests = [outcome \in {"success", "error"} |-> 0]
  /\ firstTokens = 0
  /\ rows = <<>>
  /\ walk = [page |-> 0, filter |-> None, changed |-> FALSE, seen |-> {}, before |-> {}]
  /\ report = None

Next ==
  \/ Publish \/ StepFails \/ Request
  \/ \E c \in Searchers :
       Ask(c) \/ Retrieve(c) \/ Answer(c) \/ SearchFails(c) \/ Leave(c)
  \/ Upload \/ Delete \/ Evaluate
  \/ \E r \in Chats : Admit(r) \/ Route(r) \/ Delta(r) \/ StreamEnds(r) \/ ClientLeaves(r)
  \/ CreateTenant \/ UpdateTenant \/ StartReading \/ ReadPage
  \/ Report

Spec == Init /\ [][Next]_vars

-----------------------------------------------------------------------------
(* The experts answer with the pipeline and the model that the routes use,
   and whoever may wait for an approval finds the endpoint that decides it:
   the order in which the steps of lifespan() publish, which read each
   other's attributes with getattr, decides both. *)
WiredAlike ==
  holds["expert_registry"] = "set" =>
    /\ wired = [model |-> holds["llm"], pipeline |-> holds["rag_pipeline"]]
    /\ 500 \notin StatusesOf("decide", "cached")

(* The example documents are there only together with the example skills and
   experts, for one tenant, and the demo tenant's only when it exists. *)
SeedsTogether ==
  /\ ~Missing("seeded_servers") => ~Missing("seeded_experts")
  /\ ~Missing("seeded_documents") => ~Missing("seeded_experts") /\ ~Missing("rag_pipeline")
  /\ ~Missing("seeded_experts") => ~Missing("seeded_skills") /\ tenant # "none"
  /\ tenant = "demo" => demo

(* A search answers with the best chunks that match its filters of those
   there when it looked.  There are fewer than top_k only when no more match,
   or when those left out rank behind the chunks that are taken before the
   filters: then the search under-returns, with filters only.  What is cached
   has no more sources than its own request asks for, and every miss was a
   search of its own. *)
SearchBest ==
  /\ \A c \in Searchers : search[c].phase \in {"generating", "answered"} =>
       LET s == search[c]
           n == Len(s.sources)
           there == ChunksOf(found[c])
           best == SelectSeq(there, LAMBDA chunk : Matches(chunk, s.filter))
       IN  /\ n <= s.k /\ n <= Len(best)
           /\ Range(s.sources) = Range(First(best, n))
           /\ s.route = "chat" => s.sources = First(best, n)
           /\ n < Least(s.k, Len(best)) =>
                /\ s.filter # None
                /\ \E i \in DOMAIN there : there[i] = best[n + 1] /\ i > Reach(s.k)
  /\ \A k \in DOMAIN cache : Len(cache[k]) <= k
  /\ Cardinality(DOMAIN cache) <= misses

(* The average of an evaluation lies between its lowest and highest mark. *)
AveragesWithin ==
  \A i \in DOMAIN runs :
    \E low, high \in Marks : low * runs[i].of <= runs[i].overall
                             /\ runs[i].overall <= high * runs[i].of

(* A stream sends its pieces in order and then at most one end, whose usage
   covers every piece; each request routed at once is counted once, and the
   time to the first token is observed once for each stream that sent one. *)
StreamsWhole ==
  /\ \A r \in Chats :
       /\ chat[r].events = [i \in DOMAIN chat[r].events |-> i - 1]
       /\ chat[r].phase = "done" => chat[r].reported = Len(chat[r].events)
  /\ \A outcome \in DOMAIN requests :
       requests[outcome] = Cardinality({r \in Chats : chat[r].phase = outcome})
  /\ firstTokens = Cardinality({r \in Chats : chat[r].events # <<>>})

(* A client that reads on until a page is not full, while tenants are created,
   sees every tenant that was there when it began: the newest come first, so
   that creating one moves the rest back, never forward.  (A filter and an
   update together may move them forward.) *)
PagesComplete ==
  walk.page > MaxTenants /\ ~walk.changed => walk.before \subseteq walk.seen

(* A report covers the moment asked about; daily and weekly windows tile the
   time, and a month reaches less than a day into the next one. *)
WindowsTile ==
  report # None =>
    LET w == report.window
        after == Window(report.period, w.to)
    IN /\ w.from <= report.at /\ report.at < w.to
       /\ report.period # "monthly" => after.from = w.to
       /\ report.period = "monthly" => after.from <= w.to /\ w.to < after.from + PartsPerDay

ApiInv ==
  /\ WiredAlike
  /\ SeedsTogether
  /\ SearchBest
  /\ AveragesWithin
  /\ StreamsWhole
  /\ PagesComplete
  /\ WindowsTile

=============================================================================
