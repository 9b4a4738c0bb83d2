------------------------------ MODULE Providers ------------------------------
(***************************************************************************)
(* The providers behind the gateway: which one the balancer takes, which   *)
(* one the registry knows for a model while providers come and go, and     *)
(* what an adapter makes of an answer, at once or in a stream.  They share *)
(* no state: a run is about one of them.                                   *)
(***************************************************************************)
EXTENDS Naturals, Sequences, SequencesExt, FiniteSets, FiniteSetsExt

CONSTANTS Names,           \* of providers
          Weightings,      \* lists of [name, weight] for a model, by priority
          DefaultWeight,
          WindowSize, MinSamples, Latencies,
          MaxSelections,
          Ids, Models, MaxObjects,
          CallIds,         \* the ids of the calls of an answer, by their index
          MaxFragments, MaxStreams, MaxChats

VARIABLES does,            \* "weights", "latency", "registry" or "answers"
          weights, counters, samples, chosen, steady, selections,
          registered, mapping, early, objects, check, closed,
          adapter, stream, streams, chat, chats, totals, abandoned

balancerVars == <<weights, counters, samples, chosen, steady, selections>>
registryVars == <<registered, mapping, early, objects, check, closed>>
chatVars == <<chat, chats>>
adapterVars == <<adapter, stream, streams, chatVars, totals, abandoned>>
vars == <<does, balancerVars, registryVars, adapterVars>>

(* An adapter puts fragments where their index says, or looks for another    *)
(* key than the one under which the call is kept, or has no tool calls.      *)
OpenAI == [name |-> "openai", finds |-> "index"]
DeepSeek == [name |-> "deepseek", finds |-> "index"]
VLLM == [name |-> "vllm", finds |-> "index"]
Anthropic == [name |-> "anthropic", finds |-> "nothing"]
LlamaCpp == {[name |-> n, finds |-> "no calls"] : n \in {"llama.cpp", "llama.cpp with tools"}}
Adapters == {OpenAI, DeepSeek, VLLM, Anthropic} \cup LlamaCpp

(* What the code that sets a balancer up has to see to: weights are natural  *)
(* numbers, and the calls of an answer have different ids.                   *)
ProvidersBounds ==
    /\ DefaultWeight \in Nat /\ MaxObjects \in Nat
    /\ \A w \in Weightings : w \in Seq([name : Names, weight : Nat])
    /\ \A ids \in CallIds :
          ids \in Seq(Nat) /\ \A i, k \in DOMAIN ids : ids[i] = ids[k] => i = k

NoChoice == [from |-> "nobody", name |-> "", among |-> {}]
NoCheck == [at |-> "idle", ids |-> {}, from |-> {}, got |-> {}, answered |-> {}]
NoStream == [at |-> "idle", ids |-> <<>>, sent |-> <<>>, kept |-> <<>>, calls |-> <<>>]
NoAnswer == [empty |-> TRUE, calls |-> <<>>, ends |-> ""]
NoResponse == [calls |-> <<>>, finish |-> ""]
NoChat == [at |-> "idle", tools |-> FALSE, answer |-> NoAnswer, response |-> NoResponse]

Init ==
    /\ does \in {"weights", "latency", "registry", "answers"}
    /\ weights \in IF does \in {"weights", "latency"} THEN Weightings ELSE {<<>>}
    /\ counters = [p \in Names |-> 0] /\ samples = [p \in Names |-> <<>>]
    /\ chosen = NoChoice /\ steady = TRUE /\ selections = 0
    /\ registered = <<>> /\ mapping = [m \in {} |-> 0] /\ early = {} /\ objects = 0
    /\ check = NoCheck /\ closed = {}
    /\ adapter \in IF does = "answers" THEN Adapters ELSE {OpenAI}
    /\ stream = NoStream /\ streams = 0 /\ chat = NoChat /\ chats = 0
    /\ totals = [requests |-> 0, failures |-> 0] /\ abandoned = 0
-----------------------------------------------------------------------------
(* The balancer.                                                             *)

Places(p) == {n \in DOMAIN weights : weights[n].name = p}

\* _build_weight_map(): the last that is said of a provider
WeightOf(p) == IF Places(p) = {} THEN DefaultWeight ELSE weights[Max(Places(p))].weight

\* The key of _rank_candidates(): those that have a weight first
Rank(p) == IF Places(p) = {} THEN Len(weights) + 1 ELSE Min(Places(p))

\* ... and candidates of one rank in their order.
Before(candidates, i, k) ==
    \/ Rank(candidates[i]) < Rank(candidates[k])
    \/ Rank(candidates[i]) = Rank(candidates[k]) /\ i < k

FirstOf(candidates, S, i) == i \in S /\ \A k \in S \ {i} : Before(candidates, i, k)

(* Mutant of LessUsed: the counter alone is compared. *)
LessUsedOften(p, q) == WeightOf(p) > 0 /\ (WeightOf(q) = 0 \/ counters[p] < counters[q])

\* counter / weight, infinite without a weight
LessUsed(p, q) ==
    WeightOf(p) > 0 /\ (WeightOf(q) = 0 \/ counters[p] * WeightOf(q) < counters[q] * WeightOf(p))

\* The first that is used least, or the first of all where no one has a weight.
LeastUsed(candidates, i) ==
    LET least == {n \in DOMAIN candidates :
                     \A k \in DOMAIN candidates : ~LessUsed(candidates[k], candidates[n])}
    IN  FirstOf(candidates, least, i)

\* WeightedRoundRobin.select(): the only candidate is not counted
SelectByWeight(candidates) ==
    /\ selections < MaxSelections /\ selections' = selections + 1
    /\ \E i \in DOMAIN candidates :
          /\ LeastUsed(candidates, i)
          /\ chosen' = [from |-> "weights", name |-> candidates[i], among |-> Range(candidates)]
          /\ counters' = IF Len(candidates) = 1 THEN counters ELSE [counters EXCEPT ![candidates[i]] = @ + 1]
    /\ steady' = (steady /\ Range(candidates) = Names)
    /\ UNCHANGED <<weights, samples>>

Measured(p) == Len(samples[p]) >= MinSamples

\* The k-th of the samples by size.
Ordered(s, k) ==
    CHOOSE v \in Range(s) : /\ Cardinality({n \in DOMAIN s : s[n] < v}) < k
                            /\ Cardinality({n \in DOMAIN s : s[n] <= v}) >= k

\* Twice the median of an even or odd number of samples.
Median2(p) ==
    LET s == samples[p]
    IN  Ordered(s, (Len(s) + 1) \div 2) + Ordered(s, (Len(s) + 2) \div 2)

\* LeastLatency.select(): the fastest of those measured, the first among equals, else the last of all
Fastest(candidates, i) ==
    LET measured == {n \in DOMAIN candidates : Measured(candidates[n])}
        fastest == {n \in measured : \A k \in measured : Median2(candidates[n]) <= Median2(candidates[k])}
    IN  IF measured = {} THEN \A k \in DOMAIN candidates \ {i} : Before(candidates, k, i)
        ELSE FirstOf(candidates, fastest, i)

SelectByLatency(candidates) ==
    /\ \E i \in DOMAIN candidates :
          /\ Fastest(candidates, i)
          /\ chosen' = [from |-> "latency", name |-> candidates[i], among |-> Range(candidates)]
    /\ UNCHANGED <<weights, counters, samples, steady, selections>>

\* record_latency(): the oldest sample leaves a full window
RecordLatency(p, latency) ==
    /\ samples' = [samples EXCEPT ![p] =
           LET all == Append(@, latency)
           IN  IF Len(all) > WindowSize THEN Tail(all) ELSE all]
    /\ chosen' = NoChoice
    /\ UNCHANGED <<weights, counters, steady, selections>>

SetWeights(w) ==
    /\ w # weights /\ weights' = w /\ steady' = FALSE /\ chosen' = NoChoice
    /\ UNCHANGED <<counters, samples, selections>>

CandidateLists ==
    {c \in UNION {[1..n -> Names] : n \in 1..Cardinality(Names)} :
        \A i, k \in DOMAIN c : c[i] = c[k] => i = k}

WeightNext ==
    \/ \E candidates \in CandidateLists : SelectByWeight(candidates)
    \/ \E w \in Weightings : SetWeights(w)

LatencyNext ==
    \/ \E candidates \in CandidateLists : SelectByLatency(candidates)
    \/ \E p \in Names, latency \in Latencies : RecordLatency(p, latency)
-----------------------------------------------------------------------------
(* The registry.  A provider is an object under an id; ids keep the order in *)
(* which they were first registered.                                         *)

Registered == {registered[n].id : n \in DOMAIN registered}
ObjectsOf(ids) == {registered[n].object : n \in {k \in DOMAIN registered : registered[k].id \in ids}}

Register(id) ==
    /\ objects < MaxObjects /\ objects' = objects + 1
    /\ LET entry == [id |-> id, object |-> objects + 1]
       IN  \/ id \notin Registered /\ registered' = Append(registered, entry)
           \/ \E n \in DOMAIN registered :
                 registered[n].id = id /\ registered' = [registered EXCEPT ![n] = entry]
    /\ UNCHANGED <<mapping, early, check, closed>>

MapModel(m, id) ==
    /\ mapping' = [x \in DOMAIN mapping \cup {m} |-> IF x = m THEN id ELSE mapping[x]]
    /\ early' = IF id \in Registered THEN early \ {m} ELSE early \cup {m}
    /\ UNCHANGED <<registered, objects, check, closed>>

Unregister(id) ==
    /\ \E n \in DOMAIN registered :
          registered[n].id = id /\ registered' = RemoveAt(registered, n)
    /\ mapping' = [m \in {x \in DOMAIN mapping : mapping[x] # id} |-> mapping[m]]
    /\ UNCHANGED <<early, objects, check, closed>>

\* get_provider_for_model(): the mapping decides, also when it leads nowhere; else the provider that
\* the name tells, if it is there, or the first.  `told` is what the name tells, {} for nothing.
ProviderFor(m, told) ==
    IF m \in DOMAIN mapping THEN ObjectsOf({mapping[m]})
    ELSE IF told \cap Registered # {} THEN ObjectsOf(told)
    ELSE IF registered = <<>> THEN {} ELSE {registered[1].object}

\* close() of the gateway: health_check_all() reads the ids, each is looked up and answers or fails;
\* then those that are there are closed one after the other.
CloseBegins ==
    /\ check.at = "idle"
    /\ check' = [NoCheck EXCEPT !.at = "checking", !.ids = Registered, !.from = ObjectsOf(Registered)]
    /\ UNCHANGED <<registered, mapping, early, objects, closed>>

CheckOne(id) ==
    /\ check.at = "checking" /\ id \in check.ids \ check.got
    /\ check' = [check EXCEPT !.got = @ \cup {id},
                              !.answered = IF id \in Registered THEN @ ELSE @ \cup {id}]
    /\ UNCHANGED <<registered, mapping, early, objects, closed>>

AnswerOne(id) ==
    /\ check.at = "checking" /\ id \in check.got \ check.answered
    /\ check' = [check EXCEPT !.answered = @ \cup {id}]
    /\ UNCHANGED <<registered, mapping, early, objects, closed>>

CloseStarts ==
    /\ check.at = "checking" /\ check.answered = check.ids
    /\ check' = [check EXCEPT !.at = "closing"]
    /\ UNCHANGED <<registered, mapping, early, objects, closed>>

CloseOne(id) ==
    /\ check.at = "closing" /\ id \in check.got
    /\ check' = [check EXCEPT !.got = @ \ {id}]
    /\ closed' = closed \cup ObjectsOf({id})
    /\ UNCHANGED <<registered, mapping, early, objects>>

CloseEnds ==
    /\ check.at = "closing" /\ check.got = {}
    /\ check' = [check EXCEPT !.at = "closed"]
    /\ UNCHANGED <<registered, mapping, early, objects, closed>>

RegistryNext ==
    \/ \E id \in Ids :
          \/ Register(id) \/ Unregister(id) \/ (\E m \in Models : MapModel(m, id))
          \/ CheckOne(id) \/ AnswerOne(id) \/ CloseOne(id)
    \/ CloseBegins \/ CloseStarts \/ CloseEnds
-----------------------------------------------------------------------------
(* An adapter.  Every request of its consumers counts in the same totals.    *)

\* _record_request()
RecordRequest(success) ==
    totals' = [requests |-> totals.requests + 1,
               failures |-> IF success THEN totals.failures ELSE totals.failures + 1]

(* A stream.  The calls are numbered by their index; the id of call i is     *)
(* ids[i]; its fragments are numbered in the order of sending.               *)
Begin ==
    /\ stream.at # "open" /\ streams < MaxStreams /\ streams' = streams + 1
    /\ \E ids \in CallIds : stream' = [NoStream EXCEPT !.at = "open", !.ids = ids]
    /\ UNCHANGED <<adapter, chatVars, totals, abandoned>>

\* The first that is heard of a call: its id and its name.
CallStarts ==
    /\ stream.at = "open" /\ Len(stream.sent) < Len(stream.ids)
    /\ stream' = [stream EXCEPT !.sent = Append(@, 0), !.kept = Append(@, <<>>)]
    /\ UNCHANGED <<adapter, streams, chatVars, totals, abandoned>>

\* A piece of the arguments of call i, which is added where the adapter finds the call.
Fragment(i) ==
    /\ stream.at = "open" /\ stream.sent[i] < MaxFragments
    /\ stream' = [stream EXCEPT
           !.sent = [stream.sent EXCEPT ![i] = @ + 1],
           !.kept = IF adapter.finds # "index" THEN @
                    ELSE [stream.kept EXCEPT ![i] = Append(@, stream.sent[i] + 1)]]
    /\ UNCHANGED <<adapter, streams, chatVars, totals, abandoned>>

\* The calls in the order of their ids, or as they came.
CallOrder(order) ==
    /\ order \in [DOMAIN stream.sent -> DOMAIN stream.sent]
    /\ Range(order) = DOMAIN stream.sent
    /\ \A n, k \in DOMAIN order : n < k =>
          IF adapter.finds = "index" THEN stream.ids[order[n]] < stream.ids[order[k]] ELSE order[n] < order[k]

\* The last response, with the calls if the adapter has them.
StreamEnds ==
    /\ stream.at = "open"
    /\ \E order \in [DOMAIN stream.sent -> DOMAIN stream.sent] :
          /\ CallOrder(order)
          /\ stream' = [stream EXCEPT !.at = "done",
                 !.calls = IF adapter.finds = "no calls" THEN <<>>
                           ELSE [n \in DOMAIN stream.sent |->
                                    [id |-> stream.ids[order[n]], arguments |-> stream.kept[order[n]]]]]
    /\ RecordRequest(TRUE)
    /\ UNCHANGED <<adapter, streams, chatVars, abandoned>>

StreamFails ==
    /\ stream.at = "open"
    /\ stream' = [stream EXCEPT !.at = "failed"]
    /\ RecordRequest(FALSE)
    /\ UNCHANGED <<adapter, streams, chatVars, abandoned>>

\* The consumer closes the generator, which is no error and is not recorded.
ConsumerLeaves ==
    /\ stream.at = "open"
    /\ stream' = [stream EXCEPT !.at = "left"]
    /\ abandoned' = abandoned + 1
    /\ UNCHANGED <<adapter, streams, chatVars, totals>>

(* A chat.  An answer may have no choice in it, ends for one of the reasons  *)
(* that its API names, and has calls only if the request has tools.          *)
Reasons == IF adapter = Anthropic THEN {"", "end_turn", "tool_use", "max_tokens"}
           ELSE {"", "stop", "tool_calls", "length"}

Answers(tools) ==
    [empty : BOOLEAN, calls : {<<>>} \cup (IF tools THEN CallIds ELSE {}), ends : Reasons]

Finish(ends) == IF ends = "" THEN "stop" ELSE ends

\* What becomes of the tools of a request: one of the adapters may not send them.
SendsTools == adapter.name # "llama.cpp"

\* What the SDKs of the OpenAI API have: the first choice, and no response if there is none.
FirstChoice(answer) ==
    IF answer.empty THEN {} ELSE {[calls |-> answer.calls, finish |-> Finish(answer.ends)]}

OpenAIChat(answer) == FirstChoice(answer)
DeepSeekChat(answer) == FirstChoice(answer)
VLLMChat(answer) == FirstChoice(answer)

LlamaCppChat(answer) ==
    {[calls |-> IF SendsTools THEN r.calls ELSE <<>>, finish |-> r.finish] : r \in FirstChoice(answer)}

\* Blocks, of which there may be none.
AnthropicChat(answer) ==
    {[calls |-> IF answer.empty THEN <<>> ELSE answer.calls,
      finish |-> IF answer.ends = "end_turn" THEN "stop"
                 ELSE IF answer.ends = "tool_use" THEN "tool_calls" ELSE Finish(answer.ends)]}

Responses(answer) ==
    CASE adapter = OpenAI -> OpenAIChat(answer)
      [] adapter = DeepSeek -> DeepSeekChat(answer)
      [] adapter = VLLM -> VLLMChat(answer)
      [] adapter = Anthropic -> AnthropicChat(answer)
      [] adapter \in LlamaCpp -> LlamaCppChat(answer)

Ask(tools) ==
    /\ chat.at # "asked" /\ chats < MaxChats /\ chats' = chats + 1
    /\ chat' = [NoChat EXCEPT !.at = "asked", !.tools = tools]
    /\ UNCHANGED <<adapter, stream, streams, totals, abandoned>>

\* The request is a success before anyone looks at the answer.
Answered(answer) ==
    /\ chat.at = "asked" /\ RecordRequest(TRUE)
    /\ \/ Responses(answer) = {} /\ chat' = [chat EXCEPT !.at = "broken", !.answer = answer]
       \/ \E response \in Responses(answer) :
             chat' = [chat EXCEPT !.at = "returned", !.answer = answer, !.response = response]
    /\ UNCHANGED <<adapter, stream, streams, chats, abandoned>>

AskFails ==
    /\ chat.at = "asked" /\ RecordRequest(FALSE)
    /\ chat' = [chat EXCEPT !.at = "failed"]
    /\ UNCHANGED <<adapter, stream, streams, chats, abandoned>>

\* The caller's task is cancelled while the request is under way.
AskCancelled ==
    /\ chat.at = "asked"
    /\ chat' = [chat EXCEPT !.at = "cancelled"] /\ abandoned' = abandoned + 1
    /\ UNCHANGED <<adapter, stream, streams, chats, totals>>

AdapterNext ==
    \/ Begin \/ CallStarts \/ StreamEnds \/ StreamFails \/ ConsumerLeaves
    \/ \E i \in DOMAIN stream.sent : Fragment(i)
    \/ \E tools \in BOOLEAN : Ask(tools)
    \/ \E answer \in Answers(chat.tools /\ SendsTools) : Answered(answer)
    \/ AskFails \/ AskCancelled
-----------------------------------------------------------------------------
Next ==
    \/ does = "weights" /\ WeightNext /\ UNCHANGED <<does, registryVars, adapterVars>>
    \/ does = "latency" /\ LatencyNext /\ UNCHANGED <<does, registryVars, adapterVars>>
    \/ does = "registry" /\ RegistryNext /\ UNCHANGED <<does, balancerVars, adapterVars>>
    \/ does = "answers" /\ AdapterNext /\ UNCHANGED <<does, balancerVars, registryVars>>

Spec == Init /\ [][Next]_vars
-----------------------------------------------------------------------------
(* While the weights stay and all providers are candidates, no provider gets *)
(* ahead of its share by more than one request, in whatever order they are   *)
(* offered; and one without a weight is taken only if none has any.          *)
SharesAreKept ==
    /\ steady => \A p, q \in Names :
          counters[p] > 0 => (counters[p] - 1) * WeightOf(q) <= counters[q] * WeightOf(p)
    /\ chosen.from = "weights" /\ WeightOf(chosen.name) = 0 =>
          \A p \in chosen.among : WeightOf(p) = 0

(* The balancer takes a candidate, and by latency never one that is known to *)
(* be slower than another, nor an unknown one before a known.                *)
FastestIsTaken ==
    chosen.from = "latency" =>
        /\ chosen.name \in chosen.among
        /\ \A p \in chosen.among : Measured(p) =>
              Measured(chosen.name) /\ Median2(chosen.name) <= Median2(p)

(* A model is served while there is a provider, unless it was mapped to one  *)
(* that was not there: taking a provider away takes its mappings along.      *)
ModelsAreServed ==
    registered # <<>> => \A m \in Models \ early : \A told \in SUBSET Ids :
        ProviderFor(m, told) # {}

(* Once the gateway is closed, so is every provider that it had when that    *)
(* began and still has.                                                      *)
CloseReachesAll == check.at = "closed" => check.from \cap ObjectsOf(Registered) \subseteq closed

(* However the pieces of several calls mix, every call of a stream comes     *)
(* back once, and with all of its arguments in order where the adapter reads *)
(* indices.                                                                  *)
CallsArePutTogether ==
    stream.at = "done" /\ adapter.finds # "no calls" =>
        /\ Len(stream.calls) = Len(stream.sent)
        /\ \A i \in DOMAIN stream.sent : \E n \in DOMAIN stream.calls :
              /\ stream.calls[n].id = stream.ids[i]
              /\ adapter.finds = "index" => stream.calls[n].arguments = [k \in 1..stream.sent[i] |-> k]

(* Whichever adapter answers, a chat returns the calls of the answer, none   *)
(* unless the request had tools, and says in one way that it ends for them.  *)
ChatsAgree ==
    chat.at = "returned" =>
        /\ chat.response.calls # <<>> => chat.tools
        /\ ~chat.answer.empty => chat.response.calls = chat.answer.calls
        /\ chat.response.finish \notin {"", "end_turn", "tool_use"}
        /\ chat.response.finish = "tool_calls" <=> chat.answer.ends \in {"tool_calls", "tool_use"}

(* Every request that was begun counts once: it is under way, was given up   *)
(* by its caller, or is in the totals.                                       *)
RequestsAreCounted ==
    /\ streams + chats = totals.requests + abandoned
                         + (IF stream.at = "open" THEN 1 ELSE 0) + (IF chat.at = "asked" THEN 1 ELSE 0)
    /\ totals.failures <= totals.requests

ProvidersInv ==
    SharesAreKept /\ FastestIsTaken /\ ModelsAreServed /\ CloseReachesAll
    /\ CallsArePutTogether /\ ChatsAgree /\ RequestsAreCounted
=============================================================================
