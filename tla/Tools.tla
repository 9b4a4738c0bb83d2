-------------------------------- MODULE Tools --------------------------------
(***************************************************************************)
(* The tools of agents and of MCP clients: the registry that runs them     *)
(* with retries, the discovery that keeps those of many servers, the       *)
(* server that offers them, with the pool of its peers, the guard that     *)
(* looks at what an agent did before it does more, the log of what was     *)
(* called.  They share no state: a run is about one of them.               *)
(***************************************************************************)
EXTENDS Naturals, Sequences, SequencesExt, FiniteSets, FiniteSetsExt

CONSTANTS Names,                        \* of tools
          Dependencies, Conflicts, Category,  \* what the definition of a tool says
          Callers, MaxRetries, MaxExecutions,
          Servers, Offered,             \* and which of them may offer which tool
          Searchers, MaxSearches,       \* who discovers, and how often
          MaxRequests,
          Actions, Limited, MaxOperations,    \* what an agent does; what it may not do often
          HistoryKept, LoopThreshold, MaxHistory,
          BatchSize, MaxCalls,
          None

ToolsAssumption ==
    /\ IsFiniteSet(Names) /\ IsFiniteSet(Callers) /\ IsFiniteSet(Servers) /\ IsFiniteSet(Searchers)
    /\ None # "success" /\ MaxRetries \in Nat /\ Offered \subseteq Servers \X Names
    /\ MaxOperations \in Nat /\ HistoryKept \in Nat /\ LoopThreshold \in Nat /\ BatchSize \in Nat
    \* What is limited with an action is limited with every action counted for it.
    /\ \A a \in DOMAIN Limited : \A b \in Limited[a] : b \in DOMAIN Limited /\ Limited[b] = Limited[a]

VARIABLES offers,                       \* "registry", "discovery", "server", "guard" or "log"
          tools, byCategory, usage, executions, executed,
          listed, found, byServer, foundBy, searches, searched,
          resources, pool, requests, errors, reply, called,
          history,
          log, file, missed

registryVars == <<tools, byCategory, usage, executions, executed>>
discoveryVars == <<listed, found, byServer, foundBy, searches, searched>>
serverVars == <<resources, pool, requests, errors, reply, called>>
logVars == <<log, file, missed>>
vars == <<offers, registryVars, discoveryVars, serverVars, history, logVars>>

Categories == {Category[t] : t \in Names}
Idle == [at |-> "idle", tool |-> None, runs |-> 0, last |-> None, status |-> None]
NoReply == [id |-> 0, asked |-> None, kind |-> None]

Init ==
    /\ offers \in {"registry", "discovery", "server", "guard", "log"}
    /\ tools = <<>> /\ byCategory = [c \in Categories |-> <<>>]
    /\ usage = [t \in Names |-> [calls |-> 0, errors |-> 0]]
    /\ executions = [c \in Callers |-> Idle] /\ executed = 0
    /\ listed = [s \in Servers |-> {}] /\ found = {} /\ searched = 0
    /\ byServer = [s \in Servers |-> <<>>] /\ foundBy = [w \in Searchers |-> 0]
    /\ searches = [w \in Searchers |-> [s \in Servers |-> [at |-> "idle", new |-> 0]]]
    /\ resources = {} /\ pool = <<>> /\ requests = 0 /\ errors = 0 /\ reply = NoReply /\ called = <<>>
    /\ history = <<>> /\ log = 0 /\ file = <<>> /\ missed = [now |-> 0, most |-> 0]
-----------------------------------------------------------------------------
(* ToolRegistry: its tools in the order of their registration.               *)

Without(s, t) ==
    LET i == CHOOSE i \in DOMAIN s : s[i] = t
    IN  SubSeq(s, 1, i - 1) \o SubSeq(s, i + 1, Len(s))

Register(t) ==
    /\ t \notin ToSet(tools)
    /\ Dependencies[t] \subseteq ToSet(tools) /\ Conflicts[t] \cap ToSet(tools) = {}
    /\ tools' = Append(tools, t)
    /\ byCategory' = [byCategory EXCEPT ![Category[t]] = Append(@, t)]
    /\ UNCHANGED <<usage, executions, executed>>

\* A tool that others depend on goes with a warning.
Unregister(t) ==
    /\ t \in ToSet(tools)
    /\ tools' = Without(tools, t)
    /\ byCategory' = [byCategory EXCEPT ![Category[t]] = Without(@, t)]
    /\ UNCHANGED <<usage, executions, executed>>

\* execute(): a name that is unknown, or arguments that are not valid, are answered at once
Execute(c, t, valid) ==
    /\ executed < MaxExecutions /\ executed' = executed + 1
    /\ executions[c].at \in {"idle", "answered"}
    /\ executions' = [executions EXCEPT ![c] =
           IF t \in ToSet(tools) /\ valid THEN [Idle EXCEPT !.at = "running", !.tool = t, !.runs = 1]
           ELSE [Idle EXCEPT !.at = "answered", !.tool = t,
                             !.status = IF valid THEN "fatal_error" ELSE "invalid_args"]]
    /\ UNCHANGED <<tools, byCategory, usage>>

\* The tool returns a result: whatever it says, it is the answer.
ToolReturns(c, status) ==
    /\ executions[c].at = "running"
    /\ executions' = [executions EXCEPT ![c].at = "answered", ![c].last = status, ![c].status = status]
    /\ usage' = [usage EXCEPT ![executions[c].tool].calls = @ + 1,
                              ![executions[c].tool].errors = @ + (IF status = "success" THEN 0 ELSE 1)]
    /\ UNCHANGED <<tools, byCategory, executed>>

\* It raises, or the sandbox ends it at its timeout: once more after a pause, or the answer of the last.
ToolRaises(c, what) ==
    /\ executions[c].at = "running"
    /\ executions' = [executions EXCEPT
           ![c].last = what,
           ![c].at = IF @ = "running" /\ executions[c].runs = MaxRetries + 1 THEN "answered" ELSE "waiting",
           ![c].status = IF executions[c].runs = MaxRetries + 1 THEN what ELSE None]
    /\ UNCHANGED <<tools, byCategory, usage, executed>>

Retry(c) ==
    /\ executions[c].at = "waiting"
    /\ executions' = [executions EXCEPT ![c].at = "running", ![c].runs = @ + 1]
    /\ UNCHANGED <<tools, byCategory, usage, executed>>

RegistryNext ==
    \/ \E t \in Names : Register(t) \/ Unregister(t)
    \/ \E c \in Callers, t \in Names, valid \in BOOLEAN : Execute(c, t, valid)
    \/ \E c \in Callers : \/ \E s \in {"success", "retryable_error"} : ToolReturns(c, s)
                          \/ \E w \in {"timeout", "retryable_error", "fatal_error"} : ToolRaises(c, w)
                          \/ Retry(c)
-----------------------------------------------------------------------------
(* ToolDiscovery: discover_from_clients() asks every server at once, by hand *)
(* or from the refresh loop.                                                 *)

SearchAll(w) ==
    /\ searched < MaxSearches /\ searched' = searched + 1
    /\ \A s \in Servers : searches[w][s].at \in {"idle", "done"}
    /\ searches' = [searches EXCEPT ![w] = [s \in Servers |-> [at |-> "asking", new |-> 0]]]
    /\ foundBy' = foundBy
    /\ UNCHANGED <<listed, found, byServer>>

(* Mutant of Unknown: what was found before is taken for new. *)
UnknownOrNot(s, answer) == answer

\* The tools of the answer that are not known yet: known by now, and not when the server was asked.
Unknown(s, answer) == {t \in answer : <<s, t>> \notin found}

\* discover_from_client(): the answer of one server; one that is not connected or fails gives none
ServerLists(w, s, answer) ==
    /\ searches[w][s].at = "asking"
    /\ LET new == Unknown(s, answer) IN
       /\ found' = found \cup {<<s, t>> : t \in new}
       /\ byServer' = [byServer EXCEPT ![s] = @ \o SetToSeq(new)]
       /\ searches' = [searches EXCEPT ![w][s] = [at |-> "done", new |-> Cardinality(new)]]
       /\ foundBy' = [foundBy EXCEPT ![w] = @ + Cardinality(new)]
    /\ UNCHANGED <<listed, searched>>

\* A server begins or ceases to offer a tool: nothing tells the platform so.
Offer(s, t) ==
    /\ listed' = [listed EXCEPT ![s] = IF t \in @ THEN @ \ {t} ELSE @ \cup {t}]
    /\ UNCHANGED <<found, byServer, foundBy, searches, searched>>

DiscoveryNext ==
    \/ \E w \in Searchers : SearchAll(w)
    \/ \E w \in Searchers, s \in Servers : ServerLists(w, s, listed[s]) \/ ServerLists(w, s, {})
    \/ \E o \in Offered : Offer(o[1], o[2])
-----------------------------------------------------------------------------
(* MCPServer.  A text is a sequence of words, numbers all; that of an        *)
(* argument is its placeholder.  A hook that is not set is one that returns. *)

RegisterResource(r) == /\ resources' = resources \cup {r}
                       /\ UNCHANGED <<pool, requests, errors, reply, called>>

Answer(kind, asked, counted) ==
    /\ requests < MaxRequests /\ requests' = requests + 1
    /\ reply' = [id |-> requests + 1, asked |-> asked, kind |-> kind]
    /\ errors' = errors + (IF counted THEN 1 ELSE 0)

\* handle_request(): what cannot be read, is no object or names no method; _dispatch(): an unknown
\* method; a handler that raises: parameters that are no object.  Only the unknown method is not counted.
HandleMalformed(kind) ==
    /\ Answer(kind, "malformed", kind # "method_not_found") /\ called' = <<>>
    /\ UNCHANGED <<resources, pool>>

\* ping, initialize and the lists
HandlePlain == Answer("result", "plain", FALSE) /\ called' = <<>> /\ UNCHANGED <<resources, pool>>

\* _handle_call_tool(): the hook before may refuse, the hook after may not
HandleCall(known, before, outcome, after) ==
    /\ called' = IF ~known THEN <<>>
                 ELSE IF before = "raises" THEN <<"before">>
                 ELSE IF outcome = "raises" THEN <<"before", "tool">> ELSE <<"before", "tool", "after">>
    /\ Answer(IF ~known THEN "invalid_params"
              ELSE IF before = "raises" \/ outcome = "raises" THEN "internal_error"
              ELSE IF outcome = "success" THEN "result" ELSE "result_is_error", "call", FALSE)
    /\ UNCHANGED <<resources, pool>>

\* _handle_read_resource()
HandleRead(r, raises) ==
    /\ Answer(IF r \notin resources THEN "invalid_params" ELSE IF raises THEN "internal_error" ELSE "result",
              "read", FALSE)
    /\ called' = <<>> /\ UNCHANGED <<resources, pool>>

\* MCPPool: what connects anew keeps its tools; what disconnects as well
ConnectPeer(s) ==
    /\ pool' = IF \E i \in DOMAIN pool : pool[i].name = s
               THEN [i \in DOMAIN pool |-> IF pool[i].name = s THEN [pool[i] EXCEPT !.connected = TRUE] ELSE pool[i]]
               ELSE Append(pool, [name |-> s, connected |-> TRUE, tools |-> 0])
    /\ UNCHANGED <<resources, requests, errors, reply, called>>

RegisterPeer(s, n) ==
    LET peer == [name |-> s, connected |-> TRUE, tools |-> n] IN
    /\ pool' = IF \E i \in DOMAIN pool : pool[i].name = s
               THEN [i \in DOMAIN pool |-> IF pool[i].name = s THEN peer ELSE pool[i]]
               ELSE Append(pool, peer)
    /\ UNCHANGED <<resources, requests, errors, reply, called>>

DisconnectPeer(s) ==
    /\ \E i \in DOMAIN pool : pool[i].name = s
    /\ pool' = [i \in DOMAIN pool |-> IF pool[i].name = s THEN [pool[i] EXCEPT !.connected = FALSE] ELSE pool[i]]
    /\ UNCHANGED <<resources, requests, errors, reply, called>>

ServerNext ==
    \/ \E r \in {"r"} : RegisterResource(r)
    \/ \E k \in {"parse_error", "invalid_request", "method_not_found", "internal_error"} : HandleMalformed(k)
    \/ HandlePlain
    \/ \E known \in BOOLEAN, b, a \in {"returns", "raises"}, o \in {"success", "error", "raises"} :
           HandleCall(known, b, o, a)
    \/ \E r \in {"r", "other"}, raises \in BOOLEAN : HandleRead(r, raises)
    \/ \E s \in Servers : ConnectPeer(s) \/ DisconnectPeer(s) \/ \E n \in {0, 2} : RegisterPeer(s, n)
-----------------------------------------------------------------------------
(* SafetyGuard: an agent that asks before each action, with all it did.      *)

LastOf(s, n) == SubSeq(s, Len(s) + 1 - Min({n, Len(s)}), Len(s))

\* detect_loop(): the last actions are all the same, or as many before them were the same as these
Loop(h) ==
    /\ Len(h) >= LoopThreshold
    /\ \/ Cardinality(ToSet(LastOf(h, LoopThreshold))) = 1
       \/ /\ Len(h) >= 2 * LoopThreshold
          /\ LastOf(h, LoopThreshold) = SubSeq(LastOf(h, 2 * LoopThreshold), 1, LoopThreshold)

\* check_tool_permission(): counted over the part of the history that detect_loop() keeps
Recently(h, n, actions) == {i \in 1..n : i + HistoryKept > n /\ h[i] \in actions}

Permitted(h, a) ==
    a \in DOMAIN Limited => Cardinality(Recently(h, Len(h), Limited[a])) < MaxOperations

Act(a) == /\ Len(history) < MaxHistory /\ ~Loop(history) /\ Permitted(history, a)
          /\ history' = Append(history, a)
-----------------------------------------------------------------------------
(* ToolSecurityManager.audit_tool_call(): the last entries are written, all  *)
(* of them, at every call; a write that fails is let pass.                   *)

AuditCall(fails) ==
    /\ log < MaxCalls /\ log' = log + 1
    /\ missed' = IF fails THEN [now |-> missed.now + 1, most |-> Max({missed.most, missed.now + 1})]
                 ELSE [missed EXCEPT !.now = 0]
    /\ file' = IF fails THEN file ELSE file \o LastOf([i \in 1..log' |-> i], BatchSize)
-----------------------------------------------------------------------------
Next ==
    \/ /\ offers = "registry" /\ RegistryNext
       /\ UNCHANGED <<offers, discoveryVars, serverVars, history, logVars>>
    \/ /\ offers = "discovery" /\ DiscoveryNext
       /\ UNCHANGED <<offers, registryVars, serverVars, history, logVars>>
    \/ /\ offers = "server" /\ ServerNext
       /\ UNCHANGED <<offers, registryVars, discoveryVars, history, logVars>>
    \/ /\ offers = "guard" /\ \E a \in Actions : Act(a)
       /\ UNCHANGED <<offers, registryVars, discoveryVars, serverVars, logVars>>
    \/ /\ offers = "log" /\ \E fails \in BOOLEAN : AuditCall(fails)
       /\ UNCHANGED <<offers, registryVars, discoveryVars, serverVars, history>>

Spec == Init /\ [][Next]_vars
-----------------------------------------------------------------------------
(* ToolRegistry: whatever comes and goes, the list of a category has its     *)
(* tools once each, in the order of their registration, and no tool came     *)
(* after one it conflicts with.                                              *)
RegistryAgrees ==
    /\ \A i, j \in DOMAIN tools : i < j => tools[i] # tools[j] /\ tools[i] \notin Conflicts[tools[j]]
    /\ \A c \in Categories :
           /\ ToSet(byCategory[c]) = {t \in ToSet(tools) : Category[t] = c}
           /\ \A i, j \in DOMAIN byCategory[c] : i < j =>
                  \E k, l \in DOMAIN tools : k < l /\ tools[k] = byCategory[c][i] /\ tools[l] = byCategory[c][j]

(* execute(): a tool runs once and once more for each retry, only what it    *)
(* did last decides, and what a tool raised is not counted among its calls.  *)
RetriesAreBounded ==
    /\ \A c \in Callers :
           LET e == executions[c] IN
           /\ e.runs <= MaxRetries + 1
           /\ e.at = "answered" /\ e.runs > 0 => e.status = e.last
           /\ e.status = "success" => e.last = "success"
    /\ Cardinality(UNION {{t} \X (1..usage[t].calls) : t \in Names}) <= executed
    /\ \A t \in Names : usage[t].errors <= usage[t].calls

(* discover_from_clients(): searches that overlap report each tool once      *)
(* between them, and a server has it once in its list.                       *)
FoundOnce ==
    /\ Cardinality(UNION {{w} \X (1..foundBy[w]) : w \in Searchers}) = Cardinality(found)
    /\ \A s \in Servers :
           /\ ToSet(byServer[s]) = {t \in Names : <<s, t>> \in found}
           /\ \A i, j \in DOMAIN byServer[s] : i # j => byServer[s][i] # byServer[s][j]

(* handle_request(): every request is answered under its own id, no tool is  *)
(* run that the hook refused, and no hook takes the result of a tool away.   *)
HooksGuard ==
    /\ reply.id = requests /\ errors <= requests
    /\ reply.asked = "call" =>
           /\ (reply.kind \in {"result", "result_is_error"} <=> called = <<"before", "tool", "after">>)
           /\ Contains(called, "tool") => called[1] = "before"

(* MCPPool: whatever connects, a server has one entry.                       *)
PeersOnce == \A i, j \in DOMAIN pool : i # j => pool[i].name # pool[j].name

(* SafetyGuard: an agent that asks before every action does nothing after a  *)
(* loop, and of what is limited no more than the limit within the actions    *)
(* that the guard remembers.                                                 *)
AgentIsHeld ==
    /\ \A n \in 0..(Len(history) - 1) : ~Loop(SubSeq(history, 1, n))
    /\ \A a \in DOMAIN Limited, n \in 0..Len(history) :
           Cardinality(Recently(history, n, Limited[a])) <= MaxOperations

(* audit_tool_call(): fewer failures in a row than a batch holds lose        *)
(* nothing: what the file lacks is written with the next call.               *)
AuditCatchesUp ==
    missed.now = 0 /\ missed.most < BatchSize => ToSet(file) = 1..log

ToolsInv == /\ RegistryAgrees /\ RetriesAreBounded /\ FoundOnce /\ HooksGuard
            /\ PeersOnce /\ AgentIsHeld /\ AuditCatchesUp
=============================================================================
