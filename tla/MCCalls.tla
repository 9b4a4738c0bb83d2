------------------------------- MODULE MCCalls -------------------------------
(***************************************************************************)
(* The calls that leave the system, by component: the circuit breaker of a *)
(* provider, the choice of a provider and its adapter, the sessions, the   *)
(* pipe and the registry of the MCP client.                                *)
(* None of them shares state with another, so that a run chooses one in    *)
(* its initial state and checks that one alone.                            *)
(***************************************************************************)
EXTENDS CircuitBreaker

CONSTANT Parts      \* the components that a run is about

CONSTANTS Servers, Callers, Cleaners, MaxConnections, MaxRetries,
          MaxRegistrations, MaxOpened
CONSTANTS Clients, MaxLines
CONSTANTS Names, Weightings, DefaultWeight, WindowSize, MinSamples, Latencies,
          MaxSelections, Ids, Models, MaxObjects, CallIds, MaxFragments,
          MaxStreams, MaxChats

VARIABLE part       \* the component that runs
VARIABLES registered, session, activeCount, lock, call, opened
VARIABLES sent, served, unread, script, awaits, connected, tools, answered
VARIABLES known, client, dialing, dropping, monitor, unchecked, faults
VARIABLES does, weights, counters, samples, chosen, steady, selections,
          providers, mapping, early, objects, closing, closed,
          adapter, stream, streams, chat, chats, totals, abandoned

sessionsVars == <<registered, session, activeCount, lock, call, opened>>
pipeVars == <<sent, served, unread, script, awaits, connected, tools, answered>>
registryVars == <<known, client, dialing, dropping, monitor, unchecked, faults>>
providersVars == <<does, weights, counters, samples, chosen, steady, selections,
    providers, mapping, early, objects, closing, closed,
    adapter, stream, streams, chat, chats, totals, abandoned>>

McpSessions == INSTANCE McpSessions
McpPipe == INSTANCE McpPipe
McpRegistry == INSTANCE McpRegistry WITH
    Hosts <- {"h1", "h2"}, MaxFaults <- 1
Providers == INSTANCE Providers WITH registered <- providers, check <- closing

(* The bound on the lines leaves room for a handshake. *)
ASSUME PipeAssumption == IsFiniteSet(Clients) /\ MaxLines \in Nat /\ MaxLines >= 3
ASSUME ProvidersAssumption == Providers!ProvidersBounds

(* Two weights, one or none, by priority. *)
MCWeightings == {<<[name |-> "p2", weight |-> 3], [name |-> "p1", weight |-> 1]>>,
                 <<[name |-> "p1", weight |-> 0]>>}
MCCallIds == {<<1, 2>>, <<2, 1>>}

(* Every component starts where it does by itself; one that is not run has *)
(* a single initial state.                                                 *)
PartsInit ==
    /\ part \in Parts
    /\ Init
    /\ McpSessions!Init
    /\ McpPipe!Init
    /\ McpRegistry!Init
    /\ Providers!Init /\ (part # "providers" => does = "registry")

(* The components but p stand still. *)
Others(p) ==
    /\ UNCHANGED part
    /\ p # "breaker" => UNCHANGED vars
    /\ p # "sessions" => UNCHANGED sessionsVars
    /\ p # "pipe" => UNCHANGED pipeVars
    /\ p # "registry" => UNCHANGED registryVars
    /\ p # "providers" => UNCHANGED providersVars

PartsNext ==
    \/ part = "breaker" /\ Next /\ Others("breaker")
    \/ part = "sessions" /\ McpSessions!Next /\ Others("sessions")
    \/ part = "pipe" /\ McpPipe!Next /\ Others("pipe")
    \/ part = "registry" /\ McpRegistry!Next /\ Others("registry")
    \/ part = "providers" /\ Providers!Next /\ Others("providers")

partsVars == <<part, vars, sessionsVars, pipeVars, registryVars, providersVars>>
PartsSpec == PartsInit /\ [][PartsNext]_partsVars

(* The fairness of each component, for the component that runs. *)
PartsFair ==
    /\ \A c \in Calls : WF_vars(part = "breaker" /\ BeforeCall(c))
    /\ \A c \in Calls : WF_vars(part = "breaker" /\ Report(c))
    /\ WF_vars(part = "breaker" /\ Tick)
    /\ \A p \in Callers : SF_sessionsVars(part = "sessions" /\ McpSessions!Acquire(p))
    /\ \A p \in Callers : WF_sessionsVars(part = "sessions" /\ McpSessions!Proceed(p))
    /\ WF_registryVars(part = "registry" /\ McpRegistry!Monitor)
    /\ \A h \in {"h1", "h2"} : WF_registryVars(part = "registry" /\ McpRegistry!Drop(h))
    /\ \A c \in {"admin", "monitor"}, h \in {"h1", "h2"} : WF_registryVars(part = "registry" /\ McpRegistry!Dialled(c, h))
PartsFairSpec == PartsSpec /\ PartsFair

ProvidersInv == part = "providers" => Providers!ProvidersInv
CallsReturn == McpSessions!CallsReturn
PipeInv == McpPipe!PipeInv
Recovers == McpRegistry!Recovers

(***************************************************************************)
(* What the documentation says and the code does not keep                  *)
(***************************************************************************)
(* The docstring of route_stream, "circuit breaker check is done once":    *)
(* no stream goes to a provider its breaker keeps calls from.              *)
StreamsAreChecked ==
    [][\A c \in Streams : c \in running' \ running => Admits(breaker)]_vars
=============================================================================
