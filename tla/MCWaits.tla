------------------------------- MODULE MCWaits -------------------------------
(***************************************************************************)
(* Where tasks and agents wait for each other: the queue and the           *)
(* interruption handler of the streaming layer; the message bus of the     *)
(* agents, their blackboard and their detector of deadlocks; the calls     *)
(* round the memory of a conversation and round that of an agent; the      *)
(* tools that agents call.  They share no state, so that a run chooses one *)
(* in its initial state.                                                   *)
(***************************************************************************)
EXTENDS Backpressure

CONSTANT Parts      \* the components that a run is about

CONSTANTS InterrupterStreams, MaxAge, InterrupterTokens, TimeBound
CONSTANTS BusAgents, Monitor, None, MaxQueue, MaxMissed, MaxRequests, MaxSent
CONSTANTS Keys, MaxWrites, MaxRemovals
CONSTANTS Callers, Sizes, MaxStmTokens, SafetyTurns, MaxStmMessages,
          MaxMessages, MaxClears
CONSTANTS AgentCount, MaxTracked
CONSTANTS Tags, MaxRecentTokens, RecentTurns, MaxEpisodes, MaxMemories, MaxCalls
CONSTANTS ToolNames, Dependencies, Conflicts, Category, MaxRetries, MaxExecutions,
          Servers, Offered, Searchers, MaxSearches, MaxServed, Actions, Limited,
          MaxOperations, HistoryKept, LoopThreshold, MaxHistory, BatchSize,
          MaxAudited

VARIABLE part       \* the component that runs
VARIABLES streams, resuming, now, cut
VARIABLES queues, futures, requests, received, health, sent
VARIABLES data, writes, life, seen, subscribers, notifying, waits, update
VARIABLES dependencies, waitingOn, tracked, resolved
VARIABLES conversations, conversation, nextMessage, clears, chats
VARIABLES recent, system, totalTokens, memories, tagsIndex, vectors, total,
          episodes, embeddings, jobs, added, calls
VARIABLES offers, tools, byCategory, usage, executions, executed, listed,
          discovered, byServer, foundBy, searches, searched, resources, pool,
          served, errors, reply, called, acted, log, file, missed

interrupterVars == <<streams, resuming, now, cut>>
busVars == <<queues, futures, requests, received, health, sent>>
boardVars == <<data, writes, life, seen, subscribers, notifying, waits, update>>
detectorVars == <<dependencies, waitingOn, tracked, resolved>>
conversationVars == <<conversations, conversation, nextMessage, clears, chats>>
memoryVars == <<recent, system, totalTokens, memories, tagsIndex, vectors, total,
    episodes, embeddings, jobs, added, calls>>
toolsVars == <<offers, tools, byCategory, usage, executions, executed, listed,
    discovered, byServer, foundBy, searches, searched, resources, pool, served,
    errors, reply, called, acted, log, file, missed>>

StreamInterrupter == INSTANCE StreamInterrupter WITH
    Streams <- InterrupterStreams, TokenBound <- InterrupterTokens
Bus == INSTANCE AgentBus WITH Agents <- BusAgents
Board == INSTANCE Blackboard WITH Agents <- BusAgents
DeadlockDetector == INSTANCE DeadlockDetector
Memory == INSTANCE ConversationMemory WITH
    convs <- conversations, current <- conversation, nextId <- nextMessage,
    task <- chats
AgentMemory == INSTANCE Memory WITH
    MaxTokens <- MaxRecentTokens, SafetyTurns <- RecentTurns, buffer <- recent
Tools == INSTANCE Tools WITH
    Names <- ToolNames, MaxRequests <- MaxServed, MaxCalls <- MaxAudited,
    requests <- served, history <- acted,
    found <- discovered

ASSUME WaitsAssumption ==
  /\ StreamInterrupter!StreamInterrupterAssumption
  /\ MaxQueue \in Nat \ {0}
  /\ MaxMissed \in Nat /\ MaxRequests \in Nat /\ MaxSent \in Nat
  /\ None \notin Bus!Message
  /\ MaxWrites \in Nat /\ MaxRemovals \in Nat
  /\ Memory!ConversationAssumption
  /\ DeadlockDetector!DetectorAssumption
  /\ AgentMemory!MemoryAssumption
  /\ Tools!ToolsAssumption

(* Three tools, one that depends on the first and conflicts with the third. *)
MCDependencies == [t1 |-> {}, t2 |-> {"t1"}, t3 |-> {}]
MCConflicts == [t1 |-> {}, t2 |-> {"t3"}, t3 |-> {}]
MCCategory == [t1 |-> "web", t2 |-> "web", t3 |-> "code"]
MCOffered == {<<"s1", "t1">>, <<"s1", "t2">>, <<"s2", "t1">>}
MCLimited == [fetch |-> {"fetch", "file"}, file |-> {"fetch", "file"}]

(* Every component starts where it does by itself; one that is not run has *)
(* a single initial state.                                                 *)
PartsInit ==
    /\ part \in Parts
    /\ Init
    /\ StreamInterrupter!Init
    /\ Bus!Init
    /\ Board!Init
    /\ DeadlockDetector!Init
    /\ Memory!Init
    /\ AgentMemory!Init
    /\ Tools!Init /\ (part # "tools" => offers = "log")

(* The components but p stand still. *)
Others(p) ==
    /\ UNCHANGED part
    /\ p # "queue" => UNCHANGED vars
    /\ p # "interrupter" => UNCHANGED interrupterVars
    /\ p # "bus" => UNCHANGED busVars
    /\ p # "blackboard" => UNCHANGED boardVars
    /\ p # "detector" => UNCHANGED detectorVars
    /\ p # "conversation" => UNCHANGED conversationVars
    /\ p # "memory" => UNCHANGED memoryVars
    /\ p # "tools" => UNCHANGED toolsVars

PartsNext ==
    \/ part = "queue" /\ Next /\ Others("queue")
    \/ part = "interrupter" /\ StreamInterrupter!Next /\ Others("interrupter")
    \/ part = "bus" /\ Bus!Next /\ Others("bus")
    \/ part = "blackboard" /\ Board!Next /\ Others("blackboard")
    \/ part = "detector" /\ DeadlockDetector!Next /\ Others("detector")
    \/ part = "conversation" /\ Memory!Next /\ Others("conversation")
    \/ part = "memory" /\ AgentMemory!Next /\ Others("memory")
    \/ part = "tools" /\ Tools!Next /\ Others("tools")

partsVars == <<part, vars, interrupterVars, busVars, boardVars, detectorVars,
    conversationVars, memoryVars, toolsVars>>
PartsSpec == PartsInit /\ [][PartsNext]_partsVars

(* The fairness of each component, for the component that runs. *)
PartsFair ==
    /\ \A p \in Producers : WF_vars(part = "queue" /\ ResumeProducer(p))
    /\ \A c \in Consumers : WF_vars(part = "queue" /\ ResumeConsumer(c))
PartsFairSpec == PartsSpec /\ PartsFair

InterrupterInv == StreamInterrupter!InterrupterInv
NonResumableStays == StreamInterrupter!NonResumableStays
BusInv == Bus!BusInv
BlackboardInv == Board!BlackboardInv
DetectorInv == DeadlockDetector!DetectorInv
MemoriesInv == Memory!ConversationInv /\ AgentMemory!MemoryInv
ToolsInv == Tools!ToolsInv
SearchIsExact == DeadlockDetector!SearchIsExact

(***************************************************************************)
(* What the documentation says and the code does not keep                  *)
(***************************************************************************)
(* Nobody cancels the caller of resume_stream.                             *)
PatientNext ==
    /\ part = "interrupter" /\ Others("interrupter")
    /\ StreamInterrupter!Next /\ (resuming # "nobody" => resuming' = resuming)

PatientSpec == PartsInit /\ [][PatientNext]_partsVars /\ WF_partsVars(PatientNext)

(* "Resume a previously interrupted stream. Re-activates the stream and    *)
(* returns the partial text": the call returns.                            *)
ResumeReturns == \A s \in InterrupterStreams : resuming = s ~> resuming # s
=============================================================================
