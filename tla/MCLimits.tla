------------------------------ MODULE MCLimits ------------------------------
(***************************************************************************)
(* What is limited: the requests of a tenant, the calls of a run of an     *)
(* agent, the connections to MCP servers, the time of a resource, who may  *)
(* do what, and what is written down of it.  The rate limiter, the runs,   *)
(* how they are orchestrated, the sessions, the reclaimer, the access and  *)
(* the records share no state, so that a run of TLC chooses one in its     *)
(* initial state.  A tick of the limiter is half a second; the free tier   *)
(* allows one request a second and a burst of two, and four tokens in a    *)
(* "day" of eight ticks.                                                   *)
(***************************************************************************)
EXTENDS RateLimiter, FiniteSetsExt

CONSTANT Parts      \* the components that a run is about

CONSTANTS free, pro
CONSTANTS Ids, Rounds, MaxRegistered
CONSTANTS Tools, MaxSteps, LoopThreshold, MaxPlan, MaxReplans, MaxReflections,
          MaxCalls
CONSTANTS Servers, Callers, Cleaners, MaxConnections, MaxRetries,
          MaxRegistrations, MaxOpened
CONSTANTS Roles, Permissions, BuiltIn, Policies, Attributes, MaxPolicies,
          Ttl, Approvals, Timeout, MaxTime
CONSTANTS Loggers, MaxDay, MaxEntries, MaxRestarts, MaxTampering, Aborts,
          MaxOperations, MaxSnapshots, MaxSaves
CONSTANTS AgentCount, MaxDelegations, MaxBidRounds, MaxRounds, MaxHandoffs,
          MaxCycles, MaxWorkerCalls

ASSUME LimitsAssumption ==
  /\ IsFiniteSet(Ids) /\ MaxRegistered \in Nat
  /\ MaxSteps \in Nat \ {0} /\ MaxPlan \in Nat \ {0} /\ MaxReflections \in Nat \ {0}
  /\ LoopThreshold \in Nat /\ MaxReplans \in Nat /\ MaxCalls \in Nat
  /\ IsFiniteSet(Servers) /\ Cleaners \subseteq Callers /\ "free" \notin Callers
  /\ MaxRegistrations \in Nat /\ MaxRetries \in Nat
  /\ \A p \in Policies : p.priority \in Int
  /\ Ttl \in Nat /\ IsFiniteSet(Approvals)

Of(forFree, forPro) == [t \in Tiers |-> IF t = free THEN forFree ELSE forPro]

MCPermissions == {<<"", "*">>, <<"", "read">>, <<"", "rag">>, <<"models", "read">>, <<"rag", "*">>}
MCBuiltIn == [viewer |-> {<<"", "read">>, <<"models", "read">>}]
Policy(name, attribute, operator, effect, priority) ==
    [name |-> name, attribute |-> attribute, operator |-> operator, effect |-> effect,
     priority |-> priority]
MCPolicies == {
    Policy("a", "role", "equals", "allow", 0), Policy("b", "role", "not_equals", "deny", 0),
    Policy("c", "time", "always", "allow", 1), Policy("a", "time", "not_exists", "deny", 1),
    Policy("d", "time", "exists", "deny", 2)}

MCRpsRate == Of(1, 2)
MCRpsCap  == Of(4, 8)
MCDayRate == Of(1, 2)
MCDayCap  == Of(8, 16)

VARIABLE part       \* the component that runs
VARIABLES resources, expired, cleaned, registered, rounds
VARIABLES kind, node, history, refs, ran, planned, results, turns, trace,
          calls, status
VARIABLES live, session, activeCount, lock, call, opened
VARIABLES decides, roles, policies, keyActive, keyCopy, keyCallers, keyLost,
          keyUnheld, waiting, decisions, interrupted, time
VARIABLES keeps, today, files, hashFiles, lastHash, logged, restarts, tampered,
          operations, outcome, aborts, commits, snapshots, saves, recovered
VARIABLES pattern, subtasks, stage, speaker, bids, outputs, agentsRun, verdict

reclaimerVars == <<resources, expired, cleaned, registered, rounds>>

runsVars == <<kind, node, history, refs, ran, planned, results, turns, trace, calls,
    status>>
sessionsVars == <<live, session, activeCount, lock, call, opened>>
accessVars == <<decides, roles, policies, keyActive, keyCopy, keyCallers, keyLost,
    keyUnheld, waiting, decisions, interrupted, time>>
recordsVars == <<keeps, today, files, hashFiles, lastHash, logged, restarts, tampered,
    operations, outcome, aborts, commits, snapshots, saves, recovered>>
orchestrationVars == <<pattern, subtasks, stage, speaker, bids, outputs, agentsRun, verdict>>

Reclaimer == INSTANCE Reclaimer
Runs == INSTANCE AgentRuns WITH rounds <- turns
Sessions == INSTANCE McpSessions WITH registered <- live
Access == INSTANCE Access WITH
    callers <- keyCallers, active <- keyActive, copy <- keyCopy, lost <- keyLost,
    unheld <- keyUnheld, now <- time
Records == INSTANCE Records WITH status <- outcome
Orchestrations == INSTANCE Orchestrations WITH
    kind <- pattern, at <- stage, turn <- speaker, runs <- agentsRun, result <- verdict

ASSUME RecordsBounds == Records!RecordsAssumption
ASSUME OrchestrationBounds == Orchestrations!OrchestrationAssumption

(* Every component starts where it does by itself; one that is not run has *)
(* a single initial state.                                                 *)
PartsInit ==
    /\ part \in Parts
    /\ Init
    /\ Reclaimer!Init
    /\ Runs!Init /\ (part # "runs" => kind = "react")
    /\ Sessions!Init
    /\ Access!Init /\ (part # "access" => decides = "roles")
    /\ Records!Init /\ (part # "records" => keeps = "audit")
    /\ Orchestrations!Init /\ (part # "orchestration" => pattern = "sequential")

(* The components but p stand still. *)
Others(p) ==
    /\ UNCHANGED part
    /\ p # "limiter" => UNCHANGED vars
    /\ p # "reclaimer" => UNCHANGED reclaimerVars
    /\ p # "runs" => UNCHANGED runsVars
    /\ p # "sessions" => UNCHANGED sessionsVars
    /\ p # "access" => UNCHANGED accessVars
    /\ p # "records" => UNCHANGED recordsVars
    /\ p # "orchestration" => UNCHANGED orchestrationVars

PartsNext ==
    \/ part = "limiter" /\ Next /\ Others("limiter")
    \/ part = "reclaimer" /\ Reclaimer!Next /\ Others("reclaimer")
    \/ part = "runs" /\ Runs!Next /\ Others("runs")
    \/ part = "sessions" /\ Sessions!Next /\ Others("sessions")
    \/ part = "access" /\ Access!Next /\ Others("access")
    \/ part = "records" /\ Records!Next /\ Others("records")
    \/ part = "orchestration" /\ Orchestrations!Next /\ Others("orchestration")

partsVars == <<part, vars, reclaimerVars, runsVars, sessionsVars, accessVars,
    recordsVars, orchestrationVars>>
PartsSpec == PartsInit /\ [][PartsNext]_partsVars

(* The fairness of each component, for the component that runs. *)
PartsFair ==
    /\ WF_vars(part = "limiter" /\ Tick)
    /\ \A w \in Waiters : WF_vars(part = "limiter" /\ Wake(w))
    /\ \A r \in Rounds : WF_reclaimerVars(part = "reclaimer" /\ Reclaimer!Reclaim(r))
PartsFairSpec == PartsSpec /\ PartsFair

ReclaimerInv == Reclaimer!ReclaimerInv
RunsInv == Runs!RunsInv /\ Orchestrations!OrchestrationInv
SessionsInv == Sessions!SessionsInv
AccessInv == Access!AccessInv
RecordsInv == Records!RecordsInv
ExpiredGo == Reclaimer!ExpiredGo

(***************************************************************************)
(* What the documentation says and the code does not keep                  *)
(***************************************************************************)
(* "buckets are synchronized via Redis to support distributed deployments": *)
(* the instances together keep to one bucket's bound.                      *)
SharedBudget ==
    \A e \in Endpoints :
        MapThenSumSet(LAMBDA i : takenRps[<<i, e>>], Instances)
            <= RpsCap[tier] + RpsRate[tier] * (now - since)
=============================================================================
