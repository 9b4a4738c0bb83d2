---- MODULE Orchestrations ----
(***************************************************************************)
(* How several agents work on one task: the seven orchestrators of         *)
(* agents/orchestration, and the supervisor and the router of              *)
(* agents/langgraph_workflows.  A run is of one kind; what an agent, a     *)
(* supervisor or a voter answers is a choice.  The number of an answer is  *)
(* that of the output it stands in; 0 is a text of its own.                *)
(***************************************************************************)
EXTENDS Naturals, Sequences, SequencesExt, FiniteSets, FiniteSetsExt

CONSTANTS AgentCount,       \* the agents, tiers or workers, in their order
          MaxDelegations,   \* hierarchical; more subtasks are cut off
          MaxBidRounds,     \* auction
          MaxRounds,        \* debate
          MaxHandoffs,      \* swarm
          MaxCycles,        \* blackboard
          MaxWorkerCalls    \* supervisor

OrchestrationAssumption ==
    /\ AgentCount \in Nat \ {0} /\ MaxDelegations \in Nat \ {0} /\ MaxBidRounds \in Nat \ {0}
    /\ MaxRounds \in Nat \ {0} /\ MaxHandoffs \in Nat \ {0} /\ MaxCycles \in Nat \ {0}
    /\ MaxWorkerCalls \in Nat \ {0}

VARIABLES kind,
          subtasks,   \* how many subtasks there are
          at,         \* which agent, subtask, round, cycle or iteration is next
          turn,       \* the agent of this cycle, or the one a swarm is with
          bids,       \* auction: per subtask, what each agent bade for it, in the order they were asked
          outputs,    \* all_outputs: who answered what
          runs,       \* how often an agent was run (history)
          result      \* the OrchestrationResult

vars == <<kind, subtasks, at, turn, bids, outputs, runs, result>>

AgentOrder == 1..AgentCount
Kinds == {"sequential", "hierarchical", "auction", "debate", "swarm",
          "escalation", "blackboard", "supervisor", "router"}
Answers == {"ok", "failed", "error", "passed", "empty", "notice"}
Running == [status |-> "running", answer |-> 0]

Init ==
    /\ kind \in Kinds
    /\ subtasks \in CASE kind = "hierarchical" -> 0..(MaxDelegations + 1)
                      [] kind = "auction" -> 1..AgentCount
                      [] OTHER -> {0}
    /\ at = 1
    /\ turn \in IF kind = "swarm" THEN AgentOrder ELSE {1}
    /\ bids = [s \in 1..subtasks |-> <<>>]
    /\ outputs = <<>> /\ runs = 0
    /\ result = Running

Does(k) == kind = k /\ result = Running /\ UNCHANGED <<kind, subtasks>>
Emit(a, answer) == outputs' = Append(outputs, [by |-> a, answer |-> answer, round |-> at])
Ends(success, answer) ==
    result' = [status |-> IF success THEN "success" ELSE "failure", answer |-> answer]
GoesOn == at' = at + 1 /\ UNCHANGED result
Stops(success, answer) == UNCHANGED at /\ Ends(success, answer)
AllOk == \A i \in DOMAIN outputs' : outputs'[i].answer = "ok"

\* SequentialOrchestrator.run(): a failure ends the pipeline, and counts as success;
\* a timeout or an exception does not.
Sequential ==
    /\ Does("sequential") /\ runs' = runs + 1 /\ UNCHANGED <<turn, bids>>
    /\ \/ Emit(at, "ok") /\ IF at < AgentCount THEN GoesOn ELSE Stops(TRUE, at)
       \/ Emit(at, "failed") /\ Stops(TRUE, at)
       \/ Emit(at, "error") /\ Stops(FALSE, 0)
       \/ UNCHANGED outputs /\ Stops(FALSE, 0)

\* HierarchicalOrchestrator.run(): a subtask goes to the worker whose capabilities fit
\* best; without subtasks the supervisor answers by itself.
Hierarchical ==
    /\ Does("hierarchical") /\ UNCHANGED <<turn, bids>>
    /\ IF subtasks = 0
       THEN Emit(0, "ok") /\ Stops(TRUE, 1) /\ UNCHANGED runs
       ELSE /\ \E worker \in AgentOrder, answer \in {"ok", "failed", "error"} : Emit(worker, answer)
            /\ runs' = runs + 1
            /\ IF at < subtasks /\ at < MaxDelegations THEN GoesOn ELSE Stops(AllOk, 0)

\* _collect_bids(): one round; a confidence of 0 is no bid.
CollectBids ==
    /\ Does("auction") /\ at <= MaxBidRounds /\ GoesOn
    /\ \E confidence \in [AgentOrder -> [1..subtasks -> 0..2]] :
           bids' = [s \in 1..subtasks |->
               bids[s] \o [a \in AgentOrder |-> [by |-> a, confidence |-> confidence[a][s]]]]
    /\ runs' = runs + AgentCount * subtasks
    /\ UNCHANGED <<turn, outputs>>

BidsFor(s) == {i \in DOMAIN bids[s] : bids[s][i].confidence > 0}

\* The best of some bids: of those with the same confidence, the first.
BestOf(some, s, i) ==
    /\ i \in some
    /\ \A j \in some : bids[s][j].confidence < bids[s][i].confidence
                       \/ (bids[s][j].confidence = bids[s][i].confidence /\ i <= j)

\* The best bidder who has no subtask yet, or the only bid, or the best bidder of all.
Wins(s, i, assigned) ==
    LET others == {j \in BidsFor(s) : bids[s][j].by \notin assigned}
    IN  IF others = {} \/ \A j, k \in BidsFor(s) : j = k THEN BestOf(BidsFor(s), s, i)
        ELSE BestOf(others, s, i)

\* _select_winners(): subtask after subtask; 0 for one that nobody bid for
Winners ==
    {winner \in [1..subtasks -> 0..AgentCount] :
        \A s \in 1..subtasks :
            IF BidsFor(s) = {} THEN winner[s] = 0
            ELSE \E i \in BidsFor(s) : /\ Wins(s, i, {winner[t] : t \in 1..(s - 1)})
                                      /\ winner[s] = bids[s][i].by}

\* The members of a set, the least first.
InOrder(set) == {seq \in [1..Cardinality(set) -> set] : \A i, j \in DOMAIN seq : i < j => seq[i] < seq[j]}

\* The assigned subtasks are run; one without bids is left out.
Auction ==
    /\ Does("auction") /\ at = MaxBidRounds + 1 /\ GoesOn
    /\ \E winner \in Winners : \E todo \in InOrder({s \in 1..subtasks : winner[s] # 0}) :
           /\ \E answers \in [DOMAIN todo -> {"ok", "failed", "error"}] :
                  outputs' = [i \in DOMAIN todo |->
                      [by |-> winner[todo[i]], answer |-> answers[i], round |-> todo[i]]]
           /\ runs' = runs + Len(todo)
    /\ UNCHANGED <<turn, bids>>
AuctionEnds ==
    /\ Does("auction") /\ at = MaxBidRounds + 2
    /\ Stops(\A i \in DOMAIN outputs : outputs[i].answer = "ok", 0)
    /\ UNCHANGED <<turn, bids, outputs, runs>>

\* DebateOrchestrator.run(): all agents speak in each round, at the same time.
Debate ==
    /\ Does("debate") /\ at <= MaxRounds /\ GoesOn
    /\ outputs' = outputs \o [a \in AgentOrder |-> [by |-> a, answer |-> "ok", round |-> at]]
    /\ runs' = runs + AgentCount
    /\ UNCHANGED <<turn, bids>>

\* _fallback_synthesize(): the first of the best ranks that were given; a rank may be
\* given to an agent there is not.
BestRanked(votes) ==
    LET given == {p \in AgentOrder \X (1..AgentCount + 1) : votes[p[1]][p[2]] # 0}
        rank(p) == votes[p[1]][p[2]]
        best == {p \in given : \A q \in given : rank(p) <= rank(q)}
        first == CHOOSE p \in best : \A q \in best : p[1] < q[1] \/ (p[1] = q[1] /\ p[2] <= q[2])
    IN  IF given = {} THEN 0 ELSE first[2]
Vote ==
    /\ Does("debate") /\ at = MaxRounds + 1
    /\ runs' = runs + AgentCount
    /\ \/ Stops(TRUE, 0)
       \/ \E votes \in [AgentOrder -> [1..AgentCount + 1 -> 0..2]] :
              Stops(TRUE, IF BestRanked(votes) \in AgentOrder THEN BestRanked(votes) ELSE Len(outputs))
    /\ UNCHANGED <<turn, bids, outputs>>

\* EscalationOrchestrator.run(): which answer is the final one
FinalAnswers(all) ==
    LET final == {i \in DOMAIN all : all[i].answer \in {"ok", "notice"}}
    IN  {n \in DOMAIN all : IF final = {} THEN n = Len(all) ELSE n \in final /\ \A m \in final : m <= n}
\* One tier that calls its own answer a success is enough, also if it was passed on.
Successes ==
    {success \in BOOLEAN :
        success => \E i \in DOMAIN outputs' : outputs'[i].answer \in {"ok", "passed", "empty"}}
\* A tier that is unsure, fails or runs out of time passes the task on.
Escalation ==
    /\ Does("escalation") /\ UNCHANGED <<turn, bids>>
    /\ \/ /\ Emit(at, "notice") /\ UNCHANGED runs
          /\ \E success \in Successes, n \in FinalAnswers(outputs') : Stops(success, n)
       \/ \E answer \in {"ok", "passed", "empty", "error"} :
              /\ Emit(at, answer) /\ runs' = runs + 1
              /\ IF answer = "ok" \/ at = AgentCount
                 THEN \E success \in Successes, n \in FinalAnswers(outputs') : Stops(success, n)
                 ELSE GoesOn

\* SwarmOrchestrator.run(): an exception reads as a hand-off to an agent called error;
\* when it is the first thing that happens, the run raises.
Swarm ==
    /\ Does("swarm") /\ runs' = runs + 1 /\ UNCHANGED bids
    /\ \/ Emit(turn, "ok") /\ Stops(TRUE, Len(outputs) + 1) /\ UNCHANGED turn
       \/ Emit(turn, "error") /\ outputs # <<>> /\ Stops(TRUE, Len(outputs) + 1) /\ UNCHANGED turn
       \/ outputs = <<>> /\ Stops(FALSE, 0) /\ UNCHANGED <<turn, outputs>>
       \/ \E target \in AgentOrder :
              /\ Emit(turn, "passed") /\ turn' = target
              /\ at' = at + 1
              /\ IF at < MaxHandoffs THEN UNCHANGED result ELSE Ends(FALSE, Len(outputs) + 1)

\* BlackboardOrchestrator.run(): each agent in each cycle; one that fails is passed over.
Cycle ==
    /\ Does("blackboard") /\ runs' = runs + 1 /\ UNCHANGED bids
    /\ Emit(turn, "ok") \/ UNCHANGED outputs
    /\ turn' = IF turn < AgentCount THEN turn + 1 ELSE 1
    /\ at' = IF turn < AgentCount THEN at ELSE at + 1
    /\ IF turn = AgentCount /\ (at = MaxCycles \/ \A i \in DOMAIN outputs' : outputs'[i].round # at)
       THEN Ends(TRUE, 0) \/ (at < MaxCycles /\ UNCHANGED result)
       ELSE UNCHANGED result

Called == {outputs[i].by : i \in DOMAIN outputs}

\* SupervisorAgent.run(): worker_outputs has one entry per worker, so only calls of
\* workers not called before count for max_worker_calls.
Supervisor ==
    /\ Does("supervisor") /\ UNCHANGED <<turn, bids>>
    /\ \/ UNCHANGED <<outputs, runs>> /\ Stops(TRUE, 0)
       \/ /\ Cardinality(Called) < MaxWorkerCalls
          /\ \E worker \in AgentOrder : Emit(worker, "ok")
          /\ runs' = runs + 1
          /\ IF at < 2 * MaxWorkerCalls THEN GoesOn ELSE Stops(TRUE, 0)

\* ConditionalRouter.run(): whatever is matched, classified or the default is run once.
Router ==
    /\ Does("router") /\ UNCHANGED <<turn, bids>>
    /\ \/ \E a \in AgentOrder : Emit(a, "ok") /\ runs' = runs + 1 /\ Stops(TRUE, 1)
       \/ UNCHANGED outputs /\ runs' \in {runs, runs + 1} /\ Stops(FALSE, 0)

Next ==
    \/ Sequential \/ Hierarchical \/ CollectBids \/ Auction \/ AuctionEnds \/ Debate \/ Vote
    \/ Escalation \/ Swarm \/ Cycle \/ Supervisor \/ Router
Spec == Init /\ [][Next]_vars

(***************************************************************************)
(* Properties                                                              *)
(***************************************************************************)
TypeOK ==
    /\ kind \in Kinds /\ result.status \in {"running", "success", "failure"}
    /\ result.answer \in 0..Len(outputs)
    /\ \A i \in DOMAIN outputs : outputs[i].by \in 0..AgentCount /\ outputs[i].answer \in Answers

\* However a run goes, it asks its agents no more often than its kind allows.
Allowed ==
    [sequential |-> AgentCount, escalation |-> AgentCount, router |-> 1,
     hierarchical |-> MaxDelegations, swarm |-> MaxHandoffs, supervisor |-> 2 * MaxWorkerCalls,
     auction |-> AgentCount * subtasks * MaxBidRounds + subtasks,
     debate |-> AgentCount * MaxRounds + AgentCount,
     blackboard |-> AgentCount * MaxCycles]
RunsBounded == runs <= Allowed[kind]

\* An agent gets a second subtask only when every bidder for it has one already.
WinnersSpread ==
    kind = "auction" => \A i \in DOMAIN outputs : \A j \in 1..(i - 1) :
        outputs[i].by = outputs[j].by =>
            \A b \in BidsFor(outputs[i].round) :
                \E k \in 1..(i - 1) : outputs[k].by = bids[outputs[i].round][b].by

\* A tier is asked only after every tier below it has passed the task on, and the answer
\* of a tier that has not is the final one.
EscalatesInTurn ==
    kind = "escalation" =>
        \A i \in DOMAIN outputs :
            /\ outputs[i].by = i
            /\ i < Len(outputs) => outputs[i].answer # "ok"
            /\ outputs[i].answer = "ok" => result.answer = i

OrchestrationInv == TypeOK /\ RunsBounded /\ WinnersSpread /\ EscalatesInTurn

\* "Final answer from the highest tier that produced a non-error result"
HighestTierAnswers ==
    kind = "escalation" /\ result # Running =>
        LET answered == {i \in DOMAIN outputs : outputs[i].answer \in {"ok", "passed"}}
        IN  answered # {} => result.answer = Max(answered)
====
