---- MODULE AgentRuns ----
(***************************************************************************)
(* One run of AgentExecutor.execute (agents/executor.py) for each pattern  *)
(* of agent: the ReAct, plan-execute, ReWOO and reflection graphs of       *)
(* agents/patterns and the plan-execute-verify loop of agents/pev.py with  *)
(* its harness.  An action is one node of the graph: a call of the model,  *)
(* a tool, a batch of tools.  What the model answers is a choice; what is  *)
(* modelled is how the loops go on and stop.  The recursion limit of the   *)
(* graph library is left out.                                              *)
(***************************************************************************)
EXTENDS Naturals, Sequences, FiniteSets

CONSTANTS Tools,           \* names a ReAct agent may call
          MaxSteps,        \* max_steps of ReAct and of the harness
          LoopThreshold,   \* loop_threshold
          MaxPlan,         \* steps of a plan
          MaxReplans,      \* max_replans
          MaxReflections,  \* max_reflections
          MaxCalls         \* bound: tool calls in one answer of the model

VARIABLES kind,      \* the pattern that runs
          node,      \* the node of its graph that runs next
          history,   \* ReAct: names of the tools called so far
          refs,      \* ReWOO: the steps each planned step refers to
          ran,       \* ReWOO: the steps whose result is there
          planned,   \* plan-execute, PEV: length of the plan
          results,   \* plan-execute: success of each executed step
          rounds,    \* agent steps, replans or reflections so far
          trace,     \* PEV: entries of steps_trace
          calls,     \* calls of the model
          status     \* status of the AgentExecutionResult

vars == <<kind, node, history, refs, ran, planned, results, rounds, trace, calls, status>>

Kinds == {"react", "plan_execute", "rewoo", "reflection", "pev"}
Entry(k) == CASE k = "react" -> "agent" [] k = "reflection" -> "generate" [] OTHER -> "plan"
Runs(k, n) == kind = k /\ node = n
Calls == calls' = calls + 1
Last(s, n) == SubSeq(s, Len(s) - n + 1, Len(s))
Ends(with) == node' = "over" /\ status' \in with

\* _adapt_result(): an answer that speaks of a limit is taken for a truncated one.
Answered == {"completed", "max_steps_reached"}

Init ==
    /\ kind \in Kinds /\ node = "over"
    /\ history = <<>> /\ refs = <<>> /\ ran = {} /\ planned = 0 /\ results = <<>>
    /\ rounds = 0 /\ trace = 0 /\ calls = 0 /\ status = "completed"

\* execute(): an unknown pattern or a missing model ends the run at once.
Start(k) ==
    /\ node = "over"
    /\ kind' = k
    /\ history' = <<>> /\ refs' = <<>> /\ ran' = {} /\ planned' = 0 /\ results' = <<>>
    /\ rounds' = 0 /\ trace' = 0 /\ calls' = 0
    /\ \/ node' = Entry(k) /\ status' = "running"
       \/ Ends({"error"})

(***************************************************************************)
(* ReAct                                                                   *)
(***************************************************************************)
\* The same call LoopThreshold times, or the last LoopThreshold calls twice.
DetectLoop(h) ==
    \/ /\ Len(h) >= LoopThreshold
       /\ \A i, j \in DOMAIN Last(h, LoopThreshold) :
              Last(h, LoopThreshold)[i] = Last(h, LoopThreshold)[j]
    \/ /\ Len(h) >= 2 * LoopThreshold
       /\ LET recent == Last(h, 2 * LoopThreshold)
          IN  \A i \in 1..LoopThreshold : recent[i] = recent[i + LoopThreshold]

\* Where the edge leaves the agent node: the limits come before the answer.
ShouldContinue(step, h, asked) ==
    IF step >= MaxSteps \/ DetectLoop(h) THEN "force_conclude"
    ELSE IF asked # <<>> THEN "tools" ELSE "over"

\* The model answers with tool calls or without, or fails, which ends the loop
\* like an answer.
AgentNode ==
    /\ Runs("react", "agent") /\ Calls
    /\ rounds' = rounds + 1
    /\ \E n \in 0..MaxCalls : \E asked \in [1..n -> Tools] :
          /\ history' = history \o asked
          /\ node' = ShouldContinue(rounds', history', asked)
          /\ status' \in IF node' = "over" THEN Answered ELSE {"running"}
    /\ UNCHANGED <<kind, refs, ran, planned, results, trace>>

ToolsNode ==
    /\ Runs("react", "tools")
    /\ node' = "agent"
    /\ UNCHANGED <<kind, history, refs, ran, planned, results, rounds, trace, calls, status>>

ForceConclude ==
    /\ Runs("react", "force_conclude") /\ Calls
    /\ Ends(Answered)
    /\ UNCHANGED <<kind, history, refs, ran, planned, results, rounds, trace>>

(***************************************************************************)
(* Plan-execute                                                            *)
(***************************************************************************)
\* _plan_node and _replan_node: what has been executed stays, the rest is new, or
\* the old one again.  (The edges never lead to the replan, see PlanIsFollowed.)
PlanNode ==
    /\ kind = "plan_execute" /\ node \in {"plan", "replan"} /\ Calls
    /\ \E n \in 1..MaxPlan :
          planned' = IF node = "plan" THEN n ELSE Len(results) + n
    /\ rounds' = IF node = "replan" THEN rounds + 1 ELSE rounds
    /\ node' = "execute"
    /\ UNCHANGED <<kind, history, refs, ran, results, trace, status>>

\* _after_execute(): the edge goes back to execution only through a replan.
AfterExecute(done) ==
    LET recent == IF Len(done) <= 3 THEN done ELSE Last(done, 3)
        shouldReplan == Cardinality({i \in DOMAIN recent : ~recent[i]}) >= 2
    IN  IF Len(done) < planned /\ shouldReplan /\ rounds < MaxReplans
        THEN "replan" ELSE "finalize"

ExecuteNode ==
    /\ Runs("plan_execute", "execute")
    /\ \E success \in BOOLEAN : results' = Append(results, success)
    /\ node' = AfterExecute(results')
    /\ UNCHANGED <<kind, history, refs, ran, planned, rounds, trace, calls, status>>

FinalizeNode ==
    /\ Runs("plan_execute", "finalize") /\ Calls
    /\ Ends(Answered)
    /\ UNCHANGED <<kind, history, refs, ran, planned, results, rounds, trace>>

(***************************************************************************)
(* ReWOO                                                                   *)
(***************************************************************************)
\* The plan: steps #E1, #E2, ... whose arguments refer to steps (0 stands for
\* a reference to no planned step).  A model that fails plans nothing.
PlanSteps ==
    /\ Runs("rewoo", "plan") /\ Calls
    /\ \E n \in 0..MaxPlan : refs' \in [1..n -> SUBSET (0..n)]
    /\ node' = "execute"
    /\ UNCHANGED <<kind, history, ran, planned, results, rounds, trace, status>>

(* Mutant of Ready: a step may be run with one of its references missing. *)
ReadyOnOne(i) == i \notin ran /\ (refs[i] = {} \/ refs[i] \cap ran # {})

\* The steps of the next parallel batch: all they refer to has been resolved,
\* by a result or by the failure of its tool.
Ready(i) == i \notin ran /\ refs[i] \subseteq ran

\* One turn of the while loop of _execute_node; without a batch it is left.
ExecuteBatch ==
    /\ Runs("rewoo", "execute")
    /\ LET batch == {i \in DOMAIN refs : Ready(i)}
       IN  /\ ran' = ran \cup batch
           /\ node' = IF batch = {} THEN "solve" ELSE "execute"
    /\ UNCHANGED <<kind, history, refs, planned, results, rounds, trace, calls, status>>

SolveNode ==
    /\ Runs("rewoo", "solve") /\ Calls
    /\ Ends(Answered)
    /\ UNCHANGED <<kind, history, refs, ran, planned, results, rounds, trace>>

(***************************************************************************)
(* Reflection                                                              *)
(***************************************************************************)
GenerateNode ==
    /\ Runs("reflection", "generate") /\ Calls
    /\ node' = "reflect"
    /\ UNCHANGED <<kind, history, refs, ran, planned, results, rounds, trace, status>>

\* A critique is content, repeats the last one, or asks for more; the last of
\* MaxReflections goes unanswered.  The improve node changes nothing.
ReflectNode ==
    /\ Runs("reflection", "reflect") /\ Calls
    /\ rounds' = rounds + 1
    /\ \/ Ends(Answered)
       \/ rounds' < MaxReflections /\ node' = "generate" /\ UNCHANGED status
    /\ UNCHANGED <<kind, history, refs, ran, planned, results, trace>>

(***************************************************************************)
(* Plan-execute-verify                                                     *)
(***************************************************************************)
\* _plan() and _replan(), which keeps the plan when the model fails.
PlanPev ==
    /\ kind = "pev" /\ node \in {"plan", "replan"} /\ Calls
    /\ planned' \in 1..MaxPlan
    /\ rounds' = IF node = "replan" THEN rounds + 1 ELSE rounds
    /\ trace' = trace + 1
    /\ results' = <<>>
    /\ node' = "step"
    /\ UNCHANGED <<kind, history, refs, ran, status>>

\* One step: check_step() and check_tool() answer that a limit is exceeded or a
\* tool blocked, and their answer is dropped.  A tool, or the model, does it.
StepPev ==
    /\ Runs("pev", "step")
    /\ \E success, byModel \in BOOLEAN :
          /\ results' = Append(results, success)
          /\ calls' = IF byModel THEN calls + 1 ELSE calls
    /\ trace' = trace + 1
    /\ node' = IF Len(results') = planned THEN "verify" ELSE "step"
    /\ UNCHANGED <<kind, history, refs, ran, planned, rounds, status>>

\* The verifier judges the output, or raises: done, replan, or failed after MaxReplans.
VerifyPev ==
    /\ Runs("pev", "verify")
    /\ \/ Ends({"completed", "error"}) /\ UNCHANGED trace
       \/ /\ trace' = trace + 1
          /\ IF rounds < MaxReplans THEN node' = "replan" /\ UNCHANGED status
                                    ELSE Ends({"failed_verification"})
    /\ UNCHANGED <<kind, history, refs, ran, planned, results, rounds, calls>>

Next ==
    \/ \E k \in Kinds : Start(k)
    \/ AgentNode \/ ToolsNode \/ ForceConclude
    \/ PlanNode \/ ExecuteNode \/ FinalizeNode
    \/ PlanSteps \/ ExecuteBatch \/ SolveNode
    \/ GenerateNode \/ ReflectNode
    \/ PlanPev \/ StepPev \/ VerifyPev
Spec == Init /\ [][Next]_vars

(***************************************************************************)
(* Properties                                                              *)
(***************************************************************************)
TypeOK ==
    /\ kind \in Kinds
    /\ history \in Seq(Tools) /\ results \in Seq(BOOLEAN)
    /\ ran \subseteq DOMAIN refs
    /\ {planned, rounds, trace, calls} \subseteq Nat

\* Whatever the model answers, a run calls it only so often: the budget that the
\* limits of each pattern imply.
Budget == [react |-> MaxSteps + 1,
           plan_execute |-> MaxReplans + 2,
           rewoo |-> 2,
           reflection |-> 2 * MaxReflections,
           pev |-> (MaxReplans + 1) * (MaxPlan + 1)]
CallsBounded == calls <= Budget[kind]

\* Every step of a ReWOO plan that can be run is run before the answer is written,
\* and no other: those left out refer, in the end, to themselves or to nothing.
Closed(S) == \A i \in DOMAIN refs : refs[i] \subseteq S => i \in S
RunnableStepsRan ==
    node = "solve" =>
        ran = {i \in DOMAIN refs : \A S \in SUBSET (DOMAIN refs) : Closed(S) => i \in S}

\* A plan is executed step by step: the answer is written when all of it was.
PlanIsFollowed == Runs("plan_execute", "finalize") => Len(results) >= planned

\* The harness enforces max_steps on the plan-execute-verify loop.
StepsLimited == kind = "pev" => trace <= MaxSteps + 1

RunsInv == TypeOK /\ CallsBounded /\ RunnableStepsRan
====
