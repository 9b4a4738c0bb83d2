---------------------------- MODULE ToolApproval ----------------------------
(***************************************************************************)
(* BusinessExpert.run of src/agents/expert.py on the ApprovalGate of       *)
(* src/mcp/approval.py, which all runs of an application share.            *)
(*                                                                         *)
(* A run asks the model, executes the calls of its answer one after the    *)
(* other and asks again.  A call of a gated tool waits for a user, who may *)
(* approve or reject it through the API, or nobody does and it times out.  *)
(* Between two awaits a run is not interleaved with anything.              *)
(*                                                                         *)
(* A request has a random identifier.  Here it is the call it is made for: *)
(* the run, the step and the place of the call in the model's answer.  The *)
(* pending registry and the history are one function: a request is taken   *)
(* out of the one and put into the other in the same step.                 *)
(***************************************************************************)
EXTENDS Integers, FiniteSets, Sequences

CONSTANTS Runs,       \* the concurrent calls of run()
          Tools,      \* all tools of the application
          Gated,      \* those whose definition requires approval
          Skills,     \* of each run's expert: the tools its config names
          Answers,    \* of each run: the calls its model may answer with, by
                      \* name, names of no tool of the expert's too
          MaxSteps,   \* _max_steps
          MaxCalls,   \* bound of the model: calls in one answer
          Timeout     \* timeout_seconds, in ticks

ASSUME ToolApprovalAssumption ==
  /\ Gated \subseteq Tools
  /\ Skills \in [Runs -> SUBSET Tools]
  /\ \A r \in Runs : \A calls \in Answers[r] :
       calls \in Seq(STRING) /\ Len(calls) \in 1..MaxCalls
  /\ MaxSteps \in Nat \ {0} /\ MaxCalls \in Nat \ {0}
  /\ Timeout \in Nat \ {0}

VARIABLES
  run,      \* the runs
  status,   \* of every request
  begun,    \* history: the executions begun under each request
  free      \* history: the tools executed with no request

vars == <<run, status, begun, free>>

Ids == Runs \X (1..MaxSteps) \X (1..MaxCalls)

Ended == {"completed", "failed", "cancelled"}
Decided == {"approved", "rejected", "timeout"}
Awaiting == {"thinking", "waiting", "running"}

(* The request of the call that run r is at. *)
Id(r) == <<r, run[r].step, run[r].at>>

(* BusinessExpert.__init__: with no skills an expert has every tool. *)
Bound(r) == IF Skills[r] = {} THEN Tools ELSE Skills[r]

TypeOK ==
  /\ run \in [Runs -> [pc : {"idle"} \cup Awaiting \cup Ended,
                       step : 1..MaxSteps,
                       calls : {c \in Seq(STRING) : Len(c) <= MaxCalls},
                       at : 1..MaxCalls,
                       left : 0..Timeout]]
  /\ status \in [Ids -> {"none", "pending"} \cup Decided]
  /\ begun \in [Ids -> Nat]
  /\ free \subseteq Tools

Init ==
  /\ run = [r \in Runs |-> [pc |-> "idle", step |-> 1, calls |-> <<>>,
                            at |-> 1, left |-> 0]]
  /\ status = [i \in Ids |-> "none"]
  /\ begun = [i \in Ids |-> 0]
  /\ free = {}

-----------------------------------------------------------------------------
(* The synchronous stretches of a run, between two awaits.  The statuses of *)
(* the requests are, at their beginning, st.                                *)

(* All calls of the answer are done: ask again, unless that was the last step. *)
StepEnds(r, st) ==
  /\ run' = [run EXCEPT ![r] =
       [pc |-> IF run[r].step = MaxSteps THEN "failed" ELSE "thinking",
        step |-> IF run[r].step = MaxSteps THEN MaxSteps ELSE run[r].step + 1,
        calls |-> <<>>, at |-> 1, left |-> 0]]
  /\ status' = st
  /\ UNCHANGED <<begun, free>>

(* Mutant of Asks: a tool approved once is trusted from then on. *)
AsksOnce(r, tool) ==
  /\ tool \in Gated
  /\ \A i \in Ids : i[1] = r => status[i] # "approved"

(* A gated tool asks each time it is called. *)
Asks(r, tool) == tool \in Gated

(* _run_tool up to its first await: the request is made, or the tool begun. *)
RunTool(r, calls, k, st) ==
  \/ /\ Asks(r, calls[k])
     /\ run' = [run EXCEPT ![r] =
          [pc |-> "waiting", step |-> run[r].step, calls |-> calls,
           at |-> k, left |-> Timeout]]
     /\ status' = [st EXCEPT ![<<r, run[r].step, k>>] = "pending"]
     /\ UNCHANGED <<begun, free>>
  \/ /\ ~Asks(r, calls[k])
     /\ run' = [run EXCEPT ![r] =
          [pc |-> "running", step |-> run[r].step, calls |-> calls,
           at |-> k, left |-> 0]]
     /\ status' = st
     /\ free' = free \cup {calls[k]}
     /\ UNCHANGED begun

(* The calls of an answer from place k on: those of a tool the expert does *)
(* not have are answered with an error at once.                            *)
CallFrom(r, calls, k, st) ==
  LET known == {j \in k..Len(calls) : calls[j] \in Bound(r)}
  IN  \/ known = {} /\ StepEnds(r, st)
      \/ \E j \in known : /\ \A m \in known : j <= m
                          /\ RunTool(r, calls, j, st)

NextCall(r, st) == CallFrom(r, run[r].calls, run[r].at + 1, st)

-----------------------------------------------------------------------------
(* run() is called: it retrieves from the knowledge bases and asks the model. *)
Start(r) ==
  /\ run[r].pc = "idle"
  /\ run' = [run EXCEPT ![r].pc = "thinking"]
  /\ UNCHANGED <<status, begun, free>>

(* The model answers with calls of tools. *)
Answer(r) ==
  /\ run[r].pc = "thinking"
  /\ \E calls \in Answers[r] : CallFrom(r, calls, 1, status)

(* It answers with none: that is the result.  Or it fails. *)
Finish(r) ==
  /\ run[r].pc = "thinking"
  /\ \E pc \in {"completed", "failed"} : run' = [run EXCEPT ![r].pc = pc]
  /\ UNCHANGED <<status, begun, free>>

(* A poll of wait_for_decision before the deadline finds the request       *)
(* approved, or rejected.  One that finds it pending sleeps again, which   *)
(* changes nothing.                                                        *)
PollApproved(r) ==
  /\ run[r].pc = "waiting" /\ run[r].left > 0
  /\ status[Id(r)] = "approved"
  /\ run' = [run EXCEPT ![r].pc = "running", ![r].left = 0]
  /\ begun' = [begun EXCEPT ![Id(r)] = begun[Id(r)] + 1]
  /\ UNCHANGED <<status, free>>

PollRejected(r) ==
  /\ run[r].pc = "waiting" /\ run[r].left > 0
  /\ status[Id(r)] = "rejected"
  /\ NextCall(r, status)

(* Mutants of PollLate: the request is left in the registry; the wait goes *)
(* on while it is there; a decision is overwritten.                        *)
PollLateLeaves(r) ==
  /\ run[r].pc = "waiting" /\ run[r].left = 0
  /\ NextCall(r, status)

PollLateWaits(r) ==
  /\ run[r].pc = "waiting" /\ run[r].left = 0
  /\ status[Id(r)] # "pending"
  /\ NextCall(r, status)

PollLateOverwrites(r) ==
  /\ run[r].pc = "waiting" /\ run[r].left = 0
  /\ NextCall(r, [status EXCEPT ![Id(r)] = "timeout"])

(* The poll after the deadline rejects, whatever the user has said since   *)
(* the poll before.                                                        *)
PollLate(r) ==
  /\ run[r].pc = "waiting" /\ run[r].left = 0
  /\ NextCall(r, IF status[Id(r)] = "pending"
                 THEN [status EXCEPT ![Id(r)] = "timeout"] ELSE status)

(* The tool returns or raises: the model is given either. *)
ToolEnds(r) ==
  /\ run[r].pc = "running"
  /\ NextCall(r, status)

(* The task of a run is cancelled at an await: its request stays. *)
Cancel(r) ==
  /\ run[r].pc \in Awaiting
  /\ run' = [run EXCEPT ![r].pc = "cancelled", ![r].left = 0]
  /\ UNCHANGED <<status, begun, free>>

(* A user decides a pending request; one that is not is answered with 404. *)
Decide(i) ==
  /\ status[i] = "pending"
  /\ \E verdict \in {"approved", "rejected"} :
       status' = [status EXCEPT ![i] = verdict]
  /\ UNCHANGED <<run, begun, free>>

(* Time passes for all who wait. *)
Tick ==
  /\ \E r \in Runs : run[r].left > 0
  /\ run' = [r \in Runs |->
       [run[r] EXCEPT !.left = IF run[r].left > 0 THEN run[r].left - 1 ELSE 0]]
  /\ UNCHANGED <<status, begun, free>>

Poll(r) == PollApproved(r) \/ PollRejected(r) \/ PollLate(r)

Next ==
  \/ \E r \in Runs : \/ Start(r) \/ Answer(r) \/ Finish(r)
                     \/ PollApproved(r) \/ PollRejected(r) \/ PollLate(r)
                     \/ ToolEnds(r) \/ Cancel(r)
  \/ \E i \in Ids : Decide(i)
  \/ Tick

Spec == Init /\ [][Next]_vars

(* A poll is followed by another 0.2 s later, time passes, and a model and *)
(* a tool return.  No user has to decide.                                  *)
Fairness ==
  /\ WF_vars(Tick)
  /\ \A r \in Runs : /\ WF_vars(Answer(r) \/ Finish(r))
                     /\ WF_vars(Poll(r))
                     /\ WF_vars(ToolEnds(r))

FairSpec == Spec /\ Fairness

-----------------------------------------------------------------------------
(* "Every sensitive tool call must be approved by the user before          *)
(* execution", each time anew: no execution without a request is of a      *)
(* gated tool, an execution under a request is of an approved one, and no  *)
(* approval serves for two.                                                *)
OwnApproval ==
  /\ free \cap Gated = {}
  /\ \A i \in Ids : begun[i] <= IF status[i] = "approved" THEN 1 ELSE 0

(* What the API lists as pending is what a run waits for: a run waits for  *)
(* one request, which it made for the call it is at, and only a cancelled  *)
(* run leaves one that no answer and no deadline will remove.              *)
PendingIsAwaited ==
  \A i \in Ids : status[i] = "pending" =>
    \/ run[i[1]].pc = "waiting" /\ i = Id(i[1])
    \/ run[i[1]].pc = "cancelled"

(* What the history says of a decided request it says for ever: a user who *)
(* decides when the deadline has passed and the run has not looked yet is  *)
(* told that the decision was taken, and it is.                            *)
DecisionsFinal ==
  [][\A i \in Ids : status[i] \in Decided => status'[i] = status[i]]_vars

(* A run ends, though no user ever decides: it waits no longer than the    *)
(* timeout and takes no more steps than the limit.                         *)
RunsEnd == \A r \in Runs : run[r].pc = "thinking" ~> run[r].pc \in Ended

(* The safety of the gate, in one. *)
ApprovalInv == TypeOK /\ OwnApproval /\ PendingIsAwaited

-----------------------------------------------------------------------------
(* Values of the constants for TLC.  The first expert is given one skill,  *)
(* and its model may ask for another tool all the same, in answers of one  *)
(* or two calls.  The second has every tool.                               *)
McTools == {"cli", "ocr"}
McGated == {"cli"}
McSkills == [r \in Runs |-> IF r = 1 THEN {"cli"} ELSE {}]
McAnswers == [r \in Runs |->
  IF r = 1 THEN {<<"cli", "cli">>, <<"ocr">>} ELSE {<<"cli">>, <<"ocr">>}]
=============================================================================
