---------------------------- MODULE StreamingRag ----------------------------
(***************************************************************************)
(* StreamingRAGService of src/streaming/streaming_rag_service.py with what *)
(* its concurrent requests share: the backpressure queue, the latency      *)
(* tracker (latency_tracker.py) and the buffer of the security scanner     *)
(* (stream_scanner.py).                                                    *)
(*                                                                         *)
(* stream_rag_response is an async generator: it is suspended at a yield   *)
(* until the client asks for the next event, or at an await until the      *)
(* awaited event happens.  pc names these points.                          *)
(***************************************************************************)
EXTENDS Integers, Sequences, FiniteSets

CONSTANTS Requests,
          MaxSize,   \* max_size of the backpressure queue
          Sources,   \* the ways to generate an answer, the last one simulated
          Answer,    \* bound of the model: tokens per source
          Window     \* the scanner's buffer, in tokens

ASSUME StreamingRagAssumption ==
  /\ IsFiniteSet(Requests)
  /\ {MaxSize, Sources, Answer, Window} \subseteq Nat \ {0}

VARIABLES
  pc,        \* where each request is suspended
  source,    \* the source its answer comes from
  arrived,   \* tokens this source has given
  count,     \* token_count
  finish,    \* finish_reason
  heart,     \* the state of its heartbeat task
  lastBeat,  \* _heartbeat_task: whose task close() knows
  queued,    \* length of the backpressure queue, which nobody consumes
  closed,    \* the queue is closed
  buffer,    \* the scanner's sliding buffer, shared by all streams
  latency,   \* the latency tracker, shared by all streams
  shown,     \* history: token events each client received
  measured   \* history: tokens that passed the scanner

requestVars == <<pc, source, arrived, count, finish, heart>>
vars == <<requestVars, lastBeat, queued, closed, buffer, latency, shown, measured>>

Nobody == "nobody"
Clean  == "clean"   \* a token without a blocking pattern

AtYield   == {"metadata", "started", "token", "refused", "error"}
AtAwait   == {"retrieving", "generating", "blocked"}
InFinally == {"ended", "finished"}   \* at the yields of the finally clause
Over      == {"returned", "abandoned"}

Init ==
  /\ pc = [r \in Requests |-> "idle"]
  /\ source = [r \in Requests |-> 1]
  /\ arrived = [r \in Requests |-> 0]
  /\ count = [r \in Requests |-> 0]
  /\ finish = [r \in Requests |-> "stop"]
  /\ heart = [r \in Requests |-> "none"]
  /\ lastBeat = Nobody
  /\ queued = 0 /\ closed = FALSE /\ buffer = <<>>
  /\ latency = [start |-> FALSE, last |-> FALSE, tokens |-> 0, active |-> 0]
  /\ shown = [r \in Requests |-> 0]
  /\ measured = 0

Goto(r, point) == pc' = [pc EXCEPT ![r] = point]

-----------------------------------------------------------------------------
(* The latency tracker. *)
StartRequest(l) == [l EXCEPT !.start = TRUE, !.last = FALSE, !.active = @ + 1]

(* Without a request start, which another request's end may have cleared,  *)
(* the token is not counted.                                               *)
OnFirstToken(l) ==
  IF l.start THEN [l EXCEPT !.last = TRUE, !.tokens = @ + 1] ELSE l

OnToken(l) == [l EXCEPT !.last = TRUE, !.tokens = @ + 1]

EndRequest(l) ==
  [l EXCEPT !.start = FALSE, !.last = FALSE, !.active = IF @ > 0 THEN @ - 1 ELSE 0]

-----------------------------------------------------------------------------
Start(r) ==
  /\ pc[r] = "idle"
  /\ latency' = StartRequest(latency)
  /\ heart' = [heart EXCEPT ![r] = "sleeping"]
  /\ lastBeat' = r
  /\ Goto(r, "retrieving")
  /\ UNCHANGED <<source, arrived, count, finish, queued, closed, buffer, shown, measured>>

(* A failed retrieval is an empty one; then comes the metadata event. *)
Retrieved(r) ==
  /\ pc[r] = "retrieving"
  /\ Goto(r, "metadata")
  /\ UNCHANGED <<source, arrived, count, finish, heart, lastBeat, queued, closed,
                 buffer, latency, shown, measured>>

(* Retrieved documents of a wrong form fail the building of the prompt. *)
PromptFails(r) ==
  /\ pc[r] = "retrieving"
  /\ finish' = [finish EXCEPT ![r] = "error"]
  /\ Goto(r, "error")
  /\ UNCHANGED <<source, arrived, count, heart, lastBeat, queued, closed, buffer,
                 latency, shown, measured>>

(* The client asks for the next event while the answer is being streamed.  *)
ReadNext(r) ==
  /\ \/ pc[r] = "metadata" /\ Goto(r, "started")
     \/ pc[r] \in {"started", "token"} /\ Goto(r, "generating")
  /\ UNCHANGED <<source, arrived, count, finish, heart, lastBeat, queued, closed,
                 buffer, latency, shown, measured>>

(* The scanner appends the token, trims its buffer and looks at all of it. *)
Scanned(token) ==
  LET long == Append(buffer, token)
  IN IF Len(long) > Window THEN Tail(long) ELSE long

Blocks(b) == \E i \in DOMAIN b : b[i] # Clean

Room == queued < MaxSize

(* Mutants of MayPush: there is always room; closing the queue does not    *)
(* release who waits for room.                                             *)
AlwaysRoom == TRUE
RoomOnly == Room

(* produce() blocks until there is room or the queue is closed... *)
MayPush == Room \/ closed

(* ... and a closed queue discards the token. *)
Push == queued' = IF closed THEN queued ELSE queued + 1

Show(r) ==
  /\ count' = [count EXCEPT ![r] = @ + 1]
  /\ shown' = [shown EXCEPT ![r] = @ + 1]
  /\ Goto(r, "token")

(* A token is scanned, measured and queued, all without a suspension       *)
(* unless the queue is full.  It is the first as long as none was counted: *)
(* a request has at most one token on its way.                             *)
TokenArrives(r, bad) ==
  /\ pc[r] = "generating" /\ arrived[r] < Answer
  /\ arrived' = [arrived EXCEPT ![r] = @ + 1]
  /\ buffer' = Scanned(IF bad THEN r ELSE Clean)
  /\ IF Blocks(buffer')
       THEN /\ finish' = [finish EXCEPT ![r] = "security_blocked"]
            /\ Goto(r, "refused")
            /\ UNCHANGED <<count, queued, latency, shown, measured>>
       ELSE /\ latency' = IF count[r] = 0 THEN OnFirstToken(latency) ELSE OnToken(latency)
            /\ measured' = measured + 1
            /\ finish' = finish
            /\ IF MayPush THEN Push /\ Show(r)
               ELSE Goto(r, "blocked") /\ UNCHANGED <<queued, count, shown>>
  /\ UNCHANGED <<source, heart, lastBeat, closed>>

Unblocked(r) ==
  /\ pc[r] = "blocked" /\ MayPush
  /\ Push /\ Show(r)
  /\ UNCHANGED <<source, arrived, finish, heart, lastBeat, closed, buffer,
                 latency, measured>>

(* A source that fails, even in the middle of its answer, is replaced by   *)
(* the next one, which begins its own answer.                              *)
SourceFails(r) ==
  /\ pc[r] = "generating" /\ source[r] < Sources
  /\ source' = [source EXCEPT ![r] = @ + 1]
  /\ arrived' = [arrived EXCEPT ![r] = 0]
  /\ UNCHANGED <<pc, count, finish, heart, lastBeat, queued, closed, buffer, latency,
                 shown, measured>>

(* Mutant of Finally: the heartbeat task goes on. *)
FinallyLeavesHeart(r, reason) ==
  /\ finish' = [finish EXCEPT ![r] = reason]
  /\ heart' = heart
  /\ Goto(r, "ended")
  /\ UNCHANGED <<source, arrived, count, lastBeat, queued, closed, buffer, latency,
                 shown, measured>>

(* The finally clause up to its first yield: the heartbeat task is         *)
(* cancelled and awaited, and the end event carries the token count.       *)
Finally(r, reason) ==
  /\ finish' = [finish EXCEPT ![r] = reason]
  /\ heart' = [heart EXCEPT ![r] = "over"]
  /\ Goto(r, "ended")
  /\ UNCHANGED <<source, arrived, count, lastBeat, queued, closed, buffer, latency,
                 shown, measured>>

SourceEnds(r) == pc[r] = "generating" /\ Finally(r, finish[r])

(* Mutant of AfterError: the loop is not left after a blocked token. *)
AfterErrorContinues(r) ==
  /\ pc[r] \in {"refused", "error"}
  /\ Goto(r, "generating")
  /\ UNCHANGED <<source, arrived, count, finish, heart, lastBeat, queued, closed,
                 buffer, latency, shown, measured>>

AfterError(r) == pc[r] \in {"refused", "error"} /\ Finally(r, finish[r])

(* The task is cancelled at an await.  The generator swallows it and goes  *)
(* on to yield its last two events.  (During retrieval it meets an unbound *)
(* name, whose exception leaves the generator after the same last steps.)  *)
Cancel(r) == pc[r] \in AtAwait /\ Finally(r, "interrupted")

ReadDone(r) ==
  /\ pc[r] = "ended"
  /\ Goto(r, "finished")
  /\ UNCHANGED <<source, arrived, count, finish, heart, lastBeat, queued, closed,
                 buffer, latency, shown, measured>>

Return(r) ==
  /\ pc[r] = "finished"
  /\ latency' = EndRequest(latency)
  /\ Goto(r, "returned")
  /\ UNCHANGED <<source, arrived, count, finish, heart, lastBeat, queued, closed,
                 buffer, shown, measured>>

(* A client that stops reading closes the generator at a yield: the next   *)
(* yield of the finally clause is a RuntimeError and end_request never     *)
(* runs.                                                                   *)
Abandon(r) ==
  /\ pc[r] \in AtYield \union InFinally
  /\ heart' = [heart EXCEPT ![r] = "over"]
  /\ Goto(r, "abandoned")
  /\ UNCHANGED <<source, arrived, count, finish, lastBeat, queued, closed, buffer,
                 latency, shown, measured>>

-----------------------------------------------------------------------------
(* The heartbeat task produces into the queue every 15 seconds. *)
Beat(r) ==
  /\ heart[r] = "sleeping"
  /\ IF MayPush THEN Push /\ heart' = heart
     ELSE queued' = queued /\ heart' = [heart EXCEPT ![r] = "blocked"]
  /\ UNCHANGED <<pc, source, arrived, count, finish, lastBeat, closed, buffer,
                 latency, shown, measured>>

BeatUnblocked(r) ==
  /\ heart[r] = "blocked" /\ MayPush
  /\ Push
  /\ heart' = [heart EXCEPT ![r] = "sleeping"]
  /\ UNCHANGED <<pc, source, arrived, count, finish, lastBeat, closed, buffer,
                 latency, shown, measured>>

(* close() cancels the one heartbeat task it knows and closes the queue. *)
Close ==
  /\ heart' = IF lastBeat \in Requests
                THEN [heart EXCEPT ![lastBeat] = "over"] ELSE heart
  /\ closed' = TRUE
  /\ UNCHANGED <<pc, source, arrived, count, finish, lastBeat, queued, buffer,
                 latency, shown, measured>>

Read(r) == ReadNext(r) \/ AfterError(r) \/ ReadDone(r) \/ Return(r)

Generate(r) ==
  \/ \E bad \in BOOLEAN : TokenArrives(r, bad)
  \/ SourceFails(r) \/ SourceEnds(r)

Progress(r) ==
  \/ Retrieved(r) \/ PromptFails(r)
  \/ Read(r) \/ Generate(r) \/ Unblocked(r)

Next ==
  \/ \E r \in Requests : \/ Start(r) \/ Progress(r) \/ Cancel(r) \/ Abandon(r)
                         \/ Beat(r) \/ BeatUnblocked(r)
  \/ Close

Spec == Init /\ [][Next]_vars

(* The client keeps reading, and retrieval and generation answer or fail.  *)
FairSpec == Spec /\ \A r \in Requests : WF_vars(Progress(r))

(* A client that is neither cancelled nor gone: no failure but that of a   *)
(* source, and the service stays open.                                     *)
PatientNext ==
  \E r \in Requests : Start(r) \/ Progress(r) \/ Beat(r) \/ BeatUnblocked(r)

PatientSpec ==
  /\ Init /\ [][PatientNext]_vars
  /\ \A r \in Requests : WF_vars(Progress(r))

-----------------------------------------------------------------------------
Running(r) == pc[r] \in AtYield \union AtAwait \union InFinally

TypeOK ==
  /\ pc \in [Requests -> {"idle"} \union AtYield \union AtAwait \union InFinally \union Over]
  /\ source \in [Requests -> 1..Sources]
  /\ arrived \in [Requests -> 0..Answer]
  /\ count \in [Requests -> Nat] /\ shown \in [Requests -> Nat]
  /\ finish \in [Requests -> {"stop", "security_blocked", "interrupted", "error"}]
  /\ heart \in [Requests -> {"none", "sleeping", "blocked", "over"}]
  /\ lastBeat \in Requests \union {Nobody}
  /\ queued \in 0..MaxSize /\ closed \in BOOLEAN
  /\ buffer \in Seq(Requests \union {Clean}) /\ Len(buffer) <= Window
  /\ latency \in [start : BOOLEAN, last : BOOLEAN, tokens : Nat, active : Nat]
  /\ measured \in Nat

(* Whatever ends a request, its heartbeat task does not outlive it, and    *)
(* while it streams only close() stops the task.                           *)
NoOrphanHeartbeat ==
  \A r \in Requests :
    /\ pc[r] \in InFinally \union Over => heart[r] = "over"
    /\ pc[r] \in AtYield \union AtAwait /\ ~closed => heart[r] \in {"sleeping", "blocked"}

(* The number of tokens the end event reports is the number of token       *)
(* events the client received, also when it is interrupted or blocked.     *)
ReportedIsShown == \A r \in Requests : count[r] = shown[r]

(* The tracker that all requests share counts as active the streams that   *)
(* run and those whose client went away, and no token twice.               *)
TrackerAccounts ==
  /\ latency.active = Cardinality({r \in Requests : Running(r) \/ pc[r] = "abandoned"})
  /\ latency.tokens <= measured

(* A stream the scanner stopped ends: its client receives no more tokens,  *)
(* and the end event gives the reason.                                     *)
BlockedIsFinal ==
  [][\A r \in Requests : finish[r] = "security_blocked"
       => finish'[r] = finish[r] /\ shown'[r] = shown[r]]_vars

(* Closing the service ends every request that has begun. *)
CloseFrees == \A r \in Requests : (closed /\ Running(r)) ~> ~Running(r)

(* "Apply backpressure (blocks if consumer is slow)": when the consumer    *)
(* keeps reading, its stream ends.                                         *)
StreamsFinish == \A r \in Requests : Running(r) ~> ~Running(r)

(* The safety of the service, in one. *)
StreamingInv == TypeOK /\ NoOrphanHeartbeat /\ ReportedIsShown /\ TrackerAccounts
=============================================================================
