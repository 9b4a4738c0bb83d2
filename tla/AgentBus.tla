---- MODULE AgentBus ----
(***************************************************************************)
(* The message bus of agents/communication/protocol.py and the heartbeats  *)
(* of heartbeat.py that are sent over it.  A request registers a future    *)
(* and waits for it; the future is set when its sender's queue is received *)
(* from and the answer is found in it, by whoever receives.  Nobody        *)
(* receives from the queue of the monitor.  A queue that is full loses its *)
(* oldest message.                                                         *)
(***************************************************************************)
EXTENDS Naturals, Sequences, SequencesExt, FiniteSets

CONSTANTS Agents, Monitor,   \* the agents, and the name heartbeats are sent under
          None,              \* no answer
          MaxQueue,          \* max_queue_size
          MaxMissed,         \* max_missed
          MaxRequests,       \* bound: requests made
          MaxSent            \* bound: answers and broadcasts sent

VARIABLES queues,     \* _queues
          futures,    \* _response_futures: the requests registered there
          requests,   \* per request: who asks whom, what became of it, what its future holds
          received,   \* the requests each agent took from its queue
          health,     \* _agents of the monitor
          sent        \* how many answers and broadcasts were sent

vars == <<queues, futures, requests, received, health, sent>>

Names == Agents \cup {Monitor}
Message == [kind : {"request", "response", "broadcast"}, id : 0..MaxRequests, from : Names, to : Names]
Status == {"waiting", "answered", "unanswered", "cancelled"}
RequestInfo == [from : Names, to : Agents, status : Status, answer : Message \cup {None}]

Init ==
    /\ queues = [a \in Names |-> <<>>]
    /\ futures = {}
    /\ requests = <<>>
    /\ received = [a \in Names |-> {}]
    /\ health = [a \in Agents |-> [alive |-> FALSE, missed |-> 0, check |-> 0]]
    /\ sent = 0

\* send(): the oldest message makes room in a queue that is full.
Queued(q, message) ==
    LET queue == q[message.to]
    IN  [q EXCEPT ![message.to] =
             Append(IF Len(queue) >= MaxQueue THEN Tail(queue) ELSE queue, message)]

\* request(), to the wait for the future
Request(a, b) ==
    LET r == Len(requests) + 1
    IN  /\ r <= MaxRequests
        /\ requests' = Append(requests, [from |-> a, to |-> b, status |-> "waiting", answer |-> None])
        /\ futures' = futures \cup {r}
        /\ queues' = Queued(queues, [kind |-> "request", id |-> r, from |-> a, to |-> b])

\* send_response(), send_error(): create_response() turns the request round.
Respond(a, r) ==
    /\ sent < MaxSent /\ r \in received[a]
    /\ queues' = Queued(queues, [kind |-> "response", id |-> r,
                                 from |-> requests[r].to, to |-> requests[r].from])
    /\ sent' = sent + 1
    /\ UNCHANGED <<futures, requests, received, health>>

\* broadcast(): one message object is put into every queue there is but the sender's.
Broadcast(a) ==
    /\ sent < MaxSent
    /\ \E last \in Agents \ {a} :
           queues' = [b \in Names |->
                         IF b = a THEN queues[b]
                         ELSE Queued([queues EXCEPT ![last] = queues[b]],
                                     [kind |-> "broadcast", id |-> 0, from |-> a, to |-> last])[last]]
    /\ sent' = sent + 1
    /\ UNCHANGED <<futures, requests, received, health>>

(* Mutant of Resolved: the future of the oldest request of the receiver is set. *)
ResolvedOldest(a, message) ==
    IF message.kind = "response"
    THEN LET waiting == {r \in futures : requests[r].from = a}
         IN  IF waiting = {} THEN {} ELSE {CHOOSE r \in waiting : \A q \in waiting : r <= q}
    ELSE {}

\* Whose future a message that is received sets: that of the request it answers.
Resolved(a, message) ==
    IF message.kind = "response" /\ message.id \in futures THEN {message.id} ELSE {}

\* receive(): messages that have expired are passed over.
Receive(a, expired) ==
    /\ expired \in 0..(Len(queues[a]) - 1)
    /\ LET message == queues[a][expired + 1]
           resolved == Resolved(a, message)
       IN  /\ queues' = [queues EXCEPT ![a] = SubSeq(@, expired + 2, Len(@))]
           /\ futures' = futures \ resolved
           /\ requests' = [r \in DOMAIN requests |->
                              IF r \in resolved THEN [requests[r] EXCEPT !.answer = message]
                              ELSE requests[r]]
           /\ received' = [received EXCEPT ![a] =
                               IF message.kind = "request" THEN @ \cup {message.id} ELSE @]
    /\ UNCHANGED <<health, sent>>

\* receive_all(): the futures are not looked at.
ReceiveAll(a) ==
    /\ queues[a] # <<>>
    /\ \E expired \in SUBSET DOMAIN queues[a] :
           received' = [received EXCEPT ![a] = @ \cup
               {queues[a][i].id : i \in {j \in DOMAIN queues[a] \ expired :
                                             queues[a][j].kind = "request"}}]
    /\ queues' = [queues EXCEPT ![a] = <<>>]
    /\ UNCHANGED <<futures, requests, health, sent>>

\* How the wait of a request may end: with what its future holds, without an answer
\* at its timeout (also when the answer comes at the same moment), or by cancellation,
\* which `except Exception` does not see: the future stays registered.
Return(r, status) ==
    /\ requests[r].status = "waiting"
    /\ status = "answered" => requests[r].answer # None
    /\ requests' = [requests EXCEPT ![r].status = status]
    /\ futures' = IF status = "cancelled" THEN futures ELSE futures \ {r}

RequestReturns(r) ==
    /\ requests[r].from # Monitor
    /\ \E status \in Status \ {"waiting"} : Return(r, status)
    /\ UNCHANGED <<queues, received, health, sent>>

\* _check_agent(), one agent after the other: the request of a heartbeat
Check(a) ==
    /\ \A b \in Agents : health[b].check = 0
    /\ Request(Monitor, a)
    /\ health' = [health EXCEPT ![a].check = Len(requests) + 1]
    /\ UNCHANGED <<received, sent>>

\* A request that comes back, with an answer or without one, is a heartbeat.
CheckReturns(a) ==
    /\ health[a].check # 0
    /\ \E status \in {"answered", "unanswered"} : Return(health[a].check, status)
    /\ health' = [health EXCEPT ![a] = [alive |-> TRUE, missed |-> 0, check |-> 0]]
    /\ UNCHANGED <<queues, received, sent>>

\* The outer wait_for() is over first when the event loop was late for both.
CheckMissed(a) ==
    /\ health[a].check # 0
    /\ Return(health[a].check, "cancelled")
    /\ health' = [health EXCEPT ![a] =
                      [alive |-> @.alive /\ @.missed + 1 < MaxMissed, missed |-> @.missed + 1, check |-> 0]]
    /\ UNCHANGED <<queues, received, sent>>

Ask(a, b) == Request(a, b) /\ UNCHANGED <<received, health, sent>>

Next ==
    \/ \E a \in Agents : \E b \in Agents \ {a} : Ask(a, b)
    \/ \E a \in Agents : \E r \in received[a] : Respond(a, r)
    \/ \E a \in Agents : Broadcast(a)
    \/ \E a \in Agents : \E expired \in 0..MaxQueue : Receive(a, expired)
    \/ \E a \in Agents : ReceiveAll(a)
    \/ \E r \in DOMAIN requests : RequestReturns(r)
    \/ \E a \in Agents : Check(a) \/ CheckReturns(a) \/ CheckMissed(a)
Spec == Init /\ [][Next]_vars

(***************************************************************************)
(* Properties                                                              *)
(***************************************************************************)
TypeOK ==
    /\ \A a \in Names : Len(queues[a]) <= MaxQueue /\ queues[a] \in Seq(Message)
    /\ futures \subseteq DOMAIN requests
    /\ requests \in Seq(RequestInfo)
    /\ received \in [Names -> SUBSET (1..MaxRequests)]
    /\ health \in [Agents -> [alive : BOOLEAN, missed : 0..MaxRequests, check : 0..MaxRequests]]
    /\ sent \in 0..MaxSent

\* What a request returns is the answer of the agent it asked, and to this request,
\* whatever else is in the queue.
OwnAnswer ==
    \A r \in DOMAIN requests :
        requests[r].answer # None =>
            /\ requests[r].answer.id = r
            /\ requests[r].answer.from = requests[r].to /\ requests[r].answer.to = requests[r].from

\* A request that waits can still be answered or has its answer, and one that has
\* returned leaves nothing behind, unless it was cancelled.
FuturesAccount ==
    \A r \in DOMAIN requests :
        /\ r \in futures => requests[r].status \in {"waiting", "cancelled"} /\ requests[r].answer = None
        /\ requests[r].status = "waiting" => r \in futures \/ requests[r].answer # None

BusInv == TypeOK /\ OwnAnswer /\ FuturesAccount
====
