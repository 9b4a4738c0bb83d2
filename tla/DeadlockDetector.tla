---- MODULE DeadlockDetector ----
(***************************************************************************)
(* The deadlock detector of agents/communication/deadlock.py: the requests *)
(* agents wait for, the graph of who waits for whom that is kept beside    *)
(* them, and the loop that looks for cycles in the graph and drops the     *)
(* oldest request of each from its own books.  Nothing is cancelled and no *)
(* answer is sent to who waits for it, though the docstrings say so.  No   *)
(* method of it awaits, so each is one action.                             *)
(***************************************************************************)
EXTENDS Naturals, FiniteSets, Sequences, SequencesExt, FiniteSetsExt

CONSTANTS AgentCount,
          MaxTracked    \* bound: requests tracked, one after the other

VARIABLES dependencies,   \* _dependencies: requests without an answer
          waitingOn,      \* _agent_waiting_on: the graph
          tracked,        \* how many requests were tracked: the number of the latest
          resolved        \* _resolved_count

Agents == 1..AgentCount

vars == <<dependencies, waitingOn, tracked, resolved>>

DependencyEdge == [request : 1..MaxTracked, from : Agents, to : Agents]

DetectorAssumption == AgentCount \in Nat /\ MaxTracked \in Nat

Init ==
    /\ dependencies = {}
    /\ waitingOn = [a \in Agents |-> {}]
    /\ tracked = 0 /\ resolved = 0

\* track_request()
TrackRequest(a, b) ==
    /\ tracked < MaxTracked
    /\ tracked' = tracked + 1
    /\ dependencies' = dependencies \cup {[request |-> tracked + 1, from |-> a, to |-> b]}
    /\ waitingOn' = [waitingOn EXCEPT ![a] = @ \cup {b}]
    /\ UNCHANGED resolved

(* Mutant of WithoutEdges: the requests are dropped, their edges stay. *)
WithTheEdges(gone) == waitingOn

\* An edge goes with any of its requests: the graph has a set of agents for each.
WithoutEdges(gone) ==
    [a \in Agents |-> waitingOn[a] \ {d.to : d \in {e \in gone : e.from = a}}]

Drop(gone) ==
    /\ dependencies' = dependencies \ gone
    /\ waitingOn' = WithoutEdges(gone)

\* resolve_dependency(): a response to the request has come; _clean_expired() does
\* the same for a request whose time is over.
ResolveDependency(dep) == Drop({dep}) /\ UNCHANGED <<tracked, resolved>>

(* Mutant of OnPath: only the agent itself is looked at, not the path to it. *)
OnPathLast(path, agent) == path # <<>> /\ Last(path) = agent

\* An agent that is on the path closes a cycle.
OnPath(path, agent) == Contains(path, agent)

InOrder(set) == SetToSeq(set)
Found == [visited : SUBSET Agents, cycles : Seq(Seq(Agents))]
\* Where the search is: the agents that are next, the path to them, and what was found.
Search == [agents : Seq(Agents), path : Seq(Agents), found : Found]
Searching(agents, path, found) == [agents |-> agents, path |-> path, found |-> found]

\* dfs() of each of the agents in turn: one that was visited and is not on the path is
\* not entered again.
dfs[at \in Search] ==
    IF at.agents = <<>> THEN at.found
    ELSE LET a == Head(at.agents)
             found == at.found
         IN  dfs[Searching(Tail(at.agents), at.path,
                 IF OnPath(at.path, a)
                 THEN [found EXCEPT !.cycles =
                           Append(@, SubSeq(at.path, Min({i \in DOMAIN at.path : at.path[i] = a}),
                                            Len(at.path)))]
                 ELSE IF a \in found.visited THEN found
                 ELSE dfs[Searching(InOrder(waitingOn[a]), Append(at.path, a),
                                    [found EXCEPT !.visited = @ \cup {a}])])]

\* _find_cycles(): from every agent that waits
FindCycles ==
    dfs[Searching(InOrder({a \in Agents : waitingOn[a] # {}}), <<>>,
                  [visited |-> {}, cycles |-> <<>>])].cycles

\* _resolve_cycle() takes the oldest of the requests between agents of the cycle, if any.
Oldest(deps, cycle) ==
    LET within == {d \in deps : {d.from, d.to} \subseteq ToSet(cycle)}
    IN  {d \in within : \A e \in within : d.request <= e.request}

\* The requests that go when one cycle after the other is resolved.
Resolved(cycles) ==
    LET gone[k \in 0..Len(cycles)] ==
            IF k = 0 THEN {}
            ELSE LET before == gone[k - 1]
                 IN  before \cup Oldest(dependencies \ before, cycles[k])
    IN  dependencies \cap gone[Len(cycles)]

\* One round of _detect_loop() with auto_resolve that finds a cycle.
Detect ==
    /\ \E cycles \in {FindCycles} :
           /\ cycles # <<>>
           /\ \E gone \in {Resolved(cycles)} :
                  Drop(gone) /\ resolved' = resolved + Cardinality(gone)
    /\ UNCHANGED tracked

Next ==
    \/ \E a, b \in Agents : TrackRequest(a, b)
    \/ \E dep \in dependencies : ResolveDependency(dep)
    \/ Detect
Spec == Init /\ [][Next]_vars

(***************************************************************************)
(* Properties                                                              *)
(***************************************************************************)
TypeOK ==
    /\ dependencies \subseteq DependencyEdge
    /\ waitingOn \in [Agents -> SUBSET Agents]
    /\ tracked \in 0..MaxTracked /\ resolved \in 0..MaxTracked

Edges == {e \in Agents \X Agents : e[2] \in waitingOn[e[1]]}
Requested == {<<d.from, d.to>> : d \in dependencies}
\* Some agents wait only for each other: each of them for another of them.
Deadlocked == \E S \in (SUBSET Agents) \ {{}} : \A a \in S : waitingOn[a] \cap S # {}

\* No false alarm: whoever waits in the graph has a request that is unanswered.
NoPhantomWait == Edges \subseteq Requested

\* The graph has every unanswered request, so no deadlock is missed: this does not
\* hold of two requests between the same agents, and no run checks it.
NothingMissed == Requested \subseteq Edges

(* Nobody waits in the graph without a request, and no request is answered   *)
(* or dropped twice.                                                         *)
DetectorInv == TypeOK /\ NoPhantomWait

(* What is reported is a cycle of the graph, and a graph with a cycle is never *)
(* passed over: the search agrees with the definition of a cycle.              *)
SearchIsExact ==
    LET cycles == FindCycles
    IN  /\ (cycles = <<>>) <=> ~Deadlocked
        /\ \A n \in DOMAIN cycles : \A i \in DOMAIN cycles[n] :
               cycles[n][IF i = Len(cycles[n]) THEN 1 ELSE i + 1] \in waitingOn[cycles[n][i]]
====
