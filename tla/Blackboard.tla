---- MODULE Blackboard ----
(***************************************************************************)
(* The shared blackboard of memory/blackboard.py.  Its lock is never held  *)
(* across an await, so reading and writing are steps; the subscribers of a *)
(* write are called after the lock is free, one after the other, and other *)
(* writers run between them.  Values are the numbers of the writes.        *)
(***************************************************************************)
EXTENDS Naturals, FiniteSets

CONSTANTS Keys, Agents,
          MaxWrites,      \* bound: writes
          MaxRemovals     \* bound: how often a key goes

VARIABLES data,         \* _data, _metadata of a namespace: [value, version] per key that is there
          writes,       \* _write_count
          life,         \* per key, how often it went (history)
          seen,         \* what read_with_meta() returned to each agent last
          subscribers,  \* _subscribers: per agent, the keys it is subscribed to
          notifying,    \* the _notify() calls under way: [value, todo]
          waits,        \* the wait_for() of each agent
          update        \* the last write with an expected version (history)

vars == <<data, writes, life, seen, subscribers, notifying, waits, update>>

Cell == [value : 0..MaxWrites, version : 0..MaxWrites]
Nothing == [value |-> 0, version |-> 0]
Seen == [value : 0..MaxWrites, version : 0..MaxWrites, life : 0..MaxRemovals]
WaitStatus == {"idle", "waiting", "set"}

Init ==
    /\ data = [k \in Keys |-> Nothing]
    /\ writes = 0
    /\ life = [k \in Keys |-> 0]
    /\ seen = [a \in Agents |-> [k \in Keys |-> [value |-> 0, version |-> 0, life |-> 0]]]
    /\ subscribers = [a \in Agents |-> {}]
    /\ notifying = {}
    /\ waits = [a \in Agents |-> "idle"]
    /\ update = [expected |-> 0, replaced |-> 0, sameLife |-> TRUE]

Present(k) == data[k].version # 0

(* Mutant of NextVersion: a key that is there keeps its version. *)
NextVersionKept(k) == IF Present(k) THEN data[k].version ELSE 1

\* The version of a write: the count goes on where the metadata left it.
NextVersion(k) == data[k].version + 1

Calls(notify) == IF notify.todo = {} THEN {} ELSE {notify}

\* write(); `named` is whether the caller gives the version it has read.
Write(a, k, named) ==
    /\ writes < MaxWrites
    /\ named => data[k].version = seen[a][k].version
    /\ writes' = writes + 1
    /\ data' = [data EXCEPT ![k] = [value |-> writes + 1, version |-> NextVersion(k)]]
    /\ update' = IF named
                 THEN [expected |-> seen[a][k].value, replaced |-> data[k].value,
                       sameLife |-> seen[a][k].life = life[k]]
                 ELSE update
    /\ notifying' = notifying \cup Calls([value |-> writes + 1, todo |-> {b \in Agents : k \in subscribers[b]}])
    /\ UNCHANGED <<life, seen, subscribers, waits>>

\* The next callback of a _notify(); the one wait_for() subscribes sets its event.
Notify(n, a) ==
    /\ n \in notifying /\ a \in n.todo
    /\ notifying' = (notifying \ {n}) \cup Calls([n EXCEPT !.todo = @ \ {a}])
    /\ waits' = IF waits[a] = "waiting" THEN [waits EXCEPT ![a] = "set"] ELSE waits
    /\ UNCHANGED <<data, writes, life, seen, subscribers, update>>

\* read(), read_with_meta(): what is missing is remembered as version 0, which is
\* what write() takes it for.
Read(a, k) ==
    /\ seen' = [seen EXCEPT ![a][k] = [value |-> data[k].value, version |-> data[k].version,
                                       life |-> life[k]]]
    /\ UNCHANGED <<data, writes, life, subscribers, notifying, waits, update>>

\* Keys go with their metadata: delete(), clear_namespace(), or the read() or
\* list_namespace() that finds their ttl over.
Remove(ks) ==
    /\ \A k \in ks : Present(k) /\ life[k] < MaxRemovals
    /\ data' = [k \in Keys |-> IF k \in ks THEN Nothing ELSE data[k]]
    /\ life' = [k \in Keys |-> IF k \in ks THEN life[k] + 1 ELSE life[k]]
    /\ UNCHANGED <<writes, seen, subscribers, notifying, waits, update>>

Subscribe(a, ks) ==
    /\ subscribers[a] = {} /\ waits[a] = "idle"
    /\ subscribers' = [subscribers EXCEPT ![a] = ks]
    /\ UNCHANGED <<data, writes, life, seen, notifying, waits, update>>

\* Callbacks of a subscription that has ended are still called, and reach nobody.
Without(a) == UNION {Calls([n EXCEPT !.todo = @ \ {a}]) : n \in notifying}

Unsubscribe(a) ==
    /\ subscribers[a] # {} /\ waits[a] = "idle"
    /\ subscribers' = [subscribers EXCEPT ![a] = {}]
    /\ notifying' = Without(a)
    /\ UNCHANGED <<data, writes, life, seen, waits, update>>

\* wait_for(), to the wait for its event
WaitFor(a, k) ==
    /\ subscribers[a] = {} /\ waits[a] = "idle"
    /\ subscribers' = [subscribers EXCEPT ![a] = {k}]
    /\ waits' = [waits EXCEPT ![a] = "waiting"]
    /\ UNCHANGED <<data, writes, life, seen, notifying, update>>

\* wait_for(), after it: the key is read again and may be gone, or the time is over.
WaitReturns(a) ==
    /\ waits[a] \in {"waiting", "set"}
    /\ waits' = [waits EXCEPT ![a] = "idle"]
    /\ subscribers' = [subscribers EXCEPT ![a] = {}]
    /\ notifying' = Without(a)
    /\ UNCHANGED <<data, writes, life, seen, update>>

Next ==
    \/ \E a \in Agents, k \in Keys : (\E named \in BOOLEAN : Write(a, k, named)) \/ Read(a, k) \/ WaitFor(a, k)
    \/ \E n \in notifying : \E a \in Agents : Notify(n, a)
    \/ \E ks \in (SUBSET Keys) \ {{}} : Remove(ks) \/ \E a \in Agents : Subscribe(a, ks)
    \/ \E a \in Agents : Unsubscribe(a) \/ WaitReturns(a)
Spec == Init /\ [][Next]_vars

(***************************************************************************)
(* Properties                                                              *)
(***************************************************************************)
TypeOK ==
    /\ data \in [Keys -> Cell] /\ writes \in 0..MaxWrites
    /\ life \in [Keys -> 0..MaxRemovals]
    /\ seen \in [Agents -> [Keys -> Seen]]
    /\ subscribers \in [Agents -> SUBSET Keys]
    /\ \A n \in notifying : n.value \in 1..writes /\ n.todo \subseteq Agents
    /\ waits \in [Agents -> WaitStatus]
    /\ update.sameLife \in BOOLEAN

\* A write that names the version it read replaces the value it read, whoever wrote in
\* between with or without a version, as long as the key was there all the time.
UpdateReplacesWhatWasRead == update.sameLife => update.expected = update.replaced

\* The same without the condition: the version tells that the value is the one read.
NoLostUpdate == update.expected = update.replaced

BlackboardInv == TypeOK /\ UpdateReplacesWhatWasRead
====
