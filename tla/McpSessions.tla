---- MODULE McpSessions ----
(***************************************************************************)
(* The session manager of mcp/client/session.py: one connection per        *)
(* registered server, a limit on connections, and one asyncio lock that    *)
(* connect() and disconnect() hold across their awaits.  An action runs    *)
(* from one await to the next.  connect() looks its session up before it   *)
(* has the lock, so a session is an object (one registration of a server)  *)
(* that may be replaced while a caller holds it.  opened counts the        *)
(* clients that were connected and never closed; the manager itself only   *)
(* knows activeCount.                                                      *)
(***************************************************************************)
EXTENDS Naturals, Sequences

CONSTANTS Servers, Callers, Cleaners,
          MaxConnections,     \* max_connections
          MaxRetries,         \* max_retries of one connect()
          MaxRegistrations,   \* bound: registrations of one server
          MaxOpened           \* bound: clients open at once, lost ones included

VARIABLES registered,   \* _sessions: the live registration of each server, 0 if none
          session,      \* every SessionInfo ever made, by server and registration
          activeCount,  \* _active_count
          lock,         \* holder of _lock, or "free"
          call,         \* what each caller is doing
          opened        \* clients connected and not closed

vars == <<registered, session, activeCount, lock, call, opened>>

\* client "shut": close() has begun (client._connected is False) but the session keeps it.
SessionInfo == [client : {"none", "open", "shut"},
                status : {"disconnected", "connected", "unhealthy", "error"}]

\* A call: where it waits, the registration it captured, its retries, and for
\* the clean-up task the servers it still has to disconnect.
Idle == [at |-> "idle", server |-> CHOOSE s \in Servers : TRUE, reg |-> 0, left |-> 0, todo |-> {}]
At(p, where) == call[p].at = where
Captured(p) == session[call[p].server][call[p].reg]
Becomes(p, info) == session' = [session EXCEPT ![call[p].server][call[p].reg] = info]
Returns(p) ==
    call' = [call EXCEPT ![p] = IF @.todo = {} THEN Idle ELSE [@ EXCEPT !.at = "cleaning"]]
Holds(p) == lock = p
Release == lock' = "free"

Init ==
    /\ registered = [s \in Servers |-> 0]
    /\ session = [s \in Servers |-> <<>>]
    /\ activeCount = 0
    /\ lock = "free"
    /\ call = [p \in Callers |-> Idle]
    /\ opened = 0

\* A second registration replaces the session; a client the old one held stays open.
Register(s) ==
    /\ Len(session[s]) < MaxRegistrations
    /\ session' = [session EXCEPT ![s] = Append(@, [client |-> "none", status |-> "disconnected"])]
    /\ registered' = [registered EXCEPT ![s] = Len(session[s]) + 1]
    /\ UNCHANGED <<activeCount, lock, call, opened>>

Unregister(s) ==
    /\ registered[s] # 0
    /\ registered' = [registered EXCEPT ![s] = 0]
    /\ UNCHANGED <<session, activeCount, lock, call, opened>>

\* connect(): the session is captured before the lock is asked for.
Connect(p, s) ==
    /\ At(p, "idle") /\ registered[s] # 0
    /\ call' = [call EXCEPT ![p].at = "connecting", ![p].server = s, ![p].reg = registered[s]]
    /\ UNCHANGED <<registered, session, activeCount, lock, opened>>

ConnectedServers ==
    {s \in Servers : registered[s] # 0 /\ session[s][registered[s]].status = "connected"}

\* With the lock: a connected session is returned; at the limit a connected
\* session is evicted by a disconnect() that asks for the lock its caller
\* holds (Idle's reg 0 stands for "not looked up yet"); else a client is dialled.
TakeConnect(p) ==
    /\ At(p, "connecting") /\ lock = "free"
    /\ LET reusable == Captured(p).client # "none" /\ Captured(p).status = "connected"
           full == activeCount >= MaxConnections /\ ConnectedServers # {}
       IN  \/ reusable /\ Returns(p) /\ UNCHANGED lock
           \/ /\ ~reusable /\ full
              /\ lock' = p
              /\ \E victim \in ConnectedServers :
                     call' = [call EXCEPT ![p].at = "disconnecting", ![p].server = victim]
           \/ /\ ~reusable /\ ~full
              /\ lock' = p
              /\ call' = [call EXCEPT ![p].at = "dialing", ![p].left = MaxRetries]
    /\ UNCHANGED <<registered, session, activeCount, opened>>

\* One attempt of client.connect(): a client the session still had is forgotten, not closed.
DialSucceeds(p) ==
    /\ At(p, "dialing") /\ opened < MaxOpened
    /\ Becomes(p, [client |-> "open", status |-> "connected"])
    /\ activeCount' = activeCount + 1
    /\ opened' = opened + 1
    /\ Release
    /\ Returns(p)
    /\ UNCHANGED registered

(* Mutant of DialFails: the error path keeps the lock. *)
DialFailsLocked(p) ==
    /\ At(p, "dialing")
    /\ IF call[p].left > 0
       THEN call' = [call EXCEPT ![p].left = @ - 1] /\ UNCHANGED session
       ELSE Becomes(p, [Captured(p) EXCEPT !.status = "error"]) /\ Returns(p)
    /\ UNCHANGED <<registered, activeCount, lock, opened>>

DialFails(p) ==
    /\ At(p, "dialing")
    /\ IF call[p].left > 0
       THEN call' = [call EXCEPT ![p].left = @ - 1] /\ UNCHANGED <<session, lock>>
       ELSE Becomes(p, [Captured(p) EXCEPT !.status = "error"]) /\ Release /\ Returns(p)
    /\ UNCHANGED <<registered, activeCount, opened>>

\* disconnect(), also one of those that disconnect_all() gathers.
Disconnect(p, s) ==
    /\ At(p, "idle")
    /\ call' = [call EXCEPT ![p].at = "disconnecting", ![p].server = s]
    /\ UNCHANGED <<registered, session, activeCount, lock, opened>>

(* Mutant of Settled: disconnect() forgets the count. *)
SettledUncounted(p, reg) ==
    /\ session' = [session EXCEPT ![call[p].server][reg] =
                       [client |-> "none", status |-> "disconnected"]]
    /\ UNCHANGED activeCount

\* The end of disconnect(): the count goes down, whether there was a client or not.
Settled(p, reg) ==
    /\ session' = [session EXCEPT ![call[p].server][reg] =
                       [client |-> "none", status |-> "disconnected"]]
    /\ activeCount' = IF activeCount > 0 THEN activeCount - 1 ELSE 0

TakeDisconnect(p) ==
    /\ At(p, "disconnecting") /\ lock = "free"
    /\ LET s == call[p].server
           reg == registered[s]
       IN  \/ reg = 0 /\ Returns(p) /\ UNCHANGED <<session, activeCount, lock>>
           \/ /\ reg # 0 /\ session[s][reg].client = "none"
              /\ Settled(p, reg)
              /\ Returns(p)
              /\ UNCHANGED lock
           \/ /\ reg # 0 /\ session[s][reg].client # "none"
              /\ session' = [session EXCEPT ![s][reg].client = "shut"]
              /\ lock' = p
              /\ call' = [call EXCEPT ![p].at = "closing", ![p].reg = reg]
              /\ UNCHANGED activeCount
    /\ UNCHANGED <<registered, opened>>

\* client.close() returns (or fails, which is swallowed).
Closed(p) ==
    /\ At(p, "closing")
    /\ Settled(p, call[p].reg)
    /\ opened' = opened - 1
    /\ Release
    /\ Returns(p)
    /\ UNCHANGED registered

\* health_check() takes no lock: a client being closed makes the status
\* "disconnected", an open one is pinged for up to five seconds.
HealthCheck(p, s) ==
    /\ At(p, "idle") /\ registered[s] # 0
    /\ LET info == session[s][registered[s]]
       IN  \/ /\ info.client = "shut"
              /\ session' = [session EXCEPT ![s][registered[s]].status = "disconnected"]
              /\ UNCHANGED call
           \/ /\ info.client = "open"
              /\ call' = [call EXCEPT ![p].at = "pinging", ![p].server = s,
                                           ![p].reg = registered[s]]
              /\ UNCHANGED session
    /\ UNCHANGED <<registered, activeCount, lock, opened>>

\* The answer of the ping, applied to whatever the session has become.
Pinged(p) ==
    /\ At(p, "pinging")
    /\ \/ UNCHANGED session
       \/ Becomes(p, [Captured(p) EXCEPT !.status = "unhealthy"])
    /\ Returns(p)
    /\ UNCHANGED <<registered, activeCount, lock, opened>>

\* _cleanup_idle(): any of the connected sessions may have been idle for long.
CleanupIdle(p) ==
    /\ At(p, "idle")
    /\ \E idle \in (SUBSET ConnectedServers) \ {{}} :
           call' = [call EXCEPT ![p].at = "cleaning", ![p].todo = idle]
    /\ UNCHANGED <<registered, session, activeCount, lock, opened>>

\* A server that was unregistered meanwhile is a KeyError, which ends the round.
CleanNext(p) ==
    /\ At(p, "cleaning")
    /\ \E s \in call[p].todo :
           call' = [call EXCEPT ![p] =
               IF registered[s] = 0 THEN Idle
               ELSE [call[p] EXCEPT !.at = "disconnecting", !.server = s, !.todo = @ \ {s}]]
    /\ UNCHANGED <<registered, session, activeCount, lock, opened>>

\* A caller is cancelled (its own timeout, stop_cleanup): the lock is released,
\* a client that was being closed stays with its session.
Cancel(p) ==
    /\ ~At(p, "idle")
    /\ call' = [call EXCEPT ![p] = Idle]
    /\ lock' = IF Holds(p) THEN "free" ELSE lock
    /\ UNCHANGED <<registered, session, activeCount, opened>>

Acquire(p) == TakeConnect(p) \/ TakeDisconnect(p)
Proceed(p) == DialSucceeds(p) \/ DialFails(p) \/ Closed(p) \/ Pinged(p) \/ CleanNext(p)
Next ==
    \/ \E s \in Servers : Register(s) \/ Unregister(s)
    \/ \E p \in Callers, s \in Servers : Connect(p, s) \/ Disconnect(p, s) \/ HealthCheck(p, s)
    \/ \E p \in Callers : Acquire(p) \/ Proceed(p) \/ Cancel(p)
    \/ \E p \in Cleaners : CleanupIdle(p)

(* asyncio.Lock serves its waiters in order, so a caller that waits gets it   *)
(* if it is free again and again; dials, closes and pings have time limits.   *)
Fairness == \A p \in Callers : SF_vars(Acquire(p)) /\ WF_vars(Proceed(p))
Spec == Init /\ [][Next]_vars
FairSpec == Spec /\ Fairness

(***************************************************************************)
(* Properties                                                              *)
(***************************************************************************)
TypeOK ==
    /\ registered \in [Servers -> 0..MaxRegistrations]
    /\ \A s \in Servers : session[s] \in Seq(SessionInfo) /\ registered[s] <= Len(session[s])
    /\ activeCount \in Nat /\ opened \in Nat
    /\ lock \in Callers \cup {"free"}

\* The manager never counts more connections than are open: an eviction is
\* never for nothing.  (It may count fewer, see the README.)
CountNeverOverstates == activeCount <= opened

\* A session that connect() would hand out has a client to hand out.
ConnectedHasClient ==
    \A s \in Servers : \A r \in DOMAIN session[s] :
        session[s][r].status = "connected" => session[s][r].client # "none"

\* Every call returns, unless an eviction waits for the lock its own caller holds.
EvictionWaits == \E p \in Callers : Holds(p) /\ At(p, "disconnecting")
CallsReturn == \A p \in Callers : ~At(p, "idle") ~> At(p, "idle") \/ EvictionWaits

\* connect() returns its client or an error.
ConnectReturns == \A p \in Callers : At(p, "connecting") ~> At(p, "idle")

SessionsInv == TypeOK /\ CountNeverOverstates /\ ConnectedHasClient
====
