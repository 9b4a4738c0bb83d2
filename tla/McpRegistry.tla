---- MODULE McpRegistry ----
(***************************************************************************)
(* The registry of external MCP servers (mcp/registry.py): one client per  *)
(* registered server, connecting of all servers at once, and a monitor     *)
(* that checks them one after the other and reconnects.  Nothing is        *)
(* locked: registrations, administrators and the monitor meet at every     *)
(* await.  The map of the last results (_health) is only reported and left *)
(* out.                                                                    *)
(***************************************************************************)
EXTENDS Naturals

CONSTANTS Hosts,       \* the servers that may be registered
          MaxFaults    \* bound: processes that die, dials and pings that fail

VARIABLES known,       \* _servers
          client,      \* _clients: "none", "live" or "dead" (its process has gone)
          dialing,     \* the connect_one() calls under way: <<caller, server>>
          dropping,    \* servers whose disconnect task unregister() has scheduled
          monitor,     \* what health_check_all() does, for which server
          unchecked,   \* servers left in its round
          faults

vars == <<known, client, dialing, dropping, monitor, unchecked, faults>>

Sleeping == [at |-> "sleeping", host |-> CHOOSE h \in Hosts : TRUE]
MonitorAt(where) == monitor.at = where
AtHost(where, h) == monitor' = [at |-> where, host |-> h]
NextHost == monitor' = [monitor EXCEPT !.at = "round"]
Fault == faults < MaxFaults /\ faults' = faults + 1
Put(h, c) == client' = [client EXCEPT ![h] = c]

Init ==
    /\ known = {} /\ client = [h \in Hosts |-> "none"]
    /\ dialing = {} /\ dropping = {}
    /\ monitor = Sleeping /\ unchecked = {}
    /\ faults = 0

Register(h) ==
    /\ h \notin known
    /\ known' = known \cup {h}
    /\ UNCHANGED <<client, dialing, dropping, monitor, unchecked, faults>>

\* The disconnect of a connected client is scheduled, but the client is
\* forgotten at once: the task finds what another caller has put there by then.
Unregister(h) ==
    /\ h \in known
    /\ dropping' = IF client[h] # "none" THEN dropping \cup {h} ELSE dropping
    /\ known' = known \ {h}
    /\ Put(h, "none")
    /\ UNCHANGED <<dialing, monitor, unchecked, faults>>

\* _disconnect_server() as a task: the entry is popped before the client is closed.
Drop(h) ==
    /\ h \in dropping
    /\ dropping' = dropping \ {h}
    /\ Put(h, "none")
    /\ UNCHANGED <<known, dialing, monitor, unchecked, faults>>

\* disconnect_all(): the entries of all clients are popped, then they are closed.
DisconnectAll ==
    /\ client' = [h \in Hosts |-> "none"]
    /\ UNCHANGED <<known, dialing, dropping, monitor, unchecked, faults>>

\* connect_all(): a new client for every server, those with a client included.
DialAll(caller) == dialing' = dialing \cup {<<caller, h>> : h \in known}
DialsOf(caller) == {d \in dialing : d[1] = caller}

ConnectAll ==
    /\ DialsOf("admin") = {}
    /\ DialAll("admin")
    /\ UNCHANGED <<known, client, dropping, monitor, unchecked, faults>>

\* One connect_one() ends: a client that has connected replaces what is there,
\* whether its server is still registered or not.
Dialled(caller, h) ==
    /\ <<caller, h>> \in dialing
    /\ dialing' = dialing \ {<<caller, h>>}
    /\ \/ Put(h, "live") /\ UNCHANGED faults
       \/ Fault /\ UNCHANGED client
    /\ UNCHANGED <<known, dropping, monitor, unchecked>>

\* The process of a connected server goes away.
Die(h) ==
    /\ client[h] = "live" /\ Fault
    /\ Put(h, "dead")
    /\ UNCHANGED <<known, dialing, dropping, monitor, unchecked>>

\* The monitor wakes: the servers of its round are those registered now.
Wake ==
    /\ MonitorAt("sleeping")
    /\ unchecked' = known
    /\ NextHost
    /\ UNCHANGED <<known, client, dialing, dropping, faults>>

\* A round takes its next server: without a client everything is connected
\* (if the server is still registered), else it is pinged: a pipe that is broken
\* already refuses the ping.
Check(h) ==
    /\ MonitorAt("round") /\ h \in unchecked
    /\ unchecked' = unchecked \ {h}
    /\ \/ /\ client[h] = "none" /\ h \in known
          /\ AtHost("connecting", h)
          /\ DialAll("monitor")
       \/ client[h] = "none" /\ h \notin known /\ NextHost /\ UNCHANGED dialing
       \/ client[h] = "live" /\ AtHost("pinging", h) /\ UNCHANGED dialing
       \/ client[h] = "dead" /\ AtHost("refused", h) /\ UNCHANGED dialing
    /\ UNCHANGED <<known, client, dropping, faults>>

\* connect_all() returns when the last of its dials has ended.
Connected ==
    /\ MonitorAt("connecting") /\ DialsOf("monitor") = {}
    /\ NextHost
    /\ UNCHANGED <<known, client, dialing, dropping, unchecked, faults>>

\* The ping is answered, or refused by the server, or the pipe ends before an answer, as
\* when the server dies or its client is closed meanwhile: nothing is reconnected.
PingAnswered ==
    /\ MonitorAt("pinging")
    /\ NextHost
    /\ UNCHANGED <<known, client, dialing, dropping, unchecked, faults>>

(* Mutant of PingFails: the client is closed without being forgotten. *)
PingFailsForgetting ==
    /\ monitor.at \in {"pinging", "refused"}
    /\ IF MonitorAt("pinging") /\ client[monitor.host] = "live" THEN Fault ELSE UNCHANGED faults
    /\ NextHost
    /\ UNCHANGED <<known, client, dialing, dropping, unchecked>>

\* The ping times out, also one of a client that was closed meanwhile, or was refused:
\* whichever client is there now is popped and closed.
PingFails ==
    /\ monitor.at \in {"pinging", "refused"}
    /\ IF MonitorAt("pinging") /\ client[monitor.host] = "live" THEN Fault ELSE UNCHANGED faults
    /\ Put(monitor.host, "none")
    /\ AtHost("closing", monitor.host)
    /\ UNCHANGED <<known, dialing, dropping, unchecked>>

\* After the close a server that is still registered is dialled again.
Redial ==
    /\ MonitorAt("closing")
    /\ IF monitor.host \in known THEN AtHost("redialing", monitor.host) ELSE NextHost
    /\ UNCHANGED <<known, client, dialing, dropping, unchecked, faults>>

Redialled ==
    /\ MonitorAt("redialing")
    /\ \/ Put(monitor.host, "live") /\ UNCHANGED faults
       \/ Fault /\ UNCHANGED client
    /\ NextHost
    /\ UNCHANGED <<known, dialing, dropping, unchecked>>

RoundEnds ==
    /\ MonitorAt("round") /\ unchecked = {}
    /\ monitor' = Sleeping
    /\ UNCHANGED <<known, client, dialing, dropping, unchecked, faults>>

Monitor == Wake \/ (\E h \in Hosts : Check(h)) \/ Connected
              \/ PingAnswered \/ PingFails \/ Redial \/ Redialled \/ RoundEnds
Next ==
    \/ \E h \in Hosts : Register(h) \/ Unregister(h) \/ Drop(h) \/ Die(h)
    \/ \E caller \in {"admin", "monitor"}, h \in Hosts : Dialled(caller, h)
    \/ ConnectAll \/ DisconnectAll \/ Monitor

(* The monitor's loop runs on and every await in it has a time limit; a      *)
(* scheduled task runs.                                                      *)
Fairness ==
    /\ WF_vars(Monitor)
    /\ \A h \in Hosts : WF_vars(Drop(h))
    /\ \A caller \in {"admin", "monitor"}, h \in Hosts : WF_vars(Dialled(caller, h))
Spec == Init /\ [][Next]_vars
FairSpec == Spec /\ Fairness

(***************************************************************************)
(* Properties                                                              *)
(***************************************************************************)
TypeOK ==
    /\ known \subseteq Hosts /\ dropping \subseteq Hosts /\ unchecked \subseteq Hosts
    /\ client \in [Hosts -> {"none", "live", "dead"}]
    /\ faults \in 0..MaxFaults

\* auto_reconnect: a server that stays registered is connected again and again,
\* whatever unregistering, disconnecting and concurrent connecting did to it.
Recovers == []TypeOK /\ \A h \in Hosts : <>[](h \in known) => []<>(client[h] = "live")
====
