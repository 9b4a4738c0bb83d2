---- MODULE McpPipe ----
(***************************************************************************)
(* One stdio connection of the MCP client (mcp/client/client.py) to the    *)
(* MCP server (mcp/server/server.py, transport/stdio.py).  The client      *)
(* writes JSON lines and reads lines; the server answers every line it     *)
(* reads with one line, in order.  Nothing compares the ids: a request     *)
(* gets the next unread line, whatever that answers.                       *)
(***************************************************************************)
EXTENDS Integers, Sequences, FiniteSets

CONSTANTS Clients,    \* tasks that share the client
          MaxLines    \* bound: lines written to one server process

VARIABLES sent,       \* the methods of the lines written to the server's stdin
          served,     \* how many of them the server has read
          unread,     \* the lines in the client's stdout pipe
          script,     \* the methods each task has still to send
          awaits,     \* the line whose reply each task waits for, 0 if none
          connected,  \* _connected
          tools,      \* _tools: has a list of tools arrived
          answered    \* history: <<line of a request, line of the reply it got>>

vars == <<sent, served, unread, script, awaits, connected, tools, answered>>

\* Notifications are sent with expect_response=False: no one waits for a reply.
Notifications == {"notifications/initialized", "shutdown"}
Handshake == <<"initialize", "notifications/initialized", "tools/list">>
Requests == {"tools/list", "tools/call", "ping"}

Idle(p) == script[p] = <<>> /\ awaits[p] = 0
Readers == {p \in Clients : awaits[p] # 0}
Done(p) == awaits' = [awaits EXCEPT ![p] = 0]

Init ==
    /\ sent = <<>> /\ served = 0 /\ unread = <<>>
    /\ script = [p \in Clients |-> <<>>]
    /\ awaits = [p \in Clients |-> 0]
    /\ connected = FALSE /\ tools = "none"
    /\ answered = {}

\* handle_request(), _dispatch() and the handlers: a result or an error for
\* every line, notifications included; "shutdown" has no handler.
ResultOf(method) ==
    CASE method = "initialize" -> {"capabilities"}
      [] method = "tools/list" -> {"tools"}
      [] method = "tools/call" -> {"content", "error"}
      [] method = "shutdown"   -> {"error"}
      [] OTHER                 -> {"empty"}

\* One turn of the server's loop: read a line, handle it, write a line.
Serve ==
    /\ served < Len(sent)
    /\ served' = served + 1
    /\ \E result \in ResultOf(sent[served']) :
           unread' = Append(unread, [line |-> served', result |-> result])
    /\ UNCHANGED <<sent, script, awaits, connected, tools, answered>>

\* connect(): the process is started, then the handshake is sent.
Connect(p) ==
    /\ ~connected /\ \A q \in Clients : Idle(q)
    /\ script' = [script EXCEPT ![p] = Handshake]
    /\ UNCHANGED <<sent, served, unread, awaits, connected, tools, answered>>

\* discover_tools(), call_tool(), and the ping of a health check.
Request(p, method) ==
    /\ connected /\ Idle(p)
    /\ Len(sent) + Cardinality(Clients) <= MaxLines    \* room for every task's line
    /\ script' = [script EXCEPT ![p] = <<method>>]
    /\ UNCHANGED <<sent, served, unread, awaits, connected, tools, answered>>

\* The last line of a script was dealt with: connect() has connected.
Finished(p) == connected' = (connected \/ (script[p] # <<>> /\ Tail(script[p]) = <<>>))

\* _send_stdio() up to readline(): the line is written; a second reader of the
\* pipe gets a RuntimeError from readline() if there is nothing to read yet.
Write(p) ==
    /\ script[p] # <<>> /\ awaits[p] = 0
    /\ sent' = Append(sent, Head(script[p]))
    /\ LET refused == Readers # {} /\ unread = <<>>
           noReader == Head(script[p]) \in Notifications \/ refused
       IN  /\ awaits' = [awaits EXCEPT ![p] = IF noReader THEN 0 ELSE Len(sent')]
           /\ script' = [script EXCEPT ![p] = IF noReader THEN Tail(@) ELSE @]
    /\ UNCHANGED <<served, unread, connected, tools, answered>>

\* readline() returns: the result is taken for the answer to this request.
Read(p) ==
    /\ awaits[p] # 0 /\ unread # <<>>
    /\ answered' = answered \cup {<<awaits[p], Head(unread).line>>}
    /\ tools' = IF Head(script[p]) = "tools/list" /\ Head(unread).result = "tools"
                THEN "listed" ELSE tools
    /\ unread' = Tail(unread)
    /\ Finished(p)
    /\ Done(p)
    /\ script' = [script EXCEPT ![p] = Tail(@)]
    /\ UNCHANGED <<sent, served>>

(* Mutant of TimeOut: the line that arrives as the time is over is lost with *)
(* the reader that is cancelled.                                             *)
TimeOutTakes(p) ==
    /\ awaits[p] # 0
    /\ Finished(p)
    /\ Done(p)
    /\ script' = [script EXCEPT ![p] = Tail(@)]
    /\ unread' = IF unread = <<>> THEN unread ELSE Tail(unread)
    /\ UNCHANGED <<sent, served, tools, answered>>

\* Thirty seconds (five for a ping) without a line: None, and the reply is
\* still to come.  The handshake goes on as if it were answered.
TimeOut(p) ==
    /\ awaits[p] # 0
    /\ Finished(p)
    /\ Done(p)
    /\ script' = [script EXCEPT ![p] = Tail(@)]
    /\ UNCHANGED <<sent, served, unread, tools, answered>>

\* close(): the process is ended; those who wait read the end of file.
Close(p) ==
    /\ connected /\ Idle(p)
    /\ connected' = FALSE
    /\ script' = [q \in Clients |-> <<>>]
    /\ awaits' = [q \in Clients |-> 0]
    /\ sent' = <<>> /\ served' = 0 /\ unread' = <<>> /\ answered' = {}
    /\ UNCHANGED tools

Next ==
    \/ Serve
    \/ \E p \in Clients :
          Connect(p) \/ Write(p) \/ Read(p) \/ TimeOut(p) \/ Close(p)
    \/ \E p \in Clients, method \in Requests : Request(p, method)

Spec == Init /\ [][Next]_vars

(***************************************************************************)
(* Properties                                                              *)
(***************************************************************************)
TypeOK ==
    /\ served <= Len(sent) /\ Len(sent) <= MaxLines
    /\ \A n \in DOMAIN unread : unread[n].line \in 1..served
    /\ awaits \in [Clients -> 0..MaxLines]

\* Whatever waits are given up, no reply is lost or read twice: the replies that
\* were read are those of the first lines the server read, the pipe holds those
\* of the others in order, and each was given to one request, which got no other.
RepliesOnce ==
    /\ \A n \in DOMAIN unread : unread[n].line = served - Len(unread) + n
    /\ {pair[2] : pair \in answered} = 1..(served - Len(unread))
    /\ \A a, b \in answered : a[1] = b[1] <=> a[2] = b[2]
    /\ \A pair \in answered, p \in Clients : pair[1] # awaits[p]

PipeInv == TypeOK /\ RepliesOnce

\* What the docstrings of both sides on notifications suppose, "no response": a
\* reply is the reply to its request, as long as every request sent has had a
\* reply or still waits for one.  It fails in the handshake: the server answers
\* its notification, and the request for the list of tools reads that answer.
NoneGivenUp ==
    \A n \in DOMAIN sent :
        \/ sent[n] \in Notifications
        \/ \E p \in Clients : awaits[p] = n
        \/ \E pair \in answered : pair[1] = n
OwnReply == NoneGivenUp => \A pair \in answered : pair[1] = pair[2]
====
