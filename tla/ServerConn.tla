----------------------------- MODULE ServerConn -----------------------------
(***************************************************************************)
(* A node of the network library (libs/server_conn) and the connections it *)
(* accepts.  Three goroutines serve a connection: send_loop writes what is *)
(* in send_chan, recv_loop fills recv_chan, and main_loop handles the      *)
(* messages and, when a reason to disconnect is in disc_chan, releases the *)
(* connection.  Handlers run inside main_loop; they and other goroutines   *)
(* call Send, Broadcast and Close; Shutdown closes every connection.       *)
(*                                                                         *)
(* A put into a full channel waits, a put into a closed one panics and is  *)
(* recovered.  The reasons, the contents of messages, the timeouts of the  *)
(* sockets (no server sets one) and max_conn are abstracted from.          *)
(***************************************************************************)
EXTENDS Integers, FiniteSets

CONSTANTS Conns,      \* connections that clients open
          Users,      \* goroutines that use the node, each for one call
          Scenarios,  \* what a behaviour is made of: calls, users, connections, and the number of
                      \* packages a client sends
          Cap,        \* capacity of send_chan and recv_chan
          None        \* no one

ASSUME ServerConnAssumption == Cap \in Nat \ {0}

Calls == {"send", "close", "broadcast", "shutdown"}

\* The goroutine of Shutdown that closes c.
Closer(c) == <<c>>

\* Goroutines that call: main_loop calls by the handlers it runs.
Callers == Conns \cup Users \cup {Closer(c) : c \in Conns}

VARIABLES
  asked,          \* the scenario of this behaviour
  conn_map,       \* connections of the node
  conn_map_lock,  \* the caller of Broadcast who holds the lock, or None
  quit,           \* Shutdown has begun
  listen,         \* where Listen is
  shutdown,       \* where Shutdown is
  closing, closed, self_closing, handing,  \* connections that have the flag raised
  send_chan, recv_chan, disc_chan,         \* numbers of entries
  shut,           \* connections whose channels are closed
  gone,           \* connections whose client has gone, or whose network failed
  frames,         \* packages a client has sent
  send_loop, recv_loop, main_loop,         \* where the loops of a connection are
  call,           \* what a caller is doing
  told,           \* calls of OnDisconnect
  late            \* history: connections added after Shutdown copied conn_map

flags == <<closing, closed, self_closing, handing>>
chans == <<send_chan, recv_chan, disc_chan, shut>>
loops == <<send_loop, recv_loop, main_loop>>
nodeVars == <<conn_map, conn_map_lock, quit, listen, shutdown>>
vars == <<asked, nodeVars, flags, chans, gone, frames, loops, call, told, late>>

NoCall == [op |-> "none", at |-> "idle", conn |-> None, left |-> {}]
Returned == [NoCall EXCEPT !.at = "returned"]

Init ==
  /\ asked \in Scenarios
  /\ conn_map = {} /\ conn_map_lock = None
  /\ quit = FALSE /\ listen = None /\ shutdown = "no"
  /\ closing = {} /\ closed = {} /\ self_closing = {} /\ handing = {}
  /\ send_chan = [c \in Conns |-> 0]
  /\ recv_chan = [c \in Conns |-> 0]
  /\ disc_chan = [c \in Conns |-> 0]
  /\ shut = {} /\ gone = {}
  /\ frames = [c \in Conns |-> 0]
  /\ send_loop = [c \in Conns |-> "none"]
  /\ recv_loop = [c \in Conns |-> "none"]
  /\ main_loop = [c \in Conns |-> "none"]
  /\ call = [x \in Callers |-> NoCall]
  /\ told = [c \in Conns |-> 0]
  /\ late = {}

----------------------------------------------------------------------------
(* Listen: between its look at quit and add_conn, Shutdown may pass.  What  *)
(* it accepts when quit is raised already is not served and not counted.    *)

Accept(c) ==
  /\ listen = None /\ c \in asked.conns /\ send_loop[c] = "none" /\ ~ quit
  /\ listen' = c
  /\ UNCHANGED <<asked, conn_map, conn_map_lock, quit, shutdown, flags, chans, gone, frames,
                 loops, call, told, late>>

\* The loops start; what OnAccept does is outside of the node.
AddConn ==
  /\ listen # None /\ conn_map_lock = None
  /\ conn_map' = conn_map \cup {listen}
  /\ send_loop' = [send_loop EXCEPT ![listen] = "wait"]
  /\ recv_loop' = [recv_loop EXCEPT ![listen] = "read"]
  /\ main_loop' = [main_loop EXCEPT ![listen] = "select"]
  /\ listen' = None
  /\ late' = IF shutdown \in {"count", "done"} THEN late \cup {listen} ELSE late
  /\ UNCHANGED <<asked, conn_map_lock, quit, shutdown, flags, chans, gone, frames, call, told>>

----------------------------------------------------------------------------
\* A mutant: a handler's disconnect raises closing and leaves no reason.
event_disc_silent(c) ==
  /\ closing' = IF c \in closed THEN closing ELSE closing \cup {c}
  /\ disc_chan' = IF c \in closed \cup shut \cup handing THEN disc_chan
                  ELSE [disc_chan EXCEPT ![c] = @ + 1]

event_disc(c) ==
  /\ closing' = IF c \in closed THEN closing ELSE closing \cup {c}
  /\ disc_chan' = IF c \in closed \cup shut THEN disc_chan
                  ELSE [disc_chan EXCEPT ![c] = @ + 1]

(* send_loop and recv_loop: every way out of them ends in event_disc. *)

SendGoto(c, where) == send_loop' = [send_loop EXCEPT ![c] = where]
SendOn(c, where) == SendGoto(c, where) /\ UNCHANGED <<closing, disc_chan>>
SendLoopQuits(c) == SendGoto(c, "done") /\ event_disc(c)

SendTake(c) ==
  /\ send_loop[c] = "wait"
  /\ \/ /\ send_chan[c] > 0
        /\ send_chan' = [send_chan EXCEPT ![c] = @ - 1]
        /\ IF c \in closing THEN SendLoopQuits(c) ELSE SendOn(c, "write")
     \/ /\ send_chan[c] = 0 /\ c \in shut
        /\ SendLoopQuits(c)
        /\ UNCHANGED send_chan
  /\ UNCHANGED <<asked, nodeVars, closed, self_closing, handing, recv_chan, shut, gone, frames,
                 recv_loop, main_loop, call, told, late>>

Write(c) ==
  /\ send_loop[c] = "write"
  /\ \/ c \notin closed /\ IF c \in closing THEN SendLoopQuits(c) ELSE SendOn(c, "wait")
     \/ c \in gone \cup closed /\ SendLoopQuits(c)
  /\ UNCHANGED <<asked, nodeVars, closed, self_closing, handing, send_chan, recv_chan, shut,
                 gone, frames, recv_loop, main_loop, call, told, late>>

RecvGoto(c, where) == recv_loop' = [recv_loop EXCEPT ![c] = where]
RecvOn(c, where) == RecvGoto(c, where) /\ UNCHANGED <<closing, disc_chan>>
RecvLoopQuits(c) == RecvGoto(c, "done") /\ event_disc(c)

\* It looks at closing before and after it reads, and then puts.
ReadPackage(c) ==
  /\ recv_loop[c] = "read"
  /\ frames[c] < asked.frames /\ c \notin gone \cup closed
  /\ frames' = [frames EXCEPT ![c] = @ + 1]
  /\ IF c \in closing THEN RecvLoopQuits(c) ELSE RecvOn(c, "put")
  /\ UNCHANGED <<asked, nodeVars, closed, self_closing, handing, send_chan, recv_chan, shut,
                 gone, send_loop, main_loop, call, told, late>>

ReadFails(c) ==
  /\ recv_loop[c] = "read"
  /\ c \in gone \cup closed
  /\ RecvLoopQuits(c)
  /\ UNCHANGED <<asked, nodeVars, closed, self_closing, handing, send_chan, recv_chan, shut,
                 gone, frames, send_loop, main_loop, call, told, late>>

event_recv(c) ==
  /\ recv_loop[c] = "put"
  /\ \/ recv_chan[c] < Cap /\ c \notin shut
        /\ recv_chan' = [recv_chan EXCEPT ![c] = @ + 1]
     \/ c \in shut /\ UNCHANGED recv_chan
  /\ IF c \in closing THEN RecvLoopQuits(c) ELSE RecvOn(c, "read")
  /\ UNCHANGED <<asked, nodeVars, closed, self_closing, handing, send_chan, shut, gone, frames,
                 send_loop, main_loop, call, told, late>>

ClientLeaves(c) ==
  /\ send_loop[c] # "none" /\ c \notin gone
  /\ gone' = gone \cup {c}
  /\ UNCHANGED <<asked, nodeVars, flags, chans, frames, loops, call, told, late>>

----------------------------------------------------------------------------
(* main_loop: on_recv, its handler, and the release of the connection. *)

MainGoto(c, where) == main_loop' = [main_loop EXCEPT ![c] = where]

\* What main_loop does after on_recv.
Received(c) == MainGoto(c, IF c \in self_closing THEN "self" ELSE "select")

\* A package that cannot be understood, or a message that is handled.
on_recv(c) ==
  /\ main_loop[c] = "select" /\ recv_chan[c] > 0
  /\ recv_chan' = [recv_chan EXCEPT ![c] = @ - 1]
  /\ \/ event_disc(c) /\ Received(c) /\ UNCHANGED handing
     \/ /\ handing' = handing \cup {c}
        /\ MainGoto(c, "handler")
        /\ UNCHANGED <<closing, disc_chan>>
  /\ UNCHANGED <<asked, nodeVars, closed, self_closing, send_chan, shut, gone, frames,
                 send_loop, recv_loop, call, told, late>>

\* The handler has made one call or none.  It returns, or it panics and handing stays raised.
HandlerEnds(c) ==
  /\ main_loop[c] = "handler" /\ call[c] \in {NoCall, Returned}
  /\ call' = [call EXCEPT ![c] = NoCall]
  /\ \/ handing' = handing \ {c} /\ UNCHANGED <<closing, disc_chan>>
     \/ event_disc(c) /\ UNCHANGED handing
  /\ Received(c)
  /\ UNCHANGED <<asked, nodeVars, closed, self_closing, send_chan, recv_chan, shut, gone,
                 frames, send_loop, recv_loop, told, late>>

\* A mutant: a connection that closes itself is released at once.
TakeReasonUntold(c) ==
  /\ main_loop[c] \in {"select", "self"} /\ disc_chan[c] > 0
  /\ disc_chan' = [disc_chan EXCEPT ![c] = @ - 1]
  /\ MainGoto(c, IF main_loop[c] = "self" THEN "remove" ELSE "leave")
  /\ UNCHANGED <<asked, nodeVars, flags, send_chan, recv_chan, shut, gone, frames,
                 send_loop, recv_loop, call, told, late>>

\* A reason to disconnect; a connection that closes itself waits three seconds for it.
TakeReason(c) ==
  /\ main_loop[c] \in {"select", "self"} /\ disc_chan[c] > 0
  /\ disc_chan' = [disc_chan EXCEPT ![c] = @ - 1]
  /\ MainGoto(c, "leave")
  /\ UNCHANGED <<asked, nodeVars, flags, send_chan, recv_chan, shut, gone, frames,
                 send_loop, recv_loop, call, told, late>>

\* A mutant: the timeout calls OnDisconnect itself.
SelfClosingTimeoutTells(c) ==
  /\ main_loop[c] = "self" /\ disc_chan[c] = 0
  /\ told' = [told EXCEPT ![c] = @ + 1]
  /\ MainGoto(c, "leave")
  /\ UNCHANGED <<asked, nodeVars, flags, chans, gone, frames, send_loop, recv_loop, call, late>>

SelfClosingTimeout(c) ==
  /\ main_loop[c] = "self" /\ disc_chan[c] = 0
  /\ MainGoto(c, "leave")
  /\ UNCHANGED <<asked, nodeVars, flags, chans, gone, frames, send_loop, recv_loop, call, told,
                 late>>

OnDisconnect(c) ==
  /\ main_loop[c] = "leave"
  /\ told' = [told EXCEPT ![c] = @ + 1]
  /\ MainGoto(c, "remove")
  /\ UNCHANGED <<asked, nodeVars, flags, chans, gone, frames, send_loop, recv_loop, call, late>>

\* release, whose deferred calls run from the last to the first.
remove_conn(c) ==
  /\ main_loop[c] = "remove" /\ conn_map_lock = None
  /\ conn_map' = conn_map \ {c}
  /\ MainGoto(c, "shut")
  /\ UNCHANGED <<asked, conn_map_lock, quit, listen, shutdown, flags, chans, gone, frames,
                 send_loop, recv_loop, call, told, late>>

\* A mutant: the channels stay open.
ChannelsLeftOpen(c) == main_loop[c] = "shut" /\ UNCHANGED shut

CloseChannels(c) == main_loop[c] = "shut" /\ shut' = shut \cup {c}

ChannelsClosed(c) ==
  /\ CloseChannels(c)
  /\ MainGoto(c, "close")
  /\ UNCHANGED <<asked, nodeVars, flags, send_chan, recv_chan, disc_chan, gone, frames,
                 send_loop, recv_loop, call, told, late>>

\* The socket is closed, and closed raised.
Released(c) ==
  /\ main_loop[c] = "close"
  /\ closed' = closed \cup {c}
  /\ MainGoto(c, "done")
  /\ UNCHANGED <<asked, nodeVars, closing, self_closing, handing, chans, gone, frames,
                 send_loop, recv_loop, call, told, late>>

----------------------------------------------------------------------------
(* Calls.  A handler calls while its main_loop waits for it; Shutdown's     *)
(* goroutines only close.                                                   *)

Free(x) ==
  /\ x \in asked.users \cup Conns /\ call[x] = NoCall
  /\ x \in Conns => main_loop[x] = "handler"
CallIs(x, at) == call' = [call EXCEPT ![x].at = at]

\* A call of Broadcast goes on with the next connection, a call of Send returns.
SendReturns(x) ==
  call' = [call EXCEPT ![x] = IF @.op = "broadcast" THEN [@ EXCEPT !.at = "next", !.conn = None]
                              ELSE Returned]

Send(x, c) ==
  /\ Free(x) /\ "send" \in asked.calls /\ send_loop[c] # "none"
  /\ call' = [call EXCEPT ![x] = [NoCall EXCEPT !.op = "send", !.at = "lock", !.conn = c]]
  /\ UNCHANGED <<asked, nodeVars, flags, chans, gone, frames, loops, told, late>>

\* send_data under send_lock: the flags are read, and the put may wait afterwards.
send_data(x) ==
  /\ call[x].at = "lock"
  /\ \A y \in Callers : call[y].at = "put" => call[y].conn # call[x].conn
  /\ IF call[x].conn \in closing \cup closed THEN SendReturns(x) ELSE CallIs(x, "put")
  /\ UNCHANGED <<asked, nodeVars, flags, chans, gone, frames, loops, told, late>>

event_send(x) ==
  LET c == call[x].conn
  IN /\ call[x].at = "put"
     /\ \/ send_chan[c] < Cap /\ c \notin shut
           /\ send_chan' = [send_chan EXCEPT ![c] = @ + 1]
        \/ c \in shut /\ UNCHANGED send_chan
     /\ SendReturns(x)
     /\ UNCHANGED <<asked, nodeVars, flags, recv_chan, disc_chan, shut, gone, frames,
                    loops, told, late>>

Broadcast(x) ==
  /\ Free(x) /\ x \in Users /\ "broadcast" \in asked.calls
  /\ conn_map_lock = None
  /\ conn_map_lock' = x
  /\ call' = [call EXCEPT ![x] = [NoCall EXCEPT !.op = "broadcast", !.at = "next",
                                                !.left = conn_map]]
  /\ UNCHANGED <<asked, conn_map, quit, listen, shutdown, flags, chans, gone, frames, loops,
                 told, late>>

BroadcastNext(x) ==
  /\ call[x].at = "next"
  /\ \/ /\ call[x].left = {}
        /\ conn_map_lock' = None
        /\ call' = [call EXCEPT ![x] = Returned]
     \/ \E c \in call[x].left :
          /\ call' = [call EXCEPT ![x].at = "lock", ![x].conn = c, ![x].left = @ \ {c}]
          /\ UNCHANGED conn_map_lock
  /\ UNCHANGED <<asked, conn_map, quit, listen, shutdown, flags, chans, gone, frames, loops,
                 told, late>>

Closing(c) == [NoCall EXCEPT !.op = "close", !.at = "begin", !.conn = c]

Close(x, c) ==
  /\ Free(x) /\ "close" \in asked.calls
  /\ send_loop[c] # "none"
  /\ call' = [call EXCEPT ![x] = Closing(c)]
  /\ UNCHANGED <<asked, nodeVars, flags, chans, gone, frames, loops, told, late>>

\* A connection that is handling a message is asked to close itself.
CloseBegins(x) ==
  LET c == call[x].conn
  IN /\ call[x].at = "begin"
     /\ IF c \in handing
          THEN CallIs(x, "self") /\ UNCHANGED <<closing, disc_chan>>
          ELSE CallIs(x, "wait") /\ event_disc(c)
     /\ UNCHANGED <<asked, nodeVars, closed, self_closing, handing, send_chan, recv_chan, shut,
                    gone, frames,
                    loops, told, late>>

SelfClosing(x) ==
  /\ call[x].at = "self"
  /\ self_closing' = self_closing \cup {call[x].conn}
  /\ CallIs(x, "wait")
  /\ UNCHANGED <<asked, nodeVars, closing, closed, handing, chans, gone, frames, loops, told, late>>

\* After two seconds at most.
CloseInsists(x) ==
  LET c == call[x].conn
  IN /\ call[x].at = "wait"
     /\ IF c \in closing \cup closed THEN UNCHANGED <<closing, disc_chan>> ELSE event_disc(c)
     /\ CallIs(x, "poll")
     /\ UNCHANGED <<asked, nodeVars, closed, self_closing, handing, send_chan, recv_chan, shut,
                    gone, frames, loops, told, late>>

CloseReturns(x) ==
  /\ call[x].at = "poll" /\ call[x].conn \in closed
  /\ call' = [call EXCEPT ![x] = Returned]
  /\ UNCHANGED <<asked, nodeVars, flags, chans, gone, frames, loops, told, late>>

(* Shutdown of the node. *)

ShutdownBegins ==
  /\ "shutdown" \in asked.calls /\ ~ quit
  /\ quit' = TRUE
  /\ shutdown' = "snapshot"
  /\ UNCHANGED <<asked, conn_map, conn_map_lock, listen, flags, chans, gone, frames, loops,
                 call, told, late>>

\* A mutant: a connection that is handling a message is left out.
IdleConns == conn_map \ handing

get_all_conn == conn_map

CloseAll ==
  /\ shutdown = "snapshot" /\ conn_map_lock = None
  /\ call' = [x \in Callers |-> IF x \in {Closer(c) : c \in get_all_conn} THEN Closing(x[1])
                                ELSE call[x]]
  /\ shutdown' = "count"
  /\ UNCHANGED <<asked, conn_map, conn_map_lock, quit, listen, flags, chans, gone, frames,
                 loops, told, late>>

ShutdownReturns ==
  /\ shutdown = "count" /\ conn_map_lock = None
  /\ conn_map = {}
  /\ shutdown' = "done"
  /\ UNCHANGED <<asked, conn_map, conn_map_lock, quit, listen, flags, chans, gone, frames,
                 loops, call, told, late>>

----------------------------------------------------------------------------
MainStep(c) ==
  \/ on_recv(c) \/ HandlerEnds(c) \/ TakeReason(c) \/ SelfClosingTimeout(c)
  \/ OnDisconnect(c) \/ remove_conn(c) \/ ChannelsClosed(c) \/ Released(c)
SendStep(c) == SendTake(c) \/ Write(c)
RecvStep(c) == ReadFails(c) \/ event_recv(c)
CallStep(x) ==
  \/ send_data(x) \/ event_send(x) \/ BroadcastNext(x)
  \/ CloseBegins(x) \/ SelfClosing(x) \/ CloseInsists(x) \/ CloseReturns(x)
NodeStep == AddConn \/ CloseAll \/ ShutdownReturns

Next ==
  \/ NodeStep \/ ShutdownBegins
  \/ \E c \in Conns : \/ Accept(c) \/ ReadPackage(c) \/ ClientLeaves(c)
                      \/ MainStep(c) \/ SendStep(c) \/ RecvStep(c)
  \/ \E x \in Callers : CallStep(x) \/ Broadcast(x) \/ \E c \in Conns : Send(x, c) \/ Close(x, c)

Spec == Init /\ [][Next]_vars

\* Every goroutine that can run is run; clients and callers do what they like.
FairSpec ==
  /\ Spec
  /\ WF_vars(NodeStep)
  /\ \A c \in Conns : WF_vars(MainStep(c)) /\ WF_vars(SendStep(c)) /\ WF_vars(RecvStep(c))
  /\ \A x \in Callers : WF_vars(CallStep(x))

----------------------------------------------------------------------------
\* x goes on only when d has been released.
AwaitsRelease(x, d) ==
  /\ call[x].conn = d
  /\ \/ call[x].at = "poll"
     \/ call[x].at = "put" /\ send_chan[d] = Cap /\ send_loop[d] = "done" /\ d \notin shut

\* The release of c waits for that of d: by the handler c runs, or by the lock of conn_map.
ReleaseAwaits(c, d) ==
  \/ AwaitsRelease(c, d)
  \/ main_loop[c] = "remove" /\ conn_map_lock # None /\ AwaitsRelease(conn_map_lock, d)

\* Connections that wait for each other's release: a handler that closes its own connection, two
\* that close each other's, a handler or a Broadcast that waits at the full send_chan of a
\* connection whose send_loop has ended.
Jam == \E S \in SUBSET Conns \ {{}} : \A c \in S : \E d \in S : ReleaseAwaits(c, d)

TypeOK ==
  /\ asked \in Scenarios /\ quit \in BOOLEAN
  /\ conn_map \subseteq Conns /\ conn_map_lock \in Users \cup {None} /\ listen \in Conns \cup {None}
  /\ \A f \in {closing, closed, self_closing, handing, shut, gone} : f \subseteq Conns
  /\ send_chan \in [Conns -> 0..Cap] /\ recv_chan \in [Conns -> 0..Cap]
  /\ disc_chan \in [Conns -> Nat] /\ told \in [Conns -> 0..1]
  /\ \A x \in Callers : call[x].conn \in Conns \cup {None} /\ call[x].left \subseteq Conns

\* When Shutdown has returned, OnDisconnect has been called for every connection that was added
\* to conn_map before Shutdown copied it: the servers save their players after it.
ShutdownMeansTold ==
  shutdown = "done" => \A c \in Conns : send_loop[c] = "none" \/ told[c] = 1 \/ c \in late

\* A connection that is closing is released, however calls, messages and failures interleave,
\* and no goroutine of it waits for ever; jams are the only ones that are not.
ClosingIsReleased == \A c \in Conns : c \in closing ~> (c \in closed \/ Jam)

\* Once a connection is released, its loops end and no caller waits for it any longer: the
\* closed channels and the closed socket wake whoever waits at them.
NothingLeftRunning ==
  \A c \in Conns : c \in closed ~> /\ send_loop[c] = "done" /\ recv_loop[c] = "done"
                                  /\ \A x \in Callers : call[x].conn # c

\* Node.Shutdown returns, unless connections are jammed or one was accepted too late.
ShutdownCompletes == quit ~> (shutdown = "done" \/ Jam \/ conn_map \cap late # {})
=============================================================================
