-------------------------- MODULE ServerConnProofs --------------------------
(***************************************************************************)
(* Proofs about ServerConn, for any number of connections and callers, any *)
(* scenario and any capacity of the channels: type correctness, and that   *)
(* Shutdown has told the servers of every connection it was to close.      *)
(*                                                                         *)
(* What Shutdown looks at is conn_map, and what it promises is a call of   *)
(* OnDisconnect: the inductive invariant ties both to where the main_loop  *)
(* of a connection is.                                                     *)
(***************************************************************************)
EXTENDS ServerConn, TLAPS

USE ServerConnAssumption

\* Where main_loop is before it releases the connection, and while it does.
Serving == {"select", "handler", "self", "leave"}
Releasing == {"shut", "close", "done"}

\* A call that is about one connection names it.
CallState ==
  [op : Calls \cup {"none"}, at : {"idle", "returned", "next"}, conn : Conns \cup {None},
   left : SUBSET Conns]
  \cup [op : Calls \cup {"none"}, at : {"lock", "put", "begin", "self", "wait", "poll"},
        conn : Conns, left : SUBSET Conns]

\* The types of the variables TypeOK says nothing about.
PlacesOK ==
  /\ send_loop \in [Conns -> {"none", "wait", "write", "done"}]
  /\ main_loop \in [Conns -> {"none", "remove"} \cup Serving \cup Releasing]
  /\ call \in [Callers -> CallState]

\* OnDisconnect is called once, before the connection leaves conn_map, and it leaves conn_map
\* before its channels are closed.  The loops of a connection start when it is added.
ReleaseOrder ==
  /\ \A c \in Conns :
       /\ send_loop[c] = "none" <=> main_loop[c] = "none"
       /\ told[c] = IF main_loop[c] \in Releasing \cup {"remove"} THEN 1 ELSE 0
       /\ main_loop[c] \in Serving \cup {"remove"} => c \in conn_map
  /\ listen # None => send_loop[listen] = "none"

IInv == TypeOK /\ PlacesOK /\ ReleaseOrder /\ ShutdownMeansTold

-----------------------------------------------------------------------------
(* Facts about the operators of the model. *)

\* A reason to disconnect keeps the types of what it changes.
LEMMA EventDiscTyped ==
  ASSUME TypeOK, NEW c \in Conns, event_disc(c)
  PROVE  closing' \subseteq Conns /\ disc_chan' \in [Conns -> Nat]
BY DEF event_disc, TypeOK

LEMMA NoCallTyped == NoCall \in CallState /\ Returned \in CallState
BY DEF NoCall, Returned, CallState, Calls

LEMMA ClosingTyped == \A c \in Conns : Closing(c) \in CallState
BY DEF Closing, NoCall, CallState, Calls

\* A step that leaves main_loop, told, conn_map and the place of Shutdown alone.
LEMMA ReleaseKept ==
  ASSUME ReleaseOrder, ShutdownMeansTold,
         UNCHANGED <<conn_map, shutdown, main_loop, told, late>>,
         listen' = None \/ UNCHANGED listen,
         \A c \in Conns : send_loop'[c] = "none" <=> send_loop[c] = "none",
         TypeOK
  PROVE  ReleaseOrder' /\ ShutdownMeansTold'
BY DEF ReleaseOrder, ShutdownMeansTold, TypeOK

\* main_loop goes from one place to another before the release, or within it.
LEMMA MainMoves ==
  ASSUME IInv, NEW c \in Conns, NEW where, MainGoto(c, where),
         \/ main_loop[c] \in Serving /\ where \in Serving
         \/ main_loop[c] \in Releasing /\ where \in Releasing,
         UNCHANGED <<conn_map, shutdown, send_loop, told, late, listen>>
  PROVE  /\ ReleaseOrder' /\ ShutdownMeansTold'
         /\ main_loop' \in [Conns -> {"none", "remove"} \cup Serving \cup Releasing]
BY DEF IInv, PlacesOK, MainGoto, ReleaseOrder, ShutdownMeansTold, TypeOK, Serving, Releasing

-----------------------------------------------------------------------------
LEMMA InvInit == Init => IInv
<1> SUFFICES ASSUME Init PROVE IInv
  OBVIOUS
<1>1. PlacesOK
  BY NoCallTyped DEF Init, PlacesOK
<1>2. \A x \in Callers : call[x].conn = None /\ call[x].left = {}
  BY DEF Init, NoCall
<1>3. disc_chan \in [Conns -> Nat] /\ told \in [Conns -> 0..1]
  BY DEF Init
<1>4. send_chan \in [Conns -> 0..Cap] /\ recv_chan \in [Conns -> 0..Cap]
  BY DEF Init, ServerConnAssumption
<1>5. TypeOK
  BY <1>2, <1>3, <1>4 DEF Init, TypeOK
<1>6. ReleaseOrder /\ ShutdownMeansTold
  BY DEF Init, ReleaseOrder, ShutdownMeansTold, Serving, Releasing
<1> QED
  BY <1>1, <1>5, <1>6 DEF IInv

\* Listen, and the clients.
LEMMA ListenInv ==
  ASSUME IInv, \/ AddConn
               \/ \E c \in Conns : Accept(c) \/ ReadPackage(c) \/ ClientLeaves(c)
  PROVE  IInv'
<1> USE DEF IInv
<1>1. ASSUME NEW c \in Conns, Accept(c) PROVE IInv'
  BY <1>1 DEF Accept, TypeOK, PlacesOK, ReleaseOrder, ShutdownMeansTold, flags, chans, loops
<1>2. CASE AddConn
  <2> DEFINE c == listen
  <2>1. c \in Conns
    BY <1>2 DEF AddConn, TypeOK
  <2>2. TypeOK' /\ PlacesOK'
    BY <1>2, <2>1 DEF AddConn, TypeOK, PlacesOK, flags, chans, Serving
  <2>3. ReleaseOrder'
    BY <1>2, <2>1 DEF AddConn, TypeOK, PlacesOK, ReleaseOrder, Serving, Releasing
  <2>4. ShutdownMeansTold'
    BY <1>2, <2>1 DEF AddConn, TypeOK, PlacesOK, ShutdownMeansTold
  <2> QED
    BY <2>2, <2>3, <2>4
<1>3. ASSUME NEW c \in Conns, ReadPackage(c) PROVE IInv'
  <2>1. closing' \subseteq Conns /\ disc_chan' \in [Conns -> Nat]
    BY <1>3, EventDiscTyped DEF ReadPackage, RecvLoopQuits, RecvOn, TypeOK
  <2>2. ReleaseOrder' /\ ShutdownMeansTold'
    BY <1>3, ReleaseKept DEF ReadPackage, nodeVars
  <2> QED
    BY <1>3, <2>1, <2>2 DEF ReadPackage, TypeOK, PlacesOK, nodeVars
<1>4. ASSUME NEW c \in Conns, ClientLeaves(c) PROVE IInv'
  <2>1. ReleaseOrder' /\ ShutdownMeansTold'
    BY <1>4, ReleaseKept DEF ClientLeaves, nodeVars, loops
  <2> QED
    BY <1>4, <2>1 DEF ClientLeaves, TypeOK, PlacesOK, nodeVars, flags, chans, loops
<1> QED
  BY <1>1, <1>2, <1>3, <1>4

\* send_loop and recv_loop.
LEMMA LoopsInv ==
  ASSUME IInv, NEW c \in Conns, SendStep(c) \/ RecvStep(c)
  PROVE  IInv'
<1> USE DEF IInv
<1>1. closing' \subseteq Conns /\ disc_chan' \in [Conns -> Nat]
  BY EventDiscTyped
  DEF SendStep, SendTake, Write, RecvStep, ReadFails, event_recv, SendLoopQuits, SendOn,
      RecvLoopQuits, RecvOn, TypeOK
<1>2. /\ send_loop' \in [Conns -> {"none", "wait", "write", "done"}]
      /\ \A d \in Conns : send_loop'[d] = "none" <=> send_loop[d] = "none"
  BY DEF SendStep, SendTake, Write, RecvStep, ReadFails, event_recv, SendLoopQuits, SendOn,
         SendGoto, PlacesOK
<1>3. send_chan' \in [Conns -> 0..Cap] /\ recv_chan' \in [Conns -> 0..Cap]
  BY DEF SendStep, SendTake, Write, RecvStep, ReadFails, event_recv, TypeOK,
         ServerConnAssumption
<1>4. UNCHANGED <<asked, nodeVars, closed, self_closing, handing, shut, gone, main_loop,
                  call, told, late>>
  BY DEF SendStep, SendTake, Write, RecvStep, ReadFails, event_recv
<1>5. ReleaseOrder' /\ ShutdownMeansTold'
  BY <1>2, <1>4, ReleaseKept DEF nodeVars
<1> QED
  BY <1>1, <1>2, <1>3, <1>4, <1>5 DEF TypeOK, PlacesOK, nodeVars

\* main_loop.
LEMMA MainInv ==
  ASSUME IInv, NEW c \in Conns, MainStep(c)
  PROVE  IInv'
<1> USE DEF IInv
<1>1. CASE on_recv(c)
  <2>1. closing' \subseteq Conns /\ disc_chan' \in [Conns -> Nat]
    BY <1>1, EventDiscTyped DEF on_recv, TypeOK
  <2>2. /\ ReleaseOrder' /\ ShutdownMeansTold'
        /\ main_loop' \in [Conns -> {"none", "remove"} \cup Serving \cup Releasing]
    BY <1>1, MainMoves DEF on_recv, Received, Serving, nodeVars
  <2>3. recv_chan' \in [Conns -> 0..Cap]
    BY <1>1 DEF on_recv, TypeOK, ServerConnAssumption
  <2> QED
    BY <1>1, <2>1, <2>2, <2>3 DEF on_recv, TypeOK, PlacesOK, nodeVars
<1>2. CASE HandlerEnds(c)
  <2>1. closing' \subseteq Conns /\ disc_chan' \in [Conns -> Nat]
    BY <1>2, EventDiscTyped DEF HandlerEnds, TypeOK
  <2>2. /\ ReleaseOrder' /\ ShutdownMeansTold'
        /\ main_loop' \in [Conns -> {"none", "remove"} \cup Serving \cup Releasing]
    BY <1>2, MainMoves DEF HandlerEnds, Received, Serving, nodeVars
  <2>3. call' \in [Callers -> CallState]
    BY <1>2, NoCallTyped DEF HandlerEnds, PlacesOK, Callers
  <2>4. \A x \in Callers : call'[x].conn \in Conns \cup {None} /\ call'[x].left \subseteq Conns
    BY <2>3 DEF CallState
  <2> QED
    BY <1>2, <2>1, <2>2, <2>3, <2>4 DEF HandlerEnds, TypeOK, PlacesOK, nodeVars
<1>3. CASE TakeReason(c)
  <2>1. /\ ReleaseOrder' /\ ShutdownMeansTold'
        /\ main_loop' \in [Conns -> {"none", "remove"} \cup Serving \cup Releasing]
    BY <1>3, MainMoves DEF TakeReason, Serving, nodeVars
  <2>2. disc_chan' \in [Conns -> Nat]
    BY <1>3 DEF TakeReason, TypeOK
  <2> QED
    BY <1>3, <2>1, <2>2 DEF TakeReason, TypeOK, PlacesOK, nodeVars, flags
<1>4. CASE SelfClosingTimeout(c)
  <2>1. /\ ReleaseOrder' /\ ShutdownMeansTold'
        /\ main_loop' \in [Conns -> {"none", "remove"} \cup Serving \cup Releasing]
    BY <1>4, MainMoves DEF SelfClosingTimeout, Serving, nodeVars
  <2> QED
    BY <1>4, <2>1 DEF SelfClosingTimeout, TypeOK, PlacesOK, nodeVars, flags, chans
<1>5. CASE OnDisconnect(c)
  <2>1. told[c] = 0 /\ c \in conn_map
    BY <1>5 DEF OnDisconnect, ReleaseOrder, Serving, Releasing
  <2>2. TypeOK' /\ PlacesOK'
    BY <1>5, <2>1 DEF OnDisconnect, MainGoto, TypeOK, PlacesOK, nodeVars, flags, chans
  <2>3. ReleaseOrder' /\ ShutdownMeansTold'
    BY <1>5, <2>1
    DEF OnDisconnect, MainGoto, TypeOK, PlacesOK, nodeVars, ReleaseOrder, ShutdownMeansTold,
        Serving, Releasing
  <2> QED
    BY <2>2, <2>3
<1>6. CASE remove_conn(c)
  <2>1. TypeOK' /\ PlacesOK'
    BY <1>6 DEF remove_conn, MainGoto, TypeOK, PlacesOK, flags, chans, Releasing
  <2>2. ReleaseOrder' /\ ShutdownMeansTold'
    BY <1>6
    DEF remove_conn, MainGoto, TypeOK, PlacesOK, ReleaseOrder, ShutdownMeansTold, Serving,
        Releasing
  <2> QED
    BY <2>1, <2>2
<1>7. CASE ChannelsClosed(c)
  <2>1. /\ ReleaseOrder' /\ ShutdownMeansTold'
        /\ main_loop' \in [Conns -> {"none", "remove"} \cup Serving \cup Releasing]
    BY <1>7, MainMoves DEF ChannelsClosed, CloseChannels, Releasing, nodeVars
  <2> QED
    BY <1>7, <2>1 DEF ChannelsClosed, CloseChannels, TypeOK, PlacesOK, nodeVars, flags
<1>8. CASE Released(c)
  <2>1. /\ ReleaseOrder' /\ ShutdownMeansTold'
        /\ main_loop' \in [Conns -> {"none", "remove"} \cup Serving \cup Releasing]
    BY <1>8, MainMoves DEF Released, Releasing, nodeVars
  <2> QED
    BY <1>8, <2>1 DEF Released, TypeOK, PlacesOK, nodeVars, chans
<1> QED
  BY <1>1, <1>2, <1>3, <1>4, <1>5, <1>6, <1>7, <1>8 DEF MainStep

\* The calls, the ones of Shutdown's goroutines among them.
LEMMA CallInv ==
  ASSUME IInv, NEW x \in Callers,
         \/ CallStep(x) \/ Broadcast(x)
         \/ \E c \in Conns : Send(x, c) \/ Close(x, c)
  PROVE  IInv'
<1> USE DEF IInv
<1>1. UNCHANGED <<asked, conn_map, quit, listen, shutdown, closed, handing, recv_chan, shut,
                  gone, loops, told, late>>
  BY DEF CallStep, send_data, event_send, BroadcastNext, CloseBegins, SelfClosing,
         CloseInsists, CloseReturns, Broadcast, Send, Close, nodeVars, flags, chans
<1>2. ReleaseOrder' /\ ShutdownMeansTold'
  BY <1>1, ReleaseKept DEF loops
<1>3. call[x] \in CallState
  BY DEF PlacesOK
<1>4. call' \in [Callers -> CallState]
  <2>1. ASSUME SendReturns(x) PROVE call' \in [Callers -> CallState]
    BY <1>3, <2>1, NoCallTyped DEF SendReturns, PlacesOK, CallState
  <2>2. ASSUME NEW where \in {"put", "self", "wait", "poll"}, CallIs(x, where),
               call[x].at \in {"lock", "begin", "self", "wait"}
        PROVE  call' \in [Callers -> CallState]
    BY <1>3, <2>2 DEF CallIs, PlacesOK, CallState
  <2>3. CASE Broadcast(x)
    BY <1>3, <2>3 DEF Broadcast, NoCall, PlacesOK, CallState, Calls, TypeOK
  <2>4. ASSUME NEW c \in Conns, Send(x, c) PROVE call' \in [Callers -> CallState]
    BY <1>3, <2>4 DEF Send, NoCall, PlacesOK, CallState, Calls
  <2>5. ASSUME NEW c \in Conns, Close(x, c) PROVE call' \in [Callers -> CallState]
    BY <2>5, ClosingTyped DEF Close, PlacesOK
  <2>6. CASE BroadcastNext(x)
    <3>1. CASE call' = [call EXCEPT ![x] = Returned]
      BY <3>1, NoCallTyped DEF PlacesOK
    <3>2. ASSUME NEW c \in call[x].left,
                 call' = [call EXCEPT ![x].at = "lock", ![x].conn = c, ![x].left = @ \ {c}]
          PROVE  call' \in [Callers -> CallState]
      <4>1. call[x].op \in Calls \cup {"none"} /\ call[x].left \subseteq Conns
        BY <1>3 DEF CallState
      <4> QED
        BY <1>3, <3>2, <4>1 DEF PlacesOK, CallState
    <3> QED
      BY <2>6, <3>1, <3>2 DEF BroadcastNext
  <2>7. CASE CloseReturns(x)
    BY <2>7, NoCallTyped DEF CloseReturns, PlacesOK
  <2> QED
    BY <2>1, <2>2, <2>3, <2>4, <2>5, <2>6, <2>7
    DEF CallStep, send_data, event_send, CloseBegins, SelfClosing, CloseInsists
<1>5. \A y \in Callers : call'[y].conn \in Conns \cup {None} /\ call'[y].left \subseteq Conns
  BY <1>4 DEF CallState
<1>6. call[x].at \in {"lock", "put", "begin", "self", "wait", "poll"} => call[x].conn \in Conns
  BY <1>3 DEF CallState
<1>7. closing' \subseteq Conns /\ disc_chan' \in [Conns -> Nat]
  BY <1>6, EventDiscTyped
  DEF CallStep, send_data, event_send, BroadcastNext, CloseBegins, SelfClosing, CloseInsists,
      CloseReturns, Broadcast, Send, Close, flags, chans, TypeOK
<1>8. self_closing' \subseteq Conns
  BY <1>6
  DEF CallStep, send_data, event_send, BroadcastNext, CloseBegins, SelfClosing, CloseInsists,
      CloseReturns, Broadcast, Send, Close, flags, TypeOK
<1>9. send_chan' \in [Conns -> 0..Cap]
  <2>1. CASE event_send(x)
    <3>1. call[x].conn \in Conns
      BY <1>6, <2>1 DEF event_send
    <3> QED
      BY <2>1, <3>1, ServerConnAssumption DEF event_send, TypeOK
  <2>2. CASE ~ event_send(x)
    BY <2>2
    DEF CallStep, send_data, BroadcastNext, CloseBegins, SelfClosing, CloseInsists,
        CloseReturns, Broadcast, Send, Close, chans, TypeOK
  <2> QED
    BY <2>1, <2>2
<1>10. conn_map_lock' \in Users \cup {None}
  BY DEF CallStep, send_data, event_send, BroadcastNext, CloseBegins, SelfClosing, CloseInsists,
         CloseReturns, Broadcast, Send, Close, nodeVars, TypeOK
<1>11. \A f \in {closing, closed, self_closing, handing, shut, gone}' : f \subseteq Conns
  BY <1>1, <1>7, <1>8 DEF TypeOK
<1> QED
  BY <1>1, <1>2, <1>4, <1>5, <1>7, <1>9, <1>10, <1>11 DEF TypeOK, PlacesOK, loops

\* Shutdown.
LEMMA ShutdownInv ==
  ASSUME IInv, ShutdownBegins \/ CloseAll \/ ShutdownReturns
  PROVE  IInv'
<1> USE DEF IInv
<1>1. CASE ShutdownBegins
  BY <1>1
  DEF ShutdownBegins, TypeOK, PlacesOK, ReleaseOrder, ShutdownMeansTold, flags, chans, loops
<1>2. CASE CloseAll
  <2>1. \A c \in Conns : Closer(c)[1] = c
    BY DEF Closer
  <2>2. call' \in [Callers -> CallState]
    BY <1>2, <2>1, ClosingTyped DEF CloseAll, get_all_conn, PlacesOK, TypeOK
  <2>3. \A x \in Callers : call'[x].conn \in Conns \cup {None} /\ call'[x].left \subseteq Conns
    BY <2>2 DEF CallState
  <2> QED
    BY <1>2, <2>2, <2>3
    DEF CloseAll, TypeOK, PlacesOK, ReleaseOrder, ShutdownMeansTold, flags, chans, loops
<1>3. CASE ShutdownReturns
  <2>1. ShutdownMeansTold'
    BY <1>3
    DEF ShutdownReturns, ShutdownMeansTold, ReleaseOrder, PlacesOK, Serving, Releasing, loops
  <2> QED
    BY <1>3, <2>1 DEF ShutdownReturns, TypeOK, PlacesOK, ReleaseOrder, flags, chans, loops
<1> QED
  BY <1>1, <1>2, <1>3

LEMMA InvStep == IInv /\ [Next]_vars => IInv'
<1> SUFFICES ASSUME IInv, [Next]_vars PROVE IInv'
  OBVIOUS
<1>1. CASE UNCHANGED vars
  BY <1>1
  DEF vars, nodeVars, flags, chans, loops, IInv, TypeOK, PlacesOK, ReleaseOrder,
      ShutdownMeansTold
<1> QED
  BY <1>1, ListenInv, LoopsInv, MainInv, CallInv, ShutdownInv DEF Next, NodeStep

-----------------------------------------------------------------------------
\* Every variable stays in its type: among others no channel ever holds more than its capacity,
\* and OnDisconnect is never called twice for a connection.
THEOREM TypeCorrect == Spec => []TypeOK
BY InvInit, InvStep, PTL DEF Spec, IInv

\* When Node.Shutdown has returned, OnDisconnect has been called for every connection that was
\* in conn_map when Shutdown copied it, whatever handlers, calls, failures of the network and
\* arriving connections did meanwhile.
THEOREM ToldBeforeShutdownReturns == Spec => []ShutdownMeansTold
BY InvInit, InvStep, PTL DEF Spec, IInv
=============================================================================
