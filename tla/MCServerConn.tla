---------------------------- MODULE MCServerConn ----------------------------
(* What is called in a behaviour, by whom, and on which connections.       *)
EXTENDS ServerConn

CONSTANTS c1, c2

TwoConns == {c1, c2}

\* One connection and a user beside its handlers; two whose handlers close them or each other.
Together ==
  {[calls |-> {"send", "broadcast"}, users |-> Users, conns |-> {c1}, frames |-> 2],
   [calls |-> {"send", "close", "shutdown"}, users |-> Users, conns |-> {c1}, frames |-> 1],
   [calls |-> {"close"}, users |-> {}, conns |-> {c1, c2}, frames |-> 1]}
=============================================================================
