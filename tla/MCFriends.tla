---------------------------- MODULE MCFriends ----------------------------
(* Two players; what their clients ask for is about the friendship, the    *)
(* points or the messages.                                                 *)
EXTENDS Friends, TLC

Topics == {{"add", "agree", "refuse", "remove"},
           {"give", "get", "remove"},
           {"chat", "confirm", "remove"}}
Symmetry == Permutations(Handlers) \cup Permutations(Players)
=============================================================================
