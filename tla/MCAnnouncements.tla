---------------------------- MODULE MCAnnouncements ----------------------------
EXTENDS Announcements

CONSTANTS A, B

\* What two halls say at once: chat messages, announcements, one of the rpc server too.
Said ==
  {[chat |-> TRUE, home |-> (1 :> A @@ 2 :> B), hall |-> (1 :> B), ticks |-> 0],
   [chat |-> FALSE, home |-> (1 :> A @@ 2 :> B), hall |-> (1 :> A), ticks |-> 0],
   [chat |-> FALSE, home |-> (1 :> A @@ 2 :> None), hall |-> (1 :> B), ticks |-> 0]}

\* So many texts of one hall that its pool is used again, and a player who may ask twice at once.
Texts ==
  {[home |-> (1 :> A @@ 2 :> A @@ 3 :> A @@ 4 :> A), hall |-> (1 :> A)],
   [home |-> (1 :> A @@ 2 :> A @@ 3 :> A), hall |-> (1 :> A @@ 2 :> A)]}

Topics == {t @@ [gm |-> FALSE, halls |-> {A, B}] : t \in Said}
            \cup {t @@ [chat |-> FALSE, gm |-> TRUE, halls |-> {A}, ticks |-> 2] : t \in Texts}
=============================================================================
