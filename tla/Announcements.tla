----------------------------- MODULE Announcements -----------------------------
(***************************************************************************)
(* Announcements and the world chat (game_server/anouncement.go and        *)
(* world_chat.go, which is the same but for one thing).  Every hall keeps  *)
(* the latest messages in a linked list whose items come from a pool of    *)
(* fixed size (libs/utils/simple_item_pool.go) and return to it when they  *)
(* are old or needed.  A player reads on from the item he read last.  A    *)
(* message is pushed at the hall of its player and then, by way of the rpc *)
(* server, at the other halls, one after the other: an announcement while  *)
(* the lock of the own list is held, a chat message after it is released.  *)
(*                                                                         *)
(* What is written in a message, and msg_num, which never falls and only   *)
(* matters before the first message, are abstracted from.                  *)
(***************************************************************************)
EXTENDS Integers, Sequences, FiniteSets, SequencesExt

CONSTANTS Halls,
          Messages,   \* each is pushed once, by a goroutine of its own
          Requests,   \* goroutines of requests of the one player of a hall
          Scenarios,  \* what runs: see asked
          PoolSize,   \* AnouncementMaxNum, or get_world_chat_max_msg_num()
          Exist,      \* AnouncementExistTime
          SendMax,    \* AnouncementSendMaxNum
          Cooldown,   \* AnouncementSendCooldown
          None        \* no value

\* With an item less, push would link the only item with itself; global.json says 1000 and 200.
ASSUME AnnouncementsAssumption ==
  /\ PoolSize \in Nat \ {0, 1} /\ Exist \in Nat \ {0} /\ SendMax \in Nat \ {0}
  /\ Cooldown \in Nat /\ Messages \subseteq Nat
  /\ None \notin Halls /\ None \notin Nat
  /\ \A s \in Scenarios : /\ s.ticks \in Nat /\ s.halls \subseteq Halls
                          /\ \A x \in DOMAIN s.home : s.home[x] \in Halls \cup {None}
                          /\ \A r \in DOMAIN s.hall : s.hall[r] \in Halls

Items == 1..PoolSize

VARIABLES
  asked,      \* the scenario: chat or announcements, whether they are GM texts, the halls, the
              \* homes of messages, whose numbers are in the order in which a hall pushes them,
              \* the halls of requests, and the last tick of the clock
  now,
  mgr,        \* hall -> AnouncementMgr, or WorldChatMgr
  locker,     \* hall -> the message whose push holds the lock while it calls, or None
  push,       \* message -> what its goroutine does: at, the halls left, the hall it calls
  pend,       \* hall -> messages that the rpc server has asked it to push
  request,    \* what a request does: at, when, the items it got, and the cursor it ends at
  cursor,     \* hall -> curr_msg and curr_send_time of its player
  last_send,  \* hall -> LastSendTime of its player, or LastPullTime
  \* history variables, read by the properties only
  arrived,    \* hall -> messages and the times of their push, in this order
  got,        \* hall -> messages its player has received
  cut,        \* messages one of whose calls failed
  overlapped, \* players two of whose requests have read at once
  stale       \* players who have read on from an item that was back in the pool

listVars == <<mgr, arrived>>
callVars == <<locker, push, pend, cut>>
readVars == <<request, cursor, last_send, got, overlapped, stale>>
vars == <<asked, now, listVars, callVars, readVars>>

Ended == [at |-> "idle", since |-> 0, items |-> <<>>, cur |-> None]
Home(x) == asked.home[x]

Init ==
  /\ asked \in Scenarios
  /\ now = 0
  /\ mgr = [h \in Halls |-> [head |-> None, tail |-> None,
                             next |-> [i \in Items |-> None], prev |-> [i \in Items |-> None],
                             time |-> [i \in Items |-> None], msg |-> [i \in Items |-> None],
                             free |-> [i \in Items |-> i]]]
  /\ locker = [h \in Halls |-> None]
  /\ push = [x \in Messages |-> [at |-> "idle", left |-> {}, hall |-> None]]
  /\ pend = [h \in Halls |-> {}]
  /\ request = [r \in Requests |-> Ended]
  /\ cursor = [h \in Halls |-> [item |-> None, time |-> None]]
  /\ last_send = [h \in Halls |-> -Cooldown]
  /\ arrived = [h \in Halls |-> <<>>]
  /\ got = [h \in Halls |-> <<>>]
  /\ cut = {} /\ overlapped = {} /\ stale = {}

----------------------------------------------------------------------------
(* The list and its pool. *)

\* The items from i on, following next for at most n steps.
Chain(m, i, n) ==
  LET at[k \in 1..n] == IF k = 1 THEN i ELSE IF at[k - 1] = None THEN None ELSE m.next[at[k - 1]]
  IN SubSeq(at, 1, Cardinality({k \in 1..n : at[k] # None}))
Listed(m) == Chain(m, m.head, PoolSize)

Expired(m, i) == now - m.time[i] >= Exist

\* A mutant: the last item stays the tail.
TailLeft(m, i) ==
  [m EXCEPT !.head = IF @ = i THEN m.next[i] ELSE @,
            !.free = <<i>> \o @,
            !.next = [j \in Items |-> IF j = m.prev[i] THEN m.next[i] ELSE @[j]],
            !.prev = [j \in Items |-> IF j = m.next[i] THEN m.prev[i] ELSE @[j]]]

\* The pool is a stack; the item keeps its own fields.
Recycled(m, i) ==
  [m EXCEPT !.head = IF @ = i THEN m.next[i] ELSE @,
            !.tail = IF @ = i THEN None ELSE @,
            !.free = <<i>> \o @,
            !.next = [j \in Items |-> IF j = m.prev[i] THEN m.next[i] ELSE @[j]],
            !.prev = [j \in Items |-> IF j = m.next[i] THEN m.prev[i] ELSE @[j]]]

\* The list after k items, and the next one.
recycle_old(m) ==
  LET walk[k \in 0..PoolSize] ==
        IF k = 0 THEN [mgr |-> m, msg |-> m.head]
        ELSE LET w == walk[k - 1] IN
             IF w.msg = None THEN w
             ELSE [mgr |-> IF Expired(m, w.msg) THEN Recycled(w.mgr, w.msg) ELSE w.mgr,
                   msg |-> m.next[w.msg]]
  IN walk[PoolSize].mgr

\* A mutant: the head stays where it is.
HeadKept(m) == IF m.free # <<>> THEN m ELSE [m EXCEPT !.free = <<m.head>>]

\* The oldest item makes room.
WithFree(m) ==
  IF m.free # <<>> THEN m
  ELSE LET n == m.next[m.head]
       IN [m EXCEPT !.free = <<m.head>>, !.head = n, !.prev[n] = None]

Linked(m, x) ==
  LET i == Head(m.free)
  IN [m EXCEPT !.free = Tail(@), !.msg[i] = x, !.time[i] = now,
               !.prev[i] = m.tail,
               !.next = [j \in Items |-> IF j = i THEN None ELSE IF j = m.tail THEN i ELSE @[j]],
               !.head = IF @ = None THEN i ELSE @,
               !.tail = i]

\* The lock of hall h can be taken for writing, or for reading.
Reading(h) == \E r \in Requests : request[r].at = "read" /\ asked.hall[r] = h
Unlocked(h) == locker[h] = None

PushNew(h, x) ==
  /\ Unlocked(h) /\ ~ Reading(h)
  /\ mgr' = [mgr EXCEPT ![h] = Linked(WithFree(recycle_old(@)), x)]
  /\ arrived' = [arrived EXCEPT ![h] = Append(@, <<x, now>>)]

----------------------------------------------------------------------------
(* A message goes to all halls. *)

\* The next message of its hall, or of the rpc server.
Due(x) ==
  /\ x \in DOMAIN asked.home
  /\ \A y \in DOMAIN asked.home : Home(y) = Home(x) => (push[y].at = "idle") = (y >= x)

\* A player's event is announced under the lock; what he says in the chat is sent on without.
Announce(x) ==
  /\ Due(x) /\ Home(x) # None /\ ~ asked.gm
  /\ PushNew(Home(x), x)
  /\ push' = [push EXCEPT ![x].at = "call", ![x].left = asked.halls \ {Home(x)}]
  /\ locker' = IF asked.chat THEN locker ELSE [locker EXCEPT ![Home(x)] = x]
  /\ UNCHANGED <<asked, now, pend, cut, readVars>>

\* A text of the GM command has no player, and so it stays at its hall.
AnnounceText(x) ==
  /\ Due(x) /\ Home(x) # None /\ asked.gm
  /\ PushNew(Home(x), x)
  /\ push' = [push EXCEPT ![x].at = "done"]
  /\ UNCHANGED <<asked, now, locker, pend, cut, readVars>>

\* The first of a ranking list is announced by the rpc server, to every hall.
AnnounceFirstRank(x) ==
  /\ Due(x) /\ Home(x) = None
  /\ push' = [push EXCEPT ![x].at = "call", ![x].left = asked.halls]
  /\ UNCHANGED <<asked, now, listVars, locker, pend, cut, readVars>>

\* H2H_GlobalProc of the rpc server calls the next hall.
CallHall(x, g) ==
  /\ push[x].at = "call" /\ g \in push[x].left
  /\ push' = [push EXCEPT ![x] = [at |-> "wait", left |-> @.left \ {g}, hall |-> g]]
  /\ pend' = [pend EXCEPT ![g] = @ \cup {x}]
  /\ UNCHANGED <<asked, now, listVars, locker, cut, readVars>>

\* H2H_GlobalProc of that hall: the player is not found there, and so it calls nobody.
RemotePush(g, x) ==
  /\ x \in pend[g]
  /\ PushNew(g, x)
  /\ pend' = [pend EXCEPT ![g] = @ \ {x}]
  /\ UNCHANGED <<asked, now, locker, push, cut, readVars>>

HallReturns(x) ==
  /\ push[x].at = "wait" /\ x \notin pend[push[x].hall]
  /\ push' = [push EXCEPT ![x].at = "call"]
  /\ UNCHANGED <<asked, now, listVars, locker, pend, cut, readVars>>

\* The connection to a hall breaks: the rpc server calls no other hall.  The hall has not got
\* the call, or it will push the message.
CallFails(x) ==
  /\ push[x].at = "wait"
  /\ push' = [push EXCEPT ![x].at = "call", ![x].left = {}]
  /\ pend' \in {pend, [pend EXCEPT ![push[x].hall] = @ \ {x}]}
  /\ cut' = cut \cup {x}
  /\ UNCHANGED <<asked, now, listVars, locker, readVars>>

\* A mutant: the lock is not released after the calls.
LockKept(x) == locker

LockReleased(x) ==
  [h \in Halls |-> IF locker[h] = x THEN None ELSE locker[h]]

\* The own hall has no connection to the rpc server, or it breaks: the push ends, and the calls
\* do not begin or go on.
HallIsCut(x) ==
  /\ push[x].at \in {"call", "wait"} /\ Home(x) # None
  /\ locker' = LockReleased(x)
  /\ cut' = cut \cup {x}
  /\ \/ push' = push
     \/ /\ push[x].at = "call" /\ push[x].left = asked.halls \ {Home(x)}
        /\ push' = [push EXCEPT ![x].left = {}]
  /\ UNCHANGED <<asked, now, listVars, pend, readVars>>

PushReturns(x) ==
  /\ push[x].at = "call" /\ push[x].left = {}
  /\ push' = [push EXCEPT ![x].at = "done"]
  /\ locker' = LockReleased(x)
  /\ UNCHANGED <<asked, now, listVars, pend, cut, readVars>>

----------------------------------------------------------------------------
(* A request ends with the announcements, or asks for the chat. *)

CheckAndAnouncement(r) ==
  LET h == asked.hall[r]
  IN /\ r \in DOMAIN asked.hall /\ request[r].at = "idle"
     /\ now - last_send[h] >= Cooldown
     /\ request' = [request EXCEPT ![r].at = "lock", ![r].since = now]
     /\ UNCHANGED <<asked, now, listVars, callVars, cursor, last_send, got, overlapped, stale>>

\* A mutant: the item that was read last is read again.
FromCursor(m, c) ==
  IF c.item = None THEN m.head ELSE IF m.time[c.item] # c.time THEN m.head ELSE c.item

Start(m, c) ==
  IF c.item = None THEN m.head ELSE IF m.time[c.item] # c.time THEN m.head ELSE m.next[c.item]

\* The item c a player read last has a new message of the same second, or it is in the pool and
\* what is seen from it on comes into the list behind its head.
Astray(h, c, seen) ==
  LET l == Listed(mgr[h])
  IN IF c \in ToSet(l) THEN mgr[h].msg[c] \notin ToSet(got[h])
     ELSE \E k \in DOMAIN seen : /\ seen[k] \in ToSet(l) /\ seen[k] # Head(l)
                                 /\ \A j \in 1..(k - 1) : seen[j] \notin ToSet(l)

\* The items that are not old.
Fresh(m, s) ==
  LET upTo[k \in 0..Len(s)] ==
        IF k = 0 THEN <<>>
        ELSE IF Expired(m, s[k]) THEN upTo[k - 1] ELSE Append(upTo[k - 1], s[k])
  IN upTo[Len(s)]

\* GetSome, at most SendMax items and none that is old.
GetSome(r) ==
  LET h == asked.hall[r]
      m == mgr[h]
      c == cursor[h].item
      seen == Chain(m, Start(m, cursor[h]), SendMax)
      fresh == Fresh(m, seen)
  IN /\ request[r].at = "lock" /\ Unlocked(h)
     /\ request' = [request EXCEPT ![r].at = "read",
                      ![r].items = [k \in DOMAIN fresh |-> m.msg[fresh[k]]],
                      ![r].cur = IF fresh = <<>> THEN None ELSE Last(fresh)]
     /\ overlapped' = IF Reading(h) THEN overlapped \cup {h} ELSE overlapped
     /\ stale' = IF c # None /\ m.time[c] = cursor[h].time /\ Astray(h, c, seen)
                   THEN stale \cup {h} ELSE stale
     /\ UNCHANGED <<asked, now, listVars, callVars, cursor, last_send, got>>

\* The cursor moves, and the cooldown begins, which the chat's does without a message too.
Received(r) ==
  LET h == asked.hall[r]
      q == request[r]
  IN /\ q.at = "read"
     /\ got' = [got EXCEPT ![h] = @ \o q.items]
     /\ cursor' = IF q.cur = None THEN cursor
                  ELSE [cursor EXCEPT ![h] = [item |-> q.cur, time |-> mgr[h].time[q.cur]]]
     /\ last_send' = IF q.cur = None /\ ~ asked.chat THEN last_send
                     ELSE [last_send EXCEPT ![h] = q.since]
     /\ request' = [request EXCEPT ![r] = Ended]
     /\ UNCHANGED <<asked, now, listVars, callVars, overlapped, stale>>

Tick ==
  /\ now < asked.ticks
  /\ now' = now + 1
  /\ UNCHANGED <<asked, listVars, callVars, readVars>>

----------------------------------------------------------------------------
CallStep(x) ==
  HallReturns(x) \/ PushReturns(x) \/ \E h \in Halls : CallHall(x, h) \/ RemotePush(h, x)

Next ==
  \/ \E x \in Messages : Announce(x) \/ AnnounceText(x) \/ AnnounceFirstRank(x)
  \/ \E x \in Messages : CallStep(x) \/ CallFails(x) \/ HallIsCut(x)
  \/ \E r \in Requests : CheckAndAnouncement(r) \/ GetSome(r) \/ Received(r)
  \/ Tick

Spec == Init /\ [][Next]_vars

\* Goroutines run, and a mutex that is free now and then is given to one who waits for it: a
\* reader who comes later does not overtake a writer (sync.RWMutex).
FairSpec ==
  /\ Spec
  /\ \A x \in Messages : SF_vars(CallStep(x))
  /\ \A r \in Requests : WF_vars(GetSome(r) \/ Received(r))

----------------------------------------------------------------------------
\* Every item is in the list or in the pool, and the list can be walked both ways.
TypeOK ==
  /\ now \in 0..asked.ticks
  /\ \A h \in Halls :
       LET m == mgr[h]
           l == Listed(m)
       IN /\ ToSet(l) \cap ToSet(m.free) = {} /\ Len(l) + Len(m.free) = PoolSize
          /\ IsInjective(l) /\ IsInjective(m.free)
          /\ m.tail = IF l = <<>> THEN None ELSE Last(l)
          /\ \A k \in DOMAIN l : m.prev[l[k]] = IF k = 1 THEN None ELSE l[k - 1]
  /\ \A h \in Halls : locker[h] # None => push[locker[h]].at \in {"call", "wait"}

\* The list of a hall holds its latest messages in the order in which they came: all that are
\* not old, or as many as the pool has items (recycle_old, and the oldest item that makes room).
ListKeepsLatest ==
  \A h \in Halls :
    LET m == mgr[h]
        l == Listed(m)
        n == Len(arrived[h]) - Len(l)
    IN /\ \A k \in DOMAIN l : arrived[h][n + k] = <<m.msg[l[k]], m.time[l[k]]>>
       /\ Len(l) = PoolSize \/ \A k \in 1..n : now - arrived[h][k][2] >= Exist

\* A player receives the messages of his hall in their order, none twice, and none after one
\* that he has not got, is in the list and is not old (the cursor of GetSome).  Two requests of
\* his that read at once may break it, and a cursor whose item went back to the pool.
ReadInOrder ==
  \A h \in Halls : h \notin overlapped \cup stale =>
    LET m == mgr[h]
        l == Listed(m)
        at(x) == CHOOSE k \in DOMAIN arrived[h] : arrived[h][k][1] = x
    IN /\ \A i, k \in DOMAIN got[h] : i < k => at(got[h][i]) < at(got[h][k])
       /\ \A i, k \in DOMAIN l :
            i < k /\ m.msg[l[k]] \in ToSet(got[h])
              => Expired(m, l[i]) \/ m.msg[l[i]] \in ToSet(got[h])

Has(h, x) == \E k \in DOMAIN arrived[h] : arrived[h][k][1] = x

\* Messages, each at the lock of a list that the next one holds: announcements of players of
\* different halls that were made at once.
Crossed ==
  \E S \in SUBSET Messages \ {{}} : \A x \in S :
    push[x].at = "wait" /\ x \in pend[push[x].hall] /\ locker[push[x].hall] \in S

\* A push returns, with the message at every hall or after a failed call, and a request goes on,
\* unless announcements have crossed: no lock is held for ever otherwise.
NobodyWaitsForEver ==
  /\ \A x \in Messages : push[x].at = "call" ~>
       \/ push[x].at = "done" /\ (x \in cut \/ \A h \in asked.halls : Has(h, x))
       \/ Crossed
  /\ \A r \in Requests : request[r].at = "lock" ~> (request[r].at # "lock" \/ Crossed)
=============================================================================
