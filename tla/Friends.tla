------------------------------ MODULE Friends ------------------------------
(***************************************************************************)
(* Friends of the players of the halls (game_server/player_friend.go): the *)
(* requests and the friendship itself, the friend points that friends give *)
(* each other once a day, and the messages a friend has not read yet.      *)
(*                                                                         *)
(* Each column of a player's row has operations that hold the row's lock,  *)
(* but a request of a client is many such operations, on the rows of two   *)
(* players, and every request runs in a goroutine of its own.  An action   *)
(* is one operation of one column.  A friend who lives on another hall is  *)
(* reached by a call through the rpc server; the caller may be told that   *)
(* the call failed although the friend's hall executes it.                 *)
(***************************************************************************)
EXTENDS Integers, Sequences, FiniteSets

CONSTANTS Players,     \* ids of players
          Handlers,    \* goroutines of clients' requests
          Scenarios,   \* sets of requests; the clients of a behaviour use one of them
          MaxUnread,   \* FRIEND_UNREAD_MESSAGE_MAX_NUM
          MaxGives,    \* FriendGivePointsPlayerNumOneDay
          None         \* no value

ASSUME FriendsAssumption == /\ MaxUnread \in Nat \ {0}
                            /\ MaxGives \in Nat \ {0}
                            /\ None \notin Players
                            /\ None \notin [cur : 0..MaxUnread, ids : Seq(1..MaxUnread)]

Requests == {"add", "agree", "refuse", "remove", "give", "get", "chat", "confirm"}
Ids == 1..MaxUnread

VARIABLES
  asked,     \* the requests the clients of this behaviour make
  remote,    \* the players live on different halls
  friends,   \* column Friends
  reqs,      \* column FriendReqs: who asked to be a friend
  points,    \* column FriendPoints: None, or what the friend gave and whether it was today
  gives,     \* GiveNumToday of column FriendRelative
  fresh,     \* LastRefreshTime of column FriendRelative is of today
  unread,    \* column FriendChatUnreadIds: None, or CurrMessageId and MessageIds
  messages,  \* keys of column FriendChatUnreadMessages: friend and message id
  job,       \* what the handlers do
  \* history variables, read by the properties only
  lost,      \* a call has failed
  crossed,   \* kinds of requests on one pair that have overlapped
  claims     \* how often a player has collected the gift that a friend stored last

data == <<friends, reqs, points, gives, fresh, unread, messages>>
vars == <<asked, remote, friends, reqs, points, gives, fresh, unread, messages,
          job, lost, crossed, claims>>

Idle == [op |-> "none", at |-> "idle", me |-> None, id |-> None,
         side |-> "own", seen |-> None, cut |-> FALSE]

\* Two players who are strangers, or friends when the requests are about what friends do.
Init ==
  /\ asked \in Scenarios
  /\ remote \in BOOLEAN
  /\ friends = [p \in Players |-> IF "add" \in asked THEN {} ELSE Players \ {p}]
  /\ reqs = [p \in Players |-> {}]
  /\ points = [p \in Players |-> [q \in Players |-> None]]
  /\ gives = [p \in Players |-> 0]
  /\ fresh = [p \in Players |-> FALSE]
  /\ unread = [p \in Players |-> [q \in Players |-> None]]
  /\ messages = [p \in Players |-> {}]
  /\ job = [h \in Handlers |-> Idle]
  /\ lost = FALSE
  /\ crossed = {}
  /\ claims = [p \in Players |-> [q \in Players |-> 0]]

Me(h) == job[h].me
Id(h) == job[h].id
At(h, step) == job[h].at = step
Goto(h, step) == job' = [job EXCEPT ![h].at = step]
Done(h) == job' = [job EXCEPT ![h] = Idle]

\* The row an operation of remove_friend_data works on, and the friend it forgets there.
Owner(h) == IF job[h].side = "there" THEN Id(h) ELSE Me(h)
Peer(h) == IF job[h].side = "there" THEN Me(h) ELSE Id(h)

\* The friend's hall has executed the call: the caller goes on unless it was told of an error.
Return(h, step) == IF job[h].cut THEN Done(h) ELSE Goto(h, step)

Gift(p, q) == IF points[p][q] = None THEN 0 ELSE points[p][q].gift
GivenToday(p, q) == points[p][q] # None /\ points[p][q].today

Begin(h, op, p, q, step, seen) ==
  /\ At(h, "idle") /\ op \in asked /\ p # q
  /\ job' = [job EXCEPT ![h] = [Idle EXCEPT !.op = op, !.at = step, !.me = p, !.id = q,
                                            !.side = "there", !.seen = seen]]

----------------------------------------------------------------------------
\* add_friend_by_id: only the call to another hall looks at the other side's friends.
AddFriend(h, p, q) ==
  /\ q \notin friends[p]
  /\ Begin(h, "add", p, q, IF remote THEN "look" ELSE "request", None)
  /\ UNCHANGED <<data, lost, claims>>

LookAtFriends(h) ==
  /\ At(h, "look")
  /\ IF Me(h) \in friends[Id(h)] THEN Done(h) ELSE Goto(h, "request")
  /\ UNCHANGED <<data, lost, claims>>

CheckAndAdd(h) ==
  /\ At(h, "request")
  /\ reqs' = [reqs EXCEPT ![Id(h)] = @ \cup {Me(h)}]
  /\ Done(h)
  /\ UNCHANGED <<friends, points, gives, fresh, unread, messages, lost, claims>>

\* agree_add_friend: no one looks whether there was a request.
AgreeAddFriend(h, p, q) ==
  /\ q \notin friends[p]
  /\ Begin(h, "agree", p, q, "befriend", None)
  /\ UNCHANGED <<data, lost, claims>>

\* Friends.Add at the other side, then at the own one; an entry that is there is kept.
AddToOther(h) ==
  /\ At(h, "befriend")
  /\ friends' = [friends EXCEPT ![Id(h)] = @ \cup {Me(h)}]
  /\ Return(h, "befriend_own")
  /\ UNCHANGED <<reqs, points, gives, fresh, unread, messages, lost, claims>>

AddToOwn(h) ==
  /\ At(h, "befriend_own")
  /\ friends' = [friends EXCEPT ![Me(h)] = @ \cup {Id(h)}]
  /\ Goto(h, "unrequest")
  /\ UNCHANGED <<reqs, points, gives, fresh, unread, messages, lost, claims>>

RemoveReq(h) ==
  /\ At(h, "unrequest")
  /\ reqs' = [reqs EXCEPT ![Me(h)] = @ \ {Id(h)}]
  /\ Done(h)
  /\ UNCHANGED <<friends, points, gives, fresh, unread, messages, lost, claims>>

RefuseAddFriend(h, p, q) ==
  /\ q \in reqs[p]
  /\ Begin(h, "refuse", p, q, "unrequest", None)
  /\ UNCHANGED <<data, lost, claims>>

----------------------------------------------------------------------------
\* remove_friend: remove_friend_data at the other side, then at the own one.
RemoveFriend(h, p, q) ==
  /\ q \in friends[p]
  /\ Begin(h, "remove", p, q, "forget", None)
  /\ UNCHANGED <<data, lost, claims>>

\* A mutant: the own side is forgotten about.
OneSideDone(h) == Done(h)

SideDone(h) ==
  IF job[h].side = "there" /\ ~ job[h].cut
    THEN job' = [job EXCEPT ![h].side = "own", ![h].at = "forget", ![h].seen = None]
    ELSE Done(h)

ForgetFriend(h) ==
  /\ At(h, "forget")
  /\ friends' = [friends EXCEPT ![Owner(h)] = @ \ {Peer(h)}]
  /\ points' = [points EXCEPT ![Owner(h)][Peer(h)] = None]
  /\ Goto(h, "ids")
  /\ UNCHANGED <<reqs, gives, fresh, unread, messages, lost, claims>>

GetMessageIds(h) ==
  /\ At(h, "ids")
  /\ LET d == unread[Owner(h)][Peer(h)]
     IN IF d = None THEN SideDone(h)
        ELSE job' = [job EXCEPT ![h].at = "erase", ![h].seen = d.ids]
  /\ UNCHANGED <<data, lost, claims>>

\* A mutant: the loop over the ids stops one too early.
ErasedButLast(ms, q, ids) == {m \in ms : ~ (m[1] = q /\ \E i \in 1..Len(ids) - 1 : ids[i] = m[2])}

Erased(ms, q, ids) == {m \in ms : ~ (m[1] = q /\ \E i \in DOMAIN ids : ids[i] = m[2])}

RemoveMessages(h) ==
  /\ At(h, "erase")
  /\ messages' = [messages EXCEPT ![Owner(h)] = Erased(@, Peer(h), job[h].seen)]
  /\ IF job[h].op = "confirm" THEN Done(h) ELSE Goto(h, "drop")
  /\ UNCHANGED <<friends, reqs, points, gives, fresh, unread, lost, claims>>

RemoveIds(h) ==
  /\ At(h, "drop")
  /\ unread' = [unread EXCEPT ![Owner(h)][Peer(h)] = None]
  /\ SideDone(h)
  /\ UNCHANGED <<friends, reqs, points, gives, fresh, messages, lost, claims>>

----------------------------------------------------------------------------
\* check_friends_give_points_refresh, at the start of every request about points.
Refresh(p) ==
  /\ gives' = [gives EXCEPT ![p] = IF fresh[p] THEN @ ELSE 0]
  /\ fresh' = [fresh EXCEPT ![p] = TRUE]

\* give_friend_points, for one friend of the list.
GiveFriendPoints(h, p, q) ==
  /\ Refresh(p)
  /\ gives'[p] < MaxGives
  /\ q \in friends[p]
  /\ Begin(h, "give", p, q, "last_give", None)
  /\ UNCHANGED <<friends, reqs, points, unread, messages, lost, claims>>

\* store_friend_points looks at the day of the last gift, and whether there was one, and then
\* reads the time: seen says whether that is still of today.
LookAtLastGive(h) ==
  /\ At(h, "last_give")
  /\ IF GivenToday(Id(h), Me(h))
       THEN IF job[h].cut THEN Goto(h, "give_num") ELSE Done(h)
       ELSE job' = [job EXCEPT ![h].at = IF points[Id(h)][Me(h)] = None THEN "store_first"
                                         ELSE "store",
                               ![h].seen = TRUE]
  /\ UNCHANGED <<data, lost, claims>>

\* FriendPoints.Add does nothing when another gift of the friend has come first.
StoreFirstGift(h) ==
  /\ At(h, "store_first")
  /\ IF points[Id(h)][Me(h)] # None THEN UNCHANGED <<points, claims>>
     ELSE /\ points' = [points EXCEPT ![Id(h)][Me(h)] = [gift |-> 1, today |-> job[h].seen]]
          /\ claims' = [claims EXCEPT ![Id(h)][Me(h)] = 0]
  /\ Goto(h, "give_num")
  /\ UNCHANGED <<friends, reqs, gives, fresh, unread, messages, lost>>

\* The points are set whatever was left of the last gift, then the time; each of the two does
\* nothing when the friend's row has been removed meanwhile.
StoreGift(h) ==
  /\ At(h, "store")
  /\ IF points[Id(h)][Me(h)] = None THEN UNCHANGED <<points, claims>>
     ELSE /\ points' = [points EXCEPT ![Id(h)][Me(h)].gift = 1]
          /\ claims' = [claims EXCEPT ![Id(h)][Me(h)] = 0]
  /\ Goto(h, "stamp")
  /\ UNCHANGED <<friends, reqs, gives, fresh, unread, messages, lost>>

SetLastGiveTime(h) ==
  /\ At(h, "stamp")
  /\ points' = IF points[Id(h)][Me(h)] = None THEN points
               ELSE [points EXCEPT ![Id(h)][Me(h)].today = job[h].seen]
  /\ Goto(h, "give_num")
  /\ UNCHANGED <<friends, reqs, gives, fresh, unread, messages, lost, claims>>

\* IncbyGiveNumToday; rpc_call_give_friend_points hides an error of the call.
IncbyGiveNumToday(h) ==
  /\ At(h, "give_num")
  /\ gives' = [gives EXCEPT ![Me(h)] = @ + 1]
  /\ Done(h)
  /\ UNCHANGED <<friends, reqs, points, fresh, unread, messages, lost, claims>>

\* get_friend_points, for one friend of the list: it does not look whether he still is one.
GetFriendPoints(h, p, q) ==
  /\ Refresh(p)
  /\ Gift(p, q) > 0
  /\ Begin(h, "get", p, q, "collect", None)
  /\ UNCHANGED <<friends, reqs, points, unread, messages, lost, claims>>

AddFriendPoints(h) ==
  /\ At(h, "collect")
  /\ claims' = [claims EXCEPT ![Me(h)][Id(h)] = @ + 1]
  /\ Goto(h, "empty")
  /\ UNCHANGED <<data, lost>>

\* A mutant: the gift is not emptied.
GivePointsKept(h) ==
  /\ At(h, "empty")
  /\ Done(h)
  /\ UNCHANGED <<data, lost, claims>>

\* SetGivePoints does nothing when the friend's row has been removed meanwhile.
SetGivePoints(h) ==
  /\ At(h, "empty")
  /\ points' = [points EXCEPT ![Me(h)][Id(h)] = IF @ = None THEN None ELSE [@ EXCEPT !.gift = 0]]
  /\ Done(h)
  /\ UNCHANGED <<friends, reqs, gives, fresh, unread, messages, lost, claims>>

\* The refresh time of the day passes; the time that a gift will be stored with is of yesterday.
NewDay ==
  /\ "give" \in asked
  /\ fresh' = [p \in Players |-> FALSE]
  /\ points' = [p \in Players |-> [q \in Players |->
                  IF points[p][q] = None THEN None ELSE [points[p][q] EXCEPT !.today = FALSE]]]
  /\ job' = [h \in Handlers |-> IF job[h].at \in {"store_first", "store", "stamp"}
                                 THEN [job[h] EXCEPT !.seen = FALSE] ELSE job[h]]
  /\ UNCHANGED <<friends, reqs, gives, unread, messages, lost, claims>>

----------------------------------------------------------------------------
\* friend_chat; friend_chat_add at the friend's side.
FriendChat(h, p, q) ==
  /\ q \in friends[p]
  /\ Begin(h, "chat", p, q, "next_id", None)
  /\ UNCHANGED <<data, lost, claims>>

\* A mutant: the id grows past the maximum before it starts again.
NextIdTooLarge(d) == IF d = None THEN 1 ELSE IF d.cur > MaxUnread THEN 1 ELSE d.cur + 1

NextId(d) == IF d = None THEN 1 ELSE (d.cur % MaxUnread) + 1

\* CheckUnreadNumFull: the entry is made by AddNewMessageId only, the first id is not kept.
CheckUnreadNumFull(h) ==
  LET d == unread[Id(h)][Me(h)]
  IN /\ At(h, "next_id")
     /\ IF d # None /\ Len(d.ids) >= MaxUnread
          THEN Done(h) /\ UNCHANGED unread
          ELSE /\ job' = [job EXCEPT ![h].at = "message", ![h].seen = NextId(d)]
               /\ unread' = IF d = None THEN unread
                            ELSE [unread EXCEPT ![Id(h)][Me(h)].cur = NextId(d)]
     /\ UNCHANGED <<friends, reqs, points, gives, fresh, messages, lost, claims>>

\* A mutant: the message that is there already does not refuse the chat.
AddMessageAnyway(h) ==
  /\ At(h, "message")
  /\ messages' = [messages EXCEPT ![Id(h)] = @ \cup {<<Me(h), job[h].seen>>}]
  /\ Goto(h, "append")
  /\ UNCHANGED <<friends, reqs, points, gives, fresh, unread, lost, claims>>

AddMessage(h) ==
  LET m == <<Me(h), job[h].seen>>
  IN /\ At(h, "message")
     /\ messages' = [messages EXCEPT ![Id(h)] = @ \cup {m}]
     /\ IF m \in messages[Id(h)] THEN Done(h) ELSE Goto(h, "append")
     /\ UNCHANGED <<friends, reqs, points, gives, fresh, unread, lost, claims>>

AddNewMessageId(h) ==
  LET d == unread[Id(h)][Me(h)]
  IN /\ At(h, "append")
     /\ IF d # None /\ Len(d.ids) >= MaxUnread
          THEN Goto(h, "undo") /\ UNCHANGED unread
          ELSE /\ Done(h)
               /\ unread' = [unread EXCEPT ![Id(h)][Me(h)] =
                    IF d = None THEN [cur |-> 0, ids |-> <<job[h].seen>>]
                    ELSE [d EXCEPT !.ids = Append(@, job[h].seen)]]
     /\ UNCHANGED <<friends, reqs, points, gives, fresh, messages, lost, claims>>

UndoMessage(h) ==
  /\ At(h, "undo")
  /\ messages' = [messages EXCEPT ![Id(h)] = @ \ {<<Me(h), job[h].seen>>}]
  /\ Done(h)
  /\ UNCHANGED <<friends, reqs, points, gives, fresh, unread, lost, claims>>

\* friend_confirm_unread_message: the first n ids, or all; then their messages.
ConfirmUnread(h, p, q) ==
  LET d == unread[p][q]
  IN /\ q \in friends[p]
     /\ d # None
     /\ \E n \in 0..MaxUnread :
          LET all == n = 0 \/ Len(d.ids) <= n
              gone == IF all THEN d.ids ELSE SubSeq(d.ids, 1, n)
          IN /\ At(h, "idle") /\ "confirm" \in asked /\ p # q
             /\ unread' = [unread EXCEPT ![p][q].ids =
                             IF all THEN <<>> ELSE SubSeq(d.ids, n + 1, Len(d.ids))]
             /\ job' = [job EXCEPT ![h] = IF gone = <<>> THEN Idle ELSE
                          [Idle EXCEPT !.op = "confirm", !.at = "erase", !.me = p, !.id = q,
                                       !.seen = gone]]
     /\ UNCHANGED <<friends, reqs, points, gives, fresh, messages, lost, claims>>

----------------------------------------------------------------------------
\* Steps that the friend's hall executes, the first of a call among them.
FirstThere == {"look", "befriend", "forget", "last_give", "next_id"}
There == FirstThere \cup {"request", "ids", "erase", "drop", "store_first", "store", "stamp",
                          "message", "append", "undo"}

\* A call between the halls fails.  It has not reached the friend's hall, or the hall goes on
\* with it although the caller returns; the giver of points goes on as if it had succeeded.
CallFails(h) ==
  /\ remote /\ job[h].side = "there" /\ job[h].at \in There /\ ~ job[h].cut
  /\ lost' = TRUE
  /\ \/ job' = [job EXCEPT ![h].cut = TRUE]
     \/ /\ job[h].at \in FirstThere
        /\ IF job[h].op = "give" THEN Goto(h, "give_num") ELSE Done(h)
  /\ UNCHANGED <<data, claims>>

Step(h) ==
  \/ LookAtFriends(h) \/ CheckAndAdd(h) \/ AddToOther(h) \/ AddToOwn(h) \/ RemoveReq(h)
  \/ ForgetFriend(h) \/ GetMessageIds(h) \/ RemoveMessages(h) \/ RemoveIds(h)
  \/ LookAtLastGive(h) \/ StoreFirstGift(h) \/ StoreGift(h) \/ SetLastGiveTime(h)
  \/ IncbyGiveNumToday(h) \/ AddFriendPoints(h) \/ SetGivePoints(h)
  \/ CheckUnreadNumFull(h) \/ AddMessage(h) \/ AddNewMessageId(h) \/ UndoMessage(h)

Request(h, p, q) ==
  \/ AddFriend(h, p, q) \/ AgreeAddFriend(h, p, q) \/ RefuseAddFriend(h, p, q)
  \/ RemoveFriend(h, p, q) \/ GiveFriendPoints(h, p, q) \/ GetFriendPoints(h, p, q)
  \/ FriendChat(h, p, q) \/ ConfirmUnread(h, p, q)

\* Pairs of requests that must not overlap on the rows of the same players.
Clashes == {<<"agree", "remove">>, <<"chat", "remove">>, <<"get", "get">>}

\* A clash of two requests about one pair of players; two requests to collect points clash when
\* they are about the same gift.
Clash(a, b) ==
  /\ <<a.op, b.op>> \in Clashes
  /\ IF b.op = "get" THEN a.me = b.me /\ a.id = b.id
     ELSE {a.me, a.id} = {b.me, b.id}

Overlap == {pair \in Clashes : \E h, k \in Handlers :
              h # k /\ <<job[h].op, job[k].op>> = pair /\ Clash(job[h], job[k])}

Next ==
  /\ \/ \E h \in Handlers : Step(h) \/ CallFails(h)
     \/ \E h \in Handlers : \E p, q \in Players : Request(h, p, q)
     \/ NewDay
  /\ crossed' = crossed \cup Overlap'
  /\ UNCHANGED <<asked, remote>>

Spec == Init /\ [][Next]_vars

----------------------------------------------------------------------------
Quiet == \A h \in Handlers : job[h] = Idle

\* Every column holds what its operations can put there, and no box of unread messages is
\* larger than FRIEND_UNREAD_MESSAGE_MAX_NUM.
TypeOK ==
  /\ asked \in Scenarios /\ remote \in BOOLEAN /\ lost \in BOOLEAN /\ crossed \subseteq Clashes
  /\ friends \in [Players -> SUBSET Players] /\ reqs \in [Players -> SUBSET Players]
  /\ \A p, q \in Players :
       /\ points[p][q] # None => points[p][q] \in [gift : 0..1, today : BOOLEAN]
       /\ unread[p][q] # None => /\ unread[p][q].cur \in 0..MaxUnread
                                /\ unread[p][q].ids \in Seq(Ids)
                                /\ Len(unread[p][q].ids) <= MaxUnread
  /\ fresh \in [Players -> BOOLEAN] /\ gives \in [Players -> Nat]
  /\ messages \in [Players -> SUBSET (Players \X Ids)]

\* Friendship is mutual whenever no request is under way (agree_add_friend, remove_friend and
\* their rpc procedures write the two rows one after the other).  What can tear it apart is a
\* call that failed, or an agreement that overlapped a removal, and nothing else.
MutualFriends ==
  Quiet /\ ~ lost /\ <<"agree", "remove">> \notin crossed =>
    \A p, q \in Players : q \in friends[p] <=> p \in friends[q]

\* No gift is collected twice: get_friend_points reads the points of the gift, adds them to its
\* player and empties the gift in three steps, and other requests come in between: the friend's
\* next gift, the removal of the friend and the first gift of one who is back, the next day.  The
\* gift that was stored last is collected at most once, and once it is collected and its
\* collector is through there is nothing left of it, unless two requests have collected it at
\* once.  Nothing is said of gifts no one collects: the next one is stored over them.
GiftClaimedOnce ==
  <<"get", "get">> \notin crossed =>
    \A p, q \in Players :
      /\ claims[p][q] <= 1
      /\ claims[p][q] = 1 /\ Gift(p, q) > 0 =>
           \E h \in Handlers : job[h].at = "empty" /\ job[h].me = p /\ job[h].id = q

\* The data of friend q in the row of p is being removed: the messages are gone before the ids.
Removing(p, q) == \E h \in Handlers : job[h].op = "remove" /\ job[h].at = "drop"
                                      /\ Owner(h) = p /\ Peer(h) = q

UnreadIds(p, q) == IF unread[p][q] = None THEN <<>> ELSE unread[p][q].ids

\* The removal of a friend has overlapped a chat of the two, or an agreement that let the
\* friend in again before his messages were gone.
RemovedMeanwhile == crossed \cap {<<"chat", "remove">>, <<"agree", "remove">>} # {}

\* An id in the list of unread ids has its message and is listed once, whatever chats and
\* confirmations do at once to the two columns, which are never locked together; a removal
\* must not overlap a chat or an agreement, and does not break it otherwise.
UnreadIdHasMessage ==
  ~ RemovedMeanwhile =>
    \A p, q \in Players : \A i, k \in DOMAIN UnreadIds(p, q) :
      /\ <<q, UnreadIds(p, q)[i]>> \in messages[p] \/ Removing(p, q)
      /\ i # k => UnreadIds(p, q)[i] # UnreadIds(p, q)[k]

\* No message stays behind without its id, where no one could read or remove it: chats that are
\* refused undo what they did, and confirmations remove what they took.
NoMessageLeftBehind ==
  Quiet /\ ~ RemovedMeanwhile =>
    \A p \in Players : \A m \in messages[p] :
      \E i \in DOMAIN UnreadIds(p, m[1]) : UnreadIds(p, m[1])[i] = m[2]
=============================================================================
