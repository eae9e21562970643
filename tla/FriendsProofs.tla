--------------------------- MODULE FriendsProofs ---------------------------
(***************************************************************************)
(* Proofs about Friends, for any number of players and of requests at      *)
(* once, whatever the clients ask for, on one hall or on several: type     *)
(* correctness, that friendship is mutual and no gift collected twice, and *)
(* that unread messages and their ids belong together.                     *)
(*                                                                         *)
(* The last three hold while certain requests have not overlapped; crossed *)
(* keeps the overlaps of the past, so that Overlap \subseteq crossed is    *)
(* what the proofs use of it: two requests that must not meet are not both *)
(* under way.                                                              *)
(***************************************************************************)
EXTENDS Friends, TLAPS

USE FriendsAssumption

Box == {d \in [cur : 0..MaxUnread, ids : Seq(Ids)] : Len(d.ids) <= MaxUnread}
GiftRecord == [gift : 0..1, today : BOOLEAN]

\* What a handler can be doing in a request of a kind.
OpAt(op, at) ==
  \/ op = "add" /\ at \in {"look", "request"}
  \/ op = "agree" /\ at \in {"befriend", "befriend_own", "unrequest"}
  \/ op = "refuse" /\ at = "unrequest"
  \/ op = "remove" /\ at \in {"forget", "ids", "erase", "drop"}
  \/ op = "give" /\ at \in {"last_give", "store_first", "store", "stamp", "give_num"}
  \/ op = "get" /\ at \in {"collect", "empty"}
  \/ op = "chat" /\ at \in {"next_id", "message", "append", "undo"}
  \/ op = "confirm" /\ at = "erase"

Steps == {"idle", "look", "request", "befriend", "befriend_own", "unrequest", "forget", "ids",
          "erase", "drop", "last_give", "store_first", "store", "stamp", "give_num", "collect",
          "empty", "next_id", "message", "append", "undo"}

\* Steps of a gift that has a time and is not all stored yet.
Storing == {"store_first", "store", "stamp"}

\* Steps that need to have seen something.
Seeing == {"message", "append", "undo", "erase"} \cup Storing

JobRecord == [op : Requests \cup {"none"}, at : Steps, me : Players \cup {None},
              id : Players \cup {None}, side : {"own", "there"},
              seen : {None} \cup Ids \cup Seq(Ids) \cup BOOLEAN, cut : BOOLEAN]

\* A handler that is not idle is about two players, and has seen what its step needs.
JobOK(j) ==
  /\ j \in JobRecord
  /\ j.at = "idle" => j = Idle
  /\ j.at # "idle" => j.me \in Players /\ j.id \in Players /\ j.me # j.id /\ OpAt(j.op, j.at)
  /\ j.op = "confirm" => j.side = "own"
  /\ j.at \in {"message", "append", "undo"} => j.seen \in Ids
  /\ j.at = "erase" => j.seen \in Seq(Ids)
  /\ j.at \in Storing => j.seen \in BOOLEAN

JobsOK == /\ job = [h \in Handlers |-> job[h]]
          /\ \A h \in Handlers : JobOK(job[h])

\* The columns of the rows, and the history.
DataOK ==
  /\ friends \in [Players -> SUBSET Players]
  /\ reqs \in [Players -> SUBSET Players]
  /\ points \in [Players -> [Players -> {None} \cup GiftRecord]]
  /\ gives \in [Players -> Nat]
  /\ fresh \in [Players -> BOOLEAN]
  /\ unread \in [Players -> [Players -> {None} \cup Box]]
  /\ messages \in [Players -> SUBSET (Players \X Ids)]
  /\ lost \in BOOLEAN
  /\ claims \in [Players -> [Players -> Nat]]

TypeInv == /\ asked \in Scenarios /\ remote \in BOOLEAN /\ crossed \subseteq Clashes
           /\ DataOK
           /\ JobsOK

-----------------------------------------------------------------------------
(* Facts about the operators of the model. *)

LEMMA NoneIsNothing == None \notin Players /\ None \notin Box
BY DEF FriendsAssumption, Box, Ids

LEMMA OverlapIsClash == Overlap \subseteq Clashes
BY DEF Overlap

\* Two requests under way that clash are in Overlap.
LEMMA ClashOverlaps ==
  ASSUME NEW h \in Handlers, NEW k \in Handlers, h # k, Clash(job[h], job[k])
  PROVE  <<job[h].op, job[k].op>> \in Overlap
<1>1. <<job[h].op, job[k].op>> \in Clashes
  BY DEF Clash
<1> QED
  BY <1>1 DEF Overlap

LEMMA GiftUpdates ==
  \A g \in GiftRecord : /\ [g EXCEPT !.gift = 0] \in GiftRecord
                        /\ [g EXCEPT !.gift = 1] \in GiftRecord
                        /\ \A t \in BOOLEAN : [g EXCEPT !.today = t] \in GiftRecord
<1> SUFFICES ASSUME NEW g \in GiftRecord, NEW t \in BOOLEAN
             PROVE  /\ [g EXCEPT !.gift = 0] \in GiftRecord
                    /\ [g EXCEPT !.gift = 1] \in GiftRecord
                    /\ [g EXCEPT !.today = t] \in GiftRecord
  OBVIOUS
<1>1. [g EXCEPT !.gift = 0] \in GiftRecord /\ [g EXCEPT !.gift = 1] \in GiftRecord
  BY DEF GiftRecord
<1>2. [g EXCEPT !.today = t] \in GiftRecord
  BY Zenon DEF GiftRecord
<1> QED
  BY <1>1, <1>2

\* One entry of a table of two players.
LEMMA EntryChanged ==
  ASSUME NEW S, NEW f \in [Players -> [Players -> S]], NEW p \in Players, NEW q \in Players,
         NEW e, NEW g, g = [f EXCEPT ![p][q] = e]
  PROVE  \A a, b \in Players : g[a][b] = IF a = p /\ b = q THEN e ELSE f[a][b]
<1>1. g = [f EXCEPT ![p] = [f[p] EXCEPT ![q] = e]]
  OBVIOUS
<1>2. [f[p] EXCEPT ![q] = e][q] = e
  OBVIOUS
<1>3. \A b \in Players : b # q => [f[p] EXCEPT ![q] = e][b] = f[p][b]
  OBVIOUS
<1>4. g[p] = [f[p] EXCEPT ![q] = e] /\ \A a \in Players : a # p => g[a] = f[a]
  BY <1>1
<1> QED
  BY <1>2, <1>3, <1>4

LEMMA EntryTyped ==
  ASSUME DataOK, NEW p \in Players, NEW q \in Players, NEW e \in GiftRecord
  PROVE  [points EXCEPT ![p][q] = e] \in [Players -> [Players -> {None} \cup GiftRecord]]
BY DEF DataOK

LEMMA UncollectedTyped ==
  ASSUME DataOK, NEW p \in Players, NEW q \in Players
  PROVE  [claims EXCEPT ![p][q] = 0] \in [Players -> [Players -> Nat]]
BY DEF DataOK

LEMMA IdleIsOK == JobOK(Idle)
BY DEF JobOK, Idle, JobRecord, Steps, Storing

LEMMA DoneTyped ==
  ASSUME JobsOK, NEW h \in Handlers, Done(h)
  PROVE  JobsOK'
BY IdleIsOK DEF JobsOK, Done

\* A handler that goes to a step of its request that needs to have seen nothing.
LEMMA GotoTyped ==
  ASSUME JobsOK, NEW h \in Handlers, ~ At(h, "idle"),
         NEW step \in Steps \ ({"idle"} \cup Seeing), Goto(h, step),
         OpAt(job[h].op, step)
  PROVE  JobsOK'
<1> DEFINE j == [job[h] EXCEPT !.at = step]
<1>1. JobOK(job[h]) /\ job[h].at # "idle"
  BY DEF JobsOK, At
<1>2. j \in JobRecord
  BY <1>1 DEF JobOK, JobRecord
<1>3. /\ j.me \in Players /\ j.id \in Players /\ j.me # j.id
      /\ j.at = step /\ j.op = job[h].op /\ j.side = job[h].side
  BY <1>1 DEF JobOK, JobRecord
<1>4. JobOK(j)
  BY <1>1, <1>2, <1>3 DEF JobOK, Seeing
<1> QED
  BY <1>4 DEF JobsOK, Goto

LEMMA BeginTyped ==
  ASSUME JobsOK, NEW h \in Handlers, NEW p \in Players, NEW q \in Players,
         NEW op \in Requests, NEW step \in Steps \ ({"idle"} \cup Seeing),
         Begin(h, op, p, q, step, None),
         OpAt(op, step), op # "confirm"
  PROVE  JobsOK'
<1> DEFINE j == [Idle EXCEPT !.op = op, !.at = step, !.me = p, !.id = q, !.side = "there",
                             !.seen = None]
<1>1. Idle \in JobRecord
  BY IdleIsOK DEF JobOK
<1>2. /\ j \in JobRecord
      /\ j.op = op /\ j.at = step /\ j.me = p /\ j.id = q /\ j.side = "there"
  BY <1>1 DEF JobRecord
<1>3. JobOK(j)
  BY <1>2 DEF JobOK, Begin, Seeing
<1> QED
  BY <1>3 DEF JobsOK, Begin

\* What a step uses of the job of its handler.
LEMMA JobFacts ==
  ASSUME JobsOK, NEW h \in Handlers, ~ At(h, "idle")
  PROVE  /\ Me(h) \in Players /\ Id(h) \in Players /\ Me(h) # Id(h)
         /\ Owner(h) \in Players /\ Peer(h) \in Players /\ Owner(h) # Peer(h)
         /\ OpAt(job[h].op, job[h].at)
         /\ At(h, "message") \/ At(h, "append") \/ At(h, "undo") => job[h].seen \in Ids
         /\ At(h, "erase") => job[h].seen \in Seq(Ids)
         /\ At(h, "store_first") \/ At(h, "store") \/ At(h, "stamp") => job[h].seen \in BOOLEAN
BY DEF JobsOK, JobOK, Me, Id, Owner, Peer, At, Storing

LEMMA NextIdIsId ==
  /\ NextId(None) \in Ids
  /\ \A d \in Box : NextId(d) \in Ids
<1>1. 1 \in Ids
  BY DEF Ids, FriendsAssumption
<1>2. ASSUME NEW d \in Box PROVE (d.cur % MaxUnread) + 1 \in Ids
  <2>1. d.cur \in Nat /\ MaxUnread \in Nat \ {0}
    BY DEF Box, FriendsAssumption
  <2>2. d.cur % MaxUnread \in 0..(MaxUnread - 1)
    BY <2>1
  <2> QED
    BY <2>1, <2>2 DEF Ids
<1> QED
  BY <1>1, <1>2 DEF NextId

\* A job whose handler has seen an id goes to a step of a chat.
LEMMA SeenTyped ==
  ASSUME JobsOK, NEW h \in Handlers, job[h].op = "chat", ~ At(h, "idle"),
         NEW step \in {"message", "append", "undo"}, NEW id \in Ids,
         job' = [job EXCEPT ![h].at = step, ![h].seen = id]
  PROVE  JobsOK'
<1> DEFINE j == [job[h] EXCEPT !.at = step, !.seen = id]
<1>1. JobOK(job[h]) /\ job[h].at # "idle"
  BY DEF JobsOK, At
<1>2. /\ j \in JobRecord
      /\ j.op = "chat" /\ j.at = step /\ j.me = job[h].me /\ j.id = job[h].id /\ j.seen = id
  BY <1>1 DEF JobOK, JobRecord, Steps
<1>3. JobOK(j)
  BY <1>1, <1>2 DEF JobOK, OpAt, Storing
<1>4. job' = [job EXCEPT ![h] = j]
  BY <1>1 DEF JobOK, JobRecord
<1> QED
  BY <1>3, <1>4 DEF JobsOK

\* A job that has seen an id goes to another step of its chat.
LEMMA SameStepSeen ==
  ASSUME JobsOK, NEW h \in Handlers, job[h].op = "chat", ~ At(h, "idle"),
         NEW step \in {"append", "undo"}, job[h].seen \in Ids, Goto(h, step)
  PROVE  JobsOK'
<1> DEFINE j == [job[h] EXCEPT !.at = step]
<1>1. JobOK(job[h]) /\ job[h].at # "idle"
  BY DEF JobsOK, At
<1>2. /\ j \in JobRecord /\ j.op = "chat" /\ j.at = step /\ j.me = job[h].me
      /\ j.id = job[h].id /\ j.seen = job[h].seen
  BY <1>1 DEF JobOK, JobRecord, Steps
<1>3. JobOK(j)
  BY <1>1, <1>2 DEF JobOK, OpAt, Storing
<1> QED
  BY <1>3 DEF JobsOK, Goto

\* A gift whose time has been read goes to a step that stores it.
LEMMA StoringTyped ==
  ASSUME JobsOK, NEW h \in Handlers, job[h].op = "give", ~ At(h, "idle"),
         NEW step \in Storing, NEW t \in BOOLEAN,
         job' = [job EXCEPT ![h].at = step, ![h].seen = t]
  PROVE  JobsOK'
<1> DEFINE j == [job[h] EXCEPT !.at = step, !.seen = t]
<1>1. JobOK(job[h]) /\ job[h].at # "idle"
  BY DEF JobsOK, At
<1>2. /\ j \in JobRecord
      /\ j.op = "give" /\ j.at = step /\ j.me = job[h].me /\ j.id = job[h].id /\ j.seen = t
  BY <1>1 DEF JobOK, JobRecord, Steps, Storing
<1>3. JobOK(j)
  BY <1>1, <1>2 DEF JobOK, OpAt, Storing
<1>4. job' = [job EXCEPT ![h] = j]
  BY <1>1 DEF JobOK, JobRecord
<1> QED
  BY <1>3, <1>4 DEF JobsOK

\* A gift whose time has been read goes from one step that stores it to another.
LEMMA StillStoringTyped ==
  ASSUME JobsOK, NEW h \in Handlers, job[h].op = "give", job[h].at \in Storing,
         NEW step \in Storing, Goto(h, step)
  PROVE  JobsOK'
<1> DEFINE j == [job[h] EXCEPT !.at = step]
<1>1. JobOK(job[h]) /\ job[h].at # "idle" /\ job[h].seen \in BOOLEAN
  BY DEF JobsOK, JobOK, Storing
<1>2. /\ j \in JobRecord /\ j.op = "give" /\ j.at = step /\ j.me = job[h].me
      /\ j.id = job[h].id /\ j.seen = job[h].seen
  BY <1>1 DEF JobOK, JobRecord, Steps, Storing
<1>3. JobOK(j)
  BY <1>1, <1>2 DEF JobOK, OpAt, Storing
<1> QED
  BY <1>3 DEF JobsOK, Goto

-----------------------------------------------------------------------------
(* Type correctness. *)

\* Requests of friendship, and agreements.
LEMMA FriendshipTyped ==
  ASSUME DataOK, JobsOK, NEW h \in Handlers,
         \/ LookAtFriends(h) \/ CheckAndAdd(h) \/ AddToOther(h) \/ AddToOwn(h) \/ RemoveReq(h)
         \/ \E p, q \in Players : \/ AddFriend(h, p, q) \/ AgreeAddFriend(h, p, q)
                                   \/ RefuseAddFriend(h, p, q)
  PROVE  DataOK' /\ JobsOK'
<1>1. CASE LookAtFriends(h)
  <2>1. OpAt(job[h].op, "request") /\ ~ At(h, "idle")
    BY <1>1, JobFacts DEF LookAtFriends, OpAt, At
  <2>2. JobsOK'
    BY <1>1, <2>1, DoneTyped, GotoTyped DEF LookAtFriends, Steps, Seeing, Storing
  <2> QED
    BY <1>1, <2>2 DEF LookAtFriends, data, DataOK
<1>2. CASE CheckAndAdd(h)
  <2>1. Me(h) \in Players
    BY <1>2, JobFacts DEF CheckAndAdd, At
  <2> QED
    BY <1>2, <2>1, DoneTyped DEF CheckAndAdd, DataOK
<1>3. CASE AddToOther(h)
  <2>1. OpAt(job[h].op, "befriend_own") /\ ~ At(h, "idle") /\ Me(h) \in Players
    BY <1>3, JobFacts DEF AddToOther, OpAt, At
  <2>2. JobsOK'
    BY <1>3, <2>1, DoneTyped, GotoTyped DEF AddToOther, Return, Steps, Seeing, Storing
  <2> QED
    BY <1>3, <2>1, <2>2 DEF AddToOther, DataOK
<1>4. CASE AddToOwn(h)
  <2>1. OpAt(job[h].op, "unrequest") /\ ~ At(h, "idle") /\ Id(h) \in Players
    BY <1>4, JobFacts DEF AddToOwn, OpAt, At
  <2>2. JobsOK'
    BY <1>4, <2>1, GotoTyped DEF AddToOwn, Steps, Seeing, Storing
  <2> QED
    BY <1>4, <2>1, <2>2 DEF AddToOwn, DataOK
<1>5. CASE RemoveReq(h)
  BY <1>5, DoneTyped DEF RemoveReq, DataOK
<1>6. ASSUME NEW p \in Players, NEW q \in Players,
             AddFriend(h, p, q) \/ AgreeAddFriend(h, p, q) \/ RefuseAddFriend(h, p, q)
      PROVE  DataOK' /\ JobsOK'
  <2>1. JobsOK'
    BY <1>6, BeginTyped
    DEF AddFriend, AgreeAddFriend, RefuseAddFriend, Steps, Seeing, Storing, Requests, OpAt
  <2> QED
    BY <1>6, <2>1 DEF AddFriend, AgreeAddFriend, RefuseAddFriend, data, DataOK
<1> QED
  BY <1>1, <1>2, <1>3, <1>4, <1>5, <1>6

\* The removal of a friend.
LEMMA RemovalTyped ==
  ASSUME DataOK, JobsOK, NEW h \in Handlers,
         \/ ForgetFriend(h) \/ GetMessageIds(h) \/ RemoveMessages(h) \/ RemoveIds(h)
         \/ \E p, q \in Players : RemoveFriend(h, p, q)
  PROVE  DataOK' /\ JobsOK'
<1>1. ASSUME SideDone(h), ~ At(h, "idle"), job[h].op = "remove" PROVE JobsOK'
  <2>1. CASE Done(h)
    BY <2>1, DoneTyped
  <2>2. CASE job' = [job EXCEPT ![h].side = "own", ![h].at = "forget", ![h].seen = None]
    <3> DEFINE j == [job[h] EXCEPT !.side = "own", !.at = "forget", !.seen = None]
    <3>1. JobOK(job[h]) /\ job[h].at # "idle"
      BY <1>1 DEF JobsOK, At
    <3>2. /\ j \in JobRecord /\ j.op = "remove" /\ j.at = "forget"
          /\ j.me = job[h].me /\ j.id = job[h].id
      BY <1>1, <3>1 DEF JobOK, JobRecord, Steps
    <3>3. JobOK(j)
      BY <3>1, <3>2 DEF JobOK, OpAt, Storing
    <3>4. job' = [job EXCEPT ![h] = j]
      BY <2>2, <3>1 DEF JobOK, JobRecord
    <3> QED
      BY <3>3, <3>4 DEF JobsOK
  <2> QED
    BY <1>1, <2>1, <2>2 DEF SideDone
<1>2. CASE ForgetFriend(h)
  <2>1. OpAt(job[h].op, "ids") /\ ~ At(h, "idle") /\ Owner(h) \in Players /\ Peer(h) \in Players
    BY <1>2, JobFacts DEF ForgetFriend, OpAt, At
  <2>2. JobsOK'
    BY <1>2, <2>1, GotoTyped DEF ForgetFriend, Steps, Seeing, Storing
  <2>3. points' \in [Players -> [Players -> {None} \cup GiftRecord]]
    BY <1>2, <2>1 DEF ForgetFriend, DataOK
  <2> QED
    BY <1>2, <2>1, <2>2, <2>3 DEF ForgetFriend, DataOK
<1>3. CASE GetMessageIds(h)
  <2> DEFINE d == unread[Owner(h)][Peer(h)]
  <2>1. /\ job[h].op = "remove" /\ ~ At(h, "idle")
        /\ Owner(h) \in Players /\ Peer(h) \in Players
    BY <1>3, JobFacts DEF GetMessageIds, OpAt, At
  <2>2. CASE SideDone(h)
    BY <1>1, <1>3, <2>1, <2>2 DEF GetMessageIds, data, DataOK
  <2>3. CASE d # None /\ job' = [job EXCEPT ![h].at = "erase", ![h].seen = d.ids]
    <3> DEFINE j == [job[h] EXCEPT !.at = "erase", !.seen = d.ids]
    <3>1. JobOK(job[h]) /\ job[h].at # "idle"
      BY <2>1 DEF JobsOK, At
    <3>2. d.ids \in Seq(Ids)
      BY <2>1, <2>3 DEF DataOK, Box
    <3>3. /\ j \in JobRecord /\ j.op = "remove" /\ j.at = "erase" /\ j.seen = d.ids
          /\ j.me = job[h].me /\ j.id = job[h].id
      BY <2>1, <3>1, <3>2 DEF JobOK, JobRecord, Steps
    <3>4. JobOK(j)
      BY <3>1, <3>2, <3>3 DEF JobOK, OpAt, Storing
    <3>5. job' = [job EXCEPT ![h] = j]
      BY <2>3, <3>1 DEF JobOK, JobRecord
    <3>6. JobsOK'
      BY <3>4, <3>5 DEF JobsOK
    <3> QED
      BY <1>3, <3>6 DEF GetMessageIds, data, DataOK
  <2> QED
    BY <1>3, <2>2, <2>3 DEF GetMessageIds
<1>4. CASE RemoveMessages(h)
  <2>1. ~ At(h, "idle")
    BY <1>4 DEF RemoveMessages, At
  <2>2. JobsOK'
    <3>1. CASE job[h].op = "confirm"
      BY <1>4, <3>1, DoneTyped DEF RemoveMessages
    <3>2. CASE job[h].op # "confirm"
      <4>1. OpAt(job[h].op, "drop")
        BY <1>4, <2>1, <3>2, JobFacts DEF RemoveMessages, OpAt, At
      <4> QED
        BY <1>4, <2>1, <3>2, <4>1, GotoTyped DEF RemoveMessages, Steps, Seeing, Storing
    <3> QED
      BY <3>1, <3>2
  <2>3. \A p \in Players : Erased(messages[p], Peer(h), job[h].seen) \subseteq messages[p]
    BY DEF Erased
  <2> QED
    BY <1>4, <2>2, <2>3 DEF RemoveMessages, DataOK
<1>5. CASE RemoveIds(h)
  <2>1. job[h].op = "remove" /\ ~ At(h, "idle") /\ Owner(h) \in Players /\ Peer(h) \in Players
    BY <1>5, JobFacts DEF RemoveIds, OpAt, At
  <2> QED
    BY <1>1, <1>5, <2>1 DEF RemoveIds, DataOK
<1>6. ASSUME NEW p \in Players, NEW q \in Players, RemoveFriend(h, p, q)
      PROVE  DataOK' /\ JobsOK'
  <2>1. JobsOK'
    BY <1>6, BeginTyped DEF RemoveFriend, Steps, Seeing, Storing, Requests, OpAt
  <2> QED
    BY <1>6, <2>1 DEF RemoveFriend, data, DataOK
<1> QED
  BY <1>2, <1>3, <1>4, <1>5, <1>6

\* Gifts of points, and the new day.
LEMMA PointsTyped ==
  ASSUME DataOK, JobsOK, NEW h \in Handlers,
         \/ LookAtLastGive(h) \/ StoreFirstGift(h) \/ StoreGift(h) \/ SetLastGiveTime(h)
         \/ IncbyGiveNumToday(h) \/ AddFriendPoints(h) \/ SetGivePoints(h)
         \/ \E p, q \in Players : GiveFriendPoints(h, p, q) \/ GetFriendPoints(h, p, q)
  PROVE  DataOK' /\ JobsOK'
<1>1. CASE LookAtLastGive(h)
  <2>1. job[h].op = "give" /\ OpAt(job[h].op, "give_num") /\ ~ At(h, "idle")
    BY <1>1, JobFacts DEF LookAtLastGive, OpAt, At
  <2>2. \/ Done(h) \/ Goto(h, "give_num")
        \/ \E step \in Storing : job' = [job EXCEPT ![h].at = step, ![h].seen = TRUE]
    BY <1>1 DEF LookAtLastGive, Storing
  <2>3. JobsOK'
    BY <2>1, <2>2, DoneTyped, GotoTyped, StoringTyped DEF Steps, Seeing, Storing
  <2> QED
    BY <1>1, <2>3 DEF LookAtLastGive, data, DataOK
<1>2. CASE StoreFirstGift(h)
  <2>1. /\ OpAt(job[h].op, "give_num") /\ ~ At(h, "idle") /\ job[h].seen \in BOOLEAN
        /\ Me(h) \in Players /\ Id(h) \in Players
    BY <1>2, JobFacts DEF StoreFirstGift, OpAt, At
  <2>2. JobsOK'
    BY <1>2, <2>1, GotoTyped DEF StoreFirstGift, Steps, Seeing, Storing
  <2>3. [gift |-> 1, today |-> job[h].seen] \in GiftRecord
    BY <2>1 DEF GiftRecord
  <2> DEFINE g == [gift |-> 1, today |-> job[h].seen]
  <2>4. \/ UNCHANGED <<points, claims>>
        \/ /\ points' = [points EXCEPT ![Id(h)][Me(h)] = g]
           /\ claims' = [claims EXCEPT ![Id(h)][Me(h)] = 0]
    BY <1>2 DEF StoreFirstGift
  <2>5. points' \in [Players -> [Players -> {None} \cup GiftRecord]]
    <3> HIDE DEF g
    <3>1. [points EXCEPT ![Id(h)][Me(h)] = g] \in [Players -> [Players -> {None} \cup GiftRecord]]
      BY <2>1, <2>3, EntryTyped DEF g
    <3> QED
      BY <2>4, <3>1 DEF DataOK
  <2>6. claims' \in [Players -> [Players -> Nat]]
    <3>1. UNCHANGED claims \/ claims' = [claims EXCEPT ![Id(h)][Me(h)] = 0]
      BY <2>4
    <3>2. [claims EXCEPT ![Id(h)][Me(h)] = 0] \in [Players -> [Players -> Nat]]
      BY <2>1, UncollectedTyped
    <3> QED
      BY <3>1, <3>2 DEF DataOK
  <2> QED
    BY <1>2, <2>2, <2>5, <2>6 DEF StoreFirstGift, DataOK
<1>3. CASE StoreGift(h)
  <2>1. /\ job[h].op = "give" /\ job[h].at = "store"
        /\ Me(h) \in Players /\ Id(h) \in Players
    BY <1>3, JobFacts DEF StoreGift, OpAt, At
  <2>2. JobsOK'
    BY <1>3, <2>1, StillStoringTyped DEF StoreGift, Storing
  <2> DEFINE g == points[Id(h)][Me(h)]
  <2> DEFINE full == [g EXCEPT !.gift = 1]
  <2>3. g # None => full \in GiftRecord
    <3>1. g # None => g \in GiftRecord
      BY <2>1 DEF DataOK
    <3> QED
      BY <3>1, GiftUpdates
  <2>4. \/ UNCHANGED <<points, claims>>
        \/ /\ g # None
           /\ points' = [points EXCEPT ![Id(h)][Me(h)].gift = 1]
           /\ claims' = [claims EXCEPT ![Id(h)][Me(h)] = 0]
    BY <1>3 DEF StoreGift
  <2>5. \/ UNCHANGED <<points, claims>>
        \/ /\ g # None
           /\ points' = [points EXCEPT ![Id(h)][Me(h)] = full]
           /\ claims' = [claims EXCEPT ![Id(h)][Me(h)] = 0]
    BY <2>1, <2>4 DEF DataOK
  <2>6. points' \in [Players -> [Players -> {None} \cup GiftRecord]]
    <3> HIDE DEF full
    <3>1. g # None => [points EXCEPT ![Id(h)][Me(h)] = full]
                        \in [Players -> [Players -> {None} \cup GiftRecord]]
      BY <2>1, <2>3, EntryTyped DEF full
    <3> QED
      BY <2>5, <3>1 DEF DataOK
  <2>7. claims' \in [Players -> [Players -> Nat]]
    <3>1. UNCHANGED claims \/ claims' = [claims EXCEPT ![Id(h)][Me(h)] = 0]
      BY <2>5
    <3>2. [claims EXCEPT ![Id(h)][Me(h)] = 0] \in [Players -> [Players -> Nat]]
      BY <2>1, UncollectedTyped
    <3> QED
      BY <3>1, <3>2 DEF DataOK
  <2> QED
    BY <1>3, <2>2, <2>6, <2>7 DEF StoreGift, DataOK
<1>4. CASE SetLastGiveTime(h)
  <2>1. /\ OpAt(job[h].op, "give_num") /\ ~ At(h, "idle") /\ job[h].seen \in BOOLEAN
        /\ Me(h) \in Players /\ Id(h) \in Players
    BY <1>4, JobFacts DEF SetLastGiveTime, OpAt, At
  <2>2. JobsOK'
    BY <1>4, <2>1, GotoTyped DEF SetLastGiveTime, Steps, Seeing, Storing
  <2> DEFINE g == points[Id(h)][Me(h)]
             t == job[h].seen
  <2> DEFINE stamped == [g EXCEPT !.today = t]
  <2>3. g # None => stamped \in GiftRecord
    <3>1. g # None => g \in GiftRecord
      BY <2>1 DEF DataOK
    <3> QED
      BY <2>1, <3>1, GiftUpdates
  <2>4. \/ UNCHANGED points
        \/ g # None /\ points' = [points EXCEPT ![Id(h)][Me(h)].today = t]
    BY <1>4 DEF SetLastGiveTime
  <2>5. points' \in [Players -> [Players -> {None} \cup GiftRecord]]
    <3>1. \/ UNCHANGED points
          \/ g # None /\ points' = [points EXCEPT ![Id(h)][Me(h)] = stamped]
      <4> HIDE DEF t
      <4>1. points \in [Players -> [Players -> {None} \cup GiftRecord]]
        BY DEF DataOK
      <4> QED
        BY <2>1, <2>4, <4>1
    <3> HIDE DEF stamped
    <3>2. g # None => [points EXCEPT ![Id(h)][Me(h)] = stamped]
                        \in [Players -> [Players -> {None} \cup GiftRecord]]
      BY <2>1, <2>3, EntryTyped
    <3> QED
      BY <3>1, <3>2 DEF DataOK
  <2> QED
    BY <1>4, <2>2, <2>5 DEF SetLastGiveTime, DataOK
<1>5. CASE IncbyGiveNumToday(h)
  <2>1. Me(h) \in Players
    BY <1>5, JobFacts DEF IncbyGiveNumToday, At
  <2> QED
    BY <1>5, <2>1, DoneTyped DEF IncbyGiveNumToday, DataOK
<1>6. CASE AddFriendPoints(h)
  <2>1. OpAt(job[h].op, "empty") /\ ~ At(h, "idle") /\ Me(h) \in Players /\ Id(h) \in Players
    BY <1>6, JobFacts DEF AddFriendPoints, OpAt, At
  <2>2. JobsOK'
    BY <1>6, <2>1, GotoTyped DEF AddFriendPoints, Steps, Seeing, Storing
  <2>3. claims' \in [Players -> [Players -> Nat]]
    BY <1>6, <2>1 DEF AddFriendPoints, DataOK
  <2> QED
    BY <1>6, <2>2, <2>3 DEF AddFriendPoints, data, DataOK
<1>7. CASE SetGivePoints(h)
  <2>1. Me(h) \in Players /\ Id(h) \in Players
    BY <1>7, JobFacts DEF SetGivePoints, At
  <2>2. points[Me(h)][Id(h)] # None => [points[Me(h)][Id(h)] EXCEPT !.gift = 0] \in GiftRecord
    <3>1. points[Me(h)][Id(h)] # None => points[Me(h)][Id(h)] \in GiftRecord
      BY <2>1 DEF DataOK
    <3> QED
      BY <3>1, GiftUpdates
  <2>3. points' \in [Players -> [Players -> {None} \cup GiftRecord]]
    BY <1>7, <2>1, <2>2 DEF SetGivePoints, DataOK
  <2> QED
    BY <1>7, <2>3, DoneTyped DEF SetGivePoints, DataOK
<1>8. ASSUME NEW p \in Players, NEW q \in Players,
             GiveFriendPoints(h, p, q) \/ GetFriendPoints(h, p, q)
      PROVE  DataOK' /\ JobsOK'
  <2>1. JobsOK'
    BY <1>8, BeginTyped
    DEF GiveFriendPoints, GetFriendPoints, Steps, Seeing, Storing, Requests, OpAt
  <2>2. gives' \in [Players -> Nat]
    <3>1. gives' = [gives EXCEPT ![p] = IF fresh[p] THEN @ ELSE 0]
      BY <1>8 DEF GiveFriendPoints, GetFriendPoints, Refresh
    <3> QED
      BY <3>1 DEF DataOK
  <2>3. fresh' \in [Players -> BOOLEAN]
    <3>1. fresh' = [fresh EXCEPT ![p] = TRUE]
      BY <1>8 DEF GiveFriendPoints, GetFriendPoints, Refresh
    <3> QED
      BY <3>1 DEF DataOK
  <2> QED
    BY <1>8, <2>1, <2>2, <2>3 DEF GiveFriendPoints, GetFriendPoints, DataOK
<1> QED
  BY <1>1, <1>2, <1>3, <1>4, <1>5, <1>6, <1>7, <1>8

\* The new day makes the time of a gift that is being stored one of yesterday.
LEMMA NewDayJobs ==
  ASSUME JobsOK, NewDay, NEW h \in Handlers
  PROVE  /\ job'[h] = job[h] \/ job[h].at \in Storing
         /\ job'[h].op = job[h].op /\ job'[h].at = job[h].at /\ job'[h].side = job[h].side
         /\ job'[h].me = job[h].me /\ job'[h].id = job[h].id /\ job'[h].cut = job[h].cut
         /\ JobOK(job'[h])
<1> DEFINE j == [job[h] EXCEPT !.seen = FALSE]
<1>1. job'[h] = job[h] \/ (job[h].at \in Storing /\ job'[h] = j)
  <2>1. job'[h] = IF job[h].at \in Storing THEN j ELSE job[h]
    BY DEF NewDay, Storing
  <2> HIDE DEF j
  <2> QED
    BY <2>1
<1>2. JobOK(job[h])
  BY DEF JobsOK
<1>3. /\ j \in JobRecord /\ j.op = job[h].op /\ j.at = job[h].at /\ j.side = job[h].side
      /\ j.me = job[h].me /\ j.id = job[h].id /\ j.cut = job[h].cut /\ j.seen = FALSE
  BY <1>2 DEF JobOK, JobRecord
<1>4. job[h].at \in Storing => JobOK(j)
  BY <1>2, <1>3 DEF JobOK, Storing
<1> QED
  BY <1>1, <1>2, <1>3, <1>4

LEMMA NewDayTyped ==
  ASSUME DataOK, JobsOK, NewDay
  PROVE  DataOK' /\ JobsOK'
<1>1. \A p, q \in Players :
        points[p][q] # None => [points[p][q] EXCEPT !.today = FALSE] \in GiftRecord
  <2>1. \A p, q \in Players : points[p][q] # None => points[p][q] \in GiftRecord
    BY DEF DataOK
  <2> QED
    BY <2>1, GiftUpdates
<1>2. points' \in [Players -> [Players -> {None} \cup GiftRecord]]
  BY <1>1 DEF NewDay
<1>3. fresh' \in [Players -> BOOLEAN]
  BY DEF NewDay
<1>4. JobsOK'
  <2>1. job' = [h \in Handlers |-> job'[h]]
    BY DEF NewDay
  <2> QED
    BY <2>1, NewDayJobs DEF JobsOK
<1> QED
  BY <1>2, <1>3, <1>4 DEF NewDay, DataOK

\* Chats, and confirmations.
LEMMA ChatTyped ==
  ASSUME DataOK, JobsOK, NEW h \in Handlers,
         \/ CheckUnreadNumFull(h) \/ AddMessage(h) \/ AddNewMessageId(h) \/ UndoMessage(h)
         \/ \E p, q \in Players : FriendChat(h, p, q) \/ ConfirmUnread(h, p, q)
  PROVE  DataOK' /\ JobsOK'
<1>1. CASE CheckUnreadNumFull(h)
  <2> DEFINE d == unread[Id(h)][Me(h)]
  <2>1. /\ job[h].op = "chat" /\ ~ At(h, "idle") /\ Me(h) \in Players /\ Id(h) \in Players
    BY <1>1, JobFacts DEF CheckUnreadNumFull, OpAt, At
  <2>2. d \in {None} \cup Box
    BY <2>1 DEF DataOK
  <2>3. NextId(d) \in Ids
    BY <2>2, NextIdIsId
  <2>4. JobsOK'
    BY <1>1, <2>1, <2>3, DoneTyped, SeenTyped DEF CheckUnreadNumFull
  <2>5. d # None => [d EXCEPT !.cur = NextId(d)] \in Box
    BY <2>2, <2>3 DEF Box, Ids, FriendsAssumption
  <2>6. unread' \in [Players -> [Players -> {None} \cup Box]]
    <3>1. CASE d # None /\ unread' = [unread EXCEPT ![Id(h)][Me(h)].cur = NextId(d)]
      <4>1. unread' = [unread EXCEPT ![Id(h)] =
                         [unread[Id(h)] EXCEPT ![Me(h)] = [d EXCEPT !.cur = NextId(d)]]]
        BY <3>1
      <4>2. [unread[Id(h)] EXCEPT ![Me(h)] = [d EXCEPT !.cur = NextId(d)]]
              \in [Players -> {None} \cup Box]
        BY <2>1, <2>5, <3>1 DEF DataOK
      <4> QED
        BY <2>1, <4>1, <4>2 DEF DataOK
    <3>2. CASE UNCHANGED unread
      BY <3>2 DEF DataOK
    <3> QED
      BY <1>1, <3>1, <3>2 DEF CheckUnreadNumFull
  <2> QED
    BY <1>1, <2>4, <2>6 DEF CheckUnreadNumFull, DataOK
<1>2. CASE AddMessage(h)
  <2>1. /\ job[h].op = "chat" /\ ~ At(h, "idle") /\ Me(h) \in Players /\ Id(h) \in Players
        /\ job[h].seen \in Ids
    BY <1>2, JobFacts DEF AddMessage, OpAt, At
  <2>2. JobsOK'
    <3>1. CASE Done(h)
      BY <3>1, DoneTyped
    <3>2. CASE Goto(h, "append")
      BY <2>1, <3>2, SameStepSeen
    <3> QED
      BY <1>2, <3>1, <3>2 DEF AddMessage
  <2> QED
    BY <1>2, <2>1, <2>2 DEF AddMessage, DataOK
<1>3. CASE AddNewMessageId(h)
  <2> DEFINE d == unread[Id(h)][Me(h)]
  <2>1. /\ job[h].op = "chat" /\ ~ At(h, "idle") /\ Me(h) \in Players /\ Id(h) \in Players
        /\ job[h].seen \in Ids
    BY <1>3, JobFacts DEF AddNewMessageId, OpAt, At
  <2>2. d \in {None} \cup Box
    BY <2>1 DEF DataOK
  <2>3. CASE Goto(h, "undo") /\ UNCHANGED unread
    BY <1>3, <2>1, <2>3, SameStepSeen DEF AddNewMessageId, DataOK
  <2>4. CASE /\ d = None \/ Len(d.ids) < MaxUnread
             /\ Done(h)
             /\ unread' = [unread EXCEPT ![Id(h)][Me(h)] =
                   IF d = None THEN [cur |-> 0, ids |-> <<job[h].seen>>]
                   ELSE [d EXCEPT !.ids = Append(@, job[h].seen)]]
    <3>1. [cur |-> 0, ids |-> <<job[h].seen>>] \in Box
      <4>1. <<job[h].seen>> \in Seq(Ids) /\ Len(<<job[h].seen>>) = 1
        BY <2>1
      <4>2. 0 \in 0..MaxUnread /\ 1 <= MaxUnread
        BY DEF FriendsAssumption
      <4>3. [cur |-> 0, ids |-> <<job[h].seen>>] \in [cur : 0..MaxUnread, ids : Seq(Ids)]
        BY <4>1, <4>2
      <4> QED
        BY <4>1, <4>2, <4>3 DEF Box
    <3>2. d # None => [d EXCEPT !.ids = Append(@, job[h].seen)] \in Box
      <4> SUFFICES ASSUME d # None
                   PROVE  [d EXCEPT !.ids = Append(@, job[h].seen)] \in Box
        OBVIOUS
      <4>1. d.ids \in Seq(Ids) /\ Len(d.ids) < MaxUnread /\ d \in Box
        BY <2>2, <2>4 DEF Box
      <4>2. /\ Append(d.ids, job[h].seen) \in Seq(Ids)
            /\ Len(Append(d.ids, job[h].seen)) <= MaxUnread
        BY <2>1, <4>1 DEF FriendsAssumption
      <4> QED
        BY <4>1, <4>2 DEF Box
    <3>3. unread' \in [Players -> [Players -> {None} \cup Box]]
      BY <2>1, <2>4, <3>1, <3>2 DEF DataOK
    <3> QED
      BY <1>3, <2>4, <3>3, DoneTyped DEF AddNewMessageId, DataOK
  <2>5. d # None => Len(d.ids) \in Nat /\ MaxUnread \in Nat
    BY <2>2 DEF Box, FriendsAssumption
  <2> QED
    BY <1>3, <2>3, <2>4, <2>5 DEF AddNewMessageId
<1>4. CASE UndoMessage(h)
  BY <1>4, DoneTyped DEF UndoMessage, DataOK
<1>5. ASSUME NEW p \in Players, NEW q \in Players, FriendChat(h, p, q)
      PROVE  DataOK' /\ JobsOK'
  <2>1. JobsOK'
    BY <1>5, BeginTyped DEF FriendChat, Steps, Seeing, Storing, Requests, OpAt
  <2> QED
    BY <1>5, <2>1 DEF FriendChat, data, DataOK
<1>6. ASSUME NEW p \in Players, NEW q \in Players, ConfirmUnread(h, p, q)
      PROVE  DataOK' /\ JobsOK'
  <2> DEFINE d == unread[p][q]
             all(n) == n = 0 \/ Len(d.ids) <= n
             gone(n) == IF all(n) THEN d.ids ELSE SubSeq(d.ids, 1, n)
             left(n) == IF all(n) THEN <<>> ELSE SubSeq(d.ids, n + 1, Len(d.ids))
  <2>0. d # None /\ p # q /\ job[h].at = "idle"
    BY <1>6 DEF ConfirmUnread, At
  <2>1. d \in Box /\ p # q /\ job[h].at = "idle"
    BY <2>0 DEF DataOK
  <2>2. d.ids \in Seq(Ids) /\ Len(d.ids) <= MaxUnread
    BY <2>1 DEF Box
  <2>3. PICK n \in 0..MaxUnread :
          /\ unread' = [unread EXCEPT ![p][q].ids = left(n)]
          /\ job' = [job EXCEPT ![h] = IF gone(n) = <<>> THEN Idle ELSE
                       [Idle EXCEPT !.op = "confirm", !.at = "erase", !.me = p, !.id = q,
                                    !.seen = gone(n)]]
    BY <1>6 DEF ConfirmUnread
  <2>4. gone(n) \in Seq(Ids)
    BY <2>2, <2>3
  <2>5. left(n) \in Seq(Ids) /\ Len(left(n)) <= MaxUnread
    BY <2>2, <2>3 DEF FriendsAssumption
  <2>6. [d EXCEPT !.ids = left(n)] \in Box
    BY <2>1, <2>5 DEF Box
  <2>7. unread' \in [Players -> [Players -> {None} \cup Box]]
    BY <2>3, <2>6 DEF DataOK
  <2>8. JobsOK'
    <3> DEFINE j == [Idle EXCEPT !.op = "confirm", !.at = "erase", !.me = p, !.id = q,
                                 !.seen = gone(n)]
    <3>1. Idle \in JobRecord
      BY IdleIsOK DEF JobOK
    <3>2. /\ j \in JobRecord /\ j.op = "confirm" /\ j.at = "erase" /\ j.me = p /\ j.id = q
          /\ j.seen = gone(n) /\ j.side = Idle.side
      BY <2>4, <3>1 DEF JobRecord, Requests, Steps
    <3>3. Idle.side = "own"
      BY DEF Idle
    <3>4. JobOK(j)
      BY <2>1, <2>4, <3>2, <3>3 DEF JobOK, OpAt, Storing
    <3> QED
      BY <2>3, <3>4, IdleIsOK DEF JobsOK
  <2> QED
    BY <1>6, <2>7, <2>8 DEF ConfirmUnread, DataOK
<1> QED
  BY <1>1, <1>2, <1>3, <1>4, <1>5, <1>6

\* A call that fails.
LEMMA CallFailsTyped ==
  ASSUME DataOK, JobsOK, NEW h \in Handlers, CallFails(h)
  PROVE  DataOK' /\ JobsOK'
<1>1. ~ At(h, "idle")
  BY DEF CallFails, There, FirstThere, At
<1>2. CASE job' = [job EXCEPT ![h].cut = TRUE]
  <2> DEFINE j == [job[h] EXCEPT !.cut = TRUE]
  <2>1. JobOK(job[h]) /\ job[h].at # "idle"
    BY <1>1 DEF JobsOK, At
  <2>2. /\ j \in JobRecord /\ j.op = job[h].op /\ j.at = job[h].at /\ j.me = job[h].me
        /\ j.id = job[h].id /\ j.seen = job[h].seen /\ j.side = job[h].side
    BY <2>1 DEF JobOK, JobRecord
  <2>3. JobOK(j)
    BY <2>1, <2>2 DEF JobOK
  <2>4. job' = [job EXCEPT ![h] = j]
    BY <1>2, <2>1 DEF JobOK, JobRecord
  <2> QED
    BY <2>3, <2>4 DEF JobsOK, CallFails, data, DataOK
<1>3. CASE job[h].op = "give" /\ Goto(h, "give_num")
  <2>1. OpAt(job[h].op, "give_num")
    BY <1>3 DEF OpAt
  <2>2. JobsOK'
    BY <1>1, <1>3, <2>1, GotoTyped DEF Steps, Seeing, Storing
  <2> QED
    BY <2>2 DEF CallFails, data, DataOK
<1>4. CASE Done(h)
  BY <1>4, DoneTyped DEF CallFails, data, DataOK
<1> QED
  BY <1>2, <1>3, <1>4 DEF CallFails

LEMMA TypeInit == Init => TypeInv
<1> SUFFICES ASSUME Init PROVE TypeInv
  OBVIOUS
<1>1. JobsOK
  BY IdleIsOK DEF Init, JobsOK
<1>2. DataOK
  BY DEF Init, DataOK
<1> QED
  BY <1>1, <1>2 DEF Init, TypeInv

LEMMA TypeStep == TypeInv /\ [Next]_vars => TypeInv'
<1> SUFFICES ASSUME TypeInv, [Next]_vars PROVE TypeInv'
  OBVIOUS
<1>1. CASE UNCHANGED vars
  BY <1>1 DEF vars, TypeInv, DataOK, JobsOK
<1>2. CASE Next
  <2>1. DataOK' /\ JobsOK'
    BY <1>2, FriendshipTyped, RemovalTyped, PointsTyped, NewDayTyped, ChatTyped, CallFailsTyped
    DEF Next, Step, Request, TypeInv
  <2>2. Overlap' \subseteq Clashes
    BY DEF Overlap
  <2> QED
    BY <1>2, <2>1, <2>2 DEF Next, TypeInv
<1> QED
  BY <1>1, <1>2

LEMMA TypeInvariant == Spec => []TypeInv
BY TypeInit, TypeStep, PTL DEF Spec

\* Every column holds what its operations can put there, and no box of unread messages ever holds
\* more than FRIEND_UNREAD_MESSAGE_MAX_NUM of them, however many chats find room at once.
THEOREM TypeCorrect == Spec => []TypeOK
<1>1. TypeInv => TypeOK
  BY DEF TypeInv, DataOK, TypeOK, Box, GiftRecord
<1> QED
  BY <1>1, TypeInvariant, PTL

-----------------------------------------------------------------------------
(* What the history variables give. *)

OverlapKept == Overlap \subseteq crossed

LEMMA OverlapInit == Init => OverlapKept
BY DEF Init, OverlapKept, Overlap, Clash, Clashes, Idle

LEMMA OverlapStep == OverlapKept /\ [Next]_vars => OverlapKept'
BY DEF OverlapKept, Next, vars, Overlap

\* The history only grows.
LEMMA HistoryGrows ==
  ASSUME TypeInv, [Next]_vars
  PROVE  crossed \subseteq crossed' /\ (lost => lost')
<1>1. crossed \subseteq crossed'
  BY DEF Next, vars
<1>2. ASSUME NEW h \in Handlers, Step(h) PROVE UNCHANGED lost
  BY <1>2
  DEF Step, LookAtFriends, CheckAndAdd, AddToOther, AddToOwn, RemoveReq, ForgetFriend,
      GetMessageIds, RemoveMessages, RemoveIds, LookAtLastGive, StoreFirstGift, StoreGift,
      SetLastGiveTime, IncbyGiveNumToday, AddFriendPoints, SetGivePoints, CheckUnreadNumFull,
      AddMessage, AddNewMessageId, UndoMessage
<1>3. ASSUME NEW h \in Handlers, NEW p \in Players, NEW q \in Players, Request(h, p, q)
      PROVE  UNCHANGED lost
  BY <1>3
  DEF Request, AddFriend, AgreeAddFriend, RefuseAddFriend, RemoveFriend, GiveFriendPoints,
      GetFriendPoints, FriendChat, ConfirmUnread
<1>4. ASSUME NEW h \in Handlers, CallFails(h) PROVE lost'
  BY <1>4 DEF CallFails
<1>5. NewDay \/ UNCHANGED vars => UNCHANGED lost
  BY DEF NewDay, vars
<1> QED
  BY <1>1, <1>2, <1>3, <1>4, <1>5 DEF Next

\* An agreement and a removal of one pair that have not overlapped are not both under way.
LEMMA NoAgreementInRemoval ==
  ASSUME OverlapKept, <<"agree", "remove">> \notin crossed,
         NEW h \in Handlers, NEW k \in Handlers, job[h].op = "agree", job[k].op = "remove"
  PROVE  {job[h].me, job[h].id} # {job[k].me, job[k].id}
<1> SUFFICES ASSUME {job[h].me, job[h].id} = {job[k].me, job[k].id} PROVE FALSE
  OBVIOUS
<1>1. Clash(job[h], job[k])
  BY DEF Clash, Clashes
<1>2. h # k
  OBVIOUS
<1> QED
  BY <1>1, <1>2, ClashOverlaps DEF OverlapKept

-----------------------------------------------------------------------------
(* Friendship is mutual. *)

\* A removal has been through the row of the other side; and through the own one.
GoneThere(j) == j.op = "remove" /\ (j.side = "own" \/ j.at # "forget")
GoneHere(j) == j.op = "remove" /\ j.side = "own" /\ j.at # "forget"

\* What j does is why q is a friend of p, and p not one of q.
Halfway(j, p, q) ==
  \/ j.at = "befriend_own" /\ j.me = q /\ j.id = p
  \/ GoneThere(j) /\ j.me = p /\ j.id = q

\* Where an agreement or a removal is tells what the two rows hold, as no call has failed.
Agreement ==
  /\ \A h \in Handlers : job[h].cut = FALSE
  /\ \A p, q \in Players : q \in friends[p] /\ p \notin friends[q] =>
       \E h \in Handlers : Halfway(job[h], p, q)
  /\ \A h \in Handlers : job[h].at = "befriend_own" => job[h].me \in friends[job[h].id]
  /\ \A h \in Handlers : GoneThere(job[h]) => job[h].me \notin friends[job[h].id]
  /\ \A h \in Handlers : GoneHere(job[h]) => job[h].id \notin friends[job[h].me]

MutualInv == ~ lost /\ <<"agree", "remove">> \notin crossed => Agreement

\* A step from j to k of a handler that says nothing about friendship.
Neutral(j, k) ==
  /\ k.cut = FALSE
  /\ j.at # "befriend_own" /\ k.at # "befriend_own"
  /\ GoneThere(k) => GoneThere(j) /\ k.me = j.me /\ k.id = j.id
  /\ GoneHere(k) => GoneHere(j)
  /\ GoneThere(j) => GoneHere(j) \/ (GoneThere(k) /\ k.me = j.me /\ k.id = j.id)

LEMMA AgreementKept ==
  ASSUME TypeInv, Agreement, UNCHANGED friends, NEW h \in Handlers, JobsOK',
         \A g \in Handlers : g # h => job'[g] = job[g],
         Neutral(job[h], job'[h])
  PROVE  Agreement'
<1>1. \A g \in Handlers : job'[g].cut = FALSE
  BY DEF Agreement, Neutral
<1>2. ASSUME NEW p \in Players, NEW q \in Players, q \in friends[p], p \notin friends[q]
      PROVE  \E g \in Handlers : Halfway(job'[g], p, q)
  <2>1. PICK g \in Handlers : Halfway(job[g], p, q)
    BY <1>2 DEF Agreement
  <2>2. CASE g # h
    BY <2>1, <2>2
  <2>3. CASE g = h
    <3>1. GoneThere(job[h]) /\ job[h].me = p /\ job[h].id = q
      BY <2>1, <2>3 DEF Halfway, Neutral
    <3>2. ~ GoneHere(job[h])
      BY <1>2, <3>1 DEF Agreement
    <3> QED
      BY <3>1, <3>2 DEF Neutral, Halfway
  <2> QED
    BY <2>2, <2>3
<1>3. \A g \in Handlers : job'[g].at = "befriend_own" => job'[g].me \in friends[job'[g].id]
  BY DEF Agreement, Neutral
<1>4. \A g \in Handlers : GoneThere(job'[g]) => job'[g].me \notin friends[job'[g].id]
  BY DEF Agreement, Neutral
<1>5. \A g \in Handlers : GoneHere(job'[g]) => job'[g].id \notin friends[job'[g].me]
  <2>1. GoneHere(job'[h]) => GoneThere(job'[h])
    BY DEF GoneHere, GoneThere
  <2> QED
    BY <2>1 DEF Agreement, Neutral
<1> QED
  BY <1>1, <1>2, <1>3, <1>4, <1>5 DEF Agreement, Halfway, GoneThere, GoneHere

\* An agreement writes the row of the other side, and the own one.
LEMMA AddToOtherMutual ==
  ASSUME TypeInv, OverlapKept, <<"agree", "remove">> \notin crossed, Agreement, JobsOK',
         NEW h \in Handlers, AddToOther(h)
  PROVE  Agreement'
<1>1. /\ job[h].op = "agree" /\ job[h].me \in Players /\ job[h].id \in Players
      /\ job[h].at = "befriend"
  BY JobFacts DEF AddToOther, OpAt, At, Me, Id, TypeInv
<1>2. /\ friends' = [friends EXCEPT ![job[h].id] = @ \cup {job[h].me}]
      /\ job' = [job EXCEPT ![h].at = "befriend_own"]
  BY DEF AddToOther, Return, Goto, Agreement, Me, Id
<1>3. /\ job'[h].at = "befriend_own" /\ job'[h].me = job[h].me /\ job'[h].id = job[h].id
      /\ job'[h].op = "agree" /\ job'[h].cut = FALSE
      /\ \A g \in Handlers : g # h => job'[g] = job[g]
  BY <1>1, <1>2 DEF TypeInv, JobsOK, JobOK, JobRecord, Agreement
<1>4. \A g \in Handlers : job'[g].cut = FALSE
  BY <1>3 DEF Agreement
<1>5. ASSUME NEW p \in Players, NEW q \in Players, q \in friends'[p], p \notin friends'[q]
      PROVE  \E g \in Handlers : Halfway(job'[g], p, q)
  <2>1. CASE p = job[h].id /\ q = job[h].me
    BY <1>3, <2>1 DEF Halfway
  <2>2. CASE ~ (p = job[h].id /\ q = job[h].me)
    <3>1. q \in friends[p] /\ p \notin friends[q]
      BY <1>1, <1>2, <1>5, <2>2 DEF TypeInv, DataOK
    <3>2. PICK g \in Handlers : Halfway(job[g], p, q)
      BY <3>1 DEF Agreement
    <3>3. g # h
      BY <1>1, <3>2 DEF Halfway, GoneThere
    <3> QED
      BY <1>3, <3>2, <3>3
  <2> QED
    BY <2>1, <2>2
<1>6. \A g \in Handlers : job'[g].at = "befriend_own" => job'[g].me \in friends'[job'[g].id]
  <2>1. job'[h].me \in friends'[job'[h].id]
    BY <1>1, <1>2, <1>3 DEF TypeInv, DataOK
  <2>2. \A g \in Handlers : job[g].at = "befriend_own" => job[g].id \in Players
    BY DEF TypeInv, JobsOK, JobOK
  <2>3. \A p \in Players : friends[p] \subseteq friends'[p]
    BY <1>1, <1>2 DEF TypeInv, DataOK
  <2> QED
    BY <1>3, <2>1, <2>2, <2>3 DEF Agreement
<1>7. ASSUME NEW g \in Handlers, job'[g].op = "remove"
      PROVE  /\ GoneThere(job'[g]) => job'[g].me \notin friends'[job'[g].id]
             /\ GoneHere(job'[g]) => job'[g].id \notin friends'[job'[g].me]
  <2>1. g # h /\ job'[g] = job[g]
    BY <1>3, <1>7
  <2>2. {job[h].me, job[h].id} # {job[g].me, job[g].id}
    BY <1>1, <1>7, <2>1, NoAgreementInRemoval
  <2>3. job[g].me \in Players /\ job[g].id \in Players
    BY <1>7, <2>1 DEF TypeInv, JobsOK, JobOK, Idle
  <2>4. /\ job[g].id = job[h].id => job[g].me # job[h].me
        /\ job[g].me = job[h].id => job[g].id # job[h].me
    BY <2>2
  <2>5. \A p, q \in Players : q \in friends'[p] /\ q \notin friends[p] =>
                              p = job[h].id /\ q = job[h].me
    BY <1>1, <1>2 DEF TypeInv, DataOK
  <2> QED
    BY <2>1, <2>3, <2>4, <2>5 DEF Agreement
<1> QED
  BY <1>4, <1>5, <1>6, <1>7 DEF Agreement, Halfway, GoneThere, GoneHere

LEMMA AddToOwnMutual ==
  ASSUME TypeInv, OverlapKept, <<"agree", "remove">> \notin crossed, Agreement, JobsOK',
         NEW h \in Handlers, AddToOwn(h)
  PROVE  Agreement'
<1>1. /\ job[h].op = "agree" /\ job[h].me \in Players /\ job[h].id \in Players
      /\ job[h].at = "befriend_own"
  BY JobFacts DEF AddToOwn, OpAt, At, Me, Id, TypeInv
<1>2. /\ friends' = [friends EXCEPT ![job[h].me] = @ \cup {job[h].id}]
      /\ job' = [job EXCEPT ![h].at = "unrequest"]
  BY DEF AddToOwn, Goto, Me, Id
<1>3. /\ job'[h].at = "unrequest" /\ job'[h].op = "agree" /\ job'[h].cut = FALSE
      /\ \A g \in Handlers : g # h => job'[g] = job[g]
  BY <1>1, <1>2 DEF TypeInv, JobsOK, JobOK, JobRecord, Agreement
<1>4. \A g \in Handlers : job'[g].cut = FALSE
  BY <1>3 DEF Agreement
<1>5. \A p, q \in Players :
        /\ friends[p] \subseteq friends'[p]
        /\ q \in friends'[p] /\ q \notin friends[p] => p = job[h].me /\ q = job[h].id
        /\ job[h].id \in friends'[job[h].me]
  BY <1>1, <1>2 DEF TypeInv, DataOK
<1>6. job[h].me \in friends[job[h].id]
  BY <1>1 DEF Agreement
<1>7. ASSUME NEW p \in Players, NEW q \in Players, q \in friends'[p], p \notin friends'[q]
      PROVE  \E g \in Handlers : Halfway(job'[g], p, q)
  <2>1. q \in friends[p] /\ p \notin friends[q]
    BY <1>1, <1>5, <1>6, <1>7
  <2>2. PICK g \in Handlers : Halfway(job[g], p, q)
    BY <2>1 DEF Agreement
  <2>3. g # h
    BY <1>1, <1>5, <1>7, <2>2 DEF Halfway, GoneThere
  <2> QED
    BY <1>3, <2>2, <2>3
<1>8. \A g \in Handlers : job'[g].at = "befriend_own" => job'[g].me \in friends'[job'[g].id]
  <2>1. \A g \in Handlers : job[g].at = "befriend_own" => job[g].id \in Players
    BY DEF TypeInv, JobsOK, JobOK
  <2> QED
    BY <1>3, <1>5, <2>1 DEF Agreement
<1>9. ASSUME NEW g \in Handlers, job'[g].op = "remove"
      PROVE  /\ GoneThere(job'[g]) => job'[g].me \notin friends'[job'[g].id]
             /\ GoneHere(job'[g]) => job'[g].id \notin friends'[job'[g].me]
  <2>1. g # h /\ job'[g] = job[g]
    BY <1>3, <1>9
  <2>2. {job[h].me, job[h].id} # {job[g].me, job[g].id}
    BY <1>1, <1>9, <2>1, NoAgreementInRemoval
  <2>3. job[g].me \in Players /\ job[g].id \in Players
    BY <1>9, <2>1 DEF TypeInv, JobsOK, JobOK, Idle
  <2>4. /\ job[g].id = job[h].id => job[g].me # job[h].me
        /\ job[g].me = job[h].id => job[g].id # job[h].me
    BY <2>2
  <2> QED
    BY <1>5, <2>1, <2>3, <2>4 DEF Agreement
<1> QED
  BY <1>4, <1>7, <1>8, <1>9 DEF Agreement, Halfway, GoneThere, GoneHere

\* A removal takes the friend out of one row.
LEMMA ForgetMutual ==
  ASSUME TypeInv, OverlapKept, <<"agree", "remove">> \notin crossed, Agreement, JobsOK',
         NEW h \in Handlers, ForgetFriend(h)
  PROVE  Agreement'
<1>1. /\ job[h].op = "remove" /\ job[h].me \in Players /\ job[h].id \in Players
      /\ job[h].at = "forget" /\ job[h].me # job[h].id /\ job[h].side \in {"own", "there"}
  BY JobFacts DEF ForgetFriend, OpAt, At, Me, Id, TypeInv, JobsOK, JobOK, JobRecord
<1>2. /\ friends' = [friends EXCEPT ![Owner(h)] = @ \ {Peer(h)}]
      /\ job' = [job EXCEPT ![h].at = "ids"]
  BY DEF ForgetFriend, Goto
<1>3. /\ job'[h].at = "ids" /\ job'[h].op = "remove" /\ job'[h].cut = FALSE
      /\ job'[h].me = job[h].me /\ job'[h].id = job[h].id /\ job'[h].side = job[h].side
      /\ \A g \in Handlers : g # h => job'[g] = job[g]
  BY <1>1, <1>2 DEF TypeInv, JobsOK, JobOK, JobRecord, Agreement
<1>4. \A g \in Handlers : job'[g].cut = FALSE
  BY <1>3 DEF Agreement
<1>5. /\ Owner(h) = IF job[h].side = "there" THEN job[h].id ELSE job[h].me
      /\ Peer(h) = IF job[h].side = "there" THEN job[h].me ELSE job[h].id
  BY DEF Owner, Peer, Me, Id
<1>6. /\ \A p, q \in Players :
           /\ q \in friends'[p] => q \in friends[p]
           /\ q \in friends[p] /\ q \notin friends'[p] => p = Owner(h) /\ q = Peer(h)
      /\ Peer(h) \notin friends'[Owner(h)]
  <2>1. Owner(h) \in Players
    BY <1>1, <1>5
  <2>2. /\ friends'[Owner(h)] = friends[Owner(h)] \ {Peer(h)}
        /\ \A p \in Players : p # Owner(h) => friends'[p] = friends[p]
    BY <1>2, <2>1 DEF TypeInv, DataOK
  <2> QED
    BY <2>2
<1>7. ASSUME NEW p \in Players, NEW q \in Players, q \in friends'[p], p \notin friends'[q]
      PROVE  \E g \in Handlers : Halfway(job'[g], p, q)
  <2>1. CASE p \in friends[q]
    <3>1. q = Owner(h) /\ p = Peer(h) /\ q \in friends[p]
      BY <1>6, <1>7, <2>1
    <3>2. job[h].side = "there"
      BY <1>1, <1>5, <3>1 DEF Agreement, GoneThere
    <3> QED
      BY <1>3, <1>5, <3>1, <3>2 DEF Halfway, GoneThere
  <2>2. CASE p \notin friends[q]
    <3>1. q \in friends[p]
      BY <1>6, <1>7
    <3>2. PICK g \in Handlers : Halfway(job[g], p, q)
      BY <2>2, <3>1 DEF Agreement
    <3>3. CASE g = h
      BY <1>1, <1>5, <1>6, <1>7, <3>2, <3>3 DEF Halfway, GoneThere
    <3>4. CASE g # h
      BY <1>3, <3>2, <3>4
    <3> QED
      BY <3>3, <3>4
  <2> QED
    BY <2>1, <2>2
<1>8. ASSUME NEW g \in Handlers, job'[g].at = "befriend_own"
      PROVE  job'[g].me \in friends'[job'[g].id]
  <2>1. g # h /\ job'[g] = job[g]
    BY <1>3, <1>8
  <2>2. job[g].op = "agree" /\ job[g].id \in Players /\ job[g].me \in Players
    BY <1>8, <2>1 DEF TypeInv, JobsOK, JobOK, OpAt
  <2>3. {job[h].me, job[h].id} # {job[g].me, job[g].id}
    BY <1>1, <2>2, NoAgreementInRemoval
  <2>4. ~ (job[g].id = Owner(h) /\ job[g].me = Peer(h))
    BY <1>5, <2>3
  <2> QED
    BY <1>6, <1>8, <2>1, <2>2, <2>4 DEF Agreement
<1>9. ASSUME NEW g \in Handlers, GoneThere(job'[g]) PROVE job'[g].me \notin friends'[job'[g].id]
  <2>1. job'[g].me \in Players /\ job'[g].id \in Players
    BY <1>9 DEF JobsOK, JobOK, Idle, GoneThere
  <2>2. CASE g = h
    BY <1>1, <1>3, <1>5, <1>6, <2>1, <2>2 DEF Agreement, GoneThere
  <2>3. CASE g # h
    BY <1>3, <1>6, <1>9, <2>1, <2>3 DEF Agreement
  <2> QED
    BY <2>2, <2>3
<1>10. ASSUME NEW g \in Handlers, GoneHere(job'[g]) PROVE job'[g].id \notin friends'[job'[g].me]
  <2>1. job'[g].me \in Players /\ job'[g].id \in Players
    BY <1>10 DEF JobsOK, JobOK, Idle, GoneHere
  <2>2. CASE g = h
    BY <1>3, <1>5, <1>6, <1>10, <2>2 DEF GoneHere
  <2>3. CASE g # h
    BY <1>3, <1>6, <1>10, <2>1, <2>3 DEF Agreement
  <2> QED
    BY <2>2, <2>3
<1> QED
  BY <1>4, <1>7, <1>8, <1>9, <1>10 DEF Agreement, Halfway, GoneThere, GoneHere

\* Every other step leaves the friends of everyone as they are, and is neutral.
LEMMA DoneNeutral ==
  ASSUME TypeInv, NEW h \in Handlers, Done(h), ~ At(h, "befriend_own"),
         job[h].op = "remove" => GoneHere(job[h])
  PROVE  Neutral(job[h], job'[h]) /\ \A g \in Handlers : g # h => job'[g] = job[g]
<1>1. job'[h] = Idle /\ \A g \in Handlers : g # h => job'[g] = job[g]
  BY DEF TypeInv, JobsOK, Done
<1>2. Idle.cut = FALSE /\ Idle.at = "idle" /\ Idle.op = "none"
  BY DEF Idle
<1>3. GoneThere(job[h]) => GoneHere(job[h])
  BY DEF GoneThere
<1>4. ~ GoneThere(job'[h]) /\ ~ GoneHere(job'[h])
  BY <1>1, <1>2 DEF GoneThere, GoneHere
<1>5. job'[h].cut = FALSE /\ job'[h].at # "befriend_own"
  BY <1>1, <1>2
<1>6. job[h].at # "befriend_own"
  BY DEF At
<1> QED
  BY <1>1, <1>3, <1>4, <1>5, <1>6 DEF Neutral

\* A handler goes on in a request, or within the removal at one side.
LEMMA GoneOnNeutral ==
  ASSUME TypeInv, NEW h \in Handlers, job[h].cut = FALSE,
         NEW step, step # "befriend_own", ~ At(h, "befriend_own"),
         job[h].op = "remove" => ~ At(h, "forget") /\ step # "forget",
         \/ Goto(h, step)
         \/ \E x : job' = [job EXCEPT ![h].at = step, ![h].seen = x]
  PROVE  Neutral(job[h], job'[h]) /\ \A g \in Handlers : g # h => job'[g] = job[g]
<1>1. /\ job'[h].op = job[h].op /\ job'[h].at = step /\ job'[h].side = job[h].side
      /\ job'[h].me = job[h].me /\ job'[h].id = job[h].id /\ job'[h].cut = job[h].cut
      /\ \A g \in Handlers : g # h => job'[g] = job[g]
  <2>1. CASE Goto(h, step)
    BY <2>1 DEF Goto, TypeInv, JobsOK, JobOK, JobRecord
  <2>2. ASSUME NEW x, job' = [job EXCEPT ![h].at = step, ![h].seen = x]
        PROVE  /\ job'[h].op = job[h].op /\ job'[h].at = step /\ job'[h].side = job[h].side
               /\ job'[h].me = job[h].me /\ job'[h].id = job[h].id
               /\ job'[h].cut = job[h].cut
               /\ \A g \in Handlers : g # h => job'[g] = job[g]
    BY <2>2 DEF TypeInv, JobsOK, JobOK, JobRecord
  <2> QED
    BY <2>1, <2>2
<1> QED
  BY <1>1 DEF Neutral, GoneThere, GoneHere, At

\* A request begins; a removal begins at the other side.
LEMMA BeginNeutral ==
  ASSUME TypeInv, NEW h \in Handlers, NEW op, NEW p, NEW q, NEW step, NEW seen,
         Begin(h, op, p, q, step, seen), step # "befriend_own", op = "remove" => step = "forget"
  PROVE  Neutral(job[h], job'[h]) /\ \A g \in Handlers : g # h => job'[g] = job[g]
<1>1. job[h] = Idle /\ Idle \in JobRecord /\ Idle.cut = FALSE /\ Idle.at = "idle"
  BY IdleIsOK DEF Begin, At, TypeInv, JobsOK, JobOK, Idle
<1>2. /\ job'[h].op = op /\ job'[h].at = step /\ job'[h].side = "there"
      /\ job'[h].cut = Idle.cut
      /\ \A g \in Handlers : g # h => job'[g] = job[g]
  BY <1>1 DEF Begin, TypeInv, JobsOK, JobRecord
<1>3. Idle.op = "none"
  BY DEF Idle
<1> QED
  BY <1>1, <1>2, <1>3 DEF Neutral, GoneThere, GoneHere

LEMMA NeutralSteps ==
  ASSUME TypeInv, Agreement, NEW h \in Handlers, Step(h), ~ AddToOther(h), ~ AddToOwn(h),
         ~ ForgetFriend(h)
  PROVE  /\ UNCHANGED friends
         /\ Neutral(job[h], job'[h]) /\ \A g \in Handlers : g # h => job'[g] = job[g]
<1>0. job[h].cut = FALSE
  BY DEF Agreement
<1>1. CASE LookAtFriends(h) \/ CheckAndAdd(h) \/ RemoveReq(h)
  <2>1. job[h].op # "remove" /\ ~ At(h, "befriend_own")
    BY <1>1, JobFacts DEF LookAtFriends, CheckAndAdd, RemoveReq, OpAt, At, TypeInv
  <2> QED
    BY <1>0, <1>1, <2>1, DoneNeutral, GoneOnNeutral
    DEF LookAtFriends, CheckAndAdd, RemoveReq, data
<1>2. CASE StoreFirstGift(h) \/ StoreGift(h) \/ SetLastGiveTime(h)
           \/ IncbyGiveNumToday(h) \/ AddFriendPoints(h) \/ SetGivePoints(h)
  <2>1. job[h].op # "remove" /\ ~ At(h, "befriend_own")
    BY <1>2, JobFacts
    DEF StoreFirstGift, StoreGift, SetLastGiveTime, IncbyGiveNumToday,
        AddFriendPoints, SetGivePoints, OpAt, At, TypeInv
  <2> QED
    BY <1>0, <1>2, <2>1, DoneNeutral, GoneOnNeutral
    DEF StoreFirstGift, StoreGift, SetLastGiveTime, IncbyGiveNumToday,
        AddFriendPoints, SetGivePoints, data
<1>3. CASE CheckUnreadNumFull(h) \/ AddMessage(h) \/ AddNewMessageId(h) \/ UndoMessage(h)
  <2>1. job[h].op # "remove" /\ ~ At(h, "befriend_own")
    BY <1>3, JobFacts
    DEF CheckUnreadNumFull, AddMessage, AddNewMessageId, UndoMessage, OpAt, At, TypeInv
  <2> QED
    <3>1. UNCHANGED friends
      BY <1>3 DEF CheckUnreadNumFull, AddMessage, AddNewMessageId, UndoMessage
    <3>2. \/ Done(h) \/ Goto(h, "append") \/ Goto(h, "undo")
          \/ \E x : job' = [job EXCEPT ![h].at = "message", ![h].seen = x]
      BY <1>3 DEF CheckUnreadNumFull, AddMessage, AddNewMessageId, UndoMessage
    <3> QED
      BY <1>0, <2>1, <3>1, <3>2, DoneNeutral, GoneOnNeutral
<1>4. ASSUME SideDone(h), job[h].op = "remove", ~ At(h, "idle"), ~ At(h, "forget")
      PROVE  Neutral(job[h], job'[h]) /\ \A g \in Handlers : g # h => job'[g] = job[g]
  <2>1. JobOK(job[h]) /\ job[h].at # "befriend_own"
    BY <1>4, JobFacts DEF TypeInv, JobsOK, OpAt, At
  <2>2. CASE job[h].side = "there"
    <3>1. job' = [job EXCEPT ![h].side = "own", ![h].at = "forget", ![h].seen = None]
      BY <1>0, <1>4, <2>2 DEF SideDone
    <3>2. /\ job'[h].op = job[h].op /\ job'[h].at = "forget" /\ job'[h].side = "own"
          /\ job'[h].me = job[h].me /\ job'[h].id = job[h].id /\ job'[h].cut = job[h].cut
          /\ \A g \in Handlers : g # h => job'[g] = job[g]
      BY <2>1, <3>1 DEF TypeInv, JobsOK, JobOK, JobRecord
    <3> QED
      BY <1>0, <1>4, <2>1, <2>2, <3>2 DEF Neutral, GoneThere, GoneHere, At
  <2>3. CASE job[h].side # "there"
    <3>1. Done(h) /\ GoneHere(job[h])
      BY <1>4, <2>1, <2>3 DEF SideDone, GoneHere, JobOK, JobRecord, At
    <3> QED
      BY <2>1, <3>1, DoneNeutral DEF At
  <2> QED
    BY <2>2, <2>3
<1>5. CASE GetMessageIds(h) \/ RemoveIds(h)
  <2>1. job[h].op = "remove" /\ ~ At(h, "befriend_own") /\ ~ At(h, "idle") /\ ~ At(h, "forget")
    BY <1>5, JobFacts DEF GetMessageIds, RemoveIds, OpAt, At, TypeInv
  <2> QED
    <3>1. UNCHANGED friends
      BY <1>5 DEF GetMessageIds, RemoveIds, data
    <3>2. SideDone(h) \/ \E x : job' = [job EXCEPT ![h].at = "erase", ![h].seen = x]
      BY <1>5 DEF GetMessageIds, RemoveIds
    <3>3. ASSUME NEW x, job' = [job EXCEPT ![h].at = "erase", ![h].seen = x]
          PROVE  Neutral(job[h], job'[h]) /\ \A g \in Handlers : g # h => job'[g] = job[g]
      <4>1. "erase" # "befriend_own" /\ "erase" # "forget"
        OBVIOUS
      <4> QED
        BY <1>0, <2>1, <3>3, <4>1, GoneOnNeutral, Zenon
    <3> QED
      BY <1>4, <2>1, <3>1, <3>2, <3>3
<1>6. CASE RemoveMessages(h)
  <2>1. ~ At(h, "befriend_own") /\ ~ At(h, "forget") /\ job[h].op \in {"remove", "confirm"}
    BY <1>6, JobFacts DEF RemoveMessages, OpAt, At, TypeInv
  <2> QED
    <3>1. UNCHANGED friends /\ ((Done(h) /\ job[h].op = "confirm") \/ Goto(h, "drop"))
      BY <1>6 DEF RemoveMessages
    <3>2. CASE Done(h) /\ job[h].op = "confirm"
      BY <2>1, <3>1, <3>2, DoneNeutral
    <3>3. CASE Goto(h, "drop")
      <4>1. "drop" # "befriend_own" /\ "drop" # "forget"
        OBVIOUS
      <4> QED
        BY <1>0, <2>1, <3>1, <3>3, <4>1, GoneOnNeutral, Zenon
    <3> QED
      BY <3>1, <3>2, <3>3
<1>7. CASE LookAtLastGive(h)
  <2>1. job[h].op # "remove" /\ ~ At(h, "befriend_own") /\ UNCHANGED friends
    BY <1>7, JobFacts DEF LookAtLastGive, OpAt, At, TypeInv, data
  <2>2. \/ Done(h) \/ Goto(h, "give_num")
        \/ \E step \in Storing : job' = [job EXCEPT ![h].at = step, ![h].seen = TRUE]
    BY <1>7 DEF LookAtLastGive, Storing
  <2>3. ASSUME NEW step \in Storing, job' = [job EXCEPT ![h].at = step, ![h].seen = TRUE]
        PROVE  Neutral(job[h], job'[h]) /\ \A g \in Handlers : g # h => job'[g] = job[g]
    <3>1. step # "befriend_own"
      BY DEF Storing
    <3>2. \E x : job' = [job EXCEPT ![h].at = step, ![h].seen = x]
      BY <2>3, Zenon
    <3> QED
      BY <1>0, <2>1, <3>1, <3>2, GoneOnNeutral
  <2> QED
    BY <1>0, <2>1, <2>2, <2>3, DoneNeutral, GoneOnNeutral
<1> QED
  BY <1>1, <1>2, <1>3, <1>5, <1>6, <1>7 DEF Step

LEMMA NeutralRequests ==
  ASSUME TypeInv, NEW h \in Handlers, NEW p \in Players, NEW q \in Players, Request(h, p, q)
  PROVE  /\ UNCHANGED friends
         /\ Neutral(job[h], job'[h]) /\ \A g \in Handlers : g # h => job'[g] = job[g]
<1>1. CASE ~ ConfirmUnread(h, p, q)
  BY <1>1, BeginNeutral
  DEF Request, AddFriend, AgreeAddFriend, RefuseAddFriend, RemoveFriend, GiveFriendPoints,
      GetFriendPoints, FriendChat, data
<1>2. CASE ConfirmUnread(h, p, q)
  <2>1. /\ job[h] = Idle
        /\ \E gone : job' = [job EXCEPT ![h] = IF gone = <<>> THEN Idle ELSE
                 [Idle EXCEPT !.op = "confirm", !.at = "erase", !.me = p, !.id = q,
                              !.seen = gone]]
    BY <1>2 DEF ConfirmUnread, TypeInv, JobsOK, JobOK, At
  <2>2. Idle.cut = FALSE /\ Idle.at = "idle" /\ Idle.op = "none" /\ Idle \in JobRecord
    BY IdleIsOK DEF Idle, JobOK
  <2>3. /\ job'[h].cut = FALSE /\ job'[h].at # "befriend_own" /\ job'[h].op # "remove"
        /\ \A g \in Handlers : g # h => job'[g] = job[g]
    BY <2>1, <2>2 DEF TypeInv, JobsOK, JobRecord
  <2> QED
    BY <1>2, <2>1, <2>2, <2>3 DEF ConfirmUnread, Neutral, GoneThere, GoneHere
<1> QED
  BY <1>1, <1>2

LEMMA MutualInit == Init => MutualInv
<1> SUFFICES ASSUME Init PROVE Agreement
  BY DEF MutualInv
<1>1. Idle.cut = FALSE /\ Idle.at = "idle" /\ Idle.op = "none"
  BY DEF Idle
<1>2. \A h \in Handlers : job[h] = Idle
  BY DEF Init
<1>3. \A p, q \in Players : q \in friends[p] => p \in friends[q]
  BY DEF Init
<1> QED
  BY <1>1, <1>2, <1>3 DEF Agreement, GoneThere, GoneHere

LEMMA MutualStep ==
  TypeInv /\ TypeInv' /\ OverlapKept /\ MutualInv /\ [Next]_vars => MutualInv'
<1> SUFFICES ASSUME TypeInv, TypeInv', OverlapKept, MutualInv, [Next]_vars,
                    ~ lost', <<"agree", "remove">> \notin crossed'
             PROVE  Agreement'
  BY DEF MutualInv
<1>1. Agreement /\ <<"agree", "remove">> \notin crossed
  BY HistoryGrows DEF MutualInv
<1>2. JobsOK'
  BY DEF TypeInv
<1>3. ASSUME NEW h \in Handlers, Step(h) PROVE Agreement'
  BY <1>1, <1>2, <1>3, AddToOtherMutual, AddToOwnMutual, ForgetMutual, NeutralSteps,
     AgreementKept
<1>4. ASSUME NEW h \in Handlers, NEW p \in Players, NEW q \in Players, Request(h, p, q)
      PROVE  Agreement'
  BY <1>1, <1>2, <1>4, NeutralRequests, AgreementKept
<1>5. ASSUME NEW h \in Handlers, CallFails(h) PROVE FALSE
  BY <1>5 DEF CallFails
<1>6. CASE NewDay
  <2>1. UNCHANGED friends
    BY <1>6 DEF NewDay
  <2>2. \A h \in Handlers :
          /\ job'[h].op = job[h].op /\ job'[h].at = job[h].at /\ job'[h].side = job[h].side
          /\ job'[h].me = job[h].me /\ job'[h].id = job[h].id /\ job'[h].cut = job[h].cut
    BY <1>6, NewDayJobs DEF TypeInv
  <2> QED
    BY <1>1, <2>1, <2>2 DEF Agreement, Halfway, GoneThere, GoneHere
<1>7. CASE UNCHANGED vars
  BY <1>1, <1>7 DEF vars, Agreement
<1> QED
  BY <1>3, <1>4, <1>5, <1>6, <1>7 DEF Next

\* Friendship is mutual whenever no request is under way, in every behaviour in which no call
\* between the halls has failed and no agreement has overlapped a removal of the same friend.
THEOREM FriendshipIsMutual == Spec => []MutualFriends
<1>1. TypeInv /\ MutualInv => MutualFriends
  <2> SUFFICES ASSUME TypeInv, MutualInv, Quiet, ~ lost, <<"agree", "remove">> \notin crossed,
                      NEW p \in Players, NEW q \in Players, q \in friends[p],
                      p \notin friends[q]
               PROVE  FALSE
    BY DEF MutualFriends
  <2>1. PICK h \in Handlers : Halfway(job[h], p, q)
    BY DEF MutualInv, Agreement
  <2>2. Idle.at = "idle" /\ Idle.op = "none"
    BY DEF Idle
  <2> QED
    BY <2>1, <2>2 DEF Quiet, Halfway, GoneThere
<1> QED
  BY <1>1, TypeInvariant, OverlapInit, OverlapStep, MutualInit, MutualStep, PTL DEF Spec

-----------------------------------------------------------------------------
(* No gift is collected twice. *)

\* The gift of q in the row of p that was stored last has been collected at most once, and if
\* there still is one after that, the handler who has collected it is about to empty it.
OnceOnly(p, q) ==
  /\ claims[p][q] <= 1
  /\ claims[p][q] = 1 /\ Gift(p, q) > 0 =>
       \E h \in Handlers : job[h].at = "empty" /\ job[h].me = p /\ job[h].id = q

\* A handler that collects has found a gift that no one has collected, and none will have been
\* when he adds it, though it may be another one, or gone.
Gifts ==
  /\ \A h \in Handlers : job[h].at = "collect" => claims[job[h].me][job[h].id] = 0
  /\ \A p, q \in Players : OnceOnly(p, q)

GiftInv == <<"get", "get">> \notin crossed => Gifts

\* A step of a handler changes no other handler's job.
LEMMA OtherJobsKept ==
  ASSUME JobsOK, NEW h \in Handlers,
         \/ Step(h) \/ CallFails(h)
         \/ \E p, q \in Players : Request(h, p, q)
  PROVE  \A g \in Handlers : g # h => job'[g] = job[g]
<1> DEFINE Others == \A g \in Handlers : g # h => job'[g] = job[g]
<1>1. ASSUME Done(h) PROVE Others
  BY <1>1 DEF Done, JobsOK
<1>2. ASSUME NEW step, Goto(h, step) PROVE Others
  BY <1>2 DEF Goto, JobsOK
<1>3. ASSUME NEW step, NEW x, job' = [job EXCEPT ![h].at = step, ![h].seen = x] PROVE Others
  BY <1>3 DEF JobsOK
<1>4. ASSUME SideDone(h) PROVE Others
  BY <1>1, <1>4 DEF SideDone, JobsOK
<1>5. ASSUME Step(h) PROVE Others
  <2>1. ASSUME \/ LookAtFriends(h) \/ CheckAndAdd(h) \/ AddToOther(h) \/ AddToOwn(h)
               \/ RemoveReq(h) \/ ForgetFriend(h) \/ RemoveMessages(h)
               \/ StoreFirstGift(h) \/ StoreGift(h) \/ SetLastGiveTime(h)
               \/ IncbyGiveNumToday(h) \/ AddFriendPoints(h) \/ SetGivePoints(h)
               \/ AddMessage(h) \/ AddNewMessageId(h) \/ UndoMessage(h)
        PROVE  Done(h) \/ \E step : Goto(h, step)
    BY <2>1
    DEF LookAtFriends, CheckAndAdd, AddToOther, AddToOwn, RemoveReq, ForgetFriend,
        RemoveMessages, StoreFirstGift, StoreGift, SetLastGiveTime,
        IncbyGiveNumToday, AddFriendPoints, SetGivePoints, AddMessage, AddNewMessageId,
        UndoMessage, Return
  <2>2. ASSUME GetMessageIds(h) \/ RemoveIds(h) \/ CheckUnreadNumFull(h) \/ LookAtLastGive(h)
        PROVE  Done(h) \/ SideDone(h) \/ Goto(h, "give_num")
               \/ \E step, x : job' = [job EXCEPT ![h].at = step, ![h].seen = x]
    BY <2>2 DEF GetMessageIds, RemoveIds, CheckUnreadNumFull, LookAtLastGive
  <2> QED
    BY <1>1, <1>2, <1>3, <1>4, <1>5, <2>1, <2>2 DEF Step
<1>6. ASSUME NEW p \in Players, NEW q \in Players, Request(h, p, q) PROVE Others
  <2>1. \E j : job' = [job EXCEPT ![h] = j]
    BY <1>6
    DEF Request, AddFriend, AgreeAddFriend, RefuseAddFriend, RemoveFriend, GiveFriendPoints,
        GetFriendPoints, FriendChat, ConfirmUnread, Begin
  <2> QED
    BY <2>1 DEF JobsOK
<1>7. ASSUME CallFails(h) PROVE Others
  <2>1. job' = [job EXCEPT ![h].cut = TRUE] \/ Done(h) \/ Goto(h, "give_num")
    BY <1>7 DEF CallFails
  <2>2. job' = [job EXCEPT ![h].cut = TRUE] => Others
    BY DEF JobsOK
  <2> QED
    BY <1>1, <1>2, <2>1, <2>2
<1> QED
  BY <1>5, <1>6, <1>7

\* Two requests to collect one gift clash.
LEMMA GetsClash ==
  ASSUME OverlapKept, <<"get", "get">> \notin crossed,
         NEW h \in Handlers, job[h].op = "get", NEW g \in Handlers, g # h, job[g].op = "get"
  PROVE  job[g].me # job[h].me \/ job[g].id # job[h].id
<1> SUFFICES ASSUME job[g].me = job[h].me, job[g].id = job[h].id PROVE FALSE
  OBVIOUS
<1>1. Clash(job[h], job[g])
  BY DEF Clash, Clashes
<1> QED
  BY <1>1, ClashOverlaps DEF OverlapKept

\* Where a step takes its handler.
LEMMA SteppedTo ==
  ASSUME JobsOK, NEW h \in Handlers, Step(h)
  PROVE  /\ ~ AddFriendPoints(h) => job'[h].at # "empty"
         /\ job'[h].at # "collect"
<1>1. Done(h) => job'[h].at = "idle"
  BY DEF Done, JobsOK, Idle
<1>2. \A step : Goto(h, step) => job'[h].at = step
  BY DEF Goto, JobsOK, JobOK, JobRecord
<1>3. \A step, x : job' = [job EXCEPT ![h].at = step, ![h].seen = x] => job'[h].at = step
  BY DEF JobsOK, JobOK, JobRecord
<1>4. SideDone(h) => job'[h].at \in {"idle", "forget"}
  <2>1. ASSUME job' = [job EXCEPT ![h].side = "own", ![h].at = "forget", ![h].seen = None]
        PROVE  job'[h].at = "forget"
    BY <2>1 DEF JobsOK, JobOK, JobRecord
  <2> QED
    BY <1>1, <2>1 DEF SideDone
<1>5. CASE \/ LookAtFriends(h) \/ CheckAndAdd(h) \/ AddToOther(h) \/ AddToOwn(h)
           \/ RemoveReq(h) \/ ForgetFriend(h) \/ RemoveMessages(h)
           \/ StoreFirstGift(h) \/ StoreGift(h) \/ SetLastGiveTime(h)
           \/ IncbyGiveNumToday(h) \/ AddFriendPoints(h) \/ SetGivePoints(h)
           \/ AddMessage(h) \/ AddNewMessageId(h) \/ UndoMessage(h)
  BY <1>1, <1>2, <1>5
  DEF LookAtFriends, CheckAndAdd, AddToOther, AddToOwn, RemoveReq, ForgetFriend,
      RemoveMessages, StoreFirstGift, StoreGift, SetLastGiveTime,
      IncbyGiveNumToday, AddFriendPoints, SetGivePoints, AddMessage, AddNewMessageId,
      UndoMessage, Return
<1>6. CASE GetMessageIds(h) \/ RemoveIds(h) \/ CheckUnreadNumFull(h)
  BY <1>1, <1>3, <1>4, <1>6 DEF GetMessageIds, RemoveIds, CheckUnreadNumFull
<1>7. CASE LookAtLastGive(h)
  <2>1. \/ Done(h) \/ Goto(h, "give_num")
        \/ \E step \in Storing : job' = [job EXCEPT ![h].at = step, ![h].seen = TRUE]
    BY <1>7 DEF LookAtLastGive, Storing
  <2>2. job'[h].at \in {"idle", "give_num"} \cup Storing
    BY <1>1, <1>2, <1>3, <2>1
  <2> QED
    BY <2>2 DEF Storing
<1> QED
  BY <1>5, <1>6, <1>7 DEF Step

\* A request that does not collect points begins elsewhere.
LEMMA BegunAt ==
  ASSUME JobsOK, NEW h \in Handlers, NEW p \in Players, NEW q \in Players, Request(h, p, q),
         ~ GetFriendPoints(h, p, q)
  PROVE  job'[h].at \notin {"collect", "empty"}
<1>1. Idle \in JobRecord /\ Idle.at = "idle"
  BY IdleIsOK DEF JobOK, Idle
<1>2. \A op, step, seen : Begin(h, op, p, q, step, seen) => job'[h].at = step
  BY DEF Begin, JobsOK, Idle
<1>3. CASE ConfirmUnread(h, p, q)
  <2>1. PICK gone : job' = [job EXCEPT ![h] = IF gone = <<>> THEN Idle ELSE
                              [Idle EXCEPT !.op = "confirm", !.at = "erase", !.me = p,
                                           !.id = q, !.seen = gone]]
    BY <1>3 DEF ConfirmUnread
  <2> QED
    BY <1>1, <2>1 DEF JobsOK, JobRecord
<1>4. CASE ~ ConfirmUnread(h, p, q)
  BY <1>2, <1>4
  DEF Request, AddFriend, AgreeAddFriend, RefuseAddFriend, RemoveFriend, GiveFriendPoints,
      FriendChat
<1> QED
  BY <1>3, <1>4

\* A step that collects nothing: it stores a new gift, or leaves the gifts and takes some away.
LEMMA GiftsKept ==
  ASSUME TypeInv, TypeInv', Gifts,
         \A p, q \in Players :
           \/ claims'[p][q] = 0
           \/ claims'[p][q] = claims[p][q] /\ (Gift(p, q)' > 0 => Gift(p, q) > 0),
         \A g \in Handlers :
           \/ /\ job'[g].at = job[g].at
              /\ job'[g].me = job[g].me /\ job'[g].id = job[g].id
           \/ job[g].at \notin {"collect", "empty"} /\ job'[g].at \notin {"collect", "empty"}
  PROVE  Gifts'
<1>1. ASSUME NEW g \in Handlers, job'[g].at = "collect"
      PROVE  claims'[job'[g].me][job'[g].id] = 0
  <2>1. /\ job[g].at = "collect" /\ job'[g].me = job[g].me /\ job'[g].id = job[g].id
        /\ job[g].me \in Players /\ job[g].id \in Players
    BY <1>1 DEF TypeInv, JobsOK, JobOK
  <2> QED
    BY <2>1 DEF Gifts
<1>2. ASSUME NEW p \in Players, NEW q \in Players PROVE OnceOnly(p, q)'
  <2>1. CASE claims'[p][q] = 0
    BY <2>1 DEF OnceOnly
  <2>2. CASE claims'[p][q] = claims[p][q] /\ (Gift(p, q)' > 0 => Gift(p, q) > 0)
    <3>1. \A g \in Handlers : job[g].at = "empty" =>
            job'[g].at = "empty" /\ job'[g].me = job[g].me /\ job'[g].id = job[g].id
      OBVIOUS
    <3> QED
      BY <2>2, <3>1 DEF Gifts, OnceOnly
  <2> QED
    BY <2>1, <2>2
<1> QED
  BY <1>1, <1>2 DEF Gifts

\* A gift that is found has not been collected: whoever did would be about to empty it.
LEMMA GetBeginsGifts ==
  ASSUME TypeInv, TypeInv', OverlapKept', Gifts, (<<"get", "get">> \notin crossed)',
         NEW h \in Handlers, NEW p \in Players, NEW q \in Players, GetFriendPoints(h, p, q)
  PROVE  Gifts'
<1>1. /\ job[h] = Idle /\ UNCHANGED <<points, claims>> /\ Gift(p, q) > 0
      /\ job'[h].op = "get" /\ job'[h].at = "collect" /\ job'[h].me = p /\ job'[h].id = q
  <2>1. job[h] = Idle /\ Idle \in JobRecord
    BY IdleIsOK DEF GetFriendPoints, Begin, At, TypeInv, JobsOK, JobOK
  <2> QED
    BY <2>1 DEF GetFriendPoints, Begin, TypeInv, JobsOK, JobRecord
<1>2. \A g \in Handlers : g # h => job'[g] = job[g]
  BY OtherJobsKept DEF Request, TypeInv
<1>3. Idle.at = "idle"
  BY DEF Idle
<1>4. claims[p][q] = 0
  <2> SUFFICES ASSUME NEW g \in Handlers, job[g].at = "empty", job[g].me = p, job[g].id = q
               PROVE  FALSE
    <3>1. claims[p][q] \in Nat
      BY DEF TypeInv, DataOK
    <3> QED
      BY <1>1, <3>1 DEF Gifts, OnceOnly
  <2>1. g # h /\ job'[g] = job[g] /\ job[g].op = "get"
    BY <1>1, <1>2, <1>3 DEF TypeInv, JobsOK, JobOK, OpAt
  <2>2. Clash(job'[g], job'[h])
    BY <1>1, <2>1 DEF Clash, Clashes
  <2>3. <<"get", "get">> \in Overlap'
    BY <1>1, <2>1, <2>2 DEF Overlap, Clashes
  <2> QED
    BY <2>3 DEF OverlapKept
<1>5. \A g \in Handlers : (job[g].at = "collect" => claims[job[g].me][job[g].id] = 0)'
  BY <1>1, <1>2, <1>4 DEF Gifts
<1>6. ASSUME NEW a \in Players, NEW b \in Players PROVE OnceOnly(a, b)'
  <2>1. Gift(a, b)' = Gift(a, b) /\ claims' = claims
    BY <1>1 DEF Gift
  <2> QED
    BY <1>1, <1>2, <1>3, <2>1 DEF Gifts, OnceOnly
<1> QED
  BY <1>5, <1>6 DEF Gifts

LEMMA CollectGifts ==
  ASSUME TypeInv, TypeInv', OverlapKept, Gifts, <<"get", "get">> \notin crossed,
         NEW h \in Handlers, AddFriendPoints(h)
  PROVE  Gifts'
<1> DEFINE p == job[h].me
           q == job[h].id
<1>1. job[h].op = "get" /\ job[h].at = "collect" /\ p \in Players /\ q \in Players
  BY JobFacts DEF AddFriendPoints, OpAt, At, Me, Id, TypeInv
<1>2. /\ claims' = [claims EXCEPT ![p][q] = @ + 1] /\ UNCHANGED points
      /\ job' = [job EXCEPT ![h].at = "empty"]
  BY DEF AddFriendPoints, Goto, Me, Id, data
<1>3. /\ job'[h].at = "empty" /\ job'[h].me = p /\ job'[h].id = q
      /\ \A g \in Handlers : g # h => job'[g] = job[g]
  BY <1>2 DEF TypeInv, JobsOK, JobOK, JobRecord
<1>4. claims[p][q] = 0
  BY <1>1 DEF Gifts
<1>5. \A a, b \in Players : claims'[a][b] = IF a = p /\ b = q THEN 1 ELSE claims[a][b]
  <2>1. claims \in [Players -> [Players -> Nat]]
    BY DEF TypeInv, DataOK
  <2>2. claims' = [claims EXCEPT ![p][q] = 1]
    BY <1>2, <1>4
  <2> QED
    BY <1>1, <2>1, <2>2, EntryChanged
<1>6. \A g \in Handlers : g # h /\ job[g].at = "collect" =>
        /\ job[g].me \in Players /\ job[g].id \in Players
        /\ ~ (job[g].me = p /\ job[g].id = q)
  <2>1. \A g \in Handlers : job[g].at = "collect" =>
          job[g].op = "get" /\ job[g].me \in Players /\ job[g].id \in Players
    BY DEF TypeInv, JobsOK, JobOK, OpAt
  <2> QED
    BY <1>1, <2>1, GetsClash
<1>7. \A g \in Handlers : (job[g].at = "collect" => claims[job[g].me][job[g].id] = 0)'
  BY <1>3, <1>5, <1>6 DEF Gifts
<1>8. ASSUME NEW a \in Players, NEW b \in Players PROVE OnceOnly(a, b)'
  <2>1. Gift(a, b)' = Gift(a, b)
    BY <1>2 DEF Gift
  <2>2. CASE a = p /\ b = q
    BY <1>1, <1>3, <1>5, <2>2 DEF OnceOnly
  <2>3. CASE ~ (a = p /\ b = q)
    BY <1>1, <1>3, <1>5, <2>1, <2>3 DEF Gifts, OnceOnly
  <2> QED
    BY <2>2, <2>3
<1> QED
  BY <1>7, <1>8 DEF Gifts

\* Whatever gift is there when the handler empties it, it is gone.
LEMMA EmptyGifts ==
  ASSUME TypeInv, TypeInv', Gifts, NEW h \in Handlers, SetGivePoints(h)
  PROVE  Gifts'
<1> DEFINE p == job[h].me
           q == job[h].id
<1>1. job[h].at = "empty" /\ p \in Players /\ q \in Players
  BY JobFacts DEF SetGivePoints, OpAt, At, Me, Id, TypeInv
<1> DEFINE emptied == IF points[p][q] = None THEN None ELSE [points[p][q] EXCEPT !.gift = 0]
<1>2. points' = [points EXCEPT ![p][q] = emptied] /\ UNCHANGED claims
  BY DEF SetGivePoints, Me, Id
<1>3. /\ job'[h].at = "idle"
      /\ \A g \in Handlers : g # h => job'[g] = job[g]
  BY DEF SetGivePoints, Done, Idle, TypeInv, JobsOK
<1>4. points[p][q] # None => points[p][q] \in GiftRecord
  BY <1>1 DEF TypeInv, DataOK
<1>5. emptied # None => emptied.gift = 0
  BY <1>4 DEF GiftRecord
<1>6. \A a, b \in Players : Gift(a, b)' = IF a = p /\ b = q THEN 0 ELSE Gift(a, b)
  <2>1. points \in [Players -> [Players -> {None} \cup GiftRecord]]
    BY DEF TypeInv, DataOK
  <2> HIDE DEF emptied
  <2>2. \A a, b \in Players : points'[a][b] = IF a = p /\ b = q THEN emptied ELSE points[a][b]
    BY <1>1, <1>2, <2>1, EntryChanged
  <2> QED
    BY <1>1, <1>5, <2>2 DEF Gift
<1>7. \A g \in Handlers : (job[g].at = "collect" => claims[job[g].me][job[g].id] = 0)'
  BY <1>2, <1>3 DEF Gifts
<1>8. ASSUME NEW a \in Players, NEW b \in Players PROVE OnceOnly(a, b)'
  BY <1>2, <1>3, <1>6 DEF Gifts, OnceOnly
<1> QED
  BY <1>7, <1>8 DEF Gifts

\* A gift that is stored has not been collected.
LEMMA StoreGifts ==
  ASSUME TypeInv, TypeInv', Gifts, NEW h \in Handlers, StoreFirstGift(h) \/ StoreGift(h)
  PROVE  \A a, b \in Players : \/ claims'[a][b] = 0
                               \/ claims'[a][b] = claims[a][b] /\ Gift(a, b)' = Gift(a, b)
<1> DEFINE p == job[h].id
           q == job[h].me
<1>1. p \in Players /\ q \in Players
  BY JobFacts DEF StoreFirstGift, StoreGift, OpAt, At, Me, Id, TypeInv
<1>2. CASE UNCHANGED <<points, claims>>
  BY <1>2 DEF Gift
<1>3. ASSUME NEW e, points' = [points EXCEPT ![p][q] = e], claims' = [claims EXCEPT ![p][q] = 0]
      PROVE  \A a, b \in Players : \/ claims'[a][b] = 0
                                   \/ claims'[a][b] = claims[a][b] /\ Gift(a, b)' = Gift(a, b)
  <2>1. claims \in [Players -> [Players -> Nat]]
    BY DEF TypeInv, DataOK
  <2>2. \A a, b \in Players : claims'[a][b] = IF a = p /\ b = q THEN 0 ELSE claims[a][b]
    BY <1>1, <1>3, <2>1, EntryChanged
  <2>3. \A a, b \in Players : ~ (a = p /\ b = q) => Gift(a, b)' = Gift(a, b)
    <3>1. points \in [Players -> [Players -> {None} \cup GiftRecord]]
      BY DEF TypeInv, DataOK
    <3>2. \A a, b \in Players : points'[a][b] = IF a = p /\ b = q THEN e ELSE points[a][b]
      BY <1>1, <1>3, <3>1, EntryChanged
    <3> QED
      BY <3>2 DEF Gift
  <2> QED
    BY <2>2, <2>3
<1>4. CASE /\ claims' = [claims EXCEPT ![p][q] = 0]
           /\ \/ points' = [points EXCEPT ![p][q] = [gift |-> 1, today |-> job[h].seen]]
              \/ points' = [points EXCEPT ![p][q] = [points[p][q] EXCEPT !.gift = 1]]
  BY <1>3, <1>4
<1> QED
  BY <1>2, <1>4 DEF StoreFirstGift, StoreGift, Me, Id

\* The time of a gift is nothing of the gift.
LEMMA StampGifts ==
  ASSUME TypeInv, NEW h \in Handlers, SetLastGiveTime(h)
  PROVE  UNCHANGED claims /\ \A a, b \in Players : Gift(a, b)' > 0 => Gift(a, b) > 0
<1> DEFINE p == job[h].id
           q == job[h].me
           g == points[p][q]
           stamped == [g EXCEPT !.today = job[h].seen]
<1>1. p \in Players /\ q \in Players
  BY JobFacts DEF SetLastGiveTime, OpAt, At, Me, Id, TypeInv
<1>2. UNCHANGED claims
  BY DEF SetLastGiveTime
<1>3. CASE UNCHANGED points
  BY <1>2, <1>3 DEF Gift
<1>4. CASE g # None /\ points' = [points EXCEPT ![p][q] = stamped]
  <2>1. g \in GiftRecord /\ points \in [Players -> [Players -> {None} \cup GiftRecord]]
    BY <1>1, <1>4 DEF TypeInv, DataOK
  <2>2. stamped.gift = g.gift
    BY <2>1 DEF GiftRecord
  <2>3. \A a, b \in Players : points'[a][b] = IF a = p /\ b = q THEN stamped ELSE points[a][b]
    <3> HIDE DEF stamped
    <3> QED
      BY <1>1, <1>4, <2>1, EntryChanged
  <2>4. ASSUME NEW a \in Players, NEW b \in Players, Gift(a, b)' > 0
        PROVE  Gift(a, b) > 0
    <3>1. CASE a = p /\ b = q
      <4> HIDE DEF stamped
      <4>1. points'[a][b] = stamped
        BY <2>3, <3>1
      <4>2. Gift(a, b) = g.gift
        BY <1>4, <3>1 DEF Gift
      <4> QED
        BY <2>2, <2>4, <4>1, <4>2 DEF Gift
    <3>2. CASE ~ (a = p /\ b = q)
      <4> HIDE DEF stamped
      <4>1. points'[a][b] = points[a][b]
        BY <2>3, <3>2
      <4> QED
        BY <2>4, <4>1 DEF Gift
    <3> QED
      BY <3>1, <3>2
  <2> QED
    BY <1>2, <2>4
<1> QED
  BY <1>3, <1>4 DEF SetLastGiveTime, Me, Id

LEMMA GiftInit == Init => GiftInv
BY DEF Init, Idle, GiftInv, Gifts, OnceOnly, Gift

LEMMA GiftStep ==
  TypeInv /\ TypeInv' /\ OverlapKept /\ OverlapKept' /\ GiftInv /\ [Next]_vars => GiftInv'
<1> SUFFICES ASSUME TypeInv, TypeInv', OverlapKept, OverlapKept', GiftInv, [Next]_vars,
                    (<<"get", "get">> \notin crossed)'
             PROVE  Gifts'
  BY DEF GiftInv
<1>1. Gifts /\ <<"get", "get">> \notin crossed /\ JobsOK /\ JobsOK'
  BY HistoryGrows DEF GiftInv, TypeInv
<1>2. Idle.at = "idle"
  BY DEF Idle
<1>3. ASSUME NEW h \in Handlers, Step(h) PROVE Gifts'
  <2>1. CASE AddFriendPoints(h) \/ SetGivePoints(h)
    BY <1>1, <2>1, CollectGifts, EmptyGifts
  <2>2. CASE ~ (AddFriendPoints(h) \/ SetGivePoints(h))
    <3>1. \A g \in Handlers : g # h => job'[g] = job[g]
      BY <1>1, <1>3, OtherJobsKept
    <3>2. job[h].at \notin {"collect", "empty"} /\ ~ At(h, "idle")
      BY <1>3, <2>2
      DEF Step, LookAtFriends, CheckAndAdd, AddToOther, AddToOwn, RemoveReq, ForgetFriend,
          GetMessageIds, RemoveMessages, RemoveIds, LookAtLastGive, StoreFirstGift, StoreGift,
          SetLastGiveTime, IncbyGiveNumToday, CheckUnreadNumFull, AddMessage, AddNewMessageId,
          UndoMessage, At
    <3>3. job'[h].at \notin {"collect", "empty"}
      BY <1>1, <1>2, <1>3, <2>2, SteppedTo
    <3>4. \A p, q \in Players :
            \/ claims'[p][q] = 0
            \/ claims'[p][q] = claims[p][q] /\ (Gift(p, q)' > 0 => Gift(p, q) > 0)
      <4>1. CASE ForgetFriend(h)
        <5>1. Owner(h) \in Players /\ Peer(h) \in Players
          BY <1>1, <3>2, JobFacts
        <5>2. points \in [Players -> [Players -> {None} \cup GiftRecord]]
          BY DEF TypeInv, DataOK
        <5>3. \A p, q \in Players : points'[p][q] = IF p = Owner(h) /\ q = Peer(h) THEN None
                                                    ELSE points[p][q]
          BY <4>1, <5>1, <5>2, EntryChanged DEF ForgetFriend
        <5> QED
          BY <4>1, <5>3 DEF ForgetFriend, Gift
      <4>2. CASE StoreFirstGift(h) \/ StoreGift(h) \/ SetLastGiveTime(h)
        BY <1>1, <4>2, StoreGifts, StampGifts
      <4>3. CASE ~ (ForgetFriend(h) \/ StoreFirstGift(h) \/ StoreGift(h) \/ SetLastGiveTime(h))
        <5>1. UNCHANGED <<points, claims>>
          BY <1>3, <2>2, <4>3
          DEF Step, LookAtFriends, CheckAndAdd, AddToOther, AddToOwn, RemoveReq,
              GetMessageIds, RemoveMessages, RemoveIds, LookAtLastGive, IncbyGiveNumToday,
              CheckUnreadNumFull, AddMessage, AddNewMessageId, UndoMessage, data
        <5> QED
          BY <5>1 DEF Gift
      <4> QED
        BY <4>1, <4>2, <4>3
    <3> QED
      BY <1>1, <3>1, <3>2, <3>3, <3>4, GiftsKept
  <2> QED
    BY <2>1, <2>2
<1>4. ASSUME NEW h \in Handlers, NEW p \in Players, NEW q \in Players, Request(h, p, q)
      PROVE  Gifts'
  <2>1. CASE GetFriendPoints(h, p, q)
    BY <1>1, <2>1, GetBeginsGifts
  <2>2. CASE ~ GetFriendPoints(h, p, q)
    <3>1. \A g \in Handlers : g # h => job'[g] = job[g]
      BY <1>1, <1>4, OtherJobsKept
    <3>2. job[h].at = "idle" /\ UNCHANGED <<points, claims>>
      BY <1>4, <2>2
      DEF Request, AddFriend, AgreeAddFriend, RefuseAddFriend, RemoveFriend, GiveFriendPoints,
          FriendChat, ConfirmUnread, Begin, At, data
    <3>3. job'[h].at \notin {"collect", "empty"}
      BY <1>1, <1>4, <2>2, BegunAt
    <3>4. \A a, b \in Players : claims'[a][b] = claims[a][b] /\ Gift(a, b)' = Gift(a, b)
      BY <3>2 DEF Gift
    <3> QED
      BY <1>1, <3>1, <3>2, <3>3, <3>4, GiftsKept
  <2> QED
    BY <2>1, <2>2
<1>5. ASSUME NEW h \in Handlers, CallFails(h) PROVE Gifts'
  <2>1. \A g \in Handlers : g # h => job'[g] = job[g]
    BY <1>1, <1>5, OtherJobsKept
  <2>2. job[h].at \notin {"collect", "empty"} /\ UNCHANGED <<points, claims>>
    BY <1>5 DEF CallFails, There, FirstThere, data
  <2>3. job'[h].at \in {job[h].at, "idle", "give_num"}
    BY <1>1, <1>2, <1>5 DEF CallFails, Goto, Done, JobsOK, JobOK, JobRecord
  <2>4. \A a, b \in Players : claims'[a][b] = claims[a][b] /\ Gift(a, b)' = Gift(a, b)
    BY <2>2 DEF Gift
  <2> QED
    BY <1>1, <2>1, <2>2, <2>3, <2>4, GiftsKept
<1>6. CASE NewDay
  <2>1. \A g \in GiftRecord : [g EXCEPT !.today = FALSE].gift = g.gift
    BY DEF GiftRecord
  <2>2. \A p, q \in Players :
          claims'[p][q] = claims[p][q] /\ (Gift(p, q)' > 0 => Gift(p, q) > 0)
    <3>1. \A p, q \in Players : points'[p][q] =
            IF points[p][q] = None THEN None ELSE [points[p][q] EXCEPT !.today = FALSE]
      BY <1>6 DEF NewDay
    <3>2. \A p, q \in Players : points[p][q] # None => points[p][q] \in GiftRecord
      BY DEF TypeInv, DataOK
    <3>3. \A p, q \in Players : points[p][q] # None =>
            [points[p][q] EXCEPT !.today = FALSE].gift = points[p][q].gift
      BY <2>1, <3>2
    <3> QED
      BY <1>6, <3>1, <3>3 DEF NewDay, Gift
  <2>3. \A g \in Handlers : /\ job'[g].at = job[g].at
                            /\ job'[g].me = job[g].me /\ job'[g].id = job[g].id
    BY <1>1, <1>6, NewDayJobs
  <2> QED
    BY <1>1, <2>2, <2>3, GiftsKept
<1>7. CASE UNCHANGED vars
  BY <1>1, <1>7 DEF vars, Gifts, OnceOnly, Gift
<1> QED
  BY <1>3, <1>4, <1>5, <1>6, <1>7 DEF Next

\* No gift is collected twice, whatever the number of givers, whether the next gift is stored or
\* the friend removed while it is collected, and however the days pass: the gift stored last has
\* been collected at most once, and nothing is left of it when its collector is through.  The
\* one thing that must not happen is that two requests collect the gift of one friend at once.
THEOREM GiftCollectedOnce == Spec => []GiftClaimedOnce
<1>1. TypeInv /\ GiftInv => GiftClaimedOnce
  BY DEF GiftInv, Gifts, OnceOnly, GiftClaimedOnce
<1> QED
  BY <1>1, TypeInvariant, OverlapInit, OverlapStep, GiftInit, GiftStep, PTL DEF Spec

-----------------------------------------------------------------------------
(* Unread messages and their ids. *)

IdsOf(s) == {s[i] : i \in DOMAIN s}

\* The ids in the row of p of the messages of q: those listed, those that have a message.
Listed(p, q) == IdsOf(UnreadIds(p, q))
Stored(p, q) == {n \in Ids : <<q, n>> \in messages[p]}

ListedOnce(p, q) ==
  \A i, k \in DOMAIN UnreadIds(p, q) : i # k => UnreadIds(p, q)[i] # UnreadIds(p, q)[k]

\* Ids whose messages are in the hands of j: a chat that has not listed its id yet or must take
\* its message back, a confirmation that has not removed yet what it took from the list.
HeldBy(j, p, q) ==
  {n \in Ids : \/ j.at \in {"append", "undo"} /\ j.me = q /\ j.id = p /\ n = j.seen
               \/ /\ j.op = "confirm" /\ j.at = "erase" /\ j.me = p /\ j.id = q
                  /\ n \in IdsOf(j.seen)}

\* How far j is with removing the messages of q from the row of p.
Clearing(j, p, q) ==
  IF /\ j.op = "remove" /\ j.at \in {"ids", "erase", "drop"}
     /\ p = IF j.side = "there" THEN j.id ELSE j.me
     /\ q = IF j.side = "there" THEN j.me ELSE j.id
    THEN j.at ELSE "no"

\* Every message is listed or in one handler's hands, and not both; a listed id has its message
\* until a removal has erased the messages it saw listed, which were all.
ListedHaveMessages(p, q) ==
  (\A g \in Handlers : Clearing(job[g], p, q) # "drop") => Listed(p, q) \subseteq Stored(p, q)
HeldAreUnlisted(p, q) ==
  \A g \in Handlers : HeldBy(job[g], p, q) \subseteq Stored(p, q) \ Listed(p, q)
HeldByOne(p, q) ==
  \A g, k \in Handlers : g # k => HeldBy(job[g], p, q) \cap HeldBy(job[k], p, q) = {}
NoneLost(p, q) ==
  \A n \in Stored(p, q) : n \in Listed(p, q) \/ \E g \in Handlers : n \in HeldBy(job[g], p, q)
NoFriends(p, q) ==
  \A g \in Handlers : Clearing(job[g], p, q) # "no" => q \notin friends[p]
AllSeen(p, q) ==
  \A g \in Handlers : Clearing(job[g], p, q) = "erase" =>
    /\ Listed(p, q) \subseteq IdsOf(job[g].seen)
    /\ \A k \in Handlers : IdsOf(job[g].seen) \cap HeldBy(job[k], p, q) = {}
AllErased(p, q) ==
  \A g \in Handlers : Clearing(job[g], p, q) = "drop" => Listed(p, q) \cap Stored(p, q) = {}

Matched(p, q) ==
  /\ ListedOnce(p, q) /\ ListedHaveMessages(p, q)
  /\ HeldAreUnlisted(p, q) /\ HeldByOne(p, q) /\ NoneLost(p, q)
  /\ NoFriends(p, q) /\ AllSeen(p, q) /\ AllErased(p, q)

MessagesInv == ~ RemovedMeanwhile => \A p, q \in Players : Matched(p, q)

\* A job that is elsewhere holds no message and clears no row.
Elsewhere(j) == j.at \notin {"append", "undo", "erase", "ids", "drop"}

LEMMA ElsewhereHoldsNothing ==
  ASSUME NEW j, Elsewhere(j), NEW p, NEW q
  PROVE  HeldBy(j, p, q) = {} /\ Clearing(j, p, q) = "no"
BY DEF Elsewhere, HeldBy, Clearing

LEMMA IdleElsewhere == Elsewhere(Idle)
BY DEF Elsewhere, Idle

\* A chat or an agreement of a pair, and no removal clears their rows.
LEMMA NothingCleared ==
  ASSUME OverlapKept, ~ RemovedMeanwhile, NEW h \in Handlers, job[h].op \in {"chat", "agree"},
         NEW p, NEW q, NEW g \in Handlers,
         \/ job[h].me = p /\ job[h].id = q
         \/ job[h].me = q /\ job[h].id = p
  PROVE  Clearing(job[g], p, q) = "no"
<1> SUFFICES ASSUME Clearing(job[g], p, q) # "no" PROVE FALSE
  OBVIOUS
<1>1. job[g].op = "remove" /\ {job[g].me, job[g].id} = {p, q}
  BY DEF Clearing
<1>2. Clash(job[h], job[g])
  BY <1>1 DEF Clash, Clashes
<1>3. h # g
  BY <1>1
<1>4. <<job[h].op, "remove">> \in crossed
  BY <1>1, <1>2, <1>3, ClashOverlaps DEF OverlapKept
<1> QED
  BY <1>4 DEF RemovedMeanwhile

\* What the steps do to the box of one pair, in terms of what is listed, stored, held and cleared.

LEMMA MatchedKept ==
  ASSUME NEW p \in Players, NEW q \in Players, Matched(p, q),
         UnreadIds(p, q)' = UnreadIds(p, q), Stored(p, q)' = Stored(p, q),
         \/ q \in friends'[p] => q \in friends[p]
         \/ \A g \in Handlers : Clearing(job[g], p, q) = "no",
         \A g \in Handlers :
           /\ HeldBy(job'[g], p, q) = HeldBy(job[g], p, q)
           /\ \/ Clearing(job'[g], p, q) = Clearing(job[g], p, q)
                 /\ job'[g].seen = job[g].seen
              \/ Clearing(job'[g], p, q) = "no" /\ Clearing(job[g], p, q) # "drop"
  PROVE  Matched(p, q)'
<1>1. Listed(p, q)' = Listed(p, q) /\ ListedOnce(p, q)'
  BY DEF Listed, Matched, ListedOnce
<1>2. ListedHaveMessages(p, q)' /\ HeldAreUnlisted(p, q)'
  BY <1>1 DEF Matched, ListedHaveMessages, HeldAreUnlisted
<1>3. HeldByOne(p, q)' /\ NoneLost(p, q)'
  BY <1>1 DEF Matched, HeldByOne, NoneLost
<1>4. NoFriends(p, q)'
  BY DEF Matched, NoFriends
<1>5. AllSeen(p, q)' /\ AllErased(p, q)'
  BY <1>1 DEF Matched, AllSeen, AllErased
<1> QED
  BY <1>1, <1>2, <1>3, <1>4, <1>5 DEF Matched

\* A chat stores its message under an id that has none.
LEMMA MatchedMessage ==
  ASSUME NEW p \in Players, NEW q \in Players, Matched(p, q), NEW h \in Handlers, NEW n \in Ids,
         UnreadIds(p, q)' = UnreadIds(p, q),
         n \notin Stored(p, q), Stored(p, q)' = Stored(p, q) \cup {n},
         \A g \in Handlers : Clearing(job[g], p, q) = "no",
         \A g \in Handlers : Clearing(job'[g], p, q) = "no",
         \A g \in Handlers : g # h => job'[g] = job[g],
         HeldBy(job[h], p, q) = {}, HeldBy(job'[h], p, q) = {n}
  PROVE  Matched(p, q)'
<1>1. Listed(p, q)' = Listed(p, q) /\ ListedOnce(p, q)'
  BY DEF Listed, Matched, ListedOnce
<1>2. Listed(p, q) \subseteq Stored(p, q)
  BY DEF Matched, ListedHaveMessages
<1>3. \A g \in Handlers : g # h => HeldBy(job'[g], p, q) = HeldBy(job[g], p, q)
  OBVIOUS
<1>4. ListedHaveMessages(p, q)' /\ HeldAreUnlisted(p, q)'
  BY <1>1, <1>2, <1>3 DEF Matched, ListedHaveMessages, HeldAreUnlisted
<1>5. HeldByOne(p, q)'
  BY <1>3 DEF Matched, HeldByOne, HeldAreUnlisted
<1>6. NoneLost(p, q)'
  BY <1>1, <1>3 DEF Matched, NoneLost
<1>7. NoFriends(p, q)' /\ AllSeen(p, q)' /\ AllErased(p, q)'
  BY DEF NoFriends, AllSeen, AllErased
<1> QED
  BY <1>1, <1>4, <1>5, <1>6, <1>7 DEF Matched

\* A chat lists the id of its message.
LEMMA MatchedAppend ==
  ASSUME NEW p \in Players, NEW q \in Players, Matched(p, q), NEW h \in Handlers, NEW n \in Ids,
         UnreadIds(p, q) \in Seq(Ids), UnreadIds(p, q)' = Append(UnreadIds(p, q), n),
         Stored(p, q)' = Stored(p, q),
         \A g \in Handlers : Clearing(job[g], p, q) = "no",
         \A g \in Handlers : Clearing(job'[g], p, q) = "no",
         \A g \in Handlers : g # h => job'[g] = job[g],
         HeldBy(job[h], p, q) = {n}, HeldBy(job'[h], p, q) = {}
  PROVE  Matched(p, q)'
<1>1. n \in Stored(p, q) /\ n \notin Listed(p, q)
  BY DEF Matched, HeldAreUnlisted
<1>2. Listed(p, q)' = Listed(p, q) \cup {n}
  BY DEF Listed, IdsOf
<1>3. ListedOnce(p, q)'
  BY <1>1 DEF Listed, IdsOf, Matched, ListedOnce
<1>4. Listed(p, q) \subseteq Stored(p, q)
  BY DEF Matched, ListedHaveMessages
<1>5. \A g \in Handlers : g # h => HeldBy(job'[g], p, q) = HeldBy(job[g], p, q)
  OBVIOUS
<1>6. \A g \in Handlers : g # h => n \notin HeldBy(job[g], p, q)
  BY DEF Matched, HeldByOne
<1>7. ListedHaveMessages(p, q)' /\ HeldAreUnlisted(p, q)'
  BY <1>1, <1>2, <1>4, <1>5, <1>6 DEF Matched, ListedHaveMessages, HeldAreUnlisted
<1>8. HeldByOne(p, q)'
  BY <1>5 DEF Matched, HeldByOne
<1>9. NoneLost(p, q)'
  BY <1>2, <1>5 DEF Matched, NoneLost
<1>10. NoFriends(p, q)' /\ AllSeen(p, q)' /\ AllErased(p, q)'
  BY DEF NoFriends, AllSeen, AllErased
<1> QED
  BY <1>3, <1>7, <1>8, <1>9, <1>10 DEF Matched

\* A chat takes its message back, or a confirmation removes the messages it took from the list.
LEMMA MatchedRelease ==
  ASSUME NEW p \in Players, NEW q \in Players, Matched(p, q), NEW h \in Handlers,
         UnreadIds(p, q)' = UnreadIds(p, q),
         Stored(p, q)' = Stored(p, q) \ HeldBy(job[h], p, q), UNCHANGED friends,
         Clearing(job[h], p, q) = "no", Clearing(job'[h], p, q) = "no",
         \A g \in Handlers : g # h => job'[g] = job[g],
         HeldBy(job'[h], p, q) = {}
  PROVE  Matched(p, q)'
<1>1. Listed(p, q)' = Listed(p, q) /\ ListedOnce(p, q)'
  BY DEF Listed, Matched, ListedOnce
<1>2. \A g \in Handlers :
        /\ g # h => HeldBy(job'[g], p, q) = HeldBy(job[g], p, q)
        /\ Clearing(job'[g], p, q) = Clearing(job[g], p, q)
        /\ Clearing(job[g], p, q) # "no" => job'[g] = job[g]
  OBVIOUS
<1>3. Listed(p, q) \cap HeldBy(job[h], p, q) = {}
  BY DEF Matched, HeldAreUnlisted
<1>4. \A g \in Handlers : g # h => HeldBy(job[g], p, q) \cap HeldBy(job[h], p, q) = {}
  BY DEF Matched, HeldByOne
<1>5. ListedHaveMessages(p, q)' /\ HeldAreUnlisted(p, q)'
  BY <1>1, <1>2, <1>3, <1>4 DEF Matched, ListedHaveMessages, HeldAreUnlisted
<1>6. HeldByOne(p, q)'
  BY <1>2 DEF Matched, HeldByOne
<1>7. NoneLost(p, q)'
  BY <1>1, <1>2 DEF Matched, NoneLost
<1>8. NoFriends(p, q)' /\ AllErased(p, q)'
  BY <1>1, <1>2 DEF Matched, NoFriends, AllErased
<1>9. AllSeen(p, q)'
  BY <1>1, <1>2 DEF Matched, AllSeen
<1> QED
  BY <1>1, <1>5, <1>6, <1>7, <1>8, <1>9 DEF Matched

\* A confirmation takes ids from the list, and goes on to remove their messages.
LEMMA MatchedTaken ==
  ASSUME NEW p \in Players, NEW q \in Players, Matched(p, q), NEW h \in Handlers,
         Listed(p, q) = Listed(p, q)' \cup HeldBy(job'[h], p, q),
         Listed(p, q)' \cap HeldBy(job'[h], p, q) = {}, ListedOnce(p, q)',
         Stored(p, q)' = Stored(p, q), q \in friends[p],
         Clearing(job'[h], p, q) = "no",
         \A g \in Handlers : g # h => job'[g] = job[g],
         HeldBy(job[h], p, q) = {}
  PROVE  Matched(p, q)'
<1>1. \A g \in Handlers : Clearing(job[g], p, q) = "no" /\ Clearing(job'[g], p, q) = "no"
  BY DEF Matched, NoFriends
<1>2. Listed(p, q) \subseteq Stored(p, q)
  BY <1>1 DEF Matched, ListedHaveMessages
<1>3. \A g \in Handlers : g # h => HeldBy(job'[g], p, q) = HeldBy(job[g], p, q)
  OBVIOUS
<1>4. ListedHaveMessages(p, q)' /\ HeldAreUnlisted(p, q)'
  BY <1>2, <1>3 DEF Matched, ListedHaveMessages, HeldAreUnlisted
<1>5. HeldByOne(p, q)'
  BY <1>3 DEF Matched, HeldByOne, HeldAreUnlisted
<1>6. NoneLost(p, q)'
  BY <1>3 DEF Matched, NoneLost
<1>7. NoFriends(p, q)' /\ AllSeen(p, q)' /\ AllErased(p, q)'
  BY <1>1 DEF NoFriends, AllSeen, AllErased
<1> QED
  BY <1>4, <1>5, <1>6, <1>7 DEF Matched
\* A removal takes the friend out of the row, and will look at the ids.
LEMMA MatchedForget ==
  ASSUME NEW p \in Players, NEW q \in Players, Matched(p, q), NEW h \in Handlers,
         UnreadIds(p, q)' = UnreadIds(p, q), Stored(p, q)' = Stored(p, q), q \notin friends'[p],
         Clearing(job[h], p, q) = "no", Clearing(job'[h], p, q) = "ids",
         \A g \in Handlers : g # h => job'[g] = job[g],
         HeldBy(job[h], p, q) = {}, HeldBy(job'[h], p, q) = {}
  PROVE  Matched(p, q)'
<1>1. Listed(p, q)' = Listed(p, q) /\ ListedOnce(p, q)'
  BY DEF Listed, Matched, ListedOnce
<1>2. \A g \in Handlers : /\ HeldBy(job'[g], p, q) = HeldBy(job[g], p, q)
                          /\ g # h => Clearing(job'[g], p, q) = Clearing(job[g], p, q)
  OBVIOUS
<1>3. ListedHaveMessages(p, q)' /\ HeldAreUnlisted(p, q)'
  BY <1>1, <1>2 DEF Matched, ListedHaveMessages, HeldAreUnlisted
<1>4. HeldByOne(p, q)' /\ NoneLost(p, q)'
  BY <1>1, <1>2 DEF Matched, HeldByOne, NoneLost
<1>5. NoFriends(p, q)' /\ AllErased(p, q)'
  BY <1>1, <1>2 DEF Matched, NoFriends, AllErased
<1>6. AllSeen(p, q)'
  BY <1>1, <1>2 DEF Matched, AllSeen
<1> QED
  BY <1>1, <1>3, <1>4, <1>5, <1>6 DEF Matched

\* It sees all ids that are listed.
LEMMA MatchedSeen ==
  ASSUME NEW p \in Players, NEW q \in Players, Matched(p, q), NEW h \in Handlers,
         UnreadIds(p, q)' = UnreadIds(p, q), Stored(p, q)' = Stored(p, q), UNCHANGED friends,
         Clearing(job[h], p, q) = "ids", Clearing(job'[h], p, q) = "erase",
         IdsOf(job'[h].seen) = Listed(p, q),
         \A g \in Handlers : g # h => job'[g] = job[g],
         HeldBy(job[h], p, q) = {}, HeldBy(job'[h], p, q) = {}
  PROVE  Matched(p, q)'
<1>1. Listed(p, q)' = Listed(p, q) /\ ListedOnce(p, q)'
  BY DEF Listed, Matched, ListedOnce
<1>2. \A g \in Handlers : /\ HeldBy(job'[g], p, q) = HeldBy(job[g], p, q)
                          /\ g # h => Clearing(job'[g], p, q) = Clearing(job[g], p, q)
  OBVIOUS
<1>3. ListedHaveMessages(p, q)' /\ HeldAreUnlisted(p, q)'
  BY <1>1, <1>2 DEF Matched, ListedHaveMessages, HeldAreUnlisted
<1>4. HeldByOne(p, q)' /\ NoneLost(p, q)'
  BY <1>1, <1>2 DEF Matched, HeldByOne, NoneLost
<1>5. NoFriends(p, q)' /\ AllErased(p, q)'
  BY <1>1, <1>2 DEF Matched, NoFriends, AllErased
<1>6. AllSeen(p, q)'
  BY <1>1, <1>2 DEF Matched, AllSeen, HeldAreUnlisted
<1> QED
  BY <1>1, <1>3, <1>4, <1>5, <1>6 DEF Matched

\* It erases their messages.
LEMMA MatchedErased ==
  ASSUME NEW p \in Players, NEW q \in Players, Matched(p, q), NEW h \in Handlers,
         UnreadIds(p, q)' = UnreadIds(p, q),
         Stored(p, q)' = Stored(p, q) \ IdsOf(job[h].seen), UNCHANGED friends,
         Clearing(job[h], p, q) = "erase", Clearing(job'[h], p, q) = "drop",
         \A g \in Handlers : g # h => job'[g] = job[g],
         HeldBy(job[h], p, q) = {}, HeldBy(job'[h], p, q) = {}
  PROVE  Matched(p, q)'
<1>1. Listed(p, q)' = Listed(p, q) /\ ListedOnce(p, q)'
  BY DEF Listed, Matched, ListedOnce
<1>2. \A g \in Handlers : /\ HeldBy(job'[g], p, q) = HeldBy(job[g], p, q)
                          /\ g # h => Clearing(job'[g], p, q) = Clearing(job[g], p, q)
  OBVIOUS
<1>3. /\ Listed(p, q) \subseteq IdsOf(job[h].seen)
      /\ \A k \in Handlers : IdsOf(job[h].seen) \cap HeldBy(job[k], p, q) = {}
  BY DEF Matched, AllSeen
<1>4. ListedHaveMessages(p, q)' /\ HeldAreUnlisted(p, q)'
  BY <1>1, <1>2, <1>3 DEF Matched, ListedHaveMessages, HeldAreUnlisted
<1>5. HeldByOne(p, q)'
  BY <1>2 DEF Matched, HeldByOne
<1>6. NoneLost(p, q)'
  BY <1>1, <1>2 DEF Matched, NoneLost
<1>7. NoFriends(p, q)'
  BY <1>2 DEF Matched, NoFriends
<1>8. AllErased(p, q)'
  BY <1>1, <1>2, <1>3 DEF AllErased
<1>9. AllSeen(p, q)'
  BY <1>1, <1>2 DEF Matched, AllSeen
<1> QED
  BY <1>1, <1>4, <1>5, <1>6, <1>7, <1>8, <1>9 DEF Matched

\* It drops the ids.
LEMMA MatchedDropped ==
  ASSUME NEW p \in Players, NEW q \in Players, Matched(p, q), NEW h \in Handlers,
         UnreadIds(p, q)' = <<>>, Stored(p, q)' = Stored(p, q), UNCHANGED friends,
         Clearing(job[h], p, q) = "drop", Clearing(job'[h], p, q) = "no",
         \A g \in Handlers : g # h => job'[g] = job[g],
         HeldBy(job[h], p, q) = {}, HeldBy(job'[h], p, q) = {}
  PROVE  Matched(p, q)'
<1>1. Listed(p, q)' = {} /\ ListedOnce(p, q)'
  BY DEF Listed, IdsOf, ListedOnce
<1>2. \A g \in Handlers : /\ HeldBy(job'[g], p, q) = HeldBy(job[g], p, q)
                          /\ g # h => Clearing(job'[g], p, q) = Clearing(job[g], p, q)
  OBVIOUS
<1>3. Listed(p, q) \cap Stored(p, q) = {}
  BY DEF Matched, AllErased
<1>4. ListedHaveMessages(p, q)' /\ HeldAreUnlisted(p, q)'
  BY <1>1, <1>2 DEF Matched, ListedHaveMessages, HeldAreUnlisted
<1>5. HeldByOne(p, q)'
  BY <1>2 DEF Matched, HeldByOne
<1>6. NoneLost(p, q)'
  BY <1>2, <1>3 DEF Matched, NoneLost
<1>7. NoFriends(p, q)' /\ AllErased(p, q)'
  BY <1>1, <1>2 DEF Matched, NoFriends, AllErased
<1>8. AllSeen(p, q)'
  BY <1>1, <1>2 DEF Matched, AllSeen
<1> QED
  BY <1>1, <1>4, <1>5, <1>6, <1>7, <1>8 DEF Matched

\* What the steps change of the boxes.

LEMMA BoxesUnchanged ==
  UNCHANGED <<unread, messages>> =>
    \A p, q \in Players : /\ UnreadIds(p, q)' = UnreadIds(p, q)
                          /\ Stored(p, q)' = Stored(p, q)
BY DEF UnreadIds, Stored

\* A step that is about no message: its job is elsewhere before and after.
LEMMA ElsewhereMatched ==
  ASSUME NEW h \in Handlers, \A g \in Handlers : g # h => job'[g] = job[g],
         Elsewhere(job[h]), Elsewhere(job'[h]),
         NEW p \in Players, NEW q \in Players, Matched(p, q),
         UnreadIds(p, q)' = UnreadIds(p, q), Stored(p, q)' = Stored(p, q),
         \/ q \in friends'[p] => q \in friends[p]
         \/ \A g \in Handlers : Clearing(job[g], p, q) = "no"
  PROVE  Matched(p, q)'
<1>1. \A g \in Handlers :
        /\ HeldBy(job'[g], p, q) = HeldBy(job[g], p, q)
        /\ \/ Clearing(job'[g], p, q) = Clearing(job[g], p, q) /\ job'[g].seen = job[g].seen
           \/ Clearing(job'[g], p, q) = "no" /\ Clearing(job[g], p, q) # "drop"
  BY ElsewhereHoldsNothing
<1> QED
  BY <1>1, MatchedKept
\* A chat finds the id of its message: no id is listed yet.
LEMMA NextIdMatched ==
  ASSUME TypeInv, \A p, q \in Players : Matched(p, q), NEW h \in Handlers, CheckUnreadNumFull(h)
  PROVE  \A p, q \in Players : Matched(p, q)'
<1> DEFINE d == unread[Id(h)][Me(h)]
<1>1. /\ At(h, "next_id") /\ ~ At(h, "idle") /\ Me(h) \in Players /\ Id(h) \in Players
      /\ UNCHANGED <<friends, messages>>
  BY JobFacts DEF CheckUnreadNumFull, At, TypeInv
<1>2. \A g \in Handlers : g # h => job'[g] = job[g]
  BY OtherJobsKept DEF TypeInv, Step
<1>3. Elsewhere(job[h]) /\ Elsewhere(job'[h])
  <2>1. job'[h] = Idle \/ job'[h].at = "message"
    BY DEF CheckUnreadNumFull, Done, TypeInv, JobsOK, JobOK, JobRecord
  <2> QED
    BY <1>1, <2>1, IdleElsewhere DEF Elsewhere, At
<1>4. unread \in [Players -> [Players -> {None} \cup Box]]
  BY DEF TypeInv, DataOK
<1>5. ASSUME NEW p \in Players, NEW q \in Players PROVE UnreadIds(p, q)' = UnreadIds(p, q)
  <2>1. CASE UNCHANGED unread
    BY <2>1 DEF UnreadIds
  <2>2. CASE d # None /\ unread' = [unread EXCEPT ![Id(h)][Me(h)].cur = NextId(d)]
    <3> DEFINE e == [d EXCEPT !.cur = NextId(d)]
    <3>1. d \in Box
      BY <1>1, <1>4, <2>2
    <3>2. e \in Box /\ e.ids = d.ids
      BY <3>1, NextIdIsId DEF Box, Ids, FriendsAssumption
    <3>3. e # None
      BY <3>2, NoneIsNothing
    <3>4. unread' = [unread EXCEPT ![Id(h)][Me(h)] = e]
      BY <2>2
    <3>5. unread'[p][q] = IF p = Id(h) /\ q = Me(h) THEN e ELSE unread[p][q]
      <4> HIDE DEF e
      <4> QED
        BY <1>1, <1>4, <3>4, EntryChanged
    <3> QED
      BY <2>2, <3>2, <3>3, <3>5 DEF UnreadIds
  <2> QED
    BY <2>1, <2>2 DEF CheckUnreadNumFull
<1>6. \A p, q \in Players : Stored(p, q)' = Stored(p, q)
  BY <1>1 DEF Stored
<1> QED
  BY <1>1, <1>2, <1>3, <1>5, <1>6, ElsewhereMatched

LEMMA MessageMatched ==
  ASSUME TypeInv, OverlapKept, ~ RemovedMeanwhile, \A p, q \in Players : Matched(p, q),
         NEW h \in Handlers, AddMessage(h)
  PROVE  \A p, q \in Players : Matched(p, q)'
<1> DEFINE n == job[h].seen
           m == <<Me(h), n>>
<1>1. /\ At(h, "message") /\ ~ At(h, "idle") /\ Me(h) \in Players /\ Id(h) \in Players
      /\ n \in Ids /\ job[h].op = "chat" /\ UNCHANGED <<friends, unread>>
      /\ messages' = [messages EXCEPT ![Id(h)] = @ \cup {m}]
  BY JobFacts DEF AddMessage, At, TypeInv, OpAt
<1>2. \A g \in Handlers : g # h => job'[g] = job[g]
  BY OtherJobsKept DEF TypeInv, Step
<1>3. Elsewhere(job[h])
  BY <1>1 DEF Elsewhere, At
<1>4. ASSUME NEW p \in Players, NEW q \in Players
      PROVE  /\ UnreadIds(p, q)' = UnreadIds(p, q)
             /\ Stored(p, q)' = IF p = Id(h) /\ q = Me(h) THEN Stored(p, q) \cup {n}
                                ELSE Stored(p, q)
  <2>1. UnreadIds(p, q)' = UnreadIds(p, q)
    BY <1>1 DEF UnreadIds
  <2>2. CASE p = Id(h)
    <3>1. messages'[p] = messages[p] \cup {m}
      BY <1>1, <2>2 DEF TypeInv, DataOK
    <3> QED
      BY <1>1, <2>1, <2>2, <3>1 DEF Stored
  <2>3. CASE p # Id(h)
    BY <1>1, <2>1, <2>3 DEF Stored, TypeInv, DataOK
  <2> QED
    BY <2>2, <2>3
<1>5. CASE m \in messages[Id(h)]
  <2>1. job'[h] = Idle
    BY <1>5 DEF AddMessage, Done, TypeInv, JobsOK
  <2>2. \A p, q \in Players : Stored(p, q)' = Stored(p, q)
    <3>1. n \in Stored(Id(h), Me(h))
      BY <1>1, <1>5 DEF Stored
    <3> QED
      BY <1>4, <3>1
  <2> QED
    BY <1>1, <1>2, <1>3, <1>4, <2>1, <2>2, IdleElsewhere, ElsewhereMatched
<1>6. CASE m \notin messages[Id(h)]
  <2>1. /\ job'[h].at = "append" /\ job'[h].op = "chat" /\ job'[h].seen = n
        /\ job'[h].me = Me(h) /\ job'[h].id = Id(h)
    BY <1>1, <1>6 DEF AddMessage, Goto, Me, Id, TypeInv, JobsOK, JobOK, JobRecord
  <2>2. \A p, q \in Players :
          /\ HeldBy(job[h], p, q) = {} /\ Clearing(job[h], p, q) = "no"
          /\ HeldBy(job'[h], p, q) = IF p = Id(h) /\ q = Me(h) THEN {n} ELSE {}
          /\ Clearing(job'[h], p, q) = "no"
    BY <1>1, <1>3, <2>1, ElsewhereHoldsNothing DEF HeldBy, Clearing
  <2>3. ASSUME NEW p \in Players, NEW q \in Players PROVE Matched(p, q)'
    <3>1. CASE p = Id(h) /\ q = Me(h)
      <4>1. \A g \in Handlers : Clearing(job[g], p, q) = "no"
        BY <1>1, <3>1, NothingCleared DEF Me, Id
      <4>2. \A g \in Handlers : Clearing(job'[g], p, q) = "no"
        BY <1>2, <2>2, <4>1
      <4>3. n \notin Stored(p, q)
        BY <1>6, <3>1 DEF Stored
      <4> QED
        BY <1>1, <1>2, <1>4, <2>2, <3>1, <4>1, <4>2, <4>3, MatchedMessage
    <3>2. CASE ~ (p = Id(h) /\ q = Me(h))
      <4>1. \A g \in Handlers :
              /\ HeldBy(job'[g], p, q) = HeldBy(job[g], p, q)
              /\ \/ Clearing(job'[g], p, q) = Clearing(job[g], p, q)
                    /\ job'[g].seen = job[g].seen
                 \/ Clearing(job'[g], p, q) = "no" /\ Clearing(job[g], p, q) # "drop"
        BY <1>2, <2>2, <3>2
      <4> QED
        BY <1>1, <1>4, <3>2, <4>1, MatchedKept
    <3> QED
      BY <3>1, <3>2
  <2> QED
    BY <2>3
<1> QED
  BY <1>5, <1>6

LEMMA AppendMatched ==
  ASSUME TypeInv, OverlapKept, ~ RemovedMeanwhile, \A p, q \in Players : Matched(p, q),
         NEW h \in Handlers, AddNewMessageId(h)
  PROVE  \A p, q \in Players : Matched(p, q)'
<1> DEFINE n == job[h].seen
           d == unread[Id(h)][Me(h)]
<1>1. /\ job[h].at = "append" /\ ~ At(h, "idle") /\ Me(h) \in Players /\ Id(h) \in Players
      /\ n \in Ids /\ job[h].op = "chat" /\ UNCHANGED <<friends, messages>>
  BY JobFacts DEF AddNewMessageId, At, TypeInv, OpAt
<1>2. \A g \in Handlers : g # h => job'[g] = job[g]
  BY OtherJobsKept DEF TypeInv, Step
<1>3. \A p, q \in Players : Stored(p, q)' = Stored(p, q)
  BY <1>1 DEF Stored
<1>4. \A p, q \in Players :
        /\ HeldBy(job[h], p, q) = IF p = Id(h) /\ q = Me(h) THEN {n} ELSE {}
        /\ Clearing(job[h], p, q) = "no"
  BY <1>1 DEF HeldBy, Clearing, Me, Id
<1>5. CASE Goto(h, "undo") /\ UNCHANGED unread
  <2>1. /\ job'[h].at = "undo" /\ job'[h].op = "chat" /\ job'[h].seen = n
        /\ job'[h].me = Me(h) /\ job'[h].id = Id(h)
    BY <1>1, <1>5 DEF Goto, Me, Id, TypeInv, JobsOK, JobOK, JobRecord
  <2>2. \A p, q \in Players :
          /\ HeldBy(job'[h], p, q) = IF p = Id(h) /\ q = Me(h) THEN {n} ELSE {}
          /\ Clearing(job'[h], p, q) = "no"
    BY <1>1, <2>1 DEF HeldBy, Clearing
  <2>3. \A p, q \in Players : \A g \in Handlers :
          /\ HeldBy(job'[g], p, q) = HeldBy(job[g], p, q)
          /\ Clearing(job'[g], p, q) = Clearing(job[g], p, q) /\ job'[g].seen = job[g].seen
    <3>1. job'[h].seen = job[h].seen
      BY <2>1
    <3>2. \A p, q \in Players : /\ HeldBy(job'[h], p, q) = HeldBy(job[h], p, q)
                                 /\ Clearing(job'[h], p, q) = Clearing(job[h], p, q)
      BY <1>4, <2>2
    <3> QED
      BY <1>2, <3>1, <3>2
  <2>4. \A p, q \in Players : UnreadIds(p, q)' = UnreadIds(p, q)
    BY <1>5 DEF UnreadIds
  <2> QED
    BY <1>1, <1>3, <2>3, <2>4, MatchedKept
<1>6. CASE /\ Done(h)
           /\ unread' = [unread EXCEPT ![Id(h)][Me(h)] =
                 IF d = None THEN [cur |-> 0, ids |-> <<n>>]
                 ELSE [d EXCEPT !.ids = Append(@, n)]]
  <2> DEFINE e == IF d = None THEN [cur |-> 0, ids |-> <<n>>] ELSE [d EXCEPT !.ids = Append(@, n)]
  <2>1. unread \in [Players -> [Players -> {None} \cup Box]]
    BY DEF TypeInv, DataOK
  <2>2. \A p, q \in Players : unread'[p][q] = IF p = Id(h) /\ q = Me(h) THEN e ELSE unread[p][q]
    <3>1. unread' = [unread EXCEPT ![Id(h)][Me(h)] = e]
      BY <1>6
    <3> HIDE DEF e
    <3> QED
      BY <1>1, <2>1, <3>1, EntryChanged
  <2>3. e # None /\ e.ids = Append(UnreadIds(Id(h), Me(h)), n)
    <3>1. CASE d = None
      <4>1. e = [cur |-> 0, ids |-> <<n>>]
        BY <3>1
      <4>2. e \in Box
        <5>1. <<n>> \in Seq(Ids) /\ Len(<<n>>) = 1
          BY <1>1
        <5>2. 0 \in 0..MaxUnread /\ 1 <= MaxUnread
          BY DEF FriendsAssumption
        <5> QED
          BY <4>1, <5>1, <5>2 DEF Box
      <4>3. Append(<<>>, n) = <<n>>
        OBVIOUS
      <4>4. UnreadIds(Id(h), Me(h)) = <<>>
        BY <3>1 DEF UnreadIds
      <4> QED
        BY <4>1, <4>2, <4>3, <4>4, NoneIsNothing
    <3>2. CASE d # None
      <4>1. d \in Box
        BY <1>1, <2>1, <3>2
      <4>2. e = [d EXCEPT !.ids = Append(d.ids, n)]
        BY <3>2
      <4>3. e.ids = Append(d.ids, n) /\ DOMAIN e = {"cur", "ids"}
        BY <4>1, <4>2 DEF Box
      <4>4. e # None
        <5>1. Append(d.ids, n) \in Seq(Ids) /\ d.cur \in 0..MaxUnread
          BY <1>1, <4>1 DEF Box
        <5>2. e \in [cur : 0..MaxUnread, ids : Seq(Ids)]
          BY <4>1, <4>2, <5>1 DEF Box
        <5> QED
          BY <5>2 DEF FriendsAssumption, Ids
      <4> QED
        BY <3>2, <4>3, <4>4 DEF UnreadIds
    <3> QED
      BY <3>1, <3>2
  <2>4. \A p, q \in Players :
          UnreadIds(p, q)' = IF p = Id(h) /\ q = Me(h) THEN Append(UnreadIds(p, q), n)
                             ELSE UnreadIds(p, q)
    <3> HIDE DEF e
    <3> QED
      BY <2>2, <2>3 DEF UnreadIds
  <2>5. job'[h] = Idle
    BY <1>6 DEF Done, TypeInv, JobsOK
  <2>6. \A p, q \in Players : HeldBy(job'[h], p, q) = {} /\ Clearing(job'[h], p, q) = "no"
    BY <2>5, IdleElsewhere, ElsewhereHoldsNothing
  <2>7. ASSUME NEW p \in Players, NEW q \in Players PROVE Matched(p, q)'
    <3>1. CASE p = Id(h) /\ q = Me(h)
      <4>1. \A g \in Handlers : Clearing(job[g], p, q) = "no"
        BY <1>1, <3>1, NothingCleared DEF Me, Id
      <4>2. \A g \in Handlers : Clearing(job'[g], p, q) = "no"
        BY <1>2, <2>6, <4>1
      <4>3. UnreadIds(p, q) \in Seq(Ids)
        <5>1. unread[p][q] # None => unread[p][q].ids \in Seq(Ids)
          BY <2>1 DEF Box
        <5> QED
          BY <5>1 DEF UnreadIds
      <4>4. UnreadIds(p, q)' = Append(UnreadIds(p, q), n)
        BY <2>4, <3>1
      <4>5. HeldBy(job[h], p, q) = {n} /\ HeldBy(job'[h], p, q) = {}
        BY <1>4, <2>6, <3>1
      <4> QED
        BY <1>1, <1>2, <1>3, <4>1, <4>2, <4>3, <4>4, <4>5, MatchedAppend
    <3>2. CASE ~ (p = Id(h) /\ q = Me(h))
      <4>1. \A g \in Handlers :
              /\ HeldBy(job'[g], p, q) = HeldBy(job[g], p, q)
              /\ \/ Clearing(job'[g], p, q) = Clearing(job[g], p, q)
                    /\ job'[g].seen = job[g].seen
                 \/ Clearing(job'[g], p, q) = "no" /\ Clearing(job[g], p, q) # "drop"
        BY <1>2, <1>4, <2>6, <3>2
      <4> QED
        BY <1>1, <1>3, <2>4, <3>2, <4>1, MatchedKept
    <3> QED
      BY <3>1, <3>2
  <2> QED
    BY <2>7
<1> QED
  BY <1>5, <1>6 DEF AddNewMessageId
LEMMA UndoMatched ==
  ASSUME TypeInv, \A p, q \in Players : Matched(p, q), NEW h \in Handlers, UndoMessage(h)
  PROVE  \A p, q \in Players : Matched(p, q)'
<1> DEFINE n == job[h].seen
           m == <<Me(h), n>>
<1>1. /\ job[h].at = "undo" /\ ~ At(h, "idle") /\ Me(h) \in Players /\ Id(h) \in Players
      /\ n \in Ids /\ job[h].op = "chat" /\ UNCHANGED <<friends, unread>>
      /\ messages' = [messages EXCEPT ![Id(h)] = @ \ {m}]
  BY JobFacts DEF UndoMessage, At, TypeInv, OpAt
<1>2. \A g \in Handlers : g # h => job'[g] = job[g]
  BY OtherJobsKept DEF TypeInv, Step
<1>3. \A p, q \in Players : UnreadIds(p, q)' = UnreadIds(p, q)
  BY <1>1 DEF UnreadIds
<1>4. \A p, q \in Players :
        /\ HeldBy(job[h], p, q) = IF p = Id(h) /\ q = Me(h) THEN {n} ELSE {}
        /\ Clearing(job[h], p, q) = "no"
  BY <1>1 DEF HeldBy, Clearing, Me, Id
<1>5. ASSUME NEW p \in Players, NEW q \in Players
      PROVE  Stored(p, q)' = Stored(p, q) \ HeldBy(job[h], p, q)
  <2>1. CASE p = Id(h)
    <3>1. messages'[p] = messages[p] \ {m}
      BY <1>1, <2>1 DEF TypeInv, DataOK
    <3>2. \A x \in Ids : <<q, x>> = m <=> q = Me(h) /\ x = n
      OBVIOUS
    <3> QED
      BY <1>4, <2>1, <3>1, <3>2 DEF Stored
  <2>2. CASE p # Id(h)
    BY <1>1, <1>4, <2>2 DEF Stored, TypeInv, DataOK
  <2> QED
    BY <2>1, <2>2
<1>6. job'[h] = Idle
  BY DEF UndoMessage, Done, TypeInv, JobsOK
<1>7. \A p, q \in Players : HeldBy(job'[h], p, q) = {} /\ Clearing(job'[h], p, q) = "no"
  BY <1>6, IdleElsewhere, ElsewhereHoldsNothing
<1> QED
  BY <1>1, <1>2, <1>3, <1>4, <1>5, <1>7, MatchedRelease

\* Messages are removed, of what a confirmation took from the list or a removal saw listed.
LEMMA RemoveMatched ==
  ASSUME TypeInv, \A p, q \in Players : Matched(p, q), NEW h \in Handlers, RemoveMessages(h)
  PROVE  \A p, q \in Players : Matched(p, q)'
<1> DEFINE seen == job[h].seen
<1>1. /\ job[h].at = "erase" /\ ~ At(h, "idle") /\ job[h].op \in {"confirm", "remove"}
      /\ Owner(h) \in Players /\ Peer(h) \in Players /\ seen \in Seq(Ids)
      /\ UNCHANGED <<friends, unread>>
      /\ messages' = [messages EXCEPT ![Owner(h)] = Erased(@, Peer(h), seen)]
  BY JobFacts DEF RemoveMessages, At, TypeInv, OpAt
<1>2. \A g \in Handlers : g # h => job'[g] = job[g]
  BY OtherJobsKept DEF TypeInv, Step
<1>3. \A p, q \in Players : UnreadIds(p, q)' = UnreadIds(p, q)
  BY <1>1 DEF UnreadIds
<1>4. ASSUME NEW p \in Players, NEW q \in Players
      PROVE  Stored(p, q)' = IF p = Owner(h) /\ q = Peer(h) THEN Stored(p, q) \ IdsOf(seen)
                             ELSE Stored(p, q)
  <2>1. CASE p = Owner(h)
    <3>1. messages'[p] = Erased(messages[p], Peer(h), seen)
      BY <1>1, <2>1 DEF TypeInv, DataOK
    <3>2. \A x \in Ids : <<q, x>> \in messages'[p] <=>
                         <<q, x>> \in messages[p] /\ ~ (q = Peer(h) /\ x \in IdsOf(seen))
      BY <3>1 DEF Erased, IdsOf
    <3> QED
      BY <2>1, <3>2 DEF Stored
  <2>2. CASE p # Owner(h)
    BY <1>1, <2>2 DEF Stored, TypeInv, DataOK
  <2> QED
    BY <2>1, <2>2
<1>5. CASE job[h].op = "confirm"
  <2>1. job'[h] = Idle
    BY <1>5 DEF RemoveMessages, Done, TypeInv, JobsOK
  <2>2. job[h].side = "own"
    BY <1>5 DEF TypeInv, JobsOK, JobOK
  <2>3. \A p, q \in Players :
          /\ HeldBy(job[h], p, q) = IF p = Owner(h) /\ q = Peer(h) THEN IdsOf(seen) ELSE {}
          /\ Clearing(job[h], p, q) = "no"
    <3>1. IdsOf(seen) \subseteq Ids
      BY <1>1 DEF IdsOf
    <3> QED
      BY <1>1, <1>5, <2>2, <3>1 DEF HeldBy, Clearing, Owner, Peer, Me, Id
  <2>4. \A p, q \in Players : HeldBy(job'[h], p, q) = {} /\ Clearing(job'[h], p, q) = "no"
    BY <2>1, IdleElsewhere, ElsewhereHoldsNothing
  <2>5. \A p, q \in Players : Stored(p, q)' = Stored(p, q) \ HeldBy(job[h], p, q)
    BY <1>4, <2>3
  <2> QED
    BY <1>1, <1>2, <1>3, <2>3, <2>4, <2>5, MatchedRelease
<1>6. CASE job[h].op = "remove"
  <2>1. /\ job'[h].at = "drop" /\ job'[h].op = "remove" /\ job'[h].seen = seen
        /\ job'[h].me = job[h].me /\ job'[h].id = job[h].id /\ job'[h].side = job[h].side
    BY <1>6 DEF RemoveMessages, Goto, TypeInv, JobsOK, JobOK, JobRecord
  <2>2. \A p, q \in Players :
          /\ HeldBy(job[h], p, q) = {}
          /\ Clearing(job[h], p, q) = IF p = Owner(h) /\ q = Peer(h) THEN "erase" ELSE "no"
    BY <1>1, <1>6 DEF HeldBy, Clearing, Owner, Peer, Me, Id
  <2>3. \A p, q \in Players :
          /\ HeldBy(job'[h], p, q) = {}
          /\ Clearing(job'[h], p, q) = IF p = Owner(h) /\ q = Peer(h) THEN "drop" ELSE "no"
    BY <2>1 DEF HeldBy, Clearing, Owner, Peer, Me, Id
  <2>4. ASSUME NEW p \in Players, NEW q \in Players PROVE Matched(p, q)'
    <3>1. CASE p = Owner(h) /\ q = Peer(h)
      <4>1. Stored(p, q)' = Stored(p, q) \ IdsOf(seen)
        BY <1>4, <3>1
      <4>2. Clearing(job[h], p, q) = "erase" /\ Clearing(job'[h], p, q) = "drop"
        BY <2>2, <2>3, <3>1
      <4> QED
        BY <1>1, <1>2, <1>3, <2>2, <2>3, <4>1, <4>2, MatchedErased
    <3>2. CASE ~ (p = Owner(h) /\ q = Peer(h))
      <4>1. \A g \in Handlers :
              /\ HeldBy(job'[g], p, q) = HeldBy(job[g], p, q)
              /\ \/ Clearing(job'[g], p, q) = Clearing(job[g], p, q)
                    /\ job'[g].seen = job[g].seen
                 \/ Clearing(job'[g], p, q) = "no" /\ Clearing(job[g], p, q) # "drop"
        BY <1>2, <2>2, <2>3, <3>2
      <4> QED
        BY <1>1, <1>3, <1>4, <3>2, <4>1, MatchedKept
    <3> QED
      BY <3>1, <3>2
  <2> QED
    BY <2>4
<1> QED
  BY <1>1, <1>5, <1>6
\* A removal that has dealt with a row is elsewhere.
LEMMA SideDoneElsewhere ==
  ASSUME TypeInv, NEW h \in Handlers, SideDone(h)
  PROVE  Elsewhere(job'[h])
<1>1. CASE Done(h)
  BY <1>1, IdleElsewhere DEF Done, TypeInv, JobsOK
<1>2. CASE job' = [job EXCEPT ![h].side = "own", ![h].at = "forget", ![h].seen = None]
  <2>1. job'[h].at = "forget"
    BY <1>2 DEF TypeInv, JobsOK, JobOK, JobRecord
  <2> QED
    BY <2>1 DEF Elsewhere
<1> QED
  BY <1>1, <1>2 DEF SideDone

LEMMA ForgetMatched ==
  ASSUME TypeInv, \A p, q \in Players : Matched(p, q), NEW h \in Handlers, ForgetFriend(h)
  PROVE  \A p, q \in Players : Matched(p, q)'
<1>1. /\ job[h].at = "forget" /\ ~ At(h, "idle") /\ job[h].op = "remove"
      /\ Owner(h) \in Players /\ Peer(h) \in Players
      /\ UNCHANGED <<unread, messages>>
      /\ friends' = [friends EXCEPT ![Owner(h)] = @ \ {Peer(h)}]
  BY JobFacts DEF ForgetFriend, At, TypeInv, OpAt
<1>2. \A g \in Handlers : g # h => job'[g] = job[g]
  BY OtherJobsKept DEF TypeInv, Step
<1>3. \A p, q \in Players : /\ UnreadIds(p, q)' = UnreadIds(p, q)
                            /\ Stored(p, q)' = Stored(p, q)
  BY <1>1, BoxesUnchanged
<1>4. /\ job'[h].at = "ids" /\ job'[h].op = "remove"
      /\ job'[h].me = job[h].me /\ job'[h].id = job[h].id /\ job'[h].side = job[h].side
  BY <1>1 DEF ForgetFriend, Goto, TypeInv, JobsOK, JobOK, JobRecord
<1>5. \A p, q \in Players : HeldBy(job[h], p, q) = {} /\ Clearing(job[h], p, q) = "no"
  BY <1>1, ElsewhereHoldsNothing DEF Elsewhere
<1>6. \A p, q \in Players :
        /\ HeldBy(job'[h], p, q) = {}
        /\ Clearing(job'[h], p, q) = IF p = Owner(h) /\ q = Peer(h) THEN "ids" ELSE "no"
  BY <1>4 DEF HeldBy, Clearing, Owner, Peer, Me, Id
<1>7. \A p, q \in Players : /\ q \in friends'[p] => q \in friends[p]
                            /\ p = Owner(h) /\ q = Peer(h) => q \notin friends'[p]
  BY <1>1 DEF TypeInv, DataOK
<1>8. ASSUME NEW p \in Players, NEW q \in Players PROVE Matched(p, q)'
  <2>1. CASE p = Owner(h) /\ q = Peer(h)
    BY <1>2, <1>3, <1>5, <1>6, <1>7, <2>1, MatchedForget
  <2>2. CASE ~ (p = Owner(h) /\ q = Peer(h))
    <3>1. \A g \in Handlers :
            /\ HeldBy(job'[g], p, q) = HeldBy(job[g], p, q)
            /\ \/ Clearing(job'[g], p, q) = Clearing(job[g], p, q)
                  /\ job'[g].seen = job[g].seen
               \/ Clearing(job'[g], p, q) = "no" /\ Clearing(job[g], p, q) # "drop"
      BY <1>2, <1>5, <1>6, <2>2
    <3> QED
      BY <1>3, <1>7, <3>1, MatchedKept
  <2> QED
    BY <2>1, <2>2
<1> QED
  BY <1>8

LEMMA SeenMatched ==
  ASSUME TypeInv, \A p, q \in Players : Matched(p, q), NEW h \in Handlers, GetMessageIds(h)
  PROVE  \A p, q \in Players : Matched(p, q)'
<1> DEFINE d == unread[Owner(h)][Peer(h)]
<1>1. /\ job[h].at = "ids" /\ ~ At(h, "idle") /\ job[h].op = "remove"
      /\ Owner(h) \in Players /\ Peer(h) \in Players
      /\ UNCHANGED <<unread, messages, friends>>
  BY JobFacts DEF GetMessageIds, At, TypeInv, OpAt, data
<1>2. \A g \in Handlers : g # h => job'[g] = job[g]
  BY OtherJobsKept DEF TypeInv, Step
<1>3. \A p, q \in Players : /\ UnreadIds(p, q)' = UnreadIds(p, q)
                            /\ Stored(p, q)' = Stored(p, q)
  BY <1>1, BoxesUnchanged
<1>4. \A p, q \in Players :
        /\ HeldBy(job[h], p, q) = {}
        /\ Clearing(job[h], p, q) = IF p = Owner(h) /\ q = Peer(h) THEN "ids" ELSE "no"
  BY <1>1 DEF HeldBy, Clearing, Owner, Peer, Me, Id
<1>5. CASE SideDone(h)
  <2>1. \A p, q \in Players : HeldBy(job'[h], p, q) = {} /\ Clearing(job'[h], p, q) = "no"
    BY <1>5, SideDoneElsewhere, ElsewhereHoldsNothing
  <2>2. ASSUME NEW p \in Players, NEW q \in Players, NEW g \in Handlers
        PROVE  /\ HeldBy(job'[g], p, q) = HeldBy(job[g], p, q)
               /\ \/ Clearing(job'[g], p, q) = Clearing(job[g], p, q)
                     /\ job'[g].seen = job[g].seen
                  \/ Clearing(job'[g], p, q) = "no" /\ Clearing(job[g], p, q) # "drop"
    BY <1>2, <1>4, <2>1
  <2> QED
    BY <1>1, <1>3, <2>2, MatchedKept
<1>6. CASE d # None /\ job' = [job EXCEPT ![h].at = "erase", ![h].seen = d.ids]
  <2>1. /\ job'[h].at = "erase" /\ job'[h].op = "remove" /\ job'[h].seen = d.ids
        /\ job'[h].me = job[h].me /\ job'[h].id = job[h].id /\ job'[h].side = job[h].side
    BY <1>1, <1>6 DEF TypeInv, JobsOK, JobOK, JobRecord
  <2>2. \A p, q \in Players :
          /\ HeldBy(job'[h], p, q) = {}
          /\ Clearing(job'[h], p, q) = IF p = Owner(h) /\ q = Peer(h) THEN "erase" ELSE "no"
    BY <2>1 DEF HeldBy, Clearing, Owner, Peer, Me, Id
  <2>3. ASSUME NEW p \in Players, NEW q \in Players PROVE Matched(p, q)'
    <3>1. CASE p = Owner(h) /\ q = Peer(h)
      <4>1. IdsOf(job'[h].seen) = Listed(p, q)
        BY <1>6, <2>1, <3>1 DEF Listed, UnreadIds
      <4> QED
        BY <1>1, <1>2, <1>3, <1>4, <2>2, <3>1, <4>1, MatchedSeen
    <3>2. CASE ~ (p = Owner(h) /\ q = Peer(h))
      <4>1. \A g \in Handlers :
              /\ HeldBy(job'[g], p, q) = HeldBy(job[g], p, q)
              /\ \/ Clearing(job'[g], p, q) = Clearing(job[g], p, q)
                    /\ job'[g].seen = job[g].seen
                 \/ Clearing(job'[g], p, q) = "no" /\ Clearing(job[g], p, q) # "drop"
        BY <1>2, <1>4, <2>2, <3>2
      <4> QED
        BY <1>1, <1>3, <4>1, MatchedKept
    <3> QED
      BY <3>1, <3>2
  <2> QED
    BY <2>3
<1> QED
  BY <1>5, <1>6 DEF GetMessageIds

LEMMA DropMatched ==
  ASSUME TypeInv, \A p, q \in Players : Matched(p, q), NEW h \in Handlers, RemoveIds(h)
  PROVE  \A p, q \in Players : Matched(p, q)'
<1>1. /\ job[h].at = "drop" /\ ~ At(h, "idle") /\ job[h].op = "remove"
      /\ Owner(h) \in Players /\ Peer(h) \in Players
      /\ UNCHANGED <<messages, friends>>
      /\ unread' = [unread EXCEPT ![Owner(h)][Peer(h)] = None]
  BY JobFacts DEF RemoveIds, At, TypeInv, OpAt
<1>2. \A g \in Handlers : g # h => job'[g] = job[g]
  BY OtherJobsKept DEF TypeInv, Step
<1>3. \A p, q \in Players : Stored(p, q)' = Stored(p, q)
  BY <1>1 DEF Stored
<1>4. \A p, q \in Players :
        /\ HeldBy(job[h], p, q) = {}
        /\ Clearing(job[h], p, q) = IF p = Owner(h) /\ q = Peer(h) THEN "drop" ELSE "no"
  BY <1>1 DEF HeldBy, Clearing, Owner, Peer, Me, Id
<1>5. \A p, q \in Players : HeldBy(job'[h], p, q) = {} /\ Clearing(job'[h], p, q) = "no"
  BY SideDoneElsewhere, ElsewhereHoldsNothing DEF RemoveIds
<1>6. \A p, q \in Players :
        UnreadIds(p, q)' = IF p = Owner(h) /\ q = Peer(h) THEN <<>> ELSE UnreadIds(p, q)
  <2>1. unread \in [Players -> [Players -> {None} \cup Box]]
    BY DEF TypeInv, DataOK
  <2>2. \A p, q \in Players :
          unread'[p][q] = IF p = Owner(h) /\ q = Peer(h) THEN None ELSE unread[p][q]
    BY <1>1, <2>1, EntryChanged
  <2> QED
    BY <2>2 DEF UnreadIds
<1>7. ASSUME NEW p \in Players, NEW q \in Players PROVE Matched(p, q)'
  <2>1. CASE p = Owner(h) /\ q = Peer(h)
    BY <1>1, <1>2, <1>3, <1>4, <1>5, <1>6, <2>1, MatchedDropped
  <2>2. CASE ~ (p = Owner(h) /\ q = Peer(h))
    <3>1. \A g \in Handlers :
            /\ HeldBy(job'[g], p, q) = HeldBy(job[g], p, q)
            /\ \/ Clearing(job'[g], p, q) = Clearing(job[g], p, q)
                  /\ job'[g].seen = job[g].seen
               \/ Clearing(job'[g], p, q) = "no" /\ Clearing(job[g], p, q) # "drop"
      BY <1>2, <1>4, <1>5, <2>2
    <3> QED
      BY <1>1, <1>3, <1>6, <2>2, <3>1, MatchedKept
  <2> QED
    BY <2>1, <2>2
<1> QED
  BY <1>7

\* The first n of the ids, and the others.
LEMMA SplitIds ==
  ASSUME NEW s \in Seq(Ids), NEW n \in 1..Len(s), \A i, k \in DOMAIN s : i # k => s[i] # s[k]
  PROVE  LET first == SubSeq(s, 1, n)
             rest == SubSeq(s, n + 1, Len(s))
         IN /\ IdsOf(s) = IdsOf(rest) \cup IdsOf(first)
            /\ IdsOf(rest) \cap IdsOf(first) = {}
            /\ \A i, k \in DOMAIN rest : i # k => rest[i] # rest[k]
<1> DEFINE first == SubSeq(s, 1, n)
           rest == SubSeq(s, n + 1, Len(s))
<1>1. /\ DOMAIN s = 1..Len(s) /\ Len(s) \in Nat /\ n \in Nat /\ n <= Len(s)
      /\ DOMAIN first = 1..n /\ \A i \in 1..n : first[i] = s[i]
      /\ DOMAIN rest = 1..(Len(s) - n) /\ \A i \in 1..(Len(s) - n) : rest[i] = s[i + n]
  OBVIOUS
<1> HIDE DEF first, rest
<1>2. \A i \in 1..(Len(s) - n) : i + n \in 1..Len(s) /\ i + n > n
  BY <1>1
<1>3. ASSUME NEW i \in DOMAIN rest, NEW k \in DOMAIN rest, i # k PROVE rest[i] # rest[k]
  <2>1. i \in 1..(Len(s) - n) /\ k \in 1..(Len(s) - n)
    BY <1>1
  <2>2. i + n \in DOMAIN s /\ k + n \in DOMAIN s /\ i + n # k + n
    BY <1>1, <1>2, <1>3, <2>1
  <2>3. rest[i] = s[i + n] /\ rest[k] = s[k + n]
    BY <1>1, <2>1
  <2> QED
    BY <2>2, <2>3
<1>4. IdsOf(rest) \cap IdsOf(first) = {}
  BY <1>1, <1>2 DEF IdsOf
<1>5. IdsOf(s) \subseteq IdsOf(rest) \cup IdsOf(first)
  <2> SUFFICES ASSUME NEW i \in 1..Len(s) PROVE s[i] \in IdsOf(rest) \cup IdsOf(first)
    BY <1>1 DEF IdsOf
  <2>1. CASE i <= n
    BY <1>1, <2>1 DEF IdsOf
  <2>2. CASE i > n
    <3>1. i - n \in 1..(Len(s) - n) /\ (i - n) + n = i
      BY <1>1, <2>2
    <3>2. rest[i - n] = s[i]
      BY <1>1, <3>1
    <3> QED
      BY <1>1, <3>1, <3>2 DEF IdsOf
  <2> QED
    BY <1>1, <2>1, <2>2
<1>6. IdsOf(rest) \cup IdsOf(first) \subseteq IdsOf(s)
  <2>1. \A i \in DOMAIN rest : i + n \in DOMAIN s /\ rest[i] = s[i + n]
    BY <1>1, <1>2
  <2>2. \A i \in DOMAIN first : i \in DOMAIN s /\ first[i] = s[i]
    BY <1>1
  <2>3. IdsOf(rest) \subseteq IdsOf(s)
    BY <2>1 DEF IdsOf
  <2>4. IdsOf(first) \subseteq IdsOf(s)
    BY <2>2 DEF IdsOf
  <2> QED
    BY <2>3, <2>4
<1> QED
  BY <1>3, <1>4, <1>5, <1>6 DEF first, rest
\* A confirmation takes the first ids, or all, and has their messages in its hands.
LEMMA ConfirmMatched ==
  ASSUME TypeInv, \A p, q \in Players : Matched(p, q), NEW h \in Handlers,
         NEW x \in Players, NEW y \in Players, ConfirmUnread(h, x, y)
  PROVE  \A p, q \in Players : Matched(p, q)'
<1> DEFINE d == unread[x][y]
           all(n) == n = 0 \/ Len(d.ids) <= n
           gone(n) == IF all(n) THEN d.ids ELSE SubSeq(d.ids, 1, n)
           left(n) == IF all(n) THEN <<>> ELSE SubSeq(d.ids, n + 1, Len(d.ids))
<1>1. /\ d # None /\ x # y /\ job[h].at = "idle" /\ y \in friends[x]
      /\ UNCHANGED <<friends, messages>>
  BY DEF ConfirmUnread, At
<1>2. unread \in [Players -> [Players -> {None} \cup Box]]
  BY DEF TypeInv, DataOK
<1>3. d \in Box /\ d.ids \in Seq(Ids)
  BY <1>1, <1>2 DEF Box
<1>4. PICK n \in 0..MaxUnread :
        /\ unread' = [unread EXCEPT ![x][y].ids = left(n)]
        /\ job' = [job EXCEPT ![h] = IF gone(n) = <<>> THEN Idle ELSE
                     [Idle EXCEPT !.op = "confirm", !.at = "erase", !.me = x, !.id = y,
                                  !.seen = gone(n)]]
  BY DEF ConfirmUnread
<1>5. \A g \in Handlers : g # h => job'[g] = job[g]
  BY OtherJobsKept DEF TypeInv, Request
<1>6. \A p, q \in Players : HeldBy(job[h], p, q) = {} /\ Clearing(job[h], p, q) = "no"
  BY <1>1, ElsewhereHoldsNothing DEF Elsewhere
<1>7. UnreadIds(x, y) = d.ids
  BY <1>1 DEF UnreadIds
<1>8. \A i, k \in DOMAIN d.ids : i # k => d.ids[i] # d.ids[k]
  BY <1>7 DEF Matched, ListedOnce
<1>9. /\ IdsOf(d.ids) = IdsOf(left(n)) \cup IdsOf(gone(n))
      /\ IdsOf(left(n)) \cap IdsOf(gone(n)) = {}
      /\ \A i, k \in DOMAIN left(n) : i # k => left(n)[i] # left(n)[k]
  <2>1. CASE all(n)
    <3>1. IdsOf(<<>>) = {}
      BY DEF IdsOf
    <3> QED
      BY <2>1, <3>1
  <2>2. CASE ~ all(n)
    <3>1. n \in 1..Len(d.ids)
      BY <1>3, <2>2 DEF FriendsAssumption
    <3> QED
      BY <1>3, <1>8, <2>2, <3>1, SplitIds
  <2> QED
    BY <2>1, <2>2
<1>10. left(n) \in Seq(Ids) /\ gone(n) \in Seq(Ids) /\ Len(left(n)) <= MaxUnread
  <2>1. Len(d.ids) <= MaxUnread
    BY <1>3 DEF Box
  <2> QED
    BY <1>3, <2>1 DEF FriendsAssumption
<1>11. \A p, q \in Players :
         UnreadIds(p, q)' = IF p = x /\ q = y THEN left(n) ELSE UnreadIds(p, q)
  <2> DEFINE e == [d EXCEPT !.ids = left(n)]
  <2>1. e \in Box /\ e.ids = left(n)
    BY <1>3, <1>10 DEF Box
  <2>2. e # None
    BY <2>1, NoneIsNothing
  <2>3. unread' = [unread EXCEPT ![x][y] = e]
    BY <1>4
  <2>4. \A p, q \in Players : unread'[p][q] = IF p = x /\ q = y THEN e ELSE unread[p][q]
    <3> HIDE DEF e
    <3> QED
      BY <1>2, <2>3, EntryChanged
  <2> HIDE DEF e, left
  <2> QED
    BY <2>1, <2>2, <2>4 DEF UnreadIds
<1>12. \A p, q \in Players : Stored(p, q)' = Stored(p, q)
  BY <1>1 DEF Stored
<1>13. \A p, q \in Players :
         /\ HeldBy(job'[h], p, q) = IF p = x /\ q = y THEN IdsOf(gone(n)) ELSE {}
         /\ Clearing(job'[h], p, q) = "no"
  <2>1. CASE gone(n) = <<>>
    <3>1. job'[h] = Idle /\ IdsOf(<<>>) = {}
      BY <1>4, <2>1 DEF TypeInv, JobsOK, IdsOf
    <3> QED
      BY <2>1, <3>1, IdleElsewhere, ElsewhereHoldsNothing
  <2>2. CASE gone(n) # <<>>
    <3>1. Idle \in JobRecord
      BY IdleIsOK DEF JobOK
    <3>2. /\ job'[h].op = "confirm" /\ job'[h].at = "erase" /\ job'[h].me = x /\ job'[h].id = y
          /\ job'[h].seen = gone(n)
      BY <1>4, <2>2, <3>1 DEF TypeInv, JobsOK, JobRecord
    <3>3. IdsOf(gone(n)) \subseteq Ids
      BY <1>10 DEF IdsOf
    <3> HIDE DEF gone
    <3> QED
      BY <3>2, <3>3 DEF HeldBy, Clearing
  <2> QED
    BY <2>1, <2>2
<1> HIDE DEF d, all, gone, left
<1>14. ASSUME NEW p \in Players, NEW q \in Players PROVE Matched(p, q)'
  <2>1. CASE p = x /\ q = y
    <3>1. HeldBy(job'[h], p, q) = IdsOf(gone(n)) /\ UnreadIds(p, q)' = left(n)
      BY <1>11, <1>13, <2>1
    <3>2. Listed(p, q)' = IdsOf(left(n)) /\ Listed(p, q) = IdsOf(d.ids)
      BY <1>7, <2>1, <3>1 DEF Listed
    <3>3. ListedOnce(p, q)'
      BY <1>9, <3>1 DEF ListedOnce
    <3> QED
      BY <1>1, <1>5, <1>6, <1>9, <1>12, <1>13, <2>1, <3>1, <3>2, <3>3, MatchedTaken
  <2>2. CASE ~ (p = x /\ q = y)
    <3>1. \A g \in Handlers :
            /\ HeldBy(job'[g], p, q) = HeldBy(job[g], p, q)
            /\ \/ Clearing(job'[g], p, q) = Clearing(job[g], p, q)
                  /\ job'[g].seen = job[g].seen
               \/ Clearing(job'[g], p, q) = "no" /\ Clearing(job[g], p, q) # "drop"
      BY <1>5, <1>6, <1>13, <2>2
    <3> QED
      BY <1>1, <1>11, <1>12, <2>2, <3>1, MatchedKept
  <2> QED
    BY <2>1, <2>2
<1> QED
  BY <1>14
\* An agreement lets the friend in; no removal clears the rows of the two meanwhile.
LEMMA AgreeMatched ==
  ASSUME TypeInv, OverlapKept, ~ RemovedMeanwhile, \A p, q \in Players : Matched(p, q),
         NEW h \in Handlers, AddToOther(h) \/ AddToOwn(h)
  PROVE  \A p, q \in Players : Matched(p, q)'
<1>1. /\ job[h].at \in {"befriend", "befriend_own"} /\ ~ At(h, "idle") /\ job[h].op = "agree"
      /\ job[h].me \in Players /\ job[h].id \in Players
      /\ UNCHANGED <<unread, messages>>
      /\ \/ friends' = [friends EXCEPT ![job[h].id] = @ \cup {job[h].me}]
         \/ friends' = [friends EXCEPT ![job[h].me] = @ \cup {job[h].id}]
  BY JobFacts DEF AddToOther, AddToOwn, At, TypeInv, OpAt, Me, Id
<1>2. \A g \in Handlers : g # h => job'[g] = job[g]
  BY OtherJobsKept DEF TypeInv, Step
<1>3. \A p, q \in Players : /\ UnreadIds(p, q)' = UnreadIds(p, q)
                            /\ Stored(p, q)' = Stored(p, q)
  BY <1>1, BoxesUnchanged
<1>4. Elsewhere(job[h]) /\ Elsewhere(job'[h])
  <2>1. job'[h] = Idle \/ job'[h].at \in {"befriend_own", "unrequest"}
    BY DEF AddToOther, AddToOwn, Return, Goto, Done, TypeInv, JobsOK, JobOK, JobRecord
  <2> QED
    BY <1>1, <2>1, IdleElsewhere DEF Elsewhere
<1>5. ASSUME NEW p \in Players, NEW q \in Players, q \in friends'[p], q \notin friends[p]
      PROVE  \/ job[h].me = p /\ job[h].id = q
             \/ job[h].me = q /\ job[h].id = p
  <2>1. CASE friends' = [friends EXCEPT ![job[h].id] = @ \cup {job[h].me}]
    BY <1>1, <1>5, <2>1 DEF TypeInv, DataOK
  <2>2. CASE friends' = [friends EXCEPT ![job[h].me] = @ \cup {job[h].id}]
    BY <1>1, <1>5, <2>2 DEF TypeInv, DataOK
  <2> QED
    BY <1>1, <2>1, <2>2
<1>6. \A p, q \in Players : \/ q \in friends'[p] => q \in friends[p]
                            \/ \A g \in Handlers : Clearing(job[g], p, q) = "no"
  BY <1>1, <1>5, NothingCleared
<1> QED
  BY <1>2, <1>3, <1>4, <1>6, ElsewhereMatched

\* Steps of requests that are not about messages.
LEMMA OtherStepsMatched ==
  ASSUME TypeInv, \A p, q \in Players : Matched(p, q), NEW h \in Handlers,
         \/ LookAtFriends(h) \/ CheckAndAdd(h) \/ RemoveReq(h)
         \/ LookAtLastGive(h) \/ StoreFirstGift(h) \/ StoreGift(h) \/ SetLastGiveTime(h)
         \/ IncbyGiveNumToday(h) \/ AddFriendPoints(h) \/ SetGivePoints(h)
  PROVE  \A p, q \in Players : Matched(p, q)'
<1>1. /\ job[h].at \in {"look", "request", "unrequest", "last_give", "store", "give_num",
                        "collect", "empty", "store_first", "stamp"}
      /\ UNCHANGED <<friends, unread, messages>>
  BY DEF LookAtFriends, CheckAndAdd, RemoveReq, LookAtLastGive, StoreFirstGift, StoreGift,
         SetLastGiveTime, IncbyGiveNumToday, AddFriendPoints, SetGivePoints, At, data
<1>2. \A g \in Handlers : g # h => job'[g] = job[g]
  BY OtherJobsKept DEF TypeInv, Step
<1>3. \A p, q \in Players : /\ UnreadIds(p, q)' = UnreadIds(p, q)
                            /\ Stored(p, q)' = Stored(p, q)
  BY <1>1, BoxesUnchanged
<1>4. \/ Done(h) \/ Goto(h, "request") \/ Goto(h, "give_num") \/ Goto(h, "stamp")
      \/ Goto(h, "empty")
      \/ \E step \in Storing : job' = [job EXCEPT ![h].at = step, ![h].seen = TRUE]
  BY DEF LookAtFriends, CheckAndAdd, RemoveReq, LookAtLastGive, StoreFirstGift, StoreGift,
         SetLastGiveTime, IncbyGiveNumToday, AddFriendPoints, SetGivePoints, Storing
<1>5. job'[h] = Idle \/ job'[h].at \in {"request", "give_num", "empty"} \cup Storing
  BY <1>4 DEF Goto, Done, TypeInv, JobsOK, JobOK, JobRecord, Storing
<1>6. Elsewhere(job[h]) /\ Elsewhere(job'[h])
  BY <1>1, <1>5, IdleElsewhere DEF Elsewhere, Storing
<1> QED
  BY <1>1, <1>2, <1>3, <1>6, ElsewhereMatched

\* Requests, but for confirmations.
LEMMA BegunMatched ==
  ASSUME TypeInv, \A p, q \in Players : Matched(p, q), NEW h \in Handlers,
         NEW x \in Players, NEW y \in Players, Request(h, x, y), ~ ConfirmUnread(h, x, y)
  PROVE  \A p, q \in Players : Matched(p, q)'
<1>1. \E op, step : /\ Begin(h, op, x, y, step, None)
                    /\ step \notin {"append", "undo", "erase", "ids", "drop"}
  BY DEF Request, AddFriend, AgreeAddFriend, RefuseAddFriend, RemoveFriend, GiveFriendPoints,
         GetFriendPoints, FriendChat
<1>2. Elsewhere(job[h]) /\ Elsewhere(job'[h])
  <2>1. Idle \in JobRecord
    BY IdleIsOK DEF JobOK
  <2>2. job[h].at = "idle" /\ job'[h].at \notin {"append", "undo", "erase", "ids", "drop"}
    <3> PICK op, step : /\ Begin(h, op, x, y, step, None)
                        /\ step \notin {"append", "undo", "erase", "ids", "drop"}
      BY <1>1
    <3>1. job[h].at = "idle"
      BY DEF Begin, At
    <3>2. job'[h].at = step
      BY <2>1 DEF Begin, TypeInv, JobsOK, JobRecord
    <3> QED
      BY <3>1, <3>2
  <2> QED
    BY <2>2 DEF Elsewhere
<1>3. UNCHANGED <<friends, unread, messages>>
  BY DEF Request, AddFriend, AgreeAddFriend, RefuseAddFriend, RemoveFriend, GiveFriendPoints,
         GetFriendPoints, FriendChat, data
<1>4. \A g \in Handlers : g # h => job'[g] = job[g]
  BY OtherJobsKept DEF TypeInv
<1>5. \A p, q \in Players : /\ UnreadIds(p, q)' = UnreadIds(p, q)
                            /\ Stored(p, q)' = Stored(p, q)
  BY <1>3, BoxesUnchanged
<1> QED
  BY <1>2, <1>3, <1>4, <1>5, ElsewhereMatched

\* A call that fails holds what it held, or has held nothing.
LEMMA CallFailsMatched ==
  ASSUME TypeInv, \A p, q \in Players : Matched(p, q), NEW h \in Handlers, CallFails(h)
  PROVE  \A p, q \in Players : Matched(p, q)'
<1>1. UNCHANGED <<friends, unread, messages>>
  BY DEF CallFails, data
<1>2. \A g \in Handlers : g # h => job'[g] = job[g]
  BY OtherJobsKept DEF TypeInv
<1>3. \A p, q \in Players : /\ UnreadIds(p, q)' = UnreadIds(p, q)
                            /\ Stored(p, q)' = Stored(p, q)
  BY <1>1, BoxesUnchanged
<1>4. CASE job' = [job EXCEPT ![h].cut = TRUE]
  <2>1. /\ job'[h].op = job[h].op /\ job'[h].at = job[h].at /\ job'[h].me = job[h].me
        /\ job'[h].id = job[h].id /\ job'[h].side = job[h].side /\ job'[h].seen = job[h].seen
    BY <1>4 DEF TypeInv, JobsOK, JobOK, JobRecord
  <2>2. \A p, q \in Players : /\ HeldBy(job'[h], p, q) = HeldBy(job[h], p, q)
                              /\ Clearing(job'[h], p, q) = Clearing(job[h], p, q)
    BY <2>1 DEF HeldBy, Clearing
  <2>3. \A p, q \in Players : \A g \in Handlers :
          /\ HeldBy(job'[g], p, q) = HeldBy(job[g], p, q)
          /\ Clearing(job'[g], p, q) = Clearing(job[g], p, q) /\ job'[g].seen = job[g].seen
    BY <1>2, <2>1, <2>2
  <2> QED
    BY <1>1, <1>3, <2>3, MatchedKept
<1>5. CASE job[h].at \in FirstThere /\ (Goto(h, "give_num") \/ Done(h))
  <2>1. job'[h] = Idle \/ job'[h].at = "give_num"
    BY <1>5 DEF Goto, Done, TypeInv, JobsOK, JobOK, JobRecord
  <2>2. Elsewhere(job[h]) /\ Elsewhere(job'[h])
    BY <1>5, <2>1, IdleElsewhere DEF Elsewhere, FirstThere
  <2> QED
    BY <1>1, <1>2, <1>3, <2>2, ElsewhereMatched
<1> QED
  BY <1>4, <1>5 DEF CallFails

LEMMA MessagesInit == Init => MessagesInv
<1> SUFFICES ASSUME Init, NEW p \in Players, NEW q \in Players PROVE Matched(p, q)
  BY DEF MessagesInv
<1>1. UnreadIds(p, q) = <<>> /\ Listed(p, q) = {} /\ Stored(p, q) = {} /\ ListedOnce(p, q)
  BY DEF Init, UnreadIds, Listed, IdsOf, Stored, ListedOnce
<1>2. \A g \in Handlers : HeldBy(job[g], p, q) = {} /\ Clearing(job[g], p, q) = "no"
  BY IdleElsewhere, ElsewhereHoldsNothing DEF Init
<1> QED
  BY <1>1, <1>2
  DEF Matched, ListedHaveMessages, HeldAreUnlisted, HeldByOne, NoneLost, NoFriends, AllSeen,
      AllErased

LEMMA MessagesStep ==
  TypeInv /\ TypeInv' /\ OverlapKept /\ MessagesInv /\ [Next]_vars => MessagesInv'
<1> SUFFICES ASSUME TypeInv, TypeInv', OverlapKept, MessagesInv, [Next]_vars,
                    ~ RemovedMeanwhile'
             PROVE  \A p, q \in Players : Matched(p, q)'
  BY DEF MessagesInv
<1>1. ~ RemovedMeanwhile /\ \A p, q \in Players : Matched(p, q)
  BY HistoryGrows DEF MessagesInv, RemovedMeanwhile
<1>2. ASSUME NEW h \in Handlers, Step(h) PROVE \A p, q \in Players : Matched(p, q)'
  <2>1. CASE ForgetFriend(h) \/ GetMessageIds(h) \/ RemoveMessages(h) \/ RemoveIds(h)
    BY <1>1, <2>1, ForgetMatched, SeenMatched, RemoveMatched, DropMatched
  <2>2. CASE CheckUnreadNumFull(h) \/ AddMessage(h) \/ AddNewMessageId(h) \/ UndoMessage(h)
    BY <1>1, <2>2, NextIdMatched, MessageMatched, AppendMatched, UndoMatched
  <2>3. CASE AddToOther(h) \/ AddToOwn(h)
    BY <1>1, <2>3, AgreeMatched
  <2>4. CASE \/ LookAtFriends(h) \/ CheckAndAdd(h) \/ RemoveReq(h)
             \/ LookAtLastGive(h) \/ StoreFirstGift(h) \/ StoreGift(h) \/ SetLastGiveTime(h)
             \/ IncbyGiveNumToday(h) \/ AddFriendPoints(h) \/ SetGivePoints(h)
    BY <1>1, <2>4, OtherStepsMatched
  <2> QED
    BY <1>2, <2>1, <2>2, <2>3, <2>4 DEF Step
<1>3. ASSUME NEW h \in Handlers, NEW x \in Players, NEW y \in Players, Request(h, x, y)
      PROVE  \A p, q \in Players : Matched(p, q)'
  BY <1>1, <1>3, BegunMatched, ConfirmMatched
<1>4. ASSUME NEW h \in Handlers, CallFails(h) PROVE \A p, q \in Players : Matched(p, q)'
  BY <1>1, <1>4, CallFailsMatched
<1>5. CASE NewDay
  <2>1. UNCHANGED <<friends, unread, messages>>
    BY <1>5 DEF NewDay
  <2>2. \A p, q \in Players : /\ UnreadIds(p, q)' = UnreadIds(p, q)
                              /\ Stored(p, q)' = Stored(p, q)
    BY <2>1, BoxesUnchanged
  <2>3. ASSUME NEW g \in Handlers
        PROVE  job'[g] = job[g] \/ (Elsewhere(job[g]) /\ Elsewhere(job'[g]))
    <3>1. (job'[g] = job[g] \/ job[g].at \in Storing) /\ job'[g].at = job[g].at
      BY <1>5, NewDayJobs DEF TypeInv
    <3> QED
      BY <3>1 DEF Elsewhere, Storing
  <2>4. \A p, q \in Players : \A g \in Handlers :
          /\ HeldBy(job'[g], p, q) = HeldBy(job[g], p, q)
          /\ \/ Clearing(job'[g], p, q) = Clearing(job[g], p, q)
                /\ job'[g].seen = job[g].seen
             \/ Clearing(job'[g], p, q) = "no" /\ Clearing(job[g], p, q) # "drop"
    BY <2>3, ElsewhereHoldsNothing
  <2> QED
    BY <1>1, <2>1, <2>2, <2>4, MatchedKept
<1>6. CASE UNCHANGED vars
  <2>1. UNCHANGED <<friends, unread, messages, job>>
    BY <1>6 DEF vars
  <2>2. \A p, q \in Players : /\ UnreadIds(p, q)' = UnreadIds(p, q)
                              /\ Stored(p, q)' = Stored(p, q)
    BY <2>1, BoxesUnchanged
  <2> QED
    BY <1>1, <2>1, <2>2, MatchedKept
<1> QED
  BY <1>2, <1>3, <1>4, <1>5, <1>6 DEF Next

LEMMA MessagesInvariant == Spec => [](TypeInv /\ MessagesInv)
BY TypeInvariant, OverlapInit, OverlapStep, MessagesInit, MessagesStep, PTL DEF Spec

\* An id in the list of unread ids has its message and is listed once, however many chats and
\* confirmations of the two players run at once: the two columns are never locked together.
THEOREM ListedIdHasMessage == Spec => []UnreadIdHasMessage
<1>1. TypeInv /\ MessagesInv => UnreadIdHasMessage
  <2> SUFFICES ASSUME TypeInv, MessagesInv, ~ RemovedMeanwhile,
                      NEW p \in Players, NEW q \in Players,
                      NEW i \in DOMAIN UnreadIds(p, q), NEW k \in DOMAIN UnreadIds(p, q)
               PROVE  /\ <<q, UnreadIds(p, q)[i]>> \in messages[p] \/ Removing(p, q)
                      /\ i # k => UnreadIds(p, q)[i] # UnreadIds(p, q)[k]
    BY DEF UnreadIdHasMessage
  <2>1. Matched(p, q)
    BY DEF MessagesInv
  <2>2. CASE \E g \in Handlers : Clearing(job[g], p, q) = "drop"
    <3> PICK g \in Handlers : Clearing(job[g], p, q) = "drop"
      BY <2>2
    <3>1. job[g].op = "remove" /\ job[g].at = "drop" /\ Owner(g) = p /\ Peer(g) = q
      BY DEF Clearing, Owner, Peer, Me, Id
    <3>2. Removing(p, q)
      BY <3>1 DEF Removing
    <3> QED
      BY <2>1, <3>2 DEF Matched, ListedOnce
  <2>3. CASE \A g \in Handlers : Clearing(job[g], p, q) # "drop"
    <3>1. UnreadIds(p, q)[i] \in Listed(p, q)
      BY DEF Listed, IdsOf
    <3>2. UnreadIds(p, q)[i] \in Stored(p, q)
      BY <2>1, <2>3, <3>1 DEF Matched, ListedHaveMessages
    <3> QED
      BY <2>1, <3>2 DEF Stored, Matched, ListedOnce
  <2> QED
    BY <2>2, <2>3
<1> QED
  BY <1>1, MessagesInvariant, PTL

\* No message stays behind without its id: a chat that is refused after its message is stored
\* takes the message back, and a confirmation removes the messages of all ids it took.
THEOREM MessagesAreListed == Spec => []NoMessageLeftBehind
<1>1. TypeInv /\ MessagesInv => NoMessageLeftBehind
  <2> SUFFICES ASSUME TypeInv, MessagesInv, Quiet, ~ RemovedMeanwhile,
                      NEW p \in Players, NEW m \in messages[p]
               PROVE  \E i \in DOMAIN UnreadIds(p, m[1]) : UnreadIds(p, m[1])[i] = m[2]
    BY DEF NoMessageLeftBehind
  <2>1. m \in Players \X Ids
    BY DEF TypeInv, DataOK
  <2>2. m[1] \in Players /\ m[2] \in Stored(p, m[1])
    BY <2>1 DEF Stored
  <2>3. Matched(p, m[1])
    BY <2>2 DEF MessagesInv
  <2>4. \A g \in Handlers : HeldBy(job[g], p, m[1]) = {}
    BY IdleElsewhere, ElsewhereHoldsNothing DEF Quiet
  <2>5. m[2] \in Listed(p, m[1])
    BY <2>2, <2>3, <2>4 DEF Matched, NoneLost
  <2> QED
    BY <2>5 DEF Listed, IdsOf
<1> QED
  BY <1>1, MessagesInvariant, PTL
=============================================================================
