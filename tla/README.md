# A verification of mm_server

mm_server is the back end of a mobile game, written in Go. It consists of four
programs: a **login server** that players contact first, a **center server** that
knows every account, several **halls** (`game_server`) that hold the players, and an
**RPC server** for what all halls share. This directory holds TLA+ models of the parts
whose correctness depends on the order in which things happen, the configurations that
check them with TLC, and proofs checked by TLAPS.

Paths below are relative to `src/src/`; `main/` holds the programs, `libs/` the libraries.

## 1. The system

| component | state | operations | how it is reached |
|---|---|---|---|
| row cache (`main/*/a_db_tables.go`) | per table: `m_rows`, `m_new_rows`; per row: columns with `_changed` flags, `m_new` | GetRow, AddRow, setters; Loop's Save; Shutdown; Preload | every handler calls it; `DBC.Loop` is a goroutine; MySQL behind it |
| account ids (`main/center_server/a_db_account.go`) | `acc2pid`, PlayerIdMax, a chain of account tables, tables passed | TryGetAccountPid, Save, PreLoad | login requests; its own Loop |
| skip list (`libs/utils/skiplist.go`) | nodes with layers, spans, back links | Insert, Delete, look-ups by node and rank | under each ranking list's lock |
| ranking lists (`main/rpc_server/ranking_list.go`) | skip list, `key2item`, pool of items, Redis hash | Update, Delete, GetByRank, ranges | RPC from the halls |
| login flow (`main/login_server/login_server.go`, `center_server_conn.go`, `main/game_server/login_token.go`) | `acc2c_wait`, tokens | HTTP login, question to the center server and its answer, token to the hall | HTTP; messages between three servers |
| registries of servers (`hall_agent_manager.go`, `login_agent_manager.go`, `login_conn_mgr.go`) | id -> connection maps on both ends | register, disconnect, broadcast | messages and connection callbacks |
| players of a hall (`player_manager.go`, `player.go`, `msg_handler.go`) | id and account maps | login, request dispatch | one goroutine per HTTP request, not serialised per player |
| friends (`player_friend.go`, `rpc_proc.go`) | columns of two players: friends, requests, points, unread ids and messages | request, agree, refuse, remove; give and collect points; chat, confirm | handlers; RPC when the other player is on another hall |
| foster house (`player_foster.go`) | cats lent, in two players' rows | lend, take back, settle | handlers; RPC |
| world chat, announcements (`world_chat.go`, `anouncement.go`, `libs/utils/simple_item_pool.go`) | per hall a linked list of pooled items under a lock; a cursor per player | push, read, recycle; broadcast to the other halls | handlers; the end of every client request; RPC |
| shared shop stock, nick names, personal spaces (`main/rpc_server`) | maps, Redis hashes | buy, refresh, rename, like | RPC from the halls |
| small rank lists, stage passes (`main/center_server`) | sorted array and map; sessions | add, evict, top N | messages from the halls |
| GM commands, notices, payments | records, sessions | HTTP and messages | operators, external services |
| network library (`libs/server_conn`) | per node `conn_map`; per connection three goroutines, three channels, four flags | accept, Send, Broadcast, Close, Shutdown, OnDisconnect | every server |
| RPC library (`libs/rpc`) | a client per peer | Call, which has no timeout, reconnect | halls and RPC server |

What is hard in it:

* **Write behind.** A row's flags are cleared before its statement is executed, no
  lock is held in between, and handlers set columns at any time. Two Saves can run at
  once when a hall shuts down. What a crash leaves is what the next start loads.
* **Check, then act.** GetRow and AddRow, the player maps, the stage lists, prices and
  stocks are checked and changed in steps of their own; client requests are not
  serialised per player.
* **Objects overwritten in place.** The items of a ranking list are nodes of the sorted
  list, values of a map and members of a pool at the same time.
* **Two writes that belong together.** Ids and accounts, the list and Redis, the two
  sides of a friendship are written one after the other.
* **Messages without timeouts.** A login waits for an answer that may never come, or
  that another login takes.
* **Connections that come back.** The disconnect of an old connection is handled after
  the registration of its successor.
* **Goroutines that wait for each other.** The loops of a connection, the handlers they
  run, callers of Send, Broadcast and Close, and Shutdown meet at bounded channels, flags
  that are polled and one lock; an announcement holds a lock while it calls other halls.

What makes the components correct: the cache loses no change that it counts as saved
and MySQL moves forward through whole rows; an id belongs to one account for good; a
list is sorted, complete and ranks what was acknowledged; every login that can be
answered is, with a token the hall accepts; the registries agree with the connections;
both sides of a relation agree; a connection that closes is released and a server that
shuts down stops; a player reads the messages of his hall in their order. `PROJECT.json` lists the places where this could go
wrong as `hazards`, each with the property that watches over it.

## 2. Modules

    DbTable        --implements-->  DurableRows        DbTableProofs
    Skiplist       --implements-->  SortedItems        SkiplistProofs
    RankingList    (a skip list seen as a sequence)    RankingListProofs
    AccountIds                                         AccountIdsProofs
    Login                                              LoginProofs
    Friends                                            FriendsProofs
    ServerConn                                         ServerConnProofs
    Announcements                                      AnnouncementsProofs
    MCSkiplist, MCRankingList, MCFriends, MCServerConn, MCAnnouncements:
    symmetry, values and scenarios for TLC

`Friends`, `ServerConn` and `Announcements` take a set of *scenarios*: what the clients
of a behaviour ask for is one of them, chosen in `Init` and kept. The actions do not
depend on it otherwise; scenarios keep the products of independent requests out of a run.

### DbTable: one table of the row cache

`m_rows` and `m_new_rows` are the maps of `dbPlayerTable`. A row object is an element of
`Rows`; `keyOf`, `val`, `changed` and `m_new` are its fields, and `changed` is the set of
columns whose `_changed` (`m_changed`) flag is up. `db` is the table in MySQL. There are
two *savers*: `"loop"` is `DBC.Loop`, `"shutdown"` is `HallServer.Shutdown`, which calls
`dbc.Save(false)` and then `dbc.Shutdown()`. A *client* is a handler.

| action | code |
|---|---|
| `GetRow`, `AddRow`, `SetColumn`, `Leave` | a handler's calls; nothing is locked between GetRow and AddRow |
| `LoopWakes`, `ShutdownSaves` | a Save begins: `fetch_rows` copies `m_rows` |
| `SaveData` | `save_data` under the row's lock: builds the statement, clears the flags |
| `Exec` | `StmtExec` / `Exec`, with no lock held; may fail when `ExecMayFail` |
| `SaveRowsGivesUp` | `save_rows` sees `m_quit` and is not the quick Save |
| `FetchNewRows` | `fetch_new_rows` |
| `LoopSaved`, `ShutdownSaved`, `ShutdownQuits`, `ShutdownReturns` | the ends of Save, `m_quit`, polling of `m_shutdown_completed` |
| `Restart` | the process dies, or has ended, and `Preload` rebuilds the rows |

A statement is one step and writes one row. An UPDATE of a row that is not there changes
nothing, an INSERT of one that is there fails: that is MySQL's behaviour, and both matter
when the order of statements is wrong. `RemoveRow` has no caller, so `m_removed_rows` is
always empty; row eviction (`Touch`) has no caller either. A column's serialisation is
abstracted to its value.

`DurableRows` is the promise: a reader's memory, at most one snapshot on its way per row,
and a disk that only takes snapshots and never parts of them; a crash puts back what the
disk holds. `DbTable!Durable` maps memory to `val` of the row a look-up finds, the snapshot
to what the statement in execution will make of the row, the disk to `db`.

### Skiplist

One action per operation, since callers hold the list's lock. A node stands for the item
it holds; `height` is the random layer of `random_skiplist_layer`, here any layer. Links,
back links and spans are functions of node and layer, as in the code's arrays. `Walk` is the
inner loop of a search, along one layer, and `Descent` the outer one, from layer to layer,
with `before_node` and `rank`; `WalkByRank` and `DescentByRank` are those of a look-up by
rank. They are recursive functions with the code's loop conditions. `SortedItems` is the promise: a set
of items that are ranked by their order.

### RankingList

`CommonRankingList` as the charm list and the list of cats use it. Items are *objects*
that `Update` overwrites; `list` is the skip list as the sequence of its objects, and a
search goes by the fields they hold at that moment, as `GetNode` does. `pool` is
`items_pool`: `sync.Pool` may return any object put back, or a new one. `Handlers` are the
goroutines of the RPC service. `Report` begins a call: a player's new value, or a key that is
gone. `call` says how far the handler (`UpdateCharm`, `RankDelete`, `UpdateZaned`) is: it
reads the first rank, changes the list under its lock (`UpdateNew`, `UpdateOld`, `DeleteKey`),
writes Redis with none (`Post`), and reads the first rank again (`Announce`). Nothing in the code keeps
the calls of one key apart: a player's requests are not serialised, and whoever zans a player reports
his new number (`rpc_client.go:841`). So several handlers may work on one key, and values
arrive in any order. `Restart` is the RPC server's: list, map and pool are empty and the
stored keys are `loading`; `Load` updates the list with one of them, as LoadItems does before
the RPC service starts, so `Serve` waits until none is left. `Zeros` are the values at which
the handler deletes the key instead of updating it: 0 in the charm list, none elsewhere. The five
lists share the code; the tie break of `Greater` beyond the value is one order of the keys.
Assumed, and part of what the runs mean: Redis writes that succeed.

Three history variables serve the properties. `told` is what the last call of a key has reported,
if it succeeded and no other call of the key was under way with it (`alone`). `dropped` are
the keys that were deleted and are still in `key2item`; `stale` goes up when a call uses such
an entry after the pool has handed out its object.

### AccountIds

`TryGetAccountPid` is three steps (`AddRow`, `IncPlayerIdMax`, `SetPlayerId`) because Save
takes none of its locks. `cur_table`, `next_table` and `pass` are the chain of tables,
`row` the row of an account in one of them, `stored` and `maxStored` what MySQL holds.
`Save` writes PlayerIdMax (`SavePlayerIdMax`), takes the full tables (`PopPassTables`), and
saves each of them and the one in use row by row. `Restart` is `PreLoad`: it computes the
number of tables from the highest id. Writing a row is one step here; its two steps are
DbTable's subject. `CrashAnywhere` says whether the process may die at any moment or is
only stopped by a Shutdown.

### Login

A *handler* is one run of `login_http_handler`, a sequence of steps with an early return
each: `Ask` (the question is sent, or dropped when there is no connection), `AddToCWait`,
`WaitForRes` and `Answer`, `GetAgentByID`, `SyncAccountToken`, `Reply`. The center server's
handler is one step, `GetPlayerAccInfo`; its answer is taken by `AccInfo`, which pops the
wait and starts the goroutine `SendResToWait`. A token is the second in which it was made,
so two tokens of one second are equal, as in the code. The queues `toCenter`, `toLogin`
and `toHall` are connections: in order, emptied when they break (`CenterBreaks`,
`HallLeaves`). Registration of a hall is two steps (`Registering`: `HasAgent`, and
`SetAgentByID`), between which another connection may register; the login server notices
the end of a connection (`OnDisconnect`, `RemoveAgent`) sooner or later than the hall.
`TokenArrives` and `LoginRequest` are the hall's.

### Friends

Each operation of a column locks the row, and a client's request is several of them on
the rows of two players. An action is one operation; `job` holds what a request is about
to do next, what it has read, and on which row it works: a request on a friend of another
hall has its *other* side executed there first (`LookAtFriends`, `AddToOther`,
`ForgetFriend` and others with `side`), and `CallFails` tells the caller that the call
failed, before or after the other hall has executed it. `store_friend_points` is two or three
operations: the look at the last gift (`LookAtLastGive`, which also reads the time), then
`FriendPoints.Add` (`StoreFirstGift`) or `SetGivePoints` and `SetLastGiveTime` (`StoreGift`,
`SetLastGiveTime`). What was seen may be wrong by then: Add does nothing when an entry has come,
the other two when it has gone, and after `NewDay` the time is yesterday's. To collect is
three operations (`GetFriendPoints`, `AddFriendPoints`, `SetGivePoints`). `claims` counts how
often the gift stored last has been collected; a new gift has its own count. The points
themselves and the contents of messages are abstracted from: a gift is there or not, a message
is its id.

### ServerConn

A node of `libs/server_conn` as the servers use it. `send_loop`, `recv_loop` and
`main_loop` of a connection are separate; a handler runs inside `main_loop` and may call
Send, Broadcast or Close. Channels are counters with a capacity, a put into a full one
waits, a put into a closed one panics and is recovered (the caller returns). `closing`,
`closed`, `self_closing` and `handing` are the flags; `Close` takes the path its flags
select, step by step, with its polling for `closed` and its second call of the release.
`Shutdown` closes a copy of `conn_map` and polls until the map is empty.

### Announcements

`mgr[h]` is the list of hall `h` with `head`, `tail`, the fields of each item, and the free
items of `SimpleItemPool` as the stack they are. `recycle_old`, `WithFree`, `Linked` are the
three parts of `PushNew`, which is one step, because it holds the lock. The loops of
`recycle_old` and `GetSome` (`Chain` along `next`, `Fresh` for the items that are not old) are
recursive functions. `locker` says which
message's push still holds it while it calls: `Announce` keeps it until `PushReturns`, a
chat message does not; `AnnounceText` is the GM command, whose broadcast is skipped since
it names no player, and `AnnounceFirstRank` the RPC server's. `CallHall`, `RemotePush`,
`HallReturns` are one call to one hall; `CallFails` and `HallIsCut` are broken connections.
A request reads in three steps: `CheckAndAnouncement` (cooldown), `GetSome` (under the read
lock, from the player's cursor on) and `Received`. The two files are the same code but for
the lock, the cooldown and what starts a reading; one module models both.

## 3. The runs

| run | expected | shows |
|---|---|---|
| `DbTable_run` | pass | `CleanColumnIsStored`, `StatementFits`, `DurableRowsSpec` and `SetReachesDb` while the server runs, crashes and starts again, with two handlers racing for a row |
| `DbTable_shutdown` | pass | `NoStatementAfterClose`, `ShutdownCompletes`, with failing statements |
| `DbTable_twins` | violation | two row objects of one key: `MapsAreDisjoint` |
| `DbTable_exit` | violation | two Saves in the wrong order at exit: `AllDataSavedAtExit` |
| `Skiplist` | pass | ranks, layers, links, and `SortedItemsSpec` |
| `RankingList` | pass | `SortedOnce`, `AckedIsRanked`, `PooledIsUnlisted`, with two calls at once, also of one key, values of 0, removals and restarts |
| `RankingList_zero` | violation | a charm that falls to 0 twice: `SucceededIsRanked` |
| `AccountIds_stop` | pass | `PidsAreDistinct`, `PidFitsTable`, `PidIsKept`, `PidReachesDb` over stops and starts |
| `Login` | pass | `OneSenderPerWait`, `EveryLoginAnswered`, `LastTokenCounts`, `RegistrationHolds` |
| `Friends` | pass | `MutualFriends`, `GiftClaimedOnce`, `UnreadIdHasMessage`, `NoMessageLeftBehind` |
| `ServerConn` | pass | `ShutdownMeansTold`, `ClosingIsReleased`, `NothingLeftRunning`, `ShutdownCompletes` |
| `Announcements` | pass | `ListKeepsLatest`, `ReadInOrder`, `NobodyWaitsForEver` |

**The three violations are defects of the code**, each against a line of it.

* *Twins.* `AddRow` looks in `m_new_rows` only. Of two first logins of one player, the
  second can call it after `fetch_new_rows` moved the first row to `m_rows`. Its row stays
  in `m_new_rows` for ever, and its handler's changes are never saved.
* *Exit.* `dbc.Save(false)` in `HallServer.Shutdown` can prepare and execute a newer
  UPDATE of a row while Loop still holds an older one. Loop's comes last, no flag is up,
  and the quick Save writes nothing.
* *Zero.* `delete` puts an item in the pool and leaves its key in `key2item`. Another key
  gets the object; when the first is reported 0 again, the other's item leaves the list,
  though his call succeeded and he keeps his value. (With a value that is not 0 the object
  is overwritten, and two keys share it.)

**Conditions in the properties.** Where the code breaks a promise in one way, the property
names that way as its condition and is checked for everything else, so each condition
below is a statement about the code too: without it TLC finds a counterexample.

* `PidsAreDistinct` holds when the server stops by Shutdown. With `CrashAnywhere = TRUE` it
  does not: accounts are written after PlayerIdMax and may have later ids, and the next
  start hands those out again (`a_db_account.go:237`).
* `RegistrationHolds` excepts `raced`: two connections of one hall both pass `HasAgent`
  before either calls `SetAgentByID` (`hall_agent_manager.go:435`), and the end of either
  removes the registration of the other.
* `EveryLoginAnswered` excepts `missed`: the handler has no timeout, and a question without
  a connection, an answer without a wait or a hall, and a wait that another login of the
  account overwrote leave it waiting.
* `MutualFriends` excepts a call that failed and an agreement that overlaps a removal;
  `GiftClaimedOnce` two requests of one player that collect one gift at once, which both find
  it and both add its points; the two properties of messages a removal that overlaps a chat
  or an agreement.
* `AckedIsRanked` speaks of calls that no other call of their key overlapped. The list is
  updated under its lock and Redis after it (`rpc_processor.go:1180` and `1185`): of two calls
  that overlap one can be last in the list and the other last in Redis. Both succeed, and players
  see one value until the RPC server starts again and the other afterwards. The two handlers of
  the run reach this; they also show that it lasts no longer than to the next call of the key.
* `SortedOnce`, `PooledIsUnlisted` and the list's part of `AckedIsRanked` hold until `stale`,
  which `RankingList_zero` is about; what the hash holds is right in any case.
* `ClosingIsReleased` and `ShutdownCompletes` except `Jam`: a handler that closes its own
  connection polls for a flag only its own `main_loop` raises, since the `return` at
  `server_conn.go:742` is commented out (the center server does so at
  `hall_agent_manager.go:213`); two handlers that close each other's connections; a put
  into the full `send_chan` of a connection whose `send_loop` has ended, by Broadcast with
  the lock held or by a handler.
* `ShutdownMeansTold` and `ShutdownCompletes` except a connection that is accepted after
  Shutdown has copied `conn_map`.
* `NobodyWaitsForEver` excepts `Crossed`: `PushNew` calls the other halls while it holds the
  lock of its own list (`anouncement.go:144`). Two halls that announce at once wait for
  each other's lock, no call has a timeout, and every request of both halls blocks in
  `GetSome`. `AnnounceFirstRank` and chat messages alone never cross.
* `ReadInOrder` excepts two requests of one player that read at once (a message twice) and
  a cursor whose item went back to the pool and cannot be told from its time.

Three smaller defects showed up in the models and break no property. The first unread
message of a friend gets id 1 while the counter stays 0, so the second is given id 1 again
and is refused until the first is confirmed (`player_friend.go:87`). A gift on another
hall reports success when the call has failed (`rpc_client.go:421`). And a gift that is not
collected before the friend's next one is lost with no overlap at all: `store_friend_points`
looks at the time of the last gift and not at whether it was collected, and sets the points
(`player_friend.go:467`). The protocol has a result for that, which no code returns
(`public_message/client_message.proto:216`). `GiftClaimedOnce` is therefore about gifts that are
collected twice, and not about those that are never collected.

**Bounds.** `DbTable_run` has one key with two row objects, two columns, two values and two
handlers: full and partial UPDATEs and the race for a row occur, and with one restart the
contents of the second life are those of any later one. `DbTable_shutdown` has two rows,
and contents of one value only, since its properties are about statements and control. The
skip list has five items and three layers (`MAX_SKIPLIST_LAYER`, 32 in the code): a node
can be between two others on each layer and `curr_layer` can fall by two. RankingList has
two keys, the values 0, 1 and 2, three objects and two handlers: ties and overtaking, both kinds
of deletion, two calls of one key or of two, entries of deleted keys whose object was handed out
again, and objects lost to the copies of the first rank all occur. The proofs cover any
number of each.
AccountIds has three accounts in tables of two ids: one before a border, one at it, one
after it. Login has one account (accounts share nothing but the connections) with two
requests, two connections of the hall and a break of the center server's. Friends has two
players with two requests at once, any number of them one after the other, and two unread
messages. ServerConn has channels of one entry, one connection with a user or two with
handlers that close. Announcements has two halls and a pool of two items that four messages
go through. `MaxPid`, `MaxStarts`, `MaxTime`, `MaxBreaks`, a scenario's `frames` and its
`ticks` are the only counters that are cut.

**Fairness.** `FairRunSpec` asks that `DBC.Loop` goes on: it is a goroutine that sleeps for
a bounded time and waits for no handler. `DbTable!FairSpec` adds the goroutine of
`HallServer.Shutdown` once it has begun its Save; nothing obliges it to begin. Handlers and
restarts have none. `AccountIds!FairSpec` is the same for `AccountDBC.Loop`. Statements are
assumed to return; whether they succeed is `ExecMayFail`. `Login!FairSpec` is weak fairness
of the goroutines of the login server and of the center server's reading and answering
while it is connected; the hall, clients and failures have none. `ServerConn!FairSpec` is weak
fairness of each loop and each caller. It includes `Write`: no server sets a timeout of its
sockets, so the assumption there is that a client reads or its connection breaks in the end
(the keep-alive period is two minutes, `server_conn.go:1075`). `Announcements!FairSpec` has
strong fairness for the goroutine of a push, since `sync.RWMutex` does not let later
readers overtake a waiting writer, and weak fairness for a request that waits or reads.

`CHECK_DEADLOCK FALSE` appears where the system really may stop: a server that has shut
down (`DbTable_shutdown`, `DbTable_exit`, `ServerConn`), requests that are all served or wait
for ever (`Login`), clients with nothing left to ask for (`Friends`, `Announcements`).

## 4. The proofs

The eight `...Proofs` modules state every safety property of the passing runs as a theorem for
all values of the constants: all nodes, keys, values, messages, sizes and times, of which a
run checks one small choice. An `ASSUME` in a theorem is a condition
that the code itself needs, as section 3 shows.

### DbTableProofs

| theorem | statement |
|---|---|
| `TypeCorrect` | `Spec => []TypeOK` |
| `CleanColumns` | `RunSpec => []CleanColumnIsStored`, when statements succeed |
| `StatementsFit` | `RunSpec => []StatementFits`, when statements succeed |
| `CacheIsDurable` | `RunSpec => DurableRowsSpec`, when statements succeed |
| `ClosedAfterSaves` | `Spec => []NoStatementAfterClose`, failing statements, shutdown and restarts included |

Assumptions: `DbTableAssumption` (`None` is none of the values it is compared with), and
for the middle three `ExecMayFail = FALSE` and `RunSpec`, the server before Shutdown begins.
Both are needed: a failed statement loses a change whose flags are cleared, and
`DbTable_exit` shows what a second Save does.

The inductive invariant `IInv` has six parts. `OnlyLoopSaves`: the other saver is idle and
`m_quit` is down. `MapsMatch`: a row found under a key is an object of that key, and one
object is in one map. `LoopSavesTable`: what Loop still has to save, and the row of its
statement, are rows of `m_rows`, and the statement is an INSERT just when its key is not in
`db`. `NewIsNotStored`: a key without
a row in `m_rows`, or whose row there is still to be inserted, is not in `db`. `CleanIsStored`: the columns whose flag
is down are in `db` *or in the statement being executed*. That last clause is why
`CleanColumnIsStored` is stated with `Flushed`: between `save_data` and Exec the flags are
down and `db` is old. `StatementFits` follows from the third part, which rests on the fourth, and
refinement from all: a step of `SaveData` takes a snapshot, `Exec` writes it to the disk,
setters change memory, and the other steps of Save are stutters.

`ClosedAfterSaves` has an invariant of its own, `CloseInv`: a saver has a statement only
between the first and the last step of its Save (`StatementInSave`), `m_quit` goes up after
Shutdown's Save, and the connection is closed by a Loop that has seen it (`CloseOrder`).

### AccountIdsProofs

| theorem | statement |
|---|---|
| `TypeCorrect` | `Spec => []TypeOK` |
| `PidsFit` | `Spec => []PidFitsTable`, with the process dying at any moment |
| `PidsDistinct` | `Spec => []PidsAreDistinct`, when `CrashAnywhere = FALSE` |
| `IdsAreKept` | `Spec => PidIsKept`, an action property, when `CrashAnywhere = FALSE` |

`IInv` has the types and four parts. `TablesInv`: the table in use ends at `cur_idx_max` and
the highest id lies in it or ends the one before. `AllocInv`: a TryGetAccountPid in progress
has a row without an id in the table in use, which has room for the next id. `RowsFit` and
`StoredFits`: an id in memory, or in MySQL, lies in the table of its row. Distinct ids need an
invariant of their own on top of it, `Distinct`: an id names one account in memory, in MySQL
and in the call in progress (`OneEach`); none is above the counter (`Bounded`); and a server
that quits has written the highest id and is in no call (`Stopped`), which is what a crash
between the two writes takes away.

That no step changes an account's id is hard at one step, the restart, which takes the ids
from MySQL. `Kept` says that nothing is missing there. `RowsInv`: a row carries the id of its
account. `CopiesInv`: MySQL has one row of an account at most, the one in memory if no flag
of it is up. `LoadedInv`: a table loaded from MySQL gets no new row for its accounts.
`PendingInv`: a row that is not saved is in the table in use, in a table the next Save takes,
or ahead of the Save in progress. `ShutdownInv`: the last Save finds no table left
and no id that is being handed out.

### LoginProofs

| theorem | statement |
|---|---|
| `TypeCorrect` | `Spec => []TypeOK` |
| `SendersMeetWaits` | `Spec => []OneSenderPerWait` |
| `LastTokenWins` | `Spec => []LastTokenCounts` |
| `RegistrationFound` | `Spec => []RegistrationHolds` |

Its invariant is `Types /\ WaitInv /\ RegInv /\ TokenInv /\ HistoryOK`. `WaitInv`: the
handler in `acc2c_wait` and the target of every sender are handlers that receive, and no
handler is both: popping a wait moves it from one to the other. `RegInv`: agents, ids and
the steps of registrations agree, and without a race at most one connection is past
`HasAgent`, with nothing registered then. `TokenInv`: the last token of an account is the
last of its entries in `toHall`, or what the hall has when there is none: it rests on the
order of a connection. `HistoryOK` is the domain of the history variable.

### SkiplistProofs

| theorem | statement |
|---|---|
| `TypeCorrect` | `Spec => []TypeOK` |
| `EmptyAbove` | `Spec => []NothingAboveCurrLayer` |
| `BackAndForth` | `Spec => []PrevIsInverse` |
| `SearchFindsItems` | `Spec => []ItemsAreFound`: a search finds an item just when it is in the list |
| `ListIsSorted` | `Spec => SortedItemsSpec`, the refinement, with `GetRank` |
| `ByRank` | `Spec => []ByRankIsInverse` |

For any finite set of items and any number of layers. `IInv` describes every pointer by sets:
`LinksOK`, the successor on layer i is the greatest smaller item of that layer; `BacksOK`,
`prev` undoes `next`; `NoLinks`, nothing above a node's height; `SpansOK`, a span is the
difference of two ranks, and behind the last node of a layer it counts to the end of the list,
which is what Insert and Delete rely on and a test of small lists does not show; `HeightsOK` and
`LengthOK`, no node above `curr_layer`, and `curr_length` counts the items. The argument has
three steps: the loops of a search have a closed form (a walk ends at the last node before the
item, with its rank); Insert and Delete, written with it, preserve the six parts, a layer at a
time; and an insert adds one item to `InList` and a delete removes one, which are the steps of
`SortedItems`.

### RankingListProofs

| theorem | statement |
|---|---|
| `TypeCorrect` | `Spec => []TypeOK` |
| `ListedOnceInOrder` | `Spec => []SortedOnce` |
| `ReportedStaysRanked` | `Spec => []AckedIsRanked` |
| `PoolIsApart` | `Spec => []PooledIsUnlisted` |

For any keys, values, `Zeros`, objects and handlers, with no assumption on how many calls of a key run
at once. The parts of the invariant need each other. A search by fields is right while the list
is sorted by the fields its objects hold *now*; it stays sorted if no listed object is
overwritten; and that depends on `key2item` and `pool`. So `ListInv` says that, while no stale entry
has been used, the list is sorted (`SortedList`), a listed object is mapped under its own key
and not in the pool (`ListedIsMapped`), a mapped key that was not deleted is listed
(`MappedIsListed`), and an object in the pool still carries the key of a deleted entry
(`PooledIsDropped`). `LoadingWaits`: a key that is not loaded yet is not in the map, and no
handler gets beyond its first step. `CallInv` is about overlap: a call that is `alone` is the only one of its key
(`AloneIsAlone`), and a key with something `told` has no call in progress (`ToldIsIdle`). On it
rests `ValueInv`: what an alone call has applied is in the list (`AppliedIsRanked`), and what
one has stored or told is in the hash (`ReportedIsStored`), since only a call of the same key
changes either. The types already need that a key to be loaded is stored (`TypeInv`).

### FriendsProofs

| theorem | statement |
|---|---|
| `TypeCorrect` | `Spec => []TypeOK` |
| `FriendshipIsMutual` | `Spec => []MutualFriends` |
| `GiftCollectedOnce` | `Spec => []GiftClaimedOnce` |
| `ListedIdHasMessage` | `Spec => []UnreadIdHasMessage` |
| `MessagesAreListed` | `Spec => []NoMessageLeftBehind` |

For any number of players and of handlers. All rest on `TypeInv`, what each step of a request
knows, and on `OverlapKept`, by which a clash that is not in `crossed` is not under way.
`MutualInv`: the two rows disagree only while an agreement or a removal is half way, and its
step says which row is ahead. `GiftInv`, while no two requests have collected a gift at once: a
request at `collect` has the first claim to its gift, and one that was collected is
empty or about to be emptied by the request that took it (`OnceOnly`). A gift that is stored meanwhile
starts with no claim, and it may be emptied uncollected; that it is not collected twice is all
the theorem says. `MessagesInv` accounts for every message: it
is listed or in the hands of one handler (`HeldByOne`, `NoneLost`), what is held is not listed,
and a removal works on the row of one who is no friend any more, so nothing comes after what it
has seen (`NoFriends`, `AllSeen`, `AllErased`).

### ServerConnProofs

| theorem | statement |
|---|---|
| `TypeCorrect` | `Spec => []TypeOK` |
| `ToldBeforeShutdownReturns` | `Spec => []ShutdownMeansTold` |

`IInv` adds the places of the loops and calls (`PlacesOK`) and `ReleaseOrder`: OnDisconnect is
called once and before the connection leaves `conn_map`. Shutdown looks at the map only, so it is
this order that makes its promise true.

### AnnouncementsProofs

| theorem | statement |
|---|---|
| `TypeCorrect` | `Spec => []TypeOK` |
| `LatestAreKept` | `Spec => []ListKeepsLatest` |
| `MessagesAreReadInOrder` | `Spec => []ReadInOrder` |

For any halls, messages, requests, failures, pool of two items or more, and times.
`Shape(m, l)` says that head, tail, next and prev of a hall are those of the sequence `l` and
that its other items are free, each once; the loops of the code go along `l` (`ChainIs`,
`OldRecycled`, `FreshIs`), so `recycle_old` cuts off a beginning of `l` and a push adds an end
(`PushedTo`). `IInv` has five parts. `TypeInv`; `LockInv`; `OnceInv`: a message comes to a hall
once, as one that has come or will come is called for no more; `ListInv`: the shape, the list
holds the last messages in order of their times (`Latest`), and an item that once had a message
is old when it is not in the list and leads to such items only (`Used`); `ReadInv`: one request
of a player reads at a time, and he *follows* (`Follows`): he has every message up to his last
that is listed and not old, and his cursor is at the last one's item while it is listed. `Used` is what
makes a cursor into the pool harmless: what is read from there is old until it comes into the
list, which is at its head unless the cursor has gone astray (`SeenFrom`).

### Only model-checked

The liveness properties: `SetReachesDb`, `ShutdownCompletes` (two), `PidReachesDb`,
`EveryLoginAnswered`, `ClosingIsReleased`, `NothingLeftRunning`, `NobodyWaitsForEver`. TLAPS
proves nothing that rests on fairness or ENABLED. Loops of unbounded length are within reach
although the library's induction theorems are not: the set of steps at which a claim fails has
a least element (`LeastNatural`), and the step before it gives the contradiction.

## 5. What is not modelled, and the plan

Not modelled: the registries of the center server and of the halls (`login_agent_manager.go`,
`login_conn_mgr.go`: the broadcast that tells halls of login servers), the maps of
`player_manager.go`, the foster house, small rank lists and stage passes, reconnection of
Redis and RPC clients, personal spaces and nick names, the singleton tables of the cache, the
rules of the game over one player's own columns, the verification of receipts, the loaders of
configuration tables, generated protocol code and the test programs. The stock shared by all
players is left out: the shipped `Shop.xml` has no item of that kind.

Most of the repository's lines are generated accessors of columns (`a_db_tables.go` in two
servers, of which DbTable models one table, one row and its columns), generated protocol
code, and rules of the game that change one player's columns in one handler.

What is worth adding, in this order:

1. Proofs: every safety property of the passing runs is a theorem. What can be added is the
   safety part of the liveness properties (a login whose answer is on its way can take it, a
   lock that is held has a push that can go on), a refinement of the ranking list by a map of
   keys to values, and one of the announcements by a queue.
2. `Registry`: who is registered with whom, center server, login servers and halls, with
   connections that drop and come back. Abstract specification: each map agrees with the
   live connections.
3. `Foster`: the two sides of a lent cat, on two halls, with lost answers.
4. `SmallRank`: the sorted array with its map.
