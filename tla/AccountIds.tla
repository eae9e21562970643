----------------------------- MODULE AccountIds -----------------------------
(***************************************************************************)
(* How the center server gives every account its player id and keeps it    *)
(* (center_server/a_db_account.go).  TryGetAccountPid hands out the ids    *)
(* 1, 2, 3, ... and adds each new account to the account table in use;     *)
(* every DEFAULT_PLAYER_TABLE_COUNT ids it changes to the next table and   *)
(* leaves the full one to the next Save.  Loop's Save writes the highest   *)
(* id first and the accounts after it, while ids are being handed out; a   *)
(* server that starts reads the highest id, works out from it how many     *)
(* tables there are, and loads them.                                       *)
(*                                                                         *)
(* A row is written in one step (DbTable has the two steps of a save);     *)
(* MySQL accepts every statement, except that preparing the next table can *)
(* fail.  RemoveRow is never called.  CreateTime is left out.              *)
(***************************************************************************)
EXTENDS Naturals

CONSTANTS Accounts,
          TableSize,      \* DEFAULT_PLAYER_TABLE_COUNT
          CrashAnywhere,  \* may the process die at any moment, or only stop?
          MaxPid,         \* bound: ids handed out
          None

ASSUME AccountIdsAssumption ==
  /\ TableSize \in Nat \ {0}
  /\ CrashAnywhere \in BOOLEAN
  /\ MaxPid \in Nat
  /\ None \notin Accounts

VARIABLES
  acc2pid,      \* account -> its player id, 0 while it has none
  playerIdMax,  \* the row of the table PlayerIdMax
  cur_idx_max,  \* the last id of the table in use
  cur_table,    \* the number of the table in use
  next_table,   \* the number of the table prepared, 0 if there is none
  pass,         \* id2passaccounts: full tables no Save has taken yet
  row,          \* account -> the row AddRow made for it
  loaded,       \* <<table, account>>: rows that were in MySQL at the start
  alloc,        \* TryGetAccountPid in progress; it holds acc2pid_lock
  save,         \* the Save in progress
  quit,         \* Shutdown has closed the connections of the login servers
  maxStored,    \* MySQL: the row of PlayerIdMax
  stored        \* MySQL: the rows of the account tables

tableVars == <<cur_idx_max, cur_table, next_table, pass>>
dbVars    == <<maxStored, stored>>
vars == <<acc2pid, playerIdMax, tableVars, row, loaded, alloc, save, quit, dbVars>>

NoRow == [table |-> 0, place |-> "none", pid |-> 0, new |-> FALSE, changed |-> FALSE]
NoAlloc == [at |-> "none", acc |-> None, pid |-> 0]
NoSave == [at |-> "idle", tables |-> {}, table |-> 0, rows |-> {}]

TypeOK ==
  /\ acc2pid \in [Accounts -> Nat]
  /\ playerIdMax \in Nat /\ maxStored \in Nat
  /\ cur_idx_max \in Nat /\ cur_table \in Nat /\ next_table \in {0, cur_table + 1}
  /\ pass \subseteq Nat
  /\ row \in [Accounts -> [table : Nat, place : {"none", "m_new_rows", "m_rows"},
                           pid : Nat, new : BOOLEAN, changed : BOOLEAN]]
  /\ loaded \subseteq Nat \X Accounts
  /\ alloc \in [at : {"none", "added", "counted"}, acc : Accounts \cup {None}, pid : Nat]
  /\ save \in [at : {"idle", "pop", "next", "rows", "new", "lastRows", "lastNew"},
               tables : SUBSET Nat, table : Nat, rows : SUBSET Accounts]
  /\ quit \in BOOLEAN
  /\ stored \subseteq [table : Nat, acc : Accounts, pid : Nat]

Init ==
  /\ acc2pid = [a \in Accounts |-> 0]
  /\ playerIdMax = 0 /\ maxStored = 0
  /\ cur_idx_max = TableSize /\ cur_table = 1 /\ next_table = 2
  /\ pass = {}
  /\ row = [a \in Accounts |-> NoRow]
  /\ loaded = {}
  /\ alloc = NoAlloc
  /\ save = NoSave
  /\ quit = FALSE
  /\ stored = {}

-----------------------------------------------------------------------------
(* TryGetAccountPid of an account without an id.  For the others it        *)
(* returns the id it finds and changes nothing.                            *)

\* A mutant: the last id of a table goes to the next one.
FullEarly(pid) == pid >= cur_idx_max

\* The table in use has no room for pid.
Full(pid) == pid > cur_idx_max

\* A mutant: the full table is dropped.
Dropped(t) == pass

\* add_to_pass_tables
Passed(t) == pass \cup {t}

\* A mutant: the tables up to the one in use are counted.
NextTableLow(pid) == (pid - 1) \div TableSize + 1

\* The number of the table prepared when pid is the first of a new table.
NextTableFor(pid) == (pid - 1) \div TableSize + 2

\* Take the next table into use, prepare the one after it and load what is in
\* it; when that fails there is no next table, and TryGetAccountPid will fail.
ChangeTable(pid) ==
  /\ next_table # 0
  /\ cur_idx_max' = cur_idx_max + TableSize
  /\ pass' = Passed(cur_table)
  /\ cur_table' = next_table
  /\ \/ /\ next_table' = NextTableFor(pid)
        /\ loaded' = loaded \cup {<<s.table, s.acc>> : s \in {x \in stored : x.table = next_table'}}
     \/ /\ next_table' = 0
        /\ UNCHANGED loaded

\* AddRow puts an empty row into the table in use.
AddRow(a) ==
  LET pid == playerIdMax + 1 IN
  /\ ~quit
  /\ alloc.at = "none"
  /\ acc2pid[a] = 0
  /\ pid <= MaxPid
  /\ IF Full(pid) THEN ChangeTable(pid) ELSE UNCHANGED <<tableVars, loaded>>
  /\ ~(row[a].place = "m_new_rows" /\ row[a].table = cur_table')
  /\ row' = [row EXCEPT ![a] = [table |-> cur_table', place |-> "m_new_rows",
                                pid |-> 0, new |-> TRUE, changed |-> TRUE]]
  /\ alloc' = [at |-> "added", acc |-> a, pid |-> pid]
  /\ UNCHANGED <<acc2pid, playerIdMax, save, quit, dbVars>>

\* A mutant: the counter stays where it is.
NotCounted(m) == m

Counted(m) == m + 1

IncPlayerIdMax ==
  /\ alloc.at = "added"
  /\ playerIdMax' = Counted(playerIdMax)
  /\ alloc' = [alloc EXCEPT !.at = "counted"]
  /\ UNCHANGED <<acc2pid, tableVars, row, loaded, save, quit, dbVars>>

\* The row gets its id and the account is known.
SetPlayerId ==
  /\ alloc.at = "counted"
  /\ LET a == alloc.acc IN
       /\ row' = [row EXCEPT ![a] = [row[a] EXCEPT !.pid = alloc.pid, !.changed = TRUE]]
       /\ acc2pid' = [acc2pid EXCEPT ![a] = alloc.pid]
  /\ alloc' = NoAlloc
  /\ UNCHANGED <<playerIdMax, tableVars, loaded, save, quit, dbVars>>

-----------------------------------------------------------------------------
(* Save: PlayerIdMax, the full tables, the table in use.                   *)

SavePlayerIdMax ==
  /\ maxStored' = playerIdMax
  /\ save' = [save EXCEPT !.at = "pop"]
  /\ UNCHANGED <<acc2pid, playerIdMax, tableVars, row, loaded, alloc, stored>>

LoopSaves == ~quit /\ save.at = "idle" /\ SavePlayerIdMax /\ UNCHANGED quit

\* The server's Shutdown: no login server is connected any more.  Loop is
\* asleep here; what happens when it is not is DbTable's subject.
ShutdownSaves ==
  /\ ~quit /\ save.at = "idle" /\ alloc.at = "none"
  /\ SavePlayerIdMax
  /\ quit' = TRUE

PopPassTables ==
  /\ save.at = "pop"
  /\ save' = [save EXCEPT !.at = "next", !.tables = pass]
  /\ pass' = {}
  /\ UNCHANGED <<acc2pid, playerIdMax, cur_idx_max, cur_table, next_table, row, loaded,
                 alloc, quit, dbVars>>

RowsIn(t, place) == {a \in Accounts : row[a].table = t /\ row[a].place = place}

\* The rows of table t are copied: a full table, or at last the one in use.
SaveTable ==
  /\ save.at = "next"
  /\ \/ \E t \in save.tables :
          save' = [at |-> "rows", tables |-> save.tables \ {t}, table |-> t,
                   rows |-> RowsIn(t, "m_rows")]
     \/ /\ save.tables = {}
        /\ save' = [at |-> "lastRows", tables |-> {}, table |-> cur_table,
                    rows |-> RowsIn(cur_table, "m_rows")]
  /\ UNCHANGED <<acc2pid, playerIdMax, tableVars, row, loaded, alloc, quit, dbVars>>

\* INSERT or UPDATE of a row; a row that is clean is passed over.
Written(a) ==
  IF row[a].new \/ row[a].changed
    THEN {s \in stored : ~(s.table = row[a].table /\ s.acc = a)}
           \cup {[table |-> row[a].table, acc |-> a, pid |-> row[a].pid]}
    ELSE stored

SaveRow(a) ==
  /\ a \in save.rows
  /\ save' = [save EXCEPT !.rows = @ \ {a}]
  /\ stored' = Written(a)
  /\ row' = [row EXCEPT ![a] = [row[a] EXCEPT !.new = FALSE, !.changed = FALSE]]
  /\ UNCHANGED <<acc2pid, playerIdMax, tableVars, loaded, alloc, quit, maxStored>>

\* fetch_new_rows leaves a row behind whose account the table has already.
FetchNewRows ==
  /\ save.at \in {"rows", "lastRows"} /\ save.rows = {}
  /\ LET fetched == {a \in RowsIn(save.table, "m_new_rows") : <<save.table, a>> \notin loaded}
     IN /\ row' = [a \in Accounts |-> IF a \in fetched
                     THEN [row[a] EXCEPT !.place = "m_rows"] ELSE row[a]]
        /\ save' = [save EXCEPT !.at = IF @ = "rows" THEN "new" ELSE "lastNew",
                                !.rows = fetched]
  /\ UNCHANGED <<acc2pid, playerIdMax, tableVars, loaded, alloc, quit, dbVars>>

TableSaved ==
  /\ save.at \in {"new", "lastNew"} /\ save.rows = {}
  /\ save' = IF save.at = "new" THEN [save EXCEPT !.at = "next"] ELSE NoSave
  /\ UNCHANGED <<acc2pid, playerIdMax, tableVars, row, loaded, alloc, quit, dbVars>>

-----------------------------------------------------------------------------
(* The server starts again.                                                *)

\* How many tables there are when max is the highest id.
TableCount(max) == (IF max = 0 THEN 0 ELSE max - 1) \div TableSize + 1

\* A mutant: only the last table is read.
LastRead(n) == {s \in stored : s.table = n}

\* The rows of the tables that PreLoad reads into acc2pid.
Read(n) == {s \in stored : s.table <= n}

\* A later table overwrites what an earlier one said of an account.
PidIn(S, a) ==
  LET mine == {s \in S : s.acc = a} IN
  IF mine = {} THEN 0
  ELSE (CHOOSE s \in mine : \A x \in mine : x.table <= s.table).pid

\* The table in use holds the rows of all tables, the next one is loaded, too.
Restart ==
  /\ CrashAnywhere \/ (quit /\ save.at = "idle")
  /\ LET n == TableCount(maxStored) IN
       /\ acc2pid' = [a \in Accounts |-> PidIn(Read(n), a)]
       /\ cur_idx_max' = TableSize * n
       /\ cur_table' = n
       /\ next_table' = n + 1
       /\ loaded' = {<<n, s.acc>> : s \in Read(n)}
            \cup {<<n + 1, s.acc>> : s \in {x \in stored : x.table = n + 1}}
  /\ playerIdMax' = maxStored
  /\ pass' = {}
  /\ row' = [a \in Accounts |-> NoRow]
  /\ alloc' = NoAlloc
  /\ save' = NoSave
  /\ quit' = FALSE
  /\ UNCHANGED dbVars

-----------------------------------------------------------------------------
TryGetAccountPid == (\E a \in Accounts : AddRow(a)) \/ IncPlayerIdMax \/ SetPlayerId

Save == \/ PopPassTables
        \/ SaveTable
        \/ \E a \in Accounts : SaveRow(a)
        \/ FetchNewRows
        \/ TableSaved

Next == TryGetAccountPid \/ LoopSaves \/ ShutdownSaves \/ Save \/ Restart

Spec == Init /\ [][Next]_vars

\* Loop goes on saving and a Save that began goes on.  Nothing obliges an
\* account to log in, or the server to stop.
FairSpec == Spec /\ WF_vars(LoopSaves \/ Save)

-----------------------------------------------------------------------------
(* Properties. *)

\* Two accounts never share a player id, hence a player.
PidsAreDistinct ==
  \A a, b \in Accounts : acc2pid[a] = acc2pid[b] /\ acc2pid[a] # 0 => a = b

\* An account keeps its id for good: what Save wrote, in pieces and while ids
\* were handed out and tables changed, is what the next start reads.
PidIsKept == [][\A a \in Accounts : acc2pid[a] # 0 => acc2pid'[a] = acc2pid[a]]_vars

\* Every id is stored in the table it is looked for: table t holds the ids
\* TableSize * (t - 1) + 1 to TableSize * t, also when the process died between
\* the write of the highest id and the writes of the tables.
InItsTable(t, pid) == TableSize * (t - 1) < pid /\ pid <= TableSize * t
PidFitsTable ==
  /\ \A s \in stored : s.pid # 0 => InItsTable(s.table, s.pid)
  /\ alloc.at # "none" => InItsTable(row[alloc.acc].table, alloc.pid)

\* An id that was handed out reaches MySQL, whatever table it was added to.
PidReachesDb ==
  \A a \in Accounts, p \in 1 .. MaxPid :
    acc2pid[a] = p ~> \/ acc2pid[a] # p
                      \/ \E s \in stored : s.acc = a /\ s.pid = p
=============================================================================
