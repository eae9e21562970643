------------------------------ MODULE DbTable ------------------------------
(***************************************************************************)
(* One table of the write-behind row cache (a_db_tables.go): the maps      *)
(* m_rows and m_new_rows of row objects, the handlers that look rows up,   *)
(* create them and set their columns, and the two goroutines that write    *)
(* them to MySQL: DBC.Loop, which saves every few minutes and once more    *)
(* when the server quits, and the server's own Shutdown, which calls       *)
(* dbc.Save(false) and then dbc.Shutdown().                                *)
(*                                                                         *)
(* A save of a row is two steps, as in the code: save_data reads the row   *)
(* and clears its flags under the row's lock, then the statement is        *)
(* executed with no lock of the row held.                                  *)
(*                                                                         *)
(* RemoveRow is called by no code of the repository, so m_removed_rows is  *)
(* always empty and the DELETE loop of Save does nothing: both are left    *)
(* out.  Row objects of one key are told apart, because the code can       *)
(* create two of them.                                                     *)
(***************************************************************************)
EXTENDS Naturals

CONSTANTS Keys,         \* primary keys (player ids)
          Cols,         \* the columns of a row
          Vals,         \* what a column can hold
          ZeroVal,      \* the content of every column of a fresh row
          Rows,         \* row objects (bound: AddRow needs one that is free)
          Clients,      \* concurrent request handlers
          ExecMayFail,  \* may an Exec return an error?
          MaxStarts,    \* bound: how often the process is started
          None

ASSUME DbTableAssumption ==
  /\ ZeroVal \in Vals
  /\ ExecMayFail \in BOOLEAN
  /\ MaxStarts \in Nat
  /\ None \notin Rows
  /\ None \notin Keys
  /\ None \notin [Cols -> Vals]
  /\ None \notin [row : Rows, insert : BOOLEAN, cols : SUBSET Cols,
                  content : [Cols -> Vals]]

Savers == {"loop", "shutdown"}

VARIABLES
  m_rows,      \* key -> row object of the table, or None
  m_new_rows,  \* key -> row object that was added and not yet fetched, or None
  keyOf,       \* row object -> its key, None while it is unallocated
  val,         \* row object -> column -> content
  changed,     \* row object -> the columns whose _changed flag is up
  m_new,       \* row object -> not yet handed to an INSERT
  db,          \* the table in MySQL: key -> content, or None
  at,          \* saver -> where it is in Loop / Shutdown and Save
  quick,       \* saver -> the argument of the Save it runs
  pending,     \* saver -> rows of its copy of the map it has not saved yet
  stmt,        \* saver -> statement prepared and not yet executed, or None
  m_quit,      \* Shutdown asked Loop to stop
  closed,      \* Loop closed the database and completed
  client,      \* handler -> what it is doing
  starts       \* how often the process was started

tableVars  == <<m_rows, m_new_rows>>
rowVars    == <<keyOf, val, changed, m_new>>
saverVars  == <<at, quick, pending, stmt>>
serverVars == <<m_quit, closed, starts>>
vars == <<tableVars, rowVars, db, saverVars, serverVars, client>>

Content == [Cols -> Vals]
Stmt == [row : Rows, insert : BOOLEAN, cols : SUBSET Cols, content : Content]
Idle == [at |-> "idle", key |-> None, row |-> None]
ClientState == {Idle} \cup [at : {"miss"}, key : Keys, row : {None}]
                      \cup [at : {"hold"}, key : Keys, row : Rows]

TypeOK ==
  /\ m_rows \in [Keys -> Rows \cup {None}]
  /\ m_new_rows \in [Keys -> Rows \cup {None}]
  /\ keyOf \in [Rows -> Keys \cup {None}]
  /\ val \in [Rows -> Content]
  /\ changed \in [Rows -> SUBSET Cols]
  /\ m_new \in [Rows -> BOOLEAN]
  /\ db \in [Keys -> Content \cup {None}]
  /\ at \in [Savers -> {"idle", "rows", "new", "saved", "wait", "done"}]
  /\ quick \in [Savers -> BOOLEAN]
  /\ pending \in [Savers -> SUBSET Rows]
  /\ stmt \in [Savers -> Stmt \cup {None}]
  /\ m_quit \in BOOLEAN
  /\ closed \in BOOLEAN
  /\ starts \in Nat
  /\ client \in [Clients -> ClientState]

Fresh == [c \in Cols |-> ZeroVal]

Init ==
  /\ m_rows     = [k \in Keys |-> None]
  /\ m_new_rows = [k \in Keys |-> None]
  /\ keyOf   = [r \in Rows |-> None]
  /\ val     = [r \in Rows |-> Fresh]
  /\ changed = [r \in Rows |-> {}]
  /\ m_new   = [r \in Rows |-> FALSE]
  /\ db      = [k \in Keys |-> None]
  /\ at      = [s \in Savers |-> "idle"]
  /\ quick   = [s \in Savers |-> FALSE]
  /\ pending = [s \in Savers |-> {}]
  /\ stmt    = [s \in Savers |-> None]
  /\ m_quit  = FALSE
  /\ closed  = FALSE
  /\ client  = [p \in Clients |-> Idle]
  /\ starts  = 0

-----------------------------------------------------------------------------
(* The request handlers.  A handler that finds no row calls AddRow in a    *)
(* step of its own: nothing is locked between the two calls.               *)

RowOf(k) == IF m_rows[k] # None THEN m_rows[k] ELSE m_new_rows[k]

GetRow(p, k) ==
  /\ client[p].at = "idle"
  /\ client' = [client EXCEPT ![p] =
       [at |-> IF RowOf(k) = None THEN "miss" ELSE "hold",
        key |-> k, row |-> RowOf(k)]]
  /\ UNCHANGED <<tableVars, rowVars, db, saverVars, serverVars>>

\* AddRow looks for the key in m_new_rows only; it returns nil when it is there.
\* (new_dbPlayerRow raises some flags, but the flags of a row that is m_new are
\* never read: its INSERT writes all columns and clears them.)
AddRow(p) ==
  /\ client[p].at = "miss"
  /\ LET k == client[p].key IN
     \/ /\ m_new_rows[k] # None
        /\ client' = [client EXCEPT ![p] = Idle]
        /\ UNCHANGED <<m_new_rows, rowVars>>
     \/ /\ m_new_rows[k] = None
        /\ \E r \in Rows :
             /\ keyOf[r] = None
             /\ keyOf' = [keyOf EXCEPT ![r] = k]
             /\ val' = [val EXCEPT ![r] = Fresh]
             /\ changed' = [changed EXCEPT ![r] = {}]
             /\ m_new' = [m_new EXCEPT ![r] = TRUE]
             /\ m_new_rows' = [m_new_rows EXCEPT ![k] = r]
             /\ client' = [client EXCEPT ![p] =
                             [at |-> "hold", key |-> k, row |-> r]]
  /\ UNCHANGED <<m_rows, db, saverVars, serverVars>>

SetColumn(p, c, v) ==
  /\ client[p].at = "hold"
  /\ LET r == client[p].row IN
       /\ val' = [val EXCEPT ![r] = [val[r] EXCEPT ![c] = v]]
       /\ changed' = [changed EXCEPT ![r] = @ \cup {c}]
  /\ UNCHANGED <<keyOf, m_new, tableVars, db, saverVars, serverVars, client>>

Leave(p) ==
  /\ client[p].at = "hold"
  /\ client' = [client EXCEPT ![p] = Idle]
  /\ UNCHANGED <<tableVars, rowVars, db, saverVars, serverVars>>

-----------------------------------------------------------------------------
(* Table.Save: copy m_rows, save each row of the copy, move m_new_rows     *)
(* into m_rows, save each row that was moved.                              *)

\* A mutant: keys without a row are copied, too.
RowsWithHoles == {m_rows[k] : k \in Keys}

RowsNow == {m_rows[k] : k \in Keys} \ {None}

FetchRows(s) ==
  /\ pending' = [pending EXCEPT ![s] = RowsNow]
  /\ at' = [at EXCEPT ![s] = "rows"]
  /\ UNCHANGED <<tableVars, rowVars, db, stmt, serverVars, client>>

\* A mutant: the Save of a Loop that quits is an ordinary one, and Loop goes on.
LoopNeverLeaves ==
  /\ at["loop"] = "idle"
  /\ quick' = [quick EXCEPT !["loop"] = FALSE]
  /\ FetchRows("loop")

\* Loop wakes up; Save(true) if it was told to quit, Save(false) otherwise.
LoopWakes ==
  /\ at["loop"] = "idle"
  /\ quick' = [quick EXCEPT !["loop"] = m_quit]
  /\ FetchRows("loop")

\* The server's Shutdown calls dbc.Save(false), whatever Loop is doing.
ShutdownSaves ==
  /\ at["shutdown"] = "idle"
  /\ FetchRows("shutdown")
  /\ UNCHANGED quick

Saving(s) == at[s] \in {"rows", "new"} /\ stmt[s] = None

\* save_rows gives up as soon as it sees m_quit, unless this is the quick save.
Hurried(s) == m_quit /\ ~quick[s]

\* A mutant: the columns of an UPDATE are not pushed into its arguments.
PreparedEmpty(r) ==
  IF m_new[r]
    THEN [row |-> r, insert |-> TRUE, cols |-> Cols, content |-> val[r]]
    ELSE IF changed[r] # {}
           THEN [row |-> r, insert |-> FALSE, cols |-> {}, content |-> val[r]]
           ELSE None

\* A mutant: a row that changed is inserted, whether or not it is new.
PreparedInsert(r) ==
  IF m_new[r] \/ changed[r] # {}
    THEN [row |-> r, insert |-> TRUE, cols |-> Cols, content |-> val[r]]
    ELSE None

\* The statement save_data builds for a row: an INSERT of a new one, an UPDATE
\* of the changed columns, or nothing.
Prepared(r) ==
  IF m_new[r]
    THEN [row |-> r, insert |-> TRUE, cols |-> Cols, content |-> val[r]]
    ELSE IF changed[r] # {}
           THEN [row |-> r, insert |-> FALSE, cols |-> changed[r],
                 content |-> val[r]]
           ELSE None

\* save_data: under the row's lock, build the statement and clear the flags.
SaveData(s, r) ==
  /\ Saving(s)
  /\ r \in pending[s]
  /\ ~Hurried(s)
  /\ pending' = [pending EXCEPT ![s] = @ \ {r}]
  /\ stmt' = [stmt EXCEPT ![s] = Prepared(r)]
  /\ m_new' = [m_new EXCEPT ![r] = FALSE]
  /\ changed' = [changed EXCEPT ![r] = {}]
  /\ UNCHANGED <<keyOf, val, tableVars, db, at, quick, serverVars, client>>

SaveRowsGivesUp(s) ==
  /\ Saving(s)
  /\ pending[s] # {}
  /\ Hurried(s)
  /\ pending' = [pending EXCEPT ![s] = {}]
  /\ UNCHANGED <<tableVars, rowVars, db, at, quick, stmt, serverVars, client>>

\* What statement x leaves of a row whose stored content is old.
Applied(x, old) == [c \in Cols |-> IF c \in x.cols THEN x.content[c] ELSE old[c]]

\* An INSERT needs a free key; an UPDATE of a key that is not there changes
\* nothing and reports no error.
ExecOk(s) ==
  /\ stmt[s] # None
  /\ LET x == stmt[s]  k == keyOf[x.row] IN
       db' = [db EXCEPT ![k] =
                IF x.insert THEN (IF @ = None THEN x.content ELSE @)
                            ELSE (IF @ = None THEN @ ELSE Applied(x, @))]
  /\ stmt' = [stmt EXCEPT ![s] = None]
  /\ UNCHANGED <<tableVars, rowVars, at, quick, pending, serverVars, client>>

\* The error is logged; the flags stay cleared.
ExecFails(s) ==
  /\ ExecMayFail
  /\ stmt[s] # None
  /\ stmt' = [stmt EXCEPT ![s] = None]
  /\ UNCHANGED <<tableVars, rowVars, db, at, quick, pending, serverVars, client>>

Exec(s) == ExecOk(s) \/ ExecFails(s)

\* A mutant: the check of m_rows is inverted.
FetchedInverted == {k \in Keys : m_new_rows[k] # None /\ m_rows[k] # None}

\* The new rows whose key m_rows does not have yet; the others stay behind.
Fetched == {k \in Keys : m_new_rows[k] # None /\ m_rows[k] = None}

FetchNewRows(s) ==
  /\ Saving(s)
  /\ at[s] = "rows"
  /\ pending[s] = {}
  /\ m_rows' = [k \in Keys |-> IF k \in Fetched THEN m_new_rows[k] ELSE m_rows[k]]
  /\ m_new_rows' = [k \in Keys |-> IF k \in Fetched THEN None ELSE m_new_rows[k]]
  /\ pending' = [pending EXCEPT ![s] = {m_new_rows[k] : k \in Fetched}]
  /\ at' = [at EXCEPT ![s] = "new"]
  /\ UNCHANGED <<rowVars, db, quick, stmt, serverVars, client>>

SaveReturns(s) == Saving(s) /\ at[s] = "new" /\ pending[s] = {}

\* Loop sleeps again, or after its last Save closes the database and completes.
LoopSaved ==
  /\ SaveReturns("loop")
  /\ at' = [at EXCEPT !["loop"] = IF quick["loop"] THEN "done" ELSE "idle"]
  /\ closed' = quick["loop"]
  /\ UNCHANGED <<tableVars, rowVars, db, quick, pending, stmt, m_quit, starts, client>>

ShutdownSaved ==
  /\ SaveReturns("shutdown")
  /\ at' = [at EXCEPT !["shutdown"] = "saved"]
  /\ UNCHANGED <<tableVars, rowVars, db, quick, pending, stmt, serverVars, client>>

\* A mutant: Shutdown does not wait for its own Save to return.
ShutdownQuitsEarly ==
  /\ at["shutdown"] \in {"rows", "new", "saved"}
  /\ m_quit' = TRUE
  /\ at' = [at EXCEPT !["shutdown"] = "wait"]
  /\ UNCHANGED <<tableVars, rowVars, db, quick, pending, stmt, closed, starts, client>>

\* DBC.Shutdown: set m_quit, then poll m_shutdown_completed.
ShutdownQuits ==
  /\ at["shutdown"] = "saved"
  /\ m_quit' = TRUE
  /\ at' = [at EXCEPT !["shutdown"] = "wait"]
  /\ UNCHANGED <<tableVars, rowVars, db, quick, pending, stmt, closed, starts, client>>

ShutdownReturns ==
  /\ at["shutdown"] = "wait"
  /\ closed
  /\ at' = [at EXCEPT !["shutdown"] = "done"]
  /\ UNCHANGED <<tableVars, rowVars, db, quick, pending, stmt, serverVars, client>>

-----------------------------------------------------------------------------
(* The process dies at any moment (or has shut down) and is started again: *)
(* Preload builds a row object for every row of the database.              *)

\* A mutant: the columns are not read.
PreloadedEmpty(k) == Fresh

Preloaded(k) == db[k]

Restart ==
  /\ starts < MaxStarts
  /\ starts' = starts + 1
  /\ m_rows' \in [Keys -> Rows \cup {None}]
  /\ \A k \in Keys : m_rows'[k] = None <=> db[k] = None
  /\ keyOf' \in [Rows -> Keys \cup {None}]
  /\ \A r \in Rows : keyOf'[r] # None => m_rows'[keyOf'[r]] = r
  /\ \A k \in Keys : m_rows'[k] # None => keyOf'[m_rows'[k]] = k
  /\ val' = [r \in Rows |-> IF keyOf'[r] = None THEN Fresh ELSE Preloaded(keyOf'[r])]
  /\ m_new_rows' = [k \in Keys |-> None]
  /\ changed' = [r \in Rows |-> {}]
  /\ m_new' = [r \in Rows |-> FALSE]
  /\ at' = [s \in Savers |-> "idle"]
  /\ quick' = [s \in Savers |-> FALSE]
  /\ pending' = [s \in Savers |-> {}]
  /\ stmt' = [s \in Savers |-> None]
  /\ m_quit' = FALSE
  /\ closed' = FALSE
  /\ client' = [p \in Clients |-> Idle]
  /\ UNCHANGED db

-----------------------------------------------------------------------------
ClientNext == \E p \in Clients :
  \/ \E k \in Keys : GetRow(p, k)
  \/ AddRow(p)
  \/ \E c \in Cols, v \in Vals : SetColumn(p, c, v)
  \/ Leave(p)

Save(s) == \/ \E r \in Rows : SaveData(s, r)
           \/ SaveRowsGivesUp(s)
           \/ Exec(s)
           \/ FetchNewRows(s)

LoopNext == LoopWakes \/ Save("loop") \/ LoopSaved

ShutdownNext == \/ ShutdownSaves
                \/ Save("shutdown")
                \/ ShutdownSaved
                \/ ShutdownQuits
                \/ ShutdownReturns

Next == ClientNext \/ LoopNext \/ ShutdownNext \/ Restart

Spec == Init /\ [][Next]_vars

\* Both goroutines are scheduled; neither waits for a handler.  Nothing obliges
\* the server to shut down, or a handler to do anything.
Fairness == /\ WF_vars(LoopNext)
            /\ WF_vars(Save("shutdown") \/ ShutdownSaved \/ ShutdownQuits
                       \/ ShutdownReturns)

FairSpec == Spec /\ Fairness

\* The server while it runs: Shutdown has not begun.
Up == at["shutdown"] = "idle"
RunSpec == Init /\ [][Next /\ Up']_vars
FairRunSpec == RunSpec /\ WF_vars(LoopNext)

-----------------------------------------------------------------------------
(* Properties. *)

\* What the database will hold for k once Loop's statement has been executed.
Flushed(k) ==
  LET x == stmt["loop"] IN
  IF x # None /\ keyOf[x.row] = k
    THEN (IF x.insert THEN x.content ELSE Applied(x, db[k]))
    ELSE db[k]

\* A column whose _changed flag is down is in the database, or in the statement
\* that is about to be executed: save_data clears the flags of a row before the
\* row is written, and setters raise them again in between.
CleanColumnIsStored ==
  Up => \A k \in Keys :
    LET r == m_rows[k] IN
    r # None /\ ~m_new[r] =>
      /\ Flushed(k) # None
      /\ \A c \in Cols \ changed[r] : Flushed(k)[c] = val[r][c]

\* The INSERT Loop is about to execute finds its key free, and an UPDATE finds
\* its row: neither error nor an update of nothing can lose the data for which
\* save_data has already cleared the flags.
StatementFits ==
  LET x == stmt["loop"] IN
  Up /\ x # None => (x.insert <=> db[keyOf[x.row]] = None)

\* Loop closes the database only when no other Save has a statement left:
\* the server's Shutdown finishes its own Save before it raises m_quit.
NoStatementAfterClose == closed => \A s \in Savers : stmt[s] = None

\* The database is only ever moved to whole-row snapshots, each later than the
\* one before (DurableRows), although an UPDATE writes only the changed columns
\* and handlers set columns between save_data and Exec.
Mem  == [k \in Keys |-> IF RowOf(k) = None THEN None ELSE val[RowOf(k)]]
Snap == [k \in Keys |-> IF stmt["loop"] # None /\ keyOf[stmt["loop"].row] = k
                          THEN Flushed(k) ELSE None]
Durable == INSTANCE DurableRows WITH mem <- Mem, snap <- Snap, disk <- db
DurableRowsSpec == Durable!Spec

\* A value that stays in a column of the table's row reaches the database.
SetReachesDb ==
  \A k \in Keys, c \in Cols, v \in Vals :
    (RowOf(k) # None /\ val[RowOf(k)][c] = v)
      ~> \/ RowOf(k) = None
         \/ val[RowOf(k)][c] # v
         \/ db[k] # None /\ db[k][c] = v

\* DBC.Shutdown, which polls m_shutdown_completed with no limit, returns.
ShutdownCompletes == m_quit ~> (at["shutdown"] = "done" \/ ~m_quit)

\* fetch_new_rows logs an error when a key is in both maps: the two are meant
\* to be disjoint.
MapsAreDisjoint == \A k \in Keys : m_rows[k] = None \/ m_new_rows[k] = None

\* Loop logs that it leaves and saves all data: once the database is closed, a
\* row that is not marked as changed is in it as it is in memory.
AllDataSavedAtExit ==
  closed => \A k \in Keys :
    LET r == m_rows[k] IN
    r # None /\ ~m_new[r] /\ changed[r] = {} => db[k] = val[r]
=============================================================================
