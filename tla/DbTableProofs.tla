--------------------------- MODULE DbTableProofs ---------------------------
(***************************************************************************)
(* Proofs about DbTable, for any number of keys, columns, values, row      *)
(* objects and handlers: type correctness of every execution, and, while   *)
(* the server runs and MySQL accepts its statements, that a column whose   *)
(* flag is down is stored, that every statement fits the database, and     *)
(* that the cache implements DurableRows.                                  *)
(***************************************************************************)
EXTENDS DbTable, TLAPS

USE DbTableAssumption

LEMMA NoneIsNoData ==
  None \notin Rows /\ None \notin Keys /\ None \notin Content /\ None \notin Stmt
BY DEF DbTableAssumption, Content, Stmt

-----------------------------------------------------------------------------
(* The inductive invariant of the server while it runs. *)

\* Only Loop saves, and it has not been told to quit.
OnlyLoopSaves == /\ at["shutdown"] = "idle"
                 /\ pending["shutdown"] = {}
                 /\ stmt["shutdown"] = None
                 /\ ~m_quit

\* A row object is in the maps under its own key, and in one map only.
MapsMatch ==
  \A k \in Keys :
    /\ m_rows[k] # None => keyOf[m_rows[k]] = k
    /\ m_new_rows[k] # None => keyOf[m_new_rows[k]] = k /\ m_new[m_new_rows[k]]
    /\ m_rows[k] # None => m_rows[k] # m_new_rows[k]

\* r is the table's row of its key.
InTable(r) == keyOf[r] # None /\ m_rows[keyOf[r]] = r

\* What Loop still has to save, or is about to write, is in the table.
LoopSavesTable ==
  /\ \A r \in pending["loop"] : InTable(r)
  /\ LET x == stmt["loop"] IN
     x # None => /\ InTable(x.row)
                 /\ ~m_new[x.row]
                 /\ x.insert <=> db[keyOf[x.row]] = None
                 /\ x.insert => x.cols = Cols

\* A key has no row in the database before its first INSERT.
NewIsNotStored ==
  \A k \in Keys : (m_rows[k] = None \/ m_new[m_rows[k]]) => db[k] = None

CleanIsStored ==
  \A k \in Keys :
    LET r == m_rows[k] IN
    r # None /\ ~m_new[r] =>
      /\ Flushed(k) # None
      /\ \A c \in Cols \ changed[r] : Flushed(k)[c] = val[r][c]

IInv == /\ TypeOK
        /\ OnlyLoopSaves
        /\ MapsMatch
        /\ LoopSavesTable
        /\ NewIsNotStored
        /\ CleanIsStored

-----------------------------------------------------------------------------
(* Type correctness. *)

LEMMA ApplyIsContent ==
  ASSUME NEW x \in Stmt, NEW old \in Content
  PROVE  Applied(x, old) \in Content
BY DEF Applied, Stmt, Content

LEMMA FreshIsContent == Fresh \in Content
BY DEF Fresh, Content

LEMMA IdleIsState == Idle \in ClientState
BY DEF ClientState

LEMMA TypeInit == Init => TypeOK
<1> SUFFICES ASSUME Init PROVE TypeOK
  OBVIOUS
<1>1. m_new \in [Rows -> BOOLEAN] /\ quick \in [Savers -> BOOLEAN]
  BY DEF Init
<1>2. at \in [Savers -> {"idle", "rows", "new", "saved", "wait", "done"}]
  BY DEF Init
<1> QED
  BY <1>1, <1>2, FreshIsContent, IdleIsState DEF Init, TypeOK

LEMMA TypeStep == TypeOK /\ [Next]_vars => TypeOK'
<1> SUFFICES ASSUME TypeOK, [Next]_vars PROVE TypeOK'
  OBVIOUS
<1> USE DEF TypeOK, Savers
<1>1. ASSUME NEW p \in Clients, NEW k \in Keys, GetRow(p, k) PROVE TypeOK'
  <2>1. client'[p] \in ClientState
    BY <1>1 DEF GetRow, RowOf, ClientState
  <2> QED
    BY <1>1, <2>1 DEF GetRow, tableVars, rowVars, saverVars, serverVars
<1>2. ASSUME NEW p \in Clients, AddRow(p) PROVE TypeOK'
  <2> DEFINE k == client[p].key
  <2>1. k \in Keys
    BY <1>2 DEF AddRow, ClientState, Idle
  <2>2. CASE client' = [client EXCEPT ![p] = Idle]
             /\ UNCHANGED <<m_new_rows, rowVars>>
    BY <1>2, <2>2 DEF AddRow, ClientState, rowVars, saverVars, serverVars
  <2>3. ASSUME NEW r \in Rows,
               keyOf' = [keyOf EXCEPT ![r] = k],
               val' = [val EXCEPT ![r] = Fresh],
               changed' = [changed EXCEPT ![r] = {}],
               m_new' = [m_new EXCEPT ![r] = TRUE],
               m_new_rows' = [m_new_rows EXCEPT ![k] = r],
               client' = [client EXCEPT ![p] = [at |-> "hold", key |-> k, row |-> r]]
        PROVE  TypeOK'
    <3>1. [at |-> "hold", key |-> k, row |-> r] \in ClientState
      BY <2>1 DEF ClientState
    <3> QED
      BY <1>2, <2>1, <2>3, <3>1, FreshIsContent DEF AddRow, saverVars, serverVars
  <2> QED
    BY <1>2, <2>2, <2>3 DEF AddRow
<1>3. ASSUME NEW p \in Clients, NEW c \in Cols, NEW v \in Vals, SetColumn(p, c, v)
      PROVE  TypeOK'
  <2>1. client[p].row \in Rows
    BY <1>3 DEF SetColumn, ClientState, Idle
  <2>2. [val[client[p].row] EXCEPT ![c] = v] \in Content
    BY <2>1 DEF Content
  <2> QED
    BY <1>3, <2>1, <2>2 DEF SetColumn, tableVars, saverVars, serverVars
<1>4. ASSUME NEW p \in Clients, Leave(p) PROVE TypeOK'
  BY <1>4 DEF Leave, ClientState, tableVars, rowVars, saverVars, serverVars
<1>5. CASE LoopWakes
  BY <1>5 DEF LoopWakes, FetchRows, RowsNow, tableVars, rowVars, serverVars
<1>6. CASE ShutdownSaves
  BY <1>6 DEF ShutdownSaves, FetchRows, RowsNow, tableVars, rowVars, serverVars
<1>7. ASSUME NEW s \in Savers, NEW r \in Rows, SaveData(s, r) PROVE TypeOK'
  <2>1. stmt'[s] \in Stmt \cup {None}
    BY <1>7 DEF SaveData, Prepared, Stmt
  <2> QED
    BY <1>7, <2>1 DEF SaveData, tableVars, serverVars
<1>8. ASSUME NEW s \in Savers, SaveRowsGivesUp(s) PROVE TypeOK'
  BY <1>8 DEF SaveRowsGivesUp, tableVars, rowVars, serverVars
<1>9. ASSUME NEW s \in Savers, Exec(s) PROVE TypeOK'
  <2>1. stmt[s] \in Stmt
    BY <1>9 DEF Exec, ExecOk, ExecFails
  <2>2. \A k \in Keys : db[k] # None => Applied(stmt[s], db[k]) \in Content
    BY <2>1, ApplyIsContent
  <2>3. stmt[s].content \in Content
    BY <2>1 DEF Stmt
  <2> QED
    BY <1>9, <2>2, <2>3
    DEF Exec, ExecOk, ExecFails, tableVars, rowVars, serverVars
<1>10. ASSUME NEW s \in Savers, FetchNewRows(s) PROVE TypeOK'
  <2>1. {m_new_rows[k] : k \in Fetched} \subseteq Rows
    BY DEF Fetched
  <2> QED
    BY <1>10, <2>1 DEF FetchNewRows, rowVars, serverVars
<1>11. CASE LoopSaved
  BY <1>11 DEF LoopSaved, tableVars, rowVars
<1>12. CASE ShutdownSaved \/ ShutdownQuits \/ ShutdownReturns
  BY <1>12
  DEF ShutdownSaved, ShutdownQuits, ShutdownReturns, tableVars, rowVars, serverVars
<1>13. CASE Restart
  <2>1. val' \in [Rows -> Content]
    BY <1>13, FreshIsContent DEF Restart, Preloaded
  <2>2. m_new' \in [Rows -> BOOLEAN] /\ quick' \in [Savers -> BOOLEAN]
    BY <1>13 DEF Restart, Preloaded
  <2>3. db' \in [Keys -> Content \cup {None}]
    BY <1>13 DEF Restart, Preloaded
  <2>4. starts' \in Nat
    <3>1. starts \in Nat /\ starts' = starts + 1
      BY <1>13 DEF Restart, Preloaded
    <3> QED
      BY <3>1
  <2>5. m_quit' \in BOOLEAN /\ closed' \in BOOLEAN
    BY <1>13 DEF Restart, Preloaded
  <2> QED
    BY <1>13, <2>1, <2>2, <2>3, <2>4, <2>5, IdleIsState DEF Restart, Preloaded
<1>14. CASE UNCHANGED vars
  BY <1>14 DEF vars, tableVars, rowVars, saverVars, serverVars
<1> QED
  BY <1>1, <1>2, <1>3, <1>4, <1>5, <1>6, <1>7, <1>8, <1>9, <1>10, <1>11, <1>12,
     <1>13, <1>14
  DEF Next, ClientNext, LoopNext, ShutdownNext, Save

\* Every variable keeps its type, whatever the savers, the handlers and MySQL do.
THEOREM TypeCorrect == Spec => []TypeOK
BY TypeInit, TypeStep, PTL DEF Spec

-----------------------------------------------------------------------------
(* The inductive invariant, action by action. *)

LEMMA InvInit == Init => IInv
<1> SUFFICES ASSUME Init PROVE IInv
  OBVIOUS
<1>1. TypeOK
  BY TypeInit
<1> QED
  BY <1>1
  DEF Init, IInv, OnlyLoopSaves, MapsMatch, LoopSavesTable, InTable,
      NewIsNotStored, CleanIsStored, Savers

LEMMA GetRowInv ==
  ASSUME IInv, TypeOK', NEW p \in Clients, NEW k \in Keys, GetRow(p, k)
  PROVE  IInv'
BY DEF GetRow, tableVars, rowVars, saverVars, serverVars, IInv, OnlyLoopSaves,
       MapsMatch, LoopSavesTable, InTable, NewIsNotStored, CleanIsStored,
       Flushed, Applied

LEMMA LeaveInv ==
  ASSUME IInv, TypeOK', NEW p \in Clients, Leave(p)
  PROVE  IInv'
BY DEF Leave, tableVars, rowVars, saverVars, serverVars, IInv, OnlyLoopSaves,
       MapsMatch, LoopSavesTable, InTable, NewIsNotStored, CleanIsStored,
       Flushed, Applied

LEMMA AddRowInv ==
  ASSUME IInv, TypeOK', NEW p \in Clients, AddRow(p)
  PROVE  IInv'
<1> DEFINE k == client[p].key
<1> USE DEF IInv
<1>1. k \in Keys
  BY DEF AddRow, TypeOK, ClientState, Idle
<1>2. CASE UNCHANGED <<m_new_rows, rowVars>>
  BY <1>2
  DEF AddRow, rowVars, saverVars, serverVars, OnlyLoopSaves,
      MapsMatch, LoopSavesTable, InTable, NewIsNotStored, CleanIsStored,
      Flushed, Applied
<1>3. ASSUME NEW r \in Rows,
             keyOf[r] = None,
             m_new_rows[k] = None,
             keyOf' = [keyOf EXCEPT ![r] = k],
             val' = [val EXCEPT ![r] = Fresh],
             changed' = [changed EXCEPT ![r] = {}],
             m_new' = [m_new EXCEPT ![r] = TRUE],
             m_new_rows' = [m_new_rows EXCEPT ![k] = r]
      PROVE  IInv'
  <2> USE <1>1, <1>3 DEF TypeOK
  <2>1. UNCHANGED <<m_rows, db, at, pending, stmt, m_quit>>
    BY DEF AddRow, saverVars, serverVars
  <2>2. \A j \in Keys : m_rows[j] # r /\ m_new_rows[j] # r
    BY DEF MapsMatch
  <2>3. \A q \in Rows : InTable(q) => q # r /\ InTable(q)'
    BY <2>1 DEF InTable
  <2>4. OnlyLoopSaves'
    BY <2>1 DEF OnlyLoopSaves
  <2>5. MapsMatch'
    BY <2>1, <2>2 DEF MapsMatch
  <2>6. LoopSavesTable'
    BY <2>1, <2>3 DEF LoopSavesTable, Stmt, Savers
  <2>7. NewIsNotStored'
    BY <2>1, <2>2 DEF NewIsNotStored
  <2>8. \A j \in Keys : Flushed(j)' = Flushed(j)
    BY <2>1, <2>3 DEF Flushed, Applied, LoopSavesTable, Stmt, Savers
  <2>9. CleanIsStored'
    BY <2>1, <2>2, <2>8 DEF CleanIsStored
  <2> QED
    BY <2>4, <2>5, <2>6, <2>7, <2>9
<1> QED
  BY <1>2, <1>3 DEF AddRow

LEMMA SetColumnInv ==
  ASSUME IInv, TypeOK', NEW p \in Clients, NEW c \in Cols, NEW v \in Vals,
         SetColumn(p, c, v)
  PROVE  IInv'
<1> USE DEF IInv, TypeOK
<1>1. client[p].row \in Rows
  BY DEF SetColumn, ClientState, Idle
<1>2. UNCHANGED <<m_rows, m_new_rows, keyOf, m_new, db, at, pending, stmt, m_quit>>
  BY DEF SetColumn, tableVars, saverVars, serverVars
<1>3. OnlyLoopSaves' /\ MapsMatch' /\ LoopSavesTable' /\ NewIsNotStored'
  BY <1>2
  DEF OnlyLoopSaves, MapsMatch, LoopSavesTable, InTable, NewIsNotStored
<1>4. \A j \in Keys : Flushed(j)' = Flushed(j)
  BY <1>2 DEF Flushed, Applied
<1>5. \A q \in Rows : /\ changed[q] \subseteq changed'[q]
                      /\ \A d \in Cols \ changed'[q] : val'[q][d] = val[q][d]
  BY <1>1 DEF SetColumn, Content
<1>6. CleanIsStored'
  BY <1>2, <1>4, <1>5 DEF CleanIsStored
<1> QED
  BY <1>3, <1>6

LEMMA LoopWakesInv ==
  ASSUME IInv, TypeOK', LoopWakes
  PROVE  IInv'
<1> USE DEF IInv, TypeOK, Savers
<1>1. UNCHANGED <<m_rows, m_new_rows, keyOf, val, changed, m_new, db, stmt, m_quit>>
  BY DEF LoopWakes, FetchRows, RowsNow, tableVars, rowVars, serverVars
<1>2. /\ at'["shutdown"] = at["shutdown"]
      /\ pending'["shutdown"] = pending["shutdown"]
      /\ pending'["loop"] = {m_rows[k] : k \in Keys} \ {None}
  BY DEF LoopWakes, FetchRows, RowsNow
<1>3. OnlyLoopSaves' /\ MapsMatch' /\ NewIsNotStored' /\ CleanIsStored'
  BY <1>1, <1>2
  DEF OnlyLoopSaves, MapsMatch, NewIsNotStored, CleanIsStored, Flushed, Applied
<1>4. \A r \in pending'["loop"] : InTable(r)
  BY <1>2 DEF MapsMatch, InTable
<1>5. LoopSavesTable'
  BY <1>1, <1>4 DEF LoopSavesTable, InTable
<1> QED
  BY <1>3, <1>5

LEMMA SaveDataInv ==
  ASSUME IInv, TypeOK', NEW r \in Rows, SaveData("loop", r)
  PROVE  IInv'
<1> USE DEF IInv, TypeOK, Savers
<1> DEFINE k == keyOf[r]
<1>1. UNCHANGED <<m_rows, m_new_rows, keyOf, val, db, at, m_quit>>
  BY DEF SaveData, tableVars, serverVars
<1>2. k \in Keys /\ m_rows[k] = r /\ InTable(r)
  BY DEF SaveData, LoopSavesTable, InTable
<1>3. /\ stmt["loop"] = None
      /\ pending'["loop"] = pending["loop"] \ {r}
      /\ pending'["shutdown"] = pending["shutdown"]
      /\ stmt'["shutdown"] = stmt["shutdown"]
      /\ m_new' = [m_new EXCEPT ![r] = FALSE]
      /\ changed' = [changed EXCEPT ![r] = {}]
  BY DEF SaveData, Saving
<1>4. OnlyLoopSaves'
  BY <1>1, <1>3 DEF OnlyLoopSaves
<1>5. \A j \in Keys : m_new_rows[j] # r
  BY <1>2 DEF MapsMatch
<1>6. MapsMatch'
  BY <1>1, <1>3, <1>5 DEF MapsMatch
<1>7. NewIsNotStored' /\ LoopSavesTable' /\ CleanIsStored'
  <2>1. CASE m_new[r]
    <3>1. stmt'["loop"] = [row |-> r, insert |-> TRUE, cols |-> Cols,
                           content |-> val[r]]
      BY <2>1 DEF SaveData, Prepared
    <3>2. db[k] = None
      BY <2>1, <1>2 DEF NewIsNotStored
    <3>3. NewIsNotStored'
      BY <1>1, <1>2, <1>3, <3>2 DEF NewIsNotStored, MapsMatch
    <3>4. LoopSavesTable'
      BY <1>1, <1>2, <1>3, <3>1, <3>2 DEF LoopSavesTable, InTable
    <3>5. \A j \in Keys : Flushed(j)' = IF j = k THEN val[r] ELSE Flushed(j)
      <4>1. stmt'["loop"] \in Stmt
        BY <3>1 DEF Stmt
      <4>2. stmt'["loop"] # None
        BY <4>1, NoneIsNoData
      <4> QED
        BY <1>1, <1>3, <3>1, <4>2 DEF Flushed
    <3>6. val[r] # None
      BY DEF Content
    <3>7. CleanIsStored'
      BY <1>1, <1>2, <1>3, <3>5, <3>6 DEF CleanIsStored, MapsMatch
    <3> QED
      BY <3>3, <3>4, <3>7
  <2>2. CASE ~m_new[r] /\ changed[r] # {}
    <3>1. stmt'["loop"] = [row |-> r, insert |-> FALSE, cols |-> changed[r],
                           content |-> val[r]]
      BY <2>2 DEF SaveData, Prepared
    <3>2. /\ db[k] # None
          /\ \A c \in Cols \ changed[r] : db[k][c] = val[r][c]
      BY <2>2, <1>2, <1>3 DEF CleanIsStored, Flushed
    <3>3. NewIsNotStored'
      BY <1>1, <1>3, <2>2 DEF NewIsNotStored
    <3>4. LoopSavesTable'
      BY <1>1, <1>2, <1>3, <2>2, <3>1, <3>2 DEF LoopSavesTable, InTable
    <3>5. \A j \in Keys : Flushed(j)' =
            IF j = k THEN [c \in Cols |-> IF c \in changed[r] THEN val[r][c]
                                                             ELSE db[k][c]]
                     ELSE Flushed(j)
      <4>1. stmt'["loop"] \in Stmt
        BY <3>1 DEF Stmt
      <4>2. stmt'["loop"] # None
        BY <4>1, NoneIsNoData
      <4> QED
        BY <1>1, <1>3, <3>1, <4>2 DEF Flushed, Applied
    <3>6. /\ Flushed(k)' \in Content
          /\ \A c \in Cols : Flushed(k)'[c] = val[r][c]
      BY <1>1, <1>2, <3>2, <3>5 DEF Content
    <3>7. Flushed(k)' # None
      BY <3>6 DEF Content
    <3>8. CleanIsStored'
      BY <1>1, <1>2, <1>3, <3>5, <3>6, <3>7 DEF CleanIsStored, MapsMatch
    <3> QED
      BY <3>3, <3>4, <3>8
  <2>3. CASE ~m_new[r] /\ changed[r] = {}
    <3>1. stmt'["loop"] = None
      BY <2>3 DEF SaveData, Prepared
    <3>2. m_new' = m_new /\ changed' = changed
      BY <1>3, <2>3
    <3>3. \A j \in Keys : Flushed(j)' = Flushed(j)
      BY <1>1, <1>3, <3>1 DEF Flushed
    <3> QED
      BY <1>1, <1>3, <3>1, <3>2, <3>3
      DEF NewIsNotStored, LoopSavesTable, CleanIsStored, InTable
  <2> QED
    BY <2>1, <2>2, <2>3
<1> QED
  BY <1>4, <1>6, <1>7

LEMMA ExecInv ==
  ASSUME IInv, TypeOK', ExecOk("loop")
  PROVE  IInv'
<1> USE DEF IInv, TypeOK, Savers
<1> DEFINE x == stmt["loop"]
           k == keyOf[x.row]
<1>1. UNCHANGED <<m_rows, m_new_rows, keyOf, val, changed, m_new, at, pending, m_quit>>
  BY DEF ExecOk, tableVars, rowVars, serverVars
<1>2. /\ x \in Stmt
      /\ k \in Keys
      /\ m_rows[k] = x.row
      /\ ~m_new[x.row]
  BY DEF ExecOk, LoopSavesTable, InTable, Stmt
<1>3. /\ stmt'["loop"] = None
      /\ stmt'["shutdown"] = stmt["shutdown"]
  BY DEF ExecOk
<1>4. db' = [db EXCEPT ![k] = Flushed(k)]
  BY <1>2 DEF ExecOk, LoopSavesTable, Flushed
<1>5. \A j \in Keys : Flushed(j)' = Flushed(j)
  BY <1>1, <1>2, <1>3, <1>4 DEF Flushed
<1>6. OnlyLoopSaves' /\ MapsMatch'
  BY <1>1, <1>3 DEF OnlyLoopSaves, MapsMatch
<1>7. NewIsNotStored'
  BY <1>1, <1>2, <1>4 DEF NewIsNotStored, Stmt
<1>8. LoopSavesTable'
  BY <1>1, <1>3 DEF LoopSavesTable, InTable
<1>9. CleanIsStored'
  BY <1>1, <1>5 DEF CleanIsStored
<1> QED
  BY <1>6, <1>7, <1>8, <1>9

LEMMA FetchNewRowsInv ==
  ASSUME IInv, TypeOK', FetchNewRows("loop")
  PROVE  IInv'
<1> USE DEF IInv, TypeOK, Savers
<1>1. /\ UNCHANGED <<keyOf, val, changed, m_new, db, stmt, m_quit>>
      /\ stmt["loop"] = None
      /\ at'["shutdown"] = at["shutdown"]
      /\ pending'["shutdown"] = pending["shutdown"]
  BY DEF FetchNewRows, Saving, rowVars, serverVars
<1>2. \A k \in Keys :
        /\ m_rows'[k] = IF k \in Fetched THEN m_new_rows[k] ELSE m_rows[k]
        /\ m_new_rows'[k] = IF k \in Fetched THEN None ELSE m_new_rows[k]
  BY DEF FetchNewRows
<1>3. pending'["loop"] = {m_new_rows[k] : k \in Fetched}
  BY DEF FetchNewRows
<1>4. OnlyLoopSaves'
  BY <1>1 DEF OnlyLoopSaves
<1>5. MapsMatch'
  BY <1>1, <1>2 DEF MapsMatch, Fetched
<1>6. \A r \in pending'["loop"] : InTable(r)'
  BY <1>1, <1>2, <1>3 DEF MapsMatch, Fetched, InTable
<1>7. LoopSavesTable'
  BY <1>1, <1>6 DEF LoopSavesTable
<1>8. NewIsNotStored'
  BY <1>1, <1>2 DEF NewIsNotStored, MapsMatch, Fetched
<1>9. CleanIsStored'
  BY <1>1, <1>2 DEF CleanIsStored, Flushed, MapsMatch, Fetched
<1> QED
  BY <1>4, <1>5, <1>7, <1>8, <1>9

LEMMA RestartInv ==
  ASSUME IInv, TypeOK', Restart
  PROVE  IInv'
<1> USE DEF IInv, TypeOK, Savers
<1>1. OnlyLoopSaves' /\ MapsMatch' /\ LoopSavesTable' /\ NewIsNotStored'
  BY DEF Restart, Preloaded, OnlyLoopSaves, MapsMatch, LoopSavesTable, InTable, NewIsNotStored
<1>2. \A k \in Keys : Flushed(k)' = db[k]
  BY DEF Restart, Preloaded, Flushed
<1>3. CleanIsStored'
  BY <1>2 DEF Restart, Preloaded, CleanIsStored
<1> QED
  BY <1>1, <1>3

LEMMA InvStep ==
  ASSUME ExecMayFail = FALSE
  PROVE  IInv /\ [Next /\ Up']_vars => IInv'
<1> SUFFICES ASSUME IInv, [Next /\ Up']_vars PROVE IInv'
  OBVIOUS
<1>0. TypeOK'
  BY TypeStep DEF IInv
<1>1. CASE ClientNext
  BY <1>0, <1>1, GetRowInv, AddRowInv, SetColumnInv, LeaveInv DEF ClientNext
<1>2. CASE LoopWakes
  BY <1>0, <1>2, LoopWakesInv
<1>3. CASE Save("loop")
  <2>1. ~SaveRowsGivesUp("loop")
    BY DEF SaveRowsGivesUp, Hurried, IInv, OnlyLoopSaves
  <2>2. Exec("loop") => ExecOk("loop")
    BY DEF Exec, ExecFails
  <2> QED
    BY <1>0, <1>3, <2>1, <2>2, SaveDataInv, ExecInv, FetchNewRowsInv DEF Save
<1>4. CASE LoopSaved
  BY <1>0, <1>4
  DEF LoopSaved, tableVars, rowVars, IInv, TypeOK, Savers, OnlyLoopSaves,
      MapsMatch, LoopSavesTable, InTable, NewIsNotStored, CleanIsStored, Flushed,
      Applied
<1>5. CASE ShutdownNext
  <2>1. at["shutdown"] = "idle" /\ stmt["shutdown"] = None
    BY DEF IInv, OnlyLoopSaves
  <2>2. ~Save("shutdown")
    BY <2>1
    DEF Save, SaveData, SaveRowsGivesUp, Exec, ExecOk, ExecFails, FetchNewRows, Saving
  <2>3. ~ShutdownSaved /\ ~ShutdownQuits /\ ~ShutdownReturns
    BY <2>1 DEF ShutdownSaved, SaveReturns, Saving, ShutdownQuits, ShutdownReturns
  <2>4. CASE ShutdownSaves
    <3>1. at'["shutdown"] = "rows"
      BY <2>4 DEF ShutdownSaves, FetchRows, RowsNow, IInv, TypeOK, Savers
    <3>2. Up'
      BY <1>0, <2>1, <3>1 DEF IInv, vars, saverVars
    <3> QED
      BY <3>1, <3>2 DEF Up
  <2> QED
    BY <1>5, <2>2, <2>3, <2>4 DEF ShutdownNext
<1>6. CASE Restart
  BY <1>0, <1>6, RestartInv
<1>7. CASE UNCHANGED vars
  BY <1>7
  DEF vars, tableVars, rowVars, saverVars, serverVars, IInv, TypeOK, OnlyLoopSaves,
      MapsMatch, LoopSavesTable, InTable, NewIsNotStored, CleanIsStored, Flushed,
      Applied
<1> QED
  BY <1>1, <1>2, <1>3, <1>4, <1>5, <1>6, <1>7 DEF Next, LoopNext

\* While the server runs and its statements succeed, a column whose flag is down
\* is in the database or in the statement being executed.
THEOREM CleanColumns ==
  ASSUME ExecMayFail = FALSE
  PROVE  RunSpec => []CleanColumnIsStored
<1>1. IInv => CleanColumnIsStored
  BY DEF IInv, CleanIsStored, CleanColumnIsStored
<1> QED
  BY <1>1, InvInit, InvStep, PTL DEF RunSpec

\* While the server runs and its statements succeed, an INSERT always finds its
\* key free and an UPDATE always finds its row.
THEOREM StatementsFit ==
  ASSUME ExecMayFail = FALSE
  PROVE  RunSpec => []StatementFits
<1>1. IInv => StatementFits
  BY DEF IInv, LoopSavesTable, StatementFits
<1> QED
  BY <1>1, InvInit, InvStep, PTL DEF RunSpec

-----------------------------------------------------------------------------
(* The cache implements DurableRows. *)

LEMMA RefineInit == Init => Durable!Init
BY DEF Init, Durable!Init, Mem, Snap, RowOf, Savers

\* What leaves the rows, the maps, the statement and the database alone.
LEMMA RefineStutter ==
  ASSUME UNCHANGED <<m_rows, m_new_rows, keyOf, val, db, stmt>>
  PROVE  UNCHANGED <<Mem, Snap, db>>
BY DEF Mem, Snap, RowOf, Flushed, Applied

LEMMA RefineAddRow ==
  ASSUME IInv, IInv', NEW p \in Clients, AddRow(p)
  PROVE  Durable!Next \/ UNCHANGED <<Mem, Snap, db>>
<1> DEFINE k == client[p].key
<1> USE DEF IInv, TypeOK, Savers
<1>1. k \in Keys
  BY DEF AddRow, ClientState, Idle
<1>2. UNCHANGED <<m_rows, db, stmt>>
  BY DEF AddRow, saverVars, serverVars
<1>3. CASE UNCHANGED <<m_new_rows, rowVars>>
  BY <1>2, <1>3, RefineStutter DEF rowVars
<1>4. ASSUME NEW r \in Rows,
             keyOf[r] = None,
             m_new_rows[k] = None,
             keyOf' = [keyOf EXCEPT ![r] = k],
             val' = [val EXCEPT ![r] = Fresh],
             m_new_rows' = [m_new_rows EXCEPT ![k] = r]
      PROVE  Durable!Next \/ UNCHANGED <<Mem, Snap, db>>
  <2>1. \A j \in Keys : m_rows[j] # r /\ m_new_rows[j] # r
    BY <1>4, NoneIsNoData DEF MapsMatch
  <2>2. Snap' = Snap
    <3>1. stmt["loop"] # None => stmt["loop"].row # r /\ stmt["loop"].row \in Rows
      BY <1>4 DEF LoopSavesTable, InTable, Stmt
    <3> QED
      BY <1>2, <1>4, <3>1 DEF Snap, Flushed, Applied
  <2>3. CASE m_rows[k] # None
    <3>1. \A j \in Keys : Mem'[j] = Mem[j]
      BY <1>2, <1>4, <2>1, <2>3 DEF Mem, RowOf
    <3> QED
      BY <1>2, <2>2, <3>1 DEF Mem
  <2>4. CASE m_rows[k] = None
    <3>1. Mem[k] = None
      BY <1>1, <1>4, <2>4 DEF Mem, RowOf
    <3>2. \A j \in Keys : Mem'[j] = IF j = k THEN Fresh ELSE Mem[j]
      BY <1>1, <1>2, <1>4, <2>1, <2>4, NoneIsNoData DEF Mem, RowOf
    <3>3. Mem' = [Mem EXCEPT ![k] = [c \in Cols |-> ZeroVal]]
      BY <3>2 DEF Mem, Fresh
    <3> QED
      BY <1>1, <1>2, <2>2, <3>1, <3>3 DEF Durable!Next, Durable!Create
  <2> QED
    BY <2>3, <2>4
<1> QED
  BY <1>3, <1>4 DEF AddRow

LEMMA RefineSetColumn ==
  ASSUME IInv, IInv', NEW p \in Clients, NEW c \in Cols, NEW v \in Vals,
         SetColumn(p, c, v)
  PROVE  Durable!Next \/ UNCHANGED <<Mem, Snap, db>>
<1> DEFINE r == client[p].row
           k == keyOf[r]
<1> USE DEF IInv, TypeOK, Savers
<1>1. r \in Rows
  BY DEF SetColumn, ClientState, Idle
<1>2. /\ UNCHANGED <<m_rows, m_new_rows, keyOf, db, stmt>>
      /\ val' = [val EXCEPT ![r] = [val[r] EXCEPT ![c] = v]]
  BY DEF SetColumn, tableVars, saverVars, serverVars
<1>3. Snap' = Snap
  BY <1>2 DEF Snap, Flushed, Applied
<1>4. \A j \in Keys : RowOf(j)' = RowOf(j) /\ (RowOf(j) = r => j = k)
  BY <1>1, <1>2, NoneIsNoData DEF RowOf, MapsMatch
<1>5. CASE k \in Keys /\ RowOf(k) = r
  <2>1. Mem[k] = val[r] /\ Mem[k] # None
    BY <1>1, <1>5, NoneIsNoData DEF Mem
  <2>2. \A j \in Keys : Mem'[j] = IF j = k THEN [val[r] EXCEPT ![c] = v] ELSE Mem[j]
    BY <1>1, <1>2, <1>4, <1>5, NoneIsNoData DEF Mem, RowOf, MapsMatch
  <2>3. Mem' = [Mem EXCEPT ![k] = [Mem[k] EXCEPT ![c] = v]]
    BY <2>1, <2>2 DEF Mem
  <2> QED
    BY <1>2, <1>3, <1>5, <2>1, <2>3 DEF Durable!Next, Durable!Write
<1>6. CASE ~(k \in Keys /\ RowOf(k) = r)
  <2>1. \A j \in Keys : Mem'[j] = Mem[j]
    BY <1>1, <1>2, <1>4, <1>6 DEF Mem, RowOf, MapsMatch
  <2> QED
    BY <1>2, <1>3, <2>1 DEF Mem
<1> QED
  BY <1>5, <1>6

LEMMA RefineSaveData ==
  ASSUME IInv, IInv', NEW r \in Rows, SaveData("loop", r)
  PROVE  Durable!Next \/ UNCHANGED <<Mem, Snap, db>>
<1> DEFINE k == keyOf[r]
<1> USE DEF IInv, TypeOK, Savers
<1>1. UNCHANGED <<m_rows, m_new_rows, keyOf, val, db>>
  BY DEF SaveData, tableVars, serverVars
<1>2. k \in Keys /\ m_rows[k] = r /\ stmt["loop"] = None
  BY DEF SaveData, Saving, LoopSavesTable, InTable
<1>3. CASE stmt'["loop"] = None
  <2>1. Snap' = Snap
    BY <1>2, <1>3 DEF Snap
  <2> QED
    BY <1>1, <2>1 DEF Mem, RowOf
<1>4. CASE stmt'["loop"] # None
  <2>1. /\ stmt'["loop"].row = r
        /\ m_new' = [m_new EXCEPT ![r] = FALSE]
        /\ changed' = [changed EXCEPT ![r] = {}]
    BY <1>4 DEF SaveData, Prepared
  <2>2. Flushed(k)' \in Content
    <3>1. stmt'["loop"] \in Stmt
      BY <1>4
    <3>2. CASE stmt'["loop"].insert
      BY <1>1, <1>2, <1>4, <2>1, <3>1, <3>2 DEF Flushed, Stmt
    <3>3. CASE ~stmt'["loop"].insert
      <4>1. db'[k] \in Content
        BY <1>1, <1>2, <1>4, <2>1, <3>3 DEF LoopSavesTable
      <4> QED
        BY <1>1, <1>2, <1>4, <2>1, <3>1, <3>3, <4>1, ApplyIsContent DEF Flushed
    <3> QED
      BY <3>2, <3>3
  <2>3. \A c \in Cols : Flushed(k)'[c] = val[r][c]
    BY <1>1, <1>2, <2>1, NoneIsNoData DEF CleanIsStored
  <2>4. Flushed(k)' = val[r]
    BY <2>2, <2>3 DEF Content
  <2>5. Mem[k] = val[r] /\ Mem[k] # None
    BY <1>2, NoneIsNoData DEF Mem, RowOf
  <2>6. \A j \in Keys : Snap'[j] = IF j = k THEN Mem[k] ELSE None
    BY <1>1, <1>4, <2>1, <2>4, <2>5 DEF Snap
  <2>7. Snap = [j \in Keys |-> None]
    BY <1>2 DEF Snap
  <2>8. Snap' = [Snap EXCEPT ![k] = Mem[k]]
    BY <2>6, <2>7 DEF Snap
  <2>9. Mem' = Mem
    BY <1>1 DEF Mem, RowOf
  <2> QED
    BY <1>1, <1>2, <2>5, <2>7, <2>8, <2>9 DEF Durable!Next, Durable!Flush
<1> QED
  BY <1>3, <1>4

LEMMA RefineExec ==
  ASSUME IInv, IInv', ExecOk("loop")
  PROVE  Durable!Next \/ UNCHANGED <<Mem, Snap, db>>
<1> USE DEF IInv, TypeOK, Savers
<1> DEFINE x == stmt["loop"]
           k == keyOf[x.row]
<1>1. UNCHANGED <<m_rows, m_new_rows, keyOf, val>> /\ stmt'["loop"] = None
  BY DEF ExecOk, tableVars, rowVars, serverVars
<1>2. x \in Stmt /\ x # None /\ k \in Keys /\ m_rows[k] = x.row /\ ~m_new[x.row]
  BY DEF ExecOk, LoopSavesTable, InTable, Stmt
<1>3. db' = [db EXCEPT ![k] = Flushed(k)]
  BY <1>2 DEF ExecOk, LoopSavesTable, Flushed
<1>4. Snap[k] = Flushed(k) /\ Snap[k] # None
  BY <1>2, NoneIsNoData DEF Snap, CleanIsStored, Stmt
<1>5. Snap' = [Snap EXCEPT ![k] = None]
  BY <1>1 DEF Snap
<1>6. Mem' = Mem
  BY <1>1 DEF Mem, RowOf
<1> QED
  BY <1>2, <1>3, <1>4, <1>5, <1>6 DEF Durable!Next, Durable!Commit

LEMMA RefineFetchNewRows ==
  ASSUME IInv, IInv', FetchNewRows("loop")
  PROVE  UNCHANGED <<Mem, Snap, db>>
<1> USE DEF IInv, TypeOK, Savers
<1>1. UNCHANGED <<keyOf, val, db, stmt>>
  BY DEF FetchNewRows, rowVars, serverVars
<1>2. \A k \in Keys : RowOf(k)' = RowOf(k)
  BY DEF FetchNewRows, Fetched, RowOf
<1> QED
  BY <1>1, <1>2 DEF Mem, Snap, Flushed, Applied

LEMMA RefineRestart ==
  ASSUME IInv, IInv', Restart
  PROVE  Durable!Next
<1> USE DEF IInv, TypeOK, Savers
<1>1. \A k \in Keys : RowOf(k)' = m_rows'[k]
  BY DEF Restart, Preloaded, RowOf
<1>2. ASSUME NEW k \in Keys PROVE Mem'[k] = db[k]
  <2>1. CASE m_rows'[k] = None
    BY <1>1, <2>1 DEF Mem, Restart
  <2>2. CASE m_rows'[k] # None
    <3>1. m_rows'[k] \in Rows /\ keyOf'[m_rows'[k]] = k
      BY <2>2 DEF Restart, Preloaded
    <3>2. val'[m_rows'[k]] = db[k]
      BY <3>1, NoneIsNoData DEF Restart, Preloaded
    <3> QED
      BY <1>1, <2>2, <3>2 DEF Mem
  <2> QED
    BY <2>1, <2>2
<1>3. Mem' = db
  BY <1>2 DEF Mem
<1>4. Snap' = [k \in Keys |-> None] /\ UNCHANGED db
  BY DEF Restart, Preloaded, Snap
<1> QED
  BY <1>3, <1>4 DEF Durable!Next, Durable!Crash

LEMMA RefineStep ==
  ASSUME ExecMayFail = FALSE
  PROVE  IInv /\ IInv' /\ [Next /\ Up']_vars => [Durable!Next]_(Durable!vars)
<1> SUFFICES ASSUME IInv, IInv', [Next /\ Up']_vars
             PROVE  Durable!Next \/ UNCHANGED <<Mem, Snap, db>>
  BY DEF Durable!vars
<1>1. ASSUME NEW p \in Clients, NEW k \in Keys, GetRow(p, k)
      PROVE  UNCHANGED <<Mem, Snap, db>>
  BY <1>1, RefineStutter DEF GetRow, tableVars, rowVars, saverVars
<1>2. ASSUME NEW p \in Clients, Leave(p) PROVE UNCHANGED <<Mem, Snap, db>>
  BY <1>2, RefineStutter DEF Leave, tableVars, rowVars, saverVars
<1>3. CASE LoopWakes
  BY <1>3, RefineStutter DEF LoopWakes, FetchRows, RowsNow, tableVars, rowVars
<1>4. CASE LoopSaved
  BY <1>4, RefineStutter DEF LoopSaved, tableVars, rowVars
<1>5. CASE Save("loop")
  <2>1. ~SaveRowsGivesUp("loop")
    BY DEF SaveRowsGivesUp, Hurried, IInv, OnlyLoopSaves
  <2>2. Exec("loop") => ExecOk("loop")
    BY DEF Exec, ExecFails
  <2> QED
    BY <1>5, <2>1, <2>2, RefineSaveData, RefineExec, RefineFetchNewRows DEF Save
<1>6. ~ShutdownNext
  <2>1. /\ at["shutdown"] = "idle" /\ stmt["shutdown"] = None
        /\ at'["shutdown"] = "idle"
    BY DEF IInv, OnlyLoopSaves
  <2> QED
    BY <2>1
    DEF ShutdownNext, ShutdownSaves, FetchRows, Save, SaveData, SaveRowsGivesUp, Exec,
        ExecOk, ExecFails, FetchNewRows, Saving, ShutdownSaved, SaveReturns,
        ShutdownQuits, ShutdownReturns, IInv, TypeOK, Savers
<1>7. CASE Restart
  BY <1>7, RefineRestart
<1>8. CASE UNCHANGED vars
  BY <1>8, RefineStutter DEF vars, tableVars, rowVars, saverVars
<1> QED
  BY <1>1, <1>2, <1>3, <1>4, <1>5, <1>6, <1>7, <1>8, RefineAddRow, RefineSetColumn
  DEF Next, ClientNext, LoopNext

\* While the server runs and its statements succeed, the row cache and MySQL
\* together behave as DurableRows: the database moves from one whole-row
\* snapshot to a later one, and a crash loses no more than what was not saved.
THEOREM CacheIsDurable ==
  ASSUME ExecMayFail = FALSE
  PROVE  RunSpec => DurableRowsSpec
BY InvInit, InvStep, RefineInit, RefineStep, PTL
DEF RunSpec, DurableRowsSpec, Durable!Spec

-----------------------------------------------------------------------------
(* The order in which the two savers end, over every behaviour of Spec:    *)
(* statements may fail, the server may shut down at any moment, and the    *)
(* process may be started again.                                           *)

\* A saver has a statement only between its first and its last step of Save.
StatementInSave == \A s \in Savers : stmt[s] # None => at[s] \in {"rows", "new"}

\* m_quit is raised after the Save of Shutdown, and a Save of Loop is quick
\* only when it has seen m_quit; only after such a Save does Loop close.
CloseOrder ==
  /\ m_quit => at["shutdown"] \in {"wait", "done"}
  /\ quick["loop"] => m_quit
  /\ closed => m_quit /\ at["loop"] = "done"

CloseInv == TypeOK /\ StatementInSave /\ CloseOrder

LEMMA CloseInit == Init => CloseInv
BY TypeInit DEF Init, CloseInv, StatementInSave, CloseOrder, Savers

\* The steps of Save, of either saver.
LEMMA SaveClose ==
  ASSUME CloseInv, TypeOK', NEW s \in Savers, Save(s)
  PROVE  CloseInv'
<1> USE DEF CloseInv, TypeOK, Savers, StatementInSave, CloseOrder
<1>1. ASSUME NEW r \in Rows, SaveData(s, r) PROVE CloseInv'
  BY <1>1 DEF SaveData, Saving, serverVars
<1>2. CASE SaveRowsGivesUp(s)
  BY <1>2 DEF SaveRowsGivesUp, serverVars
<1>3. CASE Exec(s)
  BY <1>3 DEF Exec, ExecOk, ExecFails, serverVars
<1>4. CASE FetchNewRows(s)
  BY <1>4 DEF FetchNewRows, Saving, serverVars
<1> QED
  BY <1>1, <1>2, <1>3, <1>4 DEF Save

LEMMA CloseStep == CloseInv /\ [Next]_vars => CloseInv'
<1> SUFFICES ASSUME CloseInv, [Next]_vars PROVE CloseInv'
  OBVIOUS
<1>0. TypeOK'
  BY TypeStep DEF CloseInv
<1> USE <1>0 DEF CloseInv, Savers, StatementInSave, CloseOrder
<1>1. CASE ClientNext
  <2>1. UNCHANGED <<saverVars, serverVars>>
    BY <1>1 DEF ClientNext, GetRow, AddRow, SetColumn, Leave
  <2> QED
    BY <2>1 DEF saverVars, serverVars
<1>2. CASE LoopWakes
  BY <1>2 DEF LoopWakes, FetchRows, serverVars, TypeOK
<1>3. CASE LoopSaved
  BY <1>3 DEF LoopSaved, SaveReturns, Saving, TypeOK
<1>4. CASE ShutdownSaves
  BY <1>4 DEF ShutdownSaves, FetchRows, serverVars, TypeOK
<1>5. CASE ShutdownSaved
  BY <1>5 DEF ShutdownSaved, SaveReturns, Saving, serverVars, TypeOK
<1>6. CASE ShutdownQuits
  BY <1>6 DEF ShutdownQuits, TypeOK
<1>7. CASE ShutdownReturns
  BY <1>7 DEF ShutdownReturns, serverVars, TypeOK
<1>8. CASE Restart
  BY <1>8 DEF Restart
<1>9. CASE UNCHANGED vars
  BY <1>9 DEF vars, saverVars, serverVars
<1> QED
  BY <1>1, <1>2, <1>3, <1>4, <1>5, <1>6, <1>7, <1>8, <1>9, SaveClose
  DEF Next, LoopNext, ShutdownNext

\* DBC.Loop closes the database only when neither its own Save nor the one of
\* the server's Shutdown has a statement left to execute: no save ever runs
\* into a closed database.
THEOREM ClosedAfterSaves == Spec => []NoStatementAfterClose
<1>1. CloseInv => NoStatementAfterClose
  BY DEF CloseInv, StatementInSave, CloseOrder, NoStatementAfterClose, Savers
<1> QED
  BY <1>1, CloseInit, CloseStep, PTL DEF Spec
=============================================================================
