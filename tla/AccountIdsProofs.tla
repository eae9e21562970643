-------------------------- MODULE AccountIdsProofs --------------------------
(***************************************************************************)
(* Proofs about AccountIds, for any accounts, any size of a table and any  *)
(* number of ids: type correctness; that every id is in the table PreLoad  *)
(* looks for it in, whenever the process dies; and that ids are distinct   *)
(* and kept when the process only ever stops in its Shutdown.              *)
(***************************************************************************)
EXTENDS AccountIds, Integers, TLAPS, WellFoundedInduction

USE AccountIdsAssumption DEF AccountIdsAssumption

-----------------------------------------------------------------------------
(* Numbers. *)

\* Division, as the tables use it: x lies in the table with the number x \div TableSize.
LEMMA Division ==
  ASSUME NEW x \in Nat
  PROVE  LET q == x \div TableSize IN
         /\ q \in Nat
         /\ TableSize * q <= x
         /\ x < TableSize * (q + 1)
OBVIOUS

\* A quotient is determined by its bounds.
LEMMA Quotient ==
  ASSUME NEW q \in Nat
  PROVE  (TableSize * q) \div TableSize = q
OBVIOUS

\* A set of numbers with an upper bound has a greatest one.
LEMMA Greatest ==
  ASSUME NEW n \in Nat, NEW S, S \subseteq Nat, S # {}, \A x \in S : x <= n
  PROVE  \E x \in S : \A y \in S : y <= x
<1> DEFINE T == {m \in Nat : n - m \in S}
<1>1. PICK m \in T : \A k \in T : ~ (<<k, m>> \in OpToRel(<, Nat))
  <2>1. T \subseteq Nat /\ T # {}
    <3>1. PICK x \in S : TRUE
      OBVIOUS
    <3>2. x \in Nat /\ n - x \in Nat /\ n - (n - x) = x
      BY <3>1
    <3>3. n - x \in T
      BY <3>1, <3>2
    <3> QED BY <3>3
  <2> QED BY <2>1, NatLessThanWellFounded, WFMin
<1>2. \A k \in T : k >= m
  <2>1. \A k \in T : k \in Nat /\ m \in Nat /\ (k < m => <<k, m>> \in OpToRel(<, Nat))
    BY DEF OpToRel
  <2>2. \A k \in T : ~ (k < m)
    BY ONLY <1>1, <2>1, Zenon
  <2>3. T \subseteq Nat
    OBVIOUS
  <2> QED BY <2>2, <2>3
<1>3. n - m \in S /\ \A y \in S : y <= n - m
  <2>1. ASSUME NEW y \in S PROVE y <= n - m
    <3>1. y \in Nat /\ y <= n /\ n - y \in Nat /\ n - (n - y) = y
      OBVIOUS
    <3>2. n - y \in T
      BY <3>1
    <3> QED BY <3>1, <3>2, <1>2
  <2> QED BY <2>1
<1> QED BY <1>3

-----------------------------------------------------------------------------
(* Type correctness, and every id in its table: one inductive invariant. *)

\* The parts of TypeOK.
NumbersOK ==
  /\ acc2pid \in [Accounts -> Nat]
  /\ playerIdMax \in Nat /\ maxStored \in Nat
  /\ cur_idx_max \in Nat /\ cur_table \in Nat /\ next_table \in {0, cur_table + 1}
RowOK ==
  row \in [Accounts -> [table : Nat, place : {"none", "m_new_rows", "m_rows"},
                       pid : Nat, new : BOOLEAN, changed : BOOLEAN]]
AllocOK == alloc \in [at : {"none", "added", "counted"}, acc : Accounts \cup {None}, pid : Nat]
SaveOK ==
  /\ pass \subseteq Nat
  /\ save \in [at : {"idle", "pop", "next", "rows", "new", "lastRows", "lastNew"},
               tables : SUBSET Nat, table : Nat, rows : SUBSET Accounts]
QuitOK == quit \in BOOLEAN
StoredOK ==
  /\ loaded \subseteq Nat \X Accounts
  /\ stored \subseteq [table : Nat, acc : Accounts, pid : Nat]

Types == NumbersOK /\ RowOK /\ AllocOK /\ SaveOK /\ QuitOK /\ StoredOK

LEMMA TypesAre == Types <=> TypeOK
BY DEF Types, TypeOK, NumbersOK, RowOK, AllocOK, SaveOK, QuitOK, StoredOK

\* The tables are numbered from 1; the highest id is the last of the table before the one in
\* use, or in the one in use.
TablesInv ==
  /\ cur_table > 0
  /\ cur_idx_max = TableSize * cur_table
  /\ TableSize * (cur_table - 1) <= playerIdMax
  /\ playerIdMax <= cur_idx_max

\* A TryGetAccountPid in progress has added its row to the table in use, which has room for it.
AllocInv ==
  alloc.at # "none" =>
    /\ alloc.acc \in Accounts
    /\ row[alloc.acc].table = cur_table
    /\ row[alloc.acc].pid = 0
    /\ alloc.pid = IF alloc.at = "added" THEN playerIdMax + 1 ELSE playerIdMax
    /\ InItsTable(cur_table, alloc.pid)

RowsFit == \A a \in Accounts : row[a].pid # 0 => InItsTable(row[a].table, row[a].pid)
StoredFits == \A s \in stored : s.pid # 0 => InItsTable(s.table, s.pid)

IInv == Types /\ TablesInv /\ AllocInv /\ RowsFit /\ StoredFits

LEMMA Initially == Init => IInv
<1> SUFFICES ASSUME Init PROVE IInv
  OBVIOUS
<1>1. Types
  <2>1. NumbersOK /\ StoredOK
    BY DEF Init, NumbersOK, StoredOK
  <2>2. RowOK
    BY DEF Init, RowOK, NoRow
  <2>3. AllocOK /\ SaveOK
    BY DEF Init, AllocOK, SaveOK, NoAlloc, NoSave
  <2>4. QuitOK
    BY DEF Init, QuitOK
  <2> QED BY <2>1, <2>2, <2>3, <2>4 DEF Types
<1>2. TablesInv
  BY DEF Init, TablesInv
<1>3. AllocInv /\ RowsFit /\ StoredFits
  BY DEF Init, AllocInv, RowsFit, StoredFits, NoRow, NoAlloc
<1> QED BY <1>1, <1>2, <1>3 DEF IInv

\* What PreLoad reads for an account is 0 or an id that one of its rows has.
LEMMA PidRead ==
  ASSUME StoredOK, NEW n \in Nat, NEW a \in Accounts
  PROVE  /\ PidIn(Read(n), a) \in Nat
         /\ PidIn(Read(n), a) # 0 =>
              \E s \in stored : s.acc = a /\ s.table <= n /\ s.pid = PidIn(Read(n), a)
<1> DEFINE mine == {s \in Read(n) : s.acc = a}
<1>1. CASE mine = {}
  BY <1>1 DEF PidIn
<1>2. CASE mine # {}
  <2>1. \A s \in mine : /\ s \in stored /\ s.acc = a
                       /\ s.table \in Nat /\ s.pid \in Nat /\ s.table <= n
    BY DEF StoredOK, Read
  <2> DEFINE T == {s.table : s \in mine}
  <2>2. T \subseteq Nat /\ T # {} /\ \A x \in T : x <= n
    BY <1>2, <2>1
  <2>3. PICK x \in T : \A y \in T : y <= x
    BY <2>2, Greatest
  <2>4. \E s \in mine : \A y \in mine : y.table <= s.table
    BY <2>3
  <2> DEFINE best == CHOOSE s \in mine : \A y \in mine : y.table <= s.table
  <2>5. best \in mine
    BY <2>4
  <2>6. PidIn(Read(n), a) = best.pid
    BY <1>2 DEF PidIn
  <2> QED BY <2>1, <2>5, <2>6
<1> QED BY <1>1, <1>2

\* The number of tables that PreLoad works out is that of the table of the highest id.
LEMMA Count ==
  ASSUME NEW m \in Nat
  PROVE  LET n == TableCount(m) IN
         n \in Nat /\ n > 0 /\ TableSize * (n - 1) <= m /\ m <= TableSize * n
<1>1. CASE m = 0
  <2>1. TableCount(m) = 0 \div TableSize + 1
    BY <1>1 DEF TableCount
  <2>2. 0 \div TableSize = 0
    BY Quotient
  <2> QED BY <1>1, <2>1, <2>2
<1>2. CASE m # 0
  <2> DEFINE q == (m - 1) \div TableSize
  <2>1. TableCount(m) = q + 1
    BY <1>2 DEF TableCount
  <2>2. q \in Nat /\ TableSize * q <= m - 1 /\ m - 1 < TableSize * (q + 1)
    BY <1>2, Division
  <2> HIDE DEF q
  <2>3. TableSize * (q + 1) \in Nat /\ TableSize * q \in Nat
    BY <2>2
  <2> QED BY <2>1, <2>2, <2>3
<1> QED BY <1>1, <1>2

\* What becomes of the table in use when a new row needs room.
LEMMA Room ==
  ASSUME IInv, NEW pid, pid = playerIdMax + 1,
         IF Full(pid) THEN ChangeTable(pid) ELSE UNCHANGED <<tableVars, loaded>>
  PROVE  /\ cur_idx_max' \in Nat /\ cur_table' \in Nat /\ next_table' \in {0, cur_table' + 1}
         /\ pass' \subseteq Nat /\ loaded' \subseteq Nat \X Accounts
         /\ cur_table' > 0 /\ cur_idx_max' = TableSize * cur_table'
         /\ TableSize * (cur_table' - 1) <= playerIdMax /\ pid <= cur_idx_max'
<1> USE DEF IInv, Types, NumbersOK, StoredOK, TablesInv
<1>0. pass \subseteq Nat
  BY DEF SaveOK
<1>1. CASE ~ Full(pid)
  <2>1. UNCHANGED <<cur_idx_max, cur_table, next_table, pass, loaded>>
    BY <1>1 DEF tableVars
  <2> QED BY <1>0, <1>1, <2>1 DEF Full
<1>2. CASE Full(pid)
  <2>1. /\ cur_table \in Nat /\ playerIdMax \in Nat
        /\ TableSize * cur_table = playerIdMax /\ cur_idx_max = playerIdMax
    BY <1>2 DEF Full
  <2>2. /\ cur_table' = cur_table + 1 /\ cur_idx_max' = cur_idx_max + TableSize
        /\ pass' = pass \cup {cur_table}
        /\ next_table' \in {0, NextTableFor(pid)}
    BY <1>2 DEF ChangeTable, Passed
  <2>3. NextTableFor(pid) = cur_table + 2
    BY <2>1, Quotient DEF NextTableFor
  <2>4. TableSize * (cur_table + 1) = TableSize * cur_table + TableSize
    BY <2>1
  <2>5. loaded' \subseteq Nat \X Accounts
    <3>1. {<<s.table, s.acc>> : s \in {x \in stored : x.table = next_table'}}
            \subseteq Nat \X Accounts
      OBVIOUS
    <3> QED BY <1>2, <3>1 DEF ChangeTable
  <2> QED BY <1>0, <2>1, <2>2, <2>3, <2>4, <2>5
<1> QED BY <1>1, <1>2

LEMMA AddRowKeeps == ASSUME IInv, NEW a \in Accounts, AddRow(a) PROVE IInv'
<1> DEFINE pid == playerIdMax + 1
<1>1. /\ cur_idx_max' \in Nat /\ cur_table' \in Nat /\ next_table' \in {0, cur_table' + 1}
      /\ pass' \subseteq Nat /\ loaded' \subseteq Nat \X Accounts
      /\ cur_table' > 0 /\ cur_idx_max' = TableSize * cur_table'
      /\ TableSize * (cur_table' - 1) <= playerIdMax /\ pid <= cur_idx_max'
  BY Room DEF AddRow
<1>2. /\ alloc' = [at |-> "added", acc |-> a, pid |-> pid]
      /\ row' = [row EXCEPT ![a] = [table |-> cur_table', place |-> "m_new_rows",
                                    pid |-> 0, new |-> TRUE, changed |-> TRUE]]
      /\ UNCHANGED <<acc2pid, playerIdMax, save, quit, maxStored, stored>>
  BY DEF AddRow, dbVars
<1>3. Types'
  <2>1. NumbersOK' /\ SaveOK' /\ StoredOK'
    BY <1>1, <1>2 DEF IInv, Types, NumbersOK, SaveOK, StoredOK
  <2>2. RowOK' /\ AllocOK'
    BY <1>1, <1>2 DEF IInv, Types, NumbersOK, RowOK, AllocOK
  <2>3. QuitOK'
    BY <1>2 DEF IInv, Types, QuitOK
  <2> QED BY <2>1, <2>2, <2>3 DEF Types
<1>4. TablesInv' /\ AllocInv'
  <2> DEFINE lo == TableSize * (cur_table' - 1)
             hi == TableSize * cur_table'
  <2>1. lo \in Int /\ hi \in Int /\ playerIdMax \in Nat
    BY <1>1 DEF IInv, Types, NumbersOK
  <2>2. lo <= playerIdMax /\ pid <= hi
    BY <1>1
  <2> HIDE DEF lo, hi
  <2>3. lo <= playerIdMax /\ playerIdMax <= hi /\ lo < pid /\ pid <= hi
    BY <2>1, <2>2
  <2>4. TablesInv'
    BY <1>1, <1>2, <2>3 DEF TablesInv, lo, hi
  <2>5. InItsTable(cur_table', pid)
    BY <2>3 DEF InItsTable, lo, hi
  <2>6. row'[a].table = cur_table' /\ row'[a].pid = 0
    BY <1>2 DEF IInv, Types, RowOK
  <2>7. alloc'.acc = a /\ alloc'.at = "added" /\ alloc'.pid = playerIdMax' + 1 /\ alloc'.pid = pid
    BY <1>2
  <2>8. AllocInv'
    BY ONLY <2>5, <2>6, <2>7, a \in Accounts DEF AllocInv, InItsTable
  <2> QED BY <2>4, <2>8
<1>5. RowsFit' /\ StoredFits'
  BY <1>2 DEF IInv, Types, RowOK, RowsFit, StoredFits, InItsTable
<1> QED BY <1>3, <1>4, <1>5 DEF IInv

LEMMA IncPlayerIdMaxKeeps == ASSUME IInv, IncPlayerIdMax PROVE IInv'
<1>1. /\ alloc.at = "added" /\ playerIdMax' = playerIdMax + 1
      /\ alloc' = [alloc EXCEPT !.at = "counted"]
      /\ UNCHANGED <<acc2pid, cur_idx_max, cur_table, next_table, pass, row, loaded, save, quit,
                     maxStored, stored>>
  BY DEF IncPlayerIdMax, Counted, tableVars, dbVars
<1>2. Types'
  <2>1. NumbersOK' /\ SaveOK' /\ StoredOK' /\ RowOK'
    BY <1>1 DEF IInv, Types, NumbersOK, SaveOK, StoredOK, RowOK
  <2>2. AllocOK'
    BY <1>1 DEF IInv, Types, AllocOK
  <2>3. QuitOK'
    BY <1>1 DEF IInv, Types, QuitOK
  <2> QED BY <2>1, <2>2, <2>3 DEF Types
<1>3. TablesInv' /\ AllocInv'
  <2>1. alloc'.at = "counted" /\ alloc'.acc = alloc.acc /\ alloc'.pid = alloc.pid
    BY <1>1 DEF IInv, Types, AllocOK
  <2>2. /\ alloc.pid = playerIdMax' /\ InItsTable(cur_table, alloc.pid)
        /\ alloc.acc \in Accounts /\ row[alloc.acc].table = cur_table /\ row[alloc.acc].pid = 0
    BY <1>1 DEF IInv, AllocInv
  <2>3. TablesInv'
    <3> DEFINE lo == TableSize * (cur_table - 1)
               hi == TableSize * cur_table
    <3>1. lo \in Int /\ hi \in Int /\ playerIdMax \in Nat
      BY DEF IInv, Types, NumbersOK
    <3>2. lo <= playerIdMax /\ playerIdMax' <= hi
      BY <2>2 DEF IInv, TablesInv, InItsTable
    <3> HIDE DEF lo, hi
    <3>3. lo <= playerIdMax'
      BY <1>1, <3>1, <3>2
    <3> QED BY <1>1, <3>2, <3>3 DEF IInv, TablesInv, lo, hi
  <2>4. AllocInv'
    BY <1>1, <2>1, <2>2 DEF AllocInv, InItsTable
  <2> QED BY <2>3, <2>4
<1>4. RowsFit' /\ StoredFits'
  BY <1>1 DEF IInv, RowsFit, StoredFits, InItsTable
<1> QED BY <1>2, <1>3, <1>4 DEF IInv

LEMMA SetPlayerIdKeeps == ASSUME IInv, SetPlayerId PROVE IInv'
<1> DEFINE a == alloc.acc
<1>1. /\ alloc.at = "counted" /\ alloc' = NoAlloc
      /\ row' = [row EXCEPT ![a] = [row[a] EXCEPT !.pid = alloc.pid, !.changed = TRUE]]
      /\ acc2pid' = [acc2pid EXCEPT ![a] = alloc.pid]
      /\ UNCHANGED <<playerIdMax, cur_idx_max, cur_table, next_table, pass, loaded, save, quit,
                     maxStored, stored>>
  BY DEF SetPlayerId, tableVars, dbVars
<1>2. /\ a \in Accounts /\ alloc.pid \in Nat
      /\ row[a].table = cur_table /\ InItsTable(cur_table, alloc.pid)
  BY <1>1 DEF IInv, Types, AllocOK, AllocInv
<1>3. Types'
  <2>1. NumbersOK' /\ SaveOK' /\ StoredOK'
    BY <1>1, <1>2 DEF IInv, Types, NumbersOK, SaveOK, StoredOK
  <2>2. RowOK'
    BY <1>1, <1>2 DEF IInv, Types, RowOK
  <2>3. AllocOK' /\ QuitOK'
    BY <1>1 DEF IInv, Types, AllocOK, QuitOK, NoAlloc
  <2> QED BY <2>1, <2>2, <2>3 DEF Types
<1>4. TablesInv' /\ AllocInv'
  BY <1>1 DEF IInv, TablesInv, AllocInv, NoAlloc
<1>5. RowsFit' /\ StoredFits'
  <2>1. \A b \in Accounts : /\ row'[b].table = row[b].table
                            /\ row'[b].pid = IF b = a THEN alloc.pid ELSE row[b].pid
    BY <1>1, <1>2 DEF IInv, Types, RowOK
  <2> QED BY <1>1, <1>2, <2>1 DEF IInv, RowsFit, StoredFits, InItsTable
<1> QED BY <1>3, <1>4, <1>5 DEF IInv

\* The end of a Save, the copy of the rows it goes through, and what it does to PlayerIdMax.
LEMMA SaveStepKeeps ==
  ASSUME IInv, LoopSaves \/ ShutdownSaves \/ PopPassTables \/ SaveTable \/ TableSaved
  PROVE  IInv'
<1>1. UNCHANGED <<acc2pid, playerIdMax, cur_idx_max, cur_table, next_table, row, loaded, alloc,
                  stored>>
  BY DEF LoopSaves, ShutdownSaves, SavePlayerIdMax, PopPassTables, SaveTable, TableSaved,
         tableVars, dbVars
<1>2. maxStored' \in {maxStored, playerIdMax} /\ pass' \in {pass, {}}
  BY DEF LoopSaves, ShutdownSaves, SavePlayerIdMax, PopPassTables, SaveTable, TableSaved,
         tableVars, dbVars
<1>3. SaveOK'
  <2>1. CASE LoopSaves \/ ShutdownSaves
    BY <2>1, <1>2 DEF LoopSaves, ShutdownSaves, SavePlayerIdMax, IInv, Types, SaveOK
  <2>2. CASE PopPassTables
    BY <2>2 DEF PopPassTables, IInv, Types, SaveOK
  <2>3. CASE SaveTable
    BY <2>3, <1>2 DEF SaveTable, RowsIn, IInv, Types, NumbersOK, SaveOK
  <2>4. CASE TableSaved
    BY <2>4, <1>2 DEF TableSaved, NoSave, IInv, Types, SaveOK
  <2> QED BY <2>1, <2>2, <2>3, <2>4
<1>4. QuitOK'
  BY DEF LoopSaves, ShutdownSaves, PopPassTables, SaveTable, TableSaved, IInv, Types, QuitOK
<1>5. NumbersOK' /\ RowOK' /\ AllocOK' /\ StoredOK'
  BY <1>1, <1>2 DEF IInv, Types, NumbersOK, RowOK, AllocOK, StoredOK
<1>6. TablesInv' /\ AllocInv' /\ RowsFit' /\ StoredFits'
  BY <1>1 DEF IInv, TablesInv, AllocInv, RowsFit, StoredFits, InItsTable
<1> QED BY <1>3, <1>4, <1>5, <1>6 DEF IInv, Types

LEMMA SaveRowKeeps == ASSUME IInv, NEW a \in Accounts, SaveRow(a) PROVE IInv'
<1>1. /\ save' = [save EXCEPT !.rows = @ \ {a}]
      /\ row' = [row EXCEPT ![a] = [row[a] EXCEPT !.new = FALSE, !.changed = FALSE]]
      /\ UNCHANGED <<acc2pid, playerIdMax, cur_idx_max, cur_table, next_table, pass, loaded, alloc,
                     quit, maxStored>>
  BY DEF SaveRow, tableVars
<1>2. stored' \subseteq stored \cup {[table |-> row[a].table, acc |-> a, pid |-> row[a].pid]}
  BY DEF SaveRow, Written
<1>3. \A b \in Accounts : row'[b].table = row[b].table /\ row'[b].pid = row[b].pid
  BY <1>1 DEF IInv, Types, RowOK
<1>4. Types'
  <2>1. NumbersOK' /\ SaveOK'
    BY <1>1 DEF IInv, Types, NumbersOK, SaveOK
  <2>2. RowOK' /\ AllocOK'
    BY <1>1 DEF IInv, Types, RowOK, AllocOK
  <2>3. StoredOK'
    <3>1. [table |-> row[a].table, acc |-> a, pid |-> row[a].pid]
            \in [table : Nat, acc : Accounts, pid : Nat]
      BY DEF IInv, Types, RowOK
    <3> QED BY <1>1, <1>2, <3>1 DEF IInv, Types, StoredOK
  <2>4. QuitOK'
    BY <1>1 DEF IInv, Types, QuitOK
  <2> QED BY <2>1, <2>2, <2>3, <2>4 DEF Types
<1>5. TablesInv' /\ AllocInv'
  BY <1>1, <1>3 DEF IInv, TablesInv, AllocInv, InItsTable
<1>6. RowsFit' /\ StoredFits'
  BY <1>2, <1>3 DEF IInv, RowsFit, StoredFits, InItsTable
<1> QED BY <1>4, <1>5, <1>6 DEF IInv

LEMMA FetchNewRowsKeeps == ASSUME IInv, FetchNewRows PROVE IInv'
<1> DEFINE fetched == {a \in RowsIn(save.table, "m_new_rows") : <<save.table, a>> \notin loaded}
<1>1. /\ row' = [a \in Accounts |-> IF a \in fetched
                   THEN [row[a] EXCEPT !.place = "m_rows"] ELSE row[a]]
      /\ save' = [save EXCEPT !.at = IF @ = "rows" THEN "new" ELSE "lastNew", !.rows = fetched]
      /\ UNCHANGED <<acc2pid, playerIdMax, cur_idx_max, cur_table, next_table, pass, loaded, alloc,
                     quit, maxStored, stored>>
  BY DEF FetchNewRows, tableVars, dbVars
<1>2. \A b \in Accounts : row'[b].table = row[b].table /\ row'[b].pid = row[b].pid
  BY <1>1 DEF IInv, Types, RowOK
<1>3. Types'
  <2>1. NumbersOK' /\ StoredOK' /\ AllocOK'
    BY <1>1 DEF IInv, Types, NumbersOK, StoredOK, AllocOK
  <2>2. RowOK'
    BY <1>1 DEF IInv, Types, RowOK
  <2>3. SaveOK'
    <3>1. fetched \subseteq Accounts
      BY DEF RowsIn
    <3> HIDE DEF fetched
    <3> QED BY <1>1, <3>1 DEF IInv, Types, SaveOK
  <2>4. QuitOK'
    BY <1>1 DEF IInv, Types, QuitOK
  <2> QED BY <2>1, <2>2, <2>3, <2>4 DEF Types
<1>4. TablesInv' /\ AllocInv' /\ RowsFit' /\ StoredFits'
  BY <1>1, <1>2 DEF IInv, TablesInv, AllocInv, RowsFit, StoredFits, InItsTable
<1> QED BY <1>3, <1>4 DEF IInv

LEMMA RestartKeeps == ASSUME IInv, Restart PROVE IInv'
<1> DEFINE n == TableCount(maxStored)
<1>1. n \in Nat /\ n > 0 /\ TableSize * (n - 1) <= maxStored /\ maxStored <= TableSize * n
  BY Count DEF IInv, Types, NumbersOK
<1>2. /\ acc2pid' = [a \in Accounts |-> PidIn(Read(n), a)]
      /\ cur_idx_max' = TableSize * n /\ cur_table' = n /\ next_table' = n + 1
      /\ loaded' = {<<n, s.acc>> : s \in Read(n)}
           \cup {<<n + 1, s.acc>> : s \in {x \in stored : x.table = n + 1}}
      /\ playerIdMax' = maxStored /\ pass' = {} /\ row' = [a \in Accounts |-> NoRow]
      /\ alloc' = NoAlloc /\ save' = NoSave /\ quit' = FALSE
      /\ UNCHANGED <<maxStored, stored>>
  BY DEF Restart, dbVars
<1> HIDE DEF n
<1>3. Types'
  <2>1. NumbersOK'
    <3>1. TableSize * n \in Nat /\ maxStored \in Nat
      BY <1>1 DEF IInv, Types, NumbersOK
    <3>2. \A a \in Accounts : PidIn(Read(n), a) \in Nat
      BY <1>1, PidRead DEF IInv, Types
    <3> QED BY <1>1, <1>2, <3>1, <3>2 DEF NumbersOK
  <2>2. StoredOK'
    <3>1. \A s \in stored : s.acc \in Accounts
      BY DEF IInv, Types, StoredOK
    <3>2. Read(n) \subseteq stored
      BY DEF Read
    <3> QED BY <1>1, <1>2, <3>1, <3>2 DEF IInv, Types, StoredOK
  <2>3. RowOK' /\ AllocOK' /\ SaveOK'
    BY <1>2 DEF RowOK, AllocOK, SaveOK, NoRow, NoAlloc, NoSave
  <2>4. QuitOK'
    BY <1>2 DEF QuitOK
  <2> QED BY <2>1, <2>2, <2>3, <2>4 DEF Types
<1>4. TablesInv'
  BY <1>1, <1>2 DEF TablesInv
<1>5. AllocInv' /\ RowsFit' /\ StoredFits'
  BY <1>2 DEF IInv, AllocInv, RowsFit, StoredFits, NoRow, NoAlloc, InItsTable
<1> QED BY <1>3, <1>4, <1>5 DEF IInv

LEMMA StepKeeps == IInv /\ [Next]_vars => IInv'
<1> SUFFICES ASSUME IInv, [Next]_vars PROVE IInv'
  OBVIOUS
<1>1. CASE TryGetAccountPid
  BY <1>1, AddRowKeeps, IncPlayerIdMaxKeeps, SetPlayerIdKeeps DEF TryGetAccountPid
<1>2. CASE LoopSaves \/ ShutdownSaves
  BY <1>2, SaveStepKeeps
<1>3. CASE Save
  BY <1>3, SaveStepKeeps, SaveRowKeeps, FetchNewRowsKeeps DEF Save
<1>4. CASE Restart
  BY <1>4, RestartKeeps
<1>5. CASE UNCHANGED vars
  BY <1>5 DEF vars, tableVars, dbVars, IInv, Types, NumbersOK, RowOK, AllocOK, SaveOK, QuitOK,
              StoredOK, TablesInv, AllocInv, RowsFit, StoredFits, InItsTable
<1> QED BY <1>1, <1>2, <1>3, <1>4, <1>5 DEF Next

LEMMA Invariance == Spec => []IInv
BY Initially, StepKeeps, PTL DEF Spec

\* Every variable keeps its type, whatever is handed out, saved, lost and read again.
THEOREM TypeCorrect == Spec => []TypeOK
<1>1. IInv => TypeOK
  BY TypesAre DEF IInv
<1> QED BY <1>1, Invariance, PTL

\* An id is only ever stored in the table that PreLoad looks for it in (a_db_account.go:938),
\* also when the process dies between the write of the highest id and those of the tables.
THEOREM PidsFit == Spec => []PidFitsTable
<1>1. IInv => PidFitsTable
  BY DEF IInv, StoredFits, AllocInv, PidFitsTable
<1> QED BY <1>1, Invariance, PTL

-----------------------------------------------------------------------------
(* Ids are distinct, when the process stops in its Shutdown only. *)

\* The id p is, or is about to be, that of a: in the map, in a row, in MySQL or in the handler.
Gives(a, p) ==
  \/ acc2pid[a] = p
  \/ row[a].pid = p
  \/ \E s \in stored : s.acc = a /\ s.pid = p
  \/ alloc.at # "none" /\ alloc.acc = a /\ alloc.pid = p

\* The highest id that was handed out.
Top == IF alloc.at = "added" THEN playerIdMax + 1 ELSE playerIdMax

OneEach ==
  \A a, b \in Accounts : \A p \in Nat \ {0} : Gives(a, p) /\ Gives(b, p) => a = b
Bounded == \A a \in Accounts : \A p \in Nat \ {0} : Gives(a, p) => p <= Top

\* Shutdown's Save comes after the last id, and writes the highest.
Stopped == quit => maxStored = playerIdMax /\ alloc.at = "none"

Distinct == OneEach /\ Bounded /\ Stopped

\* A step that gives nobody an id keeps the ids distinct.
LEMMA NothingGiven ==
  ASSUME OneEach, Bounded, Types, Types', Top' >= Top,
         \A a \in Accounts : \A p \in Nat \ {0} : Gives(a, p)' => Gives(a, p)
  PROVE  OneEach' /\ Bounded'
<1>1. OneEach'
  BY DEF OneEach
<1>2. Bounded'
  <2>1. Top \in Nat /\ Top' \in Nat
    <3>1. playerIdMax \in Nat /\ playerIdMax' \in Nat
      BY DEF Types, NumbersOK
    <3>2. Top \in Nat
      BY <3>1 DEF Top
    <3>3. Top' \in Nat
      <4>1. playerIdMax' \in Nat /\ playerIdMax' + 1 \in Nat
        <5>1. \A x \in Nat : x + 1 \in Nat
          OBVIOUS
        <5> QED BY ONLY <3>1, <5>1, Zenon
      <4>2. Top' = playerIdMax' \/ Top' = playerIdMax' + 1
        BY Zenon DEF Top
      <4> QED BY ONLY <4>1, <4>2, Zenon
    <3> QED BY <3>2, <3>3
  <2>2. \A a \in Accounts : \A p \in Nat \ {0} : Gives(a, p)' => p <= Top
    BY DEF Bounded
  <2>3. \A a \in Accounts : \A p \in Nat \ {0} : Gives(a, p)' => p <= Top'
    BY <2>1, <2>2
  <2> QED BY <2>3 DEF Bounded
<1> QED BY <1>1, <1>2

LEMMA AddRowGives ==
  ASSUME IInv, IInv', Distinct, NEW a \in Accounts, AddRow(a)
  PROVE  Distinct'
<1> DEFINE pid == playerIdMax + 1
<1>1. /\ alloc.at = "none" /\ playerIdMax \in Nat
      /\ alloc' = [at |-> "added", acc |-> a, pid |-> pid]
      /\ row' = [row EXCEPT ![a] = [table |-> cur_table', place |-> "m_new_rows",
                                    pid |-> 0, new |-> TRUE, changed |-> TRUE]]
      /\ UNCHANGED <<acc2pid, playerIdMax, stored>>
  BY DEF AddRow, dbVars, IInv, Types, NumbersOK
<1>2. \A b \in Accounts : row'[b].pid = IF b = a THEN 0 ELSE row[b].pid
  BY <1>1 DEF IInv, Types, RowOK
<1>3. Top = playerIdMax /\ Top' = pid
  BY <1>1 DEF Top
<1>4. \A b \in Accounts : \A p \in Nat \ {0} :
        Gives(b, p)' => Gives(b, p) \/ (b = a /\ p = pid)
  BY <1>1, <1>2 DEF Gives
<1>5. \A b \in Accounts : ~ Gives(b, pid)
  BY <1>1, <1>3 DEF Distinct, Bounded
<1>6. OneEach'
  BY <1>4, <1>5 DEF Distinct, OneEach
<1>7. Bounded'
  BY <1>1, <1>3, <1>4 DEF Distinct, Bounded
<1>8. Stopped'
  <2>1. ~ quit /\ quit' = quit
    BY DEF AddRow
  <2> QED BY <2>1 DEF Stopped
<1> QED BY <1>6, <1>7, <1>8 DEF Distinct

LEMMA OthersGiveNothing ==
  ASSUME IInv, IInv', Distinct, ~ CrashAnywhere,
         \/ IncPlayerIdMax \/ SetPlayerId \/ LoopSaves \/ ShutdownSaves \/ Save \/ Restart
         \/ UNCHANGED vars
  PROVE  Distinct'
<1> DEFINE Less == \A a \in Accounts : \A p \in Nat \ {0} : Gives(a, p)' => Gives(a, p)
<1> SUFFICES Less /\ Top' >= Top /\ Stopped'
  BY NothingGiven DEF IInv, Distinct
<1>0. Top \in Nat /\ maxStored \in Nat /\ playerIdMax \in Nat
  BY DEF IInv, Types, NumbersOK, Top
<1>1. CASE IncPlayerIdMax
  <2>1. /\ alloc.at = "added" /\ playerIdMax' = playerIdMax + 1
        /\ alloc'.at = "counted" /\ alloc'.acc = alloc.acc /\ alloc'.pid = alloc.pid
    BY <1>1 DEF IncPlayerIdMax, Counted, IInv, Types, AllocOK
  <2>2. UNCHANGED <<acc2pid, row, stored, quit>>
    BY <1>1 DEF IncPlayerIdMax, dbVars
  <2>3. Less
    BY <2>1, <2>2 DEF Gives
  <2>4. Top' >= Top
    BY <1>0, <2>1 DEF Top
  <2>5. Stopped'
    BY <2>1, <2>2 DEF Distinct, Stopped
  <2> QED BY <2>3, <2>4, <2>5
<1>2. CASE SetPlayerId
  <2> DEFINE x == alloc.acc
  <2>1. /\ alloc.at = "counted" /\ alloc'.at = "none"
        /\ row' = [row EXCEPT ![x] = [row[x] EXCEPT !.pid = alloc.pid, !.changed = TRUE]]
        /\ acc2pid' = [acc2pid EXCEPT ![x] = alloc.pid]
        /\ UNCHANGED <<playerIdMax, stored>>
    BY <1>2 DEF SetPlayerId, NoAlloc, dbVars
  <2>2. \A b \in Accounts : /\ row'[b].pid = IF b = x THEN alloc.pid ELSE row[b].pid
                            /\ acc2pid'[b] = IF b = x THEN alloc.pid ELSE acc2pid[b]
    BY <2>1 DEF IInv, Types, RowOK, NumbersOK
  <2>3. Less
    BY <2>1, <2>2 DEF Gives
  <2>4. Top' >= Top
    BY <1>0, <2>1 DEF Top
  <2>5. UNCHANGED <<quit, maxStored>>
    BY <1>2 DEF SetPlayerId, dbVars
  <2>6. Stopped'
    BY <2>1, <2>5 DEF Distinct, Stopped
  <2> QED BY <2>3, <2>4, <2>6
<1>3. CASE LoopSaves \/ ShutdownSaves
  <2>1. UNCHANGED <<acc2pid, playerIdMax, row, alloc, stored>> /\ maxStored' = playerIdMax
    BY <1>3 DEF LoopSaves, ShutdownSaves, SavePlayerIdMax, tableVars
  <2>2. quit' => alloc.at = "none"
    BY <1>3 DEF LoopSaves, ShutdownSaves
  <2>3. Less
    BY <2>1 DEF Gives
  <2>4. Top' >= Top
    BY <1>0, <2>1 DEF Top
  <2>5. Stopped'
    BY <2>1, <2>2 DEF Stopped
  <2> QED BY <2>3, <2>4, <2>5
<1>4. CASE Save
  <2>1. UNCHANGED <<acc2pid, playerIdMax, alloc, quit, maxStored>>
    BY <1>4 DEF Save, PopPassTables, SaveTable, SaveRow, FetchNewRows, TableSaved, tableVars, dbVars
  <2>2. /\ \A b \in Accounts : row'[b].pid = row[b].pid
        /\ \A s \in stored' : s \in stored \/ \E a \in Accounts : s.acc = a /\ s.pid = row[a].pid
    <3>1. CASE PopPassTables \/ SaveTable \/ TableSaved
      BY <3>1 DEF PopPassTables, SaveTable, TableSaved, dbVars
    <3>2. ASSUME NEW a \in Accounts, SaveRow(a)
          PROVE  /\ \A b \in Accounts : row'[b].pid = row[b].pid
                 /\ \A s \in stored' : s \in stored \/ (s.acc = a /\ s.pid = row[a].pid)
      BY <3>2 DEF SaveRow, Written, IInv, Types, RowOK
    <3>3. CASE FetchNewRows
      BY <3>3 DEF FetchNewRows, dbVars, IInv, Types, RowOK
    <3> QED BY <1>4, <3>1, <3>2, <3>3 DEF Save
  <2>3. Less
    BY <2>1, <2>2 DEF Gives
  <2>4. Top' >= Top
    BY <1>0, <2>1 DEF Top
  <2>5. Stopped'
    BY <2>1 DEF Distinct, Stopped
  <2> QED BY <2>3, <2>4, <2>5
<1>5. CASE Restart
  <2> DEFINE n == TableCount(maxStored)
  <2>1. quit
    BY <1>5 DEF Restart
  <2>2. maxStored = playerIdMax /\ alloc.at = "none"
    BY <2>1 DEF Distinct, Stopped
  <2>3. /\ acc2pid' = [a \in Accounts |-> PidIn(Read(n), a)]
        /\ playerIdMax' = maxStored /\ row' = [a \in Accounts |-> NoRow] /\ alloc' = NoAlloc
        /\ UNCHANGED stored
    BY <1>5 DEF Restart, dbVars
  <2>4. n \in Nat
    BY <1>0, Count
  <2> HIDE DEF n
  <2>5. \A a \in Accounts : acc2pid'[a] # 0 => \E s \in stored : s.acc = a /\ s.pid = acc2pid'[a]
    BY <2>3, <2>4, PidRead DEF IInv, Types
  <2>6. \A a \in Accounts : row'[a].pid = 0 /\ alloc'.at = "none"
    BY <2>3 DEF NoRow, NoAlloc
  <2>7. Less
    BY <2>3, <2>5, <2>6 DEF Gives
  <2>8. Top' >= Top
    BY <1>0, <2>2, <2>3 DEF Top, NoAlloc
  <2>9. ~ quit'
    BY <1>5 DEF Restart
  <2> QED BY <2>7, <2>8, <2>9 DEF Stopped
<1>6. CASE UNCHANGED vars
  <2>1. UNCHANGED <<acc2pid, playerIdMax, row, alloc, stored, quit, maxStored>>
    BY <1>6 DEF vars, dbVars
  <2>2. Less /\ Top' = Top
    BY <2>1 DEF Gives, Top
  <2>3. Stopped'
    BY <2>1 DEF Distinct, Stopped
  <2> QED BY <1>0, <2>2, <2>3
<1> QED BY <1>1, <1>2, <1>3, <1>4, <1>5, <1>6

LEMMA DistinctInvariance ==
  ASSUME ~ CrashAnywhere
  PROVE  Spec => []Distinct
<1>1. Init => Distinct
  <2> SUFFICES ASSUME Init PROVE Distinct
    OBVIOUS
  <2>1. \A a \in Accounts : \A p \in Nat \ {0} : ~ Gives(a, p)
    BY DEF Init, Gives, NoRow, NoAlloc
  <2>2. OneEach /\ Bounded
    BY <2>1 DEF OneEach, Bounded
  <2>3. Stopped
    BY DEF Init, Stopped
  <2> QED BY <2>2, <2>3 DEF Distinct
<1>2. IInv /\ IInv' /\ Distinct /\ [Next]_vars => Distinct'
  BY AddRowGives, OthersGiveNothing DEF Next, TryGetAccountPid
<1> QED BY <1>1, <1>2, Invariance, PTL DEF Spec

\* No two accounts share an id, as long as the process stops in its Shutdown only: a crash between
\* the write of the highest id and those of the accounts lets the next start hand ids out again.
THEOREM PidsDistinct ==
  ASSUME ~ CrashAnywhere
  PROVE  Spec => []PidsAreDistinct
<1>1. IInv /\ Distinct => PidsAreDistinct
  BY DEF IInv, Types, NumbersOK, Distinct, OneEach, Gives, PidsAreDistinct
<1> QED BY <1>1, Invariance, DistinctInvariance, PTL

-----------------------------------------------------------------------------
(* Ids are kept, when the process stops in its Shutdown only. *)

HasRow(a) == row[a].place # "none"
Saved(a) == row[a].place = "m_rows" /\ ~ row[a].new /\ ~ row[a].changed

\* A row carries the id of its account, which has none yet only while its
\* TryGetAccountPid is in progress.
RowsInv ==
  \A a \in Accounts :
    /\ HasRow(a) => row[a].pid = acc2pid[a] /\ row[a].table <= cur_table
    /\ (HasRow(a) /\ acc2pid[a] = 0) <=> (alloc.at # "none" /\ alloc.acc = a)
    /\ row[a].place = "m_new_rows" => row[a].new

\* MySQL has one row of an account at most: that of the row in memory, as it is when no flag is
\* up, or the one that an earlier life of the process has left, with the account's id.
CopiesInv ==
  /\ \A s \in stored :
       /\ s.table <= cur_table
       /\ HasRow(s.acc) => s.table = row[s.acc].table
       /\ ~ HasRow(s.acc) => s.pid = acc2pid[s.acc] /\ s.pid # 0
  /\ \A s, x \in stored : s.acc = x.acc => s = x
  /\ \A a \in Accounts :
       /\ Saved(a) => \E s \in stored : s.acc = a /\ s.pid = row[a].pid
       /\ ~ HasRow(a) /\ acc2pid[a] # 0 => \E s \in stored : s.acc = a

\* A table that was loaded has no account that could get a new row.
LoadedInv ==
  \A a \in Accounts : a \in {x[2] : x \in loaded} => ~ HasRow(a) /\ acc2pid[a] # 0

\* The Save in progress will come to the row of a.
Pending(a) ==
  \/ save.at \in {"next", "rows", "new"} /\ row[a].table \in save.tables
  \/ /\ save.at \in {"rows", "lastRows"} /\ row[a].table = save.table
     /\ row[a].place = "m_new_rows" \/ a \in save.rows
  \/ save.at \in {"new", "lastNew"} /\ a \in save.rows

\* A row that is not saved is in the table in use, in one that the next Save takes, or in one
\* that this Save has taken and not finished.
PendingInv ==
  \A a \in Accounts :
    /\ HasRow(a) => Saved(a) \/ row[a].table \in {cur_table} \cup pass \/ Pending(a)
    /\ a \in save.rows => row[a].place = "m_rows" /\ row[a].table = save.table

\* Shutdown's Save ends with the table in use, and finds no id that is being handed out.
ShutdownInv ==
  quit =>
    /\ alloc.at = "none"
    /\ save.at # "pop" => pass = {}
    /\ save.at \in {"lastRows", "lastNew", "idle"} =>
         \A a \in Accounts : HasRow(a) => Saved(a) \/ Pending(a)

Kept == RowsInv /\ CopiesInv /\ LoadedInv /\ PendingInv /\ ShutdownInv

LEMMA InitiallyKept == Init => Kept
BY DEF Init, Kept, RowsInv, CopiesInv, LoadedInv, PendingInv, ShutdownInv, HasRow, Saved, Pending,
       NoRow, NoAlloc, NoSave

LEMMA AddRowSaves == ASSUME IInv, Kept, NEW a \in Accounts, AddRow(a) PROVE Kept'
<1> DEFINE pid == playerIdMax + 1
<1>1. /\ ~ quit /\ quit' = quit /\ alloc.at = "none" /\ acc2pid[a] = 0
      /\ IF Full(pid) THEN ChangeTable(pid) ELSE UNCHANGED <<tableVars, loaded>>
      /\ alloc' = [at |-> "added", acc |-> a, pid |-> pid]
      /\ row' = [row EXCEPT ![a] = [table |-> cur_table', place |-> "m_new_rows",
                                    pid |-> 0, new |-> TRUE, changed |-> TRUE]]
      /\ UNCHANGED <<acc2pid, save, stored>>
  BY DEF AddRow, dbVars
<1>2. ~ HasRow(a) /\ ~ \E s \in stored : s.acc = a
  <2>1. ~ HasRow(a)
    BY <1>1 DEF Kept, RowsInv
  <2> QED BY <1>1, <2>1 DEF Kept, CopiesInv
<1>3. /\ cur_table \in Nat /\ cur_table' \in Nat /\ cur_table <= cur_table'
      /\ \A t \in {cur_table} \cup pass : t \in {cur_table'} \cup pass'
      /\ loaded' = loaded
  <2>1. CASE ~ Full(pid)
    BY <1>1, <2>1 DEF tableVars, IInv, Types, NumbersOK
  <2>2. CASE Full(pid)
    <3>1. ChangeTable(pid)
      BY <1>1, <2>2
    <3>2. cur_table \in Nat /\ cur_table' = cur_table + 1 /\ pass' = pass \cup {cur_table}
      BY <3>1 DEF ChangeTable, Passed, IInv, Types, NumbersOK
    <3>3. next_table' = 0 \/ next_table' = cur_table' + 1
      BY <1>1, Room
    <3>4. CASE UNCHANGED loaded
      BY <3>2, <3>4
    <3>5. CASE /\ next_table' = NextTableFor(pid)
               /\ loaded' = loaded \cup {<<s.table, s.acc>> :
                                         s \in {x \in stored : x.table = next_table'}}
      <4>1. NextTableFor(pid) # 0
        <5>1. pid - 1 \in Nat
          BY DEF IInv, Types, NumbersOK
        <5>2. (pid - 1) \div TableSize \in Nat
          BY <5>1, Division
        <5> QED BY <5>2 DEF NextTableFor
      <4>2. next_table' = cur_table + 2
        BY <3>2, <3>3, <3>5, <4>1
      <4>3. \A s \in stored : s.table \in Nat /\ s.table <= cur_table
        BY DEF Kept, CopiesInv, IInv, Types, StoredOK
      <4>4. {x \in stored : x.table = next_table'} = {}
        BY <3>2, <4>2, <4>3
      <4> QED BY <3>2, <3>5, <4>4
    <3> QED BY <3>1, <3>4, <3>5 DEF ChangeTable
  <2> QED BY <2>1, <2>2
<1>4. \A b \in Accounts :
        row'[b] = IF b = a THEN [table |-> cur_table', place |-> "m_new_rows",
                                 pid |-> 0, new |-> TRUE, changed |-> TRUE] ELSE row[b]
  BY <1>1 DEF IInv, Types, RowOK
<1>5. \A b \in Accounts : b # a => /\ HasRow(b)' = HasRow(b)
                                   /\ Saved(b)' = Saved(b) /\ Pending(b)' = Pending(b)
  BY <1>1, <1>4 DEF HasRow, Saved, Pending
<1>6. HasRow(a)' /\ ~ Saved(a)' /\ row'[a].table = cur_table' /\ row'[a].pid = 0
  BY <1>4 DEF HasRow, Saved
<1>7. RowsInv'
  <2>1. \A b \in Accounts : row[b].table \in Nat
    BY DEF IInv, Types, RowOK
  <2>2. ASSUME NEW b \in Accounts
        PROVE  /\ HasRow(b)' => row'[b].pid = acc2pid'[b] /\ row'[b].table <= cur_table'
               /\ (HasRow(b)' /\ acc2pid'[b] = 0) <=> (alloc'.at # "none" /\ alloc'.acc = b)
               /\ row'[b].place = "m_new_rows" => row'[b].new
    <3>1. CASE b = a
      BY <3>1, <1>1, <1>3, <1>4, <1>6
    <3>2. CASE b # a
      <4>1. alloc'.acc # b /\ ~ (HasRow(b) /\ acc2pid[b] = 0)
        BY <3>2, <1>1 DEF Kept, RowsInv
      <4>2. /\ HasRow(b) => row[b].pid = acc2pid[b] /\ row[b].table <= cur_table
            /\ row[b].place = "m_new_rows" => row[b].new
        BY DEF Kept, RowsInv
      <4> QED BY <3>2, <4>1, <4>2, <1>1, <1>3, <1>4, <1>5, <2>1
    <3> QED BY <3>1, <3>2
  <2> QED BY <2>2 DEF RowsInv
<1>8. CopiesInv'
  <2>1. \A s \in stored : s.acc \in Accounts /\ s.acc # a /\ s.table \in Nat
    BY <1>2 DEF IInv, Types, StoredOK
  <2>2. \A s \in stored' : /\ s.table <= cur_table'
                           /\ HasRow(s.acc)' => s.table = row'[s.acc].table
                           /\ ~ HasRow(s.acc)' => s.pid = acc2pid'[s.acc] /\ s.pid # 0
    BY <1>1, <1>3, <1>4, <1>5, <2>1 DEF Kept, CopiesInv
  <2>3. \A b \in Accounts :
          /\ Saved(b)' => \E s \in stored' : s.acc = b /\ s.pid = row'[b].pid
          /\ ~ HasRow(b)' /\ acc2pid'[b] # 0 => \E s \in stored' : s.acc = b
    BY <1>1, <1>4, <1>5, <1>6 DEF Kept, CopiesInv
  <2>4. \A s, x \in stored' : s.acc = x.acc => s = x
    BY <1>1 DEF Kept, CopiesInv
  <2> QED BY <2>2, <2>3, <2>4 DEF CopiesInv
<1>9. LoadedInv'
  BY <1>1, <1>3, <1>5 DEF Kept, LoadedInv
<1>10. PendingInv'
  <2>1. a \notin save.rows
    BY <1>2 DEF Kept, PendingInv, HasRow
  <2> QED BY <1>1, <1>3, <1>4, <1>5, <1>6, <2>1 DEF Kept, PendingInv
<1>11. ShutdownInv'
  BY <1>1 DEF ShutdownInv
<1> QED BY <1>7, <1>8, <1>9, <1>10, <1>11 DEF Kept

LEMMA HandingOutSaves == ASSUME IInv, Kept, IncPlayerIdMax \/ SetPlayerId PROVE Kept'
<1>0. PICK a \in Accounts : alloc.acc = a /\ alloc.at # "none" /\ row[a].table = cur_table
  BY DEF IncPlayerIdMax, SetPlayerId, IInv, AllocInv
<1>1. UNCHANGED <<cur_table, pass, loaded, save, quit, stored>> /\ ~ quit
  BY <1>0 DEF IncPlayerIdMax, SetPlayerId, tableVars, dbVars, Kept, ShutdownInv
<1>2. \A b \in Accounts : (HasRow(b) /\ acc2pid[b] = 0) <=> b = a
  BY <1>0, <1>1 DEF Kept, RowsInv
<1>3. CASE IncPlayerIdMax
  <2>1. UNCHANGED <<acc2pid, row>> /\ alloc'.at # "none" /\ alloc'.acc = alloc.acc
    BY <1>3 DEF IncPlayerIdMax, IInv, Types, AllocOK
  <2> QED BY <1>0, <1>1, <2>1 DEF Kept, RowsInv, CopiesInv, LoadedInv, PendingInv, ShutdownInv,
                            HasRow, Saved, Pending
<1>4. CASE SetPlayerId
  <2>1. /\ row' = [row EXCEPT ![a] = [row[a] EXCEPT !.pid = alloc.pid, !.changed = TRUE]]
        /\ acc2pid' = [acc2pid EXCEPT ![a] = alloc.pid] /\ alloc'.at = "none"
    BY <1>0, <1>4 DEF SetPlayerId, NoAlloc
  <2>2. \A b \in Accounts :
          /\ row'[b].place = row[b].place /\ row'[b].table = row[b].table
          /\ acc2pid'[b] = IF b = a THEN alloc.pid ELSE acc2pid[b]
          /\ row'[b].pid = IF b = a THEN alloc.pid ELSE row[b].pid
          /\ b = a => row'[b].changed
          /\ b # a => row'[b] = row[b]
    BY <1>1, <2>1 DEF IInv, Types, RowOK, NumbersOK
  <2>3. \A b \in Accounts : /\ HasRow(b)' = HasRow(b) /\ Pending(b)' = Pending(b)
                            /\ Saved(b)' => b # a
                            /\ b # a => Saved(b)' = Saved(b)
    BY <1>1, <2>2 DEF HasRow, Saved, Pending
  <2>4. HasRow(a)' /\ acc2pid'[a] # 0
    <3>1. alloc.pid # 0
      BY <1>0, <1>4 DEF SetPlayerId, IInv, AllocInv, InItsTable, Types, AllocOK, TablesInv,
                        NumbersOK
    <3> QED BY <1>1, <1>2, <2>2, <2>3, <3>1
  <2>5. RowsInv'
    BY <1>1, <1>2, <2>1, <2>2, <2>3, <2>4 DEF Kept, RowsInv
  <2>6. CopiesInv'
    <3>1. \A s \in stored : s.acc \in Accounts
      BY DEF IInv, Types, StoredOK
    <3>2. \A s \in stored' : /\ s.table <= cur_table'
                             /\ HasRow(s.acc)' => s.table = row'[s.acc].table
                             /\ ~ HasRow(s.acc)' => s.pid = acc2pid'[s.acc] /\ s.pid # 0
      BY <1>1, <1>2, <2>2, <2>3, <3>1 DEF Kept, CopiesInv
    <3>3. \A b \in Accounts :
            /\ Saved(b)' => \E s \in stored' : s.acc = b /\ s.pid = row'[b].pid
            /\ ~ HasRow(b)' /\ acc2pid'[b] # 0 => \E s \in stored' : s.acc = b
      BY <1>1, <1>2, <2>2, <2>3 DEF Kept, CopiesInv
    <3>4. \A s, x \in stored' : s.acc = x.acc => s = x
      BY <1>1 DEF Kept, CopiesInv
    <3> QED BY <3>2, <3>3, <3>4 DEF CopiesInv
  <2>7. LoadedInv'
    BY <1>1, <1>2, <2>2, <2>3 DEF Kept, LoadedInv
  <2>8. PendingInv'
    BY <1>0, <1>1, <2>2, <2>3 DEF Kept, PendingInv
  <2>9. ShutdownInv'
    BY <1>1 DEF ShutdownInv
  <2> QED BY <2>5, <2>6, <2>7, <2>8, <2>9 DEF Kept
<1> QED BY <1>3, <1>4

\* A Save begins, takes the full tables, and comes to the next table or the end of one.
LEMMA SaveStepSaves ==
  ASSUME IInv, Kept, LoopSaves \/ ShutdownSaves \/ PopPassTables \/ SaveTable \/ TableSaved
  PROVE  Kept'
<1>1. UNCHANGED <<acc2pid, cur_table, row, loaded, alloc, stored>>
  BY DEF LoopSaves, ShutdownSaves, SavePlayerIdMax, PopPassTables, SaveTable, TableSaved,
         tableVars, dbVars
<1>2. RowsInv' /\ CopiesInv' /\ LoadedInv'
  BY <1>1 DEF Kept, RowsInv, CopiesInv, LoadedInv, HasRow, Saved
<1>3. \A a \in Accounts : HasRow(a)' = HasRow(a) /\ Saved(a)' = Saved(a)
  BY <1>1 DEF HasRow, Saved
<1>4. \A a \in Accounts : row[a].place \in {"none", "m_new_rows", "m_rows"}
  BY DEF IInv, Types, RowOK
<1>5. PendingInv' /\ ShutdownInv'
  <2>1. CASE LoopSaves \/ ShutdownSaves
    <3>1. /\ save.at = "idle" /\ ~ quit /\ save'.at = "pop" /\ save'.rows = save.rows
          /\ save'.table = save.table /\ pass' = pass /\ (quit' => alloc.at = "none")
      BY <2>1 DEF LoopSaves, ShutdownSaves, SavePlayerIdMax, tableVars, IInv, Types, SaveOK
    <3>2. \A a \in Accounts : ~ Pending(a)
      BY <3>1 DEF Pending
    <3>3. PendingInv'
      BY <1>1, <1>3, <3>1, <3>2 DEF Kept, PendingInv
    <3>4. ShutdownInv'
      BY <1>1, <3>1 DEF ShutdownInv
    <3> QED BY <3>3, <3>4
  <2>2. CASE PopPassTables
    <3>1. /\ save.at = "pop" /\ save'.at = "next" /\ save'.tables = pass /\ save'.rows = save.rows
          /\ save'.table = save.table /\ pass' = {} /\ quit' = quit
      BY <2>2 DEF PopPassTables, IInv, Types, SaveOK
    <3>2. \A a \in Accounts : /\ ~ Pending(a)
                              /\ row[a].table \in pass => Pending(a)'
      BY <1>1, <3>1 DEF Pending
    <3>3. PendingInv'
      BY <1>1, <1>3, <3>1, <3>2 DEF Kept, PendingInv
    <3>4. ShutdownInv'
      BY <1>1, <3>1 DEF Kept, ShutdownInv
    <3> QED BY <3>3, <3>4
  <2>3. CASE SaveTable
    <3>1. save.at = "next" /\ pass' = pass /\ quit' = quit
      BY <2>3 DEF SaveTable, tableVars
    <3>2. ASSUME NEW t \in save.tables,
                 save' = [at |-> "rows", tables |-> save.tables \ {t}, table |-> t,
                          rows |-> RowsIn(t, "m_rows")]
          PROVE  PendingInv' /\ ShutdownInv'
      <4>1. \A a \in Accounts : HasRow(a) /\ Pending(a) => Pending(a)'
        BY <1>1, <1>4, <3>1, <3>2 DEF Pending, HasRow, RowsIn
      <4>2. \A a \in Accounts : a \in save'.rows => row[a].place = "m_rows" /\ row[a].table = t
        BY <3>2 DEF RowsIn
      <4>3. PendingInv'
        BY <1>1, <1>3, <3>1, <3>2, <4>1, <4>2 DEF Kept, PendingInv
      <4>4. ShutdownInv'
        BY <1>1, <3>1, <3>2 DEF Kept, ShutdownInv
      <4> QED BY <4>3, <4>4
    <3>3. ASSUME save.tables = {},
                 save' = [at |-> "lastRows", tables |-> {}, table |-> cur_table,
                          rows |-> RowsIn(cur_table, "m_rows")]
          PROVE  PendingInv' /\ ShutdownInv'
      <4>1. \A a \in Accounts : /\ ~ Pending(a)
                                /\ HasRow(a) /\ row[a].table = cur_table => Pending(a)'
        BY <1>1, <1>4, <3>1, <3>3 DEF Pending, HasRow, RowsIn
      <4>2. \A a \in Accounts :
              a \in save'.rows => row[a].place = "m_rows" /\ row[a].table = cur_table
        BY <3>3 DEF RowsIn
      <4>3. PendingInv'
        BY <1>1, <1>3, <3>1, <3>3, <4>1, <4>2 DEF Kept, PendingInv
      <4>4. ShutdownInv'
        BY <1>1, <1>3, <3>1, <3>3, <4>1 DEF Kept, ShutdownInv, PendingInv
      <4> QED BY <4>3, <4>4
    <3> QED BY <2>3, <3>2, <3>3 DEF SaveTable
  <2>4. CASE TableSaved
    <3>1. /\ save.at \in {"new", "lastNew"} /\ save.rows = {} /\ save'.rows = {} /\ pass' = pass
          /\ quit' = quit /\ save'.at = (IF save.at = "new" THEN "next" ELSE "idle")
          /\ save.at = "new" => save'.tables = save.tables
      BY <2>4 DEF TableSaved, tableVars, NoSave, IInv, Types, SaveOK
    <3>2. \A a \in Accounts : /\ Pending(a) => Pending(a)'
                              /\ save.at = "lastNew" => ~ Pending(a)
      BY <1>1, <3>1 DEF Pending
    <3>3. PendingInv'
      BY <1>1, <1>3, <3>1, <3>2 DEF Kept, PendingInv
    <3>4. ShutdownInv'
      BY <1>1, <1>3, <3>1, <3>2 DEF Kept, ShutdownInv
    <3> QED BY <3>3, <3>4
  <2> QED BY <2>1, <2>2, <2>3, <2>4
<1> QED BY <1>2, <1>5 DEF Kept

LEMMA SaveRowSaves == ASSUME IInv, Kept, NEW a \in Accounts, SaveRow(a) PROVE Kept'
<1> DEFINE new == [table |-> row[a].table, acc |-> a, pid |-> row[a].pid]
<1>1. /\ a \in save.rows /\ save' = [save EXCEPT !.rows = @ \ {a}] /\ stored' = Written(a)
      /\ row' = [row EXCEPT ![a] = [row[a] EXCEPT !.new = FALSE, !.changed = FALSE]]
      /\ UNCHANGED <<acc2pid, cur_table, pass, loaded, alloc, quit>>
  BY DEF SaveRow, tableVars
<1>2. /\ save'.at = save.at /\ save'.tables = save.tables /\ save'.table = save.table
      /\ save'.rows = save.rows \ {a}
  BY <1>1 DEF IInv, Types, SaveOK
<1>3. \A b \in Accounts : /\ row'[b].place = row[b].place /\ row'[b].table = row[b].table
                          /\ row'[b].pid = row[b].pid
                          /\ b # a => row'[b] = row[b]
                          /\ b = a => ~ row'[b].new /\ ~ row'[b].changed
  BY <1>1 DEF IInv, Types, RowOK
<1>4. row[a].place = "m_rows"
  BY <1>1 DEF Kept, PendingInv
<1>5. \A b \in Accounts : /\ HasRow(b)' = HasRow(b)
                          /\ b # a => Saved(b)' = Saved(b) /\ Pending(b)' = Pending(b)
  BY <1>2, <1>3 DEF HasRow, Saved, Pending
<1>6. HasRow(a) /\ Saved(a)'
  BY <1>3, <1>4 DEF HasRow, Saved
<1>7. stored' = {s \in stored : s.acc # a} \cup {new}
  <2>1. \A s \in stored : s.acc = a => s.table = row[a].table
    BY <1>6 DEF Kept, CopiesInv
  <2>2. CASE row[a].new \/ row[a].changed
    BY <1>1, <2>1, <2>2 DEF Written
  <2>3. CASE ~ (row[a].new \/ row[a].changed)
    <3>1. stored' = stored /\ Saved(a)
      BY <1>1, <1>4, <2>3 DEF Written, Saved
    <3>2. PICK s \in stored : s.acc = a /\ s.pid = row[a].pid
      BY <3>1 DEF Kept, CopiesInv
    <3>3. s = new
      BY <2>1, <3>2 DEF IInv, Types, StoredOK
    <3>4. \A x \in stored : x.acc = a => x = new
      BY <3>2, <3>3 DEF Kept, CopiesInv
    <3> QED BY <3>1, <3>2, <3>3, <3>4
  <2> QED BY <2>2, <2>3
<1>8. RowsInv' /\ LoadedInv'
  <2>1. RowsInv'
    <3>1. \A b \in Accounts : row'[b].place = "m_new_rows" => row'[b].new
      BY <1>3, <1>4 DEF Kept, RowsInv
    <3> QED BY <1>1, <1>3, <1>5, <3>1 DEF Kept, RowsInv
  <2>2. LoadedInv'
    BY <1>1, <1>5 DEF Kept, LoadedInv
  <2> QED BY <2>1, <2>2
<1>9. CopiesInv'
  <2>1. /\ new.acc = a /\ new.table = row[a].table /\ new.pid = row[a].pid
        /\ row[a].table <= cur_table
    BY <1>6 DEF Kept, RowsInv
  <2>2. \A s \in stored : s.acc \in Accounts
    BY DEF IInv, Types, StoredOK
  <2> HIDE DEF new
  <2>3. \A s \in stored' : /\ s.table <= cur_table'
                           /\ HasRow(s.acc)' => s.table = row'[s.acc].table
                           /\ ~ HasRow(s.acc)' => s.pid = acc2pid'[s.acc] /\ s.pid # 0
    BY <1>1, <1>3, <1>5, <1>6, <1>7, <2>1, <2>2 DEF Kept, CopiesInv
  <2>4. \A s, x \in stored' : s.acc = x.acc => s = x
    BY <1>7, <2>1 DEF Kept, CopiesInv
  <2>5. ASSUME NEW b \in Accounts
        PROVE  /\ Saved(b)' => \E s \in stored' : s.acc = b /\ s.pid = row'[b].pid
               /\ ~ HasRow(b)' /\ acc2pid'[b] # 0 => \E s \in stored' : s.acc = b
    <3>1. CASE b = a
      <4>1. new \in stored' /\ new.acc = b /\ new.pid = row'[b].pid
        BY <1>3, <1>7, <2>1, <3>1
      <4> QED BY <4>1
    <3>2. CASE b # a
      <4>1. \A s \in stored : s.acc = b => s \in stored'
        BY <1>7, <3>2
      <4> QED BY <1>1, <1>3, <1>5, <3>2, <4>1 DEF Kept, CopiesInv
    <3> QED BY <3>1, <3>2
  <2> QED BY <2>3, <2>4, <2>5 DEF CopiesInv
<1>10. PendingInv'
  BY <1>1, <1>2, <1>3, <1>5, <1>6 DEF Kept, PendingInv
<1>11. ShutdownInv'
  BY <1>1, <1>2, <1>5, <1>6 DEF Kept, ShutdownInv
<1> QED BY <1>8, <1>9, <1>10, <1>11 DEF Kept

LEMMA FetchNewRowsSaves == ASSUME IInv, Kept, FetchNewRows PROVE Kept'
<1> DEFINE fetched == {a \in RowsIn(save.table, "m_new_rows") : <<save.table, a>> \notin loaded}
<1>1. /\ row' = [a \in Accounts |-> IF a \in fetched
                   THEN [row[a] EXCEPT !.place = "m_rows"] ELSE row[a]]
      /\ save' = [save EXCEPT !.at = IF @ = "rows" THEN "new" ELSE "lastNew", !.rows = fetched]
      /\ save.at \in {"rows", "lastRows"} /\ save.rows = {}
      /\ UNCHANGED <<acc2pid, cur_table, pass, loaded, alloc, quit, stored>>
  BY DEF FetchNewRows, tableVars, dbVars
<1>2. \A a \in Accounts :
        a \in fetched <=> row[a].place = "m_new_rows" /\ row[a].table = save.table
  <2>1. ASSUME NEW a \in Accounts, HasRow(a) PROVE <<save.table, a>> \notin loaded
    <3>1. <<save.table, a>>[2] = a
      OBVIOUS
    <3>2. <<save.table, a>> \in loaded => a \in {x[2] : x \in loaded}
      BY <3>1
    <3> QED BY <2>1, <3>2 DEF Kept, LoadedInv
  <2> QED BY <2>1 DEF RowsIn, HasRow
<1> HIDE DEF fetched
<1>3. /\ save'.at = IF save.at = "rows" THEN "new" ELSE "lastNew"
      /\ save'.tables = save.tables /\ save'.table = save.table /\ save'.rows = fetched
  BY <1>1 DEF IInv, Types, SaveOK
<1>4. \A a \in Accounts : /\ row'[a].table = row[a].table /\ row'[a].pid = row[a].pid
                          /\ row'[a].new = row[a].new /\ row'[a].changed = row[a].changed
                          /\ row'[a].place = IF a \in fetched THEN "m_rows" ELSE row[a].place
  BY <1>1 DEF IInv, Types, RowOK
<1>5. \A a \in Accounts : HasRow(a)' = HasRow(a)
  BY <1>2, <1>4 DEF HasRow
<1>6. \A a \in Accounts : a \notin fetched => row'[a] = row[a]
  BY <1>1
<1>7. \A a \in Accounts : /\ a \notin fetched => Saved(a)' = Saved(a)
                          /\ a \in fetched => ~ Saved(a) /\ Pending(a)'
                          /\ Pending(a) => Pending(a)'
  <2>1. ASSUME NEW a \in Accounts, a \in fetched PROVE ~ Saved(a) /\ Pending(a)'
    BY <1>1, <1>2, <1>3, <2>1 DEF Saved, Pending
  <2>2. ASSUME NEW a \in Accounts, a \notin fetched PROVE Saved(a)' = Saved(a)
    BY <1>6, <2>2 DEF Saved
  <2>3. ASSUME NEW a \in Accounts, Pending(a), a \notin fetched PROVE Pending(a)'
    BY <1>1, <1>2, <1>3, <1>6, <2>3 DEF Pending
  <2> QED BY <2>1, <2>2, <2>3
<1>8. RowsInv' /\ LoadedInv'
  BY <1>1, <1>4, <1>5 DEF Kept, RowsInv, LoadedInv
<1>9. CopiesInv'
  <2>1. \A s \in stored : s.acc \in Accounts
    BY DEF IInv, Types, StoredOK
  <2>2. ASSUME NEW a \in Accounts, Saved(a)'
        PROVE  \E s \in stored : s.acc = a /\ s.pid = row[a].pid
    <3>1. CASE a \in fetched
      <4>1. ~ row[a].new
        BY <2>2, <1>4 DEF Saved
      <4> QED BY <1>2, <3>1, <4>1 DEF Kept, RowsInv
    <3>2. CASE a \notin fetched
      BY <1>7, <2>2, <3>2 DEF Kept, CopiesInv
    <3> QED BY <3>1, <3>2
  <2> QED BY <1>1, <1>4, <1>5, <2>1, <2>2 DEF Kept, CopiesInv
<1>10. PendingInv'
  BY <1>1, <1>2, <1>3, <1>4, <1>5, <1>7 DEF Kept, PendingInv
<1>11. ShutdownInv'
  BY <1>1, <1>3, <1>4, <1>5, <1>7 DEF Kept, ShutdownInv
<1> QED BY <1>8, <1>9, <1>10, <1>11 DEF Kept

\* PreLoad finds in MySQL the id of every account, and nothing else.
LEMMA RestartSaves ==
  ASSUME IInv, Distinct, Kept, Restart, ~ CrashAnywhere
  PROVE  Kept' /\ acc2pid' = acc2pid
<1> DEFINE n == TableCount(maxStored)
<1>1. /\ quit /\ save.at = "idle" /\ quit' = FALSE /\ stored' = stored
      /\ acc2pid' = [a \in Accounts |-> PidIn(Read(n), a)]
      /\ cur_table' = n /\ pass' = {} /\ row' = [a \in Accounts |-> NoRow]
      /\ loaded' = {<<n, s.acc>> : s \in Read(n)}
           \cup {<<n + 1, s.acc>> : s \in {x \in stored : x.table = n + 1}}
      /\ alloc' = NoAlloc /\ save' = NoSave
  BY DEF Restart, dbVars
<1>2. /\ n \in Nat /\ TableSize * n \in Nat /\ maxStored \in Nat
      /\ maxStored <= TableSize * n
  <2>1. n \in Nat /\ maxStored \in Nat /\ maxStored <= TableSize * n
    BY Count DEF IInv, Types, NumbersOK
  <2> HIDE DEF n
  <2> QED BY <2>1
<1> HIDE DEF n
<1>3. \A s \in stored : /\ s.acc \in Accounts /\ s.table \in Nat /\ s.pid \in Nat
                        /\ s.pid = acc2pid[s.acc] /\ s.pid # 0
  <2> SUFFICES ASSUME NEW s \in stored
               PROVE  /\ s.acc \in Accounts /\ s.table \in Nat /\ s.pid \in Nat
                      /\ s.pid = acc2pid[s.acc] /\ s.pid # 0
    OBVIOUS
  <2> DEFINE a == s.acc
  <2>1. a \in Accounts /\ s.table \in Nat /\ s.pid \in Nat
    BY DEF IInv, Types, StoredOK
  <2>2. CASE HasRow(a)
    <3>1. alloc.at = "none" /\ Saved(a)
      BY <1>1, <2>1, <2>2 DEF Kept, ShutdownInv, Pending
    <3>2. row[a].pid = acc2pid[a] /\ acc2pid[a] # 0
      BY <2>1, <2>2, <3>1 DEF Kept, RowsInv
    <3>3. PICK x \in stored : x.acc = a /\ x.pid = row[a].pid
      BY <2>1, <3>1 DEF Kept, CopiesInv
    <3>4. x = s
      BY <3>3 DEF Kept, CopiesInv
    <3> QED BY <2>1, <3>2, <3>3, <3>4
  <2>3. CASE ~ HasRow(a)
    BY <2>1, <2>3 DEF Kept, CopiesInv
  <2> QED BY <2>2, <2>3
<1>4. \A s \in stored : s.table <= n
  <2> SUFFICES ASSUME NEW s \in stored PROVE s.table <= n
    OBVIOUS
  <2> DEFINE lo == TableSize * (s.table - 1)
  <2>1. s.table \in Nat /\ s.pid \in Nat \ {0} /\ lo < s.pid
    BY <1>3 DEF IInv, StoredFits, InItsTable
  <2>2. s.pid <= maxStored
    <3>1. s.acc \in Accounts /\ Gives(s.acc, s.pid)
      BY <1>3 DEF Gives
    <3>2. Top = maxStored
      BY <1>1 DEF Distinct, Stopped, Top
    <3> QED BY <2>1, <3>1, <3>2 DEF Distinct, Bounded
  <2>3. lo < TableSize * n
    <3>1. lo \in Int
      BY <2>1
    <3> HIDE DEF lo
    <3> QED BY <1>2, <2>1, <2>2, <3>1
  <2>4. CASE n < s.table
    <3> DEFINE d == s.table - 1 - n
    <3>1. d \in Nat /\ s.table - 1 = n + d
      BY <1>2, <2>1, <2>4
    <3>2. TableSize * d \in Nat /\ TableSize * (n + d) = TableSize * n + TableSize * d
      BY <1>2, <3>1
    <3>3. lo = TableSize * n + TableSize * d
      BY <3>1, <3>2
    <3> HIDE DEF lo, d
    <3> QED BY <1>2, <2>3, <3>2, <3>3
  <2> QED BY <1>2, <2>1, <2>4
<1>5. Read(n) = stored
  BY <1>4 DEF Read
<1>6. \A s, x \in stored : s.acc = x.acc => s = x
  BY DEF Kept, CopiesInv
<1>7. \A a \in Accounts : acc2pid[a] # 0 => \E s \in stored : s.acc = a
  <2> SUFFICES ASSUME NEW a \in Accounts, acc2pid[a] # 0 PROVE \E s \in stored : s.acc = a
    OBVIOUS
  <2>1. CASE HasRow(a)
    <3>1. Saved(a)
      BY <1>1, <2>1 DEF Kept, ShutdownInv, Pending
    <3> QED BY <3>1 DEF Kept, CopiesInv
  <2>2. CASE ~ HasRow(a)
    BY <2>2 DEF Kept, CopiesInv
  <2> QED BY <2>1, <2>2
<1>8. \A a \in Accounts : PidIn(Read(n), a) = acc2pid[a]
  <2> SUFFICES ASSUME NEW a \in Accounts PROVE PidIn(Read(n), a) = acc2pid[a]
    OBVIOUS
  <2> DEFINE mine == {s \in stored : s.acc = a}
  <2>1. CASE mine = {}
    <3>1. acc2pid[a] = 0
      BY <1>7, <2>1
    <3> QED BY <1>5, <2>1, <3>1 DEF PidIn
  <2>2. CASE mine # {}
    <3>1. PICK s \in mine : TRUE
      BY <2>2
    <3>2. mine = {s}
      BY <1>6, <3>1
    <3>3. (CHOOSE x \in mine : \A y \in mine : y.table <= x.table) = s
      <4>1. s.table <= s.table
        BY <1>3
      <4> QED BY <3>2, <4>1
    <3> QED BY <1>3, <1>5, <2>2, <3>1, <3>3 DEF PidIn
  <2> QED BY <2>1, <2>2
<1>9. acc2pid' = acc2pid
  BY <1>1, <1>8 DEF IInv, Types, NumbersOK
<1>10. \A a \in Accounts : ~ HasRow(a)' /\ ~ Saved(a)' /\ row'[a].place = "none"
  BY <1>1 DEF HasRow, Saved, NoRow
<1>11. alloc'.at = "none" /\ save'.rows = {}
  BY <1>1 DEF NoAlloc, NoSave
<1>12. RowsInv'
  BY <1>10, <1>11 DEF RowsInv
<1>13. CopiesInv'
  BY <1>1, <1>3, <1>4, <1>6, <1>7, <1>9, <1>10 DEF CopiesInv
<1>14. LoadedInv'
  <2>1. \A x \in loaded' : \E s \in stored : x[2] = s.acc
    BY <1>1, <1>5
  <2>2. \A a \in {x[2] : x \in loaded'} : acc2pid[a] # 0
    BY <1>3, <2>1
  <2> QED BY <1>9, <1>10, <2>2 DEF LoadedInv
<1>15. PendingInv' /\ ShutdownInv'
  BY <1>1, <1>10, <1>11 DEF PendingInv, ShutdownInv
<1> QED BY <1>9, <1>12, <1>13, <1>14, <1>15 DEF Kept

LEMMA StepSaves ==
  ~ CrashAnywhere /\ IInv /\ Distinct /\ Kept /\ [Next]_vars => Kept'
<1> SUFFICES ASSUME ~ CrashAnywhere, IInv, Distinct, Kept, [Next]_vars PROVE Kept'
  OBVIOUS
<1>1. CASE TryGetAccountPid
  BY <1>1, AddRowSaves, HandingOutSaves DEF TryGetAccountPid
<1>2. CASE LoopSaves \/ ShutdownSaves
  BY <1>2, SaveStepSaves
<1>3. CASE Save
  BY <1>3, SaveStepSaves, SaveRowSaves, FetchNewRowsSaves DEF Save
<1>4. CASE Restart
  BY <1>4, RestartSaves
<1>5. CASE UNCHANGED vars
  BY <1>5 DEF vars, tableVars, dbVars, Kept, RowsInv, CopiesInv, LoadedInv, PendingInv, ShutdownInv,
              HasRow, Saved, Pending
<1> QED BY <1>1, <1>2, <1>3, <1>4, <1>5 DEF Next

\* No step changes the id of an account, the start of the server included: what Save wrote, table
\* by table while ids were handed out and tables changed, is what PreLoad reads.  The process
\* stops in its Shutdown only.
THEOREM IdsAreKept ==
  ASSUME ~ CrashAnywhere
  PROVE  Spec => PidIsKept
<1> DEFINE Keeps == \A a \in Accounts : acc2pid[a] # 0 => acc2pid'[a] = acc2pid[a]
<1>1. Init => Kept
  BY InitiallyKept
<1>2. IInv /\ Distinct /\ Kept /\ [Next]_vars => Kept'
  BY StepSaves
<1>3. IInv /\ Distinct /\ Kept /\ [Next]_vars => [Keeps]_vars
  <2> SUFFICES ASSUME IInv, Distinct, Kept, Next PROVE Keeps
    OBVIOUS
  <2>1. CASE TryGetAccountPid
    <3>1. CASE UNCHANGED acc2pid
      BY <3>1
    <3>2. CASE SetPlayerId
      <4>1. PICK x \in Accounts : alloc.acc = x /\ alloc.at # "none"
        BY <3>2 DEF SetPlayerId, IInv, AllocInv
      <4>2. acc2pid[x] = 0 /\ acc2pid' = [acc2pid EXCEPT ![x] = alloc.pid]
        BY <3>2, <4>1 DEF SetPlayerId, Kept, RowsInv
      <4> QED BY <4>2 DEF IInv, Types, NumbersOK
    <3> QED BY <2>1, <3>1, <3>2 DEF TryGetAccountPid, AddRow, IncPlayerIdMax
  <2>2. CASE LoopSaves \/ ShutdownSaves \/ Save
    <3>1. UNCHANGED acc2pid
      BY <2>2 DEF LoopSaves, ShutdownSaves, SavePlayerIdMax, Save, PopPassTables, SaveTable,
                  SaveRow, FetchNewRows, TableSaved
    <3> QED BY <3>1
  <2>3. CASE Restart
    BY <2>3, RestartSaves
  <2> QED BY <2>1, <2>2, <2>3 DEF Next
<1> QED BY <1>1, <1>2, <1>3, Invariance, DistinctInvariance, PTL DEF Spec, PidIsKept
=============================================================================
