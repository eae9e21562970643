---------------------------- MODULE DurableRows ----------------------------
(***************************************************************************)
(* What the row cache of a_db_tables.go promises to its users: the         *)
(* database holds, for every key, a whole-row snapshot of the row in       *)
(* memory, and only ever moves to a later one.  A crash throws away what   *)
(* was not committed and nothing else.                                     *)
(***************************************************************************)
CONSTANTS Keys, Cols, Vals, ZeroVal, None

VARIABLES mem,   \* key -> the row as the handlers see it, or None
          snap,  \* key -> the snapshot on its way to the database, or None
          disk   \* key -> the row in the database, or None

vars == <<mem, snap, disk>>

Content == [Cols -> Vals]

Init == /\ mem  = [k \in Keys |-> None]
        /\ snap = [k \in Keys |-> None]
        /\ disk = [k \in Keys |-> None]

Create(k) == /\ mem[k] = None
             /\ mem' = [mem EXCEPT ![k] = [c \in Cols |-> ZeroVal]]
             /\ UNCHANGED <<snap, disk>>

Write(k, c, v) == /\ mem[k] # None
                  /\ mem' = [mem EXCEPT ![k] = [mem[k] EXCEPT ![c] = v]]
                  /\ UNCHANGED <<snap, disk>>

\* One snapshot per key at a time: a later one never overtakes an earlier one.
Flush(k) == /\ mem[k] # None
            /\ snap[k] = None
            /\ snap' = [snap EXCEPT ![k] = mem[k]]
            /\ UNCHANGED <<mem, disk>>

Commit(k) == /\ snap[k] # None
             /\ disk' = [disk EXCEPT ![k] = snap[k]]
             /\ snap' = [snap EXCEPT ![k] = None]
             /\ UNCHANGED mem

Crash == /\ mem'  = disk
         /\ snap' = [k \in Keys |-> None]
         /\ UNCHANGED disk

Next == \/ \E k \in Keys : Create(k) \/ Flush(k) \/ Commit(k)
        \/ \E k \in Keys, c \in Cols, v \in Vals : Write(k, c, v)
        \/ Crash

Spec == Init /\ [][Next]_vars
=============================================================================
