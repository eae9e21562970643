---------------------------- MODULE SortedItems ----------------------------
(***************************************************************************)
(* What the skip list of libs/utils/skiplist.go promises: a set of items   *)
(* in which the rank of an item is the number of items that are not        *)
(* smaller, whatever heights its nodes were given.                         *)
(***************************************************************************)
EXTENDS Integers, FiniteSets

CONSTANT Items

VARIABLES items, \* the items in the list
          ranks  \* item in the list -> its rank, 1 for the greatest

RankIn(S, v) == Cardinality({w \in S : w >= v})

Init == items = {} /\ ranks = [v \in {} |-> 0]

Put(S) == /\ items' = S
          /\ ranks' = [v \in S |-> RankIn(S, v)]

Insert(v) == v \notin items /\ Put(items \cup {v})
Delete(v) == v \in items /\ Put(items \ {v})

Next == \E v \in Items : Insert(v) \/ Delete(v)

Spec == Init /\ [][Next]_<<items, ranks>>
=============================================================================
