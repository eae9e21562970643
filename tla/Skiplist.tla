------------------------------ MODULE Skiplist ------------------------------
(***************************************************************************)
(* The skip list under every ranking list (libs/utils/skiplist.go): nodes  *)
(* of random height linked in both directions on each layer, each link     *)
(* with a span, the number of ranks it skips.  Its callers hold a lock, so *)
(* an operation is one step.                                               *)
(*                                                                         *)
(* An item stands for its sort key: items are totally ordered by Greater   *)
(* and KeyEqual is equality.  Left out: lengths_num and tail, which only   *)
(* the statistics of the test read, and DeleteByRank, which nothing calls  *)
(* (it would use the before_node of some earlier search).                  *)
(***************************************************************************)
EXTENDS Integers, FiniteSets

CONSTANTS Items,               \* the items, integers
          MAX_SKIPLIST_LAYER,  \* 32 in the code
          Head,                \* the head node
          Nil

ASSUME SkiplistAssumption ==
  /\ Items \subseteq Int /\ IsFiniteSet(Items)
  /\ MAX_SKIPLIST_LAYER \in Nat \ {0}
  /\ Head \notin Items
  /\ Nil \notin Items \cup {Head}

Layers == 0 .. MAX_SKIPLIST_LAYER - 1
Nodes  == Items \cup {Head}

VARIABLES
  height,      \* item -> layers of its node, 0 while it is not in the list
  next, prev,  \* node -> layer -> the neighbour there
  span,        \* node -> layer -> ranks between the node and its next
  curr_layer,
  curr_length

vars == <<height, next, prev, span, curr_layer, curr_length>>

TypeOK ==
  /\ height \in [Items -> 0 .. MAX_SKIPLIST_LAYER]
  /\ next \in [Nodes -> [Layers -> Items \cup {Nil}]]
  /\ prev \in [Items -> [Layers -> Nodes \cup {Nil}]]
  /\ span \in [Nodes -> [Layers -> Nat]]
  /\ curr_layer \in 1 .. MAX_SKIPLIST_LAYER
  /\ curr_length \in 0 .. Cardinality(Items)

Init ==
  /\ height = [v \in Items |-> 0]
  /\ next   = [n \in Nodes |-> [i \in Layers |-> Nil]]
  /\ prev   = [v \in Items |-> [i \in Layers |-> Nil]]
  /\ span   = [n \in Nodes |-> [i \in Layers |-> 0]]
  /\ curr_layer  = 1
  /\ curr_length = 0

InList == {v \in Items : height[v] > 0}
Active == 0 .. curr_layer - 1

\* The inner loop of a search on layer i: from each node, walk as long as the
\* next item is greater than v, and count the ranks passed.
Walk(i, v) ==
  LET walk[m \in Nodes] ==
        LET x == next[m][i] IN
        IF x # Nil /\ x > v
          THEN [node |-> walk[x].node, rank |-> span[m][i] + walk[x].rank]
          ELSE [node |-> m, rank |-> 0]
  IN walk

\* The descent of Insert, GetNode and GetRank: on each layer the last node
\* before v, and its rank.
Descent(v) ==
  LET at[i \in Active] ==
        LET from == IF i = curr_layer - 1 THEN [node |-> Head, rank |-> 0]
                                          ELSE at[i + 1]
            w == Walk(i, v)[from.node]
        IN [node |-> w.node, rank |-> from.rank + w.rank]
  IN at

\* GetNode
GetNode(v) == LET x == next[Descent(v)[0].node][0] IN IF x = v THEN x ELSE Nil

\* GetRank looks for v on each layer of the descent, from the top.
GetRank(v) ==
  LET at == Descent(v)
      hit == {i \in Active : next[at[i].node][i] = v}
  IN IF hit = {} THEN 0
     ELSE LET i == CHOOSE j \in hit : \A k \in hit : j >= k
          IN at[i].rank + span[at[i].node][i]

\* The inner loop of GetNodeByRank: from each node and its rank, walk as long as
\* the rank looked for is not passed.
WalkByRank(i, rank) ==
  LET walk[m \in Nodes] == [r \in 0 .. rank |->
        LET x == next[m][i] IN
        IF x # Nil /\ r + span[m][i] <= rank
          THEN walk[x][r + span[m][i]]
          ELSE [node |-> m, rank |-> r]]
  IN walk

\* It leaves the outer loop as soon as it is there.
DescentByRank(rank) ==
  LET at[i \in Active] ==
        IF i = curr_layer - 1 THEN WalkByRank(i, rank)[Head][0]
        ELSE IF at[i + 1].rank = rank THEN at[i + 1]
        ELSE WalkByRank(i, rank)[at[i + 1].node][at[i + 1].rank]
  IN at

GetNodeByRank(rank) == LET end == DescentByRank(rank)[0]
                       IN IF end.rank = rank THEN end.node ELSE Nil

\* A mutant: a link above the new node keeps its span.
SpanOverForgotten(s) == s

\* The link on a layer above the new node passes over one more rank.
SpanOver(s) == s + 1

\* A mutant: the next node still points back at the node before the new one.
PrevForgotten(n, i, v, before) == prev[n][i]

\* The node after the new node v points back at it.
PrevAfter(n, i, v, before) == IF n = next[before][i] THEN v ELSE prev[n][i]

\* Insert, with a node of height h (random_skiplist_layer).
Insert(v, h) ==
  /\ v \notin InList
  /\ LET top == IF h > curr_layer THEN h ELSE curr_layer
         at == Descent(v)
         before == [i \in 0 .. top - 1 |-> IF i \in Active THEN at[i].node ELSE Head]
         rank == [i \in 0 .. top - 1 |-> IF i \in Active THEN at[i].rank ELSE 0]
         old == [i \in 0 .. top - 1 |->
                   IF i \in Active THEN span[before[i]][i] ELSE curr_length]
         skipped(i) == rank[0] - rank[i]
     IN
     /\ next' = [n \in Nodes |-> [i \in Layers |->
          IF i >= h THEN next[n][i]
          ELSE IF n = v THEN next[before[i]][i]
          ELSE IF n = before[i] THEN v ELSE next[n][i]]]
     /\ prev' = [n \in Items |-> [i \in Layers |->
          IF i >= h THEN prev[n][i]
          ELSE IF n = v THEN before[i]
          ELSE PrevAfter(n, i, v, before[i])]]
     /\ span' = [n \in Nodes |-> [i \in Layers |->
          IF i >= top THEN span[n][i]
          ELSE IF n = v /\ i < h THEN old[i] - skipped(i)
          ELSE IF n = before[i] THEN (IF i < h THEN skipped(i) + 1 ELSE SpanOver(old[i]))
          ELSE span[n][i]]]
     /\ curr_layer' = top
  /\ height' = [height EXCEPT ![v] = h]
  /\ curr_length' = curr_length + 1

\* A mutant: the link keeps its span.
SpanUnderForgotten(s) == s

\* A link that passed over the deleted node passes over one rank less.
SpanUnder(s) == s - 1

\* A mutant: the last layer is given up like any other.
LowerToNothing(empty) == IF empty THEN curr_layer - 1 ELSE curr_layer

\* A mutant: the top layer is given up although it has nodes left.
LowerAlways(empty) == IF curr_layer > 1 THEN curr_layer - 1 ELSE curr_layer

\* The top layer is given up when it is empty, unless it is the only one.
Lowered(empty) == IF curr_layer > 1 /\ empty THEN curr_layer - 1 ELSE curr_layer

\* DeleteNode: unlink the node on its layers; on the layers above it the link
\* that passes over it gets shorter.  curr_layer drops by one at most.
DeleteNode(v) ==
  LET at == Descent(v)
      linked(i) == i \in Active /\ i < height[v]
  IN
  /\ next' = [n \in Nodes |-> [i \in Layers |->
       IF n = v THEN Nil
       ELSE IF linked(i) /\ n = prev[v][i] THEN next[v][i] ELSE next[n][i]]]
  /\ prev' = [n \in Items |-> [i \in Layers |->
       IF n = v THEN Nil
       ELSE IF linked(i) /\ n = next[v][i] THEN prev[v][i] ELSE prev[n][i]]]
  /\ span' = [n \in Nodes |-> [i \in Layers |->
       IF n = v THEN 0
       ELSE IF linked(i) /\ n = prev[v][i] THEN span[n][i] + span[v][i] - 1
       ELSE IF i \in Active /\ ~linked(i) /\ n = at[i].node THEN SpanUnder(span[n][i])
       ELSE span[n][i]]]
  /\ curr_layer' = Lowered(next'[Head][curr_layer - 1] = Nil)
  /\ height' = [height EXCEPT ![v] = 0]
  /\ curr_length' = curr_length - 1

\* Delete returns false, and changes nothing, when GetNode finds no node.
Delete(v) ==
  /\ curr_length > 0
  /\ GetNode(v) # Nil
  /\ DeleteNode(v)

Next == \E v \in Items :
  \/ \E h \in 1 .. MAX_SKIPLIST_LAYER : Insert(v, h)
  \/ Delete(v)

Spec == Init /\ [][Next]_vars

-----------------------------------------------------------------------------
(* Properties. *)

\* Looking up by rank is the inverse of GetRank, from the first rank to the
\* last, and finds nothing beyond: the spans of every layer agree.
ByRankIsInverse ==
  /\ \A v \in InList : GetNodeByRank(GetRank(v)) = v
  /\ \A r \in 1 .. Cardinality(Items) : (GetNodeByRank(r) = Nil) <=> (r > curr_length)

\* Nothing hangs above curr_layer, although DeleteNode lowers it by one layer
\* at most: an Insert that raises it again finds empty layers.
NothingAboveCurrLayer ==
  \A i \in Layers \ Active : next[Head][i] = Nil /\ \A v \in InList : height[v] <= i

\* Every layer can be walked back as it can be walked forth: DeleteNode unlinks
\* through prev and finds the right node.
PrevIsInverse ==
  \A n \in InList \cup {Head}, v \in InList, i \in Active :
    (next[n][i] = v) <=> (i < height[v] /\ prev[v][i] = n)

\* The list is the sorted set of its items: it loses none, Delete finds each,
\* and GetRank counts the items that are not smaller.
Sorted == INSTANCE SortedItems WITH
  items <- InList,
  ranks <- [v \in InList |-> GetRank(v)]
SortedItemsSpec == Sorted!Spec
=============================================================================
