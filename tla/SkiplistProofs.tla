--------------------------- MODULE SkiplistProofs ---------------------------
(***************************************************************************)
(* Proofs about Skiplist, for any number of items and of layers: links,    *)
(* back links, spans and layers agree after any inserts and deletes, ranks *)
(* and look-ups by rank are inverse to each other, and the list implements *)
(* SortedItems.                                                            *)
(*                                                                         *)
(* The items of a layer are a set here, Level(i), and each pointer of the  *)
(* layer is described by that set: next is the greatest of the smaller     *)
(* items, a span the number of items that it passes.  With these a search  *)
(* has a closed form, so that its loops (recursive functions in the model) *)
(* can be reasoned away: the closed form solves the recursion, and by      *)
(* induction along the list nothing else does.                             *)
(***************************************************************************)
EXTENDS Skiplist, FiniteSetTheorems, WellFoundedInduction, TLAPS

-----------------------------------------------------------------------------
(* Numbers. *)

\* A set of natural numbers that is not empty has a least one.
LEMMA LeastNatural ==
  ASSUME NEW S \in SUBSET Nat, S # {}
  PROVE  \E m \in S : \A j \in S : m <= j
<1> DEFINE Initial == {1 .. j : j \in S}
<1>1. ASSUME NEW j \in Nat PROVE 1 .. j \in FiniteSubsetsOf(Nat)
  BY FS_Interval DEF FiniteSubsetsOf
<1>2. Initial \subseteq FiniteSubsetsOf(Nat) /\ Initial # {}
  BY <1>1
<1>3. PICK x \in Initial : \A y \in Initial : <<y, x>> \notin StrictSubsetOrdering(Nat)
  <2> HIDE DEF Initial
  <2> QED BY <1>2, WFMin, FS_StrictSubsetOrderingWellFounded
<1>4. PICK m \in S : x = 1 .. m
  BY <1>3
<1>5. ASSUME NEW j \in S, j < m PROVE FALSE
  <2>1. 1 .. j \in Initial /\ 1 .. j \subseteq Nat /\ 1 .. m \subseteq Nat
    OBVIOUS
  <2>2. 1 .. j \subseteq 1 .. m
    BY <1>5
  <2>3. m \in 1 .. m /\ m \notin 1 .. j
    BY <1>5
  <2>4. <<1 .. j, 1 .. m>> \in StrictSubsetOrdering(Nat)
    BY <2>1, <2>2, <2>3 DEF StrictSubsetOrdering
  <2> QED BY <1>3, <1>4, <2>1, <2>4
<1> QED BY <1>5

LEMMA Constants ==
  /\ Items \subseteq Int /\ IsFiniteSet(Items)
  /\ Head \notin Items /\ Nil \notin Items /\ Nil # Head
  /\ MAX_SKIPLIST_LAYER \in Nat /\ MAX_SKIPLIST_LAYER >= 1
BY SkiplistAssumption DEF SkiplistAssumption

LEMMA FiniteItems ==
  ASSUME NEW S \in SUBSET Items
  PROVE  IsFiniteSet(S) /\ Cardinality(S) \in Nat
BY Constants, FS_Subset, FS_CardinalityType

\* A strict subset has less elements.
LEMMA FewerItems ==
  ASSUME NEW S \in SUBSET Items, NEW T \in SUBSET S
  PROVE  /\ Cardinality(T) <= Cardinality(S)
         /\ T # S => Cardinality(T) < Cardinality(S)
<1>1. IsFiniteSet(S) /\ T \subseteq S
  BY FiniteItems
<1>2. /\ IsFiniteSet(T) /\ Cardinality(T) <= Cardinality(S)
      /\ Cardinality(S) = Cardinality(T) => S = T
  BY <1>1, FS_Subset
<1>3. Cardinality(S) \in Nat /\ Cardinality(T) \in Nat
  BY <1>1, FiniteItems
<1> QED BY <1>2, <1>3

LEMMA OneMore ==
  ASSUME NEW S \in SUBSET Items, NEW v \in Items \ S
  PROVE  Cardinality(S \cup {v}) = Cardinality(S) + 1
BY FiniteItems, FS_AddElement

\* A set of items that is not empty has a least one.
LEMMA LeastItem ==
  ASSUME NEW S \in SUBSET Items, S # {}
  PROVE  \E m \in S : \A w \in S : w >= m
<1> DEFINE below(s) == {w \in S : w <= s}
           counts == {Cardinality(below(s)) : s \in S}
<1>1. ASSUME NEW s \in S PROVE below(s) \in SUBSET Items /\ Cardinality(below(s)) \in Nat
  BY FiniteItems
<1>2. counts \in SUBSET Nat /\ counts # {}
  BY <1>1
<1>3. PICK c \in counts : \A d \in counts : c <= d
  <2> HIDE DEF counts
  <2> QED BY <1>2, LeastNatural
<1>4. PICK m \in S : c = Cardinality(below(m))
  BY <1>3
<1>5. ASSUME NEW w \in S, ~(w >= m) PROVE FALSE
  <2>1. w \in Int /\ m \in Int /\ w < m
    BY <1>5, Constants
  <2>2. below(w) \subseteq below(m)
    <3> SUFFICES ASSUME NEW x \in S, x <= w PROVE x <= m
      OBVIOUS
    <3>1. x \in Int
      BY Constants
    <3> QED BY <2>1, <3>1
  <2>3. m \in below(m) /\ m \notin below(w)
    BY <2>1
  <2>4. Cardinality(below(w)) < Cardinality(below(m))
    <3> HIDE DEF below
    <3> QED BY <1>1, <2>2, <2>3, FewerItems
  <2>5. Cardinality(below(m)) <= Cardinality(below(w))
    BY <1>3, <1>4
  <2> QED BY <1>1, <2>4, <2>5
<1> QED BY <1>5

-----------------------------------------------------------------------------
(* The items of a layer, and where a node stands among them. *)

Level(i) == {v \in Items : height[v] > i}

\* Is the node n before the item v?
Before(n, v) == n = Head \/ n > v

\* x is what follows n among the items S.
IsNext(S, n, x) ==
  \/ x = Nil /\ \A w \in S : ~Before(n, w)
  \/ x \in S /\ Before(n, x) /\ \A w \in S : Before(n, w) => w <= x

\* n is the last node before v, where a search for v ends.
IsLast(S, v, n) ==
  /\ n \in S \cup {Head}
  /\ Before(n, v)
  /\ \A w \in S : w > v => n # Head /\ w >= n

\* The items that are not smaller, and how many there are.
AtLeast(S, n) == IF n = Head THEN {} ELSE {w \in S : w >= n}
Count(S, n) == Cardinality(AtLeast(S, n))
CountTo(S, x) == IF x = Nil THEN Cardinality(S) ELSE Count(S, x)

\* The rank of a node, and the rank that a link to x leads to.
RankOf(n) == Count(InList, n)
RankTo(x) == IF x = Nil THEN curr_length ELSE RankOf(x)

LEMMA ItemsAreNumbers ==
  ASSUME NEW n \in Items
  PROVE  n \in Int /\ n # Head /\ n # Nil
BY Constants

LEMMA LastExists ==
  ASSUME NEW S \in SUBSET Items, NEW v \in Items
  PROVE  \E n \in S \cup {Head} : IsLast(S, v, n)
<1> DEFINE T == {w \in S : w > v}
<1>1. CASE T = {}
  BY <1>1 DEF IsLast, Before
<1>2. CASE T # {}
  <2>1. T \in SUBSET Items
    OBVIOUS
  <2>2. PICK m \in T : \A w \in T : w >= m
    <3> HIDE DEF T
    <3> QED BY <1>2, <2>1, LeastItem
  <2>3. m \in S /\ m > v /\ m # Head
    BY <2>2, Constants
  <2> QED BY <2>2, <2>3 DEF IsLast, Before
<1> QED BY <1>1, <1>2

LEMMA LastUnique ==
  ASSUME NEW S \in SUBSET Items, NEW v \in Items, NEW n, NEW m,
         IsLast(S, v, n), IsLast(S, v, m)
  PROVE  n = m
<1>1. n \in S \cup {Head} /\ m \in S \cup {Head}
  BY DEF IsLast
<1>2. CASE n = Head \/ m = Head
  BY <1>1, <1>2, Constants DEF IsLast, Before
<1>3. CASE n # Head /\ m # Head
  <2>1. n \in S /\ m \in S /\ n \in Int /\ m \in Int
    BY <1>1, <1>3, Constants
  <2>2. n >= m /\ m >= n
    BY <1>3, <2>1 DEF IsLast, Before
  <2> QED BY <2>1, <2>2
<1> QED BY <1>2, <1>3

\* A node before v is the last one just when what follows it is not before v.
LEMMA LastByNext ==
  ASSUME NEW S \in SUBSET Items, NEW v \in Items, NEW n \in S \cup {Head}, NEW x,
         IsNext(S, n, x), Before(n, v)
  PROVE  /\ x # Nil /\ x > v => x \in S /\ Before(x, v)
         /\ ~(x # Nil /\ x > v) <=> IsLast(S, v, n)
<1>1. v \in Int /\ S \subseteq Int /\ Head \notin S /\ Nil \notin S
  BY Constants
<1>2. x = Nil \/ x \in S
  BY DEF IsNext
<1>3. CASE x # Nil /\ x > v
  <2>1. x \in S /\ Before(n, x)
    BY <1>3 DEF IsNext
  <2>2. ~IsLast(S, v, n)
    <3>1. CASE n = Head
      BY <1>3, <2>1, <3>1 DEF IsLast
    <3>2. CASE n # Head
      BY <1>1, <1>3, <2>1, <3>2 DEF IsLast, Before
    <3> QED BY <3>1, <3>2
  <2> QED BY <1>3, <2>1, <2>2 DEF Before
<1>4. CASE ~(x # Nil /\ x > v)
  <2>1. ASSUME NEW w \in S, w > v PROVE n # Head /\ w >= n
    <3>1. ~Before(n, w)
      <4>1. CASE x = Nil
        BY <1>1, <4>1 DEF IsNext
      <4>2. CASE x \in S
        <5>1. x \in Int /\ w \in Int /\ x # Nil
          BY <1>1, <4>2
        <5>2. x <= v /\ ~(w <= x)
          BY <1>1, <1>4, <2>1, <5>1
        <5> QED BY <5>1, <5>2 DEF IsNext
      <4> QED BY <1>2, <4>1, <4>2
    <3> QED BY <1>1, <3>1 DEF Before
  <2>2. IsLast(S, v, n)
    BY <2>1 DEF IsLast
  <2> QED BY <1>4, <2>2
<1> QED BY <1>3, <1>4

\* Two nodes are not followed by the same item.
LEMMA NextInjective ==
  ASSUME NEW S \in SUBSET Items, NEW n \in S \cup {Head}, NEW m \in S \cup {Head},
         NEW v \in S, IsNext(S, n, v), IsNext(S, m, v)
  PROVE  n = m
<1>1. v \in Items /\ v \in Int /\ v # Nil
  BY Constants
<1>2. Before(n, v) /\ Before(m, v) /\ ~(v > v)
  BY <1>1 DEF IsNext
<1>3. IsLast(S, v, n) /\ IsLast(S, v, m)
  BY <1>1, <1>2, LastByNext
<1> QED BY <1>1, <1>3, LastUnique

\* The last node before an item of the layer is followed by the item.
LEMMA LastIsFollowed ==
  ASSUME NEW S \in SUBSET Items, NEW v \in S, NEW n, NEW x, IsLast(S, v, n), IsNext(S, n, x)
  PROVE  x = v
<1>1. n \in S \cup {Head} /\ Before(n, v) /\ v \in Items /\ S \subseteq Int
  BY Constants DEF IsLast
<1>2. ~(x # Nil /\ x > v)
  BY <1>1, LastByNext
<1>3. x \in S /\ v <= x
  BY <1>1 DEF IsNext
<1> QED BY <1>1, <1>2, <1>3, Constants

\* It is what precedes the item there.
LEMMA FollowedIsLast ==
  ASSUME NEW S \in SUBSET Items, NEW v \in S, NEW n \in S \cup {Head}, IsNext(S, n, v)
  PROVE  IsLast(S, v, n)
<1>1. v \in Items /\ v \in Int /\ v # Nil
  BY Constants
<1>2. Before(n, v) /\ ~(v > v)
  BY <1>1 DEF IsNext
<1> QED BY <1>1, <1>2, LastByNext
-----------------------------------------------------------------------------
(* The invariant. *)

LinksOK ==
  \A i \in Layers : \A n \in Level(i) \cup {Head} : IsNext(Level(i), n, next[n][i])

BacksOK ==
  \A i \in Layers : \A v \in Level(i) :
    prev[v][i] \in Level(i) \cup {Head} /\ next[prev[v][i]][i] = v

\* A node has no links above its height.
NoLinks == \A i \in Layers : \A n \in Items \ Level(i) : next[n][i] = Nil

\* Behind the last item of a layer a span counts to the end of the list.
SpansOK ==
  \A i \in Active : \A n \in Level(i) \cup {Head} :
    span[n][i] = RankTo(next[n][i]) - RankOf(n)

HeightsOK == \A v \in Items : height[v] <= curr_layer

LengthOK == curr_length = Cardinality(InList)

IInv == TypeOK /\ LinksOK /\ BacksOK /\ NoLinks /\ SpansOK /\ HeightsOK /\ LengthOK

\* The layers, their items and their numbers.
LEMMA LayerFacts ==
  ASSUME IInv
  PROVE  /\ curr_layer \in Nat /\ curr_layer >= 1 /\ curr_layer <= MAX_SKIPLIST_LAYER
         /\ curr_length \in Nat
         /\ Active \subseteq Layers /\ 0 \in Active /\ curr_layer - 1 \in Active
         /\ InList \in SUBSET Items /\ Level(0) = InList
         /\ \A i \in Layers : i \in Nat /\ Level(i) \in SUBSET InList
         /\ \A i \in Layers : i \notin Active => Level(i) = {}
<1>1. /\ curr_layer \in Nat /\ curr_layer >= 1 /\ curr_layer <= MAX_SKIPLIST_LAYER
  BY Constants DEF IInv, TypeOK
<1>2. curr_length \in Nat
  BY FiniteItems DEF IInv, LengthOK, InList
<1>3. Active \subseteq Layers /\ 0 \in Active /\ curr_layer - 1 \in Active
  BY <1>1, Constants DEF Active, Layers
<1>4. \A v \in Items : height[v] \in Nat
  BY Constants DEF IInv, TypeOK
<1>5. InList \in SUBSET Items /\ Level(0) = InList
  BY <1>4 DEF InList, Level
<1>6. ASSUME NEW i \in Layers PROVE i \in Nat /\ Level(i) \in SUBSET InList
  <2>1. i \in Nat
    BY Constants DEF Layers
  <2>2. ASSUME NEW v \in Items, height[v] > i PROVE height[v] > 0
    BY <1>4, <2>1, <2>2
  <2> QED BY <2>1, <2>2 DEF Level, InList
<1>7. ASSUME NEW i \in Layers, i \notin Active PROVE Level(i) = {}
  <2>1. i \in Nat /\ i >= curr_layer
    BY <1>1, <1>6, <1>7 DEF Active
  <2>2. ASSUME NEW v \in Items, height[v] > i PROVE FALSE
    BY <1>1, <1>4, <2>1, <2>2 DEF IInv, HeightsOK
  <2> QED BY <2>2 DEF Level
<1> QED BY <1>1, <1>2, <1>3, <1>5, <1>6, <1>7

LEMMA RankType ==
  ASSUME IInv, NEW n \in Items \cup {Head}
  PROVE  RankOf(n) \in Nat
<1>1. AtLeast(InList, n) \in SUBSET Items
  BY LayerFacts DEF AtLeast
<1> QED BY <1>1, FiniteItems DEF RankOf, Count

LEMMA HeadRank == RankOf(Head) = 0
BY FS_EmptySet DEF RankOf, Count, AtLeast

\* The spans of a layer, as types and as differences of ranks.
LEMMA SpanFacts ==
  ASSUME IInv, NEW i \in Active, NEW n \in Level(i) \cup {Head}
  PROVE  /\ n \in Nodes /\ n \in Items \cup {Head} /\ RankOf(n) \in Nat
         /\ IsNext(Level(i), n, next[n][i])
         /\ next[n][i] \in Level(i) \cup {Nil}
         /\ span[n][i] \in Nat
         /\ span[n][i] = RankTo(next[n][i]) - RankOf(n)
         /\ next[n][i] # Nil =>
              span[n][i] = RankOf(next[n][i]) - RankOf(n) /\ RankOf(next[n][i]) \in Nat
<1>1. i \in Layers /\ Level(i) \in SUBSET Items
  BY LayerFacts
<1>2. n \in Nodes /\ n \in Items \cup {Head}
  BY <1>1 DEF Nodes
<1>3. RankOf(n) \in Nat
  BY <1>2, RankType
<1>4. IsNext(Level(i), n, next[n][i])
  BY <1>1 DEF IInv, LinksOK
<1>5. next[n][i] \in Level(i) \cup {Nil}
  BY <1>4 DEF IsNext
<1>6. span[n][i] = RankTo(next[n][i]) - RankOf(n)
  BY DEF IInv, SpansOK
<1>7. span[n][i] \in Nat
  BY <1>1, <1>2 DEF IInv, TypeOK
<1>8. next[n][i] # Nil => RankOf(next[n][i]) \in Nat
  BY <1>1, <1>5, RankType
<1> QED BY <1>2, <1>3, <1>4, <1>5, <1>6, <1>7, <1>8 DEF RankTo

-----------------------------------------------------------------------------
(* The search: where Walk and Descent end. *)

LastOf(i, v) == CHOOSE n : IsLast(Level(i), v, n)

LEMMA LastOfIsLast ==
  ASSUME IInv, NEW i \in Layers, NEW v \in Items
  PROVE  /\ IsLast(Level(i), v, LastOf(i, v))
         /\ LastOf(i, v) \in Level(i) \cup {Head}
         /\ \A n : IsLast(Level(i), v, n) => n = LastOf(i, v)
<1>1. Level(i) \in SUBSET Items
  BY LayerFacts
<1>2. \E n : IsLast(Level(i), v, n)
  BY <1>1, LastExists
<1>3. IsLast(Level(i), v, LastOf(i, v))
  BY <1>2 DEF LastOf
<1>4. \A n : IsLast(Level(i), v, n) => n = LastOf(i, v)
  BY <1>1, <1>3, LastUnique
<1>5. LastOf(i, v) \in Level(i) \cup {Head}
  BY <1>3 DEF IsLast
<1> QED BY <1>3, <1>4, <1>5

WalkStep(f, i, v, m) ==
  IF next[m][i] # Nil /\ next[m][i] > v
    THEN [node |-> f[next[m][i]].node, rank |-> span[m][i] + f[next[m][i]].rank]
    ELSE [node |-> m, rank |-> 0]

WalkClosed(i, v) ==
  [m \in Nodes |->
     IF m \in Level(i) \cup {Head} /\ Before(m, v)
       THEN [node |-> LastOf(i, v), rank |-> RankOf(LastOf(i, v)) - RankOf(m)]
       ELSE [node |-> m, rank |-> 0]]

LEMMA WalkIsSolution ==
  ASSUME NEW i, NEW v, NEW g, g = [m \in Nodes |-> WalkStep(g, i, v, m)]
  PROVE  Walk(i, v) = [m \in Nodes |-> WalkStep(Walk(i, v), i, v, m)]
<1>1. Walk(i, v) = CHOOSE f : f = [m \in Nodes |-> WalkStep(f, i, v, m)]
  BY DEF Walk, WalkStep
<1> QED BY <1>1

LEMMA WalkClosedSolves ==
  ASSUME IInv, NEW i \in Active, NEW v \in Items
  PROVE  WalkClosed(i, v) = [m \in Nodes |-> WalkStep(WalkClosed(i, v), i, v, m)]
<1> DEFINE S == Level(i)
           L == LastOf(i, v)
           g == WalkClosed(i, v)
<1>1. i \in Layers /\ S \in SUBSET Items
  BY LayerFacts
<1>2. IsLast(S, v, L) /\ L \in S \cup {Head} /\ \A n : IsLast(S, v, n) => n = L
  BY <1>1, LastOfIsLast
<1>3. RankOf(L) \in Nat
  BY <1>1, <1>2, RankType
<1>4. ASSUME NEW m \in Nodes, m \in S \cup {Head}, Before(m, v)
      PROVE  g[m] = [node |-> L, rank |-> RankOf(L) - RankOf(m)]
  BY <1>4 DEF WalkClosed
<1>5. ASSUME NEW m \in Nodes, ~(m \in S \cup {Head} /\ Before(m, v))
      PROVE  g[m] = [node |-> m, rank |-> 0]
  BY <1>5 DEF WalkClosed
<1> HIDE DEF g, L
<1>6. ASSUME NEW m \in Nodes PROVE g[m] = WalkStep(g, i, v, m)
  <2> DEFINE x == next[m][i]
  <2>1. CASE m \in S \cup {Head} /\ Before(m, v)
    <3>1. /\ RankOf(m) \in Nat /\ IsNext(S, m, x) /\ x \in S \cup {Nil}
          /\ x # Nil => span[m][i] = RankOf(x) - RankOf(m) /\ RankOf(x) \in Nat
      BY <2>1, SpanFacts
    <3>2. /\ x # Nil /\ x > v => x \in S /\ Before(x, v)
          /\ ~(x # Nil /\ x > v) <=> IsLast(S, v, m)
      <4> HIDE DEF S, x
      <4> QED BY <1>1, <2>1, <3>1, LastByNext
    <3>3. CASE x # Nil /\ x > v
      <4>1. x \in Nodes /\ x \in S \cup {Head} /\ Before(x, v)
        BY <1>1, <3>2, <3>3 DEF Nodes
      <4>2. g[x] = [node |-> L, rank |-> RankOf(L) - RankOf(x)]
        BY <1>4, <4>1
      <4>3. span[m][i] + (RankOf(L) - RankOf(x)) = RankOf(L) - RankOf(m)
        BY <1>3, <3>1, <3>3
      <4>4. WalkStep(g, i, v, m) = [node |-> L, rank |-> RankOf(L) - RankOf(m)]
        BY <3>3, <4>2, <4>3 DEF WalkStep
      <4> QED BY <1>4, <2>1, <4>4
    <3>4. CASE ~(x # Nil /\ x > v)
      <4>1. m = L
        BY <1>2, <3>2, <3>4
      <4>2. RankOf(L) - RankOf(m) = 0
        BY <1>3, <4>1
      <4>3. WalkStep(g, i, v, m) = [node |-> m, rank |-> 0]
        BY <3>4 DEF WalkStep
      <4> QED BY <1>4, <2>1, <4>1, <4>2, <4>3
    <3> QED BY <3>3, <3>4
  <2>2. CASE m \in S \cup {Head} /\ ~Before(m, v)
    <3>1. m \in S /\ m \in Int /\ ~(m > v) /\ IsNext(S, m, x)
      BY <1>1, <2>2, SpanFacts, Constants DEF Before
    <3>2. x = Nil \/ (x \in Int /\ ~(x > v))
      <4>1. CASE x = Nil
        BY <4>1
      <4>2. CASE x \in S /\ Before(m, x)
        <5>1. x \in Int /\ v \in Int /\ m # Head
          BY <1>1, <3>1, <4>2, Constants
        <5> QED BY <3>1, <4>2, <5>1 DEF Before
      <4> QED BY <3>1, <4>1, <4>2 DEF IsNext
    <3>3. WalkStep(g, i, v, m) = [node |-> m, rank |-> 0]
      BY <3>2 DEF WalkStep
    <3> QED BY <1>5, <2>2, <3>3
  <2>3. CASE m \notin S \cup {Head}
    <3>1. x = Nil
      BY <1>1, <2>3 DEF Nodes, IInv, NoLinks
    <3> QED BY <1>5, <2>3, <3>1 DEF WalkStep
  <2> QED BY <2>1, <2>2, <2>3
<1>7. g = [m \in Nodes |-> g[m]]
  BY DEF g, WalkClosed
<1>8. g = [m \in Nodes |-> WalkStep(g, i, v, m)]
  BY <1>6, <1>7
<1> QED BY <1>8 DEF g

\* On each layer a walk from a node before v ends at the last node before v, and
\* has counted the ranks between the two.
LEMMA WalkEnds ==
  ASSUME IInv, NEW i \in Active, NEW v \in Items, NEW n \in Level(i) \cup {Head}, Before(n, v)
  PROVE  Walk(i, v)[n] = [node |-> LastOf(i, v), rank |-> RankOf(LastOf(i, v)) - RankOf(n)]
<1> DEFINE S == Level(i)
           f == Walk(i, v)
           g == WalkClosed(i, v)
           bad == {m \in S : f[m] # g[m]}
<1>1. i \in Layers /\ S \in SUBSET Items /\ S \subseteq Nodes /\ Head \in Nodes
  BY LayerFacts DEF Nodes
<1>2. g = [m \in Nodes |-> WalkStep(g, i, v, m)]
  BY WalkClosedSolves
<1>3. f = [m \in Nodes |-> WalkStep(f, i, v, m)]
  BY <1>2, WalkIsSolution
<1>4. ASSUME NEW m \in S \cup {Head},
             \A x \in S : x = next[m][i] /\ Before(m, x) => f[x] = g[x]
      PROVE  f[m] = g[m]
  <2> HIDE DEF f, g
  <2>1. m \in Nodes
    BY <1>1
  <2>2. f[m] = WalkStep(f, i, v, m) /\ g[m] = WalkStep(g, i, v, m)
    BY <1>2, <1>3, <2>1
  <2>3. IsNext(S, m, next[m][i])
    BY SpanFacts
  <2>4. next[m][i] = Nil \/ f[next[m][i]] = g[next[m][i]]
    BY <1>4, <2>3 DEF IsNext
  <2> QED BY <2>2, <2>4 DEF WalkStep
<1>5. bad = {}
  <2> SUFFICES ASSUME bad # {} PROVE FALSE
    OBVIOUS
  <2>1. bad \in SUBSET Items
    BY <1>1
  <2>2. PICK m \in bad : \A w \in bad : w >= m
    <3> HIDE DEF bad
    <3> QED BY <2>1, LeastItem
  <2>3. m \in S /\ f[m] # g[m]
    BY <2>2
  <2>4. ASSUME NEW x \in S, Before(m, x) PROVE f[x] = g[x]
    <3>1. m \in Int /\ x \in Int /\ m # Head
      BY <1>1, <2>3, Constants
    <3>2. ~(x >= m)
      BY <2>4, <3>1 DEF Before
    <3> QED BY <2>2, <3>2
  <2> QED BY <1>4, <2>3, <2>4
<1>6. f[n] = g[n]
  BY <1>4, <1>5
<1>7. n \in Nodes
  BY <1>1
<1> QED BY <1>6, <1>7 DEF WalkClosed

\* A search goes on below from where it ended: the node is before v there too.
LEMMA StartOfLayer ==
  ASSUME IInv, NEW i \in Active, i # curr_layer - 1, NEW v \in Items
  PROVE  /\ i + 1 \in Active
         /\ LastOf(i + 1, v) \in Level(i) \cup {Head}
         /\ Before(LastOf(i + 1, v), v)
<1>1. i + 1 \in Active /\ i \in Nat
  BY LayerFacts DEF Active
<1>2. i \in Layers /\ i + 1 \in Layers
  BY <1>1, LayerFacts
<1>3. ASSUME NEW w \in Items, height[w] > i + 1 PROVE height[w] > i
  <2>1. height[w] \in Nat
    BY Constants DEF IInv, TypeOK
  <2> QED BY <1>1, <1>3, <2>1
<1>4. Level(i + 1) \subseteq Level(i)
  BY <1>3 DEF Level
<1>5. LastOf(i + 1, v) \in Level(i + 1) \cup {Head} /\ Before(LastOf(i + 1, v), v)
  BY <1>2, LastOfIsLast DEF IsLast
<1> QED BY <1>1, <1>4, <1>5

DescentStep(f, v, i) ==
  LET from == IF i = curr_layer - 1 THEN [node |-> Head, rank |-> 0] ELSE f[i + 1]
      w == Walk(i, v)[from.node]
  IN [node |-> w.node, rank |-> from.rank + w.rank]

DescentClosed(v) ==
  [i \in Active |-> [node |-> LastOf(i, v), rank |-> RankOf(LastOf(i, v))]]

LEMMA DescentIsSolution ==
  ASSUME NEW v, NEW g, g = [i \in Active |-> DescentStep(g, v, i)]
  PROVE  Descent(v) = [i \in Active |-> DescentStep(Descent(v), v, i)]
<1>1. Descent(v) = CHOOSE f : f = [i \in Active |-> DescentStep(f, v, i)]
  BY DEF Descent, DescentStep
<1> QED BY <1>1

\* One layer of the descent, from where the layer above has ended.
LEMMA DescentStepEnds ==
  ASSUME IInv, NEW v \in Items, NEW i \in Active, NEW f,
         i # curr_layer - 1 =>
           f[i + 1] = [node |-> LastOf(i + 1, v), rank |-> RankOf(LastOf(i + 1, v))]
  PROVE  DescentStep(f, v, i) = [node |-> LastOf(i, v), rank |-> RankOf(LastOf(i, v))]
<1> DEFINE L == LastOf(i, v)
<1>1. L \in Items \cup {Head} /\ RankOf(L) \in Nat
  <2>1. L \in Items \cup {Head}
    BY LayerFacts, LastOfIsLast
  <2> QED BY <2>1, RankType
<1>2. CASE i = curr_layer - 1
  <2>1. Head \in Level(i) \cup {Head} /\ Before(Head, v)
    BY DEF Before
  <2>2. Walk(i, v)[Head] = [node |-> L, rank |-> RankOf(L) - RankOf(Head)]
    BY <2>1, WalkEnds
  <2>3. 0 + (RankOf(L) - RankOf(Head)) = RankOf(L)
    BY <1>1, HeadRank
  <2>4. DescentStep(f, v, i) = [node |-> L, rank |-> 0 + (RankOf(L) - RankOf(Head))]
    BY <1>2, <2>2 DEF DescentStep
  <2> QED BY <2>3, <2>4
<1>3. CASE i # curr_layer - 1
  <2> DEFINE from == LastOf(i + 1, v)
  <2>1. from \in Level(i) \cup {Head} /\ Before(from, v)
    BY <1>3, StartOfLayer
  <2>2. Walk(i, v)[from] = [node |-> L, rank |-> RankOf(L) - RankOf(from)]
    <3> HIDE DEF from
    <3> QED BY <2>1, WalkEnds
  <2>3. RankOf(from) \in Nat
    BY <2>1, SpanFacts
  <2>4. RankOf(from) + (RankOf(L) - RankOf(from)) = RankOf(L)
    <3> HIDE DEF from, L
    <3> QED BY <1>1, <2>3
  <2>5. f[i + 1] = [node |-> from, rank |-> RankOf(from)]
    BY <1>3
  <2>6. DescentStep(f, v, i) = [node |-> L, rank |-> RankOf(from) + (RankOf(L) - RankOf(from))]
    BY <1>3, <2>2, <2>5 DEF DescentStep
  <2> QED BY <2>4, <2>6
<1> QED BY <1>2, <1>3

\* On each layer the search for v ends at the last node before v and knows its rank.
LEMMA DescentEnds ==
  ASSUME IInv, NEW v \in Items, NEW i \in Active
  PROVE  /\ Descent(v)[i] = [node |-> LastOf(i, v), rank |-> RankOf(LastOf(i, v))]
         /\ Descent(v)[i].node = LastOf(i, v)
         /\ Descent(v)[i].rank = RankOf(LastOf(i, v))
<1> DEFINE f == Descent(v)
           g == DescentClosed(v)
           R(j) == [node |-> LastOf(j, v), rank |-> RankOf(LastOf(j, v))]
           bad == {j \in Active : f[j] # R(j)}
           depths == {curr_layer - 1 - j : j \in bad}
<1>1. g = [j \in Active |-> DescentStep(g, v, j)]
  <2>1. ASSUME NEW j \in Active PROVE DescentStep(g, v, j) = R(j)
    <3>1. j # curr_layer - 1 => g[j + 1] = R(j + 1)
      BY StartOfLayer DEF DescentClosed
    <3> HIDE DEF g
    <3> QED BY <3>1, DescentStepEnds
  <2>2. g = [j \in Active |-> R(j)]
    BY DEF DescentClosed
  <2> HIDE DEF g, R
  <2> QED BY <2>1, <2>2
<1>2. f = [j \in Active |-> DescentStep(f, v, j)]
  <2> HIDE DEF g
  <2> QED BY <1>1, DescentIsSolution
<1>3. bad = {}
  <2> SUFFICES ASSUME bad # {} PROVE FALSE
    OBVIOUS
  <2>1. curr_layer \in Nat /\ \A j \in Active : j \in Nat /\ j <= curr_layer - 1
    BY LayerFacts DEF Active
  <2>2. depths \in SUBSET Nat /\ depths # {}
    <3>1. bad \subseteq Active
      OBVIOUS
    <3> HIDE DEF bad
    <3> QED BY <2>1, <3>1
  <2>3. PICK d \in depths : \A e \in depths : d <= e
    <3> HIDE DEF depths
    <3> QED BY <2>2, LeastNatural
  <2>4. PICK j \in bad : d = curr_layer - 1 - j
    BY <2>3
  <2>5. j # curr_layer - 1 => f[j + 1] = R(j + 1)
    <3> SUFFICES ASSUME j # curr_layer - 1, f[j + 1] # R(j + 1) PROVE FALSE
      OBVIOUS
    <3>1. j + 1 \in bad
      BY <2>4, StartOfLayer
    <3>2. curr_layer - 1 - (j + 1) \in depths
      BY <3>1
    <3>3. j \in Nat
      BY <2>1, <2>4
    <3> HIDE DEF depths, bad
    <3> QED BY <2>1, <2>3, <2>4, <3>2, <3>3
  <2>6. j \in Active /\ f[j] # R(j)
    BY <2>4
  <2>7. f[j] = DescentStep(f, v, j)
    <3> HIDE DEF f
    <3> QED BY <1>2, <2>6
  <2> HIDE DEF f
  <2> QED BY <2>5, <2>6, <2>7, DescentStepEnds
<1>4. f[i] = R(i)
  BY <1>3
<1> QED BY <1>4

\* The search for v sees v as the next item just on the layers of v's node.
LEMMA FoundOnLayer ==
  ASSUME IInv, NEW v \in Items, NEW i \in Active
  PROVE  next[LastOf(i, v)][i] = v <=> v \in Level(i)
<1> DEFINE L == LastOf(i, v)
           x == next[L][i]
<1>1. i \in Layers /\ Level(i) \in SUBSET Items
  BY LayerFacts
<1>2. IsLast(Level(i), v, L) /\ L \in Level(i) \cup {Head}
  BY <1>1, LastOfIsLast
<1>3. IsNext(Level(i), L, x) /\ x \in Level(i) \cup {Nil}
  <2> HIDE DEF L
  <2> QED BY <1>2, SpanFacts
<1>4. v \in Level(i) => x = v
  <2> HIDE DEF L, x
  <2> QED BY <1>1, <1>2, <1>3, LastIsFollowed
<1>5. x = v => v \in Level(i)
  BY <1>3, Constants
<1> QED BY <1>4, <1>5

\* GetNode finds every item of the list and nothing else.
LEMMA GetNodeFinds ==
  ASSUME IInv, NEW v \in Items
  PROVE  GetNode(v) # Nil <=> v \in InList
<1>1. 0 \in Active /\ Level(0) = InList
  BY LayerFacts
<1>2. GetNode(v) = IF next[LastOf(0, v)][0] = v THEN v ELSE Nil
  BY <1>1, DescentEnds DEF GetNode
<1>3. next[LastOf(0, v)][0] = v <=> v \in InList
  BY <1>1, FoundOnLayer
<1> QED BY <1>2, <1>3, Constants

\* GetRank counts the items that are not smaller.
LEMMA GetRankCounts ==
  ASSUME IInv, NEW v \in InList
  PROVE  GetRank(v) = RankOf(v) /\ RankOf(v) = Cardinality({w \in InList : w >= v})
<1> DEFINE at == Descent(v)
           hit == {i \in Active : next[at[i].node][i] = v}
           top == CHOOSE j \in hit : \A k \in hit : j >= k
           depths == {curr_layer - 1 - j : j \in hit}
<1>1. v \in Items /\ v # Nil /\ v # Head /\ Level(0) = InList /\ 0 \in Active
  BY LayerFacts, Constants
<1>2. ASSUME NEW i \in Active
      PROVE  at[i].node = LastOf(i, v) /\ at[i].rank = RankOf(LastOf(i, v))
  BY <1>1, DescentEnds
<1> HIDE DEF at
<1>3. ASSUME NEW i \in Active PROVE i \in hit <=> v \in Level(i)
  BY <1>1, <1>2, FoundOnLayer
<1>4. \E j \in hit : \A k \in hit : j >= k
  <2>1. 0 \in hit
    BY <1>1, <1>3
  <2>2. curr_layer \in Nat /\ \A j \in hit : j \in Nat /\ j <= curr_layer - 1
    BY LayerFacts DEF Active
  <2> HIDE DEF hit
  <2>3. depths \in SUBSET Nat /\ depths # {}
    BY <2>1, <2>2
  <2>4. PICK d \in depths : \A e \in depths : d <= e
    <3> HIDE DEF depths
    <3> QED BY <2>3, LeastNatural
  <2>5. PICK j \in hit : d = curr_layer - 1 - j
    BY <2>4
  <2>6. ASSUME NEW k \in hit PROVE j >= k
    BY <2>2, <2>4, <2>5
  <2> QED BY <2>6
<1>5. top \in hit /\ hit # {}
  <2> HIDE DEF hit
  <2> QED BY <1>4
<1>6. GetRank(v) = at[top].rank + span[at[top].node][top]
  <2>1. GetRank(v) = IF hit = {} THEN 0 ELSE at[top].rank + span[at[top].node][top]
    BY DEF GetRank, at
  <2> QED BY <1>5, <2>1
<1> HIDE DEF top
<1>7. top \in Active /\ next[LastOf(top, v)][top] = v
  BY <1>2, <1>5
<1> DEFINE L == LastOf(top, v)
<1>8. L \in Level(top) \cup {Head}
  BY <1>1, <1>7, LayerFacts, LastOfIsLast
<1> HIDE DEF L, hit
<1>9. at[top].rank + span[at[top].node][top] = RankOf(L) + (RankOf(v) - RankOf(L))
  <2>1. next[L][top] = v /\ next[L][top] # Nil
    BY <1>1, <1>7 DEF L
  <2>2. span[L][top] = RankOf(v) - RankOf(L)
    BY <1>7, <1>8, <2>1, SpanFacts
  <2> QED BY <1>2, <1>7, <2>2 DEF L
<1>10. RankOf(L) \in Nat /\ RankOf(v) \in Nat
  BY <1>1, <1>7, <1>8, SpanFacts, RankType
<1>11. RankOf(v) = Cardinality({w \in InList : w >= v})
  BY <1>1 DEF RankOf, Count, AtLeast
<1> QED BY <1>6, <1>9, <1>10, <1>11

-----------------------------------------------------------------------------
(* A new item, or one less, in a layer and in the ranks: facts about sets. *)

\* A new item v comes between the last item before it and what followed that.
LEMMA NextWithItem ==
  ASSUME NEW S \in SUBSET Items, NEW v \in Items \ S, NEW n \in S \cup {Head}, NEW x,
         IsNext(S, n, x)
  PROVE  /\ IsLast(S, v, n) => IsNext(S \cup {v}, n, v) /\ IsNext(S \cup {v}, v, x)
         /\ ~IsLast(S, v, n) => IsNext(S \cup {v}, n, x)
<1>1. /\ v \in Int /\ v # Head /\ v # Nil /\ S \subseteq Int
      /\ Head \notin S /\ Nil \notin S
  BY Constants
<1>2. ASSUME IsLast(S, v, n)
      PROVE  IsNext(S \cup {v}, n, v) /\ IsNext(S \cup {v}, v, x)
  <2>1. Before(n, v) /\ \A w \in S : w > v => ~Before(n, w)
    <3>1. ASSUME NEW w \in S, w > v PROVE ~Before(n, w)
      <4>1. n # Head /\ w >= n
        BY <1>2, <3>1 DEF IsLast
      <4>2. n \in Int /\ w \in Int
        BY <1>1, <4>1
      <4> QED BY <4>1, <4>2 DEF Before
    <3> QED BY <1>2, <3>1 DEF IsLast
  <2>2. ASSUME NEW w \in S PROVE w < v <=> Before(n, w)
    <3>1. w \in Int /\ w # v
      BY <1>1
    <3>2. w < v => Before(n, w)
      BY <1>1, <2>1, <3>1 DEF Before
    <3>3. w > v => ~Before(n, w)
      BY <2>1
    <3> QED BY <1>1, <3>1, <3>2, <3>3
  <2>3. ASSUME NEW w \in S \cup {v} PROVE Before(v, w) <=> (w \in S /\ Before(n, w))
    BY <1>1, <2>2 DEF Before
  <2>4. IsNext(S \cup {v}, n, v)
    <3>1. ASSUME NEW w \in S \cup {v}, Before(n, w) PROVE w <= v
      BY <1>1, <2>2, <3>1
    <3> QED BY <2>1, <3>1 DEF IsNext
  <2>5. IsNext(S \cup {v}, v, x)
    <3>1. CASE x = Nil
      BY <1>1, <2>3, <3>1 DEF IsNext
    <3>2. CASE x # Nil
      BY <2>3, <3>2 DEF IsNext
    <3> QED BY <3>1, <3>2
  <2> QED BY <2>4, <2>5
<1>3. ASSUME ~IsLast(S, v, n) PROVE IsNext(S \cup {v}, n, x)
  <2>1. CASE ~Before(n, v)
    BY <1>1, <2>1 DEF IsNext
  <2>2. CASE Before(n, v)
    <3>1. x # Nil /\ x > v /\ x \in S
      <4>1. v \in Items
        OBVIOUS
      <4> QED BY <1>3, <2>2, <4>1, LastByNext
    <3>2. v <= x
      BY <1>1, <3>1
    <3> QED BY <3>1, <3>2 DEF IsNext
  <2> QED BY <2>1, <2>2
<1> QED BY <1>2, <1>3

\* Without v, what preceded it is followed by what followed it.
LEMMA NextWithoutItem ==
  ASSUME NEW S \in SUBSET Items, NEW v \in S, NEW n \in (S \ {v}) \cup {Head},
         NEW x, IsNext(S, n, x), NEW y, IsNext(S, v, y)
  PROVE  /\ x = v => IsNext(S \ {v}, n, y)
         /\ x # v => IsNext(S \ {v}, n, x)
<1>1. /\ v \in Int /\ v # Head /\ v # Nil /\ S \subseteq Int
      /\ Head \notin S /\ Nil \notin S
  BY Constants
<1>2. ASSUME x = v PROVE IsNext(S \ {v}, n, y)
  <2>1. Before(n, v) /\ \A w \in S : Before(n, w) => w <= v
    BY <1>1, <1>2 DEF IsNext
  <2>2. ASSUME NEW w \in S \ {v} PROVE Before(n, w) <=> Before(v, w)
    <3>1. w \in Int /\ w # v
      BY <1>1
    <3>2. Before(n, w) => v > w
      BY <1>1, <2>1, <3>1
    <3>3. v > w => Before(n, w)
      BY <1>1, <2>1, <3>1 DEF Before
    <3> QED BY <1>1, <3>2, <3>3 DEF Before
  <2>3. ~Before(v, v)
    BY <1>1 DEF Before
  <2> QED BY <1>1, <2>2, <2>3 DEF IsNext
<1>3. ASSUME x # v PROVE IsNext(S \ {v}, n, x)
  BY <1>1, <1>3 DEF IsNext
<1> QED BY <1>2, <1>3

LEMMA CountType ==
  ASSUME NEW S \in SUBSET Items, NEW n
  PROVE  /\ AtLeast(S, n) \in SUBSET S /\ Count(S, n) \in Nat
         /\ CountTo(S, n) \in Nat /\ Count(S, n) <= CountTo(S, n)
         /\ Count(S, n) <= Cardinality(S)
<1>1. AtLeast(S, n) \in SUBSET S
  BY DEF AtLeast
<1>2. Count(S, n) \in Nat /\ Cardinality(S) \in Nat /\ Count(S, n) <= Cardinality(S)
  BY <1>1, FiniteItems, FewerItems DEF Count
<1> QED BY <1>1, <1>2 DEF CountTo

\* Ranks grow along a layer.
LEMMA CountGrows ==
  ASSUME NEW S \in SUBSET Items, NEW Q \in SUBSET S, NEW n \in Q \cup {Head}, NEW x,
         IsNext(Q, n, x)
  PROVE  Count(S, n) <= CountTo(S, x)
<1>1. CASE x = Nil
  BY <1>1, CountType DEF CountTo
<1>2. CASE x # Nil
  <2>1. x \in Q /\ Before(n, x) /\ x \in Int /\ x # Head /\ Q \subseteq Int /\ S \subseteq Int
    BY <1>2, Constants DEF IsNext
  <2>2. AtLeast(S, n) \subseteq AtLeast(S, x)
    <3>1. CASE n = Head
      BY <3>1 DEF AtLeast
    <3>2. CASE n # Head
      <4> SUFFICES ASSUME NEW w \in S, w >= n PROVE w >= x
        BY <2>1, <3>2 DEF AtLeast
      <4> QED BY <2>1, <3>2 DEF Before
    <3> QED BY <3>1, <3>2
  <2>3. AtLeast(S, x) \in SUBSET Items
    BY DEF AtLeast
  <2>4. Count(S, n) <= Count(S, x)
    BY <2>2, <2>3, FewerItems DEF Count
  <2> QED BY <1>2, <2>4 DEF CountTo
<1> QED BY <1>1, <1>2

\* A new item v counts for the ranks behind it; its own comes after those before it.
LEMMA CountWithItem ==
  ASSUME NEW S \in SUBSET Items, NEW v \in Items \ S
  PROVE  /\ \A n \in S \cup {Head} :
              Count(S \cup {v}, n) = IF Before(n, v) THEN Count(S, n) ELSE Count(S, n) + 1
         /\ \A x \in S \cup {Nil} :
              CountTo(S \cup {v}, x) =
                IF x # Nil /\ x > v THEN CountTo(S, x) ELSE CountTo(S, x) + 1
         /\ \A n : IsLast(S, v, n) => Count(S \cup {v}, v) = Count(S, n) + 1
<1>1. v \in Int /\ v # Head /\ v # Nil /\ S \subseteq Int /\ Head \notin S /\ Nil \notin S
  BY Constants
<1>2. ASSUME NEW n \in S \cup {Head}
      PROVE  Count(S \cup {v}, n) = IF Before(n, v) THEN Count(S, n) ELSE Count(S, n) + 1
  <2>1. CASE Before(n, v)
    <3>1. AtLeast(S \cup {v}, n) = AtLeast(S, n)
      BY <1>1, <2>1 DEF AtLeast, Before
    <3> QED BY <2>1, <3>1 DEF Count
  <2>2. CASE ~Before(n, v)
    <3>1. AtLeast(S \cup {v}, n) = AtLeast(S, n) \cup {v}
      BY <1>1, <2>2 DEF AtLeast, Before
    <3>2. AtLeast(S, n) \in SUBSET Items /\ v \in Items \ AtLeast(S, n)
      BY DEF AtLeast
    <3>3. Cardinality(AtLeast(S, n) \cup {v}) = Cardinality(AtLeast(S, n)) + 1
      BY <3>2, OneMore
    <3> QED BY <2>2, <3>1, <3>3 DEF Count
  <2> QED BY <2>1, <2>2
<1>3. ASSUME NEW x \in S \cup {Nil}
      PROVE  CountTo(S \cup {v}, x) =
               IF x # Nil /\ x > v THEN CountTo(S, x) ELSE CountTo(S, x) + 1
  <2>1. CASE x = Nil
    BY <2>1, OneMore DEF CountTo
  <2>2. CASE x # Nil
    BY <1>1, <1>2, <2>2 DEF CountTo, Before
  <2> QED BY <2>1, <2>2
<1>4. ASSUME NEW n, IsLast(S, v, n) PROVE Count(S \cup {v}, v) = Count(S, n) + 1
  <2>1. n \in S \cup {Head} /\ Before(n, v) /\ \A w \in S : w > v => n # Head /\ w >= n
    BY <1>4 DEF IsLast
  <2>2. AtLeast(S \cup {v}, v) = AtLeast(S, n) \cup {v}
    <3>1. AtLeast(S \cup {v}, v) = {w \in S \cup {v} : w >= v}
      BY <1>1 DEF AtLeast
    <3>2. ASSUME NEW w \in S PROVE w >= v <=> w \in AtLeast(S, n)
      <4>1. w \in Int /\ w # v
        BY <1>1
      <4>2. CASE n = Head
        BY <1>1, <2>1, <4>1, <4>2 DEF AtLeast
      <4>3. CASE n # Head
        <5>1. n \in Int /\ n > v
          BY <1>1, <2>1, <4>3 DEF Before
        <5> QED BY <1>1, <2>1, <4>1, <4>3, <5>1 DEF AtLeast
      <4> QED BY <4>2, <4>3
    <3>3. v >= v /\ AtLeast(S, n) \subseteq S
      BY <1>1 DEF AtLeast
    <3> QED BY <3>1, <3>2, <3>3
  <2>3. AtLeast(S, n) \in SUBSET Items /\ v \in Items \ AtLeast(S, n)
    BY DEF AtLeast
  <2>4. Cardinality(AtLeast(S, n) \cup {v}) = Cardinality(AtLeast(S, n)) + 1
    BY <2>3, OneMore
  <2> QED BY <2>2, <2>4 DEF Count
<1> QED BY <1>2, <1>3, <1>4

\* What a new item v changes of the ranks between a node n of a layer and its next
\* there: nothing, unless n is the last one before v.  L is the last item before v
\* in the whole list.
LEMMA SpanWithItem ==
  ASSUME NEW S \in SUBSET Items, NEW v \in Items \ S, NEW Q \in SUBSET S,
         NEW n \in Q \cup {Head}, NEW x, IsNext(Q, n, x),
         NEW L, IsLast(S, v, L), NEW B, IsLast(Q, v, B)
  PROVE  LET T == S \cup {v} IN
         /\ n # B => CountTo(T, x) - Count(T, n) = CountTo(S, x) - Count(S, n)
         /\ n = B => /\ CountTo(T, x) - Count(T, n) = CountTo(S, x) - Count(S, n) + 1
                     /\ CountTo(T, v) - Count(T, n) = Count(S, L) - Count(S, n) + 1
                     /\ CountTo(T, x) - Count(T, v) = CountTo(S, x) - Count(S, L)
<1> DEFINE T == S \cup {v}
<1>1. /\ v \in Int /\ v # Head /\ v # Nil /\ S \subseteq Int /\ Head \notin S /\ Nil \notin S
      /\ v \in Items \ Q /\ v \in Items /\ Q \in SUBSET Items /\ L \in S \cup {Head}
  BY Constants DEF IsLast
<1>2. x \in Q \cup {Nil} /\ x # v /\ x \in S \cup {Nil}
  BY <1>1 DEF IsNext
<1>3. Count(T, n) = IF Before(n, v) THEN Count(S, n) ELSE Count(S, n) + 1
  BY CountWithItem
<1>4. CountTo(T, x) = IF x # Nil /\ x > v THEN CountTo(S, x) ELSE CountTo(S, x) + 1
  BY <1>2, CountWithItem
<1>5. Count(T, v) = Count(S, L) + 1 /\ CountTo(T, v) = Count(T, v)
  BY <1>1, CountWithItem DEF CountTo
<1>6. Count(S, n) \in Nat /\ CountTo(S, x) \in Nat /\ Count(S, L) \in Nat
  BY CountType
<1>7. Before(n, v) => (~(x # Nil /\ x > v) <=> IsLast(Q, v, n))
  BY <1>1, LastByNext
<1>8. IsLast(Q, v, n) <=> n = B
  BY <1>1, LastUnique
<1>9. IsLast(Q, v, n) => Before(n, v)
  BY DEF IsLast
<1>10. ~Before(n, v) => ~(x # Nil /\ x > v)
  <2> SUFFICES ASSUME ~Before(n, v), x # Nil, x > v PROVE FALSE
    OBVIOUS
  <2>1. n \in Int /\ n # Head /\ x \in Int /\ Before(n, x)
    BY <1>1, <1>2 DEF Before, IsNext
  <2> QED BY <1>1, <2>1 DEF Before
<1> HIDE DEF T
<1>11. CASE n # B
  BY <1>3, <1>4, <1>6, <1>7, <1>8, <1>10, <1>11 DEF T
<1>12. CASE n = B
  <2>1. Count(T, n) = Count(S, n) /\ CountTo(T, x) = CountTo(S, x) + 1
    BY <1>3, <1>4, <1>7, <1>8, <1>9, <1>12
  <2> QED BY <1>5, <1>6, <1>12, <2>1 DEF T
<1> QED BY <1>11, <1>12

\* What the loss of v changes of them.
GapsWithoutItem(S, v, Q, n, x, B) ==
  /\ n # B => x # v /\ CountTo(S \ {v}, x) - Count(S \ {v}, n) =
                       CountTo(S, x) - Count(S, n)
  /\ n = B /\ v \notin Q =>
       CountTo(S \ {v}, x) - Count(S \ {v}, n) = CountTo(S, x) - Count(S, n) - 1
  /\ n = B /\ v \in Q =>
       /\ x = v
       /\ \A y : IsNext(Q, v, y) =>
            CountTo(S \ {v}, y) - Count(S \ {v}, n) =
              (CountTo(S, v) - Count(S, n)) + (CountTo(S, y) - Count(S, v)) - 1

LEMMA SpanWithoutItem ==
  ASSUME NEW S \in SUBSET Items, NEW v \in S, NEW Q \in SUBSET S,
         NEW n \in Q \cup {Head}, n # v, NEW x, IsNext(Q, n, x),
         NEW B, IsLast(Q, v, B)
  PROVE  GapsWithoutItem(S, v, Q, n, x, B)
<1> DEFINE T == S \ {v}
<1>1. /\ v \in Int /\ v # Head /\ v # Nil /\ S \subseteq Int /\ Head \notin S /\ Nil \notin S
      /\ v \in Items /\ Q \in SUBSET Items /\ T \in SUBSET Items /\ v \in Items \ T
      /\ T \cup {v} = S
  BY Constants
<1>2. x \in Q \cup {Nil} /\ n \in T \cup {Head}
  BY DEF IsNext
<1> HIDE DEF T
<1>3. Count(S, n) = IF Before(n, v) THEN Count(T, n) ELSE Count(T, n) + 1
  <2>1. \A m \in T \cup {Head} :
          Count(T \cup {v}, m) = IF Before(m, v) THEN Count(T, m) ELSE Count(T, m) + 1
    BY <1>1, CountWithItem
  <2> QED BY <1>1, <1>2, <2>1
<1>4. ASSUME NEW z \in T \cup {Nil}
      PROVE  CountTo(S, z) = IF z # Nil /\ z > v THEN CountTo(T, z) ELSE CountTo(T, z) + 1
  BY <1>1, CountWithItem
<1>5. \A z : Count(S, z) \in Nat /\ CountTo(S, z) \in Nat /\ Count(T, z) \in Nat
             /\ CountTo(T, z) \in Nat
  BY <1>1, CountType
<1>6. Before(n, v) => (~(x # Nil /\ x > v) <=> IsLast(Q, v, n))
  BY <1>1, LastByNext
<1>7. IsLast(Q, v, n) <=> n = B
  BY <1>1, LastUnique
<1>8. IsLast(Q, v, n) => Before(n, v)
  BY DEF IsLast
<1>9. ~Before(n, v) => x # v /\ ~(x # Nil /\ x > v)
  <2>1. x # v \/ Before(n, v)
    BY <1>1 DEF IsNext
  <2> SUFFICES ASSUME ~Before(n, v), x # Nil, x > v PROVE FALSE
    BY <2>1
  <2>2. n \in Int /\ n # Head /\ x \in Int /\ Before(n, x)
    BY <1>1, <1>2 DEF Before, IsNext, T
  <2> QED BY <1>1, <2>2 DEF Before
<1>10. CASE n # B
  <2>1. x # v
    BY <1>1, <1>6, <1>7, <1>9, <1>10
  <2>2. x \in T \cup {Nil}
    BY <1>2, <2>1 DEF T
  <2>3. CountTo(S, x) = IF x # Nil /\ x > v THEN CountTo(T, x) ELSE CountTo(T, x) + 1
    BY <1>4, <2>2
  <2>4. CountTo(T, x) - Count(T, n) = CountTo(S, x) - Count(S, n)
    BY <1>3, <1>5, <1>6, <1>7, <1>9, <1>10, <2>3
  <2> QED BY <1>10, <2>1, <2>4 DEF T, GapsWithoutItem
<1>11. CASE n = B /\ v \notin Q
  <2>1. x \in T \cup {Nil} /\ ~(x # Nil /\ x > v)
    BY <1>2, <1>6, <1>7, <1>8, <1>11 DEF T
  <2>2. CountTo(S, x) = CountTo(T, x) + 1
    BY <1>4, <2>1
  <2>3. Count(S, n) = Count(T, n)
    BY <1>3, <1>7, <1>8, <1>11
  <2>4. CountTo(T, x) - Count(T, n) = CountTo(S, x) - Count(S, n) - 1
    BY <1>5, <2>2, <2>3
  <2> QED BY <1>11, <2>4 DEF T, GapsWithoutItem
<1>12. CASE n = B /\ v \in Q
  <2>1. x = v
    BY <1>12, LastIsFollowed
  <2>2. ASSUME NEW y, IsNext(Q, v, y)
        PROVE  CountTo(T, y) - Count(T, n) =
                 (CountTo(S, v) - Count(S, n)) + (CountTo(S, y) - Count(S, v)) - 1
    <3>1. y \in Q \cup {Nil}
      BY <2>2 DEF IsNext
    <3>2. ~(y # Nil /\ y > v) /\ y # v
      BY <1>1, <2>2, <3>1 DEF IsNext, Before
    <3>3. y \in T \cup {Nil}
      BY <3>1, <3>2 DEF T
    <3>4. CountTo(S, y) = CountTo(T, y) + 1
      BY <1>4, <3>2, <3>3
    <3>5. Count(S, n) = Count(T, n)
      BY <1>3, <1>7, <1>8, <1>12
    <3>6. CountTo(S, v) = Count(S, v)
      BY <1>1 DEF CountTo
    <3> QED BY <1>5, <3>4, <3>5, <3>6
  <2> QED BY <1>12, <2>1, <2>2 DEF T, GapsWithoutItem
<1> QED BY <1>10, <1>11, <1>12

-----------------------------------------------------------------------------
(* Insert. *)

LEMMA NoneAbove ==
  ASSUME IInv, NEW v \in Items, NEW i \in Layers, i \notin Active
  PROVE  LastOf(i, v) = Head /\ next[Head][i] = Nil
<1>1. Level(i) = {}
  BY LayerFacts
<1>2. LastOf(i, v) = Head
  BY <1>1, LastOfIsLast
<1>3. next[Head][i] = Nil
  BY <1>1 DEF IInv, LinksOK, IsNext
<1> QED BY <1>2, <1>3

Top(h) == IF h > curr_layer THEN h ELSE curr_layer

\* The search of Insert knows, on each layer that it changes, the last node before v,
\* its rank, and the ranks that its link passes.
LEMMA InsertSearch ==
  ASSUME IInv, NEW v \in Items, NEW h \in 1 .. MAX_SKIPLIST_LAYER
  PROVE  /\ Top(h) \in 1 .. MAX_SKIPLIST_LAYER /\ h <= Top(h) /\ curr_layer <= Top(h)
         /\ \A i \in Layers : i < Top(h) <=> i \in 0 .. Top(h) - 1
         /\ \A i \in 0 .. Top(h) - 1 :
              /\ i \in Layers
              /\ (IF i \in Active THEN Descent(v)[i].node ELSE Head) = LastOf(i, v)
              /\ (IF i \in Active THEN Descent(v)[i].rank ELSE 0) = RankOf(LastOf(i, v))
              /\ (IF i \in Active THEN span[LastOf(i, v)][i] ELSE curr_length) =
                   RankTo(next[LastOf(i, v)][i]) - RankOf(LastOf(i, v))
<1>1. curr_layer \in 1 .. MAX_SKIPLIST_LAYER /\ curr_length \in Nat
  BY LayerFacts DEF IInv, TypeOK
<1>2. /\ Top(h) \in 1 .. MAX_SKIPLIST_LAYER /\ h <= Top(h) /\ curr_layer <= Top(h)
  BY <1>1, Constants DEF Top
<1>3. \A i \in Layers : i < Top(h) <=> i \in 0 .. Top(h) - 1
  BY <1>2, Constants DEF Layers
<1>4. ASSUME NEW i \in 0 .. Top(h) - 1
      PROVE  /\ i \in Layers
             /\ (IF i \in Active THEN Descent(v)[i].node ELSE Head) = LastOf(i, v)
             /\ (IF i \in Active THEN Descent(v)[i].rank ELSE 0) = RankOf(LastOf(i, v))
             /\ (IF i \in Active THEN span[LastOf(i, v)][i] ELSE curr_length) =
                  RankTo(next[LastOf(i, v)][i]) - RankOf(LastOf(i, v))
  <2>1. i \in Layers
    BY <1>2, Constants DEF Layers
  <2>2. CASE i \in Active
    <3>1. LastOf(i, v) \in Level(i) \cup {Head}
      BY <2>1, LastOfIsLast
    <3>2. span[LastOf(i, v)][i] = RankTo(next[LastOf(i, v)][i]) - RankOf(LastOf(i, v))
      BY <2>2, <3>1 DEF IInv, SpansOK
    <3>3. /\ Descent(v)[i].node = LastOf(i, v)
          /\ Descent(v)[i].rank = RankOf(LastOf(i, v))
      BY <2>2, DescentEnds
    <3> QED BY <2>1, <2>2, <3>2, <3>3
  <2>3. CASE i \notin Active
    <3>1. LastOf(i, v) = Head /\ next[Head][i] = Nil
      BY <2>1, <2>3, NoneAbove
    <3>2. RankOf(LastOf(i, v)) = 0 /\ RankTo(next[LastOf(i, v)][i]) = curr_length
      BY <3>1, HeadRank DEF RankTo
    <3>3. curr_length = RankTo(next[LastOf(i, v)][i]) - RankOf(LastOf(i, v))
      BY <1>1, <3>2
    <3> QED BY <2>1, <2>3, <3>1, <3>2, <3>3
  <2> QED BY <2>2, <2>3
<1> QED BY <1>2, <1>3, <1>4

LEMMA InsertEffect ==
  ASSUME IInv, NEW v \in Items, NEW h \in 1 .. MAX_SKIPLIST_LAYER, Insert(v, h)
  PROVE  /\ v \in Items \ InList
         /\ height' = [height EXCEPT ![v] = h]
         /\ curr_layer' = Top(h)
         /\ curr_length' = curr_length + 1
         /\ next' = [n \in Nodes |-> [i \in Layers |-> next'[n][i]]]
         /\ prev' = [n \in Items |-> [i \in Layers |-> prev'[n][i]]]
         /\ span' = [n \in Nodes |-> [i \in Layers |-> span'[n][i]]]
         /\ \A i \in Layers : LET B == LastOf(i, v) IN
            /\ \A n \in Nodes : next'[n][i] =
                 IF i >= h THEN next[n][i]
                 ELSE IF n = v THEN next[B][i] ELSE IF n = B THEN v ELSE next[n][i]
            /\ \A n \in Items : prev'[n][i] =
                 IF i >= h THEN prev[n][i]
                 ELSE IF n = v THEN B ELSE IF n = next[B][i] THEN v ELSE prev[n][i]
            /\ \A n \in Nodes : span'[n][i] =
                 IF i >= Top(h) THEN span[n][i]
                 ELSE IF n = v /\ i < h
                   THEN (RankTo(next[B][i]) - RankOf(B)) - (RankOf(LastOf(0, v)) - RankOf(B))
                 ELSE IF n = B
                   THEN (IF i < h THEN (RankOf(LastOf(0, v)) - RankOf(B)) + 1
                         ELSE (RankTo(next[B][i]) - RankOf(B)) + 1)
                 ELSE span[n][i]
<1> DEFINE top == IF h > curr_layer THEN h ELSE curr_layer
           at == Descent(v)
           before == [i \in 0 .. top - 1 |-> IF i \in Active THEN at[i].node ELSE Head]
           rank == [i \in 0 .. top - 1 |-> IF i \in Active THEN at[i].rank ELSE 0]
           old == [i \in 0 .. top - 1 |->
                     IF i \in Active THEN span[before[i]][i] ELSE curr_length]
           nextN(n, i) == IF i >= h THEN next[n][i]
             ELSE IF n = v THEN next[before[i]][i]
             ELSE IF n = before[i] THEN v ELSE next[n][i]
           prevN(n, i) == IF i >= h THEN prev[n][i]
             ELSE IF n = v THEN before[i]
             ELSE PrevAfter(n, i, v, before[i])
           spanN(n, i) == IF i >= top THEN span[n][i]
             ELSE IF n = v /\ i < h THEN old[i] - (rank[0] - rank[i])
             ELSE IF n = before[i]
               THEN (IF i < h THEN (rank[0] - rank[i]) + 1 ELSE SpanOver(old[i]))
             ELSE span[n][i]
<1>1. /\ v \notin InList
      /\ next' = [n \in Nodes |-> [i \in Layers |-> nextN(n, i)]]
      /\ prev' = [n \in Items |-> [i \in Layers |-> prevN(n, i)]]
      /\ span' = [n \in Nodes |-> [i \in Layers |-> spanN(n, i)]]
      /\ curr_layer' = top
      /\ height' = [height EXCEPT ![v] = h]
      /\ curr_length' = curr_length + 1
  BY DEF Insert
<1>2. top = Top(h)
  BY DEF Top
<1>3. ASSUME NEW i \in 0 .. Top(h) - 1
      PROVE  /\ before[i] = LastOf(i, v)
             /\ rank[i] = RankOf(LastOf(i, v))
             /\ old[i] = RankTo(next[LastOf(i, v)][i]) - RankOf(LastOf(i, v))
  <2>1. before[i] = IF i \in Active THEN at[i].node ELSE Head
    BY <1>2
  <2>2. rank[i] = IF i \in Active THEN at[i].rank ELSE 0
    BY <1>2
  <2>3. old[i] = IF i \in Active THEN span[before[i]][i] ELSE curr_length
    <3> HIDE DEF before
    <3> QED BY <1>2
  <2> HIDE DEF before, rank, old
  <2> QED BY <2>1, <2>2, <2>3, InsertSearch
<1> HIDE DEF at, before, rank, old, top
<1>4. \A i \in Layers, n \in Nodes : next'[n][i] = nextN(n, i) /\ span'[n][i] = spanN(n, i)
  BY <1>1
<1>5. \A i \in Layers, n \in Items : prev'[n][i] = prevN(n, i)
  BY <1>1
<1>6. /\ next' = [n \in Nodes |-> [i \in Layers |-> next'[n][i]]]
      /\ span' = [n \in Nodes |-> [i \in Layers |-> span'[n][i]]]
      /\ prev' = [n \in Items |-> [i \in Layers |-> prev'[n][i]]]
  <2> HIDE DEF nextN, prevN, spanN
  <2> QED BY <1>1
<1>7. ASSUME NEW i \in Layers
      PROVE  LET B == LastOf(i, v) IN
            /\ \A n \in Nodes : next'[n][i] =
                 IF i >= h THEN next[n][i]
                 ELSE IF n = v THEN next[B][i] ELSE IF n = B THEN v ELSE next[n][i]
            /\ \A n \in Items : prev'[n][i] =
                 IF i >= h THEN prev[n][i]
                 ELSE IF n = v THEN B ELSE IF n = next[B][i] THEN v ELSE prev[n][i]
            /\ \A n \in Nodes : span'[n][i] =
                 IF i >= Top(h) THEN span[n][i]
                 ELSE IF n = v /\ i < h
                   THEN (RankTo(next[B][i]) - RankOf(B)) - (RankOf(LastOf(0, v)) - RankOf(B))
                 ELSE IF n = B
                   THEN (IF i < h THEN (RankOf(LastOf(0, v)) - RankOf(B)) + 1
                         ELSE (RankTo(next[B][i]) - RankOf(B)) + 1)
                 ELSE span[n][i]
  <2>1. /\ i \in Nat /\ h \in Nat /\ Top(h) \in Nat /\ h <= Top(h) /\ Top(h) >= 1
        /\ i < Top(h) <=> i \in 0 .. Top(h) - 1
    BY InsertSearch, LayerFacts, Constants
  <2>2. 0 \in 0 .. Top(h) - 1
    BY <2>1
  <2>3. ~(i >= h) => before[i] = LastOf(i, v)
    BY <1>3, <2>1
  <2>4. ~(i >= Top(h)) =>
           /\ before[i] = LastOf(i, v)
           /\ rank[i] = RankOf(LastOf(i, v)) /\ rank[0] = RankOf(LastOf(0, v))
           /\ old[i] = RankTo(next[LastOf(i, v)][i]) - RankOf(LastOf(i, v))
    BY <1>3, <2>1, <2>2
  <2>5. \A n \in Nodes : next'[n][i] =
          IF i >= h THEN next[n][i]
          ELSE IF n = v THEN next[LastOf(i, v)][i]
          ELSE IF n = LastOf(i, v) THEN v ELSE next[n][i]
    BY <1>4, <2>3
  <2>6. \A n \in Items : prev'[n][i] =
          IF i >= h THEN prev[n][i]
          ELSE IF n = v THEN LastOf(i, v)
          ELSE IF n = next[LastOf(i, v)][i] THEN v ELSE prev[n][i]
    BY <1>5, <2>3 DEF PrevAfter
  <2>7. ASSUME NEW n \in Nodes
        PROVE  spanN(n, i) = IF i >= Top(h) THEN span[n][i]
                 ELSE IF n = v /\ i < h
                   THEN (RankTo(next[LastOf(i, v)][i]) - RankOf(LastOf(i, v)))
                          - (RankOf(LastOf(0, v)) - RankOf(LastOf(i, v)))
                 ELSE IF n = LastOf(i, v)
                   THEN (IF i < h THEN (RankOf(LastOf(0, v)) - RankOf(LastOf(i, v))) + 1
                         ELSE (RankTo(next[LastOf(i, v)][i]) - RankOf(LastOf(i, v))) + 1)
                 ELSE span[n][i]
    BY <1>2, <2>4 DEF SpanOver
  <2> HIDE DEF spanN
  <2> QED BY <1>4, <2>5, <2>6, <2>7
<1> QED BY <1>1, <1>2, <1>6, <1>7

\* The new node is on its layers, and nothing else moves.
LEMMA InsertLayers ==
  ASSUME IInv, NEW v \in Items, NEW h \in 1 .. MAX_SKIPLIST_LAYER, Insert(v, h)
  PROVE  /\ InList' = InList \cup {v}
         /\ \A i \in Layers : Level(i)' = IF i < h THEN Level(i) \cup {v} ELSE Level(i)
         /\ \A i \in Layers : /\ i \in Nat /\ Level(i) \in SUBSET InList
                              /\ v \in Items \ Level(i) /\ LastOf(i, v) \in Level(i) \cup {Head}
                              /\ IsLast(Level(i), v, LastOf(i, v))
                              /\ IsNext(Level(i), LastOf(i, v), next[LastOf(i, v)][i])
                              /\ LastOf(i, v) # v /\ LastOf(i, v) \in Nodes
                              /\ next[LastOf(i, v)][i] \in Level(i) \cup {Nil}
         /\ InList \in SUBSET Items /\ v \in Items \ InList /\ h \in Nat /\ h > 0
<1>1. v \in Items \ InList /\ height' = [height EXCEPT ![v] = h] /\ h \in Nat /\ h > 0
  BY InsertEffect, Constants
<1>2. height \in [Items -> Nat]
  BY Constants DEF IInv, TypeOK
<1>3. height'[v] = h /\ \A w \in Items : w # v => height'[w] = height[w]
  BY <1>1, <1>2
<1>4. InList' = InList \cup {v}
  BY <1>1, <1>3 DEF InList
<1>5. InList \in SUBSET Items /\ \A i \in Layers : i \in Nat /\ Level(i) \in SUBSET InList
  BY LayerFacts
<1>6. ASSUME NEW i \in Layers
      PROVE  Level(i)' = IF i < h THEN Level(i) \cup {v} ELSE Level(i)
  <2>1. v \notin Level(i)
    BY <1>1, <1>5
  <2>2. Level(i)' = {w \in Items : height'[w] > i}
    BY DEF Level
  <2>3. i \in Nat
    BY <1>5
  <2> QED BY <1>1, <1>3, <2>1, <2>2, <2>3 DEF Level
<1>7. ASSUME NEW i \in Layers
      PROVE  /\ v \in Items \ Level(i) /\ LastOf(i, v) \in Level(i) \cup {Head}
             /\ IsLast(Level(i), v, LastOf(i, v))
             /\ IsNext(Level(i), LastOf(i, v), next[LastOf(i, v)][i])
             /\ LastOf(i, v) # v /\ LastOf(i, v) \in Nodes
             /\ next[LastOf(i, v)][i] \in Level(i) \cup {Nil}
  <2>1. v \in Items \ Level(i)
    BY <1>1, <1>5
  <2>2. LastOf(i, v) \in Level(i) \cup {Head} /\ IsLast(Level(i), v, LastOf(i, v))
    BY LastOfIsLast
  <2>3. IsNext(Level(i), LastOf(i, v), next[LastOf(i, v)][i])
    BY <2>2 DEF IInv, LinksOK
  <2>4. next[LastOf(i, v)][i] \in Level(i) \cup {Nil}
    BY <2>3 DEF IsNext
  <2>5. LastOf(i, v) # v /\ LastOf(i, v) \in Nodes
    BY <2>1, <2>2, Constants DEF Nodes, Level
  <2> QED BY <2>1, <2>2, <2>3, <2>4, <2>5
<1> QED BY <1>1, <1>4, <1>5, <1>6, <1>7

LEMMA InsertLinks ==
  ASSUME IInv, NEW v \in Items, NEW h \in 1 .. MAX_SKIPLIST_LAYER, Insert(v, h)
  PROVE  LinksOK' /\ NoLinks'
<1>1. ASSUME NEW i \in Layers, NEW n \in Level(i)' \cup {Head}
      PROVE  IsNext(Level(i)', n, next'[n][i])
  <2> DEFINE S == Level(i)
             B == LastOf(i, v)
  <2>1. /\ S \in SUBSET Items /\ v \in Items \ S /\ B \in S \cup {Head} /\ IsLast(S, v, B)
        /\ IsNext(S, B, next[B][i]) /\ i \in Nat /\ h \in Nat /\ B # v /\ v # Head
    BY InsertLayers, Constants
  <2>2. S' = IF i < h THEN S \cup {v} ELSE S
    BY InsertLayers
  <2>3. n \in S \cup {Head, v} /\ n \in Nodes
    BY <2>1, <2>2 DEF Nodes
  <2>4. \A m : IsLast(S, v, m) => m = B
    BY LastOfIsLast
  <2>5. next'[n][i] = IF i >= h THEN next[n][i]
          ELSE IF n = v THEN next[B][i] ELSE IF n = B THEN v ELSE next[n][i]
    BY <2>3, InsertEffect
  <2>6. n # v => IsNext(S, n, next[n][i])
    BY <2>3 DEF IInv, LinksOK
  <2>7. CASE i >= h
    BY <2>1, <2>2, <2>5, <2>6, <2>7
  <2>8. CASE i < h
    <3>0. S' = S \cup {v} /\ ~(i >= h)
      BY <2>1, <2>2, <2>8
    <3>1. CASE n = v
      <4>1. IsNext(S \cup {v}, v, next[B][i])
        <5> HIDE DEF S, B
        <5> QED BY <2>1, NextWithItem
      <4>2. next'[n][i] = next[B][i]
        BY <2>5, <3>0, <3>1
      <4> QED BY <3>0, <3>1, <4>1, <4>2
    <3>2. CASE n = B
      <4>1. IsNext(S \cup {v}, B, v)
        <5> HIDE DEF S, B
        <5> QED BY <2>1, NextWithItem
      <4>2. next'[n][i] = v
        BY <2>1, <2>5, <3>0, <3>2
      <4> QED BY <3>0, <3>2, <4>1, <4>2
    <3>3. CASE n # v /\ n # B
      <4>1. ~IsLast(S, v, n) /\ n \in S \cup {Head}
        BY <2>3, <2>4, <3>3
      <4>2. IsNext(S \cup {v}, n, next[n][i])
        <5>1. IsNext(S, n, next[n][i])
          BY <2>6, <3>3
        <5> HIDE DEF S, B
        <5> QED BY <2>1, <4>1, <5>1, NextWithItem
      <4>3. next'[n][i] = next[n][i]
        BY <2>5, <3>0, <3>3
      <4> QED BY <3>0, <4>2, <4>3
    <3> QED BY <3>1, <3>2, <3>3
  <2> QED BY <2>1, <2>7, <2>8
<1>2. ASSUME NEW i \in Layers, NEW n \in Items, n \notin Level(i)' PROVE next'[n][i] = Nil
  <2>1. n \notin Level(i) /\ (i < h => n # v) /\ n # Head
    BY <1>2, InsertLayers, Constants
  <2>2. n # LastOf(i, v) /\ i \in Nat /\ h \in Nat
    BY <2>1, InsertLayers
  <2>3. next'[n][i] = next[n][i]
    BY <2>1, <2>2, InsertEffect DEF Nodes
  <2>4. next[n][i] = Nil
    BY <2>1 DEF IInv, NoLinks
  <2> QED BY <2>3, <2>4
<1> QED BY <1>1, <1>2 DEF LinksOK, NoLinks

LEMMA InsertBacks ==
  ASSUME IInv, NEW v \in Items, NEW h \in 1 .. MAX_SKIPLIST_LAYER, Insert(v, h)
  PROVE  BacksOK'
<1> SUFFICES ASSUME NEW i \in Layers, NEW w \in Level(i)'
             PROVE  prev'[w][i] \in Level(i)' \cup {Head} /\ next'[prev'[w][i]][i] = w
  BY DEF BacksOK
<1> DEFINE S == Level(i)
           B == LastOf(i, v)
<1>1. /\ S \in SUBSET Items /\ v \in Items \ S /\ B \in S \cup {Head}
      /\ i \in Nat /\ h \in Nat /\ B # v /\ v # Head /\ B \in Nodes /\ v \in Nodes
      /\ IsNext(S, B, next[B][i])
  BY InsertLayers, Constants DEF Nodes
<1>2. S' = IF i < h THEN S \cup {v} ELSE S
  BY InsertLayers
<1>3. \A n \in Nodes : next'[n][i] = IF i >= h THEN next[n][i]
        ELSE IF n = v THEN next[B][i] ELSE IF n = B THEN v ELSE next[n][i]
  BY InsertEffect
<1>4. \A n \in Items : prev'[n][i] = IF i >= h THEN prev[n][i]
        ELSE IF n = v THEN B ELSE IF n = next[B][i] THEN v ELSE prev[n][i]
  BY InsertEffect
<1>5. w \in Items /\ (w = v \/ w \in S) /\ w \in S'
  BY <1>1, <1>2
<1>6. w \in S => /\ prev[w][i] \in S \cup {Head} /\ next[prev[w][i]][i] = w
                 /\ prev[w][i] \in Nodes /\ prev[w][i] # v
  BY <1>1 DEF IInv, BacksOK, Nodes
<1> HIDE DEF S, B
<1>7. CASE i >= h
  <2>1. w \in S /\ S' = S
    BY <1>1, <1>2, <1>5, <1>7
  <2>2. prev'[w][i] = prev[w][i] /\ next'[prev[w][i]][i] = next[prev[w][i]][i]
    BY <1>3, <1>4, <1>5, <1>6, <1>7, <2>1
  <2> QED BY <1>6, <2>1, <2>2 DEF S
<1>8. CASE ~(i >= h) /\ w = v
  <2>1. prev'[w][i] = B /\ next'[B][i] = v
    BY <1>1, <1>3, <1>4, <1>8
  <2> QED BY <1>1, <1>2, <1>8, <2>1 DEF S
<1>9. CASE ~(i >= h) /\ w # v /\ w = next[B][i]
  <2>1. prev'[w][i] = v /\ next'[v][i] = w /\ v \in S'
    BY <1>1, <1>2, <1>3, <1>4, <1>5, <1>9
  <2> QED BY <2>1 DEF S
<1>10. CASE ~(i >= h) /\ w # v /\ w # next[B][i]
  <2>1. w \in S /\ prev'[w][i] = prev[w][i] /\ prev[w][i] # B
    BY <1>4, <1>5, <1>6, <1>10
  <2>2. next'[prev[w][i]][i] = w
    BY <1>3, <1>6, <1>10, <2>1
  <2> QED BY <1>1, <1>2, <1>6, <1>10, <2>1, <2>2 DEF S
<1> QED BY <1>7, <1>8, <1>9, <1>10

\* Ranks as counts.
LEMMA RanksAreCounts ==
  ASSUME IInv
  PROVE  /\ \A n : RankOf(n) = Count(InList, n)
         /\ \A x : RankTo(x) = CountTo(InList, x)
BY DEF IInv, LengthOK, RankOf, RankTo, CountTo

LEMMA InsertSizes ==
  ASSUME IInv, NEW v \in Items, NEW h \in 1 .. MAX_SKIPLIST_LAYER, Insert(v, h)
  PROVE  LengthOK' /\ HeightsOK' /\ curr_length' \in 0 .. Cardinality(Items)
<1>1. /\ InList' = InList \cup {v} /\ InList \in SUBSET Items /\ v \in Items \ InList
      /\ h \in Nat
  BY InsertLayers
<1>2. curr_length' = curr_length + 1 /\ curr_layer' = Top(h)
      /\ height' = [height EXCEPT ![v] = h]
  BY InsertEffect
<1>3. Cardinality(InList \cup {v}) = Cardinality(InList) + 1
  BY <1>1, OneMore
<1>4. LengthOK'
  BY <1>1, <1>2, <1>3 DEF IInv, LengthOK
<1>5. curr_length' \in 0 .. Cardinality(Items)
  <2>1. InList' \in SUBSET Items /\ Items \in SUBSET Items
    BY <1>1
  <2>2. Cardinality(InList') <= Cardinality(Items)
    BY <2>1, FewerItems
  <2>3. Cardinality(InList') \in Nat /\ Cardinality(Items) \in Nat
    BY <2>1, FiniteItems
  <2> QED BY <1>4, <2>2, <2>3 DEF LengthOK
<1>6. HeightsOK'
  <2>1. /\ curr_layer \in Nat /\ Top(h) \in Nat /\ h <= Top(h) /\ curr_layer <= Top(h)
    BY LayerFacts, InsertSearch, Constants
  <2>2. height \in [Items -> Nat]
    BY Constants DEF IInv, TypeOK
  <2>3. \A w \in Items : height[w] <= curr_layer
    BY DEF IInv, HeightsOK
  <2>4. ASSUME NEW w \in Items PROVE height'[w] <= Top(h)
    <3>1. CASE w = v
      BY <1>2, <2>1, <2>2, <3>1
    <3>2. CASE w # v
      BY <1>2, <2>1, <2>2, <2>3, <3>2
    <3> QED BY <3>1, <3>2
  <2> QED BY <1>2, <2>4 DEF HeightsOK
<1> QED BY <1>4, <1>5, <1>6

LEMMA InsertSpans ==
  ASSUME IInv, NEW v \in Items, NEW h \in 1 .. MAX_SKIPLIST_LAYER, Insert(v, h)
  PROVE  SpansOK' /\ \A n \in Nodes, i \in Layers : span'[n][i] \in Nat
<1> DEFINE S == InList
           T == S \cup {v}
           L == LastOf(0, v)
<1>1. /\ S \in SUBSET Items /\ v \in Items \ S /\ InList' = T /\ h \in Nat
      /\ T \in SUBSET Items
  BY InsertLayers
<1>2. /\ curr_layer' = Top(h) /\ Top(h) \in Nat /\ h <= Top(h)
      /\ \A i \in Layers : i < Top(h) <=> i \in 0 .. Top(h) - 1
      /\ 0 .. Top(h) - 1 \subseteq Layers
  BY InsertEffect, InsertSearch, Constants
<1>3. IsLast(S, v, L)
  <2>1. 0 \in Layers /\ Level(0) = InList
    BY LayerFacts
  <2> QED BY <2>1, LastOfIsLast
<1>4. \A n : RankOf(n) = Count(S, n) /\ RankTo(n) = CountTo(S, n)
  BY RanksAreCounts
<1>5. ASSUME NEW x PROVE (IF x = Nil THEN curr_length' ELSE Count(T, x)) = CountTo(T, x)
  BY <1>1, InsertSizes DEF LengthOK, CountTo
<1>6. \A n : Count(S, n) \in Nat /\ CountTo(S, n) \in Nat
  BY <1>1, CountType
<1>7. ASSUME NEW i \in Layers, i < Top(h), NEW n \in Level(i)' \cup {Head}
      PROVE  /\ span'[n][i] = CountTo(T, next'[n][i]) - Count(T, n)
             /\ span'[n][i] \in Nat
  <2> DEFINE Q == Level(i)
             B == LastOf(i, v)
             x == next[B][i]
             z == next[n][i]
  <2>1. /\ Q \in SUBSET S /\ v \notin Q /\ B \in Q \cup {Head} /\ IsLast(Q, v, B)
        /\ IsNext(Q, B, x) /\ i \in Nat /\ B # v /\ v # Head /\ Q \in SUBSET Items
    BY InsertLayers, Constants
  <2>2. Q' = IF i < h THEN Q \cup {v} ELSE Q
    BY InsertLayers
  <2>3. n \in Q \cup {Head, v} /\ n \in Nodes /\ (n = v => i < h)
    BY <1>1, <2>1, <2>2 DEF Nodes
  <2>4. next'[n][i] = IF i >= h THEN z ELSE IF n = v THEN x ELSE IF n = B THEN v ELSE z
    BY <2>3, InsertEffect
  <2>5. span'[n][i] =
          IF n = v /\ i < h
            THEN (CountTo(S, x) - Count(S, B)) - (Count(S, L) - Count(S, B))
          ELSE IF n = B
            THEN (IF i < h THEN (Count(S, L) - Count(S, B)) + 1
                  ELSE (CountTo(S, x) - Count(S, B)) + 1)
          ELSE span[n][i]
    <3>1. ~(i >= Top(h))
      BY <1>2, <1>7, <2>1
    <3> QED BY <1>4, <2>3, <3>1, InsertEffect
  <2>6. /\ CountTo(T, x) - Count(T, B) = CountTo(S, x) - Count(S, B) + 1
        /\ CountTo(T, v) - Count(T, B) = Count(S, L) - Count(S, B) + 1
        /\ CountTo(T, x) - Count(T, v) = CountTo(S, x) - Count(S, L)
    <3> HIDE DEF S, L, Q, B, x, T
    <3> QED BY <1>1, <1>3, <2>1, SpanWithItem DEF T
  <2>7. span'[n][i] = CountTo(T, next'[n][i]) - Count(T, n)
    <3>1. CASE n = v
      <4>1. next'[n][i] = x
        BY <1>1, <2>1, <2>3, <2>4, <3>1
      <4>2. span'[n][i] = (CountTo(S, x) - Count(S, B)) - (Count(S, L) - Count(S, B))
        BY <2>3, <2>5, <3>1
      <4>3. Count(S, B) \in Nat /\ Count(S, L) \in Nat /\ CountTo(S, x) \in Nat
        BY <1>6
      <4> HIDE DEF S, L, Q, B, x, T
      <4> QED BY <2>6, <3>1, <4>1, <4>2, <4>3
    <3>2. CASE n = B /\ i < h
      <4>1. next'[n][i] = v
        BY <1>1, <2>1, <2>4, <3>2
      <4>2. span'[n][i] = (Count(S, L) - Count(S, B)) + 1
        BY <2>1, <2>5, <3>2
      <4> HIDE DEF S, L, Q, B, x, T
      <4> QED BY <2>6, <3>2, <4>1, <4>2
    <3>3. CASE n = B /\ ~(i < h)
      <4>1. next'[n][i] = x
        BY <1>1, <2>1, <2>4, <3>3
      <4>2. span'[n][i] = (CountTo(S, x) - Count(S, B)) + 1
        BY <2>1, <2>5, <3>3
      <4> HIDE DEF S, L, Q, B, x, T
      <4> QED BY <2>6, <3>3, <4>1, <4>2
    <3>4. CASE n # v /\ n # B
      <4>1. next'[n][i] = z /\ span'[n][i] = span[n][i] /\ n \in Q \cup {Head}
        BY <2>3, <2>4, <2>5, <3>4
      <4>2. i \in Active
        <5>1. i \notin Active => Q = {} /\ B = Head
          BY LayerFacts, NoneAbove
        <5> QED BY <3>4, <4>1, <5>1
      <4>3. IsNext(Q, n, z) /\ span[n][i] = CountTo(S, z) - Count(S, n)
        BY <1>4, <4>1, <4>2, SpanFacts
      <4>4. CountTo(T, z) - Count(T, n) = CountTo(S, z) - Count(S, n)
        <5> HIDE DEF S, L, Q, B, x, T, z
        <5> QED BY <1>1, <1>3, <2>1, <3>4, <4>1, <4>3, SpanWithItem DEF T
      <4> QED BY <4>1, <4>3, <4>4
    <3> QED BY <3>1, <3>2, <3>3, <3>4
  <2>8. span'[n][i] \in Nat
    <3>1. IsNext(Level(i)', n, next'[n][i])
      BY InsertLinks DEF LinksOK
    <3>2. Level(i)' \in SUBSET T
      BY <2>1, <2>2
    <3>3. Count(T, n) <= CountTo(T, next'[n][i])
      <4> HIDE DEF T
      <4> QED BY <1>1, <3>1, <3>2, CountGrows
    <3>4. Count(T, n) \in Nat /\ CountTo(T, next'[n][i]) \in Nat
      <4> HIDE DEF T
      <4> QED BY <1>1, CountType
    <3> HIDE DEF T
    <3> QED BY <2>7, <3>3, <3>4
  <2> QED BY <2>7, <2>8
<1>8. SpansOK'
  <2> SUFFICES ASSUME NEW i \in Active', NEW n \in Level(i)' \cup {Head}
               PROVE  span'[n][i] = RankTo(next[n][i])' - RankOf(n)'
    BY DEF SpansOK
  <2>1. i \in Layers /\ i < Top(h)
    <3>1. i \in 0 .. Top(h) - 1
      BY <1>2 DEF Active
    <3> QED BY <1>2, <3>1
  <2>2. RankOf(n)' = Count(T, n) /\ RankTo(next[n][i])' = CountTo(T, next'[n][i])
    BY <1>1, <1>5 DEF RankOf, RankTo
  <2>3. span'[n][i] = CountTo(T, next'[n][i]) - Count(T, n)
    BY <1>7, <2>1
  <2> QED BY <2>2, <2>3
<1>9. ASSUME NEW n \in Nodes, NEW i \in Layers PROVE span'[n][i] \in Nat
  <2>1. span[n][i] \in Nat
    BY DEF IInv, TypeOK
  <2>2. i \in Nat
    BY InsertLayers
  <2>3. CASE i < Top(h) /\ n \in Level(i)' \cup {Head}
    BY <1>7, <2>3
  <2>4. CASE ~(i < Top(h))
    BY <1>2, <2>1, <2>2, <2>4, InsertEffect
  <2>5. CASE i < Top(h) /\ n \notin Level(i)' \cup {Head}
    <3>1. n # LastOf(i, v) /\ ~(n = v /\ i < h)
      BY <2>5, InsertLayers
    <3>2. span'[n][i] = span[n][i]
      BY <1>2, <2>2, <2>5, <3>1, InsertEffect
    <3> QED BY <2>1, <3>2
  <2> QED BY <2>3, <2>4, <2>5
<1> QED BY <1>8, <1>9

LEMMA InsertKeepsInv ==
  ASSUME IInv, NEW v \in Items, NEW h \in 1 .. MAX_SKIPLIST_LAYER, Insert(v, h)
  PROVE  IInv'
<1>1. height' \in [Items -> 0 .. MAX_SKIPLIST_LAYER]
  <2>1. height' = [height EXCEPT ![v] = h]
    BY InsertEffect
  <2> QED BY <2>1, Constants DEF IInv, TypeOK
<1>2. ASSUME NEW n \in Nodes, NEW i \in Layers PROVE next'[n][i] \in Items \cup {Nil}
  <2>1. \A m \in Nodes : next[m][i] \in Items \cup {Nil}
    BY DEF IInv, TypeOK
  <2>2. LastOf(i, v) \in Nodes
    BY InsertLayers
  <2>3. next'[n][i] = IF i >= h THEN next[n][i] ELSE IF n = v THEN next[LastOf(i, v)][i]
                      ELSE IF n = LastOf(i, v) THEN v ELSE next[n][i]
    BY InsertEffect
  <2> QED BY <2>1, <2>2, <2>3
<1>3. ASSUME NEW n \in Items, NEW i \in Layers PROVE prev'[n][i] \in Nodes \cup {Nil}
  <2>1. prev[n][i] \in Nodes \cup {Nil} /\ v \in Nodes
    BY DEF IInv, TypeOK, Nodes
  <2>2. LastOf(i, v) \in Nodes
    BY InsertLayers
  <2>3. prev'[n][i] = IF i >= h THEN prev[n][i] ELSE IF n = v THEN LastOf(i, v)
                      ELSE IF n = next[LastOf(i, v)][i] THEN v ELSE prev[n][i]
    BY InsertEffect
  <2> QED BY <2>1, <2>2, <2>3
<1>4. next' \in [Nodes -> [Layers -> Items \cup {Nil}]]
  <2>1. next' = [n \in Nodes |-> [i \in Layers |-> next'[n][i]]]
    BY InsertEffect
  <2>2. \A n \in Nodes : [i \in Layers |-> next'[n][i]] \in [Layers -> Items \cup {Nil}]
    BY <1>2
  <2> QED BY <2>1, <2>2
<1>5. prev' \in [Items -> [Layers -> Nodes \cup {Nil}]]
  <2>1. prev' = [n \in Items |-> [i \in Layers |-> prev'[n][i]]]
    BY InsertEffect
  <2>2. \A n \in Items : [i \in Layers |-> prev'[n][i]] \in [Layers -> Nodes \cup {Nil}]
    BY <1>3
  <2> QED BY <2>1, <2>2
<1>6. span' \in [Nodes -> [Layers -> Nat]]
  <2>1. span' = [n \in Nodes |-> [i \in Layers |-> span'[n][i]]]
    BY InsertEffect
  <2>2. \A n \in Nodes : [i \in Layers |-> span'[n][i]] \in [Layers -> Nat]
    BY InsertSpans
  <2> QED BY <2>1, <2>2
<1>7. curr_layer' \in 1 .. MAX_SKIPLIST_LAYER
  BY InsertEffect, InsertSearch
<1>8. TypeOK'
  BY <1>1, <1>4, <1>5, <1>6, <1>7, InsertSizes DEF TypeOK
<1> QED BY <1>8, InsertLinks, InsertBacks, InsertSpans, InsertSizes DEF IInv

-----------------------------------------------------------------------------
(* Delete. *)

\* The back links of a node lead to where a search for it ends.
LEMMA BackIsLast ==
  ASSUME IInv, NEW i \in Layers, NEW v \in Level(i)
  PROVE  /\ prev[v][i] = LastOf(i, v) /\ next[LastOf(i, v)][i] = v
         /\ LastOf(i, v) \in Level(i) \cup {Head} /\ LastOf(i, v) # v
         /\ i \in Active
<1> DEFINE p == prev[v][i]
           Q == Level(i)
<1>1. Q \in SUBSET Items /\ v \in Items /\ i \in Active
  BY LayerFacts
<1>2. p \in Q \cup {Head} /\ next[p][i] = v
  BY DEF IInv, BacksOK
<1>3. IsNext(Q, p, v)
  BY <1>2 DEF IInv, LinksOK
<1>4. IsLast(Q, v, p)
  <2> HIDE DEF p, Q
  <2> QED BY <1>1, <1>2, <1>3, FollowedIsLast DEF Q
<1>5. p = LastOf(i, v)
  BY <1>1, <1>4, LastOfIsLast
<1>6. p # v
  <2>1. Before(p, v) /\ v \in Int /\ v # Head
    BY <1>1, <1>4, Constants DEF IsLast
  <2> QED BY <2>1 DEF Before
<1> QED BY <1>1, <1>2, <1>5, <1>6

LEMMA DeleteEffect ==
  ASSUME IInv, NEW v \in Items, Delete(v)
  PROVE  /\ v \in InList
         /\ height' = [height EXCEPT ![v] = 0]
         /\ curr_layer' = IF curr_layer > 1 /\ next'[Head][curr_layer - 1] = Nil
                            THEN curr_layer - 1 ELSE curr_layer
         /\ curr_length' = curr_length - 1
         /\ next' = [n \in Nodes |-> [i \in Layers |-> next'[n][i]]]
         /\ prev' = [n \in Items |-> [i \in Layers |-> prev'[n][i]]]
         /\ span' = [n \in Nodes |-> [i \in Layers |-> span'[n][i]]]
         /\ \A i \in Layers : LET B == LastOf(i, v) IN
            /\ \A n \in Nodes : next'[n][i] =
                 IF n = v THEN Nil
                 ELSE IF v \in Level(i) /\ n = B THEN next[v][i] ELSE next[n][i]
            /\ \A n \in Items : prev'[n][i] =
                 IF n = v THEN Nil
                 ELSE IF v \in Level(i) /\ n = next[v][i] THEN B ELSE prev[n][i]
            /\ \A n \in Nodes : span'[n][i] =
                 IF n = v THEN 0
                 ELSE IF v \in Level(i) /\ n = B THEN span[n][i] + span[v][i] - 1
                 ELSE IF i \in Active /\ v \notin Level(i) /\ n = B THEN span[n][i] - 1
                 ELSE span[n][i]
<1> DEFINE at == Descent(v)
           linked(i) == i \in Active /\ i < height[v]
           nextN(n, i) == IF n = v THEN Nil
             ELSE IF linked(i) /\ n = prev[v][i] THEN next[v][i] ELSE next[n][i]
           prevN(n, i) == IF n = v THEN Nil
             ELSE IF linked(i) /\ n = next[v][i] THEN prev[v][i] ELSE prev[n][i]
           spanN(n, i) == IF n = v THEN 0
             ELSE IF linked(i) /\ n = prev[v][i] THEN span[n][i] + span[v][i] - 1
             ELSE IF i \in Active /\ ~linked(i) /\ n = at[i].node THEN SpanUnder(span[n][i])
             ELSE span[n][i]
<1>1. /\ next' = [n \in Nodes |-> [i \in Layers |-> nextN(n, i)]]
      /\ prev' = [n \in Items |-> [i \in Layers |-> prevN(n, i)]]
      /\ span' = [n \in Nodes |-> [i \in Layers |-> spanN(n, i)]]
      /\ curr_layer' = Lowered(next'[Head][curr_layer - 1] = Nil)
      /\ height' = [height EXCEPT ![v] = 0]
      /\ curr_length' = curr_length - 1
  BY DEF Delete, DeleteNode
<1>2. v \in InList
  BY GetNodeFinds DEF Delete
<1>3. ASSUME NEW i \in Layers
      PROVE  /\ linked(i) <=> v \in Level(i)
             /\ v \in Level(i) => prev[v][i] = LastOf(i, v)
             /\ i \in Active => at[i].node = LastOf(i, v)
  <2>1. v \in Level(i) <=> height[v] > i
    BY DEF Level
  <2>2. v \in Level(i) => i \in Active /\ prev[v][i] = LastOf(i, v)
    BY BackIsLast
  <2>3. height[v] \in Nat /\ i \in Nat
    BY LayerFacts, Constants DEF IInv, TypeOK
  <2>4. i \in Active => at[i].node = LastOf(i, v)
    BY DescentEnds
  <2> QED BY <2>1, <2>2, <2>3, <2>4
<1> HIDE DEF linked, at
<1>4. ASSUME NEW i \in Layers
      PROVE  LET B == LastOf(i, v) IN
            /\ \A n \in Nodes : next'[n][i] =
                 IF n = v THEN Nil
                 ELSE IF v \in Level(i) /\ n = B THEN next[v][i] ELSE next[n][i]
            /\ \A n \in Items : prev'[n][i] =
                 IF n = v THEN Nil
                 ELSE IF v \in Level(i) /\ n = next[v][i] THEN B ELSE prev[n][i]
            /\ \A n \in Nodes : span'[n][i] =
                 IF n = v THEN 0
                 ELSE IF v \in Level(i) /\ n = B THEN span[n][i] + span[v][i] - 1
                 ELSE IF i \in Active /\ v \notin Level(i) /\ n = B THEN span[n][i] - 1
                 ELSE span[n][i]
  <2>1. \A n \in Nodes : next'[n][i] =
          IF n = v THEN Nil
          ELSE IF v \in Level(i) /\ n = LastOf(i, v) THEN next[v][i] ELSE next[n][i]
    BY <1>1, <1>3
  <2>2. \A n \in Items : prev'[n][i] =
          IF n = v THEN Nil
          ELSE IF v \in Level(i) /\ n = next[v][i] THEN LastOf(i, v) ELSE prev[n][i]
    BY <1>1, <1>3
  <2>3. \A n \in Nodes : span'[n][i] =
          IF n = v THEN 0
          ELSE IF v \in Level(i) /\ n = LastOf(i, v) THEN span[n][i] + span[v][i] - 1
          ELSE IF i \in Active /\ v \notin Level(i) /\ n = LastOf(i, v) THEN span[n][i] - 1
          ELSE span[n][i]
    BY <1>1, <1>3 DEF SpanUnder
  <2> QED BY <2>1, <2>2, <2>3
<1>5. /\ next' = [n \in Nodes |-> [i \in Layers |-> next'[n][i]]]
      /\ prev' = [n \in Items |-> [i \in Layers |-> prev'[n][i]]]
      /\ span' = [n \in Nodes |-> [i \in Layers |-> span'[n][i]]]
  <2> HIDE DEF nextN, prevN, spanN
  <2> QED BY <1>1
<1>6. curr_layer' = IF curr_layer > 1 /\ next'[Head][curr_layer - 1] = Nil
                      THEN curr_layer - 1 ELSE curr_layer
  BY <1>1 DEF Lowered
<1> QED BY <1>1, <1>2, <1>4, <1>5, <1>6

\* The node leaves its layers, and nothing else moves.
LEMMA DeleteLayers ==
  ASSUME IInv, NEW v \in Items, Delete(v)
  PROVE  /\ InList' = InList \ {v} /\ v \in InList /\ InList \in SUBSET Items
         /\ \A i \in Layers : /\ Level(i)' = Level(i) \ {v}
                              /\ i \in Nat /\ Level(i) \in SUBSET InList
                              /\ LastOf(i, v) \in Level(i) \cup {Head}
                              /\ IsLast(Level(i), v, LastOf(i, v))
                              /\ LastOf(i, v) # v /\ LastOf(i, v) \in Nodes
<1>1. v \in InList /\ height' = [height EXCEPT ![v] = 0]
  BY DeleteEffect
<1>2. height \in [Items -> Nat]
  BY Constants DEF IInv, TypeOK
<1>3. height'[v] = 0 /\ \A w \in Items : w # v => height'[w] = height[w]
  BY <1>1, <1>2
<1>4. InList' = InList \ {v}
  BY <1>1, <1>3 DEF InList
<1>5. InList \in SUBSET Items /\ \A i \in Layers : i \in Nat /\ Level(i) \in SUBSET InList
  BY LayerFacts
<1>6. ASSUME NEW i \in Layers PROVE Level(i)' = Level(i) \ {v}
  <2>1. Level(i)' = {w \in Items : height'[w] > i}
    BY DEF Level
  <2>2. i \in Nat
    BY <1>5
  <2> QED BY <1>3, <2>1, <2>2 DEF Level
<1>7. ASSUME NEW i \in Layers
      PROVE  /\ LastOf(i, v) \in Level(i) \cup {Head} /\ IsLast(Level(i), v, LastOf(i, v))
             /\ LastOf(i, v) # v /\ LastOf(i, v) \in Nodes
  <2>1. LastOf(i, v) \in Level(i) \cup {Head} /\ IsLast(Level(i), v, LastOf(i, v))
    BY LastOfIsLast
  <2>2. LastOf(i, v) # v
    BY <2>1, Constants DEF IsLast, Before
  <2> QED BY <2>1, <2>2 DEF Nodes, Level
<1> QED BY <1>1, <1>4, <1>5, <1>6, <1>7

LEMMA DeleteLinks ==
  ASSUME IInv, NEW v \in Items, Delete(v)
  PROVE  LinksOK' /\ NoLinks'
<1>1. ASSUME NEW i \in Layers, NEW n \in Level(i)' \cup {Head}
      PROVE  IsNext(Level(i)', n, next'[n][i])
  <2> DEFINE Q == Level(i)
             B == LastOf(i, v)
             x == next[n][i]
             y == next[v][i]
  <2>1. /\ Q' = Q \ {v} /\ Q \in SUBSET Items /\ n \in (Q \ {v}) \cup {Head}
        /\ n \in Nodes /\ n # v /\ n \in Q \cup {Head}
    BY DeleteLayers, Constants DEF Nodes
  <2>2. IsNext(Q, n, x)
    BY <2>1 DEF IInv, LinksOK
  <2>3. next'[n][i] = IF v \in Q /\ n = B THEN y ELSE x
    BY <2>1, DeleteEffect
  <2>4. CASE v \notin Q
    BY <2>1, <2>2, <2>3, <2>4
  <2>5. CASE v \in Q
    <3>1. IsNext(Q, v, y)
      BY <2>5 DEF IInv, LinksOK
    <3>2. B \in Q \cup {Head} /\ next[B][i] = v
      BY <2>5, BackIsLast
    <3>3. x = v <=> n = B
      <4>1. IsNext(Q, B, v)
        BY <3>2 DEF IInv, LinksOK
      <4>2. x = v => n = B
        <5> HIDE DEF Q, B, x
        <5> QED BY <2>1, <2>2, <2>5, <3>2, <4>1, NextInjective
      <4> QED BY <3>2, <4>2
    <3>4. /\ x = v => IsNext(Q \ {v}, n, y)
          /\ x # v => IsNext(Q \ {v}, n, x)
      <4> HIDE DEF Q, x, y
      <4> QED BY <2>1, <2>2, <2>5, <3>1, NextWithoutItem
    <3>5. IsNext(Q \ {v}, n, next'[n][i])
      <4> HIDE DEF Q, x, y, B
      <4> QED BY <2>3, <2>5, <3>3, <3>4
    <3> QED BY <2>1, <3>5
  <2> QED BY <2>4, <2>5
<1>2. ASSUME NEW i \in Layers, NEW n \in Items, n \notin Level(i)' PROVE next'[n][i] = Nil
  <2>1. next'[n][i] = IF n = v THEN Nil
          ELSE IF v \in Level(i) /\ n = LastOf(i, v) THEN next[v][i] ELSE next[n][i]
    BY DeleteEffect DEF Nodes
  <2>2. n = v \/ n \notin Level(i)
    BY <1>2, DeleteLayers
  <2>3. CASE n = v
    BY <2>1, <2>3
  <2>4. CASE n # v /\ n \notin Level(i)
    <3>1. n # LastOf(i, v)
      BY <2>4, DeleteLayers, Constants
    <3>2. next[n][i] = Nil
      BY <2>4 DEF IInv, NoLinks
    <3> QED BY <2>1, <2>4, <3>1, <3>2
  <2> QED BY <2>2, <2>3, <2>4
<1> QED BY <1>1, <1>2 DEF LinksOK, NoLinks

LEMMA DeleteBacks ==
  ASSUME IInv, NEW v \in Items, Delete(v)
  PROVE  BacksOK'
<1> SUFFICES ASSUME NEW i \in Layers, NEW w \in Level(i)'
             PROVE  prev'[w][i] \in Level(i)' \cup {Head} /\ next'[prev'[w][i]][i] = w
  BY DEF BacksOK
<1> DEFINE Q == Level(i)
           B == LastOf(i, v)
           y == next[v][i]
           p == prev[w][i]
<1>1. /\ Level(i)' = Q \ {v} /\ Q \in SUBSET Items /\ w \in Q /\ w # v /\ w \in Items
      /\ B \in Q \cup {Head} /\ B # v /\ B \in Nodes /\ w # Nil /\ v # Head
  BY DeleteLayers, Constants
<1>2. \A n \in Nodes : next'[n][i] =
        IF n = v THEN Nil ELSE IF v \in Q /\ n = B THEN y ELSE next[n][i]
  BY DeleteEffect
<1>3. prev'[w][i] = IF v \in Q /\ w = y THEN B ELSE p
  BY <1>1, DeleteEffect
<1>4. p \in Q \cup {Head} /\ next[p][i] = w /\ p \in Nodes
  BY <1>1 DEF IInv, BacksOK, Nodes
<1>5. CASE v \in Q /\ w = y
  BY <1>1, <1>2, <1>3, <1>5
<1>6. CASE ~(v \in Q /\ w = y)
  <2>1. p # v
    BY <1>4, <1>6, Constants
  <2>2. v \in Q => p # B
    BY <1>1, <1>4, BackIsLast
  <2>3. prev'[w][i] = p
    BY <1>3, <1>6
  <2>4. next'[p][i] = w
    BY <1>2, <1>4, <2>1, <2>2
  <2> QED BY <1>1, <1>4, <2>1, <2>3, <2>4
<1> QED BY <1>5, <1>6

LEMMA DeleteSizes ==
  ASSUME IInv, NEW v \in Items, Delete(v)
  PROVE  /\ LengthOK' /\ HeightsOK' /\ curr_length' \in 0 .. Cardinality(Items)
         /\ curr_layer' \in 1 .. MAX_SKIPLIST_LAYER /\ curr_layer' <= curr_layer
<1>1. InList' = InList \ {v} /\ v \in InList /\ InList \in SUBSET Items
  BY DeleteLayers
<1>2. Cardinality(InList \ {v}) = Cardinality(InList) - 1
  BY <1>1, FiniteItems, FS_RemoveElement
<1>3. LengthOK'
  BY <1>1, <1>2, DeleteEffect DEF IInv, LengthOK
<1>4. curr_length' \in 0 .. Cardinality(Items)
  <2>1. InList' \in SUBSET Items /\ Items \in SUBSET Items
    BY <1>1
  <2>2. Cardinality(InList') <= Cardinality(Items)
    BY <2>1, FewerItems
  <2>3. Cardinality(InList') \in Nat /\ Cardinality(Items) \in Nat
    BY <2>1, FiniteItems
  <2> QED BY <1>3, <2>2, <2>3 DEF LengthOK
<1>5. /\ curr_layer \in Nat /\ curr_layer >= 1 /\ curr_layer <= MAX_SKIPLIST_LAYER
      /\ MAX_SKIPLIST_LAYER \in Nat
  BY LayerFacts, Constants
<1>6. curr_layer' = IF curr_layer > 1 /\ next'[Head][curr_layer - 1] = Nil
                      THEN curr_layer - 1 ELSE curr_layer
  BY DeleteEffect
<1>7. curr_layer' \in 1 .. MAX_SKIPLIST_LAYER /\ curr_layer' <= curr_layer
  BY <1>5, <1>6
<1>8. HeightsOK'
  <2>1. height' = [height EXCEPT ![v] = 0]
    BY DeleteEffect
  <2>2. height \in [Items -> Nat] /\ \A w \in Items : height[w] <= curr_layer
    BY Constants DEF IInv, TypeOK, HeightsOK
  <2>3. height' \in [Items -> Nat] /\ \A w \in Items : height'[w] <= curr_layer
    BY <1>5, <2>1, <2>2
  <2>4. CASE curr_layer' = curr_layer
    BY <2>3, <2>4 DEF HeightsOK
  <2>5. CASE curr_layer' # curr_layer
    <3>0. PICK top \in Layers : top = curr_layer - 1
      BY LayerFacts
    <3>1. next'[Head][top] = Nil /\ curr_layer' = top /\ top \in Int
      BY <1>5, <1>6, <2>5, <3>0
    <3>3. IsNext(Level(top)', Head, Nil)
      <4>1. IsNext(Level(top)', Head, next'[Head][top])
        BY DeleteLinks DEF LinksOK
      <4> QED BY <3>1, <4>1
    <3>4. Level(top)' = {}
      <4>1. Nil \notin Level(top)'
        BY Constants DEF Level
      <4>2. ASSUME NEW w \in Level(top)' PROVE FALSE
        <5>1. ~Before(Head, w)
          BY <3>3, <4>1 DEF IsNext
        <5> QED BY <5>1 DEF Before
      <4> QED BY <4>2
    <3>5. \A w \in Items : ~(height'[w] > top)
      BY <3>4 DEF Level
    <3>6. \A w \in Items : height'[w] <= top
      BY <2>3, <3>1, <3>5
    <3> QED BY <3>1, <3>6 DEF HeightsOK
  <2> QED BY <2>4, <2>5
<1> QED BY <1>3, <1>4, <1>7, <1>8

LEMMA DeleteSpans ==
  ASSUME IInv, NEW v \in Items, Delete(v)
  PROVE  SpansOK' /\ \A n \in Nodes, i \in Layers : span'[n][i] \in Nat
<1>0. Active' \subseteq Active
  <2>1. PICK c \in Int : c = curr_layer'
    BY DeleteSizes
  <2>2. curr_layer \in Int /\ c <= curr_layer
    BY <2>1, DeleteSizes, LayerFacts
  <2>3. Active' = 0 .. c - 1
    BY <2>1 DEF Active
  <2>4. 0 .. c - 1 \subseteq 0 .. curr_layer - 1
    BY <2>2
  <2> QED BY <2>3, <2>4 DEF Active
<1> DEFINE S == InList
           T == S \ {v}
<1>1. S \in SUBSET Items /\ v \in S /\ InList' = T /\ T \in SUBSET Items
  BY DeleteLayers
<1>2. \A n : RankOf(n) = Count(S, n) /\ RankTo(n) = CountTo(S, n)
  BY RanksAreCounts
<1>3. ASSUME NEW x PROVE (IF x = Nil THEN curr_length' ELSE Count(T, x)) = CountTo(T, x)
  BY <1>1, DeleteSizes DEF LengthOK, CountTo
<1>4. ASSUME NEW i \in Active, NEW n \in Level(i)' \cup {Head}
      PROVE  /\ span'[n][i] = CountTo(T, next'[n][i]) - Count(T, n)
             /\ span'[n][i] \in Nat
  <2> DEFINE Q == Level(i)
             B == LastOf(i, v)
             x == next[n][i]
             y == next[v][i]
  <2>0. i \in Layers
    BY LayerFacts
  <2>1. /\ Q' = Q \ {v} /\ Q \in SUBSET S /\ IsLast(Q, v, B) /\ B # v
        /\ n \in (Q \ {v}) \cup {Head} /\ n \in Q \cup {Head} /\ n # v /\ n \in Nodes
    BY <2>0, DeleteLayers, Constants DEF Nodes
  <2>2. IsNext(Q, n, x) /\ span[n][i] = CountTo(S, x) - Count(S, n)
    BY <1>2, <2>1, SpanFacts
  <2>3. v \in Q => IsNext(Q, v, y) /\ span[v][i] = CountTo(S, y) - Count(S, v)
    BY <1>2, SpanFacts
  <2>4. next'[n][i] = IF v \in Q /\ n = B THEN y ELSE x
    BY <2>0, <2>1, DeleteEffect
  <2>5. span'[n][i] =
          IF v \in Q /\ n = B THEN span[n][i] + span[v][i] - 1
          ELSE IF v \notin Q /\ n = B THEN span[n][i] - 1
          ELSE span[n][i]
    BY <2>0, <2>1, DeleteEffect
  <2>6. /\ n # B => x # v /\ CountTo(T, x) - Count(T, n) = CountTo(S, x) - Count(S, n)
        /\ n = B /\ v \notin Q =>
             CountTo(T, x) - Count(T, n) = CountTo(S, x) - Count(S, n) - 1
        /\ n = B /\ v \in Q =>
             /\ x = v
             /\ CountTo(T, y) - Count(T, n) =
                  (CountTo(S, v) - Count(S, n)) + (CountTo(S, y) - Count(S, v)) - 1
    <3>1. IsNext(Q, n, x) /\ (v \in Q => IsNext(Q, v, y))
      BY <2>2, <2>3
    <3> HIDE DEF S, Q, B, x, y, T
    <3>2. /\ S \in SUBSET Items /\ v \in S /\ Q \in SUBSET S
          /\ n \in Q \cup {Head} /\ n # v /\ IsLast(Q, v, B)
      BY <1>1, <2>1
    <3>3. GapsWithoutItem(S, v, Q, n, x, B)
      BY <3>1, <3>2, SpanWithoutItem
    <3> QED BY <3>1, <3>3 DEF T, GapsWithoutItem
  <2>7. span'[n][i] = CountTo(T, next'[n][i]) - Count(T, n)
    <3> HIDE DEF S, Q, B, x, y, T
    <3>1. CASE n # B
      BY <2>2, <2>4, <2>5, <2>6, <3>1
    <3>2. CASE n = B /\ v \notin Q
      BY <2>2, <2>4, <2>5, <2>6, <3>2
    <3>3. CASE n = B /\ v \in Q
      BY <2>2, <2>3, <2>4, <2>5, <2>6, <3>3
    <3> QED BY <3>1, <3>2, <3>3
  <2>8. span'[n][i] \in Nat
    <3>1. IsNext(Level(i)', n, next'[n][i])
      BY <2>0, DeleteLinks DEF LinksOK
    <3>2. Level(i)' \in SUBSET T
      BY <2>1
    <3>3. Count(T, n) <= CountTo(T, next'[n][i])
      <4> HIDE DEF T
      <4> QED BY <1>1, <3>1, <3>2, CountGrows
    <3>4. Count(T, n) \in Nat /\ CountTo(T, next'[n][i]) \in Nat
      <4> HIDE DEF T
      <4> QED BY <1>1, CountType
    <3> HIDE DEF T
    <3> QED BY <2>7, <3>3, <3>4
  <2> QED BY <2>7, <2>8
<1>5. SpansOK'
  <2> SUFFICES ASSUME NEW i \in Active', NEW n \in Level(i)' \cup {Head}
               PROVE  span'[n][i] = RankTo(next[n][i])' - RankOf(n)'
    BY DEF SpansOK
  <2>1. i \in Active
    BY <1>0
  <2>2. RankOf(n)' = Count(T, n) /\ RankTo(next[n][i])' = CountTo(T, next'[n][i])
    BY <1>1, <1>3 DEF RankOf, RankTo
  <2>3. span'[n][i] = CountTo(T, next'[n][i]) - Count(T, n)
    BY <1>4, <2>1
  <2> QED BY <2>2, <2>3
<1>6. ASSUME NEW n \in Nodes, NEW i \in Layers PROVE span'[n][i] \in Nat
  <2>1. span[n][i] \in Nat
    BY DEF IInv, TypeOK
  <2>2. CASE i \in Active /\ n \in Level(i)' \cup {Head}
    BY <1>4, <2>2
  <2>3. CASE ~(i \in Active /\ n \in Level(i)' \cup {Head})
    <3>1. n = v \/ ~(i \in Active /\ n = LastOf(i, v))
      BY <2>3, DeleteLayers
    <3>2. v \in Level(i) => i \in Active
      BY LayerFacts
    <3>3. span'[n][i] = 0 \/ span'[n][i] = span[n][i]
      BY <3>1, <3>2, DeleteEffect
    <3> QED BY <2>1, <3>3
  <2> QED BY <2>2, <2>3
<1> QED BY <1>5, <1>6

LEMMA DeleteKeepsInv ==
  ASSUME IInv, NEW v \in Items, Delete(v)
  PROVE  IInv'
<1>1. height' \in [Items -> 0 .. MAX_SKIPLIST_LAYER]
  <2>1. height' = [height EXCEPT ![v] = 0]
    BY DeleteEffect
  <2> QED BY <2>1, Constants DEF IInv, TypeOK
<1>2. ASSUME NEW n \in Nodes, NEW i \in Layers PROVE next'[n][i] \in Items \cup {Nil}
  <2>1. \A m \in Nodes : next[m][i] \in Items \cup {Nil}
    BY DEF IInv, TypeOK
  <2>2. next'[n][i] = IF n = v THEN Nil
          ELSE IF v \in Level(i) /\ n = LastOf(i, v) THEN next[v][i] ELSE next[n][i]
    BY DeleteEffect
  <2>3. v \in Nodes
    BY DEF Nodes
  <2> QED BY <2>1, <2>2, <2>3
<1>3. ASSUME NEW n \in Items, NEW i \in Layers PROVE prev'[n][i] \in Nodes \cup {Nil}
  <2>1. prev[n][i] \in Nodes \cup {Nil}
    BY DEF IInv, TypeOK
  <2>2. LastOf(i, v) \in Nodes
    BY DeleteLayers
  <2>3. prev'[n][i] = IF n = v THEN Nil
          ELSE IF v \in Level(i) /\ n = next[v][i] THEN LastOf(i, v) ELSE prev[n][i]
    BY DeleteEffect
  <2> QED BY <2>1, <2>2, <2>3
<1>4. next' \in [Nodes -> [Layers -> Items \cup {Nil}]]
  <2>1. next' = [n \in Nodes |-> [i \in Layers |-> next'[n][i]]]
    BY DeleteEffect
  <2>2. \A n \in Nodes : [i \in Layers |-> next'[n][i]] \in [Layers -> Items \cup {Nil}]
    BY <1>2
  <2> QED BY <2>1, <2>2
<1>5. prev' \in [Items -> [Layers -> Nodes \cup {Nil}]]
  <2>1. prev' = [n \in Items |-> [i \in Layers |-> prev'[n][i]]]
    BY DeleteEffect
  <2>2. \A n \in Items : [i \in Layers |-> prev'[n][i]] \in [Layers -> Nodes \cup {Nil}]
    BY <1>3
  <2> QED BY <2>1, <2>2
<1>6. span' \in [Nodes -> [Layers -> Nat]]
  <2>1. span' = [n \in Nodes |-> [i \in Layers |-> span'[n][i]]]
    BY DeleteEffect
  <2>2. \A n \in Nodes : [i \in Layers |-> span'[n][i]] \in [Layers -> Nat]
    BY DeleteSpans
  <2> QED BY <2>1, <2>2
<1>7. TypeOK'
  BY <1>1, <1>4, <1>5, <1>6, DeleteSizes DEF TypeOK
<1> QED BY <1>7, DeleteLinks, DeleteBacks, DeleteSpans, DeleteSizes DEF IInv

-----------------------------------------------------------------------------
(* The theorems. *)

LEMMA InitInv == Init => IInv
<1> SUFFICES ASSUME Init PROVE IInv
  OBVIOUS
<1>1. \A v \in Items : height[v] = 0
  BY DEF Init
<1>2. ASSUME NEW i \in Layers PROVE Level(i) = {}
  <2>1. i \in Nat
    BY Constants DEF Layers
  <2>2. \A v \in Items : ~(height[v] > i)
    BY <1>1, <2>1
  <2> QED BY <2>2 DEF Level
<1>3. InList = {} /\ curr_length = 0 /\ curr_layer = 1
  BY <1>1 DEF InList, Init
<1>4. Cardinality(Items) \in Nat
  BY FiniteItems
<1>5. TypeOK
  BY <1>4, Constants DEF Init, TypeOK
<1>6. \A n \in Nodes, i \in Layers : next[n][i] = Nil /\ span[n][i] = 0
  BY DEF Init
<1>7. Head \in Nodes
  BY DEF Nodes
<1>8. LinksOK
  BY <1>2, <1>6, <1>7 DEF LinksOK, IsNext
<1>9. BacksOK /\ NoLinks
  BY <1>2, <1>6 DEF BacksOK, NoLinks, Nodes
<1>10. LengthOK
  BY <1>3, FS_EmptySet DEF LengthOK
<1>11. HeightsOK
  BY <1>1, <1>3 DEF HeightsOK
<1>12. SpansOK
  <2>1. Active \subseteq Layers
    BY <1>3, Constants DEF Active, Layers
  <2> SUFFICES ASSUME NEW i \in Active, NEW n \in Level(i) \cup {Head}
               PROVE  span[n][i] = RankTo(next[n][i]) - RankOf(n)
    BY DEF SpansOK
  <2>2. n = Head /\ next[n][i] = Nil /\ span[n][i] = 0
    BY <1>2, <1>6, <1>7, <2>1
  <2> QED BY <1>3, <2>2, HeadRank DEF RankTo
<1> QED BY <1>5, <1>8, <1>9, <1>10, <1>11, <1>12 DEF IInv

LEMMA NextInv == IInv /\ [Next]_vars => IInv'
<1> SUFFICES ASSUME IInv, [Next]_vars PROVE IInv'
  OBVIOUS
<1>1. ASSUME NEW v \in Items, NEW h \in 1 .. MAX_SKIPLIST_LAYER, Insert(v, h) PROVE IInv'
  BY <1>1, InsertKeepsInv
<1>2. ASSUME NEW v \in Items, Delete(v) PROVE IInv'
  BY <1>2, DeleteKeepsInv
<1>3. CASE UNCHANGED vars
  <2>1. TypeOK' /\ NoLinks' /\ HeightsOK' /\ LengthOK'
    BY <1>3 DEF vars, IInv, TypeOK, NoLinks, HeightsOK, LengthOK, Level, InList
  <2>2. LinksOK'
    BY <1>3 DEF vars, IInv, LinksOK, Level
  <2>3. BacksOK'
    BY <1>3 DEF vars, IInv, BacksOK, Level
  <2>4. SpansOK'
    BY <1>3 DEF vars, IInv, SpansOK, Level, Active, InList, RankTo, RankOf
  <2> QED BY <2>1, <2>2, <2>3, <2>4 DEF IInv
<1> QED BY <1>1, <1>2, <1>3 DEF Next

LEMMA Invariance == Spec => []IInv
<1> QED BY InitInv, NextInv, PTL DEF Spec

\* The pointers, spans and counters of the list keep their types through any inserts
\* and deletes: a span never becomes negative.
THEOREM TypeCorrect == Spec => []TypeOK
<1>1. IInv => TypeOK
  BY DEF IInv
<1> QED BY <1>1, Invariance, PTL

\* Nothing hangs above curr_layer, although DeleteNode lowers it by one layer at most:
\* a layer given up has no links and no node reaches it.
THEOREM EmptyAbove == Spec => []NothingAboveCurrLayer
<1>1. ASSUME IInv PROVE NothingAboveCurrLayer
  <2> SUFFICES ASSUME NEW i \in Layers \ Active
               PROVE  next[Head][i] = Nil /\ \A v \in InList : height[v] <= i
    BY DEF NothingAboveCurrLayer
  <2>1. Level(i) = {}
    BY <1>1, LayerFacts
  <2>2. next[Head][i] = Nil
    BY <1>1, <2>1 DEF IInv, LinksOK, IsNext
  <2>3. ASSUME NEW v \in InList PROVE height[v] <= i
    <3>1. v \in Items /\ ~(height[v] > i)
      BY <2>1 DEF InList, Level
    <3>2. height[v] \in Int /\ i \in Int
      BY <1>1, <3>1, LayerFacts, Constants DEF IInv, TypeOK
    <3> QED BY <3>1, <3>2
  <2> QED BY <2>2, <2>3
<1> QED BY <1>1, Invariance, PTL

\* Every layer can be walked back as it can be walked forth, so that DeleteNode, which
\* unlinks through prev, finds the right nodes.
THEOREM BackAndForth == Spec => []PrevIsInverse
<1>1. ASSUME IInv PROVE PrevIsInverse
  <2> SUFFICES ASSUME NEW n \in InList \cup {Head}, NEW v \in InList, NEW i \in Active
               PROVE  next[n][i] = v <=> (i < height[v] /\ prev[v][i] = n)
    BY DEF PrevIsInverse
  <2>1. /\ i \in Layers /\ i \in Nat /\ v \in Items /\ v # Nil /\ Level(i) \in SUBSET Items
        /\ InList \in SUBSET Items
    BY <1>1, LayerFacts, Constants
  <2>2. v \in Level(i) <=> i < height[v]
    <3>1. height[v] \in Int
      BY <1>1, <2>1, Constants DEF IInv, TypeOK
    <3> QED BY <2>1, <3>1 DEF Level
  <2>3. v \in Level(i) =>
          /\ prev[v][i] \in Level(i) \cup {Head} /\ next[prev[v][i]][i] = v
    BY <1>1, <2>1 DEF IInv, BacksOK
  <2>4. ASSUME next[n][i] = v PROVE v \in Level(i) /\ prev[v][i] = n
    <3>1. n \in Level(i) \cup {Head}
      BY <1>1, <2>1, <2>4 DEF IInv, NoLinks
    <3>2. IsNext(Level(i), n, v)
      BY <1>1, <2>1, <2>4, <3>1 DEF IInv, LinksOK
    <3>3. v \in Level(i)
      BY <2>1, <3>2 DEF IsNext
    <3>4. IsNext(Level(i), prev[v][i], v)
      BY <1>1, <2>1, <2>3, <3>3 DEF IInv, LinksOK
    <3> QED BY <2>1, <2>3, <3>1, <3>2, <3>3, <3>4, NextInjective
  <2> QED BY <2>2, <2>3, <2>4
<1> QED BY <1>1, Invariance, PTL

\* A search finds what is in the list and nothing else, so that Delete returns false for
\* exactly the items that are not there.
ItemsAreFound == \A v \in Items : GetNode(v) # Nil <=> v \in InList

THEOREM SearchFindsItems == Spec => []ItemsAreFound
<1>1. IInv => ItemsAreFound
  BY GetNodeFinds DEF ItemsAreFound
<1> QED BY <1>1, Invariance, PTL

-----------------------------------------------------------------------------
(* The list implements SortedItems. *)

RanksCount == \A v \in InList : GetRank(v) = Sorted!RankIn(InList, v)

LEMMA RanksRight == IInv => RanksCount
<1> SUFFICES ASSUME IInv, NEW v \in InList PROVE GetRank(v) = Sorted!RankIn(InList, v)
  BY DEF RanksCount
<1>1. GetRank(v) = RankOf(v) /\ RankOf(v) = Cardinality({w \in InList : w >= v})
  BY GetRankCounts
<1> QED BY <1>1 DEF Sorted!RankIn, Sorted!Cardinality, Cardinality

LEMMA SortedInit == Init => Sorted!Init
<1> SUFFICES ASSUME Init PROVE Sorted!Init
  OBVIOUS
<1>1. InList = {}
  BY DEF Init, InList
<1> QED BY <1>1 DEF Sorted!Init

LEMMA SortedStep ==
  ASSUME IInv, RanksCount', [Next]_vars
  PROVE  Sorted!Next \/ UNCHANGED <<InList, [v \in InList |-> GetRank(v)]>>
<1>1. [w \in InList' |-> GetRank(w)'] = [w \in InList' |-> Sorted!RankIn(InList', w)]
  BY DEF RanksCount, Sorted!RankIn
<1>2. ASSUME NEW v \in Items, NEW h \in 1 .. MAX_SKIPLIST_LAYER, Insert(v, h)
      PROVE  Sorted!Insert(v)
  <2>1. InList' = InList \cup {v} /\ v \notin InList
    BY <1>2, InsertLayers
  <2> QED BY <1>1, <2>1 DEF Sorted!Insert, Sorted!Put
<1>3. ASSUME NEW v \in Items, Delete(v) PROVE Sorted!Delete(v)
  <2>1. InList' = InList \ {v} /\ v \in InList
    BY <1>3, DeleteLayers
  <2> QED BY <1>1, <2>1 DEF Sorted!Delete, Sorted!Put
<1>4. CASE UNCHANGED vars
  BY <1>4 DEF vars, InList, GetRank, Descent, Walk, Active
<1> QED BY <1>2, <1>3, <1>4 DEF Next, Sorted!Next

\* The skip list implements the sorted set: an insert adds its item and no other, a
\* delete removes it, and GetRank counts the items that are not smaller, whatever
\* heights the nodes were given.
THEOREM ListIsSorted == Spec => SortedItemsSpec
BY Invariance, RanksRight, SortedInit, SortedStep, PTL
DEF Spec, SortedItemsSpec, Sorted!Spec

-----------------------------------------------------------------------------
(* The look-up by rank. *)

\* n is where a search for the q-th item ends on layer i: the last node whose rank is
\* not greater.
IsLastUpTo(i, q, n) ==
  /\ n \in Level(i) \cup {Head}
  /\ RankOf(n) <= q
  /\ next[n][i] # Nil => RankOf(next[n][i]) > q

LastUpTo(i, q) == CHOOSE n : IsLastUpTo(i, q, n)

\* Ranks grow strictly along a layer; on the lowest one they leave out none.
LEMMA RankGrows ==
  ASSUME IInv, NEW i \in Active, NEW n \in Level(i) \cup {Head}
  PROVE  /\ \A w \in Level(i) : Before(n, w) => RankOf(n) < RankOf(w)
         /\ next[n][i] # Nil => RankOf(n) < RankOf(next[n][i])
         /\ i = 0 => RankTo(next[n][i]) = IF next[n][i] = Nil THEN RankOf(n) ELSE RankOf(n) + 1
<1> DEFINE S == InList
           x == next[n][i]
<1>1. /\ Level(i) \in SUBSET S /\ S \in SUBSET Items /\ Level(0) = S /\ S \subseteq Int
      /\ Head \notin S /\ Nil \notin S
  BY LayerFacts, Constants
<1>2. IsNext(Level(i), n, x) /\ RankOf(n) \in Nat
  BY SpanFacts
<1>3. \A w : RankOf(w) = Count(S, w)
  BY RanksAreCounts
<1> HIDE DEF S, x
<1>4. ASSUME NEW w \in Level(i), Before(n, w) PROVE RankOf(n) < RankOf(w)
  <2>1. AtLeast(S, n) \subseteq AtLeast(S, w)
    <3>1. CASE n = Head
      BY <3>1 DEF AtLeast
    <3>2. CASE n # Head
      <4>1. n \in Int /\ w \in Int /\ w # Head /\ n > w
        BY <1>1, <1>4, <3>2 DEF Before
      <4> SUFFICES ASSUME NEW u \in S, u >= n PROVE u >= w
        BY <3>2, <4>1 DEF AtLeast
      <4> QED BY <1>1, <4>1
    <3> QED BY <3>1, <3>2
  <2>2. w \in AtLeast(S, w) /\ w \notin AtLeast(S, n)
    <3>1. w \in S /\ w \in Int /\ w # Head
      BY <1>1
    <3> QED BY <1>1, <1>4, <3>1 DEF AtLeast, Before
  <2>3. AtLeast(S, w) \in SUBSET Items
    BY <1>1, CountType
  <2>4. Cardinality(AtLeast(S, n)) < Cardinality(AtLeast(S, w))
    BY <2>1, <2>2, <2>3, FewerItems
  <2> QED BY <1>3, <2>4 DEF Count
<1>5. ASSUME x # Nil PROVE x \in Level(i) /\ Before(n, x) /\ RankOf(n) < RankOf(x)
  BY <1>2, <1>4, <1>5 DEF IsNext
<1>6. ASSUME i = 0
      PROVE  RankTo(x) = IF x = Nil THEN RankOf(n) ELSE RankOf(n) + 1
  <2>1. IsNext(S, n, x) /\ n \in S \cup {Head}
    BY <1>1, <1>2, <1>6
  <2>2. CASE x = Nil
    <3>1. \A w \in S : ~Before(n, w)
      BY <1>1, <2>1, <2>2 DEF IsNext
    <3>2. AtLeast(S, n) = S
      <4>1. CASE n = Head
        BY <3>1, <4>1 DEF Before, AtLeast
      <4>2. CASE n # Head
        <5>1. n \in Int /\ \A w \in S : w \in Int /\ ~(n > w)
          BY <1>1, <2>1, <3>1, <4>2 DEF Before
        <5>2. \A w \in S : w >= n
          BY <5>1
        <5> QED BY <4>2, <5>2 DEF AtLeast
      <4> QED BY <4>1, <4>2
    <3>3. RankTo(x) = CountTo(S, Nil)
      BY <2>2, RanksAreCounts DEF S
    <3> QED BY <1>3, <2>2, <3>2, <3>3 DEF Count, CountTo
  <2>3. CASE x # Nil
    <3>1. x \in S /\ Before(n, x) /\ \A w \in S : Before(n, w) => w <= x
      BY <2>1, <2>3 DEF IsNext
    <3>2. AtLeast(S, x) = AtLeast(S, n) \cup {x}
      <4>1. x \in Int /\ x # Head
        BY <1>1, <3>1
      <4>2. ASSUME NEW w \in S PROVE w >= x <=> (w \in AtLeast(S, n) \/ w = x)
        <5>1. w \in Int /\ w # Head
          BY <1>1
        <5>2. ~Before(n, w) <=> w \in AtLeast(S, n)
          BY <1>1, <2>1, <5>1 DEF Before, AtLeast
        <5>3. ~Before(n, w) => w >= x
          BY <1>1, <2>1, <3>1, <4>1, <5>1 DEF Before
        <5>4. Before(n, w) => w <= x
          BY <3>1
        <5> QED BY <4>1, <5>1, <5>2, <5>3, <5>4
      <4>3. AtLeast(S, x) = {w \in S : w >= x}
        BY <4>1 DEF AtLeast
      <4>4. AtLeast(S, n) \subseteq S
        BY <1>1, CountType
      <4> QED BY <3>1, <4>2, <4>3, <4>4
    <3>3. x \notin AtLeast(S, n)
      <4>1. n # Head => n \in Int /\ n > x /\ x \in Int
        BY <1>1, <2>1, <3>1 DEF Before
      <4>2. n # Head => ~(x >= n)
        BY <4>1
      <4> QED BY <4>2 DEF AtLeast
    <3>4. AtLeast(S, n) \in SUBSET Items /\ x \in Items
      BY <1>1, <3>1, CountType
    <3>5. Cardinality(AtLeast(S, x)) = Cardinality(AtLeast(S, n)) + 1
      BY <3>2, <3>3, <3>4, OneMore
    <3> QED BY <1>3, <2>3, <3>5 DEF Count, RankTo
  <2> QED BY <2>2, <2>3
<1> QED BY <1>4, <1>5, <1>6 DEF x

\* There is exactly one such node.
LEMMA LastUpToIsLast ==
  ASSUME IInv, NEW i \in Active, NEW q \in Nat
  PROVE  /\ IsLastUpTo(i, q, LastUpTo(i, q))
         /\ \A n : IsLastUpTo(i, q, n) => n = LastUpTo(i, q)
<1> DEFINE Q == Level(i)
           T == {w \in Q : RankOf(w) <= q}
<1>1. Q \in SUBSET Items /\ Head \notin Q /\ Nil \notin Q /\ Q \subseteq Int
  BY LayerFacts, Constants
<1>2. ASSUME NEW n \in Q \cup {Head}
      PROVE  /\ IsNext(Q, n, next[n][i]) /\ next[n][i] \in Q \cup {Nil}
             /\ RankOf(n) \in Nat
  BY SpanFacts
<1>3. \E n : IsLastUpTo(i, q, n)
  <2>1. ASSUME T = {} PROVE IsLastUpTo(i, q, Head)
    <3>1. RankOf(Head) <= q
      BY HeadRank
    <3>2. next[Head][i] # Nil => next[Head][i] \in Q /\ RankOf(next[Head][i]) \in Nat
      BY <1>2
    <3>3. next[Head][i] # Nil => RankOf(next[Head][i]) > q
      BY <2>1, <3>2
    <3> QED BY <3>1, <3>3 DEF IsLastUpTo
  <2>2. ASSUME T # {} PROVE \E n : IsLastUpTo(i, q, n)
    <3>1. T \in SUBSET Items
      BY <1>1
    <3>2. PICK m \in T : \A w \in T : w >= m
      <4> HIDE DEF T
      <4> QED BY <2>2, <3>1, LeastItem
    <3>3. m \in Q /\ RankOf(m) <= q /\ m \in Int /\ m # Head
      BY <1>1, <3>2
    <3>4. next[m][i] # Nil => RankOf(next[m][i]) > q
      <4> SUFFICES ASSUME next[m][i] # Nil, ~(RankOf(next[m][i]) > q) PROVE FALSE
        OBVIOUS
      <4>1. next[m][i] \in Q /\ Before(m, next[m][i]) /\ next[m][i] \in Int
        BY <1>1, <1>2, <3>3 DEF IsNext
      <4>2. RankOf(next[m][i]) \in Nat
        BY <1>2, <4>1
      <4>3. next[m][i] \in T
        BY <4>1, <4>2
      <4>4. next[m][i] >= m
        BY <3>2, <4>3
      <4> QED BY <3>3, <4>1, <4>4 DEF Before
    <3> QED BY <3>3, <3>4 DEF IsLastUpTo
  <2> QED BY <2>1, <2>2
<1>4. IsLastUpTo(i, q, LastUpTo(i, q))
  BY <1>3 DEF LastUpTo
<1>5. ASSUME NEW n, NEW m, IsLastUpTo(i, q, n), IsLastUpTo(i, q, m)
      PROVE  ~(m \in Q /\ Before(n, m))
  <2> SUFFICES ASSUME m \in Q, Before(n, m) PROVE FALSE
    OBVIOUS
  <2>1. /\ n \in Q \cup {Head} /\ RankOf(m) <= q
        /\ next[n][i] # Nil => RankOf(next[n][i]) > q
    BY <1>5 DEF IsLastUpTo
  <2>2. next[n][i] \in Q /\ m <= next[n][i] /\ next[n][i] # Nil
    BY <1>1, <1>2, <2>1 DEF IsNext
  <2>3. m \in Int /\ next[n][i] \in Int /\ next[n][i] # Head /\ m # Head
    BY <1>1, <2>2
  <2>4. RankOf(next[n][i]) \in Nat /\ RankOf(m) \in Nat
    BY <1>2, <2>2
  <2>5. CASE m = next[n][i]
    BY <2>1, <2>2, <2>4, <2>5
  <2>6. CASE m # next[n][i]
    <3>1. Before(next[n][i], m)
      BY <2>2, <2>3, <2>6 DEF Before
    <3>2. RankOf(next[n][i]) < RankOf(m)
      BY <2>2, <3>1, RankGrows
    <3> QED BY <2>1, <2>2, <2>4, <3>2
  <2> QED BY <2>5, <2>6
<1>6. ASSUME NEW n, NEW m, IsLastUpTo(i, q, n), IsLastUpTo(i, q, m) PROVE n = m
  <2>1. n \in Q \cup {Head} /\ m \in Q \cup {Head}
    BY <1>6 DEF IsLastUpTo
  <2>2. ~(m \in Q /\ Before(n, m)) /\ ~(n \in Q /\ Before(m, n))
    BY <1>5, <1>6
  <2>3. CASE n = Head \/ m = Head
    BY <2>1, <2>2, <2>3 DEF Before
  <2>4. CASE n # Head /\ m # Head
    <3>1. n \in Int /\ m \in Int /\ ~(n > m) /\ ~(m > n)
      BY <1>1, <2>1, <2>2, <2>4 DEF Before
    <3> QED BY <3>1
  <2> QED BY <2>3, <2>4
<1> QED BY <1>4, <1>6

ByRankStep(f, i, rank, m, r) ==
  IF next[m][i] # Nil /\ r + span[m][i] <= rank
    THEN f[next[m][i]][r + span[m][i]]
    ELSE [node |-> m, rank |-> r]

ByRankClosed(i, rank) ==
  [m \in Nodes |-> [r \in 0 .. rank |->
     IF m \in Level(i) \cup {Head}
       THEN LET E == LastUpTo(i, rank - r + RankOf(m))
            IN [node |-> E, rank |-> r + (RankOf(E) - RankOf(m))]
       ELSE [node |-> m, rank |-> r]]]

LEMMA ByRankIsSolution ==
  ASSUME NEW i, NEW rank, NEW g,
         g = [m \in Nodes |-> [r \in 0 .. rank |-> ByRankStep(g, i, rank, m, r)]]
  PROVE  WalkByRank(i, rank) =
           [m \in Nodes |-> [r \in 0 .. rank |->
              ByRankStep(WalkByRank(i, rank), i, rank, m, r)]]
<1>1. WalkByRank(i, rank) =
        CHOOSE f : f = [m \in Nodes |-> [r \in 0 .. rank |-> ByRankStep(f, i, rank, m, r)]]
  BY DEF WalkByRank, ByRankStep
<1> QED BY <1>1

LEMMA ByRankClosedSolves ==
  ASSUME IInv, NEW i \in Active, NEW rank \in Nat
  PROVE  ByRankClosed(i, rank) =
           [m \in Nodes |-> [r \in 0 .. rank |->
              ByRankStep(ByRankClosed(i, rank), i, rank, m, r)]]
<1> DEFINE Q == Level(i)
           g == ByRankClosed(i, rank)
           End(m, r) == LET E == LastUpTo(i, rank - r + RankOf(m))
                        IN [node |-> E, rank |-> r + (RankOf(E) - RankOf(m))]
<1>1. Q \cup {Head} \subseteq Nodes
  BY LayerFacts DEF Nodes
<1>2. ASSUME NEW m \in Nodes, NEW r \in 0 .. rank
      PROVE  g[m][r] = IF m \in Q \cup {Head} THEN End(m, r) ELSE [node |-> m, rank |-> r]
  BY DEF ByRankClosed
<1> HIDE DEF g
<1>3. ASSUME NEW m \in Nodes, NEW r \in 0 .. rank
      PROVE  g[m][r] = ByRankStep(g, i, rank, m, r)
  <2> DEFINE x == next[m][i]
             q == rank - r + RankOf(m)
             E == LastUpTo(i, q)
  <2>1. CASE m \notin Q \cup {Head}
    <3>1. x = Nil
      BY <2>1, LayerFacts DEF Nodes, IInv, NoLinks
    <3> QED BY <1>2, <2>1, <3>1 DEF ByRankStep
  <2>2. CASE m \in Q \cup {Head}
    <3>1. /\ RankOf(m) \in Nat /\ x \in Q \cup {Nil} /\ span[m][i] \in Nat
          /\ x # Nil => span[m][i] = RankOf(x) - RankOf(m) /\ RankOf(x) \in Nat
      BY <2>2, SpanFacts
    <3>2. q \in Nat /\ RankOf(m) <= q /\ r \in Nat /\ r <= rank
      BY <3>1
    <3>3. IsLastUpTo(i, q, E) /\ \A n : IsLastUpTo(i, q, n) => n = E
      <4> HIDE DEF q
      <4> QED BY <3>2, LastUpToIsLast
    <3>4. RankOf(E) \in Nat
      <4>1. E \in Q \cup {Head}
        BY <3>3 DEF IsLastUpTo
      <4> QED BY <4>1, SpanFacts
    <3>5. g[m][r] = [node |-> E, rank |-> r + (RankOf(E) - RankOf(m))]
      BY <1>2, <2>2
    <3>6. CASE x # Nil /\ r + span[m][i] <= rank
      <4> DEFINE s == r + span[m][i]
      <4>1. s \in 0 .. rank /\ x \in Q \cup {Head} /\ x \in Nodes
        BY <1>1, <3>1, <3>2, <3>6
      <4>2. rank - s + RankOf(x) = q
        BY <3>1, <3>2, <3>6
      <4>3. g[x][s] = End(x, s)
        <5> HIDE DEF s, x, End
        <5> QED BY <1>2, <4>1
      <4>4. End(x, s) = [node |-> E, rank |-> s + (RankOf(E) - RankOf(x))]
        <5> HIDE DEF s, x, q
        <5> QED BY <4>2 DEF E
      <4>5. s + (RankOf(E) - RankOf(x)) = r + (RankOf(E) - RankOf(m))
        <5> HIDE DEF E, x
        <5> QED BY <3>1, <3>2, <3>4, <3>6 DEF x
      <4>6. ByRankStep(g, i, rank, m, r) = g[x][s]
        BY <3>6 DEF ByRankStep
      <4> HIDE DEF s, x, E, End
      <4> QED BY <3>5, <4>3, <4>4, <4>5, <4>6
    <3>7. CASE ~(x # Nil /\ r + span[m][i] <= rank)
      <4>1. x # Nil => RankOf(x) > q
        BY <3>1, <3>2, <3>7
      <4>2. IsLastUpTo(i, q, m)
        <5> HIDE DEF q
        <5> QED BY <2>2, <3>2, <4>1 DEF IsLastUpTo
      <4>3. E = m
        BY <3>3, <4>2
      <4>4. r + (RankOf(E) - RankOf(m)) = r
        <5> HIDE DEF E
        <5> QED BY <3>1, <3>2, <4>3
      <4>5. ByRankStep(g, i, rank, m, r) = [node |-> m, rank |-> r]
        BY <3>7 DEF ByRankStep
      <4> HIDE DEF E
      <4> QED BY <3>5, <4>3, <4>4, <4>5
    <3> QED BY <3>6, <3>7
  <2> QED BY <2>1, <2>2
<1>4. g = [m \in Nodes |-> [r \in 0 .. rank |-> g[m][r]]]
  BY DEF g, ByRankClosed
<1>5. g = [m \in Nodes |-> [r \in 0 .. rank |-> ByRankStep(g, i, rank, m, r)]]
  BY <1>3, <1>4
<1> QED BY <1>5 DEF g

\* From a node with the rank r, the walk ends at the last node that is not beyond.
LEMMA ByRankEnds ==
  ASSUME IInv, NEW i \in Active, NEW rank \in Nat, NEW n \in Level(i) \cup {Head},
         RankOf(n) <= rank
  PROVE  WalkByRank(i, rank)[n][RankOf(n)] =
           [node |-> LastUpTo(i, rank), rank |-> RankOf(LastUpTo(i, rank))]
<1> DEFINE Q == Level(i)
           f == WalkByRank(i, rank)
           g == ByRankClosed(i, rank)
           bad == {m \in Q : \E r \in 0 .. rank : f[m][r] # g[m][r]}
<1>1. Q \in SUBSET Items /\ Q \cup {Head} \subseteq Nodes
  BY LayerFacts DEF Nodes
<1>2. g = [m \in Nodes |-> [r \in 0 .. rank |-> ByRankStep(g, i, rank, m, r)]]
  BY ByRankClosedSolves
<1>3. f = [m \in Nodes |-> [r \in 0 .. rank |-> ByRankStep(f, i, rank, m, r)]]
  BY <1>2, ByRankIsSolution
<1>4. ASSUME NEW m \in Q \cup {Head}, NEW r \in 0 .. rank,
             \A x \in Q : Before(m, x) => \A s \in 0 .. rank : f[x][s] = g[x][s]
      PROVE  f[m][r] = g[m][r]
  <2> HIDE DEF f, g
  <2>1. m \in Nodes
    BY <1>1
  <2>2. f[m][r] = ByRankStep(f, i, rank, m, r) /\ g[m][r] = ByRankStep(g, i, rank, m, r)
    <3> DEFINE F(h) == [k \in Nodes |-> [s \in 0 .. rank |-> ByRankStep(h, i, rank, k, s)]]
    <3>1. \A h : F(h)[m][r] = ByRankStep(h, i, rank, m, r)
      BY <2>1
    <3>2. f = F(f) /\ g = F(g)
      BY <1>2, <1>3
    <3> HIDE DEF F
    <3> QED BY <3>1, <3>2
  <2>3. IsNext(Q, m, next[m][i]) /\ span[m][i] \in Nat
    BY SpanFacts
  <2>4. CASE next[m][i] # Nil /\ r + span[m][i] <= rank
    <3>1. next[m][i] \in Q /\ Before(m, next[m][i])
      BY <2>3, <2>4 DEF IsNext
    <3>2. r + span[m][i] \in 0 .. rank
      BY <2>3, <2>4
    <3>3. f[next[m][i]][r + span[m][i]] = g[next[m][i]][r + span[m][i]]
      BY <1>4, <3>1, <3>2
    <3> QED BY <2>2, <3>3 DEF ByRankStep
  <2>5. CASE ~(next[m][i] # Nil /\ r + span[m][i] <= rank)
    BY <2>2, <2>5 DEF ByRankStep
  <2> QED BY <2>4, <2>5
<1>5. bad = {}
  <2> SUFFICES ASSUME bad # {} PROVE FALSE
    OBVIOUS
  <2>1. bad \in SUBSET Items
    BY <1>1
  <2>2. PICK m \in bad : \A w \in bad : w >= m
    <3> HIDE DEF bad
    <3> QED BY <2>1, LeastItem
  <2>3. PICK r \in 0 .. rank : f[m][r] # g[m][r]
    BY <2>2
  <2>4. m \in Q
    BY <2>2
  <2>5. ASSUME NEW x \in Q, Before(m, x) PROVE \A s \in 0 .. rank : f[x][s] = g[x][s]
    <3>1. m \in Int /\ x \in Int /\ m # Head
      BY <1>1, <2>4, Constants
    <3>2. ~(x >= m)
      BY <2>5, <3>1 DEF Before
    <3> QED BY <2>2, <3>2
  <2> QED BY <1>4, <2>3, <2>4, <2>5
<1> DEFINE k == RankOf(n)
<1>6. k \in 0 .. rank /\ k \in Nat
  BY SpanFacts
<1>7. f[n][k] = g[n][k]
  <2> HIDE DEF f, g, k
  <2> QED BY <1>4, <1>5, <1>6
<1>8. g[n][k] = [node |-> LastUpTo(i, rank - k + k),
                 rank |-> k + (RankOf(LastUpTo(i, rank - k + k)) - k)]
  <2>1. n \in Nodes
    BY <1>1
  <2> QED BY <1>6, <2>1 DEF ByRankClosed
<1>9. rank - k + k = rank
  BY <1>6
<1>10. RankOf(LastUpTo(i, rank)) \in Nat
  <2>1. LastUpTo(i, rank) \in Q \cup {Head}
    BY LastUpToIsLast DEF IsLastUpTo
  <2> QED BY <2>1, SpanFacts
<1>11. k + (RankOf(LastUpTo(i, rank)) - k) = RankOf(LastUpTo(i, rank))
  <2> HIDE DEF k
  <2> QED BY <1>6, <1>10
<1> HIDE DEF f, g
<1> QED BY <1>7, <1>8, <1>9, <1>11 DEF f

DescentByRankStep(f, rank, i) ==
  IF i = curr_layer - 1 THEN WalkByRank(i, rank)[Head][0]
  ELSE IF f[i + 1].rank = rank THEN f[i + 1]
  ELSE WalkByRank(i, rank)[f[i + 1].node][f[i + 1].rank]

LEMMA DescentByRankIsSolution ==
  ASSUME NEW rank, NEW g, g = [i \in Active |-> DescentByRankStep(g, rank, i)]
  PROVE  DescentByRank(rank) = [i \in Active |-> DescentByRankStep(DescentByRank(rank), rank, i)]
<1>1. DescentByRank(rank) = CHOOSE f : f = [i \in Active |-> DescentByRankStep(f, rank, i)]
  BY DEF DescentByRank, DescentByRankStep
<1> QED BY <1>1

\* Where the search ended above, it goes on below; it may stop there, for a node with the
\* rank looked for is the last one up to it on every layer that it is on.
LEMMA StartByRank ==
  ASSUME IInv, NEW i \in Active, i # curr_layer - 1, NEW rank \in Nat
  PROVE  LET above == LastUpTo(i + 1, rank) IN
         /\ i + 1 \in Active
         /\ above \in Level(i) \cup {Head} /\ RankOf(above) \in Nat /\ RankOf(above) <= rank
         /\ RankOf(above) = rank => LastUpTo(i, rank) = above
<1> DEFINE m == LastUpTo(i + 1, rank)
<1>1. i + 1 \in Active /\ i \in Nat
  BY LayerFacts DEF Active
<1>2. IsLastUpTo(i + 1, rank, m)
  BY <1>1, LastUpToIsLast
<1>3. m \in Level(i + 1) \cup {Head} /\ RankOf(m) <= rank
  BY <1>2 DEF IsLastUpTo
<1>4. m \in Level(i) \cup {Head}
  <2>1. ASSUME NEW w \in Items, height[w] > i + 1 PROVE height[w] > i
    <3>1. height[w] \in Nat
      BY Constants DEF IInv, TypeOK
    <3> QED BY <1>1, <2>1, <3>1
  <2> QED BY <1>3, <2>1 DEF Level
<1> HIDE DEF m
<1>5. RankOf(m) \in Nat
  BY <1>4, SpanFacts
<1>6. ASSUME RankOf(m) = rank PROVE LastUpTo(i, rank) = m
  <2>1. next[m][i] # Nil => RankOf(next[m][i]) > rank
    <3>1. next[m][i] # Nil => RankOf(m) < RankOf(next[m][i]) /\ RankOf(next[m][i]) \in Nat
      BY <1>4, RankGrows, SpanFacts
    <3> QED BY <1>6, <3>1
  <2>2. IsLastUpTo(i, rank, m)
    BY <1>3, <1>4, <2>1 DEF IsLastUpTo
  <2> QED BY <2>2, LastUpToIsLast
<1> QED BY <1>1, <1>3, <1>4, <1>5, <1>6 DEF m

LEMMA DescentByRankStepEnds ==
  ASSUME IInv, NEW rank \in Nat, NEW i \in Active, NEW f,
         i # curr_layer - 1 =>
           f[i + 1] = [node |-> LastUpTo(i + 1, rank), rank |-> RankOf(LastUpTo(i + 1, rank))]
  PROVE  DescentByRankStep(f, rank, i) =
           [node |-> LastUpTo(i, rank), rank |-> RankOf(LastUpTo(i, rank))]
<1>1. CASE i = curr_layer - 1
  <2>1. RankOf(Head) = 0 /\ RankOf(Head) <= rank
    BY HeadRank
  <2>2. WalkByRank(i, rank)[Head][RankOf(Head)] =
          [node |-> LastUpTo(i, rank), rank |-> RankOf(LastUpTo(i, rank))]
    BY <2>1, ByRankEnds
  <2>3. DescentByRankStep(f, rank, i) = WalkByRank(i, rank)[Head][0]
    BY <1>1 DEF DescentByRankStep
  <2> QED BY <2>1, <2>2, <2>3
<1>2. CASE i # curr_layer - 1
  <2> DEFINE m == LastUpTo(i + 1, rank)
  <2>1. /\ m \in Level(i) \cup {Head} /\ RankOf(m) <= rank
        /\ RankOf(m) = rank => LastUpTo(i, rank) = m
    BY <1>2, StartByRank
  <2>2. f[i + 1].node = m /\ f[i + 1].rank = RankOf(m)
        /\ f[i + 1] = [node |-> m, rank |-> RankOf(m)]
    BY <1>2
  <2> HIDE DEF m
  <2>3. CASE RankOf(m) = rank
    BY <1>2, <2>1, <2>2, <2>3 DEF DescentByRankStep
  <2>4. CASE RankOf(m) # rank
    <3>1. WalkByRank(i, rank)[m][RankOf(m)] =
            [node |-> LastUpTo(i, rank), rank |-> RankOf(LastUpTo(i, rank))]
      BY <2>1, ByRankEnds
    <3> QED BY <1>2, <2>2, <2>4, <3>1 DEF DescentByRankStep
  <2> QED BY <2>3, <2>4
<1> QED BY <1>1, <1>2

\* On each layer the search for a rank ends at the last node that is not beyond it.
LEMMA DescentByRankEnds ==
  ASSUME IInv, NEW rank \in Nat, NEW i \in Active
  PROVE  DescentByRank(rank)[i] =
           [node |-> LastUpTo(i, rank), rank |-> RankOf(LastUpTo(i, rank))]
<1> DEFINE f == DescentByRank(rank)
           R(j) == [node |-> LastUpTo(j, rank), rank |-> RankOf(LastUpTo(j, rank))]
           g == [j \in Active |-> R(j)]
           bad == {j \in Active : f[j] # R(j)}
           depths == {curr_layer - 1 - j : j \in bad}
<1>1. g = [j \in Active |-> DescentByRankStep(g, rank, j)]
  <2>1. ASSUME NEW j \in Active PROVE DescentByRankStep(g, rank, j) = R(j)
    <3>1. j # curr_layer - 1 => g[j + 1] = R(j + 1)
      BY StartByRank
    <3> HIDE DEF g
    <3> QED BY <3>1, DescentByRankStepEnds
  <2>2. g = [j \in Active |-> R(j)]
    OBVIOUS
  <2> HIDE DEF g, R
  <2> QED BY <2>1, <2>2
<1>2. f = [j \in Active |-> DescentByRankStep(f, rank, j)]
  <2> HIDE DEF g
  <2> QED BY <1>1, DescentByRankIsSolution
<1>3. bad = {}
  <2> SUFFICES ASSUME bad # {} PROVE FALSE
    OBVIOUS
  <2>1. curr_layer \in Nat /\ \A j \in Active : j \in Nat /\ j <= curr_layer - 1
    BY LayerFacts DEF Active
  <2>2. depths \in SUBSET Nat /\ depths # {}
    <3>1. bad \subseteq Active
      OBVIOUS
    <3> HIDE DEF bad
    <3> QED BY <2>1, <3>1
  <2>3. PICK d \in depths : \A e \in depths : d <= e
    <3> HIDE DEF depths
    <3> QED BY <2>2, LeastNatural
  <2>4. PICK j \in bad : d = curr_layer - 1 - j
    BY <2>3
  <2>5. j # curr_layer - 1 => f[j + 1] = R(j + 1)
    <3> SUFFICES ASSUME j # curr_layer - 1, f[j + 1] # R(j + 1) PROVE FALSE
      OBVIOUS
    <3>1. j + 1 \in bad
      BY <2>4, StartByRank
    <3>2. curr_layer - 1 - (j + 1) \in depths
      BY <3>1
    <3>3. j \in Nat
      BY <2>1, <2>4
    <3> HIDE DEF depths, bad
    <3> QED BY <2>1, <2>3, <2>4, <3>2, <3>3
  <2>6. j \in Active /\ f[j] # R(j)
    BY <2>4
  <2>7. f[j] = DescentByRankStep(f, rank, j)
    <3> HIDE DEF f
    <3> QED BY <1>2, <2>6
  <2> HIDE DEF f
  <2> QED BY <2>5, <2>6, <2>7, DescentByRankStepEnds
<1> QED BY <1>3

\* GetNodeByRank finds the item of a rank, for every rank of the list and no other.
LEMMA ByRankFinds ==
  ASSUME IInv
  PROVE  ByRankIsInverse
<1>1. /\ 0 \in Active /\ Level(0) = InList /\ InList \in SUBSET Items /\ curr_length \in Nat
      /\ Nil \notin InList \cup {Head}
  BY LayerFacts, Constants
<1>2. ASSUME NEW r \in Nat
      PROVE  /\ GetNodeByRank(r) = IF RankOf(LastUpTo(0, r)) = r THEN LastUpTo(0, r) ELSE Nil
             /\ IsLastUpTo(0, r, LastUpTo(0, r))
             /\ \A n : IsLastUpTo(0, r, n) => n = LastUpTo(0, r)
             /\ LastUpTo(0, r) \in InList \cup {Head} /\ LastUpTo(0, r) # Nil
  <2>1. /\ IsLastUpTo(0, r, LastUpTo(0, r))
        /\ \A n : IsLastUpTo(0, r, n) => n = LastUpTo(0, r)
    BY <1>1, LastUpToIsLast
  <2>2. LastUpTo(0, r) \in InList \cup {Head}
    BY <1>1, <2>1 DEF IsLastUpTo
  <2>3. DescentByRank(r)[0] = [node |-> LastUpTo(0, r), rank |-> RankOf(LastUpTo(0, r))]
    BY <1>1, DescentByRankEnds
  <2>4. GetNodeByRank(r) = IF RankOf(LastUpTo(0, r)) = r THEN LastUpTo(0, r) ELSE Nil
    BY <2>3 DEF GetNodeByRank
  <2> QED BY <1>1, <2>1, <2>2, <2>4
<1>3. ASSUME NEW n \in InList \cup {Head}
      PROVE  /\ RankOf(n) \in Nat /\ RankOf(n) <= curr_length
             /\ next[n][0] # Nil => RankOf(next[n][0]) = RankOf(n) + 1
             /\ next[n][0] = Nil => RankOf(n) = curr_length
  <2>1. RankOf(n) \in Nat
    BY <1>1, <1>3, SpanFacts
  <2>2. RankOf(n) <= curr_length
    BY <1>1, CountType DEF IInv, LengthOK, RankOf
  <2>3. RankTo(next[n][0]) = IF next[n][0] = Nil THEN RankOf(n) ELSE RankOf(n) + 1
    BY <1>1, RankGrows
  <2> QED BY <2>1, <2>2, <2>3 DEF RankTo
<1>4. ASSUME NEW v \in InList PROVE GetNodeByRank(GetRank(v)) = v
  <2>1. GetRank(v) = RankOf(v) /\ RankOf(v) \in Nat
    BY <1>3, GetRankCounts
  <2>2. IsLastUpTo(0, RankOf(v), v)
    <3>1. next[v][0] # Nil => RankOf(next[v][0]) > RankOf(v)
      BY <1>3, <2>1
    <3> QED BY <1>1, <2>1, <3>1 DEF IsLastUpTo
  <2>3. LastUpTo(0, RankOf(v)) = v
    BY <1>2, <2>1, <2>2
  <2> QED BY <1>2, <2>1, <2>3
<1>5. ASSUME NEW r \in 1 .. Cardinality(Items)
      PROVE  (GetNodeByRank(r) = Nil) <=> (r > curr_length)
  <2>0. r \in Nat /\ r >= 1
    OBVIOUS
  <2> DEFINE E == LastUpTo(0, r)
  <2>1. /\ GetNodeByRank(r) = IF RankOf(E) = r THEN E ELSE Nil
        /\ E \in InList \cup {Head} /\ E # Nil
        /\ RankOf(E) <= r /\ (next[E][0] # Nil => RankOf(next[E][0]) > r)
    <3>1. IsLastUpTo(0, r, E)
      BY <1>2, <2>0
    <3> QED BY <1>2, <2>0, <3>1 DEF IsLastUpTo
  <2> HIDE DEF E
  <2>2. /\ RankOf(E) \in Nat /\ RankOf(E) <= curr_length
        /\ next[E][0] # Nil => RankOf(next[E][0]) = RankOf(E) + 1
        /\ next[E][0] = Nil => RankOf(E) = curr_length
    BY <1>3, <2>1
  <2>3. RankOf(E) = r <=> ~(r > curr_length)
    BY <1>1, <2>0, <2>1, <2>2
  <2> QED BY <2>1, <2>3
<1> QED BY <1>4, <1>5 DEF ByRankIsInverse

\* Looking up by rank is the inverse of GetRank, from the first rank to the last, and finds
\* nothing beyond: the spans of every layer agree, whatever heights the nodes were given.
THEOREM ByRank == Spec => []ByRankIsInverse
<1>1. IInv => ByRankIsInverse
  BY ByRankFinds
<1> QED BY <1>1, Invariance, PTL

=============================================================================
