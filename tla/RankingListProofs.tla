------------------------- MODULE RankingListProofs -------------------------
(***************************************************************************)
(* Proofs about RankingList, for any number of keys, values, objects and   *)
(* handlers: the list stays sorted and complete until a stale entry of the *)
(* map is used, and what a call has reported that ran alone stays ranked   *)
(* and stored.                                                             *)
(*                                                                         *)
(* The search of the skip list is only right while the list is sorted by   *)
(* the fields its objects hold now; the list only stays sorted if an       *)
(* object is never changed while it is listed; and that nobody changes a   *)
(* listed object depends on what the map and the pool say about it.  So    *)
(* the parts of the list's invariant hold together or not at all.          *)
(***************************************************************************)
EXTENDS RankingList, FiniteSetTheorems, SequenceTheorems,
        WellFoundedInduction, TLAPS

Entry == [key : Keys, val : Vals]

Elems(l) == {l[i] : i \in 1 .. Len(l)}

-----------------------------------------------------------------------------
(* Sequences. *)

\* A set of positions that is not empty has a least one.
LEMMA LeastPosition ==
  ASSUME NEW S \in SUBSET Nat, S # {}
  PROVE  \E m \in S : \A j \in S : m <= j
<1> DEFINE Initial == {1 .. j : j \in S}
<1>1. ASSUME NEW j \in Nat PROVE 1 .. j \in FiniteSubsetsOf(Nat)
  BY FS_Interval DEF FiniteSubsetsOf
<1>2. Initial \subseteq FiniteSubsetsOf(Nat) /\ Initial # {}
  BY <1>1
<1>3. PICK x \in Initial : \A y \in Initial : <<y, x>> \notin StrictSubsetOrdering(Nat)
  <2> HIDE DEF Initial
  <2> QED BY <1>2, WFMin, FS_StrictSubsetOrderingWellFounded
<1>4. PICK m \in S : x = 1 .. m
  BY <1>3
<1>5. ASSUME NEW j \in S, j < m PROVE FALSE
  <2>1. 1 .. j \in Initial /\ 1 .. j \subseteq Nat /\ 1 .. m \subseteq Nat
    OBVIOUS
  <2>2. 1 .. j \subseteq 1 .. m
    BY <1>5
  <2>3. m \in 1 .. m /\ m \notin 1 .. j
    BY <1>5
  <2>4. <<1 .. j, 1 .. m>> \in StrictSubsetOrdering(Nat)
    BY <2>1, <2>2, <2>3 DEF StrictSubsetOrdering
  <2> QED BY <1>3, <1>4, <2>1, <2>4
<1> QED BY <1>5
LEMMA InsertAtFacts ==
  ASSUME NEW S, NEW s \in Seq(S), NEW p \in 1 .. Len(s) + 1, NEW e \in S
  PROVE  /\ InsertAt(s, p, e) \in Seq(S)
         /\ Len(InsertAt(s, p, e)) = Len(s) + 1
         /\ \A i \in 1 .. Len(s) + 1 :
              InsertAt(s, p, e)[i] = IF i < p THEN s[i] ELSE IF i = p THEN e ELSE s[i - 1]
<1> DEFINE a == SubSeq(s, 1, p - 1)
           b == SubSeq(s, p, Len(s))
<1>1. Len(s) \in Nat /\ p \in Nat /\ p >= 1 /\ p <= Len(s) + 1
  OBVIOUS
<1>2. /\ a \in Seq(S) /\ Len(a) = p - 1
      /\ \A i \in 1 .. p - 1 : a[i] = s[i]
  <2>1. \A i \in 1 .. p - 1 : s[i] \in S
    BY <1>1, ElementOfSeq
  <2> QED BY <1>1, <2>1, SubSeqProperties
<1>3. /\ b \in Seq(S) /\ Len(b) = Len(s) - p + 1
      /\ \A i \in 1 .. Len(s) - p + 1 : b[i] = s[p + i - 1]
  <2>1. \A i \in p .. Len(s) : s[i] \in S
    BY <1>1, ElementOfSeq
  <2> QED BY <1>1, <2>1, SubSeqProperties
<1>4. <<e>> \in Seq(S) /\ Len(<<e>>) = 1 /\ <<e>>[1] = e
  OBVIOUS
<1> HIDE DEF a, b
<1>5. /\ a \o <<e>> \in Seq(S) /\ Len(a \o <<e>>) = p
      /\ \A i \in 1 .. p : (a \o <<e>>)[i] = IF i < p THEN s[i] ELSE e
  <2>1. /\ a \o <<e>> \in Seq(S) /\ Len(a \o <<e>>) = Len(a) + 1
        /\ \A i \in 1 .. Len(a) + 1 :
             (a \o <<e>>)[i] = IF i <= Len(a) THEN a[i] ELSE <<e>>[i - Len(a)]
    BY <1>2, <1>4, ConcatProperties
  <2> QED BY <1>1, <1>2, <1>4, <2>1
<1>6. /\ (a \o <<e>>) \o b \in Seq(S)
      /\ Len((a \o <<e>>) \o b) = Len(s) + 1
      /\ \A i \in 1 .. Len(s) + 1 :
           ((a \o <<e>>) \o b)[i] = IF i <= p THEN (a \o <<e>>)[i] ELSE b[i - p]
  <2>0. a \o <<e>> \in Seq(S) /\ b \in Seq(S)
    BY <1>3, <1>5
  <2>1. /\ (a \o <<e>>) \o b \in Seq(S)
        /\ Len((a \o <<e>>) \o b) = Len(a \o <<e>>) + Len(b)
        /\ \A i \in 1 .. Len(a \o <<e>>) + Len(b) :
             ((a \o <<e>>) \o b)[i]
               = IF i <= Len(a \o <<e>>) THEN (a \o <<e>>)[i] ELSE b[i - Len(a \o <<e>>)]
    BY <2>0, ConcatProperties, Zenon
  <2>2. Len(a \o <<e>>) = p /\ Len(b) = Len(s) - p + 1
    BY <1>3, <1>5
  <2> QED BY <1>1, <2>1, <2>2
<1>7. InsertAt(s, p, e) = (a \o <<e>>) \o b
  BY DEF InsertAt, a, b
<1>8. ASSUME NEW i \in 1 .. Len(s) + 1
      PROVE  ((a \o <<e>>) \o b)[i]
               = IF i < p THEN s[i] ELSE IF i = p THEN e ELSE s[i - 1]
  <2>1. CASE i <= p
    BY <1>1, <1>5, <1>6, <2>1
  <2>2. CASE ~(i <= p)
    <3>1. i - p \in 1 .. Len(s) - p + 1 /\ p + (i - p) - 1 = i - 1
      BY <1>1, <2>2
    <3> QED BY <1>1, <1>3, <1>6, <2>2, <3>1
  <2> QED BY <2>1, <2>2
<1> QED BY <1>6, <1>7, <1>8

LEMMA RemoveAtFacts ==
  ASSUME NEW S, NEW s \in Seq(S), NEW p \in 1 .. Len(s)
  PROVE  /\ RemoveAt(s, p) \in Seq(S)
         /\ Len(RemoveAt(s, p)) = Len(s) - 1
         /\ \A i \in 1 .. Len(s) - 1 : RemoveAt(s, p)[i] = IF i < p THEN s[i] ELSE s[i + 1]
<1> DEFINE a == SubSeq(s, 1, p - 1)
           b == SubSeq(s, p + 1, Len(s))
<1>1. Len(s) \in Nat /\ p \in Nat /\ p >= 1 /\ p <= Len(s)
  OBVIOUS
<1>2. /\ a \in Seq(S) /\ Len(a) = p - 1
      /\ \A i \in 1 .. p - 1 : a[i] = s[i]
  <2>1. \A i \in 1 .. p - 1 : s[i] \in S
    BY <1>1, ElementOfSeq
  <2> QED BY <1>1, <2>1, SubSeqProperties
<1>3. /\ b \in Seq(S) /\ Len(b) = Len(s) - p
      /\ \A i \in 1 .. Len(s) - p : b[i] = s[p + i]
  <2>1. \A i \in p + 1 .. Len(s) : s[i] \in S
    BY <1>1, ElementOfSeq
  <2>2. /\ b \in Seq(S)
        /\ Len(b) = IF p + 1 <= Len(s) THEN Len(s) - (p + 1) + 1 ELSE 0
        /\ \A i \in 1 .. Len(s) - (p + 1) + 1 : b[i] = s[(p + 1) + i - 1]
    BY <1>1, <2>1, SubSeqProperties
  <2> QED BY <1>1, <2>2
<1> HIDE DEF a, b
<1>4. /\ a \o b \in Seq(S) /\ Len(a \o b) = Len(a) + Len(b)
      /\ \A i \in 1 .. Len(a) + Len(b) : (a \o b)[i] = IF i <= Len(a) THEN a[i] ELSE b[i - Len(a)]
  <2>1. a \in Seq(S) /\ b \in Seq(S)
    BY <1>2, <1>3
  <2> QED BY <2>1, ConcatProperties, Zenon
<1>5. RemoveAt(s, p) = a \o b
  BY DEF RemoveAt, a, b
<1>6. ASSUME NEW i \in 1 .. Len(s) - 1
      PROVE  (a \o b)[i] = IF i < p THEN s[i] ELSE s[i + 1]
  <2>1. CASE i < p
    BY <1>1, <1>2, <1>3, <1>4, <2>1
  <2>2. CASE ~(i < p)
    <3>1. i - Len(a) \in 1 .. Len(s) - p /\ p + (i - Len(a)) = i + 1 /\ ~(i <= Len(a))
      BY <1>1, <1>2, <2>2
    <3>2. i \in 1 .. Len(a) + Len(b)
      BY <1>1, <1>2, <1>3
    <3>3. (a \o b)[i] = b[i - Len(a)]
      BY <1>4, <3>1, <3>2
    <3>4. b[i - Len(a)] = s[i + 1]
      BY <1>3, <3>1
    <3> QED BY <2>2, <3>3, <3>4
  <2> QED BY <2>1, <2>2
<1>7. Len(a) + Len(b) = Len(s) - 1
  BY <1>1, <1>2, <1>3
<1> QED BY <1>4, <1>5, <1>6, <1>7
-----------------------------------------------------------------------------
(* The list: what a search finds, what an insertion and a removal keep.    *)

Sorted(l, f) == \A i, j \in 1 .. Len(l) : i < j => Greater(f[l[i]], f[l[j]])

LEMMA GreaterIsAnOrder ==
  ASSUME NEW x \in Entry, NEW y \in Entry, NEW z \in Entry
  PROVE  /\ ~Greater(x, x)
         /\ Greater(x, y) /\ Greater(y, z) => Greater(x, z)
         /\ x.key # y.key => Greater(x, y) \/ Greater(y, x)
<1>1. /\ x.key \in Keys /\ y.key \in Keys /\ z.key \in Keys
      /\ x.val \in Vals /\ y.val \in Vals /\ z.val \in Vals
  BY DEF Entry
<1>2. Keys \subseteq Int /\ Vals \subseteq Int
  BY RankingListAssumption DEF RankingListAssumption
<1>3. /\ x.key \in Int /\ y.key \in Int /\ z.key \in Int
      /\ x.val \in Int /\ y.val \in Int /\ z.val \in Int
  BY <1>1, <1>2
<1> QED BY <1>3 DEF Greater

LEMMA PlaceFacts ==
  ASSUME NEW l \in Seq(Objects), NEW f, NEW x
  PROVE  /\ Place(l, f, x) \in 1 .. Len(l) + 1
         /\ \A i \in 1 .. Len(l) : i < Place(l, f, x) => Greater(f[l[i]], x)
         /\ Place(l, f, x) <= Len(l) => ~Greater(f[l[Place(l, f, x)]], x)
<1> DEFINE stop == {i \in 1 .. Len(l) : ~Greater(f[l[i]], x)}
           least == CHOOSE i \in stop : \A j \in stop : i <= j
<1>1. Len(l) \in Nat
  OBVIOUS
<1>2. CASE stop = {}
  <2>1. Place(l, f, x) = Len(l) + 1
    BY <1>2 DEF Place
  <2> QED BY <1>1, <1>2, <2>1
<1>3. CASE stop # {}
  <2>1. Place(l, f, x) = least
    BY <1>3 DEF Place
  <2>2. stop \in SUBSET Nat
    OBVIOUS
  <2>3. \E i \in stop : \A j \in stop : i <= j
    <3> HIDE DEF stop
    <3> QED BY <1>3, <2>2, LeastPosition
  <2>4. least \in stop /\ \A j \in stop : least <= j
    <3> HIDE DEF stop
    <3> QED BY <2>3, Zenon
  <2> HIDE DEF least
  <2> QED BY <1>1, <2>1, <2>4
<1> QED BY <1>2, <1>3

\* An insertion where the search ends keeps a sorted list sorted.
LEMMA InsertionSorts ==
  ASSUME NEW l \in Seq(Objects), NEW f, NEW o \in Objects,
         Sorted(l, f), f[o] \in Entry,
         \A q \in Elems(l) : f[q] \in Entry /\ f[q].key # f[o].key
  PROVE  /\ WithItem(l, f, o) \in Seq(Objects)
         /\ Sorted(WithItem(l, f, o), f)
         /\ Elems(WithItem(l, f, o)) = Elems(l) \cup {o}
<1> DEFINE p == Place(l, f, f[o])
           m == WithItem(l, f, o)
<1>1. /\ p \in 1 .. Len(l) + 1
      /\ \A i \in 1 .. Len(l) : i < p => Greater(f[l[i]], f[o])
      /\ p <= Len(l) => ~Greater(f[l[p]], f[o])
  BY PlaceFacts
<1> HIDE DEF p
<1>2. /\ m \in Seq(Objects) /\ Len(m) = Len(l) + 1
      /\ \A i \in 1 .. Len(l) + 1 :
           m[i] = IF i < p THEN l[i] ELSE IF i = p THEN o ELSE l[i - 1]
  <2>1. m = InsertAt(l, p, o)
    BY DEF WithItem, p
  <2> HIDE DEF m
  <2>2. p \in 1 .. Len(l) + 1
    BY <1>1
  <2>3. /\ InsertAt(l, p, o) \in Seq(Objects)
        /\ Len(InsertAt(l, p, o)) = Len(l) + 1
        /\ \A i \in 1 .. Len(l) + 1 :
             InsertAt(l, p, o)[i] = IF i < p THEN l[i] ELSE IF i = p THEN o ELSE l[i - 1]
    BY <2>2, InsertAtFacts
  <2> QED BY <2>1, <2>3, Zenon
<1>3. Len(l) \in Nat /\ p \in Nat
  BY <1>1
<1> HIDE DEF m
<1>4. ASSUME NEW i \in 1 .. Len(l) PROVE f[l[i]] \in Entry /\ f[l[i]].key # f[o].key
  BY DEF Elems
<1>5. ASSUME NEW i \in 1 .. Len(l), i >= p PROVE Greater(f[o], f[l[i]])
  <2>1. p \in 1 .. Len(l) /\ p <= Len(l)
    BY <1>1, <1>5
  <2>2. f[l[p]] \in Entry /\ f[l[i]] \in Entry /\ f[l[p]].key # f[o].key
    BY <1>4, <2>1
  <2>3. Greater(f[o], f[l[p]])
    BY <1>1, <2>1, <2>2, GreaterIsAnOrder
  <2>4. i = p \/ Greater(f[l[p]], f[l[i]])
    BY <1>5, <2>1 DEF Sorted
  <2> QED BY <2>2, <2>3, <2>4, GreaterIsAnOrder
<1>6. ASSUME NEW i \in 1 .. Len(m), NEW j \in 1 .. Len(m), i < j
      PROVE  Greater(f[m[i]], f[m[j]])
  <2>1. CASE j < p
    <3>1. m[i] = l[i] /\ m[j] = l[j] /\ i \in 1 .. Len(l) /\ j \in 1 .. Len(l)
      BY <1>2, <1>3, <1>1, <1>6, <2>1
    <3> QED BY <1>6, <3>1 DEF Sorted
  <2>2. CASE j = p
    <3>1. m[i] = l[i] /\ m[j] = o /\ i \in 1 .. Len(l) /\ i < p
      BY <1>2, <1>3, <1>1, <1>6, <2>2
    <3> QED BY <1>1, <3>1
  <2>3. CASE j > p /\ i = p
    <3>1. m[i] = o /\ m[j] = l[j - 1] /\ j - 1 \in 1 .. Len(l) /\ j - 1 >= p
      BY <1>2, <1>3, <1>1, <2>3
    <3> QED BY <1>5, <3>1
  <2>4. CASE j > p /\ i < p
    <3>1. m[i] = l[i] /\ m[j] = l[j - 1] /\ i \in 1 .. Len(l) /\ j - 1 \in 1 .. Len(l) /\ i < j - 1
      BY <1>2, <1>3, <1>1, <2>4
    <3> QED BY <3>1 DEF Sorted
  <2>5. CASE j > p /\ i > p
    <3>1. /\ m[i] = l[i - 1] /\ m[j] = l[j - 1]
          /\ i - 1 \in 1 .. Len(l) /\ j - 1 \in 1 .. Len(l) /\ i - 1 < j - 1
      BY <1>2, <1>3, <1>1, <1>6, <2>5
    <3> QED BY <3>1 DEF Sorted
  <2> QED BY <1>2, <1>3, <2>1, <2>2, <2>3, <2>4, <2>5
<1>7. Elems(m) = Elems(l) \cup {o}
  <2>1. ASSUME NEW q \in Elems(m) PROVE q \in Elems(l) \cup {o}
    <3>1. PICK i \in 1 .. Len(m) : q = m[i]
      BY DEF Elems
    <3>2. \/ i < p /\ m[i] = l[i] /\ i \in 1 .. Len(l)
          \/ m[i] = o
          \/ i > p /\ m[i] = l[i - 1] /\ i - 1 \in 1 .. Len(l)
      BY <1>1, <1>2, <1>3
    <3> QED BY <3>1, <3>2 DEF Elems
  <2>2. ASSUME NEW i \in 1 .. Len(l) PROVE l[i] \in Elems(m)
    <3>1. CASE i < p
      <4>1. i \in 1 .. Len(m) /\ m[i] = l[i]
        BY <1>2, <1>3, <3>1
      <4> QED BY <4>1 DEF Elems
    <3>2. CASE ~(i < p)
      <4>1. i + 1 \in 1 .. Len(m) /\ m[i + 1] = l[i]
        BY <1>2, <1>3, <3>2
      <4> QED BY <4>1 DEF Elems
    <3> QED BY <3>1, <3>2
  <2>3. o \in Elems(m)
    <3>1. p \in 1 .. Len(m) /\ m[p] = o
      BY <1>1, <1>2, <1>3
    <3> QED BY <3>1 DEF Elems
  <2>4. Elems(l) \subseteq Elems(m)
    BY <2>2 DEF Elems
  <2> QED BY <2>1, <2>3, <2>4
<1> QED BY <1>2, <1>6, <1>7 DEF m, Sorted

\* No object is twice in a sorted list.
LEMMA SortedIsInjective ==
  ASSUME NEW l \in Seq(Objects), NEW f, Sorted(l, f), \A q \in Elems(l) : f[q] \in Entry,
         NEW i \in 1 .. Len(l), NEW j \in 1 .. Len(l), f[l[i]] = f[l[j]]
  PROVE  i = j
<1>1. f[l[i]] \in Entry
  BY DEF Elems
<1>2. ~Greater(f[l[i]], f[l[i]])
  BY <1>1, GreaterIsAnOrder
<1>3. i \in Int /\ j \in Int /\ Len(l) \in Nat
  OBVIOUS
<1>4. ~(i < j) /\ ~(j < i)
  BY <1>2 DEF Sorted
<1> QED BY <1>3, <1>4

\* In a sorted list the search for the fields of a listed object ends at it.
LEMMA ListedIsFound ==
  ASSUME NEW l \in Seq(Objects), NEW f, Sorted(l, f), \A q \in Elems(l) : f[q] \in Entry,
         NEW o \in Elems(l)
  PROVE  /\ Place(l, f, f[o]) \in 1 .. Len(l)
         /\ l[Place(l, f, f[o])] = o
         /\ Found(l, f, f[o])
<1> DEFINE p == Place(l, f, f[o])
<1>1. PICK i \in 1 .. Len(l) : l[i] = o
  BY DEF Elems
<1>2. /\ p \in 1 .. Len(l) + 1
      /\ \A j \in 1 .. Len(l) : j < p => Greater(f[l[j]], f[o])
      /\ p <= Len(l) => ~Greater(f[l[p]], f[o])
  BY PlaceFacts
<1>3. Len(l) \in Nat /\ f[o] \in Entry
  OBVIOUS
<1> HIDE DEF p
<1>4. ~(i < p)
  BY <1>1, <1>2, <1>3, GreaterIsAnOrder
<1>5. p \in 1 .. Len(l) /\ p <= Len(l)
  BY <1>2, <1>3, <1>4
<1>6. ~(p < i)
  BY <1>1, <1>2, <1>5 DEF Sorted
<1>7. p = i
  BY <1>4, <1>5, <1>6
<1> QED BY <1>1, <1>5, <1>7 DEF Found, p

\* Taking out the node the search ends at takes out the object, and no other.
LEMMA RemovalSorts ==
  ASSUME NEW l \in Seq(Objects), NEW f, Sorted(l, f), \A q \in Elems(l) : f[q] \in Entry,
         NEW o \in Elems(l)
  PROVE  /\ RemoveAt(l, Place(l, f, f[o])) \in Seq(Objects)
         /\ Sorted(RemoveAt(l, Place(l, f, f[o])), f)
         /\ Elems(RemoveAt(l, Place(l, f, f[o]))) = Elems(l) \ {o}
<1> DEFINE p == Place(l, f, f[o])
           m == RemoveAt(l, p)
<1>1. p \in 1 .. Len(l) /\ l[p] = o
  BY ListedIsFound
<1> HIDE DEF p
<1>2. /\ m \in Seq(Objects) /\ Len(m) = Len(l) - 1
      /\ \A i \in 1 .. Len(l) - 1 : m[i] = IF i < p THEN l[i] ELSE l[i + 1]
  BY <1>1, RemoveAtFacts
<1> HIDE DEF m
<1>3. Len(l) \in Nat /\ p \in Nat /\ p <= Len(l)
  BY <1>1
<1> DEFINE at(i) == IF i < p THEN i ELSE i + 1
<1>4. ASSUME NEW i \in 1 .. Len(m)
      PROVE  at(i) \in 1 .. Len(l) /\ m[i] = l[at(i)] /\ at(i) # p
  BY <1>2, <1>3
<1>5. ASSUME NEW i \in 1 .. Len(m), NEW j \in 1 .. Len(m), i < j PROVE at(i) < at(j)
  BY <1>5, <1>2, <1>3
<1>6. ASSUME NEW i \in 1 .. Len(l), i # p PROVE \E j \in 1 .. Len(m) : at(j) = i
  <2>1. CASE i < p
    <3>1. i \in 1 .. Len(m) /\ at(i) = i
      BY <1>2, <1>3, <2>1
    <3> QED BY <3>1
  <2>2. CASE ~(i < p)
    <3>1. i - 1 \in 1 .. Len(m) /\ at(i - 1) = i
      BY <1>2, <1>3, <1>1, <1>6, <2>2
    <3> QED BY <3>1
  <2> QED BY <2>1, <2>2
<1> HIDE DEF at
<1>7. Sorted(m, f)
  BY <1>4, <1>5 DEF Sorted
<1>8. ASSUME NEW q \in Elems(m) PROVE q \in Elems(l) /\ q # o
  <2>1. PICK i \in 1 .. Len(m) : q = m[i]
    BY DEF Elems
  <2>2. q = l[at(i)] /\ at(i) \in 1 .. Len(l) /\ at(i) # p
    BY <1>4, <2>1
  <2>3. q # o
    BY <1>1, <2>2, SortedIsInjective
  <2> QED BY <2>2, <2>3 DEF Elems
<1>9. ASSUME NEW q \in Elems(l), q # o PROVE q \in Elems(m)
  <2>1. PICK i \in 1 .. Len(l) : q = l[i]
    BY DEF Elems
  <2>2. PICK j \in 1 .. Len(m) : at(j) = i
    BY <1>1, <1>6, <1>9, <2>1
  <2>3. m[j] = q
    BY <1>4, <2>1, <2>2
  <2> QED BY <2>3 DEF Elems
<1>10. Elems(m) = Elems(l) \ {o}
  BY <1>8, <1>9
<1> QED BY <1>2, <1>7, <1>10 DEF m, p

\* The order of a list depends on the fields of its objects alone.
LEMMA SameFieldsSorted ==
  ASSUME NEW l \in Seq(Objects), NEW f, NEW g, Sorted(l, f), \A q \in Elems(l) : f[q] = g[q]
  PROVE  Sorted(l, g)
BY DEF Sorted, Elems
-----------------------------------------------------------------------------
(* Types.  They need a fact TypeOK says nothing about: what a new process  *)
(* loads is a value, not None.                                             *)

LoadingIsStored == \A k \in loading : redis[k] # None

TypeInv == TypeOK /\ LoadingIsStored

LEMMA NoneIsNoObject ==
  /\ None \notin Objects /\ None # Gone
  /\ None \notin Vals /\ Gone \notin Vals
<1>1. None \notin Int /\ Gone \notin Int
  BY RankingListAssumption, Zenon DEF RankingListAssumption
<1>2. Vals \subseteq Int
  BY RankingListAssumption DEF RankingListAssumption
<1> QED BY <1>1, <1>2, RankingListAssumption DEF RankingListAssumption

LEMMA TypeInit == Init => TypeInv
<1> SUFFICES ASSUME Init PROVE TypeInv
  OBVIOUS
<1>1. list \in Seq(Objects)
  BY DEF Init
<1>2. TypeOK
  BY <1>1 DEF Init, TypeOK, Item
<1> QED BY <1>2 DEF Init, TypeInv, LoadingIsStored

\* A handler that is anywhere serves a call.
LEMMA ServingIsCall ==
  ASSUME TypeOK, NEW h \in Handlers, call[h].at # "none"
  PROVE  /\ call[h] \in Calls /\ call[h] # Idle
         /\ Key(h) \in Keys /\ Val(h) \in Vals \cup {Gone}
BY DEF TypeOK, Calls, Idle, Key, Val

\* The next step of a call leaves the others and what it is about alone.
LEMMA GotoEffect ==
  ASSUME TypeOK, NEW h \in Handlers, call[h].at # "none", NEW s \in Steps, Goto(h, s)
  PROVE  /\ call' \in [Handlers -> Calls \cup {Idle}]
         /\ call'[h] = [at |-> s, key |-> Key(h), val |-> Val(h), alone |-> call[h].alone]
         /\ \A g \in Handlers \ {h} : call'[g] = call[g]
<1>1. call[h] \in Calls
  BY ServingIsCall
<1>2. call \in [Handlers -> Calls \cup {Idle}]
  BY DEF TypeOK
<1>3. call' = [call EXCEPT ![h] = [call[h] EXCEPT !.at = s]]
  BY DEF Goto
<1>4. [call[h] EXCEPT !.at = s]
        = [at |-> s, key |-> Key(h), val |-> Val(h), alone |-> call[h].alone]
  BY <1>1 DEF Calls, Key, Val
<1>5. [at |-> s, key |-> Key(h), val |-> Val(h), alone |-> call[h].alone] \in Calls
  BY <1>1 DEF Calls, Key, Val
<1> QED BY <1>2, <1>3, <1>4, <1>5

LEMMA DoneEffect ==
  ASSUME TypeOK, NEW h \in Handlers, Done(h)
  PROVE  /\ call' \in [Handlers -> Calls \cup {Idle}]
         /\ call'[h] = Idle
         /\ \A g \in Handlers \ {h} : call'[g] = call[g]
BY DEF TypeOK, Done

\* What a step that reads the first item does to the objects.
LEMMA CopyFirstTypes ==
  ASSUME TypeInv, CopyFirst
  PROVE  item' \in [Objects -> Item] /\ pool' \subseteq Objects
<1>1. CASE UNCHANGED <<item, pool>>
  BY <1>1 DEF TypeInv, TypeOK
<1>2. ASSUME NEW o \in pool, list # <<>>, pool' = pool \ {o},
             item' = [item EXCEPT ![o] = item[list[1]]]
      PROVE  item' \in [Objects -> Item] /\ pool' \subseteq Objects
  <2>1. list[1] \in Objects
    BY <1>2, EmptySeq, ElementOfSeq DEF TypeInv, TypeOK
  <2>2. item[list[1]] \in Item
    BY <2>1 DEF TypeInv, TypeOK
  <2> QED BY <1>2, <2>2 DEF TypeInv, TypeOK
<1> QED BY <1>1, <1>2 DEF CopyFirst

LEMMA ReportEffect ==
  ASSUME TypeOK, NEW h \in Handlers, NEW k \in Keys, NEW v \in Vals \cup {Gone},
         Report(h, k, v)
  PROVE  /\ call' \in [Handlers -> Calls \cup {Idle}]
         /\ call'[h] = [at |-> "first", key |-> k, val |-> v, alone |-> Calling(k) = {}]
         /\ \A g \in Handlers \ {h} :
              IF g \in Calling(k) THEN call'[g] = [call[g] EXCEPT !.alone = FALSE]
                                  ELSE call'[g] = call[g]
<1>1. call \in [Handlers -> Calls \cup {Idle}]
  BY DEF TypeOK
<1>2. [at |-> "first", key |-> k, val |-> v, alone |-> Calling(k) = {}] \in Calls
  BY DEF Calls, Steps
<1>3. ASSUME NEW g \in Calling(k) PROVE [call[g] EXCEPT !.alone = FALSE] \in Calls
  BY <1>1 DEF Calling, Calls
<1> HIDE DEF Calling
<1>4. /\ call'[h] = [at |-> "first", key |-> k, val |-> v, alone |-> Calling(k) = {}]
      /\ \A g \in Handlers \ {h} :
           IF g \in Calling(k) THEN call'[g] = [call[g] EXCEPT !.alone = FALSE]
                               ELSE call'[g] = call[g]
  BY DEF Report
<1>5. \A g \in Handlers : call'[g] \in Calls \cup {Idle}
  BY <1>1, <1>2, <1>3, <1>4
<1>6. call' = [g \in Handlers |-> call'[g]]
  BY DEF Report
<1> QED BY <1>4, <1>5, <1>6

LEMMA WithItemType ==
  ASSUME NEW l \in Seq(Objects), NEW f, NEW o \in Objects
  PROVE  WithItem(l, f, o) \in Seq(Objects)
<1>1. Place(l, f, f[o]) \in 1 .. Len(l) + 1
  BY PlaceFacts
<1> QED BY <1>1, InsertAtFacts DEF WithItem

\* Taking out the node a search has found.
LEMMA FoundRemovedType ==
  ASSUME NEW l \in Seq(Objects), NEW f, NEW x, Found(l, f, x)
  PROVE  RemoveAt(l, Place(l, f, x)) \in Seq(Objects)
<1>1. Place(l, f, x) \in 1 .. Len(l) + 1
  BY PlaceFacts
<1>2. Place(l, f, x) <= Len(l) /\ Len(l) \in Nat
  BY DEF Found
<1>3. Place(l, f, x) \in 1 .. Len(l)
  BY <1>1, <1>2
<1> QED BY <1>3, RemoveAtFacts

LEMMA AddItemTypes ==
  ASSUME TypeOK, NEW k \in Keys, NEW v \in Vals, AddItem(k, v)
  PROVE  /\ item' \in [Objects -> Item]
         /\ list' \in Seq(Objects)
         /\ key2item' \in [Keys -> Objects \cup {None}]
         /\ pool' \subseteq Objects
<1>1. PICK o \in Obtainable :
        /\ item' = [item EXCEPT ![o] = [key |-> k, val |-> v]]
        /\ list' = WithItem(list, item', o)
        /\ key2item' = [key2item EXCEPT ![k] = o]
        /\ pool' = pool \ {o}
  BY DEF AddItem
<1>2. o \in Objects
  BY DEF Obtainable, TypeOK
<1>3. [key |-> k, val |-> v] \in Item
  BY DEF Item
<1>4. list' \in Seq(Objects)
  BY <1>1, <1>2, WithItemType DEF TypeOK
<1> QED BY <1>1, <1>2, <1>3, <1>4 DEF TypeOK

LEMMA MoveTypes ==
  ASSUME TypeOK, NEW o \in Objects, NEW x \in Item, Found(list, item, item[o]), Move(o, x)
  PROVE  item' \in [Objects -> Item] /\ list' \in Seq(Objects)
<1> DEFINE rest == RemoveAt(list, Place(list, item, item[o]))
<1>1. item' = [item EXCEPT ![o] = x] /\ list' = WithItem(rest, item', o)
  BY DEF Move
<1>2. rest \in Seq(Objects)
  BY FoundRemovedType DEF TypeOK
<1> HIDE DEF rest
<1>3. list' \in Seq(Objects)
  BY <1>1, <1>2, WithItemType
<1> QED BY <1>1, <1>3 DEF TypeOK

LEMMA TypeStep == TypeInv /\ [Next]_vars => TypeInv'
<1> SUFFICES ASSUME TypeInv, [Next]_vars PROVE TypeInv'
  OBVIOUS
<1> USE DEF TypeInv
<1>0. "first" \in Steps /\ "apply" \in Steps /\ "post" \in Steps /\ "announce" \in Steps
  BY DEF Steps
<1>1. ASSUME NEW h \in Handlers, NEW k \in Keys, NEW v \in Vals \cup {Gone}, Report(h, k, v)
      PROVE  TypeInv'
  <2>1. call' \in [Handlers -> Calls \cup {Idle}]
    BY <1>1, ReportEffect
  <2>2. /\ told' = [told EXCEPT ![k] = None]
        /\ UNCHANGED <<key2item, item, list, pool, redis, loading, dropped, stale>>
    BY <1>1 DEF Report
  <2> QED BY <2>1, <2>2 DEF TypeOK, LoadingIsStored
<1>2. ASSUME NEW h \in Handlers, ReadFirst(h) PROVE TypeInv'
  <2>1. item' \in [Objects -> Item] /\ pool' \subseteq Objects
    BY <1>2, CopyFirstTypes DEF ReadFirst
  <2>2. call' \in [Handlers -> Calls \cup {Idle}]
    BY <1>0, <1>2, GotoEffect DEF ReadFirst, At
  <2> QED BY <1>2, <2>1, <2>2 DEF ReadFirst, TypeOK, LoadingIsStored
<1>3. ASSUME NEW h \in Handlers, UpdateNew(h) PROVE TypeInv'
  <2>1. Val(h) \in Vals /\ Key(h) \in Keys
    BY <1>3, ServingIsCall DEF UpdateNew, At
  <2>2. /\ item' \in [Objects -> Item] /\ list' \in Seq(Objects)
        /\ key2item' \in [Keys -> Objects \cup {None}] /\ pool' \subseteq Objects
    BY <1>3, <2>1, AddItemTypes DEF UpdateNew
  <2>3. call' \in [Handlers -> Calls \cup {Idle}]
    BY <1>0, <1>3, GotoEffect DEF UpdateNew, At
  <2> QED BY <1>3, <2>2, <2>3 DEF UpdateNew, TypeOK, LoadingIsStored
<1>4. ASSUME NEW h \in Handlers, UpdateOld(h) PROVE TypeInv'
  <2> DEFINE o == key2item[Key(h)]
             x == [key |-> Key(h), val |-> Val(h)]
  <2>1. Val(h) \in Vals /\ Key(h) \in Keys
    BY <1>4, ServingIsCall DEF UpdateOld, At
  <2>2. o \in Objects /\ x \in Item
    BY <1>4, <2>1 DEF UpdateOld, TypeOK, Item
  <2>3. /\ item' \in [Objects -> Item] /\ list' \in Seq(Objects)
        /\ call' \in [Handlers -> Calls \cup {Idle}]
    <3>1. CASE Found(list, item, item[o])
      <4>1. Move(o, x) /\ Goto(h, "post") /\ call[h].at # "none"
        BY <1>4, <3>1 DEF UpdateOld, At
      <4> HIDE DEF o, x
      <4> QED BY <1>0, <2>2, <3>1, <4>1, MoveTypes, GotoEffect
    <3>2. CASE ~Found(list, item, item[o])
      <4>1. Done(h) /\ UNCHANGED <<item, list>>
        BY <1>4, <3>2 DEF UpdateOld
      <4> QED BY <4>1, DoneEffect DEF TypeOK
    <3> QED BY <3>1, <3>2
  <2>4. stale' \in BOOLEAN
    BY <1>4, Zenon DEF UpdateOld, HandedOut, TypeOK
  <2> QED BY <1>4, <2>3, <2>4 DEF UpdateOld, TypeOK, LoadingIsStored
<1>5. ASSUME NEW h \in Handlers, DeleteKey(h) PROVE TypeInv'
  <2> DEFINE o == key2item[Key(h)]
  <2>1. Key(h) \in Keys
    BY <1>5, ServingIsCall DEF DeleteKey, At
  <2>2. list' \in Seq(Objects) /\ pool' \subseteq Objects /\ dropped' \subseteq Keys
    <3>1. CASE o # None /\ Found(list, item, item[o])
      <4>1. /\ list' = RemoveAt(list, Place(list, item, item[o])) /\ pool' = pool \cup {o}
            /\ dropped' = dropped \cup {Key(h)}
        BY <1>5, <3>1 DEF DeleteKey, Unlist
      <4>2. o \in Objects
        BY <2>1, <3>1 DEF TypeOK
      <4> HIDE DEF o
      <4>3. list' \in Seq(Objects)
        BY <3>1, <4>1, FoundRemovedType DEF TypeOK
      <4> QED BY <2>1, <4>1, <4>2, <4>3 DEF TypeOK
    <3>2. CASE ~(o # None /\ Found(list, item, item[o]))
      BY <1>5, <3>2 DEF DeleteKey, TypeOK
    <3> QED BY <3>1, <3>2
  <2>3. call' \in [Handlers -> Calls \cup {Idle}]
    BY <1>0, <1>5, GotoEffect DEF DeleteKey, At
  <2>4. stale' \in BOOLEAN
    BY <1>5, Zenon DEF DeleteKey, HandedOut, TypeOK
  <2> QED BY <1>5, <2>2, <2>3, <2>4 DEF DeleteKey, TypeOK, LoadingIsStored
<1>6. ASSUME NEW h \in Handlers, Post(h), loading = {} PROVE TypeInv'
  <2>1. Val(h) \in Vals \cup {Gone} /\ Key(h) \in Keys
    BY <1>6, ServingIsCall DEF Post, At
  <2>2. call' \in [Handlers -> Calls \cup {Idle}]
    BY <1>0, <1>6, GotoEffect DEF Post, At
  <2>3. redis' \in [Keys -> Vals \cup {None}]
    BY <1>6, <2>1 DEF Post, Stored, TypeOK
  <2> QED BY <1>6, <2>2, <2>3 DEF Post, TypeOK, LoadingIsStored
<1>7. ASSUME NEW h \in Handlers, Announce(h) PROVE TypeInv'
  <2>1. item' \in [Objects -> Item] /\ pool' \subseteq Objects
    BY <1>7, CopyFirstTypes DEF Announce
  <2>2. Val(h) \in Vals \cup {Gone} /\ Key(h) \in Keys
    BY <1>7, ServingIsCall DEF Announce, At
  <2>3. call' \in [Handlers -> Calls \cup {Idle}]
    BY <1>7, DoneEffect DEF Announce
  <2>4. told' \in [Keys -> Vals \cup {None, Gone}]
    BY <1>7, <2>2 DEF Announce, TypeOK
  <2> QED BY <1>7, <2>1, <2>3, <2>4 DEF Announce, TypeOK, LoadingIsStored
<1>8. ASSUME NEW k \in Keys, Load(k) PROVE TypeInv'
  <2>1. redis[k] \in Vals
    BY <1>8 DEF Load, TypeOK, LoadingIsStored
  <2>2. /\ item' \in [Objects -> Item] /\ list' \in Seq(Objects)
        /\ key2item' \in [Keys -> Objects \cup {None}] /\ pool' \subseteq Objects
    BY <1>8, <2>1, AddItemTypes DEF Load
  <2> QED BY <1>8, <2>2 DEF Load, TypeOK, LoadingIsStored
<1>9. CASE Restart
  <2>1. list' \in Seq(Objects)
    BY <1>9 DEF Restart
  <2>2. TypeOK'
    BY <1>9, <2>1 DEF Restart, TypeOK, Item
  <2> QED BY <1>9, <2>2 DEF Restart, LoadingIsStored
<1>10. CASE UNCHANGED vars
  BY <1>10 DEF vars, TypeOK, LoadingIsStored
<1> QED BY <1>1, <1>2, <1>3, <1>4, <1>5, <1>6, <1>7, <1>8, <1>9, <1>10 DEF Next, Serve

LEMMA TypeAlways == Spec => []TypeInv
BY TypeInit, TypeStep, PTL DEF Spec

\* Each variable of a ranking list and of its callers keeps its type: no search
\* of the list leaves it, and nothing but values is stored and loaded.
THEOREM TypeCorrect == Spec => []TypeOK
<1>1. TypeInv => TypeOK
  BY DEF TypeInv
<1> QED BY <1>1, TypeAlways, PTL
-----------------------------------------------------------------------------
(* The invariant.  Its first half is about the list, as long as no call    *)
(* has used an entry of the map that a delete left there and the pool has  *)
(* made another key's: a deleted key is not listed, and what is in the     *)
(* pool belongs to deleted keys, so that a call of such a key finds        *)
(* nothing.                                                                *)

Live(k) == key2item[k] # None /\ k \notin dropped

SortedList == Sorted(list, item)

ListedIsMapped ==
  \A q \in Elems(list) : /\ item[q] \in Entry /\ key2item[item[q].key] = q
                         /\ item[q].key \notin dropped /\ q \notin pool

MappedIsListed ==
  \A k \in Keys : Live(k) => key2item[k] \in Elems(list) /\ item[key2item[k]].key = k

PooledIsDropped == \A q \in pool : item[q] \in Entry /\ item[q].key \in dropped

DroppedIsMapped == \A k \in dropped : key2item[k] # None

GoodList == SortedList /\ ListedIsMapped /\ MappedIsListed /\ PooledIsDropped

ListInv == DroppedIsMapped /\ (~ stale => GoodList)

\* A key that is not loaded is not mapped, and while there is one no call gets further.
LoadingWaits ==
  /\ \A k \in loading : key2item[k] = None
  /\ loading # {} => /\ ~ stale /\ dropped = {}
                     /\ \A h \in Handlers : call[h].at \in {"none", "first"}

(* The second half is about a key's last call, when it is the only one:    *)
(* what it has done to the list and to the hash stays.                     *)

AloneIsAlone ==
  \A h, g \in Handlers :
    call[h] # Idle /\ call[h].alone /\ call[g] # Idle /\ Key(g) = Key(h) => g = h

ToldIsIdle == \A k \in Keys : told[k] # None => Calling(k) = {}

AloneAt(k, v, steps) ==
  \E h \in Handlers : call[h].at \in steps /\ call[h].alone /\ Key(h) = k /\ Val(h) = v

\* Has the list taken up v as the value of k, and has the hash?
Applied(k, v) == told[k] = v \/ AloneAt(k, v, {"post", "announce"})
Reported(k, v) == told[k] = v \/ AloneAt(k, v, {"announce"})

TakenUp(k, v) == IF v = Gone THEN Unranked(k) ELSE v \notin Zeros => Ranked(k, v)
InHash(k, v) == redis[k] = IF v = Gone THEN None ELSE v

AppliedIsRanked ==
  ~ stale => \A k \in Keys \ loading, v \in Vals \cup {Gone} : Applied(k, v) => TakenUp(k, v)

ReportedIsStored == \A k \in Keys, v \in Vals \cup {Gone} : Reported(k, v) => InHash(k, v)

CallInv == AloneIsAlone /\ ToldIsIdle

ValueInv == AppliedIsRanked /\ ReportedIsStored

Inv == TypeInv /\ ListInv /\ LoadingWaits /\ CallInv /\ ValueInv

LEMMA InvInit == Init => Inv
<1> SUFFICES ASSUME Init PROVE Inv
  OBVIOUS
<1>1. list = <<>> /\ Len(list) = 0
  BY DEF Init
<1>2. Elems(list) = {} /\ 1 .. Len(list) = {}
  BY <1>1 DEF Elems
<1>3. ListInv
  BY <1>2 DEF Init, ListInv, GoodList, SortedList, Sorted, ListedIsMapped, MappedIsListed,
     PooledIsDropped, DroppedIsMapped, Live
<1>4. LoadingWaits /\ CallInv
  BY DEF Init, LoadingWaits, CallInv, AloneIsAlone, ToldIsIdle
<1>5. ASSUME NEW k \in Keys, NEW v \in Vals \cup {Gone} PROVE ~Applied(k, v) /\ ~Reported(k, v)
  BY NoneIsNoObject DEF Init, Applied, Reported, AloneAt, Idle
<1>6. ValueInv
  BY <1>5 DEF ValueInv, AppliedIsRanked, ReportedIsStored
<1> QED BY <1>3, <1>4, <1>6, TypeInit DEF Inv

-----------------------------------------------------------------------------
(* The operations of the list. *)

\* What is ranked for the keys other than k stays so.
OthersStay(k) ==
  \A j \in Keys \ {k} : /\ Unranked(j) => Unranked(j)'
                        /\ \A v \in Vals : Ranked(j, v) => Ranked(j, v)'

\* Places and objects say the same of what is ranked.
LEMMA RankedObjects ==
  ASSUME NEW k, NEW v
  PROVE  /\ Ranked(k, v) <=> \E q \in Elems(list) : item[q] = [key |-> k, val |-> v]
         /\ Unranked(k) <=> \A q \in Elems(list) : item[q].key # k
         /\ Ranked(k, v)' <=> \E q \in Elems(list') : item'[q] = [key |-> k, val |-> v]
         /\ Unranked(k)' <=> \A q \in Elems(list') : item'[q].key # k
BY DEF Ranked, Unranked, Elems

\* Reading the first item touches no listed object.
LEMMA CopyFirstKeeps ==
  ASSUME TypeOK, GoodList, CopyFirst
  PROVE  pool' \subseteq pool /\ \A q \in Elems(list) \cup pool' : item'[q] = item[q]
<1>1. CASE UNCHANGED <<item, pool>>
  BY <1>1
<1>2. ASSUME NEW o \in pool, pool' = pool \ {o}, item' = [item EXCEPT ![o] = item[list[1]]]
      PROVE  pool' \subseteq pool /\ \A q \in Elems(list) \cup pool' : item'[q] = item[q]
  <2>1. o \notin Elems(list)
    BY DEF GoodList, ListedIsMapped
  <2>2. \A q \in Elems(list) \cup pool : q \in Objects
    BY DEF Elems, TypeOK
  <2> QED BY <1>2, <2>1, <2>2 DEF TypeOK
<1> QED BY <1>1, <1>2 DEF CopyFirst

\* So it keeps what the invariant says of the list, and what is ranked.
LEMMA SameListKeeps ==
  ASSUME TypeOK, GoodList, UNCHANGED <<list, key2item, dropped>>, pool' \subseteq pool,
         \A q \in Elems(list) \cup pool' : item'[q] = item[q]
  PROVE  /\ GoodList'
         /\ \A k \in Keys : /\ Unranked(k) => Unranked(k)'
                            /\ \A v \in Vals : Ranked(k, v) => Ranked(k, v)'
<1>1. list \in Seq(Objects)
  BY DEF TypeOK
<1>2. Sorted(list, item')
  BY <1>1, SameFieldsSorted DEF GoodList, SortedList
<1>3. SortedList'
  BY <1>2 DEF SortedList
<1>4. Elems(list)' = Elems(list) /\ Elems(list') = Elems(list)
  BY DEF Elems
<1>5. ListedIsMapped'
  BY <1>4 DEF GoodList, ListedIsMapped
<1>6. MappedIsListed'
  BY <1>4 DEF GoodList, MappedIsListed, Live
<1>7. PooledIsDropped'
  BY DEF GoodList, PooledIsDropped
<1>8. ASSUME NEW k \in Keys, Unranked(k) PROVE Unranked(k)'
  <2>1. \A q \in Elems(list) : item[q].key # k
    BY <1>8, RankedObjects
  <2>2. \A q \in Elems(list') : item'[q].key # k
    BY <1>4, <2>1
  <2> QED BY <2>2, RankedObjects
<1>9. ASSUME NEW k \in Keys, NEW v \in Vals, Ranked(k, v) PROVE Ranked(k, v)'
  <2>1. PICK q \in Elems(list) : item[q] = [key |-> k, val |-> v]
    BY <1>9, RankedObjects
  <2>2. q \in Elems(list') /\ item'[q] = [key |-> k, val |-> v]
    BY <1>4, <2>1
  <2> QED BY <2>2, RankedObjects
<1> QED BY <1>3, <1>5, <1>6, <1>7, <1>8, <1>9 DEF GoodList

\* An object that can be handed out is not listed; what AddItem makes of it is.
LEMMA AddItemKeeps ==
  ASSUME TypeOK, GoodList, DroppedIsMapped, NEW k \in Keys, NEW v \in Vals, AddItem(k, v),
         dropped' = dropped
  PROVE  GoodList' /\ DroppedIsMapped' /\ Ranked(k, v)' /\ OthersStay(k)
<1>1. PICK o \in Obtainable :
        /\ item' = [item EXCEPT ![o] = [key |-> k, val |-> v]]
        /\ list' = WithItem(list, item', o)
        /\ key2item' = [key2item EXCEPT ![k] = o]
        /\ pool' = pool \ {o}
  BY DEF AddItem
<1>2. /\ list \in Seq(Objects) /\ item \in [Objects -> Item] /\ pool \subseteq Objects
      /\ key2item \in [Keys -> Objects \cup {None}]
  BY DEF TypeOK
<1>3. o \in Objects /\ o \notin Elems(list)
  BY <1>2 DEF Obtainable, Referenced, Elems, GoodList, ListedIsMapped
<1>4. \A q \in Elems(list) : q \in Objects /\ q # o
  BY <1>2, <1>3 DEF Elems
<1>5. /\ item'[o] = [key |-> k, val |-> v]
      /\ \A q \in Elems(list) \cup pool' : item'[q] = item[q]
  BY <1>1, <1>2, <1>3, <1>4
<1>6. item'[o] \in Entry /\ item'[o].key = k
  BY <1>5 DEF Entry
<1>7. \A q \in Elems(list) : /\ item[q] \in Entry /\ item[q].key \in Keys \ dropped
                             /\ key2item[item[q].key] = q /\ q \notin pool
  BY DEF GoodList, ListedIsMapped, Entry
<1>8. key2item[k] = None /\ k \notin dropped
  BY DEF AddItem, DroppedIsMapped
<1>9. \A q \in Elems(list) : item[q].key # k
  BY <1>4, <1>7, <1>8, NoneIsNoObject
<1>10. Sorted(list, item')
  BY <1>2, <1>5, SameFieldsSorted DEF GoodList, SortedList
<1>11. Sorted(list', item') /\ Elems(list') = Elems(list) \cup {o}
  <2>1. \A q \in Elems(list) : item'[q] \in Entry /\ item'[q].key # item'[o].key
    BY <1>5, <1>6, <1>7, <1>9
  <2> DEFINE f == item'
  <2>2. /\ list \in Seq(Objects) /\ o \in Objects /\ Sorted(list, f) /\ f[o] \in Entry
        /\ \A q \in Elems(list) : f[q] \in Entry /\ f[q].key # f[o].key
    BY <1>2, <1>3, <1>6, <1>10, <2>1
  <2>3. list' = WithItem(list, f, o)
    BY <1>1
  <2> HIDE DEF f
  <2>4. Sorted(WithItem(list, f, o), f) /\ Elems(WithItem(list, f, o)) = Elems(list) \cup {o}
    BY <2>2, InsertionSorts
  <2>5. Sorted(list', f) /\ Elems(list') = Elems(list) \cup {o}
    BY <2>3, <2>4
  <2> QED BY <2>5 DEF f
<1>12. SortedList'
  BY <1>11 DEF SortedList
<1>13. ListedIsMapped'
  <2> SUFFICES ASSUME NEW q \in Elems(list')
               PROVE  /\ item'[q] \in Entry /\ key2item'[item'[q].key] = q
                      /\ item'[q].key \notin dropped /\ q \notin pool'
    BY DEF ListedIsMapped, Elems
  <2>1. CASE q = o
    BY <1>1, <1>2, <1>6, <1>8, <2>1
  <2>2. CASE q # o
    <3>1. q \in Elems(list)
      BY <1>11, <2>2
    <3>2. item'[q] = item[q] /\ item[q].key # k
      BY <1>5, <1>9, <3>1
    <3> QED BY <1>1, <1>2, <1>7, <3>1, <3>2
  <2> QED BY <2>1, <2>2
<1>14. \A j \in Keys \ {k} : key2item'[j] = key2item[j]
  BY <1>1, <1>2
<1>15. key2item'[k] = o
  BY <1>1, <1>2
<1>16. MappedIsListed'
  <2> SUFFICES ASSUME NEW j \in Keys, Live(j)'
               PROVE  key2item'[j] \in Elems(list') /\ item'[key2item'[j]].key = j
    BY DEF MappedIsListed, Elems
  <2>1. CASE j = k
    BY <1>6, <1>11, <1>15, <2>1
  <2>2. CASE j # k
    <3>1. Live(j) /\ key2item'[j] = key2item[j]
      BY <1>14, <2>2 DEF Live
    <3>2. key2item[j] \in Elems(list) /\ item[key2item[j]].key = j
      BY <3>1 DEF GoodList, MappedIsListed
    <3> QED BY <1>5, <1>11, <3>1, <3>2
  <2> QED BY <2>1, <2>2
<1>17. PooledIsDropped'
  BY <1>1, <1>5 DEF GoodList, PooledIsDropped
<1>18. DroppedIsMapped'
  BY <1>8, <1>14 DEF DroppedIsMapped, TypeOK
<1>19. Ranked(k, v)'
  BY <1>5, <1>11, RankedObjects
<1>20. OthersStay(k)
  <2>1. ASSUME NEW j \in Keys \ {k}, Unranked(j) PROVE Unranked(j)'
    <3>1. \A q \in Elems(list) : item[q].key # j
      BY <2>1, RankedObjects
    <3>2. \A q \in Elems(list') : item'[q].key # j
      BY <1>5, <1>6, <1>11, <3>1
    <3> QED BY <3>2, RankedObjects
  <2>2. ASSUME NEW j \in Keys \ {k}, NEW w \in Vals, Ranked(j, w) PROVE Ranked(j, w)'
    <3>1. PICK q \in Elems(list) : item[q] = [key |-> j, val |-> w]
      BY <2>2, RankedObjects
    <3>2. q \in Elems(list') /\ item'[q] = [key |-> j, val |-> w]
      BY <1>5, <1>11, <3>1
    <3> QED BY <3>2, RankedObjects
  <2> QED BY <2>1, <2>2 DEF OthersStay
<1> QED BY <1>12, <1>13, <1>16, <1>17, <1>18, <1>19, <1>20 DEF GoodList

\* The step of a key that is live works on its own node.
LEMMA LiveIsFound ==
  ASSUME TypeOK, GoodList, NEW k \in Keys, Live(k)
  PROVE  /\ key2item[k] \in Objects /\ key2item[k] \in Elems(list)
         /\ item[key2item[k]] \in Entry /\ item[key2item[k]].key = k
         /\ Found(list, item, item[key2item[k]])
<1>1. key2item[k] \in Objects /\ list \in Seq(Objects)
  BY DEF TypeOK, Live
<1>2. key2item[k] \in Elems(list) /\ item[key2item[k]].key = k
  BY DEF GoodList, MappedIsListed
<1>3. Sorted(list, item) /\ \A q \in Elems(list) : item[q] \in Entry
  BY DEF GoodList, SortedList, ListedIsMapped
<1> QED BY <1>1, <1>2, <1>3, ListedIsFound

\* That of a deleted key whose object is in the pool finds none.
LEMMA DroppedIsNotFound ==
  ASSUME TypeOK, GoodList, NEW k \in Keys, k \in dropped, key2item[k] \in pool
  PROVE  ~Found(list, item, item[key2item[k]])
<1> DEFINE x == item[key2item[k]]
<1>1. x.key \in dropped
  BY DEF GoodList, PooledIsDropped
<1> HIDE DEF x
<1>2. SUFFICES ASSUME Found(list, item, x) PROVE FALSE
  BY DEF x
<1>3. Place(list, item, x) \in 1 .. Len(list) + 1
  BY PlaceFacts DEF TypeOK
<1>4. /\ Place(list, item, x) <= Len(list) /\ Len(list) \in Nat
      /\ item[list[Place(list, item, x)]].key = x.key
  BY <1>2 DEF Found, TypeOK
<1>5. Place(list, item, x) \in 1 .. Len(list)
  BY <1>3, <1>4
<1>6. list[Place(list, item, x)] \in Elems(list)
  BY <1>5 DEF Elems
<1> QED BY <1>1, <1>4, <1>6 DEF GoodList, ListedIsMapped

LEMMA MoveKeeps ==
  ASSUME TypeOK, GoodList, DroppedIsMapped, NEW k \in Keys, NEW v \in Vals, Live(k),
         Move(key2item[k], [key |-> k, val |-> v]), UNCHANGED <<key2item, pool, dropped>>
  PROVE  GoodList' /\ DroppedIsMapped' /\ Ranked(k, v)' /\ OthersStay(k)
<1> DEFINE o == key2item[k]
           f == item'
           rest == RemoveAt(list, Place(list, item, item[o]))
<1>1. f = [item EXCEPT ![o] = [key |-> k, val |-> v]] /\ list' = WithItem(rest, f, o)
  BY DEF Move
<1>2. /\ list \in Seq(Objects) /\ item \in [Objects -> Item] /\ pool \subseteq Objects
      /\ key2item \in [Keys -> Objects \cup {None}]
  BY DEF TypeOK
<1>3. o \in Objects /\ o \in Elems(list) /\ item[o].key = k
  BY LiveIsFound
<1>4. /\ Sorted(list, item)
      /\ \A q \in Elems(list) :
           /\ q \in Objects /\ item[q] \in Entry /\ item[q].key \in Keys \ dropped
           /\ key2item[item[q].key] = q /\ q \notin pool
  BY <1>2 DEF GoodList, SortedList, ListedIsMapped, Entry, Elems
<1>5. rest \in Seq(Objects) /\ Sorted(rest, item) /\ Elems(rest) = Elems(list) \ {o}
  <2> HIDE DEF o
  <2> QED BY <1>2, <1>3, <1>4, RemovalSorts
<1>6. /\ f[o] = [key |-> k, val |-> v]
      /\ \A q \in (Elems(list) \cup pool) \ {o} : f[q] = item[q]
  BY <1>1, <1>2, <1>3, <1>4
<1>7. f[o] \in Entry /\ f[o].key = k
  BY <1>6 DEF Entry
<1>8. \A q \in Elems(list) \ {o} : item[q].key # k
  BY <1>4
<1>9. k \notin dropped
  BY DEF Live
<1> HIDE DEF rest, f, o
<1>10. Sorted(rest, f)
  BY <1>5, <1>6, SameFieldsSorted
<1>11. \A q \in Elems(rest) : f[q] \in Entry /\ f[q].key # f[o].key
  BY <1>4, <1>5, <1>6, <1>7, <1>8
<1>12. Sorted(WithItem(rest, f, o), f) /\ Elems(WithItem(rest, f, o)) = Elems(rest) \cup {o}
  BY <1>3, <1>5, <1>7, <1>10, <1>11, InsertionSorts
<1>13. Sorted(list', f) /\ Elems(list') = Elems(list)
  BY <1>1, <1>3, <1>5, <1>12
<1>14. SortedList'
  BY <1>13 DEF SortedList, f
<1>15. ASSUME NEW q \in Elems(list)
       PROVE  f[q] \in Entry /\ key2item[f[q].key] = q /\ f[q].key \notin dropped /\ q \notin pool
  <2>1. CASE q = o
    BY <1>3, <1>4, <1>7, <1>9, <2>1 DEF o
  <2>2. CASE q # o
    BY <1>4, <1>6, <2>2
  <2> QED BY <2>1, <2>2
<1>16. ListedIsMapped'
  BY <1>13, <1>15 DEF ListedIsMapped, Elems, f
<1>17. ASSUME NEW j \in Keys, Live(j)
       PROVE  key2item[j] \in Elems(list') /\ f[key2item[j]].key = j
  <2>1. key2item[j] \in Elems(list) /\ item[key2item[j]].key = j
    BY <1>17 DEF GoodList, MappedIsListed
  <2>2. CASE j = k
    BY <1>3, <1>7, <1>13, <2>2 DEF o
  <2>3. CASE j # k
    <3>1. key2item[j] # o
      BY <1>3, <2>1, <2>3
    <3> QED BY <1>6, <1>13, <2>1, <3>1
  <2> QED BY <2>2, <2>3
<1>18. MappedIsListed'
  BY <1>17 DEF MappedIsListed, Live, Elems, f
<1>19. PooledIsDropped'
  <2>1. o \notin pool
    BY <1>3, <1>4
  <2>2. \A q \in pool : f[q] = item[q]
    BY <1>6, <2>1
  <2> QED BY <2>2 DEF GoodList, PooledIsDropped, f
<1>20. DroppedIsMapped'
  BY DEF DroppedIsMapped
<1>21. Ranked(k, v)'
  BY <1>3, <1>6, <1>13, RankedObjects DEF f
<1>22. OthersStay(k)
  <2>1. ASSUME NEW j \in Keys \ {k}, Unranked(j) PROVE Unranked(j)'
    <3>1. \A q \in Elems(list) : item[q].key # j
      BY <2>1, RankedObjects
    <3>2. \A q \in Elems(list') : f[q].key # j
      BY <1>6, <1>7, <1>13, <3>1
    <3> QED BY <3>2, RankedObjects DEF f
  <2>2. ASSUME NEW j \in Keys \ {k}, NEW w \in Vals, Ranked(j, w) PROVE Ranked(j, w)'
    <3>1. PICK q \in Elems(list) : item[q] = [key |-> j, val |-> w]
      BY <2>2, RankedObjects
    <3>2. q # o /\ q \in Elems(list')
      BY <1>3, <1>13, <3>1
    <3>3. f[q] = [key |-> j, val |-> w]
      BY <1>6, <3>1, <3>2
    <3> QED BY <3>2, <3>3, RankedObjects DEF f
  <2> QED BY <2>1, <2>2 DEF OthersStay
<1> QED BY <1>14, <1>16, <1>18, <1>19, <1>20, <1>21, <1>22 DEF GoodList

LEMMA UnlistKeeps ==
  ASSUME TypeOK, GoodList, DroppedIsMapped, NEW k \in Keys, Live(k), Unlist(key2item[k]),
         dropped' = dropped \cup {k}, UNCHANGED <<key2item, item>>
  PROVE  GoodList' /\ DroppedIsMapped' /\ Unranked(k)' /\ OthersStay(k)
<1> DEFINE o == key2item[k]
<1>1. list' = RemoveAt(list, Place(list, item, item[o])) /\ pool' = pool \cup {o}
  BY DEF Unlist
<1>2. list \in Seq(Objects) /\ o \in Elems(list) /\ item[o] \in Entry /\ item[o].key = k
  BY LiveIsFound DEF TypeOK
<1>3. Sorted(list, item) /\ \A q \in Elems(list) : item[q] \in Entry /\ key2item[item[q].key] = q
  BY DEF GoodList, SortedList, ListedIsMapped
<1>4. \A q \in Elems(list) : item[q].key = k => q = o
  BY <1>3
<1> HIDE DEF o
<1>5. Sorted(list', item) /\ Elems(list') = Elems(list) \ {o}
  BY <1>1, <1>2, <1>3, RemovalSorts
<1>6. SortedList'
  BY <1>5 DEF SortedList
<1>7. ASSUME NEW q \in Elems(list')
      PROVE  /\ item[q] \in Entry /\ key2item[item[q].key] = q
             /\ item[q].key \notin dropped' /\ q \notin pool'
  BY <1>1, <1>4, <1>5 DEF GoodList, ListedIsMapped
<1>8. ListedIsMapped'
  BY <1>7 DEF ListedIsMapped, Elems
<1>9. ASSUME NEW j \in Keys, Live(j)'
      PROVE  key2item[j] \in Elems(list') /\ item[key2item[j]].key = j
  <2>1. Live(j) /\ j # k
    BY <1>9 DEF Live
  <2>2. key2item[j] \in Elems(list) /\ item[key2item[j]].key = j
    BY <2>1 DEF GoodList, MappedIsListed
  <2> QED BY <1>2, <1>5, <2>1, <2>2
<1>10. MappedIsListed'
  BY <1>9 DEF MappedIsListed, Elems
<1>11. PooledIsDropped'
  BY <1>1, <1>2 DEF GoodList, PooledIsDropped
<1>12. DroppedIsMapped'
  BY DEF DroppedIsMapped, Live
<1>13. Unranked(k)'
  BY <1>4, <1>5, RankedObjects
<1>14. OthersStay(k)
  <2>1. ASSUME NEW j \in Keys \ {k}, Unranked(j) PROVE Unranked(j)'
    BY <1>5, <2>1, RankedObjects
  <2>2. ASSUME NEW j \in Keys \ {k}, NEW w \in Vals, Ranked(j, w) PROVE Ranked(j, w)'
    <3>1. PICK q \in Elems(list) : item[q] = [key |-> j, val |-> w]
      BY <2>2, RankedObjects
    <3>2. q \in Elems(list')
      BY <1>2, <1>5, <3>1
    <3> QED BY <3>1, <3>2, RankedObjects
  <2> QED BY <2>1, <2>2 DEF OthersStay
<1> QED BY <1>6, <1>8, <1>10, <1>11, <1>12, <1>13, <1>14 DEF GoodList

-----------------------------------------------------------------------------
(* The calls. *)

\* A handler at work on a key: nothing is reported of the key, and if the handler or
\* another one has been alone, there is no other.
LEMMA OneCall ==
  ASSUME TypeOK, CallInv, NEW h \in Handlers, call[h].at # "none"
  PROVE  /\ told[Key(h)] = None
         /\ \A g \in Handlers :
              /\ call[g].at # "none" /\ Key(g) = Key(h) /\ (call[g].alone \/ call[h].alone)
              => g = h
<1>1. call[h] # Idle /\ Key(h) \in Keys
  BY ServingIsCall
<1>2. told[Key(h)] = None
  BY <1>1 DEF CallInv, ToldIsIdle, Calling
<1>3. \A g \in Handlers : call[g].at # "none" => call[g] # Idle
  BY ServingIsCall
<1> QED BY <1>1, <1>2, <1>3 DEF CallInv, AloneIsAlone

\* What the next step of a call changes of what is applied and reported.
LEMMA GotoCalls ==
  ASSUME TypeOK, CallInv, NEW h \in Handlers, call[h].at # "none", NEW s \in Steps,
         Goto(h, s), told' = told
  PROVE  /\ CallInv'
         /\ \A j \in Keys, v \in Vals \cup {Gone} :
              /\ Applied(j, v)' =>
                   \/ j # Key(h) /\ Applied(j, v)
                   \/ j = Key(h) /\ v = Val(h) /\ s \in {"post", "announce"} /\ call[h].alone
              /\ Reported(j, v)' =>
                   \/ j # Key(h) /\ Reported(j, v)
                   \/ j = Key(h) /\ v = Val(h) /\ s = "announce" /\ call[h].alone
<1>1. /\ call'[h] = [at |-> s, key |-> Key(h), val |-> Val(h), alone |-> call[h].alone]
      /\ \A g \in Handlers \ {h} : call'[g] = call[g]
  BY GotoEffect
<1>2. /\ told[Key(h)] = None
      /\ \A g \in Handlers :
           /\ call[g].at # "none" /\ Key(g) = Key(h) /\ (call[g].alone \/ call[h].alone)
           => g = h
  BY OneCall
<1>3. /\ call[h] # Idle /\ call'[h] # Idle /\ Key(h)' = Key(h) /\ Val(h)' = Val(h)
      /\ call'[h].alone = call[h].alone /\ call'[h].at = s
      /\ \A g \in Handlers \ {h} : Key(g)' = Key(g) /\ Val(g)' = Val(g)
  <2>1. s # "none"
    BY DEF Steps
  <2> QED BY <1>1, <2>1, ServingIsCall DEF Key, Val, Idle
<1>4. AloneIsAlone'
  <2> SUFFICES ASSUME NEW g \in Handlers, NEW f \in Handlers, call'[g] # Idle, call'[g].alone,
                      call'[f] # Idle, Key(f)' = Key(g)'
               PROVE  f = g
    BY Zenon DEF AloneIsAlone
  <2>1. call[g] # Idle /\ call[g].alone /\ call[f] # Idle /\ Key(f) = Key(g)
    BY <1>1, <1>3
  <2> QED BY <2>1 DEF CallInv, AloneIsAlone
<1>5. ToldIsIdle'
  <2> SUFFICES ASSUME NEW k \in Keys, told[k] # None, NEW g \in Calling(k)' PROVE FALSE
    BY DEF ToldIsIdle
  <2>1. g \in Handlers /\ call'[g] # Idle /\ Key(g)' = k
    BY DEF Calling
  <2>2. call[g] # Idle /\ Key(g) = k
    BY <1>1, <1>3, <2>1
  <2> QED BY <2>1, <2>2 DEF CallInv, ToldIsIdle, Calling
<1>6. ASSUME NEW j \in Keys, j # Key(h), NEW v \in Vals \cup {Gone}
      PROVE  (Applied(j, v)' => Applied(j, v)) /\ (Reported(j, v)' => Reported(j, v))
  <2>1. ASSUME NEW steps, AloneAt(j, v, steps)' PROVE AloneAt(j, v, steps)
    <3>1. PICK g \in Handlers : /\ call'[g].at \in steps /\ call'[g].alone
                                /\ Key(g)' = j /\ Val(g)' = v
      BY <2>1 DEF AloneAt
    <3>2. g # h
      BY <1>3, <1>6, <3>1
    <3> QED BY <1>1, <1>3, <3>1, <3>2 DEF AloneAt
  <2> QED BY <2>1 DEF Applied, Reported
<1>7. ASSUME NEW j \in Keys, j = Key(h), NEW v \in Vals \cup {Gone},
             NEW steps \in SUBSET {"post", "announce"}, told'[j] = v \/ AloneAt(j, v, steps)'
      PROVE  v = Val(h) /\ s \in steps /\ call[h].alone
  <2>1. AloneAt(j, v, steps)'
    BY <1>2, <1>7, NoneIsNoObject
  <2>2. PICK g \in Handlers : /\ call'[g].at \in steps /\ call'[g].alone
                              /\ Key(g)' = j /\ Val(g)' = v
    BY <2>1 DEF AloneAt
  <2>3. g = h
    <3> SUFFICES ASSUME g # h PROVE FALSE
      OBVIOUS
    <3>1. call[g].at # "none" /\ call[g].alone /\ Key(g) = Key(h)
      BY <1>1, <1>3, <1>7, <2>2
    <3> QED BY <1>2, <3>1
  <2> QED BY <1>3, <2>2, <2>3
<1>8. ASSUME NEW j \in Keys, NEW v \in Vals \cup {Gone}
      PROVE  /\ Applied(j, v)' =>
                  \/ j # Key(h) /\ Applied(j, v)
                  \/ j = Key(h) /\ v = Val(h) /\ s \in {"post", "announce"} /\ call[h].alone
             /\ Reported(j, v)' =>
                  \/ j # Key(h) /\ Reported(j, v)
                  \/ j = Key(h) /\ v = Val(h) /\ s = "announce" /\ call[h].alone
  <2>1. CASE j = Key(h)
    <3>1. Applied(j, v)' => v = Val(h) /\ s \in {"post", "announce"} /\ call[h].alone
      BY <1>7, <2>1 DEF Applied
    <3>2. Reported(j, v)' => v = Val(h) /\ s \in {"announce"} /\ call[h].alone
      BY <1>7, <2>1 DEF Reported
    <3> QED BY <2>1, <3>1, <3>2
  <2>2. CASE j # Key(h)
    BY <1>6, <2>2
  <2> QED BY <2>1, <2>2
<1> QED BY <1>4, <1>5, <1>8 DEF CallInv

\* What the end of a call changes of it: nothing new is applied, and what is reported now
\* was about to be.
LEMMA DoneCalls ==
  ASSUME TypeOK, CallInv, NEW h \in Handlers, call[h].at # "none", Done(h),
         \/ told' = told
         \/ /\ At(h, "announce") /\ call[h].alone
            /\ told' = [told EXCEPT ![Key(h)] = Val(h)]
  PROVE  /\ CallInv'
         /\ \A j \in Keys, v \in Vals \cup {Gone} :
              (Applied(j, v)' => Applied(j, v)) /\ (Reported(j, v)' => Reported(j, v))
<1>1. call'[h] = Idle /\ \A g \in Handlers \ {h} : call'[g] = call[g]
  BY DoneEffect
<1>2. /\ told[Key(h)] = None
      /\ \A g \in Handlers :
           /\ call[g].at # "none" /\ Key(g) = Key(h) /\ (call[g].alone \/ call[h].alone)
           => g = h
  BY OneCall
<1>3. /\ call[h] # Idle /\ Key(h) \in Keys
      /\ \A g \in Handlers \ {h} : Key(g)' = Key(g) /\ Val(g)' = Val(g)
      /\ \A g \in Handlers : call[g] # Idle => call[g].at # "none"
  BY <1>1, ServingIsCall DEF Key, Val, Idle, TypeOK, Calls, Steps
<1>4. AloneIsAlone'
  <2> SUFFICES ASSUME NEW g \in Handlers, NEW f \in Handlers, call'[g] # Idle, call'[g].alone,
                      call'[f] # Idle, Key(f)' = Key(g)'
               PROVE  f = g
    BY Zenon DEF AloneIsAlone
  <2>1. call[g] # Idle /\ call[g].alone /\ call[f] # Idle /\ Key(f) = Key(g)
    BY <1>1, <1>3
  <2> QED BY <2>1 DEF CallInv, AloneIsAlone
<1>5. ToldIsIdle'
  <2> SUFFICES ASSUME NEW k \in Keys, told'[k] # None, NEW g \in Calling(k)' PROVE FALSE
    BY DEF ToldIsIdle
  <2>1. g \in Handlers /\ call'[g] # Idle /\ Key(g)' = k
    BY DEF Calling
  <2>2. g # h /\ call[g] # Idle /\ Key(g) = k
    BY <1>1, <1>3, <2>1
  <2>3. told[k] = None
    BY <2>1, <2>2 DEF CallInv, ToldIsIdle, Calling
  <2>4. k = Key(h) /\ call[h].alone
    BY <1>3, <2>3 DEF TypeOK
  <2> QED BY <1>2, <1>3, <2>1, <2>2, <2>4
<1>6. ASSUME NEW j \in Keys, NEW v \in Vals \cup {Gone}, NEW steps,
             AloneAt(j, v, steps)', "none" \notin steps
      PROVE  AloneAt(j, v, steps)
  <2>1. PICK g \in Handlers : /\ call'[g].at \in steps /\ call'[g].alone
                              /\ Key(g)' = j /\ Val(g)' = v
    BY <1>6 DEF AloneAt
  <2>2. g # h
    BY <1>1, <1>6, <2>1 DEF Idle
  <2> QED BY <1>1, <1>3, <2>1, <2>2 DEF AloneAt
<1>7. ASSUME NEW j \in Keys, NEW v \in Vals \cup {Gone}, told'[j] = v, told[j] # v
      PROVE  AloneAt(j, v, {"announce"}) /\ AloneAt(j, v, {"post", "announce"})
  <2>1. /\ At(h, "announce") /\ call[h].alone
        /\ told' = [told EXCEPT ![Key(h)] = Val(h)]
    BY <1>7
  <2>2. j = Key(h) /\ v = Val(h)
    BY <1>7, <2>1 DEF TypeOK
  <2> QED BY <2>1, <2>2 DEF AloneAt, At
<1>8. ASSUME NEW j \in Keys, NEW v \in Vals \cup {Gone}
      PROVE  (Applied(j, v)' => Applied(j, v)) /\ (Reported(j, v)' => Reported(j, v))
  <2>1. Applied(j, v)' => Applied(j, v)
    BY <1>6, <1>7 DEF Applied
  <2>2. Reported(j, v)' => Reported(j, v)
    BY <1>6, <1>7 DEF Reported
  <2> QED BY <2>1, <2>2
<1> QED BY <1>4, <1>5, <1>8 DEF CallInv

\* What stays applied of the other keys stays taken up.
LEMMA OthersAreTakenUp ==
  ASSUME NEW k, OthersStay(k), NEW j \in Keys \ {k}, NEW v \in Vals \cup {Gone}, TakenUp(j, v)
  PROVE  TakenUp(j, v)'
BY DEF OthersStay, TakenUp

\* A step of a handler leaves applied values taken up, if it takes up its own as soon as
\* that counts as applied, and leaves the other keys alone.
LEMMA AppliedStays ==
  ASSUME TypeOK, CallInv, AppliedIsRanked, NEW h \in Handlers, call[h].at # "none",
         NEW s \in Steps, Goto(h, s), UNCHANGED <<told, loading>>,
         NEW k \in Keys, k = Key(h), NEW w, w = Val(h),
         ~ stale' => /\ ~ stale /\ OthersStay(k)
                     /\ s \in {"post", "announce"} => TakenUp(k, w)'
  PROVE  AppliedIsRanked'
<1> SUFFICES ASSUME ~ stale', NEW j \in Keys, j \notin loading, NEW v \in Vals \cup {Gone},
                    Applied(j, v)'
             PROVE  TakenUp(j, v)'
  BY DEF AppliedIsRanked
<1>1. \/ j # k /\ Applied(j, v)
      \/ j = k /\ v = w /\ s \in {"post", "announce"}
  BY GotoCalls
<1>2. CASE j = k /\ v = w /\ s \in {"post", "announce"}
  BY <1>2
<1>3. CASE j # k /\ Applied(j, v)
  <2>1. TakenUp(j, v)
    BY <1>3 DEF AppliedIsRanked
  <2> QED BY <1>3, <2>1, OthersAreTakenUp
<1> QED BY <1>1, <1>2, <1>3

-----------------------------------------------------------------------------
(* Every step keeps the invariant. *)

\* The list is as it was, and nothing new is applied.
LEMMA UntouchedKeeps ==
  ASSUME TypeOK, ListInv, AppliedIsRanked, UNCHANGED <<list, key2item, dropped, loading>>,
         ~ stale' => /\ ~ stale /\ pool' \subseteq pool
                     /\ \A q \in Elems(list) \cup pool' : item'[q] = item[q],
         \A j \in Keys, v \in Vals \cup {Gone} : Applied(j, v)' => Applied(j, v)
  PROVE  ListInv' /\ AppliedIsRanked'
<1>1. DroppedIsMapped'
  BY DEF ListInv, DroppedIsMapped
<1>2. ASSUME ~ stale'
      PROVE  /\ GoodList'
             /\ \A k \in Keys : /\ Unranked(k) => Unranked(k)'
                                /\ \A v \in Vals : Ranked(k, v) => Ranked(k, v)'
  BY <1>2, SameListKeeps DEF ListInv
<1>3. AppliedIsRanked'
  <2> SUFFICES ASSUME ~ stale', NEW j \in Keys, j \notin loading, NEW v \in Vals \cup {Gone},
                      Applied(j, v)'
               PROVE  TakenUp(j, v)'
    BY DEF AppliedIsRanked
  <2>1. TakenUp(j, v)
    BY DEF AppliedIsRanked
  <2> QED BY <1>2, <2>1 DEF TakenUp
<1> QED BY <1>1, <1>2, <1>3 DEF ListInv

LEMMA ReportKeeps ==
  ASSUME Inv, NEW h \in Handlers, NEW k \in Keys, NEW v \in Vals \cup {Gone}, Report(h, k, v)
  PROVE  ListInv' /\ LoadingWaits' /\ CallInv' /\ ValueInv'
<1>1. /\ call[h] = Idle /\ told' = [told EXCEPT ![k] = None]
      /\ UNCHANGED <<key2item, item, list, pool, redis, loading, dropped, stale>>
  BY DEF Report
<1>2. TypeOK /\ ListInv /\ LoadingWaits /\ CallInv /\ ValueInv
  BY DEF Inv, TypeInv
<1>3. /\ call'[h] = [at |-> "first", key |-> k, val |-> v, alone |-> Calling(k) = {}]
      /\ \A g \in Handlers \ {h} :
           IF g \in Calling(k) THEN call'[g] = [call[g] EXCEPT !.alone = FALSE]
                               ELSE call'[g] = call[g]
  BY <1>2, ReportEffect
<1>4. h \notin Calling(k)
  BY <1>1 DEF Calling
<1>5. ASSUME NEW g \in Handlers \ {h}
      PROVE  /\ call'[g].at = call[g].at /\ Key(g)' = Key(g) /\ Val(g)' = Val(g)
             /\ call'[g].alone => call[g].alone /\ g \notin Calling(k)
             /\ call'[g] # Idle => call[g] # Idle
  <2>1. CASE g \in Calling(k)
    <3>1. call[g] \in Calls
      BY <1>2, <2>1 DEF Calling, TypeOK
    <3>2. call'[g] = [call[g] EXCEPT !.alone = FALSE]
      BY <1>3, <2>1
    <3>3. call[g] # Idle
      BY <2>1 DEF Calling
    <3> QED BY <3>1, <3>2, <3>3 DEF Calls, Key, Val
  <2>2. CASE g \notin Calling(k)
    BY <1>3, <2>2 DEF Key, Val
  <2> QED BY <2>1, <2>2
<1>6. AloneIsAlone'
  <2> SUFFICES ASSUME NEW g \in Handlers, NEW f \in Handlers, call'[g] # Idle, call'[g].alone,
                      call'[f] # Idle, Key(f)' = Key(g)', f # g
               PROVE  FALSE
    BY Zenon DEF AloneIsAlone
  <2>1. CASE g = h
    <3> DEFINE none == Calling(k) = {}
    <3>1. Calling(k) = {} /\ Key(g)' = k
      <4>1. call'[h] = [at |-> "first", key |-> k, val |-> v, alone |-> none]
        BY <1>3
      <4> HIDE DEF none
      <4>2. call'[h].alone = none /\ call'[h].key = k
        BY <4>1
      <4>3. none
        BY <2>1, <4>2
      <4> QED BY <2>1, <4>2, <4>3 DEF none, Key
    <3>2. f \in Calling(k)
      BY <1>5, <2>1, <3>1 DEF Calling
    <3> QED BY <3>1, <3>2
  <2>2. CASE f = h /\ g # h
    <3>1. g \notin Calling(k) /\ call[g] # Idle /\ Key(g)' = Key(g) /\ Key(f)' = k
      BY <1>3, <1>5, <2>2 DEF Key
    <3> QED BY <3>1 DEF Calling
  <2>3. CASE f # h /\ g # h
    BY <1>2, <1>5, <2>3 DEF CallInv, AloneIsAlone
  <2> QED BY <2>1, <2>2, <2>3
<1>7. ToldIsIdle'
  <2> SUFFICES ASSUME NEW j \in Keys, told'[j] # None, NEW g \in Calling(j)' PROVE FALSE
    BY DEF ToldIsIdle
  <2>1. g \in Handlers /\ call'[g] # Idle /\ Key(g)' = j
    BY DEF Calling
  <2>2. j # k /\ told[j] # None
    BY <1>1, <1>2 DEF TypeOK
  <2>3. g # h
    BY <1>3, <2>1, <2>2 DEF Key
  <2> QED BY <1>2, <1>5, <2>1, <2>2, <2>3 DEF CallInv, ToldIsIdle, Calling
<1>8. ASSUME NEW j \in Keys, NEW w \in Vals \cup {Gone}
      PROVE  (Applied(j, w)' => Applied(j, w)) /\ (Reported(j, w)' => Reported(j, w))
  <2>1. ASSUME NEW steps \in SUBSET {"post", "announce"}, AloneAt(j, w, steps)'
        PROVE  AloneAt(j, w, steps)
    <3>1. PICK g \in Handlers : /\ call'[g].at \in steps /\ call'[g].alone
                                /\ Key(g)' = j /\ Val(g)' = w
      BY <2>1 DEF AloneAt
    <3>2. g # h
      BY <1>3, <3>1
    <3> QED BY <1>5, <3>1, <3>2 DEF AloneAt
  <2>2. told'[j] = w => told[j] = w
    BY <1>1, <1>2, NoneIsNoObject DEF TypeOK
  <2> QED BY <2>1, <2>2 DEF Applied, Reported
<1>9. ListInv' /\ AppliedIsRanked'
  <2>1. ~ stale' => /\ ~ stale /\ pool' \subseteq pool
                    /\ \A q \in Elems(list) \cup pool' : item'[q] = item[q]
    BY <1>1
  <2> QED BY <1>1, <1>2, <1>8, <2>1, UntouchedKeeps DEF ValueInv
<1>10. ReportedIsStored'
  BY <1>1, <1>2, <1>8 DEF ValueInv, ReportedIsStored, InHash
<1>11. LoadingWaits'
  <2>1. \A g \in Handlers : call'[g].at \in {"first", call[g].at}
    BY <1>3, <1>5
  <2> QED BY <1>1, <1>2, <2>1 DEF LoadingWaits
<1> QED BY <1>6, <1>7, <1>9, <1>10, <1>11 DEF CallInv, ValueInv

\* What the handlers' steps have in common.
LEMMA ServedWaits == ASSUME loading = {}, loading' = loading PROVE LoadingWaits'
BY DEF LoadingWaits

\* A step of a handler that has not reported and does not write the hash.
LEMMA StoredStays ==
  ASSUME TypeOK, CallInv, ReportedIsStored, NEW h \in Handlers, call[h].at # "none",
         NEW s \in Steps \ {"announce"}, Goto(h, s), UNCHANGED <<told, redis>>
  PROVE  ReportedIsStored'
<1> SUFFICES ASSUME NEW j \in Keys, NEW v \in Vals \cup {Gone}, Reported(j, v)'
             PROVE  InHash(j, v)'
  BY DEF ReportedIsStored
<1>1. Reported(j, v)
  BY GotoCalls
<1> QED BY <1>1 DEF ReportedIsStored, InHash

LEMMA ReadFirstKeeps ==
  ASSUME Inv, NEW h \in Handlers, ReadFirst(h), loading = {}
  PROVE  ListInv' /\ LoadingWaits' /\ CallInv' /\ ValueInv'
<1>1. /\ call[h].at # "none" /\ Goto(h, "apply") /\ "apply" \in Steps \ {"announce"}
      /\ CopyFirst /\ UNCHANGED <<key2item, list, redis, loading, told, dropped, stale>>
  BY DEF ReadFirst, At, Steps
<1>2. TypeOK /\ ListInv /\ CallInv /\ ValueInv
  BY DEF Inv, TypeInv
<1>3. /\ CallInv'
      /\ \A j \in Keys, v \in Vals \cup {Gone} : Applied(j, v)' => Applied(j, v)
  BY <1>1, <1>2, GotoCalls
<1>4. ~ stale' => /\ ~ stale /\ pool' \subseteq pool
                  /\ \A q \in Elems(list) \cup pool' : item'[q] = item[q]
  BY <1>1, <1>2, CopyFirstKeeps DEF ListInv
<1>5. ListInv' /\ AppliedIsRanked'
  BY <1>1, <1>2, <1>3, <1>4, UntouchedKeeps DEF ValueInv
<1>6. ReportedIsStored'
  BY <1>1, <1>2, StoredStays DEF ValueInv
<1>7. LoadingWaits'
  BY <1>1, ServedWaits
<1> QED BY <1>3, <1>5, <1>6, <1>7 DEF ValueInv

LEMMA UpdateNewKeeps ==
  ASSUME Inv, NEW h \in Handlers, UpdateNew(h), loading = {}
  PROVE  ListInv' /\ LoadingWaits' /\ CallInv' /\ ValueInv'
<1>1. PICK k \in Keys, w \in Vals \cup {Gone} : k = Key(h) /\ w = Val(h)
  BY ServingIsCall DEF UpdateNew, At, Inv, TypeInv
<1>2. /\ call[h].at # "none" /\ w \in Vals /\ AddItem(k, w) /\ Goto(h, "post")
      /\ UNCHANGED <<redis, loading, told, dropped, stale>>
  BY <1>1, ServingIsCall DEF UpdateNew, At, Inv, TypeInv
<1>3. TypeOK /\ ListInv /\ CallInv /\ ValueInv /\ "post" \in Steps \ {"announce"}
  BY DEF Inv, TypeInv, Steps
<1>4. DroppedIsMapped'
  <2>1. PICK o \in Obtainable : key2item' = [key2item EXCEPT ![k] = o]
    BY <1>2 DEF AddItem
  <2>2. o # None
    BY <1>3, <2>1, NoneIsNoObject DEF Obtainable, TypeOK
  <2> QED BY <1>2, <1>3, <2>1, <2>2 DEF ListInv, DroppedIsMapped, TypeOK
<1>5. ASSUME ~ stale PROVE GoodList' /\ Ranked(k, w)' /\ OthersStay(k)
  <2>1. GoodList /\ DroppedIsMapped
    BY <1>3, <1>5 DEF ListInv
  <2> QED BY <1>2, <1>3, <2>1, AddItemKeeps
<1>6. ASSUME ~ stale' PROVE ~ stale /\ OthersStay(k) /\ TakenUp(k, w)'
  BY <1>2, <1>5, <1>6, NoneIsNoObject DEF TakenUp
<1>7. AppliedIsRanked'
  BY <1>1, <1>2, <1>3, <1>6, AppliedStays DEF ValueInv
<1>8. CallInv'
  BY <1>2, <1>3, GotoCalls
<1>9. ReportedIsStored'
  BY <1>2, <1>3, StoredStays DEF ValueInv
<1>10. LoadingWaits'
  BY <1>2, ServedWaits
<1> QED BY <1>2, <1>4, <1>5, <1>7, <1>8, <1>9, <1>10 DEF ListInv, ValueInv

\* A call that does not use a stale entry finds a node only if its key is live.
LEMMA FoundIsLive ==
  ASSUME TypeOK, GoodList, NEW k \in Keys, key2item[k] # None, ~HandedOut(k)
  PROVE  Live(k) <=> Found(list, item, item[key2item[k]])
<1>1. CASE k \in dropped
  BY <1>1, DroppedIsNotFound DEF HandedOut, Live
<1>2. CASE k \notin dropped
  BY <1>2, LiveIsFound DEF Live
<1> QED BY <1>1, <1>2

\* A key that is not live is not listed.
LEMMA NotLiveIsUnranked ==
  ASSUME TypeOK, GoodList, NEW k \in Keys, ~Live(k)
  PROVE  Unranked(k)
<1>1. \A q \in Elems(list) : q # None
  BY NoneIsNoObject DEF Elems, TypeOK
<1>2. \A q \in Elems(list) : key2item[item[q].key] = q /\ item[q].key \notin dropped
  BY DEF GoodList, ListedIsMapped
<1>3. \A q \in Elems(list) : item[q].key # k
  BY <1>1, <1>2 DEF Live
<1> QED BY <1>3, RankedObjects

LEMMA UpdateOldKeeps ==
  ASSUME Inv, NEW h \in Handlers, UpdateOld(h), loading = {}
  PROVE  ListInv' /\ LoadingWaits' /\ CallInv' /\ ValueInv'
<1>1. PICK k \in Keys, w \in Vals \cup {Gone} : k = Key(h) /\ w = Val(h)
  BY ServingIsCall DEF UpdateOld, At, Inv, TypeInv
<1> DEFINE o == key2item[k]
           found == Found(list, item, item[o])
<1>2. /\ call[h].at # "none" /\ w \in Vals /\ o # None
      /\ UNCHANGED <<key2item, pool, redis, loading, told, dropped>>
  BY <1>1, ServingIsCall DEF UpdateOld, At, Inv, TypeInv
<1>3. TypeOK /\ ListInv /\ CallInv /\ ValueInv /\ "post" \in Steps \ {"announce"}
  BY DEF Inv, TypeInv, Steps
<1>4. ASSUME ~ stale' PROVE ~ stale /\ ~HandedOut(k)
  BY <1>1, <1>4 DEF UpdateOld
<1>5. DroppedIsMapped'
  BY <1>2, <1>3 DEF ListInv, DroppedIsMapped
<1>6. LoadingWaits'
  BY <1>2, ServedWaits
<1>7. CASE found
  <2>1. Move(o, [key |-> k, val |-> w]) /\ Goto(h, "post")
    BY <1>1, <1>7 DEF UpdateOld
  <2>2. ASSUME ~ stale' PROVE GoodList' /\ Ranked(k, w)' /\ OthersStay(k)
    <3>1. GoodList /\ DroppedIsMapped
      BY <1>3, <1>4, <2>2 DEF ListInv
    <3>2. Live(k)
      BY <1>2, <1>3, <1>4, <1>7, <2>2, <3>1, FoundIsLive
    <3> QED BY <1>2, <1>3, <2>1, <3>1, <3>2, MoveKeeps
  <2> HIDE DEF o, found
  <2>3. ASSUME ~ stale' PROVE ~ stale /\ OthersStay(k) /\ TakenUp(k, w)'
  BY <1>2, <1>4, <2>2, <2>3, NoneIsNoObject DEF TakenUp
  <2>4. AppliedIsRanked'
    BY <1>1, <1>2, <1>3, <2>1, <2>3, AppliedStays DEF ValueInv
  <2>5. CallInv' /\ ReportedIsStored'
    BY <1>2, <1>3, <2>1, GotoCalls, StoredStays DEF ValueInv
  <2> QED BY <1>5, <1>6, <2>2, <2>4, <2>5 DEF ListInv, ValueInv
<1>8. CASE ~found
  <2>1. Done(h) /\ UNCHANGED <<item, list>>
    BY <1>1, <1>8 DEF UpdateOld
  <2>2. /\ CallInv'
        /\ \A j \in Keys, v \in Vals \cup {Gone} :
             (Applied(j, v)' => Applied(j, v)) /\ (Reported(j, v)' => Reported(j, v))
    BY <1>2, <1>3, <2>1, DoneCalls
  <2>3. ~ stale' => /\ ~ stale /\ pool' \subseteq pool
                    /\ \A q \in Elems(list) \cup pool' : item'[q] = item[q]
    BY <1>2, <1>4, <2>1
  <2>4. ListInv' /\ AppliedIsRanked'
    BY <1>2, <1>3, <2>1, <2>2, <2>3, UntouchedKeeps DEF ValueInv
  <2>5. ReportedIsStored'
    BY <1>2, <1>3, <2>2 DEF ValueInv, ReportedIsStored, InHash
  <2> QED BY <1>6, <2>2, <2>4, <2>5 DEF ValueInv
<1> QED BY <1>7, <1>8

LEMMA DeleteKeyKeeps ==
  ASSUME Inv, NEW h \in Handlers, DeleteKey(h), loading = {}
  PROVE  ListInv' /\ LoadingWaits' /\ CallInv' /\ ValueInv'
<1>1. PICK k \in Keys, w \in Vals \cup {Gone} : k = Key(h) /\ w = Val(h)
  BY ServingIsCall DEF DeleteKey, At, Inv, TypeInv
<1> DEFINE o == key2item[k]
           found == o # None /\ Found(list, item, item[o])
<1>2. /\ call[h].at # "none" /\ w \in Zeros \cup {Gone} /\ Goto(h, "post")
      /\ UNCHANGED <<key2item, item, redis, loading, told>>
  BY <1>1 DEF DeleteKey, At
<1>3. TypeOK /\ ListInv /\ CallInv /\ ValueInv /\ "post" \in Steps \ {"announce"}
  BY DEF Inv, TypeInv, Steps
<1>4. ASSUME ~ stale' PROVE ~ stale /\ ~HandedOut(k) /\ GoodList /\ DroppedIsMapped
  BY <1>1, <1>3, <1>4 DEF DeleteKey, ListInv
<1>5. /\ found => Unlist(o) /\ dropped' = dropped \cup {k}
      /\ ~found => UNCHANGED <<list, pool, dropped>>
  BY <1>1 DEF DeleteKey
<1>6. DroppedIsMapped'
  BY <1>2, <1>3, <1>5 DEF ListInv, DroppedIsMapped
<1>7. ASSUME ~ stale' PROVE GoodList' /\ Unranked(k)' /\ OthersStay(k)
  <2>1. CASE found
    <3>1. Live(k)
      BY <1>3, <1>4, <1>7, <2>1, FoundIsLive
    <3> QED BY <1>2, <1>3, <1>4, <1>5, <1>7, <2>1, <3>1, UnlistKeeps
  <2>2. CASE ~found
    <3>1. ~Live(k)
      BY <1>3, <1>4, <1>7, <2>2, LiveIsFound DEF Live
    <3>2. Unranked(k)
      BY <1>3, <1>4, <1>7, <3>1, NotLiveIsUnranked
    <3>3. UNCHANGED <<list, key2item, dropped, pool, item>>
      BY <1>2, <1>5, <2>2
    <3> HIDE DEF found, o
    <3>4. /\ GoodList'
          /\ \A j \in Keys : /\ Unranked(j) => Unranked(j)'
                             /\ \A v \in Vals : Ranked(j, v) => Ranked(j, v)'
      BY <1>3, <1>4, <1>7, <3>3, SameListKeeps
    <3> QED BY <3>2, <3>4 DEF OthersStay
  <2> QED BY <2>1, <2>2
<1> HIDE DEF o, found
<1>8. ASSUME ~ stale' PROVE ~ stale /\ OthersStay(k) /\ TakenUp(k, w)'
  BY <1>2, <1>4, <1>7, <1>8 DEF TakenUp
<1>9. AppliedIsRanked'
  BY <1>1, <1>2, <1>3, <1>8, AppliedStays DEF ValueInv
<1>10. CallInv' /\ ReportedIsStored'
  BY <1>2, <1>3, GotoCalls, StoredStays DEF ValueInv
<1>11. LoadingWaits'
  BY <1>2, ServedWaits
<1> QED BY <1>6, <1>7, <1>9, <1>10, <1>11 DEF ListInv, ValueInv

LEMMA PostKeeps ==
  ASSUME Inv, NEW h \in Handlers, Post(h), loading = {}
  PROVE  ListInv' /\ LoadingWaits' /\ CallInv' /\ ValueInv'
<1>1. /\ call[h].at = "post" /\ call[h].at # "none" /\ Goto(h, "announce")
      /\ redis' = [redis EXCEPT ![Key(h)] = IF Val(h) = Gone THEN None ELSE Val(h)]
      /\ UNCHANGED <<key2item, item, list, pool, loading, told, dropped, stale>>
  BY DEF Post, At, Stored
<1>2. TypeOK /\ ListInv /\ CallInv /\ ValueInv /\ "announce" \in Steps
  BY DEF Inv, TypeInv, Steps
<1>3. /\ CallInv'
      /\ \A j \in Keys, v \in Vals \cup {Gone} :
           /\ Applied(j, v)' => \/ j # Key(h) /\ Applied(j, v)
                                \/ j = Key(h) /\ v = Val(h) /\ call[h].alone
           /\ Reported(j, v)' => \/ j # Key(h) /\ Reported(j, v)
                                 \/ j = Key(h) /\ v = Val(h) /\ call[h].alone
  BY <1>1, <1>2, GotoCalls
<1>4. \A j \in Keys, v \in Vals \cup {Gone} : Applied(j, v)' => Applied(j, v)
  BY <1>1, <1>3 DEF Applied, AloneAt
<1>5. ListInv' /\ AppliedIsRanked'
  BY <1>1, <1>2, <1>4, UntouchedKeeps DEF ValueInv
<1>6. ReportedIsStored'
  <2> SUFFICES ASSUME NEW j \in Keys, NEW v \in Vals \cup {Gone}, Reported(j, v)'
               PROVE  redis'[j] = IF v = Gone THEN None ELSE v
    BY DEF ReportedIsStored, InHash
  <2>1. \/ j # Key(h) /\ Reported(j, v)
        \/ j = Key(h) /\ v = Val(h)
    BY <1>3
  <2> QED BY <1>1, <1>2, <2>1 DEF ValueInv, ReportedIsStored, InHash, TypeOK
<1>7. LoadingWaits'
  BY <1>1, ServedWaits
<1> QED BY <1>3, <1>5, <1>6, <1>7 DEF ValueInv

LEMMA AnnounceKeeps ==
  ASSUME Inv, NEW h \in Handlers, Announce(h), loading = {}
  PROVE  ListInv' /\ LoadingWaits' /\ CallInv' /\ ValueInv'
<1>1. /\ At(h, "announce") /\ call[h].at # "none" /\ CopyFirst /\ Done(h)
      /\ told' = IF call[h].alone THEN [told EXCEPT ![Key(h)] = Val(h)] ELSE told
      /\ UNCHANGED <<key2item, list, redis, loading, dropped, stale>>
  BY DEF Announce, At
<1>2. TypeOK /\ ListInv /\ CallInv /\ ValueInv
  BY DEF Inv, TypeInv
<1>3. /\ CallInv'
      /\ \A j \in Keys, v \in Vals \cup {Gone} :
           (Applied(j, v)' => Applied(j, v)) /\ (Reported(j, v)' => Reported(j, v))
  BY <1>1, <1>2, DoneCalls
<1>4. ~ stale' => /\ ~ stale /\ pool' \subseteq pool
                  /\ \A q \in Elems(list) \cup pool' : item'[q] = item[q]
  BY <1>1, <1>2, CopyFirstKeeps DEF ListInv
<1>5. ListInv' /\ AppliedIsRanked'
  BY <1>1, <1>2, <1>3, <1>4, UntouchedKeeps DEF ValueInv
<1>6. ReportedIsStored'
  BY <1>1, <1>2, <1>3 DEF ValueInv, ReportedIsStored, InHash
<1>7. LoadingWaits'
  BY <1>1, ServedWaits
<1> QED BY <1>3, <1>5, <1>6, <1>7 DEF ValueInv

LEMMA LoadKeeps ==
  ASSUME Inv, NEW k \in Keys, Load(k)
  PROVE  ListInv' /\ LoadingWaits' /\ CallInv' /\ ValueInv'
<1>0. PICK w \in Vals : w = redis[k]
  BY DEF Inv, TypeInv, TypeOK, LoadingIsStored, Load
<1>1. /\ k \in loading /\ AddItem(k, w) /\ loading' = loading \ {k}
      /\ UNCHANGED <<call, redis, told, dropped, stale>>
  BY <1>0 DEF Load
<1>2. TypeOK /\ LoadingIsStored /\ ListInv /\ LoadingWaits /\ CallInv /\ ValueInv
  BY DEF Inv, TypeInv
<1>4. ~ stale /\ dropped = {} /\ \A h \in Handlers : call[h].at \in {"none", "first"}
  BY <1>1, <1>2 DEF LoadingWaits
<1>5. GoodList' /\ DroppedIsMapped' /\ Ranked(k, w)' /\ OthersStay(k)
  <2>1. GoodList /\ DroppedIsMapped
    BY <1>2, <1>4 DEF ListInv
  <2> QED BY <1>1, <1>2, <2>1, AddItemKeeps
<1>6. LoadingWaits'
  <2>1. PICK o \in Obtainable : key2item' = [key2item EXCEPT ![k] = o]
    BY <1>1 DEF AddItem
  <2> QED BY <1>1, <1>2, <1>4, <2>1 DEF LoadingWaits, TypeOK
<1>7. CallInv'
  BY <1>1, <1>2 DEF CallInv, AloneIsAlone, ToldIsIdle, Calling, Key
<1>8. \A j \in Keys, v \in Vals \cup {Gone} :
        (Applied(j, v)' => told[j] = v \/ Applied(j, v)) /\ (Reported(j, v)' => Reported(j, v))
  BY <1>1 DEF Applied, Reported, AloneAt, Key, Val
<1>9. ReportedIsStored'
  BY <1>1, <1>2, <1>8 DEF ValueInv, ReportedIsStored, InHash
<1>10. AppliedIsRanked'
  <2> SUFFICES ASSUME NEW j \in Keys, j \notin loading', NEW v \in Vals \cup {Gone},
                      Applied(j, v)'
               PROVE  TakenUp(j, v)'
    BY DEF AppliedIsRanked
  <2>1. CASE j = k
    <3>1. Reported(k, v)
      BY <1>1, <1>4, <2>1 DEF Applied, Reported, AloneAt
    <3>2. w = IF v = Gone THEN None ELSE v
      BY <1>0, <1>2, <3>1 DEF ValueInv, ReportedIsStored, InHash
    <3>3. v # Gone /\ v = w
      BY <3>2, NoneIsNoObject
    <3> QED BY <1>5, <2>1, <3>3 DEF TakenUp
  <2>2. CASE j # k
    <3>1. Applied(j, v) /\ j \notin loading
      BY <1>1, <2>2 DEF Applied, AloneAt, Key, Val
    <3>2. TakenUp(j, v)
      BY <1>2, <1>4, <3>1 DEF ValueInv, AppliedIsRanked
    <3> QED BY <1>5, <2>2, <3>2, OthersAreTakenUp
  <2> QED BY <2>1, <2>2
<1> QED BY <1>5, <1>6, <1>7, <1>9, <1>10 DEF ListInv, ValueInv

LEMMA RestartKeeps ==
  ASSUME Inv, Restart
  PROVE  ListInv' /\ LoadingWaits' /\ CallInv' /\ ValueInv'
<1>1. /\ key2item' = [k \in Keys |-> None] /\ list' = <<>> /\ pool' = {}
      /\ call' = [h \in Handlers |-> Idle] /\ loading' = {k \in Keys : redis[k] # None}
      /\ dropped' = {} /\ stale' = FALSE /\ UNCHANGED <<redis, told>>
  BY DEF Restart
<1>2. Len(list') = 0
  BY <1>1
<1>3. Elems(list)' = {} /\ Elems(list') = {} /\ Len(list)' = 0
  BY <1>2 DEF Elems
<1>4. GoodList' /\ DroppedIsMapped'
  BY <1>1, <1>3 DEF GoodList, SortedList, Sorted, ListedIsMapped, MappedIsListed,
     PooledIsDropped, DroppedIsMapped, Live
<1>5. LoadingWaits' /\ CallInv'
  BY <1>1 DEF LoadingWaits, CallInv, AloneIsAlone, ToldIsIdle, Calling, Idle
<1>6. ASSUME NEW j \in Keys, NEW v \in Vals \cup {Gone}, Applied(j, v)' \/ Reported(j, v)'
      PROVE  InHash(j, v)
  <2>1. told[j] = v
    BY <1>1, <1>6 DEF Applied, Reported, AloneAt, Idle
  <2> QED BY <2>1 DEF Inv, ValueInv, ReportedIsStored, Reported
<1>7. ReportedIsStored'
  BY <1>1, <1>6 DEF ReportedIsStored, InHash
<1>8. AppliedIsRanked'
  <2> SUFFICES ASSUME NEW j \in Keys, j \notin loading', NEW v \in Vals \cup {Gone},
                      Applied(j, v)'
               PROVE  TakenUp(j, v)'
    BY DEF AppliedIsRanked
  <2>1. redis[j] = None
    BY <1>1
  <2>2. v = Gone
    BY <1>6, <2>1, NoneIsNoObject DEF InHash
  <2>3. Unranked(j)'
    BY <1>3, RankedObjects
  <2> QED BY <2>2, <2>3 DEF TakenUp
<1> QED BY <1>4, <1>5, <1>7, <1>8 DEF ListInv, ValueInv

LEMMA InvStep == Inv /\ [Next]_vars => Inv'
<1> SUFFICES ASSUME Inv, [Next]_vars PROVE Inv'
  OBVIOUS
<1>1. TypeInv'
  BY TypeStep DEF Inv
<1>2. ASSUME NEW h \in Handlers, Serve(h)
      PROVE  ListInv' /\ LoadingWaits' /\ CallInv' /\ ValueInv'
  BY <1>2, ReadFirstKeeps, UpdateNewKeeps, UpdateOldKeeps, DeleteKeyKeeps, PostKeeps,
     AnnounceKeeps DEF Serve
<1>3. ASSUME NEW k \in Keys, Load(k)
      PROVE  ListInv' /\ LoadingWaits' /\ CallInv' /\ ValueInv'
  BY <1>3, LoadKeeps
<1>4. ASSUME NEW h \in Handlers, NEW k \in Keys, NEW v \in Vals \cup {Gone}, Report(h, k, v)
      PROVE  ListInv' /\ LoadingWaits' /\ CallInv' /\ ValueInv'
  BY <1>4, ReportKeeps
<1>5. ASSUME Restart PROVE ListInv' /\ LoadingWaits' /\ CallInv' /\ ValueInv'
  BY <1>5, RestartKeeps
<1>6. ASSUME UNCHANGED vars PROVE ListInv' /\ LoadingWaits' /\ CallInv' /\ ValueInv'
  <2>1. TypeOK /\ ListInv /\ LoadingWaits /\ CallInv /\ ValueInv
    BY DEF Inv, TypeInv
  <2>2. \A j \in Keys, v \in Vals \cup {Gone} :
          (Applied(j, v)' => Applied(j, v)) /\ (Reported(j, v)' => Reported(j, v))
    BY <1>6 DEF vars, Applied, Reported, AloneAt, Key, Val
  <2>3. ListInv' /\ AppliedIsRanked'
    <3>1. /\ UNCHANGED <<list, key2item, dropped, loading>>
          /\ ~ stale' => /\ ~ stale /\ pool' \subseteq pool
                         /\ \A q \in Elems(list) \cup pool' : item'[q] = item[q]
      BY <1>6 DEF vars
    <3> QED BY <2>1, <2>2, <3>1, UntouchedKeeps DEF ValueInv
  <2>4. LoadingWaits' /\ CallInv'
    BY <1>6, <2>1 DEF vars, LoadingWaits, CallInv, AloneIsAlone, ToldIsIdle, Calling, Key
  <2>5. ReportedIsStored'
    BY <1>6, <2>1, <2>2 DEF vars, ValueInv, ReportedIsStored, InHash
  <2> QED BY <2>3, <2>4, <2>5 DEF ValueInv
<1>7. ListInv' /\ LoadingWaits' /\ CallInv' /\ ValueInv'
  BY <1>2, <1>3, <1>4, <1>5, <1>6 DEF Next
<1> QED BY <1>1, <1>7 DEF Inv

LEMMA InvAlways == Spec => []Inv
BY InvInit, InvStep, PTL DEF Spec

-----------------------------------------------------------------------------
(* What follows from the invariant. *)

\* Until a call uses an entry of the map that a delete has left there and the pool has
\* made another key's, the items are strictly sorted and each key that was not deleted
\* is in the list once, under its own name, whatever calls of whatever keys run at once.
THEOREM ListedOnceInOrder == Spec => []SortedOnce
<1>1. Inv => SortedOnce
  <2> SUFFICES ASSUME Inv, ~ stale PROVE SortedOnce
    BY DEF SortedOnce
  <2>1. TypeOK /\ GoodList /\ list \in Seq(Objects)
    BY DEF Inv, TypeInv, TypeOK, ListInv
  <2>2. Sorted(list, item) /\ \A q \in Elems(list) : item[q] \in Entry
    BY <2>1 DEF GoodList, SortedList, ListedIsMapped
  <2>3. ASSUME NEW k \in Keys, key2item[k] # None, k \notin dropped
        PROVE  Cardinality(Places(k)) = 1 /\ item[key2item[k]].key = k
    <3>1. key2item[k] \in Elems(list) /\ item[key2item[k]].key = k
      BY <2>1, <2>3, LiveIsFound DEF Live
    <3>2. PICK i \in 1 .. Len(list) : list[i] = key2item[k]
      BY <3>1 DEF Elems
    <3>3. \A j \in 1 .. Len(list) : list[j] = key2item[k] => j = i
      BY <2>1, <2>2, <3>2, SortedIsInjective
    <3>4. Places(k) = {i}
      BY <3>2, <3>3 DEF Places
    <3> QED BY <3>1, <3>4, FS_Singleton
  <2> QED BY <2>2, <2>3 DEF SortedOnce, Sorted
<1> QED BY <1>1, InvAlways, PTL

\* What a call has reported that succeeded, with no other call of its key at the same time,
\* stays in the hash, and in the list of every server that has loaded the key, until the
\* key is called for again: calls of other keys, restarts at any step, the calls of the
\* key that overlapped before and the reuse of the objects do not change it.
THEOREM ReportedStaysRanked == Spec => []AckedIsRanked
<1>1. Inv => AckedIsRanked
  <2> SUFFICES ASSUME Inv PROVE AckedIsRanked
    OBVIOUS
  <2>0. SUFFICES ASSUME NEW k \in Keys, NEW v \in Vals \cup {Gone}, told[k] = v, v \notin Zeros
                 PROVE  /\ InHash(k, v)
                        /\ ~ stale /\ k \notin loading => TakenUp(k, v)
                        /\ v = Gone => k \notin loading
    <3> SUFFICES ASSUME NEW k \in Keys
                 PROVE  /\ told[k] \in Vals \ Zeros =>
                             /\ redis[k] = told[k]
                             /\ ~ stale /\ k \notin loading => Ranked(k, told[k])
                        /\ told[k] = Gone => /\ redis[k] = None
                                             /\ ~ stale => Unranked(k)
      BY DEF AckedIsRanked
    <3>1. Gone \notin Vals /\ Zeros \subseteq Vals
      BY NoneIsNoObject, RankingListAssumption DEF RankingListAssumption
    <3> QED BY <2>0, <3>1 DEF InHash, TakenUp
  <2>1. InHash(k, v)
    BY <2>0 DEF Inv, ValueInv, ReportedIsStored, Reported
  <2>2. ~ stale /\ k \notin loading => TakenUp(k, v)
    BY <2>0 DEF Inv, ValueInv, AppliedIsRanked, Applied
  <2>3. v = Gone => k \notin loading
    BY <2>1 DEF Inv, TypeInv, LoadingIsStored, InHash
  <2> QED BY <2>1, <2>2, <2>3
<1> QED BY <1>1, InvAlways, PTL

\* Until such an entry is used, the pool never hands out an object that is in the list.
THEOREM PoolIsApart == Spec => []PooledIsUnlisted
<1>1. Inv => PooledIsUnlisted
  BY DEF Inv, ListInv, GoodList, ListedIsMapped, Elems, PooledIsUnlisted
<1> QED BY <1>1, InvAlways, PTL
=============================================================================
