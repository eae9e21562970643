-------------------------- MODULE AnnouncementsProofs --------------------------
(***************************************************************************)
(* Proofs about Announcements, for any halls, messages, requests, sizes of *)
(* the pool and times: the list and the pool of a hall hold its items      *)
(* between them, the list holds the latest messages, and a player reads    *)
(* them in their order.                                                    *)
(*                                                                         *)
(* A list is described by the sequence l of its items (Shape): head, tail, *)
(* next and prev are those of l, and the walks of the code, recursive      *)
(* functions in the model, go along l.                                     *)
(***************************************************************************)
EXTENDS Announcements, FiniteSetTheorems, SequenceTheorems, WellFoundedInduction, TLAPS

-----------------------------------------------------------------------------
(* Numbers and walks. *)

\* A set of natural numbers that is not empty has a least one.
LEMMA LeastNatural ==
  ASSUME NEW S \in SUBSET Nat, S # {}
  PROVE  \E n \in S : \A k \in S : n <= k
<1>1. PICK n \in S : \A k \in S : ~ (<<k, n>> \in OpToRel(<, Nat))
  BY NatLessThanWellFounded, WFMin
<1>2. \A k \in S : k \in Nat /\ n \in Nat /\ (k < n => <<k, n>> \in OpToRel(<, Nat))
  BY DEF OpToRel
<1>3. \A k \in S : ~ (k < n)
  BY ONLY <1>1, <1>2, Zenon
<1>4. \A k \in S : k \in Nat /\ n \in Nat
  OBVIOUS
<1> QED BY ONLY <1>3, <1>4

LEMMA Constants ==
  /\ PoolSize \in Nat \ {0, 1} /\ Exist \in Nat \ {0} /\ SendMax \in Nat \ {0} /\ Cooldown \in Nat
  /\ Messages \subseteq Nat /\ None \notin Halls /\ None \notin Nat
  /\ Items = 1..PoolSize /\ None \notin Items
BY AnnouncementsAssumption DEF AnnouncementsAssumption, Items

\* A part of a sequence.
LEMMA PartOf ==
  ASSUME NEW S, NEW s \in Seq(S), NEW i \in Nat \ {0}, NEW j \in Nat, i <= j + 1, j <= Len(s)
  PROVE  /\ SubSeq(s, i, j) \in Seq(S) /\ Len(SubSeq(s, i, j)) = (j - i) + 1
         /\ \A k \in 1..((j - i) + 1) : SubSeq(s, i, j)[k] = s[(i + k) - 1]
<1>1. \A k \in i..j : s[k] \in S
  OBVIOUS
<1>2. i \in Int /\ j \in Int
  OBVIOUS
<1>3. /\ SubSeq(s, i, j) \in Seq(S)
      /\ Len(SubSeq(s, i, j)) = IF i <= j THEN j - i + 1 ELSE 0
      /\ \A k \in 1 .. j - i + 1 : SubSeq(s, i, j)[k] = s[i + k - 1]
  BY <1>1, <1>2, SubSeqProperties
<1> QED BY <1>3

\* What is left of s after its first n elements.
Rest(s, n) == SubSeq(s, n + 1, Len(s))

LEMMA RestOf ==
  ASSUME NEW S, NEW s \in Seq(S), NEW n \in 0..Len(s)
  PROVE  /\ Rest(s, n) \in Seq(S) /\ Len(Rest(s, n)) = Len(s) - n
         /\ \A k \in 1..(Len(s) - n) : Rest(s, n)[k] = s[n + k]
<1>1. /\ s \in Seq(S) /\ n + 1 \in Nat \ {0} /\ Len(s) \in Nat
      /\ n + 1 <= Len(s) + 1 /\ Len(s) <= Len(s)
  OBVIOUS
<1>2. /\ Rest(s, n) \in Seq(S) /\ Len(Rest(s, n)) = (Len(s) - (n + 1)) + 1
      /\ \A k \in 1..((Len(s) - (n + 1)) + 1) : Rest(s, n)[k] = s[((n + 1) + k) - 1]
  BY <1>1, PartOf DEF Rest
<1>3. (Len(s) - (n + 1)) + 1 = Len(s) - n /\ \A k \in Nat : ((n + 1) + k) - 1 = n + k
  BY <1>1
<1> QED BY <1>2, <1>3

\* What comes out when the function F is applied to x again and again, up to n times.
Runs(T, x, F, n) == {w \in [0..n -> T] : w[0] = x /\ \A k \in 1..n : w[k] = F[w[k - 1]]}

LEMMA Iteration ==
  ASSUME NEW T, NEW x \in T, NEW F \in [T -> T], NEW n \in Nat
  PROVE  Runs(T, x, F, n) # {}
<1> DEFINE Run(j, w) == w \in [0..j -> T] /\ w[0] = x /\ \A k \in 1..j : w[k] = F[w[k - 1]]
           bad == {j \in Nat : \A w : ~ Run(j, w)}
<1>1. bad = {}
  <2> SUFFICES ASSUME bad # {} PROVE FALSE
    OBVIOUS
  <2>1. PICK j \in bad : \A k \in bad : j <= k
    <3> HIDE DEF bad
    <3>1. bad \in SUBSET Nat
      BY DEF bad
    <3> QED BY <3>1, LeastNatural
  <2>2. CASE j = 0
    <3>1. Run(0, [k \in 0..0 |-> x])
      OBVIOUS
    <3> QED BY <2>1, <2>2, <3>1
  <2>3. CASE j # 0
    <3>1. j \in Nat /\ j - 1 \in Nat /\ j - 1 \notin bad
      <4>1. j \in Nat
        BY <2>1
      <4> HIDE DEF bad
      <4> QED BY <2>1, <2>3, <4>1
    <3>2. PICK w : Run(j - 1, w)
      BY <3>1
    <3> DEFINE v == [k \in 0..j |-> IF k = j THEN F[w[j - 1]] ELSE w[k]]
    <3>3. \A k \in 0..(j - 1) : w[k] \in T /\ v[k] = w[k]
      BY <3>1, <3>2
    <3>4. v[j] = F[v[j - 1]] /\ v[j] \in T
      <4>1. j \in 0..j /\ j - 1 \in 0..(j - 1)
        BY <3>1
      <4>2. v[j] = F[w[j - 1]]
        BY <4>1
      <4> HIDE DEF v
      <4> QED BY <3>3, <4>1, <4>2
    <3>5. \A k \in 0..j : k = j \/ k \in 0..(j - 1)
      BY <3>1
    <3>6. v \in [0..j -> T]
      <4>1. \A k \in 0..j : v[k] \in T
        BY <3>3, <3>4, <3>5
      <4> QED BY <4>1
    <3>7. \A k \in 1..j : v[k] = F[v[k - 1]]
      <4> SUFFICES ASSUME NEW k \in 1..j PROVE v[k] = F[v[k - 1]]
        OBVIOUS
      <4>1. CASE k = j
        BY <3>4, <4>1
      <4>2. CASE k # j
        <5>1. k \in 1..(j - 1) /\ k \in 0..(j - 1) /\ k - 1 \in 0..(j - 1)
          BY <3>1, <4>2
        <5> HIDE DEF v
        <5> QED BY <3>2, <3>3, <5>1
      <4> QED BY <4>1, <4>2
    <3>8. v[0] = x
      BY <3>1, <3>2, <3>3
    <3> QED BY <2>1, <3>6, <3>7, <3>8
  <2> QED BY <2>2, <2>3
<1>2. PICK w : Run(n, w)
  BY <1>1
<1> QED BY <1>2 DEF Runs

\* The links of a hall's items.
Links(m) == m.next \in [Items -> Items \cup {None}]

\* c is what a walk along next finds from i on, in at most n steps.
IsChain(m, i, n, c) ==
  /\ c \in Seq(Items) /\ Len(c) <= n
  /\ i = None <=> Len(c) = 0
  /\ i # None => c[1] = i
  /\ \A k \in 1..Len(c) : k < Len(c) => c[k + 1] = m.next[c[k]]
  /\ \A k \in 1..Len(c) : k = Len(c) /\ k < n => m.next[c[k]] = None

\* The recursion of Chain.
AtStep(f, m, i, k) == IF k = 1 THEN i ELSE IF f[k - 1] = None THEN None ELSE m.next[f[k - 1]]
At(m, i, n) == CHOOSE f : f = [k \in 1..n |-> AtStep(f, m, i, k)]

LEMMA ChainAt ==
  ASSUME NEW m, NEW i, NEW n
  PROVE  Chain(m, i, n) = SubSeq(At(m, i, n), 1, Cardinality({k \in 1..n : At(m, i, n)[k] # None}))
BY DEF Chain, At, AtStep

LEMMA AtIsSolution ==
  ASSUME NEW m, Links(m), NEW i \in Items \cup {None}, NEW n \in Nat
  PROVE  At(m, i, n) = [k \in 1..n |-> AtStep(At(m, i, n), m, i, k)]
<1> DEFINE T == Items \cup {None}
           F == [x \in T |-> IF x = None THEN None ELSE m.next[x]]
<1>1. F \in [T -> T]
  BY DEF Links
<1>2. PICK w \in [0..n -> T] : w[0] = i /\ \A k \in 1..n : w[k] = F[w[k - 1]]
  <2>1. i \in T
    OBVIOUS
  <2> HIDE DEF T, F
  <2>2. Runs(T, i, F, n) # {}
    BY <1>1, <2>1, Iteration
  <2> QED BY <2>2 DEF Runs
<1> DEFINE g == [k \in 1..n |-> w[k - 1]]
<1>3. ASSUME NEW k \in 1..n PROVE g[k] = AtStep(g, m, i, k)
  <2>1. CASE k = 1
    BY <1>2, <2>1 DEF AtStep
  <2>2. CASE k # 1
    <3>1. k - 1 \in 1..n /\ (k - 1) - 1 \in 0..n
      BY <2>2
    <3>2. g[k - 1] = w[(k - 1) - 1] /\ g[k] = F[w[(k - 1) - 1]] /\ w[(k - 1) - 1] \in T
      BY <1>2, <3>1
    <3> HIDE DEF g
    <3> QED BY <2>2, <3>2 DEF AtStep
  <2> QED BY <2>1, <2>2
<1>4. g = [k \in 1..n |-> AtStep(g, m, i, k)]
  <2> DEFINE h == [k \in 1..n |-> AtStep(g, m, i, k)]
  <2>1. \A k \in 1..n : g[k] = h[k]
    BY <1>3
  <2>2. DOMAIN g = 1..n /\ DOMAIN h = 1..n /\ g = [k \in 1..n |-> g[k]] /\ h = [k \in 1..n |-> h[k]]
    OBVIOUS
  <2> HIDE DEF g, h
  <2>3. g = h
    BY <2>1, <2>2
  <2> QED BY <2>3 DEF h
<1> HIDE DEF g
<1> QED BY <1>4 DEF At

\* Chain finds such a walk.
LEMMA ChainIs ==
  ASSUME NEW m, Links(m), NEW i \in Items \cup {None}, NEW n \in Nat \ {0}
  PROVE  IsChain(m, i, n, Chain(m, i, n))
<1> DEFINE f == At(m, i, n)
           on == {k \in 1..n : f[k] # None}
           c == SubSeq(f, 1, Cardinality(on))
<1>1. f = [k \in 1..n |-> AtStep(f, m, i, k)]
  BY AtIsSolution
<1> HIDE DEF f
<1>2. /\ f[1] = i
      /\ \A k \in 1..n : k # 1 => f[k] = IF f[k - 1] = None THEN None ELSE m.next[f[k - 1]]
  <2>1. \A k \in 1..n : f[k] = AtStep(f, m, i, k)
    BY <1>1
  <2> QED BY <2>1 DEF AtStep
<1>3. \A k \in 1..n : f[k] \in Items \cup {None}
  <2> DEFINE bad == {k \in 1..n : f[k] \notin Items \cup {None}}
  <2> SUFFICES ASSUME bad # {} PROVE FALSE
    OBVIOUS
  <2>1. bad \in SUBSET Nat
    OBVIOUS
  <2>2. PICK k \in bad : \A j \in bad : k <= j
    <3> HIDE DEF bad
    <3> QED BY <2>1, LeastNatural
  <2>3. k \in 1..n /\ f[k] \notin Items \cup {None} /\ k # 1
    BY <1>2, <2>2
  <2>4. k - 1 \in 1..n /\ ~ (k <= k - 1)
    BY <2>3
  <2>5. f[k - 1] \in Items \cup {None}
    BY <2>2, <2>4
  <2> QED BY <1>2, <2>3, <2>5 DEF Links
<1>4. PICK e \in 0..n : on = 1..e
  <2> DEFINE off == {k \in 1..n : f[k] = None}
  <2>1. CASE off = {}
    <3>1. on = 1..n
      BY <2>1
    <3> QED BY <3>1
  <2>2. CASE off # {}
    <3>1. off \in SUBSET Nat
      OBVIOUS
    <3>2. PICK a \in off : \A k \in off : a <= k
      <4> HIDE DEF off
      <4> QED BY <2>2, <3>1, LeastNatural
    <3>3. a \in 1..n /\ f[a] = None
      BY <3>2
    <3>4. \A k \in 1..n : k < a => f[k] # None
      BY <3>2, <3>3
    <3>5. \A k \in 1..n : k >= a => f[k] = None
      <4> DEFINE bad == {k \in 1..n : k >= a /\ f[k] # None}
      <4> SUFFICES ASSUME bad # {} PROVE FALSE
        OBVIOUS
      <4>1. bad \in SUBSET Nat
        OBVIOUS
      <4>2. PICK k \in bad : \A j \in bad : k <= j
        <5> HIDE DEF bad
        <5> QED BY <4>1, LeastNatural
      <4>3. k \in 1..n /\ k > a /\ f[k] # None
        BY <3>3, <4>2
      <4>4. k - 1 \in 1..n /\ k - 1 >= a /\ ~ (k <= k - 1) /\ k # 1
        BY <3>3, <4>3
      <4>5. f[k - 1] = None
        BY <4>2, <4>4
      <4> QED BY <1>2, <4>3, <4>4, <4>5
    <3>6. on = 1..(a - 1) /\ a - 1 \in 0..n
      BY <3>3, <3>4, <3>5
    <3> QED BY <3>6
  <2> QED BY <2>1, <2>2
<1>5. Cardinality(on) = e
  <2>1. Cardinality(1..e) = e
    BY FS_Interval
  <2> QED BY <1>4, <2>1
<1>6. \A k \in 1..n : f[k] # None <=> k <= e
  <2>1. \A k \in 1..n : f[k] # None <=> k \in on
    OBVIOUS
  <2>2. \A k \in 1..n : k \in 1..e <=> k <= e
    OBVIOUS
  <2> HIDE DEF on
  <2> QED BY <1>4, <2>1, <2>2
<1> HIDE DEF on
<1>7. c \in Seq(Items) /\ Len(c) = e /\ \A k \in 1..e : c[k] = f[k]
  <2>1. f \in Seq(Items \cup {None}) /\ Len(f) = n
    <3>1. f \in [1..n -> Items \cup {None}]
      BY <1>1, <1>3
    <3> QED BY <3>1
  <2>2. c = SubSeq(f, 1, e)
    BY <1>5
  <2>3. c \in Seq(Items \cup {None}) /\ Len(c) = e /\ \A k \in 1..e : c[k] = f[k]
    <3>1. 1 <= e + 1 /\ e <= Len(f) /\ e \in Nat /\ (e - 1) + 1 = e
      BY <2>1
    <3>2. SubSeq(f, 1, e) \in Seq(Items \cup {None}) /\ Len(SubSeq(f, 1, e)) = (e - 1) + 1
          /\ \A k \in 1..((e - 1) + 1) : SubSeq(f, 1, e)[k] = f[(1 + k) - 1]
      BY <2>1, <3>1, PartOf
    <3>3. \A k \in 1..e : f[(1 + k) - 1] = f[k]
      OBVIOUS
    <3> HIDE DEF c
    <3> QED BY <2>2, <3>1, <3>2, <3>3
  <2>4. \A k \in 1..e : c[k] \in Items
    BY <1>3, <1>6, <2>3
  <2> HIDE DEF c
  <2> QED BY <2>3, <2>4
<1>8. Chain(m, i, n) = c
  BY ChainAt DEF f, on
<1> HIDE DEF c
<1>9. IsChain(m, i, n, c)
  <2>1. i = None <=> e = 0
    BY <1>2, <1>6
  <2>2. \A k \in 1..e : k < e => c[k + 1] = m.next[c[k]]
    <3> SUFFICES ASSUME NEW k \in 1..e, k < e PROVE c[k + 1] = m.next[c[k]]
      OBVIOUS
    <3>1. k + 1 \in 1..n /\ k + 1 \in 1..e /\ k \in 1..n /\ (k + 1) - 1 = k /\ k + 1 # 1
      OBVIOUS
    <3>2. f[k] # None
      BY <1>6, <3>1
    <3> QED BY <1>2, <1>7, <3>1, <3>2
  <2>3. e # 0 /\ e < n => m.next[c[e]] = None
    <3> SUFFICES ASSUME e # 0, e < n PROVE m.next[c[e]] = None
      OBVIOUS
    <3>1. e + 1 \in 1..n /\ e \in 1..n /\ (e + 1) - 1 = e /\ e + 1 # 1 /\ e \in 1..e
      OBVIOUS
    <3>2. f[e + 1] = None /\ f[e] # None
      BY <1>6, <3>1
    <3> QED BY <1>2, <1>7, <3>1, <3>2
  <2>4. i # None => c[1] = i
    BY <1>2, <1>7, <2>1
  <2> QED BY <1>7, <2>1, <2>2, <2>3, <2>4 DEF IsChain
<1> QED BY <1>8, <1>9

\* There is one such walk only.
LEMMA SameChain ==
  ASSUME NEW m, NEW i, NEW n \in Nat \ {0}, NEW c, NEW d,
         IsChain(m, i, n, c), IsChain(m, i, n, d), None \notin Items
  PROVE  c = d
<1>1. /\ c \in Seq(Items) /\ d \in Seq(Items) /\ Len(c) \in Nat /\ Len(d) \in Nat
      /\ Len(c) <= n /\ Len(d) <= n /\ (Len(c) = 0 <=> Len(d) = 0)
  BY DEF IsChain
<1>2. ASSUME NEW a, NEW b, IsChain(m, i, n, a), IsChain(m, i, n, b)
      PROVE  \A k \in 1..Len(a) : k <= Len(b) /\ a[k] = b[k]
  <2>1. /\ a \in Seq(Items) /\ b \in Seq(Items) /\ Len(a) \in Nat /\ Len(b) \in Nat
        /\ Len(a) <= n /\ Len(b) <= n
    BY <1>2 DEF IsChain
  <2> DEFINE bad == {k \in 1..Len(a) : ~ (k <= Len(b) /\ a[k] = b[k])}
  <2> SUFFICES ASSUME bad # {} PROVE FALSE
    OBVIOUS
  <2>2. bad \in SUBSET Nat
    BY <2>1
  <2>3. PICK k \in bad : \A j \in bad : k <= j
    <3> HIDE DEF bad
    <3> QED BY <2>2, LeastNatural
  <2>4. k \in 1..Len(a) /\ ~ (k <= Len(b) /\ a[k] = b[k])
    BY <2>3
  <2>5. k # 1
    <3>1. Len(a) # 0 /\ Len(b) # 0 /\ a[1] = i /\ b[1] = i
      BY <1>2, <2>1, <2>4 DEF IsChain
    <3> QED BY <2>1, <2>4, <3>1
  <2>6. k - 1 \in 1..Len(a) /\ ~ (k <= k - 1) /\ (k - 1) + 1 = k /\ k - 1 < Len(a)
    BY <2>1, <2>4, <2>5
  <2>7. k - 1 <= Len(b) /\ a[k - 1] = b[k - 1] /\ k - 1 \in 1..Len(b)
    BY <2>1, <2>3, <2>6
  <2>8. a[k] = m.next[a[k - 1]] /\ a[k] \in Items
    BY <1>2, <2>1, <2>4, <2>6 DEF IsChain
  <2>9. CASE k - 1 < Len(b)
    <3>1. b[k] = m.next[b[k - 1]]
      BY <1>2, <2>6, <2>7, <2>9 DEF IsChain
    <3> QED BY <2>1, <2>4, <2>6, <2>7, <2>8, <2>9, <3>1
  <2>10. CASE k - 1 = Len(b)
    <3>1. k - 1 < n
      BY <2>1, <2>4
    <3>2. m.next[b[k - 1]] = None
      BY <1>2, <2>7, <2>10, <3>1 DEF IsChain
    <3> QED BY <2>7, <2>8, <3>2
  <2> QED BY <2>1, <2>4, <2>6, <2>7, <2>9, <2>10
<1>3. \A k \in 1..Len(c) : k <= Len(d) /\ c[k] = d[k]
  BY <1>2
<1>4. \A k \in 1..Len(d) : k <= Len(c) /\ d[k] = c[k]
  BY <1>2
<1>5. Len(c) = Len(d)
  BY <1>1, <1>3, <1>4
<1> QED BY <1>1, <1>3, <1>5

-----------------------------------------------------------------------------
(* The list of a hall and its pool. *)

Mgrs == [head : Items \cup {None}, tail : Items \cup {None},
         next : [Items -> Items \cup {None}], prev : [Items -> Items \cup {None}],
         time : [Items -> Nat \cup {None}], msg : [Items -> Messages \cup {None}],
         free : Seq(Items)]

\* The items of l, linked both ways.
IsList(m, l) ==
  /\ l \in Seq(Items)
  /\ \A j, k \in 1..Len(l) : l[j] = l[k] => j = k
  /\ m.head = IF Len(l) = 0 THEN None ELSE l[1]
  /\ m.tail = IF Len(l) = 0 THEN None ELSE l[Len(l)]
  /\ \A k \in 1..Len(l) : m.next[l[k]] = IF k = Len(l) THEN None ELSE l[k + 1]
  /\ \A k \in 1..Len(l) : m.prev[l[k]] = IF k = 1 THEN None ELSE l[k - 1]

\* The other items are free, each of them once.
IsPool(m, l) ==
  /\ Len(l) + Len(m.free) = PoolSize
  /\ \A j, k \in 1..Len(m.free) : m.free[j] = m.free[k] => j = k
  /\ \A j \in 1..Len(m.free), k \in 1..Len(l) : m.free[j] # l[k]

Shape(m, l) == m \in Mgrs /\ IsList(m, l) /\ IsPool(m, l)

\* The items keep their messages, and what comes after them.
SameItems(m, n) == n.time = m.time /\ n.msg = m.msg /\ n.next = m.next

LEMMA ListedIs ==
  ASSUME NEW m, NEW l, Shape(m, l)
  PROVE  Listed(m) = l
<1>1. /\ l \in Seq(Items) /\ Len(l) \in Nat /\ Len(l) <= PoolSize /\ PoolSize \in Nat \ {0}
      /\ Links(m) /\ m.head \in Items \cup {None} /\ None \notin Items
  BY Constants DEF Shape, IsPool, IsList, Mgrs, Links
<1>2. IsChain(m, m.head, PoolSize, l)
  <2>1. \A k \in 1..Len(l) : l[k] \in Items
    BY <1>1
  <2>2. m.head = None <=> Len(l) = 0
    BY <1>1, <2>1 DEF Shape, IsList
  <2> QED BY <1>1, <2>2 DEF IsChain, Shape, IsList
<1>3. IsChain(m, m.head, PoolSize, Chain(m, m.head, PoolSize))
  BY <1>1, ChainIs
<1>4. Chain(m, m.head, PoolSize) = l
  BY <1>1, <1>2, <1>3, SameChain
<1> QED BY <1>4 DEF Listed

LEMMA RecycledIsMgr ==
  ASSUME NEW m \in Mgrs, NEW i \in Items
  PROVE  /\ Recycled(m, i) \in Mgrs
         /\ Recycled(m, i).head = IF m.head = i THEN m.next[i] ELSE m.head
         /\ Recycled(m, i).tail = IF m.tail = i THEN None ELSE m.tail
         /\ Recycled(m, i).free = <<i>> \o m.free
         /\ Recycled(m, i).next =
              [j \in Items |-> IF j = m.prev[i] THEN m.next[i] ELSE m.next[j]]
         /\ Recycled(m, i).prev =
              [j \in Items |-> IF j = m.next[i] THEN m.prev[i] ELSE m.prev[j]]
         /\ Recycled(m, i).time = m.time /\ Recycled(m, i).msg = m.msg
<1>1. <<i>> \o m.free \in Seq(Items)
  BY DEF Mgrs
<1> DEFINE nx == [j \in Items |-> IF j = m.prev[i] THEN m.next[i] ELSE m.next[j]]
           pv == [j \in Items |-> IF j = m.next[i] THEN m.prev[i] ELSE m.prev[j]]
<1>2. nx \in [Items -> Items \cup {None}] /\ pv \in [Items -> Items \cup {None}]
  BY DEF Mgrs
<1>3. Recycled(m, i) =
        [head |-> IF m.head = i THEN m.next[i] ELSE m.head,
         tail |-> IF m.tail = i THEN None ELSE m.tail,
         next |-> nx, prev |-> pv, time |-> m.time, msg |-> m.msg, free |-> <<i>> \o m.free]
  <2> DEFINE a == IF m.head = i THEN m.next[i] ELSE m.head
             b == IF m.tail = i THEN None ELSE m.tail
             c == <<i>> \o m.free
  <2>1. Recycled(m, i) = [m EXCEPT !.head = a, !.tail = b, !.free = c, !.next = nx, !.prev = pv]
    BY DEF Recycled
  <2> HIDE DEF a, b, c, nx, pv
  <2>2. Recycled(m, i) = [head |-> a, tail |-> b, next |-> nx, prev |-> pv,
                          time |-> m.time, msg |-> m.msg, free |-> c]
    BY <2>1 DEF Mgrs
  <2> QED BY <2>2 DEF a, b, c
<1>4. /\ m.head \in Items \cup {None} /\ m.tail \in Items \cup {None}
      /\ m.next[i] \in Items \cup {None}
      /\ m.time \in [Items -> Nat \cup {None}] /\ m.msg \in [Items -> Messages \cup {None}]
  BY DEF Mgrs
<1> HIDE DEF nx, pv
<1>5. /\ Recycled(m, i).head = IF m.head = i THEN m.next[i] ELSE m.head
      /\ Recycled(m, i).tail = IF m.tail = i THEN None ELSE m.tail
      /\ Recycled(m, i).free = <<i>> \o m.free
      /\ Recycled(m, i).next = nx /\ Recycled(m, i).prev = pv
      /\ Recycled(m, i).time = m.time /\ Recycled(m, i).msg = m.msg
  BY <1>3
<1>6. Recycled(m, i) \in Mgrs
  BY <1>1, <1>2, <1>3, <1>4 DEF Mgrs
<1> QED BY <1>5, <1>6 DEF nx, pv

\* The first item of a list goes to the pool.
LEMMA FirstRecycled ==
  ASSUME NEW m, NEW l, Shape(m, l), Len(l) # 0
  PROVE  /\ Shape(Recycled(m, l[1]), Rest(l, 1))
         /\ SameItems(m, Recycled(m, l[1]))
         /\ Recycled(m, l[1]).free = <<l[1]>> \o m.free
<1> DEFINE i == l[1]
           n == Recycled(m, i)
           t == Rest(l, 1)
<1>1. /\ m \in Mgrs /\ IsList(m, l) /\ IsPool(m, l) /\ None \notin Items
      /\ l \in Seq(Items) /\ Len(l) \in Nat \ {0} /\ i \in Items /\ m.free \in Seq(Items)
      /\ \A k \in 1..Len(l) : l[k] \in Items
  <2>1. m \in Mgrs /\ IsList(m, l) /\ IsPool(m, l) /\ l \in Seq(Items)
    BY DEF Shape, IsList
  <2>2. Len(l) \in Nat \ {0} /\ \A k \in 1..Len(l) : l[k] \in Items
    BY <2>1
  <2>3. 1 \in 1..Len(l)
    BY <2>2
  <2>4. m.free \in Seq(Items)
    BY <2>1 DEF Mgrs
  <2> QED BY <2>1, <2>2, <2>3, <2>4, Constants
<1>2. /\ n \in Mgrs
      /\ n.head = IF m.head = i THEN m.next[i] ELSE m.head
      /\ n.tail = IF m.tail = i THEN None ELSE m.tail
      /\ n.free = <<i>> \o m.free
      /\ n.next = [j \in Items |-> IF j = m.prev[i] THEN m.next[i] ELSE m.next[j]]
      /\ n.prev = [j \in Items |-> IF j = m.next[i] THEN m.prev[i] ELSE m.prev[j]]
      /\ n.time = m.time /\ n.msg = m.msg
  BY <1>1, RecycledIsMgr
<1>3. t \in Seq(Items) /\ Len(t) = Len(l) - 1 /\ \A k \in 1..(Len(l) - 1) : t[k] = l[k + 1]
  <2>1. 1 \in 0..Len(l)
    BY <1>1
  <2>2. \A k \in 1..(Len(l) - 1) : 1 + k = k + 1
    BY <1>1
  <2>3. t \in Seq(Items) /\ Len(t) = Len(l) - 1 /\ \A k \in 1..(Len(l) - 1) : t[k] = l[1 + k]
    BY <1>1, <2>1, RestOf
  <2> QED BY <2>2, <2>3
<1> HIDE DEF n, t
<1>4. m.prev[i] = None /\ m.next[i] = (IF Len(l) = 1 THEN None ELSE l[2]) /\ m.head = i
  <2>1. 1 \in 1..Len(l) /\ 1 + 1 = 2
    BY <1>1
  <2> HIDE DEF i
  <2>2. m.prev[l[1]] = None /\ m.next[l[1]] = (IF 1 = Len(l) THEN None ELSE l[1 + 1])
    BY <1>1, <2>1 DEF IsList
  <2>3. m.head = l[1]
    BY <1>1 DEF IsList
  <2> QED BY <2>1, <2>2, <2>3 DEF i
<1>5. n.next = m.next
  <2>1. \A j \in Items : n.next[j] = m.next[j]
    BY <1>1, <1>2, <1>4
  <2>2. n.next \in [Items -> Items \cup {None}] /\ m.next \in [Items -> Items \cup {None}]
    BY <1>1, <1>2 DEF Mgrs
  <2> QED BY <2>1, <2>2
<1>6. IsList(n, t)
  <2>1. \A j, k \in 1..Len(t) : t[j] = t[k] => j = k
    <3> SUFFICES ASSUME NEW j \in 1..Len(t), NEW k \in 1..Len(t), t[j] = t[k] PROVE j = k
      OBVIOUS
    <3>1. j + 1 \in 1..Len(l) /\ k + 1 \in 1..Len(l) /\ l[j + 1] = l[k + 1]
      BY <1>1, <1>3
    <3>2. j + 1 = k + 1
      BY <1>1, <3>1 DEF IsList
    <3> QED BY <1>1, <1>3, <3>2
  <2>2. n.head = IF Len(t) = 0 THEN None ELSE t[1]
    BY <1>1, <1>2, <1>3, <1>4
  <2>3. n.tail = IF Len(t) = 0 THEN None ELSE t[Len(t)]
    <3>1. m.tail = l[Len(l)]
      BY <1>1 DEF IsList
    <3>2. CASE Len(l) = 1
      BY <1>2, <1>3, <3>1, <3>2
    <3>3. CASE Len(l) # 1
      <4>1. l[Len(l)] # i
        <5>1. 1 \in 1..Len(l) /\ Len(l) \in 1..Len(l)
          BY <1>1
        <5> QED BY <1>1, <3>3, <5>1 DEF IsList
      <4>2. t[Len(t)] = l[Len(l)]
        BY <1>1, <1>3, <3>3
      <4> QED BY <1>1, <1>2, <1>3, <3>1, <3>3, <4>1, <4>2
    <3> QED BY <3>2, <3>3
  <2>4. \A k \in 1..Len(t) : n.next[t[k]] = IF k = Len(t) THEN None ELSE t[k + 1]
    <3> SUFFICES ASSUME NEW k \in 1..Len(t)
                 PROVE  n.next[t[k]] = IF k = Len(t) THEN None ELSE t[k + 1]
      OBVIOUS
    <3>1. k + 1 \in 1..Len(l) /\ t[k] = l[k + 1]
      BY <1>1, <1>3
    <3>2. m.next[l[k + 1]] = IF k + 1 = Len(l) THEN None ELSE l[(k + 1) + 1]
      BY <1>1, <3>1 DEF IsList
    <3>3. k # Len(t) => t[k + 1] = l[(k + 1) + 1] /\ k + 1 # Len(l)
      BY <1>1, <1>3
    <3> QED BY <1>1, <1>3, <1>5, <3>1, <3>2, <3>3
  <2>5. \A k \in 1..Len(t) : n.prev[t[k]] = IF k = 1 THEN None ELSE t[k - 1]
    <3> SUFFICES ASSUME NEW k \in 1..Len(t)
                 PROVE  n.prev[t[k]] = IF k = 1 THEN None ELSE t[k - 1]
      OBVIOUS
    <3>1. /\ k + 1 \in 1..Len(l) /\ t[k] = l[k + 1] /\ t[k] \in Items /\ k + 1 # 1
          /\ 2 \in 1..Len(l) /\ Len(l) # 1 /\ (k + 1) - 1 = k
      BY <1>1, <1>3
    <3>2. m.prev[l[k + 1]] = l[k]
      BY <1>1, <3>1 DEF IsList
    <3>3. m.next[i] = l[2] /\ (k # 1 => l[k + 1] # l[2])
      <4>1. m.next[i] = l[2]
        BY <1>4, <3>1
      <4>2. l[k + 1] = l[2] => k + 1 = 2
        BY <1>1, <3>1 DEF IsList
      <4>3. k + 1 = 2 => k = 1
        OBVIOUS
      <4> QED BY <4>1, <4>2, <4>3
    <3>4. n.prev[t[k]] = IF t[k] = l[2] THEN None ELSE m.prev[t[k]]
      BY <1>2, <1>4, <3>1, <3>3
    <3>5. k = 1 => t[k] = l[2]
      BY <3>1
    <3>6. k # 1 => t[k - 1] = l[k]
      BY <1>1, <1>3
    <3> QED BY <3>1, <3>2, <3>3, <3>4, <3>5, <3>6
  <2> QED BY <1>3, <2>1, <2>2, <2>3, <2>4, <2>5 DEF IsList
<1>7. IsPool(n, t)
  <2>1. /\ Len(n.free) = Len(m.free) + 1 /\ n.free[1] = i /\ Len(m.free) \in Nat
        /\ \A j \in 1..Len(m.free) : n.free[j + 1] = m.free[j]
    BY <1>1, <1>2
  <2>2. \A j \in 1..Len(m.free) : m.free[j] # i
    BY <1>1 DEF IsPool
  <2>3. \A j \in 1..Len(n.free) : j = 1 \/ (j - 1 \in 1..Len(m.free) /\ n.free[j] = m.free[j - 1])
    BY <2>1
  <2>4. \A j, k \in 1..Len(n.free) : n.free[j] = n.free[k] => j = k
    <3> SUFFICES ASSUME NEW j \in 1..Len(n.free), NEW k \in 1..Len(n.free), n.free[j] = n.free[k]
                 PROVE  j = k
      OBVIOUS
    <3>1. CASE j = 1 \/ k = 1
      BY <2>1, <2>2, <2>3, <3>1
    <3>2. CASE j # 1 /\ k # 1
      <4>1. /\ j - 1 \in 1..Len(m.free) /\ k - 1 \in 1..Len(m.free)
            /\ m.free[j - 1] = m.free[k - 1]
        BY <2>3, <3>2
      <4>2. j - 1 = k - 1
        BY <1>1, <4>1 DEF IsPool
      <4> QED BY <2>1, <4>2
    <3> QED BY <3>1, <3>2
  <2>5. \A j \in 1..Len(n.free), k \in 1..Len(t) : n.free[j] # t[k]
    <3> SUFFICES ASSUME NEW j \in 1..Len(n.free), NEW k \in 1..Len(t) PROVE n.free[j] # t[k]
      OBVIOUS
    <3>1. k + 1 \in 1..Len(l) /\ t[k] = l[k + 1] /\ k + 1 # 1 /\ 1 \in 1..Len(l)
      BY <1>1, <1>3
    <3>2. l[k + 1] # i
      BY <1>1, <3>1 DEF IsList
    <3>3. CASE j = 1
      BY <2>1, <3>1, <3>2, <3>3
    <3>4. CASE j # 1
      <4>1. j - 1 \in 1..Len(m.free) /\ n.free[j] = m.free[j - 1]
        BY <2>3, <3>4
      <4>2. m.free[j - 1] # l[k + 1]
        BY <1>1, <3>1, <4>1 DEF IsPool
      <4> QED BY <3>1, <4>1, <4>2
    <3> QED BY <3>3, <3>4
  <2>6. Len(t) + Len(n.free) = PoolSize
    <3>1. Len(l) + Len(m.free) = PoolSize
      BY <1>1 DEF IsPool
    <3> QED BY <1>1, <1>3, <2>1, <3>1
  <2> QED BY <2>4, <2>5, <2>6 DEF IsPool
<1> QED BY <1>2, <1>5, <1>6, <1>7 DEF Shape, SameItems, n, t

LEMMA RestAgain ==
  ASSUME NEW S, NEW s \in Seq(S), NEW n \in 0..Len(s), n # Len(s)
  PROVE  Rest(Rest(s, n), 1) = Rest(s, n + 1) /\ Rest(s, n)[1] = s[n + 1]
<1>1. /\ Rest(s, n) \in Seq(S) /\ Len(Rest(s, n)) = Len(s) - n /\ Len(s) \in Nat
      /\ \A k \in 1..(Len(s) - n) : Rest(s, n)[k] = s[n + k]
  BY RestOf
<1>2. 1 \in 0..Len(Rest(s, n)) /\ n + 1 \in 0..Len(s) /\ 1 \in 1..(Len(s) - n)
  BY <1>1
<1>3. /\ Rest(Rest(s, n), 1) \in Seq(S) /\ Len(Rest(Rest(s, n), 1)) = Len(Rest(s, n)) - 1
      /\ \A k \in 1..(Len(Rest(s, n)) - 1) : Rest(Rest(s, n), 1)[k] = Rest(s, n)[1 + k]
  BY <1>1, <1>2, RestOf
<1>4. /\ Rest(s, n + 1) \in Seq(S) /\ Len(Rest(s, n + 1)) = Len(s) - (n + 1)
      /\ \A k \in 1..(Len(s) - (n + 1)) : Rest(s, n + 1)[k] = s[(n + 1) + k]
  BY <1>2, RestOf
<1> DEFINE a == Rest(Rest(s, n), 1)
           b == Rest(s, n + 1)
<1>5. Len(a) = Len(b) /\ \A k \in 1..Len(b) : a[k] = b[k]
  <2>1. Len(a) = Len(b)
    BY <1>1, <1>3, <1>4
  <2> SUFFICES ASSUME NEW k \in 1..Len(b) PROVE a[k] = b[k]
    BY <2>1
  <2>2. /\ k \in 1..(Len(s) - (n + 1)) /\ k \in 1..(Len(Rest(s, n)) - 1)
        /\ 1 + k \in 1..(Len(s) - n) /\ n + (1 + k) = (n + 1) + k
    BY <1>1, <1>4
  <2> QED BY <1>1, <1>3, <1>4, <2>2
<1>6. a \in Seq(S) /\ b \in Seq(S)
  BY <1>3, <1>4
<1>7. a = b
  <2> HIDE DEF a, b
  <2> QED BY <1>5, <1>6
<1> QED BY <1>1, <1>2, <1>7

LEMMA RestNothing ==
  ASSUME NEW S, NEW s \in Seq(S)
  PROVE  Rest(s, 0) = s
<1>1. 0 \in 0..Len(s) /\ Len(s) \in Nat
  OBVIOUS
<1>2. /\ Rest(s, 0) \in Seq(S) /\ Len(Rest(s, 0)) = Len(s) - 0
      /\ \A k \in 1..(Len(s) - 0) : Rest(s, 0)[k] = s[0 + k]
  BY <1>1, RestOf
<1> QED BY <1>1, <1>2

\* The recursion of recycle_old.
RecycleStep(w, m) ==
  IF w.msg = None THEN w
  ELSE [mgr |-> IF Expired(m, w.msg) THEN Recycled(w.mgr, w.msg) ELSE w.mgr,
        msg |-> m.next[w.msg]]
RecycleWalk(m) ==
  CHOOSE f : f = [k \in 0..PoolSize |-> IF k = 0 THEN [mgr |-> m, msg |-> m.head]
                                       ELSE RecycleStep(f[k - 1], m)]

LEMMA RecycleIsWalk == ASSUME NEW m PROVE recycle_old(m) = RecycleWalk(m)[PoolSize].mgr
BY DEF recycle_old, RecycleWalk, RecycleStep

LEMMA RecycleIsSolution ==
  ASSUME NEW m \in Mgrs
  PROVE  /\ RecycleWalk(m)[0] = [mgr |-> m, msg |-> m.head]
         /\ \A k \in 1..PoolSize : RecycleWalk(m)[k] = RecycleStep(RecycleWalk(m)[k - 1], m)
<1> DEFINE T == [mgr : Mgrs, msg : Items \cup {None}]
           F == [w \in T |-> RecycleStep(w, m)]
           x == [mgr |-> m, msg |-> m.head]
           Solves(f) == f = [k \in 0..PoolSize |-> IF k = 0 THEN x ELSE RecycleStep(f[k - 1], m)]
<1>1. F \in [T -> T]
  <2> SUFFICES ASSUME NEW w \in T PROVE RecycleStep(w, m) \in T
    OBVIOUS
  <2>1. CASE w.msg = None
    BY <2>1 DEF RecycleStep
  <2>2. CASE w.msg # None
    <3>1. w.msg \in Items /\ w.mgr \in Mgrs
      BY <2>2
    <3>2. Recycled(w.mgr, w.msg) \in Mgrs /\ m.next[w.msg] \in Items \cup {None}
      BY <3>1, RecycledIsMgr DEF Mgrs
    <3> QED BY <2>2, <3>1, <3>2 DEF RecycleStep
  <2> QED BY <2>1, <2>2
<1>2. x \in T /\ PoolSize \in Nat
  BY Constants DEF Mgrs
<1>3. PICK f \in [0..PoolSize -> T] : f[0] = x /\ \A k \in 1..PoolSize : f[k] = F[f[k - 1]]
  <2> HIDE DEF T, F, x
  <2>1. Runs(T, x, F, PoolSize) # {}
    BY <1>1, <1>2, Iteration
  <2> QED BY <2>1 DEF Runs
<1>4. Solves(f)
  <2> DEFINE g == [k \in 0..PoolSize |-> IF k = 0 THEN x ELSE RecycleStep(f[k - 1], m)]
  <2>1. \A k \in 0..PoolSize : f[k] = g[k]
    <3> SUFFICES ASSUME NEW k \in 0..PoolSize PROVE f[k] = g[k]
      OBVIOUS
    <3>1. CASE k = 0
      BY <1>3, <3>1
    <3>2. CASE k # 0
      <4>1. k \in 1..PoolSize /\ k - 1 \in 0..PoolSize
        BY <1>2, <3>2
      <4> HIDE DEF T, x
      <4>2. f[k - 1] \in T /\ f[k] = F[f[k - 1]]
        BY <1>3, <4>1
      <4> QED BY <3>2, <4>2
    <3> QED BY <3>1, <3>2
  <2>2. g = [k \in 0..PoolSize |-> g[k]] /\ f = [k \in 0..PoolSize |-> f[k]]
    <3> HIDE DEF T
    <3> QED BY <1>3
  <2> HIDE DEF g
  <2>3. f = g
    BY <2>1, <2>2
  <2> QED BY <2>3 DEF g
<1> HIDE DEF Solves
<1>5. Solves(CHOOSE h : Solves(h))
  BY <1>4
<1>6. Solves(RecycleWalk(m))
  BY <1>5 DEF RecycleWalk, Solves
<1>7. /\ RecycleWalk(m)[0] = x
      /\ \A k \in 1..PoolSize : RecycleWalk(m)[k] = RecycleStep(RecycleWalk(m)[k - 1], m)
  <2> DEFINE f0 == RecycleWalk(m)
  <2> HIDE DEF f0, x
  <2>1. f0 = [k \in 0..PoolSize |-> IF k = 0 THEN x ELSE RecycleStep(f0[k - 1], m)]
    BY <1>6 DEF Solves, f0
  <2>2. 0 \in 0..PoolSize /\ \A k \in 1..PoolSize : k \in 0..PoolSize /\ k # 0
    BY <1>2
  <2>3. f0[0] = x /\ \A k \in 1..PoolSize : f0[k] = RecycleStep(f0[k - 1], m)
    BY <2>1, <2>2
  <2> QED BY <2>3 DEF f0
<1> QED BY <1>7

\* recycle_old takes the items that are old, which are the first e of the list, to the pool.
LEMMA OldRecycled ==
  ASSUME NEW m, NEW l, Shape(m, l), NEW e \in 0..Len(l),
         \A k \in 1..Len(l) : Expired(m, l[k]) <=> k <= e
  PROVE  /\ Shape(recycle_old(m), Rest(l, e)) /\ SameItems(m, recycle_old(m))
<1> DEFINE f == RecycleWalk(m)
           c(k) == IF k < e THEN k ELSE e
           Good(k) == /\ f[k].msg = IF k < Len(l) THEN l[k + 1] ELSE None
                      /\ Shape(f[k].mgr, Rest(l, c(k))) /\ SameItems(m, f[k].mgr)
<1>1. /\ m \in Mgrs /\ l \in Seq(Items) /\ Len(l) \in Nat /\ Len(l) <= PoolSize
      /\ PoolSize \in Nat /\ e \in Nat /\ e <= Len(l) /\ None \notin Items
      /\ \A k \in 1..Len(l) : l[k] \in Items /\ l[k] # None
  <2>1. m \in Mgrs /\ l \in Seq(Items) /\ Len(l) + Len(m.free) = PoolSize
    BY DEF Shape, IsList, IsPool
  <2>2. Len(l) \in Nat /\ Len(m.free) \in Nat
    <3>1. m.free \in Seq(Items)
      BY <2>1 DEF Mgrs
    <3> QED BY <2>1, <3>1
  <2>3. PoolSize \in Nat /\ None \notin Items
    BY Constants
  <2>4. \A k \in 1..Len(l) : l[k] \in Items
    BY <2>1
  <2> QED BY <2>1, <2>2, <2>3, <2>4
<1>2. /\ f[0] = [mgr |-> m, msg |-> m.head]
      /\ \A k \in 1..PoolSize : f[k] = RecycleStep(f[k - 1], m)
  BY <1>1, RecycleIsSolution
<1> HIDE DEF f
<1>3. Good(0)
  <2>1. c(0) = 0 /\ Rest(l, 0) = l
    BY <1>1, RestNothing
  <2>2. m.head = IF 0 < Len(l) THEN l[0 + 1] ELSE None
    BY <1>1 DEF Shape, IsList
  <2>3. f[0].mgr = m /\ f[0].msg = m.head
    BY <1>2
  <2> HIDE DEF c
  <2> QED BY <2>1, <2>2, <2>3 DEF SameItems
<1>4. ASSUME NEW k \in 1..PoolSize, Good(k - 1) PROVE Good(k)
  <2> DEFINE w == f[k - 1]
  <2>1. f[k] = RecycleStep(w, m)
    BY <1>2
  <2>2. /\ w.msg = IF k - 1 < Len(l) THEN l[(k - 1) + 1] ELSE None
        /\ Shape(w.mgr, Rest(l, c(k - 1))) /\ SameItems(m, w.mgr)
    BY <1>4
  <2> HIDE DEF w
  <2>3. CASE k - 1 >= Len(l)
    <3>1. c(k) = e /\ c(k - 1) = e /\ ~ (k < Len(l))
      BY <1>1, <2>3
    <3>2. f[k] = w
      BY <1>1, <2>1, <2>2, <2>3 DEF RecycleStep
    <3> HIDE DEF c
    <3> QED BY <1>1, <2>2, <2>3, <3>1, <3>2
  <2>4. CASE k - 1 < Len(l)
    <3>1. k \in 1..Len(l) /\ w.msg = l[k] /\ l[k] # None
      BY <1>1, <2>2, <2>4
    <3>2. m.next[l[k]] = IF k < Len(l) THEN l[k + 1] ELSE None
      BY <1>1, <3>1 DEF Shape, IsList
    <3>3. f[k] = [mgr |-> IF Expired(m, l[k]) THEN Recycled(w.mgr, l[k]) ELSE w.mgr,
                  msg |-> m.next[l[k]]]
      BY <2>1, <3>1 DEF RecycleStep
    <3>4. f[k].msg = (IF k < Len(l) THEN l[k + 1] ELSE None)
      BY <3>2, <3>3
    <3>5. CASE k <= e
      <4>1. c(k) = k /\ c(k - 1) = k - 1 /\ k - 1 \in 0..Len(l) /\ k - 1 # Len(l) /\ (k - 1) + 1 = k
        BY <1>1, <3>1, <3>5
      <4>2. f[k].mgr = Recycled(w.mgr, l[k])
        BY <3>1, <3>3, <3>5
      <4>3. Rest(Rest(l, k - 1), 1) = Rest(l, k) /\ Rest(l, k - 1)[1] = l[k]
        BY <1>1, <4>1, RestAgain
      <4>4. Len(Rest(l, k - 1)) # 0
        <5>1. Len(Rest(l, k - 1)) = Len(l) - (k - 1)
          BY <1>1, <4>1, RestOf
        <5> QED BY <1>1, <4>1, <5>1
      <4>5. Shape(w.mgr, Rest(l, k - 1))
        BY <2>2, <4>1
      <4>6. Shape(f[k].mgr, Rest(l, k)) /\ SameItems(w.mgr, f[k].mgr)
        <5> DEFINE q == Rest(l, k - 1)
        <5>1. Shape(w.mgr, q) /\ Len(q) # 0
          BY <4>4, <4>5
        <5>2. q[1] = l[k] /\ Rest(q, 1) = Rest(l, k)
          BY <4>3
        <5> HIDE DEF q
        <5>3. /\ Shape(Recycled(w.mgr, q[1]), Rest(q, 1))
              /\ SameItems(w.mgr, Recycled(w.mgr, q[1]))
          BY <5>1, FirstRecycled
        <5> QED BY <4>2, <5>2, <5>3
      <4>7. SameItems(m, f[k].mgr)
        BY <2>2, <4>6 DEF SameItems
      <4> HIDE DEF c
      <4> QED BY <3>4, <4>1, <4>6, <4>7
    <3>6. CASE ~ (k <= e)
      <4>1. c(k) = e /\ c(k - 1) = e
        BY <1>1, <3>1, <3>6
      <4>2. f[k].mgr = w.mgr
        BY <3>1, <3>3, <3>6
      <4> HIDE DEF c
      <4> QED BY <2>2, <3>4, <4>1, <4>2
    <3> QED BY <3>5, <3>6
  <2> QED BY <1>1, <2>3, <2>4
<1> HIDE DEF Good
<1>5. Good(PoolSize)
  <2> DEFINE bad == {k \in 0..PoolSize : ~ Good(k)}
  <2> SUFFICES ASSUME bad # {} PROVE FALSE
    BY <1>1
  <2>1. bad \in SUBSET Nat
    OBVIOUS
  <2>2. PICK k \in bad : \A j \in bad : k <= j
    <3> HIDE DEF bad
    <3> QED BY <2>1, LeastNatural
  <2>3. k \in 1..PoolSize /\ ~ Good(k) /\ k - 1 \in 0..PoolSize /\ ~ (k <= k - 1)
    <3>1. k \in 0..PoolSize /\ ~ Good(k)
      BY <2>2
    <3>2. k # 0
      BY <1>3, <3>1
    <3> QED BY <1>1, <3>1, <3>2
  <2>4. Good(k - 1)
    <3>1. k - 1 \notin bad
      <4> HIDE DEF bad
      <4> QED BY <2>2, <2>3
    <3> QED BY <2>3, <3>1
  <2> QED BY <1>4, <2>3, <2>4
<1>6. c(PoolSize) = e
  BY <1>1
<1> HIDE DEF c
<1> QED BY <1>5, <1>6, RecycleIsWalk DEF Good, f

\* When the pool is empty the first item of the list is taken, as recycle_old would take it.
LEMMA RoomMade ==
  ASSUME NEW m, NEW l, Shape(m, l)
  PROVE  /\ WithFree(m).free # <<>> /\ SameItems(m, WithFree(m))
         /\ \/ Shape(WithFree(m), l) /\ WithFree(m) = m
            \/ /\ Shape(WithFree(m), Rest(l, 1)) /\ Len(l) = PoolSize /\ m.free = <<>>
               /\ WithFree(m).free = <<l[1]>>
<1>1. /\ m \in Mgrs /\ l \in Seq(Items) /\ Len(l) + Len(m.free) = PoolSize /\ m.free \in Seq(Items)
      /\ m.next \in [Items -> Items \cup {None}] /\ m.prev \in [Items -> Items \cup {None}]
  BY DEF Shape, IsList, IsPool, Mgrs
<1>2. CASE m.free # <<>>
  <2>1. WithFree(m) = m
    BY <1>2 DEF WithFree
  <2> QED BY <1>2, <2>1 DEF SameItems
<1>3. CASE m.free = <<>>
  <2> DEFINE i == l[1]
             j == l[2]
  <2>1. Len(l) = PoolSize /\ PoolSize \in Nat \ {0, 1} /\ Len(m.free) = 0 /\ None \notin Items
    BY <1>1, <1>3, Constants
  <2>2. 1 \in 1..Len(l) /\ 2 \in 1..Len(l) /\ Len(l) # 1 /\ Len(l) # 0 /\ Len(l) \in 1..Len(l)
    BY <2>1
  <2>3. m.head = i /\ m.tail = l[Len(l)] /\ m.next[i] = j /\ m.prev[i] = None
    <3>1. /\ m.head = (IF Len(l) = 0 THEN None ELSE l[1])
          /\ m.tail = (IF Len(l) = 0 THEN None ELSE l[Len(l)])
          /\ m.next[l[1]] = (IF 1 = Len(l) THEN None ELSE l[1 + 1])
          /\ m.prev[l[1]] = (IF 1 = 1 THEN None ELSE l[1 - 1])
      BY <2>2 DEF Shape, IsList
    <3>2. 1 + 1 = 2
      OBVIOUS
    <3> QED BY <2>2, <3>1, <3>2
  <2>4. i \in Items /\ j \in Items /\ m.tail # i
    <3>1. l[Len(l)] = l[1] => Len(l) = 1
      BY <2>2 DEF Shape, IsList
    <3> QED BY <1>1, <2>2, <2>3, <3>1
  <2> HIDE DEF i, j
  <2>5. WithFree(m) = [m EXCEPT !.free = <<i>>, !.head = j, !.prev[j] = None]
    BY <1>3, <2>3 DEF WithFree
  <2> DEFINE nx == [k \in Items |-> IF k = m.prev[i] THEN m.next[i] ELSE m.next[k]]
             pv == [k \in Items |-> IF k = m.next[i] THEN m.prev[i] ELSE m.prev[k]]
  <2>6. nx = m.next
    BY <1>1, <2>1, <2>3
  <2>7. pv = [m.prev EXCEPT ![j] = None]
    BY <1>1, <2>3, <2>4
  <2>8. <<i>> \o m.free = <<i>>
    BY <1>3
  <2> DEFINE r == Recycled(m, i)
  <2>9. /\ r \in Mgrs /\ r.head = j /\ r.tail = m.tail /\ r.free = <<i>> /\ r.next = m.next
        /\ r.prev = [m.prev EXCEPT ![j] = None] /\ r.time = m.time /\ r.msg = m.msg
    <3>1. /\ r \in Mgrs
          /\ r.head = (IF m.head = i THEN m.next[i] ELSE m.head)
          /\ r.tail = (IF m.tail = i THEN None ELSE m.tail)
          /\ r.free = <<i>> \o m.free
          /\ r.next = nx /\ r.prev = pv /\ r.time = m.time /\ r.msg = m.msg
      BY <1>1, <2>4, RecycledIsMgr
    <3> HIDE DEF r, nx, pv
    <3> QED BY <2>3, <2>4, <2>6, <2>7, <2>8, <3>1
  <2> HIDE DEF r, nx, pv
  <2>10. WithFree(m) = r
    <3> DEFINE np == [m.prev EXCEPT ![j] = None]
    <3>1. WithFree(m) = [m EXCEPT !.free = <<i>>, !.head = j, !.prev = np]
      BY <2>5
    <3> HIDE DEF np
    <3>2. WithFree(m) = [head |-> j, tail |-> m.tail, next |-> m.next, prev |-> np,
                         time |-> m.time, msg |-> m.msg, free |-> <<i>>]
      BY <1>1, <3>1 DEF Mgrs
    <3>3. r = [head |-> r.head, tail |-> r.tail, next |-> r.next, prev |-> r.prev,
               time |-> r.time, msg |-> r.msg, free |-> r.free]
      BY <2>9 DEF Mgrs
    <3> QED BY <2>9, <3>2, <3>3 DEF np
  <2>11. Shape(r, Rest(l, 1)) /\ SameItems(m, r)
    BY <2>2, FirstRecycled DEF r, i
  <2>12. <<i>> # <<>>
    OBVIOUS
  <2> QED BY <1>3, <2>1, <2>9, <2>10, <2>11, <2>12 DEF i
<1> QED BY <1>2, <1>3

\* A message takes the first free item, which becomes the last of the list.
LEMMA LinkedIs ==
  ASSUME NEW m, NEW l, Shape(m, l), m.free # <<>>, NEW x \in Messages, now \in Nat
  PROVE  /\ Head(m.free) \in Items /\ Shape(Linked(m, x), Append(l, Head(m.free)))
         /\ Linked(m, x).msg = [m.msg EXCEPT ![Head(m.free)] = x]
         /\ Linked(m, x).time = [m.time EXCEPT ![Head(m.free)] = now]
         /\ Linked(m, x).free = Tail(m.free)
         /\ \A j \in Items : Linked(m, x).next[j] = IF j = Head(m.free) THEN None
                                                    ELSE IF j = m.tail THEN Head(m.free)
                                                    ELSE m.next[j]
<1> DEFINE i == Head(m.free)
           n == Linked(m, x)
           t == Append(l, i)
           nx == [j \in Items |-> IF j = i THEN None ELSE IF j = m.tail THEN i ELSE m.next[j]]
<1>1. /\ m \in Mgrs /\ l \in Seq(Items) /\ Len(l) \in Nat /\ Len(l) + Len(m.free) = PoolSize
      /\ m.free \in Seq(Items) /\ Len(m.free) \in Nat \ {0} /\ None \notin Items
      /\ m.next \in [Items -> Items \cup {None}] /\ m.prev \in [Items -> Items \cup {None}]
      /\ m.head \in Items \cup {None} /\ m.tail \in Items \cup {None}
      /\ m.time \in [Items -> Nat \cup {None}] /\ m.msg \in [Items -> Messages \cup {None}]
  <2>1. m \in Mgrs /\ l \in Seq(Items) /\ Len(l) + Len(m.free) = PoolSize
    BY DEF Shape, IsList, IsPool
  <2>2. m.free \in Seq(Items)
    BY <2>1 DEF Mgrs
  <2>3. Len(m.free) \in Nat \ {0}
    BY <2>2
  <2>4. /\ m.next \in [Items -> Items \cup {None}] /\ m.prev \in [Items -> Items \cup {None}]
        /\ m.head \in Items \cup {None} /\ m.tail \in Items \cup {None}
        /\ m.time \in [Items -> Nat \cup {None}] /\ m.msg \in [Items -> Messages \cup {None}]
    BY <2>1 DEF Mgrs
  <2> QED BY <2>1, <2>2, <2>3, <2>4, Constants
<1>2. /\ i = m.free[1] /\ i \in Items /\ Tail(m.free) \in Seq(Items)
      /\ Len(Tail(m.free)) = Len(m.free) - 1
      /\ \A k \in 1..(Len(m.free) - 1) : Tail(m.free)[k] = m.free[k + 1]
  BY <1>1
<1>3. \A k \in 1..Len(l) : l[k] # i
  <2>1. 1 \in 1..Len(m.free)
    BY <1>1
  <2> QED BY <1>2, <2>1 DEF Shape, IsPool
<1>4. /\ t \in Seq(Items) /\ Len(t) = Len(l) + 1 /\ t[Len(l) + 1] = i
      /\ \A k \in 1..Len(l) : t[k] = l[k] /\ k \in 1..Len(t)
      /\ \A k \in 1..Len(t) : k \in 1..Len(l) \/ k = Len(l) + 1
  BY <1>1, <1>2
<1>5. nx \in [Items -> Items \cup {None}]
  BY <1>1, <1>2
<1> HIDE DEF i, t, nx
<1>6. /\ n \in Mgrs /\ n.next = nx /\ n.prev = [m.prev EXCEPT ![i] = m.tail]
      /\ n.msg = [m.msg EXCEPT ![i] = x] /\ n.time = [m.time EXCEPT ![i] = now]
      /\ n.tail = i /\ n.head = (IF m.head = None THEN i ELSE m.head) /\ n.free = Tail(m.free)
  <2> DEFINE a == IF m.head = None THEN i ELSE m.head
             p == [m.prev EXCEPT ![i] = m.tail]
             ms == [m.msg EXCEPT ![i] = x]
             ti == [m.time EXCEPT ![i] = now]
             fr == Tail(m.free)
  <2>1. n = [m EXCEPT !.free = fr, !.msg = ms, !.time = ti, !.prev = p, !.next = nx,
                      !.head = a, !.tail = i]
    BY DEF Linked, i, nx
  <2>2. /\ a \in Items \cup {None} /\ p \in [Items -> Items \cup {None}]
        /\ ms \in [Items -> Messages \cup {None}] /\ ti \in [Items -> Nat \cup {None}]
        /\ fr \in Seq(Items) /\ i \in Items \cup {None}
    BY <1>1, <1>2
  <2> HIDE DEF a, p, ms, ti, fr
  <2>3. n = [head |-> a, tail |-> i, next |-> nx, prev |-> p, time |-> ti, msg |-> ms, free |-> fr]
    BY <1>1, <2>1 DEF Mgrs
  <2> HIDE DEF n
  <2>4. n \in Mgrs
    BY <1>5, <2>2, <2>3 DEF Mgrs
  <2>5. /\ n.next = nx /\ n.prev = p /\ n.msg = ms /\ n.time = ti /\ n.tail = i /\ n.head = a
        /\ n.free = fr
    BY <2>3
  <2> QED BY <2>4, <2>5 DEF a, p, ms, ti, fr
<1> HIDE DEF n
<1>7. IsList(n, t)
  <2>1. \A j, k \in 1..Len(t) : t[j] = t[k] => j = k
    <3> SUFFICES ASSUME NEW j \in 1..Len(t), NEW k \in 1..Len(t), t[j] = t[k] PROVE j = k
      OBVIOUS
    <3>1. \A a, b \in 1..Len(l) : l[a] = l[b] => a = b
      BY DEF Shape, IsList
    <3> QED BY <1>3, <1>4, <3>1
  <2>2. n.head = IF Len(t) = 0 THEN None ELSE t[1]
    <3>1. m.head = IF Len(l) = 0 THEN None ELSE l[1]
      BY DEF Shape, IsList
    <3>2. Len(l) # 0 => 1 \in 1..Len(l) /\ l[1] \in Items
      BY <1>1
    <3> QED BY <1>1, <1>4, <1>6, <3>1, <3>2
  <2>3. n.tail = IF Len(t) = 0 THEN None ELSE t[Len(t)]
    BY <1>1, <1>4, <1>6
  <2>4. m.tail = IF Len(l) = 0 THEN None ELSE l[Len(l)]
    BY DEF Shape, IsList
  <2>5. \A k \in 1..Len(t) : n.next[t[k]] = IF k = Len(t) THEN None ELSE t[k + 1]
    <3> SUFFICES ASSUME NEW k \in 1..Len(t)
                 PROVE  n.next[t[k]] = IF k = Len(t) THEN None ELSE t[k + 1]
      OBVIOUS
    <3>1. CASE k = Len(l) + 1
      BY <1>2, <1>4, <1>6, <3>1 DEF nx
    <3>2. CASE k \in 1..Len(l)
      <4>1. t[k] = l[k] /\ l[k] \in Items /\ l[k] # i /\ k # Len(t)
        BY <1>1, <1>3, <1>4, <3>2
      <4>2. n.next[l[k]] = IF l[k] = m.tail THEN i ELSE m.next[l[k]]
        BY <1>6, <4>1 DEF nx
      <4>3. m.next[l[k]] = IF k = Len(l) THEN None ELSE l[k + 1]
        BY <3>2 DEF Shape, IsList
      <4>4. CASE k = Len(l)
        BY <1>1, <1>4, <2>4, <3>2, <4>1, <4>2, <4>4
      <4>5. CASE k # Len(l)
        <5>1. k + 1 \in 1..Len(l) /\ Len(l) \in 1..Len(l) /\ Len(l) # 0
          BY <1>1, <3>2, <4>5
        <5>2. l[k] # l[Len(l)]
          BY <3>2, <4>5, <5>1 DEF Shape, IsList
        <5> QED BY <1>4, <2>4, <4>1, <4>2, <4>3, <4>5, <5>1, <5>2
      <4> QED BY <4>4, <4>5
    <3> QED BY <1>4, <3>1, <3>2
  <2>6. \A k \in 1..Len(t) : n.prev[t[k]] = IF k = 1 THEN None ELSE t[k - 1]
    <3> SUFFICES ASSUME NEW k \in 1..Len(t)
                 PROVE  n.prev[t[k]] = IF k = 1 THEN None ELSE t[k - 1]
      OBVIOUS
    <3>1. CASE k = Len(l) + 1
      <4>1. n.prev[i] = m.tail
        BY <1>1, <1>2, <1>6
      <4>2. t[k] = i /\ (Len(l) = 0 <=> k = 1)
        BY <1>1, <1>4, <3>1
      <4>3. Len(l) # 0 => t[k - 1] = l[Len(l)]
        <5>1. k - 1 = Len(l) /\ (Len(l) # 0 => Len(l) \in 1..Len(l))
          BY <1>1, <3>1
        <5> QED BY <1>4, <5>1
      <4> QED BY <2>4, <4>1, <4>2, <4>3
    <3>2. CASE k \in 1..Len(l)
      <4>1. t[k] = l[k] /\ l[k] \in Items /\ l[k] # i
        BY <1>1, <1>3, <1>4, <3>2
      <4>2. n.prev[l[k]] = m.prev[l[k]]
        BY <1>1, <1>6, <4>1
      <4>3. m.prev[l[k]] = IF k = 1 THEN None ELSE l[k - 1]
        BY <3>2 DEF Shape, IsList
      <4>4. k # 1 => k - 1 \in 1..Len(l)
        BY <3>2
      <4> QED BY <1>4, <4>1, <4>2, <4>3, <4>4
    <3> QED BY <1>4, <3>1, <3>2
  <2> QED BY <1>4, <2>1, <2>2, <2>3, <2>5, <2>6 DEF IsList
<1>8. IsPool(n, t)
  <2>1. \A k \in 1..Len(n.free) : k + 1 \in 1..Len(m.free) /\ n.free[k] = m.free[k + 1] /\ k + 1 # 1
    BY <1>1, <1>2, <1>6
  <2>2. Len(t) + Len(n.free) = PoolSize
    <3>1. Len(n.free) = Len(m.free) - 1 /\ Len(t) = Len(l) + 1
      BY <1>2, <1>4, <1>6
    <3>2. Len(l) \in Nat /\ Len(m.free) \in Nat /\ Len(l) + Len(m.free) = PoolSize
      BY <1>1
    <3>3. \A a, b \in Nat : (a + 1) + (b - 1) = a + b
      OBVIOUS
    <3>4. (Len(l) + 1) + (Len(m.free) - 1) = Len(l) + Len(m.free)
      BY <3>2, <3>3
    <3> QED BY <3>1, <3>2, <3>4
  <2>3. \A j, k \in 1..Len(m.free) : m.free[j] = m.free[k] => j = k
    BY DEF Shape, IsPool
  <2>4. \A j, k \in 1..Len(n.free) : n.free[j] = n.free[k] => j = k
    <3> SUFFICES ASSUME NEW j \in 1..Len(n.free), NEW k \in 1..Len(n.free), n.free[j] = n.free[k]
                 PROVE  j = k
      OBVIOUS
    <3>1. j + 1 = k + 1
      BY <2>1, <2>3
    <3> QED BY <3>1
  <2>5. \A j \in 1..Len(n.free), k \in 1..Len(t) : n.free[j] # t[k]
    <3> SUFFICES ASSUME NEW j \in 1..Len(n.free), NEW k \in 1..Len(t) PROVE n.free[j] # t[k]
      OBVIOUS
    <3>1. CASE k = Len(l) + 1
      <4>1. m.free[j + 1] # m.free[1]
        <5>1. 1 \in 1..Len(m.free)
          BY <1>1
        <5> QED BY <2>1, <2>3, <5>1
      <4> QED BY <1>2, <1>4, <2>1, <3>1, <4>1
    <3>2. CASE k \in 1..Len(l)
      <4>1. m.free[j + 1] # l[k]
        BY <2>1, <3>2 DEF Shape, IsPool
      <4> QED BY <1>4, <2>1, <3>2, <4>1
    <3> QED BY <1>4, <3>1, <3>2
  <2> QED BY <2>2, <2>4, <2>5 DEF IsPool
<1>9. \A j \in Items : n.next[j] = IF j = i THEN None ELSE IF j = m.tail THEN i ELSE m.next[j]
  BY <1>6 DEF nx
<1>10. Shape(n, t)
  BY <1>6, <1>7, <1>8 DEF Shape
<1> QED BY <1>2, <1>6, <1>9, <1>10 DEF i, n, t
-----------------------------------------------------------------------------
(* The inductive invariant. *)

TypeInv ==
  /\ asked \in Scenarios /\ now \in Nat /\ now <= asked.ticks
  /\ mgr \in [Halls -> Mgrs]
  /\ locker \in [Halls -> Messages \cup {None}]
  /\ push \in [Messages -> [at : {"idle", "call", "wait", "done"}, left : SUBSET Halls,
                            hall : Halls \cup {None}]]
  /\ pend \in [Halls -> SUBSET Messages]
  /\ request \in [Requests -> [at : {"idle", "lock", "read"}, since : Nat,
                               items : Seq(Messages \cup {None}), cur : Items \cup {None}]]
  /\ cursor \in [Halls -> [item : Items \cup {None}, time : Nat \cup {None}]]
  /\ got \in [Halls -> Seq(Messages \cup {None})]
  /\ arrived \in [Halls -> Seq(Messages \X Nat)]
  /\ \A r \in Requests : request[r].at # "idle" => r \in DOMAIN asked.hall

\* Who holds a lock is in his calls.
LockInv == \A h \in Halls : locker[h] # None => push[locker[h]].at \in {"call", "wait"}

\* A message comes to a hall once: it is called for no more when it has come or will come.
OnceInv ==
  /\ \A x \in Messages : push[x].at = "idle" => push[x].left = {}
  /\ \A h \in Halls, x \in Messages :
       /\ Has(h, x) \/ x \in pend[h] => push[x].at # "idle" /\ h \notin push[x].left
       /\ ~ (Has(h, x) /\ x \in pend[h])
  /\ \A h \in Halls : \A j, k \in 1..Len(arrived[h]) :
       arrived[h][j][1] = arrived[h][k][1] => j = k

\* The list l holds the last messages of a, in order of their times; what it does not hold is
\* old, or the list is full.
Latest(m, l, a) ==
  /\ Len(l) <= Len(a)
  /\ \A k \in 1..Len(a) : a[k][2] <= now
  /\ \A j, k \in 1..Len(a) : j <= k => a[j][2] <= a[k][2]
  /\ \A k \in 1..Len(l) : a[(Len(a) - Len(l)) + k] = <<m.msg[l[k]], m.time[l[k]]>>
  /\ Len(l) = PoolSize \/ \A k \in 1..(Len(a) - Len(l)) : now - a[k][2] >= Exist

\* An item that has had a message is old when it is not in the list, and only such come after it.
Used(m, l) ==
  /\ \A i \in Items : m.time[i] # None /\ (\A k \in 1..Len(l) : l[k] # i) => Expired(m, i)
  /\ \A i \in Items : m.time[i] # None /\ m.next[i] # None => m.time[m.next[i]] # None

ListInv ==
  \A h \in Halls : /\ Shape(mgr[h], Listed(mgr[h])) /\ Latest(mgr[h], Listed(mgr[h]), arrived[h])
                   /\ Used(mgr[h], Listed(mgr[h]))

\* Where the messages g are among those that have come.
Position(a, x) == CHOOSE k \in DOMAIN a : a[k][1] = x
Positions(a, g) == [k \in 1..Len(g) |-> Position(a, g[k])]

\* A player who has the messages g, which came as number p[1], p[2]..., and whose cursor is at c:
\* he has all up to the last one that are in the list and not old, and while that one is in the
\* list the cursor is at its item.
Follows(m, l, a, p, g, c) ==
  LET last == IF Len(g) = 0 THEN 0 ELSE p[Len(g)]
      n == Len(a) - Len(l)
  IN /\ \A k \in 1..Len(g) : p[k] \in 1..Len(a) /\ a[p[k]][1] = g[k]
     /\ \A j, k \in 1..Len(g) : j < k => p[j] < p[k]
     /\ \A k \in 1..Len(l) : n + k <= last => Expired(m, l[k]) \/ \E j \in 1..Len(g) : p[j] = n + k
     /\ c.item = None <=> Len(g) = 0
     /\ Len(g) # 0 => c.time = a[last][2] /\ (last > n => c.item = l[last - n])

\* The cursor when request q has been answered.
After(q, m, c) == IF q.cur = None THEN c ELSE [item |-> q.cur, time |-> m.time[q.cur]]

Reads(r, h) == request[r].at = "read" /\ asked.hall[r] = h

FollowsIn(h, g, c) ==
  Follows(mgr[h], Listed(mgr[h]), arrived[h], Positions(arrived[h], g), g, c)

\* One request of a player reads at a time, and he has the list in order, with what it got too.
ReadIn(h) ==
  /\ h \notin overlapped => \A q, r \in Requests : Reads(q, h) /\ Reads(r, h) => q = r
  /\ h \notin overlapped \cup stale =>
       /\ FollowsIn(h, got[h], cursor[h])
       /\ \A r \in Requests : Reads(r, h) =>
            FollowsIn(h, got[h] \o request[r].items, After(request[r], mgr[h], cursor[h]))

ReadInv == \A h \in Halls : ReadIn(h)

IInv == TypeInv /\ LockInv /\ OnceInv /\ ListInv /\ ReadInv
-----------------------------------------------------------------------------
(* A message is pushed. *)

\* The message x, pushed at item i, makes the hall n and the list t of m and l, whose first e
\* items are old or, the first one, taken for x.
PushedTo(m, l, a, x, n, e, i, t) ==
  /\ Shape(n, t) /\ Len(t) = (Len(l) - e) + 1 /\ t[Len(t)] = i
  /\ \A k \in 1..(Len(l) - e) : t[k] = l[e + k] /\ t[k] # i
  /\ \A k \in 1..e : Expired(m, l[k]) \/ l[k] = i
  /\ n.msg = [m.msg EXCEPT ![i] = x] /\ n.time = [m.time EXCEPT ![i] = now]
  /\ \A j \in Items : n.next[j] \in {None, i} \/ (j # i /\ n.next[j] = m.next[j])
  /\ Len(t) = PoolSize \/ \A k \in 1..((Len(a) - Len(l)) + e) : now - a[k][2] >= Exist

\* The messages and times of a list's items, which are at the end of a.
AtTheEnd(m, l, a) ==
  /\ \A k \in 1..Len(a) : a[k][1] \in Messages /\ a[k][2] \in Nat
  /\ \A k \in 1..Len(l) : /\ (Len(a) - Len(l)) + k \in 1..Len(a) /\ l[k] \in Items
                          /\ m.msg[l[k]] = a[(Len(a) - Len(l)) + k][1]
                          /\ m.time[l[k]] = a[(Len(a) - Len(l)) + k][2]
                          /\ m.time[l[k]] \in Nat

LEMMA ListTimes ==
  ASSUME NEW m, NEW l, NEW a \in Seq(Messages \X Nat), Shape(m, l), Latest(m, l, a)
  PROVE  AtTheEnd(m, l, a)
<1>1. \A k \in 1..Len(a) : a[k][1] \in Messages /\ a[k][2] \in Nat
  <2>1. \A k \in 1..Len(a) : a[k] \in Messages \X Nat
    OBVIOUS
  <2> QED BY <2>1
<1>2. l \in Seq(Items) /\ Len(l) \in Nat /\ Len(a) \in Nat /\ Len(l) <= Len(a)
  BY DEF Shape, IsList, Latest
<1>3. \A k \in 1..Len(l) : (Len(a) - Len(l)) + k \in 1..Len(a) /\ l[k] \in Items
  BY <1>2
<1>4. \A k \in 1..Len(l) : /\ m.msg[l[k]] = a[(Len(a) - Len(l)) + k][1]
                           /\ m.time[l[k]] = a[(Len(a) - Len(l)) + k][2]
  BY DEF Latest
<1> QED BY <1>1, <1>3, <1>4 DEF AtTheEnd

\* The items that are old are the first of the list.
LEMMA OldFirst ==
  ASSUME NEW m, NEW l, NEW a \in Seq(Messages \X Nat), Shape(m, l), Latest(m, l, a), now \in Nat
  PROVE  \E e \in 0..Len(l) : \A k \in 1..Len(l) : Expired(m, l[k]) <=> k <= e
<1>1. l \in Seq(Items) /\ Len(l) \in Nat /\ Len(a) \in Nat /\ Len(l) <= Len(a)
  BY DEF Shape, IsList, Latest
<1>4. /\ \A k \in 1..Len(a) : a[k][2] \in Nat
      /\ \A k \in 1..Len(l) : /\ (Len(a) - Len(l)) + k \in 1..Len(a)
                              /\ m.time[l[k]] = a[(Len(a) - Len(l)) + k][2]
  <2>1. AtTheEnd(m, l, a)
    BY ListTimes
  <2> QED BY <2>1 DEF AtTheEnd
<1> DEFINE new == {k \in 1..Len(l) : ~ Expired(m, l[k])}
<1>2. CASE new = {}
  <2>1. \A k \in 1..Len(l) : Expired(m, l[k]) <=> k <= Len(l)
    BY <1>1, <1>2
  <2>2. Len(l) \in 0..Len(l)
    BY <1>1
  <2> QED BY <2>1, <2>2, Zenon
<1>3. CASE new # {}
  <2>1. new \in SUBSET Nat
    OBVIOUS
  <2>2. PICK b \in new : \A k \in new : b <= k
    <3> HIDE DEF new
    <3> QED BY <1>3, <2>1, LeastNatural
  <2>3. b \in 1..Len(l) /\ ~ Expired(m, l[b])
    BY <2>2
  <2>4. ASSUME NEW k \in 1..Len(l) PROVE Expired(m, l[k]) <=> k <= b - 1
    <3>1. CASE k < b
      <4>1. k \notin new
        <5> HIDE DEF new
        <5>1. ~ (b <= k)
          BY <2>3, <3>1
        <5> QED BY <2>2, <5>1
      <4> QED BY <2>3, <3>1, <4>1
    <3>2. CASE ~ (k < b)
      <4> DEFINE u == (Len(a) - Len(l)) + b
                 v == (Len(a) - Len(l)) + k
      <4>1. u \in 1..Len(a) /\ v \in 1..Len(a) /\ u <= v
        BY <1>1, <2>3, <3>2
      <4>2. m.time[l[b]] = a[u][2] /\ m.time[l[k]] = a[v][2] /\ a[u][2] \in Nat /\ a[v][2] \in Nat
        BY <1>4, <2>3, <4>1
      <4>3. a[u][2] <= a[v][2]
        BY <4>1 DEF Latest
      <4>4. Exist \in Nat
        BY Constants
      <4>5. ~ Expired(m, l[k])
        <5>1. ~ (now - a[u][2] >= Exist)
          BY <2>3, <4>2 DEF Expired
        <5>2. \A b1, b2 \in Nat : b1 <= b2 /\ ~ (now - b1 >= Exist) => ~ (now - b2 >= Exist)
          BY <4>4
        <5> HIDE DEF u, v
        <5>3. ~ (now - a[v][2] >= Exist)
          BY <4>2, <4>3, <5>1, <5>2
        <5> QED BY <4>2, <5>3 DEF Expired
      <4> QED BY <2>3, <3>2, <4>5
    <3> QED BY <3>1, <3>2
  <2>5. b - 1 \in 0..Len(l)
    BY <2>3
  <2> QED BY <2>4, <2>5
<1> QED BY <1>2, <1>3

LEMMA Pushed ==
  ASSUME NEW m, NEW l, NEW a \in Seq(Messages \X Nat), Shape(m, l), Latest(m, l, a),
         NEW x \in Messages, now \in Nat
  PROVE  \E e \in 0..Len(l), i \in Items, t \in Seq(Items) :
           PushedTo(m, l, a, x, Linked(WithFree(recycle_old(m)), x), e, i, t)
<1>1. PICK e \in 0..Len(l) : \A k \in 1..Len(l) : Expired(m, l[k]) <=> k <= e
  BY OldFirst
<1>0. /\ \A k \in 1..Len(a) : a[k][2] \in Nat
      /\ \A k \in 1..Len(l) : /\ (Len(a) - Len(l)) + k \in 1..Len(a)
                              /\ m.time[l[k]] = a[(Len(a) - Len(l)) + k][2]
  <2>1. AtTheEnd(m, l, a)
    BY ListTimes
  <2> QED BY <2>1 DEF AtTheEnd
<1> DEFINE m1 == recycle_old(m)
           l1 == Rest(l, e)
           m2 == WithFree(m1)
           n == Linked(m2, x)
<1>2. Shape(m1, l1) /\ SameItems(m, m1)
  BY <1>1, OldRecycled
<1>3. /\ l \in Seq(Items) /\ Len(l) \in Nat /\ Len(a) \in Nat /\ Len(l) <= Len(a)
      /\ Len(l) <= PoolSize /\ PoolSize \in Nat \ {0, 1} /\ Exist \in Nat
  <2>1. /\ l \in Seq(Items) /\ Len(l) <= Len(a)
        /\ Len(l) + Len(m.free) = PoolSize /\ m.free \in Seq(Items)
    BY DEF Shape, IsList, IsPool, Latest, Mgrs
  <2>2. Len(l) \in Nat /\ Len(m.free) \in Nat /\ Len(a) \in Nat
    BY <2>1
  <2> QED BY <2>1, <2>2, Constants
<1>4. /\ l1 \in Seq(Items) /\ Len(l1) = Len(l) - e
      /\ \A k \in 1..(Len(l) - e) : l1[k] = l[e + k]
  BY <1>3, RestOf
<1>5. \A k \in 1..e : k \in 1..Len(l) /\ Expired(m, l[k])
  BY <1>1, <1>3
<1> HIDE DEF m1, l1, m2, n
<1>6. /\ m2.free # <<>> /\ SameItems(m1, m2)
      /\ \/ Shape(m2, l1) /\ m2 = m1
         \/ /\ Shape(m2, Rest(l1, 1)) /\ Len(l1) = PoolSize /\ m1.free = <<>>
            /\ m2.free = <<l1[1]>>
  BY <1>2, RoomMade DEF m2
<1>7. SameItems(m, m2)
  BY <1>2, <1>6 DEF SameItems
\* What the list does not hold any more is old.
<1>8. (Len(l) = PoolSize /\ e = 0) \/ \A k \in 1..((Len(a) - Len(l)) + e) : now - a[k][2] >= Exist
  <2> SUFFICES ASSUME ~ (Len(l) = PoolSize /\ e = 0), NEW k \in 1..((Len(a) - Len(l)) + e)
               PROVE  now - a[k][2] >= Exist
    OBVIOUS
  <2>1. CASE e = 0
    BY <1>3, <2>1 DEF Latest
  <2>2. CASE e # 0
    <3> DEFINE u == (Len(a) - Len(l)) + e
    <3>1. e \in 1..Len(l) /\ u \in 1..Len(a) /\ k \in 1..Len(a) /\ k <= u
      BY <1>3, <2>2
    <3>2. m.time[l[e]] = a[u][2] /\ a[u][2] \in Nat /\ a[k][2] \in Nat
      BY <1>0, <3>1
    <3>3. a[k][2] <= a[u][2]
      BY <3>1 DEF Latest
    <3> HIDE DEF u
    <3>4. now - a[u][2] >= Exist
      <4>1. Expired(m, l[e])
        BY <1>1, <1>3, <3>1
      <4> QED BY <3>2, <4>1 DEF Expired
    <3>5. \A b1, b2 \in Nat : b1 <= b2 /\ now - b2 >= Exist => now - b1 >= Exist
      BY <1>3
    <3> QED BY <3>2, <3>3, <3>4, <3>5
  <2> QED BY <2>1, <2>2
\* The list that x is put at the end of.
<1>9. \E d \in 0..Len(l), l2 \in Seq(Items) :
        /\ Shape(m2, l2) /\ Len(l2) = Len(l) - d /\ \A k \in 1..(Len(l) - d) : l2[k] = l[d + k]
        /\ \A k \in 1..d : Expired(m, l[k]) \/ l[k] = Head(m2.free)
        /\ Len(l2) + 1 = PoolSize \/ \A k \in 1..((Len(a) - Len(l)) + d) : now - a[k][2] >= Exist
  <2>1. CASE Shape(m2, l1) /\ m2 = m1
    <3>1. Len(l1) # PoolSize
      <4>1. m2.free \in Seq(Items) /\ Len(l1) + Len(m2.free) = PoolSize
        BY <2>1 DEF Shape, IsPool, Mgrs
      <4>2. Len(m2.free) \in Nat \ {0}
        BY <1>6, <4>1
      <4>3. Len(l1) \in Nat
        BY <1>4
      <4> QED BY <4>1, <4>2, <4>3
    <3>2. ~ (Len(l) = PoolSize /\ e = 0)
      BY <1>3, <1>4, <3>1
    <3> QED BY <1>4, <1>5, <1>8, <2>1, <3>2
  <2>2. CASE /\ Shape(m2, Rest(l1, 1)) /\ Len(l1) = PoolSize /\ m1.free = <<>>
             /\ m2.free = <<l1[1]>>
    <3>1. e = 0 /\ Len(l) = PoolSize
      BY <1>3, <1>4, <2>2
    <3>2. l1 = l
      <4>1. \A k \in 1..(Len(l) - 0) : 0 + k = k
        OBVIOUS
      <4> QED BY <1>3, <1>4, <3>1, <4>1
    <3>3. 1 \in 0..Len(l) /\ 1 \in 1..Len(l)
      BY <1>3, <3>1
    <3>4. /\ Rest(l, 1) \in Seq(Items) /\ Len(Rest(l, 1)) = Len(l) - 1
          /\ \A k \in 1..(Len(l) - 1) : Rest(l, 1)[k] = l[1 + k]
      BY <1>3, <3>3, RestOf
    <3>5. Head(m2.free) = l[1]
      BY <2>2, <3>2
    <3>6. (Len(l) - 1) + 1 = PoolSize /\ \A k \in 1..1 : k = 1
      BY <1>3, <3>1
    <3> QED BY <2>2, <3>2, <3>3, <3>4, <3>5, <3>6
  <2> QED BY <1>6, <2>1, <2>2
<1>10. PICK d \in 0..Len(l), l2 \in Seq(Items) :
        /\ Shape(m2, l2) /\ Len(l2) = Len(l) - d /\ \A k \in 1..(Len(l) - d) : l2[k] = l[d + k]
        /\ \A k \in 1..d : Expired(m, l[k]) \/ l[k] = Head(m2.free)
        /\ Len(l2) + 1 = PoolSize \/ \A k \in 1..((Len(a) - Len(l)) + d) : now - a[k][2] >= Exist
  BY <1>9
<1> DEFINE i == Head(m2.free)
           t == Append(l2, i)
<1>11. /\ i \in Items /\ Shape(n, t) /\ n.msg = [m2.msg EXCEPT ![i] = x]
       /\ n.time = [m2.time EXCEPT ![i] = now]
       /\ \A j \in Items : n.next[j] = IF j = i THEN None ELSE IF j = m2.tail THEN i ELSE m2.next[j]
  BY <1>6, <1>10, LinkedIs DEF n
<1> HIDE DEF i
<1>12. /\ t \in Seq(Items) /\ Len(t) = (Len(l) - d) + 1 /\ t[Len(t)] = i
       /\ \A k \in 1..(Len(l) - d) : t[k] = l[d + k]
  <2>1. Len(l2) \in Nat
    OBVIOUS
  <2>2. /\ t \in Seq(Items) /\ Len(t) = Len(l2) + 1 /\ t[Len(l2) + 1] = i
        /\ \A k \in 1..Len(l2) : t[k] = l2[k]
    BY <1>11
  <2> QED BY <1>10, <2>1, <2>2
<1> HIDE DEF t
<1>13. \A k \in 1..(Len(l) - d) : t[k] # i
  <2> SUFFICES ASSUME NEW k \in 1..(Len(l) - d), t[k] = i PROVE FALSE
    OBVIOUS
  <2>1. k \in 1..Len(t) /\ Len(t) \in 1..Len(t) /\ k # Len(t)
    <3>1. \A L \in Nat : \A j \in 1..L : j \in 1..(L + 1) /\ L + 1 \in 1..(L + 1) /\ j # L + 1
      OBVIOUS
    <3>2. Len(l) - d \in Nat
      BY <1>3
    <3> QED BY <1>12, <3>1, <3>2
  <2>2. \A j, b \in 1..Len(t) : t[j] = t[b] => j = b
    BY <1>11 DEF Shape, IsList
  <2> QED BY <1>12, <2>1, <2>2
<1>14. /\ n.msg = [m.msg EXCEPT ![i] = x] /\ n.time = [m.time EXCEPT ![i] = now]
       /\ \A j \in Items : n.next[j] \in {None, i} \/ (j # i /\ n.next[j] = m.next[j])
  BY <1>7, <1>11 DEF SameItems
<1>15. Len(t) = PoolSize \/ \A k \in 1..((Len(a) - Len(l)) + d) : now - a[k][2] >= Exist
  BY <1>10, <1>12
<1>16. \A k \in 1..d : Expired(m, l[k]) \/ l[k] = i
  BY <1>10 DEF i
<1>17. PushedTo(m, l, a, x, n, d, i, t)
  BY <1>11, <1>12, <1>13, <1>14, <1>15, <1>16 DEF PushedTo
<1> QED BY <1>11, <1>12, <1>17 DEF n, m2, m1

\* Where the items of a list of L are among A messages, when the first e leave it.
LEMMA Offsets ==
  ASSUME NEW A \in Nat, NEW L \in Nat, L <= A, NEW e \in 0..L
  PROVE  /\ \A k \in 1..(L - e) : /\ e + k \in 1..L /\ (A - L) + (e + k) \in 1..A
                                  /\ ((A - L) + e) + k = (A - L) + (e + k)
         /\ \A k \in 1..((L - e) + 1) : /\ k \in 1..(L - e) \/ k = (L - e) + 1
                                        /\ ((A - L) + e) + ((L - e) + 1) = A + 1
         /\ \A k \in 1..A, j \in 1..((L - e) + 1) : ((A - L) + e) + j <= k => j \in 1..(L - e)
         /\ \A k \in 1..A : k > (A - L) + e =>
              /\ k > A - L /\ k - ((A - L) + e) \in 1..(L - e)
              /\ e + (k - ((A - L) + e)) = k - (A - L)
OBVIOUS

\* The list after a push holds the latest messages, and old items come after old ones.
LEMMA LatestPushed ==
  ASSUME NEW m, NEW l, NEW a \in Seq(Messages \X Nat), Shape(m, l), Latest(m, l, a),
         NEW x \in Messages, now \in Nat,
         NEW n, NEW e \in 0..Len(l), NEW i \in Items, NEW t \in Seq(Items),
         PushedTo(m, l, a, x, n, e, i, t)
  PROVE  Latest(n, t, Append(a, <<x, now>>))
<1> DEFINE b == Append(a, <<x, now>>)
<1>1. /\ l \in Seq(Items) /\ Len(l) \in Nat /\ Len(a) \in Nat
      /\ Len(l) <= Len(a) /\ t \in Seq(Items)
      /\ m.msg \in [Items -> Messages \cup {None}] /\ m.time \in [Items -> Nat \cup {None}]
  BY DEF Shape, IsList, Latest, Mgrs
<1>2. /\ Len(b) = Len(a) + 1 /\ b[Len(a) + 1] = <<x, now>> /\ \A k \in 1..Len(a) : b[k] = a[k]
  BY <1>1
<1>3. /\ Len(t) = (Len(l) - e) + 1 /\ t[Len(t)] = i
      /\ \A k \in 1..(Len(l) - e) : t[k] = l[e + k] /\ t[k] # i
      /\ n.msg = [m.msg EXCEPT ![i] = x] /\ n.time = [m.time EXCEPT ![i] = now]
      /\ Len(t) = PoolSize \/ \A k \in 1..((Len(a) - Len(l)) + e) : now - a[k][2] >= Exist
  BY DEF PushedTo
<1>4. \A k \in 1..Len(a) : a[k][2] \in Nat
  BY ListTimes DEF AtTheEnd
<1> HIDE DEF b
<1>5. Len(t) <= Len(b)
  BY <1>1, <1>2, <1>3
<1>6. \A k \in 1..Len(b) : b[k][2] <= now
  <2> SUFFICES ASSUME NEW k \in 1..Len(b) PROVE b[k][2] <= now
    OBVIOUS
  <2>1. CASE k \in 1..Len(a)
    BY <1>2, <2>1 DEF Latest
  <2>2. CASE k \notin 1..Len(a)
    <3>1. k = Len(a) + 1
      BY <1>1, <1>2, <2>2
    <3> QED BY <1>2, <3>1
  <2> QED BY <2>1, <2>2
<1>7. \A j, k \in 1..Len(b) : j <= k => b[j][2] <= b[k][2]
  <2> SUFFICES ASSUME NEW j \in 1..Len(b), NEW k \in 1..Len(b), j <= k PROVE b[j][2] <= b[k][2]
    OBVIOUS
  <2>1. CASE k \in 1..Len(a)
    <3>1. j \in 1..Len(a)
      BY <1>1, <2>1
    <3> QED BY <1>2, <2>1, <3>1 DEF Latest
  <2>2. CASE k \notin 1..Len(a)
    <3>1. k = Len(a) + 1
      BY <1>1, <1>2, <2>2
    <3>2. b[k][2] = now
      BY <1>2, <3>1
    <3> QED BY <1>6, <3>2
  <2> QED BY <2>1, <2>2
<1>8. Len(b) - Len(t) = (Len(a) - Len(l)) + e
  BY <1>1, <1>2, <1>3
<1>9. \A k \in 1..Len(t) : b[(Len(b) - Len(t)) + k] = <<n.msg[t[k]], n.time[t[k]]>>
  <2> SUFFICES ASSUME NEW k \in 1..Len(t)
               PROVE  b[(Len(b) - Len(t)) + k] = <<n.msg[t[k]], n.time[t[k]]>>
    OBVIOUS
  <2>1. CASE k \in 1..(Len(l) - e)
    <3> DEFINE u == (Len(a) - Len(l)) + (e + k)
    <3>1. /\ e + k \in 1..Len(l) /\ u \in 1..Len(a) /\ (Len(b) - Len(t)) + k = u
      <4>1. /\ e + k \in 1..Len(l) /\ (Len(a) - Len(l)) + (e + k) \in 1..Len(a)
            /\ ((Len(a) - Len(l)) + e) + k = (Len(a) - Len(l)) + (e + k)
        BY <1>1, <2>1, Offsets
      <4> QED BY <1>8, <4>1
    <3>2. a[u] = <<m.msg[l[e + k]], m.time[l[e + k]]>>
      BY <3>1 DEF Latest
    <3>3. l[e + k] \in Items /\ t[k] = l[e + k] /\ l[e + k] # i
      <4>1. t[k] = l[e + k] /\ t[k] # i
        BY <1>3, <2>1, Zenon
      <4> HIDE DEF u
      <4> QED BY <1>1, <3>1, <4>1
    <3>4. n.msg[l[e + k]] = m.msg[l[e + k]] /\ n.time[l[e + k]] = m.time[l[e + k]]
      BY <1>1, <1>3, <3>3
    <3> HIDE DEF u
    <3> QED BY <1>2, <3>1, <3>2, <3>3, <3>4
  <2>2. CASE k \notin 1..(Len(l) - e)
    <3>1. k = Len(t) /\ (Len(b) - Len(t)) + k = Len(a) + 1
      <4>1. k \in 1..((Len(l) - e) + 1)
        BY <1>3
      <4>2. k = (Len(l) - e) + 1 /\ ((Len(a) - Len(l)) + e) + ((Len(l) - e) + 1) = Len(a) + 1
        BY <1>1, <2>2, <4>1, Offsets
      <4> QED BY <1>3, <1>8, <4>2
    <3>2. n.msg[i] = x /\ n.time[i] = now
      BY <1>1, <1>3
    <3> QED BY <1>2, <1>3, <3>1, <3>2
  <2> QED BY <2>1, <2>2
<1>10. Len(t) = PoolSize \/ \A k \in 1..(Len(b) - Len(t)) : now - b[k][2] >= Exist
  <2>1. \A k \in 1..((Len(a) - Len(l)) + e) : k \in 1..Len(a)
    BY <1>1
  <2> QED BY <1>2, <1>3, <1>8, <2>1
<1> QED BY <1>5, <1>6, <1>7, <1>9, <1>10 DEF Latest, b

LEMMA UsedPushed ==
  ASSUME NEW m, NEW l, NEW a, Shape(m, l), Used(m, l), NEW x \in Messages, now \in Nat,
         NEW n, NEW e \in 0..Len(l), NEW i \in Items, NEW t \in Seq(Items),
         PushedTo(m, l, a, x, n, e, i, t)
  PROVE  Used(n, t)
<1>1. /\ l \in Seq(Items) /\ Len(l) \in Nat /\ m.time \in [Items -> Nat \cup {None}]
      /\ m.next \in [Items -> Items \cup {None}]
  BY DEF Shape, IsList, Mgrs
<1>2. /\ Len(t) = (Len(l) - e) + 1 /\ t[Len(t)] = i
      /\ \A k \in 1..(Len(l) - e) : t[k] = l[e + k] /\ t[k] # i
      /\ \A k \in 1..e : Expired(m, l[k]) \/ l[k] = i
      /\ n.time = [m.time EXCEPT ![i] = now]
      /\ \A j \in Items : n.next[j] \in {None, i} \/ (j # i /\ n.next[j] = m.next[j])
  BY DEF PushedTo
<1>3. n.time[i] = now /\ \A j \in Items : j # i => n.time[j] = m.time[j]
  BY <1>1, <1>2
<1>4. ASSUME NEW j \in Items, n.time[j] # None, \A k \in 1..Len(t) : t[k] # j
      PROVE  Expired(n, j)
  <2>1. j # i
    <3>1. Len(t) \in 1..Len(t)
      BY <1>1, <1>2
    <3> QED BY <1>2, <1>4, <3>1
  <2>2. m.time[j] # None /\ n.time[j] = m.time[j]
    BY <1>3, <1>4, <2>1
  <2>3. Expired(m, j)
    <3>1. CASE \A k \in 1..Len(l) : l[k] # j
      BY <2>2, <3>1 DEF Used
    <3>2. CASE ~ \A k \in 1..Len(l) : l[k] # j
      <4>1. PICK k \in 1..Len(l) : l[k] = j
        BY <3>2
      <4>2. k <= e
        <5> SUFFICES ASSUME ~ (k <= e) PROVE FALSE
          OBVIOUS
        <5>1. k - e \in 1..(Len(l) - e) /\ e + (k - e) = k /\ k - e \in 1..Len(t)
          BY <1>1, <1>2
        <5>2. t[k - e] = j
          BY <1>2, <4>1, <5>1
        <5> QED BY <1>4, <5>1, <5>2
      <4> QED BY <1>2, <2>1, <4>1, <4>2
    <3> QED BY <3>1, <3>2
  <2> QED BY <2>2, <2>3 DEF Expired
<1>5. ASSUME NEW j \in Items, n.time[j] # None, n.next[j] # None
      PROVE  n.time[n.next[j]] # None
  <2>1. now # None
    BY Constants
  <2>2. CASE n.next[j] = i
    BY <1>3, <2>1, <2>2
  <2>3. CASE j # i /\ n.next[j] = m.next[j]
    <3>1. m.time[m.next[j]] # None /\ m.next[j] \in Items
      BY <1>1, <1>3, <1>5, <2>3 DEF Used
    <3> QED BY <1>3, <2>1, <2>3, <3>1
  <2> QED BY <1>2, <1>5, <2>2, <2>3
<1> QED BY <1>4, <1>5 DEF Used

\* A player goes on as before.
LEMMA FollowsPushed ==
  ASSUME NEW m, NEW l, NEW a \in Seq(Messages \X Nat), Shape(m, l), Latest(m, l, a),
         NEW x \in Messages, now \in Nat,
         NEW n, NEW e \in 0..Len(l), NEW i \in Items, NEW t \in Seq(Items),
         PushedTo(m, l, a, x, n, e, i, t),
         NEW p, NEW g \in Seq(Messages \cup {None}), NEW c, Follows(m, l, a, p, g, c)
  PROVE  Follows(n, t, Append(a, <<x, now>>), p, g, c)
<1> DEFINE b == Append(a, <<x, now>>)
           last == IF Len(g) = 0 THEN 0 ELSE p[Len(g)]
<1>1. /\ l \in Seq(Items) /\ Len(l) \in Nat /\ Len(a) \in Nat
      /\ Len(l) <= Len(a) /\ t \in Seq(Items)
      /\ m.msg \in [Items -> Messages \cup {None}] /\ m.time \in [Items -> Nat \cup {None}]
      /\ Len(g) \in Nat
  BY DEF Shape, IsList, Latest, Mgrs
<1>2. /\ Len(b) = Len(a) + 1 /\ \A k \in 1..Len(a) : b[k] = a[k] /\ k \in 1..Len(b)
  BY <1>1
<1>3. /\ Len(t) = (Len(l) - e) + 1 /\ t[Len(t)] = i
      /\ \A k \in 1..(Len(l) - e) : t[k] = l[e + k] /\ t[k] # i
      /\ n.time = [m.time EXCEPT ![i] = now]
  BY DEF PushedTo
<1>4. /\ \A k \in 1..Len(g) : p[k] \in 1..Len(a) /\ a[p[k]][1] = g[k]
      /\ \A j, k \in 1..Len(g) : j < k => p[j] < p[k]
      /\ \A k \in 1..Len(l) : (Len(a) - Len(l)) + k <= last
           => Expired(m, l[k]) \/ \E j \in 1..Len(g) : p[j] = (Len(a) - Len(l)) + k
      /\ c.item = None <=> Len(g) = 0
      /\ Len(g) # 0 => /\ c.time = a[last][2]
                       /\ last > Len(a) - Len(l) => c.item = l[last - (Len(a) - Len(l))]
  BY DEF Follows
<1>5. last \in 0..Len(a) /\ (Len(g) # 0 => last \in 1..Len(a))
  <2>1. Len(g) # 0 => Len(g) \in 1..Len(g)
    BY <1>1
  <2> QED BY <1>1, <1>4, <2>1
<1> HIDE DEF b, last
<1>6. Len(b) - Len(t) = (Len(a) - Len(l)) + e
  BY <1>1, <1>2, <1>3
<1>7. ASSUME NEW k \in 1..Len(t), (Len(b) - Len(t)) + k <= last
      PROVE  Expired(n, t[k]) \/ \E j \in 1..Len(g) : p[j] = (Len(b) - Len(t)) + k
  <2>1. /\ k \in 1..(Len(l) - e) /\ e + k \in 1..Len(l)
        /\ (Len(a) - Len(l)) + (e + k) = (Len(b) - Len(t)) + k
    <3>1. last \in 1..Len(a) /\ k \in 1..((Len(l) - e) + 1)
          /\ ((Len(a) - Len(l)) + e) + k <= last
      <4>1. Len(b) - Len(t) >= 0 /\ k >= 1 /\ Len(b) - Len(t) \in Int /\ k \in Int
        BY <1>1, <1>6
      <4>2. last # 0
        BY <1>5, <1>7, <4>1
      <4> QED BY <1>3, <1>5, <1>6, <1>7, <4>2
    <3>2. k \in 1..(Len(l) - e)
      BY <1>1, <3>1, Offsets
    <3>3. e + k \in 1..Len(l) /\ ((Len(a) - Len(l)) + e) + k = (Len(a) - Len(l)) + (e + k)
      BY <1>1, <3>2, Offsets
    <3> QED BY <1>6, <3>2, <3>3
  <2>2. t[k] = l[e + k] /\ l[e + k] # i /\ l[e + k] \in Items
    <3>1. t[k] = l[e + k] /\ t[k] # i
      BY <1>3, <2>1, Zenon
    <3>2. \A j \in 1..Len(l) : l[j] \in Items
      BY <1>1
    <3>3. l[e + k] \in Items
      BY <2>1, <3>2, Zenon
    <3> QED BY <3>1, <3>3
  <2>3. n.time[l[e + k]] = m.time[l[e + k]]
    BY <1>1, <1>3, <2>2
  <2>4. Expired(m, l[e + k]) \/ \E j \in 1..Len(g) : p[j] = (Len(a) - Len(l)) + (e + k)
    BY <1>4, <1>7, <2>1
  <2> QED BY <2>1, <2>2, <2>3, <2>4 DEF Expired
<1>8. ASSUME Len(g) # 0 PROVE /\ c.time = b[last][2]
                              /\ last > Len(b) - Len(t) => c.item = t[last - (Len(b) - Len(t))]
  <2>1. c.time = b[last][2]
    BY <1>2, <1>4, <1>5, <1>8
  <2>2. ASSUME last > Len(b) - Len(t) PROVE c.item = t[last - (Len(b) - Len(t))]
    <3>1. /\ last > Len(a) - Len(l) /\ last - (Len(b) - Len(t)) \in 1..(Len(l) - e)
          /\ e + (last - (Len(b) - Len(t))) = last - (Len(a) - Len(l))
      <4>1. last \in 1..Len(a) /\ last > (Len(a) - Len(l)) + e
        BY <1>5, <1>6, <1>8, <2>2
      <4>2. /\ last > Len(a) - Len(l) /\ last - ((Len(a) - Len(l)) + e) \in 1..(Len(l) - e)
            /\ e + (last - ((Len(a) - Len(l)) + e)) = last - (Len(a) - Len(l))
        BY <1>1, <4>1, Offsets
      <4> QED BY <1>6, <4>2
    <3> QED BY <1>3, <1>4, <1>8, <3>1
  <2> QED BY <2>1, <2>2
<1>9. \A k \in 1..Len(g) : p[k] \in 1..Len(b) /\ b[p[k]][1] = g[k]
  BY <1>2, <1>4
<1>10. Follows(n, t, b, p, g, c)
  BY <1>4, <1>7, <1>8, <1>9 DEF Follows, last
<1> QED BY <1>10 DEF b
-----------------------------------------------------------------------------
(* A player reads on. *)

\* The recursion of Fresh.
FreshStep(f, m, s, k) ==
  IF k = 0 THEN <<>> ELSE IF Expired(m, s[k]) THEN f[k - 1] ELSE Append(f[k - 1], s[k])
FreshWalk(m, s) == CHOOSE f : f = [k \in 0..Len(s) |-> FreshStep(f, m, s, k)]

LEMMA FreshIsWalk == ASSUME NEW m, NEW s PROVE Fresh(m, s) = FreshWalk(m, s)[Len(s)]
BY DEF Fresh, FreshWalk, FreshStep

LEMMA FreshIsSolution ==
  ASSUME NEW m, NEW s \in Seq(Items)
  PROVE  \A k \in 0..Len(s) : FreshWalk(m, s)[k] = FreshStep(FreshWalk(m, s), m, s, k)
<1> DEFINE T == [at : Nat, fresh : Seq(Items)]
           More(w) == IF w.at + 1 > Len(s) THEN w.fresh
                      ELSE IF Expired(m, s[w.at + 1]) THEN w.fresh ELSE Append(w.fresh, s[w.at + 1])
           F == [w \in T |-> [at |-> w.at + 1, fresh |-> More(w)]]
           x == [at |-> 0, fresh |-> <<>>]
           Solves(f) == f = [k \in 0..Len(s) |-> FreshStep(f, m, s, k)]
<1>1. F \in [T -> T]
  <2> SUFFICES ASSUME NEW w \in T PROVE More(w) \in Seq(Items) /\ w.at + 1 \in Nat
    OBVIOUS
  <2>1. w.at + 1 \in Nat /\ w.fresh \in Seq(Items)
    OBVIOUS
  <2>2. CASE w.at + 1 > Len(s)
    BY <2>1, <2>2
  <2>3. CASE ~ (w.at + 1 > Len(s))
    <3>1. w.at + 1 \in 1..Len(s)
      BY <2>1, <2>3
    <3>2. s[w.at + 1] \in Items
      BY <3>1
    <3>3. Append(w.fresh, s[w.at + 1]) \in Seq(Items)
      BY <2>1, <3>2
    <3> QED BY <2>1, <3>3
  <2> QED BY <2>2, <2>3
<1>2. x \in T /\ Len(s) \in Nat
  OBVIOUS
<1>3. PICK f \in [0..Len(s) -> T] : f[0] = x /\ \A k \in 1..Len(s) : f[k] = F[f[k - 1]]
  <2> HIDE DEF T, F, x
  <2>1. Runs(T, x, F, Len(s)) # {}
    BY <1>1, <1>2, Iteration
  <2> QED BY <2>1 DEF Runs
<1>4. \A k \in 1..Len(s) : f[k].at = f[k - 1].at + 1 /\ f[k].fresh = More(f[k - 1])
  <2> SUFFICES ASSUME NEW k \in 1..Len(s)
               PROVE  f[k].at = f[k - 1].at + 1 /\ f[k].fresh = More(f[k - 1])
    OBVIOUS
  <2>1. k - 1 \in 0..Len(s)
    BY <1>2
  <2> HIDE DEF T, More
  <2>2. f[k - 1] \in T
    BY <1>3, <2>1
  <2>3. f[k] = [at |-> f[k - 1].at + 1, fresh |-> More(f[k - 1])]
    BY <1>3, <2>2
  <2> QED BY <2>3
<1>5. \A k \in 0..Len(s) : f[k].at = k
  <2> DEFINE bad == {k \in 0..Len(s) : f[k].at # k}
  <2> SUFFICES ASSUME bad # {} PROVE FALSE
    OBVIOUS
  <2>1. bad \in SUBSET Nat
    OBVIOUS
  <2>2. PICK k \in bad : \A j \in bad : k <= j
    <3> HIDE DEF bad
    <3> QED BY <2>1, LeastNatural
  <2>3. k \in 0..Len(s) /\ f[k].at # k
    BY <2>2
  <2>4. k # 0
    BY <1>3, <2>3
  <2>5. k \in 1..Len(s) /\ k - 1 \in 0..Len(s) /\ ~ (k <= k - 1)
    BY <1>2, <2>3, <2>4
  <2>6. k - 1 \notin bad
    <3> HIDE DEF bad
    <3> QED BY <2>2, <2>5
  <2>7. f[k - 1].at = k - 1
    BY <2>5, <2>6
  <2>8. f[k].at = f[k - 1].at + 1
    <3> HIDE DEF More
    <3> QED BY <1>4, <2>5
  <2> QED BY <2>3, <2>5, <2>7, <2>8
<1> DEFINE g == [k \in 0..Len(s) |-> f[k].fresh]
<1>6. \A k \in 0..Len(s) : g[k] = FreshStep(g, m, s, k)
  <2> SUFFICES ASSUME NEW k \in 0..Len(s) PROVE g[k] = FreshStep(g, m, s, k)
    OBVIOUS
  <2>1. CASE k = 0
    BY <1>3, <2>1 DEF FreshStep
  <2>2. CASE k # 0
    <3>1. k \in 1..Len(s) /\ k - 1 \in 0..Len(s) /\ (k - 1) + 1 = k /\ ~ (k > Len(s))
      BY <1>2, <2>2
    <3>2. g[k] = More(f[k - 1]) /\ g[k - 1] = f[k - 1].fresh /\ f[k - 1].at = k - 1
      <4>1. f[k].fresh = More(f[k - 1])
        <5> HIDE DEF More
        <5> QED BY <1>4, <3>1
      <4> HIDE DEF More
      <4> QED BY <1>5, <3>1, <4>1
    <3>3. More(f[k - 1]) = IF Expired(m, s[k]) THEN f[k - 1].fresh ELSE Append(f[k - 1].fresh, s[k])
      BY <3>1, <3>2
    <3> HIDE DEF More, g
    <3> QED BY <2>2, <3>2, <3>3 DEF FreshStep
  <2> QED BY <2>1, <2>2
<1>7. Solves(g)
  <2> DEFINE h == [k \in 0..Len(s) |-> FreshStep(g, m, s, k)]
  <2>1. \A k \in 0..Len(s) : g[k] = h[k]
    BY <1>6
  <2>2. g = [k \in 0..Len(s) |-> g[k]] /\ h = [k \in 0..Len(s) |-> h[k]]
    OBVIOUS
  <2> HIDE DEF g, h
  <2>3. g = h
    BY <2>1, <2>2
  <2> QED BY <2>3 DEF h
<1> HIDE DEF Solves
<1>8. Solves(CHOOSE h : Solves(h))
  BY <1>7
<1>9. Solves(FreshWalk(m, s))
  BY <1>8 DEF FreshWalk, Solves
<1> DEFINE f0 == FreshWalk(m, s)
<1>10. f0 = [k \in 0..Len(s) |-> FreshStep(f0, m, s, k)]
  BY <1>9 DEF Solves
<1> HIDE DEF f0
<1>11. \A k \in 0..Len(s) : f0[k] = FreshStep(f0, m, s, k)
  BY <1>10
<1> QED BY <1>11 DEF f0

\* f are those of the first k of s that are not old, at the places q.
Picked(m, s, k, f, q) ==
  /\ f \in Seq(Items) /\ Len(q) = Len(f)
  /\ \A j \in 1..Len(f) : q[j] \in 1..k /\ f[j] = s[q[j]] /\ ~ Expired(m, s[q[j]])
  /\ \A i, j \in 1..Len(f) : i < j => q[i] < q[j]
  /\ \A r \in 1..k : Expired(m, s[r]) \/ \E j \in 1..Len(f) : q[j] = r

LEMMA FreshIs ==
  ASSUME NEW m, NEW s \in Seq(Items)
  PROVE  \E q \in Seq(Nat) : Picked(m, s, Len(s), Fresh(m, s), q)
<1> DEFINE f == FreshWalk(m, s)
           Good(k) == \E q \in Seq(Nat) : Picked(m, s, k, f[k], q)
<1>1. \A k \in 0..Len(s) : f[k] = FreshStep(f, m, s, k)
  BY FreshIsSolution
<1> HIDE DEF f
<1>2. Good(0)
  <2>1. f[0] = <<>>
    BY <1>1 DEF FreshStep
  <2>2. Picked(m, s, 0, f[0], <<>>)
    BY <2>1 DEF Picked
  <2>3. <<>> \in Seq(Nat)
    OBVIOUS
  <2> QED BY <2>2, <2>3
<1>3. ASSUME NEW k \in 1..Len(s), Good(k - 1) PROVE Good(k)
  <2>1. PICK q \in Seq(Nat) : Picked(m, s, k - 1, f[k - 1], q)
    BY <1>3
  <2> DEFINE g == f[k - 1]
  <2>2. f[k] = IF Expired(m, s[k]) THEN g ELSE Append(g, s[k])
    BY <1>1 DEF FreshStep
  <2>3. /\ g \in Seq(Items) /\ Len(q) = Len(g) /\ Len(g) \in Nat
        /\ \A j \in 1..Len(g) : q[j] \in 1..(k - 1) /\ g[j] = s[q[j]] /\ ~ Expired(m, s[q[j]])
        /\ \A i, j \in 1..Len(g) : i < j => q[i] < q[j]
        /\ \A r \in 1..(k - 1) : Expired(m, s[r]) \/ \E j \in 1..Len(g) : q[j] = r
    BY <2>1 DEF Picked
  <2>4. /\ k \in Nat /\ s[k] \in Items /\ k \in 1..k
        /\ \A r \in 1..k : r = k \/ r \in 1..(k - 1)
        /\ \A r \in 1..(k - 1) : r \in 1..k /\ r < k
    OBVIOUS
  <2> HIDE DEF g
  <2>5. CASE Expired(m, s[k])
    <3>1. f[k] = g
      BY <2>2, <2>5
    <3>2. Picked(m, s, k, g, q)
      BY <2>3, <2>4, <2>5 DEF Picked
    <3> QED BY <3>1, <3>2
  <2>6. CASE ~ Expired(m, s[k])
    <3> DEFINE g2 == Append(g, s[k])
               q2 == Append(q, k)
    <3>1. f[k] = g2
      BY <2>2, <2>6
    <3>2. /\ g2 \in Seq(Items) /\ Len(g2) = Len(g) + 1 /\ g2[Len(g) + 1] = s[k]
          /\ \A j \in 1..Len(g) : g2[j] = g[j] /\ j \in 1..Len(g2) /\ j < Len(g) + 1
          /\ q2 \in Seq(Nat) /\ Len(q2) = Len(g) + 1 /\ q2[Len(g) + 1] = k
          /\ \A j \in 1..Len(g) : q2[j] = q[j]
          /\ Len(g) + 1 \in 1..Len(g2)
          /\ \A j \in 1..Len(g2) : j \in 1..Len(g) \/ j = Len(g) + 1
      BY <2>3, <2>4
    <3> HIDE DEF g2, q2
    <3>3. \A j \in 1..Len(g2) : q2[j] \in 1..k /\ g2[j] = s[q2[j]] /\ ~ Expired(m, s[q2[j]])
      BY <2>3, <2>4, <2>6, <3>2
    <3>4. \A i, j \in 1..Len(g2) : i < j => q2[i] < q2[j]
      <4> SUFFICES ASSUME NEW i \in 1..Len(g2), NEW j \in 1..Len(g2), i < j PROVE q2[i] < q2[j]
        OBVIOUS
      <4>1. i \in 1..Len(g)
        BY <2>3, <3>2
      <4> QED BY <2>3, <2>4, <3>2, <4>1
    <3>5. \A r \in 1..k : Expired(m, s[r]) \/ \E j \in 1..Len(g2) : q2[j] = r
      BY <2>3, <2>4, <3>2
    <3>6. Picked(m, s, k, g2, q2)
      BY <3>2, <3>3, <3>4, <3>5 DEF Picked
    <3> QED BY <3>1, <3>2, <3>6
  <2> QED BY <2>5, <2>6
<1> HIDE DEF Good
<1>4. Good(Len(s))
  <2> DEFINE bad == {k \in 0..Len(s) : ~ Good(k)}
  <2>0. Len(s) \in Nat
    OBVIOUS
  <2> SUFFICES ASSUME bad # {} PROVE FALSE
    BY <2>0
  <2>1. bad \in SUBSET Nat
    OBVIOUS
  <2>2. PICK k \in bad : \A j \in bad : k <= j
    <3> HIDE DEF bad
    <3> QED BY <2>1, LeastNatural
  <2>3. k \in 1..Len(s) /\ ~ Good(k) /\ k - 1 \in 0..Len(s) /\ ~ (k <= k - 1)
    <3>1. k \in 0..Len(s) /\ ~ Good(k)
      BY <2>2
    <3>2. k # 0
      BY <1>2, <3>1
    <3> QED BY <2>0, <3>1, <3>2
  <2>4. Good(k - 1)
    <3>1. k - 1 \notin bad
      <4> HIDE DEF bad
      <4> QED BY <2>2, <2>3
    <3> QED BY <2>3, <3>1
  <2> QED BY <1>3, <2>3, <2>4
<1> QED BY <1>4, FreshIsWalk DEF Good, f

\* The walk c is at item k0 of l after r0 steps, and goes on along l.
GoesAlong(c, l, r0, k0) ==
  \A r \in 1..Len(c) : r >= r0 => k0 + (r - r0) \in 1..Len(l) /\ c[r] = l[k0 + (r - r0)]

\* A walk that is at an item of the list goes on along it.
LEMMA Along ==
  ASSUME NEW m, NEW l, Shape(m, l), NEW i, NEW n \in Nat \ {0}, NEW c, IsChain(m, i, n, c),
         NEW r0 \in 1..Len(c), NEW k0 \in 1..Len(l), c[r0] = l[k0]
  PROVE  GoesAlong(c, l, r0, k0)
<1>1. /\ c \in Seq(Items) /\ Len(c) \in Nat /\ l \in Seq(Items)
      /\ Len(l) \in Nat /\ None \notin Items
      /\ r0 \in Nat /\ k0 \in Nat
  BY Constants DEF IsChain, Shape, IsList
<1> DEFINE Good(r) == k0 + (r - r0) \in 1..Len(l) /\ c[r] = l[k0 + (r - r0)]
           bad == {r \in 1..Len(c) : r >= r0 /\ ~ Good(r)}
<1> SUFFICES ASSUME bad # {} PROVE FALSE
  BY DEF GoesAlong
<1>2. bad \in SUBSET Nat
  OBVIOUS
<1>3. PICK r \in bad : \A j \in bad : r <= j
  <2> HIDE DEF bad
  <2> QED BY <1>2, LeastNatural
<1>4. r \in 1..Len(c) /\ r >= r0 /\ ~ Good(r)
  BY <1>3
<1>5. r # r0
  <2>1. k0 + (r0 - r0) = k0
    BY <1>1
  <2> QED BY <1>4, <2>1
<1>6. r - 1 \in 1..Len(c) /\ r - 1 >= r0 /\ ~ (r <= r - 1) /\ (r - 1) + 1 = r /\ r - 1 < Len(c)
  <2>1. r \in Nat /\ r <= Len(c) /\ r > r0 /\ r0 >= 1
    BY <1>1, <1>4, <1>5
  <2> HIDE DEF bad, Good
  <2> QED BY <1>1, <2>1
<1>7. r - 1 \notin bad
  <2> HIDE DEF bad
  <2> QED BY <1>3, <1>6
<1>8. Good(r - 1)
  <2> HIDE DEF Good
  <2> QED BY <1>6, <1>7
<1> DEFINE k == k0 + ((r - 1) - r0)
<1>9. k \in 1..Len(l) /\ c[r - 1] = l[k] /\ k + 1 = k0 + (r - r0)
  BY <1>1, <1>4, <1>8
<1> HIDE DEF k
<1>10. c[r] = m.next[c[r - 1]] /\ c[r] \in Items
  <2>1. c[(r - 1) + 1] = m.next[c[r - 1]]
    BY <1>6 DEF IsChain
  <2>2. c[r] \in Items
    BY <1>1, <1>4
  <2> QED BY <1>6, <2>1, <2>2
<1>11. m.next[l[k]] = IF k = Len(l) THEN None ELSE l[k + 1]
  BY <1>9 DEF Shape, IsList
<1>12. k # Len(l) /\ c[r] = l[k + 1]
  BY <1>1, <1>9, <1>10, <1>11
<1>13. k + 1 \in 1..Len(l)
  BY <1>1, <1>9, <1>12
<1> QED BY <1>4, <1>9, <1>12, <1>13

\* The number of the last message a player has.
LastOf(p, g) == IF Len(g) = 0 THEN 0 ELSE p[Len(g)]

\* What follows from Follows, with the number of the last message.
Followed(m, l, a, p, g, c) ==
  /\ LastOf(p, g) \in 0..Len(a) /\ (Len(g) # 0 => LastOf(p, g) \in 1..Len(a))
  /\ \A k \in 1..Len(g) : p[k] \in 1..Len(a) /\ a[p[k]][1] = g[k] /\ p[k] <= LastOf(p, g)
  /\ \A j, k \in 1..Len(g) : j < k => p[j] < p[k]
  /\ \A k \in 1..Len(l) : (Len(a) - Len(l)) + k <= LastOf(p, g)
       => Expired(m, l[k]) \/ \E j \in 1..Len(g) : p[j] = (Len(a) - Len(l)) + k
  /\ c.item = None <=> Len(g) = 0
  /\ Len(g) # 0 => c.time = a[LastOf(p, g)][2] /\ a[LastOf(p, g)][2] \in Nat
  /\ LastOf(p, g) > Len(a) - Len(l) => /\ LastOf(p, g) - (Len(a) - Len(l)) \in 1..Len(l)
                                       /\ c.item = l[LastOf(p, g) - (Len(a) - Len(l))]
                                       /\ c.time = m.time[c.item]

LEMMA FollowsFacts ==
  ASSUME NEW m, NEW l, NEW a \in Seq(Messages \X Nat), Shape(m, l), Latest(m, l, a),
         NEW g, Len(g) \in Nat, NEW p, NEW c, Follows(m, l, a, p, g, c)
  PROVE  Followed(m, l, a, p, g, c)
<1>1. l \in Seq(Items) /\ Len(l) \in Nat /\ Len(a) \in Nat /\ Len(l) <= Len(a)
  BY DEF Shape, IsList, Latest
<1> DEFINE n == Len(a) - Len(l)
           u == LastOf(p, g)
<1>2. /\ \A k \in 1..Len(g) : p[k] \in 1..Len(a) /\ a[p[k]][1] = g[k]
      /\ \A j, k \in 1..Len(g) : j < k => p[j] < p[k]
      /\ \A k \in 1..Len(l) : n + k <= u => Expired(m, l[k]) \/ \E j \in 1..Len(g) : p[j] = n + k
      /\ c.item = None <=> Len(g) = 0
      /\ Len(g) # 0 => c.time = a[u][2] /\ (u > n => c.item = l[u - n])
  BY DEF Follows, LastOf
<1>3. Len(g) # 0 => Len(g) \in 1..Len(g)
  OBVIOUS
<1>4. u \in 0..Len(a) /\ (Len(g) # 0 => u \in 1..Len(a)) /\ (Len(g) = 0 => u = 0)
  BY <1>1, <1>2, <1>3 DEF LastOf
<1>5. \A k \in 1..Len(g) : p[k] <= u
  <2> SUFFICES ASSUME NEW k \in 1..Len(g) PROVE p[k] <= u
    OBVIOUS
  <2>1. Len(g) # 0 /\ u = p[Len(g)]
    BY DEF LastOf
  <2>2. CASE k = Len(g)
    BY <1>2, <2>1, <2>2
  <2>3. CASE k # Len(g)
    <3>1. k < Len(g)
      BY <2>3
    <3>2. p[k] < p[Len(g)] /\ p[k] \in 1..Len(a) /\ p[Len(g)] \in 1..Len(a)
      BY <1>2, <1>3, <2>1, <3>1
    <3> HIDE DEF u
    <3> QED BY <1>1, <2>1, <3>2
  <2> QED BY <2>2, <2>3
<1> HIDE DEF u
<1>6. Len(g) # 0 => a[u][2] \in Nat
  BY <1>4, ListTimes DEF AtTheEnd
<1>7. ASSUME u > n PROVE u - n \in 1..Len(l) /\ c.item = l[u - n] /\ c.time = m.time[c.item]
  <2>1. \A A, L, v \in Nat : L <= A /\ v <= A /\ v > A - L
          => v - (A - L) \in 1..L /\ (A - L) + (v - (A - L)) = v /\ v # 0
    OBVIOUS
  <2>2. u - n \in 1..Len(l) /\ n + (u - n) = u /\ u # 0
    BY <1>1, <1>4, <1>7, <2>1
  <2>3. Len(g) # 0
    BY <1>4, <2>2
  <2>4. \A k \in 1..Len(l) : m.time[l[k]] = a[n + k][2]
    BY ListTimes DEF AtTheEnd
  <2> HIDE DEF n
  <2> QED BY <1>2, <1>7, <2>2, <2>3, <2>4
<1> QED BY <1>2, <1>4, <1>5, <1>6, <1>7 DEF u, Followed

\* What Astray says of the list l, the messages g and what is seen from item i on.
Strays(m, l, g, i, seen) ==
  IF i \in ToSet(l) THEN m.msg[i] \notin ToSet(g)
  ELSE \E k \in DOMAIN seen : /\ seen[k] \in ToSet(l) /\ seen[k] # Head(l)
                              /\ \A j \in 1..(k - 1) : seen[j] \notin ToSet(l)

\* What is seen: old items of the pool, and items of the list from behind the last that the
\* player has read.
SeenFrom(m, l, a, u, seen, d, s) ==
  /\ \A r \in 1..d : Expired(m, seen[r])
  /\ \A r \in 1..Len(seen) : r > d => s + (r - d) \in 1..Len(l) /\ seen[r] = l[s + (r - d)]
  /\ (Len(a) - Len(l)) + s >= u /\ (s = 0 \/ (Len(a) - Len(l)) + s = u)

LEMMA SeenIs ==
  ASSUME NEW m, NEW l, NEW a \in Seq(Messages \X Nat), Shape(m, l), Latest(m, l, a), Used(m, l),
         \A j, k \in 1..Len(a) : a[j][1] = a[k][1] => j = k,
         NEW g \in Seq(Messages \cup {None}), NEW p, NEW c, c.item \in Items \cup {None},
         Follows(m, l, a, p, g, c),
         NEW seen, seen = Chain(m, Start(m, c), SendMax),
         ~ (c.item # None /\ m.time[c.item] = c.time /\ Strays(m, l, g, c.item, seen))
  PROVE  /\ seen \in Seq(Items)
         /\ \E d \in 0..Len(seen), s \in 0..Len(l) :
              SeenFrom(m, l, a, LastOf(p, g), seen, d, s)
<1> DEFINE n == Len(a) - Len(l)
           u == LastOf(p, g)
<1>1. /\ l \in Seq(Items) /\ Len(l) \in Nat /\ Len(a) \in Nat /\ Len(l) <= Len(a)
      /\ Len(g) \in Nat /\ None \notin Items /\ None \notin Nat /\ SendMax \in Nat \ {0}
      /\ m.next \in [Items -> Items \cup {None}] /\ m.head \in Items \cup {None}
      /\ \A k \in 1..Len(l) : l[k] \in Items
  <2>1. l \in Seq(Items) /\ Len(l) <= Len(a) /\ m \in Mgrs
    BY DEF Shape, IsList, Latest
  <2>2. /\ Len(l) \in Nat /\ Len(a) \in Nat /\ Len(g) \in Nat
        /\ \A k \in 1..Len(l) : l[k] \in Items
    BY <2>1
  <2>3. m.next \in [Items -> Items \cup {None}] /\ m.head \in Items \cup {None}
    BY <2>1 DEF Mgrs
  <2> QED BY <2>1, <2>2, <2>3, Constants
<1>2. /\ u \in 0..Len(a) /\ (Len(g) # 0 => u \in 1..Len(a))
      /\ \A k \in 1..Len(g) : p[k] \in 1..Len(a) /\ a[p[k]][1] = g[k] /\ p[k] <= u
      /\ c.item = None <=> Len(g) = 0
      /\ Len(g) # 0 => c.time = a[u][2] /\ a[u][2] \in Nat
      /\ u > n => u - n \in 1..Len(l) /\ c.item = l[u - n] /\ c.time = m.time[c.item]
  BY <1>1, FollowsFacts DEF Followed
<1> HIDE DEF u
<1>3. n \in Nat /\ u \in Nat
  BY <1>1, <1>2
<1> HIDE DEF n
<1> DEFINE st == Start(m, c)
<1>4. st \in Items \cup {None}
  BY <1>1 DEF Start
<1> HIDE DEF st
<1>5. IsChain(m, st, SendMax, seen)
  <2>1. Links(m)
    BY <1>1 DEF Links
  <2> QED BY <1>1, <1>4, <2>1, ChainIs DEF st
<1>6. /\ seen \in Seq(Items) /\ Len(seen) \in Nat /\ (Len(seen) # 0 => st # None /\ seen[1] = st)
      /\ \A k \in 1..Len(seen) : seen[k] \in Items
  <2>1. seen \in Seq(Items) /\ (st = None <=> Len(seen) = 0) /\ (st # None => seen[1] = st)
    BY <1>5 DEF IsChain
  <2> QED BY <2>1
\* The list is seen from item k0 on.
<1>7. ASSUME NEW d \in 0..Len(seen), NEW k0 \in 1..Len(l), d < Len(seen) => seen[d + 1] = l[k0],
             NEW r \in 1..Len(seen), r > d
      PROVE  (k0 - 1) + (r - d) \in 1..Len(l) /\ seen[r] = l[(k0 - 1) + (r - d)]
  <2>1. d + 1 \in 1..Len(seen) /\ r >= d + 1 /\ seen[d + 1] = l[k0]
    BY <1>6, <1>7
  <2>2. k0 + (r - (d + 1)) \in 1..Len(l) /\ seen[r] = l[k0 + (r - (d + 1))]
    <3>1. PICK r0 \in 1..Len(seen) : r0 = d + 1
      BY <2>1
    <3>2. seen[r0] = l[k0]
      BY <2>1, <3>1
    <3>3. GoesAlong(seen, l, r0, k0)
      <4>1. SendMax \in Nat \ {0}
        BY <1>1
      <4> QED BY <1>5, <3>2, <4>1, Along
    <3> QED BY <2>1, <3>1, <3>3 DEF GoesAlong
  <2>3. k0 + (r - (d + 1)) = (k0 - 1) + (r - d)
    OBVIOUS
  <2> QED BY <2>2, <2>3
<1>8. CASE c.item = None \/ (c.item # None /\ m.time[c.item] # c.time)
  <2>1. st = m.head
    BY <1>8 DEF Start, st
  <2>2. ~ (u > n)
    <3> SUFFICES ASSUME u > n PROVE FALSE
      OBVIOUS
    <3>1. c.item = l[u - n] /\ c.item \in Items /\ c.time = m.time[c.item]
      BY <1>1, <1>2
    <3> QED BY <1>1, <1>8, <3>1
  <2>3. ASSUME NEW r \in 1..Len(seen) PROVE 0 + (r - 0) \in 1..Len(l) /\ seen[r] = l[0 + (r - 0)]
    <3>1. Len(seen) # 0 /\ 0 < Len(seen) /\ r > 0 /\ 0 \in 0..Len(seen) /\ 0 + 1 = 1 /\ 1 - 1 = 0
      BY <1>6
    <3>2. seen[1] = m.head /\ m.head # None
      BY <1>6, <2>1, <3>1
    <3>3. Len(l) # 0 /\ m.head = l[1]
      BY <3>2 DEF Shape, IsList
    <3>4. 1 \in 1..Len(l)
      BY <1>1, <3>3
    <3>5. (1 - 1) + (r - 0) \in 1..Len(l) /\ seen[r] = l[(1 - 1) + (r - 0)]
      BY <1>7, <3>1, <3>2, <3>3, <3>4
    <3> QED BY <3>1, <3>5
  <2>4. SeenFrom(m, l, a, u, seen, 0, 0)
    <3>1. n + 0 >= u
      BY <1>3, <2>2
    <3> QED BY <2>3, <3>1 DEF SeenFrom, n
  <2>5. 0 \in 0..Len(seen) /\ 0 \in 0..Len(l)
    BY <1>1, <1>6
  <2> QED BY <1>6, <2>4, <2>5 DEF u
<1>9. CASE c.item # None /\ m.time[c.item] = c.time /\ c.item \in ToSet(l)
  <2>1. PICK k \in 1..Len(l) : c.item = l[k]
    <3>1. c.item \in ToSet(l) /\ DOMAIN l = 1..Len(l)
      BY <1>1, <1>9
    <3> QED BY <3>1 DEF ToSet
  <2>2. PICK j \in 1..Len(g) : g[j] = m.msg[l[k]]
    <3>1. m.msg[c.item] \in ToSet(g)
      BY <1>9 DEF Strays
    <3>2. DOMAIN g = 1..Len(g)
      OBVIOUS
    <3> QED BY <2>1, <3>1, <3>2 DEF ToSet
  <2>3. n + k \in 1..Len(a) /\ m.msg[l[k]] = a[n + k][1]
    <3>1. \A i \in 1..Len(l) : n + i \in 1..Len(a) /\ m.msg[l[i]] = a[n + i][1]
      BY ListTimes DEF n, AtTheEnd
    <3> QED BY <3>1
  <2>4. p[j] = n + k /\ p[j] <= u
    BY <1>2, <2>2, <2>3
  <2>5. u > n
    BY <1>3, <2>4
  <2>6. k = u - n
    <3>1. l[k] = l[u - n] /\ u - n \in 1..Len(l)
      BY <1>2, <2>1, <2>5
    <3> QED BY <3>1 DEF Shape, IsList
  <2>7. n + k = u /\ k \in 0..Len(l)
    BY <1>3, <2>6
  <2>8. st = m.next[l[k]] /\ m.next[l[k]] = IF k = Len(l) THEN None ELSE l[k + 1]
    <3>1. st = m.next[l[k]]
      BY <1>9, <2>1 DEF Start, st
    <3> QED BY <3>1 DEF Shape, IsList
  <2>9. ASSUME NEW r \in 1..Len(seen) PROVE k + (r - 0) \in 1..Len(l) /\ seen[r] = l[k + (r - 0)]
    <3>1. /\ Len(seen) # 0 /\ 0 < Len(seen) /\ r > 0 /\ 0 \in 0..Len(seen)
          /\ 0 + 1 = 1 /\ (k + 1) - 1 = k
      BY <1>6
    <3>2. k # Len(l) /\ seen[1] = l[k + 1]
      BY <1>6, <2>8, <3>1
    <3>3. PICK k0 \in 1..Len(l) : k0 = k + 1
      BY <1>1, <3>2
    <3>4. (k0 - 1) + (r - 0) \in 1..Len(l) /\ seen[r] = l[(k0 - 1) + (r - 0)]
      <4>1. seen[1] = l[k0] /\ 0 \in 0..Len(seen) /\ r > 0 /\ seen[0 + 1] = l[k0]
        BY <3>1, <3>2, <3>3
      <4>2. 0 < Len(seen)
        BY <3>1
      <4> QED BY ONLY <1>7, <3>3, <4>1, <4>2
    <3> QED BY <3>1, <3>3, <3>4
  <2>10. SeenFrom(m, l, a, u, seen, 0, k)
    <3>1. n + k >= u
      BY <1>3, <2>7
    <3> QED BY <2>7, <2>9, <3>1 DEF SeenFrom, n
  <2>11. 0 \in 0..Len(seen)
    BY <1>6
  <2> QED BY <1>6, <2>7, <2>10, <2>11 DEF u
<1>10. CASE c.item # None /\ m.time[c.item] = c.time /\ c.item \notin ToSet(l)
  <2>1. ~ (u > n)
    <3> SUFFICES ASSUME u > n PROVE FALSE
      OBVIOUS
    <3>1. u - n \in 1..Len(l) /\ c.item = l[u - n]
      BY <1>2
    <3>2. c.item \in ToSet(l)
      BY <1>1, <3>1 DEF ToSet
    <3> QED BY <1>10, <3>2
  <2>2. c.item \in Items /\ m.time[c.item] # None
    BY <1>1, <1>2, <1>10
  <2>3. st = m.next[c.item]
    BY <1>10 DEF Start, st
  \* The items seen have had messages.
  <2>4. \A r \in 1..Len(seen) : m.time[seen[r]] # None
    <3> DEFINE bad == {r \in 1..Len(seen) : m.time[seen[r]] = None}
    <3> SUFFICES ASSUME bad # {} PROVE FALSE
      OBVIOUS
    <3>1. bad \in SUBSET Nat
      OBVIOUS
    <3>2. PICK r \in bad : \A j \in bad : r <= j
      <4> HIDE DEF bad
      <4> QED BY <3>1, LeastNatural
    <3>3. r \in 1..Len(seen) /\ m.time[seen[r]] = None
      BY <3>2
    <3>4. r # 1
      <4>1. Len(seen) # 0
        BY <1>6, <3>3
      <4>2. m.time[st] # None
        BY <1>6, <2>2, <2>3, <4>1 DEF Used
      <4> QED BY <1>6, <3>3, <4>1, <4>2
    <3>5. r - 1 \in 1..Len(seen) /\ ~ (r <= r - 1) /\ (r - 1) + 1 = r /\ r - 1 < Len(seen)
      BY <1>6, <3>3, <3>4
    <3>6. r - 1 \notin bad
      <4> HIDE DEF bad
      <4> QED BY <3>2, <3>5
    <3>7. m.time[seen[r - 1]] # None
      BY <3>5, <3>6
    <3>8. seen[r] = m.next[seen[r - 1]]
      <4>1. seen[(r - 1) + 1] = m.next[seen[r - 1]]
        BY <1>5, <3>5 DEF IsChain
      <4> QED BY <3>5, <4>1
    <3>9. seen[r] \in Items /\ seen[r - 1] \in Items
      BY <1>6, <3>3, <3>5
    <3> QED BY <1>1, <3>3, <3>7, <3>8, <3>9 DEF Used
  <2> DEFINE in == {r \in 1..Len(seen) : seen[r] \in ToSet(l)}
  <2>5. \A r \in 1..Len(seen) : r \notin in => Expired(m, seen[r])
    <3> SUFFICES ASSUME NEW r \in 1..Len(seen), r \notin in PROVE Expired(m, seen[r])
      OBVIOUS
    <3>1. \A k \in 1..Len(l) : l[k] # seen[r]
      <4>1. \A k \in 1..Len(l) : l[k] \in ToSet(l)
        BY <1>1 DEF ToSet
      <4> QED BY <4>1
    <3> QED BY <1>6, <2>4, <3>1 DEF Used
  <2>6. n + 0 >= u /\ 0 \in 0..Len(l)
    BY <1>1, <1>3, <2>1
  <2>7. CASE in = {}
    <3>1. \A r \in 1..Len(seen) : Expired(m, seen[r]) /\ ~ (r > Len(seen))
      BY <1>6, <2>5, <2>7
    <3>2. SeenFrom(m, l, a, u, seen, Len(seen), 0)
      BY <2>6, <3>1 DEF SeenFrom, n
    <3>3. Len(seen) \in 0..Len(seen)
      BY <1>6
    <3> QED BY <1>6, <2>6, <3>2, <3>3 DEF u
  <2>8. CASE in # {}
    <3>1. in \in SUBSET Nat
      OBVIOUS
    <3>2. PICK f \in in : \A j \in in : f <= j
      <4> HIDE DEF in
      <4> QED BY <2>8, <3>1, LeastNatural
    <3>3. f \in 1..Len(seen) /\ seen[f] \in ToSet(l)
      BY <3>2
    <3>4. \A r \in 1..(f - 1) : r \in 1..Len(seen) /\ r \notin in
      <4> HIDE DEF in
      <4>1. \A r \in 1..(f - 1) : r \in 1..Len(seen) /\ ~ (f <= r)
        BY <3>3
      <4> QED BY <3>2, <4>1
    <3>5. seen[f] = l[1] /\ 1 \in 1..Len(l)
      <4>1. \A r \in 1..(f - 1) : seen[r] \notin ToSet(l)
        BY <3>4
      <4>2. f \in DOMAIN seen
        BY <1>6, <3>3
      <4> HIDE DEF in
      <4>3. seen[f] = Head(l)
        BY <1>10, <3>3, <4>1, <4>2 DEF Strays
      <4>4. Len(l) # 0
        BY <1>1, <3>3 DEF ToSet
      <4> QED BY <1>1, <4>3, <4>4
    <3> DEFINE d == f - 1
    <3>6. d \in 0..Len(seen) /\ d + 1 = f /\ 1 - 1 = 0
      BY <1>6, <3>3
    <3>7. \A r \in 1..d : Expired(m, seen[r])
      <4> HIDE DEF in
      <4> QED BY <2>5, <3>4
    <3> HIDE DEF d, in
    <3>8. ASSUME NEW r \in 1..Len(seen), r > d
          PROVE  0 + (r - d) \in 1..Len(l) /\ seen[r] = l[0 + (r - d)]
      <4>1. (1 - 1) + (r - d) \in 1..Len(l) /\ seen[r] = l[(1 - 1) + (r - d)]
        BY <1>7, <3>5, <3>6, <3>8
      <4> QED BY <3>6, <4>1
    <3>9. SeenFrom(m, l, a, u, seen, d, 0)
      BY <2>6, <3>7, <3>8 DEF SeenFrom, n
    <3> QED BY <1>6, <2>6, <3>6, <3>9 DEF u
  <2> QED BY <2>7, <2>8
<1> QED BY <1>8, <1>9, <1>10

\* The first Len(g) values of p and q.
SameNumbers(g, p, q) == \A k \in 1..Len(g) : p[k] = q[k]

\* Numbers of messages are found again.
LEMMA PositionsAre ==
  ASSUME NEW a, Len(a) \in Nat, DOMAIN a = 1..Len(a), NEW g, Len(g) \in Nat,
         \A j, k \in 1..Len(a) : a[j][1] = a[k][1] => j = k,
         NEW p, \A k \in 1..Len(g) : p[k] \in 1..Len(a) /\ a[p[k]][1] = g[k]
  PROVE  SameNumbers(g, Positions(a, g), p)
<1> SUFFICES ASSUME NEW k \in 1..Len(g) PROVE Positions(a, g)[k] = p[k]
  BY DEF SameNumbers
<1> DEFINE P(i) == i \in DOMAIN a /\ a[i][1] = g[k]
<1>1. P(p[k])
  OBVIOUS
<1>2. Position(a, g[k]) = CHOOSE i : P(i)
  BY DEF Position
<1>3. P(CHOOSE i : P(i))
  BY <1>1
<1>4. Position(a, g[k]) = p[k]
  BY <1>1, <1>2, <1>3
<1> QED BY <1>4 DEF Positions

\* Follows looks at the numbers of the messages only.
LEMMA FollowsSame ==
  ASSUME NEW m, NEW l, NEW a, NEW g, NEW c, NEW p, Len(g) \in Nat,
         NEW q, SameNumbers(g, q, p), Follows(m, l, a, p, g, c)
  PROVE  Follows(m, l, a, q, g, c)
<1>0. \A k \in 1..Len(g) : q[k] = p[k]
  BY DEF SameNumbers
<1> DEFINE n == Len(a) - Len(l)
           u == IF Len(g) = 0 THEN 0 ELSE p[Len(g)]
           v == IF Len(g) = 0 THEN 0 ELSE q[Len(g)]
<1>1. u = v
  <2>1. Len(g) # 0 => Len(g) \in 1..Len(g)
    OBVIOUS
  <2> QED BY <1>0, <2>1
<1>2. /\ \A k \in 1..Len(g) : p[k] \in 1..Len(a) /\ a[p[k]][1] = g[k]
      /\ \A j, k \in 1..Len(g) : j < k => p[j] < p[k]
      /\ \A k \in 1..Len(l) : n + k <= u => Expired(m, l[k]) \/ \E j \in 1..Len(g) : p[j] = n + k
      /\ c.item = None <=> Len(g) = 0
      /\ Len(g) # 0 => c.time = a[u][2] /\ (u > n => c.item = l[u - n])
  BY DEF Follows
<1> HIDE DEF u, n
<1>3. /\ \A k \in 1..Len(g) : q[k] \in 1..Len(a) /\ a[q[k]][1] = g[k]
      /\ \A j, k \in 1..Len(g) : j < k => q[j] < q[k]
      /\ \A k \in 1..Len(l) : n + k <= u => Expired(m, l[k]) \/ \E j \in 1..Len(g) : q[j] = n + k
  <2>1. ASSUME NEW k \in 1..Len(g) PROVE q[k] \in 1..Len(a) /\ a[q[k]][1] = g[k]
    BY <1>0, <1>2
  <2>2. ASSUME NEW j \in 1..Len(g), NEW k \in 1..Len(g), j < k PROVE q[j] < q[k]
    BY <1>0, <1>2, <2>2
  <2>3. ASSUME NEW k \in 1..Len(l), n + k <= u
        PROVE  Expired(m, l[k]) \/ \E j \in 1..Len(g) : q[j] = n + k
    BY <1>0, <1>2, <2>3
  <2> QED BY <2>1, <2>2, <2>3
<1> HIDE DEF v
<1>4. /\ \A k \in 1..Len(l) : n + k <= v => Expired(m, l[k]) \/ \E j \in 1..Len(g) : q[j] = n + k
      /\ Len(g) # 0 => c.time = a[v][2] /\ (v > n => c.item = l[v - n])
  BY <1>1, <1>2, <1>3
<1> QED BY <1>2, <1>3, <1>4 DEF Follows, v, n

\* The messages of items.
Texts(m, f) == [k \in DOMAIN f |-> m.msg[f[k]]]

\* What GetSome finds carries the player on.
LEMMA FollowsRead ==
  ASSUME NEW m, NEW l, NEW a \in Seq(Messages \X Nat), Shape(m, l), Latest(m, l, a),
         \A j, k \in 1..Len(a) : a[j][1] = a[k][1] => j = k,
         NEW g \in Seq(Messages \cup {None}), NEW p, NEW c, Follows(m, l, a, p, g, c),
         NEW seen \in Seq(Items), NEW d \in 0..Len(seen), NEW s \in 0..Len(l),
         SeenFrom(m, l, a, LastOf(p, g), seen, d, s),
         NEW f, f = Fresh(m, seen),
         NEW g2, g2 = g \o Texts(m, f),
         NEW c2, c2 = IF f = <<>> THEN c ELSE [item |-> Last(f), time |-> m.time[Last(f)]]
  PROVE  /\ f \in Seq(Items) /\ Texts(m, f) \in Seq(Messages \cup {None})
         /\ Follows(m, l, a, Positions(a, g2), g2, c2)
<1> DEFINE items == Texts(m, f)
<1>1. PICK q \in Seq(Nat) : Picked(m, seen, Len(seen), f, q)
  BY FreshIs
<1>2. /\ f \in Seq(Items) /\ Len(f) \in Nat
      /\ \A j \in 1..Len(f) : q[j] \in 1..Len(seen) /\ f[j] = seen[q[j]] /\ ~ Expired(m, seen[q[j]])
      /\ \A i, j \in 1..Len(f) : i < j => q[i] < q[j]
      /\ \A r \in 1..Len(seen) : Expired(m, seen[r]) \/ \E j \in 1..Len(f) : q[j] = r
  BY <1>1 DEF Picked
<1>3. /\ l \in Seq(Items) /\ Len(l) \in Nat /\ Len(a) \in Nat /\ Len(l) <= Len(a)
      /\ Len(g) \in Nat /\ None \notin Items /\ DOMAIN a = 1..Len(a)
      /\ m.msg \in [Items -> Messages \cup {None}] /\ Len(seen) \in Nat
  <2>1. l \in Seq(Items) /\ Len(l) <= Len(a) /\ m \in Mgrs
    BY DEF Shape, IsList, Latest
  <2>2. m.msg \in [Items -> Messages \cup {None}]
    BY <2>1 DEF Mgrs
  <2>3. /\ Len(l) \in Nat /\ Len(a) \in Nat /\ Len(g) \in Nat /\ Len(seen) \in Nat
        /\ DOMAIN a = 1..Len(a)
    BY <2>1
  <2> QED BY <2>1, <2>2, <2>3, Constants
<1>4. /\ items \in Seq(Messages \cup {None}) /\ Len(items) = Len(f)
      /\ \A j \in 1..Len(f) : items[j] = m.msg[f[j]]
  <2>1. DOMAIN f = 1..Len(f) /\ \A j \in 1..Len(f) : f[j] \in Items
    BY <1>2
  <2>2. items \in [1..Len(f) -> Messages \cup {None}]
    BY <1>3, <2>1 DEF Texts
  <2>3. \A j \in 1..Len(f) : items[j] = m.msg[f[j]]
    BY <2>1 DEF Texts
  <2> HIDE DEF items
  <2>4. items \in Seq(Messages \cup {None}) /\ Len(items) = Len(f)
    <3>1. \A T : \A n \in Nat : \A w \in [1..n -> T] : w \in Seq(T) /\ Len(w) = n
      OBVIOUS
    <3> QED BY ONLY <1>2, <2>2, <3>1
  <2> QED BY <2>3, <2>4
<1> HIDE DEF items
<1>5. /\ Len(g2) = Len(g) + Len(f) /\ \A k \in 1..Len(g) : g2[k] = g[k]
      /\ \A j \in 1..Len(f) : g2[Len(g) + j] = m.msg[f[j]]
      /\ \A k \in 1..(Len(g) + Len(f)) :
           k \in 1..Len(g) \/ (k - Len(g) \in 1..Len(f) /\ Len(g) + (k - Len(g)) = k)
  <2>1. g2 = g \o items
    BY DEF items
  <2>2. /\ Len(g2) = Len(g) + Len(items) /\ \A k \in 1..Len(g) : g2[k] = g[k]
        /\ \A j \in 1..Len(items) : g2[Len(g) + j] = items[j]
    <3>1. g \in Seq(Messages \cup {None}) /\ items \in Seq(Messages \cup {None})
      BY <1>4
    <3>2. /\ Len(g2) = Len(g) + Len(items)
          /\ \A i \in 1..(Len(g) + Len(items)) :
               g2[i] = IF i <= Len(g) THEN g[i] ELSE items[i - Len(g)]
      <4>1. /\ Len(g \o items) = Len(g) + Len(items)
            /\ \A i \in 1..(Len(g) + Len(items)) :
                 (g \o items)[i] = IF i <= Len(g) THEN g[i] ELSE items[i - Len(g)]
        BY ONLY <3>1, ConcatProperties
      <4> QED BY <2>1, <4>1
    <3>3. /\ \A k \in 1..Len(g) : k \in 1..(Len(g) + Len(items)) /\ k <= Len(g)
          /\ \A j \in 1..Len(items) : /\ Len(g) + j \in 1..(Len(g) + Len(items))
                                      /\ ~ (Len(g) + j <= Len(g)) /\ (Len(g) + j) - Len(g) = j
      BY <1>2, <1>3, <1>4
    <3> QED BY <3>2, <3>3
  <2>3. \A k \in 1..(Len(g) + Len(f)) :
           k \in 1..Len(g) \/ (k - Len(g) \in 1..Len(f) /\ Len(g) + (k - Len(g)) = k)
    BY <1>2, <1>3
  <2> QED BY <1>4, <2>2, <2>3
<1> DEFINE n == Len(a) - Len(l)
           u == LastOf(p, g)
           place(j) == s + (q[j] - d)
           p2 == [k \in 1..(Len(g) + Len(f)) |->
                    IF k <= Len(g) THEN p[k] ELSE n + place(k - Len(g))]
<1>6. /\ u \in 0..Len(a) /\ (Len(g) # 0 => u \in 1..Len(a))
      /\ \A k \in 1..Len(g) : p[k] \in 1..Len(a) /\ a[p[k]][1] = g[k] /\ p[k] <= u
      /\ \A j, k \in 1..Len(g) : j < k => p[j] < p[k]
      /\ \A k \in 1..Len(l) : n + k <= u => Expired(m, l[k]) \/ \E j \in 1..Len(g) : p[j] = n + k
  <2>1. Followed(m, l, a, p, g, c)
    BY <1>3, FollowsFacts
  <2> HIDE DEF u
  <2> QED BY <2>1 DEF Followed, u
<1>7. /\ \A r \in 1..d : Expired(m, seen[r])
      /\ \A r \in 1..Len(seen) : r > d => s + (r - d) \in 1..Len(l) /\ seen[r] = l[s + (r - d)]
      /\ n + s >= u /\ (s = 0 \/ n + s = u)
  BY DEF SeenFrom
<1> HIDE DEF u
<1>8. \A k \in 1..Len(l) : /\ n + k \in 1..Len(a) /\ a[n + k][1] = m.msg[l[k]]
                           /\ a[n + k][2] = m.time[l[k]]
  <2>1. AtTheEnd(m, l, a)
    BY ListTimes
  <2> QED BY <2>1 DEF AtTheEnd
<1>9. n \in Nat
  BY <1>3
<1> HIDE DEF n
\* The places in the list of what is fresh.
<1>10. ASSUME NEW j \in 1..Len(f)
       PROVE  place(j) \in 1..Len(l) /\ f[j] = l[place(j)] /\ place(j) > s /\ q[j] > d
  <2>1. q[j] \in 1..Len(seen) /\ f[j] = seen[q[j]] /\ ~ Expired(m, seen[q[j]])
    BY <1>2
  <2>2. q[j] \notin 1..d
    BY <1>7, <2>1
  <2>3. q[j] > d
    BY <2>1, <2>2
  <2>4. q[j] - d > 0 /\ q[j] - d \in Int /\ s \in Int
    BY <2>1, <2>3
  <2>5. s + (q[j] - d) \in 1..Len(l) /\ seen[q[j]] = l[s + (q[j] - d)]
    BY <1>7, <2>1, <2>3
  <2>6. s + (q[j] - d) > s
    BY <2>4
  <2> QED BY <2>1, <2>3, <2>5, <2>6
<1>11. /\ \A k \in 1..Len(g) : p2[k] = p[k]
       /\ \A j \in 1..Len(f) : p2[Len(g) + j] = n + place(j)
  <2>1. \A k \in 1..Len(g) : k \in 1..(Len(g) + Len(f)) /\ k <= Len(g)
    BY <1>2, <1>3
  <2>2. \A j \in 1..Len(f) : /\ Len(g) + j \in 1..(Len(g) + Len(f)) /\ ~ (Len(g) + j <= Len(g))
                             /\ (Len(g) + j) - Len(g) = j
    BY <1>2, <1>3
  <2> HIDE DEF place
  <2> QED BY <2>1, <2>2
<1> HIDE DEF p2
<1>12. ASSUME NEW j \in 1..Len(f)
       PROVE  n + place(j) \in 1..Len(a) /\ a[n + place(j)][1] = m.msg[f[j]] /\ n + place(j) > u
  <2>1. place(j) \in 1..Len(l) /\ f[j] = l[place(j)] /\ place(j) > s
    BY <1>10
  <2> HIDE DEF place
  <2>2. n + place(j) > n + s
    BY <1>9, <2>1
  <2>3. n + place(j) > u
    BY <1>6, <1>7, <1>9, <2>1, <2>2
  <2> QED BY <1>8, <2>1, <2>3
<1>13. \A k \in 1..Len(g2) : p2[k] \in 1..Len(a) /\ a[p2[k]][1] = g2[k]
  <2> SUFFICES ASSUME NEW k \in 1..Len(g2) PROVE p2[k] \in 1..Len(a) /\ a[p2[k]][1] = g2[k]
    OBVIOUS
  <2>1. CASE k \in 1..Len(g)
    BY <1>5, <1>6, <1>11, <2>1
  <2>2. CASE k \notin 1..Len(g)
    <3>1. PICK j \in 1..Len(f) : k = Len(g) + j
      BY <1>5, <2>2
    <3> HIDE DEF place
    <3> QED BY <1>5, <1>11, <1>12, <3>1
  <2> QED BY <2>1, <2>2
<1>14. \A i, k \in 1..Len(g2) : i < k => p2[i] < p2[k]
  <2> SUFFICES ASSUME NEW i \in 1..Len(g2), NEW k \in 1..Len(g2), i < k PROVE p2[i] < p2[k]
    OBVIOUS
  <2>1. CASE k \in 1..Len(g)
    <3>1. i \in 1..Len(g)
      BY <1>3, <2>1
    <3> QED BY <1>6, <1>11, <2>1, <3>1
  <2>2. CASE k \notin 1..Len(g) /\ i \in 1..Len(g)
    <3>1. PICK j \in 1..Len(f) : k = Len(g) + j
      BY <1>5, <2>2
    <3>2. p2[k] = n + place(j) /\ p2[k] > u /\ p2[k] \in 1..Len(a)
      <4> HIDE DEF place
      <4> QED BY <1>11, <1>12, <3>1
    <3>3. p2[i] = p[i] /\ p[i] <= u /\ p[i] \in 1..Len(a)
      BY <1>6, <1>11, <2>2
    <3>4. \A x, y, w \in Nat : x > w /\ y <= w => y < x
      OBVIOUS
    <3>5. p2[k] \in Nat /\ p2[i] \in Nat /\ u \in Nat
      <4>1. \A x \in 1..Len(a) : x \in Nat
        OBVIOUS
      <4>2. \A x \in 0..Len(a) : x \in Nat
        OBVIOUS
      <4> QED BY <1>6, <3>2, <3>3, <4>1, <4>2
    <3> QED BY <3>2, <3>3, <3>4, <3>5
  <2>3. CASE k \notin 1..Len(g) /\ i \notin 1..Len(g)
    <3>1. PICK j \in 1..Len(f) : k = Len(g) + j
      BY <1>5, <2>3
    <3>2. PICK b \in 1..Len(f) : i = Len(g) + b
      BY <1>5, <2>3
    <3>3. b < j
      BY <1>3, <3>1, <3>2
    <3>4. q[b] < q[j] /\ q[b] \in 1..Len(seen) /\ q[j] \in 1..Len(seen)
      BY <1>2, <3>3
    <3>5. place(b) < place(j) /\ place(b) \in Int /\ place(j) \in Int
      <4>1. \A x, y, D, S \in Int : x < y => S + (x - D) < S + (y - D) /\ S + (x - D) \in Int
        OBVIOUS
      <4>2. q[b] \in Int /\ q[j] \in Int /\ d \in Int /\ s \in Int
        BY <3>4
      <4>3. PICK x \in Int, y \in Int : x = q[b] /\ y = q[j]
        BY <4>2
      <4>4. x < y /\ place(b) = s + (x - d) /\ place(j) = s + (y - d)
        BY <3>4, <4>3
      <4> HIDE DEF place
      <4> QED BY <4>1, <4>2, <4>4
    <3> HIDE DEF place
    <3>6. n + place(b) < n + place(j)
      BY <1>9, <3>5
    <3> QED BY <1>11, <3>1, <3>2, <3>6
  <2> QED BY <2>1, <2>2, <2>3
<1>15. CASE f = <<>>
  <2>1. g2 = g /\ c2 = c /\ \A k \in 1..Len(g) : p2[k] = p[k]
    <3>1. items = <<>>
      BY <1>4, <1>15
    <3>2. g2 = g \o <<>>
      BY <3>1 DEF items
    <3> QED BY <1>11, <1>15, <3>2
  <2>2. SameNumbers(g, Positions(a, g), p)
    <3>1. \A k \in 1..Len(g) : p[k] \in 1..Len(a) /\ a[p[k]][1] = g[k]
      BY <1>6
    <3> QED BY <1>3, <3>1, PositionsAre
  <2>3. Follows(m, l, a, Positions(a, g), g, c)
    BY <1>3, <2>2, FollowsSame
  <2> QED BY <1>2, <1>4, <2>1, <2>3 DEF items
<1>16. CASE f # <<>>
  <2> DEFINE z == Len(f)
             v == n + place(z)
  <2>1. z \in 1..Len(f) /\ Len(g2) # 0 /\ Len(g2) = Len(g) + z /\ Last(f) = f[z]
    BY <1>2, <1>3, <1>5, <1>16 DEF Last
  <2>2. p2[Len(g2)] = v /\ v \in 1..Len(a) /\ v > u
    <3> HIDE DEF place
    <3> QED BY <1>11, <1>12, <2>1
  <2>3. place(z) \in 1..Len(l) /\ f[z] = l[place(z)] /\ q[z] > d /\ q[z] \in 1..Len(seen)
    BY <1>2, <1>10, <2>1
  <2>4. ASSUME NEW k \in 1..Len(l), n + k <= v
        PROVE  Expired(m, l[k]) \/ \E j \in 1..Len(g2) : p2[j] = n + k
    <3>1. CASE n + k <= u
      <4>1. CASE Expired(m, l[k])
        BY <4>1
      <4>2. CASE ~ Expired(m, l[k])
        <5>1. PICK j \in 1..Len(g) : p[j] = n + k
          BY <1>6, <3>1, <4>2
        <5>2. j \in 1..Len(g2) /\ p2[j] = n + k
          BY <1>2, <1>3, <1>5, <1>11, <5>1
        <5> QED BY <5>2
      <4> QED BY <4>1, <4>2
    <3>2. CASE ~ (n + k <= u)
      <4> DEFINE r == (k - s) + d
      <4>1. k > s
        BY <1>6, <1>7, <1>9, <3>2
      <4>2. k <= place(z)
        BY <1>9, <2>3, <2>4
      <4>3. r \in 1..Len(seen) /\ r > d /\ s + (r - d) = k
        <5>1. \A K, S, D, Q, N \in Nat : K > S /\ K <= S + (Q - D) /\ Q <= N
                => (K - S) + D \in 1..N /\ (K - S) + D > D /\ S + (((K - S) + D) - D) = K
          OBVIOUS
        <5>2. k \in Nat /\ s \in Nat /\ d \in Nat /\ q[z] \in Nat /\ q[z] <= Len(seen)
          <6>1. \A x \in 1..Len(l) : x \in Nat
            OBVIOUS
          <6>2. \A x \in 0..Len(l) : x \in Nat
            OBVIOUS
          <6>3. \A x \in 0..Len(seen) : x \in Nat
            OBVIOUS
          <6>4. \A x \in 1..Len(seen) : x \in Nat /\ x <= Len(seen)
            OBVIOUS
          <6> QED BY <2>3, <6>1, <6>2, <6>3, <6>4
        <5> QED BY <1>3, <4>1, <4>2, <5>1, <5>2
      <4> HIDE DEF r
      <4>4. seen[r] = l[k]
        BY <1>7, <4>3
      <4>5. CASE Expired(m, l[k])
        BY <4>5
      <4>6. CASE ~ Expired(m, l[k])
        <5>1. PICK j \in 1..Len(f) : q[j] = r
          BY <1>2, <4>3, <4>4, <4>6
        <5>2. place(j) = k
          BY <4>3, <5>1
        <5>3. Len(g) + j \in 1..Len(g2) /\ p2[Len(g) + j] = n + k
          <6>1. Len(g) + j \in 1..Len(g2)
            BY <1>2, <1>3, <1>5
          <6> HIDE DEF place
          <6> QED BY <1>11, <5>2, <6>1
        <5> QED BY <5>3
      <4> QED BY <4>5, <4>6
    <3> QED BY <3>1, <3>2
  <2>5. c2.item = f[z] /\ c2.time = m.time[f[z]] /\ c2.item # None
    <3>1. c2 = [item |-> f[z], time |-> m.time[f[z]]]
      BY <1>16, <2>1
    <3>2. f[z] \in Items
      BY <1>2, <2>1
    <3> QED BY <1>3, <3>1, <3>2
  <2>6. c2.time = a[v][2] /\ c2.item = l[v - n]
    <3>1. v - n = place(z)
      BY <1>9, <2>3
    <3> HIDE DEF place
    <3> QED BY <1>8, <2>3, <2>5, <3>1
  <2> HIDE DEF v, z
  <2>7. Follows(m, l, a, p2, g2, c2)
    <3>1. \A k \in 1..Len(l) : n + k <= v => Expired(m, l[k]) \/ \E j \in 1..Len(g2) : p2[j] = n + k
      BY <2>4
    <3>2. c2.item = None <=> Len(g2) = 0
      BY <2>1, <2>5
    <3> QED BY <1>13, <1>14, <2>1, <2>2, <2>6, <3>1, <3>2 DEF Follows, n
  <2>8. Len(g2) \in Nat
    BY <1>2, <1>3, <1>5
  <2>9. SameNumbers(g2, Positions(a, g2), p2)
    BY <1>3, <1>13, <2>8, PositionsAre
  <2>10. Follows(m, l, a, Positions(a, g2), g2, c2)
    BY <2>7, <2>8, <2>9, FollowsSame
  <2> QED BY <1>2, <1>4, <2>10 DEF items
<1> QED BY <1>15, <1>16
-----------------------------------------------------------------------------
(* The steps. *)

LEMMA Scenario ==
  ASSUME TypeInv
  PROVE  /\ asked.halls \subseteq Halls /\ asked.ticks \in Nat
         /\ \A x \in DOMAIN asked.home : Home(x) \in Halls \cup {None}
         /\ \A r \in DOMAIN asked.hall : asked.hall[r] \in Halls
BY AnnouncementsAssumption DEF TypeInv, AnnouncementsAssumption, Home

\* What a push makes of a hall.
LEMMA PushNewIs ==
  ASSUME TypeInv, ListInv, NEW h \in Halls, NEW x \in Messages, PushNew(h, x)
  PROVE  /\ Append(arrived[h], <<x, now>>) \in Seq(Messages \X Nat)
         /\ arrived' = [arrived EXCEPT ![h] = Append(arrived[h], <<x, now>>)]
         /\ \E n \in Mgrs, e \in 0..Len(Listed(mgr[h])), i \in Items, t \in Seq(Items) :
              /\ mgr' = [mgr EXCEPT ![h] = n]
              /\ PushedTo(mgr[h], Listed(mgr[h]), arrived[h], x, n, e, i, t)
<1>1. /\ now \in Nat /\ arrived[h] \in Seq(Messages \X Nat)
      /\ Shape(mgr[h], Listed(mgr[h])) /\ Latest(mgr[h], Listed(mgr[h]), arrived[h])
  BY DEF TypeInv, ListInv
<1>2. <<x, now>> \in Messages \X Nat
  BY <1>1
<1> DEFINE n == Linked(WithFree(recycle_old(mgr[h])), x)
<1>3. /\ mgr' = [mgr EXCEPT ![h] = n]
      /\ arrived' = [arrived EXCEPT ![h] = Append(arrived[h], <<x, now>>)]
  BY DEF PushNew
<1>4. \E e \in 0..Len(Listed(mgr[h])), i \in Items, t \in Seq(Items) :
        PushedTo(mgr[h], Listed(mgr[h]), arrived[h], x, n, e, i, t)
  BY <1>1, Pushed
<1> HIDE DEF n
<1>5. n \in Mgrs
  BY <1>4 DEF PushedTo, Shape
<1>6. Append(arrived[h], <<x, now>>) \in Seq(Messages \X Nat)
  BY <1>1, <1>2
<1> QED BY <1>3, <1>4, <1>5, <1>6

\* A step pushes a message, or is one of a request, or leaves lists and requests as they are.
LEMMA Kinds ==
  ASSUME TypeInv, [Next]_vars
  PROVE  \/ /\ \E h \in Halls, x \in Messages : PushNew(h, x)
            /\ UNCHANGED <<asked, now, readVars>>
         \/ UNCHANGED <<asked, listVars, readVars>> /\ now' \in {now, now + 1}
         \/ /\ \E r \in Requests : CheckAndAnouncement(r) \/ GetSome(r) \/ Received(r)
            /\ UNCHANGED <<asked, now, listVars>>
<1>1. ASSUME NEW x \in Messages, Announce(x) \/ AnnounceText(x)
      PROVE  \E h \in Halls : PushNew(h, x) /\ UNCHANGED <<asked, now, readVars>>
  <2>1. Home(x) \in Halls
    BY <1>1, Scenario DEF Announce, AnnounceText, Due
  <2> QED BY <1>1, <2>1 DEF Announce, AnnounceText
<1>2. ASSUME NEW x \in Messages, AnnounceFirstRank(x)
      PROVE  UNCHANGED <<asked, listVars, readVars>> /\ now' = now
  BY <1>2 DEF AnnounceFirstRank
<1>3. ASSUME NEW x \in Messages, HallReturns(x) \/ PushReturns(x) \/ \E h \in Halls : CallHall(x, h)
      PROVE  UNCHANGED <<asked, listVars, readVars>> /\ now' = now
  BY <1>3 DEF HallReturns, PushReturns, CallHall
<1>4. ASSUME NEW x \in Messages, NEW h \in Halls, RemotePush(h, x)
      PROVE  PushNew(h, x) /\ UNCHANGED <<asked, now, readVars>>
  BY <1>4 DEF RemotePush
<1>5. ASSUME NEW x \in Messages, CallFails(x) \/ HallIsCut(x)
      PROVE  UNCHANGED <<asked, listVars, readVars>> /\ now' = now
  BY <1>5 DEF CallFails, HallIsCut
<1>6. ASSUME NEW r \in Requests, CheckAndAnouncement(r) \/ GetSome(r) \/ Received(r)
      PROVE  UNCHANGED <<asked, now, listVars>>
  BY <1>6 DEF CheckAndAnouncement, GetSome, Received
<1>7. ASSUME Tick PROVE UNCHANGED <<asked, listVars, readVars>> /\ now' = now + 1
  BY <1>7 DEF Tick
<1>8. ASSUME UNCHANGED vars PROVE UNCHANGED <<asked, listVars, readVars>> /\ now' = now
  BY <1>8 DEF vars
<1> QED BY <1>1, <1>2, <1>3, <1>4, <1>5, <1>6, <1>7, <1>8 DEF Next, CallStep

\* What was so of a hall is so later.
LEMMA Later ==
  ASSUME now \in Nat, now' \in Nat, now <= now',
         NEW m, NEW l, NEW a \in Seq(Messages \X Nat), Shape(m, l), Latest(m, l, a)
  PROVE  /\ Latest(m, l, a)' /\ (Used(m, l) => Used(m, l)')
         /\ \A p, g, c : Follows(m, l, a, p, g, c) => Follows(m, l, a, p, g, c)'
<1>1. /\ l \in Seq(Items) /\ Len(l) \in Nat /\ Len(a) \in Nat /\ Len(l) <= Len(a) /\ Exist \in Nat
      /\ m.time \in [Items -> Nat \cup {None}]
  <2>1. l \in Seq(Items) /\ Len(l) <= Len(a) /\ m \in Mgrs
    BY DEF Shape, IsList, Latest
  <2>2. Len(l) \in Nat /\ Len(a) \in Nat
    BY <2>1
  <2>3. m.time \in [Items -> Nat \cup {None}]
    BY <2>1 DEF Mgrs
  <2> QED BY <2>1, <2>2, <2>3, Constants
<1>2. /\ \A k \in 1..Len(a) : a[k][2] \in Nat
      /\ \A k \in 1..Len(l) : m.time[l[k]] \in Nat
  <2>1. AtTheEnd(m, l, a)
    BY ListTimes
  <2> QED BY <2>1 DEF AtTheEnd
<1>3. \A b \in Nat : now - b >= Exist => now' - b >= Exist
  <2>1. Exist \in Nat
    BY <1>1
  <2>2. \A b, x, y, z \in Nat : x <= y /\ x - b >= z => y - b >= z
    OBVIOUS
  <2> QED BY <2>1, <2>2
<1>4. \A b \in Nat : b <= now => b <= now'
  OBVIOUS
<1>5. Latest(m, l, a)'
  <2>1. \A k \in 1..(Len(a) - Len(l)) : k \in 1..Len(a)
    BY <1>1
  <2>2. \A k \in 1..Len(a) : a[k][2] <= now'
    BY <1>2, <1>4 DEF Latest
  <2>3. Len(l) = PoolSize \/ \A k \in 1..(Len(a) - Len(l)) : now' - a[k][2] >= Exist
    BY <1>2, <1>3, <2>1 DEF Latest
  <2> QED BY <2>2, <2>3 DEF Latest
<1>6. \A i \in Items : m.time[i] # None /\ Expired(m, i) => Expired(m, i)'
  BY <1>1, <1>3 DEF Expired
<1>7. Used(m, l) => Used(m, l)'
  BY <1>6 DEF Used
<1>8. \A k \in 1..Len(l) : Expired(m, l[k]) => Expired(m, l[k])'
  BY <1>2, <1>3 DEF Expired
<1>9. ASSUME NEW p, NEW g, NEW c, Follows(m, l, a, p, g, c) PROVE Follows(m, l, a, p, g, c)'
  BY <1>8, <1>9 DEF Follows
<1> QED BY <1>5, <1>7, <1>9

LEMMA ListInvariance ==
  ASSUME TypeInv, ListInv, [Next]_vars
  PROVE  ListInv'
<1>1. now \in Nat /\ arrived \in [Halls -> Seq(Messages \X Nat)] /\ mgr \in [Halls -> Mgrs]
  BY DEF TypeInv
<1> SUFFICES ASSUME NEW h \in Halls
             PROVE  /\ Shape(mgr[h], Listed(mgr[h]))'
                    /\ Latest(mgr[h], Listed(mgr[h]), arrived[h])' /\ Used(mgr[h], Listed(mgr[h]))'
  BY DEF ListInv
<1>2. PICK m, l, a : m = mgr[h] /\ l = Listed(mgr[h]) /\ a = arrived[h]
  OBVIOUS
<1>3. /\ Shape(m, l) /\ Latest(m, l, a) /\ Used(m, l) /\ a \in Seq(Messages \X Nat)
  BY <1>1, <1>2 DEF ListInv
<1>4. ASSUME mgr'[h] = mgr[h], arrived'[h] = arrived[h], now' \in {now, now + 1}
      PROVE  /\ Shape(mgr[h], Listed(mgr[h]))'
             /\ Latest(mgr[h], Listed(mgr[h]), arrived[h])' /\ Used(mgr[h], Listed(mgr[h]))'
  <2>1. now' \in Nat /\ now <= now'
    BY <1>1, <1>4
  <2>2. Latest(m, l, a)' /\ Used(m, l)'
    BY <1>1, <1>3, <2>1, Later
  <2>3. m = mgr[h]' /\ l = Listed(mgr[h])' /\ a = arrived[h]'
    BY <1>2, <1>4
  <2> QED BY <1>3, <2>2, <2>3
<1>5. ASSUME NEW g \in Halls, NEW x \in Messages, PushNew(g, x), now' = now
      PROVE  /\ Shape(mgr[h], Listed(mgr[h]))'
             /\ Latest(mgr[h], Listed(mgr[h]), arrived[h])' /\ Used(mgr[h], Listed(mgr[h]))'
  <2>1. PICK n \in Mgrs, e \in 0..Len(Listed(mgr[g])), i \in Items, t \in Seq(Items) :
              /\ mgr' = [mgr EXCEPT ![g] = n]
              /\ PushedTo(mgr[g], Listed(mgr[g]), arrived[g], x, n, e, i, t)
    BY <1>5, PushNewIs
  <2>2. /\ arrived' = [arrived EXCEPT ![g] = Append(arrived[g], <<x, now>>)]
        /\ Append(arrived[g], <<x, now>>) \in Seq(Messages \X Nat)
    BY <1>5, PushNewIs
  <2>3. CASE h # g
    BY <1>1, <1>4, <1>5, <2>1, <2>2, <2>3
  <2>4. CASE h = g
    <3>1. /\ PushedTo(m, l, a, x, n, e, i, t) /\ e \in 0..Len(l)
          /\ mgr'[h] = n /\ arrived'[h] = Append(a, <<x, now>>)
      BY <1>1, <1>2, <2>1, <2>2, <2>4
    <3>2. Shape(n, t)
      BY <3>1 DEF PushedTo
    <3>3. Listed(n) = t
      BY <3>2, ListedIs
    <3>4. Latest(n, t, Append(a, <<x, now>>)) /\ Used(n, t)
      BY <1>1, <1>3, <3>1, LatestPushed, UsedPushed
    <3>5. PICK b : b = Append(a, <<x, now>>) /\ b \in Seq(Messages \X Nat)
      BY <1>2, <2>2, <2>4
    <3>6. Latest(n, t, b)' /\ Used(n, t)'
      <4>1. now' \in Nat /\ now <= now' /\ Latest(n, t, b) /\ Used(n, t)
        BY <1>1, <1>5, <3>4, <3>5
      <4> QED BY <1>1, <3>2, <3>5, <4>1, Later
    <3>7. n = mgr[h]' /\ t = Listed(mgr[h])' /\ b = arrived[h]'
      BY <3>1, <3>3, <3>5
    <3> QED BY <3>2, <3>6, <3>7
  <2> QED BY <2>3, <2>4
<1>6. CASE \E g \in Halls, x \in Messages : PushNew(g, x) /\ UNCHANGED <<asked, now, readVars>>
  BY <1>5, <1>6
<1>7. CASE UNCHANGED listVars /\ now' \in {now, now + 1}
  BY <1>4, <1>7 DEF listVars
<1> QED BY <1>6, <1>7, Kinds

Pushes == [at : {"idle", "call", "wait", "done"}, left : SUBSET Halls, hall : Halls \cup {None}]
Answers == [at : {"idle", "lock", "read"}, since : Nat,
            items : Seq(Messages \cup {None}), cur : Items \cup {None}]

\* What GetSome finds is a part of the pool's items.
LEMMA FreshItems ==
  ASSUME NEW m \in Mgrs, NEW c, c.item \in Items \cup {None}
  PROVE  /\ Chain(m, Start(m, c), SendMax) \in Seq(Items)
         /\ Fresh(m, Chain(m, Start(m, c), SendMax)) \in Seq(Items)
<1>1. /\ SendMax \in Nat \ {0} /\ m.next \in [Items -> Items \cup {None}]
      /\ m.head \in Items \cup {None}
  BY Constants DEF Mgrs
<1>2. Start(m, c) \in Items \cup {None} /\ Links(m)
  BY <1>1 DEF Start, Links
<1> DEFINE s == Chain(m, Start(m, c), SendMax)
<1>3. IsChain(m, Start(m, c), SendMax, s)
  BY <1>1, <1>2, ChainIs
<1> HIDE DEF s
<1>4. s \in Seq(Items)
  BY <1>3 DEF IsChain
<1>5. Fresh(m, s) \in Seq(Items)
  BY <1>4, FreshIs DEF Picked
<1> QED BY <1>4, <1>5 DEF s

LEMMA TypeInvariance ==
  ASSUME TypeInv, ListInv, [Next]_vars
  PROVE  TypeInv'
<1>1. /\ asked \in Scenarios /\ now \in Nat /\ now <= asked.ticks /\ asked.ticks \in Nat
      /\ asked.halls \subseteq Halls
      /\ mgr \in [Halls -> Mgrs] /\ locker \in [Halls -> Messages \cup {None}]
      /\ push \in [Messages -> Pushes] /\ pend \in [Halls -> SUBSET Messages]
      /\ request \in [Requests -> Answers]
      /\ cursor \in [Halls -> [item : Items \cup {None}, time : Nat \cup {None}]]
      /\ got \in [Halls -> Seq(Messages \cup {None})]
      /\ arrived \in [Halls -> Seq(Messages \X Nat)]
      /\ \A r \in Requests : request[r].at # "idle" => r \in DOMAIN asked.hall
      /\ \A r \in DOMAIN asked.hall : asked.hall[r] \in Halls
  BY Scenario DEF TypeInv, Pushes, Answers
\* The rpc side and the readers each keep their own types.
<1> DEFINE Lists == mgr' \in [Halls -> Mgrs] /\ arrived' \in [Halls -> Seq(Messages \X Nat)]
           Calls == /\ locker' \in [Halls -> Messages \cup {None}]
                    /\ push' \in [Messages -> Pushes] /\ pend' \in [Halls -> SUBSET Messages]
           Readers == /\ request' \in [Requests -> Answers]
                      /\ cursor' \in [Halls -> [item : Items \cup {None}, time : Nat \cup {None}]]
                      /\ got' \in [Halls -> Seq(Messages \cup {None})]
                      /\ \A r \in Requests : request'[r].at # "idle" => r \in DOMAIN asked'.hall
           Clock == asked' = asked /\ now' \in Nat /\ now' <= asked.ticks
<1>2. ASSUME Lists, Calls, Readers, Clock PROVE TypeInv'
  BY <1>1, <1>2 DEF TypeInv, Pushes, Answers
<1>3. ASSUME UNCHANGED listVars PROVE Lists
  BY <1>1, <1>3 DEF listVars
<1>4. ASSUME NEW h \in Halls, NEW x \in Messages, PushNew(h, x) PROVE Lists
  <2>1. \E n \in Mgrs : mgr' = [mgr EXCEPT ![h] = n]
    BY <1>4, PushNewIs
  <2>2. \E b \in Seq(Messages \X Nat) : arrived' = [arrived EXCEPT ![h] = b]
    BY <1>4, PushNewIs
  <2>3. mgr' \in [Halls -> Mgrs]
    BY <1>1, <2>1
  <2>4. arrived' \in [Halls -> Seq(Messages \X Nat)]
    BY <1>1, <2>2
  <2> QED BY <2>3, <2>4
<1>5. ASSUME UNCHANGED <<asked, now>> PROVE Clock
  BY <1>1, <1>5
<1>6. ASSUME UNCHANGED <<asked, readVars>> PROVE Readers
  BY <1>1, <1>6 DEF readVars
<1>7. ASSUME UNCHANGED callVars PROVE Calls
  BY <1>1, <1>7 DEF callVars
<1>8. ASSUME NEW x \in Messages, NEW p \in Pushes, push' = [push EXCEPT ![x] = p]
      PROVE  push' \in [Messages -> Pushes]
  BY <1>1, <1>8
<1>9. ASSUME NEW x \in Messages
      PROVE  /\ push[x] \in Pushes /\ LockReleased(x) \in [Halls -> Messages \cup {None}]
  BY <1>1 DEF LockReleased
<1> HIDE DEF Lists, Calls, Readers, Clock
<1>10. ASSUME NEW x \in Messages, Announce(x) PROVE TypeInv'
  <2>1. Home(x) \in Halls
    BY <1>10, Scenario DEF Announce, Due
  <2>2. push' = [push EXCEPT ![x] =
                   [push[x] EXCEPT !.at = "call", !.left = asked.halls \ {Home(x)}]]
    BY <1>10 DEF Announce
  <2>3. push' \in [Messages -> Pushes]
    <3>1. [push[x] EXCEPT !.at = "call", !.left = asked.halls \ {Home(x)}] \in Pushes
      <4>1. push[x] \in Pushes
        BY <1>9
      <4> QED BY <1>1, <4>1 DEF Pushes
    <3> QED BY <1>8, <2>2, <3>1
  <2>4. locker' \in [Halls -> Messages \cup {None}] /\ pend' = pend
    BY <1>1, <1>10 DEF Announce
  <2>5. Calls
    BY <1>1, <2>3, <2>4 DEF Calls
  <2> QED BY <1>2, <1>4, <1>5, <1>6, <1>10, <2>1, <2>5 DEF Announce
<1>11. ASSUME NEW x \in Messages, AnnounceText(x) PROVE TypeInv'
  <2>1. Home(x) \in Halls
    BY <1>11, Scenario DEF AnnounceText, Due
  <2>2. /\ push' = [push EXCEPT ![x] = [push[x] EXCEPT !.at = "done"]]
        /\ locker' = locker /\ pend' = pend
    BY <1>11 DEF AnnounceText
  <2>3. Calls
    <3>1. [push[x] EXCEPT !.at = "done"] \in Pushes
      <4>1. push[x] \in Pushes
        BY <1>9
      <4> QED BY <1>1, <4>1 DEF Pushes
    <3>2. push' \in [Messages -> Pushes]
      BY <1>8, <2>2, <3>1
    <3> QED BY <1>1, <2>2, <3>2 DEF Calls
  <2> QED BY <1>2, <1>4, <1>5, <1>6, <1>11, <2>1, <2>3 DEF AnnounceText
<1>12. ASSUME NEW x \in Messages, AnnounceFirstRank(x) PROVE TypeInv'
  <2>1. /\ push' = [push EXCEPT ![x] = [push[x] EXCEPT !.at = "call", !.left = asked.halls]]
        /\ locker' = locker /\ pend' = pend
    BY <1>12 DEF AnnounceFirstRank
  <2>2. Calls
    <3>1. [push[x] EXCEPT !.at = "call", !.left = asked.halls] \in Pushes
      <4>1. push[x] \in Pushes
        BY <1>9
      <4> QED BY <1>1, <4>1 DEF Pushes
    <3>2. push' \in [Messages -> Pushes]
      BY <1>1, <1>8, <2>1, <3>1
    <3> QED BY <1>1, <1>9, <2>1, <3>2 DEF Calls
  <2> QED BY <1>2, <1>3, <1>5, <1>6, <1>12, <2>2 DEF AnnounceFirstRank
<1>13. ASSUME NEW x \in Messages, HallReturns(x) PROVE TypeInv'
  <2>1. /\ push' = [push EXCEPT ![x] = [push[x] EXCEPT !.at = "call"]]
        /\ locker' = locker /\ pend' = pend
    BY <1>13 DEF HallReturns
  <2>2. Calls
    <3>1. [push[x] EXCEPT !.at = "call"] \in Pushes
      <4>1. push[x] \in Pushes
        BY <1>9
      <4> QED BY <1>1, <4>1 DEF Pushes
    <3>2. push' \in [Messages -> Pushes]
      BY <1>1, <1>8, <2>1, <3>1
    <3> QED BY <1>1, <1>9, <2>1, <3>2 DEF Calls
  <2> QED BY <1>2, <1>3, <1>5, <1>6, <1>13, <2>2 DEF HallReturns
<1>14. ASSUME NEW x \in Messages, PushReturns(x) PROVE TypeInv'
  <2>1. /\ push' = [push EXCEPT ![x] = [push[x] EXCEPT !.at = "done"]]
        /\ locker' = LockReleased(x) /\ pend' = pend
    BY <1>14 DEF PushReturns
  <2>2. Calls
    <3>1. [push[x] EXCEPT !.at = "done"] \in Pushes
      <4>1. push[x] \in Pushes
        BY <1>9
      <4> QED BY <1>1, <4>1 DEF Pushes
    <3>2. push' \in [Messages -> Pushes]
      BY <1>1, <1>8, <2>1, <3>1
    <3> QED BY <1>1, <1>9, <2>1, <3>2 DEF Calls
  <2> QED BY <1>2, <1>3, <1>5, <1>6, <1>14, <2>2 DEF PushReturns
<1>15. ASSUME NEW x \in Messages, NEW h \in Halls, CallHall(x, h) PROVE TypeInv'
  <2>1. /\ push' = [push EXCEPT ![x] = [at |-> "wait", left |-> push[x].left \ {h}, hall |-> h]]
        /\ locker' = locker /\ pend' = [pend EXCEPT ![h] = pend[h] \cup {x}]
    BY <1>15 DEF CallHall
  <2>2. push[x].left \ {h} \in SUBSET Halls
    BY <1>9 DEF Pushes
  <2>3. Calls
    <3>1. [at |-> "wait", left |-> push[x].left \ {h}, hall |-> h] \in Pushes
      BY <2>2 DEF Pushes
    <3>2. push' \in [Messages -> Pushes]
      BY <1>8, <2>1, <3>1
    <3>3. pend[h] \cup {x} \in SUBSET Messages
      BY <1>1
    <3>4. pend' \in [Halls -> SUBSET Messages]
      BY <1>1, <2>1, <3>3
    <3> QED BY <1>1, <2>1, <3>2, <3>4 DEF Calls
  <2> QED BY <1>2, <1>3, <1>5, <1>6, <1>15, <2>3 DEF CallHall
<1>16. ASSUME NEW x \in Messages, NEW h \in Halls, RemotePush(h, x) PROVE TypeInv'
  <2>1. push' = push /\ locker' = locker /\ pend' = [pend EXCEPT ![h] = pend[h] \ {x}]
    BY <1>16 DEF RemotePush
  <2>2. Calls
    BY <1>1, <2>1 DEF Calls
  <2> QED BY <1>2, <1>4, <1>5, <1>6, <1>16, <2>2 DEF RemotePush
<1>17. ASSUME NEW x \in Messages, CallFails(x) PROVE TypeInv'
  <2>1. /\ push' = [push EXCEPT ![x] = [push[x] EXCEPT !.at = "call", !.left = {}]]
        /\ locker' = locker
        /\ pend' = pend \/ pend' = [pend EXCEPT ![push[x].hall] = pend[push[x].hall] \ {x}]
    BY <1>17 DEF CallFails
  <2>2. pend' \in [Halls -> SUBSET Messages]
    <3>1. PICK h : h = push[x].hall
      OBVIOUS
    <3>2. \A S : h \in Halls /\ S \in SUBSET Messages
            => [pend EXCEPT ![h] = S] \in [Halls -> SUBSET Messages]
      BY <1>1
    <3>3. h \in Halls => pend[h] \ {x} \in SUBSET Messages
      BY <1>1
    <3>4. h \notin Halls => \A S : [pend EXCEPT ![h] = S] = pend
      BY <1>1
    <3> QED BY <1>1, <2>1, <3>1, <3>2, <3>3, <3>4
  <2>3. Calls
    <3>1. [push[x] EXCEPT !.at = "call", !.left = {}] \in Pushes
      <4>1. push[x] \in Pushes
        BY <1>9
      <4> QED BY <1>1, <4>1 DEF Pushes
    <3>2. push' \in [Messages -> Pushes]
      BY <1>1, <1>8, <2>1, <3>1
    <3> QED BY <1>1, <1>9, <2>1, <2>2, <3>2 DEF Calls
  <2> QED BY <1>2, <1>3, <1>5, <1>6, <1>17, <2>3 DEF CallFails
<1>18. ASSUME NEW x \in Messages, HallIsCut(x) PROVE TypeInv'
  <2>1. /\ push' = push \/ push' = [push EXCEPT ![x] = [push[x] EXCEPT !.left = {}]]
        /\ locker' = LockReleased(x) /\ pend' = pend
    BY <1>18 DEF HallIsCut
  <2>2. Calls
    <3>1. [push[x] EXCEPT !.left = {}] \in Pushes
      <4>1. push[x] \in Pushes
        BY <1>9
      <4> QED BY <1>1, <4>1 DEF Pushes
    <3>2. push' \in [Messages -> Pushes]
      BY <1>1, <1>8, <2>1, <3>1
    <3> QED BY <1>1, <1>9, <2>1, <3>2 DEF Calls
  <2> QED BY <1>2, <1>3, <1>5, <1>6, <1>18, <2>2 DEF HallIsCut
<1>19. ASSUME NEW r \in Requests, NEW q \in Answers, request' = [request EXCEPT ![r] = q],
              q.at # "idle" => r \in DOMAIN asked.hall, UNCHANGED asked
       PROVE  /\ request' \in [Requests -> Answers]
              /\ \A s \in Requests : request'[s].at # "idle" => s \in DOMAIN asked'.hall
  BY <1>1, <1>19
<1>20. ASSUME NEW r \in Requests, CheckAndAnouncement(r) PROVE TypeInv'
  <2>1. /\ request' = [request EXCEPT ![r] = [request[r] EXCEPT !.at = "lock", !.since = now]]
        /\ r \in DOMAIN asked.hall /\ UNCHANGED <<asked, cursor, got>>
    BY <1>20 DEF CheckAndAnouncement
  <2>2. [request[r] EXCEPT !.at = "lock", !.since = now] \in Answers
    <3>1. request[r] \in Answers
      BY <1>1
    <3> QED BY <1>1, <3>1 DEF Answers
  <2>3. Readers
    BY <1>1, <1>19, <2>1, <2>2 DEF Readers
  <2> QED BY <1>2, <1>3, <1>5, <1>7, <1>20, <2>3 DEF CheckAndAnouncement
<1>21. ASSUME NEW r \in Requests, GetSome(r) PROVE TypeInv'
  <2> DEFINE h == asked.hall[r]
             f == Fresh(mgr[h], Chain(mgr[h], Start(mgr[h], cursor[h]), SendMax))
             items == [k \in DOMAIN f |-> mgr[h].msg[f[k]]]
             cur == IF f = <<>> THEN None ELSE Last(f)
  <2>1. /\ request' = [request EXCEPT ![r].at = "read", ![r].items = items, ![r].cur = cur]
        /\ request[r].at = "lock" /\ UNCHANGED <<asked, cursor, got>>
    BY <1>21 DEF GetSome
  <2>2. r \in DOMAIN asked.hall /\ h \in Halls
    BY <1>1, <2>1
  <2>3. mgr[h] \in Mgrs /\ cursor[h].item \in Items \cup {None}
    BY <1>1, <2>2
  <2>4. f \in Seq(Items)
    BY <2>3, FreshItems
  <2>5. items \in Seq(Messages \cup {None})
    <3>1. mgr[h].msg \in [Items -> Messages \cup {None}]
      BY <2>3 DEF Mgrs
    <3> HIDE DEF f
    <3>2. DOMAIN f = 1..Len(f) /\ Len(f) \in Nat /\ \A k \in 1..Len(f) : f[k] \in Items
      BY <2>4
    <3>3. items \in [1..Len(f) -> Messages \cup {None}]
      BY <3>1, <3>2
    <3> QED BY <3>2, <3>3
  <2>6. cur \in Items \cup {None}
    <3> HIDE DEF f
    <3> QED BY <2>4 DEF Last
  <2> HIDE DEF items, cur, f
  <2>7. [request[r] EXCEPT !.at = "read", !.items = items, !.cur = cur] \in Answers
    <3>1. request[r] \in Answers
      BY <1>1
    <3> QED BY <2>5, <2>6, <3>1 DEF Answers
  <2>8. request' = [request EXCEPT ![r] =
                      [request[r] EXCEPT !.at = "read", !.items = items, !.cur = cur]]
    BY <2>1
  <2>9. Readers
    BY <1>1, <1>19, <2>1, <2>2, <2>7, <2>8 DEF Readers
  <2>10. Lists /\ Calls /\ Clock
    BY <1>3, <1>5, <1>7, <1>21 DEF GetSome
  <2> QED BY <1>2, <2>9, <2>10
<1>22. ASSUME NEW r \in Requests, Received(r) PROVE TypeInv'
  <2> DEFINE h == asked.hall[r]
             q == request[r]
  <2>1. /\ q.at = "read" /\ got' = [got EXCEPT ![h] = got[h] \o q.items]
        /\ cursor' = IF q.cur = None THEN cursor
                     ELSE [cursor EXCEPT ![h] = [item |-> q.cur, time |-> mgr[h].time[q.cur]]]
        /\ request' = [request EXCEPT ![r] = Ended] /\ asked' = asked
    BY <1>22 DEF Received
  <2>2. q \in Answers /\ h \in Halls
    BY <1>1, <2>1
  <2>3. q.items \in Seq(Messages \cup {None}) /\ q.cur \in Items \cup {None}
    BY <2>2 DEF Answers
  <2>4. got' \in [Halls -> Seq(Messages \cup {None})]
    <3>1. got[h] \o q.items \in Seq(Messages \cup {None})
      <4>1. got[h] \in Seq(Messages \cup {None})
        BY <1>1, <2>2
      <4> QED BY <2>3, <4>1
    <3> QED BY <1>1, <2>1, <3>1
  <2>5. cursor' \in [Halls -> [item : Items \cup {None}, time : Nat \cup {None}]]
    <3>1. mgr[h].time \in [Items -> Nat \cup {None}]
      BY <1>1, <2>2 DEF Mgrs
    <3> QED BY <1>1, <2>1, <2>3, <3>1
  <2>6. Ended \in Answers /\ Ended.at = "idle"
    BY DEF Ended, Answers
  <2>7. Readers
    BY <1>1, <1>19, <2>1, <2>4, <2>5, <2>6 DEF Readers
  <2>8. Lists /\ Calls /\ Clock
    BY <1>3, <1>5, <1>7, <1>22 DEF Received
  <2> QED BY <1>2, <2>7, <2>8
<1>23. ASSUME Tick PROVE TypeInv'
  <2>1. Clock
    BY <1>1, <1>23 DEF Tick, Clock
  <2> QED BY <1>2, <1>3, <1>6, <1>7, <1>23, <2>1 DEF Tick
<1>24. ASSUME UNCHANGED vars PROVE TypeInv'
  <2>1. /\ UNCHANGED <<asked, now>> /\ UNCHANGED listVars
        /\ UNCHANGED callVars /\ UNCHANGED <<asked, readVars>>
    BY <1>24 DEF vars
  <2> QED BY <1>2, <1>3, <1>5, <1>6, <1>7, <2>1
<1> QED BY <1>10, <1>11, <1>12, <1>13, <1>14, <1>15, <1>16, <1>17, <1>18, <1>20, <1>21, <1>22,
           <1>23, <1>24 DEF Next, CallStep
LEMMA LockInvariance ==
  ASSUME TypeInv, LockInv, [Next]_vars
  PROVE  LockInv'
<1>1. /\ locker \in [Halls -> Messages \cup {None}] /\ push \in [Messages -> Pushes]
      /\ None \notin Messages
      /\ \A h \in Halls : locker[h] # None => push[locker[h]].at \in {"call", "wait"}
  BY Constants DEF TypeInv, LockInv, Pushes
\* A push that holds a lock goes on calling, or releases it.
<1>2. ASSUME NEW x \in Messages, NEW p, push' = [push EXCEPT ![x] = p],
             \/ locker' = locker /\ (p.at \in {"call", "wait"} \/ push[x].at = "idle")
             \/ locker' = LockReleased(x)
      PROVE  LockInv'
  <2> SUFFICES ASSUME NEW h \in Halls, locker'[h] # None
               PROVE  push'[locker'[h]].at \in {"call", "wait"}
    BY DEF LockInv
  <2>1. locker'[h] = locker[h]
    BY <1>1, <1>2 DEF LockReleased
  <2>2. locker[h] \in Messages /\ push[locker[h]].at \in {"call", "wait"}
    BY <1>1, <2>1
  <2>3. CASE locker[h] = x
    <3>1. p.at \in {"call", "wait"}
      BY <1>1, <1>2, <2>1, <2>2, <2>3 DEF LockReleased
    <3> QED BY <1>1, <1>2, <2>1, <2>3, <3>1
  <2>4. CASE locker[h] # x
    BY <1>1, <1>2, <2>1, <2>2, <2>4
  <2> QED BY <2>3, <2>4
<1>3. ASSUME UNCHANGED <<push, locker>> PROVE LockInv'
  BY <1>1, <1>3 DEF LockInv
<1>4. ASSUME NEW x \in Messages, Announce(x) PROVE LockInv'
  <2> SUFFICES ASSUME NEW h \in Halls, locker'[h] # None
               PROVE  push'[locker'[h]].at \in {"call", "wait"}
    BY DEF LockInv
  <2>1. /\ push' = [push EXCEPT ![x] = [push[x] EXCEPT !.at = "call",
                                          !.left = asked.halls \ {Home(x)}]]
        /\ locker' = IF asked.chat THEN locker ELSE [locker EXCEPT ![Home(x)] = x]
    BY <1>4 DEF Announce
  <2>2. push'[x].at = "call"
    <3>1. push[x] \in Pushes
      BY <1>1
    <3> QED BY <1>1, <2>1, <3>1 DEF Pushes
  <2>3. locker'[h] = x \/ locker'[h] = locker[h]
    BY <1>1, <2>1
  <2>4. locker'[h] # x => push'[locker'[h]] = push[locker[h]]
    BY <1>1, <2>1, <2>3
  <2> QED BY <1>1, <2>2, <2>3, <2>4
<1>5. ASSUME NEW x \in Messages, AnnounceText(x) PROVE LockInv'
  <2>1. push[x].at = "idle"
    <3>1. x \in DOMAIN asked.home /\ (push[x].at = "idle") = (x >= x) /\ x \in Nat
      BY <1>5, Constants DEF AnnounceText, Due
    <3> QED BY <3>1
  <2> QED BY <1>2, <1>5, <2>1 DEF AnnounceText
<1>6. ASSUME NEW x \in Messages, AnnounceFirstRank(x) PROVE LockInv'
  <2>1. /\ push' = [push EXCEPT ![x] = [push[x] EXCEPT !.at = "call", !.left = asked.halls]]
        /\ locker' = locker
    BY <1>6 DEF AnnounceFirstRank
  <2>2. [push[x] EXCEPT !.at = "call", !.left = asked.halls].at = "call"
    <3>1. push[x] \in Pushes
      BY <1>1
    <3> QED BY <3>1 DEF Pushes
  <2> QED BY <1>2, <2>1, <2>2
<1>7. ASSUME NEW x \in Messages, HallReturns(x) \/ CallFails(x) PROVE LockInv'
  <2>1. PICK p : push' = [push EXCEPT ![x] = p] /\ p.at = "call" /\ locker' = locker
    <3>1. push[x] \in Pushes
      BY <1>1
    <3>2. /\ [push[x] EXCEPT !.at = "call"].at = "call"
          /\ [push[x] EXCEPT !.at = "call", !.left = {}].at = "call"
      BY <3>1 DEF Pushes
    <3>3. CASE HallReturns(x)
      <4>1. push' = [push EXCEPT ![x] = [push[x] EXCEPT !.at = "call"]] /\ locker' = locker
        BY <3>3 DEF HallReturns
      <4> QED BY <3>2, <4>1
    <3>4. CASE CallFails(x)
      <4>1. /\ push' = [push EXCEPT ![x] = [push[x] EXCEPT !.at = "call", !.left = {}]]
            /\ locker' = locker
        BY <3>4 DEF CallFails
      <4> QED BY <3>2, <4>1
    <3> QED BY <1>7, <3>3, <3>4
  <2> QED BY <1>2, <2>1
<1>8. ASSUME NEW x \in Messages, NEW h \in Halls, CallHall(x, h) PROVE LockInv'
  <2>1. /\ push' = [push EXCEPT ![x] = [at |-> "wait", left |-> push[x].left \ {h}, hall |-> h]]
        /\ locker' = locker
    BY <1>8 DEF CallHall
  <2> QED BY <1>2, <2>1
<1>9. ASSUME NEW x \in Messages, PushReturns(x) PROVE LockInv'
  <2>1. /\ push' = [push EXCEPT ![x] = [push[x] EXCEPT !.at = "done"]]
        /\ locker' = LockReleased(x)
    BY <1>9 DEF PushReturns
  <2> QED BY <1>2, <2>1
<1>10. ASSUME NEW x \in Messages, HallIsCut(x) PROVE LockInv'
  <2>1. /\ push' = push \/ push' = [push EXCEPT ![x] = [push[x] EXCEPT !.left = {}]]
        /\ locker' = LockReleased(x)
    BY <1>10 DEF HallIsCut
  <2>2. push' = push => push' = [push EXCEPT ![x] = push[x]]
    BY <1>1
  <2> QED BY <1>2, <2>1, <2>2
<1>11. ASSUME NEW x \in Messages, NEW h \in Halls, RemotePush(h, x) PROVE LockInv'
  BY <1>3, <1>11 DEF RemotePush
<1>12. ASSUME NEW r \in Requests, CheckAndAnouncement(r) \/ GetSome(r) \/ Received(r) PROVE LockInv'
  BY <1>3, <1>12 DEF CheckAndAnouncement, GetSome, Received, callVars
<1>13. ASSUME Tick \/ UNCHANGED vars PROVE LockInv'
  BY <1>3, <1>13 DEF Tick, vars, callVars
<1> QED BY <1>4, <1>5, <1>6, <1>7, <1>8, <1>9, <1>10, <1>11, <1>12, <1>13 DEF Next, CallStep

\* A message that has not come to hall g comes there, and nowhere else.
LEMMA HasPushed ==
  ASSUME TypeInv, OnceInv, NEW g \in Halls, NEW x \in Messages, ~ Has(g, x),
         arrived' = [arrived EXCEPT ![g] = Append(arrived[g], <<x, now>>)]
  PROVE  /\ \A h \in Halls, y \in Messages : Has(h, y)' <=> Has(h, y) \/ (h = g /\ y = x)
         /\ \A h \in Halls : \A j, k \in 1..Len(arrived'[h]) :
              arrived'[h][j][1] = arrived'[h][k][1] => j = k
<1> DEFINE a == arrived[g]
           b == Append(a, <<x, now>>)
<1>1. /\ arrived \in [Halls -> Seq(Messages \X Nat)] /\ a \in Seq(Messages \X Nat) /\ Len(a) \in Nat
      /\ arrived'[g] = b /\ \A h \in Halls : h # g => arrived'[h] = arrived[h]
  BY DEF TypeInv
<1>2. /\ Len(b) = Len(a) + 1 /\ b[Len(a) + 1] = <<x, now>> /\ DOMAIN b = 1..Len(b)
      /\ DOMAIN a = 1..Len(a) /\ \A k \in 1..Len(a) : b[k] = a[k] /\ k \in 1..Len(b)
      /\ \A k \in 1..Len(b) : k \in 1..Len(a) \/ k = Len(a) + 1
      /\ Len(a) + 1 \in 1..Len(b)
  BY <1>1
<1> HIDE DEF b
<1>3. \A k \in 1..Len(a) : a[k][1] # x
  BY <1>2 DEF Has
<1>4. ASSUME NEW h \in Halls, NEW y \in Messages
      PROVE  Has(h, y)' <=> Has(h, y) \/ (h = g /\ y = x)
  <2>1. CASE h # g
    BY <1>1, <2>1 DEF Has
  <2>2. CASE h = g
    <3>1. Has(h, y)' <=> \E k \in 1..Len(b) : b[k][1] = y
      BY <1>1, <1>2, <2>2 DEF Has
    <3>2. Has(h, y) <=> \E k \in 1..Len(a) : a[k][1] = y
      BY <1>2, <2>2 DEF Has
    <3>3. (\E k \in 1..Len(b) : b[k][1] = y) <=> (\E k \in 1..Len(a) : a[k][1] = y) \/ y = x
      BY <1>2
    <3> QED BY <2>2, <3>1, <3>2, <3>3
  <2> QED BY <2>1, <2>2
<1>5. ASSUME NEW h \in Halls, NEW j \in 1..Len(arrived'[h]), NEW k \in 1..Len(arrived'[h]),
             arrived'[h][j][1] = arrived'[h][k][1]
      PROVE  j = k
  <2>1. CASE h # g
    BY <1>1, <1>5, <2>1 DEF OnceInv
  <2>2. CASE h = g
    <3>1. j \in 1..Len(b) /\ k \in 1..Len(b) /\ b[j][1] = b[k][1]
      BY <1>1, <1>5, <2>2
    <3>2. CASE j \in 1..Len(a) /\ k \in 1..Len(a)
      BY <1>2, <3>1, <3>2 DEF OnceInv
    <3>3. CASE ~ (j \in 1..Len(a) /\ k \in 1..Len(a))
      BY <1>2, <1>3, <3>1, <3>3
    <3> QED BY <3>2, <3>3
  <2> QED BY <2>1, <2>2
<1> QED BY <1>4, <1>5

LEMMA OnceInvariance ==
  ASSUME TypeInv, OnceInv, [Next]_vars
  PROVE  OnceInv'
<1>1. /\ push \in [Messages -> Pushes] /\ pend \in [Halls -> SUBSET Messages]
      /\ arrived \in [Halls -> Seq(Messages \X Nat)]
  BY DEF TypeInv, Pushes
<1>2. /\ \A x \in Messages : push[x].at = "idle" => push[x].left = {}
      /\ \A h \in Halls, x \in Messages :
           /\ Has(h, x) \/ x \in pend[h] => push[x].at # "idle" /\ h \notin push[x].left
           /\ ~ (Has(h, x) /\ x \in pend[h])
      /\ \A h \in Halls : \A j, k \in 1..Len(arrived[h]) :
           arrived[h][j][1] = arrived[h][k][1] => j = k
  BY DEF OnceInv
<1>3. ASSUME NEW x \in Messages, Due(x) PROVE push[x].at = "idle"
  <2>1. x \in DOMAIN asked.home /\ (push[x].at = "idle") = (x >= x) /\ x \in Nat
    BY <1>3, Constants DEF Due
  <2> QED BY <2>1
<1>4. ASSUME UNCHANGED arrived
      PROVE  /\ \A h \in Halls, y \in Messages : Has(h, y)' <=> Has(h, y)
             /\ \A h \in Halls : \A j, k \in 1..Len(arrived'[h]) :
                  arrived'[h][j][1] = arrived'[h][k][1] => j = k
  BY <1>2, <1>4 DEF Has
\* A push that calls no more halls than before.
<1>5. ASSUME NEW x \in Messages, NEW p \in Pushes, push' = [push EXCEPT ![x] = p],
             p.at # "idle", p.left \subseteq push[x].left, UNCHANGED arrived,
             \A h \in Halls : pend'[h] \subseteq pend[h]
      PROVE  OnceInv'
  <2>1. \A y \in Messages : /\ push'[y].at = "idle" => push[y].at = "idle" /\ push'[y] = push[y]
                            /\ push'[y].left \subseteq push[y].left
    BY <1>1, <1>5
  <2>2. \A h \in Halls, y \in Messages :
          /\ Has(h, y)' \/ y \in pend'[h] => push'[y].at # "idle" /\ h \notin push'[y].left
          /\ ~ (Has(h, y)' /\ y \in pend'[h])
    BY <1>2, <1>4, <1>5, <2>1
  <2> QED BY <1>2, <1>4, <1>5, <2>1, <2>2 DEF OnceInv
<1>6. ASSUME UNCHANGED <<push, pend, arrived>> PROVE OnceInv'
  BY <1>2, <1>4, <1>6 DEF OnceInv
<1>7. ASSUME NEW x \in Messages, Announce(x) \/ AnnounceText(x) PROVE OnceInv'
  <2> DEFINE g == Home(x)
  <2>1. g \in Halls /\ push[x].at = "idle" /\ PushNew(g, x) /\ UNCHANGED pend
    BY <1>3, <1>7, Scenario DEF Announce, AnnounceText, Due
  <2>2. ~ Has(g, x) /\ push[x].left = {} /\ \A h \in Halls : ~ Has(h, x) /\ x \notin pend[h]
    BY <1>2, <2>1
  <2>3. arrived' = [arrived EXCEPT ![g] = Append(arrived[g], <<x, now>>)]
    BY <2>1 DEF PushNew
  <2>4. PICK p : push' = [push EXCEPT ![x] = p] /\ p.at # "idle" /\ g \notin p.left
    <3>1. push[x] \in Pushes
      BY <1>1
    <3>2. CASE Announce(x)
      <4>1. push' = [push EXCEPT ![x] = [push[x] EXCEPT !.at = "call", !.left = asked.halls \ {g}]]
        BY <3>2 DEF Announce
      <4>2. /\ [push[x] EXCEPT !.at = "call", !.left = asked.halls \ {g}].at = "call"
            /\ [push[x] EXCEPT !.at = "call", !.left = asked.halls \ {g}].left = asked.halls \ {g}
        BY <3>1 DEF Pushes
      <4> QED BY <4>1, <4>2
    <3>3. CASE AnnounceText(x)
      <4>1. push' = [push EXCEPT ![x] = [push[x] EXCEPT !.at = "done"]]
        BY <3>3 DEF AnnounceText
      <4>2. [push[x] EXCEPT !.at = "done"].at = "done" /\ [push[x] EXCEPT !.at = "done"].left = {}
        BY <2>2, <3>1 DEF Pushes
      <4> QED BY <4>1, <4>2
    <3> QED BY <1>7, <3>2, <3>3
  <2> HIDE DEF g
  <2>5. push'[x] = p /\ \A y \in Messages : y # x => push'[y] = push[y]
    BY <1>1, <2>4
  <2>6. \A h \in Halls, y \in Messages : Has(h, y)' <=> Has(h, y) \/ (h = g /\ y = x)
    BY <2>1, <2>2, <2>3, HasPushed
  <2>7. \A h \in Halls : \A j, k \in 1..Len(arrived'[h]) :
          arrived'[h][j][1] = arrived'[h][k][1] => j = k
    BY <2>1, <2>2, <2>3, HasPushed
  <2>8. \A h \in Halls, y \in Messages :
          /\ Has(h, y)' \/ y \in pend'[h] => push'[y].at # "idle" /\ h \notin push'[y].left
          /\ ~ (Has(h, y)' /\ y \in pend'[h])
    BY <1>2, <2>1, <2>2, <2>4, <2>5, <2>6
  <2>9. \A y \in Messages : push'[y].at = "idle" => push'[y].left = {}
    BY <1>2, <2>4, <2>5
  <2> QED BY <2>7, <2>8, <2>9 DEF OnceInv
<1>8. ASSUME NEW x \in Messages, AnnounceFirstRank(x) PROVE OnceInv'
  <2>1. push[x].at = "idle" /\ UNCHANGED <<pend, arrived>>
    BY <1>3, <1>8 DEF AnnounceFirstRank, listVars
  <2>2. \A h \in Halls : ~ Has(h, x) /\ x \notin pend[h]
    BY <1>2, <2>1
  <2>3. PICK p : push' = [push EXCEPT ![x] = p] /\ p.at = "call"
    <3>1. push[x] \in Pushes
      BY <1>1
    <3>2. push' = [push EXCEPT ![x] = [push[x] EXCEPT !.at = "call", !.left = asked.halls]]
      BY <1>8 DEF AnnounceFirstRank
    <3>3. [push[x] EXCEPT !.at = "call", !.left = asked.halls].at = "call"
      BY <3>1 DEF Pushes
    <3> QED BY <3>2, <3>3
  <2>4. push'[x] = p /\ \A y \in Messages : y # x => push'[y] = push[y]
    BY <1>1, <2>3
  <2>5. \A h \in Halls, y \in Messages :
          /\ Has(h, y)' \/ y \in pend'[h] => push'[y].at # "idle" /\ h \notin push'[y].left
          /\ ~ (Has(h, y)' /\ y \in pend'[h])
    BY <1>2, <1>4, <2>1, <2>2, <2>4
  <2>6. \A y \in Messages : push'[y].at = "idle" => push'[y].left = {}
    BY <1>2, <2>3, <2>4
  <2> QED BY <1>4, <2>1, <2>5, <2>6 DEF OnceInv
<1>9. ASSUME NEW x \in Messages, NEW g \in Halls, CallHall(x, g) PROVE OnceInv'
  <2>1. /\ push[x].at = "call" /\ g \in push[x].left /\ arrived' = arrived
        /\ push' = [push EXCEPT ![x] = [at |-> "wait", left |-> push[x].left \ {g}, hall |-> g]]
        /\ pend' = [pend EXCEPT ![g] = pend[g] \cup {x}]
    BY <1>9 DEF CallHall, listVars
  <2>2. /\ push'[x].at = "wait" /\ push'[x].left = push[x].left \ {g}
        /\ \A y \in Messages : y # x => push'[y] = push[y]
        /\ pend'[g] = pend[g] \cup {x} /\ \A h \in Halls : h # g => pend'[h] = pend[h]
    BY <1>1, <2>1
  <2>3. ~ Has(g, x) /\ x \notin pend[g]
    BY <1>2, <2>1
  <2>4. ASSUME NEW h \in Halls, NEW y \in Messages
        PROVE  /\ Has(h, y)' \/ y \in pend'[h] => push'[y].at # "idle" /\ h \notin push'[y].left
               /\ ~ (Has(h, y)' /\ y \in pend'[h])
    <3>1. Has(h, y)' <=> Has(h, y)
      BY <1>4, <2>1
    <3>2. y \in pend'[h] <=> y \in pend[h] \/ (h = g /\ y = x)
      BY <2>2
    <3>3. /\ Has(h, y) \/ y \in pend[h] => push[y].at # "idle" /\ h \notin push[y].left
          /\ ~ (Has(h, y) /\ y \in pend[h])
      BY <1>2
    <3> QED BY <2>2, <2>3, <3>1, <3>2, <3>3
  <2>5. \A y \in Messages : push'[y].at = "idle" => push'[y].left = {}
    BY <1>2, <2>2
  <2> QED BY <1>4, <2>1, <2>4, <2>5 DEF OnceInv
<1>10. ASSUME NEW x \in Messages, NEW g \in Halls, RemotePush(g, x) PROVE OnceInv'
  <2>1. /\ x \in pend[g] /\ push' = push /\ pend' = [pend EXCEPT ![g] = pend[g] \ {x}]
        /\ arrived' = [arrived EXCEPT ![g] = Append(arrived[g], <<x, now>>)]
    BY <1>10 DEF RemotePush, PushNew
  <2>2. ~ Has(g, x) /\ push[x].at # "idle" /\ g \notin push[x].left
    BY <1>2, <2>1
  <2>3. \A h \in Halls, y \in Messages : Has(h, y)' <=> Has(h, y) \/ (h = g /\ y = x)
    BY <2>1, <2>2, HasPushed
  <2>4. \A h \in Halls : \A j, k \in 1..Len(arrived'[h]) :
          arrived'[h][j][1] = arrived'[h][k][1] => j = k
    BY <2>1, <2>2, HasPushed
  <2>5. \A h \in Halls, y \in Messages : y \in pend'[h] <=> y \in pend[h] /\ ~ (h = g /\ y = x)
    BY <1>1, <2>1
  <2>6. \A h \in Halls, y \in Messages :
          /\ Has(h, y)' \/ y \in pend'[h] => push'[y].at # "idle" /\ h \notin push'[y].left
          /\ ~ (Has(h, y)' /\ y \in pend'[h])
    BY <1>2, <2>1, <2>2, <2>3, <2>5
  <2> QED BY <1>2, <2>1, <2>4, <2>6 DEF OnceInv
<1>11. ASSUME NEW x \in Messages, HallReturns(x) \/ PushReturns(x) \/ CallFails(x) \/ HallIsCut(x)
       PROVE  OnceInv'
  <2>1. push[x] \in Pushes
    BY <1>1
  <2>2. \A h \in Halls : pend'[h] \subseteq pend[h]
    <3>1. pend' = pend \/ \E g, S : pend' = [pend EXCEPT ![g] = S] /\ S \subseteq pend[g]
      BY <1>11 DEF HallReturns, PushReturns, CallFails, HallIsCut
    <3> QED BY <1>1, <3>1
  <2>3. UNCHANGED arrived
    BY <1>11 DEF HallReturns, PushReturns, CallFails, HallIsCut, listVars
  <2>4. \E p \in Pushes : /\ push' = [push EXCEPT ![x] = p]
                          /\ p.at # "idle" /\ p.left \subseteq push[x].left
    <3>1. /\ [push[x] EXCEPT !.at = "call"] \in Pushes /\ [push[x] EXCEPT !.at = "done"] \in Pushes
          /\ [push[x] EXCEPT !.left = {}] \in Pushes
          /\ [push[x] EXCEPT !.at = "call", !.left = {}] \in Pushes
          /\ [push[x] EXCEPT !.at = "call"].left = push[x].left
          /\ [push[x] EXCEPT !.at = "done"].left = push[x].left
          /\ [push[x] EXCEPT !.left = {}].left = {} /\ [push[x] EXCEPT !.left = {}].at = push[x].at
          /\ [push[x] EXCEPT !.at = "call", !.left = {}].left = {}
          /\ [push[x] EXCEPT !.at = "call"].at = "call"
          /\ [push[x] EXCEPT !.at = "done"].at = "done"
          /\ [push[x] EXCEPT !.at = "call", !.left = {}].at = "call"
      BY <2>1 DEF Pushes
    <3>2. CASE HallReturns(x)
      <4>1. push' = [push EXCEPT ![x] = [push[x] EXCEPT !.at = "call"]]
        BY <3>2 DEF HallReturns
      <4> QED BY <3>1, <4>1
    <3>3. CASE PushReturns(x)
      <4>1. push' = [push EXCEPT ![x] = [push[x] EXCEPT !.at = "done"]]
        BY <3>3 DEF PushReturns
      <4> QED BY <3>1, <4>1
    <3>4. CASE CallFails(x)
      <4>1. push' = [push EXCEPT ![x] = [push[x] EXCEPT !.at = "call", !.left = {}]]
        BY <3>4 DEF CallFails
      <4> QED BY <3>1, <4>1
    <3>5. CASE HallIsCut(x)
      <4>1. /\ push[x].at # "idle"
            /\ push' = push \/ push' = [push EXCEPT ![x] = [push[x] EXCEPT !.left = {}]]
        BY <3>5 DEF HallIsCut
      <4>2. push' = push => push' = [push EXCEPT ![x] = push[x]]
        BY <1>1
      <4> QED BY <2>1, <3>1, <4>1, <4>2
    <3> QED BY <1>11, <3>2, <3>3, <3>4, <3>5
  <2> QED BY <1>5, <2>2, <2>3, <2>4
<1>12. ASSUME NEW r \in Requests, CheckAndAnouncement(r) \/ GetSome(r) \/ Received(r) PROVE OnceInv'
  BY <1>6, <1>12 DEF CheckAndAnouncement, GetSome, Received, callVars, listVars
<1>13. ASSUME Tick \/ UNCHANGED vars PROVE OnceInv'
  BY <1>6, <1>13 DEF Tick, vars, callVars, listVars
<1> QED BY <1>7, <1>8, <1>9, <1>10, <1>11, <1>12, <1>13 DEF Next, CallStep

\* A player who follows goes on to do so, until he reads.
LEMMA StillFollows ==
  ASSUME TypeInv, OnceInv, ListInv, [Next]_vars,
         NEW h \in Halls, NEW g \in Seq(Messages \cup {None}), NEW c, FollowsIn(h, g, c)
  PROVE  FollowsIn(h, g, c)'
<1>1. now \in Nat /\ arrived \in [Halls -> Seq(Messages \X Nat)] /\ mgr \in [Halls -> Mgrs]
  BY DEF TypeInv
<1>2. PICK m, l, a : m = mgr[h] /\ l = Listed(mgr[h]) /\ a = arrived[h]
  OBVIOUS
<1>3. Shape(m, l) /\ Latest(m, l, a) /\ a \in Seq(Messages \X Nat)
  BY <1>1, <1>2 DEF ListInv
<1>4. PICK p : p = Positions(a, g)
  OBVIOUS
<1>5. Follows(m, l, a, p, g, c)
  BY <1>2, <1>4 DEF FollowsIn
<1>6. ASSUME mgr'[h] = mgr[h], arrived'[h] = arrived[h], now' \in {now, now + 1}
      PROVE  FollowsIn(h, g, c)'
  <2>1. now' \in Nat /\ now <= now'
    BY <1>1, <1>6
  <2>2. Follows(m, l, a, p, g, c)'
    BY <1>1, <1>3, <1>5, <2>1, Later
  <2>3. m = mgr[h]' /\ l = Listed(mgr[h])' /\ a = arrived[h]' /\ p = Positions(arrived[h], g)'
    BY <1>2, <1>4, <1>6
  <2> QED BY <2>2, <2>3 DEF FollowsIn
<1>7. ASSUME NEW f \in Halls, NEW x \in Messages, PushNew(f, x), now' = now
      PROVE  FollowsIn(h, g, c)'
  <2>1. PICK n \in Mgrs, e \in 0..Len(Listed(mgr[f])), i \in Items, t \in Seq(Items) :
              /\ mgr' = [mgr EXCEPT ![f] = n]
              /\ PushedTo(mgr[f], Listed(mgr[f]), arrived[f], x, n, e, i, t)
    BY <1>7, PushNewIs
  <2>2. /\ arrived' = [arrived EXCEPT ![f] = Append(arrived[f], <<x, now>>)]
        /\ Append(arrived[f], <<x, now>>) \in Seq(Messages \X Nat)
    BY <1>7, PushNewIs
  <2>3. CASE h # f
    BY <1>1, <1>6, <1>7, <2>1, <2>2, <2>3
  <2>4. CASE h = f
    <3>1. PICK b : b = Append(a, <<x, now>>)
      OBVIOUS
    <3>2. /\ PushedTo(m, l, a, x, n, e, i, t) /\ e \in 0..Len(l) /\ b \in Seq(Messages \X Nat)
          /\ mgr'[h] = n /\ arrived'[h] = b
      BY <1>1, <1>2, <2>1, <2>2, <2>4, <3>1
    <3>3. Shape(n, t)
      BY <3>2 DEF PushedTo
    <3>4. Listed(n) = t
      BY <3>3, ListedIs
    <3>5. Latest(n, t, b) /\ Follows(n, t, b, p, g, c)
      BY <1>1, <1>3, <1>5, <3>1, <3>2, LatestPushed, FollowsPushed
    <3>6. OnceInv'
      BY OnceInvariance
    <3>7. /\ \A j, k \in 1..Len(b) : b[j][1] = b[k][1] => j = k
          /\ \A k \in 1..Len(g) : p[k] \in 1..Len(b) /\ b[p[k]][1] = g[k]
          /\ Len(b) \in Nat /\ DOMAIN b = 1..Len(b) /\ Len(g) \in Nat
      <4>1. \A j, k \in 1..Len(b) : b[j][1] = b[k][1] => j = k
        BY <3>2, <3>6 DEF OnceInv
      <4>2. \A k \in 1..Len(g) : p[k] \in 1..Len(b) /\ b[p[k]][1] = g[k]
        BY <3>5 DEF Follows
      <4>3. Len(b) \in Nat /\ DOMAIN b = 1..Len(b)
        BY <3>2
      <4>4. Len(g) \in Nat
        OBVIOUS
      <4> QED BY <4>1, <4>2, <4>3, <4>4
    <3>8. PICK q : q = Positions(b, g)
      OBVIOUS
    <3>9. SameNumbers(g, q, p)
      BY <3>7, <3>8, PositionsAre
    <3>10. Follows(n, t, b, q, g, c)
      BY <3>5, <3>7, <3>9, FollowsSame
    <3>11. Follows(n, t, b, q, g, c)'
      <4>1. now' \in Nat /\ now <= now'
        BY <1>1, <1>7
      <4> QED BY <1>1, <3>2, <3>3, <3>5, <3>10, <4>1, Later
    <3>12. n = mgr[h]' /\ t = Listed(mgr[h])' /\ b = arrived[h]' /\ q = Positions(arrived[h], g)'
      BY <3>2, <3>4, <3>8
    <3> QED BY <3>11, <3>12 DEF FollowsIn
  <2> QED BY <2>3, <2>4
<1>8. CASE \E f \in Halls, x \in Messages : PushNew(f, x) /\ UNCHANGED <<asked, now, readVars>>
  BY <1>7, <1>8
<1>9. CASE UNCHANGED listVars /\ now' \in {now, now + 1}
  BY <1>6, <1>9 DEF listVars
<1> QED BY <1>8, <1>9, Kinds

\* So it is with a player none of whose requests does a step.
LEMMA ReadAsBefore ==
  ASSUME TypeInv, OnceInv, ListInv, [Next]_vars, NEW h \in Halls, ReadIn(h),
         got'[h] = got[h], cursor'[h] = cursor[h],
         h \in overlapped => h \in overlapped', h \in stale => h \in stale',
         \A r \in Requests : Reads(r, h)' =>
           Reads(r, h) /\ request'[r] = request[r] /\ mgr'[h] = mgr[h]
  PROVE  ReadIn(h)'
<1>1. /\ got[h] \in Seq(Messages \cup {None})
      /\ \A r \in Requests : request[r].items \in Seq(Messages \cup {None})
  <2>1. request \in [Requests -> Answers] /\ got \in [Halls -> Seq(Messages \cup {None})]
    BY DEF TypeInv, Answers
  <2>2. \A q \in Answers : q.items \in Seq(Messages \cup {None})
    BY DEF Answers
  <2> QED BY <2>1, <2>2
<1>2. h \notin overlapped' => \A q, r \in Requests : Reads(q, h)' /\ Reads(r, h)' => q = r
  BY DEF ReadIn
<1>3. ASSUME h \notin overlapped' \cup stale'
      PROVE  FollowsIn(h, got[h], cursor[h])'
  <2>1. PICK g, c : g = got[h] /\ c = cursor[h]
    OBVIOUS
  <2>2. FollowsIn(h, g, c)
    BY <1>3, <2>1 DEF ReadIn
  <2>3. FollowsIn(h, g, c)'
    BY <1>1, <2>1, <2>2, StillFollows
  <2>4. g = got[h]' /\ c = cursor[h]'
    BY <2>1
  <2> QED BY <2>3, <2>4
<1>4. ASSUME h \notin overlapped' \cup stale', NEW r \in Requests, Reads(r, h)'
      PROVE  FollowsIn(h, got[h] \o request[r].items, After(request[r], mgr[h], cursor[h]))'
  <2>1. Reads(r, h) /\ request'[r] = request[r] /\ mgr'[h] = mgr[h]
    BY <1>4
  <2>2. PICK g, c : /\ g = got[h] \o request[r].items
                    /\ c = After(request[r], mgr[h], cursor[h])
    OBVIOUS
  <2>3. FollowsIn(h, g, c)
    BY <1>4, <2>1, <2>2 DEF ReadIn
  <2>4. g \in Seq(Messages \cup {None})
    <3>1. got[h] \in Seq(Messages \cup {None}) /\ request[r].items \in Seq(Messages \cup {None})
      BY <1>1
    <3>2. \A s, t \in Seq(Messages \cup {None}) : s \o t \in Seq(Messages \cup {None})
      OBVIOUS
    <3> QED BY <2>2, <3>1, <3>2
  <2>5. FollowsIn(h, g, c)'
    BY <2>3, <2>4, StillFollows
  <2>6. g = (got[h] \o request[r].items)' /\ c = After(request[r], mgr[h], cursor[h])'
    BY <2>1, <2>2 DEF After
  <2> QED BY <2>5, <2>6
<1> QED BY <1>2, <1>3, <1>4 DEF ReadIn

\* GetSome carries a player on who follows.
LEMMA GetSomeFollows ==
  ASSUME TypeInv, OnceInv, ListInv, NEW h \in Halls, FollowsIn(h, got[h], cursor[h]),
         NEW seen, seen = Chain(mgr[h], Start(mgr[h], cursor[h]), SendMax),
         ~ (/\ cursor[h].item # None /\ mgr[h].time[cursor[h].item] = cursor[h].time
            /\ Astray(h, cursor[h].item, seen)),
         NEW f, f = Fresh(mgr[h], seen),
         NEW g, g = got[h] \o Texts(mgr[h], f),
         NEW c, c = IF f = <<>> THEN cursor[h]
                    ELSE [item |-> Last(f), time |-> mgr[h].time[Last(f)]]
  PROVE  FollowsIn(h, g, c)
<1>1. PICK m, l, a, g1, c1 : /\ m = mgr[h] /\ l = Listed(mgr[h]) /\ a = arrived[h]
                             /\ g1 = got[h] /\ c1 = cursor[h]
  OBVIOUS
<1>2. /\ a \in Seq(Messages \X Nat) /\ g1 \in Seq(Messages \cup {None})
      /\ c1.item \in Items \cup {None}
  <2>1. /\ arrived \in [Halls -> Seq(Messages \X Nat)]
        /\ got \in [Halls -> Seq(Messages \cup {None})]
        /\ cursor \in [Halls -> [item : Items \cup {None}, time : Nat \cup {None}]]
    BY DEF TypeInv
  <2>2. c1 \in [item : Items \cup {None}, time : Nat \cup {None}]
    BY <1>1, <2>1
  <2> QED BY <1>1, <2>1, <2>2
<1>3. Shape(m, l) /\ Latest(m, l, a) /\ Used(m, l)
  BY <1>1 DEF ListInv
<1>4. \A j, k \in 1..Len(a) : a[j][1] = a[k][1] => j = k
  BY <1>1 DEF OnceInv
<1>5. PICK p : p = Positions(a, g1) /\ Follows(m, l, a, p, g1, c1)
  BY <1>1 DEF FollowsIn
<1>6. ~ (c1.item # None /\ m.time[c1.item] = c1.time /\ Strays(m, l, g1, c1.item, seen))
  BY <1>1 DEF Astray, Strays
<1>7. seen = Chain(m, Start(m, c1), SendMax)
  BY <1>1
<1>8. /\ seen \in Seq(Items)
      /\ \E d \in 0..Len(seen), s \in 0..Len(l) : SeenFrom(m, l, a, LastOf(p, g1), seen, d, s)
  BY ONLY <1>2, <1>3, <1>4, <1>5, <1>6, <1>7, SeenIs
<1>9. PICK d, s : /\ d \in 0..Len(seen) /\ s \in 0..Len(l)
                  /\ SeenFrom(m, l, a, LastOf(p, g1), seen, d, s)
  BY <1>8
<1>10. /\ f = Fresh(m, seen) /\ g = g1 \o Texts(m, f)
       /\ c = IF f = <<>> THEN c1 ELSE [item |-> Last(f), time |-> m.time[Last(f)]]
  BY <1>1
<1>11. Follows(m, l, a, Positions(a, g), g, c)
  <2>1. seen \in Seq(Items) /\ d \in 0..Len(seen) /\ s \in 0..Len(l)
    BY <1>8, <1>9
  <2>2. SeenFrom(m, l, a, LastOf(p, g1), seen, d, s)
    BY <1>9
  <2>3. Follows(m, l, a, p, g1, c1)
    BY <1>5
  <2>4. f = Fresh(m, seen)
    BY <1>10
  <2>5. g = g1 \o Texts(m, f)
    BY <1>10
  <2>6. c = IF f = <<>> THEN c1 ELSE [item |-> Last(f), time |-> m.time[Last(f)]]
    BY <1>10
  <2> QED BY ONLY <1>2, <1>3, <1>4, <2>1, <2>2, <2>3, <2>4, <2>5, <2>6, FollowsRead, Zenon
<1> QED BY <1>1, <1>11 DEF FollowsIn

LEMMA GetSomeReads ==
  ASSUME TypeInv, OnceInv, ListInv, ReadInv, NEW r \in Requests, GetSome(r), NEW h \in Halls
  PROVE  ReadIn(h)'
<1>1. request \in [Requests -> Answers] /\ mgr \in [Halls -> Mgrs] /\ ReadIn(h) /\ [Next]_vars
      /\ cursor \in [Halls -> [item : Items \cup {None}, time : Nat \cup {None}]]
      /\ got[h] \in Seq(Messages \cup {None})
  BY DEF TypeInv, Answers, ReadInv, Next
<1>2. PICK f : f = asked.hall[r]
  OBVIOUS
<1>3. f \in Halls /\ request[r].at = "lock"
  BY <1>2, Scenario DEF TypeInv, GetSome
<1>4. PICK seen, fresh : /\ seen = Chain(mgr[f], Start(mgr[f], cursor[f]), SendMax)
                         /\ fresh = Fresh(mgr[f], seen)
  OBVIOUS
<1>5. PICK items, cur : /\ items = Texts(mgr[f], fresh)
                        /\ cur = IF fresh = <<>> THEN None ELSE Last(fresh)
  OBVIOUS
<1>6. /\ request' = [request EXCEPT ![r].at = "read", ![r].items = items, ![r].cur = cur]
      /\ overlapped' = IF Reading(f) THEN overlapped \cup {f} ELSE overlapped
      /\ stale' = IF /\ cursor[f].item # None /\ mgr[f].time[cursor[f].item] = cursor[f].time
                     /\ Astray(f, cursor[f].item, seen)
                  THEN stale \cup {f} ELSE stale
      /\ UNCHANGED <<asked, now, mgr, arrived, cursor, got>>
  BY <1>2, <1>4, <1>5 DEF GetSome, listVars, Texts
<1>7. \A q \in Requests : /\ q # r => request'[q] = request[q]
                          /\ Reads(q, h)' => (q = r /\ h = f) \/ (q # r /\ Reads(q, h))
  BY <1>1, <1>2, <1>6 DEF Reads
<1>8. h \in overlapped => h \in overlapped'
  BY <1>6
<1>9. h \in stale => h \in stale'
  BY <1>6
<1>10. CASE h # f
  <2>1. \A q \in Requests : Reads(q, h)' =>
           Reads(q, h) /\ request'[q] = request[q] /\ mgr'[h] = mgr[h]
    BY <1>6, <1>7, <1>10
  <2>2. got'[h] = got[h] /\ cursor'[h] = cursor[h]
    BY <1>6
  <2> QED BY <1>1, <1>8, <1>9, <2>1, <2>2, ReadAsBefore
<1>11. CASE h = f /\ Reading(f)
  BY <1>6, <1>11 DEF ReadIn
<1>12. CASE h = f /\ ~ Reading(f)
  <2>1. \A q \in Requests : Reads(q, h)' => q = r
    BY <1>7, <1>12 DEF Reading, Reads
  <2>2. ASSUME h \notin overlapped' \cup stale'
        PROVE  /\ FollowsIn(h, got[h], cursor[h])'
               /\ FollowsIn(h, got[h] \o request[r].items, After(request[r], mgr[h], cursor[h]))'
    <3>1. FollowsIn(h, got[h], cursor[h])
      BY <1>1, <1>8, <1>9, <2>2 DEF ReadIn
    <3>2. FollowsIn(h, got[h], cursor[h])'
      <4>1. PICK g, c : g = got[h] /\ c = cursor[h]
        OBVIOUS
      <4>2. FollowsIn(h, g, c) /\ g \in Seq(Messages \cup {None})
        BY <1>1, <3>1, <4>1
      <4>3. FollowsIn(h, g, c)'
        BY <1>1, <4>2, StillFollows
      <4>4. g = got[h]' /\ c = cursor[h]'
        BY <1>6, <4>1
      <4> QED BY <4>3, <4>4
    <3>3. ~ (/\ cursor[h].item # None /\ mgr[h].time[cursor[h].item] = cursor[h].time
             /\ Astray(h, cursor[h].item, seen))
      BY <1>6, <1>12, <2>2
    <3>4. PICK g, c : /\ g = got[h] \o Texts(mgr[h], fresh)
                      /\ c = IF fresh = <<>> THEN cursor[h]
                             ELSE [item |-> Last(fresh), time |-> mgr[h].time[Last(fresh)]]
      OBVIOUS
    <3>5. FollowsIn(h, g, c)
      BY <1>4, <1>12, <3>1, <3>3, <3>4, GetSomeFollows
    <3>12. fresh \in Seq(Items) /\ None \notin Items
      <4>1. cursor[f].item \in Items \cup {None} /\ mgr[f] \in Mgrs
        BY <1>1, <1>3
      <4> QED BY <1>4, <4>1, FreshItems, Constants
    <3>6. FollowsIn(h, g, c)'
      <4>1. Texts(mgr[h], fresh) \in Seq(Messages \cup {None})
        <5>1. mgr[h].msg \in [Items -> Messages \cup {None}]
          BY <1>1 DEF Mgrs
        <5> QED BY <3>12, <5>1 DEF Texts
      <4>2. \A s, t \in Seq(Messages \cup {None}) : s \o t \in Seq(Messages \cup {None})
        OBVIOUS
      <4>3. g \in Seq(Messages \cup {None})
        BY <1>1, <3>4, <4>1, <4>2
      <4> QED BY <1>1, <3>5, <4>3, StillFollows
    <3>7. fresh # <<>> => cur # None
      BY <1>5, <3>12 DEF Last
    <3>8. request'[r].items = items /\ request'[r].cur = cur
      <4>1. request[r] \in Answers
        BY <1>1
      <4>2. request'[r] = [request[r] EXCEPT !.at = "read", !.items = items, !.cur = cur]
        BY <1>1, <1>6
      <4> QED BY <4>1, <4>2 DEF Answers
    <3>9. g = (got[h] \o request[r].items)' /\ c = After(request[r], mgr[h], cursor[h])'
      BY <1>5, <1>6, <1>12, <3>4, <3>7, <3>8 DEF After
    <3> QED BY <3>2, <3>6, <3>9
  <2> QED BY <2>1, <2>2 DEF ReadIn
<1> QED BY <1>10, <1>11, <1>12

LEMMA ReceivedReads ==
  ASSUME TypeInv, OnceInv, ListInv, ReadInv, NEW r \in Requests, Received(r), NEW h \in Halls
  PROVE  ReadIn(h)'
<1>1. /\ request \in [Requests -> Answers] /\ ReadIn(h) /\ [Next]_vars
      /\ cursor \in [Halls -> [item : Items \cup {None}, time : Nat \cup {None}]]
      /\ got \in [Halls -> Seq(Messages \cup {None})]
  BY DEF TypeInv, Answers, ReadInv, Next
<1>2. PICK f : f = asked.hall[r]
  OBVIOUS
<1>3. f \in Halls /\ request[r].at = "read"
  BY <1>2, Scenario DEF TypeInv, Received
<1>4. PICK g, c : g = got[f] \o request[r].items /\ c = After(request[r], mgr[f], cursor[f])
  OBVIOUS
<1>5. /\ request' = [request EXCEPT ![r] = Ended]
      /\ got' = [got EXCEPT ![f] = g] /\ cursor' = [cursor EXCEPT ![f] = c]
      /\ UNCHANGED <<asked, now, mgr, arrived, overlapped, stale>>
  <2>1. cursor = [cursor EXCEPT ![f] = cursor[f]]
    BY <1>1
  <2> QED BY <1>2, <1>4, <2>1 DEF Received, listVars, After
<1>6. \A q \in Requests : Reads(q, h)' => q # r /\ request'[q] = request[q] /\ Reads(q, h)
  BY <1>1, <1>5 DEF Reads, Ended
<1>7. CASE h # f
  <2>1. got'[h] = got[h] /\ cursor'[h] = cursor[h]
    BY <1>1, <1>5, <1>7
  <2> QED BY <1>1, <1>5, <1>6, <2>1, ReadAsBefore
<1>8. CASE h = f
  <2>1. Reads(r, h)
    BY <1>2, <1>3, <1>8 DEF Reads
  <2>2. h \notin overlapped' => \A q \in Requests : ~ Reads(q, h)'
    BY <1>1, <1>5, <1>6, <2>1 DEF ReadIn
  <2>3. ASSUME h \notin overlapped' \cup stale'
        PROVE  FollowsIn(h, got[h], cursor[h])'
    <3>1. FollowsIn(h, g, c)
      BY <1>1, <1>4, <1>5, <1>8, <2>1, <2>3 DEF ReadIn
    <3>2. g \in Seq(Messages \cup {None})
      <4>1. got[f] \in Seq(Messages \cup {None}) /\ request[r].items \in Seq(Messages \cup {None})
        BY <1>1, <1>3 DEF Answers
      <4>2. \A s, t \in Seq(Messages \cup {None}) : s \o t \in Seq(Messages \cup {None})
        OBVIOUS
      <4> QED BY <1>4, <4>1, <4>2
    <3>3. FollowsIn(h, g, c)'
      BY <1>1, <3>1, <3>2, StillFollows
    <3>4. g = got[h]' /\ c = cursor[h]'
      BY <1>1, <1>5, <1>8
    <3> QED BY <3>3, <3>4
  <2> QED BY <2>2, <2>3 DEF ReadIn
<1> QED BY <1>7, <1>8

LEMMA ReadInvariance ==
  ASSUME TypeInv, OnceInv, ListInv, ReadInv, [Next]_vars
  PROVE  ReadInv'
<1> SUFFICES ASSUME NEW h \in Halls PROVE ReadIn(h)'
  BY DEF ReadInv
<1>1. request \in [Requests -> Answers] /\ ReadIn(h) /\ mgr \in [Halls -> Mgrs]
  BY DEF TypeInv, Answers, ReadInv
<1>2. ASSUME NEW g \in Halls, NEW x \in Messages, PushNew(g, x), UNCHANGED <<asked, now, readVars>>
      PROVE  ReadIn(h)'
  <2>1. UNCHANGED <<asked, now, request, cursor, got, overlapped, stale>>
    BY <1>2 DEF readVars
  <2>2. ASSUME NEW r \in Requests, Reads(r, h)'
        PROVE  Reads(r, h) /\ request'[r] = request[r] /\ mgr'[h] = mgr[h]
    <3>1. Reads(r, h)
      BY <2>1, <2>2 DEF Reads
    <3>2. g # h
      BY <1>2, <3>1 DEF PushNew, Reading, Reads
    <3>3. mgr'[h] = mgr[h]
      BY <1>1, <1>2, <3>2 DEF PushNew
    <3> QED BY <2>1, <3>1, <3>3
  <2> QED BY <1>1, <2>1, <2>2, ReadAsBefore
<1>3. ASSUME UNCHANGED <<asked, listVars, readVars>> PROVE ReadIn(h)'
  <2>1. UNCHANGED <<asked, mgr, request, cursor, got, overlapped, stale>>
    BY <1>3 DEF listVars, readVars
  <2>2. \A r \in Requests : Reads(r, h)' =>
          Reads(r, h) /\ request'[r] = request[r] /\ mgr'[h] = mgr[h]
    BY <2>1 DEF Reads
  <2> QED BY <1>1, <2>1, <2>2, ReadAsBefore
<1>4. ASSUME NEW r \in Requests, CheckAndAnouncement(r) PROVE ReadIn(h)'
  <2>1. /\ request' = [request EXCEPT ![r].at = "lock", ![r].since = now]
        /\ UNCHANGED <<asked, mgr, cursor, got, overlapped, stale>>
    BY <1>4 DEF CheckAndAnouncement, listVars
  <2>2. \A q \in Requests : Reads(q, h)' =>
          Reads(q, h) /\ request'[q] = request[q] /\ mgr'[h] = mgr[h]
    <3>1. request'[r].at = "lock" /\ \A q \in Requests : q # r => request'[q] = request[q]
      <4>1. request[r] \in Answers
        BY <1>1
      <4>2. request'[r] = [request[r] EXCEPT !.at = "lock", !.since = now]
        BY <1>1, <2>1
      <4>3. request'[r].at = "lock"
        BY <4>1, <4>2 DEF Answers
      <4> QED BY <1>1, <2>1, <4>3
    <3> QED BY <2>1, <3>1 DEF Reads
  <2> QED BY <1>1, <2>1, <2>2, ReadAsBefore
<1>5. ASSUME NEW r \in Requests, GetSome(r) \/ Received(r) PROVE ReadIn(h)'
  BY <1>5, GetSomeReads, ReceivedReads
<1> QED BY <1>2, <1>3, <1>4, <1>5, Kinds
-----------------------------------------------------------------------------
(* The theorems. *)

LEMMA Initially ==
  ASSUME Init
  PROVE  IInv
<1>1. PICK m : m = [head |-> None, tail |-> None,
                    next |-> [i \in Items |-> None], prev |-> [i \in Items |-> None],
                    time |-> [i \in Items |-> None], msg |-> [i \in Items |-> None],
                    free |-> [i \in Items |-> i]]
  OBVIOUS
<1>2. mgr = [h \in Halls |-> m] /\ \A h \in Halls : mgr[h] = m
  BY <1>1 DEF Init
<1>3. PoolSize \in Nat /\ Cooldown \in Nat
  BY Constants, AnnouncementsAssumption DEF AnnouncementsAssumption
<1>4. /\ m.free \in Seq(Items) /\ Len(m.free) = PoolSize
      /\ \A k \in 1..PoolSize : m.free[k] = k
  <2>1. m.free = [i \in 1..PoolSize |-> i] /\ Items = 1..PoolSize
    BY <1>1 DEF Items
  <2>2. m.free \in [1..PoolSize -> Items]
    BY <2>1
  <2>3. \A T : \A n \in Nat : \A w \in [1..n -> T] : w \in Seq(T) /\ Len(w) = n
    OBVIOUS
  <2>4. \A k \in 1..PoolSize : m.free[k] = k
    BY <2>1
  <2> QED BY <1>3, <2>2, <2>3, <2>4
<1>5. /\ m \in Mgrs /\ m.head = None /\ m.tail = None /\ m.time = [i \in Items |-> None]
  <2>1. m.free \in Seq(Items)
    BY <1>4
  <2>2. [i \in Items |-> i] = m.free
    BY <1>1
  <2> QED BY <1>1, <2>1, <2>2 DEF Mgrs
<1>6. Shape(m, <<>>)
  <2>1. IsList(m, <<>>)
    BY <1>5 DEF IsList
  <2>2. IsPool(m, <<>>)
    BY <1>3, <1>4 DEF IsPool
  <2> QED BY <1>5, <2>1, <2>2 DEF Shape
<1>7. Listed(m) = <<>>
  BY <1>6, ListedIs
<1>8. \A r \in Requests : request[r] = Ended
  BY DEF Init
<1>9. TypeInv
  <2>1. asked \in Scenarios /\ now = 0 /\ asked.ticks \in Nat
    BY AnnouncementsAssumption DEF Init, AnnouncementsAssumption
  <2>2. mgr \in [Halls -> Mgrs]
    BY <1>2, <1>5
  <2>3. /\ locker \in [Halls -> Messages \cup {None}]
        /\ push \in [Messages -> Pushes] /\ pend \in [Halls -> SUBSET Messages]
    BY DEF Init, Pushes
  <2>4. request \in [Requests -> Answers] /\ \A r \in Requests : request[r].at = "idle"
    <3>1. Ended \in Answers
      <4>1. <<>> \in Seq(Messages \cup {None})
        OBVIOUS
      <4> QED BY <4>1 DEF Ended, Answers
    <3>2. request = [r \in Requests |-> Ended]
      BY DEF Init
    <3> QED BY <3>1, <3>2 DEF Ended
  <2>5. /\ cursor \in [Halls -> [item : Items \cup {None}, time : Nat \cup {None}]]
        /\ got \in [Halls -> Seq(Messages \cup {None})]
        /\ arrived \in [Halls -> Seq(Messages \X Nat)]
    BY DEF Init
  <2> QED BY <2>1, <2>2, <2>3, <2>4, <2>5 DEF TypeInv, Pushes, Answers
<1>10. LockInv
  BY DEF Init, LockInv
<1>11. OnceInv
  <2>1. /\ \A h \in Halls : arrived[h] = <<>> /\ pend[h] = {}
        /\ \A x \in Messages : push[x].left = {}
    BY DEF Init
  <2> QED BY <2>1 DEF OnceInv, Has
<1>12. ListInv
  <2> SUFFICES ASSUME NEW h \in Halls
               PROVE  Latest(m, <<>>, arrived[h]) /\ Used(m, <<>>)
    BY <1>2, <1>6, <1>7 DEF ListInv
  <2>1. arrived[h] = <<>>
    BY DEF Init
  <2>2. Latest(m, <<>>, arrived[h])
    BY <2>1 DEF Latest
  <2>3. Used(m, <<>>)
    BY <1>5 DEF Used
  <2> QED BY <2>2, <2>3
<1>13. ReadInv
  <2> SUFFICES ASSUME NEW h \in Halls PROVE ReadIn(h)
    BY DEF ReadInv
  <2>1. \A r \in Requests : ~ Reads(r, h)
    BY <1>8 DEF Ended, Reads
  <2>2. FollowsIn(h, got[h], cursor[h])
    <3>1. PICK c : c = cursor[h]
      OBVIOUS
    <3>2. /\ got[h] = <<>> /\ arrived[h] = <<>> /\ Listed(mgr[h]) = <<>>
          /\ c.item = None
      BY <1>2, <1>7, <3>1 DEF Init
    <3>3. PICK p : p = Positions(arrived[h], got[h])
      OBVIOUS
    <3>4. Follows(mgr[h], <<>>, <<>>, p, <<>>, c)
      BY <3>2 DEF Follows
    <3> QED BY <3>1, <3>2, <3>3, <3>4 DEF FollowsIn
  <2> QED BY <2>1, <2>2 DEF ReadIn
<1> QED BY <1>9, <1>10, <1>11, <1>12, <1>13 DEF IInv

LEMMA Inductive == IInv /\ [Next]_vars => IInv'
BY TypeInvariance, LockInvariance, OnceInvariance, ListInvariance, ReadInvariance DEF IInv

LEMMA Invariant == Spec => []IInv
<1>1. Init => IInv
  BY Initially
<1> QED BY <1>1, Inductive, PTL DEF Spec

LEMMA ListsAreTyped ==
  ASSUME IInv
  PROVE  TypeOK
<1>1. now \in 0..asked.ticks
  BY Scenario DEF IInv, TypeInv
<1>2. ASSUME NEW h \in Halls
      PROVE  LET m == mgr[h]
                 l == Listed(m)
             IN
             /\ ToSet(l) \cap ToSet(m.free) = {} /\ Len(l) + Len(m.free) = PoolSize
             /\ IsInjective(l) /\ IsInjective(m.free)
             /\ m.tail = IF l = <<>> THEN None ELSE Last(l)
             /\ \A k \in DOMAIN l : m.prev[l[k]] = IF k = 1 THEN None ELSE l[k - 1]
  <2> DEFINE m == mgr[h]
             l == Listed(m)
  <2>1. Shape(m, l)
    BY DEF IInv, ListInv
  <2>2. l \in Seq(Items) /\ m.free \in Seq(Items)
    BY <2>1 DEF Shape, IsList, Mgrs
  <2>3. DOMAIN l = 1..Len(l) /\ DOMAIN m.free = 1..Len(m.free)
    BY <2>2
  <2>4. /\ \A j, k \in DOMAIN l : l[j] = l[k] => j = k
        /\ \A j, k \in DOMAIN m.free : m.free[j] = m.free[k] => j = k
        /\ \A j \in DOMAIN m.free, k \in DOMAIN l : m.free[j] # l[k]
        /\ Len(l) + Len(m.free) = PoolSize
        /\ \A k \in DOMAIN l : m.prev[l[k]] = IF k = 1 THEN None ELSE l[k - 1]
    BY <2>1, <2>3 DEF Shape, IsList, IsPool
  <2>5. ToSet(l) \cap ToSet(m.free) = {}
    BY <2>4 DEF ToSet
  <2>6. IsInjective(l) /\ IsInjective(m.free)
    BY <2>4 DEF IsInjective
  <2>7. m.tail = IF l = <<>> THEN None ELSE Last(l)
    <3>1. m.tail = IF Len(l) = 0 THEN None ELSE l[Len(l)]
      BY <2>1 DEF Shape, IsList
    <3>2. l = <<>> <=> Len(l) = 0
      BY <2>2
    <3> QED BY <3>1, <3>2 DEF Last
  <2> HIDE DEF m, l
  <2>8. /\ ToSet(l) \cap ToSet(m.free) = {} /\ Len(l) + Len(m.free) = PoolSize
        /\ IsInjective(l) /\ IsInjective(m.free)
        /\ m.tail = IF l = <<>> THEN None ELSE Last(l)
        /\ \A k \in DOMAIN l : m.prev[l[k]] = IF k = 1 THEN None ELSE l[k - 1]
    BY <2>4, <2>5, <2>6, <2>7
  <2> QED BY <2>8, Zenon DEF m, l
<1>3. \A h \in Halls : locker[h] # None => push[locker[h]].at \in {"call", "wait"}
  BY DEF IInv, LockInv
<1> QED BY <1>1, <1>2, <1>3 DEF TypeOK

LEMMA ListsAreLatest ==
  ASSUME IInv
  PROVE  ListKeepsLatest
<1> SUFFICES ASSUME NEW h \in Halls, NEW m, m = mgr[h], NEW l, l = Listed(m), NEW n,
                    n = Len(arrived[h]) - Len(l)
             PROVE  /\ \A k \in DOMAIN l : arrived[h][n + k] = <<m.msg[l[k]], m.time[l[k]]>>
                    /\ Len(l) = PoolSize \/ \A k \in 1..n : now - arrived[h][k][2] >= Exist
  BY DEF ListKeepsLatest
<1>1. Shape(m, l) /\ Latest(m, l, arrived[h])
  BY DEF IInv, ListInv
<1>2. DOMAIN l = 1..Len(l)
  <2>1. l \in Seq(Items)
    BY <1>1 DEF Shape, IsList
  <2> QED BY <2>1
<1> QED BY <1>1, <1>2 DEF Latest

LEMMA ReadersFollow ==
  ASSUME IInv
  PROVE  ReadInOrder
<1> SUFFICES ASSUME NEW h \in Halls, h \notin overlapped \cup stale,
                    NEW m, m = mgr[h], NEW l, l = Listed(m), NEW a, a = arrived[h],
                    NEW g, g = got[h]
             PROVE  /\ \A i, k \in DOMAIN g : i < k => Position(a, g[i]) < Position(a, g[k])
                    /\ \A i, k \in DOMAIN l :
                         i < k /\ m.msg[l[k]] \in ToSet(g)
                           => Expired(m, l[i]) \/ m.msg[l[i]] \in ToSet(g)
  BY DEF ReadInOrder, Position
<1>1. /\ Shape(m, l) /\ Latest(m, l, a) /\ a \in Seq(Messages \X Nat)
      /\ g \in Seq(Messages \cup {None})
  BY DEF IInv, ListInv, TypeInv
<1>2. PICK p, c : p = Positions(a, g) /\ c = cursor[h]
  OBVIOUS
<1>3. Follows(m, l, a, p, g, c)
  BY <1>2 DEF IInv, ReadInv, ReadIn, FollowsIn
<1>4. /\ Len(g) \in Nat /\ DOMAIN g = 1..Len(g) /\ DOMAIN l = 1..Len(l)
      /\ Len(l) \in Nat /\ Len(a) \in Nat
  <2>1. l \in Seq(Items)
    BY <1>1 DEF Shape, IsList
  <2> QED BY <1>1, <2>1
<1>5. Followed(m, l, a, p, g, c)
  BY <1>1, <1>3, <1>4, FollowsFacts
<1>6. \A j, k \in 1..Len(a) : a[j][1] = a[k][1] => j = k
  BY DEF IInv, OnceInv
<1>7. \A k \in 1..Len(l) : /\ (Len(a) - Len(l)) + k \in 1..Len(a)
                           /\ m.msg[l[k]] = a[(Len(a) - Len(l)) + k][1]
  <2>1. AtTheEnd(m, l, a)
    BY <1>1, ListTimes
  <2> QED BY <2>1 DEF AtTheEnd
<1>8. /\ \A j \in 1..Len(g) : p[j] \in 1..Len(a) /\ a[p[j]][1] = g[j] /\ p[j] <= LastOf(p, g)
      /\ \A j, k \in 1..Len(g) : j < k => p[j] < p[k]
      /\ \A k \in 1..Len(l) : (Len(a) - Len(l)) + k <= LastOf(p, g)
           => Expired(m, l[k]) \/ \E j \in 1..Len(g) : p[j] = (Len(a) - Len(l)) + k
      /\ LastOf(p, g) \in 0..Len(a)
  BY <1>5 DEF Followed
<1>9. \A i, k \in DOMAIN g : i < k => Position(a, g[i]) < Position(a, g[k])
  BY <1>2, <1>4, <1>8 DEF Positions
<1>10. ASSUME NEW i \in DOMAIN l, NEW k \in DOMAIN l, i < k, m.msg[l[k]] \in ToSet(g),
              ~ Expired(m, l[i])
       PROVE  m.msg[l[i]] \in ToSet(g)
  <2>1. PICK j \in 1..Len(g) : g[j] = m.msg[l[k]]
    BY <1>4, <1>10 DEF ToSet
  <2>2. p[j] = (Len(a) - Len(l)) + k
    <3>1. (Len(a) - Len(l)) + k \in 1..Len(a) /\ a[(Len(a) - Len(l)) + k][1] = m.msg[l[k]]
      BY <1>4, <1>7
    <3>2. p[j] \in 1..Len(a) /\ a[p[j]][1] = m.msg[l[k]]
      BY <1>8, <2>1
    <3>3. a[p[j]][1] = a[(Len(a) - Len(l)) + k][1]
      BY <3>1, <3>2
    <3> QED BY ONLY <1>6, <3>1, <3>2, <3>3
  <2>3. (Len(a) - Len(l)) + i <= LastOf(p, g)
    <3>1. p[j] <= LastOf(p, g) /\ LastOf(p, g) \in Nat
      BY <1>4, <1>8
    <3>2. \A A, L, x, y, u \in Nat : (A - L) + y <= u /\ x < y => (A - L) + x <= u
      OBVIOUS
    <3>3. i \in Nat /\ k \in Nat /\ (Len(a) - Len(l)) + k <= LastOf(p, g)
      <4>1. i \in Nat /\ k \in Nat
        BY <1>4
      <4> QED BY <2>2, <3>1, <4>1
    <3> QED BY <1>4, <1>10, <3>1, <3>2, <3>3
  <2>4. PICK b \in 1..Len(g) : p[b] = (Len(a) - Len(l)) + i
    BY <1>4, <1>8, <1>10, <2>3
  <2>5. g[b] = m.msg[l[i]]
    <3>1. a[(Len(a) - Len(l)) + i][1] = m.msg[l[i]]
      BY <1>4, <1>7
    <3>2. a[p[b]][1] = g[b]
      BY <1>8
    <3> QED BY <2>4, <3>1, <3>2
  <2> QED BY <1>4, <2>5 DEF ToSet
<1> QED BY <1>9, <1>10

\* In every hall the items are in the list or in the pool, each once, the list can be walked
\* from both ends, and who holds a lock is still in the calls of his push (anouncement.go and
\* simple_item_pool.go: push, recycle_old and the pool's GetFree and Recycle).
THEOREM TypeCorrect == Spec => []TypeOK
<1>1. IInv => TypeOK
  BY ListsAreTyped
<1> QED BY <1>1, Invariant, PTL

\* The list of a hall holds its latest messages in the order in which they came: all that are
\* not old, or as many as the pool has items (recycle_old, and the oldest item that makes room).
THEOREM LatestAreKept == Spec => []ListKeepsLatest
<1>1. IInv => ListKeepsLatest
  BY ListsAreLatest
<1> QED BY <1>1, Invariant, PTL

\* A player none of whose requests have read at once, and whose cursor has not gone astray,
\* receives the messages of his hall in their order, none twice, and none after one that is in
\* the list, is not old and that he has not got (GetSome, and the cursor that it leaves).
THEOREM MessagesAreReadInOrder == Spec => []ReadInOrder
<1>1. IInv => ReadInOrder
  BY ReadersFollow
<1> QED BY <1>1, Invariant, PTL
================================================================================
