-------------------------- MODULE QueryGuardsProofs --------------------------
(***************************************************************************)
(* Proofs about QueryGuards for every document and every limit: the walk   *)
(* is linear (WalkIsLinear), and the depth it finds is the depth of the    *)
(* document if this has no cycles (DepthLimitExact).                       *)
(***************************************************************************)
EXTENDS QueryGuards, FiniteSetTheorems, SequenceTheorems, WellFoundedInduction, TLAPS
-----------------------------------------------------------------------------
(* Numbers and sequences.                                                  *)

LEMMA LeastNatural ==
    ASSUME NEW T, T \subseteq Nat, T # {}
    PROVE  \E m \in T : \A k \in T : m <= k
<1>1. PICK m \in T : \A k \in T : ~(<<k, m>> \in OpToRel(<, Nat))
  BY NatLessThanWellFounded, WFMin
<1>2. ASSUME NEW k \in T PROVE m <= k
  <2>0. k \in Nat /\ m \in Nat
    OBVIOUS
  <2> SUFFICES ASSUME k < m PROVE FALSE
    BY <2>0
  <2>1. <<k, m>> \in Nat \X Nat /\ <<k, m>>[1] < <<k, m>>[2]
    BY <2>0
  <2>2. <<k, m>> \in OpToRel(<, Nat)
    BY <2>1, Zenon DEF OpToRel
  <2> QED
    BY <1>1, <2>2
<1> QED
  BY <1>2

\* The innermost call is replaced, or one is added.
LEMMA StackFacts ==
    ASSUME NEW st, st \in Seq(Range(st)), NEW e
    PROVE  /\ Len(st) \in Nat
           /\ Append(st, e) \in Seq(Range(Append(st, e))) /\ Len(Append(st, e)) = Len(st) + 1
           /\ \A n \in 1..Len(st) : Append(st, e)[n] = st[n]
           /\ Append(st, e)[Len(st) + 1] = e
<1> DEFINE U == Range(st) \cup {e}
           t == Append(st, e)
<1>1. st \in Seq(U) /\ e \in U
  BY DEF Range
<1> HIDE DEF U
<1>2. /\ Len(st) \in Nat /\ t \in Seq(U) /\ Len(t) = Len(st) + 1
      /\ \A n \in 1..Len(st) : t[n] = st[n]
      /\ t[Len(st) + 1] = e
  BY <1>1
<1> HIDE DEF t
<1>3. t \in Seq(Range(t))
  <2>1. t \in [1..Len(t) -> Range(t)] /\ Len(t) \in Nat
    BY <1>2 DEF Range
  <2> QED
    BY <2>1
<1> QED
  BY <1>2, <1>3 DEF t

LEMMA FrontFacts ==
    ASSUME NEW st, st \in Seq(Range(st)), st # <<>>
    PROVE  /\ Len(st) \in Nat /\ Len(st) >= 1 /\ Last(st) = st[Len(st)]
           /\ Front(st) \in Seq(Range(Front(st))) /\ Len(Front(st)) = Len(st) - 1
           /\ \A n \in 1..(Len(st) - 1) : Front(st)[n] = st[n]
<1> DEFINE U == Range(st)
           k == Len(st) - 1
           u == SubSeq(st, 1, k)
<1>1. Len(st) \in Nat /\ Len(st) >= 1
  BY EmptySeq
<1> HIDE DEF U
<1>2. u \in Seq(U) /\ Len(u) = k /\ \A n \in 1..k : u[n] = st[n]
  <2>1. st \in Seq(U) /\ 1 \in 1..(Len(st) + 1) /\ k \in (1 - 1)..Len(st)
    BY <1>1 DEF U
  <2>2. k - 1 + 1 = k /\ \A n \in 1..k : 1 + n - 1 = n
    BY <1>1
  <2> HIDE DEF k
  <2>3. /\ SubSeq(st, 1, k) \in Seq(U) /\ Len(SubSeq(st, 1, k)) = k - 1 + 1
        /\ \A n \in 1..(k - 1 + 1) : SubSeq(st, 1, k)[n] = st[1 + n - 1]
    BY <2>1, SubSeqProperties
  <2> QED
    BY <2>2, <2>3
<1> HIDE DEF u
<1>3. u \in Seq(Range(u))
  <2>1. u \in [1..Len(u) -> Range(u)] /\ Len(u) \in Nat
    BY <1>1, <1>2 DEF Range
  <2> QED
    BY <2>1
<1> QED
  BY <1>1, <1>2, <1>3 DEF Front, Last, u

-----------------------------------------------------------------------------
(* Documents.                                                              *)

LEMMA DocumentFacts ==
    ASSUME NEW d \in Documents, NEW body \in Bodies(d)
    PROVE  /\ d.size \in Nat /\ Len(body) \in Nat /\ Len(body) \in 1..d.size
           /\ DOMAIN body = 1..Len(body)
           /\ \A i \in DOMAIN body :
                 /\ Len(body[i]) \in Nat /\ DOMAIN body[i] = 1..Len(body[i])
                 /\ \A item \in Range(body[i]) : IsItem(item, i, body)
<1>1. /\ d.size \in Nat /\ body \in Seq(Range(body)) /\ Len(body) \in 1..d.size
      /\ \A i \in DOMAIN body :
            /\ body[i] \in Seq(Range(body[i]))
            /\ \A item \in Range(body[i]) : IsItem(item, i, body)
  BY DocumentsTyped
<1>2. Len(body) \in Nat /\ DOMAIN body = 1..Len(body)
  BY <1>1
<1>3. ASSUME NEW i \in DOMAIN body PROVE Len(body[i]) \in Nat /\ DOMAIN body[i] = 1..Len(body[i])
  <2> DEFINE set == body[i]
  <2>1. set \in Seq(Range(set))
    BY <1>1
  <2> HIDE DEF set
  <2>2. Len(set) \in Nat /\ DOMAIN set = 1..Len(set)
    BY <2>1
  <2> QED
    BY <2>2 DEF set
<1> QED
  BY <1>1, <1>2, <1>3

LEMMA FragmentIsPlace ==
    ASSUME NEW d \in Documents, NEW name \in DOMAIN d.frags, NEW atRoot \in BOOLEAN
    PROVE  d.frags[name] \in Bodies(d) /\ <<d.frags[name], 1, atRoot>> \in Places(d)
<1>1. d.frags[name] \in Bodies(d)
  BY DEF Bodies, Range
<1>2. 1 \in 1..d.size /\ 1 \in DOMAIN d.frags[name]
  BY <1>1, DocumentFacts
<1> QED
  BY <1>1, <1>2 DEF Places

LEMMA OperationIsPlace ==
    ASSUME NEW d \in Documents, NEW op \in Range(d.ops)
    PROVE  op \in Bodies(d) /\ <<op, 1, TRUE>> \in Places(d)
<1>1. op \in Bodies(d)
  BY DEF Bodies
<1>2. 1 \in 1..d.size /\ 1 \in DOMAIN op
  BY <1>1, DocumentFacts
<1> QED
  BY <1>1, <1>2 DEF Places

\* What is below a place is a place.
LEMMA BelowFacts ==
    ASSUME NEW d \in Documents, NEW p \in Places(d), NEW way \in Below(d, p)
    PROVE  way[1] \in Places(d) /\ way[2] \in {0, 1}
<1> DEFINE items == Range(p[1][p[2]])
<1>1. p[1] \in Bodies(d) /\ p[2] \in DOMAIN p[1] /\ p[3] \in BOOLEAN
  BY DEF Places
<1>2. /\ DOMAIN p[1] = 1..Len(p[1]) /\ Len(p[1]) \in 1..d.size /\ d.size \in Nat
      /\ \A item \in items : IsItem(item, p[2], p[1])
  BY <1>1, DocumentFacts
<1>3. ASSUME NEW i \in items, i.kind # "spread", NEW b \in BOOLEAN
      PROVE  <<p[1], i.sub, b>> \in Places(d)
  <2>1. i.sub \in (p[2] + 1)..Len(p[1])
    BY <1>2, <1>3 DEF IsItem
  <2>2. i.sub \in 1..d.size /\ i.sub \in DOMAIN p[1]
    BY <1>1, <1>2, <2>1
  <2> QED
    BY <1>1, <1>3, <2>2 DEF Places
<1>4. ASSUME NEW i \in items, i.kind = "field", way = <<<<p[1], i.sub, FALSE>>, 1>>
      PROVE  way[1] \in Places(d) /\ way[2] \in {0, 1}
  BY <1>3, <1>4
<1>5. ASSUME NEW i \in items, i.kind = "inline", way = <<<<p[1], i.sub, p[3]>>, 0>>
      PROVE  way[1] \in Places(d) /\ way[2] \in {0, 1}
  BY <1>1, <1>3, <1>5
<1>6. ASSUME NEW i \in items, i.name \in DOMAIN d.frags, way = <<<<d.frags[i.name], 1, p[3]>>, 0>>
      PROVE  way[1] \in Places(d) /\ way[2] \in {0, 1}
  BY <1>1, <1>6, FragmentIsPlace
<1> QED
  BY <1>4, <1>5, <1>6 DEF Below

-----------------------------------------------------------------------------
(* The depth of a document.                                                *)

\* What one more step down finds.
OneMore(d, p, w) == {0} \cup UNION {{way[2] + m : m \in w[way[1]]} : way \in Below(d, p)}

\* f has the numbers of fields on the ways of at most 0, 1, ..., limit steps.
IsWithin(f, d, limit) ==
    /\ DOMAIN f = 0..limit
    /\ \A p \in Places(d) : f[0][p] = {0}
    /\ \A n \in 1..limit : \A p \in Places(d) : f[n][p] = OneMore(d, p, f[n - 1])

LEMMA NestingsFacts ==
    ASSUME NEW d, LongestWay(d) \in Nat
    PROVE  \E f : IsWithin(f, d, LongestWay(d)) /\ Nestings(d) = f[LongestWay(d)]
<1> DEFINE N == LongestWay(d)
           P == Places(d)
           Step(g, n) == [p \in P |-> IF n = 0 THEN {0} ELSE OneMore(d, p, g[n - 1])]
           Upto(m, g) == g = [n \in 0..m |-> Step(g, n)]
           Good(m) == \E g : Upto(m, g)
           Bad == {m \in Nat : ~Good(m)}
<1>1. N \in Nat
  OBVIOUS
<1> HIDE DEF N, P
<1>2. Good(0)
  <2> DEFINE f == [n \in 0..0 |-> [p \in P |-> {0}]]
  <2>1. \A n \in 0..0 : Step(f, n) = [p \in P |-> {0}]
    OBVIOUS
  <2>2. Upto(0, f)
    <3> HIDE DEF Step
    <3> QED
      BY <2>1
  <2> HIDE DEF f, Upto
  <2> QED
    BY <2>2
<1>3. ASSUME NEW m \in Nat, Good(m) PROVE Good(m + 1)
  <2>1. PICK g : Upto(m, g)
    BY <1>3
  <2> DEFINE h == [n \in 0..(m + 1) |-> Step(g, n)]
  <2>2. \A n \in 0..m : h[n] = g[n]
    <3> HIDE DEF Step
    <3> QED
      BY <2>1
  <2>3. \A n \in 0..(m + 1) : n # 0 => n - 1 \in 0..m
    OBVIOUS
  <2>4. h = [n \in 0..(m + 1) |-> Step(g, n)]
    OBVIOUS
  <2> HIDE DEF h
  <2>5. ASSUME NEW n \in 0..(m + 1) PROVE Step(g, n) = Step(h, n)
    <3>1. CASE n = 0
      BY <3>1
    <3>2. CASE n # 0
      <4>1. g[n - 1] = h[n - 1]
        BY <2>2, <2>3, <3>2
      <4> QED
        BY <4>1
    <3> QED
      BY <3>1, <3>2
  <2>6. h = [n \in 0..(m + 1) |-> Step(h, n)]
    <3> HIDE DEF Step
    <3> QED
      BY <2>4, <2>5
  <2> QED
    BY <2>6
<1> HIDE DEF Good
<1>4. Bad = {}
  <2> SUFFICES ASSUME Bad # {} PROVE FALSE
    OBVIOUS
  <2>1. Bad \subseteq Nat
    OBVIOUS
  <2>2. PICK m \in Bad : \A k \in Bad : m <= k
    BY <2>1, LeastNatural
  <2>3. m \in Nat /\ ~Good(m) /\ m # 0
    BY <1>2, <2>2
  <2>4. PICK k \in Nat : m = k + 1
    BY <2>3
  <2>5. k \notin Bad
    BY <2>2, <2>4
  <2> QED
    BY <1>3, <2>3, <2>4, <2>5
<1>5. Good(N)
  BY <1>1, <1>4
<1> DEFINE within == CHOOSE g : Upto(N, g)
<1>6. Upto(N, within)
  <2> HIDE DEF Upto
  <2> QED
    BY <1>5 DEF Good
<1>7. Nestings(d) = within[N]
  BY Zenon DEF Nestings, N, P, OneMore
<1> HIDE DEF within
<1>8. DOMAIN within = 0..N /\ \A n \in 0..N : within[n] = Step(within, n)
  <2> HIDE DEF Step
  <2> QED
    BY <1>6
<1>9. \A p \in P : within[0][p] = {0}
  BY <1>1, <1>8
<1>10. ASSUME NEW n \in 1..N, NEW p \in P PROVE within[n][p] = OneMore(d, p, within[n - 1])
  <2>1. n \in 0..N /\ n # 0
    BY <1>1
  <2>2. within[n] = Step(within, n)
    BY <1>8, <2>1
  <2> QED
    BY <2>1, <2>2 DEF OneMore
<1>11. IsWithin(within, d, N)
  BY <1>8, <1>9, <1>10 DEF IsWithin, P
<1> QED
  BY <1>7, <1>11 DEF N

\* A depth no way down from the place exceeds, shown by a set of such places
\* and depths that is closed under going one step down.
AreBounds(d, G) ==
    \A at \in G :
        /\ at[1] \in Places(d) /\ at[2] \in Nat
        /\ \A way \in Below(d, at[1]) : \E b \in Nat : <<way[1], b>> \in G /\ way[2] + b <= at[2]

Bounded(d, p, depth) == \E G : AreBounds(d, G) /\ <<p, depth>> \in G

\* A depth some way down from the place has: it is in every set that has all
\* depths one step more gives.
AreDepths(d, W) ==
    \A p \in Places(d) :
        /\ <<p, 0>> \in W
        /\ \A way \in Below(d, p) : \A n \in Nat : <<way[1], n>> \in W => <<p, way[2] + n>> \in W

Reached(d, p, depth) == \A W : AreDepths(d, W) => <<p, depth>> \in W

LEMMA BoundedIfBelow ==
    ASSUME NEW d, NEW p \in Places(d), NEW depth \in Nat,
           \A way \in Below(d, p) : \E b \in Nat : Bounded(d, way[1], b) /\ way[2] + b <= depth
    PROVE  Bounded(d, p, depth)
<1> DEFINE Is(way, G) == AreBounds(d, G) /\ \E b \in Nat : <<way[1], b>> \in G /\ way[2] + b <= depth
           Of(way) == CHOOSE G : Is(way, G)
           G == {<<p, depth>>} \cup UNION {Of(way) : way \in Below(d, p)}
<1>1. ASSUME NEW way \in Below(d, p) PROVE Is(way, Of(way))
  <2>1. \E H : Is(way, H)
    BY DEF Bounded
  <2> HIDE DEF Is
  <2> QED
    BY <2>1
<1> HIDE DEF Of
<1>2. ASSUME NEW at \in G
      PROVE  /\ at[1] \in Places(d) /\ at[2] \in Nat
             /\ \A way \in Below(d, at[1]) : \E b \in Nat : <<way[1], b>> \in G /\ way[2] + b <= at[2]
  <2>1. CASE at = <<p, depth>>
    <3>1. at[1] = p /\ at[2] = depth
      BY <2>1
    <3>2. ASSUME NEW way \in Below(d, p) PROVE \E b \in Nat : <<way[1], b>> \in G /\ way[2] + b <= depth
      <4>1. PICK b \in Nat : <<way[1], b>> \in Of(way) /\ way[2] + b <= depth
        BY <1>1
      <4> QED
        BY <4>1
    <3> HIDE DEF G
    <3> QED
      BY <3>1, <3>2
  <2>2. ASSUME NEW k \in Below(d, p), at \in Of(k)
        PROVE  /\ at[1] \in Places(d) /\ at[2] \in Nat
               /\ \A way \in Below(d, at[1]) : \E b \in Nat : <<way[1], b>> \in G /\ way[2] + b <= at[2]
    <3>1. AreBounds(d, Of(k))
      BY <1>1
    <3>2. /\ at[1] \in Places(d) /\ at[2] \in Nat
          /\ \A way \in Below(d, at[1]) : \E b \in Nat : <<way[1], b>> \in Of(k) /\ way[2] + b <= at[2]
      BY <2>2, <3>1, Zenon DEF AreBounds
    <3>3. Of(k) \subseteq G
      OBVIOUS
    <3> HIDE DEF G
    <3> QED
      BY <3>2, <3>3
  <2> QED
    BY <2>1, <2>2
<1>3. <<p, depth>> \in G
  OBVIOUS
<1> HIDE DEF G
<1> QED
  BY <1>2, <1>3, Zenon DEF AreBounds, Bounded

LEMMA BoundedMeans ==
    ASSUME NEW d \in Documents, LongestWay(d) \in Nat,
           NEW p \in Places(d), NEW depth, Bounded(d, p, depth)
    PROVE  depth \in Nat /\ \A n \in Nestings(d)[p] : n \in Nat /\ n <= depth
<1> DEFINE N == LongestWay(d)
<1>1. PICK f : IsWithin(f, d, N) /\ Nestings(d) = f[N]
  BY NestingsFacts
<1>2. PICK G : AreBounds(d, G) /\ <<p, depth>> \in G
  BY DEF Bounded
<1> HIDE DEF N
<1> DEFINE Good(k) == \A at \in G : \A n \in f[k][at[1]] : n \in Nat /\ n <= at[2]
           Bad == {k \in Nat : k <= N /\ ~Good(k)}
<1>3. Good(0)
  <2>1. \A at \in G : f[0][at[1]] = {0} /\ at[2] \in Nat
    BY <1>1, <1>2 DEF AreBounds, IsWithin
  <2> QED
    BY <2>1
<1>4. ASSUME NEW k \in Nat, k + 1 <= N, Good(k) PROVE Good(k + 1)
  <2> SUFFICES ASSUME NEW at \in G, NEW n \in f[k + 1][at[1]] PROVE n \in Nat /\ n <= at[2]
    OBVIOUS
  <2>1. /\ at[1] \in Places(d) /\ at[2] \in Nat
        /\ \A way \in Below(d, at[1]) : \E b \in Nat : <<way[1], b>> \in G /\ way[2] + b <= at[2]
    BY <1>2, Zenon DEF AreBounds
  <2>2. k + 1 \in 1..N /\ (k + 1) - 1 = k
    BY <1>4
  <2>3. n \in OneMore(d, at[1], f[k])
    BY <1>1, <2>1, <2>2 DEF IsWithin
  <2>4. CASE n = 0
    BY <2>1, <2>4
  <2>5. ASSUME NEW way \in Below(d, at[1]), NEW m \in f[k][way[1]], n = way[2] + m
        PROVE  n \in Nat /\ n <= at[2]
    <3>1. PICK b \in Nat : <<way[1], b>> \in G /\ way[2] + b <= at[2]
      BY <2>1
    <3>2. m \in Nat /\ m <= b
      <4>1. <<way[1], b>>[1] = way[1] /\ <<way[1], b>>[2] = b
        OBVIOUS
      <4> QED
        BY <1>4, <3>1, <4>1
    <3>3. way[2] \in {0, 1}
      BY <2>1, BelowFacts
    <3> QED
      BY <2>1, <2>5, <3>1, <3>2, <3>3
  <2> QED
    BY <2>3, <2>4, <2>5 DEF OneMore
<1> HIDE DEF Good
<1>5. Bad = {}
  <2> SUFFICES ASSUME Bad # {} PROVE FALSE
    OBVIOUS
  <2>1. Bad \subseteq Nat
    OBVIOUS
  <2>2. PICK m \in Bad : \A k \in Bad : m <= k
    BY <2>1, LeastNatural
  <2>3. m \in Nat /\ m <= N /\ ~Good(m) /\ m # 0
    BY <1>3, <2>2
  <2>4. PICK k \in Nat : m = k + 1
    BY <2>3
  <2>5. k \notin Bad /\ k <= N
    BY <2>2, <2>3, <2>4 DEF N
  <2> QED
    BY <1>4, <2>3, <2>4, <2>5
<1>6. Good(N)
  <2>1. N \in Nat
    BY DEF N
  <2> QED
    BY <1>5, <2>1
<1>7. <<p, depth>>[1] = p /\ <<p, depth>>[2] = depth
  OBVIOUS
<1>8. depth \in Nat
  BY <1>2, <1>7, Zenon DEF AreBounds
<1> QED
  BY <1>1, <1>2, <1>6, <1>7, <1>8 DEF Good, N

LEMMA ReachedFacts ==
    ASSUME NEW d, NEW p \in Places(d)
    PROVE  /\ Reached(d, p, 0)
           /\ \A way \in Below(d, p) : \A n \in Nat :
                 Reached(d, way[1], n) => Reached(d, p, way[2] + n)
<1>1. Reached(d, p, 0)
  BY DEF Reached, AreDepths
<1>2. ASSUME NEW way \in Below(d, p), NEW n \in Nat, Reached(d, way[1], n)
      PROVE  Reached(d, p, way[2] + n)
  <2> SUFFICES ASSUME NEW W, AreDepths(d, W) PROVE <<p, way[2] + n>> \in W
    BY DEF Reached
  <2>1. <<way[1], n>> \in W
    BY <1>2 DEF Reached
  <2> QED
    BY <2>1, Zenon DEF AreDepths
<1> QED
  BY <1>1, <1>2

LEMMA Lexicographic ==
    ASSUME NEW r \in Nat, NEW q \in Nat, NEW N \in Nat, NEW x \in Nat, NEW y \in Nat, q < r, x < N
    PROVE  q * N + x < r * N + y /\ r * N + x < (r + 1) * N /\ r * N + y \in Nat
<1>1. PICK k \in Nat : r = q + 1 + k
  BY r - q - 1 \in Nat
<1>2. \A m \in Nat : m * N \in Nat
  OBVIOUS
<1>3. (q + 1 + k) * N = q * N + N + k * N
  OBVIOUS
<1>4. (r + 1) * N = r * N + N
  OBVIOUS
<1>5. q * N \in Nat /\ k * N \in Nat /\ r * N \in Nat
  BY <1>2
<1>6. r * N = q * N + N + k * N
  BY <1>1, <1>3
<1> DEFINE a == q * N
           b == k * N
           c == r * N
<1> HIDE DEF a, b, c
<1>7. a \in Nat /\ b \in Nat /\ c \in Nat /\ c = a + N + b /\ (r + 1) * N = c + N
  BY <1>4, <1>5, <1>6 DEF a, b, c
<1>8. a + x < c + y /\ c + x < c + N /\ c + y \in Nat
  BY <1>7
<1> QED
  BY <1>7, <1>8 DEF a, c

\* What validation makes sure of.
Acyclic(d, rank) ==
    /\ \A body \in Bodies(d) : Spreads(body) \subseteq DOMAIN d.frags
    /\ rank \in [DOMAIN d.frags -> 0..(Cardinality(DOMAIN d.frags) - 1)]
    /\ Ranks(d, rank)

\* How far the way down from a place can go: at most this many steps.
Height(d, rank, p, h) ==
    \E r \in 0..Cardinality(DOMAIN d.frags) :
        /\ \A g \in Spreads(p[1]) : rank[g] < r
        /\ h = r * d.size + (Len(p[1]) - p[2])

LEMMA SpreadOfBody ==
    ASSUME NEW body, NEW i \in DOMAIN body, NEW item \in Range(body[i]), item.kind = "spread"
    PROVE  item.name \in Spreads(body)
<1>1. body[i] \in Range(body)
  BY DEF Range
<1>2. item \in UNION {Range(set) : set \in Range(body)}
  BY <1>1
<1> QED
  BY <1>2 DEF Spreads

LEMMA HeightFalls ==
    ASSUME NEW d \in Documents, NEW rank, Acyclic(d, rank),
           NEW p \in Places(d), NEW h, Height(d, rank, p, h), NEW way \in Below(d, p)
    PROVE  \E lower \in Nat : lower < h /\ Height(d, rank, way[1], lower)
<1> DEFINE F == Cardinality(DOMAIN d.frags)
           N == d.size
           items == Range(p[1][p[2]])
           q == way[1]
<1>1. F \in Nat /\ N \in Nat
  BY DocumentsTyped, FS_CardinalityType
<1>2. p[1] \in Bodies(d) /\ p[2] \in DOMAIN p[1] /\ p[3] \in BOOLEAN
  BY DEF Places
<1>3. /\ DOMAIN p[1] = 1..Len(p[1]) /\ Len(p[1]) \in 1..N
      /\ \A item \in items : IsItem(item, p[2], p[1])
  BY <1>2, DocumentFacts
<1>4. PICK r \in 0..F : (\A g \in Spreads(p[1]) : rank[g] < r) /\ h = r * N + (Len(p[1]) - p[2])
  BY DEF Height
<1> HIDE DEF F, N
<1>5. CASE q[1] = p[1] /\ q[2] \in (p[2] + 1)..Len(p[1])
  <2> DEFINE lower == r * N + (Len(p[1]) - q[2])
  <2>1. r \in Nat /\ r * N \in Nat
    BY <1>1, <1>4
  <2> DEFINE c == r * N
  <2> HIDE DEF c
  <2>2. c + (Len(p[1]) - q[2]) \in Nat /\ c + (Len(p[1]) - q[2]) < c + (Len(p[1]) - p[2])
    <3>1. c \in Nat
      BY <2>1 DEF c
    <3>2. Len(p[1]) \in Nat /\ p[2] \in Nat /\ q[2] \in Nat /\ q[2] <= Len(p[1]) /\ p[2] < q[2]
      BY <1>1, <1>2, <1>3, <1>5
    <3> QED
      BY <3>1, <3>2
  <2>3. lower \in Nat /\ lower < h
    BY <1>4, <2>2 DEF c
  <2>4. Height(d, rank, q, lower)
    BY <1>4, <1>5 DEF Height, F, N
  <2> HIDE DEF lower
  <2> QED
    BY <2>3, <2>4
<1>6. ASSUME NEW item \in items, item.kind = "spread", item.name \in DOMAIN d.frags,
             q = <<d.frags[item.name], 1, p[3]>>
      PROVE  \E lower \in Nat : lower < h /\ Height(d, rank, q, lower)
  <2> DEFINE f == item.name
             body == d.frags[f]
             lower == rank[f] * N + (Len(body) - 1)
  <2>1. f \in Spreads(p[1])
    BY <1>2, <1>6, SpreadOfBody
  <2>2. rank[f] \in 0..(F - 1) /\ rank[f] < r
    BY <1>4, <1>6, <2>1 DEF Acyclic, F
  <2>3. \A g \in Spreads(body) : rank[g] < rank[f]
    BY <1>6 DEF Acyclic, Ranks
  <2>4. Len(body) \in 1..N
    BY <1>6, FragmentIsPlace, DocumentFacts DEF N
  <2> HIDE DEF body, f
  <2>5. /\ r \in Nat /\ rank[f] \in Nat /\ Len(body) - 1 \in Nat /\ Len(body) - 1 < N
        /\ Len(p[1]) - p[2] \in Nat
    BY <1>1, <1>2, <1>3, <1>4, <2>2, <2>4
  <2>6. lower < r * N + (Len(p[1]) - p[2])
    BY <1>1, <2>2, <2>5, Lexicographic
  <2>7. lower \in Nat
    <3>1. rank[f] * N \in Nat
      BY <1>1, <2>5
    <3> QED
      BY <2>5, <3>1
  <2>8. q[1] = body /\ q[2] = 1
    BY <1>6 DEF body, f
  <2>9. rank[f] \in 0..F
    BY <1>1, <2>2
  <2>10. Height(d, rank, q, lower)
    BY <2>3, <2>8, <2>9 DEF Height, F, N
  <2> HIDE DEF lower
  <2> QED
    BY <1>4, <2>6, <2>7, <2>10
<1>7. ASSUME NEW item \in items, item.kind # "spread", NEW b \in BOOLEAN,
             q = <<p[1], item.sub, b>>
      PROVE  \E lower \in Nat : lower < h /\ Height(d, rank, q, lower)
  <2>1. q[1] = p[1] /\ q[2] \in (p[2] + 1)..Len(p[1])
    BY <1>3, <1>7 DEF IsItem
  <2> QED
    BY <1>5, <2>1
<1>8. \/ \E i \in items : i.kind = "field" /\ way = <<<<p[1], i.sub, FALSE>>, 1>>
      \/ \E i \in items : i.kind = "inline" /\ way = <<<<p[1], i.sub, p[3]>>, 0>>
      \/ \E i \in items : i.kind = "spread" /\ i.name \in DOMAIN d.frags
                          /\ way = <<<<d.frags[i.name], 1, p[3]>>, 0>>
  BY DEF Below
<1>9. CASE \E i \in items : i.kind = "field" /\ way = <<<<p[1], i.sub, FALSE>>, 1>>
  <2>1. PICK i \in items : i.kind = "field" /\ way = <<<<p[1], i.sub, FALSE>>, 1>>
    BY <1>9
  <2>2. q[1] = p[1] /\ q[2] = i.sub
    BY <2>1
  <2>3. i.sub \in (p[2] + 1)..Len(p[1])
    BY <1>3, <2>1 DEF IsItem
  <2> QED
    BY <1>5, <2>2, <2>3
<1>10. CASE \E i \in items : i.kind = "inline" /\ way = <<<<p[1], i.sub, p[3]>>, 0>>
  BY <1>2, <1>7, <1>10
<1>11. CASE \E i \in items : i.kind = "spread" /\ i.name \in DOMAIN d.frags
                             /\ way = <<<<d.frags[i.name], 1, p[3]>>, 0>>
  BY <1>6, <1>11
<1> QED
  BY <1>8, <1>9, <1>10, <1>11

LEMMA LongestWayNatural ==
    ASSUME NEW d \in Documents
    PROVE  LongestWay(d) \in Nat
<1>1. Cardinality(DOMAIN d.frags) + 1 \in Nat /\ d.size \in Nat
  BY DocumentsTyped, FS_CardinalityType
<1> QED
  BY <1>1 DEF LongestWay

LEMMA HasHeight ==
    ASSUME NEW d \in Documents, NEW rank, Acyclic(d, rank), NEW p \in Places(d)
    PROVE  \E h \in Nat : h < LongestWay(d) /\ Height(d, rank, p, h)
<1> DEFINE F == Cardinality(DOMAIN d.frags)
           N == d.size
           left == Len(p[1]) - p[2]
           h == F * N + left
<1>1. F \in Nat /\ N \in Nat
  BY DocumentsTyped, FS_CardinalityType
<1>2. p[1] \in Bodies(d) /\ p[2] \in DOMAIN p[1]
  BY DEF Places
<1>3. DOMAIN p[1] = 1..Len(p[1]) /\ Len(p[1]) \in 1..N
  BY <1>2, DocumentFacts
<1>4. left \in Nat /\ left < N
  BY <1>1, <1>2, <1>3
<1>5. \A g \in Spreads(p[1]) : rank[g] < F
  <2>1. \A g \in Spreads(p[1]) : rank[g] \in 0..(F - 1)
    BY <1>2 DEF Acyclic
  <2> HIDE DEF F
  <2> QED
    BY <1>1, <2>1
<1>6. F \in 0..F
  <2> HIDE DEF F
  <2> QED
    BY <1>1
<1>7. Height(d, rank, p, h)
  BY <1>5, <1>6 DEF Height
<1>8. h \in Nat /\ h < LongestWay(d)
  <2> HIDE DEF F, N, left
  <2>1. F * N \in Nat /\ (F + 1) * N = F * N + N
    BY <1>1
  <2> DEFINE c == F * N
  <2> HIDE DEF c
  <2>2. c \in Nat /\ c + left \in Nat /\ c + left < c + N
    BY <1>1, <1>4, <2>1 DEF c
  <2>3. LongestWay(d) = c + N
    BY <2>1 DEF LongestWay, c, F, N
  <2> QED
    BY <2>2, <2>3 DEF c
<1> HIDE DEF h
<1> QED
  BY <1>7, <1>8

LEMMA OneMoreSame ==
    ASSUME NEW d, NEW p, NEW v, NEW w, \A way \in Below(d, p) : v[way[1]] = w[way[1]]
    PROVE  OneMore(d, p, v) = OneMore(d, p, w)
<1> DEFINE below == Below(d, p)
           V(way) == {way[2] + m : m \in v[way[1]]}
           W(way) == {way[2] + m : m \in w[way[1]]}
<1>1. \A way \in below : V(way) = W(way)
  BY DEF below
<1>2. OneMore(d, p, v) = {0} \cup UNION {V(way) : way \in below}
  BY Zenon DEF OneMore, below
<1>3. OneMore(d, p, w) = {0} \cup UNION {W(way) : way \in below}
  BY Zenon DEF OneMore, below
<1> HIDE DEF V, W
<1>4. UNION {V(way) : way \in below} = UNION {W(way) : way \in below}
  BY <1>1
<1> QED
  BY <1>2, <1>3, <1>4

\* More steps than a place has height find nothing new.
LEMMA Settled ==
    ASSUME NEW d \in Documents, NEW rank, Acyclic(d, rank),
           NEW N \in Nat, NEW f, IsWithin(f, d, N)
    PROVE  \A k \in Nat : k + 1 <= N =>
              \A p \in Places(d) : \A h \in Nat :
                  h <= k /\ Height(d, rank, p, h) => f[k][p] = f[k + 1][p]
<1> DEFINE Good(k) == \A p \in Places(d) : \A h \in Nat :
                          h <= k /\ Height(d, rank, p, h) => f[k][p] = f[k + 1][p]
           Bad == {k \in Nat : k + 1 <= N /\ ~Good(k)}
<1>1. ASSUME NEW k \in 1..N, NEW p \in Places(d) PROVE f[k][p] = OneMore(d, p, f[k - 1])
  BY DEF IsWithin
<1>2. ASSUME 1 <= N PROVE Good(0)
  <2> SUFFICES ASSUME NEW p \in Places(d), NEW h \in Nat, h <= 0, Height(d, rank, p, h)
               PROVE  f[0][p] = f[0 + 1][p]
    OBVIOUS
  <2>1. Below(d, p) = {}
    BY HeightFalls
  <2>2. f[1][p] = OneMore(d, p, f[1 - 1])
    BY <1>1, <1>2
  <2>3. OneMore(d, p, f[1 - 1]) = {0}
    BY <2>1 DEF OneMore
  <2>4. f[0][p] = {0}
    BY DEF IsWithin
  <2> QED
    BY <2>2, <2>3, <2>4
<1>3. ASSUME NEW k \in Nat, (k + 1) + 1 <= N, Good(k) PROVE Good(k + 1)
  <2> SUFFICES ASSUME NEW p \in Places(d), NEW h \in Nat, h <= k + 1, Height(d, rank, p, h)
               PROVE  f[k + 1][p] = f[(k + 1) + 1][p]
    OBVIOUS
  <2>1. ASSUME NEW way \in Below(d, p) PROVE f[k][way[1]] = f[k + 1][way[1]]
    <3>1. PICK lower \in Nat : lower < h /\ Height(d, rank, way[1], lower)
      BY HeightFalls
    <3>2. way[1] \in Places(d) /\ lower <= k
      BY <3>1, BelowFacts
    <3> QED
      BY <1>3, <3>1, <3>2
  <2>2. k + 1 \in 1..N /\ (k + 1) + 1 \in 1..N /\ (k + 1) - 1 = k /\ ((k + 1) + 1) - 1 = k + 1
    BY <1>3
  <2>3. f[k + 1][p] = OneMore(d, p, f[k]) /\ f[(k + 1) + 1][p] = OneMore(d, p, f[k + 1])
    BY <1>1, <2>2
  <2>4. OneMore(d, p, f[k]) = OneMore(d, p, f[k + 1])
    <3> DEFINE v == f[k]
               w == f[k + 1]
    <3>1. \A way \in Below(d, p) : v[way[1]] = w[way[1]]
      BY <2>1
    <3> HIDE DEF v, w
    <3>2. OneMore(d, p, v) = OneMore(d, p, w)
      BY <3>1, OneMoreSame
    <3> QED
      BY <3>2 DEF v, w
  <2> QED
    BY <2>3, <2>4
<1> HIDE DEF Good
<1>4. Bad = {}
  <2> SUFFICES ASSUME Bad # {} PROVE FALSE
    OBVIOUS
  <2>1. Bad \subseteq Nat
    OBVIOUS
  <2>2. PICK m \in Bad : \A k \in Bad : m <= k
    BY <2>1, LeastNatural
  <2>3. m \in Nat /\ m + 1 <= N /\ ~Good(m)
    BY <2>2
  <2>4. m # 0
    BY <1>2, <2>3
  <2>5. PICK k \in Nat : m = k + 1
    BY <2>3, <2>4
  <2>6. k \notin Bad /\ k + 1 <= N
    BY <2>2, <2>3, <2>5
  <2> QED
    BY <1>3, <2>3, <2>5, <2>6
<1>5. \A k \in Nat : k + 1 <= N => Good(k)
  BY <1>4
<1> QED
  BY <1>5 DEF Good

LEMMA ReachedMeans ==
    ASSUME NEW d \in Documents, NEW rank, Acyclic(d, rank),
           NEW p \in Places(d), NEW depth, Reached(d, p, depth)
    PROVE  depth \in Nestings(d)[p]
<1> DEFINE N == LongestWay(d)
<1>1. N \in Nat
  BY LongestWayNatural
<1>2. PICK f : IsWithin(f, d, N) /\ Nestings(d) = f[N]
  BY <1>1, NestingsFacts
<1>3. \A q \in Places(d) : \E h \in Nat : h < N /\ Height(d, rank, q, h)
  BY HasHeight
<1> HIDE DEF N
<1>4. PICK k \in Nat : N = k + 1
  <2>1. N # 0
    BY <1>3
  <2> QED
    BY <1>1, <2>1
<1>5. \A q \in Places(d) : f[k][q] = f[N][q] /\ f[N][q] = OneMore(d, q, f[k])
  <2> SUFFICES ASSUME NEW q \in Places(d)
               PROVE  f[k][q] = f[N][q] /\ f[N][q] = OneMore(d, q, f[k])
    OBVIOUS
  <2>1. PICK h \in Nat : h < N /\ Height(d, rank, q, h)
    BY <1>3
  <2>2. h <= k /\ k + 1 <= N /\ N \in 1..N /\ N - 1 = k
    BY <1>1, <1>4, <2>1
  <2>3. f[k][q] = f[k + 1][q]
    BY <1>1, <1>2, <2>1, <2>2, Settled
  <2>4. f[N][q] = OneMore(d, q, f[N - 1])
    BY <1>2, <2>2 DEF IsWithin
  <2> QED
    BY <1>4, <2>2, <2>3, <2>4
<1> DEFINE W == {w \in Places(d) \X Nat : w[2] \in f[N][w[1]]}
<1>6. \A q \in Places(d) : \A n \in Nat : <<q, n>> \in W <=> n \in f[N][q]
  OBVIOUS
<1>7. \A q, n : <<q, n>> \in W => n \in f[N][q]
  OBVIOUS
<1> HIDE DEF W
<1>8. AreDepths(d, W)
  <2>1. ASSUME NEW q \in Places(d) PROVE <<q, 0>> \in W
    <3>1. 0 \in f[N][q]
      BY <1>5, Zenon DEF OneMore
    <3> QED
      BY <1>6, <3>1
  <2>2. ASSUME NEW q \in Places(d), NEW way \in Below(d, q), NEW n \in Nat, <<way[1], n>> \in W
        PROVE  <<q, way[2] + n>> \in W
    <3>1. way[1] \in Places(d) /\ way[2] + n \in Nat
      BY BelowFacts
    <3>2. n \in f[k][way[1]]
      BY <1>5, <1>7, <2>2, <3>1
    <3>3. way[2] + n \in {way[2] + m : m \in f[k][way[1]]}
      BY <3>2
    <3>4. way[2] + n \in OneMore(d, q, f[k])
      <4> DEFINE S(a) == {a[2] + m : m \in f[k][a[1]]}
      <4>1. way[2] + n \in S(way)
        BY <3>3
      <4>2. OneMore(d, q, f[k]) = {0} \cup UNION {S(a) : a \in Below(d, q)}
        BY Zenon DEF OneMore
      <4> HIDE DEF S
      <4> QED
        BY <4>1, <4>2
    <3> QED
      BY <1>5, <1>6, <3>1, <3>4
  <2> QED
    BY <2>1, <2>2, Zenon DEF AreDepths
<1>9. <<p, depth>> \in W
  BY <1>8, Zenon DEF Reached
<1> QED
  BY <1>2, <1>7, <1>9

-----------------------------------------------------------------------------
(* The calls under way.                                                    *)

Place(frame) == <<frame.body, frame.set, frame.atRoot>>

\* The way down that the item of a selection set is.
Leads(d, p, item, way) ==
    \/ /\ item.kind = "field" /\ ~(p[3] /\ item.meta)
       /\ way = <<<<p[1], item.sub, FALSE>>, 1>>
    \/ /\ item.kind = "inline"
       /\ way = <<<<p[1], item.sub, p[3]>>, 0>>
    \/ /\ item.kind = "spread" /\ item.name \in DOMAIN d.frags
       /\ way = <<<<d.frags[item.name], 1, p[3]>>, 0>>

Cost(item) == IF item.kind = "field" THEN 1 ELSE 0

LEMMA BelowIsWhereItemsLead ==
    ASSUME NEW d, NEW p, NEW way
    PROVE  way \in Below(d, p) <=> \E item \in Range(p[1][p[2]]) : Leads(d, p, item, way)
<1> DEFINE items == Range(p[1][p[2]])
<1> HIDE DEF items
<1> QED
  BY DEF Below, Leads, items

LEMMA LeadsOnce ==
    ASSUME NEW d, NEW p, NEW item, NEW v, NEW w, Leads(d, p, item, v), Leads(d, p, item, w)
    PROVE  v = w
<1>1. CASE item.kind = "field"
  <2>1. v = <<<<p[1], item.sub, FALSE>>, 1>> /\ w = <<<<p[1], item.sub, FALSE>>, 1>>
    BY <1>1 DEF Leads
  <2> QED
    BY <2>1
<1>2. CASE item.kind = "inline"
  <2>1. v = <<<<p[1], item.sub, p[3]>>, 0>> /\ w = <<<<p[1], item.sub, p[3]>>, 0>>
    BY <1>2 DEF Leads
  <2> QED
    BY <2>1
<1>3. CASE item.kind = "spread"
  <2>1. v = <<<<d.frags[item.name], 1, p[3]>>, 0>> /\ w = <<<<d.frags[item.name], 1, p[3]>>, 0>>
    BY <1>3 DEF Leads
  <2> QED
    BY <2>1
<1> QED
  BY <1>1, <1>2, <1>3 DEF Leads

LEMMA LeadsCost ==
    ASSUME NEW d, NEW p, NEW item, NEW way, Leads(d, p, item, way)
    PROVE  way[2] = Cost(item)
<1>1. ASSUME NEW q, NEW n, way = <<q, n>> PROVE way[2] = n
  BY <1>1
<1>2. CASE item.kind = "field"
  <2>1. way = <<<<p[1], item.sub, FALSE>>, 1>>
    BY <1>2 DEF Leads
  <2> QED
    BY <1>2, <2>1 DEF Cost
<1>3. CASE item.kind = "inline"
  <2>1. way = <<<<p[1], item.sub, p[3]>>, 0>>
    BY <1>3 DEF Leads
  <2> QED
    BY <1>1, <1>3, <2>1 DEF Cost
<1>4. CASE item.kind = "spread"
  <2>1. way = <<<<d.frags[item.name], 1, p[3]>>, 0>>
    BY <1>4 DEF Leads
  <2> QED
    BY <1>1, <1>4, <2>1 DEF Cost
<1> QED
  BY <1>2, <1>3, <1>4 DEF Leads

\* A call of selection_depth for a place of the document: it has looped over
\* the items before `next`, and some way down from there is `depth` long.
IsFrame(d, frame) ==
    /\ Place(frame) \in Places(d)
    /\ frame.next \in 1..(Len(Items(frame)) + 1)
    /\ frame.depth \in Nat
    /\ Reached(d, Place(frame), frame.depth)

\* The inner call is made for the item at which the outer one is.
Called(d, outer, inner) ==
    /\ Looping(outer)
    /\ Leads(d, Place(outer), Item(outer), <<Place(inner), Cost(Item(outer))>>)

Calls(d, st) ==
    /\ st \in Seq(Range(st))
    /\ \A n \in 1..Len(st) : IsFrame(d, st[n])
    /\ \A n \in 1..(Len(st) - 1) : Called(d, st[n], st[n + 1])

LEMMA FrameFacts ==
    ASSUME NEW d \in Documents, NEW frame, IsFrame(d, frame)
    PROVE  /\ frame.body \in Bodies(d) /\ frame.set \in DOMAIN frame.body /\ frame.atRoot \in BOOLEAN
           /\ Len(Items(frame)) \in Nat /\ DOMAIN Items(frame) = 1..Len(Items(frame))
           /\ frame.next \in Nat /\ frame.depth \in Nat
           /\ \A item \in Range(Items(frame)) : IsItem(item, frame.set, frame.body)
           /\ Looping(frame) => Item(frame) \in Range(Items(frame))
<1>1. frame.body \in Bodies(d) /\ frame.set \in DOMAIN frame.body /\ frame.atRoot \in BOOLEAN
  BY DEF IsFrame, Place, Places
<1>2. /\ Len(Items(frame)) \in Nat /\ DOMAIN Items(frame) = 1..Len(Items(frame))
      /\ \A item \in Range(Items(frame)) : IsItem(item, frame.set, frame.body)
  BY <1>1, DocumentFacts DEF Items
<1>3. frame.next \in 1..(Len(Items(frame)) + 1) /\ frame.depth \in Nat
  BY DEF IsFrame
<1>4. ASSUME Looping(frame) PROVE Item(frame) \in Range(Items(frame))
  <2>1. frame.next \in DOMAIN Items(frame)
    BY <1>2, <1>3, <1>4 DEF Looping
  <2> QED
    BY <2>1 DEF Item, Range
<1> QED
  BY <1>1, <1>2, <1>3, <1>4

LEMMA AfterFacts ==
    ASSUME NEW d \in Documents, NEW frame, IsFrame(d, frame), Looping(frame),
           NEW depth \in Nat, Reached(d, Place(frame), depth)
    PROVE  /\ IsFrame(d, After(frame, depth))
           /\ Place(After(frame, depth)) = Place(frame)
           /\ After(frame, depth).depth >= frame.depth /\ After(frame, depth).depth >= depth
<1> DEFINE a == After(frame, depth)
<1>1. /\ a.body = frame.body /\ a.set = frame.set /\ a.atRoot = frame.atRoot
      /\ a.next = frame.next + 1 /\ a.depth = Deeper(frame.depth, depth)
  BY DEF After
<1> HIDE DEF a
<1>2. Place(a) = Place(frame) /\ Items(a) = Items(frame)
  BY <1>1 DEF Place, Items
<1>3. Len(Items(frame)) \in Nat /\ frame.next \in Nat /\ frame.depth \in Nat
  BY FrameFacts
<1>4. a.next \in 1..(Len(Items(a)) + 1)
  BY <1>1, <1>2, <1>3 DEF Looping
<1>5. /\ a.depth \in {frame.depth, depth} /\ a.depth \in Nat
      /\ a.depth >= frame.depth /\ a.depth >= depth
  BY <1>1, <1>3 DEF Deeper
<1>6. Reached(d, Place(a), a.depth)
  <2>1. CASE a.depth = frame.depth
    BY <1>2, <2>1 DEF IsFrame
  <2>2. CASE a.depth = depth
    BY <1>2, <2>2
  <2> QED
    BY <1>5, <2>1, <2>2
<1> QED
  BY <1>2, <1>4, <1>5, <1>6 DEF IsFrame, a

\* The place an item leads to is below that of the call.
LEMMA LeadsBelow ==
    ASSUME NEW d \in Documents, NEW frame, IsFrame(d, frame), Looping(frame),
           NEW way, Leads(d, Place(frame), Item(frame), way)
    PROVE  way \in Below(d, Place(frame))
<1>1. Item(frame) \in Range(Items(frame))
  BY FrameFacts
<1>2. Place(frame)[1][Place(frame)[2]] = Items(frame)
  BY DEF Place, Items
<1> QED
  BY <1>1, <1>2, BelowIsWhereItemsLead

LEMMA CallsFront ==
    ASSUME NEW d, NEW st, Calls(d, st), st # <<>>
    PROVE  /\ Calls(d, Front(st)) /\ Len(Front(st)) = Len(st) - 1 /\ Len(st) \in Nat /\ Len(st) >= 1
           /\ Last(st) = st[Len(st)] /\ IsFrame(d, Last(st))
           /\ \A n \in 1..(Len(st) - 1) : Front(st)[n] = st[n]
<1> DEFINE u == Front(st)
<1>1. st \in Seq(Range(st))
  BY DEF Calls
<1>2. /\ Len(st) \in Nat /\ Len(st) >= 1 /\ Last(st) = st[Len(st)]
      /\ u \in Seq(Range(u)) /\ Len(u) = Len(st) - 1
      /\ \A n \in 1..(Len(st) - 1) : u[n] = st[n]
  BY <1>1, FrontFacts
<1> HIDE DEF u
<1>3. \A n \in 1..Len(u) : n \in 1..Len(st) /\ u[n] = st[n]
  BY <1>2
<1>4. \A n \in 1..(Len(u) - 1) : n \in 1..(Len(st) - 1) /\ u[n] = st[n] /\ u[n + 1] = st[n + 1]
  BY <1>2
<1>5. \A n \in 1..Len(u) : IsFrame(d, u[n])
  BY <1>3 DEF Calls
<1>6. \A n \in 1..(Len(u) - 1) : Called(d, u[n], u[n + 1])
  BY <1>4 DEF Calls
<1>7. Calls(d, u)
  BY <1>2, <1>5, <1>6, Zenon DEF Calls
<1>8. IsFrame(d, st[Len(st)])
  BY <1>2 DEF Calls
<1> QED
  BY <1>2, <1>7, <1>8 DEF u

\* The call at the end of the stack, a fresh one or one that went on.
LEMMA CallsAppend ==
    ASSUME NEW d, NEW st, Calls(d, st), NEW frame, IsFrame(d, frame),
           st # <<>> => Called(d, Last(st), frame)
    PROVE  LET t == Append(st, frame) IN
           /\ Calls(d, t) /\ t # <<>> /\ Len(t) = Len(st) + 1 /\ Len(st) \in Nat
           /\ \A n \in 1..Len(st) : t[n] = st[n]
           /\ t[Len(st) + 1] = frame
<1> DEFINE t == Append(st, frame)
<1>1. st \in Seq(Range(st))
  BY DEF Calls
<1>2. /\ Len(st) \in Nat /\ t \in Seq(Range(t)) /\ Len(t) = Len(st) + 1
      /\ \A n \in 1..Len(st) : t[n] = st[n]
      /\ t[Len(st) + 1] = frame
  BY <1>1, StackFacts
<1>3. Len(st) > 0 => st # <<>> /\ Last(st) = st[Len(st)]
  <2>1. st # <<>> => Last(st) = st[Len(st)]
    BY <1>1, FrontFacts
  <2>2. Len(<<>>) = 0
    OBVIOUS
  <2> QED
    BY <2>1, <2>2
<1> HIDE DEF t
<1>4. \A n \in 1..Len(t) : IsFrame(d, t[n])
  <2> SUFFICES ASSUME NEW n \in 1..Len(t) PROVE IsFrame(d, t[n])
    OBVIOUS
  <2>1. CASE n \in 1..Len(st)
    BY <1>2, <2>1 DEF Calls
  <2>2. CASE n = Len(st) + 1
    BY <1>2, <2>2
  <2> QED
    BY <1>2, <2>1, <2>2
<1>5. \A n \in 1..(Len(t) - 1) : Called(d, t[n], t[n + 1])
  <2> SUFFICES ASSUME NEW n \in 1..(Len(t) - 1) PROVE Called(d, t[n], t[n + 1])
    OBVIOUS
  <2>1. CASE n \in 1..(Len(st) - 1)
    <3>1. t[n] = st[n] /\ t[n + 1] = st[n + 1]
      BY <1>2, <2>1
    <3> QED
      BY <2>1, <3>1 DEF Calls
  <2>2. CASE n = Len(st)
    <3>1. t[n] = Last(st) /\ t[n + 1] = frame /\ st # <<>>
      BY <1>2, <1>3, <2>2
    <3> QED
      BY <3>1
  <2> QED
    BY <1>2, <2>1, <2>2
<1>6. t # <<>>
  <2>1. Len(<<>>) = 0
    OBVIOUS
  <2> QED
    BY <1>2, <2>1
<1>7. Calls(d, t)
  BY <1>2, <1>4, <1>5, Zenon DEF Calls
<1> QED
  BY <1>2, <1>6, <1>7 DEF t

\* The innermost call goes on to its next item.
LEMMA CallsAdvance ==
    ASSUME NEW d \in Documents, NEW st, Calls(d, st), st # <<>>, Looping(Last(st)),
           NEW depth \in Nat, Reached(d, Place(Last(st)), depth)
    PROVE  LET t == Append(Front(st), After(Last(st), depth)) IN
           /\ Calls(d, t) /\ t # <<>> /\ Len(t) = Len(st) /\ Len(st) \in Nat /\ Len(st) >= 1
           /\ \A n \in 1..(Len(st) - 1) : t[n] = st[n]
           /\ t[Len(st)] = After(Last(st), depth)
<1> DEFINE u == Front(st)
           a == After(Last(st), depth)
<1>1. /\ Calls(d, u) /\ Len(u) = Len(st) - 1 /\ Len(st) \in Nat /\ Len(st) >= 1
      /\ Last(st) = st[Len(st)] /\ IsFrame(d, Last(st))
      /\ \A n \in 1..(Len(st) - 1) : u[n] = st[n]
  BY CallsFront
<1>2. IsFrame(d, a) /\ Place(a) = Place(Last(st))
  BY <1>1, AfterFacts
<1> HIDE DEF u, a
<1>3. ASSUME u # <<>> PROVE Called(d, Last(u), a)
  <2>1. Last(u) = u[Len(u)] /\ Len(u) >= 1
    BY <1>1, <1>3, CallsFront
  <2>2. Len(u) \in 1..(Len(st) - 1) /\ Len(u) + 1 = Len(st)
    BY <1>1, <2>1
  <2>3. Called(d, st[Len(u)], st[Len(u) + 1])
    BY <2>2 DEF Calls
  <2>4. Called(d, Last(u), Last(st))
    BY <1>1, <2>1, <2>2, <2>3
  <2> QED
    BY <1>2, <2>4 DEF Called
<1> DEFINE t == Append(u, a)
<1>4. /\ Calls(d, t) /\ t # <<>> /\ Len(t) = Len(u) + 1
      /\ \A n \in 1..Len(u) : t[n] = u[n]
      /\ t[Len(u) + 1] = a
  BY <1>1, <1>2, <1>3, CallsAppend
<1> HIDE DEF t
<1>5. Len(t) = Len(st) /\ (\A n \in 1..(Len(st) - 1) : t[n] = st[n]) /\ t[Len(st)] = a
  BY <1>1, <1>4
<1> QED
  BY <1>1, <1>4, <1>5 DEF t, u, a

\* A call is made for the item of the innermost one.
LEMMA CallsEnter ==
    ASSUME NEW d \in Documents, NEW st, Calls(d, st), st # <<>>, Looping(Last(st)),
           NEW body, NEW set, NEW atRoot,
           Leads(d, Place(Last(st)), Item(Last(st)), <<<<body, set, atRoot>>, Cost(Item(Last(st)))>>)
    PROVE  LET t == Append(st, Frame(body, set, atRoot)) IN
           /\ Calls(d, t) /\ t # <<>> /\ Len(t) = Len(st) + 1 /\ Len(st) \in Nat
           /\ \A n \in 1..Len(st) : t[n] = st[n]
           /\ t[Len(st) + 1] = Frame(body, set, atRoot)
<1> DEFINE top == Last(st)
           frame == Frame(body, set, atRoot)
           way == <<<<body, set, atRoot>>, Cost(Item(top))>>
<1>1. IsFrame(d, top)
  BY CallsFront
<1>2. Place(top) \in Places(d)
  BY <1>1 DEF IsFrame
<1>3. Place(frame) = <<body, set, atRoot>> /\ frame.next = 1 /\ frame.depth = 0
  BY DEF Frame, Place
<1>4. way \in Below(d, Place(top))
  BY <1>1, LeadsBelow
<1>5. Place(frame) \in Places(d)
  BY <1>2, <1>3, <1>4, BelowFacts
<1>6. frame.next \in 1..(Len(Items(frame)) + 1)
  <2>1. Len(Items(frame)) \in Nat
    BY <1>5, DocumentFacts DEF Places, Place, Items
  <2> QED
    BY <1>3, <2>1
<1>7. IsFrame(d, frame)
  BY <1>3, <1>5, <1>6, ReachedFacts DEF IsFrame
<1>8. Called(d, top, frame)
  BY <1>3 DEF Called
<1> HIDE DEF frame
<1> QED
  BY <1>7, <1>8, CallsAppend DEF frame

\* The innermost call returns: the one that made it goes on.
LEMMA CallsReturn ==
    ASSUME NEW d \in Documents, NEW st, Calls(d, st), Len(st) > 1
    PROVE  LET u == Front(st)
               outer == Last(u)
               depth == Cost(Item(outer)) + Last(st).depth
           IN  /\ Calls(d, u) /\ u # <<>> /\ Len(u) = Len(st) - 1 /\ Len(st) \in Nat
               /\ outer = st[Len(st) - 1] /\ Looping(outer) /\ Called(d, outer, Last(st))
               /\ IsFrame(d, outer) /\ IsFrame(d, Last(st))
               /\ depth \in Nat /\ Reached(d, Place(outer), depth)
<1> DEFINE u == Front(st)
           outer == Last(u)
           top == Last(st)
           depth == Cost(Item(outer)) + top.depth
<1>1. st # <<>>
  BY Len(<<>>) = 0
<1>2. /\ Calls(d, u) /\ Len(u) = Len(st) - 1 /\ Len(st) \in Nat
      /\ top = st[Len(st)] /\ IsFrame(d, top)
      /\ \A n \in 1..(Len(st) - 1) : u[n] = st[n]
  BY <1>1, CallsFront
<1>3. u # <<>>
  <2>1. Len(u) > 0 /\ Len(<<>>) = 0
    BY <1>2
  <2> HIDE DEF u
  <2> QED
    BY <2>1
<1>4. outer = u[Len(u)] /\ IsFrame(d, outer)
  BY <1>2, <1>3, CallsFront
<1> HIDE DEF u
<1>5. outer = st[Len(st) - 1]
  BY <1>2, <1>4
<1>6. Called(d, outer, top)
  <2>1. Len(st) - 1 \in 1..(Len(st) - 1) /\ (Len(st) - 1) + 1 = Len(st)
    BY <1>2
  <2>2. Called(d, st[Len(st) - 1], st[(Len(st) - 1) + 1])
    BY <2>1 DEF Calls
  <2> QED
    BY <1>2, <1>5, <2>1, <2>2
<1> HIDE DEF top, outer
<1>7. Looping(outer) /\ <<Place(top), Cost(Item(outer))>> \in Below(d, Place(outer))
  BY <1>4, <1>6, LeadsBelow DEF Called
<1>8. Place(outer) \in Places(d) /\ top.depth \in Nat /\ Reached(d, Place(top), top.depth)
  BY <1>2, <1>4 DEF IsFrame
<1>9. Reached(d, Place(outer), depth)
  <2> DEFINE way == <<Place(top), Cost(Item(outer))>>
  <2>1. way \in Below(d, Place(outer)) /\ way[1] = Place(top) /\ way[2] = Cost(Item(outer))
    BY <1>7
  <2> HIDE DEF way
  <2>2. Reached(d, Place(outer), way[2] + top.depth)
    BY <1>8, <2>1, ReachedFacts
  <2> QED
    BY <2>1, <2>2
<1>10. depth \in Nat
  BY <1>8 DEF Cost
<1> QED
  BY <1>2, <1>3, <1>4, <1>5, <1>6, <1>7, <1>9, <1>10 DEF u, outer, top

-----------------------------------------------------------------------------
(* The memo table.                                                         *)

Keys(d) == (DOMAIN d.frags) \X BOOLEAN

FragmentPlace(d, key) == <<d.frags[key[1]], 1, key[2]>>

Memoised(d, mm) ==
    /\ DOMAIN mm \subseteq Keys(d)
    /\ \A key \in DOMAIN mm : mm[key] \in Nat /\ Reached(d, FragmentPlace(d, key), mm[key])

MemoBounded(d, mm) == \A key \in DOMAIN mm : Bounded(d, FragmentPlace(d, key), mm[key])

LEMMA MemoisedRemember ==
    ASSUME NEW d, NEW mm, Memoised(d, mm), NEW key \in Keys(d),
           NEW depth \in Nat, Reached(d, FragmentPlace(d, key), depth)
    PROVE  Memoised(d, Remember(mm, key, depth))
<1> DEFINE new == Remember(mm, key, depth)
<1>1. /\ DOMAIN new = DOMAIN mm \cup {key} /\ new[key] = depth
      /\ \A k \in DOMAIN mm : k # key => new[k] = mm[k]
  BY DEF Remember
<1> HIDE DEF new
<1>2. DOMAIN new \subseteq Keys(d)
  BY <1>1 DEF Memoised
<1>3. \A k \in DOMAIN new : new[k] \in Nat /\ Reached(d, FragmentPlace(d, k), new[k])
  BY <1>1 DEF Memoised
<1> QED
  BY <1>2, <1>3 DEF Memoised, new

LEMMA MemoBoundedRemember ==
    ASSUME NEW d, NEW mm, MemoBounded(d, mm), NEW key, NEW depth,
           Bounded(d, FragmentPlace(d, key), depth)
    PROVE  MemoBounded(d, Remember(mm, key, depth))
<1> DEFINE new == Remember(mm, key, depth)
<1>1. /\ DOMAIN new = DOMAIN mm \cup {key} /\ new[key] = depth
      /\ \A k \in DOMAIN mm : k # key => new[k] = mm[k]
  BY DEF Remember
<1> HIDE DEF new
<1> QED
  BY <1>1 DEF MemoBounded, new

-----------------------------------------------------------------------------
(* In a document without cycles the depth found so far is enough for the   *)
(* items looped over.                                                      *)

Covers(d, way, depth) == \E b \in Nat : Bounded(d, way[1], b) /\ way[2] + b <= depth

ItemsBounded(d, frame) ==
    \A j \in 1..(frame.next - 1) :
        \A way : Leads(d, Place(frame), Items(frame)[j], way) => Covers(d, way, frame.depth)

\* A call made for a spread is in a body of a lower rank.
Falls(rank, outer, inner) ==
    Item(outer).kind = "spread" => \A g \in Spreads(inner.body) : rank[g] < rank[Item(outer).name]

CallsBounded(d, rank, st) ==
    /\ \A n \in 1..Len(st) : ItemsBounded(d, st[n])
    /\ \A n, m \in 1..Len(st) : n < m => Falls(rank, st[n], st[m])

LEMMA ReturnedBounded ==
    ASSUME NEW d \in Documents, NEW frame, IsFrame(d, frame), ItemsBounded(d, frame), ~Looping(frame)
    PROVE  Bounded(d, Place(frame), frame.depth)
<1> DEFINE p == Place(frame)
<1>1. p \in Places(d) /\ frame.depth \in Nat
  BY DEF IsFrame
<1>2. /\ Len(Items(frame)) \in Nat /\ DOMAIN Items(frame) = 1..Len(Items(frame)) /\ frame.next \in Nat
      /\ frame.next > Len(Items(frame))
  BY FrameFacts DEF Looping
<1>3. ASSUME NEW way \in Below(d, p) PROVE \E b \in Nat : Bounded(d, way[1], b) /\ way[2] + b <= frame.depth
  <2>1. p[1][p[2]] = Items(frame)
    BY DEF Place, Items
  <2>2. PICK item \in Range(Items(frame)) : Leads(d, p, item, way)
    BY <2>1, BelowIsWhereItemsLead
  <2>3. PICK j \in DOMAIN Items(frame) : item = Items(frame)[j]
    BY DEF Range
  <2>4. j \in 1..(frame.next - 1)
    BY <1>2
  <2> QED
    BY <2>2, <2>3, <2>4 DEF ItemsBounded, Covers
<1> HIDE DEF p
<1> QED
  BY <1>1, <1>3, BoundedIfBelow DEF p

LEMMA AfterBounded ==
    ASSUME NEW d \in Documents, NEW frame, IsFrame(d, frame), Looping(frame), ItemsBounded(d, frame),
           NEW depth \in Nat, Reached(d, Place(frame), depth),
           \A way : Leads(d, Place(frame), Item(frame), way) => Covers(d, way, depth)
    PROVE  ItemsBounded(d, After(frame, depth))
<1> DEFINE a == After(frame, depth)
<1>1. Place(a) = Place(frame) /\ a.depth >= frame.depth /\ a.depth >= depth /\ IsFrame(d, a)
  BY AfterFacts
<1>2. Items(a) = Items(frame) /\ a.next = frame.next + 1
  BY DEF After, Items
<1>3. frame.next \in Nat /\ frame.depth \in Nat /\ a.depth \in Nat
  BY <1>1, FrameFacts
<1> HIDE DEF a
<1>4. ASSUME NEW way, NEW e \in Nat, e <= a.depth, Covers(d, way, e), way[2] \in {0, 1}
      PROVE  Covers(d, way, a.depth)
  BY <1>3, <1>4 DEF Covers
<1>5. ASSUME NEW j \in 1..(a.next - 1), NEW way, Leads(d, Place(a), Items(a)[j], way)
      PROVE  Covers(d, way, a.depth)
  <2>1. way[2] \in {0, 1}
    BY <1>5, LeadsCost DEF Cost
  <2>2. CASE j = frame.next
    <3>1. Leads(d, Place(frame), Item(frame), way)
      BY <1>1, <1>2, <1>5, <2>2 DEF Item
    <3>2. Covers(d, way, depth)
      BY <3>1
    <3> QED
      BY <1>1, <1>4, <2>1, <3>2
  <2>3. CASE j \in 1..(frame.next - 1)
    <3>1. Leads(d, Place(frame), Items(frame)[j], way)
      BY <1>1, <1>2, <1>5
    <3>2. Covers(d, way, frame.depth)
      BY <2>3, <3>1 DEF ItemsBounded
    <3> QED
      BY <1>1, <1>3, <1>4, <2>1, <3>2
  <2> QED
    BY <1>2, <1>3, <2>2, <2>3
<1> QED
  BY <1>5 DEF ItemsBounded, a

LEMMA BoundedFront ==
    ASSUME NEW d, NEW rank, NEW st, Calls(d, st), st # <<>>, CallsBounded(d, rank, st)
    PROVE  CallsBounded(d, rank, Front(st))
<1> DEFINE u == Front(st)
<1>1. /\ Len(st) \in Nat /\ Len(u) = Len(st) - 1
      /\ \A n \in 1..(Len(st) - 1) : u[n] = st[n]
  BY CallsFront
<1> HIDE DEF u
<1>2. \A n \in 1..Len(u) : n \in 1..Len(st) /\ u[n] = st[n]
  BY <1>1
<1>3. \A n \in 1..Len(u) : ItemsBounded(d, u[n])
  BY <1>2 DEF CallsBounded
<1>4. \A n, m \in 1..Len(u) : n < m => Falls(rank, u[n], u[m])
  BY <1>2 DEF CallsBounded
<1> QED
  BY <1>3, <1>4 DEF CallsBounded, u

LEMMA BoundedAdvance ==
    ASSUME NEW d \in Documents, NEW rank, NEW st, Calls(d, st), st # <<>>, CallsBounded(d, rank, st),
           Looping(Last(st)), NEW depth \in Nat, Reached(d, Place(Last(st)), depth),
           \A way : Leads(d, Place(Last(st)), Item(Last(st)), way) => Covers(d, way, depth)
    PROVE  CallsBounded(d, rank, Append(Front(st), After(Last(st), depth)))
<1> DEFINE a == After(Last(st), depth)
           t == Append(Front(st), a)
<1>1. /\ Len(st) \in Nat /\ Len(st) >= 1 /\ Len(t) = Len(st)
      /\ \A n \in 1..(Len(st) - 1) : t[n] = st[n]
      /\ t[Len(st)] = a
  BY CallsAdvance
<1>2. Last(st) = st[Len(st)] /\ IsFrame(d, Last(st))
  BY CallsFront
<1>3. ItemsBounded(d, Last(st))
  BY <1>1, <1>2 DEF CallsBounded
<1>4. ItemsBounded(d, a)
  BY <1>2, <1>3, AfterBounded
<1>5. a.body = st[Len(st)].body
  BY <1>2 DEF After
<1> HIDE DEF a, t
<1>6. \A n \in 1..Len(t) : ItemsBounded(d, t[n])
  <2> SUFFICES ASSUME NEW n \in 1..Len(t) PROVE ItemsBounded(d, t[n])
    OBVIOUS
  <2>1. CASE n = Len(st)
    BY <1>1, <1>4, <2>1
  <2>2. CASE n # Len(st)
    <3>1. n \in 1..Len(st) /\ t[n] = st[n]
      BY <1>1, <2>2
    <3> QED
      BY <3>1 DEF CallsBounded
  <2> QED
    BY <2>1, <2>2
<1>7. \A n, m \in 1..Len(t) : n < m => Falls(rank, t[n], t[m])
  <2> SUFFICES ASSUME NEW n \in 1..Len(t), NEW m \in 1..Len(t), n < m PROVE Falls(rank, t[n], t[m])
    OBVIOUS
  <2>1. n \in 1..Len(st) /\ m \in 1..Len(st) /\ t[n] = st[n] /\ t[m].body = st[m].body
    BY <1>1, <1>5
  <2>2. Falls(rank, st[n], st[m])
    BY <2>1 DEF CallsBounded
  <2> QED
    BY <2>1, <2>2 DEF Falls
<1> QED
  BY <1>6, <1>7 DEF CallsBounded, t, a

LEMMA SpreadCalled ==
    ASSUME NEW d, NEW outer, NEW inner, Called(d, outer, inner), Item(outer).kind = "spread"
    PROVE  /\ Item(outer).name \in DOMAIN d.frags
           /\ Place(inner) = FragmentPlace(d, <<Item(outer).name, outer.atRoot>>)
<1>1. Place(outer)[3] = outer.atRoot
  BY DEF Place
<1>2. /\ Item(outer).name \in DOMAIN d.frags
      /\ <<Place(inner), Cost(Item(outer))>> = <<<<d.frags[Item(outer).name], 1, Place(outer)[3]>>, 0>>
  BY DEF Called, Leads
<1>3. Place(inner) = <<d.frags[Item(outer).name], 1, outer.atRoot>>
  BY <1>1, <1>2
<1> QED
  BY <1>2, <1>3 DEF FragmentPlace

LEMMA RankNatural ==
    ASSUME NEW d \in Documents, NEW rank, Acyclic(d, rank), NEW name \in DOMAIN d.frags
    PROVE  rank[name] \in Nat
<1>1. Cardinality(DOMAIN d.frags) \in Nat
  BY DocumentsTyped, FS_CardinalityType
<1>2. rank[name] \in 0..(Cardinality(DOMAIN d.frags) - 1)
  BY DEF Acyclic
<1> QED
  BY <1>1, <1>2

LEMMA BoundedEnter ==
    ASSUME NEW d \in Documents, NEW rank, Acyclic(d, rank),
           NEW st, Calls(d, st), st # <<>>, CallsBounded(d, rank, st), Looping(Last(st)),
           NEW body, NEW set, NEW atRoot,
           Leads(d, Place(Last(st)), Item(Last(st)), <<<<body, set, atRoot>>, Cost(Item(Last(st)))>>)
    PROVE  CallsBounded(d, rank, Append(st, Frame(body, set, atRoot)))
<1> DEFINE top == Last(st)
           item == Item(top)
           frame == Frame(body, set, atRoot)
           t == Append(st, frame)
<1>1. /\ Len(t) = Len(st) + 1
      /\ \A n \in 1..Len(st) : t[n] = st[n]
      /\ t[Len(st) + 1] = frame
  BY CallsEnter
<1>2. top = st[Len(st)] /\ IsFrame(d, top) /\ Len(st) \in Nat /\ Len(st) >= 1
  BY CallsFront
<1>3. frame.body = body /\ frame.next = 1
  BY DEF Frame
<1>4. Place(top)[1] = top.body
  BY DEF Place
<1>5. top.body \in Bodies(d) /\ top.set \in DOMAIN top.body /\ item \in Range(top.body[top.set])
  BY <1>2, FrameFacts DEF Items
<1>6. \/ item.kind # "spread" /\ body = top.body
      \/ item.kind = "spread" /\ item.name \in DOMAIN d.frags /\ body = d.frags[item.name]
  <2>1. CASE item.kind = "spread"
    <3>1. item.name \in DOMAIN d.frags /\ <<body, set, atRoot>> = <<d.frags[item.name], 1, Place(top)[3]>>
      BY <2>1 DEF Leads
    <3> QED
      BY <2>1, <3>1
  <2>2. CASE item.kind = "field"
    <3>1. <<body, set, atRoot>> = <<Place(top)[1], item.sub, FALSE>>
      BY <2>2 DEF Leads
    <3> QED
      BY <1>4, <2>2, <3>1
  <2>3. CASE item.kind = "inline"
    <3>1. <<body, set, atRoot>> = <<Place(top)[1], item.sub, Place(top)[3]>>
      BY <2>3 DEF Leads
    <3> QED
      BY <1>4, <2>3, <3>1
  <2> QED
    BY <2>1, <2>2, <2>3 DEF Leads
<1>7. item.kind = "spread" => item.name \in Spreads(top.body)
  BY <1>5, SpreadOfBody
<1> HIDE DEF top, item, frame, t
<1>8. \A n \in 1..Len(t) : ItemsBounded(d, t[n])
  <2>1. ItemsBounded(d, frame)
    BY <1>3 DEF ItemsBounded
  <2> SUFFICES ASSUME NEW n \in 1..Len(t) PROVE ItemsBounded(d, t[n])
    OBVIOUS
  <2>2. CASE n = Len(st) + 1
    BY <1>1, <2>1, <2>2
  <2>3. CASE n \in 1..Len(st)
    BY <1>1, <2>3 DEF CallsBounded
  <2> QED
    BY <1>1, <1>2, <2>2, <2>3
<1>9. ASSUME NEW n \in 1..Len(st) PROVE Falls(rank, st[n], frame)
  <2> SUFFICES ASSUME Item(st[n]).kind = "spread", NEW g \in Spreads(body)
               PROVE  rank[g] < rank[Item(st[n]).name]
    BY <1>3 DEF Falls
  <2>1. CASE n # Len(st)
    <3>1. n \in 1..(Len(st) - 1) /\ n < Len(st) /\ Len(st) \in 1..Len(st)
      BY <1>2, <2>1
    <3>2. \A f \in Spreads(top.body) : rank[f] < rank[Item(st[n]).name]
      BY <1>2, <3>1 DEF CallsBounded, Falls
    <3>3. CASE item.kind # "spread"
      BY <1>6, <3>2, <3>3
    <3>4. CASE item.kind = "spread"
      <4>1. item.name \in DOMAIN d.frags /\ body = d.frags[item.name] /\ rank[item.name] < rank[Item(st[n]).name]
        BY <1>6, <1>7, <3>2, <3>4
      <4>2. rank[g] < rank[item.name] /\ g \in DOMAIN d.frags
        BY <4>1, FragmentIsPlace DEF Acyclic, Ranks
      <4>3. Item(st[n]).name \in DOMAIN d.frags
        BY <3>1, SpreadCalled DEF Calls
      <4> QED
        BY <4>1, <4>2, <4>3, RankNatural
    <3> QED
      BY <3>3, <3>4
  <2>2. CASE n = Len(st)
    <3>1. Item(st[n]) = item
      BY <1>2, <2>2 DEF item
    <3> QED
      BY <1>6, <3>1 DEF Acyclic, Ranks
  <2> QED
    BY <2>1, <2>2
<1>10. \A n, m \in 1..Len(t) : n < m => Falls(rank, t[n], t[m])
  <2> SUFFICES ASSUME NEW n \in 1..Len(t), NEW m \in 1..Len(t), n < m PROVE Falls(rank, t[n], t[m])
    OBVIOUS
  <2>1. n \in 1..Len(st) /\ t[n] = st[n]
    BY <1>1, <1>2
  <2>2. CASE m = Len(st) + 1
    BY <1>1, <1>9, <2>1, <2>2
  <2>3. CASE m \in 1..Len(st)
    BY <1>1, <2>1, <2>3 DEF CallsBounded
  <2> QED
    BY <1>1, <1>2, <2>2, <2>3
<1> QED
  BY <1>8, <1>10 DEF CallsBounded, t, frame

\* In a document without cycles no call is made for the fragment that the
\* innermost call spreads.
LEMMA NoCycleMet ==
    ASSUME NEW d \in Documents, NEW rank, Acyclic(d, rank),
           NEW st, Calls(d, st), st # <<>>, CallsBounded(d, rank, st), Looping(Last(st)),
           Item(Last(st)).kind = "spread"
    PROVE  /\ Item(Last(st)).name \in DOMAIN d.frags
           /\ \A n \in 1..(Len(st) - 1) :
                 Item(st[n]).kind = "spread" => Item(st[n]).name # Item(Last(st)).name
<1> DEFINE top == Last(st)
           name == Item(top).name
<1>1. top = st[Len(st)] /\ IsFrame(d, top) /\ Len(st) \in Nat /\ Len(st) >= 1
  BY CallsFront
<1>2. top.body \in Bodies(d) /\ top.set \in DOMAIN top.body /\ Item(top) \in Range(top.body[top.set])
  BY <1>1, FrameFacts DEF Items
<1>3. name \in Spreads(top.body)
  BY <1>2, SpreadOfBody
<1>4. name \in DOMAIN d.frags
  BY <1>2, <1>3 DEF Acyclic
<1>5. ASSUME NEW n \in 1..(Len(st) - 1), Item(st[n]).kind = "spread", Item(st[n]).name = name
      PROVE  FALSE
  <2>1. n \in 1..Len(st) /\ Len(st) \in 1..Len(st) /\ n < Len(st)
    BY <1>1
  <2>2. rank[name] < rank[name]
    BY <1>1, <1>3, <1>5, <2>1 DEF CallsBounded, Falls
  <2> QED
    BY <1>4, <2>2, RankNatural
<1> QED
  BY <1>4, <1>5

-----------------------------------------------------------------------------
(* The fragments walked so far: those remembered and those under way.      *)

Key(frame) == MemoKey(Item(frame).name, frame.atRoot)

Followed(st) == {n \in 1..(Len(st) - 1) : Item(st[n]).kind = "spread"}

Begun(st, mm) == DOMAIN mm \cup {Key(st[n]) : n \in Followed(st)}

LEMMA BegunFacts ==
    ASSUME NEW d \in Documents, NEW st, NEW mm, Calls(d, st), Memoised(d, mm)
    PROVE  IsFiniteSet(Begun(st, mm)) /\ Cardinality(Begun(st, mm)) <= 2 * Cardinality(DOMAIN d.frags)
<1> DEFINE keys == Keys(d)
           n == Cardinality(DOMAIN d.frags)
<1>1. Begun(st, mm) \subseteq keys
  <2>1. ASSUME NEW k \in Followed(st) PROVE Key(st[k]) \in keys
    <3>1. Len(st) \in Nat
      BY DEF Calls
    <3>2. k \in 1..(Len(st) - 1) /\ k \in 1..Len(st) /\ Item(st[k]).kind = "spread"
      BY <3>1 DEF Followed
    <3>3. Item(st[k]).name \in DOMAIN d.frags
      BY <3>2, SpreadCalled DEF Calls
    <3>4. st[k].atRoot \in BOOLEAN
      BY <3>2, FrameFacts DEF Calls
    <3> QED
      BY <3>3, <3>4 DEF Key, MemoKey, Keys
  <2> QED
    BY <2>1 DEF Begun, Memoised
<1>2. IsFiniteSet(DOMAIN d.frags)
  BY DocumentsTyped
<1>3. IsFiniteSet(BOOLEAN) /\ Cardinality(BOOLEAN) = 2
  <2>1. BOOLEAN = {TRUE, FALSE} /\ TRUE # FALSE
    OBVIOUS
  <2>2. IsFiniteSet({TRUE}) /\ Cardinality({TRUE}) = 1
    BY FS_Singleton
  <2>3. IsFiniteSet({TRUE} \cup {FALSE}) /\ Cardinality({TRUE} \cup {FALSE}) = 1 + 1
    <3>1. FALSE \notin {TRUE}
      OBVIOUS
    <3> QED
      BY <2>2, <3>1, FS_AddElement
  <2>4. {TRUE} \cup {FALSE} = BOOLEAN
    BY <2>1
  <2>5. IsFiniteSet(BOOLEAN) /\ Cardinality(BOOLEAN) = 1 + 1
    BY <2>3, <2>4, Zenon
  <2>6. 1 + 1 = 2
    OBVIOUS
  <2> QED
    BY <2>5, <2>6, Zenon
<1>4. IsFiniteSet(keys) /\ Cardinality(keys) = n * 2 /\ n \in Nat
  BY <1>2, <1>3, FS_Product, FS_CardinalityType DEF Keys
<1>5. IsFiniteSet(Begun(st, mm)) /\ Cardinality(Begun(st, mm)) <= Cardinality(keys)
  BY <1>1, <1>4, FS_Subset
<1> HIDE DEF keys, n
<1>6. Cardinality(Begun(st, mm)) <= 2 * n
  BY <1>4, <1>5
<1> QED
  BY <1>5, <1>6 DEF n

LEMMA BegunKept ==
    ASSUME NEW st, NEW t, NEW mm, Len(st) \in Nat, Len(t) = Len(st),
           \A n \in 1..(Len(st) - 1) : t[n] = st[n]
    PROVE  Begun(t, mm) = Begun(st, mm)
<1>1. Followed(t) = Followed(st)
  BY DEF Followed
<1>2. \A n \in Followed(st) : t[n] = st[n]
  BY DEF Followed
<1> QED
  BY <1>1, <1>2 DEF Begun

\* A call made for a spread begins a fragment.
LEMMA BegunEnter ==
    ASSUME NEW st, NEW t, NEW mm, Len(st) \in Nat, Len(st) >= 1, Len(t) = Len(st) + 1,
           \A n \in 1..Len(st) : t[n] = st[n]
    PROVE  Begun(t, mm) =
               IF Item(st[Len(st)]).kind = "spread" THEN Begun(st, mm) \cup {Key(st[Len(st)])} ELSE Begun(st, mm)
<1>1. CASE Item(st[Len(st)]).kind = "spread"
  <2>1. Followed(t) = Followed(st) \cup {Len(st)}
    BY <1>1 DEF Followed
  <2>2. \A n \in Followed(st) \cup {Len(st)} : t[n] = st[n]
    BY DEF Followed
  <2>3. {Key(t[n]) : n \in Followed(t)} = {Key(st[n]) : n \in Followed(st)} \cup {Key(st[Len(st)])}
    BY <2>1, <2>2
  <2> QED
    BY <1>1, <2>3 DEF Begun
<1>2. CASE Item(st[Len(st)]).kind # "spread"
  <2>1. Followed(t) = Followed(st)
    BY <1>2 DEF Followed
  <2>2. \A n \in Followed(st) : t[n] = st[n]
    BY DEF Followed
  <2> QED
    BY <1>2, <2>1, <2>2 DEF Begun
<1> QED
  BY <1>1, <1>2

\* When it returns the fragment is remembered.
Notes(mm, new, frame) ==
    DOMAIN new = IF Item(frame).kind = "spread" THEN DOMAIN mm \cup {Key(frame)} ELSE DOMAIN mm

LEMMA BegunReturn ==
    ASSUME NEW st, NEW t, NEW mm, NEW new, Len(st) \in Nat, Len(st) > 1, Len(t) = Len(st) - 1,
           \A n \in 1..(Len(st) - 2) : t[n] = st[n],
           Notes(mm, new, st[Len(st) - 1])
    PROVE  Begun(t, new) = Begun(st, mm)
<1> DEFINE k == Len(st) - 1
<1>1. CASE Item(st[k]).kind = "spread"
  <2>1. Followed(st) = Followed(t) \cup {k}
    BY <1>1 DEF Followed
  <2>2. \A n \in Followed(t) : t[n] = st[n]
    BY DEF Followed
  <2>3. {Key(st[n]) : n \in Followed(st)} = {Key(t[n]) : n \in Followed(t)} \cup {Key(st[k])}
    BY <2>1, <2>2
  <2> QED
    BY <1>1, <2>3 DEF Begun, Notes
<1>2. CASE Item(st[k]).kind # "spread"
  <2>1. Followed(st) = Followed(t)
    BY <1>2 DEF Followed
  <2>2. \A n \in Followed(t) : t[n] = st[n]
    BY DEF Followed
  <2> QED
    BY <1>2, <2>1, <2>2 DEF Begun, Notes
<1> QED
  BY <1>1, <1>2

-----------------------------------------------------------------------------
(* The steps.                                                              *)

\* The calls under way and the memo table are about ways down the document.
WalkInv ==
    /\ doc \in Documents
    /\ Calls(doc, stack)
    /\ Memoised(doc, memo)

\* The steps that know the depth of an item without a call.
Advances ==
    \E depth \in Nat :
        /\ stack # <<>> /\ Looping(Last(stack)) /\ Reached(doc, Place(Last(stack)), depth)
        /\ \A rank :
              Acyclic(doc, rank) /\ CallsBounded(doc, rank, stack) /\ MemoBounded(doc, memo) =>
                  \A way : Leads(doc, Place(Last(stack)), Item(Last(stack)), way) => Covers(doc, way, depth)
        /\ Pass(depth)

\* Those that make a call.
Enters ==
    \E body, set, atRoot :
        /\ stack # <<>> /\ Looping(Last(stack))
        /\ Leads(doc, Place(Last(stack)), Item(Last(stack)),
                 <<<<body, set, atRoot>>, Cost(Item(Last(stack)))>>)
        /\ Enter(body, set, atRoot)
        /\ \/ Item(Last(stack)).kind # "spread" /\ walked' = walked
           \/ /\ Item(Last(stack)).kind = "spread" /\ walked' = walked + 1
              /\ Key(Last(stack)) \notin Begun(stack, memo)

LEMMA AdvancesMeans ==
    ASSUME WalkInv, PassIntrospection \/ Recall \/ PassSpread
    PROVE  Advances
<1> DEFINE top == Last(stack)
           Known(depth) ==
               \A rank :
                  Acyclic(doc, rank) /\ CallsBounded(doc, rank, stack) /\ MemoBounded(doc, memo) =>
                      \A way : Leads(doc, Place(top), Item(top), way) => Covers(doc, way, depth)
<1>1. stack # <<>> /\ Looping(top) /\ doc \in Documents /\ Calls(doc, stack) /\ Memoised(doc, memo)
  BY DEF PassIntrospection, Recall, PassSpread, AtItem, Top, WalkInv
<1>2. IsFrame(doc, top)
  BY <1>1, CallsFront
<1>3. Place(top) \in Places(doc) /\ Place(top)[3] = top.atRoot
  BY <1>2 DEF IsFrame, Place
<1>4. Reached(doc, Place(top), 0)
  BY <1>3, ReachedFacts
<1>5. CASE PassIntrospection
  <2>1. Item(top).kind = "field" /\ top.atRoot /\ Item(top).meta /\ Pass(0)
    BY <1>5 DEF PassIntrospection, AtItem, Top
  <2>2. \A way : ~Leads(doc, Place(top), Item(top), way)
    BY <1>3, <2>1 DEF Leads
  <2>3. Known(0)
    BY <2>2
  <2> HIDE DEF Known
  <2>4. 0 \in Nat
    OBVIOUS
  <2> QED
    BY <1>1, <1>4, <2>1, <2>3, <2>4 DEF Advances, Known
<1>6. CASE Recall
  <2> DEFINE key == MemoKey(Item(top).name, top.atRoot)
             depth == memo[key]
  <2>1. Item(top).kind = "spread" /\ key \in DOMAIN memo /\ Pass(depth)
    BY <1>6 DEF Recall, AtItem, Remembered, Top
  <2>2. depth \in Nat /\ Reached(doc, FragmentPlace(doc, key), depth)
    BY <1>1, <2>1 DEF Memoised
  <2>3. Item(top).name \in DOMAIN doc.frags
    BY <1>1, <2>1 DEF Memoised, MemoKey, Keys
  <2>4. FragmentPlace(doc, key) = <<doc.frags[Item(top).name], 1, top.atRoot>>
    BY DEF FragmentPlace, MemoKey
  <2>5. Leads(doc, Place(top), Item(top), <<FragmentPlace(doc, key), 0>>)
    BY <1>3, <2>1, <2>3, <2>4 DEF Leads
  <2> HIDE DEF depth, key
  <2>6. Reached(doc, Place(top), depth)
    <3> DEFINE way == <<FragmentPlace(doc, key), 0>>
    <3>1. way \in Below(doc, Place(top)) /\ way[1] = FragmentPlace(doc, key) /\ way[2] = 0
      BY <1>1, <1>2, <2>5, LeadsBelow
    <3> HIDE DEF way
    <3>2. Reached(doc, Place(top), way[2] + depth)
      BY <1>3, <2>2, <3>1, ReachedFacts
    <3>3. way[2] + depth = depth
      BY <2>2, <3>1
    <3> QED
      BY <3>2, <3>3
  <2>7. Known(depth)
    <3> SUFFICES ASSUME MemoBounded(doc, memo), NEW way, Leads(doc, Place(top), Item(top), way)
                 PROVE  Covers(doc, way, depth)
      OBVIOUS
    <3>1. way = <<FragmentPlace(doc, key), 0>>
      BY <2>5, LeadsOnce
    <3>2. way[1] = FragmentPlace(doc, key) /\ way[2] = 0
      BY <3>1
    <3>3. Bounded(doc, FragmentPlace(doc, key), depth)
      BY <2>1 DEF MemoBounded, depth
    <3> QED
      BY <2>2, <3>2, <3>3 DEF Covers
  <2> HIDE DEF Known
  <2> QED
    BY <1>1, <2>1, <2>2, <2>6, <2>7 DEF Advances, Known
<1>7. CASE PassSpread
  <2>1. /\ Item(top).kind = "spread" /\ Pass(0)
        /\ Item(top).name \in Visiting \/ Item(top).name \notin DOMAIN doc.frags
    BY <1>7 DEF PassSpread, AtItem, Top
  <2>2. Known(0)
    <3> SUFFICES ASSUME NEW rank, Acyclic(doc, rank), CallsBounded(doc, rank, stack) PROVE FALSE
      OBVIOUS
    <3>1. /\ Item(top).name \in DOMAIN doc.frags
          /\ \A n \in 1..(Len(stack) - 1) :
                Item(stack[n]).kind = "spread" => Item(stack[n]).name # Item(top).name
      BY <1>1, <2>1, NoCycleMet
    <3> QED
      BY <2>1, <3>1 DEF Visiting
  <2> HIDE DEF Known
  <2>3. 0 \in Nat
    OBVIOUS
  <2> QED
    BY <1>1, <1>4, <2>1, <2>2, <2>3 DEF Advances, Known
<1> QED
  BY <1>5, <1>6, <1>7

LEMMA EntersMeans ==
    ASSUME WalkInv, EnterField \/ EnterInline \/ EnterFragment
    PROVE  Enters
<1> DEFINE top == Last(stack)
           item == Item(top)
<1>1. stack # <<>> /\ Looping(top) /\ doc \in Documents /\ Calls(doc, stack)
  BY DEF EnterField, EnterInline, EnterFragment, AtItem, Top, WalkInv
<1>2. Place(top)[1] = top.body /\ Place(top)[3] = top.atRoot
  BY DEF Place
<1>3. CASE EnterField
  <2>1. /\ item.kind = "field" /\ ~(top.atRoot /\ item.meta)
        /\ Enter(top.body, item.sub, FALSE) /\ walked' = walked
    BY <1>3 DEF EnterField, AtItem, Top
  <2>2. Leads(doc, Place(top), item, <<<<top.body, item.sub, FALSE>>, Cost(item)>>)
    BY <1>2, <2>1 DEF Leads, Cost
  <2> QED
    BY <1>1, <2>1, <2>2 DEF Enters
<1>4. CASE EnterInline
  <2>1. /\ item.kind = "inline" /\ Enter(top.body, item.sub, top.atRoot) /\ walked' = walked
    BY <1>4 DEF EnterInline, AtItem, Top
  <2>2. Leads(doc, Place(top), item, <<<<top.body, item.sub, top.atRoot>>, Cost(item)>>)
    BY <1>2, <2>1 DEF Leads, Cost
  <2> QED
    BY <1>1, <2>1, <2>2 DEF Enters
<1>5. CASE EnterFragment
  <2>1. /\ item.kind = "spread" /\ item.name \notin Visiting /\ item.name \in DOMAIN doc.frags
        /\ Key(top) \notin DOMAIN memo
        /\ Enter(doc.frags[item.name], 1, top.atRoot) /\ walked' = walked + 1
    BY <1>5 DEF EnterFragment, AtItem, Top, Remembered, Key
  <2>2. Leads(doc, Place(top), item, <<<<doc.frags[item.name], 1, top.atRoot>>, Cost(item)>>)
    BY <1>2, <2>1 DEF Leads, Cost
  <2>3. Key(top) \notin Begun(stack, memo)
    <3>1. ASSUME NEW n \in Followed(stack), Key(stack[n]) = Key(top) PROVE FALSE
      <4>1. Item(stack[n]).name = item.name
        BY <3>1 DEF Key, MemoKey
      <4> QED
        BY <2>1, <4>1 DEF Followed, Visiting
    <3> QED
      BY <2>1, <3>1 DEF Begun
  <2> QED
    BY <1>1, <2>1, <2>2, <2>3 DEF Enters
<1> QED
  BY <1>3, <1>4, <1>5

\* The operation that is measured, and the greatest depth so far.
ProgressInv ==
    /\ visited \in Nat /\ visited <= Len(doc.ops) /\ deepest \in Nat
    /\ stack # <<>> =>
           visited < Len(doc.ops) /\ Place(stack[1]) = <<doc.ops[visited + 1], 1, TRUE>>
    /\ deepest # 0 => \E op \in Range(doc.ops) : Reached(doc, <<op, 1, TRUE>>, deepest)

VerdictInv ==
    /\ verdict # "received" => stack = <<>> /\ visited = Len(doc.ops)
    /\ verdict = "refused" => deepest > MaxDepth
    /\ verdict \in {"parsed", "executed"} => deepest <= MaxDepth

LinearInv == walked = Cardinality(Begun(stack, memo))

OperationCovered(d, n, depth) == \E b \in Nat : Bounded(d, <<d.ops[n], 1, TRUE>>, b) /\ b <= depth

CoverInv ==
    \A rank : Acyclic(doc, rank) =>
        /\ CallsBounded(doc, rank, stack)
        /\ MemoBounded(doc, memo)
        /\ \A n \in 1..visited : OperationCovered(doc, n, deepest)

IInv == WalkInv /\ ProgressInv /\ VerdictInv /\ LinearInv /\ CoverInv

LEMMA AdvanceStep ==
    ASSUME IInv, Advances
    PROVE  IInv'
<1> DEFINE top == Last(stack)
<1>1. PICK depth \in Nat :
        /\ stack # <<>> /\ Looping(top) /\ Reached(doc, Place(top), depth)
        /\ \A rank :
              Acyclic(doc, rank) /\ CallsBounded(doc, rank, stack) /\ MemoBounded(doc, memo) =>
                  \A way : Leads(doc, Place(top), Item(top), way) => Covers(doc, way, depth)
        /\ Pass(depth)
  BY DEF Advances
<1> DEFINE t == Append(Front(stack), After(top, depth))
<1>2. stack' = t /\ UNCHANGED <<doc, verdict, memo, visited, deepest, walked>>
  BY <1>1 DEF Pass, Top
<1>3. doc \in Documents /\ Calls(doc, stack) /\ Memoised(doc, memo)
  BY DEF IInv, WalkInv
<1>4. /\ Calls(doc, t) /\ t # <<>> /\ Len(t) = Len(stack) /\ Len(stack) \in Nat /\ Len(stack) >= 1
      /\ \A n \in 1..(Len(stack) - 1) : t[n] = stack[n]
      /\ t[Len(stack)] = After(top, depth)
  BY <1>1, <1>3, CallsAdvance
<1>5. top = stack[Len(stack)] /\ IsFrame(doc, top)
  BY <1>1, <1>3, CallsFront
<1>6. Place(After(top, depth)) = Place(top)
  BY <1>1, <1>3, <1>5, AfterFacts
<1>7. \A rank : Acyclic(doc, rank) => CallsBounded(doc, rank, t)
  BY <1>1, <1>3, BoundedAdvance DEF IInv, CoverInv
<1> HIDE DEF t, top
<1>8. WalkInv'
  BY <1>2, <1>3, <1>4 DEF WalkInv
<1>9. Place(t[1]) = Place(stack[1])
  BY <1>4, <1>5, <1>6
<1>10. ProgressInv'
  BY <1>1, <1>2, <1>4, <1>9 DEF IInv, ProgressInv
<1>11. VerdictInv'
  BY <1>1, <1>2 DEF IInv, VerdictInv
<1>12. LinearInv'
  <2>1. Begun(t, memo) = Begun(stack, memo)
    BY <1>4, BegunKept
  <2> QED
    BY <1>2, <2>1 DEF IInv, LinearInv
<1>13. CoverInv'
  BY <1>2, <1>7 DEF IInv, CoverInv
<1> QED
  BY <1>8, <1>10, <1>11, <1>12, <1>13 DEF IInv

LEMMA EnterStep ==
    ASSUME IInv, Enters
    PROVE  IInv'
<1> DEFINE top == Last(stack)
<1>1. PICK body, set, atRoot :
        /\ stack # <<>> /\ Looping(top)
        /\ Leads(doc, Place(top), Item(top), <<<<body, set, atRoot>>, Cost(Item(top))>>)
        /\ Enter(body, set, atRoot)
        /\ \/ Item(top).kind # "spread" /\ walked' = walked
           \/ /\ Item(top).kind = "spread" /\ walked' = walked + 1
              /\ Key(top) \notin Begun(stack, memo)
  BY DEF Enters
<1> DEFINE t == Append(stack, Frame(body, set, atRoot))
<1>2. stack' = t /\ UNCHANGED <<doc, verdict, memo, visited, deepest>>
  BY <1>1 DEF Enter
<1>3. doc \in Documents /\ Calls(doc, stack) /\ Memoised(doc, memo)
  BY DEF IInv, WalkInv
<1>4. /\ Calls(doc, t) /\ t # <<>> /\ Len(t) = Len(stack) + 1
      /\ \A n \in 1..Len(stack) : t[n] = stack[n]
  BY <1>1, <1>3, CallsEnter
<1>5. top = stack[Len(stack)] /\ Len(stack) \in Nat /\ Len(stack) >= 1
  BY <1>1, <1>3, CallsFront
<1>6. \A rank : Acyclic(doc, rank) => CallsBounded(doc, rank, t)
  BY <1>1, <1>3, BoundedEnter DEF IInv, CoverInv
<1> HIDE DEF t, top
<1>7. WalkInv'
  BY <1>2, <1>3, <1>4 DEF WalkInv
<1>8. t[1] = stack[1]
  BY <1>4, <1>5
<1>9. ProgressInv'
  BY <1>1, <1>2, <1>4, <1>8 DEF IInv, ProgressInv
<1>10. VerdictInv'
  BY <1>1, <1>2 DEF IInv, VerdictInv
<1>11. LinearInv'
  <2>1. Begun(t, memo) =
            IF Item(top).kind = "spread" THEN Begun(stack, memo) \cup {Key(top)} ELSE Begun(stack, memo)
    BY <1>4, <1>5, BegunEnter
  <2>2. walked = Cardinality(Begun(stack, memo)) /\ IsFiniteSet(Begun(stack, memo))
    BY <1>3, BegunFacts DEF IInv, LinearInv
  <2>3. CASE Item(top).kind # "spread" /\ walked' = walked
    BY <1>2, <2>1, <2>2, <2>3 DEF LinearInv
  <2>4. CASE /\ Item(top).kind = "spread" /\ walked' = walked + 1
             /\ Key(top) \notin Begun(stack, memo)
    <3>1. Cardinality(Begun(stack, memo) \cup {Key(top)}) = Cardinality(Begun(stack, memo)) + 1
      BY <2>2, <2>4, FS_AddElement
    <3> QED
      BY <1>2, <2>1, <2>2, <2>4, <3>1 DEF LinearInv
  <2> QED
    BY <1>1, <2>3, <2>4
<1>12. CoverInv'
  BY <1>2, <1>6 DEF IInv, CoverInv
<1> QED
  BY <1>7, <1>9, <1>10, <1>11, <1>12 DEF IInv

LEMMA ReturnStep ==
    ASSUME IInv, Return
    PROVE  IInv'
<1> DEFINE top == Last(stack)
           u == Front(stack)
           outer == Last(u)
           depth == Cost(Item(outer)) + top.depth
           t == Append(Front(u), After(outer, depth))
           key == Key(outer)
           spread == Item(outer).kind = "spread"
           new == IF spread THEN Remember(memo, key, top.depth) ELSE memo
<1>1. doc \in Documents /\ Calls(doc, stack) /\ Memoised(doc, memo)
  BY DEF IInv, WalkInv
<1>2. Len(stack) > 1 /\ ~Looping(top) /\ UNCHANGED <<doc, verdict, visited, deepest, walked>>
  BY DEF Return, Top
<1>3. /\ Calls(doc, u) /\ u # <<>> /\ Len(u) = Len(stack) - 1 /\ Len(stack) \in Nat
      /\ outer = stack[Len(stack) - 1] /\ Looping(outer) /\ Called(doc, outer, top)
      /\ IsFrame(doc, outer) /\ IsFrame(doc, top)
      /\ depth \in Nat /\ Reached(doc, Place(outer), depth)
  BY <1>1, <1>2, CallsReturn
<1>4. top.depth \in Nat /\ Reached(doc, Place(top), top.depth)
  BY <1>3 DEF IsFrame
<1>5. stack' = t /\ memo' = new
  <2>1. (IF Item(outer).kind = "field" THEN 1 + top.depth ELSE top.depth) = depth
    BY <1>4 DEF Cost
  <2>2. spread => depth = top.depth
    BY <1>4 DEF Cost
  <2>3. /\ stack' = Append(Front(u), After(outer, depth))
        /\ memo' = IF spread THEN Remember(memo, key, depth) ELSE memo
    BY <2>1 DEF Return, Top, Key
  <2> QED
    BY <2>2, <2>3
<1>6. /\ Calls(doc, t) /\ t # <<>> /\ Len(t) = Len(u) /\ Len(u) >= 1
      /\ \A n \in 1..(Len(u) - 1) : t[n] = u[n]
      /\ t[Len(u)] = After(outer, depth)
  BY <1>1, <1>3, CallsAdvance
<1>7. \A n \in 1..(Len(stack) - 1) : u[n] = stack[n]
  BY <1>1, <1>2, <1>3, CallsFront
<1>8. Place(After(outer, depth)) = Place(outer)
  BY <1>1, <1>3, AfterFacts
<1>9. spread => /\ key \in Keys(doc)
                /\ FragmentPlace(doc, key) = Place(top)
  <2>1. outer.atRoot \in BOOLEAN
    BY <1>1, <1>3, FrameFacts
  <2> QED
    BY <1>3, <2>1, SpreadCalled DEF Key, MemoKey, Keys
<1>10. Memoised(doc, new) /\ DOMAIN new = IF spread THEN DOMAIN memo \cup {key} ELSE DOMAIN memo
  <2>1. CASE spread
    <3> DEFINE r == Remember(memo, key, top.depth)
    <3>1. key \in Keys(doc) /\ FragmentPlace(doc, key) = Place(top)
      BY <1>9, <2>1
    <3>2. new = r
      BY <2>1
    <3> HIDE DEF key, new, top
    <3>3. Memoised(doc, r)
      BY <1>1, <1>4, <3>1, MemoisedRemember
    <3>4. DOMAIN r = DOMAIN memo \cup {key}
      BY DEF Remember
    <3> HIDE DEF r
    <3> QED
      BY <2>1, <3>2, <3>3, <3>4
  <2>2. CASE ~spread
    BY <1>1, <2>2
  <2> QED
    BY <2>1, <2>2
<1>11. ASSUME NEW rank, Acyclic(doc, rank)
       PROVE  CallsBounded(doc, rank, t) /\ MemoBounded(doc, new)
  <2>1. CallsBounded(doc, rank, stack) /\ MemoBounded(doc, memo)
    BY <1>11 DEF IInv, CoverInv
  <2>2. stack # <<>> /\ top = stack[Len(stack)]
    <3>1. stack # <<>>
      BY <1>2, Len(<<>>) = 0
    <3> QED
      BY <1>1, <3>1, CallsFront
  <2>3. ItemsBounded(doc, top)
    BY <1>2, <1>3, <2>1, <2>2 DEF CallsBounded
  <2>4. Bounded(doc, Place(top), top.depth)
    BY <1>1, <1>2, <1>3, <2>3, ReturnedBounded
  <2>5. CallsBounded(doc, rank, u)
    BY <1>1, <2>1, <2>2, BoundedFront
  <2>6. \A way : Leads(doc, Place(outer), Item(outer), way) => Covers(doc, way, depth)
    <3> SUFFICES ASSUME NEW way, Leads(doc, Place(outer), Item(outer), way)
                 PROVE  Covers(doc, way, depth)
      OBVIOUS
    <3>1. way = <<Place(top), Cost(Item(outer))>>
      BY <1>3, LeadsOnce DEF Called
    <3>2. way[1] = Place(top) /\ way[2] = Cost(Item(outer))
      BY <3>1
    <3> QED
      BY <1>3, <1>4, <2>4, <3>2 DEF Covers
  <2>7. CallsBounded(doc, rank, t)
    BY <1>1, <1>3, <1>11, <2>5, <2>6, BoundedAdvance
  <2>8. MemoBounded(doc, new)
    BY <1>9, <2>1, <2>4, MemoBoundedRemember
  <2> QED
    BY <2>7, <2>8
<1> HIDE DEF top, u, outer, t, key, new
<1>12. WalkInv'
  BY <1>1, <1>2, <1>5, <1>6, <1>10 DEF WalkInv
<1>13. Place(t[1]) = Place(stack[1])
  <2>1. CASE Len(stack) = 2
    <3>1. t[1] = After(outer, depth) /\ outer = stack[1]
      BY <1>3, <1>6, <2>1
    <3> QED
      BY <1>8, <3>1
  <2>2. CASE Len(stack) # 2
    <3>1. t[1] = u[1] /\ u[1] = stack[1]
      BY <1>2, <1>3, <1>6, <1>7, <2>2
    <3> QED
      BY <3>1
  <2> QED
    BY <2>1, <2>2
<1>14. stack # <<>>
  BY <1>2, Len(<<>>) = 0
<1>15. ProgressInv'
  BY <1>2, <1>5, <1>6, <1>13, <1>14 DEF IInv, ProgressInv
<1>16. VerdictInv'
  BY <1>2, <1>14 DEF IInv, VerdictInv
<1>17. LinearInv'
  <2>1. \A n \in 1..(Len(stack) - 2) : t[n] = stack[n]
    BY <1>3, <1>6, <1>7
  <2>2. Notes(memo, new, stack[Len(stack) - 1])
    BY <1>3, <1>10 DEF key, Notes
  <2>3. Len(t) = Len(stack) - 1 /\ Len(stack) \in Nat /\ Len(stack) > 1
    BY <1>2, <1>3, <1>6
  <2> HIDE DEF spread
  <2>4. Begun(t, new) = Begun(stack, memo)
    BY <2>1, <2>2, <2>3, BegunReturn
  <2> QED
    BY <1>2, <1>5, <2>4 DEF IInv, LinearInv
<1>18. CoverInv'
  BY <1>2, <1>5, <1>11 DEF IInv, CoverInv
<1> QED
  BY <1>12, <1>15, <1>16, <1>17, <1>18 DEF IInv

LEMMA VisitStep ==
    ASSUME IInv, Visit
    PROVE  IInv'
<1> DEFINE op == doc.ops[visited + 1]
           frame == Frame(op, 1, TRUE)
           t == <<frame>>
<1>1. /\ stack = <<>> /\ visited < Len(doc.ops) /\ stack' = t
      /\ UNCHANGED <<doc, verdict, memo, visited, deepest, walked>>
  BY DEF Visit
<1>2. doc \in Documents /\ Calls(doc, stack) /\ Memoised(doc, memo) /\ visited \in Nat
  BY DEF IInv, WalkInv, ProgressInv
<1>3. op \in Range(doc.ops)
  <2>1. doc.ops \in Seq(Range(doc.ops))
    BY <1>2, DocumentsTyped
  <2>2. visited + 1 \in DOMAIN doc.ops
    BY <1>1, <1>2, <2>1
  <2> QED
    BY <2>2 DEF Range
<1>4. op \in Bodies(doc) /\ <<op, 1, TRUE>> \in Places(doc)
  BY <1>2, <1>3, OperationIsPlace
<1> HIDE DEF op
<1>5. Place(frame) = <<op, 1, TRUE>> /\ frame.next = 1 /\ frame.depth = 0
  BY DEF Frame, Place
<1> HIDE DEF frame
<1>6. frame.next \in 1..(Len(Items(frame)) + 1)
  <2>1. frame.body = op /\ frame.set = 1
    BY DEF frame, Frame
  <2>2. 1 \in DOMAIN op
    BY <1>4 DEF Places
  <2>3. Len(Items(frame)) \in Nat
    BY <1>2, <1>4, <2>1, <2>2, DocumentFacts DEF Items
  <2> QED
    BY <1>5, <2>3
<1>7. IsFrame(doc, frame)
  BY <1>4, <1>5, <1>6, ReachedFacts DEF IsFrame
<1>8. t = Append(<<>>, frame) /\ Len(t) = 1 /\ t[1] = frame /\ t # <<>>
  OBVIOUS
<1>9. Calls(doc, t)
  <2> DEFINE e == <<>>
             r == Append(e, frame)
  <2>1. Calls(doc, e) /\ e = <<>>
    BY <1>1, <1>2
  <2> HIDE DEF e
  <2>2. Calls(doc, r)
    BY <1>7, <2>1, CallsAppend
  <2> QED
    BY <1>8, <2>1, <2>2
<1> HIDE DEF t
<1>10. ASSUME NEW rank PROVE CallsBounded(doc, rank, t)
  <2>1. ItemsBounded(doc, frame)
    BY <1>5 DEF ItemsBounded
  <2> QED
    BY <1>8, <2>1 DEF CallsBounded
<1>11. WalkInv'
  BY <1>1, <1>2, <1>9 DEF WalkInv
<1>12. ProgressInv'
  BY <1>1, <1>5, <1>8 DEF IInv, ProgressInv, op
<1>13. VerdictInv'
  <2>1. visited # Len(doc.ops)
    <3>1. doc.ops \in Seq(Range(doc.ops))
      BY <1>2, DocumentsTyped
    <3>2. Len(doc.ops) \in Nat
      BY <3>1
    <3> QED
      BY <1>1, <1>2, <3>2
  <2>2. verdict = "received"
    BY <2>1 DEF IInv, VerdictInv
  <2> QED
    BY <1>1, <2>2 DEF VerdictInv
<1>14. LinearInv'
  <2>1. Followed(t) = {} /\ Followed(<<>>) = {}
    BY <1>8 DEF Followed
  <2>2. Begun(t, memo) = Begun(stack, memo)
    BY <1>1, <2>1 DEF Begun
  <2> QED
    BY <1>1, <2>2 DEF IInv, LinearInv
<1>15. CoverInv'
  BY <1>1, <1>10 DEF IInv, CoverInv
<1> QED
  BY <1>11, <1>12, <1>13, <1>14, <1>15 DEF IInv

LEMMA VisitedStep ==
    ASSUME IInv, Visited
    PROVE  IInv'
<1> DEFINE top == Last(stack)
           op == doc.ops[visited + 1]
<1>1. /\ Len(stack) = 1 /\ ~Looping(top)
      /\ stack' = <<>> /\ visited' = visited + 1 /\ deepest' = Deeper(deepest, top.depth)
      /\ UNCHANGED <<doc, verdict, memo, walked>>
  BY DEF Visited, Top
<1>2. doc \in Documents /\ Calls(doc, stack) /\ Memoised(doc, memo)
  BY DEF IInv, WalkInv
<1>3. stack # <<>>
  BY <1>1, Len(<<>>) = 0
<1>4. top = stack[1] /\ IsFrame(doc, top)
  BY <1>1, <1>2, <1>3, CallsFront
<1>5. /\ visited \in Nat /\ visited < Len(doc.ops) /\ deepest \in Nat
      /\ Place(top) = <<op, 1, TRUE>>
  BY <1>3, <1>4 DEF IInv, ProgressInv
<1>6. doc.ops \in Seq(Range(doc.ops)) /\ Len(doc.ops) \in Nat
  <2>1. doc.ops \in Seq(Range(doc.ops))
    BY <1>2, DocumentsTyped
  <2> QED
    BY <2>1
<1>7. op \in Range(doc.ops)
  <2>1. visited + 1 \in DOMAIN doc.ops
    BY <1>5, <1>6
  <2> QED
    BY <2>1 DEF Range
<1>8. top.depth \in Nat /\ Reached(doc, <<op, 1, TRUE>>, top.depth)
  BY <1>4, <1>5 DEF IsFrame
<1>9. ASSUME NEW rank, Acyclic(doc, rank) PROVE Bounded(doc, Place(top), top.depth)
  <2>1. ItemsBounded(doc, top)
    BY <1>1, <1>4, <1>9 DEF IInv, CoverInv, CallsBounded
  <2> QED
    BY <1>1, <1>2, <1>4, <2>1, ReturnedBounded
<1> HIDE DEF top
<1>10. /\ deepest' \in Nat /\ deepest' >= deepest /\ deepest' >= top.depth
       /\ deepest' \in {deepest, top.depth}
  BY <1>1, <1>5, <1>8 DEF Deeper
<1>11. WalkInv'
  <2>1. Calls(doc, <<>>)
    BY DEF Calls
  <2> QED
    BY <1>1, <1>2, <2>1 DEF WalkInv
<1>12. ProgressInv'
  <2>1. visited' \in Nat /\ visited' <= Len(doc.ops)
    BY <1>1, <1>5, <1>6
  <2>2. deepest' # 0 => \E o \in Range(doc.ops) : Reached(doc, <<o, 1, TRUE>>, deepest')
    <3>1. CASE deepest' = deepest
      BY <3>1 DEF IInv, ProgressInv
    <3>2. CASE deepest' = top.depth
      BY <1>7, <1>8, <3>2
    <3> QED
      BY <1>10, <3>1, <3>2
  <2> QED
    BY <1>1, <1>10, <2>1, <2>2 DEF ProgressInv
<1>13. VerdictInv'
  BY <1>1, <1>3 DEF IInv, VerdictInv
<1>14. LinearInv'
  <2>1. Followed(stack) = {} /\ Followed(<<>>) = {}
    BY <1>1 DEF Followed
  <2>2. Begun(<<>>, memo) = Begun(stack, memo)
    BY <2>1 DEF Begun
  <2> QED
    BY <1>1, <2>2 DEF IInv, LinearInv
<1>15. CoverInv'
  <2> SUFFICES ASSUME NEW rank, Acyclic(doc, rank)
               PROVE  /\ CallsBounded(doc, rank, <<>>) /\ MemoBounded(doc, memo)
                      /\ \A n \in 1..(visited + 1) : OperationCovered(doc, n, deepest')
    BY <1>1 DEF CoverInv
  <2>1. CallsBounded(doc, rank, <<>>)
    BY DEF CallsBounded
  <2>2. MemoBounded(doc, memo)
    BY DEF IInv, CoverInv
  <2>3. ASSUME NEW n \in 1..(visited + 1) PROVE OperationCovered(doc, n, deepest')
    <3>1. CASE n = visited + 1
      <4>1. Bounded(doc, <<doc.ops[n], 1, TRUE>>, top.depth)
        BY <1>5, <1>9, <3>1
      <4> QED
        BY <1>8, <1>10, <4>1 DEF OperationCovered
    <3>2. CASE n \in 1..visited
      <4>1. OperationCovered(doc, n, deepest)
        BY <3>2 DEF IInv, CoverInv
      <4> QED
        BY <1>5, <1>10, <4>1 DEF OperationCovered
    <3> QED
      BY <1>5, <3>1, <3>2
  <2> QED
    BY <2>1, <2>2, <2>3
<1> QED
  BY <1>11, <1>12, <1>13, <1>14, <1>15 DEF IInv

LEMMA InitInv == Init => IInv
<1> SUFFICES ASSUME Init PROVE IInv
  OBVIOUS
<1>1. /\ doc \in Documents /\ stack = <<>> /\ memo = <<>> /\ visited = 0 /\ deepest = 0 /\ walked = 0
      /\ verdict = "received"
  BY DEF Init
<1>2. doc.ops \in Seq(Range(doc.ops))
  BY <1>1, DocumentsTyped
<1>3. Calls(doc, <<>>)
  BY DEF Calls
<1>4. Memoised(doc, <<>>) /\ MemoBounded(doc, <<>>) /\ DOMAIN <<>> = {}
  BY DEF Memoised, MemoBounded
<1>5. WalkInv
  BY <1>1, <1>3, <1>4 DEF WalkInv
<1>6. ProgressInv
  BY <1>1, <1>2 DEF ProgressInv
<1>7. VerdictInv
  BY <1>1 DEF VerdictInv
<1>8. LinearInv
  <2>1. Begun(<<>>, <<>>) = {}
    BY <1>4 DEF Begun, Followed
  <2> QED
    BY <1>1, <2>1, FS_EmptySet DEF LinearInv
<1>9. \A rank : CallsBounded(doc, rank, <<>>)
  BY DEF CallsBounded
<1>10. CoverInv
  BY <1>1, <1>4, <1>9 DEF CoverInv
<1> QED
  BY <1>5, <1>6, <1>7, <1>8, <1>10 DEF IInv

LEMMA StepInv == IInv /\ [Next]_vars => IInv'
<1> SUFFICES ASSUME IInv, [Next]_vars PROVE IInv'
  OBVIOUS
<1>1. CASE PassIntrospection \/ Recall \/ PassSpread
  BY <1>1, AdvancesMeans, AdvanceStep DEF IInv
<1>2. CASE EnterField \/ EnterInline \/ EnterFragment
  BY <1>2, EntersMeans, EnterStep DEF IInv
<1>3. CASE Return
  BY <1>3, ReturnStep
<1>4. CASE Visit
  BY <1>4, VisitStep
<1>5. CASE Visited
  BY <1>5, VisitedStep
<1>6. CASE ParseQuery
  <2>1. /\ stack = <<>> /\ visited = Len(doc.ops)
        /\ verdict' = IF deepest > MaxDepth THEN "refused" ELSE "parsed"
        /\ UNCHANGED <<doc, stack, memo, visited, deepest, walked>>
    BY <1>6 DEF ParseQuery
  <2>2. deepest \in Nat
    BY DEF IInv, ProgressInv
  <2>3. VerdictInv'
    BY <2>1, <2>2, MaxDepthNatural DEF VerdictInv
  <2>4. WalkInv' /\ ProgressInv' /\ LinearInv' /\ CoverInv'
    BY <2>1 DEF IInv, WalkInv, ProgressInv, LinearInv, CoverInv
  <2> QED
    BY <2>3, <2>4 DEF IInv
<1>7. CASE Validate
  <2>1. /\ verdict = "parsed"
        /\ verdict' = IF Valid(doc) THEN "executed" ELSE "invalid"
        /\ UNCHANGED <<doc, stack, memo, visited, deepest, walked>>
    BY <1>7 DEF Validate
  <2>2. VerdictInv'
    BY <2>1 DEF IInv, VerdictInv
  <2>3. WalkInv' /\ ProgressInv' /\ LinearInv' /\ CoverInv'
    BY <2>1 DEF IInv, WalkInv, ProgressInv, LinearInv, CoverInv
  <2> QED
    BY <2>2, <2>3 DEF IInv
<1>8. CASE UNCHANGED vars
  BY <1>8 DEF vars, IInv, WalkInv, ProgressInv, VerdictInv, LinearInv, CoverInv
<1> QED
  BY <1>1, <1>2, <1>3, <1>4, <1>5, <1>6, <1>7, <1>8 DEF Next

LEMMA Inductive == Spec => []IInv
  BY InitInv, StepInv, PTL DEF Spec

\* WalkIsLinear: whatever the document, also one with cycles, the depth limit
\* goes through each fragment at most twice, because it never begins one that
\* is remembered or under way with the same exemption.
THEOREM LinearCorrect == Spec => []WalkIsLinear
<1>1. IInv => WalkIsLinear
  BY BegunFacts DEF IInv, WalkInv, LinearInv, WalkIsLinear
<1> QED
  BY <1>1, Inductive, PTL

LEMMA DepthMeans ==
    ASSUME IInv, verdict \in {"refused", "executed"}, Valid(doc)
    PROVE  verdict = "refused" <=> NestsDeeper(doc)
<1>1. PICK rank : Acyclic(doc, rank)
  BY DEF Valid, Acyclic
<1>2. doc \in Documents /\ deepest \in Nat /\ MaxDepth \in Nat
  BY MaxDepthNatural DEF IInv, WalkInv, ProgressInv
<1>3. ASSUME verdict = "refused" PROVE NestsDeeper(doc)
  <2>1. deepest > MaxDepth
    BY <1>3 DEF IInv, VerdictInv
  <2>2. deepest # 0
    BY <1>2, <2>1
  <2>3. PICK op \in Range(doc.ops) : Reached(doc, <<op, 1, TRUE>>, deepest)
    BY <2>2 DEF IInv, ProgressInv
  <2>4. deepest \in Nestings(doc)[<<op, 1, TRUE>>]
    BY <1>1, <1>2, <2>3, OperationIsPlace, ReachedMeans
  <2> QED
    BY <2>1, <2>3, <2>4 DEF NestsDeeper
<1>4. ASSUME verdict = "executed", NestsDeeper(doc) PROVE FALSE
  <2>1. PICK op \in Range(doc.ops) : \E n \in Nestings(doc)[<<op, 1, TRUE>>] : n > MaxDepth
    BY <1>4 DEF NestsDeeper
  <2>2. PICK n \in Nestings(doc)[<<op, 1, TRUE>>] : n > MaxDepth
    BY <2>1
  <2>3. PICK k \in 1..visited : op = doc.ops[k]
    <3>1. doc.ops \in Seq(Range(doc.ops))
      BY <1>2, DocumentsTyped
    <3>2. DOMAIN doc.ops = 1..Len(doc.ops) /\ visited = Len(doc.ops)
      BY <1>4, <3>1 DEF IInv, VerdictInv
    <3> QED
      BY <3>2 DEF Range
  <2>4. PICK b \in Nat : Bounded(doc, <<op, 1, TRUE>>, b) /\ b <= deepest
    BY <1>1, <2>3 DEF IInv, CoverInv, OperationCovered
  <2>5. n \in Nat /\ n <= b
    BY <1>2, <2>2, <2>4, OperationIsPlace, LongestWayNatural, BoundedMeans
  <2>6. deepest <= MaxDepth
    BY <1>4 DEF IInv, VerdictInv
  <2> QED
    BY <1>2, <2>2, <2>4, <2>5, <2>6
<1> QED
  BY <1>3, <1>4

\* DepthLimitExact: for every document without cycles and every limit, the
\* depth the walk finds with its memo table is the depth of the fields; some
\* way down has it (ReachedMeans) and none exceeds it (BoundedMeans).
THEOREM DepthCorrect == Spec => []DepthLimitExact
<1>1. IInv => DepthLimitExact
  BY DepthMeans DEF DepthLimitExact
<1> QED
  BY <1>1, Inductive, PTL

=============================================================================
