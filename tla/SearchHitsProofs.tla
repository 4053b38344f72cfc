--------------------------- MODULE SearchHitsProofs ---------------------------
(***************************************************************************)
(* Proofs about HitEnrichment and SearchHits for every configuration of    *)
(* joins, every page of sources, every request and every history of the    *)
(* tables: the recursion keeps its place (StackOK), what it leaves under   *)
(* the hits was read at one moment a join (EnrichedFromOneStatement), and  *)
(* a search makes such a call with a page of documents and answers when it *)
(* is through (EnrichesAPage, TypeOK), and this page is the one that       *)
(* filter, words and row filters mean (HitsMeanTheRequest).                *)
(***************************************************************************)
EXTENDS SearchHits, FiniteSetTheorems, SequenceTheorems, WellFoundedInduction, TLAPS
-----------------------------------------------------------------------------
(* Values.                                                                 *)

LEMMA KindFacts ==
    /\ \A x : Kind([arr |-> x]) = "arr" /\ Kind([obj |-> x]) = "obj"
    /\ Kind(Missing) = "missing"
    /\ KeyValue(Missing) = <<>>
<1>1. \A x : DOMAIN [arr |-> x] = {"arr"} /\ DOMAIN [obj |-> x] = {"obj"}
  OBVIOUS
<1>2. DOMAIN Missing = {"missing"}
  BY DEF Missing
<1>3. \A k : (CHOOSE j \in {k} : TRUE) = k
  OBVIOUS
<1>4. \A x : Kind([arr |-> x]) = "arr" /\ Kind([obj |-> x]) = "obj"
  BY <1>1, <1>3, Zenon DEF Kind
<1>5. Kind(Missing) = "missing"
  BY <1>2, <1>3, Zenon DEF Kind
<1>6. KeyValue(Missing) = <<>>
  BY <1>5 DEF KeyValue
<1> QED
  BY <1>4, <1>5, <1>6

\* Inserting a field changes this field of an object, and nothing else.
LEMMA InsertFacts ==
    ASSUME NEW v, NEW name, NEW list
    PROVE  LET new == Insert(v, name, list) IN
           /\ Kind(new) = "obj" <=> Kind(v) = "obj"
           /\ \A other : other # name => Field(new, other) = Field(v, other)
           /\ Kind(v) = "obj" => Field(new, name) = [arr |-> list]
           /\ Kind(v) # "obj" => Field(new, name) = Missing
<1> DEFINE f == [k \in DOMAIN v.obj \cup {name} |-> IF k = name THEN [arr |-> list] ELSE v.obj[k]]
           new == Insert(v, name, list)
<1>1. CASE Kind(v) # "obj"
  <2>1. new = v
    BY <1>1 DEF Insert
  <2> QED
    BY <1>1, <2>1 DEF Field
<1>2. CASE Kind(v) = "obj"
  <2>1. /\ DOMAIN f = DOMAIN v.obj \cup {name}
        /\ f[name] = [arr |-> list]
        /\ \A k \in DOMAIN v.obj : k # name => f[k] = v.obj[k]
    OBVIOUS
  <2> HIDE DEF f
  <2>2. new = [obj |-> f]
    BY <1>2 DEF Insert, f
  <2> HIDE DEF new
  <2>3. Kind(new) = "obj" /\ new.obj = f
    BY <2>2, KindFacts
  <2>4. \A other : other # name => Field(new, other) = Field(v, other)
    BY <1>2, <2>1, <2>3 DEF Field
  <2>5. Field(new, name) = [arr |-> list]
    BY <2>1, <2>3 DEF Field
  <2> QED
    BY <1>2, <2>3, <2>4, <2>5 DEF new
<1> QED
  BY <1>1, <1>2

\* A nested join leaves the row a child was made from.
LEMMA InsertKeepsRow ==
    ASSUME NEW v, NEW list, NEW jf, NEW nested \in Range(jf.join_fields)
    PROVE  RowOf(Insert(v, nested.index_field, list), jf) = RowOf(v, jf)
<1> DEFINE name == nested.index_field
           f == [k \in DOMAIN v.obj \cup {name} |-> IF k = name THEN [arr |-> list] ELSE v.obj[k]]
           new == Insert(v, name, list)
           D == {n.index_field : n \in Range(jf.join_fields)}
<1>1. name \in D
  OBVIOUS
<1> HIDE DEF D
<1>2. CASE Kind(v) # "obj"
  BY <1>2 DEF Insert
<1>3. CASE Kind(v) = "obj"
  <2>1. /\ DOMAIN f = DOMAIN v.obj \cup {name}
        /\ \A k \in DOMAIN v.obj : k # name => f[k] = v.obj[k]
    OBVIOUS
  <2> HIDE DEF f
  <2>2. new = [obj |-> f]
    BY <1>3 DEF Insert, f
  <2> HIDE DEF new, name
  <2>3. new.obj = f
    BY <2>2
  <2>4. DOMAIN f \ D = DOMAIN v.obj \ D
    BY <1>1, <2>1
  <2>5. \A k \in DOMAIN v.obj \ D : f[k] = v.obj[k]
    BY <1>1, <2>1
  <2>6. Restrict(f, DOMAIN f \ D) = Restrict(v.obj, DOMAIN v.obj \ D)
    BY <2>4, <2>5 DEF Restrict
  <2>7. RowOf(new, jf) = [obj |-> Restrict(new.obj, DOMAIN new.obj \ D)]
    BY DEF RowOf, D
  <2>8. RowOf(v, jf) = [obj |-> Restrict(v.obj, DOMAIN v.obj \ D)]
    BY DEF RowOf, D
  <2> QED
    BY <2>3, <2>6, <2>7, <2>8 DEF new, name
<1> QED
  BY <1>2, <1>3

\* A row is the row it was made from.
LEMMA RowIsItself ==
    ASSUME NEW jf \in Joins, NEW v \in DOMAIN Tables, NEW row \in Tables[v][jf.table]
    PROVE  RowOf(row, jf) = row
<1> DEFINE D == {nested.index_field : nested \in Range(jf.join_fields)}
<1>1. D \cap DOMAIN row.obj = {}
  BY IndexFieldsApart
<1>2. DOMAIN row.obj \ D = DOMAIN row.obj
  BY <1>1
<1>3. RowOf(row, jf) = [obj |-> Restrict(row.obj, DOMAIN row.obj \ D)]
  BY DEF RowOf
<1> HIDE DEF D
<1>4. RowOf(row, jf) = [obj |-> [column \in DOMAIN row.obj |-> row.obj[column]]]
  BY <1>2, <1>3 DEF Restrict
<1>5. IsObject(row)
  BY TablesTyped
<1> QED
  BY <1>4, <1>5 DEF IsObject

-----------------------------------------------------------------------------
(* Groups.                                                                 *)

LEMMA LeastNatural ==
    ASSUME NEW T, T \subseteq Nat, T # {}
    PROVE  \E m \in T : \A k \in T : m <= k
<1>1. PICK m \in T : \A k \in T : ~(<<k, m>> \in OpToRel(<, Nat))
  BY NatLessThanWellFounded, WFMin
<1>2. ASSUME NEW k \in T PROVE m <= k
  <2>0. k \in Nat /\ m \in Nat
    OBVIOUS
  <2> SUFFICES ASSUME k < m PROVE FALSE
    BY <2>0
  <2>1. <<k, m>> \in Nat \X Nat /\ <<k, m>>[1] < <<k, m>>[2]
    BY <2>0
  <2>2. <<k, m>> \in OpToRel(<, Nat)
    BY <2>1, Zenon DEF OpToRel
  <2> QED
    BY <1>1, <2>2, Zenon
<1> QED
  BY <1>2

LEMMA AppendFacts ==
    ASSUME NEW U, NEW s \in Seq(U), NEW e \in U
    PROVE  /\ Append(s, e) \in Seq(U)
           /\ Len(s) \in Nat /\ Len(Append(s, e)) = Len(s) + 1
           /\ \A i \in 1..Len(s) : Append(s, e)[i] = s[i]
           /\ Append(s, e)[Len(s) + 1] = e
           /\ Range(Append(s, e)) = Range(s) \cup {e}
<1> DEFINE t == Append(s, e)
<1>1. /\ Len(s) \in Nat /\ Len(t) = Len(s) + 1 /\ t \in Seq(U)
      /\ \A i \in 1..Len(s) : t[i] = s[i]
      /\ t[Len(s) + 1] = e
  OBVIOUS
<1>2. DOMAIN t = 1..(Len(s) + 1) /\ DOMAIN s = 1..Len(s)
  BY <1>1
<1> HIDE DEF t
<1>3. Range(t) = Range(s) \cup {e}
  BY <1>1, <1>2 DEF Range
<1> QED
  BY <1>1, <1>3 DEF t

\* A group holds the children with its key.
LEMMA GroupFacts ==
    ASSUME NEW children, children \in Seq(Range(children)), NEW column, NEW key
    PROVE  /\ Group(children, column, key) \in Seq(Range(children))
           /\ Range(Group(children, column, key)) = {c \in Range(children) : KeyOf(c, column) = key}
<1> DEFINE U == Range(children)
           Step(g, n) == IF n = 0 THEN <<>>
                         ELSE IF KeyOf(children[n], column) = key THEN Append(g[n - 1], children[n])
                         ELSE g[n - 1]
           Upto(m, g) == g = [n \in 0..m |-> Step(g, n)]
           Picked(m) == {children[n] : n \in {k \in 1..m : KeyOf(children[k], column) = key}}
           Is(s, m) == s \in Seq(U) /\ Range(s) = Picked(m)
           Good(m) == /\ \E g : Upto(m, g)
                      /\ \A g : Upto(m, g) => Is(g[m], m)
           Bad == {m \in Nat : m <= Len(children) /\ ~Good(m)}
<1>0. Len(children) \in Nat /\ DOMAIN children = 1..Len(children)
  OBVIOUS
<1>u. \A n \in 1..Len(children) : children[n] \in U
  BY <1>0 DEF Range
<1>1. Good(0)
  <2> DEFINE f == [n \in 0..0 |-> <<>>]
  <2>1. Upto(0, f)
    OBVIOUS
  <2>2. ASSUME NEW g, Upto(0, g) PROVE g[0] = <<>>
    <3>1. 0 \in 0..0
      OBVIOUS
    <3> QED
      BY <2>2, <3>1
  <2>3. Is(<<>>, 0)
    <3>1. Picked(0) = {}
      OBVIOUS
    <3>2. Range(<<>>) = {} /\ <<>> \in Seq(U)
      BY DEF Range
    <3> QED
      BY <3>1, <3>2
  <2> HIDE DEF f, Upto, Is
  <2> QED
    BY <2>1, <2>2, <2>3
<1>2. ASSUME NEW m \in Nat, m + 1 <= Len(children), Good(m)
      PROVE  Good(m + 1)
  <2>1. \E h : Upto(m + 1, h)
    <3>1. PICK g : Upto(m, g)
      BY <1>2
    <3> DEFINE h == [n \in 0..(m + 1) |-> Step(g, n)]
    <3>2. \A n \in 0..m : h[n] = g[n]
      <4> HIDE DEF Step
      <4> QED
        BY <3>1
    <3>3. \A n \in 0..(m + 1) : n # 0 => n - 1 \in 0..m
      OBVIOUS
    <3>4. h = [n \in 0..(m + 1) |-> Step(g, n)]
      OBVIOUS
    <3> HIDE DEF h
    <3>5. \A n \in 0..(m + 1) : Step(g, n) = Step(h, n)
      BY <3>2, <3>3
    <3>6. h = [n \in 0..(m + 1) |-> Step(h, n)]
      BY <3>4, <3>5
    <3> QED
      BY <3>6
  <2>2. ASSUME NEW h, Upto(m + 1, h)
        PROVE  Is(h[m + 1], m + 1)
    <3> DEFINE g == [n \in 0..m |-> h[n]]
    <3>1. \A n \in 0..m : h[n] = Step(h, n)
      <4> HIDE DEF Step
      <4> QED
        BY <2>2
    <3>2. \A n \in 0..m : n # 0 => n - 1 \in 0..m
      OBVIOUS
    <3>3. \A n \in 0..m : g[n] = h[n]
      OBVIOUS
    <3>4. g = [n \in 0..m |-> h[n]]
      OBVIOUS
    <3>5. h[m + 1] = IF KeyOf(children[m + 1], column) = key THEN Append(h[m], children[m + 1]) ELSE h[m]
      <4>1. m + 1 \in 0..(m + 1) /\ m + 1 # 0 /\ (m + 1) - 1 = m
        OBVIOUS
      <4> QED
        BY <2>2, <4>1
    <3> HIDE DEF g
    <3>6. \A n \in 0..m : h[n] = Step(g, n)
      BY <3>1, <3>2, <3>3
    <3>7. g = [n \in 0..m |-> Step(g, n)]
      BY <3>4, <3>6
    <3>8. Is(h[m], m)
      <4>1. Is(g[m], m)
        BY <1>2, <3>7
      <4> QED
        BY <3>3, <4>1
    <3>9. m + 1 \in 1..Len(children) /\ 1..(m + 1) = (1..m) \cup {m + 1}
      BY <1>0, <1>2
    <3> HIDE DEF Upto, U
    <3>10. CASE KeyOf(children[m + 1], column) = key
      <4>1. Picked(m + 1) = Picked(m) \cup {children[m + 1]}
        BY <3>9, <3>10
      <4>2. children[m + 1] \in U
        BY <1>u, <3>9
      <4>3. h[m + 1] = Append(h[m], children[m + 1])
        BY <3>5, <3>10
      <4> HIDE DEF Picked
      <4>4. h[m] \in Seq(U) /\ Range(h[m]) = Picked(m)
        BY <3>8
      <4>5. /\ Append(h[m], children[m + 1]) \in Seq(U)
            /\ Range(Append(h[m], children[m + 1])) = Range(h[m]) \cup {children[m + 1]}
        BY <4>2, <4>4, AppendFacts
      <4> QED
        BY <4>1, <4>3, <4>4, <4>5, Zenon
    <3>11. CASE KeyOf(children[m + 1], column) # key
      <4>1. Picked(m + 1) = Picked(m)
        BY <3>9, <3>11
      <4> HIDE DEF Picked
      <4> QED
        BY <3>5, <3>8, <3>11, <4>1
    <3> QED
      BY <3>10, <3>11
  <2> HIDE DEF Upto, Is
  <2> QED
    BY <2>1, <2>2
<1> HIDE DEF Good
<1>3. Bad = {}
  <2> SUFFICES ASSUME Bad # {} PROVE FALSE
    OBVIOUS
  <2>1. Bad \subseteq Nat
    OBVIOUS
  <2>2. PICK m \in Bad : \A k \in Bad : m <= k
    BY <2>1, LeastNatural
  <2>3. m \in Nat /\ m <= Len(children) /\ ~Good(m) /\ m # 0
    BY <1>1, <2>2
  <2>4. PICK k \in Nat : m = k + 1
    BY <2>3
  <2>5. k \notin Bad
    BY <2>2, <2>4
  <2>6. Good(k)
    BY <1>0, <2>3, <2>4, <2>5
  <2> QED
    BY <1>2, <2>3, <2>4, <2>6
<1>4. Good(Len(children))
  BY <1>0, <1>3
<1>5. Group(children, column, key) = (CHOOSE g : Upto(Len(children), g))[Len(children)]
  BY DEF Group
<1>6. Is(Group(children, column, key), Len(children))
  <2> HIDE DEF Upto, Is
  <2> QED
    BY <1>4, <1>5 DEF Good
<1>7. Picked(Len(children)) = {c \in U : KeyOf(c, column) = key}
  BY <1>0 DEF Range
<1> QED
  BY <1>6, <1>7

-----------------------------------------------------------------------------
(* All levels at once.  Sources and joins are enriched at every level if   *)
(* they are in a set of such pairs of which each one is right and has its  *)
(* children in the set too.                                                *)

IsRight(sources, jf, versions, without) ==
    ShowsOneVersion(sources, jf, versions, without) /\ UnderTheirKey(sources, jf)

IsClosed(G, versions, without) ==
    \A at \in G : \A jf \in Range(at[2]) :
        /\ IsRight(at[1], jf, versions, without)
        /\ <<Children(at[1], jf), jf.join_fields>> \in G

Shown(sources, joins, versions, without) ==
    \E G : IsClosed(G, versions, without) /\ <<sources, joins>> \in G

\* A join that is done with, at every level.
Done(sources, jf, versions, without) ==
    /\ IsRight(sources, jf, versions, without)
    /\ Shown(Children(sources, jf), jf.join_fields, versions, without)

LEMMA ShownIfDone ==
    ASSUME NEW sources, NEW joins, NEW versions, NEW without,
           \A jf \in Range(joins) : Done(sources, jf, versions, without)
    PROVE  Shown(sources, joins, versions, without)
<1> DEFINE Under(jf, G) == /\ IsClosed(G, versions, without)
                           /\ <<Children(sources, jf), jf.join_fields>> \in G
           Of(jf) == CHOOSE G : Under(jf, G)
           G == {<<sources, joins>>} \cup UNION {Of(jf) : jf \in Range(joins)}
<1>1. ASSUME NEW jf \in Range(joins) PROVE Under(jf, Of(jf))
  <2>1. \E H : Under(jf, H)
    BY DEF Done, Shown
  <2> HIDE DEF Under
  <2> QED
    BY <2>1
<1>2. ASSUME NEW at \in G, NEW jf \in Range(at[2])
      PROVE  /\ IsRight(at[1], jf, versions, without)
             /\ <<Children(at[1], jf), jf.join_fields>> \in G
  <2>1. CASE at = <<sources, joins>>
    <3>1. at[1] = sources /\ at[2] = joins
      BY <2>1
    <3>2. <<Children(sources, jf), jf.join_fields>> \in Of(jf)
      BY <1>1, <3>1
    <3>3. <<Children(sources, jf), jf.join_fields>> \in G
      <4> HIDE DEF Of
      <4> QED
        BY <3>1, <3>2
    <3> QED
      BY <3>1, <3>3, Zenon DEF Done
  <2>2. ASSUME NEW k \in Range(joins), at \in Of(k)
        PROVE  /\ IsRight(at[1], jf, versions, without)
               /\ <<Children(at[1], jf), jf.join_fields>> \in G
    <3>1. IsClosed(Of(k), versions, without)
      BY <1>1
    <3> HIDE DEF Of
    <3>2. /\ IsRight(at[1], jf, versions, without)
          /\ <<Children(at[1], jf), jf.join_fields>> \in Of(k)
      BY <2>2, <3>1, Zenon DEF IsClosed
    <3> QED
      BY <3>2
  <2> HIDE DEF Of
  <2> QED
    BY <2>1, <2>2
<1>3. <<sources, joins>> \in G
  OBVIOUS
<1> HIDE DEF G
<1>4. IsClosed(G, versions, without)
  BY <1>2, Zenon DEF IsClosed
<1> QED
  BY <1>3, <1>4, Zenon DEF Shown

LEMMA JoinListFacts ==
    ASSUME NEW joins \in JoinLists
    PROVE  /\ joins \in Seq(Joins) /\ Len(joins) \in Nat /\ DOMAIN joins = 1..Len(joins)
           /\ \A jf \in Range(joins) : jf \in Joins /\ jf.join_fields \in JoinLists
<1>1. joins \in Seq(Joins)
  BY JoinsTyped
<1>2. Len(joins) \in Nat /\ DOMAIN joins = 1..Len(joins) /\ \A i \in 1..Len(joins) : joins[i] \in Joins
  BY <1>1
<1>3. \A jf \in Range(joins) : jf \in Joins
  BY <1>2 DEF Range
<1> QED
  BY <1>1, <1>2, <1>3 DEF JoinLists

\* Where there are no sources there is nothing to show.
LEMMA NothingToShow ==
    ASSUME NEW joins \in JoinLists, NEW versions, versions # {}, NEW without
    PROVE  Shown({}, joins, versions, without)
<1> DEFINE G == {<<{}, j>> : j \in JoinLists}
<1>1. ASSUME NEW jf PROVE Children({}, jf) = {} /\ IsRight({}, jf, versions, without)
  <2>1. Children({}, jf) = {} /\ Keys({}, jf) = {}
    BY DEF Children, Keys
  <2>2. \A v : RowsWithKey(v, jf, {}) = {}
    BY DEF RowsWithKey
  <2>3. {RowOf(c, jf) : c \in {}} = {}
    OBVIOUS
  <2>4. ShowsOneVersion({}, jf, versions, without)
    BY <2>1, <2>2, <2>3 DEF ShowsOneVersion
  <2> QED
    BY <2>1, <2>4 DEF IsRight, UnderTheirKey
<1>2. ASSUME NEW at \in G, NEW jf \in Range(at[2])
      PROVE  /\ IsRight(at[1], jf, versions, without)
             /\ <<Children(at[1], jf), jf.join_fields>> \in G
  <2>1. at[1] = {} /\ at[2] \in JoinLists
    OBVIOUS
  <2>2. jf.join_fields \in JoinLists
    BY <2>1, JoinListFacts
  <2> QED
    BY <1>1, <2>1, <2>2
<1>3. <<{}, joins>> \in G
  OBVIOUS
<1> HIDE DEF G
<1> QED
  BY <1>2, <1>3, Zenon DEF IsClosed, Shown

\* More versions, more failures: what was right still is.
LEMMA RightStays ==
    ASSUME NEW versions, NEW without, NEW v2, NEW w2, versions \subseteq v2, without \subseteq w2
    PROVE  /\ \A s, jf : IsRight(s, jf, versions, without) => IsRight(s, jf, v2, w2)
           /\ \A s, joins : Shown(s, joins, versions, without) => Shown(s, joins, v2, w2)
           /\ \A s, jf : Done(s, jf, versions, without) => Done(s, jf, v2, w2)
<1>1. \A s, jf : IsRight(s, jf, versions, without) => IsRight(s, jf, v2, w2)
  BY DEF IsRight, ShowsOneVersion
<1>2. \A G : IsClosed(G, versions, without) => IsClosed(G, v2, w2)
  BY <1>1 DEF IsClosed
<1>3. \A s, joins : Shown(s, joins, versions, without) => Shown(s, joins, v2, w2)
  BY <1>2, Zenon DEF Shown
<1>4. \A s, jf : Done(s, jf, versions, without) => Done(s, jf, v2, w2)
  BY <1>1, <1>3, Zenon DEF Done
<1> QED
  BY <1>1, <1>3, <1>4, Zenon

\* What is shown at every level is shown at those that Levels goes down to.
LEMMA EnrichedIfShown ==
    ASSUME NEW sources, NEW joins, NEW versions, NEW without,
           Shown(sources, joins, versions, without)
    PROVE  Enriched(sources, joins, versions, without)
<1> DEFINE N == Cardinality(Joins)
           Step(g, n) == IF n = 0 THEN {<<sources, joins>>}
                         ELSE UNION {{<<Children(at[1], jf), jf.join_fields>> : jf \in Range(at[2])} :
                                        at \in g[n - 1]}
           Upto(m, g) == g = [n \in 0..m |-> Step(g, n)]
<1>0. N \in Nat
  BY JoinsTyped, FS_CardinalityType
<1>1. PICK G : IsClosed(G, versions, without) /\ <<sources, joins>> \in G
  BY DEF Shown
<1> HIDE DEF N
<1> DEFINE Good(m) == /\ \E g : Upto(m, g)
                      /\ \A g : Upto(m, g) => \A n \in 0..m : g[n] \subseteq G
           Bad == {m \in Nat : ~Good(m)}
<1>2. Good(0)
  <2> DEFINE f == [n \in 0..0 |-> {<<sources, joins>>}]
  <2>1. Upto(0, f)
    OBVIOUS
  <2>2. ASSUME NEW g, Upto(0, g) PROVE \A n \in 0..0 : g[n] = {<<sources, joins>>}
    <3>1. 0 \in 0..0 /\ \A n \in 0..0 : n = 0
      OBVIOUS
    <3> QED
      BY <2>2, <3>1
  <2> HIDE DEF f, Upto
  <2> QED
    BY <1>1, <2>1, <2>2
<1>3. ASSUME NEW m \in Nat, Good(m) PROVE Good(m + 1)
  <2>1. \E h : Upto(m + 1, h)
    <3>1. PICK g : Upto(m, g)
      BY <1>3
    <3> DEFINE h == [n \in 0..(m + 1) |-> Step(g, n)]
    <3>2. \A n \in 0..m : h[n] = g[n]
      <4> HIDE DEF Step
      <4> QED
        BY <3>1
    <3>3. \A n \in 0..(m + 1) : n # 0 => n - 1 \in 0..m
      OBVIOUS
    <3>4. h = [n \in 0..(m + 1) |-> Step(g, n)]
      OBVIOUS
    <3> HIDE DEF h
    <3>5. \A n \in 0..(m + 1) : Step(g, n) = Step(h, n)
      BY <3>2, <3>3
    <3>6. h = [n \in 0..(m + 1) |-> Step(h, n)]
      <4> HIDE DEF Step
      <4> QED
        BY <3>4, <3>5
    <3> QED
      BY <3>6
  <2>2. ASSUME NEW h, Upto(m + 1, h)
        PROVE  \A n \in 0..(m + 1) : h[n] \subseteq G
    <3> DEFINE g == [n \in 0..m |-> h[n]]
    <3>1. \A n \in 0..(m + 1) : h[n] = Step(h, n)
      <4> HIDE DEF Step
      <4> QED
        BY <2>2
    <3>2. \A n \in 0..m : n # 0 => n - 1 \in 0..m
      OBVIOUS
    <3>3. \A n \in 0..m : g[n] = h[n]
      OBVIOUS
    <3>4. g = [n \in 0..m |-> h[n]]
      OBVIOUS
    <3>5. /\ m + 1 \in 0..(m + 1) /\ m + 1 # 0 /\ (m + 1) - 1 = m /\ m \in 0..m
          /\ \A n \in 0..(m + 1) : n \in 0..m \/ n = m + 1
          /\ \A n \in 0..m : n \in 0..(m + 1)
      OBVIOUS
    <3> HIDE DEF g
    <3>6. \A n \in 0..m : h[n] = Step(g, n)
      BY <3>1, <3>2, <3>3, <3>5
    <3>7. g = [n \in 0..m |-> Step(g, n)]
      <4> HIDE DEF Step
      <4> QED
        BY <3>4, <3>6
    <3>8. \A n \in 0..m : h[n] \subseteq G
      <4>1. \A n \in 0..m : g[n] \subseteq G
        BY <1>3, <3>7
      <4> QED
        BY <3>3, <4>1
    <3>9. h[m + 1] = UNION {{<<Children(at[1], jf), jf.join_fields>> : jf \in Range(at[2])} :
                               at \in h[m]}
      BY <3>1, <3>5
    <3>10. \A at \in h[m] : \A jf \in Range(at[2]) : <<Children(at[1], jf), jf.join_fields>> \in G
      BY <1>1, <3>5, <3>8, Zenon DEF IsClosed
    <3>11. h[m + 1] \subseteq G
      BY <3>9, <3>10
    <3> QED
      BY <3>5, <3>8, <3>11
  <2> HIDE DEF Upto
  <2> QED
    BY <2>1, <2>2
<1> HIDE DEF Good
<1>4. Bad = {}
  <2> SUFFICES ASSUME Bad # {} PROVE FALSE
    OBVIOUS
  <2>1. Bad \subseteq Nat
    OBVIOUS
  <2>2. PICK m \in Bad : \A k \in Bad : m <= k
    BY <2>1, LeastNatural
  <2>3. m \in Nat /\ ~Good(m) /\ m # 0
    BY <1>2, <2>2
  <2>4. PICK k \in Nat : m = k + 1
    BY <2>3
  <2>5. k \notin Bad
    BY <2>2, <2>4
  <2> QED
    BY <1>3, <2>3, <2>4, <2>5
<1>5. Good(N)
  BY <1>0, <1>4
<1> DEFINE level == CHOOSE g : Upto(N, g)
<1>6. Upto(N, level) /\ \A n \in 0..N : level[n] \subseteq G
  <2> HIDE DEF Upto
  <2> QED
    BY <1>5 DEF Good
<1>7. Levels(sources, joins) = UNION Range(level)
  BY Zenon DEF Levels, N, Depth
<1>8. DOMAIN level = 0..N
  <2> HIDE DEF level, Step
  <2> QED
    BY <1>6
<1>9. Levels(sources, joins) \subseteq G
  <2> HIDE DEF level
  <2> QED
    BY <1>6, <1>7, <1>8 DEF Range
<1> QED
  BY <1>1, <1>9, Zenon DEF IsClosed, IsRight, Enriched

-----------------------------------------------------------------------------
(* One turn of the loop.                                                   *)

\* One join of a list got its children, all of them and no others; the other
\* joins, the keys and the rows of the sources are left alone.
OnlyFills(old, new, joins, p, children) ==
    LET jf == joins[p] IN
    /\ new \in Seq(Range(new)) /\ Len(new) = Len(old)
    /\ \A i \in DOMAIN joins : Keys(Range(new), joins[i]) = Keys(Range(old), joins[i])
    /\ \A i \in DOMAIN joins : i # p =>
          Children(Range(new), joins[i]) = Children(Range(old), joins[i])
    /\ \A i \in DOMAIN joins : i # p /\ UnderTheirKey(Range(old), joins[i]) =>
          UnderTheirKey(Range(new), joins[i])
    /\ Children(Range(new), jf) = Range(children)
    /\ UnderTheirKey(Range(new), jf)
    /\ \A column : column # jf.index_field =>
          {KeyOf(s, column) : s \in Range(new)} = {KeyOf(s, column) : s \in Range(old)}
    /\ \A outer : jf \in Range(outer.join_fields) =>
          {RowOf(s, outer) : s \in Range(new)} = {RowOf(s, outer) : s \in Range(old)}

LEMMA AttachFacts ==
    ASSUME NEW sources, sources \in Seq(Range(sources)),
           NEW joins \in JoinLists, NEW p \in DOMAIN joins,
           NEW children, children \in Seq(Range(children)),
           \A c \in Range(children) :
               KeyOf(c, joins[p].foreign_field) \in Keys(Range(sources), joins[p])
    PROVE  OnlyFills(sources, Attach(sources, joins[p], children), joins, p, children)
<1> DEFINE jf == joins[p]
           new == Attach(sources, jf, children)
           n == Len(sources)
           key(i) == KeyOf(sources[i], jf.local_field)
           taken(i) == \E k \in 1..(i - 1) : key(k) = key(i)
           list(i) == IF key(i) = <<>> \/ taken(i) THEN <<>>
                      ELSE Group(children, jf.foreign_field, key(i))
<1>1. n \in Nat /\ DOMAIN sources = 1..n
  OBVIOUS
<1>2. new = [i \in 1..n |-> Insert(sources[i], jf.index_field, list(i))]
  BY <1>1, Zenon DEF Attach
<1> HIDE DEF list, taken, key
<1>3. DOMAIN new = 1..n /\ \A i \in 1..n : new[i] = Insert(sources[i], jf.index_field, list(i))
  BY <1>2
<1>4. /\ Range(new) = {new[i] : i \in 1..n}
      /\ Range(sources) = {sources[i] : i \in 1..n}
  BY <1>1, <1>3 DEF Range
<1>5. new \in Seq(Range(new)) /\ Len(new) = n
  <2>1. new \in [1..n -> Range(new)]
    BY <1>2, <1>4
  <2> HIDE DEF new
  <2> QED
    BY <1>1, <2>1
<1> HIDE DEF new, n
<1>6. \A i \in 1..n :
         /\ Kind(new[i]) = "obj" <=> Kind(sources[i]) = "obj"
         /\ \A other : other # jf.index_field => Field(new[i], other) = Field(sources[i], other)
         /\ Kind(sources[i]) = "obj" => Field(new[i], jf.index_field) = [arr |-> list(i)]
         /\ Kind(sources[i]) # "obj" => Field(new[i], jf.index_field) = Missing
  BY <1>3, InsertFacts
<1>7. ASSUME NEW column, column # jf.index_field, NEW i \in 1..n
      PROVE  KeyOf(new[i], column) = KeyOf(sources[i], column)
  BY <1>6, <1>7, Zenon DEF KeyOf
<1>8. ASSUME NEW column, column # jf.index_field
      PROVE  {KeyOf(s, column) : s \in Range(new)} = {KeyOf(s, column) : s \in Range(sources)}
  <2>1. \A i \in 1..n : KeyOf(new[i], column) = KeyOf(sources[i], column)
    BY <1>7, <1>8
  <2> QED
    BY <1>4, <2>1
<1>9. \A i \in DOMAIN joins : joins[i].local_field # jf.index_field
  BY IndexFieldsApart
<1>10. ASSUME NEW i \in DOMAIN joins
       PROVE  Keys(Range(new), joins[i]) = Keys(Range(sources), joins[i])
  BY <1>8, <1>9, Zenon DEF Keys
<1>11. ASSUME NEW i \in DOMAIN joins, i # p
       PROVE  /\ Children(Range(new), joins[i]) = Children(Range(sources), joins[i])
              /\ UnderTheirKey(Range(sources), joins[i]) => UnderTheirKey(Range(new), joins[i])
  <2> DEFINE k == joins[i]
  <2>1. k.index_field # jf.index_field /\ k.local_field # jf.index_field
    BY <1>9, <1>11, IndexFieldsApart
  <2> HIDE DEF k, jf
  <2>2. \A m \in 1..n : Field(new[m], k.index_field) = Field(sources[m], k.index_field)
    BY <1>6, <2>1
  <2>3. \A m \in 1..n : Attached(new[m], k) = Attached(sources[m], k)
    BY <2>2, Zenon DEF Attached
  <2>4. Children(Range(new), k) = Children(Range(sources), k)
    <3>1. \A S : Children(S, k) = UNION {Attached(s, k) : s \in S}
      BY DEF Children
    <3>2. {Attached(s, k) : s \in Range(new)} = {Attached(s, k) : s \in Range(sources)}
      BY <1>4, <2>3
    <3> QED
      BY <3>1, <3>2, Zenon
  <2>5. ASSUME UnderTheirKey(Range(sources), k) PROVE UnderTheirKey(Range(new), k)
    <3>1. ASSUME NEW m \in 1..n
          PROVE  /\ Kind(new[m]) = "obj" => Kind(Field(new[m], k.index_field)) = "arr"
                 /\ \A c \in Attached(new[m], k) :
                       KeyOf(c, k.foreign_field) = KeyOf(new[m], k.local_field)
      <4>1. sources[m] \in Range(sources)
        BY <1>4
      <4>2. /\ Kind(sources[m]) = "obj" => Kind(Field(sources[m], k.index_field)) = "arr"
            /\ \A c \in Attached(sources[m], k) :
                  KeyOf(c, k.foreign_field) = KeyOf(sources[m], k.local_field)
        BY <2>5, <4>1, Zenon DEF UnderTheirKey
      <4>3. KeyOf(new[m], k.local_field) = KeyOf(sources[m], k.local_field)
        BY <1>7, <2>1
      <4> QED
        BY <1>6, <2>2, <2>3, <4>2, <4>3
    <3> QED
      BY <1>4, <3>1 DEF UnderTheirKey
  <2> QED
    BY <2>4, <2>5 DEF k
<1>12. ASSUME NEW i \in 1..n
       PROVE  Range(list(i)) = IF key(i) = <<>> \/ taken(i) THEN {}
                               ELSE {c \in Range(children) : KeyOf(c, jf.foreign_field) = key(i)}
  <2>1. Range(<<>>) = {}
    BY DEF Range
  <2>2. Range(Group(children, jf.foreign_field, key(i)))
            = {c \in Range(children) : KeyOf(c, jf.foreign_field) = key(i)}
    BY GroupFacts
  <2> QED
    BY <2>1, <2>2, Zenon DEF list
<1>13. \A i \in 1..n : Attached(new[i], jf) = IF Kind(sources[i]) = "obj" THEN Range(list(i)) ELSE {}
  <2>1. \A i \in 1..n : Kind(sources[i]) = "obj" =>
            /\ Kind(Field(new[i], jf.index_field)) = "arr"
            /\ Field(new[i], jf.index_field).arr = list(i)
    <3>1. \A x : Kind([arr |-> x]) = "arr" /\ [arr |-> x].arr = x
      BY KindFacts
    <3> QED
      BY <1>6, <3>1, Zenon
  <2>2. \A i \in 1..n : Kind(sources[i]) # "obj" => Kind(Field(new[i], jf.index_field)) # "arr"
    BY <1>6, KindFacts
  <2> QED
    BY <2>1, <2>2 DEF Attached
<1>14. UnderTheirKey(Range(new), jf)
  <2>1. ASSUME NEW i \in 1..n
        PROVE  /\ Kind(new[i]) = "obj" => Kind(Field(new[i], jf.index_field)) = "arr"
               /\ \A c \in Attached(new[i], jf) :
                     KeyOf(c, jf.foreign_field) = KeyOf(new[i], jf.local_field)
    <3>1. Kind(new[i]) = "obj" => Kind(Field(new[i], jf.index_field)) = "arr"
      BY <1>6, KindFacts
    <3>2. \A c \in Attached(new[i], jf) : KeyOf(c, jf.foreign_field) = key(i)
      BY <1>12, <1>13
    <3>3. KeyOf(new[i], jf.local_field) = key(i)
      BY <1>7, <1>9 DEF key
    <3> QED
      BY <3>1, <3>2, <3>3
  <2> QED
    BY <1>4, <2>1 DEF UnderTheirKey
<1>15. Children(Range(new), jf) = Range(children)
  <2>1. \A c \in Children(Range(new), jf) : c \in Range(children)
    BY <1>4, <1>12, <1>13 DEF Children
  <2>2. ASSUME NEW c \in Range(children) PROVE c \in Children(Range(new), jf)
    <3> DEFINE k == KeyOf(c, jf.foreign_field)
               T == {i \in 1..n : key(i) = k}
    <3>1. k \in Keys(Range(sources), jf)
      OBVIOUS
    <3>2. k # <<>> /\ T # {}
      BY <1>4, <3>1 DEF Keys, key
    <3>3. T \subseteq Nat
      BY <1>1
    <3>4. PICK i \in T : \A m \in T : i <= m
      BY <3>2, <3>3, LeastNatural
    <3>5. ~taken(i)
      <4>1. ASSUME NEW m \in 1..(i - 1) PROVE key(m) # key(i)
        <5>1. m \in 1..n /\ ~(i <= m) /\ i \in 1..n
          BY <1>1
        <5> QED
          BY <3>4, <5>1
      <4> QED
        BY <4>1 DEF taken
    <3>6. Kind(sources[i]) = "obj"
      <4>1. KeyOf(sources[i], jf.local_field) # <<>>
        BY <3>2 DEF key
      <4>2. Field(sources[i], jf.local_field) # Missing
        BY <4>1, KindFacts DEF KeyOf
      <4> QED
        BY <4>2 DEF Field
    <3>7. c \in Attached(new[i], jf)
      BY <1>12, <1>13, <3>2, <3>4, <3>5, <3>6
    <3> QED
      BY <1>4, <3>4, <3>7 DEF Children
  <2> QED
    BY <2>1, <2>2
<1>16. ASSUME NEW outer, jf \in Range(outer.join_fields)
       PROVE  {RowOf(s, outer) : s \in Range(new)} = {RowOf(s, outer) : s \in Range(sources)}
  <2>1. \A i \in 1..n : RowOf(new[i], outer) = RowOf(sources[i], outer)
    <3> HIDE DEF jf
    <3>1. ASSUME NEW i \in 1..n
          PROVE  RowOf(Insert(sources[i], jf.index_field, list(i)), outer) = RowOf(sources[i], outer)
      BY <1>16, InsertKeepsRow
    <3> QED
      BY <1>3, <3>1
  <2> QED
    BY <1>4, <2>1
<1> QED
  BY <1>5, <1>8, <1>10, <1>11, <1>14, <1>15, <1>16 DEF new, n, OnlyFills

FrameTyped(frame) ==
    /\ frame.sources \in Seq(Range(frame.sources))
    /\ frame.joins \in JoinLists
    /\ frame.filled \in 0..Len(frame.joins)

FrameDone(frame, versions, without) ==
    \A i \in 1..frame.filled : Done(Range(frame.sources), frame.joins[i], versions, without)

\* The children of a call under way are the rows of one version for the keys
\* of the sources they will be attached to.
AreRows(children, jf, sources, versions, without) ==
    /\ \A c \in children : KeyOf(c, jf.foreign_field) \in Keys(sources, jf)
    /\ \/ children = {} /\ jf.index_field \in without
       \/ \E v \in versions :
             {RowOf(c, jf) : c \in children} = RowsWithKey(v, jf, Keys(sources, jf))

\* With what it fetched attached, a frame is done with one join more, and its
\* sources still are the rows they were.
LEMMA AttachFills ==
    ASSUME NEW frame, FrameTyped(frame), Filling(frame),
           NEW versions, NEW without, FrameDone(frame, versions, without),
           NEW children, children \in Seq(Range(children)),
           AreRows(Range(children), JoinOf(frame), Range(frame.sources), versions, without),
           Shown(Range(children), JoinOf(frame).join_fields, versions, without)
    PROVE  LET new == Filled(frame, Attach(frame.sources, JoinOf(frame), children)) IN
           /\ FrameTyped(new) /\ FrameDone(new, versions, without)
           /\ new.joins = frame.joins /\ Len(new.sources) = Len(frame.sources)
           /\ \A outer \in Joins : \A above :
                 /\ frame.joins = outer.join_fields
                 /\ AreRows(Range(frame.sources), outer, above, versions, without)
                => AreRows(Range(new.sources), outer, above, versions, without)
<1> DEFINE p == frame.filled + 1
           joins == frame.joins
           jf == joins[p]
           sources == frame.sources
           att == Attach(sources, jf, children)
           new == Filled(frame, att)
<1>1. jf = JoinOf(frame)
  BY DEF JoinOf
<1>2. /\ joins \in JoinLists /\ Len(joins) \in Nat /\ DOMAIN joins = 1..Len(joins)
      /\ frame.filled \in Nat /\ p \in DOMAIN joins
      /\ \A i \in 1..p : i \in DOMAIN joins /\ (i = p \/ (i \in 1..frame.filled /\ i # p))
  <2>1. joins \in JoinLists /\ frame.filled \in 0..Len(joins) /\ frame.filled < Len(joins)
    BY DEF FrameTyped, Filling
  <2>2. Len(joins) \in Nat /\ DOMAIN joins = 1..Len(joins)
    BY <2>1, JoinListFacts
  <2> HIDE DEF joins
  <2>3. frame.filled \in Nat /\ p \in 1..Len(joins) /\ p = frame.filled + 1
    BY <2>1, <2>2 DEF p
  <2> HIDE DEF p
  <2>4. \A i \in 1..p : i \in 1..Len(joins) /\ (i = p \/ (i \in 1..frame.filled /\ i # p))
    BY <2>2, <2>3
  <2> QED
    BY <2>1, <2>2, <2>3, <2>4
<1>3. /\ new.sources = att /\ new.joins = joins /\ new.filled = p
  BY DEF Filled
<1> HIDE DEF new, p, joins
<1>4. sources \in Seq(Range(sources))
  BY DEF FrameTyped
<1>5. \A c \in Range(children) : KeyOf(c, joins[p].foreign_field) \in Keys(Range(sources), joins[p])
  BY <1>1 DEF AreRows
<1>6. /\ att \in Seq(Range(att)) /\ Len(att) = Len(sources)
      /\ \A i \in DOMAIN joins : Keys(Range(att), joins[i]) = Keys(Range(sources), joins[i])
      /\ \A i \in DOMAIN joins : i # p =>
            Children(Range(att), joins[i]) = Children(Range(sources), joins[i])
      /\ \A i \in DOMAIN joins : i # p /\ UnderTheirKey(Range(sources), joins[i]) =>
            UnderTheirKey(Range(att), joins[i])
      /\ Children(Range(att), jf) = Range(children)
      /\ UnderTheirKey(Range(att), jf)
      /\ \A column : column # jf.index_field =>
            {KeyOf(s, column) : s \in Range(att)} = {KeyOf(s, column) : s \in Range(sources)}
      /\ \A outer : jf \in Range(outer.join_fields) =>
            {RowOf(s, outer) : s \in Range(att)} = {RowOf(s, outer) : s \in Range(sources)}
  <2>1. OnlyFills(sources, att, joins, p, children)
    <3> HIDE DEF sources
    <3> QED
      BY <1>2, <1>4, <1>5, AttachFacts, Zenon
  <2> HIDE DEF att, sources
  <2> QED
    BY <2>1 DEF OnlyFills
<1> HIDE DEF att, sources
<1>7. FrameTyped(new)
  BY <1>2, <1>3, <1>6 DEF FrameTyped
<1>8. ASSUME NEW i \in 1..frame.filled, i # p, i \in DOMAIN joins
      PROVE  Done(Range(att), joins[i], versions, without)
  <2> DEFINE k == joins[i]
  <2>1. Done(Range(sources), k, versions, without)
    BY <1>8 DEF FrameDone, joins, sources
  <2>2. /\ Children(Range(att), k) = Children(Range(sources), k)
        /\ Keys(Range(att), k) = Keys(Range(sources), k)
        /\ UnderTheirKey(Range(sources), k) => UnderTheirKey(Range(att), k)
    BY <1>6, <1>8
  <2> HIDE DEF k
  <2> QED
    BY <2>1, <2>2, Zenon DEF Done, IsRight, ShowsOneVersion, k
<1>9. Done(Range(att), jf, versions, without)
  <2>1. AreRows(Range(children), jf, Range(sources), versions, without)
    BY <1>1 DEF sources
  <2>2. Keys(Range(att), jf) = Keys(Range(sources), jf)
    BY <1>2, <1>6
  <2>3. Shown(Range(children), jf.join_fields, versions, without)
    BY <1>1
  <2> HIDE DEF jf
  <2>4. ShowsOneVersion(Range(att), jf, versions, without)
    BY <1>6, <2>1, <2>2, Zenon DEF AreRows, ShowsOneVersion
  <2> QED
    BY <1>6, <2>3, <2>4, Zenon DEF Done, IsRight
<1>10. FrameDone(new, versions, without)
  <2>1. \A i \in 1..p : Done(Range(att), joins[i], versions, without)
    BY <1>2, <1>8, <1>9
  <2> QED
    BY <1>3, <2>1 DEF FrameDone
<1>11. ASSUME NEW outer \in Joins, NEW above, joins = outer.join_fields,
              AreRows(Range(sources), outer, above, versions, without)
       PROVE  AreRows(Range(att), outer, above, versions, without)
  <2>1. jf \in Range(outer.join_fields)
    BY <1>2, <1>11 DEF Range
  <2>2. jf.index_field # outer.foreign_field
    BY <2>1, IndexFieldsApart
  <2> HIDE DEF jf
  <2>3. /\ {KeyOf(s, outer.foreign_field) : s \in Range(att)}
               = {KeyOf(s, outer.foreign_field) : s \in Range(sources)}
        /\ {RowOf(s, outer) : s \in Range(att)} = {RowOf(s, outer) : s \in Range(sources)}
    BY <1>6, <2>1, <2>2
  <2>4. ASSUME NEW c \in Range(att) PROVE KeyOf(c, outer.foreign_field) \in Keys(above, outer)
    <3>1. PICK s \in Range(sources) : KeyOf(c, outer.foreign_field) = KeyOf(s, outer.foreign_field)
      <4>1. KeyOf(c, outer.foreign_field) \in {KeyOf(s, outer.foreign_field) : s \in Range(att)}
        OBVIOUS
      <4>2. KeyOf(c, outer.foreign_field) \in {KeyOf(s, outer.foreign_field) : s \in Range(sources)}
        BY <2>3, <4>1, Zenon
      <4> QED
        BY <4>2
    <3> QED
      BY <1>11, <3>1, Zenon DEF AreRows
  <2>5. Range(sources) = {} => Range(att) = {}
    BY <2>3
  <2> QED
    BY <1>11, <2>3, <2>4, <2>5 DEF AreRows
<1> QED
  <2>1. new = Filled(frame, Attach(frame.sources, JoinOf(frame), children))
    BY <1>1 DEF new, att, sources
  <2> QED
    BY <1>3, <1>6, <1>7, <1>10, <1>11, <2>1 DEF joins, sources

\* The rows of a statement in the order they arrive: all of them, no others.
LEMMA RowsInOrder ==
    ASSUME NEW R, IsFiniteSet(R), NEW rows \in SetToSeqs(R)
    PROVE  rows \in Seq(Range(rows)) /\ Range(rows) = R
<1> DEFINE n == Cardinality(R)
<1>1. n \in Nat /\ IsFiniteSet(1..n) /\ Cardinality(1..n) = n
  BY FS_CardinalityType, FS_Interval
<1>2. rows \in [1..n -> R] /\ \A i, j \in 1..n : i # j => rows[i] # rows[j]
  BY DEF SetToSeqs
<1> HIDE DEF n
<1>3. Range(rows) \subseteq R /\ rows \in [1..n -> Range(rows)]
      /\ (\A t \in Range(rows) : \E i \in 1..n : rows[i] = t)
  BY <1>2 DEF Range
<1>4. IsInjective(rows)
  BY <1>2 DEF IsInjective
<1>5. rows \in Surjection(1..n, Range(rows)) /\ rows \in Injection(1..n, Range(rows))
  BY <1>3, <1>4, Zenon DEF Surjection, Injection
<1>6. IsFiniteSet(Range(rows)) /\ Cardinality(Range(rows)) = n
  BY <1>1, <1>5, FS_Surjection
<1>7. Range(rows) = R
  BY <1>3, <1>6, FS_Subset DEF n
<1> QED
  BY <1>1, <1>3, <1>7

-----------------------------------------------------------------------------
(* The calls under way.                                                    *)

\* A call is for a join its caller is at, with rows that have its keys.
Called(outer, inner, versions, without) ==
    /\ Filling(outer) /\ inner.joins = JoinOf(outer).join_fields
    /\ AreRows(Range(inner.sources), JoinOf(outer), Range(outer.sources), versions, without)

StackDone(st, versions, without) ==
    /\ st \in Seq(Range(st))
    /\ \A n \in 1..Len(st) : FrameTyped(st[n]) /\ FrameDone(st[n], versions, without)
    /\ \A n \in 2..Len(st) : Called(st[n - 1], st[n], versions, without)

\* The outermost call still is for the same hits and joins.
SameCall(st, new) ==
    new # <<>> /\ Len(new[1].sources) = Len(st[1].sources) /\ new[1].joins = st[1].joins

LEMMA PopFacts ==
    ASSUME NEW st, st \in Seq(Range(st)), st # <<>>
    PROVE  /\ Len(st) \in Nat /\ Len(st) >= 1 /\ Last(st) = st[Len(st)]
           /\ Front(st) \in Seq(Range(Front(st))) /\ Len(Front(st)) = Len(st) - 1
           /\ \A n \in 1..(Len(st) - 1) : Front(st)[n] = st[n]
<1> DEFINE U == Range(st)
           u == SubSeq(st, 1, Len(st) - 1)
<1>1. Len(st) \in Nat /\ Len(st) >= 1
  BY EmptySeq
<1> HIDE DEF U
<1>2. /\ u \in Seq(U) /\ Len(u) = Len(st) - 1
      /\ \A n \in 1..(Len(st) - 1) : u[n] = st[n]
  <2> DEFINE k == Len(st) - 1
  <2>1. st \in Seq(U) /\ 1 \in 1..(Len(st) + 1) /\ k \in (1 - 1)..Len(st)
    BY <1>1 DEF U
  <2>2. k - 1 + 1 = k /\ \A n \in 1..k : 1 + n - 1 = n
    BY <1>1
  <2> HIDE DEF k
  <2>3. /\ SubSeq(st, 1, k) \in Seq(U) /\ Len(SubSeq(st, 1, k)) = k - 1 + 1
        /\ \A n \in 1..(k - 1 + 1) : SubSeq(st, 1, k)[n] = st[1 + n - 1]
    BY <2>1, SubSeqProperties
  <2> QED
    BY <2>2, <2>3 DEF k
<1> HIDE DEF u
<1>3. u \in Seq(Range(u))
  <2>1. u \in [1..Len(u) -> Range(u)] /\ Len(u) \in Nat
    BY <1>1, <1>2 DEF Range
  <2> QED
    BY <2>1
<1> QED
  BY <1>1, <1>2, <1>3 DEF Front, Last, u

LEMMA PushFacts ==
    ASSUME NEW st, st \in Seq(Range(st)), NEW e
    PROVE  LET t == Append(st, e) IN
           /\ Len(st) \in Nat /\ t \in Seq(Range(t)) /\ Len(t) = Len(st) + 1
           /\ \A n \in 1..Len(st) : t[n] = st[n]
           /\ t[Len(st) + 1] = e /\ t # <<>>
<1> DEFINE U == Range(st) \cup {e}
           t == Append(st, e)
<1>1. st \in Seq(U) /\ e \in U
  BY DEF Range
<1> HIDE DEF U
<1>2. /\ Len(st) \in Nat /\ t \in Seq(U) /\ Len(t) = Len(st) + 1
      /\ \A n \in 1..Len(st) : t[n] = st[n]
      /\ t[Len(st) + 1] = e
  BY <1>1, AppendFacts
<1> HIDE DEF t
<1>3. t \in Seq(Range(t))
  <2>1. t \in [1..Len(t) -> Range(t)] /\ Len(t) \in Nat
    BY <1>2 DEF Range
  <2> QED
    BY <2>1
<1>4. t # <<>>
  BY <1>2
<1> QED
  BY <1>2, <1>3, <1>4 DEF t

LEMMA StackStays ==
    ASSUME NEW st, NEW versions, NEW without, StackDone(st, versions, without),
           NEW v2, NEW w2, versions \subseteq v2, without \subseteq w2
    PROVE  StackDone(st, v2, w2)
<1>1. \A s, jf : Done(s, jf, versions, without) => Done(s, jf, v2, w2)
  BY RightStays
<1>2. \A frame : FrameDone(frame, versions, without) => FrameDone(frame, v2, w2)
  BY <1>1, Zenon DEF FrameDone
<1>3. \A children, jf, sources :
         AreRows(children, jf, sources, versions, without) => AreRows(children, jf, sources, v2, w2)
  BY DEF AreRows
<1>4. \A outer, inner : Called(outer, inner, versions, without) => Called(outer, inner, v2, w2)
  BY <1>3, Zenon DEF Called
<1> QED
  BY <1>2, <1>4 DEF StackDone

LEMMA StackPop ==
    ASSUME NEW st, NEW versions, NEW without, StackDone(st, versions, without), st # <<>>
    PROVE  StackDone(Front(st), versions, without)
<1>1. st \in Seq(Range(st))
  BY DEF StackDone
<1> DEFINE u == Front(st)
<1>2. /\ Len(st) \in Nat /\ Len(st) >= 1 /\ u \in Seq(Range(u)) /\ Len(u) = Len(st) - 1
      /\ \A n \in 1..(Len(st) - 1) : u[n] = st[n]
  BY <1>1, PopFacts
<1> HIDE DEF u
<1>3. \A n \in 1..Len(u) : n \in 1..Len(st) /\ u[n] = st[n]
  BY <1>2
<1>4. \A n \in 2..Len(u) : n \in 2..Len(st) /\ u[n] = st[n] /\ u[n - 1] = st[n - 1]
  BY <1>2
<1>5. \A n \in 1..Len(u) : FrameTyped(u[n]) /\ FrameDone(u[n], versions, without)
  BY <1>3 DEF StackDone
<1>6. \A n \in 2..Len(u) : Called(u[n - 1], u[n], versions, without)
  BY <1>4 DEF StackDone
<1> QED
  BY <1>2, <1>5, <1>6 DEF StackDone, u

LEMMA StackPush ==
    ASSUME NEW st, NEW versions, NEW without, StackDone(st, versions, without),
           NEW e, FrameTyped(e), FrameDone(e, versions, without),
           st # <<>> => Called(Last(st), e, versions, without)
    PROVE  StackDone(Append(st, e), versions, without)
<1>1. st \in Seq(Range(st))
  BY DEF StackDone
<1> DEFINE t == Append(st, e)
<1>2. /\ Len(st) \in Nat /\ t \in Seq(Range(t)) /\ Len(t) = Len(st) + 1
      /\ \A n \in 1..Len(st) : t[n] = st[n]
      /\ t[Len(st) + 1] = e
  BY <1>1, PushFacts
<1> HIDE DEF t
<1>3. \A n \in 1..Len(t) : (n \in 1..Len(st) /\ t[n] = st[n]) \/ t[n] = e
  BY <1>2
<1>4. \A n \in 1..Len(t) : FrameTyped(t[n]) /\ FrameDone(t[n], versions, without)
  BY <1>3 DEF StackDone
<1>5. ASSUME NEW n \in 2..Len(t) PROVE Called(t[n - 1], t[n], versions, without)
  <2>1. CASE n = Len(t)
    <3>1. st # <<>> /\ t[n] = e /\ t[n - 1] = st[Len(st)]
      BY <1>2, <2>1
    <3> QED
      BY <3>1 DEF Last
  <2>2. CASE n # Len(t)
    <3>1. n \in 2..Len(st) /\ t[n] = st[n] /\ t[n - 1] = st[n - 1]
      BY <1>2, <2>2
    <3> QED
      BY <3>1 DEF StackDone
  <2> QED
    BY <2>1, <2>2
<1> QED
  BY <1>2, <1>4, <1>5 DEF StackDone, t

\* The innermost call is done with the join it is at.
LEMMA FillTop ==
    ASSUME NEW st, NEW versions, NEW without, StackDone(st, versions, without),
           st # <<>>, Filling(Last(st)),
           NEW children, children \in Seq(Range(children)),
           AreRows(Range(children), JoinOf(Last(st)), Range(Last(st).sources), versions, without),
           Shown(Range(children), JoinOf(Last(st)).join_fields, versions, without)
    PROVE  LET top == Last(st)
               t == Append(Front(st), Filled(top, Attach(top.sources, JoinOf(top), children)))
           IN  StackDone(t, versions, without) /\ SameCall(st, t)
<1> DEFINE top == Last(st)
           new == Filled(top, Attach(top.sources, JoinOf(top), children))
           u == Front(st)
           t == Append(u, new)
<1>1. st \in Seq(Range(st))
  BY DEF StackDone
<1>2. /\ Len(st) \in Nat /\ Len(st) >= 1 /\ top = st[Len(st)]
      /\ u \in Seq(Range(u)) /\ Len(u) = Len(st) - 1
      /\ \A n \in 1..(Len(st) - 1) : u[n] = st[n]
  BY <1>1, PopFacts
<1>3. FrameTyped(top) /\ FrameDone(top, versions, without)
  <2>1. Len(st) \in 1..Len(st)
    BY <1>2
  <2> HIDE DEF top
  <2> QED
    BY <1>2, <2>1 DEF StackDone
<1>4. /\ FrameTyped(new) /\ FrameDone(new, versions, without)
      /\ new.joins = top.joins /\ Len(new.sources) = Len(top.sources)
      /\ \A outer \in Joins : \A above :
            /\ top.joins = outer.join_fields
            /\ AreRows(Range(top.sources), outer, above, versions, without)
           => AreRows(Range(new.sources), outer, above, versions, without)
  BY <1>3, AttachFills, Zenon
<1>5. StackDone(u, versions, without)
  BY StackPop
<1> HIDE DEF new, top, u
<1>6. ASSUME u # <<>> PROVE Called(Last(u), new, versions, without)
  <2>1. Len(u) # 0
    BY <1>2, <1>6, EmptySeq
  <2> DEFINE outer == Last(u)
  <2>2. /\ outer = u[Len(u)] /\ Len(u) \in 1..(Len(st) - 1) /\ Len(u) = Len(st) - 1
        /\ Len(st) \in 2..Len(st) /\ Len(st) - 1 \in 1..Len(st)
    BY <1>2, <2>1 DEF Last
  <2>3. outer = st[Len(st) - 1]
    BY <1>2, <2>2
  <2> HIDE DEF outer
  <2>4. Called(outer, top, versions, without) /\ FrameTyped(outer)
    BY <1>2, <2>2, <2>3 DEF StackDone
  <2>5. JoinOf(outer) \in Joins
    <3>1. /\ outer.joins \in JoinLists /\ outer.filled \in 0..Len(outer.joins)
          /\ outer.filled < Len(outer.joins)
      BY <2>4 DEF FrameTyped, Called, Filling
    <3> DEFINE joins == outer.joins
    <3>2. joins \in Seq(Joins) /\ Len(joins) \in Nat
      BY <3>1, JoinListFacts
    <3> HIDE DEF joins
    <3>3. outer.filled + 1 \in 1..Len(joins)
      BY <3>1, <3>2 DEF joins
    <3> QED
      BY <3>2, <3>3 DEF JoinOf, joins
  <2>6. /\ Filling(outer) /\ top.joins = JoinOf(outer).join_fields
        /\ AreRows(Range(top.sources), JoinOf(outer), Range(outer.sources), versions, without)
    BY <2>4 DEF Called
  <2>7. AreRows(Range(new.sources), JoinOf(outer), Range(outer.sources), versions, without)
    BY <1>4, <2>5, <2>6, Zenon
  <2> QED
    BY <1>4, <2>6, <2>7 DEF Called, outer
<1>7. StackDone(t, versions, without)
  BY <1>4, <1>5, <1>6, StackPush
<1>8. SameCall(st, t)
  <2>1. /\ Len(u) \in Nat /\ t # <<>> /\ \A n \in 1..Len(u) : t[n] = u[n]
        /\ t[Len(u) + 1] = new
    BY <1>2, PushFacts
  <2> HIDE DEF t
  <2>2. CASE Len(u) = 0
    <3>1. Len(st) = 1
      BY <1>2, <2>2
    <3>2. t[1] = new /\ st[1] = top
      BY <1>2, <2>1, <2>2, <3>1
    <3> QED
      BY <1>4, <2>1, <3>2 DEF SameCall
  <2>3. CASE Len(u) # 0
    <3>1. t[1] = st[1]
      <4>1. 1 \in 1..Len(u) /\ 1 \in 1..(Len(st) - 1)
        BY <1>2, <2>1, <2>3
      <4> QED
        BY <1>2, <2>1, <4>1
    <3> QED
      BY <2>1, <3>1 DEF SameCall
  <2> QED
    BY <2>2, <2>3
<1> QED
  BY <1>7, <1>8 DEF t, u, new, top

\* What was fetched is attached at once or becomes the sources of a call for
\* its own joins.
LEMMA FetchFills ==
    ASSUME NEW st, NEW versions, versions # {}, NEW without, StackDone(st, versions, without),
           st # <<>>, Filling(Last(st)),
           NEW children, children \in Seq(Range(children)),
           AreRows(Range(children), JoinOf(Last(st)), Range(Last(st).sources), versions, without)
    PROVE  LET top == Last(st)
               t == IF JoinOf(top).join_fields = <<>>
                    THEN Append(Front(st), Filled(top, Attach(top.sources, JoinOf(top), children)))
                    ELSE Append(st, Frame(children, JoinOf(top).join_fields))
           IN  StackDone(t, versions, without) /\ SameCall(st, t)
<1> DEFINE top == Last(st)
           nested == JoinOf(top).join_fields
<1>1. CASE nested = <<>>
  <2>1. Range(<<>>) = {}
    BY DEF Range
  <2>2. Shown(Range(children), nested, versions, without)
    BY <1>1, <2>1, ShownIfDone
  <2> QED
    BY <1>1, <2>2, FillTop
<1>2. CASE nested # <<>>
  <2> DEFINE e == Frame(children, nested)
             t == Append(st, e)
  <2>1. e.sources = children /\ e.joins = nested /\ e.filled = 0
    BY DEF Frame
  <2>2. st \in Seq(Range(st)) /\ FrameTyped(top)
    <3>1. st \in Seq(Range(st))
      BY DEF StackDone
    <3>2. Len(st) \in 1..Len(st) /\ top = st[Len(st)]
      BY <3>1, PopFacts
    <3> HIDE DEF top
    <3> QED
      BY <3>1, <3>2 DEF StackDone
  <2>3. nested \in JoinLists
    <3> DEFINE joins == top.joins
    <3>1. joins \in JoinLists /\ top.filled \in 0..Len(joins) /\ top.filled < Len(joins)
      BY <2>2 DEF FrameTyped, Filling
    <3> HIDE DEF joins
    <3>2. /\ Len(joins) \in Nat /\ DOMAIN joins = 1..Len(joins)
          /\ \A jf \in Range(joins) : jf.join_fields \in JoinLists
      BY <3>1, JoinListFacts
    <3>3. top.filled + 1 \in DOMAIN joins
      BY <3>1, <3>2
    <3>4. JoinOf(top) \in Range(joins)
      BY <3>3 DEF JoinOf, Range, joins
    <3> QED
      BY <3>2, <3>4
  <2>4. FrameTyped(e) /\ FrameDone(e, versions, without)
    <3>1. 0 \in 0..Len(nested) /\ 1..0 = {}
      <4>1. Len(nested) \in Nat
        BY <2>3, JoinListFacts
      <4> QED
        BY <4>1
    <3> HIDE DEF e, nested
    <3> QED
      BY <2>1, <2>3, <3>1 DEF FrameTyped, FrameDone
  <2> HIDE DEF e
  <2>5. Called(top, e, versions, without)
    BY <2>1 DEF Called
  <2>6. StackDone(t, versions, without)
    BY <2>4, <2>5, StackPush
  <2>7. SameCall(st, t)
    <3>1. Len(st) \in Nat /\ t # <<>> /\ (\A n \in 1..Len(st) : t[n] = st[n])
      BY <2>2, PushFacts
    <3>2. 1 \in 1..Len(st)
      BY <2>2, PopFacts
    <3> HIDE DEF t
    <3> QED
      BY <3>1, <3>2 DEF SameCall
  <2> QED
    BY <1>2, <2>6, <2>7 DEF e
<1> QED
  BY <1>1, <1>2

\* Without keys no row is right.
LEMMA NoKeysNoRows ==
    ASSUME NEW jf, NEW sources, Keys(sources, jf) = {}, NEW versions, versions # {}, NEW without
    PROVE  AreRows({}, jf, sources, versions, without)
<1>1. \A v : RowsWithKey(v, jf, {}) = {}
  BY DEF RowsWithKey
<1>2. {RowOf(c, jf) : c \in {}} = {}
  OBVIOUS
<1> QED
  BY <1>1, <1>2 DEF AreRows

\* The rows of a statement are right for the version it reads.
LEMMA StatementRows ==
    ASSUME NEW jf \in Joins, NEW sources, NEW v \in DOMAIN Tables,
           NEW versions, v \in versions, NEW without,
           NEW rows \in SetToSeqs(RowsWithKey(v, jf, Keys(sources, jf)))
    PROVE  /\ rows \in Seq(Range(rows))
           /\ AreRows(Range(rows), jf, sources, versions, without)
<1> DEFINE R == RowsWithKey(v, jf, Keys(sources, jf))
<1>1. R \subseteq Tables[v][jf.table] /\ IsFiniteSet(Tables[v][jf.table])
  BY TablesTyped DEF RowsWithKey
<1>2. IsFiniteSet(R)
  BY <1>1, FS_Subset
<1> HIDE DEF R
<1>3. rows \in Seq(Range(rows)) /\ Range(rows) = R
  BY <1>2, RowsInOrder DEF R
<1>4. \A c \in R : KeyOf(c, jf.foreign_field) \in Keys(sources, jf)
  BY DEF R, RowsWithKey
<1>5. {RowOf(c, jf) : c \in R} = R
  <2>1. \A c \in R : RowOf(c, jf) = c
    BY <1>1, RowIsItself
  <2> QED
    BY <2>1
<1> QED
  BY <1>3, <1>4, <1>5 DEF AreRows, R

-----------------------------------------------------------------------------
(* The invariant: every call under way is done with the joins it filled,   *)
(* and its sources are the rows its caller waits for.                      *)

EnrichInv ==
    /\ asked \in 1..version /\ version \in 1..Len(Tables)
    /\ StackDone(stack, asked..version, failed)
    /\ stack # <<>> => Len(stack[1].sources) = Len(call.sources) /\ stack[1].joins = call.joins

LEMMA VersionFacts ==
    ASSUME EnrichInv
    PROVE  /\ asked..version # {} /\ version \in asked..version /\ asked \in asked..version
           /\ version \in DOMAIN Tables
           /\ asked \in Nat /\ version \in Nat
<1>1. Len(Tables) \in Nat /\ DOMAIN Tables = 1..Len(Tables)
  BY TablesTyped
<1>2. asked \in 1..version /\ version \in 1..Len(Tables)
  BY DEF EnrichInv
<1>3. asked \in Nat /\ version \in Nat /\ asked <= version
  BY <1>1, <1>2
<1> QED
  BY <1>1, <1>2, <1>3

LEMMA TopFacts ==
    ASSUME EnrichInv, stack # <<>>
    PROVE  /\ stack \in Seq(Range(stack)) /\ FrameTyped(Top)
           /\ FrameDone(Top, asked..version, failed)
           /\ Filling(Top) => JoinOf(Top) \in Joins /\ JoinOf(Top).join_fields \in JoinLists
<1>1. StackDone(stack, asked..version, failed)
  BY DEF EnrichInv
<1>2. stack \in Seq(Range(stack))
  BY <1>1 DEF StackDone
<1>3. Len(stack) \in 1..Len(stack) /\ Top = stack[Len(stack)]
  BY <1>2, PopFacts DEF Top
<1>4. FrameTyped(Top) /\ FrameDone(Top, asked..version, failed)
  BY <1>1, <1>3 DEF StackDone
<1>5. ASSUME Filling(Top) PROVE JoinOf(Top) \in Joins /\ JoinOf(Top).join_fields \in JoinLists
  <2> DEFINE joins == Top.joins
  <2>1. joins \in JoinLists /\ Top.filled \in 0..Len(joins) /\ Top.filled < Len(joins)
    BY <1>4, <1>5 DEF FrameTyped, Filling
  <2> HIDE DEF joins
  <2>2. /\ Len(joins) \in Nat /\ DOMAIN joins = 1..Len(joins)
        /\ \A jf \in Range(joins) : jf \in Joins /\ jf.join_fields \in JoinLists
    BY <2>1, JoinListFacts
  <2>3. Top.filled + 1 \in DOMAIN joins
    BY <2>1, <2>2
  <2>4. JoinOf(Top) \in Range(joins)
    BY <2>3 DEF JoinOf, Range, joins
  <2> QED
    BY <2>2, <2>4
<1> QED
  BY <1>2, <1>4, <1>5

\* A step inside a call.
LEMMA StepInside ==
    ASSUME EnrichInv, stack # <<>>, UNCHANGED <<call, asked, version>>,
           StackDone(stack', asked..version, failed'), SameCall(stack, stack')
    PROVE  EnrichInv'
<1>1. StackDone(stack, asked..version, failed)'
  OBVIOUS
<1> QED
  BY <1>1 DEF EnrichInv, SameCall

LEMMA SkipJoinKeeps == EnrichInv /\ SkipJoin => EnrichInv'
<1> SUFFICES ASSUME EnrichInv, SkipJoin PROVE EnrichInv'
  OBVIOUS
<1> DEFINE versions == asked..version
<1>1. stack # <<>> /\ Filling(Top) /\ Top.sources = <<>> /\ versions # {}
  BY VersionFacts DEF SkipJoin
<1>2. Range(<<>>) = {} /\ <<>> \in Seq(Range(<<>>))
  BY DEF Range
<1>3. Attach(Top.sources, JoinOf(Top), <<>>) = Top.sources
  <2>1. DOMAIN Top.sources = {}
    BY <1>1
  <2>2. \A jf : Attach(<<>>, jf, <<>>) = <<>>
    BY DEF Attach
  <2> QED
    BY <1>1, <2>2
<1>4. AreRows({}, JoinOf(Top), Range(Top.sources), versions, failed)
  <2>1. \A jf : Keys({}, jf) = {}
    BY DEF Keys
  <2> QED
    BY <1>1, <1>2, <2>1, NoKeysNoRows
<1>5. Shown({}, JoinOf(Top).join_fields, versions, failed)
  BY <1>1, TopFacts, NothingToShow
<1>6. StackDone(stack, versions, failed)
  BY DEF EnrichInv
<1> DEFINE t == Append(Front(stack), Filled(Top, Attach(Top.sources, JoinOf(Top), <<>>)))
<1> HIDE DEF versions
<1>7. StackDone(t, versions, failed) /\ SameCall(stack, t)
  BY <1>1, <1>2, <1>4, <1>5, <1>6, FillTop DEF Top
<1>8. stack' = t /\ UNCHANGED <<call, asked, version, failed>>
  BY <1>3 DEF SkipJoin, WithTop
<1> QED
  BY <1>1, <1>7, <1>8, StepInside DEF versions

LEMMA NoKeysKeeps == EnrichInv /\ NoKeys => EnrichInv'
<1> SUFFICES ASSUME EnrichInv, NoKeys PROVE EnrichInv'
  OBVIOUS
<1> DEFINE versions == asked..version
<1>1. stack # <<>> /\ Filling(Top) /\ Keys(Range(Top.sources), JoinOf(Top)) = {} /\ versions # {}
  BY VersionFacts DEF NoKeys, Keyless
<1>2. Range(<<>>) = {} /\ <<>> \in Seq(Range(<<>>))
  BY DEF Range
<1>3. AreRows({}, JoinOf(Top), Range(Top.sources), versions, failed)
  BY <1>1, NoKeysNoRows
<1>4. Shown({}, JoinOf(Top).join_fields, versions, failed)
  BY <1>1, TopFacts, NothingToShow
<1>5. StackDone(stack, versions, failed)
  BY DEF EnrichInv
<1> DEFINE t == Append(Front(stack), Filled(Top, Attach(Top.sources, JoinOf(Top), <<>>)))
<1> HIDE DEF versions
<1>6. StackDone(t, versions, failed) /\ SameCall(stack, t)
  BY <1>1, <1>2, <1>3, <1>4, <1>5, FillTop DEF Top
<1>7. stack' = t /\ UNCHANGED <<call, asked, version, failed>>
  BY DEF NoKeys, WithTop
<1> QED
  BY <1>1, <1>6, <1>7, StepInside DEF versions

LEMMA StatementKeeps == EnrichInv /\ Statement => EnrichInv'
<1> SUFFICES ASSUME EnrichInv, Statement PROVE EnrichInv'
  OBVIOUS
<1> DEFINE versions == asked..version
           jf == JoinOf(Top)
<1>1. stack # <<>> /\ Filling(Top) /\ UNCHANGED <<call, version, asked, failed>>
  BY DEF Statement, Asking
<1>2. PICK rows \in SetToSeqs(RowsWithKey(version, jf, Keys(Range(Top.sources), jf))) : Fetched(rows)
  BY DEF Statement
<1>3. jf \in Joins
  BY <1>1, TopFacts
<1>4. versions # {} /\ version \in versions /\ version \in DOMAIN Tables
  BY VersionFacts
<1> HIDE DEF versions
<1>5. /\ rows \in Seq(Range(rows))
      /\ AreRows(Range(rows), jf, Range(Top.sources), versions, failed)
  BY <1>2, <1>3, <1>4, StatementRows
<1>6. StackDone(stack, versions, failed)
  BY DEF EnrichInv, versions
<1>7. StackDone(stack', versions, failed) /\ SameCall(stack, stack')
  BY <1>1, <1>2, <1>4, <1>5, <1>6, FetchFills DEF Fetched, WithTop, Top
<1> QED
  BY <1>1, <1>7, StepInside DEF versions

LEMMA StatementFailsKeeps == EnrichInv /\ StatementFails => EnrichInv'
<1> SUFFICES ASSUME EnrichInv, StatementFails PROVE EnrichInv'
  OBVIOUS
<1> DEFINE versions == asked..version
           without == failed \cup {JoinOf(Top).index_field}
<1>1. /\ stack # <<>> /\ Filling(Top) /\ UNCHANGED <<call, version, asked>>
      /\ Fetched(<<>>) /\ failed' = without
  BY DEF StatementFails, Asking
<1>2. Range(<<>>) = {} /\ <<>> \in Seq(Range(<<>>))
  BY DEF Range
<1>3. versions # {}
  BY VersionFacts
<1>4. AreRows({}, JoinOf(Top), Range(Top.sources), versions, without)
  BY DEF AreRows
<1>5. StackDone(stack, versions, without)
  <2>1. StackDone(stack, versions, failed) /\ failed \subseteq without
    BY DEF EnrichInv
  <2> QED
    BY <2>1, StackStays
<1> HIDE DEF versions, without
<1>6. StackDone(stack', versions, without) /\ SameCall(stack, stack')
  BY <1>1, <1>2, <1>3, <1>4, <1>5, FetchFills DEF Fetched, WithTop, Top
<1> QED
  BY <1>1, <1>6, StepInside DEF versions

LEMMA ReturnKeeps == EnrichInv /\ Return => EnrichInv'
<1> SUFFICES ASSUME EnrichInv, Return PROVE EnrichInv'
  OBVIOUS
<1> DEFINE versions == asked..version
           u == Front(stack)
           outer == Last(u)
           children == Top.sources
           t == Append(Front(u), Filled(outer, Attach(outer.sources, JoinOf(outer), children)))
<1>1. StackDone(stack, versions, failed)
  BY DEF EnrichInv
<1>2. Len(stack) > 1 /\ ~Filling(Top) /\ stack' = t /\ UNCHANGED <<call, version, asked, failed>>
  BY DEF Return
<1>3. stack \in Seq(Range(stack))
  BY <1>1 DEF StackDone
<1>4. Len(stack) \in Nat /\ stack # <<>>
  BY <1>2, <1>3
<1>5. /\ Top = stack[Len(stack)] /\ Len(u) = Len(stack) - 1 /\ u \in Seq(Range(u))
      /\ \A n \in 1..(Len(stack) - 1) : u[n] = stack[n]
  BY <1>3, <1>4, PopFacts DEF Top
<1>6. u # <<>> /\ outer = stack[Len(stack) - 1]
  <2>1. Len(u) \in 1..(Len(stack) - 1)
    BY <1>2, <1>4, <1>5
  <2> HIDE DEF u
  <2> QED
    BY <1>5, <2>1 DEF Last
<1> HIDE DEF outer, u
<1>7. Called(outer, Top, versions, failed)
  <2>1. Len(stack) \in 2..Len(stack)
    BY <1>2, <1>4
  <2> QED
    BY <1>1, <1>5, <1>6, <2>1 DEF StackDone
<1>8. FrameTyped(Top) /\ FrameDone(Top, versions, failed)
  BY <1>4, TopFacts
<1> HIDE DEF versions
<1>9. Shown(Range(children), Top.joins, versions, failed)
  <2> DEFINE joins == Top.joins
  <2>1. joins \in JoinLists /\ Top.filled \in 0..Len(joins) /\ ~(Top.filled < Len(joins))
    BY <1>2, <1>8 DEF FrameTyped, Filling
  <2>2. \A i \in 1..Top.filled : Done(Range(children), joins[i], versions, failed)
    BY <1>8 DEF FrameDone
  <2> HIDE DEF joins
  <2>3. Len(joins) \in Nat /\ DOMAIN joins = 1..Len(joins)
    BY <2>1, JoinListFacts
  <2>4. Top.filled = Len(joins)
    BY <2>1, <2>3
  <2>5. \A jf \in Range(joins) : Done(Range(children), jf, versions, failed)
    BY <2>2, <2>3, <2>4 DEF Range
  <2>6. Shown(Range(children), joins, versions, failed)
    BY <2>5, ShownIfDone
  <2> QED
    BY <2>6 DEF joins
<1>10. /\ Filling(outer) /\ Top.joins = JoinOf(outer).join_fields
       /\ AreRows(Range(children), JoinOf(outer), Range(outer.sources), versions, failed)
       /\ children \in Seq(Range(children))
  BY <1>7, <1>8 DEF Called, FrameTyped
<1>11. StackDone(u, versions, failed)
  BY <1>1, <1>4, StackPop DEF u
<1>12. StackDone(t, versions, failed) /\ SameCall(u, t)
  <2> HIDE DEF children
  <2> QED
    BY <1>6, <1>9, <1>10, <1>11, FillTop DEF outer
<1> HIDE DEF t
<1>13. SameCall(stack, t)
  <2>1. 1 \in 1..(Len(stack) - 1)
    BY <1>2, <1>4
  <2>2. u[1] = stack[1]
    BY <1>5, <2>1
  <2> QED
    BY <1>12, <2>2 DEF SameCall
<1> QED
  BY <1>2, <1>4, <1>12, <1>13, StepInside DEF versions

LEMMA NoCallUnderWay ==
    ASSUME NEW versions, NEW without
    PROVE  StackDone(<<>>, versions, without)
BY DEF StackDone, Range

LEMMA CallKeeps == \A c \in Calls : EnrichInv /\ Call(c.sources, c.joins) => EnrichInv'
<1> SUFFICES ASSUME NEW c \in Calls, EnrichInv, Call(c.sources, c.joins) PROVE EnrichInv'
  OBVIOUS
<1> DEFINE e == Frame(c.sources, c.joins)
           versions == version..version
<1>1. e.sources = c.sources /\ e.joins = c.joins /\ e.filled = 0
  BY DEF Frame
<1>2. /\ call' = [sources |-> c.sources, joins |-> c.joins]
      /\ stack' = <<e>> /\ asked' = version /\ failed' = {} /\ version' = version
  BY DEF Call
<1>3. FrameTyped(e) /\ FrameDone(e, versions, {})
  <2>1. c.joins \in JoinLists /\ c.sources \in Seq(Range(c.sources))
    BY CallsTyped DEF JoinLists
  <2>2. Len(c.joins) \in Nat
    BY <2>1, JoinListFacts
  <2>3. 0 \in 0..Len(c.joins) /\ 1..0 = {}
    BY <2>2
  <2> HIDE DEF e
  <2> QED
    BY <1>1, <2>1, <2>3 DEF FrameTyped, FrameDone
<1> HIDE DEF e
<1>4. Append(<<>>, e) = <<e>>
  OBVIOUS
<1>5. StackDone(<<e>>, versions, {})
  BY <1>3, <1>4, NoCallUnderWay, StackPush
<1>6. version \in 1..version /\ version \in 1..Len(Tables)
  BY VersionFacts DEF EnrichInv
<1>7. StackDone(stack, asked..version, failed)'
  BY <1>2, <1>5
<1>8. <<e>>[1] = e
  OBVIOUS
<1> QED
  BY <1>1, <1>2, <1>6, <1>7, <1>8 DEF EnrichInv

LEMMA ForgetKeeps == EnrichInv /\ Forget => EnrichInv'
<1> SUFFICES ASSUME EnrichInv, Forget PROVE EnrichInv'
  OBVIOUS
<1>1. stack' = <<>> /\ asked' = version /\ failed' = {} /\ version' = version
  BY DEF Forget
<1>2. version \in 1..version /\ version \in 1..Len(Tables)
  BY VersionFacts DEF EnrichInv
<1>3. StackDone(<<>>, version..version, {})
  BY NoCallUnderWay
<1>4. StackDone(stack, asked..version, failed)'
  BY <1>1, <1>3
<1> QED
  BY <1>1, <1>2, <1>4 DEF EnrichInv

LEMMA WriteKeeps == EnrichInv /\ Write => EnrichInv'
<1> SUFFICES ASSUME EnrichInv, Write PROVE EnrichInv'
  OBVIOUS
<1>1. version < Len(Tables) /\ version' = version + 1 /\ UNCHANGED <<call, stack, asked, failed>>
  BY DEF Write
<1>2. Len(Tables) \in Nat
  BY TablesTyped
<1>3. asked \in 1..version /\ version \in 1..Len(Tables) /\ version \in Nat /\ asked \in Nat
  BY VersionFacts DEF EnrichInv
<1>4. /\ asked \in 1..(version + 1) /\ version + 1 \in 1..Len(Tables)
      /\ asked..version \subseteq asked..(version + 1)
  BY <1>1, <1>2, <1>3
<1>5. StackDone(stack, asked..(version + 1), failed)
  <2>1. StackDone(stack, asked..version, failed)
    BY DEF EnrichInv
  <2> QED
    BY <1>4, <2>1, StackStays
<1>6. StackDone(stack, asked..version, failed)'
  BY <1>1, <1>5
<1> QED
  BY <1>1, <1>4, <1>6 DEF EnrichInv

\* Every step of a call, between two calls and of the other client keeps it.
LEMMA EnrichInvHolds == EnrichSpec => []EnrichInv
<1>1. EnrichInit => EnrichInv
  <2> SUFFICES ASSUME EnrichInit PROVE EnrichInv
    OBVIOUS
  <2>1. stack = <<>> /\ version = 1 /\ asked = 1 /\ failed = {}
    BY DEF EnrichInit
  <2>2. Len(Tables) \in Nat /\ Len(Tables) # 0
    BY TablesTyped, EmptySeq
  <2>3. 1 \in 1..1 /\ 1 \in 1..Len(Tables)
    BY <2>2
  <2>4. StackDone(<<>>, 1..1, {})
    BY NoCallUnderWay
  <2> QED
    BY <2>1, <2>3, <2>4 DEF EnrichInv
<1>2. EnrichInv /\ [EnrichNext]_enrichVars => EnrichInv'
  <2> SUFFICES ASSUME EnrichInv, [EnrichNext]_enrichVars PROVE EnrichInv'
    OBVIOUS
  <2>1. CASE Enrich
    BY <2>1, ReturnKeeps, SkipJoinKeeps, NoKeysKeeps, StatementFailsKeeps, StatementKeeps DEF Enrich
  <2>2. CASE Forget \/ Write
    BY <2>2, ForgetKeeps, WriteKeeps
  <2>3. CASE \E c \in Calls : Call(c.sources, c.joins)
    BY <2>3, CallKeeps
  <2>4. CASE UNCHANGED enrichVars
    <3>1. UNCHANGED <<call, stack, version, asked, failed>>
      BY <2>4 DEF enrichVars
    <3>2. StackDone(stack, asked..version, failed)'
      BY <3>1 DEF EnrichInv
    <3> QED
      BY <3>1, <3>2 DEF EnrichInv
  <2> QED
    BY <2>1, <2>2, <2>3, <2>4 DEF EnrichNext
<1> QED
  BY <1>1, <1>2, PTL DEF EnrichSpec

\* es_batch_enrich loses no hit and mixes up no nesting: as many sources as
\* were passed are there at every moment, and each call under way is for the
\* nested joins of the join its caller is at.
THEOREM StackCorrect == EnrichSpec => []StackOK
<1>1. EnrichInv => StackOK
  <2> SUFFICES ASSUME EnrichInv PROVE StackOK
    OBVIOUS
  <2>1. StackDone(stack, asked..version, failed)
    BY DEF EnrichInv
  <2>2. stack \in Seq(Range(stack))
    BY <2>1 DEF StackDone
  <2>3. DOMAIN stack = 1..Len(stack)
    BY <2>2
  <2>4. \A n \in DOMAIN stack : stack[n].filled \in 0..Len(stack[n].joins)
    BY <2>1, <2>3 DEF StackDone, FrameTyped
  <2>5. \A n \in 2..Len(stack) :
           Filling(stack[n - 1]) /\ stack[n].joins = JoinOf(stack[n - 1]).join_fields
    BY <2>1 DEF StackDone, Called
  <2> QED
    BY <2>4, <2>5 DEF EnrichInv, StackOK
<1> QED
  BY <1>1, EnrichInvHolds, PTL

\* What es_batch_enrich leaves under the hits: for every configuration of
\* joins, every page of hits and every history of the tables, each join at
\* each level shows all rows of one moment after the hits were found, each
\* under a parent with its key, or nothing where its statement failed.
THEOREM EnrichedCorrect == EnrichSpec => []EnrichedFromOneStatement
<1>1. EnrichInv => EnrichedFromOneStatement
  <2> SUFFICES ASSUME EnrichInv, Finished
               PROVE  Enriched(Range(stack[1].sources), call.joins, asked..version, failed)
    BY DEF EnrichedFromOneStatement
  <2> DEFINE versions == asked..version
             frame == stack[1]
             joins == frame.joins
  <2>1. Len(stack) = 1 /\ ~Filling(Top)
    BY DEF Finished
  <2>2. stack # <<>>
    BY <2>1
  <2>3. Top = frame
    BY <2>1 DEF Top, Last
  <2>4. FrameTyped(frame) /\ FrameDone(frame, versions, failed)
    BY <2>2, <2>3, TopFacts
  <2>5. joins = call.joins
    BY <2>2 DEF EnrichInv
  <2> HIDE DEF versions
  <2>6. joins \in JoinLists /\ frame.filled \in 0..Len(joins) /\ ~(frame.filled < Len(joins))
    BY <2>1, <2>3, <2>4 DEF FrameTyped, Filling
  <2>7. \A i \in 1..frame.filled : Done(Range(frame.sources), joins[i], versions, failed)
    BY <2>4 DEF FrameDone
  <2> HIDE DEF joins, frame
  <2>8. Len(joins) \in Nat /\ DOMAIN joins = 1..Len(joins)
    BY <2>6, JoinListFacts
  <2>9. frame.filled = Len(joins)
    BY <2>6, <2>8
  <2>10. \A jf \in Range(joins) : Done(Range(frame.sources), jf, versions, failed)
    BY <2>7, <2>8, <2>9 DEF Range
  <2>11. Shown(Range(frame.sources), joins, versions, failed)
    BY <2>10, ShownIfDone
  <2>12. Enriched(Range(frame.sources), joins, versions, failed)
    BY <2>11, EnrichedIfShown
  <2> QED
    BY <2>5, <2>12 DEF versions, frame
<1> QED
  BY <1>1, EnrichInvHolds, PTL
-----------------------------------------------------------------------------
(* The page: every document of it is in the place its score gives it.      *)

\* Those of M that are ranked before i.
Ahead(M, score, i) == {j \in M : score[j] > score[i] \/ (score[j] = score[i] /\ j < i)}

\* One after the other, each place is taken.
LEMMA EveryPlaceTaken ==
    ASSUME NEW M \in SUBSET Nat, IsFiniteSet(M), NEW score \in [M -> Nat]
    PROVE  /\ \A i \in M : /\ IsFiniteSet(Ahead(M, score, i))
                           /\ Cardinality(Ahead(M, score, i)) \in 0..(Cardinality(M) - 1)
           /\ \A k \in 1..Cardinality(M) : \E i \in M : Cardinality(Ahead(M, score, i)) = k - 1
<1> DEFINE n == Cardinality(M)
           T == 0..(n - 1)
           rank == [i \in M |-> Cardinality(Ahead(M, score, i))]
<1>1. n \in Nat
  BY FS_CardinalityType
<1>2. ASSUME NEW i \in M
      PROVE  /\ i \notin Ahead(M, score, i) /\ Ahead(M, score, i) \subseteq M
             /\ IsFiniteSet(Ahead(M, score, i)) /\ Cardinality(Ahead(M, score, i)) \in T
  <2> DEFINE A == Ahead(M, score, i)
  <2>1. A \subseteq M /\ i \notin A
    BY DEF Ahead
  <2> HIDE DEF A
  <2>2. IsFiniteSet(A) /\ Cardinality(A) \in Nat /\ Cardinality(A) <= n
    BY <2>1, FS_Subset, FS_CardinalityType
  <2>3. Cardinality(A) # n
    BY <2>1, FS_Subset
  <2> QED
    BY <1>1, <2>1, <2>2, <2>3 DEF A
<1>3. ASSUME NEW i \in M, NEW j \in M, i \in Ahead(M, score, j)
      PROVE  rank[i] # rank[j]
  <2> DEFINE A == Ahead(M, score, i)
             B == Ahead(M, score, j)
  <2>1. A \subseteq B
    <3> SUFFICES ASSUME NEW x \in M, x \in A PROVE x \in B
      BY DEF Ahead
    <3>1. score[x] \in Nat /\ score[i] \in Nat /\ score[j] \in Nat /\ {x, i, j} \subseteq Nat
      OBVIOUS
    <3>2. score[i] > score[j] \/ (score[i] = score[j] /\ i < j)
      BY <1>3 DEF Ahead
    <3>3. score[x] > score[i] \/ (score[x] = score[i] /\ x < i)
      BY DEF Ahead
    <3>4. score[x] > score[j] \/ (score[x] = score[j] /\ x < j)
      BY <3>1, <3>2, <3>3
    <3> QED
      BY <3>4 DEF Ahead
  <2>2. A # B
    BY <1>2, <1>3
  <2>3. IsFiniteSet(B)
    BY <1>2
  <2> HIDE DEF A, B
  <2>4. Cardinality(A) # Cardinality(B)
    BY <2>1, <2>2, <2>3, FS_Subset
  <2> QED
    BY <2>4 DEF A, B
<1>4. ASSUME NEW i \in M, NEW j \in M, i # j
      PROVE  i \in Ahead(M, score, j) \/ j \in Ahead(M, score, i)
  <2>1. score[i] \in Nat /\ score[j] \in Nat /\ i \in Nat /\ j \in Nat
    OBVIOUS
  <2> QED
    BY <1>4, <2>1 DEF Ahead
<1>5. rank \in [M -> T] /\ \A i, j \in M : rank[i] = rank[j] => i = j
  BY <1>2, <1>3, <1>4
<1>6. IsFiniteSet(T) /\ Cardinality(T) = n
  BY <1>1, FS_Interval
<1> HIDE DEF rank, T, n
<1>7. rank \in Injection(M, T)
  BY <1>5, Zenon DEF Injection, IsInjective
<1>8. rank \in Surjection(M, T)
  BY <1>6, <1>7, FS_Injection DEF n
<1>9. \A t \in T : \E i \in M : rank[i] = t
  BY <1>8, Zenon DEF Surjection
<1> QED
  <2>1. \A k \in 1..n : k - 1 \in T
    BY <1>1 DEF T
  <2> QED
    BY <1>2, <1>9, <2>1 DEF rank, T, n

LEMMA MinMaxFacts ==
    ASSUME NEW a \in Int, NEW b \in Int
    PROVE  /\ Min({a, b}) = IF a <= b THEN a ELSE b
           /\ Max({a, b}) = IF a <= b THEN b ELSE a
<1>1. \E x \in {a, b} : \A y \in {a, b} : x <= y
  OBVIOUS
<1>2. \E x \in {a, b} : \A y \in {a, b} : x >= y
  OBVIOUS
<1>3. Min({a, b}) \in {a, b} /\ \A y \in {a, b} : Min({a, b}) <= y
  BY <1>1 DEF Min
<1>4. Max({a, b}) \in {a, b} /\ \A y \in {a, b} : Max({a, b}) >= y
  BY <1>2 DEF Max
<1> HIDE DEF Min, Max
<1> QED
  BY <1>3, <1>4

Matched(body) == {i \in DOMAIN Docs : BoolMatches(body, Docs[i])}

ScoreOf(body) == [i \in Matched(body) |-> Score(body, Docs[i])]

PageLength(body, size, from) == Max({0, Min({size, Cardinality(Matched(body)) - from})})

LEMMA MatchedFacts ==
    ASSUME NEW body
    PROVE  /\ Matched(body) \in SUBSET Nat /\ IsFiniteSet(Matched(body))
           /\ Cardinality(Matched(body)) \in Nat
<1>1. Len(Docs) \in Nat /\ DOMAIN Docs = 1..Len(Docs)
  BY SearchTyped
<1>2. Matched(body) \subseteq 1..Len(Docs)
  BY <1>1 DEF Matched
<1>3. IsFiniteSet(1..Len(Docs))
  BY <1>1, FS_Interval
<1>4. IsFiniteSet(Matched(body))
  BY <1>2, <1>3, FS_Subset
<1> QED
  BY <1>1, <1>2, <1>4, FS_CardinalityType

\* The page is of the length asked for, as far as there are documents, and what
\* is k-th on it has all before it in its rank that were skipped or come first.
LEMMA PageFacts ==
    ASSUME NEW body, ScoreOf(body) \in [Matched(body) -> Nat],
           NEW size \in Nat, NEW from \in Nat
    PROVE  LET hits == EsSearch(Docs, body, size, from)
               L == PageLength(body, size, from) IN
           /\ L \in 0..size /\ DOMAIN hits = 1..L /\ hits \in Seq(Range(hits)) /\ Len(hits) = L
           /\ \A k \in 1..L : \E i \in Matched(body) :
                 /\ hits[k] = [source |-> Docs[i], score |-> Score(body, Docs[i])]
                 /\ Cardinality(Ahead(Matched(body), ScoreOf(body), i)) = from + k - 1
<1> DEFINE M == Matched(body)
           score == ScoreOf(body)
           n == Cardinality(M)
           L == PageLength(body, size, from)
           before(i) == {j \in M : Score(body, Docs[j]) > Score(body, Docs[i])
                                     \/ (Score(body, Docs[j]) = Score(body, Docs[i]) /\ j < i)}
           ranked == [k \in 1..n |-> CHOOSE i \in M : Cardinality(before(i)) = k - 1]
           page == SubSeq(ranked, from + 1, Min({from + size, Len(ranked)}))
           hits == [k \in DOMAIN page |-> [source |-> Docs[page[k]], score |-> Score(body, Docs[page[k]])]]
<1>1. EsSearch(Docs, body, size, from) = hits
  BY DEF EsSearch, Matched
<1>2. M \in SUBSET Nat /\ IsFiniteSet(M) /\ n \in Nat
  BY MatchedFacts
<1>3. \A i \in M : before(i) = Ahead(M, score, i)
  BY DEF Ahead, ScoreOf
<1>4. score \in [M -> Nat]
  OBVIOUS
<1> HIDE DEF before, score
<1>5. \A k \in 1..n : \E i \in M : Cardinality(before(i)) = k - 1
  <2> HIDE DEF M
  <2>1. \A k \in 1..n : \E i \in M : Cardinality(Ahead(M, score, i)) = k - 1
    BY <1>2, <1>4, EveryPlaceTaken
  <2> QED
    BY <1>3, <2>1
<1>6. /\ \A k \in 1..n : ranked[k] \in M /\ Cardinality(before(ranked[k])) = k - 1
      /\ ranked \in Seq(M) /\ Len(ranked) = n
  BY <1>2, <1>5
<1> HIDE DEF M, ranked
<1>7. /\ page \in Seq(M) /\ Len(page) = L /\ L \in 0..size
      /\ \A k \in 1..L : from + k \in 1..n /\ page[k] = ranked[from + k]
  <2> DEFINE m == from + 1
             u == Min({from + size, n})
  <2>1. u = IF from + size <= n THEN from + size ELSE n
    BY <1>2, MinMaxFacts
  <2>2. Min({size, n - from}) = IF size <= n - from THEN size ELSE n - from
    BY <1>2, MinMaxFacts
  <2> DEFINE x == Min({size, n - from})
  <2>a. x \in Int
    BY <1>2, <2>2
  <2>b. L = Max({0, x})
    BY DEF PageLength, M
  <2> HIDE DEF u, L, n, x
  <2>3. L = IF 0 <= x THEN x ELSE 0
    BY <2>a, <2>b, MinMaxFacts
  <2>c. x = IF size <= n - from THEN size ELSE n - from
    BY <2>2 DEF x
  <2>4. /\ m \in Int /\ u \in Int /\ \A i \in m..u : i \in 1..n
        /\ L = IF m <= u THEN u - m + 1 ELSE 0
        /\ L \in 0..size
        /\ \A k \in 1..L : k \in 1..(u - m + 1) /\ m + k - 1 = from + k /\ from + k \in 1..n
    BY <1>2, <2>1, <2>c, <2>3
  <2>5. page = SubSeq(ranked, m, u)
    BY <1>6 DEF u
  <2> HIDE DEF m
  <2>6. \A i \in m..u : ranked[i] \in M
    BY <1>6, <2>4
  <2>7. /\ SubSeq(ranked, m, u) \in Seq(M)
        /\ Len(SubSeq(ranked, m, u)) = IF m <= u THEN u - m + 1 ELSE 0
        /\ \A i \in 1..(u - m + 1) : SubSeq(ranked, m, u)[i] = ranked[m + i - 1]
    BY <2>4, <2>6, SubSeqProperties
  <2> HIDE DEF page
  <2> QED
    BY <2>4, <2>5, <2>7
<1> HIDE DEF page, L, n
<1>8. L \in Nat /\ DOMAIN page = 1..L
  BY <1>7
<1>9. \A k \in 1..L : /\ page[k] \in M /\ Cardinality(Ahead(M, score, page[k])) = from + k - 1
                      /\ hits[k] = [source |-> Docs[page[k]], score |-> Score(body, Docs[page[k]])]
  <2> SUFFICES ASSUME NEW k \in 1..L
               PROVE  /\ page[k] \in M /\ Cardinality(Ahead(M, score, page[k])) = from + k - 1
                      /\ hits[k] = [source |-> Docs[page[k]], score |-> Score(body, Docs[page[k]])]
    OBVIOUS
  <2>1. page[k] \in M /\ Cardinality(before(page[k])) = from + k - 1
    BY <1>6, <1>7
  <2>2. hits[k] = [source |-> Docs[page[k]], score |-> Score(body, Docs[page[k]])]
    BY <1>8
  <2> QED
    BY <1>3, <2>1, <2>2
<1>10. DOMAIN hits = 1..L
  BY <1>8
<1> HIDE DEF hits
<1>11. hits \in Seq(Range(hits)) /\ Len(hits) = L
  <2>1. hits = [k \in 1..L |-> hits[k]]
    BY <1>8 DEF hits
  <2>2. hits \in [1..L -> Range(hits)]
    BY <1>10, <2>1 DEF Range
  <2> QED
    BY <1>8, <2>2
<1> QED
  BY <1>1, <1>7, <1>9, <1>10, <1>11 DEF L, M, score
-----------------------------------------------------------------------------
(* The body: what its parts are and what a document scores.                *)

Text(r) ==
    [kind |-> "multi_match", query |-> r.query, fields |-> CollectSearchableFields(r.index),
     operator |-> IF r.queryOperator = "AND" THEN "and" ELSE "or"]

\* Words count only without a raw query.
Worded(r) == r.raw.kind = "none" /\ r.query # <<>>

Must(r) == (IF r.raw.kind # "none" THEN {r.raw} ELSE BuildEsFilter(r.filter)) \cup r.rows

LEMMA BodyFacts ==
    ASSUME NEW r
    PROVE  /\ DOMAIN BoolBody(r) = IF Worded(r) THEN {"must", "should"} ELSE {"must"}
           /\ BoolBody(r)["must"] = Must(r)
           /\ Worded(r) => BoolBody(r)["should"] = {Text(r)}
<1>1. CASE r.raw.kind # "none"
  BY <1>1 DEF BoolBody, Must, Worded
<1> DEFINE M == BuildEsFilter(r.filter) \cup r.rows
<1>2. CASE r.raw.kind = "none" /\ r.query = <<>>
  <2>1. BoolBody(r) = [must |-> M]
    BY <1>2, Zenon DEF BoolBody
  <2>2. ~Worded(r) /\ Must(r) = M
    BY <1>2 DEF Worded, Must
  <2> HIDE DEF M
  <2> QED
    BY <2>1, <2>2
<1>3. CASE r.raw.kind = "none" /\ r.query # <<>>
  <2>1. BoolBody(r) = [must |-> M, should |-> {Text(r)}]
    BY <1>3, Zenon DEF BoolBody, Text
  <2>2. Worded(r) /\ Must(r) = M
    BY <1>3 DEF Worded, Must
  <2> HIDE DEF M
  <2> QED
    BY <2>1, <2>2
<1> QED
  BY <1>1, <1>2, <1>3

LEMMA TermsFacts ==
    ASSUME NEW r \in Requests, NEW doc
    PROVE  /\ MatchedTerms(Text(r), doc) \subseteq DOMAIN r.query
           /\ DOMAIN r.query = 1..Len(r.query) /\ Len(r.query) \in Nat
           /\ IsFiniteSet(DOMAIN r.query) /\ Cardinality(DOMAIN r.query) = Len(r.query)
           /\ IsFiniteSet(MatchedTerms(Text(r), doc))
           /\ Cardinality(MatchedTerms(Text(r), doc)) \in Nat
<1>1. Text(r).query = r.query
  BY DEF Text
<1>2. MatchedTerms(Text(r), doc) \subseteq DOMAIN r.query
  BY <1>1, Zenon DEF MatchedTerms
<1>3. DOMAIN r.query = 1..Len(r.query) /\ Len(r.query) \in Nat
  BY SearchTyped
<1>4. IsFiniteSet(1..Len(r.query)) /\ Cardinality(1..Len(r.query)) = Len(r.query)
  BY <1>3, FS_Interval
<1>5. IsFiniteSet(MatchedTerms(Text(r), doc))
  BY <1>2, <1>3, <1>4, FS_Subset
<1> QED
  BY <1>2, <1>3, <1>4, <1>5, FS_CardinalityType

LEMMA ScoreFacts ==
    ASSUME NEW r \in Requests, NEW doc
    PROVE  /\ Score(BoolBody(r), doc)
                = IF Worded(r) THEN Cardinality(MatchedTerms(Text(r), doc)) ELSE 0
           /\ Score(BoolBody(r), doc) \in Nat
<1> DEFINE M == MatchedTerms(Text(r), doc)
<1>1. CASE ~Worded(r)
  <2>1. "should" \notin DOMAIN BoolBody(r)
    BY <1>1, BodyFacts
  <2> QED
    BY <1>1, <2>1 DEF Score
<1>2. CASE Worded(r)
  <2>1. "should" \in DOMAIN BoolBody(r) /\ BoolBody(r)["should"] = {Text(r)}
    BY <1>2, BodyFacts
  <2>2. Text(r).kind = "multi_match"
    BY DEF Text
  <2>3. {c \in BoolBody(r)["should"] : c.kind = "multi_match"} = {Text(r)}
    BY <2>1, <2>2
  <2>4. UNION {{c} \X MatchedTerms(c, doc) : c \in {Text(r)}} = {Text(r)} \X M
    BY Zenon
  <2>5. Score(BoolBody(r), doc) = Cardinality({Text(r)} \X M)
    BY <2>1, <2>3, <2>4, Zenon DEF Score
  <2>6. IsFiniteSet(M) /\ Cardinality(M) \in Nat
    BY TermsFacts
  <2>7. IsFiniteSet({Text(r)}) /\ Cardinality({Text(r)}) = 1
    BY FS_Singleton
  <2> HIDE DEF M
  <2>8. Cardinality({Text(r)} \X M) = 1 * Cardinality(M)
    BY <2>6, <2>7, FS_Product, Zenon
  <2>9. Score(BoolBody(r), doc) = Cardinality(M)
    BY <2>5, <2>6, <2>8
  <2> QED
    BY <1>2, <2>6, <2>9 DEF M
<1> QED
  BY <1>1, <1>2

LEMMA WindowFacts ==
    ASSUME NEW r \in Requests
    PROVE  /\ PageSize(r) \in 0..MaxLimit /\ Offset(r) \in Nat
           /\ PageSize(r) = IF Kind(r.limit) = "int" /\ r.limit.int \in 0..MaxLimit THEN r.limit.int
                            ELSE IF Kind(r.limit) = "int" /\ r.limit.int >= 0 THEN MaxLimit
                            ELSE Min({DefaultLimit, MaxLimit})
<1>1. MaxLimit \in Nat /\ DefaultLimit \in Nat
  BY SearchTyped DEF DefaultLimit
<1>2. \A v \in {r.limit, r.offset} : Kind(v) = "int" => v.int \in Int
  BY SearchTyped
<1>3. Offset(r) \in Nat
  BY <1>2 DEF Offset, Unsigned
<1> DEFINE u == Unsigned(r.limit, DefaultLimit)
<1>4. u \in Nat /\ u = IF Kind(r.limit) = "int" /\ r.limit.int >= 0 THEN r.limit.int ELSE DefaultLimit
  BY <1>1, <1>2 DEF Unsigned
<1>5. PageSize(r) = Min({u, MaxLimit})
  BY DEF PageSize
<1> HIDE DEF u
<1>6. Min({u, MaxLimit}) = IF u <= MaxLimit THEN u ELSE MaxLimit
  BY <1>1, <1>4, MinMaxFacts
<1>7. CASE Kind(r.limit) = "int" /\ r.limit.int >= 0
  BY <1>1, <1>2, <1>3, <1>4, <1>5, <1>6, <1>7
<1>8. CASE ~(Kind(r.limit) = "int" /\ r.limit.int >= 0)
  <2>1. u = DefaultLimit
    BY <1>4, <1>8
  <2>2. ~(Kind(r.limit) = "int" /\ r.limit.int \in 0..MaxLimit)
    BY <1>1, <1>8
  <2> QED
    BY <1>1, <1>3, <1>5, <1>6, <1>8, <2>1, <2>2
<1> QED
  BY <1>7, <1>8

Hits(r) == EsSearch(Docs, BoolBody(r), PageSize(r), Offset(r))

\* A page of documents, which is a call that a search may make.
LEMMA HitsFacts ==
    ASSUME NEW r \in Requests
    PROVE  LET hits == Hits(r)
               M == Matched(BoolBody(r))
               L == PageLength(BoolBody(r), PageSize(r), Offset(r)) IN
           /\ DOMAIN hits = 1..L /\ Len(hits) = L /\ L \in Nat
           /\ \A k \in 1..L : \E i \in M :
                 /\ hits[k] = [source |-> Docs[i], score |-> Score(BoolBody(r), Docs[i])]
                 /\ Cardinality(Ahead(M, ScoreOf(BoolBody(r)), i)) = Offset(r) + k - 1
           /\ [sources |-> [i \in DOMAIN hits |-> hits[i].source], joins |-> r.index.join_fields] \in Calls
<1> DEFINE hits == Hits(r)
           body == BoolBody(r)
           M == Matched(body)
           L == PageLength(body, PageSize(r), Offset(r))
           page == [i \in DOMAIN hits |-> hits[i].source]
<1>1. ScoreOf(body) \in [M -> Nat]
  BY ScoreFacts DEF ScoreOf
<1>2. PageSize(r) \in Nat /\ PageSize(r) <= MaxLimit /\ Offset(r) \in Nat /\ MaxLimit \in Nat
  BY WindowFacts, SearchTyped
<1>3. /\ L \in 0..PageSize(r) /\ DOMAIN hits = 1..L /\ Len(hits) = L
      /\ \A k \in 1..L : \E i \in M :
                 /\ hits[k] = [source |-> Docs[i], score |-> Score(body, Docs[i])]
                 /\ Cardinality(Ahead(M, ScoreOf(body), i)) = Offset(r) + k - 1
  BY <1>1, <1>2, PageFacts DEF Hits
<1>4. M \subseteq DOMAIN Docs
  BY DEF Matched
<1> HIDE DEF hits, L, M
<1>5. \A k \in 1..L : page[k] \in Range(Docs)
  <2> SUFFICES ASSUME NEW k \in 1..L PROVE page[k] \in Range(Docs)
    OBVIOUS
  <2>1. PICK i \in M : hits[k] = [source |-> Docs[i], score |-> Score(body, Docs[i])]
    BY <1>3
  <2>2. page[k] = Docs[i]
    BY <1>3, <2>1
  <2> QED
    BY <1>4, <2>1, <2>2 DEF Range
<1>6. L \in 0..MaxLimit
  BY <1>2, <1>3
<1>7. page \in [1..L -> Range(Docs)]
  BY <1>3, <1>5
<1>8. r.index \in Indices
  BY DEF Indices
<1> HIDE DEF page
<1>9. [sources |-> page, joins |-> r.index.join_fields] \in Calls
  BY <1>6, <1>7, <1>8, PagesCalled
<1> QED
  BY <1>3, <1>6, <1>9 DEF page, hits, L, M
-----------------------------------------------------------------------------
(* The life of a search.                                                   *)

\* A request under way is one that was not refused, and its hits are those its
\* body has.
AskedInv ==
    /\ phase \in {"query", "enrich", "answered"} => request \in Requests /\ ~Refused(request)
    /\ phase \in {"enrich", "answered"} /\ ~erred => found = Hits(request)

LEMMA AskedInvHolds == Spec => []AskedInv
<1>1. Init => AskedInv
  BY DEF Init, AskedInv
<1>2. AskedInv /\ [Next]_vars => AskedInv'
  <2> SUFFICES ASSUME AskedInv, [Next]_vars PROVE AskedInv'
    OBVIOUS
  <2>1. ASSUME NEW r \in Requests, Ask(r) PROVE AskedInv'
    BY <2>1 DEF Ask, AskedInv
  <2>2. CASE EsAnswers \/ EsAnswersError
    BY <2>2 DEF EsAnswers, EsAnswersError, Receive, AskedInv, Hits
  <2>3. CASE EsFails \/ Drop
    BY <2>3 DEF EsFails, Drop, AskedInv
  <2>4. CASE Answer
    BY <2>4 DEF Answer, AskedInv
  <2>5. CASE UNCHANGED searchVars
    BY <2>5 DEF searchVars, AskedInv
  <2> QED
    BY <2>1, <2>2, <2>3, <2>4, <2>5 DEF Next, Progress, EnrichHits, vars
<1> QED
  BY <1>1, <1>2, PTL DEF Spec

LEMMA PageIsCalled ==
    ASSUME AskedInv, NEW hits, NEW isError, Receive(hits, isError),
           hits = <<>> \/ hits = Hits(request)
    PROVE  /\ \E c \in Calls : Call(c.sources, c.joins)
           /\ Len([i \in DOMAIN hits |-> hits[i].source]) = Len(hits)
<1> DEFINE page == [i \in DOMAIN hits |-> hits[i].source]
           call0 == [sources |-> page, joins |-> request.index.join_fields]
<1>1. request \in Requests
  BY DEF Receive, AskedInv
<1>2. call0 \in Calls /\ Len(page) = Len(hits)
  <2>1. CASE hits = <<>>
    <3>1. DOMAIN hits = 1..0 /\ Len(hits) = 0
      BY <2>1
    <3>2. page = [i \in 1..0 |-> hits[i].source]
      BY <3>1
    <3> HIDE DEF page
    <3>3. page \in [1..0 -> Range(Docs)] /\ Len(page) = 0
      BY <3>2
    <3>4. request.index \in Indices /\ 0 \in 0..MaxLimit
      BY <1>1, SearchTyped DEF Indices
    <3> QED
      BY <3>1, <3>3, <3>4, PagesCalled
  <2>2. CASE hits = Hits(request)
    <3>1. call0 \in Calls
      BY <1>1, <2>2, HitsFacts
    <3>2. DOMAIN hits = 1..Len(hits) /\ Len(hits) \in Nat
      BY <1>1, <2>2, HitsFacts
    <3> QED
      BY <3>1, <3>2
  <2> QED
    BY <2>1, <2>2
<1>3. Call(page, request.index.join_fields)
  BY DEF Receive
<1>4. Call(call0.sources, call0.joins)
  <2> HIDE DEF page
  <2>1. call0.sources = page /\ call0.joins = request.index.join_fields
    OBVIOUS
  <2> HIDE DEF call0
  <2> QED
    BY <1>3, <2>1
<1> HIDE DEF call0
<1> QED
  BY <1>2, <1>4

\* Whatever is searched for, es_batch_enrich is called with a page of documents
\* and what a search does to its variables are the steps HitEnrichment has.
THEOREM Enriches == Spec => EnrichesAPage
<1>1. Init => EnrichInit
  BY DEF Init
<1>2. AskedInv /\ [Next]_vars => [EnrichNext]_enrichVars
  <2> SUFFICES ASSUME AskedInv, [Next]_vars PROVE [EnrichNext]_enrichVars
    OBVIOUS
  <2>1. ASSUME NEW r \in Requests, Ask(r) PROVE EnrichNext
    BY <2>1 DEF Ask, EnrichNext
  <2>2. CASE EsAnswers
    <3>1. Receive(Hits(request), FALSE)
      BY <2>2 DEF EsAnswers, Hits
    <3> QED
      BY <3>1, PageIsCalled DEF EnrichNext
  <2>3. CASE EsAnswersError
    BY <2>3, PageIsCalled DEF EsAnswersError, EnrichNext
  <2>4. CASE EsFails \/ Answer
    BY <2>4 DEF EsFails, Answer
  <2>5. CASE Drop
    BY <2>5 DEF Drop, EnrichNext
  <2>6. CASE EnrichHits \/ Write
    BY <2>6 DEF EnrichHits, EnrichNext
  <2>7. CASE UNCHANGED vars
    BY <2>7 DEF vars
  <2> QED
    BY <2>1, <2>2, <2>3, <2>4, <2>5, <2>6, <2>7 DEF Next, Progress
<1> QED
  BY <1>1, <1>2, AskedInvHolds, PTL DEF Spec, EnrichesAPage, EnrichSpec

\* While es_batch_enrich runs, its outermost call is under way.
LEMMA EnrichStays ==
    ASSUME EnrichInv, Enrich
    PROVE  stack # <<>> /\ stack' # <<>> /\ call' = call
<1>1. stack # <<>>
  BY DEF Enrich, Return, SkipJoin, NoKeys, StatementFails, Statement
<1>2. stack \in Seq(Range(stack))
  BY <1>1, TopFacts
<1>3. Front(stack) \in Seq(Range(Front(stack)))
  BY <1>1, <1>2, PopFacts
<1>4. \A frame : WithTop(frame) # <<>>
  BY <1>3, PushFacts DEF WithTop
<1>5. \A frame : Append(stack, frame) # <<>>
  BY <1>2, PushFacts
<1>6. CASE Return
  <2>1. Front(stack) # <<>>
    BY <1>1, <1>2, <1>6, PopFacts DEF Return
  <2>2. Front(Front(stack)) \in Seq(Range(Front(Front(stack))))
    BY <1>3, <2>1, PopFacts
  <2>3. \A frame : Append(Front(Front(stack)), frame) # <<>>
    BY <2>2, PushFacts
  <2> QED
    BY <1>1, <1>6, <2>3 DEF Return
<1>7. CASE SkipJoin \/ NoKeys
  BY <1>1, <1>4, <1>7 DEF SkipJoin, NoKeys
<1>8. ASSUME NEW children, Fetched(children) PROVE stack' # <<>>
  BY <1>4, <1>5, <1>8 DEF Fetched
<1>9. CASE StatementFails \/ Statement
  BY <1>1, <1>8, <1>9 DEF StatementFails, Statement
<1> QED
  BY <1>6, <1>7, <1>9 DEF Enrich

\* A search that answers has been through every join of every hit.
THEOREM SearchTypeCorrect == Spec => []TypeOK
<1>1. Init => TypeOK
  BY DEF Init, EnrichInit, TypeOK, Ended
<1>2. TypeOK /\ AskedInv /\ EnrichInv /\ [Next]_vars => TypeOK'
  <2> SUFFICES ASSUME TypeOK, AskedInv, EnrichInv, [Next]_vars PROVE TypeOK'
    OBVIOUS
  <2>1. ASSUME NEW r \in Requests, Ask(r) PROVE TypeOK'
    BY <2>1 DEF Ask, Forget, TypeOK, Ended
  <2>2. ASSUME NEW hits, NEW isError, Receive(hits, isError), hits = <<>> \/ hits = Hits(request)
        PROVE  TypeOK'
    <3> DEFINE page == [i \in DOMAIN hits |-> hits[i].source]
    <3>1. Len(page) = Len(hits)
      BY <2>2, PageIsCalled
    <3>2. /\ phase' = "enrich" /\ found' = hits /\ request' = request
          /\ call' = [sources |-> page, joins |-> request.index.join_fields]
          /\ stack' = <<Frame(page, request.index.join_fields)>>
      BY <2>2 DEF Receive, Call
    <3> HIDE DEF page
    <3>3. stack' # <<>> /\ call'.sources = page /\ call'.joins = request.index.join_fields
      BY <3>2
    <3> QED
      BY <3>1, <3>2, <3>3 DEF TypeOK, Ended
  <2>3. CASE EsAnswers \/ EsAnswersError
    BY <2>2, <2>3 DEF EsAnswers, EsAnswersError, Hits
  <2>4. CASE EsFails
    BY <2>4 DEF EsFails, TypeOK, Ended, enrichVars
  <2>5. CASE Answer
    <3>1. UNCHANGED <<call, stack, found, request>> /\ phase' = "answered" /\ Finished /\ phase = "enrich"
      BY <2>5 DEF Answer, enrichVars
    <3>2. Finished'
      BY <3>1 DEF Finished, Filling, Top
    <3> QED
      BY <3>1, <3>2 DEF TypeOK, Ended
  <2>6. CASE EnrichHits
    <3>1. phase = "enrich" /\ Enrich /\ UNCHANGED <<phase, found, request>>
      BY <2>6 DEF EnrichHits, searchVars
    <3>2. stack # <<>> /\ stack' # <<>> /\ call' = call
      BY <3>1, EnrichStays
    <3> QED
      BY <3>1, <3>2 DEF TypeOK, Ended
  <2>7. CASE Drop
    BY <2>7 DEF Drop, Forget, TypeOK, Ended
  <2>8. CASE (Write /\ UNCHANGED searchVars) \/ UNCHANGED vars
    <3>1. UNCHANGED <<call, stack, phase, found, request>>
      BY <2>8 DEF Write, vars, searchVars, enrichVars
    <3>2. Finished' <=> Finished
      BY <3>1 DEF Finished, Filling, Top
    <3> QED
      BY <3>1, <3>2 DEF TypeOK, Ended
  <2> QED
    BY <2>1, <2>3, <2>4, <2>5, <2>6, <2>7, <2>8 DEF Next, Progress
<1>3. Spec => []EnrichInv
  BY Enriches, EnrichInvHolds DEF EnrichesAPage
<1> QED
  BY <1>1, <1>2, <1>3, AskedInvHolds, PTL DEF Spec

\* What holds of es_batch_enrich holds of every search.
THEOREM SearchEnriched == Spec => [](StackOK /\ EnrichedFromOneStatement)
<1>1. Spec => EnrichSpec
  BY Enriches DEF EnrichesAPage
<1> QED
  BY <1>1, StackCorrect, EnrichedCorrect, PTL
-----------------------------------------------------------------------------
(* The page is the one the request means, if body and scores are.          *)

\* The body asks what the request means, and ranks by how relevant it is.
BodyMeans(r, doc) ==
    /\ BoolMatches(BoolBody(r), doc) <=> Wanted(r, doc)
    /\ Score(BoolBody(r), doc) = Relevance(r, doc)

LEMMA PageMeans ==
    ASSUME request \in Requests, found = Hits(request),
           \A i \in DOMAIN Docs : BodyMeans(request, Docs[i])
    PROVE  HitsMeanTheRequest
<1> DEFINE body == BoolBody(request)
           M == Matched(body)
           score == ScoreOf(body)
           skipped == Offset(request)
           L == PageLength(body, PageSize(request), skipped)
           wanted == {i \in DOMAIN Docs : Wanted(request, Docs[i])}
           ranked(k) == {i \in wanted : Relevance(request, Docs[i]) >= found[k].score}
           above(k) == {i \in wanted : Relevance(request, Docs[i]) > found[k].score}
           room == IF Kind(request.limit) = "int" /\ request.limit.int \in 0..MaxLimit
                   THEN request.limit.int
                   ELSE IF Kind(request.limit) = "int" /\ request.limit.int >= 0 THEN MaxLimit
                   ELSE Min({DefaultLimit, MaxLimit})
<1>1. wanted = M
  BY DEF Matched, BodyMeans
<1>2. M \in SUBSET Nat /\ IsFiniteSet(M) /\ M \subseteq DOMAIN Docs
  BY MatchedFacts DEF Matched
<1>3. score \in [M -> Nat] /\ \A i \in M : score[i] = Relevance(request, Docs[i])
  BY <1>2, ScoreFacts DEF ScoreOf, BodyMeans
<1>4. /\ DOMAIN found = 1..L /\ Len(found) = L /\ L \in Nat
      /\ \A k \in 1..L : \E i \in M :
            /\ found[k] = [source |-> Docs[i], score |-> Score(body, Docs[i])]
            /\ Cardinality(Ahead(M, score, i)) = skipped + k - 1
  BY HitsFacts
<1>5. skipped \in Nat /\ PageSize(request) = room
  BY WindowFacts
<1>6. Len(found) = Max({0, Min({room, Cardinality(wanted) - skipped})})
  BY <1>1, <1>4, <1>5 DEF PageLength
<1>7. \A k \in 1..L : \E i \in M :
         /\ found[k].source = Docs[i] /\ found[k].score = score[i]
         /\ Cardinality(Ahead(M, score, i)) = skipped + k - 1
  BY <1>4, ScoreFacts DEF ScoreOf
<1> HIDE DEF M, score, L, body, skipped, room
<1>8. IsInjective([k \in DOMAIN found |-> found[k].source])
  <2> SUFFICES ASSUME NEW k \in 1..L, NEW m \in 1..L, found[k].source = found[m].source PROVE k = m
    BY <1>4 DEF IsInjective
  <2>1. PICK i \in M : found[k].source = Docs[i] /\ Cardinality(Ahead(M, score, i)) = skipped + k - 1
    BY <1>7
  <2>2. PICK j \in M : found[m].source = Docs[j] /\ Cardinality(Ahead(M, score, j)) = skipped + m - 1
    BY <1>7
  <2>3. i = j
    BY <1>2, <2>1, <2>2, SearchTyped, Zenon DEF IsInjective
  <2> QED
    BY <1>4, <1>5, <2>1, <2>2, <2>3
<1>9. ASSUME NEW k \in 1..L
      PROVE  /\ \E i \in ranked(k) \ above(k) : Docs[i] = found[k].source
             /\ Cardinality(above(k)) < skipped + k
             /\ Cardinality(ranked(k)) >= skipped + k
  <2>1. PICK i \in M : /\ found[k].source = Docs[i] /\ found[k].score = score[i]
                       /\ Cardinality(Ahead(M, score, i)) = skipped + k - 1
    BY <1>7
  <2> DEFINE A == Ahead(M, score, i)
             B == A \cup {i}
  <2>2. /\ ranked(k) = {j \in M : score[j] >= score[i]}
        /\ above(k) = {j \in M : score[j] > score[i]}
    BY <1>1, <1>3, <2>1
  <2>3. \A j \in M : score[j] \in Nat
    BY <1>3
  <2> HIDE DEF ranked, above
  <2>4. above(k) \subseteq A /\ B \subseteq ranked(k) /\ A \subseteq M /\ i \notin A /\ i \notin above(k)
    <3>1. A = {j \in M : score[j] > score[i] \/ (score[j] = score[i] /\ j < i)}
      BY DEF Ahead
    <3>2. score[i] \in Nat /\ i \in Nat
      BY <1>2, <2>3
    <3> HIDE DEF A
    <3>3. A \subseteq ranked(k)
      <4> SUFFICES ASSUME NEW j \in M, score[j] > score[i] \/ (score[j] = score[i] /\ j < i)
                   PROVE  score[j] >= score[i]
        BY <2>2, <3>1
      <4>1. score[j] \in Nat
        BY <2>3
      <4> QED
        BY <3>2, <4>1
    <3>4. i \in ranked(k) /\ i \notin above(k) /\ i \notin A
      BY <2>2, <3>1, <3>2
    <3> QED
      BY <2>2, <3>1, <3>3, <3>4
  <2>5. IsFiniteSet(A) /\ IsFiniteSet(ranked(k))
    BY <1>2, <2>2, <2>4, FS_Subset
  <2> HIDE DEF A
  <2>6. IsFiniteSet(B) /\ Cardinality(B) = Cardinality(A) + 1
    BY <2>4, <2>5, FS_AddElement
  <2>7. Cardinality(above(k)) <= Cardinality(A) /\ Cardinality(above(k)) \in Nat
    BY <2>4, <2>5, FS_Subset, FS_CardinalityType
  <2> HIDE DEF B
  <2>8. Cardinality(B) <= Cardinality(ranked(k)) /\ Cardinality(ranked(k)) \in Nat
    BY <2>4, <2>5, FS_Subset, FS_CardinalityType
  <2>9. Cardinality(A) = skipped + k - 1 /\ k \in Nat
    BY <1>4, <2>1 DEF A
  <2>10. Cardinality(above(k)) < skipped + k /\ Cardinality(ranked(k)) >= skipped + k
    BY <1>5, <2>6, <2>7, <2>8, <2>9
  <2>11. i \in ranked(k) \ above(k)
    BY <2>4 DEF B
  <2> QED
    BY <2>1, <2>10, <2>11
<1> HIDE DEF wanted, ranked, above
<1> QED
  BY <1>4, <1>6, <1>8, <1>9 DEF HitsMeanTheRequest, wanted, ranked, above, skipped, room
-----------------------------------------------------------------------------
(* Levels: the functions that go down a filter and a document exist.       *)

\* What holds at the top and is handed down holds at every level.
LEMMA EveryLevel ==
    ASSUME NEW N \in Nat, NEW T, 0 \in T, \A n \in Nat : n < N /\ n \in T => n + 1 \in T
    PROVE  \A n \in 0..N : n \in T
<1> DEFINE Bad == {n \in 0..N : n \notin T}
<1> SUFFICES ASSUME Bad # {} PROVE FALSE
  OBVIOUS
<1>0. Bad \subseteq Nat
  OBVIOUS
<1>1. PICK m \in Bad : \A k \in Bad : m <= k
  <2> HIDE DEF Bad
  <2> QED
    BY <1>0, LeastNatural
<1>2. m \in Nat /\ m <= N /\ m \notin T /\ m # 0
  BY <1>1
<1>3. m - 1 \in Nat /\ m - 1 < N /\ m - 1 \notin Bad
  BY <1>1, <1>2
<1>4. m - 1 \in T
  BY <1>2, <1>3
<1> QED
  BY <1>2, <1>3, <1>4

\* One join further down.
PartAt(up, jf) ==
    [path |-> Append(up.path, jf.index_field), cfg |-> jf, val |-> Inside(up.val, jf.index_field)]

PartsBelow(parts) == UNION {{PartAt(up, jf) : jf \in Range(up.cfg.join_fields)} : up \in parts}

\* part is the function in Parts.
Leveled(part, v, cfg) ==
    /\ part[0] = {[path |-> <<>>, cfg |-> cfg, val |-> {v}]}
    /\ \A n \in 0..(Depth + 1) : part[n + 1] = PartsBelow(part[n])

LEMMA DepthIsNatural == Depth \in Nat
  BY JoinsTyped, FS_CardinalityType DEF Depth

LEMMA PartsFacts ==
    ASSUME NEW v, NEW cfg
    PROVE  \E part : /\ Leveled(part, v, cfg)
                     /\ \A depth : Parts(v, cfg, depth) = UNION {part[n] : n \in 0..depth}
<1> DEFINE N == Depth + 2
           Base == {[path |-> <<>>, cfg |-> cfg, val |-> {v}]}
           Step(g, n) == IF n = 0 THEN Base ELSE PartsBelow(g[n - 1])
           Upto(m, g) == g = [n \in 0..m |-> Step(g, n)]
           T == {m \in Nat : \E g : Upto(m, g)}
           part == CHOOSE g : Upto(N, g)
<1>0. N \in Nat
  BY DepthIsNatural
<1>1. 0 \in T
  <2>1. Upto(0, [n \in 0..0 |-> Base])
    OBVIOUS
  <2> HIDE DEF Upto
  <2> QED
    BY <2>1
<1>2. ASSUME NEW m \in Nat, m \in T PROVE m + 1 \in T
  <2>1. PICK g : Upto(m, g)
    BY <1>2
  <2> DEFINE h == [n \in 0..(m + 1) |-> Step(g, n)]
  <2>2. \A n \in 0..m : h[n] = g[n]
    <3> HIDE DEF Step
    <3> QED
      BY <2>1
  <2>3. \A n \in 0..(m + 1) : n # 0 => n - 1 \in 0..m
    OBVIOUS
  <2>4. h = [n \in 0..(m + 1) |-> Step(g, n)]
    OBVIOUS
  <2> HIDE DEF h
  <2>5. \A n \in 0..(m + 1) : Step(g, n) = Step(h, n)
    BY <2>2, <2>3
  <2>6. Upto(m + 1, h)
    BY <2>4, <2>5
  <2> HIDE DEF Upto
  <2> QED
    BY <2>6
<1>3. \E g : Upto(N, g)
  <2> HIDE DEF Upto, N
  <2>1. \A n \in 0..N : n \in T
    <3> HIDE DEF T
    <3> QED
      BY <1>0, <1>1, <1>2, EveryLevel
  <2> QED
    BY <1>0, <2>1
<1>4. Upto(N, part)
  <2> HIDE DEF Upto
  <2> QED
    BY <1>3
<1>5. \A depth : Parts(v, cfg, depth) = UNION {part[n] : n \in 0..depth}
  BY Zenon DEF Parts, PartsBelow, PartAt
<1> HIDE DEF part
<1>6. Leveled(part, v, cfg)
  <2>1. \A n \in 0..N : part[n] = Step(part, n)
    <3> HIDE DEF Step
    <3> QED
      BY <1>4
  <2>2. part[0] = Base
    BY <1>0, <2>1
  <2>3. \A n \in 0..(Depth + 1) : n + 1 \in 0..N /\ n + 1 # 0 /\ (n + 1) - 1 = n
    BY DepthIsNatural
  <2>4. \A n \in 0..(Depth + 1) : part[n + 1] = PartsBelow(part[n])
    BY <2>1, <2>3
  <2> QED
    BY <2>2, <2>4 DEF Leveled
<1> QED
  BY <1>5, <1>6
-----------------------------------------------------------------------------
(* Paths into a document, and the fields that are opened in a filter.      *)

\* node is the function in DocAtPath.
Walked(node, doc, path) ==
    /\ node[0] = {doc}
    /\ \A n \in 0..(Len(path) - 1) : node[n + 1] = Below(node[n], path[n + 1])

LEMMA WalkFacts ==
    ASSUME NEW doc, NEW path, Len(path) \in Nat
    PROVE  \E node : Walked(node, doc, path) /\ DocAtPath(doc, path) = Items(node[Len(path)])
<1> DEFINE N == Len(path)
           Step(g, n) == IF n = 0 THEN {doc} ELSE Below(g[n - 1], path[n])
           Upto(m, g) == g = [n \in 0..m |-> Step(g, n)]
           T == {m \in Nat : \E g : Upto(m, g)}
           node == CHOOSE g : Upto(N, g)
<1>1. 0 \in T
  <2>1. Upto(0, [n \in 0..0 |-> {doc}])
    OBVIOUS
  <2> HIDE DEF Upto
  <2> QED
    BY <2>1
<1>2. ASSUME NEW m \in Nat, m \in T PROVE m + 1 \in T
  <2>1. PICK g : Upto(m, g)
    BY <1>2
  <2> DEFINE h == [n \in 0..(m + 1) |-> Step(g, n)]
  <2>2. \A n \in 0..m : h[n] = g[n]
    <3> HIDE DEF Step
    <3> QED
      BY <2>1
  <2>3. \A n \in 0..(m + 1) : n # 0 => n - 1 \in 0..m
    OBVIOUS
  <2>4. h = [n \in 0..(m + 1) |-> Step(g, n)]
    OBVIOUS
  <2> HIDE DEF h
  <2>5. \A n \in 0..(m + 1) : Step(g, n) = Step(h, n)
    BY <2>2, <2>3
  <2>6. Upto(m + 1, h)
    BY <2>4, <2>5
  <2> HIDE DEF Upto
  <2> QED
    BY <2>6
<1>3. \E g : Upto(N, g)
  <2> HIDE DEF Upto, N
  <2>1. \A n \in 0..N : n \in T
    <3> HIDE DEF T
    <3> QED
      BY <1>1, <1>2, EveryLevel DEF N
  <2> QED
    BY <2>1 DEF N
<1>4. Upto(N, node)
  <2> HIDE DEF Upto
  <2> QED
    BY <1>3
<1>5. DocAtPath(doc, path) = Items(node[Len(path)])
  BY Zenon DEF DocAtPath
<1> HIDE DEF node
<1>6. Walked(node, doc, path)
  <2>1. \A n \in 0..N : node[n] = Step(node, n)
    <3> HIDE DEF Step
    <3> QED
      BY <1>4
  <2>2. \A n \in 0..(N - 1) : n + 1 \in 0..N /\ n + 1 # 0 /\ (n + 1) - 1 = n
    OBVIOUS
  <2>3. \A n \in 0..(N - 1) : node[n + 1] = Below(node[n], path[n + 1])
    BY <2>1, <2>2
  <2> QED
    BY <2>1, <2>3 DEF Walked
<1> QED
  BY <1>5, <1>6

\* The items of what items have in a segment.
Under(items, key) == Items({Member(item, key) : item \in items} \ {Missing})

\* Only texts have a "keyword": for every other segment it is a field.
LEMMA UnderFacts ==
    ASSUME NEW vs, NEW key
    PROVE  /\ Items(Below(vs, key)) = Under(Items(vs), key)
           /\ key # "keyword" => Items(Inside(vs, key)) = Under(Items(vs), key)
<1>1. Items(Below(vs, key)) = Under(Items(vs), key)
  BY Zenon DEF Below, Under
<1>2. ASSUME key # "keyword" PROVE Items(Inside(vs, key)) = Under(Items(vs), key)
  <2>1. \A item : Member(item, key) = Field(item, key)
    BY <1>2 DEF Member
  <2>2. {Field(item, key) : item \in Items(vs)} = {Member(item, key) : item \in Items(vs)}
    BY <2>1
  <2>3. Inside(vs, key) = {Member(item, key) : item \in Items(vs)} \ {Missing}
    BY <2>2, Zenon DEF Inside
  <2> QED
    BY <2>3, Zenon DEF Under
<1> QED
  BY <1>1, <1>2

\* The empty path leads to the document.
LEMMA DocTop ==
    ASSUME NEW doc
    PROVE  DocAtPath(doc, <<>>) = Items({doc})
<1>1. Len(<<>>) = 0
  OBVIOUS
<1>2. PICK none : Walked(none, doc, <<>>) /\ DocAtPath(doc, <<>>) = Items(none[0])
  BY <1>1, WalkFacts
<1>3. none[0] = {doc}
  BY <1>2 DEF Walked
<1> QED
  BY <1>2, <1>3

\* A path ends one segment below where the rest of it leads.
LEMMA DocBelow ==
    ASSUME NEW doc, NEW path, path \in Seq(Range(path)), NEW key
    PROVE  /\ DocAtPath(doc, Append(path, key)) = Under(DocAtPath(doc, path), key)
           /\ Append(path, key) \in Seq(Range(Append(path, key)))
           /\ Len(Append(path, key)) = Len(path) + 1 /\ Len(path) \in Nat
           /\ Last(Append(path, key)) = key /\ Front(Append(path, key)) = path
<1> DEFINE longer == Append(path, key)
<1>0. path \in Seq(Range(path) \cup {key})
  OBVIOUS
<1>1. /\ Len(path) \in Nat /\ Len(longer) = Len(path) + 1 /\ longer \in Seq(Range(path) \cup {key})
      /\ \A n \in 1..Len(path) : longer[n] = path[n]
      /\ longer[Len(path) + 1] = key
      /\ Range(longer) = Range(path) \cup {key}
  BY <1>0, AppendFacts
<1>2. Last(longer) = key /\ Front(longer) = path
  BY <1>0 DEF Last, Front
<1> HIDE DEF longer
<1>3. PICK node : Walked(node, doc, path) /\ DocAtPath(doc, path) = Items(node[Len(path)])
  BY <1>1, WalkFacts
<1>4. PICK next : Walked(next, doc, longer) /\ DocAtPath(doc, longer) = Items(next[Len(longer)])
  BY <1>1, WalkFacts
<1> DEFINE T == {n \in Nat : n <= Len(path) => next[n] = node[n]}
<1>5. 0 \in T
  BY <1>1, <1>3, <1>4 DEF Walked
<1>6. ASSUME NEW n \in Nat, n < Len(path), n \in T PROVE n + 1 \in T
  <2>1. n \in 0..(Len(path) - 1) /\ n \in 0..(Len(longer) - 1) /\ n + 1 \in 1..Len(path)
    BY <1>1, <1>6
  <2>2. next[n] = node[n]
    BY <1>1, <1>6
  <2>3. next[n + 1] = node[n + 1]
    BY <1>1, <1>3, <1>4, <2>1, <2>2 DEF Walked
  <2> QED
    BY <2>3
<1>7. next[Len(path)] = node[Len(path)]
  <2>1. \A n \in 0..Len(path) : n \in T
    <3> HIDE DEF T
    <3> QED
      BY <1>1, <1>5, <1>6, EveryLevel
  <2> QED
    BY <1>1, <2>1
<1>8. next[Len(longer)] = Below(node[Len(path)], key)
  <2>1. Len(path) \in 0..(Len(longer) - 1)
    BY <1>1
  <2> QED
    BY <1>1, <1>4, <1>7, <2>1 DEF Walked
<1>9. DocAtPath(doc, longer) = Under(DocAtPath(doc, path), key)
  BY <1>3, <1>4, <1>8, UnderFacts
<1> QED
  BY <1>1, <1>2, <1>9 DEF longer

\* The fields of a filter that hold fields.
Nested(obj) == {key \in DOMAIN obj : Kind(obj[key]) = "obj" /\ ~HoldsOperators(obj[key])}

FieldAt(up, key) == [path |-> Append(up.path, key), obj |-> up.obj[key].obj]

FieldsBelow(fields) == UNION {{FieldAt(up, key) : key \in Nested(up.obj)} : up \in fields}

\* fields is the function in BuildEsFilter.
Opened(fields, v) ==
    /\ fields[0] = {[path |-> <<>>, obj |-> w.obj] : w \in {w \in {v} : Kind(w) = "obj"}}
    /\ \A n \in 0..(Depth - 1) : fields[n + 1] = FieldsBelow(fields[n])

LEMMA FilterFacts ==
    ASSUME NEW v
    PROVE  \E fields :
              /\ Opened(fields, v)
              /\ BuildEsFilter(v) =
                    UNION {UNION {ChildClauses(Append(at.path, key), at.obj[key]) : key \in DOMAIN at.obj} :
                              at \in UNION {fields[n] : n \in 0..Depth}}
<1> DEFINE N == Depth
           Base == {[path |-> <<>>, obj |-> w.obj] : w \in {w \in {v} : Kind(w) = "obj"}}
           Step(g, n) == IF n = 0 THEN Base ELSE FieldsBelow(g[n - 1])
           Upto(m, g) == g = [n \in 0..m |-> Step(g, n)]
           T == {m \in Nat : \E g : Upto(m, g)}
           fields == CHOOSE g : Upto(N, g)
<1>0. N \in Nat
  BY DepthIsNatural
<1>1. 0 \in T
  <2>1. Upto(0, [n \in 0..0 |-> Base])
    OBVIOUS
  <2> HIDE DEF Upto
  <2> QED
    BY <2>1
<1>2. ASSUME NEW m \in Nat, m \in T PROVE m + 1 \in T
  <2>1. PICK g : Upto(m, g)
    BY <1>2
  <2> DEFINE h == [n \in 0..(m + 1) |-> Step(g, n)]
  <2>2. \A n \in 0..m : h[n] = g[n]
    <3> HIDE DEF Step
    <3> QED
      BY <2>1
  <2>3. \A n \in 0..(m + 1) : n # 0 => n - 1 \in 0..m
    OBVIOUS
  <2>4. h = [n \in 0..(m + 1) |-> Step(g, n)]
    OBVIOUS
  <2> HIDE DEF h
  <2>5. \A n \in 0..(m + 1) : Step(g, n) = Step(h, n)
    BY <2>2, <2>3
  <2>6. Upto(m + 1, h)
    BY <2>4, <2>5
  <2> HIDE DEF Upto
  <2> QED
    BY <2>6
<1>3. \E g : Upto(N, g)
  <2> HIDE DEF Upto, N
  <2>1. \A n \in 0..N : n \in T
    <3> HIDE DEF T
    <3> QED
      BY <1>0, <1>1, <1>2, EveryLevel
  <2> QED
    BY <1>0, <2>1
<1>4. Upto(N, fields)
  <2> HIDE DEF Upto
  <2> QED
    BY <1>3
<1>5. BuildEsFilter(v) =
          UNION {UNION {ChildClauses(Append(at.path, key), at.obj[key]) : key \in DOMAIN at.obj} :
                    at \in UNION {fields[n] : n \in 0..Depth}}
  BY Zenon DEF BuildEsFilter, FieldsBelow, FieldAt, Nested
<1> HIDE DEF fields
<1>6. Opened(fields, v)
  <2>1. \A n \in 0..N : fields[n] = Step(fields, n)
    <3> HIDE DEF Step
    <3> QED
      BY <1>4
  <2>2. fields[0] = Base
    <3>1. 0 \in 0..N
      BY <1>0
    <3>2. Step(fields, 0) = Base
      OBVIOUS
    <3> HIDE DEF Step, Base
    <3> QED
      BY <2>1, <3>1, <3>2
  <2>3. \A n \in 0..(Depth - 1) : n + 1 \in 0..N /\ n + 1 # 0 /\ (n + 1) - 1 = n
    BY DepthIsNatural
  <2>4. \A n \in 0..(Depth - 1) : fields[n + 1] = FieldsBelow(fields[n])
    BY <2>1, <2>3
  <2> QED
    BY <2>2, <2>4 DEF Opened
<1> QED
  BY <1>5, <1>6
-----------------------------------------------------------------------------
(* The joins of an index, in a filter and in a document.                   *)

\* What is no list is its own item.
LEMMA ItemsFacts ==
    ASSUME NEW vs, \A v \in vs : Kind(v) # "arr"
    PROVE  /\ Items(vs) = vs
           /\ \A name, x : x \in Inside(vs, name) <=> x # Missing /\ \E v \in vs : x = Field(v, name)
<1>1. Items(vs) = vs
  <2> DEFINE of(v) == IF Kind(v) = "arr" THEN {v.arr[i] : i \in DOMAIN v.arr} ELSE {v}
  <2>1. \A v \in vs : of(v) = {v}
    OBVIOUS
  <2>2. Items(vs) = UNION {of(v) : v \in vs}
    BY Zenon DEF Items
  <2> HIDE DEF of
  <2> QED
    BY <2>1, <2>2
<1> QED
  BY <1>1 DEF Inside

LEMMA PartsBelowFacts ==
    ASSUME NEW parts
    PROVE  /\ \A at \in PartsBelow(parts) :
                 \E up \in parts : \E jf \in Range(up.cfg.join_fields) : at = PartAt(up, jf)
           /\ \A up \in parts : \A jf \in Range(up.cfg.join_fields) : PartAt(up, jf) \in PartsBelow(parts)
<1> DEFINE below(up) == {PartAt(up, jf) : jf \in Range(up.cfg.join_fields)}
<1>1. PartsBelow(parts) = UNION {below(up) : up \in parts}
  BY DEF PartsBelow
<1>2. \A up : \A at : at \in below(up) <=> \E jf \in Range(up.cfg.join_fields) : at = PartAt(up, jf)
  OBVIOUS
<1> HIDE DEF below
<1>3. \A at : at \in PartsBelow(parts) <=> \E up \in parts : at \in below(up)
  BY <1>1
<1> QED
  BY <1>2, <1>3

LEMMA ConfigFacts ==
    ASSUME NEW cfg \in Indices \cup Joins
    PROVE  /\ Range(cfg.join_fields) \subseteq Joins
           /\ \A jf, other \in Range(cfg.join_fields) :
                 jf.index_field = other.index_field => jf = other
<1>1. cfg.join_fields \in JoinLists
  <2>1. CASE cfg \in Joins
    BY <2>1 DEF JoinLists
  <2>2. CASE cfg \in Indices
    <3> DEFINE page == [k \in 1..0 |-> {}]
               c == [sources |-> page, joins |-> cfg.join_fields]
    <3>1. page \in [1..0 -> Range(Docs)] /\ 0 \in 0..MaxLimit
      BY SearchTyped
    <3> HIDE DEF page
    <3>2. c \in Calls
      BY <2>2, <3>1, PagesCalled
    <3>3. c.joins = cfg.join_fields
      OBVIOUS
    <3> HIDE DEF c
    <3> QED
      BY <3>2, <3>3 DEF JoinLists
  <2> QED
    BY <2>1, <2>2
<1>2. cfg.join_fields \in Seq(Joins)
  BY <1>1, JoinsTyped
<1>3. Range(cfg.join_fields) \subseteq Joins
  BY <1>2 DEF Range
<1>4. \A jf, other \in Range(cfg.join_fields) : jf.index_field = other.index_field => jf = other
  BY <1>1, IndexFieldsApart DEF Range
<1> QED
  BY <1>3, <1>4

\* A part is at its level, by the joins of a configuration of the search.
LEMMA PartTyped ==
    ASSUME NEW v, NEW cfg \in Indices, NEW part, Leveled(part, v, cfg)
    PROVE  \A n \in 0..(Depth + 2) : \A at \in part[n] :
              /\ at.cfg \in Indices \cup Joins
              /\ at.path \in Seq(Range(at.path)) /\ Len(at.path) = n
<1> DEFINE N == Depth + 2
           Typed(n) == \A at \in part[n] : /\ at.cfg \in Indices \cup Joins
                                           /\ at.path \in Seq(Range(at.path)) /\ Len(at.path) = n
           T == {n \in Nat : n <= N => Typed(n)}
<1>0. N \in Nat
  BY DepthIsNatural
<1>1. 0 \in T
  <2> DEFINE top == [path |-> <<>>, cfg |-> cfg, val |-> {v}]
  <2>1. part[0] = {top}
    BY DEF Leveled
  <2>2. top.cfg = cfg /\ top.path = <<>> /\ <<>> \in Seq(Range(<<>>)) /\ Len(<<>>) = 0
    OBVIOUS
  <2> HIDE DEF top
  <2> QED
    BY <2>1, <2>2
<1>2. ASSUME NEW n \in Nat, n < N, n \in T PROVE n + 1 \in T
  <2>1. Typed(n)
    BY <1>0, <1>2
  <2>2. n \in 0..(Depth + 1)
    BY <1>0, <1>2, DepthIsNatural
  <2>3. ASSUME NEW at \in part[n + 1]
        PROVE  /\ at.cfg \in Indices \cup Joins
               /\ at.path \in Seq(Range(at.path)) /\ Len(at.path) = n + 1
    <3>1. PICK up \in part[n] : \E jf \in Range(up.cfg.join_fields) :
             at = PartAt(up, jf)
      BY <2>2, <2>3, PartsBelowFacts DEF Leveled
    <3>2. PICK jf \in Range(up.cfg.join_fields) :
             at = PartAt(up, jf)
      BY <3>1
    <3>3. at.path = Append(up.path, jf.index_field) /\ at.cfg = jf
      BY <3>2 DEF PartAt
    <3>4. up.path \in Seq(Range(up.path)) /\ Len(up.path) = n /\ up.cfg \in Indices \cup Joins
      BY <2>1
    <3>5. jf \in Joins
      BY <3>4, ConfigFacts
    <3>6. at.path \in Seq(Range(at.path)) /\ Len(at.path) = Len(up.path) + 1
      BY <3>3, <3>4, DocBelow
    <3> QED
      BY <3>3, <3>4, <3>5, <3>6
  <2> QED
    BY <2>3
<1>3. \A n \in 0..N : n \in T
  <2> HIDE DEF T, N
  <2> QED
    BY <1>0, <1>1, <1>2, EveryLevel
<1> QED
  BY <1>0, <1>3

SameWays(parts, nodes) ==
    /\ \A p \in parts, q \in nodes : p.path = q.path => p.cfg = q.cfg
    /\ \A p \in parts : \E q \in nodes : q.path = p.path

\* Whatever the value, the ways down are those of the configuration.
LEMMA WaysAgree ==
    ASSUME NEW v, NEW w, NEW cfg \in Indices, NEW part, Leveled(part, v, cfg),
           NEW node, Leveled(node, w, cfg)
    PROVE  \A n \in 0..(Depth + 2) : SameWays(part[n], node[n])
<1> DEFINE N == Depth + 2
           T == {n \in Nat : n <= N => SameWays(part[n], node[n])}
<1>0. N \in Nat
  BY DepthIsNatural
<1>1. 0 \in T
  <2> DEFINE top(x) == [path |-> <<>>, cfg |-> cfg, val |-> {x}]
  <2>1. part[0] = {top(v)} /\ node[0] = {top(w)}
    BY DEF Leveled
  <2>2. top(v).path = top(w).path /\ top(v).cfg = top(w).cfg
    OBVIOUS
  <2> HIDE DEF top
  <2> QED
    BY <2>1, <2>2 DEF SameWays
<1>2. ASSUME NEW n \in Nat, n < N, n \in T PROVE n + 1 \in T
  <2>1. SameWays(part[n], node[n])
    BY <1>0, <1>2
  <2>2. n \in 0..(Depth + 1) /\ n \in 0..(Depth + 2)
    BY <1>0, <1>2, DepthIsNatural
  <2>3. \A p \in part[n + 1] : \E up \in part[n] : \E jf \in Range(up.cfg.join_fields) : p = PartAt(up, jf)
    BY <2>2, PartsBelowFacts DEF Leveled
  <2>4. \A q \in node[n + 1] : \E up \in node[n] : \E jf \in Range(up.cfg.join_fields) : q = PartAt(up, jf)
    BY <2>2, PartsBelowFacts DEF Leveled
  <2>5. \A up \in node[n] : \A jf \in Range(up.cfg.join_fields) : PartAt(up, jf) \in node[n + 1]
    BY <2>2, PartsBelowFacts DEF Leveled
  <2>6. \A up, jf : PartAt(up, jf).path = Append(up.path, jf.index_field) /\ PartAt(up, jf).cfg = jf
    BY DEF PartAt
  <2>7. ASSUME NEW p \in part[n + 1], NEW q \in node[n + 1], p.path = q.path PROVE p.cfg = q.cfg
    <3>a. PICK pu \in part[n] : \E jf \in Range(pu.cfg.join_fields) : p = PartAt(pu, jf)
      BY <2>3
    <3>1. PICK pj \in Range(pu.cfg.join_fields) : p = PartAt(pu, pj)
      BY <3>a
    <3>b. PICK qu \in node[n] : \E jf \in Range(qu.cfg.join_fields) : q = PartAt(qu, jf)
      BY <2>4
    <3>2. PICK qj \in Range(qu.cfg.join_fields) : q = PartAt(qu, qj)
      BY <3>b
    <3>3. Append(pu.path, pj.index_field) = Append(qu.path, qj.index_field)
      BY <2>6, <2>7, <3>1, <3>2
    <3>4. pu.path \in Seq(Range(pu.path)) /\ qu.path \in Seq(Range(qu.path))
      BY <2>2, PartTyped
    <3>5. pu.path = qu.path /\ pj.index_field = qj.index_field
      BY <3>3, <3>4, DocBelow
    <3>6. pu.cfg = qu.cfg /\ pu.cfg \in Indices \cup Joins
      BY <2>1, <2>2, <3>5, PartTyped DEF SameWays
    <3>7. pj = qj
      BY <3>5, <3>6, ConfigFacts
    <3> QED
      BY <2>6, <3>1, <3>2, <3>7
  <2>8. ASSUME NEW p \in part[n + 1] PROVE \E q \in node[n + 1] : q.path = p.path
    <3>a. PICK pu \in part[n] : \E jf \in Range(pu.cfg.join_fields) : p = PartAt(pu, jf)
      BY <2>3
    <3>1. PICK pj \in Range(pu.cfg.join_fields) : p = PartAt(pu, pj)
      BY <3>a
    <3>2. PICK qu \in node[n] : qu.path = pu.path
      BY <2>1 DEF SameWays
    <3>3. pj \in Range(qu.cfg.join_fields)
      BY <2>1, <3>2 DEF SameWays
    <3>4. PICK q \in node[n + 1] : q = PartAt(qu, pj)
      BY <2>5, <3>3
    <3>5. p.path = Append(pu.path, pj.index_field)
      BY <2>6, <3>1
    <3>6. q.path = Append(qu.path, pj.index_field)
      BY <2>6, <3>4
    <3> QED
      BY <3>2, <3>5, <3>6
  <2> QED
    BY <2>7, <2>8 DEF SameWays
<1>3. \A n \in 0..N : n \in T
  <2> HIDE DEF T, N
  <2> QED
    BY <1>0, <1>1, <1>2, EveryLevel
<1> QED
  BY <1>0, <1>3

\* A part of a document is what its path leads to.
LEMMA PartIsAtPath ==
    ASSUME NEW doc, NEW cfg \in Indices, NEW node, Leveled(node, doc, cfg)
    PROVE  \A n \in 0..(Depth + 2) : \A at \in node[n] : Items(at.val) = DocAtPath(doc, at.path)
<1> DEFINE N == Depth + 2
           T == {n \in Nat : n <= N => \A at \in node[n] : Items(at.val) = DocAtPath(doc, at.path)}
<1>0. N \in Nat
  BY DepthIsNatural
<1>1. 0 \in T
  <2> DEFINE top == [path |-> <<>>, cfg |-> cfg, val |-> {doc}]
  <2>1. node[0] = {top}
    BY DEF Leveled
  <2>2. top.path = <<>> /\ top.val = {doc}
    OBVIOUS
  <2> HIDE DEF top
  <2>3. Items(top.val) = DocAtPath(doc, top.path)
    BY <2>2, DocTop
  <2> QED
    BY <2>1, <2>3
<1>2. ASSUME NEW n \in Nat, n < N, n \in T PROVE n + 1 \in T
  <2>1. n \in 0..(Depth + 1) /\ n \in 0..(Depth + 2) /\ n <= N
    BY <1>0, <1>2, DepthIsNatural
  <2>2. ASSUME NEW at \in node[n + 1] PROVE Items(at.val) = DocAtPath(doc, at.path)
    <3>1. PICK up \in node[n] : \E jf \in Range(up.cfg.join_fields) :
             at = PartAt(up, jf)
      BY <2>1, <2>2, PartsBelowFacts DEF Leveled
    <3>2. PICK jf \in Range(up.cfg.join_fields) :
             at = PartAt(up, jf)
      BY <3>1
    <3>3. at.path = Append(up.path, jf.index_field) /\ at.val = Inside(up.val, jf.index_field)
      BY <3>2 DEF PartAt
    <3>4. up.path \in Seq(Range(up.path)) /\ up.cfg \in Indices \cup Joins
      BY <2>1, PartTyped
    <3>5. DocAtPath(doc, at.path) = Under(DocAtPath(doc, up.path), jf.index_field)
      <4>1. DocAtPath(doc, Append(up.path, jf.index_field)) = Under(DocAtPath(doc, up.path), jf.index_field)
        BY <3>4, DocBelow
      <4> QED
        BY <3>3, <4>1
    <3>6. Items(up.val) = DocAtPath(doc, up.path)
      BY <1>2, <2>1
    <3>7. jf.index_field # "keyword"
      BY <3>4, FieldsNamed
    <3>8. Items(at.val) = Under(Items(up.val), jf.index_field)
      BY <3>3, <3>7, UnderFacts
    <3> QED
      BY <3>5, <3>6, <3>8
  <2> QED
    BY <2>2
<1>3. \A n \in 0..N : n \in T
  <2> HIDE DEF T, N
  <2> QED
    BY <1>0, <1>1, <1>2, EveryLevel
<1> QED
  BY <1>0, <1>3

\* What a document has in a field is at the path of this field.
LEMMA FieldIsAtPath ==
    ASSUME NEW doc, NEW cfg \in Indices, NEW node, Leveled(node, doc, cfg),
           NEW n \in 0..(Depth + 2), NEW at \in node[n], NEW f \in at.cfg.searchable_fields
    PROVE  DocAtPath(doc, Append(at.path, f)) = Held(at, f)
<1>1. at.path \in Seq(Range(at.path)) /\ at.cfg \in Indices \cup Joins
  BY PartTyped
<1>2. Items(at.val) = DocAtPath(doc, at.path)
  BY PartIsAtPath
<1>3. DocAtPath(doc, Append(at.path, f)) = Under(Items(at.val), f)
  <2>1. DocAtPath(doc, Append(at.path, f)) = Under(DocAtPath(doc, at.path), f)
    BY <1>1, DocBelow
  <2> QED
    BY <1>2, <2>1
<1>4. f # "keyword"
  BY <1>1, FieldsNamed
<1>5. Items(Inside(at.val, f)) = Under(Items(at.val), f)
  BY <1>4, UnderFacts
<1> QED
  BY <1>3, <1>5 DEF Held
-----------------------------------------------------------------------------
(* Words.                                                                  *)

LEMMA TwoLevels ==
    ASSUME NEW v, NEW cfg, NEW part, Leveled(part, v, cfg),
           \A depth : Parts(v, cfg, depth) = UNION {part[n] : n \in 0..depth}
    PROVE  Parts(v, cfg, 2) = part[0] \cup PartsBelow(part[0]) \cup PartsBelow(PartsBelow(part[0]))
<1>1. 0 \in 0..(Depth + 1) /\ 1 \in 0..(Depth + 1)
  BY DepthIsNatural
<1>2. part[1] = PartsBelow(part[0]) /\ part[2] = PartsBelow(part[1])
  <2>1. part[0 + 1] = PartsBelow(part[0]) /\ part[1 + 1] = PartsBelow(part[1])
    BY <1>1 DEF Leveled
  <2> QED
    BY <2>1
<1>3. 0..2 = {0, 1, 2}
  OBVIOUS
<1>4. Parts(v, cfg, 2) = UNION {part[n] : n \in {0, 1, 2}}
  BY <1>3
<1> QED
  BY <1>2, <1>4

LEMMA ShortPaths ==
    ASSUME NEW x, NEW y, NEW z
    PROVE  Append(<<>>, x) = <<x>> /\ Append(<<x>>, y) = <<x, y>> /\ Append(<<x, y>>, z) = <<x, y, z>>
<1> DEFINE U == {x, y, z}
<1>1. <<x>> \in Seq(U) /\ <<x, y>> \in Seq(U) /\ <<x, y, z>> \in Seq(U)
  OBVIOUS
<1>2. /\ Append(<<x>>, y) \in Seq(U) /\ Len(Append(<<x>>, y)) = 2
      /\ Append(<<x>>, y)[1] = x /\ Append(<<x>>, y)[2] = y
  BY <1>1
<1>3. /\ Append(<<x, y>>, z) \in Seq(U) /\ Len(Append(<<x, y>>, z)) = 3
      /\ Append(<<x, y>>, z)[1] = x /\ Append(<<x, y>>, z)[2] = y /\ Append(<<x, y>>, z)[3] = z
  BY <1>1
<1>4. Append(<<x>>, y) = <<x, y>>
  <2> DEFINE s == Append(<<x>>, y)
             w == <<x, y>>
  <2>1. w \in Seq(U) /\ Len(w) = 2 /\ w[1] = x /\ w[2] = y
    BY <1>1
  <2>2. s \in Seq(U) /\ Len(s) = 2 /\ s[1] = x /\ s[2] = y
    BY <1>2
  <2> HIDE DEF s, w
  <2>3. \A i \in 1..Len(s) : s[i] = w[i]
    BY <2>1, <2>2
  <2>4. s = w
    BY <2>1, <2>2, <2>3, SeqEqual
  <2> QED
    BY <2>4 DEF s, w
<1>5. Append(<<x, y>>, z) = <<x, y, z>>
  <2> DEFINE s == Append(<<x, y>>, z)
             w == <<x, y, z>>
  <2>1. w \in Seq(U) /\ Len(w) = 3 /\ w[1] = x /\ w[2] = y /\ w[3] = z
    BY <1>1
  <2>2. s \in Seq(U) /\ Len(s) = 3 /\ s[1] = x /\ s[2] = y /\ s[3] = z
    BY <1>3
  <2> HIDE DEF s, w
  <2>3. \A i \in 1..Len(s) : s[i] = w[i]
    BY <2>1, <2>2
  <2>4. s = w
    BY <2>1, <2>2, <2>3, SeqEqual
  <2> QED
    BY <2>4 DEF s, w
<1> QED
  BY <1>4, <1>5

FieldsOf(at) == {Append(at.path, f) : f \in at.cfg.searchable_fields}

\* The fields words are looked for in are those two levels of joins have.
LEMMA WordFields ==
    ASSUME NEW doc, NEW cfg
    PROVE  CollectSearchableFields(cfg) = UNION {FieldsOf(at) : at \in Parts(doc, cfg, 2)}
<1> DEFINE top == [path |-> <<>>, cfg |-> cfg, val |-> {doc}]
<1>1. PICK part : /\ Leveled(part, doc, cfg)
                  /\ \A depth : Parts(doc, cfg, depth) = UNION {part[n] : n \in 0..depth}
  BY PartsFacts
<1>2. part[0] = {top}
  BY <1>1 DEF Leveled
<1>3. top.path = <<>> /\ top.cfg = cfg
  OBVIOUS
<1> HIDE DEF top
<1>4. \A at : at \in PartsBelow({top}) <=> \E jf \in Range(cfg.join_fields) : at = PartAt(top, jf)
  BY <1>3, PartsBelowFacts
<1>5. \A up, jf : PartAt(up, jf).path = Append(up.path, jf.index_field) /\ PartAt(up, jf).cfg = jf
  BY DEF PartAt
<1>6. \A at : at \in PartsBelow(PartsBelow({top})) <=>
                 \E jf \in Range(cfg.join_fields) : \E nested \in Range(jf.join_fields) :
                    at = PartAt(PartAt(top, jf), nested)
  <2>1. \A at : at \in PartsBelow(PartsBelow({top})) <=>
                 \E up \in PartsBelow({top}) : \E jf \in Range(up.cfg.join_fields) : at = PartAt(up, jf)
    BY PartsBelowFacts
  <2>2. \A jf \in Range(cfg.join_fields) : PartAt(top, jf) \in PartsBelow({top}) /\ PartAt(top, jf).cfg = jf
    BY <1>4, <1>5
  <2>3. ASSUME NEW at, at \in PartsBelow(PartsBelow({top}))
        PROVE  \E jf \in Range(cfg.join_fields) : \E nested \in Range(jf.join_fields) :
                    at = PartAt(PartAt(top, jf), nested)
    <3>1. PICK up \in PartsBelow({top}) : \E jf \in Range(up.cfg.join_fields) : at = PartAt(up, jf)
      BY <2>1, <2>3
    <3>2. PICK jf \in Range(cfg.join_fields) : up = PartAt(top, jf)
      BY <1>4
    <3>3. up.cfg = jf
      BY <2>2, <3>2
    <3> QED
      BY <3>1, <3>2, <3>3
  <2>4. ASSUME NEW at, NEW jf \in Range(cfg.join_fields), NEW nested \in Range(jf.join_fields),
               at = PartAt(PartAt(top, jf), nested)
        PROVE  at \in PartsBelow(PartsBelow({top}))
    BY <2>1, <2>2, <2>4
  <2> QED
    BY <2>3, <2>4
<1>a. \A jf : PartAt(top, jf).path = <<jf.index_field>>
  BY <1>3, <1>5, ShortPaths
<1>b. \A jf, nested : PartAt(PartAt(top, jf), nested).path = <<jf.index_field, nested.index_field>>
  <2> SUFFICES ASSUME NEW jf, NEW nested
               PROVE  PartAt(PartAt(top, jf), nested).path = <<jf.index_field, nested.index_field>>
    OBVIOUS
  <2>1. PartAt(PartAt(top, jf), nested).path = Append(<<jf.index_field>>, nested.index_field)
    <3>1. PartAt(top, jf).path = <<jf.index_field>>
      BY <1>a
    <3> DEFINE up == PartAt(top, jf)
    <3> HIDE DEF up
    <3>2. PartAt(up, nested).path = Append(up.path, nested.index_field)
      BY <1>5
    <3>3. up.path = <<jf.index_field>>
      BY <3>1 DEF up
    <3>4. PartAt(up, nested).path = Append(<<jf.index_field>>, nested.index_field)
      BY <3>2, <3>3
    <3> QED
      BY <3>4 DEF up
  <2> QED
    BY <2>1, ShortPaths
<1>7. FieldsOf(top) = {<<f>> : f \in cfg.searchable_fields}
  BY <1>3, ShortPaths DEF FieldsOf
<1>8. \A jf : FieldsOf(PartAt(top, jf)) = {<<jf.index_field, f>> : f \in jf.searchable_fields}
  <2> SUFFICES ASSUME NEW jf
               PROVE  FieldsOf(PartAt(top, jf)) = {<<jf.index_field, f>> : f \in jf.searchable_fields}
    OBVIOUS
  <2>1. FieldsOf(PartAt(top, jf)) = {Append(<<jf.index_field>>, f) : f \in jf.searchable_fields}
    <3> DEFINE at == PartAt(top, jf)
    <3>1. at.path = <<jf.index_field>> /\ at.cfg = jf
      BY <1>5, <1>a
    <3> HIDE DEF at
    <3>2. FieldsOf(at) = {Append(<<jf.index_field>>, f) : f \in jf.searchable_fields}
      BY <3>1 DEF FieldsOf
    <3> QED
      BY <3>2 DEF at
  <2> QED
    BY <2>1, ShortPaths
<1>9. \A jf, nested : FieldsOf(PartAt(PartAt(top, jf), nested)) =
                         {<<jf.index_field, nested.index_field, f>> : f \in nested.searchable_fields}
  <2> SUFFICES ASSUME NEW jf, NEW nested
               PROVE  FieldsOf(PartAt(PartAt(top, jf), nested)) =
                         {<<jf.index_field, nested.index_field, f>> : f \in nested.searchable_fields}
    OBVIOUS
  <2>1. FieldsOf(PartAt(PartAt(top, jf), nested)) =
           {Append(<<jf.index_field, nested.index_field>>, f) : f \in nested.searchable_fields}
    <3> DEFINE at == PartAt(PartAt(top, jf), nested)
    <3>1. at.path = <<jf.index_field, nested.index_field>> /\ at.cfg = nested
      BY <1>5, <1>b
    <3> HIDE DEF at
    <3>2. FieldsOf(at) = {Append(<<jf.index_field, nested.index_field>>, f) : f \in nested.searchable_fields}
      BY <3>1 DEF FieldsOf
    <3> QED
      BY <3>2 DEF at
  <2> QED
    BY <2>1, ShortPaths
<1>10. \A p : p \in CollectSearchableFields(cfg) <=>
                \/ p \in FieldsOf(top)
                \/ \E jf \in Range(cfg.join_fields) :
                      \/ p \in FieldsOf(PartAt(top, jf))
                      \/ \E nested \in Range(jf.join_fields) : p \in FieldsOf(PartAt(PartAt(top, jf), nested))
  BY <1>7, <1>8, <1>9 DEF CollectSearchableFields
<1>11. Parts(doc, cfg, 2) = {top} \cup PartsBelow({top}) \cup PartsBelow(PartsBelow({top}))
  BY <1>1, <1>2, TwoLevels
<1>12. \A p : p \in CollectSearchableFields(cfg) <=> \E at \in Parts(doc, cfg, 2) : p \in FieldsOf(at)
  BY <1>4, <1>6, <1>10, <1>11
<1> QED
  BY <1>12

\* The words a document is found by are those it says.
LEMMA WordsMean ==
    ASSUME NEW r \in Requests, NEW doc
    PROVE  MatchedTerms(Text(r), doc) = {i \in DOMAIN r.query : SaysWord(r.query[i], r.index, doc)}
<1> DEFINE cfg == r.index
           Says(word, ds) == \E d \in ds : Kind(d) = "str" /\ Occurs(Lower(word), Lower(d.str))
<1>0. cfg \in Indices
  BY DEF Indices
<1>1. PICK part : /\ Leveled(part, doc, cfg)
                  /\ \A depth : Parts(doc, cfg, depth) = UNION {part[n] : n \in 0..depth}
  BY PartsFacts
<1>2. \A at \in Parts(doc, cfg, 2) : \A f \in at.cfg.searchable_fields :
         DocAtPath(doc, Append(at.path, f)) = Held(at, f)
  <2> SUFFICES ASSUME NEW at \in Parts(doc, cfg, 2), NEW f \in at.cfg.searchable_fields
               PROVE  DocAtPath(doc, Append(at.path, f)) = Held(at, f)
    OBVIOUS
  <2>1. PICK n \in 0..2 : at \in part[n]
    BY <1>1
  <2>2. n \in 0..(Depth + 2)
    BY DepthIsNatural
  <2> QED
    BY <1>0, <1>1, <2>1, <2>2, FieldIsAtPath
<1>3. MatchedTerms(Text(r), doc) =
          {i \in DOMAIN r.query : \E p \in CollectSearchableFields(cfg) : Says(r.query[i], DocAtPath(doc, p))}
  <2>1. Text(r).query = r.query /\ Text(r).fields = CollectSearchableFields(cfg)
    BY DEF Text
  <2> QED
    BY <2>1, Zenon DEF MatchedTerms
<1>4. \A word : SaysWord(word, cfg, doc) <=>
                   \E at \in Parts(doc, cfg, 2) : \E f \in at.cfg.searchable_fields : Says(word, Held(at, f))
  BY Zenon DEF SaysWord
<1> HIDE DEF Says, cfg
<1>5. \A word : (\E p \in CollectSearchableFields(cfg) : Says(word, DocAtPath(doc, p))) <=> SaysWord(word, cfg, doc)
  <2>1. \A p : p \in CollectSearchableFields(cfg) <=>
                  \E at \in Parts(doc, cfg, 2) : \E f \in at.cfg.searchable_fields : p = Append(at.path, f)
    <3>1. \A p, at : p \in FieldsOf(at) <=> \E f \in at.cfg.searchable_fields : p = Append(at.path, f)
      BY DEF FieldsOf
    <3>2. \A p : p \in CollectSearchableFields(cfg) <=> \E at \in Parts(doc, cfg, 2) : p \in FieldsOf(at)
      BY WordFields
    <3> QED
      BY <3>1, <3>2
  <2> SUFFICES ASSUME NEW word
               PROVE  (\E p \in CollectSearchableFields(cfg) : Says(word, DocAtPath(doc, p))) <=> SaysWord(word, cfg, doc)
    OBVIOUS
  <2>2. ASSUME NEW p \in CollectSearchableFields(cfg), Says(word, DocAtPath(doc, p))
        PROVE  SaysWord(word, cfg, doc)
    <3>1. PICK at \in Parts(doc, cfg, 2) : \E f \in at.cfg.searchable_fields : p = Append(at.path, f)
      BY <2>1
    <3>2. PICK f \in at.cfg.searchable_fields : p = Append(at.path, f)
      BY <3>1
    <3>3. DocAtPath(doc, p) = Held(at, f)
      BY <1>2, <3>2
    <3> QED
      BY <1>4, <2>2, <3>3
  <2>3. ASSUME SaysWord(word, cfg, doc)
        PROVE  \E p \in CollectSearchableFields(cfg) : Says(word, DocAtPath(doc, p))
    <3>1. PICK at \in Parts(doc, cfg, 2) : \E f \in at.cfg.searchable_fields : Says(word, Held(at, f))
      BY <1>4, <2>3
    <3>2. PICK f \in at.cfg.searchable_fields : Says(word, Held(at, f))
      BY <3>1
    <3>3. Append(at.path, f) \in CollectSearchableFields(cfg)
      BY <2>1
    <3> QED
      BY <1>2, <3>2, <3>3
  <2> QED
    BY <2>2, <2>3
<1>6. MatchedTerms(Text(r), doc) = {i \in DOMAIN r.query : SaysWord(r.query[i], cfg, doc)}
  BY <1>3, <1>5
<1> QED
  BY <1>6 DEF cfg
-----------------------------------------------------------------------------
(* Operators: each one's clauses are what it means.                        *)

Scalars == {"str", "int", "float", "bool"}

LEMMA InputFacts ==
    ASSUME NEW table, NEW field
    PROVE  LET input == FieldInput(table, field) IN
           /\ input.ops \subseteq AllOperators /\ input.scalars \subseteq Scalars
           /\ \A op \in input.ops \cap {"contains", "starts_with", "ends_with"} : input.scalars = {"str"}
<1>1. \A name \in DOMAIN OperatorInputs :
         /\ OperatorInputs[name].ops \subseteq AllOperators
         /\ OperatorInputs[name].scalars \subseteq Scalars
         /\ \A op \in OperatorInputs[name].ops \cap {"contains", "starts_with", "ends_with"} :
               OperatorInputs[name].scalars = {"str"}
  BY DEF OperatorInputs, AllOperators, Scalars, STRING_OPERATORS, NUMERIC_OPERATORS, BOOLEAN_OPERATORS
<1>2. \A type : OperatorTypeName(type) \in DOMAIN OperatorInputs
  BY DEF OperatorTypeName, OperatorInputs
<1>3. "StringOperatorsInput" \in DOMAIN OperatorInputs
  BY DEF OperatorInputs
<1>4. \E name \in DOMAIN OperatorInputs : FieldInput(table, field) = OperatorInputs[name]
  BY <1>2, <1>3, Zenon DEF FieldInput
<1> HIDE DEF FieldInput
<1> QED
  BY <1>1, <1>4

\* What can be said of the values of a field.
Gives(values, v) == \E d \in values : ValuesEqual(d, v)
ContainsText(values, s) == \E d \in values : Kind(d) = "str" /\ Occurs(s, d.str)
StartsWith(values, s) == \E d \in values : Kind(d) = "str" /\ IsPrefix(s, d.str)
EndsWith(values, s) == \E d \in values : Kind(d) = "str" /\ IsSuffix(s, d.str)
Resembles(values, s) == \E d \in values : Kind(d) = "str" /\ WildcardMatches(s, d.str)
Reaches(values, op, v) == \E d \in values : IsNumber(d) /\ InRange(op, Number(d), Number(v))

\* At the path of a text there are the texts and no null, list or object, which
\* makes no difference to what is said of scalars.
LEMMA KeywordFacts ==
    ASSUME NEW D, \A d \in D : Kind(d) # "obj"
    PROVE  LET K == Under(D, "keyword") IN
           /\ \A v : Kind(v) \in Scalars => (Gives(K, v) <=> Gives(D, v))
           /\ \A s : StartsWith(K, s) <=> StartsWith(D, s)
           /\ \A s : Resembles(K, s) <=> Resembles(D, s)
           /\ \A op, v : Reaches(K, op, v) <=> Reaches(D, op, v)
<1> DEFINE K == Under(D, "keyword")
           S == {d \in D : Kind(d) \in Scalars}
<1>1. \A d \in D : Member(d, "keyword") = IF Kind(d) \in Scalars THEN d ELSE Missing
  BY DEF Member, Field, Scalars
<1>2. \A d \in S : d # Missing /\ Kind(d) # "arr"
  BY KindFacts DEF Scalars
<1>3. {Member(d, "keyword") : d \in D} \ {Missing} = S
  BY <1>1, <1>2
<1>4. Items(S) = S
  <2> HIDE DEF S
  <2> QED
    BY <1>2, ItemsFacts
<1>5. K = S
  BY <1>3, <1>4, Zenon DEF Under
<1> HIDE DEF K
<1>6. \A d \in D : \A v : Kind(v) \in Scalars /\ ValuesEqual(d, v) => d \in S
  BY DEF ValuesEqual, IsNumber, Scalars
<1>7. \A d \in D : Kind(d) = "str" \/ IsNumber(d) => d \in S
  BY DEF IsNumber, Scalars
<1>8. S \subseteq D
  OBVIOUS
<1> HIDE DEF S
<1> QED
  BY <1>5, <1>6, <1>7, <1>8 DEF Gives, StartsWith, Resembles, Reaches, K

\* What a clause of one field asks of what is there.
LEMMA LeafFacts ==
    ASSUME NEW doc, NEW field
    PROVE  LET D == DocAtPath(doc, field) IN
           /\ \A v : ClauseMatches(Term(field, v), doc) <=> Gives(D, v)
           /\ \A v : ClauseMatches(Not(Term(field, v)), doc) <=> ~Gives(D, v)
           /\ \A vs : ClauseMatches([kind |-> "terms", field |-> field, vals |-> vs], doc)
                         <=> \E v \in vs : Gives(D, v)
           /\ \A s : ClauseMatches([kind |-> "match_phrase", field |-> field, val |-> s], doc)
                         <=> ContainsText(D, s)
           /\ \A s : ClauseMatches([kind |-> "prefix", field |-> field, val |-> s], doc)
                         <=> StartsWith(D, s)
           /\ \A s : ClauseMatches([kind |-> "wildcard", field |-> field, val |-> s], doc)
                         <=> Resembles(D, s)
           /\ \A op, v : ClauseMatches([kind |-> "range", field |-> field, op |-> op, val |-> v], doc)
                         <=> Reaches(D, op, v)
<1> DEFINE D == DocAtPath(doc, field)
<1>0. ASSUME NEW c, c.field = field, c.kind \notin {"bool", "multi_match"}
      PROVE  /\ LeafMatches(c, doc) <=> \E d \in D : ValueMatches(c, d)
             /\ ClauseMatches(c, doc) <=> LeafMatches(c, doc)
             /\ InnerMatches(c, doc) <=> LeafMatches(c, doc)
  BY <1>0 DEF LeafMatches, ClauseMatches, InnerMatches
<1> HIDE DEF D
<1>1. \A v : /\ ClauseMatches(Term(field, v), doc) <=> Gives(D, v)
             /\ InnerMatches(Term(field, v), doc) <=> Gives(D, v)
  <2> SUFFICES ASSUME NEW v
               PROVE  /\ ClauseMatches(Term(field, v), doc) <=> Gives(D, v)
                      /\ InnerMatches(Term(field, v), doc) <=> Gives(D, v)
    OBVIOUS
  <2> DEFINE c == Term(field, v)
  <2>1. c.field = field /\ c.kind = "term" /\ c.val = v
    BY DEF Term
  <2> HIDE DEF c
  <2>2. \A d : ValueMatches(c, d) <=> ValuesEqual(d, v)
    BY <2>1 DEF ValueMatches
  <2>3. /\ LeafMatches(c, doc) <=> \E d \in D : ValueMatches(c, d)
        /\ ClauseMatches(c, doc) <=> LeafMatches(c, doc)
        /\ InnerMatches(c, doc) <=> LeafMatches(c, doc)
    BY <1>0, <2>1
  <2> QED
    BY <2>2, <2>3 DEF c, Gives
<1>2. \A v : ClauseMatches(Not(Term(field, v)), doc) <=> ~Gives(D, v)
  <2> SUFFICES ASSUME NEW v PROVE ClauseMatches(Not(Term(field, v)), doc) <=> ~Gives(D, v)
    OBVIOUS
  <2>1. Not(Term(field, v)).kind = "bool" /\ Not(Term(field, v)).body = [must_not |-> {Term(field, v)}]
    BY DEF Not
  <2> DEFINE body == [must_not |-> {Term(field, v)}]
  <2>2. DOMAIN body = {"must_not"} /\ body["must_not"] = {Term(field, v)}
    OBVIOUS
  <2> HIDE DEF body
  <2>3. ClauseMatches(Not(Term(field, v)), doc) <=> BoolHolds(body, LAMBDA c : InnerMatches(c, doc))
    BY <2>1, Zenon DEF ClauseMatches, body
  <2>4. BoolHolds(body, LAMBDA c : InnerMatches(c, doc)) <=> ~InnerMatches(Term(field, v), doc)
    BY <2>2 DEF BoolHolds
  <2> QED
    BY <1>1, <2>3, <2>4
<1>3. \A vs : ClauseMatches([kind |-> "terms", field |-> field, vals |-> vs], doc)
                 <=> \E v \in vs : Gives(D, v)
  <2> SUFFICES ASSUME NEW vs
               PROVE  ClauseMatches([kind |-> "terms", field |-> field, vals |-> vs], doc)
                         <=> \E v \in vs : Gives(D, v)
    OBVIOUS
  <2> DEFINE c == [kind |-> "terms", field |-> field, vals |-> vs]
  <2>1. c.field = field /\ c.kind = "terms" /\ c.vals = vs
    OBVIOUS
  <2> HIDE DEF c
  <2>2. \A d : ValueMatches(c, d) <=> \E v \in vs : ValuesEqual(d, v)
    BY <2>1 DEF ValueMatches
  <2>3. ClauseMatches(c, doc) <=> \E d \in D : ValueMatches(c, d)
    BY <1>0, <2>1
  <2> QED
    BY <2>2, <2>3 DEF c, Gives
<1>4. \A s : ClauseMatches([kind |-> "match_phrase", field |-> field, val |-> s], doc) <=> ContainsText(D, s)
  <2> SUFFICES ASSUME NEW s
               PROVE  ClauseMatches([kind |-> "match_phrase", field |-> field, val |-> s], doc) <=> ContainsText(D, s)
    OBVIOUS
  <2> DEFINE c == [kind |-> "match_phrase", field |-> field, val |-> s]
  <2>1. c.field = field /\ c.kind = "match_phrase" /\ c.val = s
    OBVIOUS
  <2> HIDE DEF c
  <2>2. \A d : ValueMatches(c, d) <=> Kind(d) = "str" /\ Occurs(s, d.str)
    BY <2>1 DEF ValueMatches
  <2>3. ClauseMatches(c, doc) <=> \E d \in D : ValueMatches(c, d)
    BY <1>0, <2>1
  <2> QED
    BY <2>2, <2>3 DEF c, ContainsText
<1>5. \A s : ClauseMatches([kind |-> "prefix", field |-> field, val |-> s], doc) <=> StartsWith(D, s)
  <2> SUFFICES ASSUME NEW s
               PROVE  ClauseMatches([kind |-> "prefix", field |-> field, val |-> s], doc) <=> StartsWith(D, s)
    OBVIOUS
  <2> DEFINE c == [kind |-> "prefix", field |-> field, val |-> s]
  <2>1. c.field = field /\ c.kind = "prefix" /\ c.val = s
    OBVIOUS
  <2> HIDE DEF c
  <2>2. \A d : ValueMatches(c, d) <=> Kind(d) = "str" /\ IsPrefix(s, d.str)
    BY <2>1 DEF ValueMatches
  <2>3. ClauseMatches(c, doc) <=> \E d \in D : ValueMatches(c, d)
    BY <1>0, <2>1
  <2> QED
    BY <2>2, <2>3 DEF c, StartsWith
<1>6. \A s : ClauseMatches([kind |-> "wildcard", field |-> field, val |-> s], doc) <=> Resembles(D, s)
  <2> SUFFICES ASSUME NEW s
               PROVE  ClauseMatches([kind |-> "wildcard", field |-> field, val |-> s], doc) <=> Resembles(D, s)
    OBVIOUS
  <2> DEFINE c == [kind |-> "wildcard", field |-> field, val |-> s]
  <2>1. c.field = field /\ c.kind = "wildcard" /\ c.val = s
    OBVIOUS
  <2> HIDE DEF c
  <2>2. \A d : ValueMatches(c, d) <=> Kind(d) = "str" /\ WildcardMatches(s, d.str)
    BY <2>1 DEF ValueMatches
  <2>3. ClauseMatches(c, doc) <=> \E d \in D : ValueMatches(c, d)
    BY <1>0, <2>1
  <2> QED
    BY <2>2, <2>3 DEF c, Resembles
<1>7. \A op, v : ClauseMatches([kind |-> "range", field |-> field, op |-> op, val |-> v], doc)
                 <=> Reaches(D, op, v)
  <2> SUFFICES ASSUME NEW op, NEW v
               PROVE  ClauseMatches([kind |-> "range", field |-> field, op |-> op, val |-> v], doc)
                         <=> Reaches(D, op, v)
    OBVIOUS
  <2> DEFINE c == [kind |-> "range", field |-> field, op |-> op, val |-> v]
  <2>1. c.field = field /\ c.kind = "range" /\ c.op = op /\ c.val = v
    OBVIOUS
  <2> HIDE DEF c
  <2>2. \A d : ValueMatches(c, d) <=> IsNumber(d) /\ InRange(op, Number(d), Number(v))
    BY <2>1 DEF ValueMatches
  <2>3. ClauseMatches(c, doc) <=> \E d \in D : ValueMatches(c, d)
    BY <1>0, <2>1
  <2> QED
    BY <2>2, <2>3 DEF c, Reaches
<1> QED
  BY <1>1, <1>2, <1>3, <1>4, <1>5, <1>6, <1>7 DEF D

\* A star before letters is the only one.
LEMMA StarFacts ==
    ASSUME NEW s, s \in Seq(Range(s) \ {"*"}), s # <<>>, NEW text
    PROVE  WildcardMatches(<<"*">> \o s, text) <=> IsSuffix(s, text)
<1> DEFINE n == Len(s)
           U == Range(s) \ {"*"}
           star == "*"
           p == <<star>> \o s
<1>1. n \in Nat /\ n > 0 /\ \A i \in 1..n : s[i] # star
  OBVIOUS
<1>2. /\ p \in Seq(U \cup {star}) /\ Len(p) = n + 1 /\ p[1] = star
      /\ \A i \in 2..(n + 1) : p[i] = s[i - 1]
  <2>1. <<star>> \in Seq(U \cup {star}) /\ s \in Seq(U \cup {star}) /\ Len(<<star>>) = 1 /\ <<star>>[1] = star
    OBVIOUS
  <2> DEFINE o == <<star>>
  <2> HIDE DEF o
  <2>2. o \in Seq(U \cup {star}) /\ Len(o) = 1 /\ o[1] = star /\ p = o \o s
    BY <2>1 DEF o
  <2> HIDE DEF p, star, U
  <2> DEFINE V == U \cup {star}
  <2>3. o \in Seq(V) /\ s \in Seq(V)
    BY <2>1, <2>2
  <2> HIDE DEF V
  <2>4. /\ o \o s \in Seq(V) /\ Len(o \o s) = 1 + n
        /\ \A i \in 1..(1 + n) : (o \o s)[i] = IF i <= 1 THEN o[i] ELSE s[i - 1]
    <3>1. /\ o \o s \in Seq(V) /\ Len(o \o s) = Len(o) + Len(s)
          /\ \A i \in 1 .. Len(o) + Len(s) : (o \o s)[i] = IF i <= Len(o) THEN o[i] ELSE s[i - Len(o)]
      BY <2>3, ConcatProperties, Zenon
    <3>2. Len(o) = 1
      BY <2>2
    <3> DEFINE c == o \o s
    <3>3. /\ c \in Seq(V) /\ Len(c) = 1 + n
          /\ \A i \in 1..(1 + n) : c[i] = IF i <= 1 THEN o[i] ELSE s[i - 1]
      <4> HIDE DEF c
      <4> QED
        BY <3>1, <3>2 DEF c
    <3> QED
      BY <3>3
  <2>5. 1 \in 1..(1 + n) /\ \A i \in 2..(n + 1) : i \in 1..(1 + n) /\ ~(i <= 1)
    BY <1>1
  <2> QED
    BY <1>1, <2>2, <2>4, <2>5 DEF V
<1> HIDE DEF p
<1>3. DOMAIN p = 1..(n + 1)
  BY <1>1, <1>2
<1> DEFINE kept == {i \in DOMAIN p : p[i] # star}
<1>4. kept = 2..(n + 1)
  BY <1>1, <1>2, <1>3
<1>5. Min(kept) = 2 /\ Max(kept) = n + 1
  <2>1. Min(2..(n + 1)) = 2 /\ Max(2..(n + 1)) = n + 1
    BY <1>1 DEF Min, Max
  <2> QED
    BY <1>4, <2>1
<1>6. Needle(p) = SubSeq(p, 2, n + 1)
  <2>1. Needle(p) = IF kept = {} THEN <<>> ELSE SubSeq(p, Min(kept), Max(kept))
    BY DEF Needle, star
  <2>2. kept # {}
    <3> HIDE DEF kept
    <3>1. 2 \in 2..(n + 1)
      BY <1>1
    <3> QED
      BY <1>4, <3>1
  <2> HIDE DEF kept
  <2> QED
    BY <1>5, <2>1, <2>2
<1>7. SubSeq(p, 2, n + 1) = s
  <2> DEFINE q == SubSeq(p, 2, n + 1)
             V == U \cup {star}
  <2>0. s \in Seq(V) /\ p \in Seq(V)
    BY <1>2
  <2> HIDE DEF V
  <2>1. \A i \in 2..(n + 1) : p[i] \in V
    BY <1>1, <1>2, <2>0
  <2>2. q \in Seq(V) /\ Len(q) = n /\ \A i \in 1..n : q[i] = p[2 + i - 1]
    <3>1. 2 <= n + 1 /\ (n + 1) - 2 + 1 = n /\ n + 1 \in Int
      BY <1>1
    <3> QED
      BY <2>1, <3>1, SubSeqProperties
  <2>3. \A i \in 1..n : 2 + i - 1 \in 2..(n + 1) /\ (2 + i - 1) - 1 = i
    BY <1>1
  <2> HIDE DEF q
  <2>4. \A i \in 1..Len(q) : q[i] = s[i]
    BY <1>2, <2>2, <2>3
  <2>5. q = s
    BY <2>0, <2>2, <2>4, SeqEqual
  <2> QED
    BY <2>5 DEF q
<1>8. IsPrefix(<<star>>, p)
  BY <1>1, <1>2 DEF IsPrefix
<1>9. ~IsSuffix(<<star>>, p)
  BY <1>1, <1>2 DEF IsSuffix, IsPrefix, Reverse
<1> QED
  BY <1>6, <1>7, <1>8, <1>9 DEF WildcardMatches, p, star

\* An operator is one of a field's input and has a value its type takes.
Admitted(ops, input) ==
    \A op \in DOMAIN ops : op \in input.ops /\ OperandAccepted(ops[op], op, input.scalars)

LEMMA OperandFacts ==
    ASSUME NEW v, NEW D
    PROVE  /\ OperandMeans("eq", v, D) <=> (Kind(v) = "null" \/ Gives(D, v))
           /\ OperandMeans("ne", v, D) <=> (Kind(v) = "null" \/ ~Gives(D, v))
           /\ OperandMeans("in", v, D) <=>
                 (Kind(v) = "null" \/ (Listed(v) # {} => \E item \in Listed(v) : Gives(D, item)))
           /\ OperandMeans("all", v, D) <=>
                 (Kind(v) = "null" \/ \A item \in Listed(v) : Gives(D, item))
           /\ OperandMeans("contains", v, D) <=>
                 (Kind(v) = "null" \/ (v.str # <<>> => ContainsText(D, v.str)))
           /\ OperandMeans("starts_with", v, D) <=>
                 (Kind(v) = "null" \/ (v.str # <<>> => StartsWith(D, v.str)))
           /\ OperandMeans("ends_with", v, D) <=>
                 (Kind(v) = "null" \/ (v.str # <<>> => EndsWith(D, v.str)))
           /\ \A op \in {"gt", "gte", "lt", "lte"} :
                 OperandMeans(op, v, D) <=> (Kind(v) = "null" \/ (IsNumber(v) => Reaches(D, op, v)))
<1> DEFINE texts == {d.str : d \in {d \in D : Kind(d) = "str"}}
           numbers == {Number(d) : d \in {d \in D : IsNumber(d)}}
           given(item) == \E d \in D : ValuesEqual(d, item)
<1>1. \A item : given(item) <=> Gives(D, item)
  BY DEF Gives
<1>2. /\ \A s : (\E t \in texts : Occurs(s, t)) <=> ContainsText(D, s)
      /\ \A s : (\E t \in texts : IsPrefix(s, t)) <=> StartsWith(D, s)
      /\ \A s : (\E t \in texts : IsSuffix(s, t)) <=> EndsWith(D, s)
  BY DEF ContainsText, StartsWith, EndsWith
<1>3. \A op : (\E n \in numbers : InRange(op, n, Number(v))) <=> Reaches(D, op, v)
  BY DEF Reaches
<1>4. \A op : OperandMeans(op, v, D) <=>
        \/ Kind(v) = "null"
        \/ CASE op = "eq" -> given(v)
             [] op = "ne" -> ~given(v)
             [] op = "in" -> Listed(v) # {} => \E item \in Listed(v) : given(item)
             [] op = "all" -> \A item \in Listed(v) : given(item)
             [] op = "contains" -> v.str # <<>> => \E t \in texts : Occurs(v.str, t)
             [] op = "starts_with" -> v.str # <<>> => \E t \in texts : IsPrefix(v.str, t)
             [] op = "ends_with" -> v.str # <<>> => \E t \in texts : IsSuffix(v.str, t)
             [] OTHER -> IsNumber(v) => \E n \in numbers : InRange(op, n, Number(v))
  BY Zenon DEF OperandMeans
<1> HIDE DEF texts, numbers, given
<1> QED
  BY <1>1, <1>2, <1>3, <1>4

LEMMA OperatorsMean ==
    ASSUME NEW doc, NEW path, path \in Seq(Range(path)),
           \A d \in DocAtPath(doc, path) : Kind(d) # "obj",
           NEW ops, NEW input, Admitted(ops, input),
           input.ops \subseteq AllOperators, input.scalars \subseteq Scalars,
           \A op \in input.ops \cap {"contains", "starts_with", "ends_with"} : input.scalars = {"str"},
           "ends_with" \in DOMAIN ops /\ Kind(ops["ends_with"]) = "str" =>
              ops["ends_with"].str \in Seq(Range(ops["ends_with"].str) \ {"*"})
    PROVE  (\A c \in OperatorClauses(Append(path, "keyword"), ops) : ClauseMatches(c, doc))
              <=> \A op \in DOMAIN ops : OperandMeans(op, ops[op], DocAtPath(doc, path))
<1> DEFINE field == Append(path, "keyword")
           D == DocAtPath(doc, path)
           K == DocAtPath(doc, field)
           Match(c) == ClauseMatches(c, doc)
           Means(op) == op \in DOMAIN ops => OperandMeans(op, ops[op], D)
           given(op, kinds) == {v \in {ops[o] : o \in DOMAIN ops \cap {op}} : Kind(v) \in kinds}
           scalars(op) == given(op, {"str", "int", "float", "bool"})
           texts(op) == {v.str : v \in given(op, {"str"})} \ {<<>>}
           lists(op) == {{v \in Range(list.arr) : Kind(v) \in {"str", "int", "float"}} :
                           list \in given(op, {"arr"})}
           Eq == {Term(field, v) : v \in scalars("eq")}
           Ne == {Not(Term(field, v)) : v \in scalars("ne")}
           In == UNION {AnyOf(field, vs) : vs \in lists("in")}
           All == {Term(field, v) : v \in UNION lists("all")}
           Has == {[kind |-> "match_phrase", field |-> path, val |-> s] : s \in texts("contains")}
           Starts == {[kind |-> "prefix", field |-> field, val |-> s] : s \in texts("starts_with")}
           Ends == {[kind |-> "wildcard", field |-> field, val |-> <<"*">> \o s] : s \in texts("ends_with")}
           ranges(op) == {[kind |-> "range", field |-> field, op |-> op, val |-> v] :
                            v \in given(op, {"int", "float"})}
           Within == UNION {ranges(op) : op \in {"gt", "gte", "lt", "lte"}}
<1>1. Last(field) = "keyword" /\ Front(field) = path /\ K = Under(D, "keyword")
  <2>1. Last(field) = "keyword" /\ Front(field) = path
    BY DocBelow
  <2>2. DocAtPath(doc, Append(path, "keyword")) = Under(DocAtPath(doc, path), "keyword")
    BY DocBelow
  <2> QED
    BY <2>1, <2>2
<1>2. OperatorClauses(field, ops) = UNION {Eq, Ne, In, All, Has, Starts, Ends, Within}
  <2> DEFINE bare == IF Last(field) = "keyword" THEN Front(field) ELSE field
             hasAt(b) == {[kind |-> "match_phrase", field |-> b, val |-> s] : s \in texts("contains")}
  <2>1. bare = path
    BY <1>1
  <2>2. OperatorClauses(field, ops) = UNION {Eq, Ne, In, All, hasAt(bare), Starts, Ends, Within}
    BY Zenon DEF OperatorClauses
  <2>3. Has = hasAt(path)
    OBVIOUS
  <2> HIDE DEF bare, hasAt, Eq, Ne, In, All, Has, Starts, Ends, Within
  <2> QED
    BY <2>1, <2>2, <2>3
<1>3. /\ \A v : Kind(v) \in Scalars => (Gives(K, v) <=> Gives(D, v))
      /\ \A s : StartsWith(K, s) <=> StartsWith(D, s)
      /\ \A s : Resembles(K, s) <=> Resembles(D, s)
      /\ \A op, v : Reaches(K, op, v) <=> Reaches(D, op, v)
  BY <1>1, KeywordFacts
<1>4. ASSUME NEW op, NEW kinds, NEW v
      PROVE  v \in given(op, kinds) <=> op \in DOMAIN ops /\ v = ops[op] /\ Kind(v) \in kinds
  OBVIOUS
<1>5. ASSUME NEW op \in DOMAIN ops
      PROVE  /\ op \in AllOperators
             /\ \/ Kind(ops[op]) = "null"
                \/ /\ op \in ListOperators /\ Kind(ops[op]) = "arr"
                   /\ \A item \in Range(ops[op].arr) : Kind(item) \in Scalars
                \/ op \notin ListOperators /\ Kind(ops[op]) \in Scalars
             /\ op \in {"contains", "starts_with", "ends_with"} => Kind(ops[op]) \in {"null", "str"}
  BY DEF Admitted, OperandAccepted, ListOperators
<1> HIDE DEF given
<1>6. (\A c \in Eq : Match(c)) <=> Means("eq")
  <2>1. (\A c \in Eq : Match(c)) <=> \A v \in scalars("eq") : Gives(K, v)
    BY LeafFacts
  <2>2. \A v \in scalars("eq") : Kind(v) \in Scalars
    BY <1>4 DEF Scalars
  <2>3. CASE "eq" \in DOMAIN ops
    <3>1. Kind(ops["eq"]) = "null" \/ Kind(ops["eq"]) \in Scalars
      BY <1>5, <2>3 DEF ListOperators
    <3> QED
      BY <1>3, <1>4, <2>1, <2>3, <3>1, OperandFacts DEF Scalars
  <2>4. CASE "eq" \notin DOMAIN ops
    BY <1>4, <2>1, <2>4
  <2> QED
    BY <2>3, <2>4
<1>7. (\A c \in Ne : Match(c)) <=> Means("ne")
  <2>1. (\A c \in Ne : Match(c)) <=> \A v \in scalars("ne") : ~Gives(K, v)
    BY LeafFacts
  <2>3. CASE "ne" \in DOMAIN ops
    <3>1. Kind(ops["ne"]) = "null" \/ Kind(ops["ne"]) \in Scalars
      BY <1>5, <2>3 DEF ListOperators
    <3> QED
      BY <1>3, <1>4, <2>1, <2>3, <3>1, OperandFacts DEF Scalars
  <2>4. CASE "ne" \notin DOMAIN ops
    BY <1>4, <2>1, <2>4
  <2> QED
    BY <2>3, <2>4
<1>8. (\A c \in Within : Match(c)) <=> \A op \in {"gt", "gte", "lt", "lte"} : Means(op)
  <2>1. ASSUME NEW op \in {"gt", "gte", "lt", "lte"}
        PROVE  (\A c \in ranges(op) : Match(c)) <=> Means(op)
    <3>1. (\A c \in ranges(op) : Match(c)) <=> \A v \in given(op, {"int", "float"}) : Reaches(K, op, v)
      <4> DEFINE clause(v) == [kind |-> "range", field |-> field, op |-> op, val |-> v]
      <4>1. \A v : Match(clause(v)) <=> Reaches(K, op, v)
        BY LeafFacts
      <4>2. ranges(op) = {clause(v) : v \in given(op, {"int", "float"})}
        OBVIOUS
      <4> HIDE DEF clause, Match, ranges, K
      <4> QED
        BY <4>1, <4>2
    <3>2. CASE op \in DOMAIN ops
      <4>1. OperandMeans(op, ops[op], D) <=>
               (Kind(ops[op]) = "null" \/ (IsNumber(ops[op]) => Reaches(D, op, ops[op])))
        BY OperandFacts
      <4>2. IsNumber(ops[op]) <=> Kind(ops[op]) \in {"int", "float"}
        BY DEF IsNumber
      <4>3. Kind(ops[op]) = "null" => ~IsNumber(ops[op])
        BY DEF IsNumber
      <4> QED
        BY <1>3, <1>4, <3>1, <3>2, <4>1, <4>2, <4>3
    <3>3. CASE op \notin DOMAIN ops
      BY <1>4, <3>1, <3>3
    <3> QED
      BY <3>2, <3>3
  <2> HIDE DEF ranges, Means, Match
  <2> QED
    BY <2>1
<1>9. (\A c \in In : Match(c)) <=> Means("in")
  <2>1. (\A c \in In : Match(c)) <=> \A vs \in lists("in") : vs # {} => \E v \in vs : Gives(K, v)
    <3> DEFINE clause(vs) == [kind |-> "terms", field |-> field, vals |-> vs]
    <3>1. \A vs, c : c \in AnyOf(field, vs) <=> vs # {} /\ c = clause(vs)
      BY DEF AnyOf
    <3>2. \A c : c \in In <=> \E vs \in lists("in") : c \in AnyOf(field, vs)
      BY Zenon
    <3>3. \A vs : Match(clause(vs)) <=> \E v \in vs : Gives(K, v)
      BY LeafFacts
    <3> HIDE DEF In, lists, Match, K, field, clause
    <3>4. (\A c \in In : Match(c)) <=> \A vs \in lists("in") : vs # {} => Match(clause(vs))
      BY <3>1, <3>2
    <3> QED
      BY <3>3, <3>4
  <2>2. \A vs : vs \in lists("in") <=>
            "in" \in DOMAIN ops /\ Kind(ops["in"]) = "arr"
              /\ vs = {v \in Range(ops["in"].arr) : Kind(v) \in {"str", "int", "float"}}
    BY <1>4
  <2>3. CASE "in" \in DOMAIN ops
    <3>1. \/ Kind(ops["in"]) = "null"
          \/ Kind(ops["in"]) = "arr" /\ \A item \in Range(ops["in"].arr) : Kind(item) \in Scalars
      BY <1>5, <2>3 DEF ListOperators
    <3>2. Kind(ops["in"]) = "arr" =>
            Listed(ops["in"]) = {v \in Range(ops["in"].arr) : Kind(v) \in {"str", "int", "float"}}
      BY <3>1 DEF Listed, Scalars
    <3>3. \A v \in Listed(ops["in"]) : Kind(ops["in"]) = "arr" => Kind(v) \in Scalars
      BY <3>2 DEF Scalars
    <3> DEFINE L == Listed(ops["in"])
    <3>4. OperandMeans("in", ops["in"], D) <=> (Kind(ops["in"]) = "null" \/ (L # {} => \E v \in L : Gives(D, v)))
      BY OperandFacts
    <3> HIDE DEF lists, In, L, K, D, Match
    <3>5. CASE Kind(ops["in"]) = "null"
      BY <2>1, <2>2, <3>4, <3>5
    <3>6. CASE Kind(ops["in"]) = "arr" /\ Kind(ops["in"]) # "null"
      <4>1. \A vs : vs \in lists("in") <=> vs = L
        BY <2>2, <2>3, <3>2, <3>6 DEF L
      <4>2. (\A c \in In : Match(c)) <=> (L # {} => \E v \in L : Gives(K, v))
        BY <2>1, <4>1
      <4>3. \A v \in L : Gives(K, v) <=> Gives(D, v)
        BY <1>3, <3>3, <3>6 DEF L
      <4> QED
        BY <3>4, <3>6, <4>2, <4>3, <2>3
    <3> QED
      BY <3>1, <3>5, <3>6
  <2>4. CASE "in" \notin DOMAIN ops
    <3> HIDE DEF lists, In
    <3> QED
      BY <2>1, <2>2, <2>4
  <2> QED
    BY <2>3, <2>4
<1>10. (\A c \in All : Match(c)) <=> Means("all")
  <2>1. (\A c \in All : Match(c)) <=> \A vs \in lists("all") : \A v \in vs : Gives(K, v)
    <3>1. (\A c \in All : Match(c)) <=> \A v \in UNION lists("all") : Gives(K, v)
      <4>1. \A v : Match(Term(field, v)) <=> Gives(K, v)
        BY LeafFacts
      <4> HIDE DEF lists, Match, K, field
      <4> QED
        BY <4>1
    <3> HIDE DEF All, lists
    <3> QED
      BY <3>1
  <2>2. \A vs : vs \in lists("all") <=>
            "all" \in DOMAIN ops /\ Kind(ops["all"]) = "arr"
              /\ vs = {v \in Range(ops["all"].arr) : Kind(v) \in {"str", "int", "float"}}
    BY <1>4
  <2>3. CASE "all" \in DOMAIN ops
    <3>1. \/ Kind(ops["all"]) = "null"
          \/ Kind(ops["all"]) = "arr" /\ \A item \in Range(ops["all"].arr) : Kind(item) \in Scalars
      BY <1>5, <2>3 DEF ListOperators
    <3>2. Kind(ops["all"]) = "arr" =>
            Listed(ops["all"]) = {v \in Range(ops["all"].arr) : Kind(v) \in {"str", "int", "float"}}
      BY <3>1 DEF Listed, Scalars
    <3>3. \A v \in Listed(ops["all"]) : Kind(ops["all"]) = "arr" => Kind(v) \in Scalars
      BY <3>2 DEF Scalars
    <3> DEFINE L == Listed(ops["all"])
    <3>4. OperandMeans("all", ops["all"], D) <=> (Kind(ops["all"]) = "null" \/ (\A v \in L : Gives(D, v)))
      BY OperandFacts
    <3> HIDE DEF lists, All, L, K, D, Match
    <3>5. CASE Kind(ops["all"]) = "null"
      BY <2>1, <2>2, <3>4, <3>5
    <3>6. CASE Kind(ops["all"]) = "arr" /\ Kind(ops["all"]) # "null"
      <4>1. \A vs : vs \in lists("all") <=> vs = L
        BY <2>2, <2>3, <3>2, <3>6 DEF L
      <4>2. (\A c \in All : Match(c)) <=> (\A v \in L : Gives(K, v))
        BY <2>1, <4>1
      <4>3. \A v \in L : Gives(K, v) <=> Gives(D, v)
        BY <1>3, <3>3, <3>6 DEF L
      <4> QED
        BY <3>4, <3>6, <4>2, <4>3, <2>3
    <3> QED
      BY <3>1, <3>5, <3>6
  <2>4. CASE "all" \notin DOMAIN ops
    <3> HIDE DEF lists, All
    <3> QED
      BY <2>1, <2>2, <2>4
  <2> QED
    BY <2>3, <2>4
<1>11. ASSUME NEW op
       PROVE  \A s : s \in texts(op) <=>
                 op \in DOMAIN ops /\ Kind(ops[op]) = "str" /\ s = ops[op].str /\ s # <<>>
  BY <1>4
<1>12. (\A c \in Has : Match(c)) <=> Means("contains")
  <2>1. (\A c \in Has : Match(c)) <=> \A s \in texts("contains") : ContainsText(D, s)
    <3> DEFINE clause(s) == [kind |-> "match_phrase", field |-> path, val |-> s]
    <3>1. \A s : Match(clause(s)) <=> ContainsText(D, s)
      BY LeafFacts
    <3>2. Has = {clause(s) : s \in texts("contains")}
      OBVIOUS
    <3> HIDE DEF texts, clause, Match, Has, D
    <3> QED
      BY <3>1, <3>2
  <2> HIDE DEF texts, Has
  <2>2. "contains" \in DOMAIN ops => Kind(ops["contains"]) \in {"null", "str"}
    BY <1>5
  <2> QED
    BY <1>11, <2>1, <2>2, OperandFacts
<1>13. (\A c \in Starts : Match(c)) <=> Means("starts_with")
  <2>1. (\A c \in Starts : Match(c)) <=> \A s \in texts("starts_with") : StartsWith(K, s)
    <3> DEFINE clause(s) == [kind |-> "prefix", field |-> field, val |-> s]
    <3>1. \A s : Match(clause(s)) <=> StartsWith(K, s)
      BY LeafFacts
    <3>2. Starts = {clause(s) : s \in texts("starts_with")}
      OBVIOUS
    <3> HIDE DEF texts, clause, Match, Starts, K
    <3> QED
      BY <3>1, <3>2
  <2> HIDE DEF texts, Starts
  <2>2. "starts_with" \in DOMAIN ops => Kind(ops["starts_with"]) \in {"null", "str"}
    BY <1>5
  <2>3. OperandMeans("starts_with", ops["starts_with"], D) <=>
           (Kind(ops["starts_with"]) = "null"
              \/ (ops["starts_with"].str # <<>> => StartsWith(D, ops["starts_with"].str)))
    BY OperandFacts
  <2> HIDE DEF K, D, Match
  <2>4. (\A c \in Starts : Match(c)) <=> \A s \in texts("starts_with") : StartsWith(D, s)
    BY <1>3, <2>1
  <2> QED
    BY <1>11, <2>2, <2>3, <2>4
<1>14. (\A c \in Ends : Match(c)) <=> Means("ends_with")
  <2>1. (\A c \in Ends : Match(c)) <=> \A s \in texts("ends_with") : Resembles(K, <<"*">> \o s)
    <3> DEFINE clause(s) == [kind |-> "wildcard", field |-> field, val |-> <<"*">> \o s]
    <3>1. \A s : Match(clause(s)) <=> Resembles(K, <<"*">> \o s)
      BY LeafFacts
    <3>2. Ends = {clause(s) : s \in texts("ends_with")}
      OBVIOUS
    <3> HIDE DEF texts, clause, Match, Ends, K
    <3> QED
      BY <3>1, <3>2
  <2> HIDE DEF texts, Ends
  <2>2. "ends_with" \in DOMAIN ops => Kind(ops["ends_with"]) \in {"null", "str"}
    BY <1>5
  <2>3. \A s \in texts("ends_with") : Resembles(D, <<"*">> \o s) <=> EndsWith(D, s)
    <3>1. \A s \in texts("ends_with") : \A text : WildcardMatches(<<"*">> \o s, text) <=> IsSuffix(s, text)
      BY <1>11, StarFacts
    <3> HIDE DEF D
    <3> QED
      BY <3>1 DEF Resembles, EndsWith
  <2>4. OperandMeans("ends_with", ops["ends_with"], D) <=>
           (Kind(ops["ends_with"]) = "null"
              \/ (ops["ends_with"].str # <<>> => EndsWith(D, ops["ends_with"].str)))
    BY OperandFacts
  <2> HIDE DEF K, D, Match
  <2>5. (\A c \in Ends : Match(c)) <=> \A s \in texts("ends_with") : EndsWith(D, s)
    BY <1>3, <2>1, <2>3
  <2> QED
    BY <1>11, <2>2, <2>4, <2>5
<1> HIDE DEF Eq, Ne, In, All, Has, Starts, Ends, Within, field, Match
<1>15. (\A c \in OperatorClauses(field, ops) : Match(c)) <=>
          /\ \A c \in Eq : Match(c)
          /\ \A c \in Ne : Match(c)
          /\ \A c \in In : Match(c)
          /\ \A c \in All : Match(c)
          /\ \A c \in Has : Match(c)
          /\ \A c \in Starts : Match(c)
          /\ \A c \in Ends : Match(c)
          /\ \A c \in Within : Match(c)
  BY <1>2
<1>16. (\A op \in DOMAIN ops : OperandMeans(op, ops[op], D)) <=>
          \A op \in {"eq", "ne", "in", "all", "contains", "starts_with", "ends_with", "gt", "gte", "lt", "lte"} :
             Means(op)
  BY <1>5 DEF AllOperators, STRING_OPERATORS, NUMERIC_OPERATORS, BOOLEAN_OPERATORS
<1> HIDE DEF Means, D
<1>17. (\A c \in OperatorClauses(field, ops) : Match(c)) <=>
          \A op \in {"eq", "ne", "in", "all", "contains", "starts_with", "ends_with", "gt", "gte", "lt", "lte"} :
             Means(op)
  BY <1>6, <1>7, <1>8, <1>9, <1>10, <1>12, <1>13, <1>14, <1>15
<1> QED
  BY <1>16, <1>17 DEF field, Match, D
-----------------------------------------------------------------------------
(* The filter: its clauses are those of the parts an index has.            *)

LEMMA FieldsBelowFacts ==
    ASSUME NEW fields
    PROVE  /\ \A at \in FieldsBelow(fields) :
                 \E up \in fields : \E key \in Nested(up.obj) : at = FieldAt(up, key)
           /\ \A up \in fields : \A key \in Nested(up.obj) : FieldAt(up, key) \in FieldsBelow(fields)
<1> DEFINE below(up) == {FieldAt(up, key) : key \in Nested(up.obj)}
<1>1. FieldsBelow(fields) = UNION {below(up) : up \in fields}
  BY DEF FieldsBelow
<1>2. \A up : \A at : at \in below(up) <=> \E key \in Nested(up.obj) : at = FieldAt(up, key)
  OBVIOUS
<1> HIDE DEF below
<1>3. \A at : at \in FieldsBelow(fields) <=> \E up \in fields : at \in below(up)
  BY <1>1
<1> QED
  BY <1>2, <1>3

\* What an input type takes is nothing or an object, of fields and not of operators.
LEMMA AcceptedFacts ==
    ASSUME NEW cfg \in Indices \cup Joins, NEW v, InputAccepted(v, cfg)
    PROVE  /\ Kind(v) \in {"null", "obj"} /\ ~HoldsOperators(v)
           /\ Kind(v) = "obj" => \A key \in DOMAIN v.obj :
                 /\ key \notin AllOperators /\ key # "keyword" /\ Field(v, key) = v.obj[key]
                 /\ \/ /\ key \in cfg.searchable_fields
                       /\ OperatorsAccepted(v.obj[key], FieldInput(cfg.table, key))
                       /\ \A jf \in Range(cfg.join_fields) : jf.index_field # key
                    \/ /\ key \notin cfg.searchable_fields
                       /\ \E jf \in Range(cfg.join_fields) : jf.index_field = key
           /\ Kind(v) # "obj" => \A key : Field(v, key) = Missing
<1> DEFINE joins == {jf.index_field : jf \in Range(cfg.join_fields)}
<1>1. /\ cfg.searchable_fields \cap joins = {}
      /\ (cfg.searchable_fields \cup joins) \cap (AllOperators \cup {"keyword"}) = {}
  BY FieldsNamed
<1>2. Kind(v) \in {"null", "obj"}
  BY DEF InputAccepted
<1>3. ASSUME Kind(v) = "obj", NEW key \in DOMAIN v.obj
      PROVE  /\ key \notin AllOperators /\ key # "keyword" /\ Field(v, key) = v.obj[key]
             /\ \/ /\ key \in cfg.searchable_fields
                   /\ OperatorsAccepted(v.obj[key], FieldInput(cfg.table, key))
                   /\ \A jf \in Range(cfg.join_fields) : jf.index_field # key
                \/ /\ key \notin cfg.searchable_fields
                   /\ \E jf \in Range(cfg.join_fields) : jf.index_field = key
  <2>1. \/ key \in cfg.searchable_fields /\ OperatorsAccepted(v.obj[key], FieldInput(cfg.table, key))
        \/ key \in joins
    BY <1>3 DEF InputAccepted
  <2>2. key \notin AllOperators /\ key # "keyword"
    BY <1>1, <2>1
  <2>3. Field(v, key) = v.obj[key]
    BY <1>3 DEF Field
  <2>4. key \in joins <=> \E jf \in Range(cfg.join_fields) : jf.index_field = key
    OBVIOUS
  <2> HIDE DEF joins
  <2> QED
    BY <1>1, <2>1, <2>2, <2>3, <2>4
<1>4. ~HoldsOperators(v)
  BY <1>3 DEF HoldsOperators, IsOperatorObject
<1>5. Kind(v) # "obj" => \A key : Field(v, key) = Missing
  BY DEF Field
<1> QED
  BY <1>2, <1>3, <1>4, <1>5

\* A filter and the parts it has, all of them accepted.
Compiled(v, cfg, part, fields) ==
    /\ cfg \in Indices /\ Leveled(part, v, cfg) /\ Opened(fields, v)
    /\ \A n \in 0..(Depth + 1) : \A p \in part[n] : \A given \in p.val : InputAccepted(given, p.cfg)

\* What a filter has at a join is what its accepted objects have there.
LEMMA GivenFacts ==
    ASSUME NEW v, NEW cfg, NEW part, NEW fields, Compiled(v, cfg, part, fields),
           NEW n \in 0..(Depth + 1), NEW p \in part[n], NEW jf \in Range(p.cfg.join_fields)
    PROVE  \A x : x \in PartAt(p, jf).val
              <=> x # Missing /\ \E given \in p.val : x = Field(given, jf.index_field)
<1>1. p.cfg \in Indices \cup Joins
  <2>1. n \in 0..(Depth + 2)
    BY DepthIsNatural
  <2> QED
    BY <2>1, PartTyped DEF Compiled
<1>2. \A given \in p.val : InputAccepted(given, p.cfg)
  BY DEF Compiled
<1>3. \A given \in p.val : Kind(given) # "arr"
  BY <1>1, <1>2, AcceptedFacts
<1>4. PartAt(p, jf).val = Inside(p.val, jf.index_field)
  BY DEF PartAt
<1> QED
  BY <1>3, <1>4, ItemsFacts

\* A part has an object with these fields.
Gave(p, obj) == \E given \in p.val : Kind(given) = "obj" /\ given.obj = obj

\* What is opened is a part, unless it is empty.
LEMMA FieldsAreParts ==
    ASSUME NEW v, NEW cfg, NEW part, NEW fields, Compiled(v, cfg, part, fields)
    PROVE  \A n \in 0..Depth : \A at \in fields[n] :
              \/ DOMAIN at.obj = {}
              \/ \E p \in part[n] : p.path = at.path /\ Gave(p, at.obj)
<1> DEFINE IsPart(at, n) ==
              \/ DOMAIN at.obj = {}
              \/ \E p \in part[n] : p.path = at.path /\ Gave(p, at.obj)
           T == {n \in Nat : n <= Depth => \A at \in fields[n] : IsPart(at, n)}
<1>0. Depth \in Nat
  BY DepthIsNatural
<1>1. 0 \in T
  <2> SUFFICES ASSUME NEW at \in fields[0] PROVE IsPart(at, 0)
    OBVIOUS
  <2>1. at = [path |-> <<>>, obj |-> v.obj] /\ Kind(v) = "obj"
    BY DEF Compiled, Opened
  <2> DEFINE top == [path |-> <<>>, cfg |-> cfg, val |-> {v}]
  <2>2. top \in part[0]
    BY DEF Compiled, Leveled
  <2>3. top.path = at.path /\ top.val = {v} /\ at.obj = v.obj
    BY <2>1
  <2> HIDE DEF top
  <2> QED
    BY <2>1, <2>2, <2>3 DEF Gave
<1>2. ASSUME NEW n \in Nat, n < Depth, n \in T PROVE n + 1 \in T
  <2>1. n \in 0..(Depth - 1) /\ n \in 0..(Depth + 1) /\ n + 1 \in 0..(Depth + 1) /\ n \in 0..(Depth + 2)
    BY <1>0, <1>2
  <2>a. \A up \in fields[n] : IsPart(up, n)
    <3> HIDE DEF IsPart
    <3> QED
      BY <1>0, <1>2
  <2>2. ASSUME NEW at \in fields[n + 1] PROVE IsPart(at, n + 1)
    <3>1. PICK up \in fields[n] : \E key \in Nested(up.obj) : at = FieldAt(up, key)
      BY <2>1, FieldsBelowFacts DEF Compiled, Opened
    <3>2. PICK key \in Nested(up.obj) : at = FieldAt(up, key)
      BY <3>1
    <3>3. at.path = Append(up.path, key) /\ at.obj = up.obj[key].obj
      BY <3>2 DEF FieldAt
    <3>4. key \in DOMAIN up.obj /\ Kind(up.obj[key]) = "obj" /\ ~HoldsOperators(up.obj[key])
      BY DEF Nested
    <3>5. PICK p \in part[n] : p.path = up.path /\ Gave(p, up.obj)
      BY <2>a, <3>4
    <3>6. PICK given \in p.val : Kind(given) = "obj" /\ given.obj = up.obj
      BY <3>5 DEF Gave
    <3>7. p.cfg \in Indices \cup Joins /\ InputAccepted(given, p.cfg)
      BY <2>1, PartTyped DEF Compiled
    <3>8. CASE key \in p.cfg.searchable_fields
      <4>1. OperatorsAccepted(up.obj[key], FieldInput(p.cfg.table, key))
        BY <3>4, <3>6, <3>7, <3>8, AcceptedFacts
      <4>2. DOMAIN up.obj[key].obj \subseteq AllOperators
        BY <3>4, <4>1, InputFacts DEF OperatorsAccepted
      <4>3. DOMAIN up.obj[key].obj \cap AllOperators = {}
        BY <3>4 DEF HoldsOperators, IsOperatorObject
      <4> QED
        BY <3>3, <4>2, <4>3
    <3>9. CASE key \notin p.cfg.searchable_fields
      <4>1. Field(given, key) = up.obj[key] /\ up.obj[key] # Missing
        BY <3>4, <3>6, <3>7, AcceptedFacts, KindFacts
      <4>2. PICK jf \in Range(p.cfg.join_fields) : jf.index_field = key
        BY <3>4, <3>6, <3>7, <3>9, AcceptedFacts
      <4>3. PartAt(p, jf) \in part[n + 1]
        BY <2>1, PartsBelowFacts DEF Compiled, Leveled
      <4>4. up.obj[key] \in PartAt(p, jf).val
        BY <2>1, <4>1, <4>2, GivenFacts
      <4>5. PartAt(p, jf).path = at.path
        BY <3>3, <3>5, <4>2 DEF PartAt
      <4> QED
        BY <3>3, <3>4, <4>3, <4>4, <4>5 DEF Gave
    <3> QED
      BY <3>8, <3>9
  <2> HIDE DEF IsPart
  <2> QED
    BY <2>2
<1>3. \A n \in 0..Depth : n \in T
  <2> HIDE DEF T
  <2> QED
    BY <1>0, <1>1, <1>2, EveryLevel
<1> QED
  BY <1>0, <1>3

\* What a part holds is opened.
LEMMA PartsAreFields ==
    ASSUME NEW v, NEW cfg, NEW part, NEW fields, Compiled(v, cfg, part, fields)
    PROVE  \A n \in 0..Depth : \A p \in part[n] : \A given \in p.val :
              Kind(given) = "obj" => \E at \in fields[n] : at.path = p.path /\ at.obj = given.obj
<1> DEFINE IsOpened(p, n) == \A given \in p.val :
              Kind(given) = "obj" => \E at \in fields[n] : at.path = p.path /\ at.obj = given.obj
           T == {n \in Nat : n <= Depth => \A p \in part[n] : IsOpened(p, n)}
<1>0. Depth \in Nat
  BY DepthIsNatural
<1>1. 0 \in T
  <2> SUFFICES ASSUME NEW p \in part[0], NEW given \in p.val, Kind(given) = "obj"
               PROVE  \E at \in fields[0] : at.path = p.path /\ at.obj = given.obj
    OBVIOUS
  <2>1. p = [path |-> <<>>, cfg |-> cfg, val |-> {v}]
    BY DEF Compiled, Leveled
  <2>2. p.path = <<>> /\ given = v
    BY <2>1
  <2> DEFINE top == [path |-> <<>>, obj |-> v.obj]
  <2>3. top \in fields[0]
    BY <2>2 DEF Compiled, Opened
  <2>4. top.path = p.path /\ top.obj = given.obj
    BY <2>2
  <2> HIDE DEF top
  <2> QED
    BY <2>3, <2>4
<1>2. ASSUME NEW n \in Nat, n < Depth, n \in T PROVE n + 1 \in T
  <2>1. n \in 0..(Depth - 1) /\ n \in 0..(Depth + 1) /\ n + 1 \in 0..(Depth + 1) /\ n \in 0..(Depth + 2)
        /\ n + 1 \in 0..(Depth + 2)
    BY <1>0, <1>2
  <2>a. \A up \in part[n] : IsOpened(up, n)
    <3> HIDE DEF IsOpened
    <3> QED
      BY <1>0, <1>2
  <2>2. ASSUME NEW p \in part[n + 1], NEW given \in p.val, Kind(given) = "obj"
        PROVE  \E at \in fields[n + 1] : at.path = p.path /\ at.obj = given.obj
    <3>1. PICK up \in part[n] : \E jf \in Range(up.cfg.join_fields) : p = PartAt(up, jf)
      BY <2>1, PartsBelowFacts DEF Compiled, Leveled
    <3>2. PICK jf \in Range(up.cfg.join_fields) : p = PartAt(up, jf)
      BY <3>1
    <3> DEFINE key == jf.index_field
    <3>3. p.path = Append(up.path, key)
      BY <3>2 DEF PartAt
    <3>4. PICK above \in up.val : given = Field(above, key)
      BY <2>1, <3>2, GivenFacts
    <3>5. up.cfg \in Indices \cup Joins /\ InputAccepted(above, up.cfg)
      BY <2>1, PartTyped DEF Compiled
    <3>6. Kind(above) = "obj" /\ key \in DOMAIN above.obj /\ above.obj[key] = given
      BY <2>2, <3>4, KindFacts DEF Field
    <3>7. ~HoldsOperators(given)
      <4>1. p.cfg \in Indices \cup Joins /\ InputAccepted(given, p.cfg)
        BY <2>1, PartTyped DEF Compiled
      <4> QED
        BY <4>1, AcceptedFacts
    <3>8. PICK at \in fields[n] : at.path = up.path /\ at.obj = above.obj
      BY <2>a, <3>6
    <3>9. key \in Nested(at.obj)
      BY <2>2, <3>6, <3>7, <3>8 DEF Nested
    <3> HIDE DEF key
    <3>10. FieldAt(at, key) \in fields[n + 1]
      BY <2>1, <3>9, FieldsBelowFacts DEF Compiled, Opened
    <3>11. FieldAt(at, key).path = p.path /\ FieldAt(at, key).obj = given.obj
      BY <3>3, <3>6, <3>8 DEF FieldAt
    <3> QED
      BY <3>10, <3>11
  <2>3. \A p \in part[n + 1] : IsOpened(p, n + 1)
    BY <2>2
  <2> HIDE DEF IsOpened
  <2> QED
    BY <2>3
<1>3. \A n \in 0..Depth : n \in T
  <2> HIDE DEF T
  <2> QED
    BY <1>0, <1>1, <1>2, EveryLevel
<1> QED
  BY <1>0, <1>3
-----------------------------------------------------------------------------
(* The filter: its clauses are what it means.                              *)

\* What holds no operator, and is no scalar, has none.
LEMMA NoClauses ==
    ASSUME NEW path, NEW child, Kind(child) \in {"null", "missing", "obj"}, ~HoldsOperators(child)
    PROVE  ChildClauses(path, child) = {}
<1>1. ~IsNumber(child) /\ Kind(child) # "str"
  BY DEF IsNumber
<1> QED
  BY <1>1 DEF ChildClauses

\* An object of operators has their clauses.
LEMMA ClausesOfOperators ==
    ASSUME NEW path, NEW child, HoldsOperators(child)
    PROVE  ChildClauses(path, child) = OperatorClauses(StringFieldPath(path), child.obj)
<1> DEFINE operators == OperatorClauses(StringFieldPath(path), child.obj)
<1>1. Kind(child) = "obj"
  BY DEF HoldsOperators
<1>2. ~IsNumber(child) /\ Kind(child) # "str"
  BY <1>1 DEF IsNumber
<1>3. ChildClauses(path, child) =
         CASE HoldsOperators(child) -> operators
           [] IsNumber(child) \/ (Kind(child) = "str" /\ child.str # <<>>) -> {Term(path, child)}
           [] OTHER -> {}
  BY DEF ChildClauses
<1> HIDE DEF operators
<1> QED
  BY <1>2, <1>3 DEF operators

\* The clauses of a field are what its operators mean.
LEMMA FieldMeans ==
    ASSUME NEW r \in Requests, NEW i \in DOMAIN Docs, NEW part, NEW fields,
           Compiled(r.filter, r.index, part, fields),
           \A depth : Parts(r.filter, r.index, depth) = UNION {part[n] : n \in 0..depth},
           NEW node, Leveled(node, Docs[i], r.index),
           \A depth : Parts(Docs[i], r.index, depth) = UNION {node[n] : n \in 0..depth},
           NEW n \in 0..Depth, NEW p \in part[n], NEW q \in node[n], p.path = q.path,
           NEW f \in q.cfg.searchable_fields, NEW given \in p.val, Kind(Field(given, f)) = "obj"
    PROVE  (\A c \in ChildClauses(Append(p.path, f), Field(given, f)) : ClauseMatches(c, Docs[i]))
              <=> \A op \in DOMAIN Field(given, f).obj :
                     OperandMeans(op, Field(given, f).obj[op], Held(q, f))
<1> DEFINE doc == Docs[i]
           child == Field(given, f)
           input == FieldInput(p.cfg.table, f)
           path == Append(p.path, f)
<1>1. /\ Depth \in Nat /\ n \in 0..(Depth + 1) /\ n \in 0..(Depth + 2)
      /\ r.index \in Indices
  BY DepthIsNatural DEF Compiled
<1>2. p.cfg = q.cfg /\ p.cfg \in Indices \cup Joins /\ InputAccepted(given, p.cfg)
  <2>1. Leveled(part, r.filter, r.index) /\ InputAccepted(given, p.cfg)
    BY <1>1 DEF Compiled
  <2>2. SameWays(part[n], node[n])
    BY <1>1, <2>1, WaysAgree
  <2>3. p.cfg = q.cfg
    BY <2>2 DEF SameWays
  <2>4. p.cfg \in Indices \cup Joins
    BY <1>1, <2>1, PartTyped
  <2> QED
    BY <2>1, <2>3, <2>4
<1>3. p.path \in Seq(Range(p.path))
  BY <1>1, PartTyped DEF Compiled
<1>4. /\ path \in Seq(Range(path)) /\ Last(path) = f
      /\ DocAtPath(doc, path) = Held(q, f)
  <2>1. path \in Seq(Range(path)) /\ Last(path) = f
    BY <1>3, DocBelow
  <2> DEFINE cfg == r.index
  <2>2. cfg \in Indices /\ Leveled(node, doc, cfg) /\ n \in 0..(Depth + 2)
    BY <1>1
  <2> HIDE DEF doc, cfg
  <2>3. DocAtPath(doc, Append(q.path, f)) = Held(q, f)
    BY <2>2, FieldIsAtPath
  <2> QED
    BY <2>1, <2>3
<1>5. Kind(given) = "obj" /\ f \in DOMAIN given.obj /\ child = given.obj[f]
  <2>1. Kind(Missing) # "obj"
    BY KindFacts
  <2> QED
    BY <2>1 DEF Field
<1>6. f # "keyword" /\ OperatorsAccepted(child, input)
  BY <1>2, <1>5, AcceptedFacts
<1>7. Admitted(child.obj, input)
  BY <1>6 DEF OperatorsAccepted, Admitted
<1>8. /\ input.ops \subseteq AllOperators /\ input.scalars \subseteq Scalars
      /\ \A op \in input.ops \cap {"contains", "starts_with", "ends_with"} : input.scalars = {"str"}
  BY InputFacts
<1>9. p \in Parts(r.filter, r.index, Depth) /\ q \in Parts(doc, r.index, Depth)
  OBVIOUS
<1>10. \A d \in DocAtPath(doc, path) : Kind(d) # "obj"
  BY <1>1, <1>4, <1>9, FieldsPlain
<1>11. "ends_with" \in DOMAIN child.obj /\ Kind(child.obj["ends_with"]) = "str" =>
          child.obj["ends_with"].str \in Seq(Range(child.obj["ends_with"].str) \ {"*"})
  <2> SUFFICES ASSUME "ends_with" \in DOMAIN child.obj, Kind(child.obj["ends_with"]) = "str"
               PROVE  child.obj["ends_with"].str \in Seq(Range(child.obj["ends_with"].str) \ {"*"})
    OBVIOUS
  <2>1. f \in p.cfg.searchable_fields
    BY <1>2
  <2> DEFINE text == Field(child, "ends_with")
  <2>2. Kind(text) = "str" => text.str \in Seq(Range(text.str) \ {"*"})
    BY <1>9, <2>1, TextsHaveNoStar
  <2>3. text = child.obj["ends_with"]
    BY DEF Field
  <2> HIDE DEF text, child
  <2> QED
    BY <2>2, <2>3
<1> HIDE DEF child, input, path, doc
<1>12. CASE ~HoldsOperators(child)
  <2>1. DOMAIN child.obj \cap AllOperators = {}
    BY <1>12 DEF HoldsOperators, IsOperatorObject, child
  <2>2. DOMAIN child.obj = {}
    BY <1>7, <1>8, <2>1 DEF Admitted
  <2>3. ChildClauses(path, child) = {}
    BY <1>12, NoClauses DEF child
  <2> QED
    BY <2>2, <2>3 DEF child, path
<1>13. CASE HoldsOperators(child)
  <2>1. ChildClauses(path, child) = OperatorClauses(StringFieldPath(path), child.obj)
    BY <1>13, ClausesOfOperators
  <2>2. StringFieldPath(path) = Append(path, "keyword")
    BY <1>4, <1>6 DEF StringFieldPath
  <2>3. (\A c \in OperatorClauses(Append(path, "keyword"), child.obj) : ClauseMatches(c, doc))
           <=> \A op \in DOMAIN child.obj : OperandMeans(op, child.obj[op], DocAtPath(doc, path))
    BY <1>4, <1>7, <1>8, <1>10, <1>11, OperatorsMean
  <2> QED
    BY <1>4, <2>1, <2>2, <2>3 DEF child, path, doc
<1> QED
  BY <1>12, <1>13

LEMMA PathLength ==
    ASSUME NEW v, NEW cfg \in Indices, NEW part, Leveled(part, v, cfg),
           NEW n \in 0..(Depth + 2), NEW p \in part[n]
    PROVE  Len(p.path) = n
  BY PartTyped

\* A document matches the clauses of a filter if it is what the filter means.
LEMMA FilterCompiles ==
    ASSUME NEW r \in Requests, NEW i \in DOMAIN Docs, FilterAccepted(r.filter, r.index)
    PROVE  (\A c \in BuildEsFilter(r.filter) : ClauseMatches(c, Docs[i]))
              <=> FilterMeans(r.filter, r.index, Docs[i])
<1> DEFINE v == r.filter
           cfg == r.index
           doc == Docs[i]
           Match(c) == ClauseMatches(c, doc)
           Holds(p, q) == \A f \in q.cfg.searchable_fields : \A given \in p.val :
                             Kind(Field(given, f)) = "obj" =>
                                \A op \in DOMAIN Field(given, f).obj :
                                   OperandMeans(op, Field(given, f).obj[op], Held(q, f))
<1>1. PICK part : /\ Leveled(part, v, cfg)
                  /\ \A depth : Parts(v, cfg, depth) = UNION {part[n] : n \in 0..depth}
  BY PartsFacts
<1>2. PICK node : /\ Leveled(node, doc, cfg)
                  /\ \A depth : Parts(doc, cfg, depth) = UNION {node[n] : n \in 0..depth}
  BY PartsFacts
<1>3. PICK fields :
         /\ Opened(fields, v)
         /\ BuildEsFilter(v) =
               UNION {UNION {ChildClauses(Append(at.path, key), at.obj[key]) : key \in DOMAIN at.obj} :
                         at \in UNION {fields[n] : n \in 0..Depth}}
  BY FilterFacts
<1>4. cfg \in Indices
  BY DEF Indices
<1>5. Compiled(v, cfg, part, fields)
  <2>1. \A n \in 0..(Depth + 1) : \A p \in part[n] : p \in Parts(v, cfg, Depth + 1)
    BY <1>1
  <2> QED
    BY <1>1, <1>3, <1>4, <2>1 DEF FilterAccepted, Compiled
<1>6. Depth \in Nat
  BY DepthIsNatural
<1>7. FilterMeans(v, cfg, doc) <=>
         \A p \in Parts(v, cfg, Depth), q \in Parts(doc, cfg, Depth) : p.path = q.path => Holds(p, q)
  BY Zenon DEF FilterMeans
<1>8. \A c : c \in BuildEsFilter(v) <=>
         \E n \in 0..Depth : \E at \in fields[n] : \E key \in DOMAIN at.obj :
            c \in ChildClauses(Append(at.path, key), at.obj[key])
  <2> DEFINE own(at) == UNION {ChildClauses(Append(at.path, key), at.obj[key]) : key \in DOMAIN at.obj}
  <2>1. \A at, c : c \in own(at) <=> \E key \in DOMAIN at.obj : c \in ChildClauses(Append(at.path, key), at.obj[key])
    BY Zenon
  <2>2. BuildEsFilter(v) = UNION {own(at) : at \in UNION {fields[n] : n \in 0..Depth}}
    BY <1>3
  <2> HIDE DEF own
  <2>3. \A c : c \in BuildEsFilter(v) <=> \E at \in UNION {fields[n] : n \in 0..Depth} : c \in own(at)
    BY <2>2
  <2>4. \A at : at \in UNION {fields[n] : n \in 0..Depth} <=> \E n \in 0..Depth : at \in fields[n]
    BY Zenon
  <2> QED
    BY <2>1, <2>3, <2>4
<1> HIDE DEF Match, Holds, v, cfg, doc
<1>9. ASSUME NEW n \in 0..Depth, NEW p \in part[n], NEW q \in node[n], p.path = q.path,
             NEW f \in q.cfg.searchable_fields, NEW given \in p.val, Kind(Field(given, f)) = "obj"
      PROVE  (\A c \in ChildClauses(Append(p.path, f), Field(given, f)) : Match(c))
                <=> \A op \in DOMAIN Field(given, f).obj :
                       OperandMeans(op, Field(given, f).obj[op], Held(q, f))
  BY <1>1, <1>2, <1>5, <1>9, FieldMeans DEF Match, v, cfg, doc
<1>10. ASSUME \A c \in BuildEsFilter(v) : Match(c)
       PROVE  FilterMeans(v, cfg, doc)
  <2> SUFFICES ASSUME NEW p \in Parts(v, cfg, Depth), NEW q \in Parts(doc, cfg, Depth), p.path = q.path,
                      NEW f \in q.cfg.searchable_fields, NEW given \in p.val, Kind(Field(given, f)) = "obj"
               PROVE  \A op \in DOMAIN Field(given, f).obj :
                         OperandMeans(op, Field(given, f).obj[op], Held(q, f))
    BY <1>7 DEF Holds
  <2>1. PICK n \in 0..Depth : p \in part[n]
    BY <1>1
  <2>2. PICK m \in 0..Depth : q \in node[m]
    BY <1>2
  <2>3. m = n
    <3>1. n \in 0..(Depth + 2) /\ m \in 0..(Depth + 2)
      BY <1>6
    <3>2. Len(p.path) = n
      <4>1. Leveled(part, v, cfg) /\ p \in part[n]
        BY <1>1, <2>1
      <4> QED
        BY <1>4, <3>1, <4>1, PathLength
    <3>3. Len(q.path) = m
      <4>1. Leveled(node, doc, cfg) /\ q \in node[m]
        BY <1>2, <2>2
      <4> QED
        BY <1>4, <3>1, <4>1, PathLength
    <3> QED
      BY <3>2, <3>3
  <2>4. Kind(given) = "obj" /\ f \in DOMAIN given.obj /\ Field(given, f) = given.obj[f]
    <3>1. Kind(Missing) # "obj"
      BY KindFacts
    <3> QED
      BY <3>1 DEF Field
  <2>5. PICK at \in fields[n] : at.path = p.path /\ at.obj = given.obj
    BY <1>5, <2>1, <2>4, PartsAreFields
  <2>6. \A c \in ChildClauses(Append(p.path, f), Field(given, f)) : c \in BuildEsFilter(v)
    BY <1>8, <2>4, <2>5
  <2> QED
    BY <1>9, <1>10, <2>1, <2>2, <2>3, <2>6
<1>11. ASSUME FilterMeans(v, cfg, doc)
       PROVE  \A c \in BuildEsFilter(v) : Match(c)
  <2> SUFFICES ASSUME NEW n \in 0..Depth, NEW at \in fields[n], NEW key \in DOMAIN at.obj,
                      NEW c \in ChildClauses(Append(at.path, key), at.obj[key])
               PROVE  Match(c)
    BY <1>8
  <2>0. PICK p \in part[n] : p.path = at.path /\ Gave(p, at.obj)
    BY <1>5, FieldsAreParts
  <2>1. PICK given \in p.val : p.path = at.path /\ Kind(given) = "obj" /\ given.obj = at.obj
    BY <2>0 DEF Gave
  <2>2. n \in 0..(Depth + 2) /\ n \in 0..(Depth + 1) /\ n + 1 \in 0..(Depth + 1) /\ n + 1 \in 0..(Depth + 2)
    BY <1>6
  <2>3. SameWays(part[n], node[n])
    BY <1>1, <1>2, <1>4, <2>2, WaysAgree
  <2>4. PICK q \in node[n] : q.path = p.path
    BY <2>3 DEF SameWays
  <2>5. p.cfg = q.cfg /\ p.cfg \in Indices \cup Joins /\ InputAccepted(given, p.cfg)
    <3>1. p.cfg = q.cfg
      BY <2>3, <2>4 DEF SameWays
    <3>2. p.cfg \in Indices \cup Joins
      BY <1>1, <1>4, <2>2, PartTyped
    <3>3. InputAccepted(given, p.cfg)
      BY <1>5, <2>2 DEF Compiled
    <3> QED
      BY <3>1, <3>2, <3>3
  <2>6. Field(given, key) = at.obj[key]
    BY <2>1, <2>5, AcceptedFacts
  <2>7. CASE key \in p.cfg.searchable_fields
    <3>1. Kind(at.obj[key]) \in {"null", "obj"}
      <4>1. OperatorsAccepted(at.obj[key], FieldInput(p.cfg.table, key))
        BY <2>1, <2>5, <2>7, AcceptedFacts
      <4> QED
        BY <4>1 DEF OperatorsAccepted
    <3>2. CASE Kind(at.obj[key]) = "null"
      <4>1. ChildClauses(Append(at.path, key), at.obj[key]) = {}
        BY <3>2, NoClauses DEF HoldsOperators
      <4> QED
        BY <4>1
    <3>3. CASE Kind(at.obj[key]) = "obj"
      <4>1. p \in Parts(v, cfg, Depth) /\ q \in Parts(doc, cfg, Depth)
        BY <1>1, <1>2
      <4>2. Holds(p, q)
        BY <1>7, <1>11, <2>4, <4>1
      <4>3. key \in q.cfg.searchable_fields /\ Kind(Field(given, key)) = "obj"
        BY <2>5, <2>6, <2>7, <3>3
      <4>4. \A op \in DOMAIN Field(given, key).obj :
               OperandMeans(op, Field(given, key).obj[op], Held(q, key))
        BY <4>2, <4>3 DEF Holds
      <4>5. \A x \in ChildClauses(Append(p.path, key), Field(given, key)) : Match(x)
        BY <1>9, <2>4, <4>3, <4>4
      <4> QED
        BY <2>1, <2>6, <4>5
    <3> QED
      BY <3>1, <3>2, <3>3
  <2>8. CASE key \notin p.cfg.searchable_fields
    <3>1. PICK jf \in Range(p.cfg.join_fields) : jf.index_field = key
      BY <2>1, <2>5, <2>8, AcceptedFacts
    <3>2. PartAt(p, jf) \in part[n + 1]
      <4>1. part[n + 1] = PartsBelow(part[n])
        BY <1>1, <2>2 DEF Leveled
      <4> QED
        BY <3>1, <4>1, PartsBelowFacts
    <3>3. at.obj[key] # Missing => at.obj[key] \in PartAt(p, jf).val
      BY <1>5, <2>2, <2>6, <3>1, GivenFacts
    <3>4. Kind(at.obj[key]) \in {"null", "missing", "obj"} /\ ~HoldsOperators(at.obj[key])
      <4>1. CASE at.obj[key] = Missing
        BY <4>1, KindFacts DEF HoldsOperators
      <4>2. CASE at.obj[key] # Missing
        <5>1. PartAt(p, jf).cfg \in Indices \cup Joins /\ InputAccepted(at.obj[key], PartAt(p, jf).cfg)
          BY <1>4, <1>5, <2>2, <3>2, <3>3, <4>2, PartTyped DEF Compiled
        <5> QED
          BY <5>1, AcceptedFacts
      <4> QED
        BY <4>1, <4>2
    <3>5. ChildClauses(Append(at.path, key), at.obj[key]) = {}
      BY <3>4, NoClauses
    <3> QED
      BY <3>5
  <2> QED
    BY <2>7, <2>8
<1> QED
  BY <1>10, <1>11 DEF Match, v, cfg, doc
-----------------------------------------------------------------------------
(* The hits are what the request means.                                    *)

\* A document matches the body if it matches its clauses, and its words.
LEMMA BodyHolds ==
    ASSUME NEW r, NEW doc
    PROVE  BoolMatches(BoolBody(r), doc)
              <=> /\ \A c \in Must(r) : ClauseMatches(c, doc)
                  /\ Worded(r) => MultiMatches(Text(r), doc)
<1> DEFINE body == BoolBody(r)
<1>1. /\ DOMAIN body = IF Worded(r) THEN {"must", "should"} ELSE {"must"}
      /\ body["must"] = Must(r)
      /\ Worded(r) => body["should"] = {Text(r)}
  BY BodyFacts
<1>2. ClauseMatches(Text(r), doc) <=> MultiMatches(Text(r), doc)
  <2>1. Text(r).kind = "multi_match"
    BY DEF Text
  <2> QED
    BY <2>1 DEF ClauseMatches, LeafMatches
<1> HIDE DEF body
<1>3. BoolMatches(body, doc)
         <=> /\ "must" \in DOMAIN body => \A c \in body["must"] : ClauseMatches(c, doc)
             /\ "must_not" \in DOMAIN body => \E c \in body["must_not"] : ~ClauseMatches(c, doc)
             /\ "should" \in DOMAIN body => \E c \in body["should"] : ClauseMatches(c, doc)
  BY DEF BoolMatches, BoolHolds
<1>4. CASE Worded(r)
  <2>1. DOMAIN body = {"must", "should"} /\ body["should"] = {Text(r)}
    BY <1>1, <1>4
  <2>2. (\E c \in body["should"] : ClauseMatches(c, doc)) <=> ClauseMatches(Text(r), doc)
    BY <2>1
  <2> QED
    BY <1>1, <1>2, <1>3, <1>4, <2>1, <2>2 DEF body
<1>5. CASE ~Worded(r)
  <2>1. DOMAIN body = {"must"}
    BY <1>1, <1>5
  <2> QED
    BY <1>1, <1>3, <1>5, <2>1 DEF body
<1> QED
  BY <1>4, <1>5

\* The words of a request are found as they are asked for.
LEMMA WordsCounted ==
    ASSUME NEW r \in Requests, NEW doc, Worded(r)
    PROVE  /\ Relevance(r, doc) = Cardinality(MatchedTerms(Text(r), doc))
           /\ MultiMatches(Text(r), doc)
                 <=> IF r.queryOperator = "AND" THEN Relevance(r, doc) = Len(r.query)
                     ELSE Relevance(r, doc) > 0
<1> DEFINE found0 == MatchedTerms(Text(r), doc)
           all == DOMAIN r.query
<1>1. Relevance(r, doc) = Cardinality(found0)
  BY WordsMean DEF Relevance, Worded
<1>2. /\ found0 \subseteq all /\ IsFiniteSet(all) /\ Cardinality(all) = Len(r.query)
      /\ IsFiniteSet(found0) /\ Cardinality(found0) \in Nat
  BY TermsFacts
<1>3. all # {} /\ Len(r.query) \in Nat /\ Len(r.query) # 0
  <2>1. r.query # <<>> /\ r.query \in Seq(Range(r.query))
    BY SearchTyped DEF Worded
  <2>2. Len(r.query) # 0
    BY <2>1, EmptySeq
  <2>3. DOMAIN r.query = 1..Len(r.query) /\ Len(r.query) \in Nat
    BY TermsFacts
  <2>4. 1 \in all
    BY <2>2, <2>3
  <2> QED
    BY <2>2, <2>3, <2>4
<1>4. Text(r).query = r.query /\ (Text(r).operator = "and" <=> r.queryOperator = "AND")
  BY DEF Text
<1> HIDE DEF found0, all
<1>5. MultiMatches(Text(r), doc) <=> found0 # {} /\ (r.queryOperator = "AND" => found0 = all)
  BY <1>4 DEF MultiMatches, found0, all
<1>6. found0 # {} <=> Cardinality(found0) > 0
  BY <1>2, FS_EmptySet
<1>7. found0 = all <=> Cardinality(found0) = Len(r.query)
  BY <1>2, FS_Subset
<1> QED
  BY <1>1, <1>2, <1>3, <1>5, <1>6, <1>7 DEF found0

LEMMA BodyMeansRequest ==
    ASSUME NEW r \in Requests, ~Refused(r), NEW i \in DOMAIN Docs
    PROVE  BodyMeans(r, Docs[i])
<1> DEFINE doc == Docs[i]
<1>1. BoolMatches(BoolBody(r), doc)
         <=> /\ \A c \in Must(r) : ClauseMatches(c, doc)
             /\ Worded(r) => MultiMatches(Text(r), doc)
  BY BodyHolds
<1>2. FilterAccepted(r.filter, r.index)
  BY DEF Refused
<1>3. (\A c \in BuildEsFilter(r.filter) : ClauseMatches(c, doc)) <=> FilterMeans(r.filter, r.index, doc)
  BY <1>2, FilterCompiles
<1>4. Worded(r) =>
         /\ Relevance(r, doc) = Cardinality(MatchedTerms(Text(r), doc))
         /\ MultiMatches(Text(r), doc)
               <=> IF r.queryOperator = "AND" THEN Relevance(r, doc) = Len(r.query)
                   ELSE Relevance(r, doc) > 0
  BY WordsCounted
<1>5. Score(BoolBody(r), doc) = IF Worded(r) THEN Cardinality(MatchedTerms(Text(r), doc)) ELSE 0
  BY ScoreFacts
<1> HIDE DEF doc
<1>6. Score(BoolBody(r), doc) = Relevance(r, doc)
  <2>1. CASE Worded(r)
    BY <1>4, <1>5, <2>1
  <2>2. CASE r.raw.kind # "none"
    BY <1>5, <2>2 DEF Relevance, Worded
  <2>3. CASE r.raw.kind = "none" /\ r.query = <<>>
    <3>1. {j \in DOMAIN r.query : SaysWord(r.query[j], r.index, doc)} = {}
      BY <2>3
    <3>2. Relevance(r, doc) = Cardinality({})
      BY <2>3, <3>1, Zenon DEF Relevance
    <3> QED
      BY <1>5, <2>3, <3>2, FS_EmptySet DEF Worded
  <2> QED
    BY <2>1, <2>2, <2>3 DEF Worded
<1>7. BoolMatches(BoolBody(r), doc) <=> Wanted(r, doc)
  <2>1. CASE r.raw.kind # "none"
    <3>1. Must(r) = {r.raw} \cup r.rows /\ ~Worded(r)
      BY <2>1 DEF Must, Worded
    <3> QED
      BY <1>1, <2>1, <3>1 DEF Wanted
  <2>2. CASE r.raw.kind = "none"
    <3>1. Must(r) = BuildEsFilter(r.filter) \cup r.rows /\ (Worded(r) <=> r.query # <<>>)
      BY <2>2 DEF Must, Worded
    <3>2. (\A c \in Must(r) : ClauseMatches(c, doc))
             <=> FilterMeans(r.filter, r.index, doc) /\ \A c \in r.rows : ClauseMatches(c, doc)
      BY <1>3, <3>1 DEF doc
    <3>3. Wanted(r, doc)
             <=> /\ \A c \in r.rows : ClauseMatches(c, doc)
                 /\ FilterMeans(r.filter, r.index, doc)
                 /\ r.query # <<>> =>
                       IF r.queryOperator = "AND" THEN Relevance(r, doc) = Len(r.query)
                       ELSE Relevance(r, doc) > 0
      BY <2>2 DEF Wanted
    <3> QED
      BY <1>1, <1>4, <3>1, <3>2, <3>3
  <2> QED
    BY <2>1, <2>2
<1> QED
  BY <1>6, <1>7 DEF BodyMeans, doc

\* The hits are the page of the documents that filter, words and row filters of
\* the request mean, the more relevant ones on earlier pages, although each of
\* them is compiled to clauses of its own in one bool query.
THEOREM HitsCorrect == Spec => []HitsMeanTheRequest
<1>1. AskedInv => HitsMeanTheRequest
  <2> SUFFICES ASSUME AskedInv PROVE HitsMeanTheRequest
    OBVIOUS
  <2>1. CASE phase \in {"enrich", "answered"} /\ ~erred
    <3>1. request \in Requests /\ ~Refused(request) /\ found = Hits(request)
      BY <2>1 DEF AskedInv
    <3>2. \A i \in DOMAIN Docs : BodyMeans(request, Docs[i])
      BY <3>1, BodyMeansRequest
    <3> QED
      BY <3>1, <3>2, PageMeans
  <2>2. CASE ~(phase \in {"enrich", "answered"} /\ ~erred)
    BY <2>2, Zenon DEF HitsMeanTheRequest
  <2> QED
    BY <2>1, <2>2
<1> QED
  BY <1>1, AskedInvHolds, PTL
=============================================================================
