------------------------ MODULE TableResolversProofs ------------------------
(***************************************************************************)
(* Proofs about TableResolvers for every table, key, filter, identity and  *)
(* argument: what the loops of SqlStatement compile is well numbered, well *)
(* connected, and means its tests (LoopKeeps); so the statements are well  *)
(* formed and mean what the request says (KeyStatement, ListStatement),    *)
(* from which the properties of the steps follow.                          *)
(***************************************************************************)
EXTENDS TableResolvers, FiniteSetTheorems, SequenceTheorems, WellFoundedInduction, TLAPS

-----------------------------------------------------------------------------
(* The loops.  AddConditions is a recursive function.  That it exists, and *)
(* what holds after n tests, is shown by the least n for which it would    *)
(* fail.                                                                   *)

IsStatement(s) ==
    /\ s = [conds |-> s.conds, params |-> s.params]
    /\ s.conds \in Seq(Range(s.conds))
    /\ s.params \in Seq(Range(s.params))

\* A list of tests each of which, unless it is left out, binds a value.
AreTests(items) ==
    /\ Len(items) \in Nat
    /\ \A i \in 1..Len(items) :
          items[i] # Skip => /\ items[i].values \in Seq(Range(items[i].values))
                             /\ items[i].values # <<>>

\* One WHERE, then ANDs, and there is a condition exactly if a value is bound.
Connected(s) ==
    /\ \A i \in 1..Len(s.conds) : s.conds[i].conn = IF i = 1 THEN "WHERE" ELSE "AND"
    /\ s.params = <<>> <=> s.conds = <<>>

Numbers(s) == UNION {Range(c.at) : c \in Range(s.conds)}

\* The parameters q hold those of s from number `first` on.
Binds(q, s, first) == \A k \in 1..Len(s.params) : q[first + k - 1] = s.params[k]

AllHold(s, row, q, tables) == \A c \in Range(s.conds) : Holds(c, row, q, tables)

Passes(item, row, tables) ==
    IF "op" \in DOMAIN item.test THEN OpHolds(row, item.test.column, item.test.op, item.values)
    ELSE SqlClause(row, item.test, item.values[1], tables)

\* u is s with the first n tests added, numbered from `first`.
Adds(u, s, items, n, first) ==
    /\ IsStatement(u)
    /\ Len(u.params) >= Len(s.params)
    /\ \A k \in 1..Len(s.params) : u.params[k] = s.params[k]
    /\ Numbers(u) = Numbers(s) \cup ((first + Len(s.params)) .. (first + Len(u.params) - 1))
    /\ Connected(s) => Connected(u)
    /\ \A q, row, tables :
          Binds(q, u, first) =>
              (AllHold(u, row, q, tables) <=>
                  /\ AllHold(s, row, q, tables)
                  /\ \A i \in 1..n : items[i] # Skip => Passes(items[i], row, tables))
-----------------------------------------------------------------------------
LEMMA AppendFacts ==
    ASSUME NEW seq, seq \in Seq(Range(seq)), NEW e
    PROVE  LET t == Append(seq, e) IN
           /\ Len(seq) \in Nat /\ Len(t) = Len(seq) + 1
           /\ \A i \in 1..Len(seq) : t[i] = seq[i]
           /\ t[Len(seq) + 1] = e
           /\ Range(t) = Range(seq) \cup {e}
           /\ t \in Seq(Range(t))
<1> DEFINE t == Append(seq, e)
           S == Range(seq) \cup {e}
<1>1. /\ seq \in Seq(S) /\ e \in S
  OBVIOUS
<1> HIDE DEF S
<1>2. /\ Len(seq) \in Nat /\ Len(t) = Len(seq) + 1
      /\ \A i \in 1..Len(seq) : t[i] = seq[i]
      /\ t[Len(seq) + 1] = e
      /\ t \in Seq(S)
  BY <1>1
<1>3. DOMAIN t = 1..(Len(seq) + 1) /\ DOMAIN seq = 1..Len(seq)
  BY <1>1, <1>2
<1>4. Range(t) = Range(seq) \cup {e}
  BY <1>2, <1>3 DEF Range
<1> QED
  BY <1>2, <1>4 DEF S

LEMMA ConcatFacts ==
    ASSUME NEW s, s \in Seq(Range(s)), NEW t, t \in Seq(Range(t))
    PROVE  LET u == s \o t IN
           /\ Len(s) \in Nat /\ Len(t) \in Nat /\ Len(u) = Len(s) + Len(t)
           /\ \A i \in 1..Len(s) : u[i] = s[i]
           /\ \A i \in 1..Len(t) : u[Len(s) + i] = t[i]
           /\ Range(u) = Range(s) \cup Range(t)
           /\ u \in Seq(Range(u))
<1> DEFINE u == s \o t
           S == Range(s) \cup Range(t)
<1>1. s \in Seq(S) /\ t \in Seq(S)
  OBVIOUS
<1> HIDE DEF S
<1>2. /\ Len(s) \in Nat /\ Len(t) \in Nat /\ Len(u) = Len(s) + Len(t)
      /\ \A i \in 1..Len(s) : u[i] = s[i]
      /\ \A i \in 1..Len(t) : u[Len(s) + i] = t[i]
      /\ u \in Seq(S)
  BY <1>1
<1>3. DOMAIN u = 1..(Len(s) + Len(t)) /\ DOMAIN s = 1..Len(s) /\ DOMAIN t = 1..Len(t)
  BY <1>1, <1>2
<1>4. \A i \in 1..(Len(s) + Len(t)) :
        i \in 1..Len(s) \/ (i - Len(s) \in 1..Len(t) /\ u[i] = t[i - Len(s)])
  BY <1>2
<1>5. \A i \in 1..Len(t) : Len(s) + i \in 1..(Len(s) + Len(t))
  BY <1>2
<1>6. Range(u) = Range(s) \cup Range(t)
  <2> HIDE DEF u
  <2>1. Range(u) \subseteq Range(s) \cup Range(t)
    BY <1>2, <1>3, <1>4 DEF Range
  <2>2. \A i \in 1..Len(s) : i \in 1..(Len(s) + Len(t))
    BY <1>2
  <2>3. Range(s) \subseteq Range(u)
    BY <1>2, <1>3, <2>2 DEF Range
  <2>4. Range(t) \subseteq Range(u)
    BY <1>2, <1>3, <1>5 DEF Range
  <2> QED
    BY <2>1, <2>3, <2>4
<1> QED
  BY <1>2, <1>6 DEF S
-----------------------------------------------------------------------------
(* One test more.                                                          *)

LEMMA ConditionAdded ==
    ASSUME NEW s, NEW items, NEW n \in Nat, NEW first \in Nat, NEW u,
           AreTests(items), n + 1 \in 1..Len(items), items[n + 1] # Skip,
           Adds(u, s, items, n, first), IsStatement(s)
    PROVE  Adds(AddCondition(u, items[n + 1], first), s, items, n + 1, first)
<1> DEFINE item == items[n + 1]
           vals == item.values
           at == [i \in DOMAIN vals |-> first + Len(u.params) + i - 1]
           cond == [conn |-> IF u.params = <<>> THEN "WHERE" ELSE "AND", test |-> item.test, at |-> at]
           v == AddCondition(u, item, first)
<1>0. /\ vals \in Seq(Range(vals)) /\ vals # <<>> /\ DOMAIN vals = 1..Len(vals)
      /\ Len(vals) \in Nat /\ Len(vals) > 0
  BY DEF AreTests
<1>1. v = [conds |-> Append(u.conds, cond), params |-> u.params \o vals]
  BY DEF AddCondition
<1> HIDE DEF v, cond, at, vals
<1>2. v.conds = Append(u.conds, cond) /\ v.params = u.params \o vals
  BY <1>1
<1>u. /\ u.conds \in Seq(Range(u.conds)) /\ u.params \in Seq(Range(u.params))
      /\ Len(s.params) \in Nat /\ Len(u.params) \in Nat /\ Len(u.params) >= Len(s.params)
  BY DEF Adds, IsStatement
<1>3. /\ Len(u.conds) \in Nat /\ Len(v.conds) = Len(u.conds) + 1
      /\ \A i \in 1..Len(u.conds) : v.conds[i] = u.conds[i]
      /\ v.conds[Len(u.conds) + 1] = cond
      /\ Range(v.conds) = Range(u.conds) \cup {cond}
      /\ v.conds \in Seq(Range(v.conds))
  BY <1>2, <1>u, AppendFacts
<1>4. /\ Len(u.params) \in Nat /\ Len(v.params) = Len(u.params) + Len(vals)
      /\ \A i \in 1..Len(u.params) : v.params[i] = u.params[i]
      /\ \A i \in 1..Len(vals) : v.params[Len(u.params) + i] = vals[i]
      /\ v.params \in Seq(Range(v.params))
  BY <1>0, <1>2, <1>u, ConcatFacts
<1>5. IsStatement(v)
  BY <1>1, <1>2, <1>3, <1>4 DEF IsStatement
<1>6. /\ Len(v.params) >= Len(s.params)
      /\ \A k \in 1..Len(s.params) : v.params[k] = s.params[k]
  <2>1. \A k \in 1..Len(s.params) : u.params[k] = s.params[k] /\ k \in 1..Len(u.params)
    BY <1>u DEF Adds
  <2> QED
    BY <1>0, <1>4, <1>u, <2>1
<1>7. Numbers(v) = Numbers(s) \cup ((first + Len(s.params)) .. (first + Len(v.params) - 1))
  <2>1. cond.at = at
    BY DEF cond
  <2>2. Range(at) = (first + Len(u.params)) .. (first + Len(u.params) + Len(vals) - 1)
    <3>1. DOMAIN at = 1..Len(vals) /\ \A i \in 1..Len(vals) : at[i] = first + Len(u.params) + i - 1
      BY <1>0 DEF at
    <3>2. Range(at) \subseteq (first + Len(u.params)) .. (first + Len(u.params) + Len(vals) - 1)
      <4>1. \A i \in 1..Len(vals) : at[i] \in (first + Len(u.params)) .. (first + Len(u.params) + Len(vals) - 1)
        BY <1>0, <1>4, <3>1
      <4> QED
        BY <3>1, <4>1 DEF Range
    <3>3. ASSUME NEW k \in (first + Len(u.params)) .. (first + Len(u.params) + Len(vals) - 1)
          PROVE  k \in Range(at)
      <4>1. PICK i \in 1..Len(vals) : k = first + Len(u.params) + i - 1
        <5>1. k - first - Len(u.params) + 1 \in 1..Len(vals)
          BY <1>0, <1>4
        <5>2. \A a, b, c \in Int : a = b + c + (a - b - c + 1) - 1
          OBVIOUS
        <5>3. k \in Int /\ first \in Int /\ Len(u.params) \in Int
          BY <1>4
        <5>4. k = first + Len(u.params) + (k - first - Len(u.params) + 1) - 1
          BY <5>2, <5>3
        <5> QED
          BY <5>1, <5>4
      <4>2. at[i] = k
        BY <3>1, <4>1
      <4> QED
        BY <3>1, <4>1, <4>2 DEF Range
    <3> QED
      BY <3>2, <3>3
  <2>3. Numbers(v) = Numbers(u) \cup Range(at)
    BY <1>3, <2>1 DEF Numbers
  <2>4. /\ Numbers(u) = Numbers(s) \cup ((first + Len(s.params)) .. (first + Len(u.params) - 1))
        /\ Len(u.params) >= Len(s.params)
    BY DEF Adds
  <2>5. (first + Len(s.params)) .. (first + Len(v.params) - 1)
            = ((first + Len(s.params)) .. (first + Len(u.params) - 1))
              \cup ((first + Len(u.params)) .. (first + Len(u.params) + Len(vals) - 1))
    <3> DEFINE ls == Len(s.params)
               lu == Len(u.params)
               lv == Len(v.params)
               ln == Len(vals)
    <3>1. ls \in Nat /\ lu \in Nat /\ ln \in Nat /\ lu >= ls /\ lv = lu + ln
      BY <1>0, <1>4, <1>u, Zenon
    <3> HIDE DEF ls, lu, lv, ln
    <3>2. (first + ls) .. (first + lv - 1)
              = ((first + ls) .. (first + lu - 1)) \cup ((first + lu) .. (first + lu + ln - 1))
      BY <3>1
    <3> QED
      BY <3>2, Zenon DEF ls, lu, lv, ln
  <2> QED
    BY <2>2, <2>3, <2>4, <2>5
<1>8. Connected(s) => Connected(v)
  <2> SUFFICES ASSUME Connected(u) PROVE Connected(v)
    BY DEF Adds
  <2>1. v.params # <<>> /\ v.conds # <<>>
    BY <1>0, <1>3, <1>4
  <2>2. u.params = <<>> <=> Len(u.conds) = 0
    BY <1>3 DEF Connected, Adds, IsStatement
  <2>3. cond.conn = IF Len(u.conds) = 0 THEN "WHERE" ELSE "AND"
    BY <2>2 DEF cond
  <2>4. ASSUME NEW i \in 1..Len(v.conds)
        PROVE  v.conds[i].conn = IF i = 1 THEN "WHERE" ELSE "AND"
    <3>1. i \in 1..Len(u.conds) \/ i = Len(u.conds) + 1
      BY <1>3
    <3>2. CASE i \in 1..Len(u.conds)
      <4>1. v.conds[i] = u.conds[i] /\ u.conds[i].conn = IF i = 1 THEN "WHERE" ELSE "AND"
        BY <1>3, <3>2, Zenon DEF Connected
      <4> QED
        BY <4>1, Zenon
    <3>3. CASE i = Len(u.conds) + 1
      <4>1. Len(u.conds) = 0 <=> i = 1
        BY <1>3, <3>3
      <4> QED
        BY <1>3, <2>3, <3>3, <4>1, Zenon
    <3> QED
      BY <3>1, <3>2, <3>3
  <2> QED
    BY <2>1, <2>4 DEF Connected
<1>9. ASSUME NEW q, NEW row, NEW tables, Binds(q, v, first)
      PROVE  AllHold(v, row, q, tables) <=>
                 /\ AllHold(s, row, q, tables)
                 /\ \A i \in 1..(n + 1) : items[i] # Skip => Passes(items[i], row, tables)
  <2>1. Binds(q, u, first)
    BY <1>0, <1>4, <1>9 DEF Binds
  <2>2. AllHold(u, row, q, tables) <=>
            /\ AllHold(s, row, q, tables)
            /\ \A i \in 1..n : items[i] # Skip => Passes(items[i], row, tables)
    BY <2>1 DEF Adds
  <2>3. [i \in DOMAIN at |-> q[at[i]]] = vals
    <3>1. DOMAIN at = 1..Len(vals) /\ \A i \in 1..Len(vals) : at[i] = first + Len(u.params) + i - 1
      BY <1>0 DEF at
    <3>2. ASSUME NEW i \in 1..Len(vals) PROVE q[at[i]] = vals[i]
      <4>1. Len(u.params) + i \in 1..Len(v.params)
        BY <1>0, <1>4
      <4>2. at[i] = first + (Len(u.params) + i) - 1
        BY <1>0, <1>4, <3>1
      <4> QED
        BY <1>4, <1>9, <4>1, <4>2 DEF Binds
    <3>3. vals = [i \in 1..Len(vals) |-> vals[i]]
      BY <1>0
    <3> QED
      BY <3>1, <3>2, <3>3
  <2>4. Holds(cond, row, q, tables) <=> Passes(item, row, tables)
    <3>1. cond.at = at /\ cond.test = item.test
      BY DEF cond
    <3> QED
      BY <2>3, <3>1, Zenon DEF Holds, Passes, vals
  <2>5. AllHold(v, row, q, tables) <=> AllHold(u, row, q, tables) /\ Holds(cond, row, q, tables)
    BY <1>3 DEF AllHold
  <2>6. \A i : i \in 1..(n + 1) <=> i \in 1..n \/ i = n + 1
    OBVIOUS
  <2> QED
    BY <2>2, <2>4, <2>5, <2>6
<1> QED
  BY <1>5, <1>6, <1>7, <1>8, <1>9 DEF Adds, v, item

LEMMA ConditionSkipped ==
    ASSUME NEW s, NEW items, NEW n \in Nat, NEW first, NEW u,
           items[n + 1] = Skip, Adds(u, s, items, n, first)
    PROVE  Adds(u, s, items, n + 1, first)
<1>1. \A i : i \in 1..(n + 1) <=> i \in 1..n \/ i = n + 1
  OBVIOUS
<1> QED
  BY <1>1 DEF Adds

LEMMA NothingAdded ==
    ASSUME NEW s, NEW items, NEW first \in Nat, IsStatement(s)
    PROVE  Adds(s, s, items, 0, first)
<1>1. Len(s.params) \in Nat
  BY DEF IsStatement
<1>2. (first + Len(s.params)) .. (first + Len(s.params) - 1) = {}
  BY <1>1
<1> QED
  BY <1>1, <1>2 DEF Adds
-----------------------------------------------------------------------------
(* The loop.                                                               *)

\* The loop over any list of tests numbers, connects and means them.
THEOREM LoopKeeps ==
    ASSUME NEW s, NEW items, NEW first \in Nat, IsStatement(s), AreTests(items)
    PROVE  Adds(AddConditions(s, items, first), s, items, Len(items), first)
<1> DEFINE Step(g, n) == IF n = 0 THEN s
                         ELSE IF items[n] = Skip THEN g[n - 1]
                         ELSE AddCondition(g[n - 1], items[n], first)
           Upto(m, g) == g = [n \in 0..m |-> Step(g, n)]
           Good(m) == /\ \E g : Upto(m, g)
                      /\ \A g : Upto(m, g) => Adds(g[m], s, items, m, first)
           Bad == {m \in Nat : m <= Len(items) /\ ~Good(m)}
<1>0. Len(items) \in Nat
  BY DEF AreTests
<1>1. Good(0)
  <2> DEFINE f == [n \in 0..0 |-> s]
  <2>1. Upto(0, f)
    OBVIOUS
  <2>2. ASSUME NEW g, Upto(0, g) PROVE g[0] = s
    <3>1. 0 \in 0..0
      OBVIOUS
    <3> QED
      BY <2>2, <3>1
  <2> HIDE DEF f, Upto
  <2> QED
    BY <2>1, <2>2, NothingAdded
<1>2. ASSUME NEW m \in Nat, m + 1 <= Len(items), Good(m)
      PROVE  Good(m + 1)
  <2>1. \E h : Upto(m + 1, h)
    <3>1. PICK g : Upto(m, g)
      BY <1>2
    <3> DEFINE h == [n \in 0..(m + 1) |-> Step(g, n)]
    <3>2. \A n \in 0..m : h[n] = g[n]
      BY <3>1
    <3>3. \A n \in 0..(m + 1) : n # 0 => n - 1 \in 0..m
      OBVIOUS
    <3>4. h = [n \in 0..(m + 1) |-> Step(g, n)]
      OBVIOUS
    <3> HIDE DEF h
    <3>5. \A n \in 0..(m + 1) : Step(g, n) = Step(h, n)
      BY <3>2, <3>3
    <3>6. h = [n \in 0..(m + 1) |-> Step(h, n)]
      BY <3>4, <3>5
    <3> QED
      BY <3>6
  <2>2. ASSUME NEW h, Upto(m + 1, h)
        PROVE  Adds(h[m + 1], s, items, m + 1, first)
    <3> DEFINE g == [n \in 0..m |-> h[n]]
    <3>1. \A n \in 0..m : h[n] = Step(h, n)
      BY <2>2
    <3>2. \A n \in 0..m : n # 0 => n - 1 \in 0..m
      OBVIOUS
    <3>3. \A n \in 0..m : g[n] = h[n]
      OBVIOUS
    <3>4. g = [n \in 0..m |-> h[n]]
      OBVIOUS
    <3>5. h[m + 1] = IF items[m + 1] = Skip THEN h[m] ELSE AddCondition(h[m], items[m + 1], first)
      <4>1. m + 1 \in 0..(m + 1) /\ m + 1 # 0 /\ (m + 1) - 1 = m
        OBVIOUS
      <4> QED
        BY <2>2, <4>1
    <3> HIDE DEF g
    <3>6. \A n \in 0..m : h[n] = Step(g, n)
      BY <3>1, <3>2, <3>3
    <3>7. g = [n \in 0..m |-> Step(g, n)]
      BY <3>4, <3>6
    <3>8. Adds(h[m], s, items, m, first)
      <4>1. Adds(g[m], s, items, m, first)
        BY <1>2, <3>7
      <4> QED
        BY <3>3, <4>1
    <3>9. m + 1 \in 1..Len(items)
      BY <1>0, <1>2
    <3> HIDE DEF Upto
    <3> QED
      BY <3>5, <3>8, <3>9, ConditionAdded, ConditionSkipped
  <2> HIDE DEF Upto
  <2> QED
    BY <2>1, <2>2
<1> HIDE DEF Good
<1>3. Bad = {}
  <2> SUFFICES ASSUME Bad # {} PROVE FALSE
    OBVIOUS
  <2>1. Bad \subseteq Nat
    OBVIOUS
  <2>2. PICK m \in Bad : \A k \in Bad : ~(<<k, m>> \in OpToRel(<, Nat))
    BY <2>1, NatLessThanWellFounded, WFMin
  <2>3. m \in Nat /\ m <= Len(items) /\ ~Good(m) /\ m # 0
    BY <1>1, <2>2
  <2>4. PICK k \in Nat : m = k + 1
    BY <2>3
  <2>5. <<k, m>> \in OpToRel(<, Nat)
    <3>1. <<k, m>> \in Nat \X Nat /\ <<k, m>>[1] < <<k, m>>[2]
      BY <2>3, <2>4
    <3> QED
      BY <3>1, Zenon DEF OpToRel
  <2>6. k \notin Bad
    BY <2>2, <2>5, Zenon
  <2>7. Good(k)
    BY <1>0, <2>3, <2>4, <2>6
  <2> QED
    BY <1>2, <2>3, <2>4, <2>7
<1>4. Good(Len(items))
  BY <1>0, <1>3
<1>5. AddConditions(s, items, first) = (CHOOSE g : Upto(Len(items), g))[Len(items)]
  BY DEF AddConditions
<1> HIDE DEF Upto
<1> QED
  BY <1>4, <1>5 DEF Good

-----------------------------------------------------------------------------
(* What the statements are to select.                                      *)

\* The rows a key and the row filters select, and those a list query does.
Named(tbl, id, pk) == {r \in tbl : KeyOf(r) = pk /\ SqlAllows(r, id, Filters, Tables)}
Asked(tbl, id, args) ==
    {r \in tbl :
        /\ \A p \in Range(args.filter) : p[2] # Null => r[p[1]] = p[2]
        /\ \A o \in Range(args.where) : OpHolds(r, o.column, o.op, o.values)
        /\ SqlAllows(r, id, Filters, Tables)}
-----------------------------------------------------------------------------
(* Parts of a statement.                                                   *)

LEMMA SequenceDomain ==
    ASSUME NEW s, s \in Seq(Range(s))
    PROVE  DOMAIN s = 1..Len(s) /\ Len(s) \in Nat
OBVIOUS

LEMMA Continue ==
    ASSUME NEW a \in Nat, NEW c \in Nat, c >= a
    PROVE  (1..a) \cup ((1 + a) .. c) = 1..c
OBVIOUS

LEMMA EmptyStatement == IsStatement(NoConditions) /\ Connected(NoConditions) /\ Numbers(NoConditions) = {}
<1>1. NoConditions.conds = <<>> /\ NoConditions.params = <<>>
  BY DEF NoConditions
<1>2. Range(<<>>) = {} /\ <<>> \in Seq({}) /\ Len(<<>>) = 0
  BY DEF Range
<1> QED
  BY <1>1, <1>2 DEF NoConditions, IsStatement, Connected, Numbers

LEMMA WrittenKeeps ==
    ASSUME NEW s, IsStatement(s)
    PROVE  LET w == Written(s) IN
           /\ IsStatement(w)
           /\ Len(w.conds) = Len(s.conds)
           /\ w.params = s.params
           /\ \A i \in 1..Len(w.conds) : w.conds[i].conn = IF i = 1 THEN "WHERE" ELSE "AND"
           /\ Numbers(w) = Numbers(s)
           /\ \A row, q, tables : AllHold(w, row, q, tables) <=> AllHold(s, row, q, tables)
<1> DEFINE w == Written(s)
           c(i) == [conn |-> IF i = 1 THEN "WHERE" ELSE "AND",
                    test |-> s.conds[i].test, at |-> s.conds[i].at]
<1>1. DOMAIN s.conds = 1..Len(s.conds) /\ Len(s.conds) \in Nat /\ s.params \in Seq(Range(s.params))
  BY SequenceDomain DEF IsStatement
<1>2. w = [conds |-> [i \in 1..Len(s.conds) |-> c(i)], params |-> s.params]
  BY <1>1 DEF Written
<1> HIDE DEF w
<1>3. w.conds = [i \in 1..Len(s.conds) |-> c(i)] /\ w.params = s.params
  BY <1>2
<1>4. \A i : /\ c(i).conn = IF i = 1 THEN "WHERE" ELSE "AND"
             /\ c(i).test = s.conds[i].test
             /\ c(i).at = s.conds[i].at
  OBVIOUS
<1> HIDE DEF c
<1>5. /\ DOMAIN w.conds = 1..Len(s.conds)
      /\ \A i \in 1..Len(s.conds) : w.conds[i] = c(i)
  BY <1>3
<1>6. w.conds \in Seq(Range(w.conds)) /\ Len(w.conds) = Len(s.conds)
  <2>1. \A i \in 1..Len(s.conds) : w.conds[i] \in Range(w.conds)
    BY <1>5 DEF Range
  <2>2. w.conds = [i \in 1..Len(s.conds) |-> w.conds[i]]
    BY <1>3
  <2>3. w.conds \in [1..Len(s.conds) -> Range(w.conds)]
    BY <2>1, <2>2
  <2> QED
    BY <1>1, <1>5, <2>3
<1>7. IsStatement(w)
  BY <1>1, <1>2, <1>3, <1>6 DEF IsStatement
<1>8. Numbers(w) = Numbers(s)
  <2>1. Numbers(w) = UNION {Range(w.conds[i].at) : i \in 1..Len(s.conds)}
    BY <1>5 DEF Numbers, Range
  <2>2. Numbers(s) = UNION {Range(s.conds[i].at) : i \in 1..Len(s.conds)}
    BY <1>1 DEF Numbers, Range
  <2>3. \A i \in 1..Len(s.conds) : w.conds[i].at = s.conds[i].at
    BY <1>4, <1>5
  <2> QED
    BY <2>1, <2>2, <2>3
<1>9. ASSUME NEW row, NEW q, NEW tables
      PROVE  AllHold(w, row, q, tables) <=> AllHold(s, row, q, tables)
  <2>1. AllHold(w, row, q, tables) <=> \A i \in 1..Len(s.conds) : Holds(w.conds[i], row, q, tables)
    BY <1>5 DEF AllHold, Range
  <2>2. AllHold(s, row, q, tables) <=> \A i \in 1..Len(s.conds) : Holds(s.conds[i], row, q, tables)
    BY <1>1 DEF AllHold, Range
  <2>3. ASSUME NEW i \in 1..Len(s.conds)
        PROVE  Holds(w.conds[i], row, q, tables) <=> Holds(s.conds[i], row, q, tables)
    <3>1. w.conds[i].at = s.conds[i].at /\ w.conds[i].test = s.conds[i].test
      BY <1>4, <1>5
    <3> QED
      BY <3>1, Zenon DEF Holds
  <2> QED
    BY <2>1, <2>2, <2>3
<1> QED
  BY <1>3, <1>4, <1>5, <1>6, <1>7, <1>8, <1>9 DEF w

LEMMA RowFiltersApplied ==
    ASSUME NEW b, NEW id, IsStatement(b), Connected(b)
    PROVE  LET c == WithRowFilters(b, id, Filters) IN
           /\ IsStatement(c) /\ Connected(c)
           /\ Len(c.params) >= Len(b.params)
           /\ \A k \in 1..Len(b.params) : c.params[k] = b.params[k]
           /\ Numbers(c) = Numbers(b) \cup ((1 + Len(b.params)) .. Len(c.params))
           /\ \A row : AllHold(c, row, c.params, Tables) <=>
                 /\ AllHold(b, row, c.params, Tables)
                 /\ SqlAllows(row, id, Filters, Tables)
<1> DEFINE tests == RowFilterTests(id, Filters)
           c == WithRowFilters(b, id, Filters)
           value(i) == id[Filters[i].from_header]
<1>1. DOMAIN Filters = 1..Len(Filters) /\ Len(Filters) \in Nat
  BY FiltersTyped, SequenceDomain
<1>2. /\ Len(tests) = Len(Filters)
      /\ \A i \in 1..Len(Filters) :
            tests[i] = IF ~Matches(Filters[i], id) THEN Skip
                       ELSE [test |-> Filters[i], values |-> <<value(i)>>]
  BY <1>1 DEF RowFilterTests
<1> HIDE DEF tests, value
<1>3. \A v : <<v>> # <<>> /\ <<v>> \in Seq(Range(<<v>>)) /\ <<v>>[1] = v
  BY DEF Range
<1>4. \A i \in 1..Len(Filters) :
        Matches(Filters[i], id) => /\ tests[i].test = Filters[i]
                                   /\ tests[i].values = <<value(i)>>
                                   /\ tests[i] # Skip
  <2>1. Skip.values = <<>>
    BY DEF Skip
  <2>2. ASSUME NEW i \in 1..Len(Filters), Matches(Filters[i], id)
        PROVE  tests[i].test = Filters[i] /\ tests[i].values = <<value(i)>>
    <3>1. tests[i] = [test |-> Filters[i], values |-> <<value(i)>>]
      BY <1>2, <2>2
    <3> QED
      BY <3>1
  <2> QED
    BY <1>3, <2>1, <2>2
<1>5. \A i \in 1..Len(Filters) : tests[i] # Skip <=> Matches(Filters[i], id)
  BY <1>2, <1>4
<1>6. AreTests(tests)
  <2>1. ASSUME NEW i \in 1..Len(Filters), tests[i] # Skip
        PROVE  tests[i].values \in Seq(Range(tests[i].values)) /\ tests[i].values # <<>>
    <3>1. tests[i].values = <<value(i)>>
      BY <1>4, <1>5, <2>1
    <3>2. <<value(i)>> # <<>> /\ <<value(i)>> \in Seq(Range(<<value(i)>>))
      BY <1>3, Zenon
    <3> QED
      BY <3>1, <3>2, Zenon
  <2> QED
    BY <1>1, <1>2, <2>1, Zenon DEF AreTests
<1>7. Adds(c, b, tests, Len(Filters), 1)
  BY <1>2, <1>6, LoopKeeps DEF WithRowFilters, tests
<1> HIDE DEF c
<1>8. Len(b.params) \in Nat /\ Len(c.params) \in Nat /\ IsStatement(c)
  BY <1>7 DEF Adds, IsStatement
<1>9. ASSUME NEW row
      PROVE  AllHold(c, row, c.params, Tables) <=>
                 /\ AllHold(b, row, c.params, Tables)
                 /\ SqlAllows(row, id, Filters, Tables)
  <2>1. Binds(c.params, c, 1)
    BY <1>8 DEF Binds
  <2>2. AllHold(c, row, c.params, Tables) <=>
            /\ AllHold(b, row, c.params, Tables)
            /\ \A i \in 1..Len(Filters) : tests[i] # Skip => Passes(tests[i], row, Tables)
    BY <1>7, <2>1 DEF Adds
  <2>3. ASSUME NEW i \in 1..Len(Filters), Matches(Filters[i], id)
        PROVE  Passes(tests[i], row, Tables) <=> SqlClause(row, Filters[i], value(i), Tables)
    <3>1. "op" \notin DOMAIN tests[i].test /\ tests[i].test = Filters[i]
      BY <1>1, <1>4, <2>3, FiltersTyped
    <3>2. tests[i].values[1] = value(i)
      BY <1>3, <1>4, <2>3
    <3> QED
      BY <3>1, <3>2, Zenon DEF Passes
  <2>4. SqlAllows(row, id, Filters, Tables) <=>
            \A i \in 1..Len(Filters) :
                Matches(Filters[i], id) => SqlClause(row, Filters[i], value(i), Tables)
    BY <1>1, Zenon DEF SqlAllows, Range, value
  <2> QED
    BY <1>5, <2>2, <2>3, <2>4
<1>10. Numbers(c) = Numbers(b) \cup ((1 + Len(b.params)) .. Len(c.params))
  <2>1. 1 + Len(c.params) - 1 = Len(c.params)
    BY <1>8
  <2> QED
    BY <1>7, <2>1 DEF Adds
<1> QED
  BY <1>7, <1>8, <1>9, <1>10 DEF Adds, c
-----------------------------------------------------------------------------
(* The key of get, update and delete.                                      *)

LEMMA KeyCondition ==
    ASSUME NEW pk \in PkValues, NEW first \in Nat
    PROVE  LET a == PkPart(Pk, pk, first) IN
           /\ IsStatement(a) /\ Connected(a) /\ a.conds # <<>>
           /\ Numbers(a) = first .. (first + Len(a.params) - 1)
           /\ \A row, q : Binds(q, a, first) => (AllHold(a, row, q, Tables) <=> KeyOf(row) = pk)
<1> DEFINE tests == [i \in DOMAIN Pk |-> Test(Pk[i], "eq", <<pk[i]>>)]
           a == PkPart(Pk, pk, first)
<1>1. DOMAIN Pk = 1..Len(Pk) /\ Len(Pk) \in Nat /\ Len(Pk) # 0
  BY PkIsKey
<1>2. /\ Len(tests) = Len(Pk)
      /\ \A i \in 1..Len(Pk) : tests[i] = Test(Pk[i], "eq", <<pk[i]>>)
  BY <1>1
<1>3. \A v : <<v>> # <<>> /\ <<v>> \in Seq(Range(<<v>>)) /\ <<v>>[1] = v
  BY DEF Range
<1> HIDE DEF tests
<1>4. \A i \in 1..Len(Pk) :
        /\ tests[i].test = [column |-> Pk[i], op |-> "eq"]
        /\ tests[i].values = <<pk[i]>>
  <2>1. \A c, v : /\ Test(c, "eq", v).test = [column |-> c, op |-> "eq"]
                  /\ Test(c, "eq", v).values = v
    BY DEF Test
  <2> TAKE i \in 1..Len(Pk)
  <2>2. tests[i] = Test(Pk[i], "eq", <<pk[i]>>)
    BY <1>2, Zenon
  <2>3. /\ Test(Pk[i], "eq", <<pk[i]>>).test = [column |-> Pk[i], op |-> "eq"]
        /\ Test(Pk[i], "eq", <<pk[i]>>).values = <<pk[i]>>
    BY <2>1, Zenon
  <2> QED
    BY <2>2, <2>3, Zenon
<1>5. \A i \in 1..Len(Pk) : tests[i] # Skip
  <2>1. Skip.values = <<>>
    BY DEF Skip
  <2>2. \A i \in 1..Len(Pk) : tests[i].values # <<>>
    BY <1>3, <1>4
  <2> QED
    BY <2>1, <2>2, Zenon
<1>6. AreTests(tests)
  <2>1. ASSUME NEW i \in 1..Len(Pk)
        PROVE  tests[i].values \in Seq(Range(tests[i].values)) /\ tests[i].values # <<>>
    <3>1. <<pk[i]>> # <<>> /\ <<pk[i]>> \in Seq(Range(<<pk[i]>>))
      BY <1>3, Zenon
    <3> QED
      BY <1>4, <3>1, Zenon
  <2> QED
    BY <1>1, <1>2, <2>1, Zenon DEF AreTests
<1>7. Adds(a, NoConditions, tests, Len(Pk), first)
  BY <1>2, <1>6, EmptyStatement, LoopKeeps DEF PkPart, tests
<1> HIDE DEF a
<1>8. IsStatement(a) /\ Connected(a) /\ Len(a.params) \in Nat
  BY <1>7, EmptyStatement DEF Adds, IsStatement
<1>9. Numbers(a) = first .. (first + Len(a.params) - 1)
  <2>1. Numbers(NoConditions) = {} /\ Len(NoConditions.params) = 0
    BY EmptyStatement DEF NoConditions
  <2> QED
    BY <1>7, <2>1 DEF Adds
<1>10. \A row, q : AllHold(NoConditions, row, q, Tables)
  BY DEF AllHold, NoConditions, Range
<1>11. ASSUME NEW row, NEW i \in 1..Len(Pk)
       PROVE  Passes(tests[i], row, Tables) <=> row[Pk[i]] # Null /\ row[Pk[i]] = pk[i]
  <2>1. tests[i].test.column = Pk[i] /\ tests[i].test.op = "eq" /\ "op" \in DOMAIN tests[i].test
    <3>1. LET t == [column |-> Pk[i], op |-> "eq"] IN
          t.column = Pk[i] /\ t.op = "eq" /\ "op" \in DOMAIN t
      OBVIOUS
    <3> QED
      BY <1>4, <3>1, Zenon
  <2>2. tests[i].values[1] = pk[i]
    BY <1>3, <1>4
  <2>3. Passes(tests[i], row, Tables) <=> OpHolds(row, Pk[i], "eq", tests[i].values)
    BY <2>1, Zenon DEF Passes
  <2> QED
    BY <2>2, <2>3 DEF OpHolds
<1>12. ASSUME NEW row, NEW q, Binds(q, a, first)
       PROVE  AllHold(a, row, q, Tables) <=> \A i \in 1..Len(Pk) : row[Pk[i]] # Null /\ row[Pk[i]] = pk[i]
  <2>1. AllHold(a, row, q, Tables) <=>
            /\ AllHold(NoConditions, row, q, Tables)
            /\ \A i \in 1..Len(Pk) : tests[i] # Skip => Passes(tests[i], row, Tables)
    BY <1>7, <1>12 DEF Adds
  <2> QED
    BY <1>5, <1>10, <1>11, <2>1
<1>13. ASSUME NEW row
       PROVE  (\A i \in 1..Len(Pk) : row[Pk[i]] # Null /\ row[Pk[i]] = pk[i]) <=> KeyOf(row) = pk
  <2>1. pk = [i \in 1..Len(Pk) |-> pk[i]] /\ \A i \in 1..Len(Pk) : pk[i] # Null
    BY <1>1, NullIsNoValue DEF PkValues
  <2>2. KeyOf(row) = [i \in 1..Len(Pk) |-> row[Pk[i]]]
    BY <1>1 DEF KeyOf
  <2> QED
    BY <2>1, <2>2
<1>14. a.conds # <<>>
  <2> SUFFICES ASSUME a.conds = <<>> PROVE FALSE
    OBVIOUS
  <2> DEFINE row == [c \in ColumnSet |-> Null]
  <2>1. Len(a.params) = 0
    BY <1>8 DEF Connected
  <2>2. Binds(<<>>, a, first)
    BY <2>1 DEF Binds
  <2>3. AllHold(a, row, <<>>, Tables)
    BY DEF AllHold, Range
  <2>4. row[Pk[1]] = Null
    BY PkIsKey DEF ColumnSet
  <2>5. 1 \in 1..Len(Pk)
    BY <1>1
  <2> HIDE DEF row
  <2> QED
    BY <1>12, <2>2, <2>3, <2>4, <2>5
<1> QED
  BY <1>8, <1>9, <1>12, <1>13, <1>14 DEF a

\* The statements of get, delete and, with the parameters `set` of its SET
\* part, update.
LEMMA KeyStatement ==
    ASSUME NEW pk \in PkValues, NEW id, NEW set, set \in Seq(Range(set))
    PROVE  LET where == Written(PkPart(Pk, pk, Len(set) + 1))
               c == WithRowFilters([conds |-> where.conds, params |-> set \o where.params],
                                   id, Filters)
           IN  /\ WellFormed(c, 1..Len(set))
               /\ \A tbl : Selected(c, tbl, Tables) = Named(tbl, id, pk)
<1> DEFINE n == Len(set)
           a == PkPart(Pk, pk, n + 1)
           where == Written(a)
           b == [conds |-> where.conds, params |-> set \o where.params]
           c == WithRowFilters(b, id, Filters)
<1>0. n \in Nat /\ n + 1 \in Nat
  OBVIOUS
<1> HIDE DEF n
<1>1. /\ IsStatement(a) /\ Connected(a) /\ a.conds # <<>>
      /\ Numbers(a) = (n + 1) .. (n + 1 + Len(a.params) - 1)
      /\ \A row, q : Binds(q, a, n + 1) => (AllHold(a, row, q, Tables) <=> KeyOf(row) = pk)
  BY <1>0, KeyCondition
<1> HIDE DEF a
<1>2. /\ IsStatement(where) /\ where.params = a.params /\ Len(where.conds) = Len(a.conds)
      /\ \A i \in 1..Len(where.conds) : where.conds[i].conn = IF i = 1 THEN "WHERE" ELSE "AND"
      /\ Numbers(where) = Numbers(a)
      /\ \A row, q : AllHold(where, row, q, Tables) <=> AllHold(a, row, q, Tables)
  BY <1>1, WrittenKeeps
<1> HIDE DEF where
<1>3. b.conds = where.conds /\ b.params = set \o a.params
  BY <1>2
<1>4. b = [conds |-> b.conds, params |-> b.params]
  OBVIOUS
<1>5. /\ Len(a.params) \in Nat /\ Len(b.params) = n + Len(a.params)
      /\ \A k \in 1..Len(a.params) : b.params[n + k] = a.params[k]
      /\ b.params \in Seq(Range(b.params))
  <2>1. set \in Seq(Range(set)) /\ a.params \in Seq(Range(a.params))
    BY <1>1 DEF IsStatement
  <2>2. LET u == set \o a.params IN
        /\ Len(set) \in Nat /\ Len(a.params) \in Nat /\ Len(u) = Len(set) + Len(a.params)
        /\ \A i \in 1..Len(set) : u[i] = set[i]
        /\ \A i \in 1..Len(a.params) : u[Len(set) + i] = a.params[i]
        /\ Range(u) = Range(set) \cup Range(a.params)
        /\ u \in Seq(Range(u))
    BY <2>1, ConcatFacts
  <2> HIDE DEF b
  <2> QED
    BY <1>3, <2>2 DEF n
<1> HIDE DEF b
<1>6. IsStatement(b)
  BY <1>2, <1>3, <1>4, <1>5 DEF IsStatement
<1>7. a.params # <<>> /\ Len(a.params) # 0
  BY <1>1 DEF Connected, IsStatement
<1>8. Connected(b)
  <2>1. b.conds # <<>> /\ b.params # <<>>
    BY <1>0, <1>1, <1>2, <1>3, <1>5, <1>7 DEF IsStatement
  <2> QED
    BY <1>2, <1>3, <2>1 DEF Connected
<1>9. /\ IsStatement(c) /\ Connected(c)
      /\ Len(c.params) >= Len(b.params)
      /\ \A k \in 1..Len(b.params) : c.params[k] = b.params[k]
      /\ Numbers(c) = Numbers(b) \cup ((1 + Len(b.params)) .. Len(c.params))
      /\ \A row : AllHold(c, row, c.params, Tables) <=>
            /\ AllHold(b, row, c.params, Tables)
            /\ SqlAllows(row, id, Filters, Tables)
  BY <1>6, <1>8, RowFiltersApplied
<1> HIDE DEF c
<1>10. DOMAIN c.params = 1..Len(c.params) /\ Len(c.params) \in Nat
       /\ DOMAIN c.conds = 1..Len(c.conds)
  BY <1>9 DEF IsStatement
<1>11. WellFormed(c, 1..n)
  <2>1. Numbers(b) = (n + 1) .. Len(b.params)
    <3>1. Numbers(b) = Numbers(a)
      BY <1>2, <1>3 DEF Numbers
    <3>2. n + 1 + Len(a.params) - 1 = Len(b.params)
      BY <1>0, <1>5
    <3> QED
      BY <1>1, <3>1, <3>2
  <2>2. (1..n) \cup Numbers(c) = 1..Len(c.params)
    BY <1>0, <1>5, <1>9, <1>10, <2>1
  <2> QED
    BY <1>9, <1>10, <2>2 DEF WellFormed, Connected, Numbers
<1>12. Binds(c.params, a, n + 1)
  <2>1. ASSUME NEW k \in 1..Len(a.params) PROVE c.params[(n + 1) + k - 1] = a.params[k]
    <3>1. (n + 1) + k - 1 = n + k /\ n + k \in 1..Len(b.params)
      BY <1>0, <1>5
    <3> QED
      BY <1>5, <1>9, <3>1
  <2> QED
    BY <2>1 DEF Binds
<1>13. ASSUME NEW tbl PROVE Selected(c, tbl, Tables) = Named(tbl, id, pk)
  <2>1. \A row : AllHold(b, row, c.params, Tables) <=> AllHold(where, row, c.params, Tables)
    BY <1>3 DEF AllHold
  <2>2. \A row : AllHold(c, row, c.params, Tables) <=> KeyOf(row) = pk /\ SqlAllows(row, id, Filters, Tables)
    BY <1>1, <1>2, <1>9, <1>12, <2>1
  <2>3. Selected(c, tbl, Tables) = {row \in tbl : AllHold(c, row, c.params, Tables)}
    BY DEF Selected, AllHold
  <2> QED
    BY <2>2, <2>3 DEF Named
<1> QED
  BY <1>11, <1>13 DEF c, b, where, a, n
\* The statement of get and delete, with nothing before the key.
LEMMA KeyOnly ==
    ASSUME NEW pk \in PkValues, NEW id
    PROVE  LET c == WithRowFilters(Written(PkPart(Pk, pk, 1)), id, Filters) IN
           /\ WellFormed(c, {})
           /\ \A tbl : Selected(c, tbl, Tables) = Named(tbl, id, pk)
<1> DEFINE where == Written(PkPart(Pk, pk, 1))
<1>1. <<>> \in Seq(Range(<<>>)) /\ Len(<<>>) = 0 /\ 1..0 = {} /\ 0 + 1 = 1
  BY DEF Range
<1>2. IsStatement(where)
  BY KeyCondition, WrittenKeeps
<1>3. [conds |-> where.conds, params |-> <<>> \o where.params] = where
  <2> HIDE DEF where
  <2>1. <<>> \o where.params = where.params
    BY <1>2 DEF IsStatement
  <2> QED
    BY <1>2, <2>1 DEF IsStatement
<1>4. LET c == WithRowFilters([conds |-> where.conds, params |-> <<>> \o where.params], id, Filters) IN
      /\ WellFormed(c, {})
      /\ \A tbl : Selected(c, tbl, Tables) = Named(tbl, id, pk)
  BY <1>1, KeyStatement
<1> QED
  BY <1>3, <1>4
-----------------------------------------------------------------------------
(* The arguments of a list query.                                          *)

LEMMA TestFacts ==
    ASSUME NEW c, NEW op, NEW v
    PROVE  /\ Test(c, op, v).values = v
           /\ v # <<>> => Test(c, op, v) # Skip
           /\ \A row, tables : Passes(Test(c, op, v), row, tables) <=> OpHolds(row, c, op, v)
<1> DEFINE t == [column |-> c, op |-> op]
<1>1. t.column = c /\ t.op = op /\ "op" \in DOMAIN t
  OBVIOUS
<1> HIDE DEF t
<1>2. Test(c, op, v) = [test |-> t, values |-> v]
  BY DEF Test, t
<1>3. Test(c, op, v).values = v /\ Test(c, op, v).test = t
  BY <1>2
<1>4. Skip.values = <<>>
  BY DEF Skip
<1>5. \A row, tables : Passes(Test(c, op, v), row, tables) <=> OpHolds(row, c, op, v)
  BY <1>1, <1>3, Zenon DEF Passes
<1> QED
  BY <1>3, <1>4, <1>5, Zenon

LEMMA FilterCondition ==
    ASSUME NEW filter, filter \in Seq(Range(filter)),
           \A p \in Range(filter) : p[1] \in ColumnSet
    PROVE  LET f == FilterPart(filter, ColumnSet) IN
           /\ IsStatement(f) /\ Connected(f)
           /\ Numbers(f) = 1 .. Len(f.params)
           /\ \A row, q : Binds(q, f, 1) =>
                 (AllHold(f, row, q, Tables) <=> \A p \in Range(filter) : p[2] # Null => row[p[1]] = p[2])
<1> DEFINE tests == [i \in DOMAIN filter |->
                        IF filter[i][2] = Null \/ filter[i][1] \notin ColumnSet THEN Skip
                        ELSE Test(filter[i][1], "eq", <<filter[i][2]>>)]
           f == FilterPart(filter, ColumnSet)
<1>1. DOMAIN filter = 1..Len(filter) /\ Len(filter) \in Nat
  BY SequenceDomain
<1>2. \A i \in 1..Len(filter) : filter[i][1] \in ColumnSet
  BY <1>1 DEF Range
<1>3. /\ Len(tests) = Len(filter)
      /\ \A i \in 1..Len(filter) :
            tests[i] = IF filter[i][2] = Null THEN Skip ELSE Test(filter[i][1], "eq", <<filter[i][2]>>)
  BY <1>1, <1>2
<1> HIDE DEF tests
<1>4. \A v : <<v>> # <<>> /\ <<v>> \in Seq(Range(<<v>>)) /\ <<v>>[1] = v
  BY DEF Range
<1>5. ASSUME NEW i \in 1..Len(filter), filter[i][2] # Null
      PROVE  /\ tests[i] # Skip
             /\ tests[i].values \in Seq(Range(tests[i].values)) /\ tests[i].values # <<>>
             /\ \A row : Passes(tests[i], row, Tables) <=> row[filter[i][1]] = filter[i][2]
  <2>1. tests[i] = Test(filter[i][1], "eq", <<filter[i][2]>>)
    BY <1>3, <1>5, Zenon
  <2>2. <<filter[i][2]>> # <<>> /\ <<filter[i][2]>> \in Seq(Range(<<filter[i][2]>>))
    BY <1>4, Zenon
  <2>3. tests[i].values = <<filter[i][2]>> /\ tests[i] # Skip
    BY <2>1, <2>2, TestFacts
  <2>4. ASSUME NEW row
        PROVE  Passes(tests[i], row, Tables) <=> row[filter[i][1]] = filter[i][2]
    <3>1. Passes(tests[i], row, Tables) <=> OpHolds(row, filter[i][1], "eq", <<filter[i][2]>>)
      BY <2>1, TestFacts
    <3> QED
      BY <1>4, <1>5, <3>1 DEF OpHolds
  <2> QED
    BY <2>2, <2>3, <2>4, Zenon
<1>6. \A i \in 1..Len(filter) : tests[i] # Skip <=> filter[i][2] # Null
  BY <1>3, <1>5, Zenon
<1>7. AreTests(tests)
  BY <1>1, <1>3, <1>5, <1>6, Zenon DEF AreTests
<1>8. Adds(f, NoConditions, tests, Len(filter), 1)
  BY <1>3, <1>7, EmptyStatement, LoopKeeps DEF FilterPart, tests
<1> HIDE DEF f
<1>9. IsStatement(f) /\ Connected(f) /\ Len(f.params) \in Nat
  BY <1>8, EmptyStatement DEF Adds, IsStatement
<1>10. Numbers(f) = 1 .. Len(f.params)
  <2>1. Numbers(NoConditions) = {} /\ Len(NoConditions.params) = 0
    BY EmptyStatement DEF NoConditions
  <2>2. 1 + 0 = 1 /\ 1 + Len(f.params) - 1 = Len(f.params)
    BY <1>9
  <2> QED
    BY <1>8, <2>1, <2>2 DEF Adds
<1>11. ASSUME NEW row, NEW q, Binds(q, f, 1)
       PROVE  AllHold(f, row, q, Tables) <=> \A p \in Range(filter) : p[2] # Null => row[p[1]] = p[2]
  <2>1. AllHold(f, row, q, Tables) <=>
            /\ AllHold(NoConditions, row, q, Tables)
            /\ \A i \in 1..Len(filter) : tests[i] # Skip => Passes(tests[i], row, Tables)
    BY <1>8, <1>11 DEF Adds
  <2>2. AllHold(NoConditions, row, q, Tables)
    BY DEF AllHold, NoConditions, Range
  <2>3. (\A p \in Range(filter) : p[2] # Null => row[p[1]] = p[2])
            <=> \A i \in 1..Len(filter) : filter[i][2] # Null => row[filter[i][1]] = filter[i][2]
    BY <1>1, Zenon DEF Range
  <2> QED
    BY <1>5, <1>6, <2>1, <2>2, <2>3
<1> QED
  BY <1>9, <1>10, <1>11 DEF f

LEMMA WhereCondition ==
    ASSUME NEW where, where \in Seq(Range(where)), NEW first \in Nat,
           \A o \in Range(where) : o.values \in Seq(Range(o.values)) /\ o.values # <<>>
    PROVE  LET w == WherePart(where, first) IN
           /\ IsStatement(w) /\ Connected(w)
           /\ Numbers(w) = first .. (first + Len(w.params) - 1)
           /\ \A row, q : Binds(q, w, first) =>
                 (AllHold(w, row, q, Tables) <=>
                     \A o \in Range(where) : OpHolds(row, o.column, o.op, o.values))
<1> DEFINE tests == [i \in DOMAIN where |-> Test(where[i].column, where[i].op, where[i].values)]
           w == WherePart(where, first)
<1>1. DOMAIN where = 1..Len(where) /\ Len(where) \in Nat
  BY SequenceDomain
<1>2. \A i \in 1..Len(where) : /\ where[i].values \in Seq(Range(where[i].values))
                               /\ where[i].values # <<>>
  BY <1>1 DEF Range
<1>3. /\ Len(tests) = Len(where)
      /\ \A i \in 1..Len(where) : tests[i] = Test(where[i].column, where[i].op, where[i].values)
  BY <1>1
<1> HIDE DEF tests
<1>4. ASSUME NEW i \in 1..Len(where)
      PROVE  /\ tests[i] # Skip
             /\ tests[i].values \in Seq(Range(tests[i].values)) /\ tests[i].values # <<>>
             /\ \A row : Passes(tests[i], row, Tables)
                             <=> OpHolds(row, where[i].column, where[i].op, where[i].values)
  <2>1. tests[i] = Test(where[i].column, where[i].op, where[i].values)
    BY <1>3, Zenon
  <2>2. tests[i].values = where[i].values /\ tests[i] # Skip
    BY <1>2, <2>1, TestFacts
  <2>3. \A row : Passes(tests[i], row, Tables)
                    <=> OpHolds(row, where[i].column, where[i].op, where[i].values)
    BY <2>1, TestFacts
  <2> QED
    BY <1>2, <2>2, <2>3, Zenon
<1>5. AreTests(tests)
  BY <1>1, <1>3, <1>4, Zenon DEF AreTests
<1>6. Adds(w, NoConditions, tests, Len(where), first)
  BY <1>3, <1>5, EmptyStatement, LoopKeeps DEF WherePart, tests
<1> HIDE DEF w
<1>7. IsStatement(w) /\ Connected(w) /\ Len(w.params) \in Nat
  BY <1>6, EmptyStatement DEF Adds, IsStatement
<1>8. Numbers(w) = first .. (first + Len(w.params) - 1)
  <2>1. Numbers(NoConditions) = {} /\ Len(NoConditions.params) = 0
    BY EmptyStatement DEF NoConditions
  <2> QED
    BY <1>6, <2>1 DEF Adds
<1>9. ASSUME NEW row, NEW q, Binds(q, w, first)
      PROVE  AllHold(w, row, q, Tables) <=>
                 \A o \in Range(where) : OpHolds(row, o.column, o.op, o.values)
  <2>1. AllHold(w, row, q, Tables) <=>
            /\ AllHold(NoConditions, row, q, Tables)
            /\ \A i \in 1..Len(where) : tests[i] # Skip => Passes(tests[i], row, Tables)
    BY <1>6, <1>9 DEF Adds
  <2>2. AllHold(NoConditions, row, q, Tables)
    BY DEF AllHold, NoConditions, Range
  <2>3. (\A o \in Range(where) : OpHolds(row, o.column, o.op, o.values))
            <=> \A i \in 1..Len(where) : OpHolds(row, where[i].column, where[i].op, where[i].values)
    BY <1>1, Zenon DEF Range
  <2> QED
    BY <1>4, <2>1, <2>2, <2>3
<1> QED
  BY <1>7, <1>8, <1>9 DEF w

\* The statement of a list query.
LEMMA ListStatement ==
    ASSUME NEW args \in ListArgs, NEW id, ~WhereFails(args.where)
    PROVE  LET c == WithRowFilters(BothParts(args.filter, args.where, ColumnSet), id, Filters) IN
           /\ WellFormed(c, {})
           /\ \A tbl : Selected(c, tbl, Tables) = Asked(tbl, id, args)
<1> DEFINE f == FilterPart(args.filter, ColumnSet)
           w == WherePart(args.where, Len(f.params) + 1)
           u == [conds |-> f.conds \o w.conds, params |-> f.params \o w.params]
           b == BothParts(args.filter, args.where, ColumnSet)
           c == WithRowFilters(b, id, Filters)
           fholds(row) == \A p \in Range(args.filter) : p[2] # Null => row[p[1]] = p[2]
           wholds(row) == \A o \in Range(args.where) : OpHolds(row, o.column, o.op, o.values)
<1>1. /\ IsStatement(f) /\ Connected(f)
      /\ Numbers(f) = 1 .. Len(f.params)
      /\ \A row, q : Binds(q, f, 1) => (AllHold(f, row, q, Tables) <=> fholds(row))
  BY ArgsTyped, FilterCondition DEF ColumnSet
<1> HIDE DEF f, fholds
<1>2. Len(f.params) \in Nat
  BY <1>1 DEF IsStatement
<1>3. \A o \in Range(args.where) : o.values \in Seq(Range(o.values)) /\ o.values # <<>>
  <2>1. \A o \in Range(args.where) : o.op = "in" => Len(o.values) \in 1..MaxInValues
    BY DEF WhereFails
  <2>2. \A o \in Range(args.where) : o.op = "in" => Len(o.values) # 0
    BY <2>1
  <2>3. Len(<<>>) = 0
    OBVIOUS
  <2> QED
    BY <2>2, <2>3, ArgsTyped
<1>4. /\ IsStatement(w) /\ Connected(w)
      /\ Numbers(w) = (Len(f.params) + 1) .. (Len(f.params) + 1 + Len(w.params) - 1)
      /\ \A row, q : Binds(q, w, Len(f.params) + 1) => (AllHold(w, row, q, Tables) <=> wholds(row))
  <2>1. args.where \in Seq(Range(args.where)) /\ Len(f.params) + 1 \in Nat
    BY <1>2, ArgsTyped
  <2> HIDE DEF w
  <2>2. /\ IsStatement(w) /\ Connected(w)
        /\ Numbers(w) = (Len(f.params) + 1) .. (Len(f.params) + 1 + Len(w.params) - 1)
        /\ \A row, q : Binds(q, w, Len(f.params) + 1) =>
              (AllHold(w, row, q, Tables) <=>
                  \A o \in Range(args.where) : OpHolds(row, o.column, o.op, o.values))
    BY <1>3, <2>1, WhereCondition DEF w
  <2> QED
    BY <2>2, Zenon
<1> HIDE DEF w, wholds
<1>5. LET cs == f.conds \o w.conds IN
      /\ Len(f.conds) \in Nat /\ Len(w.conds) \in Nat /\ Len(cs) = Len(f.conds) + Len(w.conds)
      /\ Range(cs) = Range(f.conds) \cup Range(w.conds)
      /\ cs \in Seq(Range(cs))
  BY <1>1, <1>4, ConcatFacts DEF IsStatement
<1>6. LET ps == f.params \o w.params IN
      /\ Len(f.params) \in Nat /\ Len(w.params) \in Nat /\ Len(ps) = Len(f.params) + Len(w.params)
      /\ \A i \in 1..Len(f.params) : ps[i] = f.params[i]
      /\ \A i \in 1..Len(w.params) : ps[Len(f.params) + i] = w.params[i]
      /\ ps \in Seq(Range(ps))
  BY <1>1, <1>4, ConcatFacts DEF IsStatement
<1>7. u.conds = f.conds \o w.conds /\ u.params = f.params \o w.params
      /\ u = [conds |-> u.conds, params |-> u.params]
  OBVIOUS
<1> HIDE DEF u
<1>u. /\ Len(f.params) \in Nat /\ Len(w.params) \in Nat
      /\ Len(f.conds) \in Nat /\ Len(w.conds) \in Nat
      /\ Len(u.params) = Len(f.params) + Len(w.params)
      /\ Len(u.conds) = Len(f.conds) + Len(w.conds)
      /\ \A i \in 1..Len(f.params) : u.params[i] = f.params[i]
      /\ \A i \in 1..Len(w.params) : u.params[Len(f.params) + i] = w.params[i]
  BY <1>5, <1>6, <1>7
<1>8. IsStatement(u)
  BY <1>5, <1>6, <1>7 DEF IsStatement
<1>v. /\ Len(u.params) \in Nat
      /\ (1..Len(f.params)) \cup ((Len(f.params) + 1) .. (Len(f.params) + 1 + Len(w.params) - 1))
             = 1..Len(u.params)
      /\ Len(u.params) = 0 <=> Len(f.params) = 0 /\ Len(w.params) = 0
      /\ Len(u.conds) = 0 <=> Len(f.conds) = 0 /\ Len(w.conds) = 0
      /\ \A k \in 1..Len(f.params) : 1 + k - 1 = k /\ k \in 1..Len(u.params)
      /\ \A k \in 1..Len(w.params) : /\ (Len(f.params) + 1) + k - 1 = Len(f.params) + k
                                     /\ Len(f.params) + k \in 1..Len(u.params)
  <2> DEFINE pf == Len(f.params)
             pw == Len(w.params)
             pu == Len(u.params)
             cf == Len(f.conds)
             cw == Len(w.conds)
             cu == Len(u.conds)
  <2>1. pf \in Nat /\ pw \in Nat /\ pu = pf + pw /\ cf \in Nat /\ cw \in Nat /\ cu = cf + cw
    BY <1>u, Zenon
  <2> HIDE DEF pf, pw, pu, cf, cw, cu
  <2>2. /\ pu \in Nat
        /\ (1..pf) \cup ((pf + 1) .. (pf + 1 + pw - 1)) = 1..pu
        /\ pu = 0 <=> pf = 0 /\ pw = 0
        /\ cu = 0 <=> cf = 0 /\ cw = 0
        /\ \A k \in 1..pf : 1 + k - 1 = k /\ k \in 1..pu
        /\ \A k \in 1..pw : (pf + 1) + k - 1 = pf + k /\ pf + k \in 1..pu
    BY <2>1
  <2> QED
    BY <2>2, Zenon DEF pf, pw, pu, cf, cw, cu
<1>9. Numbers(u) = 1 .. Len(u.params)
  <2>1. Numbers(u) = Numbers(f) \cup Numbers(w)
    BY <1>5, <1>7 DEF Numbers
  <2> QED
    <3>1. /\ Numbers(f) = 1..Len(f.params)
          /\ Numbers(w) = (Len(f.params) + 1) .. (Len(f.params) + 1 + Len(w.params) - 1)
      BY <1>1, <1>4, Zenon
    <3> QED
      BY <1>v, <2>1, <3>1, Zenon
<1>10. \A row, q : AllHold(u, row, q, Tables) <=> AllHold(f, row, q, Tables) /\ AllHold(w, row, q, Tables)
  BY <1>5, <1>7 DEF AllHold
<1>11. u.params = <<>> <=> Len(u.conds) = 0
  <2>1. /\ Len(f.params) = 0 <=> Len(f.conds) = 0
        /\ Len(w.params) = 0 <=> Len(w.conds) = 0
    BY <1>1, <1>4, <1>5, <1>6 DEF Connected, IsStatement
  <2>2. u.params = <<>> <=> Len(u.params) = 0
    BY <1>8 DEF IsStatement
  <2> QED
    BY <1>v, <2>1, <2>2, Zenon
<1>12. /\ IsStatement(b) /\ b.params = u.params /\ Len(b.conds) = Len(u.conds)
       /\ \A i \in 1..Len(b.conds) : b.conds[i].conn = IF i = 1 THEN "WHERE" ELSE "AND"
       /\ Numbers(b) = Numbers(u)
       /\ \A row, q : AllHold(b, row, q, Tables) <=> AllHold(u, row, q, Tables)
  <2>1. b = Written(u)
    BY DEF BothParts, u, w, f
  <2> QED
    BY <1>8, <2>1, WrittenKeeps
<1> HIDE DEF b
<1>b. Len(b.params) = Len(u.params)
  BY <1>12, Zenon
<1>13. Connected(b)
  <2>1. b.conds = <<>> <=> Len(b.conds) = 0
    BY <1>12 DEF IsStatement
  <2> QED
    BY <1>11, <1>12, <2>1 DEF Connected
<1>14. /\ IsStatement(c) /\ Connected(c)
       /\ Len(c.params) >= Len(b.params)
       /\ \A k \in 1..Len(b.params) : c.params[k] = b.params[k]
       /\ Numbers(c) = Numbers(b) \cup ((1 + Len(b.params)) .. Len(c.params))
       /\ \A row : AllHold(c, row, c.params, Tables) <=>
             /\ AllHold(b, row, c.params, Tables)
             /\ SqlAllows(row, id, Filters, Tables)
  BY <1>12, <1>13, RowFiltersApplied
<1> HIDE DEF c
<1>15. DOMAIN c.params = 1..Len(c.params) /\ Len(c.params) \in Nat /\ DOMAIN c.conds = 1..Len(c.conds)
  BY <1>14 DEF IsStatement
<1>16. WellFormed(c, {})
  <2>1. Numbers(c) = 1..Len(c.params)
    <3>1. Numbers(c) = (1..Len(b.params)) \cup ((1 + Len(b.params)) .. Len(c.params))
      BY <1>9, <1>12, <1>b, <1>14, Zenon
    <3>2. Len(c.params) >= Len(b.params) /\ Len(b.params) \in Nat /\ Len(c.params) \in Nat
      BY <1>b, <1>v, <1>14, <1>15, Zenon
    <3>3. (1..Len(b.params)) \cup ((1 + Len(b.params)) .. Len(c.params)) = 1..Len(c.params)
      BY <3>2, Continue, Zenon
    <3> QED
      BY <3>1, <3>3, Zenon
  <2> QED
    BY <1>14, <1>15, <2>1 DEF WellFormed, Connected, Numbers
<1>17. Binds(c.params, f, 1)
  <2>1. ASSUME NEW k \in 1..Len(f.params) PROVE c.params[1 + k - 1] = f.params[k]
    <3>1. 1 + k - 1 = k /\ k \in 1..Len(b.params)
      BY <1>v, <1>b, Zenon
    <3> QED
      BY <1>u, <1>12, <1>14, <3>1
  <2> QED
    BY <2>1 DEF Binds
<1>18. Binds(c.params, w, Len(f.params) + 1)
  <2>1. ASSUME NEW k \in 1..Len(w.params) PROVE c.params[(Len(f.params) + 1) + k - 1] = w.params[k]
    <3>1. (Len(f.params) + 1) + k - 1 = Len(f.params) + k /\ Len(f.params) + k \in 1..Len(b.params)
      BY <1>v, <1>b, Zenon
    <3> QED
      BY <1>u, <1>12, <1>14, <3>1
  <2> QED
    BY <2>1 DEF Binds
<1>19. \A row : AllHold(c, row, c.params, Tables) <=>
           fholds(row) /\ wholds(row) /\ SqlAllows(row, id, Filters, Tables)
  BY <1>1, <1>4, <1>10, <1>12, <1>14, <1>17, <1>18
<1>20. ASSUME NEW tbl PROVE Selected(c, tbl, Tables) = Asked(tbl, id, args)
  <2>1. Selected(c, tbl, Tables) = {row \in tbl : AllHold(c, row, c.params, Tables)}
    BY DEF Selected, AllHold
  <2>2. Asked(tbl, id, args) = {row \in tbl : fholds(row) /\ wholds(row) /\ SqlAllows(row, id, Filters, Tables)}
    BY Zenon DEF Asked, fholds, wholds
  <2> QED
    BY <1>19, <2>1, <2>2
<1> QED
  BY <1>16, <1>20 DEF c, b
-----------------------------------------------------------------------------
(* Pages, keys and inputs.                                                 *)

LEMMA PageFacts ==
    ASSUME NEW rows, IsFiniteSet(rows), rows \subseteq RowSpace,
           NEW got \in Seq(RowSpace), Len(got) <= Cardinality(rows),
           NEW limit \in Nat, NEW s \in SetToSeqs(rows)
    PROVE  LET end == IF Len(got) + limit < Len(s) THEN Len(got) + limit ELSE Len(s)
               answer == SubSeq(s, Len(got) + 1, end)
               left == Cardinality(rows) - Len(got)
           IN  /\ Range(answer) \subseteq rows
               /\ Len(answer) = IF left < limit THEN left ELSE limit
               /\ got \o answer \in Seq(RowSpace)
               /\ Len(got \o answer) <= Cardinality(rows)
               /\ Len(got \o answer) = Len(got) + Len(answer)
<1> DEFINE n == Cardinality(rows)
           g == Len(got)
           end == IF g + limit < n THEN g + limit ELSE n
           answer == SubSeq(s, g + 1, end)
<1>1. n \in Nat
  BY FS_CardinalityType
<1>2. s \in [1..n -> rows]
  BY DEF SetToSeqs
<1>3. Len(s) = n
  BY <1>1, <1>2
<1>4. g \in Nat /\ g <= n
  OBVIOUS
<1> HIDE DEF n, g
<1>5. /\ g + 1 \in Int /\ end \in Int
      /\ \A i \in (g + 1)..end : s[i] \in rows
  BY <1>1, <1>2, <1>4
<1>6. /\ answer \in Seq(rows)
      /\ Len(answer) = IF g + 1 <= end THEN end - (g + 1) + 1 ELSE 0
  <2> HIDE DEF end
  <2> QED
    BY <1>5, SubSeqProperties
<1>7. Len(answer) = (IF n - g < limit THEN n - g ELSE limit) /\ Len(answer) <= n - g
  <2> HIDE DEF answer
  <2> QED
    BY <1>1, <1>4, <1>6
<1> HIDE DEF answer, end
<1>8. Range(answer) \subseteq rows
  BY <1>6 DEF Range
<1>9. answer \in Seq(RowSpace)
  BY <1>6
<1>10. got \o answer \in Seq(RowSpace) /\ Len(got \o answer) = Len(got) + Len(answer)
  BY <1>9
<1>11. Len(got \o answer) <= n
  <2> DEFINE l == Len(answer)
             t == Len(got \o answer)
  <2>1. l \in Nat /\ l <= n - g /\ t = g + l
    BY <1>7, <1>9, <1>10 DEF g
  <2> HIDE DEF l, t
  <2>2. t <= n
    BY <1>1, <1>4, <2>1
  <2> QED
    BY <2>2 DEF t
<1> QED
  BY <1>3, <1>7, <1>8, <1>10, <1>11 DEF n, g, answer, end

LEMMA LimitNatural ==
    ASSUME NEW requested, requested # Null => requested \in Int /\ requested >= 0
    PROVE  EffectiveLimit(requested) \in Nat
BY LimitsNatural DEF EffectiveLimit

LEMMA SetIsSequence ==
    ASSUME NEW input \in Inputs
    PROVE  SetParams(input) \in Seq(Range(SetParams(input)))
<1> DEFINE tests == [i \in DOMAIN Columns |->
                        IF Columns[i] \notin SetColumns(input) \/ input[Columns[i]] = Null THEN Skip
                        ELSE Test(Columns[i], "eq", <<input[Columns[i]]>>)]
<1>1. DOMAIN Columns = 1..Len(Columns) /\ Len(Columns) \in Nat
  BY PkIsKey, SequenceDomain
<1>2. /\ Len(tests) = Len(Columns)
      /\ \A i \in 1..Len(Columns) :
            tests[i] # Skip => tests[i] = Test(Columns[i], "eq", <<input[Columns[i]]>>)
  BY <1>1
<1> HIDE DEF tests
<1>3. \A v : <<v>> # <<>> /\ <<v>> \in Seq(Range(<<v>>))
  BY DEF Range
<1>4. ASSUME NEW i \in 1..Len(Columns), tests[i] # Skip
      PROVE  tests[i].values \in Seq(Range(tests[i].values)) /\ tests[i].values # <<>>
  <2>1. tests[i].values = <<input[Columns[i]]>>
    <3>1. tests[i] = Test(Columns[i], "eq", <<input[Columns[i]]>>)
      BY <1>2, <1>4, Zenon
    <3> QED
      BY <3>1, TestFacts
  <2>2. <<input[Columns[i]]>> # <<>> /\ <<input[Columns[i]]>> \in Seq(Range(<<input[Columns[i]]>>))
    BY <1>3, Zenon
  <2> QED
    BY <2>1, <2>2, Zenon
<1>5. AreTests(tests)
  BY <1>1, <1>2, <1>4, Zenon DEF AreTests
<1>6. Adds(AddConditions(NoConditions, tests, 1), NoConditions, tests, Len(tests), 1)
  BY <1>5, EmptyStatement, LoopKeeps
<1>7. SetParams(input) = AddConditions(NoConditions, tests, 1).params
  BY Zenon DEF SetParams, tests
<1> QED
  BY <1>6, <1>7 DEF Adds, IsStatement

LEMMA KeyRange ==
    ASSUME NEW row
    PROVE  Range(KeyOf(row)) = {row[c] : c \in Range(Pk)}
<1>1. DOMAIN KeyOf(row) = DOMAIN Pk /\ \A i \in DOMAIN Pk : KeyOf(row)[i] = row[Pk[i]]
  BY DEF KeyOf
<1> HIDE DEF KeyOf
<1> QED
  BY <1>1 DEF Range

LEMMA KeyColumns == Range(Pk) \subseteq ColumnSet
BY PkIsKey DEF ColumnSet, Range

LEMMA UpdateMeans ==
    ASSUME NEW id, NEW pk \in PkValues, NEW input \in Inputs
    PROVE  /\ WellFormed(UpdateStatement(id, pk, input), 1..Len(SetParams(input)))
           /\ \A tbl : Selected(UpdateStatement(id, pk, input), tbl, Tables) = Named(tbl, id, pk)
BY SetIsSequence, KeyStatement, Zenon DEF UpdateStatement

\* The key alone tells the rows apart, so a key names one row at most.
LEMMA NamesOne ==
    ASSUME NEW tbl, \A r, t \in tbl : KeyOf(r) = KeyOf(t) => r = t,
           NEW id, NEW pk
    PROVE  \A r, t \in Named(tbl, id, pk) : r = t
BY DEF Named
-----------------------------------------------------------------------------
(* What paging has handed out so far.                                      *)

\* part holds the rows that come first.
ComesFirst(part, rows, order) ==
    /\ part \subseteq rows
    /\ \A a \in part, w \in rows \ part : ~Before(w, a, order)

\* Of two rows one comes first.
IsTotal(rows, order) ==
    \A a, b \in rows : a # b => Before(a, b, order) \/ Before(b, a, order)

LEMMA LeastNatural ==
    ASSUME NEW T, T \subseteq Nat, T # {}
    PROVE  \E m \in T : \A k \in T : m <= k
<1>1. PICK m \in T : \A k \in T : ~(<<k, m>> \in OpToRel(<, Nat))
  BY NatLessThanWellFounded, WFMin
<1>2. ASSUME NEW k \in T PROVE m <= k
  <2>0. k \in Nat /\ m \in Nat
    OBVIOUS
  <2> SUFFICES ASSUME k < m PROVE FALSE
    BY <2>0
  <2>1. <<k, m>> \in Nat \X Nat /\ <<k, m>>[1] < <<k, m>>[2]
    BY <2>0
  <2>2. <<k, m>> \in OpToRel(<, Nat)
    BY <2>1, Zenon DEF OpToRel
  <2> QED
    BY <1>1, <2>2, Zenon
<1> QED
  BY <1>2

\* Rows with different keys differ in a first key column, where neither is NULL.
LEMMA KeyOrderIsTotal ==
    ASSUME NEW rows, rows \subseteq RowSpace,
           \A r \in rows : Null \notin Range(KeyOf(r)),
           \A r, t \in rows : KeyOf(r) = KeyOf(t) => r = t,
           NEW order_by, Sanitized(order_by) = <<>>
    PROVE  IsTotal(rows, Order(order_by))
<1> DEFINE o == Order(order_by)
<1>1. DOMAIN Pk = 1..Len(Pk) /\ Len(Pk) \in Nat
  BY PkIsKey, SequenceDomain
<1>2. o = [i \in DOMAIN Pk |-> [column |-> Pk[i], desc |-> FALSE]]
  BY DEF Order
<1>3. DOMAIN o = DOMAIN Pk /\ \A i \in DOMAIN Pk : o[i].column = Pk[i] /\ o[i].desc = FALSE
  BY <1>2
<1> HIDE DEF o
<1>4. ASSUME NEW a \in rows, NEW b \in rows, a # b
      PROVE  Before(a, b, o) \/ Before(b, a, o)
  <2> DEFINE T == {i \in DOMAIN Pk : a[Pk[i]] # b[Pk[i]]}
  <2>1. T # {}
    BY <1>4 DEF KeyOf
  <2>2. T \subseteq Nat
    BY <1>1
  <2>3. PICK k \in T : \A i \in T : k <= i
    BY <2>1, <2>2, LeastNatural
  <2>4. k \in DOMAIN Pk /\ a[Pk[k]] # b[Pk[k]]
    OBVIOUS
  <2>5. ASSUME NEW i \in 1..(k - 1) PROVE a[o[i].column] = b[o[i].column]
    <3>1. i \in DOMAIN Pk /\ ~(k <= i)
      BY <1>1, <2>4
    <3>2. a[Pk[i]] = b[Pk[i]]
      BY <2>3, <3>1
    <3> QED
      BY <1>3, <3>1, <3>2
  <2>6. ASSUME NEW r \in rows PROVE r[Pk[k]] \in Int /\ r[Pk[k]] # Null
    <3>1. Pk[k] \in Range(Pk) /\ Pk[k] \in ColumnSet
      BY <2>4, KeyColumns DEF Range
    <3>2. r[Pk[k]] \in Values \cup {Null}
      BY <3>1 DEF RowSpace
    <3>3. r[Pk[k]] # Null
      BY <3>1, KeyRange
    <3> QED
      BY <3>2, <3>3, ValuesAreIntegers
  <2>7. Less(a[Pk[k]], b[Pk[k]]) \/ Less(b[Pk[k]], a[Pk[k]])
    <3>1. a[Pk[k]] \in Int /\ a[Pk[k]] # Null /\ b[Pk[k]] \in Int /\ b[Pk[k]] # Null
      BY <2>6
    <3> QED
      BY <2>4, <3>1 DEF Less
  <2>8. k \in DOMAIN o /\ o[k].column = Pk[k] /\ o[k].desc = FALSE
    BY <1>3, <2>4
  <2> HIDE DEF T
  <2> QED
    BY <2>5, <2>7, <2>8, Zenon DEF Before
<1> QED
  BY <1>4 DEF IsTotal, o

LEMMA PrefixesAgree ==
    ASSUME NEW rows, IsFiniteSet(rows), NEW order, IsTotal(rows, order),
           NEW p, NEW q, ComesFirst(p, rows, order), ComesFirst(q, rows, order),
           Cardinality(p) = Cardinality(q)
    PROVE  p = q
<1>1. IsFiniteSet(p) /\ IsFiniteSet(q)
  BY FS_Subset DEF ComesFirst
<1>2. p \subseteq q => p = q
  BY <1>1, FS_Subset
<1>3. q \subseteq p => p = q
  BY <1>1, FS_Subset
<1>4. ASSUME NEW a \in p \ q, NEW b \in q \ p PROVE FALSE
  BY DEF ComesFirst, IsTotal
<1> QED
  BY <1>2, <1>3, <1>4

\* A sequence without repetition is as long as its range is large.
LEMMA InjectiveLength ==
    ASSUME NEW n \in Nat, NEW s, DOMAIN s = 1..n, IsInjective(s)
    PROVE  IsFiniteSet(Range(s)) /\ Cardinality(Range(s)) = n
<1> DEFINE f == [i \in 1..n |-> s[i]]
<1>1. f \in [1..n -> Range(s)] /\ (\A t \in Range(s) : \E i \in 1..n : f[i] = t) /\ DOMAIN f = 1..n
  BY DEF Range
<1>2. IsInjective(f)
  BY DEF IsInjective
<1> HIDE DEF f
<1>3. f \in Surjection(1..n, Range(s)) /\ f \in Injection(1..n, Range(s))
  BY <1>1, <1>2, Zenon DEF Surjection, Injection
<1>4. IsFiniteSet(1..n) /\ Cardinality(1..n) = n
  BY FS_Interval
<1> QED
  BY <1>3, <1>4, FS_Surjection

\* A page goes on where the client is, although the database sorts anew:
\* what comes first is the same set of rows every time.
LEMMA PageContinues ==
    ASSUME NEW rows, IsFiniteSet(rows), NEW order, IsTotal(rows, order),
           NEW got \in Seq(RowSpace), IsInjective(got), ComesFirst(Range(got), rows, order),
           NEW limit \in Nat, NEW s \in Ordered(rows, order)
    PROVE  LET end == IF Len(got) + limit < Len(s) THEN Len(got) + limit ELSE Len(s)
               all == got \o SubSeq(s, Len(got) + 1, end)
           IN  IsInjective(all) /\ ComesFirst(Range(all), rows, order)
<1> DEFINE n == Cardinality(rows)
           g == Len(got)
           end == IF g + limit < Len(s) THEN g + limit ELSE Len(s)
           answer == SubSeq(s, g + 1, end)
           all == got \o answer
           First(k) == {s[i] : i \in 1..k}
<1>1. n \in Nat
  BY FS_CardinalityType
<1>2. /\ s \in [1..n -> rows]
      /\ \A i, j \in 1..n : i # j => s[i] # s[j]
      /\ \A i, j \in 1..n : i < j => ~Before(s[j], s[i], order)
  BY DEF Ordered, SetToSeqs
<1>3. Len(s) = n
  BY <1>1, <1>2
<1>4. g \in Nat /\ DOMAIN got = 1..g
  OBVIOUS
<1>5. IsFiniteSet(Range(got)) /\ Cardinality(Range(got)) = g
  BY <1>4, InjectiveLength
<1>6. g <= n
  BY <1>1, <1>4, <1>5, FS_Subset DEF ComesFirst
<1>7. {s[i] : i \in 1..n} = rows
  <2> DEFINE im == {s[i] : i \in 1..n}
  <2>1. IsInjective(s) /\ DOMAIN s = 1..n /\ Range(s) = im
    BY <1>2 DEF IsInjective, Range
  <2>2. Cardinality(im) = n
    BY <1>1, <2>1, InjectiveLength
  <2>3. im \subseteq rows
    BY <1>2
  <2> HIDE DEF im
  <2> QED
    BY <2>2, <2>3, FS_Subset DEF n, im
<1> HIDE DEF n, g
<1>8. ASSUME NEW k \in 0..n PROVE ComesFirst(First(k), rows, order) /\ Cardinality(First(k)) = k
  <2>1. First(k) \subseteq rows
    BY <1>1, <1>2
  <2>2. ASSUME NEW a \in First(k), NEW w \in rows \ First(k) PROVE ~Before(w, a, order)
    <3>1. PICK i \in 1..k : a = s[i]
      OBVIOUS
    <3>2. PICK j \in 1..n : w = s[j]
      BY <1>7
    <3>3. j \notin 1..k
      BY <3>2
    <3> HIDE DEF First
    <3>4. i \in 1..n /\ i < j
      BY <1>1, <3>3
    <3> QED
      BY <1>2, <3>1, <3>2, <3>4
  <2>3. Cardinality(First(k)) = k
    <3> DEFINE f == [i \in 1..k |-> s[i]]
    <3>1. IsInjective(f) /\ DOMAIN f = 1..k /\ Range(f) = First(k) /\ k \in Nat
      BY <1>1, <1>2 DEF IsInjective, Range
    <3> HIDE DEF f, First
    <3> QED
      BY <3>1, InjectiveLength
  <2> QED
    BY <2>1, <2>2, <2>3 DEF ComesFirst
<1>9. Range(got) = First(g)
  <2>1. g \in 0..n
    BY <1>1, <1>4, <1>6
  <2> HIDE DEF First
  <2> QED
    BY <1>5, <1>8, <2>1, PrefixesAgree
<1>10. end \in g..n
  BY <1>1, <1>3, <1>4, <1>6
<1>11. /\ answer \in Seq(rows)
       /\ Len(answer) = end - g
       /\ \A i \in 1..(end - g) : answer[i] = s[g + i]
  <2>1. g + 1 \in Int /\ end \in Int /\ \A i \in (g + 1)..end : s[i] \in rows
    BY <1>1, <1>2, <1>4, <1>10
  <2> HIDE DEF end
  <2>2. /\ answer \in Seq(rows)
        /\ Len(answer) = IF g + 1 <= end THEN end - (g + 1) + 1 ELSE 0
        /\ \A i \in 1..(end - (g + 1) + 1) : answer[i] = s[(g + 1) + i - 1]
    BY <2>1, SubSeqProperties
  <2> HIDE DEF answer
  <2>3. end - (g + 1) + 1 = end - g /\ \A i \in 1..(end - g) : (g + 1) + i - 1 = g + i
    BY <1>1, <1>4, <1>10
  <2> QED
    BY <1>1, <1>4, <1>10, <2>2, <2>3
<1> HIDE DEF end, answer, First
<1>12. /\ DOMAIN all = 1..end
       /\ \A i \in 1..g : all[i] = got[i]
       /\ \A i \in (g + 1)..end : all[i] = s[i]
  <2>1. Len(all) = g + Len(answer) /\ all \in Seq(RowSpace \cup rows)
    <3> DEFINE U == RowSpace \cup rows
    <3>1. got \in Seq(U)
      OBVIOUS
    <3>2. answer \in Seq(U)
      BY <1>11
    <3> HIDE DEF U
    <3>3. Len(got \o answer) = Len(got) + Len(answer) /\ got \o answer \in Seq(U)
      BY <3>1, <3>2
    <3> QED
      BY <3>3 DEF g, U
  <2>2. Len(all) = end
    BY <1>1, <1>4, <1>10, <1>11, <2>1
  <2>3. \A i \in 1..g : all[i] = got[i]
    BY <1>11 DEF g
  <2>4. ASSUME NEW i \in (g + 1)..end PROVE all[i] = s[i]
    <3>1. i - g \in 1..(end - g) /\ g + (i - g) = i /\ i - g \in 1..Len(answer)
      BY <1>1, <1>4, <1>10, <1>11
    <3>2. answer[i - g] = s[i]
      BY <1>11, <3>1
    <3>3. all[g + (i - g)] = answer[i - g]
      BY <1>11, <3>1 DEF g
    <3> QED
      BY <3>1, <3>2, <3>3
  <2> HIDE DEF all
  <2>5. DOMAIN all = 1..end
    BY <2>1, <2>2
  <2> QED
    BY <2>3, <2>4, <2>5
<1> HIDE DEF all
<1>13. Range(all) = First(end)
  <2>1. Range(got) = {got[i] : i \in 1..g}
    BY <1>4 DEF Range
  <2>2. 1..end = (1..g) \cup ((g + 1)..end)
    BY <1>1, <1>4, <1>10
  <2>3. First(end) = First(g) \cup {s[i] : i \in (g + 1)..end}
    BY <2>2 DEF First
  <2>4. Range(all) = {all[i] : i \in 1..g} \cup {all[i] : i \in (g + 1)..end}
    BY <1>12, <2>2 DEF Range
  <2> QED
    <3>1. {all[i] : i \in 1..g} = {got[i] : i \in 1..g}
      BY <1>12
    <3>2. {all[i] : i \in (g + 1)..end} = {s[i] : i \in (g + 1)..end}
      BY <1>12
    <3> QED
      BY <1>9, <2>1, <2>3, <2>4, <3>1, <3>2, Zenon
<1>14. IsInjective(all)
  <2>1. ASSUME NEW i \in 1..g, NEW j \in (g + 1)..end PROVE all[i] # all[j]
    <3>1. all[i] \in First(g)
      BY <1>4, <1>9, <1>12 DEF Range
    <3>2. PICK k \in 1..g : all[i] = s[k]
      BY <3>1 DEF First
    <3>3. k \in 1..n /\ j \in 1..n /\ k # j
      BY <1>1, <1>4, <1>10
    <3> QED
      BY <1>2, <1>12, <3>2, <3>3
  <2>2. ASSUME NEW i \in 1..g, NEW j \in 1..g, all[i] = all[j] PROVE i = j
    BY <1>4, <1>12, <2>2 DEF IsInjective
  <2>3. ASSUME NEW i \in (g + 1)..end, NEW j \in (g + 1)..end, all[i] = all[j] PROVE i = j
    <3>1. i \in 1..n /\ j \in 1..n
      BY <1>1, <1>4, <1>10
    <3> QED
      BY <1>2, <1>12, <2>3, <3>1
  <2>4. \A i \in 1..end : i \in 1..g \/ i \in (g + 1)..end
    BY <1>1, <1>4, <1>10
  <2>5. \A i, j \in 1..end : all[i] = all[j] => i = j
    BY <2>1, <2>2, <2>3, <2>4
  <2> QED
    BY <1>12, <2>5, Zenon DEF IsInjective
<1>15. end \in 0..n
  BY <1>1, <1>4, <1>10
<1> QED
  BY <1>8, <1>13, <1>14, <1>15 DEF all, answer, end, g
-----------------------------------------------------------------------------
(* The invariant.                                                          *)

\* A list that is being paged: its arguments were accepted, and the client
\* has no more rows than there are.
ListOpen ==
    last.op = "list" =>
        /\ last.args \in ListArgs
        /\ ~WhereFails(last.args.where)
        /\ last.args.limit # Null => last.args.limit >= 0
        /\ last.got \in Seq(RowSpace)
        /\ Len(last.got) <= Cardinality(Wanted(last.id, last.args))
        /\ last.offset \in Nat
        /\ Len(last.got) = last.offset + Len(last.answer)

\* In the order of the key, what the client has are the rows that come first.
ListContinues ==
    (last.op = "list" /\ Sanitized(last.args.order_by) = <<>>) =>
        /\ IsInjective(last.got)
        /\ ComesFirst(Range(last.got), Wanted(last.id, last.args), Order(last.args.order_by))

IInv ==
    /\ TypeOK
    /\ IsFiniteSet(table)
    /\ StatementsWellFormed
    /\ AnswersMeanTheRequest
    /\ ListOpen
    /\ ListContinues

LEMMA WantedIsAsked == \A id, args : Wanted(id, args) = Asked(table, id, args)
BY DEF Wanted, Asked

LEMMA InitIInv == Init => IInv
<1> SUFFICES ASSUME Init PROVE IInv
  OBVIOUS
<1>1. PICK keys \in {k \in SUBSET PkValues : IsFiniteSet(k)} :
         \E row \in [keys -> RowSpace] :
             /\ \A k \in keys : KeyOf(row[k]) = k
             /\ table = {row[k] : k \in keys}
  BY DEF Init
<1>2. PICK row \in [keys -> RowSpace] :
         /\ \A k \in keys : KeyOf(row[k]) = k
         /\ table = {row[k] : k \in keys}
  BY <1>1
<1>3. IsFiniteSet(table)
  <2>1. row \in Surjection(keys, table)
    BY <1>2 DEF Surjection
  <2> QED
    BY <1>1, <2>1, FS_Surjection
<1>4. last.op = "none" /\ "stmt" \notin DOMAIN last
  <2>1. last = Quiet
    BY DEF Init
  <2>2. Quiet = [op |-> "none"]
    BY DEF Quiet
  <2> QED
    BY <2>1, <2>2
<1>5. \A r \in table : Null \notin Range(KeyOf(r))
  <2>1. \A k \in keys : Null \notin Range(k)
    BY <1>1, NullIsNoValue DEF PkValues, Range
  <2> QED
    BY <1>2, <2>1
<1>6. \A r, t \in table : KeyOf(r) = KeyOf(t) => r = t
  BY <1>2
<1>7. table \subseteq RowSpace
  BY <1>2
<1>8. TypeOK
  BY <1>4, <1>5, <1>6, <1>7, Zenon DEF TypeOK
<1> QED
  BY <1>3, <1>4, <1>8 DEF IInv, StatementsWellFormed, AnswersMeanTheRequest, ListOpen, ListContinues

LEMMA GetStep ==
    ASSUME IInv, NEW id \in Identities, NEW pk \in PkValues, Get(id, pk)
    PROVE  IInv'
<1> DEFINE stmt == WithRowFilters(Written(PkPart(Pk, pk, 1)), id, Filters)
           rows == Selected(stmt, table, Tables)
<1>1. WellFormed(stmt, {}) /\ rows = Named(table, id, pk)
  BY KeyOnly
<1> HIDE DEF stmt
<1>2. PICK answer \in IF rows = {} THEN {{}} ELSE {{r} : r \in rows} :
        last' = [op |-> "get", id |-> id, pk |-> pk, stmt |-> stmt, answer |-> answer]
  BY DEF Get, stmt
<1> HIDE DEF rows
<1>3. table' = table
  BY DEF Get
<1>4. answer = rows
  <2>1. \A r, t \in rows : r = t
    BY <1>1, NamesOne DEF IInv, TypeOK
  <2> QED
    BY <1>2, <2>1
<1>5. /\ last'.op = "get" /\ last'.stmt = stmt /\ last'.answer = answer
      /\ last'.id = id /\ last'.pk = pk
  BY <1>2
<1>6. TypeOK'
  BY <1>3, <1>5 DEF IInv, TypeOK, KeyOf, RowSpace
<1>7. StatementsWellFormed'
  BY <1>1, <1>5 DEF StatementsWellFormed
<1>8. AnswersMeanTheRequest'
  <2>1. last'.answer = {r \in table : KeyOf(r) = last'.pk /\ SqlAllows(r, last'.id, Filters, Tables)}
    BY <1>1, <1>4, <1>5 DEF Named
  <2> QED
    BY <1>3, <1>5, <2>1 DEF AnswersMeanTheRequest
<1>9. ListOpen' /\ ListContinues'
  BY <1>5 DEF ListOpen, ListContinues
<1> QED
  BY <1>3, <1>6, <1>7, <1>8, <1>9 DEF IInv

LEMMA PageStep ==
    ASSUME IInv, NEW id, NEW args \in ListArgs, NEW got \in Seq(RowSpace),
           ~WhereFails(args.where), args.limit # Null => args.limit >= 0,
           Len(got) <= Cardinality(Wanted(id, args)),
           Sanitized(args.order_by) = <<>> =>
               /\ IsInjective(got)
               /\ ComesFirst(Range(got), Wanted(id, args), Order(args.order_by)),
           Page(id, args, got), table' = table
    PROVE  IInv'
<1> DEFINE stmt == WithRowFilters(BothParts(args.filter, args.where, ColumnSet), id, Filters)
           rows == Selected(stmt, table, Tables)
           limit == EffectiveLimit(args.limit)
<1>1. WellFormed(stmt, {}) /\ rows = Asked(table, id, args)
  BY ListStatement
<1>2. limit \in Nat
  BY ArgsTyped, LimitNatural
<1> HIDE DEF stmt
<1>3. PICK s \in Ordered(rows, Order(args.order_by)) :
         LET end == IF Len(got) + limit < Len(s) THEN Len(got) + limit ELSE Len(s)
             answer == SubSeq(s, Len(got) + 1, end)
         IN  last' = [op |-> "list", id |-> id, args |-> args, stmt |-> stmt,
                      offset |-> Len(got), answer |-> answer, got |-> got \o answer]
  BY DEF Page, stmt
<1> DEFINE end == IF Len(got) + limit < Len(s) THEN Len(got) + limit ELSE Len(s)
           answer == SubSeq(s, Len(got) + 1, end)
           left == Cardinality(rows) - Len(got)
           all == got \o answer
<1> HIDE DEF rows, limit
<1>4. rows = Wanted(id, args) /\ rows \subseteq table
  BY <1>1, WantedIsAsked DEF Asked
<1>5. IsFiniteSet(rows) /\ rows \subseteq RowSpace
  BY <1>4, FS_Subset DEF IInv, TypeOK
<1>6. s \in SetToSeqs(rows)
  BY <1>3 DEF Ordered
<1>7. /\ Range(answer) \subseteq rows
      /\ Len(answer) = IF left < limit THEN left ELSE limit
      /\ all \in Seq(RowSpace)
      /\ Len(all) <= Cardinality(rows)
      /\ Len(all) = Len(got) + Len(answer)
  BY <1>2, <1>4, <1>5, <1>6, PageFacts
<1>p. Sanitized(args.order_by) = <<>> =>
          IsInjective(all) /\ ComesFirst(Range(all), rows, Order(args.order_by))
  <2>1. /\ \A r \in rows : Null \notin Range(KeyOf(r))
        /\ \A r, t \in rows : KeyOf(r) = KeyOf(t) => r = t
    BY <1>4 DEF IInv, TypeOK
  <2>2. SUFFICES ASSUME Sanitized(args.order_by) = <<>>
                 PROVE  IsInjective(all) /\ ComesFirst(Range(all), rows, Order(args.order_by))
    OBVIOUS
  <2>3. IsTotal(rows, Order(args.order_by))
    BY <1>5, <2>1, <2>2, KeyOrderIsTotal
  <2>4. IsInjective(got) /\ ComesFirst(Range(got), rows, Order(args.order_by))
    BY <1>4, <2>2
  <2> QED
    BY <1>2, <1>3, <1>5, <2>3, <2>4, PageContinues
<1>8. last' = [op |-> "list", id |-> id, args |-> args, stmt |-> stmt,
               offset |-> Len(got), answer |-> answer, got |-> all]
  BY <1>3, Zenon
<1> HIDE DEF end, answer, all
<1>9. /\ last'.op = "list" /\ last'.id = id /\ last'.args = args /\ last'.stmt = stmt
      /\ last'.offset = Len(got) /\ last'.answer = answer /\ last'.got = all
  BY <1>8
<1>10. Wanted(last.id, last.args)' = rows
  BY <1>4, <1>9 DEF Wanted
<1>11. TypeOK'
  BY <1>9 DEF IInv, TypeOK, KeyOf, RowSpace
<1>12. StatementsWellFormed'
  BY <1>1, <1>9 DEF StatementsWellFormed
<1>13. AnswersMeanTheRequest'
  <2>1. limit = EffectiveLimit(last'.args.limit)
    BY <1>9 DEF limit
  <2> QED
    BY <1>7, <1>9, <1>10, <2>1 DEF AnswersMeanTheRequest
<1>14. ListOpen'
  BY <1>7, <1>9, <1>10 DEF ListOpen
<1>15. ListContinues'
  BY <1>p, <1>9, <1>10 DEF ListContinues
<1> QED
  BY <1>11, <1>12, <1>13, <1>14, <1>15 DEF IInv

LEMMA CreateStep ==
    ASSUME IInv, NEW id \in Identities, NEW input \in Inputs, Create(id, input)
    PROVE  IInv'
<1> DEFINE given == InputBinds(input)
           headers == HeaderBinds(id)
           named == given \cup {Filters[i].column : i \in headers}
<1>1. PICK row \in RowSpace :
        /\ \A c \in given : row[c] = input[c]
        /\ \A c \in ColumnSet \ named :
              IF c \in Range(Pk) THEN row[c] # Null ELSE row[c] = Null
        /\ KeyOf(row) \notin {KeyOf(r) : r \in table}
        /\ table' = table \cup {row}
        /\ last' = [op |-> "create", id |-> id, answer |-> {row}]
  BY Zenon DEF Create
<1>2. \A c \in given : input[c] # Null
  BY DEF InputBinds
<1>3. ASSUME NEW c \in Range(Pk) PROVE row[c] # Null
  <2>1. c \in ColumnSet
    BY KeyColumns
  <2>2. c \notin {Filters[i].column : i \in headers}
    BY FiltersTyped DEF HeaderBinds, AutoSet
  <2> HIDE DEF given, headers
  <2> QED
    BY <1>1, <1>2, <2>1, <2>2
<1> HIDE DEF given, headers, named
<1>4. last'.op = "create" /\ "stmt" \notin DOMAIN last'
  BY <1>1
<1>5. Null \notin Range(KeyOf(row))
  BY <1>3, KeyRange
<1>6. TypeOK'
  <2>1. table' \subseteq RowSpace
    BY <1>1 DEF IInv, TypeOK
  <2>2. \A r \in table' : Null \notin Range(KeyOf(r))
    BY <1>1, <1>5 DEF IInv, TypeOK
  <2>3. \A r, t \in table' : KeyOf(r) = KeyOf(t) => r = t
    BY <1>1 DEF IInv, TypeOK
  <2> QED
    BY <1>4, <2>1, <2>2, <2>3 DEF TypeOK, KeyOf, RowSpace
<1>7. IsFiniteSet(table')
  BY <1>1, FS_AddElement DEF IInv
<1> QED
  BY <1>4, <1>6, <1>7 DEF IInv, StatementsWellFormed, AnswersMeanTheRequest, ListOpen, ListContinues

LEMMA UpdateStep ==
    ASSUME IInv, NEW id \in Identities, NEW pk \in PkValues, NEW input \in Inputs,
           Update(id, pk, input)
    PROVE  IInv'
<1> DEFINE stmt == UpdateStatement(id, pk, input)
           rows == Selected(stmt, table, Tables)
           changed == {Changed(r, input) : r \in rows}
           kept == table \ rows
<1>1. WellFormed(stmt, 1..Len(SetParams(input))) /\ rows = Named(table, id, pk)
  BY UpdateMeans
<1> HIDE DEF stmt
<1>2. /\ \A r \in changed : /\ Null \notin Range(KeyOf(r))
                            /\ \A t \in kept : KeyOf(r) # KeyOf(t)
      /\ table' = kept \cup changed
      /\ last' = [op |-> "update", id |-> id, pk |-> pk, stmt |-> stmt,
                  set |-> Len(SetParams(input)), answer |-> changed]
  BY Zenon DEF Update, stmt
<1>3. last'.op = "update" /\ last'.stmt = stmt /\ last'.set = Len(SetParams(input))
  BY <1>2
<1> HIDE DEF rows
<1>4. rows \subseteq table /\ \A r, t \in rows : r = t
  BY <1>1, NamesOne DEF IInv, TypeOK, Named
<1>5. ASSUME NEW r \in rows PROVE Changed(r, input) \in RowSpace
  <2>1. \A c \in ColumnSet : r[c] \in Values \cup {Null}
    BY <1>4 DEF IInv, TypeOK, RowSpace
  <2>2. \A c \in SetColumns(input) : input[c] \in Values \cup {Null}
    BY InputsTyped DEF SetColumns, ColumnSet
  <2> QED
    BY <2>1, <2>2 DEF Changed, RowSpace
<1>6. changed \subseteq RowSpace /\ \A r, t \in changed : r = t
  BY <1>4, <1>5
<1>7. IsFiniteSet(changed)
  <2>1. changed = {} \/ \E x : changed = {x}
    BY <1>6
  <2> HIDE DEF changed
  <2> QED
    BY <2>1, FS_EmptySet, FS_Singleton
<1> HIDE DEF changed
<1>8. IsFiniteSet(table')
  <2>1. IsFiniteSet(kept)
    BY FS_Subset DEF IInv
  <2> QED
    BY <1>2, <1>7, <2>1, FS_Union
<1>9. TypeOK'
  <2>1. table' \subseteq RowSpace
    BY <1>2, <1>6 DEF IInv, TypeOK
  <2>2. \A r \in table' : Null \notin Range(KeyOf(r))
    BY <1>2 DEF IInv, TypeOK
  <2>3. \A r, t \in table' : KeyOf(r) = KeyOf(t) => r = t
    BY <1>2, <1>6 DEF IInv, TypeOK
  <2> QED
    BY <1>3, <2>1, <2>2, <2>3 DEF TypeOK, KeyOf, RowSpace
<1>10. StatementsWellFormed'
  BY <1>1, <1>3 DEF StatementsWellFormed
<1> QED
  BY <1>3, <1>8, <1>9, <1>10 DEF IInv, AnswersMeanTheRequest, ListOpen, ListContinues

LEMMA DeleteStep ==
    ASSUME IInv, NEW id \in Identities, NEW pk \in PkValues, Delete(id, pk)
    PROVE  IInv'
<1> DEFINE stmt == WithRowFilters(Written(PkPart(Pk, pk, 1)), id, Filters)
           rows == Selected(stmt, table, Tables)
<1>1. WellFormed(stmt, {})
  BY KeyOnly
<1>2. /\ table' = table \ rows
      /\ last' = [op |-> "delete", id |-> id, pk |-> pk, stmt |-> stmt, answer |-> rows]
  BY Zenon DEF Delete
<1> HIDE DEF stmt, rows
<1>3. last'.op = "delete" /\ last'.stmt = stmt
  BY <1>2
<1>4. IsFiniteSet(table')
  BY <1>2, FS_Subset DEF IInv
<1>5. TypeOK'
  BY <1>2, <1>3 DEF IInv, TypeOK, KeyOf, RowSpace
<1>6. StatementsWellFormed'
  BY <1>1, <1>3 DEF StatementsWellFormed
<1> QED
  BY <1>3, <1>4, <1>5, <1>6 DEF IInv, AnswersMeanTheRequest, ListOpen, ListContinues

LEMMA QuietStep ==
    ASSUME IInv, table' = table, last' = last \/ last' = Quiet
    PROVE  IInv'
<1>1. CASE last' = last
  BY <1>1 DEF IInv, TypeOK, StatementsWellFormed, AnswersMeanTheRequest, ListOpen, ListContinues, Wanted, KeyOf, RowSpace
<1>2. CASE last' = Quiet
  <2>1. Quiet = [op |-> "none"]
    BY DEF Quiet
  <2>2. last'.op = "none" /\ "stmt" \notin DOMAIN last'
    BY <1>2, <2>1
  <2>3. TypeOK'
    BY <2>2 DEF IInv, TypeOK, KeyOf, RowSpace
  <2> QED
    BY <2>2, <2>3 DEF IInv, StatementsWellFormed, AnswersMeanTheRequest, ListOpen, ListContinues
<1> QED
  BY <1>1, <1>2

LEMMA NextIInv == IInv /\ [Next]_vars => IInv'
<1> SUFFICES ASSUME IInv, [Next]_vars PROVE IInv'
  OBVIOUS
<1>1. ASSUME NEW id \in Identities, NEW pk \in PkValues, Get(id, pk) PROVE IInv'
  BY <1>1, GetStep
<1>2. ASSUME NEW id \in Identities, NEW pk \in PkValues, Delete(id, pk) PROVE IInv'
  BY <1>2, DeleteStep
<1>3. ASSUME NEW id \in Identities, NEW args \in ListArgs, List(id, args) PROVE IInv'
  <2>1. /\ ~WhereFails(args.where)
        /\ args.limit # Null => args.limit >= 0
        /\ Page(id, args, <<>>) /\ table' = table
    BY <1>3 DEF List
  <2>2. <<>> \in Seq(RowSpace) /\ Len(<<>>) = 0
    OBVIOUS
  <2>3. Len(<<>>) <= Cardinality(Wanted(id, args))
    <3>1. IsFiniteSet(Wanted(id, args))
      BY FS_Subset DEF IInv, Wanted
    <3>2. Cardinality(Wanted(id, args)) \in Nat
      BY <3>1, FS_CardinalityType
    <3> QED
      BY <2>2, <3>2
  <2>4. <<>> \in Seq(RowSpace)
    BY <2>2, Zenon
  <2>5. IsInjective(<<>>) /\ Range(<<>>) = {}
    BY DEF IsInjective, Range
  <2>6. ComesFirst(Range(<<>>), Wanted(id, args), Order(args.order_by))
    BY <2>5 DEF ComesFirst
  <2> QED
    BY <2>1, <2>3, <2>4, <2>5, <2>6, PageStep, Zenon
<1>4. ASSUME NEW id \in Identities, NEW input \in Inputs, Create(id, input) PROVE IInv'
  BY <1>4, CreateStep
<1>5. ASSUME NEW id \in Identities, NEW pk \in PkValues, NEW input \in Inputs, Update(id, pk, input)
      PROVE  IInv'
  BY <1>5, UpdateStep
<1>6. CASE NextPage
  <2>1. /\ last.op = "list" /\ Page(last.id, last.args, last.got) /\ table' = table
    BY <1>6 DEF NextPage
  <2> QED
    BY <2>1, PageStep DEF IInv, ListOpen, ListContinues
<1>7. CASE Answered
  BY <1>7, QuietStep DEF Answered
<1>8. CASE UNCHANGED vars
  BY <1>8, QuietStep DEF vars
<1> QED
  BY <1>1, <1>2, <1>3, <1>4, <1>5, <1>6, <1>7, <1>8 DEF Next

LEMMA InvariantHolds == Spec => []IInv
BY InitIInv, NextIInv, PTL DEF Spec
-----------------------------------------------------------------------------
(* The theorems.                                                           *)

\* The rows stay rows of the table, and no two of them have the same key.
THEOREM TypeCorrect == Spec => []TypeOK
<1>1. IInv => TypeOK
  BY DEF IInv
<1> QED
  BY <1>1, InvariantHolds, PTL

\* Every statement of every request is one PostgreSQL can parse and bind,
\* whatever columns, keys, filters, identities and arguments there are.
THEOREM StatementsCorrect == Spec => []StatementsWellFormed
<1>1. IInv => StatementsWellFormed
  BY DEF IInv
<1> QED
  BY <1>1, InvariantHolds, PTL

\* A query answers what it was asked, less what the row filters hide.
THEOREM AnswersCorrect == Spec => []AnswersMeanTheRequest
<1>1. IInv => AnswersMeanTheRequest
  BY DEF IInv
<1> QED
  BY <1>1, InvariantHolds, PTL

\* A client that pages in the order of the key until it gets nothing has every
\* row it asked for once, if nobody wrote meanwhile.
THEOREM PagesCorrect == Spec => []PagesCoverTable
<1>1. ASSUME IInv PROVE PagesCoverTable
  <2> DEFINE W == Wanted(last.id, last.args)
             limit == EffectiveLimit(last.args.limit)
  <2> SUFFICES ASSUME last.op = "list", last.answer = <<>>,
                      Sanitized(last.args.order_by) = <<>>, limit > 0
               PROVE  IsInjective(last.got) /\ Range(last.got) = W
    BY DEF PagesCoverTable
  <2>1. IsInjective(last.got) /\ Range(last.got) \subseteq W
    BY <1>1 DEF IInv, ListContinues, ComesFirst
  <2>2. IsFiniteSet(W) /\ Cardinality(W) \in Nat
    BY <1>1, FS_Subset, FS_CardinalityType DEF IInv, Wanted
  <2>3. limit \in Nat
    <3>1. last.args.limit # Null => last.args.limit \in Int /\ last.args.limit >= 0
      BY <1>1, ArgsTyped DEF IInv, ListOpen
    <3> QED
      BY <3>1, LimitNatural
  <2>4. Len(last.got) \in Nat /\ DOMAIN last.got = 1..Len(last.got)
    BY <1>1 DEF IInv, ListOpen
  <2>5. Len(last.got) = last.offset
    <3>1. last.offset \in Nat /\ Len(last.got) = last.offset + Len(last.answer)
      BY <1>1 DEF IInv, ListOpen
    <3> QED
      BY <3>1
  <2>6. Len(last.answer) = 0
    OBVIOUS
  <2>7. Len(last.answer) = IF Cardinality(W) - last.offset < limit
                           THEN Cardinality(W) - last.offset ELSE limit
    BY <1>1 DEF IInv, AnswersMeanTheRequest
  <2> HIDE DEF W, limit
  <2>8. Cardinality(W) = Len(last.got)
    BY <2>2, <2>3, <2>4, <2>5, <2>6, <2>7
  <2>9. Cardinality(Range(last.got)) = Len(last.got)
    BY <2>1, <2>4, InjectiveLength
  <2> QED
    BY <2>1, <2>2, <2>8, <2>9, FS_Subset
<1> QED
  BY <1>1, InvariantHolds, PTL

\* Update and delete touch the row they name, if its row filters match.
THEOREM OnlyMatchingCorrect == Spec => OnlyMatchingRowsModified
<1> DEFINE A == \A r \in table \ table' :
                    KeyOf(r) = last'.pk /\ SqlAllows(r, last'.id, Filters, Tables)
<1>1. ASSUME [Next]_vars PROVE [A]_vars
  <2> SUFFICES ASSUME NEW r \in table \ table'
               PROVE  KeyOf(r) = last'.pk /\ SqlAllows(r, last'.id, Filters, Tables)
    OBVIOUS
  <2>1. ASSUME NEW id \in Identities, NEW pk \in PkValues, Delete(id, pk)
        PROVE  KeyOf(r) = last'.pk /\ SqlAllows(r, last'.id, Filters, Tables)
    <3> DEFINE stmt == WithRowFilters(Written(PkPart(Pk, pk, 1)), id, Filters)
               rows == Selected(stmt, table, Tables)
    <3>1. rows = Named(table, id, pk)
      BY KeyOnly
    <3>2. /\ table' = table \ rows
          /\ last' = [op |-> "delete", id |-> id, pk |-> pk, stmt |-> stmt, answer |-> rows]
      BY <2>1, Zenon DEF Delete
    <3> HIDE DEF rows, stmt
    <3>3. r \in rows /\ last'.pk = pk /\ last'.id = id
      BY <3>2
    <3> QED
      BY <3>1, <3>3 DEF Named
  <2>2. ASSUME NEW id \in Identities, NEW pk \in PkValues, NEW input \in Inputs, Update(id, pk, input)
        PROVE  KeyOf(r) = last'.pk /\ SqlAllows(r, last'.id, Filters, Tables)
    <3> DEFINE stmt == UpdateStatement(id, pk, input)
               rows == Selected(stmt, table, Tables)
               changed == {Changed(t, input) : t \in rows}
    <3>1. rows = Named(table, id, pk)
      BY UpdateMeans
    <3>2. /\ table' = (table \ rows) \cup changed
          /\ last' = [op |-> "update", id |-> id, pk |-> pk, stmt |-> stmt,
                      set |-> Len(SetParams(input)), answer |-> changed]
      BY <2>2, Zenon DEF Update
    <3> HIDE DEF rows, stmt, changed
    <3>3. r \in rows /\ last'.pk = pk /\ last'.id = id
      BY <3>2
    <3> QED
      BY <3>1, <3>3 DEF Named
  <2>3. ASSUME NEW id \in Identities, NEW input \in Inputs, Create(id, input)
        PROVE  FALSE
    BY <2>3, Zenon DEF Create
  <2>4. table' # table
    OBVIOUS
  <2>5. ASSUME NEW id \in Identities, NEW pk \in PkValues, Get(id, pk) PROVE FALSE
    BY <2>4, <2>5 DEF Get
  <2>6. ASSUME NEW id \in Identities, NEW args \in ListArgs, List(id, args) PROVE FALSE
    BY <2>4, <2>6 DEF List
  <2>7. ~NextPage /\ ~Answered /\ ~UNCHANGED vars
    BY <2>4 DEF NextPage, Answered, vars
  <2> QED
    BY <1>1, <2>1, <2>2, <2>3, <2>5, <2>6, <2>7 DEF Next
<1> QED
  BY <1>1, PTL DEF Spec, OnlyMatchingRowsModified

\* A row that was created holds in the auto-set columns what the headers say,
\* and NULL where the header is missing.
THEOREM CreatedCorrect == Spec => []CreatedRowsHoldHeaders
<1>1. Init => CreatedRowsHoldHeaders
  <2>1. Quiet.op = "none"
    BY DEF Quiet
  <2> QED
    BY <2>1 DEF Init, CreatedRowsHoldHeaders
<1>2. ASSUME CreatedRowsHoldHeaders, [Next]_vars PROVE CreatedRowsHoldHeaders'
  <2>1. ASSUME NEW id \in Identities, NEW input \in Inputs, Create(id, input)
        PROVE  CreatedRowsHoldHeaders'
    <3> DEFINE given == InputBinds(input)
               headers == HeaderBinds(id)
               named == given \cup {Filters[i].column : i \in headers}
    <3>1. PICK row \in RowSpace :
            /\ \A i \in headers : row[Filters[i].column] = id[Filters[i].from_header]
            /\ \A c \in ColumnSet \ named :
                  IF c \in Range(Pk) THEN row[c] # Null ELSE row[c] = Null
            /\ last' = [op |-> "create", id |-> id, answer |-> {row}]
      BY <2>1, Zenon DEF Create
    <3>2. last'.id = id /\ last'.answer = {row}
      BY <3>1
    <3>3. ASSUME NEW i \in AutoSet, ~Matches(Filters[i], id)
          PROVE  row[Filters[i].column] = Null
      <4>1. Filters[i].column \in ColumnSet \ Range(Pk)
        BY FiltersTyped DEF AutoSet, ColumnSet
      <4>2. Filters[i].column \notin given
        BY DEF InputBinds, AutoSetColumns
      <4>3. \A j \in headers : Filters[j].column # Filters[i].column
        BY <3>3, FiltersTyped DEF HeaderBinds, AutoSet
      <4> HIDE DEF given, headers
      <4>4. Filters[i].column \in ColumnSet \ named
        BY <4>1, <4>2, <4>3
      <4> QED
        BY <3>1, <4>1, <4>4
    <3>4. \A i \in AutoSet : Matches(Filters[i], id) => i \in headers
      BY DEF HeaderBinds
    <3> HIDE DEF given, headers, named
    <3>5. \A i \in AutoSet : row[Filters[i].column] = IF Matches(Filters[i], id)
                                                      THEN id[Filters[i].from_header] ELSE Null
      BY <3>1, <3>3, <3>4
    <3> QED
      BY <3>2, <3>5 DEF CreatedRowsHoldHeaders, AutoSet
  <2>2. ASSUME last' = last \/ last'.op # "create" PROVE CreatedRowsHoldHeaders'
    BY <1>2, <2>2 DEF CreatedRowsHoldHeaders, AutoSet
  <2>3. ASSUME NEW id \in Identities, NEW pk \in PkValues, Get(id, pk)
        PROVE  last'.op # "create"
    <3>1. \E s, a : last' = [op |-> "get", id |-> id, pk |-> pk, stmt |-> s, answer |-> a]
      BY <2>3, Zenon DEF Get
    <3> QED
      BY <3>1
  <2>4. ASSUME NEW id \in Identities, NEW pk \in PkValues, Delete(id, pk)
        PROVE  last'.op # "create"
    <3>1. \E s, a : last' = [op |-> "delete", id |-> id, pk |-> pk, stmt |-> s, answer |-> a]
      BY <2>4, Zenon DEF Delete
    <3> QED
      BY <3>1
  <2>5. ASSUME NEW id, NEW args, NEW got, Page(id, args, got)
        PROVE  last'.op # "create"
    <3>1. \E s, o, a, g : last' = [op |-> "list", id |-> id, args |-> args, stmt |-> s,
                                   offset |-> o, answer |-> a, got |-> g]
      BY <2>5, Zenon DEF Page
    <3> QED
      BY <3>1
  <2>6. ASSUME NEW id \in Identities, NEW pk \in PkValues, NEW input \in Inputs, Update(id, pk, input)
        PROVE  last'.op # "create"
    <3>1. \E s, n, a : last' = [op |-> "update", id |-> id, pk |-> pk, stmt |-> s, set |-> n, answer |-> a]
      BY <2>6, Zenon DEF Update
    <3> QED
      BY <3>1
  <2>7. ASSUME Answered PROVE last'.op # "create"
    BY <2>7 DEF Answered, Quiet
  <2>8. ASSUME UNCHANGED vars PROVE last' = last
    BY <2>8 DEF vars
  <2> QED
    BY <1>2, <2>1, <2>2, <2>3, <2>4, <2>5, <2>6, <2>7, <2>8 DEF Next, List, NextPage
<1> QED
  BY <1>1, <1>2, PTL DEF Spec
=============================================================================
