------------------------ MODULE IndexPipelineProofs ------------------------
(***************************************************************************)
(* Proofs about IndexPipeline for any materials and rows and any number of *)
(* writes: the foreign keys hold, and a stale document is always followed  *)
(* by a notification unless one was forsaken.                              *)
(*                                                                         *)
(* The second is not inductive as it stands.  What the consumer is about   *)
(* to write was read in pieces, so the invariant says of every piece that  *)
(* it is still what the database holds, or that the material changed since *)
(* and waits for another message (ConsumerSound).                          *)
(***************************************************************************)
EXTENDS IndexPipeline, TLAPS

\* The parts of a document, as the resolvers read them.
Plain(m) == SelectChildren(ChildrenOf(m) \ Features)
OfFeatures(m) == SelectChildren(ChildrenOf(m) \cap Features)
OfAttrs(m) == SelectAttrs(ChildrenOf(m) \cap Features)

Typed ==
    /\ mats \subseteq Mats
    /\ owner \in [Rows -> Mats \cup Features \cup {None}]
    /\ \A r \in Rows : owner[r] # None => owner[r] \in Parents(r)
    /\ rev \in [Mats \cup Rows -> {0, 1}]
    /\ channel \in Seq(Mats) /\ queue \in Seq(Mats)
    /\ ~listening => channel = <<>>
    /\ consumer = [pc |-> consumer.pc, mat |-> consumer.mat, rev |-> consumer.rev,
                   children |-> consumer.children, attrs |-> consumer.attrs]
    /\ consumer.pc \in {"idle", "gone", "plain", "features", "attrs", "write"}
    /\ consumer.pc = "idle" => consumer = Idle
    /\ consumer.pc # "idle" => consumer.mat \in Mats
    /\ index = [m \in Mats |-> index[m]]
    /\ forsaken \subseteq Mats

\* A message for m is under way, apart from the one the consumer has, or no
\* message is to be expected.
Waiting(m) == m \in Range(channel) \cup Range(queue) \cup forsaken

\* What the consumer has read of m is what the database holds.
ReadIsCurrent(m) ==
    /\ consumer.pc # "gone"
    /\ consumer.rev = rev[m]
    /\ consumer.pc = "features" => consumer.children = Plain(m)
    /\ consumer.pc \in {"attrs", "write"} => consumer.children = Plain(m) \cup OfFeatures(m)
    /\ consumer.pc = "write" => consumer.attrs = OfAttrs(m)

ConsumerSound ==
    consumer.pc # "idle" =>
        \/ consumer.mat \notin mats
        \/ Waiting(consumer.mat)
        \/ ReadIsCurrent(consumer.mat)

IInv == Typed /\ ConsumerSound /\ StaleOnlyWhilePending

\* The step changes nothing that the document of m is made of.
Same(m) ==
    /\ m \in mats
    /\ rev'[m] = rev[m]
    /\ \A c \in Children :
          /\ owner'[c] = m <=> owner[c] = m
          /\ owner[c] = m => rev'[c] = rev[c]
    /\ \A f \in Features, a \in Attrs :
          owner[f] = m => /\ owner'[a] = f <=> owner[a] = f
                          /\ owner[a] = f => rev'[a] = rev[a]
-----------------------------------------------------------------------------
(* Sequences of messages.                                                  *)

LEMMA RangeFacts ==
    ASSUME NEW seq \in Seq(Mats), NEW m \in Mats
    PROVE  /\ Append(seq, m) \in Seq(Mats)
           /\ Range(Append(seq, m)) = Range(seq) \cup {m}
           /\ <<m>> \o seq \in Seq(Mats)
           /\ Range(<<m>> \o seq) = Range(seq) \cup {m}
<1>1. Append(seq, m) \in Seq(Mats) /\ Range(Append(seq, m)) = Range(seq) \cup {m}
  <2>1. /\ Len(Append(seq, m)) = Len(seq) + 1
        /\ \A i \in 1..Len(seq) : Append(seq, m)[i] = seq[i]
        /\ Append(seq, m)[Len(seq) + 1] = m
        /\ Append(seq, m) \in Seq(Mats)
    OBVIOUS
  <2>2. DOMAIN Append(seq, m) = 1..(Len(seq) + 1) /\ DOMAIN seq = 1..Len(seq)
    BY <2>1
  <2> QED
    BY <2>1, <2>2 DEF Range
<1>2. <<m>> \o seq \in Seq(Mats) /\ Range(<<m>> \o seq) = Range(seq) \cup {m}
  <2>1. /\ Len(<<m>> \o seq) = Len(seq) + 1
        /\ \A i \in 1..Len(seq) : (<<m>> \o seq)[i + 1] = seq[i]
        /\ (<<m>> \o seq)[1] = m
        /\ <<m>> \o seq \in Seq(Mats)
    OBVIOUS
  <2>2. DOMAIN (<<m>> \o seq) = 1..(Len(seq) + 1) /\ DOMAIN seq = 1..Len(seq)
    BY <2>1
  <2>3. \A i \in 1..(Len(seq) + 1) :
          i = 1 \/ ((i - 1) \in 1..Len(seq) /\ (<<m>> \o seq)[i] = seq[i - 1])
    BY <2>1
  <2>4. \A i \in 1..Len(seq) : i + 1 \in 1..(Len(seq) + 1)
    OBVIOUS
  <2>5. Range(<<m>> \o seq) \subseteq Range(seq) \cup {m}
    BY <2>1, <2>2, <2>3 DEF Range
  <2>6. Range(seq) \cup {m} \subseteq Range(<<m>> \o seq)
    <3>1. 1 \in DOMAIN (<<m>> \o seq)
      BY <2>2
    <3>2. m \in Range(<<m>> \o seq)
      BY <2>1, <3>1 DEF Range
    <3>3. ASSUME NEW i \in DOMAIN seq PROVE seq[i] \in Range(<<m>> \o seq)
      <4>1. i + 1 \in DOMAIN (<<m>> \o seq) /\ seq[i] = (<<m>> \o seq)[i + 1]
        BY <2>1, <2>2, <2>4, <3>3
      <4> QED
        BY <4>1 DEF Range
    <3> QED
      BY <3>2, <3>3 DEF Range
  <2> QED
    BY <2>1, <2>5, <2>6
<1> QED
  BY <1>1, <1>2

LEMMA TailFacts ==
    ASSUME NEW seq \in Seq(Mats), seq # <<>>
    PROVE  /\ Head(seq) \in Mats /\ Tail(seq) \in Seq(Mats)
           /\ Range(seq) = Range(Tail(seq)) \cup {Head(seq)}
<1>1. /\ Len(Tail(seq)) = Len(seq) - 1
      /\ \A i \in 1..(Len(seq) - 1) : Tail(seq)[i] = seq[i + 1]
      /\ Head(seq) = seq[1] /\ Len(seq) > 0
      /\ Tail(seq) \in Seq(Mats) /\ Head(seq) \in Mats
  OBVIOUS
<1>2. DOMAIN Tail(seq) = 1..(Len(seq) - 1) /\ DOMAIN seq = 1..Len(seq)
  BY <1>1
<1>3. Range(seq) \subseteq Range(Tail(seq)) \cup {Head(seq)}
  <2>1. ASSUME NEW i \in DOMAIN seq
        PROVE  seq[i] = Head(seq) \/ seq[i] \in Range(Tail(seq))
    <3>1. i = 1 \/ (i - 1 \in DOMAIN Tail(seq) /\ Tail(seq)[i - 1] = seq[i])
      BY <1>1, <1>2, <2>1
    <3> QED
      BY <1>1, <3>1 DEF Range
  <2> QED
    BY <2>1 DEF Range
<1>4. Range(Tail(seq)) \cup {Head(seq)} \subseteq Range(seq)
  <2>1. 1 \in DOMAIN seq /\ \A i \in DOMAIN Tail(seq) : i + 1 \in DOMAIN seq
    BY <1>1, <1>2
  <2> QED
    BY <1>1, <1>2, <2>1 DEF Range
<1> QED
  BY <1>1, <1>3, <1>4
-----------------------------------------------------------------------------
(* Documents.                                                              *)

\* A step that is the Same for m changes neither its document nor any part.
LEMMA SameDocument ==
    ASSUME NEW m, Same(m), FeaturesAreChildren
    PROVE  /\ Document(m)' = Document(m)
           /\ Plain(m)' = Plain(m) /\ OfFeatures(m)' = OfFeatures(m) /\ OfAttrs(m)' = OfAttrs(m)
<1>1. ChildrenOf(m)' = ChildrenOf(m)
  BY DEF Same, ChildrenOf
<1>2. \A c \in ChildrenOf(m) : rev'[c] = rev[c]
  BY DEF Same, ChildrenOf
<1>3. ASSUME NEW S \in SUBSET ChildrenOf(m)
      PROVE  {<<c, rev'[c]>> : c \in S} = {<<c, rev[c]>> : c \in S}
  BY <1>2
<1>4. OfAttrs(m)' = OfAttrs(m)
  <2> DEFINE F == ChildrenOf(m) \cap Features
             A == {b \in Attrs : owner[b] \in F}
  <2>1. \A f \in F : owner[f] = m /\ f \in Features
    BY DEF ChildrenOf
  <2>2. {b \in Attrs : owner'[b] \in F} = A
    BY <2>1 DEF Same
  <2>3. \A a \in A : owner'[a] = owner[a] /\ rev'[a] = rev[a]
    BY <2>1 DEF Same
  <2> HIDE DEF A, F
  <2>4. {<<a, owner'[a], rev'[a]>> : a \in A} = {<<a, owner[a], rev[a]>> : a \in A}
    BY <2>3
  <2> QED
    BY <1>1, <2>2, <2>4 DEF OfAttrs, SelectAttrs, A, F
<1>5. Plain(m)' = Plain(m)
  BY <1>1, <1>3 DEF Plain, SelectChildren
<1>6. OfFeatures(m)' = OfFeatures(m)
  BY <1>1, <1>3 DEF OfFeatures, SelectChildren
<1>7. SelectChildren(ChildrenOf(m))' = SelectChildren(ChildrenOf(m))
  BY <1>1, <1>3 DEF SelectChildren
<1> QED
  BY <1>4, <1>5, <1>6, <1>7 DEF Document, OfAttrs, Same

\* A document that was read in pieces, all of them current, is the document.
LEMMA PiecesMakeDocument ==
    ASSUME NEW m
    PROVE  /\ {p[1] : p \in Plain(m) \cup OfFeatures(m)} \cap Features = ChildrenOf(m) \cap Features
           /\ Document(m) = [rev |-> rev[m], children |-> Plain(m) \cup OfFeatures(m),
                             attrs |-> OfAttrs(m)]
<1>1. Plain(m) \cup OfFeatures(m) = SelectChildren(ChildrenOf(m))
  BY DEF Plain, OfFeatures, SelectChildren
<1>2. {p[1] : p \in SelectChildren(ChildrenOf(m))} = ChildrenOf(m)
  <2>1. \A c : <<c, rev[c]>>[1] = c
    OBVIOUS
  <2> QED
    BY <2>1, Zenon DEF SelectChildren
<1> QED
  BY <1>1, <1>2 DEF Document, OfAttrs
-----------------------------------------------------------------------------
(* Types and foreign keys.                                                 *)

LEMMA RowFacts ==
    /\ Rows = Children \cup Attrs /\ Features \subseteq Children
    /\ Mats \cap Rows = {} /\ Children \cap Attrs = {}
    /\ None \notin Mats /\ None \notin Rows
  BY FeaturesAreChildren, RowsDistinct DEF Rows

\* The material a parent leads to is a material, by the foreign keys.
LEMMA MaterialExists ==
    ASSUME Typed, NEW r \in Rows, NEW parent \in Parents(r)
    PROVE  /\ MaterialOf(r, parent) \in mats
           /\ parent \in Mats \cup Features /\ parent # None
<1>1. CASE r \in Children
  BY <1>1, RowFacts DEF Typed, Parents, MaterialOf
<1>2. CASE r \notin Children
  <2>1. parent \in Features /\ owner[parent] # None
    BY <1>2 DEF Parents
  <2>2. parent \in Children /\ parent \in Rows /\ owner[parent] \in Parents(parent)
    BY <2>1, RowFacts DEF Typed
  <2> QED
    BY <1>2, <2>1, <2>2, RowFacts DEF Parents, MaterialOf
<1> QED
  BY <1>1, <1>2

\* A notification, of a material or of nothing, keeps the types of what it
\* touches; nothing that waits stops waiting, and m waits now.
LEMMA NotifyFacts ==
    ASSUME Typed, NEW m \in Mats, NEW left \in SUBSET Mats, Notify(m, left),
           UNCHANGED <<listening, queue>>
    PROVE  /\ channel' \in Seq(Mats) /\ forsaken' \subseteq Mats
           /\ ~listening' => channel' = <<>>
           /\ Waiting(m)' /\ \A n \in left : Waiting(n)'
           /\ \A n : Waiting(n) => Waiting(n)'
           /\ Range(channel) \cup Range(queue) \subseteq Range(channel') \cup Range(queue')
<1>1. m # None
  BY RowFacts
<1>2. CASE listening
  <2>1. channel' = Append(channel, m) /\ forsaken' = left \cup (forsaken \ {m})
    BY <1>1, <1>2 DEF Notify
  <2>2. channel' \in Seq(Mats) /\ Range(channel') = Range(channel) \cup {m}
    BY <2>1, RangeFacts DEF Typed
  <2> QED
    BY <1>2, <2>1, <2>2 DEF Typed, Waiting
<1>3. CASE ~listening
  <2>1. channel' = channel /\ forsaken' = left \cup forsaken \cup {m}
    BY <1>1, <1>3 DEF Notify
  <2> QED
    BY <1>3, <2>1 DEF Typed, Waiting
<1> QED
  BY <1>2, <1>3

\* What a write does to the rows and to the messages, whichever it is.
Written ==
    /\ mats' \subseteq Mats
    /\ owner' \in [Rows -> Mats \cup Features \cup {None}]
    /\ \A r \in Rows : owner'[r] # None => owner'[r] \in Parents(r)'
    /\ rev' \in [Mats \cup Rows -> {0, 1}]
    /\ channel' \in Seq(Mats) /\ forsaken' \subseteq Mats
    /\ ~listening' => channel' = <<>>
    /\ \A n : Waiting(n) => Waiting(n)'
    /\ Range(channel) \cup Range(queue) \subseteq Range(channel') \cup Range(queue')
    /\ \A n \in mats' : Waiting(n)' \/ Same(n)
    /\ UNCHANGED <<listening, queue, consumer, index>>

LEMMA WriteMaterial ==
    ASSUME Typed, NEW m \in Mats, InsertMaterial(m) \/ UpdateMaterial(m) \/ DeleteMaterial(m)
    PROVE  Written
<1>1. /\ Notify(m, {}) /\ UNCHANGED <<listening, queue, consumer, index>>
      /\ UNCHANGED owner /\ mats' \subseteq Mats
  BY DEF InsertMaterial, UpdateMaterial, DeleteMaterial, Untouched, Typed
<1>2. rev' \in [Mats \cup Rows -> {0, 1}] /\ \A x \in Mats \cup Rows : x # m => rev'[x] = rev[x]
  <2>1. CASE UNCHANGED rev
    BY <2>1 DEF Typed
  <2>2. CASE Revise(m)
    BY <2>2 DEF Revise, Typed
  <2> QED
    BY <2>1, <2>2 DEF InsertMaterial, UpdateMaterial, DeleteMaterial
<1>3. \A r \in Rows : owner'[r] # None => owner'[r] \in Parents(r)'
  <2> SUFFICES ASSUME NEW r \in Rows, owner[r] # None PROVE owner[r] \in Parents(r)'
    BY <1>1
  <2>1. owner[r] \in Parents(r)
    BY DEF Typed
  <2>2. CASE mats \subseteq mats'
    BY <1>1, <2>1, <2>2 DEF Parents
  <2>3. CASE mats' = mats \ {m} /\ ~Referenced(m)
    BY <1>1, <2>1, <2>3 DEF Parents, Referenced
  <2> QED
    BY <2>2, <2>3 DEF InsertMaterial, UpdateMaterial, DeleteMaterial
<1>4. ASSUME NEW n \in mats', n # m PROVE Same(n)
  <2>1. n \in mats /\ n \in Mats
    BY <1>1, <1>4 DEF InsertMaterial, UpdateMaterial, DeleteMaterial
  <2>2. rev'[n] = rev[n] /\ \A r \in Rows : rev'[r] = rev[r]
    BY <1>2, <1>4, <2>1, RowFacts
  <2> QED
    BY <1>1, <2>1, <2>2, RowFacts DEF Same
<1>5. /\ channel' \in Seq(Mats) /\ forsaken' \subseteq Mats
      /\ ~listening' => channel' = <<>>
      /\ Waiting(m)' /\ \A n : Waiting(n) => Waiting(n)'
      /\ Range(channel) \cup Range(queue) \subseteq Range(channel') \cup Range(queue')
  <2>1. {} \in SUBSET Mats
    OBVIOUS
  <2> QED
    BY <1>1, <2>1, NotifyFacts
<1>6. owner' \in [Rows -> Mats \cup Features \cup {None}]
  BY <1>1 DEF Typed
<1> QED
  BY <1>1, <1>2, <1>3, <1>4, <1>5, <1>6 DEF Written

\* Of a row that comes, changes or goes, all materials but the two it may
\* belong to are the same, and those two wait.
LEMMA WriteRow ==
    ASSUME Typed, NEW r \in Rows, NEW new \in Parents(r) \cup {None},
           owner[r] # None \/ new # None,
           owner' = [owner EXCEPT ![r] = new], rev' = rev \/ Revise(r), UNCHANGED mats,
           new = None => ~Referenced(r), ChildTrigger(r, owner[r], new), Untouched
    PROVE  Written
<1> DEFINE old == owner[r]
           leaves == IF old = None \/ new = None
                     THEN {} ELSE {MaterialOf(r, old)} \ {MaterialOf(r, new)}
<1>1. /\ old # None => MaterialOf(r, old) \in Mats
      /\ new # None => MaterialOf(r, new) \in Mats /\ new \in Mats \cup Features
  BY MaterialExists DEF Typed
<1>2. Notified(r, old, new) \in Mats /\ leaves \in SUBSET Mats
  BY <1>1 DEF Notified
<1>m. PICK m \in Mats, left \in SUBSET Mats : m = Notified(r, old, new) /\ left = leaves
  BY <1>2
<1>3. Notify(m, left) /\ UNCHANGED <<listening, queue, consumer, index>>
  BY <1>m DEF ChildTrigger, Untouched
<1>4. /\ channel' \in Seq(Mats) /\ forsaken' \subseteq Mats
      /\ ~listening' => channel' = <<>>
      /\ Waiting(m)' /\ \A n \in left : Waiting(n)'
      /\ \A n : Waiting(n) => Waiting(n)'
      /\ Range(channel) \cup Range(queue) \subseteq Range(channel') \cup Range(queue')
  BY <1>3, NotifyFacts
<1>5. owner' \in [Rows -> Mats \cup Features \cup {None}]
  BY <1>1 DEF Typed
<1>6. owner'[r] = new /\ \A q \in Rows \ {r} : owner'[q] = owner[q]
  BY DEF Typed
<1>7. rev' \in [Mats \cup Rows -> {0, 1}] /\ \A x \in Mats \cup Rows : x # r => rev'[x] = rev[x]
  <2>1. CASE UNCHANGED rev
    BY <2>1 DEF Typed
  <2>2. CASE Revise(r)
    BY <2>2 DEF Revise, Typed
  <2> QED
    BY <2>1, <2>2
<1>8. ASSUME NEW q \in Rows, owner'[q] # None PROVE owner'[q] \in Parents(q)'
  <2>1. owner'[q] \in Parents(q)
    BY <1>6, <1>8 DEF Typed
  <2>2. CASE q \in Children
    BY <2>1, <2>2 DEF Parents
  <2>3. CASE q \notin Children
    <3>1. owner'[q] \in Features /\ owner[owner'[q]] # None
      BY <2>1, <2>3 DEF Parents
    <3>2. owner'[q] = r => new # None
      <4> SUFFICES ASSUME owner'[q] = r, new = None PROVE FALSE
        OBVIOUS
      <4>1. q # r
        BY <1>6, RowFacts
      <4> QED
        BY <1>6, <4>1 DEF Referenced
    <3>3. owner'[owner'[q]] # None
      BY <1>6, <3>1, <3>2, RowFacts
    <3> QED
      BY <2>3, <3>1, <3>3 DEF Parents
  <2> QED
    BY <2>2, <2>3
<1>9. ASSUME NEW n \in mats', ~Waiting(n)' PROVE Same(n)
  <2>1. n \in mats /\ n \in Mats /\ rev'[n] = rev[n]
    BY <1>7, RowFacts DEF Typed
  <2>2. /\ old # None => MaterialOf(r, old) # n
        /\ new # None => MaterialOf(r, new) # n
    <3>1. n # m /\ n \notin left
      BY <1>4, <1>9
    <3> QED
      BY <1>m, <3>1 DEF Notified
  <2>3. CASE r \in Children
    <3>1. old # n /\ new # n
      BY <2>1, <2>2, <2>3, RowFacts DEF MaterialOf
    <3>2. ASSUME NEW c \in Children
          PROVE  (owner'[c] = n <=> owner[c] = n) /\ (owner[c] = n => rev'[c] = rev[c])
      BY <1>6, <1>7, <3>1, RowFacts
    <3>3. ASSUME NEW a \in Attrs PROVE owner'[a] = owner[a] /\ rev'[a] = rev[a]
      BY <1>6, <1>7, <2>3, RowFacts
    <3> QED
      BY <2>1, <3>2, <3>3 DEF Same
  <2>4. CASE r \notin Children
    <3>1. ASSUME NEW c \in Children PROVE owner'[c] = owner[c] /\ rev'[c] = rev[c]
      BY <1>6, <1>7, <2>4, RowFacts
    <3>2. ASSUME NEW f \in Features, NEW a \in Attrs, owner[f] = n
          PROVE  (owner'[a] = f <=> owner[a] = f) /\ (owner[a] = f => rev'[a] = rev[a])
      <4>1. f # None
        BY RowFacts
      <4>2. old # f /\ new # f
        BY <2>2, <2>4, <3>2, <4>1 DEF MaterialOf
      <4> QED
        BY <1>6, <1>7, <4>2, RowFacts
    <3> QED
      BY <2>1, <3>1, <3>2 DEF Same
  <2> QED
    BY <2>3, <2>4
<1> QED
  BY <1>3, <1>4, <1>5, <1>7, <1>8, <1>9 DEF Written, Typed

LEMMA WritesWrite == Typed /\ Writes => Written
<1> SUFFICES ASSUME Typed, Writes PROVE Written
  OBVIOUS
<1>1. ASSUME NEW m \in Mats, InsertMaterial(m) \/ UpdateMaterial(m) \/ DeleteMaterial(m)
      PROVE  Written
  BY <1>1, WriteMaterial
<1>2. ASSUME NEW r \in Rows, DeleteChild(r) PROVE Written
  BY <1>2, WriteRow DEF DeleteChild
<1>3. ASSUME NEW r \in Rows, NEW parent \in Mats \cup Features, InsertChild(r, parent)
      PROVE  Written
  <2>1. parent # None
    BY RowFacts
  <2> QED
    BY <1>3, <2>1, WriteRow DEF InsertChild
<1>4. ASSUME NEW r \in Rows, NEW parent \in Mats \cup Features, UpdateChild(r, parent)
      PROVE  Written
  <2>1. parent # None
    BY RowFacts
  <2> QED
    BY <1>4, <2>1, WriteRow DEF UpdateChild
<1> QED
  BY <1>1, <1>2, <1>3, <1>4 DEF Writes
-----------------------------------------------------------------------------
(* The invariant.                                                          *)

LEMMA InitEstablishes == Init => IInv
<1> SUFFICES ASSUME Init PROVE IInv
  OBVIOUS
<1>1. Typed
  BY RowFacts DEF Init, Typed, Idle
<1>2. ConsumerSound
  BY DEF Init, ConsumerSound, Idle
<1>3. StaleOnlyWhilePending
  BY DEF Init, StaleOnlyWhilePending, Current
<1> QED
  BY <1>1, <1>2, <1>3 DEF IInv

\* Writes: what was current is the Same or waits.
LEMMA WritePreserves == IInv /\ Written => IInv'
<1> SUFFICES ASSUME IInv, Written PROVE IInv'
  OBVIOUS
<1>1. Typed'
  BY DEF IInv, Typed, Written, Idle
<1>2. ConsumerSound'
  <2> SUFFICES ASSUME consumer.pc # "idle", consumer.mat \in mats', ~Waiting(consumer.mat)'
               PROVE  ReadIsCurrent(consumer.mat)'
    BY DEF ConsumerSound, Written, Waiting, ReadIsCurrent, Plain, OfFeatures, OfAttrs
  <2>1. PICK m : m = consumer.mat
    OBVIOUS
  <2>2. Same(m) /\ ~Waiting(m)
    BY <2>1 DEF Written, Waiting
  <2>3. ReadIsCurrent(m)
    BY <2>1, <2>2 DEF IInv, ConsumerSound, Same
  <2>4. /\ Plain(m)' = Plain(m) /\ OfFeatures(m)' = OfFeatures(m) /\ OfAttrs(m)' = OfAttrs(m)
        /\ rev'[m] = rev[m] /\ consumer' = consumer
    BY <2>2, SameDocument, FeaturesAreChildren DEF Same, Written
  <2>5. ReadIsCurrent(m)'
    BY <2>3, <2>4 DEF ReadIsCurrent
  <2> QED
    BY <2>1, <2>4, <2>5 DEF ReadIsCurrent, Plain, OfFeatures, OfAttrs
<1>3. StaleOnlyWhilePending'
  <2> SUFFICES ASSUME NEW m \in mats', ~Pending(m)', m \notin forsaken'
               PROVE  Current(m)'
    BY DEF StaleOnlyWhilePending
  <2>1. ~Waiting(m)'
    BY DEF Waiting, Pending
  <2>2. Same(m) /\ Document(m)' = Document(m)
    BY <2>1, SameDocument, FeaturesAreChildren DEF Written
  <2>3. ~Waiting(m) /\ ~Pending(m)
    BY <2>1 DEF Written, Pending, Waiting
  <2>4. Current(m)
    BY <2>2, <2>3 DEF IInv, StaleOnlyWhilePending, Waiting, Same
  <2> QED
    BY <2>2, <2>4 DEF Current, Written
<1> QED
  BY <1>1, <1>2, <1>3 DEF IInv

\* Steps that leave the database and the index alone, and take no message
\* from a material that does not wait for another reason.
LEMMA DeliveryPreserves ==
    ASSUME IInv, UNCHANGED <<db, index>>, Typed', ConsumerSound',
           \A m \in Mats : Waiting(m) \/ m = consumer.mat => Waiting(m)' \/ m = consumer'.mat
    PROVE  IInv'
<1>1. StaleOnlyWhilePending'
  <2> SUFFICES ASSUME NEW m \in mats, ~Pending(m)', m \notin forsaken'
               PROVE  Current(m)'
    BY DEF StaleOnlyWhilePending, db
  <2>1. m \in Mats /\ ~Waiting(m) /\ m # consumer.mat
    BY DEF IInv, Typed, Waiting, Pending
  <2>2. Current(m)
    BY <2>1 DEF IInv, StaleOnlyWhilePending, Pending, Waiting
  <2> QED
    BY <2>2 DEF Current, Document, SelectChildren, SelectAttrs, ChildrenOf, db
<1> QED
  BY <1>1 DEF IInv

\* As far as the database goes, a step that leaves it alone changes no part.
LEMMA PartsKept ==
    ASSUME UNCHANGED db
    PROVE  \A m : /\ Plain(m)' = Plain(m) /\ OfFeatures(m)' = OfFeatures(m)
                  /\ OfAttrs(m)' = OfAttrs(m) /\ Document(m)' = Document(m)
  BY DEF db, Plain, OfFeatures, OfAttrs, Document, SelectChildren, SelectAttrs, ChildrenOf

LEMMA StepPreserves == IInv /\ [Next]_vars => IInv'
<1> SUFFICES ASSUME IInv, [Next]_vars PROVE IInv'
  OBVIOUS
<1>1. CASE Writes
  BY <1>1, WritesWrite, WritePreserves DEF IInv
<1>2. CASE Publish
  <2>1. /\ channel # <<>> /\ queue' = Append(queue, Head(channel)) /\ channel' = Tail(channel)
        /\ UNCHANGED <<db, listening, consumer, index, forsaken>>
    BY <1>2 DEF Publish
  <2>2. /\ channel' \in Seq(Mats) /\ queue' \in Seq(Mats)
        /\ Range(channel') \cup Range(queue') = Range(channel) \cup Range(queue)
    <3>1. /\ Head(channel) \in Mats /\ Tail(channel) \in Seq(Mats)
          /\ Range(channel) = Range(Tail(channel)) \cup {Head(channel)}
      BY <2>1, TailFacts DEF IInv, Typed
    <3>2. /\ Append(queue, Head(channel)) \in Seq(Mats)
          /\ Range(Append(queue, Head(channel))) = Range(queue) \cup {Head(channel)}
      BY <3>1, RangeFacts DEF IInv, Typed
    <3> QED
      BY <2>1, <3>1, <3>2
  <2>3. Typed'
    BY <2>1, <2>2 DEF IInv, Typed, db, Parents, Idle
  <2>4. \A m : Waiting(m)' <=> Waiting(m)
    BY <2>1, <2>2 DEF Waiting
  <2>5. ConsumerSound'
    BY <2>1, <2>4, PartsKept DEF IInv, ConsumerSound, Waiting, ReadIsCurrent, db, Plain, OfFeatures,
       OfAttrs, SelectChildren, SelectAttrs, ChildrenOf
  <2> QED
    BY <2>1, <2>3, <2>4, <2>5, DeliveryPreserves
<1>3. CASE ListenerStops
  <2>1. /\ channel' = <<>> /\ forsaken' = forsaken \cup Range(channel) /\ listening' = FALSE
        /\ UNCHANGED <<db, queue, consumer, index>>
    BY <1>3 DEF ListenerStops
  <2>2. Range(channel) \subseteq Mats /\ channel' \in Seq(Mats) /\ Range(channel') = {}
    BY <2>1 DEF IInv, Typed, Range
  <2>3. Typed'
    BY <2>1, <2>2 DEF IInv, Typed, db, Parents, Idle
  <2>4. \A m : Waiting(m)' <=> Waiting(m)
    BY <2>1, <2>2 DEF Waiting
  <2>5. ConsumerSound'
    BY <2>1, <2>4 DEF IInv, ConsumerSound, Waiting, ReadIsCurrent, db, Plain, OfFeatures,
       OfAttrs, SelectChildren, SelectAttrs, ChildrenOf
  <2> QED
    BY <2>1, <2>3, <2>4, <2>5, DeliveryPreserves
<1>4. CASE ListenerStarts \/ UNCHANGED vars
  <2>1. /\ UNCHANGED <<db, channel, queue, consumer, index, forsaken>>
        /\ listening' = TRUE \/ UNCHANGED listening
    BY <1>4 DEF ListenerStarts, vars
  <2>2. Typed'
    BY <2>1 DEF IInv, Typed, db, Parents, Idle
  <2>3. \A m : Waiting(m)' <=> Waiting(m)
    BY <2>1 DEF Waiting
  <2>4. ConsumerSound'
    BY <2>1, <2>3 DEF IInv, ConsumerSound, Waiting, ReadIsCurrent, db, Plain, OfFeatures,
       OfAttrs, SelectChildren, SelectAttrs, ChildrenOf
  <2> QED
    BY <2>1, <2>2, <2>3, <2>4, DeliveryPreserves
<1>5. CASE Take
  <2>1. /\ consumer = Idle /\ queue # <<>> /\ queue' = Tail(queue)
        /\ UNCHANGED <<db, listening, channel, index, forsaken>>
    BY <1>5 DEF Take, IInv, Typed
  <2>2. PICK m \in Mats : m = Head(queue)
    BY <2>1, TailFacts DEF IInv, Typed
  <2>3. queue' \in Seq(Mats) /\ Range(queue) = Range(queue') \cup {m}
    BY <2>1, <2>2, TailFacts DEF IInv, Typed
  <2>4. /\ consumer' = [pc |-> consumer'.pc, mat |-> m, rev |-> consumer'.rev,
                        children |-> {}, attrs |-> {}]
        /\ consumer'.pc \in {"plain", "gone"} /\ consumer'.mat = m
        /\ m \in mats => consumer'.pc = "plain" /\ consumer'.rev = rev[m]
    BY <1>5, <2>2 DEF Take, Idle
  <2>5. Typed'
    BY <2>1, <2>3, <2>4 DEF IInv, Typed, db, Parents
  <2>6. ConsumerSound'
    BY <2>1, <2>4 DEF ConsumerSound, ReadIsCurrent, db
  <2>7. \A n \in Mats : Waiting(n) => Waiting(n)' \/ n = consumer'.mat
    BY <2>1, <2>3, <2>4 DEF Waiting
  <2>8. consumer.mat \notin Mats
    BY <2>1, RowFacts DEF Idle
  <2> QED
    BY <2>1, <2>5, <2>6, <2>7, <2>8, DeliveryPreserves
<1>6. ASSUME NEW step \in {"features", "attrs", "write"}, NEW children, NEW attrs,
             GoOn(step, children, attrs), consumer.pc \in {"plain", "features", "attrs"},
             ReadIsCurrent(consumer.mat) => ReadIsCurrent(consumer.mat)',
             UNCHANGED <<db, listening, channel, queue, index, forsaken>>
      PROVE  IInv'
  <2>1. consumer'.mat = consumer.mat /\ consumer'.pc = step
    BY <1>6 DEF GoOn
  <2>2. \A m : Waiting(m)' <=> Waiting(m)
    BY <1>6 DEF Waiting
  <2>3. Typed'
    BY <1>6, <2>1 DEF IInv, Typed, db, Parents, GoOn
  <2>4. ConsumerSound'
    <3>1. consumer.mat \notin mats' \/ Waiting(consumer.mat)' \/ ReadIsCurrent(consumer.mat)'
      BY <1>6, <2>1 DEF IInv, ConsumerSound, Waiting, db
    <3> QED
      BY <1>6, <2>1, <3>1 DEF ConsumerSound, Waiting, ReadIsCurrent, Plain, OfFeatures, OfAttrs
  <2> QED
    BY <1>6, <2>1, <2>2, <2>3, <2>4, DeliveryPreserves
<1>7. CASE ReadPlain
  <2>1. PICK children : children = Plain(consumer.mat)
    OBVIOUS
  <2>2. /\ GoOn("features", children, {}) /\ consumer.pc = "plain"
        /\ UNCHANGED <<db, listening, channel, queue, index, forsaken>>
    BY <1>7, <2>1 DEF ReadPlain, Plain
  <2>3. ReadIsCurrent(consumer.mat) => ReadIsCurrent(consumer.mat)'
    BY <2>1, <2>2 DEF ReadIsCurrent, db, Plain, SelectChildren, ChildrenOf, GoOn
  <2> QED
    BY <1>6, <2>2, <2>3
<1>8. CASE ReadFeatures
  <2>1. PICK children : children = consumer.children \cup OfFeatures(consumer.mat)
    OBVIOUS
  <2>2. /\ GoOn("attrs", children, {}) /\ consumer.pc = "features"
        /\ UNCHANGED <<db, listening, channel, queue, index, forsaken>>
    BY <1>8, <2>1 DEF ReadFeatures, OfFeatures
  <2>3. ReadIsCurrent(consumer.mat) => ReadIsCurrent(consumer.mat)'
    BY <2>1, <2>2 DEF ReadIsCurrent, db, Plain, OfFeatures, SelectChildren, ChildrenOf, GoOn
  <2> QED
    BY <1>6, <2>2, <2>3
<1>9. CASE ReadAttrs
  <2>1. PICK children, attrs : /\ children = consumer.children
                               /\ attrs = SelectAttrs({p[1] : p \in children} \cap Features)
    OBVIOUS
  <2>2. /\ GoOn("write", children, attrs) /\ consumer.pc = "attrs"
        /\ UNCHANGED <<db, listening, channel, queue, index, forsaken>>
    BY <1>9, <2>1 DEF ReadAttrs
  <2>3. PICK m : m = consumer.mat
    OBVIOUS
  <2>4. ReadIsCurrent(m) => attrs = OfAttrs(m)
    BY <2>1, <2>2, PiecesMakeDocument DEF ReadIsCurrent, OfAttrs
  <2>5. ReadIsCurrent(m) => ReadIsCurrent(m)'
    BY <2>1, <2>2, <2>3, <2>4, PartsKept DEF ReadIsCurrent, db, GoOn
  <2>6. ReadIsCurrent(consumer.mat) => ReadIsCurrent(consumer.mat)'
    BY <2>2, <2>3, <2>5 DEF ReadIsCurrent, GoOn, Plain, OfFeatures, OfAttrs
  <2> QED
    BY <1>6, <2>2, <2>6
<1>10. ASSUME NEW m \in Mats, m = consumer.mat, consumer.pc # "idle", consumer' = Idle,
              NEW left, index' = [index EXCEPT ![m] = left],
              m \in mats => Waiting(m) \/ left = Document(m),
              UNCHANGED <<db, listening, channel, queue, forsaken>>
       PROVE  IInv'
  <2>1. Typed'
    BY <1>10 DEF IInv, Typed, db, Parents, Idle
  <2>2. ConsumerSound'
    BY <1>10 DEF ConsumerSound, Idle
  <2>3. StaleOnlyWhilePending'
    <3> SUFFICES ASSUME NEW n \in mats, ~Pending(n)', n \notin forsaken'
                 PROVE  Current(n)'
      BY <1>10 DEF StaleOnlyWhilePending, db
    <3>1. n \in Mats /\ ~Waiting(n)
      BY <1>10 DEF IInv, Typed, Waiting, Pending
    <3>2. Document(n)' = Document(n)
      BY <1>10, PartsKept
    <3>3. CASE n = m
      <4>1. index'[m] = left
        BY <1>10 DEF IInv, Typed
      <4> QED
        BY <1>10, <3>1, <3>2, <3>3, <4>1 DEF Current
    <3>4. CASE n # m
      <4>1. index'[n] = index[n]
        BY <1>10, <3>1, <3>4 DEF IInv, Typed
      <4>2. Current(n)
        BY <1>10, <3>1, <3>4 DEF IInv, StaleOnlyWhilePending, Pending, Waiting
      <4> QED
        BY <3>2, <4>1, <4>2 DEF Current
    <3> QED
      BY <3>3, <3>4
  <2> QED
    BY <2>1, <2>2, <2>3 DEF IInv
<1>11. CASE WriteDocument
  <2>m. PICK m \in Mats : m = consumer.mat
    BY <1>11 DEF WriteDocument, IInv, Typed
  <2>1. PICK left : left = [rev |-> consumer.rev, children |-> consumer.children,
                            attrs |-> consumer.attrs]
    OBVIOUS
  <2>2. m \in mats => Waiting(m) \/ ReadIsCurrent(m)
    BY <1>11, <2>m DEF WriteDocument, IInv, ConsumerSound
  <2>3. ReadIsCurrent(m) => left = Document(m)
    BY <1>11, <2>m, <2>1, PiecesMakeDocument DEF WriteDocument, ReadIsCurrent
  <2> QED
    BY <1>10, <1>11, <2>m, <2>1, <2>2, <2>3 DEF WriteDocument
<1>12. CASE SkipGone
  <2>m. PICK m \in Mats : m = consumer.mat
    BY <1>12 DEF SkipGone, IInv, Typed
  <2>1. PICK left : index' = [index EXCEPT ![m] = left]
    BY <1>12, <2>m DEF SkipGone
  <2>2. m \in mats => Waiting(m)
    BY <1>12, <2>m DEF SkipGone, IInv, ConsumerSound, ReadIsCurrent
  <2> QED
    BY <1>10, <1>12, <2>m, <2>1, <2>2 DEF SkipGone
<1>13. CASE ConsumerDrops
  <2>1. /\ consumer.mat \in Mats /\ consumer' = Idle /\ forsaken' = forsaken \cup {consumer.mat}
        /\ UNCHANGED <<db, listening, channel, queue, index>>
    BY <1>13 DEF ConsumerDrops, IInv, Typed
  <2>2. Typed'
    BY <2>1 DEF IInv, Typed, db, Parents, Idle
  <2>3. ConsumerSound'
    BY <2>1 DEF ConsumerSound, Idle
  <2>4. \A n \in Mats : Waiting(n) \/ n = consumer.mat => Waiting(n)'
    BY <2>1 DEF Waiting
  <2> QED
    BY <2>1, <2>2, <2>3, <2>4, DeliveryPreserves
<1>14. CASE ConsumerRestarts
  <2>1. /\ consumer.mat \in Mats /\ consumer' = Idle /\ queue' = <<consumer.mat>> \o queue
        /\ UNCHANGED <<db, listening, channel, index, forsaken>>
    BY <1>14 DEF ConsumerRestarts, IInv, Typed
  <2>2. queue' \in Seq(Mats) /\ Range(queue') = Range(queue) \cup {consumer.mat}
    BY <2>1, RangeFacts DEF IInv, Typed
  <2>3. Typed'
    BY <2>1, <2>2 DEF IInv, Typed, db, Parents, Idle
  <2>4. ConsumerSound'
    BY <2>1 DEF ConsumerSound, Idle
  <2>5. \A n \in Mats : Waiting(n) \/ n = consumer.mat => Waiting(n)'
    BY <2>1, <2>2 DEF Waiting
  <2> QED
    BY <2>1, <2>3, <2>4, <2>5, DeliveryPreserves
<1> QED
  BY <1>1, <1>2, <1>3, <1>4, <1>5, <1>7, <1>8, <1>9, <1>11, <1>12, <1>13, <1>14 DEF Next, Consume

LEMMA Inductive == Spec => []IInv
<1> QED
  BY InitEstablishes, StepPreserves, PTL DEF Spec

\* The types hold, and with them the FOREIGN KEYs of db/init.sql, through
\* every write the triggers see.
THEOREM TypeCorrect == Spec => []TypeOK
<1>1. IInv => TypeOK
  BY RowFacts DEF IInv, Typed, TypeOK, Idle
<1> QED
  BY <1>1, Inductive, PTL

\* A document is stale only while a notification for its material is under
\* way, or after one was forsaken, however the writes interleave with the
\* resolvers of the consumer.
THEOREM StaleCorrect == Spec => []StaleOnlyWhilePending
<1>1. IInv => StaleOnlyWhilePending
  BY DEF IInv
<1> QED
  BY <1>1, Inductive, PTL
=============================================================================
