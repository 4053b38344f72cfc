------------------------ MODULE RelationLoaderProofs ------------------------
(***************************************************************************)
(* Proofs about RelationLoader for any loads, rows, keys and tenants.  The *)
(* refinement needs to know of the batches that no load is in two of them  *)
(* or in a batch and the window at once, and that a batch holds for each   *)
(* of its keys either an answer or a query to come: both are in TypeOK,    *)
(* which is inductive.                                                     *)
(***************************************************************************)
EXTENDS RelationLoader, TLAPS

\* The window is empty and no batch is under way at the start.
LEMMA InitEstablishes == Init => TypeOK
  BY AssignmentsOfKeys DEF Init, TypeOK, Keys, PerRow!Keys

\* What a group's query leaves of its batch.
LEMMA StoredFields ==
    ASSUME TypeOK, NEW b \in batches, NEW group \in SUBSET b.todo,
           NEW found \in [group -> SUBSET Rows]
    PROVE  /\ DOMAIN Stored(b, group, found).out = DOMAIN b.out \cup group
           /\ \A k \in group : Stored(b, group, found).out[k] = found[k]
           /\ \A k \in DOMAIN b.out : Stored(b, group, found).out[k] = b.out[k]
           /\ Stored(b, group, found).out \in [DOMAIN b.out \cup group -> SUBSET Rows]
           /\ Stored(b, group, found) \in
                 [loads : SUBSET Loads, todo : SUBSET Keys, out : {Stored(b, group, found).out}]
<1>1. b \in [loads : SUBSET Loads, todo : SUBSET Keys, out : {b.out}]
  BY DEF TypeOK
<1>2. b.todo \cap DOMAIN b.out = {} /\ b.out \in [DOMAIN b.out -> SUBSET Rows]
  BY DEF TypeOK
<1> QED
  BY <1>1, <1>2 DEF Stored

\* A key leaves `todo` for `out` in one step, and a load leaves the window for
\* one batch, or its batch for good.
LEMMA StepPreserves == TypeOK /\ [Next]_vars => TypeOK'
<1> SUFFICES ASSUME TypeOK, [Next]_vars PROVE TypeOK'
  OBVIOUS
<1>1. ASSUME NEW r \in Rows, NEW new \in RowTypes \cup {None}, Write(r, new) PROVE TypeOK'
  BY <1>1 DEF Write, TypeOK
<1>2. ASSUME NEW l \in Loads, Call(l) PROVE TypeOK'
  BY <1>2 DEF Call, TypeOK
<1>3. ASSUME NEW l \in Loads, Drop(l) PROVE TypeOK'
  BY <1>3 DEF Drop, TypeOK
<1>4. ASSUME Dispatch PROVE TypeOK'
  <2> DEFINE d == [loads |-> pending, todo |-> {key[l] : l \in pending}, out |-> <<>>]
  <2>1. /\ batches' = batches \cup {d}
        /\ pending' = {}
        /\ UNCHANGED <<rows, key, status, value>>
    BY <1>4 DEF Dispatch
  <2>2. DOMAIN d.out = {} /\ d.out \in [{} -> SUBSET Rows]
    OBVIOUS
  <2>3. d \in [loads : SUBSET Loads, todo : SUBSET Keys, out : {d.out}]
    BY DEF TypeOK
  <2>4. d.loads = pending /\ d.todo = {key[l] : l \in pending}
    OBVIOUS
  <2> HIDE DEF d
  <2>5. pending \subseteq Loads /\ \A b \in batches : b.loads \cap pending = {}
    BY DEF TypeOK
  <2>6. \A b, c \in batches' : b # c => b.loads \cap c.loads = {}
    BY <2>1, <2>4, <2>5 DEF TypeOK
  <2>7. \A b \in batches' :
           /\ b \in [loads : SUBSET Loads, todo : SUBSET Keys, out : {b.out}]
           /\ b.loads \cap pending' = {}
           /\ {key[l] : l \in b.loads} = b.todo \cup DOMAIN b.out
           /\ b.todo \cap DOMAIN b.out = {}
           /\ b.out \in [DOMAIN b.out -> SUBSET Rows]
    BY <2>1, <2>2, <2>3, <2>4 DEF TypeOK
  <2>8. \A l \in Loads : status[l] = "waiting" =>
           l \in pending' \/ \E b \in batches' : l \in b.loads
    BY <2>1, <2>4 DEF TypeOK
  <2>9. \A b \in batches' : \A l \in b.loads : status[l] \in {"waiting", "dropped"}
    BY <2>1, <2>4 DEF TypeOK
  <2> QED
    BY <2>1, <2>6, <2>7, <2>8, <2>9 DEF TypeOK
<1>5. ASSUME NEW b \in batches, RunGroup(b) PROVE TypeOK'
  <2>1. PICK group \in SUBSET b.todo : ReadGroup(b, group)
    BY <1>5 DEF RunGroup, Group
  <2>2. PICK found \in [group -> SUBSET Rows] :
           batches' = (batches \ {b}) \cup {Stored(b, group, found)}
    BY <2>1 DEF ReadGroup
  <2>3. PICK c : c = Stored(b, group, found)
    OBVIOUS
  <2>4. c.loads = b.loads /\ c.todo = b.todo \ group
    BY <2>3 DEF Stored
  <2>5. /\ DOMAIN c.out = DOMAIN b.out \cup group
        /\ c.out \in [DOMAIN b.out \cup group -> SUBSET Rows]
    BY <2>3, StoredFields
  <2>6. c \in [loads : SUBSET Loads, todo : SUBSET Keys, out : {c.out}]
    BY <2>3, StoredFields
  <2>7. UNCHANGED <<rows, key, status, value, pending>>
    BY <2>1 DEF ReadGroup
  <2>8. batches' = (batches \ {b}) \cup {c}
    BY <2>2, <2>3
  <2> QED
    BY <2>4, <2>5, <2>6, <2>7, <2>8 DEF TypeOK
<1>6. ASSUME NEW b \in batches, GroupFails(b) PROVE TypeOK'
  BY <1>6 DEF GroupFails, TypeOK
<1>7. ASSUME NEW b \in batches, Deliver(b) PROVE TypeOK'
  BY <1>7 DEF Deliver, TypeOK
<1>8. CASE UNCHANGED vars
  BY <1>8 DEF vars, TypeOK
<1> QED
  BY <1>1, <1>2, <1>3, <1>4, <1>5, <1>6, <1>7, <1>8 DEF Next, Load

\* Types, and that every load which waits is in the window or in one batch
\* that still owes it an answer.
THEOREM TypeCorrect == Spec => []TypeOK
  BY InitEstablishes, StepPreserves, PTL DEF Spec
-----------------------------------------------------------------------------
(* Refinement: every step is a step of PerRowRelations or a stutter.       *)

\* A load that waits in a batch has read once the batch has its key's answer.
ReadsFrom ==
    \A b \in batches : \A l \in b.loads : status[l] = "waiting" =>
        /\ HasRead(l) <=> key[l] \in DOMAIN b.out
        /\ BatchOf(l) = b

LEMMA ReadsFromBatch == TypeOK => ReadsFrom
<1> SUFFICES ASSUME TypeOK, NEW b \in batches, NEW l \in b.loads, status[l] = "waiting"
             PROVE  /\ HasRead(l) <=> key[l] \in DOMAIN b.out
                    /\ BatchOf(l) = b
  BY DEF ReadsFrom
<1>1. \A c \in batches : l \in c.loads => c = b
  BY DEF TypeOK
<1> QED
  BY <1>1 DEF HasRead, BatchOf

LEMMA ReadsFromBatchNext == TypeOK' => ReadsFrom'
  BY ReadsFromBatch, PTL

\* A group's query finds for each key what a query for that key alone would.
LEMMA GroupAnswers ==
    ASSUME NEW b \in batches, NEW first \in b.todo, NEW k \in Group(b, first)
    PROVE  Children(Group(b, first), k) = PerRow!Answers(rows, k)
<1> DEFINE group == Group(b, first)
<1>1. \A i, j \in group : i.isList = j.isList /\ i.filter = j.filter
  BY DEF Group, SameSpec
<1>2. (CHOOSE i \in group : TRUE) \in group
  OBVIOUS
<1> HIDE DEF group
<1>3. {r \in BatchRows(group) : rows[r].fk = k.fk} = PerRow!Select(rows, k)
  BY <1>1, <1>2 DEF BatchRows, PerRow!Select, group
<1> QED
  BY <1>3 DEF Children, PerRow!Answers, group

\* No load has read yet, so both see every load idle.
LEMMA InitRefines == Init => PerRow!Init
<1> SUFFICES ASSUME Init PROVE PerRow!Init
  OBVIOUS
<1>1. \A l \in Loads : ~HasRead(l)
  BY DEF Init, HasRead
<1> QED
  BY <1>1 DEF Init, PerRow!Init, rowStatus, rowValue

\* Calls, drops, failures and writes map to their namesakes, a group's query
\* to one Read of the loads it answers, a delivery to Return.
LEMMA StepRefines == TypeOK /\ TypeOK' /\ [Next]_vars => [PerRow!Next]_(PerRow!vars)
<1> SUFFICES ASSUME TypeOK, TypeOK', [Next]_vars PROVE [PerRow!Next]_(PerRow!vars)
  OBVIOUS
<1>0. ReadsFrom /\ ReadsFrom'
  BY ReadsFromBatch, ReadsFromBatchNext
<1>1. ASSUME NEW r \in Rows, NEW new \in RowTypes \cup {None}, Write(r, new) PROVE PerRow!Write
  <2>1. UNCHANGED <<key, status, value, batches>>
    BY <1>1 DEF Write
  <2>2. UNCHANGED <<rowStatus, rowValue>>
    BY <2>1 DEF rowStatus, rowValue, HasRead, BatchOf
  <2> QED
    BY <1>1, <2>1, <2>2 DEF Write, TypeOK, PerRow!Write
<1>2. ASSUME NEW l \in Loads, Call(l) PROVE PerRow!Call(l)
  <2>1. UNCHANGED <<rows, key, value, batches>> /\ status' = [status EXCEPT ![l] = "waiting"]
    BY <1>2 DEF Call
  <2>2. status[l] = "idle" /\ \A b \in batches : l \notin b.loads
    BY <1>2 DEF Call, TypeOK
  <2>3. \A m \in Loads : HasRead(m)' <=> HasRead(m)
    BY <2>1, <2>2 DEF HasRead, TypeOK
  <2>4. \A m \in Loads : BatchOf(m)' = BatchOf(m)
    BY <2>1 DEF BatchOf
  <2>5. ~HasRead(l)
    BY <2>2 DEF HasRead
  <2>6. rowStatus[l] = "idle" /\ rowStatus' = [rowStatus EXCEPT ![l] = "waiting"]
    <3>1. \A m \in Loads : status'[m] = IF m = l THEN "waiting" ELSE status[m]
      BY <2>1 DEF TypeOK
    <3>2. rowStatus' = [m \in Loads |-> IF m = l THEN "waiting" ELSE rowStatus[m]]
      BY <2>3, <2>5, <3>1 DEF rowStatus
    <3> QED
      BY <2>2, <2>5, <3>2 DEF rowStatus
  <2>7. rowValue' = rowValue
    BY <2>1, <2>3, <2>4 DEF rowValue
  <2> QED
    BY <2>1, <2>6, <2>7 DEF PerRow!Call
<1>3. ASSUME NEW l \in Loads, Drop(l) PROVE PerRow!Drop(l)
  <2>1. /\ UNCHANGED <<rows, key, value, batches>>
        /\ status' = [status EXCEPT ![l] = "dropped"]
        /\ status[l] = "waiting"
    BY <1>3 DEF Drop
  <2>2. \A m \in Loads : HasRead(m)' <=> m # l /\ HasRead(m)
    BY <2>1 DEF HasRead, TypeOK
  <2>3. \A m \in Loads : BatchOf(m)' = BatchOf(m)
    BY <2>1 DEF BatchOf
  <2>4. value[l] = None
    BY <2>1 DEF TypeOK
  <2>5. /\ rowStatus[l] \in {"waiting", "read"}
        /\ rowStatus' = [rowStatus EXCEPT ![l] = "dropped"]
    BY <2>1, <2>2 DEF rowStatus, TypeOK
  <2>6. rowValue' = [rowValue EXCEPT ![l] = None]
    BY <2>1, <2>2, <2>3, <2>4 DEF rowValue
  <2> QED
    BY <2>1, <2>5, <2>6 DEF PerRow!Drop
<1>4. ASSUME Dispatch PROVE UNCHANGED PerRow!vars
  <2> DEFINE d == [loads |-> pending, todo |-> {key[l] : l \in pending}, out |-> <<>>]
  <2>1. /\ batches' = batches \cup {d}
        /\ UNCHANGED <<rows, key, status, value>>
    BY <1>4 DEF Dispatch
  <2>2. DOMAIN d.out = {}
    OBVIOUS
  <2> HIDE DEF d
  <2>3. \A m \in Loads : HasRead(m)' <=> HasRead(m)
    BY <2>1, <2>2 DEF HasRead
  <2>4. \A m \in Loads : HasRead(m) => BatchOf(m)' = BatchOf(m)
    BY <1>0, <2>1 DEF HasRead, ReadsFrom
  <2> QED
    BY <2>1, <2>3, <2>4 DEF rowStatus, rowValue, PerRow!vars
<1>5. ASSUME NEW b \in batches, RunGroup(b) PROVE \E S \in SUBSET Loads : PerRow!Read(S)
  <2>1. PICK first \in b.todo : ReadGroup(b, Group(b, first))
    BY <1>5 DEF RunGroup
  <2>2. PICK found \in [Group(b, first) -> SUBSET Rows] :
           /\ \A k \in Group(b, first) : found[k] \in Children(Group(b, first), k)
           /\ batches' = (batches \ {b}) \cup {Stored(b, Group(b, first), found)}
    BY <2>1 DEF ReadGroup
  <2>3. PICK group \in SUBSET b.todo : group = Group(b, first)
    BY DEF Group
  <2>4. PICK c : c = Stored(b, group, found)
    OBVIOUS
  <2>5. /\ batches' = (batches \ {b}) \cup {c}
        /\ UNCHANGED <<rows, key, status, value>>
    BY <2>1, <2>2, <2>3, <2>4 DEF ReadGroup
  <2>6. c.loads = b.loads
    BY <2>4 DEF Stored
  <2>7. /\ DOMAIN c.out = DOMAIN b.out \cup group
        /\ \A k \in group : c.out[k] = found[k]
        /\ \A k \in DOMAIN b.out : c.out[k] = b.out[k]
    BY <2>2, <2>3, <2>4, StoredFields
  <2> DEFINE S == {l \in Loads : status[l] = "waiting" /\ l \in b.loads /\ key[l] \in group}
             answer == [l \in S |-> found[key[l]]]
  <2>8. \A l \in Loads : HasRead(l)' <=> HasRead(l) \/ l \in S
    BY <2>5, <2>6, <2>7 DEF HasRead
  <2>9. \A l \in S : ~HasRead(l) /\ BatchOf(l)' = c
    BY <1>0, <2>5, <2>6 DEF ReadsFrom, TypeOK
  <2>10. \A l \in Loads : HasRead(l) => BatchOf(l)'.out[key[l]] = BatchOf(l).out[key[l]]
    <3> SUFFICES ASSUME NEW l \in Loads, HasRead(l)
                 PROVE  BatchOf(l)'.out[key[l]] = BatchOf(l).out[key[l]]
      OBVIOUS
    <3>1. PICK e \in batches : l \in e.loads /\ key[l] \in DOMAIN e.out /\ status[l] = "waiting"
      BY DEF HasRead
    <3>2. BatchOf(l) = e
      BY <1>0, <3>1 DEF ReadsFrom
    <3>3. CASE e = b
      <4>1. BatchOf(l)' = c
        BY <1>0, <2>5, <2>6, <3>1, <3>3 DEF ReadsFrom
      <4> QED
        BY <2>7, <3>1, <3>2, <3>3, <4>1
    <3>4. CASE e # b
      <4>1. BatchOf(l)' = e
        BY <1>0, <2>5, <3>1, <3>4 DEF ReadsFrom
      <4> QED
        BY <3>2, <4>1
    <3> QED
      BY <3>3, <3>4
  <2>11. \A l \in S : rowStatus[l] = "waiting"
    BY <2>9 DEF rowStatus
  <2>12. rowStatus' = [l \in Loads |-> IF l \in S THEN "read" ELSE rowStatus[l]]
    BY <2>5, <2>8 DEF rowStatus
  <2>13. answer \in [S -> SUBSET Rows]
    BY <2>3
  <2>14. \A l \in S : answer[l] \in PerRow!Answers(rows, key[l])
    BY <2>2, <2>3, GroupAnswers
  <2>15. \A l \in S : BatchOf(l)'.out[key[l]] = answer[l]
    BY <2>7, <2>9
  <2> HIDE DEF answer
  <2>16. rowValue' = [l \in Loads |-> IF l \in S THEN answer[l] ELSE rowValue[l]]
    BY <2>5, <2>8, <2>10, <2>15 DEF rowValue
  <2>17. PerRow!Read(S)
    BY <2>5, <2>11, <2>12, <2>13, <2>14, <2>16 DEF PerRow!Read
  <2> QED
    BY <2>17
<1>6. ASSUME NEW b \in batches, GroupFails(b) PROVE \E S \in SUBSET Loads : PerRow!Fail(S)
  <2> DEFINE S == {l \in Loads : l \in b.loads /\ status[l] = "waiting"}
  <2>1. /\ batches' = batches \ {b}
        /\ status' = [l \in Loads |-> IF l \in S THEN "failed" ELSE status[l]]
        /\ UNCHANGED <<rows, key, value>>
    BY <1>6 DEF GroupFails
  <2>2. \A l \in Loads : HasRead(l)' <=> l \notin S /\ HasRead(l)
    BY <2>1 DEF HasRead, TypeOK
  <2>3. \A l \in Loads : HasRead(l)' => BatchOf(l)' = BatchOf(l)
    BY <1>0, <2>1 DEF HasRead, ReadsFrom
  <2>4. \A l \in S : value[l] = None
    BY DEF TypeOK
  <2>5. \A l \in S : rowStatus[l] \in {"waiting", "read"}
    BY DEF rowStatus
  <2>6. rowStatus' = [l \in Loads |-> IF l \in S THEN "failed" ELSE rowStatus[l]]
    BY <2>1, <2>2 DEF rowStatus
  <2>7. rowValue' = [l \in Loads |-> IF l \in S THEN None ELSE rowValue[l]]
    BY <2>1, <2>2, <2>3, <2>4 DEF rowValue
  <2>8. PerRow!Fail(S)
    BY <2>1, <2>5, <2>6, <2>7 DEF PerRow!Fail
  <2> QED
    BY <2>8
<1>7. ASSUME NEW b \in batches, Deliver(b) PROVE \E S \in SUBSET Loads : PerRow!Return(S)
  <2> DEFINE S == {l \in Loads : l \in b.loads /\ status[l] = "waiting"}
  <2>1. /\ batches' = batches \ {b}
        /\ status' = [l \in Loads |-> IF l \in S THEN "done" ELSE status[l]]
        /\ value' = [l \in Loads |-> IF l \in S THEN b.out[key[l]] ELSE value[l]]
        /\ UNCHANGED <<rows, key>>
    BY <1>7 DEF Deliver
  <2>2. \A l \in S : key[l] \in DOMAIN b.out
    BY <1>7 DEF Deliver, TypeOK
  <2>3. \A l \in S : HasRead(l) /\ BatchOf(l) = b
    BY <1>0, <2>2 DEF ReadsFrom
  <2>4. \A l \in Loads : HasRead(l)' <=> l \notin S /\ HasRead(l)
    BY <2>1 DEF HasRead, TypeOK
  <2>5. \A l \in Loads : HasRead(l)' => BatchOf(l)' = BatchOf(l)
    BY <1>0, <2>1 DEF HasRead, ReadsFrom
  <2>6. \A l \in S : rowStatus[l] = "read"
    BY <2>3 DEF rowStatus
  <2>7. rowStatus' = [l \in Loads |-> IF l \in S THEN "done" ELSE rowStatus[l]]
    BY <2>1, <2>4 DEF rowStatus
  <2>8. rowValue' = rowValue
    BY <2>1, <2>3, <2>4, <2>5 DEF rowValue
  <2>9. PerRow!Return(S)
    BY <2>1, <2>6, <2>7, <2>8 DEF PerRow!Return
  <2> QED
    BY <2>9
<1>8. CASE UNCHANGED vars
  BY <1>8 DEF vars, PerRow!vars, rowStatus, rowValue, HasRead, BatchOf
<1> QED
  BY <1>1, <1>2, <1>3, <1>4, <1>5, <1>6, <1>7, <1>8 DEF Next, Load, PerRow!Next

\* Batching changes nothing: whatever keys of other requests and identities
\* are loaded together, every load reads what one query of its own would at
\* some moment between its call and its answer.
THEOREM Refinement == Spec => ImplementsPerRow
<1>1. Init => PerRow!Init
  BY InitRefines
<1> QED
  BY <1>1, TypeCorrect, StepRefines, PTL DEF Spec, ImplementsPerRow, PerRow!Spec
=============================================================================
