----------------------------- MODULE QueryGuards -----------------------------
(***************************************************************************)
(* The depth limit of src/schema/limits.rs, an extension that measures a   *)
(* document after it is parsed and before async-graphql validates it.      *)
(*                                                                         *)
(* A document is [ops, frags, size]: the bodies of its operations, in the  *)
(* order in which the code happens to visit them (that of a hash map), the *)
(* bodies of its fragments by name, and the number of selection sets that  *)
(* none of the bodies exceeds.  A body is the sequence of its selection    *)
(* sets as they open in the text, the outermost first.  A selection set is *)
(* a sequence of fields [kind |-> "field", meta, sub], inline fragments    *)
(* [kind |-> "inline", sub] and spreads [kind |-> "spread", name]; `sub`   *)
(* is the number of the selection set that follows, `meta` says that the   *)
(* name starts with "__".                                                  *)
(*                                                                         *)
(* selection_depth calls itself; `stack` is that recursion.                *)
(***************************************************************************)
EXTENDS Integers, FiniteSets, SequencesExt

CONSTANTS
    Documents,  \* documents clients send, after parsing
    MaxDepth    \* limits.max_depth

VARIABLES
    doc,      \* the document of the request
    verdict,  \* "received", "parsed", "refused", "invalid" or "executed"
    stack,    \* the calls of selection_depth under way, innermost last
    memo,     \* the depths found for fragments
    visited,  \* how many operations are measured
    deepest,  \* of these the greatest depth
    walked    \* history: fragment bodies the depth limit went through

vars == <<doc, verdict, stack, memo, visited, deepest, walked>>

ASSUME MaxDepthNatural == MaxDepth \in Nat

Bodies(d) == Range(d.ops) \cup Range(d.frags)

IsItem(item, set, body) ==
    /\ item.kind \in {"field", "inline", "spread"}
    /\ item.kind = "field" => item.meta \in BOOLEAN
    /\ item.kind # "spread" => item.sub \in (set + 1)..Len(body)

ASSUME DocumentsTyped ==
    \A d \in Documents :
        /\ d.ops \in Seq(Range(d.ops)) /\ IsFiniteSet(DOMAIN d.frags) /\ d.size \in Nat
        /\ \A body \in Bodies(d) :
              /\ body \in Seq(Range(body)) /\ Len(body) \in 1..d.size
              /\ \A i \in DOMAIN body :
                    /\ body[i] \in Seq(Range(body[i]))
                    /\ \A item \in Range(body[i]) : IsItem(item, i, body)
-----------------------------------------------------------------------------
\* A call of selection_depth: the set, whether it is at the root, the item the
\* loop is at and the depth found so far.
Frame(body, set, atRoot) ==
    [body |-> body, set |-> set, atRoot |-> atRoot, next |-> 1, depth |-> 0]

Items(frame) == frame.body[frame.set]
Looping(frame) == frame.next <= Len(Items(frame))
Item(frame) == Items(frame)[frame.next]

Deeper(a, b) == IF a < b THEN b ELSE a

\* The frame when the depth of its item is known.
After(frame, depth) ==
    [body |-> frame.body, set |-> frame.set, atRoot |-> frame.atRoot,
     next |-> frame.next + 1, depth |-> Deeper(frame.depth, depth)]

\* Mutant: the exemption of the root leaks into the rest of the document.
MemoKeyByName(name, atRoot) == name

\* The memo table's key.
MemoKey(name, atRoot) == <<name, atRoot>>

Remember(table, key, depth) ==
    [k \in DOMAIN table \cup {key} |-> IF k = key THEN depth ELSE table[k]]

Top == Last(stack)

\* The fragments whose spreads are being followed.
Visiting ==
    {Item(stack[n]).name : n \in {m \in 1..(Len(stack) - 1) : Item(stack[m]).kind = "spread"}}

\* Mutant: nothing is remembered.
RememberedNever(frame) == FALSE

Remembered(frame) == MemoKey(Item(frame).name, frame.atRoot) \in DOMAIN memo

Init ==
    /\ doc \in Documents
    /\ verdict = "received"
    /\ stack = <<>> /\ memo = <<>> /\ visited = 0 /\ deepest = 0
    /\ walked = 0

\* max_depth goes on to the next operation; the memo table stays.
Visit ==
    /\ stack = <<>> /\ visited < Len(doc.ops)
    /\ stack' = <<Frame(doc.ops[visited + 1], 1, TRUE)>>
    /\ UNCHANGED <<doc, verdict, memo, visited, deepest, walked>>

\* The loop is at an item of this kind.
AtItem(kind) == stack # <<>> /\ Looping(Top) /\ Item(Top).kind = kind

Pass(depth) ==
    /\ stack' = Append(Front(stack), After(Top, depth))
    /\ UNCHANGED <<doc, verdict, memo, visited, deepest, walked>>

Enter(body, set, atRoot) ==
    /\ stack' = Append(stack, Frame(body, set, atRoot))
    /\ UNCHANGED <<doc, verdict, memo, visited, deepest>>

\* Introspection is exempt at the root.
PassIntrospection == AtItem("field") /\ Top.atRoot /\ Item(Top).meta /\ Pass(0)

EnterField ==
    /\ AtItem("field") /\ ~(Top.atRoot /\ Item(Top).meta)
    /\ Enter(Top.body, Item(Top).sub, FALSE)
    /\ UNCHANGED walked

EnterInline ==
    /\ AtItem("inline")
    /\ Enter(Top.body, Item(Top).sub, Top.atRoot)
    /\ UNCHANGED walked

\* The depth of the fragment is known.
Recall ==
    /\ AtItem("spread") /\ Remembered(Top)
    /\ Pass(memo[MemoKey(Item(Top).name, Top.atRoot)])

\* The spread is part of a cycle or its fragment is not defined.
PassSpread ==
    /\ AtItem("spread") /\ ~Remembered(Top)
    /\ Item(Top).name \in Visiting \/ Item(Top).name \notin DOMAIN doc.frags
    /\ Pass(0)

EnterFragment ==
    /\ AtItem("spread") /\ ~Remembered(Top)
    /\ Item(Top).name \notin Visiting /\ Item(Top).name \in DOMAIN doc.frags
    /\ Enter(doc.frags[Item(Top).name], 1, Top.atRoot)
    /\ walked' = walked + 1

\* The call returns to the item it was made for.
Return ==
    /\ Len(stack) > 1 /\ ~Looping(Top)
    /\ LET outer == Last(Front(stack))
           kind == Item(outer).kind
           depth == IF kind = "field" THEN 1 + Top.depth ELSE Top.depth
       IN  /\ stack' = Append(Front(Front(stack)), After(outer, depth))
           /\ memo' = IF kind = "spread"
                      THEN Remember(memo, MemoKey(Item(outer).name, outer.atRoot), depth)
                      ELSE memo
    /\ UNCHANGED <<doc, verdict, visited, deepest, walked>>

\* The outermost call of an operation returns.
Visited ==
    /\ Len(stack) = 1 /\ ~Looping(Top)
    /\ stack' = <<>> /\ visited' = visited + 1
    /\ deepest' = Deeper(deepest, Top.depth)
    /\ UNCHANGED <<doc, verdict, memo, walked>>

\* parse_query, when max_depth has returned.
ParseQuery ==
    /\ verdict = "received" /\ stack = <<>> /\ visited = Len(doc.ops)
    /\ verdict' = IF deepest > MaxDepth THEN "refused" ELSE "parsed"
    /\ UNCHANGED <<doc, stack, memo, visited, deepest, walked>>

\* The fragments a body spreads, at whatever level.
Spreads(body) ==
    {item.name : item \in {i \in UNION {Range(set) : set \in Range(body)} : i.kind = "spread"}}

\* Every fragment spreads only fragments of a lower rank.
Ranks(d, rank) ==
    \A f \in DOMAIN d.frags : \A g \in Spreads(d.frags[f]) : rank[g] < rank[f]

\* async-graphql's rules for fragments: all of them defined, none in a cycle.
Valid(d) ==
    /\ \A body \in Bodies(d) : Spreads(body) \subseteq DOMAIN d.frags
    /\ \E rank \in [DOMAIN d.frags -> 0..(Cardinality(DOMAIN d.frags) - 1)] : Ranks(d, rank)

Validate ==
    /\ verdict = "parsed"
    /\ verdict' = IF Valid(doc) THEN "executed" ELSE "invalid"
    /\ UNCHANGED <<doc, stack, memo, visited, deepest, walked>>

Next ==
    \/ Return \/ Recall \/ PassIntrospection \/ PassSpread
    \/ EnterField \/ EnterInline \/ EnterFragment
    \/ Visit \/ Visited \/ ParseQuery \/ Validate

Spec == Init /\ [][Next]_vars
-----------------------------------------------------------------------------
(* The depth as the module's comment defines it (11-12): "Depth counts     *)
(* nested fields: a root field is 1", without memo, order or recursion.    *)

\* A selection set of the document, at the root or not.
Places(d) == {p \in Bodies(d) \X (1..d.size) \X BOOLEAN : p[2] \in DOMAIN p[1]}

\* The places right below one, and whether a field stands between.
Below(d, p) ==
    LET items == Range(p[1][p[2]])
        fields == {i \in items : i.kind = "field" /\ ~(p[3] /\ i.meta)}
        inlines == {i \in items : i.kind = "inline"}
        spreads == {i \in items : i.kind = "spread" /\ i.name \in DOMAIN d.frags}
    IN  {<<<<p[1], i.sub, FALSE>>, 1>> : i \in fields}
            \cup {<<<<p[1], i.sub, p[3]>>, 0>> : i \in inlines}
            \cup {<<<<d.frags[i.name], 1, p[3]>>, 0>> : i \in spreads}

\* No way down a document without cycles is longer: within a body the numbers
\* grow, and between bodies the ranks fall.
LongestWay(d) == (Cardinality(DOMAIN d.frags) + 1) * d.size

\* The numbers of fields on the ways down from each place.
Nestings(d) ==
    LET places == Places(d)
        within[n \in 0..LongestWay(d)] ==
            [p \in places |->
                IF n = 0 THEN {0}
                ELSE {0} \cup UNION {{way[2] + m : m \in within[n - 1][way[1]]} :
                                        way \in Below(d, p)}]
    IN  within[LongestWay(d)]

NestsDeeper(d) ==
    \E op \in Range(d.ops) : \E n \in Nestings(d)[<<op, 1, TRUE>>] : n > MaxDepth
-----------------------------------------------------------------------------
(* Properties.                                                             *)

\* "Rejects operations nested deeper than `max_depth` (introspection exempt)"
\* (23): of the documents that would be executed exactly those are refused
\* whose fields nest deeper, however their fragments are shared between
\* operations, between levels, and between the root and the rest.
DepthLimitExact ==
    verdict \in {"refused", "executed"} /\ Valid(doc) =>
        (verdict = "refused" <=> NestsDeeper(doc))

\* "2^20 paths if expanded naively; memoised it is linear" (198): no fragment
\* is walked more than once at the root and once below it, also in documents
\* with cycles, which are measured before validation refuses them.
WalkIsLinear == walked <= 2 * Cardinality(DOMAIN doc.frags)
=============================================================================
