---------------------------- MODULE MCQueryGuards ----------------------------
(* QueryGuards on every document of one operation and two fragments, whose *)
(* bodies have one or two items, and on a few with two operations.         *)
EXTENDS QueryGuards

Spread(name) == [kind |-> "spread", name |-> name]
Field(meta, sub) == [kind |-> "field", meta |-> meta, sub |-> sub]
Inline(sub) == [kind |-> "inline", sub |-> sub]

\* The selection sets below the outermost one, where they are used.
Nested == <<<<Field(FALSE, 5)>>, <<Spread("F")>>, <<Spread("G")>>, <<>>>>

Body(items) ==
    LET used == {i.sub : i \in {j \in Range(items) : j.kind # "spread"}} IN
    <<items>> \o [k \in 1..4 |-> IF k + 1 \in used THEN Nested[k] ELSE <<>>]

\* A field without and with selections, one of the introspection, a spread as
\* such, below a field and in an inline fragment.
Items1 ==
    {Field(FALSE, 5), Field(TRUE, 2), Field(FALSE, 3), Field(FALSE, 4), Spread("G"), Inline(3)}

\* H is defined nowhere.
MCBodies == {Body(<<a>>) : a \in Items1 \cup {Spread("H")}} \cup {Body(<<a, b>>) : a, b \in Items1}

Operations ==
    {<<body>> : body \in MCBodies}
    \cup {<<Body(<<a>>), Body(<<b>>)>> : a, b \in {Spread("G"), Field(FALSE, 4), Inline(3)}}

MCDocuments == [ops : Operations, frags : [{"F", "G"} -> MCBodies], size : {5}]
=============================================================================
