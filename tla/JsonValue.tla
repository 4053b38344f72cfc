------------------------------ MODULE JsonValue ------------------------------
(***************************************************************************)
(* A JSON value is a record whose one field names its kind: [str |-> s],   *)
(* [int |-> n], [float |-> n] (a number written with a fraction part),     *)
(* [bool |-> b], [null |-> TRUE], [arr |-> sequence], [obj |-> function].  *)
(* A text is a sequence of pieces.                                         *)
(***************************************************************************)
Missing == [missing |-> TRUE]

Kind(v) == CHOOSE k \in DOMAIN v : TRUE

Field(v, name) == IF Kind(v) = "obj" /\ name \in DOMAIN v.obj THEN v.obj[name] ELSE Missing

\* A list stands for its items.
Items(vs) == UNION {IF Kind(v) = "arr" THEN {v.arr[i] : i \in DOMAIN v.arr} ELSE {v} : v \in vs}

\* What the items have in a field.
Inside(vs, name) == {Field(item, name) : item \in Items(vs)} \ {Missing}
=============================================================================
