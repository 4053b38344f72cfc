-------------------------- MODULE MCRelationLoader --------------------------
(* RelationLoader with three loads: the same parent key asked for by two   *)
(* tenants, and a third load that repeats the first, asks for the empty    *)
(* key in the same group, or for a single row without the filter's header. *)
EXTENDS RelationLoader, TLC

CONSTANTS l1, l2, l3, r1, r2, t1, t2, k1

Many(filter, fk) == [isList |-> TRUE, filter |-> filter, fk |-> fk]
One(filter, fk) == [isList |-> FALSE, filter |-> filter, fk |-> fk]

\* Every row is the first tenant's, under either key.
MCRowTypes == {[fk |-> fk, tenant |-> t1] : fk \in Fks}

MCAssignments ==
    {(l1 :> Many(t1, k1)) @@ (l2 :> Many(t2, k1)) @@ (l3 :> third) :
        third \in {Many(t1, k1), Many(t1, Empty), One(None, k1)}}
=============================================================================
