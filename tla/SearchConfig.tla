---------------------------- MODULE SearchConfig ----------------------------
(***************************************************************************)
(* The configuration of a search (SearchIndexConfig, SearchJoinConfig in   *)
(* src/config.rs).  An index is a record with its table, its               *)
(* searchable_fields and its join_fields; a join is such a record with the *)
(* index_field, local_field and foreign_field of the join.                 *)
(***************************************************************************)
EXTENDS JsonValue, Integers, SequencesExt

CONSTANT Joins  \* every SearchJoinConfig of the configuration, the nested ones too

\* No join is nested in itself, so no more joins than there are nest in each other.
Depth == Cardinality(Joins)
=============================================================================
