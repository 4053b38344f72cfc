-------------------------- MODULE MCIndexPipeline --------------------------
(* IndexPipeline on two materials, two features, a size and an attribute,  *)
(* from any consistent database whose index is current.                    *)
EXTENDS IndexPipeline

CONSTANTS m1, m2, f1, f2, s1, a1
=============================================================================
