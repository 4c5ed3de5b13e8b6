---------------------------- MODULE MCShardPins ----------------------------
(* One document with two revisions, the first of them analysed twice. *)
EXTENDS ShardPins

OneDocument == [r \in Revisions |-> CHOOSE d \in Documents : TRUE]
Analyses == [p \in Projections |-> IF p = "p3" THEN "r2" ELSE "r1"]
Contents == [u \in Uploads |-> CASE u = 1 -> "p2" [] u = 2 -> "p3" [] u = 3 -> "p1"]
Citations == {{}, {"p1"}, {"p2", "p3"}}
=============================================================================
