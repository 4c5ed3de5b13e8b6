--------------------------- MODULE MCTrashGroups ---------------------------
(* A small instance of TrashGroups for TLC. *)
EXTENDS TrashGroups

\* Space A holds a Skill, an item that supersedes one of Space B, and an inactive
\* item that the one of B supersedes; a document of B cites the Source of A; a
\* document of A does not exist yet.
MCKind == [t \in Things |-> CASE t \in {"item", "newer", "old"} -> "context_item"
                              [] t = "skill" -> "context_skill"
                              [] OTHER -> "document"]
MCHome == [t \in Things |-> IF t \in {"item", "citing"} THEN "B" ELSE "A"]
MCCites == [t \in Present |-> IF t = "citing" THEN {"A"} ELSE {}]
MCSupersedes == {<<"newer", "item">>, <<"item", "old">>}
=============================================================================
