--------------------------- MODULE MCJournalWeeks ---------------------------
(* Two ingestions may meet: they are interchangeable. *)
EXTENDS JournalWeeks, TLC

Interchangeable == Permutations(Ingests)
=============================================================================
