---------------------------- MODULE MCSourceSync ----------------------------
(* Small instances of SourceSync for TLC. *)
EXTENDS SourceSync

\* Two Markdown files.
PlainFormat == [p \in Paths |-> "md"]

\* One Markdown path and one that Document Files does not support.
MixedFormat == [p \in Paths |-> IF p = "a" THEN "md" ELSE "bin"]
=============================================================================
