--------------------------- MODULE MCLibraryAssets ---------------------------
(* Two issues and two keys; one issue and one object are from before. *)
EXTENDS LibraryAssets

Both == [keys |-> {"k", "l"}, hidden |-> {}, complete |-> TRUE, cites |-> {}]
One == [keys |-> {"k"}, hidden |-> {}, complete |-> TRUE, cites |-> {"a"}]
Unknown == [keys |-> {}, hidden |-> {"l"}, complete |-> FALSE, cites |-> {}]

SomeContents == {Both, One, Unknown}
=============================================================================
