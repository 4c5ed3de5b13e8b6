------------------------------- MODULE MCHost -------------------------------
(***************************************************************************)
(* The Host for TLC.  Its jobs and its files share no state, so a behaviour *)
(* exercises one of them.                                                   *)
(***************************************************************************)
EXTENDS HostJobs, HostFiles

VARIABLE part
hostVars == <<vars, fileVars, part>>

AnyHash == [u \in Uploads |-> Contents]
SomeDrafts == {<<1>>, <<2>>}
Only(r, e, c, a) == [requests |-> r, edits |-> e, crashes |-> c, ages |-> a]
SomeBudgets == {Only(0, 0, 0, 0), Only(2, 1, 0, 0), Only(2, 0, 1, 1)}

HostInit ==
    /\ Init /\ FilesInit
    /\ part \in {"jobs", "files"}
    /\ (part = "jobs") = (left = Only(0, 0, 0, 0))
    /\ \A d \in Dirs : tree[d].file.bytes = <<d>>
HostNext ==
    \/ part = "jobs" /\ Next /\ UNCHANGED <<fileVars, part>>
    \/ part = "files" /\ FilesNext /\ UNCHANGED <<vars, part>>
HostSpec == HostInit /\ [][HostNext]_hostVars /\ Fairness
=============================================================================
