----------------------------- MODULE MCSyncJobs -----------------------------
(***************************************************************************)
(* SyncJobs for TLC.  Backlog is the state an offline device finds: every  *)
(* job was submitted, and its caller told it is queued.                    *)
(***************************************************************************)
EXTENDS SyncJobs

Backlog ==
    /\ row = [j \in Jobs |-> "queued"]
    /\ call = [j \in Jobs |-> "done"]
    /\ answers = [j \in Jobs |-> {"queued"}]
    /\ passed = {}
    /\ socket = [s \in Sessions |-> "none"]
    /\ cut = {}
    /\ down = [s \in Sessions |-> <<>>]
    /\ up = [s \in Sessions |-> <<>>]
    /\ task = [t \in Slots |-> Idle]
    /\ poll = [j \in Jobs |-> "idle"]
    /\ device = DeviceIdle(NoSession)
    /\ memory = <<>>
    /\ performed = [j \in Jobs |-> 0]
    /\ crashes = 0
    /\ faults = 0

BacklogSpec == Backlog /\ [][Next]_vars /\ Fairness
=============================================================================
