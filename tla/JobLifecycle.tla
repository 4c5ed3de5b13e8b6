---------------------------- MODULE JobLifecycle ----------------------------
(***************************************************************************)
(* What the job path promises to a caller, without sockets, replays or     *)
(* caches: a submitted job is settled at most once; it succeeds only after *)
(* its operation took effect on the device; it expires only when its       *)
(* deadline has passed; only settled jobs are ever deleted.                *)
(***************************************************************************)
CONSTANT Jobs

VARIABLES
    state,      \* "absent", "open", how the job was settled, or "purged"
    effects,    \* the jobs whose operation has taken effect on the device
    late        \* the jobs whose deadline has passed

vars == <<state, effects, late>>

Settled == {"succeeded", "failed", "expired"}

Init ==
    /\ state = [j \in Jobs |-> "absent"]
    /\ effects = {}
    /\ late = {}

Submit(j) ==
    /\ state[j] = "absent"
    /\ state' = [state EXCEPT ![j] = "open"]
    /\ UNCHANGED <<effects, late>>

\* The device may run the job again: the effect is idempotent here.
TakeEffect(j) ==
    /\ state[j] # "absent"
    /\ effects' = effects \cup {j}
    /\ UNCHANGED <<state, late>>

Succeed(j) ==
    /\ state[j] = "open" /\ j \in effects
    /\ state' = [state EXCEPT ![j] = "succeeded"]
    /\ UNCHANGED <<effects, late>>

Fail(j) ==
    /\ state[j] = "open"
    /\ state' = [state EXCEPT ![j] = "failed"]
    /\ UNCHANGED <<effects, late>>

PassDeadline(j) ==
    /\ state[j] # "absent"
    /\ late' = late \cup {j}
    /\ UNCHANGED <<state, effects>>

\* Late open jobs expire and old settled jobs are deleted, some at a time.
Maintain ==
    /\ \E expired \in SUBSET {j \in late : state[j] = "open"},
          purged \in SUBSET {j \in Jobs : state[j] \in Settled} :
         state' = [j \in Jobs |-> IF j \in expired THEN "expired"
                                 ELSE IF j \in purged THEN "purged"
                                 ELSE state[j]]
    /\ UNCHANGED <<effects, late>>

Next ==
    \/ \E j \in Jobs : \/ Submit(j) \/ TakeEffect(j) \/ PassDeadline(j)
                       \/ Succeed(j) \/ Fail(j)
    \/ Maintain

Spec == Init /\ [][Next]_vars
=============================================================================
