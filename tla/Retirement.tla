----------------------------- MODULE Retirement -----------------------------
(***************************************************************************)
(* What the retirement of a registration promises, without jobs, messages  *)
(* or handlers: once the owner has asked for it the registration is never  *)
(* open to new work again; it is reported closed only after the device has *)
(* given it up; and what the device has given up has no further effect.    *)
(***************************************************************************)
EXTENDS Naturals

CONSTANT Regs

VARIABLES
    phase,      \* "open", "closing", "held" (needs review) or "closed"
    given_up,   \* the registrations the device has retired for good
    effects     \* effects of each registration: Work performed, Sources saved

vars == <<phase, given_up, effects>>

Init ==
    /\ phase = [r \in Regs |-> "open"]
    /\ given_up = {}
    /\ effects = [r \in Regs |-> 0]

Ask(r) ==
    /\ phase[r] = "open"
    /\ phase' = [phase EXCEPT ![r] = "closing"]
    /\ UNCHANGED <<given_up, effects>>

GiveUp(r) ==
    /\ phase[r] # "open"
    /\ given_up' = given_up \cup {r}
    /\ UNCHANGED <<phase, effects>>

Close(r) ==
    /\ phase[r] \in {"closing", "held"} /\ r \in given_up
    /\ phase' = [phase EXCEPT ![r] = "closed"]
    /\ UNCHANGED <<given_up, effects>>

Hold(r) ==
    /\ phase[r] = "closing"
    /\ phase' = [phase EXCEPT ![r] = "held"]
    /\ UNCHANGED <<given_up, effects>>

TakeEffect(r) ==
    /\ r \notin given_up
    /\ effects' = [effects EXCEPT ![r] = @ + 1]
    /\ UNCHANGED <<phase, given_up>>

Next ==
    \E r \in Regs : Ask(r) \/ GiveUp(r) \/ Close(r) \/ Hold(r) \/ TakeEffect(r)

Spec == Init /\ [][Next]_vars
=============================================================================
