------------------------- MODULE RegistrationDetach -------------------------
(***************************************************************************)
(* Retiring a registration: a Connection or a work folder that a device    *)
(* shares with the remote Corpus.  The service (registration-management.ts,*)
(* migration 0007) claims it and queues a registration.detach job; the     *)
(* device (daemon.py, state.py) retires it between its own operations and  *)
(* answers; the answer completes the remote side (sync-broker.ts).  It     *)
(* races the publication of an older configuration (cli.py, http.ts), Work *)
(* that was admitted before, Source uploads, restarts and lost messages.   *)
(* The queue, its limits and its replays are the subject of SyncJobs; here *)
(* an open job is sent to a device that is connected.                      *)
(***************************************************************************)
EXTENDS Naturals, FiniteSets

CONSTANTS
    Regs,           \* registrations of one device
    MaxGen,         \* bound: generations and versions
    MaxEffects,     \* bound: effects that let another upload start
    MaxFaults       \* bound: lost links, crashes, configuration changes

ASSUME DetachAssumption ==
    /\ MaxGen \in Nat \ {0} /\ MaxEffects \in Nat /\ MaxFaults \in Nat

VARIABLES
    kind,       \* "connection" or "workspace", for each registration
    row,        \* corpus_connections, corpus_workspace_bindings
    tomb,       \* corpus_registration_detachments
    job,        \* sync_jobs: the detach job and one Work job of a registration
    config,     \* the device's configuration: generations
    retired,    \* retired_registrations of the device
    answer,     \* completed_jobs of the device
    busy,       \* the job the device executes
    link,       \* is the device connected to its broker?
    down,       \* jobs on their way to the device
    up,         \* results on their way to the broker
    handler,    \* results the broker is processing
    publish,    \* the publication in progress (publish-connection)
    upload,     \* the Source upload in progress, its lock and its request
    effects,    \* effects of a registration on files or in the shard
    faults      \* faults so far

remote == <<kind, row, tomb, job>>
local == <<config, retired, answer, busy>>
net == <<link, down, up, handler>>
vars == <<remote, local, net, publish, upload, effects, faults>>

Kinds == {"connection", "workspace"}
Tasks == {"detach", "work"}
Jobs == Regs \X Tasks
Gens == 0 .. MaxGen
Connections == {r \in Regs : kind[r] = "connection"}
NoReg == "none"
NoJob == <<NoReg, "none">>
Verdicts == {"ok", "failed"}
OpenJob == {"queued", "dispatched"}

NoUpload == [at |-> "idle", reg |-> NoReg, locked |-> FALSE]
NoPublish == [at |-> "idle", reg |-> NoReg, gen |-> 0, expected |-> 0]

Init ==
    /\ kind \in [Regs -> Kinds]
    /\ row = [r \in Regs |-> [state |-> "ready", gen |-> 1]]
    /\ tomb = [r \in Regs |-> [state |-> "none", gen |-> 0]]
    /\ job = [j \in Jobs |-> [state |-> "absent", gen |-> 0]]
    /\ config = [r \in Regs |-> 1]
    /\ retired = [r \in Regs |-> 0]
    /\ answer = [j \in Jobs |-> "none"]
    /\ busy = NoJob
    /\ link = FALSE
    /\ down = {} /\ up = {} /\ handler = {}
    /\ publish = NoPublish
    /\ upload = NoUpload
    /\ effects = [r \in Regs |-> 0]
    /\ faults = 0
-----------------------------------------------------------------------------
(* The owner. *)

\* detach(): the claim, its job and the tombstone in one guarded batch.
Detach(r, gen) ==
    /\ tomb[r].state = "none"
    /\ row[r].state = "ready" /\ row[r].gen = gen
    /\ tomb' = [tomb EXCEPT ![r] = [state |-> "pending", gen |-> gen]]
    /\ row' = IF kind[r] = "connection" THEN [row EXCEPT ![r].state = "detaching"] ELSE row
    /\ job' = [job EXCEPT ![<<r, "detach">>] = [state |-> "queued", gen |-> gen]]
    /\ UNCHANGED <<kind, local, net, publish, upload, effects, faults>>

\* runJob(): Work is admitted in the same batch as its guard.
SubmitWork(r) ==
    /\ kind[r] = "connection"
    /\ job[<<r, "work">>].state = "absent"
    /\ row[r].state = "ready"
    /\ job' = [job EXCEPT ![<<r, "work">>] = [state |-> "queued", gen |-> row[r].gen]]
    /\ UNCHANGED <<kind, row, tomb, local, net, publish, upload, effects, faults>>

\* The triggers of migration 0007: nothing is inserted for, or written over, a
\* registration that has a tombstone.
NoTombstone(r) == tomb[r].state = "none"

\* workspaceBind(): a new binding, or the next version of the one named.
Bind(r) ==
    /\ kind[r] = "workspace"
    /\ NoTombstone(r)
    /\ row[r].gen < MaxGen
    /\ row' = [row EXCEPT ![r] = [state |-> "ready", gen |-> @.gen + 1]]
    /\ UNCHANGED <<kind, tomb, job, local, net, publish, upload, effects, faults>>

\* The purge of a Space takes its detached rows with it; tombstones stay.
PurgeRow(r) ==
    /\ row[r].state = "detached"
    /\ row' = [row EXCEPT ![r] = [state |-> "absent", gen |-> 0]]
    /\ UNCHANGED <<kind, tomb, job, local, net, publish, upload, effects, faults>>
-----------------------------------------------------------------------------
(* An older configuration is published, by a process of its own. *)

PublishStart(r) ==
    /\ publish = NoPublish
    /\ r \in Connections /\ retired[r] = 0
    /\ publish' = [at |-> "sent", reg |-> r, gen |-> config[r], expected |-> 0]
    /\ UNCHANGED <<remote, local, net, upload, effects, faults>>

\* upsertSyncConnections reads the row; the operator named its generation.
PublishRead ==
    LET r == publish.reg IN
    /\ publish.at = "sent"
    /\ publish' = IF publish.gen >= row[r].gen
                  THEN [publish EXCEPT !.at = "read", !.expected = row[r].gen]
                  ELSE NoPublish
    /\ UNCHANGED <<remote, local, net, upload, effects, faults>>

PublishCommit ==
    LET r == publish.reg IN
    /\ publish.at = "read"
    /\ row' = IF row[r].gen = publish.expected /\ NoTombstone(r)
              THEN [row EXCEPT ![r] = [state |-> "ready", gen |-> publish.gen]] ELSE row
    /\ publish' = NoPublish
    /\ UNCHANGED <<kind, tomb, job, local, net, upload, effects, faults>>
-----------------------------------------------------------------------------
(* The way of a job to the device and of its result back. *)

\* At each hello the broker sends again what was dispatched before.
Replayed_None == {}
Replayed == {j \in Jobs : job[j].state = "dispatched"}
Connect ==
    /\ ~ link
    /\ link' = TRUE
    /\ down' = Replayed
    /\ UNCHANGED <<remote, local, up, handler, publish, upload, effects, faults>>

Dispatch(j) ==
    /\ link /\ job[j].state = "queued"
    /\ down' = down \cup {j}
    /\ job' = [job EXCEPT ![j].state = "dispatched"]
    /\ UNCHANGED <<kind, row, tomb, local, link, up, handler, publish, upload, effects, faults>>

\* The device executes one job at a time; a remembered answer is sent again.
Take(j) ==
    /\ busy = NoJob /\ j \in down
    /\ down' = down \ {j}
    /\ IF answer[j] = "none" THEN busy' = j /\ up' = up
                             ELSE busy' = busy /\ up' = up \cup {<<j, answer[j]>>}
    /\ UNCHANGED <<remote, config, retired, answer, link, handler, publish, upload,
                   effects, faults>>

\* The answer is remembered before it is sent, if the link still is there.
Remember(j, verdict) ==
    /\ answer' = [answer EXCEPT ![j] = verdict]
    /\ up' = IF link THEN up \cup {<<j, verdict>>} ELSE up

\* A Connection is the device's in one generation, a work folder in any.
Registered(r, gen) ==
    IF kind[r] = "connection" THEN config[r] = gen ELSE config[r] # 0

\* source_change_lock: no Source change is being processed.
Drained_Unawaited == TRUE
Drained == ~ upload.locked

\* detach_registration, in one transaction.
Retire(r) ==
    /\ busy = <<r, "detach">> /\ Drained
    /\ retired[r] = 0 /\ Registered(r, job[busy].gen)
    /\ retired' = [retired EXCEPT ![r] = job[busy].gen]
    /\ UNCHANGED <<remote, config, answer, busy, net, publish, upload, effects, faults>>

\* The answer, also when the job is executed again after a crash.
RetireAnswer(r) ==
    /\ busy = <<r, "detach">>
    /\ \/ retired[r] # 0
       \/ Drained /\ ~ Registered(r, job[busy].gen)
    /\ Remember(busy, IF retired[r] = job[busy].gen THEN "ok" ELSE "failed")
    /\ busy' = NoJob
    /\ UNCHANGED <<remote, config, retired, link, down, handler, publish, upload,
                   effects, faults>>

\* A Work job of a retired registration, or of another generation, is refused.
MayWork(r) == retired[r] = 0 /\ config[r] = job[<<r, "work">>].gen
Work(r) ==
    /\ busy = <<r, "work">>
    /\ effects' = IF MayWork(r) THEN [effects EXCEPT ![r] = @ + 1] ELSE effects
    /\ Remember(busy, IF MayWork(r) THEN "ok" ELSE "failed")
    /\ busy' = NoJob
    /\ UNCHANGED <<remote, config, retired, link, down, handler, publish, upload, faults>>

\* A result is read by a handler of its own if its job is open.
Receive(j, verdict) ==
    /\ <<j, verdict>> \in up
    /\ up' = up \ {<<j, verdict>>}
    /\ handler' = IF job[j].state \in OpenJob
                  THEN handler \cup {[at |-> IF j[2] = "detach" THEN "look" ELSE "update",
                                      job |-> j, verdict |-> verdict]}
                  ELSE handler
    /\ UNCHANGED <<remote, local, link, down, publish, upload, effects, faults>>

\* finishRegistrationDetach reads the retirement; one that is detached is done.
Look(h) ==
    /\ h \in handler /\ h.at = "look"
    /\ handler' = (handler \ {h}) \cup
         {[h EXCEPT !.at = IF tomb[h.job[1]].state = "detached" THEN "update" ELSE "finish"]}
    /\ UNCHANGED <<remote, local, link, down, up, publish, upload, effects, faults>>

\* Its batch: guarded by the retirement and, for an exact acknowledgement, by
\* the claimed row; a failed guard ends the handler without an answer.
Claimed(r) == IF kind[r] = "connection" THEN "detaching" ELSE "ready"
FinishGuard(r, verdict) ==
    /\ tomb[r].state \in {"pending", "blocked"}
    /\ verdict = "ok" => row[r].state = Claimed(r) /\ row[r].gen = tomb[r].gen
Exact_Any(verdict) == TRUE
Exact(verdict) == verdict = "ok"
Finish(h) ==
    LET r == h.job[1] IN
    /\ h \in handler /\ h.at = "finish"
    /\ IF FinishGuard(r, h.verdict)
       THEN /\ tomb' = [tomb EXCEPT ![r].state = IF Exact(h.verdict) THEN "detached"
                                                 ELSE "blocked"]
            /\ row' = IF ~ Exact(h.verdict) THEN row
                      ELSE IF kind[r] = "connection" THEN [row EXCEPT ![r].state = "detached"]
                      ELSE [row EXCEPT ![r] = [state |-> "absent", gen |-> 0]]
            /\ handler' = (handler \ {h}) \cup {[h EXCEPT !.at = "update"]}
       ELSE /\ handler' = handler \ {h}
            /\ UNCHANGED <<row, tomb>>
    /\ UNCHANGED <<kind, job, local, link, down, up, publish, upload, effects, faults>>

\* completeJob: the job's row, if it still is open.
Update(h) ==
    /\ h \in handler /\ h.at = "update"
    /\ job' = IF job[h.job].state \in OpenJob
              THEN [job EXCEPT ![h.job].state = IF h.verdict = "ok" THEN "succeeded"
                                                ELSE "failed"]
              ELSE job
    /\ handler' = handler \ {h}
    /\ UNCHANGED <<kind, row, tomb, local, link, down, up, publish, upload, effects, faults>>
-----------------------------------------------------------------------------
(* Source uploads: a change is processed under the lock that a detach waits *)
(* for; the service looks at the registrations before it calls the shard.   *)

UploadStart(r) ==
    /\ r \in Connections /\ retired[r] = 0
    /\ upload = NoUpload
    /\ effects[r] < MaxEffects
    /\ upload' = [at |-> "sent", reg |-> r, locked |-> TRUE]
    /\ UNCHANGED <<remote, local, net, publish, effects, faults>>

\* callShard: every registration of the corpus is open, or none was retired.
Admitted(r) ==
    /\ row[r].state \notin {"detaching", "detached"}
    /\ row[r].state = "ready" \/ \A q \in Connections : tomb[q].state = "none"
UploadCheck ==
    /\ upload.at = "sent"
    /\ upload' = IF Admitted(upload.reg) THEN [upload EXCEPT !.at = "checked"] ELSE NoUpload
    /\ UNCHANGED <<remote, local, net, publish, effects, faults>>

\* The shard's commit.  One that the device has given up is a straggler: it is
\* of the time before, and not counted.
UploadCommit ==
    /\ upload.at = "checked"
    /\ effects' = IF upload.locked THEN [effects EXCEPT ![upload.reg] = @ + 1] ELSE effects
    /\ upload' = NoUpload
    /\ UNCHANGED <<remote, local, net, publish, faults>>
-----------------------------------------------------------------------------
(* Faults. *)

Fault == faults < MaxFaults /\ faults' = faults + 1

\* The link breaks: what is on its way is lost, the device finishes its job.
Drop ==
    /\ Fault /\ link
    /\ link' = FALSE /\ down' = {} /\ up' = {}
    /\ UNCHANGED <<remote, local, handler, publish, upload, effects>>

\* The broker is evicted; what it was processing is not finished.
Evict ==
    /\ Fault /\ handler # {}
    /\ handler' = {} /\ link' = FALSE /\ down' = {} /\ up' = {}
    /\ UNCHANGED <<remote, local, publish, upload, effects>>

\* The device process ends; a request it has sent is still executed.
Stop ==
    /\ busy' = NoJob
    /\ link' = FALSE /\ down' = {} /\ up' = {}
    /\ upload' = [upload EXCEPT !.locked = FALSE]

Crash ==
    /\ Fault /\ Stop
    /\ UNCHANGED <<remote, config, retired, answer, handler, publish, effects>>

\* The owner changes the device's configuration and restarts it: a Connection
\* has a new generation, a work folder is taken out or put back.  A retired
\* registration is left as it is.
Reconfigure(r) ==
    /\ Fault /\ Stop
    /\ retired[r] = 0
    /\ \E gen \in Gens :
          /\ IF kind[r] = "connection" THEN gen = config[r] + 1 ELSE gen = 1 - config[r]
          /\ config' = [config EXCEPT ![r] = gen]
    /\ UNCHANGED <<remote, retired, answer, handler, publish, effects>>

\* A request for an upload times out on the device only.
GiveUpload ==
    /\ Fault /\ upload.locked
    /\ upload' = [upload EXCEPT !.locked = FALSE]
    /\ UNCHANGED <<remote, local, net, publish, effects>>
-----------------------------------------------------------------------------
Device ==
    \/ \E j \in Jobs : Take(j)
    \/ \E r \in Regs : Retire(r) \/ RetireAnswer(r) \/ Work(r)

Broker ==
    \/ Connect
    \/ \E j \in Jobs : Dispatch(j) \/ \E v \in Verdicts : Receive(j, v)
    \/ \E h \in handler : Look(h) \/ Finish(h) \/ Update(h)

Owner ==
    \E r \in Regs : \/ \E gen \in Gens \ {0} : Detach(r, gen)
                    \/ SubmitWork(r) \/ Bind(r) \/ PurgeRow(r)

Publish == (\E r \in Regs : PublishStart(r)) \/ PublishRead \/ PublishCommit
Upload == (\E r \in Regs : UploadStart(r)) \/ UploadCheck \/ UploadCommit

Next ==
    \/ Owner \/ Device \/ Broker \/ Publish \/ Upload
    \/ Drop \/ Evict \/ Crash \/ GiveUpload \/ \E r \in Regs : Reconfigure(r)

Spec == Init /\ [][Next]_vars

\* The device connects again and again; broker, handlers and device go on; an
\* upload ends, and its lock (asyncio.Lock) serves who waits in order: hence
\* the strong fairness of the steps that wait for it.
Fairness ==
    /\ WF_vars(Connect)
    /\ \A j \in Jobs : /\ WF_vars(Dispatch(j)) /\ WF_vars(Take(j))
                       /\ WF_vars(\E v \in Verdicts : Receive(j, v))
    /\ \A r \in Regs : SF_vars(Retire(r)) /\ SF_vars(RetireAnswer(r)) /\ WF_vars(Work(r))
    /\ WF_vars(\E h \in handler : Look(h) \/ Finish(h) \/ Update(h))
    /\ WF_vars(UploadCheck \/ UploadCommit)

FairSpec == Spec /\ Fairness
-----------------------------------------------------------------------------
TypeOK ==
    /\ kind \in [Regs -> Kinds]
    /\ row \in [Regs -> [state : {"absent", "ready", "detaching", "detached"}, gen : Gens]]
    /\ tomb \in [Regs -> [state : {"none", "pending", "blocked", "detached"}, gen : Gens]]
    /\ job \in [Jobs -> [state : OpenJob \cup {"absent", "succeeded", "failed"}, gen : Gens]]
    /\ config \in [Regs -> Gens] /\ retired \in [Regs -> Gens]
    /\ answer \in [Jobs -> Verdicts \cup {"none"}]
    /\ busy \in Jobs \cup {NoJob}
    /\ link \in BOOLEAN /\ down \subseteq Jobs /\ up \subseteq Jobs \X Verdicts
    /\ handler \subseteq [at : {"look", "finish", "update"}, job : Jobs, verdict : Verdicts]
    /\ publish \in [at : {"idle", "sent", "read"}, reg : Regs \cup {NoReg}, gen : Gens,
                    expected : Gens]
    /\ upload \in [at : {"idle", "sent", "checked"}, reg : Regs \cup {NoReg},
                   locked : BOOLEAN]
    /\ effects \in [Regs -> Nat] /\ faults \in 0 .. MaxFaults

\* Whatever is published, bound or purged, the remote row of a registration is
\* what its retirement says: claimed in one generation and never open again.
HeldRow(r) ==
    /\ tomb[r].state = "none" => row[r].state \in {"ready", "absent"}
    /\ tomb[r].state = "detached" => row[r].state \in {"detached", "absent"}
    /\ tomb[r].state \in {"pending", "blocked"} =>
          row[r].state = Claimed(r) /\ row[r].gen = tomb[r].gen
TombstoneHolds == \A r \in Regs : HeldRow(r)

\* The records of one retirement, kept in two databases and written in several
\* steps, never contradict each other: a registration is detached, or its job
\* succeeded, only with the device's own tombstone of that generation; it is
\* blocked, or its job failed, only if the device has refused and kept it.  And
\* the row agrees with the tombstone.
Refused(r) == answer[<<r, "detach">>] = "failed" /\ retired[r] = 0
RecordsAgree ==
    /\ TombstoneHolds
    /\ \A r \in Regs :
        /\ tomb[r].state = "detached" => retired[r] = tomb[r].gen /\ retired[r] # 0
        /\ job[<<r, "detach">>].state = "succeeded" => tomb[r].state = "detached"
        /\ tomb[r].state = "blocked" => Refused(r)
        /\ job[<<r, "detach">>].state = "failed" => tomb[r].state = "blocked"

\* What makes them inductive: the evidence for a verdict on its way.
EvidenceOf(r) ==
    LET j == <<r, "detach">> IN
    /\ tomb[r].state = "none" <=> job[j].state = "absent"
    /\ job[j].gen = tomb[r].gen /\ (tomb[r].state = "none" <=> tomb[r].gen = 0)
    /\ retired[r] # 0 => retired[r] = tomb[r].gen
    /\ answer[j] = "ok" => retired[r] # 0
    /\ answer[j] = "failed" => retired[r] = 0
    /\ job[j].state = "absent" => answer[j] = "none" /\ j \notin down
    /\ busy = j => answer[j] = "none" /\ job[j].state # "absent"
    /\ \A v \in Verdicts : <<j, v>> \in up => answer[j] = v
    /\ \A h \in handler : h.job = j =>
          /\ answer[j] = h.verdict
          /\ h.at = "update" => tomb[r].state = IF h.verdict = "ok" THEN "detached" ELSE "blocked"
LockHolds ==
    /\ upload.locked => upload.at # "idle" /\ upload.reg \in Regs /\ retired[upload.reg] = 0
    /\ publish.at # "idle" => publish.reg \in Regs

DetachInv ==
    /\ TypeOK /\ TombstoneHolds /\ RecordsAgree /\ LockHolds
    /\ \A r \in Regs : EvidenceOf(r)

\* A retirement that was asked for is settled, and so is its job, through lost
\* links, evictions, crashes and configuration changes.
DetachSettles ==
    \A r \in Regs : tomb[r].state # "none" ~>
        tomb[r].state \in {"blocked", "detached"} /\ job[<<r, "detach">>].state \notin OpenJob

PhaseOf == [none |-> "open", pending |-> "closing", blocked |-> "held", detached |-> "closed"]
Abstract ==
    INSTANCE Retirement WITH
        phase <- [r \in Regs |-> PhaseOf[tomb[r].state]],
        given_up <- {r \in Regs : retired[r] # 0}

\* The protocol keeps the promise of Retirement: no effect after the device has
\* given a registration up, which is before the service says so.
KeepsPromise == Abstract!Spec
=============================================================================
