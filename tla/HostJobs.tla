------------------------------ MODULE HostJobs ------------------------------
(***************************************************************************)
(* Commands that a Host runs for its owner (apps/host jobs.py, worker.py). *)
(* A manager keeps a row per job and a bounded number of slots; each       *)
(* command is owned by a detached worker that outlives the manager and     *)
(* tells what happens through files: run.json, result.json and the cancel  *)
(* marker.  The manager is restarted, workers are killed, the machine      *)
(* reboots; a restarted manager finds its workers again by their files.    *)
(***************************************************************************)
EXTENDS Naturals, FiniteSets

CONSTANTS
    Jobs,
    MaxConcurrent,  \* host.max_concurrent_jobs
    MaySlow,        \* may a worker need more than a second to publish itself?
    MaxFaults       \* bound: restarts, killed workers, reboots

ASSUME HostAssumption ==
    /\ IsFiniteSet(Jobs) /\ MaxConcurrent \in Nat \ {0}
    /\ MaySlow \in BOOLEAN /\ MaxFaults \in Nat

VARIABLES
    row,        \* jobs.sqlite: status, and whether it has the process identity
    run,        \* is there a run.json?
    result,     \* result.json
    marker,     \* is there a cancel marker?
    worker,     \* the worker process
    child,      \* the command's process
    host,       \* the manager: "down", "boot" (start()) or "up"
    task,       \* the manager's task for a job
    free,       \* the semaphore's value
    ask,        \* the cancellation in progress
    faults

files == <<run, result, marker>>
os == <<worker, child>>
mgr == <<host, task, free>>
vars == <<row, files, os, mgr, ask, faults>>

Verdicts == {"succeeded", "failed", "cancelled", "timed_out"}
Terminal == Verdicts \cup {"lost"}
Active == {"queued", "running"}
Alive == {"started", "popened", "serving", "cancelling", "timing"}
Holding == {"spawn", "spawned", "publish", "monitor", "check", "missing"}

LiveProcess(j) == row[j].known /\ child[j] = "alive"
LiveWorker(j) == row[j].known /\ worker[j] \in Alive

Init ==
    /\ row = [j \in Jobs |-> [status |-> "absent", known |-> FALSE]]
    /\ run = [j \in Jobs |-> FALSE]
    /\ result = [j \in Jobs |-> "none"]
    /\ marker = [j \in Jobs |-> FALSE]
    /\ worker = [j \in Jobs |-> "none"]
    /\ child = [j \in Jobs |-> "none"]
    /\ host = "up"
    /\ task = [j \in Jobs |-> "none"]
    /\ free = MaxConcurrent
    /\ ask = [j \in Jobs |-> "none"]
    /\ faults = 0
-----------------------------------------------------------------------------
(* What the manager reads from the files. *)

\* _sync_run: the identity of the processes; a queued job is running.
SyncRun(j, r) ==
    IF run[j] THEN [status |-> IF r.status = "queued" THEN "running" ELSE r.status,
                    known |-> TRUE]
    ELSE r

\* _sync_result: and the verdict.
SyncResult(j, r) ==
    IF result[j] # "none" THEN [SyncRun(j, r) EXCEPT !.status = result[j]] ELSE SyncRun(j, r)

\* _lost.
Lost(r) == [r EXCEPT !.status = "lost"]

\* The task of a job ends: its slot is released.
Ended_Kept(j) == task' = [task EXCEPT ![j] = "none"] /\ free' = free
Ended(j) == task' = [task EXCEPT ![j] = "none"] /\ free' = free + 1
-----------------------------------------------------------------------------
(* A job is submitted, waits for a slot and is handed to its worker. *)

Submit(j) ==
    /\ host = "up" /\ row[j].status = "absent"
    /\ row' = [row EXCEPT ![j].status = "queued"]
    /\ task' = [task EXCEPT ![j] = "waiting"]
    /\ UNCHANGED <<files, os, host, free, ask, faults>>

\* With the slot, the marker is looked at before anything is spawned.
Acquire(j) ==
    /\ task[j] = "waiting" /\ host = "up" /\ free > 0
    /\ IF marker[j]
       THEN /\ row' = [row EXCEPT ![j].status = "cancelled"]
            /\ task' = [task EXCEPT ![j] = "none"]
            /\ free' = free
       ELSE /\ row' = row
            /\ task' = [task EXCEPT ![j] = "spawn"]
            /\ free' = free - 1
    /\ UNCHANGED <<files, os, host, ask, faults>>

Spawn(j) ==
    /\ task[j] = "spawn"
    /\ worker' = [worker EXCEPT ![j] = "started"]
    /\ task' = [task EXCEPT ![j] = "spawned"]
    /\ UNCHANGED <<row, files, child, host, free, ask, faults>>

\* The launch's own copy of the job is saved, over what a caller of cancel may
\* have read from the files meanwhile, and read again at once.
Launched_Blind(j) ==
    /\ task[j] = "spawned"
    /\ row' = [row EXCEPT ![j] = [status |-> "running", known |-> FALSE]]
    /\ task' = [task EXCEPT ![j] = "publish"]
    /\ UNCHANGED <<files, os, host, free, ask, faults>>
Launched(j) ==
    LET r == SyncResult(j, [status |-> "running", known |-> FALSE]) IN
    /\ task[j] = "spawned"
    /\ row' = [row EXCEPT ![j] = r]
    /\ IF r.status \in Terminal THEN Ended(j)
       ELSE /\ task' = [task EXCEPT ![j] = IF r.known THEN "monitor" ELSE "publish"]
            /\ free' = free
    /\ UNCHANGED <<files, os, host, ask, faults>>

\* The worker publishes the identity of its child, or its failure.
Published(j) ==
    LET r == SyncResult(j, row[j]) IN
    /\ task[j] = "publish" /\ (run[j] \/ result[j] # "none")
    /\ row' = [row EXCEPT ![j] = r]
    /\ IF r.status \in Terminal THEN Ended(j)
       ELSE task' = [task EXCEPT ![j] = "monitor"] /\ free' = free
    /\ UNCHANGED <<files, os, host, ask, faults>>

\* After a second without either the job is lost.
PublishTimeout(j) ==
    LET r == SyncResult(j, row[j]) IN
    /\ task[j] = "publish" /\ (MaySlow \/ worker[j] = "gone")
    /\ row' = [row EXCEPT ![j] = IF r.status \in Terminal THEN r ELSE Lost(r)]
    /\ Ended(j)
    /\ UNCHANGED <<files, os, host, ask, faults>>
-----------------------------------------------------------------------------
(* _monitor: the result is read, then the processes are looked at; a job is *)
(* lost only after another look at the result.                              *)

Monitor(j) ==
    LET r == SyncResult(j, row[j]) IN
    /\ task[j] = "monitor"
    /\ row' = [row EXCEPT ![j] = r]
    /\ IF r.status \in Terminal THEN Ended(j)
       ELSE task' = [task EXCEPT ![j] = "check"] /\ free' = free
    /\ UNCHANGED <<files, os, host, ask, faults>>

Present(j) == LiveProcess(j) \/ LiveWorker(j)
Check(j) ==
    /\ task[j] = "check"
    /\ task' = [task EXCEPT ![j] = IF Present(j) THEN "monitor" ELSE "missing"]
    /\ UNCHANGED <<row, files, os, host, free, ask, faults>>

Missing_Once(j) ==
    /\ task[j] = "missing"
    /\ row' = [row EXCEPT ![j] = Lost(@)]
    /\ Ended(j)
    /\ UNCHANGED <<files, os, host, ask, faults>>
Missing(j) ==
    LET r == SyncResult(j, row[j]) IN
    /\ task[j] = "missing"
    /\ row' = [row EXCEPT ![j] = IF r.status \in Terminal THEN r ELSE Lost(r)]
    /\ Ended(j)
    /\ UNCHANGED <<files, os, host, ask, faults>>
-----------------------------------------------------------------------------
(* Cancellation. *)

\* A queued job that holds no slot is cancelled here; one that is being spawned
\* is left to its worker, which finds the marker.
Waiting_Any(j) == TRUE
Waiting(j) == task[j] = "waiting"
Cancel(j) ==
    LET r == SyncResult(j, row[j]) IN
    /\ host = "up" /\ ask[j] = "none" /\ row[j].status # "absent"
    /\ IF r.status \in Terminal
       THEN row' = [row EXCEPT ![j] = r] /\ UNCHANGED <<marker, task, ask>>
       ELSE /\ marker' = [marker EXCEPT ![j] = TRUE]
            /\ IF r.status = "queued" /\ Waiting(j)
               THEN /\ row' = [row EXCEPT ![j].status = "cancelled"]
                    /\ task' = [task EXCEPT ![j] = IF @ = "waiting" THEN "none" ELSE @]
                    /\ ask' = ask
               ELSE /\ row' = [row EXCEPT ![j] = r]
                    /\ ask' = [ask EXCEPT ![j] = IF r.status = "queued" THEN "wait" ELSE "term"]
                    /\ task' = task
    /\ UNCHANGED <<run, result, os, host, free, faults>>

\* SIGTERM to the command's group, which may ignore it.
Terminate(j) ==
    LET r == SyncResult(j, row[j]) IN
    /\ ask[j] = "term"
    /\ row' = [row EXCEPT ![j] = r]
    /\ IF r.status \notin Terminal /\ r.known /\ child[j] = "alive"
       THEN /\ child' \in {child, [child EXCEPT ![j] = "dead"]}
            /\ ask' = [ask EXCEPT ![j] = "kill"]
       ELSE /\ ask' = [ask EXCEPT ![j] = "wait"]
            /\ child' = child
    /\ UNCHANGED <<files, worker, mgr, faults>>

Kill(j) ==
    /\ ask[j] = "kill"
    /\ child' = IF LiveProcess(j) THEN [child EXCEPT ![j] = "dead"] ELSE child
    /\ ask' = [ask EXCEPT ![j] = "wait"]
    /\ UNCHANGED <<row, files, worker, mgr, faults>>

\* The caller waits for the job's end, but not for ever.
Answer(j) ==
    /\ ask[j] = "wait"
    /\ ask' = [ask EXCEPT ![j] = "none"]
    /\ UNCHANGED <<row, files, os, mgr, faults>>
-----------------------------------------------------------------------------
(* The worker. *)

\* Its verdict is written before it ends.
Finish(j, verdict) ==
    /\ result' = [result EXCEPT ![j] = verdict]
    /\ worker' = [worker EXCEPT ![j] = "gone"]

Popen(j) ==
    /\ worker[j] = "started"
    /\ \/ /\ worker' = [worker EXCEPT ![j] = "popened"]
          /\ child' = [child EXCEPT ![j] = "alive"]
          /\ result' = result
       \/ Finish(j, "failed") /\ child' = child
    /\ UNCHANGED <<row, run, marker, mgr, ask, faults>>

PublishRun(j) ==
    /\ worker[j] = "popened"
    /\ run' = [run EXCEPT ![j] = TRUE]
    /\ worker' = [worker EXCEPT ![j] = "serving"]
    /\ UNCHANGED <<row, result, marker, child, mgr, ask, faults>>

\* Its loop while the command runs: the marker, then the deadline.
Watch(j) ==
    /\ worker[j] = "serving" /\ child[j] = "alive"
    /\ worker' = [worker EXCEPT ![j] = IF marker[j] THEN "cancelling" ELSE "timing"]
    /\ UNCHANGED <<row, files, child, mgr, ask, faults>>

TerminateGroup(j) ==
    /\ worker[j] \in {"cancelling", "timing"} /\ child[j] = "alive"
    /\ child' = [child EXCEPT ![j] = "dead"]
    /\ UNCHANGED <<row, files, worker, mgr, ask, faults>>

Verdict(j) ==
    IF worker[j] = "cancelling" \/ marker[j] THEN {"cancelled"}
    ELSE IF worker[j] = "timing" THEN {"timed_out"} ELSE {"succeeded", "failed"}
PublishResult(j) ==
    /\ worker[j] \in {"serving", "cancelling", "timing"} /\ child[j] = "dead"
    /\ \E verdict \in Verdict(j) : Finish(j, verdict)
    /\ UNCHANGED <<row, run, marker, child, mgr, ask, faults>>

\* The command ends by itself.
Exit(j) ==
    /\ child[j] = "alive"
    /\ child' = [child EXCEPT ![j] = "dead"]
    /\ UNCHANGED <<row, files, worker, mgr, ask, faults>>
-----------------------------------------------------------------------------
(* The manager stops or dies, and starts again. *)

Fault == faults < MaxFaults /\ faults' = faults + 1

Down ==
    /\ host' = "down"
    /\ task' = [j \in Jobs |-> "none"]
    /\ ask' = [j \in Jobs |-> "none"]
    /\ free' = 0

\* stop(): monitors are cancelled; a spawn in progress is completed and saved.
Stop ==
    LET spawning == {j \in Jobs : task[j] \in {"spawn", "spawned"}} IN
    /\ Fault /\ host = "up" /\ Down
    /\ row' = [j \in Jobs |-> IF j \in spawning THEN [status |-> "running", known |-> FALSE]
                              ELSE row[j]]
    /\ worker' = [j \in Jobs |-> IF task[j] = "spawn" THEN "started" ELSE worker[j]]
    /\ UNCHANGED <<files, child>>

Crash ==
    /\ Fault /\ host # "down" /\ Down
    /\ UNCHANGED <<row, files, os>>

\* start(): each active row, its result and then its processes.
Start ==
    /\ host = "down"
    /\ host' = "boot"
    /\ task' = [j \in Jobs |-> IF row[j].status \in Active THEN "sync" ELSE "none"]
    /\ UNCHANGED <<row, files, os, free, ask, faults>>

StartSync(j) ==
    LET r == SyncResult(j, row[j]) IN
    /\ task[j] = "sync"
    /\ row' = [row EXCEPT ![j] = r]
    /\ task' = [task EXCEPT ![j] = IF r.status \in Terminal THEN "none" ELSE "look"]
    /\ UNCHANGED <<files, os, host, free, ask, faults>>

StartLook(j) ==
    /\ task[j] = "look"
    /\ IF Present(j)
       THEN row' = row /\ task' = [task EXCEPT ![j] = "recovered"]
       ELSE row' = [row EXCEPT ![j] = Lost(@)] /\ task' = [task EXCEPT ![j] = "none"]
    /\ UNCHANGED <<files, os, host, free, ask, faults>>

\* The recovered jobs have their slots.
Recovered == {j \in Jobs : task[j] = "recovered"}
FreeAfter(n) == IF n < MaxConcurrent THEN MaxConcurrent - n ELSE 0
Started ==
    /\ host = "boot" /\ \A j \in Jobs : task[j] \in {"none", "recovered"}
    /\ host' = "up"
    /\ free' = FreeAfter(Cardinality(Recovered))
    /\ task' = [j \in Jobs |-> IF j \in Recovered THEN "monitor" ELSE "none"]
    /\ UNCHANGED <<row, files, os, ask, faults>>

KillWorker(j) ==
    /\ Fault /\ worker[j] \in Alive
    /\ worker' = [worker EXCEPT ![j] = "gone"]
    /\ UNCHANGED <<row, files, child, mgr, ask>>

Reboot ==
    /\ Fault /\ Down
    /\ worker' = [j \in Jobs |-> IF worker[j] \in Alive THEN "gone" ELSE worker[j]]
    /\ child' = [j \in Jobs |-> IF child[j] = "alive" THEN "dead" ELSE child[j]]
    /\ UNCHANGED <<row, files>>
-----------------------------------------------------------------------------
Launch(j) == Acquire(j) \/ Spawn(j) \/ Launched(j) \/ Published(j) \/ PublishTimeout(j)
Monitoring(j) == Monitor(j) \/ Check(j) \/ Missing(j)
Cancelling(j) == Terminate(j) \/ Kill(j) \/ Answer(j)
Working(j) == Popen(j) \/ PublishRun(j) \/ Watch(j) \/ TerminateGroup(j) \/ PublishResult(j)
Starting == Start \/ Started \/ \E j \in Jobs : StartSync(j) \/ StartLook(j)

Next ==
    \/ \E j \in Jobs : \/ Submit(j) \/ Cancel(j) \/ Launch(j) \/ Monitoring(j)
                       \/ Cancelling(j) \/ Working(j) \/ Exit(j) \/ KillWorker(j)
    \/ Starting \/ Stop \/ Crash \/ Reboot

Spec == Init /\ [][Next]_vars

\* The event loop and the workers go on, a stopped manager is started again; the
\* semaphore serves its waiters in order, hence strong fairness for each.  A
\* command need not end by itself: its worker's deadline ends it.
Fairness ==
    /\ WF_vars(Starting)
    /\ \A j \in Jobs :
          /\ SF_vars(Acquire(j))
          /\ WF_vars(Launch(j) \/ Monitoring(j)) /\ WF_vars(Cancelling(j))
          /\ WF_vars(Working(j))

FairSpec == Spec /\ Fairness
-----------------------------------------------------------------------------
TypeOK ==
    /\ row \in [Jobs -> [status : {"absent"} \cup Active \cup Terminal, known : BOOLEAN]]
    /\ run \in [Jobs -> BOOLEAN] /\ marker \in [Jobs -> BOOLEAN]
    /\ result \in [Jobs -> Verdicts \cup {"none"}]
    /\ worker \in [Jobs -> Alive \cup {"none", "gone"}]
    /\ child \in [Jobs -> {"none", "alive", "dead"}]
    /\ host \in {"down", "boot", "up"}
    /\ task \in [Jobs -> Holding \cup {"none", "waiting", "sync", "look", "recovered"}]
    /\ free \in Nat
    /\ ask \in [Jobs -> {"none", "term", "kill", "wait"}]
    /\ faults \in Nat

\* A job that is reported cancelled is over: its command does not run, and no
\* worker is left, or will come, that could start it (cancel, _launch).
CancelledIsOver ==
    \A j \in Jobs : row[j].status = "cancelled" =>
        marker[j] /\ child[j] # "alive" /\ worker[j] \in {"none", "gone"} /\ task[j] # "spawn"

\* A verdict is what the worker wrote, and is final.  A loss may turn out to be
\* wrong, and then the verdict is the worker's; a launch that is stopped may
\* forget a verdict (stop() saves its old copy), which the next start() reads
\* again.
VerdictIsFinal ==
    [][\A j \in Jobs :
          /\ row[j].status \in Verdicts =>
                \/ row'[j].status = row[j].status
                \/ row'[j].status = "running" /\ result[j] = row[j].status /\ host' = "down"
          /\ row[j].status = "lost" => row'[j].status \in {"lost", result[j]}
          /\ row'[j].status \in {"succeeded", "timed_out"} => result[j] = row'[j].status]_vars

\* While the manager monitors a job it does not report as lost a command whose
\* worker has given a verdict, or can still give one (the comment in _monitor).
\* The verdict is published after the child has ended.
MonitorIsPatient ==
    [][\A j \in Jobs :
          task[j] \in {"monitor", "check", "missing"} /\ row[j].status = "running"
              /\ row'[j].status = "lost" =>
            result[j] = "none" /\ worker[j] = "gone"]_vars

\* A command without its worker has no deadline, and keeps its slot.
Orphan(j) == worker[j] = "gone" /\ result[j] = "none" /\ child[j] = "alive"

\* Every job that was accepted ends, whatever fails; unless some command has
\* lost the worker that would have ended it.
JobsSettle ==
    \A j \in Jobs : []<>(row[j].status \notin Active) \/ \E i \in Jobs : []<>Orphan(i)

\* The inductive invariant of the proofs, of one job.  Its files tell how far
\* its worker has come, its row tells no verdict that they do not, and its
\* task says what the manager may still do with it.
FilesTell(j) ==
    /\ worker[j] \in {"none", "started"} => child[j] = "none" /\ ~run[j] /\ result[j] = "none"
    /\ result[j] # "none" => worker[j] = "gone" /\ child[j] # "alive"
    /\ worker[j] = "cancelling" \/ result[j] = "cancelled" => marker[j]

RowTells(j) ==
    /\ row[j].status = "absent" => worker[j] = "none" /\ task[j] = "none"
    /\ row[j].status \in Verdicts \ {"cancelled"} => result[j] = row[j].status
    /\ row[j].status = "cancelled" =>
         /\ marker[j]
         /\ result[j] = "cancelled" \/ (result[j] = "none" /\ worker[j] = "none")

TaskTells(j) ==
    /\ task[j] \in {"waiting", "spawn"} => worker[j] = "none" /\ row[j].status = "queued"
    /\ task[j] = "spawned" => worker[j] # "none" /\ row[j].status # "lost"
    /\ task[j] \in {"sync", "look", "recovered"} => host = "boot"
    /\ task[j] = "look" => row[j].status \notin Terminal
    /\ ask[j] # "none" => host = "up" /\ row[j].status # "absent"

HostInv == TypeOK /\ \A j \in Jobs : FilesTell(j) /\ RowTells(j) /\ TaskTells(j)

\* A monitored job's row has the identity of its processes, which the worker has
\* published; they are missed only when its worker has ended.
WatchTells(j) ==
    /\ row[j].known => run[j]
    /\ task[j] \in {"recovered", "monitor", "check", "missing"} => row[j].known
    /\ task[j] = "missing" => worker[j] = "gone"

WatchInv == HostInv /\ \A j \in Jobs : WatchTells(j)
=============================================================================
