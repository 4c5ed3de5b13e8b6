------------------------------ MODULE HostProofs ------------------------------
(***************************************************************************)
(* What the Host promises for any jobs and slots, and for any directories, *)
(* transfers, trash containers and faults.                                 *)
(*                                                                         *)
(* Jobs (HostJobs): a job reported cancelled is over, verdicts are final   *)
(* and no worker is given up too early.  The invariant is HostInv, a       *)
(* statement about each job: what its files tell of its worker, its row of *)
(* its files, its task of both.  An action of a job leaves those of the    *)
(* others alone (OthersKeep), so that each step is about one job, but for  *)
(* the manager's end and start.                                            *)
(*                                                                         *)
(* Files (HostFiles): a transfer is whole and no content vanishes.  The    *)
(* invariant is FilesInv.  A request of the transfers and one of the       *)
(* workspace tools hold different locks, so each part of it is carried by  *)
(* a frame: what the part reads is what the other side leaves alone, and   *)
(* what another program does to the root shows in the stamps of the files. *)
(***************************************************************************)
EXTENDS HostJobs, HostFiles, FiniteSetTheorems, SequenceTheorems, TLAPS

USE HostAssumption

-----------------------------------------------------------------------------
(* JOBS *)
Rows == [status : {"absent"} \cup Active \cup Terminal, known : BOOLEAN]

Tells(j) == FilesTell(j) /\ RowTells(j) /\ TaskTells(j)

\* A row after a look at the files: the verdict, if there is one.
LEMMA Synced ==
    ASSUME TypeOK, NEW j \in Jobs, NEW r \in Rows
    PROVE  /\ SyncResult(j, r) \in Rows
           /\ result[j] # "none" => SyncResult(j, r).status = result[j]
           /\ result[j] = "none" =>
                SyncResult(j, r).status = IF run[j] /\ r.status = "queued" THEN "running"
                                          ELSE r.status
<1>1. SyncRun(j, r) \in Rows
  BY DEF SyncRun, Rows, Active
<1>2. SyncRun(j, r).status = IF run[j] /\ r.status = "queued" THEN "running" ELSE r.status
  BY DEF SyncRun, Rows
<1>3. result[j] # "none" => result[j] \in Terminal
  BY DEF TypeOK, Terminal
<1> QED
  BY <1>1, <1>2, <1>3 DEF SyncResult, Rows

LEMMA LostRow == ASSUME NEW r \in Rows PROVE Lost(r) \in Rows /\ Lost(r).status = "lost"
  BY DEF Lost, Rows, Terminal

\* What is told of a job follows from its own state and that of the manager.
LEMMA Frame ==
    ASSUME NEW j, Tells(j), UNCHANGED host,
           row'[j] = row[j], run'[j] = run[j], result'[j] = result[j],
           marker'[j] = marker[j], worker'[j] = worker[j], child'[j] = child[j],
           task'[j] = task[j], ask'[j] = ask[j]
    PROVE  Tells(j)'
  BY DEF Tells, FilesTell, RowTells, TaskTells

\* An action of job i leaves the others as they are.
LEMMA OthersKeep ==
    ASSUME TypeOK, NEW i \in Jobs, \A j \in Jobs : Tells(j),
           Launch(i) \/ Monitoring(i) \/ Cancelling(i) \/ Working(i) \/ Submit(i)
             \/ Cancel(i) \/ Exit(i) \/ KillWorker(i) \/ StartSync(i) \/ StartLook(i),
           NEW j \in Jobs, j # i
    PROVE  Tells(j)'
<1> USE DEF TypeOK, files, os, mgr, Ended
<1>1. CASE Launch(i)
  BY <1>1, Frame DEF Launch, Acquire, Spawn, Launched, Published, PublishTimeout
<1>2. CASE Monitoring(i)
  BY <1>2, Frame DEF Monitoring, Monitor, Check, Missing
<1>3. CASE Cancelling(i)
  BY <1>3, Frame DEF Cancelling, Terminate, Kill, Answer
<1>4. CASE Working(i)
  BY <1>4, Frame DEF Working, Popen, PublishRun, Watch, TerminateGroup, PublishResult, Finish
<1>5. CASE Submit(i) \/ Exit(i) \/ KillWorker(i) \/ StartSync(i) \/ StartLook(i)
  BY <1>5, Frame DEF Submit, Exit, KillWorker, StartSync, StartLook
<1>6. CASE Cancel(i)
  BY <1>6, Frame DEF Cancel
<1> QED
  BY <1>1, <1>2, <1>3, <1>4, <1>5, <1>6
-----------------------------------------------------------------------------
\* The launch of a job, from the slot to the worker's first word.
LEMMA LaunchStep ==
    ASSUME TypeOK, NEW j \in Jobs, Tells(j), Launch(j)
    PROVE  TypeOK' /\ Tells(j)'
<1> USE DEF files, os, mgr
<1>0. row[j] \in Rows /\ row \in [Jobs -> Rows]
  BY DEF TypeOK, Rows
<1>1. CASE Acquire(j)
  <2>1. [row[j] EXCEPT !.status = "cancelled"] \in Rows
    BY <1>0 DEF Rows, Terminal, Verdicts
  <2>2. row' \in [Jobs -> Rows]
    BY <1>0, <1>1, <2>1 DEF Acquire
  <2>3. free' \in Nat /\ task' \in [Jobs -> Holding \cup {"none", "waiting", "sync", "look", "recovered"}]
    BY <1>1 DEF Acquire, TypeOK, Holding
  <2>4. TypeOK'
    BY <1>1, <2>2, <2>3 DEF Acquire, TypeOK, Rows
  <2>5. Tells(j)'
    BY <1>1 DEF Acquire, TypeOK, Tells, FilesTell, RowTells, TaskTells, Verdicts
  <2> QED
    BY <2>4, <2>5
<1>2. CASE Spawn(j)
  <2>1. TypeOK'
    BY <1>2 DEF Spawn, TypeOK, Alive, Holding
  <2>2. Tells(j)'
    BY <1>2 DEF Spawn, TypeOK, Tells, FilesTell, RowTells, TaskTells, Verdicts
  <2> QED
    BY <2>1, <2>2
<1>3. ASSUME NEW r \in Rows, row' = [row EXCEPT ![j] = r],
             result[j] # "none" => r.status = result[j],
             result[j] = "none" => r.status \in {"running", "lost", row[j].status},
             task[j] \in Holding \ {"spawn", "spawned"} \/ task[j] = "spawned",
             \/ task' = [task EXCEPT ![j] = "none"] /\ free' = free + 1
             \/ \E t \in {"monitor", "publish"} :
                  task' = [task EXCEPT ![j] = t] /\ free' = free,
             UNCHANGED <<files, os, host, ask, faults>>
      PROVE  TypeOK' /\ Tells(j)'
  <2>1. TypeOK'
    BY <1>0, <1>3 DEF TypeOK, Rows, Holding
  <2>2. row'[j] = r /\ task'[j] \in {"none", "monitor", "publish"}
    BY <1>0, <1>3 DEF TypeOK
  <2>3. FilesTell(j)'
    BY <1>3 DEF Tells, FilesTell
  <2>4. task[j] # "none" /\ row[j].status # "absent"
    BY <1>3 DEF Tells, RowTells, Holding
  <2>5. result[j] \in Verdicts \cup {"none"}
    BY DEF TypeOK
  <2>6. row'[j].status # "absent"
    BY <1>3, <2>2, <2>4, <2>5 DEF Verdicts
  <2>7. RowTells(j)'
    BY <1>3, <2>2, <2>5, <2>6 DEF Tells, FilesTell, RowTells, Verdicts
  <2>8. TaskTells(j)'
    BY <1>3, <2>2, <2>6 DEF Tells, TaskTells
  <2> QED
    BY <2>1, <2>3, <2>7, <2>8 DEF Tells
<1>4. CASE Launched(j)
  <2> DEFINE r0 == [status |-> "running", known |-> FALSE]
             r == SyncResult(j, r0)
  <2>1. r0 \in Rows
    BY DEF Rows, Active
  <2>2. r \in Rows /\ (result[j] # "none" => r.status = result[j])
                   /\ (result[j] = "none" => r.status = "running")
    BY <2>1, Synced
  <2> HIDE DEF r
  <2>3. /\ row' = [row EXCEPT ![j] = r] /\ task[j] = "spawned"
        /\ \/ task' = [task EXCEPT ![j] = "none"] /\ free' = free + 1
           \/ \E t \in {"monitor", "publish"} :
                task' = [task EXCEPT ![j] = t] /\ free' = free
        /\ UNCHANGED <<files, os, host, ask, faults>>
    BY <1>4 DEF Launched, Ended, r
  <2> QED
    BY <1>3, <2>2, <2>3
<1>5. CASE Published(j) \/ PublishTimeout(j)
  <2> DEFINE r == SyncResult(j, row[j])
             s == IF r.status \in Terminal \/ Published(j) THEN r ELSE Lost(r)
  <2>1. r \in Rows /\ (result[j] # "none" => r.status = result[j])
                   /\ (result[j] = "none" => r.status \in {"running", row[j].status})
    BY <1>0, Synced
  <2>2. result[j] # "none" => r.status \in Terminal
    BY <2>1 DEF TypeOK, Terminal
  <2> HIDE DEF r
  <2>3. s \in Rows /\ (result[j] # "none" => s.status = result[j])
                   /\ (result[j] = "none" => s.status \in {"running", "lost", row[j].status})
    BY <2>1, <2>2, LostRow
  <2>4. /\ row' = [row EXCEPT ![j] = s] /\ task[j] = "publish"
        /\ \/ task' = [task EXCEPT ![j] = "none"] /\ free' = free + 1
           \/ \E t \in {"monitor", "publish"} :
                task' = [task EXCEPT ![j] = t] /\ free' = free
        /\ UNCHANGED <<files, os, host, ask, faults>>
    BY <1>5 DEF Published, PublishTimeout, Ended, r
  <2> HIDE DEF s
  <2> QED
    BY <1>3, <2>3, <2>4 DEF Holding
<1> QED
  BY <1>1, <1>2, <1>4, <1>5 DEF Launch

\* The monitoring of a running job, and what start() does with each.
LEMMA MonitorStep ==
    ASSUME TypeOK, NEW j \in Jobs, Tells(j),
           Monitoring(j) \/ StartSync(j) \/ StartLook(j)
    PROVE  TypeOK' /\ Tells(j)'
<1> USE DEF files, os, mgr
<1>0. row[j] \in Rows /\ row \in [Jobs -> Rows] /\ result[j] \in Verdicts \cup {"none"}
  BY DEF TypeOK, Rows
<1> DEFINE r == SyncResult(j, row[j])
<1>1. r \in Rows /\ (result[j] # "none" => r.status = result[j])
                 /\ (result[j] = "none" => r.status \in {"running", row[j].status})
  BY <1>0, Synced
<1>2. result[j] # "none" => r.status \in Terminal
  BY <1>0, <1>1 DEF Terminal
<1>3. ASSUME NEW s \in Rows, row' = [row EXCEPT ![j] = s],
             result[j] # "none" => s.status \in {result[j], row[j].status},
             result[j] = "none" => s.status \in {"running", "lost", row[j].status},
             task[j] \in {"monitor", "check", "missing", "sync", "look"},
             \/ task' = [task EXCEPT ![j] = "none"]
             \/ task' = [task EXCEPT ![j] = "look"] /\ s.status \notin Terminal
                /\ task[j] = "sync"
             \/ task' = [task EXCEPT ![j] = "recovered"] /\ task[j] = "look"
             \/ \E t \in {"monitor", "check", "missing"} : task' = [task EXCEPT ![j] = t],
             free' \in Nat, UNCHANGED <<files, os, host, ask, faults>>
      PROVE  TypeOK' /\ Tells(j)'
  <2>0. task' \in [Jobs -> Holding \cup {"none", "waiting", "sync", "look", "recovered"}]
        /\ row' \in [Jobs -> Rows]
    BY <1>0, <1>3 DEF TypeOK, Holding
  <2>1. TypeOK'
    BY <1>3, <2>0 DEF TypeOK, Rows
  <2>2. /\ row'[j] = s
        /\ task'[j] \in {"none", "look", "recovered", "monitor", "check", "missing"}
        /\ task'[j] = "look" => task[j] = "sync" /\ s.status \notin Terminal
        /\ task'[j] = "recovered" => task[j] = "look"
    BY <1>0, <1>3 DEF TypeOK
  <2>3. FilesTell(j)'
    BY <1>3 DEF Tells, FilesTell
  <2>4. task[j] # "none" /\ row[j].status # "absent"
    BY <1>3 DEF Tells, RowTells
  <2>5. row'[j].status # "absent"
    BY <1>0, <1>3, <2>2, <2>4 DEF Verdicts
  <2>6. RowTells(j)'
    BY <1>0, <1>3, <2>2, <2>5 DEF Tells, FilesTell, RowTells, Verdicts
  <2>7. TaskTells(j)'
    BY <1>3, <2>2, <2>5 DEF Tells, TaskTells
  <2> QED
    BY <2>1, <2>3, <2>6, <2>7 DEF Tells
<1> HIDE DEF r
<1>4. CASE Monitor(j)
  <2>1. row' = [row EXCEPT ![j] = r] /\ task[j] = "monitor"
        /\ UNCHANGED <<files, os, host, ask, faults>>
    BY <1>4 DEF Monitor, r
  <2>2. free' \in Nat /\ (\/ task' = [task EXCEPT ![j] = "none"]
                         \/ task' = [task EXCEPT ![j] = "check"])
    BY <1>4 DEF Monitor, Ended, TypeOK
  <2> QED
    BY <1>1, <1>3, <2>1, <2>2
<1>5. CASE Check(j)
  <2>1. row' = [row EXCEPT ![j] = row[j]]
    BY <1>0, <1>5 DEF Check
  <2> QED
    BY <1>0, <1>3, <1>5, <2>1 DEF Check, TypeOK, Holding
<1>6. CASE Missing(j)
  <2> DEFINE s == IF r.status \in Terminal THEN r ELSE Lost(r)
  <2>1. s \in Rows /\ (result[j] # "none" => s.status = result[j])
                   /\ (result[j] = "none" => s.status \in {"running", "lost", row[j].status})
    BY <1>1, <1>2, LostRow
  <2>2. row' = [row EXCEPT ![j] = s] /\ Ended(j) /\ task[j] = "missing"
        /\ UNCHANGED <<files, os, host, ask, faults>>
    BY <1>6 DEF Missing, r
  <2>3. free' \in Nat /\ task' = [task EXCEPT ![j] = "none"]
    BY <2>2 DEF Ended, TypeOK
  <2> HIDE DEF s
  <2> QED
    BY <1>3, <2>1, <2>2, <2>3
<1>7. CASE StartSync(j)
  <2>1. row' = [row EXCEPT ![j] = r] /\ task[j] = "sync"
        /\ task' = [task EXCEPT ![j] = IF r.status \in Terminal THEN "none" ELSE "look"]
        /\ UNCHANGED <<files, os, host, free, ask, faults>>
    BY <1>7 DEF StartSync, r
  <2> QED
    BY <1>1, <1>3, <2>1 DEF TypeOK
<1>8. CASE StartLook(j)
  <2>1. row[j].status \notin Terminal /\ result[j] \in Verdicts \cup {"none"}
    BY <1>0, <1>8 DEF StartLook, Tells, TaskTells
  <2>2. row[j] \in Rows /\ Lost(row[j]) \in Rows /\ Lost(row[j]).status = "lost"
    BY <1>0, LostRow
  <2>3. CASE row' = row /\ task' = [task EXCEPT ![j] = "recovered"]
    <3>1. row' = [row EXCEPT ![j] = row[j]]
      BY <1>0, <2>3
    <3> QED
      BY <1>3, <1>8, <2>2, <2>3, <3>1 DEF StartLook, TypeOK
  <2>4. CASE row' = [row EXCEPT ![j] = Lost(row[j])] /\ task' = [task EXCEPT ![j] = "none"]
    <3>1. TypeOK'
      BY <1>0, <1>8, <2>2, <2>4 DEF StartLook, TypeOK, Rows
    <3>2. row'[j].status = "lost" /\ task'[j] = "none"
      BY <1>0, <2>2, <2>4 DEF TypeOK
    <3>3. Tells(j)'
      BY <1>8, <3>2 DEF StartLook, Tells, FilesTell, RowTells, TaskTells, Verdicts
    <3> QED
      BY <3>1, <3>3
  <2> QED
    BY <1>8, <2>3, <2>4 DEF StartLook
<1> QED
  BY <1>4, <1>5, <1>6, <1>7, <1>8 DEF Monitoring
-----------------------------------------------------------------------------
\* Submission and cancellation.
LEMMA CancelStep ==
    ASSUME TypeOK, NEW j \in Jobs, Tells(j), Submit(j) \/ Cancel(j) \/ Cancelling(j)
    PROVE  TypeOK' /\ Tells(j)'
<1> USE DEF files, os, mgr
<1>0. row[j] \in Rows /\ row \in [Jobs -> Rows] /\ result[j] \in Verdicts \cup {"none"}
  BY DEF TypeOK, Rows
<1> DEFINE r == SyncResult(j, row[j])
<1>1. r \in Rows /\ (result[j] # "none" => r.status = result[j])
                 /\ (result[j] = "none" => r.status = IF run[j] /\ row[j].status = "queued"
                                                      THEN "running" ELSE row[j].status)
  BY <1>0, Synced
<1>2. result[j] # "none" => r.status \in Terminal
  BY <1>0, <1>1 DEF Terminal
<1> HIDE DEF r
<1>3. CASE Submit(j)
  <2>1. [row[j] EXCEPT !.status = "queued"] \in Rows
    BY <1>0 DEF Rows, Active
  <2>2. TypeOK'
    BY <1>0, <1>3, <2>1 DEF Submit, TypeOK, Rows
  <2>3. row'[j].status = "queued" /\ task'[j] = "waiting"
    BY <1>0, <1>3 DEF Submit, TypeOK, Rows
  <2>4. Tells(j)'
    BY <1>3, <2>3 DEF Submit, Tells, FilesTell, RowTells, TaskTells, Verdicts
  <2> QED
    BY <2>2, <2>4
\* A look at the files and an answer, with or without the marker.
<1>4. ASSUME row' = [row EXCEPT ![j] = r], row[j].status # "absent",
             marker' \in [Jobs -> BOOLEAN], marker[j] => marker'[j],
             ask' \in [Jobs -> {"none", "term", "kill", "wait"}],
             host = "up",
             child' \in [Jobs -> {"none", "alive", "dead"}],
             child'[j] = child[j] \/ (child[j] = "alive" /\ child'[j] = "dead"),
             UNCHANGED <<run, result, worker, mgr, faults>>
      PROVE  TypeOK' /\ Tells(j)'
  <2>1. TypeOK'
    BY <1>0, <1>1, <1>4 DEF TypeOK, Rows
  <2>2. row'[j] = r
    BY <1>0, <1>4
  <2>3. FilesTell(j)'
    BY <1>4 DEF Tells, FilesTell
  <2>4. RowTells(j)'
    BY <1>0, <1>1, <1>4, <2>2 DEF Tells, FilesTell, RowTells, Verdicts
  <2>5. task[j] \in {"waiting", "spawn"} => r.status = "queued"
    BY <1>1 DEF Tells, FilesTell, TaskTells
  <2>6. task[j] = "spawned" => r.status # "lost"
    BY <1>0, <1>1 DEF Tells, TaskTells, Verdicts
  <2>7. task[j] # "look"
    BY <1>4 DEF Tells, TaskTells
  <2>8. r.status # "absent"
    BY <1>0, <1>1, <1>4 DEF Verdicts
  <2>9. TaskTells(j)'
    BY <1>4, <2>2, <2>5, <2>6, <2>7, <2>8 DEF Tells, TaskTells
  <2> QED
    BY <2>1, <2>3, <2>4, <2>9 DEF Tells
<1>5. CASE Cancel(j)
  <2>1. CASE row' = [row EXCEPT ![j] = r] /\ UNCHANGED task
    <3>1. marker' \in [Jobs -> BOOLEAN] /\ (marker[j] => marker'[j])
      BY <1>5 DEF Cancel, TypeOK
    <3>2. ask' \in [Jobs -> {"none", "term", "kill", "wait"}]
      BY <1>5 DEF Cancel, TypeOK
    <3> QED
      BY <1>4, <1>5, <2>1, <3>1, <3>2 DEF Cancel, TypeOK
  <2>2. CASE /\ row' = [row EXCEPT ![j].status = "cancelled"] /\ task[j] = "waiting"
             /\ task' = [task EXCEPT ![j] = IF @ = "waiting" THEN "none" ELSE @]
             /\ marker' = [marker EXCEPT ![j] = TRUE] /\ ask' = ask
    <3>1. [row[j] EXCEPT !.status = "cancelled"] \in Rows
      BY <1>0 DEF Rows, Terminal, Verdicts
    <3>2. TypeOK'
      BY <1>0, <1>5, <2>2, <3>1 DEF Cancel, TypeOK, Rows
    <3>3. row'[j].status = "cancelled" /\ task'[j] = "none" /\ marker'[j]
      BY <1>0, <2>2 DEF TypeOK, Rows
    <3>4. Tells(j)'
      BY <1>5, <2>2, <3>3 DEF Cancel, Tells, FilesTell, RowTells, TaskTells, Verdicts
    <3> QED
      BY <3>2, <3>4
  <2> QED
    BY <1>5, <2>1, <2>2 DEF Cancel, Waiting, r
<1>6. CASE Terminate(j)
  <2>1. row[j].status # "absent"
    BY <1>6 DEF Terminate, Tells, TaskTells
  <2>2. host = "up" /\ ask' \in [Jobs -> {"none", "term", "kill", "wait"}]
    BY <1>6 DEF Terminate, Tells, TaskTells, TypeOK
  <2>3. child' \in [Jobs -> {"none", "alive", "dead"}]
        /\ (child'[j] = child[j] \/ (child[j] = "alive" /\ child'[j] = "dead"))
    BY <1>6 DEF Terminate, TypeOK
  <2>4. row' = [row EXCEPT ![j] = r]
    BY <1>6 DEF Terminate, r
  <2> QED
    BY <1>4, <1>6, <2>1, <2>2, <2>3, <2>4 DEF Terminate, TypeOK
<1>7. CASE Kill(j) \/ Answer(j)
  <2>1. child' \in [Jobs -> {"none", "alive", "dead"}]
        /\ (child'[j] = child[j] \/ (child[j] = "alive" /\ child'[j] = "dead"))
    BY <1>7 DEF Kill, Answer, LiveProcess, TypeOK
  <2>2. TypeOK'
    BY <1>7, <2>1 DEF Kill, Answer, TypeOK
  <2>3. Tells(j)'
    BY <1>7, <2>1 DEF Kill, Answer, Tells, FilesTell, RowTells, TaskTells, TypeOK
  <2> QED
    BY <2>2, <2>3
<1> QED
  BY <1>3, <1>5, <1>6, <1>7 DEF Cancelling
-----------------------------------------------------------------------------
\* The worker, its command, and its death.
LEMMA WorkerStep ==
    ASSUME TypeOK, NEW j \in Jobs, Tells(j), Working(j) \/ Exit(j) \/ KillWorker(j)
    PROVE  TypeOK' /\ Tells(j)'
<1> USE DEF files, os, mgr
<1>0. row[j].status = "absent" => worker[j] = "none"
  BY DEF Tells, RowTells
<1>1. CASE Popen(j)
  <2>1. TypeOK'
    BY <1>1 DEF Popen, Finish, TypeOK, Alive, Verdicts
  <2>2. Tells(j)'
    BY <1>1 DEF Popen, Finish, TypeOK, Tells, FilesTell, RowTells, TaskTells, Verdicts
  <2> QED
    BY <2>1, <2>2
<1>2. CASE PublishRun(j) \/ Watch(j)
  <2>1. TypeOK'
    BY <1>2 DEF PublishRun, Watch, TypeOK, Alive
  <2>2. Tells(j)'
    BY <1>2 DEF PublishRun, Watch, TypeOK, Tells, FilesTell, RowTells, TaskTells
  <2> QED
    BY <2>1, <2>2
<1>3. CASE TerminateGroup(j) \/ Exit(j)
  <2>1. TypeOK'
    BY <1>3 DEF TerminateGroup, Exit, TypeOK
  <2>2. Tells(j)'
    BY <1>3 DEF TerminateGroup, Exit, TypeOK, Tells, FilesTell, RowTells, TaskTells
  <2> QED
    BY <2>1, <2>2
<1>4. CASE PublishResult(j)
  <2> PICK verdict \in Verdict(j) : Finish(j, verdict)
    BY <1>4 DEF PublishResult
  <2>1. verdict \in Verdicts /\ (verdict = "cancelled" => marker[j])
    BY DEF Verdict, Verdicts, Tells, FilesTell
  <2>2. TypeOK'
    BY <1>4, <2>1 DEF PublishResult, Finish, TypeOK, Alive
  <2>3. result[j] = "none" /\ worker[j] # "none"
    BY <1>4 DEF PublishResult, Tells, FilesTell
  <2>4. result'[j] = verdict /\ worker'[j] = "gone" /\ row' = row /\ marker' = marker
        /\ child[j] = "dead" /\ child' = child /\ task' = task /\ ask' = ask /\ host' = host
    BY <1>4 DEF PublishResult, Finish, TypeOK
  <2>5. row[j].status \notin Verdicts
    BY <2>3 DEF Tells, RowTells, Verdicts
  <2>6. Tells(j)'
    BY <1>0, <2>1, <2>3, <2>4, <2>5 DEF Tells, FilesTell, RowTells, TaskTells, Verdicts
  <2> QED
    BY <2>2, <2>6
<1>5. CASE KillWorker(j)
  <2>1. TypeOK'
    BY <1>5 DEF KillWorker, Fault, TypeOK, Alive
  <2>2. Tells(j)'
    BY <1>5 DEF KillWorker, TypeOK, Tells, FilesTell, RowTells, TaskTells, Alive
  <2> QED
    BY <2>1, <2>2
<1> QED
  BY <1>1, <1>2, <1>3, <1>4, <1>5 DEF Working

\* The manager's end: nobody has a task any more.
LEMMA DownStep ==
    ASSUME TypeOK, \A j \in Jobs : Tells(j), Stop \/ Crash \/ Reboot
    PROVE  TypeOK' /\ \A j \in Jobs : Tells(j)'
<1> USE DEF files, os, mgr
<1>0. row \in [Jobs -> Rows]
  BY DEF TypeOK, Rows
<1>1. /\ host' = "down" /\ free' = 0 /\ faults' \in Nat
      /\ task' = [j \in Jobs |-> "none"] /\ ask' = [j \in Jobs |-> "none"]
      /\ UNCHANGED files
  BY DEF Stop, Crash, Reboot, Fault, Down, TypeOK
<1>2. CASE Stop
  <2>1. [status |-> "running", known |-> FALSE] \in Rows
    BY DEF Rows, Active
  <2>2. row' \in [Jobs -> Rows]
    BY <1>0, <1>2, <2>1 DEF Stop
  <2>3. worker' \in [Jobs -> Alive \cup {"none", "gone"}] /\ child' = child
    BY <1>2 DEF Stop, TypeOK, Alive
  <2>4. TypeOK'
    BY <1>1, <2>2, <2>3 DEF TypeOK, Rows
  <2>5. ASSUME NEW j \in Jobs PROVE Tells(j)'
    <3>1. /\ worker'[j] = IF task[j] = "spawn" THEN "started" ELSE worker[j]
          /\ row'[j] = IF task[j] \in {"spawn", "spawned"}
                       THEN [status |-> "running", known |-> FALSE] ELSE row[j]
          /\ task'[j] = "none" /\ ask'[j] = "none"
      BY <1>1, <1>2 DEF Stop
    <3>2. Tells(j)
      OBVIOUS
    <3> QED
      BY <1>1, <2>3, <3>1, <3>2 DEF Tells, FilesTell, RowTells, TaskTells, Verdicts
  <2> QED
    BY <2>4, <2>5
<1>3. CASE Crash
  <2>1. TypeOK'
    BY <1>1, <1>3 DEF Crash, TypeOK
  <2>2. ASSUME NEW j \in Jobs PROVE Tells(j)'
    <3>1. Tells(j) /\ task'[j] = "none" /\ ask'[j] = "none" /\ UNCHANGED <<row, os>>
      BY <1>1, <1>3 DEF Crash
    <3> QED
      BY <1>1, <3>1 DEF Tells, FilesTell, RowTells, TaskTells
  <2> QED
    BY <2>1, <2>2
<1>4. CASE Reboot
  <2>1. worker' \in [Jobs -> Alive \cup {"none", "gone"}]
        /\ child' \in [Jobs -> {"none", "alive", "dead"}] /\ row' = row
    BY <1>4 DEF Reboot, TypeOK
  <2>2. TypeOK'
    BY <1>1, <2>1 DEF TypeOK
  <2>3. ASSUME NEW j \in Jobs PROVE Tells(j)'
    <3>1. /\ worker'[j] = IF worker[j] \in Alive THEN "gone" ELSE worker[j]
          /\ child'[j] = IF child[j] = "alive" THEN "dead" ELSE child[j]
          /\ task'[j] = "none" /\ ask'[j] = "none"
      BY <1>1, <1>4 DEF Reboot
    <3>2. Tells(j)
      OBVIOUS
    <3> QED
      BY <1>1, <2>1, <3>1, <3>2 DEF Tells, FilesTell, RowTells, TaskTells, Alive
  <2> QED
    BY <2>2, <2>3
<1> QED
  BY <1>2, <1>3, <1>4

\* Its start: every active row is looked at, every recovered job monitored.
LEMMA StartStep ==
    ASSUME TypeOK, \A j \in Jobs : Tells(j), Start \/ Started
    PROVE  TypeOK' /\ \A j \in Jobs : Tells(j)'
<1> USE DEF files, os, mgr
<1>1. CASE Start
  <2>1. TypeOK'
    BY <1>1 DEF Start, TypeOK
  <2>2. ASSUME NEW j \in Jobs PROVE Tells(j)'
    <3>1. Tells(j) /\ task'[j] = IF row[j].status \in Active THEN "sync" ELSE "none"
      BY <1>1 DEF Start
    <3> QED
      BY <1>1, <3>1 DEF Start, Tells, FilesTell, RowTells, TaskTells, Active
  <2> QED
    BY <2>1, <2>2
<1>2. CASE Started
  <2>1. IsFiniteSet(Recovered)
    BY FS_Subset DEF Recovered
  <2>2. Cardinality(Recovered) \in Nat
    BY <2>1, FS_CardinalityType
  <2>3. free' \in Nat
    BY <1>2, <2>2 DEF Started, FreeAfter
  <2>4. TypeOK'
    BY <1>2, <2>3 DEF Started, TypeOK, Holding
  <2>5. ASSUME NEW j \in Jobs PROVE Tells(j)'
    <3>1. Tells(j) /\ task'[j] = IF task[j] = "recovered" THEN "monitor" ELSE "none"
      BY <1>2 DEF Started, Recovered
    <3> QED
      BY <1>2, <3>1 DEF Started, Tells, FilesTell, RowTells, TaskTells
  <2> QED
    BY <2>4, <2>5
<1> QED
  BY <1>1, <1>2
-----------------------------------------------------------------------------
LEMMA InitInv == Init => HostInv
<1> SUFFICES ASSUME Init PROVE HostInv
  OBVIOUS
<1>1. TypeOK
  BY DEF Init, TypeOK
<1>2. \A j \in Jobs : FilesTell(j) /\ RowTells(j) /\ TaskTells(j)
  BY DEF Init, FilesTell, RowTells, TaskTells, Verdicts, Terminal
<1> QED
  BY <1>1, <1>2 DEF HostInv

\* Every step keeps the invariant.
LEMMA NextInv == HostInv /\ [Next]_vars => HostInv'
<1> SUFFICES ASSUME HostInv, [Next]_vars PROVE HostInv'
  OBVIOUS
<1>1. TypeOK /\ \A j \in Jobs : Tells(j)
  BY DEF HostInv, Tells
<1>2. ASSUME NEW i \in Jobs,
             Launch(i) \/ Monitoring(i) \/ Cancelling(i) \/ Working(i) \/ Submit(i)
               \/ Cancel(i) \/ Exit(i) \/ KillWorker(i) \/ StartSync(i) \/ StartLook(i)
      PROVE  TypeOK' /\ \A j \in Jobs : Tells(j)'
  <2>1. TypeOK' /\ Tells(i)'
    BY <1>1, <1>2, LaunchStep, MonitorStep, CancelStep, WorkerStep
  <2>2. \A j \in Jobs : j # i => Tells(j)'
    BY <1>1, <1>2, OthersKeep
  <2> QED
    BY <2>1, <2>2
<1>3. CASE Start \/ Started
  BY <1>1, <1>3, StartStep DEF HostInv, Tells
<1>4. CASE Stop \/ Crash \/ Reboot
  BY <1>1, <1>4, DownStep DEF HostInv, Tells
<1>5. CASE UNCHANGED vars
  BY <1>5 DEF HostInv, vars, files, os, mgr, TypeOK, FilesTell, RowTells, TaskTells
<1> QED
  BY <1>2, <1>3, <1>4, <1>5 DEF Next, Starting, HostInv, Tells

\* HostInv in every reachable state, whatever is submitted and fails (jobs.py,
\* worker.py).
THEOREM HostInvariant == Spec => []HostInv
<1>1. Init => HostInv
  BY InitInv
<1>2. HostInv /\ [Next]_vars => HostInv'
  BY NextInv
<1> QED
  BY <1>1, <1>2, PTL DEF Spec

\* Every variable keeps its type.
THEOREM TypeCorrect == Spec => []TypeOK
<1>1. HostInv => TypeOK
  BY DEF HostInv
<1> QED
  BY <1>1, HostInvariant, PTL

\* A job that is reported cancelled does not run, and will not: the marker is
\* there, its command is not, and nothing is left that would start it (cancel,
\* _launch, worker.py).
THEOREM CancelledOver == Spec => []CancelledIsOver
<1>1. HostInv => CancelledIsOver
  <2> SUFFICES ASSUME HostInv, NEW j \in Jobs, row[j].status = "cancelled"
               PROVE  /\ marker[j] /\ child[j] # "alive"
                      /\ worker[j] \in {"none", "gone"} /\ task[j] # "spawn"
    BY DEF CancelledIsOver
  <2> QED
    BY DEF HostInv, FilesTell, RowTells, TaskTells
<1> QED
  BY <1>1, HostInvariant, PTL
-----------------------------------------------------------------------------
\* What VerdictIsFinal says of one job and one step.
Final(j) ==
    /\ row[j].status \in Verdicts =>
          \/ row'[j].status = row[j].status
          \/ row'[j].status = "running" /\ result[j] = row[j].status /\ host' = "down"
    /\ row[j].status = "lost" => row'[j].status \in {"lost", result[j]}
    /\ row'[j].status \in {"succeeded", "timed_out"} => result[j] = row'[j].status

\* A row that is left, that takes what the files say, or that is lost only when
\* nothing else is known of it.
LEMMA LookIsFinal ==
    ASSUME HostInv, NEW j \in Jobs,
           \/ row'[j] = row[j]
           \/ row'[j] = SyncResult(j, row[j])
           \/ row'[j].status = "lost" /\ SyncResult(j, row[j]).status \notin Terminal
           \/ row'[j].status \in {"queued", "cancelled", "lost"}
                 /\ row[j].status \notin Terminal
    PROVE  Final(j)
<1>1. TypeOK /\ Tells(j) /\ row[j] \in Rows /\ result[j] \in Verdicts \cup {"none"}
  BY DEF HostInv, Tells, TypeOK, Rows
<1>2. /\ result[j] # "none" => SyncResult(j, row[j]).status = result[j]
      /\ result[j] = "none" => SyncResult(j, row[j]).status =
                                 IF run[j] /\ row[j].status = "queued" THEN "running"
                                 ELSE row[j].status
  BY <1>1, Synced
<1>3. CASE row'[j] = row[j]
  BY <1>1, <1>3 DEF Final, Tells, RowTells, Verdicts
<1>4. CASE row'[j] = SyncResult(j, row[j])
  BY <1>1, <1>2, <1>4 DEF Final, Tells, RowTells, Verdicts
<1>5. CASE row'[j].status = "lost" /\ SyncResult(j, row[j]).status \notin Terminal
  <2>1. result[j] = "none"
    BY <1>1, <1>2, <1>5 DEF Terminal
  <2>2. row[j].status \notin Terminal
    BY <1>2, <1>5, <2>1 DEF Terminal, Verdicts
  <2> QED
    BY <1>5, <2>2 DEF Final, Terminal, Verdicts
<1>6. CASE row'[j].status \in {"queued", "cancelled", "lost"} /\ row[j].status \notin Terminal
  BY <1>6 DEF Final, Terminal, Verdicts
<1> QED
  BY <1>3, <1>4, <1>5, <1>6

LEMMA StepIsFinal == ASSUME HostInv, [Next]_vars, NEW j \in Jobs PROVE Final(j)
<1> USE DEF files, os, mgr
<1>0. TypeOK /\ Tells(j) /\ row[j] \in Rows /\ row \in [Jobs -> Rows]
      /\ result[j] \in Verdicts \cup {"none"}
  BY DEF HostInv, Tells, TypeOK, Rows
<1>1. CASE row'[j] = row[j]
  BY <1>1, LookIsFinal
<1>2. ASSUME Launched(j) PROVE Final(j)
  <2> DEFINE r0 == [status |-> "running", known |-> FALSE]
             r == SyncResult(j, r0)
  <2>1. r0 \in Rows
    BY DEF Rows, Active
  <2>2. (result[j] # "none" => r.status = result[j]) /\ (result[j] = "none" => r.status = "running")
    BY <1>0, <2>1, Synced
  <2> HIDE DEF r
  <2>3. row'[j] = r /\ task[j] = "spawned"
    BY <1>0, <1>2 DEF Launched, r
  <2>4. worker[j] # "none" /\ row[j].status # "lost"
    BY <1>0, <2>3 DEF Tells, TaskTells
  <2>5. row[j].status \in Verdicts => result[j] = row[j].status
    BY <1>0, <2>4 DEF Tells, RowTells, Verdicts
  <2> QED
    BY <1>0, <2>2, <2>3, <2>4, <2>5 DEF Final, Verdicts
<1>3. ASSUME Stop, row'[j] # row[j] PROVE Final(j)
  <2>1. task[j] \in {"spawn", "spawned"} /\ row'[j] = [status |-> "running", known |-> FALSE]
        /\ host' = "down"
    BY <1>0, <1>3 DEF Stop, Down
  <2>2. task[j] = "spawn" => row[j].status = "queued"
    BY <1>0 DEF Tells, TaskTells
  <2>3. task[j] = "spawned" => row[j].status # "lost" /\ worker[j] # "none"
    BY <1>0 DEF Tells, TaskTells
  <2>4. row[j].status # "lost"
    BY <2>1, <2>2, <2>3
  <2>5. row[j].status \in Verdicts => result[j] = row[j].status
    BY <1>0, <2>1, <2>2, <2>3 DEF Tells, RowTells, Verdicts
  <2> QED
    BY <2>1, <2>4, <2>5 DEF Final
<1>4. ASSUME NEW i \in Jobs, row'[j] # row[j],
             Launch(i) \/ Monitoring(i) \/ Cancelling(i) \/ Submit(i)
               \/ Cancel(i) \/ StartSync(i) \/ StartLook(i)
      PROVE  Final(j)
  <2>1. i = j
    BY <1>0, <1>4 DEF Launch, Acquire, Spawn, Launched, Published, PublishTimeout,
       Monitoring, Monitor, Check, Missing, Cancelling, Terminate, Kill, Answer,
       Submit, Cancel, StartSync, StartLook
  <2>2. CASE Acquire(j) \/ Submit(j)
    <3>1. row[j].status \in {"queued", "absent"}
      BY <1>0, <2>2 DEF Acquire, Submit, Tells, TaskTells
    <3>2. row'[j].status \in {"queued", "cancelled"}
      BY <1>0, <1>4, <2>2 DEF Acquire, Submit, Rows
    <3> QED
      BY <3>1, <3>2, LookIsFinal DEF Terminal, Verdicts
  <2>3. CASE Published(j) \/ Monitor(j) \/ Terminate(j) \/ StartSync(j)
    <3>1. row'[j] = SyncResult(j, row[j])
      BY <1>0, <2>3 DEF Published, Monitor, Terminate, StartSync
    <3> QED
      BY <3>1, LookIsFinal
  <2>4. CASE PublishTimeout(j) \/ Missing(j)
    <3>1. row' = [row EXCEPT ![j] = IF SyncResult(j, row[j]).status \in Terminal
                                   THEN SyncResult(j, row[j]) ELSE Lost(SyncResult(j, row[j]))]
      BY <2>4 DEF PublishTimeout, Missing
    <3>2. SyncResult(j, row[j]) \in Rows
      BY <1>0, Synced
    <3>3. Lost(SyncResult(j, row[j])).status = "lost"
      BY <3>2, LostRow
    <3> QED
      BY <1>0, <3>1, <3>3, LookIsFinal
  <2>5. CASE StartLook(j)
    <3>1. row[j].status \notin Terminal
      BY <1>0, <2>5 DEF StartLook, Tells, TaskTells
    <3>2. row'[j] = Lost(row[j])
      BY <1>0, <1>4, <2>5 DEF StartLook
    <3>3. row'[j].status = "lost"
      BY <1>0, <3>2, LostRow
    <3> QED
      BY <3>1, <3>3, LookIsFinal
  <2>6. CASE Cancel(j)
    <3> DEFINE r == SyncResult(j, row[j])
    <3>1. \/ row' = [row EXCEPT ![j] = r]
          \/ row' = [row EXCEPT ![j].status = "cancelled"] /\ task[j] = "waiting"
      BY <2>6 DEF Cancel, Waiting
    <3>2. CASE row' = [row EXCEPT ![j] = r]
      <4>1. row'[j] = SyncResult(j, row[j])
        BY <1>0, <3>2
      <4> QED
        BY <4>1, LookIsFinal
    <3>3. CASE row' = [row EXCEPT ![j].status = "cancelled"] /\ task[j] = "waiting"
      <4>1. row'[j].status = "cancelled" /\ row[j].status = "queued"
        BY <1>0, <3>3 DEF Rows, Tells, TaskTells
      <4> QED
        BY <4>1, LookIsFinal DEF Terminal, Verdicts
    <3> QED
      BY <3>1, <3>2, <3>3
  <2>7. CASE Launched(j)
    BY <1>2, <2>7
  <2>8. CASE Spawn(j) \/ Check(j) \/ Kill(j) \/ Answer(j)
    BY <1>1, <2>8 DEF Spawn, Check, Kill, Answer
  <2> QED
    BY <1>4, <2>1, <2>2, <2>3, <2>4, <2>5, <2>6, <2>7, <2>8 DEF Launch, Monitoring, Cancelling
<1>5. ASSUME NEW i \in Jobs, Working(i) \/ Exit(i) \/ KillWorker(i)
      PROVE  Final(j)
  BY <1>1, <1>5 DEF Working, Popen, PublishRun, Watch, TerminateGroup, PublishResult, Finish,
     Exit, KillWorker
<1>6. ASSUME Start \/ Started \/ Crash \/ Reboot \/ UNCHANGED vars PROVE Final(j)
  BY <1>1, <1>6 DEF Start, Started, Crash, Reboot, vars
<1> QED
  BY <1>1, <1>3, <1>4, <1>5, <1>6 DEF Next, Starting

\* A verdict is the worker's, and no step of manager, worker or machine changes
\* it for another; only a stopped launch may forget it (_save, stop).
THEOREM VerdictFinal == Spec => VerdictIsFinal
<1>1. HostInv /\ [Next]_vars =>
        [\A j \in Jobs :
          /\ row[j].status \in Verdicts =>
                \/ row'[j].status = row[j].status
                \/ row'[j].status = "running" /\ result[j] = row[j].status /\ host' = "down"
          /\ row[j].status = "lost" => row'[j].status \in {"lost", result[j]}
          /\ row'[j].status \in {"succeeded", "timed_out"} => result[j] = row'[j].status]_vars
  BY StepIsFinal DEF Final
<1> QED
  BY <1>1, HostInvariant, PTL DEF Spec, VerdictIsFinal
-----------------------------------------------------------------------------
\* A row after a look at the files knows the processes if the worker told them.
LEMMA Known ==
    ASSUME TypeOK, NEW j \in Jobs, NEW r \in Rows, r.known => run[j]
    PROVE  SyncResult(j, r).known = run[j]
<1>1. run[j] \in BOOLEAN /\ r.known \in BOOLEAN
  BY DEF TypeOK, Rows
<1>2. SyncRun(j, r) \in Rows /\ SyncRun(j, r).known = IF run[j] THEN TRUE ELSE r.known
  BY DEF SyncRun, Rows, Active
<1>3. SyncResult(j, r).known = SyncRun(j, r).known
  BY <1>2 DEF SyncResult, Rows
<1> QED
  BY <1>1, <1>2, <1>3

\* A step in which the files of a job stay, its row is kept, lost or looked up
\* again, and its task is not yet, or no longer, one that watches.
LEMMA WatchFrame ==
    ASSUME HostInv, NEW j \in Jobs, WatchTells(j),
           row'[j].known = row[j].known \/ row'[j].known = run[j],
           run'[j] = run[j], worker'[j] = worker[j],
           \/ task'[j] = task[j]
           \/ task'[j] \in {"none", "waiting", "spawn", "spawned", "publish", "sync", "look"}
           \/ task'[j] = "monitor" /\ row'[j].known
    PROVE  WatchTells(j)'
  BY DEF WatchTells

LEMMA StepWatches ==
    ASSUME HostInv, [Next]_vars, NEW j \in Jobs, WatchTells(j)
    PROVE  WatchTells(j)'
<1> USE DEF files, os, mgr, Ended
<1>0. TypeOK /\ Tells(j) /\ row[j] \in Rows /\ row \in [Jobs -> Rows]
  BY DEF HostInv, Tells, TypeOK, Rows
<1>1. SyncResult(j, row[j]).known = run[j] /\ SyncResult(j, row[j]) \in Rows
  BY <1>0, Known, Synced DEF WatchTells
<1>2. Lost(row[j]).known = row[j].known /\ Lost(SyncResult(j, row[j])).known = run[j]
  BY <1>0, <1>1 DEF Lost, Rows
<1>3. ASSUME NEW i \in Jobs, Launch(i) PROVE WatchTells(j)'
  <2>1. CASE i # j
    BY <1>0, <1>3, <2>1, WatchFrame
       DEF Launch, Acquire, Spawn, Launched, Published, PublishTimeout, TypeOK, WatchTells
  <2>2. CASE i = j /\ Acquire(j)
    BY <1>0, <2>2, WatchFrame DEF Acquire, TypeOK, Rows
  <2>3. CASE i = j /\ Spawn(j)
    BY <1>0, <2>3 DEF Spawn, TypeOK, WatchTells
  <2>4. CASE i = j /\ Launched(j)
    <3> DEFINE r0 == [status |-> "running", known |-> FALSE]
               r == SyncResult(j, r0)
    <3>1. r0 \in Rows
      BY DEF Rows, Active
    <3>2. r.known = run[j]
      BY <1>0, <3>1, Known
    <3> HIDE DEF r
    <3>3. row'[j] = r
      BY <1>0, <2>4 DEF Launched, r
    <3>4. task'[j] \in {"none", "publish"} \/ (task'[j] = "monitor" /\ r.known)
      BY <1>0, <2>4 DEF Launched, r, TypeOK
    <3> QED
      BY <2>4, <3>2, <3>3, <3>4, WatchFrame DEF Launched
  <2>5. CASE i = j /\ Published(j)
    <3> DEFINE r == SyncResult(j, row[j])
    <3>1. row'[j] = r /\ (task'[j] = "none" \/ (task'[j] = "monitor" /\ r.status \notin Terminal))
      BY <1>0, <2>5 DEF Published, TypeOK
    <3>2. r.status \notin Terminal => run[j]
      BY <1>0, <2>5, Synced DEF Published, TypeOK, Terminal
    <3> QED
      BY <1>1, <2>5, <3>1, <3>2, WatchFrame DEF Published
  <2>6. CASE i = j /\ PublishTimeout(j)
    BY <1>0, <1>1, <1>2, <2>6, WatchFrame DEF PublishTimeout, TypeOK
  <2> QED
    BY <1>3, <2>1, <2>2, <2>3, <2>4, <2>5, <2>6 DEF Launch
<1>4. ASSUME NEW i \in Jobs, Monitoring(i) PROVE WatchTells(j)'
  <2>1. CASE i # j
    BY <1>0, <1>4, <2>1, WatchFrame DEF Monitoring, Monitor, Check, Missing, TypeOK
  <2>2. CASE i = j /\ Monitor(j)
    <3>1. row'[j] = SyncResult(j, row[j]) /\ task'[j] \in {"none", "check"}
      BY <1>0, <2>2 DEF Monitor, TypeOK
    <3> QED
      BY <1>1, <2>2, <3>1 DEF Monitor, WatchTells
  <2>3. CASE i = j /\ Check(j)
    <3>1. row[j].known /\ worker[j] \in {"gone"} \cup Alive
      BY <1>0, <2>3 DEF Check, WatchTells, Tells, FilesTell, TypeOK
    <3>2. task'[j] = IF Present(j) THEN "monitor" ELSE "missing"
      BY <1>0, <2>3 DEF Check, TypeOK
    <3>3. ~Present(j) => worker[j] = "gone"
      BY <3>1 DEF Present, LiveWorker
    <3> QED
      BY <2>3, <3>1, <3>2, <3>3 DEF Check, WatchTells
  <2>4. CASE i = j /\ Missing(j)
    BY <1>0, <1>1, <1>2, <2>4, WatchFrame DEF Missing, TypeOK
  <2> QED
    BY <1>4, <2>1, <2>2, <2>3, <2>4 DEF Monitoring
<1>5. ASSUME NEW i \in Jobs, Submit(i) \/ Cancel(i) \/ Cancelling(i) \/ Exit(i)
      PROVE  WatchTells(j)'
  <2>1. CASE i # j
    BY <1>0, <1>5, <2>1, WatchFrame
       DEF Submit, Cancel, Cancelling, Terminate, Kill, Answer, Exit, TypeOK
  <2>2. CASE i = j /\ Submit(j)
    BY <1>0, <2>2, WatchFrame DEF Submit, TypeOK, Rows
  <2>3. CASE i = j /\ Cancel(j)
    <3>1. \/ row'[j] = SyncResult(j, row[j])
          \/ row'[j] = [row[j] EXCEPT !.status = "cancelled"]
      BY <1>0, <2>3 DEF Cancel
    <3>2. row'[j].known = row[j].known \/ row'[j].known = run[j]
      BY <1>0, <1>1, <3>1 DEF Rows
    <3>3. task'[j] \in {task[j], "none"}
      BY <1>0, <2>3 DEF Cancel, TypeOK
    <3> QED
      BY <2>3, <3>2, <3>3, WatchFrame DEF Cancel
  <2>4. CASE i = j /\ Cancelling(j)
    BY <1>0, <1>1, <2>4, WatchFrame DEF Cancelling, Terminate, Kill, Answer, TypeOK
  <2>5. CASE i = j /\ Exit(j)
    BY <2>5, WatchFrame DEF Exit
  <2> QED
    BY <1>5, <2>1, <2>2, <2>3, <2>4, <2>5
<1>6. ASSUME NEW i \in Jobs, Working(i) \/ KillWorker(i) PROVE WatchTells(j)'
  <2>1. UNCHANGED <<row, task>> /\ (run[j] => run'[j])
    BY <1>0, <1>6 DEF Working, Popen, PublishRun, Watch, TerminateGroup, PublishResult, KillWorker,
       Finish, TypeOK
  <2>2. worker[j] = "gone" => worker'[j] = "gone"
    BY <1>0, <1>6 DEF Working, Popen, PublishRun, Watch, TerminateGroup, PublishResult, KillWorker,
       Finish, TypeOK, Alive
  <2> QED
    BY <2>1, <2>2 DEF WatchTells
<1>7. CASE Starting
  <2>1. ASSUME NEW i \in Jobs, StartSync(i) \/ StartLook(i) PROVE WatchTells(j)'
    <3>1. CASE i # j
      BY <1>0, <2>1, <3>1, WatchFrame DEF StartSync, StartLook, TypeOK
    <3>2. CASE i = j /\ StartSync(j)
      BY <1>0, <1>1, <3>2, WatchFrame DEF StartSync, TypeOK
    <3>3. CASE i = j /\ StartLook(j)
      <4>1. Present(j) => row[j].known
        BY DEF Present, LiveProcess, LiveWorker
      <4> QED
        BY <1>0, <1>2, <3>3, <4>1 DEF StartLook, TypeOK, WatchTells
    <3> QED
      BY <2>1, <3>1, <3>2, <3>3
  <2>2. CASE Start
    BY <2>2 DEF Start, WatchTells
  <2>3. CASE Started
    BY <2>3 DEF Started, Recovered, WatchTells
  <2> QED
    BY <1>7, <2>1, <2>2, <2>3 DEF Starting
<1>8. CASE Stop
  <2>1. row'[j].known => row[j].known
    BY <1>8 DEF Stop
  <2> QED
    BY <1>8, <2>1 DEF Stop, Down, WatchTells
<1>9. CASE Crash \/ Reboot
  BY <1>9 DEF Crash, Reboot, Down, WatchTells
<1>10. CASE UNCHANGED vars
  BY <1>10 DEF vars, WatchTells
<1> QED
  BY <1>3, <1>4, <1>5, <1>6, <1>7, <1>8, <1>9, <1>10 DEF Next

\* A watched job's worker has told its processes, and is not missed before it ends.
THEOREM WatchInvariant == Spec => []WatchInv
<1>1. Init => \A j \in Jobs : WatchTells(j)
  BY DEF Init, WatchTells
<1>2. HostInv /\ (\A j \in Jobs : WatchTells(j)) /\ [Next]_vars
        => (\A j \in Jobs : WatchTells(j))'
  BY StepWatches
<1>3. HostInv /\ (\A j \in Jobs : WatchTells(j)) => WatchInv
  BY DEF WatchInv
<1> QED
  BY <1>1, <1>2, <1>3, HostInvariant, PTL DEF Spec

\* What MonitorIsPatient says of one job and one step: a look that finds a
\* verdict takes it, and only the third look, after the worker's end, gives up.
LEMMA LostAfterAll ==
    ASSUME WatchInv, [Next]_vars, NEW j \in Jobs,
           task[j] \in {"monitor", "check", "missing"}, row[j].status = "running",
           row'[j].status = "lost"
    PROVE  result[j] = "none" /\ worker[j] = "gone"
<1> USE DEF files, os, mgr
<1>0. TypeOK /\ Tells(j) /\ row[j] \in Rows /\ row \in [Jobs -> Rows] /\ WatchTells(j)
      /\ result[j] \in Verdicts \cup {"none"}
  BY DEF WatchInv, HostInv, Tells, TypeOK, Rows
<1>1. SyncResult(j, row[j]).status = IF result[j] # "none" THEN result[j] ELSE "running"
  BY <1>0, Synced
<1>2. row'[j] # row[j] /\ row'[j] # SyncResult(j, row[j])
  BY <1>0, <1>1 DEF Verdicts
<1>3. CASE Missing(j)
  BY <1>0, <1>1, <1>2, <1>3 DEF Missing, WatchTells, Terminal
<1>4. ASSUME NEW i \in Jobs,
             Launch(i) \/ Monitoring(i) \/ Cancelling(i) \/ Submit(i) \/ Cancel(i)
               \/ StartSync(i) \/ StartLook(i),
             ~Missing(j)
      PROVE  FALSE
  <2>1. i = j
    BY <1>0, <1>2, <1>4 DEF Launch, Acquire, Spawn, Launched, Published, PublishTimeout,
       Monitoring, Monitor, Check, Missing, Cancelling, Terminate, Kill, Answer, Submit, Cancel,
       StartSync, StartLook
  <2>2. ~(Launch(j) \/ StartSync(j) \/ StartLook(j) \/ Submit(j))
    BY DEF Launch, Acquire, Spawn, Launched, Published, PublishTimeout, StartSync, StartLook, Submit
  <2>3. ~(Monitor(j) \/ Check(j))
    BY <1>0, <1>2 DEF Monitor, Check
  <2>4. ~Cancelling(j)
    BY <1>0, <1>2 DEF Cancelling, Terminate, Kill, Answer
  <2>5. ~Cancel(j)
    <3> SUFFICES ASSUME Cancel(j) PROVE FALSE
      OBVIOUS
    <3>1. row' = [row EXCEPT ![j].status = "cancelled"]
      BY <1>0, <1>2 DEF Cancel
    <3> QED
      BY <1>0, <3>1 DEF Rows
  <2> QED
    BY <1>4, <2>1, <2>2, <2>3, <2>4, <2>5 DEF Monitoring
<1>5. ASSUME NEW i \in Jobs, Working(i) \/ Exit(i) \/ KillWorker(i) PROVE FALSE
  BY <1>2, <1>5 DEF Working, Popen, PublishRun, Watch, TerminateGroup, PublishResult, Exit, KillWorker
<1>6. ~(Start \/ Started \/ Crash \/ Reboot \/ UNCHANGED vars)
  BY <1>2 DEF Start, Started, Crash, Reboot, vars
<1>7. ~Stop
  BY DEF Stop
<1> QED
  BY <1>3, <1>4, <1>5, <1>6, <1>7 DEF Next, Starting

\* No job that is monitored is reported lost while its worker could still speak.
THEOREM MonitorPatient == Spec => MonitorIsPatient
<1>1. WatchInv /\ [Next]_vars =>
        [\A j \in Jobs :
          task[j] \in {"monitor", "check", "missing"} /\ row[j].status = "running"
              /\ row'[j].status = "lost" =>
            result[j] = "none" /\ worker[j] = "gone"]_vars
  BY LostAfterAll
<1> QED
  BY <1>1, WatchInvariant, PTL DEF Spec, MonitorIsPatient

-----------------------------------------------------------------------------
(* FILES *)

HIDE HostAssumption
USE FilesAssumption
-----------------------------------------------------------------------------
(* What the types say of the requests under way. *)

LEMMA TransferIs ==
    ASSUME TransferOK
    PROVE  /\ transfer.pc \in {"create", "record"} =>
                transfer.x \in Uploads /\ transfer.item \in UploadItems
           /\ transfer.pc = "appended" => transfer.x \in Uploads /\ transfer.chunk \in Chunks
           /\ transfer.pc = "lock" => transfer.x \in Uploads
           /\ transfer.pc \in {"keep", "replace"} => transfer.x \in Uploads /\ transfer.since \in Nat
           /\ transfer.pc = "read" =>
                transfer.x \in Downloads /\ transfer.offset \in Nat /\ transfer.file \in Files
           /\ transfer.pc = "compare" => transfer.x \in Downloads /\ transfer.chunk \in Chunks
           /\ transfer.pc = "idle" => transfer = Idle
           /\ transfer.pc = "save" => transfer = [pc |-> "save"]
  BY DEF TransferOK, Idle

LEMMA WorkIs ==
    ASSUME WorkOK
    PROVE  /\ work # Idle => work.since \in Nat /\ work.pc # "idle"
           /\ work.pc \in {"keep", "put"} =>
                work.d \in Dirs /\ work.there \in BOOLEAN /\ work.bytes \in Seq(Bytes)
           /\ work.pc = "move" => work.kind \in Kinds /\ work.d \in Dirs /\ work.to \in Dirs
           /\ work.pc = "trash" => work.kind \in Kinds /\ work.d \in Dirs /\ work.o \in Bins
           /\ work.pc \in {"restore", "remove", "clear"} => work.o \in Bins
           /\ Idle.pc = "idle"
  BY DEF WorkOK, Idle

LEMMA BinIs ==
    ASSUME DiskOK, NEW o \in Bins
    PROVE  /\ bin[o].stage \in {"full", "spent"} =>
                bin[o] \in [stage : {"full", "spent"}, kind : Kinds, d : Dirs, payload : Directories]
           /\ bin[o].stage \in {"full", "spent", "made"} => bin[o].kind \in Kinds /\ bin[o].d \in Dirs
           /\ bin[o].stage \in {"full", "spent"} =>
                bin[o].payload \in Directories /\ bin[o].payload.file \in Files
                /\ \A u \in Uploads : bin[o].payload.staging[u] \in Stagings
  BY DEF DiskOK, Containers, NoBin, Directories

LEMMA ItemIs ==
    ASSUME ItemsOK
    PROVE  /\ \A u \in Uploads : items[u].there => items[u] \in UploadItems
           /\ \A u \in Uploads : saved[u].there => saved[u] \in UploadItems
           /\ \A k \in Downloads : items[k].there => items[k] \in DownloadItems
           /\ \A k \in Downloads : saved[k].there => saved[k] \in DownloadItems
           /\ \A x \in Transfers : items[x].there \in BOOLEAN /\ saved[x].there \in BOOLEAN
<1>1. /\ \A i \in {NoItem} \cup UploadItems : i.there \in BOOLEAN /\ (i.there => i \in UploadItems)
      /\ \A i \in {NoItem} \cup DownloadItems : i.there \in BOOLEAN /\ (i.there => i \in DownloadItems)
  <2>1. NoItem.there = FALSE
    BY DEF NoItem
  <2>2. \A i \in UploadItems \cup DownloadItems : i.there = TRUE
    BY DEF UploadItems, DownloadItems
  <2> QED
    BY <2>1, <2>2
<1> QED
  BY <1>1 DEF ItemsOK, Transfers

LEMMA DirIs ==
    ASSUME DiskOK, NEW d \in Dirs
    PROVE  /\ tree[d] \in Directories /\ tree[d].there \in BOOLEAN
           /\ tree[d].file \in Files /\ tree[d].file.there \in BOOLEAN
           /\ tree[d].staging \in [Uploads -> Stagings]
           /\ \A u \in Uploads : /\ tree[d].staging[u] \in Stagings
                                 /\ tree[d].staging[u].there \in BOOLEAN
                                 /\ tree[d].staging[u].bytes \in Seq(Bytes)
                                 /\ ~tree[d].staging[u].there => tree[d].staging[u].bytes = <<>>
<1>1. tree[d] \in Directories
  BY DEF DiskOK
<1>2. \A s \in Stagings : /\ s.there \in BOOLEAN /\ s.bytes \in Seq(Bytes)
                          /\ ~s.there => s.bytes = <<>>
  <2>1. ASSUME NEW s \in [there : {TRUE}, bytes : Seq(Bytes)]
        PROVE  s.there = TRUE /\ s.bytes \in Seq(Bytes)
    BY <2>1
  <2>2. NoStaging.there = FALSE /\ NoStaging.bytes = <<>> /\ <<>> \in Seq(Bytes)
    BY EmptySeq DEF NoStaging
  <2> QED
    BY <2>1, <2>2 DEF Stagings
<1>3. tree[d].file \in Files /\ tree[d].staging \in [Uploads -> Stagings] /\ tree[d].there \in BOOLEAN
  BY <1>1 DEF Directories
<1> QED
  BY <1>1, <1>2, <1>3 DEF Files

-----------------------------------------------------------------------------
(* The files that are there, and the stagings that are held. *)

LEMMA ExistingIs ==
    ASSUME NEW f
    PROVE  f \in Existing <=> \/ \E d \in Dirs : tree[d].file.there /\ f = tree[d].file
                             \/ \E o \in Bins : InBin(o) /\ f = bin[o].payload.file
  BY DEF Existing

LEMMA HeldIs ==
    ASSUME NEW u, NEW b
    PROVE  b \in Held(u) <=>
             \/ \E d \in Dirs : tree[d].staging[u].there /\ b = tree[d].staging[u].bytes
             \/ \E o \in Bins : StagedIn(u, o) /\ b = bin[o].payload.staging[u].bytes
  BY DEF Held

\* In a step the files are those that were there, but for one that is new.
FilesKeep ==
    /\ clock' \in Nat /\ clock <= clock'
    /\ \A f \in Existing' : f \in Existing \/ (f.stamp > clock /\ f.stamp <= clock')
    /\ \A f, g \in Existing' : f.stamp > clock /\ g.stamp > clock => f.bytes = g.bytes

LEMMA StillAgrees ==
    ASSUME FilesKeep, clock \in Nat, NEW f, f.stamp \in Nat, Agrees(f)
    PROVE  Agrees(f)'
<1>1. f.stamp <= clock
  BY DEF Agrees
<1>2. ASSUME NEW g \in Existing', g.stamp = f.stamp PROVE g \in Existing
  BY <1>1, <1>2 DEF FilesKeep
<1> QED
  BY <1>1, <1>2 DEF FilesKeep, Agrees

LEMMA StillRewritten ==
    ASSUME FilesKeep, clock \in Nat, NEW f, f.stamp \in Nat, f.stamp <= clock, Rewritten(f)
    PROVE  Rewritten(f)'
<1>1. ASSUME NEW g \in Existing', g.stamp = f.stamp PROVE g \in Existing
  BY <1>1 DEF FilesKeep
<1> QED
  BY <1>1 DEF FilesKeep, Rewritten

LEMMA ExistingTyped == ASSUME DiskOK, NEW f \in Existing PROVE f \in Files /\ f.there
<1>1. CASE \E d \in Dirs : tree[d].file.there /\ f = tree[d].file
  BY <1>1, DirIs
<1>2. CASE \E o \in Bins : InBin(o) /\ f = bin[o].payload.file
  BY <1>2, BinIs DEF InBin, Listed
<1> QED
  BY <1>1, <1>2, ExistingIs

LEMMA StampsStay ==
    ASSUME DiskOK, FilesKeep, StampsHold
    PROVE  StampsHold'
<1> SUFFICES ASSUME NEW f \in Existing' PROVE Agrees(f)'
  BY DEF StampsHold
<1>1. CASE f \in Existing
  BY <1>1, StillAgrees, ExistingTyped DEF StampsHold, DiskOK, Files
<1>2. CASE f \notin Existing
  <2>1. f.stamp > clock /\ f.stamp <= clock'
    BY <1>2 DEF FilesKeep
  <2> QED
    BY <2>1 DEF FilesKeep, Agrees
<1> QED
  BY <1>1, <1>2

\* A step that leaves every file in its place.
LEMMA FilesStay ==
    ASSUME DiskOK, StampsHold, \A d \in Dirs : tree'[d].file = tree[d].file, UNCHANGED <<bin, clock>>
    PROVE  FilesKeep /\ Existing' = Existing
<1>1. Existing' = Existing
  BY DEF Existing, InBin, Listed
<1>2. \A f \in Existing : f.stamp <= clock /\ f.stamp \in Nat
  BY ExistingTyped DEF StampsHold, Agrees, Files
<1> QED
  BY <1>1, <1>2 DEF FilesKeep, DiskOK

\* A step that changes one file, or takes it away.
LEMMA OneFile ==
    ASSUME DiskOK, StampsHold, NEW d \in Dirs, UNCHANGED bin, clock' \in {clock, clock + 1},
           \A e \in Dirs \ {d} : tree'[e].file = tree[e].file,
           tree'[d].file.there => tree'[d].file.stamp = clock + 1 /\ clock' = clock + 1
    PROVE  FilesKeep
<1>1. \A f \in Existing : f.stamp <= clock /\ f.stamp \in Nat
  BY ExistingTyped DEF StampsHold, Agrees, Files
<1>2. ASSUME NEW f \in Existing' PROVE f \in Existing \/ (f = tree'[d].file /\ f.there)
  BY <1>2 DEF Existing, InBin, Listed
<1>3. clock \in Nat /\ clock' \in Nat /\ clock <= clock'
  BY DEF DiskOK
<1>4. \A f \in Existing' : f \in Existing \/ (f.stamp > clock /\ f.stamp <= clock')
  BY <1>2, <1>3
<1>5. \A f, g \in Existing' : f.stamp > clock /\ g.stamp > clock => f.bytes = g.bytes
  BY <1>1, <1>2, <1>3
<1> QED
  BY <1>3, <1>4, <1>5 DEF FilesKeep

\* In a step the staging of an upload stays, moves or goes.
StagingsKeep(u) == Alone(u)' /\ Held(u)' \subseteq Held(u)

LEMMA FewerStagings ==
    ASSUME NEW u, Alone(u),
           \A d \in Dirs : tree'[d].staging[u].there =>
              tree[d].staging[u].there /\ tree'[d].staging[u].bytes = tree[d].staging[u].bytes,
           \A o \in Bins : StagedIn(u, o)' =>
              /\ StagedIn(u, o)
              /\ bin'[o].payload.staging[u].bytes = bin[o].payload.staging[u].bytes
    PROVE  StagingsKeep(u)
<1>1. Alone(u)'
  BY DEF Alone
<1>2. Held(u)' \subseteq Held(u)
  BY DEF Held
<1> QED
  BY <1>1, <1>2 DEF StagingsKeep

LEMMA StagingsStay ==
    ASSUME NEW u, Alone(u), \A d \in Dirs : tree'[d].staging[u] = tree[d].staging[u], UNCHANGED bin
    PROVE  StagingsKeep(u) /\ Held(u)' = Held(u)
<1>1. Alone(u)'
  BY DEF Alone, StagedIn, Listed
<1>2. Held(u)' = Held(u)
  BY DEF Held, StagedIn, Listed
<1> QED
  BY <1>1, <1>2 DEF StagingsKeep

-----------------------------------------------------------------------------
(* Frames: what a part of the invariant depends on. *)

\* Items that may be dropped, and be saved as they are.
LEMMA UploadFrame ==
    ASSUME NEW u, UploadTells(u), StagingsKeep(u), drawn \subseteq drawn',
           items'[u] \in {items[u], NoItem}, saved'[u] \in {saved[u], items[u], NoItem},
           acked'[u] = acked[u], placed'[u] = placed[u]
    PROVE  UploadTells(u)'
  BY DEF UploadTells, StagingsKeep, Untouched, NoItem

LEMMA DownloadFrame ==
    ASSUME DiskOK, ItemsOK, NEW k \in Downloads, DownloadTells(k), FilesKeep, drawn \subseteq drawn',
           items'[k] \in {items[k], NoItem}, saved'[k] \in {saved[k], items[k], NoItem},
           got'[k] = got[k]
    PROVE  DownloadTells(k)'
<1>2. /\ items[k].there => items[k].pinned \in Files
      /\ saved[k].there => saved[k].pinned \in Files
  BY ItemIs DEF DownloadItems
<1>3. NoItem.there = FALSE
  BY DEF NoItem
<1>4. PICK f, g : f = items[k].pinned /\ g = saved[k].pinned
  OBVIOUS
<1>5. /\ items[k].there => PinnedTo(k, f)'
      /\ saved[k].there => PinnedTo(k, g)'
  <2>1. /\ items[k].there => f \in Files /\ PinnedTo(k, f)
        /\ saved[k].there => g \in Files /\ PinnedTo(k, g)
    BY <1>2, <1>4 DEF DownloadTells
  <2>2. /\ f \in Files /\ PinnedTo(k, f) => PinnedTo(k, f)'
        /\ g \in Files /\ PinnedTo(k, g) => PinnedTo(k, g)'
    BY StillAgrees DEF DiskOK, PinnedTo, Files
  <2> QED
    BY <2>1, <2>2
<1>6. items'[k].there => items[k].there /\ items'[k].pinned = f
  BY <1>3, <1>4
<1>7. saved'[k].there =>
        \/ saved[k].there /\ saved'[k] = saved[k] /\ saved'[k].pinned = g
        \/ items[k].there /\ saved'[k] = items[k] /\ saved'[k].pinned = f
  BY <1>3, <1>4
<1>8. items[k].there /\ saved[k].there => f = g
  BY <1>4 DEF DownloadTells
<1> QED
  BY <1>5, <1>6, <1>7, <1>8 DEF DownloadTells

LEMMA BeginFrame ==
    ASSUME TransferOK, BeginTells, \A u \in Uploads : StagingsKeep(u),
           UNCHANGED <<transfer, items, saved, acked, placed>>, drawn \subseteq drawn'
    PROVE  BeginTells'
<1> DEFINE x == transfer.x
<1>1. CASE transfer.pc \in {"create", "record"}
  <2>1. x \in Uploads /\ Held(x)' \subseteq Held(x)
    BY <1>1, TransferIs DEF StagingsKeep
  <2> QED
    BY <1>1, <2>1 DEF BeginTells, Untouched
<1>2. CASE transfer.pc = "appended"
  <2>1. x \in Uploads /\ Held(x)' \subseteq Held(x)
    BY <1>2, TransferIs DEF StagingsKeep
  <2> QED
    BY <1>2, <2>1 DEF BeginTells
<1> QED
  BY <1>1, <1>2 DEF BeginTells

LEMMA ReadFrame ==
    ASSUME DiskOK, ItemsOK, TransferOK, \A k \in Downloads : DownloadTells(k), ReadTells,
           FilesKeep, UNCHANGED <<transfer, items>>
    PROVE  ReadTells'
<1>1. CASE transfer.pc = "read"
  BY <1>1 DEF ReadTells
<1>2. CASE transfer.pc = "compare"
  <2> DEFINE x == transfer.x
  <2>1. x \in Downloads /\ items[x].there
    BY <1>2, TransferIs DEF ReadTells
  <2>2. items[x].pinned \in Files /\ Agrees(items[x].pinned)
    BY <2>1, ItemIs DEF DownloadItems, DownloadTells, PinnedTo
  <2>3. PICK f : f = items[x].pinned
    OBVIOUS
  <2>4. f.stamp \in Nat /\ f.stamp <= clock
    BY <2>2, <2>3 DEF Files, Agrees
  <2>5. Rewritten(f) => Rewritten(f)'
    BY <2>4, StillRewritten DEF DiskOK
  <2>6. items'[transfer'.x].pinned = f /\ items'[transfer'.x].there
    BY <2>1, <2>3
  <2> QED
    BY <1>2, <2>3, <2>5, <2>6 DEF ReadTells
<1> QED
  BY <1>1, <1>2 DEF ReadTells

\* What others do to the files while the root's lock is held, or with no regard to it.
OnlyEdits ==
    /\ clock \in Nat /\ clock' \in Nat /\ clock <= clock'
    /\ \A d \in Dirs :
          \/ tree'[d].file = tree[d].file
          \/ EditedSince(tree'[d].file, clock)
          \/ ~tree'[d].file.there /\ \A u \in Uploads : ~tree'[d].staging[u].there

LEMMA StillCopied ==
    ASSUME DiskOK', OnlyEdits, NEW d \in Dirs, NEW since \in Nat, since <= clock, UNCHANGED recovery
    PROVE  /\ Copied(d, since) => Copied(d, since)'
           /\ Spared(d, since) => Spared(d, since)'
           /\ EditedSince(tree'[d].file, clock) => EditedSince(tree'[d].file, since)
<1>1. tree'[d].file.stamp \in Nat
  BY DEF DiskOK, Directories, Files
<1>2. EditedSince(tree'[d].file, clock) => EditedSince(tree'[d].file, since)
  BY <1>1 DEF OnlyEdits, EditedSince
<1>3. Spared(d, since) => Spared(d, since)'
  BY <1>2 DEF OnlyEdits, Spared
<1>4. Copied(d, since) => Copied(d, since)'
  BY <1>2, <1>3 DEF OnlyEdits, Copied, Spared
<1> QED
  BY <1>2, <1>3, <1>4

LEMMA CommitFrame ==
    ASSUME DiskOK', TransferOK, ItemsOK, OnlyEdits, CommitTells,
           UNCHANGED <<transfer, items, recovery>>, work = Idle => work' = Idle,
           \A d \in Dirs, u \in Uploads :
              tree'[d].staging[u].there => tree[d].staging[u].there
    PROVE  CommitTells'
<1>1. CASE transfer.pc = "lock"
  BY <1>1 DEF CommitTells
<1>2. CASE transfer.pc \in {"keep", "replace"}
  <2>1. PICK x, d, since : x = transfer.x /\ d = items[x].d /\ since = transfer.since
    OBVIOUS
  <2>2. x \in Uploads /\ since \in Nat /\ items[x].there /\ since <= clock
    BY <1>2, <2>1, TransferIs DEF CommitTells
  <2>3. d \in Dirs
    BY <2>1, <2>2, ItemIs DEF UploadItems
  <2>4. since <= clock'
    BY <2>2 DEF OnlyEdits
  <2>5. ASSUME tree'[d].staging[x].there
        PROVE  \/ Version(tree'[d].file) = items[x].expected
               \/ EditedSince(tree'[d].file, since)
    <3>1. tree[d].staging[x].there
      BY <2>2, <2>3, <2>5
    <3>2. \/ Version(tree[d].file) = items[x].expected
          \/ EditedSince(tree[d].file, since)
      BY <1>2, <2>1, <3>1 DEF CommitTells, Staged, Unchanged
    <3>3. tree'[d].file = tree[d].file \/ EditedSince(tree'[d].file, clock)
      BY <2>2, <2>3, <2>5 DEF OnlyEdits
    <3> QED
      BY <2>2, <2>3, <3>2, <3>3, StillCopied
  <2>6. transfer.pc = "replace" => Copied(d, since)'
    BY <1>2, <2>1, <2>2, <2>3, StillCopied DEF CommitTells
  <2>7. transfer'.x = x /\ items'[x].d = d /\ transfer'.since = since
    BY <2>1
  <2> QED
    BY <1>2, <2>1, <2>2, <2>4, <2>5, <2>6, <2>7 DEF CommitTells, Staged, Unchanged
<1> QED
  BY <1>1, <1>2 DEF CommitTells

LEMMA WorkFrame ==
    ASSUME DiskOK, DiskOK', WorkOK, OnlyEdits, WorkTells, UNCHANGED <<work, recovery, bin>>,
           aged \subseteq aged'
    PROVE  WorkTells'
<1>1. CASE work = Idle
  BY <1>1 DEF WorkTells, Idle
<1>2. CASE work # Idle
  <2>1. PICK since : since = work.since
    OBVIOUS
  <2>2. since \in Nat /\ since <= clock /\ since <= clock'
    BY <1>2, <2>1, WorkIs DEF WorkTells, OnlyEdits
  <2>3. PICK w : w = work
    OBVIOUS
  <2>4. work.pc = "put" => Copied(w.d, since)'
    BY <2>1, <2>2, <2>3, WorkIs, StillCopied DEF WorkTells
  <2>5. work.pc = "move" /\ work.kind = "file" => Spared(w.to, since)'
    BY <2>1, <2>2, <2>3, WorkIs, StillCopied DEF WorkTells
  <2>6. PICK d : d = bin[work.o].d
    OBVIOUS
  <2>7. work.pc = "restore" /\ bin[work.o].kind = "file" => d \in Dirs
    BY <2>6, WorkIs, BinIs DEF WorkTells, Listed
  <2>8. work.pc = "restore" /\ bin[work.o].kind = "file" => Spared(d, since)'
    BY <2>1, <2>2, <2>6, <2>7, StillCopied DEF WorkTells
  <2>9. work' = w /\ work'.since = since /\ bin'[work'.o].d = d
    BY <2>1, <2>3, <2>6
  <2> QED
    BY <2>1, <2>2, <2>3, <2>4, <2>5, <2>6, <2>8, <2>9 DEF WorkTells, Listed, InBin
<1> QED
  BY <1>1, <1>2

LEMMA AgreedFrame == ASSUME CommitIsAsAgreed, UNCHANGED <<placed, acked>> PROVE CommitIsAsAgreed'
  BY DEF CommitIsAsAgreed

-----------------------------------------------------------------------------
(* Small facts about budgets and contents. *)

Budget == [requests : Nat, edits : Nat, crashes : Nat, ages : Nat]

LEMMA Spent ==
    ASSUME left \in Budget
    PROVE  /\ Spend("requests") => left' \in Budget /\ left'.edits = left.edits
           /\ Spend("crashes") => left' \in Budget /\ left'.edits = left.edits
           /\ Spend("ages") => left' \in Budget /\ left'.edits = left.edits
           /\ Spend("edits") => left' \in Budget /\ left'.edits # left.edits
  BY DEF Spend, Budget

LEMMA ContentsAreSequences == Contents \subseteq Seq(Bytes)
<1>1. \A n \in 0..MaxSize : [1..n -> Bytes] \subseteq Seq(Bytes)
  BY SeqDef
<1> QED
  BY <1>1 DEF Contents

-----------------------------------------------------------------------------
(* What one side does, and the other depends on. *)

\* The parts of the invariant.
LEMMA Parts ==
    ASSUME FilesInv
    PROVE  /\ DiskOK /\ ItemsOK /\ TransferOK /\ WorkOK /\ StampsHold
           /\ \A u \in Uploads : UploadTells(u) /\ Alone(u)
           /\ \A k \in Downloads : DownloadTells(k)
           /\ BeginTells /\ CommitTells /\ ReadTells /\ WorkTells /\ CommitIsAsAgreed
           /\ server # "up" => transfer = Idle /\ work = Idle
           /\ clock \in Nat /\ left \in Budget
           /\ Idle.pc = "idle"
  BY DEF FilesInv, FilesTypeOK, UploadTells, TransferTells, DiskOK, Budget, Idle

\* A request of the workspace tools: no commit is in its critical section.
LEMMA ByWork ==
    ASSUME FilesInv, UNCHANGED <<items, saved, server, transfer, drawn, seenBy>>,
           transfer.pc \notin {"keep", "replace"}, server = "up",
           DiskOK', WorkOK', FilesKeep, \A u \in Uploads : StagingsKeep(u), WorkTells'
    PROVE  FilesInv'
<1> USE Parts DEF seenBy
<1>1. ItemsOK' /\ TransferOK'
  BY DEF ItemsOK, TransferOK
<1>2. StampsHold'
  BY StampsStay
<1>3. ASSUME NEW u \in Uploads PROVE UploadTells(u)'
  BY UploadFrame
<1>4. ASSUME NEW k \in Downloads PROVE DownloadTells(k)'
  BY DownloadFrame
<1>5. BeginTells' /\ ReadTells'
  BY BeginFrame, ReadFrame
<1>6. CommitTells'
  BY DEF CommitTells
<1>7. CommitIsAsAgreed'
  BY AgreedFrame
<1> QED
  BY <1>1, <1>2, <1>3, <1>4, <1>5, <1>6, <1>7 DEF FilesInv, FilesTypeOK, TransferTells

LEMMA DiskStays ==
    ASSUME FilesInv, UNCHANGED <<disk, server>>, left' \in Budget, aged' \subseteq Transfers \cup Bins
    PROVE  /\ DiskOK' /\ FilesKeep /\ StampsHold' /\ OnlyEdits
           /\ \A u \in Uploads : StagingsKeep(u) /\ Held(u)' = Held(u)
<1> USE Parts DEF disk
<1>1. DiskOK'
  BY DEF DiskOK, Budget
<1>2. FilesKeep /\ StampsHold'
  BY FilesStay, StampsStay
<1>3. OnlyEdits
  BY DEF OnlyEdits
<1>4. \A u \in Uploads : StagingsKeep(u) /\ Held(u)' = Held(u)
  BY StagingsStay
<1> QED
  BY <1>1, <1>2, <1>3, <1>4

\* A transfer request that changes no file.
LEMMA ByTransfer ==
    ASSUME FilesInv, UNCHANGED <<disk, server, work, aged>>, left' \in Budget, server = "up",
           ItemsOK', TransferOK', \A u \in Uploads : UploadTells(u)',
           \A k \in Downloads : DownloadTells(k)',
           BeginTells', CommitTells', ReadTells', CommitIsAsAgreed'
    PROVE  FilesInv'
<1>1. /\ DiskOK' /\ FilesKeep /\ StampsHold' /\ OnlyEdits
  BY Parts, DiskStays DEF DiskOK
<1>2. WorkTells' /\ WorkOK'
  BY <1>1, Parts, WorkFrame DEF disk, WorkOK
<1> QED
  BY <1>1, <1>2 DEF FilesInv, FilesTypeOK, TransferTells

-----------------------------------------------------------------------------
(* Requests of the workspace tools and the sweep. *)

LEMMA FreeIs == ASSUME FilesInv, Free PROVE work = Idle /\ transfer.pc \notin {"keep", "replace"}
  BY DEF Free

LEMMA BusyIs ==
    ASSUME FilesInv, NEW pc, pc # "idle", Doing(pc)
    PROVE  work # Idle /\ work.pc = pc /\ server = "up" /\ transfer.pc \notin {"keep", "replace"}
  BY Parts DEF Doing, CommitTells

\* A request has taken the lock, and changes no file yet.
LEMMA Taken ==
    ASSUME FilesInv, server = "up", Free, UNCHANGED <<disk, items, saved, server, transfer, drawn, seenBy>>,
           left' \in Budget, aged' = aged, WorkOK', WorkTells'
    PROVE  FilesInv'
<1>1. aged' \subseteq Transfers \cup Bins
  BY Parts DEF DiskOK
<1>2. DiskOK' /\ FilesKeep /\ \A u \in Uploads : StagingsKeep(u)
  BY <1>1, DiskStays
<1> QED
  BY <1>2, FreeIs, ByWork

LEMMA WriteStep ==
    ASSUME FilesInv, NEW d \in Dirs, NEW there \in BOOLEAN, NEW bytes \in Seq(Bytes), Write(d, there, bytes)
    PROVE  FilesInv'
<1> USE Parts DEF Write, Works
<1>1. work' = [pc |-> "keep", d |-> d, there |-> there, bytes |-> bytes, since |-> clock]
  OBVIOUS
<1>2. WorkOK'
  BY <1>1 DEF WorkOK
<1>3. WorkTells'
  BY <1>1 DEF WorkTells, disk
<1> QED
  BY <1>2, <1>3, Spent, Taken

LEMMA MoveBegins ==
    ASSUME FilesInv, NEW d \in Dirs, NEW e \in Dirs, MoveDirectory(d, e) \/ MoveFile(d, e)
    PROVE  FilesInv'
<1> USE Parts DEF MoveDirectory, MoveFile, Works
<1>1. d # e
  OBVIOUS
<1>2. PICK kind \in Kinds :
        /\ work' = [pc |-> "move", kind |-> kind, d |-> d, to |-> e, since |-> clock]
        /\ kind = "file" => ~tree[e].file.there
  BY DEF Kinds
<1>3. WorkOK'
  BY <1>2 DEF WorkOK
<1>4. WorkTells'
  BY <1>1, <1>2 DEF WorkTells, Spared, disk
<1> QED
  BY <1>3, <1>4, Spent, Taken

LEMMA RestoreBegins == ASSUME FilesInv, NEW o \in Bins, Restore(o) PROVE FilesInv'
<1> USE Parts DEF Restore, Works
<1>1. work' = [pc |-> "restore", o |-> o, since |-> clock]
  OBVIOUS
<1>2. WorkOK'
  BY <1>1 DEF WorkOK
<1>3. WorkTells'
  BY <1>1 DEF WorkTells, Spared, Restorable, Listed, disk
<1> QED
  BY <1>2, <1>3, Spent, Taken

LEMMA RemoveBegins == ASSUME FilesInv, NEW o \in Bins, ExpireTrash(o) PROVE FilesInv'
<1> USE Parts DEF ExpireTrash
<1>1. work' = [pc |-> "remove", o |-> o, since |-> clock]
  OBVIOUS
<1>2. WorkOK'
  BY <1>1 DEF WorkOK
<1>3. WorkTells'
  BY <1>1 DEF WorkTells, Due, Listed, disk
<1> QED
  BY <1>2, <1>3, Taken

\* A container is made before anything is put into it.
LEMMA TrashBegins ==
    ASSUME FilesInv, NEW kind \in Kinds, NEW d \in Dirs, NEW o \in Bins, Trash(kind, d, o)
    PROVE  FilesInv'
<1> USE Parts DEF Trash, Works
<1>1. /\ work' = [pc |-> "trash", kind |-> kind, d |-> d, o |-> o, since |-> clock]
      /\ bin' = [bin EXCEPT ![o] = [stage |-> "made", kind |-> kind, d |-> d]]
      /\ bin[o].stage = "none" /\ UNCHANGED <<tree, recovery, clock>>
  OBVIOUS
<1>2. bin \in [Bins -> Containers]
  BY DEF DiskOK
<1>3. \A p \in Bins : p # o => bin'[p] = bin[p]
  BY <1>1, <1>2
<1>4. bin'[o] = [stage |-> "made", kind |-> kind, d |-> d] /\ bin'[o].stage = "made"
  BY <1>1, <1>2
<1>5. WorkOK'
  BY <1>1 DEF WorkOK
<1>6. WorkTells'
  BY <1>1, <1>4 DEF WorkTells
<1>7. DiskOK'
  <2>1. bin' \in [Bins -> Containers]
    BY <1>1, <1>2 DEF Containers
  <2> QED
    BY <1>1, <2>1, Spent DEF DiskOK, Budget
<1>8. Existing' = Existing
  BY <1>1, <1>3, <1>4 DEF Existing, InBin, Listed
<1>9. FilesKeep
  <2>1. \A f \in Existing : f.stamp <= clock /\ f.stamp \in Nat
    BY ExistingTyped DEF StampsHold, Agrees, Files
  <2> QED
    BY <1>1, <1>8, <2>1 DEF FilesKeep
<1>10. ASSUME NEW u \in Uploads PROVE StagingsKeep(u)
  BY <1>1, <1>3, <1>4, FewerStagings DEF StagedIn, Listed
<1> QED
  BY <1>5, <1>6, <1>7, <1>9, <1>10, FreeIs, ByWork

-----------------------------------------------------------------------------
(* The root's directories, one or two of them changed. *)

LEMMA TreePut ==
    ASSUME DiskOK, NEW d \in Dirs, NEW r \in Directories
    PROVE  /\ [tree EXCEPT ![d] = r] \in [Dirs -> Directories]
           /\ [tree EXCEPT ![d] = r][d] = r
           /\ \A e \in Dirs \ {d} : [tree EXCEPT ![d] = r][e] = tree[e]
  BY DEF DiskOK

LEMMA NewDirs ==
    /\ EmptyDir \in Directories /\ NoDir \in Directories /\ NoFile \in Files
    /\ ~EmptyDir.file.there /\ ~NoDir.file.there /\ ~NoFile.there
    /\ \A u \in Uploads : ~EmptyDir.staging[u].there /\ ~NoDir.staging[u].there
    /\ EmptyDir.file = NoFile /\ NoDir.file = NoFile
<1>1. NoFile \in Files
  BY EmptySeq DEF NoFile, Files
<1>2. [u \in Uploads |-> NoStaging] \in [Uploads -> Stagings]
  BY DEF Stagings
<1>3. EmptyDir \in Directories
  BY <1>1, <1>2 DEF EmptyDir, Directories
<1>4. NoDir \in Directories
  BY <1>1, <1>2 DEF NoDir, Directories
<1> QED
  BY <1>1, <1>3, <1>4 DEF EmptyDir, NoDir, NoFile, NoStaging

LEMMA NewFile ==
    ASSUME DiskOK, NEW bytes \in Seq(Bytes), NEW by \in {"host", "editor"}
    PROVE  /\ New(bytes, by) \in Files /\ New(bytes, by).there /\ New(bytes, by).bytes = bytes
           /\ New(bytes, by).stamp = clock + 1 /\ New(bytes, by).by = by
  BY DEF New, Files, DiskOK

LEMMA WithFile ==
    ASSUME NEW r \in Directories, NEW f \in Files
    PROVE  /\ [r EXCEPT !.file = f] \in Directories /\ [r EXCEPT !.file = f].file = f
           /\ [r EXCEPT !.file = f].staging = r.staging /\ [r EXCEPT !.file = f].there = r.there
  BY DEF Directories

\* The file of one directory is written, deleted or gone with it.
LEMMA Put ==
    ASSUME FilesInv, NEW d \in Dirs, NEW r \in Directories, tree' = [tree EXCEPT ![d] = r],
           UNCHANGED bin, clock' \in {clock, clock + 1},
           r.file.there => r.file.stamp = clock + 1 /\ clock' = clock + 1,
           \A u \in Uploads : r.staging[u].there => r.staging[u] = tree[d].staging[u]
    PROVE  /\ tree' \in [Dirs -> Directories] /\ FilesKeep /\ tree'[d] = r
           /\ \A e \in Dirs \ {d} : tree'[e] = tree[e]
           /\ \A u \in Uploads : StagingsKeep(u)
<1>1. /\ tree' \in [Dirs -> Directories] /\ tree'[d] = r
      /\ \A e \in Dirs \ {d} : tree'[e] = tree[e]
  BY TreePut, Parts
<1>2. FilesKeep
  BY <1>1, OneFile, Parts
<1>3. ASSUME NEW u \in Uploads PROVE StagingsKeep(u)
  <2>1. \A e \in Dirs : tree'[e].staging[u].there => tree'[e].staging[u] = tree[e].staging[u]
    BY <1>1
  <2>2. \A o \in Bins : StagedIn(u, o)' <=> StagedIn(u, o)
    BY DEF StagedIn, Listed
  <2> QED
    BY <2>1, <2>2, FewerStagings, Parts
<1> QED
  BY <1>1, <1>2, <1>3

\* _keep_previous.
LEMMA KeptIs ==
    ASSUME DiskOK, NEW d \in Dirs, NEW since, Kept(d), UNCHANGED tree
    PROVE  recovery' \in [Dirs -> Files] /\ Copied(d, since)'
<1>1. tree[d].file \in Files
  BY DirIs
<1>2. CASE tree[d].file.there
  <2>1. recovery' = [recovery EXCEPT ![d] = tree[d].file]
    BY <1>2 DEF Kept
  <2>2. recovery' \in [Dirs -> Files] /\ recovery'[d] = tree[d].file
    BY <1>1, <2>1 DEF DiskOK
  <2> QED
    BY <1>2, <2>2 DEF Copied
<1>3. CASE ~tree[d].file.there
  BY <1>3 DEF Kept, Copied, Spared, DiskOK
<1> QED
  BY <1>2, <1>3

LEMMA KeepWrittenStep == ASSUME FilesInv, KeepWritten PROVE FilesInv'
<1> USE Parts DEF KeepWritten, Does
<1>1. /\ work # Idle /\ work.pc = "keep" /\ server = "up" /\ transfer.pc \notin {"keep", "replace"}
  BY BusyIs
<1>2. PICK d, since : d = work.d /\ since = work.since
  OBVIOUS
<1>3. d \in Dirs /\ recovery' \in [Dirs -> Files] /\ Copied(d, since)'
  BY <1>1, <1>2, WorkIs, KeptIs
<1>4. work' = [work EXCEPT !.pc = "put"]
  OBVIOUS
<1>5. work \in [pc : {"keep", "put"}, d : Dirs, there : BOOLEAN, bytes : Seq(Bytes), since : Nat]
  BY <1>1 DEF WorkOK, Idle
<1>6. WorkOK' /\ work'.pc = "put" /\ work'.d = d /\ work'.since = since /\ work' # Idle
  BY <1>2, <1>4, <1>5 DEF WorkOK, Idle
<1>7. WorkTells'
  BY <1>1, <1>2, <1>3, <1>6 DEF WorkTells
<1>8. DiskOK'
  BY <1>3 DEF DiskOK
<1>9. FilesKeep
  BY FilesStay
<1>10. \A u \in Uploads : StagingsKeep(u)
  BY StagingsStay
<1> QED
  BY <1>1, <1>6, <1>7, <1>8, <1>9, <1>10, ByWork

LEMMA PutWrittenStep == ASSUME FilesInv, PutWritten PROVE FilesInv'
<1> USE Parts DEF PutWritten, Does, Ends
<1>1. /\ work # Idle /\ work.pc = "put" /\ server = "up" /\ transfer.pc \notin {"keep", "replace"}
  BY BusyIs
<1>2. PICK d : d = work.d
  OBVIOUS
<1>3. d \in Dirs /\ work.bytes \in Seq(Bytes)
  BY <1>1, <1>2, WorkIs
<1>4. tree[d] \in Directories
  BY <1>3, DirIs
<1>5. PICK r \in Directories :
        /\ tree' = [tree EXCEPT ![d] = r] /\ r.staging = tree[d].staging
        /\ r.file.there => r.file.stamp = clock + 1
  <2>1. CASE work.there
    <3>1. PICK f : f = New(work.bytes, "host")
      OBVIOUS
    <3>2. f \in Files /\ f.stamp = clock + 1
      BY <1>3, <3>1, NewFile
    <3> DEFINE r == [[tree[d] EXCEPT !.there = TRUE] EXCEPT !.file = f]
    <3>3. r \in Directories /\ r.staging = tree[d].staging /\ r.file = f
      BY <1>4, <3>2 DEF Directories
    <3>4. tree' = [tree EXCEPT ![d] = r]
      BY <1>2, <1>3, <2>1, <3>1 DEF DiskOK
    <3> QED
      BY <3>2, <3>3, <3>4
  <2>2. CASE ~work.there
    <3> DEFINE r == [tree[d] EXCEPT !.file = NoFile]
    <3>1. r \in Directories /\ r.staging = tree[d].staging /\ r.file = NoFile
      BY <1>4, NewDirs, WithFile
    <3>2. tree' = [tree EXCEPT ![d] = r]
      BY <1>2, <2>2
    <3> QED
      BY <3>1, <3>2, NewDirs
  <2> QED
    BY <2>1, <2>2
<1>6. /\ tree' \in [Dirs -> Directories] /\ FilesKeep /\ \A u \in Uploads : StagingsKeep(u)
  BY <1>3, <1>5, Put
<1>7. DiskOK'
  BY <1>6 DEF DiskOK
<1>8. WorkOK' /\ WorkTells'
  BY DEF WorkOK, WorkTells, Idle
<1> QED
  BY <1>1, <1>6, <1>7, <1>8, ByWork

LEMMA MkdirStep == ASSUME FilesInv, NEW d \in Dirs, Mkdir(d) PROVE FilesInv'
<1> USE Parts DEF Mkdir
<1>1. work = Idle /\ transfer.pc \notin {"keep", "replace"}
  BY FreeIs
<1>2. /\ tree' \in [Dirs -> Directories] /\ FilesKeep /\ \A u \in Uploads : StagingsKeep(u)
  BY Put, NewDirs
<1>3. DiskOK'
  BY <1>2, Spent DEF DiskOK, Budget
<1>4. WorkOK' /\ WorkTells'
  BY <1>1 DEF WorkOK, WorkTells, Idle
<1> QED
  BY <1>1, <1>2, <1>3, <1>4, ByWork

-----------------------------------------------------------------------------
(* What is carried from one place to another. *)

\* A step after which the files are some of those that were there, and one new one.
LEMMA NewOrOld ==
    ASSUME DiskOK, StampsHold, clock' \in {clock, clock + 1}, NEW g,
           \A f \in Existing' : \/ f \in Existing
                                \/ f = g /\ g.stamp = clock + 1 /\ clock' = clock + 1
    PROVE  FilesKeep
<1>1. \A f \in Existing : f.stamp <= clock /\ f.stamp \in Nat
  BY ExistingTyped DEF StampsHold, Agrees, Files
<1>2. clock \in Nat /\ clock' \in Nat /\ clock <= clock'
  BY DEF DiskOK
<1>3. \A f \in Existing' : f \in Existing \/ (f.stamp > clock /\ f.stamp <= clock')
  BY <1>2
<1>4. \A f, h \in Existing' : f.stamp > clock /\ h.stamp > clock => f.bytes = h.bytes
  BY <1>1, <1>2
<1> QED
  BY <1>2, <1>3, <1>4 DEF FilesKeep

LEMMA TwoPut ==
    ASSUME DiskOK, NEW d \in Dirs, NEW e \in Dirs, d # e, NEW r \in Directories, NEW s \in Directories,
           tree' = [tree EXCEPT ![e] = r, ![d] = s]
    PROVE  /\ tree' \in [Dirs -> Directories] /\ tree'[e] = r /\ tree'[d] = s
           /\ \A c \in Dirs \ {d, e} : tree'[c] = tree[c]
  BY DEF DiskOK

\* A file carried to another place, with times of its own there.
LEMMA Restamped ==
    ASSUME NEW r \in Directories, NEW f \in Files, NEW c \in Nat
    PROVE  LET g == [f EXCEPT !.stamp = c]
               s == [r EXCEPT !.file = g]
           IN  /\ g \in Files /\ g.stamp = c /\ g.bytes = f.bytes /\ g.there = f.there
               /\ s \in Directories /\ s.file = g /\ s.staging = r.staging
<1> DEFINE g == [f EXCEPT !.stamp = c]
<1>1. g \in Files /\ g.stamp = c /\ g.bytes = f.bytes /\ g.there = f.there
  BY DEF Files
<1> HIDE DEF g
<1>2. [r EXCEPT !.file = g] \in Directories /\ [r EXCEPT !.file = g].file = g
      /\ [r EXCEPT !.file = g].staging = r.staging
  BY <1>1, WithFile
<1> QED
  BY <1>1, <1>2 DEF g

LEMMA MoveStep == ASSUME FilesInv, Move PROVE FilesInv'
<1> USE Parts DEF Move, Does, Ends
<1>1. /\ work # Idle /\ work.pc = "move" /\ server = "up" /\ transfer.pc \notin {"keep", "replace"}
  BY BusyIs
<1>2. PICK d, e, kind : d = work.d /\ e = work.to /\ kind = work.kind
  OBVIOUS
<1>3. d \in Dirs /\ e \in Dirs /\ kind \in Kinds /\ d # e
  BY <1>1, <1>2, WorkIs DEF WorkTells
<1>4. WorkOK' /\ WorkTells'
  BY DEF WorkOK, WorkTells, Idle
<1>5. tree[d] \in Directories /\ tree[e] \in Directories /\ tree[d].file \in Files /\ clock + 1 \in Nat
  BY <1>3, DirIs
<1>6. CASE UNCHANGED <<tree, clock>>
  BY <1>1, <1>4, <1>6, FilesStay, StagingsStay, ByWork DEF DiskOK
<1>7. ASSUME StillThere(kind, d), Settles(kind, e), clock' = clock + 1,
             tree' = [tree EXCEPT ![e] = Placed(kind, e, tree[d]), ![d] = Left(kind, d)]
      PROVE  FilesInv'
  <2>1. CASE kind = "directory"
    <3>1. tree' = [tree EXCEPT ![e] = tree[d], ![d] = NoDir] /\ Bare(e)
      BY <1>7, <2>1 DEF Placed, Left, Settles
    <3>2. /\ tree' \in [Dirs -> Directories] /\ tree'[e] = tree[d] /\ tree'[d] = NoDir
          /\ \A c \in Dirs \ {d, e} : tree'[c] = tree[c]
      BY <1>3, <1>5, <3>1, TwoPut, NewDirs
    <3>3. \A f \in Existing' : f \in Existing
      BY <1>3, <3>2, NewDirs DEF Existing, InBin, Listed
    <3>4. FilesKeep
      BY <1>7, <3>3, NewOrOld
    <3>5. ASSUME NEW u \in Uploads PROVE StagingsKeep(u)
      <4>1. ~tree[e].staging[u].there /\ ~tree'[d].staging[u].there
        BY <3>1, <3>2, NewDirs DEF Bare, Clear
      <4>2. \A c \in Dirs : tree'[c].staging[u].there =>
               \/ c = e /\ tree'[c].staging[u] = tree[d].staging[u]
               \/ c # e /\ c # d /\ tree'[c].staging[u] = tree[c].staging[u]
        BY <1>3, <3>2, <4>1
      <4>3. \A o \in Bins : StagedIn(u, o)' <=> StagedIn(u, o)
        BY DEF StagedIn, Listed
      <4>4. Alone(u)'
        <5>1. ASSUME NEW c1 \in Dirs, NEW c2 \in Dirs,
                     tree'[c1].staging[u].there, tree'[c2].staging[u].there
              PROVE  c1 = c2
          BY <1>3, <4>2, <5>1 DEF Alone
        <5> QED
          BY <1>3, <4>2, <4>3, <5>1 DEF Alone
      <4>5. Held(u)' \subseteq Held(u)
        BY <1>3, <4>2, <4>3 DEF Held
      <4> QED
        BY <4>4, <4>5 DEF StagingsKeep
    <3>6. DiskOK'
      BY <1>5, <1>7, <3>2 DEF DiskOK
    <3> QED
      BY <1>1, <1>4, <3>4, <3>5, <3>6, ByWork
  <2>2. CASE kind = "file"
    <3>1. PICK g, r : g = [tree[d].file EXCEPT !.stamp = clock + 1] /\ r = [tree[e] EXCEPT !.file = g]
      OBVIOUS
    <3>2. PICK s : s = [tree[d] EXCEPT !.file = NoFile]
      OBVIOUS
    <3>3. /\ g.stamp = clock + 1 /\ r \in Directories /\ r.file = g /\ r.staging = tree[e].staging
          /\ s \in Directories /\ s.file = NoFile /\ s.staging = tree[d].staging
      BY <1>5, <3>1, <3>2, Restamped, WithFile, NewDirs
    <3>4. tree' = [tree EXCEPT ![e] = r, ![d] = s]
      BY <1>7, <2>2, <3>1, <3>2 DEF Placed, Left
    <3>5. /\ tree' \in [Dirs -> Directories] /\ tree'[e] = r /\ tree'[d] = s
          /\ \A c \in Dirs \ {d, e} : tree'[c] = tree[c]
      BY <1>3, <3>3, <3>4, TwoPut
    <3>6. \A f \in Existing' : f \in Existing \/ f = g
      BY <3>3, <3>5, NewDirs DEF Existing, InBin, Listed
    <3>7. FilesKeep
      BY <1>7, <3>3, <3>6, NewOrOld
    <3>8. ASSUME NEW u \in Uploads PROVE StagingsKeep(u)
      <4>1. \A c \in Dirs : tree'[c].staging[u] = tree[c].staging[u]
        BY <3>3, <3>5
      <4> QED
        BY <4>1, StagingsStay
    <3>9. DiskOK'
      BY <1>5, <1>7, <3>5 DEF DiskOK
    <3> QED
      BY <1>1, <1>4, <3>7, <3>8, <3>9, ByWork
  <2> QED
    BY <1>3, <2>1, <2>2 DEF Kinds
<1> QED
  BY <1>2, <1>6, <1>7

\* One container changed.
LEMMA BinPut ==
    ASSUME DiskOK, NEW o \in Bins, NEW c \in Containers, bin' = [bin EXCEPT ![o] = c]
    PROVE  bin' \in [Bins -> Containers] /\ bin'[o] = c /\ \A p \in Bins \ {o} : bin'[p] = bin[p]
  BY DEF DiskOK

\* A container that loses what it holds, or that holds nothing in the first place.
LEMMA Emptied ==
    ASSUME FilesInv, NEW o \in Bins, NEW c \in Containers, bin' = [bin EXCEPT ![o] = c],
           c.stage = "full" => ~c.payload.file.there /\ \A u \in Uploads : ~c.payload.staging[u].there,
           UNCHANGED <<tree, clock>>
    PROVE  bin' \in [Bins -> Containers] /\ bin'[o] = c /\ FilesKeep /\ \A u \in Uploads : StagingsKeep(u)
<1> USE Parts
<1>1. bin' \in [Bins -> Containers] /\ bin'[o] = c /\ \A p \in Bins \ {o} : bin'[p] = bin[p]
  BY BinPut
<1>2. \A f \in Existing' : f \in Existing
  BY <1>1 DEF Existing, InBin, Listed
<1>3. FilesKeep
  BY <1>2, NewOrOld
<1>4. ASSUME NEW u \in Uploads PROVE StagingsKeep(u)
  BY <1>1, FewerStagings DEF StagedIn, Listed
<1> QED
  BY <1>1, <1>3, <1>4

LEMMA PutPayloadStep == ASSUME FilesInv, PutPayload PROVE FilesInv'
<1> USE Parts DEF PutPayload, Does, Ends
<1>1. /\ work # Idle /\ work.pc = "trash" /\ server = "up" /\ transfer.pc \notin {"keep", "replace"}
  BY BusyIs
<1>2. PICK d, o, kind : d = work.d /\ o = work.o /\ kind = work.kind
  OBVIOUS
<1>3. d \in Dirs /\ o \in Bins /\ kind \in Kinds /\ bin[o].stage = "made"
  BY <1>1, <1>2, WorkIs DEF WorkTells
<1>4. WorkOK' /\ WorkTells'
  BY DEF WorkOK, WorkTells, Idle
<1>5. tree[d] \in Directories
  BY <1>3, DirIs
<1>6. ASSUME bin' = [bin EXCEPT ![o] = NoBin], UNCHANGED tree
      PROVE  FilesInv'
  <2>1. NoBin \in Containers /\ NoBin.stage # "full"
    BY DEF NoBin, Containers
  <2>2. bin' \in [Bins -> Containers] /\ FilesKeep /\ \A u \in Uploads : StagingsKeep(u)
    BY <1>3, <1>6, <2>1, Emptied
  <2>3. DiskOK'
    BY <1>6, <2>2 DEF DiskOK
  <2> QED
    BY <1>1, <1>4, <2>2, <2>3, ByWork
<1>7. ASSUME bin' = [bin EXCEPT ![o] = [stage |-> "full", kind |-> kind, d |-> d, payload |-> tree[d]]],
             tree' = [tree EXCEPT ![d] = Left(kind, d)]
      PROVE  FilesInv'
  <2>1. PICK c, r : /\ c = [stage |-> "full", kind |-> kind, d |-> d, payload |-> tree[d]]
                    /\ r = Left(kind, d)
    OBVIOUS
  <2>2. c \in Containers /\ c.stage = "full" /\ c.kind = kind /\ c.payload = tree[d]
    BY <1>3, <1>5, <2>1 DEF Containers
  <2>3. /\ r \in Directories /\ ~r.file.there
        /\ kind = "directory" => \A u \in Uploads : ~r.staging[u].there
        /\ kind = "file" => r.staging = tree[d].staging
    BY <1>3, <1>5, <2>1, NewDirs, WithFile DEF Left, Kinds
  <2>4. bin' \in [Bins -> Containers] /\ bin'[o] = c /\ \A p \in Bins \ {o} : bin'[p] = bin[p]
    BY <1>3, <1>7, <2>1, <2>2, BinPut
  <2>5. tree' \in [Dirs -> Directories] /\ tree'[d] = r /\ \A e \in Dirs \ {d} : tree'[e] = tree[e]
    BY <1>3, <1>7, <2>1, <2>3, TreePut
  <2>6. \A f \in Existing' : f \in Existing
    BY <1>3, <2>2, <2>3, <2>4, <2>5 DEF Existing, InBin, Listed
  <2>7. FilesKeep
    BY <2>6, NewOrOld
  <2>8. ASSUME NEW u \in Uploads PROVE StagingsKeep(u)
    <3>1. \A p \in Bins : StagedIn(u, p)' <=>
             \/ p # o /\ StagedIn(u, p)
             \/ p = o /\ kind = "directory" /\ tree[d].staging[u].there
      BY <2>2, <2>4 DEF StagedIn, Listed
    <3>2. \A p \in Bins : StagedIn(u, p)' =>
             IF p = o THEN bin'[p].payload.staging[u] = tree[d].staging[u] ELSE bin'[p] = bin[p]
      BY <2>2, <2>4
    <3>3. \A e \in Dirs : tree'[e].staging[u].there =>
             /\ tree[e].staging[u].there /\ tree'[e].staging[u] = tree[e].staging[u]
             /\ e # d \/ kind = "file"
      BY <1>3, <2>3, <2>5 DEF Kinds
    <3>4. Alone(u)'
      <4>1. \A e1, e2 \in Dirs : tree'[e1].staging[u].there /\ tree'[e2].staging[u].there => e1 = e2
        BY <3>3 DEF Alone
      <4>2. ASSUME NEW p1 \in Bins, NEW p2 \in Bins, StagedIn(u, p1)', StagedIn(u, p2)' PROVE p1 = p2
        BY <1>3, <3>1, <4>2 DEF Alone
      <4>3. ASSUME NEW e \in Dirs, NEW p \in Bins, tree'[e].staging[u].there, StagedIn(u, p)' PROVE FALSE
        BY <1>3, <3>1, <3>3, <4>3 DEF Alone
      <4> QED
        BY <4>1, <4>2, <4>3 DEF Alone
    <3>5. Held(u)' \subseteq Held(u)
      BY <1>3, <3>1, <3>2, <3>3 DEF Held
    <3> QED
      BY <3>4, <3>5 DEF StagingsKeep
  <2>9. DiskOK'
    BY <2>4, <2>5 DEF DiskOK
  <2> QED
    BY <1>1, <1>4, <2>7, <2>8, <2>9, ByWork
<1> QED
  BY <1>2, <1>6, <1>7

LEMMA SpentIs ==
    ASSUME DiskOK, NEW o \in Bins, bin[o].stage = "full"
    PROVE  /\ [bin[o] EXCEPT !.stage = "spent"] \in Containers
           /\ [bin[o] EXCEPT !.stage = "spent"].stage = "spent"
           /\ bin[o] \in [stage : {"full", "spent"}, kind : Kinds, d : Dirs, payload : Directories]
<1>1. bin[o] \in [stage : {"full", "spent"}, kind : Kinds, d : Dirs, payload : Directories]
  BY BinIs
<1>2. [bin[o] EXCEPT !.stage = "spent"] \in [stage : {"full", "spent"}, kind : Kinds, d : Dirs, payload : Directories]
  BY <1>1
<1> QED
  BY <1>1, <1>2 DEF Containers

LEMMA TakePayloadStep == ASSUME FilesInv, TakePayload PROVE FilesInv'
<1> USE Parts DEF TakePayload, Does, Ends
<1>1. /\ work # Idle /\ work.pc = "restore" /\ server = "up" /\ transfer.pc \notin {"keep", "replace"}
  BY BusyIs
<1>2. PICK o, w : o = work.o /\ w = bin[o]
  OBVIOUS
<1>3. o \in Bins /\ bin[o].stage = "full"
  BY <1>1, <1>2, WorkIs DEF WorkTells, Listed
<1>4. w \in [stage : {"full", "spent"}, kind : Kinds, d : Dirs, payload : Directories]
  BY <1>2, <1>3, BinIs
<1>5. PICK e, kind, r : e = w.d /\ kind = w.kind /\ r = w.payload
  OBVIOUS
<1>6. e \in Dirs /\ kind \in Kinds /\ r \in Directories /\ r.file \in Files
  BY <1>4, <1>5 DEF Directories
<1>7. ASSUME Ends, UNCHANGED <<tree, clock, bin>> PROVE FilesInv'
  <2>1. WorkOK' /\ WorkTells'
    BY <1>7 DEF WorkOK, WorkTells, Idle
  <2> QED
    BY <1>1, <1>7, <2>1, FilesStay, StagingsStay, ByWork DEF DiskOK
<1>8. ASSUME Settles(kind, e), tree' = [tree EXCEPT ![e] = Placed(kind, e, r)],
             clock' = clock + 1, bin' = [bin EXCEPT ![o].stage = "spent"],
             work' = [work EXCEPT !.pc = "clear"]
      PROVE  FilesInv'
  <2>1. PICK c : c = [bin[o] EXCEPT !.stage = "spent"]
    OBVIOUS
  <2>2. c \in Containers /\ c.stage = "spent"
    BY <1>3, <2>1, SpentIs
  <2>3. bin' \in [Bins -> Containers] /\ bin'[o] = c /\ \A p \in Bins \ {o} : bin'[p] = bin[p]
    BY <1>3, <1>8, <2>1, <2>2, BinPut
  <2>4. WorkOK' /\ WorkTells'
    <3>1. work \in [pc : {"restore", "remove", "clear"}, o : Bins, since : Nat]
      BY <1>1 DEF WorkOK
    <3>2. work' \in [pc : {"restore", "remove", "clear"}, o : Bins, since : Nat]
          /\ work'.pc = "clear" /\ work'.o = o /\ work'.since = work.since
      BY <1>2, <1>8, <3>1
    <3>3. clock' >= clock /\ work.since <= clock /\ work.since \in Nat /\ clock' \in Nat
      BY <1>1, <1>8, WorkIs DEF WorkTells
    <3>4. work' # Idle
      BY <3>2 DEF Idle
    <3>5. WorkTells'
      BY <2>2, <2>3, <3>2, <3>3, <3>4 DEF WorkTells, InBin, Listed
    <3> QED
      BY <3>2, <3>5 DEF WorkOK
  <2>5. CASE kind = "directory"
    <3>1. tree' = [tree EXCEPT ![e] = r] /\ Bare(e)
      BY <1>8, <2>5 DEF Placed, Settles
    <3>2. tree' \in [Dirs -> Directories] /\ tree'[e] = r /\ \A d \in Dirs \ {e} : tree'[d] = tree[d]
      BY <1>6, <3>1, TreePut
    <3>3. \A f \in Existing' : f \in Existing
      BY <1>2, <1>3, <1>5, <1>6, <2>2, <2>3, <3>2 DEF Existing, InBin, Listed
    <3>4. FilesKeep
      BY <1>8, <3>3, NewOrOld
    <3>5. ASSUME NEW u \in Uploads PROVE StagingsKeep(u)
      <4>1. ~tree[e].staging[u].there
        BY <3>1 DEF Bare, Clear
      <4>2. \A d \in Dirs : tree'[d].staging[u].there =>
               \/ d = e /\ StagedIn(u, o) /\ tree'[d].staging[u] = bin[o].payload.staging[u]
               \/ d # e /\ tree[d].staging[u].there /\ tree'[d].staging[u] = tree[d].staging[u]
        BY <1>2, <1>3, <1>5, <2>5, <3>2 DEF StagedIn, Listed
      <4>3. \A p \in Bins : StagedIn(u, p)' => p # o /\ StagedIn(u, p) /\ bin'[p] = bin[p]
        BY <2>2, <2>3 DEF StagedIn, Listed
      <4>4. Alone(u)'
        <5>1. ASSUME NEW e1 \in Dirs, NEW e2 \in Dirs,
                     tree'[e1].staging[u].there, tree'[e2].staging[u].there
              PROVE  e1 = e2
          BY <1>3, <4>2, <5>1 DEF Alone
        <5>2. \A p1, p2 \in Bins : StagedIn(u, p1)' /\ StagedIn(u, p2)' => p1 = p2
          BY <4>3 DEF Alone
        <5>3. ASSUME NEW d \in Dirs, NEW p \in Bins, tree'[d].staging[u].there, StagedIn(u, p)' PROVE FALSE
          BY <1>3, <4>2, <4>3, <5>3 DEF Alone
        <5> QED
          BY <5>1, <5>2, <5>3 DEF Alone
      <4>5. Held(u)' \subseteq Held(u)
        BY <1>3, <4>2, <4>3 DEF Held
      <4> QED
        BY <4>4, <4>5 DEF StagingsKeep
    <3>6. DiskOK'
      BY <1>8, <2>3, <3>2 DEF DiskOK
    <3> QED
      BY <1>1, <2>4, <3>4, <3>5, <3>6, ByWork
  <2>6. CASE kind = "file"
    <3>1. PICK g, s : g = [r.file EXCEPT !.stamp = clock + 1] /\ s = [tree[e] EXCEPT !.file = g]
      OBVIOUS
    <3>2. g.stamp = clock + 1 /\ s \in Directories /\ s.file = g /\ s.staging = tree[e].staging
      <4>1. tree[e] \in Directories /\ clock + 1 \in Nat
        BY <1>6, DirIs
      <4> QED
        BY <1>6, <3>1, <4>1, Restamped
    <3>3. tree' = [tree EXCEPT ![e] = s]
      BY <1>8, <2>6, <3>1 DEF Placed
    <3>4. tree' \in [Dirs -> Directories] /\ tree'[e] = s /\ \A d \in Dirs \ {e} : tree'[d] = tree[d]
      BY <1>6, <3>2, <3>3, TreePut
    <3>5. \A f \in Existing' : f \in Existing \/ f = g
      BY <2>2, <2>3, <3>2, <3>4 DEF Existing, InBin, Listed
    <3>6. FilesKeep
      BY <1>8, <3>2, <3>5, NewOrOld
    <3>7. ASSUME NEW u \in Uploads PROVE StagingsKeep(u)
      BY <2>2, <2>3, <3>2, <3>4, FewerStagings DEF StagedIn, Listed
    <3>8. DiskOK'
      BY <1>8, <2>3, <3>4 DEF DiskOK
    <3> QED
      BY <1>1, <2>4, <3>6, <3>7, <3>8, ByWork
  <2> QED
    BY <1>6, <2>5, <2>6 DEF Kinds
<1> QED
  BY <1>2, <1>5, <1>7, <1>8

LEMMA RemovePartStep == ASSUME FilesInv, RemovePart PROVE FilesInv'
<1> USE Parts DEF RemovePart, Does
<1>1. /\ work # Idle /\ work.pc = "remove" /\ server = "up" /\ transfer.pc \notin {"keep", "replace"}
  BY BusyIs
<1>2. PICK o : o = work.o
  OBVIOUS
<1>3. o \in Bins /\ bin[o].stage = "full"
  BY <1>1, <1>2, WorkIs DEF WorkTells, Listed
<1>4. PICK stage \in {"spent", "full"} :
         bin' = [bin EXCEPT ![o] = [[bin[o] EXCEPT !.stage = stage] EXCEPT !.payload = EmptyDir]]
  BY <1>2
<1>5. PICK c : c = [[bin[o] EXCEPT !.stage = stage] EXCEPT !.payload = EmptyDir]
  OBVIOUS
<1>6. c \in Containers /\ c.stage = stage /\ c.payload = EmptyDir
  <2>1. bin[o] \in [stage : {"full", "spent"}, kind : Kinds, d : Dirs, payload : Directories]
    BY <1>3, BinIs
  <2>2. PICK empty : empty = EmptyDir /\ empty \in Directories
    BY NewDirs
  <2>3. c \in [stage : {"full", "spent"}, kind : Kinds, d : Dirs, payload : Directories]
        /\ c.stage = stage /\ c.payload = empty
    BY <1>5, <2>1, <2>2
  <2> QED
    BY <2>2, <2>3 DEF Containers
<1>7. bin' \in [Bins -> Containers] /\ bin'[o] = c /\ FilesKeep /\ \A u \in Uploads : StagingsKeep(u)
  BY <1>3, <1>4, <1>5, <1>6, Emptied, NewDirs
<1>8. WorkOK' /\ WorkTells'
  <2>1. work \in [pc : {"restore", "remove", "clear"}, o : Bins, since : Nat]
    BY <1>1 DEF WorkOK
  <2>2. work' \in [pc : {"restore", "remove", "clear"}, o : Bins, since : Nat]
        /\ work'.pc = "clear" /\ work'.o = o /\ work'.since = work.since
    BY <1>2, <2>1
  <2>3. work' # Idle /\ work.since <= clock
    BY <1>1, <2>2 DEF Idle, WorkTells
  <2>4. ~InBin(o)' /\ bin'[o].stage \in {"full", "spent"}
    BY <1>6, <1>7, NewDirs DEF InBin
  <2>5. WorkTells'
    BY <2>2, <2>3, <2>4 DEF WorkTells
  <2> QED
    BY <2>2, <2>5 DEF WorkOK
<1>9. DiskOK'
  BY <1>7 DEF DiskOK
<1> QED
  BY <1>1, <1>7, <1>8, <1>9, ByWork

LEMMA ClearContainerStep == ASSUME FilesInv, ClearContainer PROVE FilesInv'
<1> USE Parts DEF ClearContainer, Does, Ends
<1>1. /\ work # Idle /\ work.pc = "clear" /\ server = "up" /\ transfer.pc \notin {"keep", "replace"}
  BY BusyIs
<1>2. PICK o, c : o = work.o /\ c = [stage |-> "gone"]
  OBVIOUS
<1>3. o \in Bins /\ c \in Containers /\ c.stage # "full"
  BY <1>1, <1>2, WorkIs DEF Containers
<1>4. bin' \in [Bins -> Containers] /\ FilesKeep /\ \A u \in Uploads : StagingsKeep(u)
  BY <1>2, <1>3, Emptied
<1>5. WorkOK' /\ WorkTells'
  BY DEF WorkOK, WorkTells, Idle
<1>6. DiskOK'
  BY <1>4 DEF DiskOK
<1> QED
  BY <1>1, <1>4, <1>5, <1>6, ByWork

-----------------------------------------------------------------------------
(* Requests of the transfers that change no file. *)

LEMMA Resting == ASSUME transfer' \in {Idle, [pc |-> "save"]} PROVE TransferOK' /\ BeginTells' /\ CommitTells' /\ ReadTells'
<1>1. transfer'.pc \in {"idle", "save"}
  BY DEF Idle
<1> QED
  BY <1>1 DEF TransferOK, BeginTells, CommitTells, ReadTells

LEMMA ReadyIs ==
    ASSUME FilesInv, Ready \/ At("idle")
    PROVE  transfer = Idle /\ server = "up"
  BY Parts, TransferIs DEF Ready, At

LEMMA RequestIs ==
    ASSUME NEW pc, At(pc)
    PROVE  transfer.pc = pc /\ server = "up"
  BY DEF At

\* A request under way that changes no item; the items may be saved as they are.
LEMMA Quiet ==
    ASSUME FilesInv, UNCHANGED <<disk, items, server, work, aged, seenBy>>, left' \in Budget,
           server = "up", drawn \subseteq drawn', drawn' \subseteq Transfers, saved' \in {saved, items},
           TransferOK', BeginTells', CommitTells', ReadTells'
    PROVE  FilesInv'
<1> USE Parts DEF seenBy
<1>1. ItemsOK'
  BY DEF ItemsOK
<1>2. FilesKeep /\ \A u \in Uploads : StagingsKeep(u)
  BY DiskStays DEF DiskOK
<1>3. ASSUME NEW u \in Uploads PROVE UploadTells(u)'
  BY <1>2, UploadFrame
<1>4. ASSUME NEW k \in Downloads PROVE DownloadTells(k)'
  BY <1>2, DownloadFrame
<1>5. CommitIsAsAgreed'
  BY AgreedFrame
<1> QED
  BY <1>1, <1>3, <1>4, <1>5, ByTransfer

LEMMA BeginUploadStep ==
    ASSUME FilesInv, NEW u \in Uploads, NEW d \in Dirs, NEW size \in 0..MaxSize, BeginUpload(u, d, size)
    PROVE  FilesInv'
<1> USE Parts DEF BeginUpload
<1>1. transfer = Idle /\ server = "up"
  BY ReadyIs
<1>2. PICK item : item = [there |-> TRUE, d |-> d, size |-> size, offset |-> 0,
                          expected |-> Version(tree[d].file)]
  OBVIOUS
<1>3. item \in UploadItems /\ item.offset = 0
  <2>1. Version(tree[d].file) \in BOOLEAN \X Seq(Bytes)
    BY DirIs DEF Version, Files
  <2> QED
    BY <1>2, <2>1 DEF UploadItems
<1>4. transfer' = [pc |-> "create", x |-> u, item |-> item]
  BY <1>2
<1>5. TransferOK' /\ transfer'.pc = "create" /\ transfer'.x = u /\ transfer'.item.offset = 0
  <2>1. [pc |-> "create", x |-> u, item |-> item] \in [pc : {"create", "record"}, x : Uploads, item : UploadItems]
    BY ONLY <1>3, u \in Uploads
  <2>2. TransferOK'
    BY ONLY <1>4, <2>1 DEF TransferOK
  <2> QED
    BY ONLY <1>3, <1>4, <2>2
<1>6. Held(u) = {} /\ Untouched(u)
  BY DEF UploadTells
<1>7. Held(u)' = {} /\ Untouched(u)'
  <2>1. Held(u)' = Held(u)
    BY Spent, DiskStays DEF DiskOK
  <2> QED
    BY <1>6, <2>1 DEF Untouched, seenBy
<1>8. BeginTells'
  BY <1>5, <1>7 DEF BeginTells
<1>9. CommitTells' /\ ReadTells'
  BY <1>5 DEF CommitTells, ReadTells
<1>10. drawn' \subseteq Transfers
  BY DEF ItemsOK, Transfers
<1> QED
  BY <1>1, <1>5, <1>8, <1>9, <1>10, Spent, Quiet

LEMMA CommitStep == ASSUME FilesInv, NEW u \in Uploads, Commit(u) PROVE FilesInv'
<1> USE Parts DEF Commit, Steps
<1>1. transfer = Idle /\ server = "up"
  BY ReadyIs
<1>2. transfer' = [pc |-> "lock", x |-> u] /\ transfer'.pc = "lock" /\ transfer'.x = u
  OBVIOUS
<1>3. TransferOK' /\ BeginTells' /\ ReadTells'
  BY <1>2 DEF TransferOK, BeginTells, ReadTells
<1>4. CommitTells'
  BY <1>2 DEF CommitTells
<1> QED
  BY <1>1, <1>3, <1>4, Quiet DEF ItemsOK

LEMMA CheckTargetStep == ASSUME FilesInv, CheckTarget PROVE FilesInv'
<1> USE Parts DEF CheckTarget
<1>1. transfer.pc = "lock" /\ server = "up" /\ work = Idle
  BY RequestIs DEF Free
<1>2. PICK u : u = transfer.x
  OBVIOUS
<1>3. u \in Uploads /\ items[u].there /\ items[u].offset = items[u].size
  BY <1>1, <1>2, TransferIs DEF CommitTells
<1>4. CASE Finished
  BY <1>1, <1>4, Resting, Quiet DEF Finished, ItemsOK
<1>5. ASSUME transfer' = [pc |-> "keep", x |-> u, since |-> clock], Unchanged(u, tree[items[u].d].file)
      PROVE  FilesInv'
  <2>1. transfer'.pc = "keep" /\ transfer'.x = u /\ transfer'.since = clock
    BY <1>5
  <2>2. TransferOK' /\ BeginTells' /\ ReadTells'
    BY <1>3, <1>5, <2>1 DEF TransferOK, BeginTells, ReadTells
  <2>3. CommitTells'
    BY <1>1, <1>3, <1>5, <2>1 DEF CommitTells, Unchanged, disk
  <2> QED
    BY <1>1, <2>2, <2>3, Quiet DEF ItemsOK
<1> QED
  BY <1>2, <1>4, <1>5

LEMMA SaveStep == ASSUME FilesInv, Save PROVE FilesInv'
  BY Parts, RequestIs, Resting, Quiet DEF Save, Finished, ItemsOK

LEMMA RecordStep == ASSUME FilesInv, Record PROVE FilesInv'
<1> USE Parts DEF Record, Finished
<1>1. transfer.pc = "record" /\ server = "up"
  BY RequestIs
<1>2. PICK x, item : x = transfer.x /\ item = transfer.item
  OBVIOUS
<1>3. /\ x \in Uploads /\ item \in UploadItems /\ x \in drawn /\ Untouched(x)
      /\ item.offset = 0 /\ \A bytes \in Held(x) : Len(bytes) = 0
  BY <1>1, <1>2, TransferIs DEF BeginTells
<1>4. /\ items' = [items EXCEPT ![x] = item] /\ saved' = items' /\ items'[x] = item
      /\ \A y \in Transfers \ {x} : items'[y] = items[y] /\ saved'[y] = items[y]
  BY <1>2, <1>3 DEF ItemsOK, Transfers
<1>5. ItemsOK'
  <2>1. items' \in [Transfers -> {NoItem} \cup UploadItems \cup DownloadItems]
    BY <1>3, <1>4 DEF ItemsOK, Transfers
  <2>2. \A u \in Uploads : {items'[u], saved'[u]} \subseteq {NoItem} \cup UploadItems
    BY <1>3, <1>4 DEF ItemsOK, Transfers
  <2>3. \A k \in Downloads : {items'[k], saved'[k]} \subseteq {NoItem} \cup DownloadItems
    BY <1>3, <1>4 DEF ItemsOK, Transfers
  <2> QED
    BY <1>4, <2>1, <2>2, <2>3 DEF ItemsOK, seenBy
<1>6. FilesKeep /\ \A u \in Uploads : StagingsKeep(u) /\ Held(u)' = Held(u)
  BY DiskStays DEF DiskOK
<1>7. ASSUME NEW u \in Uploads PROVE UploadTells(u)'
  <2>1. CASE u = x
    BY <1>3, <1>4, <1>6, <2>1 DEF UploadTells, Untouched, StagingsKeep, seenBy
  <2>2. CASE u # x
    BY <1>4, <1>6, <2>2, UploadFrame DEF Transfers, seenBy
  <2> QED
    BY <2>1, <2>2
<1>8. ASSUME NEW k \in Downloads PROVE DownloadTells(k)'
  BY <1>3, <1>4, <1>6, DownloadFrame DEF Transfers, seenBy
<1>9. CommitIsAsAgreed'
  BY AgreedFrame DEF seenBy
<1> QED
  BY <1>1, <1>5, <1>7, <1>8, <1>9, Resting, ByTransfer

\* What is held of an upload whose staging is in the root.
LEMMA HeldOne ==
    ASSUME FilesInv, NEW u \in Uploads, NEW d \in Dirs, tree[d].staging[u].there
    PROVE  Held(u) = {tree[d].staging[u].bytes}
<1>1. Alone(u)
  BY Parts
<1>2. \A e \in Dirs : tree[e].staging[u].there => e = d
  BY <1>1 DEF Alone
<1>3. \A o \in Bins : ~StagedIn(u, o)
  BY <1>1 DEF Alone
<1> QED
  BY <1>2, <1>3 DEF Held

\* A chunk that is there is acknowledged.
LEMMA Acknowledged ==
    ASSUME FilesInv, NEW u \in Uploads, NEW chunk \in Chunks, items[u].there,
           \A bytes \in Held(u) : Has(bytes, chunk),
           UNCHANGED <<disk, items, server, work, aged, left, drawn, placed, got>>, server = "up",
           saved' = items, acked' = [acked EXCEPT ![u] = @ \cup {chunk}],
           transfer' = Idle
    PROVE  FilesInv'
<1> USE Parts
<1>1. /\ acked'[u] = acked[u] \cup {chunk} /\ acked' \in [Uploads -> SUBSET Chunks]
      /\ \A v \in Uploads \ {u} : acked'[v] = acked[v]
  BY DEF ItemsOK
<1>2. ItemsOK'
  BY <1>1 DEF ItemsOK
<1>3. FilesKeep /\ \A v \in Uploads : StagingsKeep(v) /\ Held(v)' = Held(v)
  BY DiskStays DEF DiskOK
<1>4. u \in drawn /\ ~placed[u].there
  BY DEF UploadTells, Untouched
<1>5. ASSUME NEW v \in Uploads PROVE UploadTells(v)'
  <2>1. CASE v = u
    BY <1>1, <1>3, <1>4, <2>1 DEF UploadTells, StagingsKeep
  <2>2. CASE v # u
    BY <1>1, <1>3, <2>2, UploadFrame
  <2> QED
    BY <2>1, <2>2
<1>6. ASSUME NEW k \in Downloads PROVE DownloadTells(k)'
  BY <1>3, DownloadFrame
<1>7. CommitIsAsAgreed'
  BY <1>1, <1>4 DEF CommitIsAsAgreed
<1> QED
  BY <1>2, <1>5, <1>6, <1>7, Resting, ByTransfer

LEMMA RecordOffsetStep == ASSUME FilesInv, RecordOffset PROVE FilesInv'
<1> USE Parts DEF RecordOffset, Finished
<1>1. transfer.pc = "appended" /\ server = "up" /\ transfer' = Idle
  BY RequestIs
<1>2. PICK u, chunk : u = transfer.x /\ chunk = transfer.chunk
  OBVIOUS
<1>3. u \in Uploads /\ chunk \in Chunks /\ items[u].there /\ \A bytes \in Held(u) : Has(bytes, chunk)
  BY <1>1, <1>2, TransferIs DEF BeginTells
<1>4. CASE UNCHANGED <<saved, acked>>
  BY <1>1, <1>4, Resting, Quiet DEF ItemsOK, seenBy
<1>5. CASE saved' = items /\ acked' = [acked EXCEPT ![u] = @ \cup {chunk}]
  BY <1>1, <1>3, <1>5, Acknowledged
<1> QED
  BY <1>2, <1>4, <1>5

LEMMA RepeatStep ==
    ASSUME FilesInv, NEW u \in Uploads, NEW offset \in Nat, NEW byte \in Bytes, Chunk(u, offset, byte),
           offset < items[u].offset
    PROVE  FilesInv'
<1> USE Parts DEF Chunk
<1>1. transfer = Idle /\ server = "up" /\ items[u].there /\ Staged(u).there
  BY ReadyIs
<1>2. items[u] \in UploadItems /\ items[u].offset # offset
  <2>1. items[u] \in UploadItems
    BY <1>1, ItemIs
  <2>2. items[u].offset \in Nat
    BY <2>1 DEF UploadItems
  <2> QED
    BY <2>1, <2>2
<1>3. PICK d \in Dirs : d = items[u].d
  BY <1>2 DEF UploadItems
<1>4. PICK b : b = tree[d].staging[u].bytes
  OBVIOUS
<1>5. Held(u) = {b} /\ Len(b) = items[u].offset
  BY <1>1, <1>3, <1>4, HeldOne DEF Staged, UploadTells
<1>6. PICK chunk : chunk = <<offset, byte>>
  OBVIOUS
<1>7. chunk \in Chunks /\ Has(b, chunk)
  BY <1>2, <1>3, <1>4, <1>5, <1>6 DEF Chunks, Has, Repeats, Staged
<1> QED
  BY <1>1, <1>2, <1>5, <1>6, <1>7, Acknowledged DEF disk

LEMMA BeginDownloadStep ==
    ASSUME FilesInv, NEW k \in Downloads, NEW d \in Dirs, BeginDownload(k, d)
    PROVE  FilesInv'
<1> USE Parts DEF BeginDownload
<1>1. transfer = Idle /\ transfer' = Idle /\ server = "up"
  BY ReadyIs
<1>2. PICK f, item : f = tree[d].file /\ item = [there |-> TRUE, d |-> d, pinned |-> f]
  OBVIOUS
<1>3. f \in Files /\ f \in Existing
  BY <1>2, DirIs, ExistingIs
<1>4. item \in DownloadItems /\ item.there /\ item.pinned = f
  BY ONLY <1>2, <1>3, d \in Dirs DEF DownloadItems
<1>5. /\ items' = [items EXCEPT ![k] = item] /\ saved' = items' /\ items'[k] = item
      /\ \A y \in Transfers \ {k} : items'[y] = items[y] /\ saved'[y] = items[y]
  BY <1>2 DEF ItemsOK, Transfers
<1>6. ItemsOK'
  <2>1. items' \in [Transfers -> {NoItem} \cup UploadItems \cup DownloadItems]
    BY <1>4, <1>5 DEF ItemsOK, Transfers
  <2>2. \A u \in Uploads : {items'[u], saved'[u]} \subseteq {NoItem} \cup UploadItems
    BY <1>5 DEF ItemsOK, Transfers
  <2>3. \A l \in Downloads : items'[l] \in {NoItem} \cup DownloadItems
    BY <1>4, <1>5 DEF ItemsOK, Transfers
  <2>4. drawn' \subseteq Transfers
    BY DEF ItemsOK, Transfers
  <2>5. \A l \in Downloads : {items'[l], saved'[l]} \subseteq {NoItem} \cup DownloadItems
    BY ONLY <1>5, <2>3
  <2> QED
    BY <1>5, <2>1, <2>2, <2>4, <2>5 DEF ItemsOK, seenBy
<1>7. left' \in Budget
  BY Spent
<1>8. FilesKeep /\ \A u \in Uploads : StagingsKeep(u)
  BY <1>7, DiskStays DEF DiskOK
<1>9. ASSUME NEW u \in Uploads PROVE UploadTells(u)'
  BY <1>5, <1>8, UploadFrame DEF Transfers, seenBy
<1>10. ASSUME NEW l \in Downloads PROVE DownloadTells(l)'
  <2>1. CASE l = k
    <3>1. got'[k] = {} /\ k \in drawn'
      BY DEF DownloadTells, seenBy
    <3>2. Agrees(f)'
      BY <1>3, <1>8, StillAgrees DEF StampsHold, Files
    <3>3. PinnedTo(k, f)'
      BY <3>1, <3>2 DEF PinnedTo
    <3>4. items'[k].pinned = f /\ saved'[k].pinned = f
      BY <1>4, <1>5
    <3> QED
      BY <2>1, <3>1, <3>3, <3>4 DEF DownloadTells
  <2>2. CASE l # k
    BY <1>5, <1>8, <2>2, DownloadFrame DEF Transfers, seenBy
  <2> QED
    BY <2>1, <2>2
<1>11. CommitIsAsAgreed'
  BY AgreedFrame DEF seenBy
<1> QED
  BY <1>1, <1>6, <1>7, <1>9, <1>10, <1>11, Resting, ByTransfer

\* The file at a download's path, and what it is pinned to.
LEMMA PinnedIs ==
    ASSUME FilesInv, NEW k \in Downloads, items[k].there
    PROVE  /\ items[k].d \in Dirs /\ items[k].pinned \in Files /\ PinnedTo(k, items[k].pinned)
           /\ items[k].pinned.stamp \in Nat /\ items[k].pinned.bytes \in Seq(Bytes) /\ k \in drawn
           /\ Same(k) => /\ tree[items[k].d].file \in Existing
                         /\ tree[items[k].d].file.bytes = items[k].pinned.bytes
                         /\ ~Rewritten(items[k].pinned)
<1> USE Parts
<1>1. items[k].d \in Dirs /\ items[k].pinned \in Files
  BY ItemIs DEF DownloadItems
<1>2. PinnedTo(k, items[k].pinned) /\ k \in drawn
  BY DEF DownloadTells
<1>3. ASSUME Same(k)
      PROVE  /\ tree[items[k].d].file \in Existing
             /\ tree[items[k].d].file.bytes = items[k].pinned.bytes /\ ~Rewritten(items[k].pinned)
  <2>1. tree[items[k].d].file \in Existing
    BY <1>1, <1>3, ExistingIs DEF Same
  <2> QED
    BY <1>2, <1>3, <2>1 DEF Same, PinnedTo, Agrees, Rewritten
<1> QED
  BY <1>1, <1>2, <1>3 DEF Files

LEMMA OpenDownloadStep ==
    ASSUME FilesInv, NEW k \in Downloads, NEW offset \in Nat, OpenDownload(k, offset)
    PROVE  FilesInv'
<1> USE Parts DEF OpenDownload
<1>1. transfer = Idle /\ server = "up"
  BY ReadyIs
<1>2. PICK f : f = tree[items[k].d].file
  OBVIOUS
<1>3. f \in Files /\ f.bytes = items[k].pinned.bytes /\ f.stamp = items[k].pinned.stamp
  BY <1>2, PinnedIs, ExistingTyped DEF Same
<1>4. transfer' = [pc |-> "read", x |-> k, offset |-> offset, file |-> f]
  BY <1>2
<1>5. TransferOK'
  BY ONLY <1>3, <1>4, k \in Downloads, offset \in Nat DEF TransferOK
<1>6. /\ transfer'.pc = "read" /\ transfer'.x = k /\ transfer'.file = f
  BY ONLY <1>4
<1>7. BeginTells' /\ CommitTells'
  BY <1>6 DEF BeginTells, CommitTells
<1>8. ReadTells'
  BY <1>3, <1>6 DEF ReadTells
<1> QED
  BY <1>1, <1>5, <1>7, <1>8, Quiet DEF ItemsOK

LEMMA ReadDownloadStep == ASSUME FilesInv, ReadDownload PROVE FilesInv'
<1> USE Parts
<1>1. transfer.pc = "read" /\ server = "up" /\ UNCHANGED <<disk, items, saved, server, work, aged, drawn, left, seenBy>>
  BY RequestIs DEF ReadDownload
<1>2. PICK k, offset, opened : k = transfer.x /\ offset = transfer.offset /\ opened = transfer.file
  OBVIOUS
<1>3. k \in Downloads /\ offset \in Nat /\ opened \in Files /\ items[k].there
      /\ opened.bytes = items[k].pinned.bytes /\ opened.stamp = items[k].pinned.stamp
  BY <1>1, <1>2, TransferIs DEF ReadTells
<1>4. PICK bytes \in {opened.bytes} \cup {b \in {tree[items[k].d].file.bytes} : Rewritten(opened)} :
        /\ offset < Len(bytes)
        /\ transfer' = [pc |-> "compare", x |-> k, chunk |-> <<offset, bytes[offset + 1]>>]
  BY <1>2 DEF ReadDownload
<1>5. bytes \in Seq(Bytes)
  BY <1>3, <1>4, PinnedIs, DirIs DEF Files
<1>6. PICK chunk : chunk = <<offset, bytes[offset + 1]>>
  OBVIOUS
<1>7. chunk \in Chunks /\ Has(bytes, chunk)
  <2>1. offset + 1 \in 1..Len(bytes) /\ Len(bytes) \in Nat
    BY <1>3, <1>4, <1>5, LenProperties
  <2>2. bytes[offset + 1] \in Bytes
    BY <1>5, <2>1, ElementOfSeq
  <2> QED
    BY <1>3, <1>4, <1>6, <2>2 DEF Chunks, Has
<1>8. transfer' = [pc |-> "compare", x |-> k, chunk |-> chunk]
  BY <1>4, <1>6
<1>9. TransferOK'
  BY ONLY <1>3, <1>7, <1>8 DEF TransferOK
<1>10. transfer'.pc = "compare" /\ transfer'.x = k /\ transfer'.chunk = chunk
  BY ONLY <1>8
<1>11. BeginTells' /\ CommitTells'
  BY <1>10 DEF BeginTells, CommitTells
<1>12. PICK p : p = items[k].pinned
  OBVIOUS
<1>13. Rewritten(p) \/ Has(p.bytes, chunk)
  BY <1>3, <1>4, <1>7, <1>12 DEF Rewritten
<1>14. Rewritten(p)' <=> Rewritten(p)
  BY <1>1 DEF Rewritten, Existing, InBin, Listed, disk
<1>15. ReadTells'
  BY <1>1, <1>3, <1>10, <1>12, <1>13, <1>14 DEF ReadTells
<1> QED
  BY <1>1, <1>9, <1>11, <1>15, Quiet DEF ItemsOK

LEMMA DeliverStep == ASSUME FilesInv, Deliver PROVE FilesInv'
<1> USE Parts
<1>1. /\ transfer.pc = "compare" /\ server = "up" /\ transfer' = Idle
      /\ UNCHANGED <<disk, items, saved, server, work, aged, drawn, left, acked, placed>>
  BY RequestIs DEF Deliver, Finished
<1>2. PICK k, chunk : k = transfer.x /\ chunk = transfer.chunk
  OBVIOUS
<1>3. k \in Downloads /\ chunk \in Chunks /\ items[k].there
  BY <1>1, <1>2, TransferIs DEF ReadTells
<1>4. CASE UNCHANGED got
  BY <1>1, <1>4, Resting, Quiet DEF ItemsOK, seenBy
<1>5. ASSUME Same(k), got' = [got EXCEPT ![k] = @ \cup {chunk}]
      PROVE  FilesInv'
  <2>1. PICK p : p = items[k].pinned
    OBVIOUS
  <2>2. p \in Files /\ PinnedTo(k, p) /\ ~Rewritten(p) /\ k \in drawn
    BY <1>3, <1>5, <2>1, PinnedIs
  <2>3. Has(p.bytes, chunk)
    BY <1>1, <1>2, <2>1, <2>2 DEF ReadTells
  <2>4. /\ got'[k] = got[k] \cup {chunk} /\ got' \in [Downloads -> SUBSET Chunks]
        /\ \A l \in Downloads \ {k} : got'[l] = got[l]
    BY <1>3, <1>5 DEF ItemsOK
  <2>5. FilesKeep /\ \A u \in Uploads : StagingsKeep(u)
    BY <1>1, DiskStays DEF DiskOK
  <2>6. ASSUME NEW u \in Uploads PROVE UploadTells(u)'
    BY <1>1, <2>5, UploadFrame
  <2>7. ASSUME NEW l \in Downloads PROVE DownloadTells(l)'
    <3>1. CASE l = k
      <4>1. Agrees(p)'
        BY <2>2, <2>5, StillAgrees DEF PinnedTo, Files
      <4>2. PinnedTo(k, p)'
        BY <2>2, <2>3, <2>4, <4>1 DEF PinnedTo
      <4>3. \A c1, c2 \in got'[k] : c1[1] = c2[1] => c1 = c2
        <5> SUFFICES ASSUME NEW c1 \in got'[k], NEW c2 \in got'[k], c1[1] = c2[1] PROVE c1 = c2
          OBVIOUS
        <5>1. c1 \in Chunks /\ c2 \in Chunks /\ Has(p.bytes, c1) /\ Has(p.bytes, c2)
          BY <1>3, <2>4, <4>2 DEF PinnedTo
        <5>2. c1[2] = c2[2]
          BY <5>1 DEF Has
        <5> QED
          BY <5>1, <5>2 DEF Chunks
      <4>4. items'[k].there /\ items'[k].pinned = p /\ saved'[k] = saved[k] /\ k \in drawn'
        BY <1>1, <1>3, <2>1, <2>2
      <4>5. saved[k].there => saved[k].pinned = p
        BY <1>3, <2>1 DEF DownloadTells
      <4> QED
        BY <3>1, <4>2, <4>3, <4>4, <4>5 DEF DownloadTells
    <3>2. CASE l # k
      BY <1>1, <2>4, <2>5, <3>2, DownloadFrame
    <3> QED
      BY <3>1, <3>2
  <2>8. ItemsOK'
    BY <1>1, <2>4 DEF ItemsOK
  <2>9. CommitIsAsAgreed'
    BY <1>1, AgreedFrame
  <2> QED
    BY <1>1, <2>6, <2>7, <2>8, <2>9, Resting, ByTransfer
<1> QED
  BY <1>2, <1>4, <1>5 DEF Deliver

-----------------------------------------------------------------------------
(* Requests of the transfers that change the staging or the target. *)

\* A directory as it is, but for the staging of one upload, and perhaps the file.
SameBut(r, d, u) == \A v \in Uploads \ {u} : r.staging[v] = tree[d].staging[v]

\* The staging of one directory changed, and no file.
LEMMA StagingPut ==
    ASSUME FilesInv, NEW d \in Dirs, NEW u \in Uploads, NEW r \in Directories,
           tree' = [tree EXCEPT ![d] = r], r.file = tree[d].file, SameBut(r, d, u),
           UNCHANGED <<recovery, bin, clock, server, work, aged, left>>
    PROVE  /\ DiskOK' /\ FilesKeep /\ StampsHold' /\ WorkTells' /\ WorkOK'
           /\ tree'[d] = r
           /\ \A e \in Dirs \ {d} : tree'[e] = tree[e]
           /\ \A v \in Uploads \ {u} : StagingsKeep(v) /\ Held(v)' = Held(v)
<1> USE Parts
<1>1. tree' \in [Dirs -> Directories] /\ tree'[d] = r /\ \A e \in Dirs \ {d} : tree'[e] = tree[e]
  BY TreePut
<1>2. DiskOK'
  BY <1>1 DEF DiskOK
<1>3. FilesKeep /\ StampsHold'
  BY <1>1, FilesStay, StampsStay
<1>4. OnlyEdits
  BY <1>1 DEF OnlyEdits
<1>5. WorkTells' /\ WorkOK'
  BY <1>2, <1>4, WorkFrame DEF WorkOK
<1>6. ASSUME NEW v \in Uploads \ {u} PROVE StagingsKeep(v) /\ Held(v)' = Held(v)
  <2>1. \A e \in Dirs : tree'[e].staging[v] = tree[e].staging[v]
    BY <1>1 DEF SameBut
  <2> QED
    BY <2>1, StagingsStay
<1> QED
  BY <1>1, <1>2, <1>3, <1>5, <1>6

\* The staging of an upload that has no other.
LEMMA OnlyStaging ==
    ASSUME NEW d \in Dirs, NEW u \in Uploads, NEW b,
           tree'[d].staging[u].there, tree'[d].staging[u].bytes = b,
           \A e \in Dirs \ {d} : ~tree'[e].staging[u].there, \A o \in Bins : ~StagedIn(u, o)'
    PROVE  Alone(u)' /\ Held(u)' = {b}
<1>1. \A e \in Dirs : tree'[e].staging[u].there => e = d
  OBVIOUS
<1>2. Alone(u)'
  BY <1>1 DEF Alone
<1>3. \A c : c \in Held(u)' <=> c = b
  BY <1>1 DEF Held
<1> QED
  BY <1>2, <1>3

LEMMA BesideIs ==
    ASSUME DiskOK, NEW d \in Dirs, NEW f \in Files, NEW u \in Uploads, NEW s \in Stagings
    PROVE  /\ Beside(d, f, u, s) \in Directories /\ Beside(d, f, u, s).file = f
           /\ Beside(d, f, u, s).staging[u] = s
           /\ SameBut(Beside(d, f, u, s), d, u)
<1>1. tree[d].staging \in [Uploads -> Stagings]
  BY DirIs
<1>2. PICK g : g = [tree[d].staging EXCEPT ![u] = s]
  OBVIOUS
<1>3. g \in [Uploads -> Stagings] /\ g[u] = s /\ \A v \in Uploads \ {u} : g[v] = tree[d].staging[v]
  BY <1>1, <1>2
<1>4. Beside(d, f, u, s) = [there |-> TRUE, file |-> f, staging |-> g]
  BY <1>2 DEF Beside
<1> QED
  BY <1>3, <1>4 DEF Directories, SameBut

LEMMA CreateStagingStep == ASSUME FilesInv, CreateStaging PROVE FilesInv'
<1> USE Parts
<1>1. /\ transfer.pc = "create" /\ server = "up"
      /\ UNCHANGED <<recovery, bin, clock, items, saved, server, work, aged, drawn, left, seenBy>>
  BY RequestIs DEF CreateStaging
<1>2. PICK x, item : x = transfer.x /\ item = transfer.item
  OBVIOUS
<1>3. x \in Uploads /\ item \in UploadItems /\ x \in drawn /\ Untouched(x) /\ item.offset = 0 /\ Held(x) = {}
  BY <1>1, <1>2, TransferIs DEF BeginTells
<1>4. PICK d \in Dirs : d = item.d
  BY <1>3 DEF UploadItems
<1>5. /\ \A e \in Dirs : ~tree[e].staging[x].there
      /\ \A o \in Bins : ~StagedIn(x, o)
  BY <1>3, HeldIs
<1>6. PICK s : s = [there |-> TRUE, bytes |-> <<>>]
  OBVIOUS
<1>7. s \in Stagings /\ s.there /\ s.bytes = <<>>
  BY <1>6, EmptySeq DEF Stagings
<1>8. PICK f, r : f = tree[d].file /\ r = Beside(d, f, x, s)
  OBVIOUS
<1>9. f \in Files
  BY <1>8, DirIs
<1>10. /\ r \in Directories /\ r.file = tree[d].file /\ r.staging[x] = s /\ SameBut(r, d, x)
  BY <1>3, <1>7, <1>8, <1>9, BesideIs
<1>11. tree' = [tree EXCEPT ![d] = r]
  BY <1>2, <1>4, <1>6, <1>8 DEF CreateStaging, DiskOK
<1>12. /\ DiskOK' /\ FilesKeep /\ StampsHold' /\ WorkTells' /\ WorkOK'
       /\ \A v \in Uploads \ {x} : StagingsKeep(v) /\ Held(v)' = Held(v)
       /\ Alone(x)' /\ Held(x)' = {<<>>}
  <2>1. UNCHANGED <<recovery, bin, clock, server, work, aged, left>>
    BY ONLY <1>1
  <2>2. /\ DiskOK' /\ FilesKeep /\ StampsHold' /\ WorkTells' /\ WorkOK'
        /\ tree'[d] = r
        /\ \A e \in Dirs \ {d} : tree'[e] = tree[e]
        /\ \A v \in Uploads \ {x} : StagingsKeep(v) /\ Held(v)' = Held(v)
    BY ONLY <1>3, <1>10, <1>11, <2>1, FilesInv, d \in Dirs, StagingPut
  <2>3. /\ \A e \in Dirs \ {d} : ~tree'[e].staging[x].there
        /\ \A o \in Bins : ~StagedIn(x, o)'
    BY <1>1, <1>5, <2>2 DEF StagedIn, Listed
  <2> QED
    BY <1>3, <1>7, <1>10, <2>2, <2>3, OnlyStaging
<1>13. transfer' = [transfer EXCEPT !.pc = "record"] /\ transfer \in [pc : {"create", "record"}, x : Uploads, item : UploadItems]
  BY <1>1 DEF CreateStaging, TransferOK, Idle
<1>14. TransferOK' /\ transfer'.pc = "record" /\ transfer'.x = x /\ transfer'.item = item
  <2>1. transfer' \in [pc : {"create", "record"}, x : Uploads, item : UploadItems]
        /\ transfer'.pc = "record" /\ transfer'.x = x /\ transfer'.item = item
    BY ONLY <1>2, <1>13
  <2> QED
    BY ONLY <2>1 DEF TransferOK
<1>15. BeginTells'
  <2>1. Untouched(x)'
    BY <1>1, <1>3 DEF Untouched, seenBy
  <2>2. \A bytes \in Held(x)' : Len(bytes) = 0
    BY <1>12, EmptySeq
  <2> QED
    BY <1>1, <1>3, <1>14, <2>1, <2>2 DEF BeginTells
<1>16. CommitTells' /\ ReadTells'
  BY <1>14 DEF CommitTells, ReadTells
<1>17. ASSUME NEW u \in Uploads PROVE UploadTells(u)'
  <2>1. CASE u = x
    BY <1>1, <1>3, <1>12, <2>1 DEF UploadTells, Untouched, seenBy
  <2>2. CASE u # x
    BY <1>1, <1>12, <2>2, UploadFrame DEF seenBy
  <2> QED
    BY <2>1, <2>2
<1>18. ASSUME NEW k \in Downloads PROVE DownloadTells(k)'
  BY <1>1, <1>12, DownloadFrame DEF seenBy
<1>19. ItemsOK' /\ CommitIsAsAgreed'
  BY <1>1, AgreedFrame DEF ItemsOK, seenBy
<1> QED
  BY <1>1, <1>12, <1>14, <1>15, <1>16, <1>17, <1>18, <1>19 DEF FilesInv, FilesTypeOK, TransferTells

\* A sequence that grew has what it had, and its last element.
LEMMA Grown ==
    ASSUME NEW b \in Seq(Bytes), NEW byte \in Bytes
    PROVE  /\ Append(b, byte) \in Seq(Bytes) /\ Len(Append(b, byte)) = Len(b) + 1
           /\ Has(Append(b, byte), <<Len(b), byte>>)
           /\ \A chunk \in Chunks : Has(b, chunk) => Has(Append(b, byte), chunk)
<1>1. Append(b, byte) \in Seq(Bytes) /\ Len(Append(b, byte)) = Len(b) + 1 /\ Len(b) \in Nat
  BY AppendProperties, LenProperties
<1>2. Append(b, byte)[Len(b) + 1] = byte
  BY AppendProperties
<1>3. ASSUME NEW chunk \in Chunks, Has(b, chunk) PROVE Has(Append(b, byte), chunk)
  <2>1. chunk[1] + 1 \in 1..Len(b) /\ chunk[1] \in Nat
    BY <1>1, <1>3 DEF Has, Chunks
  <2>2. Append(b, byte)[chunk[1] + 1] = b[chunk[1] + 1]
    BY <2>1, AppendProperties
  <2> QED
    BY <1>1, <1>3, <2>1, <2>2 DEF Has
<1>4. Has(Append(b, byte), <<Len(b), byte>>)
  BY <1>1, <1>2 DEF Has
<1> QED
  BY <1>1, <1>3, <1>4

LEMMA Counted ==
    ASSUME NEW item \in UploadItems, NEW n \in Nat
    PROVE  LET i == [item EXCEPT !.offset = n]
           IN  i \in UploadItems /\ i.there /\ i.offset = n
  BY DEF UploadItems

LEMMA AppendStep ==
    ASSUME FilesInv, NEW u \in Uploads, NEW offset \in Nat, NEW byte \in Bytes, Chunk(u, offset, byte),
           ~(offset < items[u].offset)
    PROVE  FilesInv'
<1> USE Parts
<1>1. transfer = Idle /\ server = "up" /\ items[u].there /\ Staged(u).there
  BY ReadyIs DEF Chunk
<1>2. items[u] \in UploadItems
  BY <1>1, ItemIs
<1>3. PICK d \in Dirs, item \in UploadItems : d = items[u].d /\ item = items[u]
  BY <1>2 DEF UploadItems
<1>4. PICK b : b = tree[d].staging[u].bytes
  OBVIOUS
<1>5. Held(u) = {b} /\ Len(b) = items[u].offset
  BY <1>1, <1>3, <1>4, HeldOne DEF Staged, UploadTells
<1>6. /\ \A e \in Dirs \ {d} : ~tree[e].staging[u].there
      /\ \A o \in Bins : ~StagedIn(u, o)
  BY <1>1, <1>3 DEF Alone, Staged
<1>7. /\ offset = items[u].offset
      /\ tree' = [tree EXCEPT ![d] = Beside(d, tree[d].file, u, [there |-> TRUE, bytes |-> Append(b, byte)])]
      /\ items' = [items EXCEPT ![u].offset = @ + 1]
      /\ transfer' = [pc |-> "appended", x |-> u, chunk |-> <<offset, byte>>]
      /\ UNCHANGED <<recovery, bin, clock, saved, server, work, aged, drawn, left, seenBy>>
  BY <1>3, <1>4 DEF Chunk, Staged, DiskOK, seenBy
<1>8. PICK n, s, chunk : n = Append(b, byte) /\ s = [there |-> TRUE, bytes |-> n] /\ chunk = <<offset, byte>>
  OBVIOUS
<1>9. /\ b \in Seq(Bytes) /\ n \in Seq(Bytes) /\ Len(n) = offset + 1 /\ Has(n, chunk) /\ chunk \in Chunks
      /\ \A c \in Chunks : Has(b, c) => Has(n, c)
  BY <1>4, <1>5, <1>7, <1>8, DirIs, Grown DEF Chunks
<1>10. s \in Stagings /\ s.there /\ s.bytes = n
  BY ONLY <1>8, <1>9 DEF Stagings
<1>11. PICK f, r : f = tree[d].file /\ r = Beside(d, f, u, s)
  OBVIOUS
<1>12. /\ r \in Directories /\ r.file = tree[d].file /\ r.staging[u] = s /\ SameBut(r, d, u)
  <2>1. f \in Files
    BY <1>11, DirIs
  <2> QED
    BY <1>10, <1>11, <2>1, BesideIs
<1>13. tree' = [tree EXCEPT ![d] = r]
  BY <1>3, <1>7, <1>8, <1>11 DEF DiskOK
<1>14. /\ DiskOK' /\ FilesKeep /\ StampsHold' /\ WorkTells' /\ WorkOK'
       /\ \A v \in Uploads \ {u} : StagingsKeep(v) /\ Held(v)' = Held(v)
       /\ Alone(u)' /\ Held(u)' = {n}
  <2>1. UNCHANGED <<recovery, bin, clock, server, work, aged, left>>
    BY ONLY <1>7
  <2>2. /\ DiskOK' /\ FilesKeep /\ StampsHold' /\ WorkTells' /\ WorkOK'
        /\ tree'[d] = r
        /\ \A e \in Dirs \ {d} : tree'[e] = tree[e]
        /\ \A v \in Uploads \ {u} : StagingsKeep(v) /\ Held(v)' = Held(v)
    BY ONLY <1>12, <1>13, <2>1, FilesInv, u \in Uploads, d \in Dirs, StagingPut
  <2>3. /\ \A e \in Dirs \ {d} : ~tree'[e].staging[u].there
        /\ \A o \in Bins : ~StagedIn(u, o)'
    BY <1>6, <1>7, <2>2 DEF StagedIn, Listed
  <2> QED
    BY <1>10, <1>12, <2>2, <2>3, OnlyStaging
<1>15. TransferOK'
  BY ONLY <1>7, <1>8, <1>9, u \in Uploads DEF TransferOK
<1>16. transfer'.pc = "appended" /\ transfer'.x = u /\ transfer'.chunk = chunk
  BY ONLY <1>7, <1>8
<1>17. PICK i : i = [item EXCEPT !.offset = offset + 1]
  OBVIOUS
<1>18. i \in UploadItems /\ i.there /\ i.offset = offset + 1
  <2>1. item \in UploadItems
    BY <1>2, <1>3
  <2> QED
    BY ONLY <1>17, <2>1, offset \in Nat, Counted
<1>19. items' = [items EXCEPT ![u] = i]
  BY <1>3, <1>7, <1>17
<1>20. items'[u] = i /\ \A y \in Transfers \ {u} : items'[y] = items[y]
  BY <1>19 DEF ItemsOK, Transfers
<1>21. ItemsOK'
  <2>1. items' \in [Transfers -> {NoItem} \cup UploadItems \cup DownloadItems]
    BY <1>18, <1>19 DEF ItemsOK, Transfers
  <2>2. ASSUME NEW v \in Uploads PROVE {items'[v], saved'[v]} \subseteq {NoItem} \cup UploadItems
    BY ONLY <1>7, <1>18, <1>20, v \in Uploads, ItemsOK DEF ItemsOK, Transfers
  <2>3. ASSUME NEW k \in Downloads PROVE {items'[k], saved'[k]} \subseteq {NoItem} \cup DownloadItems
    BY <1>7, <1>20 DEF ItemsOK, Transfers
  <2> QED
    BY <1>7, <2>1, <2>2, <2>3 DEF ItemsOK, seenBy
<1>22. BeginTells'
  BY <1>9, <1>14, <1>16, <1>18, <1>20 DEF BeginTells
<1>23. CommitTells' /\ ReadTells'
  BY <1>16 DEF CommitTells, ReadTells
<1>24. ASSUME NEW v \in Uploads PROVE UploadTells(v)'
  <2>1. CASE v = u
    <3>1. u \in drawn /\ ~placed[u].there
      BY <1>1, <1>5 DEF UploadTells, Untouched
    <3>2. \A c \in acked[u] : c \in Chunks /\ Has(b, c)
      BY <1>5 DEF UploadTells, ItemsOK
    <3>3. \A c \in acked'[u] : Has(n, c)
      BY <1>7, <1>9, <3>2 DEF seenBy
    <3>4. u \in drawn' /\ ~placed'[u].there
      BY <1>7, <3>1 DEF seenBy
    <3> QED
      BY <1>9, <1>14, <1>18, <1>20, <2>1, <3>3, <3>4 DEF UploadTells
  <2>2. CASE v # u
    BY <1>7, <1>14, <1>20, <2>2, UploadFrame DEF seenBy, Transfers
  <2> QED
    BY <2>1, <2>2
<1>25. ASSUME NEW k \in Downloads PROVE DownloadTells(k)'
  BY <1>7, <1>14, <1>20, DownloadFrame DEF seenBy, Transfers
<1>26. CommitIsAsAgreed'
  BY <1>7, AgreedFrame DEF seenBy
<1> QED
  BY <1>1, <1>7, <1>14, <1>15, <1>21, <1>22, <1>23, <1>24, <1>25, <1>26 DEF FilesInv, FilesTypeOK, TransferTells

\* A commit that is about to copy or to replace its target.
LEMMA CommitIs ==
    ASSUME FilesInv, transfer.pc \in {"keep", "replace"}
    PROVE  /\ transfer.x \in Uploads /\ transfer.since \in Nat /\ transfer.since <= clock
           /\ items[transfer.x].there /\ items[transfer.x] \in UploadItems
           /\ items[transfer.x].d \in Dirs /\ items[transfer.x].offset = items[transfer.x].size
           /\ transfer \in [pc : {"keep", "replace"}, x : Uploads, since : Nat] /\ work = Idle
<1> USE Parts
<1>1. transfer.x \in Uploads /\ transfer.since \in Nat
  BY TransferIs
<1>2. /\ items[transfer.x].there /\ items[transfer.x].offset = items[transfer.x].size
      /\ transfer.since <= clock /\ work = Idle
  BY DEF CommitTells
<1>3. items[transfer.x] \in UploadItems
  BY <1>1, <1>2, ItemIs
<1>4. transfer \in [pc : {"keep", "replace"}, x : Uploads, since : Nat]
  BY DEF TransferOK, Idle
<1> QED
  BY <1>1, <1>2, <1>3, <1>4 DEF UploadItems

LEMMA KeepTargetStep == ASSUME FilesInv, KeepTarget PROVE FilesInv'
<1> USE Parts
<1>1. /\ transfer.pc = "keep" /\ server = "up"
      /\ UNCHANGED <<tree, bin, clock, items, saved, server, work, aged, drawn, left, seenBy>>
  BY RequestIs DEF KeepTarget
<1>2. PICK x, since, d : x = transfer.x /\ since = transfer.since /\ d = items[x].d
  OBVIOUS
<1>3. /\ x \in Uploads /\ since \in Nat /\ since <= clock /\ items[x].there /\ d \in Dirs
      /\ items[x].offset = items[x].size /\ work = Idle
  BY <1>1, <1>2, CommitIs
<1>4. recovery' \in [Dirs -> Files] /\ Copied(d, since)'
  BY <1>1, <1>2, <1>3, KeptIs DEF KeepTarget
<1>5. DiskOK' /\ WorkOK' /\ WorkTells'
  BY <1>1, <1>3, <1>4 DEF DiskOK, WorkOK, WorkTells, Idle
<1>6. FilesKeep /\ StampsHold' /\ \A u \in Uploads : StagingsKeep(u)
  BY <1>1, FilesStay, StampsStay, StagingsStay
<1>7. transfer' = [transfer EXCEPT !.pc = "replace"]
  BY DEF KeepTarget
<1>8. /\ transfer' \in [pc : {"keep", "replace"}, x : Uploads, since : Nat]
      /\ transfer'.pc = "replace" /\ transfer'.x = x /\ transfer'.since = since
  BY <1>1, <1>2, <1>7, CommitIs
<1>9. TransferOK'
  BY ONLY <1>8 DEF TransferOK
<1>10. BeginTells' /\ ReadTells'
  BY <1>8 DEF BeginTells, ReadTells
<1>11. CommitTells'
  <2>1. Staged(x).there =>
           Unchanged(x, tree[items[x].d].file) \/ EditedSince(tree[items[x].d].file, since)
    BY <1>1, <1>2 DEF CommitTells
  <2> QED
    BY <1>1, <1>2, <1>3, <1>4, <1>8, <2>1 DEF CommitTells, Staged, Unchanged
<1>12. ASSUME NEW u \in Uploads PROVE UploadTells(u)'
  BY <1>1, <1>6, UploadFrame DEF seenBy
<1>13. ASSUME NEW k \in Downloads PROVE DownloadTells(k)'
  BY <1>1, <1>6, DownloadFrame DEF seenBy
<1>14. ItemsOK' /\ CommitIsAsAgreed'
  BY <1>1, AgreedFrame DEF ItemsOK, seenBy
<1> QED
  BY <1>1, <1>5, <1>6, <1>9, <1>10, <1>11, <1>12, <1>13, <1>14 DEF FilesInv, FilesTypeOK, TransferTells

LEMMA NotCommitted ==
    ASSUME FilesInv, transfer.pc = "replace", Finished,
           UNCHANGED <<disk, items, saved, server, work, aged, drawn, left, seenBy>>, server = "up"
    PROVE  FilesInv'
  BY Parts, Resting, Quiet DEF Finished, ItemsOK

LEMMA ReplaceTargetStep == ASSUME FilesInv, ReplaceTarget PROVE FilesInv'
<1> USE Parts
<1>1. /\ transfer.pc = "replace" /\ server = "up"
      /\ UNCHANGED <<recovery, bin, saved, server, work, aged, drawn, left, acked, got>>
  BY RequestIs DEF ReplaceTarget
<1>2. PICK u, since, d, item : u = transfer.x /\ since = transfer.since /\ d = items[u].d /\ item = items[u]
  OBVIOUS
<1>3. /\ u \in Uploads /\ since \in Nat /\ since <= clock /\ item.there /\ item \in UploadItems /\ d \in Dirs
      /\ item.offset = item.size /\ work = Idle
  BY <1>1, <1>2, CommitIs
<1>4. CASE ~Staged(u).there
  BY <1>1, <1>2, <1>4, NotCommitted DEF ReplaceTarget, disk, seenBy
<1>5. CASE Staged(u).there
  <2>1. PICK b, over, f, r : /\ b = tree[d].staging[u].bytes /\ over = tree[d].file
                             /\ f = New(b, "host") /\ r = Beside(d, f, u, NoStaging)
    OBVIOUS
  <2>2. /\ b \in Seq(Bytes) /\ over \in Files /\ f \in Files /\ f.stamp = clock + 1
        /\ r \in Directories /\ r.file = f /\ r.staging[u] = NoStaging /\ SameBut(r, d, u)
    <3>1. b \in Seq(Bytes) /\ over \in Files
      BY <1>3, <2>1, DirIs
    <3>2. f \in Files /\ f.stamp = clock + 1
      BY <2>1, <3>1, NewFile
    <3>3. NoStaging \in Stagings
      BY DEF Stagings
    <3> QED
      BY <1>3, <2>1, <3>1, <3>2, <3>3, BesideIs
  <2>3. PICK p : p = [there |-> TRUE, bytes |-> b, item |-> item, over |-> over, since |-> since]
    OBVIOUS
  <2>4. /\ tree' = [tree EXCEPT ![d] = r] /\ clock' = clock + 1
        /\ placed' = [placed EXCEPT ![u] = p] /\ items' = [items EXCEPT ![u] = NoItem]
        /\ transfer' = [pc |-> "save"]
    BY <1>2, <1>5, <2>1, <2>3 DEF ReplaceTarget, Staged, Saves
  <2>5. \A v \in Uploads : r.staging[v].there => r.staging[v] = tree[d].staging[v]
    BY <2>2 DEF SameBut, NoStaging
  <2>6. /\ tree' \in [Dirs -> Directories] /\ FilesKeep /\ tree'[d] = r
        /\ \A e \in Dirs \ {d} : tree'[e] = tree[e]
        /\ \A v \in Uploads : StagingsKeep(v)
    BY <1>1, <1>3, <2>2, <2>4, <2>5, Put
  <2>7. DiskOK' /\ StampsHold' /\ WorkOK' /\ WorkTells'
    BY <1>1, <1>3, <2>4, <2>6, StampsStay DEF DiskOK, WorkOK, WorkTells, Idle
  <2>8. Held(u) = {b} /\ Len(b) = item.offset
    BY <1>2, <1>3, <1>5, <2>1, HeldOne DEF Staged, UploadTells
  <2>9. Held(u)' = {}
    <3>1. \A e \in Dirs : ~tree'[e].staging[u].there
      BY <1>2, <1>3, <1>5, <2>2, <2>6 DEF Staged, Alone, NoStaging
    <3>2. \A o \in Bins : ~StagedIn(u, o)'
      BY <1>1, <1>2, <1>3, <1>5 DEF Staged, Alone, StagedIn, Listed
    <3> QED
      BY <3>1, <3>2 DEF Held
  <2>10. p \in Commits /\ p.there /\ p.bytes = b /\ p.item = item /\ p.over = over /\ p.since = since
    BY ONLY <1>3, <2>2, <2>3 DEF Commits
  <2>11. /\ items'[u] = NoItem /\ \A y \in Transfers \ {u} : items'[y] = items[y]
         /\ placed'[u] = p /\ \A v \in Uploads \ {u} : placed'[v] = placed[v]
    BY <1>3, <2>4 DEF ItemsOK, Transfers
  <2>12. ItemsOK'
    <3>1. items' \in [Transfers -> {NoItem} \cup UploadItems \cup DownloadItems]
      BY <1>3, <2>4 DEF ItemsOK, Transfers
    <3>2. placed' \in [Uploads -> {NotPlaced} \cup Commits]
      BY <1>3, <2>4, <2>10 DEF ItemsOK
    <3>3. ASSUME NEW v \in Uploads PROVE {items'[v], saved'[v]} \subseteq {NoItem} \cup UploadItems
      BY ONLY <1>1, <2>11, v \in Uploads, ItemsOK DEF ItemsOK, Transfers
    <3>4. ASSUME NEW k \in Downloads PROVE {items'[k], saved'[k]} \subseteq {NoItem} \cup DownloadItems
      BY <1>1, <1>3, <2>11 DEF ItemsOK, Transfers
    <3> QED
      BY <1>1, <3>1, <3>2, <3>3, <3>4 DEF ItemsOK
  <2>13. ASSUME NEW v \in Uploads PROVE UploadTells(v)'
    <3>1. CASE v = u
      <4>1. u \in drawn
        BY <1>2, <1>3 DEF UploadTells, Untouched
      <4>2. Alone(u)'
        BY <1>3, <2>6 DEF StagingsKeep
      <4> QED
        BY <1>1, <2>9, <2>11, <3>1, <4>1, <4>2 DEF UploadTells, NoItem
    <3>2. CASE v # u
      BY <1>1, <2>6, <2>11, <3>2, UploadFrame DEF Transfers
    <3> QED
      BY <3>1, <3>2
  <2>14. ASSUME NEW k \in Downloads PROVE DownloadTells(k)'
    BY <1>1, <1>3, <2>6, <2>11, DownloadFrame DEF Transfers
  <2>15. CommitIsAsAgreed'
    <3>1. Len(b) = item.size /\ item.size \in Nat
      BY <1>3, <2>8 DEF UploadItems
    <3>2. ASSUME NEW chunk \in acked[u] PROVE b[chunk[1] + 1] = chunk[2] /\ chunk[1] \in 0..(item.size - 1)
      <4>1. Has(b, chunk)
        BY <1>3, <2>8 DEF UploadTells
      <4>2. chunk[1] \in Nat
        BY <1>3 DEF ItemsOK, Chunks
      <4> QED
        BY <3>1, <4>1, <4>2 DEF Has
    <3>3. Version(over) = item.expected \/ (over.by = "editor" /\ over.stamp > since)
      BY <1>1, <1>2, <1>5, <2>1 DEF CommitTells, Unchanged, EditedSince
    <3>4. \A v \in Uploads \ {u} : placed'[v] = placed[v] /\ acked'[v] = acked[v]
      BY <1>1, <2>11
    <3>5. placed'[u] = p /\ acked'[u] = acked[u]
      BY <1>1, <2>11
    <3> QED
      BY <2>10, <3>1, <3>2, <3>3, <3>4, <3>5 DEF CommitIsAsAgreed
  <2> QED
    BY <1>1, <2>4, <2>7, <2>12, <2>13, <2>14, <2>15, Resting DEF FilesInv, FilesTypeOK, TransferTells
<1> QED
  BY <1>4, <1>5

\* Transfers that are dropped, with their staging.
LEMMA DiscardStep ==
    ASSUME FilesInv, NEW gone \in SUBSET Transfers, \A x \in gone : items[x].there, Discard(gone),
           transfer = Idle, server = "up"
    PROVE  FilesInv'
<1> USE Parts
<1>1. /\ tree' = Unstaged(gone \cap Uploads) /\ transfer' = [pc |-> "save"]
      /\ items' = [x \in Transfers |-> IF x \in gone THEN NoItem ELSE items[x]]
      /\ UNCHANGED <<recovery, bin, clock, saved, server, work, aged, drawn, left, seenBy>>
  BY DEF Discard, Saves
<1>2. ASSUME NEW d \in Dirs
      PROVE  /\ tree'[d] \in Directories /\ tree'[d].file = tree[d].file
             /\ \A u \in Uploads : tree'[d].staging[u] \in {tree[d].staging[u], NoStaging}
  <2>1. PICK g : g = [u \in Uploads |-> IF u \in gone \cap Uploads /\ items[u].d = d
                                        THEN NoStaging ELSE tree[d].staging[u]]
    OBVIOUS
  <2>2. g \in [Uploads -> Stagings] /\ \A u \in Uploads : g[u] \in {tree[d].staging[u], NoStaging}
    <3>1. NoStaging \in Stagings
      BY DEF Stagings
    <3> QED
      BY <2>1, <3>1, DirIs
  <2>3. tree'[d] = [tree[d] EXCEPT !.staging = g]
    BY <1>1, <2>1 DEF Unstaged
  <2>4. tree[d] \in Directories
    BY DirIs
  <2>5. PICK r \in Directories : r = tree[d]
    BY <2>4
  <2>6. [r EXCEPT !.staging = g] \in Directories /\ [r EXCEPT !.staging = g].file = r.file
        /\ [r EXCEPT !.staging = g].staging = g
    BY <2>2 DEF Directories
  <2> QED
    BY <2>2, <2>3, <2>5, <2>6
<1>3. tree' \in [Dirs -> Directories]
  BY <1>1, <1>2 DEF Unstaged
<1>4. DiskOK'
  BY <1>1, <1>3 DEF DiskOK
<1>5. FilesKeep /\ StampsHold' /\ OnlyEdits
  <2>1. \A d \in Dirs : tree'[d].file = tree[d].file
    BY <1>2
  <2>2. FilesKeep
    BY <1>1, <2>1, FilesStay
  <2>3. clock \in Nat /\ clock' = clock /\ clock <= clock
    BY <1>1, Parts
  <2>4. OnlyEdits
    BY ONLY <2>1, <2>3 DEF OnlyEdits
  <2> QED
    BY <2>2, <2>4, StampsStay
<1>6. WorkTells' /\ WorkOK'
  BY <1>1, <1>4, <1>5, WorkFrame DEF WorkOK
<1>7. ASSUME NEW u \in Uploads PROVE StagingsKeep(u)
  <2>1. NoStaging.there = FALSE
    BY DEF NoStaging
  <2>2. \A d \in Dirs : tree'[d].staging[u].there =>
           tree[d].staging[u].there /\ tree'[d].staging[u].bytes = tree[d].staging[u].bytes
    BY <1>2, <2>1
  <2> QED
    BY <1>1, <2>2, FewerStagings DEF StagedIn, Listed
<1>8. \A x \in Transfers : items'[x] \in {items[x], NoItem}
  BY <1>1
<1>9. ItemsOK'
  <2>1. items' \in [Transfers -> {NoItem} \cup UploadItems \cup DownloadItems]
    BY <1>1 DEF ItemsOK
  <2>2. ASSUME NEW v \in Uploads PROVE {items'[v], saved'[v]} \subseteq {NoItem} \cup UploadItems
    BY <1>1, <1>8 DEF ItemsOK, Transfers
  <2>3. ASSUME NEW k \in Downloads PROVE {items'[k], saved'[k]} \subseteq {NoItem} \cup DownloadItems
    BY <1>1, <1>8 DEF ItemsOK, Transfers
  <2> QED
    BY <1>1, <2>1, <2>2, <2>3 DEF ItemsOK, seenBy
<1>10. ASSUME NEW u \in Uploads PROVE UploadTells(u)'
  BY <1>1, <1>7, <1>8, UploadFrame DEF seenBy, Transfers
<1>11. ASSUME NEW k \in Downloads PROVE DownloadTells(k)'
  BY <1>1, <1>5, <1>8, DownloadFrame DEF seenBy, Transfers
<1>12. CommitIsAsAgreed'
  BY <1>1, AgreedFrame DEF seenBy
<1> QED
  BY <1>1, <1>4, <1>5, <1>6, <1>9, <1>10, <1>11, <1>12, Resting DEF FilesInv, FilesTypeOK, TransferTells

-----------------------------------------------------------------------------
(* The process ends and starts; time passes; other programs edit the root. *)

LEMMA ServerEndsStep == ASSUME FilesInv, ServerEnds PROVE FilesInv'
<1> USE Parts DEF ServerEnds
<1>1. /\ server' = "down" /\ transfer' = Idle /\ work' = Idle
      /\ \A x \in Transfers : items'[x] = NoItem
      /\ UNCHANGED <<disk, saved, aged, drawn, seenBy>> /\ left' \in Budget
  BY Spent
<1>2. DiskOK'
  BY <1>1 DEF DiskOK, Budget, disk
<1>3. FilesKeep /\ StampsHold' /\ \A u \in Uploads : StagingsKeep(u)
  BY <1>1, FilesStay, StampsStay, StagingsStay DEF disk
<1>4. ItemsOK'
  BY <1>1 DEF ItemsOK, seenBy, Transfers
<1>5. ASSUME NEW u \in Uploads PROVE UploadTells(u)'
  BY <1>1, <1>3, UploadFrame DEF seenBy, Transfers
<1>6. ASSUME NEW k \in Downloads PROVE DownloadTells(k)'
  BY <1>1, <1>3, DownloadFrame DEF seenBy, Transfers
<1>7. WorkOK' /\ WorkTells' /\ TransferOK' /\ BeginTells' /\ CommitTells' /\ ReadTells'
  BY <1>1 DEF Idle, WorkOK, WorkTells, TransferOK, BeginTells, CommitTells, ReadTells
<1>8. CommitIsAsAgreed'
  BY AgreedFrame DEF seenBy
<1> QED
  BY <1>1, <1>2, <1>3, <1>4, <1>5, <1>6, <1>7, <1>8 DEF FilesInv, FilesTypeOK, TransferTells

\* What is loaded has the staging it was recorded with.
LEMMA ServerStartsStep == ASSUME FilesInv, ServerStarts PROVE FilesInv'
<1> USE Parts DEF ServerStarts
<1>1. /\ server = "down" /\ transfer' = Idle /\ work' = Idle /\ transfer = Idle /\ work = Idle
      /\ server' \in {"up", "refused"}
      /\ UNCHANGED <<disk, saved, aged, drawn, left, seenBy>>
  OBVIOUS
<1>2. DiskOK'
  BY <1>1 DEF DiskOK, disk
<1>3. FilesKeep /\ StampsHold' /\ \A u \in Uploads : StagingsKeep(u) /\ Held(u)' = Held(u)
  BY <1>1, FilesStay, StampsStay, StagingsStay DEF disk
<1>4. WorkOK' /\ WorkTells' /\ TransferOK' /\ BeginTells' /\ CommitTells' /\ ReadTells'
  BY <1>1 DEF Idle, WorkOK, WorkTells, TransferOK, BeginTells, CommitTells, ReadTells
<1>5. CommitIsAsAgreed'
  BY AgreedFrame DEF seenBy
<1>6. CASE UNCHANGED items
  <2>1. ItemsOK'
    BY <1>1, <1>6 DEF ItemsOK, seenBy
  <2>2. ASSUME NEW u \in Uploads PROVE UploadTells(u)'
    BY <1>1, <1>3, <1>6, UploadFrame DEF seenBy
  <2>3. ASSUME NEW k \in Downloads PROVE DownloadTells(k)'
    BY <1>1, <1>3, <1>6, DownloadFrame DEF seenBy
  <2> QED
    BY <1>1, <1>2, <1>3, <1>4, <1>5, <2>1, <2>2, <2>3 DEF FilesInv, FilesTypeOK, TransferTells
<1>7. CASE Loadable /\ items' = saved
  <2>1. ItemsOK'
    BY <1>1, <1>7 DEF ItemsOK, seenBy
  <2>2. ASSUME NEW u \in Uploads PROVE UploadTells(u)'
    <3>1. CASE saved[u].there
      <4>1. PICK d, b : /\ d \in Dirs /\ b = tree[d].staging[u].bytes /\ tree[d].staging[u].there
                        /\ Len(b) = saved[u].offset
        <5>1. saved[u].d \in Dirs
          BY <3>1, ItemIs DEF UploadItems
        <5> QED
          BY <1>7, <3>1, <5>1 DEF Loadable
      <4>2. Held(u) = {b}
        BY <4>1, HeldOne
      <4>3. u \in drawn /\ ~placed[u].there
        BY <3>1, <4>2 DEF UploadTells, Untouched
      <4>4. \A chunk \in acked[u] : Has(b, chunk)
        BY <4>2 DEF UploadTells
      <4>5. Held(u)' = {b} /\ Alone(u)' /\ items'[u].offset = Len(b)
        BY <1>3, <1>7, <4>1, <4>2 DEF StagingsKeep
      <4> QED
        BY <1>1, <4>3, <4>4, <4>5 DEF UploadTells, seenBy
    <3>2. CASE ~saved[u].there
      <4>1. ~items'[u].there
        BY <1>7, <3>2
      <4>2. \A bytes \in Held(u)' : \A chunk \in acked'[u] : Has(bytes, chunk)
        BY <1>1, <1>3 DEF UploadTells, seenBy
      <4>3. u \notin drawn' => Untouched(u)' /\ Held(u)' = {}
        BY <1>1, <1>3, <1>7, <3>2 DEF UploadTells, Untouched, seenBy
      <4>4. placed'[u].there => Held(u)' = {}
        BY <1>1, <1>3 DEF UploadTells, seenBy
      <4> QED
        BY <1>3, <4>1, <4>2, <4>3, <4>4 DEF UploadTells, StagingsKeep
    <3> QED
      BY <3>1, <3>2
  <2>3. ASSUME NEW k \in Downloads PROVE DownloadTells(k)'
    <3>1. PICK g : g = saved[k].pinned
      OBVIOUS
    <3>2. saved[k].there => PinnedTo(k, g)'
      <4>1. CASE saved[k].there
        <5>1. g \in Files /\ PinnedTo(k, g)
          BY <3>1, <4>1, ItemIs DEF DownloadItems, DownloadTells
        <5>2. Agrees(g)'
          BY <1>3, <5>1, StillAgrees DEF PinnedTo, Files
        <5> QED
          BY <1>1, <5>1, <5>2 DEF PinnedTo, seenBy
      <4> QED
        BY <4>1
    <3>3. items'[k] = saved[k] /\ saved'[k] = saved[k] /\ got'[k] = got[k] /\ drawn' = drawn
      BY <1>1, <1>7 DEF seenBy
    <3> QED
      BY <3>1, <3>2, <3>3 DEF DownloadTells
  <2> QED
    BY <1>1, <1>2, <1>3, <1>4, <1>5, <2>1, <2>2, <2>3 DEF FilesInv, FilesTypeOK, TransferTells
<1> QED
  BY <1>6, <1>7

\* A step of others, while any request is under way.
LEMMA ByOthers ==
    ASSUME FilesInv, UNCHANGED <<recovery, bin, items, saved, server, transfer, work, drawn, seenBy>>,
           aged \subseteq aged', DiskOK', FilesKeep, OnlyEdits, \A u \in Uploads : StagingsKeep(u),
           \A d \in Dirs, u \in Uploads : tree'[d].staging[u].there => tree[d].staging[u].there
    PROVE  FilesInv'
<1> USE Parts DEF seenBy
<1>1. ItemsOK' /\ TransferOK' /\ WorkOK'
  BY DEF ItemsOK, TransferOK, WorkOK
<1>2. StampsHold'
  BY StampsStay
<1>3. ASSUME NEW u \in Uploads PROVE UploadTells(u)'
  BY UploadFrame
<1>4. ASSUME NEW k \in Downloads PROVE DownloadTells(k)'
  BY DownloadFrame
<1>5. BeginTells' /\ ReadTells'
  BY BeginFrame, ReadFrame
<1>6. CommitTells'
  BY CommitFrame
<1>7. WorkTells'
  BY WorkFrame
<1>8. CommitIsAsAgreed'
  BY AgreedFrame
<1> QED
  BY <1>1, <1>2, <1>3, <1>4, <1>5, <1>6, <1>7, <1>8 DEF FilesInv, FilesTypeOK, TransferTells

LEMMA TimePassesStep == ASSUME FilesInv, NEW x \in Transfers \cup Bins, TimePasses(x) PROVE FilesInv'
<1> USE Parts DEF TimePasses
<1>1. left' \in Budget /\ aged' \subseteq Transfers \cup Bins
  BY Spent DEF DiskOK
<1>2. /\ DiskOK' /\ FilesKeep /\ OnlyEdits
      /\ \A u \in Uploads : StagingsKeep(u)
  BY <1>1, DiskStays
<1> QED
  BY <1>2, ByOthers DEF disk

\* The file of one directory written or deleted, or the directory removed.
LEMMA EditStep ==
    ASSUME FilesInv, NEW d \in Dirs, NEW r \in Directories, Edits([tree EXCEPT ![d] = r]),
           \/ r.staging = tree[d].staging /\ EditedSince(r.file, clock)
           \/ ~r.file.there /\ \A u \in Uploads : ~r.staging[u].there,
           r.file.there => r.file.stamp = clock + 1
    PROVE  FilesInv'
<1> USE Parts DEF Edits
<1>1. /\ tree' = [tree EXCEPT ![d] = r] /\ clock' = clock + 1 /\ left' \in Budget
  BY Spent
<1>2. \A u \in Uploads : r.staging[u].there => r.staging[u] = tree[d].staging[u]
  OBVIOUS
<1>3. /\ tree' \in [Dirs -> Directories] /\ FilesKeep /\ tree'[d] = r
      /\ \A e \in Dirs \ {d} : tree'[e] = tree[e]
      /\ \A u \in Uploads : StagingsKeep(u)
  BY <1>1, <1>2, Put
<1>4. DiskOK'
  BY <1>1, <1>3 DEF DiskOK, Budget
<1>5. OnlyEdits
  BY <1>1, <1>3 DEF OnlyEdits
<1>6. \A e \in Dirs, u \in Uploads : tree'[e].staging[u].there => tree[e].staging[u].there
  BY <1>2, <1>3
<1> QED
  BY <1>3, <1>4, <1>5, <1>6, ByOthers

LEMMA EditorWritesStep ==
    ASSUME FilesInv, NEW d \in Dirs, NEW bytes \in Seq(Bytes), EditorWrites(d, bytes) PROVE FilesInv'
<1> USE Parts
<1>1. PICK f, r : f = New(bytes, "editor") /\ r = [tree[d] EXCEPT !.file = f]
  OBVIOUS
<1>2. f \in Files /\ f.stamp = clock + 1 /\ f.by = "editor"
  BY <1>1, NewFile
<1>3. r \in Directories /\ r.file = f /\ r.staging = tree[d].staging
  BY <1>1, <1>2, DirIs, WithFile
<1>4. EditedSince(r.file, clock)
  BY <1>2, <1>3 DEF EditedSince
<1>5. Edits([tree EXCEPT ![d] = r])
  BY <1>1 DEF EditorWrites
<1> QED
  BY <1>2, <1>3, <1>4, <1>5, EditStep

LEMMA EditorDeletesStep == ASSUME FilesInv, NEW d \in Dirs, EditorDeletes(d) PROVE FilesInv'
<1> USE Parts
<1>1. PICK f, r : f = [New(<<>>, "editor") EXCEPT !.there = FALSE] /\ r = [tree[d] EXCEPT !.file = f]
  OBVIOUS
<1>2. f \in Files /\ f.stamp = clock + 1 /\ f.by = "editor" /\ ~f.there
  <2>1. f = [there |-> FALSE, bytes |-> <<>>, stamp |-> clock + 1, by |-> "editor"]
    BY <1>1 DEF New
  <2> QED
    BY <2>1, EmptySeq DEF Files
<1>3. r \in Directories /\ r.file = f /\ r.staging = tree[d].staging
  <2>1. tree[d] \in Directories
    BY DirIs
  <2>2. r = [tree[d] EXCEPT !.file = f]
    BY <1>1
  <2> QED
    BY ONLY <1>2, <2>1, <2>2, WithFile
<1>4. EditedSince(r.file, clock)
  BY <1>2, <1>3 DEF EditedSince
<1>5. Edits([tree EXCEPT ![d] = r])
  BY <1>1 DEF EditorDeletes
<1> QED
  BY <1>2, <1>3, <1>4, <1>5, EditStep

LEMMA EditorRemovesStep == ASSUME FilesInv, NEW d \in Dirs, EditorRemoves(d) PROVE FilesInv'
<1>1. Edits([tree EXCEPT ![d] = NoDir])
  BY DEF EditorRemoves
<1> QED
  BY <1>1, NewDirs, EditStep

-----------------------------------------------------------------------------
(* The invariant. *)

LEMMA InitInvariant == FilesInit => FilesInv
<1> SUFFICES ASSUME FilesInit PROVE FilesInv
  OBVIOUS
<1>1. PICK first \in [Dirs -> Bytes] : tree = [d \in Dirs |->
         [EmptyDir EXCEPT !.file = [there |-> TRUE, bytes |-> <<first[d]>>, stamp |-> d, by |-> "host"]]]
  BY DEF FilesInit
<1>2. Dirs \subseteq Nat /\ clock \in Nat /\ clock = Cardinality(Dirs)
      /\ \A d \in Dirs : d <= clock
  <2>1. Cardinality(Dirs) \in Nat
    BY FS_CardinalityType
  <2> QED
    BY <2>1 DEF FilesInit
<1>3. ASSUME NEW d \in Dirs
      PROVE  /\ tree[d] \in Directories /\ tree[d].file.stamp = d /\ tree[d].file.there
             /\ \A u \in Uploads : ~tree[d].staging[u].there
  <2>1. PICK f : f = [there |-> TRUE, bytes |-> <<first[d]>>, stamp |-> d, by |-> "host"]
    OBVIOUS
  <2>2. f \in Files /\ f.stamp = d /\ f.there
    BY <1>2, <2>1 DEF Files
  <2>3. PICK empty \in Directories : empty = EmptyDir
    BY NewDirs
  <2>4. tree[d] = [empty EXCEPT !.file = f]
    BY <1>1, <2>1, <2>3
  <2> QED
    BY <2>2, <2>3, <2>4, WithFile, NewDirs
<1>4. /\ recovery = [d \in Dirs |-> NoFile] /\ bin = [o \in Bins |-> NoBin]
      /\ items = [x \in Transfers |-> NoItem] /\ saved = items
      /\ server = "up" /\ transfer = Idle /\ work = Idle
      /\ aged = {} /\ drawn = {} /\ left \in Budgets
      /\ acked = [u \in Uploads |-> {}] /\ placed = [u \in Uploads |-> NotPlaced]
      /\ got = [k \in Downloads |-> {}]
  BY DEF FilesInit
<1>5. DiskOK
  <2>1. tree \in [Dirs -> Directories]
    BY <1>1, <1>3
  <2>2. recovery \in [Dirs -> Files] /\ bin \in [Bins -> Containers]
    BY <1>4, NewDirs DEF Containers
  <2> QED
    BY <1>2, <1>4, <2>1, <2>2 DEF DiskOK
<1>6. ItemsOK
  <2>1. \A x \in Transfers : items[x] = NoItem /\ saved[x] = NoItem
    BY <1>4
  <2>2. \A x \in Uploads \cup Downloads : {items[x], saved[x]} \subseteq {NoItem}
    BY <2>1 DEF Transfers
  <2>3. /\ acked \in [Uploads -> SUBSET Chunks] /\ got \in [Downloads -> SUBSET Chunks]
        /\ placed \in [Uploads -> {NotPlaced} \cup Commits] /\ drawn \subseteq Transfers
    BY <1>4
  <2>4. /\ items \in [Transfers -> {NoItem} \cup UploadItems \cup DownloadItems]
        /\ saved \in [Transfers -> {NoItem} \cup UploadItems \cup DownloadItems]
    BY <1>4
  <2> QED
    BY ONLY <2>2, <2>3, <2>4 DEF ItemsOK
<1>7. TransferOK /\ WorkOK /\ BeginTells /\ CommitTells /\ ReadTells /\ WorkTells
  BY <1>4 DEF TransferOK, WorkOK, BeginTells, CommitTells, ReadTells, WorkTells, Idle
<1>8. \A o \in Bins : ~Listed(o)
  BY <1>4 DEF Listed, NoBin
<1>9. StampsHold
  <2>1. \A f \in Existing : \E d \in Dirs : f = tree[d].file
    BY <1>8, ExistingIs DEF InBin
  <2> SUFFICES ASSUME NEW f \in Existing PROVE Agrees(f)
    BY DEF StampsHold
  <2>2. \A g \in Existing : g.stamp = f.stamp => g.bytes = f.bytes
    BY <1>3, <2>1
  <2> QED
    BY <1>2, <1>3, <2>1, <2>2 DEF Agrees
<1>10. ASSUME NEW u \in Uploads PROVE UploadTells(u)
  <2>1. Held(u) = {} /\ Alone(u)
    BY <1>3, <1>8 DEF Held, Alone, StagedIn
  <2>2. Untouched(u)
    BY <1>4 DEF Untouched, NotPlaced, NoItem, Transfers
  <2> QED
    BY <1>4, <2>1, <2>2 DEF UploadTells, Untouched
<1>11. ASSUME NEW k \in Downloads PROVE DownloadTells(k)
  BY <1>4 DEF DownloadTells, NoItem, Transfers
<1>12. CommitIsAsAgreed
  BY <1>4 DEF CommitIsAsAgreed, NotPlaced
<1> QED
  BY <1>4, <1>5, <1>6, <1>7, <1>9, <1>10, <1>11, <1>12 DEF FilesInv, FilesTypeOK, TransferTells

LEMMA TransferStep == ASSUME FilesInv, TransferNext PROVE FilesInv'
<1>1. ASSUME NEW u \in Uploads, NEW d \in Dirs, NEW size \in 0..MaxSize, BeginUpload(u, d, size)
      PROVE  FilesInv'
  BY <1>1, BeginUploadStep
<1>2. ASSUME NEW u \in Uploads, NEW offset \in 0..(MaxSize - 1), NEW byte \in Bytes, Chunk(u, offset, byte)
      PROVE  FilesInv'
  <2>1. offset \in Nat
    OBVIOUS
  <2> QED
    BY <1>2, <2>1, RepeatStep, AppendStep
<1>3. ASSUME NEW x \in Transfers, CancelTransfer(x) PROVE FilesInv'
  BY <1>3, ReadyIs, DiscardStep DEF CancelTransfer
<1>4. ASSUME ExpireTransfers PROVE FilesInv'
  BY <1>4, ReadyIs, DiscardStep DEF ExpireTransfers, Expired
<1>5. ASSUME NEW k \in Downloads, NEW offset \in 0..(MaxSize - 1), OpenDownload(k, offset) PROVE FilesInv'
  BY <1>5, OpenDownloadStep
<1> QED
  BY <1>1, <1>2, <1>3, <1>4, <1>5, CreateStagingStep, RecordStep, RecordOffsetStep, CommitStep,
     CheckTargetStep, KeepTargetStep, ReplaceTargetStep, SaveStep, BeginDownloadStep,
     ReadDownloadStep, DeliverStep
     DEF TransferNext

LEMMA WorkStep == ASSUME FilesInv, WorkNext PROVE FilesInv'
<1>1. Drafts \subseteq Seq(Bytes) /\ <<>> \in Seq(Bytes)
  BY ContentsAreSequences, EmptySeq
<1>2. ASSUME NEW d \in Dirs, NEW bytes \in Drafts, Write(d, TRUE, bytes) PROVE FilesInv'
  BY <1>1, <1>2, WriteStep
<1>3. ASSUME NEW d \in Dirs, Write(d, FALSE, <<>>) PROVE FilesInv'
  BY <1>1, <1>3, WriteStep
<1>4. ASSUME NEW kind \in {"directory", "file"}, NEW d \in Dirs, NEW o \in Bins, Trash(kind, d, o) PROVE FilesInv'
  BY <1>4, TrashBegins DEF Kinds
<1> QED
  BY <1>2, <1>3, <1>4, MkdirStep, KeepWrittenStep, PutWrittenStep, MoveBegins, MoveStep, PutPayloadStep,
     RestoreBegins, RemoveBegins, TakePayloadStep, RemovePartStep, ClearContainerStep
     DEF WorkNext

LEMMA OutsideStep == ASSUME FilesInv, OutsideNext PROVE FilesInv'
<1>1. ASSUME NEW d \in Dirs, NEW bytes \in Drafts, EditorWrites(d, bytes) PROVE FilesInv'
  BY <1>1, EditorWritesStep, ContentsAreSequences
<1> QED
  BY <1>1, ServerEndsStep, ServerStartsStep, TimePassesStep, EditorDeletesStep, EditorRemovesStep
     DEF OutsideNext

LEMMA StutterStep == ASSUME FilesInv, UNCHANGED fileVars PROVE FilesInv'
<1>1. UNCHANGED <<recovery, bin, items, saved, server, transfer, work, drawn, seenBy, disk, aged, left>>
  BY DEF fileVars, disk
<1>2. left' \in Budget /\ aged' \subseteq Transfers \cup Bins
  BY <1>1, Parts DEF DiskOK
<1> QED
  BY <1>1, <1>2, DiskStays, ByOthers DEF disk

\* Files keep their content under a stamp, the staging of an upload what was
\* acknowledged, and what a request is about to replace is in the recovery copy or
\* is another program's: for every set of directories, transfers and containers.
THEOREM FilesInvariant == FilesSpec => []FilesInv
<1>1. FilesInit => FilesInv
  BY InitInvariant
<1>2. FilesInv /\ [FilesNext]_fileVars => FilesInv'
  BY TransferStep, WorkStep, OutsideStep, StutterStep DEF FilesNext
<1> QED
  BY <1>1, <1>2, PTL DEF FilesSpec

\* Every variable of the Host's files keeps its type.
THEOREM FilesTypeCorrect == FilesSpec => []FilesTypeOK
<1>1. FilesInv => FilesTypeOK
  BY DEF FilesInv
<1> QED
  BY <1>1, FilesInvariant, PTL

\* A commit is what was agreed and acknowledged, and a download is of one version.
THEOREM TransfersWhole == FilesSpec => []TransfersAreWhole
<1>1. FilesInv => TransfersAreWhole
  <2> SUFFICES ASSUME FilesInv PROVE TransfersAreWhole
    OBVIOUS
  <2>1. CommitIsAsAgreed
    BY Parts
  <2>2. ASSUME NEW k \in Downloads, NEW c1 \in got[k], NEW c2 \in got[k]
        PROVE  /\ c1[1] = c2[1] => c1 = c2
               /\ items[k].there => items[k].pinned.bytes[c1[1] + 1] = c1[2]
    BY Parts DEF DownloadTells, PinnedTo, Has
  <2> QED
    BY <2>1, <2>2 DEF TransfersAreWhole, DownloadIsOneVersion
<1> QED
  BY <1>1, FilesInvariant, PTL

-----------------------------------------------------------------------------
(* What no step of the Host loses. *)

\* What NothingVanishes says of a step.
KeepsContents ==
    left.edits = left'.edits =>
        \A bytes \in Contents :
            /\ \A d \in Dirs :
                  LET file == tree[d].file
                  IN  \/ ~file.there \/ file.bytes # bytes
                      \/ file.by = "editor" /\ file.stamp > Since
                      \/ Somewhere(d, bytes)'
            /\ \A o \in Bins :
                  InBin(o) /\ o \notin aged /\ bin[o].payload.file.bytes = bytes =>
                      \E d \in Dirs : Somewhere(d, bytes)'

\* A content that is in the root or the trash after the step.
Stays(bytes) == \E f \in Existing' : f.bytes = bytes

\* The file at d stays, or may go.
MayGo(d) ==
    \/ EditedSince(tree[d].file, Since)
    \/ recovery'[d].there /\ recovery'[d].bytes = tree[d].file.bytes

LEMMA KeepsBut ==
    ASSUME DiskOK, \A d \in Dirs : tree[d].file.there => Stays(tree[d].file.bytes) \/ MayGo(d),
           \A o \in Bins : InBin(o) /\ o \notin aged => Stays(bin[o].payload.file.bytes)
    PROVE  KeepsContents
<1> SUFFICES ASSUME NEW bytes \in Contents
             PROVE  /\ \A d \in Dirs : \/ ~tree[d].file.there \/ tree[d].file.bytes # bytes
                                       \/ tree[d].file.by = "editor" /\ tree[d].file.stamp > Since
                                       \/ Somewhere(d, bytes)'
                    /\ \A o \in Bins : InBin(o) /\ o \notin aged /\ bin[o].payload.file.bytes = bytes =>
                          \E d \in Dirs : Somewhere(d, bytes)'
  BY DEF KeepsContents
<1>1. ASSUME NEW d \in Dirs, Stays(bytes) PROVE Somewhere(d, bytes)'
  BY <1>1 DEF Stays, Somewhere
<1>2. ASSUME NEW d \in Dirs, tree[d].file.there, tree[d].file.bytes = bytes,
             ~(tree[d].file.by = "editor" /\ tree[d].file.stamp > Since)
      PROVE  Somewhere(d, bytes)'
  <2>1. CASE Stays(bytes)
    BY <1>1, <2>1
  <2>2. CASE recovery'[d].there /\ recovery'[d].bytes = tree[d].file.bytes
    BY <1>2, <2>2 DEF Somewhere
  <2> QED
    BY <1>2, <2>1, <2>2 DEF MayGo, EditedSince
<1>3. ASSUME NEW o \in Bins, InBin(o), o \notin aged, bin[o].payload.file.bytes = bytes
      PROVE  \E d \in Dirs : Somewhere(d, bytes)'
  <2>1. bin[o].d \in Dirs
    BY <1>3, BinIs DEF InBin, Listed
  <2> QED
    BY <1>1, <1>3, <2>1
<1> QED
  BY <1>2, <1>3

\* A step that leaves every file and container in its place.
LEMMA KeepsPlaces ==
    ASSUME DiskOK, Inside, UNCHANGED bin,
           \A d \in Dirs : tree'[d].file = tree[d].file /\ (tree[d].there => tree'[d].there)
    PROVE  KeepsContents /\ Inside'
<1>1. \A f \in Existing : f \in Existing'
  BY DEF Existing, InBin, Listed
<1>2. \A d \in Dirs : tree[d].file.there => Stays(tree[d].file.bytes)
  BY <1>1, ExistingIs DEF Stays
<1>3. \A o \in Bins : InBin(o) => Stays(bin[o].payload.file.bytes)
  BY <1>1, ExistingIs DEF Stays
<1>4. Inside'
  BY DEF Inside, InBin, Listed
<1> QED
  BY <1>2, <1>3, <1>4, KeepsBut

LEMMA KeepsDisk == ASSUME DiskOK, Inside, UNCHANGED <<tree, bin>> PROVE KeepsContents /\ Inside'
  BY KeepsPlaces

\* A step that changes the file of one directory, which may go.
LEMMA KeepsPut ==
    ASSUME DiskOK, Inside, NEW d \in Dirs, UNCHANGED bin, \A e \in Dirs \ {d} : tree'[e] = tree[e],
           tree[d].file.there => MayGo(d), tree'[d].file.there => tree'[d].there
    PROVE  KeepsContents /\ Inside'
<1>1. \A e \in Dirs \ {d} : tree[e].file.there => Stays(tree[e].file.bytes)
  BY DEF Existing, Stays
<1>2. \A o \in Bins : InBin(o) => Stays(bin[o].payload.file.bytes)
  BY DEF Existing, Stays, InBin, Listed
<1>3. Inside'
  BY DEF Inside, InBin, Listed
<1> QED
  BY <1>1, <1>2, <1>3, KeepsBut

LEMMA CreateStagingKeeps == ASSUME FilesInv, Inside, CreateStaging PROVE KeepsContents /\ Inside'
<1> USE Parts
<1>1. transfer.pc = "create" /\ UNCHANGED bin
  BY RequestIs DEF CreateStaging
<1>2. PICK x, d, s : x = transfer.x /\ d = transfer.item.d /\ s = [there |-> TRUE, bytes |-> <<>>]
  OBVIOUS
<1>3. d \in Dirs
  BY <1>1, <1>2, TransferIs DEF UploadItems
<1>4. tree' = [tree EXCEPT ![d] = Beside(d, tree[d].file, x, s)]
  BY <1>2 DEF CreateStaging
<1>5. \A e \in Dirs : tree'[e].file = tree[e].file /\ (tree[e].there => tree'[e].there)
  BY <1>3, <1>4 DEF Beside, DiskOK
<1> QED
  BY <1>1, <1>5, KeepsPlaces

LEMMA ChunkKeeps ==
    ASSUME FilesInv, Inside, NEW u \in Uploads, NEW offset, NEW byte, Chunk(u, offset, byte)
    PROVE  KeepsContents /\ Inside'
<1> USE Parts
<1>1. UNCHANGED bin
  BY DEF Chunk
<1>2. PICK d, s : d \in Dirs /\ d = items[u].d /\ s = [there |-> TRUE, bytes |-> Append(Staged(u).bytes, byte)]
  <2>1. items[u].d \in Dirs
    BY ItemIs DEF Chunk, UploadItems
  <2> QED
    BY <2>1
<1>3. tree' = tree \/ tree' = [tree EXCEPT ![d] = Beside(d, tree[d].file, u, s)]
  BY <1>2 DEF Chunk
<1>4. \A e \in Dirs : tree'[e].file = tree[e].file /\ (tree[e].there => tree'[e].there)
  BY <1>2, <1>3 DEF Beside, DiskOK
<1> QED
  BY <1>1, <1>4, KeepsPlaces

LEMMA DiscardKeeps == ASSUME FilesInv, Inside, NEW gone, Discard(gone) PROVE KeepsContents /\ Inside'
<1> USE Parts
<1>1. tree' = Unstaged(gone \cap Uploads) /\ UNCHANGED bin
  BY DEF Discard
<1>2. ASSUME NEW d \in Dirs PROVE tree'[d].file = tree[d].file /\ tree'[d].there = tree[d].there
  <2>1. PICK g : g = [u \in Uploads |-> IF u \in gone \cap Uploads /\ items[u].d = d
                                        THEN NoStaging ELSE tree[d].staging[u]]
    OBVIOUS
  <2>2. tree'[d] = [tree[d] EXCEPT !.staging = g]
    BY <1>1, <2>1 DEF Unstaged
  <2>3. PICK r \in Directories : r = tree[d]
    BY DirIs
  <2>4. [r EXCEPT !.staging = g].file = r.file /\ [r EXCEPT !.staging = g].there = r.there
    BY DEF Directories
  <2> QED
    BY <2>2, <2>3, <2>4
<1> QED
  BY <1>1, <1>2, KeepsPlaces

LEMMA ReplaceTargetKeeps == ASSUME FilesInv, Inside, ReplaceTarget PROVE KeepsContents /\ Inside'
<1> USE Parts
<1>1. /\ transfer.pc = "replace" /\ UNCHANGED <<recovery, bin>>
  BY RequestIs DEF ReplaceTarget
<1>2. PICK u, since, d : u = transfer.x /\ since = transfer.since /\ d = items[u].d
  OBVIOUS
<1>3. d \in Dirs /\ work = Idle /\ Copied(d, since) /\ Since = since
  BY <1>1, <1>2, CommitIs DEF CommitTells, Since
<1>4. CASE UNCHANGED tree
  BY <1>1, <1>4, KeepsDisk
<1>5. ASSUME NEW f, tree' = [tree EXCEPT ![d] = Beside(d, f, u, NoStaging)] PROVE KeepsContents /\ Inside'
  <2>1. tree'[d].there /\ \A e \in Dirs \ {d} : tree'[e] = tree[e]
    BY <1>3, <1>5 DEF Beside, DiskOK
  <2>2. tree[d].file.there => MayGo(d)
    BY <1>1, <1>3 DEF MayGo, Copied, Spared
  <2> QED
    BY <1>1, <1>3, <2>1, <2>2, KeepsPut
<1> QED
  BY <1>2, <1>4, <1>5 DEF ReplaceTarget

LEMMA PutWrittenKeeps == ASSUME FilesInv, Inside, PutWritten PROVE KeepsContents /\ Inside'
<1> USE Parts
<1>1. work # Idle /\ work.pc = "put" /\ UNCHANGED <<recovery, bin>>
  BY BusyIs DEF PutWritten
<1>2. PICK d, since : d = work.d /\ since = work.since
  OBVIOUS
<1>3. d \in Dirs /\ Copied(d, since) /\ Since = since
  BY <1>1, <1>2, WorkIs DEF WorkTells, Since
<1>4. tree[d].file.there => MayGo(d)
  BY <1>1, <1>3 DEF MayGo, Copied, Spared
<1>5. /\ \A e \in Dirs \ {d} : tree'[e] = tree[e]
      /\ tree'[d].file.there => tree'[d].there
  <2>1. PICK r \in Directories : r = tree[d]
    BY <1>3, DirIs
  <2>2. CASE work.there
    <3>1. PICK f : f = New(work.bytes, "host")
      OBVIOUS
    <3>2. [[r EXCEPT !.there = TRUE] EXCEPT !.file = f].there = TRUE
      BY DEF Directories
    <3>3. tree' = [tree EXCEPT ![d] = [[r EXCEPT !.there = TRUE] EXCEPT !.file = f]]
      BY <1>2, <1>3, <2>1, <2>2, <3>1 DEF PutWritten, DiskOK
    <3> QED
      BY <1>3, <3>2, <3>3 DEF DiskOK
  <2>3. CASE ~work.there
    <3>1. [r EXCEPT !.file = NoFile].file = NoFile /\ ~NoFile.there
      BY NewDirs, WithFile
    <3>2. tree' = [tree EXCEPT ![d] = [r EXCEPT !.file = NoFile]]
      BY <1>2, <2>1, <2>3 DEF PutWritten
    <3> QED
      BY <1>3, <3>1, <3>2 DEF DiskOK
  <2> QED
    BY <2>2, <2>3
<1> QED
  BY <1>1, <1>3, <1>4, <1>5, KeepsPut

LEMMA MkdirKeeps == ASSUME FilesInv, Inside, NEW d \in Dirs, Mkdir(d) PROVE KeepsContents /\ Inside'
<1> USE Parts
<1>1. UNCHANGED bin /\ ~tree[d].file.there /\ tree' = [tree EXCEPT ![d] = EmptyDir]
  BY DEF Mkdir, Inside
<1>2. \A e \in Dirs \ {d} : tree'[e] = tree[e]
  BY <1>1
<1>3. ~tree'[d].file.there
  BY <1>1, NewDirs DEF DiskOK
<1> QED
  BY <1>1, <1>2, <1>3, KeepsPut

LEMMA TrashKeeps ==
    ASSUME FilesInv, Inside, NEW kind, NEW d, NEW o \in Bins, Trash(kind, d, o) PROVE KeepsContents /\ Inside'
<1> USE Parts
<1>1. UNCHANGED tree /\ bin' = [bin EXCEPT ![o] = [stage |-> "made", kind |-> kind, d |-> d]] /\ ~InBin(o)
  BY DEF Trash, InBin, Listed
<1>2. bin'[o].stage = "made" /\ \A p \in Bins \ {o} : bin'[p] = bin[p]
  BY <1>1 DEF DiskOK
<1>3. \A e \in Dirs : tree[e].file.there => Stays(tree[e].file.bytes)
  BY <1>1 DEF Existing, Stays
<1>4. \A p \in Bins : InBin(p) => Stays(bin[p].payload.file.bytes)
  BY <1>1, <1>2 DEF Existing, Stays, InBin, Listed
<1>5. Inside'
  BY <1>1, <1>2 DEF Inside, InBin, Listed
<1> QED
  BY <1>3, <1>4, <1>5, KeepsBut

LEMMA MoveKeeps == ASSUME FilesInv, Inside, Move PROVE KeepsContents /\ Inside'
<1> USE Parts
<1>1. work # Idle /\ work.pc = "move" /\ UNCHANGED <<recovery, bin>>
  BY BusyIs DEF Move
<1>2. PICK d, e, kind : d = work.d /\ e = work.to /\ kind = work.kind
  OBVIOUS
<1>3. /\ d \in Dirs /\ e \in Dirs /\ kind \in Kinds /\ d # e
      /\ kind = "file" => Spared(e, Since)
  BY <1>1, <1>2, WorkIs DEF WorkTells, Since
<1>4. tree[d] \in Directories /\ tree[e] \in Directories /\ tree[d].file \in Files /\ clock + 1 \in Nat
  BY <1>3, DirIs
<1>5. CASE UNCHANGED tree
  BY <1>1, <1>5, KeepsDisk
<1>6. ASSUME StillThere(kind, d), Settles(kind, e),
             tree' = [tree EXCEPT ![e] = Placed(kind, e, tree[d]), ![d] = Left(kind, d)]
      PROVE  KeepsContents /\ Inside'
  <2>1. PICK r, s : r = Placed(kind, e, tree[d]) /\ s = Left(kind, d)
    OBVIOUS
  <2>2. /\ r \in Directories /\ s \in Directories /\ ~s.file.there
        /\ r.file.there = tree[d].file.there /\ r.file.bytes = tree[d].file.bytes
        /\ r.file.there => r.there
    <3>1. CASE kind = "directory"
      BY <1>3, <1>4, <2>1, <3>1, NewDirs DEF Placed, Left, Inside
    <3>2. CASE kind = "file"
      <4>1. PICK g : g = [tree[d].file EXCEPT !.stamp = clock + 1]
        OBVIOUS
      <4>2. g \in Files /\ g.bytes = tree[d].file.bytes /\ g.there = tree[d].file.there
        BY ONLY <1>4, <4>1, Restamped
      <4>3. r = [tree[e] EXCEPT !.file = g] /\ s = [tree[d] EXCEPT !.file = NoFile]
        BY <2>1, <3>2, <4>1 DEF Placed, Left
      <4>4. /\ r \in Directories /\ r.file = g /\ r.there = tree[e].there
            /\ s \in Directories /\ s.file = NoFile
        BY ONLY <1>4, <4>2, <4>3, NewDirs, WithFile
      <4>5. tree[e].there
        BY <1>6, <3>2 DEF Settles
      <4> QED
        BY <4>2, <4>4, <4>5, NewDirs
    <3> QED
      BY <1>3, <3>1, <3>2 DEF Kinds
  <2>3. tree'[e] = r /\ tree'[d] = s /\ \A c \in Dirs \ {d, e} : tree'[c] = tree[c]
    BY <1>3, <1>6, <2>1, <2>2, TwoPut
  <2>4. \A c \in Dirs \ {d, e} : tree[c].file.there => Stays(tree[c].file.bytes)
    BY <2>3 DEF Existing, Stays
  <2>5. tree[d].file.there => Stays(tree[d].file.bytes)
    BY <1>3, <2>2, <2>3 DEF Existing, Stays
  <2>6. tree[e].file.there => MayGo(e)
    BY <1>3, <1>6 DEF MayGo, Spared, Settles, Bare, Kinds
  <2>7. \A o \in Bins : InBin(o) => Stays(bin[o].payload.file.bytes)
    BY <1>1 DEF Existing, Stays, InBin, Listed
  <2>8. Inside'
    BY <1>1, <2>2, <2>3 DEF Inside, InBin, Listed
  <2>9. \A c \in Dirs : tree[c].file.there => Stays(tree[c].file.bytes) \/ MayGo(c)
    BY <2>4, <2>5, <2>6
  <2> QED
    BY <2>7, <2>8, <2>9, KeepsBut
<1> QED
  BY <1>2, <1>5, <1>6 DEF Move

LEMMA PutPayloadKeeps == ASSUME FilesInv, Inside, PutPayload PROVE KeepsContents /\ Inside'
<1> USE Parts
<1>1. work # Idle /\ work.pc = "trash"
  BY BusyIs DEF PutPayload
<1>2. PICK d, o, kind : d = work.d /\ o = work.o /\ kind = work.kind
  OBVIOUS
<1>3. d \in Dirs /\ o \in Bins /\ kind \in Kinds /\ ~InBin(o)
  BY <1>1, <1>2, WorkIs DEF WorkTells, InBin, Listed
<1>4. tree[d] \in Directories
  BY <1>3, DirIs
<1>5. ASSUME bin' = [bin EXCEPT ![o] = NoBin], UNCHANGED tree
      PROVE  KeepsContents /\ Inside'
  <2>1. bin'[o].stage = "none" /\ \A p \in Bins \ {o} : bin'[p] = bin[p]
    BY <1>3, <1>5 DEF DiskOK, NoBin
  <2>2. \A c \in Dirs : tree[c].file.there => Stays(tree[c].file.bytes)
    BY <1>5 DEF Existing, Stays
  <2>3. \A p \in Bins : InBin(p) => Stays(bin[p].payload.file.bytes)
    BY <1>3, <2>1 DEF Existing, Stays, InBin, Listed
  <2>4. Inside'
    BY <1>5, <2>1 DEF Inside, InBin, Listed
  <2> QED
    BY <2>2, <2>3, <2>4, KeepsBut
<1>6. ASSUME bin' = [bin EXCEPT ![o] = [stage |-> "full", kind |-> kind, d |-> d, payload |-> tree[d]]],
             tree' = [tree EXCEPT ![d] = Left(kind, d)]
      PROVE  KeepsContents /\ Inside'
  <2>1. PICK c, r : /\ c = [stage |-> "full", kind |-> kind, d |-> d, payload |-> tree[d]]
                    /\ r = Left(kind, d)
    OBVIOUS
  <2>2. c.stage = "full" /\ c.payload = tree[d]
    BY <2>1
  <2>3. ~r.file.there
    BY <1>3, <1>4, <2>1, NewDirs, WithFile DEF Left, Kinds
  <2>4. bin'[o] = c /\ \A p \in Bins \ {o} : bin'[p] = bin[p]
    BY <1>3, <1>6, <2>1 DEF DiskOK
  <2>5. tree'[d] = r /\ \A e \in Dirs \ {d} : tree'[e] = tree[e]
    BY <1>3, <1>6, <2>1 DEF DiskOK
  <2>6. \A e \in Dirs \ {d} : tree[e].file.there => Stays(tree[e].file.bytes)
    BY <2>5 DEF Existing, Stays
  <2>7. tree[d].file.there => Stays(tree[d].file.bytes)
    BY <1>3, <2>2, <2>4 DEF Existing, Stays, InBin, Listed
  <2>8. \A p \in Bins : InBin(p) => Stays(bin[p].payload.file.bytes)
    BY <1>3, <2>4 DEF Existing, Stays, InBin, Listed
  <2>9. Inside'
    BY <1>3, <2>2, <2>3, <2>4, <2>5 DEF Inside, InBin, Listed
  <2>10. \A e \in Dirs : tree[e].file.there => Stays(tree[e].file.bytes) \/ MayGo(e)
    BY <2>6, <2>7
  <2> QED
    BY <2>8, <2>9, <2>10, KeepsBut
<1> QED
  BY <1>2, <1>5, <1>6 DEF PutPayload

LEMMA TakePayloadKeeps == ASSUME FilesInv, Inside, TakePayload PROVE KeepsContents /\ Inside'
<1> USE Parts
<1>1. work # Idle /\ work.pc = "restore" /\ UNCHANGED recovery
  BY BusyIs DEF TakePayload
<1>2. PICK o, w : o = work.o /\ w = bin[o]
  OBVIOUS
<1>3. o \in Bins /\ bin[o].stage = "full"
  BY <1>1, <1>2, WorkIs DEF WorkTells, Listed
<1>4. w \in [stage : {"full", "spent"}, kind : Kinds, d : Dirs, payload : Directories]
  BY <1>2, <1>3, BinIs
<1>5. PICK e, kind, r : e = w.d /\ kind = w.kind /\ r = w.payload
  OBVIOUS
<1>6. /\ e \in Dirs /\ kind \in Kinds /\ r \in Directories /\ r.file \in Files
      /\ kind = "file" => Spared(e, Since)
  BY <1>1, <1>2, <1>4, <1>5 DEF Directories, WorkTells, Since
<1>7. CASE UNCHANGED <<tree, bin>>
  BY <1>7, KeepsDisk
<1>8. ASSUME Settles(kind, e), tree' = [tree EXCEPT ![e] = Placed(kind, e, r)],
             bin' = [bin EXCEPT ![o].stage = "spent"]
      PROVE  KeepsContents /\ Inside'
  <2>1. PICK c, s : c = [bin[o] EXCEPT !.stage = "spent"] /\ s = Placed(kind, e, r)
    OBVIOUS
  <2>2. c.stage = "spent" /\ c \in Containers
    BY <1>3, <2>1, SpentIs
  <2>3. bin'[o] = c /\ \A p \in Bins \ {o} : bin'[p] = bin[p]
    BY <1>3, <1>8, <2>1, <2>2, BinPut
  <2>4. /\ s \in Directories /\ s.file.there = r.file.there /\ s.file.bytes = r.file.bytes
        /\ s.file.there => s.there
    <3>1. CASE kind = "directory"
      BY <1>2, <1>3, <1>5, <1>6, <2>1, <3>1 DEF Placed, Inside, InBin, Listed
    <3>2. CASE kind = "file"
      <4>1. PICK g : g = [r.file EXCEPT !.stamp = clock + 1]
        OBVIOUS
      <4>2. clock + 1 \in Nat /\ tree[e] \in Directories
        BY <1>6, DirIs
      <4>3. g \in Files /\ g.bytes = r.file.bytes /\ g.there = r.file.there
        BY ONLY <1>6, <4>1, <4>2, Restamped
      <4>4. s = [tree[e] EXCEPT !.file = g]
        BY <2>1, <3>2, <4>1 DEF Placed
      <4>5. s \in Directories /\ s.file = g /\ s.there = tree[e].there
        BY ONLY <4>2, <4>3, <4>4, WithFile
      <4>6. tree[e].there
        BY <1>8, <3>2 DEF Settles
      <4> QED
        BY <4>3, <4>5, <4>6
    <3> QED
      BY <1>6, <3>1, <3>2 DEF Kinds
  <2>5. tree'[e] = s /\ \A d \in Dirs \ {e} : tree'[d] = tree[d]
    BY <1>6, <1>8, <2>1, <2>4, TreePut
  <2>6. \A d \in Dirs \ {e} : tree[d].file.there => Stays(tree[d].file.bytes)
    BY <2>5 DEF Existing, Stays
  <2>7. tree[e].file.there => MayGo(e)
    BY <1>6, <1>8 DEF MayGo, Spared, Settles, Bare, Kinds
  <2>8. \A p \in Bins \ {o} : InBin(p) => Stays(bin[p].payload.file.bytes)
    BY <2>3 DEF Existing, Stays, InBin, Listed
  <2>9. InBin(o) => Stays(bin[o].payload.file.bytes)
    BY <1>2, <1>5, <1>6, <2>4, <2>5 DEF Existing, Stays, InBin
  <2>10. Inside'
    BY <1>6, <2>2, <2>3, <2>4, <2>5 DEF Inside, InBin, Listed
  <2>11. \A d \in Dirs : tree[d].file.there => Stays(tree[d].file.bytes) \/ MayGo(d)
    BY <2>6, <2>7
  <2> QED
    BY <2>8, <2>9, <2>10, <2>11, KeepsBut
<1> QED
  BY <1>2, <1>5, <1>7, <1>8 DEF TakePayload

\* The sweep removes what is past its time, and a container that is cleared is spent.
LEMMA KeepsRemoved ==
    ASSUME DiskOK, Inside, NEW o \in Bins, o \in aged \/ ~InBin(o), ~InBin(o)', UNCHANGED tree,
           \A p \in Bins \ {o} : bin'[p] = bin[p]
    PROVE  KeepsContents /\ Inside'
<1>1. \A d \in Dirs : tree[d].file.there => Stays(tree[d].file.bytes)
  BY DEF Existing, Stays
<1>2. \A p \in Bins : InBin(p) /\ p \notin aged => Stays(bin[p].payload.file.bytes)
  BY DEF Existing, Stays, InBin, Listed
<1>3. Inside'
  BY DEF Inside, InBin, Listed
<1> QED
  BY <1>1, <1>2, <1>3, KeepsBut

LEMMA RemovePartKeeps == ASSUME FilesInv, Inside, RemovePart PROVE KeepsContents /\ Inside'
<1> USE Parts
<1>1. work # Idle /\ work.pc = "remove" /\ UNCHANGED tree
  BY BusyIs DEF RemovePart
<1>2. PICK o : o = work.o
  OBVIOUS
<1>3. o \in Bins /\ bin[o].stage = "full" /\ o \in aged
  BY <1>1, <1>2, WorkIs DEF WorkTells, Listed
<1>4. PICK stage, c : /\ c = [[bin[o] EXCEPT !.stage = stage] EXCEPT !.payload = EmptyDir]
                      /\ bin' = [bin EXCEPT ![o] = c]
  BY <1>2 DEF RemovePart
<1>5. c.payload = EmptyDir
  <2>1. PICK w \in [stage : {"full", "spent"}, kind : Kinds, d : Dirs, payload : Directories] : w = bin[o]
    BY <1>3, BinIs
  <2>2. PICK empty : empty = EmptyDir
    OBVIOUS
  <2>3. [[w EXCEPT !.stage = stage] EXCEPT !.payload = empty].payload = empty
    BY ONLY <2>1
  <2> QED
    BY <1>4, <2>1, <2>2, <2>3
<1>6. ~InBin(o)' /\ \A p \in Bins \ {o} : bin'[p] = bin[p]
  BY <1>3, <1>4, <1>5, NewDirs DEF DiskOK, InBin
<1> QED
  BY <1>1, <1>3, <1>6, KeepsRemoved

LEMMA ClearContainerKeeps == ASSUME FilesInv, Inside, ClearContainer PROVE KeepsContents /\ Inside'
<1> USE Parts
<1>1. work # Idle /\ work.pc = "clear" /\ UNCHANGED tree
  BY BusyIs DEF ClearContainer
<1>2. PICK o : o = work.o
  OBVIOUS
<1>3. o \in Bins /\ ~InBin(o)
  BY <1>1, <1>2, WorkIs DEF WorkTells
<1>4. bin'[o] = [stage |-> "gone"] /\ \A p \in Bins \ {o} : bin'[p] = bin[p]
  BY <1>2, <1>3 DEF ClearContainer, DiskOK
<1>5. ~InBin(o)'
  BY <1>4 DEF InBin, Listed
<1> QED
  BY <1>1, <1>3, <1>4, <1>5, KeepsRemoved

\* Other programs may remove what they like.
LEMMA EditsKeep ==
    ASSUME FilesInv, Inside, NEW d \in Dirs, NEW r \in Directories, Edits([tree EXCEPT ![d] = r]),
           r.file.there => r.there
    PROVE  KeepsContents /\ Inside'
<1> USE Parts
<1>1. left'.edits # left.edits
  BY Spent DEF Edits
<1>2. tree'[d] = r /\ \A e \in Dirs \ {d} : tree'[e] = tree[e]
  BY DEF Edits, DiskOK
<1>3. UNCHANGED bin
  BY DEF Edits
<1>4. Inside'
  BY <1>2, <1>3 DEF Inside, InBin, Listed
<1> QED
  BY <1>1, <1>4 DEF KeepsContents

LEMMA EditorKeeps ==
    ASSUME FilesInv, Inside, NEW d \in Dirs,
           EditorDeletes(d) \/ EditorRemoves(d) \/ \E bytes \in Drafts : EditorWrites(d, bytes)
    PROVE  KeepsContents /\ Inside'
<1> USE Parts
<1>1. PICK dir \in Directories : dir = tree[d]
  BY DirIs
<1>2. CASE EditorRemoves(d)
  BY <1>2, NewDirs, EditsKeep DEF EditorRemoves
<1>3. CASE EditorDeletes(d)
  <2>1. PICK f, r : f = [New(<<>>, "editor") EXCEPT !.there = FALSE] /\ r = [dir EXCEPT !.file = f]
    OBVIOUS
  <2>2. f = [there |-> FALSE, bytes |-> <<>>, stamp |-> clock + 1, by |-> "editor"]
    BY <2>1 DEF New
  <2>3. f \in Files /\ ~f.there
    BY <2>2, EmptySeq DEF Files
  <2>4. r \in Directories /\ ~r.file.there
    BY ONLY <1>1, <2>1, <2>3, WithFile
  <2>5. Edits([tree EXCEPT ![d] = r])
    BY <1>1, <1>3, <2>1 DEF EditorDeletes
  <2> QED
    BY <2>4, <2>5, EditsKeep
<1>4. ASSUME NEW bytes \in Drafts, EditorWrites(d, bytes) PROVE KeepsContents /\ Inside'
  <2>1. PICK f, r : f = New(bytes, "editor") /\ r = [dir EXCEPT !.file = f]
    OBVIOUS
  <2>2. f \in Files
    BY <2>1, NewFile, ContentsAreSequences
  <2>3. r \in Directories /\ r.there = dir.there
    BY ONLY <1>1, <2>1, <2>2, WithFile
  <2>4. Edits([tree EXCEPT ![d] = r]) /\ dir.there
    BY <1>1, <1>4, <2>1 DEF EditorWrites
  <2> QED
    BY <2>3, <2>4, EditsKeep
<1> QED
  BY <1>2, <1>3, <1>4

LEMMA TransferKeeps == ASSUME FilesInv, Inside, TransferNext PROVE KeepsContents /\ Inside'
<1> USE Parts
<1>1. ASSUME NEW x \in Transfers, CancelTransfer(x) PROVE KeepsContents /\ Inside'
  BY <1>1, DiscardKeeps DEF CancelTransfer
<1>2. ASSUME ExpireTransfers PROVE KeepsContents /\ Inside'
  BY <1>2, DiscardKeeps DEF ExpireTransfers
<1>3. CASE UNCHANGED <<tree, bin>>
  BY <1>3, KeepsDisk
<1>4. \/ UNCHANGED <<tree, bin>> \/ CreateStaging \/ ReplaceTarget \/ ExpireTransfers
      \/ \E u \in Uploads, offset \in 0..(MaxSize - 1), byte \in Bytes : Chunk(u, offset, byte)
      \/ \E x \in Transfers : CancelTransfer(x)
  BY DEF TransferNext, BeginUpload, Record, RecordOffset, Commit, CheckTarget, KeepTarget, Save,
         BeginDownload, OpenDownload, ReadDownload, Deliver, disk
<1> QED
  BY <1>1, <1>2, <1>3, <1>4, CreateStagingKeeps, ChunkKeeps, ReplaceTargetKeeps

LEMMA WorkKeeps == ASSUME FilesInv, Inside, WorkNext PROVE KeepsContents /\ Inside'
<1> USE Parts
<1>1. CASE UNCHANGED <<tree, bin>>
  BY <1>1, KeepsDisk
<1>2. \/ UNCHANGED <<tree, bin>> \/ PutWritten \/ Move \/ PutPayload \/ TakePayload
      \/ RemovePart \/ ClearContainer
      \/ \E d \in Dirs : Mkdir(d)
      \/ \E kind \in {"directory", "file"}, d \in Dirs, o \in Bins : Trash(kind, d, o)
  BY DEF WorkNext, Write, KeepWritten, MoveDirectory, MoveFile, Restore, ExpireTrash, disk
<1> QED
  BY <1>1, <1>2, PutWrittenKeeps, MoveKeeps, PutPayloadKeeps, TakePayloadKeeps, RemovePartKeeps,
     ClearContainerKeeps, MkdirKeeps, TrashKeeps

LEMMA OutsideKeeps == ASSUME FilesInv, Inside, OutsideNext PROVE KeepsContents /\ Inside'
<1> USE Parts
<1>1. CASE UNCHANGED <<tree, bin>>
  BY <1>1, KeepsDisk
<1>2. \/ UNCHANGED <<tree, bin>>
      \/ \E d \in Dirs : \/ EditorDeletes(d) \/ EditorRemoves(d)
                         \/ \E bytes \in Drafts : EditorWrites(d, bytes)
  BY DEF OutsideNext, ServerEnds, ServerStarts, TimePasses, disk
<1> QED
  BY <1>1, <1>2, EditorKeeps

\* No step of the Host loses a file's content: it stays in the root, in the trash or
\* in the recovery copy of its path, unless another program wrote it since the
\* request's check or the trash had kept it for its time.
THEOREM ContentsKept == FilesSpec => NothingVanishes
<1>1. FilesInit => Inside
  <2>1. ASSUME FilesInit, NEW d \in Dirs PROVE tree[d].there
    <3>1. PICK first : tree = [e \in Dirs |->
             [EmptyDir EXCEPT !.file = [there |-> TRUE, bytes |-> <<first[e]>>, stamp |-> e, by |-> "host"]]]
      BY <2>1 DEF FilesInit
    <3>2. PICK f : f = [there |-> TRUE, bytes |-> <<first[d]>>, stamp |-> d, by |-> "host"]
      OBVIOUS
    <3>3. PICK empty \in Directories : empty = EmptyDir
      BY NewDirs
    <3>4. [empty EXCEPT !.file = f].there = empty.there
      BY DEF Directories
    <3> QED
      BY <3>1, <3>2, <3>3, <3>4 DEF EmptyDir
  <2>2. ASSUME FilesInit, NEW o \in Bins PROVE ~InBin(o)
    BY <2>2 DEF FilesInit, InBin, Listed, NoBin
  <2> QED
    BY <2>1, <2>2 DEF Inside
<1>2. FilesInv /\ Inside /\ [FilesNext]_fileVars => Inside' /\ [KeepsContents]_fileVars
  <2>1. ASSUME FilesInv, Inside, UNCHANGED fileVars PROVE Inside'
    BY <2>1, Parts, KeepsDisk DEF fileVars, disk
  <2> QED
    BY <2>1, TransferKeeps, WorkKeeps, OutsideKeeps DEF FilesNext
<1>3. [][KeepsContents]_fileVars => NothingVanishes
  BY DEF NothingVanishes, KeepsContents
<1> QED
  BY <1>1, <1>2, <1>3, FilesInvariant, PTL DEF FilesSpec

=============================================================================
