------------------------------ MODULE SyncJobs ------------------------------
(***************************************************************************)
(* The job path between a remote service and the owner's Sync app.         *)
(*                                                                         *)
(*   CorpusService.runJob   inserts a row in D1 and calls the broker       *)
(*   SyncBroker             a Durable Object per device: sends jobs down a *)
(*                          WebSocket, records results, wakes the callers  *)
(*   SyncDaemon             executes one job at a time, remembers answers  *)
(*   CorpusService.jobStatus  polls a row, expiring it when it is late     *)
(*                                                                         *)
(* The broker is one JavaScript isolate whose handlers interleave at every *)
(* await.  A step here is one D1 statement (SQLite runs it atomically)     *)
(* with the code that follows it up to the next await; what a handler      *)
(* keeps across an await is in its task record.                            *)
(***************************************************************************)
EXTENDS Naturals, Sequences, FiniteSets

CONSTANTS
    Jobs,           \* job ids, numbered by created_at
    Expiring,       \* the jobs whose expires_at may pass during the run
    NoWait,         \* the jobs submitted with waitMs = 0
    Fallible,       \* the jobs whose local operation may fail
    Aging,          \* the jobs whose terminal row may become seven days old
    Polled,         \* the jobs whose caller later inspects them
    ListsReplaced,  \* does getWebSockets() list sockets being closed?
    Slots,          \* handler activations of webSocketMessage alive at once
    MaxInFlight,    \* MAX_IN_FLIGHT_JOBS (20)
    MaxRemembered,  \* MAX_COMPLETED_JOBS (2048)
    FaultKinds,     \* which failures may happen, a subset of Faults
    MaxFaults       \* bound on the number of failures

Faults == {"link", "crash", "restart", "statement"}

ASSUME ConstantsAssumption ==
    /\ Jobs \subseteq Nat
    /\ Expiring \subseteq Jobs
    /\ NoWait \subseteq Jobs
    /\ Fallible \subseteq Jobs
    /\ Aging \subseteq Jobs
    /\ Polled \subseteq Jobs
    /\ ListsReplaced \in BOOLEAN
    /\ Slots \subseteq Nat
    /\ MaxInFlight \in Nat
    /\ MaxRemembered \in Nat
    /\ FaultKinds \subseteq Faults
    /\ MaxFaults \in Nat

VARIABLES
    row,        \* sync_jobs.state of each job, "absent" before the INSERT
    passed,     \* the jobs whose expires_at is in the past
    socket,     \* the broker's view of each WebSocket
    cut,        \* the sessions whose network connection is broken
    down,       \* job messages on the way to the device, per session
    up,         \* job_result messages on the way to the broker, per session
    task,       \* the running activations of webSocketMessage
    call,       \* where the execute() call of a job stands
    poll,       \* where a jobStatus() call of a job stands
    answers,    \* everything the service has told the caller of a job
    device,     \* the broker session of the Sync daemon
    memory,     \* completed_jobs, oldest first
    performed,  \* how often the local operation of a job has taken effect
    crashes,    \* crashes of the Sync app so far
    faults      \* failures injected so far

vars == <<row, passed, socket, cut, down, up, task, call, poll, answers,
          device, memory, performed, crashes, faults>>
brokerVars == <<socket, task, call>>
linkVars == <<cut, down, up>>
deviceVars == <<device, memory, performed, crashes>>
callerVars == <<poll, answers>>

Verdicts == {"succeeded", "failed"}
Terminal == Verdicts \cup {"expired"}
Open == {"queued", "dispatched"}
RowStates == {"absent", "purged"} \cup Open \cup Terminal

SocketStates == {"none", "opened", "greeting", "ready", "replaced", "closed"}

Sessions == 1 .. (MaxFaults + 1)
NoSession == 0

Results == [job : Jobs, verdict : Verdicts]

Idle == [kind |-> "idle"]
HelloTasks ==
    [kind : {"hello"}, session : Sessions, rows : SUBSET Jobs,
     pc : {"ready", "expire", "purge", "select", "mark"}]
ResultTasks ==
    [kind : {"result"}, session : Sessions, rows : SUBSET Jobs,
     job : Jobs, verdict : Verdicts,
     pc : {"lookup", "complete", "select", "mark"}]

DeviceIdle(s) == [pc |-> "idle", session |-> s]
DeviceStates ==
    [pc : {"idle"}, session : Sessions \cup {NoSession}]
    \cup [pc : {"running"}, session : Sessions, job : Jobs]
    \cup [pc : {"executed", "remembered"}, session : Sessions,
          job : Jobs, verdict : Verdicts]

TypeOK ==
    /\ row \in [Jobs -> RowStates]
    /\ passed \subseteq Expiring
    /\ socket \in [Sessions -> SocketStates]
    /\ cut \subseteq Sessions
    /\ down \in [Sessions -> Seq(Jobs)]
    /\ up \in [Sessions -> Seq(Results)]
    /\ task \in [Slots -> {Idle} \cup HelloTasks \cup ResultTasks]
    /\ call \in [Jobs -> {"none", "inserted", "sent", "waiting", "done"}]
    /\ poll \in [Jobs -> {"idle", "expiring"}]
    /\ answers \in [Jobs -> SUBSET (Open \cup Terminal \cup {"error"})]
    /\ device \in DeviceStates
    /\ memory \in Seq(Results)
    /\ performed \in [Jobs -> Nat]
    /\ crashes \in Nat
    /\ faults \in Nat

Init ==
    /\ row = [j \in Jobs |-> "absent"]
    /\ passed = {}
    /\ socket = [s \in Sessions |-> "none"]
    /\ cut = {}
    /\ down = [s \in Sessions |-> <<>>]
    /\ up = [s \in Sessions |-> <<>>]
    /\ task = [t \in Slots |-> Idle]
    /\ call = [j \in Jobs |-> "none"]
    /\ poll = [j \in Jobs |-> "idle"]
    /\ answers = [j \in Jobs |-> {}]
    /\ device = DeviceIdle(NoSession)
    /\ memory = <<>>
    /\ performed = [j \in Jobs |-> 0]
    /\ crashes = 0
    /\ faults = 0

-----------------------------------------------------------------------------
(* Helpers *)

IsOpenRow(j) == row[j] \in Open
Live(states) == {j \in Jobs \ passed : row[j] \in states}

\* ORDER BY created_at LIMIT n
Oldest(n, S) == {j \in S : Cardinality({k \in S : k < j}) < n}
IsFirst(j, S) == \A k \in S : j <= k

\* socket.send throws once the broker has closed its end.
IsOpenSocket(s) == socket[s] \in {"opened", "greeting", "ready"}

\* A message sent into a broken connection is lost without an error.
Deliver(s, j) ==
    down' = IF s \in cut THEN down ELSE [down EXCEPT ![s] = Append(@, j)]

Answer(j, a) == answers' = [answers EXCEPT ![j] = @ \cup {a}]
Return(j, a) == /\ call' = [call EXCEPT ![j] = "done"]
                /\ Answer(j, a)

Finish(t) == task' = [task EXCEPT ![t] = Idle]
Continue(t, pc) == task' = [task EXCEPT ![t].pc = pc]

IsTask(t, kind, pc) == task[t].kind = kind /\ task[t].pc = pc
FreeSlot(t) == /\ task[t] = Idle
               /\ \A u \in Slots : task[u] = Idle => t <= u

\* UPDATE sync_jobs SET state = ... WHERE state IN ('queued', 'dispatched')
UpdateOpen(j, state) ==
    row' = [row EXCEPT ![j] = IF @ \in Open THEN state ELSE @]

Overdue_Early(j) == IsOpenRow(j)
Overdue(j) == IsOpenRow(j) /\ j \in passed

Remembered_Never(j) == FALSE
Remembered(j) == \E i \in DOMAIN memory : memory[i].job = j

-----------------------------------------------------------------------------
(* The caller: CorpusService.runJob and jobStatus *)

\* The guarded INSERT of the job row; the call to the broker follows.
Submit(j) ==
    /\ row[j] = "absent"
    /\ row' = [row EXCEPT ![j] = "queued"]
    /\ call' = [call EXCEPT ![j] = "inserted"]
    /\ UNCHANGED <<passed, socket, task, linkVars, callerVars, deviceVars, faults>>

\* execute() after its device lookup: with no ready socket the job waits.  If
\* the platform still lists a replaced socket, send on it throws.
ExecuteSend(j) ==
    /\ call[j] = "inserted"
    /\ \/ \E s \in Sessions :
             /\ socket[s] = "ready"
             /\ Deliver(s, j)
             /\ call' = [call EXCEPT ![j] = "sent"]
             /\ UNCHANGED answers
       \/ /\ ListsReplaced /\ \E s \in Sessions : socket[s] = "replaced"
          /\ Return(j, "error")
          /\ UNCHANGED down
       \/ /\ \A s \in Sessions : socket[s] # "ready"
          /\ Return(j, "queued")
          /\ UNCHANGED down
    /\ UNCHANGED <<row, passed, socket, task, cut, up, poll, deviceVars, faults>>

\* UPDATE ... SET state = 'dispatched' WHERE state = 'queued'.  Only after it
\* is the caller entered in the pending map, unless waitMs is 0.
ExecuteMark(j) ==
    /\ call[j] = "sent"
    /\ row' = [row EXCEPT ![j] = IF @ = "queued" THEN "dispatched" ELSE @]
    /\ IF j \in NoWait
       THEN Return(j, "dispatched")
       ELSE call' = [call EXCEPT ![j] = "waiting"] /\ UNCHANGED answers
    /\ UNCHANGED <<passed, socket, task, linkVars, poll, deviceVars, faults>>

\* The setTimeout of execute().
WaitTimeout(j) ==
    /\ call[j] = "waiting"
    /\ Return(j, "dispatched")
    /\ UNCHANGED <<row, passed, socket, task, linkVars, poll, deviceVars, faults>>

\* jobStatus: one SELECT, and a guarded UPDATE when the row looks late.
PollRead(j) ==
    /\ j \in Polled /\ answers[j] \cap Open # {}
    /\ poll[j] = "idle"
    /\ \/ /\ row[j] \in Terminal
          /\ Answer(j, row[j])
          /\ UNCHANGED poll
       \/ /\ Overdue(j)
          /\ poll' = [poll EXCEPT ![j] = "expiring"]
          /\ UNCHANGED answers
    /\ UNCHANGED <<row, passed, brokerVars, linkVars, deviceVars, faults>>

PollExpire(j) ==
    /\ poll[j] = "expiring"
    /\ UpdateOpen(j, "expired")
    /\ poll' = [poll EXCEPT ![j] = "idle"]
    /\ Answer(j, "expired")
    /\ UNCHANGED <<passed, brokerVars, linkVars, deviceVars, faults>>

\* The clock passes expires_at.
Deadline(j) ==
    /\ j \in Expiring \ passed
    /\ row[j] # "absent"
    /\ passed' = passed \cup {j}
    /\ UNCHANGED <<row, brokerVars, linkVars, callerVars, deviceVars, faults>>

-----------------------------------------------------------------------------
(* The broker: hello *)

\* The first message of a session starts the hello handler.
HelloArrives(t, s) ==
    /\ socket[s] = "opened"
    /\ FreeSlot(t)
    /\ socket' = [socket EXCEPT ![s] = "greeting"]
    /\ task' = [task EXCEPT ![t] =
                  [kind |-> "hello", session |-> s, rows |-> {}, pc |-> "ready"]]
    /\ UNCHANGED <<row, passed, call, linkVars, callerVars, deviceVars, faults>>

\* upsertDevice has returned: ready = true, then hello_ack.
HelloReady(t) ==
    /\ IsTask(t, "hello", "ready")
    /\ LET s == task[t].session IN
       IF IsOpenSocket(s)
       THEN socket' = [socket EXCEPT ![s] = "ready"] /\ Continue(t, "expire")
       ELSE UNCHANGED socket /\ Finish(t)
    /\ UNCHANGED <<row, passed, call, linkVars, callerVars, deviceVars, faults>>

\* maintainJobs, first statement: open rows past their deadline expire.
HelloExpire(t) ==
    /\ IsTask(t, "hello", "expire")
    /\ row' = [j \in Jobs |-> IF Overdue(j) THEN "expired" ELSE row[j]]
    /\ Continue(t, "purge")
    /\ UNCHANGED <<passed, socket, call, linkVars, callerVars, deviceVars, faults>>

\* maintainJobs, second statement: rows terminal for seven days are deleted.
HelloPurge(t) ==
    /\ IsTask(t, "hello", "purge")
    /\ \E old \in SUBSET {j \in Aging : row[j] \in Terminal} :
         row' = [j \in Jobs |-> IF j \in old THEN "purged" ELSE row[j]]
    /\ Continue(t, "select")
    /\ UNCHANGED <<passed, socket, call, linkVars, callerVars, deviceVars, faults>>

\* dispatchQueued sends each selected row and then marks it; send throws, and
\* so ends the handler, once the socket is closed.
SendRows(t, rows) ==
    LET s == task[t].session IN
    IF rows # {} /\ IsOpenSocket(s)
    THEN /\ \E j \in rows : IsFirst(j, rows) /\ Deliver(s, j)
         /\ task' = [task EXCEPT ![t].rows = rows, ![t].pc = "mark"]
    ELSE UNCHANGED down /\ Finish(t)

DispatchSelect(t, states, limit) ==
    /\ SendRows(t, Oldest(limit, Live(states)))
    /\ UNCHANGED <<row, passed, socket, call, cut, up, callerVars, deviceVars, faults>>

\* After a hello everything open is sent (again), within the limit.
HelloSelect(t) ==
    IsTask(t, "hello", "select") /\ DispatchSelect(t, Open, MaxInFlight)

\* After an accepted result, one more queued job.
ResultSelect_Skip(t) ==
    IsTask(t, "result", "select") /\ DispatchSelect(t, {"queued"}, 0)
ResultSelect(t) ==
    IsTask(t, "result", "select") /\ DispatchSelect(t, {"queued"}, 1)

DispatchMark(t) ==
    /\ task[t] # Idle /\ task[t].pc = "mark"
    /\ \E j \in task[t].rows :
         /\ IsFirst(j, task[t].rows)
         /\ UpdateOpen(j, "dispatched")
         /\ SendRows(t, task[t].rows \ {j})
    /\ UNCHANGED <<passed, socket, call, cut, up, callerVars, deviceVars, faults>>

-----------------------------------------------------------------------------
(* The broker: job_result *)

\* A result arrives on a session that said hello; after a replacement the
\* old socket may still deliver what was sent before.
ResultArrives(t, s) ==
    /\ socket[s] \in {"ready", "replaced"}
    /\ up[s] # <<>>
    /\ FreeSlot(t)
    /\ task' = [task EXCEPT ![t] =
                  [kind |-> "result", session |-> s, rows |-> {}, pc |-> "lookup",
                   job |-> Head(up[s]).job, verdict |-> Head(up[s]).verdict]]
    /\ up' = [up EXCEPT ![s] = Tail(@)]
    /\ UNCHANGED <<row, passed, socket, call, cut, down, callerVars, deviceVars, faults>>

\* A result for a row that is no longer open is refused, and the handler
\* ends there.
ResultLookup(t) ==
    /\ IsTask(t, "result", "lookup")
    /\ IF IsOpenRow(task[t].job) THEN Continue(t, "complete") ELSE Finish(t)
    /\ UNCHANGED <<row, passed, socket, call, linkVars, callerVars, deviceVars, faults>>

\* completeJob: the guarded UPDATE; then the waiting caller is answered,
\* whatever the UPDATE changed, and the acknowledgement is sent.
ResultComplete(t) ==
    /\ IsTask(t, "result", "complete")
    /\ LET j == task[t].job
           v == task[t].verdict
       IN /\ UpdateOpen(j, v)
          /\ IF call[j] = "waiting" THEN Return(j, v) ELSE UNCHANGED <<call, answers>>
    /\ IF IsOpenSocket(task[t].session) THEN Continue(t, "select") ELSE Finish(t)
    /\ UNCHANGED <<passed, socket, linkVars, poll, deviceVars, faults>>

-----------------------------------------------------------------------------
(* The Sync daemon *)

\* _broker_loop opens a new session; connect() closes the sockets it replaces.
DeviceConnect(s) ==
    /\ device = DeviceIdle(NoSession)
    /\ socket[s] = "none"
    /\ \A r \in Sessions : r < s => socket[r] # "none"
    /\ socket' = [r \in Sessions |->
                    IF r = s THEN "opened"
                    ELSE IF IsOpenSocket(r) THEN "replaced" ELSE socket[r]]
    /\ device' = DeviceIdle(s)
    /\ UNCHANGED <<row, passed, task, call, linkVars, callerVars,
                   memory, performed, crashes, faults>>

\* _execute_job: a remembered answer is repeated, a late job is refused.
DeviceTake ==
    /\ device.pc = "idle" /\ device.session # NoSession
    /\ down[device.session] # <<>>
    /\ LET s == device.session
           j == Head(down[s])
           at(pc, v) == [pc |-> pc, session |-> s, job |-> j, verdict |-> v]
       IN /\ down' = [down EXCEPT ![s] = Tail(@)]
          /\ \/ \E i \in DOMAIN memory :
                  memory[i].job = j /\ device' = at("remembered", memory[i].verdict)
             \/ /\ ~Remembered(j) /\ j \in passed
                /\ device' = at("executed", "failed")
             \/ /\ ~Remembered(j) /\ j \notin passed
                /\ device' = [pc |-> "running", session |-> s, job |-> j]
    /\ UNCHANGED <<row, passed, brokerVars, cut, up, callerVars,
                   memory, performed, crashes, faults>>

\* The local operation takes effect and yields its verdict.
DevicePerform_NoEffect ==
    /\ device.pc = "running"
    /\ device' = [pc |-> "executed", session |-> device.session,
                  job |-> device.job, verdict |-> "succeeded"]
    /\ UNCHANGED <<row, passed, brokerVars, linkVars, callerVars,
                   memory, performed, crashes, faults>>

DevicePerform ==
    /\ device.pc = "running"
    /\ performed' = [performed EXCEPT ![device.job] = @ + 1]
    /\ \E v \in Verdicts :
         /\ v = "failed" => device.job \in Fallible
         /\ device' = [pc |-> "executed", session |-> device.session,
                       job |-> device.job, verdict |-> v]
    /\ UNCHANGED <<row, passed, brokerVars, linkVars, callerVars,
                   memory, crashes, faults>>

\* remember_job keeps the newest MaxRemembered answers.
DeviceRemember_Skips ==
    /\ device.pc = "executed"
    /\ device' = [device EXCEPT !.pc = "remembered"]
    /\ UNCHANGED <<row, passed, brokerVars, linkVars, callerVars,
                   memory, performed, crashes, faults>>

DeviceRemember ==
    /\ device.pc = "executed"
    /\ LET grown == Append(memory, [job |-> device.job, verdict |-> device.verdict])
       IN memory' = IF Len(grown) > MaxRemembered THEN Tail(grown) ELSE grown
    /\ device' = [device EXCEPT !.pc = "remembered"]
    /\ UNCHANGED <<row, passed, brokerVars, linkVars, callerVars,
                   performed, crashes, faults>>

DeviceSend ==
    /\ device.pc = "remembered"
    /\ LET s == device.session IN
       /\ up' = IF s \in cut THEN up
                ELSE [up EXCEPT ![s] =
                        Append(@, [job |-> device.job, verdict |-> device.verdict])]
       /\ device' = DeviceIdle(s)
    /\ UNCHANGED <<row, passed, brokerVars, cut, down, callerVars,
                   memory, performed, crashes, faults>>

\* ConnectionClosed: the session ends and the loop will reconnect.
DeviceLeave ==
    /\ device.pc = "idle" /\ device.session \in cut
    /\ down' = [down EXCEPT ![device.session] = <<>>]
    /\ device' = DeviceIdle(NoSession)
    /\ UNCHANGED <<row, passed, brokerVars, cut, up, callerVars,
                   memory, performed, crashes, faults>>

-----------------------------------------------------------------------------
(* Failures *)

Fault(kind) ==
    /\ kind \in FaultKinds
    /\ faults < MaxFaults
    /\ faults' = faults + 1

Prefixes(q) == {SubSeq(q, 1, n) : n \in 0 .. Len(q)}

\* The connection breaks; a prefix of each direction still arrives.
LinkDown(s) ==
    /\ Fault("link")
    /\ IsOpenSocket(s) /\ s \notin cut
    /\ cut' = cut \cup {s}
    /\ \E q \in Prefixes(down[s]) : down' = [down EXCEPT ![s] = q]
    /\ \E q \in Prefixes(up[s]) : up' = [up EXCEPT ![s] = q]
    /\ UNCHANGED <<row, passed, brokerVars, callerVars, deviceVars>>

\* webSocketClose: the broker drops a broken socket.
SocketClose(s) ==
    /\ s \in cut /\ (IsOpenSocket(s) \/ socket[s] = "replaced")
    /\ socket[s] = "ready" => up[s] = <<>>
    /\ socket' = [socket EXCEPT ![s] = "closed"]
    /\ up' = [up EXCEPT ![s] = <<>>]
    /\ UNCHANGED <<row, passed, task, call, cut, down, callerVars, deviceVars, faults>>

\* The Sync app dies: what it was executing is lost, completed_jobs is not.
DeviceCrash ==
    /\ Fault("crash")
    /\ device.session # NoSession
    /\ LET s == device.session IN
       /\ cut' = cut \cup {s}
       /\ down' = [down EXCEPT ![s] = <<>>]
       /\ \E q \in Prefixes(up[s]) : up' = [up EXCEPT ![s] = q]
    /\ device' = DeviceIdle(NoSession)
    /\ crashes' = crashes + 1
    /\ UNCHANGED <<row, passed, brokerVars, callerVars, memory, performed>>

\* The Durable Object restarts: sockets, handlers and the pending map go.
BrokerRestart ==
    /\ Fault("restart")
    /\ LET used == {s \in Sessions : socket[s] # "none"}
           lost == {j \in Jobs : call[j] \in {"sent", "waiting"}}
       IN /\ cut' = used
          /\ socket' = [s \in Sessions |-> IF s \in used THEN "closed" ELSE "none"]
          /\ task' = [t \in Slots |-> Idle]
          /\ call' = [j \in Jobs |-> IF j \in lost THEN "done" ELSE call[j]]
          /\ answers' = [j \in Jobs |->
                           IF j \in lost THEN answers[j] \cup {"error"} ELSE answers[j]]
    /\ up' = [s \in Sessions |-> <<>>]
    /\ \E r \in Sessions : \E q \in Prefixes(down[r]) : down' = [down EXCEPT ![r] = q]
    /\ UNCHANGED <<row, passed, poll, deviceVars>>

\* A D1 statement of a handler fails: the handler ends where it stands.
TaskFails(t) ==
    /\ Fault("statement")
    /\ task[t] # Idle
    /\ Finish(t)
    /\ UNCHANGED <<row, passed, socket, call, linkVars, callerVars, deviceVars>>

-----------------------------------------------------------------------------
CallerStep(j) ==
    \/ Submit(j) \/ ExecuteSend(j) \/ ExecuteMark(j) \/ WaitTimeout(j) \/ PollRead(j) \/ PollExpire(j)

HandlerStep(t) ==
    \/ HelloReady(t) \/ HelloExpire(t) \/ HelloPurge(t) \/ HelloSelect(t)
    \/ ResultLookup(t) \/ ResultComplete(t) \/ ResultSelect(t)
    \/ DispatchMark(t)

Arrival(t) == \E s \in Sessions : HelloArrives(t, s) \/ ResultArrives(t, s)

DeviceStep ==
    \/ DeviceTake \/ DevicePerform \/ DeviceRemember \/ DeviceSend
    \/ DeviceLeave \/ \E s \in Sessions : DeviceConnect(s)

Failure ==
    \/ \E s \in Sessions : LinkDown(s)
    \/ DeviceCrash
    \/ BrokerRestart
    \/ \E t \in Slots : TaskFails(t)

Next ==
    \/ \E j \in Jobs : CallerStep(j) \/ Deadline(j)
    \/ \E t \in Slots : HandlerStep(t) \/ Arrival(t)
    \/ DeviceStep
    \/ \E s \in Sessions : SocketClose(s)
    \/ Failure

Spec == Init /\ [][Next]_vars

\* Every call the code has under way returns, every message that arrives is
\* handled, the daemon's loops run, and the client timeout fires.  Callers
\* are not obliged to submit or to poll, nor deadlines to pass.
Fairness ==
    /\ \A j \in Jobs :
         /\ WF_vars(ExecuteSend(j)) /\ WF_vars(ExecuteMark(j))
         /\ WF_vars(WaitTimeout(j)) /\ WF_vars(PollExpire(j))
    /\ \A t \in Slots : WF_vars(HandlerStep(t)) /\ WF_vars(Arrival(t))
    /\ WF_vars(DeviceStep)
    /\ \A s \in Sessions : WF_vars(SocketClose(s))

FairSpec == Spec /\ Fairness

-----------------------------------------------------------------------------
(* Properties *)

HandlesResult(t, j) ==
    task[t].kind = "result" /\ task[t].job = j

\* The evidence of a job's verdict, wherever it is: remembered, being sent,
\* in a channel, in a handler, recorded, or told to the caller.
VerdictsOf(j) ==
    {memory[i].verdict : i \in {n \in DOMAIN memory : memory[n].job = j}}
    \cup (UNION {{up[s][i].verdict : i \in {n \in DOMAIN up[s] : up[s][n].job = j}} :
                    s \in Sessions})
    \cup {task[t].verdict : t \in {u \in Slots : HandlesResult(u, j)}}
    \cup (IF device.pc = "remembered" /\ device.job = j
          THEN {device.verdict} ELSE {})
    \cup ({row[j]} \cap Verdicts)
    \cup (answers[j] \cap Verdicts)

\* A job is recorded, or reported to its caller, as succeeded only when its
\* operation has taken effect on the device.
SuccessWasPerformed ==
    \A j \in Jobs :
      row[j] = "succeeded" \/ "succeeded" \in answers[j] => performed[j] > 0

\* "Cache completed job responses so a reconnect can safely replay a job ID":
\* replays alone never repeat an operation; only a crash of the app between
\* the operation and remember_job can.
PerformedOncePerCrash ==
    \A j \in Jobs : performed[j] <= 1 + crashes

\* However often a job is sent, executed and answered, no two parties ever
\* hold different verdicts for it.
VerdictsAgree ==
    \A j \in Jobs : \A v, w \in VerdictsOf(j) : v = w

\* The broker has at most one connection of a device that it can send on.
OneActiveWriter ==
    \A r, s \in Sessions : IsOpenSocket(r) /\ IsOpenSocket(s) => r = s

\* A recorded outcome never changes, whatever arrives late, until retention
\* deletes the row.
OutcomeIsFinal ==
    [][\A j \in Jobs : row[j] \in Terminal => row'[j] \in {row[j], "purged"}]_vars

\* The invariant behind the theorems.  Provenance: a job is sent, polled for
\* lateness or run only after it was submitted (and, if late, at its deadline).
\* Evidence: wherever a success is remembered, travels or is recorded, the
\* operation has taken effect.
Submitted == {j \in Jobs : row[j] # "absent"}

Provenance ==
    /\ \A s \in Sessions : down[s] \in Seq(Submitted)
    /\ \A t \in Slots : task[t] # Idle => task[t].rows \subseteq Submitted
    /\ \A j \in Jobs : call[j] # "none" => j \in Submitted
    /\ device.pc # "idle" => device.job \in Submitted
    /\ \A j \in Jobs : poll[j] = "expiring" => j \in passed
    /\ passed \subseteq Submitted

Backed(r) == r.verdict = "succeeded" => performed[r.job] > 0
BackedResults == {r \in Results : Backed(r)}

Evidence ==
    /\ memory \in Seq(BackedResults)
    /\ \A s \in Sessions : up[s] \in Seq(BackedResults)
    /\ \A t \in Slots : task[t].kind = "result" => Backed(task[t])
    /\ device.pc \in {"executed", "remembered"} => Backed(device)
    /\ SuccessWasPerformed

JobInv == TypeOK /\ Provenance /\ Evidence /\ OneActiveWriter

\* The invariant behind the theorems on what is repeated, as long as no answer is
\* pushed out of the memory: a job is answered once, no party has a verdict
\* that is not remembered, and only a crash forgets an effect.
MemorySuffices == IsFiniteSet(Jobs) /\ Cardinality(Jobs) <= MaxRemembered

Remembers(r) == \E i \in DOMAIN memory : memory[i].job = r.job /\ memory[i].verdict = r.verdict
RememberedResults == {r \in Results : Remembers(r)}

AnsweredOnce ==
    /\ \A i, k \in DOMAIN memory : memory[i].job = memory[k].job => i = k
    /\ device.pc \in {"running", "executed"} => ~ Remembered(device.job)

Testimony ==
    /\ \A s \in Sessions : up[s] \in Seq(RememberedResults)
    /\ \A t \in Slots : task[t].kind = "result" => Remembers(task[t])
    /\ device.pc = "remembered" => Remembers(device)
    /\ \A j \in Jobs, v \in Verdicts :
          row[j] = v \/ v \in answers[j] => Remembers([job |-> j, verdict |-> v])

Repetition ==
    \A j \in Jobs :
        /\ performed[j] <= crashes + 1
        /\ performed[j] <= crashes \/ Remembered(j) \/ (device.pc = "executed" /\ device.job = j)

MemoryInv == AnsweredOnce /\ Testimony /\ Repetition

\* As long as nothing fails, every job submitted while the device was away is
\* settled in the end; and whatever fails, what the device has done does not stay
\* unrecorded.
BacklogDrains ==
    /\ [](faults = 0) => \A j \in Jobs : row[j] \in Open ~> row[j] \notin Open
    /\ \A j \in Jobs : performed[j] > 0 ~> row[j] \notin Open

Lifecycle ==
    INSTANCE JobLifecycle
        WITH state <- [j \in Jobs |-> IF row[j] \in Open THEN "open" ELSE row[j]],
             effects <- {j \in Jobs : performed[j] > 0},
             late <- passed

\* The job path implements JobLifecycle.
ImplementsLifecycle == Lifecycle!Spec
=============================================================================
