--------------------------- MODULE SyncJobsProofs ---------------------------
(***************************************************************************)
(* Proofs about SyncJobs for every set of jobs, every bound and every      *)
(* number of failures.                                                     *)
(***************************************************************************)
EXTENDS SyncJobs, SequenceTheorems, FiniteSetTheorems, TLAPS

\* A prefix of a sequence is a sequence over the same set.
LEMMA PrefixType ==
    ASSUME NEW S, NEW q \in Seq(S), NEW p \in Prefixes(q)
    PROVE  p \in Seq(S)
BY DEF Prefixes

\* Only jobs are selected for dispatch.
LEMMA OldestType ==
    ASSUME NEW n, NEW S \in SUBSET Jobs
    PROVE  Oldest(n, S) \in SUBSET Jobs
BY DEF Oldest

\* Sending keeps the channels and the handlers typed.
LEMMA SendRowsType ==
    ASSUME TypeOK, NEW t \in Slots, task[t] # Idle,
           NEW rows \in SUBSET Jobs, SendRows(t, rows)
    PROVE  /\ task' \in [Slots -> {Idle} \cup HelloTasks \cup ResultTasks]
           /\ down' \in [Sessions -> Seq(Jobs)]
<1>1. task[t] \in HelloTasks \cup ResultTasks
  BY DEF TypeOK
<1>2. [task EXCEPT ![t] = Idle] \in [Slots -> {Idle} \cup HelloTasks \cup ResultTasks]
  BY DEF TypeOK
<1>3. [task EXCEPT ![t].rows = rows, ![t].pc = "mark"]
        \in [Slots -> {Idle} \cup HelloTasks \cup ResultTasks]
  <2>1. [task[t] EXCEPT !.rows = rows, !.pc = "mark"] \in HelloTasks \cup ResultTasks
    BY <1>1 DEF HelloTasks, ResultTasks
  <2> QED
    BY <2>1 DEF TypeOK
<1>4. task[t].session \in Sessions
  BY <1>1 DEF HelloTasks, ResultTasks
<1>5. \A j \in Jobs : Deliver(task[t].session, j) => down' \in [Sessions -> Seq(Jobs)]
  BY <1>4 DEF Deliver, TypeOK
<1> QED
  BY <1>2, <1>3, <1>5 DEF SendRows, Finish, TypeOK

LEMMA ContinueType ==
    ASSUME TypeOK, NEW t \in Slots, NEW pc,
           \/ task[t] \in HelloTasks /\ pc \in {"expire", "purge", "select"}
           \/ task[t] \in ResultTasks /\ pc \in {"complete", "select"},
           Continue(t, pc)
    PROVE  task' \in [Slots -> {Idle} \cup HelloTasks \cup ResultTasks]
<1>1. [task[t] EXCEPT !.pc = pc] \in HelloTasks \cup ResultTasks
  BY DEF HelloTasks, ResultTasks
<1>2. task' = [task EXCEPT ![t] = [task[t] EXCEPT !.pc = pc]]
  BY DEF Continue
<1> QED
  BY <1>1, <1>2 DEF TypeOK

LEMMA FinishType ==
    ASSUME TypeOK, NEW t \in Slots, Finish(t)
    PROVE  task' \in [Slots -> {Idle} \cup HelloTasks \cup ResultTasks]
BY DEF TypeOK, Finish

LEMMA AnswerType ==
    ASSUME TypeOK, NEW j \in Jobs, NEW a \in Open \cup Terminal \cup {"error"},
           Answer(j, a)
    PROVE  answers' \in [Jobs -> SUBSET (Open \cup Terminal \cup {"error"})]
<1>1. answers[j] \cup {a} \in SUBSET (Open \cup Terminal \cup {"error"})
  BY DEF TypeOK
<1> QED
  BY <1>1 DEF TypeOK, Answer

LEMMA ReturnType ==
    ASSUME TypeOK, NEW j \in Jobs, NEW a \in Open \cup Terminal \cup {"error"},
           Return(j, a)
    PROVE  /\ call' \in [Jobs -> {"none", "inserted", "sent", "waiting", "done"}]
           /\ answers' \in [Jobs -> SUBSET (Open \cup Terminal \cup {"error"})]
<1>1. call' \in [Jobs -> {"none", "inserted", "sent", "waiting", "done"}]
  BY DEF Return, TypeOK
<1> QED
  BY <1>1, AnswerType DEF Return

LEMMA CountType ==
    ASSUME NEW f \in [Jobs -> Nat], NEW j \in Jobs
    PROVE  [f EXCEPT ![j] = @ + 1] \in [Jobs -> Nat]
OBVIOUS

\* The kind of a task tells its type.
LEMMA TaskKinds ==
    ASSUME TypeOK, NEW t \in Slots
    PROVE  /\ task[t].kind = "hello" => task[t] \in HelloTasks
           /\ task[t].kind = "result" => task[t] \in ResultTasks
<1>1. task[t] \in {Idle} \cup HelloTasks \cup ResultTasks
  BY DEF TypeOK
<1>2. Idle.kind = "idle"
  BY DEF Idle
<1>3. \A x \in HelloTasks : x.kind = "hello"
  BY DEF HelloTasks
<1>4. \A x \in ResultTasks : x.kind = "result"
  BY DEF ResultTasks
<1> QED
  BY <1>1, <1>2, <1>3, <1>4

\* What is remembered or under way is a result.
LEMMA ElementType ==
    ASSUME NEW q \in Seq(Results), NEW i \in DOMAIN q
    PROVE  q[i] \in Results /\ q[i].job \in Jobs /\ q[i].verdict \in Verdicts
<1>1. i \in 1 .. Len(q)
  BY LenProperties
<1>2. q[i] \in Results
  BY <1>1, ElementOfSeq
<1> QED
  BY <1>2 DEF Results

\* One step per action: it leaves every variable in its type.
LEMMA TypeInductive == TypeOK /\ [Next]_vars => TypeOK'
<1> SUFFICES ASSUME TypeOK, [Next]_vars PROVE TypeOK'
  OBVIOUS
<1> USE ConstantsAssumption DEF linkVars, callerVars, deviceVars, brokerVars
<1>1. CASE UNCHANGED vars
  BY <1>1 DEF vars, TypeOK
<1>2. ASSUME NEW j \in Jobs, CallerStep(j) PROVE TypeOK'
  <2> USE DEF TypeOK, Open, Terminal, RowStates
  <2>1. CASE Submit(j)
    BY <2>1 DEF Submit
  <2>2. CASE ExecuteSend(j)
    <3>1. down' \in [Sessions -> Seq(Jobs)]
      <4>1. CASE UNCHANGED down
        BY <4>1
      <4>2. ASSUME NEW s \in Sessions, Deliver(s, j)
            PROVE  down' \in [Sessions -> Seq(Jobs)]
        BY <4>2 DEF Deliver
      <4> QED
        BY <2>2, <4>1, <4>2 DEF ExecuteSend
    <3>2. /\ call' \in [Jobs -> {"none", "inserted", "sent", "waiting", "done"}]
          /\ answers' \in [Jobs -> SUBSET (Open \cup Terminal \cup {"error"})]
      BY <2>2, ReturnType DEF ExecuteSend
    <3> QED
      BY <2>2, <3>1, <3>2 DEF ExecuteSend
  <2>3. CASE ExecuteMark(j)
    <3>1. /\ call' \in [Jobs -> {"none", "inserted", "sent", "waiting", "done"}]
          /\ answers' \in [Jobs -> SUBSET (Open \cup Terminal \cup {"error"})]
      BY <2>3, ReturnType DEF ExecuteMark
    <3> QED
      BY <2>3, <3>1 DEF ExecuteMark
  <2>4. CASE WaitTimeout(j)
    BY <2>4, ReturnType DEF WaitTimeout
  <2>5. CASE PollRead(j)
    <3>1. answers' \in [Jobs -> SUBSET (Open \cup Terminal \cup {"error"})]
      BY <2>5, AnswerType DEF PollRead
    <3>2. poll' \in [Jobs -> {"idle", "expiring"}]
      BY <2>5 DEF PollRead
    <3> QED
      BY <2>5, <3>1, <3>2 DEF PollRead
  <2>6. CASE PollExpire(j)
    <3>1. answers' \in [Jobs -> SUBSET (Open \cup Terminal \cup {"error"})]
      BY <2>6, AnswerType DEF PollExpire
    <3> QED
      BY <2>6, <3>1 DEF PollExpire, UpdateOpen
  <2> QED
    BY <1>2, <2>1, <2>2, <2>3, <2>4, <2>5, <2>6 DEF CallerStep
<1>3. ASSUME NEW j \in Jobs, Deadline(j) PROVE TypeOK'
  BY <1>3 DEF TypeOK, Deadline
<1>4. ASSUME NEW t \in Slots, HandlerStep(t) PROVE TypeOK'
  <2>1. CASE HelloReady(t)
    <3>1. task[t] \in HelloTasks
      BY <2>1, TaskKinds DEF HelloReady, IsTask
    <3>2. task' \in [Slots -> {Idle} \cup HelloTasks \cup ResultTasks]
      BY <2>1, <3>1, ContinueType, FinishType DEF HelloReady
    <3> QED
      BY <2>1, <3>2 DEF HelloReady, TypeOK, SocketStates
  <2>2. CASE HelloExpire(t)
    <3>1. task[t] \in HelloTasks
      BY <2>2, TaskKinds DEF HelloExpire, IsTask
    <3>2. task' \in [Slots -> {Idle} \cup HelloTasks \cup ResultTasks]
      BY <2>2, <3>1, ContinueType DEF HelloExpire
    <3> QED
      BY <2>2, <3>2 DEF HelloExpire, TypeOK, RowStates, Terminal
  <2>8. CASE HelloPurge(t)
    <3>1. task[t] \in HelloTasks
      BY <2>8, TaskKinds DEF HelloPurge, IsTask
    <3>2. task' \in [Slots -> {Idle} \cup HelloTasks \cup ResultTasks]
      BY <2>8, <3>1, ContinueType DEF HelloPurge
    <3> QED
      BY <2>8, <3>2 DEF HelloPurge, TypeOK, RowStates, Terminal
  <2>3. CASE HelloSelect(t)
    <3>1. task[t] # Idle
      BY <2>3 DEF HelloSelect, IsTask, Idle
    <3>2. Oldest(MaxInFlight, Live(Open)) \in SUBSET Jobs
      BY OldestType DEF Live
    <3> QED
      BY <2>3, <3>1, <3>2, SendRowsType DEF HelloSelect, DispatchSelect, TypeOK
  <2>4. CASE ResultLookup(t)
    <3>1. task[t] \in ResultTasks
      BY <2>4, TaskKinds DEF ResultLookup, IsTask
    <3>2. task' \in [Slots -> {Idle} \cup HelloTasks \cup ResultTasks]
      BY <2>4, <3>1, ContinueType, FinishType DEF ResultLookup
    <3> QED
      BY <2>4, <3>2 DEF ResultLookup, TypeOK
  <2>5. CASE ResultComplete(t)
    <3>1. task[t] \in ResultTasks
      BY <2>5, TaskKinds DEF ResultComplete, IsTask
    <3>2. task' \in [Slots -> {Idle} \cup HelloTasks \cup ResultTasks]
      BY <2>5, <3>1, ContinueType, FinishType DEF ResultComplete
    <3>3. task[t].job \in Jobs /\ task[t].verdict \in Verdicts
      BY <3>1 DEF ResultTasks
    <3>4. row' \in [Jobs -> RowStates]
      BY <2>5, <3>3 DEF ResultComplete, UpdateOpen, TypeOK, RowStates, Terminal
    <3>5. /\ call' \in [Jobs -> {"none", "inserted", "sent", "waiting", "done"}]
          /\ answers' \in [Jobs -> SUBSET (Open \cup Terminal \cup {"error"})]
      <4>1. task[t].verdict \in Open \cup Terminal \cup {"error"}
        BY <3>3 DEF Terminal
      <4> QED
        BY <2>5, <3>3, <4>1, ReturnType DEF ResultComplete, TypeOK
    <3> QED
      BY <2>5, <3>2, <3>4, <3>5 DEF ResultComplete, TypeOK
  <2>6. CASE ResultSelect(t)
    <3>1. task[t] # Idle
      BY <2>6 DEF ResultSelect, IsTask, Idle
    <3>2. Oldest(1, Live({"queued"})) \in SUBSET Jobs
      BY OldestType DEF Live
    <3> QED
      BY <2>6, <3>1, <3>2, SendRowsType DEF ResultSelect, DispatchSelect, TypeOK
  <2>7. CASE DispatchMark(t)
    <3>1. task[t] \in HelloTasks \cup ResultTasks
      BY <2>7 DEF DispatchMark, TypeOK
    <3>2. PICK j \in task[t].rows : UpdateOpen(j, "dispatched")
                                  /\ SendRows(t, task[t].rows \ {j})
      BY <2>7 DEF DispatchMark
    <3>3. task[t].rows \in SUBSET Jobs
      BY <3>1 DEF HelloTasks, ResultTasks
    <3>4. /\ task' \in [Slots -> {Idle} \cup HelloTasks \cup ResultTasks]
          /\ down' \in [Sessions -> Seq(Jobs)]
      <4>1. task[t].rows \ {j} \in SUBSET Jobs
        BY <3>3
      <4> QED
        BY <2>7, <3>2, <4>1, SendRowsType DEF DispatchMark
    <3>5. row' \in [Jobs -> RowStates]
      BY <3>2, <3>3 DEF UpdateOpen, TypeOK, RowStates, Open
    <3> QED
      BY <2>7, <3>4, <3>5 DEF DispatchMark, TypeOK
  <2> QED
    BY <1>4, <2>1, <2>2, <2>3, <2>4, <2>5, <2>6, <2>7, <2>8 DEF HandlerStep
<1>5. ASSUME NEW t \in Slots, Arrival(t) PROVE TypeOK'
  <2>1. PICK s \in Sessions : HelloArrives(t, s) \/ ResultArrives(t, s)
    BY <1>5 DEF Arrival
  <2>2. CASE HelloArrives(t, s)
    BY <2>2 DEF HelloArrives, TypeOK, HelloTasks, SocketStates
  <2>3. CASE ResultArrives(t, s)
    <3>1. Head(up[s]) \in Results /\ Tail(up[s]) \in Seq(Results)
      BY <2>3 DEF ResultArrives, TypeOK
    <3>2. [kind |-> "result", session |-> s, rows |-> {}, pc |-> "lookup",
           job |-> Head(up[s]).job, verdict |-> Head(up[s]).verdict] \in ResultTasks
      BY <3>1 DEF ResultTasks, Results
    <3> QED
      BY <2>3, <3>1, <3>2 DEF ResultArrives, TypeOK
  <2> QED
    BY <2>1, <2>2, <2>3
<1>6. CASE DeviceStep
  <2>1. CASE DeviceTake
    <3>1. device.session \in Sessions
      BY <2>1 DEF DeviceTake, TypeOK, DeviceStates, NoSession
    <3>2. Head(down[device.session]) \in Jobs /\ Tail(down[device.session]) \in Seq(Jobs)
      BY <2>1, <3>1 DEF DeviceTake, TypeOK
    <3>3. \A i \in DOMAIN memory : memory[i].verdict \in Verdicts
      BY ElementType DEF TypeOK
    <3>4. device' \in DeviceStates
      BY <2>1, <3>1, <3>2, <3>3 DEF DeviceTake, DeviceStates, Verdicts
    <3> QED
      BY <2>1, <3>2, <3>4 DEF DeviceTake, TypeOK
  <2>2. CASE DevicePerform
    <3>1. device.session \in Sessions /\ device.job \in Jobs
      BY <2>2 DEF DevicePerform, TypeOK, DeviceStates
    <3>2. device' \in DeviceStates
      BY <2>2, <3>1 DEF DevicePerform, DeviceStates
    <3>3. performed' \in [Jobs -> Nat]
      BY <2>2, <3>1, CountType DEF DevicePerform, TypeOK
    <3> QED
      BY <2>2, <3>2, <3>3 DEF DevicePerform, TypeOK
  <2>3. CASE DeviceRemember
    <3>1. /\ device.session \in Sessions /\ device.job \in Jobs
          /\ device.verdict \in Verdicts
      BY <2>3 DEF DeviceRemember, TypeOK, DeviceStates
    <3>2. device' \in DeviceStates
      BY <2>3, <3>1 DEF DeviceRemember, TypeOK, DeviceStates
    <3>3. memory' \in Seq(Results)
      <4> DEFINE grown == Append(memory, [job |-> device.job, verdict |-> device.verdict])
      <4>1. grown \in Seq(Results) /\ grown # <<>>
        <5>1. [job |-> device.job, verdict |-> device.verdict] \in Results
          BY <3>1 DEF Results
        <5> QED
          <6>1. memory \in Seq(Results)
            BY DEF TypeOK
          <6> QED
            BY <5>1, <6>1, AppendProperties
      <4>2. Tail(grown) \in Seq(Results)
        BY <4>1, HeadTailProperties
      <4> QED
        BY <2>3, <4>1, <4>2 DEF DeviceRemember
    <3> QED
      BY <2>3, <3>2, <3>3 DEF DeviceRemember, TypeOK
  <2>4. CASE DeviceSend
    <3>1. /\ device.session \in Sessions /\ device.job \in Jobs
          /\ device.verdict \in Verdicts
      BY <2>4 DEF DeviceSend, TypeOK, DeviceStates
    <3> QED
      <4>1. [job |-> device.job, verdict |-> device.verdict] \in Results
        BY <3>1 DEF Results
      <4>2. up' \in [Sessions -> Seq(Results)]
        BY <2>4, <3>1, <4>1 DEF DeviceSend, TypeOK
      <4>3. device' \in DeviceStates
        BY <2>4, <3>1 DEF DeviceSend, DeviceIdle, DeviceStates
      <4> QED
        BY <2>4, <4>2, <4>3 DEF DeviceSend, TypeOK
  <2>5. CASE DeviceLeave
    BY <2>5 DEF DeviceLeave, DeviceIdle, TypeOK, DeviceStates
  <2>6. ASSUME NEW s \in Sessions, DeviceConnect(s) PROVE TypeOK'
    BY <2>6 DEF DeviceConnect, DeviceIdle, TypeOK, DeviceStates, SocketStates
  <2> QED
    BY <1>6, <2>1, <2>2, <2>3, <2>4, <2>5, <2>6 DEF DeviceStep
<1>7. ASSUME NEW s \in Sessions, SocketClose(s) PROVE TypeOK'
  BY <1>7 DEF SocketClose, TypeOK, SocketStates
<1>8. CASE Failure
  <2>1. ASSUME NEW s \in Sessions, LinkDown(s) PROVE TypeOK'
    <3>1. \A q \in Prefixes(down[s]) : q \in Seq(Jobs)
      BY PrefixType DEF TypeOK
    <3>2. \A q \in Prefixes(up[s]) : q \in Seq(Results)
      BY PrefixType DEF TypeOK
    <3> QED
      BY <2>1, <3>1, <3>2 DEF LinkDown, Fault, TypeOK
  <2>2. CASE DeviceCrash
    <3>1. device.session \in Sessions
      BY <2>2 DEF DeviceCrash, TypeOK, DeviceStates, NoSession
    <3>2. \A q \in Prefixes(up[device.session]) : q \in Seq(Results)
      BY <3>1, PrefixType DEF TypeOK
    <3> QED
      BY <2>2, <3>1, <3>2 DEF DeviceCrash, Fault, DeviceIdle, TypeOK, DeviceStates
  <2>3. CASE BrokerRestart
    <3>1. \A r \in Sessions : \A q \in Prefixes(down[r]) : q \in Seq(Jobs)
      BY PrefixType DEF TypeOK
    <3> QED
      BY <2>3, <3>1 DEF BrokerRestart, Fault, TypeOK, SocketStates
  <2>4. ASSUME NEW t \in Slots, TaskFails(t) PROVE TypeOK'
    BY <2>4, FinishType DEF TaskFails, Fault, TypeOK
  <2> QED
    BY <1>8, <2>1, <2>2, <2>3, <2>4 DEF Failure
<1> QED
  BY <1>1, <1>2, <1>3, <1>4, <1>5, <1>6, <1>7, <1>8 DEF Next

\* Every variable keeps its type in every reachable state.
THEOREM TypeCorrect == Spec => []TypeOK
<1>1. Init => TypeOK
  BY ConstantsAssumption
     DEF Init, TypeOK, RowStates, SocketStates, DeviceIdle, DeviceStates
<1> QED
  BY <1>1, TypeInductive, PTL DEF Spec

-----------------------------------------------------------------------------
\* How a step may change a row: it appears, is dispatched, is settled, or is
\* deleted once settled.
RowMove(j) ==
    \/ row'[j] = row[j]
    \/ row[j] = "absent" /\ row'[j] = "queued"
    \/ row[j] \in Open /\ row'[j] \in Open \cup Terminal
    \/ row[j] \in Terminal /\ row'[j] = "purged"

LEMMA RowMoves ==
    ASSUME TypeOK, [Next]_vars
    PROVE  \A j \in Jobs : RowMove(j)
<1> SUFFICES ASSUME NEW k \in Jobs PROVE RowMove(k)
  OBVIOUS
<1> USE DEF RowMove
<1>1. CASE UNCHANGED row
  BY <1>1
<1>2. ASSUME NEW j \in Jobs, CallerStep(j) PROVE RowMove(k)
  <2>1. CASE Submit(j)
    BY <2>1 DEF Submit, TypeOK
  <2>2. CASE ExecuteMark(j)
    BY <2>2 DEF ExecuteMark, TypeOK, Open
  <2>3. CASE PollExpire(j)
    BY <2>3 DEF PollExpire, UpdateOpen, TypeOK, Terminal
  <2> QED
    BY <1>1, <1>2, <2>1, <2>2, <2>3 DEF CallerStep, ExecuteSend, WaitTimeout, PollRead
<1>3. ASSUME NEW t \in Slots, HandlerStep(t) PROVE RowMove(k)
  <2>1. CASE HelloExpire(t)
    BY <2>1 DEF HelloExpire, Overdue, IsOpenRow, Terminal
  <2>2. CASE HelloPurge(t)
    BY <2>2 DEF HelloPurge
  <2>3. CASE ResultComplete(t)
    <3>1. task[t].verdict \in Terminal
      BY <2>3, TaskKinds DEF ResultComplete, IsTask, ResultTasks, Terminal
    <3> QED
      BY <2>3, <3>1 DEF ResultComplete, UpdateOpen, TypeOK
  <2>4. CASE DispatchMark(t)
    BY <2>4 DEF DispatchMark, UpdateOpen, TypeOK, Open
  <2> QED
    BY <1>1, <1>3, <2>1, <2>2, <2>3, <2>4
       DEF HandlerStep, HelloReady, HelloSelect, ResultLookup, ResultSelect, DispatchSelect
<1>4. ASSUME NEW j \in Jobs, Deadline(j) PROVE UNCHANGED row
  BY <1>4 DEF Deadline
<1>5. ASSUME NEW t \in Slots, Arrival(t) PROVE UNCHANGED row
  BY <1>5 DEF Arrival, HelloArrives, ResultArrives
<1>6. ASSUME DeviceStep PROVE UNCHANGED row
  BY <1>6 DEF DeviceStep, DeviceTake, DevicePerform, DeviceRemember, DeviceSend,
              DeviceLeave, DeviceConnect
<1>7. ASSUME NEW s \in Sessions, SocketClose(s) PROVE UNCHANGED row
  BY <1>7 DEF SocketClose
<1>8. ASSUME Failure PROVE UNCHANGED row
  BY <1>8 DEF Failure, LinkDown, DeviceCrash, BrokerRestart, TaskFails
<1>9. CASE UNCHANGED vars
  BY <1>1, <1>9 DEF vars
<1> QED
  BY <1>1, <1>2, <1>3, <1>4, <1>5, <1>6, <1>7, <1>8, <1>9 DEF Next

\* The property of OutcomeIsFinal, for every number of jobs, slots and faults.
THEOREM OutcomeFinal == Spec => OutcomeIsFinal
<1>1. TypeOK /\ [Next]_vars
        => [\A j \in Jobs : row[j] \in Terminal => row'[j] \in {row[j], "purged"}]_vars
  <2> SUFFICES ASSUME TypeOK, [Next]_vars, NEW j \in Jobs, row[j] \in Terminal
               PROVE  row'[j] \in {row[j], "purged"}
    OBVIOUS
  <2>1. RowMove(j)
    BY RowMoves
  <2> QED
    BY <2>1 DEF RowMove, Open, Terminal, Verdicts
<1> QED
  BY <1>1, TypeCorrect, PTL DEF Spec, OutcomeIsFinal

-----------------------------------------------------------------------------
\* Only connect() opens a socket, and it closes the open ones.
LEMMA OneWriterInductive ==
    ASSUME TypeOK, OneActiveWriter, [Next]_vars
    PROVE  OneActiveWriter'
<1> SUFFICES ASSUME NEW r \in Sessions, NEW s \in Sessions,
                    IsOpenSocket(r)', IsOpenSocket(s)'
             PROVE  r = s
  BY DEF OneActiveWriter
<1> USE DEF OneActiveWriter, IsOpenSocket
<1>1. CASE UNCHANGED socket
  BY <1>1
<1>2. ASSUME NEW j \in Jobs, CallerStep(j) \/ Deadline(j) PROVE UNCHANGED socket
  BY <1>2 DEF CallerStep, Submit, ExecuteSend, ExecuteMark, WaitTimeout, PollRead,
              PollExpire, Deadline, brokerVars
<1>3. ASSUME NEW t \in Slots, HandlerStep(t) PROVE r = s
  <2>1. CASE HelloReady(t)
    BY <2>1 DEF HelloReady, TypeOK
  <2> QED
    BY <1>1, <1>3, <2>1
       DEF HandlerStep, HelloExpire, HelloPurge, HelloSelect, ResultLookup,
           ResultComplete, ResultSelect, DispatchSelect, DispatchMark
<1>4. ASSUME NEW t \in Slots, Arrival(t) PROVE r = s
  BY <1>4 DEF Arrival, HelloArrives, ResultArrives, TypeOK
<1>5. CASE DeviceStep
  <2>1. ASSUME NEW q \in Sessions, DeviceConnect(q) PROVE r = s
    BY <2>1 DEF DeviceConnect, TypeOK
  <2> QED
    BY <1>1, <1>5, <2>1 DEF DeviceStep, DeviceTake, DevicePerform, DeviceRemember,
                            DeviceSend, DeviceLeave, brokerVars
<1>6. ASSUME NEW q \in Sessions, SocketClose(q) PROVE r = s
  BY <1>6 DEF SocketClose, TypeOK
<1>7. CASE Failure
  BY <1>1, <1>7 DEF Failure, LinkDown, DeviceCrash, BrokerRestart, TaskFails, TypeOK,
                    brokerVars
<1>8. CASE UNCHANGED vars
  BY <1>1, <1>8 DEF vars
<1> QED
  BY <1>2, <1>1, <1>3, <1>4, <1>5, <1>6, <1>7, <1>8 DEF Next

\* The broker never holds two connections of a device that it can send on.
THEOREM OneWriter == Spec => []OneActiveWriter
<1>1. Init => OneActiveWriter
  BY DEF Init, OneActiveWriter, IsOpenSocket
<1> QED
  BY <1>1, OneWriterInductive, TypeCorrect, PTL DEF Spec

-----------------------------------------------------------------------------
\* Submitted jobs stay submitted.
LEMMA SubmittedGrows ==
    ASSUME TypeOK, [Next]_vars
    PROVE  Submitted \subseteq Submitted'
<1>1. \A j \in Jobs : RowMove(j)
  BY RowMoves
<1> QED
  BY <1>1 DEF RowMove, Submitted, Open, Terminal, Verdicts

\* What has taken effect stays so.
LEMMA EffectsGrow ==
    ASSUME TypeOK, [Next]_vars
    PROVE  \A j \in Jobs : performed[j] > 0 => performed'[j] > 0
<1>1. CASE UNCHANGED performed
  BY <1>1
<1>2. CASE DevicePerform
  BY <1>2 DEF DevicePerform, TypeOK
<1>3. ASSUME ~DevicePerform PROVE UNCHANGED performed
  <2>1. ASSUME NEW j \in Jobs, CallerStep(j) \/ Deadline(j) PROVE UNCHANGED performed
    BY <2>1 DEF CallerStep, Submit, ExecuteSend, ExecuteMark, WaitTimeout, PollRead,
                PollExpire, Deadline, deviceVars
  <2>2. ASSUME NEW t \in Slots, HandlerStep(t) \/ Arrival(t) PROVE UNCHANGED performed
    BY <2>2 DEF HandlerStep, HelloReady, HelloExpire, HelloPurge, HelloSelect,
                ResultLookup, ResultComplete, ResultSelect, DispatchSelect,
                DispatchMark, Arrival, HelloArrives, ResultArrives, deviceVars
  <2>3. CASE DeviceStep
    BY <1>3, <2>3 DEF DeviceStep, DeviceTake, DeviceRemember, DeviceSend, DeviceLeave,
                      DeviceConnect
  <2>4. CASE (\E s \in Sessions : SocketClose(s)) \/ Failure
    BY <2>4 DEF SocketClose, Failure, LinkDown, DeviceCrash, BrokerRestart, TaskFails,
                deviceVars
  <2>5. CASE UNCHANGED vars
    BY <2>5 DEF vars
  <2> QED
    BY <2>1, <2>2, <2>3, <2>4, <2>5 DEF Next
<1> QED
  BY <1>1, <1>2, <1>3

\* A prefix of a channel holds only submitted jobs if the channel does.
LEMMA DeliverProvenance ==
    ASSUME TypeOK, Provenance, NEW s \in Sessions, NEW j \in Submitted, Deliver(s, j)
    PROVE  \A r \in Sessions : down'[r] \in Seq(Submitted)
<1>1. down[s] \in Seq(Submitted)
  BY DEF Provenance
<1>2. Append(down[s], j) \in Seq(Submitted)
  BY <1>1, AppendProperties
<1> QED
  BY <1>2 DEF Deliver, Provenance, TypeOK

LEMMA SendRowsProvenance ==
    ASSUME TypeOK, Provenance, NEW t \in Slots, task[t] # Idle,
           NEW rows \in SUBSET Submitted, SendRows(t, rows)
    PROVE  /\ \A r \in Sessions : down'[r] \in Seq(Submitted)
           /\ \A u \in Slots : task'[u] # Idle => task'[u].rows \subseteq Submitted
<1>1. task[t] \in HelloTasks \cup ResultTasks
  BY DEF TypeOK
<1>2. task[t].session \in Sessions
  BY <1>1 DEF HelloTasks, ResultTasks
<1>3. ASSUME NEW u \in Slots, task'[u] # Idle
      PROVE  task'[u].rows \subseteq Submitted
  <2>1. CASE u = t
    <3>1. \/ task' = [task EXCEPT ![t] = Idle]
          \/ task' = [task EXCEPT ![t].rows = rows, ![t].pc = "mark"]
      BY DEF SendRows, Finish
    <3>2. task'[t] = Idle \/ task'[t] = [task[t] EXCEPT !.rows = rows, !.pc = "mark"]
      BY <3>1 DEF TypeOK
    <3>3. [task[t] EXCEPT !.rows = rows, !.pc = "mark"].rows = rows
      BY <1>1 DEF HelloTasks, ResultTasks
    <3> QED
      BY <1>3, <2>1, <3>2, <3>3
  <2>2. CASE u # t
    <3>1. task'[u] = task[u]
      BY <2>2 DEF SendRows, Finish, TypeOK
    <3> QED
      BY <1>3, <3>1 DEF Provenance
  <2> QED
    BY <2>1, <2>2
<1>4. \A r \in Sessions : down'[r] \in Seq(Submitted)
  <2>1. CASE UNCHANGED down
    BY <2>1 DEF Provenance
  <2>2. ASSUME NEW j \in rows, Deliver(task[t].session, j)
        PROVE  \A r \in Sessions : down'[r] \in Seq(Submitted)
    BY <1>2, <2>2, DeliverProvenance
  <2> QED
    BY <2>1, <2>2 DEF SendRows
<1> QED
  BY <1>3, <1>4

\* Moving a handler on, or ending it, leaves the rows it selected.
LEMMA ContinueProvenance ==
    ASSUME TypeOK, Provenance, NEW t \in Slots, task[t] # Idle, NEW pc,
           Continue(t, pc) \/ Finish(t)
    PROVE  \A u \in Slots : task'[u] # Idle => task'[u].rows \subseteq Submitted
<1>1. task[t] \in HelloTasks \cup ResultTasks
  BY DEF TypeOK
<1>2. [task[t] EXCEPT !.pc = pc].rows = task[t].rows
  BY <1>1 DEF HelloTasks, ResultTasks
<1>3. task'[t] = [task[t] EXCEPT !.pc = pc] \/ task'[t] = Idle
  BY DEF Continue, Finish, TypeOK
<1>4. \A u \in Slots \ {t} : task'[u] = task[u]
  BY DEF Continue, Finish, TypeOK
<1> QED
  BY <1>2, <1>3, <1>4 DEF Provenance

\* The conjuncts of Provenance in the next state, one by one.
DownNext == \A s \in Sessions : down'[s] \in Seq(Submitted')
RowsNext == \A t \in Slots : task'[t] # Idle => task'[t].rows \subseteq Submitted'
CallNext == \A j \in Jobs : call'[j] # "none" => j \in Submitted'
DeviceNext == device'.pc # "idle" => device'.job \in Submitted'
PollNext == \A j \in Jobs : poll'[j] = "expiring" => j \in passed'
PassedNext == passed' \subseteq Submitted'

\* A conjunct that speaks of a variable the step leaves alone still holds; a
\* channel or a handler filled with jobs submitted before the step is right.
LEMMA ProvenanceFrame ==
    ASSUME TypeOK, Provenance, [Next]_vars
    PROVE  /\ (\A s \in Sessions : down'[s] \in Seq(Submitted)) => DownNext
           /\ UNCHANGED down => DownNext
           /\ (\A t \in Slots : task'[t] # Idle => task'[t].rows \subseteq Submitted)
                => RowsNext
           /\ UNCHANGED task => RowsNext
           /\ UNCHANGED call => CallNext
           /\ UNCHANGED device => DeviceNext
           /\ UNCHANGED <<poll, passed>> => PollNext
           /\ UNCHANGED passed => PassedNext
<1>1. Submitted \subseteq Submitted'
  BY SubmittedGrows
<1>2. (\A s \in Sessions : down'[s] \in Seq(Submitted)) => DownNext
  <2>1. \A q \in Seq(Submitted) : q \in Seq(Submitted')
    BY <1>1, SeqMonotonic
  <2> QED
    BY <2>1 DEF DownNext
<1>3. UNCHANGED down => \A s \in Sessions : down'[s] \in Seq(Submitted)
  BY DEF Provenance
<1>4. (\A t \in Slots : task'[t] # Idle => task'[t].rows \subseteq Submitted) => RowsNext
  BY <1>1 DEF RowsNext
<1>5. UNCHANGED task => RowsNext
  BY <1>1 DEF RowsNext, Provenance
<1>6. UNCHANGED call => CallNext
  BY <1>1 DEF CallNext, Provenance
<1>7. UNCHANGED device => DeviceNext
  BY <1>1 DEF DeviceNext, Provenance
<1>8. UNCHANGED <<poll, passed>> => PollNext
  BY DEF PollNext, Provenance
<1>9. UNCHANGED passed => PassedNext
  BY <1>1 DEF PassedNext, Provenance
<1> QED
  BY <1>2, <1>3, <1>4, <1>5, <1>6, <1>7, <1>8, <1>9

LEMMA ProvenanceInductive ==
    ASSUME TypeOK, Provenance, [Next]_vars
    PROVE  Provenance'
<1> SUFFICES DownNext /\ RowsNext /\ CallNext /\ DeviceNext /\ PollNext /\ PassedNext
  BY DEF Provenance, DownNext, RowsNext, CallNext, DeviceNext, PollNext, PassedNext
<1> DEFINE Goal == DownNext /\ RowsNext /\ CallNext /\ DeviceNext /\ PollNext /\ PassedNext
<1> USE DEF brokerVars, linkVars, callerVars, deviceVars
<1>0. Submitted \subseteq Submitted'
  BY SubmittedGrows
<1>1. CASE UNCHANGED vars
  BY <1>1, ProvenanceFrame DEF vars
<1>2. ASSUME NEW j \in Jobs, CallerStep(j) PROVE Goal
  <2>1. CASE Submit(j)
    <3>1. CallNext
      BY <1>0, <2>1 DEF Submit, CallNext, Submitted, Provenance, TypeOK
    <3> QED
      BY <2>1, <3>1, ProvenanceFrame DEF Submit
  <2>2. CASE ExecuteSend(j)
    <3>1. j \in Submitted
      BY <2>2 DEF ExecuteSend, Provenance
    <3>2. DownNext
      <4>1. CASE UNCHANGED down
        BY <4>1, ProvenanceFrame
      <4>2. ASSUME NEW s \in Sessions, Deliver(s, j) PROVE DownNext
        BY <3>1, <4>2, DeliverProvenance, ProvenanceFrame
      <4> QED
        BY <2>2, <4>1, <4>2 DEF ExecuteSend
    <3>3. CallNext
      BY <1>0, <2>2, <3>1 DEF ExecuteSend, Return, CallNext, Provenance, TypeOK
    <3> QED
      BY <2>2, <3>2, <3>3, ProvenanceFrame DEF ExecuteSend
  <2>3. CASE ExecuteMark(j)
    <3>1. CallNext
      BY <1>0, <2>3 DEF ExecuteMark, Return, CallNext, Provenance, TypeOK
    <3> QED
      BY <2>3, <3>1, ProvenanceFrame DEF ExecuteMark
  <2>4. CASE WaitTimeout(j)
    <3>1. CallNext
      BY <1>0, <2>4 DEF WaitTimeout, Return, CallNext, Provenance, TypeOK
    <3> QED
      BY <2>4, <3>1, ProvenanceFrame DEF WaitTimeout
  <2>5. CASE PollRead(j)
    <3>1. PollNext
      BY <2>5 DEF PollRead, PollNext, Overdue, Provenance, TypeOK
    <3> QED
      BY <2>5, <3>1, ProvenanceFrame DEF PollRead
  <2>6. CASE PollExpire(j)
    <3>1. PollNext
      BY <2>6 DEF PollExpire, PollNext, Provenance, TypeOK
    <3> QED
      BY <2>6, <3>1, ProvenanceFrame DEF PollExpire
  <2> QED
    BY <1>2, <2>1, <2>2, <2>3, <2>4, <2>5, <2>6 DEF CallerStep
<1>3. ASSUME NEW j \in Jobs, Deadline(j) PROVE Goal
  <2>1. PollNext /\ PassedNext
    BY <1>0, <1>3 DEF Deadline, PollNext, PassedNext, Submitted, Provenance
  <2> QED
    BY <1>3, <2>1, ProvenanceFrame DEF Deadline
<1>4. ASSUME NEW t \in Slots, HandlerStep(t) PROVE Goal
  <2>1. task[t] # Idle
    BY <1>4 DEF HandlerStep, HelloReady, HelloExpire, HelloPurge, HelloSelect,
                ResultLookup, ResultComplete, ResultSelect, DispatchMark, IsTask, Idle
  <2>2. CASE DispatchMark(t)
    <3>1. task[t].rows \subseteq Submitted
      BY <2>1 DEF Provenance
    <3>2. PICK rows \in SUBSET Submitted : SendRows(t, rows)
      BY <2>2, <3>1 DEF DispatchMark
    <3>3. DownNext /\ RowsNext
      BY <2>1, <3>2, SendRowsProvenance, ProvenanceFrame
    <3> QED
      BY <2>2, <3>3, ProvenanceFrame DEF DispatchMark
  <2>3. CASE HelloSelect(t) \/ ResultSelect(t)
    <3>1. PICK rows \in SUBSET Submitted :
            /\ SendRows(t, rows)
            /\ UNCHANGED <<row, passed, socket, call, cut, up, callerVars, deviceVars, faults>>
      <4>1. \A n, states : "absent" \notin states
                             => Oldest(n, Live(states)) \in SUBSET Submitted
        BY DEF Oldest, Live, Submitted
      <4>2. "absent" \notin Open /\ "absent" \notin {"queued"}
        BY DEF Open
      <4> QED
        BY <2>3, <4>1, <4>2 DEF HelloSelect, ResultSelect, DispatchSelect
    <3>2. DownNext /\ RowsNext
      BY <2>1, <3>1, SendRowsProvenance, ProvenanceFrame
    <3> QED
      BY <3>1, <3>2, ProvenanceFrame
  <2>4. CASE ResultComplete(t)
    <3>1. RowsNext
      BY <2>1, <2>4, ContinueProvenance, ProvenanceFrame DEF ResultComplete
    <3>2. CallNext
      BY <1>0, <2>4 DEF ResultComplete, Return, CallNext, Provenance, TypeOK
    <3> QED
      BY <2>4, <3>1, <3>2, ProvenanceFrame DEF ResultComplete
  <2>5. CASE HelloReady(t) \/ HelloExpire(t) \/ HelloPurge(t) \/ ResultLookup(t)
    <3>1. RowsNext
      BY <2>1, <2>5, ContinueProvenance, ProvenanceFrame
         DEF HelloReady, HelloExpire, HelloPurge, ResultLookup
    <3> QED
      BY <2>5, <3>1, ProvenanceFrame DEF HelloReady, HelloExpire, HelloPurge, ResultLookup
  <2> QED
    BY <1>4, <2>2, <2>3, <2>4, <2>5 DEF HandlerStep
<1>5. ASSUME NEW t \in Slots, Arrival(t) PROVE Goal
  <2>1. RowsNext
    <3>1. task'[t].rows = {}
      BY <1>5 DEF Arrival, HelloArrives, ResultArrives, TypeOK
    <3>2. \A u \in Slots \ {t} : task'[u] = task[u]
      BY <1>5 DEF Arrival, HelloArrives, ResultArrives, TypeOK
    <3> QED
      BY <1>0, <3>1, <3>2 DEF RowsNext, Provenance
  <2> QED
    BY <1>5, <2>1, ProvenanceFrame DEF Arrival, HelloArrives, ResultArrives
<1>6. CASE DeviceStep
  <2>1. CASE DeviceTake
    <3>1. device.session \in Sessions
      BY <2>1 DEF DeviceTake, TypeOK, DeviceStates, NoSession
    <3>2. /\ Head(down[device.session]) \in Submitted
          /\ Tail(down[device.session]) \in Seq(Submitted)
      BY <2>1, <3>1, HeadTailProperties DEF DeviceTake, Provenance
    <3>3. DownNext
      <4>1. \A s \in Sessions : down'[s] \in Seq(Submitted)
        BY <2>1, <3>2 DEF DeviceTake, Provenance, TypeOK
      <4> QED
        BY <4>1, ProvenanceFrame
    <3>4. DeviceNext
      BY <1>0, <2>1, <3>2 DEF DeviceTake, DeviceNext
    <3> QED
      BY <2>1, <3>3, <3>4, ProvenanceFrame DEF DeviceTake
  <2>2. CASE DevicePerform \/ DeviceRemember
    <3>1. DeviceNext
      BY <1>0, <2>2 DEF DevicePerform, DeviceRemember, DeviceNext, Provenance, TypeOK,
                        DeviceStates
    <3> QED
      BY <2>2, <3>1, ProvenanceFrame DEF DevicePerform, DeviceRemember
  <2>3. CASE DeviceSend \/ DeviceLeave \/ \E s \in Sessions : DeviceConnect(s)
    <3>1. device'.pc = "idle"
      BY <2>3 DEF DeviceSend, DeviceLeave, DeviceConnect, DeviceIdle
    <3>2. DeviceNext
      BY <3>1 DEF DeviceNext
    <3>3. DownNext
      <4>1. CASE UNCHANGED down
        BY <4>1, ProvenanceFrame
      <4>2. CASE DeviceLeave
        <5>1. \A s \in Sessions : down'[s] \in Seq(Submitted)
          BY <4>2, EmptySeq DEF DeviceLeave, Provenance, TypeOK
        <5> QED
          BY <5>1, ProvenanceFrame
      <4> QED
        BY <2>3, <4>1, <4>2 DEF DeviceSend, DeviceConnect
    <3> QED
      BY <2>3, <3>2, <3>3, ProvenanceFrame DEF DeviceSend, DeviceLeave, DeviceConnect
  <2> QED
    BY <1>6, <2>1, <2>2, <2>3 DEF DeviceStep
<1>7. ASSUME NEW s \in Sessions, SocketClose(s) PROVE Goal
  BY <1>7, ProvenanceFrame DEF SocketClose
<1>8. CASE Failure
  <2>1. \A r \in Sessions : \A q \in Prefixes(down[r]) : q \in Seq(Submitted)
    BY PrefixType DEF Provenance
  <2>2. CASE \E s \in Sessions : LinkDown(s)
    <3>1. \A r \in Sessions : down'[r] \in Seq(Submitted)
      BY <2>1, <2>2 DEF LinkDown, Provenance, TypeOK
    <3> QED
      BY <2>2, <3>1, ProvenanceFrame DEF LinkDown
  <2>3. CASE DeviceCrash
    <3>1. DownNext
      BY <2>3, ProvenanceFrame, EmptySeq DEF DeviceCrash, Provenance, TypeOK
    <3>2. DeviceNext
      BY <2>3 DEF DeviceCrash, DeviceIdle, DeviceNext
    <3> QED
      BY <2>3, <3>1, <3>2, ProvenanceFrame DEF DeviceCrash
  <2>4. CASE BrokerRestart
    <3>1. \A r \in Sessions : down'[r] \in Seq(Submitted)
      BY <2>1, <2>4 DEF BrokerRestart, Provenance, TypeOK
    <3>2. RowsNext
      BY <2>4 DEF BrokerRestart, RowsNext
    <3>3. CallNext
      BY <1>0, <2>4 DEF BrokerRestart, CallNext, Provenance
    <3> QED
      BY <2>4, <3>1, <3>2, <3>3, ProvenanceFrame DEF BrokerRestart
  <2>5. ASSUME NEW t \in Slots, TaskFails(t) PROVE Goal
    <3>1. RowsNext
      BY <2>5, ContinueProvenance, ProvenanceFrame DEF TaskFails
    <3> QED
      BY <2>5, <3>1, ProvenanceFrame DEF TaskFails
  <2> QED
    BY <1>8, <2>2, <2>3, <2>4, <2>5 DEF Failure
<1> QED
  BY <1>1, <1>2, <1>3, <1>4, <1>5, <1>6, <1>7, <1>8 DEF Next

-----------------------------------------------------------------------------
\* The conjuncts of Evidence in the next state, one by one.
MemoryNext == memory' \in Seq(BackedResults')
UpNext == \A s \in Sessions : up'[s] \in Seq(BackedResults')
TaskNext == \A t \in Slots : (task[t].kind = "result" => Backed(task[t]))'
VerdictNext == (device.pc \in {"executed", "remembered"} => Backed(device))'
ToldNext == SuccessWasPerformed'

\* Whatever the step puts in a place was backed by an effect before the step.
EvidenceKept ==
    /\ memory' \in Seq(BackedResults)
    /\ \A s \in Sessions : up'[s] \in Seq(BackedResults)
    /\ \A t \in Slots : task'[t].kind = "result"
                          => task'[t].job \in Jobs /\ Backed(task'[t])
    /\ device'.pc \in {"executed", "remembered"}
         => device'.job \in Jobs /\ Backed(device')
    /\ \A j \in Jobs : row'[j] = "succeeded" \/ "succeeded" \in answers'[j]
                         => performed[j] > 0

LEMMA EvidenceFrame ==
    ASSUME TypeOK, Evidence, [Next]_vars
    PROVE  /\ EvidenceKept => Evidence'
           /\ UNCHANGED memory => memory' \in Seq(BackedResults)
           /\ UNCHANGED up => \A s \in Sessions : up'[s] \in Seq(BackedResults)
           /\ UNCHANGED task => \A t \in Slots : task'[t].kind = "result"
                                  => task'[t].job \in Jobs /\ Backed(task'[t])
           /\ UNCHANGED device => (device'.pc \in {"executed", "remembered"}
                                     => device'.job \in Jobs /\ Backed(device'))
           /\ UNCHANGED <<row, answers>> =>
                \A j \in Jobs : row'[j] = "succeeded" \/ "succeeded" \in answers'[j]
                                  => performed[j] > 0
<1>1. \A j \in Jobs : performed[j] > 0 => performed'[j] > 0
  BY EffectsGrow
<1>2. BackedResults \subseteq BackedResults'
  BY <1>1 DEF BackedResults, Backed, Results
<1>3. \A q \in Seq(BackedResults) : q \in Seq(BackedResults')
  BY <1>2, SeqMonotonic
<1>4. ASSUME EvidenceKept PROVE Evidence'
  <2>1. memory' \in Seq(BackedResults')
    BY <1>3, <1>4 DEF EvidenceKept
  <2>2. \A s \in Sessions : up'[s] \in Seq(BackedResults')
    BY <1>3, <1>4 DEF EvidenceKept
  <2>3. \A t \in Slots : (task[t].kind = "result" => Backed(task[t]))'
    BY <1>1, <1>4 DEF EvidenceKept, Backed
  <2>4. (device.pc \in {"executed", "remembered"} => Backed(device))'
    BY <1>1, <1>4 DEF EvidenceKept, Backed
  <2>5. SuccessWasPerformed'
    BY <1>1, <1>4 DEF EvidenceKept, SuccessWasPerformed
  <2> QED
    BY <2>1, <2>2, <2>3, <2>4, <2>5 DEF Evidence
<1>5. \A t \in Slots : task[t].kind = "result" => task[t].job \in Jobs
  BY TaskKinds DEF ResultTasks
<1>6. device.pc \in {"executed", "remembered"} => device.job \in Jobs
  BY DEF TypeOK, DeviceStates
<1> QED
  BY <1>4, <1>5, <1>6 DEF Evidence, SuccessWasPerformed

\* Sending rows changes no handler's result.
LEMMA SendRowsEvidence ==
    ASSUME TypeOK, Evidence, NEW t \in Slots, task[t] # Idle,
           NEW rows, SendRows(t, rows)
    PROVE  \A u \in Slots : task'[u].kind = "result"
                              => task'[u].job \in Jobs /\ Backed(task'[u])
<1>1. task[t] \in HelloTasks \cup ResultTasks
  BY DEF TypeOK
<1>2. task'[t] = Idle \/ task'[t] = [task[t] EXCEPT !.rows = rows, !.pc = "mark"]
  <2>1. \/ task' = [task EXCEPT ![t] = Idle]
        \/ task' = [task EXCEPT ![t].rows = rows, ![t].pc = "mark"]
    BY DEF SendRows, Finish
  <2> QED
    BY <2>1 DEF TypeOK
<1>3. \A u \in Slots \ {t} : task'[u] = task[u]
  BY DEF SendRows, Finish, TypeOK
<1>4. [task[t] EXCEPT !.rows = rows, !.pc = "mark"].kind = task[t].kind
  BY <1>1 DEF HelloTasks, ResultTasks
<1>5. task[t].kind = "result" =>
        /\ [task[t] EXCEPT !.rows = rows, !.pc = "mark"].job = task[t].job
        /\ [task[t] EXCEPT !.rows = rows, !.pc = "mark"].verdict = task[t].verdict
  BY TaskKinds DEF ResultTasks
<1>6. \A u \in Slots : task[u].kind = "result"
                         => task[u].job \in Jobs /\ Backed(task[u])
  BY TaskKinds DEF Evidence, ResultTasks
<1>7. Idle.kind # "result"
  BY DEF Idle
<1> QED
  BY <1>2, <1>3, <1>4, <1>5, <1>6, <1>7 DEF Backed

LEMMA ContinueEvidence ==
    ASSUME TypeOK, Evidence, NEW t \in Slots, task[t] # Idle, NEW pc,
           Continue(t, pc) \/ Finish(t)
    PROVE  \A u \in Slots : task'[u].kind = "result"
                              => task'[u].job \in Jobs /\ Backed(task'[u])
<1>1. task[t] \in HelloTasks \cup ResultTasks
  BY DEF TypeOK
<1>2. task'[t] = Idle \/ task'[t] = [task[t] EXCEPT !.pc = pc]
  BY DEF Continue, Finish, TypeOK
<1>3. \A u \in Slots \ {t} : task'[u] = task[u]
  BY DEF Continue, Finish, TypeOK
<1>4. [task[t] EXCEPT !.pc = pc].kind = task[t].kind
  BY <1>1 DEF HelloTasks, ResultTasks
<1>5. task[t].kind = "result" =>
        /\ [task[t] EXCEPT !.pc = pc].job = task[t].job
        /\ [task[t] EXCEPT !.pc = pc].verdict = task[t].verdict
  BY TaskKinds DEF ResultTasks
<1>6. \A u \in Slots : task[u].kind = "result"
                         => task[u].job \in Jobs /\ Backed(task[u])
  BY TaskKinds DEF Evidence, ResultTasks
<1>7. Idle.kind # "result"
  BY DEF Idle
<1> QED
  BY <1>2, <1>3, <1>4, <1>5, <1>6, <1>7 DEF Backed

\* A caller may be told a success that is backed.
LEMMA AnswerEvidence ==
    ASSUME TypeOK, Evidence, NEW j \in Jobs, NEW a, Answer(j, a),
           a = "succeeded" => performed[j] > 0
    PROVE  \A k \in Jobs : "succeeded" \in answers'[k] => performed[k] > 0
BY DEF Answer, Evidence, SuccessWasPerformed, TypeOK

LEMMA EvidenceInductive ==
    ASSUME TypeOK, Evidence, [Next]_vars
    PROVE  Evidence'
<1> USE DEF brokerVars, linkVars, callerVars, deviceVars
<1>1. CASE UNCHANGED vars
  BY <1>1, EvidenceFrame DEF vars, EvidenceKept
<1>2. ASSUME NEW j \in Jobs, CallerStep(j) PROVE Evidence'
  <2>1. \A k \in Jobs : row'[k] = "succeeded" \/ "succeeded" \in answers'[k]
                          => performed[k] > 0
    <3>1. CASE Submit(j)
      BY <3>1 DEF Submit, Evidence, SuccessWasPerformed, TypeOK
    <3>2. CASE ExecuteSend(j)
      <4>1. UNCHANGED answers \/ Answer(j, "error") \/ Answer(j, "queued")
        BY <3>2 DEF ExecuteSend, Return
      <4> QED
        BY <3>2, <4>1, AnswerEvidence DEF ExecuteSend, Evidence, SuccessWasPerformed
    <3>3. CASE ExecuteMark(j)
      BY <3>3 DEF ExecuteMark, Return, Answer, Evidence, SuccessWasPerformed, TypeOK
    <3>4. CASE WaitTimeout(j)
      BY <3>4 DEF WaitTimeout, Return, Answer, Evidence, SuccessWasPerformed, TypeOK
    <3>5. CASE PollRead(j)
      <4>1. UNCHANGED answers \/ Answer(j, row[j])
        BY <3>5 DEF PollRead
      <4> QED
        BY <3>5, <4>1, AnswerEvidence DEF PollRead, Evidence, SuccessWasPerformed
    <3>6. CASE PollExpire(j)
      BY <3>6 DEF PollExpire, UpdateOpen, Answer, Evidence, SuccessWasPerformed, TypeOK
    <3> QED
      BY <1>2, <3>1, <3>2, <3>3, <3>4, <3>5, <3>6 DEF CallerStep
  <2> QED
    BY <1>2, <2>1, EvidenceFrame
       DEF CallerStep, Submit, ExecuteSend, ExecuteMark, WaitTimeout, PollRead,
           PollExpire, EvidenceKept
<1>3. ASSUME NEW j \in Jobs, Deadline(j) PROVE Evidence'
  BY <1>3, EvidenceFrame DEF Deadline, EvidenceKept
<1>4. ASSUME NEW t \in Slots, HandlerStep(t) PROVE Evidence'
  <2>1. task[t] # Idle
    BY <1>4 DEF HandlerStep, HelloReady, HelloExpire, HelloPurge, HelloSelect,
                ResultLookup, ResultComplete, ResultSelect, DispatchMark, IsTask, Idle
  <2> DEFINE Tasks == \A u \in Slots : task'[u].kind = "result"
                        => task'[u].job \in Jobs /\ Backed(task'[u])
             Told == \A j \in Jobs : row'[j] = "succeeded" \/ "succeeded" \in answers'[j]
                        => performed[j] > 0
  <2>2. CASE HelloSelect(t) \/ ResultSelect(t)
    <3>1. Tasks
      BY <2>1, <2>2, SendRowsEvidence DEF HelloSelect, ResultSelect, DispatchSelect
    <3> QED
      BY <2>2, <3>1, EvidenceFrame DEF HelloSelect, ResultSelect, DispatchSelect, EvidenceKept
  <2>3. CASE DispatchMark(t)
    <3>1. Tasks
      BY <2>1, <2>3, SendRowsEvidence DEF DispatchMark
    <3>2. Told
      BY <2>3 DEF DispatchMark, UpdateOpen, Evidence, SuccessWasPerformed, TypeOK
    <3> QED
      BY <2>3, <3>1, <3>2, EvidenceFrame DEF DispatchMark, EvidenceKept
  <2>4. CASE ResultComplete(t)
    <3>1. Tasks
      BY <2>1, <2>4, ContinueEvidence DEF ResultComplete
    <3>2. Told
      <4>1. task[t].verdict = "succeeded" => performed[task[t].job] > 0
        BY <2>4 DEF ResultComplete, IsTask, Evidence, Backed
      <4>2. task[t].job \in Jobs
        BY <2>4, TaskKinds DEF ResultComplete, IsTask, ResultTasks
      <4> QED
        BY <2>4, <4>1, <4>2
           DEF ResultComplete, UpdateOpen, Return, Answer, Evidence, SuccessWasPerformed,
               TypeOK
    <3> QED
      BY <2>4, <3>1, <3>2, EvidenceFrame DEF ResultComplete, EvidenceKept
  <2>5. CASE HelloReady(t) \/ ResultLookup(t)
    <3>1. Tasks
      BY <2>1, <2>5, ContinueEvidence DEF HelloReady, ResultLookup
    <3> QED
      BY <2>5, <3>1, EvidenceFrame DEF HelloReady, ResultLookup, EvidenceKept
  <2>6. CASE HelloExpire(t) \/ HelloPurge(t)
    <3>1. Tasks
      BY <2>1, <2>6, ContinueEvidence DEF HelloExpire, HelloPurge
    <3>2. Told
      BY <2>6 DEF HelloExpire, HelloPurge, Evidence, SuccessWasPerformed
    <3> QED
      BY <2>6, <3>1, <3>2, EvidenceFrame DEF HelloExpire, HelloPurge, EvidenceKept
  <2> QED
    BY <1>4, <2>2, <2>3, <2>4, <2>5, <2>6 DEF HandlerStep
<1>5. ASSUME NEW t \in Slots, Arrival(t) PROVE Evidence'
  <2>1. PICK s \in Sessions : HelloArrives(t, s) \/ ResultArrives(t, s)
    BY <1>5 DEF Arrival
  <2>2. \A u \in Slots \ {t} : task'[u] = task[u]
    BY <2>1 DEF HelloArrives, ResultArrives, TypeOK
  <2>3. \A u \in Slots : task[u].kind = "result" => task[u].job \in Jobs /\ Backed(task[u])
    BY TaskKinds DEF Evidence, ResultTasks
  <2>4. CASE HelloArrives(t, s)
    <3>1. task'[t].kind # "result"
      BY <2>4 DEF HelloArrives, TypeOK
    <3> QED
      BY <2>2, <2>3, <2>4, <3>1, EvidenceFrame DEF HelloArrives, EvidenceKept
  <2>5. CASE ResultArrives(t, s)
    <3>1. Head(up[s]) \in BackedResults /\ Tail(up[s]) \in Seq(BackedResults)
      BY <2>5, HeadTailProperties DEF ResultArrives, Evidence
    <3>2. task'[t].job \in Jobs /\ Backed(task'[t])
      BY <2>5, <3>1 DEF ResultArrives, BackedResults, Results, Backed, TypeOK
    <3>3. \A r \in Sessions : up'[r] \in Seq(BackedResults)
      BY <2>5, <3>1 DEF ResultArrives, Evidence, TypeOK
    <3> QED
      BY <2>2, <2>3, <2>5, <3>2, <3>3, EvidenceFrame DEF ResultArrives, EvidenceKept
  <2> QED
    BY <2>1, <2>4, <2>5
<1>6. CASE DeviceStep
  <2>1. CASE DeviceTake
    <3>1. device'.pc \in {"executed", "remembered"}
            => device'.job \in Jobs /\ Backed(device')
      <4>1. device.session \in Sessions
        BY <2>1 DEF DeviceTake, TypeOK, DeviceStates, NoSession
      <4>2. Head(down[device.session]) \in Jobs
        BY <2>1, <4>1, HeadTailProperties DEF DeviceTake, TypeOK
      <4>3. \A i \in DOMAIN memory : Backed(memory[i])
        BY ElementOfSeq, LenProperties DEF Evidence, BackedResults
      <4> QED
        BY <2>1, <4>2, <4>3 DEF DeviceTake, Backed
    <3> QED
      BY <2>1, <3>1, EvidenceFrame DEF DeviceTake, EvidenceKept
  <2>2. CASE DevicePerform
    <3>1. device.job \in Jobs /\ device'.job = device.job
      BY <2>2 DEF DevicePerform, TypeOK, DeviceStates
    <3>2. performed'[device.job] > 0
      BY <2>2, <3>1 DEF DevicePerform, TypeOK
    <3>3. Backed(device)'
      BY <3>1, <3>2 DEF Backed
    <3>4. \A j \in Jobs : performed[j] > 0 => performed'[j] > 0
      BY EffectsGrow
    <3>5. BackedResults \subseteq BackedResults'
      BY <3>4 DEF BackedResults, Backed, Results
    <3>6. memory' \in Seq(BackedResults') /\ \A s \in Sessions : up'[s] \in Seq(BackedResults')
      BY <2>2, <3>5, SeqMonotonic DEF DevicePerform, Evidence
    <3>7. \A t \in Slots : (task[t].kind = "result" => Backed(task[t]))'
      BY <2>2, <3>4, TaskKinds DEF DevicePerform, Evidence, Backed, ResultTasks
    <3>8. SuccessWasPerformed'
      BY <2>2, <3>4 DEF DevicePerform, Evidence, SuccessWasPerformed
    <3> QED
      BY <3>3, <3>6, <3>7, <3>8 DEF Evidence
  <2>3. CASE DeviceRemember
    <3>1. device.job \in Jobs /\ device.verdict \in Verdicts /\ Backed(device)
      BY <2>3 DEF DeviceRemember, TypeOK, DeviceStates, Evidence
    <3>2. [job |-> device.job, verdict |-> device.verdict] \in BackedResults
      BY <3>1 DEF BackedResults, Backed, Results
    <3>3. memory' \in Seq(BackedResults)
      <4> DEFINE grown == Append(memory, [job |-> device.job, verdict |-> device.verdict])
      <4>1. grown \in Seq(BackedResults) /\ grown # <<>>
        BY <3>2, AppendProperties DEF Evidence
      <4>2. Tail(grown) \in Seq(BackedResults)
        BY <4>1, HeadTailProperties
      <4> QED
        BY <2>3, <4>1, <4>2 DEF DeviceRemember
    <3>4. device'.job = device.job /\ device'.verdict = device.verdict
      BY <2>3 DEF DeviceRemember, TypeOK, DeviceStates
    <3>5. Backed(device')
      BY <3>1, <3>4 DEF Backed
    <3> QED
      BY <2>3, <3>1, <3>3, <3>4, <3>5, EvidenceFrame DEF DeviceRemember, EvidenceKept
  <2>4. CASE DeviceSend
    <3>1. /\ device.session \in Sessions /\ device.job \in Jobs
          /\ device.verdict \in Verdicts /\ Backed(device)
      BY <2>4 DEF DeviceSend, TypeOK, DeviceStates, Evidence
    <3>2. [job |-> device.job, verdict |-> device.verdict] \in BackedResults
      BY <3>1 DEF BackedResults, Backed, Results
    <3>3. \A s \in Sessions : up'[s] \in Seq(BackedResults)
      <4>1. up[device.session] \in Seq(BackedResults)
        BY <3>1 DEF Evidence
      <4>2. Append(up[device.session], [job |-> device.job, verdict |-> device.verdict])
              \in Seq(BackedResults)
        BY <3>2, <4>1, AppendProperties
      <4> QED
        BY <2>4, <4>2 DEF DeviceSend, Evidence, TypeOK
    <3>4. device'.pc = "idle"
      BY <2>4 DEF DeviceSend, DeviceIdle
    <3> QED
      BY <2>4, <3>3, <3>4, EvidenceFrame DEF DeviceSend, EvidenceKept
  <2>5. CASE DeviceLeave \/ \E s \in Sessions : DeviceConnect(s)
    <3>1. device'.pc = "idle"
      BY <2>5 DEF DeviceLeave, DeviceConnect, DeviceIdle
    <3> QED
      BY <2>5, <3>1, EvidenceFrame DEF DeviceLeave, DeviceConnect, EvidenceKept
  <2> QED
    BY <1>6, <2>1, <2>2, <2>3, <2>4, <2>5 DEF DeviceStep
<1>7. ASSUME NEW s \in Sessions, SocketClose(s) PROVE Evidence'
  <2>1. \A r \in Sessions : up'[r] \in Seq(BackedResults)
    BY <1>7, EmptySeq DEF SocketClose, Evidence, TypeOK
  <2> QED
    BY <1>7, <2>1, EvidenceFrame DEF SocketClose, EvidenceKept
<1>8. CASE Failure
  <2>1. \A r \in Sessions : \A q \in Prefixes(up[r]) : q \in Seq(BackedResults)
    BY PrefixType DEF Evidence
  <2>2. CASE \E s \in Sessions : LinkDown(s)
    <3>1. \A r \in Sessions : up'[r] \in Seq(BackedResults)
      BY <2>1, <2>2 DEF LinkDown, Evidence, TypeOK
    <3> QED
      BY <2>2, <3>1, EvidenceFrame DEF LinkDown, EvidenceKept
  <2>3. CASE DeviceCrash
    <3>1. \A r \in Sessions : up'[r] \in Seq(BackedResults)
      BY <2>1, <2>3 DEF DeviceCrash, Evidence, TypeOK
    <3>2. device'.pc = "idle"
      BY <2>3 DEF DeviceCrash, DeviceIdle
    <3> QED
      BY <2>3, <3>1, <3>2, EvidenceFrame DEF DeviceCrash, EvidenceKept
  <2>4. CASE BrokerRestart
    <3>1. \A r \in Sessions : up'[r] \in Seq(BackedResults)
      BY <2>4, EmptySeq DEF BrokerRestart
    <3>2. \A t \in Slots : task'[t].kind # "result"
      BY <2>4 DEF BrokerRestart, Idle
    <3>3. \A j \in Jobs : "succeeded" \in answers'[j] => "succeeded" \in answers[j]
      BY <2>4 DEF BrokerRestart
    <3> QED
      BY <2>4, <3>1, <3>2, <3>3, EvidenceFrame
         DEF BrokerRestart, EvidenceKept, Evidence, SuccessWasPerformed
  <2>5. ASSUME NEW t \in Slots, TaskFails(t) PROVE Evidence'
    <3>1. \A u \in Slots : task'[u].kind = "result"
                             => task'[u].job \in Jobs /\ Backed(task'[u])
      BY <2>5, ContinueEvidence DEF TaskFails
    <3> QED
      BY <2>5, <3>1, EvidenceFrame DEF TaskFails, EvidenceKept
  <2> QED
    BY <1>8, <2>2, <2>3, <2>4, <2>5 DEF Failure
<1> QED
  BY <1>1, <1>2, <1>3, <1>4, <1>5, <1>6, <1>7, <1>8 DEF Next

\* The inductive invariant holds in every reachable state.
THEOREM JobInvariant == Spec => []JobInv
<1>1. Init => JobInv
  <2> SUFFICES ASSUME Init PROVE JobInv
    OBVIOUS
  <2>1. TypeOK
    BY ConstantsAssumption
       DEF Init, TypeOK, RowStates, SocketStates, DeviceIdle, DeviceStates
  <2>2. Provenance
    BY EmptySeq DEF Init, Provenance, DeviceIdle
  <2>3. Evidence
    BY EmptySeq DEF Init, Evidence, SuccessWasPerformed, DeviceIdle, Idle
  <2>4. OneActiveWriter
    BY DEF Init, OneActiveWriter, IsOpenSocket
  <2> QED
    BY <2>1, <2>2, <2>3, <2>4 DEF JobInv
<1>2. JobInv /\ [Next]_vars => JobInv'
  BY TypeInductive, ProvenanceInductive, EvidenceInductive, OneWriterInductive DEF JobInv
<1> QED
  BY <1>1, <1>2, PTL DEF Spec

\* A job is recorded or reported as succeeded only after its operation took
\* effect on the device, whatever fails in between.
THEOREM SuccessPerformed == Spec => []SuccessWasPerformed
<1>1. JobInv => SuccessWasPerformed
  BY DEF JobInv, Evidence
<1> QED
  BY <1>1, JobInvariant, PTL

-----------------------------------------------------------------------------
(* The job path implements JobLifecycle. *)

AbstractState == [j \in Jobs |-> IF row[j] \in Open THEN "open" ELSE row[j]]
AbstractEffects == {j \in Jobs : performed[j] > 0}

\* Steps that leave rows, effects and deadlines alone stutter.
LEMMA RefineStutter ==
    UNCHANGED <<AbstractState, performed, passed>> => UNCHANGED Lifecycle!vars
BY DEF Lifecycle!vars, AbstractState

LEMMA RefineCaller ==
    ASSUME JobInv, NEW j \in Jobs, CallerStep(j)
    PROVE  [Lifecycle!Next]_(Lifecycle!vars)
<1> USE DEF brokerVars, linkVars, callerVars, deviceVars
<1>1. CASE Submit(j)
  <2>1. AbstractState' = [AbstractState EXCEPT ![j] = "open"]
    BY <1>1 DEF Submit, AbstractState, JobInv, TypeOK, Open
  <2>2. AbstractState[j] = "absent"
    BY <1>1 DEF Submit, AbstractState, Open
  <2>3. Lifecycle!Submit(j)
    BY <1>1, <2>1, <2>2 DEF Submit, Lifecycle!Submit, AbstractState
  <2> QED
    BY <2>3 DEF Lifecycle!Next
<1>2. CASE ExecuteMark(j)
  <2>1. UNCHANGED AbstractState
    BY <1>2 DEF ExecuteMark, AbstractState, JobInv, TypeOK, Open
  <2> QED
    BY <1>2, <2>1, RefineStutter DEF ExecuteMark
<1>3. CASE PollExpire(j)
  <2>1. j \in passed
    BY <1>3 DEF PollExpire, JobInv, Provenance
  <2> DEFINE expired == {k \in passed : row[k] \in Open /\ k = j}
             purged == {k \in Jobs : FALSE}
  <2>2. AbstractState' = [k \in Jobs |-> IF k \in expired THEN "expired"
                                        ELSE IF k \in purged THEN "purged"
                                        ELSE AbstractState[k]]
    BY <1>3, <2>1 DEF PollExpire, UpdateOpen, AbstractState, JobInv, TypeOK, Open
  <2>3. /\ expired \in SUBSET {k \in passed : AbstractState[k] = "open"}
        /\ purged \in SUBSET {k \in Jobs : AbstractState[k] \in Lifecycle!Settled}
    BY ConstantsAssumption DEF AbstractState, JobInv, TypeOK
  <2>4. Lifecycle!Maintain
    BY <1>3, <2>2, <2>3 DEF PollExpire, Lifecycle!Maintain, AbstractState
  <2> QED
    BY <2>4 DEF Lifecycle!Next
<1>4. CASE ExecuteSend(j) \/ WaitTimeout(j) \/ PollRead(j)
  BY <1>4, RefineStutter DEF ExecuteSend, WaitTimeout, PollRead, AbstractState
<1> QED
  BY <1>1, <1>2, <1>3, <1>4 DEF CallerStep

LEMMA RefineHandler ==
    ASSUME JobInv, NEW t \in Slots, HandlerStep(t)
    PROVE  [Lifecycle!Next]_(Lifecycle!vars)
<1> USE DEF brokerVars, linkVars, callerVars, deviceVars
<1>1. CASE HelloExpire(t)
  <2> DEFINE expired == {k \in passed : row[k] \in Open}
             purged == {k \in Jobs : FALSE}
  <2>1. AbstractState' = [k \in Jobs |-> IF k \in expired THEN "expired"
                                        ELSE IF k \in purged THEN "purged"
                                        ELSE AbstractState[k]]
    BY <1>1 DEF HelloExpire, Overdue, IsOpenRow, AbstractState, Open
  <2>2. /\ expired \in SUBSET {k \in passed : AbstractState[k] = "open"}
        /\ purged \in SUBSET {k \in Jobs : AbstractState[k] \in Lifecycle!Settled}
    BY ConstantsAssumption DEF AbstractState, JobInv, TypeOK
  <2>3. Lifecycle!Maintain
    BY <1>1, <2>1, <2>2 DEF HelloExpire, Lifecycle!Maintain, AbstractState
  <2> QED
    BY <2>3 DEF Lifecycle!Next
<1>2. CASE HelloPurge(t)
  <2>1. PICK old \in SUBSET {j \in Aging : row[j] \in Terminal} :
          row' = [j \in Jobs |-> IF j \in old THEN "purged" ELSE row[j]]
    BY <1>2 DEF HelloPurge
  <2> DEFINE expired == {k \in passed : FALSE}
  <2>2. AbstractState' = [k \in Jobs |-> IF k \in expired THEN "expired"
                                        ELSE IF k \in old THEN "purged"
                                        ELSE AbstractState[k]]
    BY <2>1 DEF AbstractState, Open
  <2>3. /\ expired \in SUBSET {k \in passed : AbstractState[k] = "open"}
        /\ old \in SUBSET {k \in Jobs : AbstractState[k] \in Lifecycle!Settled}
    BY <2>1, ConstantsAssumption
       DEF AbstractState, Terminal, Verdicts, Open, Lifecycle!Settled
  <2>4. Lifecycle!Maintain
    BY <1>2, <2>2, <2>3 DEF HelloPurge, Lifecycle!Maintain, AbstractState
  <2> QED
    BY <2>4 DEF Lifecycle!Next
<1>3. CASE ResultComplete(t)
  <2>1. task[t].job \in Jobs /\ task[t].verdict \in Verdicts
    BY <1>3, TaskKinds DEF ResultComplete, IsTask, JobInv, ResultTasks
  <2>2. PICK j \in Jobs : j = task[t].job
    BY <2>1
  <2>3. task[t].verdict = "succeeded" => performed[j] > 0
    BY <1>3, <2>2 DEF ResultComplete, IsTask, JobInv, Evidence, Backed
  <2>4. CASE row[j] \in Open
    <3>1. AbstractState[j] = "open"
      BY <2>4 DEF AbstractState
    <3>2. AbstractState' = [AbstractState EXCEPT ![j] = task[t].verdict]
      BY <1>3, <2>1, <2>2, <2>4
         DEF ResultComplete, UpdateOpen, AbstractState, JobInv, TypeOK, Open, Verdicts
    <3>3. CASE task[t].verdict = "succeeded"
      <4>1. Lifecycle!Succeed(j)
        BY <1>3, <2>3, <3>1, <3>2, <3>3
           DEF ResultComplete, Lifecycle!Succeed, AbstractState
      <4> QED
        BY <4>1 DEF Lifecycle!Next
    <3>4. CASE task[t].verdict = "failed"
      <4>1. Lifecycle!Fail(j)
        BY <1>3, <3>1, <3>2, <3>4 DEF ResultComplete, Lifecycle!Fail, AbstractState
      <4> QED
        BY <4>1 DEF Lifecycle!Next
    <3> QED
      BY <2>1, <3>3, <3>4 DEF Verdicts
  <2>5. CASE row[j] \notin Open
    <3>1. UNCHANGED row
      BY <1>3, <2>2, <2>5 DEF ResultComplete, UpdateOpen, JobInv, TypeOK
    <3> QED
      BY <1>3, <3>1, RefineStutter DEF ResultComplete, AbstractState
  <2> QED
    BY <2>4, <2>5
<1>4. CASE DispatchMark(t)
  <2>1. UNCHANGED AbstractState
    BY <1>4 DEF DispatchMark, UpdateOpen, AbstractState, JobInv, TypeOK, Open
  <2> QED
    BY <1>4, <2>1, RefineStutter DEF DispatchMark
<1>5. CASE HelloReady(t) \/ HelloSelect(t) \/ ResultLookup(t) \/ ResultSelect(t)
  BY <1>5, RefineStutter
     DEF HelloReady, HelloSelect, ResultLookup, ResultSelect, DispatchSelect, AbstractState
<1> QED
  BY <1>1, <1>2, <1>3, <1>4, <1>5 DEF HandlerStep

LEMMA RefineDevice ==
    ASSUME JobInv, DeviceStep
    PROVE  [Lifecycle!Next]_(Lifecycle!vars)
<1> USE DEF brokerVars, linkVars, callerVars, deviceVars
<1>1. CASE DevicePerform
  <2>1. device.job \in Submitted
    BY <1>1 DEF DevicePerform, JobInv, Provenance
  <2>2. PICK j \in Jobs : j = device.job
    BY <2>1 DEF Submitted
  <2>3. AbstractState[j] # "absent"
    BY <2>1, <2>2 DEF AbstractState, Submitted
  <2>4. AbstractEffects' = AbstractEffects \cup {j}
    BY <1>1, <2>2 DEF DevicePerform, AbstractEffects, JobInv, TypeOK
  <2>5. Lifecycle!TakeEffect(j)
    BY <1>1, <2>3, <2>4
       DEF DevicePerform, Lifecycle!TakeEffect, AbstractState, AbstractEffects
  <2> QED
    BY <2>5 DEF Lifecycle!Next
<1>2. CASE DeviceTake \/ DeviceRemember \/ DeviceSend \/ DeviceLeave
             \/ \E s \in Sessions : DeviceConnect(s)
  BY <1>2, RefineStutter
     DEF DeviceTake, DeviceRemember, DeviceSend, DeviceLeave, DeviceConnect, AbstractState
<1> QED
  BY <1>1, <1>2 DEF DeviceStep

\* Every step of the job path is a step of the lifecycle or none.
LEMMA RefineStep ==
    ASSUME JobInv, [Next]_vars
    PROVE  [Lifecycle!Next]_(Lifecycle!vars)
<1> USE DEF brokerVars, linkVars, callerVars, deviceVars
<1>1. CASE UNCHANGED vars
  BY <1>1, RefineStutter DEF vars, AbstractState
<1>2. ASSUME NEW j \in Jobs, Deadline(j) PROVE [Lifecycle!Next]_(Lifecycle!vars)
  <2>1. AbstractState[j] # "absent"
    BY <1>2 DEF Deadline, AbstractState
  <2>2. Lifecycle!PassDeadline(j)
    BY <1>2, <2>1 DEF Deadline, Lifecycle!PassDeadline, AbstractState
  <2> QED
    BY <2>2 DEF Lifecycle!Next
<1>3. ASSUME NEW t \in Slots, Arrival(t) PROVE [Lifecycle!Next]_(Lifecycle!vars)
  BY <1>3, RefineStutter DEF Arrival, HelloArrives, ResultArrives, AbstractState
<1>4. ASSUME NEW s \in Sessions, SocketClose(s) PROVE [Lifecycle!Next]_(Lifecycle!vars)
  BY <1>4, RefineStutter DEF SocketClose, AbstractState
<1>5. CASE Failure
  BY <1>5, RefineStutter
     DEF Failure, LinkDown, DeviceCrash, BrokerRestart, TaskFails, AbstractState
<1> QED
  BY <1>1, <1>2, <1>3, <1>4, <1>5, RefineCaller, RefineHandler, RefineDevice DEF Next

\* The broker, its replays, the caches and the failures together do no more
\* than JobLifecycle allows.
THEOREM LifecycleImplemented == Spec => ImplementsLifecycle
<1>1. Init => Lifecycle!Init
  BY DEF Init, Lifecycle!Init, Open
<1>2. JobInv /\ [Next]_vars => [Lifecycle!Next]_(Lifecycle!vars)
  BY RefineStep
<1> QED
  BY <1>1, <1>2, JobInvariant, PTL DEF Spec, ImplementsLifecycle, Lifecycle!Spec

-----------------------------------------------------------------------------
(* What is repeated: as long as the memory of the Sync app holds every answer. *)

\* Only remember_job changes the memory, and only a crash forgets an effect.
LEMMA DeviceMoves ==
    ASSUME TypeOK, [Next]_vars
    PROVE  /\ DeviceRemember \/ UNCHANGED memory
           /\ DevicePerform \/ UNCHANGED performed
           /\ DeviceCrash \/ UNCHANGED crashes
           /\ DeviceStep \/ DeviceCrash \/ UNCHANGED device
<1> USE DEF deviceVars
<1>1. ASSUME NEW j \in Jobs, CallerStep(j) \/ Deadline(j)
      PROVE  UNCHANGED <<memory, performed, crashes, device>>
  BY <1>1 DEF CallerStep, Submit, ExecuteSend, ExecuteMark, WaitTimeout, PollRead,
              PollExpire, Deadline
<1>2. ASSUME NEW t \in Slots, HandlerStep(t) \/ Arrival(t)
      PROVE  UNCHANGED <<memory, performed, crashes, device>>
  BY <1>2 DEF HandlerStep, HelloReady, HelloExpire, HelloPurge, HelloSelect,
              ResultLookup, ResultComplete, ResultSelect, DispatchSelect,
              DispatchMark, Arrival, HelloArrives, ResultArrives
<1>3. CASE DeviceStep
  BY <1>3 DEF DeviceStep, DeviceTake, DevicePerform, DeviceRemember, DeviceSend, DeviceLeave,
              DeviceConnect
<1>4. CASE (\E s \in Sessions : SocketClose(s)) \/ Failure
  BY <1>4 DEF SocketClose, Failure, LinkDown, DeviceCrash, BrokerRestart, TaskFails
<1>5. CASE UNCHANGED vars
  BY <1>5 DEF vars
<1> QED
  BY <1>1, <1>2, <1>3, <1>4, <1>5 DEF Next

\* An answer that is new fits into the memory.
LEMMA RoomLeft ==
    ASSUME TypeOK, MemorySuffices, AnsweredOnce, NEW j \in Jobs, ~ Remembered(j)
    PROVE  Len(memory) + 1 <= MaxRemembered
<1>1. memory \in Seq(Results) /\ Len(memory) \in Nat /\ DOMAIN memory = 1 .. Len(memory)
  BY LenProperties DEF TypeOK
<1>2. PICK jobs : jobs = [i \in 1 .. Len(memory) |-> memory[i].job]
  OBVIOUS
<1>3. jobs \in [1 .. Len(memory) -> Jobs \ {j}]
  BY <1>1, <1>2, ElementType DEF Remembered
<1>4. jobs \in Injection(1 .. Len(memory), Jobs \ {j})
  BY <1>1, <1>2, <1>3 DEF AnsweredOnce, Injection, IsInjective
<1>5. /\ IsFiniteSet(Jobs \ {j}) /\ Cardinality(Jobs \ {j}) = Cardinality(Jobs) - 1
      /\ Cardinality(Jobs) \in Nat
  BY FS_RemoveElement, FS_CardinalityType DEF MemorySuffices
<1>6. Cardinality(1 .. Len(memory)) <= Cardinality(Jobs \ {j})
  BY <1>4, <1>5, FS_Injection
<1>7. Cardinality(1 .. Len(memory)) = Len(memory)
  BY ONLY <1>1, FS_Interval
<1> QED
  BY <1>1, <1>5, <1>6, <1>7, ConstantsAssumption DEF MemorySuffices

LEMMA Remembering ==
    ASSUME TypeOK, MemorySuffices, AnsweredOnce, DeviceRemember
    PROVE  /\ device.job \in Jobs /\ device.verdict \in Verdicts
           /\ ~ Remembered(device.job)
           /\ memory' = Append(memory, [job |-> device.job, verdict |-> device.verdict])
           /\ device'.job = device.job /\ device'.verdict = device.verdict
           /\ device'.pc = "remembered"
<1>1. device.job \in Jobs /\ device.verdict \in Verdicts /\ device.pc = "executed"
  BY DEF DeviceRemember, TypeOK, DeviceStates
<1>2. ~ Remembered(device.job)
  BY <1>1 DEF AnsweredOnce
<1>3. Len(memory) + 1 <= MaxRemembered /\ Len(memory) \in Nat
  BY <1>1, <1>2, RoomLeft, LenProperties DEF TypeOK
<1>4. PICK row1 \in Results : row1 = [job |-> device.job, verdict |-> device.verdict]
  BY <1>1 DEF Results
<1>5. Len(Append(memory, row1)) = Len(memory) + 1
  BY AppendProperties DEF TypeOK
<1>6. memory' = Append(memory, row1)
  BY <1>3, <1>4, <1>5, ConstantsAssumption DEF DeviceRemember
<1>7. /\ device'.job = device.job /\ device'.verdict = device.verdict
      /\ device'.pc = "remembered"
  BY DEF DeviceRemember, TypeOK, DeviceStates
<1> QED
  BY <1>1, <1>2, <1>4, <1>6, <1>7

\* What is remembered stays so.
LEMMA MemoryGrows ==
    ASSUME TypeOK, MemorySuffices, AnsweredOnce, [Next]_vars
    PROVE  /\ \A i \in DOMAIN memory : i \in DOMAIN memory' /\ memory'[i] = memory[i]
           /\ \A i \in DOMAIN memory' \ DOMAIN memory :
                 /\ DeviceRemember /\ i = Len(memory) + 1
                 /\ memory'[i].job = device.job /\ memory'[i].verdict = device.verdict
           /\ DeviceRemember => Len(memory) + 1 \in DOMAIN memory' \ DOMAIN memory
           /\ \A j : Remembered(j) => \E i \in DOMAIN memory' : memory'[i].job = j
<1>1. memory \in Seq(Results) /\ Len(memory) \in Nat /\ DOMAIN memory = 1 .. Len(memory)
  BY LenProperties DEF TypeOK
<1>2. CASE UNCHANGED memory /\ ~ DeviceRemember
  BY <1>2 DEF Remembered
<1>3. CASE DeviceRemember
  <2>1. PICK row1 \in Results : row1 = [job |-> device.job, verdict |-> device.verdict]
    BY <1>3, Remembering DEF Results
  <2>2. memory' = Append(memory, row1) /\ row1.job = device.job /\ row1.verdict = device.verdict
    BY <1>3, <2>1, Remembering
  <2>3. /\ DOMAIN memory' = 1 .. (Len(memory) + 1) /\ memory'[Len(memory) + 1] = row1
        /\ \A i \in 1 .. Len(memory) : memory'[i] = memory[i]
    BY <1>1, <2>2, AppendProperties
  <2> QED
    BY <1>1, <1>3, <2>2, <2>3 DEF Remembered
<1> QED
  BY <1>2, <1>3, DeviceMoves

LEMMA AnsweredOnceInductive ==
    ASSUME TypeOK, MemorySuffices, AnsweredOnce, [Next]_vars PROVE AnsweredOnce'
<1>1. \A i, k \in DOMAIN memory' : memory'[i].job = memory'[k].job => i = k
  <2>1. CASE DeviceRemember
    <3>1. \A i \in DOMAIN memory : memory[i].job # device.job
      BY <2>1, Remembering DEF Remembered
    <3> QED
      BY <2>1, <3>1, MemoryGrows DEF AnsweredOnce
  <2>2. CASE UNCHANGED memory
    BY <2>2 DEF AnsweredOnce
  <2> QED
    BY <2>1, <2>2, DeviceMoves
<1>2. ASSUME device'.pc \in {"running", "executed"} PROVE ~ Remembered(device.job)'
  <2>1. CASE DeviceTake
    BY <1>2, <2>1 DEF DeviceTake, Remembered
  <2>2. CASE DevicePerform
    <3>1. device'.job = device.job
      BY <2>2 DEF DevicePerform, TypeOK, DeviceStates
    <3> QED
      BY <2>2, <3>1 DEF DevicePerform, AnsweredOnce, Remembered
  <2>3. CASE DeviceRemember \/ DeviceSend \/ DeviceLeave \/ (\E s \in Sessions : DeviceConnect(s))
             \/ DeviceCrash
    BY <1>2, <2>3, Remembering DEF DeviceSend, DeviceLeave, DeviceConnect, DeviceCrash, DeviceIdle
  <2>4. CASE UNCHANGED device /\ ~ DeviceRemember
    BY <1>2, <2>4, DeviceMoves DEF AnsweredOnce, Remembered
  <2> QED
    BY <2>1, <2>2, <2>3, <2>4, DeviceMoves DEF DeviceStep
<1> QED
  BY <1>1, <1>2 DEF AnsweredOnce

LEMMA RepetitionInductive ==
    ASSUME TypeOK, MemorySuffices, AnsweredOnce, Repetition, [Next]_vars PROVE Repetition'
<1> SUFFICES ASSUME NEW j \in Jobs
             PROVE  /\ performed'[j] <= crashes' + 1
                    /\ \/ performed'[j] <= crashes'
                       \/ Remembered(j)'
                       \/ device'.pc = "executed" /\ device'.job = j
  BY DEF Repetition
<1>1. performed[j] \in Nat /\ crashes \in Nat
  BY DEF TypeOK
<1>2. /\ performed[j] <= crashes + 1
      /\ performed[j] <= crashes \/ Remembered(j) \/ (device.pc = "executed" /\ device.job = j)
  BY DEF Repetition
<1>3. Remembered(j) => Remembered(j)'
  BY MemoryGrows DEF Remembered
<1>4. CASE DevicePerform
  <2>1. /\ device.job \in Jobs /\ device'.job = device.job /\ device'.pc = "executed"
        /\ device.pc = "running"
    BY <1>4 DEF DevicePerform, TypeOK, DeviceStates
  <2>2. UNCHANGED crashes
    BY <1>4 DEF DevicePerform
  <2>3. CASE j = device.job
    <3>1. performed[j] <= crashes
      BY <1>2, <2>1, <2>3 DEF AnsweredOnce
    <3>2. performed'[j] = performed[j] + 1
      BY <1>4, <2>3 DEF DevicePerform, TypeOK
    <3> QED
      BY <1>1, <2>1, <2>2, <2>3, <3>1, <3>2
  <2>4. CASE j # device.job
    <3>1. performed'[j] = performed[j]
      BY <1>4, <2>4 DEF DevicePerform, TypeOK
    <3> QED
      BY <1>2, <1>3, <2>1, <2>2, <2>4, <3>1
  <2> QED
    BY <2>3, <2>4
<1>5. CASE DeviceCrash
  <2>1. crashes' = crashes + 1 /\ UNCHANGED performed
    BY <1>5 DEF DeviceCrash
  <2> QED
    BY <1>1, <1>2, <2>1
<1>6. CASE DeviceRemember
  <2>1. UNCHANGED <<performed, crashes>> /\ device.job \in Jobs
    BY <1>6, Remembering DEF DeviceRemember
  <2>2. Remembered(device.job)'
    <3>1. Len(memory) + 1 \in DOMAIN memory' /\ memory'[Len(memory) + 1].job = device.job
      BY <1>6, MemoryGrows
    <3>2. device'.job = device.job
      BY <1>6, Remembering
    <3> QED
      BY <3>1, <3>2 DEF Remembered
  <2>3. device'.job = device.job
    BY <1>6, Remembering
  <2>4. device.job = j => Remembered(j)'
    BY <2>2, <2>3 DEF Remembered
  <2> QED
    BY <1>1, <1>2, <1>3, <2>1, <2>4
<1>7. CASE ~ DevicePerform /\ ~ DeviceCrash /\ ~ DeviceRemember
  <2>1. UNCHANGED <<performed, crashes>>
    BY <1>7, DeviceMoves
  <2>2. device.pc = "executed" => UNCHANGED device
    BY <1>7, DeviceMoves DEF DeviceStep, DeviceTake, DeviceSend, DeviceLeave, DeviceConnect, DeviceIdle
  <2> QED
    BY <1>1, <1>2, <1>3, <2>1, <2>2
<1> QED
  BY <1>4, <1>5, <1>6, <1>7

\* The result that a handler works on does not change.
LEMMA TasksStay ==
    ASSUME TypeOK, NEW t \in Slots, task[t] # Idle,
           (\E rows : SendRows(t, rows)) \/ (\E pc : Continue(t, pc)) \/ Finish(t)
    PROVE  \A u \in Slots : task'[u].kind = "result" =>
              /\ task[u].kind = "result"
              /\ task'[u].job = task[u].job /\ task'[u].verdict = task[u].verdict
<1>1. task[t] \in HelloTasks \cup ResultTasks
  BY DEF TypeOK
<1>2. \/ task'[t] = Idle
      \/ \E rows : task'[t] = [task[t] EXCEPT !.rows = rows, !.pc = "mark"]
      \/ \E pc : task'[t] = [task[t] EXCEPT !.pc = pc]
  <2>1. \/ task' = [task EXCEPT ![t] = Idle]
        \/ \E rows : task' = [task EXCEPT ![t].rows = rows, ![t].pc = "mark"]
        \/ \E pc : task' = [task EXCEPT ![t].pc = pc]
    BY DEF SendRows, Finish, Continue
  <2> QED
    BY <2>1 DEF TypeOK
<1>3. \A u \in Slots \ {t} : task'[u] = task[u]
  BY DEF SendRows, Finish, Continue, TypeOK
<1>4. CASE task'[t] = Idle
  BY <1>3, <1>4 DEF Idle
<1>5. ASSUME NEW rows, task'[t] = [task[t] EXCEPT !.rows = rows, !.pc = "mark"],
             task'[t].kind = "result"
      PROVE  /\ task[t].kind = "result"
             /\ task'[t].job = task[t].job /\ task'[t].verdict = task[t].verdict
  <2>1. task[t].kind = "result"
    BY <1>1, <1>5 DEF HelloTasks, ResultTasks
  <2> QED
    BY <1>5, <2>1, TaskKinds DEF ResultTasks
<1>6. ASSUME NEW pc, task'[t] = [task[t] EXCEPT !.pc = pc], task'[t].kind = "result"
      PROVE  /\ task[t].kind = "result"
             /\ task'[t].job = task[t].job /\ task'[t].verdict = task[t].verdict
  <2>1. task[t].kind = "result"
    BY <1>1, <1>6 DEF HelloTasks, ResultTasks
  <2> QED
    BY <1>6, <2>1, TaskKinds DEF ResultTasks
<1> QED
  BY <1>2, <1>3, <1>4, <1>5, <1>6

\* Whatever the step puts in a place was remembered before the step.
TestimonyKept ==
    /\ \A s \in Sessions : up'[s] \in Seq(RememberedResults)
    /\ \A t \in Slots : task'[t].kind = "result" => Remembers(task'[t])
    /\ device'.pc = "remembered" => Remembers(device')
    /\ \A j \in Jobs, v \in Verdicts :
          row'[j] = v \/ v \in answers'[j] => Remembers([job |-> j, verdict |-> v])

LEMMA TestimonyGrows ==
    ASSUME TypeOK, MemorySuffices, AnsweredOnce, [Next]_vars
    PROVE  /\ (\A s \in Sessions : up'[s] \in Seq(RememberedResults)) =>
                 \A s \in Sessions : up'[s] \in Seq(RememberedResults')
           /\ (\A t \in Slots : task'[t].kind = "result" => Remembers(task'[t])) =>
                 \A t \in Slots : (task[t].kind = "result" => Remembers(task[t]))'
           /\ Remembers(device') => Remembers(device)'
           /\ (\A j \in Jobs, v \in Verdicts :
                 row'[j] = v \/ v \in answers'[j] => Remembers([job |-> j, verdict |-> v])) =>
                 \A j \in Jobs, v \in Verdicts :
                    row'[j] = v \/ v \in answers'[j] => Remembers([job |-> j, verdict |-> v])'
<1>1. \A i \in DOMAIN memory : i \in DOMAIN memory' /\ memory'[i] = memory[i]
  BY MemoryGrows
<1>2. RememberedResults \subseteq RememberedResults'
  BY <1>1 DEF RememberedResults, Remembers
<1>3. \A q \in Seq(RememberedResults) : q \in Seq(RememberedResults')
  BY <1>2, SeqMonotonic
<1> QED
  BY <1>1, <1>3 DEF Remembers

LEMMA TestimonyFrame ==
    ASSUME TypeOK, MemorySuffices, AnsweredOnce, Testimony, [Next]_vars
    PROVE  /\ TestimonyKept => Testimony'
           /\ UNCHANGED up => \A s \in Sessions : up'[s] \in Seq(RememberedResults)
           /\ UNCHANGED task => \A t \in Slots : task'[t].kind = "result" => Remembers(task'[t])
           /\ UNCHANGED device => (device'.pc = "remembered" => Remembers(device'))
           /\ UNCHANGED <<row, answers>> =>
                \A j \in Jobs, v \in Verdicts :
                   row'[j] = v \/ v \in answers'[j] => Remembers([job |-> j, verdict |-> v])
<1>1. ASSUME TestimonyKept PROVE Testimony'
  BY <1>1, TestimonyGrows DEF TestimonyKept, Testimony
<1> QED
  BY <1>1 DEF Testimony

\* Handlers that only go on keep what they have.
LEMMA TasksTestify ==
    ASSUME TypeOK, Testimony, NEW t \in Slots, task[t] # Idle,
           (\E rows : SendRows(t, rows)) \/ (\E pc : Continue(t, pc)) \/ Finish(t)
    PROVE  \A u \in Slots : task'[u].kind = "result" => Remembers(task'[u])
  BY TasksStay DEF Testimony, Remembers

\* A caller may be told a verdict that is remembered, or anything else.
LEMMA AnswersTestify ==
    ASSUME TypeOK, Testimony, NEW j \in Jobs, NEW a, UNCHANGED answers \/ Answer(j, a),
           a \notin Verdicts \/ a = row[j],
           \A k \in Jobs, v \in Verdicts : row'[k] = v => row[k] = v
    PROVE  \A k \in Jobs, v \in Verdicts :
              row'[k] = v \/ v \in answers'[k] => Remembers([job |-> k, verdict |-> v])
<1> SUFFICES ASSUME NEW k \in Jobs, NEW v \in Verdicts, row'[k] = v \/ v \in answers'[k]
             PROVE  Remembers([job |-> k, verdict |-> v])
  OBVIOUS
<1>1. row[k] = v \/ v \in answers[k]
  <2>1. row'[k] = v => row[k] = v
    OBVIOUS
  <2>2. CASE UNCHANGED answers
    BY <2>1, <2>2
  <2>3. CASE Answer(j, a)
    <3>1. answers'[k] = IF k = j THEN answers[j] \cup {a} ELSE answers[k]
      BY <2>3 DEF Answer, TypeOK
    <3>2. CASE k = j
      BY <2>1, <3>1, <3>2
    <3>3. CASE k # j
      BY <2>1, <3>1, <3>3
    <3> QED
      BY <3>2, <3>3
  <2> QED
    BY <2>2, <2>3
<1> QED
  BY <1>1 DEF Testimony

LEMMA TestimonyInductive ==
    ASSUME TypeOK, MemorySuffices, AnsweredOnce, Testimony, [Next]_vars PROVE Testimony'
<1> USE DEF brokerVars, linkVars, callerVars, deviceVars
<1> DEFINE Tasks == \A t \in Slots : task'[t].kind = "result" => Remembers(task'[t])
           Told == \A j \in Jobs, v \in Verdicts :
                      row'[j] = v \/ v \in answers'[j] => Remembers([job |-> j, verdict |-> v])
           Ups == \A s \in Sessions : up'[s] \in Seq(RememberedResults)
<1>1. CASE UNCHANGED vars
  BY <1>1, TestimonyFrame DEF vars, TestimonyKept
<1>2. ASSUME NEW j \in Jobs, CallerStep(j) PROVE Testimony'
  <2>1. \A k \in Jobs, v \in Verdicts : row'[k] = v => row[k] = v
    BY <1>2 DEF CallerStep, Submit, ExecuteSend, ExecuteMark, WaitTimeout, PollRead, PollExpire,
                UpdateOpen, TypeOK, Verdicts
  <2>2. PICK a : (UNCHANGED answers \/ Answer(j, a)) /\ (a \notin Verdicts \/ a = row[j])
    <3>1. \/ UNCHANGED answers \/ Answer(j, row[j]) \/ Answer(j, "error") \/ Answer(j, "queued")
          \/ Answer(j, "dispatched") \/ Answer(j, "expired")
      BY <1>2 DEF CallerStep, Submit, ExecuteSend, ExecuteMark, WaitTimeout, PollRead, PollExpire,
                  Return
    <3> QED
      BY <3>1 DEF Verdicts
  <2>3. Told
    BY <2>1, <2>2, AnswersTestify
  <2> QED
    BY <1>2, <2>3, TestimonyFrame
       DEF CallerStep, Submit, ExecuteSend, ExecuteMark, WaitTimeout, PollRead,
           PollExpire, TestimonyKept
<1>3. ASSUME NEW j \in Jobs, Deadline(j) PROVE Testimony'
  BY <1>3, TestimonyFrame DEF Deadline, TestimonyKept
<1>4. ASSUME NEW t \in Slots, HandlerStep(t) PROVE Testimony'
  <2>1. task[t] # Idle
    BY <1>4 DEF HandlerStep, HelloReady, HelloExpire, HelloPurge, HelloSelect,
                ResultLookup, ResultComplete, ResultSelect, DispatchMark, IsTask, Idle
  <2>2. Tasks
    <3>1. (\E rows : SendRows(t, rows)) \/ (\E pc : Continue(t, pc)) \/ Finish(t)
      BY <1>4 DEF HandlerStep, HelloReady, HelloExpire, HelloPurge, HelloSelect, DispatchSelect,
                  ResultLookup, ResultComplete, ResultSelect, DispatchMark
    <3> QED
      BY <2>1, <3>1, TasksTestify
  <2>3. CASE ResultComplete(t)
    <3>1. PICK j \in Jobs, v \in Verdicts : j = task[t].job /\ v = task[t].verdict
      BY <2>3, TaskKinds DEF ResultComplete, IsTask, ResultTasks
    <3>2. Remembers([job |-> j, verdict |-> v])
      BY <2>3, <3>1 DEF ResultComplete, IsTask, Testimony, Remembers
    <3>3. Told
      <4> SUFFICES ASSUME NEW k \in Jobs, NEW w \in Verdicts, row'[k] = w \/ w \in answers'[k]
                   PROVE  Remembers([job |-> k, verdict |-> w])
        OBVIOUS
      <4>1. row[k] = w \/ w \in answers[k] \/ (k = j /\ w = v)
        BY <2>3, <3>1 DEF ResultComplete, UpdateOpen, Return, Answer, TypeOK
      <4> QED
        BY <3>2, <4>1 DEF Testimony
    <3> QED
      BY <2>2, <2>3, <3>3, TestimonyFrame DEF ResultComplete, TestimonyKept
  <2>4. CASE ~ ResultComplete(t)
    <3>1. /\ UNCHANGED answers
          /\ \A k \in Jobs, v \in Verdicts : row'[k] = v => row[k] = v
      BY <1>4, <2>4 DEF HandlerStep, HelloReady, HelloExpire, HelloPurge, HelloSelect, DispatchSelect,
                  ResultLookup, ResultSelect, DispatchMark, UpdateOpen, TypeOK, Verdicts
    <3>2. Told
      BY <3>1 DEF Testimony
    <3> QED
      BY <1>4, <2>2, <2>4, <3>2, TestimonyFrame
         DEF HandlerStep, HelloReady, HelloExpire, HelloPurge, HelloSelect, DispatchSelect,
             ResultLookup, ResultSelect, DispatchMark, TestimonyKept
  <2> QED
    BY <2>3, <2>4
<1>5. ASSUME NEW t \in Slots, Arrival(t) PROVE Testimony'
  <2>1. PICK s \in Sessions : HelloArrives(t, s) \/ ResultArrives(t, s)
    BY <1>5 DEF Arrival
  <2>2. \A u \in Slots \ {t} : task'[u] = task[u]
    BY <2>1 DEF HelloArrives, ResultArrives, TypeOK
  <2>4. CASE HelloArrives(t, s)
    <3>1. task'[t].kind # "result"
      BY <2>4 DEF HelloArrives, TypeOK
    <3>2. Tasks
      BY <2>2, <3>1 DEF Testimony
    <3> QED
      BY <2>4, <3>2, TestimonyFrame DEF HelloArrives, TestimonyKept
  <2>5. CASE ResultArrives(t, s)
    <3>1. Head(up[s]) \in RememberedResults /\ Tail(up[s]) \in Seq(RememberedResults)
      BY <2>5, HeadTailProperties DEF ResultArrives, Testimony
    <3>2. task'[t].job = Head(up[s]).job /\ task'[t].verdict = Head(up[s]).verdict
      BY <2>5 DEF ResultArrives, TypeOK
    <3>3. Remembers(task'[t])
      BY <3>1, <3>2 DEF RememberedResults, Remembers
    <3>4. Ups
      BY <2>5, <3>1 DEF ResultArrives, Testimony, TypeOK
    <3>5. Tasks
      BY <2>2, <3>3 DEF Testimony
    <3> QED
      BY <2>5, <3>4, <3>5, TestimonyFrame DEF ResultArrives, TestimonyKept
  <2> QED
    BY <2>1, <2>4, <2>5
<1>6. CASE DeviceStep
  <2>1. CASE DeviceTake
    <3>1. device'.pc = "remembered" => Remembers(device')
      BY <2>1 DEF DeviceTake, Remembers
    <3> QED
      BY <2>1, <3>1, TestimonyFrame DEF DeviceTake, TestimonyKept
  <2>2. CASE DevicePerform
    <3>1. device'.pc # "remembered"
      BY <2>2 DEF DevicePerform
    <3> QED
      BY <2>2, <3>1, TestimonyFrame DEF DevicePerform, TestimonyKept
  <2>3. CASE DeviceRemember
    <3>1. Remembers(device)'
      <4>1. /\ Len(memory) + 1 \in DOMAIN memory' /\ memory'[Len(memory) + 1].job = device.job
            /\ memory'[Len(memory) + 1].verdict = device.verdict
        BY <2>3, MemoryGrows
      <4>2. device'.job = device.job /\ device'.verdict = device.verdict
        BY <2>3, Remembering
      <4> QED
        BY <4>1, <4>2 DEF Remembers
    <3>2. Ups /\ Tasks /\ Told
      BY <2>3, TestimonyFrame DEF DeviceRemember
    <3> QED
      BY <3>1, <3>2, TestimonyGrows DEF Testimony
  <2>4. CASE DeviceSend
    <3>1. /\ device.session \in Sessions /\ device.job \in Jobs
          /\ device.verdict \in Verdicts /\ Remembers(device)
      BY <2>4 DEF DeviceSend, TypeOK, DeviceStates, Testimony
    <3>2. [job |-> device.job, verdict |-> device.verdict] \in RememberedResults
      BY <3>1 DEF RememberedResults, Remembers, Results
    <3>3. Ups
      <4>1. up[device.session] \in Seq(RememberedResults)
        BY <3>1 DEF Testimony
      <4>2. Append(up[device.session], [job |-> device.job, verdict |-> device.verdict])
              \in Seq(RememberedResults)
        BY <3>2, <4>1, AppendProperties
      <4> QED
        BY <2>4, <4>2 DEF DeviceSend, Testimony, TypeOK
    <3>4. device'.pc = "idle"
      BY <2>4 DEF DeviceSend, DeviceIdle
    <3> QED
      BY <2>4, <3>3, <3>4, TestimonyFrame DEF DeviceSend, TestimonyKept
  <2>5. CASE DeviceLeave \/ \E s \in Sessions : DeviceConnect(s)
    <3>1. device'.pc = "idle"
      BY <2>5 DEF DeviceLeave, DeviceConnect, DeviceIdle
    <3> QED
      BY <2>5, <3>1, TestimonyFrame DEF DeviceLeave, DeviceConnect, TestimonyKept
  <2> QED
    BY <1>6, <2>1, <2>2, <2>3, <2>4, <2>5 DEF DeviceStep
<1>7. ASSUME NEW s \in Sessions, SocketClose(s) PROVE Testimony'
  <2>1. Ups
    BY <1>7, EmptySeq DEF SocketClose, Testimony, TypeOK
  <2> QED
    BY <1>7, <2>1, TestimonyFrame DEF SocketClose, TestimonyKept
<1>8. CASE Failure
  <2>1. \A r \in Sessions : \A q \in Prefixes(up[r]) : q \in Seq(RememberedResults)
    BY PrefixType DEF Testimony
  <2>2. CASE \E s \in Sessions : LinkDown(s)
    <3>1. Ups
      BY <2>1, <2>2 DEF LinkDown, Testimony, TypeOK
    <3> QED
      BY <2>2, <3>1, TestimonyFrame DEF LinkDown, TestimonyKept
  <2>3. CASE DeviceCrash
    <3>1. Ups
      BY <2>1, <2>3 DEF DeviceCrash, Testimony, TypeOK
    <3>2. device'.pc = "idle"
      BY <2>3 DEF DeviceCrash, DeviceIdle
    <3> QED
      BY <2>3, <3>1, <3>2, TestimonyFrame DEF DeviceCrash, TestimonyKept
  <2>4. CASE BrokerRestart
    <3>1. Ups
      BY <2>4, EmptySeq DEF BrokerRestart
    <3>2. \A t \in Slots : task'[t].kind # "result"
      BY <2>4 DEF BrokerRestart, Idle
    <3>3. \A j \in Jobs, v \in Verdicts : v \in answers'[j] => v \in answers[j]
      BY <2>4 DEF BrokerRestart, Verdicts
    <3>4. Told
      BY <2>4, <3>3 DEF BrokerRestart, Testimony
    <3> QED
      BY <2>4, <3>1, <3>2, <3>4, TestimonyFrame DEF BrokerRestart, TestimonyKept
  <2>5. ASSUME NEW t \in Slots, TaskFails(t) PROVE Testimony'
    <3>1. Tasks
      BY <2>5, TasksTestify DEF TaskFails
    <3> QED
      BY <2>5, <3>1, TestimonyFrame DEF TaskFails, TestimonyKept
  <2> QED
    BY <1>8, <2>2, <2>3, <2>4, <2>5 DEF Failure
<1> QED
  BY <1>1, <1>2, <1>3, <1>4, <1>5, <1>6, <1>7, <1>8 DEF Next

\* While no answer is pushed out of the memory, its invariant holds.
THEOREM MemoryInvariant == ASSUME MemorySuffices PROVE Spec => [](TypeOK /\ MemoryInv)
<1>1. Init => TypeOK /\ MemoryInv
  <2> SUFFICES ASSUME Init PROVE TypeOK /\ MemoryInv
    OBVIOUS
  <2>1. TypeOK
    BY ConstantsAssumption
       DEF Init, TypeOK, RowStates, SocketStates, DeviceIdle, DeviceStates
  <2>2. AnsweredOnce
    BY DEF Init, AnsweredOnce, DeviceIdle
  <2>3. Testimony
    BY EmptySeq DEF Init, Testimony, DeviceIdle, Idle, Verdicts
  <2>4. Repetition
    BY DEF Init, Repetition
  <2> QED
    BY <2>1, <2>2, <2>3, <2>4 DEF MemoryInv
<1>2. TypeOK /\ MemoryInv /\ [Next]_vars => (TypeOK /\ MemoryInv)'
  BY TypeInductive, AnsweredOnceInductive, TestimonyInductive, RepetitionInductive DEF MemoryInv
<1> QED
  BY <1>1, <1>2, PTL DEF Spec

\* A job's operation takes effect once, and once more for each crash of the Sync
\* app: the answers it remembers, as long as it keeps them, stop every repetition.
THEOREM PerformedOnce == ASSUME MemorySuffices PROVE Spec => []PerformedOncePerCrash
<1>1. TypeOK /\ MemoryInv => PerformedOncePerCrash
  BY DEF TypeOK, MemoryInv, Repetition, PerformedOncePerCrash
<1> QED
  BY <1>1, MemoryInvariant, PTL

\* No two parties ever hold different verdicts for a job: each has the one that
\* the Sync app remembers.
THEOREM VerdictsNeverDiffer == ASSUME MemorySuffices PROVE Spec => []VerdictsAgree
<1>1. ASSUME TypeOK, MemoryInv, NEW j \in Jobs, NEW v \in VerdictsOf(j)
      PROVE  Remembers([job |-> j, verdict |-> v])
  <2>1. ASSUME NEW i \in DOMAIN memory, memory[i].job = j, v = memory[i].verdict
        PROVE  Remembers([job |-> j, verdict |-> v])
    BY <2>1 DEF Remembers
  <2>2. ASSUME NEW s \in Sessions, NEW i \in DOMAIN up[s], up[s][i].job = j, v = up[s][i].verdict
        PROVE  Remembers([job |-> j, verdict |-> v])
    <3>1. up[s] \in Seq(RememberedResults)
      BY <1>1 DEF MemoryInv, Testimony
    <3>2. up[s][i] \in RememberedResults
      BY <3>1, LenProperties, ElementOfSeq
    <3> QED
      BY <2>2, <3>2 DEF RememberedResults, Remembers
  <2>3. ASSUME NEW t \in Slots, HandlesResult(t, j), v = task[t].verdict
        PROVE  Remembers([job |-> j, verdict |-> v])
    BY <1>1, <2>3 DEF HandlesResult, MemoryInv, Testimony, Remembers
  <2>4. ASSUME device.pc = "remembered", device.job = j, v = device.verdict
        PROVE  Remembers([job |-> j, verdict |-> v])
    BY <1>1, <2>4 DEF MemoryInv, Testimony, Remembers
  <2>5. ASSUME v \in Verdicts, row[j] = v \/ v \in answers[j]
        PROVE  Remembers([job |-> j, verdict |-> v])
    BY <1>1, <2>5 DEF MemoryInv, Testimony
  <2> QED
    BY <1>1, <2>1, <2>2, <2>3, <2>4, <2>5 DEF VerdictsOf
<1>2. TypeOK /\ MemoryInv => VerdictsAgree
  <2> SUFFICES ASSUME TypeOK, MemoryInv, NEW j \in Jobs, NEW v \in VerdictsOf(j), NEW w \in VerdictsOf(j)
               PROVE  v = w
    BY DEF VerdictsAgree
  <2>1. Remembers([job |-> j, verdict |-> v]) /\ Remembers([job |-> j, verdict |-> w])
    BY <1>1
  <2> QED
    BY <2>1 DEF Remembers, MemoryInv, AnsweredOnce
<1> QED
  BY <1>2, MemoryInvariant, PTL
=============================================================================
