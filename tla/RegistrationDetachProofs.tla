---------------------- MODULE RegistrationDetachProofs ----------------------
(***************************************************************************)
(* RegistrationDetach for any number of registrations, generations and     *)
(* faults: its invariant, and that it implements Retirement.               *)
(***************************************************************************)
EXTENDS RegistrationDetach, TLAPS

\* What the invariant says of one registration.
RegOK(r) ==
    LET j == <<r, "detach">> IN
    /\ HeldRow(r)
    /\ tomb[r].state = "detached" => retired[r] = tomb[r].gen /\ retired[r] # 0
    /\ job[j].state = "succeeded" => tomb[r].state = "detached"
    /\ tomb[r].state = "blocked" => Refused(r)
    /\ job[j].state = "failed" => tomb[r].state = "blocked"
    /\ EvidenceOf(r)

\* The invariant, registration by registration.
LEMMA InvByReg ==
    /\ DetachInv <=> TypeOK /\ LockHolds /\ \A r \in Regs : RegOK(r)
    /\ DetachInv' <=> TypeOK' /\ LockHolds' /\ \A r \in Regs : RegOK(r)'
BY DEF DetachInv, TombstoneHolds, RecordsAgree, RegOK

\* A step that leaves the records of a registration alone, and adds nothing
\* that is on its way for it, keeps what the invariant says of it.
LEMMA RegFrame ==
    ASSUME NEW r \in Regs, RegOK(r),
           kind'[r] = kind[r], row'[r] = row[r], tomb'[r] = tomb[r],
           job'[<<r, "detach">>] = job[<<r, "detach">>],
           retired'[r] = retired[r],
           answer'[<<r, "detach">>] = answer[<<r, "detach">>],
           busy' = <<r, "detach">> => busy = <<r, "detach">>,
           <<r, "detach">> \in down' => <<r, "detach">> \in down,
           \A v \in Verdicts : <<<<r, "detach">>, v>> \in up' => <<<<r, "detach">>, v>> \in up,
           \A h \in handler' : h.job = <<r, "detach">> => h \in handler
    PROVE  RegOK(r)'
<1>1. HeldRow(r)' BY DEF RegOK, HeldRow, Claimed
<1>2. EvidenceOf(r)' BY DEF RegOK, EvidenceOf
<1> QED BY <1>1, <1>2 DEF RegOK, Refused

\* The types of the variables, by name.
RowType == [state : {"absent", "ready", "detaching", "detached"}, gen : Gens]
TombType == [state : {"none", "pending", "blocked", "detached"}, gen : Gens]
JobType == [state : OpenJob \cup {"absent", "succeeded", "failed"}, gen : Gens]
HandlerType == [at : {"look", "finish", "update"}, job : Jobs, verdict : Verdicts]
PublishType == [at : {"idle", "sent", "read"}, reg : Regs \cup {NoReg}, gen : Gens,
                expected : Gens]
UploadType == [at : {"idle", "sent", "checked"}, reg : Regs \cup {NoReg}, locked : BOOLEAN]

RemoteTypes ==
    /\ kind \in [Regs -> Kinds] /\ row \in [Regs -> RowType]
    /\ tomb \in [Regs -> TombType] /\ job \in [Jobs -> JobType]
LocalTypes ==
    /\ config \in [Regs -> Gens] /\ retired \in [Regs -> Gens]
    /\ answer \in [Jobs -> Verdicts \cup {"none"}] /\ busy \in Jobs \cup {NoJob}
NetTypes ==
    /\ link \in BOOLEAN /\ down \subseteq Jobs /\ up \subseteq Jobs \X Verdicts
    /\ handler \subseteq HandlerType
OtherTypes ==
    /\ publish \in PublishType /\ upload \in UploadType
    /\ effects \in [Regs -> Nat] /\ faults \in 0 .. MaxFaults

LEMMA Types ==
    /\ TypeOK <=> RemoteTypes /\ LocalTypes /\ NetTypes /\ OtherTypes
    /\ TypeOK' <=> RemoteTypes' /\ LocalTypes' /\ NetTypes' /\ OtherTypes'
BY DEF TypeOK, RemoteTypes, LocalTypes, NetTypes, OtherTypes, RowType, TombType, JobType,
   HandlerType, PublishType, UploadType

\* They stay as they are with their variables.
LEMMA TypesKeep ==
    /\ UNCHANGED remote => (RemoteTypes => RemoteTypes')
    /\ UNCHANGED local => (LocalTypes => LocalTypes')
    /\ UNCHANGED net => (NetTypes => NetTypes')
    /\ UNCHANGED <<publish, upload, effects, faults>> => (OtherTypes => OtherTypes')
BY DEF RemoteTypes, LocalTypes, NetTypes, OtherTypes, remote, local, net

LEMMA JobsOf == ASSUME NEW r \in Regs PROVE <<r, "detach">> \in Jobs /\ <<r, "work">> \in Jobs
BY DEF Jobs, Tasks

\* The answer to a job is remembered, and sent when there is a link.
LEMMA Remembered ==
    ASSUME LocalTypes, NetTypes, NEW j \in Jobs, NEW v \in Verdicts, Remember(j, v)
    PROVE  /\ answer' \in [Jobs -> Verdicts \cup {"none"}] /\ up' \subseteq Jobs \X Verdicts
           /\ answer'[j] = v /\ \A i \in Jobs : i # j => answer'[i] = answer[i]
           /\ \A i, w : <<i, w>> \in up' => <<i, w>> \in up \/ (i = j /\ w = v)
BY DEF Remember, LocalTypes, NetTypes

LEMMA LockKeeps ==
    ASSUME LockHolds, retired' = retired, upload' = upload \/ ~ upload'.locked,
           publish' = publish \/ publish'.at = "idle" \/ publish'.reg \in Regs
    PROVE  LockHolds'
BY DEF LockHolds

\* What the code starts with.
LEMMA InitInv == Init => DetachInv
<1> SUFFICES ASSUME Init PROVE DetachInv
  OBVIOUS
<1>0. 0 \in Gens /\ 1 \in Gens /\ MaxFaults \in Nat
  BY DetachAssumption DEF Gens
<1>1. TypeOK
  <2>1. RemoteTypes
    BY <1>0 DEF Init, RemoteTypes, RowType, TombType, JobType
  <2>2. publish \in PublishType /\ upload \in UploadType
    BY <1>0 DEF Init, NoPublish, NoUpload, PublishType, UploadType
  <2>3. LocalTypes /\ NetTypes
    BY <1>0 DEF Init, LocalTypes, NetTypes
  <2>4. OtherTypes
    BY <1>0, <2>2 DEF Init, OtherTypes
  <2> QED
    BY <2>1, <2>3, <2>4, Types
<1>2. LockHolds
  BY DEF Init, LockHolds, NoUpload, NoPublish
<1>3. ASSUME NEW r \in Regs PROVE RegOK(r)
  <2>1. HeldRow(r)
    BY DEF Init, HeldRow
  <2>2. busy # <<r, "detach">>
    BY DEF Init, NoJob
  <2>3. EvidenceOf(r)
    BY <2>2, JobsOf DEF Init, EvidenceOf
  <2> QED
    BY <2>1, <2>3, JobsOf DEF Init, RegOK, Refused
<1> QED
  BY <1>1, <1>2, <1>3, InvByReg
-----------------------------------------------------------------------------
\* Uploads, publications in progress, Work and faults leave the records of
\* every registration alone.
Quiet ==
    \/ \E r \in Regs : PublishStart(r) \/ UploadStart(r)
    \/ PublishRead \/ UploadCheck \/ UploadCommit \/ GiveUpload
Faulty == Drop \/ Evict \/ Crash \/ \E r \in Regs : Reconfigure(r)
WorkStep == \E r \in Regs : SubmitWork(r) \/ Work(r)

LEMMA QuietStep == ASSUME DetachInv, Quiet PROVE DetachInv'
<1>0. /\ TypeOK /\ LockHolds /\ OtherTypes /\ LocalTypes /\ RemoteTypes
      /\ UNCHANGED <<remote, local, net>>
  BY Types DEF DetachInv, Quiet, PublishStart, UploadStart, PublishRead, UploadCheck,
     UploadCommit, GiveUpload
<1>1. OtherTypes' /\ LockHolds'
  <2>1. CASE \E r \in Regs : PublishStart(r)
    <3> PICK r \in Regs : PublishStart(r)
      BY <2>1
    <3>1. 0 \in Gens /\ config[r] \in Gens
      BY <1>0, DetachAssumption DEF LocalTypes, Gens
    <3>2. publish' \in PublishType
      BY <3>1 DEF PublishStart, PublishType
    <3>3. publish'.reg \in Regs
      BY DEF PublishStart
    <3> QED
      BY <1>0, <3>2, <3>3, LockKeeps DEF PublishStart, OtherTypes, local
  <2>2. CASE \E r \in Regs : UploadStart(r)
    <3> PICK r \in Regs : UploadStart(r)
      BY <2>2
    <3>1. upload' \in UploadType
      BY DEF UploadStart, UploadType
    <3> QED
      BY <1>0, <3>1 DEF UploadStart, OtherTypes, LockHolds, local
  <2>3. CASE PublishRead
    <3>1. publish \in PublishType /\ NoPublish \in PublishType
      BY <1>0, DetachAssumption DEF OtherTypes, PublishType, NoPublish, Gens
    <3>2. publish.reg \in Regs /\ row[publish.reg].gen \in Gens
      BY <1>0, <2>3 DEF PublishRead, LockHolds, RemoteTypes, RowType
    <3>3. publish' \in PublishType /\ (publish'.reg \in Regs \/ publish'.at = "idle")
      BY <2>3, <3>1, <3>2 DEF PublishRead, PublishType, NoPublish
    <3> QED
      BY <1>0, <2>3, <3>3, LockKeeps DEF PublishRead, OtherTypes, local
  <2>4. CASE UploadCheck
    <3>1. upload \in UploadType
      BY <1>0 DEF OtherTypes
    <3>2. [upload EXCEPT !.at = "checked"] \in UploadType /\ NoUpload \in UploadType
      BY <3>1 DEF UploadType, NoUpload
    <3>3. upload' \in UploadType
      BY <2>4, <3>2 DEF UploadCheck
    <3>4. LockHolds'
      BY <1>0, <2>4, <3>1 DEF UploadCheck, LockHolds, UploadType, NoUpload, local
    <3> QED
      BY <1>0, <2>4, <3>3, <3>4 DEF UploadCheck, OtherTypes
  <2>5. CASE UploadCommit
    <3>0. upload.locked => upload.reg \in Regs
      BY <1>0 DEF LockHolds
    <3>1. effects' \in [Regs -> Nat]
      BY <1>0, <2>5, <3>0 DEF UploadCommit, OtherTypes
    <3>2. upload' \in UploadType /\ ~ upload'.locked
      BY <2>5 DEF UploadCommit, UploadType, NoUpload
    <3> QED
      BY <1>0, <2>5, <3>1, <3>2, LockKeeps DEF UploadCommit, OtherTypes, local
  <2>6. CASE GiveUpload
    <3>1. upload' \in UploadType /\ ~ upload'.locked
      BY <1>0, <2>6 DEF GiveUpload, OtherTypes, UploadType
    <3>2. faults' \in 0 .. MaxFaults
      BY <1>0, <2>6, DetachAssumption DEF GiveUpload, Fault, OtherTypes
    <3> QED
      BY <1>0, <2>6, <3>1, <3>2, LockKeeps DEF GiveUpload, OtherTypes, local
  <2> QED
    BY <2>1, <2>2, <2>3, <2>4, <2>5, <2>6 DEF Quiet
<1>2. TypeOK'
  BY <1>0, <1>1, Types, TypesKeep
<1>3. ASSUME NEW r \in Regs PROVE RegOK(r)'
  <2>1. RegOK(r)
    BY InvByReg
  <2> QED
    BY <1>0, <2>1, RegFrame DEF remote, local, net
<1> QED
  BY <1>1, <1>2, <1>3, InvByReg

LEMMA FaultyStep == ASSUME DetachInv, Faulty PROVE DetachInv'
<1>0. TypeOK /\ LockHolds /\ OtherTypes /\ LocalTypes /\ RemoteTypes /\ NetTypes
  BY Types DEF DetachInv
<1>1. /\ faults' \in 0 .. MaxFaults /\ UNCHANGED <<remote, retired, answer, publish, effects>>
      /\ busy' \in {busy, NoJob} /\ link' = FALSE /\ down' = {} /\ up' = {}
      /\ handler' \in {handler, {}}
      /\ upload' \in {upload, [upload EXCEPT !.locked = FALSE]}
  BY <1>0, DetachAssumption DEF Faulty, Drop, Evict, Crash, Reconfigure, Stop, Fault,
     OtherTypes, remote, local
<1>2. upload' \in UploadType /\ (upload' = upload \/ ~ upload'.locked)
  BY <1>0, <1>1 DEF OtherTypes, UploadType
<1>3. config' \in [Regs -> Gens]
  BY <1>0 DEF Faulty, Drop, Evict, Crash, Reconfigure, Stop, LocalTypes, local
<1>4. OtherTypes' /\ LocalTypes' /\ NetTypes' /\ RemoteTypes'
  BY <1>0, <1>1, <1>2, <1>3 DEF OtherTypes, LocalTypes, NetTypes, RemoteTypes, remote
<1>5. LockHolds'
  BY <1>0, <1>1, <1>2, LockKeeps
<1>6. ASSUME NEW r \in Regs PROVE RegOK(r)'
  <2>1. RegOK(r) /\ <<r, "detach">> # NoJob
    BY InvByReg DEF NoJob
  <2> QED
    BY <1>1, <2>1, RegFrame DEF remote
<1> QED
  BY <1>4, <1>5, <1>6, Types, InvByReg

LEMMA WorkKeeps == ASSUME DetachInv, WorkStep PROVE DetachInv'
<1> PICK q \in Regs : SubmitWork(q) \/ Work(q)
  BY DEF WorkStep
<1>0. TypeOK /\ LockHolds /\ OtherTypes /\ LocalTypes /\ RemoteTypes /\ NetTypes
  BY Types DEF DetachInv
<1>1. CASE SubmitWork(q)
  <2>1. [state |-> "queued", gen |-> row[q].gen] \in JobType
    BY <1>0 DEF JobType, OpenJob, RemoteTypes, RowType
  <2>2. RemoteTypes' /\ UNCHANGED <<local, net, publish, upload, effects, faults>>
    BY <1>0, <1>1, <2>1, JobsOf DEF SubmitWork, RemoteTypes
  <2>3. LockHolds'
    BY <1>0, <2>2, LockKeeps DEF local
  <2>4. ASSUME NEW r \in Regs PROVE RegOK(r)'
    <3>1. RegOK(r) /\ job'[<<r, "detach">>] = job[<<r, "detach">>]
      BY <1>0, <1>1, JobsOf, InvByReg DEF SubmitWork, RemoteTypes
    <3> QED
      BY <1>1, <2>2, <3>1, RegFrame DEF SubmitWork, local, net
  <2> QED
    BY <1>0, <2>2, <2>3, <2>4, Types, TypesKeep, InvByReg
<1>2. CASE Work(q)
  <2>1. PICK v \in Verdicts : Remember(<<q, "work">>, v)
    BY <1>2 DEF Work, Verdicts
  <2>2. /\ answer' \in [Jobs -> Verdicts \cup {"none"}] /\ up' \subseteq Jobs \X Verdicts
        /\ \A i \in Jobs : i # <<q, "work">> => answer'[i] = answer[i]
        /\ \A i, w : <<i, w>> \in up' => <<i, w>> \in up \/ (i = <<q, "work">> /\ w = v)
    BY <1>0, <2>1, JobsOf, Remembered
  <2>3. effects' \in [Regs -> Nat]
    BY <1>0, <1>2 DEF Work, OtherTypes
  <2>4. UNCHANGED <<remote, config, retired, link, down, handler, publish, upload, faults>>
        /\ busy' = NoJob
    BY <1>2 DEF Work
  <2>5. OtherTypes' /\ LocalTypes' /\ NetTypes' /\ RemoteTypes'
    BY <1>0, <2>2, <2>3, <2>4 DEF OtherTypes, LocalTypes, NetTypes, RemoteTypes, remote
  <2>6. LockHolds'
    BY <1>0, <2>4, LockKeeps
  <2>7. ASSUME NEW r \in Regs PROVE RegOK(r)'
    <3>1. RegOK(r) /\ <<r, "detach">> # NoJob /\ <<r, "detach">> # <<q, "work">>
          /\ <<r, "detach">> \in Jobs
      BY InvByReg, JobsOf DEF NoJob
    <3> QED
      BY <2>2, <2>4, <3>1, RegFrame DEF remote
  <2> QED
    BY <2>5, <2>6, <2>7, Types, InvByReg
<1> QED
  BY <1>1, <1>2
-----------------------------------------------------------------------------
(* The owner and the publishing process: the remote row of one registration. *)

LEMMA DetachStep ==
    ASSUME DetachInv, NEW q \in Regs, NEW gen \in Gens \ {0}, Detach(q, gen) PROVE DetachInv'
<1>0. TypeOK /\ LockHolds /\ OtherTypes /\ LocalTypes /\ RemoteTypes /\ NetTypes
  BY Types DEF DetachInv
<1>1. RemoteTypes'
  <2>1. [row[q] EXCEPT !.state = "detaching"] \in RowType
    BY <1>0 DEF RemoteTypes, RowType
  <2>2. [state |-> "pending", gen |-> gen] \in TombType
    BY DEF TombType
  <2>3. [state |-> "queued", gen |-> gen] \in JobType
    BY DEF JobType, OpenJob
  <2> QED
    BY <1>0, <2>1, <2>2, <2>3, JobsOf DEF RemoteTypes, Detach
<1>2. LockHolds' /\ TypeOK'
  BY <1>0, <1>1, LockKeeps, Types, TypesKeep DEF Detach, local
<1>3. ASSUME NEW r \in Regs PROVE RegOK(r)'
  <2>1. RegOK(r)
    BY InvByReg
  <2>2. CASE r # q
    <3>1. <<r, "detach">> # <<q, "detach">>
      BY <2>2
    <3>2. row'[r] = row[r] /\ tomb'[r] = tomb[r]
          /\ job'[<<r, "detach">>] = job[<<r, "detach">>]
      BY <1>0, <2>2, <3>1, JobsOf DEF Detach, RemoteTypes
    <3> QED
      BY <2>1, <3>2, RegFrame DEF Detach, local, net
  <2>3. CASE r = q
    <3>1. /\ tomb'[r].state = "pending" /\ tomb'[r].gen = gen
          /\ row'[r].gen = gen
          /\ row'[r].state = IF kind[r] = "connection" THEN "detaching" ELSE "ready"
      BY <1>0, <2>3 DEF Detach, RemoteTypes, RowType
    <3>2. job'[<<r, "detach">>].state = "queued" /\ job'[<<r, "detach">>].gen = gen
      BY <1>0, <2>3, JobsOf DEF Detach, RemoteTypes
    <3>3. tomb[r].state = "none"
      BY <2>3 DEF Detach
    <3>4. HeldRow(r)'
      BY <3>1 DEF HeldRow, Claimed, Detach
    <3>5. /\ job[<<r, "detach">>].state = "absent" /\ answer[<<r, "detach">>] = "none"
          /\ busy # <<r, "detach">> /\ <<r, "detach">> \notin down
      BY <2>1, <3>3 DEF RegOK, EvidenceOf
    <3>6. /\ \A v \in Verdicts : <<<<r, "detach">>, v>> \notin up
          /\ \A h \in handler : h.job # <<r, "detach">>
      BY <1>0, <2>1, <3>5 DEF RegOK, EvidenceOf, NetTypes, HandlerType, Verdicts
    <3>7. retired[r] = 0
      BY <2>1, <3>3 DEF RegOK, EvidenceOf
    <3>8. EvidenceOf(r)'
      BY <3>1, <3>2, <3>5, <3>6, <3>7 DEF EvidenceOf, Detach, local, net
    <3> QED
      BY <3>1, <3>2, <3>4, <3>8 DEF RegOK
  <2> QED
    BY <2>2, <2>3
<1> QED
  BY <1>2, <1>3, InvByReg

\* A row alone changes, and the tombstone agrees with what it becomes.
LEMMA RowStep ==
    ASSUME DetachInv, NEW q, NEW rec \in RowType, row' = [row EXCEPT ![q] = rec],
           UNCHANGED <<kind, tomb, job, local, net, upload, effects, faults>>,
           publish' \in PublishType,
           publish' = publish \/ publish'.at = "idle" \/ publish'.reg \in Regs,
           q \in Regs =>
              \/ tomb[q].state = "none" /\ rec.state \in {"ready", "absent"}
              \/ tomb[q].state = "detached" /\ rec.state = "absent"
    PROVE  DetachInv'
<1>0. TypeOK /\ LockHolds /\ OtherTypes /\ RemoteTypes /\ LocalTypes /\ NetTypes
  BY Types DEF DetachInv
<1>1. RemoteTypes' /\ OtherTypes' /\ LocalTypes' /\ NetTypes'
  BY <1>0, TypesKeep DEF RemoteTypes, OtherTypes
<1>2. LockHolds'
  BY <1>0, LockKeeps DEF local
<1>3. ASSUME NEW r \in Regs PROVE RegOK(r)'
  <2>1. RegOK(r)
    BY InvByReg
  <2>2. CASE r # q
    <3>1. row'[r] = row[r]
      BY <1>0, <2>2 DEF RemoteTypes
    <3> QED
      BY <2>1, <3>1, RegFrame DEF local, net
  <2>3. CASE r = q
    <3>1. row'[r] = rec
      BY <1>0, <2>3 DEF RemoteTypes
    <3>2. HeldRow(r)'
      BY <2>3, <3>1 DEF HeldRow
    <3>3. EvidenceOf(r)'
      BY <2>1 DEF RegOK, EvidenceOf, local, net
    <3> QED
      BY <2>1, <3>2, <3>3 DEF RegOK, Refused, local
  <2> QED
    BY <2>2, <2>3
<1> QED
  BY <1>1, <1>2, <1>3, Types, InvByReg

LEMMA RowSteps ==
    ASSUME DetachInv, PublishCommit \/ \E r \in Regs : Bind(r) \/ PurgeRow(r)
    PROVE  DetachInv'
<1>0. TypeOK /\ OtherTypes /\ RemoteTypes /\ MaxGen \in Nat
  BY Types, DetachAssumption DEF DetachInv
<1>1. ASSUME NEW q \in Regs, Bind(q) PROVE DetachInv'
  <2>1. row[q].gen \in Gens
    BY <1>0 DEF RemoteTypes, RowType
  <2>2. row[q].gen + 1 \in Gens
    BY <1>0, <1>1, <2>1 DEF Bind, Gens
  <2>3. [state |-> "ready", gen |-> row[q].gen + 1] \in RowType
    BY <2>2 DEF RowType
  <2> QED
    BY <1>0, <1>1, <2>3, RowStep DEF Bind, NoTombstone, OtherTypes
<1>2. ASSUME NEW q \in Regs, PurgeRow(q) PROVE DetachInv'
  <2>1. HeldRow(q)
    BY InvByReg DEF RegOK
  <2>2. tomb[q].state \in {"none", "pending", "blocked", "detached"}
    BY <1>0 DEF RemoteTypes, TombType
  <2>3. tomb[q].state = "detached"
    BY <1>2, <2>1, <2>2 DEF PurgeRow, HeldRow, Claimed
  <2>4. [state |-> "absent", gen |-> 0] \in RowType
    BY <1>0 DEF RowType, Gens
  <2> QED
    BY <1>0, <1>2, <2>3, <2>4, RowStep DEF PurgeRow, OtherTypes
<1>3. ASSUME PublishCommit PROVE DetachInv'
  <2>1. publish \in PublishType /\ NoPublish \in PublishType /\ NoPublish.at = "idle"
    BY <1>0 DEF OtherTypes, PublishType, NoPublish, Gens
  <2>2. publish.reg \in Regs
    BY <1>3 DEF PublishCommit, DetachInv, LockHolds
  <2>3. CASE row[publish.reg].gen = publish.expected /\ NoTombstone(publish.reg)
    <3>1. [state |-> "ready", gen |-> publish.gen] \in RowType
      BY <2>1 DEF RowType, PublishType
    <3>2. row' = [row EXCEPT ![publish.reg] = [state |-> "ready", gen |-> publish.gen]]
      BY <1>3, <2>3 DEF PublishCommit
    <3> QED
      BY <1>3, <2>1, <2>2, <2>3, <3>1, <3>2, RowStep DEF PublishCommit, NoTombstone
  <2>4. CASE row' = row
    <3>1. LockHolds' /\ OtherTypes' /\ RemoteTypes'
      BY <1>0, <1>3, <2>1, <2>4, LockKeeps, TypesKeep
         DEF PublishCommit, OtherTypes, local, remote, DetachInv
    <3>2. TypeOK'
      BY <1>0, <1>3, <3>1, Types, TypesKeep DEF PublishCommit
    <3>3. ASSUME NEW r \in Regs PROVE RegOK(r)'
      <4>1. RegOK(r)
        BY InvByReg
      <4> QED
        BY <1>3, <2>4, <4>1, RegFrame DEF PublishCommit, local, net
    <3> QED
      BY <3>1, <3>2, <3>3, InvByReg
  <2> QED
    BY <1>3, <2>3, <2>4 DEF PublishCommit
<1> QED
  BY <1>1, <1>2, <1>3
-----------------------------------------------------------------------------
(* The broker's and the device's steps.  Evidence is named for reuse: what an *)
(* open answer, a job in hand or a result on its way say of a registration.   *)

\* A step of these never changes a row, or the Work of others.
LEMMA SendStep ==
    ASSUME DetachInv, Connect \/ \E j \in Jobs : Dispatch(j) \/ Take(j)
    PROVE  DetachInv'
<1>0. TypeOK /\ LockHolds /\ OtherTypes /\ RemoteTypes /\ LocalTypes /\ NetTypes
  BY Types DEF DetachInv
<1>1. CASE Connect
  <2>1. RemoteTypes' /\ LocalTypes' /\ NetTypes' /\ OtherTypes' /\ LockHolds'
    BY <1>0, <1>1, TypesKeep, LockKeeps DEF Connect, Replayed, NetTypes, local
  <2>2. ASSUME NEW r \in Regs PROVE RegOK(r)'
    <3>1. RegOK(r)
      BY InvByReg
    <3>2. job[<<r, "detach">>].state = "dispatched" => job[<<r, "detach">>].state # "absent"
      OBVIOUS
    <3>3. EvidenceOf(r)'
      BY <1>1, <3>1 DEF Connect, Replayed, RegOK, EvidenceOf, remote, local
    <3>4. HeldRow(r)' /\ (Refused(r) => Refused(r)')
      BY <1>1, <3>1 DEF Connect, RegOK, HeldRow, Claimed, Refused, remote, local
    <3> QED
      BY <1>1, <3>1, <3>3, <3>4 DEF Connect, RegOK, remote, local
  <2> QED
    BY <2>1, <2>2, Types, InvByReg
<1>2. ASSUME NEW j \in Jobs, Dispatch(j) PROVE DetachInv'
  <2>1. [job[j] EXCEPT !.state = "dispatched"] \in JobType
    BY <1>0 DEF RemoteTypes, JobType, OpenJob
  <2>2. RemoteTypes' /\ LocalTypes' /\ NetTypes' /\ OtherTypes' /\ LockHolds'
    BY <1>0, <1>2, <2>1, TypesKeep, LockKeeps DEF Dispatch, RemoteTypes, NetTypes, local
  <2>3. ASSUME NEW r \in Regs PROVE RegOK(r)'
    <3>1. RegOK(r) /\ <<r, "detach">> \in Jobs /\ job \in [Jobs -> JobType]
      BY <1>0, InvByReg, JobsOf DEF RemoteTypes
    <3>2. CASE j # <<r, "detach">>
      BY <1>2, <3>1, <3>2, RegFrame DEF Dispatch, local
    <3>3. CASE j = <<r, "detach">>
      <4>1. /\ job'[j].state = "dispatched" /\ job'[j].gen = job[j].gen
            /\ job[j].state = "queued" /\ j \in Jobs
        BY <1>2, <3>1, <3>3 DEF Dispatch, JobType
      <4>2. EvidenceOf(r)'
        BY <1>2, <3>1, <3>3, <4>1 DEF Dispatch, RegOK, EvidenceOf, local
      <4>3. HeldRow(r)' /\ (Refused(r) => Refused(r)')
        BY <1>2, <3>1 DEF Dispatch, RegOK, HeldRow, Claimed, Refused, local
      <4> QED
        BY <1>2, <3>1, <3>3, <4>1, <4>2, <4>3 DEF Dispatch, RegOK, local
    <3> QED
      BY <3>2, <3>3
  <2> QED
    BY <2>2, <2>3, Types, InvByReg
<1>3. ASSUME NEW j \in Jobs, Take(j) PROVE DetachInv'
  <2>1. answer[j] \in Verdicts \cup {"none"}
    BY <1>0 DEF LocalTypes
  <2>2. RemoteTypes' /\ LocalTypes' /\ NetTypes' /\ OtherTypes' /\ LockHolds'
    BY <1>0, <1>3, <2>1, TypesKeep, LockKeeps DEF Take, LocalTypes, NetTypes, local
  <2>3. ASSUME NEW r \in Regs PROVE RegOK(r)'
    <3>1. RegOK(r) /\ <<r, "detach">> \in Jobs
      BY InvByReg, JobsOf
    <3>2. CASE j # <<r, "detach">>
      BY <1>3, <3>1, <3>2, RegFrame DEF Take, remote
    <3>3. CASE j = <<r, "detach">>
      <4>1. EvidenceOf(r)'
        BY <1>3, <3>1, <3>3 DEF Take, RegOK, EvidenceOf, remote
      <4>2. HeldRow(r)' /\ (Refused(r) => Refused(r)')
        BY <1>3, <3>1 DEF Take, RegOK, HeldRow, Claimed, Refused, remote
      <4> QED
        BY <1>3, <3>1, <4>1, <4>2 DEF Take, RegOK, remote
    <3> QED
      BY <3>2, <3>3
  <2> QED
    BY <2>2, <2>3, Types, InvByReg
<1> QED
  BY <1>1, <1>2, <1>3

\* What a detach job in the device's hands says: it is not answered, nothing of
\* it is on its way, and its registration is neither blocked nor detached unless
\* the device has retired it already.
LEMMA InHand ==
    ASSUME DetachInv, NEW r \in Regs, busy = <<r, "detach">>
    PROVE  LET j == <<r, "detach">> IN
           /\ answer[j] = "none" /\ job[j].gen = tomb[r].gen /\ tomb[r].gen # 0
           /\ tomb[r].state # "blocked" /\ (retired[r] # 0 => retired[r] = tomb[r].gen)
           /\ \A v \in Verdicts : <<j, v>> \notin up
           /\ \A h \in handler : h.job # j
<1>1. RegOK(r) /\ NetTypes /\ RemoteTypes
  BY InvByReg, Types DEF DetachInv
<1>2. answer[<<r, "detach">>] = "none" /\ job[<<r, "detach">>].state # "absent"
  BY <1>1 DEF RegOK, EvidenceOf
<1>3. \A h \in handler : h.verdict \in Verdicts
  BY <1>1 DEF NetTypes, HandlerType
<1> QED
  BY <1>1, <1>2, <1>3 DEF RegOK, EvidenceOf, Refused, Verdicts

LEMMA RetireSteps ==
    ASSUME DetachInv, NEW q \in Regs, Retire(q) \/ RetireAnswer(q) PROVE DetachInv'
<1>0. TypeOK /\ LockHolds /\ OtherTypes /\ RemoteTypes /\ LocalTypes /\ NetTypes
  BY Types DEF DetachInv
<1>1. RegOK(q) /\ <<q, "detach">> \in Jobs /\ busy = <<q, "detach">>
  BY InvByReg, JobsOf DEF Retire, RetireAnswer
<1>2. /\ answer[busy] = "none" /\ job[busy].gen = tomb[q].gen /\ tomb[q].gen # 0
      /\ tomb[q].state # "blocked" /\ (retired[q] # 0 => retired[q] = tomb[q].gen)
      /\ \A v \in Verdicts : <<busy, v>> \notin up
      /\ \A h \in handler : h.job # busy
  BY <1>1, InHand
<1>3. CASE Retire(q)
  <2>1. job[busy].gen \in Gens
    BY <1>0, <1>1 DEF RemoteTypes, JobType
  <2>2. RemoteTypes' /\ LocalTypes' /\ NetTypes' /\ OtherTypes'
    BY <1>0, <1>3, <2>1, TypesKeep DEF Retire, LocalTypes, net
  <2>3. LockHolds'
    BY <1>0, <1>3 DEF Retire, Drained, LockHolds
  <2>4. ASSUME NEW r \in Regs PROVE RegOK(r)'
    <3>1. RegOK(r)
      BY InvByReg
    <3>2. CASE r # q
      <4>1. retired'[r] = retired[r]
        BY <1>0, <1>3, <3>2 DEF Retire, LocalTypes
      <4> QED
        BY <1>3, <3>1, <4>1, RegFrame DEF Retire, remote, net
    <3>3. CASE r = q
      <4>1. retired'[r] = tomb[r].gen /\ retired[r] = 0
        BY <1>0, <1>1, <1>2, <1>3, <3>3 DEF Retire, LocalTypes
      <4>2. tomb[r].state # "detached"
        BY <3>1, <4>1 DEF RegOK
      <4>3. EvidenceOf(r)'
        BY <1>1, <1>2, <1>3, <3>1, <3>3, <4>1 DEF Retire, RegOK, EvidenceOf, remote, net
      <4>4. HeldRow(r)'
        BY <1>3, <3>1 DEF Retire, RegOK, HeldRow, Claimed, remote
      <4> QED
        BY <1>2, <1>3, <3>1, <3>3, <4>2, <4>3, <4>4 DEF Retire, RegOK, remote
    <3> QED
      BY <3>2, <3>3
  <2> QED
    BY <2>2, <2>3, <2>4, Types, InvByReg
<1>4. CASE RetireAnswer(q)
  <2> DEFINE v == IF retired[q] = job[busy].gen THEN "ok" ELSE "failed"
  <2>1. v \in Verdicts /\ Remember(busy, v)
    BY <1>4 DEF RetireAnswer, Verdicts
  <2>2. (v = "ok" => retired[q] # 0) /\ (v = "failed" => retired[q] = 0)
    BY <1>2
  <2> HIDE DEF v
  <2>3. /\ answer' \in [Jobs -> Verdicts \cup {"none"}] /\ up' \subseteq Jobs \X Verdicts
        /\ answer'[busy] = v /\ \A i \in Jobs : i # busy => answer'[i] = answer[i]
        /\ \A i, w : <<i, w>> \in up' => <<i, w>> \in up \/ (i = busy /\ w = v)
    BY <1>0, <1>1, <2>1, Remembered
  <2>4. /\ busy' = NoJob
        /\ UNCHANGED <<remote, config, retired, link, down, handler, publish, upload,
                       effects, faults>>
    BY <1>4 DEF RetireAnswer
  <2>5. RemoteTypes' /\ LocalTypes' /\ NetTypes' /\ OtherTypes' /\ LockHolds'
    BY <1>0, <2>3, <2>4, TypesKeep, LockKeeps DEF LocalTypes, NetTypes
  <2>6. ASSUME NEW r \in Regs PROVE RegOK(r)'
    <3>1. RegOK(r) /\ <<r, "detach">> \in Jobs /\ <<r, "detach">> # NoJob
      BY InvByReg, JobsOf DEF NoJob
    <3>2. CASE r # q
      <4>1. <<r, "detach">> # busy
        BY <1>1, <3>2
      <4> QED
        BY <2>3, <2>4, <3>1, <4>1, RegFrame DEF remote
    <3>3. CASE r = q
      <4>1. job[busy].state # "absent"
        BY <1>1 DEF RegOK, EvidenceOf
      <4>2. EvidenceOf(r)'
        BY <1>1, <1>2, <2>2, <2>3, <2>4, <3>1, <3>3, <4>1 DEF RegOK, EvidenceOf, remote
      <4>3. HeldRow(r)'
        BY <2>4, <3>1 DEF RegOK, HeldRow, Claimed, remote
      <4> QED
        BY <1>2, <2>4, <3>1, <3>3, <4>2, <4>3 DEF RegOK, remote
    <3> QED
      BY <3>2, <3>3
  <2> QED
    BY <2>5, <2>6, Types, InvByReg
<1> QED
  BY <1>3, <1>4

\* What a result of a detach job says on its way to the broker, or there.
LEMMA InHandler ==
    ASSUME DetachInv, NEW h \in handler, NEW r \in Regs, h.job = <<r, "detach">>
    PROVE  /\ answer[h.job] = h.verdict /\ h.verdict \in Verdicts
           /\ h.verdict = "ok" => retired[r] = tomb[r].gen /\ retired[r] # 0
           /\ h.verdict = "failed" => retired[r] = 0
           /\ job[h.job].state # "absent" /\ tomb[r].state # "none"
<1>1. RegOK(r) /\ NetTypes
  BY InvByReg, Types DEF DetachInv
<1>2. h.verdict \in Verdicts /\ answer[h.job] = h.verdict
  BY <1>1 DEF NetTypes, HandlerType, RegOK, EvidenceOf
<1> QED
  BY <1>1, <1>2 DEF RegOK, EvidenceOf, Verdicts

LEMMA ReceiveStep ==
    ASSUME DetachInv, NEW j \in Jobs, NEW v \in Verdicts, Receive(j, v) PROVE DetachInv'
<1>0. TypeOK /\ LockHolds /\ OtherTypes /\ RemoteTypes /\ LocalTypes /\ NetTypes
  BY Types DEF DetachInv
<1> DEFINE h0 == [at |-> IF j[2] = "detach" THEN "look" ELSE "update", job |-> j, verdict |-> v]
<1>1. h0 \in HandlerType /\ h0.job = j /\ h0.verdict = v
      /\ (h0.at = "update" => j[2] # "detach")
  BY DEF HandlerType
<1>2. handler' \subseteq handler \cup {h0} /\ up' \subseteq up /\ <<j, v>> \in up
      /\ UNCHANGED <<remote, local, link, down, publish, upload, effects, faults>>
  BY DEF Receive
<1> HIDE DEF h0
<1>3. RemoteTypes' /\ LocalTypes' /\ NetTypes' /\ OtherTypes' /\ LockHolds'
  BY <1>0, <1>1, <1>2, TypesKeep, LockKeeps DEF NetTypes, local
<1>4. ASSUME NEW r \in Regs PROVE RegOK(r)'
  <2>1. RegOK(r)
    BY InvByReg
  <2>2. CASE j # <<r, "detach">>
    BY <1>1, <1>2, <2>1, <2>2, RegFrame DEF remote, local
  <2>3. CASE j = <<r, "detach">>
    <3>1. answer[j] = v /\ h0.at # "update"
      BY <1>1, <1>2, <2>1, <2>3 DEF RegOK, EvidenceOf
    <3>2. \A h \in handler' : h.job = j =>
             /\ answer[j] = h.verdict
             /\ h.at = "update" => tomb[r].state = IF h.verdict = "ok" THEN "detached" ELSE "blocked"
      BY <1>1, <1>2, <2>1, <2>3, <3>1 DEF RegOK, EvidenceOf
    <3>3. EvidenceOf(r)'
      BY <1>2, <2>1, <2>3, <3>2 DEF RegOK, EvidenceOf, remote, local
    <3>4. HeldRow(r)'
      BY <1>2, <2>1 DEF RegOK, HeldRow, Claimed, remote
    <3> QED
      BY <1>2, <2>1, <3>3, <3>4 DEF RegOK, Refused, remote, local
  <2> QED
    BY <2>2, <2>3
<1> QED
  BY <1>3, <1>4, Types, InvByReg

\* The tasks of a job are two.
LEMMA TaskOf ==
    ASSUME NEW j \in Jobs PROVE \E r \in Regs : j = <<r, "detach">> \/ j = <<r, "work">>
BY DEF Jobs, Tasks

LEMMA LookStep == ASSUME DetachInv, NEW h \in handler, Look(h) PROVE DetachInv'
<1>0. TypeOK /\ LockHolds /\ OtherTypes /\ RemoteTypes /\ LocalTypes /\ NetTypes
      /\ h \in HandlerType
  BY Types DEF DetachInv, NetTypes
<1> DEFINE h1 == [h EXCEPT !.at = IF tomb[h.job[1]].state = "detached" THEN "update" ELSE "finish"]
<1>1. /\ h1 \in HandlerType /\ h1.job = h.job /\ h1.verdict = h.verdict
      /\ h1.at = "update" => tomb[h.job[1]].state = "detached"
  BY <1>0 DEF HandlerType
<1>2. handler' \subseteq handler \cup {h1}
      /\ UNCHANGED <<remote, local, link, down, up, publish, upload, effects, faults>>
  BY DEF Look
<1> HIDE DEF h1
<1>3. RemoteTypes' /\ LocalTypes' /\ NetTypes' /\ OtherTypes' /\ LockHolds'
  BY <1>0, <1>1, <1>2, TypesKeep, LockKeeps DEF NetTypes, local
<1>4. ASSUME NEW r \in Regs PROVE RegOK(r)'
  <2>1. RegOK(r)
    BY InvByReg
  <2>2. CASE h.job # <<r, "detach">>
    BY <1>1, <1>2, <2>1, <2>2, RegFrame DEF remote, local
  <2>3. CASE h.job = <<r, "detach">>
    <3>1. /\ answer[h.job] = h.verdict /\ h.verdict \in Verdicts
          /\ h.verdict = "failed" => retired[r] = 0
      BY <2>3, InHandler
    <3>2. h1.at = "update" => h1.verdict = "ok" /\ tomb[r].state = "detached"
      BY <1>1, <2>1, <2>3, <3>1 DEF RegOK, Verdicts
    <3>3. \A g \in handler' : g.job = h.job =>
             /\ answer[h.job] = g.verdict
             /\ g.at = "update" => tomb[r].state = IF g.verdict = "ok" THEN "detached" ELSE "blocked"
      BY <1>1, <1>2, <2>1, <2>3, <3>1, <3>2 DEF RegOK, EvidenceOf
    <3>4. EvidenceOf(r)'
      BY <1>2, <2>1, <2>3, <3>3 DEF RegOK, EvidenceOf, remote, local
    <3>5. HeldRow(r)'
      BY <1>2, <2>1 DEF RegOK, HeldRow, Claimed, remote
    <3> QED
      BY <1>2, <2>1, <3>4, <3>5 DEF RegOK, Refused, remote, local
  <2> QED
    BY <2>2, <2>3
<1> QED
  BY <1>3, <1>4, Types, InvByReg

\* Only a detach job is looked at and finished.
LEMMA FinishStep ==
    ASSUME DetachInv, NEW h \in handler, Finish(h), NEW q \in Regs, h.job = <<q, "detach">>
    PROVE  DetachInv'
<1>0. TypeOK /\ LockHolds /\ OtherTypes /\ RemoteTypes /\ LocalTypes /\ NetTypes
      /\ h \in HandlerType /\ 0 \in Gens
  BY Types, DetachAssumption DEF DetachInv, NetTypes, Gens
<1>1. RegOK(q) /\ <<q, "detach">> \in Jobs
  BY InvByReg, JobsOf
<1>2. /\ answer[h.job] = h.verdict /\ h.verdict \in Verdicts
      /\ h.verdict = "ok" => retired[q] = tomb[q].gen /\ retired[q] # 0
      /\ h.verdict = "failed" => retired[q] = 0
      /\ job[h.job].state # "absent" /\ tomb[q].state # "none"
  BY InHandler
<1> DEFINE h1 == [h EXCEPT !.at = "update"]
<1>3. h1 \in HandlerType /\ h1.job = h.job /\ h1.verdict = h.verdict
  BY <1>0 DEF HandlerType
<1> HIDE DEF h1
<1>4. UNCHANGED <<kind, job, local, link, down, up, publish, upload, effects, faults>>
  BY DEF Finish
<1>5. CASE ~ FinishGuard(q, h.verdict)
  <2>1. handler' \subseteq handler /\ UNCHANGED <<row, tomb>>
    BY <1>5 DEF Finish
  <2>2. RemoteTypes' /\ LocalTypes' /\ NetTypes' /\ OtherTypes' /\ LockHolds'
    BY <1>0, <1>4, <2>1, TypesKeep, LockKeeps DEF NetTypes, local, remote
  <2>3. ASSUME NEW r \in Regs PROVE RegOK(r)'
    BY <1>4, <2>1, InvByReg, RegFrame DEF local
  <2> QED
    BY <2>2, <2>3, Types, InvByReg
<1>6. CASE FinishGuard(q, h.verdict)
  <2> DEFINE t == IF h.verdict = "ok" THEN "detached" ELSE "blocked"
             rec == IF h.verdict # "ok" THEN row[q]
                    ELSE IF kind[q] = "connection" THEN [row[q] EXCEPT !.state = "detached"]
                    ELSE [state |-> "absent", gen |-> 0]
  <2>1. /\ tomb' = [tomb EXCEPT ![q] = [tomb[q] EXCEPT !.state = t]]
        /\ handler' \subseteq handler \cup {h1}
    BY <1>6 DEF Finish, Exact, h1
  <2>2. row' = [row EXCEPT ![q] = rec]
    <3>1. row = [row EXCEPT ![q] = row[q]]
      BY <1>0 DEF RemoteTypes
    <3> QED
      BY <1>6, <3>1 DEF Finish, Exact
  <2>3. [tomb[q] EXCEPT !.state = t] \in TombType /\ rec \in RowType
    BY <1>0 DEF RemoteTypes, TombType, RowType
  <2>4. /\ tomb'[q].state = t /\ tomb'[q].gen = tomb[q].gen /\ row'[q] = rec
        /\ \A r \in Regs : r # q => tomb'[r] = tomb[r] /\ row'[r] = row[r]
    BY <1>0, <2>1, <2>2 DEF RemoteTypes, TombType
  <2>5. RemoteTypes' /\ LocalTypes' /\ NetTypes' /\ OtherTypes' /\ LockHolds'
    BY <1>0, <1>3, <1>4, <2>1, <2>2, <2>3, TypesKeep, LockKeeps
       DEF NetTypes, RemoteTypes, local
  <2>6. tomb[q].state \in {"pending", "blocked"}
    BY <1>6 DEF FinishGuard
  <2>7. rec.state = "detached" \/ rec.state = "absent" \/ h.verdict = "failed"
    BY <1>0, <1>2 DEF RemoteTypes, RowType, Verdicts
  <2>8. h.verdict # "ok" => rec = row[q]
    OBVIOUS
  <2> HIDE DEF rec
  <2>9. ASSUME NEW r \in Regs PROVE RegOK(r)'
    <3>1. RegOK(r)
      BY InvByReg
    <3>2. CASE r # q
      <4>1. h.job # <<r, "detach">>
        BY <3>2
      <4> QED
        BY <1>3, <1>4, <2>1, <2>4, <3>1, <3>2, <4>1, RegFrame DEF local
    <3>3. CASE r = q
      <4>1. HeldRow(r)'
        BY <1>2, <1>4, <2>4, <2>6, <2>7, <2>8, <3>1, <3>3 DEF RegOK, HeldRow, Claimed, Verdicts
      <4>2. \A g \in handler' : g.job = h.job => answer[h.job] = g.verdict
        BY <1>1, <1>2, <1>3, <2>1, <3>3 DEF RegOK, EvidenceOf
      <4>3. \A g \in handler' : g.job = h.job =>
              (g.at = "update" => t = IF g.verdict = "ok" THEN "detached" ELSE "blocked")
        BY <1>2, <4>2
      <4>4. EvidenceOf(r)'
        BY <1>2, <1>4, <2>4, <3>1, <3>3, <4>2, <4>3 DEF RegOK, EvidenceOf, local
      <4>5. job[<<r, "detach">>].state = "succeeded" => FALSE
        BY <2>6, <3>1, <3>3 DEF RegOK
      <4>6. job[<<r, "detach">>].state = "failed" => h.verdict = "failed"
        BY <1>2, <3>1, <3>3 DEF RegOK, Refused, Verdicts
      <4> QED
        BY <1>2, <1>4, <2>4, <3>3, <4>1, <4>4, <4>5, <4>6 DEF RegOK, Refused, local, Verdicts
    <3> QED
      BY <3>2, <3>3
  <2> QED
    BY <2>5, <2>9, Types, InvByReg
<1> QED
  BY <1>5, <1>6

LEMMA UpdateStep == ASSUME DetachInv, NEW h \in handler, Update(h) PROVE DetachInv'
<1>0. TypeOK /\ LockHolds /\ OtherTypes /\ RemoteTypes /\ LocalTypes /\ NetTypes
      /\ h \in HandlerType
  BY Types DEF DetachInv, NetTypes
<1>1. handler' \subseteq handler
      /\ UNCHANGED <<kind, row, tomb, local, link, down, up, publish, upload, effects, faults>>
  BY DEF Update
<1> DEFINE s == IF h.verdict = "ok" THEN "succeeded" ELSE "failed"
<1>2. job' = job \/ (job' = [job EXCEPT ![h.job] = [job[h.job] EXCEPT !.state = s]]
                     /\ job[h.job].state \in OpenJob)
  BY DEF Update
<1>3. h.job \in Jobs /\ [job[h.job] EXCEPT !.state = s] \in JobType
  BY <1>0 DEF HandlerType, RemoteTypes, JobType
<1>4. RemoteTypes' /\ LocalTypes' /\ NetTypes' /\ OtherTypes' /\ LockHolds'
  BY <1>0, <1>1, <1>2, <1>3, TypesKeep, LockKeeps DEF NetTypes, RemoteTypes, local
<1>5. ASSUME NEW r \in Regs PROVE RegOK(r)'
  <2>1. RegOK(r) /\ <<r, "detach">> \in Jobs
    BY InvByReg, JobsOf
  <2>2. CASE job'[<<r, "detach">>] = job[<<r, "detach">>]
    BY <1>1, <2>1, <2>2, RegFrame DEF local
  <2>3. CASE job'[<<r, "detach">>] # job[<<r, "detach">>]
    <3>1. h.job = <<r, "detach">> /\ job'[h.job] = [job[h.job] EXCEPT !.state = s]
      BY <1>0, <1>2, <1>3, <2>1, <2>3 DEF RemoteTypes
    <3>2. job'[h.job].state = s /\ job'[h.job].gen = job[h.job].gen
      BY <1>0, <1>3, <3>1 DEF RemoteTypes, JobType
    <3>3. tomb[r].state = IF h.verdict = "ok" THEN "detached" ELSE "blocked"
      BY <2>1, <3>1 DEF Update, RegOK, EvidenceOf
    <3>4. EvidenceOf(r)'
      BY <1>1, <2>1, <3>1, <3>2, <3>3 DEF RegOK, EvidenceOf, local
    <3>5. HeldRow(r)'
      BY <1>1, <2>1 DEF RegOK, HeldRow, Claimed
    <3> QED
      BY <1>1, <2>1, <3>1, <3>2, <3>3, <3>4, <3>5 DEF RegOK, Refused, local
  <2> QED
    BY <2>2, <2>3
<1> QED
  BY <1>4, <1>5, Types, InvByReg
-----------------------------------------------------------------------------
\* Only a detach job is looked up and finished; other results are updates.
LooksAtDetach ==
    \A h \in handler : h.at # "update" => \E r \in Regs : h.job = <<r, "detach">>

LEMMA LooksKept ==
    ASSUME DetachInv, LooksAtDetach, [Next]_vars PROVE LooksAtDetach'
<1>1. ASSUME NEW j \in Jobs, NEW v \in Verdicts, Receive(j, v) PROVE LooksAtDetach'
  <2>1. j[2] = "detach" => \E r \in Regs : j = <<r, "detach">>
    BY TaskOf
  <2> QED
    BY <1>1, <2>1 DEF Receive, LooksAtDetach
<1>2. ASSUME NEW h \in handler, Look(h) PROVE LooksAtDetach'
  <2>1. h \in HandlerType /\ \E r \in Regs : h.job = <<r, "detach">>
    BY <1>2, Types DEF DetachInv, NetTypes, Look, LooksAtDetach
  <2>2. \A a : [h EXCEPT !.at = a].job = h.job
    BY <2>1 DEF HandlerType
  <2> QED
    BY <1>2, <2>1, <2>2 DEF Look, LooksAtDetach
<1>3. ASSUME NEW h \in handler, Finish(h) PROVE LooksAtDetach'
  <2>1. h \in HandlerType
    BY Types DEF DetachInv, NetTypes
  <2>2. [h EXCEPT !.at = "update"].at = "update"
    BY <2>1 DEF HandlerType
  <2> QED
    BY <1>3, <2>2 DEF Finish, LooksAtDetach
<1>4. CASE handler' \subseteq handler
  BY <1>4 DEF LooksAtDetach
<1>5. CASE Owner \/ Device \/ Publish \/ Upload
  BY <1>4, <1>5 DEF Owner, Device, Publish, Upload, Detach, SubmitWork, Bind, PurgeRow, Take,
     Retire, RetireAnswer, Work, PublishStart, PublishRead, PublishCommit, UploadStart,
     UploadCheck, UploadCommit, net
<1>6. CASE Broker
  BY <1>1, <1>2, <1>3, <1>4, <1>6 DEF Broker, Connect, Dispatch, Update
<1>7. CASE Drop \/ Evict \/ Crash \/ GiveUpload \/ (\E r \in Regs : Reconfigure(r))
           \/ UNCHANGED vars
  BY <1>4, <1>7 DEF Drop, Evict, Crash, GiveUpload, Reconfigure, vars, net
<1> QED
  BY <1>5, <1>6, <1>7 DEF Next

\* Every step keeps the invariant.
LEMMA NextInv == ASSUME DetachInv, LooksAtDetach, [Next]_vars PROVE DetachInv'
<1>1. CASE Owner
  BY <1>1, DetachStep, RowSteps, WorkKeeps DEF Owner, WorkStep
<1>2. CASE Device
  BY <1>2, SendStep, RetireSteps, WorkKeeps DEF Device, WorkStep
<1>3. CASE Broker
  <2>1. ASSUME NEW h \in handler, Finish(h) PROVE DetachInv'
    <3>1. \E r \in Regs : h.job = <<r, "detach">>
      BY <2>1 DEF Finish, LooksAtDetach
    <3> QED
      BY <2>1, <3>1, FinishStep
  <2> QED
    BY <1>3, <2>1, SendStep, ReceiveStep, LookStep, UpdateStep DEF Broker
<1>4. CASE Publish \/ Upload
  BY <1>4, QuietStep, RowSteps DEF Publish, Upload, Quiet
<1>5. CASE Drop \/ Evict \/ Crash \/ GiveUpload \/ \E r \in Regs : Reconfigure(r)
  BY <1>5, QuietStep, FaultyStep DEF Quiet, Faulty
<1>6. CASE UNCHANGED vars
  <2>1. UNCHANGED <<remote, local, net, publish, upload, effects, faults>>
    BY <1>6 DEF vars
  <2>2. TypeOK' /\ LockHolds'
    BY <2>1, Types, TypesKeep, LockKeeps DEF DetachInv, local
  <2>3. ASSUME NEW r \in Regs PROVE RegOK(r)'
    BY <2>1, InvByReg, RegFrame DEF remote, local, net
  <2> QED
    BY <2>2, <2>3, InvByReg
<1> QED
  BY <1>1, <1>2, <1>3, <1>4, <1>5, <1>6 DEF Next

\* The invariant holds in every reachable state, for any registrations,
\* generations and faults.
THEOREM DetachInvariant == Spec => [](DetachInv /\ LooksAtDetach)
<1>1. Init => DetachInv /\ LooksAtDetach
  BY InitInv DEF Init, LooksAtDetach
<1>2. DetachInv /\ LooksAtDetach /\ [Next]_vars => (DetachInv /\ LooksAtDetach)'
  BY NextInv, LooksKept
<1> QED
  BY <1>1, <1>2, PTL DEF Spec

\* Every variable keeps its type.
THEOREM TypeCorrect == Spec => []TypeOK
<1>1. DetachInv => TypeOK
  BY DEF DetachInv
<1> QED
  BY <1>1, DetachInvariant, PTL

\* No publication, binding or purge opens a registration again that was claimed
\* (registration-management.ts, the triggers of migration 0007).
THEOREM TombstonesHold == Spec => []TombstoneHolds
<1>1. DetachInv => TombstoneHolds
  BY DEF DetachInv
<1> QED
  BY <1>1, DetachInvariant, PTL

\* The tombstones of the two sides and the job's row never contradict each
\* other, whatever is lost, replayed or restarted (finishRegistrationDetach,
\* detach_registration).
THEOREM RecordsAlwaysAgree == Spec => []RecordsAgree
<1>1. DetachInv => RecordsAgree
  BY DEF DetachInv
<1> QED
  BY <1>1, DetachInvariant, PTL
-----------------------------------------------------------------------------
(* The protocol implements Retirement. *)

Phase == [r \in Regs |-> PhaseOf[tomb[r].state]]
GivenUp == {r \in Regs : retired[r] # 0}
AbstractVars == <<Phase, GivenUp, effects>>

\* The steps of Retirement under the mapping, spelled out.
AAsk(r) == Phase[r] = "open" /\ Phase' = [Phase EXCEPT ![r] = "closing"]
           /\ UNCHANGED <<GivenUp, effects>>
AGiveUp(r) == Phase[r] # "open" /\ GivenUp' = GivenUp \cup {r} /\ UNCHANGED <<Phase, effects>>
AClose(r) == Phase[r] \in {"closing", "held"} /\ r \in GivenUp
             /\ Phase' = [Phase EXCEPT ![r] = "closed"] /\ UNCHANGED <<GivenUp, effects>>
AHold(r) == Phase[r] = "closing" /\ Phase' = [Phase EXCEPT ![r] = "held"]
            /\ UNCHANGED <<GivenUp, effects>>
AEffect(r) == r \notin GivenUp /\ effects' = [effects EXCEPT ![r] = @ + 1]
              /\ UNCHANGED <<Phase, GivenUp>>
ANext == \E r \in Regs : AAsk(r) \/ AGiveUp(r) \/ AClose(r) \/ AHold(r) \/ AEffect(r)

LEMMA MappingIs ==
    /\ Abstract!Init <=> /\ Phase = [r \in Regs |-> "open"] /\ GivenUp = {}
                         /\ effects = [r \in Regs |-> 0]
    /\ [Abstract!Next]_Abstract!vars <=> ANext \/ UNCHANGED AbstractVars
BY DEF Abstract!Init, Abstract!Next, Abstract!vars, Abstract!Ask, Abstract!GiveUp,
   Abstract!Close, Abstract!Hold, Abstract!TakeEffect, Phase, GivenUp, AbstractVars,
   ANext, AAsk, AGiveUp, AClose, AHold, AEffect

\* A step that leaves tombstones, retirements and effects alone is a stutter.
LEMMA Stutters ==
    ASSUME UNCHANGED <<tomb, retired, effects>> PROVE UNCHANGED AbstractVars
BY DEF AbstractVars, Phase, GivenUp

LEMMA PhaseSet ==
    ASSUME RemoteTypes, NEW q \in Regs, NEW rec \in TombType, tomb' = [tomb EXCEPT ![q] = rec]
    PROVE  Phase' = [Phase EXCEPT ![q] = PhaseOf[rec.state]]
BY DEF Phase, RemoteTypes

LEMMA StepImplements ==
    ASSUME DetachInv, LooksAtDetach, [Next]_vars PROVE ANext \/ UNCHANGED AbstractVars
<1>0. TypeOK /\ LockHolds /\ OtherTypes /\ RemoteTypes /\ LocalTypes /\ NetTypes
  BY Types DEF DetachInv
<1>1. ASSUME NEW q \in Regs, NEW gen \in Gens \ {0}, Detach(q, gen) PROVE ANext
  <2>1. [state |-> "pending", gen |-> gen] \in TombType
    BY DEF TombType
  <2>2. Phase' = [Phase EXCEPT ![q] = "closing"]
    BY <1>0, <1>1, <2>1, PhaseSet DEF Detach, PhaseOf
  <2>3. Phase[q] = "open" /\ UNCHANGED <<GivenUp, effects>>
    BY <1>1 DEF Detach, Phase, PhaseOf, GivenUp, local
  <2> QED
    BY <2>2, <2>3 DEF ANext, AAsk
<1>2. ASSUME NEW q \in Regs, Retire(q) PROVE ANext
  <2>1. job[busy].gen = tomb[q].gen /\ tomb[q].gen # 0 /\ RegOK(q)
    BY <1>2, InHand, InvByReg DEF Retire
  <2>2. tomb[q].state \in {"pending", "blocked", "detached"}
    BY <1>0, <2>1 DEF RegOK, EvidenceOf, RemoteTypes, TombType
  <2>3. Phase[q] # "open"
    BY <2>2 DEF Phase, PhaseOf
  <2>4. retired' = [retired EXCEPT ![q] = job[busy].gen] /\ UNCHANGED <<tomb, effects>>
    BY <1>2 DEF Retire, remote
  <2>5. GivenUp' = GivenUp \cup {q}
    BY <1>0, <2>1, <2>4 DEF GivenUp, LocalTypes
  <2> QED
    BY <2>3, <2>4, <2>5 DEF ANext, AGiveUp, Phase
<1>3. ASSUME NEW q \in Regs, Work(q) PROVE ANext \/ UNCHANGED AbstractVars
  <2>1. UNCHANGED <<tomb, retired>>
    BY <1>3 DEF Work, remote
  <2>2. CASE MayWork(q)
    <3>1. effects' = [effects EXCEPT ![q] = @ + 1] /\ q \notin GivenUp
      BY <1>3, <2>2 DEF Work, MayWork, GivenUp
    <3> QED
      BY <2>1, <3>1 DEF ANext, AEffect, Phase, GivenUp
  <2>3. CASE ~ MayWork(q)
    BY <1>3, <2>1, <2>3, Stutters DEF Work
  <2> QED
    BY <2>2, <2>3
<1>4. ASSUME UploadCommit PROVE ANext \/ UNCHANGED AbstractVars
  <2>1. UNCHANGED <<tomb, retired>>
    BY <1>4 DEF UploadCommit, remote, local
  <2>2. CASE upload.locked
    <3>1. upload.reg \in Regs /\ upload.reg \notin GivenUp
      BY <1>0, <2>2 DEF LockHolds, GivenUp
    <3>2. effects' = [effects EXCEPT ![upload.reg] = @ + 1]
      BY <1>4, <2>2 DEF UploadCommit
    <3> QED
      BY <2>1, <3>1, <3>2 DEF ANext, AEffect, Phase, GivenUp
  <2>3. CASE ~ upload.locked
    BY <1>4, <2>1, <2>3, Stutters DEF UploadCommit
  <2> QED
    BY <2>2, <2>3
<1>5. ASSUME NEW h \in handler, Finish(h) PROVE ANext \/ UNCHANGED AbstractVars
  <2>1. PICK q \in Regs : h.job = <<q, "detach">>
    BY <1>5 DEF Finish, LooksAtDetach
  <2>2. h.verdict \in Verdicts /\ RegOK(q)
        /\ (h.verdict = "ok" => retired[q] # 0) /\ (h.verdict = "failed" => retired[q] = 0)
    BY <2>1, InHandler, InvByReg
  <2>3. UNCHANGED <<retired, effects>>
    BY <1>5 DEF Finish, local
  <2>4. CASE ~ FinishGuard(q, h.verdict)
    BY <1>5, <2>1, <2>3, <2>4, Stutters DEF Finish
  <2>5. CASE FinishGuard(q, h.verdict)
    <3> DEFINE t == IF h.verdict = "ok" THEN "detached" ELSE "blocked"
    <3>1. tomb' = [tomb EXCEPT ![q] = [tomb[q] EXCEPT !.state = t]]
      BY <1>5, <2>1, <2>5 DEF Finish, Exact
    <3>2. [tomb[q] EXCEPT !.state = t] \in TombType /\ [tomb[q] EXCEPT !.state = t].state = t
      BY <1>0 DEF RemoteTypes, TombType
    <3> HIDE DEF t
    <3>3. Phase' = [Phase EXCEPT ![q] = PhaseOf[t]]
      BY <1>0, <3>1, <3>2, PhaseSet
    <3> USE DEF t
    <3>4. Phase[q] = IF tomb[q].state = "pending" THEN "closing" ELSE "held"
      BY <2>5 DEF FinishGuard, Phase, PhaseOf
    <3>5. CASE h.verdict = "ok"
      <4>1. q \in GivenUp /\ Phase' = [Phase EXCEPT ![q] = "closed"]
        BY <2>2, <3>3, <3>5 DEF GivenUp, PhaseOf
      <4> QED
        BY <2>3, <3>4, <4>1 DEF ANext, AClose, GivenUp
    <3>6. CASE h.verdict = "failed"
      <4>1. Phase' = [Phase EXCEPT ![q] = "held"]
        BY <3>3, <3>6 DEF PhaseOf
      <4>2. CASE tomb[q].state = "pending"
        BY <2>3, <3>4, <4>1, <4>2 DEF ANext, AHold, GivenUp
      <4>3. CASE tomb[q].state # "pending"
        <5>1. Phase' = Phase
          BY <3>4, <4>1, <4>3 DEF Phase
        <5> QED
          BY <2>3, <5>1 DEF AbstractVars, GivenUp
      <4> QED
        BY <4>2, <4>3
    <3> QED
      BY <2>2, <3>5, <3>6 DEF Verdicts
  <2> QED
    BY <2>4, <2>5
<1>6. CASE Owner
  <2>1. ASSUME NEW r \in Regs, SubmitWork(r) \/ Bind(r) \/ PurgeRow(r)
        PROVE  UNCHANGED AbstractVars
    BY <2>1, Stutters DEF SubmitWork, Bind, PurgeRow, local
  <2> QED
    BY <1>1, <1>6, <2>1 DEF Owner
<1>7. CASE Device
  <2>1. ASSUME NEW r \in Regs, RetireAnswer(r) PROVE UNCHANGED AbstractVars
    BY <2>1, Stutters DEF RetireAnswer, remote
  <2>2. ASSUME NEW j \in Jobs, Take(j) PROVE UNCHANGED AbstractVars
    BY <2>2, Stutters DEF Take, remote
  <2> QED
    BY <1>2, <1>3, <1>7, <2>1, <2>2 DEF Device
<1>8. CASE Broker
  <2>1. CASE Connect \/ (\E j \in Jobs : Dispatch(j) \/ \E v \in Verdicts : Receive(j, v))
    BY <2>1, Stutters DEF Connect, Dispatch, Receive, remote, local
  <2>2. ASSUME NEW h \in handler, Look(h) \/ Update(h) PROVE UNCHANGED AbstractVars
    BY <2>2, Stutters DEF Look, Update, remote, local
  <2> QED
    BY <1>5, <1>8, <2>1, <2>2 DEF Broker
<1>9. CASE Publish \/ (\E r \in Regs : UploadStart(r)) \/ UploadCheck
           \/ Drop \/ Evict \/ Crash \/ GiveUpload \/ (\E r \in Regs : Reconfigure(r))
           \/ UNCHANGED vars
  BY <1>9, Stutters DEF Publish, PublishStart, PublishRead, PublishCommit, UploadStart,
     UploadCheck, Drop, Evict, Crash, GiveUpload, Reconfigure, vars, remote, local
<1> QED
  BY <1>4, <1>6, <1>7, <1>8, <1>9 DEF Next, Upload

\* Once asked for, a registration is never open again; it is reported closed
\* only after the device has given it up; and then it has no effect any more.
THEOREM Implements == Spec => KeepsPromise
<1>1. Init => Abstract!Init
  <2> SUFFICES ASSUME Init PROVE Abstract!Init
    OBVIOUS
  <2>1. Phase = [r \in Regs |-> "open"]
    BY DEF Init, Phase, PhaseOf
  <2>2. GivenUp = {} /\ effects = [r \in Regs |-> 0]
    BY DEF Init, GivenUp
  <2> QED
    BY <2>1, <2>2, MappingIs
<1>2. DetachInv /\ LooksAtDetach /\ [Next]_vars => [Abstract!Next]_Abstract!vars
  BY StepImplements, MappingIs
<1> QED
  BY <1>1, <1>2, DetachInvariant, PTL DEF Spec, KeepsPromise, Abstract!Spec
=============================================================================
