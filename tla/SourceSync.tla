----------------------------- MODULE SourceSync -----------------------------
(***************************************************************************)
(* How the Sync app keeps the remote Corpus equal to a Source folder.      *)
(*                                                                         *)
(*   reconcile_connection  walks the folder; SyncState.observe_file and    *)
(*                         mark_missing update the documents table and     *)
(*                         merge events into change_queue                  *)
(*   SyncDaemon            one loop alternates walks and the processing of *)
(*                         due changes; a broker job may ask for a refresh *)
(*   CorpusShard           keeps the record that remote readers see        *)
(*                                                                         *)
(* A document is known by the device and inode of its file, so an inode    *)
(* stands for its document here.  Files change at any time, also during a  *)
(* walk and between the steps of an upload.  A step is one SQLite          *)
(* transaction, one look at the folder or one remote request.              *)
(***************************************************************************)
EXTENDS Naturals, FiniteSets

CONSTANTS
    Inodes,         \* files, and so documents, of one Connection
    Paths,          \* relative paths of one directory
    Bytes,          \* contents, a set of positive numbers
    Formats,        \* file name suffixes
    Format,         \* the suffix of each path
    Supported,      \* the suffixes Document Files analyses
    Unreadable,     \* contents its analyzer refuses as unsupported
    FileOps,        \* what the owner may do to files, a subset of Operations
    MayRevert,      \* may a file return to bytes it had before?
    MaxEdits,       \* bound on the changes to existing files
    MaxRefreshes,   \* bound on source.refresh jobs
    MayRetire,      \* may the Connection be detached?
    MayPurge,       \* may remote retention delete unavailable documents?
    MaxPending,     \* MAX_PENDING_CHANGES (10000)
    BatchLimit,     \* LIMIT of due_changes (20)
    FaultKinds,     \* which failures may happen, a subset of Faults
    MaxFaults       \* bound on the number of failures

Operations == {"write", "rename", "remove", "restore"}
Faults == {"request", "response", "analysis", "crash"}

ASSUME ConstantsAssumption ==
    /\ IsFiniteSet(Inodes)
    /\ Bytes \subseteq Nat \ {0}
    /\ Format \in [Paths -> Formats]
    /\ Supported \subseteq Formats
    /\ Unreadable \subseteq Bytes
    /\ FileOps \subseteq Operations
    /\ MayRevert \in BOOLEAN /\ MayRetire \in BOOLEAN /\ MayPurge \in BOOLEAN
    /\ MaxEdits \in Nat /\ MaxRefreshes \in Nat /\ MaxFaults \in Nat
    /\ MaxPending \in Nat /\ BatchLimit \in Nat \ {0}
    /\ FaultKinds \subseteq Faults

NoFile == 0
Detached == "detached"

ASSUME PathsAssumption == Detached \notin Paths /\ NoFile \notin Inodes

VARIABLES
    tree,       \* the inode at each path, or NoFile
    file,       \* bytes and stamp (times and size) of each inode
    doc,        \* the documents table
    queue,      \* change_queue
    remote,     \* the shard's record of each document
    work,       \* the change being processed, under source_change_lock
    loop,       \* where _source_loop stands
    retired,    \* is the Connection in retired_registrations?
    edits, refreshes, faults    \* counters for the bounds

vars == <<tree, file, doc, queue, remote, work, loop, retired,
          edits, refreshes, faults>>
diskVars == <<tree, file>>
tableVars == <<doc, queue>>
bounds == <<edits, refreshes, faults>>

None == 0
Events == {"created", "changed", "moved", "format_refresh", "refresh", "deleted"}
Projections == [bytes : Bytes, format : Supported]
NoProjection == [bytes |-> None]

\* What a row remembers; "forgot" is history: a version without extraction has
\* made the row forget the projection that the shard keeps.
NoDoc == [known |-> FALSE]
Docs == [known : {TRUE}, path : Paths \cup {Detached}, local : Paths,
         stamp : Nat, missing : BOOLEAN, rev : Bytes \cup {None},
         projection : Projections \cup {NoProjection}, forgot : BOOLEAN]

NoEntry == [event |-> "none"]
Entries == [event : Events, path : Paths]

NoRecord == [state |-> "absent"]
Records == [state : {"available", "changed", "unavailable"}, path : Paths,
            eligible : BOOLEAN, current : Projections \cup {NoProjection},
            shelf : SUBSET Projections]

Idle == [pc |-> "idle", by |-> "nobody", id |-> NoFile]
Requests == [pc : {"claim"}, by : {"job"}, id : Inodes]
Works == [pc : {"start", "reuse", "mark", "analyse", "unsupported", "prune", "finish"},
          by : {"loop", "job"}, id : Inodes, entry : Entries, was : Docs,
          bytes : Bytes \cup {None},
          outcome : {"open", "missing", "reused", "uploaded", "unsupported"}]

Loops == [phase : {"wait", "walk", "due", "process"}, todo : SUBSET Paths,
          seen : SUBSET Inodes, batch : SUBSET Inodes]

TypeOK ==
    /\ tree \in [Paths -> Inodes \cup {NoFile}]
    /\ file \in [Inodes -> [bytes : Bytes \cup {None}, stamp : Nat]]
    /\ doc \in [Inodes -> Docs \cup {NoDoc}]
    /\ queue \in [Inodes -> Entries \cup {NoEntry}]
    /\ remote \in [Inodes -> Records \cup {NoRecord}]
    /\ work \in {Idle} \cup Requests \cup Works
    /\ loop \in Loops
    /\ retired \in BOOLEAN
    /\ edits \in Nat /\ refreshes \in Nat /\ faults \in Nat

Waiting == [phase |-> "wait", todo |-> {}, seen |-> {}, batch |-> {}]

Init ==
    /\ tree = [p \in Paths |-> NoFile]
    /\ file = [i \in Inodes |-> [bytes |-> None, stamp |-> 0]]
    /\ doc = [i \in Inodes |-> NoDoc]
    /\ queue = [i \in Inodes |-> NoEntry]
    /\ remote = [i \in Inodes |-> NoRecord]
    /\ work = Idle
    /\ loop = Waiting
    /\ retired = FALSE
    /\ edits = 0 /\ refreshes = 0 /\ faults = 0

-----------------------------------------------------------------------------
(* The owner's files *)

Born(i) == file[i].stamp > 0
Present(i) == \E p \in Paths : tree[p] = i

FileStep == UNCHANGED <<tableVars, remote, work, loop, retired, refreshes, faults>>
Edit(op) ==
    /\ op \in FileOps
    /\ edits < MaxEdits
    /\ edits' = edits + 1
    /\ FileStep

\* A new file appears, also as an atomic save over an existing one.
CreateFile(i, p) ==
    /\ ~Born(i)
    /\ tree' = [tree EXCEPT ![p] = i]
    /\ \E b \in Bytes : file' = [file EXCEPT ![i] = [bytes |-> b, stamp |-> 1]]
    /\ FileStep /\ UNCHANGED edits

\* A file is rewritten in place; the same bytes are a touch.
WriteFile(i) ==
    /\ Edit("write")
    /\ Present(i)
    /\ \E b \in Bytes :
         /\ MayRevert \/ b >= file[i].bytes
         /\ file' = [file EXCEPT ![i] = [bytes |-> b, stamp |-> @.stamp + 1]]
    /\ UNCHANGED tree

RenameFile(p, q) ==
    /\ Edit("rename")
    /\ tree[p] # NoFile /\ p # q
    /\ tree' = [tree EXCEPT ![p] = NoFile, ![q] = tree[p]]
    /\ UNCHANGED file

RemoveFile(p) ==
    /\ Edit("remove")
    /\ tree[p] # NoFile
    /\ tree' = [tree EXCEPT ![p] = NoFile]
    /\ UNCHANGED file

\* A file that left the folder comes back.
RestoreFile(i, p) ==
    /\ Edit("restore")
    /\ Born(i) /\ ~Present(i) /\ tree[p] = NoFile
    /\ tree' = [tree EXCEPT ![p] = i]
    /\ UNCHANGED file

FileChange ==
    \/ \E i \in Inodes, p \in Paths : CreateFile(i, p) \/ RestoreFile(i, p)
    \/ \E i \in Inodes : WriteFile(i)
    \/ \E p, q \in Paths : RenameFile(p, q)
    \/ \E p \in Paths : RemoveFile(p)

-----------------------------------------------------------------------------
(* The queue *)

Queued(q) == {i \in Inodes : q[i] # NoEntry}

\* The ON CONFLICT clause of _enqueue.
Merged_FirstWins(old, event) == IF old = "none" THEN event ELSE old

Merged(old, event) ==
    CASE event = "deleted" -> "deleted"
      [] event # "deleted" /\ "format_refresh" \in {old, event} -> "format_refresh"
      [] event # "deleted" /\ "format_refresh" \notin {old, event} ->
           IF old = "refresh" THEN "refresh" ELSE event

Entry(q, i, event, p) == [event |-> Merged(q[i].event, event), path |-> p]

\* All the events of one transaction; it fails when the queue would overflow.
\* Each event is a pair of its kind and its path.
EnqueueAll(events) ==
    LET ids == DOMAIN events IN
    /\ Cardinality(Queued(queue) \cup ids) <= MaxPending
    /\ queue' = [i \in Inodes |->
                   IF i \in ids THEN Entry(queue, i, events[i].event, events[i].path)
                   ELSE queue[i]]
QueueOverflows(ids) ==
    /\ ~(ids \subseteq Queued(queue))
    /\ Cardinality(Queued(queue) \cup ids) > MaxPending

-----------------------------------------------------------------------------
(* reconcile_connection *)

\* os.walk lists the directory first and stats each name later.
WalkStart ==
    /\ loop.phase = "wait" /\ ~retired
    /\ loop' = [Waiting EXCEPT !.phase = "walk",
                               !.todo = {p \in Paths : tree[p] # NoFile}]
    /\ UNCHANGED <<diskVars, tableVars, remote, work, retired, bounds>>

\* The event of observe_file for inode i found at path p.
EventOf(i, p) ==
    IF ~doc[i].known THEN "created"
    ELSE IF doc[i].path = p THEN "changed"
    ELSE IF Format[doc[i].local] = Format[p] THEN "moved" ELSE "format_refresh"

Unchanged(i, p) ==
    /\ doc[i].known
    /\ doc[i].path = p /\ ~doc[i].missing /\ doc[i].stamp = file[i].stamp

\* A document that still owns path p is detached from it.
Rivals_LiveOnly(i, p) ==
    {j \in Inodes \ {i} : doc[j].known /\ ~doc[j].missing /\ doc[j].path = p}

Rivals(i, p) == {j \in Inodes \ {i} : doc[j].known /\ doc[j].path = p}

Observed(i, p) ==
    [known |-> TRUE, path |-> p, local |-> p, stamp |-> file[i].stamp, missing |-> FALSE,
     rev |-> IF doc[i].known THEN doc[i].rev ELSE None,
     projection |-> IF doc[i].known THEN doc[i].projection ELSE NoProjection,
     forgot |-> doc[i].known /\ doc[i].forgot]

Displaced(j) == [doc[j] EXCEPT !.path = Detached, !.missing = TRUE]

ObserveFile(i, p) ==
    LET rivals == Rivals(i, p) IN
    /\ doc' = [j \in Inodes |->
                 IF j = i THEN Observed(i, p)
                 ELSE IF j \in rivals THEN Displaced(j) ELSE doc[j]]
    /\ EnqueueAll([j \in rivals \cup {i} |->
                     [event |-> IF j = i THEN EventOf(i, p) ELSE "deleted",
                      path |-> p]])

WalkFile(p) ==
    /\ loop.phase = "walk" /\ p \in loop.todo
    /\ LET i == tree[p] IN
       \/ /\ i = NoFile
          /\ loop' = [loop EXCEPT !.todo = @ \ {p}]
          /\ UNCHANGED tableVars
       \/ /\ i # NoFile
          /\ \/ Unchanged(i, p) /\ UNCHANGED tableVars
             \/ ~Unchanged(i, p) /\ ObserveFile(i, p)
          /\ loop' = [loop EXCEPT !.todo = @ \ {p}, !.seen = @ \cup {i}]
    /\ UNCHANGED <<diskVars, remote, work, retired, bounds>>

\* mark_missing: what the walk did not meet is gone.
Unseen == {i \in Inodes \ loop.seen : doc[i].known /\ ~doc[i].missing}

WalkEnd ==
    /\ loop.phase = "walk" /\ loop.todo = {}
    /\ doc' = [i \in Inodes |->
                 IF i \in Unseen THEN [doc[i] EXCEPT !.missing = TRUE] ELSE doc[i]]
    /\ EnqueueAll([i \in Unseen |-> [event |-> "deleted", path |-> doc[i].path]])
    /\ loop' = [Waiting EXCEPT !.phase = "due"]
    /\ UNCHANGED <<diskVars, remote, work, retired, bounds>>

\* change_queue_full ends the walk and rolls its transaction back.
WalkFails ==
    /\ loop.phase = "walk"
    /\ \/ \E p \in loop.todo :
            /\ tree[p] # NoFile /\ ~Unchanged(tree[p], p)
            /\ QueueOverflows(Rivals(tree[p], p) \cup {tree[p]})
       \/ loop.todo = {} /\ QueueOverflows(Unseen)
    /\ loop' = [Waiting EXCEPT !.phase = "due"]
    /\ UNCHANGED <<diskVars, tableVars, remote, work, retired, bounds>>

-----------------------------------------------------------------------------
(* _source_loop and source.refresh: who processes which change *)

\* due_changes reads at most BatchLimit entries.
DueChanges ==
    /\ loop.phase \in {"wait", "due"}
    /\ \E batch \in SUBSET Queued(queue) :
         /\ Cardinality(batch) <= BatchLimit
         /\ batch = Queued(queue) \/ Cardinality(batch) = BatchLimit
         /\ loop' = [Waiting EXCEPT !.phase = "process", !.batch = batch]
    /\ UNCHANGED <<diskVars, tableVars, remote, work, retired, bounds>>

Claimed(i, by) ==
    [pc |-> "start", by |-> by, id |-> i, entry |-> queue[i], was |-> doc[i],
     bytes |-> None, outcome |-> "open"]

\* _process_changes reads each entry again, under the lock; one that is gone,
\* or of a retired Connection, is skipped.
ClaimChange(i) ==
    /\ loop.phase = "process" /\ i \in loop.batch
    /\ work = Idle
    /\ loop' = [loop EXCEPT !.batch = @ \ {i}]
    /\ work' = IF queue[i] = NoEntry \/ retired THEN Idle ELSE Claimed(i, "loop")
    /\ UNCHANGED <<diskVars, tableVars, remote, retired, bounds>>

ProcessEnd ==
    /\ loop.phase = "process" /\ loop.batch = {}
    /\ work.by # "loop"
    /\ loop' = Waiting
    /\ UNCHANGED <<diskVars, tableVars, remote, work, retired, bounds>>

\* request_refresh in a broker job, which then holds the lock.
RequestRefresh(i) ==
    /\ work = Idle /\ ~retired
    /\ refreshes < MaxRefreshes
    /\ doc[i].known /\ ~doc[i].missing
    /\ EnqueueAll([j \in {i} |-> [event |-> "refresh", path |-> doc[j].path]])
    /\ work' = [pc |-> "claim", by |-> "job", id |-> i]
    /\ refreshes' = refreshes + 1
    /\ UNCHANGED <<diskVars, doc, remote, loop, retired, edits, faults>>

ClaimRefresh ==
    /\ work.pc = "claim"
    /\ work' = Claimed(work.id, "job")
    /\ UNCHANGED <<diskVars, tableVars, remote, loop, retired, bounds>>

-----------------------------------------------------------------------------
(* _process_change *)

Fault(kind) ==
    /\ kind \in FaultKinds
    /\ faults < MaxFaults
    /\ faults' = faults + 1

\* fail_change: the entry stays and is tried again later.
Deferred == work' = Idle /\ UNCHANGED tableVars

\* A request to the shard that leaves it with record r for the document: the
\* request or its response may be lost.
Call(r, next) ==
    LET stored == remote' = [remote EXCEPT ![work.id] = r] IN
    /\ \/ stored /\ work' = next /\ UNCHANGED <<tableVars, faults>>
       \/ Fault("response") /\ stored /\ Deferred
       \/ Fault("request") /\ UNCHANGED remote /\ Deferred
    /\ UNCHANGED <<diskVars, loop, retired, edits, refreshes>>

Local == UNCHANGED <<diskVars, remote, loop, retired, edits, refreshes>>

Now == remote[work.id]
Stored == Now.state # "absent"
At(state, eligible) ==
    [Now EXCEPT !.state = state, !.path = work.entry.path, !.eligible = eligible]

Finish(outcome) == [work EXCEPT !.pc = "finish", !.outcome = outcome]
Goto(pc) == [work EXCEPT !.pc = pc]

\* A deletion: the record becomes unavailable; its absence is fine too.
ProcessDeleted ==
    /\ work.pc = "start" /\ work.entry.event = "deleted"
    /\ Call(IF Stored THEN [Now EXCEPT !.state = "unavailable", !.path = work.entry.path]
            ELSE Now,
            Finish("missing"))

Forced == work.by = "job" \/ work.entry.event = "refresh"
Reformatted == work.entry.event = "format_refresh"
KnownFormat == Format[work.entry.path] \in Supported

\* What _process_change does next with captured bytes b.
NextStep(b) ==
    IF /\ ~Forced /\ ~Reformatted
       /\ b = work.was.rev
       /\ KnownFormat => work.was.projection # NoProjection
    THEN IF KnownFormat THEN "reuse" ELSE "unsupported"
    ELSE IF ~KnownFormat THEN "unsupported"
    ELSE IF work.was.rev # None /\ (Reformatted \/ b # work.was.rev) THEN "mark"
    ELSE "analyse"

\* capture_snapshot: the path must still name the observed inode.
Capture ==
    /\ work.pc = "start" /\ work.entry.event # "deleted"
    /\ \/ /\ tree[work.was.local] = work.id
          /\ LET b == file[work.id].bytes IN
             work' = [work EXCEPT !.bytes = b, !.pc = NextStep(b)]
          /\ UNCHANGED tableVars
       \/ tree[work.was.local] # work.id /\ Deferred
    /\ Local /\ UNCHANGED faults

\* Unchanged bytes: the committed projection is reused, unless the remote
\* record is gone.
Reuse ==
    /\ work.pc = "reuse"
    /\ IF Stored THEN Call(At("available", TRUE), Finish("reused"))
       ELSE Call(Now, Goto("analyse"))

\* New bytes or a new format: the record is marked before the analysis.
Mark ==
    /\ work.pc = "mark"
    /\ Call(IF Stored THEN At("changed", TRUE) ELSE Now, Goto("analyse"))

Projection == [bytes |-> work.bytes, format |-> Format[work.entry.path]]

\* CorpusShard.commit of a complete upload.
Committed ==
    [state |-> "available", path |-> work.entry.path, eligible |-> TRUE,
     current |-> Projection,
     shelf |-> (IF Stored THEN Now.shelf ELSE {}) \cup {Projection}]

Superseded_Refreshed ==
    Forced /\ work.was.projection # NoProjection /\ work.was.projection # Projection

Superseded == work.was.projection # NoProjection /\ work.was.projection # Projection

Upload ==
    /\ work.pc = "analyse" /\ work.bytes \notin Unreadable
    /\ Call(Committed, IF Superseded THEN Goto("prune") ELSE Finish("uploaded"))

\* The analyzer refuses the content, or fails.
AnalysisRefused ==
    /\ work.pc = "analyse" /\ work.bytes \in Unreadable
    /\ work' = Goto("unsupported")
    /\ UNCHANGED <<tableVars, faults>> /\ Local

AnalysisFails ==
    /\ work.pc = "analyse"
    /\ Fault("analysis")
    /\ Deferred /\ Local

\* maintain_corpus removes the superseded projection, never the current one.
Prune_Blindly ==
    /\ work.pc = "prune"
    /\ Call([Now EXCEPT !.shelf = @ \ {Projection}], Finish("uploaded"))

Prune ==
    /\ work.pc = "prune"
    /\ Call(IF Now.current = work.was.projection THEN Now
            ELSE [Now EXCEPT !.shelf = @ \ {work.was.projection}],
            Finish("uploaded"))

\* _complete_unsupported_change keeps metadata only.
Unsupported ==
    /\ work.pc = "unsupported"
    /\ Call(IF Stored THEN At("available", FALSE)
            ELSE [state |-> "available", path |-> work.entry.path, eligible |-> FALSE,
                  current |-> NoProjection, shelf |-> {}],
            Finish("unsupported"))

\* _change_condition, with timestamps taken as equal.
SameChange_EventOnly ==
    queue[work.id] = work.entry

SameChange ==
    LET now == doc[work.id] IN
    /\ queue[work.id] = work.entry
    /\ now.local = work.was.local /\ now.stamp = work.was.stamp
    /\ now.missing = work.was.missing

\* What the row remembers of the shard from now on, and has forgotten.
Recalled ==
    CASE work.outcome = "reused" -> work.was.projection
      [] work.outcome = "uploaded" -> Projection
      [] work.outcome = "unsupported" -> NoProjection

Forgot ==
    \/ doc[work.id].forgot
    \/ work.outcome = "unsupported" /\ doc[work.id].projection # NoProjection

\* complete_change, complete_unsupported and complete_missing.
Complete ==
    /\ work.pc = "finish"
    /\ doc' = [doc EXCEPT ![work.id] =
                 IF work.outcome = "missing" THEN @
                 ELSE [@ EXCEPT !.rev = work.bytes, !.projection = Recalled, !.forgot = Forgot]]
    /\ queue' = IF SameChange THEN [queue EXCEPT ![work.id] = NoEntry] ELSE queue
    /\ work' = Idle
    /\ Local /\ UNCHANGED faults

ProcessStep ==
    \/ ClaimRefresh \/ ProcessDeleted \/ Capture \/ Reuse \/ Mark \/ Upload
    \/ AnalysisRefused \/ AnalysisFails \/ Prune \/ Unsupported \/ Complete

-----------------------------------------------------------------------------
(* Retirement, remote retention and crashes *)

\* detach_registration, under the lock.
Retire ==
    /\ MayRetire /\ ~retired
    /\ work = Idle
    /\ retired' = TRUE
    /\ queue' = [i \in Inodes |-> NoEntry]
    /\ UNCHANGED <<diskVars, doc, remote, work, loop, bounds>>

\* The last stage of retention for a document that stays unavailable.
RemotePurge(i) ==
    /\ MayPurge
    /\ remote[i].state = "unavailable"
    /\ remote' = [remote EXCEPT ![i] = NoRecord]
    /\ UNCHANGED <<diskVars, tableVars, work, loop, retired, bounds>>

\* The app dies and starts again; its SQLite state survives.
Crash ==
    /\ Fault("crash")
    /\ work # Idle \/ loop.phase # "wait"
    /\ work' = Idle
    /\ loop' = Waiting
    /\ UNCHANGED <<diskVars, tableVars, remote, retired, edits, refreshes>>

-----------------------------------------------------------------------------
LoopStep ==
    \/ DueChanges \/ ProcessEnd
    \/ \E i \in Inodes : ClaimChange(i)

WalkStep == WalkEnd \/ WalkFails \/ \E p \in Paths : WalkFile(p)

Next ==
    \/ FileChange
    \/ WalkStart \/ WalkStep
    \/ LoopStep
    \/ \E i \in Inodes : RequestRefresh(i) \/ RemotePurge(i)
    \/ ProcessStep
    \/ Retire
    \/ Crash

Spec == Init /\ [][Next]_vars

\* The loop runs, a started operation ends, and full_reconcile_seconds makes
\* the loop walk again and again.  fail_change puts an entry off, longer each
\* time, so the others have their turn.
Fairness ==
    /\ \A i \in Inodes : SF_vars(DueChanges /\ i \in loop'.batch)
    /\ WF_vars(ProcessStep)
    /\ WF_vars(WalkStep)
    /\ WF_vars(LoopStep)
    /\ SF_vars(WalkStart)

FairSpec == Spec /\ Fairness
-----------------------------------------------------------------------------
(* Properties *)

\* Nothing is pending for document i: no entry, and nobody works on it.
Settled(i) ==
    doc[i].known /\ queue[i] = NoEntry /\ work.id # i

\* The table agrees with the folder about document i.
SeenAsIs(i) ==
    ~doc[i].missing /\ tree[doc[i].path] = i /\ doc[i].stamp = file[i].stamp

\* Readers of record r see content b at path p, or that it cannot be shown.
Shows(r, p, b) ==
    /\ r.state = "available" /\ r.path = p
    /\ IF Format[p] \in Supported /\ b \notin Unreadable
       THEN r.eligible /\ r.current = [bytes |-> b, format |-> Format[p]]
       ELSE ~r.eligible

\* Remote readers see document i as it is in the folder.
ShownAsIs(i) == Shows(remote[i], doc[i].path, file[i].bytes)

\* A document that is settled and seen as it is, is shown as it is; one that
\* is settled and missing is not shown as available.  "Digest comparison
\* before reusing a projection" (apps/sync README) is what this rests on.
Faithful ==
    ~retired =>
      \A i \in Inodes : Settled(i) =>
        /\ SeenAsIs(i) => ShownAsIs(i)
        /\ doc[i].missing => remote[i].state \in {"absent", "unavailable"}

\* "Keeps the last good remote revision readable on failure": the projection
\* that a record shows is never removed from under it.
LastGoodReadable ==
    \A i \in Inodes :
      remote[i].state # "absent" /\ remote[i].current # NoProjection =>
        remote[i].current \in remote[i].shelf

\* "Unreferenced prior extractions do not accumulate": as long as no request
\* has been lost and nothing has crashed, a document that is settled has nothing
\* but its current projection stored.  A version that is not supported makes
\* the row forget the projection of the one before, which nothing removes then.
NothingLeftBehind ==
    faults = 0 /\ ~retired =>
      \A i \in Inodes :
        Settled(i) /\ ~doc[i].forgot /\ remote[i].state # "absent" =>
          Cardinality(remote[i].shelf) <= 1

\* UNIQUE(connection_key, relative_path_nfc) never fails: whatever is renamed,
\* swapped or replaced during a walk, no two documents, missing ones included,
\* own the same path.
OneDocumentPerPath ==
    \A i, j \in Inodes :
      /\ doc[i].known /\ doc[j].known
      /\ doc[i].path = doc[j].path /\ doc[i].path # Detached
      => i = j

\* The invariant behind the theorems: what the table, the queue and the change
\* being processed owe each other.  A live document has a path of its own; an
\* entry belongs to a known document; a change that goes to the analyzer has
\* captured bytes and a supported format; a refresh finds the entry it made.
ContentsAreCaptured ==
    /\ \A i \in Inodes : Born(i) => file[i].bytes # None
    /\ \A p \in Paths : tree[p] # NoFile => Born(tree[p])

TableIsSound ==
    /\ \A i \in Inodes : doc[i].known /\ ~doc[i].missing => doc[i].path \in Paths
    /\ \A i \in Inodes : queue[i] # NoEntry => doc[i].known

AnalysisReady == work.bytes # None /\ KnownFormat

WorkIsSound ==
    /\ work # Idle => doc[work.id].known
    /\ work.pc = "claim" => queue[work.id] # NoEntry
    /\ work.pc \in {"reuse", "mark", "analyse", "prune"} => AnalysisReady
    /\ work.pc = "finish" =>
         work.outcome # "open" /\ (work.outcome = "uploaded" => AnalysisReady)

SyncInv ==
    /\ TypeOK /\ ContentsAreCaptured /\ TableIsSound /\ WorkIsSound
    /\ OneDocumentPerPath /\ LastGoodReadable

\* What Faithful needs of the owner and of the retention: files do not return
\* to bytes they had before, one suffix is supported among the paths, and
\* retention deletes no record of a document that may lose its suffix.
Steady ==
    /\ ~MayRevert
    /\ \A p, q \in Paths : {Format[p], Format[q]} \subseteq Supported => Format[p] = Format[q]
    /\ MayPurge => \A p \in Paths : Format[p] \in Supported

\* The invariant behind Faithful.  The table never runs ahead of the folder.
TableFollows ==
    \A i \in Inodes :
      /\ ~Born(i) => file[i].bytes = None
      /\ doc[i].known =>
           /\ doc[i].stamp <= file[i].stamp /\ doc[i].rev <= file[i].bytes
           /\ doc[i].path # Detached => doc[i].path = doc[i].local

\* A pending entry says where its document was seen last, and whether it is gone.
QueueTells ==
    \A i \in Inodes : queue[i] # NoEntry =>
      /\ queue[i].path = doc[i].local
      /\ queue[i].event = "deleted" <=> doc[i].missing

\* What a record shows lies between the revision that the table remembers and
\* the file.
RecordFits(i, r) ==
    /\ r.state # "absent" /\ r.current # NoProjection =>
         /\ r.current.bytes <= file[i].bytes /\ r.current.bytes \notin Unreadable
         /\ \E p \in Paths : r.current.format = Format[p]
    /\ doc[i].known /\ doc[i].projection # NoProjection =>
         /\ doc[i].rev \notin Unreadable
         /\ ~MayPurge => r.state # "absent"
         /\ r.state # "absent" =>
              IF r.current = NoProjection THEN doc[i].rev < file[i].bytes
              ELSE doc[i].rev <= r.current.bytes

\* The change w in work knows the row it started from, and what it captured is
\* the file, unless that was written since.
Started(w) == w.pc \notin {"idle", "claim"}
Captured(w) ==
    /\ w.pc \notin {"idle", "claim", "start"}
    /\ w.pc = "finish" => w.outcome # "missing"

WorkRemembers(w) ==
    Started(w) => w.was.rev = doc[w.id].rev /\ w.was.projection = doc[w.id].projection

WorkFits(w) ==
    /\ w # Idle => queue[w.id] # NoEntry
    /\ Started(w) =>
         /\ w.was.stamp <= file[w.id].stamp
         /\ w.entry.path = w.was.local
         /\ w.entry.event = "deleted" <=> w.was.missing
    /\ Captured(w) =>
         /\ ~w.was.missing
         /\ w.was.rev <= w.bytes /\ w.bytes <= file[w.id].bytes
         /\ w.was.stamp = file[w.id].stamp => w.bytes = file[w.id].bytes

\* What the change w is about to report is what the record r shows.
OutcomeFits(w, r) ==
    /\ w.pc = "reuse" \/ (w.pc = "finish" /\ w.outcome = "reused") =>
         w.bytes = w.was.rev /\ w.was.projection # NoProjection
    /\ w.pc = "unsupported" => Format[w.entry.path] \notin Supported \/ w.bytes \in Unreadable
    /\ w.pc = "prune" \/ (w.pc = "finish" /\ w.outcome = "uploaded") =>
         /\ Format[w.entry.path] \in Supported /\ w.bytes \notin Unreadable
         /\ Shows(r, w.entry.path, w.bytes)
    /\ w.pc = "finish" /\ w.outcome = "missing" =>
         w.was.missing /\ r.state \in {"absent", "unavailable"}
    /\ w.pc = "finish" /\ w.outcome # "missing" /\ w.was.stamp = file[w.id].stamp =>
         Shows(r, w.entry.path, w.bytes)

SettledTells ==
    ~retired =>
      \A i \in Inodes : Settled(i) =>
        /\ ~doc[i].missing /\ doc[i].stamp = file[i].stamp => ShownAsIs(i)
        /\ doc[i].missing => remote[i].state \in {"absent", "unavailable"}

FaithInv ==
    /\ TableFollows /\ QueueTells /\ SettledTells
    /\ \A i \in Inodes : RecordFits(i, remote[i])
    /\ WorkRemembers(work) /\ WorkFits(work) /\ OutcomeFits(work, Now)

\* The invariant behind NothingLeftBehind: while nothing has failed, a record
\* keeps no projection but the one that the table remembers, and the one that the
\* change in work adds.
Made(w) == [bytes |-> w.bytes, format |-> Format[w.entry.path]]

Wanted(w, i) ==
    IF w.id = i /\ w.pc = "prune" THEN {w.was.projection, Made(w)}
    ELSE IF w.id = i /\ w.pc = "finish" /\ w.outcome = "uploaded" THEN {Made(w)}
    ELSE {doc[i].projection}

ShelfFits(w, i) ==
    faults = 0 /\ remote[i].state # "absent" =>
      /\ doc[i].known
      /\ ~doc[i].forgot =>
           /\ remote[i].shelf \subseteq Wanted(w, i)
           /\ w.id = i /\ w.pc = "prune" =>
                remote[i].current = Made(w) /\ w.was.projection # Made(w)

ShelfInv ==
    /\ WorkRemembers(work)
    /\ \A i \in Inodes : ShelfFits(work, i)

\* When the owner stops changing files and nothing fails any more, the remote
\* Corpus becomes and stays equal to the folder.
Mirrored ==
    \A i \in Inodes :
      /\ Present(i) => doc[i].known /\ Settled(i) /\ SeenAsIs(i) /\ ShownAsIs(i)
      /\ doc[i].known /\ ~Present(i) =>
           Settled(i) /\ remote[i].state \in {"absent", "unavailable"}
Converges == <>[](Mirrored \/ retired)
=============================================================================
