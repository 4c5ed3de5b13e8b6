-------------------------- MODULE SourceSyncProofs --------------------------
(***************************************************************************)
(* SyncInv is an invariant of SourceSync for all files, paths, contents,   *)
(* suffixes and bounds, and under every failure the model knows; FaithInv  *)
(* is one for a Steady owner, and ShelfInv where all is supported.         *)
(***************************************************************************)
EXTENDS SourceSync, FiniteSetTheorems, TLAPS

-----------------------------------------------------------------------------
(* Records of the table, the queue and the shard *)

LEMMA DocUpdates ==
    ASSUME NEW d \in Docs
    PROVE  /\ [d EXCEPT !.missing = TRUE] \in Docs
           /\ [d EXCEPT !.path = Detached, !.missing = TRUE] \in Docs
           /\ \A b \in Bytes \cup {None}, q \in Projections \cup {NoProjection}, f \in BOOLEAN :
                [d EXCEPT !.rev = b, !.projection = q, !.forgot = f] \in Docs
  BY DEF Docs

LEMMA KnownDoc ==
    ASSUME TypeOK, NEW i \in Inodes, doc[i].known
    PROVE  doc[i] \in Docs
  BY DEF TypeOK, NoDoc

LEMMA MergedType ==
    ASSUME NEW old \in Events \cup {"none"}, NEW event \in Events
    PROVE  Merged(old, event) \in Events
  <1>1. CASE event = "deleted"
    BY <1>1 DEF Merged, Events
  <1>2. CASE event # "deleted" /\ "format_refresh" \in {old, event}
    BY <1>2 DEF Merged, Events
  <1>3. CASE event # "deleted" /\ "format_refresh" \notin {old, event}
    BY <1>3 DEF Merged, Events
  <1>. QED  BY <1>1, <1>2, <1>3

\* An enqueueing transaction leaves entries at the old places and the new ones.
LEMMA EnqueueAllType ==
    ASSUME TypeOK, NEW events, DOMAIN events \subseteq Inodes,
           \A j \in DOMAIN events :
             events[j].event \in Events /\ events[j].path \in Paths,
           EnqueueAll(events)
    PROVE  /\ queue' \in [Inodes -> Entries \cup {NoEntry}]
           /\ \A j \in Inodes :
                queue'[j] # NoEntry <=> (queue[j] # NoEntry \/ j \in DOMAIN events)
  <1>1. ASSUME NEW j \in DOMAIN events
        PROVE  Entry(queue, j, events[j].event, events[j].path) \in Entries
    <2>1. queue[j].event \in Events \cup {"none"}
      BY <1>1 DEF TypeOK, Entries, NoEntry
    <2>2. Merged(queue[j].event, events[j].event) \in Events
      BY <2>1, <1>1, MergedType
    <2>. QED  BY <1>1, <2>2 DEF Entry, Entries
  <1>2. NoEntry \notin Entries
    BY DEF NoEntry, Entries
  <1>3. queue' = [j \in Inodes |->
                    IF j \in DOMAIN events
                    THEN Entry(queue, j, events[j].event, events[j].path)
                    ELSE queue[j]]
    BY DEF EnqueueAll
  <1>. QED  BY <1>1, <1>2, <1>3 DEF TypeOK

LEMMA RecordUpdates ==
    ASSUME NEW r \in Records
    PROVE  /\ \A s \in {"available", "changed", "unavailable"}, p \in Paths,
                 e \in BOOLEAN :
                [r EXCEPT !.state = s, !.path = p, !.eligible = e] \in Records
           /\ \A s \in {"available", "changed", "unavailable"}, p \in Paths :
                [r EXCEPT !.state = s, !.path = p] \in Records
           /\ \A q : [r EXCEPT !.shelf = @ \ {q}] \in Records
  BY DEF Records

\* The steps of a change keep it a change.
LEMMA WorkMoves ==
    ASSUME work \in Works
    PROVE  /\ \A pc \in {"start", "reuse", "mark", "analyse", "unsupported",
                         "prune", "finish"} : Goto(pc) \in Works
           /\ \A o \in {"missing", "reused", "uploaded", "unsupported"} :
                Finish(o) \in Works
  BY DEF Works, Goto, Finish

LEMMA WorkKinds ==
    ASSUME TypeOK
    PROVE  /\ work # Idle <=> work.pc # "idle"
           /\ work.pc \notin {"idle", "claim"} => work \in Works
           /\ work.pc = "claim" => work \in Requests
           /\ work.id \in Inodes \cup {NoFile}
           /\ work # Idle => work.id \in Inodes
  BY DEF TypeOK, Idle, Requests, Works

-----------------------------------------------------------------------------
(* What a step does not touch stays as it was *)

LEMMA ContentsFrame ==
    ContentsAreCaptured /\ UNCHANGED diskVars => ContentsAreCaptured'
  BY DEF ContentsAreCaptured, Born, diskVars

LEMMA TableFrame ==
    TableIsSound /\ UNCHANGED tableVars => TableIsSound'
  BY DEF TableIsSound, tableVars

LEMMA WorkFrame ==
    WorkIsSound /\ UNCHANGED <<tableVars, work>> => WorkIsSound'
  BY DEF WorkIsSound, AnalysisReady, KnownFormat, tableVars

LEMMA PathsFrame ==
    OneDocumentPerPath /\ UNCHANGED doc => OneDocumentPerPath'
  BY DEF OneDocumentPerPath

LEMMA RemoteFrame ==
    LastGoodReadable /\ UNCHANGED remote => LastGoodReadable'
  BY DEF LastGoodReadable

-----------------------------------------------------------------------------
(* The folder and the walk *)

LEMMA FileChangeStep ==
    ASSUME SyncInv, FileChange
    PROVE  SyncInv'
  <1>1. FileStep
    BY DEF FileChange, CreateFile, WriteFile, RenameFile, RemoveFile, RestoreFile,
           Edit
  <1>2. ASSUME NEW i \in Inodes, NEW p \in Paths, CreateFile(i, p)
        PROVE  TypeOK' /\ ContentsAreCaptured'
    BY <1>2, ConstantsAssumption, PathsAssumption
    DEF SyncInv, CreateFile, TypeOK, FileStep, ContentsAreCaptured, Born, tableVars,
        None, NoFile
  <1>3. ASSUME NEW i \in Inodes, NEW p \in Paths, RestoreFile(i, p)
        PROVE  TypeOK' /\ ContentsAreCaptured'
    BY <1>3 DEF SyncInv, RestoreFile, Edit, TypeOK, FileStep, ContentsAreCaptured, Born,
                tableVars, NoFile
  <1>4. ASSUME NEW i \in Inodes, WriteFile(i)
        PROVE  TypeOK' /\ ContentsAreCaptured'
    BY <1>4, ConstantsAssumption
    DEF SyncInv, WriteFile, Edit, TypeOK, FileStep, ContentsAreCaptured, Born, tableVars,
        None
  <1>5. ASSUME NEW p \in Paths, NEW q \in Paths, RenameFile(p, q)
        PROVE  TypeOK' /\ ContentsAreCaptured'
    <2>1. tree' = [tree EXCEPT ![p] = NoFile, ![q] = tree[p]] /\ tree[p] # NoFile
      BY <1>5 DEF RenameFile
    <2>2. /\ tree' \in [Paths -> Inodes \cup {NoFile}]
          /\ \A r \in Paths : tree'[r] # NoFile => \E t \in Paths : tree'[r] = tree[t]
      BY <2>1 DEF SyncInv, TypeOK
    <2>3. TypeOK'
      BY <1>5, <2>2 DEF SyncInv, RenameFile, Edit, TypeOK, FileStep, tableVars
    <2>4. ContentsAreCaptured'
      BY <1>5, <2>2 DEF SyncInv, RenameFile, ContentsAreCaptured, Born
    <2>. QED  BY <2>3, <2>4
  <1>6. ASSUME NEW p \in Paths, RemoveFile(p)
        PROVE  TypeOK' /\ ContentsAreCaptured'
    BY <1>6 DEF SyncInv, RemoveFile, Edit, TypeOK, FileStep, ContentsAreCaptured, Born,
                tableVars, NoFile
  <1>7. TypeOK' /\ ContentsAreCaptured'
    BY <1>2, <1>3, <1>4, <1>5, <1>6 DEF FileChange
  <1>. QED
    BY <1>1, <1>7, TableFrame, WorkFrame, PathsFrame, RemoteFrame
    DEF SyncInv, FileStep, tableVars

\* Steps of the loop that only move the loop.
LEMMA LoopOnly ==
    ASSUME SyncInv, loop' \in Loops,
           UNCHANGED <<diskVars, tableVars, remote, work, retired, bounds>>
    PROVE  SyncInv'
  <1>1. TypeOK'
    BY DEF SyncInv, TypeOK, diskVars, tableVars, bounds
  <1>. QED
    BY <1>1, ContentsFrame, TableFrame, WorkFrame, PathsFrame, RemoteFrame
    DEF SyncInv, tableVars

LEMMA LoopTypes ==
    ASSUME TypeOK
    PROVE  /\ loop \in Loops /\ Waiting \in Loops
           /\ \A p \in Paths : [loop EXCEPT !.todo = @ \ {p}] \in Loops
           /\ \A p \in Paths, i \in Inodes :
                [loop EXCEPT !.todo = @ \ {p}, !.seen = @ \cup {i}] \in Loops
           /\ \A i \in Inodes : [loop EXCEPT !.batch = @ \ {i}] \in Loops
           /\ [Waiting EXCEPT !.phase = "due"] \in Loops
           /\ \A t \in SUBSET Paths :
                [Waiting EXCEPT !.phase = "walk", !.todo = t] \in Loops
           /\ \A b \in SUBSET Inodes :
                [Waiting EXCEPT !.phase = "process", !.batch = b] \in Loops
  BY DEF TypeOK, Loops, Waiting

LEMMA LoopMovesStep ==
    ASSUME SyncInv, WalkStart \/ WalkFails \/ DueChanges \/ ProcessEnd
    PROVE  SyncInv'
  <1>1. loop' \in Loops
    <2>1. CASE WalkStart
      BY <2>1, LoopTypes DEF WalkStart, SyncInv
    <2>2. CASE WalkFails
      BY <2>2, LoopTypes DEF WalkFails, SyncInv
    <2>3. CASE DueChanges
      BY <2>3, LoopTypes DEF DueChanges, Queued, SyncInv
    <2>4. CASE ProcessEnd
      BY <2>4, LoopTypes DEF ProcessEnd, SyncInv
    <2>. QED  BY <2>1, <2>2, <2>3, <2>4
  <1>. QED
    BY <1>1, LoopOnly DEF WalkStart, WalkFails, DueChanges, ProcessEnd

\* observe_file: the document moves to the path, its rivals leave it.
LEMMA ObserveStep ==
    ASSUME SyncInv, NEW i \in Inodes, NEW p \in Paths, ObserveFile(i, p),
           file[i].bytes # None
    PROVE  /\ doc' \in [Inodes -> Docs \cup {NoDoc}]
           /\ queue' \in [Inodes -> Entries \cup {NoEntry}]
           /\ TableIsSound' /\ OneDocumentPerPath'
           /\ \A j \in Inodes : doc[j].known => doc'[j].known
           /\ \A j \in Inodes : queue[j] # NoEntry => queue'[j] # NoEntry
  <1> DEFINE events == [j \in Rivals(i, p) \cup {i} |->
                          [event |-> IF j = i THEN EventOf(i, p) ELSE "deleted",
                           path |-> p]]
  <1>1. Rivals(i, p) \subseteq Inodes \ {i}
    BY DEF Rivals
  <1>2. /\ DOMAIN events = Rivals(i, p) \cup {i}
        /\ DOMAIN events \subseteq Inodes
        /\ \A j \in DOMAIN events :
             events[j].event \in Events /\ events[j].path \in Paths
    BY <1>1 DEF EventOf, Events
  <1>3. EnqueueAll(events)
    BY DEF ObserveFile
  <1>. HIDE DEF events
  <1>4. /\ queue' \in [Inodes -> Entries \cup {NoEntry}]
        /\ \A j \in Inodes :
             queue'[j] # NoEntry <=> (queue[j] # NoEntry \/ j \in DOMAIN events)
    BY <1>2, <1>3, EnqueueAllType DEF SyncInv
  <1>5. Observed(i, p) \in Docs /\ Observed(i, p).path = p /\ Observed(i, p).known
    <2>1. CASE doc[i].known
      <3>1. doc[i] \in Docs
        BY <2>1, KnownDoc DEF SyncInv
      <3>. QED  BY <2>1, <3>1 DEF SyncInv, TypeOK, Observed, Docs
    <2>2. CASE ~doc[i].known
      BY <2>2 DEF SyncInv, TypeOK, Observed, Docs
    <2>. QED  BY <2>1, <2>2
  <1>6. ASSUME NEW j \in Rivals(i, p)
        PROVE  /\ doc[j].known
               /\ Displaced(j) \in Docs
               /\ Displaced(j).known /\ Displaced(j).missing
               /\ Displaced(j).path = Detached
    <2>1. doc[j] \in Docs
      BY <1>1, KnownDoc DEF Rivals, SyncInv
    <2>. QED  BY <2>1, <1>1, DocUpdates DEF Rivals, Displaced, Docs
  <1>7. \A j \in Inodes :
           doc'[j] = IF j = i THEN Observed(i, p)
                     ELSE IF j \in Rivals(i, p) THEN Displaced(j) ELSE doc[j]
    BY DEF ObserveFile
  <1>8. doc' \in [Inodes -> Docs \cup {NoDoc}]
    <2>1. \A j \in Inodes : doc'[j] \in Docs \cup {NoDoc}
      BY <1>5, <1>6, <1>7 DEF SyncInv, TypeOK
    <2>2. doc' = [j \in Inodes |-> doc'[j]]
      BY DEF ObserveFile
    <2>. QED  BY <2>1, <2>2
  <1>9. \A j \in Inodes : doc[j].known => doc'[j].known
    BY <1>5, <1>6, <1>7
  <1>10. TableIsSound'
    <2>1. \A j \in Inodes : doc'[j].known /\ ~doc'[j].missing => doc'[j].path \in Paths
      BY <1>5, <1>6, <1>7 DEF SyncInv, TableIsSound
    <2>2. \A j \in Inodes : queue'[j] # NoEntry => doc'[j].known
      BY <1>2, <1>4, <1>5, <1>6, <1>7, <1>9 DEF SyncInv, TableIsSound
    <2>. QED  BY <2>1, <2>2 DEF TableIsSound
  <1>11. OneDocumentPerPath'
    <2>. SUFFICES ASSUME NEW j \in Inodes, NEW k \in Inodes, j # k,
                         doc'[j].known, doc'[k].known,
                         doc'[j].path = doc'[k].path, doc'[j].path # Detached
                  PROVE  FALSE
      BY DEF OneDocumentPerPath
    <2>1. j \notin Rivals(i, p) /\ k \notin Rivals(i, p)
      BY <1>1, <1>6, <1>7
    <2>2. ASSUME NEW l \in Inodes \ {i}, l \notin Rivals(i, p), doc'[l].known
          PROVE  doc'[l].path # p
      BY <2>2, <1>7 DEF Rivals
    <2>3. j # i /\ k # i
      BY <2>1, <2>2, <1>5, <1>7
    <2>4. doc'[j] = doc[j] /\ doc'[k] = doc[k]
      BY <2>1, <2>3, <1>7
    <2>. QED  BY <2>4 DEF SyncInv, OneDocumentPerPath
  <1>. QED  BY <1>4, <1>8, <1>9, <1>10, <1>11

LEMMA WalkFileStep ==
    ASSUME SyncInv, NEW p \in Paths, WalkFile(p)
    PROVE  SyncInv'
  <1>1. UNCHANGED <<diskVars, remote, work, retired, bounds>>
    BY DEF WalkFile
  <1>2. tree[p] \in Inodes \cup {NoFile}
    BY DEF SyncInv, TypeOK
  <1>3. loop' \in Loops
    BY <1>2, LoopTypes DEF SyncInv, WalkFile
  <1>4. CASE UNCHANGED tableVars
    BY <1>1, <1>3, <1>4, LoopOnly
  <1>5. CASE tree[p] # NoFile /\ ObserveFile(tree[p], p)
    <2>1. tree[p] \in Inodes /\ file[tree[p]].bytes # None
      BY <1>2, <1>5 DEF SyncInv, ContentsAreCaptured
    <2>2. /\ doc' \in [Inodes -> Docs \cup {NoDoc}]
          /\ queue' \in [Inodes -> Entries \cup {NoEntry}]
          /\ TableIsSound' /\ OneDocumentPerPath'
          /\ \A j \in Inodes : doc[j].known => doc'[j].known
          /\ \A j \in Inodes : queue[j] # NoEntry => queue'[j] # NoEntry
      BY <1>5, <2>1, ObserveStep
    <2>3. TypeOK'
      BY <1>1, <1>3, <2>2 DEF SyncInv, TypeOK, diskVars, bounds
    <2>4. WorkIsSound'
      BY <1>1, <2>2, WorkKinds DEF SyncInv, WorkIsSound, AnalysisReady, KnownFormat
    <2>. QED
      BY <1>1, <2>2, <2>3, <2>4, ContentsFrame, RemoteFrame DEF SyncInv
  <1>. QED  BY <1>4, <1>5 DEF WalkFile

LEMMA WalkEndStep ==
    ASSUME SyncInv, WalkEnd
    PROVE  SyncInv'
  <1> DEFINE events == [i \in Unseen |-> [event |-> "deleted", path |-> doc[i].path]]
  <1>1. /\ DOMAIN events \subseteq Inodes
        /\ \A i \in DOMAIN events :
             events[i].event \in Events /\ events[i].path \in Paths
    BY DEF Unseen, Events, SyncInv, TableIsSound
  <1>2. DOMAIN events = Unseen /\ EnqueueAll(events)
    BY DEF WalkEnd
  <1>. HIDE DEF events
  <1>3. /\ queue' \in [Inodes -> Entries \cup {NoEntry}]
        /\ \A j \in Inodes :
             queue'[j] # NoEntry <=> (queue[j] # NoEntry \/ j \in Unseen)
    BY <1>1, <1>2, EnqueueAllType DEF SyncInv
  <1>4. \A i \in Inodes :
          doc'[i] = IF i \in Unseen THEN [doc[i] EXCEPT !.missing = TRUE] ELSE doc[i]
    BY DEF WalkEnd
  <1>5. ASSUME NEW i \in Unseen
        PROVE  /\ i \in Inodes /\ doc[i].known
               /\ [doc[i] EXCEPT !.missing = TRUE] \in Docs
               /\ [doc[i] EXCEPT !.missing = TRUE].known
               /\ [doc[i] EXCEPT !.missing = TRUE].missing
               /\ [doc[i] EXCEPT !.missing = TRUE].path = doc[i].path
    <2>1. i \in Inodes /\ doc[i].known
      BY DEF Unseen
    <2>2. doc[i] \in Docs
      BY <2>1, KnownDoc DEF SyncInv
    <2>. QED  BY <2>1, <2>2, DocUpdates DEF Docs
  <1>6. doc' \in [Inodes -> Docs \cup {NoDoc}]
    <2>1. \A i \in Inodes : doc'[i] \in Docs \cup {NoDoc}
      BY <1>4, <1>5 DEF SyncInv, TypeOK
    <2>2. doc' = [i \in Inodes |-> doc'[i]]
      BY DEF WalkEnd
    <2>. QED  BY <2>1, <2>2
  <1>7. \A i \in Inodes : /\ doc'[i].known = doc[i].known
                          /\ doc[i].known => doc'[i].path = doc[i].path
                          /\ doc[i].known /\ ~doc'[i].missing => ~doc[i].missing
    BY <1>4, <1>5 DEF SyncInv, TypeOK, NoDoc, Docs
  <1>8. loop' \in Loops /\ UNCHANGED <<diskVars, remote, work, retired, bounds>>
    BY LoopTypes DEF WalkEnd, SyncInv
  <1>9. TypeOK'
    BY <1>3, <1>6, <1>8 DEF SyncInv, TypeOK, diskVars, bounds
  <1>10. TableIsSound'
    <2>1. \A i \in Inodes : doc'[i].known /\ ~doc'[i].missing => doc'[i].path \in Paths
      BY <1>7 DEF SyncInv, TableIsSound
    <2>2. \A i \in Inodes : queue'[i] # NoEntry => doc'[i].known
      BY <1>3, <1>5, <1>7 DEF SyncInv, TableIsSound
    <2>. QED  BY <2>1, <2>2 DEF TableIsSound
  <1>11. WorkIsSound'
    BY <1>3, <1>7, <1>8, WorkKinds DEF SyncInv, WorkIsSound, AnalysisReady, KnownFormat
  <1>12. OneDocumentPerPath'
    BY <1>7 DEF SyncInv, OneDocumentPerPath
  <1>. QED
    BY <1>8, <1>9, <1>10, <1>11, <1>12, ContentsFrame, RemoteFrame DEF SyncInv

-----------------------------------------------------------------------------
(* Claiming a change *)

LEMMA ClaimedType ==
    ASSUME SyncInv, NEW i \in Inodes, queue[i] # NoEntry, NEW by \in {"loop", "job"}
    PROVE  /\ Claimed(i, by) \in Works
           /\ Claimed(i, by).pc = "start" /\ Claimed(i, by).id = i
           /\ doc[i].known
  <1>1. doc[i].known
    BY DEF SyncInv, TableIsSound
  <1>2. doc[i] \in Docs /\ queue[i] \in Entries
    BY <1>1, KnownDoc DEF SyncInv, TypeOK
  <1>. QED  BY <1>1, <1>2 DEF Claimed, Works

\* A step that gives work a sound value and touches neither tables nor shard.
LEMMA WorkOnly ==
    ASSUME SyncInv, work' \in {Idle} \cup Requests \cup Works, WorkIsSound',
           loop' \in Loops, faults' \in Nat,
           UNCHANGED <<diskVars, tableVars, remote, retired, edits, refreshes>>
    PROVE  SyncInv'
  <1>1. TypeOK'
    BY DEF SyncInv, TypeOK, diskVars, tableVars
  <1>. QED
    BY <1>1, ContentsFrame, TableFrame, PathsFrame, RemoteFrame
    DEF SyncInv, tableVars

LEMMA ClaimChangeStep ==
    ASSUME SyncInv, NEW i \in Inodes, ClaimChange(i)
    PROVE  SyncInv'
  <1>1. loop' \in Loops /\ UNCHANGED <<diskVars, tableVars, remote, retired, bounds>>
    BY LoopTypes DEF ClaimChange, SyncInv
  <1>2. CASE work' = Idle
    <2>1. WorkIsSound'
      BY <1>2 DEF WorkIsSound, Idle
    <2>. QED  BY <1>1, <1>2, <2>1, WorkOnly DEF SyncInv, TypeOK, bounds
  <1>3. CASE queue[i] # NoEntry /\ work' = Claimed(i, "loop")
    <2>1. work' \in Works /\ work'.pc = "start" /\ work'.id = i /\ doc[i].known
      BY <1>3, ClaimedType
    <2>2. WorkIsSound'
      BY <1>1, <2>1 DEF WorkIsSound, tableVars
    <2>. QED  BY <1>1, <2>1, <2>2, WorkOnly DEF SyncInv, TypeOK, bounds
  <1>. QED  BY <1>2, <1>3 DEF ClaimChange

LEMMA ClaimRefreshStep ==
    ASSUME SyncInv, ClaimRefresh
    PROVE  SyncInv'
  <1>1. work.id \in Inodes /\ queue[work.id] # NoEntry
    BY WorkKinds DEF ClaimRefresh, SyncInv, WorkIsSound, Idle
  <1>2. /\ work' \in Works /\ work'.pc = "start" /\ work'.id = work.id
        /\ doc[work.id].known
    BY <1>1, ClaimedType DEF ClaimRefresh
  <1>3. UNCHANGED <<diskVars, tableVars, remote, loop, retired, bounds>>
    BY DEF ClaimRefresh
  <1>4. WorkIsSound'
    BY <1>2, <1>3 DEF WorkIsSound, tableVars
  <1>. QED  BY <1>2, <1>3, <1>4, WorkOnly DEF SyncInv, TypeOK, bounds

LEMMA RequestRefreshStep ==
    ASSUME SyncInv, NEW i \in Inodes, RequestRefresh(i)
    PROVE  SyncInv'
  <1> DEFINE events == [j \in {i} |-> [event |-> "refresh", path |-> doc[j].path]]
  <1>1. /\ DOMAIN events = {i} /\ doc[i].known
        /\ \A j \in DOMAIN events :
             events[j].event \in Events /\ events[j].path \in Paths
    BY DEF RequestRefresh, Events, SyncInv, TableIsSound
  <1>2. EnqueueAll(events)
    BY DEF RequestRefresh
  <1>. HIDE DEF events
  <1>3. /\ queue' \in [Inodes -> Entries \cup {NoEntry}]
        /\ \A j \in Inodes :
             queue'[j] # NoEntry <=> (queue[j] # NoEntry \/ j = i)
    BY <1>1, <1>2, EnqueueAllType DEF SyncInv
  <1>4. /\ work' = [pc |-> "claim", by |-> "job", id |-> i]
        /\ work' \in Requests
        /\ refreshes' \in Nat
        /\ UNCHANGED <<diskVars, doc, remote, loop, retired, edits, faults>>
    BY DEF RequestRefresh, Requests, SyncInv, TypeOK
  <1>5. TypeOK'
    BY <1>3, <1>4 DEF SyncInv, TypeOK, diskVars
  <1>6. TableIsSound'
    BY <1>1, <1>3, <1>4 DEF SyncInv, TableIsSound
  <1>7. WorkIsSound'
    BY <1>1, <1>3, <1>4 DEF WorkIsSound
  <1>. QED
    BY <1>4, <1>5, <1>6, <1>7, ContentsFrame, PathsFrame, RemoteFrame DEF SyncInv

-----------------------------------------------------------------------------
(* Processing a change *)

\* Goto and Finish change nothing but the place of the change.
Follows(next) ==
    /\ next \in Works
    /\ next.id = work.id /\ next.bytes = work.bytes /\ next.entry = work.entry
    /\ next.pc \in {"reuse", "mark", "analyse", "prune"} => AnalysisReady
    /\ next.pc = "finish" =>
         next.outcome # "open" /\ (next.outcome = "uploaded" => AnalysisReady)

LEMMA GotoFollows ==
    ASSUME SyncInv, work \in Works,
           NEW pc \in {"reuse", "mark", "analyse", "unsupported", "prune"},
           pc # "unsupported" => AnalysisReady
    PROVE  Follows(Goto(pc))
  <1>1. Goto(pc) \in Works
    BY WorkMoves
  <1>2. /\ Goto(pc).pc = pc /\ Goto(pc).id = work.id
        /\ Goto(pc).bytes = work.bytes /\ Goto(pc).entry = work.entry
    BY DEF Goto, Works
  <1>. QED  BY <1>1, <1>2 DEF Follows

LEMMA FinishFollows ==
    ASSUME SyncInv, work \in Works,
           NEW o \in {"missing", "reused", "uploaded", "unsupported"},
           o = "uploaded" => AnalysisReady
    PROVE  Follows(Finish(o))
  <1>1. Finish(o) \in Works
    BY WorkMoves
  <1>2. /\ Finish(o).pc = "finish" /\ Finish(o).outcome = o /\ Finish(o).id = work.id
        /\ Finish(o).bytes = work.bytes /\ Finish(o).entry = work.entry
    BY DEF Finish, Works
  <1>. QED  BY <1>1, <1>2 DEF Follows

LEMMA FollowsSound ==
    ASSUME SyncInv, work \in Works, Follows(work'), UNCHANGED tableVars
    PROVE  WorkIsSound'
  <1>1. doc[work.id].known
    BY DEF SyncInv, WorkIsSound, Idle, Works
  <1>2. work'.pc \notin {"idle", "claim"}
    BY DEF Follows, Works
  <1>. QED
    BY <1>1, <1>2 DEF Follows, WorkIsSound, AnalysisReady, KnownFormat, tableVars

LEMMA IdleSound == work' = Idle => WorkIsSound'
  BY DEF WorkIsSound, Idle

LEMMA StoredType ==
    ASSUME SyncInv, work \in Works
    PROVE  /\ work.id \in Inodes /\ Now \in Records \cup {NoRecord}
           /\ Stored => Now \in Records
           /\ Stored /\ Now.current # NoProjection => Now.current \in Now.shelf
           /\ work.entry.path \in Paths
  BY DEF SyncInv, TypeOK, LastGoodReadable, Now, Stored, NoRecord, Works, Entries

\* A request keeps the invariant when the record it stores is readable.
LEMMA CallStep ==
    ASSUME SyncInv, work \in Works, NEW r \in Records \cup {NoRecord},
           r.state # "absent" /\ r.current # NoProjection => r.current \in r.shelf,
           NEW next, Follows(next), Call(r, next)
    PROVE  SyncInv'
  <1>1. UNCHANGED <<diskVars, tableVars, loop, retired, edits, refreshes>>
    BY DEF Call, Deferred
  <1>2. work' = next \/ work' = Idle
    BY DEF Call, Deferred
  <1>3. WorkIsSound' /\ work' \in {Idle} \cup Requests \cup Works
    <2>1. CASE work' = next
      BY <1>1, <2>1, FollowsSound DEF Follows
    <2>2. CASE work' = Idle
      BY <2>2, IdleSound
    <2>. QED  BY <1>2, <2>1, <2>2
  <1>4. faults' \in Nat
    BY DEF Call, Fault, SyncInv, TypeOK
  <1>5. remote' = [remote EXCEPT ![work.id] = r] \/ UNCHANGED remote
    BY DEF Call
  <1>6. remote' \in [Inodes -> Records \cup {NoRecord}] /\ LastGoodReadable'
    <2>1. CASE remote' = [remote EXCEPT ![work.id] = r]
      BY <2>1 DEF SyncInv, TypeOK, LastGoodReadable
    <2>2. CASE UNCHANGED remote
      BY <2>2 DEF SyncInv, TypeOK, LastGoodReadable
    <2>. QED  BY <1>5, <2>1, <2>2
  <1>7. TypeOK'
    BY <1>1, <1>3, <1>4, <1>6 DEF SyncInv, TypeOK, diskVars, tableVars
  <1>. QED
    BY <1>1, <1>3, <1>6, <1>7, ContentsFrame, TableFrame, PathsFrame
    DEF SyncInv, tableVars

\* At and a bare change of state keep what the record stores.
LEMMA MarkedRecords ==
    ASSUME SyncInv, work \in Works, Stored
    PROVE  /\ \A s \in {"available", "changed", "unavailable"}, e \in BOOLEAN :
                /\ At(s, e) \in Records
                /\ At(s, e).current = Now.current /\ At(s, e).shelf = Now.shelf
           /\ \A s \in {"available", "changed", "unavailable"} :
                LET r == [Now EXCEPT !.state = s, !.path = work.entry.path]
                IN  r \in Records /\ r.current = Now.current /\ r.shelf = Now.shelf
  <1>1. Now \in Records /\ work.entry.path \in Paths
    BY StoredType
  <1>2. ASSUME NEW s \in {"available", "changed", "unavailable"}, NEW e \in BOOLEAN
        PROVE  /\ At(s, e) \in Records
               /\ At(s, e).current = Now.current /\ At(s, e).shelf = Now.shelf
    BY <1>1 DEF At, Records
  <1>3. ASSUME NEW s \in {"available", "changed", "unavailable"}
        PROVE  LET r == [Now EXCEPT !.state = s, !.path = work.entry.path]
               IN  r \in Records /\ r.current = Now.current /\ r.shelf = Now.shelf
    BY <1>1 DEF Records
  <1>. QED  BY <1>2, <1>3

LEMMA ProcessDeletedStep ==
    ASSUME SyncInv, work \in Works, ProcessDeleted
    PROVE  SyncInv'
  <1>1. Follows(Finish("missing"))
    BY FinishFollows
  <1>2. CASE Stored
    BY <1>1, <1>2, MarkedRecords, StoredType, CallStep DEF ProcessDeleted
  <1>3. CASE ~Stored
    BY <1>1, <1>3, StoredType, CallStep DEF ProcessDeleted, Stored
  <1>. QED  BY <1>2, <1>3

LEMMA CaptureStep ==
    ASSUME SyncInv, work \in Works, Capture
    PROVE  SyncInv'
  <1> DEFINE b == file[work.id].bytes
  <1>1. UNCHANGED <<diskVars, tableVars, remote, loop, retired, edits, refreshes, faults>>
    BY DEF Capture, Local, Deferred
  <1>2. CASE work' = Idle
    BY <1>1, <1>2, IdleSound, WorkOnly DEF SyncInv, TypeOK
  <1>3. CASE /\ tree[work.was.local] = work.id
             /\ work' = [work EXCEPT !.bytes = b, !.pc = NextStep(b)]
    <2>1. work.id \in Inodes /\ work.was.local \in Paths /\ work.id # NoFile
      BY PathsAssumption DEF Works, Docs
    <2>2. b \in Bytes
      BY <1>3, <2>1 DEF SyncInv, TypeOK, ContentsAreCaptured
    <2>3. /\ NextStep(b) \in {"reuse", "unsupported", "mark", "analyse"}
          /\ NextStep(b) # "unsupported" => KnownFormat
      BY DEF NextStep
    <2>. HIDE DEF b
    <2>4. /\ work' \in Works /\ work'.pc = NextStep(b) /\ work'.bytes = b
          /\ work'.id = work.id /\ work'.entry = work.entry
      <3>1. work' = [work EXCEPT !.bytes = b, !.pc = NextStep(b)]
        BY <1>3
      <3>. QED  BY <2>2, <2>3, <3>1 DEF Works
    <2>5. b # None
      BY <2>2, ConstantsAssumption DEF None
    <2>6. doc[work.id].known
      BY DEF SyncInv, WorkIsSound, Works, Idle
    <2>7. WorkIsSound'
      BY <1>1, <2>3, <2>4, <2>5, <2>6
      DEF WorkIsSound, AnalysisReady, KnownFormat, tableVars
    <2>. QED  BY <1>1, <2>4, <2>7, WorkOnly DEF SyncInv, TypeOK
  <1>. QED  BY <1>2, <1>3 DEF Capture, Deferred

LEMMA ReadyAt ==
    ASSUME SyncInv, work.pc \in {"reuse", "mark", "analyse", "prune"}
    PROVE  AnalysisReady
  BY DEF SyncInv, WorkIsSound

LEMMA ReuseStep ==
    ASSUME SyncInv, work \in Works, Reuse
    PROVE  SyncInv'
  <1>1. AnalysisReady
    BY ReadyAt DEF Reuse
  <1>2. Follows(Finish("reused")) /\ Follows(Goto("analyse"))
    BY <1>1, FinishFollows, GotoFollows
  <1>3. CASE Stored
    BY <1>2, <1>3, MarkedRecords, StoredType, CallStep DEF Reuse
  <1>4. CASE ~Stored
    BY <1>2, <1>4, StoredType, CallStep DEF Reuse, Stored
  <1>. QED  BY <1>3, <1>4

LEMMA MarkStep ==
    ASSUME SyncInv, work \in Works, Mark
    PROVE  SyncInv'
  <1>1. Follows(Goto("analyse"))
    BY ReadyAt, GotoFollows DEF Mark
  <1>2. CASE Stored
    BY <1>1, <1>2, MarkedRecords, StoredType, CallStep DEF Mark
  <1>3. CASE ~Stored
    BY <1>1, <1>3, StoredType, CallStep DEF Mark, Stored
  <1>. QED  BY <1>2, <1>3

LEMMA ProjectionType ==
    ASSUME SyncInv, work \in Works, AnalysisReady
    PROVE  Projection \in Projections
  BY DEF Projection, Projections, AnalysisReady, KnownFormat, Works

\* The record of a committed upload shows the projection it just stored.
LEMMA UploadStep ==
    ASSUME SyncInv, work \in Works, Upload
    PROVE  SyncInv'
  <1>1. AnalysisReady
    BY ReadyAt DEF Upload
  <1>2. Follows(Goto("prune")) /\ Follows(Finish("uploaded"))
    BY <1>1, FinishFollows, GotoFollows
  <1>3. Committed \in Records /\ Committed.current \in Committed.shelf
    <2>1. Projection \in Projections
      BY <1>1, ProjectionType
    <2>2. (IF Stored THEN Now.shelf ELSE {}) \in SUBSET Projections
      BY StoredType DEF Records
    <2>. QED  BY <2>1, <2>2, StoredType DEF Committed, Records
  <1>4. CASE Superseded
    BY <1>2, <1>3, <1>4, CallStep DEF Upload
  <1>5. CASE ~Superseded
    BY <1>2, <1>3, <1>5, CallStep DEF Upload
  <1>. QED  BY <1>4, <1>5

LEMMA AnalysisStep ==
    ASSUME SyncInv, work \in Works, AnalysisRefused \/ AnalysisFails
    PROVE  SyncInv'
  <1>1. UNCHANGED <<diskVars, tableVars, remote, loop, retired, edits, refreshes>>
    BY DEF AnalysisRefused, AnalysisFails, Local, Deferred
  <1>2. CASE AnalysisRefused
    <2>1. Follows(work')
      BY <1>2, GotoFollows DEF AnalysisRefused
    <2>2. faults' \in Nat
      BY <1>2 DEF AnalysisRefused, SyncInv, TypeOK
    <2>. QED
      BY <1>1, <2>1, <2>2, FollowsSound, WorkOnly DEF Follows, SyncInv, TypeOK
  <1>3. CASE AnalysisFails
    BY <1>1, <1>3, IdleSound, WorkOnly
    DEF AnalysisFails, Deferred, Fault, SyncInv, TypeOK
  <1>. QED  BY <1>2, <1>3

\* Pruning never takes what the record shows.
LEMMA PruneStep ==
    ASSUME SyncInv, work \in Works, Prune
    PROVE  SyncInv'
  <1> DEFINE pruned == [Now EXCEPT !.shelf = @ \ {work.was.projection}]
  <1>1. Follows(Finish("uploaded"))
    BY ReadyAt, FinishFollows DEF Prune
  <1>2. CASE Now.current = work.was.projection
    BY <1>1, <1>2, StoredType, CallStep DEF Prune, Stored
  <1>3. CASE Now.current # work.was.projection /\ Stored
    <2>1. /\ pruned \in Records
          /\ pruned.current = Now.current
          /\ pruned.shelf = Now.shelf \ {work.was.projection}
      BY <1>3, StoredType, RecordUpdates DEF Records
    <2>2. pruned.current # NoProjection => pruned.current \in pruned.shelf
      BY <1>3, <2>1, StoredType
    <2>3. Call(pruned, Finish("uploaded"))
      BY <1>3 DEF Prune
    <2>. HIDE DEF pruned
    <2>. QED  BY <1>1, <2>1, <2>2, <2>3, CallStep
  <1>4. CASE ~Stored
    <2>1. Now = NoRecord
      BY <1>4, StoredType DEF Stored, Records
    <2>2. pruned = NoRecord
      BY <2>1 DEF NoRecord
    <2>3. CASE Now.current = work.was.projection
      BY <1>2, <2>3
    <2>4. CASE Now.current # work.was.projection
      <3>1. Call(NoRecord, Finish("uploaded"))
        BY <2>2, <2>4 DEF Prune
      <3>. QED  BY <1>1, <3>1, CallStep DEF NoRecord
    <2>. QED  BY <2>3, <2>4
  <1>. QED  BY <1>2, <1>3, <1>4

LEMMA UnsupportedStep ==
    ASSUME SyncInv, work \in Works, Unsupported
    PROVE  SyncInv'
  <1>1. Follows(Finish("unsupported"))
    BY FinishFollows
  <1>2. CASE Stored
    BY <1>1, <1>2, MarkedRecords, StoredType, CallStep DEF Unsupported
  <1>3. CASE ~Stored
    <2> DEFINE r == [state |-> "available", path |-> work.entry.path,
                     eligible |-> FALSE, current |-> NoProjection, shelf |-> {}]
    <2>1. r \in Records /\ r.current = NoProjection
      BY StoredType DEF Records
    <2>2. Call(r, Finish("unsupported"))
      BY <1>3 DEF Unsupported
    <2>. HIDE DEF r
    <2>. QED  BY <1>1, <2>1, <2>2, CallStep
  <1>. QED  BY <1>2, <1>3

-----------------------------------------------------------------------------
(* Writing the outcome, retirement, retention and crashes *)

LEMMA ForgotType == ASSUME doc[work.id] \in Docs PROVE Forgot \in BOOLEAN
  BY DEF Forgot, Docs

LEMMA CompleteStep ==
    ASSUME SyncInv, work \in Works, Complete
    PROVE  SyncInv'
  <1>1. /\ UNCHANGED <<diskVars, remote, loop, retired, edits, refreshes, faults>>
        /\ work' = Idle
    BY DEF Complete, Local
  <1>2. work.id \in Inodes /\ doc[work.id].known /\ doc[work.id] \in Docs
    BY KnownDoc DEF SyncInv, WorkIsSound, Works, Idle
  <1>3. work.was.projection \in Projections \cup {NoProjection}
    BY DEF Works, Docs
  <1>4. work.outcome = "uploaded" => Projection \in Projections
    BY ProjectionType DEF Complete, SyncInv, WorkIsSound
  <1>5. work.outcome \in {"missing", "reused", "uploaded", "unsupported"}
    BY DEF Complete, SyncInv, WorkIsSound, Works
  <1>6. work.bytes \in Bytes \cup {None}
    BY DEF Works
  <1>7. PICK d \in Docs : /\ doc' = [doc EXCEPT ![work.id] = d]
                          /\ d.path = doc[work.id].path
                          /\ d.missing = doc[work.id].missing
    <2> DEFINE updated(q) == [doc[work.id] EXCEPT !.rev = work.bytes, !.projection = q, !.forgot = Forgot]
    <2>1. \A q \in Projections \cup {NoProjection} :
            /\ updated(q) \in Docs
            /\ updated(q).path = doc[work.id].path
            /\ updated(q).missing = doc[work.id].missing
      BY <1>2, <1>6, ForgotType, DocUpdates DEF Docs
    <2>2. CASE work.outcome = "missing"
      BY <1>2, <2>2 DEF Complete
    <2>3. CASE work.outcome # "missing"
      <3>1. Recalled \in Projections \cup {NoProjection}
        BY <1>3, <1>4, <1>5, <2>3 DEF Recalled
      <3> QED
        BY <2>1, <2>3, <3>1 DEF Complete
    <2>. QED  BY <2>2, <2>3
  <1>8. /\ doc' \in [Inodes -> Docs \cup {NoDoc}]
        /\ \A i \in Inodes : /\ doc'[i].known = doc[i].known
                             /\ doc'[i].path = doc[i].path
                             /\ doc'[i].missing = doc[i].missing
    BY <1>2, <1>7 DEF SyncInv, TypeOK, Docs
  <1>9. /\ queue' \in [Inodes -> Entries \cup {NoEntry}]
        /\ \A i \in Inodes : queue'[i] # NoEntry => queue[i] # NoEntry
    BY <1>2 DEF Complete, SyncInv, TypeOK
  <1>10. TypeOK'
    BY <1>1, <1>8, <1>9 DEF SyncInv, TypeOK, diskVars
  <1>11. TableIsSound'
    BY <1>8, <1>9 DEF SyncInv, TableIsSound
  <1>12. OneDocumentPerPath'
    BY <1>8 DEF SyncInv, OneDocumentPerPath
  <1>. QED
    BY <1>1, <1>10, <1>11, <1>12, IdleSound, ContentsFrame, RemoteFrame DEF SyncInv

LEMMA RetireStep ==
    ASSUME SyncInv, Retire
    PROVE  SyncInv'
  <1>1. /\ UNCHANGED <<diskVars, doc, remote, work, loop, bounds>>
        /\ retired' \in BOOLEAN /\ work = Idle
        /\ queue' = [i \in Inodes |-> NoEntry]
    BY DEF Retire
  <1>2. TypeOK'
    BY <1>1 DEF SyncInv, TypeOK, diskVars, bounds
  <1>3. TableIsSound'
    BY <1>1 DEF SyncInv, TableIsSound
  <1>4. WorkIsSound'
    BY <1>1, IdleSound
  <1>. QED
    BY <1>1, <1>2, <1>3, <1>4, ContentsFrame, PathsFrame, RemoteFrame DEF SyncInv

LEMMA RemotePurgeStep ==
    ASSUME SyncInv, NEW i \in Inodes, RemotePurge(i)
    PROVE  SyncInv'
  <1>1. /\ UNCHANGED <<diskVars, tableVars, work, loop, retired, bounds>>
        /\ remote' = [remote EXCEPT ![i] = NoRecord]
    BY DEF RemotePurge
  <1>2. TypeOK' /\ LastGoodReadable'
    BY <1>1 DEF SyncInv, TypeOK, LastGoodReadable, NoRecord, diskVars, tableVars, bounds
  <1>. QED
    BY <1>1, <1>2, ContentsFrame, TableFrame, WorkFrame, PathsFrame
    DEF SyncInv, tableVars

LEMMA CrashStep ==
    ASSUME SyncInv, Crash
    PROVE  SyncInv'
  <1>1. /\ UNCHANGED <<diskVars, tableVars, remote, retired, edits, refreshes>>
        /\ work' = Idle /\ loop' = Waiting
    BY DEF Crash
  <1>2. loop' \in Loops
    BY <1>1, LoopTypes DEF SyncInv
  <1>3. faults' \in Nat
    BY DEF Crash, Fault, SyncInv, TypeOK
  <1>. QED  BY <1>1, <1>2, <1>3, IdleSound, WorkOnly

LEMMA ProcessStepStep ==
    ASSUME SyncInv, ProcessStep
    PROVE  SyncInv'
  <1>1. CASE ClaimRefresh
    BY <1>1, ClaimRefreshStep
  <1>2. CASE ~ClaimRefresh
    <2>1. work \in Works
      BY <1>2, WorkKinds
      DEF SyncInv, ProcessStep, ProcessDeleted, Capture, Reuse, Mark, Upload,
          AnalysisRefused, AnalysisFails, Prune, Unsupported, Complete
    <2>. QED
      BY <1>2, <2>1, ProcessDeletedStep, CaptureStep, ReuseStep, MarkStep, UploadStep,
         AnalysisStep, PruneStep, UnsupportedStep, CompleteStep
      DEF ProcessStep
  <1>. QED  BY <1>1, <1>2

-----------------------------------------------------------------------------
(* The theorems *)

LEMMA SyncInit == Init => SyncInv
  <1>. SUFFICES ASSUME Init PROVE SyncInv
    OBVIOUS
  <1>1. TypeOK
    BY DEF Init, TypeOK, Idle, Waiting, Loops, None
  <1>2. ContentsAreCaptured /\ TableIsSound
    BY DEF Init, ContentsAreCaptured, TableIsSound, Born, NoDoc
  <1>3. WorkIsSound
    BY DEF Init, WorkIsSound, Idle
  <1>4. OneDocumentPerPath /\ LastGoodReadable
    BY DEF Init, OneDocumentPerPath, LastGoodReadable, NoDoc, NoRecord
  <1>. QED  BY <1>1, <1>2, <1>3, <1>4 DEF SyncInv

LEMMA SyncInductive == SyncInv /\ [Next]_vars => SyncInv'
  <1>. SUFFICES ASSUME SyncInv, [Next]_vars PROVE SyncInv'
    OBVIOUS
  <1>1. CASE FileChange
    BY <1>1, FileChangeStep
  <1>2. CASE WalkStart \/ WalkStep
    BY <1>2, LoopMovesStep, WalkFileStep, WalkEndStep DEF WalkStep
  <1>3. CASE LoopStep
    BY <1>3, LoopMovesStep, ClaimChangeStep DEF LoopStep
  <1>4. CASE \E i \in Inodes : RequestRefresh(i) \/ RemotePurge(i)
    BY <1>4, RequestRefreshStep, RemotePurgeStep
  <1>5. CASE ProcessStep
    BY <1>5, ProcessStepStep
  <1>6. CASE Retire
    BY <1>6, RetireStep
  <1>7. CASE Crash
    BY <1>7, CrashStep
  <1>8. CASE UNCHANGED vars
    <2>1. /\ loop \in Loops
          /\ UNCHANGED <<diskVars, tableVars, remote, work, loop, retired, bounds>>
      BY <1>8 DEF vars, diskVars, tableVars, bounds, SyncInv, TypeOK
    <2>. QED  BY <2>1, LoopOnly
  <1>. QED
    BY <1>1, <1>2, <1>3, <1>4, <1>5, <1>6, <1>7, <1>8 DEF Next

\* The table, the queue, the shard's records and the change being processed
\* stay consistent in every reachable state of the Sync app, whatever happens
\* to the files meanwhile and whichever requests, analyses or runs fail.
THEOREM SyncInvariant == Spec => []SyncInv
  BY SyncInit, SyncInductive, PTL DEF Spec

\* Every variable keeps its type: records and rows are always complete, and a
\* document that loses its path still has the local one its snapshot needs.
THEOREM TypeCorrect == Spec => []TypeOK
  <1>1. SyncInv => TypeOK
    BY DEF SyncInv
  <1>. QED  BY <1>1, SyncInvariant, PTL

\* observe_file never meets the UNIQUE(connection_key, relative_path_nfc)
\* constraint: no sequence of renames, swaps and replacements during walks
\* makes two rows of the documents table own one path.
THEOREM PathsUnique == Spec => []OneDocumentPerPath
  <1>1. SyncInv => OneDocumentPerPath
    BY DEF SyncInv
  <1>. QED  BY <1>1, SyncInvariant, PTL

\* Uploads, prunes and retention never remove the projection a record shows:
\* the last good revision stays readable through failures and repeats.
THEOREM LastGoodKept == Spec => []LastGoodReadable
  <1>1. SyncInv => LastGoodReadable
    BY DEF SyncInv
  <1>. QED  BY <1>1, SyncInvariant, PTL

-----------------------------------------------------------------------------
(* What readers are shown: Faithful, for a Steady owner *)

LEMMA ByteNumbers == \A b \in Bytes \cup {None} : b \in Nat
  BY ConstantsAssumption DEF None

LEMMA Numbers ==
    ASSUME SyncInv
    PROVE  /\ \A i \in Inodes : file[i].bytes \in Nat /\ file[i].stamp \in Nat
           /\ \A i \in Inodes : doc[i].known =>
                /\ doc[i].stamp \in Nat /\ doc[i].rev \in Nat /\ doc[i].missing \in BOOLEAN
                /\ doc[i].local \in Paths
                /\ doc[i].projection \in Projections \cup {NoProjection}
           /\ \A i \in Inodes : remote[i].state # "absent" =>
                /\ remote[i] \in Records
                /\ remote[i].current \in Projections \cup {NoProjection}
                /\ remote[i].current # NoProjection => remote[i].current.bytes \in Nat
           /\ Started(work) =>
                /\ work \in Works /\ work.id \in Inodes /\ doc[work.id].known
                /\ work.bytes \in Nat /\ work.was.stamp \in Nat /\ work.was.rev \in Nat
                /\ work.was.missing \in BOOLEAN
  <1>0. \A b \in Bytes \cup {None} : b \in Nat
    BY ByteNumbers
  <1>1. \A i \in Inodes : file[i].bytes \in Nat /\ file[i].stamp \in Nat
    <2>1. \A i \in Inodes : file[i] \in [bytes : Bytes \cup {None}, stamp : Nat]
      BY DEF SyncInv, TypeOK
    <2> QED
      BY <1>0, <2>1
  <1>2. \A i \in Inodes : doc[i].known =>
          /\ doc[i].stamp \in Nat /\ doc[i].rev \in Nat /\ doc[i].missing \in BOOLEAN
          /\ doc[i].local \in Paths
          /\ doc[i].projection \in Projections \cup {NoProjection}
    BY <1>0, KnownDoc DEF SyncInv, Docs
  <1>3. ASSUME NEW i \in Inodes, remote[i].state # "absent"
        PROVE  /\ remote[i] \in Records
               /\ remote[i].current \in Projections \cup {NoProjection}
               /\ remote[i].current # NoProjection => remote[i].current.bytes \in Nat
    <2>1. remote[i] \in Records
      BY <1>3 DEF SyncInv, TypeOK, NoRecord
    <2> QED
      BY <1>0, <2>1 DEF Records, Projections
  <1>4. ASSUME Started(work)
        PROVE  /\ work \in Works /\ work.id \in Inodes /\ doc[work.id].known
               /\ work.bytes \in Nat /\ work.was.stamp \in Nat /\ work.was.rev \in Nat
               /\ work.was.missing \in BOOLEAN
    <2>1. work \in Works /\ work # Idle
      BY <1>4, WorkKinds DEF Started, SyncInv, Idle
    <2> QED
      BY <1>0, <2>1 DEF Works, Docs, SyncInv, WorkIsSound
  <1> QED
    BY <1>1, <1>2, <1>3, <1>4

\* Files that do not revert only grow, and their stamps tell.
Grows ==
    \A i \in Inodes :
      /\ file[i].bytes <= file'[i].bytes
      /\ file'[i] = file[i] \/ file[i].stamp < file'[i].stamp
      /\ ~Born(i)' => file'[i].bytes = None

LEMMA FilesGrow ==
    ASSUME SyncInv, TableFollows, Steady, FileChange PROVE Grows
<1>1. \A i \in Inodes : file[i] \in [bytes : Bytes \cup {None}, stamp : Nat]
  BY DEF SyncInv, TypeOK
<1>2. ASSUME NEW i \in Inodes, NEW p \in Paths, CreateFile(i, p) PROVE Grows
  <2>1. PICK b \in Bytes : file' = [file EXCEPT ![i] = [bytes |-> b, stamp |-> 1]]
    BY <1>2 DEF CreateFile
  <2>2. file[i].stamp = 0 /\ file[i].bytes = 0 /\ b \in Nat
    BY <1>1, <1>2, ConstantsAssumption DEF CreateFile, Born, TableFollows, None
  <2>3. \A k \in Inodes : file'[k] = IF k = i THEN [bytes |-> b, stamp |-> 1] ELSE file[k]
    BY <2>1 DEF SyncInv, TypeOK
  <2> QED
    BY <2>2, <2>3, Numbers DEF Grows, Born, TableFollows
<1>3. ASSUME NEW i \in Inodes, WriteFile(i) PROVE Grows
  <2>1. PICK b \in Bytes : /\ b >= file[i].bytes
                           /\ file' = [file EXCEPT ![i] = [bytes |-> b, stamp |-> @.stamp + 1]]
    BY <1>3 DEF WriteFile, Steady
  <2>2. b \in Nat
    BY ConstantsAssumption
  <2>3. \A k \in Inodes :
          file'[k] = IF k = i THEN [bytes |-> b, stamp |-> file[i].stamp + 1] ELSE file[k]
    BY <2>1 DEF SyncInv, TypeOK
  <2> QED
    BY <2>1, <2>2, <2>3, Numbers DEF Grows, Born, TableFollows
<1>4. CASE UNCHANGED file
  BY <1>4, Numbers DEF Grows, Born, TableFollows
<1> QED
  BY <1>2, <1>3, <1>4 DEF FileChange, RestoreFile, RenameFile, RemoveFile

LEMMA GrowthFits ==
    ASSUME SyncInv, SyncInv', FaithInv, Grows, UNCHANGED <<doc, queue, remote, work, retired>>
    PROVE  FaithInv'
<1>1. ASSUME NEW i \in Inodes
      PROVE  /\ file[i].bytes \in Nat /\ file[i].stamp \in Nat
             /\ file'[i].bytes \in Nat /\ file'[i].stamp \in Nat
             /\ file[i].bytes <= file'[i].bytes /\ file[i].stamp <= file'[i].stamp
             /\ file'[i].stamp = file[i].stamp => file'[i] = file[i]
  <2>1. {file[i], file'[i]} \subseteq [bytes : Bytes \cup {None}, stamp : Nat]
    BY DEF SyncInv, TypeOK
  <2>2. file[i].bytes \in Nat /\ file[i].stamp \in Nat /\ file'[i].bytes \in Nat /\ file'[i].stamp \in Nat
    BY <2>1, ByteNumbers
  <2>3. /\ file[i].bytes <= file'[i].bytes
        /\ file'[i] = file[i] \/ file[i].stamp < file'[i].stamp
    BY DEF Grows
  <2> QED
    BY <2>2, <2>3
<1>2. TableFollows'
  <2> SUFFICES ASSUME NEW i \in Inodes
               PROVE  /\ ~Born(i)' => file'[i].bytes = None
                      /\ doc[i].known =>
                           /\ doc[i].stamp <= file'[i].stamp /\ doc[i].rev <= file'[i].bytes
                           /\ doc[i].path # Detached => doc[i].path = doc[i].local
    BY DEF TableFollows
  <2>1. ~Born(i)' => file'[i].bytes = None
    BY DEF Grows
  <2>2. ASSUME doc[i].known
        PROVE  /\ doc[i].stamp \in Nat /\ doc[i].rev \in Nat
               /\ doc[i].stamp <= file[i].stamp /\ doc[i].rev <= file[i].bytes
               /\ doc[i].path # Detached => doc[i].path = doc[i].local
    BY <2>2, Numbers DEF FaithInv, TableFollows
  <2> QED
    BY <1>1, <2>1, <2>2
<1>3. QueueTells'
  BY DEF FaithInv, QueueTells
<1>4. SettledTells'
  <2> SUFFICES ASSUME ~retired, NEW i \in Inodes, Settled(i),
                      ~doc[i].missing /\ doc[i].stamp = file'[i].stamp
               PROVE  ShownAsIs(i)'
    BY DEF FaithInv, SettledTells, Settled
  <2>1. doc[i].stamp \in Nat /\ doc[i].stamp <= file[i].stamp
    BY Numbers DEF FaithInv, TableFollows, Settled
  <2>2. file'[i] = file[i]
    BY <1>1, <2>1
  <2> QED
    BY <2>2 DEF FaithInv, SettledTells, ShownAsIs
<1>5. ASSUME NEW i \in Inodes PROVE RecordFits(i, remote[i])'
  <2>1. RecordFits(i, remote[i])
    BY DEF FaithInv
  <2>2. ASSUME remote[i].state # "absent", remote[i].current # NoProjection
        PROVE  remote[i].current.bytes \in Nat
    BY <2>2, Numbers
  <2>3. doc[i].known => doc[i].rev \in Nat
    BY Numbers
  <2> QED
    BY <1>1, <2>1, <2>2, <2>3 DEF RecordFits
<1>6. WorkRemembers(work)' /\ WorkFits(work)'
  <2>1. CASE ~Started(work)
    BY <2>1 DEF FaithInv, WorkRemembers, WorkFits, Started, Captured
  <2>2. CASE Started(work)
    <3>1. /\ work.id \in Inodes /\ work.bytes \in Nat /\ work.was.stamp \in Nat
          /\ work.was.rev \in Nat
      BY <2>2, Numbers
    <3>2. /\ file[work.id].bytes \in Nat /\ file[work.id].stamp \in Nat
          /\ file'[work.id].bytes \in Nat /\ file'[work.id].stamp \in Nat
          /\ file[work.id].bytes <= file'[work.id].bytes
          /\ file[work.id].stamp <= file'[work.id].stamp
          /\ file'[work.id].stamp = file[work.id].stamp => file'[work.id] = file[work.id]
      BY <1>1, <3>1
    <3>3. WorkFits(work) /\ WorkRemembers(work)
      BY DEF FaithInv
    <3>4. WorkRemembers(work)'
      BY <3>3 DEF WorkRemembers
    <3>5. work # Idle => queue'[work.id] # NoEntry
      BY <3>3 DEF WorkFits
    <3>6. /\ work.was.stamp <= file'[work.id].stamp
          /\ work.entry.path = work.was.local
          /\ work.entry.event = "deleted" <=> work.was.missing
      <4>1. work.was.stamp <= file[work.id].stamp
        BY <2>2, <3>3 DEF WorkFits
      <4> QED
        BY <2>2, <3>1, <3>2, <3>3, <4>1 DEF WorkFits
    <3>7. ASSUME Captured(work)
          PROVE  /\ ~work.was.missing
                 /\ work.was.rev <= work.bytes /\ work.bytes <= file'[work.id].bytes
                 /\ work.was.stamp = file'[work.id].stamp => work.bytes = file'[work.id].bytes
      <4>1. /\ ~work.was.missing /\ work.was.stamp <= file[work.id].stamp
            /\ work.was.rev <= work.bytes /\ work.bytes <= file[work.id].bytes
            /\ work.was.stamp = file[work.id].stamp => work.bytes = file[work.id].bytes
        BY <2>2, <3>3, <3>7 DEF WorkFits
      <4> QED
        BY <3>1, <3>2, <4>1
    <3>8. WorkFits(work)'
      BY <3>5, <3>6, <3>7 DEF WorkFits, Captured
    <3> QED
      BY <3>4, <3>8
  <2> QED
    BY <2>1, <2>2
<1>7. OutcomeFits(work, Now)'
  <2>1. CASE ~Started(work)
    BY <2>1 DEF Started, OutcomeFits
  <2>2. CASE Started(work)
    <3>1. work.id \in Inodes /\ work.was.stamp \in Nat /\ work.was.stamp <= file[work.id].stamp
      BY <2>2, Numbers DEF FaithInv, WorkFits
    <3>2. work.was.stamp = file'[work.id].stamp => work.was.stamp = file[work.id].stamp
      BY <1>1, <3>1
    <3> QED
      BY <3>2 DEF FaithInv, OutcomeFits, Now
  <2> QED
    BY <2>1, <2>2
<1> QED
  BY <1>2, <1>3, <1>4, <1>5, <1>6, <1>7 DEF FaithInv


\* A step on the table: a row either stays with its entry, or has just been seen,
\* missed or displaced, and has an entry that says so.
TableMoves ==
    \A j \in Inodes :
      \/ doc'[j] = doc[j] /\ queue'[j] = queue[j]
      \/ /\ queue'[j] # NoEntry
         /\ queue'[j].path = doc'[j].local
         /\ queue'[j].event = "deleted" <=> doc'[j].missing
         /\ doc'[j].known /\ doc'[j].stamp <= file[j].stamp
         /\ doc'[j].path # Detached => doc'[j].path = doc'[j].local
         /\ doc[j].known => doc'[j].rev = doc[j].rev /\ doc'[j].projection = doc[j].projection
         /\ ~doc[j].known => doc'[j].rev = None /\ doc'[j].projection = NoProjection

LEMMA TableFits ==
    ASSUME SyncInv, FaithInv, TableMoves, UNCHANGED <<file, remote, retired>>,
           \/ UNCHANGED work
           \/ work = Idle /\ work'.pc = "claim" /\ queue'[work'.id] # NoEntry
    PROVE  FaithInv'
<1>1. TableFollows'
  <2> SUFFICES ASSUME NEW i \in Inodes
               PROVE  /\ ~Born(i) => file[i].bytes = None
                      /\ doc'[i].known =>
                           /\ doc'[i].stamp <= file[i].stamp /\ doc'[i].rev <= file[i].bytes
                           /\ doc'[i].path # Detached => doc'[i].path = doc'[i].local
    BY DEF TableFollows, Born
  <2>1. /\ ~Born(i) => file[i].bytes = None
        /\ doc[i].known =>
             /\ doc[i].stamp <= file[i].stamp /\ doc[i].rev <= file[i].bytes
             /\ doc[i].path # Detached => doc[i].path = doc[i].local
    BY DEF FaithInv, TableFollows
  <2>2. file[i].bytes \in Nat
    BY Numbers
  <2> QED
    BY <2>1, <2>2 DEF TableMoves, None
<1>2. QueueTells'
  BY DEF FaithInv, QueueTells, TableMoves
<1>3. SettledTells'
  <2> SUFFICES ASSUME ~retired, NEW i \in Inodes, Settled(i)'
               PROVE  /\ ~doc'[i].missing /\ doc'[i].stamp = file'[i].stamp => ShownAsIs(i)'
                      /\ doc'[i].missing => remote'[i].state \in {"absent", "unavailable"}
    BY DEF SettledTells
  <2>1. doc'[i] = doc[i] /\ queue'[i] = queue[i]
    BY DEF TableMoves, Settled
  <2>2. Settled(i)
    BY <2>1, PathsAssumption DEF Settled, Idle
  <2> QED
    BY <2>1, <2>2 DEF FaithInv, SettledTells, ShownAsIs
<1>4. ASSUME NEW i \in Inodes PROVE RecordFits(i, remote[i])'
  <2>1. RecordFits(i, remote[i])
    BY DEF FaithInv
  <2>2. /\ doc'[i].known /\ doc'[i].projection # NoProjection =>
             doc[i].known /\ doc'[i].rev = doc[i].rev /\ doc[i].projection = doc'[i].projection
    BY DEF TableMoves
  <2> QED
    BY <2>1, <2>2 DEF RecordFits
<1>5. CASE UNCHANGED work
  <2>1. CASE ~Started(work)
    <3>1. WorkFits(work) /\ (work # Idle => work.id \in Inodes)
      BY WorkKinds DEF FaithInv, SyncInv
    <3>2. work # Idle => queue'[work.id] # NoEntry
      BY <3>1 DEF WorkFits, TableMoves
    <3>3. WorkRemembers(work)' /\ WorkFits(work)' /\ OutcomeFits(work, Now)'
      BY <1>5, <2>1, <3>2 DEF WorkRemembers, WorkFits, OutcomeFits, Started, Captured
    <3> QED
      BY <1>1, <1>2, <1>3, <1>4, <3>3 DEF FaithInv
  <2>2. CASE Started(work)
    <3>1. work.id \in Inodes /\ doc[work.id].known
      BY <2>2, Numbers
    <3>2. /\ doc'[work.id].rev = doc[work.id].rev /\ doc'[work.id].projection = doc[work.id].projection
          /\ queue[work.id] # NoEntry => queue'[work.id] # NoEntry
      BY <3>1 DEF TableMoves
    <3>3. WorkRemembers(work)'
      BY <1>5, <3>2 DEF FaithInv, WorkRemembers, Started
    <3>4. WorkFits(work)'
      BY <1>5, <3>2 DEF FaithInv, WorkFits, Started, Captured
    <3>5. OutcomeFits(work, Now)'
      BY <1>5 DEF FaithInv, OutcomeFits, Now
    <3> QED
      BY <1>1, <1>2, <1>3, <1>4, <3>3, <3>4, <3>5 DEF FaithInv
  <2> QED
    BY <2>1, <2>2
<1>6. CASE work'.pc = "claim" /\ queue'[work'.id] # NoEntry
  <2>1. WorkRemembers(work)' /\ WorkFits(work)' /\ OutcomeFits(work, Now)'
    BY <1>6 DEF WorkRemembers, WorkFits, OutcomeFits, Started, Captured
  <2> QED
    BY <1>1, <1>2, <1>3, <1>4, <2>1 DEF FaithInv
<1> QED
  BY <1>5, <1>6

\* The event of an entry is "deleted" exactly when the last one was.
LEMMA MergedTells ==
    ASSUME NEW old \in Events \cup {"none"}, NEW event \in Events
    PROVE  Merged(old, event) = "deleted" <=> event = "deleted"
  <1>1. CASE event = "deleted"
    BY <1>1 DEF Merged
  <1>2. CASE event # "deleted" /\ "format_refresh" \in {old, event}
    BY <1>2 DEF Merged
  <1>3. CASE event # "deleted" /\ "format_refresh" \notin {old, event}
    BY <1>3 DEF Merged
  <1> QED
    BY <1>1, <1>2, <1>3

LEMMA EnqueueTells ==
    ASSUME TypeOK, NEW events, DOMAIN events \subseteq Inodes,
           \A j \in DOMAIN events : events[j].event \in Events /\ events[j].path \in Paths,
           EnqueueAll(events)
    PROVE  /\ \A j \in DOMAIN events :
                /\ queue'[j] # NoEntry /\ queue'[j].path = events[j].path
                /\ queue'[j].event = "deleted" <=> events[j].event = "deleted"
           /\ \A j \in Inodes \ DOMAIN events : queue'[j] = queue[j]
<1>1. ASSUME NEW j \in DOMAIN events
      PROVE  /\ queue'[j] # NoEntry /\ queue'[j].path = events[j].path
             /\ queue'[j].event = "deleted" <=> events[j].event = "deleted"
  <2>1. queue[j].event \in Events \cup {"none"}
    BY <1>1 DEF TypeOK, Entries, NoEntry
  <2>2. /\ Merged(queue[j].event, events[j].event) = "deleted" <=> events[j].event = "deleted"
    BY <1>1, <2>1, MergedTells
  <2>3. queue'[j] = [event |-> Merged(queue[j].event, events[j].event), path |-> events[j].path]
    BY <1>1 DEF EnqueueAll, Entry
  <2>4. queue'[j] # NoEntry
    BY <1>1, EnqueueAllType
  <2> QED
    BY <2>2, <2>3, <2>4
<1>2. \A j \in Inodes \ DOMAIN events : queue'[j] = queue[j]
  BY DEF EnqueueAll
<1> QED
  BY <1>1, <1>2

LEMMA ObserveMoves ==
    ASSUME SyncInv, FaithInv, NEW i \in Inodes, NEW p \in Paths, ObserveFile(i, p)
    PROVE  TableMoves
  <1> DEFINE events == [j \in Rivals(i, p) \cup {i} |->
                          [event |-> IF j = i THEN EventOf(i, p) ELSE "deleted", path |-> p]]
  <1>1. Rivals(i, p) \subseteq Inodes \ {i}
    BY DEF Rivals
  <1>2. /\ DOMAIN events = Rivals(i, p) \cup {i}
        /\ DOMAIN events \subseteq Inodes
        /\ \A j \in DOMAIN events : events[j].event \in Events /\ events[j].path \in Paths
        /\ \A j \in Rivals(i, p) : events[j].event = "deleted"
        /\ events[i].event # "deleted"
        /\ \A j \in DOMAIN events : events[j].path = p
    BY <1>1 DEF EventOf, Events
  <1>3. EnqueueAll(events)
    BY DEF ObserveFile
  <1> HIDE DEF events
  <1>4. /\ \A j \in DOMAIN events :
             /\ queue'[j] # NoEntry /\ queue'[j].path = events[j].path
             /\ queue'[j].event = "deleted" <=> events[j].event = "deleted"
        /\ \A j \in Inodes \ DOMAIN events : queue'[j] = queue[j]
    BY <1>2, <1>3, EnqueueTells DEF SyncInv
  <1>5. \A j \in Inodes :
           doc'[j] = IF j = i THEN Observed(i, p)
                     ELSE IF j \in Rivals(i, p) THEN Displaced(j) ELSE doc[j]
    BY DEF ObserveFile
  <1>6. ASSUME NEW j \in Rivals(i, p)
        PROVE  /\ doc[j].known /\ Displaced(j).known /\ Displaced(j).missing
               /\ Displaced(j).path = Detached /\ Displaced(j).local = p
               /\ Displaced(j).stamp <= file[j].stamp
               /\ Displaced(j).rev = doc[j].rev /\ Displaced(j).projection = doc[j].projection
    <2>1. doc[j].known /\ doc[j].path = p /\ j \in Inodes
      BY <1>1 DEF Rivals
    <2>2. doc[j] \in Docs
      BY <2>1, KnownDoc DEF SyncInv
    <2>3. doc[j].local = p /\ doc[j].stamp <= file[j].stamp
      BY <2>1, PathsAssumption DEF FaithInv, TableFollows
    <2> QED
      BY <2>1, <2>2, <2>3 DEF Displaced, Docs
  <1>7. /\ Observed(i, p).known /\ ~Observed(i, p).missing
        /\ Observed(i, p).path = p /\ Observed(i, p).local = p
        /\ Observed(i, p).stamp <= file[i].stamp
        /\ Observed(i, p).rev = IF doc[i].known THEN doc[i].rev ELSE None
        /\ Observed(i, p).projection = IF doc[i].known THEN doc[i].projection ELSE NoProjection
    BY Numbers DEF Observed
  <1> QED
    BY <1>1, <1>2, <1>4, <1>5, <1>6, <1>7 DEF TableMoves

LEMMA MissedMoves ==
    ASSUME SyncInv, FaithInv, WalkEnd PROVE TableMoves
  <1> DEFINE events == [i \in Unseen |-> [event |-> "deleted", path |-> doc[i].path]]
  <1>1. /\ DOMAIN events = Unseen /\ DOMAIN events \subseteq Inodes
        /\ \A i \in DOMAIN events :
             events[i].event \in Events /\ events[i].path \in Paths
        /\ \A i \in DOMAIN events : events[i].event = "deleted" /\ events[i].path = doc[i].path
    BY DEF Unseen, Events, SyncInv, TableIsSound
  <1>2. EnqueueAll(events)
    BY DEF WalkEnd
  <1> HIDE DEF events
  <1>3. /\ \A j \in DOMAIN events :
             /\ queue'[j] # NoEntry /\ queue'[j].path = events[j].path
             /\ queue'[j].event = "deleted" <=> events[j].event = "deleted"
        /\ \A j \in Inodes \ DOMAIN events : queue'[j] = queue[j]
    BY <1>1, <1>2, EnqueueTells DEF SyncInv
  <1>4. \A i \in Inodes :
          doc'[i] = IF i \in Unseen THEN [doc[i] EXCEPT !.missing = TRUE] ELSE doc[i]
    BY DEF WalkEnd
  <1>5. ASSUME NEW i \in Unseen
        PROVE  /\ i \in Inodes /\ doc[i].known /\ doc[i].path = doc[i].local
               /\ doc[i].stamp <= file[i].stamp
               /\ doc'[i].known /\ doc'[i].missing /\ doc'[i].stamp = doc[i].stamp
               /\ doc'[i].path = doc[i].path /\ doc'[i].local = doc[i].local
               /\ doc'[i].rev = doc[i].rev /\ doc'[i].projection = doc[i].projection
    <2>1. i \in Inodes /\ doc[i].known /\ ~doc[i].missing
      BY DEF Unseen
    <2>2. doc[i] \in Docs
      BY <2>1, KnownDoc DEF SyncInv
    <2>3. doc[i].path = doc[i].local /\ doc[i].stamp <= file[i].stamp
      BY <2>1, PathsAssumption DEF FaithInv, TableFollows, SyncInv, TableIsSound
    <2> QED
      BY <1>4, <2>1, <2>2, <2>3 DEF Docs
  <1>6. ASSUME NEW j \in Inodes, j \notin Unseen PROVE doc'[j] = doc[j] /\ queue'[j] = queue[j]
    BY <1>1, <1>3, <1>4, <1>6
  <1>7. ASSUME NEW j \in Unseen
        PROVE  /\ queue'[j] # NoEntry
               /\ queue'[j].path = doc'[j].local
               /\ queue'[j].event = "deleted" <=> doc'[j].missing
    BY <1>1, <1>3, <1>5
  <1> QED
    BY <1>5, <1>6, <1>7 DEF TableMoves

LEMMA RequestMoves ==
    ASSUME SyncInv, FaithInv, NEW i \in Inodes, RequestRefresh(i)
    PROVE  TableMoves /\ queue'[i] # NoEntry
  <1> DEFINE events == [j \in {i} |-> [event |-> "refresh", path |-> doc[j].path]]
  <1>1. /\ DOMAIN events = {i} /\ doc[i].known /\ ~doc[i].missing
        /\ \A j \in DOMAIN events : events[j].event \in Events /\ events[j].path \in Paths
        /\ events[i].event = "refresh" /\ events[i].path = doc[i].path
    BY DEF RequestRefresh, Events, SyncInv, TableIsSound
  <1>2. EnqueueAll(events)
    BY DEF RequestRefresh
  <1> HIDE DEF events
  <1>3. /\ \A j \in DOMAIN events :
             /\ queue'[j] # NoEntry /\ queue'[j].path = events[j].path
             /\ queue'[j].event = "deleted" <=> events[j].event = "deleted"
        /\ \A j \in Inodes \ DOMAIN events : queue'[j] = queue[j]
    BY <1>1, <1>2, EnqueueTells DEF SyncInv
  <1>4. doc' = doc
    BY DEF RequestRefresh
  <1>5. doc[i].path = doc[i].local /\ doc[i].stamp <= file[i].stamp
    BY <1>1, PathsAssumption DEF FaithInv, TableFollows, SyncInv, TableIsSound
  <1> QED
    BY <1>1, <1>3, <1>4, <1>5 DEF TableMoves

-----------------------------------------------------------------------------
(* The change in work *)

LEMMA LockedStep ==
    ASSUME SyncInv, FaithInv, UNCHANGED <<file, doc, queue, retired>>,
           \A k \in Inodes : k # work.id => remote'[k] = remote[k],
           work.id \in Inodes => RecordFits(work.id, remote'[work.id]),
           WorkRemembers(work)', WorkFits(work)', OutcomeFits(work, Now)'
    PROVE  FaithInv'
<1>1. TableFollows' /\ QueueTells'
  BY DEF FaithInv, TableFollows, QueueTells, Born
<1>2. SettledTells'
  <2> SUFFICES ASSUME ~retired, NEW i \in Inodes, Settled(i)'
               PROVE  /\ ~doc'[i].missing /\ doc'[i].stamp = file'[i].stamp => ShownAsIs(i)'
                      /\ doc'[i].missing => remote'[i].state \in {"absent", "unavailable"}
    BY DEF SettledTells
  <2>1. queue[i] = NoEntry /\ doc[i].known
    BY DEF Settled
  <2>2. work.id # i
    BY <2>1, PathsAssumption DEF FaithInv, WorkFits, Idle
  <2>3. Settled(i) /\ remote'[i] = remote[i]
    BY <2>1, <2>2 DEF Settled
  <2> QED
    BY <2>3 DEF FaithInv, SettledTells, ShownAsIs
<1>3. ASSUME NEW i \in Inodes PROVE RecordFits(i, remote[i])'
  <2>1. RecordFits(i, remote'[i])
    BY DEF FaithInv
  <2> QED
    BY <2>1 DEF RecordFits
<1> QED
  BY <1>1, <1>2, <1>3 DEF FaithInv

LEMMA IdleFits ==
    work' = Idle => WorkRemembers(work)' /\ WorkFits(work)' /\ OutcomeFits(work, Now)'
  BY DEF WorkRemembers, WorkFits, OutcomeFits, Started, Captured, Idle

\* The change goes on, with the row and the bytes it has.
Proceeds(next) ==
    /\ next \in Works /\ next.pc # "start"
    /\ next.id = work.id /\ next.bytes = work.bytes
    /\ next.entry = work.entry /\ next.was = work.was

LEMMA GotoProceeds ==
    ASSUME work \in Works, NEW pc \in {"reuse", "mark", "analyse", "unsupported", "prune"}
    PROVE  Proceeds(Goto(pc)) /\ Goto(pc).pc = pc /\ Captured(Goto(pc))
<1>1. Goto(pc) \in Works
  BY WorkMoves
<1>2. /\ Goto(pc).pc = pc /\ Goto(pc).id = work.id /\ Goto(pc).bytes = work.bytes
      /\ Goto(pc).entry = work.entry /\ Goto(pc).was = work.was
  BY DEF Goto, Works
<1> QED
  BY <1>1, <1>2 DEF Proceeds, Captured

LEMMA FinishProceeds ==
    ASSUME work \in Works, NEW o \in {"missing", "reused", "uploaded", "unsupported"}
    PROVE  /\ Proceeds(Finish(o)) /\ Finish(o).pc = "finish" /\ Finish(o).outcome = o
           /\ Captured(Finish(o)) <=> o # "missing"
<1>1. Finish(o) \in Works
  BY WorkMoves
<1>2. /\ Finish(o).pc = "finish" /\ Finish(o).outcome = o
      /\ Finish(o).id = work.id /\ Finish(o).bytes = work.bytes
      /\ Finish(o).entry = work.entry /\ Finish(o).was = work.was
  BY DEF Finish, Works
<1> QED
  BY <1>1, <1>2 DEF Proceeds, Captured

LEMMA ProceedFits ==
    ASSUME FaithInv, work \in Works, work' \in Works, Proceeds(work'),
           Captured(work) \/ ~Captured(work'), UNCHANGED <<file, doc, queue>>
    PROVE  WorkRemembers(work)' /\ WorkFits(work)'
<1>1. Started(work) /\ work # Idle
  BY DEF Started, Works, Idle
<1>2. WorkRemembers(work)'
  BY <1>1 DEF FaithInv, WorkRemembers, Proceeds
<1>3. queue'[work'.id] # NoEntry
  BY <1>1 DEF FaithInv, WorkFits, Proceeds
<1>4. /\ work'.was.stamp <= file'[work'.id].stamp
      /\ work'.entry.path = work'.was.local
      /\ work'.entry.event = "deleted" <=> work'.was.missing
  BY <1>1 DEF FaithInv, WorkFits, Proceeds
<1>5. Captured(work') =>
        /\ ~work'.was.missing
        /\ work'.was.rev <= work'.bytes /\ work'.bytes <= file'[work'.id].bytes
        /\ work'.was.stamp = file'[work'.id].stamp => work'.bytes = file'[work'.id].bytes
  BY DEF FaithInv, WorkFits, Proceeds
<1>6. WorkFits(work)'
  BY <1>3, <1>4, <1>5 DEF WorkFits, Captured
<1> QED
  BY <1>2, <1>6

LEMMA CallFits ==
    ASSUME SyncInv, FaithInv, work \in Works, NEW r, NEW next, Proceeds(next), Call(r, next),
           Captured(work) \/ ~Captured(next), RecordFits(work.id, r), OutcomeFits(next, r)
    PROVE  FaithInv'
<1>1. work.id \in Inodes /\ UNCHANGED <<file, doc, queue, retired>>
  BY DEF Call, diskVars, tableVars, Deferred, Works
<1>2. (work' = next /\ remote' = [remote EXCEPT ![work.id] = r]) \/ work' = Idle
  BY DEF Call, Deferred
<1>3. remote' = [remote EXCEPT ![work.id] = r] \/ remote' = remote
  BY DEF Call
<1>4. /\ \A k \in Inodes : k # work.id => remote'[k] = remote[k]
      /\ RecordFits(work.id, remote'[work.id])
  <2>1. CASE remote' = [remote EXCEPT ![work.id] = r]
    BY <1>1, <2>1 DEF SyncInv, TypeOK
  <2>2. CASE remote' = remote
    BY <1>1, <2>2 DEF FaithInv
  <2> QED
    BY <1>3, <2>1, <2>2
<1>5. CASE work' = next /\ remote' = [remote EXCEPT ![work.id] = r]
  <2>1. WorkRemembers(work)' /\ WorkFits(work)'
    <3>1. work' \in Works /\ Proceeds(work') /\ (Captured(work) \/ ~Captured(work'))
      BY <1>5 DEF Proceeds
    <3> QED
      BY <1>1, <3>1, ProceedFits
  <2>2. remote'[work'.id] = r
    BY <1>1, <1>5 DEF SyncInv, TypeOK, Proceeds
  <2>3. OutcomeFits(work, Now)'
    BY <1>1, <1>5, <2>2 DEF OutcomeFits, Now
  <2> QED
    BY <1>1, <1>4, <2>1, <2>3, LockedStep
<1>6. CASE work' = Idle
  BY <1>1, <1>4, <1>6, IdleFits, LockedStep
<1> QED
  BY <1>2, <1>5, <1>6

\* What each request makes of the record of the document in work.
LEMMA DeletedFits ==
    ASSUME SyncInv, FaithInv, work \in Works, ProcessDeleted PROVE FaithInv'
<1>1. RecordFits(work.id, Now) /\ work.was.missing
  <2>1. Started(work) /\ work.entry.event = "deleted"
    BY DEF ProcessDeleted, Started
  <2> QED
    BY <2>1 DEF FaithInv, WorkFits, Works, Now
<1>2. /\ Proceeds(Finish("missing")) /\ ~Captured(Finish("missing"))
      /\ Finish("missing").pc = "finish" /\ Finish("missing").outcome = "missing"
      /\ Finish("missing").was = work.was
  BY FinishProceeds DEF Proceeds
<1>3. CASE Stored
  <2> DEFINE r == [Now EXCEPT !.state = "unavailable", !.path = work.entry.path]
  <2>1. r.state = "unavailable" /\ r.current = Now.current /\ Now.state # "absent"
    BY <1>3, StoredType DEF Records, Stored
  <2>2. Call(r, Finish("missing"))
    BY <1>3 DEF ProcessDeleted
  <2> HIDE DEF r
  <2>3. RecordFits(work.id, r) /\ OutcomeFits(Finish("missing"), r)
    BY <1>1, <1>2, <2>1 DEF RecordFits, OutcomeFits
  <2> QED
    BY <1>2, <2>2, <2>3, CallFits
<1>4. CASE ~Stored
  <2>1. OutcomeFits(Finish("missing"), Now)
    BY <1>1, <1>2, <1>4 DEF OutcomeFits, Stored
  <2> QED
    BY <1>1, <1>2, <1>4, <2>1, CallFits DEF ProcessDeleted
<1> QED
  BY <1>3, <1>4

\* A record that is marked keeps what it shows.
LEMMA MarkedFits ==
    ASSUME SyncInv, FaithInv, work \in Works, Stored,
           NEW s \in {"available", "changed"}, NEW e \in BOOLEAN
    PROVE  /\ RecordFits(work.id, At(s, e))
           /\ At(s, e).state = s /\ At(s, e).path = work.entry.path /\ At(s, e).eligible = e
           /\ At(s, e).current = Now.current
<1>1. RecordFits(work.id, Now) /\ Now.state # "absent" /\ Now \in Records
  BY StoredType DEF FaithInv, Works, Now, Stored
<1>2. /\ At(s, e).state = s /\ At(s, e).path = work.entry.path /\ At(s, e).eligible = e
      /\ At(s, e).current = Now.current
  BY <1>1 DEF At, Records
<1> QED
  BY <1>1, <1>2 DEF RecordFits

\* Unchanged bytes: what the record shows is still the content of the file,
\* unless the file has been written since the capture.
LEMMA ReuseFits ==
    ASSUME SyncInv, Steady, FaithInv, work \in Works, Reuse PROVE FaithInv'
<1>1. /\ RecordFits(work.id, Now) /\ work.id \in Inodes /\ Captured(work) /\ Started(work)
      /\ KnownFormat
  BY ReadyAt DEF Reuse, FaithInv, Works, Now, Captured, Started, AnalysisReady
<1>2. /\ work.bytes = work.was.rev /\ work.was.projection # NoProjection
      /\ work.was.rev = doc[work.id].rev /\ work.was.projection = doc[work.id].projection
      /\ doc[work.id].known
      /\ work.bytes <= file[work.id].bytes
      /\ work.was.stamp = file[work.id].stamp => work.bytes = file[work.id].bytes
  BY <1>1, Numbers DEF Reuse, FaithInv, OutcomeFits, WorkRemembers, WorkFits
<1>3. CASE Stored
  <2> DEFINE next == Finish("reused")
             r == At("available", TRUE)
  <2>1. /\ Proceeds(next) /\ next.pc = "finish" /\ next.outcome = "reused"
        /\ next.was = work.was /\ next.bytes = work.bytes /\ next.entry = work.entry
        /\ next.id = work.id
    BY FinishProceeds DEF Proceeds
  <2>2. /\ RecordFits(work.id, r) /\ r.state = "available" /\ r.path = work.entry.path
        /\ r.eligible /\ r.current = Now.current
    BY <1>3, MarkedFits
  <2>3. Call(r, next)
    BY <1>3 DEF Reuse
  <2> HIDE DEF next, r
  <2>4. work.bytes \notin Unreadable
    BY <1>1, <1>2 DEF RecordFits
  <2>5. ASSUME work.was.stamp = file[work.id].stamp
        PROVE  Shows(r, work.entry.path, work.bytes)
    <3>1. Now.state # "absent" /\ work.bytes = file[work.id].bytes /\ doc[work.id].rev = work.bytes
      BY <1>2, <1>3, <2>5 DEF Stored
    <3>2. /\ Now.current \in Projections \cup {NoProjection}
          /\ Now.current # NoProjection => Now.current.bytes \in Nat
          /\ work.bytes \in Nat
      BY <1>1, <3>1, Numbers DEF Now
    <3>3. Now.current # NoProjection /\ Now.current.bytes = work.bytes
      BY <1>1, <1>2, <3>1, <3>2 DEF RecordFits
    <3>4. PICK p \in Paths : Now.current.format = Format[p]
      BY <1>1, <3>1, <3>3 DEF RecordFits
    <3>5. Now.current.format = Format[work.entry.path]
      BY <1>1, <3>2, <3>3, <3>4, StoredType DEF Projections, KnownFormat, Steady
    <3>6. Now.current = [bytes |-> work.bytes, format |-> Format[work.entry.path]]
      BY <3>2, <3>3, <3>5 DEF Projections
    <3> QED
      BY <1>1, <2>2, <2>4, <3>6 DEF Shows, KnownFormat
  <2>6. OutcomeFits(next, r)
    BY <1>2, <2>1, <2>5 DEF OutcomeFits
  <2> QED
    BY <1>1, <2>1, <2>2, <2>3, <2>6, CallFits
<1>4. CASE ~Stored
  <2>1. Proceeds(Goto("analyse")) /\ OutcomeFits(Goto("analyse"), Now)
    BY GotoProceeds DEF OutcomeFits
  <2> QED
    BY <1>1, <1>4, <2>1, CallFits DEF Reuse
<1> QED
  BY <1>3, <1>4

LEMMA MarkFits ==
    ASSUME SyncInv, FaithInv, work \in Works, Mark PROVE FaithInv'
<1>1. Captured(work) /\ RecordFits(work.id, Now)
  BY DEF Mark, Captured, FaithInv, Works, Now
<1>2. Proceeds(Goto("analyse")) /\ \A r : OutcomeFits(Goto("analyse"), r)
  BY GotoProceeds DEF OutcomeFits
<1>3. CASE Stored
  BY <1>1, <1>2, <1>3, MarkedFits, CallFits DEF Mark
<1>4. CASE ~Stored
  BY <1>1, <1>2, <1>4, CallFits DEF Mark
<1> QED
  BY <1>3, <1>4

LEMMA UploadFits ==
    ASSUME SyncInv, FaithInv, work \in Works, Upload PROVE FaithInv'
<1>1. /\ Captured(work) /\ Started(work) /\ KnownFormat /\ work.bytes \notin Unreadable
      /\ work.id \in Inodes /\ work.entry.path \in Paths
  BY ReadyAt, StoredType DEF Upload, Captured, Started, AnalysisReady, Works
<1>2. /\ work.was.rev <= work.bytes /\ work.bytes <= file[work.id].bytes
      /\ work.was.rev = doc[work.id].rev
      /\ RecordFits(work.id, Now)
  BY <1>1, Numbers DEF FaithInv, WorkFits, WorkRemembers, Now
<1>3. /\ Committed.state = "available" /\ Committed.path = work.entry.path /\ Committed.eligible
      /\ Committed.current = [bytes |-> work.bytes, format |-> Format[work.entry.path]]
  BY DEF Committed, Projection
<1>4. Committed.current # NoProjection
  BY <1>3 DEF NoProjection
<1>5. RecordFits(work.id, Committed)
  BY <1>1, <1>2, <1>3, <1>4 DEF RecordFits
<1>6. Shows(Committed, work.entry.path, work.bytes)
  BY <1>1, <1>3 DEF Shows, KnownFormat
<1>7. ASSUME NEW next, next = Goto("prune") \/ next = Finish("uploaded")
      PROVE  Proceeds(next) /\ OutcomeFits(next, Committed)
  <2>1. /\ Proceeds(next)
        /\ next.pc = "prune" \/ (next.pc = "finish" /\ next.outcome = "uploaded")
    BY <1>7, GotoProceeds, FinishProceeds
  <2> QED
    BY <1>1, <1>6, <2>1 DEF OutcomeFits, Proceeds, KnownFormat
<1>8. CASE Superseded
  BY <1>1, <1>5, <1>7, <1>8, CallFits DEF Upload
<1>9. CASE ~Superseded
  BY <1>1, <1>5, <1>7, <1>9, CallFits DEF Upload
<1> QED
  BY <1>8, <1>9

LEMMA PruneFits ==
    ASSUME SyncInv, FaithInv, work \in Works, Prune PROVE FaithInv'
<1>1. /\ Captured(work) /\ RecordFits(work.id, Now) /\ Stored /\ Now \in Records
      /\ KnownFormat /\ work.bytes \notin Unreadable
      /\ Shows(Now, work.entry.path, work.bytes)
  BY StoredType DEF Prune, Captured, FaithInv, OutcomeFits, Works, Now, Shows, Stored, KnownFormat
<1>2. /\ Proceeds(Finish("uploaded"))
      /\ Finish("uploaded").pc = "finish" /\ Finish("uploaded").outcome = "uploaded"
  BY FinishProceeds
<1>3. ASSUME NEW r, r.state = Now.state, r.path = Now.path, r.eligible = Now.eligible,
             r.current = Now.current
      PROVE  RecordFits(work.id, r) /\ OutcomeFits(Finish("uploaded"), r)
  <2>1. Shows(r, work.entry.path, work.bytes)
    BY <1>1, <1>3 DEF Shows
  <2> QED
    BY <1>1, <1>2, <1>3, <2>1 DEF RecordFits, OutcomeFits, Proceeds, KnownFormat
<1>4. CASE Now.current = work.was.projection
  BY <1>1, <1>2, <1>3, <1>4, CallFits DEF Prune
<1>5. CASE Now.current # work.was.projection
  <2> DEFINE r == [Now EXCEPT !.shelf = @ \ {work.was.projection}]
  <2>1. /\ r.state = Now.state /\ r.path = Now.path /\ r.eligible = Now.eligible
        /\ r.current = Now.current
    BY <1>1 DEF Records
  <2>2. Call(r, Finish("uploaded"))
    BY <1>5 DEF Prune
  <2> HIDE DEF r
  <2> QED
    BY <1>1, <1>2, <1>3, <2>1, <2>2, CallFits
<1> QED
  BY <1>4, <1>5

LEMMA UnsupportedFits ==
    ASSUME SyncInv, Steady, FaithInv, work \in Works, Unsupported PROVE FaithInv'
<1> DEFINE next == Finish("unsupported")
<1>1. /\ Captured(work) /\ Started(work) /\ work.id \in Inodes /\ work.entry.path \in Paths
      /\ RecordFits(work.id, Now)
      /\ ~KnownFormat \/ work.bytes \in Unreadable
  BY StoredType DEF Unsupported, Captured, Started, FaithInv, OutcomeFits, Works, Now, KnownFormat
<1>2. /\ Proceeds(next) /\ next.pc = "finish" /\ next.outcome = "unsupported"
  BY FinishProceeds
<1> HIDE DEF next
<1>3. ASSUME NEW r, r.state = "available", r.path = work.entry.path, ~r.eligible
      PROVE  OutcomeFits(next, r)
  BY <1>1, <1>2, <1>3 DEF OutcomeFits, Shows, Proceeds, KnownFormat
<1>4. CASE Stored
  <2>1. Call(At("available", FALSE), next)
    BY <1>4 DEF Unsupported, next
  <2> QED
    BY <1>1, <1>2, <1>3, <1>4, <2>1, MarkedFits, CallFits
<1>5. CASE ~Stored
  <2> DEFINE r == [state |-> "available", path |-> work.entry.path,
                   eligible |-> FALSE, current |-> NoProjection, shelf |-> {}]
  <2>1. Call(r, next)
    BY <1>5 DEF Unsupported, next
  <2>2. ASSUME doc[work.id].projection # NoProjection
        PROVE  doc[work.id].rev \notin Unreadable /\ doc[work.id].rev < file[work.id].bytes
    <3>1. doc[work.id].known /\ doc[work.id].rev \in Nat /\ file[work.id].bytes \in Nat /\ work.bytes \in Nat
      BY <1>1, Numbers
    <3>2. doc[work.id].rev \notin Unreadable /\ MayPurge
      BY <1>1, <1>5, <2>2, <3>1 DEF RecordFits, Stored
    <3>3. work.bytes \in Unreadable
      BY <1>1, <3>2 DEF Steady, KnownFormat
    <3>4. doc[work.id].rev <= work.bytes /\ work.bytes <= file[work.id].bytes
      BY <1>1 DEF FaithInv, WorkRemembers, WorkFits
    <3> QED
      BY <3>1, <3>2, <3>3, <3>4
  <2>3. r.state = "available" /\ r.path = work.entry.path /\ ~r.eligible /\ r.current = NoProjection
    OBVIOUS
  <2> HIDE DEF r
  <2>4. RecordFits(work.id, r)
    BY <2>2, <2>3 DEF RecordFits
  <2> QED
    BY <1>1, <1>2, <1>3, <2>1, <2>3, <2>4, CallFits
<1> QED
  BY <1>4, <1>5

\* The capture finds the file no older than the row, and as it was seen if
\* its stamp is the same.
LEMMA CaptureFits ==
    ASSUME SyncInv, FaithInv, work \in Works, Capture PROVE FaithInv'
<1>1. /\ UNCHANGED <<file, doc, queue, retired, remote>>
      /\ work.id \in Inodes /\ work.pc = "start" /\ Started(work)
      /\ ~work.was.missing
  BY Numbers DEF Capture, Local, Deferred, diskVars, tableVars, Works, Started, FaithInv, WorkFits
<1>2. RecordFits(work.id, remote'[work.id])
  BY <1>1 DEF FaithInv
<1>3. CASE work' = Idle
  BY <1>1, <1>2, <1>3, IdleFits, LockedStep
<1>4. ASSUME NEW b, b = file[work.id].bytes, work' = [work EXCEPT !.bytes = b, !.pc = NextStep(b)]
      PROVE  FaithInv'
  <2>1. /\ work'.pc = NextStep(b) /\ work'.bytes = b /\ work'.id = work.id
        /\ work'.entry = work.entry /\ work'.was = work.was
    BY <1>4 DEF Works
  <2>2. NextStep(b) \in {"reuse", "unsupported", "mark", "analyse"}
    BY DEF NextStep
  <2>3. /\ NextStep(b) = "reuse" => b = work.was.rev /\ work.was.projection # NoProjection
        /\ NextStep(b) = "unsupported" => ~KnownFormat
    BY DEF NextStep
  <2>4. work.was.rev <= b
    BY <1>1, <1>4, Numbers DEF FaithInv, WorkRemembers, TableFollows
  <2>5. WorkRemembers(work)' /\ queue'[work'.id] # NoEntry
    BY <1>1, <2>1 DEF FaithInv, WorkRemembers, WorkFits, Started, Idle
  <2>6. WorkFits(work)'
    <3>1. /\ work'.was.stamp <= file'[work'.id].stamp
          /\ work'.entry.path = work'.was.local
          /\ work'.entry.event = "deleted" <=> work'.was.missing
      BY <1>1, <2>1 DEF FaithInv, WorkFits
    <3>2. /\ ~work'.was.missing
          /\ work'.was.rev <= work'.bytes /\ work'.bytes <= file'[work'.id].bytes
          /\ work'.bytes = file'[work'.id].bytes
      BY <1>1, <1>4, <2>1, <2>4, Numbers
    <3> QED
      BY <2>5, <3>1, <3>2 DEF WorkFits
  <2>7. OutcomeFits(work, Now)'
    BY <2>1, <2>2, <2>3 DEF OutcomeFits, KnownFormat
  <2> QED
    BY <1>1, <1>2, <2>5, <2>6, <2>7, LockedStep
<1> QED
  BY <1>3, <1>4 DEF Capture, Deferred

LEMMA AnalysisFits ==
    ASSUME SyncInv, FaithInv, work \in Works, AnalysisRefused \/ AnalysisFails PROVE FaithInv'
<1>1. UNCHANGED <<file, doc, queue, retired, remote>> /\ work.id \in Inodes /\ Captured(work)
  BY DEF AnalysisRefused, AnalysisFails, Local, Deferred, diskVars, tableVars, Works, Captured
<1>2. RecordFits(work.id, remote'[work.id])
  BY <1>1 DEF FaithInv
<1>3. CASE work' = Goto("unsupported") /\ work.bytes \in Unreadable
  <2>1. /\ Proceeds(work') /\ work' \in Works /\ work'.pc = "unsupported"
        /\ work'.bytes = work.bytes
    BY <1>3, GotoProceeds DEF Proceeds
  <2>2. WorkRemembers(work)' /\ WorkFits(work)'
    BY <1>1, <2>1, ProceedFits
  <2>3. OutcomeFits(work, Now)'
    BY <1>3, <2>1 DEF OutcomeFits
  <2> QED
    BY <1>1, <1>2, <2>2, <2>3, LockedStep
<1>4. CASE work' = Idle
  BY <1>1, <1>2, <1>4, IdleFits, LockedStep
<1> QED
  BY <1>3, <1>4 DEF AnalysisRefused, AnalysisFails, Deferred

LEMMA ClaimedFits ==
    ASSUME SyncInv, FaithInv, NEW i \in Inodes, NEW by \in {"loop", "job"}, queue[i] # NoEntry,
           work' = Claimed(i, by), UNCHANGED <<file, doc, queue, retired, remote>>
    PROVE  FaithInv'
<1>1. /\ work'.pc = "start" /\ work'.id = i /\ work'.was = doc[i] /\ work'.entry = queue[i]
      /\ doc[i].known
  BY ClaimedType DEF Claimed
<1>2. WorkRemembers(work)' /\ OutcomeFits(work, Now)'
  BY <1>1 DEF WorkRemembers, OutcomeFits
<1>3. WorkFits(work)'
  BY <1>1 DEF FaithInv, TableFollows, QueueTells, WorkFits, Captured
<1>4. work.id \in Inodes => RecordFits(work.id, remote'[work.id])
  BY DEF FaithInv
<1> QED
  BY <1>2, <1>3, <1>4, LockedStep

LEMMA FreedFits ==
    ASSUME SyncInv, FaithInv, UNCHANGED <<file, doc, queue, retired, remote>>,
           work' = Idle \/ UNCHANGED work
    PROVE  FaithInv'
<1>1. work.id \in Inodes => RecordFits(work.id, remote'[work.id])
  BY DEF FaithInv
<1>2. WorkRemembers(work)' /\ WorkFits(work)' /\ OutcomeFits(work, Now)'
  <2>1. CASE work' = Idle
    BY <2>1, IdleFits
  <2>2. CASE UNCHANGED work
    BY <2>2 DEF FaithInv, WorkRemembers, WorkFits, OutcomeFits, Now
  <2> QED
    BY <2>1, <2>2
<1> QED
  BY <1>1, <1>2, LockedStep

LEMMA ClaimFits ==
    ASSUME SyncInv, FaithInv, ClaimRefresh \/ \E i \in Inodes : ClaimChange(i)
    PROVE  FaithInv'
<1>1. UNCHANGED <<file, doc, queue, retired, remote>>
  BY DEF ClaimRefresh, ClaimChange, diskVars, tableVars
<1>2. CASE ClaimRefresh
  <2>1. work.id \in Inodes /\ queue[work.id] # NoEntry /\ work' = Claimed(work.id, "job")
    BY <1>2, WorkKinds DEF ClaimRefresh, SyncInv, WorkIsSound, Idle
  <2> QED
    BY <1>1, <2>1, ClaimedFits
<1>3. ASSUME NEW i \in Inodes, ClaimChange(i) PROVE FaithInv'
  <2>1. work' = Idle \/ (queue[i] # NoEntry /\ work' = Claimed(i, "loop"))
    BY <1>3 DEF ClaimChange
  <2> QED
    BY <1>1, <2>1, ClaimedFits, FreedFits
<1> QED
  BY <1>2, <1>3

LEMMA RetireFits ==
    ASSUME SyncInv, FaithInv, Retire PROVE FaithInv'
<1>1. /\ UNCHANGED <<file, doc, remote, work>> /\ work = Idle /\ retired'
      /\ \A i \in Inodes : queue'[i] = NoEntry
  BY DEF Retire, diskVars
<1>2. TableFollows' /\ QueueTells' /\ SettledTells'
  BY <1>1 DEF FaithInv, TableFollows, QueueTells, SettledTells, Born
<1>3. ASSUME NEW i \in Inodes PROVE RecordFits(i, remote[i])'
  BY <1>1 DEF FaithInv, RecordFits
<1>4. WorkRemembers(work)' /\ WorkFits(work)' /\ OutcomeFits(work, Now)'
  BY <1>1, IdleFits
<1> QED
  BY <1>2, <1>3, <1>4 DEF FaithInv

\* Retention deletes only what is not shown.
LEMMA PurgeFits ==
    ASSUME SyncInv, FaithInv, NEW i \in Inodes, RemotePurge(i) PROVE FaithInv'
<1>1. /\ UNCHANGED <<file, doc, queue, work, retired>> /\ MayPurge
      /\ remote[i].state = "unavailable"
      /\ \A k \in Inodes : remote'[k] = IF k = i THEN NoRecord ELSE remote[k]
  BY DEF RemotePurge, diskVars, tableVars, SyncInv, TypeOK
<1>2. TableFollows' /\ QueueTells'
  BY <1>1 DEF FaithInv, TableFollows, QueueTells, Born
<1>3. SettledTells'
  <2> SUFFICES ASSUME ~retired, NEW k \in Inodes, Settled(k)'
               PROVE  /\ ~doc'[k].missing /\ doc'[k].stamp = file'[k].stamp => ShownAsIs(k)'
                      /\ doc'[k].missing => remote'[k].state \in {"absent", "unavailable"}
    BY <1>1 DEF SettledTells
  <2>1. /\ ~doc[k].missing /\ doc[k].stamp = file[k].stamp => ShownAsIs(k)
        /\ doc[k].missing => remote[k].state \in {"absent", "unavailable"}
    BY <1>1 DEF FaithInv, SettledTells, Settled
  <2>2. CASE k = i
    BY <1>1, <2>1, <2>2 DEF ShownAsIs, Shows, NoRecord
  <2>3. CASE k # i
    BY <1>1, <2>1, <2>3 DEF ShownAsIs
  <2> QED
    BY <2>2, <2>3
<1>4. ASSUME NEW k \in Inodes PROVE RecordFits(k, remote[k])'
  <2>1. CASE k = i
    <3>1. RecordFits(k, remote[k])
      BY DEF FaithInv
    <3> QED
      BY <1>1, <2>1, <3>1 DEF RecordFits, NoRecord
  <2>2. CASE k # i
    BY <1>1, <2>2 DEF FaithInv, RecordFits
  <2> QED
    BY <2>1, <2>2
<1>5. WorkRemembers(work)' /\ WorkFits(work)'
  BY <1>1 DEF FaithInv, WorkRemembers, WorkFits
<1>6. OutcomeFits(work, Now)'
  <2>1. CASE ~Started(work)
    BY <1>1, <2>1 DEF OutcomeFits, Started
  <2>2. CASE Started(work) /\ work.id # i
    BY <1>1, <2>2, Numbers DEF FaithInv, OutcomeFits, Now
  <2>3. CASE work.id = i
    BY <1>1, <2>3 DEF FaithInv, OutcomeFits, Now, Shows, NoRecord
  <2> QED
    BY <2>1, <2>2, <2>3
<1> QED
  BY <1>2, <1>3, <1>4, <1>5, <1>6 DEF FaithInv

\* complete_change clears the entry only of the row that the change started from.
LEMMA CompleteFits ==
    ASSUME SyncInv, FaithInv, work \in Works, Complete PROVE FaithInv'
<1>1. /\ UNCHANGED <<file, remote, retired>> /\ work' = Idle /\ work.pc = "finish"
      /\ Started(work) /\ work # Idle /\ work.id \in Inodes /\ doc[work.id].known
      /\ Captured(work) <=> work.outcome # "missing"
  BY Numbers DEF Complete, Local, diskVars, Started, Captured, Idle
<1>2. work.outcome \in {"missing", "reused", "uploaded", "unsupported"}
  BY DEF Complete, SyncInv, WorkIsSound, Works
<1>3. PICK d : /\ doc' = [doc EXCEPT ![work.id] = d]
               /\ d.known /\ d.path = doc[work.id].path /\ d.local = doc[work.id].local
               /\ d.stamp = doc[work.id].stamp /\ d.missing = doc[work.id].missing
               /\ work.outcome = "missing" => d = doc[work.id]
               /\ work.outcome # "missing" => d.rev = work.bytes
               /\ work.outcome = "reused" => d.projection = work.was.projection
               /\ work.outcome = "uploaded" => d.projection = Projection
               /\ work.outcome = "unsupported" => d.projection = NoProjection
  <2>1. doc[work.id] \in Docs
    BY <1>1, KnownDoc DEF SyncInv
  <2> DEFINE updated(q) == [doc[work.id] EXCEPT !.rev = work.bytes, !.projection = q, !.forgot = Forgot]
  <2>2. \A q : /\ updated(q).known /\ updated(q).path = doc[work.id].path
               /\ updated(q).local = doc[work.id].local /\ updated(q).stamp = doc[work.id].stamp
               /\ updated(q).missing = doc[work.id].missing
               /\ updated(q).rev = work.bytes /\ updated(q).projection = q
    BY <1>1, <2>1 DEF Docs
  <2>3. CASE work.outcome = "missing"
    BY <1>1, <2>3 DEF Complete
  <2>4. CASE work.outcome # "missing"
    <3>1. /\ work.outcome = "reused" => Recalled = work.was.projection
          /\ work.outcome = "uploaded" => Recalled = Projection
          /\ work.outcome = "unsupported" => Recalled = NoProjection
      BY DEF Recalled
    <3>2. doc' = [doc EXCEPT ![work.id] = updated(Recalled)]
      BY <2>4 DEF Complete
    <3> HIDE DEF updated
    <3> QED
      BY <2>2, <2>4, <3>1, <3>2
  <2> QED
    BY <2>3, <2>4
<1>4. \A k \in Inodes : doc'[k] = IF k = work.id THEN d ELSE doc[k]
  BY <1>1, <1>3 DEF SyncInv, TypeOK
<1>5. /\ \A k \in Inodes : queue'[k] # NoEntry => queue'[k] = queue[k]
      /\ \A k \in Inodes : k # work.id => queue'[k] = queue[k]
      /\ queue'[work.id] = NoEntry => SameChange
  <2>1. queue[work.id] # NoEntry
    BY <1>1 DEF FaithInv, WorkFits
  <2>2. queue' = IF SameChange THEN [queue EXCEPT ![work.id] = NoEntry] ELSE queue
    BY DEF Complete
  <2> QED
    BY <1>1, <2>1, <2>2 DEF SyncInv, TypeOK
<1>6. /\ work.outcome = "reused" => work.bytes = work.was.rev
      /\ work.was.rev = doc[work.id].rev /\ work.was.projection = doc[work.id].projection
      /\ work.outcome # "missing" =>
           /\ ~work.was.missing /\ work.bytes <= file[work.id].bytes
           /\ work.was.stamp = file[work.id].stamp =>
                work.bytes = file[work.id].bytes /\ Shows(Now, work.entry.path, work.bytes)
      /\ work.outcome = "missing" => work.was.missing /\ Now.state \in {"absent", "unavailable"}
      /\ work.entry.path = work.was.local
  BY <1>1 DEF FaithInv, WorkRemembers, WorkFits, OutcomeFits
<1>7. TableFollows' /\ QueueTells'
  <2>1. \A k \in Inodes :
          /\ doc'[k].known = doc[k].known \/ k = work.id
          /\ doc'[k].path = doc[k].path /\ doc'[k].local = doc[k].local
          /\ doc'[k].stamp = doc[k].stamp /\ doc'[k].missing = doc[k].missing
    BY <1>3, <1>4
  <2>2. QueueTells'
    BY <1>5, <2>1 DEF FaithInv, QueueTells
  <2>3. ASSUME NEW k \in Inodes, doc'[k].known PROVE doc'[k].rev <= file[k].bytes /\ doc[k].known
    BY <1>1, <1>3, <1>4, <1>6, <2>3 DEF FaithInv, TableFollows
  <2>4. TableFollows'
    BY <1>1, <2>1, <2>3 DEF FaithInv, TableFollows, Born
  <2> QED
    BY <2>2, <2>4
<1>8. ASSUME NEW k \in Inodes, k = work.id PROVE RecordFits(k, remote[k])'
  <2>0. doc'[k] = d /\ remote'[k] = remote[k] /\ remote[k] = Now /\ file'[k] = file[k]
    BY <1>1, <1>4, <1>8 DEF Now
  <2>1. RecordFits(k, Now) /\ doc[k].known
    BY <1>1, <1>8, <2>0 DEF FaithInv
  <2>2. CASE work.outcome \in {"missing", "reused"}
    <3>1. d.rev = doc[work.id].rev /\ d.projection = doc[work.id].projection
      BY <1>3, <1>6, <2>2
    <3> QED
      BY <1>8, <2>0, <2>1, <3>1 DEF RecordFits
  <2>3. CASE work.outcome = "unsupported"
    BY <1>3, <2>0, <2>1, <2>3 DEF RecordFits
  <2>4. CASE work.outcome = "uploaded"
    <3>1. /\ work.bytes \notin Unreadable /\ Now.state # "absent" /\ d.rev = work.bytes
          /\ Now.current = [bytes |-> work.bytes, format |-> Format[work.entry.path]]
          /\ work.bytes \in Nat
      BY <1>1, <1>3, <2>4, Numbers DEF FaithInv, OutcomeFits, Shows
    <3>2. Now.current # NoProjection /\ d.rev <= Now.current.bytes
      BY <3>1 DEF NoProjection
    <3> QED
      BY <2>0, <2>1, <3>1, <3>2 DEF RecordFits
  <2> QED
    BY <1>2, <2>2, <2>3, <2>4
<1>9. ASSUME NEW k \in Inodes PROVE RecordFits(k, remote[k])'
  <2>1. CASE k = work.id
    BY <1>8, <2>1
  <2>2. CASE k # work.id
    BY <1>1, <1>4, <2>2 DEF FaithInv, RecordFits
  <2> QED
    BY <2>1, <2>2
<1>10. SettledTells'
  <2> SUFFICES ASSUME ~retired, NEW k \in Inodes, Settled(k)'
               PROVE  /\ ~doc'[k].missing /\ doc'[k].stamp = file'[k].stamp => ShownAsIs(k)'
                      /\ doc'[k].missing => remote'[k].state \in {"absent", "unavailable"}
    BY <1>1 DEF SettledTells
  <2>1. CASE k # work.id
    <3>1. Settled(k) /\ doc'[k] = doc[k]
      BY <1>4, <1>5, <2>1 DEF Settled
    <3> QED
      BY <1>1, <3>1 DEF FaithInv, SettledTells, ShownAsIs
  <2>2. CASE k = work.id
    <3>1. /\ doc[k].local = work.was.local /\ doc[k].stamp = work.was.stamp
          /\ doc[k].missing = work.was.missing
      BY <1>5, <2>2 DEF Settled, SameChange
    <3>2. /\ doc'[k].path = doc[k].path /\ doc'[k].stamp = doc[k].stamp
          /\ doc'[k].missing = doc[k].missing
      BY <1>3, <1>4, <2>2
    <3>3. ASSUME ~doc[k].missing, doc[k].stamp = file[k].stamp PROVE ShownAsIs(k)'
      <4>1. doc[k].path = work.entry.path
        BY <1>1, <1>6, <2>2, <3>1, <3>3, PathsAssumption
        DEF FaithInv, TableFollows, SyncInv, TableIsSound
      <4>2. Shows(remote[k], work.entry.path, file[k].bytes)
        BY <1>1, <1>6, <2>2, <3>1, <3>3 DEF Now
      <4> QED
        BY <1>1, <3>2, <4>1, <4>2 DEF ShownAsIs
    <3>4. doc[k].missing => remote[k].state \in {"absent", "unavailable"}
      BY <1>6, <2>2, <3>1 DEF Now
    <3> QED
      BY <1>1, <3>2, <3>3, <3>4
  <2> QED
    BY <2>1, <2>2
<1>11. WorkRemembers(work)' /\ WorkFits(work)' /\ OutcomeFits(work, Now)'
  BY <1>1, IdleFits
<1> QED
  BY <1>7, <1>9, <1>10, <1>11 DEF FaithInv

LEMMA FaithInit == Init => FaithInv
  <1> SUFFICES ASSUME Init PROVE FaithInv
    OBVIOUS
  <1>1. TableFollows /\ QueueTells /\ SettledTells
    BY DEF Init, TableFollows, QueueTells, SettledTells, Settled, NoDoc
  <1>2. \A i \in Inodes : RecordFits(i, remote[i])
    BY DEF Init, RecordFits, NoDoc, NoRecord
  <1>3. WorkRemembers(work) /\ WorkFits(work) /\ OutcomeFits(work, Now)
    BY DEF Init, WorkRemembers, WorkFits, OutcomeFits, Started, Captured, Idle
  <1> QED
    BY <1>1, <1>2, <1>3 DEF FaithInv

LEMMA FaithInductive ==
    ASSUME Steady, SyncInv, SyncInv', FaithInv, [Next]_vars PROVE FaithInv'
<1>1. CASE FileChange
  <2>1. UNCHANGED <<doc, queue, remote, work, retired>>
    BY <1>1 DEF FileChange, CreateFile, WriteFile, RenameFile, RemoveFile, RestoreFile, Edit,
                FileStep, tableVars
  <2> QED
    BY <1>1, <2>1, FilesGrow, GrowthFits DEF FaithInv
<1>2. CASE WalkStart \/ WalkFails \/ DueChanges \/ ProcessEnd
  BY <1>2, FreedFits DEF WalkStart, WalkFails, DueChanges, ProcessEnd, diskVars, tableVars
<1>3. ASSUME NEW p \in Paths, WalkFile(p) PROVE FaithInv'
  <2>1. UNCHANGED <<file, remote, work, retired>>
    BY <1>3 DEF WalkFile, diskVars
  <2>2. CASE UNCHANGED tableVars
    BY <2>1, <2>2, FreedFits DEF tableVars
  <2>3. CASE tree[p] # NoFile /\ ObserveFile(tree[p], p)
    <3>1. tree[p] \in Inodes
      BY <2>3 DEF SyncInv, TypeOK
    <3> QED
      BY <2>1, <2>3, <3>1, ObserveMoves, TableFits
  <2> QED
    BY <1>3, <2>2, <2>3 DEF WalkFile
<1>4. CASE WalkEnd
  <2>1. UNCHANGED <<file, remote, work, retired>>
    BY <1>4 DEF WalkEnd, diskVars
  <2> QED
    BY <1>4, <2>1, MissedMoves, TableFits
<1>5. ASSUME NEW i \in Inodes, RequestRefresh(i) PROVE FaithInv'
  <2>1. /\ UNCHANGED <<file, remote, retired>> /\ work = Idle
        /\ work' = [pc |-> "claim", by |-> "job", id |-> i]
    BY <1>5 DEF RequestRefresh, diskVars
  <2> QED
    BY <1>5, <2>1, RequestMoves, TableFits
<1>6. CASE \E i \in Inodes : ClaimChange(i) \/ RemotePurge(i)
  BY <1>6, ClaimFits, PurgeFits
<1>7. CASE ProcessStep
  <2>1. CASE ClaimRefresh
    BY <2>1, ClaimFits
  <2>2. CASE ~ClaimRefresh
    <3>1. work \in Works
      BY <1>7, <2>2, WorkKinds
      DEF SyncInv, ProcessStep, ProcessDeleted, Capture, Reuse, Mark, Upload,
          AnalysisRefused, AnalysisFails, Prune, Unsupported, Complete
    <3> QED
      BY <1>7, <2>2, <3>1, DeletedFits, CaptureFits, ReuseFits, MarkFits, UploadFits,
         AnalysisFits, PruneFits, UnsupportedFits, CompleteFits
      DEF ProcessStep
  <2> QED
    BY <2>1, <2>2
<1>8. CASE Retire
  BY <1>8, RetireFits
<1>9. CASE Crash \/ UNCHANGED vars
  BY <1>9, FreedFits DEF Crash, vars, diskVars, tableVars
<1> QED
  BY <1>1, <1>2, <1>3, <1>4, <1>5, <1>6, <1>7, <1>8, <1>9 DEF Next, WalkStep, LoopStep

\* The table, its queue, the change in work and the records tell one story about
\* the content of each file.
THEOREM FaithInvariant == ASSUME Steady PROVE Spec => [](SyncInv /\ FaithInv)
<1>1. SyncInv /\ FaithInv /\ [Next]_vars => (SyncInv /\ FaithInv)'
  BY SyncInductive, FaithInductive
<1> QED
  BY <1>1, SyncInit, FaithInit, PTL DEF Spec

\* For an owner whose files do not revert, in spite of renames, swaps, writes
\* during an upload, lost requests and crashes: a document with nothing pending
\* and seen as it is, is shown as it is, and a missing one is not shown.
THEOREM ShownFaithfully == ASSUME Steady PROVE Spec => []Faithful
<1>1. SyncInv /\ FaithInv => Faithful
  <2> SUFFICES ASSUME SyncInv, FaithInv, ~retired, NEW i \in Inodes, Settled(i)
               PROVE  /\ SeenAsIs(i) => ShownAsIs(i)
                      /\ doc[i].missing => remote[i].state \in {"absent", "unavailable"}
    BY DEF Faithful
  <2> QED
    BY DEF FaithInv, SettledTells, SeenAsIs
<1> QED
  BY <1>1, FaithInvariant, PTL

-----------------------------------------------------------------------------
(* What is stored: NothingLeftBehind *)

\* Rows keep what they remember of the shard.
RowsKeep ==
    \A i \in Inodes : doc[i].known =>
      /\ doc'[i].known /\ doc'[i].rev = doc[i].rev
      /\ doc'[i].projection = doc[i].projection /\ doc'[i].forgot = doc[i].forgot

LEMMA ShelfFrame ==
    ASSUME SyncInv, ShelfInv, RowsKeep, UNCHANGED <<remote, work, faults>> PROVE ShelfInv'
<1>1. WorkRemembers(work)'
  <2>1. CASE ~Started(work)
    BY <2>1 DEF WorkRemembers, Started
  <2>2. CASE Started(work)
    BY <2>2, Numbers DEF ShelfInv, WorkRemembers, RowsKeep, Started
  <2> QED
    BY <2>1, <2>2
<1>2. ASSUME NEW i \in Inodes PROVE ShelfFits(work, i)'
  BY DEF ShelfInv, ShelfFits, Wanted, Made, RowsKeep
<1> QED
  BY <1>1, <1>2 DEF ShelfInv

\* After a failure nothing is promised.
LEMMA FailureFits ==
    ASSUME faults' # 0, work' = Idle PROVE ShelfInv'
  BY DEF ShelfInv, ShelfFits, WorkRemembers, Started, Idle

LEMMA FaultCounts ==
    ASSUME SyncInv, NEW kind, Fault(kind) PROVE faults' # 0
  BY DEF Fault, SyncInv, TypeOK

\* A change that starts, or ends before it did anything, wants nothing new.
LEMMA StartShelf ==
    ASSUME SyncInv, ShelfInv, UNCHANGED <<doc, remote, faults>>,
           work.pc \in {"idle", "claim", "start"},
           WorkRemembers(work)', work'.pc \notin {"prune", "finish"}
    PROVE  ShelfInv'
<1>1. ASSUME NEW i \in Inodes PROVE ShelfFits(work, i)'
  BY DEF ShelfInv, ShelfFits, Wanted, Made
<1> QED
  BY <1>1 DEF ShelfInv

LEMMA ClaimedShelf ==
    ASSUME SyncInv, ShelfInv, UNCHANGED <<doc, remote, faults>>, work.pc \in {"idle", "claim"},
           NEW i \in Inodes, NEW by, work' = Claimed(i, by)
    PROVE  ShelfInv'
<1>1. work'.pc = "start" /\ work'.id = i /\ work'.was = doc[i]
  BY DEF Claimed
<1>2. WorkRemembers(work)'
  BY <1>1 DEF WorkRemembers
<1> QED
  BY <1>1, <1>2, StartShelf

LEMMA CaptureShelf ==
    ASSUME SyncInv, ShelfInv, work \in Works, Capture PROVE ShelfInv'
<1>1. UNCHANGED <<doc, remote, faults>> /\ work.pc = "start"
  BY DEF Capture, Local, Deferred, tableVars
<1>2. CASE work' = Idle
  <2>1. WorkRemembers(work)' /\ work'.pc = "idle"
    BY <1>2 DEF WorkRemembers, Started, Idle
  <2> QED
    BY <1>1, <2>1, StartShelf
<1>3. ASSUME NEW b, work' = [work EXCEPT !.bytes = b, !.pc = NextStep(b)] PROVE ShelfInv'
  <2>1. work'.pc = NextStep(b) /\ work'.id = work.id /\ work'.was = work.was
    BY <1>3 DEF Works
  <2>2. NextStep(b) \in {"reuse", "mark", "analyse", "unsupported"}
    BY DEF NextStep
  <2>3. WorkRemembers(work)'
    BY <1>1, <2>1 DEF ShelfInv, WorkRemembers, Started
  <2> QED
    BY <1>1, <2>1, <2>2, <2>3, StartShelf
<1> QED
  BY <1>2, <1>3 DEF Capture, Deferred

LEMMA CallShelf ==
    ASSUME SyncInv, ShelfInv, work \in Works, NEW r, NEW next, Proceeds(next), Call(r, next),
           faults = 0 /\ r.state # "absent" /\ ~doc[work.id].forgot =>
             /\ r.shelf \subseteq Wanted(next, work.id)
             /\ next.pc = "prune" => r.current = Made(next) /\ next.was.projection # Made(next)
    PROVE  ShelfInv'
<1>1. work.id \in Inodes /\ UNCHANGED doc /\ Started(work) /\ doc[work.id].known
  BY Numbers DEF Call, tableVars, Deferred, Works, Started
<1>2. CASE work' = next /\ remote' = [remote EXCEPT ![work.id] = r] /\ UNCHANGED faults
  <2>1. remote'[work.id] = r /\ \A i \in Inodes : i # work.id => remote'[i] = remote[i]
    BY <1>1, <1>2 DEF SyncInv, TypeOK
  <2>2. WorkRemembers(work)'
    BY <1>1, <1>2 DEF ShelfInv, WorkRemembers, Proceeds
  <2>3. ASSUME NEW i \in Inodes PROVE ShelfFits(work, i)'
    <3>1. CASE i = work.id
      BY <1>1, <1>2, <2>1, <3>1 DEF ShelfFits, Wanted, Made, Proceeds
    <3>2. CASE i # work.id
      <4>1. ShelfFits(work, i) /\ work'.id # i
        BY <1>2, <3>2 DEF ShelfInv, Proceeds
      <4> QED
        BY <1>1, <1>2, <2>1, <3>2, <4>1 DEF ShelfFits, Wanted, Made
    <3> QED
      BY <3>1, <3>2
  <2> QED
    BY <1>2, <2>2, <2>3 DEF ShelfInv
<1>3. CASE work' = Idle /\ faults' # 0
  BY <1>3, FailureFits
<1> QED
  BY <1>2, <1>3, FaultCounts DEF Call, Deferred

\* The shelf of the document in work, before anything was added to it.
LEMMA ShelfBefore ==
    ASSUME ShelfInv, work \in Works, faults = 0, Stored, ~doc[work.id].forgot
    PROVE  /\ Now.shelf \subseteq Wanted(work, work.id)
           /\ work.pc = "prune" => Now.current = Made(work) /\ work.was.projection # Made(work)
           /\ work.was.projection = doc[work.id].projection
  BY DEF ShelfInv, ShelfFits, WorkRemembers, Started, Works, Stored, Now

\* A request that leaves the shelf alone.
LEMMA SameShelf ==
    ASSUME SyncInv, ShelfInv, work \in Works, work.pc \notin {"prune", "finish"},
           NEW r, NEW next, Proceeds(next), Call(r, next),
           next.pc # "prune", next.pc = "finish" => next.outcome # "uploaded",
           r.state # "absent" => r.shelf = IF Stored THEN Now.shelf ELSE {}
    PROVE  ShelfInv'
<1>1. ASSUME faults = 0, r.state # "absent", ~doc[work.id].forgot
      PROVE  r.shelf \subseteq Wanted(next, work.id)
  BY <1>1, ShelfBefore DEF Wanted
<1> QED
  BY <1>1, CallShelf

LEMMA MarkingShelf ==
    ASSUME SyncInv, ShelfInv, work \in Works, ProcessDeleted \/ Reuse \/ Mark \/ Unsupported
    PROVE  ShelfInv'
<1>1. CASE ProcessDeleted
  <2>1. /\ Proceeds(Finish("missing")) /\ Finish("missing").pc = "finish"
        /\ Finish("missing").outcome = "missing"
    BY FinishProceeds
  <2>2. CASE Stored
    <3> DEFINE r == [Now EXCEPT !.state = "unavailable", !.path = work.entry.path]
    <3>1. r.shelf = Now.shelf
      BY <2>2, MarkedRecords
    <3>2. Call(r, Finish("missing"))
      BY <1>1, <2>2 DEF ProcessDeleted
    <3> HIDE DEF r
    <3> QED
      BY <1>1, <2>1, <2>2, <3>1, <3>2, SameShelf DEF ProcessDeleted
  <2>3. CASE ~Stored
    BY <1>1, <2>1, <2>3, SameShelf DEF ProcessDeleted, Stored
  <2> QED
    BY <2>2, <2>3
<1>2. CASE Reuse
  <2>1. CASE Stored
    BY <1>2, <2>1, FinishProceeds, MarkedRecords, SameShelf DEF Reuse
  <2>2. CASE ~Stored
    BY <1>2, <2>2, GotoProceeds, SameShelf DEF Reuse, Stored
  <2> QED
    BY <2>1, <2>2
<1>3. CASE Mark
  <2>1. CASE Stored
    BY <1>3, <2>1, GotoProceeds, MarkedRecords, SameShelf DEF Mark
  <2>2. CASE ~Stored
    BY <1>3, <2>2, GotoProceeds, SameShelf DEF Mark, Stored
  <2> QED
    BY <2>1, <2>2
<1>4. CASE Unsupported
  <2>1. /\ Proceeds(Finish("unsupported")) /\ Finish("unsupported").pc = "finish"
        /\ Finish("unsupported").outcome = "unsupported"
    BY FinishProceeds
  <2>2. CASE Stored
    BY <1>4, <2>1, <2>2, MarkedRecords, SameShelf DEF Unsupported
  <2>3. CASE ~Stored
    <3> DEFINE r == [state |-> "available", path |-> work.entry.path, eligible |-> FALSE,
                     current |-> NoProjection, shelf |-> {}]
    <3>1. Call(r, Finish("unsupported")) /\ r.shelf = {}
      BY <1>4, <2>3 DEF Unsupported
    <3> HIDE DEF r
    <3> QED
      BY <1>4, <2>1, <2>3, <3>1, SameShelf DEF Unsupported
  <2> QED
    BY <2>2, <2>3
<1> QED
  BY <1>1, <1>2, <1>3, <1>4

\* The upload adds its projection; the superseded one is pruned before the
\* change ends.
LEMMA UploadShelf ==
    ASSUME SyncInv, ShelfInv, work \in Works, Upload PROVE ShelfInv'
<1>1. work.pc = "analyse" /\ Committed.current = Projection
  BY DEF Upload, Committed
<1>2. Committed.shelf = (IF Stored THEN Now.shelf ELSE {}) \cup {Projection}
  BY DEF Committed
<1>3. faults = 0 /\ ~doc[work.id].forgot => Committed.shelf \subseteq {work.was.projection, Projection}
  BY <1>1, <1>2, ShelfBefore DEF Wanted
<1>4. Stored => Now.shelf \subseteq Projections
  BY StoredType DEF Records
<1>5. NoProjection \notin Projections
  BY DEF NoProjection, Projections
<1>6. CASE Superseded
  <2>1. /\ Proceeds(Goto("prune")) /\ Goto("prune").pc = "prune" /\ Goto("prune").id = work.id
        /\ Made(Goto("prune")) = Projection /\ Goto("prune").was = work.was
    BY GotoProceeds DEF Proceeds, Made, Projection
  <2>2. faults = 0 /\ ~doc[work.id].forgot => Committed.shelf \subseteq Wanted(Goto("prune"), work.id)
    BY <1>3, <2>1 DEF Wanted
  <2> QED
    BY <1>1, <1>6, <2>1, <2>2, CallShelf DEF Upload, Superseded
<1>7. CASE ~Superseded
  <2>1. /\ Proceeds(Finish("uploaded")) /\ Finish("uploaded").pc = "finish"
        /\ Finish("uploaded").outcome = "uploaded" /\ Finish("uploaded").id = work.id
        /\ Made(Finish("uploaded")) = Projection
    BY FinishProceeds DEF Proceeds, Made, Projection
  <2>2. faults = 0 /\ ~doc[work.id].forgot => Committed.shelf \subseteq {Projection}
    BY <1>2, <1>3, <1>4, <1>5, <1>7 DEF Superseded
  <2>3. faults = 0 /\ ~doc[work.id].forgot => Committed.shelf \subseteq Wanted(Finish("uploaded"), work.id)
    BY <2>1, <2>2 DEF Wanted
  <2> QED
    BY <1>1, <1>7, <2>1, <2>3, CallShelf DEF Upload
<1> QED
  BY <1>6, <1>7

LEMMA PruneShelf ==
    ASSUME SyncInv, ShelfInv, work \in Works, Prune PROVE ShelfInv'
<1>1. /\ work.pc = "prune" /\ Proceeds(Finish("uploaded")) /\ Finish("uploaded").pc = "finish"
      /\ Finish("uploaded").outcome = "uploaded" /\ Finish("uploaded").id = work.id
      /\ Made(Finish("uploaded")) = Made(work)
  BY FinishProceeds DEF Prune, Proceeds, Made
<1>2. Wanted(Finish("uploaded"), work.id) = {Made(work)}
  BY <1>1 DEF Wanted
<1>3. CASE ~Stored
  <2>1. Now = NoRecord
    BY <1>3, StoredType DEF Stored, Records
  <2>2. [Now EXCEPT !.shelf = @ \ {work.was.projection}] = NoRecord
    BY <2>1 DEF NoRecord
  <2>3. Call(NoRecord, Finish("uploaded"))
    BY <2>1, <2>2 DEF Prune
  <2> QED
    BY <1>1, <2>3, CallShelf DEF NoRecord
<1>4. CASE Stored
  <2>1. faults = 0 /\ ~doc[work.id].forgot =>
          /\ Now.shelf \subseteq {work.was.projection, Made(work)}
          /\ Now.current # work.was.projection
    BY <1>1, <1>4, ShelfBefore DEF Wanted
  <2>2. CASE Now.current = work.was.projection
    BY <1>1, <2>1, <2>2, CallShelf DEF Prune
  <2>3. CASE Now.current # work.was.projection
    <3> DEFINE r == [Now EXCEPT !.shelf = @ \ {work.was.projection}]
    <3>1. r.shelf = Now.shelf \ {work.was.projection}
      BY <1>4, StoredType DEF Records
    <3>2. Call(r, Finish("uploaded"))
      BY <2>3 DEF Prune
    <3> HIDE DEF r
    <3>3. faults = 0 /\ ~doc[work.id].forgot => r.shelf \subseteq Wanted(Finish("uploaded"), work.id)
      BY <1>2, <2>1, <3>1
    <3> QED
      BY <1>1, <3>2, <3>3, CallShelf
  <2> QED
    BY <2>2, <2>3
<1> QED
  BY <1>3, <1>4

LEMMA RefusedShelf ==
    ASSUME SyncInv, ShelfInv, work \in Works, AnalysisRefused PROVE ShelfInv'
<1>1. /\ UNCHANGED <<doc, remote, faults>> /\ work.pc = "analyse" /\ work.id \in Inodes
      /\ work'.pc = "unsupported" /\ work'.id = work.id /\ work'.was = work.was
  BY DEF AnalysisRefused, Local, tableVars, Goto, Works
<1>2. WorkRemembers(work)'
  BY <1>1 DEF ShelfInv, WorkRemembers, Started
<1>3. ASSUME NEW i \in Inodes PROVE ShelfFits(work, i)'
  BY <1>1 DEF ShelfInv, ShelfFits, Wanted, Made
<1> QED
  BY <1>2, <1>3 DEF ShelfInv

LEMMA CompleteShelf ==
    ASSUME SyncInv, ShelfInv, work \in Works, Complete PROVE ShelfInv'
<1>1. /\ UNCHANGED <<remote, faults>> /\ work' = Idle /\ work.pc = "finish" /\ Started(work)
      /\ work.id \in Inodes /\ doc[work.id] \in Docs /\ doc[work.id].known
  BY Numbers, KnownDoc DEF Complete, Local, Started, SyncInv
<1>2. work.outcome \in {"missing", "reused", "uploaded", "unsupported"}
  BY DEF Complete, SyncInv, WorkIsSound, Works
<1>3. PICK d : /\ doc' = [doc EXCEPT ![work.id] = d] /\ d.known
               /\ ~d.forgot =>
                    /\ ~doc[work.id].forgot
                    /\ d.projection = IF work.outcome = "uploaded" THEN Made(work)
                                      ELSE doc[work.id].projection
  <2> DEFINE updated(q) == [doc[work.id] EXCEPT !.rev = work.bytes, !.projection = q, !.forgot = Forgot]
  <2>1. \A q : updated(q).known /\ updated(q).projection = q /\ updated(q).forgot = Forgot
    BY <1>1 DEF Docs
  <2>2. work.was.projection = doc[work.id].projection
    BY <1>1 DEF ShelfInv, WorkRemembers
  <2>3. CASE work.outcome = "missing"
    BY <1>1, <2>3 DEF Complete
  <2>4. CASE work.outcome # "missing"
    <3>1. ~Forgot =>
            /\ ~doc[work.id].forgot
            /\ Recalled = IF work.outcome = "uploaded" THEN Made(work) ELSE doc[work.id].projection
      BY <1>2, <2>2, <2>4 DEF Forgot, Recalled, Made, Projection
    <3>2. doc' = [doc EXCEPT ![work.id] = updated(Recalled)]
      BY <2>4 DEF Complete
    <3> HIDE DEF updated
    <3> QED
      BY <2>1, <3>1, <3>2
  <2> QED
    BY <2>3, <2>4
<1>4. \A k \in Inodes : doc'[k] = IF k = work.id THEN d ELSE doc[k]
  BY <1>1, <1>3 DEF SyncInv, TypeOK
<1>5. ASSUME NEW i \in Inodes PROVE ShelfFits(work, i)'
  <2>1. ShelfFits(work, i)
    BY DEF ShelfInv
  <2>2. \A w : w = Idle => Wanted(w, i)' = {doc'[i].projection}
    BY DEF Wanted, Idle
  <2>3. CASE i = work.id
    <3>1. ~d.forgot => Wanted(work, i) = {d.projection}
      BY <1>1, <1>3, <2>3 DEF Wanted
    <3> QED
      BY <1>1, <1>3, <1>4, <2>1, <2>3, <3>1 DEF ShelfFits, Wanted, Idle
  <2>4. CASE i # work.id
    <3>1. Wanted(work, i) = {doc[i].projection}
      BY <2>4 DEF Wanted
    <3> QED
      BY <1>1, <1>4, <2>1, <2>4, <3>1 DEF ShelfFits, Wanted, Idle
  <2> QED
    BY <2>3, <2>4
<1> QED
  BY <1>1, <1>5 DEF ShelfInv, WorkRemembers, Started, Idle

\* Walks and requests keep what the rows remember.
LEMMA WalksKeep ==
    ASSUME SyncInv, WalkEnd \/ \E p \in Paths : WalkFile(p) PROVE RowsKeep
<1>1. ASSUME WalkEnd, NEW i \in Inodes, doc[i].known
      PROVE  /\ doc'[i].known /\ doc'[i].rev = doc[i].rev
             /\ doc'[i].projection = doc[i].projection /\ doc'[i].forgot = doc[i].forgot
  <2>1. doc'[i] = doc[i] \/ doc'[i] = [doc[i] EXCEPT !.missing = TRUE]
    BY <1>1 DEF WalkEnd
  <2>2. doc[i] \in Docs
    BY <1>1, KnownDoc DEF SyncInv
  <2> QED
    BY <1>1, <2>1, <2>2 DEF Docs
<1>2. ASSUME NEW k, NEW p, ObserveFile(k, p), NEW i \in Inodes, doc[i].known
      PROVE  /\ doc'[i].known /\ doc'[i].rev = doc[i].rev
             /\ doc'[i].projection = doc[i].projection /\ doc'[i].forgot = doc[i].forgot
  <2>1. doc'[i] = doc[i] \/ (i = k /\ doc'[i] = Observed(i, p)) \/ doc'[i] = Displaced(i)
    BY <1>2 DEF ObserveFile
  <2>2. doc[i] \in Docs
    BY <1>2, KnownDoc DEF SyncInv
  <2>3. /\ Displaced(i).known /\ Displaced(i).rev = doc[i].rev
        /\ Displaced(i).projection = doc[i].projection /\ Displaced(i).forgot = doc[i].forgot
    BY <1>2, <2>2 DEF Displaced, Docs
  <2>4. /\ Observed(i, p).known /\ Observed(i, p).rev = doc[i].rev
        /\ Observed(i, p).projection = doc[i].projection /\ Observed(i, p).forgot = doc[i].forgot
    BY <1>2, <2>2 DEF Observed, Docs
  <2> QED
    BY <1>2, <2>1, <2>3, <2>4
<1> QED
  BY <1>1, <1>2 DEF RowsKeep, WalkFile, tableVars

LEMMA ShelfInductive ==
    ASSUME SyncInv, ShelfInv, [Next]_vars PROVE ShelfInv'
<1>1. CASE FileChange \/ WalkStart \/ WalkFails \/ DueChanges \/ ProcessEnd \/ Retire \/ UNCHANGED vars
  <2>1. UNCHANGED <<doc, remote, work, faults>>
    BY <1>1 DEF FileChange, CreateFile, WriteFile, RenameFile, RemoveFile, RestoreFile, Edit,
                FileStep, WalkStart, WalkFails, DueChanges, ProcessEnd, Retire, vars, tableVars, bounds
  <2> QED
    BY <2>1, ShelfFrame DEF RowsKeep
<1>2. CASE WalkEnd \/ \E p \in Paths : WalkFile(p)
  <2>1. UNCHANGED <<remote, work, faults>>
    BY <1>2 DEF WalkEnd, WalkFile, bounds
  <2> QED
    BY <1>2, <2>1, WalksKeep, ShelfFrame
<1>3. ASSUME NEW i \in Inodes, RequestRefresh(i) PROVE ShelfInv'
  <2>1. /\ UNCHANGED <<doc, remote, faults>> /\ work = Idle
        /\ work' = [pc |-> "claim", by |-> "job", id |-> i]
    BY <1>3 DEF RequestRefresh
  <2> QED
    BY <2>1, StartShelf DEF WorkRemembers, Started, Idle
<1>4. ASSUME NEW i \in Inodes, ClaimChange(i) PROVE ShelfInv'
  <2>1. UNCHANGED <<doc, remote, faults>> /\ work = Idle /\ (work' = Idle \/ work' = Claimed(i, "loop"))
    BY <1>4 DEF ClaimChange, tableVars, bounds
  <2>2. CASE work' = Idle
    BY <2>1, <2>2, StartShelf DEF WorkRemembers, Started, Idle
  <2>3. CASE work' = Claimed(i, "loop")
    BY <2>1, <2>3, ClaimedShelf DEF Idle
  <2> QED
    BY <2>1, <2>2, <2>3
<1>5. ASSUME NEW i \in Inodes, RemotePurge(i) PROVE ShelfInv'
  <2>1. /\ UNCHANGED <<doc, work, faults>>
        /\ \A k \in Inodes : remote'[k] = IF k = i THEN NoRecord ELSE remote[k]
    BY <1>5 DEF RemotePurge, tableVars, bounds, SyncInv, TypeOK
  <2>2. ASSUME NEW k \in Inodes PROVE ShelfFits(work, k)'
    BY <2>1 DEF ShelfInv, ShelfFits, Wanted, Made, NoRecord
  <2> QED
    BY <2>1, <2>2 DEF ShelfInv, WorkRemembers
<1>6. CASE ClaimRefresh
  <2>1. /\ UNCHANGED <<doc, remote, faults>> /\ work.pc = "claim"
        /\ work.id \in Inodes /\ work' = Claimed(work.id, "job")
    BY <1>6, WorkKinds DEF ClaimRefresh, tableVars, bounds, SyncInv, Idle
  <2> QED
    BY <2>1, ClaimedShelf
<1>7. CASE ProcessStep /\ ~ClaimRefresh
  <2>1. work \in Works
    BY <1>7, WorkKinds
    DEF SyncInv, ProcessStep, ProcessDeleted, Capture, Reuse, Mark, Upload,
        AnalysisRefused, AnalysisFails, Prune, Unsupported, Complete
  <2>2. AnalysisFails => ShelfInv'
    BY FaultCounts, FailureFits DEF AnalysisFails, Deferred
  <2> QED
    BY <1>7, <2>1, <2>2, MarkingShelf, CaptureShelf, UploadShelf, RefusedShelf, PruneShelf, CompleteShelf
    DEF ProcessStep
<1>8. CASE Crash
  BY <1>8, FaultCounts, FailureFits DEF Crash
<1> QED
  BY <1>1, <1>2, <1>3, <1>4, <1>5, <1>6, <1>7, <1>8 DEF Next, WalkStep, LoopStep

LEMMA ShelfInit == Init => ShelfInv
  BY DEF Init, ShelfInv, ShelfFits, WorkRemembers, Started, Idle, NoRecord

\* As long as nothing has failed, the shelf of a document whose row has forgotten
\* none holds the projection that the row remembers, and none besides the one the
\* change in work adds.
THEOREM ShelfInvariant == Spec => [](SyncInv /\ ShelfInv)
<1>1. SyncInv /\ ShelfInv /\ [Next]_vars => (SyncInv /\ ShelfInv)'
  BY SyncInductive, ShelfInductive
<1> QED
  BY <1>1, SyncInit, ShelfInit, PTL DEF Spec

\* Superseded projections are pruned by the change that superseded them: a
\* settled document whose row has forgotten none stores one at most, for every
\* sequence of writes, renames, refreshes, removals and purges.
THEOREM NothingAccumulates == Spec => []NothingLeftBehind
<1>1. ASSUME SyncInv, ShelfInv PROVE NothingLeftBehind
  <2> SUFFICES ASSUME faults = 0, NEW i \in Inodes, Settled(i), ~doc[i].forgot,
                      remote[i].state # "absent"
               PROVE  Cardinality(remote[i].shelf) <= 1
    BY DEF NothingLeftBehind
  <2>1. Wanted(work, i) = {doc[i].projection}
    BY DEF Wanted, Settled
  <2>2. remote[i].shelf \subseteq {doc[i].projection}
    BY <1>1, <2>1 DEF ShelfInv, ShelfFits
  <2>3. IsFiniteSet({doc[i].projection}) /\ Cardinality({doc[i].projection}) = 1
    BY FS_Singleton
  <2>4. /\ Cardinality(remote[i].shelf) \in Nat
        /\ Cardinality(remote[i].shelf) <= Cardinality({doc[i].projection})
    BY <2>2, <2>3, FS_Subset, FS_CardinalityType
  <2> QED
    BY <2>3, <2>4
<1> QED
  BY <1>1, ShelfInvariant, PTL
=============================================================================
