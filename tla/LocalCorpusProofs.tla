-------------------------- MODULE LocalCorpusProofs --------------------------
(***************************************************************************)
(* NoChangeForgotten for any number of operations, edits and failures.     *)
(*                                                                         *)
(* The invariant is IndexInv.  A step of the folder either leaves all      *)
(* names alone or is noted (FolderNoted), so that the proof looks into the *)
(* folder's actions for their types alone.  What a scan has passed is then *)
(* as it found it unless a change is noted (ScanIsTrue), which is what the *)
(* acknowledgement of the queue relies on.                                 *)
(***************************************************************************)
EXTENDS LocalCorpus, TLAPS

USE FolderAssumption

-----------------------------------------------------------------------------
(* Types *)

LEMMA Counts ==
    ASSUME NEW D, NEW f \in [D -> Nat], NEW i PROVE [f EXCEPT ![i] = @ + 1] \in [D -> Nat]
<1>1. CASE i \in D
  <2>1. f[i] + 1 \in Nat
    BY <1>1
  <2> QED
    BY <2>1
<1>2. CASE i \notin D
  BY <1>2
<1> QED
  BY <1>1, <1>2

LEMMA FolderTypes == ASSUME FolderTypeOK, FolderNext PROVE FolderTypeOK'
<1> USE DEF FolderTypeOK, names, Ops
<1> DEFINE Inodes == 1..(1 + MaxOps + MaxEdits)
<1>1. CASE Announce
  BY <1>1 DEF Announce, Announced
<1>2. CASE Stage
  <2>1. temp' \in [Ops -> 0..inodes']
    BY <1>2 DEF Stage
  <2> QED
    BY <1>2, <2>1 DEF Stage
<1>3. CASE Exchange
  <2>1. busy \in Ops
    BY <1>3 DEF Exchange
  <2>2. temp[busy] \in 0..inodes /\ temp[busy] # 0
    BY <1>3, <2>1 DEF Exchange
  <2>5. ctime' = [[ctime EXCEPT ![path] = @ + 1] EXCEPT ![temp[busy]] = @ + 1]
    BY <1>3 DEF Exchange, Exchanged
  <2>6. ctime \in [Inodes -> Nat]
    OBVIOUS
  <2>7. [ctime EXCEPT ![path] = @ + 1] \in [Inodes -> Nat]
    <3> HIDE DEF Inodes
    <3> QED
      BY <2>6, Counts
  <2>3. ctime' \in [Inodes -> Nat]
    <3> HIDE DEF Inodes
    <3> QED
      BY <2>5, <2>7, Counts
  <2>4. temp' \in [Ops -> 0..inodes] /\ path' \in 0..inodes
    BY <1>3, <2>1, <2>2 DEF Exchange
  <2> QED
    BY <1>3, <2>3, <2>4 DEF Exchange
<1>4. CASE Link
  <2>1. busy \in Ops
    BY <1>4 DEF Link
  <2>2. temp[busy] \in 0..inodes
    BY <2>1
  <2>3. ctime \in [Inodes -> Nat]
    OBVIOUS
  <2>4. ctime' \in [Inodes -> Nat]
    <3> HIDE DEF Inodes
    <3> QED
      BY <1>4, <2>3, Counts DEF Link
  <2> QED
    BY <1>4, <2>2, <2>4 DEF Link
<1>5. CASE Unlink
  BY <1>5 DEF Unlink
<1>6. ASSUME Drop, UNCHANGED path
      PROVE  temp' \in [Ops -> 0..inodes] /\ ctime' \in [1..(1 + MaxOps + MaxEdits) -> Nat]
  <2>1. ctime \in [Inodes -> Nat]
    OBVIOUS
  <2>2. ctime' \in [Inodes -> Nat]
    <3> HIDE DEF Inodes
    <3> QED
      BY <1>6, <2>1, Counts DEF Drop
  <2>3. temp' \in [Ops -> 0..inodes]
    BY <1>6, 0 \in 0..inodes DEF Drop
  <2> QED
    BY <2>2, <2>3
<1>7. CASE DropTemporary
  BY <1>6, <1>7 DEF DropTemporary
<1>8. CASE MarkDirty
  BY <1>8 DEF MarkDirty, Over
<1>9. CASE Release
  <2>1. temp' \in [Ops -> 0..inodes] /\ ctime' \in [1..(1 + MaxOps + MaxEdits) -> Nat]
    BY <1>6, <1>9 DEF Release
  <2>2. mark' \in {"none", "prepared", "dirty"}
    BY <1>9 DEF Release, Withdrawn
  <2>3. /\ busy' = 0 /\ phase' = "none" /\ UNCHANGED <<path, inodes, started, edits>>
        /\ busy # 0 /\ phase # "none"
    BY <1>9 DEF Release, Over
  <2> QED
    BY <2>1, <2>2, <2>3
<1>10. CASE EditorSaves
  <2>1. temp' \in [Ops -> 0..inodes']
    BY <1>10 DEF EditorSaves
  <2> QED
    BY <1>10, <2>1 DEF EditorSaves
<1>11. CASE EditorRemoves
  BY <1>11 DEF EditorRemoves
<1> QED
  BY <1>1, <1>2, <1>3, <1>4, <1>5, <1>7, <1>8, <1>9, <1>10, <1>11 DEF FolderNext

LEMMA TokenType == ASSUME FolderTypeOK PROVE Token(path) \in Nat \X Nat
  BY DEF FolderTypeOK, Token, Absent

LEMMA NoRowType == NoRow \in Rows
  BY DEF NoRow, Rows, Absent, Projections

\* What the index's own steps make of the rows and of the sync.
LEMMA LateType ==
    ASSUME sync \in Syncs, NEW b \in BOOLEAN PROVE [sync EXCEPT !.late = b] \in Syncs
  BY DEF Syncs

LEMMA IndexTypes ==
    ASSUME TypeOK, Next, ~Folder
    PROVE  row' \in Rows /\ known' \in SUBSET Ops /\ sync' \in Syncs
<1> USE NoRowType DEF TypeOK
<1>1. NoSync \in Syncs
  BY DEF NoSync, Syncs
<1>2. Token(path) \in Nat \X Nat
  BY TokenType
<1>3. sync.draft \in Rows
  BY DEF Syncs
<1>4. CASE SyncBegin
  BY <1>4, <1>1 DEF SyncBegin, Syncs
<1>5. CASE ScanPath
  <2>1. [sync.draft EXCEPT !.tok = Token(path), !.live = TRUE] \in Rows
    BY <1>2, <1>3 DEF Rows
  <2> QED
    BY <1>5, <2>1 DEF ScanPath, Vanished, Syncs, Names, Ops
<1>6. CASE \E o \in Ops : ScanTemporary(o)
  <2>1. PICK o \in Ops : ScanTemporary(o)
    BY <1>6
  <2>5. ASSUME NEW d \in Rows
        PROVE  [sync EXCEPT !.todo = @ \ {o}, !.met = @ \cup {o}, !.draft = d] \in Syncs
    BY <2>1 DEF Syncs
  <2>2. CASE temp[o] # 0
    <3>1. ~Vanished(o)
      BY <2>1, <2>2 DEF Vanished, Under, Ops
    <3>2. sync' = [sync EXCEPT !.todo = @ \ {o}, !.met = @ \cup {o},
                     !.draft = IF Moved(o) THEN NoRow ELSE sync.draft]
      BY <2>1, <3>1 DEF ScanTemporary, Syncs
    <3>3. (IF Moved(o) THEN NoRow ELSE sync.draft) \in Rows
      BY <1>3
    <3>4. sync' \in Syncs
      BY <2>5, <3>2, <3>3
    <3> QED
      BY <2>1, <3>4 DEF ScanTemporary
  <2>4. CASE temp[o] = 0
    BY <2>1, <2>4 DEF ScanTemporary, Vanished, Syncs
  <2> QED
    BY <2>1, <2>2, <2>4 DEF ScanTemporary
<1>7. ASSUME NEW r, Acknowledge(r) PROVE sync' \in Syncs
  BY <1>1, <1>7 DEF Acknowledge, NoSync, Syncs
<1>8. CASE ScanCommit
  <2>1. Inventory \in Rows
    BY <1>3 DEF Inventory, Rows
  <2>4. [NoSync EXCEPT !.pc = "ingest", !.whole = sync.whole, !.late = sync.late] \in Syncs
    BY <1>1 DEF Syncs
  <2>2. sync' \in Syncs
    BY <1>7, <1>8, <2>4 DEF ScanCommit, TooLarge
  <2>3. known' \in SUBSET Ops
    BY <1>8 DEF ScanCommit, Syncs
  <2> QED
    BY <1>8, <2>1, <2>2, <2>3 DEF ScanCommit
<1>9. CASE Capture
  BY <1>7, <1>9 DEF Capture, Syncs
<1>10. CASE Commit
  <2>1. \A b \in Projections : [row EXCEPT !.rev = row.tok, !.by = b] \in Rows
    BY DEF Rows
  <2>2. row' \in Rows
    BY <1>10, <2>1 DEF Commit, Observed, Projections
  <2>3. sync' \in Syncs /\ known' = known
    BY <1>1, <1>7, <1>10 DEF Commit
  <2> QED
    BY <2>2, <2>3
<1>11. CASE Judge \/ Clear \/ SyncFails
  BY <1>1, <1>11 DEF Judge, Clear, SyncFails, Syncs
<1>12. CASE EnqueueReconcile \/ NothingQueued \/ EnqueueChanges \/ WatcherStarts
  BY <1>12 DEF EnqueueReconcile, NothingQueued, EnqueueChanges, WatcherStarts
<1>13. CASE Reconcile \/ WatcherStops
  <2>1. Locked \in BOOLEAN /\ (Locked /\ (sync.late \/ heard)) \in BOOLEAN
    BY DEF Locked
  <2>2. sync' \in {sync, NoSync, [sync EXCEPT !.late = Locked],
                   [sync EXCEPT !.late = Locked /\ (sync.late \/ heard)]}
    BY <1>13 DEF Reconcile, WatcherStops, Miss
  <2>3. sync' \in Syncs
    BY <1>1, <2>1, <2>2, LateType
  <2> QED
    BY <1>13, <2>3 DEF Reconcile, WatcherStops
<1> QED
  BY <1>4, <1>5, <1>6, <1>8, <1>9, <1>10, <1>11, <1>12, <1>13
     DEF Next, CallerSyncs, WatcherSyncs

\* The worker, the queues and the folder.
LEMMA TypesKeep == ASSUME TypeOK, [Next]_vars PROVE TypeOK'
<1>1. CASE UNCHANGED vars
  <2>1. UNCHANGED folder
    BY <1>1 DEF vars
  <2> QED
    BY <1>1, <2>1 DEF vars, folder, TypeOK, FolderTypeOK
<1>2. CASE Folder
  <2>1. FolderTypeOK'
    BY <1>2, FolderTypes DEF Folder, TypeOK
  <2>3. Locked \in BOOLEAN
    BY DEF Locked
  <2>4. sync' \in {sync, [sync EXCEPT !.late = Locked]}
    BY <1>2 DEF Folder, Hear, Miss
  <2>5. sync' \in Syncs
    BY <2>3, <2>4, LateType DEF TypeOK
  <2>2. heard' \in BOOLEAN /\ missed' \in BOOLEAN
    BY <1>2 DEF Folder, Hear, Miss, TypeOK
  <2> QED
    BY <1>2, <2>1, <2>2, <2>5 DEF Folder, TypeOK
<1>3. CASE Next /\ ~Folder
  <2>1. row' \in Rows /\ known' \in SUBSET Ops /\ sync' \in Syncs
    BY <1>3, IndexTypes
  <2>2. CASE Clear
    BY <2>1, <2>2 DEF Clear, TypeOK, FolderTypeOK, names, Returned
  <2>3. CASE ~Clear
    <3>1. UNCHANGED folder
      BY <1>3, <2>3 DEF Next, CallerSyncs, WatcherSyncs, SyncBegin, ScanPath, ScanTemporary,
           ScanCommit, Capture, Commit, Judge, EnqueueReconcile, NothingQueued,
           EnqueueChanges, Reconcile, WatcherStops, WatcherStarts, SyncFails
    <3>2. FolderTypeOK'
      BY <3>1 DEF folder, TypeOK, FolderTypeOK
    <3>3. latest' \in BOOLEAN /\ watch' \in {"down", "enqueue", "process", "waiting", "watching", "syncing"}
      BY <1>3, <2>3 DEF Next, CallerSyncs, WatcherSyncs, SyncBegin, ScanPath, ScanTemporary,
           ScanCommit, Capture, Commit, Judge, EnqueueReconcile, NothingQueued, Returned,
           EnqueueChanges, Reconcile, WatcherStops, WatcherStarts, SyncFails, TypeOK, Syncs
    <3>4. heard' \in BOOLEAN /\ queue' \in BOOLEAN /\ missed' \in BOOLEAN
      BY <1>3, <2>3 DEF Next, CallerSyncs, WatcherSyncs, SyncBegin, ScanPath, ScanTemporary, TooLarge,
           ScanCommit, Capture, Commit, Judge, EnqueueReconcile, NothingQueued, Acknowledge,
           EnqueueChanges, Enqueue, Reconcile, Miss, WatcherStops, WatcherStarts, SyncFails, TypeOK, Syncs
    <3>7. left' \in BOOLEAN
      BY <1>3, <2>3 DEF Next, CallerSyncs, WatcherSyncs, SyncBegin, ScanPath, ScanTemporary, TooLarge,
           ScanCommit, Capture, Commit, Observed, Judge, EnqueueReconcile, NothingQueued,
           EnqueueChanges, Enqueue, Reconcile, WatcherStops, WatcherStarts, SyncFails, TypeOK
    <3>6. Fault \/ UNCHANGED faults
      BY <1>3, <2>3 DEF Next, CallerSyncs, WatcherSyncs, SyncBegin, ScanPath, ScanTemporary,
           ScanCommit, TooLarge, Capture, Commit, Judge, EnqueueReconcile, NothingQueued,
           EnqueueChanges, Reconcile, WatcherStops, WatcherStarts, SyncFails
    <3>5. faults' \in 0..MaxFaults
      BY <3>6, CorpusAssumption DEF Fault, TypeOK
    <3> QED
      BY <2>1, <3>2, <3>3, <3>4, <3>5, <3>7 DEF TypeOK
  <2> QED
    BY <2>2, <2>3
<1> QED
  BY <1>1, <1>2, <1>3

-----------------------------------------------------------------------------
(* The steps of the folder *)

\* The parts of IndexInv that are about the index.
Index == NoChangeForgotten /\ StraysPend /\ LateIsMissed /\ ScanIsTrue /\ IngestIsTrue

\* What the index says of the names, and the names.
Seen == <<names, row, known, left>>

\* When neither a name nor a row nor a pending entry changes, nothing does.
LEMMA NothingNew ==
    ASSUME Index, UNCHANGED <<Seen, sync, heard, queue, missed>>
    PROVE  Index'
<1> USE DEF Seen, names
<1>1. NoChangeForgotten'
  BY DEF Index, NoChangeForgotten, InSync, OnPath, Token
<1>2. StraysPend' /\ LateIsMissed'
  BY DEF Index, StraysPend, Stray, Pends, LateIsMissed, Locked
<1>3. ScanIsTrue'
  BY DEF Index, ScanIsTrue, OnPath, Token, Noted, Pends, Stray, Under
<1>4. IngestIsTrue'
  BY DEF Index, IngestIsTrue, OnPath, Token, Noted, Stray, Refreshable, Current, Failed
<1> QED
  BY <1>1, <1>2, <1>3, <1>4 DEF Index

\* When a change is noted, whatever it is.
LEMMA ChangeNoted ==
    ASSUME Index, TypeOK, UNCHANGED <<row, known, queue, left>>,
           Pends', Locked => Noted', LateIsMissed',
           sync' = sync \/ \E b \in BOOLEAN : sync' = [sync EXCEPT !.late = b]
    PROVE  Index'
<1>1. /\ sync'.pc = sync.pc /\ sync'.draft = sync.draft /\ sync'.todo = sync.todo
      /\ sync'.seen = sync.seen /\ sync'.met = sync.met /\ sync'.whole = sync.whole
  BY DEF TypeOK, Syncs
<1>2. NoChangeForgotten' /\ StraysPend'
  BY DEF NoChangeForgotten, Pends, StraysPend
<1>3. ScanIsTrue'
  BY <1>1 DEF Index, ScanIsTrue, Locked
<1>4. IngestIsTrue'
  BY <1>1 DEF Index, IngestIsTrue, Locked, Refreshable, Current, Failed
<1> QED
  BY <1>2, <1>3, <1>4 DEF Index

LEMMA FolderKeeps == ASSUME Index, TypeOK, Folder PROVE Index'
<1>0. UNCHANGED <<row, known, queue, left>>
  BY DEF Folder
<1>1. CASE names' = names
  <2>1. CASE UNCHANGED <<heard, missed, sync>>
    BY <1>0, <1>1, <2>1, NothingNew DEF Seen
  <2> QED
    BY <1>1, <2>1 DEF Folder, Hear
<1>2. CASE names' # names /\ Observing
  <2>1. heard' = TRUE /\ UNCHANGED <<missed, sync>>
    BY <1>2 DEF Folder, Hear
  <2>2. LateIsMissed'
    BY <1>0, <2>1 DEF Index, LateIsMissed, Locked
  <2> QED
    BY <1>0, <2>1, <2>2, ChangeNoted DEF Noted, Pends
<1>3. CASE names' # names /\ ~Observing
  <2>0. Locked \in BOOLEAN
    BY DEF Locked
  <2>1. missed' = ~queue /\ sync' = [sync EXCEPT !.late = Locked]
    BY <1>3 DEF Folder, Hear, Miss
  <2>2. sync'.late = Locked
    BY <2>1 DEF TypeOK, Syncs
  <2>3. Pends' /\ LateIsMissed'
    BY <1>0, <2>1 DEF LateIsMissed, Pends
  <2> QED
    BY <1>0, <2>0, <2>1, <2>2, <2>3, ChangeNoted DEF Noted
<1> QED
  BY <1>1, <1>2, <1>3

-----------------------------------------------------------------------------
(* The steps of a sync *)

LEMMA BeginKeeps == ASSUME Index, TypeOK, SyncBegin PROVE Index'
<1> USE DEF SyncBegin, folder
<1>0. /\ sync'.pc = "scan" /\ sync'.draft = row /\ sync'.todo = {n \in Names : Under(n) # 0}
      /\ sync'.seen = FALSE /\ sync'.met = {} /\ sync'.whole = TRUE /\ sync'.late = FALSE
  BY DEF NoSync
<1>1. NoChangeForgotten'
  BY DEF Index, NoChangeForgotten, InSync, OnPath, Token
<1>2. StraysPend' /\ LateIsMissed'
  BY <1>0 DEF Index, StraysPend, Stray, Pends, LateIsMissed
<1>3. ScanIsTrue'
  <2>1. \A o \in Ops : Stray(o)' => o \in sync'.todo
    BY <1>0 DEF Stray, Names, Ops, Under
  <2>2. 0 \notin sync'.todo => path = 0
    BY <1>0 DEF Names, Under, FolderAssumption
  <2>3. \A n \in sync'.todo : Under(n)' # 0
    BY <1>0 DEF Under
  <2> QED
    BY <1>0, <2>1, <2>2, <2>3 DEF ScanIsTrue
<1>4. IngestIsTrue'
  BY <1>0 DEF IngestIsTrue
<1> QED
  BY <1>1, <1>2, <1>3, <1>4 DEF Index

\* A name that was there when the scan began is gone: it has been noted.
LEMMA VanishedKeeps ==
    ASSUME Index, TypeOK, NEW n \in sync.todo, sync.pc = "scan", Vanished(n),
           UNCHANGED <<Seen, heard, queue, missed>>
    PROVE  Index'
<1> USE DEF Seen, names
<1>0. /\ sync'.pc = "scan" /\ sync'.draft = sync.draft /\ sync'.todo = sync.todo \ {n}
      /\ sync'.seen = sync.seen /\ sync'.met = sync.met /\ sync'.whole = FALSE
      /\ sync'.late = sync.late
  BY DEF Vanished, TypeOK, Syncs
<1>1. Noted
  BY DEF Vanished, Index, ScanIsTrue
<1>2. Noted'
  BY <1>0, <1>1 DEF Noted
<1>3. NoChangeForgotten'
  BY DEF Index, NoChangeForgotten, InSync, OnPath, Token
<1>4. StraysPend' /\ LateIsMissed'
  BY <1>0 DEF Index, StraysPend, Stray, Pends, LateIsMissed, Locked
<1>5. ScanIsTrue'
  BY <1>0, <1>2 DEF Index, ScanIsTrue, OnPath, Token, Pends
<1>6. IngestIsTrue'
  BY <1>0 DEF IngestIsTrue
<1> QED
  BY <1>3, <1>4, <1>5, <1>6 DEF Index

LEMMA PathKeeps == ASSUME Index, TypeOK, ScanPath PROVE Index'
<1> USE DEF folder, names
<1>1. CASE Vanished(0)
  BY <1>1, VanishedKeeps DEF ScanPath, Seen
<1>2. CASE path # 0 /\ sync' = [sync EXCEPT !.todo = @ \ {0}, !.seen = TRUE,
                        !.draft = [@ EXCEPT !.tok = Token(path), !.live = TRUE]]
  <2>0. sync.pc = "scan" /\ UNCHANGED <<names, row, known, heard, queue, missed, left>>
    BY DEF ScanPath
  <2>1. /\ sync'.pc = "scan" /\ sync'.todo = sync.todo \ {0}
        /\ sync'.seen = TRUE /\ sync'.met = sync.met /\ sync'.whole = sync.whole
        /\ sync'.late = sync.late
    BY <1>2, <2>0 DEF TypeOK, Syncs
  <2>2. sync'.draft.tok = Token(path) /\ sync'.draft.live /\ sync'.draft.rev = sync.draft.rev
    BY <1>2 DEF TypeOK, Syncs, Rows
  <2>3. NoChangeForgotten'
    BY <2>0 DEF Index, NoChangeForgotten, InSync, OnPath, Token
  <2>4. StraysPend' /\ LateIsMissed'
    BY <2>0, <2>1 DEF Index, StraysPend, Stray, Pends, LateIsMissed, Locked
  <2>5. \A o \in Ops : o # 0
    BY DEF Ops
  <2>6. ScanIsTrue'
    <3>1. path' # 0 /\ sync'.draft.tok = Token(path)'
      BY <1>2, <2>0, <2>2 DEF Token
    <3>2. (OnPath /\ sync.draft.rev # row.rev => Pends)'
      BY <2>0, <2>1, <2>2 DEF Index, ScanIsTrue, OnPath, Pends, Token
    <3>3. \A n \in sync'.todo : Under(n)' # 0 \/ Noted'
      BY <2>0, <2>1 DEF Index, ScanIsTrue, Under, Noted
    <3>4. ~sync'.whole => Noted'
      BY <2>0, <2>1 DEF Index, ScanIsTrue, Noted
    <3>5. \A o \in Ops : Stray(o)' /\ o \notin sync'.todo \cup sync'.met => Noted'
      BY <2>0, <2>1, <2>5 DEF Index, ScanIsTrue, Stray, Noted
    <3> QED
      BY <2>1, <2>2, <3>1, <3>2, <3>3, <3>4, <3>5 DEF ScanIsTrue
  <2>7. IngestIsTrue'
    BY <2>1 DEF IngestIsTrue
  <2> QED
    BY <2>3, <2>4, <2>6, <2>7 DEF Index
<1> QED
  BY <1>1, <1>2 DEF ScanPath

LEMMA TemporaryKeeps ==
    ASSUME Index, TypeOK, NEW o \in Ops, ScanTemporary(o) PROVE Index'
<1> USE DEF folder, names
<1>1. CASE Vanished(o)
  BY <1>1, VanishedKeeps DEF ScanTemporary, Seen
<1>2. CASE /\ temp[o] # 0
           /\ sync' = [sync EXCEPT !.todo = @ \ {o}, !.met = @ \cup {o},
                         !.draft = IF Moved(o) THEN NoRow ELSE @]
  <2>0. sync.pc = "scan" /\ UNCHANGED <<names, row, known, heard, queue, missed, left>>
    BY DEF ScanTemporary
  <2>1. /\ sync'.pc = "scan" /\ sync'.todo = sync.todo \ {o}
        /\ sync'.seen = sync.seen /\ sync'.met = sync.met \cup {o}
        /\ sync'.whole = sync.whole /\ sync'.late = sync.late
    BY <1>2, <2>0 DEF TypeOK, Syncs
  <2>2. sync'.draft = IF Moved(o) THEN NoRow ELSE sync.draft
    BY <1>2 DEF TypeOK, Syncs
  <2>3. NoChangeForgotten'
    BY <2>0 DEF Index, NoChangeForgotten, InSync, OnPath, Token
  <2>4. StraysPend' /\ LateIsMissed'
    BY <2>0, <2>1 DEF Index, StraysPend, Stray, Pends, LateIsMissed, Locked
  <2>5. o # 0
    BY DEF Ops
  \* What takes the path's row along is a file linked under both names.
  <2>6. ASSUME Moved(o), OnPath PROVE Pends
    <3>1. sync.draft \in {row, NoRow}
      BY <2>0, <2>6 DEF Moved, Index, ScanIsTrue
    <3>2. sync.draft # NoRow
      BY <1>2, <2>6 DEF Moved, NoRow, Absent
    <3>3. temp[o] = path
      BY <2>6, <3>1, <3>2 DEF Moved, OnPath, Token
    <3> QED
      BY <2>6, <3>3 DEF Moved, OnPath, Index, StraysPend, Stray
  <2>7. ScanIsTrue'
    <3>1. IF sync'.seen
          THEN sync'.draft.live /\ (Noted' \/ (path' # 0 /\ sync'.draft.tok = Token(path)'))
          ELSE sync'.draft \in {row', NoRow}
      BY <2>0, <2>1, <2>2 DEF Index, ScanIsTrue, Moved, Noted, Token
    <3>2. (OnPath /\ sync.draft.rev # row.rev => Pends)'
      BY <2>0, <2>1, <2>2, <2>6 DEF Index, ScanIsTrue, OnPath, Pends, Token
    <3>3. \A n \in sync'.todo : Under(n)' # 0 \/ Noted'
      BY <2>0, <2>1 DEF Index, ScanIsTrue, Under, Noted
    <3>4. /\ ~sync'.whole => Noted'
          /\ 0 \notin sync'.todo /\ ~sync'.seen => path' = 0 \/ Noted'
      BY <2>0, <2>1, <2>5 DEF Index, ScanIsTrue, Noted
    <3>5. \A p \in Ops : Stray(p)' /\ p \notin sync'.todo \cup sync'.met => Noted'
      BY <2>0, <2>1 DEF Index, ScanIsTrue, Stray, Noted
    <3> QED
      BY <2>1, <3>1, <3>2, <3>3, <3>4, <3>5 DEF ScanIsTrue
  <2>8. IngestIsTrue'
    BY <2>1 DEF IngestIsTrue
  <2> QED
    BY <2>3, <2>4, <2>7, <2>8 DEF Index
<1> QED
  BY <1>1, <1>2 DEF ScanTemporary

\* Outside of the lock nothing depends on the sync.
LEMMA SyncEnds ==
    ASSUME Index, UNCHANGED <<Seen, heard, queue, missed>>,
           sync'.pc \in {"idle", "judge", "clear"}
    PROVE  Index'
<1> USE DEF Seen, names
<1>1. NoChangeForgotten' /\ StraysPend'
  BY DEF Index, NoChangeForgotten, InSync, OnPath, Token, StraysPend, Stray, Pends
<1> QED
  BY <1>1 DEF Index, LateIsMissed, Locked, ScanIsTrue, IngestIsTrue

\* The end of a scan.  Complete, it knows of every name; if nothing is left
\* to extract, the row it stores is the file.
LEMMA ScanCommitKeeps == ASSUME Index, TypeOK, ScanCommit PROVE Index'
<1> USE DEF folder, names
<1>0. /\ sync.pc = "scan" /\ sync.todo = {} /\ UNCHANGED <<names, heard>>
      /\ row' = Inventory /\ known' = known \cup sync.met
  BY DEF ScanCommit
<1>1. ScanIsTrue /\ NoChangeForgotten /\ StraysPend /\ (sync.late => missed \/ queue)
  BY <1>0 DEF Index, LateIsMissed, Locked
<1>2. Inventory.tok = sync.draft.tok /\ Inventory.rev = sync.draft.rev
  BY DEF Inventory, TypeOK, Syncs, Rows
<1>3. Inventory.live = (sync.draft.live /\ ~(sync.whole /\ ~sync.seen))
  BY DEF Inventory, TypeOK, Syncs, Rows
<1>4. \A o \in Ops : Stray(o)' => Noted
  BY <1>0, <1>1 DEF ScanIsTrue, Stray
\* Unless a change is noted, the row stays in step, or left out, as it was.
<1>5. ASSUME UNCHANGED <<queue, missed>>, left' = (left /\ Inventory.tok = row.tok)
      PROVE  NoChangeForgotten' /\ StraysPend'
  <2>1. Noted => Pends'
    BY <1>0, <1>1, <1>5 DEF Noted, Pends
  <2>2. Pends' = Pends
    BY <1>0, <1>5 DEF Pends
  <2>3. ASSUME ~Pends' PROVE NoChangeForgotten'
    <3>1. ~Noted /\ (InSync \/ (left /\ row.live /\ OnPath))
      BY <1>1, <2>1, <2>2, <2>3 DEF NoChangeForgotten, Pends
    <3>2. CASE path = 0
      <4>1. ~row'.live
        BY <1>0, <1>1, <1>3, <3>1, <3>2 DEF ScanIsTrue
      <4> QED
        BY <1>0, <3>2, <4>1 DEF NoChangeForgotten, InSync
    <3>3. CASE path # 0
      <4>1. OnPath /\ row.live /\ (left \/ row.rev = row.tok)
        BY <3>1, <3>3 DEF InSync
      <4>2. sync.whole /\ sync.seen /\ sync.draft.live /\ sync.draft.tok = Token(path)
        BY <1>0, <1>1, <3>1, <3>3 DEF ScanIsTrue
      <4>3. sync.draft.rev = row.rev
        BY <1>0, <1>1, <2>2, <2>3, <4>1 DEF ScanIsTrue
      <4>4. row'.live /\ row'.tok = Token(path) /\ row'.rev = row.rev
        BY <1>0, <1>2, <1>3, <4>2, <4>3
      <4>5. left' = left
        BY <1>2, <1>5, <4>1, <4>2 DEF OnPath, TypeOK
      <4> QED
        BY <1>0, <3>3, <4>1, <4>4, <4>5 DEF NoChangeForgotten, InSync, OnPath, Token
    <3> QED
      BY <3>2, <3>3
  <2> QED
    BY <1>4, <2>1, <2>3 DEF NoChangeForgotten, StraysPend, Pends
\* What is extracted next is the file that the scan saw.
<1>6. CASE /\ Selected /\ left' = (left /\ Inventory.tok = row.tok)
           /\ sync' = [NoSync EXCEPT !.pc = "ingest", !.whole = sync.whole, !.late = sync.late]
           /\ UNCHANGED <<queue, missed>>
  <2>1. sync'.pc = "ingest" /\ sync'.whole = sync.whole /\ sync'.late = sync.late
    BY <1>6 DEF NoSync
  <2>2. Noted' = Noted
    BY <1>0, <2>1 DEF Noted
  <2>3. Refreshable(row)' /\ Inventory.live
    BY <1>0, <1>6 DEF Selected, Refreshable, Current, Failed
  <2>4. sync.whole => OnPath' \/ Noted'
    <3>1. sync.whole => sync.seen
      BY <1>3, <2>3
    <3> QED
      BY <1>0, <1>1, <1>2, <2>2, <3>1 DEF ScanIsTrue, OnPath, Token
  <2>5. NoChangeForgotten' /\ StraysPend' /\ LateIsMissed' /\ ScanIsTrue'
    BY <1>1, <1>5, <1>6, <2>1 DEF LateIsMissed, ScanIsTrue
  <2>6. IngestIsTrue'
    BY <1>4, <2>1, <2>2, <2>3, <2>4 DEF IngestIsTrue
  <2> QED
    BY <2>5, <2>6 DEF Index
\* What is acknowledged is in step, or left out and in the row.
<1>7. ASSUME Acknowledge(FALSE),
             \/ ~Selected /\ left' = (left /\ Inventory.tok = row.tok)
             \/ Selected /\ left' = TRUE
      PROVE  Index'
  <2>2. sync'.pc = "judge"
    BY <1>7 DEF Acknowledge, NoSync
  <2>3. CASE sync.whole
    <3>1. queue' = FALSE /\ missed' = sync.late
      BY <1>7, <2>3 DEF Acknowledge, Settled
    <3>2. Pends' = Noted
      BY <1>0, <3>1 DEF Pends, Noted
    <3>3. ASSUME ~Noted PROVE NoChangeForgotten'
      <4>1. CASE sync.seen
        <5>1. path # 0 /\ sync.draft.tok = Token(path) /\ sync.draft.live
          BY <1>0, <1>1, <3>3, <4>1 DEF ScanIsTrue
        <5>2. row'.live /\ OnPath'
          BY <1>0, <1>2, <1>3, <4>1, <5>1 DEF OnPath, Token
        <5>3. left' = TRUE \/ row'.rev = row'.tok
          BY <1>0, <1>7, <2>3, <5>2 DEF Selected, Refreshable, Current, Failed
        <5> QED
          BY <5>2, <5>3 DEF NoChangeForgotten, InSync, OnPath
      <4>2. CASE ~sync.seen
        <5>1. path = 0
          BY <1>0, <1>1, <3>3, <4>2 DEF ScanIsTrue
        <5>2. ~row'.live
          BY <1>0, <1>3, <2>3, <4>2
        <5> QED
          BY <1>0, <5>1, <5>2 DEF NoChangeForgotten, InSync
      <4> QED
        BY <4>1, <4>2
    <3>4. NoChangeForgotten' /\ StraysPend'
      BY <1>4, <3>2, <3>3 DEF NoChangeForgotten, Pends, StraysPend
    <3> QED
      BY <2>2, <3>4 DEF Index, LateIsMissed, Locked, ScanIsTrue, IngestIsTrue
  <2>4. CASE ~sync.whole
    <3>1. UNCHANGED <<queue, missed>>
      BY <1>7, <2>4 DEF Acknowledge, Settled
    <3>2. Pends'
      BY <1>0, <1>1, <2>4, <3>1 DEF ScanIsTrue, Noted, Pends
    <3> QED
      BY <2>2, <3>2 DEF Index, NoChangeForgotten, Pends, StraysPend, LateIsMissed, Locked, ScanIsTrue, IngestIsTrue
  <2> QED
    BY <2>3, <2>4
<1> QED
  BY <1>6, <1>7 DEF ScanCommit, TooLarge

\* Extraction: the row may only come in step with the file that was scanned.
LEMMA CaptureKeeps == ASSUME Index, TypeOK, Capture PROVE Index'
<1> USE DEF folder, names
<1>0. sync.pc = "ingest" /\ UNCHANGED <<names, row, known, heard, left>>
  BY DEF Capture
<1>1. CASE sync' = [sync EXCEPT !.pc = "index"] /\ UNCHANGED <<queue, missed>>
  <2>1. sync'.pc = "index" /\ sync'.whole = sync.whole /\ sync'.late = sync.late
    BY <1>1 DEF TypeOK, Syncs
  <2>2. Noted' = Noted
    BY <1>0, <2>1 DEF Noted
  <2>3. IngestIsTrue'
    BY <1>0, <2>1, <2>2 DEF Index, IngestIsTrue, Refreshable, Current, Failed, OnPath, Token, Stray
  <2>4. LateIsMissed'
    BY <1>0, <1>1, <2>1 DEF Index, LateIsMissed, Locked
  <2>5. NoChangeForgotten' /\ StraysPend'
    BY <1>0, <1>1 DEF Index, NoChangeForgotten, InSync, OnPath, Token, StraysPend, Stray, Pends
  <2> QED
    BY <2>1, <2>3, <2>4, <2>5 DEF Index, ScanIsTrue
<1>2. CASE Acknowledge(TRUE)
  <2>1. UNCHANGED <<queue, missed>> /\ sync'.pc = "judge"
    BY <1>2 DEF Acknowledge, Settled, NoSync
  <2> QED
    BY <1>0, <2>1, SyncEnds DEF Seen
<1> QED
  BY <1>1, <1>2 DEF Capture

LEMMA CommitKeeps == ASSUME Index, TypeOK, Commit PROVE Index'
<1> USE DEF folder, names
<1>0. sync.pc = "index" /\ UNCHANGED <<names, known, heard>>
  BY DEF Commit
<1>1. IngestIsTrue /\ row.live /\ NoChangeForgotten /\ StraysPend
  BY <1>0 DEF Index, IngestIsTrue, Refreshable
<1>2. sync'.pc \in {"idle", "judge"}
  <2>1. sync' = NoSync \/ sync' = [NoSync EXCEPT !.pc = "judge"]
    BY DEF Commit, Acknowledge
  <2> QED
    BY <2>1 DEF NoSync
<1>3. CASE UNCHANGED <<row, left>> /\ Acknowledge(TRUE)
  <2>1. UNCHANGED <<queue, missed>>
    BY <1>3 DEF Acknowledge, Settled
  <2> QED
    BY <1>0, <1>2, <1>3, <2>1, SyncEnds DEF Seen
<1>4. ASSUME NEW b, Observed(b), UNCHANGED <<queue, missed>> \/ Acknowledge(FALSE)
      PROVE  Index'
  <2>1. row'.live /\ row'.tok = row.tok /\ row'.rev = row.tok
    BY <1>1, <1>4 DEF Observed, TypeOK, Rows
  <2>2. CASE UNCHANGED <<queue, missed>>
    <3>1. Pends' = Pends
      BY <1>0, <2>2 DEF Pends
    <3>2. NoChangeForgotten'
      BY <1>0, <1>1, <2>1, <3>1 DEF NoChangeForgotten, Pends, InSync, OnPath, Token
    <3>3. StraysPend'
      BY <1>0, <1>1, <3>1 DEF StraysPend, Stray
    <3> QED
      BY <1>2, <3>2, <3>3 DEF Index, LateIsMissed, Locked, ScanIsTrue, IngestIsTrue
  <2>3. CASE ~UNCHANGED <<queue, missed>>
    <3>1. sync.whole /\ queue' = FALSE /\ missed' = sync.late
      BY <1>4, <2>3 DEF Acknowledge, Settled
    <3>2. Pends' = Noted
      BY <1>0, <3>1 DEF Pends, Noted
    <3>3. OnPath \/ Noted
      BY <1>0, <1>1, <3>1 DEF IngestIsTrue
    <3>4. NoChangeForgotten'
      BY <1>0, <2>1, <3>2, <3>3 DEF NoChangeForgotten, Pends, InSync, OnPath, Token
    <3>5. StraysPend'
      BY <1>0, <1>1, <3>2 DEF IngestIsTrue, StraysPend, Stray
    <3> QED
      BY <1>2, <3>4, <3>5 DEF Index, LateIsMissed, Locked, ScanIsTrue, IngestIsTrue
  <2> QED
    BY <2>2, <2>3
<1> QED
  BY <1>3, <1>4 DEF Commit

LEMMA EndKeeps == ASSUME Index, TypeOK, Judge \/ Clear \/ SyncFails PROVE Index'
<1>1. UNCHANGED <<Seen, heard, queue, missed>>
  BY DEF Judge, Clear, SyncFails, folder, names, Seen
<1>2. sync'.pc \in {"idle", "clear"}
  BY DEF Judge, Clear, SyncFails, NoSync, TypeOK, Syncs
<1> QED
  BY <1>1, <1>2, SyncEnds

-----------------------------------------------------------------------------
(* The steps of the worker *)

LEMMA EnqueueKeeps ==
    ASSUME Index, TypeOK, EnqueueReconcile \/ NothingQueued \/ EnqueueChanges \/ WatcherStarts
    PROVE  Index'
<1> USE DEF folder, names
<1>0. UNCHANGED <<names, row, known, sync>>
  BY DEF EnqueueReconcile, NothingQueued, EnqueueChanges, WatcherStarts
<1>1. CASE UNCHANGED <<heard, queue, missed, left>>
  BY <1>0, <1>1, NothingNew DEF Seen
<1>2. CASE Enqueue
  <2>1. queue' = TRUE /\ ~Locked
    BY <1>2 DEF Enqueue
  <2> QED
    BY <1>0, <2>1 DEF Index, NoChangeForgotten, StraysPend, Pends, LateIsMissed, Locked, ScanIsTrue, IngestIsTrue
<1> QED
  BY <1>1, <1>2 DEF EnqueueReconcile, NothingQueued, EnqueueChanges, WatcherStarts

\* The events that are lost with the observer count as missed.
LEMMA LossKeeps == ASSUME Index, TypeOK, Reconcile \/ WatcherStops PROVE Index'
<1> USE DEF folder, names
<1>0. UNCHANGED <<names, row, known, queue, left>>
  BY DEF Reconcile, WatcherStops
<1>1. CASE sync' = NoSync /\ WatcherStops
  <2>1. Pends' = Pends
    BY <1>0, <1>1 DEF WatcherStops, Pends, TypeOK
  <2>2. NoChangeForgotten' /\ StraysPend'
    BY <1>0, <2>1 DEF Index, NoChangeForgotten, InSync, OnPath, Token, StraysPend, Stray, Pends
  <2> QED
    BY <1>1, <2>2 DEF Index, NoSync, LateIsMissed, Locked, ScanIsTrue, IngestIsTrue
<1>2. CASE Reconcile /\ UNCHANGED <<heard, missed, sync>>
  BY <1>0, <1>2, NothingNew DEF Seen
<1>3. CASE Reconcile /\ heard /\ Miss
  <2>0. Locked \in BOOLEAN /\ sync' = [sync EXCEPT !.late = Locked] /\ missed' = ~queue
    BY <1>3 DEF Miss, Locked
  <2>1. sync'.late = Locked
    BY <2>0 DEF TypeOK, Syncs
  <2>2. Pends' /\ LateIsMissed'
    BY <1>0, <2>0 DEF LateIsMissed, Pends
  <2> QED
    BY <1>0, <2>0, <2>1, <2>2, ChangeNoted DEF Noted
<1>4. CASE WatcherStops /\ ~Mine /\ heard
  <2>0. /\ Locked \in BOOLEAN
        /\ missed' = ~queue
        /\ sync' = [sync EXCEPT !.late = Locked /\ (@ \/ heard)]
    <3>1. Locked \in BOOLEAN
      BY DEF Locked
    <3>2. missed' = ~queue
      BY <1>4 DEF WatcherStops
    <3>3. sync' = [sync EXCEPT !.late = Locked /\ (@ \/ heard)]
      BY <1>4, Zenon DEF WatcherStops
    <3> QED
      BY <3>1, <3>2, <3>3
  <2>1. sync'.late = (Locked /\ (sync.late \/ heard))
    BY <2>0 DEF TypeOK, Syncs
  <2>2. Pends' /\ LateIsMissed'
    BY <1>0, <2>0 DEF LateIsMissed, Pends
  <2>3. (Locked /\ (sync.late \/ heard)) \in BOOLEAN
    BY <2>0
  <2>4. \E b \in BOOLEAN : sync' = [sync EXCEPT !.late = b]
    BY <2>0, <2>3
  <2>5. Locked => Noted'
    BY <1>4, <2>1 DEF Noted
  <2> QED
    BY <1>0, <2>0, <2>2, <2>4, <2>5, ChangeNoted
<1>5. CASE WatcherStops /\ ~Mine /\ ~heard
  <2>1. missed' = missed /\ heard' = heard /\ sync' = [sync EXCEPT !.late = Locked /\ (@ \/ heard)]
    BY <1>5 DEF WatcherStops, TypeOK
  <2>2. CASE ~Locked
    <3>1. sync'.pc = sync.pc
      BY <2>1 DEF TypeOK, Syncs
    <3>2. sync'.pc \in {"idle", "judge", "clear"}
      BY <2>2, <3>1 DEF Locked, TypeOK, Syncs
    <3> QED
      BY <1>0, <2>1, <3>2, SyncEnds DEF Seen
  <2>3. CASE Locked
    <3>1. (Locked /\ (sync.late \/ heard)) = sync.late
      BY <1>5, <2>3 DEF TypeOK, Syncs
    <3>2. sync' = [sync EXCEPT !.late = sync.late]
      BY <2>1, <3>1
    <3>3. sync' = sync
      BY <3>2 DEF TypeOK, Syncs
    <3> QED
      BY <1>0, <2>1, <3>3, NothingNew DEF Seen
  <2> QED
    BY <2>2, <2>3
<1> QED
  BY <1>1, <1>2, <1>3, <1>4, <1>5 DEF Reconcile, WatcherStops

-----------------------------------------------------------------------------
(* The theorems *)

LEMMA IndexStep == ASSUME Index, TypeOK, [Next]_vars PROVE Index'
<1>1. CASE UNCHANGED vars
  BY <1>1, NothingNew DEF vars, folder, names, Seen
<1>2. CASE Next
  BY <1>2, FolderKeeps, BeginKeeps, PathKeeps, TemporaryKeeps, ScanCommitKeeps, CaptureKeeps,
     CommitKeeps, EndKeeps, EnqueueKeeps, LossKeeps DEF Next, CallerSyncs, WatcherSyncs
<1> QED
  BY <1>1, <1>2

LEMMA InitTypes == Init => TypeOK
<1> SUFFICES ASSUME Init PROVE TypeOK
  OBVIOUS
<1>1. FolderTypeOK
  BY DEF Init, FolderInit, FolderTypeOK, Ops
<1>2. Token(1) = <<1, 0>>
  BY DEF Init, FolderInit, Token
<1>3. row \in Rows
  BY <1>2, CorpusAssumption DEF Init, IndexInit, Rows, Projections
<1>4. NoSync \in Syncs
  BY NoRowType DEF NoSync, Syncs
<1>5. known \in SUBSET Ops /\ latest \in BOOLEAN /\ sync \in Syncs
  BY <1>4 DEF Init, IndexInit
<1>6. watch = "watching" /\ faults = 0
  BY DEF Init, IndexInit
<1>7. heard \in BOOLEAN /\ queue \in BOOLEAN /\ missed \in BOOLEAN /\ left \in BOOLEAN
  BY Zenon DEF Init, IndexInit
<1> QED
  BY <1>1, <1>3, <1>5, <1>6, <1>7, CorpusAssumption DEF TypeOK

LEMMA InitIndex == Init => Index
<1> SUFFICES ASSUME Init PROVE Index
  OBVIOUS
<1>1. path = 1 /\ temp = [o \in Ops |-> 0] /\ sync.pc = "idle"
  BY DEF Init, FolderInit, IndexInit, NoSync
<1>2. row.live /\ row.tok = Token(path) /\ row.rev = row.tok
  BY <1>1 DEF Init, IndexInit
<1>4. NoChangeForgotten
  BY <1>1, <1>2 DEF NoChangeForgotten, InSync, OnPath
<1>3. StraysPend
  BY <1>1 DEF StraysPend, Stray
<1> QED
  BY <1>1, <1>3, <1>4 DEF Index, LateIsMissed, Locked, ScanIsTrue, IngestIsTrue

\* The index of a local Corpus and the folder it indexes keep their types.
THEOREM TypeCorrect == Spec => []TypeOK
BY InitTypes, TypesKeep, PTL DEF Spec

\* What is stored, scanned and extracted is the file, or a change is noted.
THEOREM IndexInvariant == Spec => []IndexInv
<1>1. Init => TypeOK /\ Index
  BY InitTypes, InitIndex
<1>2. TypeOK /\ Index /\ [Next]_vars => TypeOK' /\ Index'
  BY TypesKeep, IndexStep
<1>3. TypeOK /\ Index => IndexInv
  BY DEF Index, IndexInv
<1> QED
  BY <1>1, <1>2, <1>3, PTL DEF Spec

\* No acknowledgement of the watcher's queue, in whatever order scans, saves,
\* foreign edits, events and failures come, forgets a change of the file.
THEOREM ChangesRemembered == Spec => []NoChangeForgotten
<1>1. IndexInv => NoChangeForgotten
  BY DEF IndexInv
<1> QED
  BY <1>1, IndexInvariant, PTL
=============================================================================
