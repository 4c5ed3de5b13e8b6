---------------------------- MODULE LocalCorpus ----------------------------
(***************************************************************************)
(* The local Corpus index of a connected work folder (engines/corpus:      *)
(* maintenance.py, scanner.py, service.py): a watcher that hears of        *)
(* changes and queues them, the sync that scans the folder, extracts what  *)
(* is out of date and acknowledges the queue, and the step that clears the *)
(* work folder's queue of changed paths once the index has caught up.      *)
(*                                                                         *)
(* The folder is WorkFolder's: one file, the temporary names its saves     *)
(* pass through, and an editor nobody controls.  A sync holds writer.lock, *)
(* a save holds workspace_writer_lock, and neither waits for the other.    *)
(***************************************************************************)
EXTENDS FolderChanges, FiniteSets

CONSTANTS
    MaxFaults,  \* crashes, failed extractions, locks not to be had, and syncs
                \* with a limit that the file exceeds
    Built       \* what the first projection can be

\* A revision's projection was made by the registered adapter ("now"), or by an
\* earlier one ("old"), the registered one having failed on it ("failed").
Projections == {"now", "old", "failed"}

ASSUME CorpusAssumption == MaxFaults \in Nat /\ Built \subseteq Projections

VARIABLES
    row,      \* the documents row of the path, and its current revision
    known,    \* temporary names that have a row of their own
    latest,   \* the newest scan run was complete
    sync,     \* the sync that is under way
    watch,    \* the maintenance worker's loop
    heard,    \* an event is in the observer or among the pending paths
    queue,    \* source_change_queue has an entry
    faults,   \* what MaxFaults counts
    missed,   \* ghost: a change no event, no entry and no acknowledged scan tells of
    left      \* ghost: the row's version exceeds the limit of a sync that met it

vars == <<folder, row, known, latest, sync, watch, heard, queue, faults, missed, left>>

\* The path is name 0, the temporary name of operation o is name o.
Names == 0..MaxOps
Under(n) == IF n = 0 THEN path ELSE temp[n]

\* tok: the observation in the row; rev: the one its current revision was
\* extracted from; by: the projection of that revision.
NoRow == [tok |-> Absent, rev |-> Absent, live |-> FALSE, by |-> "old"]
NoSync == [pc |-> "idle", draft |-> NoRow, todo |-> {}, seen |-> FALSE, met |-> {},
           whole |-> TRUE, late |-> FALSE]

IndexInit ==
    /\ \E b \in Built : row = [tok |-> Token(1), rev |-> Token(1), live |-> TRUE, by |-> b]
    /\ known = {}
    /\ latest = TRUE
    /\ sync = NoSync
    /\ watch = "watching"
    /\ heard = FALSE /\ queue = FALSE /\ missed = FALSE /\ left = FALSE /\ faults = 0

Init == FolderInit /\ IndexInit

\* Something fails, at most MaxFaults times.
Fault == faults < MaxFaults /\ faults' = faults + 1

-----------------------------------------------------------------------------
(* The folder's own steps, and what the observer makes of them *)

Observing == watch \in {"watching", "syncing"}
Locked == sync.pc \in {"scan", "ingest", "index"}

\* A change no event will tell of; a scan that has begun may be past it.  An
\* entry in the queue stands for it, and is acknowledged with a later scan.
Miss == missed' = ~queue /\ sync' = [sync EXCEPT !.late = Locked]

Hear ==
    \/ /\ names' = names
       /\ UNCHANGED <<heard, missed, sync>>
    \/ /\ names' # names
       /\ IF Observing THEN heard' = TRUE /\ UNCHANGED <<missed, sync>>
                       ELSE Miss /\ UNCHANGED heard

Folder == FolderNext /\ Hear /\ UNCHANGED <<row, known, latest, watch, queue, faults, left>>

-----------------------------------------------------------------------------
(* sync: scan_corpus *)

\* The watcher's own sync, in run_once and in the loop.
Mine == watch \in {"waiting", "syncing"}
SyncBegin ==
    /\ sync.pc = "idle"
    /\ sync' = [NoSync EXCEPT !.pc = "scan", !.draft = row,
                  !.todo = {n \in Names : Under(n) # 0}]
    /\ UNCHANGED <<folder, faults, row, known, latest, heard, queue, missed, left>>

CallerSyncs == SyncBegin /\ UNCHANGED watch

\* What has just been queued was read before the lock was waited for.
WatcherSyncs ==
    /\ watch = "process" \/ (watch = "watching" /\ queue)
    /\ SyncBegin
    /\ watch' = IF watch = "process" THEN "waiting" ELSE "syncing"

\* _record_regular_file for the path: its row, or a new one, is what lstat saw.
Vanished(n) == Under(n) = 0 /\ sync' = [sync EXCEPT !.todo = @ \ {n}, !.whole = FALSE]
ScanPath ==
    /\ sync.pc = "scan" /\ 0 \in sync.todo
    /\ \/ /\ path # 0
          /\ sync' = [sync EXCEPT !.todo = @ \ {0}, !.seen = TRUE,
                        !.draft = [@ EXCEPT !.tok = Token(path), !.live = TRUE]]
       \/ Vanished(0)
    /\ UNCHANGED <<folder, faults, row, known, latest, watch, heard, queue, missed, left>>

\* The same for a temporary name, of which only this matters: met before the
\* path, and if it has no row yet, it takes the row of the path's old file
\* along as a file that has moved.
Moved(o) == temp[o] = sync.draft.tok[1] /\ ~sync.seen /\ o \notin known
ScanTemporary(o) ==
    /\ sync.pc = "scan" /\ o \in sync.todo
    /\ \/ /\ temp[o] # 0
          /\ sync' = [sync EXCEPT !.todo = @ \ {o}, !.met = @ \cup {o},
                        !.draft = IF Moved(o) THEN NoRow ELSE @]
       \/ Vanished(o)
    /\ UNCHANGED <<folder, faults, row, known, latest, watch, heard, queue, missed, left>>

\* Only a complete scan tells that a row's file is gone.
Inventory ==
    IF sync.whole /\ ~sync.seen THEN [sync.draft EXCEPT !.live = FALSE] ELSE sync.draft

\* _pending_documents, _pending_state_summary: temporary names have no supported
\* extension.  What the registered adapter has failed on is not tried again
\* before the file is observed to have changed.
Current(r) == r.rev = r.tok /\ r.by = "now"
Failed(r) == r.rev = r.tok /\ r.by = "failed"
Refreshable(r) == r.live /\ ~Current(r) /\ ~Failed(r)
Selected == Refreshable(Inventory) /\ (sync.whole \/ sync.seen)

\* The queue is acknowledged under the lock the scan was made under.
Settled_Anyway(remaining) == TRUE
Settled(remaining) == sync.whole /\ ~remaining
Acknowledge(remaining) ==
    /\ IF Settled(remaining) THEN queue' = FALSE /\ missed' = sync.late
                             ELSE UNCHANGED <<queue, missed>>
    /\ sync' = [NoSync EXCEPT !.pc = "judge"]

\* A file above max_file_bytes does not count as remaining.  The worker's limit
\* is the highest there is; a caller chooses one.
TooLarge == ~Mine /\ Fault /\ left' = TRUE /\ Acknowledge(FALSE)
ScanCommit ==
    /\ sync.pc = "scan" /\ sync.todo = {}
    /\ row' = Inventory
    /\ known' = known \cup sync.met
    /\ latest' = sync.whole
    /\ \/ Selected /\ TooLarge
       \/ /\ left' = (left /\ Inventory.tok = row.tok)
          /\ UNCHANGED faults
          /\ IF Selected
             THEN /\ sync' = [NoSync EXCEPT !.pc = "ingest", !.whole = sync.whole,
                                            !.late = sync.late]
                  /\ UNCHANGED <<queue, missed>>
             ELSE Acknowledge(FALSE)
    /\ UNCHANGED <<folder, watch, heard>>

-----------------------------------------------------------------------------
(* sync: _ingest_document and the acknowledgement *)

\* The file must still be the one that was scanned, before and after it is
\* copied.
Capture ==
    /\ sync.pc = "ingest"
    /\ IF Token(path) = row.tok
       THEN sync' = [sync EXCEPT !.pc = "index"] /\ UNCHANGED <<queue, missed>>
       ELSE Acknowledge(TRUE)
    /\ UNCHANGED <<folder, faults, row, known, latest, watch, heard, left>>

Returned == IF Mine THEN "watching" ELSE watch
Observed(b) == row' = [row EXCEPT !.rev = row.tok, !.by = b] /\ left' = FALSE

\* The extraction may fail: of a file whose content the current revision has, on
\* that revision, which is then observed anew, and of any other on a revision of
\* its own, which does not become current.  The sync may fail once it is stored.
Commit ==
    /\ sync.pc = "index"
    /\ \/ Observed("now") /\ Acknowledge(FALSE) /\ UNCHANGED <<faults, watch>>
       \/ /\ Fault /\ UNCHANGED watch
          /\ \/ UNCHANGED <<row, left>> /\ Acknowledge(TRUE)
             \/ /\ row.rev # Absent /\ row.by # "now"
                /\ Observed("failed") /\ Acknowledge(FALSE)
       \/ /\ Fault /\ Observed("now")
          /\ sync' = NoSync /\ watch' = Returned
          /\ UNCHANGED <<queue, missed>>
    /\ UNCHANGED <<folder, known, latest, heard>>

-----------------------------------------------------------------------------
(* _reconcile_workspace_index_changes, after the lock is released *)

\* A path without a row is judged by the newest scan.
CaughtUp_RowsOnly ==
    row.live /\ path # 0 /\ row.tok = Token(path) /\ Current(row)
CaughtUp ==
    IF row.live
    THEN path # 0 /\ row.tok = Token(path) /\ Current(row)
    ELSE latest

Judge ==
    /\ sync.pc = "judge"
    /\ IF mark # "none" /\ CaughtUp
       THEN sync' = [sync EXCEPT !.pc = "clear"] /\ UNCHANGED watch
       ELSE sync' = NoSync /\ watch' = Returned
    /\ UNCHANGED <<folder, faults, row, known, latest, heard, queue, missed, left>>

Clear ==
    /\ sync.pc = "clear" /\ busy = 0
    /\ mark' = "none"
    /\ sync' = NoSync /\ watch' = Returned
    /\ UNCHANGED <<names, busy, phase, started, edits, faults, row, known, latest, heard, queue, missed, left>>

-----------------------------------------------------------------------------
(* maintenance.py: watch *)

\* The new entry tells of everything that nothing told of before.
Enqueue == ~Locked /\ queue' = TRUE /\ missed' = FALSE /\ left' = FALSE

\* Waiting for the lock ends after thirty seconds.
EnqueueReconcile ==
    /\ watch = "enqueue"
    /\ \/ Enqueue /\ watch' = "process" /\ UNCHANGED faults
       \/ Locked /\ Fault /\ watch' = "watching" /\ UNCHANGED <<queue, missed, left>>
    /\ UNCHANGED <<folder, row, known, latest, sync, heard>>

\* Somebody else's sync has acknowledged the entry.
NothingQueued ==
    /\ watch = "process" /\ ~queue
    /\ watch' = "watching"
    /\ UNCHANGED <<folder, faults, row, known, latest, sync, heard, queue, missed, left>>

\* Events are drained and then queued, once the lock is free.
EnqueueChanges ==
    /\ watch = "watching" /\ heard
    /\ Enqueue
    /\ heard' = FALSE
    /\ UNCHANGED <<folder, faults, row, known, latest, sync, watch>>

\* Every fifteen minutes the observer is stopped.  Events it has not passed on
\* are lost with it; those among the pending paths are not.
Reconcile ==
    /\ watch = "watching"
    /\ watch' = "enqueue"
    /\ \/ UNCHANGED <<heard, missed, sync>>
       \/ heard /\ heard' = FALSE /\ Miss
    /\ UNCHANGED <<folder, faults, row, known, latest, queue, left>>

\* The worker dies, of a crash or because the lock was not to be had in time
\* for the events it had drained.
WatcherStops ==
    /\ watch # "down"
    /\ Fault
    /\ watch' = "down" /\ heard' = FALSE
    /\ missed' = IF heard THEN ~queue ELSE missed
    /\ sync' = IF Mine THEN NoSync
               ELSE [sync EXCEPT !.late = Locked /\ (@ \/ heard)]
    /\ UNCHANGED <<folder, row, known, latest, queue, left>>

WatcherStarts ==
    /\ watch = "down"
    /\ watch' = "enqueue"
    /\ UNCHANGED <<folder, faults, row, known, latest, sync, heard, queue, missed, left>>

\* A sync ends early, its open transaction rolled back: the worker records
\* the failure and goes on, another caller is told or has died.
SyncFails ==
    /\ sync.pc # "idle"
    /\ Fault
    /\ sync' = NoSync /\ watch' = Returned
    /\ UNCHANGED <<folder, row, known, latest, heard, queue, missed, left>>

Next ==
    \/ Folder
    \/ CallerSyncs \/ WatcherSyncs
    \/ ScanPath \/ \E o \in Ops : ScanTemporary(o)
    \/ ScanCommit \/ Capture \/ Commit \/ Judge \/ Clear
    \/ EnqueueReconcile \/ NothingQueued \/ EnqueueChanges \/ Reconcile
    \/ WatcherStops \/ WatcherStarts \/ SyncFails

Spec == Init /\ [][Next]_vars

\* The worker's loop goes on, with its timer, its syncs and its restarts; so
\* does a sync of somebody else, and an operation ends or its process does.
SyncStep ==
    \/ ScanPath \/ \E o \in Ops : ScanTemporary(o)
    \/ ScanCommit \/ Capture \/ Commit \/ Judge \/ Clear
WorkerStep ==
    \/ WatcherStarts \/ Reconcile \/ EnqueueReconcile \/ NothingQueued
    \/ WatcherSyncs
Ends == Release /\ Hear /\ UNCHANGED <<row, known, latest, watch, queue, faults, left>>
Fairness == WF_vars(SyncStep) /\ SF_vars(WorkerStep) /\ WF_vars(Ends)
FairSpec == Spec /\ Fairness

-----------------------------------------------------------------------------
(* Properties *)

OnPath == path # 0 /\ row.tok = Token(path)
InSync ==
    IF path = 0 THEN ~row.live ELSE row.live /\ OnPath /\ row.rev = row.tok

\* A change is not forgotten: whenever the index differs from the folder, an
\* event of it is on its way, or an entry is queued, or the change fell into a
\* time when nobody was listening (and no acknowledged scan has begun since).
\* The exception is a version above the limit of the sync that met it, which
\* acknowledges it: its row then tells of it, and of no other version.  Scans,
\* saves, edits, acknowledgements and failures come in any order (sync: "Events
\* queued after this point therefore remain pending").
NoChangeForgotten ==
    InSync \/ heard \/ queue \/ missed \/ (left /\ row.live /\ OnPath)

\* Once the folder is left alone its evidence can be used again: the index is
\* in step with the file, and the marker that turns every answer about the path
\* into "changed" is gone.  Only where the registered adapter failed on a content
\* that an earlier one had extracted does the marker stay, with that extraction
\* (_reconcile_workspace_index_changes, watch).
EvidenceRecovers ==
    <>[](InSync /\ (mark = "none" \/ (row.live /\ Failed(row))))

-----------------------------------------------------------------------------
(* The invariant behind the theorems *)

Rows == [tok : Nat \X Nat, rev : Nat \X Nat, live : BOOLEAN, by : Projections]
Syncs == [pc : {"idle", "scan", "ingest", "index", "judge", "clear"}, draft : Rows,
          todo : SUBSET Names, seen : BOOLEAN, met : SUBSET Ops, whole : BOOLEAN,
          late : BOOLEAN]
TypeOK ==
    /\ FolderTypeOK
    /\ row \in Rows /\ known \in SUBSET Ops /\ latest \in BOOLEAN
    /\ sync \in Syncs
    /\ watch \in {"down", "enqueue", "process", "waiting", "watching", "syncing"}
    /\ heard \in BOOLEAN /\ queue \in BOOLEAN /\ missed \in BOOLEAN /\ left \in BOOLEAN
    /\ faults \in 0..MaxFaults

\* A change since the sync's scan began has been noted: it outlives the
\* acknowledgement of the queue.
Noted == heard \/ sync.late
Pends == heard \/ queue \/ missed

\* A new file is for a while linked under its temporary name as well.
Stray(o) == path # 0 /\ temp[o] = path /\ o \notin known
StraysPend == \A o \in Ops : Stray(o) => Pends
LateIsMissed == Locked /\ sync.late => missed \/ queue

\* What a scan has passed is as it found it, or a change is noted.
ScanIsTrue ==
    sync.pc = "scan" =>
      /\ IF sync.seen THEN sync.draft.live /\ (Noted \/ (path # 0 /\ sync.draft.tok = Token(path)))
                      ELSE sync.draft \in {row, NoRow}
      /\ OnPath /\ sync.draft.rev # row.rev => Pends
      /\ \A n \in sync.todo : Under(n) # 0 \/ Noted
      /\ 0 \notin sync.todo /\ ~sync.seen => path = 0 \/ Noted
      /\ ~sync.whole => Noted
      /\ \A o \in Ops : Stray(o) /\ o \notin sync.todo \cup sync.met => Noted
IngestIsTrue ==
    sync.pc \in {"ingest", "index"} =>
      /\ Refreshable(row)
      /\ sync.whole => OnPath \/ Noted
      /\ \A o \in Ops : Stray(o) => Noted

IndexInv ==
    /\ TypeOK
    /\ NoChangeForgotten /\ StraysPend /\ LateIsMissed /\ ScanIsTrue /\ IngestIsTrue
=============================================================================
