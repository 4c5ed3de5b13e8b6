--------------------------- MODULE FolderChanges ---------------------------
(***************************************************************************)
(* What the operations on a connected work folder do to the directory and  *)
(* to its queue of changed paths, and nothing of how they decide it.       *)
(* WorkFolder implements this; LocalCorpus is composed with it.            *)
(***************************************************************************)
EXTENDS Integers

CONSTANTS
    MaxOps,    \* operations started
    MaxEdits   \* edits by other programs

ASSUME FolderAssumption == MaxOps \in Nat /\ MaxEdits \in Nat

Ops == 1..MaxOps

VARIABLES
    path,     \* the inode under the file's name, 0 when there is none
    inodes,   \* how many inodes there have been
    ctime,    \* how often an inode was linked, unlinked or renamed
    temp,     \* the inode under an operation's temporary name, 0 when none
    mark,     \* the path's entry in the index change queue
    busy,     \* the operation that holds the lock, 0 when there is none
    phase,    \* what it has done to the directory so far
    started,
    edits

folder == <<path, inodes, ctime, temp, mark, busy, phase, started, edits>>
names == <<path, inodes, ctime, temp>>

Absent == <<0, 0>>
Token(i) == IF i = 0 THEN Absent ELSE <<i, ctime[i]>>

FolderInit ==
    /\ path = 1 /\ inodes = 1
    /\ ctime = [i \in 1..(1 + MaxOps + MaxEdits) |-> 0]
    /\ temp = [o \in Ops |-> 0]
    /\ mark = "none"
    /\ busy = 0 /\ phase = "none" /\ started = 0 /\ edits = 0

\* A path whose index is already known to be stale stays so.
Announced == IF mark = "dirty" THEN "dirty" ELSE "prepared"
Withdrawn == IF mark = "prepared" THEN "none" ELSE mark

\* Nothing is touched before the path is in the queue.
Announce ==
    /\ busy = 0 /\ started < MaxOps
    /\ started' = started + 1 /\ busy' = started + 1
    /\ phase' = "announced"
    /\ mark' = Announced
    /\ UNCHANGED <<names, edits>>

Stage ==
    /\ phase = "announced"
    /\ phase' = "staged"
    /\ inodes' = inodes + 1
    /\ temp' = [temp EXCEPT ![busy] = inodes + 1]
    /\ UNCHANGED <<path, ctime, mark, busy, started, edits>>

\* Exchanging two names changes the ctime of both inodes.  What was exchanged
\* may be exchanged back.
Exchanged(i, j) == [ctime EXCEPT ![i] = @ + 1, ![j] = @ + 1]
Exchange ==
    /\ phase \in {"staged", "moved"} /\ path # 0 /\ temp[busy] \notin {0, path}
    /\ phase' = IF phase = "staged" THEN "moved" ELSE "back"
    /\ path' = temp[busy]
    /\ temp' = [temp EXCEPT ![busy] = path]
    /\ ctime' = Exchanged(path, temp[busy])
    /\ UNCHANGED <<inodes, mark, busy, started, edits>>

Link ==
    /\ phase = "staged" /\ path = 0
    /\ path' = temp[busy]
    /\ ctime' = [ctime EXCEPT ![temp[busy]] = @ + 1]
    /\ phase' = "moved"
    /\ UNCHANGED <<inodes, temp, mark, busy, started, edits>>

Unlink ==
    /\ phase = "announced" /\ path # 0
    /\ path' = 0
    /\ phase' = "moved"
    /\ UNCHANGED <<inodes, ctime, temp, mark, busy, started, edits>>

\* The temporary name goes; a file that has another name sees it.
Drop ==
    /\ temp' = [temp EXCEPT ![busy] = 0]
    /\ ctime' = IF temp[busy] = path /\ path # 0
                THEN [ctime EXCEPT ![path] = @ + 1] ELSE ctime
DropTemporary ==
    /\ phase \in {"moved", "back"} /\ temp[busy] # 0
    /\ Drop
    /\ UNCHANGED <<path, inodes, mark, busy, phase, started, edits>>

Over == busy' = 0 /\ phase' = "none"

\* The operation succeeded: the index of the path is stale.
MarkDirty ==
    /\ phase = "moved"
    /\ mark' = "dirty"
    /\ \/ Over
       \/ UNCHANGED <<busy, phase>>
    /\ UNCHANGED <<names, started, edits>>

\* It ends, gives up or dies.  The path leaves the queue only if the
\* operation never touched it, or if there is no file again.
Release ==
    /\ busy # 0
    /\ Over
    /\ \/ mark' = mark
       \/ mark' = Withdrawn /\ (phase \in {"announced", "staged"} \/ path = 0)
    /\ UNCHANGED <<temp, ctime>> \/ Drop
    /\ UNCHANGED <<path, inodes, started, edits>>

EditorSaves ==
    /\ edits < MaxEdits
    /\ edits' = edits + 1
    /\ inodes' = inodes + 1
    /\ path' = inodes + 1
    /\ UNCHANGED <<ctime, temp, mark, busy, phase, started>>

EditorRemoves ==
    /\ edits < MaxEdits /\ path # 0
    /\ edits' = edits + 1
    /\ path' = 0
    /\ UNCHANGED <<inodes, ctime, temp, mark, busy, phase, started>>

FolderNext ==
    \/ Announce \/ Stage \/ Exchange \/ Link \/ Unlink \/ DropTemporary
    \/ MarkDirty \/ Release
    \/ EditorSaves \/ EditorRemoves

FolderSpec == FolderInit /\ [][FolderNext]_folder

-----------------------------------------------------------------------------
\* An operation makes one inode, an edit one.
FolderTypeOK ==
    /\ started \in 0..MaxOps /\ edits \in 0..MaxEdits
    /\ inodes \in Nat \ {0}
    /\ inodes <= 1 + edits + (IF phase = "announced" THEN started - 1 ELSE started)
    /\ path \in 0..inodes
    /\ ctime \in [1..(1 + MaxOps + MaxEdits) -> Nat]
    /\ temp \in [Ops -> 0..inodes]
    /\ mark \in {"none", "prepared", "dirty"}
    /\ busy \in 0..started
    /\ phase \in {"none", "announced", "staged", "moved", "back"}
    /\ busy = 0 <=> phase = "none"
=============================================================================
