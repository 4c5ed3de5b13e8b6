----------------------------- MODULE WorkFolder -----------------------------
(***************************************************************************)
(* A connected work folder (engines/corpus, workspaces.py): saving,        *)
(* creating, deleting and restoring one file of a folder that other        *)
(* programs write to at any moment, the recovery records that make a save  *)
(* undoable, and the queue of paths whose index has to be refreshed.       *)
(*                                                                         *)
(* All operations run under one lock (workspace_writer_lock), so there is  *)
(* one operation at a time; the editor outside knows of no lock.  A crash  *)
(* may come between any two steps, and one step may fail.                  *)
(***************************************************************************)
EXTENDS Integers, Sequences, FiniteSets

CONSTANTS
    Bytes,      \* contents of files, told apart by their sha256
    First,      \* the content of the file at the start
    MaxOps,     \* operations started
    MaxEdits,   \* edits by other programs
    MaxFaults,  \* crashes and failing steps
    MaxAges     \* recovery records that live to their expiry

ASSUME WorkFolderAssumption ==
    First \in Bytes /\ {MaxOps, MaxEdits, MaxFaults, MaxAges} \subseteq Nat

Ops == 1..MaxOps

VARIABLES
    path,      \* the inode under the file's name, 0 when there is none
    made,      \* the content of each inode; an inode never changes it
    ctime,     \* how often an inode was linked, unlinked or renamed
    temp,      \* the inode under an operation's temporary name, 0 when none
    mark,      \* the path's entry in the index change queue
    recovery,  \* workspace_recoveries, one row for each operation
    copies,    \* private recovery copies: the inode each was copied from
    stored,    \* how far the writing of each copy came
    op,        \* the operation that holds the lock
    started, edits, faults, aged,  \* what the bounds count
    owed,      \* inodes a save took away from the path and has not put back
    released   \* of these, the ones whose recovery was expired or used up

files == <<path, made, ctime, temp>>
records == <<recovery, copies, stored, released>>
counters == <<started, edits, faults, aged>>
folderVars == <<path, made, ctime, temp, mark, recovery, copies, stored, op,
                started, edits, faults, aged, owed, released>>

Absent == <<0, 0>>
Token(i) == IF i = 0 THEN Absent ELSE <<i, ctime[i]>>

NoRecovery == [state |-> "none", base |-> Absent, result |-> Absent,
               intended |-> First, linked |-> FALSE, expired |-> FALSE]
Idle == [kind |-> "none", pc |-> "idle", n |-> 0, bytes |-> First, want |-> Absent,
         phase |-> "none", from |-> 0, result |-> Absent, kept |-> FALSE, again |-> FALSE]

FolderInit ==
    /\ path = 1 /\ made = <<First>> /\ ctime = <<0>>
    /\ temp = [o \in Ops |-> 0]
    /\ mark = "none"
    /\ recovery = [o \in Ops |-> NoRecovery]
    /\ copies = [o \in Ops |-> 0]
    /\ stored = [o \in Ops |-> "none"]
    /\ op = Idle
    /\ started = 0 /\ edits = 0 /\ faults = 0 /\ aged = 0
    /\ owed = {} /\ released = {}

At(pc) == op.pc = pc
Go(pc) == op' = [op EXCEPT !.pc = pc]
Went(pc, phase) == op' = [op EXCEPT !.pc = pc, !.phase = phase]

\* A step fails, at most MaxFaults times.
Fault == faults < MaxFaults /\ faults' = faults + 1

\* The temporary name goes; a file that has another name sees it.
Drop ==
    /\ temp' = [temp EXCEPT ![op.n] = 0]
    /\ ctime' = IF temp[op.n] = path /\ path # 0
                THEN [ctime EXCEPT ![path] = @ + 1] ELSE ctime

\* Exchanging two names changes the ctime of both inodes, not their mtime.
Exchanged(i, j) == [ctime EXCEPT ![i] = @ + 1, ![j] = @ + 1]

-----------------------------------------------------------------------------
(* Maintenance of the recovery records: _maintain_recoveries_locked *)

Live(row) == row.state \in {"prepared", "available"}

\* Only the newest undo point of a path is kept.
Superseded(rows, o) ==
    /\ rows[o].state = "available"
    /\ \E p \in Ops : p > o /\ rows[p].state = "available"
Expired(rows, o) == Live(rows[o]) /\ rows[o].expired

\* A record that was only prepared, once the operation it belongs to is gone.
Prepared(rows, o) == rows[o].state = "prepared" /\ ~rows[o].expired /\ path # 0
Untouched(rows, o) == Prepared(rows, o) /\ Token(path) = rows[o].base
Landed(rows, o) ==
    /\ Prepared(rows, o) /\ ~Untouched(rows, o)
    /\ rows[o].intended = made[path]
Undoable_Unchecked(rows, o) == Landed(rows, o)
\* Its copy has to be there; nobody looks at how much of the file it holds.
Undoable(rows, o) == Landed(rows, o) /\ rows[o].linked /\ copies[o] # 0

GivenUp(rows, o) ==
    \/ Superseded(rows, o) \/ Expired(rows, o)
    \/ Untouched(rows, o) \/ (Landed(rows, o) /\ ~Undoable(rows, o))

Discarded == [NoRecovery EXCEPT !.state = "discarded"]
Maintained(rows) ==
    [o \in Ops |->
       IF GivenUp(rows, o) THEN Discarded
       ELSE IF Undoable(rows, o)
            THEN [rows[o] EXCEPT !.state = "available", !.result = Token(path)]
            ELSE rows[o]]

\* Copies no record names are removed with those of the discarded ones.
Referenced(rows) == [o \in Ops |-> IF rows[o].linked THEN copies[o] ELSE 0]
CopyOf(S) == {copies[o] : o \in {p \in S : stored[p] = "whole"}} \ {0}
Spent(rows) == owed \cap CopyOf({o \in Ops : Superseded(rows, o) \/ Expired(rows, o)})

Maintain(rows) ==
    /\ recovery' = Maintained(rows)
    /\ copies' = Referenced(Maintained(rows))
    /\ released' = released \cup Spent(rows)
    /\ UNCHANGED stored

MaintainRecoveries ==
    /\ At("idle")
    /\ Maintain(recovery)
    /\ UNCHANGED <<files, mark, op, counters, owed>>

\* A crash after the rows are written and before their copies are removed.
MaintainCrash ==
    /\ At("idle")
    /\ Fault
    /\ recovery' = Maintained(recovery)
    /\ released' = released \cup Spent(recovery)
    /\ UNCHANGED <<files, mark, copies, stored, op, started, edits, aged, owed>>

RecoveryAges(o) ==
    /\ Live(recovery[o]) /\ ~recovery[o].expired /\ aged < MaxAges
    /\ recovery' = [recovery EXCEPT ![o].expired = TRUE]
    /\ aged' = aged + 1
    /\ UNCHANGED <<files, mark, copies, stored, op, started, edits, faults, owed, released>>

-----------------------------------------------------------------------------
(* The index change queue *)

Announced_Late == mark
\* A path whose index is already known to be stale stays so.
Announced == IF mark = "dirty" THEN "dirty" ELSE "prepared"
Withdrawn == IF mark = "prepared" THEN "none" ELSE mark

-----------------------------------------------------------------------------
(* Starting an operation *)

Start(kind, bytes, from, pc) ==
    /\ At("idle") /\ started < MaxOps
    /\ started' = started + 1
    /\ op' = [Idle EXCEPT !.kind = kind, !.pc = pc, !.n = started + 1,
                          !.phase = "announced", !.bytes = bytes, !.want = Token(path), !.from = from]
    /\ mark' = Announced
    /\ UNCHANGED <<files, edits, faults, aged, owed>>

\* write: the caller names the version it read; a new file, or another
\* content for the one that is there.
BeginCreate(b) == path = 0 /\ Start("create", b, 0, "stage") /\ Maintain(recovery)
BeginReplace(b) == path # 0 /\ Start("replace", b, 0, "record") /\ Maintain(recovery)

\* The intent is stored before the file is touched.
Record ==
    /\ At("record")
    /\ recovery' = [recovery EXCEPT ![op.n] =
          [state |-> "prepared", base |-> op.want, result |-> Absent,
           intended |-> op.bytes, linked |-> TRUE, expired |-> FALSE]]
    /\ Go("stage")
    /\ UNCHANGED <<files, mark, copies, stored, counters, owed, released>>

\* restore: of the records left by the maintenance, one whose file is still
\* the one its save put there.
Restorable(r) ==
    LET row == Maintained(recovery)[r]
    IN /\ path # 0
       /\ row.linked /\ copies[r] # 0
       /\ \/ row.state = "available" /\ row.result = Token(path)
          \/ row.state = "prepared" /\ row.intended = made[path]

\* What a copy holds: when its writer died before the end, some beginning of
\* the file, which may be any content.
Contents(r) == IF stored[r] = "whole" THEN {made[copies[r]]} ELSE Bytes

BeginRestore(r) ==
    /\ Restorable(r)
    /\ \E b \in Contents(r) : Start("restore", b, r, "stage")
    /\ Maintain(recovery)

\* delete: the version is compared before the entry is queued.
BeginDelete ==
    /\ path # 0
    /\ Start("delete", First, 0, "unlink")
    /\ UNCHANGED records

-----------------------------------------------------------------------------
(* Replacing the file: write and restore *)

\* The content goes to a temporary file beside the one that is replaced, if
\* that one is still the version the caller read.
Stage ==
    /\ At("stage")
    /\ \/ /\ Token(path) = op.want
          /\ made' = Append(made, op.bytes)
          /\ ctime' = Append(ctime, 0)
          /\ temp' = [temp EXCEPT ![op.n] = Len(made) + 1]
          /\ Went(IF op.kind = "create" THEN "link" ELSE "exchange", "staged")
          /\ UNCHANGED <<path, faults>>
       \/ /\ Token(path) # op.want
          /\ Go("undo")
          /\ UNCHANGED <<files, faults>>
       \/ /\ Fault
          /\ Go("undo")
          /\ UNCHANGED files
    /\ UNCHANGED <<mark, records, started, edits, aged, owed>>

Swap ==
    /\ path' = temp[op.n]
    /\ temp' = [temp EXCEPT ![op.n] = path]
    /\ ctime' = Exchanged(path, temp[op.n])

\* The two names change places in one step of the file system, whatever the
\* path holds by now; without a file there the call fails.
Exchange ==
    /\ At("exchange")
    /\ \/ /\ path # 0
          /\ Swap
          /\ owed' = IF op.kind = "replace" THEN owed \cup {path} ELSE owed
          /\ Went("verify", "moved")
          /\ UNCHANGED faults
       \/ /\ path = 0
          /\ Go("undo")
          /\ UNCHANGED <<path, ctime, temp, owed, faults>>
       \/ /\ Fault
          /\ Go("undo")
          /\ UNCHANGED <<path, ctime, temp, owed>>
    /\ UNCHANGED <<made, mark, records, started, edits, aged>>

\* _same_file_after_exchange: what came out must be what was read before.
\* If it is not, the exchange is taken back, and once more if that fails.
SameFile_Any == TRUE
SameFile == temp[op.n] = op.want[1]
Verify ==
    /\ At("verify")
    /\ \/ /\ SameFile
          /\ Go(IF op.kind = "replace" THEN "copy" ELSE "observe")
          /\ UNCHANGED faults
       \/ /\ ~SameFile
          /\ op' = [op EXCEPT !.pc = "rollback", !.again = TRUE]
          /\ UNCHANGED faults
       \/ /\ Fault
          /\ Go("rollback")
    /\ UNCHANGED <<files, mark, records, started, edits, aged, owed>>

\* The old content is stored privately before its last name is removed.  The
\* copy has its final name from the first byte on, and is removed on an error.
CopyBegin ==
    /\ At("copy")
    /\ copies' = [copies EXCEPT ![op.n] = temp[op.n]]
    /\ stored' = [stored EXCEPT ![op.n] = "begun"]
    /\ Go("copying")
    /\ UNCHANGED <<files, mark, recovery, released, counters, owed>>

CopyEnd ==
    /\ At("copying")
    /\ \/ /\ stored' = [stored EXCEPT ![op.n] = "whole"]
          /\ Go("observe")
          /\ UNCHANGED <<copies, faults>>
       \/ /\ Fault
          /\ copies' = [copies EXCEPT ![op.n] = 0]
          /\ stored' = [stored EXCEPT ![op.n] = "none"]
          /\ Go("rollback")
    /\ UNCHANGED <<files, mark, recovery, released, started, edits, aged, owed>>

\* The result is what the path holds now; then the temporary name goes.
Observe ==
    /\ At("observe")
    /\ \/ /\ path # 0
          /\ op' = [op EXCEPT !.pc = "dirty", !.result = Token(path)]
          /\ temp' = [temp EXCEPT ![op.n] = 0]
          /\ UNCHANGED faults
       \/ /\ path = 0
          /\ Go("rollback")
          /\ UNCHANGED <<temp, faults>>
       \/ /\ Fault
          /\ Go("rollback")
          /\ UNCHANGED temp
    /\ UNCHANGED <<path, made, ctime, mark, records, started, edits, aged, owed>>

\* Taking the exchange back.  When that is not possible the temporary name,
\* which may be the last one of the old content, is left alone.
Kept_Never == FALSE
Kept == ~op.again
Rollback ==
    /\ At("rollback")
    /\ \/ /\ path # 0
          /\ Swap
          /\ owed' = owed \ {temp[op.n]}
          /\ Went("undo", "back")
          /\ UNCHANGED faults
       \/ /\ path = 0
          /\ op' = [op EXCEPT !.pc = IF op.again THEN "rollback" ELSE "undo",
                              !.kept = Kept, !.again = FALSE]
          /\ UNCHANGED <<path, ctime, temp, owed, faults>>
       \/ /\ Fault
          /\ op' = [op EXCEPT !.pc = IF op.again THEN "rollback" ELSE "undo",
                              !.kept = Kept, !.again = FALSE]
          /\ UNCHANGED <<path, ctime, temp, owed>>
    /\ UNCHANGED <<made, mark, records, started, edits, aged>>

\* The operation gives up: its temporary file, its copy and its record go,
\* and the queue entry when the file is as it was.
Unchanged == IF op.kind = "delete" THEN TRUE ELSE Token(path) = op.want
GiveUp ==
    /\ IF op.kept THEN UNCHANGED <<temp, ctime>> ELSE Drop
    /\ mark' = IF op.kind # "restore" /\ Unchanged THEN Withdrawn ELSE mark
    /\ op' = Idle
    /\ IF op.kind = "replace" THEN copies' = [copies EXCEPT ![op.n] = 0]
                              ELSE UNCHANGED copies
    /\ UNCHANGED <<path, made, stored, released, started, edits, aged, owed>>

Undo ==
    /\ At("undo")
    /\ \/ /\ recovery' = IF op.kind = "replace"
                         THEN [recovery EXCEPT ![op.n] = Discarded] ELSE recovery
          /\ UNCHANGED faults
       \/ /\ op.kind = "replace"
          /\ Fault
          /\ UNCHANGED recovery
    /\ GiveUp

-----------------------------------------------------------------------------
(* Creating and deleting *)

\* A link fails when the name exists: nobody's new file is overwritten.
Link ==
    /\ At("link")
    /\ \/ /\ path = 0
          /\ path' = temp[op.n]
          /\ ctime' = [ctime EXCEPT ![temp[op.n]] = @ + 1]
          /\ Went("cleanup", "moved")
          /\ UNCHANGED faults
       \/ /\ path # 0
          /\ Go("undo")
          /\ UNCHANGED <<path, ctime, faults>>
       \/ /\ Fault
          /\ Go("undo")
          /\ UNCHANGED <<path, ctime>>
    /\ UNCHANGED <<made, temp, mark, records, started, edits, aged, owed>>

Cleanup ==
    /\ At("cleanup")
    /\ \/ /\ Drop
          /\ op' = IF path = 0 THEN [op EXCEPT !.pc = "undo"]
                   ELSE [op EXCEPT !.pc = "dirty",
                                   !.result = <<path, ctime'[path]>>]
          /\ UNCHANGED faults
       \/ /\ Fault
          /\ Go("undo")
          /\ UNCHANGED <<temp, ctime>>
    /\ UNCHANGED <<path, made, mark, records, started, edits, aged, owed>>

\* The name is removed, whatever it holds by now.
Unlink ==
    /\ At("unlink")
    /\ \/ /\ path # 0
          /\ path' = 0
          /\ Went("dirty", "moved")
          /\ UNCHANGED faults
       \/ /\ path = 0
          /\ Go("undo")
          /\ UNCHANGED <<path, faults>>
       \/ /\ Fault
          /\ Go("undo")
          /\ UNCHANGED path
    /\ UNCHANGED <<made, ctime, temp, mark, records, started, edits, aged, owed>>

-----------------------------------------------------------------------------
(* The bookkeeping after the file is in place *)

MarkDirty ==
    /\ At("dirty")
    /\ \/ mark' = "dirty" /\ UNCHANGED faults
       \/ Fault /\ UNCHANGED mark
    /\ op' = IF op.kind \in {"replace", "restore"}
             THEN [op EXCEPT !.pc = "finalize"] ELSE Idle
    /\ UNCHANGED <<files, records, started, edits, aged, owed>>

Available ==
    [recovery EXCEPT ![op.n].state = "available", ![op.n].result = op.result]

\* The row and the maintenance after it; when the first transaction fails,
\* the row alone is tried once more, and what follows may fail as well.
FinishReplace ==
    /\ At("finalize") /\ op.kind = "replace"
    /\ \/ /\ recovery[op.n].state = "prepared"
          /\ Maintain(Available)
          /\ UNCHANGED faults
       \/ /\ Fault
          /\ recovery' \in {recovery, Available}
          /\ UNCHANGED <<copies, stored, released>>
    /\ op' = Idle
    /\ UNCHANGED <<files, mark, started, edits, aged, owed>>

FinishRestore ==
    /\ At("finalize") /\ op.kind = "restore"
    /\ \/ /\ recovery' = [recovery EXCEPT ![op.from].state = "restored"]
          /\ copies' = [copies EXCEPT ![op.from] = 0]
          /\ released' = released \cup (owed \cap CopyOf({op.from}))
          /\ UNCHANGED <<stored, faults>>
       \/ /\ Fault
          /\ UNCHANGED records
    /\ op' = Idle
    /\ UNCHANGED <<files, mark, started, edits, aged, owed>>

-----------------------------------------------------------------------------
(* Everybody else *)

\* Other programs save by renaming a new file over the path, or remove it.
EditorSaves(b) ==
    /\ edits < MaxEdits
    /\ edits' = edits + 1
    /\ made' = Append(made, b)
    /\ ctime' = Append(ctime, 0)
    /\ path' = Len(made) + 1
    /\ UNCHANGED <<temp, mark, records, op, started, faults, aged, owed>>

EditorRemoves ==
    /\ edits < MaxEdits /\ path # 0
    /\ edits' = edits + 1
    /\ path' = 0
    /\ UNCHANGED <<made, ctime, temp, mark, records, op, started, faults, aged, owed>>

\* The process dies: the lock is released, and whatever is on disk stays, a copy
\* of which only the beginning was written too.
WriterCrash ==
    /\ ~At("idle")
    /\ Fault
    /\ op' = Idle
    /\ stored' = IF At("copying") THEN [stored EXCEPT ![op.n] = "cut"] ELSE stored
    /\ UNCHANGED <<files, mark, recovery, copies, released, started, edits, aged, owed>>

FolderNext ==
    \/ \E b \in Bytes : BeginCreate(b) \/ BeginReplace(b) \/ EditorSaves(b)
    \/ \E r \in Ops : BeginRestore(r) \/ RecoveryAges(r)
    \/ BeginDelete \/ Record \/ Stage \/ Exchange \/ Verify
    \/ CopyBegin \/ CopyEnd \/ Observe \/ Rollback \/ Undo \/ Link \/ Cleanup \/ Unlink
    \/ MarkDirty \/ FinishReplace \/ FinishRestore
    \/ MaintainRecoveries \/ MaintainCrash
    \/ EditorRemoves \/ WriterCrash

Spec == FolderInit /\ [][FolderNext]_folderVars

-----------------------------------------------------------------------------
(* Properties *)

\* A content that a save took away from the path is not lost before its
\* recovery expires or is used up: it is back at the path, or under a
\* temporary name, or in a private copy that is whole (write: 2213-2215,
\* 2490-2510).
ReplacedIsKept ==
    \A i \in owed \ released :
      i = path \/ \E o \in Ops : temp[o] = i \/ (copies[o] = i /\ stored[o] = "whole")

\* A save that is offered for undoing gives back the very version its caller
\* had read: nothing that came between was overwritten unseen, and the copy
\* exists and is whole.  The exception is a process that died while it wrote
\* the copy: the maintenance offers its beginning as if it were the file.
UndoIsTrue ==
    \A o \in Ops : recovery[o].state = "available" =>
      copies[o] = recovery[o].base[1] /\ stored[o] \in {"whole", "cut"}

\* What the operations do to the directory and to the queue of changed paths
\* is what the index is checked against (FolderChanges): nothing is touched
\* before its path is queued, and a path leaves the queue only untouched.
Counted == [i \in 1..(1 + MaxOps + MaxEdits) |-> IF i <= Len(ctime) THEN ctime[i] ELSE 0]
Changes ==
    INSTANCE FolderChanges
        WITH inodes <- Len(made), ctime <- Counted, busy <- op.n, phase <- op.phase
ImplementsChanges == Changes!FolderSpec

-----------------------------------------------------------------------------
(* The invariant behind the theorems *)

Pcs == {"idle", "record", "stage", "exchange", "verify", "copy", "copying",
        "observe", "rollback", "undo", "link", "cleanup", "unlink", "dirty", "finalize"}
Operations == [kind : {"none", "create", "replace", "restore", "delete"}, pc : Pcs,
               n : 0..MaxOps, bytes : Bytes, want : Nat \X Nat,
               phase : {"none", "announced", "staged", "moved", "back"},
               from : 0..MaxOps, result : Nat \X Nat, kept : BOOLEAN, again : BOOLEAN]
Recoveries == [state : {"none", "prepared", "available", "discarded", "restored"},
               base : Nat \X Nat, result : Nat \X Nat, intended : Bytes,
               linked : BOOLEAN, expired : BOOLEAN]
FilesOK ==
    /\ made \in Seq(Bytes) /\ ctime \in Seq(Nat) /\ Len(ctime) = Len(made)
    /\ path \in 0..Len(made) /\ temp \in [Ops -> 0..Len(made)]
    /\ copies \in [Ops -> 0..Len(made)]
    /\ stored \in [Ops -> {"none", "begun", "whole", "cut"}]
    /\ owed \in SUBSET (1..Len(made)) /\ released \in SUBSET (1..Len(made))
CountsOK ==
    /\ started \in 0..MaxOps /\ edits \in 0..MaxEdits
    /\ faults \in 0..MaxFaults /\ aged \in 0..MaxAges
TypeOK ==
    /\ FilesOK /\ CountsOK
    /\ mark \in {"none", "prepared", "dirty"}
    /\ recovery \in [Ops -> Recoveries]
    /\ op \in Operations

\* What each step of an operation can rely on.
Progress ==
    /\ At("idle") => op.n = 0 /\ op.phase = "none"
    /\ ~At("idle") => op.n \in 1..started /\ op.kind # "none"
    /\ op.pc \in {"record", "stage", "unlink"} => op.phase = "announced"
    /\ op.pc \in {"exchange", "link"} => op.phase = "staged"
    /\ op.pc \in {"verify", "copy", "copying", "observe", "rollback", "cleanup", "dirty",
                   "finalize"} => op.phase = "moved"
    /\ At("undo") => op.phase # "none" /\ (op.kind = "delete" => op.phase = "announced")
    /\ op.pc \in {"record", "copy", "copying"} => op.kind = "replace"
    /\ op.pc \in {"exchange", "verify", "observe", "rollback", "finalize"}
         => op.kind \in {"replace", "restore"}
    /\ op.pc \in {"link", "cleanup"} => op.kind = "create"
    /\ At("unlink") => op.kind = "delete"
    /\ At("stage") => op.kind \in {"create", "replace", "restore"}
    /\ \A o \in Ops : o > started => temp[o] = 0 /\ copies[o] = 0

\* The temporary name holds a file that is not the path's.
Staged ==
    /\ op.pc \in {"exchange", "link", "verify", "copy", "copying", "observe", "rollback",
                   "cleanup"}
         => temp[op.n] # 0
    /\ op.pc \in {"exchange", "verify", "copy", "copying", "observe", "rollback"}
         => temp[op.n] # path
    /\ op.pc \in {"record", "stage"} => temp[op.n] = 0

\* A version that was exchanged is not met again.
Versions ==
    ~At("idle") =>
      /\ op.want[1] <= Len(made)
      /\ op.kind = "create" => op.want = Absent
      /\ op.kind = "replace" => op.want[1] # 0 /\ op.want[2] <= ctime[op.want[1]]
      /\ At("exchange") => temp[op.n] # op.want[1]
      /\ op.kind = "replace" /\ op.phase \in {"moved", "back"}
           => (op.want[1] \in {path, temp[op.n]} => op.want[2] < ctime[op.want[1]])

\* An owed inode is under the temporary name that took it or in a whole copy
\* that its row names.
Holding(i) ==
    \E o \in Ops :
      temp[o] = i \/ (copies[o] = i /\ stored[o] = "whole" /\ recovery[o].linked)
OwedIsHeld ==
    /\ path \notin owed
    /\ \A i \in owed \ released : Holding(i)
    /\ ~At("idle") /\ (op.kind # "replace" \/ At("exchange") \/ (At("undo") /\ ~op.kept))
         => temp[op.n] \notin owed
    /\ op.kind = "replace" =>
         /\ op.pc \in {"record", "stage", "exchange", "verify", "copy"} => copies[op.n] = 0
         /\ op.pc \in {"copy", "copying", "observe"} => temp[op.n] = op.want[1]
         /\ op.pc \in {"copying", "observe"} => copies[op.n] = temp[op.n]
         /\ At("observe") => stored[op.n] = "whole"
         /\ At("rollback") => copies[op.n] \in {0, temp[op.n]}
         /\ At("undo") /\ copies[op.n] \in owed => op.kept /\ temp[op.n] = copies[op.n]
         /\ op.pc \in {"dirty", "finalize"} => copies[op.n] = op.want[1]

\* A row names the copy of the version it would give back.
RowsAreTrue ==
    /\ \A o \in Ops :
         /\ Live(recovery[o]) => recovery[o].linked
         /\ recovery[o].linked => copies[o] \in {0, recovery[o].base[1]}
         /\ recovery[o].state = "available" => copies[o] # 0
         /\ copies[o] # 0 => stored[o] # "none"
         /\ stored[o] = "begun" <=> At("copying") /\ op.n = o
    /\ op.kind = "replace" /\ op.pc \notin {"idle", "record"} =>
         recovery[op.n].state = "prepared" /\ recovery[op.n].base = op.want

FolderInv == TypeOK /\ Progress /\ Staged /\ Versions /\ OwedIsHeld /\ RowsAreTrue
=============================================================================
