--------------------------- MODULE LocalStoresProofs ---------------------------
(***************************************************************************)
(* The local stores, in two parts.                                         *)
(*                                                                         *)
(* Saving into a folder that others write to: no content that a save took  *)
(* away is lost (ReplacedIsKept), what an undo gives back is what was      *)
(* replaced (UndoIsTrue), and the directory and its queue change as        *)
(* FolderChanges says (ImplementsChanges), for all contents and bounds.    *)
(* The invariant is FolderInv.  Its parts are proved one after the other:  *)
(* what the operation's program counter says (Progress, Staged), that a    *)
(* version that was exchanged is not met again (Versions), and where the   *)
(* replaced contents are (OwedIsHeld, RowsAreTrue).                        *)
(*                                                                         *)
(* The registry of contexts, sources and folders and the record of what    *)
(* was seen: what a stored row names is there (ReferencesHold), a source's *)
(* members were seen by a complete run of it (MembersWereSeen), and a      *)
(* request takes effect once (TakesEffectOnce), for all registries and     *)
(* requests.  The invariant is ContextInv.  What it says of the history,   *)
(* the runs, the records they saw and the bindings they are of, is proved  *)
(* of the three tables as constants (HistoryTrue), one lemma for each way  *)
(* they change, and then of each action.                                   *)
(***************************************************************************)
EXTENDS WorkFolder, LocalContexts, SequenceTheorems, TLAPS

USE WorkFolderAssumption

-----------------------------------------------------------------------------
(* Sequences that are counted up *)

LEMMA CountUp ==
    ASSUME NEW s \in Seq(Nat), NEW i \in 1..Len(s)
    PROVE  /\ [s EXCEPT ![i] = @ + 1] \in Seq(Nat)
           /\ Len([s EXCEPT ![i] = @ + 1]) = Len(s)
           /\ \A j \in 1..Len(s) :
                [s EXCEPT ![i] = @ + 1][j] = IF j = i THEN s[i] + 1 ELSE s[j]
<1>1. s[i] + 1 \in Nat
  OBVIOUS
<1>2. DOMAIN s = 1..Len(s)
  OBVIOUS
<1> QED
  BY <1>1, <1>2, ExceptSeq

\* The temporary name's file appears with a fresh inode.
LEMMA FreshVersion ==
    ASSUME FilesOK, NEW b \in Bytes
    PROVE  /\ Append(made, b) \in Seq(Bytes) /\ Len(Append(made, b)) = Len(made) + 1
           /\ Append(ctime, 0) \in Seq(Nat) /\ Len(Append(ctime, 0)) = Len(ctime) + 1
           /\ \A i \in 1..Len(ctime) : Append(ctime, 0)[i] = ctime[i]
BY AppendProperties DEF FilesOK

\* Files keep their types when inodes are exchanged, linked or dropped.
LEMMA Renamed ==
    ASSUME FilesOK, NEW i \in 1..Len(made)
    PROVE  /\ [ctime EXCEPT ![i] = @ + 1] \in Seq(Nat)
           /\ Len([ctime EXCEPT ![i] = @ + 1]) = Len(made)
           /\ \A j \in 1..Len(made) :
                [ctime EXCEPT ![i] = @ + 1][j] = IF j = i THEN ctime[i] + 1 ELSE ctime[j]
BY CountUp DEF FilesOK

LEMMA Swapped ==
    ASSUME FilesOK, NEW i \in 1..Len(made), NEW j \in 1..Len(made), i # j
    PROVE  /\ Exchanged(i, j) \in Seq(Nat) /\ Len(Exchanged(i, j)) = Len(made)
           /\ \A k \in 1..Len(made) :
                Exchanged(i, j)[k] = IF k \in {i, j} THEN ctime[k] + 1 ELSE ctime[k]
<1> DEFINE c == [ctime EXCEPT ![i] = @ + 1]
<1>1. ctime \in Seq(Nat) /\ Len(ctime) = Len(made)
  BY DEF FilesOK
<1>2. /\ c \in Seq(Nat) /\ Len(c) = Len(made)
      /\ \A k \in 1..Len(made) : c[k] = IF k = i THEN ctime[i] + 1 ELSE ctime[k]
  BY <1>1, CountUp
<1>3. Exchanged(i, j) = [c EXCEPT ![j] = @ + 1]
  BY DEF Exchanged
<1>4. /\ [c EXCEPT ![j] = @ + 1] \in Seq(Nat) /\ Len([c EXCEPT ![j] = @ + 1]) = Len(c)
      /\ \A k \in 1..Len(c) : [c EXCEPT ![j] = @ + 1][k] = IF k = j THEN c[j] + 1 ELSE c[k]
  <2> HIDE DEF c
  <2> QED
    BY <1>2, CountUp
<1> HIDE DEF c
<1> QED
  BY <1>2, <1>3, <1>4

-----------------------------------------------------------------------------
(* Types *)

LEMMA ConstantTypes == NoRecovery \in Recoveries /\ Discarded \in Recoveries /\ Idle \in Operations
<1>1. NoRecovery \in Recoveries
  BY DEF NoRecovery, Recoveries, Absent
<1>2. Discarded \in Recoveries
  BY <1>1 DEF Discarded, Recoveries
<1>3. Idle \in Operations
  BY DEF Idle, Operations, Pcs, Absent
<1> QED
  BY <1>1, <1>2, <1>3

LEMMA TokenType == ASSUME FilesOK PROVE Token(path) \in Nat \X Nat
BY DEF FilesOK, Token, Absent

LEMMA MaintainedTypes ==
    ASSUME TypeOK, NEW rows \in [Ops -> Recoveries]
    PROVE  Maintained(rows) \in [Ops -> Recoveries]
<1>1. Token(path) \in Nat \X Nat
  BY TokenType DEF TypeOK
<1>2. ASSUME NEW o \in Ops
      PROVE [rows[o] EXCEPT !.state = "available", !.result = Token(path)] \in Recoveries
  BY <1>1 DEF Recoveries
<1>3. \A o \in Ops : rows[o] \in Recoveries
  OBVIOUS
<1> QED
  BY <1>2, <1>3, ConstantTypes DEF Maintained

\* How far the writing of a copy came.
Stages == {"none", "begun", "whole", "cut"}

LEMMA MaintainTypes ==
    ASSUME TypeOK, NEW rows \in [Ops -> Recoveries], Maintain(rows)
    PROVE  /\ recovery' \in [Ops -> Recoveries]
           /\ copies' \in [Ops -> 0..Len(made)]
           /\ stored' \in [Ops -> Stages]
           /\ released' \in SUBSET (1..Len(made))
<1>1. recovery' \in [Ops -> Recoveries]
  BY MaintainedTypes DEF Maintain
<1>2. copies' \in [Ops -> 0..Len(made)]
  BY DEF Maintain, Referenced, TypeOK, FilesOK
<1>3. released' \in SUBSET (1..Len(made))
  BY DEF Maintain, Spent, TypeOK, FilesOK
<1>4. stored' \in [Ops -> Stages]
  BY DEF Maintain, TypeOK, FilesOK, Stages
<1> QED
  BY <1>1, <1>2, <1>3, <1>4

LEMMA StartTypes ==
    ASSUME TypeOK, NEW k \in {"create", "replace", "restore", "delete"}, NEW b \in Bytes,
           NEW r \in 0..MaxOps, NEW pc \in Pcs, Start(k, b, r, pc)
    PROVE  /\ op' \in Operations /\ started' \in 0..MaxOps
           /\ mark' \in {"none", "prepared", "dirty"}
           /\ UNCHANGED <<files, edits, faults, aged, owed>>
<1>1. Token(path) \in Nat \X Nat
  BY TokenType DEF TypeOK
<1>2. started + 1 \in 1..MaxOps
  BY DEF Start, TypeOK, CountsOK
<1>3. op' = [kind |-> k, pc |-> pc, n |-> started + 1, bytes |-> b, want |-> Token(path),
             phase |-> "announced", from |-> r, result |-> Absent, kept |-> FALSE, again |-> FALSE]
  BY DEF Start, Idle
<1>4. op' \in Operations
  BY <1>1, <1>2, <1>3 DEF Operations, Absent
<1>5. mark' \in {"none", "prepared", "dirty"}
  BY DEF Start, Announced, TypeOK
<1> QED
  BY <1>2, <1>4, <1>5 DEF Start

LEMMA BeginTypes ==
    ASSUME TypeOK,
           \/ \E b \in Bytes : BeginCreate(b) \/ BeginReplace(b)
           \/ \E r \in Ops : BeginRestore(r)
           \/ BeginDelete
    PROVE  TypeOK'
<1> DEFINE Begun == /\ op' \in Operations /\ started' \in 0..MaxOps
                    /\ mark' \in {"none", "prepared", "dirty"}
                    /\ UNCHANGED <<files, edits, faults, aged, owed>>
           Maintains == /\ recovery' \in [Ops -> Recoveries]
                        /\ copies' \in [Ops -> 0..Len(made)]
                        /\ stored' \in [Ops -> Stages]
                        /\ released' \in SUBSET (1..Len(made))
<1>1. ASSUME Begun, Maintains PROVE TypeOK'
  BY <1>1 DEF TypeOK, FilesOK, CountsOK, files, Stages
<1>2. ASSUME NEW b \in Bytes, BeginCreate(b) \/ BeginReplace(b) PROVE Begun /\ Maintains
  <2>1. Maintains
    BY <1>2, MaintainTypes DEF BeginCreate, BeginReplace, TypeOK
  <2>2. CASE BeginCreate(b)
    <3>1. Begun
      BY <2>2, StartTypes DEF BeginCreate, Pcs
    <3> QED
      BY <2>1, <3>1
  <2>3. CASE BeginReplace(b)
    <3>1. Begun
      BY <2>3, StartTypes DEF BeginReplace, Pcs
    <3> QED
      BY <2>1, <3>1
  <2> QED
    BY <1>2, <2>2, <2>3
<1>3. ASSUME NEW r \in Ops, BeginRestore(r) PROVE Begun /\ Maintains
  <2>1. Maintains
    BY <1>3, MaintainTypes DEF BeginRestore, TypeOK
  <2>2. copies[r] \in 1..Len(made)
    BY <1>3 DEF BeginRestore, Restorable, TypeOK, FilesOK
  <2>3. Contents(r) \subseteq Bytes
    BY <2>2 DEF Contents, TypeOK, FilesOK
  <2>4. r \in 0..MaxOps
    BY DEF Ops
  <2>5. PICK b \in Contents(r) : Start("restore", b, r, "stage")
    BY <1>3 DEF BeginRestore
  <2>6. b \in Bytes
    BY <2>3
  <2>7. Begun
    BY <2>4, <2>5, <2>6, StartTypes DEF Pcs
  <2> QED
    BY <2>1, <2>7
<1>4. ASSUME BeginDelete PROVE Begun /\ Maintains
  <2>1. Begun
    BY <1>4, StartTypes DEF BeginDelete, Pcs
  <2>2. Maintains
    BY <1>4 DEF BeginDelete, records, TypeOK, FilesOK, Stages
  <2> QED
    BY <2>1, <2>2
<1> HIDE DEF Begun, Maintains
<1> QED
  BY <1>1, <1>2, <1>3, <1>4

Copy == CopyBegin \/ CopyEnd
OneOperation ==
    \/ Record \/ Stage \/ Exchange \/ Verify \/ Copy \/ Observe
    \/ Rollback \/ Undo \/ Link \/ Cleanup \/ Unlink
    \/ MarkDirty \/ FinishReplace \/ FinishRestore
Others ==
    \/ MaintainRecoveries \/ MaintainCrash \/ \E r \in Ops : RecoveryAges(r)
    \/ \E b \in Bytes : EditorSaves(b)
    \/ EditorRemoves \/ WriterCrash

LEMMA OperationTypes == ASSUME TypeOK, OneOperation PROVE op' \in Operations
<1>0. op \in Operations /\ Idle \in Operations
  BY ConstantTypes DEF TypeOK
<1>1. \A pc \in Pcs : [op EXCEPT !.pc = pc] \in Operations
  BY <1>0 DEF Operations
<1>2. \A pc \in Pcs, f \in {"staged", "moved", "back"} :
        [op EXCEPT !.pc = pc, !.phase = f] \in Operations
  BY <1>0 DEF Operations
<1>3. [op EXCEPT !.pc = "rollback", !.again = TRUE] \in Operations
  BY <1>0 DEF Operations, Pcs
<1>4. \A t \in Nat \X Nat : [op EXCEPT !.pc = "dirty", !.result = t] \in Operations
  BY <1>0 DEF Operations, Pcs
<1>5. [op EXCEPT !.pc = IF op.again THEN "rollback" ELSE "undo", !.kept = Kept, !.again = FALSE]
        \in Operations
  <2>1. Kept \in BOOLEAN /\ (IF op.again THEN "rollback" ELSE "undo") \in Pcs
    BY DEF Pcs, Kept
  <2>2. ASSUME NEW pc \in Pcs, NEW k \in BOOLEAN
        PROVE [op EXCEPT !.pc = pc, !.kept = k, !.again = FALSE] \in Operations
    BY <1>0 DEF Operations
  <2> HIDE DEF Kept
  <2> QED
    BY <2>1, <2>2
<1>6. Token(path) \in Nat \X Nat
  BY TokenType DEF TypeOK
<1>7. CASE Record \/ Verify \/ Copy
  BY <1>1, <1>3, <1>7 DEF Record, Verify, Copy, CopyBegin, CopyEnd, Go, Pcs
<1>8. CASE Stage \/ Exchange \/ Link \/ Unlink
  BY <1>1, <1>2, <1>8 DEF Stage, Exchange, Link, Unlink, Go, Went, Pcs
<1>9. CASE Observe
  BY <1>1, <1>4, <1>6, <1>9 DEF Observe, Go, Pcs
<1>10. CASE Rollback
  BY <1>2, <1>5, <1>10 DEF Rollback, Went, Pcs
<1>11. CASE Undo \/ MarkDirty \/ FinishReplace \/ FinishRestore
  BY <1>0, <1>1, <1>11 DEF Undo, GiveUp, MarkDirty, FinishReplace, FinishRestore, Pcs
<1>12. CASE Cleanup
  <2>1. CASE op' = [op EXCEPT !.pc = "dirty", !.result = <<path, ctime'[path]>>] /\ path # 0 /\ Drop
    <3>1. path \in 1..Len(made)
      BY <2>1 DEF TypeOK, FilesOK
    <3>2. ctime'[path] \in Nat
      <4>1. ctime[path] \in Nat
        BY <3>1 DEF TypeOK, FilesOK
      <4>2. [ctime EXCEPT ![path] = @ + 1][path] \in Nat
        BY <3>1, <4>1, Renamed DEF TypeOK
      <4>3. CASE ctime' = ctime
        BY <4>1, <4>3
      <4>4. CASE ctime' = [ctime EXCEPT ![path] = @ + 1]
        BY <4>2, <4>4
      <4> QED
        BY <2>1, <4>3, <4>4 DEF Drop
    <3>3. <<path, ctime'[path]>> \in Nat \X Nat
      BY <3>1, <3>2
    <3> QED
      BY <1>4, <2>1, <3>3
  <2> QED
    BY <1>1, <1>12, <2>1 DEF Cleanup, Go, Pcs
<1> QED
  BY <1>7, <1>8, <1>9, <1>10, <1>11, <1>12 DEF OneOperation

LEMMA CountTypes ==
    ASSUME TypeOK, OneOperation \/ Others
    PROVE  CountsOK' /\ mark' \in {"none", "prepared", "dirty"}
<1> USE DEF TypeOK, CountsOK, Fault
<1>1. CASE Record \/ Verify \/ Copy \/ Stage \/ Exchange
  BY <1>1 DEF Record, Verify, Copy, CopyBegin, CopyEnd, Stage, Exchange, counters
<1>2. CASE Link \/ Unlink \/ Observe \/ Rollback \/ Cleanup
  BY <1>2 DEF Link, Unlink, Observe, Rollback, Cleanup
<1>3. CASE Undo \/ MarkDirty \/ FinishReplace \/ FinishRestore
  BY <1>3 DEF Undo, GiveUp, Withdrawn, MarkDirty, FinishReplace, FinishRestore
<1>4. CASE Others
  BY <1>4 DEF Others, MaintainRecoveries, MaintainCrash, RecoveryAges, EditorSaves, EditorRemoves,
              WriterCrash, counters
<1> QED
  BY <1>1, <1>2, <1>3, <1>4 DEF OneOperation

\* The steps that change the directory, by what they do to it.
LEMMA DropTypes ==
    ASSUME TypeOK, Drop, UNCHANGED <<path, made>>, op.n \in Ops
    PROVE  /\ ctime' \in Seq(Nat) /\ Len(ctime') = Len(made)
           /\ temp' \in [Ops -> 0..Len(made)]
           /\ \A i \in 1..Len(made) : ctime[i] <= ctime'[i]
<1>1. temp' \in [Ops -> 0..Len(made)]
  BY DEF Drop, TypeOK, FilesOK
<1>2. CASE ctime' = ctime
  <2>1. ctime \in Seq(Nat) /\ Len(ctime) = Len(made)
    BY DEF TypeOK, FilesOK
  <2>2. \A i \in 1..Len(made) : ctime[i] <= ctime[i]
    BY ONLY <2>1
  <2> QED
    BY ONLY <1>1, <1>2, <2>1, <2>2
<1>3. CASE path # 0 /\ ctime' = [ctime EXCEPT ![path] = @ + 1]
  <2>1. path \in 1..Len(made)
    BY <1>3 DEF TypeOK, FilesOK
  <2>2. \A i \in 1..Len(made) : ctime[i] \in Nat
    BY DEF TypeOK, FilesOK
  <2>3. /\ ctime' \in Seq(Nat) /\ Len(ctime') = Len(made)
        /\ \A i \in 1..Len(made) : ctime'[i] = IF i = path THEN ctime[path] + 1 ELSE ctime[i]
    <3>1. ctime \in Seq(Nat) /\ Len(ctime) = Len(made)
      BY DEF TypeOK, FilesOK
    <3>2. [ctime EXCEPT ![path] = @ + 1] \in Seq(Nat) /\ Len([ctime EXCEPT ![path] = @ + 1]) = Len(ctime)
      BY ONLY <2>1, <3>1, CountUp
    <3>3. \A i \in 1..Len(ctime) :
             [ctime EXCEPT ![path] = @ + 1][i] = IF i = path THEN ctime[path] + 1 ELSE ctime[i]
      BY ONLY <2>1, <3>1, CountUp
    <3> QED
      BY ONLY <1>3, <3>1, <3>2, <3>3
  <2>4. ASSUME NEW i \in 1..Len(made) PROVE ctime[i] <= ctime'[i]
    BY ONLY <2>1, <2>2, <2>3, i \in 1..Len(made)
  <2> QED
    BY ONLY <1>1, <2>3, <2>4
<1> QED
  BY <1>2, <1>3 DEF Drop

LEMMA SwapTypes ==
    ASSUME TypeOK, Swap, op.n \in Ops, path # 0, temp[op.n] \notin {0, path}
    PROVE  /\ ctime' \in Seq(Nat) /\ Len(ctime') = Len(made)
           /\ temp' \in [Ops -> 0..Len(made)] /\ path' \in 0..Len(made)
           /\ \A i \in 1..Len(made) :
                ctime'[i] = IF i \in {path, temp[op.n]} THEN ctime[i] + 1 ELSE ctime[i]
<1>1. path \in 1..Len(made) /\ temp[op.n] \in 1..Len(made)
  BY DEF TypeOK, FilesOK
<1>2. path # temp[op.n] /\ FilesOK
  BY DEF TypeOK
<1>3. /\ ctime' \in Seq(Nat) /\ Len(ctime') = Len(made)
      /\ \A i \in 1..Len(made) :
           ctime'[i] = IF i \in {path, temp[op.n]} THEN ctime[i] + 1 ELSE ctime[i]
  <2>1. PICK i \in 1..Len(made) : i = path
    BY <1>1
  <2>2. PICK j \in 1..Len(made) : j = temp[op.n]
    BY <1>1
  <2>3. /\ Exchanged(i, j) \in Seq(Nat) /\ Len(Exchanged(i, j)) = Len(made)
        /\ \A k \in 1..Len(made) :
             Exchanged(i, j)[k] = IF k \in {i, j} THEN ctime[k] + 1 ELSE ctime[k]
    <3>1. i # j /\ FilesOK
      BY <1>2, <2>1, <2>2
    <3> QED
      BY <3>1, Swapped, Zenon
  <2>4. ctime' = Exchanged(i, j)
    BY <2>1, <2>2 DEF Swap
  <2> QED
    BY <2>1, <2>2, <2>3, <2>4
<1>4. temp' \in [Ops -> 0..Len(made)] /\ path' \in 0..Len(made)
  BY <1>1 DEF Swap, TypeOK, FilesOK
<1> QED
  BY <1>3, <1>4

LEMMA OneOperationFiles ==
    ASSUME TypeOK, Progress, Staged, OneOperation
    PROVE  FilesOK' /\ recovery' \in [Ops -> Recoveries]
<1>0. op.n \in Ops
  BY DEF OneOperation, Progress, TypeOK, CountsOK, Ops, At, Record, Stage, Exchange, Verify, Copy, CopyBegin, CopyEnd,
         Observe, Rollback, Undo, Link, Cleanup, Unlink, MarkDirty, FinishReplace, FinishRestore
<1> USE <1>0 DEF At
<1>1. CASE Record
  <2>1. op.want \in Nat \X Nat /\ op.bytes \in Bytes
    BY DEF TypeOK, Operations
  <2>2. [state |-> "prepared", base |-> op.want, result |-> Absent,
         intended |-> op.bytes, linked |-> TRUE, expired |-> FALSE] \in Recoveries
    BY <2>1 DEF Recoveries, Absent
  <2> QED
    BY <1>1, <2>2 DEF Record, TypeOK, FilesOK, files
<1>2. CASE Stage
  <2>1. CASE UNCHANGED files
    BY <1>2, <2>1 DEF Stage, files, records, TypeOK, FilesOK
  <2>2. CASE ~UNCHANGED files
    <3>1. /\ made' = Append(made, op.bytes) /\ ctime' = Append(ctime, 0)
          /\ temp' = [temp EXCEPT ![op.n] = Len(made) + 1]
          /\ UNCHANGED path /\ UNCHANGED records /\ UNCHANGED owed
      BY <1>2, <2>2 DEF Stage, files
    <3>2. op.bytes \in Bytes
      BY DEF TypeOK, Operations
    <3>3. /\ made' \in Seq(Bytes) /\ ctime' \in Seq(Nat) /\ Len(ctime') = Len(made')
          /\ Len(made') = Len(made) + 1 /\ Len(made) \in Nat
      BY <3>1, <3>2, FreshVersion DEF TypeOK, FilesOK
    <3> QED
      BY <3>1, <3>3 DEF records, TypeOK, FilesOK
  <2> QED
    BY <2>1, <2>2
<1>3. CASE Exchange
  <2>1. UNCHANGED <<made, recovery, copies, stored, released>>
    BY <1>3 DEF Exchange, records
  <2>2. CASE UNCHANGED <<path, ctime, temp, owed>>
    BY <2>1, <2>2 DEF TypeOK, FilesOK
  <2>3. CASE path # 0 /\ Swap /\ owed' \in {owed, owed \cup {path}}
    <3>1. temp[op.n] \notin {0, path}
      BY <1>3 DEF Exchange, Staged
    <3>2. path \in 1..Len(made)
      BY <2>3 DEF TypeOK, FilesOK
    <3> QED
      BY <2>1, <2>3, <3>1, <3>2, SwapTypes DEF TypeOK, FilesOK
  <2> QED
    BY <1>3, <2>2, <2>3 DEF Exchange
<1>4. CASE Verify \/ MarkDirty
  BY <1>4 DEF Verify, MarkDirty, files, records, TypeOK, FilesOK
<1>5. CASE Copy \/ Observe
  <2>1. temp[op.n] \in 0..Len(made) /\ 0 \in 0..Len(made)
    BY DEF TypeOK, FilesOK
  <2>2. temp' \in [Ops -> 0..Len(made)]
    BY <1>5, <2>1 DEF Copy, CopyBegin, CopyEnd, Observe, files, TypeOK, FilesOK
  <2>5. copies' \in [Ops -> 0..Len(made)]
    BY <1>5, <2>1 DEF Copy, CopyBegin, CopyEnd, Observe, records, TypeOK, FilesOK
  <2>3. UNCHANGED <<path, made, ctime, recovery, released, owed>>
    BY <1>5 DEF Copy, CopyBegin, CopyEnd, Observe, files, records
  <2>4. stored' \in [Ops -> Stages]
    BY <1>5 DEF Copy, CopyBegin, CopyEnd, Observe, records, TypeOK, FilesOK, Stages
  <2> QED
    BY <2>2, <2>3, <2>4, <2>5 DEF TypeOK, FilesOK, Stages
<1>6. CASE Rollback
  <2>1. UNCHANGED <<made, recovery, copies, stored, released>>
    BY <1>6 DEF Rollback, records
  <2>2. CASE UNCHANGED <<path, ctime, temp, owed>>
    BY <2>1, <2>2 DEF TypeOK, FilesOK
  <2>3. CASE path # 0 /\ Swap /\ owed' = owed \ {temp[op.n]}
    <3>1. temp[op.n] \notin {0, path}
      BY <1>6 DEF Rollback, Staged
    <3> QED
      BY <2>1, <2>3, <3>1, SwapTypes DEF TypeOK, FilesOK
  <2> QED
    BY <1>6, <2>2, <2>3 DEF Rollback
<1>7. CASE Undo
  <2>0. 0 \in 0..Len(made)
    BY DEF TypeOK, FilesOK
  <2>1. UNCHANGED <<path, made, stored, released, owed>> /\ copies' \in [Ops -> 0..Len(made)]
    BY <1>7, <2>0 DEF Undo, GiveUp, TypeOK, FilesOK
  <2>2. recovery' \in [Ops -> Recoveries]
    BY <1>7, ConstantTypes DEF Undo, TypeOK
  <2>3. UNCHANGED <<temp, ctime>> \/ Drop
    BY <1>7 DEF Undo, GiveUp
  <2> QED
    BY <2>1, <2>2, <2>3, DropTypes DEF TypeOK, FilesOK
<1>8. CASE Link
  <2>1. CASE UNCHANGED <<path, ctime>>
    BY <1>8, <2>1 DEF Link, records, TypeOK, FilesOK
  <2>2. CASE path' = temp[op.n] /\ ctime' = [ctime EXCEPT ![temp[op.n]] = @ + 1]
    <3>1. temp[op.n] \in 1..Len(made)
      BY <1>8 DEF Link, Staged, TypeOK, FilesOK
    <3> QED
      BY <1>8, <2>2, <3>1, Renamed DEF Link, records, TypeOK, FilesOK
  <2> QED
    BY <1>8, <2>1, <2>2 DEF Link
<1>9. CASE Cleanup
  <2>1. UNCHANGED <<temp, ctime>> \/ Drop
    BY <1>9 DEF Cleanup
  <2> QED
    BY <1>9, <2>1, DropTypes DEF Cleanup, records, TypeOK, FilesOK
<1>10. CASE Unlink
  BY <1>10 DEF Unlink, records, TypeOK, FilesOK
<1>11. CASE FinishReplace
  <2>1. [recovery[op.n] EXCEPT !.state = "available", !.result = op.result] \in Recoveries
    <3>1. op.result \in Nat \X Nat /\ recovery[op.n] \in Recoveries
      BY DEF TypeOK, Operations
    <3> QED
      BY <3>1 DEF Recoveries
  <2>2. Available \in [Ops -> Recoveries]
    BY <2>1 DEF Available, TypeOK
  <2>3. CASE Maintain(Available)
    BY <1>11, <2>2, <2>3, MaintainTypes DEF FinishReplace, files, TypeOK, FilesOK, Stages
  <2>4. CASE recovery' \in {recovery, Available} /\ UNCHANGED <<copies, stored, released>>
    BY <1>11, <2>2, <2>4 DEF FinishReplace, files, TypeOK, FilesOK
  <2> QED
    BY <1>11, <2>3, <2>4 DEF FinishReplace
<1>12. CASE FinishRestore
  <2>1. \A o \in Ops : [recovery[o] EXCEPT !.state = "restored"] \in Recoveries
    BY DEF TypeOK, Recoveries
  <2>2. recovery' \in [Ops -> Recoveries]
    BY <1>12, <2>1 DEF FinishRestore, records, TypeOK
  <2>3. /\ copies' \in [Ops -> 0..Len(made)] /\ UNCHANGED stored
        /\ released' \in SUBSET (1..Len(made))
    <3>1. 0 \in 0..Len(made)
      BY DEF TypeOK, FilesOK
    <3>2. copies' \in [Ops -> 0..Len(made)]
      BY <1>12, <3>1 DEF FinishRestore, records, TypeOK, FilesOK
    <3>3. released' \in SUBSET (1..Len(made))
      BY <1>12 DEF FinishRestore, records, TypeOK, FilesOK
    <3> QED
      BY <1>12, <3>2, <3>3 DEF FinishRestore, records
  <2> QED
    BY <1>12, <2>2, <2>3 DEF FinishRestore, files, TypeOK, FilesOK
<1> QED
  BY <1>1, <1>2, <1>3, <1>4, <1>5, <1>6, <1>7, <1>8, <1>9, <1>10, <1>11, <1>12 DEF OneOperation

LEMMA OthersTypes ==
    ASSUME TypeOK, Others
    PROVE  FilesOK' /\ recovery' \in [Ops -> Recoveries] /\ op' \in Operations
<1>1. CASE MaintainRecoveries
  BY <1>1, MaintainTypes DEF MaintainRecoveries, files, TypeOK, FilesOK, Stages
<1>2. CASE MaintainCrash
  <2>1. recovery' \in [Ops -> Recoveries]
    BY <1>2, MaintainedTypes DEF MaintainCrash, TypeOK
  <2>2. released' \in SUBSET (1..Len(made))
    BY <1>2 DEF MaintainCrash, Spent, TypeOK, FilesOK
  <2> QED
    BY <1>2, <2>1, <2>2 DEF MaintainCrash, files, TypeOK, FilesOK
<1>3. ASSUME NEW r \in Ops, RecoveryAges(r) PROVE FilesOK' /\ recovery' \in [Ops -> Recoveries] /\ op' \in Operations
  <2>1. recovery[r] \in Recoveries
    BY DEF TypeOK
  <2>2. [recovery[r] EXCEPT !.expired = TRUE] \in Recoveries
    BY <2>1 DEF Recoveries
  <2>3. recovery' = [recovery EXCEPT ![r] = [recovery[r] EXCEPT !.expired = TRUE]]
    BY <1>3 DEF RecoveryAges
  <2>4. recovery' \in [Ops -> Recoveries]
    BY <2>2, <2>3 DEF TypeOK
  <2> QED
    BY <1>3, <2>4 DEF RecoveryAges, files, TypeOK, FilesOK
<1>4. ASSUME NEW b \in Bytes, EditorSaves(b) PROVE FilesOK' /\ recovery' \in [Ops -> Recoveries] /\ op' \in Operations
  <2>1. /\ made' \in Seq(Bytes) /\ ctime' \in Seq(Nat) /\ Len(ctime') = Len(made')
        /\ Len(made') = Len(made) + 1 /\ Len(made) \in Nat
    BY <1>4, FreshVersion DEF EditorSaves, TypeOK, FilesOK
  <2> QED
    BY <1>4, <2>1 DEF EditorSaves, records, TypeOK, FilesOK
<1>5. CASE EditorRemoves
  <2>1. 0 \in 0..Len(made)
    BY DEF TypeOK, FilesOK
  <2> QED
    BY <1>5, <2>1 DEF EditorRemoves, records, TypeOK, FilesOK
<1>6. CASE WriterCrash
  BY <1>6, ConstantTypes DEF WriterCrash, files, records, TypeOK, FilesOK
<1> QED
  BY <1>1, <1>2, <1>3, <1>4, <1>5, <1>6 DEF Others

LEMMA TypesKeep ==
    ASSUME TypeOK, Progress, Staged, [FolderNext]_folderVars PROVE TypeOK'
<1>1. CASE UNCHANGED folderVars
  BY <1>1 DEF folderVars, TypeOK, FilesOK, CountsOK, Token
<1>2. CASE OneOperation
  BY <1>2, OneOperationFiles, OperationTypes, CountTypes DEF TypeOK
<1>3. CASE Others
  BY <1>3, OthersTypes, CountTypes DEF TypeOK
<1> QED
  BY <1>1, <1>2, <1>3, BeginTypes DEF FolderNext, OneOperation, Others, Copy

-----------------------------------------------------------------------------
(* Where the operation is *)

LEMMA BeginFrom ==
    ASSUME TypeOK,
           \/ \E b \in Bytes : BeginCreate(b) \/ BeginReplace(b)
           \/ \E r \in Ops : BeginRestore(r)
           \/ BeginDelete
    PROVE  /\ op.pc = "idle" /\ started < MaxOps /\ started' = started + 1
           /\ UNCHANGED <<files, edits, faults, aged, owed>>
           /\ mark' = Announced
           /\ op'.n = started + 1 /\ op'.phase = "announced" /\ op'.want = Token(path)
           /\ \/ op'.kind = "create" /\ op'.pc = "stage" /\ path = 0
              \/ op'.kind = "replace" /\ op'.pc = "record" /\ path # 0
              \/ op'.kind = "restore" /\ op'.pc = "stage" /\ path # 0
              \/ op'.kind = "delete" /\ op'.pc = "unlink" /\ path # 0
           /\ \/ recovery' = Maintained(recovery) /\ copies' = Referenced(Maintained(recovery))
              \/ UNCHANGED <<recovery, copies, released>>
           /\ UNCHANGED stored
<1>1. ASSUME NEW k, NEW b, NEW r, NEW pc, Start(k, b, r, pc)
      PROVE  /\ op.pc = "idle" /\ started < MaxOps /\ started' = started + 1
             /\ UNCHANGED <<files, edits, faults, aged, owed>>
             /\ mark' = Announced
             /\ op'.n = started + 1 /\ op'.phase = "announced" /\ op'.want = Token(path)
             /\ op'.kind = k /\ op'.pc = pc
  BY <1>1 DEF Start, Idle, At
<1>2. CASE \E b \in Bytes : BeginCreate(b)
  BY <1>1, <1>2 DEF BeginCreate, Maintain
<1>3. CASE \E b \in Bytes : BeginReplace(b)
  BY <1>1, <1>3 DEF BeginReplace, Maintain
<1>4. CASE \E r \in Ops : BeginRestore(r)
  BY <1>1, <1>4 DEF BeginRestore, Restorable, Maintain
<1>5. CASE BeginDelete
  BY <1>1, <1>5 DEF BeginDelete, records
<1> QED
  BY <1>2, <1>3, <1>4, <1>5

LEMMA BeginProgress ==
    ASSUME TypeOK, Progress, Staged,
           \/ \E b \in Bytes : BeginCreate(b) \/ BeginReplace(b)
           \/ \E r \in Ops : BeginRestore(r)
           \/ BeginDelete
    PROVE  Progress' /\ Staged'
<1>1. /\ started' = started + 1 /\ started < MaxOps
      /\ op'.n = started + 1 /\ op'.phase = "announced" /\ UNCHANGED files
      /\ \/ op'.kind = "create" /\ op'.pc = "stage"
         \/ op'.kind = "replace" /\ op'.pc = "record"
         \/ op'.kind = "restore" /\ op'.pc = "stage"
         \/ op'.kind = "delete" /\ op'.pc = "unlink"
  BY BeginFrom
<1>2. \A o \in Ops : copies'[o] \in {0, copies[o]}
  BY BeginFrom DEF Referenced
<1>3. started \in Nat /\ started + 1 \in Ops /\ \A o \in Ops : o \in Nat
  BY <1>1 DEF TypeOK, CountsOK, Ops
<1>4. \A o \in Ops : o > started' => temp'[o] = 0 /\ copies'[o] = 0
  BY <1>1, <1>2, <1>3 DEF Progress, files
<1>5. temp'[op'.n] = 0
  BY <1>1, <1>3 DEF Progress, files
<1> QED
  BY <1>1, <1>3, <1>4, <1>5 DEF Progress, Staged, At

\* What each step does to the operation itself.
After(pc, phase) == op'.pc = pc /\ op'.phase = phase
Goes ==
    \/ Record /\ After("stage", op.phase)
    \/ Stage /\ \/ op.kind = "create" /\ After("link", "staged")
                \/ op.kind # "create" /\ After("exchange", "staged")
                \/ After("undo", op.phase)
    \/ Exchange /\ (After("verify", "moved") \/ After("undo", op.phase))
    \/ Verify /\ \/ op.kind = "replace" /\ After("copy", op.phase)
                 \/ op.kind # "replace" /\ After("observe", op.phase)
                 \/ After("rollback", op.phase)
    \/ CopyBegin /\ After("copying", op.phase)
    \/ CopyEnd /\ (After("observe", op.phase) \/ After("rollback", op.phase))
    \/ Observe /\ (After("dirty", op.phase) \/ After("rollback", op.phase))
    \/ Rollback /\ (After("undo", "back") \/ After("undo", op.phase) \/ After("rollback", op.phase))
    \/ Link /\ (After("cleanup", "moved") \/ After("undo", op.phase))
    \/ Cleanup /\ (After("dirty", op.phase) \/ After("undo", op.phase))
    \/ Unlink /\ (After("dirty", "moved") \/ After("undo", op.phase))
    \/ MarkDirty /\ op.kind \in {"replace", "restore"} /\ After("finalize", op.phase)

LEMMA Steps ==
    ASSUME TypeOK, Progress, OneOperation
    PROVE  \/ op' = Idle /\ (Undo \/ MarkDirty \/ FinishReplace \/ FinishRestore)
           \/ /\ op'.n = op.n /\ op'.kind = op.kind /\ op'.want = op.want
              /\ Goes
<1>0. op \in Operations
  BY DEF TypeOK
<1> USE <1>0 DEF Go, Went, Operations, At, After
<1>1. CASE Record
  BY <1>1 DEF Record, Goes
<1>2. CASE Stage
  BY <1>2 DEF Stage, Goes
<1>3. CASE Exchange
  BY <1>3 DEF Exchange, Goes
<1>4. CASE Verify
  BY <1>4 DEF Verify, Goes
<1>5. CASE Copy
  BY <1>5 DEF Copy, CopyBegin, CopyEnd, Goes
<1>6. CASE Observe
  BY <1>6 DEF Observe, Goes
<1>7. CASE Rollback
  BY <1>7 DEF Rollback, Goes
<1>8. CASE Link
  BY <1>8 DEF Link, Goes
<1>9. CASE Cleanup
  BY <1>9 DEF Cleanup, Goes
<1>10. CASE Unlink
  BY <1>10 DEF Unlink, Goes
<1>11. CASE MarkDirty
  BY <1>11 DEF MarkDirty, Goes
<1>12. CASE Undo \/ FinishReplace \/ FinishRestore
  BY <1>12 DEF Undo, GiveUp, FinishReplace, FinishRestore
<1> QED
  BY <1>1, <1>2, <1>3, <1>4, <1>5, <1>6, <1>7, <1>8, <1>9, <1>10, <1>11, <1>12 DEF OneOperation

\* An operation touches no names and copies but its own, except to clean up.
LEMMA OwnNames ==
    ASSUME TypeOK, Progress, OneOperation
    PROVE  /\ op.n \in 1..started /\ op.n \in Ops /\ UNCHANGED started
           /\ \A o \in Ops \ {op.n} : temp'[o] = temp[o] /\ copies'[o] \in {0, copies[o]}
<1>0. op.n \in 1..started /\ op.n \in Ops /\ UNCHANGED started
  BY DEF OneOperation, Progress, TypeOK, CountsOK, Ops, At, Record, Stage, Exchange, Verify, Copy, CopyBegin, CopyEnd, counters,
         Observe, Rollback, Undo, GiveUp, Link, Cleanup, Unlink, MarkDirty, FinishReplace, FinishRestore
<1>1. temp \in [Ops -> 0..Len(made)] /\ copies \in [Ops -> 0..Len(made)]
  BY DEF TypeOK, FilesOK
<1>2. \A o \in Ops \ {op.n} : temp'[o] = temp[o]
  BY <1>1 DEF OneOperation, Record, Stage, Exchange, Swap, Verify, Copy, CopyBegin, CopyEnd, files,
         Observe, Rollback, Undo, GiveUp, Drop, Link, Cleanup, Unlink, MarkDirty, FinishReplace, FinishRestore
<1>3. \A o \in Ops \ {op.n} : copies'[o] \in {0, copies[o]}
  BY <1>1 DEF OneOperation, Record, Stage, Exchange, Verify, Copy, CopyBegin, CopyEnd, records, Maintain, Referenced,
         Observe, Rollback, Undo, GiveUp, Link, Cleanup, Unlink, MarkDirty, FinishReplace, FinishRestore
<1> QED
  BY <1>0, <1>2, <1>3

LEMMA OperationProgress ==
    ASSUME TypeOK, Progress, Staged, OneOperation PROVE Progress'
<1>1. \A o \in Ops : o > started' => temp'[o] = 0 /\ copies'[o] = 0
  BY OwnNames DEF Progress, Ops, TypeOK, CountsOK
<1>2. CASE op' = Idle
  BY <1>1, <1>2 DEF Progress, At, Idle
<1>3. CASE op'.n = op.n /\ op'.kind = op.kind /\ Goes
  <2>1. op.n \in 1..started' /\ op.pc # "idle"
    BY <1>3, OwnNames DEF Goes, Record, Stage, Exchange, Verify, Copy, CopyBegin, CopyEnd, Observe, Rollback, Link, Cleanup,
       Unlink, MarkDirty, At
  <2> QED
    BY <1>1, <1>3, <2>1 DEF Progress, At, Goes, After, Record, Stage, Exchange, Verify, Copy, CopyBegin, CopyEnd, Observe, Rollback,
       Link, Cleanup, Unlink, MarkDirty
<1> QED
  BY <1>2, <1>3, Steps

LEMMA OperationStaged ==
    ASSUME TypeOK, Progress, Staged, OneOperation PROVE Staged'
<1>0. op.n \in Ops /\ temp \in [Ops -> 0..Len(made)] /\ path \in 0..Len(made)
  BY OwnNames DEF TypeOK, FilesOK
<1>1. CASE op' = Idle
  BY <1>1 DEF Staged, Idle
<1>2. CASE op'.n = op.n /\ op'.kind = op.kind /\ Goes
  <2> USE <1>0, <1>2 DEF At, After, Go, Went
  <2>1. CASE Record \/ Verify \/ Copy \/ MarkDirty
    <3>1. UNCHANGED <<path, temp>>
      BY <2>1 DEF Record, Verify, Copy, CopyBegin, CopyEnd, MarkDirty, files
    <3>2. \/ op.pc = "record" /\ op'.pc = "stage"
          \/ op.pc \in {"verify", "copy", "copying"} /\ op'.pc \in {"copy", "copying", "observe", "rollback"}
          \/ op'.pc = "finalize"
      BY <2>1 DEF Goes, Record, Verify, Copy, CopyBegin, CopyEnd, MarkDirty, Stage, Exchange, Observe, Rollback, Link, Cleanup, Unlink
    <3> QED
      BY <3>1, <3>2 DEF Staged
  <2>2. CASE Stage
    <3>1. op'.pc \in {"exchange", "link", "undo"}
      BY <2>2 DEF Goes, Record, Verify, Copy, CopyBegin, CopyEnd, MarkDirty, Stage, Exchange, Observe, Rollback, Link, Cleanup, Unlink
    <3>2. op'.pc # "undo" => temp'[op.n] = Len(made) + 1 /\ path' = path
      BY <2>2, <3>1 DEF Stage, TypeOK, Operations
    <3> QED
      BY <3>1, <3>2 DEF Staged
  <2>3. CASE Exchange \/ Rollback
    <3>1. op'.pc \in {"verify", "undo", "rollback"}
      BY <2>3 DEF Goes, Record, Verify, Copy, CopyBegin, CopyEnd, MarkDirty, Stage, Exchange, Observe, Rollback, Link, Cleanup, Unlink
    <3>2. op'.pc # "undo" => (Swap /\ path # 0) \/ (UNCHANGED <<path, temp>> /\ op.pc = "rollback")
      BY <2>3, <3>1 DEF Exchange, Rollback, TypeOK, Operations
    <3>3. temp[op.n] # path /\ temp[op.n] # 0
      BY <2>3 DEF Exchange, Rollback, Staged
    <3> QED
      BY <3>1, <3>2, <3>3 DEF Staged, Swap
  <2>4. CASE Observe
    <3>1. op'.pc = "dirty" \/ (op'.pc = "rollback" /\ UNCHANGED <<path, temp>>)
      BY <2>4 DEF Observe, TypeOK, Operations
    <3> QED
      BY <2>4, <3>1 DEF Staged, Observe
  <2>5. CASE Link \/ Cleanup \/ Unlink
    <3>1. op'.pc \in {"cleanup", "dirty", "undo"} /\ (op'.pc = "cleanup" => temp' = temp /\ op.pc = "link")
      BY <2>5 DEF Goes, Record, Verify, Copy, CopyBegin, CopyEnd, MarkDirty, Stage, Exchange, Observe, Rollback, Link, Cleanup, Unlink
    <3> QED
      BY <3>1 DEF Staged
  <2> QED
    BY <2>1, <2>2, <2>3, <2>4, <2>5 DEF Goes, Copy
<1> QED
  BY <1>1, <1>2, Steps

LEMMA OthersProgress ==
    ASSUME TypeOK, Progress, Staged, Others PROVE Progress' /\ Staged'
<1> USE DEF At
<1>1. CASE MaintainRecoveries \/ MaintainCrash
  BY <1>1 DEF MaintainRecoveries, MaintainCrash, Maintain, Referenced, Progress, Staged, files, counters
<1>2. CASE \E r \in Ops : RecoveryAges(r)
  BY <1>2 DEF RecoveryAges, Progress, Staged, files
<1>3. CASE \E b \in Bytes : EditorSaves(b)
  <2>1. \A o \in Ops : temp[o] # Len(made) + 1
    BY DEF TypeOK, FilesOK
  <2>2. op.pc # "idle" => op.n \in Ops
    BY DEF Progress, TypeOK, CountsOK, Ops
  <2> QED
    BY <1>3, <2>1, <2>2 DEF EditorSaves, Progress, Staged, records
<1>4. CASE EditorRemoves
  BY <1>4 DEF EditorRemoves, Progress, Staged, records
<1>5. CASE WriterCrash
  BY <1>5 DEF WriterCrash, Progress, Staged, Idle, files, records
<1> QED
  BY <1>1, <1>2, <1>3, <1>4, <1>5 DEF Others

LEMMA ProgressKeeps ==
    ASSUME TypeOK, Progress, Staged, [FolderNext]_folderVars PROVE Progress' /\ Staged'
<1>1. CASE UNCHANGED folderVars
  BY <1>1 DEF folderVars, Progress, Staged, At
<1> QED
  BY <1>1, BeginProgress, OperationProgress, OperationStaged, OthersProgress DEF FolderNext, OneOperation, Others, Copy

-----------------------------------------------------------------------------
(* A version that was exchanged is not met again *)

\* No inode goes and no count falls.
Grows ==
    /\ Len(made) <= Len(made')
    /\ \A i \in 1..Len(made) : ctime[i] <= ctime'[i]

LEMMA CountsGrow ==
    ASSUME TypeOK, Progress, Staged, OneOperation \/ Others PROVE Grows
<1>0. Len(made) \in Nat /\ \A i \in 1..Len(made) : ctime[i] \in Nat
  BY DEF TypeOK, FilesOK
<1>1. ASSUME UNCHANGED <<made, ctime>> PROVE Grows
  BY <1>0, <1>1 DEF Grows
<1>2. ASSUME NEW b \in Bytes, made' = Append(made, b), ctime' = Append(ctime, 0) PROVE Grows
  <2>1. /\ Len(made') = Len(made) + 1
        /\ \A i \in 1..Len(made) : ctime'[i] = ctime[i]
    BY <1>2, FreshVersion DEF TypeOK, FilesOK
  <2> QED
    BY <1>0, <2>1 DEF Grows
<1>3. ASSUME OneOperation PROVE op.n \in Ops
  BY <1>3, OwnNames
<1>4. ASSUME Drop, UNCHANGED <<path, made>>, OneOperation PROVE Grows
  <2> QED
    BY <1>0, <1>3, <1>4, DropTypes DEF Grows
<1>5. ASSUME Swap, UNCHANGED made, path # 0, temp[op.n] \notin {0, path}, OneOperation PROVE Grows
  <2>1. \A i \in 1..Len(made) :
          ctime'[i] = IF i \in {path, temp[op.n]} THEN ctime[i] + 1 ELSE ctime[i]
    BY <1>3, <1>5, SwapTypes
  <2> QED
    BY <1>0, <1>5, <2>1 DEF Grows
<1>6. CASE OneOperation
  <2>1. CASE Record \/ Verify \/ Copy \/ Observe \/ Unlink \/ MarkDirty \/ FinishReplace \/ FinishRestore
    BY <1>1, <2>1 DEF Record, Verify, Copy, CopyBegin, CopyEnd, Observe, Unlink, MarkDirty, FinishReplace, FinishRestore, files
  <2>2. CASE Stage
    <3>1. op.bytes \in Bytes
      BY DEF TypeOK, Operations
    <3> QED
      BY <1>1, <1>2, <2>2, <3>1 DEF Stage, files
  <2>3. CASE Exchange \/ Rollback
    <3>1. temp[op.n] \notin {0, path}
      BY <2>3 DEF Exchange, Rollback, Staged, At
    <3> QED
      BY <1>1, <1>5, <1>6, <2>3, <3>1 DEF Exchange, Rollback
  <2>4. CASE Undo \/ Cleanup
    BY <1>1, <1>4, <1>6, <2>4 DEF Undo, GiveUp, Cleanup
  <2>5. CASE Link
    <3>1. CASE ctime' = ctime
      BY <1>1, <2>5, <3>1 DEF Link
    <3>2. CASE ctime' = [ctime EXCEPT ![temp[op.n]] = @ + 1]
      <4>1. PICK i \in 1..Len(made) : i = temp[op.n]
        BY <1>3, <1>6, <2>5 DEF Link, Staged, At, TypeOK, FilesOK
      <4>2. \A j \in 1..Len(made) :
              [ctime EXCEPT ![i] = @ + 1][j] = IF j = i THEN ctime[i] + 1 ELSE ctime[j]
        BY Renamed DEF TypeOK
      <4> QED
        BY <1>0, <2>5, <3>2, <4>1, <4>2 DEF Grows, Link
    <3> QED
      BY <2>5, <3>1, <3>2 DEF Link
  <2> QED
    BY <1>6, <2>1, <2>2, <2>3, <2>4, <2>5 DEF OneOperation
<1>7. CASE Others
  BY <1>1, <1>2, <1>7 DEF Others, MaintainRecoveries, MaintainCrash, RecoveryAges, EditorSaves,
     EditorRemoves, WriterCrash, files
<1> QED
  BY <1>6, <1>7

LEMMA GrowTypes ==
    ASSUME TypeOK, Progress, Staged, OneOperation
    PROVE  /\ Len(made') \in Nat /\ Len(made) \in Nat /\ Len(made) <= Len(made')
           /\ \A i \in 1..Len(made) :
                ctime[i] \in Nat /\ ctime'[i] \in Nat /\ ctime[i] <= ctime'[i]
<1>1. FilesOK'
  BY OneOperationFiles
<1>2. made' \in Seq(Bytes) /\ ctime' \in Seq(Nat) /\ Len(ctime') = Len(made')
  BY <1>1 DEF FilesOK
<1>3. made \in Seq(Bytes) /\ ctime \in Seq(Nat) /\ Len(ctime) = Len(made)
  BY DEF TypeOK, FilesOK
<1>4. /\ Len(made) <= Len(made')
      /\ \A i \in 1..Len(made) : ctime[i] <= ctime'[i]
  BY CountsGrow DEF Grows
<1>5. Len(made) \in Nat /\ Len(made') \in Nat
  BY <1>2, <1>3
<1>6. \A i \in 1..Len(ctime) : ctime[i] \in Nat
  BY <1>3
<1>7. \A i \in 1..Len(ctime') : ctime'[i] \in Nat
  BY <1>2
<1> QED
  BY <1>2, <1>3, <1>4, <1>5, <1>6, <1>7

LEMMA BeginVersions ==
    ASSUME TypeOK,
           \/ \E b \in Bytes : BeginCreate(b) \/ BeginReplace(b)
           \/ \E r \in Ops : BeginRestore(r)
           \/ BeginDelete
    PROVE  Versions'
<1>1. /\ UNCHANGED files /\ op'.phase = "announced" /\ op'.want = Token(path)
      /\ op'.pc # "exchange"
      /\ op'.kind = "create" => path = 0
      /\ op'.kind = "replace" => path # 0
  BY BeginFrom
<1>2. path \in 0..Len(made) /\ Len(made) \in Nat /\ \A i \in 1..Len(made) : ctime[i] \in Nat
  BY DEF TypeOK, FilesOK
<1> QED
  BY <1>1, <1>2 DEF Versions, Token, Absent, files, At

LEMMA OperationVersions ==
    ASSUME TypeOK, Progress, Staged, Versions, OneOperation PROVE Versions'
<1>0. /\ op.n \in Ops /\ path \in 0..Len(made) /\ Len(made) \in Nat
      /\ temp[op.n] \in 0..Len(made)
      /\ \A i \in 1..Len(made) : ctime[i] \in Nat
      /\ op.want[1] \in Nat /\ op.want[2] \in Nat
  <2>1. op.want \in Nat \X Nat
    BY DEF TypeOK, Operations
  <2>2. op.n \in Ops
    BY OwnNames
  <2> QED
    BY <2>1, <2>2 DEF TypeOK, FilesOK
<1>1. CASE op' = Idle
  BY <1>1 DEF Versions, Idle, At
<1>2. CASE op'.n = op.n /\ op'.kind = op.kind /\ op'.want = op.want /\ Goes
  <2>0. op.pc # "idle"
    BY <1>2 DEF Goes, Record, Stage, Exchange, Verify, Copy, CopyBegin, CopyEnd, Observe, Rollback, Link, Cleanup,
       Unlink, MarkDirty, At
  <2>1. /\ op'.want[1] <= Len(made')
        /\ op'.kind = "create" => op'.want = Absent
    BY <1>0, <1>2, <2>0, GrowTypes DEF Versions, At
  <2>2. op'.kind = "replace" => op'.want[1] # 0 /\ op'.want[2] <= ctime'[op'.want[1]]
    <3> SUFFICES ASSUME op.kind = "replace"
                 PROVE  op.want[1] # 0 /\ op.want[2] <= ctime'[op.want[1]]
      BY <1>2
    <3>1. op.want[1] \in 1..Len(made) /\ op.want[2] <= ctime[op.want[1]]
      BY <1>0, <2>0 DEF Versions, At
    <3>2. ctime[op.want[1]] <= ctime'[op.want[1]] /\ ctime'[op.want[1]] \in Nat
      BY <3>1, GrowTypes
    <3> QED
      BY <1>0, <3>1, <3>2
  <2>3. op'.pc = "exchange" => temp'[op'.n] # op'.want[1]
    <3> SUFFICES ASSUME op'.pc = "exchange" PROVE temp'[op.n] # op.want[1]
      BY <1>2
    <3>1. Stage
      BY <1>2 DEF Goes, After
    <3>2. temp'[op.n] = Len(made) + 1
      BY <1>0, <3>1 DEF Stage, Go, TypeOK, FilesOK, Operations
    <3> QED
      BY <1>0, <2>0, <3>2 DEF Versions, At
  <2>4. ASSUME op.kind = "replace", op'.phase \in {"moved", "back"},
               op.want[1] \in {path', temp'[op.n]}
        PROVE  op.want[2] < ctime'[op.want[1]]
    <3>0. /\ op.want[1] \in 1..Len(made)
          /\ ctime[op.want[1]] <= ctime'[op.want[1]] /\ ctime'[op.want[1]] \in Nat
      <4>1. op.want[1] \in 1..Len(made)
        BY <1>0, <2>0, <2>4 DEF Versions, At
      <4> QED
        BY <4>1, GrowTypes
    <3>1. CASE op.phase \in {"moved", "back"} /\ op.want[1] \in {path, temp[op.n]}
      <4>1. op.want[2] < ctime[op.want[1]]
        BY <2>0, <2>4, <3>1 DEF Versions, At
      <4>2. ctime[op.want[1]] \in Nat
        BY <1>0, <3>0
      <4> QED
        BY <1>0, <3>0, <4>1, <4>2
    <3>2. CASE Exchange
      <4>1. path # 0 /\ Swap
        BY <2>4, <3>2, <1>0 DEF Exchange, Go, Progress, At, TypeOK, Operations
      <4>2. temp[op.n] \notin {0, path} /\ temp[op.n] # op.want[1]
        BY <3>2 DEF Exchange, At, Staged, Versions
      <4>3. op.want[1] = path
        BY <1>0, <2>4, <4>1, <4>2 DEF Swap, TypeOK, FilesOK
      <4>4. ctime'[op.want[1]] = ctime[op.want[1]] + 1
        BY <1>0, <3>0, <4>1, <4>2, <4>3, SwapTypes
      <4> QED
        BY <1>0, <2>0, <2>4, <3>0, <4>4 DEF Versions, At
    <3>3. CASE ~Exchange
      <4>1. op.phase = "moved" /\ (Verify \/ Copy \/ Observe \/ Rollback \/ MarkDirty)
        BY <1>2, <2>4, <3>3 DEF Goes, After, Progress, At, Record, Stage, Exchange, Verify, Copy, CopyBegin, CopyEnd, Observe,
           Rollback, Link, Cleanup, Unlink, MarkDirty
      <4>2. op.want[1] \in {path, temp[op.n]}
        BY <1>0, <2>4, <3>0, <4>1 DEF Verify, Copy, CopyBegin, CopyEnd, Observe, Rollback, MarkDirty, Swap, files, TypeOK, FilesOK
      <4> QED
        BY <3>1, <4>1, <4>2
    <3> QED
      BY <3>2, <3>3
  <2> QED
    BY <1>2, <2>1, <2>2, <2>3, <2>4 DEF Versions, At
<1> QED
  BY <1>1, <1>2, Steps

LEMMA OthersVersions ==
    ASSUME TypeOK, Progress, Staged, Versions, Others PROVE Versions'
<1>0. /\ path \in 0..Len(made) /\ Len(made) \in Nat
      /\ \A i \in 1..Len(made) : ctime[i] \in Nat
      /\ op.want[1] \in Nat /\ op.want[2] \in Nat
      /\ Len(ctime) = Len(made)
  <2>1. FilesOK /\ op \in Operations
    BY DEF TypeOK
  <2>2. op.want \in Nat \X Nat
    BY ONLY <2>1 DEF Operations
  <2>3. op.want[1] \in Nat /\ op.want[2] \in Nat
    BY ONLY <2>2
  <2> QED
    BY ONLY <2>1, <2>3 DEF FilesOK
<1>1. CASE UNCHANGED <<files, op>>
  BY <1>1 DEF Versions, files, At
<1>2. CASE \E b \in Bytes : EditorSaves(b)
  <2>1. /\ path' = Len(made) + 1 /\ Len(made') = Len(made) + 1
        /\ \A i \in 1..Len(made) : ctime'[i] = ctime[i]
        /\ UNCHANGED <<temp, op>>
    BY <1>2, FreshVersion DEF EditorSaves, TypeOK, FilesOK
  <2> QED
    BY <1>0, <2>1 DEF Versions, At
<1>3. CASE EditorRemoves
  BY <1>0, <1>3 DEF Versions, At, EditorRemoves
<1>4. CASE WriterCrash
  BY <1>4 DEF Versions, At, WriterCrash, Idle
<1> QED
  BY <1>1, <1>2, <1>3, <1>4 DEF Others, MaintainRecoveries, MaintainCrash, RecoveryAges

-----------------------------------------------------------------------------
(* Where the replaced contents are *)

HeldIn(i, rows, cs) ==
    \E o \in Ops : temp[o] = i \/ (cs[o] = i /\ stored[o] = "whole" /\ rows[o].linked)
RowsTrue(rows, cs) ==
    \A o \in Ops :
      /\ Live(rows[o]) => rows[o].linked
      /\ rows[o].linked => cs[o] \in {0, rows[o].base[1]}
      /\ rows[o].state = "available" => cs[o] # 0
Core ==
    /\ path \notin owed
    /\ \A i \in owed \ released : HeldIn(i, recovery, copies)
    /\ RowsTrue(recovery, copies)
\* What the operation owes at its step.
Owes ==
    /\ ~At("idle") /\ (op.kind # "replace" \/ At("exchange") \/ (At("undo") /\ ~op.kept))
         => temp[op.n] \notin owed
    /\ op.kind = "replace" =>
         /\ op.pc \in {"record", "stage", "exchange", "verify", "copy"} => copies[op.n] = 0
         /\ op.pc \in {"copy", "copying", "observe"} => temp[op.n] = op.want[1]
         /\ op.pc \in {"copying", "observe"} => copies[op.n] = temp[op.n]
         /\ At("observe") => stored[op.n] = "whole"
         /\ At("rollback") => copies[op.n] \in {0, temp[op.n]}
         /\ At("undo") /\ copies[op.n] \in owed => op.kept /\ temp[op.n] = copies[op.n]
         /\ op.pc \in {"dirty", "finalize"} => copies[op.n] = op.want[1]
    /\ op.kind = "replace" /\ op.pc \notin {"idle", "record"} =>
         recovery[op.n].state = "prepared" /\ recovery[op.n].base = op.want
\* What is known of how far the copies came.
Written ==
    \A o \in Ops :
      /\ copies[o] # 0 => stored[o] # "none"
      /\ stored[o] = "begun" <=> At("copying") /\ op.n = o

LEMMA Parts == (OwedIsHeld /\ RowsAreTrue) <=> (Core /\ Owes /\ Written)
BY DEF OwedIsHeld, RowsAreTrue, Core, Owes, Written, Holding, HeldIn, RowsTrue

\* Maintenance discards no row whose copy is the last of an owed content.
LEMMA MaintainKeeps ==
    ASSUME TypeOK, NEW rows \in [Ops -> Recoveries],
           path \notin owed, \A i \in owed \ released : HeldIn(i, rows, copies),
           RowsTrue(rows, copies),
           recovery' = Maintained(rows), released' = released \cup Spent(rows),
           copies' = Referenced(Maintained(rows)) \/ copies' = copies,
           UNCHANGED <<path, temp, stored, owed>>
    PROVE  Core'
<1>0. /\ path \in 0..Len(made) /\ owed \in SUBSET (1..Len(made)) /\ 0 \notin owed
      /\ copies \in [Ops -> 0..Len(made)]
      /\ \A o \in Ops : rows[o] \in Recoveries
  BY DEF TypeOK, FilesOK
<1>1. Discarded.linked = FALSE /\ Discarded.state = "discarded"
  BY DEF Discarded, NoRecovery
<1>2. \A o \in Ops : /\ GivenUp(rows, o) => recovery'[o] = Discarded
                     /\ ~GivenUp(rows, o) =>
                          /\ recovery'[o].linked = rows[o].linked
                          /\ recovery'[o].base = rows[o].base
                          /\ \/ recovery'[o].state = rows[o].state
                             \/ Undoable(rows, o) /\ recovery'[o].state = "available"
  BY <1>0 DEF Maintained, Recoveries
<1>3. \A o \in Ops : /\ copies'[o] \in {0, copies[o]}
                     /\ recovery'[o].linked => copies'[o] = copies[o]
  BY <1>0 DEF Referenced
<1>4. ASSUME NEW o \in Ops, rows[o].linked, stored[o] = "whole",
             copies[o] \in owed, copies[o] \notin released'
      PROVE  ~GivenUp(rows, o)
  <2>1. copies[o] # 0 /\ copies[o] = rows[o].base[1] /\ copies[o] # path
    BY <1>0, <1>4 DEF RowsTrue
  <2>2. copies[o] \notin Spent(rows)
    BY <1>4
  <2>3. ~Superseded(rows, o) /\ ~Expired(rows, o)
    BY <1>4, <2>1, <2>2 DEF Spent, CopyOf
  <2>4. ~Untouched(rows, o)
    BY <2>1 DEF Untouched, Prepared, Token
  <2>5. Landed(rows, o) => Undoable(rows, o)
    BY <1>4, <2>1 DEF Undoable
  <2> QED
    BY <2>3, <2>4, <2>5 DEF GivenUp
<1>5. ASSUME NEW i \in owed \ released' PROVE HeldIn(i, recovery, copies)'
  <2>1. PICK o \in Ops : temp[o] = i \/ (copies[o] = i /\ stored[o] = "whole" /\ rows[o].linked)
    BY DEF HeldIn
  <2>2. CASE temp[o] = i
    BY <2>2 DEF HeldIn
  <2>3. CASE copies[o] = i /\ stored[o] = "whole" /\ rows[o].linked
    <3>1. recovery'[o].linked /\ copies'[o] = i /\ stored'[o] = "whole"
      BY <1>2, <1>3, <1>4, <2>3
    <3> QED
      BY <3>1 DEF HeldIn
  <2> QED
    BY <2>1, <2>2, <2>3
<1>6. RowsTrue(recovery, copies)'
  <2> SUFFICES ASSUME NEW o \in Ops
               PROVE  /\ Live(recovery'[o]) => recovery'[o].linked
                      /\ recovery'[o].linked => copies'[o] \in {0, recovery'[o].base[1]}
                      /\ recovery'[o].state = "available" => copies'[o] # 0
    BY DEF RowsTrue, Live
  <2>1. CASE GivenUp(rows, o)
    BY <1>1, <1>2, <2>1 DEF Live
  <2>2. CASE ~GivenUp(rows, o)
    BY <1>2, <1>3, <2>2 DEF Live, RowsTrue, Undoable, Landed, Prepared
  <2> QED
    BY <2>1, <2>2
<1> QED
  BY <1>5, <1>6 DEF Core

LEMMA BeginKept ==
    ASSUME TypeOK, Progress, Core,
           \/ \E b \in Bytes : BeginCreate(b) \/ BeginReplace(b)
           \/ \E r \in Ops : BeginRestore(r)
           \/ BeginDelete
    PROVE  Core' /\ Owes'
<1>0. /\ UNCHANGED <<files, stored, owed>> /\ op'.n = started + 1 /\ started < MaxOps
      /\ \/ op'.kind = "create" /\ op'.pc = "stage"
         \/ op'.kind = "replace" /\ op'.pc = "record"
         \/ op'.kind = "restore" /\ op'.pc = "stage"
         \/ op'.kind = "delete" /\ op'.pc = "unlink"
  BY BeginFrom
<1>1. /\ op'.n \in Ops /\ op'.n > started /\ copies \in [Ops -> 0..Len(made)]
      /\ 0 \notin owed
  BY <1>0 DEF TypeOK, CountsOK, Ops, FilesOK
<1>2. temp'[op'.n] = 0 /\ copies[op'.n] = 0
  BY <1>0, <1>1 DEF Progress, files
<1>3. recovery \in [Ops -> Recoveries]
  BY DEF TypeOK
<1>4. CASE Maintain(recovery)
  <2>1. Core'
    BY <1>0, <1>3, <1>4, MaintainKeeps DEF Core, Maintain, files
  <2>2. copies'[op'.n] = 0
    BY <1>1, <1>2, <1>4 DEF Maintain, Referenced
  <2> QED
    BY <1>0, <1>1, <1>2, <2>1, <2>2 DEF Owes, At
<1>5. CASE UNCHANGED records
  <2>1. Core'
    BY <1>0, <1>5 DEF Core, records, files, HeldIn, RowsTrue, Live
  <2> QED
    BY <1>0, <1>1, <1>2, <1>5, <2>1 DEF Owes, At, records
<1> QED
  BY <1>4, <1>5 DEF BeginCreate, BeginReplace, BeginRestore, BeginDelete

LEMMA OperationCore ==
    ASSUME TypeOK, Progress, Staged, Versions, Core, Owes, OneOperation PROVE Core'
<1>0. /\ op.n \in Ops /\ Len(made) \in Nat /\ path \in 0..Len(made) /\ temp \in [Ops -> 0..Len(made)]
      /\ copies \in [Ops -> 0..Len(made)] /\ recovery \in [Ops -> Recoveries]
      /\ owed \in SUBSET (1..Len(made)) /\ 0 \notin owed /\ op.pc # "idle"
  <2>1. op.pc # "idle"
    BY DEF OneOperation, At, Record, Stage, Exchange, Verify, Copy, CopyBegin, CopyEnd,
         Observe, Rollback, Undo, Link, Cleanup, Unlink, MarkDirty, FinishReplace, FinishRestore
  <2>2. op.n \in Ops
    BY OwnNames
  <2>3. /\ Len(made) \in Nat /\ path \in 0..Len(made) /\ temp \in [Ops -> 0..Len(made)]
        /\ copies \in [Ops -> 0..Len(made)] /\ recovery \in [Ops -> Recoveries]
        /\ owed \in SUBSET (1..Len(made))
    BY DEF TypeOK, FilesOK
  <2> QED
    BY <2>1, <2>2, <2>3
<1>90. ASSUME UNCHANGED <<path, owed, recovery, copies, stored, released>>,
             \A o \in Ops : temp[o] \in owed => temp'[o] = temp[o]
      PROVE  Core'
  BY <1>90 DEF Core, HeldIn, RowsTrue, Live
<1>1. CASE Record
  <2>1. /\ UNCHANGED <<files, copies, stored, released, owed>> /\ copies[op.n] = 0
        /\ \A o \in Ops \ {op.n} : recovery'[o] = recovery[o]
        /\ recovery'[op.n].state = "prepared" /\ recovery'[op.n].linked
    BY <1>0, <1>1 DEF Record, Owes, At, Progress
  <2>2. \A i \in owed' \ released' : HeldIn(i, recovery, copies)'
    BY <1>0, <2>1 DEF Core, HeldIn, files
  <2>3. RowsTrue(recovery, copies)'
    BY <1>0, <2>1 DEF Core, RowsTrue, Live
  <2> QED
    BY <2>1, <2>2, <2>3 DEF Core, files
<1>2. CASE Stage
  <2>1. temp[op.n] = 0
    BY <1>2 DEF Stage, Staged, At
  <2> QED
    BY <1>0, <1>2, <1>90, <2>1 DEF Stage, files, records
<1>3. CASE Exchange
  <2>1. temp[op.n] \notin {0, path} /\ temp[op.n] \notin owed
    BY <1>0, <1>3 DEF Exchange, Staged, At, Owes
  <2>2. UNCHANGED <<recovery, copies, stored, released>>
    BY <1>3 DEF Exchange, records
  <2>3. CASE UNCHANGED <<path, temp, owed>>
    BY <1>90, <2>2, <2>3
  <2>4. CASE Swap /\ owed' \in {owed, owed \cup {path}}
    <3>1. /\ path' = temp[op.n] /\ temp'[op.n] = path
          /\ \A o \in Ops \ {op.n} : temp'[o] = temp[o]
      BY <1>0, <2>4 DEF Swap
    <3>2. path' \notin owed'
      BY <2>1, <2>4, <3>1
    <3>3. ASSUME NEW i \in owed' \ released' PROVE HeldIn(i, recovery, copies)'
      <4>1. CASE i = path
        BY <1>0, <3>1, <4>1 DEF HeldIn
      <4>2. CASE i \in owed \ released
        BY <2>1, <2>2, <3>1, <4>2 DEF Core, HeldIn
      <4> QED
        BY <2>2, <2>4, <4>1, <4>2
    <3> QED
      BY <2>2, <3>2, <3>3 DEF Core, RowsTrue, Live
  <2> QED
    BY <1>3, <2>3, <2>4 DEF Exchange
<1>4. CASE Verify \/ MarkDirty
  BY <1>4, <1>90 DEF Verify, MarkDirty, files, records
<1>5. CASE Copy
  <2>1. /\ UNCHANGED <<path, temp, recovery, owed, released>> /\ op.kind = "replace"
        /\ copies[op.n] \in {0, temp[op.n]} /\ copies'[op.n] \in {0, temp[op.n]}
        /\ \A o \in Ops \ {op.n} : copies'[o] = copies[o] /\ stored'[o] = stored[o]
    <3>1. op.kind = "replace" /\ UNCHANGED <<path, temp, recovery, owed, released>>
      BY <1>5 DEF Copy, CopyBegin, CopyEnd, files, At, Progress
    <3>2. stored \in [Ops -> Stages]
      BY DEF TypeOK, FilesOK, Stages
    <3>3. CASE CopyBegin
      BY <1>0, <3>1, <3>2, <3>3 DEF CopyBegin, Owes, At
    <3>4. CASE CopyEnd
      BY <1>0, <3>1, <3>2, <3>4 DEF CopyEnd, Owes, At
    <3> QED
      BY <1>5, <3>3, <3>4 DEF Copy
  <2>2. recovery[op.n].state = "prepared" /\ recovery[op.n].base[1] = temp[op.n]
    BY <1>5, <2>1 DEF Owes, Copy, CopyBegin, CopyEnd, At
  <2>3. RowsTrue(recovery, copies)'
    BY <2>1, <2>2 DEF RowsTrue, Live, Core
  <2>4. \A i \in owed' \ released' : HeldIn(i, recovery, copies)'
    BY <1>0, <2>1 DEF Core, HeldIn
  <2> QED
    BY <2>1, <2>3, <2>4 DEF Core
<1>6. CASE Observe
  <2>1. UNCHANGED <<path, recovery, copies, stored, released, owed>>
    BY <1>6 DEF Observe, records
  <2>2. CASE temp' = temp
    BY <1>90, <2>1, <2>2
  <2>3. CASE temp' = [temp EXCEPT ![op.n] = 0]
    <3>1. \/ temp[op.n] \notin owed
          \/ copies[op.n] = temp[op.n] /\ stored[op.n] = "whole" /\ recovery[op.n].linked
      BY <1>0, <1>6 DEF Observe, Owes, At, Core, RowsTrue, Live
    <3>2. \A i \in owed' \ released' : HeldIn(i, recovery, copies)'
      BY <1>0, <2>1, <2>3, <3>1 DEF Core, HeldIn
    <3> QED
      BY <2>1, <3>2 DEF Core, RowsTrue, Live
  <2> QED
    BY <1>6, <2>2, <2>3 DEF Observe
<1>7. CASE Rollback
  <2>1. temp[op.n] \notin {0, path}
    BY <1>7 DEF Rollback, Staged, At
  <2>2. UNCHANGED <<recovery, copies, stored, released>>
    BY <1>7 DEF Rollback, records
  <2>3. CASE UNCHANGED <<path, temp, owed>>
    BY <1>90, <2>2, <2>3
  <2>4. CASE Swap /\ owed' = owed \ {temp[op.n]}
    <3>1. /\ path' = temp[op.n]
          /\ \A o \in Ops \ {op.n} : temp'[o] = temp[o]
      BY <1>0, <2>4 DEF Swap
    <3>2. \A i \in owed' \ released' : HeldIn(i, recovery, copies)'
      BY <2>2, <2>4, <3>1 DEF Core, HeldIn
    <3> QED
      BY <2>2, <2>4, <3>1, <3>2 DEF Core, RowsTrue, Live
  <2> QED
    BY <1>7, <2>3, <2>4 DEF Rollback
<1>8. CASE Undo
  <2>1. UNCHANGED <<path, owed, stored, released>>
    BY <1>8 DEF Undo, GiveUp
  <2>2. \A o \in Ops : temp[o] \in owed => temp'[o] = temp[o]
    BY <1>0, <1>8 DEF Undo, GiveUp, Drop, Owes, At
  <2>3. CASE op.kind # "replace"
    BY <1>8, <1>90, <2>1, <2>2, <2>3 DEF Undo, GiveUp
  <2>4. CASE op.kind = "replace"
    <3>1. /\ copies'[op.n] = 0 /\ \A o \in Ops \ {op.n} : copies'[o] = copies[o]
          /\ copies[op.n] \in owed => temp[op.n] = copies[op.n]
      BY <1>0, <1>8, <2>4 DEF Undo, GiveUp, Owes, At
    <3>2. /\ \A o \in Ops \ {op.n} : recovery'[o] = recovery[o]
          /\ recovery'[op.n] \in {recovery[op.n], Discarded}
      BY <1>0, <1>8 DEF Undo
    <3>3. recovery[op.n].state = "prepared" /\ recovery[op.n].linked
      BY <1>0, <1>8, <2>4 DEF Undo, At, Owes, Core, RowsTrue, Live
    <3>4. RowsTrue(recovery, copies)'
      BY <3>1, <3>2, <3>3 DEF Core, RowsTrue, Live, Discarded, NoRecovery
    <3>5. \A i \in owed' \ released' : HeldIn(i, recovery, copies)'
      BY <2>1, <2>2, <3>1, <3>2 DEF Core, HeldIn
    <3> QED
      BY <2>1, <3>4, <3>5 DEF Core
  <2> QED
    BY <2>3, <2>4
<1>9. CASE Link
  <2>1. UNCHANGED <<temp, owed, recovery, copies, stored, released>> /\ path' \in {path, temp[op.n]}
        /\ temp[op.n] \notin owed
    BY <1>0, <1>9 DEF Link, records, Owes, At, Progress
  <2> QED
    BY <2>1 DEF Core, HeldIn, RowsTrue, Live
<1>10. CASE Cleanup
  <2>1. temp[op.n] \notin owed
    BY <1>0, <1>10 DEF Cleanup, Owes, At, Progress
  <2> QED
    BY <1>0, <1>10, <1>90, <2>1 DEF Cleanup, Drop, records
<1>11. CASE Unlink
  BY <1>0, <1>11 DEF Unlink, records, Core, HeldIn, RowsTrue, Live
<1>12. CASE FinishReplace
  <2>1. /\ Available \in [Ops -> Recoveries]
        /\ \A o \in Ops : /\ Available[o].linked = recovery[o].linked
                          /\ Available[o].base = recovery[o].base
                          /\ o # op.n => Available[o] = recovery[o]
    <3>1. op.result \in Nat \X Nat
      BY DEF TypeOK, Operations
    <3>2. [recovery[op.n] EXCEPT !.state = "available", !.result = op.result] \in Recoveries
      <4>1. recovery[op.n] \in Recoveries
        BY <1>0
      <4> QED
        BY <3>1, <4>1 DEF Recoveries
    <3>3. Available = [recovery EXCEPT ![op.n] = [recovery[op.n] EXCEPT !.state = "available", !.result = op.result]]
      BY <1>0 DEF Available
    <3>4. \A o \in Ops : recovery[o] \in Recoveries
      BY <1>0
    <3> QED
      BY <1>0, <3>2, <3>3, <3>4 DEF Recoveries
  <2>2. recovery[op.n].linked /\ copies[op.n] # 0
    BY <1>0, <1>12 DEF FinishReplace, At, Owes, Core, RowsTrue, Live, Versions
  <2>3. RowsTrue(Available, copies) /\ \A i \in owed \ released : HeldIn(i, Available, copies)
    BY <2>1, <2>2 DEF Core, RowsTrue, HeldIn, Live
  <2>4. CASE Maintain(Available)
    BY <1>12, <2>1, <2>3, <2>4, MaintainKeeps DEF FinishReplace, Maintain, files, Core
  <2>5. CASE recovery' \in {recovery, Available} /\ UNCHANGED <<copies, stored, released>>
    BY <1>12, <2>3, <2>5 DEF FinishReplace, files, Core, HeldIn, RowsTrue, Live
  <2> QED
    BY <1>12, <2>4, <2>5 DEF FinishReplace
<1>13. CASE FinishRestore
  <2>1. UNCHANGED <<path, temp, owed>>
    BY <1>13 DEF FinishRestore, files
  <2>2. CASE UNCHANGED records
    BY <1>90, <2>1, <2>2 DEF records
  <2>3. CASE /\ recovery' = [recovery EXCEPT ![op.from].state = "restored"]
             /\ copies' = [copies EXCEPT ![op.from] = 0] /\ UNCHANGED stored
             /\ released' = released \cup (owed \cap CopyOf({op.from}))
    <3>1. \A o \in Ops : /\ recovery'[o].linked = recovery[o].linked
                         /\ recovery'[o].base = recovery[o].base
                         /\ o # op.from => recovery'[o] = recovery[o] /\ copies'[o] = copies[o]
                         /\ o = op.from => recovery'[o].state = "restored" /\ copies'[o] = 0
      <4>1. \A o \in Ops : recovery[o] \in Recoveries
        BY <1>0
      <4> QED
        BY <1>0, <2>3, <4>1 DEF Recoveries
    <3>2. RowsTrue(recovery, copies)'
      BY <3>1 DEF Core, RowsTrue, Live
    <3>3. \A i \in owed' \ released' : HeldIn(i, recovery, copies)'
      BY <1>0, <2>1, <2>3, <3>1 DEF Core, HeldIn, CopyOf
    <3> QED
      BY <2>1, <3>2, <3>3 DEF Core
  <2> QED
    BY <1>13, <2>2, <2>3 DEF FinishRestore
<1> QED
  BY <1>1, <1>2, <1>3, <1>4, <1>5, <1>6, <1>7, <1>8, <1>9, <1>10, <1>11, <1>12, <1>13 DEF OneOperation

LEMMA OperationOwes ==
    ASSUME TypeOK, Progress, Staged, Versions, Core, Owes, OneOperation PROVE Owes'
<1>0. /\ op.n \in Ops /\ Len(made) \in Nat /\ path \in 0..Len(made) /\ temp \in [Ops -> 0..Len(made)]
      /\ copies \in [Ops -> 0..Len(made)] /\ recovery \in [Ops -> Recoveries]
      /\ owed \in SUBSET (1..Len(made)) /\ op \in Operations
  <2>1. op.n \in Ops
    BY OwnNames
  <2>2. /\ Len(made) \in Nat /\ path \in 0..Len(made) /\ temp \in [Ops -> 0..Len(made)]
        /\ copies \in [Ops -> 0..Len(made)] /\ recovery \in [Ops -> Recoveries]
        /\ owed \in SUBSET (1..Len(made)) /\ op \in Operations
    BY DEF TypeOK, FilesOK
  <2> QED
    BY <2>1, <2>2
<1>1. 0 \notin owed
  BY <1>0
<1>2. CASE op' = Idle
  BY <1>2 DEF Owes, Idle, At
<1>3. CASE op'.n = op.n /\ op'.kind = op.kind /\ op'.want = op.want /\ Goes
  <2> USE <1>0, <1>1, <1>3 DEF At, Go, Went, Operations
  <2>1. CASE Record
    <3>1. op'.pc = "stage" /\ op.kind = "replace" /\ copies[op.n] = 0
      BY <2>1 DEF Record, Progress, Owes
    <3>2. copies' = copies /\ recovery'[op.n].state = "prepared" /\ recovery'[op.n].base = op.want
      BY <2>1 DEF Record
    <3> QED
      BY <3>1, <3>2 DEF Owes
  <2>2. CASE Stage
    <3>1. /\ op.pc = "stage" /\ op'.pc \in {"link", "exchange", "undo"} /\ op'.kept = op.kept
          /\ UNCHANGED <<recovery, copies, owed>>
      BY <2>2 DEF Stage, records
    <3>2. temp'[op.n] \notin owed'
      BY <2>2 DEF Stage, Staged, files
    <3> QED
      BY <3>1, <3>2 DEF Owes
  <2>3. CASE Exchange
    <3>1. /\ op.pc = "exchange" /\ op'.pc \in {"verify", "undo"} /\ UNCHANGED <<recovery, copies>>
      BY <2>3 DEF Exchange, records
    <3>2. temp[op.n] \notin owed /\ (op.kind = "replace" => copies[op.n] = 0)
      BY <3>1 DEF Owes
    <3>3. CASE op'.pc = "undo"
      <4>1. UNCHANGED <<temp, owed>>
        BY <2>3, <3>3 DEF Exchange
      <4> QED
        BY <3>1, <3>2, <3>3, <4>1 DEF Owes
    <3>4. CASE op'.pc = "verify"
      <4>1. Swap /\ owed' = IF op.kind = "replace" THEN owed \cup {path} ELSE owed
        BY <2>3, <3>4 DEF Exchange
      <4>2. op.kind # "replace" => temp'[op.n] \notin owed'
        BY <4>1 DEF Swap, Core
      <4> QED
        BY <3>1, <3>2, <3>4, <4>2 DEF Owes
    <3> QED
      BY <3>1, <3>3, <3>4
  <2>4. CASE Verify
    <3>1. /\ op.pc = "verify" /\ op'.pc \in {"copy", "observe", "rollback"}
          /\ UNCHANGED <<temp, recovery, copies, owed>>
          /\ op'.pc = "copy" => temp[op.n] = op.want[1]
          /\ op'.pc = "observe" => op.kind # "replace"
      BY <2>4 DEF Verify, files, records, SameFile
    <3> QED
      BY <3>1 DEF Owes
  <2>5. CASE CopyBegin
    <3>1. /\ op.pc = "copy" /\ op'.pc = "copying" /\ op.kind = "replace"
          /\ UNCHANGED <<temp, recovery, owed>> /\ copies'[op.n] = temp[op.n]
      BY <2>5 DEF CopyBegin, files, Progress
    <3> QED
      BY <3>1 DEF Owes
  <2>10. CASE CopyEnd
    <3>1. /\ op.pc = "copying" /\ op'.pc \in {"observe", "rollback"} /\ op.kind = "replace"
          /\ UNCHANGED <<temp, recovery, owed>>
          /\ op'.pc = "observe" => copies' = copies /\ stored'[op.n] = "whole"
          /\ op'.pc = "rollback" => copies'[op.n] = 0
      BY <2>10 DEF CopyEnd, files, Progress, TypeOK, FilesOK
    <3> QED
      BY <3>1 DEF Owes
  <2>6. CASE Observe
    <3>1. /\ op.pc = "observe" /\ op'.pc \in {"dirty", "rollback"}
          /\ UNCHANGED <<recovery, copies, owed>>
          /\ op'.pc = "dirty" => temp'[op.n] = 0
          /\ op'.pc = "rollback" => temp' = temp
      BY <2>6 DEF Observe, records
    <3> QED
      BY <3>1 DEF Owes
  <2>7. CASE Rollback
    <3>1. op.pc = "rollback" /\ op'.pc \in {"undo", "rollback"} /\ UNCHANGED <<recovery, copies>>
      BY <2>7 DEF Rollback, records
    <3>2. CASE Swap /\ owed' = owed \ {temp[op.n]} /\ op'.pc = "undo"
      <4>1. temp'[op.n] = path /\ path \notin owed
        BY <3>2 DEF Swap, Core
      <4> QED
        BY <3>1, <3>2, <4>1 DEF Owes
    <3>3. CASE UNCHANGED <<temp, owed>>
      <4>1. op'.pc = "undo" => op'.kept = TRUE
        BY <2>7, <3>3, <3>1 DEF Rollback, Swap, Kept, Staged
      <4> QED
        BY <3>1, <3>3, <4>1 DEF Owes
    <3> QED
      BY <2>7, <3>2, <3>3 DEF Rollback
  <2>8. CASE Link \/ Cleanup \/ Unlink
    <3>1. /\ op.kind \in {"create", "delete"} /\ op.pc # "idle" /\ owed' = owed
          /\ temp'[op.n] \in {0, temp[op.n]}
      BY <2>8 DEF Link, Cleanup, Unlink, Drop, Progress
    <3> QED
      BY <3>1 DEF Owes
  <2>9. CASE MarkDirty
    <3>1. /\ op.pc = "dirty" /\ op'.pc = "finalize" /\ UNCHANGED <<temp, recovery, copies, owed>>
      BY <2>9 DEF MarkDirty, files, records, Goes, After, Record, Stage, Exchange, Verify, Copy, CopyBegin, CopyEnd, Observe,
         Rollback, Link, Cleanup, Unlink
    <3> QED
      BY <3>1 DEF Owes
  <2> QED
    BY <2>1, <2>2, <2>3, <2>4, <2>5, <2>6, <2>7, <2>8, <2>9, <2>10 DEF Goes
<1> QED
  BY <1>2, <1>3, Steps

LEMMA OthersKept ==
    ASSUME TypeOK, Progress, Staged, Versions, Core, Owes, Others PROVE Core' /\ Owes'
<1>0. /\ recovery \in [Ops -> Recoveries] /\ owed \in SUBSET (1..Len(made)) /\ Len(made) \in Nat
  BY DEF TypeOK, FilesOK
<1>1. CASE MaintainRecoveries \/ MaintainCrash
  <2>1. Core'
    BY <1>0, <1>1, MaintainKeeps DEF MaintainRecoveries, MaintainCrash, Maintain, files, Core
  <2>2. op.pc = "idle" /\ op' = op /\ op.kind = op'.kind
    BY <1>1 DEF MaintainRecoveries, MaintainCrash, At
  <2> QED
    BY <2>1, <2>2 DEF Owes, At
<1>2. ASSUME NEW r \in Ops, RecoveryAges(r) PROVE Core' /\ Owes'
  <2>1. UNCHANGED <<files, copies, stored, op, owed, released>>
    BY <1>2 DEF RecoveryAges
  <2>2. \A o \in Ops : /\ recovery'[o].state = recovery[o].state
                       /\ recovery'[o].base = recovery[o].base
                       /\ recovery'[o].linked = recovery[o].linked
    <3>1. \A o \in Ops : recovery[o] \in Recoveries
      BY <1>0
    <3> QED
      BY <1>0, <1>2, <3>1 DEF RecoveryAges, Recoveries
  <2>3. Core'
    BY <2>1, <2>2 DEF Core, HeldIn, RowsTrue, Live, files
  <2>4. op.pc # "idle" => op.n \in Ops
    BY DEF Progress, At, TypeOK, CountsOK, Ops
  <2> QED
    BY <2>1, <2>2, <2>3, <2>4 DEF Owes, At, files
<1>3. CASE \/ \E b \in Bytes : EditorSaves(b)
           \/ EditorRemoves
  <2>1. UNCHANGED <<temp, copies, stored, recovery, op, owed, released>> /\ path' \in {0, Len(made) + 1}
    BY <1>3 DEF EditorSaves, EditorRemoves, records
  <2>2. path' \notin owed'
    BY <1>0, <2>1
  <2> QED
    BY <2>1, <2>2 DEF Core, HeldIn, RowsTrue, Live, Owes, At
<1>4. CASE WriterCrash
  <2>1. /\ UNCHANGED <<files, recovery, copies, released, owed>> /\ op' = Idle
        /\ \A o \in Ops : stored'[o] = stored[o] \/ temp[o] = copies[o]
    BY <1>4 DEF WriterCrash, At, Owes, Progress
  <2> QED
    BY <2>1 DEF Idle, files, Core, HeldIn, RowsTrue, Live, Owes, At
<1> QED
  BY <1>1, <1>2, <1>3, <1>4 DEF Others

\* No copy is taken for whole before its last byte.
LEMMA WrittenKeeps ==
    ASSUME TypeOK, Progress, Written, [FolderNext]_folderVars PROVE Written'
<1>0. stored \in [Ops -> Stages] /\ copies \in [Ops -> 0..Len(made)]
  BY DEF TypeOK, FilesOK, Stages
<1>1. ASSUME UNCHANGED stored, \A o \in Ops : copies'[o] \in {0, copies[o]},
             UNCHANGED op \/ (~At("copying") /\ op'.pc # "copying")
      PROVE  Written'
  BY <1>1 DEF Written, At
<1>2. CASE UNCHANGED folderVars
  BY <1>1, <1>2 DEF folderVars
<1>3. CASE \/ \E b \in Bytes : BeginCreate(b) \/ BeginReplace(b)
           \/ \E r \in Ops : BeginRestore(r)
           \/ BeginDelete
  <2>1. UNCHANGED stored /\ op.pc = "idle" /\ op'.pc # "copying"
    BY <1>3, BeginFrom
  <2>2. \A o \in Ops : copies'[o] \in {0, copies[o]}
    BY <1>3, BeginFrom DEF Referenced
  <2> QED
    BY <1>1, <2>1, <2>2 DEF At
<1>4. CASE OneOperation
  <2>1. op.n \in Ops /\ \A o \in Ops \ {op.n} : copies'[o] \in {0, copies[o]}
    BY <1>4, OwnNames
  <2>2. CASE CopyBegin \/ CopyEnd
    <3>1. /\ op'.n = op.n /\ \A o \in Ops \ {op.n} : stored'[o] = stored[o]
          /\ stored'[op.n] \in {"none", "begun", "whole"}
          /\ stored'[op.n] = "begun" <=> op'.pc = "copying"
          /\ stored'[op.n] = "none" => copies'[op.n] = 0
      BY <1>0, <2>1, <2>2 DEF CopyBegin, CopyEnd, Go, TypeOK, Operations
    <3> QED
      BY <2>1, <3>1 DEF Written, At
  <2>3. CASE ~(CopyBegin \/ CopyEnd)
    <3>1. UNCHANGED stored /\ op.pc # "copying" /\ copies'[op.n] \in {0, copies[op.n]}
      BY <1>0, <1>4, <2>1, <2>3
         DEF OneOperation, Copy, Record, Stage, Exchange, Verify, Observe, Rollback, Undo, GiveUp, Link,
             Cleanup, Unlink, MarkDirty, FinishReplace, FinishRestore, Maintain, Referenced, records, At
    <3>2. op'.pc # "copying"
      BY <1>4, <2>3, Steps DEF Goes, After, Idle, Record, Stage, At
    <3> QED
      BY <1>1, <2>1, <3>1, <3>2 DEF At
  <2> QED
    BY <2>2, <2>3
<1>5. CASE Others /\ ~WriterCrash
  <2>1. UNCHANGED <<stored, op>> /\ \A o \in Ops : copies'[o] \in {0, copies[o]}
    BY <1>0, <1>5 DEF Others, MaintainRecoveries, MaintainCrash, RecoveryAges, EditorSaves, EditorRemoves,
         Maintain, Referenced, records
  <2> QED
    BY <1>1, <2>1
<1>6. CASE WriterCrash
  <2>1. UNCHANGED copies /\ op' = Idle
    BY <1>6 DEF WriterCrash
  <2>2. \A o \in Ops : \/ At("copying") /\ op.n = o /\ stored'[o] = "cut"
                       \/ ~(At("copying") /\ op.n = o) /\ stored'[o] = stored[o]
    <3>1. CASE At("copying")
      <4>1. stored' = [stored EXCEPT ![op.n] = "cut"]
        BY <1>6, <3>1 DEF WriterCrash
      <4>2. \A o \in Ops : /\ op.n = o => stored'[o] = "cut"
                           /\ op.n # o => stored'[o] = stored[o]
        BY <1>0, <4>1
      <4> QED
        BY <3>1, <4>2, Zenon
    <3>2. CASE ~At("copying")
      BY <1>6, <3>2 DEF WriterCrash
    <3> QED
      BY <3>1, <3>2
  <2> QED
    BY <2>1, <2>2 DEF Written, At, Idle
<1> QED
  BY <1>2, <1>3, <1>4, <1>5, <1>6 DEF FolderNext, OneOperation, Others, Copy

Inv == TypeOK /\ Progress /\ Staged /\ Versions /\ Core /\ Owes /\ Written

LEMMA FolderStep == ASSUME Inv, [FolderNext]_folderVars PROVE Inv'
<1>1. TypeOK' /\ Progress' /\ Staged' /\ Written'
  BY TypesKeep, ProgressKeeps, WrittenKeeps DEF Inv
<1>2. CASE UNCHANGED folderVars
  BY <1>1, <1>2 DEF folderVars, Inv, Versions, Core, Owes, HeldIn, RowsTrue, Live, At
<1>3. CASE OneOperation
  BY <1>1, <1>3, OperationVersions, OperationCore, OperationOwes DEF Inv
<1>4. CASE Others
  BY <1>1, <1>4, OthersVersions, OthersKept DEF Inv
<1> QED
  BY <1>1, <1>2, <1>3, <1>4, BeginVersions, BeginKept DEF FolderNext, OneOperation, Others, Copy, Inv

LEMMA FolderStarts == FolderInit => Inv
<1> SUFFICES ASSUME FolderInit PROVE Inv
  OBVIOUS
<1>1. /\ made \in Seq(Bytes) /\ ctime \in Seq(Nat) /\ Len(ctime) = Len(made) /\ Len(made) = 1
  BY DEF FolderInit
<1>2. op = Idle /\ temp = [o \in Ops |-> 0] /\ copies = [o \in Ops |-> 0]
      /\ stored = [o \in Ops |-> "none"]
      /\ recovery = [o \in Ops |-> NoRecovery] /\ owed = {} /\ released = {} /\ path = 1 /\ started = 0
  BY DEF FolderInit
<1>3. TypeOK
  BY <1>1, <1>2, ConstantTypes DEF FolderInit, TypeOK, FilesOK, CountsOK
<1>4. Core
  BY <1>2 DEF Core, RowsTrue, Live, NoRecovery
<1> QED
  BY <1>2, <1>3, <1>4 DEF Inv, Progress, Staged, Versions, Owes, Written, Idle, At

-----------------------------------------------------------------------------
(* The directory and the queue change as FolderChanges says *)

LEMMA CountedNew ==
    ASSUME TypeOK, ctime' = Append(ctime, 0) PROVE Counted' = Counted
<1>1. /\ Len(ctime') = Len(ctime) + 1 /\ Len(ctime) \in Nat
      /\ \A i \in 1..Len(ctime) : ctime'[i] = ctime[i]
      /\ ctime'[Len(ctime) + 1] = 0
  BY AppendProperties DEF TypeOK, FilesOK
<1>2. \A i \in 1..(1 + MaxOps + MaxEdits) :
        (IF i <= Len(ctime') THEN ctime'[i] ELSE 0) = (IF i <= Len(ctime) THEN ctime[i] ELSE 0)
  BY <1>1
<1> QED
  BY <1>2 DEF Counted

LEMMA CountedUp ==
    ASSUME TypeOK, NEW S \in SUBSET (1..Len(made)), Len(ctime') = Len(made),
           \A i \in 1..Len(made) : ctime'[i] = IF i \in S THEN ctime[i] + 1 ELSE ctime[i]
    PROVE  \A i \in 1..(1 + MaxOps + MaxEdits) :
             Counted'[i] = IF i \in S THEN Counted[i] + 1 ELSE Counted[i]
<1>1. Len(ctime) = Len(made) /\ Len(made) \in Nat
  BY DEF TypeOK, FilesOK
<1> QED
  BY <1>1 DEF Counted

LEMMA CountedOne ==
    ASSUME TypeOK, NEW i \in 1..Len(made), ctime' = [ctime EXCEPT ![i] = @ + 1]
    PROVE  Counted' = [Counted EXCEPT ![i] = @ + 1]
<1>1. /\ Len(ctime') = Len(made)
      /\ \A j \in 1..Len(made) : ctime'[j] = IF j = i THEN ctime[i] + 1 ELSE ctime[j]
  BY Renamed DEF TypeOK
<1>2. \A j \in 1..(1 + MaxOps + MaxEdits) :
        Counted'[j] = IF j \in {i} THEN Counted[j] + 1 ELSE Counted[j]
  BY <1>1, CountedUp
<1> QED
  BY <1>2 DEF Counted

LEMMA CountedTwo ==
    ASSUME TypeOK, NEW i \in 1..Len(made), NEW j \in 1..Len(made), i # j,
           Len(ctime') = Len(made),
           \A k \in 1..Len(made) : ctime'[k] = IF k \in {i, j} THEN ctime[k] + 1 ELSE ctime[k]
    PROVE  Counted' = [Counted EXCEPT ![i] = @ + 1, ![j] = @ + 1]
<1>1. \A k \in 1..(1 + MaxOps + MaxEdits) :
        Counted'[k] = IF k \in {i, j} THEN Counted[k] + 1 ELSE Counted[k]
  BY CountedUp
<1> QED
  BY <1>1 DEF Counted

LEMMA DropMaps ==
    ASSUME TypeOK, Drop, op.n \in Ops, UNCHANGED path PROVE Changes!Drop
<1>1. CASE path # 0 /\ temp[op.n] = path
  <2>1. path \in 1..Len(made)
    BY <1>1 DEF TypeOK, FilesOK
  <2>2. Counted' = [Counted EXCEPT ![path] = @ + 1]
    BY <1>1, <2>1, CountedOne DEF Drop
  <2> QED
    BY <1>1, <2>2 DEF Drop, Changes!Drop
<1>2. CASE ~(path # 0 /\ temp[op.n] = path)
  <2>1. Counted' = Counted
    BY <1>2 DEF Drop, Counted
  <2> QED
    BY <1>2, <2>1 DEF Drop, Changes!Drop
<1> QED
  BY <1>1, <1>2

LEMMA SwapMaps ==
    ASSUME TypeOK, Swap, op.n \in Ops, path # 0, temp[op.n] \notin {0, path}, UNCHANGED made
    PROVE  /\ path' = temp[op.n] /\ temp' = [temp EXCEPT ![op.n] = path]
           /\ Counted' = Changes!Exchanged(path, temp[op.n])
<1>1. PICK i \in 1..Len(made) : i = path
  BY DEF TypeOK, FilesOK
<1>2. PICK j \in 1..Len(made) : j = temp[op.n]
  BY DEF TypeOK, FilesOK
<1>3. /\ Len(ctime') = Len(made)
      /\ \A k \in 1..Len(made) : ctime'[k] = IF k \in {i, j} THEN ctime[k] + 1 ELSE ctime[k]
  BY <1>1, <1>2, SwapTypes
<1>4. Counted' = [Counted EXCEPT ![i] = @ + 1, ![j] = @ + 1]
  <2>1. i # j
    BY <1>1, <1>2
  <2> QED
    BY <1>3, <2>1, CountedTwo, Zenon
<1> QED
  BY <1>1, <1>2, <1>4 DEF Swap, Changes!Exchanged

Abstract == <<path, Len(made), Counted, temp, mark, op.n, op.phase, started, edits>>

LEMMA Stutters ==
    ASSUME UNCHANGED <<files, mark, started, edits>>, op'.n = op.n, op'.phase = op.phase
    PROVE  UNCHANGED Abstract
BY DEF files, Abstract, Counted

\* The end of an operation, whatever its outcome.
LEMMA ReleaseMaps ==
    ASSUME TypeOK, Progress, OneOperation \/ WriterCrash, op.pc # "idle", op' = Idle,
           UNCHANGED <<path, made, started, edits>>,
           UNCHANGED <<temp, ctime>> \/ Drop,
           mark' = mark \/ (mark' = Withdrawn /\ (op.phase \in {"announced", "staged"} \/ path = 0))
    PROVE  Changes!Release
<1>1. op.n # 0 /\ op.n \in Ops
  BY DEF Progress, At, TypeOK, CountsOK, Ops
<1>2. UNCHANGED <<temp, Counted>> \/ Changes!Drop
  BY <1>1, DropMaps DEF Counted
<1> QED
  BY <1>1, <1>2 DEF Changes!Release, Changes!Over, Idle, Withdrawn, Changes!Withdrawn

LEMMA OperationMaps ==
    ASSUME Inv, OneOperation PROVE [Changes!FolderNext]_Abstract
<1>0. /\ TypeOK /\ Progress /\ Staged /\ Versions /\ op.n \in Ops /\ op.n # 0 /\ op.pc # "idle"
      /\ path \in 0..Len(made) /\ temp \in [Ops -> 0..Len(made)] /\ Len(made) \in Nat
      /\ op \in Operations
  <2>1. op.n \in 1..started /\ op.n \in Ops
    BY OwnNames DEF Inv
  <2>2. op.pc # "idle"
    BY DEF OneOperation, At, Record, Stage, Exchange, Verify, Copy, CopyBegin, CopyEnd,
         Observe, Rollback, Undo, Link, Cleanup, Unlink, MarkDirty, FinishReplace, FinishRestore
  <2>3. /\ path \in 0..Len(made) /\ temp \in [Ops -> 0..Len(made)] /\ Len(made) \in Nat
        /\ op \in Operations
    BY DEF Inv, TypeOK, FilesOK
  <2> QED
    BY <2>1, <2>2, <2>3 DEF Inv, TypeOK, CountsOK
<1> USE <1>0
<1>1. CASE Record \/ Verify \/ Copy
  <2>1. op'.n = op.n /\ op'.phase = op.phase /\ UNCHANGED <<files, mark, started, edits>>
    BY <1>1 DEF Record, Verify, Copy, CopyBegin, CopyEnd, Go, Operations, counters
  <2> QED
    BY <2>1, Stutters
<1>2. CASE Stage
  <2>1. CASE UNCHANGED files
    <3>1. op'.n = op.n /\ op'.phase = op.phase /\ UNCHANGED <<files, mark, started, edits>>
      BY <1>2, <2>1 DEF Stage, Go, Operations, files, Went
    <3> QED
      BY <3>1, Stutters
  <2>2. CASE ~UNCHANGED files
    <3>1. /\ made' = Append(made, op.bytes) /\ ctime' = Append(ctime, 0)
          /\ temp' = [temp EXCEPT ![op.n] = Len(made) + 1]
          /\ op'.n = op.n /\ op'.phase = "staged" /\ UNCHANGED <<path, mark, started, edits>>
      BY <1>2, <2>2 DEF Stage, Went, Operations, files
    <3>2. Counted' = Counted
      BY <3>1, CountedNew
    <3>3. Len(made') = Len(made) + 1
      BY <3>1, FreshVersion DEF Operations, TypeOK
    <3>4. op.phase = "announced"
      BY <1>2 DEF Stage, Progress, At
    <3> QED
      BY <3>1, <3>2, <3>3, <3>4 DEF Changes!FolderNext, Changes!Stage
  <2> QED
    BY <2>1, <2>2
<1>3. CASE Exchange \/ Rollback
  <2>1. temp[op.n] \notin {0, path}
    BY <1>3 DEF Exchange, Rollback, Staged, At
  <2>2. CASE UNCHANGED <<path, ctime, temp>>
    <3>1. op'.n = op.n /\ op'.phase = op.phase /\ UNCHANGED <<files, mark, started, edits>>
      BY <1>3, <2>1, <2>2 DEF Exchange, Rollback, Swap, Go, Operations, files
    <3> QED
      BY <3>1, Stutters
  <2>3. CASE path # 0 /\ Swap
    <3>1. /\ op'.n = op.n /\ op.phase = (IF op.pc = "exchange" THEN "staged" ELSE "moved")
          /\ op'.phase = (IF op.phase = "staged" THEN "moved" ELSE "back")
          /\ UNCHANGED <<made, mark, started, edits>>
      BY <1>3, <2>1, <2>3 DEF Exchange, Rollback, Swap, Went, Go, Operations, Progress, At
    <3>2. /\ path' = temp[op.n] /\ temp' = [temp EXCEPT ![op.n] = path]
          /\ Counted' = Changes!Exchanged(path, temp[op.n])
      BY <2>1, <2>3, <3>1, SwapMaps
    <3> QED
      BY <2>1, <2>3, <3>1, <3>2 DEF Changes!FolderNext, Changes!Exchange
  <2> QED
    BY <1>3, <2>2, <2>3 DEF Exchange, Rollback
<1>4. CASE Observe
  <2>1. CASE temp' = temp
    <3>1. op'.n = op.n /\ op'.phase = op.phase /\ UNCHANGED <<files, mark, started, edits>>
      BY <1>4, <2>1 DEF Observe, Go, Operations, files
    <3> QED
      BY <3>1, Stutters
  <2>2. CASE temp' = [temp EXCEPT ![op.n] = 0]
    <3>1. op'.n = op.n /\ op'.phase = op.phase /\ UNCHANGED <<path, made, ctime, mark, started, edits>>
      BY <1>4 DEF Observe, Go, Operations
    <3>2. temp[op.n] \notin {0, path} /\ op.phase = "moved"
      BY <1>4 DEF Observe, Staged, Progress, At
    <3>3. Counted' = Counted
      BY <3>1 DEF Counted
    <3> QED
      BY <2>2, <3>1, <3>2, <3>3 DEF Changes!FolderNext, Changes!DropTemporary, Changes!Drop
  <2> QED
    BY <1>4, <2>1, <2>2 DEF Observe
<1>5. CASE Undo
  <2>1. /\ op' = Idle /\ UNCHANGED <<path, made, started, edits>>
        /\ UNCHANGED <<temp, ctime>> \/ Drop
    BY <1>5 DEF Undo, GiveUp
  <2>2. mark' = mark \/ (mark' = Withdrawn /\ op.kind # "restore" /\ Unchanged)
    BY <1>5 DEF Undo, GiveUp
  <2>3. ASSUME op.kind # "restore", Unchanged PROVE op.phase \in {"announced", "staged"} \/ path = 0
    <3>1. op.phase \in {"announced", "staged", "moved", "back"} /\ (op.kind = "delete" => op.phase = "announced")
      BY <1>5 DEF Undo, Progress, At, Operations
    <3>2. CASE op.kind \in {"create", "none"} /\ op.kind # "none"
      BY <2>3, <3>2 DEF Unchanged, Versions, At, Token, Absent
    <3>3. CASE op.kind = "replace"
      <4> SUFFICES ASSUME op.phase \in {"moved", "back"}, path # 0 PROVE FALSE
        BY <3>1
      <4>1. op.want = <<path, ctime[path]>>
        BY <2>3, <3>3 DEF Unchanged, Token
      <4>2. op.want[2] < ctime[op.want[1]] /\ ctime[path] \in Nat
        BY <3>3, <4>1 DEF Versions, At, TypeOK, FilesOK
      <4> QED
        BY <4>1, <4>2
    <3>4. op.kind # "none"
      BY <1>5 DEF Progress, Undo, At
    <3> QED
      BY <2>3, <3>1, <3>2, <3>3, <3>4 DEF Operations
  <2> QED
    BY <2>1, <2>2, <2>3, ReleaseMaps DEF Changes!FolderNext
<1>6. CASE Link
  <2>1. CASE UNCHANGED <<path, ctime>>
    <3>1. op'.n = op.n /\ op'.phase = op.phase /\ UNCHANGED <<files, mark, started, edits>>
      BY <1>6, <2>1 DEF Link, Staged, At, Go, Operations, files
    <3> QED
      BY <3>1, Stutters
  <2>2. CASE path = 0 /\ path' = temp[op.n] /\ ctime' = [ctime EXCEPT ![temp[op.n]] = @ + 1]
    <3>1. temp[op.n] # 0 /\ op.phase = "staged"
      BY <1>6 DEF Link, Staged, Progress, At
    <3>2. Counted' = [Counted EXCEPT ![temp[op.n]] = @ + 1]
      <4>1. temp[op.n] \in 1..Len(made)
        BY <3>1
      <4> QED
        BY <2>2, <4>1, CountedOne
    <3>3. op'.n = op.n /\ op'.phase = "moved" /\ UNCHANGED <<made, temp, mark, started, edits>>
      BY <1>6, <2>2, <3>1 DEF Link, Went, Go, Operations
    <3> QED
      BY <2>2, <3>1, <3>2, <3>3 DEF Changes!FolderNext, Changes!Link
  <2> QED
    BY <1>6, <2>1, <2>2 DEF Link
<1>7. CASE Cleanup
  <2>1. op'.n = op.n /\ op'.phase = op.phase /\ UNCHANGED <<path, made, mark, started, edits>>
    BY <1>7 DEF Cleanup, Go, Operations
  <2>2. CASE UNCHANGED <<temp, ctime>>
    BY <2>1, <2>2, Stutters DEF files
  <2>3. CASE Drop
    <3>1. Changes!Drop
      BY <2>1, <2>3, DropMaps
    <3>2. temp[op.n] # 0 /\ op.phase = "moved"
      BY <1>7 DEF Cleanup, Staged, Progress, At
    <3> QED
      BY <2>1, <3>1, <3>2 DEF Changes!FolderNext, Changes!DropTemporary
  <2> QED
    BY <1>7, <2>2, <2>3 DEF Cleanup
<1>8. CASE Unlink
  <2>1. CASE path' = path
    <3>1. op'.n = op.n /\ op'.phase = op.phase /\ UNCHANGED <<files, mark, started, edits>>
      BY <1>8, <2>1 DEF Unlink, Go, Operations, files
    <3> QED
      BY <3>1, Stutters
  <2>2. CASE path # 0 /\ path' = 0
    <3>1. op'.n = op.n /\ op'.phase = "moved" /\ UNCHANGED <<made, ctime, temp, mark, started, edits>>
      BY <1>8, <2>2 DEF Unlink, Went, Go, Operations
    <3>2. op.phase = "announced" /\ Counted' = Counted
      BY <1>8, <3>1 DEF Unlink, Progress, At, Counted
    <3> QED
      BY <2>2, <3>1, <3>2 DEF Changes!FolderNext, Changes!Unlink
  <2> QED
    BY <1>8, <2>1, <2>2 DEF Unlink
<1>9. CASE MarkDirty
  <2>1. UNCHANGED <<files, started, edits>> /\ op.phase = "moved"
    BY <1>9 DEF MarkDirty, Progress, At
  <2>2. Counted' = Counted
    BY <2>1 DEF files, Counted
  <2>3. op' = Idle \/ (op'.n = op.n /\ op'.phase = op.phase)
    BY <1>9 DEF MarkDirty, Operations
  <2>4. CASE mark' = "dirty"
    <3>1. (op'.n = 0 /\ op'.phase = "none") \/ (op'.n = op.n /\ op'.phase = op.phase)
      BY <2>3 DEF Idle
    <3>2. UNCHANGED <<path, Len(made), Counted, temp, started, edits>>
      BY <2>1, <2>2 DEF files
    <3> QED
      BY <2>1, <2>4, <3>1, <3>2 DEF Changes!FolderNext, Changes!MarkDirty, Changes!Over, Changes!names
  <2>5. CASE mark' = mark /\ op' = Idle
    BY <2>1, <2>5, ReleaseMaps DEF files, Changes!FolderNext
  <2>6. CASE mark' = mark /\ op'.n = op.n /\ op'.phase = op.phase
    BY <2>1, <2>6, Stutters
  <2> QED
    BY <1>9, <2>3, <2>4, <2>5, <2>6 DEF MarkDirty
<1>10. CASE FinishReplace \/ FinishRestore
  <2>1. op' = Idle /\ UNCHANGED <<files, mark, started, edits>>
    BY <1>10 DEF FinishReplace, FinishRestore
  <2> QED
    BY <2>1, ReleaseMaps DEF files, Changes!FolderNext
<1> QED
  BY <1>1, <1>2, <1>3, <1>4, <1>5, <1>6, <1>7, <1>8, <1>9, <1>10 DEF OneOperation

LEMMA BeginMaps ==
    ASSUME Inv,
           \/ \E b \in Bytes : BeginCreate(b) \/ BeginReplace(b)
           \/ \E r \in Ops : BeginRestore(r)
           \/ BeginDelete
    PROVE  Changes!FolderNext
<1>1. /\ op.pc = "idle" /\ started < MaxOps /\ started' = started + 1
      /\ UNCHANGED <<files, edits>> /\ mark' = Announced
      /\ op'.n = started + 1 /\ op'.phase = "announced"
  BY BeginFrom DEF Inv
<1>2. op.n = 0 /\ Counted' = Counted
  BY <1>1 DEF Inv, Progress, At, Counted, files
<1> QED
  BY <1>1, <1>2 DEF Changes!FolderNext, Changes!Announce, Changes!names, files, Announced, Changes!Announced

LEMMA OthersMap == ASSUME Inv, Others PROVE [Changes!FolderNext]_Abstract
<1>1. CASE MaintainRecoveries \/ MaintainCrash \/ \E r \in Ops : RecoveryAges(r)
  <2>1. UNCHANGED <<files, mark, started, edits, op>>
    BY <1>1 DEF MaintainRecoveries, MaintainCrash, RecoveryAges, counters
  <2> QED
    BY <2>1, Stutters
<1>2. ASSUME NEW b \in Bytes, EditorSaves(b) PROVE Changes!FolderNext
  <2>1. Counted' = Counted /\ Len(made') = Len(made) + 1
    BY <1>2, CountedNew, FreshVersion DEF EditorSaves, Inv, TypeOK
  <2> QED
    BY <1>2, <2>1 DEF EditorSaves, Changes!FolderNext, Changes!EditorSaves
<1>3. CASE EditorRemoves
  <2>1. Counted' = Counted
    BY <1>3 DEF EditorRemoves, Counted
  <2> QED
    BY <1>3, <2>1 DEF EditorRemoves, Changes!FolderNext, Changes!EditorRemoves
<1>4. CASE WriterCrash
  <2>1. op.pc # "idle" /\ op' = Idle /\ UNCHANGED <<files, mark, started, edits>>
    BY <1>4 DEF WriterCrash, At
  <2> QED
    BY <1>4, <2>1, ReleaseMaps DEF Inv, files, Changes!FolderNext
<1> QED
  BY <1>1, <1>2, <1>3, <1>4 DEF Others

LEMMA FolderMaps == ASSUME Inv, [FolderNext]_folderVars PROVE [Changes!FolderNext]_(Changes!folder)
<1>1. Changes!folder = Abstract
  BY DEF Changes!folder, Abstract
<1>2. CASE UNCHANGED folderVars
  BY <1>2, Stutters DEF folderVars, files, Abstract, Changes!folder
<1> QED
  BY <1>1, <1>2, BeginMaps, OperationMaps, OthersMap
     DEF FolderNext, OneOperation, Others, Copy, Abstract, Changes!folder

LEMMA FolderMapsInit == ASSUME FolderInit PROVE Changes!FolderInit
<1>1. Counted = [i \in 1..(1 + MaxOps + MaxEdits) |-> 0]
  BY DEF Counted, FolderInit
<1> QED
  BY <1>1 DEF FolderInit, Changes!FolderInit, Idle, Ops, Changes!Ops

-----------------------------------------------------------------------------
(* The theorems *)

LEMMA InvHolds == Spec => []Inv
BY FolderStarts, FolderStep, PTL DEF Spec

\* The invariant of a work folder: how far the operation is, that no version
\* is met twice, where replaced contents are and what the recovery rows say.
THEOREM FolderInvariant == Spec => []FolderInv
<1>1. Inv => FolderInv
  BY Parts DEF Inv, FolderInv
<1> QED
  BY <1>1, InvHolds, PTL

\* However saves, restorations, foreign edits, failures, crashes and
\* maintenance come, a content that a save took away is not lost.
THEOREM ReplacedKept == Spec => []ReplacedIsKept
<1>1. FolderInv => ReplacedIsKept
  BY DEF FolderInv, OwedIsHeld, Holding, ReplacedIsKept
<1> QED
  BY <1>1, FolderInvariant, PTL

\* What can be undone is exactly what was replaced.
THEOREM UndoTrue == Spec => []UndoIsTrue
<1>1. FolderInv => UndoIsTrue
  <2> SUFFICES ASSUME FolderInv, NEW o \in Ops, recovery[o].state = "available"
               PROVE  copies[o] = recovery[o].base[1] /\ stored[o] \in {"whole", "cut"}
    BY DEF UndoIsTrue
  <2>1. copies[o] = recovery[o].base[1] /\ copies[o] # 0
    BY DEF FolderInv, RowsAreTrue, Live
  <2>2. stored[o] \in Stages \ {"none"}
    BY <2>1 DEF FolderInv, RowsAreTrue, TypeOK, FilesOK, Stages
  <2>3. stored[o] # "begun"
    BY DEF FolderInv, RowsAreTrue, Progress, At
  <2> QED
    BY <2>1, <2>2, <2>3 DEF Stages
<1> QED
  BY <1>1, FolderInvariant, PTL

\* A work folder changes its directory and its queue as FolderChanges allows:
\* what is proved of the index over FolderChanges holds over the work folder.
THEOREM ChangesImplemented == Spec => ImplementsChanges
<1>1. FolderInit => Changes!FolderInit
  BY FolderMapsInit
<1>2. Inv /\ [FolderNext]_folderVars => [Changes!FolderNext]_(Changes!folder)
  BY FolderMaps
<1> QED
  BY <1>1, <1>2, InvHolds, PTL DEF Spec, ImplementsChanges, Changes!FolderSpec

HIDE WorkFolderAssumption

-----------------------------------------------------------------------------
(* What a request names. *)

LEMMA Null ==
    /\ Nothing \notin Corpora /\ Nothing \notin Contexts /\ Nothing \notin Bindings
    /\ Nothing \notin RunIds /\ Nothing \notin Places /\ Nothing \notin Requests
  BY ContextAssumption

LEMMA Names == ASSUME NEW r \in Requests PROVE NamesForm(Form[r])
  BY ContextAssumption

LEMMA Asked ==
    ASSUME ContextTypeOK, NEW kind, NEW r \in Requested(kind)
    PROVE  r \in Requests /\ r \in plan /\ Form[r].op = kind
  BY DEF ContextTypeOK, Requested

-----------------------------------------------------------------------------
(* The history: runs, the records they saw and the bindings they are of. *)

RunSet == RunRows \cup {NoRun}
RecordSet == RecordRows \cup {NoRecord}
BindingSet == BindingRows \cup {NoBinding}

OpenIn(rs, r) == rs[r].status = "incomplete" /\ ~rs[r].superseded

RunsTrue(rs, bs) ==
    \A r \in RunIds : rs[r] # NoRun =>
        /\ bs[rs[r].binding] # NoBinding
        /\ rs[r].base # Nothing =>
              rs[rs[r].base] # NoRun /\ rs[rs[r].base].binding = rs[r].binding

RecordsTrue(rs, ls, bs) ==
    \A k \in Keys : ls[k] # NoRecord =>
        bs[k[1]] # NoBinding /\ rs[ls[k].seen] # NoRun /\ rs[ls[k].seen].binding = k[1]

CompleteTrue(rs, bs) ==
    \A b \in Bindings : bs[b] # NoBinding /\ bs[b].complete # Nothing =>
        rs[bs[b].complete].status = "complete" /\ rs[bs[b].complete].binding = b

MembersTrue(rs, ls, bs) ==
    \A k \in Keys :
        /\ ls[k].member = "active" =>
              ls[k].seen = bs[k[1]].complete \/ rs[ls[k].seen].status = "incomplete"
        /\ ls[k].member = "removed" =>
              ls[k].seen # bs[k[1]].complete /\ ~OpenIn(rs, ls[k].seen)

OpenTrue(rs, bs) ==
    \A r \in RunIds : OpenIn(rs, r) =>
        /\ rs[r].base = bs[rs[r].binding].complete
        /\ \A q \in RunIds \ {r} : OpenIn(rs, q) => rs[q].binding # rs[r].binding

HistoryTrue(rs, ls, bs) ==
    /\ RunsTrue(rs, bs) /\ RecordsTrue(rs, ls, bs) /\ CompleteTrue(rs, bs)
    /\ MembersTrue(rs, ls, bs) /\ OpenTrue(rs, bs)

HistoryTyped(rs, ls, bs) ==
    /\ rs \in [RunIds -> RunSet] /\ ls \in [Keys -> RecordSet] /\ bs \in [Bindings -> BindingSet]

LEMMA RowsAre ==
    /\ NoRun.status = "none" /\ NoRecord.member = "none" /\ NoBinding.complete = Nothing
    /\ NoRun.base = Nothing /\ NoBinding.corpus = Nothing
    /\ \A r \in RunRows : /\ r.status \in {"incomplete", "complete"} /\ r.binding \in Bindings
                          /\ r.base \in RunNames /\ r.superseded \in BOOLEAN /\ r # NoRun
    /\ \A k \in RecordRows : k.member \in {"active", "removed"} /\ k.seen \in RunIds /\ k # NoRecord
    /\ \A b \in BindingRows : /\ b.corpus \in Corpora /\ b.selector \in Selectors
                              /\ b.complete \in RunNames /\ b # NoBinding
<1>1. NoRun.status = "none" /\ NoRun.base = Nothing
  BY DEF NoRun
<1>2. NoRecord.member = "none"
  BY DEF NoRecord
<1>3. NoBinding.complete = Nothing /\ NoBinding.corpus = Nothing
  BY DEF NoBinding
<1>4. \A r \in RunRows : /\ r.status \in {"incomplete", "complete"} /\ r.binding \in Bindings
                         /\ r.base \in RunNames /\ r.superseded \in BOOLEAN
  BY DEF RunRows
<1>5. \A k \in RecordRows : k.member \in {"active", "removed"} /\ k.seen \in RunIds
  BY DEF RecordRows
<1>6. \A b \in BindingRows : /\ b.corpus \in Corpora /\ b.selector \in Selectors
                             /\ b.complete \in RunNames
  BY DEF BindingRows
<1> QED
  BY <1>1, <1>2, <1>3, <1>4, <1>5, <1>6, Null

LEMMA KeyIs == \A k \in Keys : k[1] \in Bindings /\ k[2] \in Externals /\ k = <<k[1], k[2]>>
  BY DEF Keys

LEMMA HistoryIs ==
    ASSUME ContextInv
    PROVE  HistoryTyped(runs, linked, bindings) /\ HistoryTrue(runs, linked, bindings)
<1>1. HistoryTyped(runs, linked, bindings)
  BY DEF ContextInv, ContextTypeOK, HistoryTyped, RunSet, RecordSet, BindingSet
<1>2. RunsTrue(runs, bindings)
  BY DEF ContextInv, ReferencesHold, RunsHold, OneBinding, RunsTrue, Bound
<1>3. RecordsTrue(runs, linked, bindings)
  BY DEF ContextInv, ReferencesHold, RecordsHold, RecordsTrue, Bound
<1>4. CompleteTrue(runs, bindings)
  BY DEF ContextInv, ReferencesHold, CorporaHold, OneBinding, CompleteTrue, Bound
<1>5. MembersTrue(runs, linked, bindings)
  BY DEF ContextInv, MembersWereSeen, RemovedIsPast, MembersTrue, Open, OpenIn
<1>6. OpenTrue(runs, bindings)
  BY DEF ContextInv, MembersWereSeen, OpenTrue, Open, OpenIn
<1> QED
  BY <1>1, <1>2, <1>3, <1>4, <1>5, <1>6 DEF HistoryTrue

\* What pruning leaves.
Pruned(rs, ls, bs, rs2, ls2) ==
    /\ \A k \in Keys : \/ ls2[k] = ls[k]
                       \/ ls2[k] = NoRecord /\ ls[k].member = "removed"
    /\ \A r \in RunIds :
          \/ rs2[r] = NoRun
          \/ /\ rs2[r].status = rs[r].status /\ rs2[r].binding = rs[r].binding
             /\ rs2[r].superseded = rs[r].superseded /\ rs[r] # NoRun
             /\ rs2[r].base = IF OpenIn(rs, r) THEN rs[r].base ELSE Nothing
    /\ \A r \in RunIds : rs[r] # NoRun /\ rs2[r] = NoRun =>
          /\ \A b \in Bindings : bs[b].complete # r
          /\ \A k \in Keys : ls2[k] # NoRecord => ls2[k].seen # r

LEMMA PrunedIs ==
    ASSUME ContextTypeOK
    PROVE  /\ HistoryTyped(PrunedRuns, PrunedRecords, bindings)
           /\ Pruned(runs, linked, bindings, PrunedRuns, PrunedRecords)
           /\ \A k \in Keys : linked[k] # NoRecord /\ PrunedRecords[k] = NoRecord => k \notin Cited
<1>1. /\ runs \in [RunIds -> RunSet] /\ linked \in [Keys -> RecordSet]
      /\ bindings \in [Bindings -> BindingSet]
  BY DEF ContextTypeOK, RunSet, RecordSet, BindingSet
<1>2. /\ PrunedRecords \in [Keys -> RecordSet]
      /\ \A k \in Keys : \/ PrunedRecords[k] = linked[k]
                         \/ PrunedRecords[k] = NoRecord /\ linked[k].member = "removed" /\ k \notin Cited
  BY <1>1 DEF PrunedRecords, RecordSet
<1>3. ASSUME NEW r \in RunIds
      PROVE  /\ PrunedRuns[r] \in RunSet
             /\ \/ PrunedRuns[r] = NoRun
                \/ /\ PrunedRuns[r].status = runs[r].status /\ PrunedRuns[r].binding = runs[r].binding
                   /\ PrunedRuns[r].superseded = runs[r].superseded /\ runs[r] # NoRun
                   /\ PrunedRuns[r].base = IF OpenIn(runs, r) THEN runs[r].base ELSE Nothing
             /\ runs[r] # NoRun /\ PrunedRuns[r] = NoRun => r \notin Needed
  <2>1. CASE runs[r] = NoRun \/ r \notin Needed
    BY <2>1 DEF PrunedRuns, RunSet
  <2>2. CASE runs[r] # NoRun /\ r \in Needed
    <3>1. PICK q \in RunRows : q = runs[r]
      BY <1>1, <2>2 DEF RunSet
    <3>2. PICK p : p = [q EXCEPT !.base = Nothing]
      OBVIOUS
    <3>3. /\ p \in RunRows /\ p.status = q.status /\ p.binding = q.binding
          /\ p.superseded = q.superseded /\ p.base = Nothing
      BY ONLY <3>1, <3>2 DEF RunRows, RunNames
    <3>4. p # NoRun /\ q # NoRun /\ q.status \in {"incomplete", "complete"} /\ q.superseded \in BOOLEAN
      BY <3>1, <3>3, RowsAre
    <3>5. PrunedRuns[r] = IF q.status = "complete" \/ q.superseded THEN p ELSE q
      BY <2>2, <3>1, <3>2 DEF PrunedRuns
    <3>6. OpenIn(runs, r) = (q.status = "incomplete" /\ ~q.superseded)
      BY <3>1 DEF OpenIn
    <3>7. CASE q.status = "complete" \/ q.superseded
      BY <3>1, <3>3, <3>4, <3>5, <3>6, <3>7 DEF RunSet
    <3>8. CASE ~(q.status = "complete" \/ q.superseded)
      BY <3>1, <3>3, <3>4, <3>5, <3>6, <3>8 DEF RunSet
    <3> QED
      BY <3>7, <3>8
  <2> QED
    BY <2>1, <2>2
<1>4. PrunedRuns \in [RunIds -> RunSet]
  BY <1>3 DEF PrunedRuns
<1>5. ASSUME NEW r \in RunIds, r \notin Needed
      PROVE  /\ \A b \in Bindings : bindings[b].complete # r
             /\ \A k \in Keys : PrunedRecords[k] # NoRecord => PrunedRecords[k].seen # r
  BY <1>5 DEF Needed
<1> QED
  BY <1>1, <1>2, <1>3, <1>4, <1>5 DEF HistoryTyped, Pruned

LEMMA PruneKeeps ==
    ASSUME NEW rs, NEW ls, NEW bs, NEW rs2, NEW ls2,
           HistoryTyped(rs, ls, bs), HistoryTrue(rs, ls, bs), HistoryTyped(rs2, ls2, bs),
           Pruned(rs, ls, bs, rs2, ls2)
    PROVE  HistoryTrue(rs2, ls2, bs)
<1>1. ASSUME NEW r \in RunIds, OpenIn(rs2, r) PROVE OpenIn(rs, r) /\ rs2[r].base = rs[r].base
                                                 /\ rs2[r].binding = rs[r].binding /\ rs2[r] # NoRun
  BY <1>1, RowsAre DEF OpenIn, Pruned
<1>2. RunsTrue(rs2, bs)
  <2> SUFFICES ASSUME NEW r \in RunIds, rs2[r] # NoRun
               PROVE  /\ bs[rs2[r].binding] # NoBinding
                      /\ rs2[r].base # Nothing =>
                            rs2[rs2[r].base] # NoRun /\ rs2[rs2[r].base].binding = rs2[r].binding
    BY DEF RunsTrue
  <2>1. bs[rs2[r].binding] # NoBinding /\ rs2[r].binding = rs[r].binding /\ rs[r] # NoRun
    BY DEF Pruned, HistoryTrue, RunsTrue
  <2>2. ASSUME rs2[r].base # Nothing
        PROVE  rs2[rs2[r].base] # NoRun /\ rs2[rs2[r].base].binding = rs2[r].binding
    <3>1. OpenIn(rs, r) /\ rs2[r].base = rs[r].base
      BY <2>2 DEF Pruned
    <3>2. PICK b, q : b = rs[r].binding /\ q = rs[r].base
      OBVIOUS
    <3>3. b \in Bindings /\ q \in RunIds
      BY <2>1, <2>2, <3>1, <3>2, RowsAre DEF HistoryTyped, RunSet, RunNames
    <3>4. bs[b].complete = q /\ rs[q] # NoRun /\ rs[q].binding = b
      BY <2>1, <2>2, <3>1, <3>2 DEF HistoryTrue, OpenTrue, RunsTrue
    <3>5. rs2[q] # NoRun
      BY <3>3, <3>4 DEF Pruned
    <3> QED
      BY <2>1, <3>1, <3>2, <3>3, <3>4, <3>5 DEF Pruned
  <2> QED
    BY <2>1, <2>2
<1>3. ASSUME NEW k \in Keys, ls2[k] # NoRecord
      PROVE  /\ ls2[k] = ls[k] /\ ls[k].seen \in RunIds
             /\ rs2[ls[k].seen] # NoRun /\ rs2[ls[k].seen].binding = rs[ls[k].seen].binding
             /\ rs2[ls[k].seen].status = rs[ls[k].seen].status
             /\ OpenIn(rs2, ls[k].seen) = OpenIn(rs, ls[k].seen)
  <2>1. ls2[k] = ls[k] /\ ls[k].seen \in RunIds /\ rs[ls[k].seen] # NoRun
    BY <1>3, RowsAre DEF Pruned, HistoryTyped, RecordSet, HistoryTrue, RecordsTrue
  <2>2. PICK q \in RunIds : q = ls[k].seen
    BY <2>1
  <2>3. rs2[q] # NoRun
    BY <1>3, <2>1, <2>2 DEF Pruned
  <2> QED
    BY <2>1, <2>2, <2>3 DEF Pruned, OpenIn
<1>4. RecordsTrue(rs2, ls2, bs)
  BY <1>3 DEF RecordsTrue, HistoryTrue
<1>5. CompleteTrue(rs2, bs)
  <2> SUFFICES ASSUME NEW b \in Bindings, bs[b] # NoBinding, bs[b].complete # Nothing
               PROVE  rs2[bs[b].complete].status = "complete" /\ rs2[bs[b].complete].binding = b
    BY DEF CompleteTrue
  <2>1. PICK q : q = bs[b].complete
    OBVIOUS
  <2>2. q \in RunIds /\ rs[q].status = "complete" /\ rs[q].binding = b
    BY <2>1, RowsAre DEF HistoryTyped, BindingSet, RunNames, HistoryTrue, CompleteTrue
  <2>3. rs2[q] # NoRun
    BY <2>1, <2>2, RowsAre DEF Pruned
  <2> QED
    BY <2>1, <2>2, <2>3 DEF Pruned
<1>6. MembersTrue(rs2, ls2, bs)
  <2> SUFFICES ASSUME NEW k \in Keys
               PROVE  /\ ls2[k].member = "active" =>
                            ls2[k].seen = bs[k[1]].complete \/ rs2[ls2[k].seen].status = "incomplete"
                      /\ ls2[k].member = "removed" =>
                            ls2[k].seen # bs[k[1]].complete /\ ~OpenIn(rs2, ls2[k].seen)
    BY DEF MembersTrue
  <2>1. CASE ls2[k] = NoRecord
    BY <2>1, RowsAre
  <2>2. CASE ls2[k] # NoRecord
    BY <1>3, <2>2 DEF HistoryTrue, MembersTrue
  <2> QED
    BY <2>1, <2>2
<1>7. OpenTrue(rs2, bs)
  BY <1>1 DEF OpenTrue, HistoryTrue
<1> QED
  BY <1>2, <1>4, <1>5, <1>6, <1>7 DEF HistoryTrue

\* What opening a run leaves: it is the only open run of its binding.
Opens(rs, bs, b, run, rs2) ==
    /\ rs2[run] # NoRun /\ OpenIn(rs2, run) /\ rs2[run].binding = b
    /\ rs2[run].base = bs[b].complete
    /\ rs[run] # NoRun => rs2[run] = rs[run]
    /\ \A q \in RunIds \ {run} :
          \/ rs2[q] = rs[q] /\ ~(OpenIn(rs, q) /\ rs[q].binding = b)
          \/ /\ rs[q] # NoRun /\ rs2[q] # NoRun /\ rs2[q].status = rs[q].status
             /\ rs2[q].binding = rs[q].binding /\ rs2[q].base = rs[q].base /\ rs2[q].superseded

LEMMA OpenedIs ==
    ASSUME ContextInv, NEW b \in Bindings, NEW run \in RunIds,
           ~Refused(b, run), ~Replayed(b, run)
    PROVE  Opened(b, run) \in [RunIds -> RunSet] /\ Opens(PrunedRuns, bindings, b, run, Opened(b, run))
<1> DEFINE rs == PrunedRuns
           new == [status |-> "incomplete", binding |-> b, base |-> bindings[b].complete,
                   superseded |-> FALSE]
<1>1. /\ HistoryTyped(rs, PrunedRecords, bindings) /\ HistoryTrue(rs, PrunedRecords, bindings)
  BY HistoryIs, PrunedIs, PruneKeeps DEF ContextInv
<1>2. rs \in [RunIds -> RunSet] /\ OpenTrue(rs, bindings)
  BY <1>1 DEF HistoryTyped, HistoryTrue
<1>3. bindings[b].complete \in RunNames
  BY <1>1, RowsAre DEF HistoryTyped, BindingSet, RunNames
<1>4. /\ new \in RunRows /\ new # NoRun /\ new.status = "incomplete" /\ ~new.superseded
      /\ new.binding = b /\ new.base = bindings[b].complete
  <2>1. new \in RunRows
    BY <1>3 DEF RunRows
  <2> QED
    BY <2>1, RowsAre
<1> HIDE DEF new
<1>5. CASE rs[run] # NoRun
  <2>1. Opened(b, run) = rs
    BY <1>5 DEF Opened
  <2>2. rs[run] \in RunRows
    BY <1>2, <1>5 DEF RunSet
  <2>3. /\ rs[run].binding = b
        /\ rs[run].status = "incomplete" /\ ~rs[run].superseded /\ rs[run].base = bindings[b].complete
    BY <1>5, <2>2, RowsAre DEF Refused, Replayed
  <2> QED
    BY <1>2, <1>5, <2>1, <2>3 DEF Opens, OpenIn, OpenTrue
<1>6. CASE rs[run] = NoRun
  <2>1. Opened(b, run) = [q \in RunIds |->
             IF q = run THEN new
             ELSE IF rs[q].binding = b /\ rs[q].status = "incomplete"
                  THEN [rs[q] EXCEPT !.superseded = TRUE] ELSE rs[q]]
    BY <1>6 DEF Opened, new
  <2>2. ASSUME NEW q \in RunIds \ {run}
        PROVE  /\ Opened(b, run)[q] \in RunSet
               /\ \/ Opened(b, run)[q] = rs[q] /\ ~(OpenIn(rs, q) /\ rs[q].binding = b)
                  \/ /\ rs[q] # NoRun /\ Opened(b, run)[q] # NoRun /\ Opened(b, run)[q].status = rs[q].status
                     /\ Opened(b, run)[q].binding = rs[q].binding /\ Opened(b, run)[q].base = rs[q].base
                     /\ Opened(b, run)[q].superseded
    <3>1. CASE rs[q].binding = b /\ rs[q].status = "incomplete"
      <4>1. PICK p \in RunRows : p = rs[q]
        BY <1>2, <3>1, RowsAre DEF RunSet
      <4>2. PICK s : s = [p EXCEPT !.superseded = TRUE]
        OBVIOUS
      <4>3. /\ s \in RunRows /\ s.status = p.status /\ s.binding = p.binding /\ s.base = p.base
            /\ s.superseded
        BY ONLY <4>1, <4>2 DEF RunRows
      <4> QED
        BY <2>1, <3>1, <4>1, <4>2, <4>3, RowsAre DEF RunSet
    <3>2. CASE ~(rs[q].binding = b /\ rs[q].status = "incomplete")
      BY <1>2, <2>1, <3>2 DEF OpenIn
    <3> QED
      BY <3>1, <3>2
  <2>3. Opened(b, run)[run] = new
    BY <2>1
  <2>4. Opened(b, run) \in [RunIds -> RunSet]
    BY <1>4, <2>1, <2>2, <2>3 DEF RunSet
  <2> QED
    BY <1>4, <1>6, <2>2, <2>3, <2>4 DEF Opens, OpenIn
<1> QED
  BY <1>5, <1>6

LEMMA OpenKeeps ==
    ASSUME NEW rs, NEW ls, NEW bs, NEW rs2, NEW b \in Bindings, NEW run \in RunIds,
           HistoryTyped(rs, ls, bs), HistoryTrue(rs, ls, bs), HistoryTyped(rs2, ls, bs),
           bs[b] # NoBinding, Opens(rs, bs, b, run, rs2)
    PROVE  HistoryTrue(rs2, ls, bs)
<1>1. ASSUME NEW q \in RunIds, rs[q] # NoRun
      PROVE  /\ rs2[q] # NoRun /\ rs2[q].status = rs[q].status /\ rs2[q].binding = rs[q].binding
             /\ rs2[q].base = rs[q].base /\ (OpenIn(rs2, q) => OpenIn(rs, q))
  BY <1>1 DEF Opens, OpenIn
<1>2. ASSUME NEW q \in RunIds, OpenIn(rs2, q), q # run
      PROVE  OpenIn(rs, q) /\ rs2[q] = rs[q] /\ rs[q].binding # b
  BY <1>2 DEF Opens, OpenIn
<1>3. RunsTrue(rs2, bs)
  <2> SUFFICES ASSUME NEW q \in RunIds, rs2[q] # NoRun
               PROVE  /\ bs[rs2[q].binding] # NoBinding
                      /\ rs2[q].base # Nothing =>
                            rs2[rs2[q].base] # NoRun /\ rs2[rs2[q].base].binding = rs2[q].binding
    BY DEF RunsTrue
  <2>1. CASE rs[q] # NoRun
    <3>1. rs[q].base \in RunNames
      BY <2>1, RowsAre DEF HistoryTyped, RunSet
    <3>2. bs[rs[q].binding] # NoBinding /\ (rs[q].base # Nothing =>
             rs[rs[q].base] # NoRun /\ rs[rs[q].base].binding = rs[q].binding)
      BY <2>1 DEF HistoryTrue, RunsTrue
    <3> QED
      BY <1>1, <2>1, <3>1, <3>2 DEF RunNames
  <2>2. CASE rs[q] = NoRun
    <3>1. q = run /\ rs2[q].binding = b /\ rs2[q].base = bs[b].complete
      BY <2>2 DEF Opens
    <3>2. ASSUME bs[b].complete # Nothing
          PROVE  /\ bs[b].complete \in RunIds /\ rs[bs[b].complete].status = "complete"
                 /\ rs[bs[b].complete].binding = b /\ rs[bs[b].complete] # NoRun
      BY <3>2, RowsAre DEF HistoryTyped, BindingSet, RunNames, HistoryTrue, CompleteTrue
    <3> QED
      BY <1>1, <3>1, <3>2
  <2> QED
    BY <2>1, <2>2
<1>4. ASSUME NEW k \in Keys, ls[k] # NoRecord
      PROVE  /\ ls[k].seen \in RunIds /\ rs[ls[k].seen] # NoRun /\ rs[ls[k].seen].binding = k[1]
             /\ bs[k[1]] # NoBinding
  BY <1>4, RowsAre DEF HistoryTyped, RecordSet, HistoryTrue, RecordsTrue
<1>5. RecordsTrue(rs2, ls, bs)
  BY <1>1, <1>4 DEF RecordsTrue
<1>6. CompleteTrue(rs2, bs)
  <2> SUFFICES ASSUME NEW c \in Bindings, bs[c] # NoBinding, bs[c].complete # Nothing
               PROVE  rs2[bs[c].complete].status = "complete" /\ rs2[bs[c].complete].binding = c
    BY DEF CompleteTrue
  <2>1. /\ bs[c].complete \in RunIds /\ rs[bs[c].complete].status = "complete"
        /\ rs[bs[c].complete].binding = c /\ rs[bs[c].complete] # NoRun
    BY RowsAre DEF HistoryTyped, BindingSet, RunNames, HistoryTrue, CompleteTrue
  <2> QED
    BY <1>1, <2>1
<1>7. MembersTrue(rs2, ls, bs)
  <2> SUFFICES ASSUME NEW k \in Keys
               PROVE  /\ ls[k].member = "active" =>
                            ls[k].seen = bs[k[1]].complete \/ rs2[ls[k].seen].status = "incomplete"
                      /\ ls[k].member = "removed" =>
                            ls[k].seen # bs[k[1]].complete /\ ~OpenIn(rs2, ls[k].seen)
    BY DEF MembersTrue
  <2>1. CASE ls[k] = NoRecord
    BY <2>1, RowsAre
  <2>2. CASE ls[k] # NoRecord
    <3>1. /\ ls[k].member = "active" =>
                ls[k].seen = bs[k[1]].complete \/ rs[ls[k].seen].status = "incomplete"
          /\ ls[k].member = "removed" => ls[k].seen # bs[k[1]].complete /\ ~OpenIn(rs, ls[k].seen)
      BY DEF HistoryTrue, MembersTrue
    <3> QED
      BY <1>1, <1>4, <2>2, <3>1
  <2> QED
    BY <2>1, <2>2
<1>8. OpenTrue(rs2, bs)
  <2> SUFFICES ASSUME NEW r \in RunIds, OpenIn(rs2, r)
               PROVE  /\ rs2[r].base = bs[rs2[r].binding].complete
                      /\ \A q \in RunIds \ {r} : OpenIn(rs2, q) => rs2[q].binding # rs2[r].binding
    BY DEF OpenTrue
  <2>1. CASE r = run
    BY <1>2, <2>1 DEF Opens
  <2>2. CASE r # run
    BY <1>2, <2>2 DEF Opens, HistoryTrue, OpenTrue
  <2> QED
    BY <2>1, <2>2
<1> QED
  BY <1>3, <1>5, <1>6, <1>7, <1>8 DEF HistoryTrue

\* A page marks records as seen by the open run.
Sees(ls, b, run, ls2) ==
    \A k \in Keys :
        \/ ls2[k] = ls[k]
        \/ k[1] = b /\ ls2[k] # NoRecord /\ ls2[k].member = "active" /\ ls2[k].seen = run

LEMMA SeenIs ==
    ASSUME ContextTypeOK, NEW b \in Bindings, NEW run \in RunIds, NEW page \in Pages
    PROVE  Seen(b, run, page) \in [Keys -> RecordSet] /\ Sees(PrunedRecords, b, run, Seen(b, run, page))
<1>1. PrunedRecords \in [Keys -> RecordSet]
  BY PrunedIs DEF HistoryTyped
<1>2. PICK part \in SUBSET Externals : page \in [part -> Metas]
  BY DEF Pages
<1>3. ASSUME NEW k \in Keys
      PROVE  /\ Seen(b, run, page)[k] \in RecordSet
             /\ \/ Seen(b, run, page)[k] = PrunedRecords[k]
                \/ /\ k[1] = b /\ Seen(b, run, page)[k] # NoRecord
                   /\ Seen(b, run, page)[k].member = "active" /\ Seen(b, run, page)[k].seen = run
  <2>1. CASE k[1] = b /\ k[2] \in DOMAIN page
    <3>1. PICK m : m = IF page[k[2]] = 0 THEN PrunedRecords[k].meta ELSE page[k[2]]
      OBVIOUS
    <3>2. PrunedRecords[k].meta \in Metas /\ page[k[2]] \in Metas
      <4>1. PrunedRecords[k] \in RecordRows \cup {NoRecord}
        BY <1>1 DEF RecordSet
      <4>2. NoRecord.meta \in Metas
        BY ContextAssumption DEF NoRecord, Metas
      <4>3. page[k[2]] \in Metas
        BY <1>2, <2>1
      <4> QED
        BY <4>1, <4>2, <4>3 DEF RecordRows
    <3>3. Seen(b, run, page)[k] = [member |-> "active", seen |-> run, meta |-> m]
      BY <2>1, <3>1 DEF Seen
    <3>4. Seen(b, run, page)[k] \in RecordRows
      BY <3>1, <3>2, <3>3 DEF RecordRows
    <3> QED
      BY <2>1, <3>3, <3>4, RowsAre DEF RecordSet
  <2>2. CASE ~(k[1] = b /\ k[2] \in DOMAIN page)
    BY <1>1, <2>2 DEF Seen
  <2> QED
    BY <2>1, <2>2
<1>4. Seen(b, run, page) \in [Keys -> RecordSet]
  BY <1>3 DEF Seen
<1> QED
  BY <1>3, <1>4 DEF Sees

LEMMA SeeKeeps ==
    ASSUME NEW rs, NEW ls, NEW bs, NEW ls2, NEW b \in Bindings, NEW run \in RunIds,
           HistoryTyped(rs, ls, bs), HistoryTrue(rs, ls, bs), HistoryTyped(rs, ls2, bs),
           bs[b] # NoBinding, rs[run] # NoRun, OpenIn(rs, run), rs[run].binding = b, Sees(ls, b, run, ls2)
    PROVE  HistoryTrue(rs, ls2, bs)
<1>1. RecordsTrue(rs, ls2, bs)
  BY DEF RecordsTrue, HistoryTrue, Sees
<1>2. MembersTrue(rs, ls2, bs)
  BY DEF MembersTrue, HistoryTrue, Sees, OpenIn
<1> QED
  BY <1>1, <1>2 DEF HistoryTrue

\* The last page completes the run: what it has not seen is removed.
Completes(rs, ls, bs, b, run, rs2, ls2, bs2) ==
    /\ rs2[run] # NoRun /\ rs2[run].status = "complete" /\ rs2[run].binding = b
    /\ rs2[run].base = rs[run].base
    /\ \A q \in RunIds \ {run} : rs2[q] = rs[q]
    /\ bs2[b] # NoBinding /\ bs2[b].complete = run
    /\ \A c \in Bindings \ {b} : bs2[c] = bs[c]
    /\ \A k \in Keys :
          IF k[1] = b /\ ls[k].member = "active" /\ ls[k].seen # run
          THEN ls2[k] # NoRecord /\ ls2[k].member = "removed" /\ ls2[k].seen = ls[k].seen
          ELSE ls2[k] = ls[k]

LEMMA CompleteKeeps ==
    ASSUME NEW rs, NEW ls, NEW bs, NEW rs2, NEW ls2, NEW bs2, NEW b \in Bindings, NEW run \in RunIds,
           HistoryTyped(rs, ls, bs), HistoryTrue(rs, ls, bs), HistoryTyped(rs2, ls2, bs2),
           bs[b] # NoBinding, rs[run] # NoRun, OpenIn(rs, run), rs[run].binding = b,
           rs[run].base = bs[b].complete,
           Completes(rs, ls, bs, b, run, rs2, ls2, bs2)
    PROVE  HistoryTrue(rs2, ls2, bs2)
<1>1. ASSUME NEW c \in Bindings, bs[c] # NoBinding PROVE bs2[c] # NoBinding
  BY <1>1 DEF Completes
<1>2. ASSUME NEW q \in RunIds, rs[q] # NoRun
      PROVE  rs2[q] # NoRun /\ rs2[q].binding = rs[q].binding /\ rs2[q].base = rs[q].base
             /\ (q # run => rs2[q] = rs[q])
  BY <1>2 DEF Completes
<1>3. ~OpenIn(rs2, run)
  BY DEF OpenIn, Completes
<1>4. ASSUME NEW q \in RunIds, OpenIn(rs2, q)
      PROVE  q # run /\ OpenIn(rs, q) /\ rs2[q] = rs[q] /\ rs[q].binding # b
  BY <1>3, <1>4 DEF OpenIn, Completes, HistoryTrue, OpenTrue
<1>5. RunsTrue(rs2, bs2)
  <2> SUFFICES ASSUME NEW q \in RunIds, rs2[q] # NoRun
               PROVE  /\ bs2[rs2[q].binding] # NoBinding
                      /\ rs2[q].base # Nothing =>
                            rs2[rs2[q].base] # NoRun /\ rs2[rs2[q].base].binding = rs2[q].binding
    BY DEF RunsTrue
  <2>1. rs[q] # NoRun
    BY DEF Completes
  <2>2. rs[q].base \in RunNames /\ rs[q].binding \in Bindings
    BY <2>1, RowsAre DEF HistoryTyped, RunSet
  <2>3. bs[rs[q].binding] # NoBinding /\ (rs[q].base # Nothing =>
           rs[rs[q].base] # NoRun /\ rs[rs[q].base].binding = rs[q].binding)
    BY <2>1 DEF HistoryTrue, RunsTrue
  <2> QED
    BY <1>1, <1>2, <2>1, <2>2, <2>3 DEF RunNames
<1>6. ASSUME NEW k \in Keys, ls2[k] # NoRecord
      PROVE  /\ ls[k] # NoRecord /\ ls2[k].seen = ls[k].seen /\ ls[k].seen \in RunIds
             /\ rs[ls[k].seen] # NoRun /\ rs[ls[k].seen].binding = k[1] /\ bs[k[1]] # NoBinding
  <2>1. ls[k] # NoRecord /\ ls2[k].seen = ls[k].seen
    BY <1>6, RowsAre DEF Completes
  <2> QED
    BY <2>1, RowsAre DEF HistoryTyped, RecordSet, HistoryTrue, RecordsTrue
<1>7. RecordsTrue(rs2, ls2, bs2)
  BY <1>1, <1>2, <1>6, KeyIs DEF RecordsTrue
<1>8. CompleteTrue(rs2, bs2)
  <2> SUFFICES ASSUME NEW c \in Bindings, bs2[c] # NoBinding, bs2[c].complete # Nothing
               PROVE  rs2[bs2[c].complete].status = "complete" /\ rs2[bs2[c].complete].binding = c
    BY DEF CompleteTrue
  <2>1. CASE c = b
    BY <2>1 DEF Completes
  <2>2. CASE c # b
    <3>1. bs2[c] = bs[c] /\ bs[c].complete \in RunNames
      BY <2>2, RowsAre DEF Completes, HistoryTyped, BindingSet, RunNames
    <3>2. rs[bs[c].complete].status = "complete" /\ rs[bs[c].complete].binding = c
      BY <3>1 DEF HistoryTrue, CompleteTrue
    <3> QED
      BY <2>2, <3>1, <3>2 DEF Completes, RunNames
  <2> QED
    BY <2>1, <2>2
<1>9. MembersTrue(rs2, ls2, bs2)
  <2> SUFFICES ASSUME NEW k \in Keys
               PROVE  /\ ls2[k].member = "active" =>
                            ls2[k].seen = bs2[k[1]].complete \/ rs2[ls2[k].seen].status = "incomplete"
                      /\ ls2[k].member = "removed" =>
                            ls2[k].seen # bs2[k[1]].complete /\ ~OpenIn(rs2, ls2[k].seen)
    BY DEF MembersTrue
  <2>1. CASE ls2[k] = NoRecord
    BY <2>1, RowsAre
  <2>2. CASE ls2[k] # NoRecord /\ k[1] # b
    <3>1. ls2[k] = ls[k] /\ bs2[k[1]] = bs[k[1]] /\ ls[k].seen # run /\ rs2[ls[k].seen] = rs[ls[k].seen]
      BY <1>6, <2>2, KeyIs DEF Completes
    <3>2. /\ ls[k].member = "active" =>
                ls[k].seen = bs[k[1]].complete \/ rs[ls[k].seen].status = "incomplete"
          /\ ls[k].member = "removed" =>
                ls[k].seen # bs[k[1]].complete /\ ~OpenIn(rs, ls[k].seen)
      BY DEF HistoryTrue, MembersTrue
    <3> QED
      BY <3>1, <3>2 DEF OpenIn
  <2>3. CASE ls2[k] # NoRecord /\ k[1] = b
    <3>1. ls[k].member = "removed" => ls[k].seen # run
      BY DEF HistoryTrue, MembersTrue
    <3>2. ls2[k].member = "active" => ls2[k].seen = run
      BY <2>3 DEF Completes
    <3>3. ls2[k].member = "removed" => ls2[k].seen # run
      BY <2>3, <3>1 DEF Completes
    <3>4. ls[k].seen # run => ~OpenIn(rs2, ls[k].seen)
      BY <1>4, <1>6, <2>3
    <3> QED
      BY <1>6, <2>3, <3>2, <3>3, <3>4 DEF Completes
  <2> QED
    BY <2>1, <2>2, <2>3
<1>10. OpenTrue(rs2, bs2)
  <2> SUFFICES ASSUME NEW r \in RunIds, OpenIn(rs2, r)
               PROVE  /\ rs2[r].base = bs2[rs2[r].binding].complete
                      /\ \A q \in RunIds \ {r} : OpenIn(rs2, q) => rs2[q].binding # rs2[r].binding
    BY DEF OpenTrue
  <2>1. r # run /\ OpenIn(rs, r) /\ rs2[r] = rs[r] /\ rs[r].binding # b
    BY <1>4
  <2>2. rs[r].binding \in Bindings
    BY <2>1, RowsAre DEF HistoryTyped, RunSet, OpenIn
  <2>3. bs2[rs[r].binding] = bs[rs[r].binding]
    BY <2>1, <2>2 DEF Completes
  <2> QED
    BY <1>4, <2>1, <2>3 DEF HistoryTrue, OpenTrue
<1> QED
  BY <1>5, <1>7, <1>8, <1>9, <1>10 DEF HistoryTrue

LEMMA SettledIs ==
    ASSUME NEW ls \in [Keys -> RecordSet], NEW b \in Bindings, NEW run \in RunIds
    PROVE  /\ Settled(b, run, ls) \in [Keys -> RecordSet]
           /\ \A k \in Keys :
                IF k[1] = b /\ ls[k].member = "active" /\ ls[k].seen # run
                THEN /\ Settled(b, run, ls)[k] # NoRecord /\ Settled(b, run, ls)[k].member = "removed"
                     /\ Settled(b, run, ls)[k].seen = ls[k].seen
                ELSE Settled(b, run, ls)[k] = ls[k]
<1>1. ASSUME NEW k \in Keys
      PROVE  /\ Settled(b, run, ls)[k] \in RecordSet
             /\ IF k[1] = b /\ ls[k].member = "active" /\ ls[k].seen # run
                THEN /\ Settled(b, run, ls)[k] # NoRecord /\ Settled(b, run, ls)[k].member = "removed"
                     /\ Settled(b, run, ls)[k].seen = ls[k].seen
                ELSE Settled(b, run, ls)[k] = ls[k]
  <2>1. CASE k[1] = b /\ ls[k].member = "active" /\ ls[k].seen # run
    <3>1. PICK r \in RecordRows : r = ls[k]
      BY <2>1, RowsAre DEF RecordSet
    <3>2. PICK s : s = [r EXCEPT !.member = "removed"]
      OBVIOUS
    <3>3. s \in RecordRows /\ s.member = "removed" /\ s.seen = r.seen
      BY ONLY <3>1, <3>2 DEF RecordRows
    <3>4. Settled(b, run, ls)[k] = s
      BY <2>1, <3>1, <3>2 DEF Settled
    <3> QED
      BY <2>1, <3>1, <3>3, <3>4, RowsAre DEF RecordSet
  <2>2. CASE ~(k[1] = b /\ ls[k].member = "active" /\ ls[k].seen # run)
    BY <2>2 DEF Settled
  <2> QED
    BY <2>1, <2>2
<1>2. Settled(b, run, ls) \in [Keys -> RecordSet]
  BY <1>1 DEF Settled
<1> QED
  BY <1>1, <1>2

\* What a page leaves of the bindings and the records.
Same(bs, bs2) ==
    \A c \in Bindings : /\ bs2[c].corpus = bs[c].corpus
                        /\ (bs2[c] = NoBinding) = (bs[c] = NoBinding)

LEMMA ObservedKeeps ==
    ASSUME ContextInv, NEW b \in Bindings, NEW run \in RunIds, NEW page \in Pages,
           NEW complete \in BOOLEAN, ~Refused(b, run), Observed(b, run, page, complete)
    PROVE  /\ HistoryTyped(runs', linked', bindings') /\ HistoryTrue(runs', linked', bindings')
           /\ Same(bindings, bindings')
           /\ \A k \in Keys : PrunedRecords[k] # NoRecord => linked'[k] # NoRecord
<1> DEFINE rs == PrunedRuns
           ls == PrunedRecords
<1>1. HistoryTyped(rs, ls, bindings) /\ HistoryTrue(rs, ls, bindings)
  BY HistoryIs, PrunedIs, PruneKeeps DEF ContextInv
<1>2. bindings[b] # NoBinding
  BY DEF Refused, Bound
<1>3. CASE Replayed(b, run)
  BY <1>1, <1>3 DEF Observed, Prune, Same
<1>4. ASSUME ~Replayed(b, run)
      PROVE  /\ HistoryTyped(runs', linked', bindings') /\ HistoryTrue(runs', linked', bindings')
             /\ Same(bindings, bindings')
             /\ \A k \in Keys : PrunedRecords[k] # NoRecord => linked'[k] # NoRecord
  <2>1. PICK rs2, ls2 : rs2 = Opened(b, run) /\ ls2 = Seen(b, run, page)
    OBVIOUS
  <2>2. rs2 \in [RunIds -> RunSet] /\ Opens(rs, bindings, b, run, rs2)
    BY <1>4, <2>1, OpenedIs
  <2>3. ls2 \in [Keys -> RecordSet] /\ Sees(ls, b, run, ls2)
    BY <2>1, SeenIs DEF ContextInv
  <2>4. HistoryTyped(rs2, ls, bindings) /\ HistoryTyped(rs2, ls2, bindings)
    BY <1>1, <2>2, <2>3 DEF HistoryTyped
  <2>5. HistoryTrue(rs2, ls, bindings)
    BY <1>1, <1>2, <2>2, <2>4, OpenKeeps
  <2>6. rs2[run] # NoRun /\ OpenIn(rs2, run) /\ rs2[run].binding = b /\ rs2[run].base = bindings[b].complete
    BY <2>2 DEF Opens
  <2>7. HistoryTrue(rs2, ls2, bindings)
    BY <1>2, <2>3, <2>4, <2>5, <2>6, SeeKeeps
  <2>8. \A k \in Keys : ls[k] # NoRecord => ls2[k] # NoRecord
    BY <2>3 DEF Sees
  <2>9. CASE ~complete
    BY <1>4, <2>1, <2>4, <2>7, <2>8, <2>9 DEF Observed, Same
  <2>10. CASE complete
    <3>1. /\ linked' = Settled(b, run, ls2)
          /\ runs' = [rs2 EXCEPT ![run].status = "complete"]
          /\ bindings' = [bindings EXCEPT ![b].complete = run]
      BY <1>4, <2>1, <2>10 DEF Observed
    <3>2. PICK r, s : r = rs2[run] /\ s = [r EXCEPT !.status = "complete"]
      OBVIOUS
    <3>3. r \in RunRows
      BY <2>2, <2>6, <3>2 DEF RunSet
    <3>4. s \in RunRows /\ s.status = "complete" /\ s.binding = r.binding /\ s.base = r.base
      BY ONLY <3>2, <3>3 DEF RunRows
    <3>5. PICK c, d : c = bindings[b] /\ d = [c EXCEPT !.complete = run]
      OBVIOUS
    <3>6. c \in BindingRows
      BY <1>1, <1>2, <3>5 DEF HistoryTyped, BindingSet
    <3>7. d \in BindingRows /\ d.complete = run /\ d.corpus = c.corpus
      BY ONLY <3>5, <3>6, run \in RunIds DEF BindingRows, RunNames
    <3>8. s # NoRun /\ d # NoBinding
      BY <3>4, <3>7, RowsAre
    <3>9. /\ runs' \in [RunIds -> RunSet] /\ runs'[run] = s
          /\ \A q \in RunIds \ {run} : runs'[q] = rs2[q]
      BY <2>2, <3>1, <3>2, <3>4 DEF RunSet
    <3>10. bindings \in [Bindings -> BindingSet]
      BY <1>1 DEF HistoryTyped
    <3>11. /\ bindings' \in [Bindings -> BindingSet] /\ bindings'[b] = d
           /\ \A e \in Bindings \ {b} : bindings'[e] = bindings[e]
      BY <3>1, <3>5, <3>7, <3>10 DEF BindingSet
    <3>12. HistoryTyped(runs', linked', bindings')
      BY <2>3, <3>1, <3>9, <3>11, SettledIs DEF HistoryTyped
    <3>13. Completes(rs2, ls2, bindings, b, run, runs', linked', bindings')
      <4>1. \A k \in Keys :
               IF k[1] = b /\ ls2[k].member = "active" /\ ls2[k].seen # run
               THEN linked'[k] # NoRecord /\ linked'[k].member = "removed" /\ linked'[k].seen = ls2[k].seen
               ELSE linked'[k] = ls2[k]
        BY ONLY <2>3, <3>1, SettledIs, b \in Bindings, run \in RunIds
      <4>2. runs'[run] # NoRun /\ runs'[run].status = "complete" /\ runs'[run].binding = b
            /\ runs'[run].base = rs2[run].base
        BY ONLY <2>6, <3>2, <3>4, <3>8, <3>9
      <4> QED
        BY ONLY <3>7, <3>8, <3>9, <3>11, <4>1, <4>2 DEF Completes
    <3>14. HistoryTrue(runs', linked', bindings')
      BY <1>2, <2>4, <2>6, <2>7, <3>12, <3>13, CompleteKeeps
    <3>15. Same(bindings, bindings')
      BY <1>2, <3>5, <3>7, <3>8, <3>11 DEF Same
    <3>16. \A k \in Keys : ls[k] # NoRecord => linked'[k] # NoRecord
      BY <2>8, <3>13 DEF Completes
    <3> QED
      BY <3>12, <3>14, <3>15, <3>16
  <2> QED
    BY <2>9, <2>10
<1> QED
  BY <1>3, <1>4

-----------------------------------------------------------------------------
(* The invariant, part by part. *)

CorporaTrue ==
    /\ \A x \in Contexts : /\ \A c \in contexts[x].corpora : Registered(c)
                           /\ ~Exists(x) => contexts[x].corpora = {}
    /\ \A b \in Bindings : Bound(b) => Registered(bindings[b].corpus)

LEMMA InvIs ==
    ASSUME ContextInv
    PROVE  /\ ContextTypeOK /\ HistoryTyped(runs, linked, bindings)
           /\ HistoryTrue(runs, linked, bindings)
           /\ LinksHold /\ CorporaTrue /\ FoldersHold /\ EffectIsPast
  BY HistoryIs DEF ContextInv, ReferencesHold, CorporaHold, OneBinding, CorporaTrue

LEMMA InvBack ==
    ASSUME ContextTypeOK', HistoryTrue(runs', linked', bindings'),
           LinksHold', CorporaTrue', FoldersHold', EffectIsPast'
    PROVE  ContextInv'
<1>1. RunsHold'
  BY DEF HistoryTrue, RunsTrue, RunsHold, Bound
<1>2. RecordsHold'
  BY DEF HistoryTrue, RecordsTrue, RecordsHold, Bound
<1>3. CorporaHold'
  BY DEF HistoryTrue, CompleteTrue, CorporaTrue, CorporaHold, Bound, Registered
<1>4. OneBinding'
  BY DEF HistoryTrue, RunsTrue, CompleteTrue, CorporaTrue, OneBinding, Bound, Exists
<1>5. MembersWereSeen'
  BY DEF HistoryTrue, MembersTrue, OpenTrue, MembersWereSeen, Open, OpenIn
<1>6. RemovedIsPast'
  BY DEF HistoryTrue, MembersTrue, RemovedIsPast, Open, OpenIn
<1> QED
  BY <1>1, <1>2, <1>3, <1>4, <1>5, <1>6 DEF ContextInv, ReferencesHold

\* Items are untouched, and what they cite is not pruned.
LEMMA LinksStay ==
    ASSUME LinksHold, UNCHANGED items,
           \A x \in Contexts : Exists(x) => Exists(x)', ContextTypeOK,
           \A k \in Keys : k \in Cited /\ linked[k] # NoRecord => linked'[k] # NoRecord
    PROVE  LinksHold'
<1> SUFFICES ASSUME NEW i \in Requests, items[i] # NoItem
             PROVE  Exists(items[i].context)' /\ \A l \in items[i].links : linked'[l.record] # NoRecord
  BY DEF LinksHold
<1>1. items[i] \in Items
  BY DEF ContextTypeOK
<1>2. items[i].context \in Contexts /\ \A l \in items[i].links : l.record \in Keys
  BY <1>1 DEF Items
<1>3. \A l \in items[i].links : l.record \in Cited /\ linked[l.record] # NoRecord
  BY DEF Cited, LinksHold
<1> QED
  BY <1>2, <1>3 DEF LinksHold

LEMMA PruneLinks ==
    ASSUME ContextTypeOK, NEW k \in Keys, k \in Cited, linked[k] # NoRecord
    PROVE  PrunedRecords[k] # NoRecord
  BY PrunedIs

\* Bindings keep their corpora; contexts and catalog are untouched.
LEMMA CorporaStay ==
    ASSUME CorporaTrue, UNCHANGED <<contexts, catalog>>, Same(bindings, bindings')
    PROVE  CorporaTrue'
  BY DEF CorporaTrue, Same, Bound, Registered, Exists

LEMMA FoldersStay ==
    ASSUME FoldersHold, ContextTypeOK, UNCHANGED <<folders, catalog>>,
           \A x \in Contexts : Exists(x) => Exists(x)'
    PROVE  FoldersHold'
<1>1. \A f \in WorkFolders : folders[f] # NoFolder => folders[f].context \in Contexts
  BY DEF ContextTypeOK, FolderRows
<1> QED
  BY <1>1 DEF FoldersHold, Registered

LEMMA EffectStays ==
    ASSUME EffectIsPast, UNCHANGED <<effects, contexts, sent>>
    PROVE  EffectIsPast'
  BY DEF EffectIsPast, Exists

-----------------------------------------------------------------------------
(* Clients send, and sources change. *)

LEMMA Unread == Unsent \in Readings /\ NoPage \in Pages /\ Unsent.target = Nothing /\ Unsent.page = NoPage
<1>1. NoPage \in Pages
  BY DEF NoPage, Pages
<1> QED
  BY <1>1 DEF Unsent, Readings

LEMMA SendsStep ==
    ASSUME ContextInv, NEW r \in Requests, NEW reading \in Readings, Sends(r, reading),
           Form[r].op # "create",
           Form[r].op \in {"supersede", "revise"} => reading.target \in Requests
    PROVE  ContextInv'
<1> USE InvIs DEF saved, history, registered, outside
<1>1. PICK s : s = [reading EXCEPT !.sent = TRUE]
  OBVIOUS
<1>2. s \in Readings /\ s.sent /\ s.target = reading.target
  BY ONLY <1>1, reading \in Readings DEF Readings
<1>3. sent' = [sent EXCEPT ![r] = s] /\ ~sent[r].sent
      /\ UNCHANGED <<plan, contexts, items, bindings, runs, linked, catalog, folders, refresh, source,
                     stale, edited, effects>>
  BY <1>1 DEF Sends
<1>4. sent \in [Requests -> Readings]
  BY DEF ContextTypeOK
<1>5. sent' \in [Requests -> Readings] /\ sent'[r] = s /\ \A q \in Requests \ {r} : sent'[q] = sent[q]
  BY <1>2, <1>3, <1>4
<1>6. ContextTypeOK'
  BY <1>2, <1>3, <1>5 DEF ContextTypeOK
<1>7. LinksHold'
  BY <1>3, LinksStay DEF Exists
<1>8. CorporaTrue' /\ FoldersHold'
  BY <1>3, CorporaStay, FoldersStay DEF Exists, Same
<1>9. EffectIsPast'
  BY <1>3, <1>5 DEF EffectIsPast, Exists
<1> QED
  BY <1>3, <1>6, <1>7, <1>8, <1>9, InvBack

LEMMA VersionIs ==
    ASSUME ContextTypeOK, NEW x \in Contexts \cup {Nothing} PROVE Version(x) \in Nat
  BY DEF Version, ContextTypeOK, ContextRows

LEMMA SendVersionStep ==
    ASSUME ContextInv, NEW kind \in {"append", "archive", "unregister"}, NEW r \in Requested(kind), SendVersion(r)
    PROVE  ContextInv'
<1>1. r \in Requests /\ Form[r].op = kind
  BY Asked, InvIs
<1>2. Form[r].context \in Contexts \cup {Nothing}
  BY <1>1, Names DEF NamesForm, OfContext, Writing
<1>3. PICK v \in Nat : v = Version(Form[r].context)
  BY <1>2, VersionIs, InvIs
<1>4. PICK s : s = [Unsent EXCEPT !.version = v]
  OBVIOUS
<1>5. s \in Readings
  BY ONLY <1>4, Unread, v \in Nat DEF Readings
<1> QED
  BY <1>1, <1>3, <1>4, <1>5, SendsStep DEF SendVersion

LEMMA SendTargetStep ==
    ASSUME ContextInv, NEW kind \in {"supersede", "revise"}, NEW r \in Requested(kind), NEW i \in plan,
           SendTarget(r, i)
    PROVE  ContextInv'
<1>1. r \in Requests /\ Form[r].op = kind /\ i \in Requests
  BY Asked, InvIs DEF ContextTypeOK
<1>2. Form[r].context \in Contexts
  BY <1>1, Names DEF NamesForm, OfContext, Writing
<1>3. PICK v \in Nat : v = Version(Form[r].context)
  BY <1>2, VersionIs, InvIs
<1>4. items[i] \in Items
  BY <1>1, <1>2, InvIs, Null DEF SendTarget, Belongs, ContextTypeOK, NoItem
<1>5. PICK n \in Nat : n = items[i].life
  BY <1>4 DEF Items
<1>6. PICK s : s = [Unsent EXCEPT !.version = v, !.target = i, !.life = n]
  OBVIOUS
<1>7. s \in Readings /\ s.target = i
  BY ONLY <1>1, <1>6, Unread, v \in Nat, n \in Nat DEF Readings
<1> QED
  BY <1>1, <1>3, <1>5, <1>6, <1>7, SendsStep DEF SendTarget

LEMMA SendPageStep ==
    ASSUME ContextInv, NEW r \in Requested("observe"), SendPage(r)
    PROVE  ContextInv'
<1>1. r \in Requests /\ Form[r].op = "observe"
  BY Asked, InvIs
<1>2. PageForm(Form[r])
  BY <1>1, ContextAssumption
<1>3. PICK there : there = {e \in Form[r].externals : source[e].meta # 0}
  OBVIOUS
<1>4. PICK page : page = [e \in there |-> Reported(r, e)]
  OBVIOUS
<1>5. there \in SUBSET Externals
  BY <1>2, <1>3 DEF PageForm
<1>6. \A e \in there : Reported(r, e) \in Metas
  BY <1>5, InvIs, ContextAssumption DEF Reported, ContextTypeOK, Metas
<1>7. page \in Pages
  BY <1>4, <1>5, <1>6 DEF Pages
<1>8. PICK s : s = [Unsent EXCEPT !.page = page]
  OBVIOUS
<1>9. s \in Readings
  BY ONLY <1>7, <1>8, Unread DEF Readings
<1> QED
  BY <1>1, <1>3, <1>4, <1>8, <1>9, SendsStep DEF SendPage

LEMMA OutsideStep ==
    ASSUME ContextInv,
           \/ \E e \in Externals, meta \in 0..MaxOutside : SourceChanges(e, meta)
           \/ \E e \in Externals : SourceAges(e)
           \/ \E u \in Units : UnitChanges(u)
    PROVE  ContextInv'
<1> USE InvIs DEF saved, history, registered
<1>1. UNCHANGED <<plan, sent, contexts, items, bindings, runs, linked, catalog, folders, refresh, effects>>
  BY DEF SourceChanges, SourceAges, UnitChanges
<1>2. edited' \in 1..MaxOutside
  BY ContextAssumption DEF SourceChanges, SourceAges, UnitChanges, Edit, ContextTypeOK
<1>3. source' \in [Externals -> [meta : Metas, aged : BOOLEAN]] /\ stale' \subseteq Units
  <2>1. source \in [Externals -> [meta : Metas, aged : BOOLEAN]] /\ stale \subseteq Units
    BY DEF ContextTypeOK
  <2>2. CASE \E e \in Externals, meta \in 0..MaxOutside : SourceChanges(e, meta)
    BY ONLY <2>1, <2>2 DEF SourceChanges, Metas
  <2>3. CASE \E e \in Externals : SourceAges(e)
    BY ONLY <2>1, <2>3 DEF SourceAges, Metas
  <2>4. CASE \E u \in Units : UnitChanges(u)
    BY <2>1, <2>4 DEF UnitChanges
  <2> QED
    BY <2>2, <2>3, <2>4
<1>4. ContextTypeOK'
  BY <1>1, <1>2, <1>3 DEF ContextTypeOK
<1>5. LinksHold'
  BY <1>1, LinksStay DEF Exists
<1>6. CorporaTrue' /\ FoldersHold' /\ EffectIsPast'
  BY <1>1, CorporaStay, FoldersStay, EffectStays DEF Exists, Same
<1> QED
  BY <1>1, <1>4, <1>5, <1>6, InvBack

-----------------------------------------------------------------------------
(* Linked sources. *)

\* The history changes, and what is saved of contexts and folders does not.
LEMMA HistoryStep ==
    ASSUME ContextInv, UNCHANGED <<plan, sent, saved, registered, outside, effects>>,
           HistoryTyped(runs', linked', bindings'), HistoryTrue(runs', linked', bindings'),
           CorporaTrue',
           \A k \in Keys : PrunedRecords[k] # NoRecord => linked'[k] # NoRecord,
           refresh' \in [RunIds -> Refreshes],
           \A r \in RunIds : refresh'[r].pc \notin {"idle", "over"} =>
              refresh'[r].binding \in Bindings /\ refresh'[r].selector \in Selectors
    PROVE  ContextInv'
<1> USE InvIs DEF saved, registered, outside
<1>1. ContextTypeOK'
  BY DEF ContextTypeOK, HistoryTyped, RunSet, RecordSet, BindingSet
<1>2. LinksHold'
  BY PruneLinks, LinksStay DEF Exists
<1>3. FoldersHold' /\ EffectIsPast'
  BY FoldersStay, EffectStays DEF Exists
<1> QED
  BY <1>1, <1>2, <1>3, InvBack

\* A binding is added, or has its selector rewritten.
LEMMA BindingKeeps ==
    ASSUME NEW rs, NEW ls, NEW bs, NEW bs2, NEW b \in Bindings,
           HistoryTyped(rs, ls, bs), HistoryTrue(rs, ls, bs), HistoryTyped(rs, ls, bs2),
           bs2[b] # NoBinding, bs2[b].complete = bs[b].complete,
           \A c \in Bindings \ {b} : bs2[c] = bs[c]
    PROVE  HistoryTrue(rs, ls, bs2)
<1>1. \A c \in Bindings : bs2[c].complete = bs[c].complete /\ (bs[c] # NoBinding => bs2[c] # NoBinding)
  OBVIOUS
<1>2. \A r \in RunIds : rs[r] # NoRun => rs[r].binding \in Bindings
  BY RowsAre DEF HistoryTyped, RunSet
<1>3. RunsTrue(rs, bs2)
  BY <1>1, <1>2 DEF HistoryTrue, RunsTrue
<1>4. RecordsTrue(rs, ls, bs2)
  BY <1>1, KeyIs DEF HistoryTrue, RecordsTrue
<1>5. CompleteTrue(rs, bs2)
  <2> SUFFICES ASSUME NEW c \in Bindings, bs2[c] # NoBinding, bs2[c].complete # Nothing
               PROVE  rs[bs2[c].complete].status = "complete" /\ rs[bs2[c].complete].binding = c
    BY DEF CompleteTrue
  <2>1. bs[c] # NoBinding /\ bs[c].complete # Nothing
    BY <1>1, RowsAre
  <2> QED
    BY <1>1, <2>1 DEF HistoryTrue, CompleteTrue
<1>6. MembersTrue(rs, ls, bs2)
  BY <1>1, KeyIs DEF HistoryTrue, MembersTrue
<1>7. ASSUME NEW r \in RunIds, OpenIn(rs, r) PROVE rs[r].binding \in Bindings
  BY <1>2, <1>7, RowsAre DEF OpenIn
<1>8. OpenTrue(rs, bs2)
  BY <1>1, <1>7 DEF HistoryTrue, OpenTrue
<1> QED
  BY <1>3, <1>4, <1>5, <1>6, <1>8 DEF HistoryTrue

LEMMA BindStep == ASSUME ContextInv, NEW r \in Requested("bind"), Bind(r) PROVE ContextInv'
<1>1. r \in Requests /\ Form[r].op = "bind"
  BY Asked, InvIs
<1>2. PICK b \in Bindings, c \in Corpora, s \in Selectors :
         b = Form[r].binding /\ c = Form[r].corpus /\ s = Canonical(Form[r].selector)
  BY <1>1, Names, ContextAssumption DEF NamesForm, OfBinding, OfCorpus, Canonical
<1>3. PICK row : row = [corpus |-> c, selector |-> s, complete |-> Nothing]
  OBVIOUS
<1>4. row \in BindingRows /\ row.complete = Nothing /\ row.corpus = c /\ row # NoBinding
  <2>1. row \in BindingRows /\ row.complete = Nothing /\ row.corpus = c
    BY ONLY <1>3, c \in Corpora, s \in Selectors DEF BindingRows, RunNames
  <2> QED
    BY <2>1, RowsAre
<1>5. /\ Registered(c) /\ linked' = PrunedRecords /\ runs' = PrunedRuns
      /\ UNCHANGED <<plan, sent, saved, registered, refresh, outside, effects>>
      /\ \/ UNCHANGED bindings
         \/ bindings[b] = NoBinding /\ bindings' = [bindings EXCEPT ![b] = row]
  <2>1. row = [corpus |-> Form[r].corpus, selector |-> Canonical(Form[r].selector), complete |-> Nothing]
    BY <1>2, <1>3
  <2>2. Registered(c) /\ UNCHANGED <<plan, sent, saved, registered, refresh, outside, effects>>
    BY <1>2 DEF Bind
  <2>3. linked' = PrunedRecords /\ runs' = PrunedRuns
    BY DEF Bind, Prune
  <2>4. \/ UNCHANGED bindings
        \/ bindings[b] = NoBinding /\ bindings' = [bindings EXCEPT ![b] = row]
    BY <1>2, <2>1 DEF Bind, Bound
  <2> QED
    BY <2>2, <2>3, <2>4
<1>6. /\ HistoryTyped(PrunedRuns, PrunedRecords, bindings)
      /\ HistoryTrue(PrunedRuns, PrunedRecords, bindings)
  BY InvIs, PrunedIs, PruneKeeps
<1>7. HistoryTyped(runs', linked', bindings') /\ HistoryTrue(runs', linked', bindings') /\ CorporaTrue'
  <2>1. CASE UNCHANGED bindings
    BY <1>5, <1>6, <2>1, InvIs, CorporaStay DEF Same, saved, registered
  <2>2. CASE bindings[b] = NoBinding /\ bindings' = [bindings EXCEPT ![b] = row]
    <3>1. /\ bindings' \in [Bindings -> BindingSet] /\ bindings'[b] = row
          /\ \A e \in Bindings \ {b} : bindings'[e] = bindings[e]
      BY <1>4, <1>6, <2>2 DEF HistoryTyped, BindingSet
    <3>2. HistoryTyped(PrunedRuns, PrunedRecords, bindings')
      BY <1>6, <3>1 DEF HistoryTyped
    <3>3. HistoryTrue(PrunedRuns, PrunedRecords, bindings')
      BY <1>4, <1>6, <2>2, <3>1, <3>2, RowsAre, BindingKeeps
    <3>4. CorporaTrue'
      BY <1>4, <1>5, <3>1, InvIs DEF CorporaTrue, Registered, Exists, Bound, saved, registered
    <3> QED
      BY <1>5, <3>2, <3>3, <3>4
  <2> QED
    BY <1>5, <2>1, <2>2
<1> QED
  BY <1>5, <1>7, InvIs, HistoryStep DEF ContextTypeOK

LEMMA ObservePageStep ==
    ASSUME ContextInv, NEW r \in Requested("observe"), ObservePage(r) PROVE ContextInv'
<1>1. r \in Requests /\ Form[r].op = "observe"
  BY Asked, InvIs
<1>2. PICK b \in Bindings, run \in RunIds, page \in Pages, complete \in BOOLEAN :
         b = Form[r].binding /\ run = Form[r].run /\ page = sent[r].page /\ complete = Form[r].complete
  <2>1. Form[r].binding \in Bindings /\ Form[r].run \in RunIds
    BY <1>1, Names DEF NamesForm, OfBinding
  <2>2. Form[r].complete \in BOOLEAN
    BY <1>1, ContextAssumption DEF PageForm
  <2>3. sent[r].page \in Pages
    BY <1>1, InvIs DEF ContextTypeOK, Readings
  <2> QED
    BY <2>1, <2>2, <2>3
<1>3. /\ ~Refused(b, run) /\ Observed(b, run, page, complete)
      /\ UNCHANGED <<plan, sent, saved, registered, refresh, outside, effects>>
  BY <1>2 DEF ObservePage
<1>4. /\ HistoryTyped(runs', linked', bindings') /\ HistoryTrue(runs', linked', bindings')
      /\ Same(bindings, bindings')
      /\ \A k \in Keys : PrunedRecords[k] # NoRecord => linked'[k] # NoRecord
  BY <1>3, ObservedKeeps
<1>5. CorporaTrue'
  BY <1>3, <1>4, InvIs, CorporaStay DEF saved, registered
<1> QED
  BY <1>3, <1>4, <1>5, InvIs, HistoryStep DEF ContextTypeOK

\* Refreshes keep their types.
RefreshOK(rf) ==
    /\ rf \in [RunIds -> Refreshes]
    /\ \A r \in RunIds : rf[r].pc \notin {"idle", "over"} =>
          rf[r].binding \in Bindings /\ rf[r].selector \in Selectors

LEMMA RefreshIs == ASSUME ContextInv PROVE RefreshOK(refresh)
  BY InvIs DEF ContextTypeOK, RefreshOK

LEMMA RefreshPut ==
    ASSUME RefreshOK(refresh), NEW run \in RunIds, NEW row \in Refreshes,
           row.pc \notin {"idle", "over"} => row.binding \in Bindings /\ row.selector \in Selectors,
           refresh' = [refresh EXCEPT ![run] = row]
    PROVE  RefreshOK(refresh')
  BY DEF RefreshOK

LEMMA OverIs ==
    LET over == [NotRefreshing EXCEPT !.pc = "over"]
    IN  over \in Refreshes /\ over.pc = "over"
  BY Unread DEF NotRefreshing, Refreshes

LEMMA BeginRefreshStep ==
    ASSUME ContextInv, NEW r \in Requested("refresh"), BeginRefresh(r) PROVE ContextInv'
<1>1. r \in Requests /\ Form[r].op = "refresh"
  BY Asked, InvIs
<1>2. PICK b \in Bindings, run \in RunIds : b = Form[r].binding /\ run = Form[r].run
  BY <1>1, Names DEF NamesForm, OfBinding
<1>3. PICK s : s = bindings[b].selector
  OBVIOUS
<1>4. PICK row : row = [NotRefreshing EXCEPT !.pc = "opened", !.binding = b, !.selector = s]
  OBVIOUS
<1>5. /\ ~Refused(b, run) /\ Observed(b, run, NoPage, FALSE)
      /\ refresh' = [refresh EXCEPT ![run] = row]
      /\ UNCHANGED <<plan, sent, saved, registered, outside, effects>>
  BY <1>2, <1>3, <1>4 DEF BeginRefresh
<1>6. s \in Selectors
  BY <1>3, <1>5, InvIs, RowsAre DEF Refused, Bound, HistoryTyped, BindingSet
<1>7. row \in Refreshes /\ row.binding = b /\ row.selector = s
  BY ONLY <1>4, <1>6, Unread, b \in Bindings DEF NotRefreshing, Refreshes
<1>8. RefreshOK(refresh')
  BY <1>5, <1>6, <1>7, RefreshIs, RefreshPut
<1>9. /\ HistoryTyped(runs', linked', bindings') /\ HistoryTrue(runs', linked', bindings')
      /\ Same(bindings, bindings')
      /\ \A k \in Keys : PrunedRecords[k] # NoRecord => linked'[k] # NoRecord
  BY <1>5, Unread, ObservedKeeps
<1>10. CorporaTrue'
  BY <1>5, <1>9, InvIs, CorporaStay DEF saved, registered
<1> QED
  BY <1>5, <1>8, <1>9, <1>10, HistoryStep DEF RefreshOK

LEMMA DiscoverStep ==
    ASSUME ContextInv, NEW run \in RunIds, NEW complete \in BOOLEAN, Discover(run, complete)
    PROVE  ContextInv'
<1> USE InvIs DEF saved, history, registered, outside
<1>1. Discovered \in Pages
  <2>1. PICK part : part = {x \in Externals : source[x].meta # 0 /\ ~source[x].aged}
    OBVIOUS
  <2>2. part \in SUBSET Externals /\ \A e \in part : source[e].meta \in Metas
    BY <2>1 DEF ContextTypeOK
  <2>3. Discovered = [e \in part |-> source[e].meta]
    BY <2>1 DEF Discovered
  <2> QED
    BY ONLY <2>2, <2>3 DEF Pages
<1>2. PICK now \in Refreshes : now = refresh[run]
  BY DEF ContextTypeOK
<1>3. now.pc = "opened" /\ now.binding \in Bindings /\ now.selector \in Selectors
  BY <1>2 DEF Discover, ContextTypeOK
<1>4. PICK pages \in Pages : pages = Discovered
  BY <1>1
<1>5. PICK row : row = [now EXCEPT !.pc = "discovered", !.pages = pages, !.complete = complete]
  OBVIOUS
<1>6. row \in Refreshes /\ row.binding = now.binding /\ row.selector = now.selector
  BY ONLY <1>5, now \in Refreshes, pages \in Pages, complete \in BOOLEAN DEF Refreshes
<1>7. /\ refresh' = [refresh EXCEPT ![run] = row]
      /\ UNCHANGED <<plan, sent, contexts, items, bindings, runs, linked, catalog, folders, source,
                     stale, edited, effects>>
  BY <1>2, <1>4, <1>5 DEF Discover
<1>8. RefreshOK(refresh')
  BY <1>3, <1>6, <1>7, RefreshIs, RefreshPut
<1>9. ContextTypeOK'
  BY <1>7, <1>8 DEF ContextTypeOK, RefreshOK
<1>10. LinksHold'
  BY <1>7, LinksStay DEF Exists
<1>11. CorporaTrue' /\ FoldersHold' /\ EffectIsPast'
  BY <1>7, CorporaStay, FoldersStay, EffectStays DEF Exists, Same
<1> QED
  BY <1>7, <1>9, <1>10, <1>11, InvBack

LEMMA RenormaliseStep ==
    ASSUME ContextInv, NEW run \in RunIds, Renormalise(run) PROVE ContextInv'
<1>1. PICK now \in Refreshes : now = refresh[run]
  BY InvIs DEF ContextTypeOK
<1>2. /\ now.binding \in Bindings /\ now.selector \in Selectors
      /\ UNCHANGED <<plan, sent, saved, runs, linked, registered, outside, effects>>
  BY <1>1, InvIs DEF Renormalise, ContextTypeOK
<1>3. PICK b \in Bindings, new \in Selectors : b = now.binding /\ new = Canonical(now.selector)
  BY <1>2, ContextAssumption DEF Canonical
<1>4. RefreshOK(refresh')
  <2>1. PICK paging, over : paging = [now EXCEPT !.pc = "paging"] /\ over = [NotRefreshing EXCEPT !.pc = "over"]
    OBVIOUS
  <2>2. paging \in Refreshes /\ paging.binding = now.binding /\ paging.selector = now.selector
    BY ONLY <2>1, now \in Refreshes DEF Refreshes
  <2>3. over \in Refreshes /\ over.pc = "over"
    BY <2>1, OverIs
  <2>4. \/ refresh' = [refresh EXCEPT ![run] = paging]
        \/ refresh' = [refresh EXCEPT ![run] = over]
    BY <1>1, <2>1 DEF Renormalise
  <2> QED
    BY <1>2, <2>2, <2>3, <2>4, RefreshIs, RefreshPut
<1>5. \A k \in Keys : PrunedRecords[k] # NoRecord => linked'[k] # NoRecord
  BY <1>2, InvIs, PrunedIs DEF Pruned
<1>6. CASE UNCHANGED bindings
  <2>1. HistoryTyped(runs', linked', bindings') /\ HistoryTrue(runs', linked', bindings') /\ CorporaTrue'
    BY <1>2, <1>6, InvIs, CorporaStay DEF Same, saved, registered
  <2> QED
    BY <1>2, <1>4, <1>5, <1>6, <2>1, HistoryStep DEF RefreshOK
<1>7. CASE bindings[b] # NoBinding /\ bindings' = [bindings EXCEPT ![b].selector = new]
  <2>1. PICK row, row2 : row = bindings[b] /\ row2 = [row EXCEPT !.selector = new]
    OBVIOUS
  <2>2. row \in BindingRows
    BY <1>7, <2>1, InvIs DEF HistoryTyped, BindingSet
  <2>3. row2 \in BindingRows /\ row2.corpus = row.corpus /\ row2.complete = row.complete
    BY ONLY <2>1, <2>2, new \in Selectors DEF BindingRows
  <2>4. row2 # NoBinding
    BY <2>3, RowsAre
  <2>5. bindings \in [Bindings -> BindingSet]
    BY InvIs DEF HistoryTyped
  <2>6. /\ bindings' \in [Bindings -> BindingSet] /\ bindings'[b] = row2
        /\ \A e \in Bindings \ {b} : bindings'[e] = bindings[e]
    BY <1>7, <2>1, <2>3, <2>5 DEF BindingSet
  <2>7. HistoryTyped(runs, linked, bindings')
    BY <2>6, InvIs DEF HistoryTyped
  <2>8. HistoryTrue(runs, linked, bindings')
    BY <2>1, <2>3, <2>4, <2>6, <2>7, InvIs, BindingKeeps
  <2>9. Same(bindings, bindings')
    BY <1>7, <2>1, <2>3, <2>4, <2>6 DEF Same
  <2>10. CorporaTrue'
    BY <1>2, <2>9, InvIs, CorporaStay DEF saved, registered
  <2> QED
    BY <1>2, <1>4, <1>5, <2>7, <2>8, <2>10, HistoryStep DEF RefreshOK
<1> QED
  BY <1>1, <1>3, <1>6, <1>7 DEF Renormalise, Bound

LEMMA PartIs == ASSUME NEW page \in Pages, NEW part \in SUBSET DOMAIN page PROVE Part(page, part) \in Pages
<1>1. PICK all \in SUBSET Externals : page \in [all -> Metas]
  BY DEF Pages
<1>2. part \in SUBSET Externals /\ Part(page, part) \in [part -> Metas]
  BY <1>1 DEF Part
<1> QED
  BY <1>2 DEF Pages

LEMMA RefreshPageStep ==
    ASSUME ContextInv, NEW run \in RunIds, RefreshPage(run) PROVE ContextInv'
<1>1. PICK now \in Refreshes : now = refresh[run]
  BY InvIs DEF ContextTypeOK
<1>2. /\ now.binding \in Bindings /\ now.selector \in Selectors
      /\ UNCHANGED <<plan, sent, saved, registered, outside, effects>>
  BY <1>1, InvIs DEF RefreshPage, ContextTypeOK
<1>3. PICK over : over = [NotRefreshing EXCEPT !.pc = "over"]
  OBVIOUS
<1>4. over \in Refreshes /\ over.pc = "over"
  BY <1>3, OverIs
<1>5. now.pages \in Pages /\ now.complete \in BOOLEAN
  BY DEF Refreshes
<1>6. CASE UNCHANGED history /\ refresh' = [refresh EXCEPT ![run] = over]
  <2>1. RefreshOK(refresh')
    BY <1>4, <1>6, RefreshIs, RefreshPut
  <2>2. HistoryTyped(runs', linked', bindings') /\ HistoryTrue(runs', linked', bindings') /\ CorporaTrue'
    BY <1>2, <1>6, InvIs, CorporaStay DEF Same, saved, registered, history
  <2>3. \A k \in Keys : PrunedRecords[k] # NoRecord => linked'[k] # NoRecord
    BY <1>6, InvIs, PrunedIs DEF Pruned, history
  <2> QED
    BY <1>2, <2>1, <2>2, <2>3, HistoryStep DEF RefreshOK
<1>7. ASSUME NEW next \in SUBSET DOMAIN now.pages, NEW last \in BOOLEAN, ~Refused(now.binding, run),
             Observed(now.binding, run, Part(now.pages, next), now.complete /\ last),
             \/ refresh' = [refresh EXCEPT ![run] = over]
             \/ refresh' = [refresh EXCEPT ![run].pages = Part(@, DOMAIN @ \ next)]
      PROVE  ContextInv'
  <2>1. PICK b \in Bindings, page \in Pages, complete \in BOOLEAN :
           b = now.binding /\ page = Part(now.pages, next) /\ complete = (now.complete /\ last)
    BY <1>2, <1>5, PartIs
  <2>2. ~Refused(b, run) /\ Observed(b, run, page, complete)
    BY <1>7, <2>1
  <2>3. /\ HistoryTyped(runs', linked', bindings') /\ HistoryTrue(runs', linked', bindings')
        /\ Same(bindings, bindings')
        /\ \A k \in Keys : PrunedRecords[k] # NoRecord => linked'[k] # NoRecord
    BY <2>2, ObservedKeeps
  <2>4. CorporaTrue'
    BY <1>2, <2>3, InvIs, CorporaStay DEF saved, registered
  <2>5. RefreshOK(refresh')
    <3>1. CASE refresh' = [refresh EXCEPT ![run] = over]
      BY <1>4, <3>1, RefreshIs, RefreshPut
    <3>2. CASE refresh' = [refresh EXCEPT ![run].pages = Part(@, DOMAIN @ \ next)]
      <4>1. PICK rest : rest = Part(now.pages, DOMAIN now.pages \ next)
        OBVIOUS
      <4>2. rest \in Pages
        BY <1>5, <4>1, PartIs
      <4>3. PICK row : row = [now EXCEPT !.pages = rest]
        OBVIOUS
      <4>4. row \in Refreshes /\ row.binding = now.binding /\ row.selector = now.selector
        BY ONLY <4>2, <4>3, now \in Refreshes DEF Refreshes
      <4>5. refresh' = [refresh EXCEPT ![run] = row]
        BY <1>1, <3>2, <4>1, <4>3
      <4> QED
        BY <1>2, <4>4, <4>5, RefreshIs, RefreshPut
    <3> QED
      BY <1>7, <3>1, <3>2
  <2> QED
    BY <1>2, <2>3, <2>4, <2>5, HistoryStep DEF RefreshOK
<1>8. \/ UNCHANGED history /\ refresh' = [refresh EXCEPT ![run] = over]
      \/ \E next \in SUBSET DOMAIN now.pages, last \in BOOLEAN :
            /\ ~Refused(now.binding, run)
            /\ Observed(now.binding, run, Part(now.pages, next), now.complete /\ last)
            /\ \/ refresh' = [refresh EXCEPT ![run] = over]
               \/ refresh' = [refresh EXCEPT ![run].pages = Part(@, DOMAIN @ \ next)]
  BY <1>1, <1>3 DEF RefreshPage
<1> QED
  BY <1>6, <1>7, <1>8

-----------------------------------------------------------------------------
(* Saved contexts. *)

\* The context x is created or gets its next version.
Puts(x, row) ==
    /\ contexts' = [contexts EXCEPT ![x] = row]
    /\ row \in ContextRows /\ row.state # "none"
    /\ Exists(x) => row.corpora = contexts[x].corpora /\ row.version > contexts[x].version

LEMMA ContextStep ==
    ASSUME ContextInv, NEW x \in Contexts, NEW row, Puts(x, row),
           UNCHANGED <<plan, sent, bindings, registered, refresh, outside>>,
           Prune \/ UNCHANGED <<linked, runs>>,
           \A c \in row.corpora : Registered(c),
           items' \in [Requests -> Items \cup {NoItem}], LinksHold',
           effects' \in [Requests -> Nat], EffectIsPast'
    PROVE  ContextInv'
<1> USE InvIs DEF registered, outside
<1>1. contexts \in [Contexts -> ContextRows]
  BY DEF ContextTypeOK
<1>2. /\ contexts' \in [Contexts -> ContextRows] /\ contexts'[x] = row
      /\ \A y \in Contexts \ {x} : contexts'[y] = contexts[y]
  BY <1>1 DEF Puts
<1>3. \A y \in Contexts : Exists(y) => Exists(y)'
  BY <1>2 DEF Exists, Puts
<1>4. HistoryTyped(runs', linked', bindings') /\ HistoryTrue(runs', linked', bindings')
  <2>1. CASE Prune
    BY <2>1, PrunedIs, PruneKeeps DEF Prune
  <2>2. CASE UNCHANGED <<linked, runs>>
    BY <2>2
  <2> QED
    BY <2>1, <2>2
<1>5. ContextTypeOK'
  BY <1>2, <1>4 DEF ContextTypeOK, HistoryTyped, RunSet, RecordSet, BindingSet
<1>6. CorporaTrue'
  BY <1>2 DEF CorporaTrue, Exists, Registered, Bound, Puts
<1>7. FoldersHold'
  BY <1>3, FoldersStay
<1> QED
  BY <1>4, <1>5, <1>6, <1>7, InvBack

LEMMA TakesOnce ==
    ASSUME ContextInv, NEW r \in Requests, Form[r].op \in Writing, NEW x \in Contexts,
           x = Form[r].context, NEW row, Puts(x, row), Took(r), UNCHANGED sent,
           \/ Form[r].op = "create" /\ ~Exists(x)
           \/ Form[r].op # "create" /\ Exists(x) /\ sent[r].sent /\ Expected(r)
    PROVE  effects' \in [Requests -> Nat] /\ EffectIsPast'
<1> USE InvIs
<1>1. contexts \in [Contexts -> ContextRows] /\ effects \in [Requests -> Nat] /\ sent \in [Requests -> Readings]
  BY DEF ContextTypeOK
<1>2. contexts'[x] = row /\ \A y \in Contexts \ {x} : contexts'[y] = contexts[y]
  BY <1>1 DEF Puts
<1>3. row.version \in Nat /\ contexts[x].version \in Nat /\ sent[r].version \in Nat
  BY <1>1 DEF Puts, ContextRows, Readings
<1>4. effects[r] = 0
  BY <1>1, <1>3 DEF EffectIsPast, Expected
<1>5. effects' \in [Requests -> Nat] /\ effects'[r] = 1 /\ \A q \in Requests \ {r} : effects'[q] = effects[q]
  BY <1>1, <1>4 DEF Took
<1>6. ASSUME NEW q \in Requests, effects'[q] # 0
      PROVE  /\ effects'[q] = 1 /\ Form[q].op \in Writing /\ Exists(Form[q].context)'
             /\ Form[q].op # "create" =>
                   sent'[q].sent /\ sent'[q].version < contexts'[Form[q].context].version
  <2>1. CASE q = r
    BY <1>2, <1>3, <1>5, <2>1 DEF Exists, Puts, Expected
  <2>2. CASE q # r
    <3>1. PICK y \in Contexts : y = Form[q].context
      BY <1>5, <1>6, <2>2, Names DEF EffectIsPast, NamesForm, OfContext
    <3>2. /\ effects[q] = 1 /\ Form[q].op \in Writing /\ Exists(y)
          /\ Form[q].op # "create" => sent[q].sent /\ sent[q].version < contexts[y].version
      BY <1>5, <1>6, <2>2, <3>1 DEF EffectIsPast
    <3>3. sent[q].version \in Nat /\ contexts[y].version \in Nat
      BY <1>1 DEF Readings, ContextRows
    <3>4. CASE y = x
      BY <1>2, <1>3, <1>5, <2>2, <3>1, <3>2, <3>3, <3>4 DEF Exists, Puts
    <3>5. CASE y # x
      BY <1>2, <1>5, <2>2, <3>1, <3>2, <3>5 DEF Exists
    <3> QED
      BY <3>4, <3>5
  <2> QED
    BY <2>1, <2>2
<1> QED
  BY <1>5, <1>6 DEF EffectIsPast

\* Nothing but the pruning changes.
LEMMA PruneStep ==
    ASSUME ContextInv, Prune, UNCHANGED <<plan, sent, saved, bindings, registered, refresh, outside, effects>>
    PROVE  ContextInv'
<1>1. HistoryTyped(runs', linked', bindings') /\ HistoryTrue(runs', linked', bindings')
  BY InvIs, PrunedIs, PruneKeeps DEF Prune
<1>2. CorporaTrue'
  BY InvIs, CorporaStay DEF Same, saved, registered
<1>3. \A k \in Keys : PrunedRecords[k] # NoRecord => linked'[k] # NoRecord
  BY DEF Prune
<1>4. RefreshOK(refresh')
  BY RefreshIs
<1> QED
  BY <1>1, <1>2, <1>3, <1>4, HistoryStep DEF RefreshOK

\* The row of a context with its next version.
LEMMA NextVersion ==
    ASSUME NEW c \in ContextRows, NEW state \in {"active", "archived"}
    PROVE  LET d == [c EXCEPT !.state = state, !.version = @ + 1]
               e == [c EXCEPT !.version = @ + 1]
           IN  /\ d \in ContextRows /\ d.state = state /\ d.corpora = c.corpora /\ d.version > c.version
               /\ e \in ContextRows /\ e.state = c.state /\ e.corpora = c.corpora /\ e.version > c.version
<1> DEFINE d == [c EXCEPT !.state = state, !.version = @ + 1]
           e == [c EXCEPT !.version = @ + 1]
<1>1. PICK v \in Nat : v = c.version
  BY DEF ContextRows
<1>2. v + 1 \in Nat /\ v + 1 > v
  OBVIOUS
<1>3. PICK w \in Nat : w = v + 1
  BY <1>2
<1>4. d = [c EXCEPT !.state = state, !.version = w] /\ e = [c EXCEPT !.version = w]
  BY <1>1, <1>3
<1>5. d \in ContextRows /\ d.state = state /\ d.corpora = c.corpora /\ d.version = w
  BY ONLY <1>4, c \in ContextRows, w \in Nat, state \in {"active", "archived"} DEF ContextRows
<1>6. e \in ContextRows /\ e.state = c.state /\ e.corpora = c.corpora /\ e.version = w
  BY ONLY <1>4, c \in ContextRows, w \in Nat DEF ContextRows
<1> QED
  BY <1>1, <1>2, <1>3, <1>5, <1>6

LEMMA AdvanceIs ==
    ASSUME ContextInv, NEW x \in Contexts, Exists(x), Advance(x)
    PROVE  /\ \E row : Puts(x, row) /\ row.corpora = contexts[x].corpora
           /\ \A y \in Contexts : Exists(y) => Exists(y)'
<1>1. contexts \in [Contexts -> ContextRows]
  BY InvIs DEF ContextTypeOK
<1>2. PICK c \in ContextRows : c = contexts[x]
  BY <1>1
<1>3. PICK row : row = [c EXCEPT !.version = @ + 1]
  OBVIOUS
<1>4. row \in ContextRows /\ row.state = c.state /\ row.corpora = c.corpora /\ row.version > c.version
  BY ONLY <1>3, c \in ContextRows, NextVersion
<1>5. contexts' = [contexts EXCEPT ![x] = row]
  BY <1>1, <1>2, <1>3 DEF Advance
<1>6. Puts(x, row) /\ row.corpora = contexts[x].corpora
  BY <1>2, <1>4, <1>5 DEF Puts, Exists
<1>7. \A y \in Contexts : Exists(y) => Exists(y)'
  BY <1>1, <1>5, <1>6 DEF Exists, Puts
<1> QED
  BY <1>6, <1>7

LEMMA CreateStep == ASSUME ContextInv, NEW r \in Requested("create"), Create(r) PROVE ContextInv'
<1> USE InvIs
<1>1. r \in Requests /\ Form[r].op = "create"
  BY Asked
<1>2. PICK x \in Contexts : x = Form[r].context
  BY <1>1, Names DEF NamesForm, OfContext, Writing
<1>3. Form[r].corpora \in SUBSET Corpora /\ Form[r].text \in Texts
  BY <1>1, Names DEF NamesForm, Texts, Writing
<1>4. CASE UNCHANGED <<contexts, effects>>
  BY <1>4, PruneStep DEF Create, saved
<1>5. ASSUME ~Exists(x), Took(r), UNCHANGED items,
             contexts' = [contexts EXCEPT ![x] =
                [state |-> "active", version |-> 1, corpora |-> Form[r].corpora,
                 made |-> Form[r].text, life |-> @.life + 1]]
      PROVE  ContextInv'
  <2>1. PICK n \in Nat : n = contexts[x].life
    BY DEF ContextTypeOK, ContextRows
  <2>2. PICK row : row = [state |-> "active", version |-> 1, corpora |-> Form[r].corpora,
                          made |-> Form[r].text, life |-> n + 1]
    OBVIOUS
  <2>3. row \in ContextRows /\ row.state = "active" /\ row.corpora = Form[r].corpora
    BY ONLY <1>3, <2>2, n \in Nat DEF ContextRows
  <2>4. contexts' = [contexts EXCEPT ![x] = row]
    BY <1>5, <2>1, <2>2 DEF ContextTypeOK
  <2>5. Puts(x, row)
    BY <1>5, <2>3, <2>4 DEF Puts
  <2>6. /\ \A c \in row.corpora : Registered(c)
        /\ Prune /\ UNCHANGED <<plan, sent, items, bindings, registered, refresh, outside>>
    BY <2>3 DEF Create
  <2>7. effects' \in [Requests -> Nat] /\ EffectIsPast'
    BY <1>1, <1>2, <1>5, <2>5, <2>6, TakesOnce DEF Writing
  <2>8. LinksHold'
    <3>1. \A y \in Contexts : Exists(y) => Exists(y)'
      BY <1>5, <2>3, <2>4 DEF Exists, ContextTypeOK
    <3> QED
      BY <2>6, <3>1, LinksStay, PruneLinks DEF Prune
  <2> QED
    BY <2>5, <2>6, <2>7, <2>8, ContextStep DEF ContextTypeOK
<1> QED
  BY <1>2, <1>4, <1>5 DEF Create

LEMMA ArchiveStep == ASSUME ContextInv, NEW r \in Requested("archive"), Archive(r) PROVE ContextInv'
<1> USE InvIs
<1>1. r \in Requests /\ Form[r].op = "archive"
  BY Asked
<1>2. PICK x \in Contexts : x = Form[r].context
  BY <1>1, Names DEF NamesForm, OfContext, Writing
<1>3. CASE UNCHANGED <<contexts, effects>>
  BY <1>3, PruneStep DEF Archive, saved
<1>4. ASSUME Expected(r), Took(r),
             contexts' = [contexts EXCEPT ![x].state = "archived", ![x].version = @ + 1]
      PROVE  ContextInv'
  <2>1. PICK c \in ContextRows : c = contexts[x]
    BY DEF ContextTypeOK
  <2>2. PICK row : row = [c EXCEPT !.state = "archived", !.version = @ + 1]
    OBVIOUS
  <2>3. row \in ContextRows /\ row.state = "archived" /\ row.corpora = c.corpora /\ row.version > c.version
    BY ONLY <2>2, c \in ContextRows, NextVersion
  <2>4. contexts' = [contexts EXCEPT ![x] = row]
    BY <1>4, <2>1, <2>2 DEF ContextTypeOK
  <2>5. Puts(x, row)
    BY <2>1, <2>3, <2>4 DEF Puts
  <2>6. /\ sent[r].sent /\ Exists(x) /\ \A d \in row.corpora : Registered(d)
        /\ Prune /\ UNCHANGED <<plan, sent, items, bindings, registered, refresh, outside>>
    BY <1>2, <2>1, <2>3 DEF Archive, CorporaTrue
  <2>7. effects' \in [Requests -> Nat] /\ EffectIsPast'
    BY <1>1, <1>2, <1>4, <2>5, <2>6, TakesOnce DEF Writing
  <2>8. LinksHold'
    <3>1. \A y \in Contexts : Exists(y) => Exists(y)'
      BY <2>3, <2>4 DEF Exists, ContextTypeOK
    <3> QED
      BY <2>6, <3>1, LinksStay, PruneLinks DEF Prune
  <2> QED
    BY <2>5, <2>6, <2>7, <2>8, ContextStep DEF ContextTypeOK
<1> QED
  BY <1>2, <1>3, <1>4 DEF Archive

\* An item that cites what is there takes a place among the items.
LEMMA LinksPut ==
    ASSUME ContextInv, NEW i \in Requests, NEW item \in Items, items' = [items EXCEPT ![i] = item],
           \A y \in Contexts : Exists(y) => Exists(y)', Exists(item.context)',
           \A l \in item.links : linked'[l.record] # NoRecord,
           Prune \/ UNCHANGED linked
    PROVE  items' \in [Requests -> Items \cup {NoItem}] /\ LinksHold'
<1> USE InvIs
<1>1. items \in [Requests -> Items \cup {NoItem}]
  BY DEF ContextTypeOK
<1>2. /\ items' \in [Requests -> Items \cup {NoItem}] /\ items'[i] = item
      /\ \A j \in Requests \ {i} : items'[j] = items[j]
  BY <1>1
<1>3. ASSUME NEW j \in Requests \ {i}, items[j] # NoItem
      PROVE  Exists(items[j].context)' /\ \A l \in items[j].links : linked'[l.record] # NoRecord
  <2>1. items[j] \in Items
    BY <1>1, <1>3
  <2>2. items[j].context \in Contexts /\ \A l \in items[j].links : l.record \in Keys
    BY <2>1 DEF Items
  <2>3. \A l \in items[j].links : l.record \in Cited /\ linked[l.record] # NoRecord
    BY <1>3 DEF Cited, LinksHold
  <2>4. \A l \in items[j].links : linked'[l.record] # NoRecord
    BY <2>2, <2>3, PruneLinks DEF Prune
  <2> QED
    BY <1>3, <2>2, <2>4 DEF LinksHold
<1>4. \A j \in Requests : items'[j] # NoItem =>
         contexts'[items'[j].context].state # "none"
         /\ \A l \in items'[j].links : linked'[l.record] # NoRecord
  BY <1>2, <1>3 DEF Exists
<1> QED
  BY <1>2, <1>4 DEF LinksHold, Exists

LEMMA WriteItemsStep ==
    ASSUME ContextInv, NEW kind \in {"append", "supersede"}, NEW r \in Requested(kind), WriteItems(r)
    PROVE  ContextInv'
<1> USE InvIs
<1>1. r \in Requests /\ Form[r].op = kind
  BY Asked
<1>2. PICK x \in Contexts : x = Form[r].context
  BY <1>1, Names DEF NamesForm, OfContext, Writing
<1>3. CASE UNCHANGED <<saved, effects>>
  BY <1>3, PruneStep DEF WriteItems
<1>4. ASSUME NEW i, i = IF kind = "append" THEN r ELSE sent[r].target,
             kind = "supersede" => Belongs(i, x),
             Expected(r), Current(r), Wrote(r, i), Advance(x), Took(r)
      PROVE  ContextInv'
  <2>1. /\ sent[r].sent /\ Exists(x) /\ Prune
        /\ UNCHANGED <<plan, sent, bindings, registered, refresh, outside>>
    BY <1>2 DEF WriteItems
  <2>2. i \in Requests
    BY <1>1, <1>4, <2>1 DEF ContextTypeOK
  <2>3. PICK row : Puts(x, row) /\ row.corpora = contexts[x].corpora
    BY <1>4, <2>1, AdvanceIs
  <2>4. \A y \in Contexts : Exists(y) => Exists(y)'
    BY <1>4, <2>1, AdvanceIs
  <2>5. effects' \in [Requests -> Nat] /\ EffectIsPast'
    BY <1>1, <1>2, <1>4, <2>1, <2>3, TakesOnce DEF Writing
  <2>6. PICK n : n = IF Form[r].op = "append" THEN contexts[x].life ELSE items[i].life
    OBVIOUS
  <2>7. n \in Nat
    <3>1. CASE kind = "append"
      BY <1>1, <2>6, <3>1 DEF ContextTypeOK, ContextRows
    <3>2. CASE kind = "supersede"
      <4>1. items[i].context = x
        BY <1>4, <3>2 DEF Belongs
      <4>2. items[i] \in Items
        BY <2>2, <4>1, Null DEF ContextTypeOK, NoItem
      <4> QED
        BY <1>1, <2>6, <3>2, <4>2 DEF Items
    <3> QED
      BY <3>1, <3>2
  <2>8. PICK input, text, ref, links :
           input = Input(r) /\ text = Form[r].text /\ ref = Form[r].ref /\ links = Links(r)
    OBVIOUS
  <2>9. input \in Inputs /\ text \in Texts /\ ref \in Refs
    <3>1. sent[r].target \in Requests \cup {Nothing} /\ sent[r].life \in Nat
      BY <1>1 DEF ContextTypeOK, Readings
    <3> QED
      BY <1>1, <2>8, <3>1 DEF Input, Inputs, Texts, Refs, Writing
  <2>10. /\ links \in SUBSET [record : Keys, meta : Metas]
         /\ \A l \in links : l.record \in Form[r].links
    <3>1. Form[r].links \subseteq Keys
      BY <1>1, ContextAssumption DEF ItemForm
    <3>2. \A k \in Keys : PrunedRecords[k].meta \in Metas
      <4>1. \A k \in Keys : PrunedRecords[k] \in RecordRows \cup {NoRecord}
        BY PrunedIs DEF HistoryTyped, RecordSet
      <4>2. NoRecord.meta \in Metas
        BY ContextAssumption DEF NoRecord, Metas
      <4> QED
        BY <4>1, <4>2 DEF RecordRows
    <3> QED
      BY <2>8, <3>1, <3>2 DEF Links
  <2>11. PICK item : item = [context |-> x, life |-> n, ref |-> ref, made |-> input, text |-> text,
                             links |-> links]
    OBVIOUS
  <2>12. item \in Items /\ item.context = x /\ item.links = links
    BY ONLY <2>7, <2>9, <2>10, <2>11, x \in Contexts DEF Items
  <2>13. items' = [items EXCEPT ![i] = item]
    BY <1>2, <1>4, <2>2, <2>6, <2>8, <2>11 DEF Wrote, ContextTypeOK
  <2>14. \A l \in item.links : linked'[l.record] # NoRecord
    BY <1>4, <2>1, <2>10, <2>12 DEF Current, Declared, Prune
  <2>15. items' \in [Requests -> Items \cup {NoItem}] /\ LinksHold'
    BY <2>1, <2>2, <2>4, <2>12, <2>13, <2>14, LinksPut
  <2> QED
    BY <2>1, <2>3, <2>5, <2>15, ContextStep DEF CorporaTrue
<1> QED
  BY <1>1, <1>2, <1>3, <1>4 DEF WriteItems

LEMMA ReviseItemsStep ==
    ASSUME ContextInv, NEW r \in Requested("revise"), ReviseItems(r) PROVE ContextInv'
<1> USE InvIs
<1>1. r \in Requests /\ Form[r].op = "revise"
  BY Asked
<1>2. PICK x \in Contexts : x = Form[r].context
  BY <1>1, Names DEF NamesForm, OfContext, Writing
<1>3. /\ sent[r].sent /\ Exists(x) /\ Expected(r) /\ Advance(x) /\ Took(r)
      /\ UNCHANGED <<plan, sent, bindings, linked, runs, registered, refresh, outside>>
  BY <1>2 DEF ReviseItems, Exists, history
<1>4. PICK i \in Requests : i = sent[r].target
  BY <1>1, <1>3 DEF ContextTypeOK
<1>5. items[i].context = x /\ items' = [items EXCEPT ![i].text = Form[r].text, ![i].made = Input(r)]
  BY <1>2, <1>4 DEF ReviseItems, Belongs
<1>6. PICK old \in Items : old = items[i]
  BY <1>5, Null DEF ContextTypeOK, NoItem
<1>7. PICK input \in Inputs, text \in Texts : input = Input(r) /\ text = Form[r].text
  <2>1. sent[r].target \in Requests \cup {Nothing} /\ sent[r].life \in Nat
    BY <1>1 DEF ContextTypeOK, Readings
  <2>2. Input(r) \in Inputs
    BY <1>1, <2>1 DEF Input, Inputs
  <2>3. Form[r].text \in Texts
    BY <1>1 DEF Texts, Writing
  <2> QED
    BY <2>2, <2>3
<1>8. PICK item : item = [old EXCEPT !.text = text, !.made = input]
  OBVIOUS
<1>9. item \in Items /\ item.context = old.context /\ item.links = old.links
  BY ONLY <1>8, old \in Items, input \in Inputs, text \in Texts DEF Items
<1>10. items' = [items EXCEPT ![i] = item]
  BY <1>5, <1>6, <1>7, <1>8 DEF ContextTypeOK
<1>11. PICK row : Puts(x, row) /\ row.corpora = contexts[x].corpora
  BY <1>3, AdvanceIs
<1>12. \A y \in Contexts : Exists(y) => Exists(y)'
  BY <1>3, AdvanceIs
<1>13. effects' \in [Requests -> Nat] /\ EffectIsPast'
  BY <1>1, <1>2, <1>3, <1>11, TakesOnce DEF Writing
<1>14. \A l \in item.links : linked'[l.record] # NoRecord
  <2>1. items[i] # NoItem
    BY <1>5, Null DEF NoItem
  <2> QED
    BY <1>3, <1>6, <1>9, <2>1 DEF LinksHold
<1>15. items' \in [Requests -> Items \cup {NoItem}] /\ LinksHold'
  BY <1>3, <1>5, <1>6, <1>9, <1>10, <1>12, <1>14, LinksPut
<1> QED
  BY <1>3, <1>11, <1>13, <1>15, ContextStep DEF CorporaTrue

-----------------------------------------------------------------------------
(* Registrations. *)

LEMMA RegistryStep ==
    ASSUME ContextInv, UNCHANGED <<plan, sent, saved, history, refresh, outside, effects>>,
           catalog' \in [Corpora -> Places \cup {Nothing}],
           \A c \in Corpora : Registered(c) => Registered(c)',
           folders' \in [WorkFolders -> FolderRows \cup {NoFolder}], FoldersHold'
    PROVE  ContextInv'
<1> USE InvIs DEF saved, history, outside
<1>1. ContextTypeOK'
  BY DEF ContextTypeOK
<1>2. LinksHold'
  BY LinksStay DEF Exists
<1>3. CorporaTrue'
  <2>1. /\ \A x \in Contexts : contexts[x].corpora \subseteq Corpora
        /\ \A b \in Bindings : Bound(b) => bindings[b].corpus \in Corpora
    BY RowsAre DEF ContextTypeOK, ContextRows, HistoryTyped, BindingSet, Bound
  <2> QED
    BY <2>1 DEF CorporaTrue, Exists, Bound
<1>4. EffectIsPast'
  BY EffectStays
<1> QED
  BY <1>1, <1>2, <1>3, <1>4, InvBack

LEMMA FolderIs ==
    ASSUME ContextTypeOK, NEW f \in WorkFolders, folders[f] # NoFolder
    PROVE  folders[f] \in FolderRows /\ folders[f].context \in Contexts /\ folders[f].root \in Places
  BY DEF ContextTypeOK, FolderRows

\* A corpus gets a place that is in no part inside a folder or around one.
LEMMA PlaceStep ==
    ASSUME ContextInv, NEW c \in Corpora, NEW p \in Places,
           OutsideFolders(p), catalog' = [catalog EXCEPT ![c] = p],
           UNCHANGED <<plan, sent, saved, history, folders, refresh, outside, effects>>
    PROVE  ContextInv'
<1> USE InvIs
<1>1. catalog \in [Corpora -> Places \cup {Nothing}]
  BY DEF ContextTypeOK
<1>2. /\ catalog' \in [Corpora -> Places \cup {Nothing}] /\ catalog'[c] = p
      /\ \A d \in Corpora \ {c} : catalog'[d] = catalog[d]
  BY <1>1
<1>3. \A d \in Corpora : Registered(d) => Registered(d)'
  BY <1>2, Null DEF Registered
<1>4. FoldersHold'
  <2> SUFFICES ASSUME NEW f \in WorkFolders, folders[f] # NoFolder
               PROVE  /\ Exists(folders[f].context)
                      /\ \A g \in WorkFolders \ {f} : folders[g] # NoFolder =>
                            /\ folders[g].context # folders[f].context
                            /\ ~Overlap(folders[g].root, folders[f].root)
                      /\ \A d \in Corpora : catalog'[d] # Nothing =>
                            ~PartlyOverlap(folders[f].root, catalog'[d])
    BY DEF FoldersHold, Exists, Registered, saved
  <2>1. ~PartlyOverlap(folders[f].root, p)
    BY DEF OutsideFolders, PartlyOverlap
  <2> QED
    BY <1>2, <2>1 DEF FoldersHold, Registered
<1> QED
  BY <1>2, <1>3, <1>4, RegistryStep DEF ContextTypeOK

LEMMA RegisterStep == ASSUME ContextInv, NEW r \in Requested("register"), Register(r) PROVE ContextInv'
<1>1. r \in Requests /\ Form[r].op = "register"
  BY Asked, InvIs
<1>2. Form[r].corpus \in Corpora /\ Form[r].root \in Places
  BY <1>1, Names DEF NamesForm, OfCorpus, OfPlace
<1> QED
  BY <1>2, PlaceStep DEF Register

LEMMA RebindSourceStep ==
    ASSUME ContextInv, NEW r \in Requested("rebind_source"), RebindSource(r) PROVE ContextInv'
<1>1. r \in Requests /\ Form[r].op = "rebind_source"
  BY Asked, InvIs
<1>2. Form[r].corpus \in Corpora /\ Form[r].root \in Places
  BY <1>1, Names DEF NamesForm, OfCorpus, OfPlace
<1> QED
  BY <1>2, PlaceStep DEF RebindSource

\* A folder is connected or moved: to a place apart from the others.
LEMMA FolderRowStep ==
    ASSUME ContextInv, NEW f \in WorkFolders, NEW x \in Contexts, NEW p \in Places, NEW row,
           row = [context |-> x, root |-> p], folders' = [folders EXCEPT ![f] = row],
           Exists(x), SafeSourceOverlap(p, x), Apart(p, f),
           \A g \in WorkFolders \ {f} : folders[g].context # x,
           UNCHANGED <<plan, sent, catalog, saved, history, refresh, outside, effects>>
    PROVE  ContextInv'
<1> USE InvIs
<1>1. folders \in [WorkFolders -> FolderRows \cup {NoFolder}]
  BY DEF ContextTypeOK
<1>2. row \in FolderRows /\ row.context = x /\ row.root = p
  BY DEF FolderRows
<1>3. /\ folders' \in [WorkFolders -> FolderRows \cup {NoFolder}] /\ folders'[f] = row
      /\ \A g \in WorkFolders \ {f} : folders'[g] = folders[g]
  BY <1>1, <1>2
<1>4. FoldersHold'
  <2> SUFFICES ASSUME NEW h \in WorkFolders, folders'[h] # NoFolder
               PROVE  /\ Exists(folders'[h].context)
                      /\ \A g \in WorkFolders \ {h} : folders'[g] # NoFolder =>
                            /\ folders'[g].context # folders'[h].context
                            /\ ~Overlap(folders'[g].root, folders'[h].root)
                      /\ \A c \in Corpora : Registered(c) => ~PartlyOverlap(folders'[h].root, catalog[c])
    BY DEF FoldersHold, Exists, Registered, saved
  <2>1. CASE h = f
    <3>1. /\ folders'[h].context = x /\ folders'[h].root = p
          /\ \A g \in WorkFolders \ {h} : folders'[g] = folders[g]
      BY <1>2, <1>3, <2>1
    <3>2. \A g \in WorkFolders \ {f} : folders[g] # NoFolder => ~Overlap(folders[g].root, p)
      BY DEF Apart, Overlap
    <3>3. \A c \in Corpora : Registered(c) => ~PartlyOverlap(p, catalog[c])
      BY DEF SafeSourceOverlap
    <3> QED
      BY <2>1, <3>1, <3>2, <3>3
  <2>2. CASE h # f
    <3>1. folders'[h] = folders[h] /\ folders[h] # NoFolder
      BY <1>3, <2>2
    <3>2. /\ Exists(folders[h].context)
          /\ \A g \in WorkFolders \ {h} : folders[g] # NoFolder =>
                folders[g].context # folders[h].context /\ ~Overlap(folders[g].root, folders[h].root)
          /\ \A c \in Corpora : Registered(c) => ~PartlyOverlap(folders[h].root, catalog[c])
      BY <3>1 DEF FoldersHold
    <3>3. x # folders[h].context /\ ~Overlap(p, folders[h].root)
      BY <2>2, <3>1 DEF Apart
    <3> QED
      BY <1>2, <1>3, <3>1, <3>2, <3>3
  <2> QED
    BY <2>1, <2>2
<1> QED
  BY <1>3, <1>4, RegistryStep DEF Registered, ContextTypeOK

LEMMA ConnectStep == ASSUME ContextInv, NEW r \in Requested("connect"), Connect(r) PROVE ContextInv'
<1>1. r \in Requests /\ Form[r].op = "connect"
  BY Asked, InvIs
<1>2. Form[r].folder \in WorkFolders /\ Form[r].context \in Contexts /\ Form[r].root \in Places
  BY <1>1, Names DEF NamesForm, OfContext, OfFolder, OfPlace
<1>3. Exists(Form[r].context)
  BY DEF Connect, Exists
<1> QED
  BY <1>2, <1>3, FolderRowStep DEF Connect

LEMMA RebindFolderStep ==
    ASSUME ContextInv, NEW r \in Requested("rebind_folder"), RebindFolder(r) PROVE ContextInv'
<1>1. r \in Requests /\ Form[r].op = "rebind_folder"
  BY Asked, InvIs
<1>2. PICK f \in WorkFolders, p \in Places : f = Form[r].folder /\ p = Form[r].root
  BY <1>1, Names DEF NamesForm, OfFolder, OfPlace
<1>3. folders[f] # NoFolder
  BY <1>2 DEF RebindFolder
<1>4. PICK x \in Contexts : x = folders[f].context
  BY <1>3, FolderIs, InvIs
<1>5. PICK row : row = [context |-> x, root |-> p]
  OBVIOUS
<1>6. /\ Exists(x) /\ SafeSourceOverlap(p, x) /\ Apart(p, f)
      /\ folders' = [folders EXCEPT ![f].root = p]
      /\ UNCHANGED <<plan, sent, catalog, saved, history, refresh, outside, effects>>
  BY <1>2, <1>4 DEF RebindFolder, Exists
<1>7. \A g \in WorkFolders \ {f} : folders[g].context # x
  <2>1. NoFolder.context = Nothing
    BY DEF NoFolder
  <2> QED
    BY <1>3, <1>4, <2>1, InvIs, Null DEF FoldersHold
<1>8. folders' = [folders EXCEPT ![f] = row]
  <2>1. PICK old \in FolderRows : old = folders[f]
    BY <1>3, FolderIs, InvIs
  <2>2. [old EXCEPT !.root = p] = row
    BY ONLY <1>4, <1>5, <2>1, p \in Places, x \in Contexts DEF FolderRows
  <2> QED
    BY <1>6, <2>1, <2>2, InvIs DEF ContextTypeOK
<1> QED
  BY <1>5, <1>6, <1>7, <1>8, FolderRowStep

LEMMA DisconnectStep ==
    ASSUME ContextInv, NEW r \in Requested("disconnect"), Disconnect(r) PROVE ContextInv'
<1> USE InvIs
<1>1. /\ folders' \in [WorkFolders -> FolderRows \cup {NoFolder}]
      /\ \A f \in WorkFolders : folders'[f] \in {folders[f], NoFolder}
      /\ UNCHANGED <<plan, sent, catalog, saved, history, refresh, outside, effects>>
  BY DEF Disconnect, ContextTypeOK
<1>2. FoldersHold'
  BY <1>1 DEF FoldersHold, Exists, Registered, saved
<1> QED
  BY <1>1, <1>2, RegistryStep DEF Registered, ContextTypeOK

\* The rows that are left when the bindings of gone are removed with their runs and records.
Drops(gone, rs, ls, bs, rs2, ls2, bs2) ==
    /\ bs2 = [b \in Bindings |-> IF b \in gone THEN NoBinding ELSE bs[b]]
    /\ rs2 = [q \in RunIds |-> IF rs[q].binding \in gone THEN NoRun ELSE rs[q]]
    /\ ls2 = [k \in Keys |-> IF k[1] \in gone THEN NoRecord ELSE ls[k]]

\* The linked sources of a corpus go with their runs and records.
LEMMA RemoveKeeps ==
    ASSUME NEW rs, NEW ls, NEW bs, NEW gone \in SUBSET Bindings, NEW rs2, NEW ls2, NEW bs2,
           HistoryTyped(rs, ls, bs), HistoryTrue(rs, ls, bs),
           Drops(gone, rs, ls, bs, rs2, ls2, bs2)
    PROVE  HistoryTyped(rs2, ls2, bs2) /\ HistoryTrue(rs2, ls2, bs2)
<1> USE DEF Drops
<1>1. HistoryTyped(rs2, ls2, bs2)
  BY DEF HistoryTyped, RunSet, RecordSet, BindingSet
<1>2. ASSUME NEW q \in RunIds, rs2[q] # NoRun
      PROVE  /\ rs2[q] = rs[q] /\ rs[q] # NoRun /\ rs[q].binding \notin gone /\ rs[q].binding \in Bindings
             /\ rs[q].base \in RunNames
  BY <1>2, RowsAre DEF HistoryTyped, RunSet
<1>3. ASSUME NEW q \in RunIds, rs[q].binding \notin gone PROVE rs2[q] = rs[q]
  BY <1>3
<1>4. ASSUME NEW b \in Bindings, bs2[b] # NoBinding PROVE bs2[b] = bs[b] /\ b \notin gone /\ bs[b].complete \in RunNames
  BY <1>4, RowsAre DEF HistoryTyped, BindingSet, RunNames
<1>5. ASSUME NEW b \in Bindings, b \notin gone PROVE bs2[b] = bs[b]
  BY <1>5
<1>6. ASSUME NEW k \in Keys, ls2[k] # NoRecord
      PROVE  /\ ls2[k] = ls[k] /\ ls[k] # NoRecord /\ k[1] \notin gone /\ k[1] \in Bindings
             /\ ls[k].seen \in RunIds /\ rs[ls[k].seen].binding = k[1] /\ rs2[ls[k].seen] = rs[ls[k].seen]
  <2>1. ls2[k] = ls[k] /\ ls[k] # NoRecord /\ k[1] \notin gone
    BY <1>6
  <2>2. ls[k].seen \in RunIds /\ rs[ls[k].seen].binding = k[1]
    BY <2>1, RowsAre DEF HistoryTyped, RecordSet, HistoryTrue, RecordsTrue
  <2> QED
    BY <1>3, <2>1, <2>2, KeyIs
<1>7. RunsTrue(rs2, bs2)
  <2> SUFFICES ASSUME NEW q \in RunIds, rs2[q] # NoRun
               PROVE  /\ bs2[rs2[q].binding] # NoBinding
                      /\ rs2[q].base # Nothing =>
                            rs2[rs2[q].base] # NoRun /\ rs2[rs2[q].base].binding = rs2[q].binding
    BY DEF RunsTrue
  <2>1. PICK b, p : b = rs[q].binding /\ p = rs[q].base
    OBVIOUS
  <2>2. /\ rs2[q] = rs[q] /\ b \notin gone /\ b \in Bindings /\ p \in RunNames /\ bs[b] # NoBinding
        /\ p # Nothing => rs[p] # NoRun /\ rs[p].binding = b
    BY <1>2, <2>1 DEF HistoryTrue, RunsTrue
  <2> QED
    BY <1>3, <1>5, <2>1, <2>2 DEF RunNames
<1>8. RecordsTrue(rs2, ls2, bs2)
  BY <1>5, <1>6 DEF HistoryTrue, RecordsTrue
<1>9. CompleteTrue(rs2, bs2)
  <2> SUFFICES ASSUME NEW b \in Bindings, bs2[b] # NoBinding, bs2[b].complete # Nothing
               PROVE  rs2[bs2[b].complete].status = "complete" /\ rs2[bs2[b].complete].binding = b
    BY DEF CompleteTrue
  <2>1. PICK p : p = bs[b].complete
    OBVIOUS
  <2>2. p \in RunIds /\ bs2[b].complete = p /\ rs[p].status = "complete" /\ rs[p].binding = b /\ b \notin gone
    BY <1>4, <2>1 DEF RunNames, HistoryTrue, CompleteTrue
  <2> QED
    BY <1>3, <2>2
<1>10. MembersTrue(rs2, ls2, bs2)
  <2> SUFFICES ASSUME NEW k \in Keys
               PROVE  /\ ls2[k].member = "active" =>
                            ls2[k].seen = bs2[k[1]].complete \/ rs2[ls2[k].seen].status = "incomplete"
                      /\ ls2[k].member = "removed" =>
                            ls2[k].seen # bs2[k[1]].complete /\ ~OpenIn(rs2, ls2[k].seen)
    BY DEF MembersTrue
  <2>1. CASE ls2[k] = NoRecord
    BY <2>1, RowsAre
  <2>2. CASE ls2[k] # NoRecord
    BY <1>5, <1>6, <2>2 DEF HistoryTrue, MembersTrue, OpenIn
  <2> QED
    BY <2>1, <2>2
<1>11. ASSUME NEW q \in RunIds, OpenIn(rs2, q) PROVE OpenIn(rs, q) /\ rs2[q] = rs[q] /\ rs2[q] # NoRun
  BY <1>2, <1>11, RowsAre DEF OpenIn
<1>12. OpenTrue(rs2, bs2)
  <2> SUFFICES ASSUME NEW r \in RunIds, OpenIn(rs2, r)
               PROVE  /\ rs2[r].base = bs2[rs2[r].binding].complete
                      /\ \A q \in RunIds \ {r} : OpenIn(rs2, q) => rs2[q].binding # rs2[r].binding
    BY DEF OpenTrue
  <2>1. PICK b : b = rs[r].binding
    OBVIOUS
  <2>2. rs2[r] = rs[r] /\ b \in Bindings /\ bs2[b] = bs[b] /\ OpenIn(rs, r)
    BY <1>2, <1>5, <1>11, <2>1
  <2> QED
    BY <1>11, <2>1, <2>2 DEF HistoryTrue, OpenTrue
<1> QED
  BY <1>1, <1>7, <1>8, <1>9, <1>10, <1>12 DEF HistoryTrue

LEMMA RemoveContextStep ==
    ASSUME ContextInv, NEW c \in Corpora, NEW x \in Contexts, NEW version, Unused(c, x), Removable(c, x, version),
           RemoveContext(c, x),
           catalog' = [catalog EXCEPT ![c] = Nothing] \/ UNCHANGED catalog,
           UNCHANGED <<plan, sent, folders, refresh, outside>>
    PROVE  ContextInv'
<1> USE InvIs DEF outside
<1>1. contexts \in [Contexts -> ContextRows] /\ catalog \in [Corpora -> Places \cup {Nothing}]
  BY DEF ContextTypeOK
<1>2. /\ contexts' \in [Contexts -> ContextRows] /\ contexts'[x].corpora = {}
      /\ \A y \in Contexts \ {x} : contexts'[y] = contexts[y]
  <2>1. PICK n \in Nat : n = contexts[x].life
    BY <1>1 DEF ContextRows
  <2>2. PICK row : row = [NoContext EXCEPT !.life = n]
    OBVIOUS
  <2>3. row \in ContextRows /\ row.corpora = {}
    BY ONLY <2>2, n \in Nat DEF NoContext, ContextRows
  <2>4. contexts' = [contexts EXCEPT ![x] = row]
    BY <2>1, <2>2 DEF RemoveContext
  <2> QED
    BY <1>1, <2>3, <2>4
<1>3. /\ catalog' \in [Corpora -> Places \cup {Nothing}]
      /\ \A d \in Corpora : catalog'[d] \in {catalog[d], Nothing}
      /\ \A d \in Corpora \ {c} : catalog'[d] = catalog[d]
  BY <1>1
<1>4. PICK gone \in SUBSET Bindings : gone = {b \in Bindings : bindings[b].corpus = c}
  OBVIOUS
<1>5. /\ bindings' = [b \in Bindings |-> IF b \in gone THEN NoBinding ELSE bindings[b]]
      /\ runs' = [q \in RunIds |-> IF runs[q].binding \in gone THEN NoRun ELSE runs[q]]
      /\ linked' = [k \in Keys |-> IF k[1] \in gone THEN NoRecord ELSE linked[k]]
      /\ items' = [i \in Requests |-> IF Belongs(i, x) THEN NoItem ELSE items[i]]
      /\ effects' = [r \in Requests |-> IF Form[r].op \in Writing /\ Form[r].context = x THEN 0 ELSE effects[r]]
  BY <1>4 DEF RemoveContext
<1>6. HistoryTyped(runs', linked', bindings') /\ HistoryTrue(runs', linked', bindings')
  <2>1. HistoryTyped(runs, linked, bindings) /\ HistoryTrue(runs, linked, bindings)
    OBVIOUS
  <2>2. PICK rs, ls, bs : rs = runs /\ ls = linked /\ bs = bindings
    OBVIOUS
  <2>3. PICK rs2, ls2, bs2 : rs2 = runs' /\ ls2 = linked' /\ bs2 = bindings'
    OBVIOUS
  <2>4. Drops(gone, rs, ls, bs, rs2, ls2, bs2)
    BY ONLY <1>5, <2>2, <2>3 DEF Drops
  <2>5. HistoryTyped(rs2, ls2, bs2) /\ HistoryTrue(rs2, ls2, bs2)
    BY ONLY <2>1, <2>2, <2>4, gone \in SUBSET Bindings, RemoveKeeps
  <2> QED
    BY ONLY <2>3, <2>5
<1>7. items' \in [Requests -> Items \cup {NoItem}] /\ effects' \in [Requests -> Nat]
  BY <1>5 DEF ContextTypeOK
<1>8. ContextTypeOK'
  BY <1>2, <1>3, <1>6, <1>7 DEF ContextTypeOK, HistoryTyped, RunSet, RecordSet, BindingSet
<1>9. LinksHold'
  <2> SUFFICES ASSUME NEW i \in Requests, items'[i] # NoItem
               PROVE  /\ contexts'[items'[i].context].state # "none"
                      /\ \A l \in items'[i].links : linked'[l.record] # NoRecord
    BY DEF LinksHold, Exists
  <2>1. items'[i] = items[i] /\ items[i] # NoItem /\ items[i].context # x
    BY <1>5 DEF Belongs
  <2>2. items[i] \in Items
    BY <2>1 DEF ContextTypeOK
  <2>3. items[i].context \in Contexts /\ \A l \in items[i].links : l.record \in Keys
    BY <2>2 DEF Items
  <2>4. contexts'[items[i].context].state # "none"
    BY <1>2, <2>1, <2>3 DEF LinksHold, Exists
  <2>5. \A l \in items[i].links : l.record[1] \notin gone /\ linked[l.record] # NoRecord
    BY <1>4, <2>1 DEF Removable, Belongs, LinksHold
  <2> QED
    BY <1>5, <2>1, <2>3, <2>4, <2>5
<1>10. CorporaTrue'
  <2>1. ASSUME NEW y \in Contexts \ {x} PROVE c \notin contexts[y].corpora /\ contexts[y].corpora \subseteq Corpora
    BY <1>1 DEF Removable, LinkedContexts, CorporaTrue, ContextRows
  <2>2. ASSUME NEW b \in Bindings, bindings'[b] # NoBinding
        PROVE  bindings'[b] = bindings[b] /\ bindings[b].corpus # c /\ bindings[b].corpus \in Corpora
    BY <1>4, <1>5, <2>2, RowsAre DEF HistoryTyped, BindingSet
  <2> QED
    BY <1>2, <1>3, <2>1, <2>2 DEF CorporaTrue, Exists, Registered, Bound
<1>11. FoldersHold'
  <2> SUFFICES ASSUME NEW f \in WorkFolders, folders[f] # NoFolder
               PROVE  /\ contexts'[folders[f].context].state # "none"
                      /\ \A g \in WorkFolders \ {f} : folders[g] # NoFolder =>
                            /\ folders[g].context # folders[f].context
                            /\ ~Overlap(folders[g].root, folders[f].root)
                      /\ \A d \in Corpora : catalog'[d] # Nothing =>
                            ~PartlyOverlap(folders[f].root, catalog'[d])
    BY DEF FoldersHold, Exists, Registered
  <2>1. folders[f].context \in Contexts \ {x}
    BY FolderIs DEF Unused
  <2> QED
    BY <1>2, <1>3, <2>1 DEF FoldersHold, Exists, Registered
<1>12. EffectIsPast'
  <2> SUFFICES ASSUME NEW q \in Requests, effects'[q] # 0
               PROVE  /\ effects'[q] = 1 /\ Form[q].op \in Writing
                      /\ contexts'[Form[q].context].state # "none"
                      /\ Form[q].op # "create" =>
                            sent[q].sent /\ sent[q].version < contexts'[Form[q].context].version
    BY DEF EffectIsPast, Exists
  <2>1. effects'[q] = effects[q] /\ effects[q] # 0 /\ Form[q].op \in Writing /\ Form[q].context # x
    BY <1>5 DEF EffectIsPast
  <2>2. Form[q].context \in Contexts
    BY <2>1, Names DEF NamesForm, OfContext
  <2> QED
    BY <1>2, <2>1, <2>2 DEF EffectIsPast, Exists
<1> QED
  BY <1>6, <1>8, <1>9, <1>10, <1>11, <1>12, InvBack

LEMMA UnregisterStep ==
    ASSUME ContextInv, NEW r \in Requested("unregister"), Unregister(r) PROVE ContextInv'
<1> USE InvIs
<1>1. r \in Requests /\ Form[r].op = "unregister"
  BY Asked
<1>2. PICK c \in Corpora, x \in Contexts \cup {Nothing} : c = Form[r].corpus /\ x = Form[r].context
  BY <1>1, Names DEF NamesForm, OfCorpus
<1>3. CASE x # Nothing
  BY <1>2, <1>3, RemoveContextStep DEF Unregister
<1>4. CASE x = Nothing
  <2>1. /\ ~References(c) /\ catalog' = [catalog EXCEPT ![c] = Nothing]
        /\ UNCHANGED <<plan, sent, saved, history, folders, refresh, outside, effects>>
    BY <1>2, <1>4 DEF Unregister
  <2> USE <2>1 DEF saved, history, outside
  <2>2. /\ catalog' \in [Corpora -> Places \cup {Nothing}]
        /\ \A d \in Corpora : catalog'[d] \in {catalog[d], Nothing}
        /\ \A d \in Corpora \ {c} : catalog'[d] = catalog[d]
    BY <2>1 DEF ContextTypeOK
  <2>3. ContextTypeOK'
    BY <2>2 DEF ContextTypeOK
  <2>4. LinksHold' /\ EffectIsPast'
    BY LinksStay, EffectStays DEF Exists
  <2>5. CorporaTrue'
    <3>1. /\ \A y \in Contexts : c \notin contexts[y].corpora /\ contexts[y].corpora \subseteq Corpora
          /\ \A b \in Bindings : Bound(b) => bindings[b].corpus \in Corpora /\ bindings[b].corpus # c
      BY RowsAre DEF References, ContextTypeOK, ContextRows, HistoryTyped, BindingSet, Bound
    <3> QED
      BY <2>2, <3>1 DEF CorporaTrue, Exists, Registered, Bound
  <2>6. FoldersHold'
    BY <2>2 DEF FoldersHold, Exists, Registered
  <2> QED
    BY <2>3, <2>4, <2>5, <2>6, InvBack
<1> QED
  BY <1>3, <1>4

-----------------------------------------------------------------------------
(* The invariant. *)

LEMMA ContextInitInv == ContextInit => ContextInv
<1> SUFFICES ASSUME ContextInit PROVE ContextInv
  OBVIOUS
<1> USE DEF ContextInit
<1>1. NoContext \in ContextRows /\ NotRefreshing \in Refreshes /\ NotRefreshing.pc = "idle"
  BY Unread DEF NoContext, ContextRows, NotRefreshing, Refreshes
<1>2. ~Unsent.sent /\ Unsent \in Readings
  BY Unread DEF Unsent
<1>3. ContextTypeOK
  <2>1. plan \subseteq Requests
    BY ContextAssumption
  <2>2. source \in [Externals -> [meta : Metas, aged : BOOLEAN]] /\ edited \in 1..MaxOutside
    BY ContextAssumption DEF Metas
  <2>3. stale \subseteq Units /\ effects \in [Requests -> Nat]
    OBVIOUS
  <2>4. refresh \in [RunIds -> Refreshes] /\ sent \in [Requests -> Readings]
    BY <1>1, <1>2
  <2>5. contexts \in [Contexts -> ContextRows]
    BY <1>1
  <2>6. \A r \in RunIds : refresh[r].pc = "idle"
    BY <1>1
  <2>7. \A r \in Requests : ~sent[r].sent
    BY <1>2
  <2> QED
    BY <2>1, <2>2, <2>3, <2>4, <2>5, <2>6, <2>7 DEF ContextTypeOK
<1>4. ReferencesHold
  BY DEF ReferencesHold, RunsHold, RecordsHold, LinksHold, CorporaHold, FoldersHold, Bound, NoContext
<1>5. MembersWereSeen /\ RemovedIsPast
  BY KeyIs, RowsAre DEF MembersWereSeen, RemovedIsPast, Open
<1>6. OneBinding
  BY DEF OneBinding, NoContext, Bound
<1>7. EffectIsPast
  BY DEF EffectIsPast
<1> QED
  BY <1>3, <1>4, <1>5, <1>6, <1>7 DEF ContextInv

LEMMA ContextStutter == ContextInv /\ UNCHANGED contextVars => ContextInv'
<1> SUFFICES ASSUME ContextInv, UNCHANGED contextVars PROVE ContextInv'
  OBVIOUS
<1> USE InvIs DEF contextVars
<1>1. ContextTypeOK' /\ CorporaTrue' /\ FoldersHold' /\ EffectIsPast'
  BY CorporaStay, FoldersStay, EffectStays DEF ContextTypeOK, Exists, Same
<1>2. LinksHold'
  BY LinksStay DEF Exists
<1> QED
  BY <1>1, <1>2, InvBack

\* Every reference is to a row that is there, membership is what the runs saw, and
\* what took effect is past: for any corpora, contexts, sources, requests and folders.
THEOREM ContextInvariant == ContextSpec => []ContextInv
<1>1. ContextInv /\ [ContextNext]_contextVars => ContextInv'
  BY SendVersionStep, SendTargetStep, SendPageStep, BindStep, ObservePageStep, BeginRefreshStep,
     DiscoverStep, RenormaliseStep, RefreshPageStep, CreateStep, WriteItemsStep, ReviseItemsStep,
     ArchiveStep, RegisterStep, RebindSourceStep, ConnectStep, RebindFolderStep, DisconnectStep,
     UnregisterStep, OutsideStep, ContextStutter DEF ContextNext
<1> QED
  BY <1>1, ContextInitInv, PTL DEF ContextSpec

\* Every variable of the local registrations and contexts keeps its type.
THEOREM ContextTypeCorrect == ContextSpec => []ContextTypeOK
<1>1. ContextInv => ContextTypeOK
  BY DEF ContextInv
<1> QED
  BY <1>1, ContextInvariant, PTL

\* No row of the three databases refers to a row that is gone.
THEOREM ReferencesAlwaysHold == ContextSpec => []ReferencesHold
<1>1. ContextInv => ReferencesHold
  BY DEF ContextInv
<1> QED
  BY <1>1, ContextInvariant, PTL

\* A linked record is a member when a run that counts saw it.
THEOREM MembersSeen == ContextSpec => []MembersWereSeen
<1>1. ContextInv => MembersWereSeen
  BY DEF ContextInv
<1> QED
  BY <1>1, ContextInvariant, PTL

\* A request changes a context that exists once at most.
THEOREM EffectOnce == ContextSpec => []TakesEffectOnce
<1>1. ContextInv => TakesEffectOnce
  BY DEF ContextInv, ContextTypeOK, EffectIsPast, TakesEffectOnce
<1> QED
  BY <1>1, ContextInvariant, PTL
=============================================================================
