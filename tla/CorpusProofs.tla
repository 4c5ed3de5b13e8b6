---------------------------- MODULE CorpusProofs ----------------------------
(***************************************************************************)
(* The proofs of the two halves of the remote Corpus, for any Spaces,      *)
(* things, records, writers and bounds.                                    *)
(*                                                                         *)
(* TrashGroups: what the Corpus keeps refers to nothing that a purge has   *)
(* deleted, and only a purge that has begun deletes.  The inductive        *)
(* invariant is TrashInv: groups, marks, Spaces and requests tell the same *)
(* story, and what a claim was checked for (nothing outside the group      *)
(* needs it, no earlier group of its Space waits) stays so (PurgesTell).   *)
(* Its data half (DataTyped, DataTells) is about the rows, its request     *)
(* half (CallsTyped, RequestsTell) is carried over by Goes: what a request *)
(* has read of a group is never taken back.                                *)
(*                                                                         *)
(* ShardPins: the references of every Corpus document are readable.  The   *)
(* inductive invariant is PinInv.  It carries readability from the         *)
(* reservation (Pinned) over the batch (a batch in progress cites only     *)
(* what its writer has pinned, a batch of unknown outcome only what is     *)
(* kept) to the document (Cited); and while maintenance decides, everything*)
(* cited is held, although its view of D1 (seen) may be old.  RecordInv    *)
(* adds that a record names only records that are there.                   *)
(***************************************************************************)
EXTENDS TrashGroups, ShardPins, SequenceTheorems, FiniteSetTheorems, TLAPS

-----------------------------------------------------------------------------
(* Deletion groups of the Corpus: rows, and how groups go on. *)

DataTyped ==
    /\ space \in [Spaces -> SpaceRows] /\ thing \in [Things -> ThingRows]
    /\ group \in [Groups -> GroupRows]

CallsTyped ==
    /\ updated \in [Groups -> Nat] /\ receipt \in [Keys -> Receipts]
    /\ proc \in [Procs -> RequestRows]
    /\ edits \in 0 .. MaxEdits /\ crashes \in 0 .. MaxCrashes

DataTells == GroupsTell /\ ThingsTell /\ SpacesTell /\ PurgesTell /\ NothingDangles

LEMMA TrashIs ==
    ASSUME TrashInv
    PROVE  DataTyped /\ CallsTyped /\ DataTells /\ RequestsTell
  BY DEF TrashInv, TrashTypeOK, DataTyped, CallsTyped, DataTells

LEMMA TrashBack ==
    ASSUME DataTyped', CallsTyped', DataTells', RequestsTell'
    PROVE  TrashInv'
  BY DEF TrashInv, TrashTypeOK, DataTyped, CallsTyped, DataTells

LEMMA NoIds ==
    /\ NoGroup = 0 /\ NoGroup \notin Groups /\ Groups \subseteq Nat /\ 0 .. MaxGroups = Groups \cup {NoGroup}
    /\ NoRoot \notin Spaces /\ NoRoot \notin Things
    /\ \A s \in Spaces : s \notin Things
  BY TrashAssumption DEF NoGroup, Groups

LEMMA ThingIs ==
    ASSUME DataTyped, NEW t \in Things
    PROVE  /\ thing[t] \in ThingRows
           /\ thing[t].row \in BOOLEAN /\ thing[t].space \in Spaces /\ thing[t].version \in Nat
           /\ thing[t].group \in Groups \cup {NoGroup} /\ thing[t].cites \in SUBSET Spaces
<1>1. thing[t] \in ThingRows
  BY DEF DataTyped
<1> QED
  BY ONLY <1>1, NoIds DEF ThingRows

LEMMA SpaceIs ==
    ASSUME DataTyped, NEW s \in Spaces
    PROVE  /\ space[s] \in SpaceRows
           /\ space[s].row \in BOOLEAN /\ space[s].version \in Nat
           /\ space[s].state \in {"active", "archived"}
           /\ space[s].group \in Groups \cup {NoGroup} /\ space[s].attached \in BOOLEAN
           /\ ParentOf(s) \in Parents
<1>1. space[s] \in SpaceRows
  BY DEF DataTyped
<1>2. /\ space[s].row \in BOOLEAN /\ space[s].version \in Nat
      /\ space[s].state \in {"active", "archived"}
      /\ space[s].group \in Groups \cup {NoGroup} /\ space[s].attached \in BOOLEAN
  BY ONLY <1>1, NoIds DEF SpaceRows
<1> QED
  BY <1>1, <1>2, NoIds DEF ParentOf, Parents

LEMMA GroupIs ==
    ASSUME DataTyped, NEW g \in Groups
    PROVE  /\ group[g] \in GroupRows
           /\ group[g].state \in States /\ group[g].version \in Nat /\ group[g].root \in Roots
           /\ group[g].space \in Spaces \cup {NoRoot} /\ group[g].members \in SUBSET Things
           /\ group[g].due \in BOOLEAN
<1>1. group[g] \in GroupRows
  BY DEF DataTyped
<1> QED
  BY ONLY <1>1 DEF GroupRows

LEMMA RequestIs ==
    ASSUME CallsTyped, NEW p \in Procs
    PROVE  /\ proc[p] \in RequestRows
           /\ proc[p].at \in Steps /\ proc[p].key \in Keys \cup {NoKey}
           /\ proc[p].group \in Groups \cup {NoGroup} /\ proc[p].root \in Roots
           /\ proc[p].members \in SUBSET Things /\ proc[p].version \in Nat
           /\ proc[p].parent \in Parents /\ proc[p].todo \in Seq(Groups)
<1>1. proc[p] \in RequestRows
  BY DEF CallsTyped
<1> QED
  BY ONLY <1>1, NoIds DEF RequestRows

\* The states of groups, by what their names say.
LEMMA StatesAre ==
    /\ Waiting = {"trashed", "blocked"} /\ Unresolved = {"trashed", "blocked", "purging"}
    /\ States = {"trashed", "blocked", "purging", "purged", "restored", "absent"}
  BY DEF Waiting, Unresolved, States

\* A group that exists keeps its root and its Space; one that is being purged
\* stays so or is purged, and loses members only.
Goes(old, new) ==
    \A g \in Groups : old[g].state # "absent" =>
        /\ new[g].state # "absent" /\ new[g].root = old[g].root
        /\ old[g].state \in {"purging", "purged"} =>
              new[g].state \in {"purging", "purged"} /\ new[g].members \subseteq old[g].members

LEMMA ToldStays ==
    ASSUME NEW r, NEW old, NEW new, Told(r, old), Goes(old, new), r.at \in Steps
    PROVE  Told(r, new)
<1>1. CASE r.at \in Steps \ {"idle", "trash", "skill"}
  BY <1>1 DEF Told, Goes, Steps
<1>2. CASE r.at \in {"idle", "trash", "skill"}
  BY <1>2 DEF Told, Steps
<1> QED
  BY <1>1, <1>2

LEMMA ReceiptsStay ==
    ASSUME RequestsTell, Goes(group, group'), UNCHANGED receipt
    PROVE  Answered(receipt', group')
  BY DEF RequestsTell, Answered, Goes

\* One request goes on, and the others know what they knew.
LEMMA RequestGoes ==
    ASSUME CallsTyped, RequestsTell, Goes(group, group'), NEW p \in Procs, NEW r \in RequestRows,
           proc' = [proc EXCEPT ![p] = r], Told(r, group'),
           p \in Workers \/ r.at \notin {"trash", "restore", "skill"},
           updated' \in [Groups -> Nat], receipt' \in [Keys -> Receipts],
           Answered(receipt', group'),
           edits' \in 0 .. MaxEdits, crashes' \in 0 .. MaxCrashes
    PROVE  CallsTyped' /\ RequestsTell'
<1>1. proc \in [Procs -> RequestRows] /\ proc' \in [Procs -> RequestRows]
  BY DEF CallsTyped
<1>2. ASSUME NEW q \in Procs PROVE Told(proc'[q], group')
  <2>1. CASE q = p
    BY <1>1, <2>1
  <2>2. CASE q # p
    <3>1. proc'[q] = proc[q] /\ Told(proc[q], group) /\ proc[q].at \in Steps
      BY <1>1, <2>2, RequestIs DEF RequestsTell
    <3> QED
      BY <3>1, ToldStays
  <2> QED
    BY <2>1, <2>2
<1>3. proc'[Sweep].at \notin {"trash", "restore", "skill"}
  BY <1>1, TrashAssumption DEF Procs, RequestsTell
<1> QED
  BY <1>1, <1>2, <1>3 DEF CallsTyped, RequestsTell

\* No request goes on.
LEMMA RequestsStay ==
    ASSUME CallsTyped, RequestsTell, Goes(group, group'), UNCHANGED proc,
           updated' \in [Groups -> Nat], receipt' \in [Keys -> Receipts],
           Answered(receipt', group'),
           edits' \in 0 .. MaxEdits, crashes' \in 0 .. MaxCrashes
    PROVE  CallsTyped' /\ RequestsTell'
<1>1. ASSUME NEW q \in Procs PROVE Told(proc'[q], group')
  BY RequestIs, ToldStays DEF RequestsTell
<1> QED
  BY <1>1 DEF CallsTyped, RequestsTell

LEMMA SameGroups == ASSUME UNCHANGED group PROVE Goes(group, group')
  BY DEF Goes

LEMMA SameData ==
    ASSUME DataTyped, DataTells, UNCHANGED <<space, thing, group>> PROVE DataTyped' /\ DataTells'
  BY DEF DataTyped, DataTells, GroupsTell, ThingsTell, SpacesTell, PurgesTell, NothingDangles,
         TrashedSpaceIsClosed, InSpace, Live, Unmarked

-----------------------------------------------------------------------------
(* Requests that only read. *)

LEMMA Rested ==
    ASSUME NEW todo \in Seq(Groups), NEW groups
    PROVE  /\ Resting \in RequestRows /\ Resting.at = "idle"
           /\ [Resting EXCEPT !.todo = todo] \in RequestRows
           /\ [Resting EXCEPT !.todo = todo].at = "idle"
           /\ Told(Resting, groups) /\ Told([Resting EXCEPT !.todo = todo], groups)
<1>1. PICK zero \in [Things -> Nat] : zero = [t \in Things |-> 0]
  OBVIOUS
<1>2. PICK parent \in Parents : parent = [version |-> 0, state |-> "active", group |-> NoGroup]
  BY NoIds DEF Parents
<1>3. PICK none \in Seq(Groups) : none = << >>
  BY EmptySeq
<1>4. Resting = [at |-> "idle", key |-> NoKey, group |-> NoGroup, root |-> NoRoot, members |-> {},
                 versions |-> zero, version |-> 0, parent |-> parent, todo |-> none]
  BY ONLY <1>1, <1>2, <1>3 DEF Resting
<1>5. Resting \in RequestRows
  BY ONLY <1>1, <1>2, <1>3, <1>4, NoIds DEF RequestRows, Steps, Roots
<1>6. [Resting EXCEPT !.todo = todo] \in RequestRows /\ [Resting EXCEPT !.todo = todo].at = "idle"
  BY ONLY <1>1, <1>2, <1>4, todo \in Seq(Groups), NoIds DEF RequestRows, Steps, Roots
<1>7. Resting.at = "idle"
  BY ONLY <1>4
<1> QED
  BY <1>5, <1>6, <1>7 DEF Told, Steps

LEMMA EndedGoes ==
    ASSUME CallsTyped, RequestsTell, Goes(group, group'), NEW p \in Procs, proc' = Ended(p),
           updated' \in [Groups -> Nat], receipt' \in [Keys -> Receipts],
           Answered(receipt', group'),
           edits' \in 0 .. MaxEdits, crashes' \in 0 .. MaxCrashes
    PROVE  CallsTyped' /\ RequestsTell'
<1>1. PICK todo \in Seq(Groups) : todo = proc[p].todo
  BY RequestIs
<1>2. PICK r \in RequestRows : r = [Resting EXCEPT !.todo = todo] /\ Told(r, group') /\ r.at = "idle"
  BY Rested
<1>3. proc' = [proc EXCEPT ![p] = r]
  BY <1>1, <1>2 DEF Ended
<1> QED
  BY <1>2, <1>3, RequestGoes

LEMMA StoredIs == Stored \in Nat
<1>1. IsFiniteSet(Groups)
  BY TrashAssumption, FS_Interval DEF Groups
<1>2. IsFiniteSet({g \in Groups : updated[g] # 0})
  BY ONLY <1>1, FS_Subset, {g \in Groups : updated[g] # 0} \subseteq Groups
<1> QED
  BY <1>2, FS_CardinalityType DEF Stored

LEMMA TouchedTyped == ASSUME CallsTyped, NEW g \in Groups PROVE Touched(g) \in [Groups -> Nat]
  BY StoredIs DEF Touched, CallsTyped

LEMMA RequestReads ==
    ASSUME TrashInv, NEW p \in Procs, NEW r \in RequestRows, proc' = [proc EXCEPT ![p] = r],
           Told(r, group), p \in Workers \/ r.at \notin {"trash", "restore", "skill"},
           updated' \in [Groups -> Nat],
           UNCHANGED <<space, thing, group, receipt, edits, crashes>>
    PROVE  TrashInv'
<1>1. Goes(group, group') /\ Told(r, group') /\ DataTyped' /\ DataTells'
  BY SameGroups, SameData, TrashIs
<1>2. receipt' \in [Keys -> Receipts] /\ edits' \in 0 .. MaxEdits /\ crashes' \in 0 .. MaxCrashes
  BY TrashIs DEF CallsTyped
<1>3. CallsTyped' /\ RequestsTell'
  BY <1>1, <1>2, TrashIs, ReceiptsStay, RequestGoes
<1> QED
  BY <1>1, <1>3, TrashBack

LEMMA RequestEnds ==
    ASSUME TrashInv, NEW p \in Procs, proc' = Ended(p), updated' \in [Groups -> Nat],
           UNCHANGED <<space, thing, group, receipt, edits, crashes>>
    PROVE  TrashInv'
<1>1. Goes(group, group') /\ DataTyped' /\ DataTells'
  BY SameGroups, SameData, TrashIs
<1>2. receipt' \in [Keys -> Receipts] /\ edits' \in 0 .. MaxEdits /\ crashes' \in 0 .. MaxCrashes
  BY TrashIs DEF CallsTyped
<1>3. CallsTyped' /\ RequestsTell'
  BY <1>1, <1>2, TrashIs, ReceiptsStay, EndedGoes
<1> QED
  BY <1>1, <1>3, TrashBack

LEMMA TrashReadStep ==
    ASSUME TrashInv, NEW p \in Workers, NEW k \in Keys, NEW root \in Spaces \cup Things,
           TrashRead(p, k, root)
    PROVE  TrashInv'
<1> USE TrashIs
<1>1. p \in Procs /\ updated' \in [Groups -> Nat]
  BY DEF Procs, TrashRead, CallsTyped
<1>2. PICK s \in Spaces : s = IF root \in Spaces THEN root ELSE thing[root].space
  BY ThingIs
<1>3. space[s].group = NoGroup
  BY <1>2 DEF TrashRead, Open
<1>4. PICK parent \in Parents : parent = ParentOf(s) /\ parent.group = NoGroup
  BY <1>3, SpaceIs DEF ParentOf
<1>5. PICK members \in SUBSET Things : members = MembersOf(root)
  BY DEF MembersOf, InSpace
<1>6. root \in Things => members = {root}
  BY <1>5, NoIds DEF MembersOf
<1>7. PICK versions \in [Things -> Nat] : versions = [t \in Things |-> thing[t].version]
  BY ThingIs
<1>8. PICK old \in RequestRows : old = proc[p]
  BY <1>1, RequestIs
<1>9. PICK r : r = [old EXCEPT !.at = "trash", !.key = k, !.root = root, !.members = members,
                               !.versions = versions, !.parent = parent]
  OBVIOUS
<1>10. /\ r \in RequestRows /\ r.at = "trash" /\ r.root = root /\ r.members = members
       /\ r.parent = parent
  BY ONLY <1>9, old \in RequestRows, k \in Keys, root \in Spaces \cup Things,
          members \in SUBSET Things, versions \in [Things -> Nat], parent \in Parents
     DEF RequestRows, Steps, Roots
<1>13. members \cap Inactive = {}
  BY <1>5, NoIds DEF MembersOf, Live, TrashRead
<1>11. Told(r, group)
  BY ONLY <1>4, <1>6, <1>10, <1>13, root \in Spaces \cup Things DEF Told, Steps
<1>12. proc' = [proc EXCEPT ![p] = r]
  BY <1>2, <1>4, <1>5, <1>7, <1>8, <1>9 DEF TrashRead
<1> QED
  BY <1>1, <1>10, <1>11, <1>12, RequestReads DEF TrashRead

LEMMA RestoreReadStep ==
    ASSUME TrashInv, NEW p \in Workers, NEW k \in Keys, NEW g \in Groups, RestoreRead(p, k, g)
    PROVE  TrashInv'
<1> USE TrashIs
<1>1. p \in Procs /\ updated' \in [Groups -> Nat]
  BY DEF Procs, RestoreRead, CallsTyped
<1>2. group[g].state # "absent" /\ group[g].space \in Spaces
  BY StatesAre DEF RestoreRead, DataTells, GroupsTell
<1>3. PICK parent \in Parents : parent = ParentOf(group[g].space)
  BY <1>2, SpaceIs
<1>4. group[g].root \notin Spaces => parent.group = NoGroup
  BY <1>3 DEF RestoreRead, Open, ParentOf
<1>5. PICK members \in SUBSET Things : members = group[g].members
  BY GroupIs
<1>6. PICK version \in Nat : version = group[g].version
  BY GroupIs
<1>7. PICK old \in RequestRows : old = proc[p]
  BY <1>1, RequestIs
<1>8. PICK r : r = [old EXCEPT !.at = "restore", !.key = k, !.group = g, !.members = members,
                               !.version = version, !.parent = parent]
  OBVIOUS
<1>9. r \in RequestRows /\ r.at = "restore" /\ r.group = g /\ r.parent = parent
  BY ONLY <1>8, old \in RequestRows, k \in Keys, g \in Groups, NoIds,
          members \in SUBSET Things, version \in Nat, parent \in Parents
     DEF RequestRows, Steps
<1>10. Told(r, group)
  BY ONLY <1>2, <1>4, <1>9, g \in Groups DEF Told, Steps
<1>11. proc' = [proc EXCEPT ![p] = r]
  BY <1>3, <1>5, <1>6, <1>7, <1>8 DEF RestoreRead
<1> QED
  BY <1>1, <1>9, <1>10, <1>11, RequestReads DEF RestoreRead

\* A request that starts a batch, or repeats one.
LEMMA AtBatch ==
    ASSUME NEW old \in RequestRows, NEW g \in Groups, NEW groups, groups[g].state # "absent",
           NEW r, r = [old EXCEPT !.at = "batch", !.group = g]
    PROVE  r \in RequestRows /\ Told(r, groups) /\ r.at = "batch"
<1>1. r \in RequestRows /\ r.at = "batch" /\ r.group = g
  BY ONLY old \in RequestRows, g \in Groups, r = [old EXCEPT !.at = "batch", !.group = g], NoIds
     DEF RequestRows, Steps
<1> QED
  BY <1>1 DEF Told, Steps

LEMMA PurgeAgainStep ==
    ASSUME TrashInv, NEW p \in Workers, NEW k \in Keys, PurgeAgain(p, k)
    PROVE  TrashInv'
<1> USE TrashIs
<1>1. p \in Procs /\ updated' \in [Groups -> Nat]
  BY DEF Procs, PurgeAgain, CallsTyped
<1>2. PICK g \in Groups : g = receipt[k].group /\ group[g].state # "absent"
  BY DEF PurgeAgain, RequestsTell, Answered
<1>3. PICK old \in RequestRows : old = proc[p]
  BY <1>1, RequestIs
<1>4. PICK r : r = [old EXCEPT !.at = "batch", !.group = g]
  OBVIOUS
<1>5. r \in RequestRows /\ Told(r, group)
  BY <1>2, <1>4, AtBatch
<1>6. proc' = [proc EXCEPT ![p] = r]
  BY <1>2, <1>3, <1>4 DEF PurgeAgain
<1> QED
  BY <1>1, <1>5, <1>6, RequestReads DEF PurgeAgain

LEMMA ReceiptOf ==
    ASSUME NEW op \in {"trash", "restore", "purge"}, NEW g \in Groups, NEW state \in States
    PROVE  /\ [op |-> op, group |-> g, state |-> state] \in Receipts
           /\ [op |-> op, group |-> g, state |-> state].group = g
<1>1. g \in 0 .. MaxGroups
  BY NoIds
<1> QED
  BY <1>1 DEF Receipts

LEMMA PurgeReceipt ==
    ASSUME CallsTyped, RequestsTell, NEW k, NEW g \in Groups, NEW groups, Goes(group, groups),
           groups[g].state # "absent", NEW row \in Receipts, row.group = g,
           NEW receipts, receipts = [receipt EXCEPT ![k] = row]
    PROVE  /\ receipts \in [Keys -> Receipts]
           /\ Answered(receipts, groups)
<1>2. receipt \in [Keys -> Receipts]
  BY DEF CallsTyped
<1>3. receipts \in [Keys -> Receipts]
  BY <1>2
<1>4. ASSUME NEW i \in Keys, receipts[i].op = "purge"
      PROVE  receipts[i].group \in Groups /\ groups[receipts[i].group].state # "absent"
  <2>1. CASE receipts[i] = row
    BY <2>1
  <2>2. CASE receipts[i] = receipt[i]
    BY <1>4, <2>2 DEF RequestsTell, Answered, Goes
  <2> QED
    BY <1>2, <2>1, <2>2
<1> QED
  BY <1>3, <1>4 DEF Answered

LEMMA PurgeJoinStep ==
    ASSUME TrashInv, NEW p \in Workers, NEW k \in Keys, NEW g \in Groups, PurgeJoin(p, k, g)
    PROVE  TrashInv'
<1> USE TrashIs
<1>1. /\ p \in Procs /\ updated' \in [Groups -> Nat] /\ edits' \in 0 .. MaxEdits
      /\ crashes' \in 0 .. MaxCrashes
  BY DEF Procs, PurgeJoin, CallsTyped
<1>2. group[g].state # "absent" /\ Goes(group, group') /\ DataTyped' /\ DataTells' /\ group' = group
  BY SameGroups, SameData DEF PurgeJoin
<1>3. PICK old \in RequestRows : old = proc[p]
  BY <1>1, RequestIs
<1>4. PICK r : r = [old EXCEPT !.at = "batch", !.group = g]
  OBVIOUS
<1>5. r \in RequestRows /\ Told(r, group')
  BY <1>2, <1>4, AtBatch
<1>6. proc' = [proc EXCEPT ![p] = r]
  BY <1>3, <1>4 DEF PurgeJoin
<1>7. /\ receipt' \in [Keys -> Receipts]
      /\ Answered(receipt', group')
  <2>1. PICK row \in Receipts : row = [op |-> "purge", group |-> g, state |-> "purging"] /\ row.group = g
    BY ReceiptOf, StatesAre
  <2>2. receipt' = [receipt EXCEPT ![k] = row]
    BY <2>1 DEF PurgeJoin
  <2>3. PICK receipts, groups : receipts = receipt' /\ groups = group'
    OBVIOUS
  <2>4. receipts = [receipt EXCEPT ![k] = row] /\ Goes(group, groups) /\ groups[g].state # "absent"
    BY <1>2, <2>2, <2>3
  <2>5. /\ receipts \in [Keys -> Receipts]
        /\ Answered(receipts, groups)
    BY ONLY CallsTyped, RequestsTell, <2>1, <2>4, g \in Groups, row \in Receipts, PurgeReceipt
  <2> QED
    BY <2>3, <2>5
<1> QED
  BY <1>1, <1>2, <1>5, <1>6, <1>7, RequestGoes, TrashBack

LEMMA PurgeReadStep ==
    ASSUME TrashInv, NEW p \in Workers, NEW k \in Keys, NEW g \in Groups, PurgeRead(p, k, g)
    PROVE  TrashInv'
<1> USE TrashIs
<1>1. p \in Procs /\ updated' \in [Groups -> Nat]
  BY DEF Procs, PurgeRead, CallsTyped
<1>2. group[g].state # "absent"
  BY StatesAre DEF PurgeRead
<1>3. PICK version \in Nat : version = group[g].version
  BY GroupIs
<1>4. PICK old \in RequestRows : old = proc[p]
  BY <1>1, RequestIs
<1>5. PICK r : r = [old EXCEPT !.at = "blockers", !.key = k, !.group = g, !.version = version]
  OBVIOUS
<1>6. r \in RequestRows /\ r.at = "blockers" /\ r.group = g
  BY ONLY <1>5, old \in RequestRows, k \in Keys, g \in Groups, NoIds, version \in Nat
     DEF RequestRows, Steps
<1>7. Told(r, group)
  BY ONLY <1>2, <1>6, g \in Groups DEF Told, Steps
<1>8. proc' = [proc EXCEPT ![p] = r]
  BY <1>3, <1>4, <1>5 DEF PurgeRead
<1> QED
  BY <1>1, <1>6, <1>7, <1>8, RequestReads DEF PurgeRead

LEMMA PurgeUnblockedStep ==
    ASSUME TrashInv, NEW p \in Procs, PurgeUnblocked(p) PROVE TrashInv'
<1> USE TrashIs
<1>1. updated' \in [Groups -> Nat]
  BY DEF PurgeUnblocked, CallsTyped
<1>2. PICK g \in Groups : g = proc[p].group /\ group[g].state # "absent"
  BY DEF PurgeUnblocked, RequestsTell, Told, Steps
<1>3. group[g].space \in Spaces
  BY <1>2 DEF DataTells, GroupsTell
<1>4. PICK parent \in Parents : parent = ParentOf(group[g].space)
  BY <1>3, SpaceIs
<1>5. PICK members \in SUBSET Things : members = group[g].members
  BY GroupIs
<1>6. PICK old \in RequestRows : old = proc[p]
  BY RequestIs
<1>7. PICK r : r = [old EXCEPT !.at = "claim", !.members = members, !.parent = parent]
  OBVIOUS
<1>8. r \in RequestRows /\ r.at = "claim" /\ r.group = old.group
  BY ONLY <1>7, old \in RequestRows, members \in SUBSET Things, parent \in Parents
     DEF RequestRows, Steps
<1>9. Told(r, group)
  BY ONLY <1>2, <1>6, <1>8 DEF Told, Steps
<1>10. proc' = [proc EXCEPT ![p] = r]
  BY <1>2, <1>4, <1>5, <1>6, <1>7 DEF PurgeUnblocked
<1> QED
  BY <1>1, <1>8, <1>9, <1>10, RequestReads DEF PurgeUnblocked

LEMMA BatchReadStep ==
    ASSUME TrashInv, NEW p \in Procs, BatchRead(p) PROVE TrashInv'
<1> USE TrashIs
<1>1. PICK g \in Groups : g = proc[p].group /\ group[g].state # "absent"
  BY DEF BatchRead, RequestsTell, Told, Steps
<1>2. updated' \in [Groups -> Nat]
  BY <1>1, TouchedTyped DEF BatchRead
<1>3. PICK batch \in SUBSET Things :
         proc' = [proc EXCEPT ![p] = [@ EXCEPT !.at = "delete", !.members = batch]]
  BY <1>1, GroupIs DEF BatchRead
<1>4. PICK old \in RequestRows : old = proc[p]
  BY RequestIs
<1>5. PICK r : r = [old EXCEPT !.at = "delete", !.members = batch]
  OBVIOUS
<1>6. r \in RequestRows /\ r.at = "delete" /\ r.group = old.group
  BY ONLY <1>5, old \in RequestRows, batch \in SUBSET Things DEF RequestRows, Steps
<1>7. Told(r, group)
  BY ONLY <1>1, <1>4, <1>6 DEF Told, Steps
<1>8. proc' = [proc EXCEPT ![p] = r]
  BY <1>3, <1>4, <1>5
<1> QED
  BY <1>2, <1>6, <1>7, <1>8, RequestReads DEF BatchRead

LEMMA BatchCountStep ==
    ASSUME TrashInv, NEW p \in Procs, BatchCount(p) PROVE TrashInv'
<1> USE TrashIs
<1>1. updated' \in [Groups -> Nat]
  BY DEF BatchCount, CallsTyped
<1>2. CASE proc' = Ended(p)
  BY <1>1, <1>2, RequestEnds DEF BatchCount
<1>3. CASE group[proc[p].group].members = {} /\ proc' = [proc EXCEPT ![p].at = "final"]
  <2>1. PICK old \in RequestRows : old = proc[p]
    BY RequestIs
  <2>2. /\ old.group \in Groups /\ group[old.group].state \in {"purging", "purged"}
        /\ group[old.group].members = {}
    BY <1>3, <2>1 DEF BatchCount, RequestsTell, Told, Steps
  <2>3. PICK r : r = [old EXCEPT !.at = "final"]
    OBVIOUS
  <2>4. r \in RequestRows /\ r.at = "final" /\ r.group = old.group
    BY ONLY <2>3, old \in RequestRows DEF RequestRows, Steps
  <2>5. Told(r, group)
    BY ONLY <2>2, <2>4 DEF Told, Steps
  <2>6. proc' = [proc EXCEPT ![p] = r]
    BY <1>3, <2>1, <2>3
  <2> QED
    BY <1>1, <2>4, <2>5, <2>6, RequestReads DEF BatchCount
<1> QED
  BY <1>2, <1>3 DEF BatchCount

LEMMA SkillReadStep ==
    ASSUME TrashInv, NEW p \in Workers, NEW t \in Things, SkillRead(p, t) PROVE TrashInv'
<1> USE TrashIs
<1>1. p \in Procs /\ updated' \in [Groups -> Nat]
  BY DEF Procs, SkillRead, CallsTyped
<1>2. PICK version \in Nat : version = thing[t].version
  BY ThingIs
<1>3. PICK old \in RequestRows : old = proc[p]
  BY <1>1, RequestIs
<1>4. PICK r : r = [old EXCEPT !.at = "skill", !.root = t, !.version = version]
  OBVIOUS
<1>5. r \in RequestRows /\ r.at = "skill" /\ r.root = t
  BY ONLY <1>4, old \in RequestRows, t \in Things, version \in Nat DEF RequestRows, Steps, Roots
<1>6. Kind[t] = "context_skill"
  BY DEF SkillRead
<1>7. Told(r, group)
  BY ONLY <1>5, <1>6, t \in Things DEF Told, Steps
<1>8. proc' = [proc EXCEPT ![p] = r]
  BY <1>2, <1>3, <1>4 DEF SkillRead
<1> QED
  BY <1>1, <1>5, <1>7, <1>8, RequestReads DEF SkillRead

LEMMA ConflictStep ==
    ASSUME TrashInv, NEW p \in Procs, Conflict(p) PROVE TrashInv'
<1> USE TrashIs
<1>1. updated' = updated \/ (p = Sweep /\ updated' = Touched(proc[p].group))
  BY DEF Conflict
<1>2. p = Sweep /\ Refused(p) => proc[p].group \in Groups
  BY DEF Refused, RequestsTell, Told, Steps
<1>3. updated' \in [Groups -> Nat]
  <2>1. CASE updated' = updated
    BY <2>1 DEF CallsTyped
  <2>2. CASE p = Sweep /\ updated' = Touched(proc[p].group)
    BY <1>2, <2>2, TouchedTyped DEF Conflict
  <2> QED
    BY <1>1, <2>1, <2>2
<1> QED
  BY <1>3, RequestEnds DEF Conflict

LEMMA AbandonStep ==
    ASSUME TrashInv, NEW p \in Procs, Abandon(p) PROVE TrashInv'
<1> USE TrashIs
<1>1. Goes(group, group') /\ DataTyped' /\ DataTells'
  BY SameGroups, SameData DEF Abandon
<1>2. crashes' \in 0 .. MaxCrashes
  BY TrashAssumption DEF Abandon, CallsTyped
<1>3. /\ receipt' \in [Keys -> Receipts] /\ edits' \in 0 .. MaxEdits /\ updated' \in [Groups -> Nat]
      /\ UNCHANGED receipt
  BY DEF Abandon, CallsTyped
<1>4. PICK r \in RequestRows : r = Resting /\ Told(r, group') /\ r.at = "idle"
  BY Rested, EmptySeq
<1>5. proc' = [proc EXCEPT ![p] = r]
  BY <1>4 DEF Abandon
<1> QED
  BY <1>1, <1>2, <1>3, <1>4, <1>5, ReceiptsStay, RequestGoes, TrashBack

LEMMA SweepStartStep == ASSUME TrashInv, SweepStart PROVE TrashInv'
<1> USE TrashIs
<1>1. Sweep \in Procs /\ updated' \in [Groups -> Nat]
  BY DEF Procs, SweepStart, CallsTyped
<1>2. IsFiniteSet(DueGroups) /\ DueGroups \subseteq Groups
  BY FS_Interval, FS_Subset, TrashAssumption DEF DueGroups, Groups
<1>3. Limited(Cardinality(DueGroups)) \in Nat
  BY <1>2, FS_CardinalityType, TrashAssumption DEF Limited
<1>4. PICK todo \in Seq(Groups) : proc' = [proc EXCEPT ![Sweep].todo = todo]
  <2>1. PICK todo \in [1 .. Limited(Cardinality(DueGroups)) -> DueGroups] :
           proc' = [proc EXCEPT ![Sweep].todo = todo]
    BY DEF SweepStart
  <2>2. todo \in [1 .. Limited(Cardinality(DueGroups)) -> Groups]
    BY <1>2, <2>1
  <2>3. todo \in Seq(Groups)
    BY ONLY <1>3, <2>2, IsASeq
  <2> QED
    BY <2>1, <2>3
<1>5. PICK old \in RequestRows : old = proc[Sweep] /\ old.at = "idle"
  BY <1>1, RequestIs DEF SweepStart
<1>6. PICK r : r = [old EXCEPT !.todo = todo]
  OBVIOUS
<1>7. r \in RequestRows /\ r.at = "idle"
  BY ONLY <1>5, <1>6, old \in RequestRows, todo \in Seq(Groups) DEF RequestRows, Steps
<1>8. Told(r, group)
  BY ONLY <1>7 DEF Told, Steps
<1>9. proc' = [proc EXCEPT ![Sweep] = r]
  BY <1>4, <1>5, <1>6
<1> QED
  BY <1>1, <1>7, <1>8, <1>9, RequestReads DEF SweepStart

LEMMA SweepGroupStep == ASSUME TrashInv, SweepGroup PROVE TrashInv'
<1> USE TrashIs
<1>1. Sweep \in Procs /\ updated' \in [Groups -> Nat]
  BY DEF Procs, SweepGroup, CallsTyped
<1>2. PICK old \in RequestRows : old = proc[Sweep]
  BY <1>1, RequestIs
<1>3. old.todo \in Seq(Groups) /\ old.todo # << >>
  BY <1>1, <1>2, RequestIs DEF SweepGroup
<1>4. PICK g \in Groups, rest \in Seq(Groups) : g = Head(old.todo) /\ rest = Tail(old.todo)
  BY <1>3, HeadTailProperties
<1>5. PICK version \in Nat : version = group[g].version
  BY GroupIs
<1>6. PICK at \in {"batch", "blockers", "idle"} :
         /\ at = IF group[g].state = "purging" THEN "batch"
                 ELSE IF group[g].state \in Waiting THEN "blockers" ELSE "idle"
         /\ at # "idle" => group[g].state # "absent"
  BY StatesAre
<1>7. PICK r : r = [old EXCEPT !.todo = rest, !.group = g, !.version = version, !.at = at]
  OBVIOUS
<1>8. r \in RequestRows /\ r.at = at /\ r.group = g
  BY ONLY <1>7, old \in RequestRows, rest \in Seq(Groups), g \in Groups, version \in Nat, NoIds,
          at \in {"batch", "blockers", "idle"} DEF RequestRows, Steps
<1>9. Told(r, group)
  BY ONLY <1>6, <1>8, g \in Groups DEF Told, Steps
<1>10. proc' = [proc EXCEPT ![Sweep] = r]
  <2>2. /\ g = Head(proc[Sweep].todo) /\ rest = Tail(proc[Sweep].todo)
        /\ version = group[Head(proc[Sweep].todo)].version
    BY <1>2, <1>4, <1>5
  <2>3. proc' = [proc EXCEPT ![Sweep] =
                   [old EXCEPT !.todo = rest, !.group = g, !.version = version,
                               !.at = IF group[g].state = "purging" THEN "batch"
                                      ELSE IF group[g].state \in Waiting THEN "blockers" ELSE "idle"]]
    BY <1>2, <2>2 DEF SweepGroup
  <2> QED
    BY ONLY <1>6, <1>7, <2>3
<1> QED
  BY <1>1, <1>8, <1>9, <1>10, RequestReads DEF SweepGroup

-----------------------------------------------------------------------------
(* What the writes change. *)

LEMMA TellsBack ==
    ASSUME GroupsTell', ThingsTell', SpacesTell', PurgesTell', NothingDangles' PROVE DataTells'
  BY DEF DataTells

\* A write takes no mark away but by a restore or a purge, and no state back.
GroupsKeep ==
    \A g \in Groups :
        /\ group[g].state = "purging" => group'[g].state \in {"purging", "purged"}
        /\ group[g].state \in {"purged", "restored"} => group'[g].state = group[g].state

ThingsKeep ==
    \A t \in Things :
        /\ thing[t].row /\ ~ thing'[t].row =>
              LET g == IF t \in Inactive THEN space[thing[t].space].group
                                         ELSE thing[t].group IN
              g # NoGroup /\ group[g].state = "purging"
        /\ thing[t].row /\ thing[t].group # NoGroup /\ Kind[t] # "context_skill" =>
              thing'[t] = thing[t] \/ thing'[t].group = NoGroup \/ ~ thing'[t].row

LEMMA NothingKept ==
    /\ UNCHANGED group => GroupsKeep
    /\ UNCHANGED thing => ThingsKeep
  BY DEF GroupsKeep, ThingsKeep

\* An ordinary write: no group, no mark; a thing moves to a Space that is open, cites
\* what may be cited, and is created where no group waits.
OrdinaryThing(old, new, t) ==
    /\ new[t].group = old[t].group
    /\ new[t].version = 0 => new[t] = old[t]
    /\ new[t].row = old[t].row \/ (old[t].version = 0 /\ space[Home[t]].group = NoGroup)
    /\ \/ new[t].space = old[t].space
       \/ old[t].row /\ old[t].group = NoGroup /\ space[new[t].space].group = NoGroup
    /\ \/ new[t].cites = old[t].cites
       \/ old[t].row /\ old[t].group = NoGroup /\ \A s \in new[t].cites : Citable(s)

LEMMA OrdinaryData ==
    ASSUME DataTyped, DataTells, UNCHANGED group,
           space' \in [Spaces -> SpaceRows], thing' \in [Things -> ThingRows],
           \A t \in Things : OrdinaryThing(thing, thing', t),
           \A s \in Spaces : space'[s].row = space[s].row /\ space'[s].group = space[s].group
    PROVE  DataTyped' /\ DataTells'
<1> USE DEF DataTells
<1>1. DataTyped'
  BY DEF DataTyped
<1>2. /\ \A t \in Things : /\ thing'[t].row \in BOOLEAN /\ thing[t].row \in BOOLEAN
                           /\ thing[t].space \in Spaces /\ thing'[t].space \in Spaces
                           /\ thing[t].cites \in SUBSET Spaces /\ thing'[t].cites \in SUBSET Spaces
                           /\ thing[t].group \in Groups \cup {NoGroup}
      /\ \A s \in Spaces : space'[s].row \in BOOLEAN /\ space[s].row \in BOOLEAN
                           /\ space[s].group \in Groups \cup {NoGroup}
  BY <1>1, ThingIs, SpaceIs DEF DataTyped, ThingRows
<1>3. ASSUME NEW t \in Things, thing'[t].row # thing[t].row
      PROVE  /\ ~ thing[t].row /\ thing'[t].row /\ thing[t].version = 0 /\ t \notin Present
             /\ thing[t].group = NoGroup /\ thing'[t].cites = {} /\ thing'[t].space = thing[t].space
             /\ thing[t].space = Home[t] /\ space[thing[t].space].group = NoGroup
  BY <1>2, <1>3 DEF OrdinaryThing, ThingsTell
<1>4. GroupsTell'
  BY DEF GroupsTell
<1>5. ThingsTell'
  <2> SUFFICES ASSUME NEW t \in Things
               PROVE  /\ thing'[t].group # NoGroup =>
                            /\ group[thing'[t].group].state \in Unresolved \cup {"purged"}
                            /\ thing'[t].row =>
                                  /\ group[thing'[t].group].state \in Unresolved
                                  /\ t \in group[thing'[t].group].members
                                  /\ group[thing'[t].group].space = thing'[t].space
                            /\ ~ thing'[t].row => group[thing'[t].group].state \in {"purging", "purged"}
                      /\ thing'[t].version = 0 =>
                            /\ ~ thing'[t].row /\ thing'[t].group = NoGroup
                            /\ thing'[t].space = Home[t] /\ thing'[t].cites = {}
                      /\ t \in Present => thing'[t].version # 0
                      /\ t \in Inactive => thing'[t].group = NoGroup
    BY DEF ThingsTell
  <2>1. OrdinaryThing(thing, thing', t)
    OBVIOUS
  <2>2. CASE thing'[t].version = 0
    BY <2>1, <2>2 DEF OrdinaryThing, ThingsTell
  <2>3. CASE thing'[t].version # 0 /\ thing'[t].group = NoGroup
    BY <2>3
  <2>4. CASE thing'[t].version # 0 /\ thing'[t].group # NoGroup
    <3>1. /\ thing[t].group = thing'[t].group /\ thing'[t].row = thing[t].row
          /\ thing'[t].space = thing[t].space
      BY <1>3, <2>1, <2>4 DEF OrdinaryThing
    <3> QED
      BY <2>4, <3>1 DEF ThingsTell
  <2> QED
    BY <2>2, <2>3, <2>4
<1>6. SpacesTell'
  BY NoIds DEF SpacesTell
<1>7. PurgesTell'
  <2> SUFFICES ASSUME NEW g \in Groups, group[g].state = "purging"
               PROVE  /\ \A i, j \in Things :
                            <<i, j>> \in Supersedes /\ thing'[j].group = g /\ thing'[i].row =>
                               thing'[i].group = g
                      /\ group[g].root \in Spaces =>
                            /\ \A t \in Things : thing'[t].row /\ group[g].root \in thing'[t].cites =>
                                  thing'[t].group = g
                            /\ \A h \in Groups \ {g} : group[h].space = group[g].root =>
                                  group[h].state \notin Unresolved
    BY DEF PurgesTell
  <2>1. ASSUME NEW i \in Things, NEW j \in Things, <<i, j>> \in Supersedes, thing'[j].group = g, thing'[i].row
        PROVE  thing'[i].group = g
    <3>1. i \in Present /\ thing[i].row /\ thing[i].group = thing'[i].group /\ thing[j].group = g
      BY <1>2, <1>3, <2>1, TrashAssumption DEF OrdinaryThing
    <3> QED
      BY <2>1, <3>1 DEF PurgesTell
  <2>2. ASSUME NEW t \in Things, group[g].root \in Spaces, thing'[t].row, group[g].root \in thing'[t].cites
        PROVE  thing'[t].group = g
    <3>1. thing'[t].row = thing[t].row /\ thing'[t].group = thing[t].group
      BY <1>3, <2>2 DEF OrdinaryThing
    <3>2. ~ Citable(group[g].root)
      BY <2>2, NoIds, StatesAre DEF Citable, SpacesTell
    <3>3. thing'[t].cites = thing[t].cites
      BY <2>2, <3>2 DEF OrdinaryThing
    <3> QED
      BY <2>2, <3>1, <3>3 DEF PurgesTell
  <2> QED
    BY <2>1, <2>2 DEF PurgesTell
<1>8. NothingDangles'
  <2>1. TrashedSpaceIsClosed'
    <3> SUFFICES ASSUME NEW s \in Spaces, space'[s].row, space'[s].group # NoGroup,
                        NEW t \in Things, t \notin Inactive, thing'[t].row, thing'[t].space = s
                 PROVE  thing'[t].group # NoGroup
      BY DEF TrashedSpaceIsClosed, InSpace, Live, Unmarked
    <3>1. space[s].row /\ space[s].group # NoGroup
      OBVIOUS
    <3>2. thing'[t].row = thing[t].row
      BY <1>3, <3>1
    <3>3. thing'[t].space = thing[t].space /\ thing'[t].group = thing[t].group
      BY <3>1 DEF OrdinaryThing
    <3> QED
      BY <3>1, <3>2, <3>3 DEF NothingDangles, TrashedSpaceIsClosed, InSpace, Live, Unmarked
  <2>2. ASSUME NEW t \in Things, NEW s \in Spaces, thing'[t].row, s \in thing'[t].cites
        PROVE  space'[s].row \/ (thing'[t].group # NoGroup /\ group'[thing'[t].group].state = "purging")
    <3>1. thing'[t].row = thing[t].row /\ thing'[t].group = thing[t].group
      BY <1>3, <2>2 DEF OrdinaryThing
    <3>2. CASE thing'[t].cites = thing[t].cites
      BY <2>2, <3>1, <3>2 DEF NothingDangles
    <3>3. CASE Citable(s)
      BY <3>3 DEF Citable
    <3> QED
      BY <2>2, <3>2, <3>3 DEF OrdinaryThing
  <2>3. ASSUME NEW i \in Things, NEW j \in Things \ Inactive, <<i, j>> \in Supersedes, thing'[i].row
        PROVE  thing'[j].row \/ (thing'[i].group # NoGroup /\ group'[thing'[i].group].state = "purging")
    <3>1. i \in Present
      BY <2>3, TrashAssumption
    <3>2. thing[i].row /\ thing'[i].group = thing[i].group
      BY <1>2, <1>3, <2>3, <3>1 DEF OrdinaryThing
    <3>3. thing[j].row => thing'[j].row
      BY <1>2, <1>3
    <3> QED
      BY <2>3, <3>2, <3>3 DEF NothingDangles
  <2> QED
    BY <2>1, <2>2, <2>3 DEF NothingDangles
<1> QED
  BY <1>1, <1>4, <1>5, <1>6, <1>7, <1>8

LEMMA Versions ==
    ASSUME NEW sp \in [Spaces -> SpaceRows], NEW s \in Spaces
    PROVE  /\ BumpSpace(s, sp) \in [Spaces -> SpaceRows]
           /\ \A u \in Spaces : /\ BumpSpace(s, sp)[u].row = sp[u].row
                                /\ BumpSpace(s, sp)[u].group = sp[u].group
<1>1. PICK old \in SpaceRows : old = sp[s]
  OBVIOUS
<1>2. PICK n \in Nat : n = old.version + 1
  BY DEF SpaceRows
<1>3. PICK new : new = [old EXCEPT !.version = n]
  OBVIOUS
<1>4. new \in SpaceRows /\ new.row = old.row /\ new.group = old.group
  BY ONLY <1>3, old \in SpaceRows, n \in Nat DEF SpaceRows
<1>5. BumpSpace(s, sp) = [sp EXCEPT ![s] = new]
  BY <1>1, <1>2, <1>3 DEF BumpSpace
<1> QED
  BY <1>1, <1>4, <1>5

LEMMA CountedWrite == ASSUME CallsTyped, Write PROVE edits' \in 0 .. MaxEdits
  BY TrashAssumption DEF CallsTyped, Write

\* A write of the owner that is one batch.
LEMMA OrdinaryWrites ==
    ASSUME TrashInv, Write, DataTyped', DataTells', UNCHANGED <<group, proc, crashes, updated, receipt>>
    PROVE  TrashInv'
<1> USE TrashIs
<1>1. /\ updated' \in [Groups -> Nat] /\ receipt' \in [Keys -> Receipts] /\ crashes' \in 0 .. MaxCrashes
      /\ edits' \in 0 .. MaxEdits /\ Goes(group, group')
  BY SameGroups, CountedWrite DEF CallsTyped
<1>2. Answered(receipt', group')
  BY DEF RequestsTell
<1> QED
  BY <1>1, <1>2, RequestsStay, TrashBack

LEMMA ReviseItemStep ==
    ASSUME TrashInv, NEW t \in Things, ReviseItem(t) PROVE TrashInv' /\ ThingsKeep
<1> USE TrashIs
<1>1. PICK old \in ThingRows : old = thing[t]
  BY ThingIs
<1>2. PICK n \in Nat : n = old.version + 1 /\ n # 0
  BY DEF ThingRows
<1>3. PICK new : new = [old EXCEPT !.version = n]
  OBVIOUS
<1>4. /\ new \in ThingRows /\ new.row = old.row /\ new.group = old.group /\ new.cites = old.cites
      /\ new.space = old.space /\ new.version # 0
  BY ONLY <1>2, <1>3, old \in ThingRows, n \in Nat DEF ThingRows
<1>5. thing' = [thing EXCEPT ![t] = new] /\ thing \in [Things -> ThingRows]
  BY <1>1, <1>2, <1>3 DEF ReviseItem, DataTyped
<1>6. thing' \in [Things -> ThingRows] /\ \A u \in Things : OrdinaryThing(thing, thing', u)
  BY <1>1, <1>4, <1>5 DEF OrdinaryThing
<1>7. /\ space' \in [Spaces -> SpaceRows]
      /\ \A s \in Spaces : space'[s].row = space[s].row /\ space'[s].group = space[s].group
  BY ThingIs, Versions DEF ReviseItem, DataTyped
<1>8. DataTyped' /\ DataTells'
  BY <1>6, <1>7, OrdinaryData DEF ReviseItem
<1>20. TrashInv'
  BY <1>8, OrdinaryWrites DEF ReviseItem
<1>21. ThingsKeep
  BY <1>1, <1>4, <1>5 DEF ThingsKeep, ReviseItem, Live, Unmarked
<1> QED
  BY <1>20, <1>21

LEMMA ReviseDocumentStep ==
    ASSUME TrashInv, NEW t \in Things, NEW cites \in SUBSET Spaces, ReviseDocument(t, cites)
    PROVE  TrashInv' /\ ThingsKeep
<1> USE TrashIs
<1>1. PICK old \in ThingRows : old = thing[t]
  BY ThingIs
<1>2. PICK n \in Nat : n = old.version + 1 /\ n # 0
  BY DEF ThingRows
<1>3. PICK new : new = [old EXCEPT !.version = n, !.cites = cites]
  OBVIOUS
<1>4. /\ new \in ThingRows /\ new.row = old.row /\ new.group = old.group /\ new.cites = cites
      /\ new.space = old.space /\ new.version # 0
  BY ONLY <1>2, <1>3, old \in ThingRows, n \in Nat, cites \in SUBSET Spaces DEF ThingRows
<1>5. thing' = [thing EXCEPT ![t] = new] /\ thing \in [Things -> ThingRows]
  BY <1>1, <1>2, <1>3 DEF ReviseDocument, DataTyped
<1>6. thing' \in [Things -> ThingRows] /\ \A u \in Things : OrdinaryThing(thing, thing', u)
  BY <1>1, <1>4, <1>5 DEF OrdinaryThing, ReviseDocument, Live, Unmarked
<1>7. DataTyped' /\ DataTells'
  BY <1>6, OrdinaryData DEF ReviseDocument, DataTyped
<1>20. TrashInv'
  BY <1>7, OrdinaryWrites DEF ReviseDocument
<1>21. ThingsKeep
  BY <1>1, <1>4, <1>5 DEF ThingsKeep, ReviseDocument, Live, Unmarked
<1> QED
  BY <1>20, <1>21

LEMMA CreateStep ==
    ASSUME TrashInv, NEW t \in Things, Create(t) PROVE TrashInv' /\ ThingsKeep
<1> USE TrashIs
<1>1. PICK old \in ThingRows : old = thing[t] /\ old.version = 0 /\ space[Home[t]].group = NoGroup
  BY ThingIs DEF Create, Open
<1>2. PICK there, n, new :
         there = TRUE /\ n = 1 /\ new = [old EXCEPT !.row = there, !.version = n]
  OBVIOUS
<1>3. /\ new \in ThingRows /\ new.group = old.group /\ new.cites = old.cites
      /\ new.space = old.space /\ new.version # 0
  <2>1. there \in BOOLEAN /\ n \in Nat /\ n # 0 /\ new = [old EXCEPT !.row = there, !.version = n]
    BY <1>2
  <2> QED
    BY ONLY <2>1, old \in ThingRows DEF ThingRows
<1>4. thing' = [thing EXCEPT ![t] = new] /\ thing \in [Things -> ThingRows]
  BY <1>1, <1>2 DEF Create, DataTyped
<1>5. thing' \in [Things -> ThingRows] /\ \A u \in Things : OrdinaryThing(thing, thing', u)
  BY <1>1, <1>3, <1>4 DEF OrdinaryThing
<1>6. /\ space' \in [Spaces -> SpaceRows]
      /\ \A s \in Spaces : space'[s].row = space[s].row /\ space'[s].group = space[s].group
  BY TrashAssumption, Versions DEF Create, DataTyped
<1>7. DataTyped' /\ DataTells'
  BY <1>5, <1>6, OrdinaryData DEF Create
<1>20. TrashInv'
  BY <1>7, OrdinaryWrites DEF Create
<1>21. ThingsKeep
  BY <1>1, <1>4 DEF ThingsKeep, DataTells, ThingsTell
<1> QED
  BY <1>20, <1>21

LEMMA MoveStep ==
    ASSUME TrashInv, NEW k \in Keys, NEW t \in Things, NEW dest \in Spaces, Move(k, t, dest)
    PROVE  TrashInv' /\ ThingsKeep
<1> USE TrashIs
<1>1. PICK old \in ThingRows : old = thing[t] /\ old.row /\ old.group = NoGroup /\ old.version # 0
  BY ThingIs DEF Move, Live, Unmarked, DataTells, ThingsTell
<1>2. PICK n \in Nat : n = (IF Kind[t] = "document" THEN old.version + 1 ELSE old.version) /\ n # 0
  BY <1>1 DEF ThingRows
<1>3. PICK new : new = [old EXCEPT !.space = dest, !.version = n]
  OBVIOUS
<1>4. /\ new \in ThingRows /\ new.row = old.row /\ new.group = old.group /\ new.cites = old.cites
      /\ new.space = dest /\ new.version # 0
  BY ONLY <1>2, <1>3, old \in ThingRows, n \in Nat, dest \in Spaces DEF ThingRows
<1>5. thing' = [thing EXCEPT ![t] = new] /\ thing \in [Things -> ThingRows]
  BY <1>1, <1>2, <1>3 DEF Move, DataTyped
<1>6. thing' \in [Things -> ThingRows] /\ \A u \in Things : OrdinaryThing(thing, thing', u)
  BY <1>1, <1>4, <1>5 DEF OrdinaryThing, Move, Open
<1>7. /\ space' \in [Spaces -> SpaceRows]
      /\ \A s \in Spaces : space'[s].row = space[s].row /\ space'[s].group = space[s].group
  <2>1. PICK sp \in [Spaces -> SpaceRows] : sp = BumpSpace(dest, space)
    BY Versions DEF DataTyped
  <2>2. space' = BumpSpace(thing[t].space, sp)
    BY <2>1 DEF Move
  <2>3. \A s \in Spaces : sp[s].row = space[s].row /\ sp[s].group = space[s].group
    BY <2>1, Versions DEF DataTyped
  <2> QED
    BY <2>2, <2>3, ThingIs, Versions
<1>8. DataTyped' /\ DataTells'
  BY <1>6, <1>7, OrdinaryData DEF Move
<1>9. receipt' \in [Keys -> Receipts] /\ Answered(receipt', group')
  <2>1. PICK row \in Receipts : row = [op |-> "move", group |-> NoGroup, state |-> "absent"] /\ row.op = "move"
    <3>1. NoGroup \in 0 .. MaxGroups /\ "absent" \in States
      BY NoIds, StatesAre
    <3>2. [op |-> "move", group |-> NoGroup, state |-> "absent"] \in Receipts
      BY ONLY <3>1 DEF Receipts
    <3>3. [op |-> "move", group |-> NoGroup, state |-> "absent"].op = "move"
      OBVIOUS
    <3> QED
      BY ONLY <3>2, <3>3
  <2>2. receipt' = [receipt EXCEPT ![k] = row] /\ receipt \in [Keys -> Receipts] /\ group' = group
    BY <2>1 DEF Move, CallsTyped
  <2>3. Answered(receipt, group)
    BY DEF RequestsTell
  <2> QED
    BY <2>1, <2>2, <2>3 DEF Answered
<1>10. /\ updated' \in [Groups -> Nat] /\ crashes' \in 0 .. MaxCrashes
       /\ edits' \in 0 .. MaxEdits /\ Goes(group, group') /\ UNCHANGED proc
  BY SameGroups, CountedWrite DEF CallsTyped, Move
<1>20. TrashInv'
  BY <1>8, <1>9, <1>10, RequestsStay, TrashBack
<1>21. ThingsKeep
  BY <1>1, <1>4, <1>5 DEF ThingsKeep
<1> QED
  BY <1>20, <1>21

LEMMA SpaceSteps ==
    ASSUME TrashInv, NEW s \in Spaces, ReviseSpace(s) \/ Detached(s) PROVE TrashInv'
<1> USE TrashIs
<1>1. PICK old \in SpaceRows : old = space[s]
  BY SpaceIs
<1>2. space \in [Spaces -> SpaceRows] /\ thing \in [Things -> ThingRows]
  BY DEF DataTyped
<1>3. /\ space' \in [Spaces -> SpaceRows]
      /\ \A u \in Spaces : space'[u].row = space[u].row /\ space'[u].group = space[u].group
  <2>1. CASE ReviseSpace(s)
    <3>1. PICK state \in {"active", "archived"} : space' = BumpSpace(s, [space EXCEPT ![s].state = state])
      BY <2>1 DEF ReviseSpace
    <3>2. PICK new : new = [old EXCEPT !.state = state]
      OBVIOUS
    <3>3. new \in SpaceRows /\ new.row = old.row /\ new.group = old.group
      BY ONLY <3>2, old \in SpaceRows, state \in {"active", "archived"} DEF SpaceRows
    <3>4. PICK sp : sp = [space EXCEPT ![s] = new]
      OBVIOUS
    <3>5. /\ sp \in [Spaces -> SpaceRows] /\ space' = BumpSpace(s, sp)
          /\ \A u \in Spaces : sp[u].row = space[u].row /\ sp[u].group = space[u].group
      BY <1>1, <1>2, <3>1, <3>2, <3>3, <3>4
    <3> QED
      BY <3>5, Versions
  <2>2. CASE Detached(s)
    <3>2. PICK new : new = [old EXCEPT !.attached = FALSE]
      OBVIOUS
    <3>3. new \in SpaceRows /\ new.row = old.row /\ new.group = old.group
      BY ONLY <3>2, old \in SpaceRows DEF SpaceRows
    <3>4. space' = [space EXCEPT ![s] = new]
      BY <1>1, <2>2, <3>2 DEF Detached
    <3> QED
      BY <1>1, <1>2, <3>3, <3>4
  <2> QED
    BY <2>1, <2>2
<1>4. UNCHANGED <<thing, group, updated, receipt, proc, crashes>> /\ Write
  BY DEF ReviseSpace, Detached
<1>5. \A t \in Things : OrdinaryThing(thing, thing', t)
  BY <1>4 DEF OrdinaryThing
<1>6. DataTyped' /\ DataTells'
  BY <1>2, <1>3, <1>4, <1>5, OrdinaryData
<1> QED
  BY <1>4, <1>6, OrdinaryWrites

LEMMA SkillCommitStep ==
    ASSUME TrashInv, NEW p \in Workers, SkillCommit(p) PROVE TrashInv' /\ ThingsKeep
<1> USE TrashIs
<1>1. p \in Procs
  BY DEF Procs
<1>2. PICK t \in Things : t = proc[p].root
  BY <1>1 DEF SkillCommit, RequestsTell, Told
<1>3. PICK old \in ThingRows : old = thing[t]
  BY ThingIs
<1>4. PICK n \in Nat : n = old.version + 1 /\ n # 0
  BY DEF ThingRows
<1>5. PICK new : new = [old EXCEPT !.version = n]
  OBVIOUS
<1>6. /\ new \in ThingRows /\ new.row = old.row /\ new.group = old.group /\ new.cites = old.cites
      /\ new.space = old.space /\ new.version # 0
  BY ONLY <1>4, <1>5, old \in ThingRows, n \in Nat DEF ThingRows
<1>7. thing' = thing \/ thing' = [thing EXCEPT ![t] = new]
  BY <1>2, <1>3, <1>4, <1>5 DEF SkillCommit
<1>8. thing' \in [Things -> ThingRows] /\ \A u \in Things : OrdinaryThing(thing, thing', u)
  BY <1>3, <1>6, <1>7 DEF OrdinaryThing, DataTyped
<1>9. DataTyped' /\ DataTells'
  BY <1>8, OrdinaryData DEF SkillCommit, DataTyped
<1>10. /\ updated' \in [Groups -> Nat] /\ receipt' \in [Keys -> Receipts] /\ crashes' \in 0 .. MaxCrashes
       /\ edits' \in 0 .. MaxEdits /\ Goes(group, group') /\ Answered(receipt', group')
  BY SameGroups, CountedWrite DEF CallsTyped, SkillCommit, RequestsTell
<1>20. TrashInv'
  BY <1>1, <1>9, <1>10, EndedGoes, TrashBack DEF SkillCommit
<1>21. ThingsKeep
  BY <1>1, <1>2, <1>3, <1>6, <1>7 DEF ThingsKeep, SkillCommit, RequestsTell, Told, DataTyped
<1> QED
  BY <1>20, <1>21

-----------------------------------------------------------------------------
(* Groups that wait, and the claim of a purge. *)

\* Things and groups as they are, marks and Spaces unchanged but for versions.
WaitingGroup(old, new, g) ==
    /\ new[g].root = old[g].root /\ new[g].space = old[g].space /\ new[g].members = old[g].members
    /\ \/ new[g].state = old[g].state
       \/ old[g].state \in Waiting /\ new[g].state \in Waiting

LEMMA WaitingGoes ==
    ASSUME NEW old, NEW new, \A g \in Groups : WaitingGroup(old, new, g) PROVE Goes(old, new)
  BY StatesAre DEF WaitingGroup, Goes

LEMMA WaitingData ==
    ASSUME DataTyped, DataTells, UNCHANGED <<space, thing>>, group' \in [Groups -> GroupRows],
           \A g \in Groups : WaitingGroup(group, group', g)
    PROVE  DataTyped' /\ DataTells'
<1> USE DEF DataTells
<1>1. DataTyped'
  BY DEF DataTyped
<1>2. \A g \in Groups : /\ group'[g].root = group[g].root /\ group'[g].space = group[g].space
                        /\ group'[g].members = group[g].members
                        /\ \A state \in {"absent", "purging", "purged", "restored"} :
                              group'[g].state = state <=> group[g].state = state
                        /\ group'[g].state \in Unresolved <=> group[g].state \in Unresolved
  BY StatesAre DEF WaitingGroup
<1>3. \A t \in Things : thing[t].group # NoGroup => thing[t].group \in Groups
  BY ThingIs
<1>4. \A s \in Spaces : space[s].group # NoGroup => space[s].group \in Groups
  BY SpaceIs
<1>5. GroupsTell'
  BY <1>2 DEF GroupsTell
<1>6. ThingsTell'
  BY <1>2, <1>3, StatesAre DEF ThingsTell
<1>7. SpacesTell'
  BY <1>2, <1>4 DEF SpacesTell
<1>8. PurgesTell'
  BY <1>2 DEF PurgesTell
<1>9. NothingDangles'
  <2>1. TrashedSpaceIsClosed'
    BY DEF NothingDangles, TrashedSpaceIsClosed, InSpace, Live, Unmarked
  <2> QED
    BY <1>2, <1>3, <2>1 DEF NothingDangles
<1> QED
  BY <1>1, <1>5, <1>6, <1>7, <1>8, <1>9

LEMMA PurgeBlockedStep ==
    ASSUME TrashInv, NEW p \in Procs, PurgeBlocked(p) PROVE TrashInv' /\ GroupsKeep
<1> USE TrashIs
<1>1. PICK g \in Groups : g = proc[p].group
  BY DEF PurgeBlocked, RequestsTell, Told, Steps
<1>2. updated' \in [Groups -> Nat]
  BY <1>1, TouchedTyped DEF PurgeBlocked, CallsTyped
<1>3. CASE UNCHANGED group
  BY <1>1, <1>2, <1>3, RequestEnds, NothingKept DEF PurgeBlocked
<1>4. CASE group[g].state \in Waiting /\ group' = [group EXCEPT ![g].state = "blocked"]
  <2>1. PICK old \in GroupRows : old = group[g]
    BY GroupIs
  <2>2. PICK new : new = [old EXCEPT !.state = "blocked"]
    OBVIOUS
  <2>3. /\ new \in GroupRows /\ new.root = old.root /\ new.space = old.space
        /\ new.members = old.members /\ new.state = "blocked"
    BY ONLY <2>2, old \in GroupRows, StatesAre DEF GroupRows
  <2>4. group' = [group EXCEPT ![g] = new] /\ group \in [Groups -> GroupRows]
    BY <1>4, <2>1, <2>2 DEF DataTyped
  <2>5. group' \in [Groups -> GroupRows] /\ \A h \in Groups : WaitingGroup(group, group', h)
    BY <1>4, <2>1, <2>3, <2>4, StatesAre DEF WaitingGroup
  <2>6. DataTyped' /\ DataTells'
    BY <2>5, WaitingData DEF PurgeBlocked
  <2>7. /\ receipt' \in [Keys -> Receipts] /\ crashes' \in 0 .. MaxCrashes /\ UNCHANGED receipt
        /\ edits' \in 0 .. MaxEdits
    BY DEF CallsTyped, PurgeBlocked
  <2>8. Goes(group, group') /\ Answered(receipt', group')
    BY <2>5, <2>7, WaitingGoes, ReceiptsStay
  <2>9. GroupsKeep
    BY <1>4, <2>1, <2>3, <2>4, StatesAre DEF GroupsKeep
  <2> QED
    BY <1>2, <2>6, <2>7, <2>8, <2>9, EndedGoes, TrashBack DEF PurgeBlocked
<1> QED
  BY <1>1, <1>3, <1>4 DEF PurgeBlocked

LEMMA DeadlineStep ==
    ASSUME TrashInv, NEW g \in Groups, Deadline(g) PROVE TrashInv' /\ GroupsKeep
<1> USE TrashIs
<1>1. PICK old \in GroupRows : old = group[g]
  BY GroupIs
<1>2. PICK new : new = [old EXCEPT !.due = TRUE]
  OBVIOUS
<1>3. /\ new \in GroupRows /\ new.root = old.root /\ new.space = old.space
      /\ new.members = old.members /\ new.state = old.state
  BY ONLY <1>2, old \in GroupRows DEF GroupRows
<1>4. group' = [group EXCEPT ![g] = new] /\ group \in [Groups -> GroupRows]
  BY <1>1, <1>2 DEF DataTyped, Deadline
<1>5. group' \in [Groups -> GroupRows] /\ \A h \in Groups : WaitingGroup(group, group', h)
  BY <1>1, <1>3, <1>4 DEF WaitingGroup
<1>6. DataTyped' /\ DataTells'
  BY <1>5, WaitingData DEF Deadline
<1>7. /\ receipt' \in [Keys -> Receipts] /\ crashes' \in 0 .. MaxCrashes /\ UNCHANGED <<receipt, proc>>
      /\ edits' \in 0 .. MaxEdits /\ updated' \in [Groups -> Nat]
  BY DEF CallsTyped, Deadline
<1>8. Goes(group, group') /\ Answered(receipt', group')
  BY <1>5, <1>7, WaitingGoes, ReceiptsStay
<1>20. TrashInv'
  BY <1>6, <1>7, <1>8, RequestsStay, TrashBack
<1>21. GroupsKeep
  BY <1>1, <1>3, <1>4 DEF GroupsKeep
<1> QED
  BY <1>20, <1>21

\* What the claim checks is what must hold while the group is being purged.
LEMMA Claimed ==
    ASSUME DataTyped, DataTells, NEW g \in Groups, group[g].state \in Waiting, ~ Blocked(g)
    PROVE  /\ \A i, j \in Things :
                 <<i, j>> \in Supersedes /\ thing[j].group = g /\ thing[i].row => thing[i].group = g
           /\ group[g].root \in Spaces =>
                 /\ \A t \in Things : thing[t].row /\ group[g].root \in thing[t].cites =>
                       thing[t].group = g
                 /\ \A h \in Groups \ {g} : group[h].space = group[g].root =>
                       group[h].state \notin Unresolved
<1>1. ASSUME NEW i \in Things, NEW j \in Things, <<i, j>> \in Supersedes, thing[j].group = g, thing[i].row
      PROVE  thing[i].group = g
  <2>1. j \in group[g].members
    BY <1>1, StatesAre, NoIds, ThingIs DEF DataTells, ThingsTell
  <2> QED
    BY <1>1, <2>1 DEF Blocked, ItemReferences
<1>2. ASSUME group[g].root \in Spaces
      PROVE  /\ \A t \in Things : thing[t].row /\ group[g].root \in thing[t].cites =>
                   thing[t].group = g
             /\ \A h \in Groups \ {g} : group[h].space = group[g].root =>
                   group[h].state \notin Unresolved
  <2>1. group[g].space = group[g].root
    BY <1>2, StatesAre DEF DataTells, GroupsTell
  <2> QED
    BY <1>2, <2>1 DEF Blocked, SourceReferences, EarlierGroups
<1> QED
  BY <1>1, <1>2

LEMMA ClaimData ==
    ASSUME DataTyped, DataTells, UNCHANGED <<space, thing>>, group' \in [Groups -> GroupRows],
           NEW g \in Groups, group[g].state \in Waiting, ~ Blocked(g), group'[g].state = "purging",
           group'[g].root = group[g].root, group'[g].space = group[g].space,
           group'[g].members = group[g].members, \A h \in Groups \ {g} : group'[h] = group[h]
    PROVE  DataTyped' /\ DataTells' /\ Goes(group, group')
<1> USE DEF DataTells
<1>1. DataTyped'
  BY DEF DataTyped
<1>2. \A h \in Groups : /\ group'[h].root = group[h].root /\ group'[h].space = group[h].space
                        /\ group'[h].members = group[h].members
                        /\ group'[h].state = "absent" <=> group[h].state = "absent"
                        /\ group[h].state = "purging" => group'[h].state = "purging"
                        /\ group[h].state = "purged" => group'[h].state = "purged"
                        /\ group'[h].state \in Unresolved <=> group[h].state \in Unresolved
                        /\ group'[h].state = "purging" => group[h].state = "purging" \/ h = g
  BY StatesAre
<1>3. \A t \in Things : thing[t].group # NoGroup => thing[t].group \in Groups
  BY ThingIs
<1>4. \A s \in Spaces : space[s].group # NoGroup => space[s].group \in Groups
  BY SpaceIs
<1>5. GroupsTell'
  BY <1>2 DEF GroupsTell
<1>6. ThingsTell'
  BY <1>2, <1>3, StatesAre DEF ThingsTell
<1>7. SpacesTell'
  BY <1>2, <1>4 DEF SpacesTell
<1>8. PurgesTell'
  BY <1>2, Claimed DEF PurgesTell
<1>9. NothingDangles'
  <2>1. TrashedSpaceIsClosed'
    BY DEF NothingDangles, TrashedSpaceIsClosed, InSpace, Live, Unmarked
  <2> QED
    BY <1>2, <1>3, <2>1 DEF NothingDangles
<1>10. Goes(group, group')
  BY <1>2, StatesAre DEF Goes
<1> QED
  BY <1>1, <1>5, <1>6, <1>7, <1>8, <1>9, <1>10

LEMMA PurgeClaimStep ==
    ASSUME TrashInv, NEW p \in Procs, PurgeClaim(p) PROVE TrashInv' /\ GroupsKeep
<1> USE TrashIs
<1>1. PICK g \in Groups : g = proc[p].group /\ group[g].state \in Waiting /\ ~ Blocked(g)
  BY DEF PurgeClaim, ClaimGuard, GroupGuard, RequestsTell, Told, Steps
<1>2. PICK old \in GroupRows : old = group[g]
  BY GroupIs
<1>3. PICK n \in Nat : n = old.version + 1
  BY DEF GroupRows
<1>4. PICK new : new = [old EXCEPT !.state = "purging", !.version = n]
  OBVIOUS
<1>5. /\ new \in GroupRows /\ new.root = old.root /\ new.space = old.space
      /\ new.members = old.members /\ new.state = "purging"
  BY ONLY <1>4, old \in GroupRows, n \in Nat, StatesAre DEF GroupRows
<1>6. group' = [group EXCEPT ![g] = new] /\ group \in [Groups -> GroupRows]
  BY <1>1, <1>2, <1>3, <1>4 DEF DataTyped, PurgeClaim
<1>7. DataTyped' /\ DataTells' /\ Goes(group, group')
  BY <1>1, <1>2, <1>5, <1>6, ClaimData DEF PurgeClaim
<1>8. group'[g].state # "absent"
  BY <1>5, <1>6
<1>9. receipt' \in [Keys -> Receipts] /\ Answered(receipt', group')
  <2>1. PICK row \in Receipts : row = [op |-> "purge", group |-> g, state |-> "purging"] /\ row.group = g
    BY ReceiptOf, StatesAre
  <2>2. receipt' = receipt \/ receipt' = [receipt EXCEPT ![proc[p].key] = row]
    BY <1>1, <2>1 DEF PurgeClaim
  <2>3. CASE receipt' = receipt
    BY <1>7, <2>3, ReceiptsStay DEF CallsTyped
  <2>4. CASE receipt' = [receipt EXCEPT ![proc[p].key] = row]
    <3>1. PICK receipts, groups, k : receipts = receipt' /\ groups = group' /\ k = proc[p].key
      OBVIOUS
    <3>2. receipts = [receipt EXCEPT ![k] = row] /\ Goes(group, groups) /\ groups[g].state # "absent"
      BY <1>7, <1>8, <2>4, <3>1
    <3>3. receipts \in [Keys -> Receipts] /\ Answered(receipts, groups)
      BY ONLY CallsTyped, RequestsTell, <2>1, <3>2, g \in Groups, row \in Receipts, PurgeReceipt
    <3> QED
      BY <3>1, <3>3
  <2> QED
    BY <2>2, <2>3, <2>4
<1>10. PICK todo \in Seq(Groups) : todo = proc[p].todo
  BY RequestIs
<1>11. PICK r : r = [[Resting EXCEPT !.todo = todo] EXCEPT !.at = "batch", !.group = g]
  OBVIOUS
<1>12. r \in RequestRows /\ Told(r, group') /\ r.at = "batch"
  BY <1>8, <1>10, <1>11, Rested, AtBatch
<1>13. proc' = [proc EXCEPT ![p] = r]
  BY <1>1, <1>10, <1>11, RequestIs DEF PurgeClaim, Ended, CallsTyped
<1>14. updated' \in [Groups -> Nat] /\ edits' \in 0 .. MaxEdits /\ crashes' \in 0 .. MaxCrashes
  BY <1>1, TouchedTyped DEF PurgeClaim, CallsTyped
<1>20. TrashInv'
  BY <1>7, <1>9, <1>12, <1>13, <1>14, RequestGoes, TrashBack
<1>21. GroupsKeep
  BY <1>1, <1>2, <1>5, <1>6, StatesAre DEF GroupsKeep
<1> QED
  BY <1>20, <1>21


-----------------------------------------------------------------------------
(* A trash, and a restore. *)

LEMMA TrashData ==
    ASSUME DataTyped, DataTells, NEW g \in Groups, NEW s \in Spaces, NEW root \in Spaces \cup Things,
           NEW members \in SUBSET Things,
           group[g].state = "absent", space[s].row, space[s].group = NoGroup,
           \A t \in members : thing[t].row /\ thing[t].group = NoGroup /\ thing[t].space = s,
           members \cap Inactive = {},
           root \in Spaces => root = s /\ members = MembersOf(s),
           group' \in [Groups -> GroupRows], group'[g].state = "trashed", group'[g].root = root,
           group'[g].space = s, group'[g].members = members,
           \A h \in Groups \ {g} : group'[h] = group[h],
           thing' \in [Things -> ThingRows], \A t \in Things \ members : thing'[t] = thing[t],
           \A t \in members : /\ thing'[t].group = g /\ thing'[t].row = thing[t].row
                              /\ thing'[t].space = thing[t].space /\ thing'[t].cites = thing[t].cites
                              /\ thing'[t].version # 0,
           space' \in [Spaces -> SpaceRows],
           \A u \in Spaces : /\ space'[u].row = space[u].row
                             /\ IF u = s /\ root \in Spaces THEN space'[u].group = g
                                ELSE space'[u].group = space[u].group
    PROVE  DataTyped' /\ DataTells' /\ Goes(group, group')
<1> USE DEF DataTells
<1>1. DataTyped'
  BY DEF DataTyped
<1>2. \A t \in Things : /\ thing[t].group # g
                        /\ thing[t].group # NoGroup => thing[t].group \in Groups \ {g}
  BY ThingIs, StatesAre, NoIds DEF ThingsTell
<1>3. \A u \in Spaces : space[u].row /\ space[u].group # NoGroup => space[u].group \in Groups \ {g}
  BY SpaceIs, StatesAre, NoIds DEF SpacesTell
<1>4. \A t \in Things : /\ thing'[t].row = thing[t].row /\ thing'[t].space = thing[t].space
                        /\ thing'[t].cites = thing[t].cites
                        /\ thing[t].group # NoGroup => thing'[t] = thing[t]
                        /\ thing'[t] = thing[t] \/ thing'[t].group = g
  OBVIOUS
<1>5. /\ \A h \in Groups : group[h].state # "absent" => group'[h] = group[h]
      /\ \A h \in Groups : group'[h].state = "purging" => h # g /\ group[h].state = "purging"
  OBVIOUS
<1>6. GroupsTell'
  <2> SUFFICES ASSUME NEW h \in Groups, group'[h].state # "absent"
               PROVE  /\ group'[h].root \in Spaces \cup Things /\ group'[h].space \in Spaces
                      /\ group'[h].root \in Spaces => group'[h].space = group'[h].root
    BY DEF GroupsTell
  <2>1. CASE h = g
    BY <2>1
  <2>2. CASE h # g
    BY <2>2 DEF GroupsTell
  <2> QED
    BY <2>1, <2>2
<1>7. ThingsTell'
  <2> SUFFICES ASSUME NEW t \in Things
               PROVE  /\ thing'[t].group # NoGroup =>
                            /\ group'[thing'[t].group].state \in Unresolved \cup {"purged"}
                            /\ thing'[t].row =>
                                  /\ group'[thing'[t].group].state \in Unresolved
                                  /\ t \in group'[thing'[t].group].members
                                  /\ group'[thing'[t].group].space = thing'[t].space
                            /\ ~ thing'[t].row => group'[thing'[t].group].state \in {"purging", "purged"}
                      /\ thing'[t].version = 0 =>
                            /\ ~ thing'[t].row /\ thing'[t].group = NoGroup
                            /\ thing'[t].space = Home[t] /\ thing'[t].cites = {}
                      /\ t \in Present => thing'[t].version # 0
                      /\ t \in Inactive => thing'[t].group = NoGroup
    BY DEF ThingsTell
  <2>1. CASE t \in members
    BY <2>1, StatesAre DEF ThingsTell
  <2>2. CASE t \notin members
    BY <1>2, <2>2 DEF ThingsTell
  <2> QED
    BY <2>1, <2>2
<1>8. SpacesTell'
  <2>1. ASSUME NEW u \in Spaces, space'[u].row, space'[u].group # NoGroup
        PROVE  group'[space'[u].group].state \in Unresolved /\ group'[space'[u].group].root = u
    <3>1. CASE u = s /\ root \in Spaces
      BY <3>1, StatesAre
    <3>2. CASE ~ (u = s /\ root \in Spaces)
      <4>1. space'[u].group = space[u].group /\ space[u].group \in Groups \ {g}
        BY <1>3, <2>1, <3>2
      <4> QED
        BY <2>1, <4>1 DEF SpacesTell
    <3> QED
      BY <3>1, <3>2
  <2>2. ASSUME NEW h \in Groups, group'[h].state \in Unresolved, group'[h].root \in Spaces
        PROVE  space'[group'[h].root].row /\ space'[group'[h].root].group = h
    <3>1. CASE h = g
      BY <2>2, <3>1
    <3>2. CASE h # g
      <4>1. space[group[h].root].row /\ space[group[h].root].group = h /\ group[h].root \in Spaces
        BY <2>2, <3>2 DEF SpacesTell
      <4>2. group[h].root # s
        BY <4>1, NoIds
      <4> QED
        BY <3>2, <4>1, <4>2
    <3> QED
      BY <3>1, <3>2
  <2> QED
    BY <2>1, <2>2 DEF SpacesTell
<1>9. PurgesTell'
  <2> SUFFICES ASSUME NEW h \in Groups, group'[h].state = "purging"
               PROVE  /\ \A i, j \in Things :
                            <<i, j>> \in Supersedes /\ thing'[j].group = h /\ thing'[i].row =>
                               thing'[i].group = h
                      /\ group'[h].root \in Spaces =>
                            /\ \A t \in Things : thing'[t].row /\ group'[h].root \in thing'[t].cites =>
                                  thing'[t].group = h
                            /\ \A k \in Groups \ {h} : group'[k].space = group'[h].root =>
                                  group'[k].state \notin Unresolved
    BY DEF PurgesTell
  <2>1. h # g /\ group'[h] = group[h] /\ group[h].state = "purging"
    BY <1>5
  <2>2. ASSUME NEW i \in Things, NEW j \in Things, <<i, j>> \in Supersedes, thing'[j].group = h, thing'[i].row
        PROVE  thing'[i].group = h
    <3>1. thing[i].group = h
      BY <1>4, <2>1, <2>2 DEF PurgesTell
    <3> QED
      BY <1>4, <3>1, NoIds
  <2>3. ASSUME NEW t \in Things, group[h].root \in Spaces, thing'[t].row, group[h].root \in thing'[t].cites
        PROVE  thing'[t].group = h
    <3>1. thing[t].group = h
      BY <1>4, <2>1, <2>3 DEF PurgesTell
    <3> QED
      BY <1>4, <3>1, NoIds
  <2>4. ASSUME NEW k \in Groups \ {h}, group[h].root \in Spaces, group'[k].space = group[h].root
        PROVE  group'[k].state \notin Unresolved
    <3>1. CASE k = g
      <4>1. space[s].group = h
        BY <2>1, <2>4, <3>1, StatesAre DEF SpacesTell
      <4> QED
        BY <4>1, NoIds
    <3>2. CASE k # g
      BY <2>1, <2>4, <3>2 DEF PurgesTell
    <3> QED
      BY <3>1, <3>2
  <2> QED
    BY <2>1, <2>2, <2>3, <2>4
<1>10. NothingDangles'
  <2>1. TrashedSpaceIsClosed'
    <3> SUFFICES ASSUME NEW u \in Spaces, space'[u].row, space'[u].group # NoGroup,
                        NEW t \in Things, t \notin Inactive, thing'[t].row, thing'[t].space = u
                 PROVE  thing'[t].group # NoGroup
      BY DEF TrashedSpaceIsClosed, InSpace, Live, Unmarked
    <3>1. CASE u = s /\ root \in Spaces
      <4>1. thing[t].group = NoGroup => t \in members
        BY <1>4, <3>1, NoIds DEF MembersOf, InSpace, Live, Unmarked
      <4> QED
        BY <1>4, <4>1, NoIds
    <3>2. CASE ~ (u = s /\ root \in Spaces)
      <4>1. thing[t].group # NoGroup
        BY <1>4, <3>2 DEF NothingDangles, TrashedSpaceIsClosed, InSpace, Live, Unmarked
      <4> QED
        BY <1>4, <4>1
    <3> QED
      BY <3>1, <3>2
  <2>2. ASSUME NEW t \in Things, thing[t].group # NoGroup /\ group[thing[t].group].state = "purging"
        PROVE  thing'[t].group # NoGroup /\ group'[thing'[t].group].state = "purging"
    BY <1>2, <1>4, <2>2
  <2>3. ASSUME NEW t \in Things, NEW u \in Spaces, thing'[t].row, u \in thing'[t].cites
        PROVE  space'[u].row \/ (thing'[t].group # NoGroup /\ group'[thing'[t].group].state = "purging")
    BY <1>4, <2>2, <2>3 DEF NothingDangles
  <2>4. ASSUME NEW i \in Things, NEW j \in Things \ Inactive, <<i, j>> \in Supersedes, thing'[i].row
        PROVE  thing'[j].row \/ (thing'[i].group # NoGroup /\ group'[thing'[i].group].state = "purging")
    BY <1>4, <2>2, <2>4 DEF NothingDangles
  <2> QED
    BY <2>1, <2>3, <2>4 DEF NothingDangles
<1>11. Goes(group, group')
  BY <1>5 DEF Goes
<1> QED
  BY <1>1, <1>6, <1>7, <1>8, <1>9, <1>10, <1>11


LEMMA RestoreData ==
    ASSUME DataTyped, DataTells, NEW g \in Groups, group[g].state \in Waiting,
           group[g].root \notin Spaces => space[group[g].space].group = NoGroup,
           group' \in [Groups -> GroupRows], group'[g].state = "restored",
           group'[g].root = group[g].root, group'[g].space = group[g].space,
           \A h \in Groups \ {g} : group'[h] = group[h],
           thing' \in [Things -> ThingRows],
           \A t \in Things : IF thing[t].row /\ thing[t].group = g
                             THEN /\ thing'[t].group = NoGroup /\ thing'[t].row = thing[t].row
                                  /\ thing'[t].space = thing[t].space /\ thing'[t].cites = thing[t].cites
                                  /\ thing'[t].version # 0
                             ELSE thing'[t] = thing[t],
           space' \in [Spaces -> SpaceRows],
           \A u \in Spaces : /\ space'[u].row = space[u].row
                             /\ IF space[u].group = g THEN space'[u].group = NoGroup
                                ELSE space'[u].group = space[u].group
    PROVE  DataTyped' /\ DataTells' /\ Goes(group, group')
<1> USE DEF DataTells
<1>1. DataTyped'
  BY DEF DataTyped
<1>2. \A t \in Things : /\ thing[t].group = g => thing[t].row /\ group[g].space = thing[t].space
                        /\ thing[t].group # NoGroup => thing[t].group \in Groups
  BY ThingIs, StatesAre, NoIds DEF ThingsTell
<1>3. \A u \in Spaces : space[u].group # NoGroup => space[u].group \in Groups
  BY SpaceIs
<1>4. \A t \in Things : /\ thing'[t].row = thing[t].row /\ thing'[t].space = thing[t].space
                        /\ thing'[t].cites = thing[t].cites
                        /\ thing[t].group # g => thing'[t] = thing[t]
                        /\ thing[t].group = g => thing'[t].group = NoGroup
  BY <1>2
<1>5. /\ \A h \in Groups : group[h].state \in {"absent", "purging", "purged"} => h # g
      /\ \A h \in Groups : group'[h].state \in Unresolved => h # g /\ group[h].state \in Unresolved
      /\ \A h \in Groups : group'[h].state = "purging" => h # g /\ group[h].state = "purging"
  BY StatesAre
<1>6. GroupsTell'
  BY StatesAre DEF GroupsTell
<1>7. ThingsTell'
  <2> SUFFICES ASSUME NEW t \in Things
               PROVE  /\ thing'[t].group # NoGroup =>
                            /\ group'[thing'[t].group].state \in Unresolved \cup {"purged"}
                            /\ thing'[t].row =>
                                  /\ group'[thing'[t].group].state \in Unresolved
                                  /\ t \in group'[thing'[t].group].members
                                  /\ group'[thing'[t].group].space = thing'[t].space
                            /\ ~ thing'[t].row => group'[thing'[t].group].state \in {"purging", "purged"}
                      /\ thing'[t].version = 0 =>
                            /\ ~ thing'[t].row /\ thing'[t].group = NoGroup
                            /\ thing'[t].space = Home[t] /\ thing'[t].cites = {}
                      /\ t \in Present => thing'[t].version # 0
                      /\ t \in Inactive => thing'[t].group = NoGroup
    BY DEF ThingsTell
  <2>1. CASE thing[t].group = g
    BY <1>2, <2>1
  <2>2. CASE thing[t].group # g
    BY <1>2, <1>4, <2>2 DEF ThingsTell
  <2> QED
    BY <2>1, <2>2
<1>8. SpacesTell'
  <2>1. ASSUME NEW u \in Spaces, space'[u].row, space'[u].group # NoGroup
        PROVE  group'[space'[u].group].state \in Unresolved /\ group'[space'[u].group].root = u
    BY <1>3, <2>1 DEF SpacesTell
  <2>2. ASSUME NEW h \in Groups, group'[h].state \in Unresolved, group'[h].root \in Spaces
        PROVE  space'[group'[h].root].row /\ space'[group'[h].root].group = h
    BY <1>5, <2>2 DEF SpacesTell
  <2> QED
    BY <2>1, <2>2 DEF SpacesTell
<1>9. PurgesTell'
  <2> SUFFICES ASSUME NEW h \in Groups, group'[h].state = "purging"
               PROVE  /\ \A i, j \in Things :
                            <<i, j>> \in Supersedes /\ thing'[j].group = h /\ thing'[i].row =>
                               thing'[i].group = h
                      /\ group'[h].root \in Spaces =>
                            /\ \A t \in Things : thing'[t].row /\ group'[h].root \in thing'[t].cites =>
                                  thing'[t].group = h
                            /\ \A k \in Groups \ {h} : group'[k].space = group'[h].root =>
                                  group'[k].state \notin Unresolved
    BY DEF PurgesTell
  <2>1. h # g /\ group'[h] = group[h] /\ group[h].state = "purging"
    BY <1>5
  <2>2. ASSUME NEW i \in Things, NEW j \in Things, <<i, j>> \in Supersedes, thing'[j].group = h, thing'[i].row
        PROVE  thing'[i].group = h
    <3>1. thing[j].group = h
      BY <1>4, <2>2, NoIds
    <3>2. thing[i].group = h
      BY <1>4, <2>1, <2>2, <3>1 DEF PurgesTell
    <3> QED
      BY <1>4, <2>1, <3>2
  <2>3. ASSUME NEW t \in Things, group[h].root \in Spaces, thing'[t].row, group[h].root \in thing'[t].cites
        PROVE  thing'[t].group = h
    <3>1. thing[t].group = h
      BY <1>4, <2>1, <2>3 DEF PurgesTell
    <3> QED
      BY <1>4, <2>1, <3>1
  <2>4. ASSUME NEW k \in Groups \ {h}, group[h].root \in Spaces, group'[k].space = group[h].root,
               group'[k].state \in Unresolved
        PROVE  FALSE
    BY <1>5, <2>1, <2>4 DEF PurgesTell
  <2> QED
    BY <2>1, <2>2, <2>3, <2>4
<1>10. NothingDangles'
  <2>1. TrashedSpaceIsClosed'
    <3> SUFFICES ASSUME NEW u \in Spaces, space'[u].row, space'[u].group # NoGroup,
                        NEW t \in Things, t \notin Inactive, thing'[t].row, thing'[t].space = u,
                        thing'[t].group = NoGroup
                 PROVE  FALSE
      BY DEF TrashedSpaceIsClosed, InSpace, Live, Unmarked
    <3>1. space[u].row /\ space[u].group # NoGroup /\ space[u].group # g
      OBVIOUS
    <3>2. thing[t].group # NoGroup
      BY <1>4, <3>1 DEF NothingDangles, TrashedSpaceIsClosed, InSpace, Live, Unmarked
    <3>3. group[g].space = u
      BY <1>2, <1>4, <3>2
    <3>4. CASE group[g].root \in Spaces
      BY <3>1, <3>3, <3>4, StatesAre DEF SpacesTell, GroupsTell
    <3>5. CASE group[g].root \notin Spaces
      BY <3>1, <3>3, <3>5
    <3> QED
      BY <3>4, <3>5
  <2>2. ASSUME NEW t \in Things, thing[t].group # NoGroup /\ group[thing[t].group].state = "purging"
        PROVE  thing'[t].group # NoGroup /\ group'[thing'[t].group].state = "purging"
    BY <1>2, <1>4, <1>5, <2>2
  <2>3. ASSUME NEW t \in Things, NEW u \in Spaces, thing'[t].row, u \in thing'[t].cites
        PROVE  space'[u].row \/ (thing'[t].group # NoGroup /\ group'[thing'[t].group].state = "purging")
    BY <1>4, <2>2, <2>3 DEF NothingDangles
  <2>4. ASSUME NEW i \in Things, NEW j \in Things \ Inactive, <<i, j>> \in Supersedes, thing'[i].row
        PROVE  thing'[j].row \/ (thing'[i].group # NoGroup /\ group'[thing'[i].group].state = "purging")
    BY <1>4, <2>2, <2>4 DEF NothingDangles
  <2> QED
    BY <2>1, <2>3, <2>4 DEF NothingDangles
<1>11. Goes(group, group')
  <2> SUFFICES ASSUME NEW h \in Groups, group[h].state # "absent"
               PROVE  /\ group'[h].state # "absent" /\ group'[h].root = group[h].root
                      /\ group[h].state \in {"purging", "purged"} =>
                            /\ group'[h].state \in {"purging", "purged"}
                            /\ group'[h].members \subseteq group[h].members
    BY DEF Goes
  <2>1. CASE h = g
    BY <2>1, <1>5
  <2>2. CASE h # g
    BY <2>2
  <2> QED
    BY <2>1, <2>2
<1> QED
  BY <1>1, <1>6, <1>7, <1>8, <1>9, <1>10, <1>11

LEMMA BatchDoneStep == ASSUME TrashInv, NEW p \in Procs, BatchDone(p) PROVE TrashInv'
  BY TrashIs, RequestEnds DEF BatchDone, CallsTyped


\* A thing that is marked, or whose mark is taken away.
Marks(old, g, t) ==
    [old EXCEPT !.group = g, !.version = IF Kind[t] = "document" THEN @ + 1 ELSE @]

LEMMA MarkedThing ==
    ASSUME NEW old \in ThingRows, NEW g \in Groups \cup {NoGroup}, NEW t, NEW new,
           new = Marks(old, g, t), old.version # 0
    PROVE  /\ new \in ThingRows /\ new.group = g /\ new.row = old.row /\ new.space = old.space
           /\ new.cites = old.cites /\ new.version # 0
<1>1. PICK n \in Nat : n = (IF Kind[t] = "document" THEN old.version + 1 ELSE old.version) /\ n # 0
  BY DEF ThingRows
<1>2. new = [old EXCEPT !.group = g, !.version = n]
  BY <1>1 DEF Marks
<1>3. g \in 0 .. MaxGroups
  BY NoIds
<1> QED
  BY ONLY <1>1, <1>2, <1>3, old \in ThingRows DEF ThingRows

LEMMA TrashCommitStep ==
    ASSUME TrashInv, NEW p \in Workers, NEW g \in Groups, TrashCommit(p, g) PROVE TrashInv' /\ ThingsKeep /\ GroupsKeep
<1> USE TrashIs
<1>1. p \in Procs
  BY DEF Procs
<1>15. PICK key : key = proc[p].key
  OBVIOUS
<1>2. PICK root \in Spaces \cup Things, members \in SUBSET Things :
         /\ root = proc[p].root /\ members = proc[p].members
         /\ members \cap Inactive = {}
  <2>1. proc[p].at = "trash" /\ Told(proc[p], group)
    BY <1>1 DEF TrashCommit, RequestsTell
  <2>2. proc[p].root \in Spaces \cup Things /\ proc[p].members \cap Inactive = {}
    BY ONLY <2>1 DEF Told
  <2>3. proc[p].members \in SUBSET Things
    BY <1>1, RequestIs
  <2> QED
    BY ONLY <2>2, <2>3
<1>3. PICK s \in Spaces : s = IF root \in Spaces THEN root ELSE thing[root].space
  BY ThingIs
<1>4. /\ TrashGuard(p, s) /\ group[g].state = "absent"
      /\ group' = [group EXCEPT ![g] = [state |-> "trashed", version |-> 1, root |-> root,
                                        space |-> s, members |-> members, due |-> FALSE]]
      /\ thing' = [t \in Things |->
                     IF t \in members
                     THEN [thing[t] EXCEPT !.group = g,
                                           !.version = IF Kind[t] = "document" THEN @ + 1 ELSE @]
                     ELSE thing[t]]
      /\ space' = BumpSpace(s, IF root \in Spaces THEN [space EXCEPT ![s].group = g] ELSE space)
      /\ receipt' = [receipt EXCEPT ![key] = [op |-> "trash", group |-> g, state |-> "trashed"]]
  BY <1>2, <1>3, <1>15 DEF TrashCommit
<1>5. space[s].row /\ space[s].group = NoGroup
  <2>1. PICK parent : parent = proc[p].parent /\ parent.group = NoGroup /\ space[s].row
    BY <1>1, <1>4 DEF TrashGuard, RequestsTell, Told, TrashCommit
  <2>2. ParentOf(s) = parent
    BY <1>4, <2>1 DEF TrashGuard
  <2> QED
    BY ONLY <2>1, <2>2 DEF ParentOf
<1>6. /\ \A t \in members : thing[t].row /\ thing[t].group = NoGroup /\ thing[t].space = s
      /\ members \cap Inactive = {}
  BY <1>2, <1>4 DEF TrashGuard, Unmarked
<1>7. root \in Spaces => root = s /\ members = MembersOf(s)
  <2> HAVE root \in Spaces
  <2>1. root = s /\ Cardinality(MembersOf(s)) = Cardinality(members)
    BY <1>2, <1>3, <1>4 DEF TrashGuard
  <2>2. members \subseteq MembersOf(s) /\ MembersOf(s) \subseteq Things
    BY <1>6 DEF MembersOf, InSpace, Live, Unmarked
  <2>3. IsFiniteSet(MembersOf(s))
    BY <2>2, FS_Subset, TrashAssumption
  <2>4. members = MembersOf(s)
    BY ONLY <2>1, <2>2, <2>3, FS_Subset
  <2> QED
    BY <2>1, <2>4
<1>8. /\ group' \in [Groups -> GroupRows] /\ group'[g].state = "trashed" /\ group'[g].root = root
      /\ group'[g].space = s /\ group'[g].members = members
      /\ \A h \in Groups \ {g} : group'[h] = group[h]
  <2>1. PICK row : row = [state |-> "trashed", version |-> 1, root |-> root,
                          space |-> s, members |-> members, due |-> FALSE]
    OBVIOUS
  <2>2. /\ row \in GroupRows /\ row.state = "trashed" /\ row.root = root /\ row.space = s
        /\ row.members = members
    BY ONLY <2>1, s \in Spaces, root \in Spaces \cup Things, members \in SUBSET Things, StatesAre
       DEF GroupRows, Roots
  <2>3. group' = [group EXCEPT ![g] = row] /\ group \in [Groups -> GroupRows]
    BY <1>4, <2>1 DEF DataTyped
  <2> QED
    BY <2>2, <2>3
<1>9. ASSUME NEW t \in members
      PROVE  /\ thing'[t] \in ThingRows /\ thing'[t].group = g /\ thing'[t].row = thing[t].row
             /\ thing'[t].space = thing[t].space /\ thing'[t].cites = thing[t].cites
             /\ thing'[t].version # 0
  <2>1. PICK old \in ThingRows : old = thing[t] /\ old.version # 0
    BY <1>6, ThingIs DEF DataTells, ThingsTell
  <2>2. PICK new : new = Marks(old, g, t)
    OBVIOUS
  <2>3. /\ new \in ThingRows /\ new.group = g /\ new.row = old.row /\ new.space = old.space
        /\ new.cites = old.cites /\ new.version # 0
    BY <2>1, <2>2, MarkedThing
  <2>4. thing'[t] = new
    BY <1>4, <2>1, <2>2 DEF Marks
  <2> QED
    BY <2>1, <2>3, <2>4
<1>10. /\ \A t \in Things \ members : thing'[t] = thing[t]
       /\ thing' \in [Things -> ThingRows]
  <2>1. \A t \in Things \ members : thing'[t] = thing[t]
    BY <1>4
  <2>2. \A t \in Things : thing'[t] \in ThingRows
    BY <1>9, <2>1, ThingIs
  <2>3. thing' = [t \in Things |-> thing'[t]]
    BY <1>4
  <2> QED
    BY <2>1, <2>2, <2>3
<1>11. /\ space' \in [Spaces -> SpaceRows]
       /\ \A u \in Spaces : /\ space'[u].row = space[u].row
                            /\ IF u = s /\ root \in Spaces THEN space'[u].group = g
                               ELSE space'[u].group = space[u].group
  <2>1. PICK old \in SpaceRows : old = space[s]
    BY SpaceIs
  <2>2. PICK new : new = [old EXCEPT !.group = g]
    OBVIOUS
  <2>3. new \in SpaceRows /\ new.row = old.row /\ new.group = g
    BY ONLY <2>2, old \in SpaceRows, g \in Groups, NoIds DEF SpaceRows
  <2>4. PICK sp : sp = IF root \in Spaces THEN [space EXCEPT ![s] = new] ELSE space
    OBVIOUS
  <2>5. /\ sp \in [Spaces -> SpaceRows] /\ space' = BumpSpace(s, sp)
        /\ \A u \in Spaces : /\ sp[u].row = space[u].row
                             /\ IF u = s /\ root \in Spaces THEN sp[u].group = g
                                ELSE sp[u].group = space[u].group
    BY <1>4, <2>1, <2>2, <2>3, <2>4 DEF DataTyped
  <2> QED
    BY <2>5, Versions
<1>12. DataTyped' /\ DataTells' /\ Goes(group, group')
  <2>1. group[g].state = "absent"
    BY <1>4
  <2> QED
    BY ONLY DataTyped, DataTells, g \in Groups, s \in Spaces, root \in Spaces \cup Things,
            members \in SUBSET Things, <2>1, <1>5, <1>6, <1>7, <1>8, <1>9, <1>10, <1>11, TrashData
<1>13. receipt' \in [Keys -> Receipts] /\ Answered(receipt', group')
  <2>1. PICK row \in Receipts : row = [op |-> "trash", group |-> g, state |-> "trashed"] /\ row.group = g
    BY ReceiptOf, StatesAre
  <2>2. PICK receipts, groups : receipts = receipt' /\ groups = group'
    OBVIOUS
  <2>3. /\ receipts = [receipt EXCEPT ![key] = row] /\ Goes(group, groups)
        /\ groups[g].state # "absent"
    BY <1>4, <1>8, <1>12, <2>1, <2>2
  <2>4. receipts \in [Keys -> Receipts] /\ Answered(receipts, groups)
    BY ONLY CallsTyped, RequestsTell, <2>1, <2>3, g \in Groups, row \in Receipts, PurgeReceipt
  <2> QED
    BY <2>2, <2>4
<1>14. /\ updated' \in [Groups -> Nat] /\ edits' \in 0 .. MaxEdits /\ crashes' \in 0 .. MaxCrashes
       /\ proc' = Ended(p)
  <2>1. PICK n \in Nat : n = Stored + 1
    BY StoredIs
  <2> QED
    BY <2>1 DEF TrashCommit, CallsTyped
<1>20. TrashInv'
  BY <1>1, <1>12, <1>13, <1>14, EndedGoes, TrashBack
<1>21. ThingsKeep
  BY <1>6, <1>9, <1>10 DEF ThingsKeep
<1>22. GroupsKeep
  BY <1>4, <1>8 DEF GroupsKeep
<1> QED
  BY <1>20, <1>21, <1>22

LEMMA RestoreCommitStep ==
    ASSUME TrashInv, NEW p \in Workers, RestoreCommit(p) PROVE TrashInv' /\ ThingsKeep /\ GroupsKeep
<1> USE TrashIs
<1>1. p \in Procs
  BY DEF Procs
<1>13. PICK key : key = proc[p].key
  OBVIOUS
<1>2. PICK g \in Groups : g = proc[p].group /\ group[g].state # "absent"
  BY <1>1 DEF RestoreCommit, RequestsTell, Told, Steps
<1>3. PICK s \in Spaces : s = group[g].space
  BY <1>2 DEF DataTells, GroupsTell
<1>4. /\ group[g].state \in Waiting /\ ParentOf(s) = proc[p].parent
      /\ thing' = [t \in Things |->
                     IF t \in HeldBy(g)
                     THEN [thing[t] EXCEPT !.group = NoGroup,
                                           !.version = IF Kind[t] = "document" THEN @ + 1 ELSE @]
                     ELSE thing[t]]
      /\ space' = BumpSpace(s, [u \in Spaces |-> IF space[u].group = g
                                                 THEN [space[u] EXCEPT !.group = NoGroup]
                                                 ELSE space[u]])
      /\ group' = [group EXCEPT ![g].state = "restored", ![g].version = @ + 1]
      /\ receipt' = [receipt EXCEPT ![key] = [op |-> "restore", group |-> g, state |-> "restored"]]
  BY <1>2, <1>3, <1>13 DEF RestoreCommit, RestoreGuard, GroupGuard
<1>5. group[g].root \notin Spaces => space[s].group = NoGroup
  <2>1. PICK parent : parent = proc[p].parent /\ (group[g].root \notin Spaces => parent.group = NoGroup)
    BY <1>1, <1>2 DEF RestoreCommit, RequestsTell, Told
  <2>2. ParentOf(s) = parent
    BY <1>4, <2>1
  <2> QED
    BY ONLY <2>1, <2>2 DEF ParentOf
<1>6. /\ group' \in [Groups -> GroupRows] /\ group'[g].state = "restored"
      /\ group'[g].root = group[g].root /\ group'[g].space = group[g].space
      /\ \A h \in Groups \ {g} : group'[h] = group[h]
  <2>1. PICK old \in GroupRows : old = group[g]
    BY GroupIs
  <2>2. PICK n \in Nat : n = old.version + 1
    BY DEF GroupRows
  <2>3. PICK new : new = [old EXCEPT !.state = "restored", !.version = n]
    OBVIOUS
  <2>4. new \in GroupRows /\ new.state = "restored" /\ new.root = old.root /\ new.space = old.space
    BY ONLY <2>3, old \in GroupRows, n \in Nat, StatesAre DEF GroupRows
  <2>5. group' = [group EXCEPT ![g] = new] /\ group \in [Groups -> GroupRows]
    BY <1>4, <2>1, <2>2, <2>3 DEF DataTyped
  <2> QED
    BY <2>1, <2>4, <2>5
<1>7. ASSUME NEW t \in Things, thing[t].row /\ thing[t].group = g
      PROVE  /\ thing'[t] \in ThingRows /\ thing'[t].group = NoGroup /\ thing'[t].row = thing[t].row
             /\ thing'[t].space = thing[t].space /\ thing'[t].cites = thing[t].cites
             /\ thing'[t].version # 0
  <2>1. PICK old \in ThingRows : old = thing[t] /\ old.version # 0
    BY <1>7, ThingIs DEF DataTells, ThingsTell
  <2>2. PICK new : new = Marks(old, NoGroup, t)
    OBVIOUS
  <2>3. /\ new \in ThingRows /\ new.group = NoGroup /\ new.row = old.row /\ new.space = old.space
        /\ new.cites = old.cites /\ new.version # 0
    BY <2>1, <2>2, MarkedThing
  <2>4. thing'[t] = new
    BY <1>4, <1>7, <2>1, <2>2 DEF HeldBy, Marks
  <2> QED
    BY <2>1, <2>3, <2>4
<1>8. /\ \A t \in Things : ~ (thing[t].row /\ thing[t].group = g) => thing'[t] = thing[t]
      /\ thing' \in [Things -> ThingRows]
  <2>1. \A t \in Things : ~ (thing[t].row /\ thing[t].group = g) => thing'[t] = thing[t]
    BY <1>4 DEF HeldBy
  <2>2. \A t \in Things : thing'[t] \in ThingRows
    BY <1>7, <2>1, ThingIs
  <2>3. thing' = [t \in Things |-> thing'[t]]
    BY <1>4
  <2> QED
    BY <2>1, <2>2, <2>3
<1>9. /\ space' \in [Spaces -> SpaceRows]
      /\ \A u \in Spaces : /\ space'[u].row = space[u].row
                           /\ IF space[u].group = g THEN space'[u].group = NoGroup
                              ELSE space'[u].group = space[u].group
  <2>1. PICK sp : sp = [u \in Spaces |-> IF space[u].group = g
                                         THEN [space[u] EXCEPT !.group = NoGroup] ELSE space[u]]
    OBVIOUS
  <2>2. ASSUME NEW u \in Spaces
        PROVE  /\ sp[u] \in SpaceRows /\ sp[u].row = space[u].row
               /\ IF space[u].group = g THEN sp[u].group = NoGroup ELSE sp[u].group = space[u].group
    <3>1. PICK old \in SpaceRows : old = space[u]
      BY SpaceIs
    <3>2. PICK new : new = [old EXCEPT !.group = NoGroup]
      OBVIOUS
    <3>3. new \in SpaceRows /\ new.row = old.row /\ new.group = NoGroup
      BY ONLY <3>2, old \in SpaceRows, NoIds DEF SpaceRows
    <3>4. sp[u] = IF space[u].group = g THEN new ELSE old
      BY <2>1, <3>1, <3>2
    <3> QED
      BY <3>1, <3>3, <3>4
  <2>3. sp \in [Spaces -> SpaceRows]
    BY <2>1, <2>2
  <2>4. space' = BumpSpace(s, sp)
    BY <1>4, <2>1
  <2> QED
    BY <2>2, <2>3, <2>4, Versions
<1>10. DataTyped' /\ DataTells' /\ Goes(group, group')
  BY <1>3, <1>4, <1>5, <1>6, <1>7, <1>8, <1>9, RestoreData
<1>11. receipt' \in [Keys -> Receipts] /\ Answered(receipt', group')
  <2>1. PICK row \in Receipts : row = [op |-> "restore", group |-> g, state |-> "restored"] /\ row.group = g
    BY ReceiptOf, StatesAre
  <2>2. PICK receipts, groups : receipts = receipt' /\ groups = group'
    OBVIOUS
  <2>3. /\ receipts = [receipt EXCEPT ![key] = row] /\ Goes(group, groups)
        /\ groups[g].state # "absent"
    BY <1>4, <1>6, <1>10, <2>1, <2>2
  <2>4. receipts \in [Keys -> Receipts] /\ Answered(receipts, groups)
    BY ONLY CallsTyped, RequestsTell, <2>1, <2>3, g \in Groups, row \in Receipts, PurgeReceipt
  <2> QED
    BY <2>2, <2>4
<1>12. /\ updated' \in [Groups -> Nat] /\ edits' \in 0 .. MaxEdits /\ crashes' \in 0 .. MaxCrashes
       /\ proc' = Ended(p)
  BY <1>2, TouchedTyped DEF RestoreCommit, CallsTyped
<1>20. TrashInv'
  BY <1>1, <1>10, <1>11, <1>12, EndedGoes, TrashBack
<1>21. ThingsKeep
  BY <1>7, <1>8 DEF ThingsKeep
<1>22. GroupsKeep
  BY <1>4, <1>6, StatesAre DEF GroupsKeep
<1> QED
  BY <1>20, <1>21, <1>22


-----------------------------------------------------------------------------
(* The batches of a purge, and its end. *)

LEMMA DeleteData ==
    ASSUME DataTyped, DataTells, UNCHANGED space, NEW g \in Groups, group[g].state = "purging",
           NEW gone \in SUBSET Things,
           group' \in [Groups -> GroupRows], group'[g].state = "purging",
           group'[g].root = group[g].root, group'[g].space = group[g].space,
           group'[g].members = group[g].members \ gone,
           \A h \in Groups \ {g} : group'[h] = group[h],
           thing' \in [Things -> ThingRows],
           \A t \in Things : IF t \in gone /\ thing[t].group = g
                             THEN /\ ~ thing'[t].row /\ thing'[t].group = g
                                  /\ thing'[t].space = thing[t].space /\ thing'[t].cites = thing[t].cites
                                  /\ thing'[t].version = thing[t].version
                             ELSE thing'[t] = thing[t]
    PROVE  DataTyped' /\ DataTells' /\ Goes(group, group')
<1> USE DEF DataTells
<1>1. DataTyped'
  BY DEF DataTyped
<1>2. \A t \in Things : /\ thing[t].group # NoGroup => thing[t].group \in Groups
                        /\ thing[t].row \in BOOLEAN /\ thing'[t].row \in BOOLEAN
  BY <1>1, ThingIs DEF DataTyped, ThingRows
<1>3. \A t \in Things : /\ thing'[t].group = thing[t].group /\ thing'[t].space = thing[t].space
                        /\ thing'[t].cites = thing[t].cites /\ thing'[t].version = thing[t].version
                        /\ thing'[t].row => thing[t].row
                        /\ thing[t].row /\ ~ thing'[t].row => thing[t].group = g
                        /\ thing'[t].row /\ thing[t].group = g => t \notin gone
  BY <1>2
<1>4. \A h \in Groups : /\ group'[h].state = group[h].state /\ group'[h].root = group[h].root
                        /\ group'[h].space = group[h].space
                        /\ group'[h].members \subseteq group[h].members
                        /\ \A t \in group[h].members : t \in group'[h].members \/ (h = g /\ t \in gone)
  OBVIOUS
<1>5. GroupsTell'
  BY <1>4 DEF GroupsTell
<1>6. ThingsTell'
  <2> SUFFICES ASSUME NEW t \in Things
               PROVE  /\ thing'[t].group # NoGroup =>
                            /\ group'[thing'[t].group].state \in Unresolved \cup {"purged"}
                            /\ thing'[t].row =>
                                  /\ group'[thing'[t].group].state \in Unresolved
                                  /\ t \in group'[thing'[t].group].members
                                  /\ group'[thing'[t].group].space = thing'[t].space
                            /\ ~ thing'[t].row => group'[thing'[t].group].state \in {"purging", "purged"}
                      /\ thing'[t].version = 0 =>
                            /\ ~ thing'[t].row /\ thing'[t].group = NoGroup
                            /\ thing'[t].space = Home[t] /\ thing'[t].cites = {}
                      /\ t \in Present => thing'[t].version # 0
                      /\ t \in Inactive => thing'[t].group = NoGroup
    BY DEF ThingsTell
  <2>1. ASSUME thing[t].group # NoGroup
        PROVE  /\ group'[thing[t].group].state \in Unresolved \cup {"purged"}
               /\ thing'[t].row => /\ group'[thing[t].group].state \in Unresolved
                                   /\ t \in group'[thing[t].group].members
                                   /\ group'[thing[t].group].space = thing[t].space
               /\ ~ thing'[t].row => group'[thing[t].group].state \in {"purging", "purged"}
    <3>1. thing[t].group \in Groups
      BY <1>2, <2>1
    <3>2. CASE thing'[t].row
      BY <1>3, <1>4, <2>1, <3>1, <3>2 DEF ThingsTell
    <3>3. CASE ~ thing'[t].row /\ thing[t].row
      BY <1>3, <1>4, <3>3, StatesAre
    <3>4. CASE ~ thing'[t].row /\ ~ thing[t].row
      BY <1>4, <2>1, <3>1, <3>4 DEF ThingsTell
    <3> QED
      BY <3>2, <3>3, <3>4
  <2>2. /\ thing[t].version = 0 =>
              /\ ~ thing'[t].row /\ thing[t].group = NoGroup
              /\ thing[t].space = Home[t] /\ thing[t].cites = {}
        /\ t \in Present => thing[t].version # 0
        /\ t \in Inactive => thing[t].group = NoGroup
    BY <1>3 DEF ThingsTell
  <2> QED
    BY <1>3, <2>1, <2>2
<1>7. SpacesTell'
  <2>1. \A u \in Spaces : space[u].group # NoGroup => space[u].group \in Groups
    BY SpaceIs
  <2> QED
    BY <1>4, <2>1 DEF SpacesTell
<1>8. PurgesTell'
  BY <1>3, <1>4 DEF PurgesTell
<1>9. NothingDangles'
  <2>1. TrashedSpaceIsClosed'
    BY <1>3 DEF NothingDangles, TrashedSpaceIsClosed, InSpace, Live, Unmarked
  <2>2. ASSUME NEW t \in Things, thing[t].group # NoGroup /\ group[thing[t].group].state = "purging"
        PROVE  thing'[t].group # NoGroup /\ group'[thing'[t].group].state = "purging"
    BY <1>2, <1>3, <1>4, <2>2
  <2>3. ASSUME NEW t \in Things, NEW u \in Spaces, thing'[t].row, u \in thing'[t].cites
        PROVE  space'[u].row \/ (thing'[t].group # NoGroup /\ group'[thing'[t].group].state = "purging")
    BY <1>3, <2>2, <2>3 DEF NothingDangles
  <2>4. ASSUME NEW i \in Things, NEW j \in Things \ Inactive, <<i, j>> \in Supersedes, thing'[i].row
        PROVE  thing'[j].row \/ (thing'[i].group # NoGroup /\ group'[thing'[i].group].state = "purging")
    <3>1. CASE thing[j].row /\ ~ thing'[j].row
      <4>1. thing[i].group = g
        BY <1>3, <2>4, <3>1 DEF PurgesTell
      <4> QED
        BY <2>2, <4>1, NoIds
    <3>2. CASE ~ thing[j].row
      BY <1>3, <2>2, <2>4, <3>2 DEF NothingDangles
    <3> QED
      BY <3>1, <3>2
  <2> QED
    BY <2>1, <2>3, <2>4 DEF NothingDangles
<1>10. Goes(group, group')
  BY <1>4 DEF Goes
<1> QED
  BY <1>1, <1>5, <1>6, <1>7, <1>8, <1>9, <1>10

\* The end of a purge finds nothing marked with its group.
LEMMA NoneMarked ==
    ASSUME DataTyped, DataTells, NEW g \in Groups, group[g].state = "purging", group[g].members = {}
    PROVE  /\ \A t \in Things : thing[t].row => thing[t].group # g
           /\ group[g].root \in Spaces =>
                 /\ group[g].space = group[g].root /\ space[group[g].root].group = g
                 /\ \A t \in Things : thing[t].space = group[g].root =>
                       ~ thing[t].row \/ t \in Inactive
<1> USE DEF DataTells
<1>1. \A t \in Things : thing[t].row => thing[t].group # g
  BY NoIds DEF ThingsTell
<1>2. ASSUME group[g].root \in Spaces
      PROVE  group[g].space = group[g].root /\ space[group[g].root].row /\ space[group[g].root].group = g
  BY <1>2, StatesAre DEF SpacesTell, GroupsTell
<1>3. ASSUME group[g].root \in Spaces, NEW t \in Things, thing[t].space = group[g].root, thing[t].row,
             t \notin Inactive
      PROVE  FALSE
  <2>1. thing[t].group \in Groups
    BY <1>2, <1>3, NoIds, ThingIs DEF NothingDangles, TrashedSpaceIsClosed, InSpace, Live, Unmarked
  <2>2. /\ group[thing[t].group].state \in Unresolved
        /\ group[thing[t].group].space = group[g].root
    BY <1>3, <2>1, NoIds DEF ThingsTell
  <2> QED
    BY <1>1, <1>3, <2>1, <2>2 DEF PurgesTell
<1> QED
  BY <1>1, <1>2, <1>3

LEMMA FinalData ==
    ASSUME DataTyped, DataTells, NEW g \in Groups, group[g].state = "purging",
           group[g].members = {},
           group' \in [Groups -> GroupRows], group'[g].state = "purged",
           group'[g].root = group[g].root, group'[g].space = group[g].space,
           group'[g].members = {}, \A h \in Groups \ {g} : group'[h] = group[h],
           thing' \in [Things -> ThingRows],
           \A t \in Things : /\ thing'[t].group = thing[t].group /\ thing'[t].space = thing[t].space
                             /\ thing'[t].cites = thing[t].cites /\ thing'[t].version = thing[t].version
                             /\ \/ thing'[t].row = thing[t].row
                                \/ t \in Inactive /\ ~ thing'[t].row,
           space' \in [Spaces -> SpaceRows],
           \A u \in Spaces : /\ space'[u].group = space[u].group
                             /\ space'[u].row <=> space[u].row /\ u # group[g].root
    PROVE  DataTyped' /\ DataTells' /\ Goes(group, group')
<1> USE DEF DataTells
<1>1. DataTyped'
  BY DEF DataTyped
<1>2. \A t \in Things : /\ thing[t].group # NoGroup => thing[t].group \in Groups
                        /\ thing[t].row => thing[t].group # g
  BY ThingIs, NoneMarked
<1>3. /\ \A u \in Spaces : space[u].group # NoGroup => space[u].group \in Groups
      /\ group[g].root \in Spaces => space[group[g].root].group = g
  BY SpaceIs, NoneMarked
<1>4. \A h \in Groups : /\ group'[h].root = group[h].root /\ group'[h].space = group[h].space
                        /\ group'[h].state = "absent" <=> group[h].state = "absent"
                        /\ group'[h].state \in Unresolved => h # g /\ group[h].state \in Unresolved
                        /\ group'[h].state = "purging" => h # g /\ group[h].state = "purging"
  BY StatesAre
<1>11. \A t \in Things : /\ thing'[t].row => thing[t].row
                         /\ t \notin Inactive => thing'[t].row = thing[t].row
  BY <1>1, ThingIs DEF DataTyped, ThingRows
<1>5. GroupsTell'
  BY <1>4 DEF GroupsTell
<1>6. ThingsTell'
  <2> SUFFICES ASSUME NEW t \in Things
               PROVE  /\ thing'[t].group # NoGroup =>
                            /\ group'[thing'[t].group].state \in Unresolved \cup {"purged"}
                            /\ thing'[t].row =>
                                  /\ group'[thing'[t].group].state \in Unresolved
                                  /\ t \in group'[thing'[t].group].members
                                  /\ group'[thing'[t].group].space = thing'[t].space
                            /\ ~ thing'[t].row => group'[thing'[t].group].state \in {"purging", "purged"}
                      /\ thing'[t].version = 0 =>
                            /\ ~ thing'[t].row /\ thing'[t].group = NoGroup
                            /\ thing'[t].space = Home[t] /\ thing'[t].cites = {}
                      /\ t \in Present => thing'[t].version # 0
                      /\ t \in Inactive => thing'[t].group = NoGroup
    BY DEF ThingsTell
  <2>1. CASE thing[t].group = NoGroup
    BY <2>1 DEF ThingsTell
  <2>2. CASE thing[t].group # NoGroup
    <3>1. thing'[t].row = thing[t].row
      BY <2>2 DEF ThingsTell
    <3>2. CASE thing[t].group = g
      BY <1>2, <2>2, <3>1, <3>2, StatesAre DEF ThingsTell
    <3>3. CASE thing[t].group # g
      BY <1>2, <2>2, <3>1, <3>3 DEF ThingsTell
    <3> QED
      BY <3>2, <3>3
  <2> QED
    BY <2>1, <2>2
<1>7. SpacesTell'
  <2>1. ASSUME NEW u \in Spaces, space'[u].row, space'[u].group # NoGroup
        PROVE  group'[space'[u].group].state \in Unresolved /\ group'[space'[u].group].root = u
    <3>1. /\ space[u].row /\ u # group[g].root /\ space'[u].group = space[u].group
          /\ space[u].group \in Groups
      BY <1>3, <2>1
    <3>2. space[u].group # g
      BY <2>1, <3>1 DEF SpacesTell
    <3> QED
      BY <2>1, <3>1, <3>2 DEF SpacesTell
  <2>2. ASSUME NEW h \in Groups, group'[h].state \in Unresolved, group'[h].root \in Spaces
        PROVE  space'[group'[h].root].row /\ space'[group'[h].root].group = h
    BY <1>3, <1>4, <2>2 DEF SpacesTell
  <2> QED
    BY <2>1, <2>2 DEF SpacesTell
<1>8. PurgesTell'
  BY <1>4, <1>11 DEF PurgesTell
<1>9. NothingDangles'
  <2>1. TrashedSpaceIsClosed'
    BY <1>11 DEF NothingDangles, TrashedSpaceIsClosed, InSpace, Live, Unmarked
  <2>2. ASSUME NEW t \in Things, thing[t].row, thing[t].group # NoGroup /\ group[thing[t].group].state = "purging"
        PROVE  group'[thing[t].group].state = "purging"
    BY <1>2, <2>2
  <2>3. ASSUME NEW t \in Things, NEW u \in Spaces, thing'[t].row, u \in thing'[t].cites
        PROVE  space'[u].row \/ (thing'[t].group # NoGroup /\ group'[thing'[t].group].state = "purging")
    <3>1. CASE u = group[g].root
      BY <1>2, <1>11, <2>3, <3>1 DEF PurgesTell
    <3>2. CASE u # group[g].root
      BY <1>11, <2>2, <2>3, <3>2 DEF NothingDangles
    <3> QED
      BY <3>1, <3>2
  <2>4. ASSUME NEW i \in Things, NEW j \in Things \ Inactive, <<i, j>> \in Supersedes, thing'[i].row
        PROVE  thing'[j].row \/ (thing'[i].group # NoGroup /\ group'[thing'[i].group].state = "purging")
    BY <1>11, <2>2, <2>4 DEF NothingDangles
  <2> QED
    BY <2>1, <2>3, <2>4 DEF NothingDangles
<1>10. Goes(group, group')
  <2> SUFFICES ASSUME NEW h \in Groups, group[h].state # "absent"
               PROVE  /\ group'[h].state # "absent" /\ group'[h].root = group[h].root
                      /\ group[h].state \in {"purging", "purged"} =>
                            /\ group'[h].state \in {"purging", "purged"}
                            /\ group'[h].members \subseteq group[h].members
    BY DEF Goes
  <2>1. CASE h = g
    BY <2>1
  <2>2. CASE h # g
    BY <2>2
  <2> QED
    BY <2>1, <2>2
<1> QED
  BY <1>1, <1>5, <1>6, <1>7, <1>8, <1>9, <1>10


LEMMA BatchDeleteStep ==
    ASSUME TrashInv, NEW p \in Procs, BatchDelete(p) PROVE TrashInv' /\ ThingsKeep /\ GroupsKeep
<1> USE TrashIs
<1>1. PICK g \in Groups : g = proc[p].group /\ group[g].state = "purging"
  BY DEF BatchDelete, RequestsTell, Told, Steps
<1>2. PICK gone \in SUBSET Things : gone = proc[p].members
  BY RequestIs
<1>3. /\ thing' = [t \in Things |->
                     IF t \in gone /\ thing[t].group = g THEN [thing[t] EXCEPT !.row = FALSE]
                     ELSE thing[t]]
      /\ group' = [group EXCEPT ![g].members = @ \ gone]
  BY <1>1, <1>2 DEF BatchDelete
<1>4. /\ group' \in [Groups -> GroupRows] /\ group'[g].state = "purging"
      /\ group'[g].root = group[g].root /\ group'[g].space = group[g].space
      /\ group'[g].members = group[g].members \ gone
      /\ \A h \in Groups \ {g} : group'[h] = group[h]
  <2>1. PICK old \in GroupRows : old = group[g]
    BY GroupIs
  <2>2. PICK rest \in SUBSET Things : rest = old.members \ gone
    BY DEF GroupRows
  <2>3. PICK new : new = [old EXCEPT !.members = rest]
    OBVIOUS
  <2>4. /\ new \in GroupRows /\ new.state = old.state /\ new.root = old.root
        /\ new.space = old.space /\ new.members = rest
    BY ONLY <2>3, old \in GroupRows, rest \in SUBSET Things DEF GroupRows
  <2>5. group' = [group EXCEPT ![g] = new] /\ group \in [Groups -> GroupRows]
    BY <1>3, <2>1, <2>2, <2>3 DEF DataTyped
  <2> QED
    BY <1>1, <2>1, <2>2, <2>4, <2>5
<1>5. ASSUME NEW t \in Things, t \in gone /\ thing[t].group = g
      PROVE  /\ thing'[t] \in ThingRows /\ ~ thing'[t].row /\ thing'[t].group = g
             /\ thing'[t].space = thing[t].space /\ thing'[t].cites = thing[t].cites
             /\ thing'[t].version = thing[t].version
  <2>1. PICK old \in ThingRows : old = thing[t]
    BY ThingIs
  <2>2. PICK new : new = [old EXCEPT !.row = FALSE]
    OBVIOUS
  <2>3. /\ new \in ThingRows /\ ~ new.row /\ new.group = old.group /\ new.space = old.space
        /\ new.cites = old.cites /\ new.version = old.version
    BY ONLY <2>2, old \in ThingRows DEF ThingRows
  <2>4. thing'[t] = new
    BY <1>3, <1>5, <2>1, <2>2
  <2> QED
    BY <1>5, <2>1, <2>3, <2>4
<1>6. /\ \A t \in Things : ~ (t \in gone /\ thing[t].group = g) => thing'[t] = thing[t]
      /\ thing' \in [Things -> ThingRows]
  <2>1. \A t \in Things : ~ (t \in gone /\ thing[t].group = g) => thing'[t] = thing[t]
    BY <1>3
  <2>2. \A t \in Things : thing'[t] \in ThingRows
    BY <1>5, <2>1, ThingIs
  <2>3. thing' = [t \in Things |-> thing'[t]]
    BY <1>3
  <2> QED
    BY <2>1, <2>2, <2>3
<1>7. DataTyped' /\ DataTells' /\ Goes(group, group')
  <2>1. UNCHANGED space /\ group[g].state = "purging"
    BY <1>1 DEF BatchDelete
  <2>2. \A t \in Things : IF t \in gone /\ thing[t].group = g
                            THEN /\ ~ thing'[t].row /\ thing'[t].group = g
                                 /\ thing'[t].space = thing[t].space /\ thing'[t].cites = thing[t].cites
                                 /\ thing'[t].version = thing[t].version
                            ELSE thing'[t] = thing[t]
    BY ONLY <1>5, <1>6
  <2> QED
    BY ONLY DataTyped, DataTells, g \in Groups, gone \in SUBSET Things, <2>1, <1>4, <2>2, <1>6,
            DeleteData
<1>8. PICK old \in RequestRows : old = proc[p]
  BY RequestIs
<1>9. PICK none \in SUBSET Things : none = {}
  OBVIOUS
<1>10. PICK r : r = [old EXCEPT !.at = "count", !.members = none]
  OBVIOUS
<1>11. r \in RequestRows /\ r.at = "count" /\ r.group = old.group
  BY ONLY <1>10, old \in RequestRows, none \in SUBSET Things DEF RequestRows, Steps
<1>12. Told(r, group')
  BY <1>1, <1>4, <1>8, <1>11 DEF Told, Steps
<1>13. proc' = [proc EXCEPT ![p] = r]
  BY <1>8, <1>9, <1>10 DEF BatchDelete
<1>14. /\ updated' \in [Groups -> Nat] /\ edits' \in 0 .. MaxEdits /\ crashes' \in 0 .. MaxCrashes
       /\ receipt' \in [Keys -> Receipts] /\ UNCHANGED receipt
  BY DEF BatchDelete, CallsTyped
<1>15. Answered(receipt', group')
  BY <1>7, <1>14, ReceiptsStay
<1>20. TrashInv'
  BY <1>7, <1>11, <1>12, <1>13, <1>14, <1>15, RequestGoes, TrashBack
<1>21. ThingsKeep
  <2>1. \A t \in Inactive : thing[t].group = NoGroup
    BY TrashAssumption DEF DataTells, ThingsTell
  <2> QED
    BY <1>1, <1>5, <1>6, <2>1, NoIds DEF ThingsKeep
<1>22. GroupsKeep
  BY <1>1, <1>4 DEF GroupsKeep
<1> QED
  BY <1>20, <1>21, <1>22

\* The receipts of a purge are the same, but for their state.
LEMMA Purged ==
    ASSUME CallsTyped, RequestsTell, NEW g \in Groups, NEW groups, Goes(group, groups)
    PROVE  PurgedReceipts(g) \in [Keys -> Receipts] /\ Answered(PurgedReceipts(g), groups)
<1>1. PICK receipts : receipts = PurgedReceipts(g)
  OBVIOUS
<1>2. ASSUME NEW k \in Keys
      PROVE  /\ receipts[k] \in Receipts /\ receipts[k].op = receipt[k].op
             /\ receipts[k].group = receipt[k].group
  <2>1. PICK old \in Receipts : old = receipt[k]
    BY DEF CallsTyped
  <2>2. PICK new : new = [old EXCEPT !.state = "purged"]
    OBVIOUS
  <2>3. new \in Receipts /\ new.op = old.op /\ new.group = old.group
    BY ONLY <2>2, old \in Receipts, StatesAre DEF Receipts
  <2>4. receipts[k] = new \/ receipts[k] = old
    BY <1>1, <2>1, <2>2 DEF PurgedReceipts
  <2> QED
    BY <2>1, <2>3, <2>4
<1>3. receipts \in [Keys -> Receipts]
  BY <1>1, <1>2 DEF PurgedReceipts
<1>4. Answered(receipts, groups)
  BY <1>2 DEF Answered, RequestsTell, Goes
<1> QED
  BY <1>1, <1>3, <1>4

LEMMA BatchFinalStep ==
    ASSUME TrashInv, NEW p \in Procs, BatchFinal(p) PROVE TrashInv' /\ GroupsKeep /\ ThingsKeep
<1> USE TrashIs
<1>1. PICK g \in Groups : /\ g = proc[p].group /\ group[g].state = "purging"
                          /\ group[g].members = {}
  BY DEF BatchFinal, FinalGuard, RequestsTell, Told, Steps
<1>2. PICK s : s = group[g].space
  OBVIOUS
<1>3. /\ IF group[g].root \in Spaces
         THEN /\ space' = IF space[s].group = g THEN [space EXCEPT ![s].row = FALSE] ELSE space
              /\ thing' = [t \in Things |->
                             IF thing[t].space = s THEN [thing[t] EXCEPT !.row = FALSE]
                             ELSE thing[t]]
         ELSE UNCHANGED <<space, thing>>
      /\ group' = [group EXCEPT ![g].state = "purged", ![g].members = {}]
      /\ updated' = Touched(g) /\ receipt' = PurgedReceipts(g) /\ proc' = Ended(p)
      /\ UNCHANGED <<edits, crashes>>
  BY <1>1, <1>2 DEF BatchFinal
<1>4. /\ group' \in [Groups -> GroupRows] /\ group'[g].state = "purged"
      /\ group'[g].root = group[g].root /\ group'[g].space = group[g].space
      /\ group'[g].members = {} /\ \A h \in Groups \ {g} : group'[h] = group[h]
  <2>1. PICK old \in GroupRows : old = group[g]
    BY GroupIs
  <2>2. PICK none \in SUBSET Things : none = {}
    OBVIOUS
  <2>3. PICK new : new = [old EXCEPT !.state = "purged", !.members = none]
    OBVIOUS
  <2>4. /\ new \in GroupRows /\ new.state = "purged" /\ new.root = old.root
        /\ new.space = old.space /\ new.members = none
    BY ONLY <2>3, old \in GroupRows, none \in SUBSET Things, StatesAre DEF GroupRows
  <2>5. group' = [group EXCEPT ![g] = new] /\ group \in [Groups -> GroupRows]
    BY <1>3, <2>1, <2>2, <2>3 DEF DataTyped
  <2> QED
    BY <2>1, <2>2, <2>4, <2>5
<1>5. group[g].root \in Spaces =>
         /\ s = group[g].root /\ space[s].group = g
         /\ \A t \in Things : thing[t].space = s => ~ thing[t].row \/ t \in Inactive
  BY <1>1, <1>2, NoneMarked
<1>6. /\ thing' \in [Things -> ThingRows]
      /\ \A t \in Things :
            \/ thing'[t] = thing[t]
            \/ /\ t \in Inactive /\ ~ thing'[t].row
               /\ space[thing[t].space].group = g
               /\ thing'[t].group = thing[t].group /\ thing'[t].space = thing[t].space
               /\ thing'[t].cites = thing[t].cites /\ thing'[t].version = thing[t].version
  <2>1. CASE group[g].root \in Spaces
    <3>1. ASSUME NEW t \in Things
          PROVE  /\ thing'[t] \in ThingRows
                 /\ \/ thing'[t] = thing[t]
                    \/ /\ t \in Inactive /\ ~ thing'[t].row
                       /\ space[thing[t].space].group = g
                       /\ thing'[t].group = thing[t].group /\ thing'[t].space = thing[t].space
                       /\ thing'[t].cites = thing[t].cites /\ thing'[t].version = thing[t].version
      <4>1. PICK old \in ThingRows : old = thing[t]
        BY ThingIs
      <4>2. PICK new : new = [old EXCEPT !.row = FALSE]
        OBVIOUS
      <4>3. /\ new \in ThingRows /\ ~ new.row /\ new.group = old.group /\ new.space = old.space
            /\ new.cites = old.cites /\ new.version = old.version
            /\ old.row = FALSE => new = old
        BY ONLY <4>2, old \in ThingRows DEF ThingRows
      <4>4. old.space = s => old.row = FALSE \/ t \in Inactive
        BY <1>5, <2>1, <4>1, ThingIs
      <4>5. thing'[t] = IF old.space = s THEN new ELSE old
        BY <1>3, <2>1, <4>1, <4>2
      <4> QED
        BY <1>5, <2>1, <4>1, <4>3, <4>4, <4>5
    <3>2. thing' = [t \in Things |-> thing'[t]]
      BY <1>3, <2>1
    <3> QED
      BY <3>1, <3>2
  <2>2. CASE group[g].root \notin Spaces
    BY <1>3, <2>2 DEF DataTyped
  <2> QED
    BY <2>1, <2>2
<1>7. /\ space' \in [Spaces -> SpaceRows]
      /\ \A u \in Spaces : /\ space'[u].group = space[u].group
                           /\ space'[u].row <=> space[u].row /\ u # group[g].root
  <2>1. CASE group[g].root \in Spaces
    <3>1. PICK old \in SpaceRows : old = space[s]
      BY <1>5, <2>1, SpaceIs
    <3>2. PICK new : new = [old EXCEPT !.row = FALSE]
      OBVIOUS
    <3>3. new \in SpaceRows /\ ~ new.row /\ new.group = old.group
      BY ONLY <3>2, old \in SpaceRows DEF SpaceRows
    <3>4. space' = [space EXCEPT ![s] = new] /\ space \in [Spaces -> SpaceRows]
      BY <1>3, <1>5, <2>1, <3>1, <3>2 DEF DataTyped
    <3> QED
      BY <1>5, <2>1, <3>1, <3>3, <3>4
  <2>2. CASE group[g].root \notin Spaces
    BY <1>3, <2>2 DEF DataTyped
  <2> QED
    BY <2>1, <2>2
<1>8. DataTyped' /\ DataTells' /\ Goes(group, group')
  BY <1>1, <1>4, <1>6, <1>7, FinalData
<1>9. /\ updated' \in [Groups -> Nat] /\ edits' \in 0 .. MaxEdits /\ crashes' \in 0 .. MaxCrashes
      /\ proc' = Ended(p) /\ receipt' = PurgedReceipts(g)
  BY <1>3, TouchedTyped DEF CallsTyped
<1>10. receipt' \in [Keys -> Receipts] /\ Answered(receipt', group')
  <2>1. PICK groups : groups = group'
    OBVIOUS
  <2>2. PurgedReceipts(g) \in [Keys -> Receipts] /\ Answered(PurgedReceipts(g), groups)
    BY <1>8, <2>1, Purged
  <2> QED
    BY <1>9, <2>1, <2>2
<1>20. TrashInv'
  BY <1>6, <1>8, <1>9, <1>10, EndedGoes, TrashBack
<1>21. GroupsKeep
  BY <1>1, <1>4 DEF GroupsKeep
<1>22. ThingsKeep
  <2>1. \A t \in Inactive : thing[t].group = NoGroup
    BY TrashAssumption DEF DataTells, ThingsTell
  <2> QED
    BY <1>1, <1>6, <2>1, NoIds DEF ThingsKeep
<1> QED
  BY <1>20, <1>21, <1>22

-----------------------------------------------------------------------------
(* The invariant. *)

LEMMA TrashStarts == ASSUME TrashInit PROVE TrashInv
<1>1. ASSUME NEW s \in Spaces
      PROVE space[s] \in SpaceRows /\ space[s].row /\ space[s].group = NoGroup
  <2>1. PICK row : row = [row |-> TRUE, version |-> 1, state |-> "active",
                          group |-> NoGroup, attached |-> s \in Attached]
    OBVIOUS
  <2>2. row \in SpaceRows /\ row.row /\ row.group = NoGroup
    BY ONLY <2>1, NoIds DEF SpaceRows
  <2>3. space[s] = row
    BY <2>1 DEF TrashInit
  <2> QED
    BY <2>2, <2>3
<1>2. ASSUME NEW t \in Things
      PROVE  /\ thing[t] \in ThingRows /\ (thing[t].row <=> t \in Present) /\ thing[t].space = Home[t]
             /\ thing[t].group = NoGroup
             /\ thing[t].version = 0 => ~ thing[t].row /\ thing[t].cites = {}
             /\ t \in Present => thing[t].version # 0
  <2>1. PICK n \in Nat : n = IF t \in Present THEN 1 ELSE 0
    OBVIOUS
  <2>2. PICK cites \in SUBSET Spaces : cites = IF t \in Present THEN Cites[t] ELSE {}
    BY TrashAssumption
  <2>3. PICK home \in Spaces : home = Home[t]
    BY TrashAssumption
  <2>7. PICK there \in BOOLEAN : there = (t \in Present)
    <3>1. (t \in Present) \in BOOLEAN
      OBVIOUS
    <3> QED
      BY <3>1
  <2>8. there \in BOOLEAN /\ (there <=> t \in Present)
    BY ONLY there \in BOOLEAN, <2>7
  <2>4. PICK row : row = [row |-> there, space |-> home, version |-> n, group |-> NoGroup, cites |-> cites]
    OBVIOUS
  <2>5. /\ row \in ThingRows /\ row.row = there /\ row.space = home /\ row.group = NoGroup
        /\ row.version = n /\ row.cites = cites
    BY ONLY <2>4, n \in Nat, cites \in SUBSET Spaces, <2>8, home \in Spaces, NoIds
       DEF ThingRows
  <2>6. thing[t] = row
    BY <2>1, <2>2, <2>3, <2>4, <2>7 DEF TrashInit
  <2> QED
    BY <2>1, <2>2, <2>3, <2>5, <2>6, <2>8
<1>3. ASSUME NEW g \in Groups
      PROVE  group[g] \in GroupRows /\ group[g].state = "absent"
  <2>1. PICK row : row = [state |-> "absent", version |-> 0, root |-> NoRoot, space |-> NoRoot,
                          members |-> {}, due |-> FALSE]
    OBVIOUS
  <2>2. row \in GroupRows /\ row.state = "absent"
    BY ONLY <2>1, StatesAre DEF GroupRows, Roots
  <2>3. group[g] = row
    BY <2>1 DEF TrashInit
  <2> QED
    BY <2>2, <2>3
<1>4. NoReceipt \in Receipts /\ NoReceipt.op = "absent"
  BY NoIds, StatesAre DEF NoReceipt, Receipts
<1>5. Resting \in RequestRows /\ Resting.at = "idle" /\ Told(Resting, group)
  <2>1. << >> \in Seq(Groups)
    BY EmptySeq
  <2> QED
    BY <2>1, Rested
<1>6. DataTyped
  BY <1>1, <1>2, <1>3 DEF DataTyped, TrashInit
<1>7. CallsTyped
  BY <1>4, <1>5, TrashAssumption DEF CallsTyped, TrashInit
<1>8. RequestsTell
  BY <1>4, <1>5 DEF RequestsTell, TrashInit, Answered, Procs
<1>9. GroupsTell /\ ThingsTell /\ SpacesTell /\ PurgesTell
  <2>1. GroupsTell
    BY <1>3 DEF GroupsTell
  <2>2. ThingsTell
    BY <1>2 DEF ThingsTell
  <2>3. SpacesTell
    BY <1>1, <1>3, StatesAre DEF SpacesTell
  <2>4. PurgesTell
    BY <1>3 DEF PurgesTell
  <2> QED
    BY <2>1, <2>2, <2>3, <2>4
<1>10. NothingDangles
  <2>1. TrashedSpaceIsClosed
    BY <1>1 DEF TrashedSpaceIsClosed
  <2> QED
    BY <1>1, <1>2, <2>1, TrashAssumption DEF NothingDangles
<1> QED
  BY <1>6, <1>7, <1>8, <1>9, <1>10 DEF TrashInv, TrashTypeOK, DataTyped, CallsTyped


LEMMA TrashSteps ==
    ASSUME TrashInv, TrashNext PROVE TrashInv' /\ GroupsKeep /\ ThingsKeep
<1>1. ASSUME NEW p \in Workers, Owner(p)
      PROVE  TrashInv' /\ GroupsKeep /\ ThingsKeep
  <2>1. ASSUME NEW k \in Keys, NEW root \in Spaces \cup Things, TrashRead(p, k, root)
        PROVE  TrashInv' /\ GroupsKeep /\ ThingsKeep
    BY <2>1, TrashReadStep, NothingKept DEF TrashRead
  <2>2. ASSUME NEW k \in Keys, NEW g \in Groups,
               RestoreRead(p, k, g) \/ PurgeRead(p, k, g) \/ PurgeJoin(p, k, g)
        PROVE  TrashInv' /\ GroupsKeep /\ ThingsKeep
    BY <2>2, RestoreReadStep, PurgeReadStep, PurgeJoinStep, NothingKept
       DEF RestoreRead, PurgeRead, PurgeJoin
  <2>3. ASSUME NEW k \in Keys, PurgeAgain(p, k)
        PROVE  TrashInv' /\ GroupsKeep /\ ThingsKeep
    BY <2>3, PurgeAgainStep, NothingKept DEF PurgeAgain
  <2>4. ASSUME NEW g \in Groups, TrashCommit(p, g)
        PROVE  TrashInv' /\ GroupsKeep /\ ThingsKeep
    BY <2>4, TrashCommitStep
  <2>5. CASE RestoreCommit(p)
    BY <2>5, RestoreCommitStep
  <2>6. ASSUME NEW t \in Things, SkillRead(p, t)
        PROVE  TrashInv' /\ GroupsKeep /\ ThingsKeep
    BY <2>6, SkillReadStep, NothingKept DEF SkillRead
  <2>7. CASE SkillCommit(p)
    BY <2>7, SkillCommitStep, NothingKept DEF SkillCommit
  <2> QED
    BY <1>1, <2>1, <2>2, <2>3, <2>4, <2>5, <2>6, <2>7 DEF Owner
<1>2. ASSUME NEW p \in Procs, Purging(p)
      PROVE  TrashInv' /\ GroupsKeep /\ ThingsKeep
  <2>1. CASE PurgeBlocked(p)
    BY <2>1, PurgeBlockedStep, NothingKept DEF PurgeBlocked
  <2>2. CASE PurgeUnblocked(p)
    BY <2>2, PurgeUnblockedStep, NothingKept DEF PurgeUnblocked
  <2>3. CASE PurgeClaim(p)
    BY <2>3, PurgeClaimStep, NothingKept DEF PurgeClaim
  <2>4. CASE BatchRead(p)
    BY <2>4, BatchReadStep, NothingKept DEF BatchRead
  <2>5. CASE BatchDone(p)
    BY <2>5, BatchDoneStep, NothingKept DEF BatchDone
  <2>6. CASE BatchDelete(p)
    BY <2>6, BatchDeleteStep
  <2>7. CASE BatchCount(p)
    BY <2>7, BatchCountStep, NothingKept DEF BatchCount
  <2>8. CASE BatchFinal(p)
    BY <2>8, BatchFinalStep
  <2>9. CASE Conflict(p)
    BY <2>9, ConflictStep, NothingKept DEF Conflict
  <2> QED
    BY <1>2, <2>1, <2>2, <2>3, <2>4, <2>5, <2>6, <2>7, <2>8, <2>9 DEF Purging
<1>3. ASSUME NEW p \in Procs, Abandon(p)
      PROVE  TrashInv' /\ GroupsKeep /\ ThingsKeep
  BY <1>3, AbandonStep, NothingKept DEF Abandon
<1>4. CASE SweepStart \/ SweepGroup
  BY <1>4, SweepStartStep, SweepGroupStep, NothingKept DEF SweepStart, SweepGroup
<1>5. ASSUME NEW g \in Groups, Deadline(g)
      PROVE  TrashInv' /\ GroupsKeep /\ ThingsKeep
  BY <1>5, DeadlineStep, NothingKept DEF Deadline
<1>6. CASE Ordinary
  <2>1. ASSUME NEW t \in Things, Create(t) \/ ReviseItem(t)
        PROVE  TrashInv' /\ GroupsKeep /\ ThingsKeep
    BY <2>1, CreateStep, ReviseItemStep, NothingKept DEF Create, ReviseItem
  <2>2. ASSUME NEW t \in Things, NEW cites \in SUBSET Spaces, ReviseDocument(t, cites)
        PROVE  TrashInv' /\ GroupsKeep /\ ThingsKeep
    BY <2>2, ReviseDocumentStep, NothingKept DEF ReviseDocument
  <2>3. ASSUME NEW t \in Things, NEW k \in Keys, NEW s \in Spaces, Move(k, t, s)
        PROVE  TrashInv' /\ GroupsKeep /\ ThingsKeep
    BY <2>3, MoveStep, NothingKept DEF Move
  <2>4. ASSUME NEW s \in Spaces, ReviseSpace(s) \/ Detached(s)
        PROVE  TrashInv' /\ GroupsKeep /\ ThingsKeep
    BY <2>4, SpaceSteps, NothingKept DEF ReviseSpace, Detached
  <2> QED
    BY <1>6, <2>1, <2>2, <2>3, <2>4 DEF Ordinary
<1> QED
  BY <1>1, <1>2, <1>3, <1>4, <1>5, <1>6 DEF TrashNext

\* Groups, marks, Spaces, requests and receipts tell the same story in every state.
THEOREM TrashInvariant == TrashSpec => []TrashInv
<1>1. ASSUME TrashInv, UNCHANGED trashVars PROVE TrashInv'
  BY <1>1, SameData, SameGroups, TrashIs, RequestsStay, ReceiptsStay, TrashBack
     DEF trashVars, CallsTyped
<1> QED
  BY <1>1, TrashStarts, TrashSteps, PTL DEF TrashSpec

\* Every variable of the deletion groups keeps its type.
THEOREM TrashTypeCorrect == TrashSpec => []TrashTypeOK
<1>1. TrashInv => TrashTypeOK
  BY DEF TrashInv
<1> QED
  BY <1>1, TrashInvariant, PTL

\* What the Corpus keeps refers to nothing that a purge has deleted, and nothing
\* is live in a Space in the trash.
THEOREM PurgesLeaveNothingDangling == TrashSpec => []NothingDangles
<1>1. TrashInv => NothingDangles
  BY DEF TrashInv
<1> QED
  BY <1>1, TrashInvariant, PTL

\* A purge that has begun is never taken back, only it deletes, and what waits in
\* the trash is not edited.
THEOREM PurgesAloneDestroy == TrashSpec => OnlyPurgeDestroys
<1>1. ASSUME TrashInv, [TrashNext]_trashVars
      PROVE  [GroupsKeep /\ ThingsKeep]_trashVars
  BY <1>1, TrashSteps
<1>2. ASSUME [GroupsKeep /\ ThingsKeep]_trashVars
      PROVE  [/\ \A g \in Groups :
                    /\ group[g].state = "purging" => group'[g].state \in {"purging", "purged"}
                    /\ group[g].state \in {"purged", "restored"} => group'[g].state = group[g].state
              /\ \A t \in Things :
                    /\ thing[t].row /\ ~ thing'[t].row =>
                          LET g == IF t \in Inactive THEN space[thing[t].space].group
                                                     ELSE thing[t].group IN
                          g # NoGroup /\ group[g].state = "purging"
                    /\ thing[t].row /\ thing[t].group # NoGroup /\ Kind[t] # "context_skill" =>
                          \/ thing'[t] = thing[t]
                          \/ thing'[t].group = NoGroup \/ ~ thing'[t].row]_trashVars
  BY <1>2 DEF GroupsKeep, ThingsKeep
<1> QED
  BY <1>1, <1>2, TrashInvariant, PTL DEF TrashSpec, OnlyPurgeDestroys

-----------------------------------------------------------------------------
(* Staged records and their readers. *)

USE RecordsAssumption

\* The initial state has no pins, no citations and nothing in progress.
LEMMA TypeInit == Init => TypeOK
<1> SUFFICES ASSUME Init PROVE TypeOK
  OBVIOUS
<1>1. projection \in [Projections -> ProjectionRows]
  BY DEF Init, ProjectionRows
<1>2. upload \in [Uploads -> UploadRows] /\ pins \in [Writers -> SUBSET Projections]
  BY DEF Init, UploadRows
<1>3. note \in [Notes -> Snapshots]
  BY DEF Init, Snapshots
<1>4. writer \in [Writers -> Requests]
  BY DEF Init, Requests, Batches
<1>5. maintenance \in Cleanups
  BY DEF Init, NoCleanup, Cleanups
<1> QED
  BY <1>1, <1>2, <1>3, <1>4, <1>5 DEF Init, TypeOK

\* A request that goes on to another step keeps its batch.
LEMMA GotoTyped ==
    ASSUME writer \in [Writers -> Requests], NEW w \in Writers,
           NEW step \in {"idle", "protect", "commit", "release"}, Goto(w, step)
    PROVE  /\ writer' \in [Writers -> Requests]
           /\ writer'[w].at = step
           /\ writer'[w].batch = writer[w].batch
           /\ \A v \in Writers \ {w} : writer'[v] = writer[v]
  BY DEF Goto, Requests

\* The D1 batch writes a well-formed row, which cites what the batch has and
\* what the row cited before.
LEMMA BatchTyped ==
    ASSUME TypeOK, NEW b \in Batches, Batch(b)
    PROVE  note' \in [Notes -> Snapshots] /\ Cited' \subseteq Cited \cup b.refs
<1> DEFINE row == [version |-> b.version + 1, current |-> b.refs,
                   previous |-> note[b.note].current]
<1>1. note \in [Notes -> Snapshots] /\ b.note \in Notes
  BY DEF TypeOK, Batches
<1>2. row \in Snapshots
  BY <1>1 DEF Batches, Snapshots
<1>3. CASE note' = [note EXCEPT ![b.note] = row]
  <2>1. note' \in [Notes -> Snapshots]
    BY <1>1, <1>2, <1>3
  <2>2. \A n \in Notes : note'[n].current \cup note'[n].previous
                           \subseteq note[n].current \cup note[n].previous \cup b.refs
    BY <1>1, <1>3
  <2> QED
    BY <2>1, <2>2 DEF Cited
<1>4. CASE UNCHANGED note
  BY <1>1, <1>4 DEF Cited
<1> QED
  BY <1>3, <1>4 DEF Batch

LEMMA RecordsTyped ==
    ASSUME TypeOK, MaintainApply
    PROVE  /\ document' \in [Documents -> DocumentRows]
           /\ revisions' \subseteq Revisions
           /\ projection' \in [Projections -> ProjectionRows]
<1>1. NoProjection \in ProjectionRows
  BY DEF NoProjection, ProjectionRows
<1>2. projection' \in [Projections -> ProjectionRows]
  BY <1>1 DEF TypeOK, MaintainApply
<1>3. [row |-> FALSE, current |-> NoRevision] \in DocumentRows
  BY DEF DocumentRows
<1>4. document' \in [Documents -> DocumentRows]
  BY <1>3 DEF TypeOK, MaintainApply
<1> QED
  BY <1>2, <1>4 DEF TypeOK, MaintainApply

\* Type correctness is inductive by itself.
LEMMA TypeStep == TypeOK /\ [Next]_vars => TypeOK'
<1> SUFFICES ASSUME TypeOK, [Next]_vars PROVE TypeOK'
  OBVIOUS
<1> USE DEF recordVars, pinVars, saveVars
<1>1. ASSUME NEW u \in Uploads, Begin(u) \/ AddUnits(u) \/ RemoveUpload(u) PROVE TypeOK'
  <2>1. upload' \in [Uploads -> UploadRows] /\ rounds' \in Nat
    BY <1>1 DEF Begin, AddUnits, RemoveUpload, TypeOK, UploadRows
  <2> QED
    BY <1>1, <2>1 DEF Begin, AddUnits, RemoveUpload, TypeOK
<1>2. ASSUME NEW u \in Uploads, Commit(u) PROVE TypeOK'
  <2> DEFINE p == Header[u]
  <2>1. p \in Projections /\ Revision[p] \in Revisions /\ Origin(p) \in Documents
    BY DEF Origin
  <2>2. [row |-> TRUE, current |-> Revision[p]] \in DocumentRows
    BY <2>1 DEF DocumentRows
  <2>3. document' \in [Documents -> DocumentRows]
    BY <1>2, <2>1, <2>2 DEF Commit, TypeOK
  <2>4. [row |-> TRUE, active |-> TRUE, units |-> upload[u].units] \in ProjectionRows
    BY DEF TypeOK, UploadRows, ProjectionRows
  <2>5. \A q \in Projections, a \in BOOLEAN :
          [projection[q] EXCEPT !.active = a] \in ProjectionRows
    BY DEF TypeOK, ProjectionRows
  <2>6. \A q \in Projections :
          (projection[q].active /\ Revision[q] # Revision[p]) \in BOOLEAN
    OBVIOUS
  <2>7. projection' \in [Projections -> ProjectionRows]
    BY <1>2, <2>4, <2>5, <2>6 DEF Commit
  <2>8. upload' \in [Uploads -> UploadRows] /\ revisions' \subseteq Revisions
    BY <1>2, <2>1 DEF Commit, TypeOK, UploadRows
  <2> QED
    BY <1>2, <2>3, <2>7, <2>8 DEF Commit, TypeOK
<1>3. ASSUME NEW ps \in SUBSET Projections, NEW ds \in SUBSET Documents, MaintainStart(ps, ds)
      PROVE  TypeOK'
  BY <1>3 DEF MaintainStart, TypeOK, Cleanups
<1>4. CASE MaintainRead
  <2>1. Cited \subseteq Projections
    BY DEF TypeOK, Cited, Snapshots
  <2> QED
    BY <1>4, <2>1 DEF MaintainRead, TypeOK, Cleanups
<1>5. CASE MaintainApply
  <2>1. maintenance' \in Cleanups
    BY <1>5 DEF MaintainApply, NoCleanup, Cleanups
  <2> QED
    BY <1>5, <2>1, RecordsTyped DEF MaintainApply, TypeOK
<1>6. ASSUME NEW w \in Writers, NEW n \in Notes, NEW refs \in SUBSET Projections,
             Propose(w, n, refs)
      PROVE  TypeOK'
  <2>1. [at |-> "protect", batch |-> [note |-> n, version |-> note[n].version, refs |-> refs]]
          \in Requests
    BY DEF TypeOK, Snapshots, Batches, Requests
  <2>2. writer' \in [Writers -> Requests]
    BY <1>6, <2>1 DEF Propose, TypeOK
  <2> QED
    BY <1>6, <2>2 DEF Propose, TypeOK
<1>7. ASSUME NEW w \in Writers, Protect(w) PROVE TypeOK'
  <2>1. writer' \in [Writers -> Requests]
    BY <1>7, GotoTyped DEF Protect, TypeOK
  <2>2. writer[w].batch.refs \in SUBSET Projections
    BY DEF TypeOK, Requests, Batches
  <2>3. pins' \in [Writers -> SUBSET Projections]
    BY <1>7, <2>2 DEF Protect, TypeOK
  <2> QED
    BY <1>7, <2>1, <2>3 DEF Protect, TypeOK
<1>8. ASSUME NEW w \in Writers, Save(w) PROVE TypeOK'
  <2>1. writer' \in [Writers -> Requests] /\ writer[w].batch \in Batches
    BY <1>8, GotoTyped DEF Save, TypeOK, Requests
  <2>2. note' \in [Notes -> Snapshots]
    BY <1>8, <2>1, BatchTyped DEF Save
  <2> QED
    BY <1>8, <2>1, <2>2 DEF Save, TypeOK
<1>9. ASSUME NEW w \in Writers, Release(w) PROVE TypeOK'
  <2>1. writer' \in [Writers -> Requests]
    BY <1>9, GotoTyped DEF Release, TypeOK
  <2> QED
    BY <1>9, <2>1 DEF Release, TypeOK
<1>10. ASSUME NEW w \in Writers, Lost(w) \/ SaveUnknown(w) PROVE TypeOK'
  <2>1. writer' \in [Writers -> Requests] /\ writer[w].batch \in Batches
    BY <1>10, GotoTyped DEF Lost, SaveUnknown, TypeOK, Requests
  <2>2. pins' \in [Writers -> SUBSET Projections] /\ kept' \subseteq Projections
    BY <1>10 DEF Lost, SaveUnknown, Keep, TypeOK
  <2> QED
    BY <1>10, <2>1, <2>2 DEF Lost, SaveUnknown, TypeOK
<1>11. ASSUME NEW b \in late, LateSave(b) PROVE TypeOK'
  <2>1. note' \in [Notes -> Snapshots]
    BY <1>11, BatchTyped DEF LateSave, TypeOK
  <2> QED
    BY <1>11, <2>1 DEF LateSave, TypeOK
<1>12. CASE UNCHANGED vars
  BY <1>12 DEF vars, TypeOK
<1>13. ASSUME NEW w \in Writers, ProposeNext(w) PROVE TypeOK'
  <2>1. \A n \in Notes : note[n].previous \in SUBSET Projections
    BY DEF TypeOK, Snapshots
  <2>2. PICK n \in Notes : \E refs \in SUBSET Projections : Propose(w, n, refs)
    BY <1>13, <2>1 DEF ProposeNext
  <2> QED
    BY <1>6, <2>2
<1> QED
  BY <1>1, <1>2, <1>3, <1>4, <1>5, <1>7, <1>8, <1>9, <1>10, <1>11, <1>12, <1>13
     DEF Next, UploadNext, MaintenanceNext, WriterNext
-----------------------------------------------------------------------------
\* A projection that is readable stays so through everything but maintenance.
LEMMA CommitKeeps ==
    ASSUME TypeOK, NEW u \in Uploads, Commit(u), NEW p \in Projections, Readable(p)
    PROVE  Readable(p)'
<1>1. projection'[p].row /\ projection'[p].units = Parts
  BY DEF Commit, StagedWhole, Readable, TypeOK, ProjectionRows
<1> QED
  BY <1>1 DEF Readable

\* Maintenance removes nothing that is cited or pinned when it decides.
LEMMA ApplyKeeps ==
    ASSUME TypeOK, PinsHold, MaintainApply, NEW p \in Projections, Readable(p), p \in Held
    PROVE  Readable(p)'
<1>1. Safe(Origin(p))
  BY DEF Safe
<1>2. p \notin Removed /\ Origin(p) \notin RemovedDocuments
  BY <1>1 DEF Removed, RemovedDocuments
<1>3. projection'[p] = projection[p]
  BY <1>2 DEF MaintainApply
<1> QED
  BY <1>3 DEF Readable

-----------------------------------------------------------------------------
\* The invariant without types, for the steps that leave the records, and so
\* every projection, as they are: it is enough that citations and pins do not
\* outgrow what was cited or pinned, and that who commits has pinned.
LEMMA KeepsPins ==
    ASSUME PinInv, TypeOK',
           UNCHANGED projection,
           Cited' \cup Pinned' \subseteq Cited \cup Pinned,
           \A w \in Writers :
             writer'[w].at = "commit" => writer'[w].batch.refs \subseteq pins'[w],
           \A b \in late' : b.refs \subseteq kept',
           maintenance'.at = "deciding" => Cited' \subseteq Held'
    PROVE  PinInv'
<1>1. \A p \in Cited \cup Pinned : Readable(p)
  BY DEF PinInv, PinsHold, NoReferenceDangles
<1>2. \A p : Readable(p)' <=> Readable(p)
  BY DEF Readable
<1>3. NoReferenceDangles'
  BY <1>1, <1>2 DEF NoReferenceDangles
<1>4. PinsHold'
  BY <1>1, <1>2 DEF PinsHold
<1> QED
  BY <1>3, <1>4 DEF PinInv

\* The same when documents, pins and requests stay as they are and
\* maintenance, if it still decides, has seen what it had.
LEMMA KeepsAll ==
    ASSUME PinInv, TypeOK',
           UNCHANGED <<projection, pins, kept, note, writer, late>>,
           maintenance'.at = "deciding" =>
             maintenance.at = "deciding" /\ maintenance'.seen = maintenance.seen
    PROVE  PinInv'
<1>1. Cited' = Cited /\ Pinned' = Pinned
  BY DEF Cited, Pinned
<1>2. maintenance'.at = "deciding" => Cited' \subseteq Held'
  BY <1>1 DEF PinInv, PinsHold, Held
<1> QED
  BY <1>1, <1>2, KeepsPins DEF PinInv, PinsHold

LEMMA CommitStep ==
    ASSUME PinInv, TypeOK', NEW u \in Uploads, Commit(u)
    PROVE  PinInv'
<1>1. UNCHANGED <<pins, kept, note, writer, late, maintenance>>
  BY DEF Commit, pinVars, saveVars
<1>2. Cited' = Cited /\ Pinned' = Pinned /\ Held' = Held
  BY <1>1 DEF Cited, Pinned, Held
<1>3. Cited \cup Pinned \subseteq Projections
  BY DEF PinInv, TypeOK, Cited, Pinned, Snapshots
<1>4. \A p \in Cited \cup Pinned : Readable(p)'
  BY <1>3, CommitKeeps DEF PinInv, PinsHold, NoReferenceDangles
<1>5. NoReferenceDangles'
  BY <1>2, <1>4 DEF NoReferenceDangles
<1>6. PinsHold'
  BY <1>1, <1>2, <1>4 DEF PinInv, PinsHold
<1> QED
  BY <1>5, <1>6 DEF PinInv

LEMMA ApplyStep ==
    ASSUME PinInv, TypeOK', MaintainApply
    PROVE  PinInv'
<1>1. UNCHANGED <<pins, kept, note, writer, late>> /\ maintenance'.at # "deciding"
  BY DEF MaintainApply, pinVars, saveVars, NoCleanup
<1>2. Cited' = Cited /\ Pinned' = Pinned
  BY <1>1 DEF Cited, Pinned
<1>3. Cited \cup Pinned \subseteq Held
  BY DEF PinInv, PinsHold, MaintainApply, Held
<1>4. Cited \cup Pinned \subseteq Projections
  BY DEF PinInv, TypeOK, Cited, Pinned, Snapshots
<1>5. \A p \in Cited \cup Pinned : Readable(p)'
  BY <1>3, <1>4, ApplyKeeps DEF PinInv, PinsHold, NoReferenceDangles
<1>6. NoReferenceDangles'
  BY <1>2, <1>5 DEF NoReferenceDangles
<1>7. PinsHold'
  BY <1>1, <1>2, <1>5 DEF PinInv, PinsHold
<1> QED
  BY <1>6, <1>7 DEF PinInv

\* Pins are only taken away while maintenance is not deciding; those of a
\* request that ends early are kept.
LEMMA WriterStep ==
    ASSUME PinInv, TypeOK', NEW w \in Writers,
           Protect(w) \/ Save(w) \/ Release(w) \/ Lost(w) \/ SaveUnknown(w)
    PROVE  PinInv'
<1> USE DEF recordVars, pinVars, saveVars
<1>0. /\ TypeOK /\ PinsHold /\ writer \in [Writers -> Requests]
      /\ pins \in [Writers -> SUBSET Projections] /\ writer[w].batch \in Batches
  BY DEF PinInv, TypeOK, Requests
<1>1. CASE Protect(w)
  <2>1. Cited' = Cited /\ maintenance'.at # "deciding" /\ kept' = kept
    BY <1>1 DEF Protect, Cited, GateFree
  <2>2. CASE (\A p \in writer[w].batch.refs : Readable(p)) /\ Goto(w, "commit")
             /\ pins' = [pins EXCEPT ![w] = writer[w].batch.refs]
    <3>1. /\ \A v \in Writers \ {w} : writer'[v] = writer[v] /\ pins'[v] = pins[v]
          /\ writer'[w].batch = writer[w].batch /\ pins'[w] = writer[w].batch.refs
      BY <1>0, <2>2, GotoTyped
    <3>2. \A p \in Pinned' : Readable(p)
      BY <1>0, <2>1, <2>2, <3>1 DEF Pinned, PinsHold
    <3>3. \A p : Readable(p)' <=> Readable(p)
      BY <1>1 DEF Readable, Protect
    <3>4. NoReferenceDangles'
      BY <2>1, <3>3 DEF NoReferenceDangles, PinInv
    <3>5. PinsHold'
      BY <1>0, <1>1, <2>1, <3>1, <3>2, <3>3 DEF PinsHold, Protect
    <3> QED
      BY <3>4, <3>5 DEF PinInv
  <2>3. CASE Goto(w, "idle") /\ UNCHANGED pins
    <3>1. /\ \A v \in Writers \ {w} : writer'[v] = writer[v]
          /\ writer'[w].at = "idle"
      BY <1>0, <2>3, GotoTyped
    <3>2. Pinned' = Pinned
      BY <2>1, <2>3 DEF Pinned
    <3>3. \A v \in Writers :
            writer'[v].at = "commit" => writer'[v].batch.refs \subseteq pins'[v]
      BY <1>0, <2>3, <3>1 DEF PinsHold
    <3> QED
      BY <1>0, <1>1, <2>1, <3>2, <3>3, KeepsPins DEF Protect, PinsHold
  <2> QED
    BY <1>1, <2>2, <2>3 DEF Protect
<1>2. CASE Save(w)
  <2>1. /\ \A v \in Writers \ {w} : writer'[v] = writer[v]
        /\ writer'[w].at = "release"
    BY <1>0, <1>2, GotoTyped DEF Save
  <2>2. writer[w].batch.refs \subseteq pins[w] /\ pins[w] \subseteq Pinned
    BY <1>0, <1>2 DEF Save, PinsHold, Pinned
  <2>3. Cited' \subseteq Cited \cup Pinned
    BY <1>0, <1>2, <2>2, BatchTyped DEF Save
  <2>4. Pinned' = Pinned /\ Held' = Held
    BY <1>2 DEF Save, Pinned, Held
  <2>5. maintenance.at = "deciding" => Cited' \subseteq Held
    BY <1>0, <2>3 DEF PinsHold, Held
  <2>6. \A v \in Writers :
          writer'[v].at = "commit" => writer'[v].batch.refs \subseteq pins'[v]
    BY <1>0, <1>2, <2>1 DEF PinsHold, Save
  <2> QED
    BY <1>0, <1>2, <2>3, <2>4, <2>5, <2>6, KeepsPins DEF Save, PinsHold
<1>3. CASE Release(w)
  <2>1. /\ \A v \in Writers \ {w} : writer'[v] = writer[v] /\ pins'[v] = pins[v]
        /\ writer'[w].at = "idle" /\ pins'[w] = {}
    BY <1>0, <1>3, GotoTyped DEF Release
  <2>2. Pinned' \subseteq Pinned /\ Cited' = Cited
    BY <1>0, <1>3, <2>1 DEF Release, Pinned, Cited
  <2>3. maintenance'.at # "deciding"
    BY <1>3 DEF Release, GateFree
  <2>4. \A v \in Writers :
          writer'[v].at = "commit" => writer'[v].batch.refs \subseteq pins'[v]
    BY <1>0, <2>1 DEF PinsHold
  <2> QED
    BY <1>0, <1>3, <2>2, <2>3, <2>4, KeepsPins DEF Release, PinsHold
<1>4. CASE Lost(w) \/ SaveUnknown(w)
  <2>1. /\ \A v \in Writers \ {w} : writer'[v] = writer[v] /\ pins'[v] = pins[v]
        /\ writer'[w].at = "idle" /\ pins'[w] = {}
        /\ kept' = kept \cup pins[w]
    BY <1>0, <1>4, GotoTyped DEF Lost, SaveUnknown, Keep
  <2>2. Pinned' = Pinned
    BY <1>0, <1>4, <2>1 DEF Pinned
  <2>3. Cited' = Cited /\ Held' = Held
    BY <1>4, <2>2 DEF Lost, SaveUnknown, Cited, Held
  <2>4. \A b \in late' : b.refs \subseteq kept'
    BY <1>0, <1>4, <2>1 DEF Lost, SaveUnknown, PinsHold
  <2>5. \A v \in Writers :
          writer'[v].at = "commit" => writer'[v].batch.refs \subseteq pins'[v]
    BY <1>0, <2>1 DEF PinsHold
  <2> QED
    BY <1>0, <1>4, <2>2, <2>3, <2>4, <2>5, KeepsPins DEF Lost, SaveUnknown, PinsHold
<1> QED
  BY <1>1, <1>2, <1>3, <1>4

LEMMA PinStep == PinInv /\ [Next]_vars => PinInv'
<1> SUFFICES ASSUME PinInv, [Next]_vars PROVE PinInv'
  OBVIOUS
<1> USE DEF recordVars, pinVars, saveVars
<1>0. TypeOK' /\ TypeOK /\ PinsHold
  BY TypeStep DEF PinInv
<1>1. ASSUME NEW u \in Uploads, Begin(u) \/ AddUnits(u) \/ RemoveUpload(u) PROVE PinInv'
  BY <1>0, <1>1, KeepsAll DEF Begin, AddUnits, RemoveUpload
<1>2. ASSUME NEW u \in Uploads, Commit(u) PROVE PinInv'
  BY <1>0, <1>2, CommitStep
<1>3. ASSUME NEW ps \in SUBSET Projections, NEW ds \in SUBSET Documents, MaintainStart(ps, ds)
      PROVE  PinInv'
  BY <1>0, <1>3, KeepsAll DEF MaintainStart
<1>4. CASE MaintainRead
  <2>1. Cited' = Cited /\ Pinned' = Pinned
    BY <1>4 DEF MaintainRead, Cited, Pinned
  <2>2. maintenance'.seen = Cited
    BY <1>0, <1>4 DEF MaintainRead, TypeOK, Cleanups
  <2>3. Cited' \subseteq Held'
    BY <2>1, <2>2 DEF Held
  <2> QED
    BY <1>0, <1>4, <2>1, <2>3, KeepsPins DEF MaintainRead, PinsHold
<1>5. CASE MaintainApply
  BY <1>0, <1>5, ApplyStep
<1>6. ASSUME NEW w \in Writers, NEW n \in Notes, NEW refs, Propose(w, n, refs) PROVE PinInv'
  <2>1. \A v \in Writers : writer'[v].at = "commit" => writer'[v] = writer[v]
    BY <1>0, <1>6 DEF Propose, TypeOK
  <2>2. Cited' = Cited /\ Pinned' = Pinned /\ Held' = Held
    BY <1>6 DEF Propose, Cited, Pinned, Held
  <2>3. \A v \in Writers :
          writer'[v].at = "commit" => writer'[v].batch.refs \subseteq pins'[v]
    BY <1>0, <1>6, <2>1 DEF Propose, PinsHold
  <2> QED
    BY <1>0, <1>6, <2>2, <2>3, KeepsPins DEF Propose, PinsHold
<1>7. ASSUME NEW w \in Writers, ProposeNext(w) PROVE PinInv'
  BY <1>6, <1>7 DEF ProposeNext
<1>8. ASSUME NEW w \in Writers,
             Protect(w) \/ Save(w) \/ Release(w) \/ Lost(w) \/ SaveUnknown(w)
      PROVE  PinInv'
  BY <1>0, <1>8, WriterStep
<1>9. ASSUME NEW b \in late, LateSave(b) PROVE PinInv'
  <2>1. b \in Batches /\ b.refs \subseteq kept
    BY <1>0 DEF TypeOK, PinsHold
  <2>2. Cited' \subseteq Cited \cup Pinned
    <3>1. CASE Batch(b)
      BY <1>0, <2>1, <3>1, BatchTyped DEF Pinned
    <3>2. CASE UNCHANGED note
      BY <3>2 DEF Cited
    <3> QED
      BY <1>9, <3>1, <3>2 DEF LateSave
  <2>3. Pinned' = Pinned /\ Held' = Held
    BY <1>9 DEF LateSave, Pinned, Held
  <2>4. maintenance.at = "deciding" => Cited' \subseteq Held
    BY <1>0, <2>2 DEF PinsHold, Held
  <2> QED
    BY <1>0, <1>9, <2>2, <2>3, <2>4, KeepsPins DEF LateSave, PinsHold
<1>10. CASE UNCHANGED vars
  BY <1>0, <1>10, KeepsAll DEF vars
<1> QED
  BY <1>1, <1>2, <1>3, <1>4, <1>5, <1>7, <1>8, <1>9, <1>10
     DEF Next, UploadNext, MaintenanceNext, WriterNext
-----------------------------------------------------------------------------
\* Rows stay whole in every step that leaves the three tables alone.
LEMMA RowsUnchanged ==
    ASSUME RowsHold, UNCHANGED recordVars
    PROVE  RowsHold'
  BY DEF RowsHold, recordVars, Origin

\* A commit writes the row of its projection, takes over as the active one of its
\* revision, and makes that revision the current one of its document.
LEMMA RowsCommit ==
    ASSUME RecordInv, NEW u \in Uploads, Commit(u)
    PROVE  RowsHold'
<1> DEFINE p == Header[u]
           d == Origin(p)
<1>1. p \in Projections /\ Revision[p] \in Revisions /\ d \in Documents
      /\ Document[Revision[p]] = d
  BY DEF Origin
<1>2. projection'[p].row /\ projection'[p].active /\ projection'[p].units = Parts
  BY <1>1 DEF Commit, StagedWhole
<1>3. \A q \in Projections \ {p} :
        /\ projection'[q].row = projection[q].row
        /\ projection'[q].units = projection[q].units
        /\ projection'[q].active => projection[q].active /\ Revision[q] # Revision[p]
        /\ Revision[q] # Revision[p] => (projection'[q].active <=> projection[q].active)
  <2> TAKE q \in Projections \ {p}
  <2> DEFINE on == projection[q].active /\ Revision[q] # Revision[p]
  <2>1. projection[q] \in ProjectionRows /\ on \in BOOLEAN
    BY DEF RecordInv, TypeOK
  <2>2. projection'[q] = [projection[q] EXCEPT !.active = on]
    BY DEF Commit
  <2> HIDE DEF on
  <2>3. projection'[q].row = projection[q].row /\ projection'[q].units = projection[q].units
        /\ projection'[q].active = on
    BY <2>1, <2>2 DEF ProjectionRows
  <2> QED
    BY <2>3 DEF on
<1>4. /\ document'[d].row /\ document'[d].current = Revision[p]
      /\ \A e \in Documents \ {d} : document'[e] = document[e]
  BY <1>1 DEF Commit, RecordInv, TypeOK
<1>5. revisions' = revisions \cup {Revision[p]}
  BY DEF Commit
<1>6. \A e \in Documents \ {d}, q \in Projections :
        projection[q].active /\ Origin(q) = e => projection'[q].active
  BY <1>1, <1>3 DEF Origin
<1>7. \A q \in Projections : projection'[q].row =>
        projection'[q].units = Parts /\ Revision[q] \in revisions'
  BY <1>2, <1>3, <1>5 DEF RecordInv, RowsHold
<1>8. \A q \in Projections : projection'[q].active => projection'[q].row
  BY <1>2, <1>3 DEF RecordInv, RowsHold
<1>9. \A q, r \in Projections :
        projection'[q].active /\ projection'[r].active /\ Revision[q] = Revision[r] => q = r
  BY <1>3 DEF RecordInv, RowsHold
<1>10. \A e \in Documents :
         /\ document'[e].row <=> document'[e].current # NoRevision
         /\ document'[e].row =>
              \E q \in Projections :
                projection'[q].active /\ Origin(q) = e /\ Revision[q] = document'[e].current
  BY <1>1, <1>2, <1>4, <1>6 DEF RecordInv, RowsHold
<1>11. \A r \in revisions' :
         /\ document'[Document[r]].row
         /\ \E q \in Projections : projection'[q].row /\ Revision[q] = r
  <2> TAKE r \in revisions'
  <2>1. CASE r = Revision[p]
    BY <1>1, <1>2, <1>4, <2>1
  <2>2. CASE r # Revision[p]
    <3>1. r \in revisions /\ Document[r] \in Documents
      BY <1>5, <2>2 DEF RecordInv, TypeOK
    <3> QED
      BY <1>2, <1>3, <1>4, <2>2, <3>1 DEF RecordInv, RowsHold
  <2> QED
    BY <2>1, <2>2
<1> QED
  BY <1>7, <1>8, <1>9, <1>10, <1>11 DEF RowsHold, Origin

\* Maintenance takes no shown projection but with its document, and a revision
\* exactly when the last of its projections goes with it.
LEMMA RowsApply ==
    ASSUME RecordInv, MaintainApply
    PROVE  RowsHold'
<1> DEFINE gone == Removed \cup {p \in Projections : Origin(p) \in RemovedDocuments}
           left == [p \in Projections |-> IF p \in gone THEN NoProjection ELSE projection[p]]
<1>1. projection' = left
  BY DEF MaintainApply
<1>2. \A p \in Projections :
        /\ p \in gone => ~projection'[p].row /\ ~projection'[p].active
        /\ p \notin gone => projection'[p] = projection[p]
  BY <1>1 DEF NoProjection
<1>3. \A d \in Documents :
        /\ d \in RemovedDocuments => ~document'[d].row /\ document'[d].current = NoRevision
        /\ d \notin RemovedDocuments => document'[d] = document[d]
  BY DEF MaintainApply
<1>4. revisions' = revisions \ ({r \in Revisions : Document[r] \in RemovedDocuments}
                                  \cup EmptyRevisions(left))
  BY DEF MaintainApply
<1>5. \A p \in Projections : projection'[p].row => Revision[p] \in revisions'
  <2> SUFFICES ASSUME NEW p \in Projections, projection'[p].row
               PROVE  Revision[p] \in revisions'
    OBVIOUS
  <2>1. p \notin gone /\ projection[p].row /\ left[p].row
    BY <1>1, <1>2
  <2>2. Document[Revision[p]] \notin RemovedDocuments
    BY <2>1 DEF Origin
  <2>3. Revision[p] \notin EmptyRevisions(left)
    BY <2>1 DEF EmptyRevisions
  <2>4. Revision[p] \in revisions
    BY <2>1 DEF RecordInv, RowsHold
  <2> QED
    BY <1>4, <2>2, <2>3, <2>4
<1>6. \A d \in Documents, p \in Projections :
        d \notin RemovedDocuments /\ Origin(p) = d /\ projection[p].active
          /\ Revision[p] = document[d].current => p \notin gone
  BY DEF Removed, Shown
<1>7. \A d \in Documents :
        /\ document'[d].row <=> document'[d].current # NoRevision
        /\ document'[d].row =>
             \E p \in Projections :
               projection'[p].active /\ Origin(p) = d /\ Revision[p] = document'[d].current
  <2> TAKE d \in Documents
  <2>1. CASE d \in RemovedDocuments
    BY <1>3, <2>1
  <2>2. CASE d \notin RemovedDocuments
    <3>1. document'[d] = document[d]
      BY <1>3, <2>2
    <3>2. document[d].row =>
            \E p \in Projections :
               projection'[p].active /\ Origin(p) = d /\ Revision[p] = document[d].current
      BY <1>2, <1>6, <2>2 DEF RecordInv, RowsHold
    <3> QED
      BY <3>1, <3>2 DEF RecordInv, RowsHold
  <2> QED
    BY <2>1, <2>2
<1>8. \A r \in revisions' :
        /\ document'[Document[r]].row
        /\ \E p \in Projections : projection'[p].row /\ Revision[p] = r
  <2> SUFFICES ASSUME NEW r \in revisions'
               PROVE  /\ document'[Document[r]].row
                      /\ \E p \in Projections : projection'[p].row /\ Revision[p] = r
    OBVIOUS
  <2>1. /\ r \in revisions /\ r \in Revisions /\ Document[r] \in Documents
        /\ Document[r] \notin RemovedDocuments /\ r \notin EmptyRevisions(left)
    BY <1>4 DEF RecordInv, TypeOK
  <2>2. document'[Document[r]] = document[Document[r]] /\ document[Document[r]].row
    BY <1>3, <2>1 DEF RecordInv, RowsHold
  <2>3. PICK p \in Projections : projection[p].row /\ Revision[p] = r
    BY <2>1 DEF RecordInv, RowsHold
  <2>4. CASE p \notin gone
    BY <1>2, <2>2, <2>3, <2>4
  <2>5. CASE p \in gone
    <3>1. p \in Removed
      BY <2>1, <2>3, <2>5 DEF Origin
    <3>2. \/ document[Document[r]].current = r
          \/ \E q \in Projections : left[q].row /\ Revision[q] = r
      BY <2>1, <2>3, <3>1 DEF EmptyRevisions
    <3>3. CASE document[Document[r]].current = r
      <4>1. PICK q \in Projections :
              projection[q].active /\ Origin(q) = Document[r] /\ Revision[q] = r
        BY <2>1, <2>2, <3>3 DEF RecordInv, RowsHold
      <4>2. q \notin gone
        BY <1>6, <2>1, <3>3, <4>1
      <4> QED
        BY <1>2, <2>2, <4>1, <4>2 DEF RecordInv, RowsHold
    <3> QED
      BY <1>1, <2>2, <3>2, <3>3
  <2> QED
    BY <2>4, <2>5
<1> HIDE DEF gone, left
<1>9. \A p \in Projections :
        /\ projection'[p].row => projection'[p].units = Parts
        /\ projection'[p].active => projection'[p].row
  BY <1>2 DEF RecordInv, RowsHold
<1>10. \A p, q \in Projections :
         projection'[p].active /\ projection'[q].active /\ Revision[p] = Revision[q] => p = q
  BY <1>2 DEF RecordInv, RowsHold
<1> QED
  BY <1>5, <1>7, <1>8, <1>9, <1>10 DEF RowsHold, Origin

LEMMA RecordStep == RecordInv /\ [Next]_vars => RecordInv'
<1> SUFFICES ASSUME RecordInv, [Next]_vars PROVE RecordInv'
  OBVIOUS
<1> USE DEF pinVars, saveVars
<1>0. TypeOK' /\ RowsHold
  BY TypeStep DEF RecordInv
<1>1. ASSUME NEW u \in Uploads, Begin(u) \/ AddUnits(u) \/ RemoveUpload(u) PROVE RowsHold'
  BY <1>0, <1>1, RowsUnchanged DEF Begin, AddUnits, RemoveUpload
<1>2. ASSUME NEW u \in Uploads, Commit(u) PROVE RowsHold'
  BY <1>2, RowsCommit
<1>3. ASSUME NEW ps \in SUBSET Projections, NEW ds \in SUBSET Documents, MaintainStart(ps, ds)
      PROVE  RowsHold'
  BY <1>0, <1>3, RowsUnchanged DEF MaintainStart
<1>4. ASSUME MaintainRead PROVE RowsHold'
  BY <1>0, <1>4, RowsUnchanged DEF MaintainRead
<1>5. ASSUME MaintainApply PROVE RowsHold'
  BY <1>5, RowsApply
<1>6. ASSUME NEW w \in Writers, WriterNext(w) PROVE RowsHold'
  BY <1>0, <1>6, RowsUnchanged
     DEF WriterNext, ProposeNext, Propose, Protect, Save, Release, Lost, SaveUnknown
<1>7. ASSUME NEW b \in late, LateSave(b) PROVE RowsHold'
  BY <1>0, <1>7, RowsUnchanged DEF LateSave
<1>8. ASSUME UNCHANGED vars PROVE RowsHold'
  BY <1>0, <1>8, RowsUnchanged DEF vars, recordVars
<1> QED
  BY <1>0, <1>1, <1>2, <1>3, <1>4, <1>5, <1>6, <1>7, <1>8
     DEF RecordInv, Next, UploadNext, MaintenanceNext
-----------------------------------------------------------------------------
\* Type correctness of the shard's records, the pins and the requests.
THEOREM TypeCorrect == Spec => []TypeOK
  BY TypeInit, TypeStep, PTL DEF Spec

\* From the pin to the document, what is referred to is readable.
THEOREM PinInvariant == Spec => []PinInv
<1>1. Init => PinInv
  <2> SUFFICES ASSUME Init PROVE PinInv
    OBVIOUS
  <2>1. TypeOK
    BY TypeInit
  <2>2. Cited = {} /\ Pinned = {}
    BY DEF Init, Cited, Pinned
  <2>3. PinsHold
    BY <2>2 DEF Init, PinsHold, NoCleanup
  <2> QED
    BY <2>1, <2>2, <2>3 DEF PinInv, NoReferenceDangles
<1> QED
  BY <1>1, PinStep, PTL DEF Spec

\* Whatever maintenance removes and whatever answer is lost, the references of
\* every document lead to Source units.
THEOREM ReferencesNeverDangle == Spec => []NoReferenceDangles
<1>1. PinInv => NoReferenceDangles
  BY DEF PinInv
<1> QED
  BY <1>1, PinInvariant, PTL

\* Rows are whole after any mix of uploads and removals.
THEOREM RecordInvariant == Spec => []RecordInv
<1>1. Init => RecordInv
  <2> SUFFICES ASSUME Init PROVE RecordInv
    OBVIOUS
  <2>1. TypeOK
    BY TypeInit
  <2>2. /\ \A p \in Projections :
             /\ projection[p].row <=> p \in Committed
             /\ projection[p].active <=> p \in Committed
             /\ p \in Committed => projection[p].units = Parts
        /\ revisions = {Revision[p] : p \in Committed}
    BY DEF Init
  <2>3. \A d \in Documents :
          /\ document[d].row <=> document[d].current # NoRevision
          /\ document[d].row =>
               \E p \in Committed : Origin(p) = d /\ Revision[p] = document[d].current
    BY DEF Init
  <2>4. \A d \in Documents : document[d].row <=> \E p \in Committed : Origin(p) = d
    BY DEF Init
  <2>5. \A r \in revisions :
          /\ document[Document[r]].row
          /\ \E p \in Projections : projection[p].row /\ Revision[p] = r
    BY <2>2, <2>4, RecordsAssumption DEF Origin
  <2>6. \A d \in Documents :
          document[d].row =>
            \E p \in Projections :
              projection[p].active /\ Origin(p) = d /\ Revision[p] = document[d].current
    BY <2>2, <2>3, RecordsAssumption DEF Origin
  <2> QED
    BY <2>1, <2>2, <2>3, <2>5, <2>6, RecordsAssumption DEF RecordInv, RowsHold
<1> QED
  BY <1>1, RecordStep, PTL DEF Spec

\* Each document shows one complete projection, and no row lacks its parent,
\* whatever maintenance was asked to remove and whichever uploads were late.
THEOREM RecordsWhole == Spec => []RecordsAreWhole
<1>1. RecordInv => RecordsAreWhole
  <2> SUFFICES ASSUME RecordInv PROVE RecordsAreWhole
    OBVIOUS
  <2>1. ASSUME NEW d \in Documents, document[d].row
        PROVE  \E p \in Projections :
                 /\ Readable(p) /\ Shown(p) /\ Origin(p) = d
                 /\ \A q \in Projections \ {p} : ~(Shown(q) /\ Origin(q) = d)
    <3>1. PICK p \in Projections :
            projection[p].active /\ Origin(p) = d /\ Revision[p] = document[d].current
      BY <2>1 DEF RecordInv, RowsHold
    <3>2. Readable(p) /\ Shown(p)
      BY <3>1 DEF RecordInv, RowsHold, Readable, Shown
    <3>3. \A q \in Projections \ {p} : ~(Shown(q) /\ Origin(q) = d)
      BY <3>1 DEF RecordInv, RowsHold, Shown
    <3> QED
      BY <3>1, <3>2, <3>3
  <2> QED
    BY <2>1 DEF RecordInv, RowsHold, RecordsAreWhole
<1> QED
  BY <1>1, RecordInvariant, PTL
=============================================================================
