------------------------------ MODULE ShardPins ------------------------------
(***************************************************************************)
(* Source references of Corpus documents across two stores.  A CorpusShard *)
(* (corpus-shard.ts, one Durable Object) holds the records of a Source:    *)
(* documents, their revisions, the projections of each.  Uploads add       *)
(* records, maintenance removes them.  The documents that cite them are    *)
(* rows of D1 (corpus-documents.ts).  No transaction spans both, so a      *)
(* write first pins its references in the shard, then commits in D1, then  *)
(* releases the pin; maintenance reads D1 and the pins before it deletes.  *)
(***************************************************************************)
EXTENDS Naturals, FiniteSets

CONSTANTS
    Documents, Revisions, Projections,  \* ids of the shard's records
    Document,       \* the document of each revision
    Revision,       \* the revision of each projection
    Committed,      \* the projections that the shard has at first
    Uploads,        \* upload ids
    Header,         \* the projection that each upload is of
    Parts,          \* append requests that an upload takes
    Notes,          \* Corpus documents
    References,     \* sets of references that a document is written with
    Writers,        \* requests that write one
    MaxVersion,     \* bound: versions of a Corpus document
    MaxMaintenance, \* bound: maintenance requests
    MaxFaults       \* bound: requests that fail without an answer

NoRevision == "none"

ASSUME RecordsAssumption ==
    /\ Document \in [Revisions -> Documents]
    /\ Revision \in [Projections -> Revisions]
    /\ Committed \subseteq Projections
    /\ \A p, q \in Committed : Revision[p] = Revision[q] => p = q
    /\ Header \in [Uploads -> Projections]
    /\ References \subseteq SUBSET Projections
    /\ NoRevision \notin Revisions
    /\ Parts \in Nat \ {0}
    /\ MaxVersion \in Nat /\ MaxMaintenance \in Nat /\ MaxFaults \in Nat

\* A reference names a projection with its revision and document.
Origin(p) == Document[Revision[p]]

VARIABLES
    document,   \* rows of documents, each with its current revision
    revisions,  \* rows of revisions
    projection, \* rows of projections with the source_units of each
    upload,     \* staged_uploads and staged_units_v2
    pins,       \* context_document_reservations of the requests in progress
    kept,       \* what reservations refer to that no request will release
    note,       \* corpus_documents and their two snapshots in D1
    writer,     \* requests that run protectedWrite
    late,       \* batches that were sent and whose outcome nobody waits for
    maintenance,\* the maintenance request that holds contextProtectionGate
    rounds, faults      \* counters for the bounds

vars == <<document, revisions, projection, upload, pins, kept, note, writer,
          late, maintenance, rounds, faults>>
recordVars == <<document, revisions, projection>>
pinVars == <<pins, kept>>
saveVars == <<note, late>>

DocumentRows == [row : BOOLEAN, current : Revisions \cup {NoRevision}]
ProjectionRows == [row : BOOLEAN, active : BOOLEAN, units : 0 .. Parts]
UploadRows == [state : {"new", "staged", "gone"}, units : 0 .. Parts]
Snapshots == [version : Nat, current : SUBSET Projections,
              previous : SUBSET Projections]
Batches == [note : Notes, version : Nat, refs : SUBSET Projections]
Requests == [at : {"idle", "protect", "commit", "release"}, batch : Batches]
Cleanups == [at : {"idle", "reading", "deciding"}, projections : SUBSET Projections,
             documents : SUBSET Documents, seen : SUBSET Projections]

NoCleanup == [at |-> "idle", projections |-> {}, documents |-> {}, seen |-> {}]

TypeOK ==
    /\ document \in [Documents -> DocumentRows]
    /\ revisions \subseteq Revisions
    /\ projection \in [Projections -> ProjectionRows]
    /\ upload \in [Uploads -> UploadRows]
    /\ pins \in [Writers -> SUBSET Projections]
    /\ kept \subseteq Projections
    /\ note \in [Notes -> Snapshots]
    /\ writer \in [Writers -> Requests]
    /\ late \subseteq Batches
    /\ maintenance \in Cleanups
    /\ rounds \in Nat /\ faults \in Nat

\* The shard starts with one complete projection of each revision that it has,
\* the current one of each document among them.
Init ==
    /\ document \in [Documents -> DocumentRows]
    /\ \A d \in Documents :
         /\ document[d].row <=> \E p \in Committed : Origin(p) = d
         /\ document[d].current # NoRevision <=> document[d].row
         /\ document[d].row =>
              \E p \in Committed : Origin(p) = d /\ Revision[p] = document[d].current
    /\ revisions = {Revision[p] : p \in Committed}
    /\ projection = [p \in Projections |->
                       [row |-> p \in Committed, active |-> p \in Committed,
                        units |-> IF p \in Committed THEN Parts ELSE 0]]
    /\ upload = [u \in Uploads |-> [state |-> "new", units |-> 0]]
    /\ pins = [w \in Writers |-> {}]
    /\ kept = {}
    /\ note = [n \in Notes |-> [version |-> 0, current |-> {}, previous |-> {}]]
    /\ writer \in [Writers -> [at : {"idle"}, batch : [note : Notes, version : {0}, refs : {{}}]]]
    /\ late = {}
    /\ maintenance = NoCleanup
    /\ rounds = 0 /\ faults = 0
-----------------------------------------------------------------------------
(* Uploads.  They do not pass the gate. *)

\* committedProjection: nothing is left to do for upload u.
AlreadyCommitted(u) ==
    LET p == Header[u] IN
    /\ projection[p].row /\ projection[p].active
    /\ document[Origin(p)].current = Revision[p]

Begin(u) ==
    /\ upload[u].state = "new"
    /\ upload' = [upload EXCEPT ![u].state = IF AlreadyCommitted(u) THEN "gone" ELSE "staged"]
    /\ UNCHANGED <<recordVars, pinVars, saveVars, writer, maintenance, rounds, faults>>

\* addUnits: digests are awaited between its look at the header and its
\* inserts, which the foreign key refuses when the upload is gone by then.
AddUnits(u) ==
    /\ upload[u].state = "staged" /\ upload[u].units < Parts
    /\ upload' = [upload EXCEPT ![u].units = @ + 1]
    /\ UNCHANGED <<recordVars, pinVars, saveVars, writer, maintenance, rounds, faults>>

StagedWhole_Any(u) == upload[u].state = "staged"

StagedWhole(u) == upload[u].state = "staged" /\ upload[u].units = Parts

Commit(u) ==
    LET p == Header[u] IN
    /\ StagedWhole(u)
    /\ document' = [document EXCEPT ![Origin(p)] = [row |-> TRUE, current |-> Revision[p]]]
    /\ revisions' = revisions \cup {Revision[p]}
    /\ projection' =
         [q \in Projections |->
            IF q = p THEN [row |-> TRUE, active |-> TRUE, units |-> upload[u].units]
            ELSE [projection[q] EXCEPT !.active = @ /\ Revision[q] # Revision[p]]]
    /\ upload' = [upload EXCEPT ![u].state = "gone"]
    /\ UNCHANGED <<pinVars, saveVars, writer, maintenance, rounds, faults>>
-----------------------------------------------------------------------------
(* Maintenance.  It holds the gate from its first await to its end. *)

GateFree == maintenance.at = "idle"

\* removeUploadIds alone: nothing is awaited.
RemoveUpload(u) ==
    /\ GateFree /\ rounds < MaxMaintenance
    /\ upload[u].state = "staged"
    /\ upload' = [upload EXCEPT ![u].state = "gone"]
    /\ rounds' = rounds + 1
    /\ UNCHANGED <<recordVars, pinVars, saveVars, writer, maintenance, faults>>

\* The identifiers come from an inventory read earlier or from retention: any.
MaintainStart(ps, ds) ==
    /\ GateFree /\ rounds < MaxMaintenance
    /\ ps \cup ds # {}
    /\ maintenance' = [at |-> "reading", projections |-> ps, documents |-> ds, seen |-> {}]
    /\ rounds' = rounds + 1
    /\ UNCHANGED <<recordVars, upload, pinVars, saveVars, writer, faults>>

Cited == UNION {note[n].current \cup note[n].previous : n \in Notes}

\* protectedRecordIds: the query of the snapshots in D1.
MaintainRead ==
    /\ maintenance.at = "reading"
    /\ maintenance' = [maintenance EXCEPT !.at = "deciding", !.seen = Cited]
    /\ UNCHANGED <<recordVars, upload, pinVars, saveVars, writer, rounds, faults>>

Pinned == kept \cup UNION {pins[w] : w \in Writers}

\* What protectedRecordIds returns; a reference protects its whole document.
Held == maintenance.seen \cup Pinned

Safe(d) == \E p \in Held : Origin(p) = d

\* The active projection of the current revision.
Shown(p) == projection[p].active /\ document[Origin(p)].current = Revision[p]

Removed == {p \in maintenance.projections :
              projection[p].row /\ ~Safe(Origin(p)) /\ ~Shown(p)}
RemovedDocuments == {d \in maintenance.documents : document[d].row /\ ~Safe(d)}

\* Revisions that have lost their last projection, unless they are current.
EmptyRevisions(left) ==
    {r \in {Revision[p] : p \in Removed} :
       /\ document[Document[r]].current # r
       /\ \A q \in Projections : left[q].row => Revision[q] # r}

NoProjection == [row |-> FALSE, active |-> FALSE, units |-> 0]

\* The transaction at the end of maintain.
MaintainApply ==
    LET gone == Removed \cup {p \in Projections : Origin(p) \in RemovedDocuments}
        left == [p \in Projections |-> IF p \in gone THEN NoProjection ELSE projection[p]]
    IN
    /\ maintenance.at = "deciding"
    /\ projection' = left
    /\ document' = [d \in Documents |->
                      IF d \in RemovedDocuments THEN [row |-> FALSE, current |-> NoRevision]
                      ELSE document[d]]
    /\ revisions' = revisions \ ({r \in Revisions : Document[r] \in RemovedDocuments}
                                   \cup EmptyRevisions(left))
    /\ maintenance' = NoCleanup
    /\ UNCHANGED <<upload, pinVars, saveVars, writer, rounds, faults>>
-----------------------------------------------------------------------------
(* protectedWrite: pin, commit in D1, release. *)

Readable(p) == projection[p].row /\ projection[p].units = Parts

Goto(w, step) == writer' = [writer EXCEPT ![w].at = step]

\* documentCreate, documentRevise or documentRestore of note n.
Propose(w, n, refs) ==
    /\ writer[w].at = "idle" /\ note[n].version < MaxVersion
    /\ writer' = [writer EXCEPT ![w] =
                    [at |-> "protect",
                     batch |-> [note |-> n, version |-> note[n].version, refs |-> refs]]]
    /\ UNCHANGED <<recordVars, upload, pinVars, saveVars, maintenance, rounds, faults>>

Protect(w) ==
    /\ writer[w].at = "protect" /\ GateFree
    /\ \/ /\ \A p \in writer[w].batch.refs : Readable(p)
          /\ pins' = [pins EXCEPT ![w] = writer[w].batch.refs]
          /\ Goto(w, "commit")
       \/ /\ \E p \in writer[w].batch.refs : ~Readable(p)
          /\ Goto(w, "idle") /\ UNCHANGED pins
    /\ UNCHANGED <<recordVars, upload, kept, saveVars, maintenance, rounds, faults>>

\* The D1 batch: it takes effect if the document is as it was read.
Batch(b) ==
    IF note[b.note].version = b.version
    THEN note' = [note EXCEPT ![b.note] =
                    [version |-> b.version + 1, current |-> b.refs, previous |-> @.current]]
    ELSE UNCHANGED note

\* Saved, or refused with write_committed: false.
Save(w) ==
    /\ writer[w].at = "commit"
    /\ Batch(writer[w].batch) /\ Goto(w, "release")
    /\ UNCHANGED <<recordVars, upload, pinVars, late, maintenance, rounds, faults>>

Release_Saved(w) ==
    /\ writer[w].at = "release" /\ GateFree
    /\ pins' = [pins EXCEPT ![w] = @ \ note[writer[w].batch.note].current]
    /\ Goto(w, "idle")
    /\ UNCHANGED <<recordVars, upload, kept, saveVars, maintenance, rounds, faults>>

Release(w) ==
    /\ writer[w].at = "release" /\ GateFree
    /\ pins' = [pins EXCEPT ![w] = {}]
    /\ Goto(w, "idle")
    /\ UNCHANGED <<recordVars, upload, kept, saveVars, maintenance, rounds, faults>>

\* A reservation that nobody will release.
Keep_Nothing(w) == UNCHANGED kept /\ pins' = [pins EXCEPT ![w] = {}]

Keep(w) == kept' = kept \cup pins[w] /\ pins' = [pins EXCEPT ![w] = {}]

\* The answer of protect or of release is lost, or the request ends there.
Lost(w) ==
    /\ writer[w].at \in {"commit", "release"} /\ faults < MaxFaults
    /\ Keep(w) /\ Goto(w, "idle")
    /\ faults' = faults + 1
    /\ UNCHANGED <<recordVars, upload, saveVars, maintenance, rounds>>

\* The batch is sent and its outcome is not known: it may still take effect.
SaveUnknown(w) ==
    /\ writer[w].at = "commit" /\ faults < MaxFaults
    /\ Keep(w) /\ Goto(w, "idle")
    /\ late' = late \cup {writer[w].batch}
    /\ faults' = faults + 1
    /\ UNCHANGED <<recordVars, upload, note, maintenance, rounds>>

LateSave(b) ==
    /\ b \in late
    /\ Batch(b) \/ UNCHANGED note
    /\ late' = late \ {b}
    /\ UNCHANGED <<recordVars, upload, pinVars, writer, maintenance, rounds, faults>>
-----------------------------------------------------------------------------
UploadNext == \E u \in Uploads : Begin(u) \/ AddUnits(u) \/ Commit(u) \/ RemoveUpload(u)

MaintenanceNext ==
    \/ \E ps \in SUBSET Projections, ds \in SUBSET Documents : MaintainStart(ps, ds)
    \/ MaintainRead
    \/ MaintainApply

\* New references, or those of the previous snapshot.
ProposeNext(w) ==
    \E n \in Notes :
      \/ \E refs \in References : Propose(w, n, refs)
      \/ note[n].version > 1 /\ Propose(w, n, note[n].previous)

WriterNext(w) ==
    \/ ProposeNext(w) \/ Protect(w) \/ Save(w) \/ Release(w)
    \/ Lost(w) \/ SaveUnknown(w)

Next ==
    \/ UploadNext
    \/ MaintenanceNext
    \/ \E w \in Writers : WriterNext(w)
    \/ \E b \in late : LateSave(b)

Spec == Init /\ [][Next]_vars

\* The gate is a chain of promises, so that who waits for it gets it in turn;
\* a request that has started goes on.
Fairness ==
    /\ WF_vars(MaintainRead \/ MaintainApply)
    /\ \A w \in Writers : SF_vars(Protect(w) \/ Save(w) \/ Release(w))

FairSpec == Spec /\ Fairness
-----------------------------------------------------------------------------
(* Properties *)

\* Every reference of a Corpus document, in its current or its previous
\* snapshot, leads to Source units that the shard still has, whatever
\* maintenance removes and whatever became of a write's answer.
NoReferenceDangles == \A p \in Cited : Readable(p)

\* A document shows exactly one complete projection, and no row is left without
\* the row that it belongs to: removals and late uploads mix in any order.
RecordsAreWhole ==
    /\ \A d \in Documents : document[d].row =>
         \E p \in Projections :
           /\ Readable(p) /\ Shown(p) /\ Origin(p) = d
           /\ \A q \in Projections \ {p} : ~(Shown(q) /\ Origin(q) = d)
    /\ \A p \in Projections : projection[p].row => Revision[p] \in revisions
    /\ \A r \in revisions :
         /\ document[Document[r]].row
         /\ \E p \in Projections : projection[p].row /\ Revision[p] = r

\* Neither maintenance nor a lost answer blocks a write for ever, and none
\* leaves a pin behind when nothing has failed.
WritesEnd ==
    \A w \in Writers :
      []<>(writer[w].at = "idle" /\ pins[w] = {} /\ (faults = 0 => kept = {}))

\* The inductive invariant of the proofs: references are readable from the pin
\* to the end of the write, and after maintenance has read D1, nothing is cited
\* there that it did not see or that is not still pinned.
PinsHold ==
    /\ \A p \in Pinned : Readable(p)
    /\ \A w \in Writers :
         writer[w].at = "commit" => writer[w].batch.refs \subseteq pins[w]
    /\ \A b \in late : b.refs \subseteq kept
    /\ maintenance.at = "deciding" => Cited \subseteq Held

PinInv == TypeOK /\ NoReferenceDangles /\ PinsHold

\* The inductive invariant of the other proof: rows are whole from their commit on
\* (an upload brings all its units or nothing), a revision has at most one active
\* projection, and a document has one of its current revision.
RowsHold ==
    /\ \A p \in Projections :
         /\ projection[p].row => projection[p].units = Parts
         /\ projection[p].active => projection[p].row
         /\ projection[p].row => Revision[p] \in revisions
    /\ \A p, q \in Projections :
         projection[p].active /\ projection[q].active /\ Revision[p] = Revision[q] => p = q
    /\ \A d \in Documents :
         /\ document[d].row <=> document[d].current # NoRevision
         /\ document[d].row =>
              \E p \in Projections :
                projection[p].active /\ Origin(p) = d /\ Revision[p] = document[d].current
    /\ \A r \in revisions :
         /\ document[Document[r]].row
         /\ \E p \in Projections : projection[p].row /\ Revision[p] = r

RecordInv == TypeOK /\ RowsHold
=============================================================================
