---------------------------- MODULE TrashGroups ----------------------------
(***************************************************************************)
(* Deletion groups of the remote Corpus (corpus-management.ts) and the     *)
(* daily sweep (trash-maintenance.ts).  An owner moves a document, a       *)
(* Context item, a Context Skill or a whole Space to the trash, restores   *)
(* it or purges it; the sweep purges what is due.  Every request reads,    *)
(* decides and then commits one guarded batch of D1 statements; requests   *)
(* interleave between any two awaits, and may be abandoned there.          *)
(***************************************************************************)
EXTENDS Naturals, Sequences, FiniteSets

CONSTANTS
    Spaces,         \* Space ids
    Things,         \* documents, Context items and Context Skills
    Kind,           \* their kinds
    Home,           \* the Space each is in, or is created in, at first
    Present,        \* the things that exist at first; the others are created
    Inactive,       \* the imported items whose lifecycle state is not "active"
    Cites,          \* the Spaces whose Source an existing thing refers to
    Supersedes,     \* pairs <<i, j>>: item i supersedes item j (imported)
    Attached,       \* the Spaces with a registration that is not detached
    Workers,        \* concurrent requests of the owner
    Sweep,          \* the scheduled handler
    Keys,           \* idempotency keys
    MaxGroups,      \* bound: deletion groups
    MaxEdits,       \* bound: ordinary writes and detaches
    MaxCrashes,     \* bound: requests abandoned half-way
    BatchLimit,     \* members one batch deletes (100 in the code)
    SweepLimit      \* groups one sweep considers (5 in the code)

NoRoot == "none"

ASSUME TrashAssumption ==
    /\ IsFiniteSet(Things)
    /\ Kind \in [Things -> {"document", "context_item", "context_skill"}]
    /\ Home \in [Things -> Spaces]
    /\ Present \subseteq Things
    /\ Inactive \subseteq {t \in Present : Kind[t] = "context_item"}
    /\ Cites \in [Present -> SUBSET Spaces]
    /\ Supersedes \subseteq Present \X Present
    /\ Spaces \cap Things = {} /\ NoRoot \notin Spaces \cup Things
    /\ Sweep \notin Workers
    /\ MaxGroups \in Nat /\ MaxEdits \in Nat /\ MaxCrashes \in Nat
    /\ BatchLimit \in Nat \ {0} /\ SweepLimit \in Nat \ {0}

VARIABLES
    space,      \* corpus_spaces and corpus_contexts
    thing,      \* corpus_documents, corpus_context_items, corpus_context_skills
    group,      \* corpus_trash_groups with their corpus_trash_members
    updated,    \* the groups' place in the order of updated_at, 0 without a row
    receipt,    \* corpus_operation_receipts
    proc,       \* requests in progress
    edits,      \* ordinary writes so far
    crashes     \* requests abandoned so far

trashVars == <<space, thing, group, updated, receipt, proc, edits, crashes>>

NoGroup == 0
Groups == 1 .. MaxGroups
Procs == Workers \cup {Sweep}
NoKey == "none"

Waiting == {"trashed", "blocked"}
Unresolved == Waiting \cup {"purging"}
States == Unresolved \cup {"purged", "restored", "absent"}

Roots == Spaces \cup Things \cup {NoRoot}

Parents == [version : Nat, state : {"active", "archived"}, group : 0 .. MaxGroups]
SpaceRows == [row : BOOLEAN, version : Nat, state : {"active", "archived"},
              group : 0 .. MaxGroups, attached : BOOLEAN]
ThingRows == [row : BOOLEAN, space : Spaces, version : Nat,
              group : 0 .. MaxGroups, cites : SUBSET Spaces]
GroupRows == [state : States, version : Nat, root : Roots,
              space : Spaces \cup {NoRoot}, members : SUBSET Things, due : BOOLEAN]
Receipts == [op : {"absent", "move", "trash", "restore", "purge"},
             group : 0 .. MaxGroups, state : States]
Steps == {"idle", "trash", "restore", "blockers", "claim", "batch", "delete",
          "count", "final", "skill"}
RequestRows == [at : Steps, key : Keys \cup {NoKey}, group : 0 .. MaxGroups,
             root : Roots, members : SUBSET Things,
             versions : [Things -> Nat], version : Nat, parent : Parents,
             todo : Seq(Groups)]

ParentOf(s) == [version |-> space[s].version, state |-> space[s].state,
                group |-> space[s].group]

NoReceipt == [op |-> "absent", group |-> NoGroup, state |-> "absent"]

\* A request that does nothing; only the sweep's list of groups outlives a step.
Resting ==
    [at |-> "idle", key |-> NoKey, group |-> NoGroup, root |-> NoRoot, members |-> {},
     versions |-> [t \in Things |-> 0], version |-> 0,
     parent |-> [version |-> 0, state |-> "active", group |-> NoGroup],
     todo |-> <<>>]

TrashInit ==
    /\ space = [s \in Spaces |-> [row |-> TRUE, version |-> 1, state |-> "active",
                                 group |-> NoGroup, attached |-> s \in Attached]]
    /\ thing = [t \in Things |->
                  [row |-> t \in Present, space |-> Home[t],
                   version |-> IF t \in Present THEN 1 ELSE 0, group |-> NoGroup,
                   cites |-> IF t \in Present THEN Cites[t] ELSE {}]]
    /\ group = [g \in Groups |-> [state |-> "absent", version |-> 0,
                                  root |-> NoRoot, space |-> NoRoot,
                                  members |-> {}, due |-> FALSE]]
    /\ updated = [g \in Groups |-> 0]
    /\ receipt = [k \in Keys |-> NoReceipt]
    /\ proc = [p \in Procs |-> Resting]
    /\ edits = 0
    /\ crashes = 0
-----------------------------------------------------------------------------
(* What the queries select. *)

InSpace(s) == {t \in Things : thing[t].row /\ thing[t].space = s}
Unmarked(t) == thing[t].row /\ thing[t].group = NoGroup

\* lifecycle_state = 'active': an import may bring an item in any other state,
\* which no request shows, moves, revises or marks.
Live(t) == Unmarked(t) /\ t \notin Inactive
Open(s) == space[s].row /\ space[s].state = "active" /\ space[s].group = NoGroup

\* members(): what a target takes to the trash with it.
MembersOf(root) ==
    IF root \in Spaces THEN {t \in InSpace(root) : Live(t)} ELSE {root}

HeldBy(g) == {t \in Things : thing[t].row /\ thing[t].group = g}

\* sourceBindingsGuard: a Space that is being purged gives no new evidence.
Citable(s) ==
    /\ space[s].row
    /\ ~ (space[s].group # NoGroup /\ group[space[s].group].state \in {"purging", "purged"})

\* blockers(), and the same conditions again as guards of the claim.  An item
\* refers whatever its lifecycle state, but is referred to only as a member.
SourceReferences(g) ==
    {t \in Things : thing[t].row /\ group[g].root \in thing[t].cites /\ thing[t].group # g}
EarlierGroups(g) ==
    {h \in Groups \ {g} : group[h].space = group[g].space /\ group[h].state \in Unresolved}
ItemReferences_Live(g) ==
    {i \in Things : Live(i) /\ \E j \in group[g].members : <<i, j>> \in Supersedes}
ItemReferences(g) ==
    {i \in Things : /\ thing[i].row /\ thing[i].group # g
                    /\ \E j \in group[g].members : <<i, j>> \in Supersedes}
Blocked(g) ==
    \/ ItemReferences(g) # {}
    \/ /\ group[g].root \in Spaces
       /\ \/ space[group[g].space].attached
          \/ SourceReferences(g) # {}
          \/ EarlierGroups(g) # {}

\* A group whose row is written is the last in the order of updated_at.
Stored == Cardinality({g \in Groups : updated[g] # 0})
Touched_InPlace(g) == updated
Touched(g) ==
    [h \in Groups |-> IF h = g THEN Stored
                      ELSE IF updated[h] > updated[g] THEN updated[h] - 1 ELSE updated[h]]

BumpSpace(s, sp) == [sp EXCEPT ![s].version = @ + 1]

\* The end of a request; what the sweep still has to do stays in its list.
Ended(p) == [proc EXCEPT ![p] = [Resting EXCEPT !.todo = proc[p].todo]]
-----------------------------------------------------------------------------
(* Moving to the trash. *)

\* A new request of the owner, with a key that has no receipt.
Fresh(p, k) == p \in Workers /\ proc[p].at = "idle" /\ receipt[k] = NoReceipt

TrashRead(p, k, root) ==
    LET s == IF root \in Spaces THEN root ELSE thing[root].space IN
    /\ Fresh(p, k)
    /\ IF root \in Spaces
       THEN space[root].row /\ space[root].group = NoGroup
       ELSE Open(s) /\ Live(root)
    /\ proc' = [proc EXCEPT ![p] =
                  [@ EXCEPT !.at = "trash", !.key = k, !.root = root,
                            !.members = MembersOf(root),
                            !.versions = [t \in Things |-> thing[t].version],
                            !.parent = ParentOf(s)]]
    /\ UNCHANGED <<space, thing, group, updated, receipt, edits, crashes>>

\* membersGuard without a group: what was read is still there, unmarked, in the
\* version read, and for a Space nothing else that is live has joined it.
TrashGuard(p, s) ==
    LET r == proc[p] IN
    /\ receipt[r.key] = NoReceipt
    /\ space[s].row /\ ParentOf(s) = r.parent
    /\ \A t \in r.members :
          /\ Unmarked(t) /\ thing[t].space = s
          /\ Kind[t] # "context_item" => thing[t].version = r.versions[t]
    /\ r.root \in Spaces => Cardinality(MembersOf(s)) = Cardinality(r.members)

TrashCommit(p, g) ==
    LET r == proc[p]
        s == IF r.root \in Spaces THEN r.root ELSE thing[r.root].space IN
    /\ r.at = "trash"
    /\ group[g].state = "absent" /\ \A h \in 1 .. g - 1 : group[h].state # "absent"
    /\ TrashGuard(p, s)
    /\ group' = [group EXCEPT ![g] = [state |-> "trashed", version |-> 1, root |-> r.root,
                                      space |-> s, members |-> r.members, due |-> FALSE]]
    /\ thing' = [t \in Things |->
                   IF t \in r.members
                   THEN [thing[t] EXCEPT !.group = g,
                                         !.version = IF Kind[t] = "document" THEN @ + 1 ELSE @]
                   ELSE thing[t]]
    /\ space' = BumpSpace(s, IF r.root \in Spaces
                             THEN [space EXCEPT ![s].group = g] ELSE space)
    /\ updated' = [updated EXCEPT ![g] = Stored + 1]
    /\ receipt' = [receipt EXCEPT ![r.key] =
                     [op |-> "trash", group |-> g, state |-> "trashed"]]
    /\ proc' = Ended(p)
    /\ UNCHANGED <<edits, crashes>>
-----------------------------------------------------------------------------
(* Restoring. *)

RestoreRead(p, k, g) ==
    /\ Fresh(p, k)
    /\ group[g].state \in Waiting
    /\ group[g].root \notin Spaces => Open(group[g].space)
    /\ proc' = [proc EXCEPT ![p] =
                  [@ EXCEPT !.at = "restore", !.key = k, !.group = g,
                            !.members = group[g].members, !.version = group[g].version,
                            !.parent = ParentOf(group[g].space)]]
    /\ UNCHANGED <<space, thing, group, updated, receipt, edits, crashes>>

\* The guards a restore and a claim share: the group still waits in the
\* version read, its Space is as read, and its members are still marked with it.
GroupGuard(r) ==
    LET g == r.group IN
    /\ group[g].state \in Waiting /\ group[g].version = r.version
    /\ space[group[g].space].row /\ ParentOf(group[g].space) = r.parent
    /\ \A t \in r.members : thing[t].row /\ thing[t].group = g

RestoreGuard_Stale(p) ==
    receipt[proc[p].key] = NoReceipt /\ space[group[proc[p].group].space].row
RestoreGuard(p) == receipt[proc[p].key] = NoReceipt /\ GroupGuard(proc[p])

RestoreCommit(p) ==
    LET g == proc[p].group IN
    /\ proc[p].at = "restore"
    /\ RestoreGuard(p)
    /\ thing' = [t \in Things |->
                   IF t \in HeldBy(g)
                   THEN [thing[t] EXCEPT !.group = NoGroup,
                                         !.version = IF Kind[t] = "document" THEN @ + 1 ELSE @]
                   ELSE thing[t]]
    /\ space' = BumpSpace(group[g].space,
                  [s \in Spaces |-> IF space[s].group = g
                                    THEN [space[s] EXCEPT !.group = NoGroup] ELSE space[s]])
    /\ group' = [group EXCEPT ![g].state = "restored", ![g].version = @ + 1]
    /\ updated' = Touched(g)
    /\ receipt' = [receipt EXCEPT ![proc[p].key] =
                     [op |-> "restore", group |-> g, state |-> "restored"]]
    /\ proc' = Ended(p)
    /\ UNCHANGED <<edits, crashes>>
-----------------------------------------------------------------------------
(* Purging: a claim that no restore can follow, then batches, then the end. *)

\* purge(): a repeated request goes on with the batches; a group that is being
\* purged only gets the receipt; any other starts with its blockers.
PurgeAgain(p, k) ==
    /\ p \in Workers /\ proc[p].at = "idle" /\ receipt[k].op = "purge"
    /\ proc' = [proc EXCEPT ![p] = [@ EXCEPT !.at = "batch", !.group = receipt[k].group]]
    /\ UNCHANGED <<space, thing, group, updated, receipt, edits, crashes>>

PurgeJoin(p, k, g) ==
    /\ Fresh(p, k)
    /\ group[g].state = "purging"
    /\ receipt' = [receipt EXCEPT ![k] = [op |-> "purge", group |-> g, state |-> "purging"]]
    /\ proc' = [proc EXCEPT ![p] = [@ EXCEPT !.at = "batch", !.group = g]]
    /\ UNCHANGED <<space, thing, group, updated, edits, crashes>>

PurgeRead(p, k, g) ==
    /\ Fresh(p, k)
    /\ group[g].state \in Waiting
    /\ proc' = [proc EXCEPT ![p] = [@ EXCEPT !.at = "blockers", !.key = k, !.group = g,
                                             !.version = group[g].version]]
    /\ UNCHANGED <<space, thing, group, updated, receipt, edits, crashes>>

\* beginPurge with blockers: the group is marked, if it still waits.
PurgeBlocked(p) ==
    LET g == proc[p].group IN
    /\ proc[p].at = "blockers"
    /\ Blocked(g)
    /\ IF group[g].state \in Waiting /\ group[g].version = proc[p].version
       THEN /\ group' = [group EXCEPT ![g].state = "blocked"]
            /\ updated' = Touched(g)
       ELSE UNCHANGED <<group, updated>>
    /\ proc' = Ended(p)
    /\ UNCHANGED <<space, thing, receipt, edits, crashes>>

\* Without blockers it reads the members and the Space again.
PurgeUnblocked(p) ==
    LET g == proc[p].group IN
    /\ proc[p].at = "blockers"
    /\ ~ Blocked(g)
    /\ space[group[g].space].row
    /\ proc' = [proc EXCEPT ![p] = [@ EXCEPT !.at = "claim", !.members = group[g].members,
                                             !.parent = ParentOf(group[g].space)]]
    /\ UNCHANGED <<space, thing, group, updated, receipt, edits, crashes>>

ClaimGuard(p) ==
    LET r == proc[p] IN
    /\ r.key # NoKey => receipt[r.key] = NoReceipt
    /\ GroupGuard(r)
    /\ ~ Blocked(r.group)

PurgeClaim(p) ==
    LET g == proc[p].group
        k == proc[p].key IN
    /\ proc[p].at = "claim"
    /\ ClaimGuard(p)
    /\ group' = [group EXCEPT ![g].state = "purging", ![g].version = @ + 1]
    /\ updated' = Touched(g)
    /\ receipt' = IF k = NoKey THEN receipt
                  ELSE [receipt EXCEPT ![k] = [op |-> "purge", group |-> g, state |-> "purging"]]
    /\ proc' = [Ended(p) EXCEPT ![p].at = "batch", ![p].group = g]
    /\ UNCHANGED <<space, thing, edits, crashes>>

\* purgeBatch(): the attempt is noted, and a batch of members is selected.
BatchRead(p) ==
    LET g == proc[p].group IN
    /\ proc[p].at = "batch"
    /\ group[g].state = "purging"
    /\ updated' = Touched(g)
    /\ \E batch \in SUBSET group[g].members :
          /\ \/ Cardinality(batch) = BatchLimit
             \/ batch = group[g].members /\ Cardinality(batch) < BatchLimit
          /\ proc' = [proc EXCEPT ![p] = [@ EXCEPT !.at = "delete", !.members = batch]]
    /\ UNCHANGED <<space, thing, group, receipt, edits, crashes>>

BatchDone(p) ==
    /\ proc[p].at = "batch"
    /\ group[proc[p].group].state = "purged"
    /\ proc' = Ended(p)
    /\ UNCHANGED <<space, thing, group, updated, receipt, edits, crashes>>

BatchDelete(p) ==
    LET g == proc[p].group
        gone == proc[p].members IN
    /\ proc[p].at = "delete"
    /\ group[g].state = "purging"
    /\ thing' = [t \in Things |->
                   IF t \in gone /\ thing[t].group = g THEN [thing[t] EXCEPT !.row = FALSE]
                   ELSE thing[t]]
    /\ group' = [group EXCEPT ![g].members = @ \ gone]
    /\ proc' = [proc EXCEPT ![p] = [@ EXCEPT !.at = "count", !.members = {}]]
    /\ UNCHANGED <<space, updated, receipt, edits, crashes>>

\* Members that remain are left to the next call.
BatchCount(p) ==
    /\ proc[p].at = "count"
    /\ proc' = IF group[proc[p].group].members = {}
               THEN [proc EXCEPT ![p].at = "final"] ELSE Ended(p)
    /\ UNCHANGED <<space, thing, group, updated, receipt, edits, crashes>>

\* The last batch deletes the Space with whatever cascades from it, its inactive
\* items included; a trigger aborts it while a document is in the Space.
FinalGuard(p) ==
    LET g == proc[p].group IN
    /\ group[g].state = "purging"
    /\ group[g].root \in Spaces =>
          \A t \in InSpace(group[g].space) : Kind[t] # "document"

\* The purges of a group that were answered "purging".
PurgedReceipts(g) ==
    [k \in Keys |-> IF receipt[k].op = "purge" /\ receipt[k].group = g
                    THEN [receipt[k] EXCEPT !.state = "purged"] ELSE receipt[k]]

BatchFinal(p) ==
    LET g == proc[p].group
        s == group[g].space IN
    /\ proc[p].at = "final"
    /\ FinalGuard(p)
    /\ IF group[g].root \in Spaces
       THEN /\ space' = IF space[s].group = g THEN [space EXCEPT ![s].row = FALSE] ELSE space
            /\ thing' = [t \in Things |->
                           IF thing[t].space = s THEN [thing[t] EXCEPT !.row = FALSE]
                           ELSE thing[t]]
       ELSE UNCHANGED <<space, thing>>
    /\ group' = [group EXCEPT ![g].state = "purged", ![g].members = {}]
    /\ updated' = Touched(g)
    /\ receipt' = PurgedReceipts(g)
    /\ proc' = Ended(p)
    /\ UNCHANGED <<edits, crashes>>
-----------------------------------------------------------------------------
(* The sweep: the groups that are due, the least recently tried first. *)

Deadline(g) ==
    /\ group[g].state \in Unresolved /\ ~ group[g].due
    /\ group' = [group EXCEPT ![g].due = TRUE]
    /\ UNCHANGED <<space, thing, updated, receipt, proc, edits, crashes>>

DueGroups == {g \in Groups : group[g].state \in Unresolved /\ group[g].due}
Limited(n) == IF n < SweepLimit THEN n ELSE SweepLimit

SweepStart ==
    /\ proc[Sweep].at = "idle" /\ proc[Sweep].todo = <<>>
    /\ DueGroups # {}
    /\ \E todo \in [1 .. Limited(Cardinality(DueGroups)) -> DueGroups] :
          /\ \A i, j \in DOMAIN todo : i < j => updated[todo[i]] < updated[todo[j]]
          /\ \A g \in DueGroups, i \in DOMAIN todo :
                updated[g] < updated[todo[i]] => \E j \in DOMAIN todo : todo[j] = g
          /\ proc' = [proc EXCEPT ![Sweep].todo = todo]
    /\ UNCHANGED <<space, thing, group, updated, receipt, edits, crashes>>

\* purgeDue(): no owner, no key; a group resolved meanwhile is a conflict.
SweepGroup ==
    LET g == Head(proc[Sweep].todo) IN
    /\ proc[Sweep].at = "idle" /\ proc[Sweep].todo # <<>>
    /\ proc' = [proc EXCEPT ![Sweep] =
                  [@ EXCEPT !.todo = Tail(proc[Sweep].todo), !.group = g, !.version = group[g].version,
                            !.at = IF group[g].state = "purging" THEN "batch"
                                   ELSE IF group[g].state \in Waiting THEN "blockers"
                                   ELSE "idle"]]
    /\ UNCHANGED <<space, thing, group, updated, receipt, edits, crashes>>

\* A guard that failed aborts its batch; the sweep notes the attempt.
Refused(p) ==
    LET r == proc[p] IN
    \/ /\ r.at = "trash"
       /\ ~ TrashGuard(p, IF r.root \in Spaces THEN r.root ELSE thing[r.root].space)
    \/ r.at = "restore" /\ ~ RestoreGuard(p)
    \/ r.at = "blockers" /\ ~ space[group[r.group].space].row
    \/ r.at = "claim" /\ ~ ClaimGuard(p)
    \/ r.at = "batch" /\ group[r.group].state \notin {"purging", "purged"}
    \/ r.at = "delete" /\ group[r.group].state # "purging"
    \/ r.at = "final" /\ ~ FinalGuard(p)

Conflict(p) ==
    /\ Refused(p)
    /\ updated' = IF p = Sweep /\ group[proc[p].group].state \in Unresolved
                THEN Touched(proc[p].group) ELSE updated
    /\ proc' = Ended(p)
    /\ UNCHANGED <<space, thing, group, receipt, edits, crashes>>

\* A request is abandoned, or the Worker ends, between two awaits.
Abandon(p) ==
    /\ crashes < MaxCrashes
    /\ proc[p].at # "idle"
    /\ proc' = [proc EXCEPT ![p] = Resting]
    /\ crashes' = crashes + 1
    /\ UNCHANGED <<space, thing, group, updated, receipt, edits>>
-----------------------------------------------------------------------------
(* The ordinary writes, each one guarded batch, and the end of a detach. *)

Write == edits < MaxEdits /\ edits' = edits + 1

\* documentCreate, itemCreate and reviseContextSkill of an absent Skill.
Create(t) ==
    LET s == Home[t] IN
    /\ Write
    /\ thing[t].version = 0 /\ Open(s)
    /\ Kind[t] = "context_skill" =>
          \A u \in InSpace(s) : Kind[u] # "context_skill"
    /\ thing' = [thing EXCEPT ![t].row = TRUE, ![t].version = 1]
    /\ space' = IF Kind[t] = "context_item" THEN BumpSpace(s, space) ELSE space
    /\ UNCHANGED <<group, updated, receipt, proc, crashes>>

\* documentRevise and documentRestore: new evidence, under the version read.
ReviseDocument(t, cites) ==
    /\ Write
    /\ Kind[t] = "document" /\ Live(t) /\ Open(thing[t].space)
    /\ \A s \in cites : Citable(s)
    /\ thing' = [thing EXCEPT ![t].version = @ + 1, ![t].cites = cites]
    /\ UNCHANGED <<space, group, updated, receipt, proc, crashes>>

\* reviseContextItems, under the version of the Space.
ReviseItem(t) ==
    /\ Write
    /\ Kind[t] = "context_item" /\ Live(t) /\ Open(thing[t].space)
    /\ thing' = [thing EXCEPT ![t].version = @ + 1]
    /\ space' = BumpSpace(thing[t].space, space)
    /\ UNCHANGED <<group, updated, receipt, proc, crashes>>

\* reviseContextSkill reads the live Skill; its UPDATE names the version read
\* and an open Space, and no deletion group.
SkillRead(p, t) ==
    /\ p \in Workers /\ proc[p].at = "idle"
    /\ Kind[t] = "context_skill" /\ Live(t) /\ Open(thing[t].space)
    /\ proc' = [proc EXCEPT ![p] = [@ EXCEPT !.at = "skill", !.root = t,
                                             !.version = thing[t].version]]
    /\ UNCHANGED <<space, thing, group, updated, receipt, edits, crashes>>

SkillCommit(p) ==
    LET t == proc[p].root IN
    /\ proc[p].at = "skill"
    /\ Write
    /\ IF Open(thing[t].space) /\ thing[t].row /\ thing[t].version = proc[p].version
       THEN thing' = [thing EXCEPT ![t].version = @ + 1]
       ELSE UNCHANGED thing
    /\ proc' = Ended(p)
    /\ UNCHANGED <<space, group, updated, receipt, crashes>>

\* documentMove and itemMove.
Move(k, t, dest) ==
    LET s == thing[t].space IN
    /\ Write
    /\ receipt[k] = NoReceipt
    /\ Kind[t] # "context_skill" /\ Live(t) /\ Open(s) /\ Open(dest) /\ s # dest
    /\ \A c \in thing[t].cites : Citable(c)
    /\ thing' = [thing EXCEPT ![t].space = dest,
                               ![t].version = IF Kind[t] = "document" THEN @ + 1 ELSE @]
    /\ space' = BumpSpace(s, BumpSpace(dest, space))
    /\ receipt' = [receipt EXCEPT ![k] = [op |-> "move", group |-> NoGroup, state |-> "absent"]]
    /\ UNCHANGED <<group, updated, proc, crashes>>

\* spaceRevise: the state of a Space that is not in the trash.
ReviseSpace(s) ==
    /\ Write
    /\ space[s].row /\ space[s].group = NoGroup
    /\ \E state \in {"active", "archived"} :
          space' = BumpSpace(s, [space EXCEPT ![s].state = state])
    /\ UNCHANGED <<thing, group, updated, receipt, proc, crashes>>

\* The last registration of a Space is detached (registration-management.ts).
Detached(s) ==
    /\ Write
    /\ space[s].row /\ space[s].attached
    /\ space' = [space EXCEPT ![s].attached = FALSE]
    /\ UNCHANGED <<thing, group, updated, receipt, proc, crashes>>
-----------------------------------------------------------------------------
Owner(p) ==
    \/ \E k \in Keys :
          \/ \E root \in Spaces \cup Things : TrashRead(p, k, root)
          \/ \E g \in Groups : RestoreRead(p, k, g) \/ PurgeRead(p, k, g) \/ PurgeJoin(p, k, g)
          \/ PurgeAgain(p, k)
    \/ \E g \in Groups : TrashCommit(p, g)
    \/ RestoreCommit(p)
    \/ \E t \in Things : SkillRead(p, t)
    \/ SkillCommit(p)

Purging(p) ==
    \/ PurgeBlocked(p) \/ PurgeUnblocked(p) \/ PurgeClaim(p)
    \/ BatchRead(p) \/ BatchDone(p) \/ BatchDelete(p) \/ BatchCount(p) \/ BatchFinal(p)
    \/ Conflict(p)

Ordinary ==
    \/ \E t \in Things :
          \/ Create(t)
          \/ \E cites \in SUBSET Spaces : ReviseDocument(t, cites)
          \/ ReviseItem(t)
          \/ \E k \in Keys, s \in Spaces : Move(k, t, s)
    \/ \E s \in Spaces : ReviseSpace(s) \/ Detached(s)

TrashNext ==
    \/ \E p \in Workers : Owner(p)
    \/ \E p \in Procs : Purging(p) \/ Abandon(p)
    \/ SweepStart \/ SweepGroup
    \/ \E g \in Groups : Deadline(g)
    \/ Ordinary

TrashSpec == TrashInit /\ [][TrashNext]_trashVars

\* The cron starts the sweep every day, and a Worker that runs goes on.
SweepFairness == WF_trashVars(SweepStart \/ SweepGroup \/ Purging(Sweep))

FairTrashSpec == TrashSpec /\ SweepFairness
-----------------------------------------------------------------------------
TrashTypeOK ==
    /\ space \in [Spaces -> SpaceRows]
    /\ thing \in [Things -> ThingRows]
    /\ group \in [Groups -> GroupRows]
    /\ updated \in [Groups -> Nat]
    /\ receipt \in [Keys -> Receipts]
    /\ proc \in [Procs -> RequestRows]
    /\ edits \in 0 .. MaxEdits /\ crashes \in 0 .. MaxCrashes

\* A Space in the trash is closed: nothing in it is live, although things are
\* created, moved and restored while it is being trashed.
TrashedSpaceIsClosed ==
    \A s \in Spaces : space[s].row /\ space[s].group # NoGroup =>
        \A t \in InSpace(s) : ~ Live(t)

\* What is kept refers to nothing that a purge took: nothing lives in a trashed
\* Space, and a purge deletes neither a Space whose Source is cited nor an active
\* item another one supersedes.  An inactive item is no member of any group, so
\* no blocker asks who supersedes it before the cascade of its Space takes it.
NothingDangles ==
    /\ TrashedSpaceIsClosed
    /\ \A t \in Things, s \in Spaces : thing[t].row /\ s \in thing[t].cites =>
          space[s].row \/ (thing[t].group # NoGroup /\ group[thing[t].group].state = "purging")
    /\ \A i, j \in Things : <<i, j>> \in Supersedes /\ thing[i].row =>
          \/ thing[j].row \/ j \in Inactive
          \/ thing[i].group # NoGroup /\ group[thing[i].group].state = "purging"

\* Once its purge has begun a group is never restorable again, and a row is lost
\* only as the member of such a group, or as an inactive item with the Space that
\* is the root of one; what waits in the trash is not edited behind it (a Context
\* Skill excepted, whose UPDATE does not look at the mark).
OnlyPurgeDestroys ==
    [][/\ \A g \in Groups :
             /\ group[g].state = "purging" => group'[g].state \in {"purging", "purged"}
             /\ group[g].state \in {"purged", "restored"} => group'[g].state = group[g].state
       /\ \A t \in Things :
             /\ thing[t].row /\ ~ thing'[t].row =>
                   LET g == IF t \in Inactive THEN space[thing[t].space].group
                                              ELSE thing[t].group IN
                   g # NoGroup /\ group[g].state = "purging"
             /\ thing[t].row /\ thing[t].group # NoGroup /\ Kind[t] # "context_skill" =>
                   \/ thing'[t] = thing[t]
                   \/ thing'[t].group = NoGroup \/ ~ thing'[t].row]_trashVars

\* A group that is due and has no blocker is settled in the end, however many
\* blocked groups are due with it.
DueGroupsAreSettled ==
    \A g \in Groups :
        []<> ~ (group[g].state \in Unresolved /\ group[g].due /\ ~ Blocked(g))
-----------------------------------------------------------------------------
(***************************************************************************)
(* What the proofs need.                                                   *)
(***************************************************************************)

\* A group knows its root and its Space.
GroupsTell ==
    \A g \in Groups : group[g].state # "absent" =>
        /\ group[g].root \in Spaces \cup Things /\ group[g].space \in Spaces
        /\ group[g].root \in Spaces => group[g].space = group[g].root

\* A marked thing is a member of a group that is not resolved, in the group's
\* Space, or was deleted by its purge; what was not created yet, or is inactive,
\* is not marked.
ThingsTell ==
    \A t \in Things :
        /\ thing[t].group # NoGroup =>
              /\ group[thing[t].group].state \in Unresolved \cup {"purged"}
              /\ thing[t].row =>
                    /\ group[thing[t].group].state \in Unresolved
                    /\ t \in group[thing[t].group].members
                    /\ group[thing[t].group].space = thing[t].space
              /\ ~ thing[t].row => group[thing[t].group].state \in {"purging", "purged"}
        /\ thing[t].version = 0 =>
              /\ ~ thing[t].row /\ thing[t].group = NoGroup
              /\ thing[t].space = Home[t] /\ thing[t].cites = {}
        /\ t \in Present => thing[t].version # 0
        /\ t \in Inactive => thing[t].group = NoGroup

\* A Space and the group that it is the root of know of each other.
SpacesTell ==
    /\ \A s \in Spaces : space[s].row /\ space[s].group # NoGroup =>
          group[space[s].group].state \in Unresolved /\ group[space[s].group].root = s
    /\ \A g \in Groups : group[g].state \in Unresolved /\ group[g].root \in Spaces =>
          space[group[g].root].row /\ space[group[g].root].group = g

\* What the blockers were read for stays so: nothing outside a group that is
\* being purged needs it, and it is the last one of its Space.
PurgesTell ==
    \A g \in Groups : group[g].state = "purging" =>
        /\ \A i, j \in Things :
              <<i, j>> \in Supersedes /\ thing[j].group = g /\ thing[i].row => thing[i].group = g
        /\ group[g].root \in Spaces =>
              /\ \A t \in Things : thing[t].row /\ group[g].root \in thing[t].cites =>
                    thing[t].group = g
              /\ \A h \in Groups \ {g} : group[h].space = group[g].root =>
                    group[h].state \notin Unresolved

\* What a request has read still says something of the groups, and a receipt of a
\* purge names a group.
Told(r, groups) ==
    /\ r.at = "trash" =>
          /\ r.root \in Spaces \cup Things /\ r.parent.group = NoGroup
          /\ r.members \cap Inactive = {}
          /\ r.root \in Things => r.members = {r.root}
    /\ r.at \in Steps \ {"idle", "trash", "skill"} =>
          r.group \in Groups /\ groups[r.group].state # "absent"
    /\ r.at = "restore" /\ groups[r.group].root \notin Spaces => r.parent.group = NoGroup
    /\ r.at \in {"count", "final"} => groups[r.group].state \in {"purging", "purged"}
    /\ r.at = "final" => groups[r.group].members = {}
    /\ r.at = "skill" => r.root \in Things /\ Kind[r.root] = "context_skill"

Answered(receipts, groups) ==
    \A k \in Keys : receipts[k].op = "purge" =>
        receipts[k].group \in Groups /\ groups[receipts[k].group].state # "absent"

RequestsTell ==
    /\ \A p \in Procs : Told(proc[p], group)
    /\ proc[Sweep].at \notin {"trash", "restore", "skill"}
    /\ Answered(receipt, group)

TrashInv ==
    /\ TrashTypeOK /\ GroupsTell /\ ThingsTell /\ SpacesTell /\ PurgesTell
    /\ RequestsTell /\ NothingDangles
=============================================================================
