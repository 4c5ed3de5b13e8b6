---------------------------- MODULE LibraryAssets ----------------------------
(***************************************************************************)
(* Issues of the Library (services/library) and the objects of its bucket  *)
(* that they show.  D1 has the issues, the assets, the reservations of     *)
(* uploads and the trash; R2 has the objects.  An upload reserves its key, *)
(* puts the object if it is absent and confirms; a purge claims the        *)
(* objects that only its issue uses, deletes them in batches and then the  *)
(* issue.  The requests meet between any two calls.                        *)
(*                                                                         *)
(* Versions of issues are left out: a stale one refuses the request.       *)
(***************************************************************************)
EXTENDS Naturals, FiniteSets

CONSTANTS
    Issues, Keys,
    Contents,       \* what an issue is saved with
    LegacyIssues, LegacyContent,    \* issues from before management
    LegacyObjects,  \* objects from before management
    Groups,         \* bound: deletion groups, in the order of their creation
    Uploads,        \* requests of uploadAsset
    Purgers,        \* requests of purge, and the daily sweep
    Sweep,          \* the daily sweep, one of them
    None,           \* no issue, no key
    Batch,          \* objects of one bulk delete
    MaxFaults       \* bound: calls that fail and requests that end early

\* keys are the inventoried references.  An incomplete inventory may miss the
\* hidden ones.
ContentRecords == [keys : SUBSET Keys, hidden : SUBSET Keys, complete : BOOLEAN,
                   cites : SUBSET Issues]

ASSUME LibraryAssumption ==
    /\ Contents \subseteq ContentRecords
    /\ LegacyIssues \subseteq Issues /\ LegacyContent \in Contents
    /\ \A c \in Contents : c.complete => c.hidden = {}
    /\ LegacyObjects \subseteq Keys
    /\ Groups \subseteq Nat \ {0}
    /\ Sweep \in Purgers /\ None \notin Issues \cup Keys
    /\ Batch \in Nat \ {0} /\ MaxFaults \in Nat

VARIABLES
    issue,      \* rows of documents, with the inventory of each
    asset,      \* rows of library_assets
    stored,     \* the keys that have an object
    group,      \* rows of library_trash_groups, with library_trash_assets
    upload,     \* requests of uploadAsset; "lost" left its reservation
    purger,     \* requests that purge
    faults      \* counter for the bound

libraryVars == <<issue, asset, stored, group, upload, purger, faults>>

IssueRows == [row : BOOLEAN, group : Groups \cup {0}, indexed : BOOLEAN,
              content : ContentRecords]
AssetRows == [state : {"none", "live", "purging", "purged"}, owned : BOOLEAN]
GroupRows == [state : {"none", "trashed", "blocked", "purging", "purged", "restored"},
              issue : Issues \cup {None}, pending : SUBSET Keys, deleted : SUBSET Keys]
UploadRequests == [at : {"idle", "put", "confirm", "lost"}, key : Keys \cup {None}]
PurgeRequests == [at : {"idle", "claim", "delete", "mark"},
                  group : Groups \cup {0}, keys : SUBSET Keys]

LibraryTypeOK ==
    /\ issue \in [Issues -> IssueRows]
    /\ asset \in [Keys -> AssetRows]
    /\ stored \subseteq Keys
    /\ group \in [Groups -> GroupRows]
    /\ upload \in [Uploads -> UploadRequests]
    /\ purger \in [Purgers -> PurgeRequests]
    /\ faults \in 0 .. MaxFaults

Empty == [keys |-> {}, hidden |-> {}, complete |-> TRUE, cites |-> {}]

NoUpload == [at |-> "idle", key |-> None]

NoPurge == [at |-> "idle", group |-> 0, keys |-> {}]

LibraryInit ==
    /\ issue = [i \in Issues |->
                  [row |-> i \in LegacyIssues, group |-> 0, indexed |-> FALSE,
                   content |-> IF i \in LegacyIssues THEN LegacyContent ELSE Empty]]
    /\ asset = [k \in Keys |-> [state |-> "none", owned |-> FALSE]]
    /\ stored = LegacyObjects
    /\ group = [g \in Groups |-> [state |-> "none", issue |-> None, pending |-> {}, deleted |-> {}]]
    /\ upload = [u \in Uploads |-> NoUpload]
    /\ purger = [p \in Purgers |-> NoPurge]
    /\ faults = 0
-----------------------------------------------------------------------------
(* What D1's guards look at. *)

Free(ks) == \A k \in ks : asset[k].state \in {"none", "live"}

NothingPurging == \A k \in Keys : asset[k].state # "purging"

MaySave_KeysOnly(c) == Free(c.keys)

\* inventoryGuards
MaySave(c) == Free(c.keys) /\ (c.complete \/ NothingPurging)

Listed(ks) == [k \in Keys |-> IF k \in ks /\ asset[k].state = "none"
                              THEN [asset[k] EXCEPT !.state = "live"] ELSE asset[k]]

Unindexed == {i \in Issues : issue[i].row /\ ~issue[i].indexed}

Reserved(k) == \E u \in Uploads : upload[u].key = k /\ upload[u].at \in {"put", "confirm", "lost"}

Uses(i) == issue[i].content.keys \cup issue[i].content.hidden

References(i) == IF issue[i].row /\ issue[i].indexed THEN issue[i].content.keys ELSE {}

\* The assets of an issue that no other issue's inventory has.
Unshared(i) ==
    {k \in References(i) : asset[k].state # "none" /\ \A j \in Issues \ {i} : k \notin References(j)}

CitedByAnother(i) == \E j \in Issues \ {i} : issue[j].row /\ i \in issue[j].content.cites

AllInventoried == \A i \in Issues : issue[i].row => issue[i].indexed /\ issue[i].content.complete

\* The blockers of facts(), and again the guards of claim().
Claimable(i, ks) ==
    /\ ~CitedByAnother(i)
    /\ ks # {} => AllInventoried
    /\ \A k \in ks : /\ asset[k].state = "live" /\ asset[k].owned /\ ~Reserved(k)
                     /\ \A j \in Issues \ {i} : k \notin References(j)
-----------------------------------------------------------------------------
(* Issues *)

\* library_incoming_reference_*: nobody may cite an issue that is being purged.
MayCite(js) ==
    \A j \in js : ~(issue[j].row /\ issue[j].group # 0 /\ group[issue[j].group].state = "purging")

Saved(i, c) ==
    /\ MaySave(c) /\ MayCite(c.cites)
    /\ issue' = [issue EXCEPT ![i] =
                   [row |-> TRUE, group |-> 0, indexed |-> TRUE, content |-> c]]
    /\ asset' = Listed(c.keys)
    /\ UNCHANGED <<stored, group, upload, purger, faults>>

\* createIssue; importIssue differs in its date.
CreateIssue(i, c) == ~issue[i].row /\ Saved(i, c)

UpdateIssueSource(i, c) == issue[i].row /\ issue[i].group = 0 /\ Saved(i, c)

\* indexExistingIssues, at the start of every preview and of the sweep.
IndexAll ==
    /\ \A i \in Unindexed : MaySave(issue[i].content)
    /\ issue' = [i \in Issues |-> IF i \in Unindexed THEN [issue[i] EXCEPT !.indexed = TRUE]
                                  ELSE issue[i]]
    /\ asset' = Listed(UNION {issue[i].content.keys : i \in Unindexed})

Index ==
    /\ Unindexed # {} /\ IndexAll
    /\ UNCHANGED <<stored, group, upload, purger, faults>>

Trash(i, g) ==
    /\ issue[i].row /\ issue[i].group = 0 /\ Unindexed = {}
    /\ group[g].state = "none" /\ \A h \in Groups : h < g => group[h].state # "none"
    /\ issue' = [issue EXCEPT ![i].group = g]
    /\ group' = [group EXCEPT ![g] = [state |-> "trashed", issue |-> i, pending |-> {},
                                      deleted |-> {}]]
    /\ UNCHANGED <<asset, stored, upload, purger, faults>>

Restore(g) ==
    /\ group[g].state \in {"trashed", "blocked"} /\ Unindexed = {}
    /\ issue[group[g].issue].group = g
    /\ issue' = [issue EXCEPT ![group[g].issue].group = 0]
    /\ group' = [group EXCEPT ![g].state = "restored"]
    /\ UNCHANGED <<asset, stored, upload, purger, faults>>
-----------------------------------------------------------------------------
(* storeLibraryAsset *)

Admit_Anyway(u, k) ==
    /\ upload[u].at = "idle"
    /\ asset' = Listed({k})
    /\ upload' = [upload EXCEPT ![u] = [at |-> "put", key |-> k]]
    /\ UNCHANGED <<issue, stored, group, purger, faults>>

Admit(u, k) ==
    /\ upload[u].at = "idle"
    /\ Free({k})
    /\ asset' = Listed({k})
    /\ upload' = [upload EXCEPT ![u] = [at |-> "put", key |-> k]]
    /\ UNCHANGED <<issue, stored, group, purger, faults>>

\* putImmutable: stored now, or the same bytes were there, or others were.
PutObject(u) ==
    LET k == upload[u].key IN
    /\ upload[u].at = "put"
    /\ stored' = stored \cup {k}
    /\ \/ upload' = [upload EXCEPT ![u].at = "confirm"]
       \/ k \in stored /\ upload' = [upload EXCEPT ![u] = NoUpload]
    /\ UNCHANGED <<issue, asset, group, purger, faults>>

ConfirmUpload(u) ==
    /\ upload[u].at = "confirm"
    /\ asset' = [asset EXCEPT ![upload[u].key].owned = @ \/ asset[upload[u].key].state = "live"]
    /\ upload' = [upload EXCEPT ![u] = NoUpload]
    /\ UNCHANGED <<issue, stored, group, purger, faults>>

\* The put's outcome is unknown, or the request ends: the reservation stays.
UploadLost(u) ==
    /\ upload[u].at \in {"put", "confirm"} /\ faults < MaxFaults
    /\ upload' = [upload EXCEPT ![u].at = "lost"]
    /\ faults' = faults + 1
    /\ UNCHANGED <<issue, asset, stored, group, purger>>

\* Such a put may still take effect.
LatePut(u) ==
    /\ upload[u].at = "lost" /\ upload[u].key \notin stored
    /\ stored' = stored \cup {upload[u].key}
    /\ UNCHANGED <<issue, asset, group, upload, purger, faults>>
-----------------------------------------------------------------------------
(* purge and purgeDue *)

Goto(p, step, g, ks) == purger' = [purger EXCEPT ![p] = [at |-> step, group |-> g, keys |-> ks]]

PurgerDone(p) == purger' = [purger EXCEPT ![p] = NoPurge]

\* purge, purgeDue and the first half of claim: facts() finds a blocker, or the
\* objects to claim.  These reads are one step: claim repeats all they decide on.
Judge(p, g) ==
    LET i == group[g].issue IN
    /\ purger[p].at = "idle"
    /\ group[g].state \in {"trashed", "blocked"} /\ Unindexed = {} /\ issue[i].row
    /\ \/ /\ Claimable(i, Unshared(i))
          /\ Goto(p, "claim", g, Unshared(i)) /\ UNCHANGED group
       \/ /\ ~Claimable(i, Unshared(i))
          /\ group' = [group EXCEPT ![g].state = "blocked"]
          /\ UNCHANGED purger
    /\ UNCHANGED <<issue, asset, stored, upload, faults>>

Pending(g) == group[g].pending

ABatch(g, ks) ==
    /\ ks \subseteq Pending(g)
    /\ Cardinality(ks) = IF Cardinality(Pending(g)) < Batch THEN Cardinality(Pending(g)) ELSE Batch

Claim(p) ==
    LET g == purger[p].group
        i == group[g].issue
        ks == purger[p].keys
    IN
    /\ purger[p].at = "claim"
    /\ \/ /\ group[g].state \in {"trashed", "blocked"} /\ issue[i].group = g
          /\ Claimable(i, ks)
          /\ group' = [group EXCEPT ![g].state = "purging", ![g].pending = ks]
          /\ asset' = [k \in Keys |-> IF k \in ks THEN [asset[k] EXCEPT !.state = "purging"]
                                      ELSE asset[k]]
       \/ /\ ~(group[g].state \in {"trashed", "blocked"} /\ issue[i].group = g
               /\ Claimable(i, ks))
          /\ UNCHANGED <<group, asset>>
    /\ PurgerDone(p)
    /\ UNCHANGED <<issue, stored, upload, faults>>

\* purgeBatch, of the request that claimed or of a later one.
TakeBatch(p, g) ==
    /\ purger[p].at = "idle" /\ group[g].state = "purging" /\ Pending(g) # {}
    /\ \E ks \in SUBSET Keys : ABatch(g, ks) /\ Goto(p, "delete", g, ks)
    /\ UNCHANGED <<issue, asset, stored, group, upload, faults>>

Delete(p) ==
    /\ purger[p].at = "delete"
    /\ stored' = stored \ purger[p].keys
    /\ Goto(p, "mark", purger[p].group, purger[p].keys)
    /\ UNCHANGED <<issue, asset, group, upload, faults>>

\* A failed bulk delete may have deleted a part; the keys stay pending.
DeleteFails(p) ==
    /\ purger[p].at = "delete" /\ faults < MaxFaults
    /\ \E ks \in SUBSET purger[p].keys : stored' = stored \ ks
    /\ PurgerDone(p)
    /\ faults' = faults + 1
    /\ UNCHANGED <<issue, asset, group, upload>>

Mark_Assets(p) ==
    LET ks == purger[p].keys IN
    /\ purger[p].at = "mark"
    /\ asset' = [k \in Keys |-> IF k \in ks THEN [asset[k] EXCEPT !.state = "purged"]
                                ELSE asset[k]]
    /\ PurgerDone(p)
    /\ UNCHANGED <<issue, stored, group, upload, faults>>

Mark(p) ==
    LET ks == purger[p].keys IN
    /\ purger[p].at = "mark"
    /\ group' = [group EXCEPT ![purger[p].group].pending = @ \ ks,
                              ![purger[p].group].deleted = @ \cup ks]
    /\ asset' = [k \in Keys |-> IF k \in ks THEN [asset[k] EXCEPT !.state = "purged"]
                                ELSE asset[k]]
    /\ PurgerDone(p)
    /\ UNCHANGED <<issue, stored, upload, faults>>

Finish(p, g) ==
    LET i == group[g].issue IN
    /\ purger[p].at = "idle" /\ group[g].state = "purging" /\ Pending(g) = {}
    /\ issue' = IF issue[i].group = g
                THEN [issue EXCEPT ![i] = [row |-> FALSE, group |-> 0, indexed |-> FALSE,
                                           content |-> Empty]]
                ELSE issue
    /\ group' = [group EXCEPT ![g].state = "purged"]
    /\ UNCHANGED <<asset, stored, upload, purger, faults>>

\* The request ends between two of its calls.
PurgerEnds(p) ==
    /\ purger[p].at # "idle" /\ faults < MaxFaults
    /\ PurgerDone(p)
    /\ faults' = faults + 1
    /\ UNCHANGED <<issue, asset, stored, group, upload>>
-----------------------------------------------------------------------------
IssueNext ==
    \/ Index
    \/ \E i \in Issues : \/ \E c \in Contents : CreateIssue(i, c) \/ UpdateIssueSource(i, c)
                         \/ \E g \in Groups : Trash(i, g)
    \/ \E g \in Groups : Restore(g)

UploadNext(u) ==
    \/ \E k \in Keys : Admit(u, k)
    \/ PutObject(u) \/ ConfirmUpload(u) \/ UploadLost(u) \/ LatePut(u)

PurgeSteps(p) == Claim(p) \/ Delete(p) \/ Mark(p)

PurgeBatch(p, g) == TakeBatch(p, g) \/ Finish(p, g)

PurgeNext(p) ==
    \/ \E g \in Groups : Judge(p, g) \/ PurgeBatch(p, g)
    \/ PurgeSteps(p) \/ DeleteFails(p) \/ PurgerEnds(p)

LibraryNext ==
    \/ IssueNext
    \/ \E u \in Uploads : UploadNext(u)
    \/ \E p \in Purgers : PurgeNext(p)

LibrarySpec == LibraryInit /\ [][LibraryNext]_libraryVars

\* Requests that have begun go on, and the daily sweep returns to every group
\* whose purge has begun.
LibraryFairness ==
    /\ \A p \in Purgers : WF_libraryVars(PurgeSteps(p))
    /\ \A g \in Groups : SF_libraryVars(PurgeBatch(Sweep, g))

LibraryFairSpec == LibrarySpec /\ LibraryFairness
-----------------------------------------------------------------------------
(* Properties *)

\* From the claim of a purge to its end, nobody else shows one of its objects
\* or cites its issue, and nobody is uploading one of them.
UnusedWhilePurging ==
    \A g \in Groups : group[g].state = "purging" =>
      LET i == group[g].issue
          ks == Pending(g) \cup group[g].deleted
      IN
      /\ issue[i].row /\ issue[i].group = g
      /\ ~CitedByAnother(i)
      /\ \A k \in ks : ~Reserved(k)
      /\ \A j \in Issues \ {i} : issue[j].row => Uses(j) \cap Pending(g) = {}

\* What is recorded as purged is gone and stays gone, whatever bulk deletes
\* failed halfway and whatever upload is answered late.
GoneForGood ==
    /\ \A k \in Keys : asset[k].state = "purged" => k \notin stored
    /\ \A g \in Groups : group[g].state = "purged" =>
         /\ Pending(g) = {}
         /\ \A i \in Issues : issue[i].row => issue[i].group # g

\* Whatever calls failed and requests ended, no purge that has begun stays
\* unfinished: the groups are few, and from purging there is only purged.
PurgesEnd == []<>(\A g \in Groups : group[g].state # "purging")

\* The inductive invariant of the proofs.  An issue in the trash has one group,
\* and what is shown was admitted.
IssuesHold ==
    \A i \in Issues :
      /\ issue[i].row => issue[i].content \in Contents
      /\ issue[i].group # 0 =>
           /\ issue[i].row
           /\ group[issue[i].group].issue = i
           /\ group[issue[i].group].state \in {"trashed", "blocked", "purging"}

\* A key is claimed by one group at most, and from the claim on nobody uploads it.
Taken(g) == group[g].pending \cup group[g].deleted

GroupsHold ==
    \A g \in Groups :
      /\ group[g].state # "none" => group[g].issue \in Issues
      /\ group[g].state \notin {"purging", "purged"} => Taken(g) = {}
      /\ group[g].state = "purged" => group[g].pending = {}
      /\ \A k \in group[g].pending : asset[k].state = "purging"
      /\ \A k \in group[g].deleted : asset[k].state = "purged"
      /\ \A h \in Groups \ {g} : Taken(g) \cap Taken(h) = {}

AssetsHold ==
    \A k \in Keys :
      /\ asset[k].state \in {"purging", "purged"} => ~Reserved(k)
      /\ asset[k].state = "purged" => k \notin stored

CallsHold ==
    /\ \A u \in Uploads : upload[u].at # "idle" => upload[u].key \in Keys
    /\ \A p \in Purgers :
         /\ purger[p].at # "idle" => purger[p].group \in Groups
         /\ purger[p].at \in {"delete", "mark"} => purger[p].keys \subseteq Taken(purger[p].group)
         /\ purger[p].at = "mark" => purger[p].keys \cap stored = {}

LibraryInv ==
    LibraryTypeOK /\ IssuesHold /\ GroupsHold /\ AssetsHold /\ CallsHold /\ UnusedWhilePurging
=============================================================================
