---------------------------- MODULE JournalWeeks ----------------------------
(***************************************************************************)
(* The Journal (services/journal): a source of work has at most one item   *)
(* in each week, and the latest of them says how it stands.  Ingestion     *)
(* observes sources, the owner decides resolutions and closes weeks; open  *)
(* work continues in a later week.  Every request reads in several queries *)
(* and ends with one guarded batch of D1, so that all of them interleave.  *)
(*                                                                         *)
(* A request that repeats an idempotency key returns what the first one    *)
(* did, or its batch is refused by the unique key: each request here is a  *)
(* new one.  Two requests never write the same updated_at.                 *)
(***************************************************************************)
EXTENDS Naturals

CONSTANTS
    LastWeek,       \* bound: weeks that pass
    Sources,        \* work that is observed
    Resolutions,    \* what the owner may decide
    Ingests,        \* requests of ingestItems, for one item each
    Owners,         \* requests of setResolution
    Closers,        \* requests of confirmWeekClose
    MaxVersion      \* bound: versions of an item

Weeks == 1 .. LastWeek

Open == {"active", "held"}

ASSUME JournalAssumption ==
    /\ LastWeek \in Nat \ {0} /\ MaxVersion \in Nat \ {0}
    /\ "active" \in Resolutions

VARIABLES
    week,       \* rows of weeks: "none", "open" or "closed"
    item,       \* rows of items, by source and week; their id is that pair
    now,        \* currentWeekId
    ingest, owner, closer   \* requests in progress

vars == <<week, item, now, ingest, owner, closer>>

\* logical stands for logical_item_id: the first item's week. No row: version 0.
Rows == [version : 0 .. MaxVersion, resolution : Resolutions, logical : 0 .. LastWeek]
NoRow == [version |-> 0, resolution |-> "active", logical |-> 0]

\* row is the source's item of that week, or else its latest, of week previous.
IngestRequests ==
    [at : {"idle", "look", "observe", "insert"}, source : Sources, week : Weeks,
     previous : 0 .. LastWeek, row : Rows]
OwnerRequests ==
    [at : {"idle", "write"}, source : Sources, week : Weeks, row : Rows,
     to : Weeks, resolution : Resolutions]
CloseRequests ==
    [at : {"idle", "write"}, week : Weeks, shown : [Sources -> Rows],
     rollovers : SUBSET Sources]

TypeOK ==
    /\ week \in [Weeks -> {"none", "open", "closed"}]
    /\ item \in [Sources -> [Weeks -> Rows]]
    /\ now \in Weeks
    /\ ingest \in [Ingests -> IngestRequests]
    /\ owner \in [Owners -> OwnerRequests]
    /\ closer \in [Closers -> CloseRequests]

NoClose ==
    [at |-> "idle", week |-> 1, shown |-> [k \in Sources |-> NoRow], rollovers |-> {}]

Init ==
    /\ week = [w \in Weeks |-> "none"]
    /\ item = [k \in Sources |-> [w \in Weeks |-> NoRow]]
    /\ now = 1
    /\ ingest \in [Ingests -> [at : {"idle"}, source : Sources, week : {1},
                              previous : {0}, row : {NoRow}]]
    /\ owner \in [Owners -> [at : {"idle"}, source : Sources, week : {1}, row : {NoRow},
                             to : {1}, resolution : {"active"}]]
    /\ closer = [c \in Closers |-> NoClose]
-----------------------------------------------------------------------------
Exists(k, w) == item[k][w].version > 0

\* getLatestItemBySource: the item with the greatest week.
IsLatest(k, w) ==
    /\ Exists(k, w)
    /\ \A v \in Weeks : v > w => ~Exists(k, v)

IsOpen(k, w) == item[k][w].resolution \in Open

Ensured(w) == [week EXCEPT ![w] = IF @ = "none" THEN "open" ELSE @]

\* No item of the same work in a later week.
NoNewer(k, w) ==
    \A v \in Weeks : v > w /\ Exists(k, v) => item[k][v].logical # item[k][w].logical

Put(k, w, row) == item' = [item EXCEPT ![k][w] = row]

Continued(row, resolution) ==
    [version |-> 1, resolution |-> resolution, logical |-> row.logical]

CanContinue_AnyVersion(k, from, version, w) ==
    /\ week[w] # "closed"
    /\ \A v \in Weeks : from < v /\ v <= w => ~Exists(k, v)

\* insertItemStatement for a continuation of the item of week "from".
CanContinue(k, from, version, w) ==
    /\ week[w] # "closed"
    /\ item[k][from].version = version
    /\ \A v \in Weeks : from < v /\ v <= w => ~Exists(k, v)
-----------------------------------------------------------------------------
(* ingestOne *)

\* The week is given or derived from a date; open work is not moved to the past.
Aim(i, k, w) ==
    /\ ingest[i].at = "idle"
    /\ w < now => ~\E v \in Weeks : IsLatest(k, v) /\ IsOpen(k, v)
    /\ ingest' = [ingest EXCEPT ![i] = [@ EXCEPT !.at = "look", !.source = k, !.week = w]]
    /\ UNCHANGED <<week, item, now, owner, closer>>

IngestDone(i) ==
    ingest' = [ingest EXCEPT ![i] = [@ EXCEPT !.at = "idle", !.week = 1, !.previous = 0,
                                              !.row = NoRow]]

Look(i) ==
    LET k == ingest[i].source
        w == ingest[i].week
    IN
    /\ ingest[i].at = "look"
    /\ week' = Ensured(w)
    /\ \/ week[w] = "closed" /\ IngestDone(i)
       \/ /\ week[w] # "closed" /\ item[k][w].version \in 1 .. MaxVersion - 1
          /\ ingest' = [ingest EXCEPT ![i] = [@ EXCEPT !.at = "observe", !.row = item[k][w]]]
       \/ /\ week[w] # "closed" /\ ~Exists(k, w)
          /\ \E p \in 0 .. LastWeek :
               /\ IF p = 0 THEN \A v \in Weeks : ~Exists(k, v) ELSE IsLatest(k, p)
               /\ ingest' = [ingest EXCEPT ![i] =
                    [@ EXCEPT !.at = "insert", !.previous = p,
                              !.row = IF p = 0 THEN NoRow ELSE item[k][p]]]
    /\ UNCHANGED <<item, now, owner, closer>>

\* updateItemObservation
Observe(i) ==
    LET k == ingest[i].source
        w == ingest[i].week
    IN
    /\ ingest[i].at = "observe"
    /\ IF item[k][w].version = ingest[i].row.version /\ NoNewer(k, w) /\ week[w] = "open"
       THEN Put(k, w, [item[k][w] EXCEPT !.version = @ + 1])
       ELSE UNCHANGED item
    /\ IngestDone(i)
    /\ UNCHANGED <<week, now, owner, closer>>

\* insertItem: no item yet, or only later ones.
Insert(i) ==
    LET k == ingest[i].source
        w == ingest[i].week
        r == ingest[i]
    IN
    /\ r.at = "insert" /\ (r.previous = 0 \/ r.previous > w)
    /\ IF week[w] = "open" /\ ~Exists(k, w)
       THEN Put(k, w, [version |-> 1, resolution |-> r.row.resolution,
                       logical |-> IF r.previous = 0 THEN w ELSE r.row.logical])
       ELSE UNCHANGED item
    /\ IngestDone(i)
    /\ UNCHANGED <<week, now, owner, closer>>

\* continueItem
ContinueObserved(i) ==
    LET k == ingest[i].source
        w == ingest[i].week
        r == ingest[i]
    IN
    /\ r.at = "insert" /\ r.previous > 0 /\ r.previous < w
    /\ IF CanContinue(k, r.previous, r.row.version, w)
       THEN Put(k, w, Continued(r.row, r.row.resolution))
       ELSE UNCHANGED item
    /\ IngestDone(i)
    /\ UNCHANGED <<week, now, owner, closer>>
-----------------------------------------------------------------------------
(* setResolution *)

Decide(o, k, w, resolution) ==
    LET continues == w < now /\ IsOpen(k, w) IN
    /\ owner[o].at = "idle"
    /\ IsLatest(k, w)
    /\ week[w] = "open" \/ continues
    /\ item[k][w].resolution # resolution
    /\ continues \/ item[k][w].version < MaxVersion
    /\ owner' = [owner EXCEPT ![o] =
                   [at |-> "write", source |-> k, week |-> w, row |-> item[k][w],
                    to |-> IF continues THEN now ELSE w, resolution |-> resolution]]
    /\ UNCHANGED <<week, item, now, ingest, closer>>

OwnerDone(o) ==
    owner' = [owner EXCEPT ![o] = [@ EXCEPT !.at = "idle", !.week = 1, !.row = NoRow,
                                            !.to = 1, !.resolution = "active"]]

\* The item of its own week.
Resolve(o) ==
    LET r == owner[o]
        k == owner[o].source
    IN
    /\ r.at = "write" /\ r.to = r.week
    /\ IF item[k][r.week].version = r.row.version /\ NoNewer(k, r.week) /\ week[r.week] = "open"
       THEN Put(k, r.week, [item[k][r.week] EXCEPT !.version = @ + 1,
                                                   !.resolution = r.resolution])
       ELSE UNCHANGED item
    /\ OwnerDone(o)
    /\ UNCHANGED <<week, now, ingest, closer>>

\* ensureWeek and continueItem.
ContinueResolved(o) ==
    LET r == owner[o]
        k == owner[o].source
    IN
    /\ r.at = "write" /\ r.to # r.week
    /\ week' = Ensured(r.to)
    /\ IF CanContinue(k, r.week, r.row.version, r.to)
       THEN Put(k, r.to, Continued(r.row, r.resolution))
       ELSE UNCHANGED item
    /\ OwnerDone(o)
    /\ UNCHANGED <<now, ingest, closer>>
-----------------------------------------------------------------------------
(* prepareWeekClose and confirmWeekClose.  A preparation changes nothing: it *)
(* answers with a digest of the week's items, of the next week and of what it  *)
(* has of them.  A confirmation takes the same snapshot again and goes on only *)
(* with an equal digest, that is with what the owner was shown.                *)

\* The open items that no later item of their source continues.
Remaining(w) == {k \in Sources : IsLatest(k, w) /\ IsOpen(k, w)}

Confirm(c, w) ==
    /\ closer[c].at = "idle" /\ w < LastWeek
    /\ week[w] # "closed"
    /\ Remaining(w) # {} => week[w + 1] # "closed"
    /\ week' = [v \in Weeks |->
                  IF v = w \/ (v = w + 1 /\ Remaining(w) # {}) THEN Ensured(v)[v] ELSE week[v]]
    /\ closer' = [closer EXCEPT ![c] =
                    [at |-> "write", week |-> w, shown |-> [k \in Sources |-> item[k][w]],
                     rollovers |-> {k \in Remaining(w) : ~Exists(k, w + 1)}]]
    /\ UNCHANGED <<item, now, ingest, owner>>

AsShown_Status(c) ==
    LET w == closer[c].week IN
    /\ week[w] = "open"
    /\ closer[c].rollovers # {} => week[w + 1] = "open"

AsShown_Count(c) ==
    LET w == closer[c].week IN
    /\ week[w] = "open"
    /\ \A k \in Sources : Exists(k, w) <=> closer[c].shown[k].version > 0
    /\ closer[c].rollovers # {} => week[w + 1] = "open"

\* The guards of closeWeek's first statement, on which all others depend.
AsShown(c) ==
    LET w == closer[c].week IN
    /\ week[w] = "open"
    /\ \A k \in Sources : item[k][w].version = closer[c].shown[k].version
    /\ closer[c].rollovers # {} => week[w + 1] = "open"

Close(c) ==
    LET w == closer[c].week IN
    /\ closer[c].at = "write"
    /\ \/ /\ AsShown(c)
          /\ week' = [week EXCEPT ![w] = "closed"]
          /\ item' = [k \in Sources |->
                        IF k \in closer[c].rollovers /\ ~Exists(k, w + 1)
                        THEN [item[k] EXCEPT ![w + 1] =
                                Continued(closer[c].shown[k], closer[c].shown[k].resolution)]
                        ELSE item[k]]
       \/ ~AsShown(c) /\ UNCHANGED <<week, item>>
    /\ closer' = [closer EXCEPT ![c] = NoClose]
    /\ UNCHANGED <<now, ingest, owner>>
-----------------------------------------------------------------------------
\* A week passes.
Tick ==
    /\ now < LastWeek
    /\ now' = now + 1
    /\ UNCHANGED <<week, item, ingest, owner, closer>>

IngestNext(i) ==
    \/ \E k \in Sources, w \in Weeks : Aim(i, k, w)
    \/ Look(i) \/ Observe(i) \/ Insert(i) \/ ContinueObserved(i)

OwnerNext(o) ==
    \/ \E k \in Sources, w \in Weeks, r \in Resolutions : Decide(o, k, w, r)
    \/ Resolve(o) \/ ContinueResolved(o)

CloserNext(c) ==
    \/ \E w \in Weeks : Confirm(c, w)
    \/ Close(c)

Next ==
    \/ Tick
    \/ \E i \in Ingests : IngestNext(i)
    \/ \E o \in Owners : OwnerNext(o)
    \/ \E c \in Closers : CloserNext(c)

Spec == Init /\ [][Next]_vars
-----------------------------------------------------------------------------
(* Properties *)

\* No open work ends in a closed week: whatever meets the close, the latest
\* item of a source that is open is in a week that still accepts changes.
OpenWorkContinues ==
    \A k \in Sources, w \in Weeks :
      IsLatest(k, w) /\ IsOpen(k, w) => week[w] = "open"

\* A week is closed with the items that the owner was shown, and then neither
\* an item nor the week changes any more.
ClosedAsShown ==
    [][\A w \in Weeks :
         /\ week[w] = "closed" =>
              week'[w] = "closed" /\ \A k \in Sources : item'[k][w] = item[k][w]
         /\ week[w] # "closed" /\ week'[w] = "closed" =>
              \E c \in Closers :
                /\ closer[c].at = "write" /\ closer[c].week = w
                /\ \A k \in Sources : closer[c].shown[k] = item[k][w]]_vars

\* What the latest item of a source says changes by the owner's decision only:
\* neither an observation nor a rollover that was read earlier brings a decided
\* resolution back, as long as the items share their logical_item_id.
ResolutionIsOwners ==
    [][\A k \in Sources, v \in Weeks, w \in Weeks :
         /\ IsLatest(k, v) /\ IsLatest(k, w)'
         /\ item'[k][w].resolution # item[k][v].resolution
         /\ item'[k][w].logical = item[k][v].logical
         => \E o \in Owners :
              /\ owner[o].at = "write" /\ owner'[o].at = "idle"
              /\ owner[o].source = k /\ owner[o].resolution = item'[k][w].resolution]_vars

\* The inductive invariant of the proofs.  A row that a request holds was read
\* from item (k, w): the item is still that row, or has a greater version.
Read(row, k, w) ==
    /\ row.version <= item[k][w].version
    /\ row.version = item[k][w].version => row = item[k][w]
    /\ row.version > 0 => row.logical \in Weeks /\ Exists(k, row.logical)

IngestHolds(i) ==
    /\ ingest[i].at \in {"observe", "insert"} => week[ingest[i].week] # "none"
    /\ ingest[i].at = "observe" => ingest[i].row.version \in 1 .. MaxVersion - 1
    /\ ingest[i].at = "insert" /\ ingest[i].previous > 0 =>
         /\ ingest[i].row.version > 0
         /\ Read(ingest[i].row, ingest[i].source, ingest[i].previous)

OwnerHolds(o) ==
    owner[o].at = "write" =>
      /\ owner[o].row.version > 0
      /\ Read(owner[o].row, owner[o].source, owner[o].week)
      /\ owner[o].week <= owner[o].to
      /\ owner[o].to = owner[o].week => owner[o].row.version < MaxVersion

\* A confirmation rolls over all open work of its week that nothing continues.
CloserHolds(c) ==
    closer[c].at = "write" =>
      /\ closer[c].week < LastWeek
      /\ \A k \in Sources : Read(closer[c].shown[k], k, closer[c].week)
      /\ \A k \in closer[c].rollovers : closer[c].shown[k].version > 0
      /\ \A k \in Sources :
           closer[c].shown[k].version > 0 /\ closer[c].shown[k].resolution \in Open =>
             \/ k \in closer[c].rollovers
             \/ \E v \in Weeks : v > closer[c].week /\ Exists(k, v)

RequestsHold ==
    /\ \A i \in Ingests : IngestHolds(i)
    /\ \A o \in Owners : OwnerHolds(o)
    /\ \A c \in Closers : CloserHolds(c)

\* logical_item_id names an item that is there.
ItemsHold ==
    \A k \in Sources, w \in Weeks :
      Exists(k, w) => item[k][w].logical \in Weeks /\ Exists(k, item[k][w].logical)

JournalInv == TypeOK /\ ItemsHold /\ RequestsHold /\ OpenWorkContinues
=============================================================================
