------------------------ MODULE JournalLibraryProofs ------------------------
(***************************************************************************)
(* Proofs about two services that keep their rows in D1 and guard each     *)
(* batch with what it relies on: JournalWeeks and LibraryAssets, for any   *)
(* weeks, sources, issues, objects, requests and bounds.                   *)
(*                                                                         *)
(* The Journal: an item is never taken away and each change raises its     *)
(* version.  What a request read and finds with the same version is what   *)
(* is there, and the guards of its batch then say enough about everything  *)
(* that came between (JournalInv).                                         *)
(*                                                                         *)
(* The Library: from its claim on, an object is taken by one group, no     *)
(* upload has it reserved and no other issue may show it (LibraryInv).     *)
(***************************************************************************)
EXTENDS JournalWeeks, LibraryAssets, TLAPS

USE JournalAssumption, LibraryAssumption
-----------------------------------------------------------------------------
(* Types *)

LEMMA TypeInit == Init => TypeOK
<1> SUFFICES ASSUME Init PROVE TypeOK
  OBVIOUS
<1>1. NoRow \in Rows /\ now \in Weeks
  BY DEF Init, NoRow, Rows, Weeks
<1>2. week \in [Weeks -> {"none", "open", "closed"}] /\ item \in [Sources -> [Weeks -> Rows]]
  BY <1>1 DEF Init
<1>3. ingest \in [Ingests -> IngestRequests]
  BY <1>1 DEF Init, IngestRequests, Weeks
<1>4. owner \in [Owners -> OwnerRequests]
  BY <1>1 DEF Init, OwnerRequests, Weeks
<1>5. NoClose \in CloseRequests
  BY <1>1 DEF NoClose, CloseRequests, Weeks
<1>6. closer \in [Closers -> CloseRequests]
  BY <1>5 DEF Init
<1> QED
  BY <1>1, <1>2, <1>3, <1>4, <1>6 DEF TypeOK

\* What Put leaves of the items.
LEMMA PutTyped ==
    ASSUME item \in [Sources -> [Weeks -> Rows]],
           NEW k \in Sources, NEW w \in Weeks, NEW row \in Rows, Put(k, w, row)
    PROVE  /\ item' \in [Sources -> [Weeks -> Rows]]
           /\ item'[k][w] = row
           /\ \A l \in Sources, v \in Weeks : l # k \/ v # w => item'[l][v] = item[l][v]
<1>1. item[k] \in [Weeks -> Rows] /\ [item[k] EXCEPT ![w] = row] \in [Weeks -> Rows]
  OBVIOUS
<1>2. item' = [item EXCEPT ![k] = [item[k] EXCEPT ![w] = row]]
  BY DEF Put
<1> QED
  BY <1>1, <1>2

LEMMA EnsuredTyped ==
    ASSUME week \in [Weeks -> {"none", "open", "closed"}], NEW w \in Weeks
    PROVE  /\ Ensured(w) \in [Weeks -> {"none", "open", "closed"}]
           /\ Ensured(w)[w] = IF week[w] = "none" THEN "open" ELSE week[w]
           /\ \A v \in Weeks \ {w} : Ensured(w)[v] = week[v]
  BY DEF Ensured

LEMMA RequestsTyped ==
    ASSUME TypeOK
    PROVE  /\ \A i \in Ingests :
                /\ ingest[i] \in IngestRequests
                /\ ingest[i].source \in Sources /\ ingest[i].week \in Weeks
                /\ ingest[i].previous \in 0 .. LastWeek /\ ingest[i].row \in Rows
           /\ \A o \in Owners :
                /\ owner[o] \in OwnerRequests
                /\ owner[o].source \in Sources /\ owner[o].week \in Weeks
                /\ owner[o].row \in Rows /\ owner[o].to \in Weeks
                /\ owner[o].resolution \in Resolutions
           /\ \A c \in Closers :
                /\ closer[c] \in CloseRequests
                /\ closer[c].week \in Weeks /\ closer[c].shown \in [Sources -> Rows]
                /\ closer[c].rollovers \subseteq Sources
  BY DEF TypeOK, IngestRequests, OwnerRequests, CloseRequests

LEMMA ItemsTyped ==
    ASSUME TypeOK, NEW k \in Sources, NEW w \in Weeks
    PROVE  /\ item[k][w] \in Rows
           /\ item[k][w].version \in 0 .. MaxVersion
           /\ item[k][w].resolution \in Resolutions
           /\ item[k][w].logical \in 0 .. LastWeek
<1>1. item[k] \in [Weeks -> Rows]
  BY DEF TypeOK
<1> QED
  BY <1>1 DEF Rows

LEMMA ContinuedTyped ==
    ASSUME NEW row \in Rows, NEW r \in Resolutions
    PROVE  /\ Continued(row, r) \in Rows
           /\ Continued(row, r).version = 1
           /\ Continued(row, r).resolution = r
           /\ Continued(row, r).logical = row.logical
  BY DEF Continued, Rows

LEMMA IngestDoneTyped ==
    ASSUME TypeOK, NEW i \in Ingests, IngestDone(i)
    PROVE  /\ ingest' \in [Ingests -> IngestRequests]
           /\ ingest'[i].at = "idle"
           /\ \A j \in Ingests \ {i} : ingest'[j] = ingest[j]
<1> DEFINE done == [ingest[i] EXCEPT !.at = "idle", !.week = 1, !.previous = 0, !.row = NoRow]
<1>0. NoRow \in Rows /\ 1 \in Weeks /\ 0 \in 0 .. LastWeek /\ ingest[i] \in IngestRequests
  BY RequestsTyped DEF NoRow, Rows, Weeks
<1>1. done \in IngestRequests /\ done.at = "idle"
  BY <1>0 DEF IngestRequests
<1>2. ingest' = [ingest EXCEPT ![i] = done]
  BY DEF IngestDone
<1> HIDE DEF done
<1> QED
  BY <1>1, <1>2 DEF TypeOK

LEMMA OwnerDoneTyped ==
    ASSUME TypeOK, NEW o \in Owners, OwnerDone(o)
    PROVE  /\ owner' \in [Owners -> OwnerRequests]
           /\ owner'[o].at = "idle"
           /\ \A p \in Owners \ {o} : owner'[p] = owner[p]
<1> DEFINE done == [owner[o] EXCEPT !.at = "idle", !.week = 1, !.row = NoRow, !.to = 1,
                                    !.resolution = "active"]
<1>0. NoRow \in Rows /\ 1 \in Weeks /\ owner[o] \in OwnerRequests
  BY RequestsTyped DEF NoRow, Rows, Weeks
<1>1. done \in OwnerRequests /\ done.at = "idle"
  BY <1>0 DEF OwnerRequests
<1>2. owner' = [owner EXCEPT ![o] = done]
  BY DEF OwnerDone
<1> HIDE DEF done
<1> QED
  BY <1>1, <1>2 DEF TypeOK
-----------------------------------------------------------------------------
(* What a write of one item keeps.  The items only grow. *)

Grows ==
    \A k \in Sources, w \in Weeks :
      item'[k][w] = item[k][w] \/ item'[k][w].version > item[k][w].version

\* Weeks are only opened.
Opens ==
    \A w \in Weeks : /\ week[w] = "open" => week'[w] = "open"
                     /\ week[w] = "closed" => week'[w] = "closed"
                     /\ week[w] # "none" => week'[w] # "none"

LEMMA ExistsKept ==
    ASSUME TypeOK, item' \in [Sources -> [Weeks -> Rows]], Grows,
           NEW k \in Sources, NEW w \in Weeks, Exists(k, w)
    PROVE  Exists(k, w)'
<1>1. item[k][w].version \in 0 .. MaxVersion
  BY ItemsTyped
<1>2. item'[k] \in [Weeks -> Rows]
  OBVIOUS
<1>3. item'[k][w].version \in 0 .. MaxVersion
  BY <1>2 DEF Rows
<1>4. item'[k][w] = item[k][w] \/ item'[k][w].version > item[k][w].version
  BY DEF Grows
<1> QED
  BY <1>1, <1>3, <1>4 DEF Exists

LEMMA SameItems ==
    ASSUME JournalInv, UNCHANGED item, Opens
    PROVE  Grows /\ ItemsHold' /\ OpenWorkContinues'
  BY DEF JournalInv, Grows, Opens, ItemsHold, OpenWorkContinues, IsLatest, IsOpen, Exists

LEMMA WriteKeeps ==
    ASSUME JournalInv, Opens,
           NEW k \in Sources, NEW w \in Weeks, NEW row \in Rows, Put(k, w, row),
           row.version > item[k][w].version,
           row.logical \in Weeks, row.logical = w \/ Exists(k, row.logical),
           week'[w] = "open"
    PROVE  /\ item' \in [Sources -> [Weeks -> Rows]]
           /\ Grows /\ ItemsHold' /\ OpenWorkContinues'
<1>0. TypeOK
  BY DEF JournalInv
<1>1. /\ item' \in [Sources -> [Weeks -> Rows]]
      /\ item'[k][w] = row
      /\ \A l \in Sources, v \in Weeks : l # k \/ v # w => item'[l][v] = item[l][v]
  BY <1>0, PutTyped DEF TypeOK
<1>2. Grows
  BY <1>1 DEF Grows
<1>3. \A l \in Sources, v \in Weeks : Exists(l, v) => Exists(l, v)'
  BY <1>0, <1>1, <1>2, ExistsKept
<1>4. Exists(k, w)'
  BY <1>0, <1>1, ItemsTyped DEF Exists, Rows
<1>5. ItemsHold'
  <2> SUFFICES ASSUME NEW l \in Sources, NEW v \in Weeks, Exists(l, v)'
               PROVE  item'[l][v].logical \in Weeks /\ Exists(l, item[l][v].logical)'
    BY DEF ItemsHold
  <2>1. CASE l = k /\ v = w
    BY <1>1, <1>3, <1>4, <2>1
  <2>2. CASE ~(l = k /\ v = w)
    <3>1. item'[l][v] = item[l][v] /\ Exists(l, v)
      BY <1>1, <2>2 DEF Exists
    <3>2. item[l][v].logical \in Weeks /\ Exists(l, item[l][v].logical)
      BY <3>1 DEF JournalInv, ItemsHold
    <3> DEFINE first == item[l][v].logical
    <3>3. Exists(l, first)'
      BY <1>3, <3>1, <3>2
    <3> QED
      BY <3>1, <3>2, <3>3
  <2> QED
    BY <2>1, <2>2
<1>6. OpenWorkContinues'
  <2> SUFFICES ASSUME NEW l \in Sources, NEW v \in Weeks, IsLatest(l, v)', IsOpen(l, v)'
               PROVE  week'[v] = "open"
    BY DEF OpenWorkContinues
  <2>1. CASE l = k /\ v = w
    BY <2>1
  <2>2. CASE ~(l = k /\ v = w)
    <3>1. item'[l][v] = item[l][v]
      BY <1>1, <2>2
    <3>2. IsLatest(l, v) /\ IsOpen(l, v)
      BY <1>3, <3>1 DEF IsLatest, IsOpen, Exists
    <3> QED
      BY <3>2 DEF JournalInv, OpenWorkContinues, Opens
  <2> QED
    BY <2>1, <2>2
<1> QED
  BY <1>1, <1>2, <1>5, <1>6

\* What was read stays true of an item that grows.
LEMMA ReadKept ==
    ASSUME TypeOK, Grows, item' \in [Sources -> [Weeks -> Rows]],
           NEW row \in Rows, NEW k \in Sources, NEW w \in Weeks, Read(row, k, w)
    PROVE  Read(row, k, w)'
<1>1. row.version \in 0 .. MaxVersion /\ item[k][w].version \in 0 .. MaxVersion
  BY ItemsTyped DEF Rows
<1>2. item'[k] \in [Weeks -> Rows]
  OBVIOUS
<1>3. item'[k][w].version \in 0 .. MaxVersion
  BY <1>2 DEF Rows
<1>4. item'[k][w] = item[k][w] \/ item'[k][w].version > item[k][w].version
  BY DEF Grows
<1>5. row.version <= item'[k][w].version
  BY <1>1, <1>3, <1>4 DEF Read
<1>6. row.version = item'[k][w].version => row = item'[k][w]
  BY <1>1, <1>3, <1>4 DEF Read
<1>7. row.version > 0 => row.logical \in Weeks /\ Exists(k, row.logical)'
  BY ExistsKept DEF Read
<1> QED
  BY <1>5, <1>6, <1>7 DEF Read

LEMMA IngestKept ==
    ASSUME TypeOK, TypeOK', Grows, NEW i \in Ingests, IngestHolds(i),
           \A v \in Weeks : week[v] # "none" => week'[v] # "none",
           \/ ingest'[i] = ingest[i]
           \/ ingest'[i].at \in {"idle", "look"}
    PROVE  IngestHolds(i)'
<1>1. CASE ingest'[i].at \in {"idle", "look"}
  BY <1>1 DEF IngestHolds
<1>2. CASE ingest'[i] = ingest[i]
  <2>1. PICK r \in IngestRequests : r = ingest[i] /\ r = ingest'[i]
    BY <1>2, RequestsTyped
  <2>2. r.row \in Rows /\ r.source \in Sources /\ r.week \in Weeks
        /\ r.previous \in 0 .. LastWeek
    BY DEF IngestRequests
  <2>3. r.at \in {"observe", "insert"} => week'[r.week] # "none"
    BY <2>1, <2>2 DEF IngestHolds
  <2>4. r.at = "observe" => r.row.version \in 1 .. MaxVersion - 1
    BY <2>1 DEF IngestHolds
  <2>5. ASSUME r.at = "insert", r.previous > 0
        PROVE  r.row.version > 0 /\ Read(r.row, r.source, r.previous)'
    <3>1. PICK row \in Rows, k \in Sources, w \in Weeks :
            row = r.row /\ k = r.source /\ w = r.previous
      BY <2>2, <2>5 DEF Weeks
    <3>2. Read(row, k, w) /\ row.version > 0
      BY <2>1, <2>5, <3>1 DEF IngestHolds
    <3>3. Read(row, k, w)'
      BY <3>2, ReadKept DEF TypeOK
    <3> QED
      BY <3>1, <3>2, <3>3
  <2> QED
    BY <2>1, <2>3, <2>4, <2>5 DEF IngestHolds
<1> QED
  BY <1>1, <1>2

LEMMA OwnerKept ==
    ASSUME TypeOK, TypeOK', Grows, NEW o \in Owners, OwnerHolds(o),
           owner'[o] = owner[o] \/ owner'[o].at = "idle"
    PROVE  OwnerHolds(o)'
<1>1. CASE owner'[o].at = "idle"
  BY <1>1 DEF OwnerHolds
<1>2. CASE owner'[o] = owner[o] /\ owner[o].at = "write"
  <2>1. PICK r \in OwnerRequests : r = owner[o] /\ r = owner'[o]
    BY <1>2, RequestsTyped
  <2>2. r.row \in Rows /\ r.source \in Sources /\ r.week \in Weeks
    BY DEF OwnerRequests
  <2>3. PICK row \in Rows, k \in Sources, w \in Weeks :
          row = r.row /\ k = r.source /\ w = r.week
    BY <2>2
  <2>4. Read(row, k, w)
    BY <1>2, <2>1, <2>3 DEF OwnerHolds
  <2>5. Read(row, k, w)'
    BY <2>4, ReadKept DEF TypeOK
  <2> QED
    BY <1>2, <2>1, <2>3, <2>5 DEF OwnerHolds
<1>3. CASE owner'[o] = owner[o] /\ owner[o].at # "write"
  BY <1>3 DEF OwnerHolds
<1> QED
  BY <1>1, <1>2, <1>3

LEMMA CloserKept ==
    ASSUME TypeOK, TypeOK', Grows, NEW c \in Closers, CloserHolds(c),
           closer'[c] = closer[c] \/ closer'[c].at = "idle"
    PROVE  CloserHolds(c)'
<1>1. CASE closer'[c].at = "idle"
  BY <1>1 DEF CloserHolds
<1>2. CASE closer'[c] = closer[c] /\ closer[c].at = "write"
  <2>1. PICK r \in CloseRequests : r = closer[c] /\ r = closer'[c]
    BY <1>2, RequestsTyped
  <2>2. r.shown \in [Sources -> Rows] /\ r.week \in Weeks
    BY DEF CloseRequests
  <2>3. \A k \in Sources : Read(r.shown[k], k, r.week)'
    <3> TAKE k \in Sources
    <3>1. PICK row \in Rows, w \in Weeks : row = r.shown[k] /\ w = r.week
      BY <2>2
    <3>2. Read(row, k, w)
      BY <1>2, <2>1, <3>1 DEF CloserHolds
    <3>3. Read(row, k, w)'
      BY <3>2, ReadKept DEF TypeOK
    <3> QED
      BY <3>1, <3>3
  <2>4. \A k \in Sources, v \in Weeks : Exists(k, v) => Exists(k, v)'
    BY ExistsKept DEF TypeOK
  <2>5. \A k \in Sources : r.shown[k].version > 0 /\ r.shown[k].resolution \in Open =>
             \/ k \in r.rollovers
             \/ \E v \in Weeks : v > r.week /\ Exists(k, v)'
    BY <1>2, <2>1, <2>4 DEF CloserHolds
  <2> QED
    BY <1>2, <2>1, <2>3, <2>5 DEF CloserHolds
<1>3. CASE closer'[c] = closer[c] /\ closer[c].at # "write"
  BY <1>3 DEF CloserHolds
<1> QED
  BY <1>1, <1>2, <1>3
-----------------------------------------------------------------------------
(* What each request's batch writes: at most one item, in an open week, with *)
(* a resolution that the latest item had, or that the owner has decided.     *)

OwnerDecides(k, r) ==
    \E o \in Owners : /\ owner[o].at = "write" /\ owner'[o].at = "idle"
                      /\ owner[o].source = k /\ owner[o].resolution = r

Writes(k, w, row) ==
    /\ row \in Rows
    /\ Put(k, w, row)
    /\ row.version > item[k][w].version
    /\ row.logical \in Weeks
    /\ row.logical = w \/ Exists(k, row.logical)
    /\ week[w] # "closed" /\ week'[w] = "open"
    /\ \A v \in Weeks :
         /\ IsLatest(k, v)
         /\ \A u \in Weeks : u > w => ~Exists(k, u)
         /\ row.logical = item[k][v].logical
         => row.resolution = item[k][v].resolution \/ OwnerDecides(k, row.resolution)

WritesOne ==
    \/ UNCHANGED item
    \/ \E k \in Sources, w \in Weeks : \E row \in Rows : Writes(k, w, row)

\* The one latest item of a source.
LEMMA LatestIs ==
    ASSUME NEW k \in Sources, NEW v \in Weeks, NEW w \in Weeks, IsLatest(k, v), Exists(k, w),
           \A u \in Weeks : u > w => ~Exists(k, u)
    PROVE  v = w
  BY DEF IsLatest, Weeks

LEMMA ObserveWrites ==
    ASSUME JournalInv, NEW i \in Ingests, Observe(i)
    PROVE  WritesOne
<1>1. PICK k \in Sources, w \in Weeks : k = ingest[i].source /\ w = ingest[i].week
  BY RequestsTyped DEF JournalInv
<1>2. CASE UNCHANGED item
  BY <1>2 DEF WritesOne
<1>3. CASE item' # item
  <2> DEFINE row == [item[k][w] EXCEPT !.version = @ + 1]
  <2>1. /\ item[k][w].version = ingest[i].row.version /\ week[w] = "open" /\ week' = week
        /\ Put(k, w, row)
    BY <1>1, <1>3 DEF Observe
  <2>2. item[k][w] \in Rows /\ item[k][w].version \in 1 .. MaxVersion - 1
    BY <1>1, <2>1, ItemsTyped DEF Observe, JournalInv, RequestsHold, IngestHolds
  <2>3. /\ row \in Rows /\ row.version > item[k][w].version
        /\ row.logical = item[k][w].logical /\ row.resolution = item[k][w].resolution
    BY <2>2 DEF Rows
  <2>4. Exists(k, w) /\ row.logical \in Weeks /\ Exists(k, row.logical)
    BY <2>2, <2>3 DEF Exists, JournalInv, ItemsHold
  <2>5. \A v \in Weeks : IsLatest(k, v) /\ (\A u \in Weeks : u > w => ~Exists(k, u))
                           => row.resolution = item[k][v].resolution
    BY <2>3, <2>4, LatestIs
  <2> HIDE DEF row
  <2>6. Writes(k, w, row)
    BY <2>1, <2>3, <2>4, <2>5 DEF Writes
  <2> QED
    BY <2>3, <2>6 DEF WritesOne
<1> QED
  BY <1>2, <1>3

LEMMA InsertWrites ==
    ASSUME JournalInv, NEW i \in Ingests, Insert(i)
    PROVE  WritesOne
<1>1. PICK k \in Sources, w \in Weeks, p \in 0 .. LastWeek, old \in Rows :
        /\ k = ingest[i].source /\ w = ingest[i].week
        /\ p = ingest[i].previous /\ old = ingest[i].row
  BY RequestsTyped DEF JournalInv
<1>2. CASE UNCHANGED item
  BY <1>2 DEF WritesOne
<1>3. CASE item' # item
  <2> DEFINE row == [version |-> 1, resolution |-> old.resolution,
                     logical |-> IF p = 0 THEN w ELSE old.logical]
  <2>1. /\ p = 0 \/ p > w
        /\ week[w] = "open" /\ week' = week /\ ~Exists(k, w)
        /\ Put(k, w, row)
    BY <1>1, <1>3 DEF Insert
  <2>2. p > 0 => old.version > 0 /\ Read(old, k, p)
    BY <1>1 DEF Insert, JournalInv, RequestsHold, IngestHolds
  <2>3. p > 0 => p \in Weeks /\ Exists(k, p) /\ old.logical \in Weeks /\ Exists(k, old.logical)
    <3> SUFFICES ASSUME p > 0
                 PROVE  p \in Weeks /\ Exists(k, p) /\ old.logical \in Weeks
                          /\ Exists(k, old.logical)
      OBVIOUS
    <3>1. p \in Weeks
      BY DEF Weeks
    <3>2. item[k][p].version \in 0 .. MaxVersion /\ old.version \in 0 .. MaxVersion
      BY <3>1, ItemsTyped DEF JournalInv, Rows
    <3> QED
      BY <2>2, <3>1, <3>2 DEF Read, Exists
  <2>4. item[k][w].version = 0
    BY <2>1, ItemsTyped DEF Exists, JournalInv
  <2>5. /\ row \in Rows /\ row.version = 1
        /\ row.logical = IF p = 0 THEN w ELSE old.logical
    BY <2>1, <2>3 DEF Rows, Weeks
  <2>6. row.logical \in Weeks /\ (row.logical = w \/ Exists(k, row.logical))
    BY <2>1, <2>3, <2>5
  <2>7. \A v \in Weeks : /\ IsLatest(k, v)
                         /\ \A u \in Weeks : u > w => ~Exists(k, u)
                         /\ row.logical = item[k][v].logical
                         => FALSE
    <3> SUFFICES ASSUME NEW v \in Weeks, IsLatest(k, v), row.logical = item[k][v].logical,
                        \A u \in Weeks : u > w => ~Exists(k, u)
                 PROVE  FALSE
      OBVIOUS
    <3>1. p = 0
      BY <2>1, <2>3 DEF Weeks
    <3>2. Exists(k, item[k][v].logical)
      BY DEF IsLatest, JournalInv, ItemsHold
    <3> QED
      BY <2>1, <2>5, <3>1, <3>2
  <2> HIDE DEF row
  <2>8. Writes(k, w, row)
    BY <2>1, <2>4, <2>5, <2>6, <2>7 DEF Writes
  <2> QED
    BY <2>5, <2>8 DEF WritesOne
<1> QED
  BY <1>2, <1>3

\* A continuation of the item of week p as it was read.
LEMMA ContinuesIt ==
    ASSUME JournalInv, NEW k \in Sources, NEW p \in Weeks, NEW w \in Weeks, p < w,
           NEW old \in Rows, NEW r \in Resolutions,
           old.version > 0, Read(old, k, p),
           CanContinue(k, p, old.version, w), week'[w] = "open",
           Put(k, w, Continued(old, r)),
           r = old.resolution \/ OwnerDecides(k, r)
    PROVE  WritesOne
<1>1. old = item[k][p] /\ old.logical \in Weeks /\ Exists(k, old.logical) /\ Exists(k, p)
  BY DEF CanContinue, Read, Exists
<1>2. /\ Continued(old, r) \in Rows /\ Continued(old, r).version = 1
      /\ Continued(old, r).resolution = r /\ Continued(old, r).logical = old.logical
  BY ContinuedTyped
<1>3. item[k][w].version = 0
  BY ItemsTyped DEF CanContinue, Exists, Weeks, JournalInv
<1>4. ASSUME NEW v \in Weeks, IsLatest(k, v), \A u \in Weeks : u > w => ~Exists(k, u)
      PROVE  v = p
  <2>1. \A u \in Weeks : u > p => ~Exists(k, u)
    BY <1>4 DEF CanContinue, Weeks
  <2> QED
    BY <1>1, <1>4, <2>1, LatestIs
<1>5. Writes(k, w, Continued(old, r))
  BY <1>1, <1>2, <1>3, <1>4 DEF Writes, CanContinue
<1> QED
  BY <1>2, <1>5 DEF WritesOne

LEMMA ContinueObservedWrites ==
    ASSUME JournalInv, NEW i \in Ingests, ContinueObserved(i)
    PROVE  WritesOne
<1>1. PICK k \in Sources, w \in Weeks, p \in 0 .. LastWeek, old \in Rows :
        /\ k = ingest[i].source /\ w = ingest[i].week
        /\ p = ingest[i].previous /\ old = ingest[i].row
  BY RequestsTyped DEF JournalInv
<1>2. CASE UNCHANGED item
  BY <1>2 DEF WritesOne
<1>3. CASE item' # item
  <2>1. /\ p \in Weeks /\ p < w /\ week' = week
        /\ CanContinue(k, p, old.version, w)
        /\ Put(k, w, Continued(old, old.resolution))
    BY <1>1, <1>3 DEF ContinueObserved, Weeks
  <2>2. old.version > 0 /\ Read(old, k, p) /\ week[w] # "none"
    BY <1>1, <2>1 DEF ContinueObserved, JournalInv, RequestsHold, IngestHolds
  <2>3. week[w] = "open"
    BY <2>1, <2>2 DEF CanContinue, JournalInv, TypeOK
  <2>4. PICK r \in Resolutions : r = old.resolution
    BY DEF Rows
  <2> QED
    BY <2>1, <2>2, <2>3, <2>4, ContinuesIt
<1> QED
  BY <1>2, <1>3

LEMMA ResolveWrites ==
    ASSUME JournalInv, NEW o \in Owners, Resolve(o)
    PROVE  WritesOne
<1>1. PICK k \in Sources, w \in Weeks, r \in Resolutions :
        k = owner[o].source /\ w = owner[o].week /\ r = owner[o].resolution
  BY RequestsTyped DEF JournalInv
<1>2. CASE UNCHANGED item
  BY <1>2 DEF WritesOne
<1>3. CASE item' # item
  <2> DEFINE row == [item[k][w] EXCEPT !.version = @ + 1, !.resolution = r]
  <2>1. /\ item[k][w].version = owner[o].row.version /\ week[w] = "open" /\ week' = week
        /\ Put(k, w, row) /\ OwnerDone(o) /\ owner[o].at = "write"
        /\ owner[o].to = owner[o].week
    BY <1>1, <1>3 DEF Resolve
  <2>2. /\ item[k][w] \in Rows /\ item[k][w].version \in Nat
        /\ item[k][w].version > 0 /\ item[k][w].version < MaxVersion
    BY <1>1, <2>1, ItemsTyped DEF JournalInv, RequestsHold, OwnerHolds
  <2>3. /\ row \in Rows /\ row.version > item[k][w].version
        /\ row.logical = item[k][w].logical /\ row.resolution = r
    <3>1. PICK old \in Rows, n \in 0 .. MaxVersion :
            old = item[k][w] /\ n = old.version + 1 /\ n > old.version
      BY <2>2
    <3>2. row = [old EXCEPT !.version = n, !.resolution = r]
      BY <3>1
    <3> HIDE DEF row
    <3>3. row \in Rows /\ row.version = n /\ row.logical = old.logical /\ row.resolution = r
      BY <3>2 DEF Rows
    <3> QED
      BY <3>1, <3>3
  <2>4. row.logical \in Weeks /\ Exists(k, row.logical)
    BY <2>2, <2>3 DEF Exists, JournalInv, ItemsHold
  <2>5. OwnerDecides(k, r)
    BY <1>1, <2>1, OwnerDoneTyped DEF OwnerDecides, JournalInv
  <2> HIDE DEF row
  <2>6. Writes(k, w, row)
    BY <2>1, <2>3, <2>4, <2>5 DEF Writes
  <2> QED
    BY <2>3, <2>6 DEF WritesOne
<1> QED
  BY <1>2, <1>3

LEMMA ContinueResolvedWrites ==
    ASSUME JournalInv, NEW o \in Owners, ContinueResolved(o)
    PROVE  WritesOne
<1>1. PICK k \in Sources, p \in Weeks, w \in Weeks, old \in Rows, r \in Resolutions :
        /\ k = owner[o].source /\ p = owner[o].week /\ w = owner[o].to
        /\ old = owner[o].row /\ r = owner[o].resolution
  BY RequestsTyped DEF JournalInv
<1>2. CASE UNCHANGED item
  BY <1>2 DEF WritesOne
<1>3. CASE item' # item
  <2>1. /\ week' = Ensured(w) /\ CanContinue(k, p, old.version, w)
        /\ Put(k, w, Continued(old, r)) /\ OwnerDone(o) /\ owner[o].at = "write"
        /\ w # p
    BY <1>1, <1>3 DEF ContinueResolved
  <2>2. old.version > 0 /\ Read(old, k, p) /\ p < w
    BY <1>1, <2>1 DEF JournalInv, RequestsHold, OwnerHolds, Weeks
  <2>3. week'[w] = "open"
    BY <2>1, EnsuredTyped DEF CanContinue, JournalInv, TypeOK
  <2>4. OwnerDecides(k, r)
    BY <1>1, <2>1, OwnerDoneTyped DEF OwnerDecides, JournalInv
  <2> QED
    BY <2>1, <2>2, <2>3, <2>4, ContinuesIt
<1> QED
  BY <1>2, <1>3
-----------------------------------------------------------------------------
(* What a step does to the items, in terms of the properties. *)

ClosedStays ==
    \A w \in Weeks :
      /\ week[w] = "closed" =>
           week'[w] = "closed" /\ \A k \in Sources : item'[k][w] = item[k][w]
      /\ week[w] # "closed" /\ week'[w] = "closed" =>
           \E c \in Closers :
             /\ closer[c].at = "write" /\ closer[c].week = w
             /\ \A k \in Sources : closer[c].shown[k] = item[k][w]

OwnerResolves ==
    \A k \in Sources, v \in Weeks, w \in Weeks :
      /\ IsLatest(k, v) /\ IsLatest(k, w)'
      /\ item'[k][w].resolution # item[k][v].resolution
      /\ item'[k][w].logical = item[k][v].logical
      => OwnerDecides(k, item'[k][w].resolution)

Good ==
    /\ item' \in [Sources -> [Weeks -> Rows]]
    /\ Grows /\ ItemsHold' /\ OpenWorkContinues' /\ ClosedStays /\ OwnerResolves

LEMMA SameResolves ==
    ASSUME UNCHANGED item
    PROVE  OwnerResolves
<1>1. ASSUME NEW k \in Sources, NEW v \in Weeks, NEW w \in Weeks, IsLatest(k, v), IsLatest(k, w)'
      PROVE  v = w
  BY <1>1 DEF IsLatest, Exists, Weeks
<1> QED
  BY <1>1 DEF OwnerResolves

\* Every step that opens weeks only and writes at most one item.
LEMMA WriteIsGood ==
    ASSUME JournalInv, Opens, WritesOne, \A v \in Weeks : week'[v] = "closed" => week[v] = "closed"
    PROVE  Good
<1>1. CASE UNCHANGED item
  <2>1. item' \in [Sources -> [Weeks -> Rows]]
    BY <1>1 DEF JournalInv, TypeOK
  <2>2. ClosedStays
    BY <1>1 DEF ClosedStays, Opens
  <2> QED
    BY <1>1, <2>1, <2>2, SameItems, SameResolves DEF Good
<1>2. ASSUME NEW k \in Sources, NEW w \in Weeks, NEW row \in Rows, Writes(k, w, row)
      PROVE  Good
  <2>1. /\ item' \in [Sources -> [Weeks -> Rows]]
        /\ Grows /\ ItemsHold' /\ OpenWorkContinues'
    BY <1>2, WriteKeeps DEF Writes
  <2>2. /\ item'[k][w] = row
        /\ \A l \in Sources, v \in Weeks : l # k \/ v # w => item'[l][v] = item[l][v]
    BY <1>2, PutTyped DEF Writes, JournalInv, TypeOK
  <2>3. ClosedStays
    BY <1>2, <2>2 DEF ClosedStays, Opens, Writes
  <2>4. OwnerResolves
    <3> SUFFICES ASSUME NEW l \in Sources, NEW v \in Weeks, NEW u \in Weeks,
                        IsLatest(l, v), IsLatest(l, u)',
                        item'[l][u].resolution # item[l][v].resolution,
                        item'[l][u].logical = item[l][v].logical
                 PROVE  OwnerDecides(l, item'[l][u].resolution)
      BY DEF OwnerResolves
    <3>1. \A x \in Weeks : Exists(l, x) => Exists(l, x)'
      BY <2>1, ExistsKept DEF JournalInv
    <3>2. \A x \in Weeks : x > u => ~Exists(l, x)'
      BY DEF IsLatest
    <3>3. CASE l = k /\ u = w
      <4>1. \A x \in Weeks : x > w => ~Exists(k, x)
        BY <3>1, <3>2, <3>3
      <4> QED
        BY <1>2, <2>2, <3>3, <4>1 DEF Writes
    <3>4. CASE ~(l = k /\ u = w)
      <4>1. item'[l][u] = item[l][u] /\ Exists(l, u)
        BY <2>2, <3>4 DEF IsLatest, Exists
      <4>2. v = u
        BY <3>1, <3>2, <4>1, LatestIs
      <4> QED
        BY <4>1, <4>2
    <3> QED
      BY <3>3, <3>4
  <2> QED
    BY <2>1, <2>3, <2>4 DEF Good
<1> QED
  BY <1>1, <1>2 DEF WritesOne

\* The close: the week is closed with what was shown, and what was open there is
\* the next week's.
LEMMA CloseIsGood ==
    ASSUME JournalInv, NEW c \in Closers, Close(c)
    PROVE  Good /\ week' \in [Weeks -> {"none", "open", "closed"}]
                /\ \A v \in Weeks : week[v] # "none" => week'[v] # "none"
<1>0. TypeOK /\ CloserHolds(c)
  BY DEF JournalInv, RequestsHold
<1>1. CASE ~AsShown(c)
  <2>1. UNCHANGED <<week, item>>
    BY <1>1 DEF Close
  <2>2. WritesOne /\ Opens
    BY <2>1 DEF WritesOne, Opens
  <2> QED
    BY <1>0, <2>1, <2>2, WriteIsGood DEF TypeOK
<1>2. CASE AsShown(c)
  <2>1. PICK w \in Weeks, shown \in [Sources -> Rows], rolled \in SUBSET Sources :
          w = closer[c].week /\ shown = closer[c].shown /\ rolled = closer[c].rollovers
    BY <1>0, RequestsTyped
  <2>2. /\ week[w] = "open" /\ w + 1 \in Weeks
        /\ \A k \in Sources : item[k][w].version = shown[k].version
        /\ rolled # {} => week[w + 1] = "open"
        /\ closer[c].at = "write"
    BY <1>0, <1>2, <2>1 DEF AsShown, Close, CloserHolds, Weeks
  <2>3. \A k \in Sources : item[k][w] = shown[k] /\ (k \in rolled => Exists(k, w))
    BY <1>0, <2>1, <2>2 DEF CloserHolds, Read, Exists
  <2> DEFINE carried(k) == Continued(shown[k], shown[k].resolution)
             moves(k) == k \in rolled /\ ~Exists(k, w + 1)
  <2>4. \A k \in Sources : /\ carried(k) \in Rows
                           /\ carried(k).version = 1
                           /\ carried(k).resolution = shown[k].resolution
                           /\ carried(k).logical = shown[k].logical
    BY ContinuedTyped DEF Rows
  <2>5. week' = [week EXCEPT ![w] = "closed"]
        /\ item' = [k \in Sources |->
                      IF moves(k) THEN [item[k] EXCEPT ![w + 1] = carried(k)] ELSE item[k]]
    BY <1>2, <2>1 DEF Close
  <2> HIDE DEF carried, moves
  <2>6. /\ week' \in [Weeks -> {"none", "open", "closed"}]
        /\ week'[w] = "closed" /\ \A v \in Weeks \ {w} : week'[v] = week[v]
    BY <1>0, <2>5 DEF TypeOK
  <2>7. \A k \in Sources : item'[k] \in [Weeks -> Rows]
    BY <1>0, <2>2, <2>4, <2>5 DEF TypeOK
  <2>8. \A k \in Sources, v \in Weeks :
          /\ moves(k) /\ v = w + 1 => item'[k][v] = carried(k)
          /\ ~(moves(k) /\ v = w + 1) => item'[k][v] = item[k][v]
    BY <1>0, <2>2, <2>5 DEF TypeOK
  <2>9. item' \in [Sources -> [Weeks -> Rows]]
    BY <2>5, <2>7
  <2>10. \A k \in Sources : moves(k) => item[k][w + 1].version = 0
    BY <1>0, <2>2, ItemsTyped DEF moves, Exists
  <2>11. Grows
    BY <2>4, <2>8, <2>10 DEF Grows
  <2>12. \A k \in Sources, v \in Weeks : Exists(k, v) => Exists(k, v)'
    BY <1>0, <2>9, <2>11, ExistsKept
  <2>13. \A k \in Sources : moves(k) =>
           /\ Exists(k, w + 1)' /\ Exists(k, w)
           /\ shown[k].logical \in Weeks /\ Exists(k, shown[k].logical)
    <3> SUFFICES ASSUME NEW k \in Sources, moves(k)
                 PROVE  /\ Exists(k, w + 1)' /\ Exists(k, w)
                        /\ shown[k].logical \in Weeks /\ Exists(k, shown[k].logical)
      OBVIOUS
    <3>1. Exists(k, w + 1)'
      BY <2>2, <2>4, <2>8 DEF Exists
    <3>2. Exists(k, w)
      BY <2>3 DEF moves
    <3> QED
      BY <2>3, <3>1, <3>2 DEF JournalInv, ItemsHold
  <2>14. ItemsHold'
    <3> SUFFICES ASSUME NEW k \in Sources, NEW v \in Weeks, Exists(k, v)'
                 PROVE  item'[k][v].logical \in Weeks /\ Exists(k, item[k][v].logical)'
      BY DEF ItemsHold
    <3>1. CASE moves(k) /\ v = w + 1
      <4>1. PICK first \in Weeks : first = shown[k].logical /\ Exists(k, first)
        BY <2>13, <3>1
      <4> QED
        BY <2>4, <2>8, <2>12, <3>1, <4>1
    <3>2. CASE ~(moves(k) /\ v = w + 1)
      <4>1. item'[k][v] = item[k][v] /\ Exists(k, v)
        BY <2>8, <3>2 DEF Exists
      <4>2. PICK first \in Weeks : first = item[k][v].logical /\ Exists(k, first)
        BY <4>1 DEF JournalInv, ItemsHold
      <4> QED
        BY <2>12, <4>1, <4>2
    <3> QED
      BY <3>1, <3>2
  <2>15. OpenWorkContinues'
    <3> SUFFICES ASSUME NEW k \in Sources, NEW v \in Weeks, IsLatest(k, v)', IsOpen(k, v)'
                 PROVE  week'[v] = "open"
      BY DEF OpenWorkContinues
    <3>1. CASE moves(k) /\ v = w + 1
      BY <2>2, <2>6, <3>1 DEF moves, Weeks
    <3>2. CASE ~(moves(k) /\ v = w + 1)
      <4>1. item'[k][v] = item[k][v]
        BY <2>8, <3>2
      <4>2. IsLatest(k, v) /\ IsOpen(k, v)
        BY <2>12, <4>1 DEF IsLatest, IsOpen, Exists
      <4>3. week[v] = "open"
        BY <4>2 DEF JournalInv, OpenWorkContinues
      <4>4. CASE v = w
        <5>1. shown[k].version > 0 /\ shown[k].resolution \in Open
          BY <2>3, <4>2, <4>4 DEF IsLatest, IsOpen, Exists
        <5>2. k \in rolled \/ \E u \in Weeks : u > w /\ Exists(k, u)
          BY <1>0, <2>1, <2>2, <5>1 DEF CloserHolds
        <5>3. k \in rolled /\ ~Exists(k, w + 1)
          BY <2>2, <4>2, <4>4, <5>2 DEF IsLatest, Weeks
        <5> QED
          BY <2>2, <2>13, <4>4, <5>3 DEF moves, IsLatest, Weeks
      <4> QED
        BY <2>6, <4>3, <4>4
    <3> QED
      BY <3>1, <3>2
  <2>16. ClosedStays
    <3>1. \A k \in Sources, v \in Weeks : week[v] = "closed" => item'[k][v] = item[k][v]
      BY <2>2, <2>8 DEF moves
    <3>2. \A v \in Weeks : week[v] # "closed" /\ week'[v] = "closed" => v = w
      BY <2>6
    <3> QED
      BY <2>1, <2>2, <2>3, <2>6, <3>1, <3>2 DEF ClosedStays
  <2>17. OwnerResolves
    <3> SUFFICES ASSUME NEW k \in Sources, NEW v \in Weeks, NEW u \in Weeks,
                        IsLatest(k, v), IsLatest(k, u)'
                 PROVE  item'[k][u].resolution = item[k][v].resolution
      BY DEF OwnerResolves
    <3>1. \A x \in Weeks : x > u => ~Exists(k, x)
      BY <2>12 DEF IsLatest
    <3>2. CASE moves(k) /\ u = w + 1
      <4>1. \A x \in Weeks : x > w => ~Exists(k, x)
        BY <3>1, <3>2 DEF moves, Weeks
      <4>2. v = w
        BY <2>13, <3>2, <4>1, LatestIs
      <4> QED
        BY <2>3, <2>4, <2>8, <3>2, <4>2
    <3>3. CASE ~(moves(k) /\ u = w + 1)
      <4>1. item'[k][u] = item[k][u] /\ Exists(k, u)
        BY <2>8, <3>3 DEF IsLatest, Exists
      <4> QED
        BY <3>1, <4>1, LatestIs
    <3> QED
      BY <3>2, <3>3
  <2> QED
    BY <2>6, <2>9, <2>11, <2>14, <2>15, <2>16, <2>17 DEF Good
<1> QED
  BY <1>1, <1>2
-----------------------------------------------------------------------------
(* The steps. *)

\* Types of the requests that read.
LEMMA AimTyped ==
    ASSUME TypeOK, NEW i \in Ingests, NEW k \in Sources, NEW w \in Weeks, Aim(i, k, w)
    PROVE  /\ ingest' \in [Ingests -> IngestRequests]
           /\ ingest'[i].at = "look"
           /\ \A j \in Ingests \ {i} : ingest'[j] = ingest[j]
<1> DEFINE aimed == [ingest[i] EXCEPT !.at = "look", !.source = k, !.week = w]
<1>1. aimed \in IngestRequests /\ aimed.at = "look"
  BY RequestsTyped DEF IngestRequests
<1>2. ingest' = [ingest EXCEPT ![i] = aimed]
  BY DEF Aim
<1> HIDE DEF aimed
<1> QED
  BY <1>1, <1>2 DEF TypeOK

LEMMA LookHolds ==
    ASSUME JournalInv, NEW i \in Ingests, Look(i)
    PROVE  /\ ingest' \in [Ingests -> IngestRequests]
           /\ IngestHolds(i)'
           /\ \A j \in Ingests \ {i} : ingest'[j] = ingest[j]
<1>0. TypeOK /\ week' = Ensured(ingest[i].week) /\ item' = item
  BY DEF JournalInv, Look
<1>1. PICK k \in Sources, w \in Weeks : k = ingest[i].source /\ w = ingest[i].week
  BY <1>0, RequestsTyped
<1>2. week'[w] # "none"
  BY <1>0, <1>1, EnsuredTyped DEF TypeOK
<1>3. CASE IngestDone(i)
  BY <1>0, <1>3, IngestDoneTyped DEF IngestHolds
<1>4. CASE item[k][w].version \in 1 .. MaxVersion - 1
           /\ ingest' = [ingest EXCEPT ![i] = [@ EXCEPT !.at = "observe", !.row = item[k][w]]]
  <2>1. PICK row \in Rows : row = item[k][w]
    BY <1>0, ItemsTyped
  <2> DEFINE r == [ingest[i] EXCEPT !.at = "observe", !.row = row]
  <2>2. r \in IngestRequests /\ r.at = "observe" /\ r.row = row /\ r.week = w
    BY <1>0, <1>1, RequestsTyped DEF IngestRequests
  <2>3. ingest' = [ingest EXCEPT ![i] = r]
    BY <1>4, <2>1
  <2> HIDE DEF r
  <2>4. ingest' \in [Ingests -> IngestRequests] /\ ingest'[i] = r
        /\ \A j \in Ingests \ {i} : ingest'[j] = ingest[j]
    BY <1>0, <2>2, <2>3 DEF TypeOK
  <2> QED
    BY <1>2, <1>4, <2>1, <2>2, <2>4 DEF IngestHolds
<1>5. ASSUME NEW p \in 0 .. LastWeek,
             IF p = 0 THEN \A v \in Weeks : ~Exists(k, v) ELSE IsLatest(k, p),
             ingest' = [ingest EXCEPT ![i] = [@ EXCEPT !.at = "insert", !.previous = p,
                                                !.row = IF p = 0 THEN NoRow ELSE item[k][p]]]
      PROVE  /\ ingest' \in [Ingests -> IngestRequests]
             /\ IngestHolds(i)'
             /\ \A j \in Ingests \ {i} : ingest'[j] = ingest[j]
  <2>1. PICK row \in Rows : row = IF p = 0 THEN NoRow ELSE item[k][p]
    <3>1. NoRow \in Rows /\ (p # 0 => p \in Weeks)
      BY DEF NoRow, Rows, Weeks
    <3> QED
      BY <1>0, <3>1, ItemsTyped
  <2> DEFINE r == [ingest[i] EXCEPT !.at = "insert", !.previous = p, !.row = row]
  <2>2. /\ r \in IngestRequests /\ r.at = "insert" /\ r.row = row /\ r.week = w
        /\ r.previous = p /\ r.source = k
    BY <1>0, <1>1, RequestsTyped DEF IngestRequests
  <2>3. ingest' = [ingest EXCEPT ![i] = r]
    BY <1>5, <2>1
  <2> HIDE DEF r
  <2>4. ingest' \in [Ingests -> IngestRequests] /\ ingest'[i] = r
        /\ \A j \in Ingests \ {i} : ingest'[j] = ingest[j]
    BY <1>0, <2>2, <2>3 DEF TypeOK
  <2>5. ASSUME p > 0 PROVE row.version > 0 /\ Read(row, k, p)
    <3>1. p \in Weeks /\ row = item[k][p] /\ Exists(k, p)
      BY <1>5, <2>1, <2>5 DEF Weeks, IsLatest
    <3>2. row.version \in 0 .. MaxVersion
      BY DEF Rows
    <3> QED
      BY <3>1, <3>2 DEF Read, Exists, JournalInv, ItemsHold
  <2>6. p > 0 => row.version > 0 /\ Read(row, k, p)'
    BY <1>0, <2>5 DEF Read, Exists
  <2> QED
    BY <1>2, <2>2, <2>4, <2>6 DEF IngestHolds
<1> QED
  BY <1>1, <1>3, <1>4, <1>5 DEF Look

LEMMA DecideHolds ==
    ASSUME JournalInv, NEW o \in Owners, NEW k \in Sources, NEW w \in Weeks,
           NEW resolution \in Resolutions, Decide(o, k, w, resolution)
    PROVE  /\ owner' \in [Owners -> OwnerRequests]
           /\ OwnerHolds(o)'
           /\ \A p \in Owners \ {o} : owner'[p] = owner[p]
<1>0. TypeOK /\ item' = item /\ now \in Weeks
  BY DEF JournalInv, Decide, TypeOK
<1>1. PICK row \in Rows, to \in Weeks :
        /\ row = item[k][w] /\ w <= to /\ row.version > 0
        /\ to = w => row.version < MaxVersion
        /\ owner' = [owner EXCEPT ![o] =
                       [at |-> "write", source |-> k, week |-> w, row |-> row, to |-> to,
                        resolution |-> resolution]]
  <2> DEFINE continues == w < now /\ IsOpen(k, w)
  <2>1. PICK row \in Rows : row = item[k][w]
    BY <1>0, ItemsTyped
  <2>2. PICK to \in Weeks : to = IF continues THEN now ELSE w
    BY <1>0
  <2>3. row.version > 0
    BY <2>1 DEF Decide, IsLatest, Exists
  <2>4. w <= to /\ (to = w => row.version < MaxVersion)
    BY <1>0, <2>1, <2>2 DEF Decide, Weeks
  <2> QED
    BY <2>1, <2>2, <2>3, <2>4 DEF Decide
<1> DEFINE r == [at |-> "write", source |-> k, week |-> w, row |-> row, to |-> to,
                 resolution |-> resolution]
<1>2. r \in OwnerRequests
  BY DEF OwnerRequests
<1>3. r.row = row /\ r.source = k /\ r.week = w /\ r.to = to
  OBVIOUS
<1> HIDE DEF r
<1>4. /\ owner' \in [Owners -> OwnerRequests] /\ owner'[o] = r
      /\ \A p \in Owners \ {o} : owner'[p] = owner[p]
  BY <1>0, <1>1, <1>2 DEF TypeOK, r
<1>5. Read(row, k, w)'
  <2>1. row.version \in 0 .. MaxVersion
    BY DEF Rows
  <2> QED
    BY <1>0, <1>1, <2>1 DEF Read, Exists, JournalInv, ItemsHold
<1> QED
  BY <1>1, <1>3, <1>4, <1>5 DEF OwnerHolds

LEMMA ConfirmHolds ==
    ASSUME JournalInv, NEW c \in Closers, NEW w \in Weeks, Confirm(c, w)
    PROVE  /\ closer' \in [Closers -> CloseRequests]
           /\ CloserHolds(c)'
           /\ \A d \in Closers \ {c} : closer'[d] = closer[d]
<1>0. TypeOK /\ item' = item /\ w < LastWeek /\ w + 1 \in Weeks
  BY DEF JournalInv, Confirm, Weeks
<1>1. PICK shown \in [Sources -> Rows], rolled \in SUBSET Sources :
        /\ shown = [k \in Sources |-> item[k][w]]
        /\ rolled = {k \in Remaining(w) : ~Exists(k, w + 1)}
  <2>1. [k \in Sources |-> item[k][w]] \in [Sources -> Rows]
    BY <1>0, ItemsTyped
  <2>2. {k \in Remaining(w) : ~Exists(k, w + 1)} \subseteq Sources
    BY DEF Remaining
  <2> QED
    BY <2>1, <2>2
<1> DEFINE r == [at |-> "write", week |-> w, shown |-> shown, rollovers |-> rolled]
<1>2. closer' = [closer EXCEPT ![c] = r]
  BY <1>1 DEF Confirm
<1>3. r \in CloseRequests
  BY <1>1 DEF CloseRequests
<1>4. r.at = "write" /\ r.week = w /\ r.shown = shown /\ r.rollovers = rolled
  OBVIOUS
<1> HIDE DEF r
<1>5. /\ closer' \in [Closers -> CloseRequests] /\ closer'[c] = r
      /\ \A d \in Closers \ {c} : closer'[d] = closer[d]
  BY <1>0, <1>2, <1>3 DEF TypeOK
<1>6. \A k \in Sources : shown[k] = item[k][w]
  BY <1>1
<1>7. \A k \in Sources : Read(shown[k], k, w)'
  <2> TAKE k \in Sources
  <2>1. PICK row \in Rows : row = shown[k] /\ row = item[k][w]
    BY <1>6
  <2>2. row.version \in 0 .. MaxVersion
    BY DEF Rows
  <2>3. Read(row, k, w)'
    BY <1>0, <2>1, <2>2 DEF Read, Exists, JournalInv, ItemsHold
  <2> QED
    BY <2>1, <2>3
<1>8. \A k \in rolled : shown[k].version > 0
  BY <1>1, <1>6 DEF Remaining, IsLatest, Exists
<1>9. \A k \in Sources : shown[k].version > 0 /\ shown[k].resolution \in Open =>
         \/ k \in rolled
         \/ \E v \in Weeks : v > w /\ Exists(k, v)'
  BY <1>0, <1>1, <1>6 DEF Remaining, IsLatest, IsOpen, Exists, Weeks
<1>10. CloserHolds(c)'
  BY <1>0, <1>4, <1>5, <1>7, <1>8, <1>9 DEF CloserHolds
<1> QED
  BY <1>5, <1>10

\* A step other than a close opens weeks only.
LEMMA OpensTyped ==
    ASSUME TypeOK, NEW w \in Weeks, week' = Ensured(w)
    PROVE  /\ week' \in [Weeks -> {"none", "open", "closed"}]
           /\ Opens /\ \A v \in Weeks : week'[v] = "closed" => week[v] = "closed"
  BY EnsuredTyped DEF TypeOK, Opens

LEMMA SameWeeks ==
    ASSUME TypeOK, UNCHANGED week
    PROVE  /\ week' \in [Weeks -> {"none", "open", "closed"}]
           /\ Opens /\ \A v \in Weeks : week'[v] = "closed" => week[v] = "closed"
  BY DEF TypeOK, Opens

LEMMA ConfirmOpens ==
    ASSUME TypeOK, NEW c \in Closers, NEW w \in Weeks, Confirm(c, w)
    PROVE  /\ week' \in [Weeks -> {"none", "open", "closed"}]
           /\ Opens /\ \A v \in Weeks : week'[v] = "closed" => week[v] = "closed"
<1>1. \A v \in Weeks : Ensured(v)[v] = IF week[v] = "none" THEN "open" ELSE week[v]
  BY EnsuredTyped DEF TypeOK
<1>2. \A v \in Weeks :
        week'[v] = week[v] \/ week'[v] = IF week[v] = "none" THEN "open" ELSE week[v]
  BY <1>1 DEF Confirm
<1>3. week' = [v \in Weeks |-> week'[v]]
  BY DEF Confirm
<1> QED
  BY <1>2, <1>3 DEF TypeOK, Opens

\* What every step keeps, and what it does in terms of the properties.
Kept == JournalInv' /\ ClosedStays /\ OwnerResolves

LEMMA KeptBy ==
    ASSUME JournalInv, Good, week' \in [Weeks -> {"none", "open", "closed"}], now' \in Weeks,
           ingest' \in [Ingests -> IngestRequests], owner' \in [Owners -> OwnerRequests],
           closer' \in [Closers -> CloseRequests],
           RequestsHold'
    PROVE  Kept
  BY DEF Kept, Good, JournalInv, TypeOK

LEMMA RequestsKept ==
    ASSUME JournalInv, TypeOK', Good, \A v \in Weeks : week[v] # "none" => week'[v] # "none",
           \A i \in Ingests : \/ ingest'[i] = ingest[i]
                              \/ ingest'[i].at \in {"idle", "look"}
                              \/ IngestHolds(i)',
           \A o \in Owners : \/ owner'[o] = owner[o] \/ owner'[o].at = "idle"
                             \/ OwnerHolds(o)',
           \A c \in Closers : \/ closer'[c] = closer[c] \/ closer'[c].at = "idle"
                              \/ CloserHolds(c)'
    PROVE  RequestsHold'
<1>1. TypeOK /\ Grows /\ RequestsHold
  BY DEF JournalInv, Good
<1>2. \A i \in Ingests : IngestHolds(i)'
  BY <1>1, IngestKept DEF RequestsHold
<1>3. \A o \in Owners : OwnerHolds(o)'
  BY <1>1, OwnerKept DEF RequestsHold
<1>4. \A c \in Closers : CloserHolds(c)'
  BY <1>1, CloserKept DEF RequestsHold
<1> QED
  BY <1>2, <1>3, <1>4 DEF RequestsHold

LEMMA Step == JournalInv /\ [Next]_vars => Kept
<1> SUFFICES ASSUME JournalInv, [Next]_vars PROVE Kept
  OBVIOUS
<1>0. /\ TypeOK /\ ingest \in [Ingests -> IngestRequests] /\ owner \in [Owners -> OwnerRequests]
      /\ closer \in [Closers -> CloseRequests] /\ now \in Weeks
  BY DEF JournalInv, TypeOK
<1>1. ASSUME NEW i \in Ingests, IngestNext(i) PROVE Kept
  <2>1. now' = now /\ owner' = owner /\ closer' = closer
    BY <1>1 DEF IngestNext, Aim, Look, Observe, Insert, ContinueObserved
  <2>2. PICK w \in Weeks : w = ingest[i].week
    BY <1>0, RequestsTyped
  <2>3. /\ week' \in [Weeks -> {"none", "open", "closed"}]
        /\ Opens /\ \A v \in Weeks : week'[v] = "closed" => week[v] = "closed"
    BY <1>0, <1>1, <2>2, OpensTyped, SameWeeks
       DEF IngestNext, Aim, Look, Observe, Insert, ContinueObserved
  <2>4. WritesOne
    BY <1>1, ObserveWrites, InsertWrites, ContinueObservedWrites
       DEF IngestNext, Aim, Look, WritesOne
  <2>5. /\ ingest' \in [Ingests -> IngestRequests]
        /\ ingest'[i].at \in {"idle", "look"} \/ IngestHolds(i)'
        /\ \A j \in Ingests \ {i} : ingest'[j] = ingest[j]
    BY <1>0, <1>1, AimTyped, LookHolds, IngestDoneTyped
       DEF IngestNext, Observe, Insert, ContinueObserved
  <2>6. Good
    BY <2>3, <2>4, WriteIsGood
  <2>7. TypeOK'
    BY <1>0, <2>1, <2>3, <2>5, <2>6 DEF TypeOK, Good
  <2>8. RequestsHold'
    BY <2>1, <2>3, <2>5, <2>6, <2>7, RequestsKept DEF Opens
  <2> QED
    BY <1>0, <2>1, <2>3, <2>5, <2>6, <2>8, KeptBy
<1>2. ASSUME NEW o \in Owners, OwnerNext(o) PROVE Kept
  <2>1. now' = now /\ ingest' = ingest /\ closer' = closer
    BY <1>2 DEF OwnerNext, Decide, Resolve, ContinueResolved
  <2>2. PICK w \in Weeks : w = owner[o].to
    BY <1>0, RequestsTyped
  <2>3. /\ week' \in [Weeks -> {"none", "open", "closed"}]
        /\ Opens /\ \A v \in Weeks : week'[v] = "closed" => week[v] = "closed"
    BY <1>0, <1>2, <2>2, OpensTyped, SameWeeks DEF OwnerNext, Decide, Resolve, ContinueResolved
  <2>4. WritesOne
    BY <1>2, ResolveWrites, ContinueResolvedWrites DEF OwnerNext, Decide, WritesOne
  <2>5. /\ owner' \in [Owners -> OwnerRequests]
        /\ owner'[o].at = "idle" \/ OwnerHolds(o)'
        /\ \A p \in Owners \ {o} : owner'[p] = owner[p]
    BY <1>0, <1>2, DecideHolds, OwnerDoneTyped DEF OwnerNext, Resolve, ContinueResolved
  <2>6. Good
    BY <2>3, <2>4, WriteIsGood
  <2>7. TypeOK'
    BY <1>0, <2>1, <2>3, <2>5, <2>6 DEF TypeOK, Good
  <2>8. RequestsHold'
    BY <2>1, <2>3, <2>5, <2>6, <2>7, RequestsKept DEF Opens
  <2> QED
    BY <1>0, <2>1, <2>3, <2>5, <2>6, <2>8, KeptBy
<1>3. ASSUME NEW c \in Closers, NEW w \in Weeks, Confirm(c, w) PROVE Kept
  <2>1. now' = now /\ ingest' = ingest /\ owner' = owner /\ WritesOne
    BY <1>3 DEF Confirm, WritesOne
  <2>2. /\ week' \in [Weeks -> {"none", "open", "closed"}]
        /\ Opens /\ \A v \in Weeks : week'[v] = "closed" => week[v] = "closed"
    BY <1>0, <1>3, ConfirmOpens
  <2>3. /\ closer' \in [Closers -> CloseRequests]
        /\ CloserHolds(c)'
        /\ \A d \in Closers \ {c} : closer'[d] = closer[d]
    BY <1>3, ConfirmHolds
  <2>4. Good
    BY <2>1, <2>2, WriteIsGood
  <2>5. TypeOK'
    BY <1>0, <2>1, <2>2, <2>3, <2>4 DEF TypeOK, Good
  <2>6. RequestsHold'
    BY <2>1, <2>2, <2>3, <2>4, <2>5, RequestsKept DEF Opens
  <2> QED
    BY <1>0, <2>1, <2>2, <2>3, <2>4, <2>6, KeptBy
<1>4. ASSUME NEW c \in Closers, Close(c) PROVE Kept
  <2>1. now' = now /\ ingest' = ingest /\ owner' = owner
    BY <1>4 DEF Close
  <2>2. Good /\ week' \in [Weeks -> {"none", "open", "closed"}]
             /\ \A v \in Weeks : week[v] # "none" => week'[v] # "none"
    BY <1>4, CloseIsGood
  <2>3. NoClose \in CloseRequests /\ NoClose.at = "idle"
    BY DEF NoClose, CloseRequests, NoRow, Rows, Weeks
  <2>4. closer' = [closer EXCEPT ![c] = NoClose]
    BY <1>4 DEF Close
  <2>5. /\ closer' \in [Closers -> CloseRequests]
        /\ closer'[c].at = "idle"
        /\ \A d \in Closers \ {c} : closer'[d] = closer[d]
    BY <1>0, <2>3, <2>4
  <2>6. TypeOK'
    BY <1>0, <2>1, <2>2, <2>5 DEF TypeOK, Good
  <2>7. RequestsHold'
    BY <2>1, <2>2, <2>5, <2>6, RequestsKept
  <2> QED
    BY <1>0, <2>1, <2>2, <2>5, <2>7, KeptBy
<1>5. ASSUME UNCHANGED <<week, item, ingest, owner, closer>>, now' \in Weeks PROVE Kept
  <2>1. WritesOne
    BY <1>5 DEF WritesOne
  <2>2. /\ week' \in [Weeks -> {"none", "open", "closed"}]
        /\ Opens /\ \A v \in Weeks : week'[v] = "closed" => week[v] = "closed"
    BY <1>0, <1>5, SameWeeks
  <2>3. Good
    BY <2>1, <2>2, WriteIsGood
  <2>4. TypeOK'
    BY <1>0, <1>5, <2>2, <2>3 DEF TypeOK, Good
  <2>5. RequestsHold'
    BY <1>5, <2>2, <2>3, <2>4, RequestsKept DEF Opens
  <2> QED
    BY <1>0, <1>5, <2>2, <2>3, <2>5, KeptBy
<1>6. CASE Tick
  <2>1. now' \in Weeks
    BY <1>0, <1>6 DEF Tick, Weeks
  <2> QED
    BY <1>5, <1>6, <2>1 DEF Tick
<1>7. CASE UNCHANGED vars
  BY <1>0, <1>5, <1>7 DEF vars
<1> QED
  BY <1>1, <1>2, <1>3, <1>4, <1>6, <1>7 DEF Next, CloserNext

LEMMA Start == Init => JournalInv
<1> SUFFICES ASSUME Init PROVE JournalInv
  OBVIOUS
<1>1. TypeOK
  BY TypeInit
<1>2. \A k \in Sources, w \in Weeks : ~Exists(k, w)
  BY DEF Init, Exists, NoRow
<1>3. ItemsHold /\ OpenWorkContinues
  BY <1>2 DEF ItemsHold, OpenWorkContinues, IsLatest
<1>4. RequestsHold
  BY DEF Init, RequestsHold, IngestHolds, OwnerHolds, CloserHolds, NoClose
<1> QED
  BY <1>1, <1>3, <1>4 DEF JournalInv
-----------------------------------------------------------------------------
\* Weeks, items and the requests in progress keep their types.
THEOREM TypeCorrect == Spec => []TypeOK
<1>1. JournalInv /\ [Next]_vars => JournalInv'
  BY Step DEF Kept
<1>2. JournalInv => TypeOK
  BY DEF JournalInv
<1> QED
  BY Start, <1>1, <1>2, PTL DEF Spec

\* What a request read is what is there when the version is the same, and a
\* confirmation in progress rolls over all that is open.
THEOREM JournalInvariant == Spec => []JournalInv
<1>1. JournalInv /\ [Next]_vars => JournalInv'
  BY Step DEF Kept
<1> QED
  BY Start, <1>1, PTL DEF Spec

\* No open work stays behind in a closed week.
THEOREM WorkContinues == Spec => []OpenWorkContinues
<1>1. JournalInv => OpenWorkContinues
  BY DEF JournalInv
<1> QED
  BY <1>1, JournalInvariant, PTL

\* A week closes with what the owner was shown, and stays as it was closed.
THEOREM WeeksCloseAsShown == Spec => ClosedAsShown
<1>1. JournalInv /\ [Next]_vars => [ClosedStays]_vars
  BY Step DEF Kept
<1>2. Spec => [][ClosedStays]_vars
  BY <1>1, JournalInvariant, PTL DEF Spec
<1> QED
  BY <1>2 DEF ClosedAsShown, ClosedStays

\* What an item says is what the owner decided last.
THEOREM OwnerDecidesResolutions == Spec => ResolutionIsOwners
<1>1. JournalInv /\ [Next]_vars => [OwnerResolves]_vars
  BY Step DEF Kept
<1>2. Spec => [][OwnerResolves]_vars
  BY <1>1, JournalInvariant, PTL DEF Spec
<1> QED
  BY <1>2 DEF ResolutionIsOwners, OwnerResolves, OwnerDecides
-----------------------------------------------------------------------------
(* Types of the Library *)

LEMMA NothingTyped ==
    /\ Empty \in ContentRecords
    /\ NoUpload \in UploadRequests /\ NoUpload.at = "idle"
    /\ NoPurge \in PurgeRequests /\ NoPurge.at = "idle"
  BY DEF Empty, ContentRecords, NoUpload, UploadRequests, NoPurge, PurgeRequests

LEMMA ContentsTyped ==
    ASSUME NEW c \in Contents
    PROVE  /\ c \in ContentRecords /\ c.keys \subseteq Keys /\ c.hidden \subseteq Keys
           /\ c.cites \subseteq Issues /\ c.complete \in BOOLEAN
  BY DEF ContentRecords

LEMMA LibraryTyped ==
    ASSUME LibraryTypeOK
    PROVE  /\ \A i \in Issues :
                /\ issue[i] \in IssueRows /\ issue[i].row \in BOOLEAN
                /\ issue[i].group \in Groups \cup {0} /\ issue[i].indexed \in BOOLEAN
                /\ issue[i].content \in ContentRecords
           /\ \A k \in Keys : /\ asset[k] \in AssetRows /\ asset[k].owned \in BOOLEAN
                              /\ asset[k].state \in {"none", "live", "purging", "purged"}
           /\ \A g \in Groups :
                /\ group[g] \in GroupRows
                /\ group[g].issue \in Issues \cup {None}
                /\ group[g].pending \subseteq Keys /\ group[g].deleted \subseteq Keys
           /\ \A u \in Uploads : upload[u] \in UploadRequests /\ upload[u].key \in Keys \cup {None}
           /\ \A p \in Purgers :
                /\ purger[p] \in PurgeRequests
                /\ purger[p].group \in Groups \cup {0} /\ purger[p].keys \subseteq Keys
<1>1. \A i \in Issues :
        /\ issue[i] \in IssueRows /\ issue[i].row \in BOOLEAN
        /\ issue[i].group \in Groups \cup {0} /\ issue[i].indexed \in BOOLEAN
        /\ issue[i].content \in ContentRecords
  BY DEF LibraryTypeOK, IssueRows
<1>2. \A k \in Keys : /\ asset[k] \in AssetRows /\ asset[k].owned \in BOOLEAN
                     /\ asset[k].state \in {"none", "live", "purging", "purged"}
  BY DEF LibraryTypeOK, AssetRows
<1>3. \A g \in Groups :
        /\ group[g] \in GroupRows
        /\ group[g].issue \in Issues \cup {None}
        /\ group[g].pending \subseteq Keys /\ group[g].deleted \subseteq Keys
  BY DEF LibraryTypeOK, GroupRows
<1>4. \A u \in Uploads : upload[u] \in UploadRequests /\ upload[u].key \in Keys \cup {None}
  BY DEF LibraryTypeOK, UploadRequests
<1>5. \A p \in Purgers : /\ purger[p] \in PurgeRequests
                        /\ purger[p].group \in Groups \cup {0} /\ purger[p].keys \subseteq Keys
  BY DEF LibraryTypeOK, PurgeRequests
<1> QED
  BY <1>1, <1>2, <1>3, <1>4, <1>5

\* A request of a purge that goes on with group g and the keys ks.
LEMMA GotoIs ==
    ASSUME purger \in [Purgers -> PurgeRequests], NEW p \in Purgers,
           NEW step \in {"idle", "claim", "delete", "mark"},
           NEW g \in Groups \cup {0}, NEW ks \in SUBSET Keys, Goto(p, step, g, ks)
    PROVE  /\ purger' \in [Purgers -> PurgeRequests]
           /\ purger'[p].at = step /\ purger'[p].group = g /\ purger'[p].keys = ks
           /\ \A q \in Purgers \ {p} : purger'[q] = purger[q]
<1> DEFINE r == [at |-> step, group |-> g, keys |-> ks]
<1>1. r \in PurgeRequests /\ r.at = step /\ r.group = g /\ r.keys = ks
  BY DEF PurgeRequests
<1>2. purger' = [purger EXCEPT ![p] = r]
  BY DEF Goto
<1> HIDE DEF r
<1> QED
  BY <1>1, <1>2

LEMMA PurgerDoneIs ==
    ASSUME purger \in [Purgers -> PurgeRequests], NEW p \in Purgers, PurgerDone(p)
    PROVE  /\ purger' \in [Purgers -> PurgeRequests]
           /\ purger'[p].at = "idle"
           /\ \A q \in Purgers \ {p} : purger'[q] = purger[q]
  BY NothingTyped DEF PurgerDone
-----------------------------------------------------------------------------
(* Frames.  An asset that a purge has taken keeps its state. *)

Steady ==
    \A k \in Keys :
      asset[k].state \in {"purging", "purged"} \/ asset'[k].state \in {"purging", "purged"}
        => asset'[k].state = asset[k].state

LEMMA ListedSteady ==
    ASSUME LibraryTypeOK, NEW ks, asset' = Listed(ks)
    PROVE  asset' \in [Keys -> AssetRows] /\ Steady
<1>1. ASSUME NEW k \in Keys
      PROVE  /\ asset'[k] \in AssetRows
             /\ \/ asset'[k].state = asset[k].state
                \/ asset[k].state = "none" /\ asset'[k].state = "live"
  <2> DEFINE live == [asset[k] EXCEPT !.state = "live"]
  <2>1. live \in AssetRows /\ live.state = "live"
    BY LibraryTyped DEF AssetRows
  <2>2. asset'[k] = IF k \in ks /\ asset[k].state = "none" THEN live ELSE asset[k]
    BY DEF Listed
  <2> HIDE DEF live
  <2>3. asset[k] \in AssetRows
    BY LibraryTyped
  <2>4. CASE k \in ks /\ asset[k].state = "none"
    BY <2>1, <2>2, <2>4
  <2>5. CASE ~(k \in ks /\ asset[k].state = "none")
    BY <2>2, <2>3, <2>5
  <2> QED
    BY <2>4, <2>5
<1>2. asset' = [k \in Keys |-> asset'[k]]
  BY DEF Listed
<1> QED
  BY <1>1, <1>2 DEF Steady

LEMMA GroupsKept ==
    ASSUME GroupsHold, Steady, LibraryTypeOK, UNCHANGED group
    PROVE  GroupsHold'
  BY LibraryTyped DEF GroupsHold, Steady, Taken

LEMMA AssetsKept ==
    ASSUME AssetsHold, Steady,
           \A k \in Keys : Reserved(k)' => Reserved(k) \/ asset[k].state \in {"none", "live"},
           \A k \in Keys : k \in stored' => k \in stored \/ Reserved(k)
    PROVE  AssetsHold'
<1>1. ASSUME NEW k \in Keys, asset'[k].state \in {"purging", "purged"}
      PROVE  asset'[k].state = asset[k].state /\ ~Reserved(k) /\ ~Reserved(k)'
  BY <1>1 DEF AssetsHold, Steady
<1> QED
  BY <1>1 DEF AssetsHold

\* What the invariant says of the issues, with nothing of the uploads.
OnlyOwn ==
    \A g \in Groups : group[g].state = "purging" =>
      /\ issue[group[g].issue].row /\ issue[group[g].issue].group = g
      /\ ~CitedByAnother(group[g].issue)
      /\ \A j \in Issues \ {group[g].issue} : issue[j].row => Uses(j) \cap group[g].pending = {}

LEMMA UnusedIs ==
    ASSUME LibraryTypeOK, GroupsHold, AssetsHold
    PROVE  UnusedWhilePurging <=> OnlyOwn
<1>1. \A g \in Groups : \A k \in group[g].pending \cup group[g].deleted : ~Reserved(k)
  BY LibraryTyped DEF GroupsHold, AssetsHold
<1>2. ASSUME OnlyOwn PROVE UnusedWhilePurging
  BY <1>1, <1>2 DEF UnusedWhilePurging, OnlyOwn, Pending
<1>3. ASSUME UnusedWhilePurging PROVE OnlyOwn
  BY <1>3 DEF UnusedWhilePurging, OnlyOwn, Pending
<1> QED
  BY <1>2, <1>3

LEMMA OwnKept ==
    ASSUME OnlyOwn, UNCHANGED <<issue, group>> PROVE OnlyOwn'
  BY DEF OnlyOwn, CitedByAnother, Uses

LEMMA IssuesKept ==
    ASSUME IssuesHold, UNCHANGED <<issue, group>> PROVE IssuesHold'
  BY DEF IssuesHold

LEMMA CallsKept ==
    ASSUME CallsHold, UNCHANGED <<upload, purger>>,
           \A g \in Groups : Taken(g) \subseteq Taken(g)',
           stored' \subseteq stored
    PROVE  CallsHold'
  BY DEF CallsHold, Taken

\* The keys of a running request are taken, so that no upload is about to put one.
LEMMA KeysTaken ==
    ASSUME LibraryInv, NEW p \in Purgers, purger[p].at \in {"delete", "mark"},
           NEW k \in purger[p].keys
    PROVE  /\ k \in Keys /\ purger[p].group \in Groups
           /\ asset[k].state \in {"purging", "purged"} /\ ~Reserved(k)
<1>1. /\ k \in Keys /\ purger[p].group \in Groups /\ k \in Taken(purger[p].group)
  BY LibraryTyped DEF LibraryInv, CallsHold
<1>2. asset[k].state \in {"purging", "purged"}
  BY <1>1 DEF LibraryInv, GroupsHold, Taken
<1> QED
  BY <1>1, <1>2 DEF LibraryInv, AssetsHold

LEMMA Parts ==
    ASSUME LibraryInv
    PROVE  LibraryTypeOK /\ IssuesHold /\ GroupsHold /\ AssetsHold /\ CallsHold /\ OnlyOwn
  BY UnusedIs DEF LibraryInv

LEMMA Whole ==
    ASSUME LibraryTypeOK', IssuesHold', GroupsHold', AssetsHold', CallsHold', OnlyOwn'
    PROVE  LibraryInv'
<1>1. (LibraryTypeOK /\ GroupsHold /\ AssetsHold /\ OnlyOwn => UnusedWhilePurging)'
  BY UnusedIs, PTL
<1> QED
  BY <1>1 DEF LibraryInv
-----------------------------------------------------------------------------
(* Issues *)

LEMMA SaveStep ==
    ASSUME LibraryInv, NEW i \in Issues, NEW c \in Contents,
           CreateIssue(i, c) \/ UpdateIssueSource(i, c)
    PROVE  LibraryInv'
<1>0. /\ LibraryTypeOK /\ IssuesHold /\ GroupsHold /\ AssetsHold /\ CallsHold /\ OnlyOwn
      /\ issue[i].group = 0 /\ Saved(i, c)
  BY Parts DEF CreateIssue, UpdateIssueSource, IssuesHold
<1> DEFINE row == [row |-> TRUE, group |-> 0, indexed |-> TRUE, content |-> c]
<1>1. row \in IssueRows /\ row.row = TRUE /\ row.group = 0 /\ row.content = c
  BY DEF IssueRows
<1>2. issue' = [issue EXCEPT ![i] = row] /\ asset' = Listed(c.keys)
      /\ UNCHANGED <<stored, group, upload, purger, faults>>
  BY <1>0 DEF Saved
<1> HIDE DEF row
<1>3. /\ issue' \in [Issues -> IssueRows] /\ issue'[i] = row
      /\ \A j \in Issues \ {i} : issue'[j] = issue[j]
  BY <1>0, <1>1, <1>2 DEF LibraryTypeOK
<1>4. asset' \in [Keys -> AssetRows] /\ Steady
  BY <1>0, <1>2, ListedSteady
<1>5. LibraryTypeOK'
  BY <1>0, <1>2, <1>3, <1>4 DEF LibraryTypeOK
<1>6. IssuesHold'
  BY <1>0, <1>1, <1>2, <1>3 DEF IssuesHold
<1>7. GroupsHold' /\ AssetsHold' /\ CallsHold'
  BY <1>0, <1>2, <1>4, GroupsKept, AssetsKept, CallsKept DEF Reserved, Taken
<1>8. OnlyOwn'
  <2> SUFFICES ASSUME NEW g \in Groups, group[g].state = "purging"
               PROVE  /\ issue'[group[g].issue].row /\ issue'[group[g].issue].group = g
                      /\ ~CitedByAnother(group[g].issue)'
                      /\ \A j \in Issues \ {group[g].issue} :
                           issue'[j].row => Uses(j)' \cap group[g].pending = {}
    BY <1>2 DEF OnlyOwn
  <2>1. PICK o \in Issues : o = group[g].issue
    BY <1>0 DEF GroupsHold
  <2>2. /\ issue[o].row /\ issue[o].group = g /\ ~CitedByAnother(o) /\ g # 0
        /\ \A j \in Issues \ {o} : issue[j].row => Uses(j) \cap group[g].pending = {}
    BY <1>0, <2>1 DEF OnlyOwn
  <2>3. o # i /\ issue'[o] = issue[o]
    BY <1>0, <1>3, <2>2
  <2>4. o \notin c.cites
    BY <1>0, <2>2 DEF Saved, MayCite
  <2>5. ~CitedByAnother(o)'
    BY <1>1, <1>3, <2>2, <2>4 DEF CitedByAnother
  <2>6. \A k \in group[g].pending : asset[k].state = "purging" /\ k \in Keys
    BY <1>0, LibraryTyped DEF GroupsHold
  <2>7. (c.keys \cup c.hidden) \cap group[g].pending = {}
    BY <1>0, <2>6 DEF Saved, MaySave, Free, NothingPurging
  <2>8. \A j \in Issues \ {o} : issue'[j].row => Uses(j)' \cap group[g].pending = {}
    <3> TAKE j \in Issues \ {o}
    <3>1. CASE j = i
      BY <1>1, <1>3, <2>7, <3>1 DEF Uses
    <3>2. CASE j # i
      BY <1>3, <2>2, <3>2 DEF Uses
    <3> QED
      BY <3>1, <3>2
  <2> QED
    BY <1>2, <2>1, <2>2, <2>3, <2>5, <2>8
<1> QED
  BY <1>5, <1>6, <1>7, <1>8, Whole

LEMMA IndexStep ==
    ASSUME LibraryInv, Index
    PROVE  LibraryInv'
<1>0. /\ LibraryTypeOK /\ IssuesHold /\ GroupsHold /\ AssetsHold /\ CallsHold /\ OnlyOwn
      /\ UNCHANGED <<stored, group, upload, purger, faults>>
  BY Parts DEF Index
<1>1. asset' = Listed(UNION {issue[i].content.keys : i \in Unindexed})
      /\ issue' = [i \in Issues |-> IF i \in Unindexed THEN [issue[i] EXCEPT !.indexed = TRUE]
                                    ELSE issue[i]]
  BY DEF Index, IndexAll
<1>2. \A i \in Issues : /\ issue'[i] \in IssueRows /\ issue'[i].row = issue[i].row
                        /\ issue'[i].group = issue[i].group
                        /\ issue'[i].content = issue[i].content
  <2> TAKE i \in Issues
  <2> DEFINE row == [issue[i] EXCEPT !.indexed = TRUE]
  <2>1. /\ row \in IssueRows /\ row.row = issue[i].row /\ row.group = issue[i].group
        /\ row.content = issue[i].content
    BY <1>0, LibraryTyped DEF IssueRows
  <2>2. issue'[i] = row \/ issue'[i] = issue[i]
    BY <1>1
  <2>3. issue[i] \in IssueRows
    BY <1>0, LibraryTyped
  <2> HIDE DEF row
  <2> QED
    BY <2>1, <2>2, <2>3
<1>3. asset' \in [Keys -> AssetRows] /\ Steady
  BY <1>0, <1>1, ListedSteady
<1>4. LibraryTypeOK'
  BY <1>0, <1>1, <1>2, <1>3 DEF LibraryTypeOK
<1>5. IssuesHold'
  BY <1>0, <1>2 DEF IssuesHold
<1>6. GroupsHold' /\ AssetsHold' /\ CallsHold'
  BY <1>0, <1>3, GroupsKept, AssetsKept, CallsKept DEF Reserved, Taken
<1>7. OnlyOwn'
  BY <1>0, <1>2 DEF OnlyOwn, CitedByAnother, Uses, GroupsHold
<1> QED
  BY <1>4, <1>5, <1>6, <1>7, Whole

\* The asset rows, objects, uploads and purgers stay, and so do the groups but one.
LEMMA TrashStep ==
    ASSUME LibraryInv, NEW i \in Issues, NEW g \in Groups, Trash(i, g)
    PROVE  LibraryInv'
<1>0. /\ LibraryTypeOK /\ IssuesHold /\ GroupsHold /\ AssetsHold /\ CallsHold /\ OnlyOwn
      /\ UNCHANGED <<asset, stored, upload, purger, faults>>
      /\ issue[i].row /\ issue[i].group = 0 /\ group[g].state = "none" /\ g # 0
  BY Parts DEF Trash
<1> DEFINE row == [issue[i] EXCEPT !.group = g]
           new == [state |-> "trashed", issue |-> i, pending |-> {}, deleted |-> {}]
<1>1. row \in IssueRows /\ row.row = issue[i].row /\ row.group = g /\ row.content = issue[i].content
  BY <1>0, LibraryTyped DEF IssueRows
<1>2. /\ new \in GroupRows /\ new.state = "trashed" /\ new.issue = i
      /\ new.pending = {} /\ new.deleted = {}
  BY DEF GroupRows
<1>3. issue' = [issue EXCEPT ![i] = row] /\ group' = [group EXCEPT ![g] = new]
  BY DEF Trash
<1> HIDE DEF row, new
<1>4. /\ issue' \in [Issues -> IssueRows] /\ issue'[i] = row
      /\ \A j \in Issues \ {i} : issue'[j] = issue[j]
      /\ group' \in [Groups -> GroupRows] /\ group'[g] = new
      /\ \A h \in Groups \ {g} : group'[h] = group[h]
  BY <1>0, <1>1, <1>2, <1>3 DEF LibraryTypeOK
<1>5. LibraryTypeOK'
  BY <1>0, <1>4 DEF LibraryTypeOK
<1>6. \A j \in Issues : issue[j].group # g
  BY <1>0 DEF IssuesHold
<1>7. IssuesHold'
  <2> SUFFICES ASSUME NEW j \in Issues
               PROVE  /\ issue'[j].row => issue'[j].content \in Contents
                      /\ issue'[j].group # 0 =>
                           /\ issue'[j].row
                           /\ group'[issue'[j].group].issue = j
                           /\ group'[issue'[j].group].state \in {"trashed", "blocked", "purging"}
    BY DEF IssuesHold
  <2>1. CASE j = i
    BY <1>0, <1>1, <1>2, <1>4, <2>1 DEF IssuesHold
  <2>2. CASE j # i
    <3>1. PICK h \in Groups \cup {0} : h = issue[j].group /\ h # g
      BY <1>0, <1>6, LibraryTyped
    <3>2. issue'[j] = issue[j] /\ (h # 0 => group'[h] = group[h])
      BY <1>4, <2>2, <3>1
    <3> QED
      BY <1>0, <3>1, <3>2 DEF IssuesHold
  <2> QED
    BY <2>1, <2>2
<1>8. \A h \in Groups : Taken(h)' = Taken(h)
  BY <1>0, <1>2, <1>4 DEF GroupsHold, Taken
<1>9. GroupsHold'
  BY <1>0, <1>2, <1>4, <1>8 DEF GroupsHold
<1>10. AssetsHold' /\ CallsHold'
  BY <1>0, <1>8, AssetsKept, CallsKept DEF Reserved, Steady
<1>11. OnlyOwn'
  <2> SUFFICES ASSUME NEW h \in Groups, group'[h].state = "purging"
               PROVE  /\ issue'[group'[h].issue].row /\ issue'[group'[h].issue].group = h
                      /\ ~CitedByAnother(group[h].issue)'
                      /\ \A j \in Issues \ {group'[h].issue} :
                           issue'[j].row => Uses(j)' \cap group'[h].pending = {}
    BY DEF OnlyOwn
  <2>1. h # g /\ group'[h] = group[h] /\ group[h].state = "purging"
    BY <1>2, <1>4
  <2>2. PICK o \in Issues : o = group[h].issue /\ o = group'[h].issue
    BY <1>0, <2>1 DEF GroupsHold
  <2>3. /\ issue[o].row /\ issue[o].group = h /\ ~CitedByAnother(o) /\ h # 0
        /\ \A j \in Issues \ {o} : issue[j].row => Uses(j) \cap group[h].pending = {}
    BY <1>0, <2>1, <2>2 DEF OnlyOwn
  <2>4. o # i /\ issue'[o] = issue[o]
    BY <1>0, <1>4, <2>3
  <2>5. \A j \in Issues : issue'[j].row = issue[j].row /\ issue'[j].content = issue[j].content
    BY <1>1, <1>4
  <2>6. ~CitedByAnother(o)'
    BY <2>3, <2>5 DEF CitedByAnother
  <2> QED
    BY <2>1, <2>2, <2>3, <2>4, <2>5, <2>6 DEF Uses
<1> QED
  BY <1>5, <1>7, <1>9, <1>10, <1>11, Whole

LEMMA RestoreStep ==
    ASSUME LibraryInv, NEW g \in Groups, Restore(g)
    PROVE  LibraryInv'
<1>0. /\ LibraryTypeOK /\ IssuesHold /\ GroupsHold /\ AssetsHold /\ CallsHold /\ OnlyOwn
      /\ UNCHANGED <<asset, stored, upload, purger, faults>>
      /\ group[g].state \in {"trashed", "blocked"}
  BY Parts DEF Restore
<1>1. PICK i \in Issues : i = group[g].issue /\ issue[i].group = g
  BY <1>0 DEF GroupsHold, Restore
<1> DEFINE row == [issue[i] EXCEPT !.group = 0]
           new == [group[g] EXCEPT !.state = "restored"]
<1>2. row \in IssueRows /\ row.row = issue[i].row /\ row.group = 0 /\ row.content = issue[i].content
  BY <1>0, LibraryTyped DEF IssueRows
<1>3. /\ new \in GroupRows /\ new.state = "restored" /\ new.issue = i
      /\ new.pending = group[g].pending /\ new.deleted = group[g].deleted
  BY <1>0, <1>1, LibraryTyped DEF GroupRows
<1>4. issue' = [issue EXCEPT ![i] = row] /\ group' = [group EXCEPT ![g] = new]
  BY <1>1 DEF Restore
<1> HIDE DEF row, new
<1>5. /\ issue' \in [Issues -> IssueRows] /\ issue'[i] = row
      /\ \A j \in Issues \ {i} : issue'[j] = issue[j]
      /\ group' \in [Groups -> GroupRows] /\ group'[g] = new
      /\ \A h \in Groups \ {g} : group'[h] = group[h]
  BY <1>0, <1>2, <1>3, <1>4 DEF LibraryTypeOK
<1>6. LibraryTypeOK'
  BY <1>0, <1>5 DEF LibraryTypeOK
<1>7. IssuesHold'
  <2> SUFFICES ASSUME NEW j \in Issues
               PROVE  /\ issue'[j].row => issue'[j].content \in Contents
                      /\ issue'[j].group # 0 =>
                           /\ issue'[j].row
                           /\ group'[issue'[j].group].issue = j
                           /\ group'[issue'[j].group].state \in {"trashed", "blocked", "purging"}
    BY DEF IssuesHold
  <2>1. CASE j = i
    BY <1>0, <1>2, <1>5, <2>1 DEF IssuesHold
  <2>2. CASE j # i
    <3>1. PICK h \in Groups \cup {0} : h = issue[j].group
      BY <1>0, LibraryTyped
    <3>2. h # g
      BY <1>0, <1>1, <2>2, <3>1 DEF IssuesHold
    <3>3. issue'[j] = issue[j] /\ (h # 0 => group'[h] = group[h])
      BY <1>5, <2>2, <3>1, <3>2
    <3> QED
      BY <1>0, <3>1, <3>3 DEF IssuesHold
  <2> QED
    BY <2>1, <2>2
<1>8. \A h \in Groups : Taken(h)' = Taken(h)
  BY <1>3, <1>5 DEF Taken
<1>9. GroupsHold'
  BY <1>0, <1>1, <1>3, <1>5, <1>8 DEF GroupsHold
<1>10. AssetsHold' /\ CallsHold'
  BY <1>0, <1>8, AssetsKept, CallsKept DEF Reserved, Steady
<1>11. OnlyOwn'
  <2> SUFFICES ASSUME NEW h \in Groups, group'[h].state = "purging"
               PROVE  /\ issue'[group'[h].issue].row /\ issue'[group'[h].issue].group = h
                      /\ ~CitedByAnother(group[h].issue)'
                      /\ \A j \in Issues \ {group'[h].issue} :
                           issue'[j].row => Uses(j)' \cap group'[h].pending = {}
    BY DEF OnlyOwn
  <2>1. h # g /\ group'[h] = group[h] /\ group[h].state = "purging"
    BY <1>3, <1>5
  <2>2. PICK o \in Issues : o = group[h].issue /\ o = group'[h].issue
    BY <1>0, <2>1 DEF GroupsHold
  <2>3. /\ issue[o].row /\ issue[o].group = h /\ ~CitedByAnother(o)
        /\ \A j \in Issues \ {o} : issue[j].row => Uses(j) \cap group[h].pending = {}
    BY <1>0, <2>1, <2>2 DEF OnlyOwn
  <2>4. o # i /\ issue'[o] = issue[o]
    BY <1>1, <1>5, <2>1, <2>3
  <2>5. \A j \in Issues : issue'[j].row = issue[j].row /\ issue'[j].content = issue[j].content
    BY <1>2, <1>5
  <2>6. ~CitedByAnother(o)'
    BY <2>3, <2>5 DEF CitedByAnother
  <2> QED
    BY <2>1, <2>2, <2>3, <2>4, <2>5, <2>6 DEF Uses
<1> QED
  BY <1>6, <1>7, <1>9, <1>10, <1>11, Whole
-----------------------------------------------------------------------------
(* Uploads.  Only what nobody has taken is reserved. *)

LEMMA UploadKeeps ==
    ASSUME LibraryInv, UNCHANGED <<issue, group, purger>>,
           asset' \in [Keys -> AssetRows], Steady,
           upload' \in [Uploads -> UploadRequests], faults' \in 0 .. MaxFaults,
           \A u \in Uploads : upload'[u].at # "idle" => upload'[u].key \in Keys,
           \A k \in Keys : Reserved(k)' => Reserved(k) \/ asset[k].state \in {"none", "live"},
           stored' \subseteq stored \cup {k \in Keys : Reserved(k)}
    PROVE  LibraryInv'
<1>0. LibraryTypeOK /\ IssuesHold /\ GroupsHold /\ AssetsHold /\ CallsHold /\ OnlyOwn
  BY Parts
<1>1. LibraryTypeOK'
  BY <1>0 DEF LibraryTypeOK
<1>2. IssuesHold' /\ GroupsHold' /\ AssetsHold' /\ OnlyOwn'
  BY <1>0, IssuesKept, GroupsKept, AssetsKept, OwnKept
<1>3. CallsHold'
  <2>1. ASSUME NEW p \in Purgers, purger[p].at = "mark" PROVE purger[p].keys \cap stored' = {}
    BY <1>0, <2>1, KeysTaken DEF CallsHold
  <2> QED
    BY <1>0, <2>1 DEF CallsHold, Taken
<1> QED
  BY <1>1, <1>2, <1>3, Whole

LEMMA UploadStep ==
    ASSUME LibraryInv, NEW u \in Uploads, UploadNext(u)
    PROVE  LibraryInv'
<1>0. /\ LibraryTypeOK /\ CallsHold /\ upload \in [Uploads -> UploadRequests]
      /\ asset \in [Keys -> AssetRows] /\ faults \in 0 .. MaxFaults
  BY Parts DEF LibraryTypeOK
<1>1. ASSUME NEW k \in Keys, Admit(u, k) PROVE LibraryInv'
  <2> DEFINE r == [at |-> "put", key |-> k]
  <2>1. r \in UploadRequests /\ r.key = k
    BY DEF UploadRequests
  <2>2. upload' = [upload EXCEPT ![u] = r] /\ asset' = Listed({k})
        /\ UNCHANGED <<issue, stored, group, purger, faults>> /\ Free({k})
    BY <1>1 DEF Admit
  <2> HIDE DEF r
  <2>3. /\ upload' \in [Uploads -> UploadRequests] /\ upload'[u] = r
        /\ \A v \in Uploads \ {u} : upload'[v] = upload[v]
    BY <1>0, <2>1, <2>2
  <2>4. asset' \in [Keys -> AssetRows] /\ Steady
    BY <1>0, <2>2, ListedSteady
  <2>5. \A l \in Keys : Reserved(l)' => Reserved(l) \/ asset[l].state \in {"none", "live"}
    BY <2>1, <2>2, <2>3 DEF Reserved, Free
  <2>6. \A v \in Uploads : upload'[v].at # "idle" => upload'[v].key \in Keys
    BY <1>0, <2>1, <2>3 DEF CallsHold
  <2> QED
    BY <1>0, <2>2, <2>3, <2>4, <2>5, <2>6, UploadKeeps
<1>2. ASSUME UNCHANGED <<issue, group, purger>>, NEW r \in UploadRequests,
             upload' = [upload EXCEPT ![u] = r], r.at = "idle" \/ r.key = upload[u].key,
             upload[u].at # "idle",
             asset' \in [Keys -> AssetRows], Steady, faults' \in 0 .. MaxFaults,
             stored' \subseteq stored \cup {k \in Keys : Reserved(k)}
      PROVE  LibraryInv'
  <2>1. /\ upload' \in [Uploads -> UploadRequests] /\ upload'[u] = r
        /\ \A v \in Uploads \ {u} : upload'[v] = upload[v]
    BY <1>0, <1>2
  <2>2. upload[u].at \in {"put", "confirm", "lost"}
    BY <1>0, <1>2 DEF UploadRequests
  <2>3. \A l \in Keys : Reserved(l)' => Reserved(l)
    BY <1>2, <2>1, <2>2 DEF Reserved
  <2>4. \A v \in Uploads : upload'[v].at # "idle" => upload'[v].key \in Keys
    BY <1>0, <1>2, <2>1 DEF CallsHold
  <2> QED
    BY <1>2, <2>1, <2>3, <2>4, UploadKeeps
<1>3. PICK k \in Keys \cup {None} : k = upload[u].key
  BY <1>0, LibraryTyped
<1>4. upload[u].at # "idle" => k \in Keys /\ Reserved(k)
  BY <1>0, <1>3 DEF CallsHold, Reserved, UploadRequests
<1>5. CASE PutObject(u)
  <2>1. PICK r \in UploadRequests :
          /\ upload' = [upload EXCEPT ![u] = r] /\ (r.at = "idle" \/ r.key = upload[u].key)
    <3> DEFINE r == [upload[u] EXCEPT !.at = "confirm"]
    <3>1. r \in UploadRequests /\ r.key = upload[u].key
      BY <1>0 DEF UploadRequests
    <3>2. upload' = [upload EXCEPT ![u] = r] \/ upload' = [upload EXCEPT ![u] = NoUpload]
      BY <1>5 DEF PutObject
    <3> HIDE DEF r
    <3> QED
      BY <3>1, <3>2, NothingTyped
  <2>2. stored' = stored \cup {k} /\ UNCHANGED <<issue, asset, group, purger, faults>>
        /\ upload[u].at # "idle"
    BY <1>3, <1>5 DEF PutObject
  <2> QED
    BY <1>0, <1>2, <1>4, <2>1, <2>2 DEF Steady
<1>6. CASE ConfirmUpload(u)
  <2> DEFINE own == [asset[k] EXCEPT !.owned = @ \/ asset[k].state = "live"]
  <2>1. upload[u].at # "idle" /\ upload' = [upload EXCEPT ![u] = NoUpload]
        /\ asset' = [asset EXCEPT ![k] = own]
        /\ UNCHANGED <<issue, stored, group, purger, faults>>
    BY <1>3, <1>6 DEF ConfirmUpload
  <2>2. own \in AssetRows /\ own.state = asset[k].state
    <3> DEFINE b == asset[k].owned \/ asset[k].state = "live"
    <3>1. b \in BOOLEAN /\ own = [asset[k] EXCEPT !.owned = b]
      OBVIOUS
    <3> HIDE DEF b, own
    <3>2. asset[k] \in AssetRows
      BY <1>0, <1>4, <2>1
    <3> QED
      BY <3>1, <3>2 DEF AssetRows
  <2> HIDE DEF own
  <2>3. asset' \in [Keys -> AssetRows] /\ Steady
    BY <1>0, <1>4, <2>1, <2>2 DEF Steady
  <2> QED
    BY <1>0, <1>2, <2>1, <2>3, NothingTyped
<1>7. CASE UploadLost(u)
  <2> DEFINE r == [upload[u] EXCEPT !.at = "lost"]
  <2>1. r \in UploadRequests /\ r.key = upload[u].key
    BY <1>0 DEF UploadRequests
  <2>2. upload' = [upload EXCEPT ![u] = r] /\ UNCHANGED <<issue, asset, stored, group, purger>>
        /\ upload[u].at # "idle" /\ faults' \in 0 .. MaxFaults
    BY <1>0, <1>7 DEF UploadLost
  <2> HIDE DEF r
  <2> QED
    BY <1>0, <1>2, <2>1, <2>2 DEF Steady
<1>8. CASE LatePut(u)
  <2>1. stored' = stored \cup {k} /\ UNCHANGED <<issue, asset, group, purger, faults, upload>>
        /\ upload[u].at # "idle"
    BY <1>3, <1>8 DEF LatePut
  <2>2. upload' = [upload EXCEPT ![u] = upload[u]] /\ upload[u] \in UploadRequests
    BY <1>0, <2>1
  <2> QED
    BY <1>0, <1>2, <1>4, <2>1, <2>2 DEF Steady
<1> QED
  BY <1>1, <1>5, <1>6, <1>7, <1>8 DEF UploadNext
-----------------------------------------------------------------------------
(* Purges *)

\* The groups keep what they have taken, and the issues what they show.
LEMMA PurgerKeeps ==
    ASSUME LibraryInv, UNCHANGED <<issue, group, asset, upload>>, NEW p \in Purgers,
           purger' \in [Purgers -> PurgeRequests],
           \A q \in Purgers \ {p} : purger'[q] = purger[q],
           purger'[p].at # "idle" => purger'[p].group \in Groups,
           purger'[p].at \in {"delete", "mark"} => purger'[p].keys \subseteq Taken(purger'[p].group),
           purger'[p].at = "mark" => purger'[p].keys \cap stored' = {},
           stored' \subseteq stored, faults' \in 0 .. MaxFaults
    PROVE  LibraryInv'
<1>0. LibraryTypeOK /\ IssuesHold /\ GroupsHold /\ AssetsHold /\ CallsHold /\ OnlyOwn
  BY Parts
<1>1. LibraryTypeOK'
  BY <1>0 DEF LibraryTypeOK
<1>2. IssuesHold' /\ GroupsHold' /\ AssetsHold' /\ OnlyOwn'
  BY <1>0, IssuesKept, GroupsKept, AssetsKept, OwnKept DEF Steady, Reserved
<1>3. CallsHold'
  BY <1>0 DEF CallsHold, Taken
<1> QED
  BY <1>1, <1>2, <1>3, Whole

LEMMA JudgeStep ==
    ASSUME LibraryInv, NEW p \in Purgers, NEW g \in Groups, Judge(p, g)
    PROVE  LibraryInv'
<1>0. /\ LibraryTypeOK /\ IssuesHold /\ GroupsHold /\ AssetsHold /\ CallsHold /\ OnlyOwn
      /\ UNCHANGED <<issue, asset, stored, upload, faults>>
      /\ group[g].state \in {"trashed", "blocked"}
  BY Parts DEF Judge
<1>1. CASE UNCHANGED group /\ Goto(p, "claim", g, Unshared(group[g].issue))
  <2>1. PICK ks \in SUBSET Keys : ks = Unshared(group[g].issue)
    <3>1. PICK i \in Issues : i = group[g].issue
      BY <1>0 DEF GroupsHold
    <3>2. Unshared(i) \subseteq Keys
      BY <1>0, LibraryTyped DEF Unshared, References, ContentRecords
    <3> QED
      BY <3>1, <3>2
  <2>2. /\ purger' \in [Purgers -> PurgeRequests]
        /\ purger'[p].at = "claim" /\ purger'[p].group = g
        /\ \A q \in Purgers \ {p} : purger'[q] = purger[q]
    BY <1>0, <1>1, <2>1, GotoIs DEF LibraryTypeOK
  <2> QED
    BY <1>0, <1>1, <2>2, PurgerKeeps DEF LibraryTypeOK
<1>2. CASE UNCHANGED purger /\ group' = [group EXCEPT ![g].state = "blocked"]
  <2> DEFINE new == [group[g] EXCEPT !.state = "blocked"]
  <2>1. /\ new \in GroupRows /\ new.state = "blocked" /\ new.issue = group[g].issue
        /\ new.pending = group[g].pending /\ new.deleted = group[g].deleted
    BY <1>0, LibraryTyped DEF GroupRows
  <2> HIDE DEF new
  <2>2. /\ group' \in [Groups -> GroupRows] /\ group'[g] = new
        /\ \A h \in Groups \ {g} : group'[h] = group[h]
    BY <1>0, <1>2, <2>1 DEF LibraryTypeOK, new
  <2>3. LibraryTypeOK'
    BY <1>0, <1>2, <2>2 DEF LibraryTypeOK
  <2>4. IssuesHold'
    <3> SUFFICES ASSUME NEW i \in Issues, issue[i].group # 0
                 PROVE  /\ group'[issue[i].group].issue = i
                        /\ group'[issue[i].group].state \in {"trashed", "blocked", "purging"}
      BY <1>0 DEF IssuesHold
    <3>1. PICK h \in Groups : h = issue[i].group
      BY <1>0, LibraryTyped
    <3> QED
      BY <1>0, <2>1, <2>2, <3>1 DEF IssuesHold
  <2>5. \A h \in Groups : Taken(h)' = Taken(h)
    BY <2>1, <2>2 DEF Taken
  <2>6. GroupsHold'
    BY <1>0, <2>1, <2>2, <2>5 DEF GroupsHold
  <2>7. AssetsHold' /\ CallsHold'
    BY <1>0, <1>2, <2>5, AssetsKept, CallsKept DEF Reserved, Steady
  <2>8. OnlyOwn'
    BY <1>0, <2>1, <2>2 DEF OnlyOwn, CitedByAnother, Uses
  <2> QED
    BY <2>3, <2>4, <2>6, <2>7, <2>8, Whole
<1> QED
  BY <1>1, <1>2 DEF Judge

\* The claim finds nobody else who uses what it takes.
LEMMA ClaimStep ==
    ASSUME LibraryInv, NEW p \in Purgers, Claim(p)
    PROVE  LibraryInv'
<1>0. /\ LibraryTypeOK /\ IssuesHold /\ GroupsHold /\ AssetsHold /\ CallsHold /\ OnlyOwn
      /\ UNCHANGED <<issue, stored, upload, faults>> /\ PurgerDone(p)
  BY Parts DEF Claim
<1>1. /\ purger' \in [Purgers -> PurgeRequests]
      /\ purger'[p].at = "idle"
      /\ \A q \in Purgers \ {p} : purger'[q] = purger[q]
  BY <1>0, PurgerDoneIs DEF LibraryTypeOK
<1>2. CASE UNCHANGED <<group, asset>>
  BY <1>0, <1>1, <1>2, PurgerKeeps DEF LibraryTypeOK
<1>3. CASE ~UNCHANGED <<group, asset>>
  <2>1. PICK g \in Groups, ks \in SUBSET Keys : g = purger[p].group /\ ks = purger[p].keys
    BY <1>0, LibraryTyped DEF CallsHold, Claim
  <2>2. group[g].state \in {"trashed", "blocked"}
    BY <1>3, <2>1 DEF Claim
  <2>3. PICK i \in Issues : i = group[g].issue
    BY <1>0, <2>2 DEF GroupsHold
  <2>4. issue[i].group = g /\ Claimable(i, ks)
    BY <1>3, <2>1, <2>3 DEF Claim
  <2> DEFINE new == [group[g] EXCEPT !.state = "purging", !.pending = ks]
             taken(k) == [asset[k] EXCEPT !.state = "purging"]
  <2>5. group' = [group EXCEPT ![g] = new]
        /\ asset' = [k \in Keys |-> IF k \in ks THEN taken(k) ELSE asset[k]]
    BY <1>3, <2>1, <2>3 DEF Claim
  <2>6. /\ new \in GroupRows /\ new.state = "purging" /\ new.issue = i
        /\ new.pending = ks /\ new.deleted = group[g].deleted
    <3>1. PICK old \in GroupRows : old = group[g] /\ old.issue = i
      BY <1>0, <2>3, LibraryTyped
    <3>2. new = [old EXCEPT !.state = "purging", !.pending = ks]
      BY <3>1
    <3> HIDE DEF new
    <3> QED
      BY <3>1, <3>2 DEF GroupRows
  <2>7. \A k \in Keys : taken(k) \in AssetRows /\ taken(k).state = "purging"
    BY <1>0, LibraryTyped DEF AssetRows
  <2> HIDE DEF new, taken
  <2>8. /\ group' \in [Groups -> GroupRows] /\ group'[g] = new
        /\ \A h \in Groups \ {g} : group'[h] = group[h]
    BY <1>0, <2>5, <2>6 DEF LibraryTypeOK
  <2>9. /\ asset' \in [Keys -> AssetRows]
        /\ \A k \in ks : asset'[k].state = "purging"
        /\ \A k \in Keys \ ks : asset'[k] = asset[k]
    BY <1>0, <2>5, <2>7 DEF LibraryTypeOK
  <2>10. LibraryTypeOK'
    BY <1>0, <1>1, <2>8, <2>9 DEF LibraryTypeOK
  <2>11. /\ Taken(g) = {} /\ group[g].deleted = {} /\ Taken(g)' = ks
         /\ \A h \in Groups \ {g} : Taken(h)' = Taken(h)
    BY <1>0, <2>2, <2>6, <2>8 DEF GroupsHold, Taken
  <2>12. \A k \in ks : asset[k].state = "live" /\ ~Reserved(k)
    BY <2>4 DEF Claimable
  <2>13. \A h \in Groups : Taken(h) \cap ks = {}
    BY <1>0, <2>12 DEF GroupsHold, Taken
  <2>14. IssuesHold'
    <3> SUFFICES ASSUME NEW j \in Issues, issue[j].group # 0
                 PROVE  /\ group'[issue[j].group].issue = j
                        /\ group'[issue[j].group].state \in {"trashed", "blocked", "purging"}
      BY <1>0 DEF IssuesHold
    <3>1. PICK h \in Groups : h = issue[j].group
      BY <1>0, LibraryTyped
    <3> QED
      BY <1>0, <2>3, <2>6, <2>8, <3>1 DEF IssuesHold
  <2>15. GroupsHold'
    <3> SUFFICES ASSUME NEW h \in Groups
                 PROVE  /\ group'[h].state # "none" => group'[h].issue \in Issues
                        /\ group'[h].state \notin {"purging", "purged"} => Taken(h)' = {}
                        /\ group'[h].state = "purged" => group'[h].pending = {}
                        /\ \A k \in group'[h].pending : asset'[k].state = "purging"
                        /\ \A k \in group'[h].deleted : asset'[k].state = "purged"
                        /\ \A x \in Groups \ {h} : Taken(h)' \cap Taken(x)' = {}
      BY DEF GroupsHold
    <3>1. CASE h = g
      BY <2>6, <2>8, <2>9, <2>11, <2>13, <3>1
    <3>2. CASE h # g
      <4>1. group'[h] = group[h] /\ Taken(h)' = Taken(h)
        BY <2>8, <2>11, <3>2
      <4>2. \A k \in Taken(h) : k \in Keys /\ asset'[k] = asset[k]
        BY <1>0, <2>9, <2>13, LibraryTyped DEF Taken
      <4>3. \A x \in Groups \ {h} : Taken(h) \cap Taken(x)' = {}
        BY <1>0, <2>11, <2>13 DEF GroupsHold
      <4> QED
        BY <1>0, <4>1, <4>2, <4>3 DEF GroupsHold, Taken
    <3> QED
      BY <3>1, <3>2
  <2>16. AssetsHold'
    BY <1>0, <2>9, <2>12 DEF AssetsHold, Reserved
  <2>17. CallsHold'
    <3>1. \A h \in Groups : Taken(h) \subseteq Taken(h)'
      BY <2>11
    <3> QED
      BY <1>0, <1>1, <3>1 DEF CallsHold, Taken
  <2>18. \A j \in Issues \ {i} : issue[j].row => Uses(j) \cap ks = {}
    <3> SUFFICES ASSUME NEW j \in Issues \ {i}, issue[j].row, NEW k \in ks
                 PROVE  k \notin Uses(j)
      OBVIOUS
    <3>1. issue[j].indexed /\ issue[j].content.complete /\ issue[j].content \in Contents
      BY <1>0, <2>4 DEF Claimable, AllInventoried, IssuesHold
    <3>2. issue[j].content.hidden = {}
      BY <3>1
    <3>3. k \notin References(j)
      BY <2>4 DEF Claimable
    <3> QED
      BY <3>1, <3>2, <3>3 DEF References, Uses
  <2>19. OnlyOwn'
    <3> SUFFICES ASSUME NEW h \in Groups, group'[h].state = "purging"
                 PROVE  /\ issue[group'[h].issue].row /\ issue[group'[h].issue].group = h
                        /\ ~CitedByAnother(group[h].issue)'
                        /\ \A j \in Issues \ {group'[h].issue} :
                             issue[j].row => Uses(j) \cap group'[h].pending = {}
      BY <1>0 DEF OnlyOwn, Uses
    <3>1. PICK o \in Issues : o = group'[h].issue /\ (h = g => o = i) /\ (h # g => o = group[h].issue)
      BY <1>0, <2>6, <2>8 DEF GroupsHold
    <3>2. CASE h = g
      <4>1. issue[o].row /\ ~CitedByAnother(o)
        BY <1>0, <2>4, <3>1, <3>2 DEF Claimable, IssuesHold
      <4>2. ~CitedByAnother(o)'
        BY <1>0, <4>1 DEF CitedByAnother
      <4> QED
        BY <2>4, <2>6, <2>8, <2>18, <3>1, <3>2, <4>1, <4>2
    <3>3. CASE h # g
      <4>1. group'[h] = group[h]
        BY <2>8, <3>3
      <4>2. /\ issue[o].row /\ issue[o].group = h /\ ~CitedByAnother(o)
            /\ \A j \in Issues \ {o} : issue[j].row => Uses(j) \cap group[h].pending = {}
        BY <1>0, <3>1, <3>3, <4>1 DEF OnlyOwn
      <4>3. ~CitedByAnother(o)'
        BY <1>0, <4>2 DEF CitedByAnother
      <4> QED
        BY <3>1, <4>1, <4>2, <4>3
    <3> QED
      BY <3>2, <3>3
  <2> QED
    BY <2>10, <2>14, <2>15, <2>16, <2>17, <2>19, Whole
<1> QED
  BY <1>2, <1>3

LEMMA DeleteStep ==
    ASSUME LibraryInv, NEW p \in Purgers, Delete(p) \/ DeleteFails(p) \/ PurgerEnds(p)
    PROVE  LibraryInv'
<1>0. /\ LibraryTypeOK /\ GroupsHold /\ CallsHold /\ UNCHANGED <<issue, asset, group, upload>>
      /\ purger \in [Purgers -> PurgeRequests] /\ faults' \in 0 .. MaxFaults
  BY Parts DEF Delete, DeleteFails, PurgerEnds, LibraryTypeOK
<1>1. CASE Delete(p)
  <2>1. PICK g \in Groups, ks \in SUBSET Keys : g = purger[p].group /\ ks = purger[p].keys
    BY <1>0, <1>1, LibraryTyped DEF CallsHold, Delete
  <2>2. ks \subseteq Taken(g) /\ stored' = stored \ ks /\ Goto(p, "mark", g, ks)
    BY <1>0, <1>1, <2>1 DEF CallsHold, Delete
  <2>3. /\ purger' \in [Purgers -> PurgeRequests]
        /\ purger'[p].at = "mark" /\ purger'[p].group = g /\ purger'[p].keys = ks
        /\ \A q \in Purgers \ {p} : purger'[q] = purger[q]
    BY <1>0, <2>2, GotoIs
  <2> QED
    BY <1>0, <2>2, <2>3, PurgerKeeps
<1>2. CASE DeleteFails(p) \/ PurgerEnds(p)
  <2>1. PurgerDone(p) /\ stored' \subseteq stored
    BY <1>2 DEF DeleteFails, PurgerEnds
  <2> QED
    BY <1>0, <2>1, PurgerDoneIs, PurgerKeeps
<1> QED
  BY <1>1, <1>2

LEMMA TakeStep ==
    ASSUME LibraryInv, NEW p \in Purgers, NEW g \in Groups, TakeBatch(p, g)
    PROVE  LibraryInv'
<1>0. /\ LibraryTypeOK /\ UNCHANGED <<issue, asset, stored, group, upload, faults>>
      /\ purger \in [Purgers -> PurgeRequests] /\ faults' \in 0 .. MaxFaults
  BY Parts DEF TakeBatch, LibraryTypeOK
<1>1. PICK ks \in SUBSET Keys : ABatch(g, ks) /\ Goto(p, "delete", g, ks)
  BY DEF TakeBatch
<1>2. /\ purger' \in [Purgers -> PurgeRequests]
      /\ purger'[p].at = "delete" /\ purger'[p].group = g /\ purger'[p].keys = ks
      /\ \A q \in Purgers \ {p} : purger'[q] = purger[q]
  BY <1>0, <1>1, GotoIs
<1> QED
  BY <1>0, <1>1, <1>2, PurgerKeeps DEF ABatch, Pending, Taken

\* What is marked is not stored, and nobody puts it again.
LEMMA MarkStep ==
    ASSUME LibraryInv, NEW p \in Purgers, Mark(p)
    PROVE  LibraryInv'
<1>0. /\ LibraryTypeOK /\ IssuesHold /\ GroupsHold /\ AssetsHold /\ CallsHold /\ OnlyOwn
      /\ UNCHANGED <<issue, stored, upload, faults>> /\ PurgerDone(p) /\ purger[p].at = "mark"
  BY Parts DEF Mark
<1>1. /\ purger' \in [Purgers -> PurgeRequests]
      /\ purger'[p].at = "idle"
      /\ \A q \in Purgers \ {p} : purger'[q] = purger[q]
  BY <1>0, PurgerDoneIs DEF LibraryTypeOK
<1>2. PICK g \in Groups, ks \in SUBSET Keys : g = purger[p].group /\ ks = purger[p].keys
  BY <1>0, LibraryTyped DEF CallsHold
<1>3. /\ ks \subseteq Taken(g) /\ ks \cap stored = {}
      /\ \A k \in ks : asset[k].state \in {"purging", "purged"} /\ ~Reserved(k)
  BY <1>0, <1>2, KeysTaken DEF CallsHold
<1> DEFINE new == [group[g] EXCEPT !.pending = @ \ ks, !.deleted = @ \cup ks]
           gone(k) == [asset[k] EXCEPT !.state = "purged"]
<1>4. group' = [group EXCEPT ![g] = new]
      /\ asset' = [k \in Keys |-> IF k \in ks THEN gone(k) ELSE asset[k]]
  BY <1>2 DEF Mark
<1>5. /\ new \in GroupRows /\ new.state = group[g].state /\ new.issue = group[g].issue
      /\ new.pending = group[g].pending \ ks /\ new.deleted = group[g].deleted \cup ks
  <2>1. PICK old \in GroupRows, left \in SUBSET Keys, deleted \in SUBSET Keys :
          /\ old = group[g] /\ left = old.pending \ ks /\ deleted = old.deleted \cup ks
    BY <1>0, LibraryTyped
  <2>2. new = [old EXCEPT !.pending = left, !.deleted = deleted]
    BY <2>1
  <2> HIDE DEF new
  <2> QED
    BY <2>1, <2>2 DEF GroupRows
<1>6. \A k \in Keys : gone(k) \in AssetRows /\ gone(k).state = "purged"
  BY <1>0, LibraryTyped DEF AssetRows
<1> HIDE DEF new, gone
<1>7. /\ group' \in [Groups -> GroupRows] /\ group'[g] = new
      /\ \A h \in Groups \ {g} : group'[h] = group[h]
  BY <1>0, <1>4, <1>5 DEF LibraryTypeOK
<1>8. /\ asset' \in [Keys -> AssetRows]
      /\ \A k \in ks : asset'[k].state = "purged"
      /\ \A k \in Keys \ ks : asset'[k] = asset[k]
  BY <1>0, <1>4, <1>6 DEF LibraryTypeOK
<1>9. LibraryTypeOK'
  BY <1>0, <1>1, <1>7, <1>8 DEF LibraryTypeOK
<1>10. \A h \in Groups : /\ Taken(h)' = Taken(h)
                         /\ group'[h].state = group[h].state
                         /\ group'[h].issue = group[h].issue
                         /\ group'[h].pending \subseteq group[h].pending
  BY <1>3, <1>5, <1>7 DEF Taken
<1>11. IssuesHold'
  <2> SUFFICES ASSUME NEW i \in Issues, issue[i].group # 0
               PROVE  /\ group'[issue[i].group].issue = i
                      /\ group'[issue[i].group].state \in {"trashed", "blocked", "purging"}
    BY <1>0 DEF IssuesHold
  <2>1. PICK h \in Groups : h = issue[i].group
    BY <1>0, LibraryTyped
  <2> QED
    BY <1>0, <1>10, <2>1 DEF IssuesHold
<1>12. \A h \in Groups : \A k \in group'[h].pending : asset'[k].state = "purging"
  <2> SUFFICES ASSUME NEW h \in Groups, NEW k \in group'[h].pending
               PROVE  asset'[k].state = "purging"
    OBVIOUS
  <2>1. k \in Keys /\ k \in group[h].pending /\ asset[k].state = "purging"
    BY <1>0, <1>10, LibraryTyped DEF GroupsHold
  <2>2. k \notin ks
    BY <1>0, <1>3, <1>5, <1>7, <2>1 DEF GroupsHold, Taken
  <2> QED
    BY <1>8, <2>1, <2>2
<1>13. \A h \in Groups : \A k \in group'[h].deleted : asset'[k].state = "purged"
  <2> SUFFICES ASSUME NEW h \in Groups, NEW k \in group'[h].deleted
               PROVE  asset'[k].state = "purged"
    OBVIOUS
  <2>1. CASE k \in ks
    BY <1>8, <2>1
  <2>2. CASE k \notin ks
    <3>1. k \in group[h].deleted
      BY <1>5, <1>7, <2>2
    <3>2. k \in Keys /\ asset[k].state = "purged"
      BY <1>0, <3>1, LibraryTyped DEF GroupsHold
    <3> QED
      BY <1>8, <2>2, <3>2
  <2> QED
    BY <2>1, <2>2
<1>14. GroupsHold'
  BY <1>0, <1>10, <1>12, <1>13 DEF GroupsHold
<1>15. AssetsHold'
  BY <1>0, <1>3, <1>8 DEF AssetsHold, Reserved
<1>16. CallsHold'
  BY <1>0, <1>1, <1>10 DEF CallsHold, Taken
<1>17. OnlyOwn'
  BY <1>0, <1>10 DEF OnlyOwn, CitedByAnother, Uses
<1> QED
  BY <1>9, <1>11, <1>14, <1>15, <1>16, <1>17, Whole

LEMMA FinishStep ==
    ASSUME LibraryInv, NEW p \in Purgers, NEW g \in Groups, Finish(p, g)
    PROVE  LibraryInv'
<1>0. /\ LibraryTypeOK /\ IssuesHold /\ GroupsHold /\ AssetsHold /\ CallsHold /\ OnlyOwn
      /\ UNCHANGED <<asset, stored, upload, purger, faults>>
      /\ group[g].state = "purging" /\ group[g].pending = {}
  BY Parts DEF Finish, Pending
<1>1. PICK i \in Issues : i = group[g].issue /\ issue[i].group = g
  BY <1>0 DEF GroupsHold, OnlyOwn
<1> DEFINE row == [row |-> FALSE, group |-> 0, indexed |-> FALSE, content |-> Empty]
           new == [group[g] EXCEPT !.state = "purged"]
<1>2. row \in IssueRows /\ row.row = FALSE /\ row.group = 0
  BY NothingTyped DEF IssueRows
<1>3. /\ new \in GroupRows /\ new.state = "purged" /\ new.issue = i
      /\ new.pending = group[g].pending /\ new.deleted = group[g].deleted
  BY <1>0, <1>1, LibraryTyped DEF GroupRows
<1>4. issue' = [issue EXCEPT ![i] = row] /\ group' = [group EXCEPT ![g] = new]
  BY <1>1 DEF Finish
<1> HIDE DEF row, new
<1>5. /\ issue' \in [Issues -> IssueRows] /\ issue'[i] = row
      /\ \A j \in Issues \ {i} : issue'[j] = issue[j]
      /\ group' \in [Groups -> GroupRows] /\ group'[g] = new
      /\ \A h \in Groups \ {g} : group'[h] = group[h]
  BY <1>0, <1>2, <1>3, <1>4 DEF LibraryTypeOK
<1>6. LibraryTypeOK'
  BY <1>0, <1>5 DEF LibraryTypeOK
<1>7. IssuesHold'
  <2> SUFFICES ASSUME NEW j \in Issues
               PROVE  /\ issue'[j].row => issue'[j].content \in Contents
                      /\ issue'[j].group # 0 =>
                           /\ issue'[j].row
                           /\ group'[issue'[j].group].issue = j
                           /\ group'[issue'[j].group].state \in {"trashed", "blocked", "purging"}
    BY DEF IssuesHold
  <2>1. CASE j = i
    BY <1>2, <1>5, <2>1
  <2>2. CASE j # i
    <3>1. PICK h \in Groups \cup {0} : h = issue[j].group
      BY <1>0, LibraryTyped
    <3>2. h # g
      BY <1>0, <1>1, <2>2, <3>1 DEF IssuesHold
    <3>3. issue'[j] = issue[j] /\ (h # 0 => group'[h] = group[h])
      BY <1>5, <2>2, <3>1, <3>2
    <3> QED
      BY <1>0, <3>1, <3>3 DEF IssuesHold
  <2> QED
    BY <2>1, <2>2
<1>8. \A h \in Groups : Taken(h)' = Taken(h)
  BY <1>3, <1>5 DEF Taken
<1>9. GroupsHold'
  BY <1>0, <1>1, <1>3, <1>5, <1>8 DEF GroupsHold
<1>10. AssetsHold' /\ CallsHold'
  BY <1>0, <1>8, AssetsKept, CallsKept DEF Reserved, Steady
<1>11. OnlyOwn'
  <2> SUFFICES ASSUME NEW h \in Groups, group'[h].state = "purging"
               PROVE  /\ issue'[group'[h].issue].row /\ issue'[group'[h].issue].group = h
                      /\ ~CitedByAnother(group[h].issue)'
                      /\ \A j \in Issues \ {group'[h].issue} :
                           issue'[j].row => Uses(j)' \cap group'[h].pending = {}
    BY DEF OnlyOwn
  <2>1. h # g /\ group'[h] = group[h] /\ group[h].state = "purging"
    BY <1>3, <1>5
  <2>2. PICK o \in Issues : o = group[h].issue /\ o = group'[h].issue
    BY <1>0, <2>1 DEF GroupsHold
  <2>3. /\ issue[o].row /\ issue[o].group = h /\ ~CitedByAnother(o)
        /\ \A j \in Issues \ {o} : issue[j].row => Uses(j) \cap group[h].pending = {}
    BY <1>0, <2>1, <2>2 DEF OnlyOwn
  <2>4. o # i /\ issue'[o] = issue[o]
    BY <1>1, <1>5, <2>1, <2>3
  <2>5. \A j \in Issues : issue'[j].row => issue'[j] = issue[j]
    BY <1>2, <1>5
  <2>6. ~CitedByAnother(o)'
    BY <2>3, <2>5 DEF CitedByAnother
  <2> QED
    BY <2>1, <2>2, <2>3, <2>4, <2>5, <2>6 DEF Uses
<1> QED
  BY <1>6, <1>7, <1>9, <1>10, <1>11, Whole
-----------------------------------------------------------------------------
LEMMA LibraryStep == LibraryInv /\ [LibraryNext]_libraryVars => LibraryInv'
<1> SUFFICES ASSUME LibraryInv, [LibraryNext]_libraryVars PROVE LibraryInv'
  OBVIOUS
<1>1. CASE IssueNext
  BY <1>1, SaveStep, IndexStep, TrashStep, RestoreStep DEF IssueNext
<1>2. ASSUME NEW u \in Uploads, UploadNext(u) PROVE LibraryInv'
  BY <1>2, UploadStep
<1>3. ASSUME NEW p \in Purgers, PurgeNext(p) PROVE LibraryInv'
  <2>1. ASSUME NEW g \in Groups, Judge(p, g) \/ PurgeBatch(p, g) PROVE LibraryInv'
    BY <2>1, JudgeStep, TakeStep, FinishStep DEF PurgeBatch
  <2>2. CASE PurgeSteps(p) \/ DeleteFails(p) \/ PurgerEnds(p)
    BY <2>2, ClaimStep, DeleteStep, MarkStep DEF PurgeSteps
  <2> QED
    BY <1>3, <2>1, <2>2 DEF PurgeNext
<1>4. CASE UNCHANGED libraryVars
  BY <1>4 DEF libraryVars, LibraryInv, LibraryTypeOK, IssuesHold, GroupsHold, AssetsHold,
              CallsHold, UnusedWhilePurging, Taken, Reserved, CitedByAnother, Uses, Pending
<1> QED
  BY <1>1, <1>2, <1>3, <1>4 DEF LibraryNext

LEMMA LibraryStart == LibraryInit => LibraryInv
<1> SUFFICES ASSUME LibraryInit PROVE LibraryInv
  OBVIOUS
<1>1. LegacyContent \in ContentRecords
  OBVIOUS
<1>2. issue \in [Issues -> IssueRows]
  <2>1. ASSUME NEW i \in Issues
        PROVE  [row |-> i \in LegacyIssues, group |-> 0, indexed |-> FALSE,
                content |-> IF i \in LegacyIssues THEN LegacyContent ELSE Empty] \in IssueRows
    <3>1. (i \in LegacyIssues) \in BOOLEAN
      OBVIOUS
    <3>2. PICK c \in ContentRecords : c = IF i \in LegacyIssues THEN LegacyContent ELSE Empty
      BY <1>1, NothingTyped
    <3> DEFINE b == i \in LegacyIssues
    <3>3. b \in BOOLEAN
      BY <3>1
    <3> HIDE DEF b
    <3>4. [row |-> b, group |-> 0, indexed |-> FALSE, content |-> c] \in IssueRows
      BY <3>3 DEF IssueRows
    <3> QED
      BY <3>2, <3>4 DEF b
  <2> QED
    BY <2>1 DEF LibraryInit
<1>3. /\ asset \in [Keys -> AssetRows] /\ \A k \in Keys : asset[k].state = "none"
  BY DEF LibraryInit, AssetRows
<1>4. /\ group \in [Groups -> GroupRows]
      /\ \A g \in Groups : group[g].state = "none" /\ Taken(g) = {}
                             /\ group[g].pending = {} /\ group[g].deleted = {}
  <2> DEFINE none == [state |-> "none", issue |-> None, pending |-> {}, deleted |-> {}]
  <2>1. none \in GroupRows /\ none.state = "none" /\ none.pending = {} /\ none.deleted = {}
    BY DEF GroupRows
  <2>2. group = [g \in Groups |-> none]
    BY DEF LibraryInit
  <2> HIDE DEF none
  <2> QED
    BY <2>1, <2>2 DEF Taken
<1>5. LibraryTypeOK
  <2>1. upload \in [Uploads -> UploadRequests] /\ purger \in [Purgers -> PurgeRequests]
    BY NothingTyped DEF LibraryInit
  <2>2. stored \subseteq Keys /\ faults \in 0 .. MaxFaults
    BY DEF LibraryInit
  <2> QED
    BY <1>2, <1>3, <1>4, <2>1, <2>2 DEF LibraryTypeOK
<1>6. \A i \in Issues : issue[i].group = 0 /\ (issue[i].row => issue[i].content = LegacyContent)
  BY DEF LibraryInit
<1>7. IssuesHold
  BY <1>6 DEF IssuesHold
<1>8. GroupsHold /\ AssetsHold
  BY <1>3, <1>4 DEF GroupsHold, AssetsHold
<1>9. CallsHold
  BY NothingTyped DEF LibraryInit, CallsHold
<1>10. UnusedWhilePurging
  BY <1>4 DEF UnusedWhilePurging
<1> QED
  BY <1>5, <1>7, <1>8, <1>9, <1>10 DEF LibraryInv
-----------------------------------------------------------------------------
\* Issues, objects, uploads and purges of the Library keep their types.
THEOREM LibraryTypeCorrect == LibrarySpec => []LibraryTypeOK
<1>1. LibraryInv => LibraryTypeOK
  BY DEF LibraryInv
<1> QED
  BY LibraryStart, LibraryStep, <1>1, PTL DEF LibrarySpec

\* What a purge has taken is taken once, reserved by nobody, and its own issue's.
THEOREM LibraryInvariant == LibrarySpec => []LibraryInv
  BY LibraryStart, LibraryStep, PTL DEF LibrarySpec

\* What is being purged has no other user.
THEOREM PurgedIsUnused == LibrarySpec => []UnusedWhilePurging
<1>1. LibraryInv => UnusedWhilePurging
  BY DEF LibraryInv
<1> QED
  BY LibraryInvariant, <1>1, PTL

\* What is recorded as purged is gone.
THEOREM PurgedIsGone == LibrarySpec => []GoneForGood
<1>1. LibraryInv => GoneForGood
  <2> SUFFICES ASSUME LibraryInv PROVE GoneForGood
    OBVIOUS
  <2>1. \A k \in Keys : asset[k].state = "purged" => k \notin stored
    BY DEF LibraryInv, AssetsHold
  <2>2. ASSUME NEW g \in Groups, group[g].state = "purged"
        PROVE  Pending(g) = {} /\ \A i \in Issues : issue[i].row => issue[i].group # g
    <3>1. Pending(g) = {}
      BY <2>2 DEF LibraryInv, GroupsHold, Pending
    <3>2. g # 0
      BY DEF LibraryAssumption
    <3>3. \A i \in Issues : issue[i].row => issue[i].group # g
      BY <2>2, <3>2 DEF LibraryInv, IssuesHold
    <3> QED
      BY <3>1, <3>3
  <2> QED
    BY <2>1, <2>2 DEF GoneForGood
<1> QED
  BY LibraryInvariant, <1>1, PTL
=============================================================================
