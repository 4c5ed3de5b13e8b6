------------------------------ MODULE HostFiles ------------------------------
(***************************************************************************)
(* Files of a registered root that clients read and change through the     *)
(* Host (apps/host files.py, workspace_files.py, transfers.py): version-    *)
(* checked writes, directories moved, trashed and restored, and uploads     *)
(* and downloads in chunks that outlive the Host's process.  One lock       *)
(* guards the root, another the transfers, and only a commit takes both.    *)
(* Other programs edit the same files and heed neither.                     *)
(*                                                                          *)
(* The root has directories with one file name in each; a file is a         *)
(* sequence of chunks with a stamp for its inode and times.  The root is    *)
(* read_write: the other permissions only refuse.                           *)
(***************************************************************************)
EXTENDS Naturals, Sequences, FiniteSets

CONSTANTS
    Dirs,       \* numbered from 1
    Bytes,
    MaxSize,    \* chunks of the largest file
    Uploads, Downloads,
    Accepts,    \* contents whose hash the client of an upload has announced
    Drafts,     \* contents that write_file and other programs write
    Bins,       \* names of trash containers
    Budgets     \* requests, edits, crashes and expiries of a behaviour

Transfers == Uploads \cup Downloads
Contents == UNION {[1..n -> Bytes] : n \in 0..MaxSize}

ASSUME FilesAssumption ==
    /\ IsFiniteSet(Dirs) /\ Dirs = 1..Cardinality(Dirs)
    /\ MaxSize \in Nat /\ Uploads \cap Downloads = {}
    /\ Accepts \in [Uploads -> SUBSET Contents] /\ Drafts \subseteq Contents
    /\ Budgets \subseteq [requests : Nat, edits : Nat, crashes : Nat, ages : Nat]

VARIABLES
    tree,       \* the root: its directories, their file and their uploads' staging
    recovery,   \* host-recovery: the previous content of a path
    bin,        \* host-trash: containers with metadata and payload
    items,      \* Transfers.items
    saved,      \* transfers.json
    server,     \* the process: "up", "down", or "refused" (it does not start)
    transfer,   \* the transfer request that holds Transfers._lock
    work,       \* the request or sweep that holds the root's lock
    aged,       \* transfers and containers past their time
    drawn,      \* ids of transfers, each drawn at random and never again
    left, clock,
    acked, placed, got  \* history: acknowledged chunks, commits, bytes delivered

disk == <<tree, recovery, bin, clock>>
seenBy == <<acked, placed, got>>
fileVars == <<disk, items, saved, server, transfer, work, aged, drawn, left, seenBy>>

NoFile == [there |-> FALSE, bytes |-> <<>>, stamp |-> 0, by |-> "host"]
NoStaging == [there |-> FALSE, bytes |-> <<>>]
EmptyDir == [there |-> TRUE, file |-> NoFile, staging |-> [u \in Uploads |-> NoStaging]]
NoDir == [there |-> FALSE, file |-> NoFile, staging |-> [u \in Uploads |-> NoStaging]]
NoItem == [there |-> FALSE]
NoBin == [stage |-> "none"]
Idle == [pc |-> "idle"]
NotPlaced == [there |-> FALSE]

Version(f) == <<f.there, f.bytes>>

FilesInit ==
    /\ \E first \in [Dirs -> Bytes] : tree = [d \in Dirs |->
          [EmptyDir EXCEPT !.file = [there |-> TRUE, bytes |-> <<first[d]>>, stamp |-> d,
                                     by |-> "host"]]]
    /\ recovery = [d \in Dirs |-> NoFile]
    /\ bin = [o \in Bins |-> NoBin]
    /\ items = [x \in Transfers |-> NoItem] /\ saved = items
    /\ server = "up" /\ transfer = Idle /\ work = Idle
    /\ aged = {} /\ drawn = {} /\ left \in Budgets /\ clock = Cardinality(Dirs)
    /\ acked = [u \in Uploads |-> {}] /\ placed = [u \in Uploads |-> NotPlaced]
    /\ got = [k \in Downloads |-> {}]

\* A file as it is after a write, a rename or a restore: with times of its own.
New(bytes, by) == [there |-> TRUE, bytes |-> bytes, stamp |-> clock + 1, by |-> by]

Spend(what) == left[what] > 0 /\ left' = [left EXCEPT ![what] = @ - 1]

\* root_lock: one lock for every root; a commit holds it from its check on.
Free_Always == TRUE
Free == work = Idle /\ transfer.pc \notin {"keep", "replace"}

At(pc) == server = "up" /\ transfer.pc = pc
Doing(pc) == server = "up" /\ work.pc = pc

\* trash_list and restore take what has metadata and payload, past its time or not.
Listed(o) == bin[o].stage = "full"
InBin(o) == Listed(o) /\ bin[o].payload.file.there

\* The files that the root and the trash hold.
Existing ==
    {tree[d].file : d \in {e \in Dirs : tree[e].file.there}}
      \cup {bin[o].payload.file : o \in {b \in Bins : InBin(b)}}

-----------------------------------------------------------------------------
\* Transfers.  Every request first drops what has expired.

Expired == {x \in Transfers \cap aged : items[x].there}
Ready == At("idle") /\ Expired = {}

Staged(u) == tree[items[u].d].staging[u]
Steps(pc, u) == transfer' = [pc |-> pc, x |-> u]
Saves == transfer' = [pc |-> "save"]
Finished == transfer' = Idle

\* An upload names the version it is to replace.
BeginUpload(u, d, size) ==
    /\ Ready /\ u \notin drawn /\ drawn' = drawn \cup {u}
    /\ Spend("requests")
    /\ transfer' = [pc |-> "create", x |-> u,
                    item |-> [there |-> TRUE, d |-> d, size |-> size, offset |-> 0,
                              expected |-> Version(tree[d].file)]]
    /\ UNCHANGED <<disk, items, saved, server, work, aged, seenBy>>

\* The directory of an upload's target, with the upload's staging beside the target.
Beside(d, file, u, staging) ==
    [there |-> TRUE, file |-> file, staging |-> [tree[d].staging EXCEPT ![u] = staging]]

\* The staging is made with no lock of the root held.
CreateStaging ==
    /\ At("create")
    /\ tree' = [tree EXCEPT ![transfer.item.d] =
          Beside(transfer.item.d, @.file, transfer.x, [there |-> TRUE, bytes |-> <<>>])]
    /\ transfer' = [transfer EXCEPT !.pc = "record"]
    /\ UNCHANGED <<recovery, bin, clock, items, saved, server, work, aged, drawn, left, seenBy>>

Record ==
    /\ At("record")
    /\ items' = [items EXCEPT ![transfer.x] = transfer.item]
    /\ saved' = items' /\ Finished
    /\ UNCHANGED <<disk, server, work, aged, drawn, left, seenBy>>

\* A chunk that arrives again must be what is there; the next one is appended.
Repeats(u, offset, byte) == Staged(u).bytes[offset + 1] = byte

Chunk(u, offset, byte) ==
    /\ Ready /\ items[u].there /\ Staged(u).there
    /\ offset < items[u].size
    /\ \/ /\ offset < items[u].offset
          /\ Repeats(u, offset, byte)
          /\ acked' = [acked EXCEPT ![u] = @ \cup {<<offset, byte>>}]
          /\ saved' = items
          /\ UNCHANGED <<tree, items, transfer>>
       \/ /\ offset = items[u].offset
          /\ tree' = [tree EXCEPT ![items[u].d] =
                Beside(items[u].d, @.file, u,
                       [there |-> TRUE, bytes |-> Append(Staged(u).bytes, byte)])]
          /\ items' = [items EXCEPT ![u].offset = @ + 1]
          /\ transfer' = [pc |-> "appended", x |-> u, chunk |-> <<offset, byte>>]
          /\ UNCHANGED <<acked, saved>>
    /\ UNCHANGED <<recovery, bin, clock, server, work, aged, drawn, left, placed, got>>

\* The new offset is recorded, unless the staging has been carried away.
RecordOffset ==
    LET u == transfer.x
    IN  /\ At("appended") /\ Finished
        /\ IF Staged(u).there
           THEN saved' = items /\ acked' = [acked EXCEPT ![u] = @ \cup {transfer.chunk}]
           ELSE UNCHANGED <<saved, acked>>
        /\ UNCHANGED <<disk, items, server, work, aged, drawn, left, placed, got>>

\* A commit hashes the staging, then waits for the root.
Commit(u) ==
    /\ Ready /\ items[u].there /\ Staged(u).there
    /\ items[u].offset = items[u].size
    /\ Staged(u).bytes \in Accepts[u]
    /\ Steps("lock", u)
    /\ UNCHANGED <<disk, items, saved, server, work, aged, drawn, left, seenBy>>

\* The target still has the version the upload was begun for.
Unchanged(u, f) == Version(f) = items[u].expected

CheckTarget ==
    LET u == transfer.x
        file == tree[items[u].d].file
    IN  /\ At("lock") /\ Free
        /\ IF Unchanged(u, file) /\ Staged(u).there
           THEN transfer' = [pc |-> "keep", x |-> u, since |-> clock]
           ELSE Finished
        /\ UNCHANGED <<disk, items, saved, server, work, aged, drawn, left, seenBy>>

\* _keep_previous: the content a request is about to replace is copied first.
Kept(d) == IF tree[d].file.there
           THEN recovery' = [recovery EXCEPT ![d] = tree[d].file]
           ELSE UNCHANGED recovery

KeepTarget ==
    /\ At("keep")
    /\ Kept(items[transfer.x].d)
    /\ transfer' = [transfer EXCEPT !.pc = "replace"]
    /\ UNCHANGED <<tree, bin, clock, items, saved, server, work, aged, drawn, left, seenBy>>

ReplaceTarget ==
    LET u == transfer.x
        d == items[u].d
    IN  /\ At("replace")
        /\ IF Staged(u).there
           THEN /\ tree' = [tree EXCEPT ![d] =
                      Beside(d, New(Staged(u).bytes, "host"), u, NoStaging)]
                /\ clock' = clock + 1
                /\ placed' = [placed EXCEPT ![u] =
                      [there |-> TRUE, bytes |-> Staged(u).bytes, item |-> items[u],
                       over |-> tree[d].file, since |-> transfer.since]]
                /\ items' = [items EXCEPT ![u] = NoItem]
                /\ Saves
           ELSE Finished /\ UNCHANGED <<tree, clock, placed, items>>
        /\ UNCHANGED <<recovery, bin, saved, server, work, aged, drawn, left, acked, got>>

\* The staging goes when it is where it was recorded.
Unstaged(gone) ==
    [d \in Dirs |-> [tree[d] EXCEPT !.staging =
        [u \in Uploads |-> IF u \in gone /\ items[u].d = d THEN NoStaging ELSE @[u]]]]

Discard(gone) ==
    /\ tree' = Unstaged(gone \cap Uploads)
    /\ items' = [x \in Transfers |-> IF x \in gone THEN NoItem ELSE items[x]]
    /\ Saves
    /\ UNCHANGED <<recovery, bin, clock, saved, server, work, aged, drawn, left, seenBy>>

CancelTransfer(x) == Ready /\ items[x].there /\ Discard({x})

ExpireTransfers == At("idle") /\ Expired # {} /\ Discard(Expired)

Save ==
    /\ At("save")
    /\ saved' = items /\ Finished
    /\ UNCHANGED <<disk, items, server, work, aged, drawn, left, seenBy>>

\* A download is pinned to the file it was begun for.
BeginDownload(k, d) ==
    /\ Ready /\ k \notin drawn /\ drawn' = drawn \cup {k}
    /\ tree[d].file.there
    /\ Spend("requests")
    /\ items' = [items EXCEPT ![k] = [there |-> TRUE, d |-> d, pinned |-> tree[d].file]]
    /\ saved' = items'
    /\ UNCHANGED <<disk, server, transfer, work, aged, seenBy>>

Same_Size(k) == Len(tree[items[k].d].file.bytes) = Len(items[k].pinned.bytes)
Same(k) == tree[items[k].d].file.stamp = items[k].pinned.stamp /\ tree[items[k].d].file.there

OpenDownload(k, offset) ==
    /\ Ready /\ items[k].there /\ Same(k)
    /\ offset < Len(items[k].pinned.bytes)
    /\ transfer' = [pc |-> "read", x |-> k, offset |-> offset, file |-> tree[items[k].d].file]
    /\ UNCHANGED <<disk, items, saved, server, work, aged, drawn, left, seenBy>>

\* The opened file may be edited in place while it is read: no file of the root or
\* the trash then has its times any more.  What has taken its place is not read.
Rewritten(f) == \A g \in Existing : g.stamp # f.stamp

ReadDownload ==
    LET opened == transfer.file
        now == tree[items[transfer.x].d].file
    IN  /\ At("read")
        /\ \E bytes \in {opened.bytes} \cup {b \in {now.bytes} : Rewritten(opened)} :
              /\ transfer.offset < Len(bytes)
              /\ transfer' = [pc |-> "compare", x |-> transfer.x,
                              chunk |-> <<transfer.offset, bytes[transfer.offset + 1]>>]
        /\ UNCHANGED <<disk, items, saved, server, work, aged, drawn, left, seenBy>>

Deliver ==
    LET k == transfer.x
    IN  /\ At("compare") /\ Finished
        /\ IF Same(k) THEN got' = [got EXCEPT ![k] = @ \cup {transfer.chunk}]
           ELSE UNCHANGED got
        /\ UNCHANGED <<disk, items, saved, server, work, aged, drawn, left, acked, placed>>

-----------------------------------------------------------------------------
\* Requests of the workspace tools, each under the root's lock from its check to
\* its end.  The version a client names is the one the check finds.

Works(record) ==
    /\ server = "up" /\ Free
    /\ Spend("requests")
    /\ work' = record
    /\ UNCHANGED <<items, saved, server, transfer, aged, drawn, seenBy>>

Does == UNCHANGED <<items, saved, server, transfer, aged, drawn, left, seenBy>>
Ends == work' = Idle

\* write_file with content, a replaced part or delete (there = FALSE).
Write(d, there, bytes) ==
    /\ there \/ tree[d].file.there
    /\ Works([pc |-> "keep", d |-> d, there |-> there, bytes |-> bytes, since |-> clock])
    /\ UNCHANGED disk

KeepWritten ==
    /\ Doing("keep") /\ Kept(work.d)
    /\ work' = [work EXCEPT !.pc = "put"]
    /\ Does /\ UNCHANGED <<tree, bin, clock>>

PutWritten ==
    /\ Doing("put") /\ Ends
    /\ tree' = IF work.there
               THEN [tree EXCEPT ![work.d].there = TRUE, ![work.d].file = New(work.bytes, "host")]
               ELSE [tree EXCEPT ![work.d].file = NoFile]
    /\ clock' = clock + 1
    /\ Does /\ UNCHANGED <<recovery, bin>>

Mkdir(d) ==
    /\ server = "up" /\ Free /\ ~tree[d].there
    /\ Spend("requests")
    /\ tree' = [tree EXCEPT ![d] = EmptyDir]
    /\ UNCHANGED <<recovery, bin, clock, items, saved, server, transfer, work, aged, drawn, seenBy>>

\* _reject_tree: a directory with an active upload in it stays.
Clear(d) == \A u \in Uploads : ~tree[d].staging[u].there

Bare(d) == ~tree[d].file.there /\ Clear(d)

MoveDirectory(d, e) ==
    /\ tree[d].there /\ Clear(d) /\ ~tree[e].there
    /\ Works([pc |-> "move", kind |-> "directory", d |-> d, to |-> e, since |-> clock])
    /\ UNCHANGED disk

MoveFile(d, e) ==
    /\ tree[d].file.there /\ tree[e].there /\ ~tree[e].file.there
    /\ Works([pc |-> "move", kind |-> "file", d |-> d, to |-> e, since |-> clock])
    /\ UNCHANGED disk

\* os.replace: a directory takes the place of nothing or of an empty directory,
\* a file that of any file.
Settles(kind, e) == IF kind = "directory" THEN Bare(e) ELSE tree[e].there

Placed(kind, e, dir) ==
    IF kind = "directory" THEN dir
    ELSE [tree[e] EXCEPT !.file = [dir.file EXCEPT !.stamp = clock + 1]]

Left(kind, d) == IF kind = "directory" THEN NoDir ELSE [tree[d] EXCEPT !.file = NoFile]

StillThere(kind, d) == IF kind = "directory" THEN tree[d].there ELSE tree[d].file.there

Move ==
    /\ Doing("move") /\ Ends
    /\ IF StillThere(work.kind, work.d) /\ Settles(work.kind, work.to)
       THEN /\ tree' = [tree EXCEPT ![work.to] = Placed(work.kind, work.to, tree[work.d]),
                                    ![work.d] = Left(work.kind, work.d)]
            /\ clock' = clock + 1
       ELSE UNCHANGED <<tree, clock>>
    /\ Does /\ UNCHANGED <<recovery, bin>>

\* A container gets its metadata, then the payload.
Trash(kind, d, o) ==
    /\ StillThere(kind, d) /\ (kind = "directory" => Clear(d))
    /\ bin[o].stage = "none"
    /\ Works([pc |-> "trash", kind |-> kind, d |-> d, o |-> o, since |-> clock])
    /\ bin' = [bin EXCEPT ![o] = [stage |-> "made", kind |-> kind, d |-> d]]
    /\ UNCHANGED <<tree, recovery, clock>>

PutPayload ==
    /\ Doing("trash") /\ Ends
    /\ IF StillThere(work.kind, work.d)
       THEN /\ bin' = [bin EXCEPT ![work.o] = [stage |-> "full", kind |-> work.kind, d |-> work.d,
                                               payload |-> tree[work.d]]]
            /\ tree' = [tree EXCEPT ![work.d] = Left(work.kind, work.d)]
       ELSE /\ bin' = [bin EXCEPT ![work.o] = NoBin]
            /\ UNCHANGED tree
    /\ Does /\ UNCHANGED <<recovery, clock>>

Restorable(o) ==
    IF bin[o].kind = "directory" THEN ~tree[bin[o].d].there
    ELSE tree[bin[o].d].there /\ ~tree[bin[o].d].file.there

Restore(o) ==
    /\ Listed(o) /\ Restorable(o)
    /\ Works([pc |-> "restore", o |-> o, since |-> clock])
    /\ UNCHANGED disk

TakePayload ==
    LET now == bin[work.o]
    IN  /\ Doing("restore")
        /\ IF Settles(now.kind, now.d)
           THEN /\ tree' = [tree EXCEPT ![now.d] = Placed(now.kind, now.d, now.payload)]
                /\ clock' = clock + 1
                /\ bin' = [bin EXCEPT ![work.o].stage = "spent"]
                /\ work' = [work EXCEPT !.pc = "clear"]
           ELSE Ends /\ UNCHANGED <<tree, clock, bin>>
        /\ Does /\ UNCHANGED recovery

\* The sweep removes a container file by file, the metadata before or after the rest.
Due(o) == o \in aged

ExpireTrash(o) ==
    /\ server = "up" /\ Free /\ Listed(o) /\ Due(o)
    /\ work' = [pc |-> "remove", o |-> o, since |-> clock]
    /\ UNCHANGED <<disk, items, saved, server, transfer, aged, drawn, left, seenBy>>

RemovePart ==
    /\ Doing("remove")
    /\ \E stage \in {"spent"} \cup {s \in {"full"} : bin[work.o].kind = "directory"} :
          bin' = [bin EXCEPT ![work.o].stage = stage, ![work.o].payload = EmptyDir]
    /\ work' = [work EXCEPT !.pc = "clear"]
    /\ Does /\ UNCHANGED <<tree, recovery, clock>>

ClearContainer ==
    /\ Doing("clear") /\ Ends
    /\ bin' = [bin EXCEPT ![work.o] = [stage |-> "gone"]]
    /\ Does /\ UNCHANGED <<tree, recovery, clock>>

-----------------------------------------------------------------------------
\* The process ends and starts; time passes; other programs edit the root.

ServerEnds ==
    /\ server = "up" /\ Spend("crashes")
    /\ server' = "down" /\ transfer' = Idle /\ work' = Idle
    /\ items' = [x \in Transfers |-> NoItem]
    /\ UNCHANGED <<disk, saved, aged, drawn, seenBy>>

\* _load: the state is refused as a whole unless every upload's staging is there
\* and exactly as long as recorded.
Loadable ==
    \A u \in Uploads : saved[u].there =>
        LET staging == tree[saved[u].d].staging[u]
        IN  staging.there /\ Len(staging.bytes) = saved[u].offset

ServerStarts ==
    /\ server = "down"
    /\ IF Loadable THEN server' = "up" /\ items' = saved
       ELSE server' = "refused" /\ UNCHANGED items
    /\ UNCHANGED <<disk, saved, transfer, work, aged, drawn, left, seenBy>>

TimePasses(x) ==
    /\ x \notin aged
    /\ IF x \in Transfers THEN saved[x].there ELSE Listed(x)
    /\ Spend("ages") /\ aged' = aged \cup {x}
    /\ UNCHANGED <<disk, items, saved, server, transfer, work, drawn, seenBy>>

Edits(changed) ==
    /\ Spend("edits")
    /\ tree' = changed /\ clock' = clock + 1
    /\ UNCHANGED <<recovery, bin, items, saved, server, transfer, work, aged, drawn, seenBy>>

EditorWrites(d, bytes) ==
    tree[d].there /\ Edits([tree EXCEPT ![d].file = New(bytes, "editor")])
EditorDeletes(d) ==
    tree[d].file.there /\ Edits([tree EXCEPT ![d].file = [New(<<>>, "editor") EXCEPT !.there = FALSE]])
EditorRemoves(d) ==
    tree[d].there /\ Edits([tree EXCEPT ![d] = NoDir])

TransferNext ==
    \/ \E u \in Uploads, d \in Dirs, size \in 0..MaxSize : BeginUpload(u, d, size)
    \/ CreateStaging \/ Record
    \/ \E u \in Uploads, offset \in 0..(MaxSize - 1), byte \in Bytes : Chunk(u, offset, byte)
    \/ RecordOffset
    \/ \E u \in Uploads : Commit(u)
    \/ CheckTarget \/ KeepTarget \/ ReplaceTarget
    \/ \E x \in Transfers : CancelTransfer(x)
    \/ ExpireTransfers \/ Save
    \/ \E k \in Downloads, d \in Dirs : BeginDownload(k, d)
    \/ \E k \in Downloads, offset \in 0..(MaxSize - 1) : OpenDownload(k, offset)
    \/ ReadDownload \/ Deliver

WorkNext ==
    \/ \E d \in Dirs, bytes \in Drafts : Write(d, TRUE, bytes)
    \/ \E d \in Dirs : Write(d, FALSE, <<>>) \/ Mkdir(d)
    \/ KeepWritten \/ PutWritten
    \/ \E d, e \in Dirs : MoveDirectory(d, e) \/ MoveFile(d, e)
    \/ Move
    \/ \E kind \in {"directory", "file"}, d \in Dirs, o \in Bins : Trash(kind, d, o)
    \/ PutPayload
    \/ \E o \in Bins : Restore(o) \/ ExpireTrash(o)
    \/ TakePayload \/ RemovePart \/ ClearContainer

OutsideNext ==
    \/ ServerEnds \/ ServerStarts
    \/ \E x \in Transfers \cup Bins : TimePasses(x)
    \/ \E d \in Dirs : EditorDeletes(d) \/ EditorRemoves(d)
    \/ \E d \in Dirs, bytes \in Drafts : EditorWrites(d, bytes)

FilesNext == TransferNext \/ WorkNext \/ OutsideNext
FilesSpec == FilesInit /\ [][FilesNext]_fileVars

-----------------------------------------------------------------------------
(***************************************************************************)
(* What must hold.                                                         *)
(***************************************************************************)

\* A commit puts exactly the acknowledged chunks in place (transfers.py
\* write_chunk, commit), through repeated chunks, restarts and moved staging, and
\* in the place of the version the upload was begun for, unless another program
\* wrote after the commit's check.
CommitIsAsAgreed ==
    \A u \in Uploads : placed[u].there =>
        /\ Len(placed[u].bytes) = placed[u].item.size
        /\ \A chunk \in acked[u] : placed[u].bytes[chunk[1] + 1] = chunk[2]
        /\ {chunk[1] : chunk \in acked[u]} \subseteq 0..(placed[u].item.size - 1)
        /\ \/ Version(placed[u].over) = placed[u].item.expected
           \/ placed[u].over.by = "editor" /\ placed[u].over.stamp > placed[u].since

\* And all that one download delivers, over every chunk, retry and restart, is of
\* the one version its client was told (transfers.py read_chunk).
DownloadIsOneVersion ==
    \A k \in Downloads : \A c1, c2 \in got[k] :
        /\ c1[1] = c2[1] => c1 = c2
        /\ items[k].there => items[k].pinned.bytes[c1[1] + 1] = c1[2]

TransfersAreWhole == CommitIsAsAgreed /\ DownloadIsOneVersion

\* No step of the Host loses a file's content: it is in the root, in the trash or
\* in the recovery copy of its path, unless another program wrote it after the
\* request's check or the trash had kept it for its time.
Since == IF work # Idle THEN work.since
         ELSE IF transfer.pc \in {"keep", "replace"} THEN transfer.since ELSE clock

Somewhere(d, bytes) ==
    \/ \E f \in Existing : f.bytes = bytes
    \/ recovery[d].there /\ recovery[d].bytes = bytes

NothingVanishes ==
    [][left.edits = left'.edits =>
        \A bytes \in Contents :
            /\ \A d \in Dirs :
                  LET file == tree[d].file
                  IN  \/ ~file.there \/ file.bytes # bytes
                      \/ file.by = "editor" /\ file.stamp > Since
                      \/ Somewhere(d, bytes)'
            /\ \A o \in Bins :
                  InBin(o) /\ o \notin aged /\ bin[o].payload.file.bytes = bytes =>
                      \E d \in Dirs : Somewhere(d, bytes)'
      ]_fileVars

\* Types.
Files == [there : BOOLEAN, bytes : Seq(Bytes), stamp : Nat, by : {"host", "editor"}]
Stagings == {NoStaging} \cup [there : {TRUE}, bytes : Seq(Bytes)]
Directories == [there : BOOLEAN, file : Files, staging : [Uploads -> Stagings]]
Kinds == {"directory", "file"}
Chunks == Nat \X Bytes

Containers ==
    {NoBin, [stage |-> "gone"]} \cup [stage : {"made"}, kind : Kinds, d : Dirs]
      \cup [stage : {"full", "spent"}, kind : Kinds, d : Dirs, payload : Directories]

UploadItems == [there : {TRUE}, d : Dirs, size : 0..MaxSize, offset : Nat,
                expected : BOOLEAN \X Seq(Bytes)]
DownloadItems == [there : {TRUE}, d : Dirs, pinned : Files]
Commits == [there : {TRUE}, bytes : Seq(Bytes), item : UploadItems, over : Files, since : Nat]

DiskOK ==
    /\ tree \in [Dirs -> Directories] /\ recovery \in [Dirs -> Files]
    /\ bin \in [Bins -> Containers] /\ clock \in Nat
    /\ left \in [requests : Nat, edits : Nat, crashes : Nat, ages : Nat]
    /\ server \in {"up", "down", "refused"} /\ aged \subseteq Transfers \cup Bins

ItemsOK ==
    /\ items \in [Transfers -> {NoItem} \cup UploadItems \cup DownloadItems]
    /\ saved \in [Transfers -> {NoItem} \cup UploadItems \cup DownloadItems]
    /\ \A u \in Uploads : {items[u], saved[u]} \subseteq {NoItem} \cup UploadItems
    /\ \A k \in Downloads : {items[k], saved[k]} \subseteq {NoItem} \cup DownloadItems
    /\ drawn \subseteq Transfers
    /\ acked \in [Uploads -> SUBSET Chunks] /\ got \in [Downloads -> SUBSET Chunks]
    /\ placed \in [Uploads -> {NotPlaced} \cup Commits]

TransferOK ==
    \/ transfer \in {Idle, [pc |-> "save"]}
    \/ transfer \in [pc : {"create", "record"}, x : Uploads, item : UploadItems]
    \/ transfer \in [pc : {"appended"}, x : Uploads, chunk : Chunks]
    \/ transfer \in [pc : {"lock"}, x : Uploads]
    \/ transfer \in [pc : {"keep", "replace"}, x : Uploads, since : Nat]
    \/ transfer \in [pc : {"read"}, x : Downloads, offset : Nat, file : Files]
    \/ transfer \in [pc : {"compare"}, x : Downloads, chunk : Chunks]

WorkOK ==
    \/ work = Idle
    \/ work \in [pc : {"keep", "put"}, d : Dirs, there : BOOLEAN, bytes : Seq(Bytes), since : Nat]
    \/ work \in [pc : {"move"}, kind : Kinds, d : Dirs, to : Dirs, since : Nat]
    \/ work \in [pc : {"trash"}, kind : Kinds, d : Dirs, o : Bins, since : Nat]
    \/ work \in [pc : {"restore", "remove", "clear"}, o : Bins, since : Nat]

FilesTypeOK == DiskOK /\ ItemsOK /\ TransferOK /\ WorkOK

\* The inductive invariant of the proofs.  Times tell contents apart: files of one
\* stamp are equal, and so is a file with the stamp of what a download is pinned to.
Agrees(f) == f.stamp <= clock /\ \A g \in Existing : g.stamp = f.stamp => g.bytes = f.bytes

StampsHold == \A f \in Existing : Agrees(f)

\* The staging of an upload is in one place at most, in the root or the trash.
StagedIn(u, o) == /\ Listed(o) /\ bin[o].kind = "directory"
                  /\ bin[o].payload.staging[u].there

Held(u) ==
    {tree[d].staging[u].bytes : d \in {e \in Dirs : tree[e].staging[u].there}}
      \cup {bin[o].payload.staging[u].bytes : o \in {p \in Bins : StagedIn(u, p)}}

Alone(u) ==
    /\ \A d, e \in Dirs : tree[d].staging[u].there /\ tree[e].staging[u].there => d = e
    /\ \A o, p \in Bins : StagedIn(u, o) /\ StagedIn(u, p) => o = p
    /\ \A d \in Dirs, o \in Bins : ~(tree[d].staging[u].there /\ StagedIn(u, o))

\* It has what was acknowledged, and as many chunks as the upload's offset says;
\* once it is carried to its target or removed, no other takes its place.
Has(bytes, chunk) == chunk[1] < Len(bytes) /\ bytes[chunk[1] + 1] = chunk[2]

Untouched(u) ==
    acked[u] = {} /\ ~placed[u].there /\ ~items[u].there /\ ~saved[u].there

UploadTells(u) ==
    /\ Alone(u)
    /\ u \notin drawn => Untouched(u) /\ Held(u) = {}
    /\ items[u].there => \A bytes \in Held(u) : Len(bytes) = items[u].offset
    /\ \A bytes \in Held(u) : \A chunk \in acked[u] : Has(bytes, chunk)
    /\ placed[u].there => Held(u) = {} /\ ~items[u].there

\* All that a download has delivered is of the file it is pinned to.
PinnedTo(k, f) == Agrees(f) /\ \A chunk \in got[k] : Has(f.bytes, chunk)

DownloadTells(k) ==
    /\ k \notin drawn => got[k] = {} /\ ~items[k].there /\ ~saved[k].there
    /\ items[k].there => PinnedTo(k, items[k].pinned)
    /\ saved[k].there => PinnedTo(k, saved[k].pinned)
    /\ items[k].there /\ saved[k].there => items[k].pinned = saved[k].pinned
    /\ \A c1, c2 \in got[k] : c1[1] = c2[1] => c1 = c2

\* What another program has written since a check is its own loss.
EditedSince(f, since) == f.by = "editor" /\ f.stamp > since

Spared(d, since) == tree[d].file.there => EditedSince(tree[d].file, since)

Copied(d, since) ==
    \/ Spared(d, since)
    \/ recovery[d].there /\ recovery[d].bytes = tree[d].file.bytes

BeginTells ==
    LET x == transfer.x
    IN  /\ transfer.pc \in {"create", "record"} =>
              /\ x \in drawn /\ Untouched(x) /\ transfer.item.offset = 0
              /\ transfer.pc = "create" => Held(x) = {}
              /\ \A bytes \in Held(x) : Len(bytes) = 0
        /\ transfer.pc = "appended" =>
              items[x].there /\ \A bytes \in Held(x) : Has(bytes, transfer.chunk)

CommitTells ==
    LET x == transfer.x
    IN  /\ transfer.pc \in {"lock", "keep", "replace"} =>
              items[x].there /\ items[x].offset = items[x].size
        /\ transfer.pc \in {"keep", "replace"} =>
              /\ work = Idle /\ transfer.since <= clock
              /\ Staged(x).there =>
                    \/ Unchanged(x, tree[items[x].d].file)
                    \/ EditedSince(tree[items[x].d].file, transfer.since)
        /\ transfer.pc = "replace" => Copied(items[x].d, transfer.since)

ReadTells ==
    LET x == transfer.x
    IN  /\ transfer.pc = "read" =>
              /\ items[x].there
              /\ transfer.file.bytes = items[x].pinned.bytes
              /\ transfer.file.stamp = items[x].pinned.stamp
        /\ transfer.pc = "compare" =>
              /\ items[x].there
              /\ Rewritten(items[x].pinned) \/ Has(items[x].pinned.bytes, transfer.chunk)

TransferTells ==
    /\ server # "up" => transfer = Idle /\ work = Idle
    /\ BeginTells /\ CommitTells /\ ReadTells

WorkTells ==
    /\ work # Idle => work.since <= clock
    /\ work.pc = "put" => Copied(work.d, work.since)
    /\ work.pc = "move" =>
          work.d # work.to /\ (work.kind = "file" => Spared(work.to, work.since))
    /\ work.pc = "trash" => bin[work.o].stage = "made"
    /\ work.pc \in {"restore", "remove"} => Listed(work.o)
    /\ work.pc = "restore" /\ bin[work.o].kind = "file" => Spared(bin[work.o].d, work.since)
    /\ work.pc = "remove" => work.o \in aged
    /\ work.pc = "clear" => bin[work.o].stage \in {"full", "spent"} /\ ~InBin(work.o)

\* Only a directory that is there holds a file.
Inside ==
    /\ \A d \in Dirs : tree[d].file.there => tree[d].there
    /\ \A o \in Bins : InBin(o) => bin[o].payload.there

FilesInv ==
    /\ FilesTypeOK /\ StampsHold
    /\ \A u \in Uploads : UploadTells(u)
    /\ \A k \in Downloads : DownloadTells(k)
    /\ TransferTells /\ WorkTells /\ CommitIsAsAgreed
=============================================================================
