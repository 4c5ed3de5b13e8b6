--------------------------- MODULE LocalContexts ---------------------------
(***************************************************************************)
(* The local Corpus engine's registrations and saved context               *)
(* (engines/corpus: contexts.py, database.py, service.py, workspaces.py):  *)
(* the catalog of corpora, the contexts with their versions and items,     *)
(* linked sources observed page by page in runs, and the work folders a    *)
(* context makes editable.  The rows live in three databases.              *)
(*                                                                         *)
(* Every write is one transaction under context_writer_lock or the         *)
(* registry's locks, so a write is one action here.  What interleaves are  *)
(* the requests: a client reads a version or a page of its source, and     *)
(* what it then sends arrives late, out of order, or again and again; a    *)
(* refresh reads the provider's files between its own writes.              *)
(***************************************************************************)
EXTENDS Integers, FiniteSets

CONSTANTS
    Corpora, Contexts, Bindings, Externals, RunIds, WorkFolders, Units,
    Places,       \* directories that may be a source's or a folder's root
    Within,       \* the pairs of places of which the first is inside the second
    Nothing,      \* no corpus, run, place, context, ...
    SessionBound, \* bindings whose provider is a local session store
    Normal,       \* the form normalize_session_selector gives each selector
    Requests,     \* the requests a client may make
    Form,         \* what each request asks, as a record
    Plans,        \* the sets of requests of which one is made in a behaviour
    PageSize,     \* CONTEXT_MAX_EXTERNAL_RECORDS_PER_UPDATE
    MaxLives,     \* how often one context id is created
    MaxOutside    \* changes of the sources outside

Selectors == DOMAIN Normal
Keys == Bindings \X Externals
Metas == 0..MaxOutside         \* versions of a record's metadata; 0: id alone

\* The operations that name a context, a linked source, a corpus, a folder, a place.
Writing == {"create", "append", "supersede", "revise", "archive"}
OfContext == Writing \cup {"connect"}
OfBinding == {"bind", "observe", "refresh"}
OfCorpus == {"bind", "register", "rebind_source", "unregister"}
OfFolder == {"connect", "rebind_folder", "disconnect"}
OfPlace == {"register", "rebind_source", "connect", "rebind_folder"}

\* What the validation of a request lets through: an item that claims something
\* cites a source directly, a session's record is never named by its id alone.
ItemForm(q) ==
    /\ q.direct \subseteq q.links /\ q.links \subseteq Keys
    /\ q.kind \in {"finding", "relationship", "difference"} => q.direct \cup q.units # {}

PageForm(q) ==
    /\ q.externals \subseteq Externals /\ {q.bare, q.complete} \subseteq BOOLEAN
    /\ q.binding \in SessionBound => ~q.bare

\* And every name is one of its kind.
NamesForm(q) ==
    /\ q.op \in OfContext => q.context \in Contexts
    /\ q.op \in OfBinding => q.binding \in Bindings
    /\ q.op \in {"observe", "refresh"} => q.run \in RunIds
    /\ q.op \in OfCorpus => q.corpus \in Corpora
    /\ q.op \in OfFolder => q.folder \in WorkFolders
    /\ q.op \in OfPlace => q.root \in Places
    /\ q.op = "bind" => q.selector \in Selectors
    /\ q.op = "create" => q.corpora \subseteq Corpora
    /\ q.op = "rebind_source" => q.expected \in Places
    /\ q.op = "unregister" => q.context \in Contexts \cup {Nothing}

ASSUME ContextAssumption ==
    /\ {PageSize, MaxOutside} \subseteq Nat \ {0} /\ MaxLives \in Nat
    /\ Nothing \notin Corpora \cup Contexts \cup Bindings \cup RunIds \cup Places \cup Requests
    /\ \A s \in Selectors : Normal[s] \in Selectors
    /\ Plans \subseteq SUBSET Requests
    /\ \A r \in Requests :
          /\ NamesForm(Form[r])
          /\ Form[r].op \in {"append", "supersede"} => ItemForm(Form[r])
          /\ Form[r].op = "observe" => PageForm(Form[r])

VARIABLES
    plan,      \* the requests of this behaviour
    sent,      \* what a client read before it sent a request
    catalog,   \* corpora: the place each corpus is registered at
    contexts,  \* contexts and context_corpora
    items,     \* context_items with their links, by the request that added them
    bindings,  \* corpus_source_bindings
    runs,      \* external_source_runs
    linked,    \* external_source_records
    folders,   \* workspaces.sqlite3
    refresh,   \* refreshes under way, by their run
    source,    \* the provider's records: version, and whether too old to discover
    stale,     \* source units that are no longer current in the index
    edited,    \* what the bound on changes outside counts
    effects    \* how often a request changed the context that now exists

saved == <<contexts, items>>
history == <<bindings, runs, linked>>
registered == <<catalog, folders>>
outside == <<source, stale, edited>>
contextVars == <<plan, sent, catalog, contexts, items, bindings, runs, linked,
                 folders, refresh, source, stale, edited, effects>>

NoContext == [state |-> "none", version |-> 0, corpora |-> {}, made |-> Nothing, life |-> 0]
NoItem == [context |-> Nothing, life |-> 0, ref |-> Nothing, made |-> Nothing,
           text |-> Nothing, links |-> {}]
NoBinding == [corpus |-> Nothing, selector |-> Nothing, complete |-> Nothing]
NoRun == [status |-> "none", binding |-> Nothing, base |-> Nothing, superseded |-> FALSE]
NoRecord == [member |-> "none", seen |-> Nothing, meta |-> 0]
NoFolder == [context |-> Nothing, root |-> Nothing]
NoPage == [e \in {} |-> 0]
Part(page, part) == [e \in part |-> page[e]]
NotRefreshing == [pc |-> "idle", binding |-> Nothing, selector |-> Nothing,
                  pages |-> NoPage, complete |-> FALSE]
Unsent == [sent |-> FALSE, version |-> 0, target |-> Nothing, life |-> 0, page |-> NoPage]

ContextInit ==
    /\ plan \in Plans
    /\ sent = [r \in Requests |-> Unsent]
    /\ catalog = [c \in Corpora |-> Nothing]
    /\ contexts = [x \in Contexts |-> NoContext]
    /\ items = [r \in Requests |-> NoItem]
    /\ bindings = [b \in Bindings |-> NoBinding]
    /\ runs = [r \in RunIds |-> NoRun]
    /\ linked = [k \in Keys |-> NoRecord]
    /\ folders = [f \in WorkFolders |-> NoFolder]
    /\ refresh = [r \in RunIds |-> NotRefreshing]
    /\ source = [e \in Externals |-> [meta |-> 1, aged |-> FALSE]]
    /\ stale = {} /\ edited = 1
    /\ effects = [r \in Requests |-> 0]

-----------------------------------------------------------------------------
\* What outlives the history: a write first removes derived state no row needs.

Cited == {l.record : l \in UNION {items[r].links : r \in Requests}}

PrunedRecords ==
    [k \in Keys |-> IF linked[k].member = "removed" /\ k \notin Cited
                    THEN NoRecord ELSE linked[k]]

Needed_Complete == {bindings[b].complete : b \in Bindings}
Needed == {bindings[b].complete : b \in Bindings}
          \cup {PrunedRecords[k].seen : k \in {n \in Keys : PrunedRecords[n] # NoRecord}}

PrunedRuns ==
    [r \in RunIds |->
        IF runs[r] = NoRun \/ r \notin Needed THEN NoRun
        ELSE IF runs[r].status = "complete" \/ runs[r].superseded
             THEN [runs[r] EXCEPT !.base = Nothing] ELSE runs[r]]

Prune == linked' = PrunedRecords /\ runs' = PrunedRuns

-----------------------------------------------------------------------------
\* Linked sources.

Registered(c) == catalog[c] # Nothing
Bound(b) == bindings[b] # NoBinding

\* The form a selector is stored in: where its directory is found by identity.
Canonical(s) == Normal[s]

Requested(op) == {r \in plan : Form[r].op = op}

\* A retry of the same input is answered as the first call was; another one is
\* refused without a change.
Bind(r) ==
    /\ Registered(Form[r].corpus)
    /\ LET row == [corpus |-> Form[r].corpus, selector |-> Canonical(Form[r].selector),
                   complete |-> Nothing]
           taken == \E b \in Bindings : /\ bindings[b].corpus = Form[r].corpus
                                        /\ bindings[b].selector = row.selector
       IN  \/ /\ Bound(Form[r].binding)
              /\ bindings[Form[r].binding].corpus = row.corpus
              /\ bindings[Form[r].binding].selector = row.selector
              /\ UNCHANGED bindings
           \/ /\ ~Bound(Form[r].binding) /\ ~taken
              /\ bindings' = [bindings EXCEPT ![Form[r].binding] = row]
    /\ Prune
    /\ UNCHANGED <<plan, sent, saved, registered, refresh, outside, effects>>

\* The refusals of an observation: no active binding, another binding's run,
\* a superseded run, a run that began before the last complete one.
Refused(b, run) ==
    \/ ~Bound(b)
    \/ LET row == PrunedRuns[run]
       IN  /\ row # NoRun
           /\ \/ row.binding # b
              \/ /\ row.status = "incomplete"
                 /\ row.superseded \/ row.base # bindings[b].complete

Replayed(b, run) == PrunedRuns[run].binding = b /\ PrunedRuns[run].status = "complete"

\* A new run supersedes the runs of the binding that are still open.
Opened_Beside(b, run) ==
    IF PrunedRuns[run] # NoRun THEN PrunedRuns
    ELSE [PrunedRuns EXCEPT ![run] =
             [status |-> "incomplete", binding |-> b,
              base |-> bindings[b].complete, superseded |-> FALSE]]
Opened(b, run) ==
    IF PrunedRuns[run] # NoRun THEN PrunedRuns
    ELSE [q \in RunIds |->
             IF q = run
             THEN [status |-> "incomplete", binding |-> b,
                   base |-> bindings[b].complete, superseded |-> FALSE]
             ELSE IF PrunedRuns[q].binding = b /\ PrunedRuns[q].status = "incomplete"
                  THEN [PrunedRuns[q] EXCEPT !.superseded = TRUE] ELSE PrunedRuns[q]]

\* A record named by its id alone keeps the metadata known of it.
Seen(b, run, page) ==
    [k \in Keys |->
        IF k[1] = b /\ k[2] \in DOMAIN page
        THEN [member |-> "active", seen |-> run,
              meta |-> IF page[k[2]] = 0 THEN PrunedRecords[k].meta ELSE page[k[2]]]
        ELSE PrunedRecords[k]]

\* The page that completes a run removes what the run has not seen.
Settled(b, run, rows) ==
    [k \in Keys |-> IF k[1] = b /\ rows[k].member = "active" /\ rows[k].seen # run
                    THEN [rows[k] EXCEPT !.member = "removed"] ELSE rows[k]]

Observed(b, run, page, complete) ==
    IF Replayed(b, run)
    THEN Prune /\ UNCHANGED bindings
    ELSE IF complete
    THEN /\ linked' = Settled(b, run, Seen(b, run, page))
         /\ runs' = [Opened(b, run) EXCEPT ![run].status = "complete"]
         /\ bindings' = [bindings EXCEPT ![b].complete = run]
    ELSE /\ linked' = Seen(b, run, page)
         /\ runs' = Opened(b, run)
         /\ UNCHANGED bindings

\* A page a client read from its provider arrives: at any time, any number of times.
ObservePage(r) ==
    /\ sent[r].sent /\ ~Refused(Form[r].binding, Form[r].run)
    /\ Observed(Form[r].binding, Form[r].run, sent[r].page, Form[r].complete)
    /\ UNCHANGED <<plan, sent, saved, registered, refresh, outside, effects>>

\* A refresh opens its run with an empty page ...
BeginRefresh(r) ==
    /\ refresh[Form[r].run] = NotRefreshing
    /\ Form[r].binding \in SessionBound /\ ~Refused(Form[r].binding, Form[r].run)
    /\ Observed(Form[r].binding, Form[r].run, NoPage, FALSE)
    /\ refresh' = [refresh EXCEPT ![Form[r].run] =
                     [NotRefreshing EXCEPT !.pc = "opened", !.binding = Form[r].binding,
                                           !.selector = bindings[Form[r].binding].selector]]
    /\ UNCHANGED <<plan, sent, saved, registered, outside, effects>>

\* ... reads the provider's files outside the lock, not always to the end ...
Discovered == [e \in {x \in Externals : source[x].meta # 0 /\ ~source[x].aged} |->
                 source[e].meta]

Discover(run, complete) ==
    /\ refresh[run].pc = "opened"
    /\ refresh' = [refresh EXCEPT ![run].pc = "discovered", ![run].pages = Discovered,
                                  ![run].complete = complete]
    /\ UNCHANGED <<plan, sent, saved, history, registered, outside, effects>>

\* ... writes the selector's new form unless another refresh has written it
\* (the one write that prunes nothing) ...
Renormalise(run) ==
    LET now == refresh[run]
        new == Canonical(now.selector)
        mine == Bound(now.binding) /\ bindings[now.binding].selector = now.selector
        free == \A b \in Bindings \ {now.binding} :
                    \/ bindings[b].corpus # bindings[now.binding].corpus
                    \/ bindings[b].selector # new
    IN  /\ now.pc = "discovered"
        /\ IF new = now.selector
           THEN /\ refresh' = [refresh EXCEPT ![run].pc = "paging"]
                /\ UNCHANGED bindings
           ELSE IF mine /\ free
           THEN /\ bindings' = [bindings EXCEPT ![now.binding].selector = new]
                /\ refresh' = [refresh EXCEPT ![run].pc = "paging"]
           ELSE /\ refresh' = [refresh EXCEPT ![run] = [NotRefreshing EXCEPT !.pc = "over"]]
                /\ UNCHANGED bindings
        /\ UNCHANGED <<plan, sent, saved, runs, linked, registered, outside, effects>>

\* ... and sends page after page; the last one completes the run.
RefreshPage(run) ==
    LET now == refresh[run]
        Over == refresh' = [refresh EXCEPT ![run] = [NotRefreshing EXCEPT !.pc = "over"]]
    IN  /\ now.pc = "paging"
        /\ \/ /\ Refused(now.binding, run) /\ Over
              /\ UNCHANGED history
           \/ /\ ~Refused(now.binding, run)
              /\ \E next \in SUBSET DOMAIN now.pages :
                    LET last == next = DOMAIN now.pages
                    IN  /\ IF last THEN Cardinality(next) <= PageSize ELSE Cardinality(next) = PageSize
                        /\ Observed(now.binding, run, Part(now.pages, next), now.complete /\ last)
                        /\ IF last THEN Over
                           ELSE refresh' = [refresh EXCEPT ![run].pages =
                                              Part(@, DOMAIN @ \ next)]
        /\ UNCHANGED <<plan, sent, saved, registered, outside, effects>>

-----------------------------------------------------------------------------
\* Saved contexts.  A client reads the version it names, and the item it wants to
\* change or the page of its source it reports, some time before it sends.

Exists(x) == contexts[x].state # "none"
Belongs(i, x) == items[i].context = x

Version(x) == IF x = Nothing THEN 0 ELSE contexts[x].version

Sends(r, reading) ==
    /\ ~sent[r].sent
    /\ sent' = [sent EXCEPT ![r] = [reading EXCEPT !.sent = TRUE]]
    /\ UNCHANGED <<plan, saved, history, registered, refresh, outside, effects>>

SendVersion(r) == Sends(r, [Unsent EXCEPT !.version = Version(Form[r].context)])

SendTarget(r, i) ==
    /\ Belongs(i, Form[r].context)
    /\ Sends(r, [Unsent EXCEPT !.version = Version(Form[r].context), !.target = i,
                               !.life = items[i].life])

\* A page's record carries its metadata, or its id alone.
Reported(r, e) == IF Form[r].bare THEN 0 ELSE source[e].meta

SendPage(r) ==
    LET there == {e \in Form[r].externals : source[e].meta # 0}
    IN  Sends(r, [Unsent EXCEPT !.page =
                    [e \in there |-> Reported(r, e)]])

Expected_Any(r) == TRUE
Expected(r) == contexts[Form[r].context].version = sent[r].version

Took(r) == effects' = [effects EXCEPT ![r] = @ + 1]

\* A context once created is created again only when it was removed; a retry finds it.
Create(r) ==
    /\ \A c \in Form[r].corpora : Registered(c)
    /\ Prune
    /\ \/ /\ Exists(Form[r].context) /\ contexts[Form[r].context].made = Form[r].text
          /\ contexts[Form[r].context].corpora = Form[r].corpora
          /\ UNCHANGED <<contexts, effects>>
       \/ /\ ~Exists(Form[r].context) /\ contexts[Form[r].context].life < MaxLives
          /\ contexts' = [contexts EXCEPT ![Form[r].context] =
                [state |-> "active", version |-> 1, corpora |-> Form[r].corpora,
                 made |-> Form[r].text, life |-> @.life + 1]]
          /\ Took(r)
    /\ UNCHANGED <<plan, sent, items, bindings, registered, refresh, outside>>

\* What an observed source depends on: a record of the context's corpus that is
\* a member, and for a session still reads as it was recorded.
InScope(k, x) == bindings[k[1]].corpus \in contexts[x].corpora

Declared(k, x) == PrunedRecords[k] # NoRecord /\ InScope(k, x)

Fresh(k) == source[k[2]].meta = PrunedRecords[k].meta

Valid(k) ==
    /\ PrunedRecords[k].member = "active"
    /\ k[1] \in SessionBound => Fresh(k)

\* A cited unit is one of its document's current revision and projection.
UnitsCurrent(r) == Form[r].units \cap stale = {}

Current(r) ==
    /\ \A k \in Form[r].links : Declared(k, Form[r].context) /\ (k \in Form[r].direct => Valid(k))
    /\ UnitsCurrent(r)

Links(r) == {[record |-> k, meta |-> PrunedRecords[k].meta] : k \in Form[r].links}

\* The input's hash: what the request says, and of which item it says it.
Input(r) == <<r, sent[r].target, sent[r].life>>

Named(r) == {i \in Requests : Belongs(i, Form[r].context) /\ items[i].ref = Form[r].ref}

Advance(x) == contexts' = [contexts EXCEPT ![x].version = @ + 1]

\* An item is appended, or rewritten in its place.
Wrote(r, i) ==
    items' = [items EXCEPT ![i] =
                [context |-> Form[r].context,
                 life |-> IF Form[r].op = "append" THEN contexts[Form[r].context].life ELSE @.life,
                 ref |-> Form[r].ref, made |-> Input(r), text |-> Form[r].text, links |-> Links(r)]]

WriteItems(r) ==
    /\ sent[r].sent /\ Exists(Form[r].context)
    /\ Prune
    /\ \/ /\ \E i \in Named(r) : items[i].made = Input(r)
          /\ UNCHANGED <<saved, effects>>
       \/ /\ Named(r) = {}
          /\ contexts[Form[r].context].state = "active"
          /\ Expected(r)
          /\ LET i == IF Form[r].op = "append" THEN r ELSE sent[r].target
             IN  /\ Form[r].op = "supersede" => /\ Belongs(i, Form[r].context)
                                          /\ items[i].life = sent[r].life
                 /\ Current(r)
                 /\ Wrote(r, i)
          /\ Advance(Form[r].context) /\ Took(r)
    /\ UNCHANGED <<plan, sent, bindings, registered, refresh, outside>>

\* A revision that changes nothing is answered without a look at the version.
ReviseItems(r) ==
    LET i == sent[r].target
    IN  /\ sent[r].sent /\ contexts[Form[r].context].state = "active"
        /\ Belongs(i, Form[r].context) /\ items[i].life = sent[r].life
        /\ items[i].text # Form[r].text
        /\ Expected(r)
        /\ items' = [items EXCEPT ![i].text = Form[r].text, ![i].made = Input(r)]
        /\ Advance(Form[r].context) /\ Took(r)
        /\ UNCHANGED <<plan, sent, history, registered, refresh, outside>>

Archive(r) ==
    /\ sent[r].sent /\ Exists(Form[r].context)
    /\ Prune
    /\ \/ /\ contexts[Form[r].context].state = "archived"
          /\ UNCHANGED <<contexts, effects>>
       \/ /\ contexts[Form[r].context].state = "active"
          /\ Expected(r)
          /\ contexts' = [contexts EXCEPT ![Form[r].context].state = "archived",
                                          ![Form[r].context].version = @ + 1]
          /\ Took(r)
    /\ UNCHANGED <<plan, sent, items, bindings, registered, refresh, outside>>

-----------------------------------------------------------------------------
\* Registrations.  Sources and folders may share a place, never lie partly in
\* each other; folders share nothing.

Overlap(p, q) == p = q \/ <<p, q>> \in Within \/ <<q, p>> \in Within
PartlyOverlap(p, q) == <<p, q>> \in Within \/ <<q, p>> \in Within

OutsideFolders(p) ==
    \A f \in WorkFolders : folders[f] # NoFolder => ~PartlyOverlap(p, folders[f].root)

Free(p, c) == \A d \in Corpora \ {c} : catalog[d] # p

Register(r) ==
    /\ catalog[Form[r].corpus] \in {Nothing, Form[r].root}
    /\ OutsideFolders(Form[r].root) /\ Free(Form[r].root, Form[r].corpus)
    /\ catalog' = [catalog EXCEPT ![Form[r].corpus] = Form[r].root]
    /\ UNCHANGED <<plan, sent, saved, history, folders, refresh, outside, effects>>

RebindSource(r) ==
    /\ catalog[Form[r].corpus] = Form[r].expected
    /\ OutsideFolders(Form[r].root) /\ Free(Form[r].root, Form[r].corpus)
    /\ catalog' = [catalog EXCEPT ![Form[r].corpus] = Form[r].root]
    /\ UNCHANGED <<plan, sent, saved, history, folders, refresh, outside, effects>>

\* A folder may be the root of a source only for a context over that source.
SafeSourceOverlap(p, x) ==
    \A c \in Corpora : Registered(c) =>
        /\ ~PartlyOverlap(p, catalog[c])
        /\ p = catalog[c] => c \in contexts[x].corpora

Apart(p, f) ==
    \A g \in WorkFolders \ {f} : folders[g] # NoFolder => ~Overlap(p, folders[g].root)

Connect(r) ==
    /\ contexts[Form[r].context].state = "active" /\ SafeSourceOverlap(Form[r].root, Form[r].context)
    /\ folders[Form[r].folder] = NoFolder
    /\ \A f \in WorkFolders : folders[f].context # Form[r].context
    /\ Apart(Form[r].root, Form[r].folder)
    /\ folders' = [folders EXCEPT ![Form[r].folder] = [context |-> Form[r].context, root |-> Form[r].root]]
    /\ UNCHANGED <<plan, sent, catalog, saved, history, refresh, outside, effects>>

RebindFolder(r) ==
    LET x == folders[Form[r].folder].context
    IN  /\ folders[Form[r].folder] # NoFolder /\ folders[Form[r].folder].root = Form[r].expected
        /\ contexts[x].state = "active" /\ SafeSourceOverlap(Form[r].root, x)
        /\ Apart(Form[r].root, Form[r].folder)
        /\ folders' = [folders EXCEPT ![Form[r].folder].root = Form[r].root]
        /\ UNCHANGED <<plan, sent, catalog, saved, history, refresh, outside, effects>>

Disconnect(r) ==
    /\ folders[Form[r].folder] # NoFolder
    /\ folders' = [folders EXCEPT ![Form[r].folder] = NoFolder]
    /\ UNCHANGED <<plan, sent, catalog, saved, history, refresh, outside, effects>>

\* Rows of the context database that name a corpus.
References(c) ==
    \/ \E x \in Contexts : c \in contexts[x].corpora
    \/ \E b \in Bindings : bindings[b].corpus = c
    \/ \E l \in UNION {items[i].links : i \in Requests} : bindings[l.record[1]].corpus = c

\* The one context over the corpus goes with its items, and the corpus's linked
\* sources with their runs and records.
LinkedContexts(c) == {x \in Contexts : Exists(x) /\ c \in contexts[x].corpora}

Removable(c, x, version) ==
    /\ LinkedContexts(c) = {x}
    /\ contexts[x].state = "archived" /\ contexts[x].version = version
    /\ \A i \in Requests : \A l \in items[i].links :
          bindings[l.record[1]].corpus = c => Belongs(i, x)

RemoveContext(c, x) ==
    LET gone == {b \in Bindings : bindings[b].corpus = c}
    IN  /\ contexts' = [contexts EXCEPT ![x] = [NoContext EXCEPT !.life = contexts[x].life]]
        /\ items' = [i \in Requests |-> IF Belongs(i, x) THEN NoItem ELSE items[i]]
        /\ effects' = [r \in Requests |->
              IF Form[r].op \in Writing /\ Form[r].context = x THEN 0 ELSE effects[r]]
        /\ bindings' = [b \in Bindings |-> IF b \in gone THEN NoBinding ELSE bindings[b]]
        /\ runs' = [q \in RunIds |-> IF runs[q].binding \in gone THEN NoRun ELSE runs[q]]
        /\ linked' = [k \in Keys |-> IF k[1] \in gone THEN NoRecord ELSE linked[k]]

\* No work folder is at the corpus's root or has the context.
Unused(c, x) ==
    \A f \in WorkFolders : folders[f] # NoFolder =>
        folders[f].root # catalog[c] /\ folders[f].context # x

\* The context database commits first, and the process may end before the catalog.
Unregister(r) ==
    /\ sent[r].sent /\ Registered(Form[r].corpus)
    /\ Unused(Form[r].corpus, Form[r].context)
    /\ \/ /\ ~References(Form[r].corpus) /\ Form[r].context = Nothing
          /\ catalog' = [catalog EXCEPT ![Form[r].corpus] = Nothing]
          /\ UNCHANGED <<saved, history, effects>>
       \/ /\ Form[r].context # Nothing
          /\ Removable(Form[r].corpus, Form[r].context, sent[r].version)
          /\ RemoveContext(Form[r].corpus, Form[r].context)
          /\ \/ catalog' = [catalog EXCEPT ![Form[r].corpus] = Nothing]
             \/ UNCHANGED catalog
    /\ UNCHANGED <<plan, sent, folders, refresh, outside>>

-----------------------------------------------------------------------------
\* Outside: the provider's records change, go or grow too old to be discovered;
\* a document changes.

Edit == edited < MaxOutside /\ edited' = edited + 1

SourceChanges(e, meta) ==
    /\ Edit /\ source[e].meta # 0 /\ meta \in {0, edited + 1}
    /\ source' = [source EXCEPT ![e].meta = meta]
    /\ UNCHANGED <<plan, sent, saved, history, registered, refresh, stale, effects>>

SourceAges(e) ==
    /\ Edit /\ ~source[e].aged
    /\ source' = [source EXCEPT ![e].aged = TRUE]
    /\ UNCHANGED <<plan, sent, saved, history, registered, refresh, stale, effects>>

UnitChanges(u) ==
    /\ Edit /\ u \notin stale /\ stale' = stale \cup {u}
    /\ UNCHANGED <<plan, sent, saved, history, registered, refresh, source, effects>>

ContextNext ==
    \/ \E r \in Requested("append") \cup Requested("archive") \cup Requested("unregister") :
          SendVersion(r)
    \/ \E r \in Requested("supersede") \cup Requested("revise"), i \in plan : SendTarget(r, i)
    \/ \E r \in Requested("observe") : SendPage(r)
    \/ \E r \in Requested("bind") : Bind(r)
    \/ \E r \in Requested("observe") : ObservePage(r)
    \/ \E r \in Requested("refresh") : BeginRefresh(r)
    \/ \E run \in RunIds, complete \in BOOLEAN : Discover(run, complete)
    \/ \E run \in RunIds : Renormalise(run) \/ RefreshPage(run)
    \/ \E r \in Requested("create") : Create(r)
    \/ \E r \in Requested("append") \cup Requested("supersede") : WriteItems(r)
    \/ \E r \in Requested("revise") : ReviseItems(r)
    \/ \E r \in Requested("archive") : Archive(r)
    \/ \E r \in Requested("register") : Register(r)
    \/ \E r \in Requested("rebind_source") : RebindSource(r)
    \/ \E r \in Requested("connect") : Connect(r)
    \/ \E r \in Requested("rebind_folder") : RebindFolder(r)
    \/ \E r \in Requested("disconnect") : Disconnect(r)
    \/ \E r \in Requested("unregister") : Unregister(r)
    \/ \E e \in Externals, meta \in 0..MaxOutside : SourceChanges(e, meta)
    \/ \E e \in Externals : SourceAges(e)
    \/ \E u \in Units : UnitChanges(u)

ContextSpec == ContextInit /\ [][ContextNext]_contextVars

-----------------------------------------------------------------------------
(***************************************************************************)
(* What must hold.                                                         *)
(***************************************************************************)

\* No row refers to a row that is gone: runs, records and links within the
\* context database, whose foreign keys would otherwise refuse every later write,
\* and between the three databases, which no foreign key reaches.
RunsHold ==
    \A r \in RunIds : runs[r] # NoRun =>
        /\ Bound(runs[r].binding)
        /\ runs[r].base # Nothing => runs[runs[r].base] # NoRun

RecordsHold ==
    \A k \in Keys : linked[k] # NoRecord =>
        /\ Bound(k[1]) /\ runs[linked[k].seen] # NoRun
        /\ runs[linked[k].seen].binding = k[1]

LinksHold ==
    \A i \in Requests : items[i] # NoItem =>
        /\ Exists(items[i].context)
        /\ \A l \in items[i].links : linked[l.record] # NoRecord

CorporaHold ==
    /\ \A x \in Contexts : \A c \in contexts[x].corpora : Registered(c)
    /\ \A b \in Bindings : Bound(b) =>
          /\ Registered(bindings[b].corpus)
          /\ bindings[b].complete # Nothing => runs[bindings[b].complete].status = "complete"

\* A connected folder has its context, is the only one of it, lies apart from the
\* other folders and in no part inside a source or around one.
FoldersHold ==
    \A f \in WorkFolders : folders[f] # NoFolder =>
        /\ Exists(folders[f].context)
        /\ \A g \in WorkFolders \ {f} : folders[g] # NoFolder =>
              /\ folders[g].context # folders[f].context
              /\ ~Overlap(folders[g].root, folders[f].root)
        /\ \A c \in Corpora : Registered(c) => ~PartlyOverlap(folders[f].root, catalog[c])

ReferencesHold == RunsHold /\ RecordsHold /\ LinksHold /\ CorporaHold /\ FoldersHold

\* Membership is what the runs saw: what the last complete run saw is a member,
\* and a member was seen by it or by a run that is not complete; one run at most
\* is open for a binding, and it began after the last complete one.
Open(r) == runs[r].status = "incomplete" /\ ~runs[r].superseded

MembersWereSeen ==
    /\ \A k \in Keys :
          /\ linked[k].member = "active" =>
                \/ linked[k].seen = bindings[k[1]].complete
                \/ runs[linked[k].seen].status = "incomplete"
          /\ linked[k].member = "removed" => linked[k].seen # bindings[k[1]].complete
    /\ \A r \in RunIds : Open(r) =>
          /\ runs[r].base = bindings[runs[r].binding].complete
          /\ \A q \in RunIds \ {r} : Open(q) => runs[q].binding # runs[r].binding

\* However often a request arrives, and whatever happened to its item in between,
\* a context that exists is changed by it once at most.
TakesEffectOnce == \A r \in Requests : effects[r] <= 1

-----------------------------------------------------------------------------
(***************************************************************************)
(* What the proofs need.                                                   *)
(***************************************************************************)

\* Types.
Texts == {Form[r].text : r \in {q \in Requests : Form[q].op \in Writing \ {"archive"}}}
Refs == {Form[r].ref : r \in {q \in Requests : Form[q].op \in {"append", "supersede"}}}
Inputs == Requests \X (Requests \cup {Nothing}) \X Nat
Pages == UNION {[part -> Metas] : part \in SUBSET Externals}
RunNames == RunIds \cup {Nothing}

ContextRows == [state : {"none", "active", "archived"}, version : Nat,
                corpora : SUBSET Corpora, made : Texts \cup {Nothing}, life : Nat]
Items == [context : Contexts, life : Nat, ref : Refs, made : Inputs, text : Texts,
          links : SUBSET [record : Keys, meta : Metas]]
BindingRows == [corpus : Corpora, selector : Selectors, complete : RunNames]
RunRows == [status : {"incomplete", "complete"}, binding : Bindings, base : RunNames,
            superseded : BOOLEAN]
RecordRows == [member : {"active", "removed"}, seen : RunIds, meta : Metas]
FolderRows == [context : Contexts, root : Places]
Refreshes == [pc : {"idle", "opened", "discovered", "paging", "over"},
              binding : Bindings \cup {Nothing}, selector : Selectors \cup {Nothing},
              pages : Pages, complete : BOOLEAN]
Readings == [sent : BOOLEAN, version : Nat, target : Requests \cup {Nothing}, life : Nat,
             page : Pages]

ContextTypeOK ==
    /\ plan \subseteq Requests
    /\ sent \in [Requests -> Readings]
    /\ catalog \in [Corpora -> Places \cup {Nothing}]
    /\ contexts \in [Contexts -> ContextRows]
    /\ items \in [Requests -> Items \cup {NoItem}]
    /\ bindings \in [Bindings -> BindingRows \cup {NoBinding}]
    /\ runs \in [RunIds -> RunRows \cup {NoRun}]
    /\ linked \in [Keys -> RecordRows \cup {NoRecord}]
    /\ folders \in [WorkFolders -> FolderRows \cup {NoFolder}]
    /\ refresh \in [RunIds -> Refreshes]
    /\ source \in [Externals -> [meta : Metas, aged : BOOLEAN]]
    /\ stale \subseteq Units /\ edited \in 1..MaxOutside
    /\ effects \in [Requests -> Nat]
    /\ \A r \in RunIds : refresh[r].pc \notin {"idle", "over"} =>
          refresh[r].binding \in Bindings /\ refresh[r].selector \in Selectors
    /\ \A r \in Requests : sent[r].sent /\ Form[r].op \in {"supersede", "revise"} =>
          sent[r].target \in Requests

\* A context that is not there has no corpora; a run, its base and the run that is
\* its binding's last complete one are of one binding.
OneBinding ==
    /\ \A x \in Contexts : ~Exists(x) => contexts[x].corpora = {}
    /\ \A r \in RunIds : runs[r] # NoRun /\ runs[r].base # Nothing =>
          runs[runs[r].base].binding = runs[r].binding
    /\ \A b \in Bindings : Bound(b) /\ bindings[b].complete # Nothing =>
          runs[bindings[b].complete].binding = b

\* The run that last saw a record which was removed is not open.
RemovedIsPast ==
    \A k \in Keys : linked[k].member = "removed" => ~Open(linked[k].seen)

\* What took effect has been sent, and the version it named is past.
EffectIsPast ==
    \A r \in Requests : effects[r] # 0 =>
        /\ effects[r] = 1 /\ Form[r].op \in Writing /\ Exists(Form[r].context)
        /\ Form[r].op # "create" =>
              sent[r].sent /\ sent[r].version < contexts[Form[r].context].version

ContextInv ==
    /\ ContextTypeOK /\ ReferencesHold /\ MembersWereSeen
    /\ OneBinding /\ RemovedIsPast /\ EffectIsPast

=============================================================================
