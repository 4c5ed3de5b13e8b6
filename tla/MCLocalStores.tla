--------------------------- MODULE MCLocalStores ---------------------------
(***************************************************************************)
(* WorkFolder and LocalContexts for TLC.  A work folder's files and the    *)
(* registrations share no state, so a behaviour exercises one of them: the *)
(* folder when its plan is empty, else the requests of one plan.           *)
(***************************************************************************)
EXTENDS WorkFolder, LocalContexts

AllCorpora == {"c", "d"}
AllExternals == {"e1", "e2"}
SomePlaces == {"p", "p/q", "r"}
Inside == {<<"p/q", "p">>}
NormalForm == [s \in {"as given", "as found"} |-> "as found"]

Asks ==
  [ register |-> [op |-> "register", corpus |-> "c", root |-> "p"],
    registerD |-> [op |-> "register", corpus |-> "d", root |-> "p/q"],
    moveD |-> [op |-> "rebind_source", corpus |-> "d", expected |-> "p/q", root |-> "r"],
    create |-> [op |-> "create", context |-> "x", corpora |-> {"c"}, text |-> "purpose"],
    createY |-> [op |-> "create", context |-> "y", corpora |-> {"c"}, text |-> "purpose"],
    append |-> [op |-> "append", context |-> "x", ref |-> "first", text |-> "finding",
                links |-> {}, direct |-> {}, units |-> {"u"}, kind |-> "finding"],
    again |-> [op |-> "append", context |-> "x", ref |-> "first", text |-> "other",
               links |-> {}, direct |-> {}, units |-> {}, kind |-> "question"],
    supersede |-> [op |-> "supersede", context |-> "x", ref |-> "second", text |-> "better",
                   links |-> {}, direct |-> {}, units |-> {}, kind |-> "question"],
    revise |-> [op |-> "revise", context |-> "x", text |-> "revised"],
    cite |-> [op |-> "append", context |-> "x", ref |-> "cited", text |-> "finding",
              links |-> {<<"b", "e1">>}, direct |-> {<<"b", "e1">>}, units |-> {}, kind |-> "finding"],
    compare |-> [op |-> "append", context |-> "x", ref |-> "compared", text |-> "question",
                 links |-> {<<"g", "e2">>}, direct |-> {}, units |-> {}, kind |-> "question"],
    archive |-> [op |-> "archive", context |-> "x"],
    unregister |-> [op |-> "unregister", corpus |-> "c", context |-> "x"],
    unregisterD |-> [op |-> "unregister", corpus |-> "d", context |-> Nothing],
    connect |-> [op |-> "connect", folder |-> "f", context |-> "x", root |-> "p"],
    connectY |-> [op |-> "connect", folder |-> "g", context |-> "y", root |-> "r"],
    moveF |-> [op |-> "rebind_folder", folder |-> "f", expected |-> "p", root |-> "r"],
    disconnect |-> [op |-> "disconnect", folder |-> "f"],
    bind |-> [op |-> "bind", binding |-> "b", corpus |-> "c", selector |-> "as given"],
    bindG |-> [op |-> "bind", binding |-> "g", corpus |-> "c", selector |-> "as found"],
    refresh1 |-> [op |-> "refresh", binding |-> "b", run |-> "r1"],
    refresh2 |-> [op |-> "refresh", binding |-> "b", run |-> "r2"],
    observe1 |-> [op |-> "observe", binding |-> "g", run |-> "r1", externals |-> {"e1", "e2"},
                  bare |-> FALSE, complete |-> TRUE],
    observe2 |-> [op |-> "observe", binding |-> "g", run |-> "r2", externals |-> {"e1"},
                  bare |-> TRUE, complete |-> FALSE],
    observe3 |-> [op |-> "observe", binding |-> "g", run |-> "r2", externals |-> {"e2"},
                  bare |-> FALSE, complete |-> TRUE] ]

AllRequests == DOMAIN Asks

SomePlans ==
  { {},
    {"register", "create", "append", "again", "supersede", "archive", "unregister"},
    {"register", "create", "append", "supersede", "revise", "archive"},
    {"register", "bind", "refresh1", "refresh2"},
    {"register", "create", "bind", "refresh1", "cite"},
    {"register", "create", "bindG", "observe1", "observe2", "observe3", "compare"},
    {"register", "create", "bindG", "observe1", "observe2", "compare", "archive", "unregister"},
    {"register", "registerD", "create", "createY", "connect", "connectY", "moveF", "moveD",
     "disconnect", "archive", "unregister", "unregisterD"} }

StoresInit == FolderInit /\ ContextInit
StoresNext ==
    \/ plan = {} /\ FolderNext /\ UNCHANGED contextVars
    \/ plan # {} /\ ContextNext /\ UNCHANGED folderVars
StoresSpec == StoresInit /\ [][StoresNext]_<<folderVars, contextVars>>
=============================================================================
