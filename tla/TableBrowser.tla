----------------------------- MODULE TableBrowser -----------------------------
(***************************************************************************)
(* The page that shows tables of ClickHouse (TablesView.vue): a selector   *)
(* lists the tables of the server in the settings (TableSelector.vue), and *)
(* a table shows a page of the selected one (EventsTable.vue).             *)
(*                                                                         *)
(* Every query goes to the server in the settings at that moment           *)
(* (clickhouse.ts), and may fail.  Watchers do not run when what they      *)
(* watch changes but in the next flush: an answer may be taken in between, *)
(* a click may not.  A load or refresh that is not the newest one is to    *)
(* change nothing.                                                         *)
(***************************************************************************)
EXTENDS Integers, Sequences, FiniteSets

CONSTANTS
  Servers,    \* the values of settings.snapshot
  Tables,     \* qualified names
  NoTable,    \* "", when nothing is selected
  None,       \* no columns, no rows
  Default,    \* the table selected at first
  Listed,     \* the tables of each server, in order
  Odd,        \* tables whose names parseQualified rejects
  Columns,    \* the columns of each server's tables
  Pages,      \* how many pages a table has
  MaxClicks   \* bounds what the user does

SortColumns == {"time", "other"}

TablesOf(server) == {Listed[server][i] : i \in 1..Len(Listed[server])}

ASSUME BrowserAssumption ==
  /\ Default \in Tables /\ NoTable \notin Tables
  /\ Listed \in [Servers -> Seq(Tables)]
  /\ Columns \in [Servers \X Tables -> SUBSET SortColumns]
  /\ Odd \subseteq Tables
  /\ Pages \in Nat \ {0} /\ MaxClicks \in Nat

VARIABLES
  settings,  \* the server in the settings
  changed,   \* what has changed since the last flush: "settings", "view"
  clicks,    \* what the user has done
  chosen,    \* qualified of TablesView
  list,      \* the selector: [tables, loading, error]
  refreshes, \* its refreshes in flight: [ticket, server]
  table,     \* qualified as EventsTable has it; NoTable when it is unmounted
  view,      \* its sorting and page: [sort, page]
  columns,   \* columnsInfo: the [server, table] they are of, or None
  shown,     \* the page whose rows are shown, or None
  status,    \* [loading, error] of EventsTable
  loads,     \* its loads in flight
  latestRefresh,
  latestLoad

user == <<settings, changed, clicks>>
selector == <<chosen, list, refreshes, latestRefresh>>
events == <<table, view, columns, shown, status, loads, latestLoad>>
vars == <<user, selector, events>>

FirstView == [sort |-> "time", page |-> 0]
Loading == [loading |-> TRUE, error |-> FALSE]
Loaded == [loading |-> FALSE, error |-> FALSE]
Failed == [loading |-> FALSE, error |-> TRUE]

\* A page: what queryRows and countRows are asked.
Page(server, name, cols, v) ==
  [server |-> server, table |-> name, page |-> v.page,
   order |-> IF cols # None /\ v.sort \in Columns[cols.server, cols.table] THEN v.sort ELSE "none"]

\* A load that waits for describeTable, or for the rows and their count.
Describing(ticket, server, name) ==
  [ticket |-> ticket, step |-> "describe", query |-> [server |-> server, table |-> name]]
Querying(ticket, page) == [ticket |-> ticket, step |-> "query", query |-> page]

Answerable(query) == query.table \in TablesOf(query.server)

-----------------------------------------------------------------------------
(***************************************************************************)
(* EventsTable.                                                            *)
(***************************************************************************)

\* load(), of table name, with columns cols and view v.
Load(name, cols, v) ==
  LET ticket == latestLoad + 1 IN
  /\ latestLoad' = ticket
  /\ IF name \in Odd
     THEN /\ status' = Failed
          /\ shown' = None
          /\ UNCHANGED loads
     ELSE /\ status' = Loading
          /\ loads' = loads \union
               {IF cols = None THEN Describing(ticket, settings, name)
                ELSE Querying(ticket, Page(settings, name, cols, v))}
          /\ UNCHANGED shown

\* Mutation of Newest: any load may write its results.
AnyLoad(load) == TRUE

Newest(load) == load.ticket = latestLoad

\* describeTable gives no columns for a table that is not there.
DescribeReturns(load) ==
  /\ load.step = "describe"
  /\ IF Newest(load)
     THEN /\ columns' = IF Answerable(load.query) THEN load.query ELSE None
          /\ loads' = (loads \ {load}) \union
               {Querying(load.ticket, Page(settings, load.query.table, columns', view))}
     ELSE /\ loads' = loads \ {load}
          /\ UNCHANGED columns
  /\ UNCHANGED <<user, selector, table, view, shown, status, latestLoad>>

QueryReturns(load) ==
  /\ load.step = "query"
  /\ Answerable(load.query)
  /\ IF Newest(load)
     THEN shown' = load.query /\ status' = [status EXCEPT !.loading = FALSE]
     ELSE UNCHANGED <<shown, status>>
  /\ loads' = loads \ {load}
  /\ UNCHANGED <<user, selector, table, view, columns, latestLoad>>

LoadFails(load) ==
  /\ IF Newest(load)
     THEN shown' = None /\ status' = Failed
     ELSE UNCHANGED <<shown, status>>
  /\ loads' = loads \ {load}
  /\ UNCHANGED <<user, selector, table, view, columns, latestLoad>>

\* Mounted, with another name, or with another server, page or order: the
\* table forgets columns and page of what it showed, and loads once.
FlushTable ==
  \/ /\ chosen = NoTable
     /\ table' = NoTable /\ view' = FirstView /\ columns' = None
     /\ shown' = None /\ status' = Loaded /\ loads' = {}
     /\ UNCHANGED latestLoad
  \/ /\ chosen # NoTable
     /\ table' = chosen
     /\ IF table # chosen \/ "settings" \in changed
        THEN /\ columns' = None
             /\ view' = IF table = NoTable THEN FirstView ELSE [view EXCEPT !.page = 0]
        ELSE UNCHANGED <<columns, view>>
     /\ IF table # chosen \/ changed # {}
        THEN Load(chosen, columns', view')
        ELSE UNCHANGED <<shown, status, loads, latestLoad>>

-----------------------------------------------------------------------------
(***************************************************************************)
(* TableSelector.                                                          *)
(***************************************************************************)

\* refresh(), of the server in the settings.
StartRefresh ==
  /\ latestRefresh' = latestRefresh + 1
  /\ list' = [list EXCEPT !.loading = TRUE, !.error = FALSE]
  /\ refreshes' = refreshes \union {[ticket |-> latestRefresh + 1, server |-> settings]}

FlushSelector ==
  /\ IF "settings" \in changed
     THEN StartRefresh
     ELSE UNCHANGED <<list, refreshes, latestRefresh>>
  /\ UNCHANGED chosen

\* Mutation of NewestRefresh: any refresh may write.
AnyRefresh(refresh) == TRUE

NewestRefresh(refresh) == refresh.ticket = latestRefresh

\* A selection that is not in the list moves to the first table, or to none.
Selection(names) == IF names = <<>> THEN NoTable ELSE Head(names)

RefreshReturns(refresh) ==
  /\ LET names == Listed[refresh.server] IN
     IF NewestRefresh(refresh)
     THEN /\ list' = [tables |-> TablesOf(refresh.server), loading |-> FALSE, error |-> FALSE]
          /\ chosen' = IF chosen \in TablesOf(refresh.server) THEN chosen ELSE Selection(names)
     ELSE UNCHANGED <<list, chosen>>
  /\ refreshes' = refreshes \ {refresh}
  /\ UNCHANGED <<user, latestRefresh, events>>

RefreshFails(refresh) ==
  /\ IF NewestRefresh(refresh)
     THEN list' = [tables |-> {}, loading |-> FALSE, error |-> TRUE]
     ELSE UNCHANGED list
  /\ refreshes' = refreshes \ {refresh}
  /\ UNCHANGED <<user, chosen, latestRefresh, events>>

-----------------------------------------------------------------------------
(***************************************************************************)
(* The page and its user.                                                  *)
(***************************************************************************)

Init ==
  /\ settings \in Servers
  /\ changed = {} /\ clicks = 0
  /\ chosen = Default /\ table = Default
  /\ list = [tables |-> {}, loading |-> TRUE, error |-> FALSE]
  /\ latestRefresh = 1 /\ refreshes = {[ticket |-> 1, server |-> settings]}
  /\ view = FirstView /\ columns = None /\ shown = None
  /\ latestLoad = 1
  /\ IF Default \in Odd
     THEN status = Failed /\ loads = {}
     ELSE status = Loading /\ loads = {Describing(1, settings, Default)}

Flushed == changed = {} /\ table = chosen

\* The pending watchers and renders run.
Flush ==
  /\ ~Flushed
  /\ FlushTable /\ FlushSelector
  /\ changed' = {}
  /\ UNCHANGED <<settings, clicks>>

Click ==
  /\ Flushed
  /\ clicks < MaxClicks
  /\ clicks' = clicks + 1

\* A change in the settings, as the form or a reset makes it.
ChangeSettings ==
  /\ Click
  /\ \E server \in Servers \ {settings} : settings' = server
  /\ changed' = changed \union {"settings"}
  /\ UNCHANGED <<selector, events>>

\* The selector is disabled while it loads.
Choose ==
  /\ Click
  /\ ~list.loading
  /\ \E name \in list.tables \ {chosen} : chosen' = name
  /\ UNCHANGED <<settings, changed, list, refreshes, latestRefresh, events>>

\* The selector's button, disabled while it loads.
RefreshTables ==
  /\ Click
  /\ ~list.loading
  /\ StartRefresh
  /\ UNCHANGED <<settings, changed, chosen, events>>

PageCount == IF shown = None THEN 1 ELSE Pages

\* The columns whose headers are there to be clicked.
Sortable == IF columns = None \/ status.error THEN {} ELSE Columns[columns.server, columns.table]

\* gotoPage, also to the page that is there, and a header's click.
ChangeView ==
  /\ Click
  /\ table # NoTable
  /\ \/ \E page \in 0..(PageCount - 1) : view' = [view EXCEPT !.page = page]
     \/ \E sort \in Sortable \ {view.sort} : view' = [view EXCEPT !.sort = sort]
  /\ changed' = changed \union {"view"}
  /\ UNCHANGED <<settings, selector, table, columns, shown, status, loads, latestLoad>>

\* The page's button, which a load in flight does not disable.
Reload ==
  /\ Click
  /\ table # NoTable
  /\ Load(table, columns, view)
  /\ UNCHANGED <<settings, changed, selector, table, view, columns>>

Answers ==
  \/ \E load \in loads : DescribeReturns(load) \/ QueryReturns(load) \/ LoadFails(load)
  \/ \E refresh \in refreshes : RefreshReturns(refresh) \/ RefreshFails(refresh)

Next ==
  ChangeSettings \/ Choose \/ RefreshTables \/ ChangeView \/ Reload \/ Flush \/ Answers

Spec == Init /\ [][Next]_vars

-----------------------------------------------------------------------------
(***************************************************************************)
(* Properties.                                                             *)
(***************************************************************************)

\* However answers are ordered or fail, "loading" is there exactly while the
\* newest load is in flight, columns are those of the table and server at
\* hand, and rows shown without an error are the page that was last asked for
\* (EventsTable.vue:68-71 and 121-127).
ShownIsCurrent ==
  /\ status.loading <=> \E load \in loads : Newest(load)
  /\ Flushed /\ table # NoTable =>
       /\ columns \in {None, [server |-> settings, table |-> table]}
       /\ ~status.loading =>
            IF status.error THEN shown = None
            ELSE shown = Page(settings, table, columns, view)

\* When the list is there, the selected table is in it, so that no query goes
\* to a table the server does not have (TableSelector.vue:14-15 and 26-32).
SelectionExists ==
  /\ list.loading <=> \E refresh \in refreshes : NewestRefresh(refresh)
  /\ Flushed /\ ~list.loading /\ ~list.error =>
       /\ list.tables = TablesOf(settings)
       /\ IF TablesOf(settings) = {} THEN chosen = NoTable ELSE chosen \in TablesOf(settings)
=============================================================================
