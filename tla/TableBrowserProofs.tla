-------------------------- MODULE TableBrowserProofs --------------------------
(***************************************************************************)
(* Proofs about TableBrowser, for every set of servers and tables, every   *)
(* list and columns they have, and any number of clicks.                   *)
(*                                                                         *)
(* The properties speak of a flushed page whose answers have come.  The    *)
(* invariants say what is true before: of the newest load in flight, what  *)
(* it asks; of the watchers that have not run, what they will repair.      *)
(***************************************************************************)
EXTENDS TableBrowser, TLAPS

Here == [server |-> settings, table |-> table]

-----------------------------------------------------------------------------
(* The table that is shown. *)

\* Tickets are given out once: the newest load is the only one of its ticket.
LoadTickets ==
  /\ latestLoad \in Nat
  /\ \A load \in loads : load.ticket \in Nat /\ load.ticket <= latestLoad
  /\ \A load, twin \in loads : Newest(load) /\ Newest(twin) => load = twin

LoadStatus ==
  /\ status \in {Loading, Loaded, Failed}
  /\ status.loading <=> \E load \in loads : Newest(load)
  /\ table = NoTable => loads = {}

\* Columns are those of the table and server at hand, or those that the newest
\* load asks for, unless the settings have changed since the last flush.
ColumnsCurrent ==
  table # NoTable /\ "settings" \notin changed =>
    /\ columns \in {None, Here}
    /\ \A load \in loads : Newest(load) /\ load.step = "describe" => load.query = Here

\* So is the page that is shown, or that the newest load asks for, unless the
\* view has changed, too.
RowsCurrent ==
  table # NoTable /\ changed = {} =>
    /\ \A load \in loads : Newest(load) /\ load.step = "query" =>
         load.query = Page(settings, table, columns, view)
    /\ ~status.loading =>
         IF status.error THEN shown = None
         ELSE shown = Page(settings, table, columns, view)

TableInv == LoadTickets /\ LoadStatus /\ ColumnsCurrent /\ RowsCurrent


LEMMA TableInit == Init => TableInv
<1> SUFFICES ASSUME Init PROVE TableInv
  OBVIOUS
<1> USE BrowserAssumption DEF Init
<1>1. CASE Default \in Odd
  BY <1>1 DEF TableInv, LoadTickets, LoadStatus, ColumnsCurrent, RowsCurrent, Failed,
              Loading, Loaded
<1>2. CASE Default \notin Odd
  <2> DEFINE first == Describing(1, settings, Default)
  <2>1. /\ first.ticket = 1 /\ first.step = "describe"
        /\ first.query = [server |-> settings, table |-> Default]
    BY DEF Describing
  <2>2. loads = {first} /\ status = Loading /\ latestLoad = 1
    BY <1>2
  <2> HIDE DEF first
  <2>3. LoadTickets
    BY <2>1, <2>2 DEF LoadTickets
  <2>4. LoadStatus
    BY <2>1, <2>2 DEF LoadStatus, Newest, Loading
  <2>5. ColumnsCurrent
    BY <2>1, <2>2 DEF ColumnsCurrent, Here
  <2>6. RowsCurrent
    BY <2>1, <2>2 DEF RowsCurrent, Loading
  <2> QED BY <2>3, <2>4, <2>5, <2>6 DEF TableInv
<1> QED BY <1>1, <1>2

\* What a load asks for first.
Question(ticket, name, cols, v) ==
  IF cols = None THEN Describing(ticket, settings, name)
                 ELSE Querying(ticket, Page(settings, name, cols, v))

\* A load is the newest from then on, or has failed already.
LEMMA LoadStarts ==
  ASSUME LoadTickets, NEW name, NEW cols, NEW v, Load(name, cols, v)
  PROVE  /\ LoadTickets'
         /\ \/ /\ status' = Failed /\ shown' = None
               /\ \A load \in loads' : ~Newest(load)'
            \/ /\ status' = Loading
               /\ \A load \in loads' : Newest(load)' => load = Question(latestLoad', name, cols, v)
               /\ \E load \in loads' : Newest(load)'
<1> DEFINE first == Question(latestLoad + 1, name, cols, v)
<1>1. latestLoad \in Nat /\ latestLoad' = latestLoad + 1 /\ first.ticket = latestLoad + 1
  BY DEF LoadTickets, Load, Question, Describing, Querying
<1>2. \A load \in loads : load.ticket \in Nat /\ load.ticket <= latestLoad
  BY DEF LoadTickets
<1>3. \A load \in loads : ~Newest(load)'
  BY <1>1, <1>2 DEF Newest
<1>4. CASE name \in Odd
  <2>1. loads' = loads /\ status' = Failed /\ shown' = None
    BY <1>4 DEF Load
  <2> QED BY <1>1, <1>2, <1>3, <2>1 DEF LoadTickets
<1>5. CASE name \notin Odd
  <2>1. loads' = loads \union {first} /\ status' = Loading
    BY <1>5 DEF Load, Question
  <2>2. first = Question(latestLoad', name, cols, v) /\ first.ticket = latestLoad'
    BY <1>1
  <2> HIDE DEF first
  <2>3. LoadTickets'
    BY <1>1, <1>2, <1>3, <2>1 DEF LoadTickets
  <2>4. \A load \in loads' : Newest(load)' => load = first
    BY <1>3, <2>1
  <2>5. \E load \in loads' : Newest(load)'
    BY <2>1, <2>2 DEF Newest
  <2> QED BY <2>1, <2>2, <2>3, <2>4, <2>5
<1> QED BY <1>4, <1>5

\* A load of the table at hand, whose columns are its own or unknown, is what
\* the table needs, whatever it showed before.
LEMMA LoadKeepsTable ==
  ASSUME LoadTickets, Load(table', columns', view'), UNCHANGED settings,
         table' # NoTable, columns' \in {None, Here'} \/ "settings" \in changed'
  PROVE  TableInv'
<1> DEFINE first == Question(latestLoad', table', columns', view')
<1>1. /\ LoadTickets'
      /\ \/ /\ status' = Failed /\ shown' = None
            /\ \A load \in loads' : ~Newest(load)'
         \/ /\ status' = Loading
            /\ \A load \in loads' : Newest(load)' => load = first
            /\ \E load \in loads' : Newest(load)'
  BY LoadStarts
<1>2. /\ first.step = "describe" => first.query = Here'
      /\ first.step = "query" =>
           first.query = Page(settings', table', columns', view')
  <2>1. CASE columns' = None
    BY <2>1 DEF Question, Describing, Here
  <2>2. CASE columns' # None
    BY <2>2 DEF Question, Querying
  <2> QED BY <2>1, <2>2
<1>3. Page(settings, table, columns, view)' = Page(settings', table', columns', view')
  BY DEF Page
<1> HIDE DEF first
<1>4. LoadStatus'
  BY <1>1 DEF LoadStatus, Loading, Failed, Loaded
<1>5. ColumnsCurrent'
  BY <1>1, <1>2 DEF ColumnsCurrent
<1>6. RowsCurrent'
  BY <1>1, <1>2, <1>3 DEF RowsCurrent, Loading, Failed
<1> QED BY <1>1, <1>4, <1>5, <1>6 DEF TableInv

\* An answer to a load that is not the newest changes nothing but the loads.
LEMMA StaleAnswer ==
  ASSUME TableInv, NEW load \in loads, ~Newest(load), loads' = loads \ {load},
         UNCHANGED <<user, table, view, columns, shown, status, latestLoad>>
  PROVE  TableInv'
<1> USE DEF user, TableInv
<1>1. LoadTickets'
  BY DEF LoadTickets, Newest
<1>2. LoadStatus'
  BY DEF LoadStatus, Newest
<1>3. ColumnsCurrent'
  BY DEF ColumnsCurrent, Newest, Here
<1>4. RowsCurrent'
  BY DEF RowsCurrent, Newest, Page
<1> QED BY <1>1, <1>2, <1>3, <1>4

\* The newest load ends, with the rows it asked for or with an error.
LEMMA NewestEnds ==
  ASSUME TableInv, NEW load \in loads, Newest(load), loads' = loads \ {load},
         UNCHANGED <<user, table, view, columns, latestLoad>>,
         \/ status' = Failed /\ shown' = None
         \/ status' = Loaded /\ shown' = load.query /\ load.step = "query"
  PROVE  TableInv'
<1> USE DEF user, TableInv
<1>1. \A other \in loads' : ~Newest(other)'
  BY DEF LoadTickets, Newest
<1>2. LoadTickets'
  BY <1>1 DEF LoadTickets
<1>3. LoadStatus'
  BY <1>1 DEF LoadStatus, Loaded, Failed
<1>4. ColumnsCurrent'
  BY <1>1 DEF ColumnsCurrent, Here
<1>5. RowsCurrent'
  <2>1. Page(settings, table, columns, view)' = Page(settings, table, columns, view)
    BY DEF Page
  <2>2. ~Loaded.error /\ Failed.error
    BY DEF Loaded, Failed
  <2>3. changed' = {} /\ table' # NoTable /\ load.step = "query" =>
          load.query = Page(settings, table, columns, view)
    BY DEF RowsCurrent
  <2> QED BY <1>1, <2>1, <2>2, <2>3 DEF RowsCurrent
<1> QED BY <1>2, <1>3, <1>4, <1>5

\* The newest load has the columns, and asks for the page as it is by then.
LEMMA ColumnsCome ==
  ASSUME TableInv, NEW load \in loads, Newest(load), DescribeReturns(load)
  PROVE  TableInv'
<1> DEFINE next == Querying(load.ticket, Page(settings, load.query.table, columns', view))
<1>1. /\ load.step = "describe" /\ loads' = (loads \ {load}) \union {next}
      /\ columns' \in {None, load.query}
      /\ UNCHANGED <<settings, changed, table, view, shown, status, latestLoad>>
  BY DEF DescribeReturns, user
<1>2. /\ next.ticket = latestLoad /\ next.step = "query"
      /\ next.query = Page(settings, load.query.table, columns', view)
  BY DEF Querying, Newest
<1> HIDE DEF next
<1>3. \A other \in loads' : Newest(other)' <=> other = next
  BY <1>1, <1>2 DEF TableInv, LoadTickets, Newest
<1>4. LoadTickets'
  BY <1>1, <1>2, <1>3 DEF TableInv, LoadTickets
<1>5. table # NoTable /\ status = Loading
  BY DEF TableInv, LoadStatus, Loading, Loaded, Failed
<1>6. LoadStatus'
  BY <1>1, <1>3, <1>5 DEF LoadStatus, Loading
<1>7. "settings" \notin changed => load.query = Here
  BY <1>1, <1>5 DEF TableInv, ColumnsCurrent
<1>8. ColumnsCurrent'
  BY <1>1, <1>2, <1>3, <1>7 DEF ColumnsCurrent, Here
<1>9. RowsCurrent'
  <2>1. changed = {} => load.query.table = table
    BY <1>7 DEF Here
  <2>2. Page(settings, table, columns, view)' = Page(settings, table, columns', view)
    BY <1>1 DEF Page
  <2> QED BY <1>1, <1>2, <1>3, <1>5, <2>1, <2>2 DEF RowsCurrent, Loading
<1> QED BY <1>4, <1>6, <1>8, <1>9 DEF TableInv

LEMMA FlushKeepsTable == TableInv /\ Flush => TableInv'
<1> SUFFICES ASSUME TableInv, Flush PROVE TableInv'
  OBVIOUS
<1>1. CASE chosen = NoTable
  <2>1. table' = NoTable /\ status' = Loaded /\ loads' = {} /\ latestLoad' = latestLoad
    BY <1>1 DEF Flush, FlushTable
  <2> QED BY <2>1 DEF TableInv, LoadTickets, LoadStatus, ColumnsCurrent, RowsCurrent, Loaded
<1>2. CASE chosen # NoTable
  <2>1. /\ table' = chosen
        /\ IF table # chosen \/ "settings" \in changed THEN columns' = None
           ELSE UNCHANGED columns
        /\ Load(table', columns', view')
        /\ UNCHANGED settings
    BY <1>2 DEF Flush, FlushTable, Flushed
  <2>2. columns' \in {None, Here'}
    BY <1>2, <2>1 DEF TableInv, ColumnsCurrent, Here
  <2> QED BY <1>2, <2>1, <2>2, LoadKeepsTable DEF TableInv
<1> QED BY <1>1, <1>2

LEMMA TableStep == TableInv /\ [Next]_vars => TableInv'
<1> SUFFICES ASSUME TableInv, [Next]_vars PROVE TableInv'
  OBVIOUS
<1> USE DEF user, selector, events
<1>1. CASE ChangeSettings
  <2>1. UNCHANGED events /\ "settings" \in changed'
    BY <1>1 DEF ChangeSettings
  <2> QED BY <2>1 DEF TableInv, LoadTickets, LoadStatus, ColumnsCurrent, RowsCurrent, Newest
<1>2. ASSUME UNCHANGED <<settings, changed, events>> PROVE TableInv'
  BY <1>2 DEF TableInv, LoadTickets, LoadStatus, ColumnsCurrent, RowsCurrent, Newest,
              Here, Page
<1>3. CASE Choose \/ RefreshTables \/ UNCHANGED vars
  BY <1>2, <1>3 DEF Choose, RefreshTables, vars
<1>4. CASE ChangeView
  <2>1. /\ UNCHANGED <<settings, table, columns, shown, status, loads, latestLoad>>
        /\ "view" \in changed' /\ ("settings" \in changed => "settings" \in changed')
    BY <1>4 DEF ChangeView
  <2> QED BY <2>1 DEF TableInv, LoadTickets, LoadStatus, ColumnsCurrent, RowsCurrent,
                      Newest, Here
<1>5. CASE Reload
  <2>1. /\ Load(table', columns', view') /\ table' # NoTable
        /\ UNCHANGED <<settings, changed, table, columns>> /\ changed = {}
    BY <1>5 DEF Reload, Click, Flushed
  <2>2. columns' \in {None, Here'}
    BY <2>1 DEF TableInv, ColumnsCurrent, Here
  <2> QED BY <2>1, <2>2, LoadKeepsTable DEF TableInv
<1>6. CASE Flush
  BY <1>6, FlushKeepsTable
<1>7. ASSUME NEW load \in loads, DescribeReturns(load) PROVE TableInv'
  <2>1. CASE Newest(load)
    BY <1>7, <2>1, ColumnsCome
  <2>2. CASE ~Newest(load)
    BY <1>7, <2>2, StaleAnswer DEF DescribeReturns
  <2> QED BY <2>1, <2>2
<1>8. ASSUME NEW load \in loads, QueryReturns(load) PROVE TableInv'
  <2>1. CASE Newest(load)
    <3>1. status = Loading
      BY <2>1 DEF TableInv, LoadStatus, Loading, Loaded, Failed
    <3>2. status' = Loaded
      BY <1>8, <2>1, <3>1 DEF QueryReturns, Loading, Loaded
    <3> QED BY <1>8, <2>1, <3>2, NewestEnds DEF QueryReturns
  <2>2. CASE ~Newest(load)
    BY <1>8, <2>2, StaleAnswer DEF QueryReturns
  <2> QED BY <2>1, <2>2
<1>9. ASSUME NEW load \in loads, LoadFails(load) PROVE TableInv'
  <2>1. CASE Newest(load)
    BY <1>9, <2>1, NewestEnds DEF LoadFails
  <2>2. CASE ~Newest(load)
    BY <1>9, <2>2, StaleAnswer DEF LoadFails
  <2> QED BY <2>1, <2>2
<1>10. ASSUME NEW refresh \in refreshes, RefreshReturns(refresh) \/ RefreshFails(refresh)
       PROVE  TableInv'
  BY <1>2, <1>10 DEF RefreshReturns, RefreshFails
<1> QED
  BY <1>1, <1>3, <1>4, <1>5, <1>6, <1>7, <1>8, <1>9, <1>10 DEF Next, Answers

\* Whatever the answers' order, and whichever of them are errors, rows that are
\* shown are the page last asked for.
THEOREM TableShowsItsPage == Spec => []ShownIsCurrent
<1>1. TableInv => ShownIsCurrent
  BY DEF TableInv, LoadStatus, ColumnsCurrent, RowsCurrent, ShownIsCurrent, Flushed, Here
<1> QED BY TableInit, TableStep, <1>1, PTL DEF Spec

-----------------------------------------------------------------------------
(* The selector. *)

RefreshTickets ==
  /\ latestRefresh \in Nat
  /\ \A refresh \in refreshes : /\ refresh.ticket \in Nat /\ refresh.ticket <= latestRefresh
                                /\ refresh.server \in Servers
  /\ \A refresh, twin \in refreshes :
       NewestRefresh(refresh) /\ NewestRefresh(twin) => refresh = twin

ListStatus ==
  /\ settings \in Servers
  /\ list \in [tables : SUBSET Tables, loading : BOOLEAN, error : BOOLEAN]
  /\ list.error => list.tables = {}
  /\ list.loading <=> \E refresh \in refreshes : NewestRefresh(refresh)

\* The list is the server's at hand, or the newest refresh asks for it, unless
\* the settings have changed since the last flush.
ListCurrent ==
  "settings" \notin changed =>
    /\ \A refresh \in refreshes : NewestRefresh(refresh) => refresh.server = settings
    /\ ~list.loading /\ ~list.error =>
         /\ list.tables = TablesOf(settings)
         /\ IF TablesOf(settings) = {} THEN chosen = NoTable ELSE chosen \in TablesOf(settings)

SelectorInv == RefreshTickets /\ ListStatus /\ ListCurrent

\* The tables of a server, and the one its selection falls back to.
LEMMA TablesListed ==
  ASSUME NEW server \in Servers
  PROVE  /\ TablesOf(server) \subseteq Tables
         /\ IF TablesOf(server) = {} THEN Selection(Listed[server]) = NoTable
            ELSE Selection(Listed[server]) \in TablesOf(server)
<1> DEFINE names == Listed[server]
<1>1. names \in Seq(Tables)
  BY BrowserAssumption
<1>2. TablesOf(server) = {names[i] : i \in 1..Len(names)}
  BY DEF TablesOf
<1> HIDE DEF names
<1>3. CASE names = <<>>
  BY <1>1, <1>2, <1>3 DEF Selection, names
<1>4. CASE names # <<>>
  <2>1. Len(names) \in Nat /\ Len(names) >= 1 /\ Head(names) = names[1]
    BY <1>1, <1>4
  <2>2. Head(names) \in TablesOf(server)
    BY <1>2, <2>1
  <2>3. TablesOf(server) \subseteq Tables
    BY <1>1, <1>2
  <2> QED BY <1>4, <2>2, <2>3 DEF Selection, names
<1> QED BY <1>3, <1>4

LEMMA SelectorInit == Init => SelectorInv
BY DEF Init, SelectorInv, RefreshTickets, ListStatus, ListCurrent, NewestRefresh

\* A refresh of the server at hand is the newest one.
LEMMA RefreshStarts ==
  ASSUME SelectorInv, StartRefresh, UNCHANGED settings
  PROVE  SelectorInv'
<1> USE DEF SelectorInv
<1> DEFINE next == [ticket |-> latestRefresh + 1, server |-> settings]
<1>1. /\ latestRefresh' = latestRefresh + 1 /\ refreshes' = refreshes \union {next}
      /\ list' = [list EXCEPT !.loading = TRUE, !.error = FALSE] /\ UNCHANGED settings
  BY DEF StartRefresh
<1>2. next.ticket = latestRefresh' /\ next.server = settings
  BY <1>1
<1> HIDE DEF next
<1>3. \A refresh \in refreshes' : NewestRefresh(refresh)' <=> refresh = next
  BY <1>1, <1>2 DEF RefreshTickets, NewestRefresh
<1>4. RefreshTickets'
  BY <1>1, <1>2, <1>3 DEF RefreshTickets, ListStatus
<1>5. /\ list'.loading /\ ~list'.error
      /\ list' \in [tables : SUBSET Tables, loading : BOOLEAN, error : BOOLEAN]
  BY <1>1 DEF ListStatus
<1>6. ListStatus'
  BY <1>1, <1>3, <1>5 DEF ListStatus
<1>7. ListCurrent'
  BY <1>1, <1>2, <1>3, <1>5 DEF ListCurrent
<1> QED BY <1>4, <1>6, <1>7

\* With new settings the list is refreshed; without, nothing of the selector
\* changes.
LEMMA FlushKeepsSelector == SelectorInv /\ Flush => SelectorInv'
<1> SUFFICES ASSUME SelectorInv, Flush PROVE SelectorInv'
  OBVIOUS
<1> USE DEF SelectorInv
<1>1. CASE "settings" \in changed
  <2>1. StartRefresh /\ UNCHANGED settings
    BY <1>1 DEF Flush, FlushSelector
  <2> QED BY <2>1, RefreshStarts
<1>2. CASE "settings" \notin changed
  <2>1. UNCHANGED <<settings, chosen, list, refreshes, latestRefresh>>
    BY <1>2 DEF Flush, FlushSelector
  <2> QED BY <1>2, <2>1 DEF RefreshTickets, ListStatus, ListCurrent, NewestRefresh
<1> QED BY <1>1, <1>2

LEMMA RefreshReturnsKeepsSelector ==
  ASSUME SelectorInv, NEW refresh \in refreshes, RefreshReturns(refresh)
  PROVE  SelectorInv'
<1> USE DEF SelectorInv
<1>1. /\ refreshes' = refreshes \ {refresh} /\ refresh.server \in Servers
      /\ UNCHANGED <<settings, changed, latestRefresh>>
  BY DEF RefreshReturns, user, RefreshTickets
<1>2. RefreshTickets'
  BY <1>1 DEF RefreshTickets, NewestRefresh
<1>3. CASE NewestRefresh(refresh)
  <2> DEFINE names == TablesOf(refresh.server)
  <2>1. /\ list' = [tables |-> names, loading |-> FALSE, error |-> FALSE]
        /\ chosen' = IF chosen \in names THEN chosen ELSE Selection(Listed[refresh.server])
    BY <1>3 DEF RefreshReturns
  <2>2. /\ names \subseteq Tables
        /\ IF names = {} THEN Selection(Listed[refresh.server]) = NoTable
           ELSE Selection(Listed[refresh.server]) \in names
    BY <1>1, TablesListed
  <2>3. "settings" \notin changed => names = TablesOf(settings)
    BY <1>3 DEF ListCurrent
  <2> HIDE DEF names
  <2>4. \A other \in refreshes' : ~NewestRefresh(other)'
    BY <1>1, <1>3 DEF RefreshTickets, NewestRefresh
  <2>5. ListStatus'
    BY <1>1, <2>1, <2>2, <2>4 DEF ListStatus
  <2>6. IF names = {} THEN chosen' = NoTable ELSE chosen' \in names
    BY <2>1, <2>2
  <2>7. TablesOf(settings)' = TablesOf(settings)
    BY <1>1 DEF TablesOf
  <2>8. ListCurrent'
    BY <1>1, <2>1, <2>3, <2>4, <2>6, <2>7 DEF ListCurrent
  <2> QED BY <1>2, <2>5, <2>8
<1>4. CASE ~NewestRefresh(refresh)
  <2>1. UNCHANGED <<list, chosen>>
    BY <1>4 DEF RefreshReturns
  <2>2. ListStatus' /\ ListCurrent'
    BY <1>1, <1>4, <2>1 DEF ListStatus, ListCurrent, NewestRefresh, TablesOf
  <2> QED BY <1>2, <2>2
<1> QED BY <1>3, <1>4

LEMMA RefreshFailsKeepsSelector ==
  ASSUME SelectorInv, NEW refresh \in refreshes, RefreshFails(refresh)
  PROVE  SelectorInv'
<1> USE DEF SelectorInv
<1>1. /\ refreshes' = refreshes \ {refresh}
      /\ UNCHANGED <<settings, changed, chosen, latestRefresh>>
  BY DEF RefreshFails, user
<1>2. RefreshTickets'
  BY <1>1 DEF RefreshTickets, NewestRefresh
<1>3. CASE NewestRefresh(refresh)
  <2>1. list' = [tables |-> {}, loading |-> FALSE, error |-> TRUE]
    BY <1>3 DEF RefreshFails
  <2>2. \A other \in refreshes' : ~NewestRefresh(other)'
    BY <1>1, <1>3 DEF RefreshTickets, NewestRefresh
  <2>3. ListStatus' /\ ListCurrent'
    BY <1>1, <2>1, <2>2 DEF ListStatus, ListCurrent
  <2> QED BY <1>2, <2>3
<1>4. CASE ~NewestRefresh(refresh)
  <2>1. UNCHANGED list
    BY <1>4 DEF RefreshFails
  <2>2. ListStatus' /\ ListCurrent'
    BY <1>1, <1>4, <2>1 DEF ListStatus, ListCurrent, NewestRefresh, TablesOf
  <2> QED BY <1>2, <2>2
<1> QED BY <1>3, <1>4

LEMMA SelectorStep == SelectorInv /\ [Next]_vars => SelectorInv'
<1> SUFFICES ASSUME SelectorInv, [Next]_vars PROVE SelectorInv'
  OBVIOUS
<1> USE DEF user, selector
<1>1. CASE ChangeSettings
  <2>1. settings' \in Servers /\ "settings" \in changed' /\ UNCHANGED selector
    BY <1>1 DEF ChangeSettings
  <2> QED BY <2>1 DEF SelectorInv, RefreshTickets, ListStatus, ListCurrent, NewestRefresh
\* Only tables of a list that is there can be chosen.
<1>2. CASE Choose
  <2>1. /\ UNCHANGED <<settings, changed, list, refreshes, latestRefresh>>
        /\ changed = {} /\ ~list.loading /\ chosen' \in list.tables
    BY <1>2 DEF Choose, Click, Flushed
  <2>2. ~list.error /\ list.tables = TablesOf(settings)
    BY <2>1 DEF SelectorInv, ListStatus, ListCurrent
  <2> QED BY <2>1, <2>2
          DEF SelectorInv, RefreshTickets, ListStatus, ListCurrent, NewestRefresh, TablesOf
<1>3. ASSUME UNCHANGED <<settings, selector>>, "settings" \in changed => "settings" \in changed'
      PROVE  SelectorInv'
  BY <1>3 DEF SelectorInv, RefreshTickets, ListStatus, ListCurrent, NewestRefresh, TablesOf
<1>4. CASE ChangeView \/ Reload \/ UNCHANGED vars
  BY <1>3, <1>4 DEF ChangeView, Reload, vars
<1>5. CASE Flush
  BY <1>5, FlushKeepsSelector
<1>6. ASSUME NEW load \in loads, DescribeReturns(load) \/ QueryReturns(load) \/ LoadFails(load)
      PROVE  SelectorInv'
  BY <1>3, <1>6 DEF DescribeReturns, QueryReturns, LoadFails
<1>7. ASSUME NEW refresh \in refreshes, RefreshReturns(refresh) \/ RefreshFails(refresh)
      PROVE  SelectorInv'
  BY <1>7, RefreshReturnsKeepsSelector, RefreshFailsKeepsSelector
<1>8. CASE RefreshTables
  BY <1>8, RefreshStarts DEF RefreshTables
<1> QED BY <1>1, <1>2, <1>4, <1>5, <1>6, <1>7, <1>8 DEF Next, Answers

\* When the list is there, so is the selected table, however the settings and
\* the selection changed while the list was loading.
THEOREM SelectedTableExists == Spec => []SelectionExists
<1>1. SelectorInv => SelectionExists
  BY DEF SelectorInv, ListStatus, ListCurrent, SelectionExists, Flushed
<1> QED BY SelectorInit, SelectorStep, <1>1, PTL DEF Spec
=============================================================================
