------------------------------- MODULE Tables -------------------------------
(***************************************************************************)
(* The pages of both browser consoles that show a list, or one item, of    *)
(* the server, with their stores.  A page keeps what it shows; fetches,    *)
(* switches, removals and saves are calls that the server handles and that *)
(* come back in any order.  No page cancels or numbers its calls, so what  *)
(* it shows at rest depends on which answer came last.                     *)
(*                                                                         *)
(* A page is a view and a store, each described by what distinguishes it:  *)
(*   filters   the user can change the query while a fetch is running      *)
(*   details   the query is one row, which the user opens                  *)
(*   refresh   "button": disabled while loading; "done": after a dialog;   *)
(*             "timer": every few seconds                                  *)
(*   removes   "reload": fetch after the removal; "patch": take the row    *)
(*             out of what is shown; "pretend": fetch without removing     *)
(*   clears    the list can be emptied, and is fetched after that          *)
(*   switches  what a successful switch does to the row's status:          *)
(*             "captured": set it in the row object that was clicked,      *)
(*             "flip": negate it there, "lookup": set it in the row that   *)
(*             has the identifier now                                      *)
(*   saves     a row is sent as displayed; the answer is the whole list    *)
(*   blanks    opening shows nothing until the answer is there             *)
(*   keeps     the query lives in the store and survives leaving the page  *)
(*   spinner   the store has a loading flag                                *)
(*   soft      the server's removal only disables the row                  *)
(***************************************************************************)
EXTENDS Naturals, Sequences, SequencesExt

CONSTANTS
    Rows,     \* rows the server may have
    MaxCalls  \* bound: calls of the page in flight

ASSUME TablesAssumption == MaxCalls \in Nat

VARIABLES
    table,    \* the page: its view and its store
    server,   \* per row: "absent", "off" or "on"
    query,    \* what is asked for: "all", "on", or one row
    shown,    \* per row, what the page displays
    loading,  \* the store's flag
    calls,    \* calls in flight, in the order they were sent
    inOrder,  \* since a fetch was sent at rest: handled and answered in the
              \* order sent, none failed, nobody else changed the server
    alone     \* and never two calls at a time

tablesVars == <<table, server, query, shown, loading, calls, inOrder, alone>>

Plain == [filters |-> FALSE, details |-> FALSE, refresh |-> "no",
          removes |-> "no", clears |-> FALSE, switches |-> "no", saves |-> FALSE,
          blanks |-> FALSE, soft |-> FALSE]

Listed == [Plain EXCEPT !.filters = TRUE, !.refresh = "button"]

(* Views of v1, src/frontend/src/views. *)
AlertsV1  == Listed
TasksV1   == Listed
LogsV1    == [Listed EXCEPT !.clears = TRUE]
TracesV1  == Listed
TraceV1   == [Plain EXCEPT !.details = TRUE]
CamerasV1 == [Plain EXCEPT !.refresh = "done", !.removes = "pretend"]
ModelsV1  == [Plain EXCEPT !.refresh = "done", !.removes = "reload",
                           !.switches = "captured"]
DashboardV1 == Plain
StatsV1   == [Plain EXCEPT !.details = TRUE, !.blanks = TRUE]

(* Views of v2, src/src/frontend/src/views. *)
AlertsV2    == [Plain EXCEPT !.filters = TRUE]
ChannelsV2  == [Plain EXCEPT !.switches = "lookup", !.saves = TRUE]
CamerasV2   == [Plain EXCEPT !.refresh = "done", !.removes = "patch"]
ModelsV2    == [Plain EXCEPT !.refresh = "done", !.switches = "lookup"]
PipelinesV2 == [Plain EXCEPT !.refresh = "done", !.removes = "patch"]
DashboardV2 == [Plain EXCEPT !.refresh = "timer"]
DagV2       == [Plain EXCEPT !.details = TRUE]
RulesV2     == [Plain EXCEPT !.refresh = "done", !.removes = "patch",
                             !.switches = "flip", !.soft = TRUE]

Keeping == [keeps |-> TRUE, spinner |-> TRUE]
Local   == [keeps |-> FALSE, spinner |-> TRUE]

(* Stores of v1: the filters are in the store. *)
AlertStoreV1  == Keeping
TaskStoreV1   == Keeping
LogStoreV1    == Keeping
TraceStoreV1  == Keeping
CameraStoreV1 == Local
ModelStoreV1  == Local
DashboardStoreV1 == Local
Spinnerless   == [keeps |-> FALSE, spinner |-> FALSE]

(* Stores of v2: the filters are in the view. *)
AlertStoreV2  == Local
CameraStoreV2 == Local
ModelStoreV2  == Local
SceneStoreV2  == Local

Page(view, store) == [view |-> view, store |-> store]

Pages ==
    {Page(AlertsV1, AlertStoreV1), Page(TasksV1, TaskStoreV1),
     Page(LogsV1, LogStoreV1), Page(TracesV1, TraceStoreV1),
     Page(TraceV1, TraceStoreV1), Page(CamerasV1, CameraStoreV1),
     Page(ModelsV1, ModelStoreV1), Page(StatsV1, Spinnerless),
     Page(DashboardV1, DashboardStoreV1), Page(DashboardV2, Spinnerless),
     Page(AlertsV2, AlertStoreV2), Page(ChannelsV2, AlertStoreV2),
     Page(CamerasV2, CameraStoreV2), Page(ModelsV2, ModelStoreV2),
     Page(PipelinesV2, SceneStoreV2), Page(DagV2, Spinnerless),
     Page(RulesV2, SceneStoreV2)}

Statuses == {"absent", "off", "on"}
Nothing == [r \in Rows |-> "absent"]
Queries == {"all", "on"} \cup Rows

TableCall == [op: {"fetch", "switch", "save", "remove", "clear"}, query: Queries,
              row: Rows \cup {"none"}, status: Statuses, handled: BOOLEAN,
              live: BOOLEAN, answer: [Rows -> Statuses]]
\* What the server lists for a query.
Answer(q, rows) ==
    [r \in Rows |-> IF q = "all" \/ q = r \/ q = rows[r] THEN rows[r] ELSE "absent"]

TablesTypeOK ==
    /\ table \in Pages
    /\ server \in [Rows -> Statuses]
    /\ query \in Queries
    /\ shown \in [Rows -> Statuses]
    /\ loading \in BOOLEAN
    /\ calls \in Seq(TableCall) /\ Len(calls) <= MaxCalls
    /\ inOrder \in BOOLEAN
    /\ alone \in BOOLEAN

TablesInit ==
    /\ table \in Pages
    /\ server \in [Rows -> {"absent", "on"}]
    /\ query = "all"
    /\ shown = Nothing
    /\ loading = FALSE
    /\ calls = <<>>
    /\ inOrder = FALSE
    /\ alone = FALSE

-----------------------------------------------------------------------------
(* Sending a call. *)

NewCall(op, q, r, status) ==
    [op |-> op, query |-> q, row |-> r, status |-> status, handled |-> FALSE,
     live |-> TRUE, answer |-> Nothing]

\* The call joins those of `flying`; a fetch sent at rest starts afresh.
SendAmong(flying, call) ==
    /\ Len(flying) < MaxCalls
    /\ calls' = Append(flying, call)
    /\ inOrder' = (inOrder \/ (flying = <<>> /\ call.op = "fetch"))
    /\ alone' = (flying = <<>> /\ (alone \/ call.op = "fetch"))

\* The store's load: the flag is set, and the query as it is now is sent.
FetchAmong(flying, q) ==
    /\ SendAmong(flying, NewCall("fetch", q, "none", "absent"))
    /\ loading' = table.store.spinner

-----------------------------------------------------------------------------
(* The user. *)

\* The page is entered again, or the detail of a row is opened.
Mount(q) ==
    /\ IF table.view.details
       THEN q \in Rows
       ELSE q = (IF table.store.keeps THEN query ELSE "all")
    /\ query' = q
    /\ shown' = IF table.view.blanks THEN Nothing ELSE shown
    /\ FetchAmong(calls, q)
    /\ UNCHANGED <<table, server>>

\* A plausible bug: a filter is not among the parameters of the list's call.
MutatedChooseQuery(q) ==
    /\ table.view.filters
    /\ q \in {"all", "on"} \ {query}
    /\ query' = q
    /\ FetchAmong(calls, "all")
    /\ UNCHANGED <<table, server, shown>>

\* A filter changes; the filters are not disabled while the list loads.
ChooseQuery(q) ==
    /\ table.view.filters
    /\ q \in {"all", "on"} \ {query}
    /\ query' = q
    /\ FetchAmong(calls, q)
    /\ UNCHANGED <<table, server, shown>>

\* The refresh button, or a dialog of the page reports that it is done, or the
\* timer fires.
Refresh ==
    /\ \/ table.view.refresh = "button" /\ ~loading
       \/ table.view.refresh \in {"done", "timer"}
    /\ FetchAmong(calls, query)
    /\ UNCHANGED <<table, server, query, shown>>

Other(status) == IF status = "on" THEN "off" ELSE "on"

\* The switch of a row asks for the opposite of what it shows.
Toggle(r) ==
    /\ table.view.switches # "no"
    /\ shown[r] # "absent"
    /\ SendAmong(calls, NewCall("switch", "all", r, Other(shown[r])))
    /\ UNCHANGED <<table, server, query, shown, loading>>

SaveRow(r) ==
    /\ table.view.saves
    /\ shown[r] # "absent"
    /\ SendAmong(calls, NewCall("save", "all", r, shown[r]))
    /\ UNCHANGED <<table, server, query, shown, loading>>

RemoveRow(r) ==
    /\ shown[r] # "absent"
    /\ \/ /\ table.view.removes \in {"reload", "patch"}
          /\ SendAmong(calls, NewCall("remove", "all", r, "absent"))
          /\ UNCHANGED loading
       \/ /\ table.view.removes = "pretend"
          /\ FetchAmong(calls, query)
    /\ UNCHANGED <<table, server, query, shown>>

ClearRows ==
    /\ table.view.clears
    /\ SendAmong(calls, NewCall("clear", "all", "none", "absent"))
    /\ UNCHANGED <<table, server, query, shown, loading>>

-----------------------------------------------------------------------------
(* The server. *)

\* The rows after a call: a switch or a save of a row that is gone does
\* nothing, and removing a rule only disables it.
Effect(call) ==
    CASE call.op \in {"switch", "save"} /\ server[call.row] # "absent"
            -> [server EXCEPT ![call.row] = call.status]
      [] call.op = "remove"
            -> [server EXCEPT ![call.row] =
                    IF table.view.soft /\ @ # "absent" THEN "off" ELSE "absent"]
      [] call.op = "clear" -> Nothing
      [] OTHER -> server

HandleCall(i) ==
    /\ ~calls[i].handled
    /\ server' = Effect(calls[i])
    /\ calls' = [calls EXCEPT ![i].handled = TRUE,
                              ![i].answer = IF calls[i].op \in {"fetch", "save"}
                                            THEN Answer(calls[i].query, server')
                                            ELSE Nothing]
    /\ inOrder' = (inOrder /\ \A j \in 1..(i - 1) : calls[j].handled)
    /\ UNCHANGED <<table, query, shown, loading, alone>>

\* Somebody else adds, removes or changes a row.
Elsewhere(r, status) ==
    /\ server[r] # status
    /\ server' = [server EXCEPT ![r] = status]
    /\ inOrder' = FALSE
    /\ alone' = FALSE
    /\ UNCHANGED <<table, query, shown, loading, calls>>

-----------------------------------------------------------------------------
(* The answers. *)

\* The row objects on display are replaced: those that calls hold are stale.
Replaced(flying) == [j \in DOMAIN flying |-> [flying[j] EXCEPT !.live = FALSE]]

ArriveList(i) ==
    /\ calls[i].handled /\ calls[i].op \in {"fetch", "save"}
    /\ ~(table.view.details /\ calls[i].answer = Nothing)
    /\ shown' = calls[i].answer
    /\ loading' = (loading /\ calls[i].op # "fetch")
    /\ calls' = Replaced(RemoveAt(calls, i))
    /\ inOrder' = (inOrder /\ i = 1)
    /\ UNCHANGED <<table, server, query, alone>>

\* What the row of a successful switch shows then.
Switched(call) ==
    CASE table.view.switches = "captured" /\ call.live -> call.status
      [] table.view.switches = "lookup" -> call.status
      [] table.view.switches = "flip" /\ call.live -> Other(shown[call.row])
      [] OTHER -> shown[call.row]

ArriveSwitch(i) ==
    /\ calls[i].handled /\ calls[i].op = "switch"
    /\ shown' = [shown EXCEPT ![calls[i].row] =
                    IF @ = "absent" THEN @ ELSE Switched(calls[i])]
    /\ calls' = RemoveAt(calls, i)
    /\ inOrder' = (inOrder /\ i = 1)
    /\ UNCHANGED <<table, server, query, loading, alone>>

ArrivePatch(i) ==
    /\ calls[i].handled /\ calls[i].op = "remove"
    /\ table.view.removes = "patch"
    /\ shown' = [shown EXCEPT ![calls[i].row] = "absent"]
    /\ calls' = RemoveAt(calls, i)
    /\ inOrder' = (inOrder /\ i = 1)
    /\ UNCHANGED <<table, server, query, loading, alone>>

\* The list is fetched after a removal or after it was cleared.
ArriveReload(i) ==
    /\ calls[i].handled
    /\ \/ calls[i].op = "remove" /\ table.view.removes = "reload"
       \/ calls[i].op = "clear"
    /\ FetchAmong(RemoveAt(calls, i), query)
    /\ UNCHANGED <<table, server, query, shown>>

\* A plausible bug: the flag is reset after the await and not in `finally`.
MutatedFailCall(i) ==
    /\ calls' = RemoveAt(calls, i)
    /\ inOrder' = FALSE
    /\ alone' = FALSE
    /\ UNCHANGED <<table, server, query, shown, loading>>

\* The server answers with an error, or the answer or the call is lost.
FailCall(i) ==
    /\ loading' = (loading /\ calls[i].op # "fetch")
    /\ calls' = RemoveAt(calls, i)
    /\ inOrder' = FALSE
    /\ alone' = FALSE
    /\ UNCHANGED <<table, server, query, shown>>

Settle(i) ==
    \/ ArriveList(i) \/ ArriveSwitch(i) \/ ArrivePatch(i) \/ ArriveReload(i)
    \/ FailCall(i)

TablesNext ==
    \/ \E q \in Queries : Mount(q) \/ ChooseQuery(q)
    \/ Refresh
    \/ \E r \in Rows : Toggle(r) \/ SaveRow(r) \/ RemoveRow(r)
    \/ ClearRows
    \/ \E i \in DOMAIN calls : HandleCall(i) \/ Settle(i)
    \/ \E r \in Rows, status \in Statuses : Elsewhere(r, status)

TablesSpec == TablesInit /\ [][TablesNext]_tablesVars

-----------------------------------------------------------------------------
(* Properties. *)

\* At rest a page shows what the server has for the query on display, when
\* the calls since a fetch at rest were handled and answered in the order
\* they were sent and nobody else changed anything.  Where the row object
\* that was clicked is updated (models of v1, rules of v2) this needs more:
\* that no two calls overlapped.  A rule that is removed is gone from the
\* page and only disabled on the server.
RestShowsServer ==
    (calls = <<>> /\ IF table.view.switches \in {"no", "lookup"} THEN inOrder
                                                                 ELSE alone)
        => \A r \in Rows :
              \/ shown[r] = Answer(query, server)[r]
              \/ table.view.soft /\ shown[r] = "absent" /\ server[r] = "off"

\* The spinner turns only while a fetch is in flight: no failure and no other
\* call leaves it on, and with it the refresh button disabled.
SpinnerHasACall == loading => \E i \in DOMAIN calls : calls[i].op = "fetch"
=============================================================================
