----------------------------- MODULE Dashboard -----------------------------
(***************************************************************************)
(* main.js: one load of main.html. The trading history and the portfolio    *)
(* are two tables handled alike: the page asks for the rows, appends them    *)
(* to the table's body and makes a DataTable of it; the refresh icon          *)
(* destroys the DataTable and asks again. Nothing holds the icon back while  *)
(* an answer is outstanding.                                                *)
(* DataTables itself is modelled from the vendored 1.10.8: destroy() of a    *)
(* table that is destroyed already takes it out of the page, and making a    *)
(* DataTable of a live one raises an alert.                                  *)
(***************************************************************************)
EXTENDS Naturals, Sequences, SequencesExt

CONSTANTS
  Tables,     (* "history" and "portfolio" *)
  MaxClicks   (* bound: refreshes in one page load *)

ASSUME ClicksAssumption == MaxClicks \in Nat

VARIABLES
  table,     (* each table: [inPage, live, handle, missed] *)
  rows,      (* each table: the users whose rows it has been given, in order *)
  asked,     (* each table: the userid cookie of each request under way *)
  clicks,    (* refreshes so far *)
  alerted,   (* "Cannot reinitialise DataTable" has been shown *)
  timer,     (* what the variable timer, declared at 13 and again at 24, holds *)
  due,       (* the timeouts that have yet to fire *)
  hovering,  (* the mouse is over a row of the stock list *)
  fetched    (* getMessage has been called *)

dashboard == <<table, rows, asked, clicks, alerted, timer, due, hovering, fetched>>
tables    == <<table, rows, asked, clicks, alerted>>
timeouts  == <<timer, due, hovering, fetched>>

Missing == 0  (* a request that is sent without a userid cookie *)

\* missed is history: an answer that brought no rows.
Fresh == [inPage |-> TRUE, live |-> FALSE, handle |-> "undefined", missed |-> FALSE]

Closed ==
  /\ table' = [t \in Tables |-> Fresh] /\ rows' = [t \in Tables |-> <<>>]
  /\ clicks' = 0 /\ alerted' = FALSE
  /\ hovering' = FALSE /\ fetched' = FALSE

\* The ready handler, with the userid cookie id.
LoadMain(id) ==
  /\ Closed
  /\ asked' = [t \in Tables |-> <<id>>]
  /\ timer' = "message" /\ due' = {"message"}

CloseMain ==
  /\ Closed
  /\ asked' = [t \in Tables |-> <<>>]
  /\ timer' = "none" /\ due' = {}

DashboardInit ==
  /\ table = [t \in Tables |-> Fresh] /\ rows = [t \in Tables |-> <<>>]
  /\ clicks = 0 /\ alerted = FALSE /\ hovering = FALSE /\ fetched = FALSE
  /\ asked = [t \in Tables |-> <<>>] /\ timer = "none" /\ due = {}

-----------------------------------------------------------------------------
\* Faulty: a refresh leaves the table as it is.
NotDestroyed(x) == x

\* historyTable.destroy(): the handle may be of a table that is live, of one
\* destroyed before, or of none, found when the table was out of the page.
Destroyed(x) ==
  CASE x.handle = "empty" -> x
    [] x.handle = "table" /\ x.live -> [x EXCEPT !.live = FALSE]
    [] x.handle = "table" /\ ~x.live -> [x EXCEPT !.inPage = FALSE]

\* Before the first rows arrived the variable is undefined: a TypeError, and
\* no request.
Refresh(t, id) ==
  /\ table[t].handle # "undefined" /\ clicks < MaxClicks
  /\ table' = [table EXCEPT ![t] = [Destroyed(@) EXCEPT !.missed = FALSE]]
  /\ asked' = [asked EXCEPT ![t] = Append(@, id)]
  /\ clicks' = clicks + 1
  /\ UNCHANGED <<rows, alerted, timeouts>>

\* Faulty: the table is not made a DataTable again.
NotMade(x) == [x EXCEPT !.handle = "table"]

\* $("#history").DataTable(...), which finds the table only in the page.
Made(x) == IF x.inPage THEN [x EXCEPT !.live = TRUE, !.handle = "table"]
                       ELSE [x EXCEPT !.handle = "empty"]

\* Rows arrive: they are appended to what is there, for the list is never
\* emptied. The requests of one table may be answered in any order.
Rows(t) ==
  /\ \E i \in DOMAIN asked[t] :
       /\ asked[t][i] # Missing
       /\ asked' = [asked EXCEPT ![t] = RemoveAt(@, i)]
       /\ rows' = IF table[t].inPage THEN [rows EXCEPT ![t] = Append(@, asked[t][i])] ELSE rows
  /\ alerted' = (alerted \/ (table[t].inPage /\ table[t].live))
  /\ table' = [table EXCEPT ![t] = Made(@)]
  /\ UNCHANGED <<clicks, timeouts>>

\* An error status (there was no userid cookie, the server is down), or an
\* empty list, for which the server sends "]" and parseJSON raises.
NoRows(t) ==
  /\ \E i \in DOMAIN asked[t] : asked' = [asked EXCEPT ![t] = RemoveAt(@, i)]
  /\ table' = [table EXCEPT ![t].missed = TRUE]
  /\ UNCHANGED <<rows, clicks, alerted, timeouts>>

-----------------------------------------------------------------------------
\* Faulty: the timeout is remembered in another variable.
OtherVariable == timer

Remembered == "hover"

EnterRow ==
  /\ timer # "none" /\ ~hovering
  /\ hovering' = TRUE
  /\ timer' = Remembered /\ due' = due \union {"hover"}
  /\ UNCHANGED <<tables, fetched>>

LeaveRow ==
  /\ hovering
  /\ hovering' = FALSE
  /\ due' = due \ {timer}
  /\ UNCHANGED <<tables, timer, fetched>>

\* 600 milliseconds over a row: the graph is shown.
ShowGraph ==
  /\ "hover" \in due
  /\ due' = due \ {"hover"}
  /\ UNCHANGED <<tables, timer, hovering, fetched>>

\* Two seconds after the page was ready: NotificationQueue's StartRead.
GetMessage ==
  /\ "message" \in due
  /\ due' = due \ {"message"} /\ fetched' = TRUE
  /\ UNCHANGED <<tables, timer, hovering>>

Dashing(id) ==
  \/ \E t \in Tables : Refresh(t, id) \/ Rows(t) \/ NoRows(t)
  \/ EnterRow \/ LeaveRow \/ ShowGraph \/ GetMessage

-----------------------------------------------------------------------------
DashboardTypeOK ==
  /\ table \in [Tables -> [inPage : BOOLEAN, live : BOOLEAN,
                           handle : {"undefined", "table", "empty"}, missed : BOOLEAN]]
  /\ rows \in [Tables -> Seq(Nat)] /\ asked \in [Tables -> Seq(Nat)]
  /\ clicks \in 0..MaxClicks /\ alerted \in BOOLEAN
  /\ timer \in {"none", "message", "hover"} /\ due \subseteq {"message", "hover"}
  /\ hovering \in BOOLEAN /\ fetched \in BOOLEAN

\* However often and early the refresh icon is clicked, rows never arrive at a
\* table that is a live DataTable: a second request can only be under way once
\* a second destroy() has taken the table out of the page.
NeverReinitialised == ~alerted

\* A table that was live is live again some time after a refresh, or an answer
\* brought nothing, or it is out of the page, or the page was loaded anew.
RefreshShows ==
  \A t \in Tables :
    table[t].handle = "table" ~>
      (table[t].live \/ table[t].missed \/ ~table[t].inPage \/ table[t].handle = "undefined")

\* The timeout that fetches the notification is kept in the same variable as
\* those of the stock list, whose mouseleave handler clears them: it fires all
\* the same, unless the page is left.
MessageFetched == timer # "none" ~> (fetched \/ timer = "none")
=============================================================================
