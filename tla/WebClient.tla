----------------------------- MODULE WebClient -----------------------------
(***************************************************************************)
(* A browser at the web front end: its tabs log in and out, share their       *)
(* cookies, and one of them, Here, is followed through the pages it loads.   *)
(* A page's state begins when the tab loads it and ends when it goes on; the  *)
(* other tabs change the cookies meanwhile.                                 *)
(***************************************************************************)
EXTENDS Session, Dashboard, TradePage

CONSTANT Here

ASSUME HereAssumption == Here \in Tabs

vars == <<session, dashboard, tradePage>>

Init == SessionInit /\ DashboardInit /\ TradeInit

\* What the scripts of a new page find.
Arrive ==
  /\ IF visit'[Here].at = "main" THEN LoadMain(cookies'.userid) ELSE CloseMain
  /\ IF visit'[Here].at = "trade" THEN LoadTrade ELSE CloseTrade

Navigate == Visiting(Here) /\ Arrive

Elsewhere ==
  /\ (\E v \in Tabs \ {Here} : Visiting(v)) \/ Expire
  /\ UNCHANGED <<dashboard, tradePage>>

OnMain ==
  /\ visit[Here].at = "main"
  /\ Dashing(cookies.userid)
  /\ UNCHANGED <<session, tradePage>>

OnTrade ==
  /\ visit[Here].at = "trade"
  /\ Trading
  /\ UNCHANGED <<session, dashboard>>

Next == Navigate \/ Elsewhere \/ OnMain \/ OnTrade

\* Requests are answered, well or badly, and timeouts fire: a page that is left
\* or loaded again drops what it waits for, but nobody loads a page again for
\* ever before it is answered. Users need not do anything.
Answered(t) == visit[Here].at = "main" /\ (Rows(t) \/ NoRows(t)) /\ UNCHANGED <<session, tradePage>>
Timeout     == visit[Here].at = "main" /\ GetMessage /\ UNCHANGED <<session, tradePage>>
Drawn       == visit[Here].at = "trade" /\ (DrawChart \/ FailToDraw) /\ UNCHANGED <<session, dashboard>>

Spec ==
  /\ Init /\ [][Next]_vars
  /\ \A t \in Tables : WF_vars(Answered(t))
  /\ WF_vars(Timeout) /\ WF_vars(Drawn)

TypeOK == SessionTypeOK /\ DashboardTypeOK /\ TradeTypeOK
=============================================================================
