----------------------------- MODULE TradePage -----------------------------
(***************************************************************************)
(* trade.js: one load of trade.html. The page shows a chart and the details  *)
(* of stockName, AAPL at first. Leaving the stock field with a listed stock   *)
(* in it makes that stockName and asks for both; answers come in any order,   *)
(* and carry nothing that says which request they belong to.                *)
(***************************************************************************)
EXTENDS Naturals, Sequences, SequencesExt

CONSTANTS
  Stocks,        (* what may be typed into the field and is listed *)
  DefaultStock,  (* "AAPL" *)
  NoStock,
  MaxBlurs       (* bound: stocks entered in one page load *)

ASSUME StocksAssumption == DefaultStock \in Stocks /\ NoStock \notin Stocks
ASSUME BlursAssumption == MaxBlurs \in Nat

VARIABLES
  stockName,
  listed,    (* stockList has been filled *)
  graphs,    (* the stock of each historicaldata request under way *)
  quotes,    (* the stock of each quote request under way *)
  chart,     (* [title, data]: data is the stocks whose prices chartData1 holds *)
  details,   (* the stock in the table of details *)
  blurs,     (* stocks entered so far *)
  failed     (* history: a historicaldata request has failed *)

tradePage == <<stockName, listed, graphs, quotes, chart, details, blurs, failed>>

NoChart == [title |-> NoStock, data |-> {}]

Cleared ==
  /\ stockName' = DefaultStock /\ listed' = FALSE
  /\ chart' = NoChart /\ details' = NoStock /\ blurs' = 0 /\ failed' = FALSE

\* The ready handler.
LoadTrade == Cleared /\ graphs' = <<DefaultStock>> /\ quotes' = <<DefaultStock>>

CloseTrade == Cleared /\ graphs' = <<>> /\ quotes' = <<>>

TradeInit ==
  /\ stockName = DefaultStock /\ listed = FALSE
  /\ chart = NoChart /\ details = NoStock /\ blurs = 0 /\ failed = FALSE
  /\ graphs = <<>> /\ quotes = <<>>

-----------------------------------------------------------------------------
\* stocklist's answer. Until then nothing is in stockList.
ListStocks ==
  /\ ~listed
  /\ listed' = TRUE
  /\ UNCHANGED <<stockName, graphs, quotes, chart, details, blurs, failed>>

\* Faulty: the chart of the same stock again.
Unchanged(s) == stockName

Entered(s) == s

Blur(s) ==
  /\ listed /\ blurs < MaxBlurs
  /\ stockName' = s
  /\ graphs' = Append(graphs, Entered(s)) /\ quotes' = Append(quotes, Entered(s))
  /\ blurs' = blurs + 1
  /\ UNCHANGED <<listed, chart, details, failed>>

\* Faulty: the stock that the request was for.
TitleOfRequest(s) == s

TitleOf(s) == stockName

\* The prices are added to those of earlier stocks, for chartData1 is never
\* emptied; the title is stockName as it is by now.
DrawChart ==
  /\ \E i \in DOMAIN graphs :
       /\ graphs' = RemoveAt(graphs, i)
       /\ chart' = [title |-> TitleOf(graphs[i]), data |-> chart.data \union {graphs[i]}]
  /\ UNCHANGED <<stockName, listed, quotes, details, blurs, failed>>

FailToDraw ==
  /\ \E i \in DOMAIN graphs : graphs' = RemoveAt(graphs, i)
  /\ failed' = TRUE
  /\ UNCHANGED <<stockName, listed, quotes, chart, details, blurs>>

ShowDetails ==
  /\ \E i \in DOMAIN quotes :
       /\ quotes' = RemoveAt(quotes, i)
       /\ details' = quotes[i]
  /\ UNCHANGED <<stockName, listed, graphs, chart, blurs, failed>>

Trading ==
  ListStocks \/ (\E s \in Stocks : Blur(s)) \/ DrawChart \/ FailToDraw \/ ShowDetails

-----------------------------------------------------------------------------
TradeTypeOK ==
  /\ stockName \in Stocks /\ listed \in BOOLEAN
  /\ graphs \in Seq(Stocks) /\ quotes \in Seq(Stocks)
  /\ chart \in [title : Stocks \union {NoStock}, data : SUBSET Stocks]
  /\ details \in Stocks \union {NoStock}
  /\ blurs \in 0..MaxBlurs /\ failed \in BOOLEAN

\* Once every request has been answered the chart is headed by the stock the
\* page is about and has its prices, in whatever order the answers came. (It
\* has those of every earlier stock as well.)
ChartSettled ==
  graphs = <<>> /\ chart # NoChart /\ ~failed =>
    /\ chart.title = stockName
    /\ stockName \in chart.data

\* A chart that is headed by another stock than the page's is corrected, unless
\* a request fails or the page is left.
ChartCatchesUp ==
  (chart # NoChart /\ chart.title # stockName) ~> (chart = NoChart \/ chart.title = stockName \/ failed)
=============================================================================
