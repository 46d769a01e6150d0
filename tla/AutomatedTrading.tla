-------------------------- MODULE AutomatedTrading --------------------------
(***************************************************************************)
(* AutomatedTradingController.java (the Bollinger Bands trader, a singleton *)
(* EJB) with the message beans that call it. Its threads are               *)
(*   - the AutomatedTradingTCMessageBean instances, which bring new orders, *)
(*   - the reply bean AutomatedTradingOBMessagebean, which calls RecordTrade *)
(*     with what the order broker answered,                                *)
(*   - one java.util.Timer thread per call of StartMonitoring, which walks  *)
(*     the lists of orders not entered yet and sends trade requests.       *)
(* The container's write lock makes the bean's business methods exclude     *)
(* each other; the timer threads take no lock. A step is what one thread    *)
(* does between two accesses to state another thread may touch.            *)
(*                                                                         *)
(* The order broker is abstracted to what it promises (BrokerService.tla):  *)
(* it may answer a request with a fill, answer it otherwise, or stay silent, *)
(* in any order. Prices are abstracted to which side, if any, a quote       *)
(* enters on. monitorPriceToExit, which StartMonitoring no longer calls,    *)
(* and the EXIT branch of RecordTrade it feeds are left out.               *)
(***************************************************************************)
EXTENDS Integers, Sequences, SequencesExt

CONSTANTS
  Beans,      (* instances of AutomatedTradingTCMessageBean *)
  MaxOrders,  (* bound: messages with a new order delivered *)
  MaxTimers,  (* bound: calls of StartMonitoring *)
  MaxSent,    (* bound: times an enter condition is hit *)
  Failures    (* what may fail: a subset of AllFailures *)

AllFailures == {"database", "marketdata", "send"}

ASSUME BoundsAssumption == MaxOrders \in Nat /\ MaxTimers \in Nat /\ MaxSent \in Nat
ASSUME FailuresAssumption == Failures \subseteq AllFailures

Orders   == 1..MaxOrders
Timers   == 1..MaxTimers
Requests == 1..MaxSent
Sides    == {"SHORT", "LONG"}
None     == 0
Free     == "free"
Replying == "reply"

ASSUME BeansAssumption ==
  IsFiniteSet(Beans) /\ Beans # {} /\ Free \notin Beans /\ Replying \notin Beans

VARIABLES
  monitoring,      (* isMonitoring *)
  lock,            (* the singleton's write lock: a thread holding it across steps *)
  bean,            (* what each message bean is doing: [at, order] *)
  timer,           (* each Timer thread: [at, i, order, side, request, id] *)
  reply,           (* RecordTrade under way: [request, i, order, side] *)
  received,        (* order messages delivered; the n-th makes wrapper and order n *)
  beforeStockList, beforeEnterOrders, enteredStockList, enteredOrders,
  shortOrLong,     (* of each wrapper: the side updateEnterInfo last set *)
  order,           (* the Order objects: [status, type, trades] *)
  nextTradeId,     (* static nextTradeId *)
  tradeMap,        (* trade id -> [i, side] *)
  hits,            (* times an enter condition was hit: numbers the requests *)
  broker,          (* requests at the order broker or on their way back: [request, id] *)
  quoted,          (* history: the order each request was made for *)
  entry            (* history: the request whose fill entered each order *)

lists == <<beforeStockList, beforeEnterOrders, enteredStockList, enteredOrders>>
vars == <<monitoring, lock, bean, timer, reply, received, lists, shortOrLong,
          order, nextTradeId, tradeMap, hits, broker, quoted, entry>>

NoOrder  == [status |-> "BEFORE_ENTERED", type |-> "NONE", trades |-> 0]
NoTimer  == [at |-> "off", i |-> 1, order |-> None, side |-> "NONE", request |-> None, id |-> 0]
NoReply  == [request |-> None, i |-> 1, order |-> None, side |-> "NONE"]

Init ==
  /\ monitoring = FALSE /\ lock = Free
  /\ bean = [b \in Beans |-> [at |-> "idle", order |-> None]]
  /\ timer = [t \in Timers |-> NoTimer]
  /\ reply = NoReply
  /\ received = 0
  /\ beforeStockList = <<>> /\ beforeEnterOrders = <<>>
  /\ enteredStockList = <<>> /\ enteredOrders = <<>>
  /\ shortOrLong = [o \in Orders |-> "NONE"]
  /\ order = [o \in Orders |-> NoOrder]
  /\ nextTradeId = 0
  /\ tradeMap = <<>>
  /\ hits = 0 /\ broker = {}
  /\ quoted = [n \in Requests |-> None]
  /\ entry = [o \in Orders |-> None]

May(failure) == failure \in Failures

-----------------------------------------------------------------------------
(* AutomatedTradingTCMessageBean.onMessage: four calls of the singleton,    *)
(* each under the lock, nothing held in between.                           *)

Elsewhere == <<reply, shortOrLong, order, nextTradeId, tradeMap, hits, broker, quoted, entry>>

\* Faulty: the flag is not looked at.
FirstCallAlways == "start"

\* The bean's next call, once it knows isMonitoring().
FirstCall == IF monitoring THEN "trade" ELSE "start"

\* isMonitoring(). A message delivered again counts as a new one.
ReceiveOrder(b) ==
  /\ bean[b].at = "idle" /\ lock = Free
  /\ received < MaxOrders
  /\ received' = received + 1
  /\ bean' = [bean EXCEPT ![b] = [at |-> FirstCall, order |-> received + 1]]
  /\ UNCHANGED <<monitoring, lock, timer, lists, Elsewhere>>

\* StartMonitoring(): a new Timer thread, first run at once.
StartMonitoring(b) ==
  /\ bean[b].at = "start" /\ lock = Free
  /\ \E t \in Timers :
       /\ timer[t].at = "off" /\ \A u \in 1..(t - 1) : timer[u].at # "off"
       /\ timer' = [timer EXCEPT ![t].at = "test"]
  /\ bean' = [bean EXCEPT ![b].at = "set"]
  /\ UNCHANGED <<monitoring, lock, received, lists, Elsewhere>>

\* setMonitoring(true).
SetMonitoring(b) ==
  /\ bean[b].at = "set" /\ lock = Free
  /\ monitoring' = TRUE
  /\ bean' = [bean EXCEPT ![b].at = "trade"]
  /\ UNCHANGED <<lock, timer, received, lists, Elsewhere>>

\* startNewTrade up to beforeStockList.add.
AddStock(b) ==
  /\ bean[b].at = "trade" /\ lock = Free
  /\ beforeStockList' = Append(beforeStockList, bean[b].order)
  /\ lock' = b
  /\ bean' = [bean EXCEPT ![b].at = "record"]
  /\ UNCHANGED <<monitoring, timer, received, beforeEnterOrders, enteredStockList,
                 enteredOrders, Elsewhere>>

\* startNewTrade when the price history cannot be had: getMeanPrice raises,
\* nothing is added, and the message comes back.
MissHistory(b) ==
  /\ bean[b].at = "trade" /\ lock = Free
  /\ May("marketdata")
  /\ bean' = [bean EXCEPT ![b] = [at |-> "idle", order |-> None]]
  /\ UNCHANGED <<monitoring, lock, timer, received, lists, Elsewhere>>

\* Faulty: the order is added at the front.
EnqueuedFirst(o) == <<o>> \o beforeEnterOrders

Enqueued(o) == Append(beforeEnterOrders, o)

\* RecordOrder, the end of startNewTrade. When em.persist raises the order is
\* not added, the wrapper stays, and the message comes back.
RecordOrder(b) ==
  /\ bean[b].at = "record"
  /\ \/ beforeEnterOrders' = Enqueued(bean[b].order)
     \/ May("database") /\ UNCHANGED beforeEnterOrders
  /\ lock' = Free
  /\ bean' = [bean EXCEPT ![b] = [at |-> "idle", order |-> None]]
  /\ UNCHANGED <<monitoring, timer, received, beforeStockList, enteredStockList,
                 enteredOrders, Elsewhere>>

-----------------------------------------------------------------------------
(* The Timer threads: monitorPriceToEnter. The index i is Java's plus one.  *)
(* An exception ends a Timer thread for good.                              *)

Untouched == <<monitoring, lock, bean, reply, received, lists, order, entry>>

\* An iteration that ends without a request: on to the next.
Skip(t) == [NoTimer EXCEPT !.at = "test", !.i = timer[t].i + 1]

\* Faulty: stops before the last order.
HasStockShort(i) == i < Len(beforeStockList)

HasStock(i) == i <= Len(beforeStockList)

\* i < beforeStockList.size(); when the list is done the next run starts.
TestLoop(t) ==
  /\ timer[t].at = "test"
  /\ timer' = [timer EXCEPT ![t] =
                 IF HasStock(@.i) THEN [@ EXCEPT !.at = "stock"]
                 ELSE [NoTimer EXCEPT !.at = "test"]]
  /\ UNCHANGED <<Untouched, shortOrLong, nextTradeId, tradeMap, hits, broker, quoted>>

\* beforeStockList.get(i).
GetStock(t) ==
  /\ timer[t].at = "stock"
  /\ timer' = [timer EXCEPT ![t] =
                 IF @.i \in DOMAIN beforeStockList
                 THEN [@ EXCEPT !.at = "order", !.order = beforeStockList[timer[t].i]]
                 ELSE [NoTimer EXCEPT !.at = "dead"]]
  /\ UNCHANGED <<Untouched, shortOrLong, nextTradeId, tradeMap, hits, broker, quoted>>

\* beforeEnterOrders.get(i).
GetOrder(t) ==
  /\ timer[t].at = "order"
  /\ timer' = [timer EXCEPT ![t] =
                 IF @.i \in DOMAIN beforeEnterOrders THEN [@ EXCEPT !.at = "quote"]
                 ELSE [NoTimer EXCEPT !.at = "dead"]]
  /\ UNCHANGED <<Untouched, shortOrLong, nextTradeId, tradeMap, hits, broker, quoted>>

\* getStockBySymbol, isShortEnter and isLongEnter, whose updateEnterInfo sets
\* the side on the wrapper before any request is made.
Quote(t) ==
  /\ timer[t].at = "quote"
  /\ hits < MaxSent
  /\ \E s \in Sides :
       /\ shortOrLong' = [shortOrLong EXCEPT ![timer[t].order] = s]
       /\ timer' = [timer EXCEPT ![t].at = "id", ![t].side = s, ![t].request = hits + 1]
  /\ hits' = hits + 1
  /\ quoted' = [quoted EXCEPT ![hits + 1] = timer[t].order]
  /\ UNCHANGED <<Untouched, nextTradeId, tradeMap, broker>>

\* Neither condition holds.
NoEntry(t) ==
  /\ timer[t].at = "quote"
  /\ timer' = [timer EXCEPT ![t] = Skip(t)]
  /\ UNCHANGED <<Untouched, shortOrLong, nextTradeId, tradeMap, hits, broker, quoted>>

\* No quote: null is dereferenced.
MissQuote(t) ==
  /\ timer[t].at = "quote"
  /\ May("marketdata")
  /\ timer' = [timer EXCEPT ![t] = [NoTimer EXCEPT !.at = "dead"]]
  /\ UNCHANGED <<Untouched, shortOrLong, nextTradeId, tradeMap, hits, broker, quoted>>

\* The read of nextTradeId++.
ReadTradeId(t) ==
  /\ timer[t].at = "id"
  /\ timer' = [timer EXCEPT ![t].at = "send", ![t].id = nextTradeId]
  /\ UNCHANGED <<Untouched, shortOrLong, nextTradeId, tradeMap, hits, broker, quoted>>

\* The write of nextTradeId++, then sender.send.
SendTrade(t) ==
  /\ timer[t].at = "send"
  /\ nextTradeId' = timer[t].id + 1
  /\ broker' = broker \union {[request |-> timer[t].request, id |-> timer[t].id]}
  /\ timer' = [timer EXCEPT ![t].at = "put"]
  /\ UNCHANGED <<Untouched, shortOrLong, tradeMap, hits, quoted>>

\* A JMSException is caught: the request is neither sent nor entered in
\* tradeMap. Two timers share one static connection, and either may close it.
FailToSend(t) ==
  /\ timer[t].at = "send"
  /\ May("send") \/ \E u \in Timers \ {t} : timer[u].at \in {"send", "put"}
  /\ nextTradeId' = timer[t].id + 1
  /\ timer' = [timer EXCEPT ![t] = Skip(t)]
  /\ UNCHANGED <<Untouched, shortOrLong, tradeMap, hits, broker, quoted>>

\* Faulty: the entry does not say which side the request was for.
LoggedUntyped(t) == [i |-> timer[t].i, side |-> "NONE"]

\* Faulty: the entry holds the index of the order after it.
LoggedNext(t) == [i |-> timer[t].i + 1, side |-> timer[t].side]

\* The TradeStructureForLogging of a request.
Logged(t) == [i |-> timer[t].i, side |-> timer[t].side]

\* tradeMap after a put.
TradeMapWith(id, value) ==
  [k \in DOMAIN tradeMap \union {id} |-> IF k = id THEN value ELSE tradeMap[k]]

\* tradeMap.put, after the send. Two overlapping puts can lose one.
PutTrade(t) ==
  /\ timer[t].at = "put"
  /\ \/ tradeMap' = TradeMapWith(timer[t].id, Logged(t))
     \/ /\ \E u \in Timers \ {t} : timer[u].at = "put"
        /\ UNCHANGED tradeMap
  /\ timer' = [timer EXCEPT ![t] = Skip(t)]
  /\ UNCHANGED <<Untouched, shortOrLong, nextTradeId, hits, broker, quoted>>

-----------------------------------------------------------------------------
(* AutomatedTradingOBMessagebean.onMessage, which calls RecordTrade.        *)

Settled == <<monitoring, bean, timer, received, shortOrLong, nextTradeId, tradeMap,
             hits, quoted>>

\* Any result but FILLED (and a request the broker never answers): ignored.
NotFilled(r) ==
  /\ lock = Free
  /\ broker' = broker \ {r}
  /\ UNCHANGED <<Settled, lock, reply, lists, order, entry>>

\* tradeMap knows the request, and its index is one of the list.
Recordable(r) ==
  r.id \in DOMAIN tradeMap /\ tradeMap[r.id].i <= Len(beforeEnterOrders)

\* Faulty: the first order is removed, whatever the index.
OrdersWithoutFirst(i) == Tail(beforeEnterOrders)

OrdersWithout(i) == RemoveAt(beforeEnterOrders, i)

\* FILLED, up to beforeEnterOrders.remove(index).
RemoveOrder(r) ==
  LET m == tradeMap[r.id]
  IN  /\ lock = Free
      /\ Recordable(r)
      /\ reply' = [request |-> r.request, i |-> m.i, order |-> beforeEnterOrders[m.i], side |-> m.side]
      /\ beforeEnterOrders' = OrdersWithout(m.i)
      /\ lock' = Replying
      /\ UNCHANGED <<Settled, beforeStockList, enteredStockList, enteredOrders,
                     order, broker, entry>>

\* FILLED, but the trade is not in tradeMap yet, or its index is past the end
\* of the list: RecordTrade raises before it changed anything, so the container
\* delivers the message again, in the end to the dead letter queue.
DeadLetter(r) ==
  /\ lock = Free
  /\ ~Recordable(r) \/ \E t \in Timers : timer[t].at = "put"
  /\ broker' = broker \ {r}
  /\ UNCHANGED <<Settled, lock, reply, lists, order, entry>>

\* Faulty: the stock stays in beforeStockList.
StocksWithoutNone(i) == beforeStockList

StocksWithout(i) == RemoveAt(beforeStockList, i)

\* Faulty: the message with the fill is not acknowledged.
AcknowledgedNever(request) == broker

Acknowledged(request) == {q \in broker : q.request # request}

\* beforeStockList.remove(index) and the rest of RecordTrade. The list is
\* never shorter than beforeEnterOrders was, so the index is one of it. When the stock
\* cannot be found the exception leaves the lists changed and the order as it
\* was; when the Trade cannot be persisted, everything in memory is done. In
\* both cases the message is delivered again.
EnterOrder ==
  LET r == reply
  IN  /\ lock = Replying
      /\ beforeStockList' = StocksWithout(r.i)
      /\ enteredStockList' = Append(enteredStockList, beforeStockList[r.i])
      /\ enteredOrders' = Append(enteredOrders, r.order)
      /\ \/ /\ order' = [order EXCEPT ![r.order] =
                           [status |-> "ENTERED", type |-> r.side, trades |-> @.trades + 1]]
            /\ \/ broker' = Acknowledged(r.request)
               \/ May("database") /\ UNCHANGED broker
         \/ May("database") /\ UNCHANGED <<order, broker>>
      /\ entry' = [entry EXCEPT ![r.order] = r.request]
      /\ reply' = NoReply /\ lock' = Free
      /\ UNCHANGED <<Settled, beforeEnterOrders>>

-----------------------------------------------------------------------------
BeanStep(b) ==
  \/ ReceiveOrder(b) \/ StartMonitoring(b) \/ SetMonitoring(b)
  \/ AddStock(b) \/ MissHistory(b) \/ RecordOrder(b)

TimerStep(t) ==
  \/ TestLoop(t) \/ GetStock(t) \/ GetOrder(t)
  \/ Quote(t) \/ NoEntry(t) \/ MissQuote(t)
  \/ ReadTradeId(t) \/ SendTrade(t) \/ FailToSend(t) \/ PutTrade(t)

RecordTrade ==
  \/ \E r \in broker : NotFilled(r) \/ RemoveOrder(r) \/ DeadLetter(r)
  \/ EnterOrder

Next ==
  \/ \E b \in Beans : BeanStep(b)
  \/ \E t \in Timers : TimerStep(t)
  \/ RecordTrade

\* The container keeps delivering calls, and a Timer thread that lives runs on.
Fairness ==
  /\ \A b \in Beans : WF_vars(BeanStep(b))
  /\ \A t \in Timers : WF_vars(TimerStep(t))
  /\ WF_vars(EnterOrder)

Spec == Init /\ [][Next]_vars /\ Fairness

-----------------------------------------------------------------------------
(* Properties.                                                             *)

BeanStates  == {"idle", "start", "set", "trade", "record"}
TimerStates == {"off", "test", "stock", "order", "quote", "id", "send", "put", "dead"}
Types == Sides \union {"NONE"}
BeanTypes  == [at : BeanStates, order : Orders \union {None}]
TimerTypes == [at : TimerStates, i : Nat \ {0}, order : Orders \union {None},
               side : Types, request : Requests \union {None}, id : Nat]
ReplyTypes == [request : Requests \union {None}, i : Nat \ {0},
               order : Orders \union {None}, side : Types]
OrderTypes == [status : {"BEFORE_ENTERED", "ENTERED"}, type : Types, trades : Nat]

\* The types of the controller's state.
TypeOK ==
  /\ monitoring \in BOOLEAN
  /\ lock \in Beans \union {Free, Replying}
  /\ bean \in [Beans -> BeanTypes]
  /\ timer \in [Timers -> TimerTypes]
  /\ reply \in ReplyTypes
  /\ received \in 0..MaxOrders
  /\ beforeStockList \in Seq(Orders) /\ beforeEnterOrders \in Seq(Orders)
  /\ enteredStockList \in Seq(Orders) /\ enteredOrders \in Seq(Orders)
  /\ shortOrLong \in [Orders -> Types]
  /\ order \in [Orders -> OrderTypes]
  /\ nextTradeId \in Nat
  /\ DOMAIN tradeMap \subseteq Nat
  /\ \A id \in DOMAIN tradeMap : tradeMap[id] \in [i : Nat \ {0}, side : Sides]
  /\ hits \in 0..MaxSent
  /\ broker \subseteq [request : Requests, id : Nat]
  /\ quoted \in [Requests -> Orders \union {None}]
  /\ entry \in [Orders -> Requests \union {None}]

\* Whenever no business method is under way, the stock list and the order list
\* of each stage hold the same orders at the same positions, so that an index
\* into one is an index into the other.
ListsAligned ==
  lock = Free => /\ beforeStockList = beforeEnterOrders
                 /\ enteredStockList = enteredOrders

\* No order is in two places or twice in one, even with stale indices in the
\* messages and fills for orders that have moved on.
NoDuplicates ==
  /\ IsInjective(beforeEnterOrders) /\ IsInjective(enteredOrders)
  /\ ToSet(beforeEnterOrders) \intersect ToSet(enteredOrders) = {}

\* An order is on the entered list exactly when it has the status, a side, and
\* exactly one trade.
EnteredHasOneTrade ==
  \A o \in Orders :
    IF o \in ToSet(enteredOrders)
    THEN order[o].status = "ENTERED" /\ order[o].type \in Sides /\ order[o].trades = 1
    ELSE order[o] = NoOrder

\* The fill of one trade request never enters two orders.
FillEntersOneOrder ==
  \A o, p \in Orders : entry[o] = entry[p] /\ entry[o] # None => o = p

\* The lists only lose an order of the before stage to the entered stage, and
\* an entered order stays entered with the side and trade it has.
NeverBack ==
  [][/\ \A o \in ToSet(enteredOrders) : o \in ToSet(enteredOrders') /\ order'[o] = order[o]
     /\ \A o \in ToSet(beforeEnterOrders) :
          o \in ToSet(beforeEnterOrders') \/ (lock' = Replying /\ reply'.order = o)]_vars

\* The lists implement the life of an order.
InTransit == IF lock = Replying THEN {reply.order} ELSE {}
Lifecycle == INSTANCE OrderLifecycle WITH
  Fills   <- Requests,
  waiting <- ToSet(beforeEnterOrders) \union InTransit,
  entered <- {[order |-> o, fill |-> entry[o]] : o \in ToSet(enteredOrders)}
LifecycleSpec == Lifecycle!Spec

\* One message bean starts one timer, and with one timer every request on its
\* way has a trade id of its own.
OneTimer ==
  Cardinality(Beans) = 1 =>
    /\ \A t \in Timers \ {1} : timer[t].at = "off"
    /\ \A q, r \in broker : q.id = r.id => q = r

\* With one timer, the index kept for a request is never below the position
\* of the order it was made for: removals only move an order down the list.
IndexNeverTooSmall ==
  Cardinality(Beans) = 1 =>
    \A r \in broker : r.id \in DOMAIN tradeMap =>
      \A k \in 1..Len(beforeEnterOrders) :
        beforeEnterOrders[k] = quoted[r.request] => k <= tradeMap[r.id].i

\* Nor does it err upwards by more than the number of orders entered by now.
IndexDrift ==
  Cardinality(Beans) = 1 /\ lock # Replying =>
    \A r \in broker : r.id \in DOMAIN tradeMap =>
      \A k \in 1..Len(beforeEnterOrders) :
        beforeEnterOrders[k] = quoted[r.request] =>
          tradeMap[r.id].i <= k + Len(enteredOrders)

\* So with one timer the first order to be entered is the one its request was
\* made for; it takes a second one for an index to be stale.
FirstEnteredRight ==
  Cardinality(Beans) = 1 /\ enteredOrders # <<>> =>
    quoted[entry[enteredOrders[1]]] = enteredOrders[1]

\* An order that waits is examined again and again, as long as it waits and
\* some timer lives.
Live(t) == timer[t].at \notin {"off", "dead"}
OrdersExamined ==
  \A o \in Orders :
    o \in ToSet(beforeEnterOrders) ~>
      \/ o \notin ToSet(beforeEnterOrders)
      \/ \E t \in Timers : timer[t].at \in {"quote", "id", "send", "put"} /\ timer[t].order = o
      \/ \A t \in Timers : ~Live(t)

\* isMonitoring says that a timer examines the orders.
MonitoringIsAlive == monitoring => \E t \in Timers : Live(t)

\* A fill enters the order whose enter condition was hit.
FillEntersItsOrder == \A o \in Orders : entry[o] # None => quoted[entry[o]] = o
=============================================================================
