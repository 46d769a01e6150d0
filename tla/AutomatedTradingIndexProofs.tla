-------------------- MODULE AutomatedTradingIndexProofs --------------------
(***************************************************************************)
(* What one message bean gives AutomatedTrading, for every number of       *)
(* orders and requests: one timer, and with it trade ids that name one     *)
(* request each and stored indices that never lie below the order they     *)
(* were taken for, nor above it by more than the orders entered by then.   *)
(*                                                                         *)
(* The index is the position the timer had in the stock list. It stays an  *)
(* upper bound because an order that a timer has seen is never appended    *)
(* again (Seen), and removals only move orders down (Below); that the same *)
(* holds of the order list, which RecordTrade uses, is what Aligned adds.  *)
(* A removal moves an order down by one place at most (Above), so that the *)
(* first order entered is the right one (First).                           *)
(***************************************************************************)
EXTENDS AutomatedTradingProofs, FiniteSetTheorems

USE DEF Elsewhere, Untouched, Settled, lists, FirstCall, HasStock, Enqueued, OrdersWithout,
        StocksWithout, Acknowledged, Logged

-----------------------------------------------------------------------------
(* One timer.                                                              *)

\* Only the first timer is ever started, by the bean's first order, and the
\* trade ids it hands out grow.
Lone ==
  /\ \A t \in Timers \ {1} : timer[t].at = "off"
  /\ \A b \in Beans :
       /\ monitoring => bean[b].at \notin {"start", "set"}
       /\ ~monitoring /\ bean[b].at # "set" => \A t \in Timers : timer[t].at = "off"
  /\ \A q \in broker : q.id < nextTradeId
  /\ \A q, r \in broker : q.id = r.id => q = r
  /\ \A t \in Timers :
       /\ timer[t].at = "send" => timer[t].id = nextTradeId
       /\ timer[t].at = "put" => timer[t].id < nextTradeId
  /\ \A id \in DOMAIN tradeMap : id < nextTradeId

LEMMA LoneInit == Init => Lone
BY DEF Init, Lone, NoTimer

\* With one bean, what a step of the bean does to the timers.
LEMMA LoneBean ==
  ASSUME Typed, Lone, NEW b, Beans = {b}, BeanStep(b)
  PROVE  Lone'
<1> USE Constants
<1>0. timer \in [Timers -> TimerTypes] /\ bean \in [Beans -> BeanTypes]
  BY DEF Typed, TypeOK
<1>1. UNCHANGED <<broker, nextTradeId, tradeMap>>
  BY DEF BeanStep, ReceiveOrder, StartMonitoring, SetMonitoring, AddStock, MissHistory, RecordOrder
<1>2. \A s \in BeanStates : [bean[b] EXCEPT !.at = s].at = s
  BY <1>0, RecordsTyped
<1>3. \A t \in Timers : [timer[t] EXCEPT !.at = "test"].at = "test"
  BY <1>0, RecordsTyped DEF TimerStates
<1>4. CASE ReceiveOrder(b)
  BY <1>0, <1>1, <1>4 DEF ReceiveOrder, Lone
<1>5. CASE StartMonitoring(b)
  <2>1. PICK t \in Timers :
          /\ timer[t].at = "off" /\ \A u \in 1..(t - 1) : timer[u].at # "off"
          /\ timer' = [timer EXCEPT ![t] = [timer[t] EXCEPT !.at = "test"]]
    BY <1>5 DEF StartMonitoring
  <2>2. \A u \in Timers : timer[u].at = "off"
    BY <1>5 DEF StartMonitoring, Lone
  <2>3. t = 1
    <3>1. t \in 1..MaxTimers
      BY DEF Timers
    <3>2. t # 1 => 1 \in 1..(t - 1) /\ 1 \in Timers
      BY <3>1 DEF Timers
    <3> QED
      BY <2>1, <2>2, <3>2
  <2>4. \A u \in Timers \ {1} : timer'[u] = timer[u]
    BY <1>0, <2>1, <2>3
  <2>5. \A u \in Timers : timer'[u].at \notin {"send", "put"}
    BY <1>0, <1>3, <2>1, <2>2
  <2>6. bean'[b].at = "set" /\ bean[b].at = "start" /\ monitoring' = monitoring
    BY <1>0, <1>2, <1>5 DEF StartMonitoring, BeanStates
  <2> QED
    BY <1>1, <2>4, <2>5, <2>6 DEF Lone
<1>6. CASE SetMonitoring(b)
  <2>1. bean'[b].at = "trade" /\ monitoring' = TRUE /\ timer' = timer
    BY <1>0, <1>2, <1>6 DEF SetMonitoring, BeanStates
  <2> QED
    BY <1>1, <2>1 DEF Lone
<1>7. CASE AddStock(b)
  <2>1. bean[b].at = "trade" /\ bean'[b].at = "record" /\ UNCHANGED <<monitoring, timer>>
    BY <1>0, <1>2, <1>7 DEF AddStock, BeanStates
  <2> QED
    BY <1>1, <2>1 DEF Lone
<1>8. CASE MissHistory(b) \/ RecordOrder(b)
  <2>1. bean[b].at # "set" /\ bean'[b].at = "idle" /\ UNCHANGED <<monitoring, timer>>
    BY <1>0, <1>8 DEF MissHistory, RecordOrder
  <2> QED
    BY <1>1, <2>1 DEF Lone
<1> QED
  BY <1>4, <1>5, <1>6, <1>7, <1>8 DEF BeanStep

LEMMA LoneTimer ==
  ASSUME Typed, Lone, NEW t \in Timers, TimerStep(t)
  PROVE  Lone'
<1> USE Constants
<1>0. /\ timer \in [Timers -> TimerTypes] /\ nextTradeId \in Nat
      /\ broker \subseteq [request : Requests, id : Nat] /\ DOMAIN tradeMap \subseteq Nat
  BY DEF Typed, TypeOK
<1>1. timer[t].at # "off"
  BY DEF TimerStep, TestLoop, GetStock, GetOrder, Quote, NoEntry, MissQuote, ReadTradeId,
     SendTrade, FailToSend, PutTrade
<1>2. t = 1
  BY <1>1 DEF Lone
<1>3. \A u \in Timers : u # t => timer'[u] = timer[u]
  BY <1>0 DEF TimerStep, TestLoop, GetStock, GetOrder, Quote, NoEntry, MissQuote, ReadTradeId,
     SendTrade, FailToSend, PutTrade
<1>4. /\ \A u \in Timers \ {1} : timer'[u].at = "off"
      /\ \A b \in Beans :
           /\ monitoring' => bean'[b].at \notin {"start", "set"}
           /\ ~(~monitoring' /\ bean'[b].at # "set")
  BY <1>1, <1>2, <1>3, TimerLeaves DEF Lone
<1>5. /\ \A x \in TimerTypes : [x EXCEPT !.at = "send", !.id = nextTradeId].at = "send"
      /\ \A x \in TimerTypes : [x EXCEPT !.at = "send", !.id = nextTradeId].id = nextTradeId
      /\ \A x \in TimerTypes, s \in Sides :
           [x EXCEPT !.at = "id", !.side = s, !.request = hits + 1].at = "id"
      /\ \A x \in TimerTypes, o \in Orders : [x EXCEPT !.at = "order", !.order = o].at = "order"
      /\ \A x \in TimerTypes, s \in TimerStates : [x EXCEPT !.at = s].at = s
      /\ \A s \in TimerStates : [NoTimer EXCEPT !.at = s].at = s
      /\ Skip(t).at = "test"
  BY DEF TimerTypes, NoTimer, Skip
<1>6. CASE ReadTradeId(t)
  <2>1. timer'[t].at = "send" /\ timer'[t].id = nextTradeId /\ UNCHANGED <<broker, nextTradeId, tradeMap>>
    BY <1>0, <1>5, <1>6 DEF ReadTradeId
  <2> QED
    BY <1>2, <1>3, <1>4, <2>1 DEF Lone
<1>7. CASE SendTrade(t)
  <2>1. timer[t].id = nextTradeId /\ nextTradeId' = nextTradeId + 1
    BY <1>7 DEF SendTrade, Lone
  <2>2. timer'[t].at = "put" /\ timer'[t].id = timer[t].id
    <3>1. timer[t] \in TimerTypes
      BY <1>0
    <3>2. [timer[t] EXCEPT !.at = "put"].at = "put" /\ [timer[t] EXCEPT !.at = "put"].id = timer[t].id
      BY <3>1 DEF TimerTypes
    <3> QED
      BY <1>0, <1>7, <3>2 DEF SendTrade
  <2>3. \A q \in broker' : q \in broker \/ q = [request |-> timer[t].request, id |-> nextTradeId]
    BY <1>7, <2>1 DEF SendTrade
  <2>4. \A q \in broker : q.id \in Nat /\ q.id < nextTradeId
    BY <1>0 DEF Lone
  <2>5. \A q \in broker' : q.id < nextTradeId'
    BY <1>0, <2>1, <2>3, <2>4
  <2>6. \A q, r \in broker' : q.id = r.id => q = r
    BY <1>0, <2>3, <2>4 DEF Lone
  <2>7. tradeMap' = tradeMap /\ \A id \in DOMAIN tradeMap : id < nextTradeId'
    BY <1>0, <1>7, <2>1 DEF SendTrade, Lone
  <2>8. timer'[t].id < nextTradeId'
    BY <1>0, <2>1, <2>2
  <2> QED
    BY <1>2, <1>3, <1>4, <2>2, <2>5, <2>6, <2>7, <2>8 DEF Lone
<1>8. CASE FailToSend(t)
  <2>1. timer[t].id = nextTradeId /\ nextTradeId' = nextTradeId + 1 /\ timer'[t].at = "test"
        /\ UNCHANGED <<broker, tradeMap>>
    BY <1>0, <1>5, <1>8 DEF FailToSend, Lone
  <2>2. \A q \in broker : q.id \in Nat /\ q.id < nextTradeId
    BY <1>0 DEF Lone
  <2>3. \A id \in DOMAIN tradeMap : id \in Nat /\ id < nextTradeId
    BY <1>0 DEF Lone
  <2> QED
    BY <1>0, <1>2, <1>3, <1>4, <2>1, <2>2, <2>3 DEF Lone
<1>9. CASE PutTrade(t)
  <2>1. timer'[t].at = "test" /\ UNCHANGED <<broker, nextTradeId>>
    BY <1>0, <1>5, <1>9 DEF PutTrade
  <2>2. timer[t].id < nextTradeId
    BY <1>9 DEF PutTrade, Lone
  <2>3. \A id \in DOMAIN tradeMap' : id \in DOMAIN tradeMap \/ id = timer[t].id
    BY <1>9 DEF PutTrade, TradeMapWith
  <2> QED
    BY <1>2, <1>3, <1>4, <2>1, <2>2, <2>3 DEF Lone
<1>10. CASE \/ TestLoop(t) \/ GetStock(t) \/ GetOrder(t) \/ NoEntry(t) \/ MissQuote(t) \/ Quote(t)
  <2>1. timer[t] \in TimerTypes
    BY <1>0
  <2>2. /\ [timer[t] EXCEPT !.at = "stock"].at = "stock"
        /\ [timer[t] EXCEPT !.at = "quote"].at = "quote"
        /\ \A o : [timer[t] EXCEPT !.at = "order", !.order = o].at = "order"
        /\ \A s : [timer[t] EXCEPT !.at = "id", !.side = s, !.request = hits + 1].at = "id"
    BY <2>1 DEF TimerTypes
  <2>3. /\ [NoTimer EXCEPT !.at = "test"].at = "test" /\ [NoTimer EXCEPT !.at = "dead"].at = "dead"
        /\ Skip(t).at = "test"
    BY DEF NoTimer, Skip
  <2>4. timer'[t].at \in {"stock", "order", "quote", "id", "test", "dead"}
    <3>1. CASE Quote(t)
      <4>1. PICK s \in Sides :
              timer' = [timer EXCEPT ![t] = [timer[t] EXCEPT !.at = "id", !.side = s,
                                                             !.request = hits + 1]]
        BY <3>1 DEF Quote
      <4> QED
        BY <1>0, <2>2, <4>1
    <3>2. CASE TestLoop(t)
      BY <1>0, <2>2, <2>3, <3>2 DEF TestLoop
    <3>3. CASE GetStock(t)
      BY <1>0, <2>2, <2>3, <3>3 DEF GetStock
    <3>4. CASE GetOrder(t)
      BY <1>0, <2>2, <2>3, <3>4 DEF GetOrder
    <3>5. CASE NoEntry(t) \/ MissQuote(t)
      BY <1>0, <2>3, <3>5 DEF NoEntry, MissQuote
    <3> QED
      BY <1>10, <3>1, <3>2, <3>3, <3>4, <3>5
  <2>5. UNCHANGED <<broker, nextTradeId, tradeMap>>
    BY <1>10 DEF TestLoop, GetStock, GetOrder, Quote, NoEntry, MissQuote
  <2> QED
    BY <1>2, <1>3, <1>4, <2>4, <2>5 DEF Lone
<1> QED
  BY <1>6, <1>7, <1>8, <1>9, <1>10 DEF TimerStep

LEMMA LoneNext ==
  ASSUME Typed, Lone, NEW b, Beans = {b}, [Next]_vars
  PROVE  Lone'
<1>1. ASSUME NEW r \in broker, NotFilled(r) \/ DeadLetter(r) \/ RemoveOrder(r) PROVE Lone'
  BY <1>1 DEF NotFilled, DeadLetter, RemoveOrder, Lone
<1>2. CASE EnterOrder
  <2>1. UNCHANGED <<monitoring, bean, timer, nextTradeId, tradeMap>> /\ broker' \subseteq broker
    BY <1>2 DEF EnterOrder
  <2> QED
    BY <2>1 DEF Lone
<1>3. CASE UNCHANGED vars
  BY <1>3 DEF vars, Lone
<1> QED
  BY <1>1, <1>2, <1>3, LoneBean, LoneTimer DEF Next, RecordTrade

\* A single bean, whatever fails, starts a single timer, and the broker never
\* has two requests under one trade id: with two beans both can be wrong.
THEOREM OneBeanOneTimer == Spec => []OneTimer
<1>1. CASE Cardinality(Beans) = 1
  <2>1. PICK b : Beans = {b}
    BY <1>1, BeansAssumption, FS_Singleton
  <2>2. Typed /\ Lone /\ [Next]_vars => Lone'
    BY <2>1, LoneNext
  <2>3. Lone => OneTimer
    BY DEF Lone, OneTimer
  <2> QED
    BY <2>2, <2>3, TypedInit, TypedNext, LoneInit, PTL DEF Spec
<1>2. CASE Cardinality(Beans) # 1
  <2>1. OneTimer
    BY <1>2 DEF OneTimer
  <2> QED
    BY <2>1, PTL
<1> QED
  BY <1>1, <1>2
-----------------------------------------------------------------------------
(* The index of a request.                                                 *)

\* Order o is no further up the stock list than position i.
Below(o, i) == \A k \in 1..Len(beforeStockList) : beforeStockList[k] = o => k <= i

\* Order o has been in the stock list: no bean will add it.
Seen(o) ==
  /\ o \in Orders /\ o <= received
  /\ \A b \in Beans : bean[b].at \in {"start", "set", "trade"} => bean[b].order # o

Examining == {"order", "quote"} \union Requesting

\* What a timer, the broker's requests and tradeMap say of an order was true
\* of it when it was read, and bounds its position from then on.
Index ==
  /\ IsInjective(beforeStockList)
  /\ \A k \in 1..Len(beforeStockList) : Seen(beforeStockList[k])
  /\ \A t \in Timers : timer[t].at \in Examining =>
       Seen(timer[t].order) /\ Below(timer[t].order, timer[t].i)
  /\ \A t \in Timers : timer[t].at \in Requesting =>
       timer[t].request <= hits /\ quoted[timer[t].request] = timer[t].order
  /\ \A q \in broker :
       /\ q.request <= hits /\ Seen(quoted[q.request])
       /\ q.id \in DOMAIN tradeMap => Below(quoted[q.request], tradeMap[q.id].i)
  /\ \A t \in Timers, q \in broker :
       timer[t].at = "put" /\ q.id = timer[t].id => q.request = timer[t].request

LEMMA IndexInit == Init => Index
BY EmptyElements DEF Init, Index, NoTimer, Examining, Requesting

\* An order that was seen stays seen, and only moves down the stock list.
LEMMA SeenMovesDown ==
  ASSUME Typed, [Next]_vars, NEW o, Seen(o)
  PROVE  Seen(o)' /\ \A i \in Nat : Below(o, i) => Below(o, i)'
<1>0. /\ beforeStockList \in Seq(Orders) /\ received \in 0..MaxOrders /\ bean \in [Beans -> BeanTypes]
      /\ Orders \subseteq Nat /\ MaxOrders \in Nat
  BY Constants DEF Typed, TypeOK
<1>1. ASSUME NEW b \in Beans, BeanStep(b) PROVE Seen(o)' /\ \A i \in Nat : Below(o, i) => Below(o, i)'
  <2>1. Seen(o)'
    <3>1. received' \in {received, received + 1} /\ o <= received' /\ o # received + 1
      BY <1>0, <1>1, BeanPlaces DEF Seen
    <3>2. ASSUME NEW c \in Beans, bean'[c].at \in {"start", "set", "trade"} PROVE bean'[c].order # o
      <4>1. CASE c # b
        BY <1>1, <3>2, <4>1, BeanPlaces DEF Seen
      <4>2. CASE c = b /\ bean[b].at = "idle"
        BY <1>1, <3>1, <3>2, <4>2, BeanPlaces
      <4>3. CASE c = b /\ bean[b].at \in {"start", "set", "trade"}
        BY <1>1, <3>2, <4>3, BeanPlaces DEF Seen
      <4>4. CASE c = b /\ bean[b].at = "record"
        <5>1. bean' = [bean EXCEPT ![b] = [at |-> "idle", order |-> None]]
          BY <1>1, <4>4 DEF BeanStep, ReceiveOrder, StartMonitoring, SetMonitoring, AddStock,
             MissHistory, RecordOrder
        <5> QED
          BY <1>0, <3>2, <4>4, <5>1
      <4> QED
        BY <1>0, <4>1, <4>2, <4>3, <4>4 DEF BeanTypes, BeanStates
    <3> QED
      BY <3>1, <3>2 DEF Seen
  <2>2. \/ beforeStockList' = beforeStockList
        \/ bean[b].at = "trade" /\ beforeStockList' = Append(beforeStockList, bean[b].order)
    BY <1>1 DEF BeanStep, ReceiveOrder, StartMonitoring, SetMonitoring, AddStock,
       MissHistory, RecordOrder
  <2>3. bean[b].at = "trade" => bean[b].order # o
    BY <1>1 DEF Seen
  <2> QED
    BY <1>0, <2>1, <2>2, <2>3 DEF Below
<1>2. ASSUME UNCHANGED <<received, bean, beforeStockList>>
      PROVE  Seen(o)' /\ \A i \in Nat : Below(o, i) => Below(o, i)'
  BY <1>2 DEF Seen, Below
<1>3. CASE EnterOrder
  <2>1. UNCHANGED <<received, bean>> /\ Seen(o)'
    BY <1>3 DEF EnterOrder, Seen
  <2>2. /\ reply.i \in 1..Len(beforeStockList) /\ Len(beforeStockList') = Len(beforeStockList) - 1
        /\ beforeStockList' = RemoveAt(beforeStockList, reply.i)
    BY <1>3, EnterOrderTyped
  <2>3. \A k \in 1..(Len(beforeStockList) - 1) :
          beforeStockList'[k] = IF k < reply.i THEN beforeStockList[k] ELSE beforeStockList[k + 1]
    BY <1>0, <2>2, RemoveAtPositions
  <2> QED
    BY <1>0, <2>1, <2>2, <2>3 DEF Below
<1>4. ASSUME NEW r \in broker, NotFilled(r) \/ DeadLetter(r) \/ RemoveOrder(r)
      PROVE  UNCHANGED <<received, bean, beforeStockList>>
  BY <1>4 DEF NotFilled, DeadLetter, RemoveOrder
<1> QED
  BY <1>1, <1>2, <1>3, <1>4, TimerLeaves DEF Next, RecordTrade, vars

\* What holds of every timer and request by a step that makes no new claim.
LEMMA IndexKept ==
  ASSUME Typed, Index, [Next]_vars,
         IsInjective(beforeStockList'),
         \A k \in 1..Len(beforeStockList') :
           (\E j \in 1..Len(beforeStockList) : beforeStockList'[k] = beforeStockList[j])
             \/ Seen(beforeStockList[k])',
         \A t \in Timers : timer'[t] = timer[t] \/ timer'[t].at \notin Examining,
         UNCHANGED <<hits, quoted, tradeMap>>, broker' \subseteq broker
  PROVE  Index'
<1>1. \A o : Seen(o) => Seen(o)' /\ \A i \in Nat : Below(o, i) => Below(o, i)'
  BY SeenMovesDown
<1>2. /\ \A t \in Timers : timer[t].i \in Nat
      /\ \A q \in broker : q.id \in DOMAIN tradeMap => tradeMap[q.id].i \in Nat
  <2>1. /\ timer \in [Timers -> TimerTypes]
        /\ \A id \in DOMAIN tradeMap : tradeMap[id] \in [i : Nat \ {0}, side : Sides]
    BY DEF Typed, TypeOK
  <2>2. \A x \in TimerTypes : x.i \in Nat
    BY DEF TimerTypes
  <2> QED
    BY <2>1, <2>2
<1>3. \A k \in 1..Len(beforeStockList') : Seen(beforeStockList[k])'
  BY <1>1 DEF Index
<1>4. ASSUME NEW t \in Timers, timer'[t].at \in Examining
      PROVE  timer'[t] = timer[t] /\ Seen(timer[t].order)' /\ Below(timer[t].order, timer[t].i)'
  BY <1>1, <1>2, <1>4 DEF Index
<1>5. ASSUME NEW t \in Timers, timer'[t].at \in Requesting
      PROVE  timer'[t] = timer[t] /\ timer[t].request <= hits' /\ quoted'[timer[t].request] = timer[t].order
  BY <1>4, <1>5 DEF Index, Examining
<1>6. ASSUME NEW q \in broker'
      PROVE  /\ q.request <= hits' /\ Seen(quoted[q.request])'
             /\ q.id \in DOMAIN tradeMap' => Below(quoted[q.request], tradeMap[q.id].i)'
  BY <1>1, <1>2 DEF Index
<1>7. \A t \in Timers, q \in broker' :
        timer'[t].at = "put" /\ q.id = timer'[t].id => q.request = timer'[t].request
  BY DEF Index, Examining, Requesting
<1> QED
  BY <1>3, <1>4, <1>5, <1>6, <1>7 DEF Index

\* An order is added to the stock list once: the bean that brings it holds it
\* alone.
LEMMA IndexBean ==
  ASSUME Typed, Apart, Index, NEW b \in Beans, BeanStep(b)
  PROVE  Index'
<1>0. /\ beforeStockList \in Seq(Orders) /\ bean \in [Beans -> BeanTypes]
      /\ timer \in [Timers -> TimerTypes] /\ Held
  BY DEF Typed, TypeOK
<1>1. UNCHANGED <<hits, quoted, tradeMap, broker>>
  BY DEF BeanStep, ReceiveOrder, StartMonitoring, SetMonitoring, AddStock, MissHistory, RecordOrder
<1>2. \A t \in Timers : timer'[t] = timer[t] \/ timer'[t].at \notin Examining
  <2>1. timer' = timer \/ \E t \in Timers : timer' = [timer EXCEPT ![t] = [timer[t] EXCEPT !.at = "test"]]
    BY DEF BeanStep, ReceiveOrder, StartMonitoring, SetMonitoring, AddStock, MissHistory, RecordOrder
  <2>2. \A t \in Timers : [timer[t] EXCEPT !.at = "test"].at \notin Examining
    BY <1>0, RecordsTyped DEF TimerStates, Examining, Requesting
  <2> QED
    BY <1>0, <2>1, <2>2
<1>3. CASE AddStock(b)
  <2> DEFINE o == bean[b].order
  <2>1. o \in Orders /\ o <= received /\ received' = received
    BY <1>0, <1>3 DEF AddStock, Held, Apart
  <2>2. o \notin ToSet(beforeStockList)
    <3>1. \A k \in 1..Len(beforeStockList) : beforeStockList[k] # o
      BY <1>3 DEF AddStock, Index, Seen
    <3> QED
      BY <1>0, <3>1 DEF ToSet
  <2>3. bean'[b].at = "record" /\ \A c \in Beans : c # b => bean'[c] = bean[c]
    BY <1>0, <1>3, RecordsTyped DEF AddStock, BeanStates
  <2>4. \A c \in Beans : c # b /\ bean[c].at # "idle" => bean[c].order # o
    BY <1>3 DEF AddStock, Apart
  <2>5. Seen(o)'
    <3>1. bean'[b].order = o
      BY <1>0, <1>3, RecordsTyped DEF AddStock, BeanStates
    <3> QED
      BY <2>1, <2>3, <2>4, <3>1 DEF Seen
  <2>6. bean'[b].order = o
    BY <1>0, <1>3, RecordsTyped DEF AddStock, BeanStates
  <2>7. beforeStockList' = Append(beforeStockList, o)
    BY <1>3 DEF AddStock
  <2>8. IsInjective(beforeStockList')
    BY <1>0, <2>1, <2>2, <2>7, AppendElements DEF Index
  <2>9. \A k \in 1..Len(beforeStockList') :
          \/ \E j \in 1..Len(beforeStockList) : beforeStockList'[k] = beforeStockList[j]
          \/ beforeStockList'[k] = bean'[b].order
    BY <1>0, <2>1, <2>6, <2>7
  <2>10. \A k \in 1..Len(beforeStockList') :
          \/ \E j \in 1..Len(beforeStockList) : beforeStockList'[k] = beforeStockList[j]
          \/ Seen(beforeStockList[k])'
    BY <2>5, <2>9 DEF Seen
  <2> QED
    BY <1>1, <1>2, <2>8, <2>10, IndexKept DEF Next
<1>4. CASE ~AddStock(b)
  <2>1. beforeStockList' = beforeStockList
    BY <1>4 DEF BeanStep, ReceiveOrder, StartMonitoring, SetMonitoring, MissHistory, RecordOrder
  <2>2. IsInjective(beforeStockList')
    BY <2>1 DEF Index
  <2> QED
    BY <1>1, <1>2, <2>1, <2>2, IndexKept DEF Next
<1> QED
  BY <1>3, <1>4

LEMMA IndexRecordTrade ==
  ASSUME Typed, Index, RecordTrade
  PROVE  Index'
<1>0. beforeStockList \in Seq(Orders) /\ IsInjective(beforeStockList)
  BY DEF Typed, TypeOK, Index
<1>1. ASSUME NEW r \in broker, NotFilled(r) \/ DeadLetter(r) \/ RemoveOrder(r) PROVE Index'
  <2>1. /\ UNCHANGED <<beforeStockList, timer, hits, quoted, tradeMap>> /\ broker' \subseteq broker
    BY <1>1 DEF NotFilled, DeadLetter, RemoveOrder
  <2> QED
    BY <1>0, <2>1, IndexKept DEF Next
<1>2. CASE EnterOrder
  <2>1. /\ UNCHANGED <<timer, hits, quoted, tradeMap>> /\ broker' \subseteq broker
    BY <1>2 DEF EnterOrder
  <2>2. /\ reply.i \in 1..Len(beforeStockList) /\ Len(beforeStockList') = Len(beforeStockList) - 1
        /\ beforeStockList' = RemoveAt(beforeStockList, reply.i)
    BY <1>2, EnterOrderTyped
  <2>3. \A k \in 1..(Len(beforeStockList) - 1) :
          beforeStockList'[k] = IF k < reply.i THEN beforeStockList[k] ELSE beforeStockList[k + 1]
    BY <1>0, <2>2, RemoveAtPositions
  <2>4. \A k \in 1..Len(beforeStockList') :
          \E j \in 1..Len(beforeStockList) : beforeStockList'[k] = beforeStockList[j]
    BY <1>0, <2>2, <2>3
  <2>5. IsInjective(beforeStockList')
    BY <1>0, <2>2, RemoveAtElements
  <2> QED
    BY <2>1, <2>4, <2>5, IndexKept DEF Next
<1> QED
  BY <1>1, <1>2 DEF RecordTrade

\* With a single timer, what it read is what it sends and keeps.
LEMMA IndexTimer ==
  ASSUME Typed, Lone, OnePerFill, Index, NEW t \in Timers, TimerStep(t)
  PROVE  Index'
<1> USE Constants
<1>0. /\ timer \in [Timers -> TimerTypes] /\ hits \in Nat /\ broker \subseteq [request : Requests, id : Nat]
      /\ beforeStockList \in Seq(Orders) /\ DOMAIN tradeMap \subseteq Nat /\ nextTradeId \in Nat
      /\ quoted \in [Requests -> Orders \union {None}]
  BY DEF Typed, TypeOK
<1>a. timer[t] \in TimerTypes /\ timer[t].i \in Nat
  BY <1>0 DEF TimerTypes
<1>b. /\ UNCHANGED <<beforeStockList, bean, received>>
      /\ \A o : (Seen(o) <=> Seen(o)') /\ \A i : Below(o, i) <=> Below(o, i)'
  BY TimerLeaves DEF Seen, Below
<1>c. \A u \in Timers : u # t => timer[u].at = "off" /\ timer'[u].at = "off"
  <2>1. timer[t].at # "off"
    BY DEF TimerStep, TestLoop, GetStock, GetOrder, Quote, NoEntry, MissQuote, ReadTradeId,
       SendTrade, FailToSend, PutTrade
  <2>2. \A u \in Timers : u # t => timer'[u] = timer[u]
    BY <1>0 DEF TimerStep, TestLoop, GetStock, GetOrder, Quote, NoEntry, MissQuote, ReadTradeId,
       SendTrade, FailToSend, PutTrade
  <2> QED
    BY <2>1, <2>2 DEF Lone
<1>d. IsInjective(beforeStockList') /\ \A k \in 1..Len(beforeStockList') : Seen(beforeStockList[k])'
  BY <1>b DEF Index, Seen
<1>e. Skip(t).at = "test" /\ [NoTimer EXCEPT !.at = "test"].at = "test" /\ [NoTimer EXCEPT !.at = "dead"].at = "dead"
  BY DEF Skip, NoTimer
\* A step that makes no claim: the timer is about to examine another order.
<1>f. ASSUME timer'[t].at \notin Examining, UNCHANGED <<hits, quoted, tradeMap, broker>> PROVE Index'
  <2>1. \A u \in Timers : timer'[u].at \notin Examining
    BY <1>c, <1>f DEF Examining, Requesting
  <2> QED
    BY <1>b, <1>d, <1>f, <2>1, IndexKept DEF Next
\* A step that keeps the claim it makes.
<1>g. ASSUME timer'[t].order = timer[t].order, timer'[t].i = timer[t].i,
             timer[t].at \in Examining, timer'[t].at \in Examining
      PROVE  \A u \in Timers : timer'[u].at \in Examining =>
               Seen(timer[u].order)' /\ Below(timer[u].order, timer[u].i)'
  <2>1. Seen(timer[t].order) /\ Below(timer[t].order, timer[t].i)
    BY <1>g DEF Index
  <2>2. Seen(timer[t].order)' /\ Below(timer[t].order, timer[t].i)'
    BY <1>b, <1>g, <2>1 DEF Seen, Below
  <2> QED
    BY <1>c, <2>2 DEF Examining, Requesting
<1>1. CASE TestLoop(t)
  <2>1. timer'[t].at \in {"stock", "test"}
    BY <1>0, <1>a, <1>e, <1>1 DEF TestLoop, TimerTypes
  <2> QED
    BY <1>1, <1>f, <2>1 DEF TestLoop, Examining, Requesting
<1>2. CASE GetStock(t)
  <2>0. UNCHANGED <<hits, quoted, tradeMap, broker>>
    BY <1>2 DEF GetStock
  <2>1. CASE timer[t].i \in DOMAIN beforeStockList
    <3>1. /\ timer'[t].at = "order" /\ timer'[t].i = timer[t].i
          /\ timer'[t].order = beforeStockList[timer[t].i]
      BY <1>0, <1>a, <1>2, <2>1 DEF GetStock, TimerTypes
    <3>2. Seen(timer[t].order)' /\ Below(timer[t].order, timer[t].i)'
      <4>1. Seen(beforeStockList[timer[t].i])
        BY <1>0, <2>1 DEF Index
      <4>2. Below(beforeStockList[timer[t].i], timer[t].i)
        BY <1>0, <1>a, <2>1 DEF Index, IsInjective, Below
      <4> QED
        BY <1>b, <3>1, <4>1, <4>2 DEF Seen, Below
    <3>3. \A q \in broker :
            /\ q.request <= hits' /\ Seen(quoted[q.request])'
            /\ q.id \in DOMAIN tradeMap' => Below(quoted[q.request], tradeMap[q.id].i)'
      BY <1>b, <2>0 DEF Index
    <3> QED
      BY <1>c, <1>d, <2>0, <3>1, <3>2, <3>3 DEF Index, Examining, Requesting
  <2>2. CASE timer[t].i \notin DOMAIN beforeStockList
    BY <1>0, <1>e, <1>f, <1>2, <2>0, <2>2 DEF GetStock, Examining, Requesting
  <2> QED
    BY <2>1, <2>2
<1>3. CASE GetOrder(t)
  <2>1. \/ timer'[t].at = "dead"
        \/ timer'[t].at = "quote" /\ timer'[t].order = timer[t].order /\ timer'[t].i = timer[t].i
    BY <1>0, <1>a, <1>e, <1>3 DEF GetOrder, TimerTypes
  <2>2. UNCHANGED <<hits, quoted, tradeMap, broker>> /\ timer[t].at = "order"
    BY <1>3 DEF GetOrder
  <2>3. CASE timer'[t].at = "quote" /\ timer'[t].order = timer[t].order /\ timer'[t].i = timer[t].i
    <3>1. \A u \in Timers : timer'[u].at \in Examining =>
            Seen(timer[u].order)' /\ Below(timer[u].order, timer[u].i)'
      BY <1>g, <2>2, <2>3 DEF Examining, Requesting
    <3>2. \A q \in broker :
            /\ q.request <= hits' /\ Seen(quoted[q.request])'
            /\ q.id \in DOMAIN tradeMap' => Below(quoted[q.request], tradeMap[q.id].i)'
      BY <1>b, <2>2 DEF Index, Seen, Below
    <3> QED
      BY <1>c, <1>d, <2>2, <2>3, <3>1, <3>2 DEF Index, Requesting
  <2> QED
    BY <1>f, <2>1, <2>2, <2>3 DEF Examining, Requesting
<1>4. CASE Quote(t)
  <2>1. PICK s \in Sides :
          timer' = [timer EXCEPT ![t] = [timer[t] EXCEPT !.at = "id", !.side = s, !.request = hits + 1]]
    BY <1>4 DEF Quote
  <2>2. /\ timer'[t].at = "id" /\ timer'[t].request = hits + 1
        /\ timer'[t].order = timer[t].order /\ timer'[t].i = timer[t].i
    BY <1>0, <1>a, <2>1 DEF TimerTypes
  <2>3. /\ timer[t].at = "quote" /\ hits' = hits + 1 /\ UNCHANGED <<broker, tradeMap>>
        /\ quoted' = [quoted EXCEPT ![hits + 1] = timer[t].order]
        /\ hits + 1 \in Requests
    BY <1>0, <1>4 DEF Quote, Requests
  <2>4. \A u \in Timers : timer'[u].at \in Examining =>
          Seen(timer[u].order)' /\ Below(timer[u].order, timer[u].i)'
    BY <1>g, <2>2, <2>3 DEF Examining, Requesting
  <2>5. ASSUME NEW q \in broker
        PROVE  /\ q.request <= hits' /\ Seen(quoted[q.request])'
               /\ q.id \in DOMAIN tradeMap' => Below(quoted[q.request], tradeMap[q.id].i)'
    <3>1. q.request \in Nat /\ q.request <= hits
      BY <1>0 DEF Index
    <3>2. q.request <= hits' /\ quoted'[q.request] = quoted[q.request]
      BY <1>0, <2>3, <3>1
    <3> QED
      BY <1>b, <2>3, <3>2 DEF Index, Seen, Below
  <2>6. timer'[t].request <= hits' /\ quoted'[timer'[t].request] = timer'[t].order
    BY <1>0, <2>2, <2>3
  <2> QED
    BY <1>c, <1>d, <2>2, <2>3, <2>4, <2>5, <2>6 DEF Index, Requesting
<1>5. CASE NoEntry(t) \/ MissQuote(t) \/ FailToSend(t)
  <2>1. timer'[t].at \in {"test", "dead"}
    BY <1>0, <1>e, <1>5 DEF NoEntry, MissQuote, FailToSend
  <2> QED
    BY <1>5, <1>f, <2>1 DEF NoEntry, MissQuote, FailToSend, Examining, Requesting
<1>6. CASE ReadTradeId(t)
  <2>1. /\ timer'[t].at = "send" /\ timer'[t].request = timer[t].request
        /\ timer'[t].order = timer[t].order /\ timer'[t].i = timer[t].i
        /\ timer[t].at = "id" /\ UNCHANGED <<hits, quoted, tradeMap, broker>>
    BY <1>0, <1>a, <1>6 DEF ReadTradeId, TimerTypes
  <2>2. \A u \in Timers : timer'[u].at \in Examining =>
          Seen(timer[u].order)' /\ Below(timer[u].order, timer[u].i)'
    BY <1>g, <2>1 DEF Examining, Requesting
  <2>3. \A q \in broker :
          /\ q.request <= hits' /\ Seen(quoted[q.request])'
          /\ q.id \in DOMAIN tradeMap' => Below(quoted[q.request], tradeMap[q.id].i)'
    BY <1>b, <2>1 DEF Index, Seen, Below
  <2> QED
    BY <1>c, <1>d, <2>1, <2>2, <2>3 DEF Index, Requesting
<1>7. CASE SendTrade(t)
  <2> DEFINE new == [request |-> timer[t].request, id |-> timer[t].id]
  <2>1. /\ timer'[t].at = "put" /\ timer'[t].request = timer[t].request /\ timer'[t].id = timer[t].id
        /\ timer'[t].order = timer[t].order /\ timer'[t].i = timer[t].i
        /\ timer[t].at = "send" /\ UNCHANGED <<hits, quoted, tradeMap>>
        /\ broker' = broker \union {new}
    BY <1>0, <1>a, <1>7 DEF SendTrade, TimerTypes
  <2>2. \A u \in Timers : timer'[u].at \in Examining =>
          Seen(timer[u].order)' /\ Below(timer[u].order, timer[u].i)'
    BY <1>g, <2>1 DEF Examining, Requesting
  <2>3. /\ new.request <= hits /\ quoted[new.request] = timer[t].order /\ Seen(timer[t].order)
        /\ new.id = nextTradeId /\ new.request = timer[t].request /\ new.id = timer[t].id
    BY <2>1 DEF Index, Lone, Examining, Requesting
  <2>4. new.id \notin DOMAIN tradeMap /\ \A q \in broker : q.id # new.id
    BY <1>0, <2>3 DEF Lone
  <2> HIDE DEF new
  <2>5. ASSUME NEW q \in broker'
        PROVE  /\ q.request <= hits' /\ Seen(quoted[q.request])'
               /\ q.id \in DOMAIN tradeMap' => Below(quoted[q.request], tradeMap[q.id].i)'
    <3>1. CASE q \in broker
      BY <1>b, <2>1, <3>1 DEF Index, Seen, Below
    <3>2. CASE q = new
      BY <1>b, <2>1, <2>3, <2>4, <3>2 DEF Seen
    <3> QED
      BY <2>1, <3>1, <3>2
  <2>6. \A q \in broker' : q.id = timer'[t].id => q.request = timer'[t].request
    BY <2>1, <2>3, <2>4
  <2>7. timer'[t].request <= hits' /\ quoted'[timer'[t].request] = timer'[t].order
    BY <2>1 DEF Index, Requesting
  <2> QED
    BY <1>c, <1>d, <2>1, <2>2, <2>5, <2>6, <2>7 DEF Index, Requesting
<1>8. CASE PutTrade(t)
  <2>1. timer'[t].at = "test" /\ UNCHANGED <<hits, quoted, broker>> /\ timer[t].at = "put"
    BY <1>0, <1>e, <1>8 DEF PutTrade
  <2>2. tradeMap' = TradeMapWith(timer[t].id, Logged(t))
    BY <1>8, <1>c DEF PutTrade
  <2>3. ASSUME NEW q \in broker, q.id \in DOMAIN tradeMap' PROVE Below(quoted[q.request], tradeMap[q.id].i)'
    <3>1. CASE q.id = timer[t].id
      <4>1. quoted[q.request] = timer[t].order /\ Below(timer[t].order, timer[t].i)
        BY <2>1, <3>1 DEF Index, Examining, Requesting
      <4>2. tradeMap'[q.id].i = timer[t].i
        BY <2>2, <2>3, <3>1 DEF TradeMapWith
      <4> QED
        BY <1>b, <2>1, <4>1, <4>2 DEF Below
    <3>2. CASE q.id # timer[t].id
      <4>1. q.id \in DOMAIN tradeMap /\ tradeMap'[q.id] = tradeMap[q.id]
        BY <2>2, <2>3, <3>2 DEF TradeMapWith
      <4>2. Below(quoted[q.request], tradeMap[q.id].i)
        BY <4>1 DEF Index
      <4> QED
        BY <1>b, <2>1, <4>1, <4>2 DEF Below
    <3> QED
      BY <3>1, <3>2
  <2>4. \A q \in broker : q.request <= hits' /\ Seen(quoted[q.request])'
    BY <1>b, <2>1 DEF Index, Seen
  <2> QED
    BY <1>c, <1>d, <2>1, <2>3, <2>4 DEF Index, Examining, Requesting
<1> QED
  BY <1>1, <1>2, <1>3, <1>4, <1>5, <1>6, <1>7, <1>8 DEF TimerStep

LEMMA IndexNext ==
  ASSUME Typed, Apart, Lone, OnePerFill, Index, [Next]_vars
  PROVE  Index'
<1>1. CASE UNCHANGED vars
  BY <1>1 DEF vars, Index, Seen, Below
<1> QED
  BY <1>1, IndexBean, IndexTimer, IndexRecordTrade DEF Next

\* With a single bean, and unless the database fails, the index a request is
\* kept under is never below the order it was made for: a fill may enter an
\* order further down, never one further up.
THEOREM IndexBoundsOrder == "database" \notin Failures => (Spec => []IndexNeverTooSmall)
<1> SUFFICES ASSUME "database" \notin Failures PROVE Spec => []IndexNeverTooSmall
  OBVIOUS
<1>1. CASE Cardinality(Beans) = 1
  <2>1. PICK b : Beans = {b}
    BY <1>1, BeansAssumption, FS_Singleton
  <2>2. Typed /\ Lone /\ [Next]_vars => Lone'
    BY <2>1, LoneNext
  <2>3. Typed /\ Apart /\ [Next]_vars => Apart'
    BY ApartNext
  <2>4. Typed /\ Aligned /\ [Next]_vars => Aligned'
    BY AlignedNext
  <2>5. Typed /\ Apart /\ OnePerFill /\ [Next]_vars => OnePerFill'
    BY OnePerFillNext
  <2>6. Typed /\ Apart /\ Lone /\ OnePerFill /\ Index /\ [Next]_vars => Index'
    BY IndexNext
  <2>7. ASSUME Typed, Aligned, Index PROVE IndexNeverTooSmall
    <3>1. ASSUME NEW r \in broker, r.id \in DOMAIN tradeMap, NEW k \in 1..Len(beforeEnterOrders),
                 beforeEnterOrders[k] = quoted[r.request]
          PROVE  k <= tradeMap[r.id].i
      <4>1. /\ Below(quoted[r.request], tradeMap[r.id].i) /\ tradeMap[r.id].i \in Nat
            /\ beforeStockList \in Seq(Orders) /\ beforeEnterOrders \in Seq(Orders)
            /\ lock \in Beans \union {Free, Replying}
        BY <2>7, <3>1 DEF Index, Typed, TypeOK
      <4>2. \/ k \in 1..Len(beforeStockList) /\ beforeStockList[k] = beforeEnterOrders[k]
            \/ k + 1 \in 1..Len(beforeStockList) /\ beforeStockList[k + 1] = beforeEnterOrders[k]
        <5>1. CASE lock = Free
          BY <2>7, <5>1 DEF Aligned
        <5>2. CASE lock = Replying
          <6>1. reply.i \in 1..Len(beforeStockList) /\ beforeEnterOrders = RemoveAt(beforeStockList, reply.i)
            BY <2>7, <5>2 DEF Aligned, Typed, Held
          <6>2. /\ Len(beforeEnterOrders) = Len(beforeStockList) - 1
                /\ \A j \in 1..(Len(beforeStockList) - 1) :
                     beforeEnterOrders[j] = IF j < reply.i THEN beforeStockList[j] ELSE beforeStockList[j + 1]
            BY <4>1, <6>1, RemoveAtPositions
          <6> QED
            BY <4>1, <6>2
        <5>3. CASE lock \in Beans
          <6>1. bean[lock].order \in Orders /\ beforeStockList = Append(beforeEnterOrders, bean[lock].order)
            BY <2>7, <5>3 DEF Aligned, Typed, Held, LockHeld
          <6> QED
            BY <4>1, <6>1
        <5> QED
          BY <4>1, <5>1, <5>2, <5>3
      <4> QED
        BY <3>1, <4>1, <4>2 DEF Below
    <3> QED
      BY <3>1 DEF IndexNeverTooSmall
  <2> QED
    BY <2>2, <2>3, <2>4, <2>5, <2>6, <2>7, TypedInit, TypedNext, ApartInit, AlignedInit,
       OnePerFillInit, LoneInit, IndexInit, PTL DEF Spec
<1>2. CASE Cardinality(Beans) # 1
  <2>1. IndexNeverTooSmall
    BY <1>2 DEF IndexNeverTooSmall
  <2> QED
    BY <2>1, PTL
<1> QED
  BY <1>1, <1>2

-----------------------------------------------------------------------------
(* How far an index can be off.                                            *)

\* Order o is no further than the number of entered orders below position i.
Above(o, i) ==
  \A k \in 1..Len(beforeStockList) : beforeStockList[k] = o => i <= k + Len(enteredStockList)

\* A stock list holds the wrapper of the order.
Stored(o) == o \in ToSet(beforeStockList) \union ToSet(enteredStockList)

\* The position a timer read, or tradeMap kept, was exact then, and every order
\* entered since makes it one too large at most.
Drift ==
  /\ \A t \in Timers : timer[t].at \in Examining =>
       Stored(timer[t].order) /\ Above(timer[t].order, timer[t].i)
  /\ \A q \in broker :
       /\ Stored(quoted[q.request])
       /\ q.id \in DOMAIN tradeMap => Above(quoted[q.request], tradeMap[q.id].i)

LEMMA DriftInit == Init => Drift
BY DEF Init, Drift, NoTimer, Examining, Requesting

\* A claim about an order outlives every step.
LEMMA StoredDrifts ==
  ASSUME Typed, [Next]_vars, NEW o, Seen(o), Stored(o)
  PROVE  Stored(o)' /\ \A i \in Int : Above(o, i) => Above(o, i)'
<1>0. /\ beforeStockList \in Seq(Orders) /\ enteredStockList \in Seq(Orders)
      /\ bean \in [Beans -> BeanTypes]
  BY DEF Typed, TypeOK
<1>1. ASSUME UNCHANGED <<beforeStockList, enteredStockList>>
      PROVE  Stored(o)' /\ \A i \in Int : Above(o, i) => Above(o, i)'
  BY <1>1 DEF Stored, Above
<1>2. ASSUME NEW b \in Beans, BeanStep(b), ~UNCHANGED beforeStockList
      PROVE  Stored(o)' /\ \A i \in Int : Above(o, i) => Above(o, i)'
  <2>1. /\ bean[b].at = "trade" /\ beforeStockList' = Append(beforeStockList, bean[b].order)
        /\ enteredStockList' = enteredStockList
    BY <1>2 DEF BeanStep, ReceiveOrder, StartMonitoring, SetMonitoring, AddStock,
       MissHistory, RecordOrder
  <2>2. bean[b].order \in Orders /\ bean[b].order # o
    BY <2>1 DEF Typed, Held, Seen
  <2>3. Stored(o)'
    BY <1>0, <2>1, <2>2, AppendElements DEF Stored
  <2>4. \A k \in 1..Len(beforeStockList') : beforeStockList'[k] = o =>
          k \in 1..Len(beforeStockList) /\ beforeStockList[k] = o
    BY <1>0, <2>1, <2>2
  <2> QED
    BY <2>1, <2>3, <2>4 DEF Above
<1>3. CASE EnterOrder
  <2>1. /\ reply.i \in 1..Len(beforeStockList) /\ Len(beforeStockList') = Len(beforeStockList) - 1
        /\ beforeStockList' = RemoveAt(beforeStockList, reply.i)
        /\ enteredStockList' = Append(enteredStockList, beforeStockList[reply.i])
    BY <1>3, EnterOrderTyped
  <2>2. \A k \in 1..(Len(beforeStockList) - 1) :
          beforeStockList'[k] = IF k < reply.i THEN beforeStockList[k] ELSE beforeStockList[k + 1]
    BY <1>0, <2>1, RemoveAtPositions
  <2>3. Stored(o)'
    <3>1. ToSet(enteredStockList') = ToSet(enteredStockList) \union {beforeStockList[reply.i]}
      BY <1>0, <2>1, AppendElements
    <3>2. ASSUME NEW k \in 1..Len(beforeStockList), beforeStockList[k] = o, k # reply.i
          PROVE  \E j \in 1..Len(beforeStockList') : beforeStockList'[j] = o
      <4>0. Len(beforeStockList) \in Nat
        BY <1>0
      <4>1. CASE k < reply.i
        <5>1. k \in 1..(Len(beforeStockList) - 1) /\ beforeStockList'[k] = o
          BY <2>1, <2>2, <3>2, <4>0, <4>1
        <5> QED
          BY <2>1, <5>1
      <4>2. CASE k > reply.i
        <5>1. k - 1 \in 1..(Len(beforeStockList) - 1) /\ ~(k - 1 < reply.i) /\ (k - 1) + 1 = k
          BY <2>1, <4>0, <4>2
        <5>2. beforeStockList'[k - 1] = o
          BY <2>2, <3>2, <5>1
        <5> QED
          BY <2>1, <5>1, <5>2
      <4> QED
        BY <2>1, <3>2, <4>0, <4>1, <4>2
    <3>3. \A s \in Seq(Orders) : o \in ToSet(s) <=> \E j \in 1..Len(s) : s[j] = o
      BY DEF ToSet
    <3>4. beforeStockList' \in Seq(Orders)
      BY <1>3, EnterOrderTyped
    <3> QED
      BY <1>0, <3>1, <3>2, <3>3, <3>4 DEF Stored
  <2>4. Len(enteredStockList') = Len(enteredStockList) + 1 /\ Len(enteredStockList) \in Nat
        /\ Len(beforeStockList) \in Nat
    BY <1>0, <2>1
  <2>5. \A k \in 1..Len(beforeStockList') : beforeStockList'[k] = o =>
          \E j \in {k, k + 1} : j \in 1..Len(beforeStockList) /\ beforeStockList[j] = o
    BY <2>1, <2>2, <2>4
  <2> QED
    BY <2>3, <2>4, <2>5 DEF Above
<1>4. UNCHANGED <<beforeStockList, enteredStockList>> \/ EnterOrder
        \/ \E b \in Beans : BeanStep(b) /\ ~UNCHANGED beforeStockList
  <2>1. ASSUME NEW r \in broker, NotFilled(r) \/ DeadLetter(r) \/ RemoveOrder(r)
        PROVE  UNCHANGED <<beforeStockList, enteredStockList>>
    BY <2>1 DEF NotFilled, DeadLetter, RemoveOrder
  <2>2. ASSUME NEW b \in Beans, BeanStep(b) PROVE UNCHANGED enteredStockList
    BY <2>2, BeanPlaces
  <2>3. ASSUME NEW t \in Timers, TimerStep(t) PROVE UNCHANGED <<beforeStockList, enteredStockList>>
    BY <2>3, TimerLeaves
  <2>4. UNCHANGED vars => UNCHANGED <<beforeStockList, enteredStockList>>
    BY DEF vars
  <2> QED
    BY <2>1, <2>2, <2>3, <2>4 DEF Next, RecordTrade
<1> QED
  BY <1>1, <1>2, <1>3, <1>4

\* A step that makes no new claim.
LEMMA DriftKept ==
  ASSUME Typed, Index, Drift, [Next]_vars,
         \A t \in Timers : timer'[t].at \in Examining =>
           /\ timer[t].at \in Examining
           /\ timer'[t].order = timer[t].order /\ timer'[t].i = timer[t].i,
         \A q \in broker' : q \in broker /\ quoted'[q.request] = quoted[q.request],
         tradeMap' = tradeMap
  PROVE  Drift'
<1>1. /\ \A t \in Timers : timer[t].i \in Int
      /\ \A id \in DOMAIN tradeMap : tradeMap[id].i \in Int
  BY DEF Typed, TypeOK, TimerTypes
<1>2. ASSUME NEW t \in Timers, timer'[t].at \in Examining
      PROVE  Stored(timer[t].order)' /\ Above(timer[t].order, timer[t].i)'
  <2>1. /\ Seen(timer[t].order) /\ Stored(timer[t].order) /\ Above(timer[t].order, timer[t].i)
        /\ timer'[t].order = timer[t].order /\ timer'[t].i = timer[t].i
    BY <1>2 DEF Index, Drift
  <2>2. \A o : o = timer[t].order => Stored(o)' /\ Above(o, timer[t].i)'
    BY <1>1, <2>1, StoredDrifts
  <2> QED
    BY <2>1, <2>2 DEF Stored, Above
<1>3. ASSUME NEW q \in broker'
      PROVE  /\ Stored(quoted[q.request])'
             /\ q.id \in DOMAIN tradeMap' => Above(quoted[q.request], tradeMap[q.id].i)'
  <2>1. /\ q \in broker /\ quoted'[q.request] = quoted[q.request] /\ Seen(quoted[q.request])
        /\ Stored(quoted[q.request])
        /\ q.id \in DOMAIN tradeMap => Above(quoted[q.request], tradeMap[q.id].i)
    BY <1>3 DEF Index, Drift
  <2>2. \A o : o = quoted[q.request] => Stored(o)' /\
          (q.id \in DOMAIN tradeMap => \A i : i = tradeMap[q.id].i => Above(o, i)')
    BY <1>1, <2>1, StoredDrifts
  <2> QED
    BY <2>1, <2>2 DEF Stored, Above
<1> QED
  BY <1>2, <1>3 DEF Drift

\* What the timer reads is exact when it reads it, and with a single timer what
\* it sends and keeps is what it read.
LEMMA DriftTimer ==
  ASSUME Typed, Lone, Index, Drift, NEW t \in Timers, TimerStep(t)
  PROVE  Drift'
<1> USE Constants
<1>0. /\ timer \in [Timers -> TimerTypes] /\ hits \in Nat /\ broker \subseteq [request : Requests, id : Nat]
      /\ beforeStockList \in Seq(Orders) /\ enteredStockList \in Seq(Orders)
      /\ DOMAIN tradeMap \subseteq Nat /\ nextTradeId \in Nat
      /\ quoted \in [Requests -> Orders \union {None}]
  BY DEF Typed, TypeOK
<1>a. timer[t] \in TimerTypes /\ timer[t].i \in Nat
  BY <1>0 DEF TimerTypes
<1>b. \A o : (Stored(o) <=> Stored(o)') /\ \A i : Above(o, i) <=> Above(o, i)'
  BY TimerLeaves DEF Stored, Above
<1>c. \A u \in Timers : u # t => timer'[u].at \notin Examining
  <2>1. timer[t].at # "off"
    BY DEF TimerStep, TestLoop, GetStock, GetOrder, Quote, NoEntry, MissQuote, ReadTradeId,
       SendTrade, FailToSend, PutTrade
  <2>2. \A u \in Timers : u # t => timer'[u] = timer[u] /\ timer[u].at = "off"
    BY <1>0, <2>1 DEF Lone, TimerStep, TestLoop, GetStock, GetOrder, Quote, NoEntry, MissQuote,
       ReadTradeId, SendTrade, FailToSend, PutTrade
  <2> QED
    BY <2>2 DEF Examining, Requesting
<1>d. Skip(t).at = "test" /\ [NoTimer EXCEPT !.at = "test"].at = "test" /\ [NoTimer EXCEPT !.at = "dead"].at = "dead"
  BY DEF Skip, NoTimer
\* The claims that are left alone.
<1>e. ASSUME timer'[t].at \in Examining =>
               /\ timer[t].at \in Examining
               /\ timer'[t].order = timer[t].order /\ timer'[t].i = timer[t].i,
             \A q \in broker' : q \in broker /\ quoted'[q.request] = quoted[q.request],
             tradeMap' = tradeMap
      PROVE  Drift'
  BY <1>c, <1>e, DriftKept DEF Next
<1>1. CASE TestLoop(t) \/ NoEntry(t) \/ MissQuote(t) \/ FailToSend(t)
  <2>1. timer'[t].at \in {"stock", "test", "dead"}
    <3>1. CASE TestLoop(t)
      BY <1>0, <1>a, <1>d, <3>1 DEF TestLoop, TimerTypes
    <3>2. CASE NoEntry(t) \/ MissQuote(t) \/ FailToSend(t)
      BY <1>0, <1>d, <3>2 DEF NoEntry, MissQuote, FailToSend
    <3> QED
      BY <1>1, <3>1, <3>2
  <2>2. UNCHANGED <<broker, quoted, tradeMap>>
    BY <1>1 DEF TestLoop, NoEntry, MissQuote, FailToSend
  <2> QED
    BY <1>e, <2>1, <2>2 DEF Examining, Requesting
<1>2. CASE GetStock(t)
  <2>1. UNCHANGED <<broker, quoted, tradeMap>>
    BY <1>2 DEF GetStock
  <2>2. CASE timer[t].i \in DOMAIN beforeStockList
    <3>1. timer'[t].i = timer[t].i /\ timer'[t].order = beforeStockList[timer[t].i]
      BY <1>0, <1>a, <1>2, <2>2 DEF GetStock, TimerTypes
    <3>2. timer[t].i \in 1..Len(beforeStockList) /\ Len(enteredStockList) \in Nat
      BY <1>0, <2>2
    <3>3. Stored(beforeStockList[timer[t].i])
      BY <1>0, <3>2 DEF Stored, ToSet
    <3>4. Above(beforeStockList[timer[t].i], timer[t].i)
      <4>1. \A k \in 1..Len(beforeStockList) :
              beforeStockList[k] = beforeStockList[timer[t].i] => k = timer[t].i
        BY <1>0, <3>2 DEF Index, IsInjective
      <4> QED
        BY <3>2, <4>1 DEF Above
    <3>5. Stored(timer[t].order)' /\ Above(timer[t].order, timer[t].i)'
      BY <1>b, <3>1, <3>3, <3>4 DEF Stored, Above
    <3>6. \A q \in broker :
            /\ Stored(quoted[q.request])'
            /\ q.id \in DOMAIN tradeMap' => Above(quoted[q.request], tradeMap[q.id].i)'
      BY <1>b, <2>1 DEF Drift, Stored, Above
    <3> QED
      BY <1>c, <2>1, <3>5, <3>6 DEF Drift
  <2>3. CASE timer[t].i \notin DOMAIN beforeStockList
    <3>1. timer'[t].at = "dead"
      BY <1>0, <1>d, <1>2, <2>3 DEF GetStock
    <3> QED
      BY <1>e, <2>1, <3>1 DEF Examining, Requesting
  <2> QED
    BY <2>2, <2>3
<1>3. CASE GetOrder(t) \/ ReadTradeId(t)
  <2>1. \/ timer'[t].at = "dead"
        \/ timer'[t].order = timer[t].order /\ timer'[t].i = timer[t].i
    <3>1. CASE GetOrder(t)
      BY <1>0, <1>a, <1>d, <3>1 DEF GetOrder, TimerTypes
    <3>2. CASE ReadTradeId(t)
      BY <1>0, <1>a, <3>2 DEF ReadTradeId, TimerTypes
    <3> QED
      BY <1>3, <3>1, <3>2
  <2>2. UNCHANGED <<quoted, tradeMap, broker>> /\ timer[t].at \in Examining
    BY <1>3 DEF GetOrder, ReadTradeId, Examining, Requesting
  <2> QED
    BY <1>e, <2>1, <2>2 DEF Examining, Requesting
<1>4. CASE Quote(t)
  <2>1. PICK s \in Sides :
          timer' = [timer EXCEPT ![t] = [timer[t] EXCEPT !.at = "id", !.side = s, !.request = hits + 1]]
    BY <1>4 DEF Quote
  <2>2. timer'[t].order = timer[t].order /\ timer'[t].i = timer[t].i
    BY <1>0, <1>a, <2>1 DEF TimerTypes
  <2>3. /\ timer[t].at \in Examining /\ UNCHANGED <<broker, tradeMap>>
        /\ quoted' = [quoted EXCEPT ![hits + 1] = timer[t].order]
    BY <1>4 DEF Quote, Examining
  <2>4. ASSUME NEW q \in broker PROVE quoted'[q.request] = quoted[q.request]
    <3>1. q.request \in Nat /\ q.request <= hits
      BY <1>0 DEF Index
    <3> QED
      BY <1>0, <2>3, <3>1
  <2> QED
    BY <1>e, <2>2, <2>3, <2>4
<1>5. CASE SendTrade(t)
  <2> DEFINE new == [request |-> timer[t].request, id |-> timer[t].id]
  <2>1. /\ timer'[t].order = timer[t].order /\ timer'[t].i = timer[t].i
        /\ timer[t].at = "send" /\ UNCHANGED <<quoted, tradeMap>>
        /\ broker' = broker \union {new}
    BY <1>0, <1>a, <1>5 DEF SendTrade, TimerTypes
  <2>2. /\ quoted[new.request] = timer[t].order /\ Stored(timer[t].order)
        /\ Above(timer[t].order, timer[t].i) /\ new.id = nextTradeId
    BY <2>1 DEF Index, Drift, Lone, Examining, Requesting
  <2>3. new.id \notin DOMAIN tradeMap
    BY <1>0, <2>2 DEF Lone
  <2> HIDE DEF new
  <2>4. ASSUME NEW q \in broker'
        PROVE  /\ Stored(quoted[q.request])'
               /\ q.id \in DOMAIN tradeMap' => Above(quoted[q.request], tradeMap[q.id].i)'
    <3>1. CASE q \in broker
      BY <1>b, <2>1, <3>1 DEF Drift, Stored, Above
    <3>2. CASE q = new
      BY <1>b, <2>1, <2>2, <2>3, <3>2 DEF Stored
    <3> QED
      BY <2>1, <3>1, <3>2
  <2>5. Stored(timer[t].order)' /\ Above(timer[t].order, timer[t].i)'
    BY <1>b, <2>1, <2>2 DEF Stored, Above
  <2> QED
    BY <1>c, <2>4, <2>5 DEF Drift
<1>6. CASE PutTrade(t)
  <2>1. timer'[t].at = "test" /\ UNCHANGED <<quoted, broker>> /\ timer[t].at = "put"
    BY <1>0, <1>d, <1>6 DEF PutTrade
  <2>2. tradeMap' = TradeMapWith(timer[t].id, Logged(t)) \/ tradeMap' = tradeMap
    BY <1>6 DEF PutTrade
  <2>3. ASSUME NEW q \in broker PROVE Stored(quoted[q.request])'
    BY <1>b, <2>1 DEF Drift, Stored
  <2>4. ASSUME NEW q \in broker, q.id \in DOMAIN tradeMap' PROVE Above(quoted[q.request], tradeMap[q.id].i)'
    <3>1. CASE tradeMap' = TradeMapWith(timer[t].id, Logged(t)) /\ q.id = timer[t].id
      <4>1. quoted[q.request] = timer[t].order /\ Above(timer[t].order, timer[t].i)
        BY <2>1, <3>1 DEF Index, Drift, Examining, Requesting
      <4>2. tradeMap'[q.id].i = timer[t].i
        BY <2>4, <3>1 DEF TradeMapWith
      <4> QED
        BY <1>b, <2>1, <4>1, <4>2 DEF Above
    <3>2. CASE ~(tradeMap' = TradeMapWith(timer[t].id, Logged(t)) /\ q.id = timer[t].id)
      <4>1. q.id \in DOMAIN tradeMap /\ tradeMap'[q.id] = tradeMap[q.id]
        BY <2>2, <2>4, <3>2 DEF TradeMapWith
      <4>2. Above(quoted[q.request], tradeMap[q.id].i)
        BY <4>1 DEF Drift
      <4> QED
        BY <1>b, <2>1, <4>1, <4>2 DEF Above
    <3> QED
      BY <3>1, <3>2
  <2> QED
    BY <1>c, <2>1, <2>3, <2>4 DEF Drift, Examining, Requesting
<1> QED
  BY <1>1, <1>2, <1>3, <1>4, <1>5, <1>6 DEF TimerStep

LEMMA DriftNext ==
  ASSUME Typed, Lone, Index, Drift, [Next]_vars
  PROVE  Drift'
<1>1. ASSUME NEW b \in Beans, BeanStep(b) PROVE Drift'
  <2>0. timer \in [Timers -> TimerTypes]
    BY DEF Typed, TypeOK
  <2>1. timer' = timer \/ \E t \in Timers : timer' = [timer EXCEPT ![t] = [timer[t] EXCEPT !.at = "test"]]
    BY <1>1 DEF BeanStep, ReceiveOrder, StartMonitoring, SetMonitoring, AddStock, MissHistory, RecordOrder
  <2>2. \A t \in Timers : [timer[t] EXCEPT !.at = "test"].at \notin Examining
    BY <2>0, RecordsTyped DEF TimerStates, Examining, Requesting
  <2>3. \A t \in Timers : timer'[t].at \in Examining => timer'[t] = timer[t]
    BY <2>0, <2>1, <2>2
  <2>4. UNCHANGED <<broker, quoted, tradeMap>>
    BY <1>1 DEF BeanStep, ReceiveOrder, StartMonitoring, SetMonitoring, AddStock, MissHistory, RecordOrder
  <2> QED
    BY <2>3, <2>4, DriftKept
<1>2. CASE RecordTrade
  <2>1. UNCHANGED <<timer, quoted, tradeMap>> /\ broker' \subseteq broker
    BY <1>2 DEF RecordTrade, NotFilled, DeadLetter, RemoveOrder, EnterOrder
  <2> QED
    BY <2>1, DriftKept
<1>3. CASE UNCHANGED vars
  <2>1. UNCHANGED <<timer, quoted, tradeMap, broker>>
    BY <1>3 DEF vars
  <2> QED
    BY <2>1, DriftKept
<1> QED
  BY <1>1, <1>2, <1>3, DriftTimer DEF Next

\* With a single bean, and unless the database fails, the index a request is
\* kept under is too large by no more than the number of orders entered by now.
\* (While RecordTrade is between its two removals the lists do not match.)
THEOREM DriftBounded == "database" \notin Failures => (Spec => []IndexDrift)
<1> SUFFICES ASSUME "database" \notin Failures PROVE Spec => []IndexDrift
  OBVIOUS
<1>1. CASE Cardinality(Beans) = 1
  <2>1. PICK b : Beans = {b}
    BY <1>1, BeansAssumption, FS_Singleton
  <2>2. Typed /\ Lone /\ [Next]_vars => Lone'
    BY <2>1, LoneNext
  <2>3. Typed /\ Apart /\ [Next]_vars => Apart'
    BY ApartNext
  <2>4. Typed /\ Aligned /\ [Next]_vars => Aligned'
    BY AlignedNext
  <2>5. Typed /\ Apart /\ OnePerFill /\ [Next]_vars => OnePerFill'
    BY OnePerFillNext
  <2>6. Typed /\ Apart /\ Lone /\ OnePerFill /\ Index /\ [Next]_vars => Index'
    BY IndexNext
  <2>7. Typed /\ Lone /\ Index /\ Drift /\ [Next]_vars => Drift'
    BY DriftNext
  <2>8. ASSUME Typed, Aligned, Drift PROVE IndexDrift
    <3>1. ASSUME lock # Replying, NEW r \in broker, r.id \in DOMAIN tradeMap,
                 NEW k \in 1..Len(beforeEnterOrders), beforeEnterOrders[k] = quoted[r.request]
          PROVE  tradeMap[r.id].i <= k + Len(enteredOrders)
      <4>1. /\ Above(quoted[r.request], tradeMap[r.id].i) /\ enteredStockList = enteredOrders
            /\ beforeStockList \in Seq(Orders) /\ beforeEnterOrders \in Seq(Orders)
            /\ lock \in Beans \union {Free}
        BY <2>8, <3>1 DEF Drift, Aligned, Typed, TypeOK
      <4>2. k \in 1..Len(beforeStockList) /\ beforeStockList[k] = beforeEnterOrders[k]
        <5>1. CASE lock = Free
          BY <2>8, <5>1 DEF Aligned
        <5>2. CASE lock \in Beans
          <6>1. bean[lock].order \in Orders /\ beforeStockList = Append(beforeEnterOrders, bean[lock].order)
            BY <2>8, <5>2 DEF Aligned, Typed, Held, LockHeld
          <6> QED
            BY <4>1, <6>1
        <5> QED
          BY <4>1, <5>1, <5>2
      <4> QED
        BY <3>1, <4>1, <4>2 DEF Above
    <3> QED
      BY <3>1 DEF IndexDrift
  <2> QED
    BY <2>2, <2>3, <2>4, <2>5, <2>6, <2>7, <2>8, TypedInit, TypedNext, ApartInit, AlignedInit,
       OnePerFillInit, LoneInit, IndexInit, DriftInit, PTL DEF Spec
<1>2. CASE Cardinality(Beans) # 1
  <2>1. IndexDrift
    BY <1>2 DEF IndexDrift
  <2> QED
    BY <2>1, PTL
<1> QED
  BY <1>1, <1>2

-----------------------------------------------------------------------------
(* The first order to be entered.                                          *)

\* It is the order its request was made for, on its way and on the list.
First ==
  /\ lock = Replying /\ enteredOrders = <<>> => quoted[reply.request] = reply.order
  /\ enteredOrders # <<>> =>
       /\ entry[enteredOrders[1]] # None
       /\ quoted[entry[enteredOrders[1]]] = enteredOrders[1]

LEMMA FirstInit == Init => First
BY Constants DEF Init, First

\* As long as nothing is entered, no index is off.
LEMMA FirstFill ==
  ASSUME Typed, Aligned, Index, Drift, NEW r \in broker, RemoveOrder(r), enteredOrders = <<>>
  PROVE  quoted'[reply'.request] = reply'.order
<1> DEFINE i == tradeMap[r.id].i
           o == quoted[r.request]
<1>1. /\ i \in 1..Len(beforeEnterOrders) /\ reply'.request = r.request
      /\ reply'.order = beforeEnterOrders[i]
  BY RemoveOrderTyped
<1>2. /\ beforeStockList \in Seq(Orders) /\ beforeStockList = beforeEnterOrders
      /\ enteredStockList = <<>> /\ r.id \in DOMAIN tradeMap /\ quoted' = quoted
  BY DEF RemoveOrder, Recordable, Aligned, Typed, TypeOK
<1>3. Stored(o) /\ Above(o, i) /\ Below(o, i)
  BY <1>2 DEF Index, Drift
<1> HIDE DEF i, o
<1>4. PICK k \in 1..Len(beforeStockList) : beforeStockList[k] = o
  BY <1>2, <1>3, EmptyElements DEF Stored, ToSet
<1>5. k <= i /\ i <= k + 0
  BY <1>2, <1>3, <1>4 DEF Above, Below
<1>6. k = i
  BY <1>1, <1>2, <1>5
<1> QED
  BY <1>1, <1>2, <1>4, <1>6 DEF o

LEMMA FirstNext ==
  ASSUME Typed, Apart, Aligned, OnePerFill, Index, Drift, First, [Next]_vars
  PROVE  First'
<1> USE Constants
<1>0. /\ enteredOrders \in Seq(Orders) /\ entry \in [Orders -> Requests \union {None}]
      /\ quoted \in [Requests -> Orders \union {None}] /\ hits \in Nat
  BY DEF Typed, TypeOK
<1>1. CASE EnterOrder
  <2>1. /\ enteredOrders' = Append(enteredOrders, reply.order) /\ reply.order \in Orders
        /\ reply.request \in Requests /\ reply.order \notin ToSet(enteredOrders)
        /\ lock = Replying /\ lock' = Free
    BY <1>1, EnterOrderTyped, EnterOrderPlaces
  <2>2. quoted' = quoted /\ entry' = [entry EXCEPT ![reply.order] = reply.request]
    BY <1>1 DEF EnterOrder
  <2>3. CASE enteredOrders = <<>>
    <3>1. enteredOrders'[1] = reply.order
      BY <2>1, <2>3
    <3> QED
      BY <1>0, <2>1, <2>2, <2>3, <3>1 DEF First, Requests
  <2>4. CASE enteredOrders # <<>>
    <3>1. enteredOrders'[1] = enteredOrders[1] /\ 1 \in 1..Len(enteredOrders)
      BY <1>0, <2>1, <2>4
    <3>2. enteredOrders[1] \in Orders /\ enteredOrders[1] # reply.order
      BY <1>0, <2>1, <3>1 DEF ToSet
    <3>3. entry'[enteredOrders[1]] = entry[enteredOrders[1]]
      BY <1>0, <2>2, <3>2
    <3> QED
      BY <2>1, <2>2, <2>4, <3>1, <3>3 DEF First
  <2> QED
    BY <2>3, <2>4
<1>2. ASSUME NEW r \in broker, RemoveOrder(r) PROVE First'
  <2>1. UNCHANGED <<enteredOrders, entry, quoted>>
    BY <1>2 DEF RemoveOrder
  <2> QED
    BY <1>2, <2>1, FirstFill DEF First
<1>3. ASSUME NEW r \in broker, NotFilled(r) \/ DeadLetter(r) PROVE First'
  <2>1. UNCHANGED <<lock, reply, enteredOrders, entry, quoted>>
    BY <1>3 DEF NotFilled, DeadLetter
  <2> QED
    BY <2>1 DEF First
<1>4. ASSUME NEW b \in Beans, BeanStep(b) PROVE First'
  <2>1. UNCHANGED <<enteredOrders, entry, quoted>> /\ lock' # Replying
    BY <1>4, BeanPlaces
  <2> QED
    BY <2>1 DEF First
<1>5. ASSUME NEW t \in Timers, TimerStep(t) PROVE First'
  <2>1. UNCHANGED <<lock, reply, enteredOrders, entry>>
    BY <1>5, TimerLeaves
  <2>2. quoted' = quoted \/ quoted' = [quoted EXCEPT ![hits + 1] = timer[t].order]
    BY <1>5 DEF TimerStep, TestLoop, GetStock, GetOrder, Quote, NoEntry, MissQuote, ReadTradeId,
       SendTrade, FailToSend, PutTrade
  <2>3. \A n \in Requests : n <= hits => quoted'[n] = quoted[n]
    BY <1>0, <2>2 DEF Requests
  <2>4. lock = Replying => reply.request \in Requests /\ reply.request <= hits
    BY DEF OnePerFill, Typed, Held
  <2>5. enteredOrders # <<>> => enteredOrders[1] \in Orders
    BY <1>0
  <2>6. enteredOrders # <<>> =>
          entry[enteredOrders[1]] \in Requests /\ entry[enteredOrders[1]] <= hits
    BY <1>0, <2>5 DEF First, OnePerFill
  <2> QED
    BY <2>1, <2>3, <2>4, <2>6 DEF First
<1>6. CASE UNCHANGED vars
  BY <1>6 DEF vars, First
<1> QED
  BY <1>1, <1>2, <1>3, <1>4, <1>5, <1>6 DEF Next, RecordTrade

\* With a single bean, and unless the database fails, the first fill recorded
\* enters the order its request was made for: only a second one can go wrong.
THEOREM FirstFillRight == "database" \notin Failures => (Spec => []FirstEnteredRight)
<1> SUFFICES ASSUME "database" \notin Failures PROVE Spec => []FirstEnteredRight
  OBVIOUS
<1>1. CASE Cardinality(Beans) = 1
  <2>1. PICK b : Beans = {b}
    BY <1>1, BeansAssumption, FS_Singleton
  <2>2. Typed /\ Lone /\ [Next]_vars => Lone'
    BY <2>1, LoneNext
  <2>3. Typed /\ Apart /\ [Next]_vars => Apart'
    BY ApartNext
  <2>4. Typed /\ Aligned /\ [Next]_vars => Aligned'
    BY AlignedNext
  <2>5. Typed /\ Apart /\ OnePerFill /\ [Next]_vars => OnePerFill'
    BY OnePerFillNext
  <2>6. Typed /\ Apart /\ Lone /\ OnePerFill /\ Index /\ [Next]_vars => Index'
    BY IndexNext
  <2>7. Typed /\ Lone /\ Index /\ Drift /\ [Next]_vars => Drift'
    BY DriftNext
  <2>8. Typed /\ Apart /\ Aligned /\ OnePerFill /\ Index /\ Drift /\ First /\ [Next]_vars => First'
    BY FirstNext
  <2>9. First => FirstEnteredRight
    BY DEF First, FirstEnteredRight
  <2> QED
    BY <2>2, <2>3, <2>4, <2>5, <2>6, <2>7, <2>8, <2>9, TypedInit, TypedNext, ApartInit,
       AlignedInit, OnePerFillInit, LoneInit, IndexInit, DriftInit, FirstInit, PTL DEF Spec
<1>2. CASE Cardinality(Beans) # 1
  <2>1. FirstEnteredRight
    BY <1>2 DEF FirstEnteredRight
  <2> QED
    BY <2>1, PTL
<1> QED
  BY <1>1, <1>2
=============================================================================
