----------------------- MODULE AutomatedTradingProofs -----------------------
(***************************************************************************)
(* Invariance proofs for AutomatedTrading, for every number of message     *)
(* beans, timers, orders and requests.                                     *)
(*                                                                         *)
(* Typed says what each thread may hold while it is inside a method. Apart *)
(* says that an order is in one place at a time, whatever fails; OnePerFill *)
(* that a trade request can enter one order, unless the database fails. On *)
(* them rest the step-by-step proof that the controller implements         *)
(* OrderLifecycle.                                                         *)
(*                                                                         *)
(* ListsAligned speaks of the moments at which no business method is under *)
(* way. The inductive invariant says what the lists are like in between:   *)
(* while a bean is between beforeStockList.add and beforeEnterOrders.add    *)
(* the stock list is one wrapper ahead, and while RecordTrade is between   *)
(* its two removes the order list is the stock list less one position.     *)
(***************************************************************************)
EXTENDS AutomatedTrading, TLAPS

USE DEF Elsewhere, Untouched, Settled, lists, FirstCall, HasStock, Enqueued, OrdersWithout,
        StocksWithout, Acknowledged, Logged

-----------------------------------------------------------------------------
(* Sequences without repetitions.                                          *)

\* What RemoveAt leaves, position by position.
LEMMA RemoveAtPositions ==
  ASSUME NEW S, NEW s \in Seq(S), NEW i \in 1..Len(s)
  PROVE  /\ RemoveAt(s, i) \in Seq(S)
         /\ Len(RemoveAt(s, i)) = Len(s) - 1
         /\ \A k \in 1..(Len(s) - 1) :
              RemoveAt(s, i)[k] = IF k < i THEN s[k] ELSE s[k + 1]
<1>1. Len(s) \in Nat /\ i \in Nat /\ Len(s) \in Int /\ 1 <= i /\ i <= Len(s)
  OBVIOUS
<1>2. \A k \in 1..Len(s) : s[k] \in S
  OBVIOUS
<1>3. /\ SubSeq(s, 1, i - 1) \in Seq(S) /\ Len(SubSeq(s, 1, i - 1)) = i - 1
      /\ \A k \in 1..(i - 1) : SubSeq(s, 1, i - 1)[k] = s[k]
  OBVIOUS
<1>4. /\ SubSeq(s, i + 1, Len(s)) \in Seq(S) /\ Len(SubSeq(s, i + 1, Len(s))) = Len(s) - i
      /\ \A k \in 1..(Len(s) - i) : SubSeq(s, i + 1, Len(s))[k] = s[i + k]
  BY <1>1
<1>5. ASSUME NEW a \in Seq(S), NEW b \in Seq(S), NEW n \in Nat, n = Len(s),
             Len(a) = i - 1, Len(b) = n - i,
             \A k \in 1..(i - 1) : a[k] = s[k],
             \A k \in 1..(n - i) : b[k] = s[i + k]
      PROVE  /\ a \o b \in Seq(S) /\ Len(a \o b) = n - 1
             /\ \A k \in 1..(n - 1) : (a \o b)[k] = IF k < i THEN s[k] ELSE s[k + 1]
  <2>1. a \o b \in Seq(S) /\ Len(a \o b) = n - 1
    <3>1. a \o b \in Seq(S) /\ Len(a \o b) = Len(a) + Len(b)
      OBVIOUS
    <3> QED
      BY <1>1, <1>5, <3>1
  <2>2. ASSUME NEW k \in 1..(n - 1) PROVE (a \o b)[k] = IF k < i THEN s[k] ELSE s[k + 1]
    <3>1. CASE k < i
      BY <1>1, <1>5, <3>1
    <3>2. CASE ~(k < i)
      <4>1. (a \o b)[k] = b[k - (i - 1)]
        BY <1>1, <1>5, <3>2
      <4>2. k - (i - 1) \in 1..(n - i) /\ i + (k - (i - 1)) = k + 1
        BY <1>1, <1>5, <3>2
      <4> QED
        BY <1>5, <3>2, <4>1, <4>2
    <3> QED
      BY <3>1, <3>2
  <2> QED
    BY <2>1, <2>2
<1> QED
  BY <1>1, <1>3, <1>4, <1>5 DEF RemoveAt

\* RemoveAt takes out one element, and no other of a list without repetitions.
LEMMA RemoveAtElements ==
  ASSUME NEW S, NEW s \in Seq(S), NEW i \in 1..Len(s), IsInjective(s)
  PROVE  /\ ToSet(RemoveAt(s, i)) = ToSet(s) \ {s[i]}
         /\ IsInjective(RemoveAt(s, i))
<1> DEFINE r == RemoveAt(s, i)
<1>1. /\ DOMAIN r = 1..(Len(s) - 1) /\ DOMAIN s = 1..Len(s)
      /\ \A k \in 1..(Len(s) - 1) : r[k] = IF k < i THEN s[k] ELSE s[k + 1]
  <2>1. /\ r \in Seq(S) /\ Len(r) = Len(s) - 1
        /\ \A k \in 1..(Len(s) - 1) : r[k] = IF k < i THEN s[k] ELSE s[k + 1]
    BY RemoveAtPositions
  <2> HIDE DEF r
  <2> QED
    BY <2>1
<1>2. \A a, b \in 1..Len(s) : s[a] = s[b] => a = b
  BY <1>1 DEF IsInjective
<1> HIDE DEF r
<1>3. ASSUME NEW a \in 1..(Len(s) - 1), NEW b \in 1..(Len(s) - 1), r[a] = r[b] PROVE a = b
  BY <1>1, <1>2, <1>3
<1>4. ASSUME NEW k \in 1..(Len(s) - 1) PROVE r[k] \in ToSet(s) \ {s[i]}
  BY <1>1, <1>2 DEF ToSet
<1>5. ASSUME NEW k \in 1..Len(s), s[k] # s[i] PROVE s[k] \in ToSet(r)
  <2>1. CASE k < i
    BY <1>1, <2>1 DEF ToSet
  <2>2. CASE k > i
    <3>1. k - 1 \in 1..(Len(s) - 1) /\ r[k - 1] = s[k]
      BY <1>1, <2>2
    <3> QED
      BY <1>1, <3>1 DEF ToSet
  <2> QED
    BY <1>5, <2>1, <2>2
<1>6. IsInjective(r)
  BY <1>1, <1>3 DEF IsInjective
<1>7. ToSet(r) \subseteq ToSet(s) \ {s[i]}
  BY <1>1, <1>4 DEF ToSet
<1>8. ToSet(s) \ {s[i]} \subseteq ToSet(r)
  <2>1. ASSUME NEW x \in ToSet(s), x # s[i] PROVE x \in ToSet(r)
    <3>1. PICK k \in 1..Len(s) : x = s[k]
      BY <1>1 DEF ToSet
    <3> QED
      BY <1>5, <2>1, <3>1
  <2> QED
    BY <2>1
<1> QED
  BY <1>6, <1>7, <1>8 DEF r

\* Append adds one element, and keeps a list without repetitions one.
LEMMA AppendElements ==
  ASSUME NEW S, NEW s \in Seq(S), NEW x \in S
  PROVE  /\ ToSet(Append(s, x)) = ToSet(s) \union {x}
         /\ IsInjective(s) /\ x \notin ToSet(s) => IsInjective(Append(s, x))
<1> DEFINE r == Append(s, x)
<1>1. /\ DOMAIN r = 1..(Len(s) + 1) /\ DOMAIN s = 1..Len(s) /\ Len(s) \in Nat
      /\ r[Len(s) + 1] = x /\ \A k \in 1..Len(s) : r[k] = s[k]
  OBVIOUS
<1> HIDE DEF r
<1>2. ToSet(r) = ToSet(s) \union {x}
  <2>1. \A k \in 1..(Len(s) + 1) : k \in 1..Len(s) \/ k = Len(s) + 1
    BY <1>1
  <2> QED
    BY <1>1, <2>1 DEF ToSet
<1>3. ASSUME IsInjective(s), x \notin ToSet(s) PROVE IsInjective(r)
  <2>1. \A a \in 1..Len(s) : s[a] # x
    BY <1>1, <1>3 DEF ToSet
  <2>2. \A a, b \in 1..Len(s) : s[a] = s[b] => a = b
    BY <1>1, <1>3 DEF IsInjective
  <2>3. ASSUME NEW a \in 1..(Len(s) + 1), NEW b \in 1..(Len(s) + 1), r[a] = r[b] PROVE a = b
    BY <1>1, <2>1, <2>2, <2>3
  <2> QED
    BY <1>1, <2>3 DEF IsInjective
<1> QED
  BY <1>2, <1>3 DEF r

\* The elements of a list are of its type.
LEMMA ElementsTyped ==
  ASSUME NEW S, NEW s \in Seq(S)
  PROVE  ToSet(s) \subseteq S /\ \A k \in 1..Len(s) : s[k] \in ToSet(s) /\ s[k] \in S
BY DEF ToSet

LEMMA EmptyElements == ToSet(<<>>) = {} /\ IsInjective(<<>>)
BY DEF ToSet, IsInjective

-----------------------------------------------------------------------------
(* Types.                                                                  *)

Requesting == {"id", "send", "put"}

\* What a thread inside a method holds is there to be used.
Held ==
  /\ \A b \in Beans : bean[b].at # "idle" => bean[b].order \in Orders
  /\ \A t \in Timers : timer[t].at \in Requesting =>
       timer[t].request \in Requests /\ timer[t].side \in Sides
  /\ lock = Replying =>
       /\ reply.request \in Requests /\ reply.order \in Orders /\ reply.side \in Sides
       /\ reply.i \in 1..Len(beforeStockList)

\* Only the bean that holds the lock is inside startNewTrade.
LockHeld == \A b \in Beans : bean[b].at = "record" <=> lock = b

\* The order list is never longer than the stock list, and shorter while a
\* method is between its two changes: a failing database only widens the gap.
Behind == Len(beforeEnterOrders) + (IF lock = Free THEN 0 ELSE 1) <= Len(beforeStockList)

Typed == TypeOK /\ Held /\ LockHeld /\ Behind

\* What a bean that goes on to its next call leaves.
LEMMA BeanMoves ==
  ASSUME NEW f \in [Beans -> BeanTypes], NEW b \in Beans, NEW s \in BeanStates
  PROVE  /\ [f EXCEPT ![b].at = s] \in [Beans -> BeanTypes]
         /\ [f EXCEPT ![b].at = s][b].at = s
         /\ [f EXCEPT ![b].at = s][b].order = f[b].order
         /\ \A c \in Beans : c # b => [f EXCEPT ![b].at = s][c] = f[c]
<1>1. [f[b] EXCEPT !.at = s] \in BeanTypes
  BY DEF BeanTypes
<1>2. [f EXCEPT ![b].at = s] = [f EXCEPT ![b] = [f[b] EXCEPT !.at = s]]
  OBVIOUS
<1>3. [f[b] EXCEPT !.at = s].at = s /\ [f[b] EXCEPT !.at = s].order = f[b].order
  BY DEF BeanTypes
<1> QED
  BY <1>1, <1>2, <1>3

LEMMA Constants ==
  /\ MaxOrders \in Nat /\ MaxTimers \in Nat /\ MaxSent \in Nat
  /\ None \notin Orders /\ None \notin Requests /\ Orders \subseteq Nat /\ Requests \subseteq Nat
  /\ Free \notin Beans /\ Replying \notin Beans /\ Free # Replying
BY BoundsAssumption, BeansAssumption DEF Orders, Requests, None, Free, Replying

LEMMA TypedInit == Init => Typed
<1> SUFFICES ASSUME Init PROVE Typed
  OBVIOUS
<1> USE Constants
<1>1. TypeOK
  <2>1. /\ [at |-> "idle", order |-> None] \in BeanTypes
        /\ NoTimer \in TimerTypes /\ NoReply \in ReplyTypes /\ NoOrder \in OrderTypes
    BY DEF BeanTypes, TimerTypes, ReplyTypes, OrderTypes, NoOrder, NoTimer, NoReply,
       BeanStates, TimerStates, Types, None
  <2>2. DOMAIN tradeMap = {}
    BY DEF Init
  <2>3. /\ bean \in [Beans -> BeanTypes] /\ timer \in [Timers -> TimerTypes]
        /\ reply \in ReplyTypes /\ order \in [Orders -> OrderTypes]
    BY <2>1 DEF Init
  <2>4. /\ shortOrLong \in [Orders -> Types]
        /\ quoted \in [Requests -> Orders \union {None}]
        /\ entry \in [Orders -> Requests \union {None}]
    BY DEF Init, Types
  <2>5. /\ beforeStockList \in Seq(Orders) /\ beforeEnterOrders \in Seq(Orders)
        /\ enteredStockList \in Seq(Orders) /\ enteredOrders \in Seq(Orders)
    BY DEF Init
  <2>6. monitoring \in BOOLEAN
    BY DEF Init
  <2>7. /\ lock \in Beans \union {Free, Replying}
        /\ received \in 0..MaxOrders /\ nextTradeId \in Nat /\ hits \in 0..MaxSent
        /\ broker \subseteq [request : Requests, id : Nat]
    BY DEF Init
  <2> QED
    BY <2>2, <2>3, <2>4, <2>5, <2>6, <2>7 DEF TypeOK
<1>2. Held /\ LockHeld /\ Behind
  BY DEF Init, Held, LockHeld, Behind, NoTimer, Requesting
<1> QED
  BY <1>1, <1>2 DEF Typed

\* A timer changes nothing but itself, the sides, the requests and their ids.
LEMMA TimerLeaves ==
  ASSUME NEW t \in Timers, TimerStep(t)
  PROVE  UNCHANGED <<monitoring, lock, bean, reply, received, beforeStockList,
                     beforeEnterOrders, enteredStockList, enteredOrders, order, entry>>
BY DEF TimerStep, TestLoop, GetStock, GetOrder, Quote, NoEntry, MissQuote, ReadTradeId,
   SendTrade, FailToSend, PutTrade

\* A step within a method leaves a thread's record of its type.
LEMMA RecordsTyped ==
  /\ \A x \in BeanTypes, s \in BeanStates :
       /\ [x EXCEPT !.at = s] \in BeanTypes
       /\ [x EXCEPT !.at = s].at = s /\ [x EXCEPT !.at = s].order = x.order
  /\ \A s \in BeanStates, o \in Orders \union {None} : [at |-> s, order |-> o] \in BeanTypes
  /\ \A x \in TimerTypes, s \in TimerStates :
       [x EXCEPT !.at = s] \in TimerTypes /\ [x EXCEPT !.at = s].at = s
BY DEF BeanTypes, TimerTypes

LEMMA TypedBean ==
  ASSUME Typed, NEW b \in Beans, BeanStep(b)
  PROVE  Typed'
<1> USE Constants
<1>0. TypeOK /\ Held /\ LockHeld /\ Behind
  BY DEF Typed
<1>1. CASE ReceiveOrder(b)
  <2>1. received + 1 \in Orders /\ received + 1 \in 0..MaxOrders
    BY <1>0, <1>1 DEF ReceiveOrder, TypeOK, Orders
  <2>2. [at |-> FirstCall, order |-> received + 1] \in BeanTypes
    BY <2>1, RecordsTyped DEF BeanStates
  <2>3. TypeOK'
    BY <1>0, <1>1, <2>1, <2>2 DEF ReceiveOrder, TypeOK
  <2> QED
    BY <1>0, <1>1, <2>1, <2>3 DEF ReceiveOrder, Typed, TypeOK, Held, LockHeld, Behind
<1>2. CASE StartMonitoring(b)
  <2>1. PICK t \in Timers : timer' = [timer EXCEPT ![t] = [timer[t] EXCEPT !.at = "test"]]
    BY <1>2 DEF StartMonitoring
  <2>2. /\ timer' \in [Timers -> TimerTypes] /\ timer'[t].at = "test"
        /\ \A u \in Timers : u # t => timer'[u] = timer[u]
    BY <1>0, <2>1, RecordsTyped DEF TypeOK, TimerStates
  <2>3. /\ bean' \in [Beans -> BeanTypes]
        /\ bean'[b].at = "set" /\ bean'[b].order = bean[b].order
        /\ \A c \in Beans : c # b => bean'[c] = bean[c]
    BY <1>0, <1>2, RecordsTyped DEF StartMonitoring, TypeOK, BeanStates
  <2>4. /\ UNCHANGED <<monitoring, lock, received, beforeStockList, beforeEnterOrders,
                       enteredStockList, enteredOrders, Elsewhere>>
        /\ bean[b].at = "start" /\ lock = Free
    BY <1>2 DEF StartMonitoring
  <2>5. TypeOK'
    BY <1>0, <2>2, <2>3, <2>4 DEF TypeOK
  <2>6. Held'
    BY <1>0, <2>2, <2>3, <2>4 DEF Held, Requesting
  <2>7. LockHeld' /\ Behind'
    BY <1>0, <2>3, <2>4 DEF LockHeld, Behind
  <2> QED
    BY <2>5, <2>6, <2>7 DEF Typed
<1>3. CASE SetMonitoring(b)
  <2>1. /\ bean' \in [Beans -> BeanTypes]
        /\ bean'[b].at = "trade" /\ bean'[b].order = bean[b].order
        /\ \A c \in Beans : c # b => bean'[c] = bean[c]
    <3>1. bean' = [bean EXCEPT ![b].at = "trade"] /\ "trade" \in BeanStates
      BY <1>3 DEF SetMonitoring, BeanStates
    <3>2. bean \in [Beans -> BeanTypes]
      BY <1>0 DEF TypeOK
    <3> QED
      BY <3>1, <3>2, BeanMoves
  <2>2. TypeOK'
    BY <1>0, <1>3, <2>1 DEF SetMonitoring, TypeOK
  <2>3. Held' /\ LockHeld' /\ Behind'
    BY <1>0, <1>3, <2>1 DEF SetMonitoring, Held, LockHeld, Behind
  <2> QED
    BY <2>2, <2>3 DEF Typed
<1>4. CASE AddStock(b)
  <2>1. bean[b].order \in Orders /\ beforeStockList \in Seq(Orders)
    BY <1>0, <1>4 DEF AddStock, TypeOK, Held
  <2>2. beforeStockList' \in Seq(Orders) /\ Len(beforeStockList') = Len(beforeStockList) + 1
    BY <1>4, <2>1 DEF AddStock
  <2>3. /\ bean' \in [Beans -> BeanTypes]
        /\ bean'[b].at = "record" /\ bean'[b].order = bean[b].order
        /\ \A c \in Beans : c # b => bean'[c] = bean[c]
    <3>1. bean' = [bean EXCEPT ![b].at = "record"] /\ "record" \in BeanStates
      BY <1>4 DEF AddStock, BeanStates
    <3>2. bean \in [Beans -> BeanTypes]
      BY <1>0 DEF TypeOK
    <3> QED
      BY <3>1, <3>2, BeanMoves
  <2>4. TypeOK'
    BY <1>0, <1>4, <2>2, <2>3 DEF AddStock, TypeOK
  <2>5. Behind'
    BY <1>0, <1>4, <2>2 DEF AddStock, TypeOK, Behind
  <2>6. Held' /\ LockHeld'
    BY <1>0, <1>4, <2>3 DEF AddStock, Held, LockHeld
  <2> QED
    BY <2>4, <2>5, <2>6 DEF Typed
<1>5. CASE MissHistory(b)
  <2>1. [at |-> "idle", order |-> None] \in BeanTypes
    BY RecordsTyped DEF BeanStates
  <2>2. TypeOK'
    BY <1>0, <1>5, <2>1 DEF MissHistory, TypeOK
  <2> QED
    BY <1>0, <1>5, <2>2 DEF MissHistory, Typed, TypeOK, Held, LockHeld, Behind
<1>6. CASE RecordOrder(b)
  <2>1. bean[b].order \in Orders /\ lock = b /\ beforeEnterOrders \in Seq(Orders)
    BY <1>0, <1>6 DEF RecordOrder, TypeOK, Held, LockHeld
  <2>2. /\ beforeEnterOrders' \in Seq(Orders)
        /\ Len(beforeEnterOrders') <= Len(beforeEnterOrders) + 1
    BY <1>6, <2>1 DEF RecordOrder
  <2>3. [at |-> "idle", order |-> None] \in BeanTypes
    BY RecordsTyped DEF BeanStates
  <2>4. TypeOK'
    BY <1>0, <1>6, <2>2, <2>3 DEF RecordOrder, TypeOK
  <2>5. Behind'
    BY <1>0, <1>6, <2>1, <2>2 DEF RecordOrder, TypeOK, Behind
  <2> QED
    BY <1>0, <1>6, <2>1, <2>4, <2>5 DEF RecordOrder, Typed, TypeOK, Held, LockHeld
<1> QED
  BY <1>1, <1>2, <1>3, <1>4, <1>5, <1>6 DEF BeanStep

LEMMA TypedTimer ==
  ASSUME Typed, NEW t \in Timers, TimerStep(t)
  PROVE  Typed'
<1> USE Constants
<1>0. TypeOK /\ Held /\ LockHeld /\ Behind
  BY DEF Typed
<1>a. timer[t] \in TimerTypes
  BY <1>0 DEF TypeOK
<1>g. timer \in [Timers -> TimerTypes]
  BY <1>0 DEF TypeOK
\* What is left to show of each action: the timer's new record, and the types
\* of what it shares with the others.
<1> DEFINE Stepped(x) ==
      /\ timer' = [timer EXCEPT ![t] = x]
      /\ x \in TimerTypes
      /\ x.at \in Requesting => x.request \in Requests /\ x.side \in Sides
    Shared ==
      /\ shortOrLong' \in [Orders -> Types]
      /\ nextTradeId' \in Nat
      /\ DOMAIN tradeMap' \subseteq Nat
      /\ \A id \in DOMAIN tradeMap' : tradeMap'[id] \in [i : Nat \ {0}, side : Sides]
      /\ hits' \in 0..MaxSent
      /\ broker' \subseteq [request : Requests, id : Nat]
      /\ quoted' \in [Requests -> Orders \union {None}]
<1>b. ASSUME NEW x, Stepped(x), Shared PROVE Typed'
  <2>1. /\ timer' \in [Timers -> TimerTypes]
        /\ timer'[t] = x /\ \A u \in Timers : u # t => timer'[u] = timer[u]
    BY <1>0, <1>b DEF TypeOK
  <2>2. TypeOK'
    BY <1>0, <1>b, <2>1, TimerLeaves DEF TypeOK
  <2>3. Held'
    BY <1>0, <1>b, <2>1, TimerLeaves DEF Held
  <2>4. LockHeld' /\ Behind'
    BY <1>0, TimerLeaves DEF LockHeld, Behind
  <2> QED
    BY <2>2, <2>3, <2>4 DEF Typed
<1>c. ASSUME UNCHANGED <<shortOrLong, nextTradeId, tradeMap, hits, broker, quoted>> PROVE Shared
  BY <1>0, <1>c DEF TypeOK
<1>d. ASSUME NEW s \in {"off", "test", "dead"}
      PROVE  [NoTimer EXCEPT !.at = s] \in TimerTypes /\ [NoTimer EXCEPT !.at = s].at \notin Requesting
  BY DEF NoTimer, TimerTypes, TimerStates, Types, Requesting
<1>e. Skip(t) \in TimerTypes /\ Skip(t).at \notin Requesting
  <2>1. timer[t].i + 1 \in Nat \ {0}
    BY <1>a DEF TimerTypes
  <2> QED
    BY <2>1 DEF Skip, NoTimer, TimerTypes, TimerStates, Types, Requesting
<1>f. ASSUME NEW s \in {"stock", "quote"}
      PROVE  [timer[t] EXCEPT !.at = s] \in TimerTypes /\ [timer[t] EXCEPT !.at = s].at \notin Requesting
  BY <1>a, RecordsTyped DEF TimerTypes, TimerStates, Requesting
<1> HIDE DEF Shared
<1>1. CASE TestLoop(t)
  <2>1. PICK x \in {[timer[t] EXCEPT !.at = "stock"], [NoTimer EXCEPT !.at = "test"]} :
          timer' = [timer EXCEPT ![t] = x]
    BY <1>0, <1>1 DEF TestLoop, TypeOK
  <2> QED
    BY <1>1, <1>b, <1>c, <1>d, <1>f, <2>1 DEF TestLoop
<1>2. CASE GetStock(t)
  <2>1. \A k \in DOMAIN beforeStockList : beforeStockList[k] \in Orders
    BY <1>0 DEF TypeOK
  <2>2. ASSUME NEW o \in Orders
        PROVE  /\ [timer[t] EXCEPT !.at = "order", !.order = o] \in TimerTypes
               /\ [timer[t] EXCEPT !.at = "order", !.order = o].at \notin Requesting
    BY <1>a DEF TimerTypes, TimerStates, Requesting
  <2>3. \/ timer' = [timer EXCEPT ![t] = [NoTimer EXCEPT !.at = "dead"]]
        \/ \E o \in Orders :
             timer' = [timer EXCEPT ![t] = [timer[t] EXCEPT !.at = "order", !.order = o]]
    BY <1>0, <1>2, <2>1 DEF GetStock, TypeOK
  <2> QED
    BY <1>2, <1>b, <1>c, <1>d, <2>2, <2>3 DEF GetStock
<1>3. CASE GetOrder(t)
  <2>1. PICK x \in {[timer[t] EXCEPT !.at = "quote"], [NoTimer EXCEPT !.at = "dead"]} :
          timer' = [timer EXCEPT ![t] = x]
    BY <1>0, <1>3 DEF GetOrder, TypeOK
  <2> QED
    BY <1>3, <1>b, <1>c, <1>d, <1>f, <2>1 DEF GetOrder
<1>4. CASE Quote(t)
  <2>1. hits + 1 \in Requests /\ hits + 1 \in 0..MaxSent
    BY <1>0, <1>4 DEF Quote, TypeOK, Requests
  <2>2. PICK s \in Sides :
          /\ shortOrLong' = [shortOrLong EXCEPT ![timer[t].order] = s]
          /\ timer' = [timer EXCEPT ![t] = [timer[t] EXCEPT !.at = "id", !.side = s,
                                                            !.request = hits + 1]]
    <3>1. PICK s \in Sides :
            /\ shortOrLong' = [shortOrLong EXCEPT ![timer[t].order] = s]
            /\ timer' = [timer EXCEPT ![t].at = "id", ![t].side = s, ![t].request = hits + 1]
      BY <1>4, Zenon DEF Quote
    <3>2. timer' = [timer EXCEPT ![t] = [timer[t] EXCEPT !.at = "id", !.side = s,
                                                        !.request = hits + 1]]
      BY <3>1
    <3> QED
      BY <3>1, <3>2
  <2> DEFINE x == [timer[t] EXCEPT !.at = "id", !.side = s, !.request = hits + 1]
  <2>3. x \in TimerTypes /\ x.request \in Requests /\ x.side \in Sides
    BY <1>a, <2>1 DEF TimerTypes, TimerStates, Types
  <2>4. Shared
    BY <1>0, <1>a, <1>4, <2>1, <2>2 DEF Quote, TypeOK, Types, TimerTypes, Shared
  <2> QED
    BY <1>b, <2>2, <2>3, <2>4
<1>5. CASE NoEntry(t)
  BY <1>5, <1>b, <1>c, <1>e DEF NoEntry
<1>6. CASE MissQuote(t)
  BY <1>6, <1>b, <1>c, <1>d DEF MissQuote
<1>7. CASE ReadTradeId(t)
  <2> DEFINE x == [timer[t] EXCEPT !.at = "send", !.id = nextTradeId]
  <2>1. x \in TimerTypes /\ x.request \in Requests /\ x.side \in Sides
    BY <1>0, <1>a, <1>7 DEF ReadTradeId, TypeOK, Held, TimerTypes, TimerStates, Requesting
  <2>2. timer' = [timer EXCEPT ![t] = x]
    BY <1>7 DEF ReadTradeId
  <2> QED
    BY <1>7, <1>b, <1>c, <2>1, <2>2 DEF ReadTradeId
<1>8. CASE SendTrade(t)
  <2> DEFINE x == [timer[t] EXCEPT !.at = "put"]
  <2>1. x \in TimerTypes /\ x.request \in Requests /\ x.side \in Sides /\ timer[t].request \in Requests
    BY <1>0, <1>a, <1>8 DEF SendTrade, Held, TimerTypes, TimerStates, Requesting
  <2>2. timer' = [timer EXCEPT ![t] = x]
    BY <1>8 DEF SendTrade
  <2>3. timer[t].id \in Nat
    BY <1>a DEF TimerTypes
  <2>4. nextTradeId' \in Nat /\ broker' \subseteq [request : Requests, id : Nat]
    <3>1. /\ nextTradeId' = timer[t].id + 1
          /\ broker' = broker \union {[request |-> timer[t].request, id |-> timer[t].id]}
      BY <1>8 DEF SendTrade
    <3>2. broker \subseteq [request : Requests, id : Nat]
      BY <1>0 DEF TypeOK
    <3> QED
      BY <2>1, <2>3, <3>1, <3>2
  <2>5. UNCHANGED <<shortOrLong, tradeMap, hits, quoted>>
    BY <1>8 DEF SendTrade
  <2>6. Shared
    BY <1>0, <2>4, <2>5 DEF TypeOK, Shared
  <2> QED
    BY <1>b, <2>1, <2>2, <2>6
<1>9. CASE FailToSend(t)
  <2>1. timer[t].id \in Nat
    BY <1>a DEF TimerTypes
  <2>2. Shared
    BY <1>0, <1>9, <2>1 DEF FailToSend, TypeOK, Shared
  <2> QED
    BY <1>9, <1>b, <1>e, <2>2 DEF FailToSend
<1>10. CASE PutTrade(t)
  <2>1. timer[t].id \in Nat /\ Logged(t) \in [i : Nat \ {0}, side : Sides]
    BY <1>0, <1>a, <1>10 DEF PutTrade, Held, TimerTypes, Requesting
  <2> HIDE DEF Logged
  <2>2. Shared
    BY <1>0, <1>10, <2>1 DEF PutTrade, TypeOK, TradeMapWith, Shared
  <2> QED
    BY <1>10, <1>b, <1>e, <2>2 DEF PutTrade
<1> QED
  BY <1>1, <1>2, <1>3, <1>4, <1>5, <1>6, <1>7, <1>8, <1>9, <1>10 DEF TimerStep

\* The element RecordTrade takes out, and what is left.
LEMMA RemoveOrderTyped ==
  ASSUME Typed, NEW r \in broker, RemoveOrder(r)
  PROVE  /\ tradeMap[r.id].i \in 1..Len(beforeEnterOrders)
         /\ reply' \in [request : Requests, i : Nat \ {0}, order : Orders, side : Sides]
         /\ reply' \in ReplyTypes
         /\ reply'.request = r.request
         /\ reply'.i = tradeMap[r.id].i
         /\ reply'.order = beforeEnterOrders[tradeMap[r.id].i]
         /\ beforeEnterOrders' = RemoveAt(beforeEnterOrders, tradeMap[r.id].i)
         /\ beforeEnterOrders' \in Seq(Orders)
         /\ Len(beforeEnterOrders') = Len(beforeEnterOrders) - 1
<1>1. TypeOK
  BY DEF Typed
<1>2. /\ tradeMap[r.id] \in [i : Nat \ {0}, side : Sides] /\ r \in [request : Requests, id : Nat]
      /\ tradeMap[r.id].i <= Len(beforeEnterOrders)
      /\ beforeEnterOrders \in Seq(Orders) /\ Len(beforeEnterOrders) \in Nat
  BY <1>1 DEF RemoveOrder, Recordable, TypeOK
<1>3. tradeMap[r.id].i \in 1..Len(beforeEnterOrders)
  BY <1>2
<1>4. beforeEnterOrders[tradeMap[r.id].i] \in Orders
  BY <1>2, <1>3
<1>5. /\ RemoveAt(beforeEnterOrders, tradeMap[r.id].i) \in Seq(Orders)
      /\ Len(RemoveAt(beforeEnterOrders, tradeMap[r.id].i)) = Len(beforeEnterOrders) - 1
  BY <1>2, <1>3, RemoveAtPositions
<1>6. reply' \in [request : Requests, i : Nat \ {0}, order : Orders, side : Sides]
  BY <1>2, <1>3, <1>4 DEF RemoveOrder
<1>7. reply' \in ReplyTypes
  BY <1>6 DEF ReplyTypes, Types
<1> QED
  BY <1>2, <1>3, <1>5, <1>6, <1>7 DEF RemoveOrder

\* What EnterOrder does to the lists.
LEMMA EnterOrderTyped ==
  ASSUME Typed, EnterOrder
  PROVE  /\ reply.i \in 1..Len(beforeStockList) /\ reply.order \in Orders
         /\ beforeStockList' = RemoveAt(beforeStockList, reply.i)
         /\ beforeStockList' \in Seq(Orders)
         /\ Len(beforeStockList') = Len(beforeStockList) - 1
         /\ enteredStockList' = Append(enteredStockList, beforeStockList[reply.i])
         /\ enteredStockList' \in Seq(Orders)
         /\ enteredOrders' = Append(enteredOrders, reply.order)
         /\ enteredOrders' \in Seq(Orders)
<1>1. /\ reply.i \in 1..Len(beforeStockList) /\ reply.order \in Orders
      /\ beforeStockList \in Seq(Orders) /\ enteredStockList \in Seq(Orders)
      /\ enteredOrders \in Seq(Orders)
  BY DEF EnterOrder, Typed, Held, TypeOK
<1>2. beforeStockList[reply.i] \in Orders
  BY <1>1
<1>3. /\ RemoveAt(beforeStockList, reply.i) \in Seq(Orders)
      /\ Len(RemoveAt(beforeStockList, reply.i)) = Len(beforeStockList) - 1
  BY <1>1, RemoveAtPositions
<1> QED
  BY <1>1, <1>2, <1>3 DEF EnterOrder

LEMMA TypedRecordTrade ==
  ASSUME Typed, RecordTrade
  PROVE  Typed'
<1> USE Constants
<1>0. TypeOK /\ Held /\ LockHeld /\ Behind
  BY DEF Typed
<1>1. ASSUME NEW r \in broker, NotFilled(r) \/ DeadLetter(r) PROVE Typed'
  <2>1. TypeOK'
    BY <1>0, <1>1 DEF NotFilled, DeadLetter, TypeOK
  <2> QED
    BY <1>0, <1>1, <2>1 DEF NotFilled, DeadLetter, Typed, Held, LockHeld, Behind
<1>2. ASSUME NEW r \in broker, RemoveOrder(r) PROVE Typed'
  <2>0. /\ lock = Free /\ lock' = Replying
        /\ UNCHANGED <<Settled, beforeStockList, enteredStockList, enteredOrders,
                       order, broker, entry>>
    BY <1>2 DEF RemoveOrder
  <2>1. TypeOK'
    BY <1>0, <1>2, <2>0, RemoveOrderTyped DEF TypeOK
  <2>2. Len(beforeEnterOrders) \in Nat /\ Len(beforeStockList) \in Nat
        /\ Len(beforeEnterOrders) <= Len(beforeStockList)
    BY <1>0, <2>0 DEF TypeOK, Behind
  <2>3. Behind'
    BY <1>2, <2>0, <2>2, RemoveOrderTyped DEF Behind
  <2>4. reply'.i \in 1..Len(beforeStockList)
    BY <1>2, <2>2, RemoveOrderTyped
  <2>5. Held'
    BY <1>0, <1>2, <2>0, <2>4, RemoveOrderTyped DEF Held
  <2>6. LockHeld'
    BY <1>0, <2>0 DEF LockHeld
  <2> QED
    BY <2>1, <2>3, <2>5, <2>6 DEF Typed
<1>3. CASE EnterOrder
  <2>0. /\ lock = Replying /\ lock' = Free /\ reply' = NoReply
        /\ UNCHANGED <<Settled, beforeEnterOrders>>
        /\ entry' = [entry EXCEPT ![reply.order] = reply.request]
        /\ broker' \subseteq broker
        /\ \/ order' = [order EXCEPT ![reply.order] =
                          [status |-> "ENTERED", type |-> reply.side,
                           trades |-> order[reply.order].trades + 1]]
           \/ order' = order
    BY <1>3 DEF EnterOrder
  <2>1. /\ reply.order \in Orders /\ reply.side \in Sides /\ reply.request \in Requests
    BY <1>0, <2>0 DEF Held
  <2>2. [status |-> "ENTERED", type |-> reply.side, trades |-> order[reply.order].trades + 1]
          \in OrderTypes
    <3>1. order[reply.order] \in OrderTypes
      BY <1>0, <2>1 DEF TypeOK
    <3>2. order[reply.order].trades + 1 \in Nat
      BY <3>1 DEF OrderTypes
    <3> QED
      BY <2>1, <3>2 DEF OrderTypes, Types
  <2>3. order' \in [Orders -> OrderTypes] /\ entry' \in [Orders -> Requests \union {None}]
    BY <1>0, <2>0, <2>1, <2>2 DEF TypeOK
  <2>4. NoReply \in ReplyTypes
    BY DEF NoReply, ReplyTypes, Types
  <2>5. TypeOK'
    BY <1>0, <1>3, <2>0, <2>3, <2>4, EnterOrderTyped DEF TypeOK
  <2>6. Behind'
    BY <1>0, <1>3, <2>0, EnterOrderTyped DEF TypeOK, Behind
  <2>7. Held' /\ LockHeld'
    BY <1>0, <2>0 DEF Held, LockHeld
  <2> QED
    BY <2>5, <2>6, <2>7 DEF Typed
<1> QED
  BY <1>1, <1>2, <1>3 DEF RecordTrade

LEMMA TypedNext == Typed /\ [Next]_vars => Typed'
<1> SUFFICES ASSUME Typed, [Next]_vars PROVE Typed'
  OBVIOUS
<1>1. CASE UNCHANGED vars
  BY <1>1 DEF vars, Typed, TypeOK, Held, LockHeld, Behind
<1> QED
  BY <1>1, TypedBean, TypedTimer, TypedRecordTrade DEF Next

\* The types of the controller's state hold, whatever fails: a position read
\* from a list or kept in tradeMap is used only where the lists have it.
THEOREM TypeCorrect == Spec => []TypeOK
<1>1. Typed => TypeOK
  BY DEF Typed
<1> QED
  BY <1>1, TypedInit, TypedNext, PTL DEF Spec

-----------------------------------------------------------------------------
(* An order is in one place at a time.                                     *)

\* The orders that have reached the lists or are on their way between them.
Placed == ToSet(beforeEnterOrders) \union InTransit \union ToSet(enteredOrders)

\* An order a bean holds is its own and not placed yet; a placed one has been
\* received, and is at one position of one list, or in transit.
Apart ==
  /\ \A b \in Beans : bean[b].at # "idle" => bean[b].order <= received /\ bean[b].order \notin Placed
  /\ \A b, c \in Beans :
       bean[b].at # "idle" /\ bean[c].at # "idle" /\ bean[b].order = bean[c].order => b = c
  /\ \A o \in Placed : o <= received
  /\ lock = Replying =>
       reply.order \notin ToSet(beforeEnterOrders) /\ reply.order \notin ToSet(enteredOrders)
  /\ NoDuplicates

LEMMA ApartInit == Init => Apart
BY EmptyElements, Constants DEF Init, Apart, Placed, InTransit, NoDuplicates

\* What a step of a bean does to the places of orders.
LEMMA BeanPlaces ==
  ASSUME Typed, NEW b \in Beans, BeanStep(b)
  PROVE  /\ UNCHANGED <<enteredOrders, enteredStockList, reply, order, entry, broker, hits, quoted>>
         /\ lock # Replying /\ lock' # Replying
         /\ \A c \in Beans : c # b => bean'[c] = bean[c]
         /\ received \in Nat /\ received' \in Nat /\ received' \in {received, received + 1}
         /\ \/ /\ bean[b].at = "idle" /\ bean'[b].order = received + 1 /\ received' = received + 1
               /\ beforeEnterOrders' = beforeEnterOrders
            \/ /\ bean[b].at # "idle" /\ received' = received
               /\ bean'[b].at # "idle" => bean'[b].order = bean[b].order
               /\ beforeEnterOrders' = beforeEnterOrders
            \/ /\ bean[b].at = "record" /\ bean'[b].at = "idle" /\ received' = received
               /\ beforeEnterOrders' = Append(beforeEnterOrders, bean[b].order)
<1> USE Constants
<1>1. TypeOK /\ LockHeld /\ Held
  BY DEF Typed
<1>2. received \in Nat /\ bean \in [Beans -> BeanTypes]
  BY <1>1 DEF TypeOK
<1>3. \A x \in BeanTypes, s \in BeanStates :
        [x EXCEPT !.at = s].at = s /\ [x EXCEPT !.at = s].order = x.order
  BY RecordsTyped
<1>4. CASE ReceiveOrder(b)
  BY <1>2, <1>4 DEF ReceiveOrder
<1>5. CASE StartMonitoring(b)
  BY <1>2, <1>3, <1>5 DEF StartMonitoring, BeanStates
<1>6. CASE SetMonitoring(b)
  BY <1>2, <1>3, <1>6 DEF SetMonitoring, BeanStates
<1>7. CASE AddStock(b)
  BY <1>2, <1>3, <1>7 DEF AddStock, BeanStates
<1>8. CASE MissHistory(b)
  BY <1>2, <1>8 DEF MissHistory
<1>9. CASE RecordOrder(b)
  <2>1. lock = b
    BY <1>1, <1>9 DEF RecordOrder, LockHeld
  <2> QED
    BY <1>2, <1>9, <2>1 DEF RecordOrder
<1> QED
  BY <1>4, <1>5, <1>6, <1>7, <1>8, <1>9 DEF BeanStep

\* RemoveOrder takes one order out of the order list, into transit.
LEMMA RemoveOrderPlaces ==
  ASSUME Typed, Apart, NEW r \in broker, RemoveOrder(r)
  PROVE  /\ ToSet(beforeEnterOrders') = ToSet(beforeEnterOrders) \ {reply'.order}
         /\ reply'.order \in ToSet(beforeEnterOrders)
         /\ IsInjective(beforeEnterOrders')
         /\ lock = Free /\ lock' = Replying
         /\ UNCHANGED <<enteredOrders, bean, received, order, entry, broker>>
<1> DEFINE i == tradeMap[r.id].i
<1>1. beforeEnterOrders \in Seq(Orders) /\ IsInjective(beforeEnterOrders)
  BY DEF Typed, TypeOK, Apart, NoDuplicates
<1>2. /\ i \in 1..Len(beforeEnterOrders)
      /\ reply'.order = beforeEnterOrders[i]
      /\ beforeEnterOrders' = RemoveAt(beforeEnterOrders, i)
  BY RemoveOrderTyped
<1> HIDE DEF i
<1>3. /\ ToSet(RemoveAt(beforeEnterOrders, i)) = ToSet(beforeEnterOrders) \ {beforeEnterOrders[i]}
      /\ IsInjective(RemoveAt(beforeEnterOrders, i))
  BY <1>1, <1>2, RemoveAtElements
<1>4. beforeEnterOrders[i] \in ToSet(beforeEnterOrders)
  BY <1>1, <1>2, ElementsTyped
<1> QED
  BY <1>2, <1>3, <1>4 DEF RemoveOrder

\* EnterOrder takes the order in transit to the entered list.
LEMMA EnterOrderPlaces ==
  ASSUME Typed, Apart, EnterOrder
  PROVE  /\ ToSet(enteredOrders') = ToSet(enteredOrders) \union {reply.order}
         /\ reply.order \in Orders /\ reply.request \in Requests /\ reply.side \in Sides
         /\ reply.order \notin ToSet(enteredOrders) /\ reply.order \notin ToSet(beforeEnterOrders)
         /\ IsInjective(enteredOrders')
         /\ lock = Replying /\ lock' = Free
         /\ UNCHANGED <<beforeEnterOrders, bean, received, timer, hits>>
<1>1. /\ enteredOrders \in Seq(Orders) /\ IsInjective(enteredOrders)
      /\ lock = Replying /\ lock' = Free
      /\ reply.order \in Orders /\ reply.request \in Requests /\ reply.side \in Sides
      /\ reply.order \notin ToSet(enteredOrders) /\ reply.order \notin ToSet(beforeEnterOrders)
  BY DEF Typed, TypeOK, Held, Apart, NoDuplicates, EnterOrder
<1>2. enteredOrders' = Append(enteredOrders, reply.order)
  BY EnterOrderTyped
<1>3. /\ ToSet(Append(enteredOrders, reply.order)) = ToSet(enteredOrders) \union {reply.order}
      /\ IsInjective(Append(enteredOrders, reply.order))
  BY <1>1, AppendElements
<1> QED
  BY <1>1, <1>2, <1>3 DEF EnterOrder

LEMMA ApartNext ==
  ASSUME Typed, Apart, [Next]_vars
  PROVE  Apart'
<1> USE Constants
<1>0. /\ TypeOK /\ Held /\ ToSet(beforeEnterOrders) \subseteq Orders
      /\ ToSet(enteredOrders) \subseteq Orders
  BY ElementsTyped DEF Typed, TypeOK
<1>1. ASSUME NEW b \in Beans, BeanStep(b) PROVE Apart'
  <2> USE <1>1, BeanPlaces
  <2>0. /\ InTransit = {} /\ InTransit' = {}
        /\ \A o \in Placed : o \in Nat /\ o <= received
        /\ \A c \in Beans : bean[c].at # "idle" => bean[c].order \in Nat /\ bean[c].order <= received
    BY <1>0 DEF InTransit, Held, Apart, Placed
  <2>1. CASE /\ bean[b].at = "idle" /\ bean'[b].order = received + 1 /\ received' = received + 1
             /\ beforeEnterOrders' = beforeEnterOrders
    <3>1. Placed' = Placed
      BY <2>0, <2>1 DEF Placed
    <3>2. \A o \in Placed : o <= received' /\ o # received + 1
      BY <2>0, <2>1
    <3>3. \A c \in Beans : c # b /\ bean'[c].at # "idle" =>
            bean'[c].order = bean[c].order /\ bean[c].order <= received' /\ bean[c].order # received + 1
      BY <2>0, <2>1
    <3> QED
      BY <2>1, <3>1, <3>2, <3>3 DEF Apart, NoDuplicates
  <2>2. CASE /\ bean[b].at # "idle" /\ received' = received
             /\ bean'[b].at # "idle" => bean'[b].order = bean[b].order
             /\ beforeEnterOrders' = beforeEnterOrders
    <3>1. Placed' = Placed
      BY <2>0, <2>2 DEF Placed
    <3> QED
      BY <2>2, <3>1 DEF Apart, NoDuplicates
  <2>3. CASE /\ bean[b].at = "record" /\ bean'[b].at = "idle" /\ received' = received
             /\ beforeEnterOrders' = Append(beforeEnterOrders, bean[b].order)
    <3>1. /\ beforeEnterOrders \in Seq(Orders) /\ bean[b].order \in Orders
          /\ bean[b].order \notin Placed /\ IsInjective(beforeEnterOrders)
      BY <1>0, <2>3 DEF TypeOK, Held, Apart, NoDuplicates
    <3>2. /\ ToSet(beforeEnterOrders') = ToSet(beforeEnterOrders) \union {bean[b].order}
          /\ IsInjective(beforeEnterOrders')
      BY <2>3, <3>1, AppendElements DEF Placed
    <3>3. Placed' = Placed \union {bean[b].order}
      BY <2>0, <3>2 DEF Placed
    <3>4. NoDuplicates'
      BY <3>1, <3>2 DEF Apart, NoDuplicates, Placed
    <3> QED
      BY <2>3, <3>3, <3>4 DEF Apart
  <2> QED
    BY <2>1, <2>2, <2>3
<1>2. ASSUME NEW t \in Timers, TimerStep(t) PROVE Apart'
  BY <1>2, TimerLeaves DEF Apart, Placed, InTransit, NoDuplicates
<1>3. CASE RecordTrade
  <2>1. ASSUME NEW r \in broker, NotFilled(r) \/ DeadLetter(r) PROVE Apart'
    BY <2>1 DEF NotFilled, DeadLetter, Apart, Placed, InTransit, NoDuplicates
  <2>2. ASSUME NEW r \in broker, RemoveOrder(r) PROVE Apart'
    <3>1. InTransit = {} /\ InTransit' = {reply'.order} /\ Placed' = Placed
      BY <2>2, RemoveOrderPlaces DEF InTransit, Placed
    <3> QED
      BY <2>2, <3>1, RemoveOrderPlaces DEF Apart, NoDuplicates
  <2>3. CASE EnterOrder
    <3>1. InTransit = {reply.order} /\ InTransit' = {} /\ Placed' = Placed
      BY <2>3, EnterOrderPlaces DEF InTransit, Placed
    <3> QED
      BY <2>3, <3>1, EnterOrderPlaces DEF Apart, NoDuplicates
  <2> QED
    BY <1>3, <2>1, <2>2, <2>3 DEF RecordTrade
<1>4. CASE UNCHANGED vars
  BY <1>4 DEF vars, Apart, Placed, InTransit, NoDuplicates
<1> QED
  BY <1>1, <1>2, <1>3, <1>4 DEF Next

\* No order is in two places or twice in one, whatever fails and however often
\* a fill is delivered again.
THEOREM OrdersApart == Spec => []NoDuplicates
<1>1. Typed /\ Apart /\ [Next]_vars => Apart'
  BY ApartNext
<1>2. Apart => NoDuplicates
  BY DEF Apart
<1> QED
  BY <1>1, <1>2, TypedInit, TypedNext, ApartInit, PTL DEF Spec

\* A waiting order leaves its list only into transit, and what is entered stays
\* entered as it is: no step of any thread takes an order back.
THEOREM OneWay == Spec => NeverBack
<1> DEFINE Kept ==
      /\ \A o \in ToSet(enteredOrders) : o \in ToSet(enteredOrders') /\ order'[o] = order[o]
      /\ \A o \in ToSet(beforeEnterOrders) :
           o \in ToSet(beforeEnterOrders') \/ (lock' = Replying /\ reply'.order = o)
<1>1. ASSUME Typed, Apart, [Next]_vars PROVE Kept \/ UNCHANGED vars
  <2>1. ASSUME NEW b \in Beans, BeanStep(b) PROVE Kept
    <3>1. ToSet(beforeEnterOrders) \subseteq ToSet(beforeEnterOrders')
      <4>1. /\ beforeEnterOrders \in Seq(Orders)
            /\ bean[b].at # "idle" => bean[b].order \in Orders
        BY <1>1 DEF Typed, TypeOK, Held
      <4>2. \/ beforeEnterOrders' = beforeEnterOrders
            \/ bean[b].at # "idle" /\ beforeEnterOrders' = Append(beforeEnterOrders, bean[b].order)
        BY <1>1, <2>1, BeanPlaces
      <4>3. CASE bean[b].at # "idle" /\ beforeEnterOrders' = Append(beforeEnterOrders, bean[b].order)
        <5>1. ToSet(Append(beforeEnterOrders, bean[b].order)) = ToSet(beforeEnterOrders) \union {bean[b].order}
          BY <4>1, <4>3, AppendElements
        <5> QED
          BY <4>3, <5>1
      <4> QED
        BY <4>2, <4>3
    <3> QED
      BY <1>1, <2>1, <3>1, BeanPlaces
  <2>2. ASSUME NEW t \in Timers, TimerStep(t) PROVE Kept
    BY <2>2, TimerLeaves
  <2>3. ASSUME NEW r \in broker, NotFilled(r) \/ DeadLetter(r) PROVE Kept
    BY <2>3 DEF NotFilled, DeadLetter
  <2>4. ASSUME NEW r \in broker, RemoveOrder(r) PROVE Kept
    BY <1>1, <2>4, RemoveOrderPlaces
  <2>5. CASE EnterOrder
    <3>1. \A o \in ToSet(enteredOrders) : o # reply.order /\ o \in Orders
      BY <1>1, <2>5, EnterOrderPlaces, ElementsTyped DEF Typed, TypeOK
    <3>2. \A o \in ToSet(enteredOrders) : order'[o] = order[o]
      BY <1>1, <2>5, <3>1 DEF EnterOrder, Typed, TypeOK
    <3> QED
      BY <1>1, <2>5, <3>2, EnterOrderPlaces
  <2> QED
    BY <1>1, <2>1, <2>2, <2>3, <2>4, <2>5 DEF Next, RecordTrade
<1>2. Typed /\ Apart /\ [Next]_vars => [Kept]_vars
  BY <1>1
<1>3. Typed /\ Apart /\ [Next]_vars => Apart'
  BY ApartNext
<1> QED
  BY <1>2, <1>3, TypedInit, TypedNext, ApartInit, PTL DEF Spec, NeverBack

-----------------------------------------------------------------------------
(* The four lists.                                                         *)

Aligned ==
  /\ enteredStockList = enteredOrders
  /\ lock = Free => beforeStockList = beforeEnterOrders
  /\ lock = Replying =>
       /\ beforeEnterOrders = RemoveAt(beforeStockList, reply.i)
       /\ reply.order = beforeStockList[reply.i]
  /\ \A b \in Beans : lock = b =>
       beforeStockList = Append(beforeEnterOrders, bean[b].order)

LEMMA AlignedInit == Init => Aligned
BY Constants DEF Init, Aligned

LEMMA AlignedNext ==
  ASSUME "database" \notin Failures, Typed, Aligned, [Next]_vars
  PROVE  Aligned'
<1> USE Constants
<1>0. TypeOK /\ LockHeld
  BY DEF Typed
<1>1. ASSUME NEW b \in Beans, BeanStep(b) PROVE Aligned'
  <2>1. bean \in [Beans -> BeanTypes]
    BY <1>0 DEF TypeOK
  <2>2. CASE ReceiveOrder(b) \/ StartMonitoring(b) \/ SetMonitoring(b) \/ MissHistory(b)
    BY <2>2 DEF ReceiveOrder, StartMonitoring, SetMonitoring, MissHistory, Aligned
  <2>3. CASE AddStock(b)
    <3>1. [bean[b] EXCEPT !.at = "record"].order = bean[b].order
      BY <2>1, RecordsTyped DEF BeanStates
    <3> QED
      BY <2>1, <2>3, <3>1 DEF AddStock, Aligned
  <2>4. CASE RecordOrder(b)
    BY <1>0, <2>4 DEF RecordOrder, May, LockHeld, Aligned
  <2> QED
    BY <1>1, <2>2, <2>3, <2>4 DEF BeanStep
<1>2. ASSUME NEW t \in Timers, TimerStep(t) PROVE Aligned'
  BY <1>2, TimerLeaves DEF Aligned
<1>3. CASE RecordTrade
  <2>1. ASSUME NEW r \in broker, NotFilled(r) \/ DeadLetter(r) PROVE Aligned'
    BY <2>1 DEF NotFilled, DeadLetter, Aligned
  <2>2. ASSUME NEW r \in broker, RemoveOrder(r) PROVE Aligned'
    BY <2>2 DEF RemoveOrder, Aligned
  <2>3. CASE EnterOrder
    BY <2>3 DEF EnterOrder, Aligned
  <2> QED
    BY <1>3, <2>1, <2>2, <2>3 DEF RecordTrade
<1>4. CASE UNCHANGED vars
  BY <1>4 DEF vars, Aligned
<1> QED
  BY <1>1, <1>2, <1>3, <1>4 DEF Next

\* Unless the database fails inside startNewTrade or RecordTrade, the parallel
\* lists never get out of step, whatever the timers read and send meanwhile,
\* however stale the indices in the replies are, and however many beans bring
\* orders.
THEOREM ListsStayAligned == "database" \notin Failures => (Spec => []ListsAligned)
<1> SUFFICES ASSUME "database" \notin Failures PROVE Spec => []ListsAligned
  OBVIOUS
<1>1. Typed /\ Aligned /\ [Next]_vars => Aligned'
  BY AlignedNext
<1>2. Aligned => ListsAligned
  BY DEF Aligned, ListsAligned
<1> QED
  BY <1>1, <1>2, TypedInit, TypedNext, AlignedInit, PTL DEF Spec

-----------------------------------------------------------------------------
(* What a fill does.                                                       *)

LEMMA OneTradeInit == Init => EnteredHasOneTrade
BY EmptyElements DEF Init, EnteredHasOneTrade

LEMMA OneTradeNext ==
  ASSUME "database" \notin Failures, Typed, Apart, EnteredHasOneTrade, [Next]_vars
  PROVE  EnteredHasOneTrade'
<1>1. ASSUME NEW b \in Beans, BeanStep(b) PROVE EnteredHasOneTrade'
  BY <1>1, BeanPlaces DEF EnteredHasOneTrade
<1>2. ASSUME NEW t \in Timers, TimerStep(t) PROVE EnteredHasOneTrade'
  BY <1>2, TimerLeaves DEF EnteredHasOneTrade
<1>3. ASSUME NEW r \in broker, NotFilled(r) \/ DeadLetter(r) \/ RemoveOrder(r)
      PROVE  EnteredHasOneTrade'
  BY <1>3 DEF NotFilled, DeadLetter, RemoveOrder, EnteredHasOneTrade
<1>4. CASE EnterOrder
  <2>1. order[reply.order] = NoOrder
    BY <1>4, EnterOrderPlaces DEF EnteredHasOneTrade
  <2>2. /\ order' = [order EXCEPT ![reply.order] =
                       [status |-> "ENTERED", type |-> reply.side,
                        trades |-> order[reply.order].trades + 1]]
        /\ order \in [Orders -> OrderTypes]
    BY <1>4 DEF EnterOrder, May, Typed, TypeOK
  <2>3. /\ order'[reply.order].status = "ENTERED" /\ order'[reply.order].type \in Sides
        /\ order'[reply.order].trades = 1
    BY <1>4, <2>1, <2>2, EnterOrderPlaces DEF NoOrder
  <2>4. \A o \in Orders : o # reply.order => order'[o] = order[o]
    BY <2>2
  <2> QED
    BY <1>4, <2>3, <2>4, EnterOrderPlaces DEF EnteredHasOneTrade
<1>5. CASE UNCHANGED vars
  BY <1>5 DEF vars, EnteredHasOneTrade
<1> QED
  BY <1>1, <1>2, <1>3, <1>4, <1>5 DEF Next, RecordTrade

\* Unless the database fails, an order is entered with one trade and a side, or
\* is as it was when it was placed.
THEOREM EnteredOnce == "database" \notin Failures => (Spec => []EnteredHasOneTrade)
<1> SUFFICES ASSUME "database" \notin Failures PROVE Spec => []EnteredHasOneTrade
  OBVIOUS
<1>1. Typed /\ Apart /\ [Next]_vars => Apart'
  BY ApartNext
<1>2. Typed /\ Apart /\ EnteredHasOneTrade /\ [Next]_vars => EnteredHasOneTrade'
  BY OneTradeNext
<1> QED
  BY <1>1, <1>2, TypedInit, TypedNext, ApartInit, OneTradeInit, PTL DEF Spec

\* A request is with one timer, or at the broker, or has entered an order; while
\* its fill is being recorded the broker's message is not acknowledged yet.
OnePerFill ==
  /\ \A t \in Timers : timer[t].at \in {"id", "send"} =>
       /\ timer[t].request <= hits
       /\ \A q \in broker : q.request # timer[t].request
       /\ \A o \in Orders : entry[o] # timer[t].request
  /\ \A t \in Timers : timer[t].at = "put" => timer[t].request <= hits
  /\ \A t, u \in Timers :
       timer[t].at \in Requesting /\ timer[u].at \in Requesting
         /\ timer[t].request = timer[u].request => t = u
  /\ \A q \in broker : q.request <= hits /\ \A o \in Orders : entry[o] # q.request
  /\ \A o \in Orders : entry[o] <= hits
  /\ lock = Replying => \E q \in broker : q.request = reply.request
  /\ FillEntersOneOrder

LEMMA OnePerFillInit == Init => OnePerFill
BY Constants DEF Init, OnePerFill, FillEntersOneOrder, NoTimer, Requesting, None

LEMMA OnePerFillTimer ==
  ASSUME Typed, OnePerFill, NEW t \in Timers, TimerStep(t)
  PROVE  OnePerFill'
<1> USE Constants
<1>0. /\ hits \in Nat /\ timer \in [Timers -> TimerTypes] /\ broker \subseteq [request : Requests, id : Nat]
      /\ \A o \in Orders : entry[o] \in Nat
      /\ \A u \in Timers : timer[u].request \in Nat
  <2>1. /\ hits \in 0..MaxSent /\ timer \in [Timers -> TimerTypes]
        /\ broker \subseteq [request : Requests, id : Nat]
        /\ entry \in [Orders -> Requests \union {None}]
    BY DEF Typed, TypeOK
  <2>2. Requests \union {None} \subseteq Nat
    BY DEF None
  <2>3. \A x \in TimerTypes : x.request \in Nat
    BY <2>2 DEF TimerTypes
  <2> QED
    BY <2>1, <2>2, <2>3
<1>a. UNCHANGED <<lock, reply, entry>>
  BY TimerLeaves
<1>b. \A u \in Timers : u # t => timer'[u] = timer[u]
  BY <1>0 DEF TimerStep, TestLoop, GetStock, GetOrder, Quote, NoEntry, MissQuote, ReadTradeId,
     SendTrade, FailToSend, PutTrade
<1>c. Skip(t).at = "test"
  BY DEF Skip, NoTimer
\* Outside a request, or on the way out of one, a timer claims nothing.
<1>1. CASE timer'[t].at \notin Requesting /\ UNCHANGED <<hits, broker>>
  <2>1. \A u \in Timers : timer'[u] = timer[u] \/ timer'[u].at \notin Requesting
    BY <1>b, <1>1
  <2> QED
    BY <1>a, <1>1, <2>1 DEF OnePerFill, FillEntersOneOrder, Requesting
<1>2. CASE Quote(t)
  <2>1. /\ timer'[t].at = "id" /\ timer'[t].request = hits + 1 /\ hits' = hits + 1
        /\ UNCHANGED broker
    <3>1. timer[t] \in TimerTypes
      BY <1>0
    <3>2. \A s \in Sides : LET x == [timer[t] EXCEPT !.at = "id", !.side = s, !.request = hits + 1]
                           IN  x.at = "id" /\ x.request = hits + 1
      BY <3>1 DEF TimerTypes
    <3> QED
      BY <1>0, <1>2, <3>2 DEF Quote
  <2>2. \A n \in Nat : n <= hits => n <= hits' /\ n # hits + 1
    BY <1>0, <2>1
  <2>3. \A q \in broker : q.request \in Nat
    BY <1>0
  <2>4. \A u \in Timers : u # t /\ timer'[u].at \in Requesting =>
          timer[u].request <= hits' /\ timer[u].request # hits + 1
    BY <1>0, <1>b, <2>2 DEF OnePerFill, Requesting
  <2>5. hits + 1 <= hits'
    BY <1>0, <2>1
  <2> QED
    BY <1>0, <1>a, <1>b, <2>1, <2>2, <2>3, <2>4, <2>5 DEF OnePerFill, FillEntersOneOrder, Requesting
<1>3. CASE ReadTradeId(t)
  <2>1. /\ timer[t].at = "id" /\ timer'[t].at = "send" /\ timer'[t].request = timer[t].request
        /\ UNCHANGED <<hits, broker>>
    BY <1>0, <1>3 DEF ReadTradeId, TimerTypes
  <2> QED
    BY <1>a, <1>b, <2>1 DEF OnePerFill, FillEntersOneOrder, Requesting
<1>4. CASE SendTrade(t)
  <2>1. /\ timer[t].at = "send" /\ timer'[t].at = "put" /\ timer'[t].request = timer[t].request
        /\ hits' = hits
        /\ broker' = broker \union {[request |-> timer[t].request, id |-> timer[t].id]}
    BY <1>0, <1>4 DEF SendTrade, TimerTypes
  <2>2. \A q \in broker' : q \in broker \/ q.request = timer[t].request
    BY <2>1
  <2> QED
    BY <1>a, <1>b, <2>1, <2>2 DEF OnePerFill, FillEntersOneOrder, Requesting
<1>5. CASE TestLoop(t) \/ GetStock(t) \/ GetOrder(t) \/ NoEntry(t) \/ MissQuote(t)
             \/ FailToSend(t) \/ PutTrade(t)
  <2>1. timer[t] \in TimerTypes
    BY <1>0
  <2>2. \A o : /\ [timer[t] EXCEPT !.at = "stock"].at = "stock"
               /\ [timer[t] EXCEPT !.at = "order", !.order = o].at = "order"
               /\ [timer[t] EXCEPT !.at = "quote"].at = "quote"
    BY <2>1 DEF TimerTypes
  <2>3. [NoTimer EXCEPT !.at = "test"].at = "test" /\ [NoTimer EXCEPT !.at = "dead"].at = "dead"
    BY DEF NoTimer
  <2>4. UNCHANGED <<hits, broker>>
    BY <1>5 DEF TestLoop, GetStock, GetOrder, NoEntry, MissQuote, FailToSend, PutTrade
  <2>5. CASE TestLoop(t)
    BY <1>0, <1>1, <2>2, <2>3, <2>4, <2>5 DEF TestLoop, Requesting
  <2>6. CASE GetStock(t)
    BY <1>0, <1>1, <2>2, <2>3, <2>4, <2>6 DEF GetStock, Requesting
  <2>7. CASE GetOrder(t)
    BY <1>0, <1>1, <2>2, <2>3, <2>4, <2>7 DEF GetOrder, Requesting
  <2>8. CASE NoEntry(t) \/ FailToSend(t) \/ PutTrade(t)
    BY <1>0, <1>c, <1>1, <2>3, <2>4, <2>8 DEF NoEntry, FailToSend, PutTrade, Requesting
  <2>9. CASE MissQuote(t)
    BY <1>0, <1>1, <2>3, <2>4, <2>9 DEF MissQuote, Requesting
  <2> QED
    BY <1>5, <2>5, <2>6, <2>7, <2>8, <2>9
<1> QED
  BY <1>2, <1>3, <1>4, <1>5 DEF TimerStep

LEMMA OnePerFillNext ==
  ASSUME "database" \notin Failures, Typed, Apart, OnePerFill, [Next]_vars
  PROVE  OnePerFill'
<1> USE Constants
<1>1. ASSUME NEW b \in Beans, BeanStep(b) PROVE OnePerFill'
  <2>1. UNCHANGED <<broker, hits, entry>> /\ lock' # Replying
    BY <1>1, BeanPlaces
  <2>2. \A t \in Timers : timer'[t] = timer[t] \/ timer'[t].at \notin Requesting
    <3>1. timer \in [Timers -> TimerTypes]
      BY DEF Typed, TypeOK
    <3>2. timer' = timer \/ \E t \in Timers : timer' = [timer EXCEPT ![t] = [timer[t] EXCEPT !.at = "test"]]
      BY <1>1 DEF BeanStep, ReceiveOrder, StartMonitoring, SetMonitoring, AddStock,
         MissHistory, RecordOrder
    <3>3. \A t \in Timers : [timer[t] EXCEPT !.at = "test"].at \notin Requesting
      BY <3>1, RecordsTyped DEF TimerStates, Requesting
    <3> QED
      BY <3>1, <3>2, <3>3
  <2> QED
    BY <2>1, <2>2 DEF OnePerFill, FillEntersOneOrder, Requesting
<1>2. ASSUME NEW t \in Timers, TimerStep(t) PROVE OnePerFill'
  BY <1>2, OnePerFillTimer
<1>3. ASSUME NEW r \in broker, NotFilled(r) \/ DeadLetter(r) PROVE OnePerFill'
  <2>1. /\ broker' = broker \ {r} /\ UNCHANGED <<timer, hits, entry>> /\ lock' = Free
    BY <1>3 DEF NotFilled, DeadLetter
  <2> QED
    BY <2>1 DEF OnePerFill, FillEntersOneOrder
<1>4. ASSUME NEW r \in broker, RemoveOrder(r) PROVE OnePerFill'
  <2>1. UNCHANGED <<timer, hits, entry, broker>> /\ reply'.request = r.request
    BY <1>4, RemoveOrderTyped DEF RemoveOrder
  <2> QED
    BY <2>1 DEF OnePerFill, FillEntersOneOrder
<1>5. CASE EnterOrder
  <2>1. /\ broker' = {q \in broker : q.request # reply.request} /\ UNCHANGED <<timer, hits>>
        /\ entry' = [entry EXCEPT ![reply.order] = reply.request]
        /\ lock = Replying /\ lock' = Free /\ reply.order \in Orders /\ reply.request \in Requests
        /\ entry \in [Orders -> Requests \union {None}]
    BY <1>5, EnterOrderPlaces DEF EnterOrder, May, Typed, TypeOK
  <2>2. PICK q \in broker : q.request = reply.request
    BY <2>1 DEF OnePerFill
  <2>3. /\ reply.request <= hits
        /\ \A o \in Orders : entry[o] # reply.request
        /\ \A t \in Timers : timer[t].at \in {"id", "send"} => timer[t].request # reply.request
    BY <2>2 DEF OnePerFill
  <2>4. \A o \in Orders : entry'[o] = IF o = reply.order THEN reply.request ELSE entry[o]
    BY <2>1
  <2> QED
    BY <2>1, <2>3, <2>4 DEF OnePerFill, FillEntersOneOrder
<1>6. CASE UNCHANGED vars
  BY <1>6 DEF vars, OnePerFill, FillEntersOneOrder
<1> QED
  BY <1>1, <1>2, <1>3, <1>4, <1>5, <1>6 DEF Next, RecordTrade

\* Unless the database fails, so that a fill is delivered again after it was
\* recorded, the fill of one request never enters two orders.
THEOREM FillsOnce == "database" \notin Failures => (Spec => []FillEntersOneOrder)
<1> SUFFICES ASSUME "database" \notin Failures PROVE Spec => []FillEntersOneOrder
  OBVIOUS
<1>1. Typed /\ Apart /\ [Next]_vars => Apart'
  BY ApartNext
<1>2. Typed /\ Apart /\ OnePerFill /\ [Next]_vars => OnePerFill'
  BY OnePerFillNext
<1>3. OnePerFill => FillEntersOneOrder
  BY DEF OnePerFill
<1> QED
  BY <1>1, <1>2, <1>3, TypedInit, TypedNext, ApartInit, OnePerFillInit, PTL DEF Spec

-----------------------------------------------------------------------------
(* The refinement.                                                         *)

LEMMA LifecycleInit == Init => Lifecycle!Init
BY EmptyElements, Constants DEF Init, Lifecycle!Init, InTransit

\* Every step of a thread is a step of the life of one order, or none.
LEMMA LifecycleNext ==
  ASSUME "database" \notin Failures, Typed, Apart, OnePerFill, [Next]_vars
  PROVE  [Lifecycle!Next]_(Lifecycle!vars)
<1> USE Constants
<1> DEFINE waiting == ToSet(beforeEnterOrders) \union InTransit
           entered == {[order |-> o, fill |-> entry[o]] : o \in ToSet(enteredOrders)}
<1>0. /\ ToSet(beforeEnterOrders) \subseteq Orders /\ ToSet(enteredOrders) \subseteq Orders
      /\ beforeEnterOrders \in Seq(Orders)
  BY ElementsTyped DEF Typed, TypeOK
<1>s. ASSUME waiting' = waiting, entered' = entered PROVE [Lifecycle!Next]_(Lifecycle!vars)
  BY <1>s DEF Lifecycle!vars
<1>1. ASSUME NEW b \in Beans, BeanStep(b) PROVE [Lifecycle!Next]_(Lifecycle!vars)
  <2>1. InTransit = {} /\ InTransit' = {} /\ entered' = entered
    BY <1>1, BeanPlaces DEF InTransit
  <2>2. CASE beforeEnterOrders' = beforeEnterOrders
    BY <1>s, <2>1, <2>2
  <2>3. CASE bean[b].at = "record" /\ beforeEnterOrders' = Append(beforeEnterOrders, bean[b].order)
    <3> DEFINE o == bean[b].order
    <3>1. o \in Orders /\ o \notin Placed
      BY <2>3 DEF Typed, Held, Apart
    <3>2. ToSet(beforeEnterOrders') = ToSet(beforeEnterOrders) \union {o}
      BY <1>0, <2>3, <3>1, AppendElements
    <3> HIDE DEF o
    <3>3. o \notin waiting /\ \A e \in entered : e.order # o
      BY <3>1 DEF Placed
    <3>4. waiting' = waiting \union {o}
      BY <2>1, <3>2
    <3>5. Lifecycle!Start(o)
      BY <2>1, <3>3, <3>4 DEF Lifecycle!Start, Lifecycle!Fresh
    <3> QED
      BY <3>1, <3>5 DEF Lifecycle!Next
  <2> QED
    BY <1>1, <2>2, <2>3, BeanPlaces
<1>2. ASSUME NEW t \in Timers, TimerStep(t) PROVE [Lifecycle!Next]_(Lifecycle!vars)
  BY <1>s, <1>2, TimerLeaves DEF InTransit
<1>3. ASSUME NEW r \in broker, NotFilled(r) \/ DeadLetter(r) PROVE [Lifecycle!Next]_(Lifecycle!vars)
  BY <1>s, <1>3 DEF NotFilled, DeadLetter, InTransit
<1>4. ASSUME NEW r \in broker, RemoveOrder(r) PROVE [Lifecycle!Next]_(Lifecycle!vars)
  BY <1>s, <1>4, RemoveOrderPlaces DEF InTransit
<1>5. CASE EnterOrder
  <2> DEFINE o == reply.order
             f == reply.request
  <2>1. /\ o \in Orders /\ f \in Requests /\ o \notin ToSet(enteredOrders)
        /\ o \notin ToSet(beforeEnterOrders)
        /\ ToSet(enteredOrders') = ToSet(enteredOrders) \union {o}
        /\ InTransit = {o} /\ InTransit' = {} /\ beforeEnterOrders' = beforeEnterOrders
        /\ lock = Replying
    BY <1>5, EnterOrderPlaces DEF InTransit
  <2>2. /\ entry' = [entry EXCEPT ![o] = f] /\ entry \in [Orders -> Requests \union {None}]
    BY <1>5 DEF EnterOrder, Typed, TypeOK
  <2>3. \A p \in Orders : entry[p] # f
    BY <2>1 DEF OnePerFill
  <2> HIDE DEF o, f
  <2>4. entry'[o] = f /\ \A p \in ToSet(enteredOrders) : entry'[p] = entry[p]
    BY <1>0, <2>1, <2>2
  <2>5. entered' = entered \union {[order |-> o, fill |-> f]}
    BY <2>1, <2>4
  <2>6. o \in waiting /\ waiting' = waiting \ {o}
    BY <2>1
  <2>7. ASSUME NEW e \in entered PROVE e.fill # f
    <3>1. PICK p \in ToSet(enteredOrders) : e = [order |-> p, fill |-> entry[p]]
      OBVIOUS
    <3> QED
      BY <1>0, <2>3, <3>1
  <2>8. \E q \in waiting, g \in Requests : Lifecycle!Enter(q, g)
    BY <2>1, <2>5, <2>6, <2>7 DEF Lifecycle!Enter
  <2> QED
    BY <2>8 DEF Lifecycle!Next
<1>6. CASE UNCHANGED vars
  BY <1>s, <1>6 DEF vars, InTransit
<1> QED
  BY <1>1, <1>2, <1>3, <1>4, <1>5, <1>6 DEF Next, RecordTrade

\* The threads, the lists and the messages implement the life of an order: it
\* waits, and enters at most once, on account of a fill that enters no other.
THEOREM ImplementsLifecycle == "database" \notin Failures => (Spec => LifecycleSpec)
<1> SUFFICES ASSUME "database" \notin Failures PROVE Spec => LifecycleSpec
  OBVIOUS
<1>1. Typed /\ Apart /\ [Next]_vars => Apart'
  BY ApartNext
<1>2. Typed /\ Apart /\ OnePerFill /\ [Next]_vars => OnePerFill'
  BY OnePerFillNext
<1>3. Typed /\ Apart /\ OnePerFill /\ [Next]_vars => [Lifecycle!Next]_(Lifecycle!vars)
  BY LifecycleNext
<1> QED
  BY <1>1, <1>2, <1>3, TypedInit, TypedNext, ApartInit, OnePerFillInit, LifecycleInit, PTL
     DEF Spec, LifecycleSpec, Lifecycle!Spec
=============================================================================
