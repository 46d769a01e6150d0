------------------------- MODULE OrderBrokerProofs -------------------------
(***************************************************************************)
(* Invariance proofs for OrderBroker, for every value of its constants.    *)
(*                                                                         *)
(* The argument has three layers. Typed says which Trade objects a thread, *)
(* a map or a task may hold; it needs nothing but the assumptions on the   *)
(* constants. Attributed says whose Trade it is: with correlation ids that *)
(* are never reused, an id names one request, so that the rejection of a   *)
(* request and the reports on it cannot meet those of another. Once says   *)
(* that the right to answer a request exists once: as its entry in         *)
(* outstandingTrades, in a thread about to schedule the reply, as a         *)
(* scheduled task, or as the reply; it needs maps that do not race too.    *)
(***************************************************************************)
EXTENDS OrderBroker, TLAPS

USE DEF maps, market, sent, Remembered, Forgotten, Consumed

Holding == {"partial", "send", "remove", "finish"}

\* Trade object n exists, has an id, and says how many shares it is for.
HasData(n) == requests[n].id \in Ids /\ requests[n].size \in Int32
Formed(n)  == n \in 1..requestCount /\ HasData(n)

CallsTyped ==
  /\ \A t \in Threads : call[t].at # "idle" => call[t].id \in Ids
  /\ \A t \in Threads : call[t].at \in Holding => Formed(call[t].trade)
  /\ call["fix"].at \in {"idle", "lookup", "remove", "finish"}
  /\ call["jms"].at = "put" =>
       /\ requestCount < MaxRequests
       /\ call["jms"].trade \in {NullTrade, requestCount + 1}
       /\ call["jms"].trade # NullTrade => HasData(requestCount + 1)

TradesTyped ==
  /\ \A i \in Ids : outstanding[i] > NullTrade => Formed(outstanding[i])
  /\ \A n \in Serials : due[n] > 0 => Formed(n)
  /\ \A n \in Serials : exchange[n] # "unsent" => Formed(n)

Typed == TypeOK /\ CallsTyped /\ TradesTyped

-----------------------------------------------------------------------------
\* Responding in sendTradeResponse, or about to.
Answering == {"lookup", "remove", "finish"}

\* The Trade as the simulated failure leaves it.
Failed(n) == requests[n].result = "REJECTED" /\ requests[n].size = requests[n].requested

IdsUnique ==
  /\ \A m, n \in Serials : requests[m].id = requests[n].id /\ requests[n].id # NoId => m = n
  /\ \A n \in Serials : requests[n].id \in Serials => requests[n].id <= requestIDSeq
  /\ \A i \in Ids : outstanding[i] > NullTrade => requests[outstanding[i]].id = i

CallsAttributed ==
  /\ \A t \in Threads : call[t].at \in Holding => requests[call[t].trade].id = call[t].id
  /\ call["jms"].at = "put" =>
       /\ requests[requestCount + 1].id = call["jms"].id
       /\ requests[requestCount + 1].size = requests[requestCount + 1].requested
  /\ call["jms"].at \in {"partial", "send"} => ~Rejected(call["jms"].trade)
  /\ \A t \in Threads, n \in Serials :
       call[t].at \in Answering /\ requests[n].id = call[t].id /\ Rejected(n) =>
         call[t].result = "REJECTED" /\ call[t].shares = requests[n].requested
  /\ \A t \in Threads :
       call[t].at = "finish" /\ Rejected(call[t].trade) => Failed(call[t].trade)
  /\ call["fix"].at # "idle" =>
       \E n \in Serials : exchange[n] # "unsent" /\ requests[n].id = call["fix"].id

RejectionsStay ==
  /\ \A n \in Serials : exchange[n] # "unsent" => ~Rejected(n)
  /\ \A n \in Serials : due[n] > 0 /\ Rejected(n) => Failed(n)
  /\ \A m \in replies : m.n <= requestCount

Attributed == IdsUnique /\ CallsAttributed /\ RejectionsStay /\ EveryNthRejected

-----------------------------------------------------------------------------
\* The request the JMS thread works on has not been placed, so no report on
\* it can come.
ThreadsApart ==
  \A n \in Serials :
    call["jms"].at # "idle" /\ requests[n].id = call["jms"].id => exchange[n] = "unsent"

TokenUnique ==
  /\ \A t \in Threads : call[t].at = "remove" => outstanding[call[t].id] = call[t].trade
  /\ \A t \in Threads : call[t].at = "finish" =>
       outstanding[call[t].id] = Absent /\ due[call[t].trade] = 0 /\ ~Replied(call[t].trade)
  /\ \A i \in Ids : outstanding[i] > NullTrade =>
       due[outstanding[i]] = 0 /\ ~Replied(outstanding[i])
  /\ \A n \in Serials : due[n] \in {0, 1} /\ (due[n] = 1 => ~Replied(n))

Once == ThreadsApart /\ TokenUnique /\ AtMostOneReply

-----------------------------------------------------------------------------
(* Types.                                                                  *)

\* size * 3 / 5, as Java computes it, is an int again: the product wraps and
\* the quotient is nearer to zero.
LEMMA PartialSharesInt ==
  ASSUME NEW size \in Int32
  PROVE  PartialShares(size) \in Int32
<1>1. MaxInt \in Nat \ {0}
  BY BoundAssumption
<1>2. size * 3 \in Int
  BY <1>1 DEF Int32, MinInt
<1>3. ASSUME NEW x \in Int PROVE Wrap(x) \in Int32
  <2>1. 2 * (MaxInt + 1) \in Nat \ {0}
    BY <1>1
  <2>2. (x - MinInt) % (2 * (MaxInt + 1)) \in 0..(2 * (MaxInt + 1) - 1)
    BY <1>1, <2>1 DEF MinInt
  <2> QED
    BY <1>1, <2>2 DEF Wrap, Int32, MinInt
<1>4. ASSUME NEW x \in Int32 PROVE Truncated(x, 5) \in Int32
  BY <1>1 DEF Truncated, Int32, MinInt
<1> QED
  BY <1>2, <1>3, <1>4 DEF PartialShares

\* What holds of the constants and derived sets everywhere below.
LEMMA Constants ==
  /\ MaxInt \in Nat \ {0} /\ MaxRequests \in Nat
  /\ MinInt \in Int /\ Absent \in Int /\ Absent < 0 /\ Absent \notin Int32 /\ 0 \in Int32
  /\ Sizes \subseteq Int32 /\ ClientIds \subseteq Ids /\ Serials \subseteq Ids
  /\ NoId \notin Ids
BY BoundAssumption, SizesAssumption, ClientIdsAssumption
   DEF MinInt, Absent, Int32, Ids, Serials, NoId

\* A Trade that gets its result and its size keeps what it was made with.
LEMMA TradeFilledIn ==
  ASSUME NEW f \in [Serials -> Trades], NEW n \in Serials, NEW r, NEW k, NEW g,
         g = [f EXCEPT ![n].result = r, ![n].size = k]
  PROVE  /\ \A m \in Serials : g[m].id = f[m].id /\ g[m].requested = f[m].requested
         /\ \A m \in Serials : m # n => g[m] = f[m]
         /\ g[n].result = r /\ g[n].size = k
         /\ r \in Results /\ k \in Int32 => g \in [Serials -> Trades]
<1> DEFINE x == [f[n] EXCEPT !.result = r, !.size = k]
<1>1. g = [f EXCEPT ![n] = x]
  OBVIOUS
<1>2. x.id = f[n].id /\ x.requested = f[n].requested /\ x.result = r /\ x.size = k
  BY DEF Trades
<1>3. r \in Results /\ k \in Int32 => x \in Trades
  BY DEF Trades
<1> HIDE DEF x
<1> QED
  BY <1>1, <1>2, <1>3

LEMMA TypedInit == Init => Typed
<1> SUFFICES ASSUME Init PROVE Typed
  OBVIOUS
<1> USE Constants
<1>1. TypeOK
  BY BoundAssumption DEF Init, TypeOK, Idle, NoRequest, Serials, Trades, Results, Calls,
     Reply, NoId, NullTrade, Ids
<1>2. CallsTyped
  BY DEF Init, CallsTyped, Idle, Holding, Threads
<1>3. TradesTyped
  BY DEF Init, TradesTyped, NullTrade
<1> QED
  BY <1>1, <1>2, <1>3 DEF Typed

\* The n-th request leads its thread to a state of the right type.
LEMMA AfterCountTyped ==
  ASSUME Typed, call["jms"].at = "put"
  PROVE  LET c == call["jms"]
             a == AfterCount(c, requestCount + 1)
         IN  /\ a \in Calls
             /\ a.at \in {"idle", "partial", "send", "lookup"}
             /\ a.at # "idle" => a.id = c.id /\ c.id \in Ids /\ c.trade = requestCount + 1
             /\ a.at \in Holding => a.trade = c.trade
<1> DEFINE c == call["jms"]
<1> USE Constants
<1>1. c \in Calls /\ c.id \in Ids /\ requestCount + 1 \in Serials
  BY DEF Typed, TypeOK, CallsTyped, Threads, Serials
<1>2. c.trade # NullTrade =>
        c.trade = requestCount + 1 /\ requests[requestCount + 1].size \in Int32
  BY DEF Typed, CallsTyped, HasData
<1>3. Idle \in Calls
  BY DEF Idle, Calls, Results, NoId, NullTrade
<1>4. c.trade # NullTrade =>
        Responding(c.id, "REJECTED", requests[requestCount + 1].size) \in Calls
  BY <1>1, <1>2, <1>3 DEF Responding, Idle, Calls, Results, NullTrade
<1>5. [c EXCEPT !.at = IF Partial(requestCount + 1) THEN "partial" ELSE "send"] \in Calls
  BY <1>1 DEF Calls
<1> QED
  BY <1>1, <1>2, <1>3, <1>4, <1>5 DEF AfterCount, Responding, Idle, Holding, Calls

LEMMA TypedStart ==
  ASSUME Typed,
         NEW id \in Ids, NEW trade \in {NullTrade, requestCount + 1},
         NEW size \in Int32 \union {Absent}, trade # NullTrade => size \in Int32,
         StartRequest(id, trade, size),
         requestIDSeq' \in 0..MaxRequests
  PROVE  Typed'
<1> USE Constants
<1>1. requestCount + 1 \in Serials
  BY DEF StartRequest, Typed, TypeOK, Serials
<1>2. TypeOK'
  BY <1>1 DEF StartRequest, Typed, TypeOK, Trades, Results, Calls, Idle, NullTrade, Threads
<1>3. \A n \in Serials : Formed(n) => Formed(n)'
  BY <1>1 DEF StartRequest, Formed, HasData, Typed, TypeOK, Serials
<1>4. CallsTyped'
  BY <1>1, <1>3 DEF StartRequest, Typed, TypeOK, CallsTyped, Idle, Threads, Holding, NullTrade, Formed, HasData, Serials, Calls
<1>5. TradesTyped'
  BY <1>1, <1>3 DEF StartRequest, Typed, TypeOK, TradesTyped, NullTrade, Serials, Formed, HasData
<1> QED
  BY <1>2, <1>4, <1>5 DEF Typed

LEMMA TypedNext == Typed /\ [Next]_vars => Typed'
<1> SUFFICES ASSUME Typed, [Next]_vars PROVE Typed'
  OBVIOUS
<1> USE Constants
<1>0. TypeOK /\ CallsTyped /\ TradesTyped
  BY DEF Typed
<1>1. CASE Receive
  <2>1. ASSUME NEW k \in ClientIds, NEW s \in Sizes, ReceiveTrade(k, s) PROVE Typed'
    BY <1>0, <2>1, TypedStart DEF ReceiveTrade, StartRequest, TypeOK, NullTrade
  <2>2. ASSUME NEW s \in Sizes, ReceiveUncorrelated(s) PROVE Typed'
    <3>1. requestIDSeq + 1 \in Ids /\ requestIDSeq' \in 0..MaxRequests
      BY <1>0, <2>2 DEF ReceiveUncorrelated, TypeOK, Serials
    <3> QED
      BY <1>0, <2>2, <3>1, TypedStart DEF ReceiveUncorrelated
  <2>3. ASSUME NEW k \in ClientIds, ReceiveMalformed(k) PROVE Typed'
    BY <1>0, <2>3, TypedStart DEF ReceiveMalformed, TypeOK
  <2>4. CASE ReceiveUnusable
    BY <1>0, <2>4 DEF ReceiveUnusable, Typed, TypeOK, CallsTyped, TradesTyped, Formed, HasData
  <2> QED
    BY <1>1, <2>1, <2>2, <2>3, <2>4 DEF Receive
<1>2. CASE RecordRequest
  <2>1. requestCount' = requestCount + 1 /\ requestCount + 1 \in Serials
    BY <1>0, <1>2 DEF RecordRequest, TypeOK, CallsTyped, Serials
  <2>2. \A n : Formed(n) => Formed(n)'
    BY <1>0, <1>2, <2>1 DEF RecordRequest, Formed, HasData, TypeOK
  <2>3. call["jms"].trade # NullTrade =>
          /\ call["jms"].trade = requestCount + 1
          /\ requestCount + 1 \in 1..requestCount'
          /\ requests'[requestCount + 1].id \in Ids /\ requests'[requestCount + 1].size \in Int32
    BY <1>0, <1>2, <2>1 DEF RecordRequest, CallsTyped, TypeOK, HasData
  <2>4. TypeOK'
    BY <1>0, <1>2, <2>1, AfterCountTyped DEF RecordRequest, Typed, TypeOK, CallsTyped, NullTrade, Threads
  <2>5. CallsTyped'
    <3> DEFINE a == AfterCount(call["jms"], requestCount + 1)
    <3>1. call' = [call EXCEPT !["jms"] = a] /\ call \in [Threads -> Calls]
      BY <1>0, <1>2 DEF RecordRequest, TypeOK
    <3>2. /\ a.at \in {"idle", "partial", "send", "lookup"}
          /\ a.at # "idle" => a.id \in Ids
      BY <1>2, AfterCountTyped DEF RecordRequest
    <3>3. a.at \in Holding => a.trade = requestCount + 1 /\ a.trade # NullTrade
      BY <1>0, <1>2, AfterCountTyped DEF RecordRequest, Holding, NullTrade, TypeOK
    <3>4. a.at \in Holding => /\ a.trade \in 1..requestCount'
                              /\ requests'[a.trade].id \in Ids /\ requests'[a.trade].size \in Int32
      BY <2>3, <3>3, <1>0, <1>2, AfterCountTyped DEF RecordRequest
    <3> HIDE DEF a
    <3> QED
      BY <1>0, <2>2, <3>1, <3>2, <3>4 DEF CallsTyped, Threads, Holding, Formed, HasData
  <2>6. TradesTyped'
    <3>1. /\ UNCHANGED <<requests, due, exchange>>
          /\ \A i \in Ids : outstanding'[i] > NullTrade =>
               \/ outstanding[i] > NullTrade /\ outstanding'[i] = outstanding[i]
               \/ outstanding'[i] = requestCount + 1 /\ call["jms"].trade # NullTrade
      BY <1>0, <1>2 DEF RecordRequest, TypeOK, CallsTyped, NullTrade
    <3>2. requestCount \in Nat /\ requestCount' = requestCount + 1
      BY <1>0, <2>1 DEF TypeOK
    <3> QED
      BY <1>0, <2>3, <3>1, <3>2 DEF TradesTyped, Formed, HasData, Serials
  <2> QED
    BY <2>4, <2>5, <2>6 DEF Typed
<1>3. CASE ForcePartial
  <2>1. PartialShares(requests[call["jms"].trade].size) \in Int32
    BY <1>0, <1>3, PartialSharesInt DEF ForcePartial, CallsTyped, Holding, Formed, HasData, Threads
  <2>2. TypeOK' /\ CallsTyped'
    BY <1>0, <1>3, <2>1 DEF ForcePartial, TypeOK, CallsTyped, Threads, Holding, Formed, HasData, Calls
  <2> QED
    BY <1>0, <1>3, <2>2 DEF ForcePartial, Typed, TradesTyped, Formed, HasData
<1>4. CASE FillTrade
  <2>1. requests[call["jms"].trade].size \in Int32 /\ call["jms"].id \in Ids
    BY <1>0, <1>4 DEF FillTrade, CallsTyped, Holding, Formed, HasData, Threads
  <2>2. TypeOK' /\ CallsTyped'
    BY <1>0, <1>4, <2>1
       DEF FillTrade, TypeOK, CallsTyped, Threads, Holding, Formed, HasData, Calls, Responding, Idle, Results, NullTrade
  <2> QED
    BY <1>0, <1>4, <2>2 DEF FillTrade, Typed, TradesTyped, Formed, HasData
<1>5. CASE PlaceOrder
  <2>1. Formed(call["jms"].trade) /\ call["jms"].trade \in Serials
    BY <1>0, <1>5 DEF PlaceOrder, CallsTyped, Holding, Formed, HasData, Threads, TypeOK, Serials
  <2>2. TypeOK' /\ CallsTyped'
    BY <1>0, <1>5, <2>1
       DEF PlaceOrder, TypeOK, CallsTyped, Threads, Holding, Formed, HasData, Calls, Idle, Results, NullTrade, NoId
  <2>3. TradesTyped'
    <3>1. call["jms"].id \in Ids /\ UNCHANGED <<requestCount, requests, outstanding, due>>
      BY <1>0, <1>5 DEF PlaceOrder, CallsTyped, Threads
    <3>2. \A n \in Serials : exchange'[n] # "unsent" => exchange[n] # "unsent" \/ n = call["jms"].trade
      BY <1>0, <1>5 DEF PlaceOrder, TypeOK
    <3> QED
      BY <1>0, <2>1, <3>1, <3>2, <1>5 DEF PlaceOrder, TypeOK, TradesTyped, Formed, HasData
  <2> QED
    BY <2>2, <2>3 DEF Typed
<1>6. ASSUME NEW n \in Serials, ExecutionReport(n) PROVE Typed'
  <2>1. ASSUME NEW r \in Results, NEW k \in Int, NEW x \in {"working", "filled", "closed"},
               Report(n, r, k, x), k \in Int32, left[n] - k \in Int32
        PROVE  Typed'
    <3>1. TypeOK' /\ CallsTyped'
      BY <1>0, <2>1
         DEF Report, TypeOK, CallsTyped, TradesTyped, Threads, Holding, Formed, HasData, Calls, Responding, Idle, NullTrade
    <3> QED
      BY <1>0, <2>1, <3>1 DEF Report, Typed, TypeOK, TradesTyped, Formed, HasData
  <2>2. CASE ReportFilled(n)
    <3>1. left[n] \in Int32 /\ left[n] \in Int /\ left[n] - left[n] \in Int32
      BY <1>0 DEF TypeOK, Int32
    <3> QED
      BY <2>1, <2>2, <3>1 DEF ReportFilled, Results
  <2>3. ASSUME NEW k \in PartFills, ReportPartFill(n, k) PROVE Typed'
    <3>1. k \in Int32 /\ k \in Int /\ left[n] - k \in Int32
      BY <1>0, <2>3, SizesAssumption DEF ReportPartFill, TypeOK, Int32, MinInt
    <3> QED
      BY <2>1, <2>3, <3>1 DEF ReportPartFill, Results
  <2>4. ASSUME NEW r \in {"CANCELED", "REJECTED", "DONE_FOR_DAY", "null"}, ReportClosed(n, r)
        PROVE  Typed'
    <3>1. left[n] - 0 \in Int32
      BY <1>0 DEF TypeOK, Int32
    <3> QED
      BY <2>1, <2>4, <3>1 DEF ReportClosed, Results
  <2>5. CASE ReportWithoutShares(n)
    BY <1>0, <2>5 DEF ReportWithoutShares, Typed, TypeOK, CallsTyped, TradesTyped, Formed, HasData
  <2> QED
    BY <1>6, <2>2, <2>3, <2>4, <2>5 DEF ExecutionReport
<1>7. ASSUME NEW t \in Threads, SendTradeResponse(t) PROVE Typed'
  <2>1. CASE LookUp(t)
    <3>1. TypeOK' /\ CallsTyped'
      BY <1>0, <2>1
         DEF LookUp, Known, TypeOK, CallsTyped, TradesTyped, Threads, Holding, Formed, HasData, Calls, Idle, Results, NullTrade, NoId
    <3> QED
      BY <1>0, <2>1, <3>1 DEF LookUp, Typed, TradesTyped, Formed, HasData
  <2>2. CASE RemoveTrade(t)
    <3>1. Formed(call[t].trade) /\ call[t].trade \in Serials /\ call[t].id \in Ids
      BY <1>0, <2>2 DEF RemoveTrade, CallsTyped, Holding, Formed, HasData, TypeOK, Serials
    <3>2. /\ requests' \in [Serials -> Trades]
          /\ \A n \in Serials : HasData(n) => requests'[n].id \in Ids /\ requests'[n].size \in Int32
      <4>1. requests \in [Serials -> Trades] /\ call[t].result \in Results /\ call[t].shares \in Int32
        BY <1>0 DEF TypeOK, Calls
      <4>2. requests' = [requests EXCEPT ![call[t].trade].result = call[t].result,
                                         ![call[t].trade].size = call[t].shares]
        BY <2>2 DEF RemoveTrade
      <4>3. /\ requests' \in [Serials -> Trades]
            /\ \A n \in Serials : requests'[n].id = requests[n].id
            /\ \A n \in Serials : n # call[t].trade => requests'[n] = requests[n]
            /\ requests'[call[t].trade].size \in Int32
        BY <3>1, <4>1, <4>2, TradeFilledIn
      <4>4. \A n \in Serials : HasData(n) => requests[n].id \in Ids /\ requests[n].size \in Int32
        BY <1>0 DEF HasData
      <4> QED
        BY <4>3, <4>4
    <3>3. /\ call[t].at = "remove"
          /\ call' = [call EXCEPT ![t].at = "finish"]
          /\ \A i \in Ids : outstanding'[i] \in {outstanding[i], Absent}
          /\ outstanding' \in [Ids -> {Absent, NullTrade} \union Serials]
          /\ UNCHANGED <<config, requestCount, requestIDSeq, responseCount, forced,
                         exchange, left, due, replies>>
      BY <1>0, <2>2, <3>1 DEF RemoveTrade, TypeOK
    <3>4. TypeOK'
      BY <1>0, <3>2, <3>3 DEF TypeOK, Calls
    <3>5. CallsTyped'
      BY <1>0, <3>1, <3>2, <3>3 DEF TypeOK, CallsTyped, Threads, Holding, Formed, HasData, Serials
    <3>6. TradesTyped'
      BY <1>0, <3>2, <3>3 DEF TypeOK, TradesTyped, Formed, HasData, Serials, NullTrade
    <3> QED
      BY <3>4, <3>5, <3>6 DEF Typed
  <2>3. CASE ScheduleResponse(t)
    <3>1. Formed(call[t].trade) /\ call[t].trade \in Serials /\ call[t].id \in Ids
      BY <1>0, <2>3 DEF ScheduleResponse, CallsTyped, Holding, Formed, HasData, TypeOK, Serials
    <3>2. requests' = requests \/
          /\ forced[call[t].id] \in Int32
          /\ requests' = [requests EXCEPT ![call[t].trade] = Forced(@, forced[call[t].id])]
      BY <1>0, <2>3, <3>1 DEF ScheduleResponse, TypeOK
    <3>3. forced[call[t].id] \in Int32 =>
            Forced(requests[call[t].trade], forced[call[t].id]) \in Trades
      <4>1. requests[call[t].trade] \in Trades
        BY <1>0, <3>1 DEF TypeOK
      <4> QED
        BY <4>1 DEF Forced, Trades, Results
    <3>4. /\ requests' \in [Serials -> Trades]
          /\ \A n \in Serials : HasData(n) => requests'[n].id \in Ids /\ requests'[n].size \in Int32
      <4>1. requests \in [Serials -> Trades]
        BY <1>0 DEF TypeOK
      <4>2. \A x \in Int32, q \in Trades : Forced(q, x).id = q.id /\ Forced(q, x).size \in {x, q.size}
        BY DEF Forced, Trades
      <4>3. CASE requests' = requests
        BY <4>1, <4>3 DEF HasData
      <4>4. CASE requests' # requests
        BY <3>1, <3>2, <3>3, <4>1, <4>2, <4>4 DEF HasData
      <4> QED
        BY <4>3, <4>4
    <3>5. /\ call' = [call EXCEPT ![t] = Idle]
          /\ due' = [due EXCEPT ![call[t].trade] = @ + 1]
          /\ forced' \in [Ids -> Int32 \union {Absent}]
          /\ UNCHANGED <<config, requestCount, requestIDSeq, responseCount, outstanding,
                         exchange, left, replies>>
      BY <1>0, <2>3, <3>1 DEF ScheduleResponse, TypeOK
    <3>6. TypeOK'
      BY <1>0, <3>1, <3>4, <3>5 DEF TypeOK, Calls, Idle, Results, NullTrade, NoId
    <3>7. ASSUME NEW n \in Serials, Formed(n)
          PROVE  n \in 1..requestCount' /\ requests'[n].id \in Ids /\ requests'[n].size \in Int32
      BY <3>4, <3>5, <3>7 DEF Formed
    <3>8. requestCount \in 0..MaxRequests
      BY <1>0 DEF TypeOK
    <3>9. CallsTyped'
      <4>1. \A u \in Threads : u # t => call'[u] = call[u]
        BY <1>0, <3>5 DEF TypeOK
      <4>2. call'[t].at = "idle"
        BY <1>0, <3>5 DEF TypeOK, Idle
      <4>3. ASSUME NEW u \in Threads, call'[u].at \in Holding
            PROVE  Formed(call[u].trade)'
        <5>1. Formed(call[u].trade) /\ call'[u] = call[u]
          BY <1>0, <4>1, <4>2, <4>3 DEF CallsTyped, Holding
        <5>2. call[u].trade \in Serials
          BY <3>8, <5>1 DEF Formed, Serials
        <5> QED
          BY <3>7, <5>1, <5>2 DEF Formed, HasData
      <4>4. call'["jms"].at = "put" /\ call'["jms"].trade # NullTrade => HasData(requestCount + 1)'
        BY <1>0, <3>4, <3>5, <3>8, <4>1, <4>2 DEF CallsTyped, HasData, Serials, Threads
      <4> QED
        BY <1>0, <3>5, <4>1, <4>2, <4>3, <4>4 DEF CallsTyped, Threads
    <3>10. TradesTyped'
      <4>1. \A n \in Serials : due'[n] > 0 => due[n] > 0 \/ n = call[t].trade
        BY <1>0, <3>1, <3>5 DEF TypeOK
      <4> QED
        <5>1. \A i \in Ids : outstanding[i] > NullTrade => outstanding[i] \in Serials
          BY <1>0 DEF TypeOK, NullTrade
        <5>2. UNCHANGED <<outstanding, exchange>>
          BY <3>5
        <5>3. \A i \in Ids : outstanding'[i] > NullTrade => Formed(outstanding[i])'
          BY <1>0, <3>7, <5>1, <5>2 DEF TradesTyped, Formed, HasData
        <5>4. \A n \in Serials : due'[n] > 0 \/ exchange'[n] # "unsent" => Formed(n)'
          BY <1>0, <3>1, <3>7, <4>1, <5>2 DEF TradesTyped, Formed, HasData
        <5> QED
          BY <5>3, <5>4 DEF TradesTyped
    <3> QED
      BY <3>6, <3>9, <3>10 DEF Typed
  <2>4. CASE LoseResponse(t)
    <3>1. TypeOK' /\ CallsTyped'
      BY <1>0, <2>4
         DEF LoseResponse, TypeOK, CallsTyped, Threads, Holding, Calls, Idle, Results, NullTrade, NoId, Formed, HasData
    <3> QED
      BY <1>0, <2>4, <3>1 DEF LoseResponse, Typed, TradesTyped, Formed, HasData
  <2> QED
    BY <1>7, <2>1, <2>2, <2>3, <2>4 DEF SendTradeResponse
<1>8. ASSUME NEW n \in Serials, DelayedResponse(n) PROVE Typed'
  <2>1. ReplyFor(n) \in Reply /\ due[n] - 1 \in Nat
    BY <1>0, <1>8 DEF DelayedResponse, ReplyFor, Reply, TypeOK, TradesTyped, Formed, HasData, Trades
  <2>2. TypeOK'
    BY <1>0, <1>8, <2>1 DEF DelayedResponse, TypeOK, ReplyFor
  <2> QED
    BY <1>0, <1>8, <2>1, <2>2 DEF DelayedResponse, Typed, TypeOK, CallsTyped, TradesTyped, Formed, HasData
<1>9. CASE UNCHANGED vars
  BY <1>0, <1>9 DEF vars, Typed, TypeOK, CallsTyped, TradesTyped, Formed, HasData
<1> QED
  BY <1>1, <1>2, <1>3, <1>4, <1>5, <1>6, <1>7, <1>8, <1>9 DEF Next, ProcessRequest

\* The state always has its type: in particular no Trade object is handled
\* before it exists and no share count leaves the Java int range, whatever
\* ids the clients use and however the maps race.
THEOREM TypeCorrect == Spec => []TypeOK
<1>1. Spec => []Typed
  BY TypedInit, TypedNext, PTL DEF Spec
<1> QED
  BY <1>1, PTL DEF Typed

-----------------------------------------------------------------------------
(* Whose Trade it is, when no correlation id is used twice.                *)

LEMMA AttributedInit == Init => Attributed
<1> SUFFICES ASSUME Init PROVE Attributed
  OBVIOUS
<1> USE Constants
<1>1. IdsUnique
  BY DEF Init, IdsUnique, NoRequest, NoId, NullTrade, Serials
<1>2. CallsAttributed
  BY DEF Init, CallsAttributed, Idle, Holding, Answering, Threads
<1>3. RejectionsStay /\ EveryNthRejected
  BY DEF Init, RejectionsStay, EveryNthRejected
<1> QED
  BY <1>1, <1>2, <1>3 DEF Attributed

\* A request under an id no request had so far.
LEMMA AttributedStart ==
  ASSUME Typed, Attributed,
         NEW id \in Ids, NEW trade, NEW size,
         \A n \in Serials : requests[n].id # id,
         id \in Serials => id <= requestIDSeq',
         requestIDSeq' \in Nat, requestIDSeq <= requestIDSeq',
         StartRequest(id, trade, size)
  PROVE  Attributed'
<1> USE Constants
<1> DEFINE new == [id |-> id, requested |-> size, size |-> size, result |-> "null"]
           s   == requestCount + 1
<1>1. /\ requests \in [Serials -> Trades] /\ s \in Serials /\ requestCount \in Nat
      /\ requestIDSeq \in Nat
  BY DEF Typed, TypeOK, StartRequest, Serials
<1>2. requests'[s] = new /\ \A n \in Serials \ {s} : requests'[n] = requests[n]
  BY <1>1 DEF StartRequest
<1>3. /\ call["jms"].at = "idle"
      /\ call' = [call EXCEPT !["jms"] = [Idle EXCEPT !.at = "put", !.id = id, !.trade = trade]]
      /\ UNCHANGED <<config, requestCount, outstanding, exchange, due, replies>>
  BY DEF StartRequest, Idle
<1>4. /\ call'["fix"] = call["fix"]
      /\ call'["jms"] = [Idle EXCEPT !.at = "put", !.id = id, !.trade = trade]
  BY <1>3 DEF Typed, TypeOK, Threads
<1>5. \A n : Formed(n) => n \in Serials \ {s} /\ requests'[n] = requests[n]
  BY <1>1, <1>2 DEF Formed, Serials, Typed, TypeOK
<1>6. IdsUnique'
  <2>1. \A i \in Ids : outstanding[i] > NullTrade => requests'[outstanding[i]] = requests[outstanding[i]]
    BY <1>5 DEF Typed, TradesTyped
  <2>2. \A i \in Ids : outstanding'[i] > NullTrade => requests'[outstanding'[i]].id = i
    BY <1>3, <2>1 DEF Attributed, IdsUnique
  <2>3. \A m, n \in Serials : requests'[m].id = requests'[n].id /\ requests'[n].id # NoId => m = n
    BY <1>2 DEF Attributed, IdsUnique
  <2>4. \A n \in Serials : requests'[n].id \in Serials => requests'[n].id <= requestIDSeq'
    <3>1. \A k \in Serials : k <= requestIDSeq => k <= requestIDSeq'
      BY <1>1 DEF Serials
    <3> QED
      BY <1>2, <3>1 DEF Attributed, IdsUnique
  <2> QED
    BY <2>2, <2>3, <2>4 DEF IdsUnique
<1>7. CallsAttributed'
  <2>0. call'["fix"] = call["fix"]
    BY <1>4
  <2>1. call["fix"].at # "idle" =>
          \E n \in Serials \ {s} : exchange[n] # "unsent" /\ requests[n].id = call["fix"].id
    BY <1>1, <1>5 DEF Attributed, CallsAttributed, Typed, TradesTyped
  <2>2. call["fix"].at \in Holding => Formed(call["fix"].trade)
    BY DEF Typed, CallsTyped, Threads
  <2>3. call'["jms"].at = "put" /\ call'["jms"].id = id
    BY <1>4 DEF Idle
  <2>4. /\ requests'[s].id = id /\ requests'[s].size = requests'[s].requested
    BY <1>2
  <2>5. \A t \in Threads : call'[t].at \in Holding => requests'[call'[t].trade].id = call'[t].id
    <3>1. call["fix"].at \in Holding => requests[call["fix"].trade].id = call["fix"].id
      BY DEF Attributed, CallsAttributed, Threads
    <3>2. "put" \notin Holding
      BY DEF Holding
    <3> QED
      BY <1>4, <1>5, <2>2, <2>3, <3>1, <3>2 DEF Threads
  <2>6. \A t \in Threads, n \in Serials :
       call'[t].at \in Answering /\ requests'[n].id = call'[t].id /\ Rejected(n) =>
         call'[t].result = "REJECTED" /\ call'[t].shares = requests'[n].requested
    <3>1. \A n \in Serials :
            call["fix"].at \in Answering /\ requests[n].id = call["fix"].id /\ Rejected(n) =>
              call["fix"].result = "REJECTED" /\ call["fix"].shares = requests[n].requested
      BY DEF Attributed, CallsAttributed, Threads
    <3>2. "put" \notin Answering /\ "idle" \notin Answering
      BY DEF Answering
    <3>3. call["fix"].at # "idle" => requests'[s].id # call["fix"].id
      BY <2>1, <2>4
    <3> QED
      BY <1>2, <2>0, <2>3, <3>1, <3>2, <3>3 DEF Threads, Rejected
  <2>7. \A t \in Threads : call'[t].at = "finish" /\ Rejected(call'[t].trade) =>
          requests'[call'[t].trade].result = "REJECTED"
          /\ requests'[call'[t].trade].size = requests'[call'[t].trade].requested
    <3>1. call["fix"].at = "finish" /\ Rejected(call["fix"].trade) =>
            /\ requests[call["fix"].trade].result = "REJECTED"
            /\ requests[call["fix"].trade].size = requests[call["fix"].trade].requested
      BY DEF Attributed, CallsAttributed, Threads, Failed
    <3>2. "finish" \in Holding
      BY DEF Holding
    <3> QED
      BY <2>0, <1>5, <2>2, <2>3, <3>1, <3>2 DEF Threads, Rejected
  <2>8. call'["fix"].at # "idle" =>
          \E n \in Serials : exchange'[n] # "unsent" /\ requests'[n].id = call'["fix"].id
    BY <1>2, <1>3, <1>4, <2>1
  <2> QED
    BY <1>3, <2>3, <2>4, <2>5, <2>6, <2>7, <2>8 DEF CallsAttributed, Rejected, Failed
<1>8. RejectionsStay' /\ EveryNthRejected'
  <2>1. \A n \in Serials : due[n] > 0 => requests'[n] = requests[n]
    BY <1>5 DEF Typed, TradesTyped
  <2>2. \A m \in replies : requests'[m.n] = requests[m.n]
    BY <1>1, <1>2 DEF Attributed, RejectionsStay, Typed, TypeOK, Reply, Serials
  <2> QED
    BY <1>3, <2>1, <2>2 DEF Attributed, RejectionsStay, EveryNthRejected, Failed, Rejected
<1> QED
  BY <1>6, <1>7, <1>8 DEF Attributed

LEMMA AttributedNext ==
  ASSUME UniqueIds, Typed, Attributed, [Next]_vars
  PROVE  Attributed'
<1> USE Constants
<1>0. TypeOK /\ CallsTyped /\ TradesTyped
      /\ IdsUnique /\ CallsAttributed /\ RejectionsStay /\ EveryNthRejected
  BY DEF Typed, Attributed
<1> DEFINE c == call["jms"]
<1>1. CASE Receive
  <2>1. ASSUME NEW k \in ClientIds, Usable(k) PROVE k \notin Serials /\ \A n \in Serials : requests[n].id # k
    BY <2>1, UniqueIds, ClientIdsAssumption DEF Usable, Serials
  <2>2. ASSUME NEW k \in ClientIds, NEW s \in Sizes, ReceiveTrade(k, s) PROVE Attributed'
    BY <1>0, <2>1, <2>2, AttributedStart DEF ReceiveTrade, TypeOK
  <2>3. ASSUME NEW s \in Sizes, ReceiveUncorrelated(s) PROVE Attributed'
    <3>1. /\ requestIDSeq + 1 \in Serials /\ requestIDSeq' = requestIDSeq + 1
          /\ requestIDSeq \in Nat
      BY <1>0, <2>3 DEF ReceiveUncorrelated, TypeOK, Serials
    <3>2. \A n \in Serials : requests[n].id # requestIDSeq + 1
      BY <1>0, <3>1 DEF IdsUnique
    <3> QED
      BY <1>0, <2>3, <3>1, <3>2, AttributedStart DEF ReceiveUncorrelated
  <2>4. ASSUME NEW k \in ClientIds, ReceiveMalformed(k) PROVE Attributed'
    BY <1>0, <2>1, <2>4, AttributedStart DEF ReceiveMalformed, TypeOK
  <2>5. CASE ReceiveUnusable
    <3>1. UNCHANGED <<config, requestCount, requests, outstanding, call, exchange, due, replies>>
      BY <2>5 DEF ReceiveUnusable
    <3>2. \A n \in Serials : requests'[n].id \in Serials => requests'[n].id <= requestIDSeq'
      BY <1>0, <2>5 DEF ReceiveUnusable, TypeOK, IdsUnique, Serials
    <3> QED
      BY <1>0, <3>1, <3>2 DEF Attributed, IdsUnique, CallsAttributed, RejectionsStay,
         EveryNthRejected, Failed, Rejected
  <2> QED
    BY <1>1, <2>2, <2>3, <2>4, <2>5 DEF Receive
<1>2. CASE RecordRequest
  <2> DEFINE s == requestCount + 1
             a == AfterCount(c, s)
  <2>1. /\ c.at = "put" /\ c.id \in Ids /\ s \in Serials /\ requestCount' = s
        /\ call'["jms"] = a /\ call'["fix"] = call["fix"]
        /\ UNCHANGED <<config, requestIDSeq, requests, exchange, due, replies>>
    BY <1>0, <1>2 DEF RecordRequest, TypeOK, CallsTyped, Threads, Serials
  <2>2. requests[s].id = c.id /\ requests[s].size = requests[s].requested
    BY <1>0, <2>1 DEF CallsAttributed
  <2>3. c.trade \in {NullTrade, s}
    BY <1>0, <2>1 DEF CallsTyped
  <2>4. /\ a.at \in {"idle", "partial", "send", "lookup"}
        /\ a.at \in {"partial", "send"} => a.id = c.id /\ a.trade = s /\ ~Rejected(s)
        /\ a.at = "lookup" => /\ a.id = c.id /\ a.result = "REJECTED"
                              /\ a.shares = requests[s].requested
    <3>1. c \in Calls
      BY <1>0 DEF TypeOK, Threads
    <3> QED
      BY <2>1, <2>2, <2>3, <3>1 DEF AfterCount, Responding, Idle, Calls
  <2> HIDE DEF a
  <2>5. IdsUnique'
    <3>1. \A i \in Ids : outstanding'[i] > NullTrade =>
            \/ outstanding[i] > NullTrade /\ outstanding'[i] = outstanding[i]
            \/ outstanding'[i] = s /\ i = c.id
      BY <1>0, <1>2, <2>3 DEF RecordRequest, TypeOK, NullTrade
    <3> QED
      BY <1>0, <2>1, <2>2, <3>1 DEF IdsUnique
  <2>6. CallsAttributed'
    <3>1. \A n \in Serials : requests[n].id = c.id => n = s
      BY <1>0, <2>1, <2>2 DEF IdsUnique
    <3> QED
      BY <1>0, <2>1, <2>2, <2>4, <3>1 DEF CallsAttributed, Threads, Holding, Answering, Failed, Rejected
  <2>7. RejectionsStay' /\ EveryNthRejected'
    <3>1. \A m \in replies : m.n \in Serials
      BY <1>0 DEF TypeOK, Reply
    <3>2. \A m \in replies : m.n <= s
      BY <1>0, <3>1 DEF RejectionsStay, TypeOK, Serials
    <3> QED
      BY <1>0, <2>1, <3>2 DEF RejectionsStay, EveryNthRejected, Failed, Rejected
  <2> QED
    BY <2>5, <2>6, <2>7 DEF Attributed
<1>3. CASE ForcePartial
  <2>1. /\ c.at = "partial" /\ call'["fix"] = call["fix"]
        /\ UNCHANGED <<config, requestCount, requestIDSeq, requests, outstanding, exchange, due, replies>>
    BY <1>0, <1>3 DEF ForcePartial, TypeOK, Threads
  <2>2. /\ call'["jms"].at = "send" /\ call'["jms"].id = c.id /\ call'["jms"].trade = c.trade
    BY <1>0, <1>3 DEF ForcePartial, TypeOK, Calls, Threads
  <2> QED
    BY <1>0, <2>1, <2>2 DEF Attributed, IdsUnique, CallsAttributed, RejectionsStay,
       EveryNthRejected, Failed, Rejected, Threads, Holding, Answering
<1>4. CASE FillTrade
  <2>1. /\ c.at = "send" /\ call'["fix"] = call["fix"]
        /\ call'["jms"].at = "lookup" /\ call'["jms"].id = c.id
        /\ UNCHANGED <<config, requestCount, requestIDSeq, requests, outstanding, exchange, due, replies>>
    BY <1>0, <1>4 DEF FillTrade, TypeOK, Threads, Responding, Idle
  <2>2. /\ c.id \in Ids /\ c.trade \in Serials /\ requests[c.trade].id = c.id /\ ~Rejected(c.trade)
    BY <1>0, <2>1 DEF CallsTyped, CallsAttributed, Holding, Threads, Formed, TypeOK, Serials
  <2>3. \A n \in Serials : requests[n].id = c.id => ~Rejected(n)
    BY <1>0, <2>2 DEF IdsUnique
  <2> QED
    BY <1>0, <2>1, <2>3 DEF Attributed, IdsUnique, CallsAttributed, RejectionsStay,
       EveryNthRejected, Failed, Rejected, Threads, Holding, Answering
<1>5. CASE PlaceOrder
  <2>1. /\ c.at = "send" /\ call'["fix"] = call["fix"] /\ call'["jms"].at = "idle"
        /\ UNCHANGED <<config, requestCount, requestIDSeq, requests, outstanding, due, replies>>
    BY <1>0, <1>5 DEF PlaceOrder, TypeOK, Threads, Idle
  <2>2. ~Rejected(c.trade)
    BY <1>0, <2>1 DEF CallsAttributed
  <2>3. \A n \in Serials : /\ exchange'[n] # "unsent" => exchange[n] # "unsent" \/ n = c.trade
                           /\ exchange[n] # "unsent" => exchange'[n] # "unsent"
    BY <1>0, <1>5 DEF PlaceOrder, TypeOK
  <2> QED
    BY <1>0, <2>1, <2>2, <2>3 DEF Attributed, IdsUnique, CallsAttributed, RejectionsStay,
       EveryNthRejected, Failed, Rejected, Threads, Holding, Answering
<1>6. ASSUME NEW n \in Serials, ExecutionReport(n) PROVE Attributed'
  <2>1. /\ exchange[n] # "unsent"
        /\ call["fix"].at = "idle" /\ call'["jms"] = call["jms"]
        /\ \/ call'["fix"].at = "lookup" /\ call'["fix"].id = requests[n].id
           \/ call'["fix"].at = "idle"
        /\ \A k \in Serials : exchange'[k] # "unsent" <=> exchange[k] # "unsent"
        /\ UNCHANGED <<config, requestCount, requestIDSeq, requests, outstanding, due, replies>>
    <3>1. ASSUME NEW r, NEW k, NEW x \in {"working", "filled", "closed"}, Report(n, r, k, x)
          PROVE  /\ exchange[n] # "unsent"
                 /\ call["fix"].at = "idle" /\ call'["jms"] = call["jms"]
                 /\ call'["fix"].at = "lookup" /\ call'["fix"].id = requests[n].id
                 /\ \A m \in Serials : exchange'[m] # "unsent" <=> exchange[m] # "unsent"
                 /\ UNCHANGED <<config, requestCount, requestIDSeq, requests, outstanding, due, replies>>
      BY <1>0, <3>1 DEF Report, Responding, Idle, TypeOK, Threads
    <3>2. CASE ReportWithoutShares(n)
      BY <1>0, <3>2 DEF ReportWithoutShares, Idle, TypeOK, Threads
    <3>3. CASE ReportFilled(n)
      BY <3>1, <3>3 DEF ReportFilled
    <3>4. ASSUME NEW k \in PartFills, ReportPartFill(n, k)
          PROVE  Report(n, "PARTIALLY_FILLED", k, "working")
      BY <3>4 DEF ReportPartFill
    <3>5. ASSUME NEW r, ReportClosed(n, r) PROVE Report(n, r, 0, "closed")
      BY <3>5 DEF ReportClosed
    <3> QED
      BY <1>6, <3>1, <3>2, <3>3, <3>4, <3>5 DEF ExecutionReport
  <2>2. ~Rejected(n) /\ requests[n].id \in Ids
    BY <1>0, <2>1 DEF RejectionsStay, TradesTyped, Formed, HasData
  <2>3. \A k \in Serials : requests[k].id = requests[n].id => ~Rejected(k)
    BY <1>0, <2>2 DEF IdsUnique
  <2> QED
    BY <1>0, <2>1, <2>3 DEF Attributed, IdsUnique, CallsAttributed, RejectionsStay,
       EveryNthRejected, Failed, Rejected, Threads, Holding, Answering
<1>7. ASSUME NEW t \in Threads, SendTradeResponse(t) PROVE Attributed'
  <2>0. /\ \A u \in Threads : u # t => call'[u] = call[u]
        /\ UNCHANGED <<config, requestCount, requestIDSeq, exchange, replies>>
    BY <1>0, <1>7 DEF SendTradeResponse, LookUp, RemoveTrade, ScheduleResponse, LoseResponse, TypeOK
  <2>1. CASE LookUp(t)
    <3>1. /\ call[t].at = "lookup" /\ call[t].id \in Ids /\ UNCHANGED <<requests, outstanding, due>>
      BY <1>0, <2>1 DEF LookUp, CallsTyped
    <3>2. \/ call'[t].at = "idle"
          \/ /\ call'[t].at = "remove" /\ call'[t].id = call[t].id
             /\ call'[t].trade = outstanding[call[t].id] /\ outstanding[call[t].id] > NullTrade
             /\ call'[t].result = call[t].result /\ call'[t].shares = call[t].shares
      BY <1>0, <2>1 DEF LookUp, Known, TypeOK, Calls, Idle
    <3>3. outstanding[call[t].id] > NullTrade => requests[outstanding[call[t].id]].id = call[t].id
      BY <1>0, <3>1 DEF IdsUnique
    <3>4. IdsUnique'
      BY <1>0, <2>0, <3>1 DEF IdsUnique
    <3>5. RejectionsStay' /\ EveryNthRejected'
      BY <1>0, <2>0, <3>1 DEF RejectionsStay, EveryNthRejected, Failed, Rejected
    <3>6. CallsAttributed'
      BY <1>0, <2>0, <3>1, <3>2, <3>3 DEF CallsAttributed, Failed, Rejected, Threads, Holding, Answering
    <3> QED
      BY <3>4, <3>5, <3>6 DEF Attributed
  <2>2. CASE RemoveTrade(t)
    <3> DEFINE n == call[t].trade
    <3>1. /\ call[t].at = "remove" /\ call[t].id \in Ids /\ n \in Serials /\ n \in 1..requestCount
          /\ requests[n].id = call[t].id /\ requestCount \in Nat
      BY <1>0, <2>2 DEF RemoveTrade, CallsTyped, CallsAttributed, Holding, Formed, TypeOK, Serials
    <3>2. /\ call'[t].at = "finish" /\ call'[t].id = call[t].id /\ call'[t].trade = n
          /\ call'[t].result = call[t].result /\ call'[t].shares = call[t].shares
          /\ due' = due
          /\ \A i \in Ids : outstanding'[i] \in {outstanding[i], Absent}
      BY <1>0, <2>2 DEF RemoveTrade, TypeOK, Calls
    <3>3. /\ \A k \in Serials : /\ requests'[k].id = requests[k].id
                                /\ requests'[k].requested = requests[k].requested
                                /\ k # n => requests'[k] = requests[k]
          /\ requests'[n].result = call[t].result /\ requests'[n].size = call[t].shares
      <4>1. requests \in [Serials -> Trades]
        BY <1>0 DEF TypeOK
      <4>2. requests' = [requests EXCEPT ![n].result = call[t].result, ![n].size = call[t].shares]
        BY <2>2 DEF RemoveTrade
      <4>3. n \in Serials
        BY <3>1
      <4> HIDE DEF n
      <4> QED
        BY <4>1, <4>2, <4>3, TradeFilledIn
    <3>4. Rejected(n) => call[t].result = "REJECTED" /\ call[t].shares = requests[n].requested
      BY <1>0, <3>1 DEF CallsAttributed, Answering
    <3>5. \A k \in Serials : Rejected(k) /\ (k = n \/ Failed(k)) =>
            requests'[k].result = "REJECTED" /\ requests'[k].size = requests'[k].requested
      BY <3>3, <3>4 DEF Failed, Rejected
    <3>6. IdsUnique'
      <4>1. \A i \in Ids : outstanding'[i] > NullTrade =>
              outstanding[i] > NullTrade /\ outstanding'[i] = outstanding[i] /\ outstanding[i] \in Serials
        BY <1>0, <3>2 DEF TypeOK, NullTrade
      <4> QED
        BY <1>0, <2>0, <3>3, <4>1 DEF IdsUnique
    <3>7. CallsAttributed'
      <4>1. \A u \in Threads : call'[u].at \in Holding =>
              call'[u].trade \in Serials /\ call'[u].trade # requestCount + 1
        <5>1. \A u \in Threads : call[u].at \in Holding =>
                call[u].trade \in Serials /\ call[u].trade # requestCount + 1
          BY <1>0, <3>1 DEF CallsTyped, Formed, TypeOK, Serials
        <5> QED
          BY <2>0, <3>1, <3>2, <5>1
      <4>2. \A u \in Threads : call'[u].at \in Holding => requests'[call'[u].trade].id = call'[u].id
        <5>1. \A u \in Threads : call[u].at \in Holding => requests[call[u].trade].id = call[u].id
          BY <1>0 DEF CallsAttributed
        <5>2. \A u \in Threads : u # t /\ call'[u].at \in Holding =>
                call[u].at \in Holding /\ call'[u].trade \in Serials
          BY <2>0, <4>1
        <5>3. \A u \in Threads : u # t /\ call'[u].at \in Holding => requests'[call'[u].trade].id = call'[u].id
          BY <2>0, <3>3, <5>1, <5>2
        <5>4. requests'[call'[t].trade].id = call'[t].id
          BY <3>1, <3>2, <3>3
        <5> QED
          BY <5>3, <5>4
      <4>3. call'["jms"].at = "put" => call'["jms"] = call["jms"]
        BY <2>0, <3>2 DEF Threads
      <4>4. call'["jms"].at = "put" =>
              /\ requests'[requestCount + 1].id = call'["jms"].id
              /\ requests'[requestCount + 1].size = requests'[requestCount + 1].requested
        BY <1>0, <3>1, <3>3, <4>3 DEF CallsAttributed, CallsTyped, TypeOK, Serials
      <4>5. call'["jms"].at \in {"partial", "send"} => ~Rejected(call'["jms"].trade)
        BY <1>0, <2>0, <3>2 DEF CallsAttributed, Threads, Rejected
      <4>6. \A u \in Threads, k \in Serials :
              call'[u].at \in Answering /\ requests'[k].id = call'[u].id /\ Rejected(k) =>
                call'[u].result = "REJECTED" /\ call'[u].shares = requests'[k].requested
        BY <1>0, <2>0, <3>1, <3>2, <3>3 DEF CallsAttributed, Answering, Rejected
      <4>7. \A u \in Threads : call'[u].at = "finish" /\ Rejected(call'[u].trade) =>
              /\ requests'[call'[u].trade].result = "REJECTED"
              /\ requests'[call'[u].trade].size = requests'[call'[u].trade].requested
        BY <1>0, <2>0, <3>2, <3>5, <4>1 DEF CallsAttributed, Holding, Rejected
      <4>8. call'["fix"].at # "idle" =>
              \E k \in Serials : exchange'[k] # "unsent" /\ requests'[k].id = call'["fix"].id
        BY <1>0, <2>0, <3>1, <3>2, <3>3 DEF CallsAttributed, Threads
      <4> QED
        BY <2>0, <4>2, <4>4, <4>5, <4>6, <4>7, <4>8 DEF CallsAttributed, Failed, Rejected
    <3>8. RejectionsStay' /\ EveryNthRejected'
      <4>1. \A m \in replies : m.n \in Serials
        BY <1>0 DEF TypeOK, Reply
      <4> QED
        BY <1>0, <2>0, <3>2, <3>3, <3>5, <4>1 DEF RejectionsStay, EveryNthRejected, Failed, Rejected
    <3> QED
      BY <3>6, <3>7, <3>8 DEF Attributed
  <2>3. CASE ScheduleResponse(t)
    <3> DEFINE n == call[t].trade
    <3>1. /\ call[t].at = "finish" /\ call[t].id \in Ids /\ n \in Serials /\ n \in 1..requestCount
          /\ requests[n].id = call[t].id /\ requestCount \in Nat
      BY <1>0, <2>3 DEF ScheduleResponse, CallsTyped, CallsAttributed, Holding, Formed, TypeOK, Serials
    <3>2. /\ call'[t].at = "idle" /\ outstanding' = outstanding
          /\ \A k \in Serials : due'[k] > 0 => due[k] > 0 \/ k = n
      BY <1>0, <2>3, <3>1 DEF ScheduleResponse, TypeOK, Idle
    <3>3. \A k \in Serials : /\ requests'[k].id = requests[k].id
                             /\ requests'[k].requested = requests[k].requested
                             /\ k # n \/ requests[k].result = "REJECTED" => requests'[k] = requests[k]
      <4>1. requests' = requests \/
              requests' = [requests EXCEPT ![n] = Forced(@, forced[call[t].id])]
        BY <2>3 DEF ScheduleResponse
      <4>2. requests \in [Serials -> Trades]
        BY <1>0 DEF TypeOK
      <4>3. \A x, q : q \in Trades => /\ Forced(q, x).id = q.id /\ Forced(q, x).requested = q.requested
                                      /\ q.result = "REJECTED" => Forced(q, x) = q
        BY DEF Forced, Trades
      <4> QED
        BY <3>1, <4>1, <4>2, <4>3
    <3>4. Rejected(n) => Failed(n)
      BY <1>0, <3>1 DEF CallsAttributed
    <3>5. \A k \in Serials : Rejected(k) /\ (k = n \/ Failed(k)) =>
            requests'[k].result = "REJECTED" /\ requests'[k].size = requests'[k].requested
      BY <3>3, <3>4 DEF Failed, Rejected
    <3>6. IdsUnique'
      <4>1. \A i \in Ids : outstanding[i] > NullTrade => outstanding[i] \in Serials
        BY <1>0 DEF TypeOK, NullTrade
      <4> QED
        BY <1>0, <2>0, <3>2, <3>3, <4>1 DEF IdsUnique
    <3>7. CallsAttributed'
      <4>1. \A u \in Threads : call[u].at \in Holding =>
              call[u].trade \in Serials /\ call[u].trade # requestCount + 1
        BY <1>0, <3>1 DEF CallsTyped, Formed, TypeOK, Serials
      <4>2. \A u \in Threads : call'[u].at # "idle" => call'[u] = call[u]
        BY <2>0, <3>2
      <4>3. \A u \in Threads : call'[u].at \in Holding => requests'[call'[u].trade].id = call'[u].id
        BY <1>0, <3>3, <4>1, <4>2 DEF CallsAttributed, Holding
      <4>4. call'["jms"].at = "put" =>
              /\ requests'[requestCount + 1].id = call'["jms"].id
              /\ requests'[requestCount + 1].size = requests'[requestCount + 1].requested
        <5>1. call'["jms"].at = "put" => call'["jms"] = call["jms"]
          BY <4>2 DEF Threads
        <5>2. call["jms"].at = "put" => requestCount + 1 \in Serials /\ requestCount + 1 # n
          BY <1>0, <3>1 DEF CallsTyped, TypeOK, Serials
        <5> QED
          BY <1>0, <3>3, <5>1, <5>2 DEF CallsAttributed
      <4>5. call'["jms"].at \in {"partial", "send"} => ~Rejected(call'["jms"].trade)
        BY <1>0, <4>2 DEF CallsAttributed, Threads, Rejected
      <4>6. \A u \in Threads, k \in Serials :
              call'[u].at \in Answering /\ requests'[k].id = call'[u].id /\ Rejected(k) =>
                call'[u].result = "REJECTED" /\ call'[u].shares = requests'[k].requested
        BY <1>0, <3>3, <4>2 DEF CallsAttributed, Answering, Rejected
      <4>7. \A u \in Threads : call'[u].at = "finish" /\ Rejected(call'[u].trade) =>
              /\ requests'[call'[u].trade].result = "REJECTED"
              /\ requests'[call'[u].trade].size = requests'[call'[u].trade].requested
        BY <1>0, <3>5, <4>1, <4>2 DEF CallsAttributed, Holding, Rejected
      <4>8. call'["fix"].at # "idle" =>
              \E k \in Serials : exchange'[k] # "unsent" /\ requests'[k].id = call'["fix"].id
        BY <1>0, <2>0, <3>3, <4>2 DEF CallsAttributed, Threads
      <4> QED
        BY <2>0, <4>3, <4>4, <4>5, <4>6, <4>7, <4>8 DEF CallsAttributed, Failed, Rejected
    <3>8. RejectionsStay' /\ EveryNthRejected'
      <4>1. \A m \in replies : m.n \in Serials
        BY <1>0 DEF TypeOK, Reply
      <4> QED
        BY <1>0, <2>0, <3>2, <3>3, <3>5, <4>1 DEF RejectionsStay, EveryNthRejected, Failed, Rejected
    <3> QED
      BY <3>6, <3>7, <3>8 DEF Attributed
  <2>4. CASE LoseResponse(t)
    <3>1. /\ call'[t].at = "idle" /\ UNCHANGED <<requests, outstanding, due>>
      BY <1>0, <2>4 DEF LoseResponse, TypeOK, Idle
    <3> QED
      BY <1>0, <2>0, <3>1 DEF Attributed, IdsUnique, CallsAttributed, RejectionsStay,
         EveryNthRejected, Failed, Rejected, Threads, Holding, Answering
  <2> QED
    BY <1>7, <2>1, <2>2, <2>3, <2>4 DEF SendTradeResponse
<1>8. ASSUME NEW n \in Serials, DelayedResponse(n) PROVE Attributed'
  <2>1. /\ due[n] > 0 /\ Formed(n)
        /\ replies' \in {replies, replies \union {ReplyFor(n)}}
        /\ \A k \in Serials : due'[k] > 0 => due[k] > 0
        /\ UNCHANGED <<config, requestCount, requestIDSeq, requests, outstanding, call, exchange>>
    BY <1>0, <1>8 DEF DelayedResponse, TypeOK, TradesTyped
  <2>2. Rejected(n) => Failed(n)
    BY <1>0, <2>1 DEF RejectionsStay
  <2>3. \A m \in replies' : m \in replies \/
          (m.n = n /\ m.result = requests[n].result /\ m.size = requests[n].size)
    BY <2>1 DEF ReplyFor
  <2>4. n <= requestCount
    BY <1>0, <2>1 DEF Formed, TypeOK
  <2> QED
    BY <1>0, <2>1, <2>2, <2>3, <2>4 DEF Attributed, IdsUnique, CallsAttributed, RejectionsStay,
       EveryNthRejected, Failed, Rejected
<1>9. CASE UNCHANGED vars
  BY <1>0, <1>9 DEF vars, Attributed, IdsUnique, CallsAttributed, RejectionsStay,
     EveryNthRejected, Failed, Rejected
<1> QED
  BY <1>1, <1>2, <1>3, <1>4, <1>5, <1>6, <1>7, <1>8, <1>9 DEF Next, ProcessRequest

\* With correlation ids that are never reused, every FAIL_ONCE_PER-th request
\* that is answered is answered REJECTED, for the shares it asked for: reports
\* from the exchange, simulated partial fills and racing maps cannot change it.
THEOREM RejectionsHold == UniqueIds => (Spec => []EveryNthRejected)
<1> SUFFICES ASSUME UniqueIds PROVE Spec => []EveryNthRejected
  OBVIOUS
<1>1. Spec => []Typed
  BY TypedInit, TypedNext, PTL DEF Spec
<1>2. Typed /\ Attributed /\ [Next]_vars => Attributed'
  BY AttributedNext
<1>3. Attributed => EveryNthRejected
  BY DEF Attributed
<1> QED
  BY <1>1, <1>2, <1>3, AttributedInit, PTL DEF Spec

-----------------------------------------------------------------------------
(* The right to answer a request exists once.                              *)

LEMMA OnceInit == Init => Once
<1> USE Constants
<1> QED
  BY DEF Init, Once, ThreadsApart, TokenUnique, AtMostOneReply, Replied, Idle, Threads, NullTrade

LEMMA OnceNext ==
  ASSUME UniqueIds, ~MapRaces, Typed, Attributed, Once, [Next]_vars
  PROVE  Once'
<1> USE Constants
<1>0. TypeOK /\ CallsTyped /\ TradesTyped
      /\ IdsUnique /\ CallsAttributed /\ RejectionsStay
      /\ ThreadsApart /\ TokenUnique /\ AtMostOneReply
  BY DEF Typed, Attributed, Once
<1> DEFINE c == call["jms"]
           s == requestCount + 1
<1>a. requestCount \in Nat
  BY <1>0 DEF TypeOK
\* The two threads never work on the same id.
<1>b. \A t, u \in Threads :
        t # u /\ call[t].at # "idle" /\ call[u].at # "idle" => call[t].id # call[u].id
  BY <1>0 DEF ThreadsApart, CallsAttributed, Threads
<1>1. CASE Receive
  <2>1. ASSUME NEW id \in Ids, NEW trade, NEW size, StartRequest(id, trade, size),
               \A n \in Serials : requests[n].id # id
        PROVE  Once'
    <3>1. /\ s \in Serials /\ c.at = "idle" /\ call'["fix"] = call["fix"]
          /\ call'["jms"].at = "put" /\ call'["jms"].id = id
          /\ \A n \in Serials : n # s => requests'[n] = requests[n]
          /\ UNCHANGED <<requestCount, outstanding, exchange, due, replies>>
      BY <1>0, <1>a, <2>1 DEF StartRequest, TypeOK, Idle, Threads, Serials
    <3>2. exchange[s] = "unsent"
      BY <1>0, <1>a, <3>1 DEF TradesTyped, Formed
    <3>3. ThreadsApart'
      BY <2>1, <3>1, <3>2 DEF ThreadsApart
    <3> QED
      BY <1>0, <3>1, <3>3 DEF Once, TokenUnique, AtMostOneReply, Replied, Threads
  <2>2. ASSUME NEW k \in ClientIds, Usable(k) PROVE \A n \in Serials : requests[n].id # k
    BY <2>2, UniqueIds DEF Usable
  <2>3. ASSUME NEW k \in ClientIds, NEW z \in Sizes, ReceiveTrade(k, z) PROVE Once'
    BY <2>1, <2>2, <2>3 DEF ReceiveTrade
  <2>4. ASSUME NEW z \in Sizes, ReceiveUncorrelated(z) PROVE Once'
    <3>1. requestIDSeq + 1 \in Serials /\ requestIDSeq \in Nat
      BY <1>0, <2>4 DEF ReceiveUncorrelated, TypeOK, Serials
    <3>2. \A n \in Serials : requests[n].id # requestIDSeq + 1
      BY <1>0, <3>1 DEF IdsUnique
    <3> QED
      BY <2>1, <2>4, <3>1, <3>2 DEF ReceiveUncorrelated
  <2>5. ASSUME NEW k \in ClientIds, ReceiveMalformed(k) PROVE Once'
    BY <2>1, <2>2, <2>5 DEF ReceiveMalformed
  <2>6. CASE ReceiveUnusable
    BY <1>0, <2>6 DEF ReceiveUnusable, Once, ThreadsApart, TokenUnique, AtMostOneReply, Replied
  <2> QED
    BY <1>1, <2>3, <2>4, <2>5, <2>6 DEF Receive
<1>2. CASE RecordRequest
  <2> DEFINE a == AfterCount(c, s)
  <2>1. /\ c.at = "put" /\ c.id \in Ids /\ s \in Serials /\ requestCount' = s
        /\ call'["jms"] = a /\ call'["fix"] = call["fix"]
        /\ outstanding' = [outstanding EXCEPT ![c.id] = c.trade]
        /\ UNCHANGED <<requests, exchange, due, replies>>
    BY <1>0, <1>2, ~MapRaces DEF RecordRequest, Overlaps, TypeOK, CallsTyped, Threads, Serials
  <2>2. requests[s].id = c.id /\ exchange[s] = "unsent"
    BY <1>0, <2>1 DEF CallsAttributed, ThreadsApart
  <2>3. c.trade \in {NullTrade, s}
    BY <1>0, <2>1 DEF CallsTyped
  <2>4. a.at \in {"idle", "partial", "send", "lookup"} /\ (a.at # "idle" => a.id = c.id)
    BY <2>1, AfterCountTyped
  <2> HIDE DEF a
  <2>5. due[s] = 0 /\ ~Replied(s)
    <3>1. ~(s <= requestCount)
      BY <1>a
    <3>2. ~(due[s] > 0)
      BY <1>0, <2>1, <3>1 DEF TradesTyped, Formed
    <3>3. due[s] \in Nat
      BY <1>0, <2>1 DEF TypeOK
    <3> QED
      BY <1>0, <3>1, <3>2, <3>3 DEF RejectionsStay, Replied
  <2>6. call["fix"].at # "idle" => call["fix"].id # c.id
    BY <1>0, <2>1, <2>2 DEF CallsAttributed, IdsUnique
  <2>7. ThreadsApart'
    BY <1>0, <2>1, <2>4 DEF ThreadsApart
  <2>8. TokenUnique'
    <3>1. /\ call["fix"].at # "idle" => call["fix"].id \in Ids
          /\ \A i \in Ids : i # c.id => outstanding'[i] = outstanding[i]
          /\ outstanding'[c.id] \in {NullTrade, s}
      BY <1>0, <2>1, <2>3 DEF TypeOK, CallsTyped, Threads
    <3> QED
      BY <1>0, <2>1, <2>4, <2>5, <2>6, <3>1 DEF TokenUnique, Replied, Threads, NullTrade
  <2> QED
    BY <1>0, <2>1, <2>7, <2>8 DEF Once, AtMostOneReply
<1>3. CASE ForcePartial
  <2>1. /\ c.at = "partial" /\ call'["fix"] = call["fix"]
        /\ call'["jms"].at = "send" /\ call'["jms"].id = c.id
        /\ UNCHANGED <<requests, outstanding, exchange, due, replies>>
    BY <1>0, <1>3 DEF ForcePartial, TypeOK, Calls, Threads
  <2> QED
    BY <1>0, <2>1 DEF Once, ThreadsApart, TokenUnique, AtMostOneReply, Replied, Threads
<1>4. CASE FillTrade
  <2>1. /\ c.at = "send" /\ call'["fix"] = call["fix"]
        /\ call'["jms"].at = "lookup" /\ call'["jms"].id = c.id
        /\ UNCHANGED <<requests, outstanding, exchange, due, replies>>
    BY <1>0, <1>4 DEF FillTrade, TypeOK, Threads, Responding, Idle
  <2> QED
    BY <1>0, <2>1 DEF Once, ThreadsApart, TokenUnique, AtMostOneReply, Replied, Threads
<1>5. CASE PlaceOrder
  <2>1. /\ c.at = "send" /\ call'["fix"] = call["fix"] /\ call'["jms"].at = "idle"
        /\ UNCHANGED <<requests, outstanding, due, replies>>
    BY <1>0, <1>5 DEF PlaceOrder, TypeOK, Threads, Idle
  <2> QED
    BY <1>0, <2>1 DEF Once, ThreadsApart, TokenUnique, AtMostOneReply, Replied, Threads
<1>6. ASSUME NEW n \in Serials, ExecutionReport(n) PROVE Once'
  <2>1. /\ call'["jms"] = call["jms"]
        /\ call'["fix"].at \in {"idle", "lookup"}
        /\ \A k \in Serials : exchange'[k] # "unsent" <=> exchange[k] # "unsent"
        /\ UNCHANGED <<requests, outstanding, due, replies>>
    <3>1. ASSUME NEW r, NEW k, NEW x \in {"working", "filled", "closed"}, Report(n, r, k, x)
          PROVE  /\ call'["jms"] = call["jms"] /\ call'["fix"].at = "lookup"
                 /\ \A m \in Serials : exchange'[m] # "unsent" <=> exchange[m] # "unsent"
                 /\ UNCHANGED <<requests, outstanding, due, replies>>
      BY <1>0, <3>1 DEF Report, Responding, Idle, TypeOK, Threads
    <3>2. CASE ReportWithoutShares(n)
      BY <1>0, <3>2 DEF ReportWithoutShares, Idle, TypeOK, Threads
    <3>3. CASE ReportFilled(n)
      BY <3>1, <3>3 DEF ReportFilled
    <3>4. ASSUME NEW k \in PartFills, ReportPartFill(n, k)
          PROVE  Report(n, "PARTIALLY_FILLED", k, "working")
      BY <3>4 DEF ReportPartFill
    <3>5. ASSUME NEW r, ReportClosed(n, r) PROVE Report(n, r, 0, "closed")
      BY <3>5 DEF ReportClosed
    <3> QED
      BY <1>6, <3>1, <3>2, <3>3, <3>4, <3>5 DEF ExecutionReport
  <2> QED
    BY <1>0, <2>1 DEF Once, ThreadsApart, TokenUnique, AtMostOneReply, Replied, Threads
<1>7. ASSUME NEW t \in Threads, SendTradeResponse(t) PROVE Once'
  <2>0. /\ \A u \in Threads : u # t => call'[u] = call[u]
        /\ UNCHANGED <<exchange, replies>>
    BY <1>0, <1>7 DEF SendTradeResponse, LookUp, RemoveTrade, ScheduleResponse, LoseResponse, TypeOK
  <2>1. CASE LookUp(t)
    <3>1. /\ call[t].at = "lookup" /\ UNCHANGED <<requests, outstanding, due>>
          /\ \/ call'[t].at = "idle"
             \/ /\ call'[t].at = "remove" /\ call'[t].id = call[t].id
                /\ call'[t].trade = outstanding[call[t].id]
      BY <1>0, <2>1 DEF LookUp, TypeOK, Calls, Idle
    <3> QED
      BY <1>0, <2>0, <3>1 DEF Once, ThreadsApart, TokenUnique, AtMostOneReply, Replied, Threads
  <2>2. CASE RemoveTrade(t)
    <3> DEFINE n == call[t].trade
               i == call[t].id
    <3>1. /\ call[t].at = "remove" /\ i \in Ids /\ n \in Serials /\ n > NullTrade
          /\ outstanding[i] = n /\ due[n] = 0 /\ ~Replied(n)
      BY <1>0, <2>2 DEF RemoveTrade, CallsTyped, Holding, Formed, TypeOK, Serials, TokenUnique, NullTrade
    <3>2. /\ call'[t].at = "finish" /\ call'[t].id = i /\ call'[t].trade = n
          /\ outstanding' = [outstanding EXCEPT ![i] = Absent] /\ due' = due
      BY <1>0, <2>2, ~MapRaces DEF RemoveTrade, Overlaps, TypeOK, Calls
    <3>3. \A k \in Serials : requests'[k].id = requests[k].id
      BY <1>0, <2>2, <3>1 DEF RemoveTrade, TypeOK, Trades
    <3>4. ThreadsApart'
      BY <1>0, <2>0, <3>1, <3>2, <3>3 DEF ThreadsApart, Threads
    <3>5. \A k \in Ids : k # i => outstanding'[k] = outstanding[k]
      BY <1>0, <3>2 DEF TypeOK
    <3>6. outstanding'[i] = Absent /\ ~(Absent > NullTrade)
      BY <1>0, <3>1, <3>2 DEF TypeOK, NullTrade
    <3>7. \A u \in Threads : u # t /\ call[u].at # "idle" => call[u].id \in Ids /\ call[u].id # i
      BY <1>0, <1>b, <3>1 DEF CallsTyped
    <3>8. TokenUnique'
      <4>1. \A u \in Threads : call'[u].at = "remove" => outstanding'[call'[u].id] = call'[u].trade
        BY <1>0, <2>0, <3>2, <3>5, <3>7 DEF TokenUnique
      <4>2. \A u \in Threads : call'[u].at = "finish" =>
              outstanding'[call'[u].id] = Absent /\ due[call'[u].trade] = 0 /\ ~Replied(call'[u].trade)
        BY <1>0, <2>0, <3>1, <3>2, <3>5, <3>6, <3>7 DEF TokenUnique, Replied
      <4>3. \A k \in Ids : outstanding'[k] > NullTrade =>
              due[outstanding'[k]] = 0 /\ ~Replied(outstanding'[k])
        BY <1>0, <3>5, <3>6 DEF TokenUnique, Replied
      <4> QED
        BY <1>0, <2>0, <3>2, <4>1, <4>2, <4>3 DEF TokenUnique, Replied
    <3> QED
      BY <1>0, <2>0, <3>4, <3>8 DEF Once, AtMostOneReply
  <2>3. CASE ScheduleResponse(t)
    <3> DEFINE n == call[t].trade
               i == call[t].id
    <3>1. /\ call[t].at = "finish" /\ i \in Ids /\ n \in Serials /\ requests[n].id = i
          /\ outstanding[i] = Absent /\ due[n] = 0 /\ ~Replied(n)
      BY <1>0, <2>3 DEF ScheduleResponse, CallsTyped, CallsAttributed, Holding, Formed, TypeOK,
         Serials, TokenUnique
    <3>2. /\ call'[t].at = "idle" /\ outstanding' = outstanding
          /\ due'[n] = 1 /\ \A k \in Serials : k # n => due'[k] = due[k]
      BY <1>0, <2>3, <3>1 DEF ScheduleResponse, TypeOK, Idle
    <3>3. \A k \in Serials : requests'[k].id = requests[k].id
      <4>1. requests' = requests \/
              requests' = [requests EXCEPT ![n] = Forced(@, forced[i])]
        BY <2>3 DEF ScheduleResponse
      <4>2. requests \in [Serials -> Trades]
        BY <1>0 DEF TypeOK
      <4>3. \A x, q : q \in Trades => Forced(q, x).id = q.id
        BY DEF Forced, Trades
      <4> QED
        BY <3>1, <4>1, <4>2, <4>3
    <3>4. ThreadsApart'
      BY <1>0, <2>0, <3>2, <3>3 DEF ThreadsApart, Threads
    <3>5. \A k \in Ids : outstanding[k] > NullTrade => outstanding[k] \in Serials /\ outstanding[k] # n
      BY <1>0, <3>1 DEF TypeOK, IdsUnique, NullTrade
    <3>6. \A u \in Threads : u # t /\ call[u].at = "finish" => call[u].trade \in Serials /\ call[u].trade # n
      BY <1>0, <1>b, <3>1 DEF CallsTyped, CallsAttributed, Holding, Formed, TypeOK, Serials
    <3>7. TokenUnique'
      BY <1>0, <2>0, <3>1, <3>2, <3>5, <3>6 DEF TokenUnique, Replied
    <3> QED
      BY <1>0, <2>0, <3>4, <3>7 DEF Once, AtMostOneReply
  <2>4. CASE LoseResponse(t)
    BY <2>4, ~MapRaces DEF LoseResponse, Overlaps
  <2> QED
    BY <1>7, <2>1, <2>2, <2>3, <2>4 DEF SendTradeResponse
<1>8. ASSUME NEW n \in Serials, DelayedResponse(n) PROVE Once'
  <2>1. /\ due[n] = 1 /\ ~Replied(n) /\ due' = [due EXCEPT ![n] = 0]
        /\ replies' \in {replies, replies \union {ReplyFor(n)}}
        /\ UNCHANGED <<requests, outstanding, call, exchange>>
    <3>1. due[n] \in {0, 1} /\ (due[n] = 1 => ~Replied(n)) /\ due[n] > 0
      BY <1>0, <1>8 DEF DelayedResponse, TokenUnique
    <3>2. due[n] = 1 /\ due[n] - 1 = 0
      BY <3>1
    <3> QED
      BY <1>8, <3>1, <3>2 DEF DelayedResponse
  <2>2. /\ \A m \in replies' : m \in replies \/ m = ReplyFor(n)
        /\ ReplyFor(n).n = n
    BY <2>1 DEF ReplyFor
  <2>3. AtMostOneReply'
    BY <1>0, <2>1, <2>2 DEF AtMostOneReply, Replied
  <2>4. \A k \in Serials : k # n => due'[k] = due[k] /\ (Replied(k)' => Replied(k))
    BY <1>0, <2>1, <2>2 DEF Replied, TypeOK
  <2>5. due'[n] = 0
    BY <1>0, <2>1 DEF TypeOK
  <2>6. /\ \A u \in Threads : call[u].at = "finish" => call[u].trade \in Serials /\ call[u].trade # n
        /\ \A i \in Ids : outstanding[i] > NullTrade => outstanding[i] \in Serials /\ outstanding[i] # n
    BY <1>0, <2>1 DEF TokenUnique, CallsTyped, Holding, Formed, TypeOK, Serials, NullTrade
  <2>7. TokenUnique'
    BY <1>0, <2>1, <2>4, <2>5, <2>6 DEF TokenUnique, Replied
  <2> QED
    BY <1>0, <2>1, <2>3, <2>7 DEF Once, ThreadsApart
<1>9. CASE UNCHANGED vars
  BY <1>0, <1>9 DEF vars, Once, ThreadsApart, TokenUnique, AtMostOneReply, Replied
<1> QED
  BY <1>1, <1>2, <1>3, <1>4, <1>5, <1>6, <1>7, <1>8, <1>9 DEF Next, ProcessRequest

\* With correlation ids that are never reused and maps that do not race, no
\* request is answered twice: two threads look up, remove and schedule, and no
\* interleaving of them lets both take the same trade.
THEOREM AnsweredOnce == UniqueIds /\ ~MapRaces => (Spec => []AtMostOneReply)
<1> SUFFICES ASSUME UniqueIds, ~MapRaces PROVE Spec => []AtMostOneReply
  OBVIOUS
<1>1. Spec => []Typed
  BY TypedInit, TypedNext, PTL DEF Spec
<1>2. Typed /\ Attributed /\ [Next]_vars => Attributed'
  BY AttributedNext
<1>3. Typed /\ Attributed /\ Once /\ [Next]_vars => Once'
  BY OnceNext
<1>4. Once => AtMostOneReply
  BY DEF Once
<1> QED
  BY <1>1, <1>2, <1>3, <1>4, AttributedInit, OnceInit, PTL DEF Spec
=============================================================================
