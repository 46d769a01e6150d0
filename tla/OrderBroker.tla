---------------------------- MODULE OrderBroker ----------------------------
(***************************************************************************)
(* OrderBroker/src/com/citi/trading/order/OrderBroker.java, the process    *)
(* that takes trade requests from the "OrderBroker" queue, places them at  *)
(* the exchange over FIX (or fills them itself in mock mode), and sends    *)
(* the outcome to the reply queue after a random delay.                    *)
(*                                                                         *)
(* Three threads run in it: the JMS listener thread ("jms"), the QuickFIX  *)
(* session thread ("fix") and the java.util.Timer thread. The first two    *)
(* run sendTradeResponse and share two plain HashMaps with no lock. A step *)
(* here is one operation on one shared map; MapRaces adds what overlapping *)
(* operations on an unsynchronised HashMap can do beyond that.             *)
(*                                                                         *)
(* The exchange and the FIX session are external: any order placed may be  *)
(* lost, and a live order may be reported on in any legal way or never.    *)
(***************************************************************************)
EXTENDS Integers, FiniteSets

CONSTANTS
  ClientIds,    (* correlation ids the clients put on their requests *)
  Sizes,        (* share counts the clients ask for *)
  PartFills,    (* share counts of the exchange's own partial fills *)
  Configs,      (* command lines of main(): [mock, failOncePer, partialOncePer] *)
  UniqueIds,    (* TRUE: no client reuses a correlation id *)
  MapRaces,     (* TRUE: overlapping HashMap operations may go wrong *)
  SendFails,    (* TRUE: sending a reply may raise a JMSException *)
  MaxRequests,  (* bound: requests counted, and ids generated, in a run *)
  MaxInt        (* largest Java int; 2^31 - 1, smaller under TLC *)

Serials == 1..MaxRequests
NoId    == 0
Ids     == ClientIds \union Serials   \* k in Serials stands for "OrderBroker.k"

Results   == {"null", "FILLED", "PARTIALLY_FILLED", "REJECTED", "CANCELED", "DONE_FOR_DAY"}
Threads   == {"jms", "fix"}
NullTrade == 0     \* a map entry whose value is null
MinInt    == -MaxInt - 1
Absent    == MinInt - 1   \* no map entry: not an int

ASSUME ClientIdsAssumption == ClientIds \intersect Int = {}
ASSUME BoundAssumption == MaxRequests \in Nat /\ MaxInt \in Nat \ {0}
ASSUME SizesAssumption == Sizes \subseteq 0..MaxInt /\ PartFills \subseteq 1..MaxInt
ASSUME ConfigsAssumption ==
  Configs \subseteq [mock : BOOLEAN, failOncePer : Nat, partialOncePer : Nat]
ASSUME SwitchesAssumption ==
  UniqueIds \in BOOLEAN /\ MapRaces \in BOOLEAN /\ SendFails \in BOOLEAN

VARIABLES
  config,        (* static MOCK_QUICK_FIX, FAIL_ONCE_PER, PARTIAL_ONCE_PER *)
  requestCount,  (* static requestCount *)
  requestIDSeq,  (* static requestIDSeq: ids generated *)
  responseCount, (* static responseCount: replies sent *)
  requests,      (* the Trade objects, by the count their request gets *)
  outstanding,   (* outstandingTrades: id -> Trade, NullTrade or Absent *)
  forced,        (* forcedPartialTrades: id -> shares or Absent *)
  call,          (* what each thread is doing *)
  exchange,      (* external: what became of the order placed for a request *)
  left,          (* external: the shares of that order not filled yet *)
  due,           (* DelayedResponse tasks scheduled and not run, by Trade *)
  replies        (* messages sent to the reply queue *)

maps   == <<outstanding, forced>>
market == <<exchange, left>>
sent   == <<responseCount, due, replies>>
vars   == <<config, requestCount, requestIDSeq, requests, maps, call, market, sent>>

Idle == [at |-> "idle", id |-> NoId, trade |-> NullTrade, result |-> "null", shares |-> 0]
NoRequest == [id |-> NoId, requested |-> 0, size |-> 0, result |-> "null"]

Init ==
  /\ config \in Configs
  /\ requestCount = 0 /\ requestIDSeq = 0 /\ responseCount = 0
  /\ requests    = [n \in Serials |-> NoRequest]
  /\ outstanding = [i \in Ids |-> Absent]
  /\ forced      = [i \in Ids |-> Absent]
  /\ call        = [t \in Threads |-> Idle]
  /\ exchange    = [n \in Serials |-> "unsent"]
  /\ left        = [n \in Serials |-> 0]
  /\ due         = [n \in Serials |-> 0]
  /\ replies     = {}

-----------------------------------------------------------------------------
\* period 0 is never, period 1 is always.
EveryNth(period, n) == period # 0 /\ n % period = 0

Rejected(n) == EveryNth(config.failOncePer, n)
Partial(n)  == ~Rejected(n) /\ EveryNth(config.partialOncePer, n)

\* Java int arithmetic: the product wraps, the division truncates toward 0.
Wrap(x) == ((x - MinInt) % (2 * (MaxInt + 1))) + MinInt
Truncated(x, d) == IF x >= 0 THEN x \div d ELSE -((-x) \div d)

\* Faulty: multiplies by 5 and divides by 3.
PartialSharesInverted(size) == Truncated(Wrap(size * 5), 3)

\* The shares of a simulated partial fill: size * 3 / 5.
PartialShares(size) == Truncated(Wrap(size * 3), 5)

\* Only entries of outstandingTrades with a Trade count as known ids: get()
\* returns null for a null value and for no entry alike.
Known(id) == outstanding[id] > NullTrade

Other(t) == IF t = "jms" THEN "fix" ELSE "jms"

\* The other thread is inside an operation of the same HashMap.
Overlaps(t, steps) == MapRaces /\ call[Other(t)].at \in steps

\* The thread enters sendTradeResponse(id, result, shares).
Responding(id, result, shares) ==
  [Idle EXCEPT !.at = "lookup", !.id = id, !.result = result, !.shares = shares]

-----------------------------------------------------------------------------
(* The JMS listener: onMessage and sendTradeRequest.                       *)

\* The Trade object of the request about to be counted, and the thread on
\* its way to the put of sendTradeRequest.
StartRequest(id, trade, size) ==
  /\ call["jms"] = Idle
  /\ requestCount < MaxRequests
  /\ requests' = [requests EXCEPT ![requestCount + 1] =
                    [id |-> id, requested |-> size, size |-> size, result |-> "null"]]
  /\ call' = [call EXCEPT !["jms"] = [Idle EXCEPT !.at = "put", !.id = id, !.trade = trade]]
  /\ UNCHANGED <<config, requestCount, maps, market, sent>>

\* An id the clients may use now.
Usable(c) == UniqueIds => \A n \in Serials : requests[n].id # c

ReceiveTrade(c, size) ==
  /\ Usable(c)
  /\ StartRequest(c, requestCount + 1, size)
  /\ UNCHANGED requestIDSeq

\* No correlation id: the broker makes one up.
ReceiveUncorrelated(size) ==
  /\ requestIDSeq < MaxRequests
  /\ requestIDSeq' = requestIDSeq + 1
  /\ StartRequest(requestIDSeq + 1, requestCount + 1, size)

\* Text that does not parse: sendTradeRequest gets a null Trade.
ReceiveMalformed(c) ==
  /\ Usable(c)
  /\ StartRequest(c, NullTrade, Absent)
  /\ UNCHANGED requestIDSeq

\* Neither id nor Trade: building the warning raises a NullPointerException
\* after the sequence was advanced.
ReceiveUnusable ==
  /\ call["jms"] = Idle
  /\ requestIDSeq < MaxRequests
  /\ requestIDSeq' = requestIDSeq + 1
  /\ UNCHANGED <<config, requestCount, requests, maps, call, market, sent>>

\* Faulty: a null Trade is noticed only after the simulated failure.
AfterCountUnchecked(c, n) ==
  IF Rejected(n) THEN Responding(c.id, "REJECTED", requests[n].size)
  ELSE IF c.trade = NullTrade THEN Idle
  ELSE [c EXCEPT !.at = IF Partial(n) THEN "partial" ELSE "send"]

\* Faulty: the partial fill is tested before the failure.
AfterCountPartialFirst(c, n) ==
  IF c.trade = NullTrade THEN Idle
  ELSE IF EveryNth(config.partialOncePer, n) THEN [c EXCEPT !.at = "partial"]
  ELSE IF Rejected(n) THEN Responding(c.id, "REJECTED", requests[n].size)
  ELSE [c EXCEPT !.at = "send"]

\* Faulty: a simulated failure returns without a response.
AfterCountSilent(c, n) ==
  IF c.trade = NullTrade \/ Rejected(n) THEN Idle
  ELSE [c EXCEPT !.at = IF Partial(n) THEN "partial" ELSE "send"]

\* Where sendTradeRequest goes once the n-th request is counted: a null Trade
\* ends in a NullPointerException that onMessage logs.
AfterCount(c, n) ==
  IF c.trade = NullTrade THEN Idle
  ELSE IF Rejected(n) THEN Responding(c.id, "REJECTED", requests[n].size)
  ELSE [c EXCEPT !.at = IF Partial(n) THEN "partial" ELSE "send"]

\* Faulty: outstandingTrades is left as it is.
RememberedNever(c) == outstanding

\* outstandingTrades after the put of the trade a thread holds.
Remembered(c) == [outstanding EXCEPT ![c.id] = c.trade]

\* outstandingTrades.put and ++requestCount.
RecordRequest ==
  LET c == call["jms"]
      n == requestCount + 1
  IN  /\ c.at = "put"
      /\ requestCount' = n
      /\ \/ outstanding' = Remembered(c)
         \/ Overlaps("jms", {"remove"}) /\ UNCHANGED outstanding
      /\ call' = [call EXCEPT !["jms"] = AfterCount(c, n)]
      /\ UNCHANGED <<config, requestIDSeq, requests, forced, market, sent>>

\* forcedPartialTrades.put.
ForcePartial ==
  LET c == call["jms"]
  IN  /\ c.at = "partial"
      /\ \/ forced' = [forced EXCEPT ![c.id] = PartialShares(requests[c.trade].size)]
         \/ Overlaps("jms", {"finish"}) /\ UNCHANGED forced
      /\ call' = [call EXCEPT !["jms"].at = "send"]
      /\ UNCHANGED <<config, requestCount, requestIDSeq, requests, outstanding, market, sent>>

\* Mock mode: the broker fills the trade itself.
FillTrade ==
  LET c == call["jms"]
  IN  /\ c.at = "send" /\ config.mock
      /\ call' = [call EXCEPT !["jms"] =
                    Responding(c.id, "FILLED", requests[c.trade].size)]
      /\ UNCHANGED <<config, requestCount, requestIDSeq, requests, maps, market, sent>>

\* FIX mode: sendNewOrder. With no session the exception is swallowed and the
\* order never reaches the exchange.
PlaceOrder ==
  LET c == call["jms"]
  IN  /\ c.at = "send" /\ ~config.mock
      /\ \/ /\ exchange' = [exchange EXCEPT ![c.trade] = "working"]
            /\ left' = [left EXCEPT ![c.trade] = requests[c.trade].size]
         \/ UNCHANGED market
      /\ call' = [call EXCEPT !["jms"] = Idle]
      /\ UNCHANGED <<config, requestCount, requestIDSeq, requests, maps, sent>>

-----------------------------------------------------------------------------
(* The QuickFIX thread: execution reports. Reports with status NEW return  *)
(* at once and are left out.                                               *)

Report(n, result, shares, state) ==
  /\ exchange[n] = "working"
  /\ call["fix"] = Idle
  /\ exchange' = [exchange EXCEPT ![n] = state]
  /\ left' = [left EXCEPT ![n] = left[n] - shares]
  /\ call' = [call EXCEPT !["fix"] = Responding(requests[n].id, result, shares)]
  /\ UNCHANGED <<config, requestCount, requestIDSeq, requests, maps, sent>>

ReportFilled(n) == Report(n, "FILLED", left[n], "filled")

\* Faulty: the exchange's partial fills are looked up as FILLED.
ReportPartFillAsFilled(n, k) == k < left[n] /\ Report(n, "FILLED", k, "working")

ReportPartFill(n, k) == k < left[n] /\ Report(n, "PARTIALLY_FILLED", k, "working")

\* CANCELED, REJECTED and DONE_FOR_DAY with LastShares 0, and the statuses
\* responseCodes does not list, whose result is null.
ReportClosed(n, result) == Report(n, result, 0, "closed")

\* A closing report without LastShares: FieldNotFound, no response at all.
ReportWithoutShares(n) ==
  /\ exchange[n] = "working"
  /\ call["fix"] = Idle
  /\ exchange' = [exchange EXCEPT ![n] = "closed"]
  /\ UNCHANGED <<config, requestCount, requestIDSeq, requests, maps, call, left, sent>>

-----------------------------------------------------------------------------
(* sendTradeResponse, on either thread.                                    *)

\* outstandingTrades.get: an unknown id is logged and ignored. During the
\* resize of an overlapping put a known id can look unknown.
LookUp(t) ==
  LET c == call[t]
  IN  /\ c.at = "lookup"
      /\ \/ /\ Known(c.id)
            /\ call' = [call EXCEPT ![t].at = "remove", ![t].trade = outstanding[c.id]]
         \/ /\ ~Known(c.id) \/ Overlaps(t, {"put"})
            /\ call' = [call EXCEPT ![t] = Idle]
      /\ UNCHANGED <<config, requestCount, requestIDSeq, requests, maps, market, sent>>

\* Faulty: the answered trade stays in outstandingTrades.
ForgottenNever(id) == outstanding

\* outstandingTrades after the remove of an id.
Forgotten(id) == [outstanding EXCEPT ![id] = Absent]

\* outstandingTrades.remove, then the setters of the Trade.
RemoveTrade(t) ==
  LET c == call[t]
  IN  /\ c.at = "remove"
      /\ \/ outstanding' = Forgotten(c.id)
         \/ Overlaps(t, {"put", "remove"}) /\ UNCHANGED outstanding
      /\ requests' = [requests EXCEPT ![c.trade].result = c.result,
                                      ![c.trade].size = c.shares]
      /\ call' = [call EXCEPT ![t].at = "finish"]
      /\ UNCHANGED <<config, requestCount, requestIDSeq, forced, market, sent>>

\* Faulty: a forced partial fill is never applied.
ForcedIgnored(r, shares) == r

\* The Trade as a forced partial fill leaves it.
Forced(r, shares) ==
  IF r.result = "FILLED"
  THEN [r EXCEPT !.size = shares, !.result = "PARTIALLY_FILLED"]
  ELSE r

\* Faulty: the entry is removed only when it was applied.
ConsumedIfApplied(c) ==
  IF requests[c.trade].result = "FILLED" THEN [forced EXCEPT ![c.id] = Absent] ELSE forced

\* forcedPartialTrades after the remove of the id a thread answers.
Consumed(c) == [forced EXCEPT ![c.id] = Absent]

\* forcedPartialTrades: containsKey, get and remove; then timer.schedule.
ScheduleResponse(t) ==
  LET c == call[t]
      n == c.trade
      race == Overlaps(t, {"partial", "finish"})
  IN  /\ c.at = "finish"
      /\ \/ /\ forced[c.id] # Absent
            /\ requests' = [requests EXCEPT ![n] = Forced(@, forced[c.id])]
            /\ \/ forced' = Consumed(c)
               \/ race /\ UNCHANGED forced
         \/ /\ forced[c.id] = Absent \/ race
            /\ UNCHANGED <<requests, forced>>
      /\ due' = [due EXCEPT ![n] = @ + 1]
      /\ call' = [call EXCEPT ![t] = Idle]
      /\ UNCHANGED <<config, requestCount, requestIDSeq, responseCount, outstanding,
                     market, replies>>

\* containsKey saw the entry and get, overlapping a resize, did not: unboxing
\* null raises a NullPointerException and the response is never scheduled.
LoseResponse(t) ==
  LET c == call[t]
  IN  /\ c.at = "finish"
      /\ forced[c.id] # Absent /\ requests[c.trade].result = "FILLED"
      /\ Overlaps(t, {"partial"})
      /\ call' = [call EXCEPT ![t] = Idle]
      /\ UNCHANGED <<config, requestCount, requestIDSeq, requests, maps, market, sent>>

-----------------------------------------------------------------------------
(* The Timer thread. The random delays put the tasks in any order.         *)

ReplyFor(n) ==
  [seq |-> responseCount + 1, n |-> n, id |-> requests[n].id,
   result |-> requests[n].result, size |-> requests[n].size]

DelayedResponse(n) ==
  /\ due[n] > 0
  /\ due' = [due EXCEPT ![n] = @ - 1]
  /\ \/ /\ replies' = replies \union {ReplyFor(n)}
        /\ responseCount' = responseCount + 1
     \/ SendFails /\ UNCHANGED <<replies, responseCount>>
  /\ UNCHANGED <<config, requestCount, requestIDSeq, requests, maps, call, market>>

-----------------------------------------------------------------------------
Receive ==
  \/ \E c \in ClientIds, s \in Sizes : ReceiveTrade(c, s)
  \/ \E s \in Sizes : ReceiveUncorrelated(s)
  \/ \E c \in ClientIds : ReceiveMalformed(c)
  \/ ReceiveUnusable

ProcessRequest == RecordRequest \/ ForcePartial \/ FillTrade \/ PlaceOrder

ExecutionReport(n) ==
  \/ ReportFilled(n)
  \/ \E k \in PartFills : ReportPartFill(n, k)
  \/ \E r \in {"CANCELED", "REJECTED", "DONE_FOR_DAY", "null"} : ReportClosed(n, r)
  \/ ReportWithoutShares(n)

SendTradeResponse(t) ==
  LookUp(t) \/ RemoveTrade(t) \/ ScheduleResponse(t) \/ LoseResponse(t)

Next ==
  \/ Receive
  \/ ProcessRequest
  \/ \E n \in Serials : ExecutionReport(n)
  \/ \E t \in Threads : SendTradeResponse(t)
  \/ \E n \in Serials : DelayedResponse(n)

\* The two threads and the timer keep running; clients and exchange need not.
Fairness ==
  /\ WF_vars(ProcessRequest)
  /\ \A t \in Threads : WF_vars(SendTradeResponse(t))
  /\ \A n \in Serials : WF_vars(DelayedResponse(n))

Spec == Init /\ [][Next]_vars /\ Fairness

-----------------------------------------------------------------------------
(* Properties.                                                             *)

Int32  == MinInt..MaxInt
Calls  == [at : {"idle", "put", "partial", "send", "lookup", "remove", "finish"},
           id : Ids \union {NoId}, trade : {NullTrade} \union Serials,
           result : Results, shares : Int32]
Trades == [id : Ids \union {NoId}, requested : Int32 \union {Absent},
           size : Int32 \union {Absent}, result : Results]
Reply  == [seq : Nat, n : Serials, id : Ids \union {NoId}, result : Results, size : Int32]

\* The types of the broker's state.
TypeOK ==
  /\ config \in Configs
  /\ requestCount \in 0..MaxRequests
  /\ requestIDSeq \in 0..MaxRequests
  /\ responseCount \in Nat
  /\ requests \in [Serials -> Trades]
  /\ outstanding \in [Ids -> {Absent, NullTrade} \union Serials]
  /\ forced \in [Ids -> Int32 \union {Absent}]
  /\ call \in [Threads -> Calls]
  /\ exchange \in [Serials -> {"unsent", "working", "filled", "closed"}]
  /\ left \in [Serials -> Int32]
  /\ due \in [Serials -> Nat]
  /\ replies \subseteq Reply

Replied(n) == \E m \in replies : m.n = n

\* A request is never answered twice, although two threads run
\* sendTradeResponse and the exchange reports on an order any number of times.
AtMostOneReply == \A m1, m2 \in replies : m1.n = m2.n => m1 = m2

\* Every FAIL_ONCE_PER-th request that is answered is answered REJECTED, for
\* the shares it asked for, whatever PARTIAL_ONCE_PER and the exchange say.
EveryNthRejected ==
  \A m \in replies : Rejected(m.n) =>
    m.result = "REJECTED" /\ m.size = requests[m.n].requested

\* In FIX mode a reply never reports more shares than the exchange filled for
\* that very request, and says FILLED only when all of them were.
NeverOverReports ==
  ~config.mock => \A m \in replies :
    /\ m.result = "FILLED" => exchange[m.n] = "filled"
    /\ m.result \in {"FILLED", "PARTIALLY_FILLED"} =>
         m.size <= requests[m.n].requested - left[m.n]

\* FILLED is for the whole request and a partial fill, simulated or real, for
\* a proper part of it, as long as three times the request is an int.
SharesFitResult ==
  \A m \in replies :
    LET asked == requests[m.n].requested
    IN  /\ m.result = "FILLED" => m.size = asked
        /\ m.result = "PARTIALLY_FILLED" /\ asked * 3 <= MaxInt =>
             0 <= m.size /\ (m.size < asked \/ asked = 0)

\* forcedPartialTrades holds no entry for a request that is no longer
\* outstanding, except while its response is being built: nothing leaks, and
\* no later request finds an entry that is not its own.
NoForcedLeak ==
  \A i \in Ids : forced[i] # Absent =>
    Known(i) \/ \E t \in Threads : call[t].at = "finish" /\ call[t].id = i

\* A trade the broker has to answer by itself (mock mode, simulated failure)
\* or that the exchange has filled is answered in the end.
MustAnswer(n) ==
  /\ n <= requestCount /\ requests[n].requested # Absent
  /\ config.mock \/ Rejected(n) \/ exchange[n] = "filled"
EventuallyAnswered == \A n \in Serials : MustAnswer(n) ~> Replied(n)

\* A trade that parsed is never forgotten: until it is answered the broker has
\* it in outstandingTrades, in a thread that builds the response, or as a task
\* of the timer, and a thread is on its way to one that must be answered.
NothingForgotten ==
  \A n \in 1..requestCount : requests[n].requested # Absent =>
    \/ Replied(n) \/ due[n] > 0
    \/ \E t \in Threads : call[t].at = "finish" /\ call[t].trade = n
    \/ /\ outstanding[requests[n].id] = n
       /\ MustAnswer(n) =>
            \E t \in Threads : call[t].at # "idle" /\ call[t].id = requests[n].id

\* The broker implements the service: at most one reply per request, under the
\* request's id, as the settings want it.
Service == INSTANCE BrokerService WITH
  Ids     <- Ids \union {NoId},
  Shares  <- Int32,
  asked   <- {[n |-> n, id |-> requests[n].id, size |-> requests[n].requested] :
                n \in {k \in 1..requestCount : requests[k].requested # Absent}},
  answers <- {[n |-> m.n, id |-> m.id, result |-> m.result, size |-> m.size] :
                m \in replies}
ServiceSpec == Service!Spec
=============================================================================
