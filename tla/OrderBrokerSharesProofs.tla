---------------------- MODULE OrderBrokerSharesProofs ----------------------
(***************************************************************************)
(* What the replies of OrderBroker say about shares, for every value of    *)
(* its constants, and with it the step-by-step proof that the broker       *)
(* implements BrokerService.                                               *)
(*                                                                         *)
(* The first part says once what each step does to the Trade objects, the  *)
(* calls and the maps; the invariants below cite it. Sized is about the    *)
(* numbers: what a Trade asks for, and that a simulated partial fill is    *)
(* computed from it. Backed follows a reported number from the exchange to *)
(* the reply; it holds even while the two maps race. Kept, Whole and       *)
(* Simulated need maps that do not race: they follow the entry of a        *)
(* request in one map against its entry in the other.                      *)
(***************************************************************************)
EXTENDS OrderBrokerProofs

USE DEF maps, market, sent, Remembered, Forgotten, Consumed

-----------------------------------------------------------------------------
(* What each step does.                                                    *)

\* A request under an id no request had so far is on its way.
Starts(id, trade, size) ==
  /\ id \in Ids /\ \A n \in Serials : requests[n].id # id
  /\ trade \in {NullTrade, requestCount + 1}
  /\ trade = NullTrade => size = Absent
  /\ trade # NullTrade => size \in 0..MaxInt
  /\ StartRequest(id, trade, size)

LEMMA ReceiveStarts ==
  ASSUME UniqueIds, Typed, Attributed, Receive
  PROVE  ReceiveUnusable \/ \E id, trade, size : Starts(id, trade, size)
<1> USE Constants
<1>0. TypeOK /\ IdsUnique
  BY DEF Typed, Attributed
<1>1. ASSUME NEW k \in ClientIds, Usable(k) PROVE \A n \in Serials : requests[n].id # k
  BY <1>1, UniqueIds DEF Usable
<1>2. requestCount + 1 # NullTrade /\ requestCount + 1 \in Int
  BY <1>0 DEF TypeOK, NullTrade
<1>3. ASSUME NEW k \in ClientIds, NEW s \in Sizes, ReceiveTrade(k, s)
      PROVE  Starts(k, requestCount + 1, s)
  BY <1>1, <1>2, <1>3, SizesAssumption DEF ReceiveTrade, Starts
<1>4. ASSUME NEW s \in Sizes, ReceiveUncorrelated(s)
      PROVE  Starts(requestIDSeq + 1, requestCount + 1, s)
  <2>1. requestIDSeq + 1 \in Serials /\ requestIDSeq \in Nat
    BY <1>0, <1>4 DEF ReceiveUncorrelated, TypeOK, Serials
  <2>2. \A n \in Serials : requests[n].id # requestIDSeq + 1
    BY <1>0, <2>1 DEF IdsUnique
  <2> QED
    BY <1>2, <1>4, <2>1, <2>2, SizesAssumption DEF ReceiveUncorrelated, Starts
<1>5. ASSUME NEW k \in ClientIds, ReceiveMalformed(k) PROVE Starts(k, NullTrade, Absent)
  BY <1>1, <1>5 DEF ReceiveMalformed, Starts
<1> QED
  BY <1>3, <1>4, <1>5 DEF Receive

LEMMA StartEffect ==
  ASSUME Typed, Attributed, NEW id, NEW trade, NEW size, Starts(id, trade, size)
  PROVE  LET s == requestCount + 1
         IN  /\ s \in Serials /\ exchange[s] = "unsent" /\ due[s] = 0 /\ ~Replied(s)
             /\ \A n \in 1..requestCount : n # s
             /\ requests'[s] = [id |-> id, requested |-> size, size |-> size, result |-> "null"]
             /\ \A n \in Serials : n # s => requests'[n] = requests[n]
             /\ call["jms"].at = "idle" /\ call'["jms"].at = "put"
             /\ call'["jms"].id = id /\ call'["jms"].trade = trade
             /\ call'["fix"] = call["fix"]
             /\ call["fix"].at # "idle" => call["fix"].id # id
             /\ UNCHANGED <<config, requestCount, outstanding, forced, exchange, left, due, replies>>
<1> USE Constants
<1> DEFINE s == requestCount + 1
<1>0. /\ requestCount \in 0..MaxRequests /\ requestCount < MaxRequests
      /\ requests \in [Serials -> Trades] /\ call \in [Threads -> Calls] /\ due \in [Serials -> Nat]
  BY DEF Typed, TypeOK, Starts, StartRequest
<1>1. s \in Serials /\ \A n \in 1..requestCount : n # s
  BY <1>0 DEF Serials
<1>2. ~Formed(s)
  BY <1>1 DEF Formed
<1>3. exchange[s] = "unsent" /\ due[s] = 0
  BY <1>0, <1>1, <1>2 DEF Typed, TradesTyped
<1>4. ~Replied(s)
  BY <1>0 DEF Replied, Attributed, RejectionsStay
<1>5. call["fix"].at # "idle" => call["fix"].id # id
  BY DEF Attributed, CallsAttributed, Starts
<1>6. /\ requests'[s] = [id |-> id, requested |-> size, size |-> size, result |-> "null"]
      /\ \A n \in Serials : n # s => requests'[n] = requests[n]
  BY <1>0, <1>1 DEF Starts, StartRequest
<1>7. /\ call["jms"].at = "idle" /\ call'["jms"].at = "put"
      /\ call'["jms"].id = id /\ call'["jms"].trade = trade
      /\ call'["fix"] = call["fix"]
  BY <1>0 DEF Starts, StartRequest, Idle, Threads
<1>8. UNCHANGED <<config, requestCount, outstanding, forced, exchange, left, due, replies>>
  BY DEF Starts, StartRequest
<1> HIDE DEF s
<1> QED
  BY <1>1, <1>3, <1>4, <1>5, <1>6, <1>7, <1>8 DEF s

LEMMA RecordEffect ==
  ASSUME Typed, Attributed, RecordRequest
  PROVE  LET c == call["jms"]
             s == requestCount + 1
         IN  /\ s \in Serials /\ requestCount' = s /\ requestCount \in Nat
             /\ c.at = "put" /\ c.id \in Ids /\ requests[s].id = c.id
             /\ c.trade \in {NullTrade, s}
             /\ call'["fix"] = call["fix"]
             /\ call'["jms"].at \in {"idle", "partial", "send", "lookup"}
             /\ call'["jms"].at # "idle" => call'["jms"].id = c.id /\ c.trade = s
             /\ c.trade = s => call'["jms"].at # "idle"
             /\ call'["jms"].at \in {"partial", "send"} =>
                  call'["jms"].trade = s /\ requests[s].size = requests[s].requested
             /\ call'["jms"].at = "lookup" => call'["jms"].result = "REJECTED"
             /\ c.trade = s /\ Partial(s) => call'["jms"].at = "partial"
             /\ \/ outstanding' = [outstanding EXCEPT ![c.id] = c.trade]
                \/ MapRaces /\ outstanding' = outstanding
             /\ UNCHANGED <<config, requests, forced, exchange, left, due, replies>>
<1> USE Constants
<1> DEFINE c == call["jms"]
           s == requestCount + 1
           a == AfterCount(c, s)
<1>1. /\ c.at = "put" /\ c.id \in Ids /\ c \in Calls /\ c.trade \in {NullTrade, s}
      /\ requestCount < MaxRequests /\ requestCount \in 0..MaxRequests
      /\ call \in [Threads -> Calls] /\ s \in Serials
  BY DEF RecordRequest, Typed, TypeOK, CallsTyped, Threads, Serials
<1>2. call'["jms"] = a /\ call'["fix"] = call["fix"]
  BY <1>1 DEF RecordRequest, Threads
<1>3. requests[s].id = c.id /\ requests[s].size = requests[s].requested
  BY <1>1 DEF Attributed, CallsAttributed
<1>4. s # NullTrade
  BY <1>1 DEF NullTrade
<1>5. /\ a.at \in {"idle", "partial", "send", "lookup"}
      /\ a.at # "idle" => a.id = c.id /\ c.trade = s
      /\ c.trade = s => a.at # "idle"
      /\ a.at \in {"partial", "send"} => a.trade = s
      /\ a.at = "lookup" => a.result = "REJECTED"
      /\ c.trade = s /\ Partial(s) => a.at = "partial"
  BY <1>1, <1>4 DEF AfterCount, Responding, Idle, Calls, Partial
<1>6. \/ outstanding' = [outstanding EXCEPT ![c.id] = c.trade]
      \/ MapRaces /\ outstanding' = outstanding
  <2>1. \/ outstanding' = [outstanding EXCEPT ![c.id] = c.trade]
        \/ Overlaps("jms", {"remove"}) /\ outstanding' = outstanding
    BY DEF RecordRequest
  <2>2. Overlaps("jms", {"remove"}) => MapRaces
    BY DEF Overlaps
  <2> QED
    BY <2>1, <2>2
<1>7. requestCount' = s /\ UNCHANGED <<config, requests, forced, exchange, left, due, replies>>
  BY DEF RecordRequest
<1> HIDE DEF a
<1> QED
  BY <1>1, <1>2, <1>3, <1>5, <1>6, <1>7

\* The request the JMS thread handles, until its order is placed or filled.
LEMMA SendEffect ==
  ASSUME Typed, Attributed, ForcePartial \/ FillTrade \/ PlaceOrder
  PROVE  LET c == call["jms"]
         IN  /\ c.at \in {"partial", "send"} /\ c.id \in Ids
             /\ c.trade \in Serials /\ c.trade \in 1..requestCount /\ requests[c.trade].id = c.id
             /\ call'["fix"] = call["fix"]
             /\ UNCHANGED <<config, requestCount, requests, outstanding, due, replies>>
             /\ ForcePartial =>
                  /\ c.at = "partial" /\ call'["jms"].at = "send"
                  /\ call'["jms"].id = c.id /\ call'["jms"].trade = c.trade
                  /\ \/ forced' = [forced EXCEPT ![c.id] = PartialShares(requests[c.trade].size)]
                     \/ MapRaces /\ forced' = forced
                  /\ UNCHANGED <<exchange, left>>
             /\ FillTrade =>
                  /\ config.mock /\ c.at = "send"
                  /\ call'["jms"] = Responding(c.id, "FILLED", requests[c.trade].size)
                  /\ UNCHANGED <<forced, exchange, left>>
             /\ PlaceOrder =>
                  /\ ~config.mock /\ c.at = "send" /\ call'["jms"] = Idle /\ forced' = forced
                  /\ \/ /\ exchange' = [exchange EXCEPT ![c.trade] = "working"]
                        /\ left' = [left EXCEPT ![c.trade] = requests[c.trade].size]
                     \/ UNCHANGED <<exchange, left>>
<1> USE Constants
<1> DEFINE c == call["jms"]
<1>1. /\ c.at \in {"partial", "send"}
      /\ UNCHANGED <<config, requestCount, requests, outstanding, due, replies>>
  BY DEF ForcePartial, FillTrade, PlaceOrder
<1>2. /\ call \in [Threads -> Calls] /\ c \in Calls /\ requestCount \in 0..MaxRequests
  BY DEF Typed, TypeOK, Threads
<1>3. c.id \in Ids /\ c.trade \in 1..requestCount /\ requests[c.trade].id = c.id
  BY <1>1 DEF Typed, CallsTyped, Formed, Attributed, CallsAttributed, Holding, Threads
<1>4. c.trade \in Serials
  BY <1>2, <1>3 DEF Serials
<1>5. call'["fix"] = call["fix"]
  BY <1>2 DEF ForcePartial, FillTrade, PlaceOrder, Threads
<1>6. ASSUME ForcePartial
      PROVE  /\ c.at = "partial" /\ call'["jms"].at = "send"
             /\ call'["jms"].id = c.id /\ call'["jms"].trade = c.trade
             /\ \/ forced' = [forced EXCEPT ![c.id] = PartialShares(requests[c.trade].size)]
                \/ MapRaces /\ forced' = forced
             /\ UNCHANGED <<exchange, left>>
  <2>1. \/ forced' = [forced EXCEPT ![c.id] = PartialShares(requests[c.trade].size)]
        \/ Overlaps("jms", {"finish"}) /\ forced' = forced
    BY <1>6 DEF ForcePartial
  <2>2. Overlaps("jms", {"finish"}) => MapRaces
    BY DEF Overlaps
  <2>3. /\ c.at = "partial" /\ call'["jms"].at = "send"
        /\ call'["jms"].id = c.id /\ call'["jms"].trade = c.trade
        /\ UNCHANGED <<exchange, left>>
    BY <1>2, <1>6 DEF ForcePartial, Threads, Calls
  <2> QED
    BY <2>1, <2>2, <2>3
<1>7. ASSUME FillTrade
      PROVE  /\ config.mock /\ c.at = "send"
             /\ call'["jms"] = Responding(c.id, "FILLED", requests[c.trade].size)
             /\ UNCHANGED <<forced, exchange, left>>
  BY <1>2, <1>7, Zenon DEF FillTrade, Threads
<1>8. ASSUME PlaceOrder
      PROVE  /\ ~config.mock /\ c.at = "send" /\ call'["jms"] = Idle /\ forced' = forced
             /\ \/ /\ exchange' = [exchange EXCEPT ![c.trade] = "working"]
                   /\ left' = [left EXCEPT ![c.trade] = requests[c.trade].size]
                \/ UNCHANGED <<exchange, left>>
  BY <1>2, <1>8, Zenon DEF PlaceOrder, Threads
<1> QED
  BY <1>1, <1>3, <1>4, <1>5, <1>6, <1>7, <1>8, Zenon

\* A report of the exchange: what it says, and what is left of the order.
LEMMA ReportEffect ==
  ASSUME Typed, NEW n \in Serials, ExecutionReport(n)
  PROVE  /\ exchange[n] = "working" /\ call["fix"].at = "idle" /\ call'["jms"] = call["jms"]
         /\ \A k \in Serials : k # n => exchange'[k] = exchange[k] /\ left'[k] = left[k]
         /\ UNCHANGED <<config, requestCount, requests, outstanding, forced, due, replies>>
         /\ exchange'[n] \in {"working", "filled", "closed"}
         /\ \/ /\ call'["fix"].at = "idle" /\ left' = left /\ exchange'[n] = "closed"
            \/ /\ call'["fix"].at = "lookup" /\ call'["fix"].id = requests[n].id
               /\ \/ /\ call'["fix"].result = "FILLED" /\ call'["fix"].shares = left[n]
                     /\ exchange'[n] = "filled" /\ left'[n] = 0
                  \/ /\ call'["fix"].result = "PARTIALLY_FILLED" /\ call'["fix"].shares \in 1..(left[n] - 1)
                     /\ exchange'[n] = "working" /\ left'[n] = left[n] - call'["fix"].shares
                  \/ /\ call'["fix"].result \notin {"FILLED", "PARTIALLY_FILLED"}
                     /\ exchange'[n] = "closed" /\ left'[n] = left[n]
<1> USE Constants
<1>0. /\ call \in [Threads -> Calls] /\ left \in [Serials -> Int32] /\ left[n] \in Int
      /\ exchange \in [Serials -> {"unsent", "working", "filled", "closed"}]
  BY DEF Typed, TypeOK, Int32
<1> DEFINE Reported(r, k, x) ==
      /\ exchange[n] = "working" /\ call["fix"].at = "idle" /\ call'["jms"] = call["jms"]
      /\ \A m \in Serials : m # n => exchange'[m] = exchange[m] /\ left'[m] = left[m]
      /\ UNCHANGED <<config, requestCount, requests, outstanding, forced, due, replies>>
      /\ exchange'[n] = x /\ left'[n] = left[n] - k
      /\ call'["fix"].at = "lookup" /\ call'["fix"].id = requests[n].id
      /\ call'["fix"].result = r /\ call'["fix"].shares = k
<1>1. ASSUME NEW r, NEW k, NEW x, Report(n, r, k, x) PROVE Reported(r, k, x)
  BY <1>0, <1>1 DEF Report, Responding, Idle, Threads
<1>2. CASE ReportFilled(n)
  <2>1. Reported("FILLED", left[n], "filled") /\ left[n] - left[n] = 0
    BY <1>0, <1>1, <1>2 DEF ReportFilled
  <2> QED
    BY <2>1
<1>3. ASSUME NEW k \in PartFills, ReportPartFill(n, k) PROVE Reported("PARTIALLY_FILLED", k, "working") /\ k \in 1..(left[n] - 1)
  BY <1>0, <1>1, <1>3, SizesAssumption DEF ReportPartFill
<1>4. ASSUME NEW r \in {"CANCELED", "REJECTED", "DONE_FOR_DAY", "null"}, ReportClosed(n, r)
      PROVE  Reported(r, 0, "closed") /\ left[n] - 0 = left[n] /\ r \notin {"FILLED", "PARTIALLY_FILLED"}
  BY <1>0, <1>1, <1>4 DEF ReportClosed
<1>5. CASE ReportWithoutShares(n)
  BY <1>0, <1>5 DEF ReportWithoutShares, Idle
<1> QED
  BY <1>2, <1>3, <1>4, <1>5 DEF ExecutionReport

\* What a thread inside sendTradeResponse has in hand.
LEMMA ResponseCall ==
  ASSUME Typed, Attributed, NEW t \in Threads, SendTradeResponse(t)
  PROVE  /\ call[t].at \in Answering /\ call[t].id \in Ids
         /\ call[t].result \in Results /\ call[t].shares \in Int32
         /\ call[t].at # "lookup" =>
              /\ call[t].trade \in Serials /\ call[t].trade \in 1..requestCount
              /\ requests[call[t].trade].id = call[t].id
              /\ HasData(call[t].trade)
         /\ \A u \in Threads : u # t => call'[u] = call[u]
         /\ UNCHANGED <<config, requestCount, exchange, left, replies>>
<1>1. call \in [Threads -> Calls] /\ call[t] \in Calls /\ requestCount \in 0..MaxRequests
  BY DEF Typed, TypeOK
<1>2. call[t].at \in Answering
  BY DEF SendTradeResponse, LookUp, RemoveTrade, ScheduleResponse, LoseResponse, Answering
<1>3. call[t].id \in Ids /\ call[t].result \in Results /\ call[t].shares \in Int32
  BY <1>1, <1>2 DEF Typed, CallsTyped, Calls, Answering
<1>4. call[t].at # "lookup" => /\ Formed(call[t].trade) /\ requests[call[t].trade].id = call[t].id
  BY <1>2 DEF Typed, CallsTyped, Attributed, CallsAttributed, Holding, Answering
<1>5. /\ \A u \in Threads : u # t => call'[u] = call[u]
      /\ UNCHANGED <<config, requestCount, exchange, left, replies>>
  BY <1>1 DEF SendTradeResponse, LookUp, RemoveTrade, ScheduleResponse, LoseResponse
<1> QED
  BY <1>1, <1>2, <1>3, <1>4, <1>5, Constants DEF Formed, Serials

LEMMA LookUpEffect ==
  ASSUME Typed, Attributed, NEW t \in Threads, LookUp(t)
  PROVE  LET i == call[t].id
         IN  /\ call[t].at = "lookup"
             /\ \/ /\ call'[t].at = "idle"
                   /\ MapRaces \/ ~Known(i)
                \/ /\ call'[t].at = "remove" /\ call'[t].id = i /\ call'[t].trade = outstanding[i]
                   /\ Known(i) /\ outstanding[i] \in Serials /\ requests[outstanding[i]].id = i
                   /\ call'[t].result = call[t].result /\ call'[t].shares = call[t].shares
             /\ UNCHANGED <<requests, outstanding, forced, due>>
<1> USE Constants
<1> DEFINE i == call[t].id
<1>1. /\ call \in [Threads -> Calls] /\ call[t] \in Calls /\ i \in Ids
      /\ outstanding \in [Ids -> {Absent, NullTrade} \union Serials]
  BY ResponseCall DEF Typed, TypeOK, SendTradeResponse
<1>2. call[t].at = "lookup" /\ UNCHANGED <<requests, outstanding, forced, due>>
  BY DEF LookUp
<1>3. Known(i) => outstanding[i] \in Serials /\ requests[outstanding[i]].id = i
  BY <1>1 DEF Known, NullTrade, Attributed, IdsUnique
<1>4. Overlaps(t, {"put"}) => MapRaces
  BY DEF Overlaps
<1>5. \/ /\ Known(i)
         /\ call'[t].at = "remove" /\ call'[t].id = i /\ call'[t].trade = outstanding[i]
         /\ call'[t].result = call[t].result /\ call'[t].shares = call[t].shares
      \/ (~Known(i) \/ Overlaps(t, {"put"})) /\ call'[t].at = "idle"
  <2>1. CASE Known(i) /\ call' = [call EXCEPT ![t].at = "remove", ![t].trade = outstanding[i]]
    BY <1>1, <2>1 DEF Calls
  <2>2. CASE (~Known(i) \/ Overlaps(t, {"put"})) /\ call' = [call EXCEPT ![t] = Idle]
    <3>1. call'[t].at = "idle"
      BY <1>1, <2>2 DEF Idle
    <3> QED
      BY <2>2, <3>1
  <2> QED
    BY <2>1, <2>2 DEF LookUp
<1> HIDE DEF i
<1> QED
  BY <1>2, <1>3, <1>4, <1>5 DEF i

LEMMA RemoveEffect ==
  ASSUME Typed, Attributed, NEW t \in Threads, RemoveTrade(t)
  PROVE  LET i == call[t].id
             n == call[t].trade
         IN  /\ call[t].at = "remove"
             /\ call'[t].at = "finish" /\ call'[t].id = i /\ call'[t].trade = n
             /\ \A k \in Serials : k # n => requests'[k] = requests[k]
             /\ requests'[n].id = i /\ requests'[n].requested = requests[n].requested
             /\ requests'[n].result = call[t].result /\ requests'[n].size = call[t].shares
             /\ \/ outstanding' = [outstanding EXCEPT ![i] = Absent]
                \/ MapRaces /\ outstanding' = outstanding
             /\ UNCHANGED <<forced, due>>
<1> DEFINE i == call[t].id
           n == call[t].trade
<1>1. /\ call \in [Threads -> Calls] /\ call[t] \in Calls /\ call[t].at = "remove"
      /\ n \in Serials /\ requests[n].id = i /\ requests \in [Serials -> Trades]
  BY ResponseCall DEF Typed, TypeOK, SendTradeResponse, RemoveTrade
<1>2. call'[t].at = "finish" /\ call'[t].id = i /\ call'[t].trade = n
  BY <1>1 DEF RemoveTrade, Calls
<1>3. /\ \A k \in Serials : k # n => requests'[k] = requests[k]
      /\ requests'[n].id = i /\ requests'[n].requested = requests[n].requested
      /\ requests'[n].result = call[t].result /\ requests'[n].size = call[t].shares
  BY <1>1 DEF RemoveTrade, Trades
<1>4. \/ outstanding' = [outstanding EXCEPT ![i] = Absent]
      \/ Overlaps(t, {"put", "remove"}) /\ outstanding' = outstanding
  BY DEF RemoveTrade
<1>5. Overlaps(t, {"put", "remove"}) => MapRaces
  BY DEF Overlaps
<1>6. UNCHANGED <<forced, due>>
  BY DEF RemoveTrade
<1> HIDE DEF i, n
<1> QED
  BY <1>1, <1>2, <1>3, <1>4, <1>5, <1>6 DEF i, n

LEMMA ScheduleEffect ==
  ASSUME Typed, Attributed, NEW t \in Threads, ScheduleResponse(t)
  PROVE  LET i == call[t].id
             n == call[t].trade
         IN  /\ call[t].at = "finish" /\ call'[t].at = "idle"
             /\ \A k \in Serials : k # n => requests'[k] = requests[k] /\ due'[k] = due[k]
             /\ requests'[n].id = i /\ requests'[n].requested = requests[n].requested
             /\ \/ /\ forced[i] # Absent
                   /\ \/ /\ requests[n].result = "FILLED"
                         /\ requests'[n].result = "PARTIALLY_FILLED" /\ requests'[n].size = forced[i]
                      \/ requests[n].result # "FILLED" /\ requests'[n] = requests[n]
                   /\ \/ forced' = [forced EXCEPT ![i] = Absent]
                      \/ MapRaces /\ forced' = forced
                \/ /\ forced[i] = Absent \/ MapRaces
                   /\ requests' = requests /\ forced' = forced
             /\ due'[n] = due[n] + 1
             /\ outstanding' = outstanding
<1> DEFINE i == call[t].id
           n == call[t].trade
           race == Overlaps(t, {"partial", "finish"})
<1>1. /\ call \in [Threads -> Calls] /\ call[t].at = "finish"
      /\ n \in Serials /\ requests[n].id = i /\ requests \in [Serials -> Trades]
      /\ due \in [Serials -> Nat]
  BY ResponseCall DEF Typed, TypeOK, SendTradeResponse, ScheduleResponse
<1>2. /\ call'[t].at = "idle" /\ outstanding' = outstanding
      /\ due'[n] = due[n] + 1 /\ \A k \in Serials : k # n => due'[k] = due[k]
  BY <1>1 DEF ScheduleResponse, Idle
<1>3. race => MapRaces
  BY DEF Overlaps
<1> HIDE DEF race
<1>4. \/ /\ forced[i] # Absent
         /\ requests' = [requests EXCEPT ![n] = Forced(requests[n], forced[i])]
         /\ \/ forced' = [forced EXCEPT ![i] = Absent]
            \/ race /\ forced' = forced
      \/ /\ forced[i] = Absent \/ race
         /\ requests' = requests /\ forced' = forced
  BY <1>1 DEF ScheduleResponse, race
<1>5. LET f == Forced(requests[n], forced[i])
      IN  /\ f.id = requests[n].id /\ f.requested = requests[n].requested
          /\ \/ requests[n].result = "FILLED" /\ f.result = "PARTIALLY_FILLED" /\ f.size = forced[i]
             \/ requests[n].result # "FILLED" /\ f = requests[n]
  <2>1. requests[n] \in Trades
    BY <1>1
  <2> QED
    BY <2>1 DEF Forced, Trades
<1>6. CASE requests' = [requests EXCEPT ![n] = Forced(requests[n], forced[i])]
  <2>1. requests'[n] = Forced(requests[n], forced[i]) /\ \A k \in Serials : k # n => requests'[k] = requests[k]
    BY <1>1, <1>6
  <2> HIDE DEF i, n
  <2> QED
    BY <1>1, <1>2, <1>3, <1>4, <1>5, <2>1 DEF i, n
<1>7. CASE requests' = requests
  <2> HIDE DEF i, n
  <2> QED
    BY <1>1, <1>2, <1>3, <1>4, <1>5, <1>7 DEF i, n
<1> QED
  BY <1>4, <1>6, <1>7

LEMMA LoseEffect ==
  ASSUME Typed, Attributed, NEW t \in Threads, LoseResponse(t)
  PROVE  /\ MapRaces /\ call[t].at = "finish" /\ call'[t].at = "idle"
         /\ UNCHANGED <<requests, outstanding, forced, due>>
BY DEF LoseResponse, Overlaps, Idle, Typed, TypeOK

LEMMA DelayedEffect ==
  ASSUME Typed, NEW n \in Serials, DelayedResponse(n)
  PROVE  /\ due[n] > 0 /\ Formed(n) /\ n \in 1..requestCount
         /\ \A k \in Serials : due'[k] > 0 => due[k] > 0
         /\ replies' \in {replies, replies \union {ReplyFor(n)}}
         /\ UNCHANGED <<config, requestCount, requests, outstanding, forced, call, exchange, left>>
BY DEF DelayedResponse, Typed, TypeOK, TradesTyped, Formed

\* Once a request has arrived, its id and what it asks for stay, and it stays
\* a Trade that parsed or one that did not.
LEMMA RequestsStay ==
  ASSUME Typed, Attributed, [Next]_vars, ~Receive
  PROVE  /\ \A n \in Serials :
              /\ requests'[n].id = requests[n].id /\ requests'[n].requested = requests[n].requested
              /\ HasData(n) <=> HasData(n)'
         /\ requestCount \in Nat /\ requestCount' \in Nat /\ requestCount <= requestCount'
<1> USE Constants
<1>0. requestCount \in Nat /\ forced \in [Ids -> Int32 \union {Absent}]
  BY DEF Typed, TypeOK
<1>1. CASE requests' = requests
  <2>1. requestCount' \in {requestCount, requestCount + 1}
    <3>1. ASSUME NEW n \in Serials, ExecutionReport(n) PROVE requestCount' = requestCount
      BY <3>1, ReportEffect
    <3>2. ASSUME NEW t \in Threads, SendTradeResponse(t) PROVE requestCount' = requestCount
      BY <3>2, ResponseCall
    <3>3. ASSUME NEW n \in Serials, DelayedResponse(n) PROVE requestCount' = requestCount
      BY <3>3, DelayedEffect
    <3> QED
      BY <3>1, <3>2, <3>3, RecordEffect, SendEffect DEF Next, ProcessRequest, vars
  <2> QED
    BY <1>0, <1>1, <2>1 DEF HasData
<1>2. ASSUME NEW t \in Threads, RemoveTrade(t) \/ ScheduleResponse(t)
      PROVE  /\ \A n \in Serials :
                  /\ requests'[n].id = requests[n].id /\ requests'[n].requested = requests[n].requested
                  /\ HasData(n) <=> HasData(n)'
             /\ requestCount' = requestCount
  <2>1. /\ requestCount' = requestCount /\ call[t].id \in Ids /\ call[t].shares \in Int32
        /\ call[t].trade \in Serials /\ requests[call[t].trade].id = call[t].id /\ HasData(call[t].trade)
    BY <1>2, ResponseCall DEF SendTradeResponse, RemoveTrade, ScheduleResponse
  <2>2. CASE RemoveTrade(t)
    BY <2>1, <2>2, RemoveEffect DEF HasData
  <2>3. CASE ScheduleResponse(t)
    <3>1. forced[call[t].id] # Absent => forced[call[t].id] \in Int32
      BY <1>0, <2>1
    <3> QED
      BY <2>1, <2>3, <3>1, ScheduleEffect DEF HasData
  <2> QED
    BY <1>2, <2>2, <2>3
<1>3. requests' = requests \/ \E t \in Threads : RemoveTrade(t) \/ ScheduleResponse(t)
  <2>1. ASSUME NEW n \in Serials, ExecutionReport(n) PROVE requests' = requests
    BY <2>1, ReportEffect
  <2>2. ASSUME NEW t \in Threads, LookUp(t) \/ LoseResponse(t) PROVE requests' = requests
    BY <2>2, LookUpEffect, LoseEffect
  <2>3. ASSUME NEW n \in Serials, DelayedResponse(n) PROVE requests' = requests
    BY <2>3, DelayedEffect
  <2> QED
    BY <2>1, <2>2, <2>3, RecordEffect, SendEffect DEF Next, ProcessRequest, SendTradeResponse, vars
<1> QED
  BY <1>0, <1>1, <1>2, <1>3

\* The settings of a broker process do not change.
LEMMA ConfigStays ==
  ASSUME Typed, Attributed, [Next]_vars
  PROVE  config' = config
<1>1. ASSUME NEW n \in Serials, ExecutionReport(n) PROVE config' = config
  BY <1>1, ReportEffect
<1>2. ASSUME NEW t \in Threads, SendTradeResponse(t) PROVE config' = config
  BY <1>2, ResponseCall
<1>3. ASSUME NEW n \in Serials, DelayedResponse(n) PROVE config' = config
  BY <1>3, DelayedEffect
<1>4. Receive => config' = config
  BY DEF Receive, ReceiveTrade, ReceiveUncorrelated, ReceiveMalformed, ReceiveUnusable, StartRequest
<1> QED
  BY <1>1, <1>2, <1>3, <1>4, RecordEffect, SendEffect DEF Next, ProcessRequest, vars

-----------------------------------------------------------------------------
(* What a Trade asks for.                                                  *)

\* A Trade that parsed asks for an int of shares that is not negative; until
\* it is sent it is as it came; and a simulated partial fill is computed from
\* what the request of its id asked for.
Sized ==
  /\ ThreadsApart
  /\ \A n \in Serials : HasData(n) => requests[n].requested \in 0..MaxInt
  /\ call["jms"].at \in {"partial", "send"} =>
       requests[call["jms"].trade].size = requests[call["jms"].trade].requested
  /\ \A i \in Ids : forced[i] # Absent =>
       \E n \in 1..requestCount :
         HasData(n) /\ requests[n].id = i /\ forced[i] = PartialShares(requests[n].requested)

LEMMA SizedInit == Init => Sized
BY Constants, OnceInit DEF Init, Sized, Once, HasData, NoRequest, Idle, Threads

\* The exchange's reports are about other requests than the one the JMS
\* thread handles.
LEMMA FixElsewhere ==
  ASSUME Typed, Attributed, ThreadsApart, call["jms"].at # "idle", call["fix"].at # "idle"
  PROVE  call["fix"].id # call["jms"].id
BY DEF Attributed, CallsAttributed, ThreadsApart

LEMMA SizedNext ==
  ASSUME UniqueIds, Typed, Attributed, Sized, [Next]_vars
  PROVE  Sized'
<1> USE Constants
<1>0. /\ requestCount \in 0..MaxRequests /\ call \in [Threads -> Calls]
      /\ forced \in [Ids -> Int32 \union {Absent}] /\ ThreadsApart
  BY DEF Typed, TypeOK, Sized
<1>1. CASE Receive
  <2>1. CASE ReceiveUnusable
    BY <2>1 DEF ReceiveUnusable, Sized, ThreadsApart, HasData
  <2>2. ASSUME NEW id, NEW trade, NEW size, Starts(id, trade, size) PROVE Sized'
    <3> DEFINE s == requestCount + 1
    <3>1. /\ s \in Serials /\ exchange[s] = "unsent" /\ \A n \in 1..requestCount : n # s /\ n \in Serials
          /\ requests'[s] = [id |-> id, requested |-> size, size |-> size, result |-> "null"]
          /\ \A n \in Serials : n # s => requests'[n] = requests[n]
          /\ call'["jms"].at = "put" /\ call'["jms"].id = id
          /\ UNCHANGED <<requestCount, forced, exchange>>
      BY <1>0, <2>2, StartEffect DEF Serials
    <3>2. /\ \A n \in Serials : requests[n].id # id
          /\ size \in Int32 => size \in 0..MaxInt
      BY <2>2 DEF Starts
    <3> HIDE DEF s
    <3>3. ThreadsApart'
      BY <3>1, <3>2 DEF ThreadsApart
    <3>4. \A n \in Serials : HasData(n)' => requests'[n].requested \in 0..MaxInt
      BY <3>1, <3>2 DEF Sized, HasData
    <3>5. \A n \in 1..requestCount : requests'[n] = requests[n] /\ (HasData(n) => HasData(n)')
      BY <3>1 DEF HasData
    <3>6. \A i \in Ids : forced'[i] # Absent =>
            \E n \in 1..requestCount' :
              HasData(n)' /\ requests'[n].id = i /\ forced'[i] = PartialShares(requests'[n].requested)
      BY <3>1, <3>5 DEF Sized
    <3> QED
      BY <3>1, <3>3, <3>4, <3>6 DEF Sized
  <2> QED
    BY <1>1, <2>1, <2>2, ReceiveStarts
<1>2. CASE ~Receive
  <2>0. /\ \A n \in Serials :
             /\ requests'[n].id = requests[n].id /\ requests'[n].requested = requests[n].requested
             /\ HasData(n) <=> HasData(n)'
        /\ requestCount \in Nat /\ requestCount' \in Nat /\ requestCount <= requestCount'
    BY <1>2, RequestsStay
  <2>1. \A n \in Serials : HasData(n)' => requests'[n].requested \in 0..MaxInt
    BY <2>0 DEF Sized
  <2>2. \A n \in 1..requestCount : n \in Serials /\ n \in 1..requestCount'
    BY <1>0, <2>0 DEF Serials
  <2>3. \A i \in Ids : forced[i] # Absent =>
          \E n \in 1..requestCount' :
            HasData(n)' /\ requests'[n].id = i /\ forced[i] = PartialShares(requests'[n].requested)
    BY <2>0, <2>2 DEF Sized
  \* What is left to show of each step.
  <2>4. ASSUME \A n \in Serials : exchange'[n] # "unsent" =>
                 exchange[n] # "unsent" \/ call'["jms"].at = "idle",
               call'["jms"].at # "idle" => call["jms"].at # "idle" /\ call'["jms"].id = call["jms"].id,
               call'["jms"].at \in {"partial", "send"} =>
                 requests'[call'["jms"].trade].size = requests'[call'["jms"].trade].requested,
               \A i \in Ids : forced'[i] # Absent =>
                 \/ forced'[i] = forced[i]
                 \/ \E n \in 1..requestCount' :
                      HasData(n)' /\ requests'[n].id = i /\ forced'[i] = PartialShares(requests'[n].requested)
        PROVE  Sized'
    <3>1. ThreadsApart'
      BY <2>0, <2>4 DEF Sized, ThreadsApart
    <3>2. \A i \in Ids : forced'[i] # Absent =>
            \E n \in 1..requestCount' :
              HasData(n)' /\ requests'[n].id = i /\ forced'[i] = PartialShares(requests'[n].requested)
      BY <2>3, <2>4
    <3> QED
      BY <2>1, <2>4, <3>1, <3>2 DEF Sized
  <2>5. CASE RecordRequest
    BY <2>4, <2>5, RecordEffect
  <2>6. CASE ForcePartial
    <3> DEFINE c == call["jms"]
    <3>1. /\ c.at = "partial" /\ c.id \in Ids /\ c.trade \in 1..requestCount /\ requests[c.trade].id = c.id
          /\ c.trade \in Serials /\ requestCount' = requestCount
          /\ requests' = requests /\ exchange' = exchange
          /\ call'["jms"].at = "send" /\ call'["jms"].id = c.id /\ call'["jms"].trade = c.trade
          /\ \/ forced' = [forced EXCEPT ![c.id] = PartialShares(requests[c.trade].size)]
             \/ forced' = forced
      BY <2>6, SendEffect
    <3>2. requests[c.trade].size = requests[c.trade].requested
      BY <3>1 DEF Sized
    <3>3. HasData(c.trade)
      BY <3>1 DEF Typed, CallsTyped, Formed, Holding, Threads
    <3>4. \A i \in Ids : forced'[i] = forced[i]
            \/ (i = c.id /\ forced'[i] = PartialShares(requests'[c.trade].requested))
      BY <1>0, <3>1, <3>2
    <3>5. \A i \in Ids : forced'[i] = forced[i] \/
            \E n \in 1..requestCount' :
              HasData(n)' /\ requests'[n].id = i /\ forced'[i] = PartialShares(requests'[n].requested)
      BY <2>0, <3>1, <3>3, <3>4
    <3>6. requests'[call'["jms"].trade].size = requests'[call'["jms"].trade].requested
      BY <3>1, <3>2
    <3>7. \A n \in Serials : exchange'[n] # "unsent" =>
            exchange[n] # "unsent" \/ call'["jms"].at = "idle"
      BY <3>1
    <3>8. call'["jms"].at # "idle" => call["jms"].at # "idle" /\ call'["jms"].id = call["jms"].id
      BY <3>1
    <3> HIDE DEF c
    <3> QED
      BY <2>4, <3>5, <3>6, <3>7, <3>8
  <2>7. CASE FillTrade
    <3>1. /\ call["jms"].at = "send" /\ UNCHANGED <<requests, forced, exchange>>
          /\ \E x : call'["jms"] = Responding(call["jms"].id, "FILLED", x)
      BY <2>7, SendEffect
    <3>2. call'["jms"].at = "lookup" /\ call'["jms"].id = call["jms"].id
      BY <3>1 DEF Responding, Idle
    <3> QED
      BY <2>4, <3>1, <3>2
  <2>8. CASE PlaceOrder
    BY <2>4, <2>8, SendEffect DEF Idle
  <2>9. ASSUME NEW n \in Serials, ExecutionReport(n) PROVE Sized'
    <3>1. /\ \A k \in Serials : exchange'[k] # "unsent" => exchange[k] # "unsent"
          /\ call'["jms"] = call["jms"] /\ UNCHANGED <<requests, forced>>
      BY <2>9, ReportEffect
    <3> QED
      BY <2>4, <3>1 DEF Sized
  <2>10. ASSUME NEW t \in Threads, SendTradeResponse(t) PROVE Sized'
    <3>1. /\ call[t].at \in Answering /\ UNCHANGED exchange
          /\ \A u \in Threads : u # t => call'[u] = call[u]
          /\ call'[t].at \notin {"put", "partial", "send"}
          /\ call'[t].at # "idle" => call'[t].id = call[t].id
      BY <2>10, ResponseCall, LookUpEffect, RemoveEffect, ScheduleEffect, LoseEffect DEF SendTradeResponse
    <3>2. \A i \in Ids : forced'[i] # Absent => forced'[i] = forced[i]
      <4>1. forced' = forced \/ \E i \in Ids : forced' = [forced EXCEPT ![i] = Absent]
        BY <2>10, ResponseCall, LookUpEffect, RemoveEffect, ScheduleEffect, LoseEffect DEF SendTradeResponse
      <4> QED
        BY <1>0, <4>1
    <3>3. ASSUME call'["jms"].at \in {"partial", "send"}
          PROVE  /\ call'["jms"] = call["jms"]
                 /\ requests'[call["jms"].trade] = requests[call["jms"].trade]
      <4>1. t # "jms" /\ call'["jms"] = call["jms"]
        BY <3>1, <3>3 DEF Threads
      <4>2. call["fix"].at # "idle" /\ t = "fix"
        BY <3>1, <4>1 DEF Threads, Answering
      <4>3. call["fix"].id # call["jms"].id
        BY <1>0, <3>3, <4>1, <4>2, FixElsewhere
      <4>4. call["jms"].trade \in Serials /\ requests[call["jms"].trade].id = call["jms"].id
        BY <1>0, <3>3, <4>1 DEF Typed, CallsTyped, Formed, Attributed, CallsAttributed, Holding, Threads, Serials
      <4>5. \A k \in Serials : requests'[k] = requests[k] \/ requests[k].id = call["fix"].id
        BY <2>10, <4>2, ResponseCall, LookUpEffect, RemoveEffect, ScheduleEffect, LoseEffect
           DEF SendTradeResponse
      <4> QED
        BY <4>1, <4>3, <4>4, <4>5
    <3> QED
      BY <2>4, <3>1, <3>2, <3>3 DEF Sized, Threads, Answering
  <2>11. ASSUME NEW n \in Serials, DelayedResponse(n) PROVE Sized'
    BY <2>4, <2>11, DelayedEffect DEF Sized
  <2>12. CASE UNCHANGED vars
    BY <2>4, <2>12 DEF vars, Sized
  <2> QED
    BY <1>2, <2>5, <2>6, <2>7, <2>8, <2>9, <2>10, <2>11, <2>12 DEF Next, ProcessRequest
<1> QED
  BY <1>1, <1>2

-----------------------------------------------------------------------------
(* The entries of a request in the two maps.                               *)

\* A request that may get an entry in forcedPartialTrades is in
\* outstandingTrades by then, and the thread that takes it out of the one map
\* goes on to take it out of the other.
Kept ==
  /\ call["jms"].at \in {"partial", "send"} => outstanding[call["jms"].id] = call["jms"].trade
  /\ NoForcedLeak

LEMMA KeptInit == Init => Kept
BY DEF Init, Kept, NoForcedLeak, Idle, Threads

LEMMA KeptNext ==
  ASSUME UniqueIds, ~MapRaces, Typed, Attributed, Sized, Kept, [Next]_vars
  PROVE  Kept'
<1> USE Constants
<1>0. /\ outstanding \in [Ids -> {Absent, NullTrade} \union Serials] /\ forced \in [Ids -> Int32 \union {Absent}]
      /\ call \in [Threads -> Calls] /\ ThreadsApart
  BY DEF Typed, TypeOK, Sized
<1>1. CASE Receive
  <2>1. CASE ReceiveUnusable
    BY <2>1 DEF ReceiveUnusable, Kept, NoForcedLeak, Known
  <2>2. ASSUME NEW id, NEW trade, NEW size, Starts(id, trade, size) PROVE Kept'
    <3>1. /\ call["jms"].at = "idle" /\ call'["jms"].at = "put" /\ call'["fix"] = call["fix"]
          /\ UNCHANGED <<outstanding, forced>>
      BY <2>2, StartEffect
    <3> QED
      BY <3>1 DEF Kept, NoForcedLeak, Known, Threads
  <2> QED
    BY <1>1, <2>1, <2>2, ReceiveStarts
<1>2. CASE RecordRequest
  <2> DEFINE c == call["jms"]
             s == requestCount + 1
  <2>1. /\ s \in Serials /\ requestCount \in Nat /\ c.at = "put" /\ c.id \in Ids /\ requests[s].id = c.id
        /\ call'["fix"] = call["fix"]
        /\ call'["jms"].at \in {"idle", "partial", "send", "lookup"}
        /\ call'["jms"].at # "idle" => call'["jms"].id = c.id /\ c.trade = s
        /\ call'["jms"].at \in {"partial", "send"} => call'["jms"].trade = s
        /\ outstanding' = [outstanding EXCEPT ![c.id] = c.trade] /\ forced' = forced
    BY <1>2, RecordEffect
  <2>2. forced[c.id] = Absent
    <3>1. SUFFICES ASSUME NEW n \in 1..requestCount, requests[n].id = c.id PROVE FALSE
      BY <2>1 DEF Sized
    <3>2. n \in Serials /\ n # s
      BY <2>1 DEF Serials
    <3> QED
      BY <2>1, <3>1, <3>2 DEF Attributed, IdsUnique
  <2> HIDE DEF c, s
  <2>3. /\ outstanding'[c.id] = c.trade /\ \A i \in Ids : i # c.id => outstanding'[i] = outstanding[i]
    BY <1>0, <2>1
  <2>4. NoForcedLeak'
    BY <2>1, <2>2, <2>3 DEF Kept, NoForcedLeak, Known, Threads, c
  <2> QED
    BY <2>1, <2>3, <2>4 DEF Kept
<1>3. CASE ForcePartial
  <2> DEFINE c == call["jms"]
  <2>1. /\ c.at = "partial" /\ c.id \in Ids /\ c.trade \in Serials /\ c.trade \in 1..requestCount
        /\ call'["jms"].at = "send" /\ call'["jms"].id = c.id /\ call'["jms"].trade = c.trade
        /\ call'["fix"] = call["fix"] /\ outstanding' = outstanding
        /\ forced' = [forced EXCEPT ![c.id] = PartialShares(requests[c.trade].size)]
    BY <1>3, SendEffect
  <2>2. outstanding[c.id] = c.trade
    BY <2>1 DEF Kept
  <2>3. Known(c.id)'
    BY <2>1, <2>2 DEF Known, NullTrade, Serials
  <2>4. \A i \in Ids : i # c.id => forced'[i] = forced[i]
    BY <1>0, <2>1
  <2>5. NoForcedLeak'
    BY <2>1, <2>3, <2>4 DEF Kept, NoForcedLeak, Known, Threads
  <2> QED
    BY <2>1, <2>2, <2>5 DEF Kept
<1>4. CASE FillTrade \/ PlaceOrder
  <2>1. /\ call["jms"].at = "send" /\ call'["fix"] = call["fix"] /\ UNCHANGED <<outstanding, forced>>
        /\ (call'["jms"] = Idle \/ \E i, x : call'["jms"] = Responding(i, "FILLED", x))
    BY <1>4, SendEffect
  <2>2. call'["jms"].at \notin {"partial", "send", "finish"}
    <3>1. Idle.at = "idle" /\ \A i, x : Responding(i, "FILLED", x).at = "lookup"
      BY DEF Responding, Idle
    <3> QED
      BY <2>1, <3>1
  <2> QED
    BY <2>1, <2>2 DEF Kept, NoForcedLeak, Known, Threads
<1>5. ASSUME NEW n \in Serials, ExecutionReport(n) PROVE Kept'
  <2>1. call["fix"].at = "idle" /\ call'["jms"] = call["jms"] /\ UNCHANGED <<outstanding, forced>>
    BY <1>5, ReportEffect
  <2> QED
    BY <2>1 DEF Kept, NoForcedLeak, Known, Threads
<1>6. ASSUME NEW t \in Threads, SendTradeResponse(t) PROVE Kept'
  <2> DEFINE i == call[t].id
  <2>0. /\ call[t].at \in Answering /\ i \in Ids /\ \A u \in Threads : u # t => call'[u] = call[u]
    BY <1>6, ResponseCall
  <2>1. ASSUME call["jms"].at \in {"partial", "send"} PROVE call["jms"].id # i
    <3>1. t = "fix" /\ call["fix"].at # "idle"
      BY <2>0, <2>1 DEF Threads, Answering
    <3> QED
      BY <1>0, <2>1, <3>1, FixElsewhere
  <2>2. call["jms"].at \in {"partial", "send"} => call["jms"].id \in Ids
    BY DEF Typed, CallsTyped, Threads
  <2>3. CASE LookUp(t)
    <3>1. call[t].at = "lookup" /\ call'[t].at \in {"idle", "remove"} /\ UNCHANGED <<outstanding, forced>>
      BY <2>3, LookUpEffect
    <3> QED
      BY <2>0, <3>1 DEF Kept, NoForcedLeak, Known, Threads
  <2>4. CASE RemoveTrade(t)
    <3>1. /\ call[t].at = "remove" /\ call'[t].at = "finish" /\ call'[t].id = i
          /\ outstanding' = [outstanding EXCEPT ![i] = Absent] /\ forced' = forced
      BY <2>4, RemoveEffect
    <3>2. \A k \in Ids : k # i => outstanding'[k] = outstanding[k]
      BY <1>0, <3>1
    <3> HIDE DEF i
    <3>3. NoForcedLeak'
      BY <2>0, <3>1, <3>2 DEF Kept, NoForcedLeak, Known, Threads
    <3> QED
      BY <2>0, <2>1, <2>2, <3>1, <3>2, <3>3 DEF Kept, Threads
  <2>5. CASE ScheduleResponse(t)
    <3> HIDE DEF i
    <3>0. call[t].at = "finish" /\ call'[t].at = "idle" /\ outstanding' = outstanding
      BY <2>5, ScheduleEffect
    <3>1. \/ forced' = [forced EXCEPT ![i] = Absent]
          \/ forced[i] = Absent /\ forced' = forced
      BY <2>5, ScheduleEffect DEF i
    <3>2. forced'[i] = Absent /\ \A k \in Ids : k # i => forced'[k] = forced[k]
      BY <1>0, <2>0, <3>1
    <3>3. NoForcedLeak'
      BY <2>0, <3>0, <3>2 DEF Kept, NoForcedLeak, Known, Threads, i
    <3> QED
      BY <2>0, <3>0, <3>3 DEF Kept, Threads
  <2> QED
    BY <1>6, <2>3, <2>4, <2>5, LoseEffect DEF SendTradeResponse
<1>7. ASSUME NEW n \in Serials, DelayedResponse(n) PROVE Kept'
  BY <1>7, DelayedEffect DEF Kept, NoForcedLeak, Known
<1>8. CASE UNCHANGED vars
  BY <1>8 DEF vars, Kept, NoForcedLeak, Known
<1> QED
  BY <1>1, <1>2, <1>3, <1>4, <1>5, <1>6, <1>7, <1>8 DEF Next, ProcessRequest

\* With correlation ids that are never reused and maps that do not race, the
\* broker keeps no simulated partial fill for a request it has answered: the
\* two maps are emptied by whichever thread answers, on every path.
THEOREM NothingLeaks == UniqueIds /\ ~MapRaces => (Spec => []NoForcedLeak)
<1> SUFFICES ASSUME UniqueIds, ~MapRaces PROVE Spec => []NoForcedLeak
  OBVIOUS
<1>1. Typed /\ Attributed /\ [Next]_vars => Attributed'
  BY AttributedNext
<1>2. Typed /\ Attributed /\ Sized /\ [Next]_vars => Sized'
  BY SizedNext
<1>3. Typed /\ Attributed /\ Sized /\ Kept /\ [Next]_vars => Kept'
  BY KeptNext
<1>4. Kept => NoForcedLeak
  BY DEF Kept
<1> QED
  BY <1>1, <1>2, <1>3, <1>4, TypedInit, TypedNext, AttributedInit, SizedInit, KeptInit, PTL DEF Spec

-----------------------------------------------------------------------------
(* A reported number, from the exchange to the reply.                      *)

\* Three fifths of a request, as Java computes them, are never more than the
\* request: where the product wraps, it gets smaller.
LEMMA PartialSharesSmaller ==
  ASSUME NEW size \in 0..MaxInt
  PROVE  PartialShares(size) <= size
<1> USE Constants
<1> DEFINE range == 2 * (MaxInt + 1)
           x == Wrap(size * 3)
<1>1. range \in Nat \ {0} /\ size * 3 \in Nat /\ MinInt = -MaxInt - 1
  BY DEF MinInt
<1>2. x <= size * 3
  <2>1. ASSUME NEW y \in Nat, NEW d \in Nat \ {0} PROVE y % d <= y
    <3>1. y % d \in 0..(d - 1)
      BY <2>1
    <3>2. y < d => y % d = y
      BY <2>1
    <3> QED
      BY <2>1, <3>1, <3>2
  <2>2. size * 3 - MinInt \in Nat
    BY <1>1
  <2>3. (size * 3 - MinInt) % range <= size * 3 - MinInt /\ (size * 3 - MinInt) % range \in Int
    BY <1>1, <2>1, <2>2
  <2> HIDE DEF range
  <2> QED
    BY <1>1, <2>2, <2>3 DEF Wrap, range
<1>3. x \in Int
  BY <1>1 DEF Wrap
<1> HIDE DEF x
<1>4. Truncated(x, 5) <= size
  <2>1. CASE x >= 0
    BY <1>2, <1>3, <2>1 DEF Truncated
  <2>2. CASE x < 0
    <3>1. (-x) \div 5 >= 0
      BY <1>3, <2>2
    <3> QED
      BY <1>3, <2>2, <3>1 DEF Truncated
  <2> QED
    BY <1>3, <2>1, <2>2
<1> QED
  BY <1>4 DEF PartialShares, x

\* The exchange has filled at least the shares that a result for request n
\* names, and all of them when the result is FILLED.
Backs(n, result, size) ==
  /\ result = "FILLED" => exchange[n] = "filled"
  /\ result \in {"FILLED", "PARTIALLY_FILLED"} =>
       exchange[n] # "unsent" /\ size <= requests[n].requested - left[n]

\* In FIX mode whatever the broker holds or has sent about an order is backed
\* by the exchange, at every stage from the report to the reply.
Backed ==
  ~config.mock =>
    /\ \A n \in Serials : exchange[n] # "unsent" => left[n] \in 0..requests[n].requested
    /\ \A n \in Serials : exchange[n] = "filled" => left[n] = 0
    /\ \A n \in Serials : Backs(n, requests[n].result, requests[n].size)
    /\ \A m \in replies : Backs(m.n, m.result, m.size)
    /\ \A t \in Threads, n \in Serials :
         call[t].at \in {"lookup", "remove"} /\ requests[n].id = call[t].id =>
           Backs(n, call[t].result, call[t].shares)

LEMMA BackedInit == Init => Backed
BY DEF Init, Backed, Backs, NoRequest, Idle

LEMMA BackedNext ==
  ASSUME UniqueIds, Typed, Attributed, Sized, Backed, [Next]_vars
  PROVE  Backed'
<1> USE Constants
<1> SUFFICES ASSUME ~config'.mock PROVE Backed'
  BY DEF Backed
<1>0. /\ requestCount \in 0..MaxRequests /\ call \in [Threads -> Calls] /\ left \in [Serials -> Int32]
      /\ requests \in [Serials -> Trades] /\ replies \subseteq Reply /\ forced \in [Ids -> Int32 \union {Absent}]
      /\ exchange \in [Serials -> {"unsent", "working", "filled", "closed"}]
  BY DEF Typed, TypeOK
<1>1. config' = config
  BY ConfigStays
<1>2. /\ \A n \in Serials : exchange[n] # "unsent" => left[n] \in 0..requests[n].requested
      /\ \A n \in Serials : exchange[n] = "filled" => left[n] = 0
      /\ \A n \in Serials : Backs(n, requests[n].result, requests[n].size)
      /\ \A m \in replies : Backs(m.n, m.result, m.size)
      /\ \A t \in Threads, n \in Serials :
           call[t].at \in {"lookup", "remove"} /\ requests[n].id = call[t].id =>
             Backs(n, call[t].result, call[t].shares)
  BY <1>1, Zenon DEF Backed
<1>3. \A n \in Serials : exchange[n] # "unsent" =>
        /\ requests[n].requested \in 0..MaxInt /\ requests[n].id \in Ids
        /\ \A k \in Serials : requests[k].id = requests[n].id => k = n
  BY DEF Typed, TradesTyped, Formed, HasData, Sized, Attributed, IdsUnique
<1>c. 1..requestCount \subseteq Serials
  BY <1>0 DEF Serials
<1>4. CASE Receive
  <2>1. CASE ReceiveUnusable
    BY <1>2, <2>1 DEF ReceiveUnusable, Backed, Backs
  <2>2. ASSUME NEW id, NEW trade, NEW size, Starts(id, trade, size) PROVE Backed'
    <3> DEFINE s == requestCount + 1
    <3>1. /\ s \in Serials /\ exchange[s] = "unsent" /\ ~Replied(s)
          /\ requests'[s] = [id |-> id, requested |-> size, size |-> size, result |-> "null"]
          /\ \A n \in Serials : n # s => requests'[n] = requests[n]
          /\ call'["jms"].at = "put" /\ call'["fix"] = call["fix"]
          /\ call["fix"].at # "idle" => call["fix"].id # id
          /\ UNCHANGED <<exchange, left, replies>>
      BY <2>2, StartEffect
    <3> HIDE DEF s
    <3>2. requests'[s].id = id /\ requests'[s].result = "null"
      BY <3>1
    <3>3. \A n \in Serials : exchange'[n] # "unsent" => left'[n] \in 0..requests'[n].requested
      BY <1>2, <3>1
    <3>4. \A n \in Serials : exchange'[n] = "filled" => left'[n] = 0
      BY <1>2, <3>1
    <3>5. \A n \in Serials : Backs(n, requests[n].result, requests[n].size)'
      BY <1>2, <3>1, <3>2 DEF Backs
    <3>6. \A m \in replies : m.n \in Serials /\ m.n # s
      BY <1>0, <3>1 DEF Reply, Replied
    <3>7. \A m \in replies' : Backs(m.n, m.result, m.size)'
      BY <1>2, <3>1, <3>6 DEF Backs
    <3>8. \A t \in Threads, n \in Serials :
            call'[t].at \in {"lookup", "remove"} /\ requests'[n].id = call'[t].id =>
              /\ t = "fix" /\ n # s
              /\ call[t].at \in {"lookup", "remove"} /\ requests[n].id = call[t].id /\ call'[t] = call[t]
      BY <3>1, <3>2 DEF Threads
    <3>9. \A t \in Threads, n \in Serials :
            call'[t].at \in {"lookup", "remove"} /\ requests'[n].id = call'[t].id =>
              Backs(n, call[t].result, call[t].shares)'
      BY <1>2, <3>1, <3>8 DEF Backs
    <3> QED
      BY <3>3, <3>4, <3>5, <3>7, <3>9 DEF Backed
  <2> QED
    BY <1>4, <2>1, <2>2, ReceiveStarts
<1>5. CASE ~Receive
  <2> DEFINE BacksNext(n, result, size) ==
        /\ result = "FILLED" => exchange'[n] = "filled"
        /\ result \in {"FILLED", "PARTIALLY_FILLED"} =>
             exchange'[n] # "unsent" /\ size <= requests'[n].requested - left'[n]
  <2>0. \A n \in Serials : requests'[n].id = requests[n].id /\ requests'[n].requested = requests[n].requested
    BY <1>5, RequestsStay
  <2>1. \A n \in Serials : left[n] \in Int /\ left'[n] \in Int
    BY TypedNext DEF Typed, TypeOK, Int32
  <2>2. /\ \A n \in Serials : requests[n].size \in Int
        /\ \A t \in Threads : call[t].shares \in Int
        /\ \A m \in replies : m.n \in Serials /\ m.size \in Int
    BY <1>0 DEF Trades, Calls, Reply, Int32
  \* What is left to show of each step: what the exchange has filled stays
  \* filled, and what is new is backed.
  <2>3. ASSUME \A n \in Serials :
                 /\ exchange[n] # "unsent" => exchange'[n] # "unsent" /\ left'[n] <= left[n]
                 /\ exchange[n] = "filled" => exchange'[n] = "filled"
                 /\ exchange'[n] # "unsent" => left'[n] \in 0..requests[n].requested
                 /\ exchange'[n] = "filled" => left'[n] = 0,
               \A n \in Serials :
                 \/ requests'[n] = requests[n]
                 \/ BacksNext(n, requests'[n].result, requests'[n].size),
               \A m \in replies' : m \in replies \/ (m.n \in Serials /\ BacksNext(m.n, m.result, m.size)),
               \A t \in Threads, n \in Serials :
                 call'[t].at \in {"lookup", "remove"} /\ requests[n].id = call'[t].id =>
                   \/ call'[t] = call[t]
                   \/ BacksNext(n, call'[t].result, call'[t].shares)
        PROVE  Backed'
    <3>1. ASSUME NEW n \in Serials, NEW result, NEW size, size \in Int, Backs(n, result, size)
          PROVE  BacksNext(n, result, size)
      <4>1. result = "FILLED" => exchange'[n] = "filled"
        BY <2>3, <3>1 DEF Backs
      <4>2. ASSUME result \in {"FILLED", "PARTIALLY_FILLED"}
            PROVE  exchange'[n] # "unsent" /\ size <= requests'[n].requested - left'[n]
        <5>1. /\ exchange[n] # "unsent" /\ size <= requests[n].requested - left[n]
              /\ exchange'[n] # "unsent" /\ left'[n] <= left[n]
          BY <2>3, <3>1, <4>2 DEF Backs
        <5>2. requests[n].requested \in Int /\ requests'[n].requested = requests[n].requested
          BY <1>3, <2>0, <5>1
        <5> QED
          BY <2>1, <3>1, <5>1, <5>2
      <4> QED
        BY <4>1, <4>2
    <3>2. \A n \in Serials : BacksNext(n, requests'[n].result, requests'[n].size)
      <4> TAKE n \in Serials
      <4>1. Backs(n, requests[n].result, requests[n].size) => BacksNext(n, requests[n].result, requests[n].size)
        BY <2>2, <3>1
      <4> HIDE DEF BacksNext
      <4> QED
        BY <1>2, <2>3, <4>1
    <3>3. \A m \in replies' : BacksNext(m.n, m.result, m.size)
      <4>1. \A m \in replies : Backs(m.n, m.result, m.size) => BacksNext(m.n, m.result, m.size)
        BY <2>2, <3>1
      <4> HIDE DEF BacksNext
      <4> QED
        BY <1>2, <2>3, <4>1
    <3>4. \A t \in Threads, n \in Serials :
            call'[t].at \in {"lookup", "remove"} /\ requests'[n].id = call'[t].id =>
              BacksNext(n, call'[t].result, call'[t].shares)
      <4> TAKE t \in Threads, n \in Serials
      <4>1. Backs(n, call[t].result, call[t].shares) => BacksNext(n, call[t].result, call[t].shares)
        BY <2>2, <3>1
      <4> HIDE DEF BacksNext
      <4> QED
        BY <1>2, <2>0, <2>3, <4>1
    <3> QED
      BY <2>0, <2>3, <3>2, <3>3, <3>4 DEF Backed, Backs
  \* The steps the exchange takes no part in.
  <2>4. ASSUME UNCHANGED <<exchange, left>>,
               \A n \in Serials :
                 \/ requests'[n] = requests[n]
                 \/ Backs(n, requests'[n].result, requests'[n].size),
               \A m \in replies' : m \in replies \/ (m.n \in Serials /\ Backs(m.n, m.result, m.size)),
               \A t \in Threads, n \in Serials :
                 call'[t].at \in {"lookup", "remove"} /\ requests[n].id = call'[t].id =>
                   \/ call'[t] = call[t]
                   \/ Backs(n, call'[t].result, call'[t].shares)
        PROVE  Backed'
    <3>1. \A n \in Serials : \A result, size : Backs(n, result, size) => BacksNext(n, result, size)
      BY <2>0, <2>4 DEF Backs
    <3>2. \A n \in Serials :
            /\ exchange[n] # "unsent" => exchange'[n] # "unsent" /\ left'[n] <= left[n]
            /\ exchange[n] = "filled" => exchange'[n] = "filled"
            /\ exchange'[n] # "unsent" => left'[n] \in 0..requests[n].requested
            /\ exchange'[n] = "filled" => left'[n] = 0
      BY <1>2, <2>1, <2>4
    <3> HIDE DEF BacksNext
    <3> QED
      BY <2>3, <2>4, <3>1, <3>2
  <2> HIDE DEF BacksNext
  <2>5. CASE RecordRequest
    <3>1. /\ UNCHANGED <<exchange, left, requests, replies>> /\ call'["fix"] = call["fix"]
          /\ call'["jms"].at \in {"idle", "partial", "send", "lookup"}
          /\ call'["jms"].at = "lookup" => call'["jms"].result = "REJECTED"
      BY <2>5, RecordEffect
    <3>2. \A t \in Threads, n \in Serials :
            call'[t].at \in {"lookup", "remove"} =>
              call'[t] = call[t] \/ Backs(n, call'[t].result, call'[t].shares)
      BY <3>1 DEF Threads, Backs
    <3> QED
      BY <2>4, <3>1, <3>2
  <2>6. CASE ForcePartial
    <3>1. /\ UNCHANGED <<exchange, left, requests, replies>> /\ call'["fix"] = call["fix"]
          /\ call'["jms"].at = "send"
      BY <2>6, SendEffect
    <3>2. \A t \in Threads : call'[t].at \in {"lookup", "remove"} => call'[t] = call[t]
      BY <3>1 DEF Threads
    <3> QED
      BY <2>4, <3>1, <3>2
  <2>7. CASE FillTrade
    <3>1. config.mock
      BY <2>7, SendEffect
    <3> QED
      BY <1>1, <3>1
  <2>8. CASE PlaceOrder
    <3> DEFINE c == call["jms"]
    <3>1. /\ c.at = "send" /\ c.trade \in Serials /\ requests[c.trade].id = c.id
          /\ UNCHANGED <<requests, replies>> /\ call'["fix"] = call["fix"] /\ call'["jms"] = Idle
          /\ \/ /\ exchange' = [exchange EXCEPT ![c.trade] = "working"]
                /\ left' = [left EXCEPT ![c.trade] = requests[c.trade].size]
             \/ UNCHANGED <<exchange, left>>
      BY <2>8, SendEffect
    <3>2. /\ exchange[c.trade] = "unsent" /\ requests[c.trade].size = requests[c.trade].requested
          /\ requests[c.trade].requested \in 0..MaxInt
      BY <3>1 DEF Sized, ThreadsApart, Typed, CallsTyped, Formed, Holding, Threads
    <3>3. \A t \in Threads : call'[t].at \in {"lookup", "remove"} => call'[t] = call[t]
      BY <3>1 DEF Threads, Idle
    <3> HIDE DEF c
    <3>4. \A n \in Serials :
            /\ exchange[n] # "unsent" => exchange'[n] # "unsent" /\ left'[n] <= left[n]
            /\ exchange[n] = "filled" => exchange'[n] = "filled"
            /\ exchange'[n] # "unsent" => left'[n] \in 0..requests[n].requested
            /\ exchange'[n] = "filled" => left'[n] = 0
      BY <1>0, <1>2, <2>1, <3>1, <3>2
    <3> QED
      BY <2>3, <3>1, <3>3, <3>4
  <2>9. ASSUME NEW n \in Serials, ExecutionReport(n) PROVE Backed'
    <3>1. /\ exchange[n] = "working" /\ call'["jms"] = call["jms"]
          /\ \A k \in Serials : k # n => exchange'[k] = exchange[k] /\ left'[k] = left[k]
          /\ UNCHANGED <<requests, replies>>
      BY <2>9, ReportEffect
    <3>2. /\ exchange'[n] # "unsent"
          /\ exchange'[n] = "filled" => left'[n] = 0
          /\ left'[n] \in 0..left[n]
      BY <1>2, <1>3, <2>9, <3>1, ReportEffect
    <3>3. call'["fix"].at \in {"lookup", "remove"} =>
            call'["fix"].id = requests[n].id /\ BacksNext(n, call'["fix"].result, call'["fix"].shares)
      BY <1>2, <1>3, <2>0, <2>9, <3>1, <3>2, ReportEffect DEF BacksNext
    <3>4. \A k \in Serials :
            /\ exchange[k] # "unsent" => exchange'[k] # "unsent" /\ left'[k] <= left[k]
            /\ exchange[k] = "filled" => exchange'[k] = "filled"
            /\ exchange'[k] # "unsent" => left'[k] \in 0..requests[k].requested
            /\ exchange'[k] = "filled" => left'[k] = 0
      BY <1>2, <1>3, <2>1, <3>1, <3>2
    <3>5. \A t \in Threads, k \in Serials :
            call'[t].at \in {"lookup", "remove"} /\ requests[k].id = call'[t].id =>
              \/ call'[t] = call[t]
              \/ BacksNext(k, call'[t].result, call'[t].shares)
      BY <1>3, <3>1, <3>3 DEF Threads
    <3> QED
      BY <2>3, <3>1, <3>4, <3>5
  <2>10. ASSUME NEW t \in Threads, SendTradeResponse(t) PROVE Backed'
    <3> DEFINE c == call[t]
    <3>0. /\ c.at \in Answering /\ c.id \in Ids /\ UNCHANGED <<exchange, left, replies>>
          /\ c.at # "lookup" => c.trade \in Serials /\ requests[c.trade].id = c.id
          /\ \A u \in Threads : u # t => call'[u] = call[u]
      BY <2>10, ResponseCall
    <3>1. CASE LookUp(t)
      <4>1. /\ c.at = "lookup" /\ requests' = requests
            /\ \/ call'[t].at = "idle"
               \/ call'[t].id = c.id /\ call'[t].result = c.result /\ call'[t].shares = c.shares
        BY <3>1, LookUpEffect
      <4> HIDE DEF c
      <4>2. \A u \in Threads, n \in Serials :
              call'[u].at \in {"lookup", "remove"} /\ requests[n].id = call'[u].id =>
                call'[u] = call[u] \/ Backs(n, call'[u].result, call'[u].shares)
        BY <1>2, <3>0, <4>1 DEF c
      <4> QED
        BY <2>4, <3>0, <4>1, <4>2
    <3>2. CASE RemoveTrade(t)
      <4>1. /\ c.at = "remove" /\ call'[t].at = "finish"
            /\ \A k \in Serials : k # c.trade => requests'[k] = requests[k]
            /\ requests'[c.trade].result = c.result /\ requests'[c.trade].size = c.shares
        BY <3>2, RemoveEffect
      <4>2. Backs(c.trade, requests'[c.trade].result, requests'[c.trade].size)
        BY <1>2, <3>0, <4>1
      <4> HIDE DEF c
      <4>3. \A n \in Serials : requests'[n] = requests[n] \/ Backs(n, requests'[n].result, requests'[n].size)
        BY <4>1, <4>2
      <4>4. \A u \in Threads : call'[u].at \in {"lookup", "remove"} => call'[u] = call[u]
        BY <3>0, <4>1
      <4> QED
        BY <2>4, <3>0, <4>3, <4>4
    <3>3. CASE ScheduleResponse(t)
      <4>1. /\ c.at = "finish" /\ call'[t].at = "idle"
            /\ \A k \in Serials : k # c.trade => requests'[k] = requests[k]
            /\ \/ requests'[c.trade] = requests[c.trade]
               \/ /\ forced[c.id] # Absent /\ requests[c.trade].result = "FILLED"
                  /\ requests'[c.trade].result = "PARTIALLY_FILLED"
                  /\ requests'[c.trade].size = forced[c.id]
        BY <3>3, ScheduleEffect
      <4> HIDE DEF c
      <4>2. ASSUME forced[c.id] # Absent, requests[c.trade].result = "FILLED"
            PROVE  exchange[c.trade] # "unsent" /\ forced[c.id] <= requests[c.trade].requested - left[c.trade]
        <5>1. exchange[c.trade] = "filled" /\ left[c.trade] = 0
          BY <1>2, <3>0, <4>1, <4>2 DEF Backs
        <5>2. PICK n \in 1..requestCount :
                HasData(n) /\ requests[n].id = c.id /\ forced[c.id] = PartialShares(requests[n].requested)
          BY <3>0, <4>2 DEF Sized
        <5>a. n \in Serials
          BY <1>c
        <5>b. c.trade \in Serials /\ requests[c.trade].id = c.id
          BY <3>0, <4>1
        <5>3. n = c.trade
          BY <1>3, <5>a, <5>b, <5>1, <5>2
        <5>4. requests[c.trade].requested \in 0..MaxInt
          BY <1>3, <3>0, <4>1, <5>1
        <5> QED
          BY <5>1, <5>2, <5>3, <5>4, PartialSharesSmaller
      <4>3. \A n \in Serials : requests'[n] = requests[n] \/ Backs(n, requests'[n].result, requests'[n].size)
        BY <4>1, <4>2 DEF Backs
      <4>4. \A u \in Threads : call'[u].at \in {"lookup", "remove"} => call'[u] = call[u]
        BY <3>0, <4>1
      <4> QED
        BY <2>4, <3>0, <4>3, <4>4
    <3>4. CASE LoseResponse(t)
      <4>1. call'[t].at = "idle" /\ requests' = requests
        BY <3>4, LoseEffect
      <4> QED
        BY <2>4, <3>0, <4>1
    <3> QED
      BY <2>10, <3>1, <3>2, <3>3, <3>4 DEF SendTradeResponse
  <2>11. ASSUME NEW n \in Serials, DelayedResponse(n) PROVE Backed'
    <3>1. /\ replies' \in {replies, replies \union {ReplyFor(n)}}
          /\ UNCHANGED <<requests, call, exchange, left>>
      BY <2>11, DelayedEffect
    <3>2. \A m \in replies' :
            m \in replies \/ (m.n = n /\ m.result = requests[n].result /\ m.size = requests[n].size)
      BY <3>1 DEF ReplyFor
    <3> QED
      BY <1>2, <2>4, <3>1, <3>2
  <2>12. CASE UNCHANGED vars
    BY <2>4, <2>12 DEF vars
  <2> QED
    BY <1>5, <2>5, <2>6, <2>7, <2>8, <2>9, <2>10, <2>11, <2>12 DEF Next, ProcessRequest
<1> QED
  BY <1>4, <1>5

\* In FIX mode no reply reports more shares than the exchange filled for that
\* very request, nor FILLED before all of them were: also when the two maps
\* race, replies cannot be sent, and every report is answered or lost.
THEOREM RepliesBacked == UniqueIds => (Spec => []NeverOverReports)
<1> SUFFICES ASSUME UniqueIds PROVE Spec => []NeverOverReports
  OBVIOUS
<1>1. Typed /\ Attributed /\ [Next]_vars => Attributed'
  BY AttributedNext
<1>2. Typed /\ Attributed /\ Sized /\ [Next]_vars => Sized'
  BY SizedNext
<1>3. Typed /\ Attributed /\ Sized /\ Backed /\ [Next]_vars => Backed'
  BY BackedNext
<1>4. Backed => NeverOverReports
  BY DEF Backed, Backs, NeverOverReports
<1> QED
  BY <1>1, <1>2, <1>3, <1>4, TypedInit, TypedNext, AttributedInit, SizedInit, BackedInit, PTL DEF Spec

-----------------------------------------------------------------------------
(* A reported number, against the request.                                 *)

\* A result fits a request: FILLED is for all of it, a partial fill for a
\* proper part of it as long as three times the request is an int.
Fits(result, size, asked) ==
  /\ result = "FILLED" => size = asked
  /\ result = "PARTIALLY_FILLED" /\ asked * 3 <= MaxInt =>
       0 <= size /\ (size < asked \/ asked = 0)

LEMMA PartialSharesFit ==
  ASSUME NEW asked \in 0..MaxInt
  PROVE  Fits("PARTIALLY_FILLED", PartialShares(asked), asked)
<1> USE Constants
<1> SUFFICES ASSUME asked * 3 <= MaxInt
             PROVE  LET p == PartialShares(asked) IN 0 <= p /\ (p < asked \/ asked = 0)
  BY DEF Fits
<1>1. asked * 3 \in 0..MaxInt /\ MinInt = -MaxInt - 1
  BY DEF MinInt
<1>2. Wrap(asked * 3) = asked * 3
  <2>1. ASSUME NEW y \in Nat, NEW d \in Nat \ {0}, y < d PROVE y % d = y
    BY <2>1
  <2>2. /\ asked * 3 - MinInt \in Nat /\ 2 * (MaxInt + 1) \in Nat \ {0}
        /\ asked * 3 - MinInt < 2 * (MaxInt + 1)
    BY <1>1
  <2>3. (asked * 3 - MinInt) % (2 * (MaxInt + 1)) = asked * 3 - MinInt
    BY <2>1, <2>2
  <2> QED
    BY <1>1, <2>3 DEF Wrap
<1>3. PartialShares(asked) = (asked * 3) \div 5
  BY <1>1, <1>2 DEF PartialShares, Truncated
<1> QED
  BY <1>1, <1>3

\* What the two maps may still lead to a reply fits its request: as long as a
\* request is outstanding and no report on it is being handled, the exchange
\* has filled nothing of it or everything at once, so the first report that
\* finds it is about the whole of it.
Whole ==
  /\ \A m \in replies : Fits(m.result, m.size, requests[m.n].requested)
  /\ \A n \in Serials : due[n] > 0 =>
       Fits(requests[n].result, requests[n].size, requests[n].requested)
  /\ \A t \in Threads : call[t].at = "finish" =>
       LET n == call[t].trade
       IN  Fits(requests[n].result, requests[n].size, requests[n].requested)
  /\ \A t \in Threads, n \in Serials :
       /\ call[t].at \in {"lookup", "remove"} /\ requests[n].id = call[t].id
       /\ outstanding[call[t].id] = n
       => Fits(call[t].result, call[t].shares, requests[n].requested)
  /\ \A n \in Serials :
       /\ exchange[n] = "working" /\ outstanding[requests[n].id] = n
       /\ ~(call["fix"].at \in {"lookup", "remove"} /\ call["fix"].id = requests[n].id)
       => left[n] = requests[n].requested

LEMMA WholeInit == Init => Whole
BY DEF Init, Whole, Idle, Threads

LEMMA WholeNext ==
  ASSUME UniqueIds, ~MapRaces, Typed, Attributed, Once, Sized, Whole, [Next]_vars
  PROVE  Whole'
<1> USE Constants
<1> DEFINE W1 == \A m \in replies : Fits(m.result, m.size, requests[m.n].requested)
           W2 == \A n \in Serials : due[n] > 0 =>
                   Fits(requests[n].result, requests[n].size, requests[n].requested)
           W3 == \A t \in Threads : call[t].at = "finish" =>
                   LET n == call[t].trade
                   IN  Fits(requests[n].result, requests[n].size, requests[n].requested)
           W4 == \A t \in Threads, n \in Serials :
                   /\ call[t].at \in {"lookup", "remove"} /\ requests[n].id = call[t].id
                   /\ outstanding[call[t].id] = n
                   => Fits(call[t].result, call[t].shares, requests[n].requested)
           W5 == \A n \in Serials :
                   /\ exchange[n] = "working" /\ outstanding[requests[n].id] = n
                   /\ ~(call["fix"].at \in {"lookup", "remove"} /\ call["fix"].id = requests[n].id)
                   => left[n] = requests[n].requested
<1>0. /\ requestCount \in 0..MaxRequests /\ call \in [Threads -> Calls] /\ left \in [Serials -> Int32]
      /\ outstanding \in [Ids -> {Absent, NullTrade} \union Serials] /\ due \in [Serials -> Nat]
      /\ requests \in [Serials -> Trades] /\ replies \subseteq Reply /\ forced \in [Ids -> Int32 \union {Absent}]
      /\ exchange \in [Serials -> {"unsent", "working", "filled", "closed"}]
  BY DEF Typed, TypeOK
<1>1. W1 /\ W2 /\ W3 /\ W4 /\ W5
  BY DEF Whole
<1>2. \A k, n \in Serials : requests[n].id \in Ids /\ requests[k].id = requests[n].id => k = n
  BY DEF Attributed, IdsUnique
<1>3. /\ ThreadsApart /\ TokenUnique
      /\ \A n \in Serials : exchange[n] # "unsent" => HasData(n) /\ requests[n].requested \in 0..MaxInt
  BY DEF Once, Sized, Typed, TradesTyped, Formed
<1>4. CASE Receive
  <2>1. CASE ReceiveUnusable
    BY <1>1, <2>1 DEF ReceiveUnusable, Whole
  <2>2. ASSUME NEW id, NEW trade, NEW size, Starts(id, trade, size) PROVE Whole'
    <3> DEFINE s == requestCount + 1
    <3>1. /\ s \in Serials /\ exchange[s] = "unsent" /\ ~Replied(s) /\ due[s] = 0
          /\ \A n \in 1..requestCount : n # s
          /\ requests'[s] = [id |-> id, requested |-> size, size |-> size, result |-> "null"]
          /\ \A n \in Serials : n # s => requests'[n] = requests[n]
          /\ call'["jms"].at = "put" /\ call'["fix"] = call["fix"]
          /\ call["fix"].at # "idle" => call["fix"].id # id
          /\ UNCHANGED <<exchange, left, replies, outstanding, due>>
      BY <2>2, StartEffect
    <3> HIDE DEF s
    <3>2. requests'[s].id = id
      BY <3>1
    <3>3. \A m \in replies : m.n \in Serials /\ m.n # s
      BY <1>0, <3>1 DEF Reply, Replied
    <3>4. W1' /\ W2'
      BY <1>1, <3>1, <3>3
    <3>5. \A t \in Threads : call'[t].at = "finish" =>
            call[t].at = "finish" /\ call'[t] = call[t] /\ requests'[call[t].trade] = requests[call[t].trade]
      BY <1>0, <3>1 DEF Typed, CallsTyped, Formed, Holding, Threads, Serials
    <3>6. W3'
      BY <1>1, <3>5
    <3>7. \A t \in Threads, n \in Serials :
            call'[t].at \in {"lookup", "remove"} /\ requests'[n].id = call'[t].id =>
              /\ n # s /\ call[t].at \in {"lookup", "remove"} /\ requests[n].id = call[t].id
              /\ call'[t] = call[t]
      BY <3>1, <3>2 DEF Threads
    <3>8. W4'
      BY <1>1, <3>1, <3>7
    <3>9. W5'
      BY <1>1, <3>1
    <3> QED
      BY <3>4, <3>6, <3>8, <3>9 DEF Whole
  <2> QED
    BY <1>4, <2>1, <2>2, ReceiveStarts
<1>5. CASE ~Receive
  <2>0. \A n \in Serials : requests'[n].id = requests[n].id /\ requests'[n].requested = requests[n].requested
    BY <1>5, RequestsStay
  \* What is left to show of each step.
  <2>1. ASSUME \A n \in Serials :
                 \/ requests'[n] = requests[n]
                 \/ Fits(requests'[n].result, requests'[n].size, requests[n].requested),
               \A n \in Serials : due'[n] > 0 =>
                 \/ due[n] > 0
                 \/ Fits(requests'[n].result, requests'[n].size, requests[n].requested),
               \A t \in Threads : call'[t].at = "finish" =>
                 \/ call[t].at = "finish" /\ call'[t] = call[t]
                 \/ /\ call'[t].trade \in Serials
                    /\ LET n == call'[t].trade
                       IN  Fits(requests'[n].result, requests'[n].size, requests[n].requested),
               W4', W5',
               \A m \in replies' :
                 m \in replies \/ (m.n \in Serials /\ Fits(m.result, m.size, requests[m.n].requested))
        PROVE  Whole'
    <3>1. W1'
      <4>1. \A m \in replies : m.n \in Serials
        BY <1>0 DEF Reply
      <4> QED
        BY <1>1, <2>0, <2>1, <4>1
    <3>2. W2'
      BY <1>1, <2>0, <2>1
    <3>3. W3'
      <4>1. \A t \in Threads : call[t].at = "finish" => call[t].trade \in Serials
        BY <1>0 DEF Typed, CallsTyped, Formed, Holding, Serials
      <4> QED
        BY <1>1, <2>0, <2>1, <4>1
    <3> QED
      BY <2>1, <3>1, <3>2, <3>3 DEF Whole
  <2>2. CASE RecordRequest
    <3> DEFINE c == call["jms"]
               k == requestCount + 1
    <3>1. /\ c.at = "put" /\ c.id \in Ids /\ k \in Serials /\ requests[k].id = c.id /\ c.trade \in {NullTrade, k}
          /\ call'["fix"] = call["fix"] /\ call'["jms"].at \in {"idle", "partial", "send", "lookup"}
          /\ call'["jms"].at = "lookup" => call'["jms"].result = "REJECTED"
          /\ outstanding' = [outstanding EXCEPT ![c.id] = c.trade]
          /\ UNCHANGED <<requests, exchange, left, due, replies>>
      BY <2>2, RecordEffect
    <3> HIDE DEF c, k
    <3>2. \A i \in Ids : i # c.id => outstanding'[i] = outstanding[i]
      BY <1>0, <3>1
    <3>3. \A n \in Serials : exchange[n] # "unsent" => requests[n].id \in Ids /\ requests[n].id # c.id
      BY <1>3, <3>1 DEF ThreadsApart, HasData, c
    <3>4. call["fix"].at # "idle" => call["fix"].id \in Ids /\ call["fix"].id # c.id
      BY <1>3, <3>1, FixElsewhere DEF c, Typed, CallsTyped, Threads
    <3>5. W4'
      <4> TAKE t \in Threads, n \in Serials
      <4> HAVE /\ call'[t].at \in {"lookup", "remove"} /\ requests'[n].id = call'[t].id
               /\ outstanding'[call'[t].id] = n
      <4>1. CASE t = "jms"
        BY <3>1, <4>1 DEF Fits
      <4>2. CASE t = "fix"
        BY <1>1, <3>1, <3>2, <3>4, <4>2
      <4> QED
        BY <4>1, <4>2 DEF Threads
    <3>6. W5'
      BY <1>1, <3>1, <3>2, <3>3
    <3>7. \A t \in Threads : call'[t].at = "finish" => call[t].at = "finish" /\ call'[t] = call[t]
      BY <3>1 DEF Threads
    <3> QED
      BY <2>1, <3>1, <3>5, <3>6, <3>7
  <2>3. CASE ForcePartial
    <3>1. /\ call'["fix"] = call["fix"] /\ call'["jms"].at = "send"
          /\ UNCHANGED <<requests, outstanding, exchange, left, due, replies>>
      BY <2>3, SendEffect
    <3>2. W4' /\ W5'
      BY <1>1, <3>1 DEF Threads
    <3>3. \A t \in Threads : call'[t].at = "finish" => call[t].at = "finish" /\ call'[t] = call[t]
      BY <3>1 DEF Threads
    <3> QED
      BY <2>1, <3>1, <3>2, <3>3
  <2>4. CASE FillTrade
    <3> DEFINE c == call["jms"]
    <3>1. /\ call'["fix"] = call["fix"] /\ c.at = "send" /\ c.trade \in Serials /\ c.id \in Ids
          /\ requests[c.trade].id = c.id
          /\ call'["jms"] = Responding(c.id, "FILLED", requests[c.trade].size)
          /\ UNCHANGED <<requests, outstanding, exchange, left, due, replies>>
      BY <2>4, SendEffect
    <3>2. /\ call'["jms"].at = "lookup" /\ call'["jms"].id = c.id
          /\ call'["jms"].result = "FILLED" /\ call'["jms"].shares = requests[c.trade].size
      BY <3>1 DEF Responding, Idle
    <3>3. requests[c.trade].size = requests[c.trade].requested
      BY <3>1 DEF Sized
    <3> HIDE DEF c
    <3>4. W4'
      <4> TAKE t \in Threads, n \in Serials
      <4> HAVE /\ call'[t].at \in {"lookup", "remove"} /\ requests'[n].id = call'[t].id
               /\ outstanding'[call'[t].id] = n
      <4>1. CASE t = "jms"
        <5>1. n = c.trade
          BY <1>2, <3>1, <3>2, <4>1
        <5> QED
          BY <3>1, <3>2, <3>3, <4>1, <5>1 DEF Fits
      <4>2. CASE t = "fix"
        BY <1>1, <3>1, <4>2
      <4> QED
        BY <4>1, <4>2 DEF Threads
    <3>5. W5'
      BY <1>1, <3>1
    <3>6. \A t \in Threads : call'[t].at = "finish" => call[t].at = "finish" /\ call'[t] = call[t]
      BY <3>1, <3>2 DEF Threads
    <3> QED
      BY <2>1, <3>1, <3>4, <3>5, <3>6
  <2>5. CASE PlaceOrder
    <3> DEFINE c == call["jms"]
    <3>1. /\ call'["fix"] = call["fix"] /\ c.at = "send" /\ c.trade \in Serials
          /\ call'["jms"] = Idle
          /\ \/ /\ exchange' = [exchange EXCEPT ![c.trade] = "working"]
                /\ left' = [left EXCEPT ![c.trade] = requests[c.trade].size]
             \/ UNCHANGED <<exchange, left>>
          /\ UNCHANGED <<requests, outstanding, due, replies>>
      BY <2>5, SendEffect
    <3>2. requests[c.trade].size = requests[c.trade].requested
      BY <3>1 DEF Sized
    <3>3. \A t \in Threads : call'[t].at # "idle" => call'[t] = call[t]
      BY <3>1 DEF Threads, Idle
    <3> HIDE DEF c
    <3>4. W4'
      BY <1>1, <3>1, <3>3
    <3>5. W5'
      BY <1>0, <1>1, <3>1, <3>2
    <3> QED
      BY <2>1, <3>1, <3>3, <3>4, <3>5
  <2>6. ASSUME NEW n \in Serials, ExecutionReport(n) PROVE Whole'
    <3>1. /\ exchange[n] = "working" /\ call["fix"].at = "idle" /\ call'["jms"] = call["jms"]
          /\ \A k \in Serials : k # n => exchange'[k] = exchange[k] /\ left'[k] = left[k]
          /\ UNCHANGED <<requests, outstanding, due, replies>>
      BY <2>6, ReportEffect
    <3>2. /\ requests[n].id \in Ids /\ requests[n].requested \in 0..MaxInt
          /\ outstanding[requests[n].id] = n => left[n] = requests[n].requested
      BY <1>1, <1>3, <3>1 DEF HasData
    <3>3. /\ call'["fix"].at \in {"idle", "lookup"}
          /\ call'["fix"].at = "idle" => exchange'[n] = "closed"
          /\ call'["fix"].at = "lookup" =>
               /\ call'["fix"].id = requests[n].id
               /\ call'["fix"].result = "FILLED" => call'["fix"].shares = left[n]
               /\ call'["fix"].result = "PARTIALLY_FILLED" => call'["fix"].shares \in 1..(left[n] - 1)
      BY <2>6, ReportEffect
    <3>4. outstanding[requests[n].id] = n /\ call'["fix"].at = "lookup" =>
            Fits(call'["fix"].result, call'["fix"].shares, requests[n].requested)
      BY <3>2, <3>3 DEF Fits
    <3>5. W4'
      <4> TAKE t \in Threads, k \in Serials
      <4> HAVE /\ call'[t].at \in {"lookup", "remove"} /\ requests'[k].id = call'[t].id
               /\ outstanding'[call'[t].id] = k
      <4>1. CASE t = "jms"
        BY <1>1, <3>1, <4>1
      <4>2. CASE t = "fix"
        BY <1>2, <3>1, <3>2, <3>3, <3>4, <4>2
      <4> QED
        BY <4>1, <4>2 DEF Threads
    <3>6. W5'
      BY <1>1, <3>1, <3>3
    <3>7. \A t \in Threads : call'[t].at = "finish" => call[t].at = "finish" /\ call'[t] = call[t]
      BY <3>1, <3>3 DEF Threads
    <3> QED
      BY <2>1, <3>1, <3>5, <3>6, <3>7
  <2>7. ASSUME NEW n \in Serials, DelayedResponse(n) PROVE Whole'
    <3>1. /\ due[n] > 0 /\ replies' \in {replies, replies \union {ReplyFor(n)}}
          /\ \A k \in Serials : due'[k] > 0 => due[k] > 0
          /\ UNCHANGED <<requests, outstanding, call, exchange, left>>
      BY <2>7, DelayedEffect
    <3>2. \A m \in replies' :
            m \in replies \/ (m.n = n /\ m.result = requests[n].result /\ m.size = requests[n].size)
      BY <3>1 DEF ReplyFor
    <3>3. \A m \in replies' :
            m \in replies \/ (m.n \in Serials /\ Fits(m.result, m.size, requests[m.n].requested))
      BY <1>1, <3>1, <3>2
    <3>4. W4' /\ W5'
      BY <1>1, <3>1
    <3> QED
      BY <2>1, <3>1, <3>3, <3>4
  <2>8. CASE UNCHANGED vars
    BY <1>1, <2>8 DEF vars, Whole
  <2>9. ASSUME NEW t \in Threads, SendTradeResponse(t) PROVE Whole'
    <3> DEFINE c == call[t]
    <3>0. /\ c.at \in Answering /\ c.id \in Ids /\ UNCHANGED <<exchange, left, replies>>
          /\ c.at # "lookup" => c.trade \in Serials /\ requests[c.trade].id = c.id
          /\ \A u \in Threads : u # t => call'[u] = call[u]
      BY <2>9, ResponseCall
    <3>1. CASE LookUp(t)
      <4>1. /\ c.at = "lookup" /\ UNCHANGED <<requests, outstanding, due>>
            /\ \/ call'[t].at = "idle" /\ ~Known(c.id)
               \/ /\ call'[t].at = "remove"
                  /\ call'[t].id = c.id /\ call'[t].result = c.result /\ call'[t].shares = c.shares
        BY <3>1, LookUpEffect
      <4> HIDE DEF c
      <4>2. W4'
        BY <1>1, <3>0, <4>1 DEF c
      <4>3. \A n \in Serials : ~Known(c.id) /\ requests[n].id = c.id => outstanding[requests[n].id] # n
        BY DEF Known, NullTrade, Serials
      <4>4. W5'
        BY <1>1, <3>0, <4>1, <4>3 DEF c, Threads
      <4>5. \A u \in Threads : call'[u].at = "finish" => call[u].at = "finish" /\ call'[u] = call[u]
        BY <3>0, <4>1
      <4> QED
        BY <2>1, <3>0, <4>1, <4>2, <4>4, <4>5
    <3>2. CASE RemoveTrade(t)
      <4>1. /\ c.at = "remove" /\ call'[t].at = "finish" /\ call'[t].id = c.id /\ call'[t].trade = c.trade
            /\ \A k \in Serials : k # c.trade => requests'[k] = requests[k]
            /\ requests'[c.trade].result = c.result /\ requests'[c.trade].size = c.shares
            /\ outstanding' = [outstanding EXCEPT ![c.id] = Absent] /\ due' = due
        BY <3>2, RemoveEffect
      <4>2. outstanding[c.id] = c.trade
        BY <1>3, <4>1 DEF TokenUnique
      <4> HIDE DEF c
      <4>3. Fits(requests'[c.trade].result, requests'[c.trade].size, requests[c.trade].requested)
        BY <1>1, <3>0, <4>1, <4>2 DEF c
      <4>4. outstanding'[c.id] = Absent /\ \A i \in Ids : i # c.id => outstanding'[i] = outstanding[i]
        BY <1>0, <3>0, <4>1
      <4>5. \A n \in Serials : Absent # n
        BY DEF Serials
      <4>6. W4'
        <5> TAKE u \in Threads, n \in Serials
        <5> HAVE /\ call'[u].at \in {"lookup", "remove"} /\ requests'[n].id = call'[u].id
                 /\ outstanding'[call'[u].id] = n
        <5>1. u # t /\ call'[u] = call[u] /\ call[u].id # c.id
          BY <3>0, <4>1, <4>4, <4>5
        <5>2. call[u].id \in Ids
          BY <5>1 DEF Typed, CallsTyped
        <5> QED
          BY <1>1, <2>0, <4>4, <5>1, <5>2
      <4>7. W5'
        <5> TAKE n \in Serials
        <5> HAVE /\ exchange'[n] = "working" /\ outstanding'[requests'[n].id] = n
                 /\ ~(call'["fix"].at \in {"lookup", "remove"} /\ call'["fix"].id = requests'[n].id)
        <5>1. requests[n].id \in Ids /\ requests[n].id # c.id
          BY <1>3, <2>0, <3>0, <4>4, <4>5 DEF HasData
        <5>2. call["fix"].id = requests[n].id => call'["fix"] = call["fix"]
          BY <3>0, <5>1 DEF c, Threads
        <5> QED
          BY <1>1, <2>0, <3>0, <4>4, <5>1, <5>2
      <4>8. \A n \in Serials :
              \/ requests'[n] = requests[n]
              \/ Fits(requests'[n].result, requests'[n].size, requests[n].requested)
        BY <4>1, <4>3
      <4>9. \A u \in Threads : call'[u].at = "finish" =>
              \/ call[u].at = "finish" /\ call'[u] = call[u]
              \/ /\ call'[u].trade \in Serials
                 /\ LET n == call'[u].trade
                    IN  Fits(requests'[n].result, requests'[n].size, requests[n].requested)
        BY <3>0, <4>1, <4>3
      <4> QED
        BY <2>1, <3>0, <4>1, <4>6, <4>7, <4>8, <4>9
    <3>3. CASE ScheduleResponse(t)
      <4>1. /\ c.at = "finish" /\ call'[t].at = "idle"
            /\ \A k \in Serials : k # c.trade => requests'[k] = requests[k] /\ due'[k] = due[k]
            /\ \/ requests'[c.trade] = requests[c.trade]
               \/ /\ forced[c.id] # Absent
                  /\ requests'[c.trade].result = "PARTIALLY_FILLED"
                  /\ requests'[c.trade].size = forced[c.id]
            /\ outstanding' = outstanding
        BY <3>3, ScheduleEffect
      <4>2. Fits(requests[c.trade].result, requests[c.trade].size, requests[c.trade].requested)
        BY <1>1, <4>1
      <4> HIDE DEF c
      <4>3. ASSUME forced[c.id] # Absent
            PROVE  Fits("PARTIALLY_FILLED", forced[c.id], requests[c.trade].requested)
        <5>1. PICK n \in 1..requestCount :
                HasData(n) /\ requests[n].id = c.id /\ forced[c.id] = PartialShares(requests[n].requested)
          BY <3>0, <4>3 DEF Sized
        <5>2. n \in Serials /\ n = c.trade
          BY <1>0, <1>2, <3>0, <4>1, <5>1 DEF Serials
        <5>3. requests[n].requested \in 0..MaxInt
          BY <5>1, <5>2 DEF Sized
        <5> QED
          BY <5>1, <5>2, <5>3, PartialSharesFit
      <4>4. Fits(requests'[c.trade].result, requests'[c.trade].size, requests[c.trade].requested)
        BY <4>1, <4>2, <4>3
      <4>5. \A n \in Serials :
              \/ requests'[n] = requests[n]
              \/ Fits(requests'[n].result, requests'[n].size, requests[n].requested)
        BY <4>1, <4>4
      <4>6. \A n \in Serials : due'[n] > 0 =>
              \/ due[n] > 0
              \/ Fits(requests'[n].result, requests'[n].size, requests[n].requested)
        BY <4>1, <4>4
      <4>7. \A u \in Threads : call'[u].at # "idle" => call'[u] = call[u]
        BY <3>0, <4>1
      <4>8. W4'
        BY <1>1, <2>0, <4>1, <4>7
      <4>9. W5'
        <5>1. call["fix"].at \in {"lookup", "remove"} => call'["fix"] = call["fix"]
          BY <3>0, <4>1 DEF c, Threads
        <5> QED
          BY <1>1, <2>0, <3>0, <4>1, <5>1
      <4> QED
        BY <2>1, <3>0, <4>5, <4>6, <4>7, <4>8, <4>9
    <3> QED
      BY <2>9, <3>1, <3>2, <3>3, LoseEffect DEF SendTradeResponse
  <2> QED
    BY <1>5, <2>2, <2>3, <2>4, <2>5, <2>6, <2>7, <2>8, <2>9 DEF Next, ProcessRequest
<1> QED
  BY <1>4, <1>5

\* With correlation ids that are never reused and maps that do not race, a
\* reply that says FILLED is for the whole request, and one that reports a
\* partial fill, simulated or the exchange's own, is for a proper part of it.
THEOREM RepliesFit == UniqueIds /\ ~MapRaces => (Spec => []SharesFitResult)
<1> SUFFICES ASSUME UniqueIds, ~MapRaces PROVE Spec => []SharesFitResult
  OBVIOUS
<1>1. Typed /\ Attributed /\ [Next]_vars => Attributed'
  BY AttributedNext
<1>2. Typed /\ Attributed /\ Once /\ [Next]_vars => Once'
  BY OnceNext
<1>3. Typed /\ Attributed /\ Sized /\ [Next]_vars => Sized'
  BY SizedNext
<1>4. Typed /\ Attributed /\ Once /\ Sized /\ Whole /\ [Next]_vars => Whole'
  BY WholeNext
<1>5. Whole => SharesFitResult
  BY DEF Whole, Fits, SharesFitResult
<1> QED
  BY <1>1, <1>2, <1>3, <1>4, <1>5, TypedInit, TypedNext, AttributedInit, OnceInit, SizedInit,
     WholeInit, PTL DEF Spec

-----------------------------------------------------------------------------
(* The broker implements BrokerService.                                    *)

\* A request picked for a simulated partial fill is not answered FILLED: its
\* entry in forcedPartialTrades is there before any response to it is built,
\* and is applied before the response is scheduled.
Simulated ==
  /\ \A n \in Serials : due[n] > 0 /\ Partial(n) => requests[n].result # "FILLED"
  /\ \A t \in Threads : call[t].at = "finish" /\ Partial(call[t].trade) =>
       forced[call[t].id] # Absent \/ requests[call[t].trade].result # "FILLED"
  /\ \A i \in Ids : Known(i) /\ Partial(outstanding[i]) =>
       forced[i] # Absent \/ (call["jms"].at = "partial" /\ call["jms"].id = i)

LEMMA SimulatedInit == Init => Simulated
BY Constants DEF Init, Simulated, Idle, Threads, Known, NullTrade

LEMMA SimulatedNext ==
  ASSUME UniqueIds, ~MapRaces, Typed, Attributed, Once, Simulated, [Next]_vars
  PROVE  Simulated'
<1> USE Constants
<1> DEFINE S1 == \A n \in Serials : due[n] > 0 /\ Partial(n) => requests[n].result # "FILLED"
           S2 == \A t \in Threads : call[t].at = "finish" /\ Partial(call[t].trade) =>
                   forced[call[t].id] # Absent \/ requests[call[t].trade].result # "FILLED"
           S3 == \A i \in Ids : Known(i) /\ Partial(outstanding[i]) =>
                   forced[i] # Absent \/ (call["jms"].at = "partial" /\ call["jms"].id = i)
<1>0. /\ requestCount \in 0..MaxRequests /\ call \in [Threads -> Calls] /\ due \in [Serials -> Nat]
      /\ outstanding \in [Ids -> {Absent, NullTrade} \union Serials]
      /\ forced \in [Ids -> Int32 \union {Absent}]
  BY DEF Typed, TypeOK
<1>1. S1 /\ S2 /\ S3
  BY DEF Simulated
<1>2. \A n : Partial(n) <=> Partial(n)'
  BY ConfigStays DEF Partial, Rejected
<1>3. ThreadsApart /\ TokenUnique
  BY DEF Once
\* The two threads never work on the same id.
<1>4. \A t, u \in Threads :
        t # u /\ call[t].at # "idle" /\ call[u].at # "idle" => call[t].id # call[u].id
  BY <1>3, FixElsewhere DEF Threads
<1>5. \A t \in Threads : call[t].at = "finish" =>
        call[t].trade \in Serials /\ requests[call[t].trade].id = call[t].id
  BY <1>0 DEF Typed, CallsTyped, Formed, Attributed, CallsAttributed, Holding, Serials
<1>6. CASE Receive
  <2>1. CASE ReceiveUnusable
    BY <1>1, <1>2, <2>1 DEF ReceiveUnusable, Simulated, Known
  <2>2. ASSUME NEW id, NEW trade, NEW size, Starts(id, trade, size) PROVE Simulated'
    <3> DEFINE s == requestCount + 1
    <3>1. /\ s \in Serials /\ due[s] = 0 /\ \A n \in 1..requestCount : n # s
          /\ \A n \in Serials : n # s => requests'[n] = requests[n]
          /\ call["jms"].at = "idle" /\ call'["jms"].at = "put" /\ call'["fix"] = call["fix"]
          /\ UNCHANGED <<outstanding, forced, due>>
      BY <2>2, StartEffect
    <3> HIDE DEF s
    <3>2. S1'
      BY <1>1, <1>2, <3>1
    <3>3. \A t \in Threads : call'[t].at = "finish" =>
            call[t].at = "finish" /\ call'[t] = call[t] /\ requests'[call[t].trade] = requests[call[t].trade]
      BY <1>0, <3>1 DEF Typed, CallsTyped, Formed, Holding, Threads, Serials
    <3>4. S2'
      BY <1>1, <1>2, <3>1, <3>3
    <3>5. S3'
      BY <1>1, <1>2, <3>1 DEF Known
    <3> QED
      BY <3>2, <3>4, <3>5 DEF Simulated
  <2> QED
    BY <1>6, <2>1, <2>2, ReceiveStarts
\* The steps of a request until its order is placed or filled.
<1>7. ASSUME UNCHANGED <<requests, due>>, call'["fix"] = call["fix"],
             call["jms"].at \in {"put", "partial", "send"}, call'["jms"].at # "finish",
             \A i \in Ids : i # call["jms"].id => forced'[i] = forced[i], S3'
      PROVE  Simulated'
  <2>1. S1'
    BY <1>1, <1>2, <1>7
  <2>2. \A t \in Threads : call'[t].at = "finish" =>
          /\ call[t].at = "finish" /\ call'[t] = call[t]
          /\ forced'[call[t].id] = forced[call[t].id]
    <3>1. call["fix"].at = "finish" => call["fix"].id \in Ids /\ call["fix"].id # call["jms"].id
      BY <1>4, <1>7 DEF Typed, CallsTyped, Threads
    <3> QED
      BY <1>7, <3>1 DEF Threads
  <2>3. S2'
    BY <1>1, <1>2, <1>7, <2>2
  <2> QED
    BY <1>7, <2>1, <2>3 DEF Simulated
<1>8. CASE RecordRequest
  <2> DEFINE c == call["jms"]
             k == requestCount + 1
  <2>1. /\ c.at = "put" /\ c.id \in Ids /\ c.trade \in {NullTrade, k}
        /\ call'["fix"] = call["fix"] /\ call'["jms"].at \in {"idle", "partial", "send", "lookup"}
        /\ call'["jms"].at # "idle" => call'["jms"].id = c.id
        /\ c.trade = k /\ Partial(k) => call'["jms"].at = "partial"
        /\ outstanding' = [outstanding EXCEPT ![c.id] = c.trade]
        /\ UNCHANGED <<requests, forced, due>>
    BY <1>8, RecordEffect
  <2>2. \A i \in Ids : outstanding'[i] = IF i = c.id THEN c.trade ELSE outstanding[i]
    BY <1>0, <2>1
  <2>3. S3'
    <3> TAKE i \in Ids
    <3> HAVE Known(i)' /\ Partial(outstanding[i])'
    <3>1. CASE i = c.id
      <4>1. c.trade = k /\ Partial(k)
        <5> HIDE DEF c, k
        <5>1. outstanding'[i] = c.trade /\ outstanding'[i] > NullTrade
          BY <2>2, <3>1 DEF Known
        <5>2. c.trade = k
          BY <2>1, <5>1 DEF NullTrade
        <5>3. Partial(outstanding[i])' => Partial(outstanding'[i])
          BY <1>2
        <5> QED
          BY <5>1, <5>2, <5>3
      <4> QED
        BY <2>1, <3>1, <4>1
    <3>2. CASE i # c.id
      BY <1>1, <1>2, <2>1, <2>2, <3>2 DEF Known
    <3> QED
      BY <3>1, <3>2
  <2> QED
    BY <1>7, <2>1, <2>3
<1>9. CASE ForcePartial
  <2> DEFINE c == call["jms"]
  <2>1. /\ c.at = "partial" /\ c.id \in Ids /\ c.trade \in Serials /\ c.trade \in 1..requestCount
        /\ call'["fix"] = call["fix"] /\ call'["jms"].at = "send"
        /\ forced' = [forced EXCEPT ![c.id] = PartialShares(requests[c.trade].size)]
        /\ UNCHANGED <<requests, outstanding, due>>
    BY <1>9, SendEffect
  <2>2. PartialShares(requests[c.trade].size) # Absent
    BY <2>1, PartialSharesInt DEF Typed, CallsTyped, Formed, HasData, Holding, Threads
  <2>3. forced'[c.id] # Absent /\ \A i \in Ids : i # c.id => forced'[i] = forced[i]
    BY <1>0, <2>1, <2>2
  <2>4. S3'
    BY <1>1, <1>2, <2>1, <2>3 DEF Known
  <2> QED
    BY <1>7, <2>1, <2>3, <2>4
<1>10. CASE FillTrade \/ PlaceOrder
  <2>1. /\ call["jms"].at = "send" /\ call'["fix"] = call["fix"] /\ UNCHANGED <<requests, outstanding, forced, due>>
        /\ (call'["jms"] = Idle \/ \E i, x : call'["jms"] = Responding(i, "FILLED", x))
    BY <1>10, SendEffect
  <2>2. call'["jms"].at \notin {"partial", "finish"}
    <3>1. Idle.at = "idle" /\ \A i, x : Responding(i, "FILLED", x).at = "lookup"
      BY DEF Responding, Idle
    <3> QED
      BY <2>1, <3>1
  <2>3. S3'
    BY <1>1, <1>2, <2>1 DEF Known
  <2> QED
    BY <1>7, <2>1, <2>2, <2>3
<1>11. ASSUME NEW n \in Serials, ExecutionReport(n) PROVE Simulated'
  <2>1. /\ call'["jms"] = call["jms"] /\ call'["fix"].at \in {"idle", "lookup"}
        /\ UNCHANGED <<requests, outstanding, forced, due>>
    BY <1>11, ReportEffect
  <2>2. \A t \in Threads : call'[t].at = "finish" => call[t].at = "finish" /\ call'[t] = call[t]
    BY <2>1 DEF Threads
  <2>3. S1' /\ S2' /\ S3'
    BY <1>1, <1>2, <2>1, <2>2 DEF Known
  <2> QED
    BY <2>3 DEF Simulated
<1>12. ASSUME NEW n \in Serials, DelayedResponse(n) PROVE Simulated'
  <2>1. /\ \A k \in Serials : due'[k] > 0 => due[k] > 0
        /\ UNCHANGED <<requests, outstanding, forced, call>>
    BY <1>12, DelayedEffect
  <2>2. S1' /\ S2' /\ S3'
    BY <1>1, <1>2, <2>1 DEF Known
  <2> QED
    BY <2>2 DEF Simulated
<1>13. CASE UNCHANGED vars
  BY <1>1, <1>2, <1>13 DEF vars, Simulated, Known
<1>14. ASSUME NEW t \in Threads, SendTradeResponse(t) PROVE Simulated'
  <2> DEFINE c == call[t]
  <2>0. /\ c.at \in Answering /\ c.id \in Ids /\ \A u \in Threads : u # t => call'[u] = call[u]
        /\ c.at # "lookup" => c.trade \in Serials /\ requests[c.trade].id = c.id
    BY <1>14, ResponseCall
  <2>1. (t # "jms" /\ call'["jms"] = call["jms"]) \/ call["jms"].at # "partial"
    BY <2>0 DEF Answering, Threads
  \* The other thread, about to schedule, does it for another Trade.
  <2>2. ASSUME NEW u \in Threads, u # t, call'[u].at = "finish"
        PROVE  /\ call'[u] = call[u] /\ call[u].id # c.id /\ call[u].id \in Ids
               /\ call[u].trade \in Serials /\ requests[call[u].trade].id # c.id
    BY <1>4, <1>5, <2>0, <2>2 DEF Answering, Typed, CallsTyped
  <2>3. CASE LookUp(t)
    <3>1. call'[t].at \in {"idle", "remove"} /\ UNCHANGED <<requests, outstanding, forced, due>>
      BY <2>3, LookUpEffect
    <3>2. S1' /\ S2' /\ S3'
      BY <1>1, <1>2, <2>0, <2>1, <3>1 DEF Known
    <3> QED
      BY <3>2 DEF Simulated
  <2>4. CASE RemoveTrade(t)
    <3>1. /\ c.at = "remove" /\ call'[t].at = "finish" /\ call'[t].id = c.id /\ call'[t].trade = c.trade
          /\ \A k \in Serials : k # c.trade => requests'[k] = requests[k]
          /\ outstanding' = [outstanding EXCEPT ![c.id] = Absent]
          /\ UNCHANGED <<forced, due>>
      BY <2>4, RemoveEffect
    <3>2. /\ outstanding[c.id] = c.trade /\ c.trade \in Serials /\ Known(c.id) /\ due[c.trade] = 0
      BY <1>3, <2>0, <3>1 DEF TokenUnique, Known, NullTrade, Serials
    <3>3. ~(call["jms"].at = "partial" /\ call["jms"].id = c.id)
      BY <1>4, <2>0, <3>1 DEF Threads
    <3>4. Partial(c.trade) => forced[c.id] # Absent
      BY <1>1, <2>0, <3>2, <3>3
    <3> HIDE DEF c
    <3>5. outstanding'[c.id] = Absent /\ \A i \in Ids : i # c.id => outstanding'[i] = outstanding[i]
      BY <1>0, <2>0, <3>1
    <3>6. S1'
      BY <1>1, <1>2, <3>1, <3>2
    <3>7. S2'
      <4> TAKE u \in Threads
      <4> HAVE call'[u].at = "finish" /\ Partial(call[u].trade)'
      <4>1. CASE u = t
        BY <1>2, <3>1, <3>4, <4>1
      <4>2. CASE u # t
        <5>1. call[u].trade # c.trade
          BY <2>0, <2>2, <3>1, <4>2
        <5> QED
          BY <1>1, <1>2, <2>2, <3>1, <4>2, <5>1
      <4> QED
        BY <4>1, <4>2
    <3>8. S3'
      BY <1>1, <1>2, <2>1, <3>1, <3>5 DEF Known, NullTrade
    <3> QED
      BY <3>6, <3>7, <3>8 DEF Simulated
  <2>5. CASE ScheduleResponse(t)
    <3>1. /\ c.at = "finish" /\ call'[t].at = "idle" /\ c.trade \in Serials
          /\ \A k \in Serials : k # c.trade => requests'[k] = requests[k] /\ due'[k] = due[k]
          /\ outstanding' = outstanding
      BY <2>0, <2>5, ScheduleEffect
    <3>2. \/ /\ requests'[c.trade].result # "FILLED"
             /\ forced' = [forced EXCEPT ![c.id] = Absent]
          \/ /\ forced[c.id] = Absent
             /\ requests' = requests /\ forced' = forced
      BY <2>5, ScheduleEffect
    <3>3. outstanding[c.id] = Absent
      BY <1>3, <3>1 DEF TokenUnique
    <3>4. Partial(c.trade) => requests'[c.trade].result # "FILLED"
      BY <1>1, <3>1, <3>2
    <3> HIDE DEF c
    <3>5. \A i \in Ids : i # c.id => forced'[i] = forced[i]
      BY <1>0, <3>2
    <3>6. S1'
      BY <1>1, <1>2, <3>1, <3>4
    <3>7. S2'
      <4> TAKE u \in Threads
      <4> HAVE call'[u].at = "finish" /\ Partial(call[u].trade)'
      <4>1. u # t
        BY <3>1
      <4>2. call[u].trade # c.trade
        BY <2>0, <2>2, <3>1, <4>1
      <4> QED
        BY <1>1, <1>2, <2>2, <3>1, <3>5, <4>1, <4>2
    <3>8. S3'
      BY <1>1, <1>2, <2>1, <3>1, <3>3, <3>5 DEF Known, NullTrade
    <3> QED
      BY <3>6, <3>7, <3>8 DEF Simulated
  <2> QED
    BY <1>14, <2>3, <2>4, <2>5, LoseEffect DEF SendTradeResponse
<1> QED
  BY <1>6, <1>8, <1>9, <1>10, <1>11, <1>12, <1>13, <1>14 DEF Next, ProcessRequest

\* The service's view of a request, of the requests and of the replies.
AskedOf(n) == [n |-> n, id |-> requests[n].id, size |-> requests[n].requested]
Asked      == {AskedOf(n) : n \in {k \in 1..requestCount : requests[k].requested # Absent}}
AnswerOf(m) == [n |-> m.n, id |-> m.id, result |-> m.result, size |-> m.size]
Answers    == {AnswerOf(m) : m \in replies}

LEMMA ServiceInit == Init => Service!Init
<1> SUFFICES ASSUME Init PROVE Service!Init
  OBVIOUS
<1>1. requestCount = 0 /\ replies = {} /\ config \in Configs
  BY DEF Init
<1>2. 1..requestCount = {}
  BY <1>1
<1> QED
  BY <1>1, <1>2 DEF Service!Init

\* The step the service knows as the arrival of a request: the broker counts it.
LEMMA ServiceAsks ==
  ASSUME Typed, Attributed, RecordRequest
  PROVE  [Service!Next]_(Service!vars)
<1> USE Constants
<1> DEFINE s == requestCount + 1
<1>1. /\ s \in Serials /\ requestCount' = s /\ requestCount \in Nat
      /\ UNCHANGED <<config, requests, replies>>
  BY RecordEffect
<1>2. 1..s = 1..requestCount \union {s} /\ s \notin 1..requestCount
  BY <1>1
<1>3. requests[s] \in Trades
  BY <1>1 DEF Typed, TypeOK
<1> HIDE DEF s
<1>4. CASE requests[s].requested = Absent
  <2>1. {k \in 1..requestCount' : requests'[k].requested # Absent}
          = {k \in 1..requestCount : requests[k].requested # Absent}
    BY <1>1, <1>2, <1>4
  <2>2. UNCHANGED Service!vars
    BY <1>1, <2>1 DEF Service!vars
  <2> QED
    BY <2>2
<1>5. CASE requests[s].requested # Absent
  <2>1. {k \in 1..requestCount' : requests'[k].requested # Absent}
          = {k \in 1..requestCount : requests[k].requested # Absent} \union {s}
    BY <1>1, <1>2, <1>5
  <2>2. Asked' = Asked \union {AskedOf(s)} /\ Answers' = Answers
    BY <1>1, <2>1 DEF Asked, AskedOf, Answers, AnswerOf
  <2>3. \A q \in Asked : q.n # s
    BY <1>2 DEF Asked, AskedOf
  <2>4. requests[s].id \in Ids \union {NoId} /\ requests[s].requested \in Int32
    BY <1>3, <1>5 DEF Trades
  <2>5. \E id \in Ids \union {NoId}, size \in Int32 :
          Asked' = Asked \union {[n |-> s, id |-> id, size |-> size]}
    BY <2>2, <2>4 DEF AskedOf
  <2>6. config' = config /\ Answers' = Answers
    BY <1>1, <2>2
  <2>7. \E n \in Serials : Service!Ask(n)
    BY <1>1, <2>3, <2>5, <2>6 DEF Service!Ask, Asked, AskedOf, Answers, AnswerOf
  <2> QED
    BY <2>7 DEF Service!Next
<1> QED
  BY <1>4, <1>5

\* The step the service knows as a reply: the timer's thread sends it.
LEMMA ServiceReplies ==
  ASSUME Typed, Attributed, Once, Sized, Simulated, NEW n \in Serials, DelayedResponse(n)
  PROVE  [Service!Next]_(Service!vars)
<1> USE Constants
<1> DEFINE q == AskedOf(n)
           r == requests[n]
           a == [n |-> n, id |-> r.id, result |-> r.result, size |-> r.size]
<1>1. /\ due[n] > 0 /\ Formed(n) /\ n \in 1..requestCount
      /\ replies' \in {replies, replies \union {ReplyFor(n)}}
      /\ UNCHANGED <<config, requestCount, requests>>
  BY DelayedEffect
<1>2. r.size \in Int32 /\ r.result \in Results /\ r.requested \in 0..MaxInt
  BY <1>1 DEF Typed, TypeOK, Formed, HasData, Sized, Trades
<1>3. q \in Asked
  BY <1>1, <1>2 DEF Asked, AskedOf, Int32
<1>4. \A x \in Answers : x.n # n
  <2>1. due[n] = 1 /\ ~Replied(n)
    BY <1>1 DEF Once, TokenUnique
  <2> QED
    BY <2>1 DEF Answers, AnswerOf, Replied
<1>5. EveryNth(config.failOncePer, n) => r.result = "REJECTED" /\ r.size = r.requested
  BY <1>1 DEF Attributed, RejectionsStay, Rejected, Failed
<1>6. EveryNth(config.partialOncePer, n) => r.result # "FILLED"
  BY <1>1, <1>5 DEF Simulated, Partial, Rejected
<1>7. Asked' = Asked
  BY <1>1 DEF Asked, AskedOf
<1>8. CASE replies' = replies
  <2>1. UNCHANGED Service!vars
    BY <1>1, <1>8 DEF Service!vars
  <2> QED
    BY <2>1
<1>9. CASE replies' = replies \union {ReplyFor(n)}
  <2>1. AnswerOf(ReplyFor(n)) = a
    BY DEF AnswerOf, ReplyFor
  <2>2. Answers' = Answers \union {a}
    BY <1>9, <2>1 DEF Answers, AnswerOf
  <2>3. q.n = n /\ q.id = r.id /\ q.size = r.requested
    BY DEF AskedOf
  <2>4. Service!Allowed(q, r.result, r.size)
    BY <1>5, <1>6, <2>3 DEF Service!Allowed, Service!EveryNth, EveryNth
  <2> HIDE DEF q
  <2>5. \E result \in Results, size \in Int32 :
          /\ Service!Allowed(q, result, size)
          /\ Answers' = Answers \union {[n |-> q.n, id |-> q.id, result |-> result, size |-> size]}
    BY <1>2, <2>2, <2>3, <2>4
  <2>6. config' = config /\ Asked' = Asked
    BY <1>1, <1>7
  <2>7. \A x \in Answers : x.n # q.n
    BY <1>4, <2>3
  <2>8. \E p \in Asked : Service!Reply(p)
    BY <1>3, <2>5, <2>6, <2>7 DEF Service!Reply, Answers, AnswerOf, Asked, AskedOf
  <2> QED
    BY <2>8 DEF Service!Next, Asked, AskedOf
<1> QED
  BY <1>1, <1>8, <1>9

LEMMA ServiceNext ==
  ASSUME UniqueIds, ~MapRaces, Typed, Attributed, Once, Sized, Simulated, [Next]_vars
  PROVE  [Service!Next]_(Service!vars)
<1> USE Constants
<1>0. requestCount \in 0..MaxRequests
  BY DEF Typed, TypeOK
\* No other step is seen: what a request asked for stays, and no reply is sent.
<1>1. ASSUME UNCHANGED <<requestCount, replies>>,
             \A n \in 1..requestCount :
               requests'[n].id = requests[n].id /\ requests'[n].requested = requests[n].requested
      PROVE  [Service!Next]_(Service!vars)
  <2>1. config' = config
    BY ConfigStays
  <2>2. {k \in 1..requestCount' : requests'[k].requested # Absent}
          = {k \in 1..requestCount : requests[k].requested # Absent}
    BY <1>1
  <2>3. Asked' = Asked /\ Answers' = Answers
    BY <1>1, <2>2 DEF Asked, AskedOf, Answers, AnswerOf
  <2>4. UNCHANGED Service!vars
    BY <2>1, <2>3 DEF Service!vars, Asked, AskedOf, Answers, AnswerOf
  <2> QED
    BY <2>4
<1>2. \A n \in 1..requestCount : n \in Serials
  BY <1>0 DEF Serials
<1>3. ASSUME ~Receive, UNCHANGED <<requestCount, replies>>
      PROVE  [Service!Next]_(Service!vars)
  BY <1>1, <1>2, <1>3, RequestsStay
<1>4. CASE Receive
  <2>1. CASE ReceiveUnusable
    BY <1>1, <2>1 DEF ReceiveUnusable
  <2>2. ASSUME NEW id, NEW trade, NEW size, Starts(id, trade, size)
        PROVE  [Service!Next]_(Service!vars)
    <3>1. /\ \A n \in 1..requestCount : requests'[n] = requests[n]
          /\ UNCHANGED <<requestCount, replies>>
      BY <1>2, <2>2, StartEffect
    <3> QED
      BY <1>1, <3>1
  <2> QED
    BY <1>4, <2>1, <2>2, ReceiveStarts
<1>5. CASE ~Receive
  <2>1. CASE RecordRequest
    BY <2>1, ServiceAsks
  <2>2. CASE ForcePartial \/ FillTrade \/ PlaceOrder
    <3>1. UNCHANGED <<requestCount, replies>>
      BY <2>2, SendEffect
    <3> QED
      BY <1>3, <1>5, <3>1
  <2>3. ASSUME NEW n \in Serials, ExecutionReport(n) PROVE [Service!Next]_(Service!vars)
    <3>1. UNCHANGED <<requestCount, replies>>
      BY <2>3, ReportEffect
    <3> QED
      BY <1>3, <1>5, <3>1
  <2>4. ASSUME NEW t \in Threads, SendTradeResponse(t) PROVE [Service!Next]_(Service!vars)
    <3>1. UNCHANGED <<requestCount, replies>>
      BY <2>4, ResponseCall
    <3> QED
      BY <1>3, <1>5, <3>1
  <2>5. ASSUME NEW n \in Serials, DelayedResponse(n) PROVE [Service!Next]_(Service!vars)
    BY <2>5, ServiceReplies
  <2>6. CASE UNCHANGED vars
    BY <1>3, <1>5, <2>6 DEF vars
  <2> QED
    BY <1>5, <2>1, <2>2, <2>3, <2>4, <2>5, <2>6 DEF Next, ProcessRequest
<1> QED
  BY <1>4, <1>5

\* With correlation ids that are never reused and maps that do not race, the
\* broker implements BrokerService: every step is the arrival of a request, a
\* reply the service allows, or invisible to the clients.
THEOREM ImplementsService == UniqueIds /\ ~MapRaces => (Spec => ServiceSpec)
<1> SUFFICES ASSUME UniqueIds, ~MapRaces PROVE Spec => ServiceSpec
  OBVIOUS
<1>1. Typed /\ Attributed /\ [Next]_vars => Attributed'
  BY AttributedNext
<1>2. Typed /\ Attributed /\ Once /\ [Next]_vars => Once'
  BY OnceNext
<1>3. Typed /\ Attributed /\ Sized /\ [Next]_vars => Sized'
  BY SizedNext
<1>4. Typed /\ Attributed /\ Once /\ Simulated /\ [Next]_vars => Simulated'
  BY SimulatedNext
<1>5. Typed /\ Attributed /\ Once /\ Sized /\ Simulated /\ [Next]_vars => [Service!Next]_(Service!vars)
  BY ServiceNext
<1> QED
  BY <1>1, <1>2, <1>3, <1>4, <1>5, TypedInit, TypedNext, AttributedInit, OnceInit, SizedInit,
     SimulatedInit, ServiceInit, PTL DEF Spec, ServiceSpec, Service!Spec
=============================================================================
