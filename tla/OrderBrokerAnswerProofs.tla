---------------------- MODULE OrderBrokerAnswerProofs ----------------------
(***************************************************************************)
(* The safety half of the broker's promise to answer: as long as replies   *)
(* can be sent, a request that parsed is never forgotten, whatever the two *)
(* threads and the exchange do in between. Once says that the right to     *)
(* answer a request exists at most once; Held says that it exists at least *)
(* once, and that a thread has taken it up when there is an answer to give. *)
(***************************************************************************)
EXTENDS OrderBrokerSharesProofs

USE DEF maps, market, sent, Remembered, Forgotten, Consumed

\* A request without text is a null Trade from the start, and one with text
\* has its data by the time it is counted.
Texts ==
  /\ call["jms"].at = "put" /\ call["jms"].trade = NullTrade =>
       requests[requestCount + 1].requested = Absent
  /\ \A n \in 1..requestCount : requests[n].requested # Absent => HasData(n)

\* A thread has the Trade and is about to schedule its reply.
Finishing(n) == \E t \in Threads : call[t].at = "finish" /\ call[t].trade = n

\* A thread works under the id of the request.
Working(n) == \E t \in Threads : call[t].at # "idle" /\ call[t].id = requests[n].id

\* The request is held, in one of the four places the reply comes from.
HeldAt(n) ==
  \/ Replied(n) \/ due[n] > 0 \/ Finishing(n)
  \/ outstanding[requests[n].id] = n /\ (MustAnswer(n) => Working(n))

Held == \A n \in 1..requestCount : requests[n].requested # Absent => HeldAt(n)

LEMMA HeldInit == Init => Texts /\ Held
BY DEF Init, Texts, Held, Idle, Threads

\* A request without text arrives as a null Trade, and its Trade object stays
\* as it is until it is counted.
LEMMA TextsNext ==
  ASSUME UniqueIds, Typed, Attributed, Texts, [Next]_vars
  PROVE  Texts'
<1> USE Constants
<1>0. requestCount \in 0..MaxRequests /\ \A n \in 1..requestCount : n \in Serials
  BY DEF Typed, TypeOK, Serials
<1>1. CASE Receive
  <2>1. CASE ReceiveUnusable
    BY <2>1 DEF ReceiveUnusable, Texts, HasData
  <2>2. ASSUME NEW id, NEW trade, NEW size, Starts(id, trade, size)
        PROVE  /\ trade = NullTrade => requests'[requestCount' + 1].requested = Absent
               /\ call'["jms"].trade = trade /\ requestCount' = requestCount
               /\ \A n \in 1..requestCount : requests'[n] = requests[n]
    <3>1. trade = NullTrade => size = Absent
      BY <2>2 DEF Starts
    <3>2. /\ requests'[requestCount + 1] = [id |-> id, requested |-> size, size |-> size, result |-> "null"]
          /\ \A n \in Serials : n # requestCount + 1 => requests'[n] = requests[n]
          /\ call'["jms"].trade = trade /\ requestCount' = requestCount
      BY <2>2, StartEffect
    <3>3. \A n \in 1..requestCount : n # requestCount + 1
      BY <1>0
    <3> QED
      BY <1>0, <3>1, <3>2, <3>3
  <2>3. ASSUME NEW id, NEW trade, NEW size, Starts(id, trade, size) PROVE Texts'
    BY <2>2, <2>3 DEF Texts, HasData
  <2> QED
    BY <1>1, <2>1, <2>3, ReceiveStarts
<1>2. CASE ~Receive
  <2>1. \A n \in Serials :
          /\ requests'[n].requested = requests[n].requested
          /\ HasData(n) <=> HasData(n)'
    BY <1>2, RequestsStay
  <2>2. CASE RecordRequest
    <3> DEFINE s == requestCount + 1
    <3>1. /\ requestCount' = s /\ s \in Serials /\ call["jms"].at = "put"
          /\ call'["jms"].at # "put" /\ call["jms"].trade \in {NullTrade, s}
      BY <2>2, RecordEffect
    <3>2. requests[s].requested # Absent => HasData(s)
      BY <3>1 DEF Typed, CallsTyped, Texts
    <3>3. \A n \in 1..requestCount' : n \in 1..requestCount \/ n = s
      BY <1>0, <3>1
    <3> QED
      BY <1>0, <2>1, <3>1, <3>2, <3>3 DEF Texts
  <2>3. CASE ~RecordRequest
    <3>1. /\ requestCount' = requestCount
          /\ call'["jms"].at = "put" => call["jms"].at = "put" /\ call'["jms"].trade = call["jms"].trade
      <4>1. CASE ForcePartial \/ FillTrade \/ PlaceOrder
        <5>1. /\ requestCount' = requestCount
              /\ \/ call'["jms"].at = "send" \/ call'["jms"] = Idle
                 \/ \E i, x : call'["jms"] = Responding(i, "FILLED", x)
          BY <4>1, SendEffect
        <5>2. Idle.at = "idle" /\ \A i, x : Responding(i, "FILLED", x).at = "lookup"
          BY DEF Responding, Idle
        <5> QED
          BY <5>1, <5>2
      <4>2. ASSUME NEW n \in Serials, ExecutionReport(n)
            PROVE  call'["jms"] = call["jms"] /\ requestCount' = requestCount
        BY <4>2, ReportEffect
      <4>3. ASSUME NEW t \in Threads, SendTradeResponse(t)
            PROVE  /\ requestCount' = requestCount
                   /\ call'["jms"] = call["jms"] \/ call'["jms"].at # "put"
        BY <4>3, ResponseCall, LookUpEffect, RemoveEffect, ScheduleEffect, LoseEffect
           DEF SendTradeResponse, Threads
      <4>4. ASSUME NEW n \in Serials, DelayedResponse(n)
            PROVE  call' = call /\ requestCount' = requestCount
        BY <4>4, DelayedEffect
      <4> QED
        BY <1>2, <2>3, <4>1, <4>2, <4>3, <4>4 DEF Next, ProcessRequest, vars
    <3>2. call["jms"].at = "put" => requestCount + 1 \in Serials
      BY <1>0 DEF Typed, CallsTyped, Serials
    <3> QED
      BY <1>0, <2>1, <3>1, <3>2 DEF Texts
  <2> QED
    BY <2>2, <2>3
<1> QED
  BY <1>1, <1>2

\* The steps that leave a held request where it is, or pass it on.
LEMMA HeldNext ==
  ASSUME UniqueIds, ~MapRaces, ~SendFails, Typed, Attributed, Once, Texts, Held, [Next]_vars
  PROVE  Held'
<1> USE Constants
<1>0. /\ requestCount \in 0..MaxRequests /\ \A n \in 1..requestCount : n \in Serials
      /\ outstanding \in [Ids -> {Absent, NullTrade} \union Serials]
      /\ due \in [Serials -> Nat] /\ call \in [Threads -> Calls]
      /\ ThreadsApart /\ TokenUnique /\ IdsUnique /\ CallsAttributed
  BY DEF Typed, TypeOK, Serials, Once, Attributed
<1>a. \A n \in 1..requestCount : requests[n].requested # Absent =>
        n \in Serials /\ requests[n].id \in Ids /\ requests[n].id # NoId /\ HeldAt(n)
  BY <1>0 DEF Held, Texts, HasData
\* The two threads never work on the same id.
<1>b. \A t, u \in Threads :
        t # u /\ call[t].at # "idle" /\ call[u].at # "idle" => call[t].id # call[u].id
  BY <1>0 DEF ThreadsApart, CallsAttributed, Threads
<1>1. CASE Receive
  <2>1. CASE ReceiveUnusable
    BY <2>1 DEF ReceiveUnusable, Held, HeldAt, Finishing, Working, MustAnswer, Replied, Rejected
  <2>2. ASSUME NEW id, NEW trade, NEW size, Starts(id, trade, size) PROVE Held'
    <3>1. /\ \A n \in 1..requestCount : requests'[n] = requests[n]
          /\ call["jms"].at = "idle" /\ call'["fix"] = call["fix"]
          /\ UNCHANGED <<config, requestCount, outstanding, exchange, due, replies>>
      BY <1>0, <2>2, StartEffect
    <3> QED
      BY <3>1 DEF Held, HeldAt, Finishing, Working, MustAnswer, Replied, Rejected, Threads
  <2> QED
    BY <1>1, <2>1, <2>2, ReceiveStarts
\* What a request asked for, and the id it came under, stay.
<1>2. CASE ~Receive
  <2>0. /\ \A n \in Serials :
             requests'[n].id = requests[n].id /\ requests'[n].requested = requests[n].requested
        /\ config' = config
    BY <1>2, RequestsStay, ConfigStays
  \* A step that counts no request: what it has to show of one that is held.
  <2>1. ASSUME requestCount' = requestCount,
               \A n \in 1..requestCount : n \in Serials /\ requests[n].id \in Ids /\ HeldAt(n) => HeldAt(n)'
        PROVE  Held'
    <3> SUFFICES ASSUME NEW n \in 1..requestCount', requests'[n].requested # Absent PROVE HeldAt(n)'
      BY DEF Held
    <3>1. n \in 1..requestCount
      BY <2>1
    <3>2. requests[n].requested # Absent
      BY <1>0, <2>0, <3>1
    <3> QED
      BY <1>a, <2>1, <3>1, <3>2
  <2>2. CASE RecordRequest
    <3> DEFINE c == call["jms"]
               s == requestCount + 1
    <3>1. /\ s \in Serials /\ requestCount' = s /\ requestCount \in Nat
          /\ c.at = "put" /\ c.id \in Ids /\ requests[s].id = c.id
          /\ c.trade \in {NullTrade, s} /\ (c.trade = s => call'["jms"].at # "idle" /\ call'["jms"].id = c.id)
          /\ call'["fix"] = call["fix"] /\ outstanding' = [outstanding EXCEPT ![c.id] = c.trade]
          /\ UNCHANGED <<config, requests, exchange, due, replies>>
      BY <2>2, RecordEffect
    <3>2. requests[s].requested # Absent => c.trade = s
      BY <3>1 DEF Texts
    <3> HIDE DEF c, s
    <3>3. /\ outstanding'[c.id] = c.trade /\ \A i \in Ids : i # c.id => outstanding'[i] = outstanding[i]
      BY <1>0, <3>1
    <3>4. ASSUME NEW n \in Serials, n = s, requests[n].requested # Absent PROVE HeldAt(n)'
      <4>1. Working(n)'
        BY <3>1, <3>2, <3>4 DEF Working, Threads
      <4> QED
        BY <3>1, <3>2, <3>3, <3>4, <4>1 DEF HeldAt
    <3>5. ASSUME NEW n \in 1..requestCount, requests[n].requested # Absent PROVE HeldAt(n)'
      <4>1. n # s /\ n \in Serials /\ requests[n].id \in Ids /\ HeldAt(n) /\ requests[n].id # c.id
        BY <1>0, <1>a, <3>1, <3>5 DEF IdsUnique, s
      <4>2. outstanding'[requests[n].id] = outstanding[requests[n].id]
        BY <3>3, <4>1
      <4>3. MustAnswer(n)' => MustAnswer(n)
        BY <3>1 DEF MustAnswer, Rejected
      <4> QED
        BY <3>1, <4>1, <4>2, <4>3 DEF HeldAt, Finishing, Working, Replied, Threads, c
    <3>6. \A n \in 1..requestCount' : n \in 1..requestCount \/ n = s
      BY <3>1 DEF s
    <3> QED
      BY <3>1, <3>4, <3>5, <3>6 DEF Held
  <2>3. CASE ForcePartial \/ FillTrade
    <3>1. /\ call["jms"].at \in {"partial", "send"} /\ call'["fix"] = call["fix"]
          /\ call'["jms"].at \in {"send", "lookup"} /\ call'["jms"].id = call["jms"].id
          /\ UNCHANGED <<requestCount, requests, outstanding, exchange, due, replies>>
      <4>1. CASE ForcePartial
        BY <4>1, SendEffect
      <4>2. CASE FillTrade
        <5>1. \A i, x : Responding(i, "FILLED", x).at = "lookup" /\ Responding(i, "FILLED", x).id = i
          BY DEF Responding, Idle
        <5> QED
          BY <4>2, <5>1, SendEffect
      <4> QED
        BY <2>3, <4>1, <4>2
    <3> QED
      BY <2>0, <2>1, <3>1 DEF HeldAt, Finishing, Working, MustAnswer, Replied, Rejected, Threads
  <2>4. CASE PlaceOrder
    <3> DEFINE c == call["jms"]
    <3>1. /\ ~config.mock /\ c.at = "send" /\ c.id \in Ids /\ c.trade \in Serials
          /\ requests[c.trade].id = c.id /\ ~Rejected(c.trade) /\ exchange[c.trade] = "unsent"
          /\ call'["fix"] = call["fix"]
          /\ \A n \in Serials : n # c.trade => exchange'[n] = exchange[n]
          /\ exchange'[c.trade] # "filled"
          /\ UNCHANGED <<requestCount, requests, outstanding, due, replies>>
      BY <1>0, <2>4, SendEffect DEF Typed, TypeOK, CallsAttributed, ThreadsApart
    <3> HIDE DEF c
    <3>2. \A n \in Serials : requests[n].id = c.id => n = c.trade
      BY <1>0, <3>1 DEF IdsUnique
    <3>3. \A n \in Serials : n = c.trade => ~MustAnswer(n)'
      BY <2>0, <3>1 DEF MustAnswer, Rejected
    <3> QED
      BY <2>0, <2>1, <3>1, <3>2, <3>3 DEF HeldAt, Finishing, Working, MustAnswer, Replied, Rejected, Threads, c
  <2>5. ASSUME NEW n \in Serials, ExecutionReport(n) PROVE Held'
    <3>1. /\ call["fix"].at = "idle" /\ call'["jms"] = call["jms"]
          /\ \A k \in Serials : k # n => exchange'[k] = exchange[k]
          /\ exchange'[n] = "filled" => call'["fix"].at = "lookup" /\ call'["fix"].id = requests[n].id
          /\ UNCHANGED <<requestCount, requests, outstanding, due, replies>>
      BY <2>5, ReportEffect
    <3> QED
      BY <2>0, <2>1, <3>1 DEF HeldAt, Finishing, Working, MustAnswer, Replied, Rejected, Threads
  <2>6. ASSUME NEW t \in Threads, SendTradeResponse(t) PROVE Held'
    <3> DEFINE i == call[t].id
               k == call[t].trade
    <3>1. /\ call[t].at \in Answering /\ i \in Ids
          /\ call[t].at # "lookup" => k \in Serials /\ requests[k].id = i
          /\ \A u \in Threads : u # t => call'[u] = call[u]
          /\ UNCHANGED <<requestCount, exchange, replies>>
      BY <2>6, ResponseCall
    <3>2. ASSUME NEW n \in Serials PROVE MustAnswer(n)' => MustAnswer(n)
      BY <2>0, <3>1 DEF MustAnswer, Rejected
    \* Whoever holds another request still does.
    <3>3. ASSUME NEW n \in Serials, requests[n].id \in Ids, HeldAt(n), requests[n].id # i,
                 due'[n] = due[n], outstanding'[requests[n].id] = outstanding[requests[n].id]
          PROVE  HeldAt(n)'
      <4>1. Working(n) => Working(n)'
        BY <2>0, <3>1, <3>3 DEF Working
      <4>2. Finishing(n) => Finishing(n)'
        BY <3>1, <3>3 DEF Finishing, Answering
      <4> QED
        BY <2>0, <3>1, <3>2, <3>3, <4>1, <4>2 DEF HeldAt, Replied
    <3> HIDE DEF i, k
    <3>4. ASSUME NEW n \in Serials, requests[n].id = i, HeldAt(n), call[t].at # "lookup" PROVE n = k
      BY <1>0, <3>1, <3>4 DEF IdsUnique
    <3>5. CASE LookUp(t)
      <4>1. /\ call[t].at = "lookup" /\ UNCHANGED <<outstanding, due>>
            /\ Known(i) => call'[t].at = "remove" /\ call'[t].id = i
        BY <3>5, LookUpEffect DEF i
      <4>2. ASSUME NEW n \in Serials, requests[n].id = i, HeldAt(n) PROVE HeldAt(n)'
        <5>1. outstanding[i] = n => Working(n)'
          BY <2>0, <4>1, <4>2 DEF Known, Working, NullTrade, Serials
        <5>2. Finishing(n) => Finishing(n)'
          BY <3>1, <4>1 DEF Finishing
        <5> QED
          BY <2>0, <3>1, <4>1, <4>2, <5>1, <5>2 DEF HeldAt, Replied
      <4> QED
        BY <2>1, <3>1, <3>3, <4>1, <4>2
    <3>6. CASE RemoveTrade(t)
      <4>1. /\ call[t].at = "remove" /\ call'[t].at = "finish" /\ call'[t].trade = k
            /\ outstanding' = [outstanding EXCEPT ![i] = Absent] /\ due' = due
        BY <3>6, RemoveEffect DEF i, k
      <4>2. ASSUME NEW n \in Serials, requests[n].id = i, HeldAt(n) PROVE HeldAt(n)'
        <5>1. n = k
          BY <3>4, <4>1, <4>2
        <5>2. Finishing(n)'
          BY <4>1, <5>1 DEF Finishing
        <5> QED
          BY <5>2 DEF HeldAt
      <4>3. \A x \in Ids : x # i => outstanding'[x] = outstanding[x]
        BY <1>0, <4>1
      <4> QED
        BY <2>1, <3>1, <3>3, <4>1, <4>2, <4>3
    <3>7. CASE ScheduleResponse(t)
      <4>1. /\ call[t].at = "finish" /\ outstanding' = outstanding
            /\ due'[k] = due[k] + 1 /\ \A n \in Serials : n # k => due'[n] = due[n]
        BY <3>7, ScheduleEffect DEF k
      <4>2. ASSUME NEW n \in Serials, n = k PROVE HeldAt(n)'
        BY <1>0, <4>1, <4>2 DEF HeldAt
      <4>3. ASSUME NEW n \in Serials, requests[n].id = i, HeldAt(n) PROVE n = k
        BY <3>4, <4>1, <4>3
      <4>4. requests[k].id = i
        BY <3>1, <4>1
      <4> QED
        BY <2>1, <3>1, <3>3, <4>1, <4>2, <4>3, <4>4
    <3>8. CASE LoseResponse(t)
      BY <3>8, LoseEffect
    <3> QED
      BY <2>6, <3>5, <3>6, <3>7, <3>8 DEF SendTradeResponse
  <2>7. ASSUME NEW n \in Serials, DelayedResponse(n) PROVE Held'
    <3>1. /\ n \in 1..requestCount
          /\ UNCHANGED <<config, requestCount, requests, outstanding, call, exchange>>
      BY <2>7, DelayedEffect
    <3>2. /\ \A k \in Serials : k # n => due'[k] = due[k]
          /\ replies' = replies \union {ReplyFor(n)} /\ ReplyFor(n).n = n
      BY <1>0, <2>7, ~SendFails DEF DelayedResponse, ReplyFor
    <3>3. \A k \in Serials : Replied(k) \/ k = n => Replied(k)'
      BY <3>2 DEF Replied
    <3> QED
      BY <2>1, <3>1, <3>2, <3>3 DEF HeldAt, Finishing, Working, MustAnswer, Rejected
  <2>8. CASE UNCHANGED vars
    BY <2>8 DEF vars, Held, HeldAt, Finishing, Working, MustAnswer, Replied, Rejected
  <2> QED
    BY <1>2, <2>2, <2>3, <2>4, <2>5, <2>6, <2>7, <2>8 DEF Next, ProcessRequest
<1> QED
  BY <1>1, <1>2

\* With correlation ids that are never reused, maps that do not race and
\* replies that can be sent, the broker forgets no request: every path through
\* the two maps, the two threads and the timer keeps hold of it.
THEOREM AnswersKept == UniqueIds /\ ~MapRaces /\ ~SendFails => (Spec => []NothingForgotten)
<1> SUFFICES ASSUME UniqueIds, ~MapRaces, ~SendFails PROVE Spec => []NothingForgotten
  OBVIOUS
<1>1. Typed /\ Attributed /\ [Next]_vars => Attributed'
  BY AttributedNext
<1>2. Typed /\ Attributed /\ Once /\ [Next]_vars => Once'
  BY OnceNext
<1>3. Typed /\ Attributed /\ Texts /\ [Next]_vars => Texts'
  BY TextsNext
<1>4. Typed /\ Attributed /\ Once /\ Texts /\ Held /\ [Next]_vars => Held'
  BY HeldNext
<1>5. Held => NothingForgotten
  BY DEF Held, HeldAt, Finishing, Working, NothingForgotten
<1> QED
  BY <1>1, <1>2, <1>3, <1>4, <1>5, TypedInit, TypedNext, AttributedInit, OnceInit, HeldInit, PTL DEF Spec
=============================================================================
