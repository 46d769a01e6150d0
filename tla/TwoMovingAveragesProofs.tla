---------------------- MODULE TwoMovingAveragesProofs ----------------------
(***************************************************************************)
(* Invariance proofs for TwoMovingAverages, for every number of message     *)
(* beans, timers and orders.                                                *)
(***************************************************************************)
EXTENDS TwoMovingAverages, Integers, FiniteSetTheorems, TLAPS

USE DEF Timers, Orders, Sides, NoTimer, IfNotMonitoring, intake

Starting == {b \in Beans : bean[b] = "start"}
Busy     == {b \in Beans : bean[b] # "idle"}

AtAnOrder == TimerAt \ {"new", "waiting", "next", "dead"}

\* The list has no more orders than were received and not given up, which is
\* what keeps it within the bound on messages.
Counted == stored + Cardinality(Busy) <= received

\* An iterator is never further than one behind the list it was made for, and
\* a thread that examines an order is at one that is in the list.
Walks ==
  \A t \in Timers :
    /\ timer[t].at = "next" => timer[t].size <= stored /\ timer[t].i <= timer[t].size + 1
    /\ timer[t].at \in AtAnOrder => timer[t].size <= stored /\ timer[t].i <= timer[t].size

TypeInv == TypeOK /\ Counted /\ Walks

-----------------------------------------------------------------------------
\* How many beans are in onMessage, after each of their steps.
LEMMA BusyCounts ==
  /\ IsFiniteSet(Busy) /\ Cardinality(Busy) \in Nat
  /\ \A b \in Busy : Cardinality(Busy \ {b}) = Cardinality(Busy) - 1
  /\ \A b \in Beans \ Busy : Cardinality(Busy \union {b}) = Cardinality(Busy) + 1
<1>1. IsFiniteSet(Busy)
  BY BeansAssumption, FS_Subset DEF Busy
<1> QED
  BY <1>1, FS_CardinalityType, FS_AddElement, FS_RemoveElement

LEMMA StartingCounts ==
  /\ IsFiniteSet(Starting) /\ Cardinality(Starting) \in Nat
  /\ Cardinality(Starting) <= Cardinality(Beans) /\ Cardinality(Beans) \in Nat
  /\ \A b \in Starting : Cardinality(Starting \ {b}) = Cardinality(Starting) - 1
<1>1. IsFiniteSet(Starting) /\ Cardinality(Starting) <= Cardinality(Beans)
  BY BeansAssumption, FS_Subset DEF Starting
<1> QED
  BY <1>1, BeansAssumption, FS_CardinalityType, FS_RemoveElement

\* A bean's step leaves averages and flags alone; it changes one bean, and a
\* timer only to start it.
LEMMA CountedNext == ASSUME TypeOK, Counted, [Next]_vars PROVE Counted'
<1>0. /\ stored \in Nat /\ received \in Nat /\ Cardinality(Busy) \in Nat
  BY BusyCounts DEF TypeOK
<1>1. ASSUME NEW b \in Beans, BeanStep(b) PROVE Counted'
  <2>1. CASE ReceiveOrder(b)
    <3>1. b \notin Busy /\ Busy' = Busy \union {b}
      BY <2>1 DEF ReceiveOrder, Busy, TypeOK
    <3>2. Cardinality(Busy') = Cardinality(Busy) + 1
      BY <3>1, BusyCounts
    <3> QED
      BY <1>0, <2>1, <3>2 DEF ReceiveOrder, Counted
  <2>2. CASE StartMonitoring(b)
    <3>1. Busy' = Busy
      BY <2>2 DEF StartMonitoring, Busy, TypeOK
    <3> QED
      BY <2>2, <3>1 DEF StartMonitoring, Counted
  <2>3. CASE StartNewTrade(b) \/ FailToStart(b)
    <3>1. b \in Busy /\ Busy' = Busy \ {b}
      BY <2>3 DEF StartNewTrade, FailToStart, Busy, TypeOK
    <3>2. Cardinality(Busy') = Cardinality(Busy) - 1
      BY <3>1, BusyCounts
    <3> QED
      BY <1>0, <2>3, <3>2 DEF StartNewTrade, FailToStart, Counted
  <2> QED
    BY <1>1, <2>1, <2>2, <2>3 DEF BeanStep
<1>2. ASSUME NEW t \in Timers, TimerStep(t) PROVE Counted'
  <2>1. UNCHANGED <<bean, stored, received>>
    BY <1>2 DEF TimerStep, Begin, NextOrder, Quote, MissQuote, CompareLong, CompareShort, Test, Buy, NoBuy,
       SellBought, NotBought, SellShort, NoSellShort, BuyBack, NotSold, Looks, Signal
  <2> QED
    BY <2>1 DEF Counted, Busy
<1>3. CASE UNCHANGED vars
  BY <1>3 DEF vars, Counted, Busy
<1> QED
  BY <1>1, <1>2, <1>3 DEF Next

\* What a step of a timer does to it: a new iterator, the next order, a step
\* within the examination of an order, or the end of the list.
Restarts(t) == timer'[t] = [at |-> "next", i |-> 1, size |-> stored]
Advances(t) ==
  /\ timer[t].at \in AtAnOrder
  /\ timer'[t] = [timer[t] EXCEPT !.at = "next", !.i = @ + 1]
Examines(t) ==
  /\ timer[t].at \in AtAnOrder
  /\ \E a \in AtAnOrder \union {"dead"} : timer'[t] = [timer[t] EXCEPT !.at = a]
Leaves(t) ==
  /\ timer[t].at = "next"
  /\ \/ \E a \in {"waiting", "dead"} : timer'[t] = [timer[t] EXCEPT !.at = a]
     \/ timer[t].i <= timer[t].size /\ timer'[t] = [timer[t] EXCEPT !.at = "quote"]

\* It moves this timer alone.
LEMMA TimerMoves ==
  ASSUME TypeOK, Walks, NEW t \in Timers, TimerStep(t)
  PROVE  /\ \A o \in Timers \ {t} : timer'[o] = timer[o]
         /\ timer' = [timer EXCEPT ![t] = timer'[t]]
         /\ Restarts(t) \/ Advances(t) \/ Examines(t) \/ Leaves(t)
<1>0. /\ timer \in [Timers -> [at : TimerAt, i : 1..(MaxOrders + 1), size : 0..MaxOrders]]
      /\ stored \in Nat /\ timer[t].i \in Nat /\ timer[t].size \in Nat
  BY BoundsAssumption DEF TypeOK
<1>1. CASE Begin(t)
  BY <1>0, <1>1 DEF Begin, Restarts
<1>2. CASE NextOrder(t)
  <2>1. CASE timer[t].i = stored + 1
    BY <1>0, <1>2, <2>1 DEF NextOrder, Goes, Leaves
  <2>2. CASE timer[t].i # stored + 1 /\ timer[t].size # stored
    BY <1>0, <1>2, <2>2 DEF NextOrder, Goes, Leaves
  <2>3. CASE timer[t].i # stored + 1 /\ timer[t].size = stored
    <3>1. timer' = [timer EXCEPT ![t].at = "quote"] /\ timer[t].at = "next"
      BY <1>2, <2>3 DEF NextOrder, Goes
    <3>2. timer[t].i <= timer[t].size
      BY <1>0, <2>3, <3>1 DEF Walks
    <3> QED
      BY <1>0, <3>1, <3>2 DEF Leaves
  <2> QED
    BY <2>1, <2>2, <2>3
<1>3. CASE Quote(t) \/ MissQuote(t)
  BY <1>0, <1>3 DEF Quote, MissQuote, Goes, AtAnOrder, TimerAt, Advances, Examines
<1>4. CASE CompareLong(t) \/ CompareShort(t)
  BY <1>0, <1>4 DEF CompareLong, CompareShort, Goes, Continue, AtAnOrder, TimerAt, Advances, Examines
<1>5. CASE Test(t, "buy?", "buy", "bought?", "still above?") \/ Test(t, "sell?", "sell", "sold?", "still below?")
  BY <1>0, <1>5 DEF Test, Goes, AtAnOrder, TimerAt, Advances, Examines
<1>6. CASE Buy(t) \/ SellBought(t) \/ SellShort(t) \/ BuyBack(t)
  BY <1>0, <1>6 DEF Buy, SellBought, SellShort, BuyBack, Signal, Dies, Goes, AtAnOrder, TimerAt, Advances, Examines
<1>7. CASE NoBuy(t) \/ NoSellShort(t)
  BY <1>0, <1>7 DEF NoBuy, NoSellShort, Goes, AtAnOrder, TimerAt, Advances, Examines
<1>8. CASE NotBought(t) \/ NotSold(t)
  BY <1>0, <1>8 DEF NotBought, NotSold, Continue, AtAnOrder, TimerAt, Advances, Examines
<1> QED
  BY <1>1, <1>2, <1>3, <1>4, <1>5, <1>6, <1>7, <1>8 DEF TimerStep

\* And to the rest: it adds flags, or changes the average, of the order it is at.
LEMMA TimerWrites ==
  ASSUME TypeOK, NEW t \in Timers, TimerStep(t)
  PROVE  /\ UNCHANGED <<isMonitoring, received, bean, started, stored>>
         /\ side' \in [Orders -> Sides] /\ flags' \in [Orders -> SUBSET {"buy", "sell", "short"}]
<1>0. side \in [Orders -> Sides] /\ flags \in [Orders -> SUBSET {"buy", "sell", "short"}]
  BY DEF TypeOK
<1>1. CASE Quote(t)
  BY <1>0, <1>1 DEF Quote
<1>2. CASE Buy(t) \/ SellBought(t) \/ SellShort(t) \/ BuyBack(t)
  <2>1. CASE Buy(t) \/ SellBought(t)
    BY <1>0, <2>1 DEF Buy, SellBought, Signal
  <2>2. CASE SellShort(t) \/ BuyBack(t)
    BY <1>0, <2>2 DEF SellShort, BuyBack, Signal
  <2> QED
    BY <1>2, <2>1, <2>2
<1>3. CASE Begin(t) \/ NextOrder(t) \/ MissQuote(t) \/ CompareLong(t) \/ CompareShort(t)
           \/ Test(t, "buy?", "buy", "bought?", "still above?")
           \/ Test(t, "sell?", "sell", "sold?", "still below?")
           \/ NoBuy(t) \/ NotBought(t) \/ NoSellShort(t) \/ NotSold(t)
  BY <1>0, <1>3 DEF Begin, NextOrder, MissQuote, CompareLong, CompareShort, Test, NoBuy, NotBought,
     NoSellShort, NotSold, Looks
<1> QED
  BY <1>1, <1>2, <1>3 DEF TimerStep

LEMMA TypeNext == ASSUME TypeInv, [Next]_vars PROVE TypeInv'
<1>0. /\ TypeOK /\ Counted /\ Walks
      /\ timer \in [Timers -> [at : TimerAt, i : 1..(MaxOrders + 1), size : 0..MaxOrders]]
      /\ stored \in 0..MaxOrders /\ received \in 0..MaxOrders /\ started \in 0..MaxTimers
      /\ bean \in [Beans -> {"idle", "start", "add"}]
      /\ MaxOrders \in Nat /\ MaxTimers \in Nat
      /\ Cardinality(Busy) \in Nat
  BY BusyCounts, BoundsAssumption DEF TypeInv, TypeOK
<1>1. Counted'
  BY <1>0, CountedNext
<1>2. ASSUME NEW b \in Beans, BeanStep(b) PROVE TypeOK' /\ Walks'
  <2>1. CASE ReceiveOrder(b)
    <3>1. received' \in 0..MaxOrders /\ bean' \in [Beans -> {"idle", "start", "add"}]
      BY <1>0, <2>1 DEF ReceiveOrder
    <3> QED
      BY <1>0, <2>1, <3>1 DEF ReceiveOrder, TypeOK, Walks
  <2>2. CASE StartMonitoring(b)
    <3>1. /\ started' \in 0..MaxTimers /\ started + 1 \in Timers
          /\ bean' \in [Beans -> {"idle", "start", "add"}]
      BY <1>0, <2>2 DEF StartMonitoring
    <3>2. timer' \in [Timers -> [at : TimerAt, i : 1..(MaxOrders + 1), size : 0..MaxOrders]]
      <4>1. timer' = [timer EXCEPT ![started + 1].at = "waiting"]
        BY <2>2 DEF StartMonitoring
      <4>2. "waiting" \in TimerAt
        BY DEF TimerAt
      <4> QED
        BY ONLY <1>0, <3>1, <4>1, <4>2
    <3>3. \A t \in Timers : timer'[t] = timer[t] \/ timer'[t].at = "waiting"
      BY <1>0, <2>2, <3>1 DEF StartMonitoring
    <3>4. Walks'
      BY <1>0, <2>2, <3>3 DEF StartMonitoring, Walks, AtAnOrder
    <3> QED
      BY <1>0, <2>2, <3>1, <3>2, <3>4 DEF StartMonitoring, TypeOK
  <2>3. CASE StartNewTrade(b)
    <3>1. b \in Busy
      BY <2>3 DEF StartNewTrade, Busy
    <3>2. Cardinality(Busy) >= 1
      <4>1. Cardinality(Busy \ {b}) = Cardinality(Busy) - 1 /\ IsFiniteSet(Busy \ {b})
        BY <3>1, BusyCounts, FS_RemoveElement
      <4>2. Cardinality(Busy \ {b}) \in Nat
        BY <4>1, FS_CardinalityType
      <4> QED
        BY <1>0, <4>1, <4>2
    <3>3. stored + 1 \in 0..MaxOrders
      BY <1>0, <3>2 DEF Counted
    <3>4. Walks'
      BY <1>0, <2>3 DEF StartNewTrade, Walks, AtAnOrder
    <3> QED
      BY <1>0, <2>3, <3>3, <3>4 DEF StartNewTrade, TypeOK
  <2>4. CASE FailToStart(b)
    BY <1>0, <2>4 DEF FailToStart, TypeOK, Walks
  <2> QED
    BY <1>2, <2>1, <2>2, <2>3, <2>4 DEF BeanStep
<1>3. ASSUME NEW t \in Timers, TimerStep(t) PROVE TypeOK' /\ Walks'
  <2>1. /\ UNCHANGED <<isMonitoring, received, bean, started, stored>>
        /\ side' \in [Orders -> Sides] /\ flags' \in [Orders -> SUBSET {"buy", "sell", "short"}]
    BY <1>0, <1>3, TimerWrites
  <2>2. /\ timer[t].i \in 1..(MaxOrders + 1) /\ timer[t].size \in 0..MaxOrders /\ timer[t].at \in TimerAt
        /\ timer[t].at \in AtAnOrder => timer[t].size <= stored /\ timer[t].i <= timer[t].size
        /\ timer[t].at = "next" => timer[t].size <= stored /\ timer[t].i <= timer[t].size + 1
    BY <1>0 DEF Walks
  <2>3. Restarts(t) \/ Advances(t) \/ Examines(t) \/ Leaves(t)
    BY <1>0, <1>3, TimerMoves
  <2> DEFINE Sound == /\ timer'[t] \in [at : TimerAt, i : 1..(MaxOrders + 1), size : 0..MaxOrders]
                      /\ timer'[t].at = "next" => timer'[t].size <= stored /\ timer'[t].i <= timer'[t].size + 1
                      /\ timer'[t].at \in AtAnOrder => timer'[t].size <= stored /\ timer'[t].i <= timer'[t].size
  <2>4. Sound
    <3>0. timer[t] \in [at : TimerAt, i : 1..(MaxOrders + 1), size : 0..MaxOrders]
      BY <1>0
    <3>1. CASE Restarts(t)
      <4>0. "next" \in TimerAt /\ "next" \notin AtAnOrder
        BY DEF TimerAt, AtAnOrder
      <4>1. stored \in 0..MaxOrders /\ 1 \in 1..(MaxOrders + 1)
        BY <1>0
      <4>2. timer'[t] = [at |-> "next", i |-> 1, size |-> stored]
        BY <3>1 DEF Restarts
      <4>3. timer'[t].at = "next" /\ timer'[t].i = 1 /\ timer'[t].size = stored
        BY <4>2
      <4>4. timer'[t].size <= stored /\ timer'[t].i <= timer'[t].size + 1
        BY <4>1, <4>3
      <4> QED
        BY <4>0, <4>1, <4>2, <4>3, <4>4
    <3>2. CASE Advances(t)
      <4>1. /\ timer[t].at \in AtAnOrder
            /\ timer'[t].at = "next" /\ timer'[t].i = timer[t].i + 1 /\ timer'[t].size = timer[t].size
            /\ timer'[t] \in [at : TimerAt, i : 1..(MaxOrders + 1), size : 0..MaxOrders]
        <5>1. timer[t].at \in AtAnOrder /\ timer'[t] = [timer[t] EXCEPT !.at = "next", !.i = @ + 1]
          BY <3>2 DEF Advances
        <5>2. timer[t].i \in 1..MaxOrders
          <6>1. /\ timer[t].i <= timer[t].size /\ timer[t].size \in 0..MaxOrders
                /\ timer[t].i \in 1..(MaxOrders + 1) /\ MaxOrders \in Nat
            BY <1>0, <2>2, <5>1
          <6> QED
            BY <6>1
        <5>3. timer[t].i + 1 \in 1..(MaxOrders + 1)
          BY <1>0, <5>2
        <5>4. "next" \in TimerAt
          BY DEF TimerAt
        <5> QED
          BY <3>0, <5>1, <5>3, <5>4
      <4> QED
        BY <1>0, <2>2, <4>1 DEF AtAnOrder
    <3>3. CASE Examines(t)
      <4>1. PICK a \in AtAnOrder \union {"dead"} : timer'[t] = [timer[t] EXCEPT !.at = a]
        BY <3>3 DEF Examines
      <4>2. timer[t].at \in AtAnOrder /\ a \in TimerAt /\ a # "next"
        BY <3>3, <4>1 DEF Examines, TimerAt, AtAnOrder
      <4>3. /\ timer'[t].at = a /\ timer'[t].i = timer[t].i /\ timer'[t].size = timer[t].size
            /\ timer'[t] \in [at : TimerAt, i : 1..(MaxOrders + 1), size : 0..MaxOrders]
        BY <3>0, <4>1, <4>2
      <4> QED
        BY <2>2, <4>2, <4>3
    <3>4. CASE Leaves(t)
      BY <1>0, <2>2, <3>0, <3>4 DEF Leaves, TimerAt, AtAnOrder
    <3> QED
      BY <2>3, <3>1, <3>2, <3>3, <3>4
  <2>5. /\ timer' \in [Timers -> [at : TimerAt, i : 1..(MaxOrders + 1), size : 0..MaxOrders]]
        /\ \A o \in Timers \ {t} : timer'[o] = timer[o]
    <3>1. timer' = [timer EXCEPT ![t] = timer'[t]] /\ \A o \in Timers \ {t} : timer'[o] = timer[o]
      BY <1>0, <1>3, TimerMoves
    <3> QED
      BY <1>0, <2>4, <3>1
  <2>6. Walks'
    BY <1>0, <2>1, <2>4, <2>5 DEF Walks
  <2> QED
    BY <1>0, <2>1, <2>5, <2>6 DEF TypeOK
<1>4. CASE UNCHANGED vars
  <2>1. Walks'
    BY <1>0, <1>4 DEF vars, Walks
  <2>2. TypeOK'
    <3>1. UNCHANGED vars /\ TypeOK
      BY <1>0, <1>4
    <3> QED
      BY ONLY <3>1, SMT DEF vars, TypeOK
  <2> QED
    BY <1>1, <2>1, <2>2 DEF TypeInv
<1> QED
  BY <1>1, <1>2, <1>3, <1>4 DEF Next, TypeInv

LEMMA InitTypes == Init => TypeInv
<1> SUFFICES ASSUME Init PROVE TypeInv
  OBVIOUS
<1>1. Busy = {}
  BY DEF Init, Busy
<1>2. Counted
  BY <1>1, FS_EmptySet DEF Init, Counted
<1>3. Walks
  BY DEF Init, Walks, AtAnOrder
<1>4. TypeOK
  <2>1. timer \in [Timers -> [at : TimerAt, i : 1..(MaxOrders + 1), size : 0..MaxOrders]]
    <3>1. NoTimer \in [at : TimerAt, i : 1..(MaxOrders + 1), size : 0..MaxOrders]
      BY BoundsAssumption DEF TimerAt
    <3> QED
      BY <3>1 DEF Init
  <2>2. 0 \in 0..MaxOrders /\ 0 \in 0..MaxTimers
    BY BoundsAssumption
  <2>3. side \in [Orders -> Sides] /\ flags \in [Orders -> SUBSET {"buy", "sell", "short"}]
    BY DEF Init
  <2> QED
    BY <2>1, <2>2, <2>3 DEF Init, TypeOK
<1> QED
  BY <1>2, <1>3, <1>4 DEF TypeInv

\* The variables keep their types: no thread examines an order that is not in
\* the list, although the list has no lock.
THEOREM TypeCorrect == Spec => []TypeOK
<1>1. Init => TypeInv
  BY InitTypes
<1>2. TypeInv => TypeOK
  BY DEF TypeInv
<1> QED
  BY <1>1, <1>2, TypeNext, PTL DEF Spec

-----------------------------------------------------------------------------
(* TimerPerBean. Every bean between its test and its start counts as a timer. *)

TimersOfBeans ==
  /\ ~isMonitoring => started = 0
  /\ started + Cardinality(Starting) <= Cardinality(Beans)

LEMMA TimersOfBeansNext == ASSUME TypeOK, TimersOfBeans, [Next]_vars PROVE TimersOfBeans'
<1>0. started \in Nat /\ Cardinality(Starting) \in Nat /\ Cardinality(Beans) \in Nat
  BY StartingCounts DEF TypeOK
<1>1. ASSUME NEW b \in Beans, BeanStep(b) PROVE TimersOfBeans'
  <2>1. CASE ReceiveOrder(b)
    <3>1. CASE isMonitoring
      <4>1. Starting' = Starting
        BY <2>1, <3>1 DEF ReceiveOrder, Starting, TypeOK
      <4> QED
        BY <2>1, <3>1, <4>1 DEF ReceiveOrder, TimersOfBeans
    <3>2. CASE ~isMonitoring
      <4>1. started' = 0 /\ isMonitoring' = isMonitoring
        BY <2>1, <3>2 DEF ReceiveOrder, TimersOfBeans
      <4>2. IsFiniteSet(Starting') /\ Cardinality(Starting') <= Cardinality(Beans)
        BY BeansAssumption, FS_Subset DEF Starting
      <4>3. Cardinality(Starting') \in Nat
        BY <4>2, FS_CardinalityType
      <4> QED
        BY <1>0, <4>1, <4>2, <4>3 DEF TimersOfBeans
    <3> QED
      BY <3>1, <3>2
  <2>2. CASE StartMonitoring(b)
    <3>1. b \in Starting /\ Starting' = Starting \ {b}
      BY <2>2 DEF StartMonitoring, Starting, TypeOK
    <3>2. Cardinality(Starting') = Cardinality(Starting) - 1
      BY <3>1, StartingCounts
    <3> QED
      BY <1>0, <2>2, <3>2 DEF StartMonitoring, TimersOfBeans
  <2>3. CASE StartNewTrade(b) \/ FailToStart(b)
    <3>1. Starting' = Starting
      BY <2>3 DEF StartNewTrade, FailToStart, Starting, TypeOK
    <3> QED
      BY <2>3, <3>1 DEF StartNewTrade, FailToStart, TimersOfBeans
  <2> QED
    BY <1>1, <2>1, <2>2, <2>3 DEF BeanStep
<1>2. ASSUME NEW t \in Timers, TimerStep(t) PROVE TimersOfBeans'
  <2>1. UNCHANGED <<isMonitoring, bean, started>>
    BY <1>2, TimerWrites
  <2> QED
    BY <2>1 DEF TimersOfBeans, Starting
<1>3. CASE UNCHANGED vars
  BY <1>3 DEF vars, TimersOfBeans, Starting
<1> QED
  BY <1>1, <1>2, <1>3 DEF Next

\* However the beans' tests of isMonitoring and their starts interleave, there
\* are never more timers than beans: the ones that may disturb each other.
THEOREM OnePerBean == Spec => []TimerPerBean
<1>1. Init => TimersOfBeans
  <2> SUFFICES ASSUME Init PROVE TimersOfBeans
    OBVIOUS
  <2>1. Starting = {}
    BY DEF Init, Starting
  <2>2. Cardinality(Beans) \in Nat
    BY StartingCounts
  <2> QED
    BY <2>1, <2>2, FS_EmptySet DEF Init, TimersOfBeans
<1>2. TypeOK /\ TimersOfBeans => TimerPerBean
  <2> SUFFICES ASSUME TypeOK, TimersOfBeans PROVE TimerPerBean
    OBVIOUS
  <2>1. started \in Nat /\ Cardinality(Starting) \in Nat /\ Cardinality(Beans) \in Nat
    BY StartingCounts DEF TypeOK
  <2> QED
    BY <2>1 DEF TimersOfBeans, TimerPerBean
<1> QED
  BY <1>1, <1>2, TimersOfBeansNext, TypeCorrect, PTL DEF Spec

-----------------------------------------------------------------------------
(* NoSignalFromOneTimer. As long as timer 1 alone has been started, what it    *)
(* has found of the average is still so when it tests the average again.      *)

Unstarted == \A t \in Timers : t > started => timer[t].at = "new"

StillSo ==
  started <= 1 =>
    /\ \A o \in Orders : flags[o] = {}
    /\ \A t \in Timers :
         /\ timer[t].at \in {"buy?", "still above?"} => Side(t) = "below"
         /\ timer[t].at \in {"sell?", "still below?"} => Side(t) = "above"

AloneInv == Unstarted /\ StillSo

LEMMA AloneInit == Init => AloneInv
<1> SUFFICES ASSUME Init PROVE AloneInv
  OBVIOUS
<1>1. \A t \in Timers : timer[t].at = "new"
  BY DEF Init
<1>2. \A o \in Orders : flags[o] = {}
  BY DEF Init
<1> QED
  BY <1>1, <1>2 DEF AloneInv, Unstarted, StillSo

LEMMA AloneNext == ASSUME TypeInv, TypeOK', AloneInv, [Next]_vars PROVE AloneInv'
<1>0. /\ TypeOK /\ Walks /\ Unstarted /\ StillSo
      /\ timer \in [Timers -> [at : TimerAt, i : 1..(MaxOrders + 1), size : 0..MaxOrders]]
      /\ started \in Nat /\ MaxTimers \in Nat /\ MaxOrders \in Nat /\ stored \in 0..MaxOrders
  <2>1. TypeOK /\ Walks /\ Unstarted /\ StillSo
    BY DEF TypeInv, AloneInv
  <2>2. /\ timer \in [Timers -> [at : TimerAt, i : 1..(MaxOrders + 1), size : 0..MaxOrders]]
        /\ started \in 0..MaxTimers /\ stored \in 0..MaxOrders
    BY <2>1 DEF TypeOK
  <2> QED
    BY <2>1, <2>2, BoundsAssumption
<1>1. ASSUME NEW b \in Beans, BeanStep(b) PROVE AloneInv'
  <2>1. CASE StartMonitoring(b)
    <3>1. /\ started' = started + 1 /\ UNCHANGED <<side, flags>>
          /\ \A t \in Timers : timer'[t] = timer[t] \/ (t = started + 1 /\ timer'[t].at = "waiting")
          /\ \A t \in Timers : timer'[t].i = timer[t].i
      BY <1>0, <2>1 DEF StartMonitoring
    <3>2. Unstarted'
      BY <1>0, <3>1 DEF Unstarted
    <3>3. StillSo'
      <4> SUFFICES ASSUME started' <= 1 PROVE StillSo'
        BY DEF StillSo
      <4>1. started <= 1
        BY <1>0, <3>1
      <4>2. /\ \A o \in Orders : flags[o] = {}
            /\ \A t \in Timers :
                 /\ timer[t].at \in {"buy?", "still above?"} => side[timer[t].i] = "below"
                 /\ timer[t].at \in {"sell?", "still below?"} => side[timer[t].i] = "above"
        BY <1>0, <4>1 DEF StillSo, Side
      <4> QED
        BY <3>1, <4>2 DEF StillSo, Side
    <3> QED
      BY <3>2, <3>3 DEF AloneInv
  <2>2. CASE ReceiveOrder(b) \/ StartNewTrade(b) \/ FailToStart(b)
    <3>1. UNCHANGED <<started, side, flags, timer>>
      BY <2>2 DEF ReceiveOrder, StartNewTrade, FailToStart
    <3> QED
      BY <1>0, <3>1 DEF AloneInv, Unstarted, StillSo, Side
  <2> QED
    BY <1>1, <2>1, <2>2 DEF BeanStep
<1>2. ASSUME NEW t \in Timers, TimerStep(t) PROVE AloneInv'
  <2>1. timer[t].at # "new"
    BY <1>2 DEF TimerStep, Begin, NextOrder, Quote, MissQuote, CompareLong, CompareShort, Test, Buy, NoBuy,
       SellBought, NotBought, SellShort, NoSellShort, BuyBack, NotSold
  <2>2. t <= started /\ started' = started
    BY <1>0, <1>2, <2>1, TimerWrites DEF Unstarted
  <2>3. \A o \in Timers \ {t} : timer'[o] = timer[o]
    <3>1. timer' = [timer EXCEPT ![t] = timer'[t]]
      BY <1>0, <1>2, TimerMoves
    <3> QED
      BY <1>0, <3>1
  <2>4. Unstarted'
    BY <1>0, <2>2, <2>3 DEF Unstarted
  <2>5. StillSo'
    <3> SUFFICES ASSUME started <= 1 PROVE StillSo'
      BY <2>2 DEF StillSo
    <3>1. /\ \A o \in Orders : flags[o] = {}
          /\ timer[t].at \in {"buy?", "still above?"} => Side(t) = "below"
          /\ timer[t].at \in {"sell?", "still below?"} => Side(t) = "above"
      BY <1>0 DEF StillSo
    <3>2. \A o \in Timers \ {t} : timer'[o].at = "new"
      BY <1>0, <2>2, <2>3 DEF Unstarted
    <3>3. timer[t].at \in AtAnOrder => timer[t].i \in Orders
      <4>1. timer[t].at \in AtAnOrder => timer[t].i <= timer[t].size /\ timer[t].size <= stored
        BY <1>0 DEF Walks
      <4>2. timer[t].i \in 1..(MaxOrders + 1) /\ timer[t].size \in 0..MaxOrders
        BY <1>0
      <4> QED
        BY <1>0, <4>1, <4>2
    <3> DEFINE Same == /\ timer'[t].at \in {"buy?", "still above?"} => side'[timer'[t].i] = "below"
                       /\ timer'[t].at \in {"sell?", "still below?"} => side'[timer'[t].i] = "above"
    <3>g. \A a : Goes(t, a) => timer'[t].at = a /\ timer'[t].i = timer[t].i
      BY <1>0 DEF Goes
    <3>c. Continue(t) => timer'[t].at = "next"
      BY <1>0 DEF Continue
    <3>4. (\A o \in Orders : flags'[o] = {}) /\ Same
      <4>1. CASE Begin(t)
        BY <1>0, <3>1, <4>1 DEF Begin, Looks
      <4>2. CASE NextOrder(t)
        BY <1>0, <3>1, <4>2 DEF NextOrder, Goes, Looks
      <4>3. CASE Quote(t)
        BY <1>0, <3>1, <4>3 DEF Quote, Goes
      <4>4. CASE MissQuote(t)
        BY <1>0, <3>1, <4>4 DEF MissQuote, Goes, Looks
      <4>5. CASE CompareLong(t)
        BY <1>0, <3>1, <4>5 DEF CompareLong, Goes, Looks, Side
      <4>6. CASE CompareShort(t)
        <5>1. CASE Side(t) = "above"
          <6>1. Goes(t, "sell?") /\ UNCHANGED <<side, flags>>
            BY <4>6, <5>1 DEF CompareShort, Looks
          <6>2. timer'[t].at = "sell?" /\ timer'[t].i = timer[t].i
            BY <3>g, <6>1
          <6> QED
            BY <3>1, <5>1, <6>1, <6>2 DEF Side
        <5>2. CASE Side(t) # "above"
          <6>1. Continue(t) /\ UNCHANGED <<side, flags>>
            BY <4>6, <5>2 DEF CompareShort, Looks
          <6> QED
            BY <3>1, <3>c, <6>1
        <5> QED
          BY <5>1, <5>2
      <4>7. CASE Test(t, "buy?", "buy", "bought?", "still above?")
        BY <1>0, <3>1, <4>7 DEF Test, Goes, Looks, Side
      <4>8. CASE Test(t, "sell?", "sell", "sold?", "still below?")
        BY <1>0, <3>1, <4>8 DEF Test, Goes, Looks, Side
      <4>9. CASE Buy(t) \/ SellShort(t)
        BY <1>0, <3>1, <4>9 DEF Buy, SellShort, Crossed
      <4>10. CASE SellBought(t) \/ BuyBack(t)
        <5>1. timer[t].at \in AtAnOrder
          BY <4>10 DEF SellBought, BuyBack, AtAnOrder, TimerAt
        <5>2. Set(t) = {}
          BY <3>1, <3>3, <5>1 DEF Set
        <5> QED
          BY <4>10, <5>2 DEF SellBought, BuyBack, Bought
      <4>11. CASE NoBuy(t) \/ NoSellShort(t)
        <5>1. UNCHANGED <<side, flags>>
          BY <4>11 DEF NoBuy, NoSellShort, Looks
        <5>2. timer'[t].at \in {"bought?", "sold?"}
          BY <1>0, <4>11 DEF NoBuy, NoSellShort, Goes
        <5> QED
          BY <3>1, <5>1, <5>2
      <4>12. CASE NotBought(t) \/ NotSold(t)
        <5>1. Continue(t) /\ UNCHANGED <<side, flags>>
          BY <4>12 DEF NotBought, NotSold, Looks
        <5> QED
          BY <3>1, <3>c, <5>1
      <4> QED
        BY <1>2, <4>1, <4>2, <4>3, <4>4, <4>5, <4>6, <4>7, <4>8, <4>9, <4>10, <4>11, <4>12 DEF TimerStep
    <3> QED
      BY <3>2, <3>4 DEF StillSo, Side
  <2> QED
    BY <2>4, <2>5 DEF AloneInv
<1>3. CASE UNCHANGED vars
  BY <1>0, <1>3 DEF vars, AloneInv, Unstarted, StillSo, Side
<1> QED
  BY <1>1, <1>2, <1>3 DEF Next

\* One timer alone never gives a signal: the branch that gives one is dead code
\* unless two timers examine the same order.
THEOREM NoSignalAlone == Spec => []NoSignalFromOneTimer
<1>1. Init => AloneInv
  BY AloneInit
<1>2. AloneInv => NoSignalFromOneTimer
  BY DEF AloneInv, StillSo, NoSignalFromOneTimer
<1>3. Init => TypeInv
  BY InitTypes
<1>4. TypeInv => TypeOK
  BY DEF TypeInv
<1> QED
  BY <1>1, <1>2, <1>3, <1>4, TypeNext, AloneNext, PTL DEF Spec

-----------------------------------------------------------------------------
(* SignalsKillTimers. A signal adds one to the signals of its order and the *)
(* thread that gives it to the dead.                                        *)

LEMMA SignalsFinite ==
  IsFiniteSet(Signals) /\ IsFiniteSet(Signals') /\ IsFiniteSet(Dead) /\ IsFiniteSet(Dead')
<1>1. IsFiniteSet(1..MaxOrders) /\ IsFiniteSet(1..MaxTimers)
  BY FS_Interval, BoundsAssumption
<1>2. IsFiniteSet({1, 2})
  <2>1. IsFiniteSet({} \union {1})
    BY FS_EmptySet, FS_AddElement
  <2>2. IsFiniteSet(({} \union {1}) \union {2})
    BY <2>1, FS_AddElement
  <2>3. ({} \union {1}) \union {2} = {1, 2}
    OBVIOUS
  <2> QED
    BY <2>2, <2>3
<1>3. IsFiniteSet(Orders \X {1, 2})
  BY <1>1, <1>2, FS_Product
<1> QED
  BY <1>1, <1>3, FS_Subset DEF Signals, Dead

\* A timer once dead is dead, and one that gives a signal dies of it.
LEMMA DeadStay ==
  ASSUME TypeInv, NEW t \in Timers, TimerStep(t)
  PROVE  /\ Dead \subseteq Dead'
         /\ \A new : Signal(t, new) => t \notin Dead /\ Dead' = Dead \union {t}
<1>0. /\ TypeOK /\ Walks
      /\ timer \in [Timers -> [at : TimerAt, i : 1..(MaxOrders + 1), size : 0..MaxOrders]]
  BY DEF TypeInv, TypeOK
<1>1. timer[t].at # "dead"
  BY DEF TimerStep, Begin, NextOrder, Quote, MissQuote, CompareLong, CompareShort, Test, Buy, NoBuy,
     SellBought, NotBought, SellShort, NoSellShort, BuyBack, NotSold
<1>2. \A o \in Timers \ {t} : timer'[o] = timer[o]
  BY <1>0, TimerMoves
<1>3. \A new : Signal(t, new) => timer'[t].at = "dead"
  BY <1>0 DEF Signal, Dies, Goes
<1> QED
  BY <1>1, <1>2, <1>3 DEF Dead

\* A signal is one more for its order: an order sold is one that was bought.
LEMMA OneMoreSignal ==
  ASSUME TypeInv, NEW o \in Orders,
         NEW new \in {{"buy"}, {"sell"}, {"short", "sell"}}, new = {"sell"} => "buy" \in flags[o],
         flags' = [flags EXCEPT ![o] = @ \union new]
  PROVE  Signals' \subseteq Signals \union {<<o, SignalCount(o)'>>}
<1>0. flags \in [Orders -> SUBSET {"buy", "sell", "short"}]
  BY DEF TypeInv, TypeOK
<1>1. \A p \in Orders : p # o => flags'[p] = flags[p]
  BY <1>0
<1>2. flags'[o] = flags[o] \union new /\ flags[o] \in SUBSET {"buy", "sell", "short"}
  BY <1>0
<1>3. SignalCount(o)' <= SignalCount(o) + 1 /\ SignalCount(o) \in 0..2 /\ SignalCount(o)' \in 0..2
  <2>1. SignalCount(o) \in 0..2 /\ SignalCount(o)' \in 0..2
    BY DEF SignalCount
  <2>2. CASE flags[o] = {}
    <3>1. flags'[o] \in {{"buy"}, {"short", "sell"}}
      BY <1>2, <2>2
    <3>2. SignalCount(o)' = 1 /\ SignalCount(o) = 0
      BY <2>2, <3>1 DEF SignalCount
    <3> QED
      BY <2>1, <3>2
  <2>3. CASE flags[o] # {}
    <3>1. SignalCount(o) >= 1
      BY <2>3 DEF SignalCount
    <3> QED
      BY <2>1, <3>1
  <2> QED
    BY <2>1, <2>2, <2>3
<1>4. \A p \in Orders : p # o => SignalCount(p)' = SignalCount(p)
  BY <1>1 DEF SignalCount
<1>5. ASSUME NEW p \in Orders, NEW k \in {1, 2}, k <= SignalCount(p)'
      PROVE  k <= SignalCount(p) \/ (p = o /\ k = SignalCount(o)')
  <2>1. CASE p = o
    BY <1>3, <1>5, <2>1
  <2>2. CASE p # o
    BY <1>4, <1>5, <2>2
  <2> QED
    BY <2>1, <2>2
<1> QED
  BY <1>5 DEF Signals

LEMMA SignalsKillNext ==
  ASSUME TypeInv, AloneInv, SignalsKillTimers, [Next]_vars
  PROVE  SignalsKillTimers'
<1>0. /\ TypeOK /\ Walks /\ Unstarted
      /\ timer \in [Timers -> [at : TimerAt, i : 1..(MaxOrders + 1), size : 0..MaxOrders]]
      /\ started \in Nat /\ MaxTimers \in Nat /\ MaxOrders \in Nat /\ stored \in 0..MaxOrders
  BY BoundsAssumption DEF TypeInv, TypeOK, AloneInv
<1>1. /\ Cardinality(Signals) \in Nat /\ Cardinality(Signals') \in Nat
      /\ Cardinality(Dead) \in Nat /\ Cardinality(Dead') \in Nat
  BY SignalsFinite, FS_CardinalityType
\* No signal, and no thread comes back to life.
<1>2. ASSUME flags' = flags, Dead \subseteq Dead' PROVE SignalsKillTimers'
  <2>1. Signals' = Signals
    BY <1>2 DEF Signals, SignalCount
  <2>2. Cardinality(Dead) <= Cardinality(Dead')
    BY <1>2, SignalsFinite, FS_Subset
  <2> QED
    BY <1>1, <2>1, <2>2 DEF SignalsKillTimers
<1>3. ASSUME NEW b \in Beans, BeanStep(b) PROVE SignalsKillTimers'
  <2>1. CASE StartMonitoring(b)
    <3>1. /\ flags' = flags
          /\ \A t \in Timers : timer'[t] = timer[t] \/ t = started + 1
      BY <1>0, <2>1 DEF StartMonitoring
    <3>2. \A t \in Timers : t = started + 1 => timer[t].at = "new"
      BY <1>0 DEF Unstarted
    <3>3. Dead \subseteq Dead'
      BY <3>1, <3>2 DEF Dead
    <3> QED
      BY <1>2, <3>1, <3>3
  <2>2. CASE ReceiveOrder(b) \/ StartNewTrade(b) \/ FailToStart(b)
    <3>1. flags' = flags /\ timer' = timer
      BY <2>2 DEF ReceiveOrder, StartNewTrade, FailToStart
    <3> QED
      BY <1>2, <3>1 DEF Dead
  <2> QED
    BY <1>3, <2>1, <2>2 DEF BeanStep
<1>4. ASSUME NEW t \in Timers, TimerStep(t) PROVE SignalsKillTimers'
  <2>1. CASE flags' = flags
    BY <1>2, <1>4, <2>1, DeadStay
  <2>2. ASSUME NEW new \in {{"buy"}, {"sell"}, {"short", "sell"}}, new = {"sell"} => "buy" \in Set(t),
               Signal(t, new), timer[t].at \in AtAnOrder
        PROVE  SignalsKillTimers'
    <3>1. PICK o \in Orders : o = timer[t].i
      <4>1. timer[t].i <= timer[t].size /\ timer[t].size <= stored
        BY <1>0, <2>2 DEF Walks
      <4>2. timer[t].i \in 1..(MaxOrders + 1) /\ timer[t].size \in 0..MaxOrders
        BY <1>0
      <4> QED
        BY <1>0, <4>1, <4>2
    <3>2. Signals' \subseteq Signals \union {<<o, SignalCount(o)'>>}
      <4>1. flags' = [flags EXCEPT ![o] = @ \union new] /\ (new = {"sell"} => "buy" \in flags[o])
        BY <2>2, <3>1 DEF Signal, Set
      <4> QED
        BY <4>1, OneMoreSignal
    <3>3. Cardinality(Signals') <= Cardinality(Signals) + 1
      <4> DEFINE more == Signals \union {<<o, SignalCount(o)'>>}
      <4>1. IsFiniteSet(more) /\ Cardinality(more) \in {Cardinality(Signals), Cardinality(Signals) + 1}
        BY SignalsFinite, FS_AddElement
      <4> HIDE DEF more
      <4>2. Signals' \subseteq more
        BY <3>2 DEF more
      <4>3. Cardinality(Signals') <= Cardinality(more)
        BY <4>1, <4>2, FS_Subset
      <4> QED
        BY <1>1, <4>1, <4>3
    <3>4. Cardinality(Dead') = Cardinality(Dead) + 1
      BY <1>4, <2>2, DeadStay, SignalsFinite, FS_AddElement
    <3> QED
      BY <1>1, <3>3, <3>4 DEF SignalsKillTimers
  <2>3. CASE Buy(t)
    BY <2>2, <2>3 DEF Buy, AtAnOrder, TimerAt
  <2>4. CASE SellBought(t)
    <3>1. "buy" \in Set(t) /\ Signal(t, {"sell"}) /\ timer[t].at \in AtAnOrder
      BY <2>4 DEF SellBought, Bought, AtAnOrder, TimerAt
    <3> QED
      BY <2>2, <3>1
  <2>5. CASE SellShort(t)
    <3>1. Signal(t, {"short", "sell"}) /\ timer[t].at \in AtAnOrder
      BY <2>5 DEF SellShort, AtAnOrder, TimerAt
    <3>2. {"short", "sell"} # {"sell"}
      OBVIOUS
    <3> QED
      BY <2>2, <3>1, <3>2
  <2>6. CASE BuyBack(t)
    BY <2>2, <2>6 DEF BuyBack, AtAnOrder, TimerAt
  <2>7. Buy(t) \/ SellBought(t) \/ SellShort(t) \/ BuyBack(t) \/ flags' = flags
    BY <1>4 DEF TimerStep, Begin, NextOrder, Quote, MissQuote, CompareLong, CompareShort, Test, NoBuy,
       NotBought, NoSellShort, NotSold, Looks
  <2> QED
    BY <2>1, <2>3, <2>4, <2>5, <2>6, <2>7
<1>5. CASE UNCHANGED vars
  BY <1>2, <1>5 DEF vars, Dead
<1> QED
  BY <1>3, <1>4, <1>5 DEF Next

\* Each signal costs a timer, however many timers disturb each other over
\* however many orders: no more signals are ever given than threads have died.
THEOREM SignalsAreFatal == Spec => []SignalsKillTimers
<1>1. Init => AloneInv
  BY AloneInit
<1>2. Init => SignalsKillTimers
  <2> SUFFICES ASSUME Init PROVE SignalsKillTimers
    OBVIOUS
  <2>1. Signals = {}
    BY DEF Init, Signals, SignalCount
  <2> QED
    BY <2>1, SignalsFinite, FS_EmptySet, FS_CardinalityType DEF SignalsKillTimers
<1>3. TypeInv => TypeOK
  BY DEF TypeInv
<1> QED
  BY <1>1, <1>2, <1>3, InitTypes, TypeNext, AloneNext, SignalsKillNext, PTL DEF Spec
=============================================================================
