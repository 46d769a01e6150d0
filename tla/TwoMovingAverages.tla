------------------------- MODULE TwoMovingAverages -------------------------
(***************************************************************************)
(* The second algorithm. Message beans hand it orders; java.util.Timer        *)
(* threads walk through storeToMonitor, without a lock, update each order's   *)
(* short average from a quote and compare it with the long one.             *)
(* Of the averages only the side on which the short one lies matters: the     *)
(* code tests it twice, the second time inside the branch that the first      *)
(* has taken, with the opposite condition. A signal is therefore given only   *)
(* if another timer moves the average between the two tests. The thread that   *)
(* gives it then calls getObj(), which is always null, and dies: no request   *)
(* is ever sent, so isSend and pendingList keep their initial values.         *)
(***************************************************************************)
EXTENDS Naturals, FiniteSets

CONSTANTS
  Beans,     (* instances of AutomatedTradingTCMessageBean *)
  MaxTimers, (* bound: java.util.Timer threads *)
  MaxOrders  (* bound: orders received *)

ASSUME BeansAssumption == IsFiniteSet(Beans)
ASSUME BoundsAssumption == MaxTimers \in Nat /\ MaxOrders \in Nat

Timers == 1..MaxTimers
Orders == 1..MaxOrders
Sides  == {"below", "equal", "above"}  (* of the long average *)

VARIABLES
  isMonitoring,
  received,  (* messages taken off the queue *)
  bean,      (* where each bean is in onMessage: "idle", "start", "add" *)
  started,   (* timers started so far: 1..started *)
  stored,    (* size of storeToMonitor: orders 1..stored are in it *)
  side,      (* each order's short average *)
  flags,     (* each order's isBuy, isSell, isShort: those that are set *)
  timer      (* each timer: [at, i, size], in run and its iterator *)

vars == <<isMonitoring, received, bean, started, stored, side, flags, timer>>
intake == <<isMonitoring, received, bean, started, stored>>

TimerAt == {"new", "waiting", "next", "quote", "compare", "compare again",
            "buy?", "still above?", "bought?", "sell?", "still below?", "sold?", "dead"}

NoTimer == [at |-> "new", i |-> 1, size |-> 0]

Init ==
  /\ isMonitoring = FALSE /\ received = 0
  /\ bean = [b \in Beans |-> "idle"]
  /\ started = 0 /\ stored = 0
  /\ side = [o \in Orders |-> "below"]  (* until the first quote *)
  /\ flags = [o \in Orders |-> {}]
  /\ timer = [t \in Timers |-> NoTimer]

-----------------------------------------------------------------------------
(* onMessage: isMonitoring, startMonitoring and startNewTrade each take the   *)
(* singleton's lock, and release it in between.                             *)

\* Faulty: isMonitoring is not tested.
StartAlways == "start"

IfNotMonitoring == IF isMonitoring THEN "add" ELSE "start"

ReceiveOrder(b) ==
  /\ bean[b] = "idle" /\ received < MaxOrders
  /\ received' = received + 1
  /\ bean' = [bean EXCEPT ![b] = IfNotMonitoring]
  /\ UNCHANGED <<isMonitoring, started, stored, side, flags, timer>>

StartMonitoring(b) ==
  /\ bean[b] = "start" /\ started < MaxTimers
  /\ isMonitoring' = TRUE
  /\ started' = started + 1
  /\ timer' = [timer EXCEPT ![started + 1].at = "waiting"]
  /\ bean' = [bean EXCEPT ![b] = "add"]
  /\ UNCHANGED <<received, stored, side, flags>>

\* The last line of startNewTrade.
StartNewTrade(b) ==
  /\ bean[b] = "add"
  /\ stored' = stored + 1
  /\ bean' = [bean EXCEPT ![b] = "idle"]
  /\ UNCHANGED <<isMonitoring, received, started, side, flags, timer>>

\* TMAObjClass gets no history and divides by 0, or RecordOrder fails.
FailToStart(b) ==
  /\ bean[b] = "add"
  /\ bean' = [bean EXCEPT ![b] = "idle"]
  /\ UNCHANGED <<isMonitoring, received, started, stored, side, flags, timer>>

-----------------------------------------------------------------------------
(* MonitorPrice.run, for the order the iterator is at.                      *)

Goes(t, at) == timer' = [timer EXCEPT ![t].at = at]
Looks(t) == UNCHANGED <<intake, side, flags>>

Begin(t) ==
  /\ timer[t].at = "waiting"
  /\ timer' = [timer EXCEPT ![t] = [at |-> "next", i |-> 1, size |-> stored]]
  /\ Looks(t)

\* hasNext compares the position with the size as it is now; next raises
\* ConcurrentModificationException if it has changed since iterator().
NextOrder(t) ==
  /\ timer[t].at = "next"
  /\ Goes(t, CASE timer[t].i = stored + 1 -> "waiting"
               [] timer[t].i # stored + 1 /\ timer[t].size # stored -> "dead"
               [] OTHER -> "quote")
  /\ Looks(t)

\* The short average with the new quote in it.
Quote(t) ==
  /\ timer[t].at = "quote"
  /\ \E s \in Sides : side' = [side EXCEPT ![timer[t].i] = s]
  /\ Goes(t, "compare")
  /\ UNCHANGED <<intake, flags>>

\* getStockBySymbol returns null.
MissQuote(t) ==
  /\ timer[t].at = "quote"
  /\ Goes(t, "dead")
  /\ Looks(t)

Side(t) == side[timer[t].i]
Set(t)  == flags[timer[t].i]

\* Faulty: an order is skipped.
SkipOrder(t) == timer' = [timer EXCEPT ![t].at = "next", ![t].i = @ + 2]

\* Faulty: the loop is not continued.
SameOrder(t) == timer' = [timer EXCEPT ![t].at = "quote"]

Continue(t) == timer' = [timer EXCEPT ![t].at = "next", ![t].i = @ + 1]

CompareLong(t) ==
  /\ timer[t].at = "compare"
  /\ Goes(t, IF Side(t) = "below" THEN "buy?" ELSE "compare again")
  /\ Looks(t)

CompareShort(t) ==
  /\ timer[t].at = "compare again"
  /\ IF Side(t) = "above" THEN Goes(t, "sell?") ELSE Continue(t)
  /\ Looks(t)

\* A flag is tested, and where it is set the next test is skipped.
Test(t, at, flag, set, unset) ==
  /\ timer[t].at = at
  /\ Goes(t, IF flag \in Set(t) THEN set ELSE unset)
  /\ Looks(t)

\* Faulty: the comparison is the one of the enclosing branch.
SameTest(t) == Side(t) = "below"

Crossed(t) == Side(t) # "below"

\* Faulty: the amount to trade is there, and the thread goes on.
Survives(t) == timer' = [timer EXCEPT ![t].at = "next", ![t].i = @ + 1]

\* getObj() is null.
Dies(t) == Goes(t, "dead")

Signal(t, new) ==
  /\ flags' = [flags EXCEPT ![timer[t].i] = @ \union new]
  /\ Dies(t)
  /\ UNCHANGED <<intake, side>>

\* !isBuy && shortAvg >= longAvg, where shortAvg < longAvg a moment ago.
Buy(t) == timer[t].at = "still above?" /\ Crossed(t) /\ Signal(t, {"buy"})

NoBuy(t) == timer[t].at = "still above?" /\ ~Crossed(t) /\ Goes(t, "bought?") /\ Looks(t)

\* Faulty: the else of line 129 has no condition.
Unconditionally(t) == TRUE

Bought(t) == "buy" \in Set(t)

\* Another timer is alive and may move the average.
Moving(t) == \E o \in Timers \ {t} : timer[o].at \notin {"new", "dead"}

\* Whatever the profit: the two conditions of line 132, and those of line 180,
\* cover every price, unless the average moves from one to the other.
SellBought(t) == timer[t].at = "bought?" /\ Bought(t) /\ Signal(t, {"sell"})

NotBought(t) ==
  timer[t].at = "bought?" /\ (Bought(t) => Moving(t)) /\ Continue(t) /\ Looks(t)

\* !isSell && shortAvg <= longAvg, where it was above.
SellShort(t) ==
  timer[t].at = "still below?" /\ Side(t) # "above" /\ Signal(t, {"short", "sell"})

NoSellShort(t) ==
  timer[t].at = "still below?" /\ Side(t) = "above" /\ Goes(t, "sold?") /\ Looks(t)

BuyBack(t) == timer[t].at = "sold?" /\ "sell" \in Set(t) /\ Signal(t, {"buy"})

NotSold(t) ==
  timer[t].at = "sold?" /\ ("sell" \in Set(t) => Moving(t)) /\ Continue(t) /\ Looks(t)

-----------------------------------------------------------------------------
BeanStep(b) == ReceiveOrder(b) \/ StartMonitoring(b) \/ StartNewTrade(b) \/ FailToStart(b)

TimerStep(t) ==
  \/ Begin(t) \/ NextOrder(t) \/ Quote(t) \/ MissQuote(t)
  \/ CompareLong(t) \/ CompareShort(t)
  \/ Test(t, "buy?", "buy", "bought?", "still above?") \/ Buy(t) \/ NoBuy(t)
  \/ SellBought(t) \/ NotBought(t)
  \/ Test(t, "sell?", "sell", "sold?", "still below?") \/ SellShort(t) \/ NoSellShort(t)
  \/ BuyBack(t) \/ NotSold(t)

Next == (\E b \in Beans : BeanStep(b)) \/ (\E t \in Timers : TimerStep(t))

\* A thread that is alive goes on, and its period elapses.
Spec == Init /\ [][Next]_vars /\ \A t \in Timers : WF_vars(TimerStep(t))

-----------------------------------------------------------------------------
Dead == {t \in Timers : timer[t].at = "dead"}

TypeOK ==
  /\ isMonitoring \in BOOLEAN /\ received \in 0..MaxOrders
  /\ bean \in [Beans -> {"idle", "start", "add"}]
  /\ started \in 0..MaxTimers /\ stored \in 0..MaxOrders
  /\ side \in [Orders -> Sides] /\ flags \in [Orders -> SUBSET {"buy", "sell", "short"}]
  /\ timer \in [Timers -> [at : TimerAt, i : 1..(MaxOrders + 1), size : 0..MaxOrders]]

\* One timer alone never gives a signal: nothing comes between its two tests.
NoSignalFromOneTimer ==
  started <= 1 => \A o \in Orders : flags[o] = {}

\* Each signal costs a timer: there are never more signals, over all orders,
\* than dead timers, so the positions recorded in the flags stop changing.
SignalCount(o) == CASE flags[o] = {} -> 0
                    [] flags[o] \in {{"buy"}, {"short", "sell"}} -> 1
                    [] OTHER -> 2
Signals == {s \in Orders \X {1, 2} : s[2] <= SignalCount(s[1])}
SignalsKillTimers == Cardinality(Signals) <= Cardinality(Dead)

\* The test of isMonitoring and the start are two calls, so that two beans may
\* both start a timer; but one bean does not start two.
TimerPerBean == started <= Cardinality(Beans)

\* An order in the list is examined again and again, as long as a timer lives
\* for as long.
OrdersExamined ==
  \A o \in Orders, t \in Timers :
    (timer[t].at = "waiting" /\ o <= stored) ~>
      (timer[t].at \in {"quote", "dead"} /\ (timer[t].i = o \/ timer[t].at = "dead"))
=============================================================================
