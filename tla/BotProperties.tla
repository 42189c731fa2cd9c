---------------------------- MODULE BotProperties ----------------------------
(***************************************************************************)
(* What must hold of the whole program.                                    *)
(***************************************************************************)
EXTENDS TradingBot

(* Type correctness of what the program adds to its components, and where  *)
(* the simulator's thread is while a publication holds dataMutex.          *)
BotTypeOK ==
  /\ simulator \in {"none", "loop", "onTick", "submit", "book", "onBook", "returned"}
  /\ simulating \in BOOLEAN
  /\ tickPrices \in Seq(BasePrices) /\ Len(tickPrices) <= MaxTicks
  /\ lastPrice \in BasePrices \cup {0}
  /\ tradeCount \in 0 .. MaxSignals
  /\ main \in DOMAIN Counters \cup
       {"startEngine", "spawn", "subscribe", "startSimulator", "stopSimulator",
        "joinSimulator", "stopEngine", "notifyEngine", "joinEngine", "done"}
  /\ report \in Report
  /\ dataMutexIsFree <=> simulator \notin {"onTick", "submit", "onBook"}

-----------------------------------------------------------------------------
(* The ticks the strategy has answered, and those among them that moved    *)
(* the price by more than 0.1.                                             *)
Answered == Len(tickPrices) - (IF IsCalled THEN 1 ELSE 0)
SignalTicks ==
  {k \in 2 .. Answered :
     \E side \in OrderSide : IsSignal(side, tickPrices[k - 1], tickPrices[k])}

(* The tick behind an order: the first order answers the first signal, the *)
(* second order the second.                                                *)
Behind(id, signals) ==
  CHOOSE k \in signals :
    Cardinality({m \in signals : m <= k}) = id - FirstOrderId + 1

(* The orders are the signals of the ticks that were published, one for    *)
(* one and in their order, on the side the price moved to and at that      *)
(* tick's bid or ask, until there are MaxSignals of them.                  *)
OrdersAreTheSignals ==
  LET signals == SignalTicks IN
  /\ totalOrdersPlaced = Smaller(MaxSignals, Cardinality(signals))
  /\ \A id \in DOMAIN orders :
       LET k == Behind(id, signals) IN
       /\ IsSignal(orders[id].side, tickPrices[k - 1], tickPrices[k])
       /\ orders[id].price = QuoteOf(k)[IF orders[id].side = "BUY" THEN 1 ELSE 2]

(* An order is executed at the quote of its own tick or of a later one: no *)
(* trade is made at the price of a tick that was over when the strategy    *)
(* decided, nor of the empty tick of a symbol without any.                 *)
TradesAtLaterQuotes ==
  LET signals == SignalTicks IN
  \A i \in DOMAIN trades : \E n \in Behind(trades[i].orderId, signals) .. Len(tickPrices) :
    trades[i].price =
      PriceOf([side |-> trades[i].side, price |-> orders[trades[i].orderId].price],
              QuoteOf(n)[1], QuoteOf(n)[2])

(* The trades that main() lists, the oldest of the history it read, and    *)
(* whether it has read a field of its report.                              *)
Listed == SubSeq(report.history, 1, Smaller(MaxListed, Len(report.history)))
HasRead(field) ==
  main \notin {"startEngine", "spawn", "subscribe", "startSimulator"} \cup
    CASE field = "trades"  -> {"orders", "trades"}
      [] field = "history" -> {"orders", "trades", "history"}

(* The three lines main() prints were read one after the other while the   *)
(* threads ran.  The first is not above the orders there are.  The second  *)
(* may be above the first, but only by orders placed in between: it is at  *)
(* most the orders there are, and so not above the first once that has     *)
(* counted every order that will ever be placed.  Every trade the second   *)
(* counts is in the history, and among the trades that are listed as long  *)
(* as there are no more signals than main() lists.                         *)
ReportConsistent ==
  /\ HasRead("trades") =>
       /\ report.orders <= totalOrdersPlaced
       /\ report.trades <= totalOrdersPlaced
       /\ report.orders = MaxSignals => report.trades <= report.orders
  /\ HasRead("history") =>
       /\ report.trades <= Len(report.history)
       /\ MaxSignals <= MaxListed => report.trades <= Len(Listed)

(* When main() returns nothing is under way: both threads are gone, no     *)
(* mutex is held, and every order either was filled by one trade or is     *)
(* still pending with its request in the queue.                            *)
NothingUnderWay ==
  main = "done" =>
    /\ simulator = "none" /\ dataMutexIsFree
    /\ thread = "none" /\ queueMutex = "free"
    /\ {r.orderId : r \in executionQueue}
         = {id \in DOMAIN orders : orders[id].status = "PENDING"}
    /\ {trades[i].orderId : i \in DOMAIN trades}
         = {id \in DOMAIN orders : orders[id].status = "FILLED"}
    /\ totalOrdersPlaced = Len(trades) + Cardinality(executionQueue)

(* main() returns, unless it waits for an execution thread that sleeps:    *)
(* whatever the three threads hold, no two wait for each other, and the    *)
(* simulator's thread ends although it takes queueMutex under dataMutex    *)
(* while the execution thread takes both in turn.                          *)
ShutdownEnds == <>(main = "done" \/ (main = "joinEngine" /\ thread = "waiting"))
=============================================================================
