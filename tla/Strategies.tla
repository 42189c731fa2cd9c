----------------------------- MODULE Strategies -----------------------------
(***************************************************************************)
(* The library's four strategies as listeners of the market data handler,  *)
(* and the statistics of both: what a strategy computes over the prices it *)
(* has heard since it listens, and what the handler computes over the end  *)
(* of a history that forgets.  A strategy looks neither at the symbol of a *)
(* tick nor at how often it is called with it.                             *)
(*                                                                         *)
(* Listeners are the strategies, by their getName().  Their owner keeps    *)
(* them, and they go on listening.  A double is a fraction <<n, d>>: what  *)
(* the code divides by zero has d = 0 and is infinite or not a number.     *)
(* Square roots are left out: a deviation is its square.                   *)
(***************************************************************************)
EXTENDS MarketData, Functions

CONSTANT TickPrices

Collecting == {"MeanReversion", "Momentum"}

ASSUME StrategiesAssumption ==
  /\ TickPrices \subseteq Nat
  /\ Listeners \subseteq Collecting \cup {"SpreadTrading", "MarketMaking"}

VARIABLES
  tickPrice,  (* history: per symbol the price of each of its ticks          *)
  prices,     (* the vectors of the strategies that collect prices           *)
  lastTick    (* the price of MarketMakingStrategy::lastTick, or nothing     *)

strategyVars == <<prices, lastTick>>
strategiesVars == <<mdVars, tickPrice, strategyVars>>

StrategiesInit ==
  /\ MarketDataInit
  /\ tickPrice = [symbol \in Symbols |-> <<>>]
  /\ prices = [strategy \in Collecting |-> <<>>]
  /\ lastTick = {}

-----------------------------------------------------------------------------
\* Mutated form: only a price that was not heard before is collected.
CollectPriceOnce(strategy, price) ==
  /\ strategy \in Collecting
  /\ prices' = IF price \in Range(prices[strategy]) THEN prices
               ELSE [prices EXCEPT ![strategy] = Append(@, price)]
  /\ UNCHANGED lastTick

(* What onTick() does with the price of a tick, by strategy. *)
CollectPrice(strategy, price) ==
  /\ strategy \in Collecting
  /\ prices' = [prices EXCEPT ![strategy] = Append(@, price)]
  /\ UNCHANGED lastTick

KeepTick(strategy, price) ==
  /\ strategy = "MarketMaking"
  /\ lastTick' = {price}
  /\ UNCHANGED prices

IgnoreTick(strategy) == strategy = "SpreadTrading" /\ UNCHANGED strategyVars

onTick(strategy, price) ==
  CollectPrice(strategy, price) \/ KeepTick(strategy, price) \/ IgnoreTick(strategy)

PublishTick(symbol) ==
  /\ \E price \in TickPrices : tickPrice' = [tickPrice EXCEPT ![symbol] = Append(@, price)]
  /\ publish(symbol, "tick")
  /\ UNCHANGED strategyVars

(* A round of the loop over the listeners; onOrderBook() is empty. *)
NotifyStrategy(p) ==
  /\ notify(p)
  /\ IF p.kind = "tick"
     THEN onTick(EntriesOf(p)[p.next].listener, tickPrice[p.symbol][published[p.symbol]["tick"]])
     ELSE UNCHANGED strategyVars
  /\ UNCHANGED tickPrice

HandlerStep ==
  /\ \/ \E symbol \in Symbols, strategy \in Listeners : subscribe(symbol, strategy)
     \/ \E symbol \in Symbols : publish(symbol, "book")
     \/ \E p \in publication : publishReturns(p)
  /\ UNCHANGED <<tickPrice, strategyVars>>

StrategiesNext ==
  \/ \E symbol \in Symbols : PublishTick(symbol)
  \/ \E p \in publication : NotifyStrategy(p)
  \/ HandlerStep

StrategiesSpec == StrategiesInit /\ [][StrategiesNext]_strategiesVars

-----------------------------------------------------------------------------
Zero == <<0, 1>>

(* The mean, and the mean square of the distances from it. *)
Mean(xs) == <<SumFunction(xs), Len(xs)>>
Variance(xs) ==
  LET n == Len(xs)
      distance == [i \in DOMAIN xs |-> n * xs[i] - SumFunction(xs)]
  IN <<SumFunction([i \in DOMAIN xs |-> distance[i] * distance[i]]), n * n * n>>

(* The change over a sequence of prices, in per cent of the first. *)
Change(xs) == <<100 * (xs[Len(xs)] - xs[1]), xs[1]>>

(* MeanReversionStrategy, MomentumStrategy. *)
calculateSMA == LET xs == prices["MeanReversion"] IN IF xs = <<>> THEN Zero ELSE Mean(xs)
calculateStdDev ==
  LET xs == prices["MeanReversion"] IN IF xs = <<>> THEN Zero ELSE Variance(xs)
strategyMomentum ==
  LET xs == prices["Momentum"] IN IF Len(xs) < 2 THEN Zero ELSE Change(xs)

(* MarketDataHandler: the prices of the last ticks. *)
Window(symbol, limit) ==
  LET ticks == getHistory(symbol, "tick", limit)
  IN [i \in DOMAIN ticks |-> tickPrice[symbol][ticks[i]]]

\* Mutated form: the mean square is taken over the window that was asked for.
calculateVolatilityOfWindow(symbol, window) ==
  LET xs == Window(symbol, window)
  IN IF Len(xs) < 2 THEN Zero ELSE <<Variance(xs)[1], Len(xs) * Len(xs) * window>>

calculateVolatility(symbol, window) ==
  LET xs == Window(symbol, window) IN IF Len(xs) < 2 THEN Zero ELSE Variance(xs)

\* Mutated form: a single tick is enough.
calculateMomentumOfOne(symbol, period) ==
  LET xs == Window(symbol, period) IN IF xs = <<>> THEN Zero ELSE Change(xs)

calculateMomentum(symbol, period) ==
  LET xs == Window(symbol, period) IN IF Len(xs) < 2 THEN Zero ELSE Change(xs)

Steps(xs) == [i \in 1 .. Len(xs) - 1 |-> xs[i + 1] - xs[i]]
Gains(steps) == SumFunction([i \in DOMAIN steps |-> IF steps[i] > 0 THEN steps[i] ELSE 0])
Losses(steps) == Gains([i \in DOMAIN steps |-> -steps[i]])

(* 100 - 100 / (1 + gains / losses) *)
Ratio(gains, losses) ==
  IF losses = 0 THEN <<100, 1>> ELSE <<100 * gains, gains + losses>>

\* Mutated form: one tick short of the period's steps.
calculateRSIShort(symbol, period) ==
  LET xs == Window(symbol, period + 1)
  IN IF Len(xs) < period THEN <<50, 1>>
     ELSE IF period = 0 THEN <<0, 0>> ELSE Ratio(Gains(Steps(xs)), Losses(Steps(xs)))

(* Both averages are divided by the period. *)
calculateRSI(symbol, period) ==
  LET xs == Window(symbol, period + 1)
  IN IF Len(xs) < period + 1 THEN <<50, 1>>
     ELSE IF period = 0 THEN <<0, 0>> ELSE Ratio(Gains(Steps(xs)), Losses(Steps(xs)))
=============================================================================
