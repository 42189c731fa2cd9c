------------------------- MODULE StrategyProperties -------------------------
(***************************************************************************)
(* What must hold of the strategies and of the handler's indicators.       *)
(***************************************************************************)
EXTENDS Strategies

(* Type correctness: prices are of ticks that were published, and the      *)
(* strategies together have not collected more than the entries of the     *)
(* listeners were called with.                                             *)
Entries(strategy) ==
  UNION {{<<symbol, i>> : i \in {j \in DOMAIN DataOf(symbol).listeners :
                                   DataOf(symbol).listeners[j].listener = strategy}} :
         symbol \in Symbols}
Entry(at) == DataOf(at[1]).listeners[at[2]]
Heard(strategy) ==
  SumFunction([at \in Entries(strategy) |-> Len(Entry(at).heard["tick"])])

StrategiesTypeOK ==
  /\ \A symbol \in Symbols : /\ tickPrice[symbol] \in Seq(TickPrices)
                             /\ Len(tickPrice[symbol]) = published[symbol]["tick"]
  /\ prices \in [Collecting -> Seq(TickPrices)]
  /\ \A strategy \in Collecting : Len(prices[strategy]) = Heard(strategy)
  /\ lastTick \subseteq TickPrices /\ Cardinality(lastTick) <= 1

-----------------------------------------------------------------------------
Same(x, y) == x[1] * y[2] = y[1] * x[2] /\ (x[2] = 0 <=> y[2] = 0)

(* The strategy listens to this symbol alone, and has from its first tick. *)
ListensFromTheStart(strategy, symbol) ==
  /\ Entries(strategy) # {}
  /\ \A at \in Entries(strategy) : at[1] = symbol /\ Entry(at).since["tick"] = 0

(* Between publications, a strategy that has listened to one symbol from   *)
(* its first tick, however often it is subscribed to it, and the handler   *)
(* compute the same mean, the same deviation and the same momentum in      *)
(* their own ways, from the second tick on until the history overflows;    *)
(* and the market maker's last tick is the handler's.                      *)
StrategiesAgreeWithHandler ==
  \A symbol \in Symbols :
    LET all == Window(symbol, MAX_HISTORY_SIZE)
        agrees(strategy, mine, handlers) ==
          ListensFromTheStart(strategy, symbol) => Same(mine, handlers)
    IN dataMutexIsFree /\ published[symbol]["tick"] \in 2 .. MAX_HISTORY_SIZE =>
         /\ agrees("MeanReversion", calculateSMA, Mean(all))
         /\ agrees("MeanReversion", calculateStdDev,
                   calculateVolatility(symbol, MAX_HISTORY_SIZE))
         /\ agrees("Momentum", strategyMomentum,
                   calculateMomentum(symbol, MAX_HISTORY_SIZE))
         /\ ListensFromTheStart("MarketMaking", symbol) => lastTick = {all[Len(all)]}

-----------------------------------------------------------------------------
Windows == 0 .. MAX_HISTORY_SIZE + 1

(* The volatility over any window is what the differences between its      *)
(* prices make it: its square is half the mean of all squared differences, *)
(* so it is zero exactly when the prices are all the same.                 *)
VolatilityIsTheSpread ==
  \A symbol \in Symbols, window \in Windows :
    LET xs == Window(symbol, window)
        volatility == calculateVolatility(symbol, window)
        squares == SumFunction([ij \in (DOMAIN xs) \X (DOMAIN xs) |->
                                  (xs[ij[1]] - xs[ij[2]]) * (xs[ij[1]] - xs[ij[2]])])
    IN /\ volatility[2] > 0
       /\ volatility[1] * 2 * Len(xs) * Len(xs) = squares * volatility[2]

(* RSI over a period and momentum over the ticks that bound it are on the  *)
(* same side: RSI is above 50 when the price has risen over the period,    *)
(* below 50 when it has fallen, and 50 when it has come back, or never     *)
(* moved, which counts as 100.                                             *)
RSIFollowsMomentum ==
  \A symbol \in Symbols, period \in Windows \ {0} :
    LET xs == Window(symbol, period + 1)
        momentum == calculateMomentum(symbol, period + 1)
        rsi == calculateRSI(symbol, period)
        above50 == 2 * rsi[1] - 100 * rsi[2]
    IN IF Len(xs) <= period THEN above50 = 0
       ELSE IF calculateVolatility(symbol, period + 1)[1] = 0
            THEN Same(rsi, <<100, 1>>) /\ momentum[1] = 0
            ELSE /\ momentum[1] > 0 <=> above50 > 0
                 /\ momentum[1] < 0 <=> above50 < 0

(* No indicator leaves the numbers unless the caller asks for a period of  *)
(* nothing or the market gave a price of nothing: RSI stays between 0 and  *)
(* 100, and momentum is not below -100 per cent.                           *)
IndicatorsAreNumbers ==
  \A symbol \in Symbols, period \in Windows :
    LET rsi == calculateRSI(symbol, period)
        momentum == calculateMomentum(symbol, period)
    IN /\ rsi[2] = 0 => period = 0
       /\ 0 <= rsi[1] /\ rsi[1] <= 100 * rsi[2]
       /\ momentum[2] = 0 => Window(symbol, period)[1] = 0 /\ period > 1
       /\ momentum[2] # 0 => momentum[1] >= -100 * momentum[2]
=============================================================================
