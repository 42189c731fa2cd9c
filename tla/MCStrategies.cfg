SPECIFICATION StrategiesSpec
CONSTANTS
  Symbols = {s1}
  Listeners = {"MeanReversion", "Momentum", "MarketMaking", "SpreadTrading"}
  MAX_HISTORY_SIZE = 3
  MaxPublished = 4
  MaxListeners = 2
  TickPrices = {0, 2, 3}
INVARIANTS
  StrategiesTypeOK
  StrategiesAgreeWithHandler
  VolatilityIsTheSpread
  RSIFollowsMomentum
  IndicatorsAreNumbers
\* the bound on the publications ends every behaviour
CHECK_DEADLOCK FALSE
