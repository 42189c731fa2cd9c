SPECIFICATION Spec
CONSTANTS
  Symbols = {aapl}
  Limits = {2}
  Quantities = {1}
  Prices = {1}
  Indeterminate = {0}
  Traders = {t1}
  MaxTrades = 2
  MaxSnapshots = 0
INVARIANT
  PositionsAreNet
