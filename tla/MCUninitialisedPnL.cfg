SPECIFICATION Spec
CONSTANTS
  Symbols = {aapl}
  Limits = {1}
  Quantities = {1}
  Prices = {1}
  Indeterminate = {0, 7}
  Traders = {t1}
  MaxTrades = 2
  MaxSnapshots = 0
INVARIANT
  NoPnLAtOnePrice
