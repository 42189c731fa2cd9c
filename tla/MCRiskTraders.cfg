SPECIFICATION Spec
CONSTANTS
  Symbols = {aapl, goog}
  Limits = {2, 3}
  Quantities = {1, 2}
  Prices = {1}
  Indeterminate = {0}
  Traders = {t1, t2}
  MaxTrades = 3
  MaxSnapshots = 1
SYMMETRY Symmetry
INVARIANTS
  RiskTypeOK
  PositionsMatchTrades
  OvershootBounded
  SnapshotCountsItsTrades
