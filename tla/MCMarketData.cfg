SPECIFICATION MarketDataSpec
CONSTANTS
  Symbols = {s1}
  Listeners = {l1, l2}
  MAX_HISTORY_SIZE = 2
  MaxPublished = 3
  MaxListeners = 2
INVARIANTS
  MarketDataTypeOK
  HistoryIsRecent
  QueriesAreRecent
  HeardAsSubscribed
\* the bound on the publications ends every behaviour
CHECK_DEADLOCK FALSE
