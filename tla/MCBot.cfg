SPECIFICATION BotFairSpec
CONSTANTS
  Clients = {"simulator"}
  Desk = {}
  Prices <- MCPrices
  Quantities = {100}
  Quotes <- MCQuotes
  MaxOrders = 3
  Word = 4
  Precision = 4
  Doubles = {0, 1, 2, 3, 4}
  Latencies = {1}
  DoubleMax = 5
  Symbols = {"AAPL"}
  Listeners = {"strategy"}
  MAX_HISTORY_SIZE = 2
  MaxPublished = 4
  MaxListeners = 1
  BasePrices = {10000, 10005, 10011}
  MaxTicks = 4
  MaxSignals = 2
  MaxListed = 2
INVARIANTS
  BotTypeOK
  OrdersAreTheSignals
  TradesAtLaterQuotes
  ReportConsistent
  NothingUnderWay
PROPERTY ShutdownEnds
\* main() returns
CHECK_DEADLOCK FALSE
