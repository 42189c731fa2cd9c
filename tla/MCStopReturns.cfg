SPECIFICATION FairSpec
CONSTANTS
  Clients = {c1}
  Desk = {}
  Prices = {10}
  Quantities = {1}
  Quotes <- MCOneQuote
  MaxOrders = 2
  Word = 4
  Precision = 4
  Doubles = {0, 1, 2, 3, 4}
  Latencies = {1}
  DoubleMax = 5
PROPERTY StopReturns
