SPECIFICATION Spec
CONSTANTS
  Clients = {c1, c2}
  Desk = {"cancel", "modify"}
  Prices = {10}
  Quantities = {0, 1}
  Quotes <- MCQuotes
  MaxOrders = 2
  Word = 4
  Precision = 4
  Doubles = {0, 1, 2, 3, 4}
  Latencies = {1}
  DoubleMax = 5
SYMMETRY ClientSymmetry
INVARIANTS
  EngineTypeOK
  RequestsConserved
  OrdersMatchTrades
  LimitRespected
  CountersInStep
PROPERTY SettledIsFinal
