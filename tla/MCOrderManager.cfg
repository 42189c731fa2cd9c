SPECIFICATION ClientsSpec
CONSTANTS
  Prices = {1}
  Quantities = {0, 1, 2}
  MaxPlaced = 2
  MaxExecutions = 2
  MaxTrades = 1
  MaxCallbacks = 2
INVARIANTS
  OrderManagerTypeOK
  ObserversAgree
  FillStatusTruthful
CHECK_DEADLOCK FALSE
