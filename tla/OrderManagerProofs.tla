-------------------------- MODULE OrderManagerProofs --------------------------
(***************************************************************************)
(* What each operation of the order manager does to its type invariant,    *)
(* for every set of prices and quantities, and theorems about the order    *)
(* manager under clients that call its methods in any order, for every     *)
(* bound.  The lemmas are used both for the order manager on its own and   *)
(* under the execution engine.                                             *)
(***************************************************************************)
EXTENDS OrderManagerClients, SequenceTheorems, TLAPS

-----------------------------------------------------------------------------
LEMMA ToldHeard ==
  ASSUME NEW told \in SUBSET (Nat \X Order), NEW id \in Nat, NEW order \in Order
  PROVE  Heard(told, id, order) \in SUBSET (Nat \X Order)
BY DEF Heard

(* A change of one order: the map gains its id, the other orders and the   *)
(* number of observers stay, and every observer is told.                   *)
LEMMA ChangeOrderMap ==
  ASSUME NEW S, orders \in [S -> Order], NEW id, NEW order \in Order,
         ChangeOrder(id, order)
  PROVE  /\ orders' \in [S \cup {id} -> Order]
         /\ orders'[id] = order
         /\ \A i \in S \ {id} : orders'[i] = orders[i]
<1>1. orders' = [i \in S \cup {id} |-> IF i = id THEN order ELSE orders[i]]
  BY DEF ChangeOrder, Stored
<1> QED
  BY <1>1

LEMMA ChangeOrderObservers ==
  ASSUME callbacks \in Seq(Observer), NEW id \in Nat, NEW order \in Order,
         ChangeOrder(id, order)
  PROVE  /\ callbacks' \in Seq(Observer)
         /\ DOMAIN callbacks' = DOMAIN callbacks
         /\ \A c \in DOMAIN callbacks :
              /\ callbacks'[c].since = callbacks[c].since
              /\ callbacks'[c].told = Heard(callbacks[c].told, id, order)
<1>1. callbacks' = [c \in DOMAIN callbacks |->
                      [callbacks[c] EXCEPT !.told = Heard(@, id, order)]]
  BY DEF ChangeOrder, notifyOrderChanged
<1>2. ASSUME NEW c \in DOMAIN callbacks
      PROVE  /\ callbacks'[c] \in Observer
             /\ callbacks'[c].since = callbacks[c].since
             /\ callbacks'[c].told = Heard(callbacks[c].told, id, order)
  <2>1. callbacks[c] \in Observer
    OBVIOUS
  <2>2. callbacks[c].told \in SUBSET (Nat \X Order) /\ callbacks[c].since \in Nat
    BY <2>1 DEF Observer
  <2>3. callbacks'[c] = [since |-> callbacks[c].since,
                         told |-> Heard(callbacks[c].told, id, order)]
    BY <1>1, <2>1 DEF Observer
  <2>4. Heard(callbacks[c].told, id, order) \in SUBSET (Nat \X Order)
    BY <2>2, ToldHeard
  <2> QED
    BY <2>2, <2>3, <2>4 DEF Observer
<1>3. DOMAIN callbacks' = DOMAIN callbacks
  BY <1>1
<1>4. callbacks' \in Seq(Observer)
  <2>1. DOMAIN callbacks = 1 .. Len(callbacks) /\ Len(callbacks) \in Nat
    OBVIOUS
  <2> DEFINE n == Len(callbacks)
  <2>2. callbacks' \in [1 .. n -> Observer]
    BY <1>1, <1>2, <2>1
  <2> HIDE DEF n
  <2>3. Seq(Observer) = UNION {[1 .. k -> Observer] : k \in Nat}
    BY SeqDef
  <2>4. n \in Nat
    BY <2>1 DEF n
  <2> QED
    BY <2>2, <2>3, <2>4
<1> QED
  BY <1>2, <1>3, <1>4

-----------------------------------------------------------------------------
(* The type invariant in the initial state and after each operation.       *)
LEMMA OrderManagerTypeInit == OrderManagerInit => OrderManagerTypeOK
<1> SUFFICES ASSUME OrderManagerInit
             PROVE  OrderManagerTypeOK
  OBVIOUS
<1>1. orderIdCounter = 1000 /\ totalOrdersPlaced = 0 /\ totalTradesExecuted = 0
      /\ trades = <<>> /\ callbacks = <<>>
  BY DEF OrderManagerInit, FirstOrderId
<1>2. FirstOrderId .. orderIdCounter - 1 = {}
  BY <1>1 DEF FirstOrderId
<1>3. orders \in [{} -> Order] /\ DOMAIN orders = {}
  BY DEF OrderManagerInit
<1> QED
  BY <1>1, <1>2, <1>3 DEF OrderManagerTypeOK, FirstOrderId

LEMMA PlaceType ==
  ASSUME OrderManagerTypeOK, NEW order \in Order, placeOrder(order),
         UNCHANGED tradeVars
  PROVE  OrderManagerTypeOK'
<1> DEFINE S == FirstOrderId .. orderIdCounter - 1
           placed == [order EXCEPT !.status = "PENDING"]
<1>1. /\ orders \in [S -> Order] /\ callbacks \in Seq(Observer)
      /\ orderIdCounter \in Nat /\ orderIdCounter >= FirstOrderId
  BY DEF OrderManagerTypeOK, FirstOrderId
<1>2. placed \in Order /\ placed.status = "PENDING"
  BY DEF Order, OrderStatus
<1>3. ChangeOrder(orderIdCounter, placed)
  BY DEF placeOrder
<1>4. S \cup {orderIdCounter} = FirstOrderId .. orderIdCounter' - 1
  BY <1>1 DEF placeOrder, FirstOrderId
<1> HIDE DEF S, placed
<1>5. /\ orders' \in [S \cup {orderIdCounter} -> Order]
      /\ orders'[orderIdCounter] = placed
      /\ \A i \in S \ {orderIdCounter} : orders'[i] = orders[i]
      /\ callbacks' \in Seq(Observer)
  BY <1>1, <1>2, <1>3, ChangeOrderMap, ChangeOrderObservers
<1>6. \A id \in DOMAIN orders' : orders'[id].status # "REJECTED"
  <2>1. \A id \in S : orders[id].status # "REJECTED"
    BY <1>1 DEF OrderManagerTypeOK
  <2> QED
    BY <1>2, <1>5, <2>1
<1>7. /\ orderIdCounter' \in Nat /\ totalOrdersPlaced' \in Nat
      /\ orderIdCounter' = FirstOrderId + totalOrdersPlaced'
      /\ trades' \in Seq(Trade) /\ totalTradesExecuted' = Len(trades')
  BY DEF placeOrder, OrderManagerTypeOK, FirstOrderId, tradeVars
<1>8. DOMAIN orders' = S \cup {orderIdCounter}
  BY <1>5
<1> QED
  BY <1>4, <1>5, <1>6, <1>7, <1>8 DEF OrderManagerTypeOK

(* Cancelling, modifying and executing change an order that is in the map, *)
(* and may add to the trade history.                                       *)
LEMMA ChangeType ==
  ASSUME OrderManagerTypeOK, NEW id \in DOMAIN orders, NEW order \in Order,
         order.status # "REJECTED", ChangeOrder(id, order),
         UNCHANGED <<orderIdCounter, totalOrdersPlaced>>,
         trades' \in Seq(Trade), totalTradesExecuted' = Len(trades')
  PROVE  OrderManagerTypeOK'
<1> DEFINE S == FirstOrderId .. orderIdCounter - 1
<1>1. orders \in [S -> Order] /\ callbacks \in Seq(Observer) /\ id \in S
      /\ id \in Nat
  BY DEF OrderManagerTypeOK, FirstOrderId
<1>2. S \cup {id} = S
  BY <1>1
<1>3. S = FirstOrderId .. orderIdCounter' - 1
  OBVIOUS
<1> HIDE DEF S
<1>4. /\ orders' \in [S -> Order] /\ orders'[id] = order
      /\ \A i \in S \ {id} : orders'[i] = orders[i]
      /\ callbacks' \in Seq(Observer)
  BY <1>1, <1>2, ChangeOrderMap, ChangeOrderObservers
<1>5. \A i \in DOMAIN orders' : orders'[i].status # "REJECTED"
  <2>1. \A i \in S : orders[i].status # "REJECTED"
    BY <1>1 DEF OrderManagerTypeOK
  <2> QED
    BY <1>4, <2>1
<1>6. DOMAIN orders' = S
  BY <1>4
<1> QED
  BY <1>3, <1>4, <1>5, <1>6 DEF OrderManagerTypeOK

LEMMA TradesUnchanged ==
  ASSUME OrderManagerTypeOK, UNCHANGED tradeVars
  PROVE  trades' \in Seq(Trade) /\ totalTradesExecuted' = Len(trades')
BY DEF OrderManagerTypeOK, tradeVars

LEMMA CancelType ==
  ASSUME OrderManagerTypeOK, NEW id, cancelOrder(id), UNCHANGED tradeVars
  PROVE  OrderManagerTypeOK'
<1> DEFINE cancelled == [orders[id] EXCEPT !.status = "CANCELLED"]
<1>1. id \in DOMAIN orders /\ orders[id] \in Order
  BY DEF cancelOrder, IsPending, OrderManagerTypeOK
<1>2. cancelled \in Order /\ cancelled.status # "REJECTED"
  BY <1>1 DEF Order, OrderStatus
<1>3. ChangeOrder(id, cancelled) /\ UNCHANGED <<orderIdCounter, totalOrdersPlaced>>
  BY DEF cancelOrder
<1> HIDE DEF cancelled
<1> QED
  BY <1>1, <1>2, <1>3, ChangeType, TradesUnchanged

LEMMA ModifyType ==
  ASSUME OrderManagerTypeOK, NEW id, NEW price \in Nat, NEW quantity \in Nat,
         modifyOrder(id, price, quantity), UNCHANGED tradeVars
  PROVE  OrderManagerTypeOK'
<1> DEFINE modified ==
      [orders[id] EXCEPT !.price = price, !.quantity = quantity]
<1>1. id \in DOMAIN orders /\ orders[id] \in Order /\ orders[id].status = "PENDING"
  BY DEF modifyOrder, IsPending, OrderManagerTypeOK
<1>2. modified \in Order /\ modified.status # "REJECTED"
  BY <1>1 DEF Order, OrderStatus
<1>3. ChangeOrder(id, modified) /\ UNCHANGED <<orderIdCounter, totalOrdersPlaced>>
  BY DEF modifyOrder
<1> HIDE DEF modified
<1> QED
  BY <1>1, <1>2, <1>3, ChangeType, TradesUnchanged

LEMMA FilledType ==
  ASSUME NEW order \in Order, NEW quantity \in Nat
  PROVE  Filled(order, quantity) \in Order /\ Filled(order, quantity).status # "REJECTED"
<1>1. (IF quantity = order.quantity THEN "FILLED" ELSE "PARTIAL")
        \in {"FILLED", "PARTIAL"}
  OBVIOUS
<1> QED
  BY <1>1 DEF Filled, Order, OrderStatus

LEMMA ExecutionType ==
  ASSUME OrderManagerTypeOK, NEW id, NEW quantity \in Nat,
         simulateOrderExecution(id, quantity), UNCHANGED tradeVars
  PROVE  OrderManagerTypeOK'
<1>1. UNCHANGED <<orderIdCounter, totalOrdersPlaced>>
  BY DEF simulateOrderExecution
<1>2. CASE id \in DOMAIN orders
  <2>1. orders[id] \in Order
    BY <1>2 DEF OrderManagerTypeOK
  <2>2. ChangeOrder(id, Filled(orders[id], quantity))
    BY <1>2 DEF simulateOrderExecution
  <2> QED
    BY <1>1, <1>2, <2>1, <2>2, FilledType, ChangeType, TradesUnchanged
<1>3. CASE id \notin DOMAIN orders
  BY <1>1, <1>3 DEF simulateOrderExecution, OrderManagerTypeOK, tradeVars
<1> QED
  BY <1>2, <1>3

LEMMA TradeType ==
  ASSUME OrderManagerTypeOK, NEW trade \in Trade, simulateTrade(trade),
         UNCHANGED orderVars
  PROVE  OrderManagerTypeOK'
<1>1. trades' \in Seq(Trade) /\ totalTradesExecuted' = Len(trades')
  BY DEF OrderManagerTypeOK, simulateTrade
<1> QED
  BY <1>1 DEF OrderManagerTypeOK, orderVars

LEMMA RegisterType ==
  ASSUME OrderManagerTypeOK, registerOrderCallback, UNCHANGED tradeVars
  PROVE  OrderManagerTypeOK'
<1>1. [since |-> orderIdCounter, told |-> {}] \in Observer
  BY DEF Observer, OrderManagerTypeOK
<1>2. callbacks' \in Seq(Observer)
  BY <1>1 DEF registerOrderCallback, OrderManagerTypeOK
<1> QED
  BY <1>2 DEF registerOrderCallback, OrderManagerTypeOK, tradeVars

LEMMA UnchangedType ==
  ASSUME OrderManagerTypeOK, UNCHANGED omVars
  PROVE  OrderManagerTypeOK'
BY DEF OrderManagerTypeOK, omVars, orderVars, tradeVars

-----------------------------------------------------------------------------
LEMMA NewOrderType ==
  ASSUME NEW side \in OrderSide, NEW price \in Prices, NEW quantity \in Quantities
  PROVE  /\ NewOrder(side, price, quantity) \in Order
         /\ NewOrder(side, price, quantity).filledQuantity = 0
BY OrderAssumption DEF OrderAssumption, NewOrder, Order, OrderStatus

(* Type correctness: placeOrder() gives out the ids in order without a     *)
(* gap, and the two counters count the map and the trade history, whatever *)
(* the clients call.                                                       *)
LEMMA TypeStep ==
  ASSUME OrderManagerTypeOK, [ClientsNext]_clientsVars
  PROVE  OrderManagerTypeOK'
<1>1. CASE PlaceAny
  BY <1>1, NewOrderType, PlaceType DEF PlaceAny
<1>2. CASE CancelAny
  BY <1>2, CancelType DEF CancelAny
<1>3. CASE ModifyAny
  BY <1>3, ModifyType, OrderAssumption DEF ModifyAny, OrderAssumption
<1>4. CASE ExecuteAny
  <2>1. PICK id \in FirstOrderId .. orderIdCounter, quantity \in Quantities :
          simulateOrderExecution(id, quantity)
    BY <1>4 DEF ExecuteAny
  <2> QED
    BY <1>4, <2>1, ExecutionType, OrderAssumption DEF ExecuteAny, OrderAssumption
<1>5. CASE TradeAny
  <2>1. PICK id \in FirstOrderId .. orderIdCounter,
             side \in OrderSide, price \in Prices, quantity \in Quantities :
          simulateTrade([tradeId |-> id, orderId |-> id, side |-> side,
                         price |-> price, quantity |-> quantity])
    BY <1>5 DEF TradeAny
  <2> DEFINE trade == [tradeId |-> id, orderId |-> id, side |-> side,
                       price |-> price, quantity |-> quantity]
  <2>2. id \in Nat
    BY DEF OrderManagerTypeOK, FirstOrderId
  <2>3. trade \in Trade
    BY <2>2, OrderAssumption DEF Trade, OrderAssumption
  <2>4. simulateTrade(trade) /\ UNCHANGED orderVars
    BY <1>5, <2>1 DEF TradeAny
  <2> HIDE DEF trade
  <2> QED
    BY <2>3, <2>4, TradeType
<1>6. CASE RegisterAny
  BY <1>6, RegisterType DEF RegisterAny
<1>7. CASE UNCHANGED clientsVars
  BY <1>7, UnchangedType DEF clientsVars
<1> QED
  BY <1>1, <1>2, <1>3, <1>4, <1>5, <1>6, <1>7 DEF ClientsNext

THEOREM OrderManagerTypeCorrect == ClientsSpec => []OrderManagerTypeOK
BY OrderManagerTypeInit, TypeStep, PTL DEF ClientsSpec, ClientsInit

-----------------------------------------------------------------------------
(* The pictures of the observers follow every change of one order, whether *)
(* it is in the map or is the next to be placed.                           *)
LEMMA ChangeKeepsAgreement ==
  ASSUME OrderManagerTypeOK, ObserversAgree,
         NEW id \in Nat, NEW order \in Order, ChangeOrder(id, order),
         \/ id \in DOMAIN orders /\ orderIdCounter' = orderIdCounter
         \/ id = orderIdCounter /\ orderIdCounter' = orderIdCounter + 1
  PROVE  ObserversAgree'
<1>1. /\ callbacks \in Seq(Observer) /\ orderIdCounter \in Nat
      /\ DOMAIN orders = FirstOrderId .. orderIdCounter - 1
      /\ orders \in [DOMAIN orders -> Order]
  BY DEF OrderManagerTypeOK
<1>2. /\ DOMAIN orders' = DOMAIN orders \cup {id}
      /\ orders'[id] = order
      /\ \A i \in DOMAIN orders \ {id} : orders'[i] = orders[i]
  BY <1>1, ChangeOrderMap
<1>3. /\ DOMAIN callbacks' = DOMAIN callbacks
      /\ \A c \in DOMAIN callbacks :
           /\ callbacks'[c].since = callbacks[c].since
           /\ callbacks'[c].told = Heard(callbacks[c].told, id, order)
  BY <1>1, ChangeOrderObservers
<1> SUFFICES ASSUME NEW c \in DOMAIN callbacks'
             PROVE  /\ callbacks'[c].told
                         \subseteq {<<i, orders'[i]>> : i \in DOMAIN orders'}
                    /\ {<<i, orders'[i]>> :
                          i \in callbacks'[c].since .. orderIdCounter' - 1}
                         \subseteq callbacks'[c].told
  BY DEF ObserversAgree
<1> DEFINE told == callbacks[c].told
           since == callbacks[c].since
<1>4. /\ c \in DOMAIN callbacks
      /\ since \in Nat
      /\ told \subseteq {<<i, orders[i]>> : i \in DOMAIN orders}
      /\ {<<i, orders[i]>> : i \in since .. orderIdCounter - 1} \subseteq told
      /\ callbacks'[c].since = since
      /\ callbacks'[c].told = Heard(told, id, order)
  <2>1. c \in DOMAIN callbacks
    BY <1>3
  <2>2. callbacks[c] \in Observer
    BY <1>1, <2>1
  <2> QED
    BY <1>3, <2>1, <2>2 DEF ObserversAgree, Observer
<1> HIDE DEF told, since
<1>5. Heard(told, id, order) \subseteq {<<i, orders'[i]>> : i \in DOMAIN orders'}
  <2> SUFFICES ASSUME NEW known \in Heard(told, id, order)
               PROVE  \E i \in DOMAIN orders' : known = <<i, orders'[i]>>
    OBVIOUS
  <2>1. CASE known = <<id, order>>
    BY <2>1, <1>2
  <2>2. CASE known \in told /\ known[1] # id
    <3>1. PICK i \in DOMAIN orders : known = <<i, orders[i]>>
      BY <2>2, <1>4
    <3>2. i # id
      BY <2>2, <3>1
    <3> QED
      BY <3>1, <3>2, <1>2
  <2> QED
    BY <2>1, <2>2 DEF Heard
<1>6. {<<i, orders'[i]>> : i \in since .. orderIdCounter' - 1}
        \subseteq Heard(told, id, order)
  <2> SUFFICES ASSUME NEW i \in since .. orderIdCounter' - 1
               PROVE  <<i, orders'[i]>> \in Heard(told, id, order)
    OBVIOUS
  <2>1. CASE i = id
    BY <2>1, <1>2 DEF Heard
  <2>2. CASE i # id
    <3>1. i \in since .. orderIdCounter - 1
      BY <2>2, <1>1, <1>4
    <3>2. <<i, orders[i]>> \in told
      BY <3>1, <1>4
    <3>3. i \in DOMAIN orders
      <4>1. PICK j \in DOMAIN orders : <<i, orders[i]>> = <<j, orders[j]>>
        BY <3>2, <1>4
      <4> QED
        BY <4>1
    <3> QED
      BY <2>2, <3>2, <3>3, <1>2 DEF Heard
  <2> QED
    BY <2>1, <2>2
<1> QED
  BY <1>4, <1>5, <1>6

(* An observer that is registered starts with the next order. *)
LEMMA RegisterKeepsAgreement ==
  ASSUME OrderManagerTypeOK, ObserversAgree, registerOrderCallback
  PROVE  ObserversAgree'
<1> DEFINE fresh == [since |-> orderIdCounter, told |-> {}]
<1>1. callbacks \in Seq(Observer) /\ orderIdCounter \in Nat
  BY DEF OrderManagerTypeOK
<1>2. /\ callbacks' = Append(callbacks, fresh)
      /\ orders' = orders /\ orderIdCounter' = orderIdCounter
  BY DEF registerOrderCallback
<1>3. /\ DOMAIN callbacks' = DOMAIN callbacks \cup {Len(callbacks) + 1}
      /\ \A c \in DOMAIN callbacks : callbacks'[c] = callbacks[c]
      /\ callbacks'[Len(callbacks) + 1] = fresh
  BY <1>1, <1>2
<1>4. fresh.since .. orderIdCounter' - 1 = {}
  BY <1>1, <1>2
<1> QED
  BY <1>2, <1>3, <1>4 DEF ObserversAgree

(* An execution changes the order, or nothing if there is none. *)
LEMMA ExecuteIsChange ==
  ASSUME OrderManagerTypeOK, ExecuteAny
  PROVE  \/ UNCHANGED <<orderVars, executions>>
         \/ \E id \in DOMAIN orders, quantity \in Nat :
              /\ id \in Nat /\ Filled(orders[id], quantity) \in Order
              /\ ChangeOrder(id, Filled(orders[id], quantity))
              /\ orderIdCounter' = orderIdCounter
              /\ executions' = Append(executions, <<id, quantity>>)
<1>1. PICK id \in FirstOrderId .. orderIdCounter, quantity \in Quantities :
        /\ simulateOrderExecution(id, quantity)
        /\ executions' = IF id \in DOMAIN orders
                         THEN Append(executions, <<id, quantity>>) ELSE executions
  BY DEF ExecuteAny
<1>2. quantity \in Nat /\ id \in Nat
  BY OrderAssumption DEF OrderAssumption, OrderManagerTypeOK, FirstOrderId
<1>3. CASE id \in DOMAIN orders
  <2>1. orders[id] \in Order
    BY <1>3 DEF OrderManagerTypeOK
  <2>2. Filled(orders[id], quantity) \in Order
    BY <1>2, <2>1, FilledType
  <2> QED
    BY <1>1, <1>2, <1>3, <2>2 DEF simulateOrderExecution
<1>4. CASE id \notin DOMAIN orders
  BY <1>1, <1>4 DEF simulateOrderExecution, orderVars
<1> QED
  BY <1>3, <1>4

(* Whatever the clients call and whenever an observer is registered, what  *)
(* it was last told of an order is what the order is, and it was told of   *)
(* every order placed since.                                               *)
THEOREM ObserversCorrect == ClientsSpec => []ObserversAgree
<1>1. ClientsInit => OrderManagerTypeOK /\ ObserversAgree
  BY OrderManagerTypeInit DEF ClientsInit, OrderManagerInit, ObserversAgree
<1>2. ASSUME OrderManagerTypeOK, ObserversAgree, [ClientsNext]_clientsVars
      PROVE  ObserversAgree'
  <2>1. CASE PlaceAny
    <3>1. PICK side \in OrderSide, price \in Prices, quantity \in Quantities :
            placeOrder(NewOrder(side, price, quantity))
      BY <2>1 DEF PlaceAny
    <3> DEFINE placed == [NewOrder(side, price, quantity) EXCEPT !.status = "PENDING"]
    <3>2. placed \in Order
      BY NewOrderType DEF Order, OrderStatus
    <3>3. ChangeOrder(orderIdCounter, placed) /\ orderIdCounter' = orderIdCounter + 1
      BY <3>1 DEF placeOrder
    <3>4. orderIdCounter \in Nat
      BY <1>2 DEF OrderManagerTypeOK
    <3> HIDE DEF placed
    <3> QED
      BY <1>2, <3>2, <3>3, <3>4, ChangeKeepsAgreement
  <2>2. CASE CancelAny
    <3>1. PICK id \in DOMAIN orders : cancelOrder(id)
      BY <2>2 DEF CancelAny
    <3> DEFINE cancelled == [orders[id] EXCEPT !.status = "CANCELLED"]
    <3>2. id \in Nat /\ orders[id] \in Order
      BY <1>2 DEF OrderManagerTypeOK, FirstOrderId
    <3>3. cancelled \in Order
      BY <3>2 DEF Order, OrderStatus
    <3>4. ChangeOrder(id, cancelled) /\ orderIdCounter' = orderIdCounter
      BY <3>1 DEF cancelOrder
    <3> HIDE DEF cancelled
    <3> QED
      BY <1>2, <3>2, <3>3, <3>4, ChangeKeepsAgreement
  <2>3. CASE ModifyAny
    <3>1. PICK id \in DOMAIN orders, price \in Prices, quantity \in Quantities :
            modifyOrder(id, price, quantity)
      BY <2>3 DEF ModifyAny
    <3> DEFINE modified ==
          [orders[id] EXCEPT !.price = price, !.quantity = quantity]
    <3>2. id \in Nat /\ orders[id] \in Order
      BY <1>2 DEF OrderManagerTypeOK, FirstOrderId
    <3>3. modified \in Order
      BY <3>2, OrderAssumption DEF Order, OrderAssumption
    <3>4. ChangeOrder(id, modified) /\ orderIdCounter' = orderIdCounter
      BY <3>1 DEF modifyOrder
    <3> HIDE DEF modified
    <3> QED
      BY <1>2, <3>2, <3>3, <3>4, ChangeKeepsAgreement
  <2>4. CASE ExecuteAny
    <3>1. CASE UNCHANGED <<orderVars, executions>>
      BY <1>2, <3>1 DEF ObserversAgree, orderVars
    <3>2. CASE ~UNCHANGED <<orderVars, executions>>
      <4>1. PICK id \in DOMAIN orders, quantity \in Nat :
              /\ id \in Nat /\ Filled(orders[id], quantity) \in Order
              /\ ChangeOrder(id, Filled(orders[id], quantity))
              /\ orderIdCounter' = orderIdCounter
        BY <1>2, <2>4, <3>2, ExecuteIsChange
      <4> QED
        BY <1>2, <4>1, ChangeKeepsAgreement
    <3> QED
      BY <3>1, <3>2
  <2>5. CASE TradeAny
    BY <1>2, <2>5 DEF TradeAny, ObserversAgree, orderVars
  <2>6. CASE RegisterAny
    BY <1>2, <2>6, RegisterKeepsAgreement DEF RegisterAny
  <2>7. CASE UNCHANGED clientsVars
    BY <1>2, <2>7 DEF ObserversAgree, clientsVars, omVars, orderVars
  <2> QED
    BY <1>2, <2>1, <2>2, <2>3, <2>4, <2>5, <2>6, <2>7 DEF ClientsNext
<1> QED
  BY <1>1, <1>2, TypeStep, PTL DEF ClientsSpec

-----------------------------------------------------------------------------
(* What a history of executions tells of one order, and what one more      *)
(* execution, of another order or of this one, makes of it.                *)
Truthful(o, id, history) ==
  \/ /\ o.status \in {"PENDING", "CANCELLED"} /\ o.filledQuantity = 0
     /\ \A i \in DOMAIN history : history[i][1] # id
  \/ \E i \in DOMAIN history :
       /\ history[i][1] = id
       /\ \A j \in i + 1 .. Len(history) : history[j][1] # id
       /\ o.filledQuantity = history[i][2]
       /\ o.status = IF history[i][2] = o.quantity THEN "FILLED" ELSE "PARTIAL"

LEMMA OtherExecuted ==
  ASSUME NEW history \in Seq(Nat \X Nat), NEW id, NEW other \in Nat, NEW quantity \in Nat,
         other # id, NEW o, Truthful(o, id, history)
  PROVE  Truthful(o, id, Append(history, <<other, quantity>>))
<1> DEFINE h == Append(history, <<other, quantity>>)
           n == Len(history)
<1>1. n \in Nat /\ DOMAIN history = 1 .. n
  BY LenProperties
<1>2. /\ Len(h) = n + 1 /\ DOMAIN h = 1 .. n + 1
      /\ \A i \in 1 .. n : h[i] = history[i]
      /\ h[n + 1] = <<other, quantity>>
  OBVIOUS
<1> HIDE DEF h, n
<1>3. h[n + 1][1] # id
  BY <1>2
<1>4. CASE \A i \in DOMAIN history : history[i][1] # id
  <2>1. \A i \in DOMAIN h : h[i][1] # id
    BY <1>1, <1>2, <1>3, <1>4
  <2>2. o.status \in {"PENDING", "CANCELLED"} /\ o.filledQuantity = 0
    BY <1>4 DEF Truthful
  <2> QED
    BY <2>1, <2>2 DEF Truthful, h
<1>5. CASE ~(\A i \in DOMAIN history : history[i][1] # id)
  <2>1. PICK i \in DOMAIN history :
          /\ history[i][1] = id
          /\ \A j \in i + 1 .. n : history[j][1] # id
          /\ o.filledQuantity = history[i][2]
          /\ o.status = IF history[i][2] = o.quantity THEN "FILLED" ELSE "PARTIAL"
    BY <1>5 DEF Truthful, n
  <2>2. i \in DOMAIN h /\ h[i] = history[i]
    BY <1>1, <1>2, <2>1
  <2>3. \A j \in i + 1 .. Len(h) : h[j][1] # id
    BY <1>1, <1>2, <1>3, <2>1
  <2> QED
    BY <2>1, <2>2, <2>3 DEF Truthful, h
<1> QED
  BY <1>4, <1>5

LEMMA OrderExecuted ==
  ASSUME NEW history \in Seq(Nat \X Nat), NEW id \in Nat, NEW quantity \in Nat,
         NEW o \in Order
  PROVE  Truthful(Filled(o, quantity), id, Append(history, <<id, quantity>>))
<1> DEFINE h == Append(history, <<id, quantity>>)
           n == Len(history) + 1
<1>1. n \in Nat /\ Len(h) = n /\ n \in DOMAIN h /\ h[n] = <<id, quantity>>
  BY LenProperties
<1>2. n + 1 .. Len(h) = {}
  BY <1>1
<1>3. /\ Filled(o, quantity).filledQuantity = quantity
      /\ Filled(o, quantity).quantity = o.quantity
      /\ Filled(o, quantity).status = IF quantity = o.quantity THEN "FILLED" ELSE "PARTIAL"
  BY DEF Filled, Order
<1> HIDE DEF h, n
<1>4. h[n][1] = id /\ h[n][2] = quantity
  BY <1>1
<1> QED
  BY <1>1, <1>2, <1>3, <1>4 DEF Truthful, h

(* FillStatusTruthful is inductive together with this: only orders that    *)
(* are in the map have been executed, so the next one to be placed has not *)
(* been.                                                                   *)
ExecutionsInv ==
  /\ executions \in Seq(Nat \X Nat)
  /\ \A i \in DOMAIN executions : executions[i][1] \in DOMAIN orders

LEMMA TruthOfEach ==
  FillStatusTruthful <=> \A id \in DOMAIN orders : Truthful(orders[id], id, executions)
BY DEF FillStatusTruthful, Truthful, IsLastOf

(* A change of one order that is no execution. *)
LEMMA ChangeKeepsTruth ==
  ASSUME OrderManagerTypeOK, FillStatusTruthful, ExecutionsInv, UNCHANGED executions,
         NEW id, NEW order \in Order, ChangeOrder(id, order),
         order.status \in {"PENDING", "CANCELLED"}, order.filledQuantity = 0,
         \A i \in DOMAIN executions : executions[i][1] # id
  PROVE  FillStatusTruthful' /\ ExecutionsInv'
<1>1. orders \in [DOMAIN orders -> Order]
  BY DEF OrderManagerTypeOK
<1>2. /\ DOMAIN orders' = DOMAIN orders \cup {id}
      /\ orders'[id] = order
      /\ \A i \in DOMAIN orders \ {id} : orders'[i] = orders[i]
  BY <1>1, ChangeOrderMap
<1>3. Truthful(order, id, executions)
  BY DEF Truthful
<1>4. \A i \in DOMAIN orders' : Truthful(orders'[i], i, executions')
  BY <1>2, <1>3, TruthOfEach
<1>5. FillStatusTruthful'
  BY <1>4, TruthOfEach DEF FillStatusTruthful, Truthful, IsLastOf
<1> QED
  BY <1>2, <1>5 DEF ExecutionsInv

(* An order that is pending has nothing filled and was never executed. *)
LEMMA PendingIsUntouched ==
  ASSUME FillStatusTruthful, NEW id, IsPending(id)
  PROVE  /\ orders[id].filledQuantity = 0
         /\ \A i \in DOMAIN executions : executions[i][1] # id
<1>1. id \in DOMAIN orders /\ orders[id].status = "PENDING"
  BY DEF IsPending
<1>2. Truthful(orders[id], id, executions)
  BY <1>1, TruthOfEach
<1> QED
  BY <1>1, <1>2 DEF Truthful

LEMMA ExecuteKeepsTruth ==
  ASSUME OrderManagerTypeOK, FillStatusTruthful, ExecutionsInv, ExecuteAny
  PROVE  FillStatusTruthful' /\ ExecutionsInv'
<1>1. CASE UNCHANGED <<orderVars, executions>>
  BY <1>1 DEF FillStatusTruthful, ExecutionsInv, IsLastOf, orderVars
<1>2. CASE ~UNCHANGED <<orderVars, executions>>
  <2>1. PICK id \in DOMAIN orders, quantity \in Nat :
          /\ id \in Nat /\ Filled(orders[id], quantity) \in Order
          /\ ChangeOrder(id, Filled(orders[id], quantity))
          /\ executions' = Append(executions, <<id, quantity>>)
    BY <1>2, ExecuteIsChange
  <2>2. orders \in [DOMAIN orders -> Order]
    BY DEF OrderManagerTypeOK
  <2>3. /\ DOMAIN orders' = DOMAIN orders
        /\ orders'[id] = Filled(orders[id], quantity)
        /\ \A i \in DOMAIN orders \ {id} : orders'[i] = orders[i]
    <3>1. /\ DOMAIN orders' = DOMAIN orders \cup {id}
          /\ orders'[id] = Filled(orders[id], quantity)
          /\ \A i \in DOMAIN orders \ {id} : orders'[i] = orders[i]
      BY <2>1, <2>2, ChangeOrderMap
    <3> QED
      BY <3>1
  <2>4. executions \in Seq(Nat \X Nat) /\ orders[id] \in Order
    BY <2>2 DEF ExecutionsInv
  <2>5. ASSUME NEW i \in DOMAIN orders'
        PROVE  Truthful(orders'[i], i, executions')
    <3>1. CASE i = id
      BY <2>1, <2>3, <2>4, <3>1, OrderExecuted
    <3>2. CASE i # id
      <4>1. Truthful(orders[i], i, executions) /\ orders'[i] = orders[i]
        BY <2>3, <2>5, <3>2, TruthOfEach
      <4> QED
        BY <2>1, <2>4, <3>2, <4>1, OtherExecuted
    <3> QED
      BY <3>1, <3>2
  <2>6. FillStatusTruthful'
    BY <2>5 DEF FillStatusTruthful, Truthful, IsLastOf
  <2>7. ExecutionsInv'
    <3>1. /\ executions' \in Seq(Nat \X Nat)
          /\ DOMAIN executions' = DOMAIN executions \cup {Len(executions) + 1}
          /\ \A i \in DOMAIN executions : executions'[i] = executions[i]
          /\ executions'[Len(executions) + 1] = <<id, quantity>>
      BY <2>1, <2>4
    <3> QED
      BY <2>3, <3>1 DEF ExecutionsInv
  <2> QED
    BY <2>6, <2>7
<1> QED
  BY <1>1, <1>2

(* No sequence of calls, whatever their arguments, makes the status or the *)
(* filled quantity of an order say anything but what was last executed of  *)
(* it; what was executed before is forgotten.                              *)
THEOREM FillStatusCorrect == ClientsSpec => []FillStatusTruthful
<1>1. ClientsInit => OrderManagerTypeOK /\ FillStatusTruthful /\ ExecutionsInv
  BY OrderManagerTypeInit
  DEF ClientsInit, OrderManagerInit, FillStatusTruthful, ExecutionsInv
<1>2. ASSUME OrderManagerTypeOK, FillStatusTruthful, ExecutionsInv,
             [ClientsNext]_clientsVars
      PROVE  FillStatusTruthful' /\ ExecutionsInv'
  <2>1. CASE PlaceAny
    <3>1. PICK side \in OrderSide, price \in Prices, quantity \in Quantities :
            placeOrder(NewOrder(side, price, quantity))
      BY <2>1 DEF PlaceAny
    <3> DEFINE placed == [NewOrder(side, price, quantity) EXCEPT !.status = "PENDING"]
    <3>2. placed \in Order /\ placed.status = "PENDING" /\ placed.filledQuantity = 0
      BY NewOrderType DEF Order, OrderStatus
    <3>3. ChangeOrder(orderIdCounter, placed) /\ UNCHANGED executions
      BY <2>1, <3>1 DEF placeOrder, PlaceAny
    <3>4. orderIdCounter \notin DOMAIN orders
      BY <1>2 DEF OrderManagerTypeOK
    <3> HIDE DEF placed
    <3> QED
      BY <1>2, <3>2, <3>3, <3>4, ChangeKeepsTruth DEF ExecutionsInv
  <2>2. CASE CancelAny
    <3>1. PICK id \in DOMAIN orders : cancelOrder(id)
      BY <2>2 DEF CancelAny
    <3> DEFINE cancelled == [orders[id] EXCEPT !.status = "CANCELLED"]
    <3>2. orders[id] \in Order /\ IsPending(id)
      BY <1>2, <3>1 DEF OrderManagerTypeOK, cancelOrder
    <3>3. /\ cancelled \in Order /\ cancelled.status = "CANCELLED"
          /\ cancelled.filledQuantity = 0
      BY <1>2, <3>2, PendingIsUntouched DEF Order, OrderStatus
    <3>4. ChangeOrder(id, cancelled) /\ UNCHANGED executions
      BY <2>2, <3>1 DEF cancelOrder, CancelAny
    <3> HIDE DEF cancelled
    <3> QED
      BY <1>2, <3>2, <3>3, <3>4, PendingIsUntouched, ChangeKeepsTruth
  <2>3. CASE ModifyAny
    <3>1. PICK id \in DOMAIN orders, price \in Prices, quantity \in Quantities :
            modifyOrder(id, price, quantity)
      BY <2>3 DEF ModifyAny
    <3> DEFINE modified ==
          [orders[id] EXCEPT !.price = price, !.quantity = quantity]
    <3>2. orders[id] \in Order /\ IsPending(id)
      BY <1>2, <3>1 DEF OrderManagerTypeOK, modifyOrder
    <3>3. /\ modified \in Order /\ modified.status = "PENDING"
          /\ modified.filledQuantity = 0
      BY <1>2, <3>2, PendingIsUntouched, OrderAssumption
      DEF Order, OrderAssumption, IsPending
    <3>4. ChangeOrder(id, modified) /\ UNCHANGED executions
      BY <2>3, <3>1 DEF modifyOrder, ModifyAny
    <3> HIDE DEF modified
    <3> QED
      BY <1>2, <3>2, <3>3, <3>4, PendingIsUntouched, ChangeKeepsTruth
  <2>4. CASE ExecuteAny
    BY <1>2, <2>4, ExecuteKeepsTruth
  <2>5. CASE TradeAny \/ RegisterAny \/ UNCHANGED clientsVars
    <3>1. UNCHANGED <<orders, executions>>
      BY <2>5 DEF TradeAny, RegisterAny, registerOrderCallback, clientsVars, omVars,
                  orderVars
    <3> QED
      BY <1>2, <3>1 DEF FillStatusTruthful, ExecutionsInv, IsLastOf
  <2> QED
    BY <1>2, <2>1, <2>2, <2>3, <2>4, <2>5 DEF ClientsNext
<1> QED
  BY <1>1, <1>2, TypeStep, PTL DEF ClientsSpec
=============================================================================
