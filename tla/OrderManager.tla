---------------------------- MODULE OrderManager ----------------------------
(***************************************************************************)
(* The order manager: the map of orders, the trade history, the counters   *)
(* and the observers of class OrderManager.  A method is one step, because *)
(* it runs under orderMutex or tradeMutex from its first to its last line. *)
(* registerOrderCallback() alone takes no mutex and is a step of its own   *)
(* all the same: that its push_back() races with the loop over the vector  *)
(* is not here but in LockDiscipline, and what the race leads to is        *)
(* undefined.  This module holds the state and the operations;             *)
(* OrderManagerClients calls them in any order, ExecutionEngine calls them *)
(* as the threads of the program do.                                       *)
(*                                                                         *)
(* An operation constrains only the variables its method assigns; whoever  *)
(* calls it says what else is unchanged.  A method that returns false or   *)
(* finds no order changes nothing.                                         *)
(***************************************************************************)
EXTENDS Integers, Sequences, FiniteSets

CONSTANTS
  Prices,      (* the prices an order may carry     *)
  Quantities   (* the quantities an order may carry *)

ASSUME OrderAssumption ==
  /\ Prices \subseteq Nat
  /\ Quantities \subseteq Nat

VARIABLES
  orderIdCounter,       (* the next order id                                  *)
  orders,               (* std::map from order id to Order                    *)
  trades,               (* the trade history                                  *)
  totalOrdersPlaced,    (* atomic, read without a lock                        *)
  totalTradesExecuted,  (* atomic, read without a lock                        *)
  callbacks             (* the registered observers, each with what it knows: *)
                        (* the id the counter held when it was registered and *)
                        (* the last Order it was told of each order, as pairs *)
                        (* of an id and an Order                              *)

orderVars == <<orderIdCounter, orders, totalOrdersPlaced, callbacks>>
tradeVars == <<trades, totalTradesExecuted>>
omVars == <<orderVars, tradeVars>>

FirstOrderId == 1000
OrderSide == {"BUY", "SELL"}
OrderStatus == {"PENDING", "FILLED", "PARTIAL", "CANCELLED", "REJECTED"}

(* The fields of an order that some operation reads or writes. *)
Order == [side : OrderSide, price : Nat, quantity : Nat,
          filledQuantity : Nat, status : OrderStatus]
Trade == [tradeId : Nat, orderId : Nat, side : OrderSide,
          price : Nat, quantity : Nat]

Observer == [since : Nat, told : SUBSET (Nat \X Order)]

(* The order a client fills in before it places it. *)
NewOrder(side, price, quantity) ==
  [side |-> side, price |-> price, quantity |-> quantity,
   filledQuantity |-> 0, status |-> "PENDING"]

OrderManagerInit ==
  /\ orderIdCounter = FirstOrderId
  /\ orders = [id \in {} |-> NewOrder("BUY", 0, 0)]
  /\ trades = <<>>
  /\ totalOrdersPlaced = 0
  /\ totalTradesExecuted = 0
  /\ callbacks = <<>>

-----------------------------------------------------------------------------
(* std::map::operator[] with an assignment. *)
Stored(map, id, order) ==
  [i \in DOMAIN map \cup {id} |-> IF i = id THEN order ELSE map[i]]

(* What an observer knows after it was called with an order. *)
Heard(told, id, order) == {known \in told : known[1] # id} \cup {<<id, order>>}

\* Mutated form: only the first observer is called.
notifyOrderChangedFirst(id, order) ==
  callbacks' = [c \in DOMAIN callbacks |->
                  IF c = 1 THEN [callbacks[c] EXCEPT !.told = Heard(@, id, order)]
                  ELSE callbacks[c]]

(* notifyOrderChanged: every observer is called with the order, inside the *)
(* critical section of the method that changed it.                         *)
notifyOrderChanged(id, order) ==
  callbacks' = [c \in DOMAIN callbacks |->
                  [callbacks[c] EXCEPT !.told = Heard(@, id, order)]]

(* The change of one order: it is stored and the observers are told. *)
ChangeOrder(id, order) ==
  /\ orders' = Stored(orders, id, order)
  /\ notifyOrderChanged(id, order)

\* Mutated form: the counter is incremented before it is used.
placeOrderPreincrement(order) ==
  /\ ChangeOrder(orderIdCounter + 1, [order EXCEPT !.status = "PENDING"])
  /\ orderIdCounter' = orderIdCounter + 1
  /\ totalOrdersPlaced' = totalOrdersPlaced + 1

placeOrder(order) ==
  /\ ChangeOrder(orderIdCounter, [order EXCEPT !.status = "PENDING"])
  /\ orderIdCounter' = orderIdCounter + 1
  /\ totalOrdersPlaced' = totalOrdersPlaced + 1

\* Mutated form: any order that is not cancelled may still be changed.
IsPendingOrExecuted(id) ==
  id \in DOMAIN orders /\ orders[id].status # "CANCELLED"

(* The condition under which cancelOrder and modifyOrder do anything. *)
IsPending(id) ==
  id \in DOMAIN orders /\ orders[id].status = "PENDING"

\* Mutated form: the status is not looked at.
cancelAnyOrder(id) ==
  /\ id \in DOMAIN orders
  /\ ChangeOrder(id, [orders[id] EXCEPT !.status = "CANCELLED"])
  /\ UNCHANGED <<orderIdCounter, totalOrdersPlaced>>

cancelOrder(id) ==
  /\ IsPending(id)
  /\ ChangeOrder(id, [orders[id] EXCEPT !.status = "CANCELLED"])
  /\ UNCHANGED <<orderIdCounter, totalOrdersPlaced>>

modifyOrder(id, newPrice, newQuantity) ==
  /\ IsPending(id)
  /\ ChangeOrder(id, [orders[id] EXCEPT !.price = newPrice,
                                        !.quantity = newQuantity])
  /\ UNCHANGED <<orderIdCounter, totalOrdersPlaced>>

\* Mutated form: the comparison is off by one.
FilledBeyond(order, executedQuantity) ==
  [order EXCEPT !.filledQuantity = executedQuantity,
                !.status = IF executedQuantity > order.quantity
                           THEN "FILLED" ELSE "PARTIAL"]

(* An order after an execution: the quantity replaces what was filled      *)
(* before, and the status is set whatever it was.                          *)
Filled(order, executedQuantity) ==
  [order EXCEPT !.filledQuantity = executedQuantity,
                !.status = IF executedQuantity = order.quantity
                           THEN "FILLED" ELSE "PARTIAL"]

(* The execution price is a parameter of the method that it does not use. *)
simulateOrderExecution(id, executedQuantity) ==
  /\ IF id \in DOMAIN orders
     THEN ChangeOrder(id, Filled(orders[id], executedQuantity))
     ELSE UNCHANGED <<orders, callbacks>>
  /\ UNCHANGED <<orderIdCounter, totalOrdersPlaced>>

simulateTrade(trade) ==
  /\ trades' = Append(trades, trade)
  /\ totalTradesExecuted' = totalTradesExecuted + 1

(* Taken as one step, as if no order were being changed meanwhile. *)
registerOrderCallback ==
  /\ callbacks' = Append(callbacks,
                        [since |-> orderIdCounter, told |-> {}])
  /\ UNCHANGED <<orderIdCounter, orders, totalOrdersPlaced>>

-----------------------------------------------------------------------------
(* Type correctness: the ids in the map are the ids the counter has given  *)
(* out, and the two counters count the map and the history.  No operation  *)
(* produces the status REJECTED.                                           *)
OrderManagerTypeOK ==
  /\ orderIdCounter \in Nat
  /\ orderIdCounter = FirstOrderId + totalOrdersPlaced
  /\ totalOrdersPlaced \in Nat
  /\ orders \in [FirstOrderId .. orderIdCounter - 1 -> Order]
  /\ \A id \in DOMAIN orders : orders[id].status # "REJECTED"
  /\ trades \in Seq(Trade)
  /\ totalTradesExecuted = Len(trades)
  /\ callbacks \in Seq(Observer)
=============================================================================
