------------------------ MODULE OrderManagerClients -------------------------
(***************************************************************************)
(* The order manager under clients that call its methods in any order:     *)
(* placing orders as onTick() fills them in, cancelling and modifying      *)
(* them, executing any order any number of times with any quantity, zero   *)
(* included, recording any trade and registering observers.  Nothing here  *)
(* keeps an execution and its trade together; ExecutionEngine makes the    *)
(* two calls as executeOrder() does.                                       *)
(***************************************************************************)
EXTENDS OrderManager

CONSTANTS
  MaxPlaced,      (* bound: orders placed                  *)
  MaxExecutions,  (* bound: executions of orders           *)
  MaxTrades,      (* bound: trades recorded                *)
  MaxCallbacks    (* bound: observers that get registered  *)

VARIABLE
  executions      (* history: every execution of an order so far, as a pair *)
                  (* of its id and the quantity                             *)

clientsVars == <<omVars, executions>>

ClientsInit == OrderManagerInit /\ executions = <<>>

-----------------------------------------------------------------------------
PlaceAny ==
  /\ totalOrdersPlaced < MaxPlaced
  /\ \E side \in OrderSide, price \in Prices, quantity \in Quantities :
       placeOrder(NewOrder(side, price, quantity))
  /\ UNCHANGED <<tradeVars, executions>>

CancelAny ==
  /\ \E id \in DOMAIN orders : cancelOrder(id)
  /\ UNCHANGED <<tradeVars, executions>>

ModifyAny ==
  /\ \E id \in DOMAIN orders, price \in Prices, quantity \in Quantities :
       modifyOrder(id, price, quantity)
  /\ UNCHANGED <<tradeVars, executions>>

(* The method has no guard: any id, one that was not given out included,  *)
(* any quantity, and an order of any status.                               *)
ExecuteAny ==
  /\ Len(executions) < MaxExecutions
  /\ \E id \in FirstOrderId .. orderIdCounter, quantity \in Quantities :
       /\ simulateOrderExecution(id, quantity)
       /\ executions' = IF id \in DOMAIN orders
                        THEN Append(executions, <<id, quantity>>) ELSE executions
  /\ UNCHANGED tradeVars

TradeAny ==
  /\ Len(trades) < MaxTrades
  /\ \E id \in FirstOrderId .. orderIdCounter,
        side \in OrderSide, price \in Prices, quantity \in Quantities :
       simulateTrade([tradeId |-> id, orderId |-> id, side |-> side,
                      price |-> price, quantity |-> quantity])
  /\ UNCHANGED <<orderVars, executions>>

RegisterAny ==
  /\ Len(callbacks) < MaxCallbacks
  /\ registerOrderCallback
  /\ UNCHANGED <<tradeVars, executions>>

ClientsNext ==
  PlaceAny \/ CancelAny \/ ModifyAny \/ ExecuteAny \/ TradeAny \/ RegisterAny
ClientsSpec == ClientsInit /\ [][ClientsNext]_clientsVars

-----------------------------------------------------------------------------
(* Every observer's picture of the orders is the order manager's own: it   *)
(* has been told of every order placed since it was registered, and the    *)
(* last it was told of an order is what the order is now                   *)
(* (notifyOrderChanged is called by every method that changes an order).   *)
ObserversAgree ==
  \A c \in DOMAIN callbacks :
    /\ callbacks[c].told \subseteq {<<id, orders[id]>> : id \in DOMAIN orders}
    /\ {<<id, orders[id]>> : id \in callbacks[c].since .. orderIdCounter - 1}
         \subseteq callbacks[c].told

IsLastOf(id, i) ==
  /\ executions[i][1] = id
  /\ \A j \in i + 1 .. Len(executions) : executions[j][1] # id

(* Status and filled quantity of an order tell what was executed of it,    *)
(* whatever is called in whatever order: a pending or cancelled order was  *)
(* never executed and has nothing filled; any other was, its filled        *)
(* quantity is that of the last execution alone, which overwrites the ones *)
(* before, and it is FILLED exactly if that is its whole quantity, which   *)
(* nobody can change any more.  An execution of nothing makes it PARTIAL.  *)
FillStatusTruthful ==
  \A id \in DOMAIN orders : LET o == orders[id] IN
    \/ /\ o.status \in {"PENDING", "CANCELLED"} /\ o.filledQuantity = 0
       /\ \A i \in DOMAIN executions : executions[i][1] # id
    \/ \E i \in DOMAIN executions :
         /\ IsLastOf(id, i)
         /\ o.filledQuantity = executions[i][2]
         /\ o.status = IF executions[i][2] = o.quantity THEN "FILLED" ELSE "PARTIAL"
=============================================================================
