-------------------------- MODULE EngineProperties --------------------------
(***************************************************************************)
(* What must hold of the execution engine and its order manager.           *)
(***************************************************************************)
EXTENDS ExecutionEngine

(* The request executeOrder() is working on, if any. *)
Executing == {"tick", "fill", "trade", "record"}
executing == IF thread \in Executing THEN {request} ELSE {}

(* The requests that clients have built and not pushed yet. *)
Built == {client[c].request : c \in {d \in Clients : client[d].next = "push"}}

Stopped == controller = "idle" /\ ~running

-----------------------------------------------------------------------------
(* Type correctness of the engine, and where the lock is held. *)
EngineTypeOK ==
  /\ OrderManagerTypeOK
  /\ StatsTypeOK
  /\ running \in BOOLEAN
  /\ executionQueue \subseteq ExecutionRequest
  /\ thread \in {"none", "head", "lock", "predicate", "block", "waiting",
                 "check", "returned"} \cup Executing
  /\ queueMutex = IF thread \in {"predicate", "block", "check"}
                  THEN "held" ELSE "free"
  /\ request \in ExecutionRequest
  /\ executionPrice \in Nat
  /\ controller \in {"idle", "spawn", "notify", "join"}
  /\ client \in [Clients -> [next : {"place", "push", "notify"},
                             request : ExecutionRequest]]
  /\ executed \subseteq ExecutionRequest

(* No request is lost, duplicated or executed twice on its way from the    *)
(* client through the queue and the execution thread's local variable: for *)
(* every order that was placed there is exactly one request, and it is in  *)
(* exactly one of these places (submitOrder, executionLoop).               *)
RequestsConserved ==
  LET places == <<Built, executionQueue, executing, executed>>
      all == Built \cup executionQueue \cup executing \cup executed
  IN /\ {r.orderId : r \in all} = DOMAIN orders
     /\ \A r, s \in all : r.orderId = s.orderId => r = s
     /\ \A i, j \in 1 .. 4 : i # j => places[i] \cap places[j] = {}

(* The trade history and the orders agree although executeOrder() changes  *)
(* them in two critical sections: an order is traded at most once, for the *)
(* quantity it is filled with, and an order that is filled without a trade *)
(* is the one whose trade the execution thread is about to record.         *)
OrdersMatchTrades ==
  /\ \A i, j \in DOMAIN trades :
       trades[i].tradeId = trades[j].tradeId => i = j
  /\ \A i \in DOMAIN trades :
       /\ trades[i].orderId \in DOMAIN orders
       /\ orders[trades[i].orderId].status \in {"FILLED", "PARTIAL"}
       /\ orders[trades[i].orderId].filledQuantity = trades[i].quantity
  /\ \A id \in DOMAIN orders :
       orders[id].status \in {"FILLED", "PARTIAL"} =>
         \/ \E i \in DOMAIN trades : trades[i].orderId = id
         \/ thread = "trade" /\ request.orderId = id

(* An execution never costs a client more than the request allows, nor     *)
(* pays it less, whatever the latest tick says.                            *)
LimitRespected ==
  \A i \in DOMAIN trades : \E r \in executing \cup executed :
    /\ r.orderId = trades[i].orderId
    /\ r.side = trades[i].side
    /\ r.quantity = trades[i].quantity
    /\ IF r.side = "BUY" THEN trades[i].price <= r.price
                         ELSE trades[i].price >= r.price

(* The three counters that other threads read, each changed in a critical  *)
(* section of its own, never claim an execution that was not ordered: a    *)
(* trade belongs to an order, a latency to an executed request, and only   *)
(* the request being executed can be in one count and not in the other.    *)
CountersInStep ==
  /\ totalTradesExecuted <= totalOrdersPlaced
  /\ getExecutedOrdersCount = Cardinality(executed)
  /\ totalTradesExecuted <= getExecutedOrdersCount + Cardinality(executing)

(* Without a desk that modifies it, an order whose request was executed is *)
(* filled, unless there was nothing to fill.                               *)
ExecutedOrdersFilled ==
  \A r \in executed :
    r.quantity > 0 /\ "modify" \notin Desk => orders[r.orderId].status = "FILLED"

(* Once stop() has returned the execution thread is gone: nothing touches  *)
(* the engine's members until the next start(), so the engine may be       *)
(* destroyed.                                                              *)
QuiescentWhenStopped == Stopped => thread = "none" /\ queueMutex = "free"

-----------------------------------------------------------------------------
(* What has become of an order stays: a filled or partially filled order   *)
(* is never touched again, neither by a late cancellation or modification  *)
(* nor by another execution, and a cancelled one only by the execution of  *)
(* the request that was submitted for it.                                  *)
SettledIsFinal ==
  [][\A id \in DOMAIN orders :
       orders[id].status # "PENDING" /\ orders'[id] # orders[id] =>
         orders[id].status = "CANCELLED" /\ thread = "fill" /\ request.orderId = id]_vars

(* The engine implements the dispatcher it promises to be.  While stop()   *)
(* is under way the thread may still begin one request, as long as it is   *)
(* past the test of "running" and before the pop.                          *)
mode ==
  IF running THEN "on"
  ELSE IF thread \in {"lock", "predicate", "block", "waiting", "check"}
       THEN "closing" ELSE "off"

Dispatch == INSTANCE PriorityDispatch WITH queued <- executionQueue

DispatchesByPriority == Dispatch!Spec

-----------------------------------------------------------------------------
(* stop() is stuck: it has notified and joins a thread that waits and that *)
(* no client is about to notify.                                           *)
Hung ==
  /\ controller = "join"
  /\ thread = "waiting"
  /\ \A c \in Clients : client[c].next # "notify"

(* The only way into that state is the window between the evaluation of    *)
(* wait()'s predicate and the blocking.                                    *)
HungOnlyThroughWindow ==
  [][~Hung /\ Hung' => thread = "block"]_vars

(* No wakeup is lost while a request waits: if the execution thread sleeps *)
(* then some client is still about to notify it, because it cannot fall    *)
(* asleep on a queue it did not find empty, and a push is announced after  *)
(* it is made.  notify_one() without the lock is safe for this alone.      *)
NoWakeupLost ==
  thread = "waiting" /\ executionQueue # {} =>
    \E c \in Clients : client[c].next = "notify"

(* A submitted request is executed unless the engine is stopped: no order  *)
(* of the push, the notifications and the thread's wait loses the wakeup.  *)
EveryRequestServed == Dispatch!Served(FirstOrderId .. FirstOrderId + MaxOrders - 1)

(* stop() returns whenever the thread was not about to block when it       *)
(* notified: one that is anywhere else finishes at most one request and    *)
(* returns, and one that was never created is not waited for.              *)
StopReturnsUnlessBlocking ==
  (controller = "join" /\ thread \notin {"block", "waiting"})
    ~> controller = "idle"

-----------------------------------------------------------------------------
(* What main.cpp prints ("shutdown complete") and the code does not do: a  *)
(* call of stop() returns.                                                 *)
StopReturns == controller = "notify" ~> controller = "idle"
=============================================================================
