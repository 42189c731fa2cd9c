-------------------------- MODULE ExecutionEngine ---------------------------
(***************************************************************************)
(* The execution engine with the order manager it drives.  Four kinds of   *)
(* threads meet here:                                                      *)
(*   - clients, which place an order and submit a request for it, as       *)
(*     DemoStrategyListener::onTick does on the thread that publishes;     *)
(*   - the execution thread, which runs executionLoop();                   *)
(*   - the controller, which calls start() and stop() one after the other, *)
(*     as main() and the destructor do;                                    *)
(*   - a desk, which cancels and modifies orders through the order manager *)
(*     while their requests are queued.                                    *)
(* One action is what a thread does between two points at which another    *)
(* thread can be seen to intervene: a critical section that no other       *)
(* variable of the model crosses is one action, and the execution thread's *)
(* passage through queueMutex is split because stop() changes "running"    *)
(* and notifies without that mutex.                                        *)
(***************************************************************************)
EXTENDS OrderManager, LatencyStats

CONSTANTS
  Clients,     (* threads that place and submit orders                        *)
  Desk,        (* what the desk does: a subset of {"cancel", "modify"}        *)
  Quotes,      (* (bid, ask) of the ticks getLatestTick may return; <<0, 0>>  *)
               (* is the value-initialised tick of a symbol without ticks     *)
  MaxOrders    (* bound: orders placed                                        *)

ASSUME EngineAssumption ==
  /\ Desk \subseteq {"cancel", "modify"}
  /\ Quotes \subseteq Nat \X Nat
  /\ MaxOrders \in Nat

VARIABLES
  running,         (* std::atomic<bool>                                      *)
  executionQueue,  (* the priority queue, as the set of its requests         *)
  queueMutex,      (* "free", or "held" by the execution thread              *)
  thread,          (* where the execution thread is, "none" if not joinable  *)
  request,         (* executionLoop's local variable                         *)
  executionPrice,  (* executeOrder's local variable                          *)
  controller,      (* where the controller is                                *)
  client,          (* each client's next call and the request it has built   *)
  executed         (* history: the requests whose executeOrder has returned  *)

threadVars == <<thread, request, executionPrice>>
queueVars == <<executionQueue, queueMutex>>
vars == <<omVars, stats, running, queueVars, threadVars, controller, client,
          executed>>

HIGH == 0
NORMAL == 1
LOW == 2
ExecutionPriority == {HIGH, NORMAL, LOW}
ExecutionRequest == [orderId : Nat, side : OrderSide, price : Nat,
                     quantity : Nat, priority : ExecutionPriority]

(* ExecutionRequest has no default values: a fresh local holds anything,   *)
(* and executionLoop never reads it before it is assigned.  A local that   *)
(* is out of scope is this value (0 for a price).                          *)
NoRequest == [orderId |-> 0, side |-> "BUY", price |-> 0, quantity |-> 0,
              priority |-> HIGH]

Init ==
  /\ OrderManagerInit
  /\ StatsInit
  /\ running = FALSE
  /\ executionQueue = {}
  /\ queueMutex = "free"
  /\ thread = "none"
  /\ request = NoRequest
  /\ executionPrice = 0
  /\ controller = "idle"
  /\ client = [c \in Clients |-> [next |-> "place", request |-> NoRequest]]
  /\ executed = {}

-----------------------------------------------------------------------------
(* The condition variable.  Only the execution thread ever waits on it, so *)
(* notify_one and notify_all both wake it if it waits and are lost if not. *)
Notified == IF thread = "waiting" THEN "lock" ELSE thread

(* A client places an order and keeps a request for it with the order's    *)
(* own side, price and quantity.                                           *)
PlaceRequest(c, side, price, quantity, priority) ==
  /\ client[c].next = "place"
  /\ totalOrdersPlaced < MaxOrders
  /\ placeOrder(NewOrder(side, price, quantity))
  /\ client' = [client EXCEPT ![c] =
       [next |-> "push",
        request |-> [orderId |-> orderIdCounter, side |-> side, price |-> price,
                     quantity |-> quantity, priority |-> priority]]]
  /\ UNCHANGED <<tradeVars, stats, running, queueVars, threadVars, controller,
                 executed>>

Place(c) ==
  \E side \in OrderSide, price \in Prices, quantity \in Quantities,
     priority \in ExecutionPriority : PlaceRequest(c, side, price, quantity, priority)

\* Mutated form: the request is pushed without queueMutex.
SubmitUnlocked(c) ==
  /\ client[c].next = "push"
  /\ executionQueue' = executionQueue \cup {client[c].request}
  /\ client' = [client EXCEPT ![c].next = "notify"]
  /\ UNCHANGED <<omVars, stats, running, queueMutex, threadVars, controller,
                 executed>>

(* submitOrder: the push, under queueMutex ... *)
Submit(c) ==
  /\ client[c].next = "push"
  /\ queueMutex = "free"
  /\ executionQueue' = executionQueue \cup {client[c].request}
  /\ client' = [client EXCEPT ![c].next = "notify"]
  /\ UNCHANGED <<omVars, stats, running, queueMutex, threadVars, controller,
                 executed>>

(* ... and the notification, after it is released. *)
SubmitNotify(c) ==
  /\ client[c].next = "notify"
  /\ thread' = Notified
  /\ client' = [client EXCEPT ![c] = [next |-> "place", request |-> NoRequest]]
  /\ UNCHANGED <<omVars, stats, running, queueVars, request, executionPrice,
                 controller, executed>>

-----------------------------------------------------------------------------
\* Mutated form: start() does not ask whether the engine is running already.
StartAgain ==
  /\ controller = "idle"
  /\ running' = TRUE
  /\ controller' = "spawn"
  /\ UNCHANGED <<omVars, stats, queueVars, threadVars, client, executed>>

(* The controller.  start(): "running" is exchanged; when it was FALSE the *)
(* thread is created.  The call that finds it TRUE returns at once.        *)
Start ==
  /\ controller = "idle"
  /\ ~running
  /\ running' = TRUE
  /\ controller' = "spawn"
  /\ UNCHANGED <<omVars, stats, queueVars, threadVars, client, executed>>

Spawn ==
  /\ controller = "spawn"
  /\ thread' = "head"
  /\ controller' = "idle"
  /\ UNCHANGED <<omVars, stats, running, queueVars, request, executionPrice,
                 client, executed>>

(* stop(): neither the store nor the notification takes queueMutex. *)
Stop ==
  /\ controller = "idle"
  /\ running' = FALSE
  /\ controller' = "notify"
  /\ UNCHANGED <<omVars, stats, queueVars, threadVars, client, executed>>

\* Mutated form: the notification is forgotten.
StopSilent ==
  /\ controller = "notify"
  /\ controller' = "join"
  /\ UNCHANGED <<omVars, stats, running, queueVars, threadVars, client,
                 executed>>

StopNotify ==
  /\ controller = "notify"
  /\ thread' = Notified
  /\ controller' = "join"
  /\ UNCHANGED <<omVars, stats, running, queueVars, request, executionPrice,
                 client, executed>>

\* Mutated form: stop() returns without joining the thread.
JoinNothing ==
  /\ controller = "join"
  /\ controller' = "idle"
  /\ UNCHANGED <<omVars, stats, running, queueVars, threadVars, client,
                 executed>>

Join ==
  /\ controller = "join"
  /\ thread \in {"none", "returned"}
  /\ thread' = "none"
  /\ controller' = "idle"
  /\ UNCHANGED <<omVars, stats, running, queueVars, request, executionPrice,
                 client, executed>>

-----------------------------------------------------------------------------
(* The execution thread: the head of the while loop. *)
LoopHead ==
  /\ thread = "head"
  /\ thread' = IF running THEN "lock" ELSE "returned"
  /\ UNCHANGED <<omVars, stats, running, queueVars, request, executionPrice,
                 controller, client, executed>>

(* The lock is taken, at first and again when wait() was woken. *)
Lock ==
  /\ thread = "lock"
  /\ queueMutex = "free"
  /\ queueMutex' = "held"
  /\ thread' = "predicate"
  /\ UNCHANGED <<omVars, stats, running, executionQueue, request,
                 executionPrice, controller, client, executed>>

\* Mutated form: the predicate looks at the queue only.
PredicateQueueOnly ==
  /\ thread = "predicate"
  /\ thread' = IF executionQueue # {} THEN "check" ELSE "block"
  /\ UNCHANGED <<omVars, stats, running, queueVars, request, executionPrice,
                 controller, client, executed>>

(* wait() evaluates its predicate, holding the lock. *)
Predicate ==
  /\ thread = "predicate"
  /\ thread' = IF executionQueue # {} \/ ~running THEN "check" ELSE "block"
  /\ UNCHANGED <<omVars, stats, running, queueVars, request, executionPrice,
                 controller, client, executed>>

(* wait() releases the lock and blocks, in one atomic step. *)
Block ==
  /\ thread = "block"
  /\ queueMutex' = "free"
  /\ thread' = "waiting"
  /\ UNCHANGED <<omVars, stats, running, executionQueue, request,
                 executionPrice, controller, client, executed>>

(* wait() may return from blocking without any notification. *)
SpuriousWakeup ==
  /\ thread = "waiting"
  /\ thread' = "lock"
  /\ UNCHANGED <<omVars, stats, running, queueVars, request, executionPrice,
                 controller, client, executed>>

\* Mutated form: the comparator is read the other way round.
IsTopReversed(r) == \A other \in executionQueue : r.priority >= other.priority

(* A request std::priority_queue::top() may return: one of least priority  *)
(* value.  The heap does not say which of several.                         *)
IsTop(r) == \A other \in executionQueue : r.priority <= other.priority

\* Mutated form: the request is read but stays in the queue.
PopKeeping(r) ==
  /\ request' = r
  /\ UNCHANGED executionQueue

Pop(r) ==
  /\ request' = r
  /\ executionQueue' = executionQueue \ {r}

\* Mutated form: executeOrder() is called inside the critical section.
CheckKeepingLock ==
  /\ thread = "check"
  /\ IF executionQueue = {}
     THEN /\ thread' = IF running THEN "head" ELSE "returned"
          /\ queueMutex' = "free"
          /\ UNCHANGED <<executionQueue, request>>
     ELSE /\ thread' = "tick"
          /\ \E r \in executionQueue : IsTop(r) /\ Pop(r)
          /\ UNCHANGED queueMutex
  /\ UNCHANGED <<omVars, stats, running, executionPrice, controller, client,
                 executed>>

(* After wait(): leave, try again, or take the top request.  The lock is   *)
(* released in all three cases.                                            *)
Check ==
  /\ thread = "check"
  /\ IF executionQueue = {}
     THEN /\ thread' = IF running THEN "head" ELSE "returned"
          /\ UNCHANGED <<executionQueue, request>>
     ELSE /\ thread' = "tick"
          /\ \E r \in executionQueue : IsTop(r) /\ Pop(r)
  /\ queueMutex' = "free"
  /\ UNCHANGED <<omVars, stats, running, executionPrice, controller, client,
                 executed>>

-----------------------------------------------------------------------------
\* Mutated form: each side takes the other side's comparison.
PriceSwapped(r, bid, ask) ==
  IF r.side = "BUY" THEN Larger(r.price, ask) ELSE Smaller(r.price, bid)

(* executeOrder: the price, from the latest tick ... *)
PriceOf(r, bid, ask) ==
  IF r.side = "BUY" THEN Smaller(r.price, ask) ELSE Larger(r.price, bid)

ReadQuote(bid, ask) ==
  /\ thread = "tick"
  /\ executionPrice' = PriceOf(request, bid, ask)
  /\ thread' = IF request.quantity > 0 THEN "fill" ELSE "record"
  /\ UNCHANGED <<omVars, stats, running, queueVars, request, controller,
                 client, executed>>

ReadTick == \E quote \in Quotes : ReadQuote(quote[1], quote[2])

(* ... the order, under orderMutex ... *)
FillOrder ==
  /\ thread = "fill"
  /\ simulateOrderExecution(request.orderId, request.quantity)
  /\ thread' = "trade"
  /\ UNCHANGED <<tradeVars, stats, running, queueVars, request,
                 executionPrice, controller, client, executed>>

TradeOf(r, price) ==
  [tradeId |-> r.orderId, orderId |-> r.orderId, side |-> r.side,
   price |-> price, quantity |-> r.quantity]

(* ... the trade, under tradeMutex ... *)
RecordTrade ==
  /\ thread = "trade"
  /\ simulateTrade(TradeOf(request, executionPrice))
  /\ thread' = "record"
  /\ UNCHANGED <<orderVars, stats, running, queueVars, request,
                 executionPrice, controller, client, executed>>

(* ... and the latency, under statsMutex.  The locals go out of scope. *)
RecordLatency ==
  /\ thread = "record"
  /\ \E latency \in Latencies : recordLatency(latency)
  /\ executed' = executed \cup {request}
  /\ request' = NoRequest
  /\ executionPrice' = 0
  /\ thread' = "head"
  /\ UNCHANGED <<omVars, running, queueVars, controller, client>>

-----------------------------------------------------------------------------
(* The desk. *)
Cancel(id) ==
  /\ "cancel" \in Desk
  /\ cancelOrder(id)
  /\ UNCHANGED <<tradeVars, stats, running, queueVars, threadVars, controller,
                 client, executed>>

Modify(id, price, quantity) ==
  /\ "modify" \in Desk
  /\ modifyOrder(id, price, quantity)
  /\ UNCHANGED <<tradeVars, stats, running, queueVars, threadVars, controller,
                 client, executed>>

-----------------------------------------------------------------------------
ClientStep(c) == Place(c) \/ Submit(c) \/ SubmitNotify(c)
ControllerStep == Start \/ Spawn \/ Stop \/ StopNotify \/ Join
ThreadStep ==
  \/ LoopHead \/ Lock \/ Predicate \/ Block \/ Check
  \/ ReadTick \/ FillOrder \/ RecordTrade \/ RecordLatency
DeskStep ==
  \E id \in DOMAIN orders :
    \/ Cancel(id)
    \/ \E price \in Prices, quantity \in Quantities : Modify(id, price, quantity)

Next ==
  \/ \E c \in Clients : ClientStep(c)
  \/ ControllerStep
  \/ ThreadStep
  \/ SpuriousWakeup
  \/ DeskStep

Spec == Init /\ [][Next]_vars

(* The scheduler runs every thread that can run, so the execution thread   *)
(* takes the steps it can take, a client that has pushed goes on to notify *)
(* and the controller finishes the start() or stop() it has begun.         *)
(* Nothing makes a client place or push, the controller call start() or    *)
(* stop(), or wait() wake up on its own.                                   *)
Fairness ==
  /\ WF_vars(ThreadStep)
  /\ WF_vars(Spawn \/ StopNotify \/ Join)
  /\ \A c \in Clients : WF_vars(SubmitNotify(c))
FairSpec == Spec /\ Fairness
=============================================================================
