# A verification project for the mini trading bot

The program is `cpp-hft-trading-bot`: a market simulator publishes ticks, a demo
strategy turns ticks into orders and execution requests, an execution thread
takes the requests off a priority queue and fills the orders, and `main()`
starts all of it, prints statistics after fifteen seconds and stops it. There
are no tests in the repository. This directory holds TLA+ modules for the parts
of it that keep state, the TLC runs that check them and the TLAPS proofs about
them. `PROJECT.json` maps every definition to the lines it models.

## 1. Inventory

| Component | State | Operations | Called by | Locks |
|---|---|---|---|---|
| Order manager (`order_manager.*`) | map of orders, trade history, id counter, two atomic counters, observers | `placeOrder`, `cancelOrder`, `modifyOrder`, `simulateOrderExecution`, `simulateTrade`, `registerOrderCallback`, queries | the listener, the execution thread, the risk manager, `main` | `orderMutex`, `tradeMutex`; observers run under `orderMutex`; registration takes no lock |
| Execution engine (`execution_engine.*`) | `running`, priority queue, the thread, latency statistics | `submitOrder`, `start`, `stop`, `executionLoop`, `executeOrder`, getters | the listener, `main`, its own thread | `queueMutex` with `queueCV`, `statsMutex`; `running` is atomic |
| Market data handler (`market_data.*`) | per symbol: tick history, book history, weak pointers to listeners | `subscribe`, `unsubscribe`, `publishTick`, `publishOrderBook`, `getLatestTick`, `getTickHistory`, indicators | the simulator, the execution thread, `main` | `dataMutex`, held while listeners run |
| Demo strategy listener (`main.cpp`) | last price (a function-local static), trades made | `onTick` | the market data handler, on the simulator's thread | none of its own, runs under `dataMutex` |
| Market simulator (`main.cpp`) | `running`, its thread, the price | `start`, `stop`, the loop | `main` | `running` is atomic |
| `main` (`main.cpp`) | what it has read and prints | the order of starts, reads and stops | - | - |
| Risk manager (`risk_manager.*`) | positions, limits, P&L totals | `updatePosition`, `closePosition`, `updateMarketPrice`, checks, snapshot | `main` (limits and snapshot only) | `positionMutex`, `pnlMutex`; the limits have none |
| Trading strategies (`trading_strategy.*`) | vectors of prices, the last tick | `onTick`, private statistics | nobody yet: they are listeners of the handler | none |

How they interact. The simulator's thread calls `publishTick`, which runs
`onTick` under `dataMutex`; `onTick` places an order (`orderMutex`) and submits a
request (`queueMutex`, then a notification). The execution thread waits on
`queueCV`, pops a request, and, with no lock of its own held, asks for the latest
tick (`dataMutex`), fills the order (`orderMutex`), records the trade
(`tradeMutex`) and the latency (`statsMutex`). `main` starts both threads, reads
counters, the trade history and a portfolio snapshot while they run, stops the
simulator and then the engine. `main` gives the risk manager its limits, but
nobody tells it of a trade and nobody asks it whether an order may be placed.

What is hard here, and where (`PROJECT.json`, "hazards", has the lines):

- the hand-over between `stop()`, `submitOrder()` and `wait()`: who is woken, and
  when is a notification lost;
- one execution changes orders, trades and statistics in three critical sections,
  while clients cancel and modify the same order;
- a request outlives the status of its order: it carries its own price and quantity;
- `start()` and `stop()` repeated, with requests left in the queue;
- callbacks that run inside critical sections, up to three mutexes deep;
- what `main` reads, one counter after the other, while both threads run;
- the order of the shutdown;
- windows over a bounded history: off-by-one, and division by what may be zero;
- sums, counters and statistics at their limits.

What makes each component correct:

- *Order manager*: ids without gaps; status and filled quantity tell what was last
  executed of an order, whatever is called; observers know what the map holds.
- *Execution engine*: every request is executed exactly once, in order of priority,
  if the engine keeps running; orders, trades and counters agree at every moment;
  nobody pays more than the request allows; `stop()` returns and leaves nothing behind.
- *Latency statistics*: minimum, average and maximum agree, as far as a sum that wraps
  and conversions that round allow.
- *Market data handler*: the latest tick is the last one published, listeners hear
  every tick of their symbol once and in order, the history is the recent past.
- *Strategies and indicators*: both sides compute the same numbers from the same
  ticks; indicators agree with one another and stay within their ranges.
- *Risk manager*: positions equal the trades; limits should hold and a snapshot be of one
  moment, which the code does not ensure (see the disagreements below).
- *Locks*: no member is raced for, no threads wait in a circle.
- *Program*: one order for each signal, trades no older than their signal, printed
  counters that make sense, a shutdown that ends and leaves nothing under way.

## 2. Modules

| Module | What it is |
|---|---|
| `OrderManager` | State and operations of the order manager. An operation constrains the variables its method assigns; each method runs under one mutex from its first to its last line and is therefore one step. `registerOrderCallback` takes none and is a step too; that it races with the observers' loop is in `LockDiscipline`. |
| `OrderManagerClients` | The order manager under clients that call any of its methods in any order, with any arguments. |
| `LatencyStats` | `ExecutionStats`, `recordLatency` and the getters, on a word of `Word` values that wraps and doubles that hold every integer up to `Precision` and some of the larger ones. |
| `ExecutionEngine` | The engine composed with `OrderManager` and `LatencyStats`: clients, the controller, the execution thread and a desk that cancels and modifies. |
| `PriorityDispatch` | What the engine promises, with threads, lock and condition variable left out. |
| `EngineProperties` | What must hold of the engine; the refinement of `PriorityDispatch`. |
| `MarketData`, `MarketDataProperties` | The market data handler: subscriptions as weak pointers, the two bounded histories, publications listener by listener, the queries. What must hold of it. |
| `Strategies`, `StrategyProperties` | The library's four strategies as listeners of `MarketData`, and the indicators of both. What must hold of them. |
| `RiskManager`, `RiskDesk`, `RiskProperties` | State and operations of the risk manager; the risk manager between traders, closings, prices, changing limits and a snapshot; what must hold of it, and what is said of it and does not. |
| `LockDiscipline` | Every public method of every component as the mutexes it takes and the members it touches inside them. |
| `TradingBot`, `BotProperties` | The program: simulator, strategy and `main` over `ExecutionEngine` and `MarketData`. What must hold of it. |
| `MCLatencyStats`, `MCEngine`, `MCRisk`, `MCLocks`, `MCBot` | Bounds, values and symmetry for TLC. |
| `OrderManagerProofs`, `EngineProofs`, `MarketDataProofs`, `StrategyProofs`, `RiskProofs`, `LockDisciplineProofs`, `TradingBotProofs` | Theorems and proofs; those about the statistics are in `EngineProofs`. |
| `SumTheorems` | Induction over the naturals and over the subsets of a finite set, and what follows for sums. |

`ExecutionEngine` EXTENDS `OrderManager` and `LatencyStats`; `Strategies` EXTENDS
`MarketData`; `TradingBot` EXTENDS `ExecutionEngine` and `MarketData` and uses their
actions as they are, so that a step of the program is a step of a component or leaves
it alone. That is a pair of theorems (`BotImplementsEngine`,
`BotImplementsMarketData`), and what is proved of the components holds of the program.

### State and actions against the code

*Order manager.* `orders` is the `std::map`, a function from the ids in it; `trades`
the vector; `callbacks` holds for each registered `OrderCallback` what it has been
told, the only effect of a callback that the order manager's own code determines.
`executions` is a history variable of `OrderManagerClients`: every execution of an order,
which the map does not keep. `ExecuteAny` is `simulateOrderExecution` as anybody may call
it, an id that was not given out and the quantity 0 included; the test for a quantity above
0 is the engine's, not this method's. `TradeAny` records any trade.
Times, symbols, client ids, commissions and order types are left out: no operation
reads them. The queries only copy state out.

*Statistics.* The clock may be set back between its two readings, so a latency is any
`uint64_t`. Converted to a `double` it becomes either of the two doubles around it
(`AsDouble`; the standard leaves the choice to the compiler), the last ones up to 2^64. The
average is compared as the quotient of the converted sum, before the division rounds it:
that comes to the same, because it is compared with doubles only.

*Engine.* `thread` is where the execution thread stands:

| `thread` | Code |
|---|---|
| `none` | `executionThread` is not joinable |
| `head` | `while (running)` |
| `lock` | about to take `queueMutex`, at first or on waking up |
| `predicate`, `block`, `waiting` | `queueCV.wait`: evaluating the predicate, about to release and sleep, asleep |
| `check` | the two tests after `wait`, then `top` and `pop`, still under the lock |
| `tick`, `fill`, `trade`, `record` | `executeOrder`: the tick and the price, the order, the trade, the latency |
| `returned` | the loop has ended; joinable |

`stop()` is three actions (store, notify, join) and `start()` two (exchange,
creation of the thread), because neither takes a lock. `submitOrder()` is the push
under `queueMutex` and the notification after it. `SpuriousWakeup` and `Notified`
are the condition variable. The priority queue is the set of its requests: the
heap does not promise an order among requests of equal priority, so `Check` takes
any request of least priority value. In the engine runs the latest tick is any quote
of `Quotes`, `<<0, 0>>` (the tick of a symbol that has none) included; which one it
really is depends on the simulator and is in `TradingBot`. Locals that are out of
scope are reset, which the code cannot see and which makes states equal that are.

*Market data.* `publication` is the call of `publishTick` or `publishOrderBook` that
holds `dataMutex`, with the entry of the vector whose turn it is. Everything that
takes the mutex waits for it; `drop`, the owner of a listener letting go of its
`shared_ptr`, does not, so a listener can expire between two rounds of the loop. The two
publications are one method for two histories. What a tick or a book contains is
left out: it is the number of the publication. Each entry of the vector carries, as
history, what had been published when it was made and what it was called with.

*Strategies.* `tickPrice` gives the numbered ticks a price, `prices` are the vectors
that `MeanReversionStrategy` and `MomentumStrategy` push to, `lastTick` what
`MarketMakingStrategy` keeps. A `double` is a fraction `<<n, d>>`, so that means,
deviations and ratios are exact and a division by zero is a value with `d = 0`, not a
crash. Square roots are left out on both sides: a deviation is its square. The
handler's indicators work on the end of its bounded history, the strategies on all
they have heard.

*Risk manager.* In `RiskDesk`, a trader walks through `canOpenPosition` read by read
(line 118, the position under its mutex, line 120), has its trade recorded by
`simulateTrade` and reports it to `updatePosition`: this is the order of the README's
"Trade Record → Position Update". The program calls only `setRiskLimits` and
`getPortfolioSnapshot`; the desk is a use of the interface that no code in the
repository has yet, and what the runs say is about the interface. The snapshot is
assigned field by field, one getter a step. The realised P&L, the balance and the
drawdown are never assigned by the code and are constants; loss limits, leverage,
exposure and order size decide nothing about positions and are left out.
`Indeterminate` holds the values that an uninitialised `unrealizedPnL` may turn out to
have.

*Locks.* In `LockDiscipline` a method is a sequence of stages: what is held already,
the mutex that is taken, the members that are read and written there. A method that is
called inside a critical section is the same sequence with that section outside, so
`publishTick` contains `placeOrder` and `submitOrder` under `dataMutex`, and every
change of an order contains its observers under `orderMutex`. Any thread calls any
method at any time. An observer may take any mutex but `dataMutex` and `orderMutex`
(`ObserverAssumption`): with `orderMutex` it waits for its own thread, with `dataMutex`
for the publisher, which waits for `orderMutex`; the repository registers none and
warns of neither. `Guard` is the mutex meant for each shared member; `Unprotected`
the three that have none: the vector of callbacks, the limits and the thread object.

*Program.* `simulator` is where the simulator's thread stands:

| `simulator` | Code |
|---|---|
| `none` | not joinable |
| `loop` | the loop's condition, then a new price and `publishTick` up to its loop over the listeners |
| `onTick` | that loop, under `dataMutex`; the listener is called when its entry has its turn (`IsCalled`) |
| `submit` | in `onTick`, the order placed, `submitOrder` under way |
| `book`, `onBook` | `publishOrderBook` and its loop |
| `returned` | the loop has ended; joinable |

`main` names the step that `main()` takes next. `Read` is one of the three values about
orders and trades that it prints, each read at its own moment into `report`; the average
latency and the amounts of the portfolio snapshot, which it prints as well, are left out. `lastPrice` is the static and
`tradeCount` the member of the listener; `tickPrices` all prices so far, whose last one
is the simulator's price. Prices are in hundredths, bid and ask one below and above.
`ReadLatest`, the engine's `tick` step, waits for `dataMutex` and takes the quote of the
handler's latest tick. The 100 ms between rounds, the 15 s of `main()` and volumes are
left out: any interleaving is allowed. The loop's 1000 rounds, the 5 signals and the 5
trades that are listed are constants.

## 3. Runs

| Run | What it asks | States |
|---|---|---|
| `latency_stats` | latencies 0, 1, 2, 5, 9, 63 on a 64-valued word with doubles of three digits, up to five of them: sums wrap after two, 9 rounds to 8 or 10, 63 to 56 or 64 | 667 |
| `order_manager` | two orders, two executions, two observers, quantities 0 to 2, one trade, any order of calls | 1.5 million |
| `engine_races` | two clients, two orders of either side, quantity 0 or 1 and any priority, a desk that cancels and modifies, any starts and stops | 1.8 million |
| `engine_dispatch` | as before without a desk, and with fairness: refinement of `PriorityDispatch`, what `stop()` leaves, the window in which it can hang, no wakeup is lost, requests are served, `stop()` returns | 192 thousand |
| `market_data` | two listeners around the publications of a symbol, three of each kind, histories of at most two, vectors of at most two entries | 130 thousand |
| `strategies` | the four strategies, four ticks of prices 0, 2 and 3, histories of three, two entries in the vector | 712 thousand |
| `risk_traders` | two traders, two symbols, limits 2 and 3, quantities 1 and 2, three trades, a snapshot | 717 thousand |
| `locks` | three threads that call any method, observers that take `queueMutex`, `tradeMutex` or nothing | 123 thousand |
| `trading_bot` | the program on four ticks of three prices, two signals, with fairness | 299 thousand |
| `stop_returns` | violated: `stop()` returns | |
| `net_position` | violated: a position is what was bought less what was sold | |
| `uninitialised_pnl` | violated: at one price there is no profit or loss | |

What the properties of the program say. `OrdersAreTheSignals` recounts the signals
from all published prices and compares orders with them, one for one. `TradesAtLaterQuotes`:
no trade is made at a quote older than the tick behind its order. `ReportConsistent`:
the trades that `main` prints may be more than the orders it prints, because it reads the
orders first, but only by orders placed between the two reads, and not any more once all
signals are used; and all the trades it counts are in the history it reads last, and are
listed. `NothingUnderWay`: when `main()` returns,
threads and mutexes are free and every order is filled with one trade or pending with
its request in the queue. `ShutdownEnds`: `main()` returns, or has met the window of
`stop_returns`.

Bounds. `MaxOrders = 2` with two clients gives every interleaving of two
placements, pushes and notifications with the thread, two requests of different or
equal priority in the queue at once, and a request pushed while another one is
executed; a third order only repeats these. Starts and stops are not bounded.
Price 10 with quotes below, around and above it makes both branches of the price
rule take either operand. Quantity 0 is the request that executes nothing, and a
modification from 1 to 0 makes an execution partial. Orders, executions and
observers of `order_manager` are two each so that an order can be executed twice
and a second observer can register between two changes; with quantities 0 to 2 an order is executed with less
than its quantity, all of it, more, and nothing. The one trade shows that recording it leaves
the orders alone. The engine runs have no observers; the order manager run has. `Word` is 4 in
the engine runs, where every latency is 1 and no property is about their sizes. In
`latency_stats` five latencies are enough for sums that wrap, for sums that are exact, and for
every order of a rounded one among exact ones.

In `market_data` three publications overflow a history of two, and two entries are
one listener twice, or two listeners of which either can expire, before, at and after
its turn. In `strategies` four ticks overflow a history of three; price 0 is what
momentum divides by; two entries are two strategies, or one that hears a tick twice.
In `risk_traders` three trades of two traders are what it takes to overshoot
a limit by as much as `OvershootBounded` allows; one price is enough there, since no
property of that run is about money. The two violated runs about positions need one
trader. In `locks` three threads are as many as the program has.

In `trading_bot` the prices are 100.00, 100.05 and 100.11: neither small move is a
signal although the two together would be, and between the first and the last price
either side is. Four ticks give up to three signals, one more than `MaxSignals`, and
overflow the history of two. `MaxListed = MaxSignals`, as in the program (5 and 5).
`MaxOrders` is one more than `MaxSignals`: the engine's own bound is not what stops the
strategy.

Symmetry (of the two clients, of traders, symbols and threads) is used in safety runs
only. Deadlock is checked in the engine, risk and lock runs (the controller, somebody who
sets limits, or some thread can always act); the bounded runs of the order manager, of the
statistics, of the market data and of the strategies end, as does the program, and say so.

Fairness. `FairSpec`, the engine's: the threads of the program are scheduled by the operating
system, and no critical section is held for ever: weak fairness of the execution
thread's steps, of what remains of a `start()` or `stop()` that was begun, and of
the notification that follows a push. Nothing obliges a client to place or push, the
controller to start or stop, or `wait()` to wake up without a reason.
`queueMutex` needs no strong fairness there: the execution thread is the only one that
holds it over more than one step.

`BotFairness`, the program's: weak fairness of each of the three threads, and strong
fairness of `Push` alone. Spurious wakeups, which nothing bounds, let the execution
thread take and release `queueMutex` again and again; a thread that waits for a mutex
that is free infinitely often is assumed to get it in the end. Without this the
simulator's thread would wait for ever inside `submitOrder()`.

### What the violated runs show

- `stop_returns`: `running = false` and `notify_all()` fall between the predicate
  and the blocking of `wait()`; `stop()` does not take `queueMutex`, so nothing
  keeps it out of that window. The thread sleeps, `join()` waits for it. When the
  simulator has been stopped first, as in `main()`, no later push wakes it.
  `HungOnlyThroughWindow` and `StopReturnsUnlessBlocking` show that this is the only
  way to hang, and `ShutdownEnds` that the program has no other.
- `net_position`: a SELL adds to a BUY position.
- `uninitialised_pnl`: `Position pos;` leaves `unrealizedPnL` indeterminate.

### Disagreements without a run

- "Total Trades Executed" can be above "Total Orders Placed": `main()` reads the orders at
  `main.cpp:213` and the trades at 214, and an order placed and executed in between is in
  the second only (`ReportConsistent` bounds it).
- A clock that is set back makes a latency of almost 2^64, as a `double` 2^64 and more than
  any `uint64_t`; three latencies of 2^53 + 1 have an average above their maximum. This is why
  the last part of `ReportedLatenciesAgree` asks for a sum that is exact.
- `simulateOrderExecution` has no test for a quantity of 0: called with it, it makes an order
  PARTIAL with nothing filled, a filled one too. The engine never does.
- A request whose order was cancelled is executed all the same; this is the exception
  in `SettledIsFinal`.
- Two slices of an order leave `filledQuantity` at the second: it is assigned, not
  added to.
- `while (running)` ends the loop with requests still queued, although the `break` at
  `execution_engine.cpp:51` waits for an empty queue; `NothingUnderWay` allows for them.
- Two traders can be let through on the same reading of a position (`OvershootBounded`
  shows how far this goes), and the program asks for no limit at all.
- A price that arrives between `getTotalPnL()` and `getUnrealizedPnL()` leaves a
  snapshot whose total is not the sum of its parts.
- The strategies look at neither the symbol of a tick nor the symbol, period and threshold
  they were given; `generateSignal()` assigns two members of the signal
  and leaves its side and confidence indeterminate.
- The RSI of a market that does not move is 100, not 50 (`RSIFollowsMomentum` says so),
  and momentum from a first price of 0 is not a number: the handler and a strategy that
  hears a tick twice differ in that at the very first tick, which is why
  `StrategiesAgreeWithHandler` begins with the second.

## 4. Proofs

TLAPS proves, for every value of the constants under `LatencyAssumption` (words and
latencies are what their C++ types allow; every integer up to `Precision`, and the word
itself, is a double, and the sentinel is above it), `OrderAssumption` (prices and
quantities are naturals), `EngineAssumption`, `MarketDataAssumption` (the history has
room for at least one entry; the bounds are naturals), `ObserverAssumption` (above) and
`BotAssumption` (the strategy is the engine's client and the handler's listener, the
prices around a base price are prices and quotes, and the desk is empty: no code of the
program cancels or modifies an order), `RiskDeskAssumption` (traders are finitely many and
there is one; quantities and limits are naturals) and `StrategiesAssumption` (prices are
naturals, listeners are the four strategies):

- **Statistics**: `StatsTypeCorrect`, `LatenciesAgree`. `ReportedLatenciesAgree` is not
  inductive. `StatsInv` adds that nothing is recorded before the first execution, and
  that the sum lies between the two multiples whenever (executions) * (maximum) is
  below `Precision`. That product only grows, so if it is below `Precision` now no earlier sum
  can have wrapped and no latency was rounded (`Converted`: below `Precision` a conversion
  has one outcome); this is the whole argument, and `ProductGrows` its arithmetic.
- **Order manager**: `OrderManagerTypeCorrect`, `ObserversCorrect`, `FillStatusCorrect`.
  The lemmas of `OrderManagerProofs` say what each operation does to the type invariant,
  and are used for the order manager alone and under the engine. `ObserversAgree` is inductive
  together with it and reduces to one lemma about `ChangeOrder`, the only way an order
  changes. `FillStatusTruthful` needs `ExecutionsInv` besides: only orders that are in the map
  have been executed, so one that is being placed has not been. `OtherExecuted` and
  `OrderExecuted` say what one more execution makes of the truth about an order.
- **Engine, types**: `EngineTypeCorrect`, `StoppedMeansQuiescent`. `EngineTypeOK` says
  that `queueMutex` is held exactly where the thread stands inside its critical section;
  creating a thread while another one is inside would break it. `Lifecycle` rules that
  out: a controller that is idle has a thread if and only if `running` is set.
- **Engine, requests**: `RequestsAreConserved`. A request is in one of four places: built
  by a client, queued, executing, executed. The invariant (`Conserved`) says that these
  four sets are disjoint, that no two requests in them have one order and that their
  orders are those that were placed. It is inductive with `BuiltOnce`: a request in two
  clients' hands would be one in the set and still be pushed twice. What a step does to
  the four sets is one of four moves, each a lemma on sets (`NewRequest`, `RequestPushed`,
  `Taken`, `Done`).
- **Engine, refinement**: `EngineImplementsDispatcher`. Each step of client, controller
  and thread is mapped to a step of `PriorityDispatch` or to none; the pop is the only
  one that dispatches.
- **Engine, executions**: `OrdersAndTradesMatch`, `LimitsAreRespected`,
  `SettledStaysSettled`, `ExecutionFills`. `filledBy` and `tradedBy` are the executed
  requests with the one that has come as far as its fill, or its trade; between the two
  critical sections they differ by that request. `TradesAccounted` pairs `tradedBy` with
  the trades, `OrdersAccounted` pairs `filledBy` with the orders that are no longer
  pending or cancelled, `PriceTaken` is the price in between. That a request is executed
  once (the second invariant) makes the pairing one to one. `ExecutionFills` adds that
  request and order agree on the quantity while nobody modifies.
- **Engine, counters**: `CountersStayInStep`. `Counted` counts the executed requests;
  that trades are no more than orders is an injection from the indices of the trades to
  the ids.
- **Engine, hanging**: `HangsOnlyInTheWindow`, step by step from the type invariant.
- **Engine, wakeups**: `WakeupsAreNotLost`. A thread that sleeps while a request is queued is
  about to be notified by a client. Inductive with: a thread that is about to block has found
  the queue empty, which stays so since it holds `queueMutex` and a push needs it
  (`SleepsOnEmptyQueue`). This is the safety half of `EveryRequestServed`.
- **Market data**: `MarketDataTypeCorrect`, `HistoriesCorrect`, `SubscribersCorrect`,
  `QueriesCorrect`. Each operation has a lemma that says what it makes of the map, entry
  by entry (`SubscribeShape`, `CallShape`, ...). `HeardAsSubscribed` speaks of the middle
  of a publication too: the entries that the loop has not reached lag by one (`Lag`). It
  is inductive together with `SubscribedBefore` (what an entry is still to hear was
  published after it was made) and `FirstPublished` (a symbol without an entry has no
  past, which is what makes its first, empty history the recent one). `MarketDataInv` is
  their conjunction; that the histories are runs of consecutive numbers reduces to
  `ThroughAppend` and `ThroughTail`. The queries read off the end of such a run.
- **Locks**: `LocksTypeCorrect`, `DataRacesConfined`, `NoDeadlock`. The stages of every
  method are shown to keep two rules (`MethodsAreBlocks`): each guarded member is
  touched under its mutex, and whatever is taken ranks above whatever is held, in the order
  `dataMutex`, `orderMutex`, all others. A method keeps the rules when put inside another
  one (`Around`). Among threads that all wait for one another there is a chain of waits
  longer than there are ranks, along which ranks rise (`WaitingGoesUp`).
- **Program**: `BotImplementsMarketData` and `BotImplementsEngine`: every step of the
  program is a step of the component or leaves it alone, and by this what is proved of
  the components holds of it (`EngineFactsInProgram`). `BotTypeCorrect`: `SimulatorOwn`
  ties the place of the simulator's thread to the publication that holds `dataMutex`,
  `MainOwn` says what has not begun yet, and `Ticks` that the handler's latest tick has a
  price. `ReportIsConsistent`: the counters and the history only grow, trades are no more than
  orders at every single moment by the engine's invariants, and orders no more than signals
  (`Placing`); so the trades that were read are at most the orders and the history there are
  when the next value is read, and are all listed. `NothingIsUnderWay`: at the end of `main()` the simulator is gone and the engine
  stopped (`Ending`), so every request is queued or executed (`RequestsAtRest`), the status of
  its order says which (`StatusAtRest`), and a bijection from trades to executed requests, and
  one from requests to ids, count them (`CountsAtRest`).

- **Program, orders**: `OrdersAnswerSignals`, `TradesReadLaterQuotes`. `OrdersAreTheSignals`
  counts signals in the prices so far, and a count over a prefix changes with every tick.
  The invariant gives each order a signal instead: the one of the order's *rank*, the number
  of signals up to it. Later signals leave the ranks of earlier ones alone
  (`RankGrowsWithSignal`, `RanksKept`), so an order keeps its signal (`OrdersAnswer`). That
  a tick becomes an order exactly if it is a signal needs `PriceKept`, the static holds the
  price of the last tick that `onTick` is done with, and `Subscribed`, every tick is heard.
  For the trades, `PricesAgree` says that a request has its order's price, `PriceRead` that the
  execution thread's price is from a quote no older than the signal, and `TradesRead` that
  this is still so once it is traded.
- **Sums**: the positions, the overshoot and the statistics are sums, which are recursive
  functions over sets. The library's induction takes a property as a parameter, which these
  provers cannot instantiate; `NaturalInduction` and `SubsetInduction` take a *set* of numbers or
  of sets instead, which they can. That a recursive function satisfies its own equation is
  `EquationHolds`, for the sum over any finite set; the facts about sums follow (an
  element more or less, two sums that agree, a bound on all terms, a linear combination,
  sums over pairs, sums of differences).
- **Risk manager**: `RiskTypeCorrect`, `PositionsCorrect`, `OvershootIsBounded`,
  `SnapshotsCount`. In `PositionsCorrect` each step moves a quantity from the trades under
  way to a position or adds one to both sides. `OvershootBounded` is not inductive: how far a
  position can go yet depends on the traders that will still be let through, with what they have
  read and under a limit that may be raised before they are. `CommitmentsBounded` therefore
  speaks of every limit there may be one day: the position, with the quantities of all who were
  let through or would be under that limit, exceeds it by at most the quantities of all traders
  but one, because the last of them to read the position fitted it. `SnapshotInv` says
  what the copied positions are bounded by, `totalTrades` being read last.
- **Strategies**: `StrategiesTypeCorrect`, `StrategiesAgreeCorrect`, `VolatilityCorrect`,
  `RSICorrect`, `IndicatorsCorrect`. A strategy with several entries hears the same tick several
  times and those of two entries interleaved, so the sequence of its prices says little; but any
  *sum* over it is the sum, over its entries, of what each has heard (`PricesAreHeard`, for
  every weight of a price). With the weights one, the price and its square this gives the
  number, the sum and the sum of squares of the prices, and by `VarianceIs` the deviation. Between
  publications each entry of a strategy that listens to one symbol from its first tick has heard
  all ticks (`HeardAtRest`, from the invariant of the handler), so the three are the handler's,
  multiplied by the number of entries, which cancels. `FirstIsHeard` and `LastIsHeard` give
  the momentum. Every step is, for one strategy, one of three moves (`Quiet`, `Joins`,
  `Hears`). `VolatilityCorrect` counts the squared differences of all pairs by rows (`SpreadIs`);
  `RSICorrect` is that gains less losses telescope to the change over the window.
  `StrategiesImplementMarketData`: under the strategies the handler is the one of its own
  module, so its theorems hold there.

Only model-checked, because it is out of the prover's reach: everything under fairness
(`EveryRequestServed`, `StopReturnsUnlessBlocking`, `ShutdownEnds`). Every invariant and every
action property that a passing run checks is also a theorem.

## 5. Plan

In place: all components of the inventory with their properties and runs, and the safety
proofs of all of them.

Left: the safety half of `ShutdownEnds` as a theorem, as `NoWakeupLost` is that of
`EveryRequestServed`: in which states of the program `main()` can be waiting for a thread
that no step of another one lets go on.

Not modelled: printing, `sleep_for`, timestamps, volumes and the distribution of the
random prices; `PerformanceMetrics` and the helpers that nobody calls; `canPlaceOrder`,
`getWinRate` and `calculateRequiredCapital`, which change nothing; the build files and the
`.vscode` and `build` directories. Weak memory is not modelled either: all accesses but those
of `Unprotected` are atomic or under a mutex, which is what `RacesOnlyWhereUnprotected` shows.
