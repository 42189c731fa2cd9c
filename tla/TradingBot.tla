----------------------------- MODULE TradingBot -----------------------------
(***************************************************************************)
(* The whole program: the simulator's thread publishes ticks and books,    *)
(* the demo strategy, which the market data handler calls on that thread   *)
(* under dataMutex, turns ticks into orders and requests, the execution    *)
(* thread executes them at the latest tick, and main() starts all this,    *)
(* reads what it prints while it runs, and stops the simulator and then    *)
(* the engine.                                                             *)
(*                                                                         *)
(* The state and the steps of the engine and of the handler are those of   *)
(* their own modules.  A step here says who takes it, and when: the        *)
(* strategy is the engine's only client and the handler's only listener,   *)
(* main() is the engine's controller, and the tick that the execution      *)
(* thread reads is the handler's latest.  Prices are in hundredths.        *)
(***************************************************************************)
EXTENDS ExecutionEngine, MarketData

CONSTANTS
  BasePrices,  (* what the price may move to; the simulator keeps it at 50.0 *)
               (* or more, and may reach any such price from any other       *)
  MaxTicks,    (* the 1000 of simulateMarketData()                           *)
  MaxSignals,  (* the 5 of onTick()                                          *)
  MaxListed    (* the 5 of main()                                            *)

Simulator == "simulator"
Strategy == "strategy"
Symbol == "AAPL"
OrderQuantity == 100

ASSUME BotAssumption ==
  /\ Simulator \in Clients
  /\ Strategy \in Listeners
  /\ Desk = {}      \* no code of the program cancels or modifies an order
  /\ Symbol \in Symbols
  /\ OrderQuantity \in Quantities
  /\ MaxTicks \in Nat /\ MaxSignals \in Nat /\ MaxListed \in Nat
  /\ \A price \in BasePrices :
       /\ price \in Nat \ {0}
       /\ {price - 1, price + 1} \subseteq Prices
       /\ <<price - 1, price + 1>> \in Quotes
  /\ <<0, 0>> \in Quotes

VARIABLES
  simulator,   (* where the simulator's thread is, "none" if not joinable    *)
  simulating,  (* MarketSimulator::running                                   *)
  tickPrices,  (* the price of each tick so far; the last one is basePrice,  *)
               (* their number is tickCount or, during a round, one more     *)
  lastPrice,   (* the static of onTick()                                     *)
  tradeCount,  (* DemoStrategyListener::tradeCount                           *)
  main,        (* what main() does or reads next                             *)
  report       (* what main() has read to print                              *)

botVars == <<simulator, simulating, tickPrices, lastPrice, tradeCount, main, report>>
simulatorVars == <<simulating, tickPrices, main, report>>
strategyVars == <<lastPrice, tradeCount>>

Report == [orders : Nat, trades : Nat, history : Seq(Trade)]

BotInit ==
  /\ Init
  /\ MarketDataInit
  /\ simulator = "none"
  /\ simulating = FALSE
  /\ tickPrices = <<>>
  /\ lastPrice = 0
  /\ tradeCount = 0
  /\ main = "startEngine"
  /\ report = [orders |-> 0, trades |-> 0, history |-> <<>>]

-----------------------------------------------------------------------------
(* The simulator's thread.  One round of its loop publishes a tick ...     *)
PublishTick ==
  /\ simulator = "loop"
  /\ simulating /\ Len(tickPrices) < MaxTicks
  /\ \E price \in BasePrices : tickPrices' = Append(tickPrices, price)
  /\ publish(Symbol, "tick")
  /\ simulator' = "onTick"
  /\ UNCHANGED <<vars, simulating, strategyVars, main, report>>

LoopEnds ==
  /\ simulator = "loop"
  /\ ~(simulating /\ Len(tickPrices) < MaxTicks)
  /\ simulator' = "returned"
  /\ UNCHANGED <<vars, mdVars, simulatorVars, strategyVars>>

(* ... and a book, which the strategy does nothing with. *)
PublishBook ==
  /\ simulator = "book"
  /\ publish(Symbol, "book")
  /\ simulator' = "onBook"
  /\ UNCHANGED <<vars, simulatorVars, strategyVars>>

BookHeard ==
  /\ simulator = "onBook"
  /\ \E p \in publication : notify(p)
  /\ UNCHANGED <<vars, botVars>>

PublicationReturns ==
  /\ simulator \in {"onTick", "onBook"}
  /\ \E p \in publication : publishReturns(p)
  /\ simulator' = IF simulator = "onTick" THEN "book" ELSE "loop"
  /\ UNCHANGED <<vars, simulatorVars, strategyVars>>

-----------------------------------------------------------------------------
(* The strategy.  A price that moved by more than 0.1 is a signal. *)
tick == [lastPrice |-> tickPrices[Len(tickPrices)],
         bid |-> tickPrices[Len(tickPrices)] - 1,
         ask |-> tickPrices[Len(tickPrices)] + 1]

IsSignal(side, from, to) == IF side = "BUY" THEN to - from > 10 ELSE to - from < -10

\* Mutated form: one signal too many.
SignalsOneMore ==
  {side \in OrderSide :
     lastPrice > 0 /\ tradeCount <= MaxSignals /\ IsSignal(side, lastPrice, tick.lastPrice)}

Signals ==
  {side \in OrderSide :
     lastPrice > 0 /\ tradeCount < MaxSignals /\ IsSignal(side, lastPrice, tick.lastPrice)}

\* Mutated form: onTick() returns early on a tick without a signal, and
\* the price is not kept.
onTickReturnsEarly(traded) ==
  /\ \E p \in publication : notify(p)
  /\ lastPrice' = IF traded \/ lastPrice = 0 THEN tick.lastPrice ELSE lastPrice
  /\ tradeCount' = IF traded THEN tradeCount + 1 ELSE tradeCount
  /\ simulator' = "onTick"
  /\ UNCHANGED simulatorVars

(* onTick() keeps the price and returns to the loop of the publication. *)
onTickReturns(traded) ==
  /\ \E p \in publication : notify(p)
  /\ lastPrice' = tick.lastPrice
  /\ tradeCount' = IF traded THEN tradeCount + 1 ELSE tradeCount
  /\ simulator' = "onTick"
  /\ UNCHANGED simulatorVars

IsCalled == simulator = "onTick" /\ \E p \in publication : p.next = 1

NoSignal ==
  /\ IsCalled /\ Signals = {}
  /\ onTickReturns(FALSE)
  /\ UNCHANGED vars

(* An order at the bid or at the ask, and a request for it. *)
Signal ==
  /\ IsCalled
  /\ \E side \in Signals :
       PlaceRequest(Simulator, side, IF side = "BUY" THEN tick.bid ELSE tick.ask,
                    OrderQuantity, HIGH)
  /\ simulator' = "submit"
  /\ UNCHANGED <<mdVars, simulatorVars, strategyVars>>

Push ==
  /\ simulator = "submit"
  /\ Submit(Simulator)
  /\ UNCHANGED <<mdVars, botVars>>

Announce ==
  /\ simulator = "submit"
  /\ SubmitNotify(Simulator)
  /\ onTickReturns(TRUE)

SimulatorStep ==
  \/ PublishTick \/ LoopEnds \/ PublishBook \/ BookHeard \/ PublicationReturns
  \/ NoSignal \/ Signal \/ Push \/ Announce

-----------------------------------------------------------------------------
(* The quote of a tick, by its number; 0 is the value-initialised tick. *)
QuoteOf(n) == IF n = 0 THEN <<0, 0>> ELSE <<tickPrices[n] - 1, tickPrices[n] + 1>>

\* Mutated form: the oldest tick of the history instead of the latest.
latestTickFront ==
  LET history == DataOf(Symbol).history["tick"]
  IN IF history = <<>> THEN 0 ELSE history[1]

latestTick == getLatest(Symbol, "tick")

(* The execution thread, which waits for dataMutex to read the tick. *)
ReadLatest ==
  /\ dataMutexIsFree
  /\ ReadQuote(QuoteOf(latestTick)[1], QuoteOf(latestTick)[2])
  /\ UNCHANGED <<mdVars, botVars>>

EngineStep ==
  \/ ReadLatest
  \/ /\ \/ LoopHead \/ Lock \/ Predicate \/ Block \/ Check
        \/ FillOrder \/ RecordTrade \/ RecordLatency
     /\ UNCHANGED <<mdVars, botVars>>

Wakeup == SpuriousWakeup /\ UNCHANGED <<mdVars, botVars>>

-----------------------------------------------------------------------------
(* main().  Each step goes on to the next. *)
Goes(from, to) == main = from /\ main' = to
programVars == <<simulator, simulating, tickPrices, strategyVars, report>>

StartEngine ==
  /\ Goes("startEngine", "spawn") /\ Start /\ UNCHANGED <<mdVars, programVars>>
SpawnEngine ==
  /\ Goes("spawn", "subscribe") /\ Spawn /\ UNCHANGED <<mdVars, programVars>>
Subscribe ==
  /\ Goes("subscribe", "startSimulator")
  /\ subscribe(Symbol, Strategy)
  /\ UNCHANGED <<vars, programVars>>

StartSimulator ==
  /\ Goes("startSimulator", "orders")
  /\ simulating' = TRUE
  /\ simulator' = "loop"
  /\ UNCHANGED <<vars, mdVars, tickPrices, strategyVars, report>>

(* What main() reads and prints, one after the other while the threads     *)
(* run: two atomic counters and the trade history.  It prints the average  *)
(* latency too, and the balance and the P&L of a risk manager that nobody  *)
(* tells of a trade: amounts that no property here is about.               *)
Counters == [orders |-> totalOrdersPlaced, trades |-> totalTradesExecuted,
             history |-> trades]

\* Mutated form: the history is read before the counter of trades.
AfterReadingHistoryFirst ==
  [orders |-> "history", history |-> "trades", trades |-> "stopSimulator"]

AfterReading ==
  [orders |-> "trades", trades |-> "history", history |-> "stopSimulator"]

Read ==
  /\ main \in DOMAIN Counters
  /\ report' = [report EXCEPT ![main] = Counters[main]]
  /\ main' = AfterReading[main]
  /\ UNCHANGED <<vars, mdVars, simulator, simulating, tickPrices, strategyVars>>

StopSimulator ==
  /\ Goes("stopSimulator", "joinSimulator")
  /\ simulating' = FALSE
  /\ UNCHANGED <<vars, mdVars, simulator, tickPrices, strategyVars, report>>

\* Mutated form: the simulator's thread is not waited for.
JoinSimulatorNot ==
  /\ Goes("joinSimulator", "stopEngine")
  /\ UNCHANGED <<vars, mdVars, programVars>>

JoinSimulator ==
  /\ Goes("joinSimulator", "stopEngine")
  /\ simulator = "returned"
  /\ simulator' = "none"
  /\ UNCHANGED <<vars, mdVars, simulating, tickPrices, strategyVars, report>>

StopEngine ==
  /\ Goes("stopEngine", "notifyEngine") /\ Stop /\ UNCHANGED <<mdVars, programVars>>
NotifyEngine ==
  /\ Goes("notifyEngine", "joinEngine") /\ StopNotify /\ UNCHANGED <<mdVars, programVars>>
JoinEngine ==
  /\ Goes("joinEngine", "done") /\ Join /\ UNCHANGED <<mdVars, programVars>>

MainStep ==
  \/ StartEngine \/ SpawnEngine \/ Subscribe \/ StartSimulator \/ Read
  \/ StopSimulator \/ JoinSimulator \/ StopEngine \/ NotifyEngine \/ JoinEngine

-----------------------------------------------------------------------------
allVars == <<vars, mdVars, botVars>>

BotNext == SimulatorStep \/ EngineStep \/ Wakeup \/ MainStep
BotSpec == BotInit /\ [][BotNext]_allVars

(* Every thread that can run does, and a push that finds queueMutex free   *)
(* again and again is let in: woken up without a reason, the execution     *)
(* thread may take and release it for ever.                                *)
BotFairness ==
  /\ WF_allVars(SimulatorStep) /\ SF_allVars(Push)
  /\ WF_allVars(EngineStep)
  /\ WF_allVars(MainStep)
BotFairSpec == BotSpec /\ BotFairness
=============================================================================
