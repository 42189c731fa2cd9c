-------------------------- MODULE TradingBotProofs --------------------------
(***************************************************************************)
(* Theorems about the whole program, for any prices, any limits on ticks,  *)
(* signals and listed trades, and any size of the histories.               *)
(***************************************************************************)
EXTENDS BotProperties, EngineProofs, MarketDataProofs

-----------------------------------------------------------------------------
(* The market data handler in the program is the one of its own module.    *)
LEMMA BotInMarketData == BotNext => [MarketDataNext]_mdVars
<1> SUFFICES ASSUME BotNext
             PROVE  [MarketDataNext]_mdVars
  OBVIOUS
<1> Symbol \in Symbols /\ Strategy \in Listeners
  BY BotAssumption DEF BotAssumption
<1>1. CASE SimulatorStep
  <2>1. CASE PublishTick \/ PublishBook
    BY <2>1 DEF PublishTick, PublishBook, MarketDataNext, Kinds
  <2>2. CASE BookHeard \/ PublicationReturns
    BY <2>2 DEF BookHeard, PublicationReturns, MarketDataNext
  <2>3. CASE NoSignal \/ Announce
    BY <2>3 DEF NoSignal, Announce, onTickReturns, MarketDataNext
  <2>4. CASE LoopEnds \/ Signal \/ Push
    BY <2>4 DEF LoopEnds, Signal, Push
  <2> QED
    BY <1>1, <2>1, <2>2, <2>3, <2>4 DEF SimulatorStep
<1>2. CASE EngineStep \/ Wakeup
  BY <1>2 DEF EngineStep, Wakeup, ReadLatest
<1>3. CASE MainStep
  <2>1. CASE Subscribe
    BY <2>1 DEF Subscribe, MarketDataNext
  <2>2. CASE ~Subscribe
    BY <1>3, <2>2
    DEF MainStep, StartEngine, SpawnEngine, StartSimulator, Read, StopSimulator,
        JoinSimulator, StopEngine, NotifyEngine, JoinEngine
  <2> QED
    BY <2>1, <2>2
<1> QED
  BY <1>1, <1>2, <1>3 DEF BotNext

(* So everything that is proved of the handler holds of it in the program. *)
THEOREM BotImplementsMarketData == BotSpec => MarketDataSpec
<1>1. BotInit => MarketDataInit
  BY DEF BotInit
<1>2. [BotNext]_allVars => [MarketDataNext]_mdVars
  BY BotInMarketData DEF allVars
<1> QED
  BY <1>1, <1>2, PTL DEF BotSpec, MarketDataSpec

-----------------------------------------------------------------------------
(* The ticks that were published are the ones the simulator made, and the  *)
(* strategy is called with one of them.                                    *)
Ticks ==
  /\ tickPrices \in Seq(BasePrices)
  /\ published[Symbol]["tick"] = Len(tickPrices)
  /\ simulator \in {"onTick", "submit"} => tickPrices # <<>>

LEMMA TicksInit == BotInit => Ticks
<1> SUFFICES ASSUME BotInit
             PROVE  Ticks
  OBVIOUS
<1>1. Symbol \in Symbols /\ "tick" \in Kinds
  BY BotAssumption DEF BotAssumption, Kinds
<1>2. published[Symbol]["tick"] = 0
  BY <1>1 DEF BotInit, MarketDataInit
<1> QED
  BY <1>2 DEF BotInit, Ticks

LEMMA TicksKept ==
  ASSUME Ticks, UNCHANGED <<tickPrices, published>>,
         simulator' \in {"onTick", "submit"} => simulator \in {"onTick", "submit"}
  PROVE  Ticks'
BY DEF Ticks

LEMMA TicksStep ==
  ASSUME Ticks, MarketDataTypeOK, [BotNext]_allVars
  PROVE  Ticks'
<1> Symbol \in Symbols /\ "tick" \in Kinds /\ "book" \in Kinds /\ "tick" # "book"
  BY BotAssumption DEF BotAssumption, Kinds
<1>1. CASE PublishTick
  <2>1. PICK price \in BasePrices : tickPrices' = Append(tickPrices, price)
    BY <1>1 DEF PublishTick
  <2>2. published[Symbol] \in Numbers /\ published \in [Symbols -> Numbers]
    BY DEF MarketDataTypeOK
  <2>3. published'[Symbol]["tick"] = published[Symbol]["tick"] + 1
    BY <1>1, <2>2 DEF PublishTick, publish, Numbers
  <2>4. /\ tickPrices' \in Seq(BasePrices) /\ Len(tickPrices') = Len(tickPrices) + 1
        /\ tickPrices' # <<>>
    BY <2>1 DEF Ticks
  <2> QED
    BY <2>3, <2>4 DEF Ticks
<1>2. CASE PublishBook
  <2>1. published[Symbol] \in Numbers /\ published \in [Symbols -> Numbers]
    BY DEF MarketDataTypeOK
  <2>2. published'[Symbol]["tick"] = published[Symbol]["tick"]
    BY <1>2, <2>1 DEF PublishBook, publish, Numbers
  <2>3. tickPrices' = tickPrices /\ simulator' = "onBook"
    BY <1>2 DEF PublishBook, simulatorVars
  <2> QED
    BY <2>2, <2>3 DEF Ticks
<1>3. CASE SimulatorStep /\ ~PublishTick /\ ~PublishBook
  <2>1. UNCHANGED tickPrices
    BY <1>3
    DEF SimulatorStep, LoopEnds, BookHeard, PublicationReturns, NoSignal,
        Announce, onTickReturns, Signal, Push, simulatorVars, botVars
  <2>2. UNCHANGED published
    BY <1>3
    DEF SimulatorStep, LoopEnds, BookHeard, PublicationReturns, NoSignal,
        Announce, onTickReturns, Signal, Push, mdVars, notify, publishReturns
  <2>3. simulator' \in {"onTick", "submit"} => simulator \in {"onTick", "submit"}
    BY <1>3
    DEF SimulatorStep, LoopEnds, BookHeard, PublicationReturns, NoSignal,
        Announce, onTickReturns, Signal, Push, botVars, IsCalled
  <2> QED
    BY <2>1, <2>2, <2>3, TicksKept
<1>4. CASE EngineStep \/ Wakeup
  BY <1>4, TicksKept DEF EngineStep, Wakeup, ReadLatest, mdVars, botVars
<1>5. CASE MainStep
  BY <1>5, TicksKept
  DEF MainStep, StartEngine, SpawnEngine, Subscribe, subscribe, StartSimulator,
      Read, StopSimulator, JoinSimulator, StopEngine, NotifyEngine, JoinEngine,
      mdVars, programVars
<1>6. CASE UNCHANGED allVars
  BY <1>6, TicksKept DEF allVars, mdVars, botVars
<1> QED
  BY <1>1, <1>2, <1>3, <1>4, <1>5, <1>6 DEF BotNext

LEMMA TicksInvariant == BotSpec => []Ticks
<1>1. Ticks /\ MarketDataTypeOK /\ [BotNext]_allVars => Ticks'
  BY TicksStep
<1> QED
  BY <1>1, TicksInit, BotImplementsMarketData, MarketDataTypeCorrect, PTL DEF BotSpec
-----------------------------------------------------------------------------
(* The latest tick is one that was published, if there is any. *)
LEMMA LatestIsPublished ==
  ASSUME Ticks, MarketDataTypeOK, HistoryIsRecent
  PROVE  latestTick = 0 \/ latestTick \in DOMAIN tickPrices
<1> Symbol \in Symbols /\ "tick" \in Kinds
  BY BotAssumption DEF BotAssumption, Kinds
<1>1. CASE Symbol \notin DOMAIN symbolDataMap
  <2>1. DataOf(Symbol).history["tick"] = <<>>
    BY <1>1 DEF DataOf, NewSymbolData
  <2> QED
    BY <2>1 DEF latestTick, getLatest
<1>2. CASE Symbol \in DOMAIN symbolDataMap
  <2> DEFINE n == Len(tickPrices)
  <2>1. n \in Nat /\ published[Symbol]["tick"] = n /\ DOMAIN tickPrices = 1 .. n
    BY DEF Ticks
  <2>2. DataOf(Symbol).history["tick"] = Recent(n)
    BY <1>2, <2>1 DEF HistoryIsRecent, DataOf
  <2> HIDE DEF n
  <2>3. latestTick = IF Recent(n) = <<>> THEN 0 ELSE Recent(n)[Len(Recent(n))]
    BY <2>2 DEF latestTick, getLatest
  <2> QED
    BY <2>1, <2>3, LatestOfRecent
<1> QED
  BY <1>1, <1>2

-----------------------------------------------------------------------------
(* The execution engine in the program is the one of its own module: the   *)
(* quote that is read is one of Quotes, and the order that a signal places *)
(* is one a client may place.                                              *)
LEMMA BotInEngine ==
  ASSUME Ticks, MarketDataTypeOK, HistoryIsRecent, BotNext
  PROVE  [Next]_vars
<1> Simulator \in Clients
  BY BotAssumption DEF BotAssumption
<1>1. CASE Signal
  <2>1. PICK side \in OrderSide :
          PlaceRequest(Simulator, side, IF side = "BUY" THEN tick.bid ELSE tick.ask,
                       OrderQuantity, HIGH)
    BY <1>1 DEF Signal, Signals
  <2>2. tickPrices[Len(tickPrices)] \in BasePrices
    BY <1>1, LenProperties, EmptySeq DEF Signal, IsCalled, Ticks
  <2>3. tick.bid \in Prices /\ tick.ask \in Prices
    BY <2>2, BotAssumption DEF tick, BotAssumption
  <2>4. OrderQuantity \in Quantities /\ HIGH \in ExecutionPriority
    BY BotAssumption DEF BotAssumption, ExecutionPriority
  <2>5. Place(Simulator)
    BY <2>1, <2>3, <2>4 DEF Place
  <2> QED
    BY <2>5 DEF Next, ClientStep
<1>2. CASE Push \/ Announce
  BY <1>2 DEF Push, Announce, Next, ClientStep
<1>3. CASE SimulatorStep /\ ~Signal /\ ~Push /\ ~Announce
  BY <1>3
  DEF SimulatorStep, PublishTick, LoopEnds, PublishBook, BookHeard,
      PublicationReturns, NoSignal
<1>4. CASE ReadLatest
  <2>1. ReadQuote(QuoteOf(latestTick)[1], QuoteOf(latestTick)[2])
    BY <1>4 DEF ReadLatest
  <2>2. QuoteOf(latestTick) \in Quotes
    <3>1. CASE latestTick = 0
      BY <3>1, BotAssumption DEF QuoteOf, BotAssumption
    <3>2. CASE latestTick # 0
      <4>1. tickPrices[latestTick] \in BasePrices
        BY <3>2, LatestIsPublished DEF Ticks
      <4> QED
        BY <3>2, <4>1, BotAssumption DEF QuoteOf, BotAssumption
    <3> QED
      BY <3>1, <3>2
  <2>3. ReadTick
    BY <2>1, <2>2 DEF ReadTick
  <2> QED
    BY <2>3 DEF Next, ThreadStep
<1>5. CASE (EngineStep /\ ~ReadLatest) \/ Wakeup
  BY <1>5 DEF EngineStep, Wakeup, Next, ThreadStep
<1>6. CASE MainStep
  BY <1>6
  DEF MainStep, StartEngine, SpawnEngine, Subscribe, StartSimulator, Read,
      StopSimulator, JoinSimulator, StopEngine, NotifyEngine, JoinEngine,
      Next, ControllerStep
<1> QED
  BY <1>1, <1>2, <1>3, <1>4, <1>5, <1>6 DEF BotNext, SimulatorStep

(* So everything that is proved of the engine holds of it in the program.  *)
THEOREM BotImplementsEngine == BotSpec => Spec
<1>1. BotInit => Init
  BY DEF BotInit
<1>2. Ticks /\ MarketDataTypeOK /\ HistoryIsRecent /\ [BotNext]_allVars => [Next]_vars
  BY BotInEngine DEF allVars
<1> QED
  BY <1>1, <1>2, TicksInvariant, BotImplementsMarketData, MarketDataTypeCorrect,
     HistoriesCorrect, PTL DEF BotSpec, Spec
-----------------------------------------------------------------------------
(* BotTypeOK is inductive together with two facts: main() has not started  *)
(* the simulator before it does, and the strategy submits no request after *)
(* its last signal.                                                        *)
Starting == {"startEngine", "spawn", "subscribe", "startSimulator"}

SimulatorOwn ==
  /\ simulator \in {"none", "loop", "onTick", "submit", "book", "onBook", "returned"}
  /\ simulating \in BOOLEAN
  /\ tickPrices \in Seq(BasePrices) /\ Len(tickPrices) <= MaxTicks
  /\ lastPrice \in BasePrices \cup {0}
  /\ tradeCount \in 0 .. MaxSignals
  /\ simulator = "submit" => tradeCount < MaxSignals
  /\ main \in Starting => simulator = "none"
  /\ dataMutexIsFree <=> simulator \notin {"onTick", "submit", "onBook"}

MainOwn ==
  /\ main \in DOMAIN Counters \cup
       {"startEngine", "spawn", "subscribe", "startSimulator", "stopSimulator",
        "joinSimulator", "stopEngine", "notifyEngine", "joinEngine", "done"}
  /\ report \in Report

LEMMA BotTypeParts == SimulatorOwn /\ MainOwn => BotTypeOK
BY DEF SimulatorOwn, MainOwn, BotTypeOK

LEMMA CounterTypes ==
  ASSUME EngineTypeOK, NEW field \in DOMAIN Counters, report \in Report
  PROVE  [report EXCEPT ![field] = Counters[field]] \in Report
<1>1. /\ totalOrdersPlaced \in Nat /\ totalTradesExecuted \in Nat
      /\ trades \in Seq(Trade)
  BY LenProperties DEF EngineTypeOK, OrderManagerTypeOK
<1>2. CASE field = "history"
  BY <1>1, <1>2 DEF Counters, Report
<1>3. CASE field # "history"
  <2>1. field \in {"orders", "trades"} /\ Counters[field] \in Nat
    BY <1>1, <1>3 DEF Counters
  <2> QED
    BY <2>1 DEF Report
<1> QED
  BY <1>2, <1>3

LEMMA MainOwnStep ==
  ASSUME MainOwn, EngineTypeOK, [BotNext]_allVars
  PROVE  MainOwn'
<1>1. CASE UNCHANGED <<main, report>>
  BY <1>1 DEF MainOwn, Counters
<1>2. CASE Read
  <2>1. report' \in Report
    BY <1>2, CounterTypes DEF Read, MainOwn
  <2>2. main' \in {"trades", "history", "stopSimulator"}
    BY <1>2 DEF Read, AfterReading, Counters
  <2> QED
    BY <2>1, <2>2 DEF MainOwn, Counters
<1>3. CASE MainStep /\ ~Read
  BY <1>3
  DEF MainStep, StartEngine, SpawnEngine, Subscribe, StartSimulator, StopSimulator,
      JoinSimulator, StopEngine, NotifyEngine, JoinEngine, Goes, programVars,
      MainOwn, Counters
<1>4. CASE SimulatorStep \/ EngineStep \/ Wakeup
  BY <1>1, <1>4
  DEF SimulatorStep, PublishTick, LoopEnds, PublishBook, BookHeard,
      PublicationReturns, NoSignal, Announce, onTickReturns, Signal, Push,
      EngineStep, ReadLatest, Wakeup, simulatorVars, botVars
<1> QED
  BY <1>1, <1>2, <1>3, <1>4 DEF BotNext, allVars, botVars

LEMMA OnTickReturnsKeeps ==
  ASSUME SimulatorOwn, Ticks, NEW traded \in BOOLEAN,
         traded => tradeCount < MaxSignals,
         simulator \in {"onTick", "submit"}, onTickReturns(traded)
  PROVE  SimulatorOwn'
<1>1. tickPrices # <<>> /\ tick.lastPrice \in BasePrices
  BY LenProperties, EmptySeq DEF Ticks, tick
<1>2. MaxSignals \in Nat
  BY BotAssumption DEF BotAssumption
<1>3. tradeCount' \in 0 .. MaxSignals
  BY <1>2 DEF onTickReturns, SimulatorOwn
<1>4. publication' # {}
  BY DEF onTickReturns, notify
<1> QED
  BY <1>1, <1>3, <1>4 DEF onTickReturns, SimulatorOwn, simulatorVars, dataMutexIsFree

LEMMA SimulatorOwnStep ==
  ASSUME SimulatorOwn, Ticks, [BotNext]_allVars
  PROVE  SimulatorOwn'
<1>1. CASE PublishTick
  <2>1. PICK price \in BasePrices : tickPrices' = Append(tickPrices, price)
    BY <1>1 DEF PublishTick
  <2>2. tickPrices' \in Seq(BasePrices) /\ Len(tickPrices') = Len(tickPrices) + 1
    BY <2>1 DEF SimulatorOwn
  <2>3. Len(tickPrices') <= MaxTicks
    BY <1>1, <2>2, LenProperties, BotAssumption DEF PublishTick, SimulatorOwn, BotAssumption
  <2>4. publication' # {}
    BY <1>1 DEF PublishTick, publish
  <2> QED
    BY <1>1, <2>2, <2>3, <2>4
    DEF PublishTick, SimulatorOwn, dataMutexIsFree, strategyVars
<1>2. CASE PublishBook
  BY <1>2 DEF PublishBook, publish, SimulatorOwn, dataMutexIsFree, simulatorVars,
              strategyVars
<1>3. CASE LoopEnds
  BY <1>3 DEF LoopEnds, SimulatorOwn, dataMutexIsFree, mdVars, simulatorVars,
              strategyVars
<1>4. CASE BookHeard
  BY <1>4 DEF BookHeard, notify, SimulatorOwn, dataMutexIsFree, botVars
<1>5. CASE PublicationReturns
  BY <1>5 DEF PublicationReturns, publishReturns, SimulatorOwn, dataMutexIsFree,
              simulatorVars, strategyVars
<1>6. CASE NoSignal
  BY <1>6, OnTickReturnsKeeps DEF NoSignal, IsCalled
<1>7. CASE Announce
  BY <1>7, OnTickReturnsKeeps DEF Announce, SimulatorOwn
<1>8. CASE Signal
  <2>1. tradeCount < MaxSignals
    BY <1>8 DEF Signal, Signals
  <2> QED
    BY <1>8, <2>1 DEF Signal, SimulatorOwn, IsCalled, dataMutexIsFree, mdVars,
                      simulatorVars, strategyVars
<1>9. CASE Push \/ EngineStep \/ Wakeup \/ UNCHANGED allVars
  BY <1>9 DEF Push, EngineStep, ReadLatest, Wakeup, SimulatorOwn, dataMutexIsFree,
              mdVars, botVars, allVars
<1>10. CASE MainStep
  <2>1. UNCHANGED <<publication, tickPrices, lastPrice, tradeCount>>
    BY <1>10
    DEF MainStep, StartEngine, SpawnEngine, Subscribe, subscribe, StartSimulator,
        Read, StopSimulator, JoinSimulator, StopEngine, NotifyEngine, JoinEngine,
        programVars, strategyVars, mdVars
  <2>2. CASE StartSimulator
    BY <2>1, <2>2 DEF StartSimulator, Goes, SimulatorOwn, Starting, dataMutexIsFree
  <2>3. CASE JoinSimulator
    BY <2>1, <2>3 DEF JoinSimulator, Goes, SimulatorOwn, Starting, dataMutexIsFree
  <2>4. CASE StopSimulator
    BY <2>1, <2>4 DEF StopSimulator, Goes, SimulatorOwn, Starting, dataMutexIsFree
  <2>5. CASE Read
    BY <2>1, <2>5 DEF Read, AfterReading, Counters, SimulatorOwn, Starting,
                      dataMutexIsFree
  <2>6. CASE StartEngine \/ SpawnEngine \/ Subscribe \/ StopEngine \/ NotifyEngine
               \/ JoinEngine
    BY <2>1, <2>6
    DEF StartEngine, SpawnEngine, Subscribe, StopEngine, NotifyEngine, JoinEngine,
        Goes, programVars, SimulatorOwn, Starting, dataMutexIsFree
  <2> QED
    BY <1>10, <2>2, <2>3, <2>4, <2>5, <2>6 DEF MainStep
<1> QED
  BY <1>1, <1>2, <1>3, <1>4, <1>5, <1>6, <1>7, <1>8, <1>9, <1>10
  DEF BotNext, SimulatorStep

LEMMA BotTypeInit == BotInit => SimulatorOwn /\ MainOwn
<1> SUFFICES ASSUME BotInit PROVE SimulatorOwn /\ MainOwn
  OBVIOUS
<1>1. MaxTicks \in Nat /\ MaxSignals \in Nat
  BY BotAssumption DEF BotAssumption
<1>2. tickPrices \in Seq(BasePrices) /\ Len(tickPrices) = 0
  BY DEF BotInit
<1>3. SimulatorOwn
  <2>1. simulator = "none" /\ simulating = FALSE /\ lastPrice = 0 /\ tradeCount = 0
    BY DEF BotInit
  <2>2. simulating \in BOOLEAN
    BY <2>1, Zenon
  <2>3. dataMutexIsFree
    BY DEF BotInit, MarketDataInit, dataMutexIsFree
  <2>4. Len(tickPrices) <= MaxTicks /\ tradeCount \in 0 .. MaxSignals
    BY <1>1, <1>2, <2>1
  <2> QED
    BY <1>2, <2>1, <2>2, <2>3, <2>4 DEF SimulatorOwn
<1>4. report \in Report
  BY DEF BotInit, Report
<1> QED
  BY <1>3, <1>4 DEF BotInit, MainOwn

(* Type correctness of the program: the simulator's thread holds dataMutex *)
(* exactly while a publication is under way, the strategy stops at its     *)
(* last signal, and what main() has read are counts.                       *)
THEOREM BotTypeCorrect == BotSpec => []BotTypeOK
<1>1. SimulatorOwn /\ MainOwn /\ Ticks /\ EngineTypeOK /\ [BotNext]_allVars
        => SimulatorOwn' /\ MainOwn'
  BY SimulatorOwnStep, MainOwnStep
<1> QED
  BY <1>1, BotTypeInit, BotTypeParts, TicksInvariant, BotImplementsEngine,
     EngineTypeCorrect, PTL DEF BotSpec

-----------------------------------------------------------------------------
(* What the engine's theorems give for the program. *)
EngineFacts ==
  /\ EngineInv /\ Conserved /\ Accounted /\ Counted /\ QuantitiesAgree /\ NoneCancelled
  /\ CountersInStep /\ OrdersMatchTrades /\ QuiescentWhenStopped

LEMMA EngineFactsInProgram == BotSpec => [](EngineFacts /\ SimulatorOwn /\ MainOwn)
<1>1. SimulatorOwn /\ MainOwn /\ Ticks /\ EngineTypeOK /\ [BotNext]_allVars
        => SimulatorOwn' /\ MainOwn'
  BY SimulatorOwnStep, MainOwnStep
<1>2. RequestsInv => EngineInv /\ Conserved
  BY DEF RequestsInv
<1>3. ExecutionInv => RequestsInv /\ Accounted
  BY DEF ExecutionInv
<1>4. /\ EngineInv /\ Conserved /\ Accounted /\ Counted /\ QuantitiesAgree
      /\ NoneCancelled /\ CountersInStep /\ OrdersMatchTrades /\ QuiescentWhenStopped
      => EngineFacts
  BY DEF EngineFacts
<1> QED
  BY <1>1, <1>2, <1>3, <1>4, BotTypeInit, TicksInvariant, BotImplementsEngine,
     EngineTypeCorrect, ExecutionInvInductive, CountedInvariant,
     QuantitiesInvariant, NoneCancelledInvariant, CountersStayInStep,
     OrdersAndTradesMatch, StoppedMeansQuiescent, PTL DEF BotSpec

(* Who places: the strategy alone, and it answers the signal it has        *)
(* counted before it listens to the next tick.                             *)
Placing ==
  /\ totalOrdersPlaced = tradeCount + (IF simulator = "submit" THEN 1 ELSE 0)
  /\ \A c \in Clients :
       client[c].next # "place" => c = Simulator /\ simulator = "submit"
  /\ \A r \in requests : r.quantity = OrderQuantity

(* A step other than Signal places no order. *)
LEMMA OrdersKept ==
  ASSUME [BotNext]_allVars, ~Signal
  PROVE  totalOrdersPlaced' = totalOrdersPlaced
<1>1. CASE SimulatorStep
  BY <1>1
  DEF SimulatorStep, PublishTick, LoopEnds, PublishBook, BookHeard, PublicationReturns,
      NoSignal, Announce, SubmitNotify, Push, Submit, vars, omVars, orderVars
<1>2. CASE EngineStep \/ Wakeup
  BY <1>2
  DEF EngineStep, ReadLatest, ReadQuote, Wakeup, SpuriousWakeup, LoopHead, Lock,
      Predicate, Block, Check, FillOrder, simulateOrderExecution, RecordTrade,
      RecordLatency, omVars, orderVars
<1>3. CASE MainStep
  BY <1>3
  DEF MainStep, StartEngine, SpawnEngine, Subscribe, StartSimulator, Read,
      StopSimulator, JoinSimulator, StopEngine, NotifyEngine, JoinEngine,
      Start, Spawn, Stop, StopNotify, Join, vars, omVars, orderVars
<1>4. CASE UNCHANGED allVars
  BY <1>4 DEF allVars, vars, omVars, orderVars
<1> QED
  BY <1>1, <1>2, <1>3, <1>4 DEF BotNext

LEMMA NoPlace ==
  ASSUME EngineTypeOK, totalOrdersPlaced' = totalOrdersPlaced
  PROVE  ~ \E c \in Clients : Place(c)
<1> SUFFICES ASSUME NEW c \in Clients, Place(c)
             PROVE  FALSE
  OBVIOUS
<1>1. totalOrdersPlaced \in Nat
  BY DEF EngineTypeOK, OrderManagerTypeOK
<1>2. totalOrdersPlaced' = totalOrdersPlaced + 1
  BY DEF Place, PlaceRequest, placeOrder
<1> QED
  BY <1>1, <1>2

LEMMA SignalPlaces ==
  ASSUME EngineTypeOK, SimulatorOwn, Placing, Signal
  PROVE  Placing'
<1>1. PICK side \in OrderSide :
        PlaceRequest(Simulator, side, IF side = "BUY" THEN tick.bid ELSE tick.ask,
                     OrderQuantity, HIGH)
  BY DEF Signal, Signals
<1> DEFINE r == [orderId |-> orderIdCounter, side |-> side,
                 price |-> IF side = "BUY" THEN tick.bid ELSE tick.ask,
                 quantity |-> OrderQuantity, priority |-> HIGH]
           v == [next |-> "push", request |-> r]
<1>2. client' = [client EXCEPT ![Simulator] = v] /\ r.quantity = OrderQuantity
      /\ v.request = r /\ v.next = "push"
  BY <1>1 DEF PlaceRequest
<1> HIDE DEF r, v
<1>3. Simulator \in Clients
  BY BotAssumption DEF BotAssumption
<1>4. client'[Simulator] = v /\ \A d \in Clients \ {Simulator} : client'[d] = client[d]
  BY <1>2, <1>3, TypeParts, ClientKeeps
<1>5. simulator = "onTick" /\ simulator' = "submit" /\ tradeCount' = tradeCount
  BY DEF Signal, IsCalled, strategyVars
<1>6. totalOrdersPlaced' = totalOrdersPlaced + 1
  BY <1>1 DEF PlaceRequest, placeOrder
<1>7. UNCHANGED <<executionQueue, executed, thread, request>>
  BY <1>1 DEF PlaceRequest, queueVars, threadVars
<1>8. \A s : s \in Built' => s \in Built \/ s = r
  BY <1>2, <1>3, <1>4, BuiltRequest, BuiltRequest2
<1>9. requests' \subseteq requests \cup {r}
  BY <1>7, <1>8 DEF requests, executing
<1>10. \A s \in requests' : s.quantity = OrderQuantity
  BY <1>2, <1>9 DEF Placing
<1>11. \A c \in Clients :
         client'[c].next # "place" => c = Simulator /\ simulator' = "submit"
  BY <1>3, <1>4, <1>5 DEF Placing
<1>12. totalOrdersPlaced' = tradeCount' + 1
  <2>1. tradeCount \in Nat
    BY BotAssumption DEF SimulatorOwn, BotAssumption
  <2> QED
    BY <1>5, <1>6, <2>1 DEF Placing
<1> QED
  BY <1>5, <1>10, <1>11, <1>12 DEF Placing

LEMMA PlacingStep ==
  ASSUME EngineInv, SimulatorOwn, Placing, [BotNext]_allVars, [Next]_vars
  PROVE  Placing'
<1>1. EngineTypeOK /\ Lifecycle
  BY DEF EngineInv
<1>2. CASE Signal
  BY <1>1, <1>2, SignalPlaces
<1>3. CASE ~Signal
  <2>1. totalOrdersPlaced' = totalOrdersPlaced
    BY <1>3, OrdersKept
  <2>2. requests' \subseteq requests
    BY <1>1, <2>1, NoPlace, RequestsKept
  <2>3. tradeCount \in Nat /\ Simulator \in Clients
    BY BotAssumption DEF SimulatorOwn, BotAssumption
  <2>4. CASE Announce
    <3>1. /\ client' = [client EXCEPT ![Simulator] =
                          [next |-> "place", request |-> NoRequest]]
          /\ simulator = "submit" /\ simulator' = "onTick"
          /\ tradeCount' = tradeCount + 1
      BY <2>4 DEF Announce, SubmitNotify, onTickReturns
    <3> DEFINE v == [next |-> "place", request |-> NoRequest]
    <3>2. v.next = "place" /\ client' = [client EXCEPT ![Simulator] = v]
      BY <3>1
    <3> HIDE DEF v
    <3>3. client'[Simulator] = v
          /\ \A d \in Clients \ {Simulator} : client'[d] = client[d]
      BY <1>1, <2>3, <3>2, TypeParts, ClientKeeps
    <3>4. \A c \in Clients : client'[c].next = "place"
      BY <3>2, <3>3 DEF Placing
    <3> QED
      BY <2>1, <2>2, <2>3, <3>1, <3>4 DEF Placing
  <2>5. CASE Push
    <3>1. /\ client' = [client EXCEPT ![Simulator].next = "notify"]
          /\ simulator = "submit" /\ simulator' = "submit"
          /\ tradeCount' = tradeCount
      BY <2>5 DEF Push, Submit, botVars
    <3>2. \A d \in Clients \ {Simulator} : client'[d] = client[d]
      BY <1>1, <3>1 DEF EngineTypeOK
    <3> QED
      BY <2>1, <2>2, <3>1, <3>2 DEF Placing
  <2>6. CASE ~Announce /\ ~Push
    <3>1. /\ client' = client /\ tradeCount' = tradeCount
          /\ simulator' = "submit" <=> simulator = "submit"
      <4>1. CASE SimulatorStep
        BY <1>3, <2>6, <4>1
        DEF SimulatorStep, PublishTick, LoopEnds, PublishBook, BookHeard,
            PublicationReturns, NoSignal, IsCalled, onTickReturns, vars, strategyVars,
            botVars
      <4>2. CASE EngineStep \/ Wakeup
        BY <4>2
        DEF EngineStep, ReadLatest, ReadQuote, Wakeup, SpuriousWakeup, LoopHead, Lock,
            Predicate, Block, Check, FillOrder, RecordTrade, RecordLatency, botVars
      <4>3. CASE MainStep
        BY <4>3
        DEF MainStep, StartEngine, SpawnEngine, Subscribe, StartSimulator, Read,
            StopSimulator, JoinSimulator, StopEngine, NotifyEngine, JoinEngine,
            Start, Spawn, Stop, StopNotify, Join, vars, programVars, strategyVars, Goes,
            SimulatorOwn, Starting
      <4>4. CASE UNCHANGED allVars
        BY <4>4 DEF allVars, vars, botVars
      <4> QED
        BY <4>1, <4>2, <4>3, <4>4 DEF BotNext
    <3> QED
      BY <2>1, <2>2, <3>1 DEF Placing
  <2> QED
    BY <2>4, <2>5, <2>6
<1> QED
  BY <1>2, <1>3

LEMMA PlacingInvariant == BotSpec => []Placing
<1>1. BotInit => Placing
  <2> SUFFICES ASSUME BotInit
               PROVE  Placing
    OBVIOUS
  <2>1. /\ \A c \in Clients : client[c].next = "place"
        /\ executionQueue = {} /\ executed = {} /\ thread = "none"
        /\ totalOrdersPlaced = 0 /\ tradeCount = 0 /\ simulator = "none"
    BY DEF BotInit, Init, OrderManagerInit
  <2>2. requests = {}
    BY <2>1, BuiltRequest DEF requests, executing, Executing
  <2> QED
    BY <2>1, <2>2 DEF Placing
<1>2. EngineFacts /\ SimulatorOwn /\ Placing /\ [BotNext]_allVars /\ [Next]_vars
        => Placing'
  BY PlacingStep DEF EngineFacts
<1> QED
  BY <1>1, <1>2, EngineFactsInProgram, BotImplementsEngine, PTL DEF BotSpec, Spec

-----------------------------------------------------------------------------
(* What main() has read, against what it may still read: the counts grow,  *)
(* so a count that was read is at most the count there is.                 *)
ReportInv ==
  /\ main \notin Starting \cup {"orders"} => report.orders <= totalOrdersPlaced
  /\ main \notin Starting \cup {"orders", "trades"} =>
       /\ report.trades <= totalOrdersPlaced
       /\ report.trades <= totalTradesExecuted
       /\ report.trades <= MaxSignals
  /\ main \notin Starting \cup DOMAIN Counters => report.trades <= Len(report.history)

LEMMA OrdersGrow ==
  ASSUME EngineTypeOK, [BotNext]_allVars
  PROVE  totalOrdersPlaced' \in Nat /\ totalOrdersPlaced <= totalOrdersPlaced'
<1>1. totalOrdersPlaced \in Nat
  BY DEF EngineTypeOK, OrderManagerTypeOK
<1>2. CASE Signal
  BY <1>1, <1>2 DEF Signal, PlaceRequest, placeOrder
<1>3. CASE ~Signal
  BY <1>1, <1>3, OrdersKept
<1> QED
  BY <1>2, <1>3

LEMMA TradesGrow ==
  ASSUME EngineTypeOK, [BotNext]_allVars
  PROVE  totalTradesExecuted' \in Nat /\ totalTradesExecuted <= totalTradesExecuted'
<1>1. totalTradesExecuted \in Nat
  BY LenProperties DEF EngineTypeOK, OrderManagerTypeOK
<1>2. CASE RecordTrade
  BY <1>1, <1>2 DEF RecordTrade, simulateTrade
<1>3. CASE ~RecordTrade
  <2>1. CASE SimulatorStep
    <3>1. CASE Signal \/ Announce \/ Push
      <4>1. UNCHANGED tradeVars
        BY <3>1 DEF Signal, PlaceRequest, Announce, SubmitNotify, Push, Submit, omVars
      <4> QED
        BY <1>1, <4>1 DEF tradeVars
    <3>2. CASE ~Signal /\ ~Announce /\ ~Push
      <4>1. UNCHANGED vars
        BY <2>1, <3>2
        DEF SimulatorStep, PublishTick, LoopEnds, PublishBook, BookHeard,
            PublicationReturns, NoSignal
      <4> QED
        BY <1>1, <4>1 DEF vars, omVars, tradeVars
    <3> QED
      BY <3>1, <3>2
  <2>2. CASE EngineStep \/ Wakeup
    BY <1>1, <1>3, <2>2
    DEF EngineStep, ReadLatest, ReadQuote, Wakeup, SpuriousWakeup, LoopHead, Lock,
        Predicate, Block, Check, FillOrder, RecordLatency, omVars, tradeVars
  <2>3. CASE MainStep
    BY <1>1, <2>3
    DEF MainStep, StartEngine, SpawnEngine, Subscribe, StartSimulator, Read,
        StopSimulator, JoinSimulator, StopEngine, NotifyEngine, JoinEngine,
        Start, Spawn, Stop, StopNotify, Join, vars, omVars, tradeVars
  <2>4. CASE UNCHANGED allVars
    BY <1>1, <2>4 DEF allVars, vars, omVars, tradeVars
  <2> QED
    BY <2>1, <2>2, <2>3, <2>4 DEF BotNext
<1> QED
  BY <1>2, <1>3

(* A read of the counters that the engine keeps in step. *)
LEMMA ReadKeepsReport ==
  ASSUME EngineFacts, SimulatorOwn, MainOwn, Placing, ReportInv, Read
  PROVE  ReportInv'
<1>1. /\ report \in Report /\ MaxSignals \in Nat /\ tradeCount \in 0 .. MaxSignals
      /\ simulator = "submit" => tradeCount < MaxSignals
  BY BotAssumption DEF MainOwn, SimulatorOwn, BotAssumption
<1>2. /\ totalTradesExecuted = Len(trades) /\ totalTradesExecuted \in Nat
      /\ totalOrdersPlaced \in Nat /\ trades \in Seq(Trade)
  BY LenProperties DEF EngineFacts, EngineInv, EngineTypeOK, OrderManagerTypeOK
<1>3. totalTradesExecuted <= totalOrdersPlaced
  BY DEF EngineFacts, CountersInStep
<1>4. totalOrdersPlaced <= MaxSignals
  BY <1>1 DEF Placing
<1>5. UNCHANGED <<totalOrdersPlaced, totalTradesExecuted>>
  BY DEF Read, vars, omVars, orderVars, tradeVars
<1>6. report.orders \in Nat /\ report.trades \in Nat
  BY <1>1 DEF Report
<1>7. DOMAIN Counters = {"orders", "trades", "history"} /\ DOMAIN Counters' = DOMAIN Counters
  BY DEF Counters
<1>8. CASE main = "orders"
  <2>1. main' = "trades" /\ report'.orders = totalOrdersPlaced
    BY <1>1, <1>8 DEF Read, AfterReading, Counters, Report
  <2> QED
    BY <1>2, <1>5, <1>7, <2>1 DEF ReportInv
<1>9. CASE main = "trades"
  <2>1. main' = "history" /\ report'.orders = report.orders
        /\ report'.trades = totalTradesExecuted
    BY <1>1, <1>9 DEF Read, AfterReading, Counters, Report
  <2>2. report.orders <= totalOrdersPlaced
    BY <1>9 DEF ReportInv, Starting
  <2> QED
    BY <1>1, <1>2, <1>3, <1>4, <1>5, <1>7, <2>1, <2>2 DEF ReportInv
<1>10. CASE main = "history"
  <2>1. main' = "stopSimulator" /\ report'.orders = report.orders
        /\ report'.trades = report.trades /\ report'.history = trades
    BY <1>1, <1>10 DEF Read, AfterReading, Counters, Report
  <2>2. /\ report.orders <= totalOrdersPlaced
        /\ report.trades <= totalOrdersPlaced
        /\ report.trades <= totalTradesExecuted /\ report.trades <= MaxSignals
    BY <1>10 DEF ReportInv, Starting
  <2> QED
    BY <1>2, <1>5, <1>6, <2>1, <2>2 DEF ReportInv
<1> QED
  BY <1>8, <1>9, <1>10 DEF Read, Counters

LEMMA ReportStep ==
  ASSUME EngineFacts, SimulatorOwn, MainOwn, Placing, ReportInv, [BotNext]_allVars
  PROVE  ReportInv'
<1>1. CASE Read
  BY <1>1, ReadKeepsReport
<1>2. CASE ~Read
  <2>1. /\ report' = report
        /\ \/ main' = main
           \/ main' \in Starting \cup {"orders"}
           \/ main \notin Starting \cup DOMAIN Counters
    <3>1. CASE MainStep
      BY <1>2, <3>1
      DEF MainStep, StartEngine, SpawnEngine, Subscribe, StartSimulator, StopSimulator,
          JoinSimulator, StopEngine, NotifyEngine, JoinEngine, Goes, programVars,
          Starting, Counters
    <3>2. CASE SimulatorStep \/ EngineStep \/ Wakeup \/ UNCHANGED allVars
      BY <3>2
      DEF SimulatorStep, PublishTick, LoopEnds, PublishBook, BookHeard,
          PublicationReturns, NoSignal, Announce, onTickReturns, Signal, Push,
          EngineStep, ReadLatest, Wakeup, simulatorVars, botVars, allVars
    <3> QED
      BY <3>1, <3>2 DEF BotNext
  <2>2. /\ totalTradesExecuted \in Nat /\ totalTradesExecuted' \in Nat
        /\ totalTradesExecuted <= totalTradesExecuted'
        /\ totalOrdersPlaced \in Nat /\ totalOrdersPlaced' \in Nat
        /\ totalOrdersPlaced <= totalOrdersPlaced'
    BY TradesGrow, OrdersGrow, LenProperties
    DEF EngineFacts, EngineInv, EngineTypeOK, OrderManagerTypeOK
  <2>3. report.orders \in Nat /\ report.trades \in Nat
    BY DEF MainOwn, Report
  <2>4. DOMAIN Counters = {"orders", "trades", "history"}
        /\ DOMAIN Counters' = DOMAIN Counters
    BY DEF Counters
  <2>5. CASE main' = main
    BY <2>1, <2>2, <2>3, <2>4, <2>5 DEF ReportInv
  <2>6. CASE main' \in Starting \cup {"orders"}
    BY <2>4, <2>6 DEF ReportInv, Starting
  <2>7. CASE main \notin Starting \cup DOMAIN Counters
    <3>1. /\ report.orders <= totalOrdersPlaced
          /\ report.trades <= totalOrdersPlaced
          /\ report.trades <= totalTradesExecuted /\ report.trades <= MaxSignals
          /\ report.trades <= Len(report.history)
      BY <2>4, <2>7 DEF ReportInv
    <3> QED
      BY <2>1, <2>2, <2>3, <3>1 DEF ReportInv
  <2> QED
    BY <2>1, <2>5, <2>6, <2>7
<1> QED
  BY <1>1, <1>2

(* The lines that main() prints while the threads run fit together as far  *)
(* as the order it reads them in allows: the trades exceed the orders at   *)
(* most by orders placed in between, and every trade counted is listed.    *)
THEOREM ReportIsConsistent == BotSpec => []ReportConsistent
<1>1. BotInit => ReportInv
  BY DEF BotInit, ReportInv, Starting, Counters
<1>2. EngineFacts /\ SimulatorOwn /\ MainOwn /\ Placing /\ ReportInv /\ [BotNext]_allVars
        => ReportInv'
  BY ReportStep
<1>3. ASSUME MainOwn, ReportInv
      PROVE  ReportConsistent
  <2>1. /\ HasRead("trades") <=> main \notin Starting \cup {"orders", "trades"}
        /\ HasRead("history") <=> main \notin Starting \cup DOMAIN Counters
    BY DEF HasRead, Starting, Counters
  <2>2. /\ report.trades \in Nat /\ report.history \in Seq(Trade)
        /\ Len(report.history) \in Nat
    BY <1>3, LenProperties DEF MainOwn, Report
  <2>3. MaxSignals \in Nat /\ MaxListed \in Nat
    BY BotAssumption DEF BotAssumption
  <2>4. Len(Listed) = Smaller(MaxListed, Len(report.history))
    <3> DEFINE n == Smaller(MaxListed, Len(report.history))
    <3>1. n \in Nat /\ n <= Len(report.history)
      BY <2>2, <2>3 DEF Smaller
    <3> HIDE DEF n
    <3>2. \A i \in 1 .. n : report.history[i] \in Trade
      BY <2>2, <3>1, ElementOfSeq
    <3>3. Len(SubSeq(report.history, 1, n)) = IF 1 <= n THEN n - 1 + 1 ELSE 0
      BY <3>1, <3>2, SubSeqProperties
    <3> QED
      BY <3>1, <3>3 DEF Listed, n
  <2>5. ASSUME HasRead("trades")
        PROVE  /\ report.orders <= totalOrdersPlaced
               /\ report.trades <= totalOrdersPlaced
               /\ report.trades <= MaxSignals
    BY <1>3, <2>1, <2>5 DEF ReportInv
  <2>6. ASSUME HasRead("history")
        PROVE  /\ report.trades <= Len(report.history)
               /\ MaxSignals <= MaxListed => report.trades <= Len(Listed)
    <3>1. report.trades <= Len(report.history) /\ report.trades <= MaxSignals
      BY <1>3, <2>1, <2>6 DEF ReportInv, Counters
    <3> QED
      BY <2>2, <2>3, <2>4, <3>1 DEF Smaller
  <2> QED
    BY <2>5, <2>6 DEF ReportConsistent
<1> QED
  BY <1>1, <1>2, <1>3, EngineFactsInProgram, PlacingInvariant, PTL DEF BotSpec

-----------------------------------------------------------------------------
(* The end of main(): the simulator's thread is joined before the engine   *)
(* is stopped, and the engine is stopped before main() returns.            *)
Ending ==
  /\ main \in {"stopEngine", "notifyEngine", "joinEngine", "done"} => simulator = "none"
  /\ main = "done" => controller = "idle" /\ ~running

LEMMA EndingStep ==
  ASSUME EngineInv, Ending, [BotNext]_allVars
  PROVE  Ending'
<1>1. CASE SimulatorStep
  <2>1. simulator # "none" /\ UNCHANGED <<main, controller, running>>
    BY <1>1
    DEF SimulatorStep, PublishTick, LoopEnds, PublishBook, BookHeard,
        PublicationReturns, NoSignal, IsCalled, Signal, PlaceRequest, Push, Submit,
        Announce, SubmitNotify, onTickReturns, vars, simulatorVars, botVars
  <2> QED
    BY <2>1 DEF Ending
<1>2. CASE EngineStep \/ Wakeup
  <2>1. UNCHANGED <<main, controller, running, simulator>>
    BY <1>2
    DEF EngineStep, ReadLatest, ReadQuote, Wakeup, SpuriousWakeup, LoopHead, Lock,
        Predicate, Block, Check, FillOrder, RecordTrade, RecordLatency, botVars
  <2> QED
    BY <2>1 DEF Ending
<1>3. CASE MainStep
  <2>1. CASE JoinSimulator
    BY <2>1 DEF JoinSimulator, Goes, Ending
  <2>2. CASE JoinEngine
    <3>1. ~running
      BY <2>2 DEF JoinEngine, Join, EngineInv, Lifecycle
    <3> QED
      BY <2>2, <3>1 DEF JoinEngine, Join, Goes, programVars, Ending
  <2>3. CASE StopEngine \/ NotifyEngine
    BY <2>3 DEF StopEngine, NotifyEngine, Goes, programVars, Ending
  <2>4. CASE Read
    BY <2>4 DEF Read, AfterReading, Counters, Ending
  <2>5. CASE StartEngine \/ SpawnEngine \/ Subscribe \/ StartSimulator \/ StopSimulator
    BY <2>5
    DEF StartEngine, SpawnEngine, Subscribe, StartSimulator, StopSimulator, Goes, Ending
  <2> QED
    BY <1>3, <2>1, <2>2, <2>3, <2>4, <2>5 DEF MainStep
<1>4. CASE UNCHANGED allVars
  BY <1>4 DEF allVars, vars, botVars, Ending
<1> QED
  BY <1>1, <1>2, <1>3, <1>4 DEF BotNext

LEMMA EndingInvariant == BotSpec => []Ending
<1>1. BotInit => Ending
  BY DEF BotInit, Ending
<1>2. EngineFacts /\ Ending /\ [BotNext]_allVars => Ending'
  BY EndingStep DEF EngineFacts
<1> QED
  BY <1>1, <1>2, EngineFactsInProgram, PTL DEF BotSpec

(* When nothing is being placed or executed, every request is queued or    *)
(* executed, and what has become of its order says which.                  *)
LEMMA RequestsAtRest ==
  ASSUME EngineFacts, Placing, simulator = "none", thread = "none"
  PROVE  /\ requests = executionQueue \cup executed /\ filledBy = executed
         /\ OneEach({}, executionQueue, {}, executed, DOMAIN orders)
<1>1. Built = {} /\ executing = {} /\ filledBy = executed
  BY BuiltRequest DEF Placing, executing, Executing, filledBy
<1> QED
  BY <1>1 DEF EngineFacts, Conserved, requests

LEMMA StatusAtRest ==
  ASSUME EngineFacts, Placing, simulator = "none", thread = "none"
  PROVE  /\ \A r \in executed : orders[r.orderId].status = "FILLED"
         /\ \A r \in executionQueue : orders[r.orderId].status = "PENDING"
         /\ DOMAIN orders = {r.orderId : r \in executionQueue \cup executed}
<1>1. Desk = {} /\ OrderQuantity > 0
  BY BotAssumption DEF BotAssumption, OrderQuantity
<1>2. OneEach({}, executionQueue, {}, executed, DOMAIN orders)
      /\ requests = executionQueue \cup executed /\ filledBy = executed
  BY RequestsAtRest
<1>3. \A r \in executed : r.quantity > 0
  BY <1>1, <1>2 DEF Placing
<1>4. \A r \in executed : orders[r.orderId].status = "FILLED"
  BY <1>1, <1>2, <1>3 DEF EngineFacts, QuantitiesAgree
<1>5. DOMAIN orders = {r.orderId : r \in executionQueue \cup executed}
  BY <1>2 DEF OneEach
<1>6. ASSUME NEW r \in executionQueue
      PROVE  orders[r.orderId].status = "PENDING"
  <2>1. r.orderId \in DOMAIN orders
    BY <1>5
  <2>2. \A s \in executed : s.orderId # r.orderId
    BY <1>2 DEF OneEach
  <2>3. orders[r.orderId].status \notin {"FILLED", "PARTIAL"}
    BY <1>2, <2>1, <2>2 DEF EngineFacts, Accounted, OrdersAccounted
  <2>4. orders[r.orderId].status # "CANCELLED"
    BY <1>1, <2>1 DEF EngineFacts, NoneCancelled
  <2>5. orders[r.orderId].status \in OrderStatus \ {"REJECTED"}
    BY <2>1 DEF EngineFacts, EngineInv, EngineTypeOK, OrderManagerTypeOK, Order
  <2> QED
    BY <2>3, <2>4, <2>5 DEF OrderStatus
<1> QED
  BY <1>4, <1>5, <1>6

(* One trade for every executed request, one order for every request. *)
LEMMA CountsAtRest ==
  ASSUME EngineFacts, Placing, simulator = "none", thread = "none"
  PROVE  totalOrdersPlaced = Len(trades) + Cardinality(executionQueue)
<1> DEFINE all == executionQueue \cup executed
           ids == FirstOrderId .. orderIdCounter - 1
           indices == 1 .. Len(trades)
<1>1. /\ totalOrdersPlaced \in Nat /\ orderIdCounter = FirstOrderId + totalOrdersPlaced
      /\ DOMAIN orders = ids /\ trades \in Seq(Trade) /\ DOMAIN trades = indices
      /\ Len(trades) \in Nat /\ totalTradesExecuted = Len(trades)
  BY LenProperties DEF EngineFacts, EngineInv, EngineTypeOK, OrderManagerTypeOK
<1>2. OneEach({}, executionQueue, {}, executed, DOMAIN orders)
  BY RequestsAtRest
<1>3. /\ {r.orderId : r \in all} = ids
      /\ \A r, s \in all : r.orderId = s.orderId => r = s
      /\ executionQueue \cap executed = {}
  BY <1>1, <1>2 DEF OneEach
<1>4. IsFiniteSet(ids) /\ Cardinality(ids) = totalOrdersPlaced
  <2>1. FirstOrderId \in Int /\ orderIdCounter - 1 \in Int
    BY <1>1 DEF FirstOrderId
  <2>2. IsFiniteSet(ids) /\ Cardinality(ids) =
          IF FirstOrderId > orderIdCounter - 1 THEN 0
          ELSE (orderIdCounter - 1) - FirstOrderId + 1
    BY <2>1, FS_Interval
  <2> QED
    BY <1>1, <2>2 DEF FirstOrderId
<1>5. IsFiniteSet(all) /\ Cardinality(all) = totalOrdersPlaced
  <2> DEFINE f == [r \in all |-> r.orderId]
  <2>1. f \in Injection(all, ids) /\ f \in Surjection(all, ids)
    BY <1>3 DEF Injection, IsInjective, Surjection
  <2> HIDE DEF all, ids, f
  <2>2. /\ IsFiniteSet(all) /\ Cardinality(all) <= Cardinality(ids)
        /\ Cardinality(all) = Cardinality(ids) <=> f \in Surjection(all, ids)
    BY <1>4, <2>1, FS_Injection
  <2> QED
    BY <1>4, <2>1, <2>2
<1>6. IsFiniteSet(executed) /\ IsFiniteSet(executionQueue)
      /\ totalOrdersPlaced = Cardinality(executionQueue) + Cardinality(executed)
  <2>1. IsFiniteSet(executed) /\ IsFiniteSet(executionQueue)
    BY <1>5, FS_Subset
  <2>2. Cardinality(executionQueue \cup executed)
          = Cardinality(executionQueue) + Cardinality(executed)
            - Cardinality(executionQueue \cap executed)
    BY <2>1, FS_Union
  <2>3. Cardinality(executionQueue \cap executed) = 0
    BY <1>3, FS_EmptySet
  <2>4. Cardinality(executionQueue) \in Nat /\ Cardinality(executed) \in Nat
    BY <2>1, FS_CardinalityType
  <2> QED
    BY <1>1, <1>5, <2>1, <2>2, <2>3, <2>4
<1>7. Cardinality(executed) = Len(trades)
  <2> DEFINE Of(i) == CHOOSE r \in executed : Settles(trades[i], r)
             f == [i \in indices |-> Of(i)]
  <2>1. tradedBy = executed
    BY DEF tradedBy
  <2>2. \A i \in indices : Of(i) \in executed /\ Settles(trades[i], Of(i))
    BY <1>1, <2>1 DEF EngineFacts, Accounted, TradesAccounted
  <2> HIDE DEF Of
  <2>3. f \in [indices -> executed]
    BY <2>2
  <2>4. \A i, j \in indices : f[i] = f[j] => i = j
    BY <1>1, <2>2 DEF EngineFacts, Accounted, TradesAccounted, Settles
  <2>5. ASSUME NEW r \in executed
        PROVE  \E i \in indices : f[i] = r
    <3>1. r.quantity > 0
      BY RequestsAtRest, BotAssumption DEF Placing, BotAssumption, OrderQuantity
    <3>2. PICK i \in indices : trades[i].orderId = r.orderId
      BY <1>1, <2>1, <3>1 DEF EngineFacts, Accounted, TradesAccounted
    <3>3. Of(i).orderId = r.orderId
      BY <2>2, <3>2 DEF Settles
    <3> QED
      BY <1>3, <2>2, <3>3
  <2>6. f \in Injection(indices, executed) /\ f \in Surjection(indices, executed)
    BY <2>3, <2>4, <2>5 DEF Injection, IsInjective, Surjection
  <2> HIDE DEF f
  <2>7. Cardinality(indices) = Cardinality(executed)
    <3>1. Cardinality(indices) = Cardinality(executed)
            <=> f \in Surjection(indices, executed)
      BY <1>6, <2>6, FS_Injection
    <3> QED
      BY <2>6, <3>1
  <2>8. Cardinality(indices) = IF 1 > Len(trades) THEN 0 ELSE Len(trades) - 1 + 1
    <3>1. 1 \in Int /\ Len(trades) \in Int
      BY <1>1
    <3> QED
      BY <3>1, FS_Interval
  <2> QED
    BY <1>1, <2>7, <2>8
<1> QED
  BY <1>1, <1>6, <1>7, FS_CardinalityType

(* When main() returns, the threads are gone, the mutexes are free, and    *)
(* each of its orders is either filled by one trade or still queued.       *)
THEOREM NothingIsUnderWay == BotSpec => []NothingUnderWay
<1>1. ASSUME EngineFacts, SimulatorOwn, Placing, Ending, main = "done"
      PROVE  /\ simulator = "none" /\ dataMutexIsFree
             /\ thread = "none" /\ queueMutex = "free"
             /\ {r.orderId : r \in executionQueue}
                  = {id \in DOMAIN orders : orders[id].status = "PENDING"}
             /\ {trades[i].orderId : i \in DOMAIN trades}
                  = {id \in DOMAIN orders : orders[id].status = "FILLED"}
             /\ totalOrdersPlaced = Len(trades) + Cardinality(executionQueue)
  <2>1. simulator = "none" /\ dataMutexIsFree
    BY <1>1 DEF Ending, SimulatorOwn
  <2>2. thread = "none" /\ queueMutex = "free"
    BY <1>1 DEF Ending, EngineFacts, QuiescentWhenStopped, Stopped
  <2>3. /\ \A r \in executed : orders[r.orderId].status = "FILLED"
        /\ \A r \in executionQueue : orders[r.orderId].status = "PENDING"
        /\ DOMAIN orders = {r.orderId : r \in executionQueue \cup executed}
    BY <1>1, <2>1, <2>2, StatusAtRest
  <2>4. {r.orderId : r \in executionQueue}
          = {id \in DOMAIN orders : orders[id].status = "PENDING"}
    BY <2>3
  <2>5. {trades[i].orderId : i \in DOMAIN trades}
          = {id \in DOMAIN orders : orders[id].status = "FILLED"}
    <3>1. tradedBy = executed
      BY <2>2 DEF tradedBy
    <3>2. \A i \in DOMAIN trades : \E r \in executed : trades[i].orderId = r.orderId
      BY <1>1, <3>1 DEF EngineFacts, Accounted, TradesAccounted, Settles
    <3>3. \A r \in executed : r.quantity > 0
      BY <1>1, <2>1, <2>2, RequestsAtRest DEF Placing, OrderQuantity
    <3>4. \A r \in executed : \E i \in DOMAIN trades : trades[i].orderId = r.orderId
      BY <1>1, <3>1, <3>3 DEF EngineFacts, Accounted, TradesAccounted
    <3> QED
      BY <2>3, <3>2, <3>4
  <2>6. totalOrdersPlaced = Len(trades) + Cardinality(executionQueue)
    BY <1>1, <2>1, <2>2, CountsAtRest
  <2> QED
    BY <2>1, <2>2, <2>4, <2>5, <2>6
<1>2. EngineFacts /\ SimulatorOwn /\ Placing /\ Ending => NothingUnderWay
  BY <1>1 DEF NothingUnderWay
<1> QED
  BY <1>2, EngineFactsInProgram, PlacingInvariant, EndingInvariant, PTL

-----------------------------------------------------------------------------
(* Ranks.  The tick behind an order is the signal of the order's rank,     *)
(* which no other signal has; and signals that come later leave the ranks  *)
(* of the earlier ones alone.                                              *)
Rank(k, signals) == Cardinality({m \in signals : m <= k})

LEMMA RankGrowsWithSignal ==
  ASSUME NEW signals \in SUBSET Nat, IsFiniteSet(signals),
         NEW k \in signals, NEW m \in signals, k < m
  PROVE  Rank(k, signals) < Rank(m, signals)
<1> DEFINE lower == {i \in signals : i <= k}
           upper == {i \in signals : i <= m}
<1>1. lower \subseteq upper /\ m \in upper /\ m \notin lower
  <2>1. k \in Nat /\ m \in Nat /\ \A i \in signals : i \in Nat
    OBVIOUS
  <2>2. m \in upper /\ m \notin lower
    BY <2>1
  <2>3. ASSUME NEW i \in signals, i <= k
        PROVE  i <= m
    BY <2>1, <2>3
  <2> QED
    BY <2>2, <2>3
<1>2. IsFiniteSet(upper)
  BY FS_Subset
<1> HIDE DEF lower, upper
<1>3. Cardinality(lower) <= Cardinality(upper)
      /\ (Cardinality(upper) = Cardinality(lower) => upper = lower)
  BY <1>1, <1>2, FS_Subset
<1>4. IsFiniteSet(lower)
  BY <1>1, <1>2, FS_Subset
<1>5. Cardinality(lower) \in Nat /\ Cardinality(upper) \in Nat
  BY <1>2, <1>4, FS_CardinalityType
<1>6. Cardinality(lower) < Cardinality(upper)
  BY <1>1, <1>3, <1>5
<1> QED
  BY <1>6 DEF Rank, lower, upper

LEMMA BehindIs ==
  ASSUME NEW signals \in SUBSET Nat, IsFiniteSet(signals), NEW id,
         NEW k \in signals, Rank(k, signals) = id - FirstOrderId + 1
  PROVE  Behind(id, signals) = k
<1>1. ASSUME NEW m \in signals, Rank(m, signals) = id - FirstOrderId + 1
      PROVE  m = k
  <2>1. Rank(m, signals) \in Nat
    <3>1. IsFiniteSet({i \in signals : i <= m})
      BY FS_Subset
    <3> QED
      BY <3>1, FS_CardinalityType DEF Rank
  <2>2. CASE m < k
    <3>1. Rank(m, signals) < Rank(k, signals)
      BY <2>2, RankGrowsWithSignal
    <3> QED
      BY <1>1, <2>1, <3>1
  <2>3. CASE k < m
    <3>1. Rank(k, signals) < Rank(m, signals)
      BY <2>3, RankGrowsWithSignal
    <3> QED
      BY <1>1, <2>1, <3>1
  <2> QED
    BY <2>2, <2>3
<1>2. Behind(id, signals) = CHOOSE m \in signals : Rank(m, signals) = id - FirstOrderId + 1
  BY DEF Behind, Rank
<1> QED
  BY <1>1, <1>2

LEMMA RanksKept ==
  ASSUME NEW signals \in SUBSET Nat, IsFiniteSet(signals),
         NEW last \in Nat, \A k \in signals : k < last,
         NEW larger, larger = signals \cup {last}
  PROVE  /\ larger \in SUBSET Nat /\ IsFiniteSet(larger)
         /\ Cardinality(signals) \in Nat
         /\ Cardinality(larger) = Cardinality(signals) + 1
         /\ Rank(last, larger) = Cardinality(signals) + 1
         /\ \A k \in signals : Rank(k, larger) = Rank(k, signals)
<1>1. last \notin signals
  OBVIOUS
<1>2. IsFiniteSet(larger) /\ Cardinality(larger) = Cardinality(signals) + 1
  <2>1. /\ IsFiniteSet(signals \cup {last})
        /\ Cardinality(signals \cup {last})
             = IF last \in signals THEN Cardinality(signals) ELSE Cardinality(signals) + 1
    BY FS_AddElement
  <2> QED
    BY <1>1, <2>1
<1>3. {m \in larger : m <= last} = larger
  <2>1. \A m \in larger : m <= last
    OBVIOUS
  <2> QED
    BY <2>1
<1>4. \A k \in signals : {m \in larger : m <= k} = {m \in signals : m <= k}
  <2>1. \A k \in signals : k \in Nat /\ ~(last <= k)
    OBVIOUS
  <2> QED
    BY <2>1
<1> QED
  BY <1>2, <1>3, <1>4, FS_CardinalityType DEF Rank

-----------------------------------------------------------------------------
(* The signals among the first ticks. *)
SignalsIn(prices, n) ==
  {k \in 2 .. n : \E side \in OrderSide : IsSignal(side, prices[k - 1], prices[k])}

LEMMA SignalsFinite ==
  ASSUME NEW prices, NEW n \in Nat
  PROVE  /\ SignalsIn(prices, n) \in SUBSET Nat /\ IsFiniteSet(SignalsIn(prices, n))
         /\ \A k \in SignalsIn(prices, n) : k <= n
         /\ Cardinality(SignalsIn(prices, n)) \in Nat
<1>1. SignalsIn(prices, n) \in SUBSET (2 .. n)
  BY DEF SignalsIn
<1>2. IsFiniteSet(2 .. n)
  BY FS_Interval
<1>3. IsFiniteSet(SignalsIn(prices, n))
  BY <1>1, <1>2, FS_Subset
<1>4. Cardinality(SignalsIn(prices, n)) \in Nat
  BY <1>3, FS_CardinalityType
<1> QED
  BY <1>1, <1>3, <1>4

LEMMA SignalsOfOneMore ==
  ASSUME NEW prices, NEW n \in Nat
  PROVE  SignalsIn(prices, n + 1) =
           IF n > 0 /\ \E side \in OrderSide : IsSignal(side, prices[n], prices[n + 1])
           THEN SignalsIn(prices, n) \cup {n + 1} ELSE SignalsIn(prices, n)
<1>1. 2 .. n + 1 = IF n > 0 THEN (2 .. n) \cup {n + 1} ELSE {}
  <2>1. \A k : k \in 2 .. n + 1 <=> n > 0 /\ (k \in 2 .. n \/ k = n + 1)
    OBVIOUS
  <2> QED
    BY <2>1
<1>2. (n + 1) - 1 = n
  OBVIOUS
<1>3. CASE n = 0
  BY <1>1, <1>3 DEF SignalsIn
<1>4. CASE n > 0
  BY <1>1, <1>2, <1>4 DEF SignalsIn
<1> QED
  BY <1>3, <1>4

LEMMA SignalsOfLonger ==
  ASSUME NEW prices, NEW longer, NEW n \in Nat, \A k \in 1 .. n : longer[k] = prices[k]
  PROVE  SignalsIn(longer, n) = SignalsIn(prices, n)
<1>1. \A k \in 2 .. n : longer[k] = prices[k] /\ longer[k - 1] = prices[k - 1]
  OBVIOUS
<1> QED
  BY <1>1 DEF SignalsIn

-----------------------------------------------------------------------------
(* An entry of the handler's map always has a listener: it is made by      *)
(* main()'s subscription, and the program takes none back.  So the         *)
(* strategy is called with every tick.                                     *)
Subscribed == \A symbol \in DOMAIN symbolDataMap : symbolDataMap[symbol].listeners # <<>>

LEMMA SubscribedStep ==
  ASSUME MarketDataTypeOK, Subscribed, [BotNext]_allVars
  PROVE  Subscribed'
<1> Symbol \in Symbols /\ Strategy \in Listeners
  BY BotAssumption DEF BotAssumption
<1>1. CASE Subscribe
  <2> DEFINE data == DataOf(Symbol)  new == NewSubscription(Strategy, published[Symbol])
  <2>1. subscribe(Symbol, Strategy)
    BY <1>1 DEF Subscribe
  <2>2. /\ data \in SymbolData /\ new \in Subscription
        /\ DOMAIN symbolDataMap' = DOMAIN symbolDataMap \cup {Symbol}
        /\ symbolDataMap'[Symbol] =
             [history |-> data.history, listeners |-> Append(data.listeners, new)]
        /\ \A s \in DOMAIN symbolDataMap \ {Symbol} : symbolDataMap'[s] = symbolDataMap[s]
    BY <2>1, SubscribeShape
  <2> HIDE DEF data, new
  <2>3. data.listeners \in Seq(Subscription)
    BY <2>2 DEF SymbolData
  <2>4. Append(data.listeners, new) # <<>>
    BY <2>2, <2>3
  <2> QED
    BY <2>2, <2>4 DEF Subscribed
<1>2. ASSUME NEW kind \in Kinds, publish(Symbol, kind)
      PROVE  Subscribed'
  <2> DEFINE data == symbolDataMap[Symbol]
             longer == Pushed(data.history[kind], published[Symbol][kind] + 1)
             history == [data.history EXCEPT ![kind] = longer]
  <2>1. /\ Symbol \in DOMAIN symbolDataMap
        /\ DOMAIN symbolDataMap' = DOMAIN symbolDataMap
        /\ symbolDataMap'[Symbol] = [history |-> history, listeners |-> data.listeners]
        /\ \A s \in DOMAIN symbolDataMap \ {Symbol} : symbolDataMap'[s] = symbolDataMap[s]
    BY <1>2, PublishShape
  <2> HIDE DEF history
  <2> QED
    BY <2>1 DEF Subscribed
<1>3. ASSUME NEW p \in publication, notify(p)
      PROVE  Subscribed'
  <2>1. CASE UNCHANGED symbolDataMap
    BY <2>1 DEF Subscribed
  <2>2. CASE Call(p)
    <3> DEFINE data == symbolDataMap[p.symbol]
               entry == data.listeners[p.next]
               told == [listener |-> entry.listener, since |-> entry.since,
                        heard |-> [entry.heard EXCEPT ![p.kind] =
                                     Append(@, published[p.symbol][p.kind])]]
               left == [data.listeners EXCEPT ![p.next] = told]
    <3>1. p.next <= Len(EntriesOf(p))
      BY <1>3 DEF notify
    <3>2. /\ p.symbol \in DOMAIN symbolDataMap /\ data \in SymbolData
          /\ told \in Subscription
          /\ DOMAIN symbolDataMap' = DOMAIN symbolDataMap
          /\ symbolDataMap'[p.symbol] = [history |-> data.history, listeners |-> left]
          /\ \A s \in DOMAIN symbolDataMap \ {p.symbol} :
               symbolDataMap'[s] = symbolDataMap[s]
      BY <2>2, <3>1, CallShape
    <3> HIDE DEF told
    <3>3. data.listeners \in Seq(Subscription) /\ data.listeners # <<>>
      BY <3>2 DEF SymbolData, Subscribed
    <3>4. left # <<>>
      BY <3>2, <3>3
    <3> HIDE DEF left
    <3> QED
      BY <3>2, <3>4 DEF Subscribed
  <2> QED
    BY <1>3, <2>1, <2>2 DEF notify
<1>4. CASE UNCHANGED symbolDataMap
  BY <1>4 DEF Subscribed
<1>5. CASE SimulatorStep
  <2>1. CASE PublishTick \/ PublishBook
    BY <1>2, <2>1 DEF PublishTick, PublishBook, Kinds
  <2>2. CASE BookHeard \/ NoSignal \/ Announce
    BY <1>3, <2>2 DEF BookHeard, NoSignal, Announce, onTickReturns
  <2>3. CASE LoopEnds \/ PublicationReturns \/ Signal \/ Push
    BY <1>4, <2>3 DEF LoopEnds, PublicationReturns, publishReturns, Signal, Push, mdVars
  <2> QED
    BY <1>5, <2>1, <2>2, <2>3 DEF SimulatorStep
<1>6. CASE EngineStep \/ Wakeup \/ UNCHANGED allVars
  BY <1>4, <1>6 DEF EngineStep, Wakeup, ReadLatest, mdVars, allVars
<1>7. CASE MainStep /\ ~Subscribe
  BY <1>4, <1>7
  DEF MainStep, StartEngine, SpawnEngine, StartSimulator, Read, StopSimulator,
      JoinSimulator, StopEngine, NotifyEngine, JoinEngine, mdVars
<1> QED
  BY <1>1, <1>5, <1>6, <1>7 DEF BotNext

-----------------------------------------------------------------------------
(* What a step does to the strategy.  A tick is in the strategy's hands    *)
(* from its publication to the return of onTick().                         *)
InHand == IsCalled \/ simulator = "submit"

LEMMA StrategyMoves ==
  ASSUME MarketDataTypeOK, SimulatorOwn, Ticks, Subscribed, [BotNext]_allVars
  PROVE  \/ PublishTick /\ ~InHand /\ IsCalled'
         \/ NoSignal /\ IsCalled /\ ~InHand'
         \/ Signal /\ IsCalled /\ ~IsCalled' /\ simulator' = "submit"
         \/ Announce /\ simulator = "submit" /\ ~InHand'
         \/ /\ UNCHANGED <<tickPrices, lastPrice>>
            /\ IsCalled' <=> IsCalled
            /\ simulator' = "submit" <=> simulator = "submit"
            /\ ~Signal
<1> DEFINE Same == /\ UNCHANGED <<tickPrices, lastPrice>>
                   /\ IsCalled' <=> IsCalled
                   /\ simulator' = "submit" <=> simulator = "submit"
                   /\ ~Signal
<1>0. \A p \in publication : p.next >= 1 /\ p.next \in Nat /\ \A q \in publication : p = q
  BY LenProperties DEF MarketDataTypeOK, Publication
<1>1. ASSUME NEW p \in publication, notify(p)
      PROVE  \A q \in publication' : q.next # 1
  <2>1. p.next + 1 # 1 /\ p.next \in Nat
    BY <1>0
  <2>2. [p EXCEPT !.next = @ + 1].next = p.next + 1
    BY DEF MarketDataTypeOK, Publication
  <2> QED
    BY <1>1, <2>1, <2>2 DEF notify
<1>2. CASE PublishTick
  <2>1. publication' = {[symbol |-> Symbol, kind |-> "tick", next |-> 1]}
        /\ simulator' = "onTick" /\ simulator = "loop"
    BY <1>2 DEF PublishTick, publish
  <2> QED
    BY <1>2, <2>1 DEF InHand, IsCalled
<1>3. CASE NoSignal
  BY <1>1, <1>3 DEF NoSignal, onTickReturns, InHand, IsCalled
<1>4. CASE Announce
  BY <1>1, <1>4 DEF Announce, onTickReturns, InHand, IsCalled
<1>5. CASE Signal
  BY <1>5 DEF Signal, IsCalled
<1>6. CASE PublicationReturns
  <2>1. PICK p \in publication : publishReturns(p)
    BY <1>6 DEF PublicationReturns
  <2>2. p.next # 1
    <3>1. EntriesOf(p) # <<>> /\ EntriesOf(p) \in Seq(Subscription)
      BY DEF EntriesOf, Subscribed, MarketDataTypeOK, SymbolData
    <3>2. Len(EntriesOf(p)) >= 1
      BY <3>1
    <3> QED
      BY <2>1, <3>2 DEF publishReturns
  <2>3. ~IsCalled /\ ~IsCalled'
    BY <1>0, <2>1, <2>2 DEF IsCalled, publishReturns
  <2> QED
    BY <1>6, <2>3 DEF PublicationReturns, simulatorVars, strategyVars, IsCalled, Signal
<1>7. CASE LoopEnds \/ PublishBook \/ BookHeard
  BY <1>7 DEF LoopEnds, PublishBook, BookHeard, simulatorVars, strategyVars, botVars,
              IsCalled, Signal
<1>8. CASE Push \/ EngineStep \/ Wakeup \/ UNCHANGED allVars
  <2>1. UNCHANGED <<simulator, publication, tickPrices, lastPrice>>
    BY <1>8 DEF Push, EngineStep, ReadLatest, Wakeup, mdVars, botVars, allVars
  <2> QED
    BY <2>1 DEF IsCalled, Signal
<1>9. CASE MainStep
  <2>1. UNCHANGED <<publication, tickPrices, lastPrice>>
    BY <1>9
    DEF MainStep, StartEngine, SpawnEngine, Subscribe, subscribe, StartSimulator,
        Read, StopSimulator, JoinSimulator, StopEngine, NotifyEngine, JoinEngine,
        programVars, strategyVars, mdVars
  <2>2. \/ simulator' = simulator
        \/ simulator \in {"none", "returned"} /\ simulator' \in {"none", "loop"}
    BY <1>9
    DEF MainStep, StartEngine, SpawnEngine, Subscribe, StartSimulator, Read,
        StopSimulator, JoinSimulator, StopEngine, NotifyEngine, JoinEngine,
        programVars, Goes, SimulatorOwn, Starting
  <2> QED
    BY <1>9, <2>1, <2>2 DEF IsCalled, Signal
<1> QED
  BY <1>2, <1>3, <1>4, <1>5, <1>6, <1>7, <1>8, <1>9 DEF BotNext, SimulatorStep
-----------------------------------------------------------------------------
(* The strategy keeps the price of the last tick that it is done with.     *)
Finished == Len(tickPrices) - (IF InHand THEN 1 ELSE 0)
PriceKept == lastPrice = IF Finished = 0 THEN 0 ELSE tickPrices[Finished]

LEMMA TickCounts ==
  ASSUME Ticks
  PROVE  /\ Len(tickPrices) \in Nat
         /\ \A k \in 1 .. Len(tickPrices) : tickPrices[k] \in BasePrices
         /\ InHand => Len(tickPrices) > 0
         /\ IsCalled => InHand /\ simulator = "onTick"
         /\ Answered \in Nat /\ Finished \in Nat
         /\ Answered = Len(tickPrices) - (IF IsCalled THEN 1 ELSE 0)
<1>1. Len(tickPrices) \in Nat /\ tickPrices \in Seq(BasePrices)
  BY DEF Ticks
<1>2. \A k \in 1 .. Len(tickPrices) : tickPrices[k] \in BasePrices
  BY <1>1
<1>3. InHand => Len(tickPrices) > 0
  <2>1. InHand => tickPrices # <<>>
    BY DEF InHand, IsCalled, Ticks
  <2> QED
    BY <1>1, <2>1, EmptySeq
<1>4. IsCalled => InHand /\ simulator = "onTick"
  BY DEF IsCalled, InHand
<1>5. Answered \in Nat /\ Finished \in Nat
  BY <1>1, <1>3, <1>4 DEF Answered, Finished
<1> QED
  BY <1>1, <1>2, <1>3, <1>4, <1>5 DEF Answered

LEMMA PricesAppended ==
  ASSUME Ticks, PublishTick
  PROVE  /\ Len(tickPrices') = Len(tickPrices) + 1
         /\ \A k \in 1 .. Len(tickPrices) : tickPrices'[k] = tickPrices[k]
<1>1. PICK price \in BasePrices : tickPrices' = Append(tickPrices, price)
  BY DEF PublishTick
<1> QED
  BY <1>1 DEF Ticks

LEMMA PriceKeptStep ==
  ASSUME MarketDataTypeOK, SimulatorOwn, Ticks, Subscribed, PriceKept, [BotNext]_allVars
  PROVE  PriceKept'
<1>1. Len(tickPrices) \in Nat /\ Finished \in Nat
      /\ (InHand => Len(tickPrices) > 0)
  BY TickCounts
<1>2. CASE PublishTick /\ ~InHand /\ IsCalled'
  <2>1. lastPrice' = lastPrice /\ InHand'
    BY <1>2 DEF PublishTick, strategyVars, InHand
  <2>2. Finished = Len(tickPrices) /\ Finished' = Len(tickPrices)
    BY <1>1, <1>2, <2>1, PricesAppended DEF Finished
  <2>3. Finished # 0 => tickPrices'[Finished] = tickPrices[Finished]
    BY <1>1, <1>2, <2>2, PricesAppended
  <2> QED
    BY <2>1, <2>2, <2>3 DEF PriceKept
<1>3. CASE (NoSignal /\ ~InHand') \/ (Announce /\ ~InHand')
  <2>1. lastPrice' = tickPrices[Len(tickPrices)] /\ tickPrices' = tickPrices /\ InHand
    BY <1>3 DEF NoSignal, Announce, onTickReturns, tick, simulatorVars, InHand
  <2>2. Finished' = Len(tickPrices) /\ Len(tickPrices) # 0
    BY <1>1, <1>3, <2>1 DEF Finished
  <2> QED
    BY <2>1, <2>2 DEF PriceKept
<1>4. CASE Signal /\ IsCalled /\ ~IsCalled' /\ simulator' = "submit"
  <2>1. InHand /\ InHand' /\ UNCHANGED <<lastPrice, tickPrices>>
    BY <1>4 DEF Signal, InHand, simulatorVars, strategyVars
  <2> QED
    BY <2>1 DEF PriceKept, Finished
<1>5. CASE /\ UNCHANGED <<tickPrices, lastPrice>>
           /\ IsCalled' <=> IsCalled
           /\ simulator' = "submit" <=> simulator = "submit"
  <2>1. InHand' <=> InHand
    BY <1>5 DEF InHand
  <2> QED
    BY <1>5, <2>1 DEF PriceKept, Finished
<1> QED
  BY <1>2, <1>3, <1>4, <1>5, StrategyMoves

-----------------------------------------------------------------------------
(* The strategy asks for a signal against the price before, and a step     *)
(* adds the tick it answers to the signals or leaves them as they are.     *)
LEMMA CalledWithNext ==
  ASSUME Ticks, PriceKept, IsCalled
  PROVE  LET n == Len(tickPrices) - 1 IN
         /\ n \in Nat /\ Answered = n
         /\ tick.lastPrice = tickPrices[n + 1]
         /\ \A side : side \in Signals <=>
              /\ side \in OrderSide /\ n > 0 /\ tradeCount < MaxSignals
              /\ IsSignal(side, tickPrices[n], tickPrices[n + 1])
<1> DEFINE n == Len(tickPrices) - 1
<1>1. n \in Nat /\ Answered = n /\ Finished = n /\ Len(tickPrices) = n + 1
  BY TickCounts DEF Finished
<1>2. tick.lastPrice = tickPrices[n + 1]
  BY <1>1 DEF tick
<1>3. lastPrice > 0 <=> n > 0
  <2>1. n > 0 => tickPrices[n] \in Nat \ {0}
    <3>1. n > 0 => tickPrices[n] \in BasePrices
      BY <1>1, TickCounts
    <3> QED
      BY <3>1, BotAssumption DEF BotAssumption
  <2>2. lastPrice = IF n = 0 THEN 0 ELSE tickPrices[n]
    BY <1>1 DEF PriceKept
  <2> QED
    BY <1>1, <2>1, <2>2
<1>4. n > 0 => lastPrice = tickPrices[n]
  BY <1>1 DEF PriceKept
<1> HIDE DEF n
<1>5. \A side : side \in Signals <=>
        /\ side \in OrderSide /\ n > 0 /\ tradeCount < MaxSignals
        /\ IsSignal(side, tickPrices[n], tickPrices[n + 1])
  BY <1>2, <1>3, <1>4 DEF Signals
<1> QED
  BY <1>1, <1>2, <1>5 DEF n

LEMMA SignalTicksChange ==
  ASSUME MarketDataTypeOK, SimulatorOwn, Ticks, Subscribed, PriceKept, [BotNext]_allVars
  PROVE  \/ /\ IsCalled
            /\ SignalTicks' = SignalTicks \cup {Len(tickPrices)}
            /\ \/ Signal
               \/ tradeCount >= MaxSignals /\ ~Signal
         \/ SignalTicks' = SignalTicks /\ ~Signal
<1> DEFINE n == Len(tickPrices) - 1
<1>1. Len(tickPrices) \in Nat /\ Answered \in Nat
      /\ SignalTicks = SignalsIn(tickPrices, Answered)
      /\ SignalTicks' = SignalsIn(tickPrices', Answered')
  BY TickCounts DEF SignalTicks, SignalsIn
<1>2. CASE PublishTick /\ ~InHand /\ IsCalled'
  <2>1. Answered = Len(tickPrices) /\ Answered' = Len(tickPrices)
    BY <1>1, <1>2, PricesAppended DEF Answered, InHand
  <2>2. SignalsIn(tickPrices', Answered) = SignalsIn(tickPrices, Answered)
    BY <1>1, <1>2, <2>1, PricesAppended, SignalsOfLonger
  <2>3. ~Signal
    BY <1>2 DEF InHand, Signal
  <2> QED
    BY <1>1, <2>1, <2>2, <2>3
<1>3. CASE (NoSignal /\ IsCalled /\ ~InHand')
             \/ (Signal /\ IsCalled /\ ~IsCalled' /\ simulator' = "submit")
  <2>1. /\ n \in Nat /\ Answered = n /\ Len(tickPrices) = n + 1
        /\ \A side : side \in Signals <=>
              /\ side \in OrderSide /\ n > 0 /\ tradeCount < MaxSignals
              /\ IsSignal(side, tickPrices[n], tickPrices[n + 1])
    BY <1>1, <1>3, CalledWithNext
  <2>2. tickPrices' = tickPrices /\ ~IsCalled'
    BY <1>3 DEF NoSignal, onTickReturns, Signal, simulatorVars, InHand
  <2>3. Answered' = n + 1
    BY <2>1, <2>2 DEF Answered
  <2> DEFINE moved == n > 0 /\ \E side \in OrderSide :
                                 IsSignal(side, tickPrices[n], tickPrices[n + 1])
  <2>4. SignalsIn(tickPrices, n + 1) =
          IF moved THEN SignalsIn(tickPrices, n) \cup {n + 1} ELSE SignalsIn(tickPrices, n)
    BY <2>1, SignalsOfOneMore
  <2>5. SignalTicks' = IF moved THEN SignalTicks \cup {Len(tickPrices)} ELSE SignalTicks
    <3> HIDE DEF n, moved
    <3> QED
      BY <1>1, <2>1, <2>2, <2>3, <2>4
  <2>6. Signal => moved
    BY <2>1 DEF Signal
  <2>7. NoSignal => ~Signal /\ (moved => ~(tradeCount < MaxSignals))
    BY <2>1 DEF NoSignal, Signal
  <2>8. tradeCount \in Nat /\ MaxSignals \in Nat
    BY BotAssumption DEF SimulatorOwn, BotAssumption
  <2> HIDE DEF n, moved
  <2> QED
    BY <1>3, <2>5, <2>6, <2>7, <2>8
<1>4. CASE (Announce /\ simulator = "submit" /\ ~InHand')
             \/ (/\ UNCHANGED <<tickPrices, lastPrice>>
                 /\ IsCalled' <=> IsCalled
                 /\ simulator' = "submit" <=> simulator = "submit"
                 /\ ~Signal)
  <2>1. tickPrices' = tickPrices /\ (IsCalled' <=> IsCalled) /\ ~Signal
    BY <1>4 DEF Announce, onTickReturns, simulatorVars, InHand, IsCalled, Signal
  <2>2. Answered' = Answered
    BY <2>1 DEF Answered
  <2> QED
    BY <1>1, <2>1, <2>2
<1> QED
  BY <1>2, <1>3, <1>4, StrategyMoves


-----------------------------------------------------------------------------
(* The orders and the signals. *)
Answers(id, k) ==
  /\ IsSignal(orders[id].side, tickPrices[k - 1], tickPrices[k])
  /\ orders[id].price = QuoteOf(k)[IF orders[id].side = "BUY" THEN 1 ELSE 2]

OrdersAnswer ==
  /\ totalOrdersPlaced = Smaller(MaxSignals, Cardinality(SignalTicks))
  /\ \A id \in DOMAIN orders : \E k \in SignalTicks :
       Rank(k, SignalTicks) = id - FirstOrderId + 1 /\ Answers(id, k)

LEMMA SignalTicksFinite ==
  ASSUME Ticks
  PROVE  /\ SignalTicks \in SUBSET Nat /\ IsFiniteSet(SignalTicks)
         /\ Cardinality(SignalTicks) \in Nat
         /\ \A k \in SignalTicks : k \in 2 .. Len(tickPrices)
         /\ IsCalled => \A k \in SignalTicks : k < Len(tickPrices)
<1>1. /\ Answered \in Nat /\ Len(tickPrices) \in Nat
      /\ SignalTicks = SignalsIn(tickPrices, Answered)
      /\ Answered = Len(tickPrices) - (IF IsCalled THEN 1 ELSE 0)
  BY TickCounts DEF SignalTicks, SignalsIn
<1>2. /\ SignalTicks \in SUBSET Nat /\ IsFiniteSet(SignalTicks)
      /\ \A k \in SignalTicks : k <= Answered
      /\ Cardinality(SignalTicks) \in Nat
  BY <1>1, SignalsFinite
<1>3. \A k \in SignalTicks : k >= 2
  BY <1>1 DEF SignalsIn
<1> QED
  BY <1>1, <1>2, <1>3

(* The side and the price of an order never change: there is no desk. *)
LEMMA OrdersFixed ==
  ASSUME EngineTypeOK, [Next]_vars, ~ \E c \in Clients : Place(c)
  PROVE  /\ DOMAIN orders' = DOMAIN orders
         /\ \A id \in DOMAIN orders : /\ orders'[id].side = orders[id].side
                                      /\ orders'[id].price = orders[id].price
<1>1. CASE FillOrder
  <2> DEFINE id == request.orderId
             order == Filled(orders[id], request.quantity)
  <2>1. CASE id \notin DOMAIN orders
    BY <1>1, <2>1 DEF FillOrder, simulateOrderExecution
  <2>2. CASE id \in DOMAIN orders
    <3>1. orders[id] \in Order
      BY <2>2 DEF EngineTypeOK, OrderManagerTypeOK
    <3>2. order.side = orders[id].side /\ order.price = orders[id].price
      BY <3>1 DEF Filled, Order
    <3>3. ChangeOrder(id, order)
      BY <1>1, <2>2 DEF FillOrder, simulateOrderExecution
    <3> HIDE DEF order, id
    <3>4. /\ DOMAIN orders' = (DOMAIN orders) \cup {id} /\ orders'[id] = order
          /\ \A i \in (DOMAIN orders) \ {id} : orders'[i] = orders[i]
      BY <3>3, ChangeOrderElsewhere
    <3> QED
      BY <2>2, <3>2, <3>4
  <2> QED
    BY <2>1, <2>2
<1>2. ~DeskStep
  BY BotAssumption DEF BotAssumption, DeskStep, Cancel, Modify
<1> QED
  BY <1>1, <1>2, OrdersChange

LEMMA SignalPlacesOrder ==
  ASSUME EngineTypeOK, Signal
  PROVE  \E side \in Signals :
           /\ DOMAIN orders' = (DOMAIN orders) \cup {orderIdCounter}
           /\ orderIdCounter \notin DOMAIN orders
           /\ totalOrdersPlaced' = totalOrdersPlaced + 1
           /\ orders'[orderIdCounter].side = side
           /\ orders'[orderIdCounter].price = IF side = "BUY" THEN tick.bid ELSE tick.ask
           /\ \A id \in DOMAIN orders : orders'[id] = orders[id]
<1> DEFINE price(side) == IF side = "BUY" THEN tick.bid ELSE tick.ask
<1>1. PICK side \in Signals :
        PlaceRequest(Simulator, side, price(side), OrderQuantity, HIGH)
  BY DEF Signal
<1> DEFINE order == [NewOrder(side, price(side), OrderQuantity) EXCEPT !.status = "PENDING"]
<1>2. ChangeOrder(orderIdCounter, order) /\ totalOrdersPlaced' = totalOrdersPlaced + 1
  BY <1>1 DEF PlaceRequest, placeOrder
<1>3. order.side = side /\ order.price = price(side)
  BY DEF NewOrder
<1>4. orderIdCounter \notin DOMAIN orders
  BY DEF EngineTypeOK, OrderManagerTypeOK, FirstOrderId
<1> HIDE DEF order
<1>5. /\ DOMAIN orders' = (DOMAIN orders) \cup {orderIdCounter}
      /\ orders'[orderIdCounter] = order
      /\ \A i \in (DOMAIN orders) \ {orderIdCounter} : orders'[i] = orders[i]
  BY <1>2, ChangeOrderElsewhere
<1> QED
  BY <1>2, <1>3, <1>4, <1>5

(* Prices that were published stay. *)
LEMMA PricesKept ==
  ASSUME MarketDataTypeOK, SimulatorOwn, Ticks, Subscribed, [BotNext]_allVars
  PROVE  /\ Len(tickPrices') \in Nat /\ Len(tickPrices) <= Len(tickPrices')
         /\ \A k \in 1 .. Len(tickPrices) : tickPrices'[k] = tickPrices[k]
<1>1. Len(tickPrices) \in Nat
  BY TickCounts
<1>2. CASE PublishTick
  BY <1>1, <1>2, PricesAppended
<1>3. CASE ~PublishTick
  <2>1. tickPrices' = tickPrices
    BY <1>3, StrategyMoves
    DEF NoSignal, Announce, onTickReturns, Signal, simulatorVars
  <2> QED
    BY <1>1, <2>1
<1> QED
  BY <1>2, <1>3

LEMMA QuotesKept ==
  ASSUME MarketDataTypeOK, SimulatorOwn, Ticks, Subscribed, [BotNext]_allVars,
         NEW k \in 1 .. Len(tickPrices)
  PROVE  QuoteOf(k)' = QuoteOf(k)
<1>1. tickPrices'[k] = tickPrices[k]
  BY PricesKept
<1> QED
  BY <1>1 DEF QuoteOf

LEMMA AnswersKept ==
  ASSUME MarketDataTypeOK, SimulatorOwn, Ticks, Subscribed, [BotNext]_allVars,
         NEW id, NEW k \in SignalTicks, Answers(id, k),
         orders'[id].side = orders[id].side, orders'[id].price = orders[id].price
  PROVE  Answers(id, k)'
<1>1. k \in 1 .. Len(tickPrices) /\ k - 1 \in 1 .. Len(tickPrices)
  BY SignalTicksFinite, TickCounts
<1>2. tickPrices'[k] = tickPrices[k] /\ tickPrices'[k - 1] = tickPrices[k - 1]
  BY <1>1, PricesKept
<1>3. QuoteOf(k)' = QuoteOf(k)
  BY <1>1, QuotesKept
<1> QED
  BY <1>2, <1>3 DEF Answers

(* The signals grow by the tick in hand or not at all; either way the      *)
(* earlier ones keep their ranks.                                          *)
LEMMA SignalRanksKept ==
  ASSUME MarketDataTypeOK, SimulatorOwn, Ticks, Subscribed, PriceKept, [BotNext]_allVars
  PROVE  /\ SignalTicks \subseteq SignalTicks'
         /\ \A k \in SignalTicks : Rank(k, SignalTicks') = Rank(k, SignalTicks)
<1>1. SignalTicks \in SUBSET Nat /\ IsFiniteSet(SignalTicks)
      /\ (IsCalled => \A k \in SignalTicks : k < Len(tickPrices))
  BY SignalTicksFinite
<1>2. Len(tickPrices) \in Nat
  BY TickCounts
<1>3. CASE IsCalled /\ SignalTicks' = SignalTicks \cup {Len(tickPrices)}
  <2> DEFINE last == Len(tickPrices)
  <2>1. last \in Nat /\ (\A k \in SignalTicks : k < last) /\ SignalTicks' = SignalTicks \cup {last}
    BY <1>1, <1>2, <1>3
  <2> HIDE DEF last
  <2>2. ASSUME NEW larger, larger = SignalTicks \cup {last}
        PROVE  \A k \in SignalTicks : Rank(k, larger) = Rank(k, SignalTicks)
    BY <1>1, <2>1, <2>2, RanksKept
  <2> QED
    BY <2>1, <2>2
<1>4. CASE SignalTicks' = SignalTicks
  BY <1>4
<1> QED
  BY <1>3, <1>4, SignalTicksChange


LEMMA SignalKeepsAnswers ==
  ASSUME EngineTypeOK, MarketDataTypeOK, SimulatorOwn, Ticks, Subscribed, PriceKept,
         Placing, OrdersAnswer, Signal, [BotNext]_allVars
  PROVE  OrdersAnswer'
<1> DEFINE last == Len(tickPrices)
           n == Cardinality(SignalTicks)
<1>1. /\ last \in Nat /\ n \in Nat /\ IsCalled
      /\ SignalTicks \in SUBSET Nat /\ IsFiniteSet(SignalTicks)
      /\ \A k \in SignalTicks : k < last
  BY TickCounts, SignalTicksFinite DEF Signal
<1>2. SignalTicks' = SignalTicks \cup {last} \/ SignalTicks' = SignalTicks
  BY SignalTicksChange
<1>3. SignalTicks' = SignalTicks \cup {last}
  BY SignalTicksChange
<1>4. PICK side \in Signals :
        /\ DOMAIN orders' = (DOMAIN orders) \cup {orderIdCounter}
        /\ orderIdCounter \notin DOMAIN orders
        /\ totalOrdersPlaced' = totalOrdersPlaced + 1
        /\ orders'[orderIdCounter].side = side
        /\ orders'[orderIdCounter].price = IF side = "BUY" THEN tick.bid ELSE tick.ask
        /\ \A id \in DOMAIN orders : orders'[id] = orders[id]
  BY SignalPlacesOrder
<1>5. /\ Cardinality(SignalTicks') = n + 1
      /\ Rank(last, SignalTicks') = n + 1
  <2> HIDE DEF last
  <2>1. ASSUME NEW larger, larger = SignalTicks \cup {last}
        PROVE  Cardinality(larger) = n + 1 /\ Rank(last, larger) = n + 1
    BY <1>1, <2>1, RanksKept
  <2> QED
    BY <1>3, <2>1
<1>6. /\ totalOrdersPlaced = n /\ totalOrdersPlaced < MaxSignals
      /\ orderIdCounter = FirstOrderId + n /\ MaxSignals \in Nat
  <2>1. simulator = "onTick" /\ side \in Signals /\ tradeCount < MaxSignals
    BY DEF Signal, IsCalled, Signals
  <2>2. totalOrdersPlaced = tradeCount /\ tradeCount \in Nat /\ MaxSignals \in Nat
    BY <2>1, BotAssumption DEF Placing, SimulatorOwn, BotAssumption
  <2>3. totalOrdersPlaced = Smaller(MaxSignals, n)
    BY DEF OrdersAnswer
  <2>4. totalOrdersPlaced = n
    <3> HIDE DEF n
    <3> QED
      BY <1>1, <2>1, <2>2, <2>3 DEF Smaller
  <2>5. orderIdCounter = FirstOrderId + totalOrdersPlaced
    BY DEF EngineTypeOK, OrderManagerTypeOK
  <2> QED
    BY <2>1, <2>2, <2>4, <2>5
<1>7. totalOrdersPlaced' = Smaller(MaxSignals, Cardinality(SignalTicks'))
  <2> HIDE DEF n
  <2>1. totalOrdersPlaced' = n + 1
    BY <1>4, <1>6
  <2>2. Smaller(MaxSignals, n + 1) = n + 1
    BY <1>1, <1>6 DEF Smaller
  <2> QED
    BY <1>5, <2>1, <2>2
<1>8. tickPrices' = tickPrices
  BY DEF Signal, simulatorVars
<1>9. ASSUME NEW id, id = orderIdCounter, NEW k, k = last
      PROVE  Answers(id, k)'
  <2>1. /\ last > 0 /\ tick = [lastPrice |-> tickPrices[last], bid |-> tickPrices[last] - 1,
                               ask |-> tickPrices[last] + 1]
    BY <1>1, TickCounts DEF tick
  <2>2. IsSignal(side, tickPrices[last - 1], tickPrices[last])
    <3>1. (last - 1) + 1 = last
      BY <1>1
    <3>2. IsSignal(side, tickPrices[last - 1], tickPrices[(last - 1) + 1])
      BY <1>1, CalledWithNext
    <3> QED
      BY <3>1, <3>2
  <2>3. QuoteOf(k)' = <<tickPrices[k] - 1, tickPrices[k] + 1>>
    BY <1>1, <1>8, <1>9, <2>1 DEF QuoteOf
  <2>4. side \in {"BUY", "SELL"}
    BY DEF Signals, OrderSide
  <2> HIDE DEF last
  <2>5. /\ orders'[id].side = side
        /\ orders'[id].price = IF side = "BUY" THEN tickPrices[k] - 1 ELSE tickPrices[k] + 1
    BY <1>4, <1>9, <2>1
  <2> QED
    BY <1>8, <1>9, <2>2, <2>3, <2>4, <2>5 DEF Answers
<1>10. ASSUME NEW id \in DOMAIN orders'
       PROVE  \E k \in SignalTicks' :
                Rank(k, SignalTicks') = id - FirstOrderId + 1 /\ Answers(id, k)'
  <2>1. CASE id = orderIdCounter
    <3>1. n + 1 = id - FirstOrderId + 1
      <4> HIDE DEF n
      <4> QED
        BY <1>1, <1>6, <2>1 DEF FirstOrderId
    <3> HIDE DEF n, last
    <3> QED
      BY <1>3, <1>5, <1>9, <2>1, <3>1
  <2>2. CASE id \in DOMAIN orders
    <3>1. PICK k \in SignalTicks : Rank(k, SignalTicks) = id - FirstOrderId + 1 /\ Answers(id, k)
      BY <2>2 DEF OrdersAnswer
    <3>2. Answers(id, k)'
      BY <1>4, <2>2, <3>1, AnswersKept
    <3>3. k \in SignalTicks' /\ Rank(k, SignalTicks') = Rank(k, SignalTicks)
      BY <3>1, SignalRanksKept
    <3> QED
      BY <3>1, <3>2, <3>3
  <2> QED
    BY <1>4, <2>1, <2>2
<1> QED
  BY <1>7, <1>10 DEF OrdersAnswer

LEMMA OtherwiseAnswersKept ==
  ASSUME EngineTypeOK, MarketDataTypeOK, SimulatorOwn, Ticks, Subscribed, PriceKept,
         Placing, OrdersAnswer, ~Signal, [BotNext]_allVars, [Next]_vars
  PROVE  OrdersAnswer'
<1> DEFINE n == Cardinality(SignalTicks)
<1>1. totalOrdersPlaced' = totalOrdersPlaced
  BY OrdersKept
<1>2. /\ DOMAIN orders' = DOMAIN orders
      /\ \A id \in DOMAIN orders : /\ orders'[id].side = orders[id].side
                                   /\ orders'[id].price = orders[id].price
  BY <1>1, NoPlace, OrdersFixed
<1>3. totalOrdersPlaced' = Smaller(MaxSignals, Cardinality(SignalTicks'))
  <2>1. totalOrdersPlaced = Smaller(MaxSignals, n) /\ n \in Nat /\ MaxSignals \in Nat
    BY SignalTicksFinite, BotAssumption DEF OrdersAnswer, BotAssumption
  <2>2. CASE SignalTicks' = SignalTicks
    BY <1>1, <2>1, <2>2
  <2>3. CASE /\ IsCalled /\ SignalTicks' = SignalTicks \cup {Len(tickPrices)}
             /\ tradeCount >= MaxSignals
    <3>1. totalOrdersPlaced = MaxSignals
      <4>1. simulator = "onTick" /\ tradeCount \in 0 .. MaxSignals
        BY <2>3 DEF IsCalled, SimulatorOwn
      <4>2. tradeCount = MaxSignals
        BY <2>1, <2>3, <4>1
      <4>3. totalOrdersPlaced = tradeCount + 0
        BY <4>1 DEF Placing
      <4> QED
        BY <2>1, <4>2, <4>3
    <3>2. Cardinality(SignalTicks') = n + 1
      <4> DEFINE last == Len(tickPrices)
      <4>1. /\ last \in Nat /\ SignalTicks \in SUBSET Nat /\ IsFiniteSet(SignalTicks)
            /\ \A k \in SignalTicks : k < last
        BY <2>3, TickCounts, SignalTicksFinite
      <4> HIDE DEF last
      <4>2. ASSUME NEW larger, larger = SignalTicks \cup {last}
            PROVE  Cardinality(larger) = n + 1
        BY <4>1, <4>2, RanksKept
      <4> QED
        BY <2>3, <4>2 DEF last
    <3> HIDE DEF n
    <3> QED
      BY <1>1, <2>1, <3>1, <3>2 DEF Smaller
  <2> QED
    BY <2>2, <2>3, SignalTicksChange
<1>4. ASSUME NEW id \in DOMAIN orders
      PROVE  \E k \in SignalTicks' :
               Rank(k, SignalTicks') = id - FirstOrderId + 1 /\ Answers(id, k)'
  <2>1. PICK k \in SignalTicks : Rank(k, SignalTicks) = id - FirstOrderId + 1 /\ Answers(id, k)
    BY <1>4 DEF OrdersAnswer
  <2>2. Answers(id, k)'
    BY <1>2, <2>1, AnswersKept
  <2>3. k \in SignalTicks' /\ Rank(k, SignalTicks') = Rank(k, SignalTicks)
    BY <2>1, SignalRanksKept
  <2> QED
    BY <2>1, <2>2, <2>3
<1> QED
  BY <1>2, <1>3, <1>4 DEF OrdersAnswer

(* What the strategy keeps, and what it has answered. *)
StrategyFacts == Subscribed /\ PriceKept /\ OrdersAnswer

LEMMA StrategyInit == BotInit => StrategyFacts
<1> SUFFICES ASSUME BotInit
             PROVE  StrategyFacts
  OBVIOUS
<1>1. /\ DOMAIN symbolDataMap = {} /\ tickPrices = <<>> /\ lastPrice = 0
      /\ simulator = "none" /\ DOMAIN orders = {} /\ totalOrdersPlaced = 0
  BY DEF BotInit, MarketDataInit, Init, OrderManagerInit
<1>2. ~IsCalled /\ ~InHand /\ Len(tickPrices) = 0
  BY <1>1 DEF IsCalled, InHand
<1>3. Finished = 0 /\ Answered = 0
  <2>1. Finished = 0 - (IF InHand THEN 1 ELSE 0) /\ Answered = 0 - (IF IsCalled THEN 1 ELSE 0)
    BY <1>2 DEF Finished, Answered
  <2>2. (IF InHand THEN 1 ELSE 0) = 0 /\ (IF IsCalled THEN 1 ELSE 0) = 0
    BY <1>2
  <2>3. 0 - 0 = 0
    OBVIOUS
  <2> QED
    BY <2>1, <2>2, <2>3
<1>4. SignalTicks = {}
  BY <1>3 DEF SignalTicks
<1>5. Smaller(MaxSignals, Cardinality(SignalTicks)) = 0
  BY <1>4, FS_EmptySet, BotAssumption DEF Smaller, BotAssumption
<1> QED
  BY <1>1, <1>3, <1>5 DEF StrategyFacts, Subscribed, PriceKept, OrdersAnswer

(* What the program's invariants so far give a step. *)
ProgramFacts ==
  /\ EngineFacts /\ SimulatorOwn /\ MainOwn /\ Placing /\ Ticks
  /\ MarketDataTypeOK /\ QueriesAreRecent

LEMMA ProgramFactsInvariant == BotSpec => []ProgramFacts
<1>1. EngineFacts /\ SimulatorOwn /\ MainOwn /\ Placing /\ Ticks /\ MarketDataTypeOK
        /\ QueriesAreRecent => ProgramFacts
  BY DEF ProgramFacts
<1> QED
  BY <1>1, EngineFactsInProgram, PlacingInvariant, TicksInvariant,
     BotImplementsMarketData, MarketDataTypeCorrect, QueriesCorrect, PTL

LEMMA StrategyFactsInvariant == BotSpec => []StrategyFacts
<1>1. ASSUME ProgramFacts, StrategyFacts, [BotNext]_allVars, [Next]_vars
      PROVE  StrategyFacts'
  <2>1. /\ EngineTypeOK /\ MarketDataTypeOK /\ SimulatorOwn /\ Ticks /\ Placing
        /\ Subscribed /\ PriceKept /\ OrdersAnswer
    BY <1>1 DEF ProgramFacts, EngineFacts, EngineInv, StrategyFacts
  <2>2. Subscribed' /\ PriceKept'
    BY <1>1, <2>1, SubscribedStep, PriceKeptStep
  <2>3. OrdersAnswer'
    BY <1>1, <2>1, SignalKeepsAnswers, OtherwiseAnswersKept
  <2> QED
    BY <2>2, <2>3 DEF StrategyFacts
<1> QED
  BY <1>1, StrategyInit, ProgramFactsInvariant, BotImplementsEngine, PTL DEF BotSpec, Spec

LEMMA BehindOrder ==
  ASSUME Ticks, OrdersAnswer, NEW id \in DOMAIN orders
  PROVE  /\ Behind(id, SignalTicks) \in SignalTicks
         /\ Rank(Behind(id, SignalTicks), SignalTicks) = id - FirstOrderId + 1
         /\ Answers(id, Behind(id, SignalTicks))
<1>1. PICK k \in SignalTicks : Rank(k, SignalTicks) = id - FirstOrderId + 1 /\ Answers(id, k)
  BY DEF OrdersAnswer
<1>2. Behind(id, SignalTicks) = k
  BY <1>1, SignalTicksFinite, BehindIs
<1> QED
  BY <1>1, <1>2

(* The orders are the first signals of the ticks, one for one and in their *)
(* order, on the side the price moved to and at that tick's bid or ask:    *)
(* onTick() misses none, answers none twice and keeps no price too long.   *)
THEOREM OrdersAnswerSignals == BotSpec => []OrdersAreTheSignals
<1>1. ASSUME Ticks, OrdersAnswer
      PROVE  OrdersAreTheSignals
  <2>1. \A id \in DOMAIN orders : Answers(id, Behind(id, SignalTicks))
    BY <1>1, BehindOrder
  <2> QED
    BY <1>1, <2>1 DEF OrdersAreTheSignals, OrdersAnswer, Answers
<1>2. ProgramFacts /\ StrategyFacts => Ticks /\ OrdersAnswer
  BY DEF ProgramFacts, StrategyFacts
<1> QED
  BY <1>1, <1>2, ProgramFactsInvariant, StrategyFactsInvariant, PTL


-----------------------------------------------------------------------------
(* The quotes that orders are executed at. *)
TradedAt(id, side, limit, price) ==
  \E n \in Behind(id, SignalTicks) .. Len(tickPrices) :
    price = PriceOf([side |-> side, price |-> limit], QuoteOf(n)[1], QuoteOf(n)[2])

PricesAgree == \A r \in requests : orders[r.orderId].price = r.price

PriceRead ==
  thread \in {"fill", "trade"} =>
    TradedAt(request.orderId, request.side, request.price, executionPrice)

TradesRead ==
  \A i \in DOMAIN trades :
    /\ trades[i].orderId \in DOMAIN orders
    /\ TradedAt(trades[i].orderId, trades[i].side, orders[trades[i].orderId].price,
                trades[i].price)

LEMMA PricesAgreeStep ==
  ASSUME ProgramFacts, PricesAgree, [BotNext]_allVars, [Next]_vars
  PROVE  PricesAgree'
<1>1. EngineTypeOK /\ Lifecycle /\ Conserved
  BY DEF ProgramFacts, EngineFacts, EngineInv
<1>2. \A r \in requests : r.orderId \in DOMAIN orders /\ orders[r.orderId].price = r.price
  BY <1>1, RequestsHaveOrders DEF PricesAgree
<1>3. CASE Signal
  <2>1. PICK side \in OrderSide :
          PlaceRequest(Simulator, side, IF side = "BUY" THEN tick.bid ELSE tick.ask,
                       OrderQuantity, HIGH)
    BY <1>3 DEF Signal, Signals
  <2> DEFINE price == IF side = "BUY" THEN tick.bid ELSE tick.ask
             r == [orderId |-> orderIdCounter, side |-> side, price |-> price,
                   quantity |-> OrderQuantity, priority |-> HIGH]
             v == [next |-> "push", request |-> r]
             order == [NewOrder(side, price, OrderQuantity) EXCEPT !.status = "PENDING"]
  <2>2. /\ client' = [client EXCEPT ![Simulator] = v] /\ v.request = r
        /\ r.orderId = orderIdCounter /\ r.price = price
        /\ ChangeOrder(orderIdCounter, order) /\ order.price = price
    BY <2>1 DEF PlaceRequest, placeOrder, NewOrder
  <2>3. UNCHANGED <<executionQueue, executed, thread, request>>
    BY <2>1 DEF PlaceRequest, queueVars, threadVars
  <2>4. orderIdCounter \notin DOMAIN orders
    BY <1>1 DEF EngineTypeOK, OrderManagerTypeOK, FirstOrderId
  <2> HIDE DEF price, r, v, order
  <2>5. client'[Simulator] = v /\ \A d \in Clients \ {Simulator} : client'[d] = client[d]
    BY <1>1, <2>2, BotAssumption, TypeParts, ClientKeeps DEF BotAssumption
  <2>6. \A s : s \in Built' => s \in Built \/ s = r
    BY <2>2, <2>5, BuiltRequest, BuiltRequest2
  <2>7. \A s \in requests' : s \in requests \/ s = r
    BY <2>3, <2>6 DEF requests, executing
  <2>8. /\ orders'[orderIdCounter] = order
        /\ \A i \in (DOMAIN orders) \ {orderIdCounter} : orders'[i] = orders[i]
    BY <2>2, ChangeOrderElsewhere
  <2>9. \A s \in requests' : orders'[s.orderId].price = s.price
    BY <1>2, <2>2, <2>4, <2>7, <2>8
  <2> QED
    BY <2>9 DEF PricesAgree
<1>4. CASE ~Signal
  <2>1. ~ \E c \in Clients : Place(c)
    BY <1>1, <1>4, OrdersKept, NoPlace
  <2>2. requests' \subseteq requests
    BY <1>1, <2>1, RequestsKept
  <2>3. \A id \in DOMAIN orders : orders'[id].price = orders[id].price
    BY <1>1, <2>1, OrdersFixed
  <2>4. \A s \in requests' : orders'[s.orderId].price = s.price
    BY <1>2, <2>2, <2>3
  <2> QED
    BY <2>4 DEF PricesAgree
<1> QED
  BY <1>3, <1>4

LEMMA TradedAtKept ==
  ASSUME ProgramFacts, StrategyFacts, Ticks', [BotNext]_allVars,
         NEW id \in DOMAIN orders, NEW side, NEW limit, NEW price,
         TradedAt(id, side, limit, price)
  PROVE  TradedAt(id, side, limit, price)'
<1> DEFINE k == Behind(id, SignalTicks)
<1>1. /\ MarketDataTypeOK /\ SimulatorOwn /\ Ticks /\ Subscribed /\ PriceKept /\ OrdersAnswer
  BY DEF ProgramFacts, StrategyFacts
<1>2. k \in SignalTicks /\ Rank(k, SignalTicks) = id - FirstOrderId + 1
  BY <1>1, BehindOrder
<1>3. k \in SignalTicks' /\ Rank(k, SignalTicks') = id - FirstOrderId + 1
  BY <1>1, <1>2, SignalRanksKept
<1>4. SignalTicks' \in SUBSET Nat /\ IsFiniteSet(SignalTicks')
  <2>1. SignalTicks \in SUBSET Nat /\ IsFiniteSet(SignalTicks) /\ Len(tickPrices) \in Nat
    BY <1>1, SignalTicksFinite, TickCounts
  <2>2. IsFiniteSet(SignalTicks \cup {Len(tickPrices)})
    BY <2>1, FS_AddElement
  <2>3. SignalTicks' \in {SignalTicks, SignalTicks \cup {Len(tickPrices)}}
    BY <1>1, SignalTicksChange
  <2> QED
    BY <2>1, <2>2, <2>3
<1>5. Behind(id, SignalTicks') = k
  <2> HIDE DEF k
  <2> QED
    BY <1>3, <1>4, BehindIs
<1>6. k \in 2 .. Len(tickPrices)
  BY <1>1, <1>2, SignalTicksFinite
<1>7. PICK n \in k .. Len(tickPrices) :
        price = PriceOf([side |-> side, price |-> limit], QuoteOf(n)[1], QuoteOf(n)[2])
  BY DEF TradedAt
<1>8. Len(tickPrices) \in Nat /\ Len(tickPrices') \in Nat /\ Len(tickPrices) <= Len(tickPrices')
  BY <1>1, TickCounts, PricesKept
<1> HIDE DEF k
<1>9. n \in 1 .. Len(tickPrices) /\ n \in k .. Len(tickPrices')
  BY <1>6, <1>7, <1>8
<1>10. QuoteOf(n)' = QuoteOf(n)
  BY <1>1, <1>9, QuotesKept
<1> QED
  BY <1>5, <1>7, <1>9, <1>10 DEF TradedAt

(* Only the reading of the tick sets the price of an execution. *)
LEMMA PriceStays ==
  ASSUME EngineTypeOK, Lifecycle, [BotNext]_allVars, ~ReadLatest, thread' \in {"fill", "trade"}
  PROVE  thread \in {"fill", "trade"} /\ UNCHANGED <<request, executionPrice>>
<1>1. CASE SimulatorStep
  BY <1>1
  DEF SimulatorStep, PublishTick, LoopEnds, PublishBook, BookHeard, PublicationReturns,
      NoSignal, Signal, PlaceRequest, Announce, SubmitNotify, Notified, Push, Submit,
      vars, threadVars
<1>2. CASE EngineStep \/ Wakeup
  BY <1>2
  DEF EngineStep, Wakeup, SpuriousWakeup, LoopHead, Lock, Predicate, Block, Check,
      FillOrder, RecordTrade, RecordLatency
<1>3. CASE MainStep
  BY <1>3
  DEF MainStep, StartEngine, SpawnEngine, Subscribe, StartSimulator, Read,
      StopSimulator, JoinSimulator, StopEngine, NotifyEngine, JoinEngine,
      Start, Spawn, Stop, StopNotify, Join, Notified, vars, threadVars
<1>4. CASE UNCHANGED allVars
  BY <1>4 DEF allVars, vars, threadVars
<1> QED
  BY <1>1, <1>2, <1>3, <1>4 DEF BotNext

LEMMA PriceReadStep ==
  ASSUME ProgramFacts, StrategyFacts, PriceRead, Ticks', [BotNext]_allVars
  PROVE  PriceRead'
<1> SUFFICES ASSUME thread' \in {"fill", "trade"}
             PROVE  TradedAt(request.orderId, request.side, request.price, executionPrice)'
  BY DEF PriceRead
<1>1. /\ EngineTypeOK /\ Lifecycle /\ Conserved /\ Ticks /\ QueriesAreRecent
      /\ OrdersAnswer
  BY DEF ProgramFacts, EngineFacts, EngineInv, StrategyFacts
<1>2. thread \in Executing => request.orderId \in DOMAIN orders
  <2>1. thread \in Executing => request \in requests
    BY DEF requests, executing
  <2> QED
    BY <1>1, <2>1, RequestsHaveOrders
<1>3. CASE ReadLatest
  <2> DEFINE k == Behind(request.orderId, SignalTicks)
             n == Len(tickPrices)
  <2>1. /\ thread = "tick" /\ request' = request
        /\ executionPrice' = PriceOf(request, QuoteOf(latestTick)[1], QuoteOf(latestTick)[2])
        /\ tickPrices' = tickPrices /\ SignalTicks' = SignalTicks
    BY <1>3
    DEF ReadLatest, ReadQuote, botVars, mdVars, SignalTicks, Answered, IsCalled
  <2>2. latestTick = n
    <3>1. Symbol \in Symbols /\ "tick" \in Kinds
      BY BotAssumption DEF BotAssumption, Kinds
    <3> QED
      BY <1>1, <3>1 DEF QueriesAreRecent, latestTick, Ticks
  <2>3. k \in SignalTicks
    BY <1>1, <1>2, <2>1, BehindOrder DEF Executing
  <2>4. n \in k .. n
    BY <1>1, <2>3, SignalTicksFinite, TickCounts
  <2>5. PriceOf(request, QuoteOf(n)[1], QuoteOf(n)[2])
          = PriceOf([side |-> request.side, price |-> request.price],
                    QuoteOf(n)[1], QuoteOf(n)[2])
    BY DEF PriceOf
  <2>6. QuoteOf(n)' = QuoteOf(n)
    BY <2>1 DEF QuoteOf
  <2> HIDE DEF n
  <2>7. executionPrice' = PriceOf([side |-> request.side, price |-> request.price],
                                  QuoteOf(n)[1], QuoteOf(n)[2])
    BY <2>1, <2>2, <2>5
  <2> QED
    BY <2>1, <2>4, <2>7 DEF TradedAt, QuoteOf, n
<1>4. CASE ~ReadLatest
  <2>1. thread \in {"fill", "trade"} /\ request' = request /\ executionPrice' = executionPrice
    BY <1>1, <1>4, PriceStays
  <2>2. request.orderId \in DOMAIN orders
    BY <1>2, <2>1 DEF Executing
  <2>3. \A id, side, limit, price :
          /\ id = request.orderId /\ side = request.side
          /\ limit = request.price /\ price = executionPrice
          => TradedAt(id, side, limit, price)'
    <3> SUFFICES ASSUME NEW id, NEW side, NEW limit, NEW price,
                        id = request.orderId, side = request.side,
                        limit = request.price, price = executionPrice
                 PROVE  TradedAt(id, side, limit, price)'
      OBVIOUS
    <3>1. TradedAt(id, side, limit, price)
      BY <2>1 DEF PriceRead
    <3> QED
      BY <2>2, <3>1, TradedAtKept
  <2> QED
    BY <2>1, <2>3
<1> QED
  BY <1>3, <1>4

LEMMA TradesReadStep ==
  ASSUME ProgramFacts, StrategyFacts, PricesAgree, PriceRead, TradesRead, Ticks',
         [BotNext]_allVars, [Next]_vars
  PROVE  TradesRead'
<1>1. /\ EngineTypeOK /\ Lifecycle /\ Conserved /\ Ticks
  BY DEF ProgramFacts, EngineFacts, EngineInv
<1>2. \A id \in DOMAIN orders : id \in DOMAIN orders' /\ orders'[id].price = orders[id].price
  <2>1. CASE Signal
    BY <1>1, <2>1, SignalPlacesOrder
  <2>2. CASE ~Signal
    BY <1>1, <2>2, OrdersKept, NoPlace, OrdersFixed
  <2> QED
    BY <2>1, <2>2
<1> DEFINE Fine(trade) == /\ trade.orderId \in DOMAIN orders'
                          /\ \A id, side, limit, price :
                               /\ id = trade.orderId /\ side = trade.side
                               /\ limit = orders'[trade.orderId].price
                               /\ price = trade.price
                               => TradedAt(id, side, limit, price)'
<1>3. ASSUME NEW i \in DOMAIN trades
      PROVE  Fine(trades[i])
  <2>1. trades[i].orderId \in DOMAIN orders
    BY <1>3 DEF TradesRead
  <2>2. ASSUME NEW id, NEW side, NEW limit, NEW price,
               id = trades[i].orderId, side = trades[i].side,
               limit = orders'[trades[i].orderId].price, price = trades[i].price
        PROVE  TradedAt(id, side, limit, price)'
    <3>1. limit = orders[trades[i].orderId].price
      BY <1>2, <2>1, <2>2
    <3>2. TradedAt(id, side, limit, price)
      BY <1>3, <2>2, <3>1 DEF TradesRead
    <3> QED
      BY <2>1, <2>2, <3>2, TradedAtKept
  <2> QED
    BY <1>2, <2>1, <2>2
<1>4. ASSUME RecordTrade
      PROVE  Fine(TradeOf(request, executionPrice))
  <2> DEFINE trade == TradeOf(request, executionPrice)
  <2>1. /\ trade.orderId = request.orderId /\ trade.side = request.side
        /\ trade.price = executionPrice /\ thread = "trade" /\ request \in requests
    BY <1>4 DEF TradeOf, RecordTrade, requests, executing, Executing
  <2> HIDE DEF trade
  <2>2. request.orderId \in DOMAIN orders /\ orders[request.orderId].price = request.price
    BY <1>1, <2>1, RequestsHaveOrders DEF PricesAgree
  <2>3. ASSUME NEW id, NEW side, NEW limit, NEW price,
               id = trade.orderId, side = trade.side,
               limit = orders'[trade.orderId].price, price = trade.price
        PROVE  TradedAt(id, side, limit, price)'
    <3>1. id = request.orderId /\ side = request.side /\ limit = request.price
          /\ price = executionPrice
      BY <1>2, <2>1, <2>2, <2>3
    <3>2. TradedAt(id, side, limit, price)
      BY <2>1, <3>1 DEF PriceRead
    <3> QED
      BY <2>2, <3>1, <3>2, TradedAtKept
  <2>4. Fine(trade)
    BY <1>2, <2>1, <2>2, <2>3
  <2> QED
    BY <2>4 DEF trade
<1>5. \A i \in DOMAIN trades' : Fine(trades'[i])
  <2> HIDE DEF Fine
  <2>1. CASE RecordTrade
    <3>1. trades' = Append(trades, TradeOf(request, executionPrice)) /\ trades \in Seq(Trade)
      BY <1>1, <2>1 DEF RecordTrade, simulateTrade, EngineTypeOK, OrderManagerTypeOK
    <3>2. \A i \in DOMAIN trades' :
            \/ i \in DOMAIN trades /\ trades'[i] = trades[i]
            \/ trades'[i] = TradeOf(request, executionPrice)
      BY <3>1
    <3> QED
      BY <1>3, <1>4, <2>1, <3>2
  <2>2. CASE ~RecordTrade
    <3>1. trades' = trades
      <4>1. CASE ReadTick
        BY <4>1, ReadTickSets
      <4>2. CASE FillOrder
        BY <4>2, FillOrderSets
      <4>3. CASE ~ReadTick /\ ~FillOrder
        BY <1>1, <2>2, <4>3, SetsKept
      <4> QED
        BY <4>1, <4>2, <4>3
    <3> QED
      BY <1>3, <3>1
  <2> QED
    BY <2>1, <2>2
<1> QED
  BY <1>5 DEF TradesRead

(* An order is executed at the quote of its own tick or of a later one:    *)
(* the strategy's tick is in the history before the strategy hears of it,  *)
(* and the execution thread reads the latest, whenever it comes to it.     *)
THEOREM TradesReadLaterQuotes == BotSpec => []TradesAtLaterQuotes
<1> DEFINE ReadInv == PricesAgree /\ PriceRead /\ TradesRead
<1>1. BotInit => ReadInv
  <2> SUFFICES ASSUME BotInit
               PROVE  ReadInv
    OBVIOUS
  <2>1. /\ \A c \in Clients : client[c].next = "place"
        /\ executionQueue = {} /\ executed = {} /\ thread = "none" /\ trades = <<>>
    BY DEF BotInit, Init, OrderManagerInit
  <2>2. requests = {}
    BY <2>1, BuiltRequest DEF requests, executing, Executing
  <2> QED
    BY <2>1, <2>2 DEF PricesAgree, PriceRead, TradesRead
<1>2. ProgramFacts /\ ProgramFacts' /\ StrategyFacts /\ ReadInv
        /\ [BotNext]_allVars /\ [Next]_vars => ReadInv'
  <2> SUFFICES ASSUME ProgramFacts, ProgramFacts', StrategyFacts, ReadInv,
                      [BotNext]_allVars, [Next]_vars
               PROVE  ReadInv'
    OBVIOUS
  <2>1. Ticks'
    BY DEF ProgramFacts
  <2> QED
    BY <2>1, PricesAgreeStep, PriceReadStep, TradesReadStep
<1>3. ASSUME TradesRead
      PROVE  TradesAtLaterQuotes
  BY <1>3 DEF TradesRead, TradedAt, TradesAtLaterQuotes
<1> HIDE DEF ReadInv
<1>4. ReadInv => TradesAtLaterQuotes
  BY <1>3 DEF ReadInv
<1> QED
  BY <1>1, <1>2, <1>4, ProgramFactsInvariant, StrategyFactsInvariant,
     BotImplementsEngine, PTL DEF BotSpec, Spec
=============================================================================
