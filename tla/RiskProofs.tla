------------------------------ MODULE RiskProofs ------------------------------
(***************************************************************************)
(* Theorems about the risk manager in use, for every finite set of traders *)
(* and all symbols, limits, quantities and prices, and every number of     *)
(* trades and of snapshots.                                                *)
(***************************************************************************)
EXTENDS RiskProperties, SumTheorems

vars == <<riskVars, deskVars>>

-----------------------------------------------------------------------------
(* Type correctness.  The limit in force is never above the greatest there *)
(* has been.                                                               *)
TraderState ==
  {Idle} \cup [at : {"read", "trade", "settle"}, trade : Trade]
         \cup [at : {"test"}, trade : Trade, read : Nat]

(* What is about to be settled is in the history. *)
UnsettledRecorded == \A t \in UnsettledTraders : trader[t].trade.symbol \in RecordedSymbols

TypeInv ==
  /\ RiskTypeOK
  /\ UnsettledRecorded
  /\ trader \in [Traders -> TraderState]
  /\ maxPositionSize <= highestLimit

LEMMA QuantityType ==
  ASSUME RiskTypeOK, NEW symbol
  PROVE  QuantityOf(symbol) \in Nat
BY DEF RiskTypeOK, QuantityOf, Position

(* What a trader that is not idle has decided on. *)
LEMMA TraderFacts ==
  ASSUME trader \in [Traders -> TraderState], NEW t \in Traders
  PROVE  /\ trader[t].at # "idle" => trader[t].trade \in Trade
         /\ trader[t].at = "test" => trader[t].read \in Nat
         /\ trader[t].at \in {"idle", "read", "test", "trade", "settle"}
BY DEF TraderState, Idle

LEMMA NatConstants ==
  /\ Limits \subseteq Nat /\ Quantities \subseteq Nat
  /\ Prices \subseteq Nat /\ Indeterminate \subseteq Int
BY RiskAssumption DEF RiskAssumption

(* A change of one position. *)
Stored(symbol, position) ==
  /\ DOMAIN positions' = DOMAIN positions \cup {symbol}
  /\ positions' \in [DOMAIN positions' -> Position]
  /\ QuantityOf(symbol)' = position.quantity
  /\ \A s : s # symbol => QuantityOf(s)' = QuantityOf(s)

LEMMA PositionStored ==
  ASSUME positions \in [DOMAIN positions -> Position], NEW symbol,
         NEW position \in Position, WithPosition(symbol, position)
  PROVE  Stored(symbol, position)
<1>1. /\ DOMAIN positions' = DOMAIN positions \cup {symbol}
      /\ positions' \in [DOMAIN positions' -> Position]
      /\ positions'[symbol] = position
      /\ \A s \in DOMAIN positions \ {symbol} : positions'[s] = positions[s]
  BY DEF WithPosition
<1>2. QuantityOf(symbol)' = position.quantity
  BY <1>1 DEF QuantityOf
<1>3. \A s : s # symbol => QuantityOf(s)' = QuantityOf(s)
  BY <1>1 DEF QuantityOf
<1> QED
  BY <1>1, <1>2, <1>3 DEF Stored

(* The calls that change positions, by what they do to them. *)
LEMMA SettleKeepsType ==
  ASSUME positions \in [DOMAIN positions -> Position], NEW trade \in Trade,
         updatePosition(trade)
  PROVE  /\ DOMAIN positions' = DOMAIN positions \cup {trade.symbol}
         /\ positions' \in [DOMAIN positions' -> Position]
         /\ \A s : s = trade.symbol => QuantityOf(s)' = QuantityOf(s) + trade.quantity
         /\ \A s : s # trade.symbol => QuantityOf(s)' = QuantityOf(s)
<1> DEFINE symbol == trade.symbol
<1>1. trade.quantity \in Nat /\ trade.price \in Nat /\ trade.side \in OrderSide
  BY NatConstants DEF Trade
<1>2. CASE symbol \in DOMAIN positions
  <2> DEFINE p == [side |-> positions[symbol].side,
                   quantity |-> positions[symbol].quantity + trade.quantity,
                   avgEntryPrice |-> positions[symbol].avgEntryPrice,
                   status |-> positions[symbol].status,
                   unrealizedPnL |-> positions[symbol].unrealizedPnL]
  <2>1. p \in Position /\ positions[symbol] \in Position
    BY <1>1, <1>2 DEF Position
  <2>2. Increased(positions[symbol], trade) = p
    BY <2>1 DEF Increased, Position
  <2>3. WithPosition(symbol, p)
    BY <1>2, <2>2 DEF updatePosition
  <2>4. QuantityOf(symbol) = positions[symbol].quantity
    BY <1>2 DEF QuantityOf
  <2>5. p.quantity = QuantityOf(symbol) + trade.quantity
    BY <2>4
  <2> HIDE DEF p, symbol
  <2>6. Stored(symbol, p)
    BY <2>1, <2>3, PositionStored
  <2> QED
    BY <2>5, <2>6 DEF Stored, symbol
<1>3. CASE symbol \notin DOMAIN positions
  <2>1. PICK anything \in Indeterminate :
          WithPosition(symbol, [side |-> trade.side, quantity |-> trade.quantity,
                                avgEntryPrice |-> trade.price, status |-> "OPEN",
                                unrealizedPnL |-> anything])
    BY <1>3 DEF updatePosition
  <2> DEFINE p == [side |-> trade.side, quantity |-> trade.quantity,
                   avgEntryPrice |-> trade.price, status |-> "OPEN",
                   unrealizedPnL |-> anything]
  <2>2. p \in Position
    BY <1>1, NatConstants DEF Position, PositionStatus
  <2>3. QuantityOf(symbol) = 0
    BY <1>3 DEF QuantityOf
  <2>4. p.quantity = QuantityOf(symbol) + trade.quantity
    BY <1>1, <2>3
  <2>5. WithPosition(symbol, p)
    BY <2>1
  <2> HIDE DEF p, symbol
  <2>6. Stored(symbol, p)
    BY <2>2, <2>5, PositionStored
  <2> QED
    BY <2>4, <2>6 DEF Stored, symbol
<1> QED
  BY <1>2, <1>3

LEMMA AdjustKeepsType ==
  ASSUME positions \in [DOMAIN positions -> Position], NEW symbol,
         closePosition(symbol) \/ \E price \in Prices : updateMarketPrice(symbol, price)
  PROVE  /\ DOMAIN positions' = DOMAIN positions
         /\ positions' \in [DOMAIN positions' -> Position]
         /\ \A s : QuantityOf(s)' = QuantityOf(s)
<1>1. symbol \in DOMAIN positions /\ positions[symbol] \in Position
  BY DEF closePosition, updateMarketPrice
<1>2. PICK p \in Position : /\ p.quantity = positions[symbol].quantity
                           /\ WithPosition(symbol, p)
  <2>1. CASE closePosition(symbol)
    <3>1. [positions[symbol] EXCEPT !.status = "CLOSED"] \in Position
      BY <1>1 DEF Position, PositionStatus
    <3>2. [positions[symbol] EXCEPT !.status = "CLOSED"].quantity = positions[symbol].quantity
      BY <1>1 DEF Position
    <3> QED
      BY <2>1, <3>1, <3>2 DEF closePosition
  <2>2. ASSUME NEW price \in Prices, updateMarketPrice(symbol, price)
        PROVE  \E p \in Position : /\ p.quantity = positions[symbol].quantity
                                   /\ WithPosition(symbol, p)
    <3> DEFINE pnl == PnLAt(positions[symbol], price)
    <3>1. pnl \in Int
      <4>1. price \in Nat /\ positions[symbol].avgEntryPrice \in Nat
            /\ positions[symbol].quantity \in Nat
        BY <1>1, NatConstants DEF Position
      <4> QED
        BY <4>1 DEF PnLAt
    <3> HIDE DEF pnl
    <3>2. [positions[symbol] EXCEPT !.unrealizedPnL = pnl] \in Position
      BY <1>1, <3>1 DEF Position
    <3>3. [positions[symbol] EXCEPT !.unrealizedPnL = pnl].quantity = positions[symbol].quantity
      BY <1>1 DEF Position
    <3> QED
      BY <2>2, <3>2, <3>3 DEF updateMarketPrice, pnl
  <2> QED
    BY <2>1, <2>2
<1>3. QuantityOf(symbol) = positions[symbol].quantity
  BY <1>1 DEF QuantityOf
<1>4. /\ DOMAIN positions' = DOMAIN positions \cup {symbol}
      /\ positions' \in [DOMAIN positions' -> Position]
      /\ QuantityOf(symbol)' = p.quantity
      /\ \A s : s # symbol => QuantityOf(s)' = QuantityOf(s)
  BY <1>2, PositionStored DEF Stored
<1>5. DOMAIN positions' = DOMAIN positions
  BY <1>1, <1>4
<1>6. \A s : QuantityOf(s)' = QuantityOf(s)
  BY <1>2, <1>3, <1>4
<1> QED
  BY <1>4, <1>5, <1>6

LEMMA RiskTypeInit == Init => TypeInv
<1> SUFFICES ASSUME Init PROVE TypeInv
  OBVIOUS
<1>1. trader \in [Traders -> TraderState]
  BY DEF Init, TraderState
<1>2. maxPositionSize \in Limits /\ highestLimit = maxPositionSize /\ maxPositionSize \in Nat
  BY NatConstants DEF Init, RiskInit
<1>3. /\ positions = [symbol \in {} |-> 0] /\ tradeHistory = <<>> /\ assigned = Len(Fields)
  BY DEF Init, RiskInit
<1>4. DOMAIN positions = {} /\ positions \in [{} -> Position]
  BY <1>3
<1>5. tradeHistory \in Seq(Trade) /\ RecordedSymbols = {}
  BY <1>3 DEF RecordedSymbols
<1>6. assigned \in 0 .. Len(Fields)
  BY <1>3 DEF Fields
<1> QED
  BY <1>1, <1>2, <1>4, <1>5, <1>6 DEF TypeInv, RiskTypeOK, UnsettledRecorded, UnsettledTraders, Init, Idle

(* What a step of a trader is, with the state it moves to.                 *)
LEMMA TraderMoves ==
  ASSUME TypeInv, NEW t \in Traders, NEW state \in TraderState, Move(t, state)
  PROVE  /\ trader' \in [Traders -> TraderState]
         /\ trader'[t] = state
         /\ \A other \in Traders \ {t} : trader'[other] = trader[other]
         /\ UNCHANGED <<portfolio, assigned, snapshots, highestLimit>>
BY DEF TypeInv, Move

(* A symbol of the history without a position has a trader on the way to   *)
(* give it one.                                                            *)
NotYetPositioned ==
  RecordedSymbols \ DOMAIN positions \subseteq {trader[t].trade.symbol : t \in UnsettledTraders}

(* The traders that settle next are the others as before and, if it does,  *)
(* the one that moved.                                                     *)
LEMMA UnsettledAfterMove ==
  ASSUME NEW t \in Traders, \A other \in Traders \ {t} : trader'[other] = trader[other]
  PROVE  /\ UnsettledTraders' \ {t} = UnsettledTraders \ {t}
         /\ \A u \in UnsettledTraders \ {t} : trader'[u] = trader[u]
         /\ trader'[t].at = "settle" => UnsettledTraders' = UnsettledTraders \cup {t}
         /\ trader'[t].at # "settle" => UnsettledTraders' = UnsettledTraders \ {t}
         /\ trader[t].at # "settle" => t \notin UnsettledTraders
         /\ trader[t].at = "settle" => t \in UnsettledTraders
<1> DEFINE before == UnsettledTraders
           after == UnsettledTraders'
<1>1. \A u : u \in before <=> u \in Traders /\ trader[u].at = "settle"
  BY DEF UnsettledTraders
<1>2. \A u : u \in after <=> u \in Traders /\ trader'[u].at = "settle"
  BY DEF UnsettledTraders
<1> HIDE DEF before, after
<1>3. \A u : u # t => (u \in after <=> u \in before)
  BY <1>1, <1>2
<1>4. after \ {t} = before \ {t}
  BY <1>3
<1>5. \A u \in before \ {t} : trader'[u] = trader[u]
  BY <1>1
<1>6. trader'[t].at = "settle" => after = before \cup {t}
  BY <1>2, <1>3
<1>7. trader'[t].at # "settle" => after = before \ {t}
  BY <1>2, <1>3
<1> QED
  BY <1>1, <1>4, <1>5, <1>6, <1>7 DEF before, after

LEMMA RecordedAfterTrade ==
  ASSUME tradeHistory \in Seq(Trade), NEW trade \in Trade,
         tradeHistory' = Append(tradeHistory, trade)
  PROVE  /\ tradeHistory' \in Seq(Trade)
         /\ RecordedSymbols' = RecordedSymbols \cup {trade.symbol}
<1>1. /\ DOMAIN tradeHistory' = DOMAIN tradeHistory \cup {Len(tradeHistory) + 1}
      /\ tradeHistory'[Len(tradeHistory) + 1] = trade
      /\ \A i \in DOMAIN tradeHistory : tradeHistory'[i] = tradeHistory[i]
  OBVIOUS
<1> QED
  BY <1>1 DEF RecordedSymbols

LEMMA TraderKeepsType ==
  ASSUME TypeInv, NEW t \in Traders, TraderStep(t)
  PROVE  TypeInv'
<1> USE DEF TypeInv
<1>0. /\ maxPositionSize \in Limits /\ tradeHistory \in Seq(Trade)
      /\ positions \in [DOMAIN positions -> Position]
      /\ DOMAIN positions \subseteq RecordedSymbols /\ NotYetPositioned
      /\ assigned \in 0 .. Len(Fields) /\ highestLimit \in Limits
  BY DEF RiskTypeOK, NotYetPositioned
<1>1. ASSUME UNCHANGED <<riskVars, tradeHistory>>, NEW state \in TraderState,
             Move(t, state), trader[t].at # "settle", state.at # "settle"
      PROVE  TypeInv'
  <2>1. /\ trader' \in [Traders -> TraderState] /\ trader'[t] = state
        /\ \A other \in Traders \ {t} : trader'[other] = trader[other]
        /\ UNCHANGED <<portfolio, assigned, snapshots, highestLimit>>
    BY <1>1, TraderMoves
  <2>2. UnsettledTraders = UnsettledTraders'
        /\ \A u \in UnsettledTraders : trader'[u] = trader[u]
    <3>1. t \notin UnsettledTraders
      BY <1>1 DEF UnsettledTraders
    <3> QED
      BY <1>1, <2>1, <3>1, UnsettledAfterMove
  <2>3. RecordedSymbols' = RecordedSymbols /\ UNCHANGED <<positions, maxPositionSize, tradeHistory>>
    BY <1>1 DEF RecordedSymbols, riskVars
  <2>4. NotYetPositioned'
    BY <1>0, <2>2, <2>3 DEF NotYetPositioned
  <2>5. RiskTypeOK'
    BY <1>0, <2>1, <2>3, <2>4 DEF RiskTypeOK, NotYetPositioned
  <2>6. UnsettledRecorded'
    BY <2>2, <2>3 DEF UnsettledRecorded
  <2> QED
    BY <2>1, <2>3, <2>5, <2>6
<1>2. ASSUME NEW trade \in Trade, FirstTest(t, trade)
      PROVE  TypeInv'
  <2>1. [at |-> "read", trade |-> trade] \in TraderState
    BY DEF TraderState
  <2> QED
    BY <1>1, <1>2, <2>1 DEF FirstTest
<1>3. CASE ReadPosition(t)
  <2>1. trader[t].trade \in Trade
    BY <1>3, TraderFacts DEF ReadPosition
  <2>2. QuantityOf(trader[t].trade.symbol) \in Nat
    BY QuantityType
  <2>3. [at |-> "test", trade |-> trader[t].trade,
         read |-> QuantityOf(trader[t].trade.symbol)] \in TraderState
    BY <2>1, <2>2 DEF TraderState
  <2> QED
    BY <1>1, <1>3, <2>3 DEF ReadPosition
<1>4. CASE SecondTest(t)
  <2>1. trader[t].trade \in Trade
    BY <1>4, TraderFacts DEF SecondTest
  <2>2. (IF Fits(trader[t].read, trader[t].trade.quantity)
         THEN [at |-> "trade", trade |-> trader[t].trade] ELSE Idle) \in TraderState
    BY <2>1 DEF TraderState
  <2>3. (IF Fits(trader[t].read, trader[t].trade.quantity)
         THEN [at |-> "trade", trade |-> trader[t].trade] ELSE Idle).at # "settle"
    BY DEF Idle
  <2> QED
    BY <1>1, <1>4, <2>2, <2>3 DEF SecondTest
<1>5. CASE Record(t)
  <2> DEFINE trade == trader[t].trade
  <2>1. trade \in Trade /\ trader[t].at = "trade"
    BY <1>5, TraderFacts DEF Record
  <2>2. [at |-> "settle", trade |-> trade] \in TraderState
    BY <2>1 DEF TraderState
  <2>3. /\ trader' \in [Traders -> TraderState]
        /\ trader'[t] = [at |-> "settle", trade |-> trade]
        /\ \A other \in Traders \ {t} : trader'[other] = trader[other]
        /\ UNCHANGED <<portfolio, assigned, snapshots, highestLimit>>
    BY <1>5, <2>2, TraderMoves DEF Record
  <2>4. UNCHANGED <<positions, maxPositionSize>>
        /\ tradeHistory' = Append(tradeHistory, trade)
    BY <1>5 DEF Record, riskVars
  <2>5. tradeHistory' \in Seq(Trade) /\ RecordedSymbols' = RecordedSymbols \cup {trade.symbol}
    <3> HIDE DEF trade
    <3> QED
      BY <1>0, <2>1, <2>4, RecordedAfterTrade
  <2>6. /\ UnsettledTraders \subseteq UnsettledTraders' /\ t \in UnsettledTraders'
        /\ \A u \in UnsettledTraders : trader'[u] = trader[u]
    BY <2>1, <2>3, UnsettledAfterMove
  <2>7. NotYetPositioned'
    <3>1. trade.symbol \in {trader'[u].trade.symbol : u \in UnsettledTraders'}
      BY <2>3, <2>6
    <3>2. {trader[u].trade.symbol : u \in UnsettledTraders}
            \subseteq {trader'[u].trade.symbol : u \in UnsettledTraders'}
      BY <2>6
    <3> HIDE DEF trade
    <3> QED
      BY <1>0, <2>4, <2>5, <3>1, <3>2 DEF NotYetPositioned
  <2>8. RiskTypeOK'
    BY <1>0, <2>3, <2>4, <2>5, <2>7 DEF RiskTypeOK, NotYetPositioned
  <2>9. UnsettledRecorded'
    <3>1. \A u \in UnsettledTraders' : u \in UnsettledTraders \/ u = t
      BY <2>3, UnsettledAfterMove
    <3>2. trader'[t].trade = trade
      BY <2>3
    <3> HIDE DEF trade
    <3> QED
      BY <2>5, <2>6, <3>1, <3>2 DEF UnsettledRecorded
  <2> QED
    BY <2>3, <2>4, <2>8, <2>9
<1>6. CASE Settle(t)
  <2> DEFINE trade == trader[t].trade
  <2>1. trade \in Trade /\ trader[t].at = "settle"
    BY <1>6, TraderFacts DEF Settle
  <2>2. Idle \in TraderState
    BY DEF TraderState
  <2>3. /\ trader' \in [Traders -> TraderState]
        /\ trader'[t] = Idle
        /\ \A other \in Traders \ {t} : trader'[other] = trader[other]
        /\ UNCHANGED <<portfolio, assigned, snapshots, highestLimit>>
    BY <1>6, <2>2, TraderMoves DEF Settle
  <2>4. UNCHANGED <<tradeHistory, maxPositionSize>> /\ updatePosition(trade)
    BY <1>6 DEF Settle, updatePosition
  <2>5. /\ DOMAIN positions' = DOMAIN positions \cup {trade.symbol}
        /\ positions' \in [DOMAIN positions' -> Position]
    <3> HIDE DEF trade
    <3> QED
      BY <1>0, <2>1, <2>4, SettleKeepsType
  <2>6. UnsettledTraders \ {t} = UnsettledTraders' \ {t}
        /\ \A u \in UnsettledTraders \ {t} : trader'[u] = trader[u]
    BY <2>3, UnsettledAfterMove DEF UnsettledTraders
  <2>7. RecordedSymbols' = RecordedSymbols
    BY <2>4 DEF RecordedSymbols
  <2>8. NotYetPositioned'
    <3>1. \A u \in UnsettledTraders : trader[u].trade.symbol \in
             {trader'[v].trade.symbol : v \in UnsettledTraders'} \cup {trade.symbol}
      BY <2>6
    <3> HIDE DEF trade
    <3> QED
      BY <1>0, <2>5, <2>7, <3>1 DEF NotYetPositioned
  <2>9. trade.symbol \in RecordedSymbols
    BY <2>1 DEF UnsettledRecorded, UnsettledTraders
  <2>10. RiskTypeOK'
    BY <1>0, <2>3, <2>4, <2>5, <2>7, <2>8, <2>9 DEF RiskTypeOK, NotYetPositioned
  <2>11. UnsettledRecorded'
    <3>1. UnsettledTraders' = UnsettledTraders \ {t}
      BY <2>3, UnsettledAfterMove DEF Idle
    <3> QED
      BY <2>6, <2>7, <3>1 DEF UnsettledRecorded
  <2> QED
    BY <2>3, <2>4, <2>10, <2>11
<1> QED
  BY <1>2, <1>3, <1>4, <1>5, <1>6 DEF TraderStep

LEMMA OthersKeepType ==
  ASSUME TypeInv,
         \/ SetLimits \/ ClosePosition \/ UpdateMarketPrice \/ BeginSnapshot \/ AssignField
         \/ UNCHANGED vars
  PROVE  /\ TypeInv'
         /\ UNCHANGED <<trader, tradeHistory>>
         /\ \A symbol : QuantityOf(symbol)' = QuantityOf(symbol)
         /\ highestLimit' >= highestLimit
<1> DEFINE Kept == /\ DOMAIN positions' = DOMAIN positions
                   /\ positions' \in [DOMAIN positions' -> Position]
                   /\ \A symbol : QuantityOf(symbol)' = QuantityOf(symbol)
<1>1. /\ maxPositionSize \in Limits /\ highestLimit \in Limits
      /\ positions \in [DOMAIN positions -> Position]
      /\ maxPositionSize \in Nat /\ highestLimit \in Nat /\ maxPositionSize <= highestLimit
  BY NatConstants DEF TypeInv, RiskTypeOK
<1>2. UNCHANGED positions => Kept
  BY <1>1 DEF QuantityOf
<1>3. /\ Kept /\ UNCHANGED <<trader, tradeHistory>>
      /\ maxPositionSize' \in Limits /\ highestLimit' \in Limits
      /\ maxPositionSize' <= highestLimit' /\ highestLimit' >= highestLimit
      /\ assigned' \in 0 .. Len(Fields)
  <2>0. assigned \in 0 .. Len(Fields)
    BY DEF TypeInv, RiskTypeOK
  <2>1. CASE SetLimits
    <3>1. PICK limit \in Limits : maxPositionSize' = limit /\ UNCHANGED positions /\
            highestLimit' = IF limit > highestLimit THEN limit ELSE highestLimit
      BY <2>1 DEF SetLimits, setRiskLimits
    <3>2. limit \in Nat
      BY NatConstants
    <3> QED
      BY <1>1, <1>2, <2>0, <2>1, <3>1, <3>2 DEF SetLimits
  <2>2. CASE ClosePosition \/ UpdateMarketPrice
    <3>1. PICK symbol \in Symbols :
            closePosition(symbol) \/ \E price \in Prices : updateMarketPrice(symbol, price)
      BY <2>2 DEF ClosePosition, UpdateMarketPrice
    <3>2. Kept
      BY <1>1, <3>1, AdjustKeepsType
    <3>3. UNCHANGED <<trader, tradeHistory, assigned, highestLimit>>
      BY <2>2 DEF ClosePosition, UpdateMarketPrice, deskVars
    <3>4. UNCHANGED maxPositionSize
      BY <3>1 DEF closePosition, updateMarketPrice
    <3> QED
      BY <1>1, <2>0, <3>2, <3>3, <3>4
  <2>3. CASE BeginSnapshot
    <3>1. UNCHANGED <<positions, maxPositionSize, trader, tradeHistory, highestLimit>>
          /\ assigned' = 0
      BY <2>3 DEF BeginSnapshot, riskVars
    <3>2. 0 \in 0 .. Len(Fields)
      BY DEF Fields
    <3> QED
      BY <1>1, <1>2, <3>1, <3>2
  <2>4. CASE AssignField
    <3>1. UNCHANGED <<positions, maxPositionSize, trader, tradeHistory, highestLimit>>
          /\ assigned' = assigned + 1 /\ assigned < Len(Fields)
      BY <2>4 DEF AssignField, riskVars
    <3>2. assigned + 1 \in 0 .. Len(Fields)
      BY <2>0, <3>1 DEF Fields
    <3> QED
      BY <1>1, <1>2, <3>1, <3>2
  <2>5. CASE UNCHANGED vars
    BY <1>1, <1>2, <2>0, <2>5 DEF vars, riskVars, deskVars
  <2> QED
    BY <2>1, <2>2, <2>3, <2>4, <2>5
<1>4. UnsettledTraders' = UnsettledTraders /\ RecordedSymbols' = RecordedSymbols
  BY <1>3 DEF UnsettledTraders, RecordedSymbols
<1>5. UnsettledRecorded'
  BY <1>3, <1>4 DEF TypeInv, UnsettledRecorded
<1>6. RiskTypeOK'
  BY <1>3, <1>4 DEF TypeInv, RiskTypeOK
<1>7. trader' \in [Traders -> TraderState]
  BY <1>3 DEF TypeInv
<1> QED
  BY <1>3, <1>5, <1>6, <1>7 DEF TypeInv

(* A step is one trader's, or one of the others'. *)
LEMMA StepKinds ==
  ASSUME [Next]_vars
  PROVE  \/ \E t \in Traders : TraderStep(t)
         \/ SetLimits \/ ClosePosition \/ UpdateMarketPrice \/ BeginSnapshot \/ AssignField
         \/ UNCHANGED vars
BY DEF Next

LEMMA TypeInvariant == Spec => []TypeInv
<1>1. Init => TypeInv
  BY RiskTypeInit
<1>2. TypeInv /\ [Next]_vars => TypeInv'
  BY StepKinds, TraderKeepsType, OthersKeepType
<1> QED
  BY <1>1, <1>2, PTL DEF Spec, vars

(* Type correctness of the risk manager in use; and a symbol has a position *)
(* from the moment updatePosition() is done with its first trade, for ever: *)
(* closePosition() changes the status and removes nothing.                  *)
THEOREM RiskTypeCorrect == Spec => []RiskTypeOK
<1>1. TypeInv => RiskTypeOK
  BY DEF TypeInv
<1> QED
  BY <1>1, TypeInvariant, PTL

-----------------------------------------------------------------------------
(* Sums over traders, and over places of the history, as functions of the  *)
(* traders and of the history, so that two states can be compared.         *)
Amounts(traders, among) == SumFunction([t \in among |-> traders[t].trade.quantity])
Totals(trades, places) == SumFunction([i \in places |-> trades[i].quantity])

LEMMA SumsOfState ==
  /\ \A among : UnderWay(among) = Amounts(trader, among)
  /\ \A places : Recorded(places) = Totals(tradeHistory, places)
BY DEF UnderWay, Amounts, Recorded, Totals

Counted(traders, among) ==
  IsFiniteSet(among) /\ \A t \in among : traders[t].trade.quantity \in Nat
SameTrades(later, traders, among) ==
  \A t \in among : later[t].trade = traders[t].trade

LEMMA AmountsNat ==
  ASSUME NEW traders, NEW among, Counted(traders, among)
  PROVE  Amounts(traders, among) \in Nat
<1> DEFINE f == [t \in among |-> traders[t].trade.quantity]
<1>1. IsFiniteSet(among) /\ \A t \in among : f[t] \in Nat
  BY DEF Counted
<1>2. SumFunctionOnSet(f, among) \in Nat
  <2> HIDE DEF f
  <2> QED
    BY <1>1, SumNat
<1> QED
  BY <1>2 DEF Amounts, SumFunction

LEMMA AmountsJoin ==
  ASSUME NEW traders, NEW later, NEW among, NEW t, NEW larger, NEW quantity \in Nat,
         Counted(traders, among), SameTrades(later, traders, among),
         t \notin among, larger = among \cup {t}, quantity = later[t].trade.quantity
  PROVE  /\ Amounts(traders, among) \in Nat
         /\ Amounts(later, larger) = Amounts(traders, among) + quantity
<1> DEFINE f == [u \in among |-> traders[u].trade.quantity]
           g == [u \in larger |-> later[u].trade.quantity]
<1>1. /\ DOMAIN f = among /\ DOMAIN g = among \cup {t} /\ IsFiniteSet(among)
      /\ g[t] = quantity /\ g[t] \in Int
      /\ \A u \in among : f[u] \in Int /\ g[u] = f[u]
  BY DEF Counted, SameTrades
<1> HIDE DEF f, g
<1>2. SumFunction(g) = SumFunction(f) + g[t]
  BY <1>1, SumExtended
<1>3. Amounts(traders, among) \in Nat
  BY AmountsNat
<1>4. Amounts(later, larger) = SumFunction(g) /\ Amounts(traders, among) = SumFunction(f)
  BY DEF Amounts, f, g
<1> QED
  BY <1>1, <1>2, <1>3, <1>4

LEMMA AmountsSame ==
  ASSUME NEW traders, NEW later, NEW among, Counted(traders, among),
         SameTrades(later, traders, among)
  PROVE  Amounts(later, among) = Amounts(traders, among)
<1> DEFINE f == [u \in among |-> traders[u].trade.quantity]
           g == [u \in among |-> later[u].trade.quantity]
<1>1. /\ DOMAIN f = among /\ DOMAIN g = among /\ IsFiniteSet(among)
      /\ \A u \in among : f[u] \in Int /\ g[u] = f[u]
  BY DEF Counted, SameTrades
<1> HIDE DEF f, g
<1>2. SumFunction(g) = SumFunction(f)
  BY <1>1, SumUnchanged
<1> QED
  BY <1>2 DEF Amounts, f, g

LEMMA AmountsBounded ==
  ASSUME NEW traders, NEW among, NEW b \in Nat, Counted(traders, among),
         \A t \in among : traders[t].trade.quantity <= b
  PROVE  Amounts(traders, among) <= Cardinality(among) * b
<1> DEFINE f == [t \in among |-> traders[t].trade.quantity]
<1>1. IsFiniteSet(among) /\ \A t \in among : f[t] \in Nat /\ f[t] <= b
  BY DEF Counted
<1>2. SumFunctionOnSet(f, among) <= Cardinality(among) * b
  <2> HIDE DEF f
  <2> QED
    BY <1>1, SumBounded
<1> QED
  BY <1>2 DEF Amounts, SumFunction

(* A trade more in the history: it counts for its symbol, and what the     *)
(* first trades add up to stays.                                           *)
Of(trades, symbol) == {i \in DOMAIN trades : trades[i].symbol = symbol}

LEMMA TotalsAppend ==
  ASSUME NEW trades \in Seq(Trade), NEW trade \in Trade, NEW symbol,
         NEW later, later = Append(trades, trade)
  PROVE  /\ Totals(trades, Of(trades, symbol)) \in Nat
         /\ Totals(later, Of(later, symbol)) = Totals(trades, Of(trades, symbol))
              + (IF trade.symbol = symbol THEN trade.quantity ELSE 0)
<1> DEFINE last == Len(trades) + 1
           mine == Of(trades, symbol)
           mine2 == Of(later, symbol)
           f == [i \in mine |-> trades[i].quantity]
           g == [i \in mine2 |-> later[i].quantity]
<1>1. /\ DOMAIN trades = 1 .. Len(trades) /\ Len(trades) \in Nat
      /\ DOMAIN later = DOMAIN trades \cup {last} /\ last \notin DOMAIN trades
      /\ later[last] = trade
      /\ \A i \in DOMAIN trades : later[i] = trades[i]
  OBVIOUS
<1>2. trade.quantity \in Nat /\ \A i \in DOMAIN trades : trades[i].quantity \in Nat
  <2>1. \A i \in DOMAIN trades : trades[i] \in Trade
    OBVIOUS
  <2> QED
    BY <2>1, NatConstants DEF Trade
<1>3. IsFiniteSet(DOMAIN trades) /\ IsFiniteSet(mine)
  <2>1. IsFiniteSet(DOMAIN trades)
    BY <1>1, FS_Interval
  <2> QED
    BY <2>1, FS_Subset DEF Of
<1> HIDE DEF last
<1>4. Totals(trades, mine) = SumFunction(f) /\ Totals(later, mine2) = SumFunction(g)
  BY DEF Totals
<1>5. SumFunction(f) \in Nat
  <2>1. \A i \in mine : f[i] \in Nat
    BY <1>2 DEF Of
  <2>2. SumFunctionOnSet(f, mine) \in Nat
    <3> HIDE DEF f, mine
    <3> QED
      BY <1>3, <2>1, SumNat
  <2> QED
    BY <2>2 DEF SumFunction
<1>6. ASSUME trade.symbol = symbol
      PROVE  SumFunction(g) = SumFunction(f) + trade.quantity
  <2>1. mine2 = mine \cup {last} /\ last \notin mine
    BY <1>1, <1>6 DEF Of
  <2>2. /\ DOMAIN f = mine /\ DOMAIN g = mine \cup {last}
        /\ g[last] = trade.quantity /\ g[last] \in Int
        /\ \A i \in mine : f[i] \in Int /\ g[i] = f[i]
    BY <1>1, <1>2, <2>1 DEF Of
  <2>3. SumFunction(g) = SumFunction(f) + g[last]
    <3> HIDE DEF f, g, mine, mine2
    <3> QED
      BY <1>3, <2>1, <2>2, SumExtended
  <2> QED
    BY <2>2, <2>3
<1>7. ASSUME trade.symbol # symbol
      PROVE  SumFunction(g) = SumFunction(f)
  <2>1. mine2 = mine
    BY <1>1, <1>7 DEF Of
  <2>2. /\ DOMAIN f = mine /\ DOMAIN g = mine
        /\ \A i \in mine : f[i] \in Int /\ g[i] = f[i]
    BY <1>1, <1>2, <2>1 DEF Of
  <2>3. SumFunction(g) = SumFunction(f)
    <3> HIDE DEF f, g, mine, mine2
    <3> QED
      BY <1>3, <2>2, SumUnchanged
  <2> QED
    BY <2>3
<1> HIDE DEF f, g, mine, mine2
<1>8. SumFunction(g) = SumFunction(f) + (IF trade.symbol = symbol THEN trade.quantity ELSE 0)
  BY <1>5, <1>6, <1>7
<1> QED
  BY <1>4, <1>5, <1>8 DEF mine, mine2

-----------------------------------------------------------------------------
(* What a step of a trader may do: move it on without a trade being        *)
(* recorded or settled, record its trade, or settle it.                    *)
Reads(t) ==
  /\ trader[t].at = "read"
  /\ trader'[t] = [at |-> "test", trade |-> trader[t].trade,
                   read |-> QuantityOf(trader[t].trade.symbol)]
PassesSecondTest(t) ==
  /\ trader[t].at = "test"
  /\ Fits(trader[t].read, trader[t].trade.quantity)
  /\ trader'[t] = [at |-> "trade", trade |-> trader[t].trade]
MovesOn(t) ==
  /\ UNCHANGED <<positions, tradeHistory>>
  /\ \/ trader[t].at = "idle" /\ trader'[t].at = "read"
     \/ Reads(t)
     \/ PassesSecondTest(t)
     \/ trader[t].at = "test" /\ trader'[t] = Idle
Records(t) ==
  /\ trader[t].at = "trade"
  /\ trader'[t] = [at |-> "settle", trade |-> trader[t].trade]
  /\ tradeHistory' = Append(tradeHistory, trader[t].trade)
  /\ UNCHANGED positions
Settles(t) ==
  /\ trader[t].at = "settle"
  /\ trader'[t] = Idle
  /\ updatePosition(trader[t].trade)
  /\ UNCHANGED tradeHistory

LEMMA TraderEffects ==
  ASSUME TypeInv, NEW t \in Traders, TraderStep(t)
  PROVE  /\ \A other \in Traders \ {t} : trader'[other] = trader[other]
         /\ UNCHANGED <<maxPositionSize, portfolio, assigned, snapshots, highestLimit>>
         /\ MovesOn(t) \/ Records(t) \/ Settles(t)
<1> DEFINE Goal == /\ \A other \in Traders \ {t} : trader'[other] = trader[other]
                   /\ UNCHANGED <<maxPositionSize, portfolio, assigned, snapshots, highestLimit>>
                   /\ MovesOn(t) \/ Records(t) \/ Settles(t)
<1>1. trader \in [Traders -> TraderState]
  BY DEF TypeInv
<1>2. \A state : Move(t, state) =>
        /\ trader'[t] = state
        /\ \A other \in Traders \ {t} : trader'[other] = trader[other]
        /\ UNCHANGED <<portfolio, assigned, snapshots, highestLimit>>
  BY <1>1 DEF Move
<1>3. ASSUME NEW trade \in Trade, FirstTest(t, trade)
      PROVE  Goal
  BY <1>2, <1>3 DEF FirstTest, MovesOn, riskVars
<1>4. CASE ReadPosition(t)
  BY <1>2, <1>4 DEF ReadPosition, MovesOn, Reads, riskVars
<1>5. CASE SecondTest(t)
  BY <1>2, <1>5 DEF SecondTest, MovesOn, PassesSecondTest, riskVars
<1>6. CASE Record(t)
  BY <1>2, <1>6 DEF Record, Records, riskVars
<1>7. CASE Settle(t)
  BY <1>2, <1>7 DEF Settle, Settles, updatePosition
<1> QED
  BY <1>3, <1>4, <1>5, <1>6, <1>7 DEF TraderStep

(* Traders of a set, their number and their trades. *)
LEMMA SomeTraders ==
  ASSUME NEW among \in SUBSET Traders
  PROVE  IsFiniteSet(among) /\ Cardinality(among) \in Nat
BY RiskDeskAssumption, FS_Subset, FS_CardinalityType DEF RiskDeskAssumption

LEMMA TradeQuantity ==
  ASSUME trader \in [Traders -> TraderState], NEW t \in Traders, trader[t].at # "idle"
  PROVE  /\ trader[t].trade \in Trade
         /\ trader[t].trade.quantity \in Quantities
         /\ trader[t].trade.quantity \in Nat
<1>1. trader[t].trade \in Trade
  BY TraderFacts
<1> QED
  BY <1>1, NatConstants DEF Trade

-----------------------------------------------------------------------------
(* Positions match the trades. *)
LEMMA UnsettledInAfter ==
  ASSUME NEW t \in Traders, NEW symbol,
         \A other \in Traders \ {t} : trader'[other] = trader[other]
  PROVE  /\ \A u \in UnsettledIn(symbol) \ {t} : u \in Traders /\ trader'[u] = trader[u]
         /\ trader'[t].at = "settle" /\ trader'[t].trade.symbol = symbol
              => UnsettledIn(symbol)' = UnsettledIn(symbol) \cup {t}
         /\ ~ (trader'[t].at = "settle" /\ trader'[t].trade.symbol = symbol)
              => UnsettledIn(symbol)' = UnsettledIn(symbol) \ {t}
         /\ t \in UnsettledIn(symbol)
              <=> trader[t].at = "settle" /\ trader[t].trade.symbol = symbol
<1> DEFINE before == UnsettledIn(symbol)
           after == UnsettledIn(symbol)'
<1>1. \A u : u \in before <=> u \in Traders /\ trader[u].at = "settle" /\ trader[u].trade.symbol = symbol
  BY DEF UnsettledIn, UnsettledTraders
<1>2. \A u : u \in after <=> u \in Traders /\ trader'[u].at = "settle" /\ trader'[u].trade.symbol = symbol
  BY DEF UnsettledIn, UnsettledTraders
<1> HIDE DEF before, after
<1>3. \A u : u # t => (u \in after <=> u \in before)
  BY <1>1, <1>2
<1>4. trader'[t].at = "settle" /\ trader'[t].trade.symbol = symbol => after = before \cup {t}
  BY <1>2, <1>3
<1>5. ~ (trader'[t].at = "settle" /\ trader'[t].trade.symbol = symbol) => after = before \ {t}
  BY <1>2, <1>3
<1> QED
  BY <1>1, <1>4, <1>5 DEF before, after

LEMMA UnsettledQuantities ==
  ASSUME trader \in [Traders -> TraderState], NEW symbol
  PROVE  /\ UnsettledIn(symbol) \in SUBSET Traders
         /\ Counted(trader, UnsettledIn(symbol))
<1>1. UnsettledIn(symbol) \in SUBSET Traders
  BY DEF UnsettledIn, UnsettledTraders
<1>2. \A u \in UnsettledIn(symbol) : trader[u].at = "settle"
  BY DEF UnsettledIn, UnsettledTraders
<1>3. \A u \in UnsettledIn(symbol) : trader[u].trade.quantity \in Nat
  BY <1>1, <1>2, TradeQuantity
<1>4. IsFiniteSet(UnsettledIn(symbol))
  BY <1>1, SomeTraders
<1> QED
  BY <1>1, <1>3, <1>4 DEF Counted

SymbolMatches(symbol) ==
  QuantityOf(symbol) + UnderWay(UnsettledIn(symbol))
    = Recorded(TradesIn(symbol, DOMAIN tradeHistory))

LEMMA NothingUnderWay == UnderWay({}) = 0 /\ Recorded({}) = 0
<1>1. \A f : DOMAIN f = {} => SumFunction(f) = 0
  BY SumEmpty DEF SumFunction
<1> QED
  BY <1>1 DEF UnderWay, Recorded

LEMMA MatchTerms ==
  ASSUME NEW symbol
  PROVE  /\ UnderWay(UnsettledIn(symbol)) = Amounts(trader, UnsettledIn(symbol))
         /\ UnderWay(UnsettledIn(symbol))' = Amounts(trader', UnsettledIn(symbol)')
         /\ Recorded(TradesIn(symbol, DOMAIN tradeHistory)) = Totals(tradeHistory, Of(tradeHistory, symbol))
         /\ Recorded(TradesIn(symbol, DOMAIN tradeHistory))' = Totals(tradeHistory', Of(tradeHistory', symbol))
BY DEF UnderWay, Amounts, Recorded, Totals, TradesIn, Of

LEMMA TraderKeepsMatch ==
  ASSUME TypeInv, NEW t \in Traders, TraderStep(t), NEW symbol, SymbolMatches(symbol)
  PROVE  SymbolMatches(symbol)'
<1> DEFINE U == UnsettledIn(symbol)
           U2 == UnsettledIn(symbol)'
           trade == trader[t].trade
           way == Amounts(trader, U)
           way2 == Amounts(trader', U2)
           total == Totals(tradeHistory, Of(tradeHistory, symbol))
           total2 == Totals(tradeHistory', Of(tradeHistory', symbol))
           q == QuantityOf(symbol)
           q2 == QuantityOf(symbol)'
<1>1. trader \in [Traders -> TraderState] /\ tradeHistory \in Seq(Trade) /\ RiskTypeOK
      /\ positions \in [DOMAIN positions -> Position]
  BY DEF TypeInv, RiskTypeOK
<1>2. q + way = total
  BY MatchTerms DEF SymbolMatches
<1>3. /\ \A other \in Traders \ {t} : trader'[other] = trader[other]
      /\ MovesOn(t) \/ Records(t) \/ Settles(t)
  BY TraderEffects
<1>4. Counted(trader, U) /\ way \in Nat
  BY <1>1, UnsettledQuantities, AmountsNat
<1>5. /\ \A u \in U \ {t} : trader'[u] = trader[u]
      /\ trader'[t].at = "settle" /\ trader'[t].trade.symbol = symbol => U2 = U \cup {t}
      /\ ~ (trader'[t].at = "settle" /\ trader'[t].trade.symbol = symbol) => U2 = U \ {t}
      /\ t \in U <=> trader[t].at = "settle" /\ trader[t].trade.symbol = symbol
  BY <1>3, UnsettledInAfter
<1>6. q \in Nat
  BY <1>1, QuantityType
<1>7. ASSUME t \notin U, U2 = U, UNCHANGED tradeHistory, q2 = q
      PROVE  q2 + way2 = total2
  <2>1. SameTrades(trader', trader, U)
    BY <1>5, <1>7 DEF SameTrades
  <2>2. Amounts(trader', U) = way
    BY <1>4, <2>1, AmountsSame
  <2>3. total2 = total
    BY <1>7
  <2> QED
    BY <1>2, <1>7, <2>2, <2>3
<1>8. CASE MovesOn(t)
  <2>1. trader[t].at # "settle" /\ trader'[t].at # "settle"
    BY <1>8 DEF MovesOn, Reads, PassesSecondTest, Idle
  <2>2. t \notin U /\ U2 = U
    BY <1>5, <2>1
  <2>3. q2 = q /\ UNCHANGED tradeHistory
    BY <1>8 DEF MovesOn, QuantityOf
  <2> QED
    BY <1>7, <2>2, <2>3, MatchTerms DEF SymbolMatches
<1>9. CASE Records(t)
  <2>1. /\ trader[t].at = "trade"
        /\ trader'[t].at = "settle" /\ trader'[t].trade = trade
        /\ tradeHistory' = Append(tradeHistory, trade)
        /\ q2 = q
    BY <1>9 DEF Records, QuantityOf
  <2>2. trade \in Trade /\ trade.quantity \in Nat
    BY <1>1, <2>1, TradeQuantity
  <2>3. total2 = total + (IF trade.symbol = symbol THEN trade.quantity ELSE 0) /\ total \in Nat
    <3> HIDE DEF trade
    <3>1. \A later : later = Append(tradeHistory, trade) =>
            /\ Totals(tradeHistory, Of(tradeHistory, symbol)) \in Nat
            /\ Totals(later, Of(later, symbol)) = Totals(tradeHistory, Of(tradeHistory, symbol))
                 + (IF trade.symbol = symbol THEN trade.quantity ELSE 0)
      BY <1>1, <2>2, TotalsAppend
    <3> QED
      BY <2>1, <3>1
  <2>4. t \notin U
    BY <1>5, <2>1
  <2>5. SameTrades(trader', trader, U)
    BY <1>5, <2>4 DEF SameTrades
  <2>6. CASE trade.symbol = symbol
    <3>1. U2 = U \cup {t}
      BY <1>5, <2>1, <2>6
    <3>2. trade.quantity = trader'[t].trade.quantity
      BY <2>1
    <3>4. way2 = way + trade.quantity
      BY <1>4, <2>2, <2>4, <2>5, <3>1, <3>2, AmountsJoin
    <3>3. total2 = total + trade.quantity
      BY <2>3, <2>6
    <3>5. q2 + way2 = total2
      <4> HIDE DEF way, way2, total, total2, q, q2, trade
      <4>1. q2 = q /\ trade.quantity \in Nat
        BY <2>1, <2>2
      <4> QED
        BY <1>2, <1>4, <1>6, <3>3, <3>4, <4>1
    <3> QED
      BY <3>5, MatchTerms DEF SymbolMatches
  <2>7. CASE trade.symbol # symbol
    <3>1. U2 = U
      BY <1>5, <2>1, <2>4, <2>7
    <3>2. way2 = way
      BY <1>4, <2>5, <3>1, AmountsSame
    <3>3. total2 = total
      <4> HIDE DEF way, way2, total, total2, trade
      <4> QED
        BY <2>3, <2>7
    <3> QED
      BY <1>2, <2>1, <3>2, <3>3, MatchTerms DEF SymbolMatches
  <2> QED
    BY <2>6, <2>7
<1>10. CASE Settles(t)
  <2>1. /\ trader[t].at = "settle" /\ trader'[t] = Idle
        /\ updatePosition(trade) /\ UNCHANGED tradeHistory
    BY <1>10 DEF Settles
  <2>2. trade \in Trade /\ trade.quantity \in Nat
    BY <1>1, <2>1, TradeQuantity
  <2>3. /\ \A s : s = trade.symbol => QuantityOf(s)' = QuantityOf(s) + trade.quantity
        /\ \A s : s # trade.symbol => QuantityOf(s)' = QuantityOf(s)
    <3> HIDE DEF trade
    <3> QED
      BY <1>1, <2>1, <2>2, SettleKeepsType
  <2>4. U2 = U \ {t}
    BY <1>5, <2>1 DEF Idle
  <2>5. CASE trade.symbol = symbol
    <3>1. t \in U /\ t \notin U2 /\ U = U2 \cup {t}
      BY <1>5, <2>1, <2>4, <2>5
    <3>2. SameTrades(trader, trader', U2)
      BY <1>5, <2>4 DEF SameTrades
    <3>3. Counted(trader', U2)
      <4>1. IsFiniteSet(U2)
        BY <1>4, <3>1, FS_Subset DEF Counted
      <4>2. \A u \in U2 : trader'[u].trade.quantity \in Nat
        BY <1>4, <1>5, <2>4 DEF Counted
      <4> QED
        BY <4>1, <4>2 DEF Counted
    <3>4. way = way2 + trade.quantity
      BY <2>2, <3>1, <3>2, <3>3, AmountsJoin
    <3>5. way2 \in Nat
      BY <3>3, AmountsNat
    <3>6. q2 = q + trade.quantity
      BY <2>3, <2>5
    <3>7. total2 = total
      BY <2>1
    <3>8. q2 + way2 = total2
      <4> HIDE DEF way, way2, total, total2, q, q2, trade
      <4> QED
        BY <1>2, <1>6, <2>2, <3>4, <3>5, <3>6, <3>7
    <3> QED
      BY <3>8, MatchTerms DEF SymbolMatches
  <2>6. CASE trade.symbol # symbol
    <3>1. t \notin U /\ U2 = U
      BY <1>5, <2>4, <2>6
    <3>2. q2 = q
      BY <2>3, <2>6
    <3> QED
      BY <1>7, <2>1, <3>1, <3>2, MatchTerms DEF SymbolMatches
  <2> QED
    BY <2>5, <2>6
<1> QED
  BY <1>3, <1>8, <1>9, <1>10

(* Traded quantities are in a position or on their way to one             *)
(* (updatePosition() under positionMutex, after simulateTrade()): no trade *)
(* is lost or counted twice between the two calls, whoever else trades,    *)
(* closes positions or delivers prices meanwhile.                          *)
THEOREM PositionsCorrect == Spec => []PositionsMatchTrades
<1>1. PositionsMatchTrades <=> \A symbol \in Symbols : SymbolMatches(symbol)
  BY DEF PositionsMatchTrades, SymbolMatches
<1>2. ASSUME Init, NEW symbol
      PROVE  SymbolMatches(symbol)
  <2>1. UnsettledIn(symbol) = {} /\ TradesIn(symbol, DOMAIN tradeHistory) = {}
    BY <1>2 DEF Init, Idle, UnsettledIn, UnsettledTraders, TradesIn
  <2>2. QuantityOf(symbol) = 0
    BY <1>2 DEF Init, RiskInit, QuantityOf
  <2> QED
    BY <2>1, <2>2, NothingUnderWay DEF SymbolMatches
<1>3. ASSUME TypeInv, [Next]_vars, NEW symbol, SymbolMatches(symbol)
      PROVE  SymbolMatches(symbol)'
  <2>1. ASSUME NEW t \in Traders, TraderStep(t)
        PROVE  SymbolMatches(symbol)'
    BY <1>3, <2>1, TraderKeepsMatch
  <2>2. CASE SetLimits \/ ClosePosition \/ UpdateMarketPrice \/ BeginSnapshot \/ AssignField
             \/ UNCHANGED vars
    <3>1. UNCHANGED <<trader, tradeHistory>> /\ QuantityOf(symbol)' = QuantityOf(symbol)
      BY <1>3, <2>2, OthersKeepType
    <3>2. UnsettledIn(symbol)' = UnsettledIn(symbol)
      BY <3>1 DEF UnsettledIn, UnsettledTraders
    <3> QED
      BY <1>3, <3>1, <3>2, MatchTerms DEF SymbolMatches
  <2> QED
    BY <1>3, <2>1, <2>2, StepKinds
<1>4. Init => PositionsMatchTrades
  BY <1>1, <1>2
<1>5. TypeInv /\ PositionsMatchTrades /\ [Next]_vars => PositionsMatchTrades'
  BY <1>3 DEF PositionsMatchTrades, SymbolMatches
<1> QED
  BY <1>4, <1>5, TypeInvariant, PTL DEF Spec, vars

-----------------------------------------------------------------------------
(* The overshoot.  OvershootBounded is not inductive: what a position can  *)
(* become depends on the traders that will still be let through, with what *)
(* they have read and a limit that may grow before they are.  For every    *)
(* limit there may be one day, the position and the quantities of all who  *)
(* were let through, or would be under that limit, exceed it by at most    *)
(* the quantities of all traders but one: the last of them that has read   *)
(* the position fitted it then.                                            *)
Through(state, symbol, limit) ==
  /\ state.at \in {"test", "trade", "settle"}
  /\ state.trade.symbol = symbol
  /\ state.at = "test" => state.read + state.trade.quantity <= limit
LetThrough(symbol, limit) == {t \in Traders : Through(trader[t], symbol, limit)}

CommitmentBounded(symbol, limit, largest) ==
  limit >= highestLimit =>
    QuantityOf(symbol) + UnderWay(LetThrough(symbol, limit))
      <= limit + (Cardinality(Traders) - 1) * largest

LEMMA LetThroughAfter ==
  ASSUME NEW t \in Traders, NEW symbol, NEW limit,
         \A other \in Traders \ {t} : trader'[other] = trader[other]
  PROVE  /\ \A u \in LetThrough(symbol, limit) \ {t} : trader'[u] = trader[u]
         /\ Through(trader'[t], symbol, limit)
              => LetThrough(symbol, limit)' = LetThrough(symbol, limit) \cup {t}
         /\ ~ Through(trader'[t], symbol, limit)
              => LetThrough(symbol, limit)' = LetThrough(symbol, limit) \ {t}
         /\ t \in LetThrough(symbol, limit) <=> Through(trader[t], symbol, limit)
<1> DEFINE before == LetThrough(symbol, limit)
           after == LetThrough(symbol, limit)'
<1>1. \A u : u \in before <=> u \in Traders /\ Through(trader[u], symbol, limit)
  BY DEF LetThrough
<1>2. \A u : u \in after <=> u \in Traders /\ Through(trader'[u], symbol, limit)
  BY DEF LetThrough, Through
<1> HIDE DEF before, after
<1>3. \A u : u # t => (u \in after <=> u \in before)
  BY <1>1, <1>2
<1>4. Through(trader'[t], symbol, limit) => after = before \cup {t}
  BY <1>2, <1>3
<1>5. ~ Through(trader'[t], symbol, limit) => after = before \ {t}
  BY <1>2, <1>3
<1>6. \A u \in before \ {t} : trader'[u] = trader[u]
  BY <1>1
<1> QED
  BY <1>1, <1>4, <1>5, <1>6 DEF before, after

LEMMA LetThroughQuantities ==
  ASSUME trader \in [Traders -> TraderState], NEW symbol, NEW limit
  PROVE  /\ LetThrough(symbol, limit) \in SUBSET Traders
         /\ Counted(trader, LetThrough(symbol, limit))
         /\ \A u \in LetThrough(symbol, limit) : trader[u].trade.quantity \in Quantities
<1>1. LetThrough(symbol, limit) \in SUBSET Traders
  BY DEF LetThrough
<1>2. \A u \in LetThrough(symbol, limit) : trader[u].at # "idle"
  BY DEF LetThrough, Through
<1>3. \A u \in LetThrough(symbol, limit) :
        trader[u].trade.quantity \in Nat /\ trader[u].trade.quantity \in Quantities
  BY <1>1, <1>2, TradeQuantity
<1>4. IsFiniteSet(LetThrough(symbol, limit))
  BY <1>1, SomeTraders
<1> QED
  BY <1>1, <1>3, <1>4 DEF Counted

(* All traders but one. *)
LEMMA OthersBounded ==
  ASSUME trader \in [Traders -> TraderState], NEW symbol, NEW limit,
         NEW t \in Traders, t \notin LetThrough(symbol, limit), NEW largest \in Nat,
         \A quantity \in Quantities : quantity <= largest
  PROVE  Amounts(trader, LetThrough(symbol, limit)) <= (Cardinality(Traders) - 1) * largest
<1> DEFINE U == LetThrough(symbol, limit)
           c == Cardinality(U)
           n == Cardinality(Traders)
<1>1. U \in SUBSET Traders /\ Counted(trader, U)
      /\ \A u \in U : trader[u].trade.quantity <= largest
  BY LetThroughQuantities
<1> HIDE DEF U
<1>2. Amounts(trader, U) <= c * largest
  BY <1>1, AmountsBounded
<1>3. c \in Nat /\ n \in Nat /\ c <= n - 1
  <2>1. U \in SUBSET (Traders \ {t})
    BY <1>1 DEF U
  <2>2. IsFiniteSet(Traders \ {t}) /\ Cardinality(Traders \ {t}) = n - 1
        /\ IsFiniteSet(Traders) /\ n \in Nat
    BY RiskDeskAssumption, FS_RemoveElement, FS_CardinalityType DEF RiskDeskAssumption
  <2>3. c <= Cardinality(Traders \ {t}) /\ c \in Nat
    BY <2>1, <2>2, FS_Subset, FS_CardinalityType
  <2> QED
    BY <2>2, <2>3
<1>4. Amounts(trader, U) \in Nat
  BY <1>1, AmountsNat
<1>5. c * largest <= (n - 1) * largest
  <2> HIDE DEF c, n
  <2>1. PICK d \in Nat : n - 1 = c + d
    <3>1. n - 1 - c \in Nat /\ n - 1 = c + (n - 1 - c)
      BY <1>3
    <3> QED
      BY <3>1
  <2>2. (c + d) * largest = c * largest + d * largest /\ d * largest \in Nat
        /\ c * largest \in Nat
    BY <1>3
  <2> QED
    BY <2>1, <2>2
<1>6. c * largest \in Nat /\ (n - 1) * largest \in Int
  <2> HIDE DEF c, n
  <2> QED
    BY <1>3
<1> DEFINE a == Amounts(trader, U)
           x == c * largest
           y == (n - 1) * largest
<1>7. a <= y
  <2> HIDE DEF a, x, y
  <2>1. a \in Nat /\ x \in Nat /\ y \in Int /\ a <= x /\ x <= y
    BY <1>2, <1>4, <1>5, <1>6 DEF a, x, y
  <2> QED
    BY <2>1
<1> QED
  BY <1>7 DEF U

LEMMA TraderKeepsCommitment ==
  ASSUME TypeInv, NEW t \in Traders, TraderStep(t),
         NEW symbol, NEW limit \in Nat, NEW largest \in Nat,
         \A quantity \in Quantities : quantity <= largest,
         limit >= highestLimit, CommitmentBounded(symbol, limit, largest)
  PROVE  CommitmentBounded(symbol, limit, largest)'
<1> DEFINE U == LetThrough(symbol, limit)
           U2 == LetThrough(symbol, limit)'
           trade == trader[t].trade
           way == Amounts(trader, U)
           way2 == Amounts(trader', U2)
           bound == (Cardinality(Traders) - 1) * largest
           q == QuantityOf(symbol)
           q2 == QuantityOf(symbol)'
<1>1. trader \in [Traders -> TraderState] /\ tradeHistory \in Seq(Trade) /\ RiskTypeOK
      /\ positions \in [DOMAIN positions -> Position]
  BY DEF TypeInv, RiskTypeOK
<1>2. q + way <= limit + bound
  BY DEF CommitmentBounded, UnderWay, Amounts
<1>3. /\ \A other \in Traders \ {t} : trader'[other] = trader[other]
      /\ UNCHANGED <<maxPositionSize, highestLimit>>
      /\ MovesOn(t) \/ Records(t) \/ Settles(t)
  BY TraderEffects
<1>4. U \in SUBSET Traders /\ Counted(trader, U) /\ way \in Nat
  BY <1>1, LetThroughQuantities, AmountsNat
<1>5. /\ \A u \in U \ {t} : trader'[u] = trader[u]
      /\ Through(trader'[t], symbol, limit) => U2 = U \cup {t}
      /\ ~ Through(trader'[t], symbol, limit) => U2 = U \ {t}
      /\ t \in U <=> Through(trader[t], symbol, limit)
  BY <1>3, LetThroughAfter
<1>6. q \in Nat /\ bound \in Int
  <2>1. Cardinality(Traders) \in Nat
    BY SomeTraders
  <2> QED
    BY <1>1, <2>1, QuantityType
<1>7. q2 + way2 <= limit + bound => CommitmentBounded(symbol, limit, largest)'
  BY DEF CommitmentBounded, UnderWay, Amounts
<1>8. UNCHANGED positions => q2 = q
  BY DEF QuantityOf
\* The trader stays in the set or out of it, ...
<1>9. ASSUME Through(trader'[t], symbol, limit) <=> Through(trader[t], symbol, limit),
             t \in U => trader'[t].trade = trader[t].trade
      PROVE  way2 = way
  <2>1. U2 = U
    BY <1>5, <1>9
  <2>2. SameTrades(trader', trader, U)
    BY <1>5, <1>9 DEF SameTrades
  <2> QED
    BY <1>4, <2>1, <2>2, AmountsSame
\* ... or leaves it with its quantity.
<1>10. ASSUME ~ Through(trader'[t], symbol, limit), Through(trader[t], symbol, limit),
              trade.quantity \in Nat
       PROVE  way2 \in Nat /\ way = way2 + trade.quantity
  <2>1. t \in U /\ t \notin U2 /\ U = U2 \cup {t}
    BY <1>5, <1>10
  <2>2. SameTrades(trader, trader', U2)
    BY <1>5, <1>10 DEF SameTrades
  <2>3. Counted(trader', U2)
    <3>1. IsFiniteSet(U2)
      BY <1>4, <2>1, FS_Subset DEF Counted
    <3>2. \A u \in U2 : trader'[u].trade.quantity \in Nat
      BY <1>4, <1>5, <1>10 DEF Counted
    <3> QED
      BY <3>1, <3>2 DEF Counted
  <2>4. way = way2 + trade.quantity
    BY <1>10, <2>1, <2>2, <2>3, AmountsJoin
  <2>5. way2 \in Nat
    BY <2>3, AmountsNat
  <2> QED
    BY <2>4, <2>5
<1>11. CASE MovesOn(t) /\ trader[t].at = "idle" /\ trader'[t].at = "read"
  <2>1. ~ Through(trader'[t], symbol, limit) /\ ~ Through(trader[t], symbol, limit)
    BY <1>11 DEF Through
  <2>2. way2 = way
    BY <1>5, <1>9, <2>1
  <2> QED
    BY <1>2, <1>7, <1>8, <1>11, <2>2 DEF MovesOn
<1>12. CASE MovesOn(t) /\ Reads(t)
  <2>1. trader[t].at = "read" /\ ~ Through(trader[t], symbol, limit) /\ q2 = q
    BY <1>8, <1>12 DEF MovesOn, Reads, Through
  <2>2. trade.quantity \in Nat
    BY <1>1, <2>1, TradeQuantity
  <2>3. /\ trader'[t].at = "test" /\ trader'[t].trade = trade
        /\ trader'[t].read = QuantityOf(trade.symbol)
    BY <1>12 DEF Reads
  <2>4. CASE Through(trader'[t], symbol, limit)
    <3>1. q + trade.quantity <= limit
      BY <2>3, <2>4 DEF Through
    <3>2. t \notin U /\ U2 = U \cup {t}
      BY <1>5, <2>1, <2>4
    <3>3. SameTrades(trader', trader, U)
      BY <1>5, <3>2 DEF SameTrades
    <3>4. trade.quantity = trader'[t].trade.quantity
      BY <2>3
    <3>5. way2 = way + trade.quantity
      BY <1>4, <2>2, <3>2, <3>3, <3>4, AmountsJoin
    <3>6. way <= bound
      BY <1>1, <3>2, OthersBounded
    <3>7. q2 + way2 <= limit + bound
      <4>1. q2 = q
        BY <2>1
      <4> HIDE DEF way, way2, q, q2, bound, trade
      <4> QED
        BY <1>4, <1>6, <2>2, <3>1, <3>5, <3>6, <4>1
    <3> QED
      BY <1>7, <3>7
  <2>5. CASE ~ Through(trader'[t], symbol, limit)
    <3>1. way2 = way
      BY <1>5, <1>9, <2>1, <2>5
    <3> QED
      BY <1>2, <1>7, <2>1, <3>1
  <2> QED
    BY <2>4, <2>5
<1>13. CASE MovesOn(t) /\ PassesSecondTest(t)
  <2>1. /\ trader[t].at = "test" /\ trader'[t] = [at |-> "trade", trade |-> trade]
        /\ trader[t].read + trade.quantity <= maxPositionSize /\ q2 = q
    BY <1>8, <1>13 DEF MovesOn, PassesSecondTest, Fits
  <2>2. trader[t].read + trade.quantity <= limit
    <3>1. maxPositionSize \in Nat /\ highestLimit \in Nat /\ maxPositionSize <= highestLimit
      BY NatConstants DEF TypeInv, RiskTypeOK
    <3>2. trader[t].read \in Nat /\ trade.quantity \in Nat
      BY <1>1, <2>1, TraderFacts, TradeQuantity
    <3> HIDE DEF trade
    <3> QED
      BY <2>1, <3>1, <3>2
  <2>3. Through(trader'[t], symbol, limit) <=> Through(trader[t], symbol, limit)
    BY <2>1, <2>2 DEF Through
  <2>4. way2 = way
    BY <1>9, <2>1, <2>3
  <2> QED
    BY <1>2, <1>7, <2>1, <2>4
<1>14. ASSUME UNCHANGED positions, trader'[t] = Idle, trader[t].at # "idle"
       PROVE  q2 + way2 <= limit + bound
  <2>1. ~ Through(trader'[t], symbol, limit) /\ q2 = q
    BY <1>8, <1>14 DEF Through, Idle
  <2>2. trade.quantity \in Nat
    BY <1>1, <1>14, TradeQuantity
  <2>3. CASE Through(trader[t], symbol, limit)
    <3>1. way2 \in Nat /\ way = way2 + trade.quantity
      BY <1>10, <2>1, <2>2, <2>3
    <3>2. q2 = q
      BY <2>1
    <3> HIDE DEF way, way2, q, q2, bound, trade
    <3> QED
      BY <1>2, <1>6, <2>2, <3>1, <3>2
  <2>4. CASE ~ Through(trader[t], symbol, limit)
    <3>1. way2 = way
      BY <1>5, <1>9, <2>1, <2>4
    <3> QED
      BY <1>2, <2>1, <3>1
  <2> QED
    BY <2>3, <2>4
<1>15. CASE MovesOn(t) /\ trader[t].at = "test" /\ trader'[t] = Idle
  BY <1>7, <1>14, <1>15 DEF MovesOn
<1>16. CASE Records(t)
  <2>1. /\ trader[t].at = "trade" /\ trader'[t] = [at |-> "settle", trade |-> trade]
        /\ q2 = q
    BY <1>8, <1>16 DEF Records
  <2>2. Through(trader'[t], symbol, limit) <=> Through(trader[t], symbol, limit)
    BY <2>1 DEF Through
  <2>3. way2 = way
    BY <1>9, <2>1, <2>2
  <2> QED
    BY <1>2, <1>7, <2>1, <2>3
<1>17. CASE Settles(t)
  <2>1. trader[t].at = "settle" /\ trader'[t] = Idle /\ updatePosition(trade)
    BY <1>17 DEF Settles
  <2>2. trade \in Trade /\ trade.quantity \in Nat
    BY <1>1, <2>1, TradeQuantity
  <2>3. /\ \A s : s = trade.symbol => QuantityOf(s)' = QuantityOf(s) + trade.quantity
        /\ \A s : s # trade.symbol => QuantityOf(s)' = QuantityOf(s)
    <3> HIDE DEF trade
    <3> QED
      BY <1>1, <2>1, <2>2, SettleKeepsType
  <2>4. ~ Through(trader'[t], symbol, limit)
    BY <2>1 DEF Through, Idle
  <2>5. CASE trade.symbol = symbol
    <3>1. Through(trader[t], symbol, limit)
      BY <2>1, <2>5 DEF Through
    <3>2. way2 \in Nat /\ way = way2 + trade.quantity
      BY <1>10, <2>2, <2>4, <3>1
    <3>3. q2 = q + trade.quantity
      BY <2>3, <2>5
    <3>4. q2 + way2 <= limit + bound
      <4> HIDE DEF way, way2, q, q2, bound, trade
      <4> QED
        BY <1>2, <1>6, <2>2, <3>2, <3>3
    <3> QED
      BY <1>7, <3>4
  <2>6. CASE trade.symbol # symbol
    <3>1. ~ Through(trader[t], symbol, limit)
      BY <2>6 DEF Through
    <3>2. way2 = way
      BY <1>5, <1>9, <2>4, <3>1
    <3>3. q2 = q
      BY <2>3, <2>6
    <3> QED
      BY <1>2, <1>7, <3>2, <3>3
  <2> QED
    BY <2>5, <2>6
<1> QED
  BY <1>3, <1>11, <1>12, <1>13, <1>15, <1>16, <1>17 DEF MovesOn

CommitmentsBounded ==
  \A symbol \in Symbols, limit \in Nat, largest \in Nat :
    (\A quantity \in Quantities : quantity <= largest)
      => CommitmentBounded(symbol, limit, largest)

LEMMA CommitmentsInvariant == Spec => []CommitmentsBounded
<1>1. ASSUME Init
      PROVE  CommitmentsBounded
  <2> SUFFICES ASSUME NEW symbol \in Symbols, NEW limit \in Nat, NEW largest \in Nat,
                      limit >= highestLimit
               PROVE  QuantityOf(symbol) + UnderWay(LetThrough(symbol, limit))
                        <= limit + (Cardinality(Traders) - 1) * largest
    BY DEF CommitmentsBounded, CommitmentBounded
  <2>1. LetThrough(symbol, limit) = {}
    BY <1>1 DEF Init, Idle, LetThrough, Through
  <2>2. QuantityOf(symbol) = 0
    BY <1>1 DEF Init, RiskInit, QuantityOf
  <2>3. Cardinality(Traders) - 1 \in Nat
    <3>1. IsFiniteSet(Traders) /\ Traders # {}
      BY RiskDeskAssumption DEF RiskDeskAssumption
    <3>2. Cardinality(Traders) \in Nat /\ Cardinality(Traders) # 0
      BY <3>1, FS_CardinalityType, FS_EmptySet
    <3> QED
      BY <3>2
  <2>4. (Cardinality(Traders) - 1) * largest \in Nat
    BY <2>3
  <2> QED
    BY <2>1, <2>2, <2>4, NothingUnderWay
<1>2. ASSUME TypeInv, CommitmentsBounded, [Next]_vars
      PROVE  CommitmentsBounded'
  <2> SUFFICES ASSUME NEW symbol \in Symbols, NEW limit \in Nat, NEW largest \in Nat,
                      \A quantity \in Quantities : quantity <= largest,
                      (limit >= highestLimit)'
               PROVE  CommitmentBounded(symbol, limit, largest)'
    BY DEF CommitmentsBounded, CommitmentBounded
  <2>1. CommitmentBounded(symbol, limit, largest)
    BY <1>2 DEF CommitmentsBounded
  <2>2. ASSUME NEW t \in Traders, TraderStep(t)
        PROVE  CommitmentBounded(symbol, limit, largest)'
    <3>1. UNCHANGED highestLimit
      BY <1>2, <2>2, TraderEffects
    <3> QED
      BY <1>2, <2>1, <2>2, <3>1, TraderKeepsCommitment
  <2>3. CASE SetLimits \/ ClosePosition \/ UpdateMarketPrice \/ BeginSnapshot \/ AssignField
             \/ UNCHANGED vars
    <3>1. /\ UNCHANGED trader /\ QuantityOf(symbol)' = QuantityOf(symbol)
          /\ highestLimit' >= highestLimit /\ TypeInv'
      BY <1>2, <2>3, OthersKeepType
    <3>2. highestLimit \in Nat /\ highestLimit' \in Nat
      BY <1>2, <3>1, NatConstants DEF TypeInv, RiskTypeOK
    <3>3. limit >= highestLimit
      BY <3>1, <3>2
    <3>4. UnderWay(LetThrough(symbol, limit))' = UnderWay(LetThrough(symbol, limit))
      BY <3>1 DEF UnderWay, LetThrough, Through
    <3> QED
      BY <2>1, <3>1, <3>3, <3>4 DEF CommitmentBounded
  <2> QED
    BY <1>2, <2>2, <2>3, StepKinds
<1> QED
  BY <1>1, <1>2, TypeInvariant, PTL DEF Spec, vars

(* canOpenPosition() and the updatePosition() it is asked for are not one  *)
(* step, and several threads may pass the test on the same position: a     *)
(* position exceeds the greatest limit there has been by at most one trade *)
(* of every thread but one, however often the limit changed.               *)
THEOREM OvershootIsBounded == Spec => []OvershootBounded
<1>1. ASSUME TypeInv, CommitmentsBounded
      PROVE  OvershootBounded
  <2> SUFFICES ASSUME NEW symbol \in Symbols, NEW largest \in Quantities,
                      \A quantity \in Quantities : quantity <= largest
               PROVE  QuantityOf(symbol)
                        <= highestLimit + (Cardinality(Traders) - 1) * largest
    BY DEF OvershootBounded
  <2>1. highestLimit \in Nat /\ largest \in Nat
    BY <1>1, NatConstants DEF TypeInv, RiskTypeOK
  <2> DEFINE q == QuantityOf(symbol)
             way == UnderWay(LetThrough(symbol, highestLimit))
             bound == (Cardinality(Traders) - 1) * largest
  <2>2. highestLimit >= highestLimit
    BY <2>1
  <2>3. q + way <= highestLimit + bound
    BY <1>1, <2>1, <2>2 DEF CommitmentsBounded, CommitmentBounded
  <2>4. q \in Nat /\ way \in Nat
    BY <1>1, QuantityType, LetThroughQuantities, AmountsNat, SumsOfState DEF TypeInv
  <2>5. bound \in Int
    <3>1. Cardinality(Traders) \in Nat
      BY SomeTraders
    <3> QED
      BY <2>1, <3>1
  <2> HIDE DEF q, way, bound
  <2>6. q <= highestLimit + bound
    BY <2>1, <2>3, <2>4, <2>5
  <2> QED
    BY <2>6 DEF q, bound
<1> QED
  BY <1>1, TypeInvariant, CommitmentsInvariant, PTL

-----------------------------------------------------------------------------
(* Snapshots.  From the moment the positions are assigned, they hold no    *)
(* more than the trades there are; and then no more than the first         *)
(* totalTrades of them.                                                    *)
HoldsAtMost(trades, n) ==
  \A symbol \in DOMAIN portfolio.positions :
    portfolio.positions[symbol].quantity
      <= Totals(trades, {i \in 1 .. n : trades[i].symbol = symbol})

SnapshotInv ==
  /\ portfolio = [field \in DOMAIN Portfolio |-> portfolio[field]]
  /\ \A symbol \in DOMAIN portfolio.positions : portfolio.positions[symbol].quantity \in Nat
  /\ assigned = 4 => HoldsAtMost(tradeHistory, Len(tradeHistory))
  /\ assigned = 5 => /\ portfolio.totalTrades \in 0 .. Len(tradeHistory)
                     /\ HoldsAtMost(tradeHistory, portfolio.totalTrades)

LEMMA FieldFacts ==
  /\ Len(Fields) = 5
  /\ DOMAIN Portfolio = {"availableBalance", "totalPnL", "unrealizedPnL", "positions", "totalTrades"}
  /\ \A n \in 0 .. 4 :
       FieldAt(n + 1) = CASE n = 0 -> "availableBalance" [] n = 1 -> "totalPnL"
                          [] n = 2 -> "unrealizedPnL" [] n = 3 -> "positions"
                          [] n = 4 -> "totalTrades"
BY DEF Fields, Portfolio, FieldAt

LEMMA SnapshotInit == Init => SnapshotInv
<1> SUFFICES ASSUME Init PROVE SnapshotInv
  OBVIOUS
<1>1. portfolio = Portfolio /\ tradeHistory = <<>>
  BY DEF Init
<1>2. DOMAIN portfolio.positions = {} /\ portfolio.totalTrades = 0
  BY <1>1 DEF Portfolio
<1>3. portfolio = [field \in DOMAIN Portfolio |-> portfolio[field]]
  BY <1>1 DEF Portfolio
<1> QED
  BY <1>1, <1>2, <1>3 DEF SnapshotInv, HoldsAtMost

LEMMA HistoryKeepsSnapshot ==
  ASSUME SnapshotInv, TypeInv, NEW trade \in Trade,
         tradeHistory' = Append(tradeHistory, trade), UNCHANGED <<portfolio, assigned>>
  PROVE  SnapshotInv'
<1> DEFINE n == Len(tradeHistory)
           held == portfolio.positions
<1>1. tradeHistory \in Seq(Trade) /\ n \in Nat /\ Len(tradeHistory') = n + 1
  BY DEF TypeInv, RiskTypeOK
<1>2. trade.quantity \in Nat
  BY NatConstants DEF Trade
<1>3. ASSUME assigned = 4, NEW symbol \in DOMAIN held
      PROVE  held[symbol].quantity
               <= Totals(tradeHistory', {i \in 1 .. n + 1 : tradeHistory'[i].symbol = symbol})
  <2> DEFINE before == Totals(tradeHistory, Of(tradeHistory, symbol))
             after == Totals(tradeHistory', Of(tradeHistory', symbol))
  <2>1. /\ Of(tradeHistory, symbol) = {i \in 1 .. n : tradeHistory[i].symbol = symbol}
        /\ Of(tradeHistory', symbol) = {i \in 1 .. n + 1 : tradeHistory'[i].symbol = symbol}
    BY <1>1 DEF Of
  <2>2. held[symbol].quantity <= before /\ held[symbol].quantity \in Nat
    BY <1>3, <2>1 DEF SnapshotInv, HoldsAtMost
  <2>3. before \in Nat
        /\ after = before + (IF trade.symbol = symbol THEN trade.quantity ELSE 0)
    BY <1>1, TotalsAppend
  <2>4. before <= after /\ after \in Nat
    <3> HIDE DEF before, after
    <3> QED
      BY <1>2, <2>3
  <2>5. held[symbol].quantity <= after
    <3> DEFINE quantity == held[symbol].quantity
    <3> HIDE DEF before, after, quantity
    <3>1. quantity <= before /\ quantity \in Nat
      BY <2>2 DEF quantity
    <3>2. quantity <= after
      BY <2>3, <2>4, <3>1
    <3> QED
      BY <3>2 DEF quantity
  <2> QED
    BY <2>1, <2>5
<1>4. ASSUME assigned = 5, NEW symbol \in DOMAIN held
      PROVE  held[symbol].quantity
               <= Totals(tradeHistory', {i \in 1 .. portfolio.totalTrades : tradeHistory'[i].symbol = symbol})
  <2>1. portfolio.totalTrades \in 0 .. n
    BY <1>4 DEF SnapshotInv
  <2>2. Totals(tradeHistory', {i \in 1 .. portfolio.totalTrades : tradeHistory'[i].symbol = symbol})
          = Totals(tradeHistory, {i \in 1 .. portfolio.totalTrades : tradeHistory[i].symbol = symbol})
    <3> DEFINE first == {i \in 1 .. portfolio.totalTrades : tradeHistory[i].symbol = symbol}
               first2 == {i \in 1 .. portfolio.totalTrades : tradeHistory'[i].symbol = symbol}
    <3>1. \A i \in 1 .. portfolio.totalTrades : tradeHistory'[i] = tradeHistory[i]
      BY <1>1, <2>1
    <3>2. first2 = first
      BY <3>1
    <3>3. [i \in first2 |-> tradeHistory'[i].quantity] = [i \in first |-> tradeHistory[i].quantity]
      BY <3>1, <3>2
    <3> QED
      BY <3>3 DEF Totals
  <2> QED
    BY <1>4, <2>2 DEF SnapshotInv, HoldsAtMost
<1>6. assigned' = 5 => portfolio'.totalTrades \in 0 .. Len(tradeHistory')
  BY <1>1 DEF SnapshotInv
<1>7. assigned' = 5 => HoldsAtMost(tradeHistory, portfolio.totalTrades)'
  BY <1>4 DEF HoldsAtMost
<1>8. assigned' = 4 => HoldsAtMost(tradeHistory, Len(tradeHistory))'
  BY <1>1, <1>3 DEF HoldsAtMost
<1> QED
  BY <1>6, <1>7, <1>8 DEF SnapshotInv

LEMMA AssignKeepsSnapshot ==
  ASSUME SnapshotInv, TypeInv, PositionsMatchTrades, AssignField
  PROVE  SnapshotInv'
<1> DEFINE field == FieldAt(assigned + 1)
<1>1. /\ assigned \in 0 .. 4 /\ assigned' = assigned + 1
      /\ portfolio' = [portfolio EXCEPT ![field] = ValueOf(field)]
      /\ UNCHANGED <<positions, tradeHistory>>
  BY FieldFacts DEF AssignField, TypeInv, RiskTypeOK, riskVars
<1>2. /\ portfolio = [f \in DOMAIN Portfolio |-> portfolio[f]]
      /\ \A symbol \in DOMAIN portfolio.positions : portfolio.positions[symbol].quantity \in Nat
      /\ assigned = 4 => HoldsAtMost(tradeHistory, Len(tradeHistory))
  BY DEF SnapshotInv
<1>3. /\ portfolio' = [f \in DOMAIN Portfolio |-> portfolio'[f]]
      /\ portfolio'[field] = ValueOf(field)
      /\ \A f \in DOMAIN Portfolio \ {field} : portfolio'[f] = portfolio[f]
  <2>1. field \in DOMAIN Portfolio
    BY <1>1, FieldFacts
  <2> HIDE DEF field
  <2> QED
    BY <1>1, <1>2, <2>1
<1>4. CASE assigned < 3
  <2>1. field \notin {"positions", "totalTrades"}
    BY <1>1, <1>4, FieldFacts
  <2>2. portfolio'.positions = portfolio.positions
    BY <1>3, <2>1, FieldFacts
  <2>3. assigned' # 4 /\ assigned' # 5
    BY <1>1, <1>4
  <2> QED
    BY <1>2, <1>3, <2>2, <2>3 DEF SnapshotInv
<1>5. CASE assigned = 3
  <2>1. field = "positions" /\ assigned' = 4
    BY <1>1, <1>5, FieldFacts
  <2>2. portfolio'.positions = positions
    BY <1>3, <2>1 DEF ValueOf
  <2>3. ASSUME NEW symbol \in DOMAIN positions
        PROVE  /\ positions[symbol].quantity \in Nat
               /\ positions[symbol].quantity
                    <= Totals(tradeHistory, {i \in 1 .. Len(tradeHistory) : tradeHistory[i].symbol = symbol})
    <3> DEFINE way == UnderWay(UnsettledIn(symbol))
               q == positions[symbol].quantity
               total == Totals(tradeHistory, {i \in 1 .. Len(tradeHistory) : tradeHistory[i].symbol = symbol})
    <3>1. tradeHistory \in Seq(Trade) /\ DOMAIN positions \subseteq RecordedSymbols
          /\ RiskTypeOK /\ trader \in [Traders -> TraderState]
      BY DEF TypeInv, RiskTypeOK
    <3>2. symbol \in Symbols
      <4>1. \A i \in DOMAIN tradeHistory : tradeHistory[i] \in Trade
        BY <3>1
      <4> QED
        BY <2>3, <3>1, <4>1 DEF RecordedSymbols, Trade
    <3>3. q = QuantityOf(symbol)
      BY <2>3 DEF QuantityOf
    <3>4. q \in Nat
      BY <3>1, <3>3, QuantityType
    <3>5. way \in Nat
      BY <3>1, UnsettledQuantities, AmountsNat, SumsOfState
    <3>6. q + way = total
      <4>1. DOMAIN tradeHistory = 1 .. Len(tradeHistory)
        BY <3>1
      <4>2. QuantityOf(symbol) + way = Recorded(TradesIn(symbol, DOMAIN tradeHistory))
        BY <3>2 DEF PositionsMatchTrades
      <4> QED
        BY <3>3, <4>1, <4>2 DEF Recorded, TradesIn, Totals
    <3> HIDE DEF way, q, total
    <3>7. q <= total
      BY <3>4, <3>5, <3>6
    <3> QED
      BY <3>4, <3>7 DEF q, total
  <2>4. HoldsAtMost(tradeHistory, Len(tradeHistory))'
    BY <1>1, <2>2, <2>3 DEF HoldsAtMost
  <2>5. \A symbol \in DOMAIN portfolio'.positions : portfolio'.positions[symbol].quantity \in Nat
    BY <2>2, <2>3
  <2>6. portfolio' = [f \in DOMAIN Portfolio |-> portfolio'[f]]
    BY <1>3
  <2>7. ~(assigned' = 5)
    BY <2>1
  <2> QED
    BY <2>4, <2>5, <2>6, <2>7 DEF SnapshotInv
<1>6. CASE assigned = 4
  <2>1. field = "totalTrades" /\ assigned' = 5
    BY <1>1, <1>6, FieldFacts
  <2>2. portfolio'.positions = portfolio.positions
    BY <1>3, <2>1, FieldFacts
  <2>3. portfolio'.totalTrades = Len(tradeHistory)
    BY <1>3, <2>1 DEF ValueOf
  <2>4. HoldsAtMost(tradeHistory, portfolio.totalTrades)'
    BY <1>1, <1>2, <1>6, <2>2, <2>3 DEF HoldsAtMost
  <2>5. Len(tradeHistory) \in Nat
    BY DEF TypeInv, RiskTypeOK
  <2>6. portfolio'.totalTrades \in 0 .. Len(tradeHistory')
    BY <1>1, <2>3, <2>5
  <2>7. \A symbol \in DOMAIN portfolio'.positions : portfolio'.positions[symbol].quantity \in Nat
    BY <1>2, <2>2
  <2>8. portfolio' = [f \in DOMAIN Portfolio |-> portfolio'[f]]
    BY <1>3
  <2>9. ~(assigned' = 4)
    BY <2>1
  <2> QED
    BY <2>4, <2>6, <2>7, <2>8, <2>9 DEF SnapshotInv
<1> QED
  BY <1>1, <1>4, <1>5, <1>6

LEMMA SnapshotStep ==
  ASSUME SnapshotInv, TypeInv, PositionsMatchTrades, [Next]_vars
  PROVE  SnapshotInv'
<1>1. ASSUME UNCHANGED <<tradeHistory, portfolio, assigned>>
      PROVE  SnapshotInv'
  <2>1. tradeHistory' = tradeHistory /\ portfolio' = portfolio /\ assigned' = assigned
    BY <1>1
  <2>2. HoldsAtMost(tradeHistory, Len(tradeHistory))' = HoldsAtMost(tradeHistory, Len(tradeHistory))
    BY <2>1 DEF HoldsAtMost, Totals
  <2>3. HoldsAtMost(tradeHistory, portfolio.totalTrades)'
          = HoldsAtMost(tradeHistory, portfolio.totalTrades)
    BY <2>1 DEF HoldsAtMost, Totals
  <2> QED
    BY <2>1, <2>2, <2>3 DEF SnapshotInv
<1>2. ASSUME NEW t \in Traders, TraderStep(t)
      PROVE  SnapshotInv'
  <2>1. /\ UNCHANGED <<portfolio, assigned>>
        /\ MovesOn(t) \/ Records(t) \/ Settles(t)
    BY <1>2, TraderEffects
  <2>2. CASE Records(t)
    <3>1. trader[t].trade \in Trade
      BY <2>2, TradeQuantity DEF Records, TypeInv
    <3> QED
      BY <2>1, <2>2, <3>1, HistoryKeepsSnapshot DEF Records
  <2>3. CASE MovesOn(t) \/ Settles(t)
    <3>1. UNCHANGED tradeHistory
      BY <2>3 DEF MovesOn, Settles
    <3> QED
      BY <1>1, <2>1, <3>1
  <2> QED
    BY <2>1, <2>2, <2>3
<1>3. CASE SetLimits \/ ClosePosition \/ UpdateMarketPrice \/ UNCHANGED vars
  BY <1>1, <1>3 DEF SetLimits, ClosePosition, UpdateMarketPrice, vars, deskVars
<1>4. CASE BeginSnapshot
  <2>1. portfolio' = Portfolio /\ assigned' = 0
    BY <1>4 DEF BeginSnapshot
  <2>2. DOMAIN portfolio'.positions = {}
        /\ portfolio' = [field \in DOMAIN Portfolio |-> portfolio'[field]]
    BY <2>1 DEF Portfolio
  <2> QED
    BY <2>1, <2>2 DEF SnapshotInv
<1> QED
  BY <1>2, <1>3, <1>4, AssignKeepsSnapshot, StepKinds

(* getPortfolioSnapshot() takes positionMutex anew for every field and     *)
(* reads the counter of trades last: a snapshot that is finished counts    *)
(* every trade that its positions hold, whatever is traded meanwhile.      *)
THEOREM SnapshotsCount == Spec => []SnapshotCountsItsTrades
<1>1. ASSUME SnapshotInv
      PROVE  SnapshotCountsItsTrades
  BY <1>1, FieldFacts DEF SnapshotInv, HoldsAtMost, SnapshotCountsItsTrades, Recorded, Totals, TradesIn
<1>2. Init => SnapshotInv
  BY SnapshotInit
<1>3. SnapshotInv /\ TypeInv /\ PositionsMatchTrades /\ [Next]_vars => SnapshotInv'
  BY SnapshotStep
<1> QED
  BY <1>1, <1>2, <1>3, TypeInvariant, PositionsCorrect, PTL DEF Spec, vars
=============================================================================
