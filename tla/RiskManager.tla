------------------------------ MODULE RiskManager ------------------------------
(***************************************************************************)
(* The risk manager: positions by symbol, the limit on their size, and the *)
(* sums taken over them.  Every method that changes the positions holds    *)
(* positionMutex from its first to its last line.  The limits have no      *)
(* mutex.  The realised P&L, the balance and the drawdown are initialised  *)
(* and never assigned, so they are constants here (0 and the balance).     *)
(***************************************************************************)
EXTENDS Integers, Sequences, FiniteSets, Functions

CONSTANTS
  Symbols,
  Limits,         (* the values of maxPositionSize                          *)
  Quantities,     (* of a trade                                             *)
  Prices,
  Indeterminate   (* what a double that nobody initialised may turn out as  *)

ASSUME RiskAssumption ==
  /\ Limits \subseteq Nat
  /\ Quantities \subseteq Nat
  /\ Prices \subseteq Nat
  /\ Indeterminate \subseteq Int

VARIABLES
  maxPositionSize,   (* the one limit that a decision about positions reads *)
  positions          (* std::map from the symbols that have a position      *)

riskVars == <<maxPositionSize, positions>>

OrderSide == {"BUY", "SELL"}
PositionStatus == {"OPEN", "CLOSED"}
Trade == [symbol : Symbols, side : OrderSide, quantity : Quantities, price : Prices]
Position == [side : OrderSide, quantity : Nat, avgEntryPrice : Nat,
             status : PositionStatus, unrealizedPnL : Int]

RiskInit ==
  /\ maxPositionSize \in Limits
  /\ positions = [symbol \in {} |-> 0]

setRiskLimits(limit) ==
  /\ maxPositionSize' = limit
  /\ UNCHANGED positions

-----------------------------------------------------------------------------
WithPosition(symbol, position) ==
  positions' = [s \in DOMAIN positions \cup {symbol} |->
                  IF s = symbol THEN position ELSE positions[s]]

\* Mutated form: a trade replaces the quantity of the position.
IncreasedOverwriting(position, trade) == [position EXCEPT !.quantity = trade.quantity]

(* A trade of a symbol that has a position adds its quantity, whatever its *)
(* side, its price and the status of the position.                         *)
Increased(position, trade) == [position EXCEPT !.quantity = @ + trade.quantity]

(* The first trade of a symbol opens its position.  Position is a plain    *)
(* struct and unrealizedPnL is none of the members that are assigned.      *)
updatePosition(trade) ==
  /\ IF trade.symbol \in DOMAIN positions
     THEN WithPosition(trade.symbol, Increased(positions[trade.symbol], trade))
     ELSE \E anything \in Indeterminate :
            WithPosition(trade.symbol,
                         [side |-> trade.side, quantity |-> trade.quantity,
                          avgEntryPrice |-> trade.price, status |-> "OPEN",
                          unrealizedPnL |-> anything])
  /\ UNCHANGED maxPositionSize

\* Mutated form: closing a position forgets it.
closePositionErasing(symbol) ==
  /\ symbol \in DOMAIN positions
  /\ positions' = [s \in DOMAIN positions \ {symbol} |-> positions[s]]
  /\ UNCHANGED maxPositionSize

closePosition(symbol) ==
  /\ symbol \in DOMAIN positions
  /\ WithPosition(symbol, [positions[symbol] EXCEPT !.status = "CLOSED"])
  /\ UNCHANGED maxPositionSize

PnLAt(position, price) ==
  position.quantity * (IF position.side = "BUY" THEN price - position.avgEntryPrice
                                                ELSE position.avgEntryPrice - price)

updateMarketPrice(symbol, price) ==
  /\ symbol \in DOMAIN positions
  /\ WithPosition(symbol, [positions[symbol] EXCEPT !.unrealizedPnL =
                             PnLAt(positions[symbol], price)])
  /\ UNCHANGED maxPositionSize

-----------------------------------------------------------------------------
(* getPosition(symbol).quantity: a symbol without a position gets the      *)
(* value-initialised one.                                                  *)
QuantityOf(symbol) == IF symbol \in DOMAIN positions THEN positions[symbol].quantity ELSE 0

getRealizedPnL == 0

getUnrealizedPnL ==
  SumFunction([symbol \in {s \in DOMAIN positions : positions[s].status = "OPEN"} |->
                 positions[symbol].unrealizedPnL])
=============================================================================
