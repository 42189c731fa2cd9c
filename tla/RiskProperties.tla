---------------------------- MODULE RiskProperties ----------------------------
(***************************************************************************)
(* What must hold of the risk manager, and what is said of it and does     *)
(* not.                                                                    *)
(***************************************************************************)
EXTENDS RiskDesk

RecordedSymbols == {tradeHistory[i].symbol : i \in DOMAIN tradeHistory}
UnsettledTraders == {t \in Traders : trader[t].at = "settle"}

(* What the traders in a set, and the trades at a set of places of the     *)
(* history, add up to.                                                     *)
UnderWay(traders) == SumFunction([t \in traders |-> trader[t].trade.quantity])
Recorded(places) == SumFunction([i \in places |-> tradeHistory[i].quantity])
UnsettledIn(symbol) == {t \in UnsettledTraders : trader[t].trade.symbol = symbol}
TradesIn(symbol, places) == {i \in places : tradeHistory[i].symbol = symbol}

(* Type correctness; a symbol has a position from the moment its first     *)
(* trade is settled, and for ever.                                         *)
RiskTypeOK ==
  /\ maxPositionSize \in Limits
  /\ DOMAIN positions \subseteq RecordedSymbols
  /\ RecordedSymbols \ DOMAIN positions \subseteq {trader[t].trade.symbol : t \in UnsettledTraders}
  /\ positions \in [DOMAIN positions -> Position]
  /\ tradeHistory \in Seq(Trade)
  /\ assigned \in 0 .. Len(Fields)
  /\ highestLimit \in Limits

(* Traded quantities are in a position or on their way to one: for every   *)
(* symbol the position and the trades recorded but not yet settled add up  *)
(* to the trades in the history.                                           *)
PositionsMatchTrades ==
  \A symbol \in Symbols :
    QuantityOf(symbol) + UnderWay(UnsettledIn(symbol))
      = Recorded(TradesIn(symbol, DOMAIN tradeHistory))

(* canOpenPosition and the update it is asked for are not one step, so     *)
(* concurrent traders can take a position past every limit there has been; *)
(* but only by what the others had under way when the last of them was     *)
(* let through.                                                            *)
OvershootBounded ==
  \A symbol \in Symbols, largest \in Quantities :
    (\A quantity \in Quantities : quantity <= largest) =>
      QuantityOf(symbol) <= highestLimit + (Cardinality(Traders) - 1) * largest

(* A finished snapshot counts every trade that its positions contain: they *)
(* never hold more than the first totalTrades trades of the history.       *)
SnapshotCountsItsTrades ==
  assigned = Len(Fields) =>
    \A symbol \in DOMAIN portfolio.positions :
      portfolio.positions[symbol].quantity
        <= Recorded(TradesIn(symbol, 1 .. portfolio.totalTrades))

-----------------------------------------------------------------------------
Signed(trade) == IF trade.side = "BUY" THEN trade.quantity ELSE -trade.quantity
NetOf(symbol) ==
  SumFunction([i \in TradesIn(symbol, DOMAIN tradeHistory) |-> Signed(tradeHistory[i])])

(* "Position tracking": once every trade is settled, a position is what    *)
(* was bought less what was sold.                                          *)
PositionsAreNet ==
  UnsettledTraders = {} =>
    \A symbol \in DOMAIN positions : Signed(positions[symbol]) = NetOf(symbol)

(* "Real-time P&L tracking": while every trade was made at one and the     *)
(* same price and no other price exists, there is no profit or loss.       *)
NoPnLAtOnePrice ==
  (\A price, other \in Prices : price = other) => getUnrealizedPnL = 0
=============================================================================
