------------------------------- MODULE RiskDesk -------------------------------
(***************************************************************************)
(* The risk manager in use, in the order its interface is made for: a      *)
(* trader asks canOpenPosition, trades if it may, and reports the trade to *)
(* updatePosition.  Meanwhile others close positions, deliver prices, set  *)
(* limits and take a snapshot.  The order manager is here only the history *)
(* of trades whose length is its counter.                                  *)
(*                                                                         *)
(* canOpenPosition reads the limit, the position and the limit again, with *)
(* positionMutex for the position only; getPortfolioSnapshot calls getters *)
(* that each take the mutex for themselves.                                *)
(***************************************************************************)
EXTENDS RiskManager

CONSTANTS
  Traders,
  MaxTrades,        (* bound: trades recorded or under way             *)
  MaxSnapshots      (* bound: snapshots begun                          *)

ASSUME RiskDeskAssumption ==
  /\ IsFiniteSet(Traders) /\ Traders # {}
  /\ MaxTrades \in Nat
  /\ MaxSnapshots \in Nat

VARIABLES
  trader,         (* where each trader stands, the trade it is about, and   *)
                  (* the quantity that getPosition returned                 *)
  tradeHistory,   (* what simulateTrade recorded                            *)
  portfolio,      (* the snapshot under way, or the last one taken          *)
  assigned,       (* how many fields of it were assigned                    *)
  snapshots,      (* history: how many were begun                           *)
  highestLimit    (* history: the greatest limit there has been             *)

deskVars == <<trader, tradeHistory, portfolio, assigned, snapshots, highestLimit>>

TotalBalance == 100000

(* getPortfolioSnapshot's fields, in the order they are assigned; what is  *)
(* constant (balance and realised P&L) is left out.                        *)
Fields == <<"availableBalance", "totalPnL", "unrealizedPnL", "positions", "totalTrades">>

Portfolio ==
  [availableBalance |-> 0, totalPnL |-> 0, unrealizedPnL |-> 0,
   positions |-> [symbol \in {} |-> 0], totalTrades |-> 0]

Idle == [at |-> "idle"]

Init ==
  /\ RiskInit
  /\ trader = [t \in Traders |-> Idle]
  /\ tradeHistory = <<>>
  /\ portfolio = Portfolio
  /\ assigned = Len(Fields)
  /\ snapshots = 0
  /\ highestLimit = maxPositionSize

-----------------------------------------------------------------------------
Move(t, state) ==
  /\ trader' = [trader EXCEPT ![t] = state]
  /\ UNCHANGED <<portfolio, assigned, snapshots, highestLimit>>

(* The traders whose trade is not in the history yet. *)
Deciding == {t \in Traders : trader[t].at \in {"read", "test", "trade"}}

(* canOpenPosition: the quantity alone against the limit ... *)
FirstTest(t, trade) ==
  /\ trader[t].at = "idle"
  /\ Len(tradeHistory) + Cardinality(Deciding) < MaxTrades
  /\ trade.quantity <= maxPositionSize
  /\ Move(t, [at |-> "read", trade |-> trade])
  /\ UNCHANGED <<riskVars, tradeHistory>>

(* ... the position, under its mutex ... *)
ReadPosition(t) ==
  /\ trader[t].at = "read"
  /\ Move(t, [at |-> "test", trade |-> trader[t].trade,
              read |-> QuantityOf(trader[t].trade.symbol)])
  /\ UNCHANGED <<riskVars, tradeHistory>>

\* Mutated form: the new quantity is left out of the sum.
FitsWithout(read, quantity) == read <= maxPositionSize

(* ... and the sum of both against the limit there is by then. *)
Fits(read, quantity) == read + quantity <= maxPositionSize

SecondTest(t) ==
  /\ trader[t].at = "test"
  /\ Move(t, IF Fits(trader[t].read, trader[t].trade.quantity)
             THEN [at |-> "trade", trade |-> trader[t].trade]
             ELSE Idle)
  /\ UNCHANGED <<riskVars, tradeHistory>>

(* The trade takes place and is recorded by simulateTrade. *)
Record(t) ==
  /\ trader[t].at = "trade"
  /\ tradeHistory' = Append(tradeHistory, trader[t].trade)
  /\ Move(t, [at |-> "settle", trade |-> trader[t].trade])
  /\ UNCHANGED riskVars

Settle(t) ==
  /\ trader[t].at = "settle"
  /\ updatePosition(trader[t].trade)
  /\ Move(t, Idle)
  /\ UNCHANGED tradeHistory

-----------------------------------------------------------------------------
SetLimits ==
  /\ \E limit \in Limits :
       /\ setRiskLimits(limit)
       /\ highestLimit' = IF limit > highestLimit THEN limit ELSE highestLimit
  /\ UNCHANGED <<trader, tradeHistory, portfolio, assigned, snapshots>>

ClosePosition ==
  /\ \E symbol \in Symbols : closePosition(symbol)
  /\ UNCHANGED deskVars

UpdateMarketPrice ==
  /\ \E symbol \in Symbols, price \in Prices : updateMarketPrice(symbol, price)
  /\ UNCHANGED deskVars

BeginSnapshot ==
  /\ assigned = Len(Fields)
  /\ snapshots < MaxSnapshots
  /\ portfolio' = Portfolio
  /\ assigned' = 0
  /\ snapshots' = snapshots + 1
  /\ UNCHANGED <<riskVars, trader, tradeHistory, highestLimit>>

ValueOf(field) ==
  CASE field = "availableBalance" -> TotalBalance - getUnrealizedPnL
    [] field = "totalPnL"         -> getRealizedPnL + getUnrealizedPnL
    [] field = "unrealizedPnL"    -> getUnrealizedPnL
    [] field = "positions"        -> positions
    [] field = "totalTrades"      -> Len(tradeHistory)

\* Mutated form: the counter of trades is read before the positions.
FieldAtTradesFirst(n) ==
  <<"availableBalance", "totalPnL", "unrealizedPnL", "totalTrades", "positions">>[n]

FieldAt(n) == Fields[n]

AssignField ==
  /\ assigned < Len(Fields)
  /\ LET field == FieldAt(assigned + 1)
     IN portfolio' = [portfolio EXCEPT ![field] = ValueOf(field)]
  /\ assigned' = assigned + 1
  /\ UNCHANGED <<riskVars, trader, tradeHistory, snapshots, highestLimit>>

TraderStep(t) ==
  \/ \E trade \in Trade : FirstTest(t, trade)
  \/ ReadPosition(t) \/ SecondTest(t) \/ Record(t) \/ Settle(t)

Next ==
  \/ \E t \in Traders : TraderStep(t)
  \/ SetLimits \/ ClosePosition \/ UpdateMarketPrice
  \/ BeginSnapshot \/ AssignField

Spec == Init /\ [][Next]_<<riskVars, deskVars>>
=============================================================================
