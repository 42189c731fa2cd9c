------------------------- MODULE MarketDataProperties -------------------------
(***************************************************************************)
(* What must hold of the market data handler.                              *)
(***************************************************************************)
EXTENDS MarketData

(* Type correctness of the map, with the bound on the histories and the    *)
(* loop of a publication never past the end of the vector.                 *)
MarketDataTypeOK ==
  /\ DOMAIN symbolDataMap \subseteq Symbols
  /\ symbolDataMap \in [DOMAIN symbolDataMap -> SymbolData]
  /\ owned \subseteq Listeners
  /\ publication \subseteq Publication /\ \A p, q \in publication : p = q
  /\ published \in [Symbols -> Numbers]
  /\ \A p \in publication : /\ p.symbol \in DOMAIN symbolDataMap
                            /\ p.next \in 1 .. Len(EntriesOf(p)) + 1
  /\ \A symbol \in DOMAIN symbolDataMap, kind \in Kinds :
       Len(symbolDataMap[symbol].history[kind]) <= MAX_HISTORY_SIZE

(* The publications after the first a, up to number b. *)
Through(a, b) == [i \in 1 .. b - a |-> a + i]
Lesser(a, b) == IF a < b THEN a ELSE b

(* The last MAX_HISTORY_SIZE of n publications. *)
Recent(n) == Through(n - Lesser(n, MAX_HISTORY_SIZE), n)

(* The history of a symbol is the recent past: the last MAX_HISTORY_SIZE   *)
(* of what was published since the symbol has an entry, oldest first.      *)
HistoryIsRecent ==
  \A symbol \in DOMAIN symbolDataMap, kind \in Kinds :
    symbolDataMap[symbol].history[kind] = Recent(published[symbol][kind])

(* getLatestTick and getLatestOrderBook return the last publication, and   *)
(* getTickHistory the end of the past, whatever limit it is asked for.     *)
QueriesAreRecent ==
  \A symbol \in Symbols, kind \in Kinds :
    LET n == published[symbol][kind] IN
    /\ getLatest(symbol, kind) = n
    /\ \A limit \in 0 .. MAX_HISTORY_SIZE + 1 :
         getHistory(symbol, kind, limit)
           = Through(n - Lesser(n, Lesser(limit, MAX_HISTORY_SIZE)), n)

(* What a subscription is still to hear of: while its symbol's publication *)
(* is on the way, the entries the loop has not reached lag by one.         *)
Lag(symbol, kind, i) ==
  IF \E p \in publication : p.symbol = symbol /\ p.kind = kind /\ p.next <= i
  THEN 1 ELSE 0

(* A subscription whose listener is owned has heard every publication      *)
(* since it was made, each once and in order, but for the one on its way   *)
(* to it: whatever subscribes, unsubscribes or expires meanwhile.          *)
HasHeard(entry, kind, n) == entry.heard[kind] = Through(entry.since[kind], n)

HeardAsSubscribed ==
  \A symbol \in DOMAIN symbolDataMap, kind \in Kinds :
    \A i \in DOMAIN symbolDataMap[symbol].listeners :
      LET entry == symbolDataMap[symbol].listeners[i] IN
      ~Expired(entry) => HasHeard(entry, kind, published[symbol][kind] - Lag(symbol, kind, i))
=============================================================================
