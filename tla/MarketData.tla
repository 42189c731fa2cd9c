------------------------------ MODULE MarketData ------------------------------
(***************************************************************************)
(* The market data handler: per symbol a bounded history of ticks, one of  *)
(* order books, and the listeners, which are called under dataMutex.  The  *)
(* handler keeps weak pointers, so the owner of a listener may drop it at  *)
(* any time, also while a publication is on its way from one listener to   *)
(* the next; everything else waits for dataMutex.                          *)
(*                                                                         *)
(* publishTick and publishOrderBook are the same method for two histories  *)
(* and two callbacks.  What is in a tick or a book does not matter here:   *)
(* it is the number of the publication for its symbol.                     *)
(***************************************************************************)
EXTENDS Integers, Sequences, FiniteSets

CONSTANTS
  Symbols,
  Listeners,
  MAX_HISTORY_SIZE,
  MaxPublished,      (* bound: publications of one kind for one symbol *)
  MaxListeners       (* bound: entries in one vector of listeners      *)

ASSUME MarketDataAssumption ==
  /\ MAX_HISTORY_SIZE \in Nat \ {0}
  /\ MaxPublished \in Nat
  /\ MaxListeners \in Nat

VARIABLES
  symbolDataMap,  (* std::map from the symbols that have an entry           *)
  owned,          (* the listeners that a shared_ptr still points to        *)
  publication,    (* the publication in progress, which holds dataMutex, or *)
                  (* nothing                                                *)
  published       (* history: how much was published since the entry exists *)

mdVars == <<symbolDataMap, owned, publication, published>>

Kinds == {"tick", "book"}
Numbers == [Kinds -> Nat]

(* An entry of the vector of listeners.  As history it carries how much    *)
(* had been published when it was made, and what it was called with.       *)
Subscription == [listener : Listeners, since : Numbers, heard : [Kinds -> Seq(Nat)]]
SymbolData == [history : [Kinds -> Seq(Nat)], listeners : Seq(Subscription)]

(* What is being published, and the entry whose turn it is. *)
Publication == [symbol : Symbols, kind : Kinds, next : Nat]

NewSymbolData == [history |-> [kind \in Kinds |-> <<>>], listeners |-> <<>>]
NewSubscription(listener, since) ==
  [listener |-> listener, since |-> since, heard |-> [kind \in Kinds |-> <<>>]]

MarketDataInit ==
  /\ symbolDataMap = [symbol \in {} |-> NewSymbolData]
  /\ owned = Listeners
  /\ publication = {}
  /\ published = [symbol \in Symbols |-> [kind \in Kinds |-> 0]]

dataMutexIsFree == publication = {}

-----------------------------------------------------------------------------
(* std::map::operator[] makes an entry for a symbol that has none. *)
DataOf(symbol) ==
  IF symbol \in DOMAIN symbolDataMap THEN symbolDataMap[symbol] ELSE NewSymbolData

(* Whoever subscribes or unsubscribes passes a shared_ptr. *)
subscribe(symbol, listener) ==
  /\ dataMutexIsFree
  /\ listener \in owned
  /\ Len(DataOf(symbol).listeners) < MaxListeners
  /\ symbolDataMap' =
       [s \in DOMAIN symbolDataMap \cup {symbol} |->
          IF s = symbol
          THEN [DataOf(symbol) EXCEPT !.listeners =
                  Append(@, NewSubscription(listener, published[symbol]))]
          ELSE symbolDataMap[s]]
  /\ UNCHANGED <<owned, publication, published>>

(* What std::remove_if and erase leave: the entries of the given           *)
(* listeners, in the order they had.                                       *)
Keep(symbol, listeners) ==
  LET entries == symbolDataMap[symbol].listeners
      staying == {i \in DOMAIN entries : entries[i].listener \in listeners}
  IN \E order \in [1 .. Cardinality(staying) -> staying] :
       /\ \A i, j \in DOMAIN order : i < j => order[i] < order[j]
       /\ symbolDataMap' = [symbolDataMap EXCEPT ![symbol].listeners =
                              [i \in DOMAIN order |-> entries[order[i]]]]

\* Mutated form: without waiting for dataMutex, so also while a publication
\* iterates over the entries.
unsubscribeUnlocked(symbol, listener) ==
  /\ listener \in owned
  /\ symbol \in DOMAIN symbolDataMap
  /\ Keep(symbol, owned \ {listener})
  /\ UNCHANGED <<owned, publication, published>>

(* Every entry of the listener goes, and every entry that has expired. *)
unsubscribe(symbol, listener) ==
  /\ dataMutexIsFree
  /\ listener \in owned
  /\ symbol \in DOMAIN symbolDataMap
  /\ Keep(symbol, owned \ {listener})
  /\ UNCHANGED <<owned, publication, published>>

-----------------------------------------------------------------------------
\* Mutated form: the oldest entry goes one publication too early.
PushedEarly(history, item) ==
  LET longer == Append(history, item)
  IN IF Len(longer) >= MAX_HISTORY_SIZE THEN Tail(longer) ELSE longer

\* Mutated form: nothing is ever dropped.
PushedOnly(history, item) == Append(history, item)

(* The history after push_back and, when it is too long, pop_front. *)
Pushed(history, item) ==
  LET longer == Append(history, item)
  IN IF Len(longer) > MAX_HISTORY_SIZE THEN Tail(longer) ELSE longer

(* publishTick, publishOrderBook: a symbol without an entry is ignored;    *)
(* otherwise the history grows and the loop over the listeners begins, all *)
(* under dataMutex.                                                        *)
publish(symbol, kind) ==
  /\ dataMutexIsFree
  /\ symbol \in DOMAIN symbolDataMap
  /\ published[symbol][kind] < MaxPublished
  /\ symbolDataMap' = [symbolDataMap EXCEPT ![symbol].history[kind] =
                         Pushed(@, published[symbol][kind] + 1)]
  /\ published' = [published EXCEPT ![symbol][kind] = @ + 1]
  /\ publication' = {[symbol |-> symbol, kind |-> kind, next |-> 1]}
  /\ UNCHANGED owned

EntriesOf(p) == symbolDataMap[p.symbol].listeners
Expired(entry) == entry.listener \notin owned

Call(p) ==
  symbolDataMap' = [symbolDataMap EXCEPT ![p.symbol].listeners[p.next].heard[p.kind] =
                      Append(@, published[p.symbol][p.kind])]

(* One round of the loop: the listener is called if it has not expired. *)
notify(p) ==
  /\ p.next <= Len(EntriesOf(p))
  /\ IF Expired(EntriesOf(p)[p.next]) THEN UNCHANGED symbolDataMap ELSE Call(p)
  /\ publication' = {[p EXCEPT !.next = @ + 1]}
  /\ UNCHANGED <<owned, published>>

(* The loop is over and dataMutex is released. *)
publishReturns(p) ==
  /\ p.next > Len(EntriesOf(p))
  /\ publication' = {}
  /\ UNCHANGED <<symbolDataMap, owned, published>>

(* The owner of a listener resets its shared_ptr, at any time. *)
drop(listener) ==
  /\ listener \in owned
  /\ owned' = owned \ {listener}
  /\ UNCHANGED <<symbolDataMap, publication, published>>

MarketDataNext ==
  \/ \E symbol \in Symbols, listener \in Listeners :
       subscribe(symbol, listener) \/ unsubscribe(symbol, listener)
  \/ \E symbol \in Symbols, kind \in Kinds : publish(symbol, kind)
  \/ \E p \in publication : notify(p) \/ publishReturns(p)
  \/ \E listener \in Listeners : drop(listener)

MarketDataSpec == MarketDataInit /\ [][MarketDataNext]_mdVars

-----------------------------------------------------------------------------
(* The queries.  A number stands for a tick or a book, 0 for the           *)
(* value-initialised one that a symbol without any gets.                   *)
getLatest(symbol, kind) ==
  LET history == DataOf(symbol).history[kind]
  IN IF history = <<>> THEN 0 ELSE history[Len(history)]

\* Mutated form: the first entry of the window is left out.
getHistoryShort(symbol, kind, limit) ==
  LET history == DataOf(symbol).history[kind]
      start == IF Len(history) >= limit THEN Len(history) - limit + 1 ELSE 0
  IN SubSeq(history, start + 1, Len(history))

getHistory(symbol, kind, limit) ==
  LET history == DataOf(symbol).history[kind]
      start == IF Len(history) > limit THEN Len(history) - limit ELSE 0
  IN SubSeq(history, start + 1, Len(history))
=============================================================================
