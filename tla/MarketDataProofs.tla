--------------------------- MODULE MarketDataProofs ---------------------------
(***************************************************************************)
(* Histories and subscriptions are right for every set of symbols and      *)
(* listeners, every size of the history and any number of publications.    *)
(***************************************************************************)
EXTENDS MarketDataProperties, SequenceTheorems, FiniteSetTheorems, TLAPS

-----------------------------------------------------------------------------
(* Runs of consecutive numbers as sequences. *)
LEMMA ThroughIsSeq ==
  ASSUME NEW a \in Nat, NEW b \in Nat, a <= b
  PROVE  /\ Through(a, b) \in Seq(Nat)
         /\ Len(Through(a, b)) = b - a
         /\ \A i \in 1 .. b - a : Through(a, b)[i] = a + i
<1>1. b - a \in Nat
  OBVIOUS
<1>2. Through(a, b) \in [1 .. b - a -> Nat]
  BY <1>1 DEF Through
<1>3. Through(a, b) \in Seq(Nat)
  BY <1>1, <1>2, SeqDef
<1> QED
  BY <1>1, <1>2, <1>3 DEF Through

LEMMA ThroughAppend ==
  ASSUME NEW a \in Nat, NEW b \in Nat, a <= b
  PROVE  Append(Through(a, b), b + 1) = Through(a, b + 1)
<1> DEFINE s == Through(a, b)  t == Through(a, b + 1)
<1>1. s \in Seq(Nat) /\ Len(s) = b - a /\ \A i \in 1 .. b - a : s[i] = a + i
  BY ThroughIsSeq
<1>2. t \in Seq(Nat) /\ Len(t) = b + 1 - a /\ \A i \in 1 .. b + 1 - a : t[i] = a + i
  BY ThroughIsSeq
<1>3. /\ Append(s, b + 1) \in Seq(Nat)
      /\ Len(Append(s, b + 1)) = Len(s) + 1
      /\ \A i \in 1 .. Len(s) : Append(s, b + 1)[i] = s[i]
      /\ Append(s, b + 1)[Len(s) + 1] = b + 1
  BY <1>1, AppendProperties
<1> HIDE DEF s, t
<1>4. \A i \in 1 .. Len(t) : Append(s, b + 1)[i] = t[i]
  BY <1>1, <1>2, <1>3
<1>5. Append(s, b + 1) = t
  BY <1>1, <1>2, <1>3, <1>4, SeqEqual
<1> QED
  BY <1>5 DEF s, t

LEMMA ThroughTail ==
  ASSUME NEW a \in Nat, NEW b \in Nat, a < b
  PROVE  Tail(Through(a, b)) = Through(a + 1, b)
<1> DEFINE s == Through(a, b)  t == Through(a + 1, b)
<1>1. s \in Seq(Nat) /\ Len(s) = b - a /\ \A i \in 1 .. b - a : s[i] = a + i
  BY ThroughIsSeq
<1>2. t \in Seq(Nat) /\ Len(t) = b - a - 1 /\ \A i \in 1 .. b - a - 1 : t[i] = a + 1 + i
  <2>1. a + 1 \in Nat /\ a + 1 <= b /\ b - (a + 1) = b - a - 1
    OBVIOUS
  <2> QED
    BY <2>1, ThroughIsSeq
<1> HIDE DEF s, t
<1>3. s # <<>>
  BY <1>1
<1>4. /\ Tail(s) \in Seq(Nat)
      /\ Len(Tail(s)) = Len(s) - 1
      /\ \A i \in 1 .. Len(Tail(s)) : Tail(s)[i] = s[i + 1]
  BY <1>1, <1>3, HeadTailProperties
<1>5. \A i \in 1 .. Len(t) : Tail(s)[i] = t[i]
  BY <1>1, <1>2, <1>4
<1>6. Tail(s) = t
  BY <1>1, <1>2, <1>4, <1>5, SeqEqual
<1> QED
  BY <1>6 DEF s, t

(* Pushing the next publication onto the recent past keeps it recent. *)
LEMMA PushedIsRecent ==
  ASSUME NEW n \in Nat
  PROVE  Pushed(Recent(n), n + 1) = Recent(n + 1)
<1> DEFINE first == n - Lesser(n, MAX_HISTORY_SIZE)
<1>1. MAX_HISTORY_SIZE \in Nat /\ MAX_HISTORY_SIZE > 0
  BY MarketDataAssumption
<1>2. first \in Nat /\ first <= n
  BY <1>1 DEF Lesser
<1>3. Append(Through(first, n), n + 1) = Through(first, n + 1)
  BY <1>2, ThroughAppend
<1>a. n + 1 \in Nat /\ first <= n + 1 /\ first < n + 1
  BY <1>2
<1>4. Len(Through(first, n + 1)) = n + 1 - first
  <2> HIDE DEF first
  <2> QED
    BY <1>2, <1>a, ThroughIsSeq
<1>5. Tail(Through(first, n + 1)) = Through(first + 1, n + 1)
  <2> HIDE DEF first
  <2> QED
    BY <1>2, <1>a, ThroughTail
<1> DEFINE next == (n + 1) - Lesser(n + 1, MAX_HISTORY_SIZE)
<1>b. Recent(n) = Through(first, n) /\ Recent(n + 1) = Through(next, n + 1)
  <2>1. Recent(n) = Through(first, n)
    BY Zenon DEF Recent
  <2>2. Recent(n + 1) = Through(next, n + 1)
    BY Zenon DEF Recent
  <2> QED
    BY <2>1, <2>2
<1>6. CASE n < MAX_HISTORY_SIZE
  <2>1. first = 0 /\ ~(n + 1 - first > MAX_HISTORY_SIZE)
    BY <1>1, <1>6 DEF Lesser
  <2>2. next = first
    BY <1>1, <1>6, <2>1 DEF Lesser
  <2> HIDE DEF first, next
  <2> QED
    BY <1>3, <1>4, <1>b, <2>1, <2>2 DEF Pushed
<1>7. CASE ~(n < MAX_HISTORY_SIZE)
  <2>1. first = n - MAX_HISTORY_SIZE /\ n + 1 - first > MAX_HISTORY_SIZE
    BY <1>1, <1>7 DEF Lesser
  <2>2. next = first + 1
    BY <1>1, <1>7, <2>1 DEF Lesser
  <2> HIDE DEF first, next
  <2> QED
    BY <1>3, <1>4, <1>5, <1>b, <2>1, <2>2 DEF Pushed
<1> QED
  BY <1>6, <1>7

-----------------------------------------------------------------------------
(* Records with one field changed, written out. *)
LEMMA FieldChanged ==
  /\ \A data \in SymbolData : \A new :
       /\ [data EXCEPT !.listeners = new] = [history |-> data.history, listeners |-> new]
       /\ [data EXCEPT !.history = new] = [history |-> new, listeners |-> data.listeners]
  /\ \A entry \in Subscription : \A new :
       [entry EXCEPT !.heard = new]
         = [listener |-> entry.listener, since |-> entry.since, heard |-> new]
<1>1. ASSUME NEW data \in SymbolData, NEW new
      PROVE  /\ [data EXCEPT !.listeners = new] = [history |-> data.history, listeners |-> new]
             /\ [data EXCEPT !.history = new] = [history |-> new, listeners |-> data.listeners]
  BY DEF SymbolData
<1>2. ASSUME NEW entry \in Subscription, NEW new
      PROVE  [entry EXCEPT !.heard = new]
               = [listener |-> entry.listener, since |-> entry.since, heard |-> new]
  BY DEF Subscription
<1> QED
  BY <1>1, <1>2

(* What each operation makes of the map, entry by entry. *)

LEMMA SubscribeShape ==
  ASSUME MarketDataTypeOK, NEW symbol \in Symbols, NEW listener \in Listeners,
         subscribe(symbol, listener)
  PROVE  LET data == DataOf(symbol)
             new == NewSubscription(listener, published[symbol])
         IN /\ data \in SymbolData /\ new \in Subscription
            /\ DOMAIN symbolDataMap' = DOMAIN symbolDataMap \cup {symbol}
            /\ symbolDataMap' = [s \in DOMAIN symbolDataMap' |-> symbolDataMap'[s]]
            /\ symbolDataMap'[symbol] =
                 [history |-> data.history, listeners |-> Append(data.listeners, new)]
            /\ \A s \in DOMAIN symbolDataMap \ {symbol} :
                 symbolDataMap'[s] = symbolDataMap[s]
<1> DEFINE data == DataOf(symbol)  new == NewSubscription(listener, published[symbol])
<1>1. NewSymbolData \in SymbolData
  BY EmptySeq DEF NewSymbolData, SymbolData
<1>2. data \in SymbolData
  BY <1>1 DEF DataOf, MarketDataTypeOK
<1>3. new \in Subscription
  BY EmptySeq DEF NewSubscription, Subscription, MarketDataTypeOK
<1>4. [data EXCEPT !.listeners = Append(@, new)]
        = [history |-> data.history, listeners |-> Append(data.listeners, new)]
  BY <1>2, FieldChanged
<1>5. symbolDataMap' =
        [s \in DOMAIN symbolDataMap \cup {symbol} |->
           IF s = symbol THEN [data EXCEPT !.listeners = Append(@, new)]
           ELSE symbolDataMap[s]]
  BY DEF subscribe
<1> HIDE DEF data, new
<1>6. /\ DOMAIN symbolDataMap' = DOMAIN symbolDataMap \cup {symbol}
      /\ symbolDataMap' = [s \in DOMAIN symbolDataMap' |-> symbolDataMap'[s]]
      /\ symbolDataMap'[symbol] =
           [history |-> data.history, listeners |-> Append(data.listeners, new)]
      /\ \A s \in DOMAIN symbolDataMap \ {symbol} :
           symbolDataMap'[s] = symbolDataMap[s]
  BY <1>4, <1>5
<1> QED
  BY <1>2, <1>3, <1>6 DEF data, new

(* Every entry that stays was an entry before. *)
LEMMA UnsubscribeShape ==
  ASSUME MarketDataTypeOK, NEW symbol \in Symbols, NEW listener \in Listeners,
         unsubscribe(symbol, listener)
  PROVE  \E left \in Seq(Subscription) :
           /\ \A i \in DOMAIN left : \E j \in DOMAIN symbolDataMap[symbol].listeners :
                left[i] = symbolDataMap[symbol].listeners[j]
           /\ symbol \in DOMAIN symbolDataMap
           /\ DOMAIN symbolDataMap' = DOMAIN symbolDataMap
           /\ symbolDataMap' = [s \in DOMAIN symbolDataMap' |-> symbolDataMap'[s]]
           /\ symbolDataMap'[symbol] =
                [history |-> symbolDataMap[symbol].history, listeners |-> left]
           /\ \A s \in DOMAIN symbolDataMap \ {symbol} :
                symbolDataMap'[s] = symbolDataMap[s]
<1> DEFINE entries == symbolDataMap[symbol].listeners
           staying == {i \in DOMAIN entries : entries[i].listener \in owned \ {listener}}
<1>1. symbol \in DOMAIN symbolDataMap /\ symbolDataMap[symbol] \in SymbolData
  BY DEF unsubscribe, MarketDataTypeOK
<1>2. entries \in Seq(Subscription)
  BY <1>1 DEF SymbolData
<1>3. Cardinality(staying) \in Nat
  <2>1. DOMAIN entries = 1 .. Len(entries) /\ Len(entries) \in Nat
    BY <1>2
  <2>2. IsFiniteSet(1 .. Len(entries))
    BY <2>1, FS_Interval
  <2>3. staying \subseteq 1 .. Len(entries)
    BY <2>1
  <2> QED
    BY <2>2, <2>3, FS_Subset, FS_CardinalityType
<1>4. PICK order \in [1 .. Cardinality(staying) -> staying] :
        symbolDataMap' = [symbolDataMap EXCEPT ![symbol].listeners =
                            [i \in DOMAIN order |-> entries[order[i]]]]
  BY DEF unsubscribe, Keep
<1> DEFINE left == [i \in DOMAIN order |-> entries[order[i]]]
<1>5. left \in Seq(Subscription)
  <2>1. \A i \in DOMAIN order : entries[order[i]] \in Subscription
    BY <1>2
  <2>2. DOMAIN order = 1 .. Cardinality(staying)
    OBVIOUS
  <2>3. left \in [1 .. Cardinality(staying) -> Subscription]
    BY <2>1, <2>2
  <2> QED
    <3> HIDE DEF left, staying
    <3> QED
      BY <2>3, <1>3, SeqDef
<1>6. \A i \in DOMAIN left : \E j \in DOMAIN entries : left[i] = entries[j]
  <2> SUFFICES ASSUME NEW i \in DOMAIN left
               PROVE  \E j \in DOMAIN entries : left[i] = entries[j]
    OBVIOUS
  <2>1. order[i] \in DOMAIN entries /\ left[i] = entries[order[i]]
    OBVIOUS
  <2> QED
    BY <2>1
<1>7. symbolDataMap' = [symbolDataMap EXCEPT ![symbol] =
                          [history |-> symbolDataMap[symbol].history, listeners |-> left]]
  <2>1. [symbolDataMap[symbol] EXCEPT !.listeners = left]
          = [history |-> symbolDataMap[symbol].history, listeners |-> left]
    BY <1>1, FieldChanged
  <2> QED
    BY <1>4, <2>1
<1>8. symbolDataMap \in [DOMAIN symbolDataMap -> SymbolData]
  BY DEF MarketDataTypeOK
<1> HIDE DEF left
<1>9. /\ DOMAIN symbolDataMap' = DOMAIN symbolDataMap
      /\ symbolDataMap' = [s \in DOMAIN symbolDataMap' |-> symbolDataMap'[s]]
      /\ symbolDataMap'[symbol] =
           [history |-> symbolDataMap[symbol].history, listeners |-> left]
      /\ \A s \in DOMAIN symbolDataMap \ {symbol} :
           symbolDataMap'[s] = symbolDataMap[s]
  BY <1>1, <1>7, <1>8
<1> QED
  BY <1>1, <1>5, <1>6, <1>9

LEMMA PublishShape ==
  ASSUME MarketDataTypeOK, NEW symbol \in Symbols, NEW kind \in Kinds,
         publish(symbol, kind)
  PROVE  LET data == symbolDataMap[symbol]
             longer == Pushed(data.history[kind], published[symbol][kind] + 1)
         IN /\ symbol \in DOMAIN symbolDataMap /\ data \in SymbolData
            /\ DOMAIN symbolDataMap' = DOMAIN symbolDataMap
            /\ symbolDataMap' = [s \in DOMAIN symbolDataMap' |-> symbolDataMap'[s]]
            /\ symbolDataMap'[symbol] =
                 [history |-> [data.history EXCEPT ![kind] = longer],
                  listeners |-> data.listeners]
            /\ \A s \in DOMAIN symbolDataMap \ {symbol} :
                 symbolDataMap'[s] = symbolDataMap[s]
<1> DEFINE data == symbolDataMap[symbol]
           longer == Pushed(data.history[kind], published[symbol][kind] + 1)
<1>1. symbol \in DOMAIN symbolDataMap /\ data \in SymbolData
  BY DEF publish, MarketDataTypeOK
<1>2. [data EXCEPT !.history = [@ EXCEPT ![kind] = longer]]
        = [history |-> [data.history EXCEPT ![kind] = longer],
           listeners |-> data.listeners]
  BY <1>1, FieldChanged
<1>3. symbolDataMap' = [symbolDataMap EXCEPT ![symbol] =
                          [history |-> [data.history EXCEPT ![kind] = longer],
                           listeners |-> data.listeners]]
  BY <1>2 DEF publish
<1>4. symbolDataMap \in [DOMAIN symbolDataMap -> SymbolData]
  BY DEF MarketDataTypeOK
<1> HIDE DEF longer
<1>5. /\ DOMAIN symbolDataMap' = DOMAIN symbolDataMap
      /\ symbolDataMap' = [s \in DOMAIN symbolDataMap' |-> symbolDataMap'[s]]
      /\ symbolDataMap'[symbol] =
           [history |-> [data.history EXCEPT ![kind] = longer],
            listeners |-> data.listeners]
      /\ \A s \in DOMAIN symbolDataMap \ {symbol} :
           symbolDataMap'[s] = symbolDataMap[s]
  BY <1>1, <1>3, <1>4
<1> QED
  BY <1>1, <1>5 DEF longer

LEMMA CallShape ==
  ASSUME MarketDataTypeOK, NEW p \in publication, p.next <= Len(EntriesOf(p)), Call(p)
  PROVE  LET data == symbolDataMap[p.symbol]
             entry == data.listeners[p.next]
             told == [listener |-> entry.listener, since |-> entry.since,
                      heard |-> [entry.heard EXCEPT ![p.kind] =
                                   Append(@, published[p.symbol][p.kind])]]
         IN /\ p.symbol \in DOMAIN symbolDataMap /\ data \in SymbolData
            /\ p.next \in 1 .. Len(data.listeners)
            /\ entry \in Subscription /\ told \in Subscription
            /\ DOMAIN symbolDataMap' = DOMAIN symbolDataMap
            /\ symbolDataMap' = [s \in DOMAIN symbolDataMap' |-> symbolDataMap'[s]]
            /\ symbolDataMap'[p.symbol] =
                 [history |-> data.history,
                  listeners |-> [data.listeners EXCEPT ![p.next] = told]]
            /\ \A s \in DOMAIN symbolDataMap \ {p.symbol} :
                 symbolDataMap'[s] = symbolDataMap[s]
<1> DEFINE data == symbolDataMap[p.symbol]
           entry == data.listeners[p.next]
           n == published[p.symbol][p.kind]
           told == [listener |-> entry.listener, since |-> entry.since,
                    heard |-> [entry.heard EXCEPT ![p.kind] = Append(@, n)]]
<1>1. p.symbol \in DOMAIN symbolDataMap /\ p.symbol \in Symbols /\ p.kind \in Kinds
      /\ data \in SymbolData /\ p.next \in 1 .. Len(data.listeners) + 1
  BY DEF MarketDataTypeOK, Publication, EntriesOf
<1>2. data.listeners \in Seq(Subscription) /\ Len(data.listeners) \in Nat
  BY <1>1 DEF SymbolData
<1>3. p.next \in 1 .. Len(data.listeners)
  BY <1>1, <1>2 DEF EntriesOf
<1>4. entry \in Subscription
  BY <1>2, <1>3
<1>5. n \in Nat
  BY <1>1 DEF MarketDataTypeOK, Numbers
<1>6. Append(entry.heard[p.kind], n) \in Seq(Nat)
  <2>1. entry.heard[p.kind] \in Seq(Nat)
    BY <1>1, <1>4 DEF Subscription
  <2> QED
    BY <2>1, <1>5, AppendProperties
<1>7. told \in Subscription
  <2>1. [entry.heard EXCEPT ![p.kind] = Append(@, n)] \in [Kinds -> Seq(Nat)]
    BY <1>1, <1>4, <1>6 DEF Subscription
  <2> QED
    BY <1>4, <2>1 DEF Subscription
<1>8. symbolDataMap' = [symbolDataMap EXCEPT ![p.symbol] =
        [history |-> data.history, listeners |-> [data.listeners EXCEPT ![p.next] = told]]]
  <2> DEFINE more == [entry.heard EXCEPT ![p.kind] = Append(entry.heard[p.kind], n)]
             changed == [data.listeners EXCEPT ![p.next] = told]
  <2>1. [entry EXCEPT !.heard = more] = told
    BY <1>4, FieldChanged
  <2>2. [data EXCEPT !.listeners = changed]
          = [history |-> data.history, listeners |-> changed]
    BY <1>1, FieldChanged
  <2>3. symbolDataMap' =
          [symbolDataMap EXCEPT ![p.symbol] = [data EXCEPT !.listeners =
             [data.listeners EXCEPT ![p.next] = [entry EXCEPT !.heard = more]]]]
    BY DEF Call
  <2> QED
    BY <2>1, <2>2, <2>3
<1>9. symbolDataMap \in [DOMAIN symbolDataMap -> SymbolData]
  BY DEF MarketDataTypeOK
<1> HIDE DEF told
<1>10. /\ DOMAIN symbolDataMap' = DOMAIN symbolDataMap
       /\ symbolDataMap' = [s \in DOMAIN symbolDataMap' |-> symbolDataMap'[s]]
       /\ symbolDataMap'[p.symbol] =
            [history |-> data.history,
             listeners |-> [data.listeners EXCEPT ![p.next] = told]]
       /\ \A s \in DOMAIN symbolDataMap \ {p.symbol} :
            symbolDataMap'[s] = symbolDataMap[s]
  BY <1>1, <1>8, <1>9
<1> QED
  BY <1>1, <1>3, <1>4, <1>7, <1>10 DEF told

-----------------------------------------------------------------------------
(* Type correctness. *)

LEMMA PushedTyped ==
  ASSUME NEW history \in Seq(Nat), NEW item \in Nat, Len(history) <= MAX_HISTORY_SIZE
  PROVE  Pushed(history, item) \in Seq(Nat) /\ Len(Pushed(history, item)) <= MAX_HISTORY_SIZE
<1> DEFINE longer == Append(history, item)
<1>1. longer \in Seq(Nat) /\ longer # <<>> /\ Len(longer) = Len(history) + 1
  BY AppendProperties
<1>2. Tail(longer) \in Seq(Nat) /\ Len(Tail(longer)) = Len(longer) - 1
  BY <1>1, HeadTailProperties
<1>3. MAX_HISTORY_SIZE \in Nat /\ Len(history) \in Nat
  BY MarketDataAssumption
<1> HIDE DEF longer
<1> QED
  BY <1>1, <1>2, <1>3 DEF Pushed, longer

(* A map in which one symbol's data changed keeps its type. *)
LEMMA MapTyped ==
  ASSUME MarketDataTypeOK, NEW symbol \in Symbols,
         DOMAIN symbolDataMap' = DOMAIN symbolDataMap \cup {symbol},
         symbolDataMap' = [s \in DOMAIN symbolDataMap' |-> symbolDataMap'[s]],
         symbolDataMap'[symbol] \in SymbolData,
         \A kind \in Kinds : Len(symbolDataMap'[symbol].history[kind]) <= MAX_HISTORY_SIZE,
         \A s \in DOMAIN symbolDataMap \ {symbol} : symbolDataMap'[s] = symbolDataMap[s]
  PROVE  /\ DOMAIN symbolDataMap' \subseteq Symbols
         /\ symbolDataMap' \in [DOMAIN symbolDataMap' -> SymbolData]
         /\ \A s \in DOMAIN symbolDataMap', kind \in Kinds :
              Len(symbolDataMap'[s].history[kind]) <= MAX_HISTORY_SIZE
<1>1. \A s \in DOMAIN symbolDataMap' : symbolDataMap'[s] \in SymbolData
  BY DEF MarketDataTypeOK
<1>2. symbolDataMap' \in [DOMAIN symbolDataMap' -> SymbolData]
  BY <1>1
<1> QED
  BY <1>2 DEF MarketDataTypeOK

LEMMA TypeInit == MarketDataInit => MarketDataTypeOK
BY DEF MarketDataInit, MarketDataTypeOK, Numbers

LEMMA TypeSubscribe ==
  ASSUME MarketDataTypeOK, NEW symbol \in Symbols, NEW listener \in Listeners,
         subscribe(symbol, listener)
  PROVE  MarketDataTypeOK'
<1> DEFINE data == DataOf(symbol)
           more == Append(data.listeners, NewSubscription(listener, published[symbol]))
<1>1. /\ data \in SymbolData
      /\ NewSubscription(listener, published[symbol]) \in Subscription
      /\ DOMAIN symbolDataMap' = DOMAIN symbolDataMap \cup {symbol}
      /\ symbolDataMap' = [s \in DOMAIN symbolDataMap' |-> symbolDataMap'[s]]
      /\ symbolDataMap'[symbol] = [history |-> data.history, listeners |-> more]
      /\ \A s \in DOMAIN symbolDataMap \ {symbol} : symbolDataMap'[s] = symbolDataMap[s]
  BY SubscribeShape
<1>2. more \in Seq(Subscription)
  <2>1. data.listeners \in Seq(Subscription)
    BY <1>1 DEF SymbolData
  <2> QED
    BY <1>1, <2>1, AppendProperties
<1>3. \A kind \in Kinds : Len(data.history[kind]) <= MAX_HISTORY_SIZE
  <2>1. CASE symbol \in DOMAIN symbolDataMap
    BY <2>1 DEF DataOf, MarketDataTypeOK
  <2>2. CASE symbol \notin DOMAIN symbolDataMap
    <3>1. \A kind \in Kinds : data.history[kind] = <<>>
      BY <2>2 DEF DataOf, NewSymbolData
    <3>2. Len(<<>>) <= MAX_HISTORY_SIZE
      BY MarketDataAssumption
    <3> QED
      BY <3>1, <3>2
  <2> QED
    BY <2>1, <2>2
<1> HIDE DEF data, more
<1>4. symbolDataMap'[symbol] \in SymbolData
  BY <1>1, <1>2 DEF SymbolData
<1>5. \A kind \in Kinds : Len(symbolDataMap'[symbol].history[kind]) <= MAX_HISTORY_SIZE
  BY <1>1, <1>3
<1>6. publication = {} /\ UNCHANGED <<owned, publication, published>>
  BY DEF subscribe, dataMutexIsFree
<1> QED
  BY <1>1, <1>4, <1>5, <1>6, MapTyped DEF MarketDataTypeOK

LEMMA TypeUnsubscribe ==
  ASSUME MarketDataTypeOK, NEW symbol \in Symbols, NEW listener \in Listeners,
         unsubscribe(symbol, listener)
  PROVE  MarketDataTypeOK'
<1>1. PICK left \in Seq(Subscription) :
        /\ symbol \in DOMAIN symbolDataMap
        /\ DOMAIN symbolDataMap' = DOMAIN symbolDataMap
        /\ symbolDataMap' = [s \in DOMAIN symbolDataMap' |-> symbolDataMap'[s]]
        /\ symbolDataMap'[symbol] =
             [history |-> symbolDataMap[symbol].history, listeners |-> left]
        /\ \A s \in DOMAIN symbolDataMap \ {symbol} : symbolDataMap'[s] = symbolDataMap[s]
  BY UnsubscribeShape
<1>2. symbolDataMap[symbol] \in SymbolData
      /\ \A kind \in Kinds : Len(symbolDataMap[symbol].history[kind]) <= MAX_HISTORY_SIZE
  BY <1>1 DEF MarketDataTypeOK
<1>3. symbolDataMap'[symbol] \in SymbolData
  BY <1>1, <1>2 DEF SymbolData
<1>4. \A kind \in Kinds : Len(symbolDataMap'[symbol].history[kind]) <= MAX_HISTORY_SIZE
  BY <1>1, <1>2
<1>5. publication = {} /\ UNCHANGED <<owned, publication, published>>
  BY DEF unsubscribe, dataMutexIsFree
<1>6. DOMAIN symbolDataMap' = DOMAIN symbolDataMap \cup {symbol}
  BY <1>1
<1> QED
  BY <1>1, <1>3, <1>4, <1>5, <1>6, MapTyped DEF MarketDataTypeOK

LEMMA TypePublish ==
  ASSUME MarketDataTypeOK, NEW symbol \in Symbols, NEW kind \in Kinds,
         publish(symbol, kind)
  PROVE  MarketDataTypeOK'
<1> DEFINE data == symbolDataMap[symbol]
           longer == Pushed(data.history[kind], published[symbol][kind] + 1)
<1>1. /\ symbol \in DOMAIN symbolDataMap /\ data \in SymbolData
      /\ DOMAIN symbolDataMap' = DOMAIN symbolDataMap
      /\ symbolDataMap' = [s \in DOMAIN symbolDataMap' |-> symbolDataMap'[s]]
      /\ symbolDataMap'[symbol] = [history |-> [data.history EXCEPT ![kind] = longer],
                                   listeners |-> data.listeners]
      /\ \A s \in DOMAIN symbolDataMap \ {symbol} : symbolDataMap'[s] = symbolDataMap[s]
  BY PublishShape
<1>2. published[symbol][kind] \in Nat
  BY DEF MarketDataTypeOK, Numbers
<1>3. longer \in Seq(Nat) /\ Len(longer) <= MAX_HISTORY_SIZE
  <2>1. data.history[kind] \in Seq(Nat) /\ Len(data.history[kind]) <= MAX_HISTORY_SIZE
    BY <1>1 DEF SymbolData, MarketDataTypeOK
  <2> QED
    BY <1>2, <2>1, PushedTyped
<1>4. data.history \in [Kinds -> Seq(Nat)] /\ data.listeners \in Seq(Subscription)
      /\ \A k \in Kinds : Len(data.history[k]) <= MAX_HISTORY_SIZE
  BY <1>1 DEF SymbolData, MarketDataTypeOK
<1> HIDE DEF longer, data
<1>5. /\ symbolDataMap'[symbol] \in SymbolData
      /\ \A k \in Kinds : Len(symbolDataMap'[symbol].history[k]) <= MAX_HISTORY_SIZE
  <2>1. [data.history EXCEPT ![kind] = longer] \in [Kinds -> Seq(Nat)]
    BY <1>3, <1>4
  <2>2. \A k \in Kinds : Len([data.history EXCEPT ![kind] = longer][k]) <= MAX_HISTORY_SIZE
    BY <1>3, <1>4
  <2> QED
    BY <1>1, <1>4, <2>1, <2>2 DEF SymbolData
<1>6. DOMAIN symbolDataMap' = DOMAIN symbolDataMap \cup {symbol}
  BY <1>1
<1>7. /\ DOMAIN symbolDataMap' \subseteq Symbols
      /\ symbolDataMap' \in [DOMAIN symbolDataMap' -> SymbolData]
      /\ \A s \in DOMAIN symbolDataMap', k \in Kinds :
           Len(symbolDataMap'[s].history[k]) <= MAX_HISTORY_SIZE
  BY <1>1, <1>5, <1>6, MapTyped
<1>8. published' \in [Symbols -> Numbers]
  <2>1. published \in [Symbols -> Numbers] /\ published[symbol] \in [Kinds -> Nat]
    BY DEF MarketDataTypeOK, Numbers
  <2>2. [published[symbol] EXCEPT ![kind] = @ + 1] \in [Kinds -> Nat]
    BY <2>1
  <2>3. published' = [published EXCEPT ![symbol] = [published[symbol] EXCEPT ![kind] = @ + 1]]
    BY DEF publish
  <2> QED
    BY <2>1, <2>2, <2>3 DEF Numbers
<1>9. /\ publication' \subseteq Publication /\ \A p, q \in publication' : p = q
      /\ \A p \in publication' : p.symbol \in DOMAIN symbolDataMap'
                                 /\ p.next \in 1 .. Len(symbolDataMap'[p.symbol].listeners) + 1
  <2>1. publication' = {[symbol |-> symbol, kind |-> kind, next |-> 1]}
    BY DEF publish
  <2>2. Len(symbolDataMap'[symbol].listeners) \in Nat
    BY <1>1, <1>4
  <2>3. 1 \in 1 .. Len(symbolDataMap'[symbol].listeners) + 1
    BY <2>2
  <2> QED
    BY <1>1, <2>1, <2>3 DEF Publication
<1>10. UNCHANGED owned
  BY DEF publish
<1> QED
  BY <1>7, <1>8, <1>9, <1>10 DEF MarketDataTypeOK, EntriesOf

LEMMA TypeNotify ==
  ASSUME MarketDataTypeOK, NEW p \in publication, notify(p)
  PROVE  MarketDataTypeOK'
<1> DEFINE data == symbolDataMap[p.symbol]
<1>1. /\ p \in Publication /\ publication = {p}
      /\ p.symbol \in DOMAIN symbolDataMap /\ data \in SymbolData
      /\ p.next \in Nat /\ p.next >= 1 /\ p.next <= Len(data.listeners)
      /\ data.listeners \in Seq(Subscription) /\ Len(data.listeners) \in Nat
  <2>1. /\ p \in Publication /\ publication = {p} /\ p.symbol \in DOMAIN symbolDataMap
        /\ p.next \in 1 .. Len(data.listeners) + 1 /\ data \in SymbolData
    BY DEF MarketDataTypeOK, EntriesOf
  <2>2. p.next <= Len(data.listeners)
    BY DEF notify, EntriesOf
  <2>3. data.listeners \in Seq(Subscription) /\ Len(data.listeners) \in Nat
    BY <2>1 DEF SymbolData
  <2> QED
    BY <2>1, <2>2, <2>3
<1>2. UNCHANGED <<owned, published>> /\ publication' = {[p EXCEPT !.next = @ + 1]}
  BY DEF notify
<1>3. [p EXCEPT !.next = @ + 1] = [symbol |-> p.symbol, kind |-> p.kind, next |-> p.next + 1]
  BY <1>1 DEF Publication
<1>4. CASE UNCHANGED symbolDataMap
  <2>1. publication' \subseteq Publication
    BY <1>1, <1>2, <1>3 DEF Publication
  <2>2. \A q \in publication' : q.symbol \in DOMAIN symbolDataMap
                                /\ q.next \in 1 .. Len(symbolDataMap[q.symbol].listeners) + 1
    BY <1>1, <1>2, <1>3
  <2>3. \A q, o \in publication' : q = o
    BY <1>2
  <2> QED
    BY <1>2, <1>4, <2>1, <2>2, <2>3 DEF MarketDataTypeOK, EntriesOf
<1>5. CASE Call(p)
  <2>1. PICK told \in Subscription :
          /\ DOMAIN symbolDataMap' = DOMAIN symbolDataMap
          /\ symbolDataMap' = [s \in DOMAIN symbolDataMap' |-> symbolDataMap'[s]]
          /\ symbolDataMap'[p.symbol] =
               [history |-> data.history, listeners |-> [data.listeners EXCEPT ![p.next] = told]]
          /\ \A s \in DOMAIN symbolDataMap \ {p.symbol} : symbolDataMap'[s] = symbolDataMap[s]
    <3>1. p.next <= Len(EntriesOf(p))
      BY <1>1 DEF EntriesOf
    <3> QED
      BY <1>5, <3>1, CallShape
  <2>2. [data.listeners EXCEPT ![p.next] = told] \in Seq(Subscription)
        /\ Len([data.listeners EXCEPT ![p.next] = told]) = Len(data.listeners)
    BY <1>1, ExceptSeq
  <2>3. /\ symbolDataMap'[p.symbol] \in SymbolData
        /\ \A k \in Kinds : Len(symbolDataMap'[p.symbol].history[k]) <= MAX_HISTORY_SIZE
        /\ Len(symbolDataMap'[p.symbol].listeners) = Len(data.listeners)
    <3>1. \A k \in Kinds : Len(data.history[k]) <= MAX_HISTORY_SIZE
      BY <1>1 DEF MarketDataTypeOK
    <3>2. data.history \in [Kinds -> Seq(Nat)]
      BY <1>1 DEF SymbolData
    <3> HIDE DEF data
    <3> QED
      BY <2>1, <2>2, <3>1, <3>2 DEF SymbolData
  <2>4. p.symbol \in Symbols /\ DOMAIN symbolDataMap' = DOMAIN symbolDataMap \cup {p.symbol}
    BY <1>1, <2>1 DEF Publication
  <2>5. /\ DOMAIN symbolDataMap' \subseteq Symbols
        /\ symbolDataMap' \in [DOMAIN symbolDataMap' -> SymbolData]
        /\ \A s \in DOMAIN symbolDataMap', k \in Kinds :
             Len(symbolDataMap'[s].history[k]) <= MAX_HISTORY_SIZE
    BY <2>1, <2>3, <2>4, MapTyped
  <2>6. publication' \subseteq Publication
    BY <1>1, <1>2, <1>3 DEF Publication
  <2>7. \A q \in publication' :
          q.symbol \in DOMAIN symbolDataMap'
          /\ q.next \in 1 .. Len(symbolDataMap'[q.symbol].listeners) + 1
    BY <1>1, <1>2, <1>3, <2>1, <2>3
  <2>8. \A q, o \in publication' : q = o
    BY <1>2
  <2> QED
    BY <1>2, <2>5, <2>6, <2>7, <2>8 DEF MarketDataTypeOK, EntriesOf
<1> QED
  BY <1>4, <1>5 DEF notify

LEMMA TypeNext == MarketDataTypeOK /\ [MarketDataNext]_mdVars => MarketDataTypeOK'
<1> SUFFICES ASSUME MarketDataTypeOK, [MarketDataNext]_mdVars
             PROVE  MarketDataTypeOK'
  OBVIOUS
<1>1. ASSUME NEW p \in publication, publishReturns(p)
      PROVE  MarketDataTypeOK'
  BY <1>1 DEF publishReturns, MarketDataTypeOK
<1>2. ASSUME NEW listener \in Listeners, drop(listener)
      PROVE  MarketDataTypeOK'
  BY <1>2 DEF drop, MarketDataTypeOK, EntriesOf
<1>3. CASE UNCHANGED mdVars
  BY <1>3 DEF mdVars, MarketDataTypeOK, EntriesOf
<1> QED
  BY <1>1, <1>2, <1>3, TypeSubscribe, TypeUnsubscribe, TypePublish, TypeNotify
  DEF MarketDataNext

(* The handler keeps its types, its histories stay within the limit, and   *)
(* no publication ever reaches past its vector of listeners.               *)
THEOREM MarketDataTypeCorrect == MarketDataSpec => []MarketDataTypeOK
BY TypeInit, TypeNext, PTL DEF MarketDataSpec

-----------------------------------------------------------------------------
(* The inductive invariant.  A symbol without an entry has no past, so     *)
(* that its entry starts with an empty one; and what a subscription has    *)
(* still to hear of was published after it was made.                       *)
FirstPublished ==
  \A symbol \in Symbols \ DOMAIN symbolDataMap, kind \in Kinds : published[symbol][kind] = 0

SubscribedBefore ==
  \A symbol \in DOMAIN symbolDataMap, kind \in Kinds :
    \A i \in DOMAIN symbolDataMap[symbol].listeners :
      symbolDataMap[symbol].listeners[i].since[kind] + Lag(symbol, kind, i)
        <= published[symbol][kind]

MarketDataInv ==
  /\ MarketDataTypeOK
  /\ FirstPublished
  /\ HistoryIsRecent
  /\ SubscribedBefore
  /\ HeardAsSubscribed

LEMMA NothingThrough ==
  ASSUME NEW n \in Nat
  PROVE  Through(n, n) = <<>>
<1>1. Through(n, n) \in Seq(Nat) /\ Len(Through(n, n)) = 0
  BY ThroughIsSeq
<1> QED
  BY <1>1, EmptySeq

LEMMA NoPastIsRecent == Recent(0) = <<>>
<1>1. MAX_HISTORY_SIZE \in Nat /\ 0 < MAX_HISTORY_SIZE
  BY MarketDataAssumption
<1>2. Lesser(0, MAX_HISTORY_SIZE) = 0 /\ 0 - 0 = 0
  BY <1>1 DEF Lesser
<1> QED
  BY <1>2, NothingThrough DEF Recent

LEMMA InvInit == MarketDataInit => MarketDataInv
<1> SUFFICES ASSUME MarketDataInit PROVE MarketDataInv
  OBVIOUS
<1>1. DOMAIN symbolDataMap = {}
  BY DEF MarketDataInit
<1>2. FirstPublished
  BY DEF MarketDataInit, FirstPublished
<1> QED
  BY <1>1, <1>2, TypeInit DEF MarketDataInv, HistoryIsRecent, SubscribedBefore, HeardAsSubscribed

(* The histories are recent after a step of any kind. *)
LEMMA RecentNext ==
  ASSUME MarketDataInv, [MarketDataNext]_mdVars
  PROVE  FirstPublished' /\ HistoryIsRecent'
<1>0. MarketDataTypeOK
  BY DEF MarketDataInv
<1>1. ASSUME NEW symbol \in Symbols, NEW listener \in Listeners, subscribe(symbol, listener)
      PROVE  FirstPublished' /\ HistoryIsRecent'
  <2>1. /\ DOMAIN symbolDataMap' = DOMAIN symbolDataMap \cup {symbol}
        /\ symbolDataMap'[symbol].history = DataOf(symbol).history
        /\ \A s \in DOMAIN symbolDataMap \ {symbol} : symbolDataMap'[s] = symbolDataMap[s]
    <3> DEFINE data == DataOf(symbol)
               more == Append(data.listeners, NewSubscription(listener, published[symbol]))
    <3>1. /\ DOMAIN symbolDataMap' = DOMAIN symbolDataMap \cup {symbol}
          /\ symbolDataMap'[symbol] = [history |-> data.history, listeners |-> more]
          /\ \A s \in DOMAIN symbolDataMap \ {symbol} : symbolDataMap'[s] = symbolDataMap[s]
      BY <1>0, <1>1, SubscribeShape
    <3> HIDE DEF more
    <3> QED
      BY <3>1
  <2>2. UNCHANGED published
    BY <1>1 DEF subscribe
  <2>3. ASSUME symbol \notin DOMAIN symbolDataMap, NEW kind \in Kinds
        PROVE  DataOf(symbol).history[kind]
                 = Recent(published[symbol][kind])
    <3>1. DataOf(symbol).history[kind] = <<>>
      BY <2>3 DEF DataOf, NewSymbolData
    <3>2. published[symbol][kind] = 0
      BY <2>3 DEF MarketDataInv, FirstPublished
    <3> QED
      BY <3>1, <3>2, NoPastIsRecent
  <2>4. symbol \in DOMAIN symbolDataMap => DataOf(symbol) = symbolDataMap[symbol]
    BY DEF DataOf
  <2>5. HistoryIsRecent'
    BY <2>1, <2>2, <2>3, <2>4 DEF MarketDataInv, HistoryIsRecent
  <2> QED
    BY <2>1, <2>2, <2>5 DEF MarketDataInv, FirstPublished
<1>2. ASSUME NEW symbol \in Symbols, NEW listener \in Listeners, unsubscribe(symbol, listener)
      PROVE  FirstPublished' /\ HistoryIsRecent'
  <2>1. /\ DOMAIN symbolDataMap' = DOMAIN symbolDataMap
        /\ \A s \in DOMAIN symbolDataMap : symbolDataMap'[s].history = symbolDataMap[s].history
    <3>1. PICK left \in Seq(Subscription) :
            /\ DOMAIN symbolDataMap' = DOMAIN symbolDataMap
            /\ symbolDataMap'[symbol] =
                 [history |-> symbolDataMap[symbol].history, listeners |-> left]
            /\ \A s \in DOMAIN symbolDataMap \ {symbol} : symbolDataMap'[s] = symbolDataMap[s]
      BY <1>0, <1>2, UnsubscribeShape
    <3> QED
      BY <3>1
  <2>2. UNCHANGED published
    BY <1>2 DEF unsubscribe
  <2> QED
    BY <2>1, <2>2 DEF MarketDataInv, HistoryIsRecent, FirstPublished
<1>3. ASSUME NEW symbol \in Symbols, NEW kind \in Kinds, publish(symbol, kind)
      PROVE  FirstPublished' /\ HistoryIsRecent'
  <2> DEFINE n == published[symbol][kind]
             longer == Pushed(symbolDataMap[symbol].history[kind], n + 1)
  <2>1. /\ symbol \in DOMAIN symbolDataMap /\ symbolDataMap[symbol] \in SymbolData
        /\ DOMAIN symbolDataMap' = DOMAIN symbolDataMap
        /\ symbolDataMap'[symbol].history
             = [symbolDataMap[symbol].history EXCEPT ![kind] = longer]
        /\ \A s \in DOMAIN symbolDataMap \ {symbol} : symbolDataMap'[s] = symbolDataMap[s]
    <3> DEFINE data == symbolDataMap[symbol]
               history == [data.history EXCEPT ![kind] = longer]
    <3>1. /\ symbol \in DOMAIN symbolDataMap /\ data \in SymbolData
          /\ DOMAIN symbolDataMap' = DOMAIN symbolDataMap
          /\ symbolDataMap'[symbol] = [history |-> history, listeners |-> data.listeners]
          /\ \A s \in DOMAIN symbolDataMap \ {symbol} : symbolDataMap'[s] = symbolDataMap[s]
      BY <1>0, <1>3, PublishShape
    <3>2. symbolDataMap'[symbol].history = history
      <4> HIDE DEF history
      <4> QED
        BY <3>1
    <3> QED
      BY <3>1, <3>2
  <2>2. published \in [Symbols -> [Kinds -> Nat]]
    BY DEF MarketDataInv, MarketDataTypeOK, Numbers
  <2>3. /\ published'[symbol][kind] = n + 1
        /\ \A s \in Symbols, k \in Kinds :
             s # symbol \/ k # kind => published'[s][k] = published[s][k]
    BY <1>3, <2>2 DEF publish
  <2>4. longer = Recent(n + 1)
    <3>1. symbolDataMap[symbol].history[kind] = Recent(n)
      BY <2>1 DEF MarketDataInv, HistoryIsRecent
    <3>2. n \in Nat
      BY <2>2
    <3> QED
      BY <3>1, <3>2, PushedIsRecent
  <2>5. symbolDataMap[symbol].history \in [Kinds -> Seq(Nat)]
    BY <2>1 DEF SymbolData
  <2>6. DOMAIN symbolDataMap \subseteq Symbols
    BY DEF MarketDataInv, MarketDataTypeOK
  <2>7. ASSUME NEW s \in DOMAIN symbolDataMap, NEW k \in Kinds
        PROVE  symbolDataMap'[s].history[k]
                 = Recent(published'[s][k])
    <3>1. CASE s = symbol /\ k = kind
      <4>1. symbolDataMap'[s].history[k] = longer
        BY <2>1, <2>5, <3>1
      <4>2. published'[s][k] = n + 1
        BY <2>3, <3>1
      <4> HIDE DEF n, longer
      <4> QED
        BY <2>4, <4>1, <4>2
    <3>2. CASE ~(s = symbol /\ k = kind)
      <4>1. symbolDataMap'[s].history[k] = symbolDataMap[s].history[k]
        BY <2>1, <2>5, <3>2
      <4>2. published'[s][k] = published[s][k]
        BY <2>3, <2>6, <3>2
      <4> QED
        BY <4>1, <4>2 DEF MarketDataInv, HistoryIsRecent
    <3> QED
      BY <3>1, <3>2
  <2>8. HistoryIsRecent'
    BY <2>1, <2>7 DEF HistoryIsRecent
  <2> QED
    BY <2>1, <2>3, <2>8 DEF MarketDataInv, FirstPublished
<1>4. ASSUME NEW p \in publication, notify(p)
      PROVE  FirstPublished' /\ HistoryIsRecent'
  <2>1. /\ DOMAIN symbolDataMap' = DOMAIN symbolDataMap
        /\ \A s \in DOMAIN symbolDataMap : symbolDataMap'[s].history = symbolDataMap[s].history
    <3>1. CASE Call(p)
      <4>1. p.next <= Len(EntriesOf(p))
        BY <1>4 DEF notify
      <4> QED
        <5> DEFINE data == symbolDataMap[p.symbol]
        <5>1. PICK told \in Subscription :
                /\ DOMAIN symbolDataMap' = DOMAIN symbolDataMap
                /\ symbolDataMap'[p.symbol] =
                     [history |-> data.history,
                      listeners |-> [data.listeners EXCEPT ![p.next] = told]]
                /\ \A s \in DOMAIN symbolDataMap \ {p.symbol} :
                     symbolDataMap'[s] = symbolDataMap[s]
          BY <1>0, <3>1, <4>1, CallShape
        <5> QED
          BY <5>1
    <3> QED
      BY <1>4, <3>1 DEF notify
  <2>2. UNCHANGED published
    BY <1>4 DEF notify
  <2> QED
    BY <2>1, <2>2 DEF MarketDataInv, HistoryIsRecent, FirstPublished
<1>5. CASE UNCHANGED <<symbolDataMap, published>>
  BY <1>5 DEF MarketDataInv, HistoryIsRecent, FirstPublished
<1> QED
  BY <1>1, <1>2, <1>3, <1>4, <1>5 DEF MarketDataNext, mdVars, publishReturns, drop

(* What a subscription has heard and is still to hear of, entry by entry:  *)
(* n is what was published, lag what has not reached the entry.            *)
EntryUpToDate(entry, kind, n, lag, live) ==
  /\ entry.since[kind] + lag <= n
  /\ live => HasHeard(entry, kind, n - lag)

LEMMA EntriesUpToDate ==
  SubscribedBefore /\ HeardAsSubscribed <=>
    \A symbol \in DOMAIN symbolDataMap, kind \in Kinds :
      \A i \in DOMAIN symbolDataMap[symbol].listeners :
        LET entry == symbolDataMap[symbol].listeners[i]
        IN EntryUpToDate(entry, kind, published[symbol][kind], Lag(symbol, kind, i),
                         ~Expired(entry))
BY DEF SubscribedBefore, HeardAsSubscribed, EntryUpToDate

(* The same of the next state. *)
LEMMA EntriesUpToDateNext ==
  ASSUME \A symbol \in DOMAIN symbolDataMap', kind \in Kinds :
           \A i \in DOMAIN symbolDataMap'[symbol].listeners :
             EntryUpToDate(symbolDataMap'[symbol].listeners[i], kind,
                           published'[symbol][kind], Lag(symbol, kind, i)',
                           symbolDataMap'[symbol].listeners[i].listener \in owned')
  PROVE  SubscribedBefore' /\ HeardAsSubscribed'
BY DEF SubscribedBefore, HeardAsSubscribed, EntryUpToDate, Expired

(* Nothing lags while nothing is on its way. *)
LEMMA NoLag ==
  ASSUME publication = {}, NEW symbol, NEW kind, NEW i
  PROVE  Lag(symbol, kind, i) = 0
BY DEF Lag

(* An entry that was made with the numbers published so far has heard      *)
(* nothing and is to hear nothing.                                         *)
LEMMA NewEntryUpToDate ==
  ASSUME NEW listener, NEW since \in Numbers, NEW kind \in Kinds
  PROVE  EntryUpToDate(NewSubscription(listener, since), kind, since[kind], 0, TRUE)
<1>1. since[kind] \in Nat
  BY DEF Numbers
<1>2. Through(since[kind], since[kind] - 0) = <<>>
  BY <1>1, NothingThrough
<1>3. /\ NewSubscription(listener, since).since[kind] = since[kind]
      /\ NewSubscription(listener, since).heard[kind] = <<>>
  BY DEF NewSubscription
<1> QED
  BY <1>1, <1>2, <1>3 DEF EntryUpToDate, HasHeard

(* The call that tells an entry of publication n takes its lag away. *)
LEMMA CalledEntryUpToDate ==
  ASSUME NEW entry \in Subscription, NEW kind \in Kinds, NEW n \in Nat,
         EntryUpToDate(entry, kind, n, 1, TRUE)
  PROVE  EntryUpToDate([listener |-> entry.listener, since |-> entry.since,
                        heard |-> [entry.heard EXCEPT ![kind] = Append(@, n)]],
                       kind, n, 0, TRUE)
<1> DEFINE a == entry.since[kind]
<1>1. a \in Nat /\ a + 1 <= n
  BY DEF EntryUpToDate, Subscription, Numbers
<1>2. entry.heard[kind] = Through(a, n - 1)
  BY DEF EntryUpToDate, HasHeard
<1>3. n - 1 \in Nat /\ a <= n - 1 /\ n - 1 + 1 = n /\ n - 0 = n
  BY <1>1
<1>4. Append(Through(a, n - 1), n) = Through(a, n)
  <2>1. \A b \in Nat : a <= b => Append(Through(a, b), b + 1) = Through(a, b + 1)
    BY <1>1, ThroughAppend
  <2> QED
    BY <1>3, <2>1
<1>5. [entry.heard EXCEPT ![kind] = Append(@, n)][kind] = Append(entry.heard[kind], n)
  BY DEF Subscription
<1> DEFINE heard == [entry.heard EXCEPT ![kind] = Append(@, n)]
<1>6. heard[kind] = Through(a, n - 0)
  BY <1>2, <1>3, <1>4, <1>5
<1> HIDE DEF heard
<1> QED
  BY <1>1, <1>3, <1>6 DEF EntryUpToDate, HasHeard, heard

LEMMA EntriesNext ==
  ASSUME MarketDataInv, [MarketDataNext]_mdVars
  PROVE  SubscribedBefore' /\ HeardAsSubscribed'
<1>0. MarketDataTypeOK
  BY DEF MarketDataInv
<1>a. \A s \in DOMAIN symbolDataMap, k \in Kinds :
        \A i \in DOMAIN symbolDataMap[s].listeners :
          EntryUpToDate(symbolDataMap[s].listeners[i], k, published[s][k], Lag(s, k, i),
                        symbolDataMap[s].listeners[i].listener \in owned)
  BY EntriesUpToDate DEF MarketDataInv, Expired
<1>b. published \in [Symbols -> Numbers] /\ DOMAIN symbolDataMap \subseteq Symbols
  BY <1>0 DEF MarketDataTypeOK
<1>c. \A s \in DOMAIN symbolDataMap :
        /\ symbolDataMap[s] \in SymbolData
        /\ symbolDataMap[s].listeners \in Seq(Subscription)
        /\ Len(symbolDataMap[s].listeners) \in Nat
        /\ DOMAIN symbolDataMap[s].listeners = 1 .. Len(symbolDataMap[s].listeners)
  <2> SUFFICES ASSUME NEW s \in DOMAIN symbolDataMap
               PROVE  /\ symbolDataMap[s] \in SymbolData
                      /\ symbolDataMap[s].listeners \in Seq(Subscription)
                      /\ Len(symbolDataMap[s].listeners) \in Nat
                      /\ DOMAIN symbolDataMap[s].listeners = 1 .. Len(symbolDataMap[s].listeners)
    OBVIOUS
  <2>1. symbolDataMap[s] \in SymbolData
    BY <1>0 DEF MarketDataTypeOK
  <2>2. symbolDataMap[s].listeners \in Seq(Subscription)
    BY <2>1 DEF SymbolData
  <2> QED
    BY <2>1, <2>2
<1>1. ASSUME NEW symbol \in Symbols, NEW listener \in Listeners, subscribe(symbol, listener)
      PROVE  SubscribedBefore' /\ HeardAsSubscribed'
  <2> DEFINE data == DataOf(symbol)
             new == NewSubscription(listener, published[symbol])
             more == Append(data.listeners, new)
  <2>1. /\ data \in SymbolData /\ new \in Subscription
        /\ DOMAIN symbolDataMap' = DOMAIN symbolDataMap \cup {symbol}
        /\ symbolDataMap'[symbol] = [history |-> data.history, listeners |-> more]
        /\ \A s \in DOMAIN symbolDataMap \ {symbol} : symbolDataMap'[s] = symbolDataMap[s]
    BY <1>0, <1>1, SubscribeShape
  <2>2. publication = {} /\ publication' = {} /\ owned' = owned /\ published' = published
    BY <1>1 DEF subscribe, dataMutexIsFree
  <2>3. \A s, k, i : Lag(s, k, i) = 0 /\ Lag(s, k, i)' = 0
    BY <2>2 DEF Lag
  <2>4. \A k \in Kinds : EntryUpToDate(new, k, published[symbol][k], 0, TRUE)
    BY <1>b, NewEntryUpToDate
  <2>5. \A i \in DOMAIN data.listeners, k \in Kinds :
          EntryUpToDate(data.listeners[i], k, published[symbol][k], 0,
                        data.listeners[i].listener \in owned)
    <3>1. CASE symbol \in DOMAIN symbolDataMap
      <4>1. data = symbolDataMap[symbol]
        BY <3>1 DEF DataOf
      <4> HIDE DEF data
      <4> QED
        BY <1>a, <2>3, <3>1, <4>1
    <3>2. CASE symbol \notin DOMAIN symbolDataMap
      <4>1. data.listeners = <<>>
        BY <3>2 DEF DataOf, NewSymbolData
      <4> HIDE DEF data
      <4> QED
        BY <4>1
    <3> QED
      BY <3>1, <3>2
  <2>6. data.listeners \in Seq(Subscription)
    BY <2>1 DEF SymbolData
  <2>7. /\ more \in Seq(Subscription) /\ Len(more) = Len(data.listeners) + 1
        /\ \A i \in 1 .. Len(data.listeners) : more[i] = data.listeners[i]
        /\ more[Len(data.listeners) + 1] = new
    BY <2>1, <2>6, AppendProperties
  <2>8. new.listener \in owned
    BY <1>1 DEF subscribe, NewSubscription
  <2> HIDE DEF data, new, more
  <2>9. ASSUME NEW k \in Kinds, NEW i \in DOMAIN more
        PROVE  EntryUpToDate(more[i], k, published[symbol][k], 0, more[i].listener \in owned)
    <3>1. DOMAIN more = 1 .. Len(data.listeners) + 1
          /\ DOMAIN data.listeners = 1 .. Len(data.listeners) /\ Len(data.listeners) \in Nat
      BY <2>6, <2>7
    <3>2. CASE i = Len(data.listeners) + 1
      <4>1. EntryUpToDate(new, k, published[symbol][k], 0, TRUE)
        BY <2>4
      <4>2. more[i] = new
        BY <2>7, <3>2
      <4>3. EntryUpToDate(new, k, published[symbol][k], 0, new.listener \in owned)
        BY <2>8, <4>1 DEF EntryUpToDate
      <4> QED
        BY <4>2, <4>3
    <3>3. CASE i # Len(data.listeners) + 1
      <4>1. i \in DOMAIN data.listeners /\ more[i] = data.listeners[i]
        BY <2>7, <3>1, <3>3
      <4> QED
        BY <2>5, <4>1
    <3> QED
      BY <3>2, <3>3
  <2>10. symbolDataMap'[symbol].listeners = more
    BY <2>1
  <2>11. ASSUME NEW s \in DOMAIN symbolDataMap', NEW k \in Kinds,
                NEW i \in DOMAIN symbolDataMap'[s].listeners
         PROVE  EntryUpToDate(symbolDataMap'[s].listeners[i], k, published'[s][k],
                              Lag(s, k, i)', symbolDataMap'[s].listeners[i].listener \in owned')
    <3>1. Lag(s, k, i)' = 0 /\ Lag(s, k, i) = 0
      BY <2>3
    <3>2. CASE s = symbol
      BY <2>2, <2>9, <2>10, <3>1, <3>2
    <3>3. CASE s # symbol
      <4>1. s \in DOMAIN symbolDataMap /\ symbolDataMap'[s] = symbolDataMap[s]
        BY <2>1, <3>3
      <4> QED
        BY <1>a, <2>2, <3>1, <4>1
    <3> QED
      BY <3>2, <3>3
  <2> QED
    BY <2>11, EntriesUpToDateNext
<1>2. ASSUME NEW symbol \in Symbols, NEW listener \in Listeners, unsubscribe(symbol, listener)
      PROVE  SubscribedBefore' /\ HeardAsSubscribed'
  <2>1. PICK left \in Seq(Subscription) :
          /\ \A i \in DOMAIN left : \E j \in DOMAIN symbolDataMap[symbol].listeners :
               left[i] = symbolDataMap[symbol].listeners[j]
          /\ symbol \in DOMAIN symbolDataMap
          /\ DOMAIN symbolDataMap' = DOMAIN symbolDataMap
          /\ symbolDataMap'[symbol] =
               [history |-> symbolDataMap[symbol].history, listeners |-> left]
          /\ \A s \in DOMAIN symbolDataMap \ {symbol} : symbolDataMap'[s] = symbolDataMap[s]
    BY <1>0, <1>2, UnsubscribeShape
  <2>2. publication = {} /\ publication' = {} /\ owned' = owned /\ published' = published
    BY <1>2 DEF unsubscribe, dataMutexIsFree
  <2>3. \A s, k, i : Lag(s, k, i) = 0 /\ Lag(s, k, i)' = 0
    BY <2>2 DEF Lag
  <2>4. symbolDataMap'[symbol].listeners = left
    BY <2>1
  <2>5. ASSUME NEW s \in DOMAIN symbolDataMap', NEW k \in Kinds,
               NEW i \in DOMAIN symbolDataMap'[s].listeners
        PROVE  EntryUpToDate(symbolDataMap'[s].listeners[i], k, published'[s][k],
                             Lag(s, k, i)', symbolDataMap'[s].listeners[i].listener \in owned')
    <3>1. Lag(s, k, i)' = 0
      BY <2>3
    <3>2. CASE s = symbol
      <4>1. PICK j \in DOMAIN symbolDataMap[symbol].listeners :
              left[i] = symbolDataMap[symbol].listeners[j]
        BY <2>1, <2>4, <3>2
      <4>2. EntryUpToDate(symbolDataMap[symbol].listeners[j], k, published[symbol][k], 0,
                          symbolDataMap[symbol].listeners[j].listener \in owned)
        BY <1>a, <2>1, <2>3
      <4> QED
        BY <2>2, <2>4, <3>1, <3>2, <4>1, <4>2
    <3>3. CASE s # symbol
      <4>1. s \in DOMAIN symbolDataMap /\ symbolDataMap'[s] = symbolDataMap[s]
        BY <2>1, <3>3
      <4>2. Lag(s, k, i) = 0
        BY <2>3
      <4> QED
        BY <1>a, <2>2, <3>1, <4>1, <4>2
    <3> QED
      BY <3>2, <3>3
  <2> QED
    BY <2>5, EntriesUpToDateNext
<1>3. ASSUME NEW symbol \in Symbols, NEW kind \in Kinds, publish(symbol, kind)
      PROVE  SubscribedBefore' /\ HeardAsSubscribed'
  <2> DEFINE n == published[symbol][kind]
  <2>1. /\ DOMAIN symbolDataMap' = DOMAIN symbolDataMap
        /\ symbolDataMap'[symbol].listeners = symbolDataMap[symbol].listeners
        /\ \A s \in DOMAIN symbolDataMap \ {symbol} : symbolDataMap'[s] = symbolDataMap[s]
    <3> DEFINE data == symbolDataMap[symbol]
               longer == Pushed(data.history[kind], n + 1)
               history == [data.history EXCEPT ![kind] = longer]
    <3>1. /\ DOMAIN symbolDataMap' = DOMAIN symbolDataMap
          /\ symbolDataMap'[symbol] = [history |-> history, listeners |-> data.listeners]
          /\ \A s \in DOMAIN symbolDataMap \ {symbol} : symbolDataMap'[s] = symbolDataMap[s]
      BY <1>0, <1>3, PublishShape
    <3> HIDE DEF history
    <3> QED
      BY <3>1
  <2>2. publication = {} /\ owned' = owned
        /\ publication' = {[symbol |-> symbol, kind |-> kind, next |-> 1]}
    BY <1>3 DEF publish, dataMutexIsFree
  <2>3. \A s, k, i : Lag(s, k, i) = 0
    BY <2>2 DEF Lag
  <2>4. \A i \in Nat \ {0} : Lag(symbol, kind, i)' = 1
    BY <2>2 DEF Lag
  <2>5. \A s, k, i : s # symbol \/ k # kind => Lag(s, k, i)' = 0
    BY <2>2 DEF Lag
  <2>6. published \in [Symbols -> [Kinds -> Nat]] /\ n \in Nat
    BY <1>b DEF Numbers
  <2>7. /\ published'[symbol][kind] = n + 1
        /\ \A s \in Symbols, k \in Kinds :
             s # symbol \/ k # kind => published'[s][k] = published[s][k]
    BY <1>3, <2>6 DEF publish
  <2>8. ASSUME NEW s \in DOMAIN symbolDataMap', NEW k \in Kinds,
               NEW i \in DOMAIN symbolDataMap'[s].listeners
        PROVE  EntryUpToDate(symbolDataMap'[s].listeners[i], k, published'[s][k],
                             Lag(s, k, i)', symbolDataMap'[s].listeners[i].listener \in owned')
    <3> DEFINE entry == symbolDataMap[s].listeners[i]
    <3>1. s \in DOMAIN symbolDataMap /\ symbolDataMap'[s].listeners = symbolDataMap[s].listeners
      BY <2>1
    <3>2. EntryUpToDate(entry, k, published[s][k], 0, entry.listener \in owned)
      BY <1>a, <2>3, <3>1
    <3>3. CASE s = symbol /\ k = kind
      <4>1. Lag(s, k, i)' = 1
        BY <1>c, <2>4, <3>1, <3>3
      <4>2. entry.since[k] \in Nat
        <5>1. entry \in Subscription
          BY <1>c, <3>1
        <5> QED
          BY <5>1 DEF Subscription, Numbers
      <4> HIDE DEF entry, n
      <4>3. EntryUpToDate(entry, k, n, 0, entry.listener \in owned)
        BY <3>2, <3>3 DEF n
      <4>4. n - 0 = n + 1 - 1
        BY <2>6
      <4>5. EntryUpToDate(entry, k, n + 1, 1, entry.listener \in owned)
        BY <2>6, <4>2, <4>3, <4>4 DEF EntryUpToDate
      <4> QED
        BY <2>2, <2>7, <3>1, <3>3, <4>1, <4>5 DEF entry
    <3>4. CASE s # symbol \/ k # kind
      <4>1. Lag(s, k, i)' = 0 /\ published'[s][k] = published[s][k]
        BY <1>b, <2>5, <2>7, <3>1, <3>4
      <4> QED
        BY <2>2, <3>1, <3>2, <4>1
    <3> QED
      BY <3>3, <3>4
  <2> QED
    BY <2>8, EntriesUpToDateNext
<1>4. ASSUME NEW p \in publication, notify(p)
      PROVE  SubscribedBefore' /\ HeardAsSubscribed'
  <2> DEFINE entries == symbolDataMap[p.symbol].listeners
             entry == entries[p.next]
             n == published[p.symbol][p.kind]
             told == [listener |-> entry.listener, since |-> entry.since,
                      heard |-> [entry.heard EXCEPT ![p.kind] = Append(@, n)]]
  <2>1. /\ publication = {p} /\ p \in Publication /\ p.symbol \in DOMAIN symbolDataMap
        /\ p.kind \in Kinds /\ p.symbol \in Symbols /\ p.next \in Nat \ {0}
        /\ p.next <= Len(entries) /\ p.next \in DOMAIN entries
    <3>1. /\ publication = {p} /\ p \in Publication /\ p.symbol \in DOMAIN symbolDataMap
          /\ p.next \in 1 .. Len(entries) + 1
      BY <1>0 DEF MarketDataTypeOK, EntriesOf
    <3>2. p.next <= Len(entries)
      BY <1>4 DEF notify, EntriesOf
    <3>3. Len(entries) \in Nat /\ DOMAIN entries = 1 .. Len(entries)
      BY <1>c, <3>1
    <3> QED
      BY <3>1, <3>2, <3>3 DEF Publication
  <2>2. /\ owned' = owned /\ published' = published
        /\ publication' = {[symbol |-> p.symbol, kind |-> p.kind, next |-> p.next + 1]}
    <3>1. [p EXCEPT !.next = @ + 1] = [symbol |-> p.symbol, kind |-> p.kind, next |-> p.next + 1]
      BY <2>1 DEF Publication
    <3> QED
      BY <1>4, <3>1 DEF notify
  <2>3. Lag(p.symbol, p.kind, p.next) = 1 /\ Lag(p.symbol, p.kind, p.next)' = 0
    <3>1. Lag(p.symbol, p.kind, p.next) = 1
      BY <2>1 DEF Lag
    <3>2. Lag(p.symbol, p.kind, p.next)' = 0
      <4>1. ~(p.next + 1 <= p.next)
        BY <2>1
      <4> QED
        BY <2>2, <4>1 DEF Lag
    <3> QED
      BY <3>1, <3>2
  <2>4. ASSUME NEW s, NEW k, NEW i \in Nat, s # p.symbol \/ k # p.kind \/ i # p.next
        PROVE  Lag(s, k, i)' = Lag(s, k, i)
    <3>1. i # p.next => (p.next <= i <=> p.next + 1 <= i)
      BY <2>1
    <3>2. Lag(s, k, i) = IF p.symbol = s /\ p.kind = k /\ p.next <= i THEN 1 ELSE 0
      BY <2>1 DEF Lag
    <3>3. Lag(s, k, i)' = IF p.symbol = s /\ p.kind = k /\ p.next + 1 <= i THEN 1 ELSE 0
      BY <2>2 DEF Lag
    <3> QED
      BY <2>4, <3>1, <3>2, <3>3
  <2>5. EntryUpToDate(entry, p.kind, n, 1, entry.listener \in owned)
    BY <1>a, <2>1, <2>3
  <2>6. entry \in Subscription /\ n \in Nat
    BY <1>b, <1>c, <2>1 DEF Numbers
  <2>7. CASE Expired(entry) /\ UNCHANGED symbolDataMap
    <3>1. ASSUME NEW s \in DOMAIN symbolDataMap', NEW k \in Kinds,
                 NEW i \in DOMAIN symbolDataMap'[s].listeners
          PROVE  EntryUpToDate(symbolDataMap'[s].listeners[i], k, published'[s][k],
                               Lag(s, k, i)', symbolDataMap'[s].listeners[i].listener \in owned')
      <4>1. CASE s = p.symbol /\ k = p.kind /\ i = p.next
        <5>1. entry.since[k] \in Nat /\ entry.listener \notin owned
          BY <2>6, <2>7 DEF Subscription, Numbers, Expired
        <5>2. EntryUpToDate(entry, k, n, 0, entry.listener \in owned)
          <6> HIDE DEF entry, n
          <6>1. entry.since[k] + 1 <= n
            BY <2>5, <4>1 DEF EntryUpToDate
          <6>2. entry.since[k] + 0 <= n
            BY <2>6, <5>1, <6>1
          <6> QED
            BY <5>1, <6>2 DEF EntryUpToDate
        <5> QED
          BY <2>2, <2>3, <2>7, <4>1, <5>2
      <4>2. CASE s # p.symbol \/ k # p.kind \/ i # p.next
        <5>1. i \in Nat
          BY <1>c, <2>7, <3>1
        <5>2. Lag(s, k, i)' = Lag(s, k, i)
          BY <2>4, <4>2, <5>1
        <5> QED
          BY <1>a, <2>2, <2>7, <5>2
      <4> QED
        BY <4>1, <4>2
    <3> QED
      BY <3>1, EntriesUpToDateNext
  <2>8. CASE ~Expired(entry) /\ Call(p)
    <3>1. /\ told \in Subscription
          /\ DOMAIN symbolDataMap' = DOMAIN symbolDataMap
          /\ symbolDataMap'[p.symbol] =
               [history |-> symbolDataMap[p.symbol].history,
                listeners |-> [entries EXCEPT ![p.next] = told]]
          /\ \A s \in DOMAIN symbolDataMap \ {p.symbol} : symbolDataMap'[s] = symbolDataMap[s]
      <4>1. p.next <= Len(EntriesOf(p))
        BY <2>1 DEF EntriesOf
      <4> QED
        BY <1>0, <2>8, <4>1, CallShape
    <3>2. EntryUpToDate(told, p.kind, n, 0, TRUE)
      <4>1. EntryUpToDate(entry, p.kind, n, 1, TRUE)
        BY <2>5, <2>8 DEF Expired, EntryUpToDate
      <4> QED
        BY <2>1, <2>6, <4>1, CalledEntryUpToDate
    <3>3. told.listener = entry.listener /\ told.since = entry.since
          /\ \A k \in Kinds : k # p.kind => told.heard[k] = entry.heard[k]
      BY <2>6 DEF Subscription
    <3>4. entry.listener \in owned
      BY <2>8 DEF Expired
    <3> HIDE DEF told
    <3>5. /\ symbolDataMap'[p.symbol].listeners = [entries EXCEPT ![p.next] = told]
          /\ DOMAIN symbolDataMap'[p.symbol].listeners = DOMAIN entries
      BY <3>1
    <3>6. ASSUME NEW s \in DOMAIN symbolDataMap', NEW k \in Kinds,
                 NEW i \in DOMAIN symbolDataMap'[s].listeners
          PROVE  EntryUpToDate(symbolDataMap'[s].listeners[i], k, published'[s][k],
                               Lag(s, k, i)', symbolDataMap'[s].listeners[i].listener \in owned')
      <4>1. i \in Nat /\ s \in DOMAIN symbolDataMap
            /\ i \in DOMAIN symbolDataMap[s].listeners
        BY <1>c, <2>1, <3>1, <3>5
      <4>2. CASE s = p.symbol /\ i = p.next
        <5>1. symbolDataMap'[s].listeners[i] = told
          BY <2>1, <3>5, <4>2
        <5>2. CASE k = p.kind
          <6>1. told.listener \in owned
            BY <3>3, <3>4
          <6>2. EntryUpToDate(told, k, n, 0, told.listener \in owned)
            BY <3>2, <5>2, <6>1 DEF EntryUpToDate
          <6> QED
            BY <2>2, <2>3, <4>2, <5>1, <5>2, <6>2
        <5>3. CASE k # p.kind
          <6>1. Lag(s, k, i)' = Lag(s, k, i)
            BY <2>4, <4>1, <5>3
          <6>2. EntryUpToDate(entry, k, published[s][k], Lag(s, k, i), entry.listener \in owned)
            BY <1>a, <4>1, <4>2
          <6>3. EntryUpToDate(told, k, published[s][k], Lag(s, k, i), told.listener \in owned)
            BY <3>3, <5>3, <6>2 DEF EntryUpToDate, HasHeard
          <6> QED
            BY <2>2, <5>1, <6>1, <6>3
        <5> QED
          BY <5>2, <5>3
      <4>3. CASE ~(s = p.symbol /\ i = p.next)
        <5>1. symbolDataMap'[s].listeners[i] = symbolDataMap[s].listeners[i]
          <6>1. CASE s = p.symbol
            BY <2>1, <3>5, <4>1, <4>3, <6>1
          <6>2. CASE s # p.symbol
            BY <3>1, <4>1, <6>2
          <6> QED
            BY <6>1, <6>2
        <5>2. Lag(s, k, i)' = Lag(s, k, i)
          BY <2>4, <4>1, <4>3
        <5> QED
          BY <1>a, <2>2, <4>1, <5>1, <5>2
      <4> QED
        BY <4>2, <4>3
    <3> QED
      BY <3>6, EntriesUpToDateNext
  <2> QED
    BY <1>4, <2>7, <2>8 DEF notify, EntriesOf
<1>5. ASSUME NEW p \in publication, publishReturns(p)
      PROVE  SubscribedBefore' /\ HeardAsSubscribed'
  <2>1. publication = {p} /\ p.next \in Nat /\ p.next > Len(symbolDataMap[p.symbol].listeners)
    BY <1>0, <1>5 DEF MarketDataTypeOK, Publication, publishReturns, EntriesOf
  <2>2. publication' = {} /\ symbolDataMap' = symbolDataMap
        /\ owned' = owned /\ published' = published
    BY <1>5 DEF publishReturns
  <2>3. ASSUME NEW s \in DOMAIN symbolDataMap, NEW k \in Kinds,
               NEW i \in DOMAIN symbolDataMap[s].listeners
        PROVE  Lag(s, k, i) = 0 /\ Lag(s, k, i)' = 0
    <3>1. i \in Nat /\ i <= Len(symbolDataMap[s].listeners)
          /\ Len(symbolDataMap[s].listeners) \in Nat
      BY <1>c
    <3>2. p.symbol = s => ~(p.next <= i)
      BY <2>1, <3>1
    <3> QED
      BY <2>1, <2>2, <3>2 DEF Lag
  <2>4. ASSUME NEW s \in DOMAIN symbolDataMap', NEW k \in Kinds,
               NEW i \in DOMAIN symbolDataMap'[s].listeners
        PROVE  EntryUpToDate(symbolDataMap'[s].listeners[i], k, published'[s][k],
                             Lag(s, k, i)', symbolDataMap'[s].listeners[i].listener \in owned')
    BY <1>a, <2>2, <2>3
  <2> QED
    BY <2>4, EntriesUpToDateNext
<1>6. ASSUME NEW listener \in Listeners, drop(listener)
      PROVE  SubscribedBefore' /\ HeardAsSubscribed'
  <2>1. /\ publication' = publication /\ symbolDataMap' = symbolDataMap
        /\ owned' \subseteq owned /\ published' = published
    BY <1>6 DEF drop
  <2>2. \A s, k, i : Lag(s, k, i)' = Lag(s, k, i)
    BY <2>1 DEF Lag
  <2>3. ASSUME NEW s \in DOMAIN symbolDataMap', NEW k \in Kinds,
               NEW i \in DOMAIN symbolDataMap'[s].listeners
        PROVE  EntryUpToDate(symbolDataMap'[s].listeners[i], k, published'[s][k],
                             Lag(s, k, i)', symbolDataMap'[s].listeners[i].listener \in owned')
    <3> DEFINE entry == symbolDataMap[s].listeners[i]
    <3>1. EntryUpToDate(entry, k, published[s][k], Lag(s, k, i), entry.listener \in owned)
      BY <1>a, <2>1
    <3>2. entry.listener \in owned' => entry.listener \in owned
      BY <2>1
    <3>3. EntryUpToDate(entry, k, published[s][k], Lag(s, k, i), entry.listener \in owned')
      BY <3>1, <3>2 DEF EntryUpToDate
    <3> QED
      BY <2>1, <2>2, <3>3
  <2> QED
    BY <2>3, EntriesUpToDateNext
<1>7. CASE UNCHANGED mdVars
  BY <1>7 DEF MarketDataInv, mdVars, SubscribedBefore, HeardAsSubscribed, Lag, Expired
<1> QED
  BY <1>1, <1>2, <1>3, <1>4, <1>5, <1>6, <1>7 DEF MarketDataNext

(* The parts of the inductive invariant together: histories, subscriptions *)
(* and the publication in progress agree in every state of the handler.    *)
THEOREM MarketDataInductive == MarketDataSpec => []MarketDataInv
<1>1. MarketDataInv /\ [MarketDataNext]_mdVars => MarketDataInv'
  BY TypeNext, RecentNext, EntriesNext DEF MarketDataInv
<1> QED
  BY <1>1, InvInit, PTL DEF MarketDataSpec

(* The history of a symbol is always the recent past, for every size.      *)
THEOREM HistoriesCorrect == MarketDataSpec => []HistoryIsRecent
<1>1. MarketDataInv => HistoryIsRecent
  BY DEF MarketDataInv
<1> QED
  BY <1>1, MarketDataInductive, PTL

(* Whatever expires, subscribes or unsubscribes, a live subscription hears *)
(* every publication since it was made, each once and in order.            *)
THEOREM SubscribersCorrect == MarketDataSpec => []HeardAsSubscribed
<1>1. MarketDataInv => HeardAsSubscribed
  BY DEF MarketDataInv
<1> QED
  BY <1>1, MarketDataInductive, PTL

-----------------------------------------------------------------------------
(* The queries. *)
(* The last entry of a history that is the recent past is the last publication. *)
LEMMA LatestOfRecent ==
  ASSUME NEW n \in Nat, Recent(n) # <<>>
  PROVE  Recent(n)[Len(Recent(n))] = n /\ n # 0
<1> DEFINE b == Lesser(n, MAX_HISTORY_SIZE)
<1>1. b \in Nat /\ b <= n
  BY MarketDataAssumption DEF MarketDataAssumption, Lesser
<1>2. n - (n - b) = b
  BY <1>1
<1>3. Recent(n) = [i \in 1 .. b |-> (n - b) + i]
  BY <1>2 DEF Recent, Through
<1> HIDE DEF b
<1>4. Len(Recent(n)) = b
  BY <1>1, <1>3
<1>5. b # 0
  BY <1>1, <1>3, <1>4, EmptySeq
<1> QED
  BY <1>1, <1>3, <1>4, <1>5


LEMMA RecentEntries ==
  ASSUME NEW n \in Nat
  PROVE  /\ Lesser(n, MAX_HISTORY_SIZE) \in Nat
         /\ Lesser(n, MAX_HISTORY_SIZE) <= n
         /\ Recent(n) = [i \in 1 .. Lesser(n, MAX_HISTORY_SIZE) |->
                           (n - Lesser(n, MAX_HISTORY_SIZE)) + i]
         /\ Len(Recent(n)) = Lesser(n, MAX_HISTORY_SIZE)
<1> DEFINE b == Lesser(n, MAX_HISTORY_SIZE)
<1>1. b \in Nat /\ b <= n
  BY MarketDataAssumption DEF MarketDataAssumption, Lesser
<1>2. n - (n - b) = b
  BY <1>1
<1>3. Recent(n) = [i \in 1 .. b |-> (n - b) + i]
  BY <1>2 DEF Recent, Through
<1> HIDE DEF b
<1>4. Len(Recent(n)) = b
  BY <1>1, <1>3
<1> QED
  BY <1>1, <1>3, <1>4 DEF b

(* The end of the recent past is the recent past, for a smaller limit. *)
LEMMA EndOfRecent ==
  ASSUME NEW n \in Nat, NEW limit \in Nat, NEW start \in Nat,
         start = IF Len(Recent(n)) > limit THEN Len(Recent(n)) - limit ELSE 0
  PROVE  SubSeq(Recent(n), start + 1, Len(Recent(n)))
           = Through(n - Lesser(n, Lesser(limit, MAX_HISTORY_SIZE)), n)
<1> DEFINE b == Lesser(n, MAX_HISTORY_SIZE)
           l == Lesser(n, Lesser(limit, MAX_HISTORY_SIZE))
<1>1. /\ b \in Nat /\ b <= n /\ Len(Recent(n)) = b
      /\ Recent(n) = [i \in 1 .. b |-> (n - b) + i]
  BY RecentEntries
<1>2. l = b - start /\ l \in Nat /\ l <= b
  <2>1. l = Lesser(b, limit)
    BY MarketDataAssumption DEF MarketDataAssumption, Lesser
  <2> HIDE DEF b, l
  <2> QED
    BY <1>1, <2>1 DEF Lesser
<1> HIDE DEF b, l
<1>3. b - start \in Nat /\ n - l \in Nat /\ n - (n - l) = b - start
  BY <1>1, <1>2
<1> DEFINE ending == SubSeq(Recent(n), start + 1, b)
<1>4. /\ ending \in Seq(Nat) /\ Len(ending) = b - start
      /\ \A i \in 1 .. b - start : ending[i] = (n - l) + i
  <2>1. \A i \in start + 1 .. b : Recent(n)[i] = (n - b) + i /\ Recent(n)[i] \in Nat
    BY <1>1
  <2>2. /\ ending \in Seq(Nat)
        /\ Len(ending) = IF start + 1 <= b THEN b - (start + 1) + 1 ELSE 0
        /\ \A i \in 1 .. b - (start + 1) + 1 :
             ending[i] = Recent(n)[(start + 1) + i - 1]
    BY <1>1, <2>1, SubSeqProperties
  <2>3. ASSUME NEW i \in 1 .. b - start
        PROVE  ending[i] = (n - l) + i
    <3>1. (start + 1) + i - 1 \in start + 1 .. b /\ i \in 1 .. b - (start + 1) + 1
          /\ (n - b) + ((start + 1) + i - 1) = (n - l) + i
      BY <1>1, <1>2
    <3> HIDE DEF ending
    <3> QED
      BY <2>1, <2>2, <3>1
  <2>4. Len(ending) = b - start
    BY <1>1, <1>3, <2>2
  <2> QED
    BY <2>2, <2>3, <2>4
<1>5. /\ Through(n - l, n) \in Seq(Nat) /\ Len(Through(n - l, n)) = b - start
      /\ \A i \in 1 .. b - start : Through(n - l, n)[i] = (n - l) + i
  <2> DEFINE a == n - l
  <2>1. a \in Nat /\ a <= n /\ n - a = b - start
    BY <1>1, <1>2, <1>3
  <2> HIDE DEF a
  <2>2. /\ Through(a, n) \in Seq(Nat) /\ Len(Through(a, n)) = n - a
        /\ \A i \in 1 .. n - a : Through(a, n)[i] = a + i
    BY <2>1, ThroughIsSeq
  <2>3. /\ Through(a, n) \in Seq(Nat) /\ Len(Through(a, n)) = b - start
        /\ \A i \in 1 .. b - start : Through(a, n)[i] = a + i
    BY <2>1, <2>2
  <2> QED
    BY <2>3 DEF a
<1>6. ending = Through(n - l, n)
  <2> DEFINE past == Through(n - l, n)
  <2> HIDE DEF ending, past
  <2>1. past \in Seq(Nat) /\ Len(past) = b - start
    BY <1>5 DEF past
  <2>2. \A i \in 1 .. Len(ending) : ending[i] = past[i]
    BY <1>4, <1>5 DEF past
  <2>3. ending \in Seq(Nat) /\ Len(ending) = Len(past)
    BY <1>4, <2>1
  <2>4. ending = past
    BY <2>1, <2>2, <2>3, SeqEqual
  <2> QED
    BY <2>4 DEF past
<1> HIDE DEF ending
<1> QED
  BY <1>1, <1>6 DEF l, ending

(* The history of a symbol with or without an entry, and the end of it for *)
(* any limit.                                                              *)
LEMMA PastIsRecent ==
  ASSUME MarketDataInv, NEW symbol \in Symbols, NEW kind \in Kinds
  PROVE  /\ published[symbol][kind] \in Nat
         /\ DataOf(symbol).history[kind] = Recent(published[symbol][kind])
<1> DEFINE n == published[symbol][kind]
<1>1. n \in Nat
  BY DEF MarketDataInv, MarketDataTypeOK, Numbers
<1>2. CASE symbol \in DOMAIN symbolDataMap
  BY <1>1, <1>2 DEF MarketDataInv, HistoryIsRecent, DataOf
<1>3. CASE symbol \notin DOMAIN symbolDataMap
  <2>1. DataOf(symbol).history[kind] = <<>>
    BY <1>3 DEF DataOf, NewSymbolData
  <2>2. n = 0
    BY <1>3 DEF MarketDataInv, FirstPublished
  <2> HIDE DEF n
  <2>3. Recent(n) = <<>>
    BY <2>2, NoPastIsRecent
  <2> QED
    BY <1>1, <2>1, <2>3 DEF n
<1> QED
  BY <1>2, <1>3

LEMMA HistoryQueried ==
  ASSUME MarketDataInv, NEW symbol \in Symbols, NEW kind \in Kinds, NEW limit \in Nat
  PROVE  LET n == published[symbol][kind]
         IN getHistory(symbol, kind, limit)
              = Through(n - Lesser(n, Lesser(limit, MAX_HISTORY_SIZE)), n)
<1> DEFINE n == published[symbol][kind]
           start == IF Len(Recent(n)) > limit THEN Len(Recent(n)) - limit ELSE 0
<1>1. n \in Nat /\ DataOf(symbol).history[kind] = Recent(n)
  BY PastIsRecent
<1> HIDE DEF n
<1>2. getHistory(symbol, kind, limit) = SubSeq(Recent(n), start + 1, Len(Recent(n)))
  BY <1>1 DEF getHistory
<1>3. Len(Recent(n)) \in Nat
  BY <1>1, RecentEntries
<1>4. start \in Nat
  BY <1>3
<1>5. getHistory(symbol, kind, limit)
        = Through(n - Lesser(n, Lesser(limit, MAX_HISTORY_SIZE)), n)
  BY <1>1, <1>2, <1>4, EndOfRecent
<1> QED
  BY <1>5 DEF n

(* The queries tell the recent past: the latest tick and the latest book   *)
(* are the last ones published, and a history is the end of the past,      *)
(* whatever number of ticks is asked for.                                  *)
THEOREM QueriesCorrect == MarketDataSpec => []QueriesAreRecent
<1>1. ASSUME MarketDataInv, NEW symbol \in Symbols, NEW kind \in Kinds
      PROVE  LET n == published[symbol][kind] IN
             /\ getLatest(symbol, kind) = n
             /\ \A limit \in 0 .. MAX_HISTORY_SIZE + 1 :
                  getHistory(symbol, kind, limit)
                    = Through(n - Lesser(n, Lesser(limit, MAX_HISTORY_SIZE)), n)
  <2> DEFINE n == published[symbol][kind]
  <2>1. n \in Nat /\ DataOf(symbol).history[kind] = Recent(n)
    BY <1>1, PastIsRecent
  <2> HIDE DEF n
  <2>2. getLatest(symbol, kind) = n
    <3>1. CASE Recent(n) = <<>>
      <4>1. n = 0
        BY <2>1, <3>1, RecentEntries, MarketDataAssumption
        DEF MarketDataAssumption, Lesser
      <4> QED
        BY <2>1, <3>1, <4>1 DEF getLatest
    <3>2. CASE Recent(n) # <<>>
      <4>1. getLatest(symbol, kind) = Recent(n)[Len(Recent(n))]
        BY <2>1, <3>2 DEF getLatest
      <4> QED
        BY <2>1, <3>2, <4>1, LatestOfRecent
    <3> QED
      BY <3>1, <3>2
  <2>3. \A limit \in 0 .. MAX_HISTORY_SIZE + 1 : limit \in Nat
    BY MarketDataAssumption DEF MarketDataAssumption
  <2> QED
    BY <1>1, <2>2, <2>3, HistoryQueried DEF n
<1>2. MarketDataInv => QueriesAreRecent
  BY <1>1 DEF QueriesAreRecent
<1> QED
  BY <1>2, MarketDataInductive, PTL
=============================================================================
