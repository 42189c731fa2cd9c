----------------------------- MODULE EngineProofs -----------------------------
(***************************************************************************)
(* Theorems about the execution engine, for every set of clients, prices,  *)
(* quantities, quotes and latencies, every desk and every number of        *)
(* orders: its statistics, its types and its life cycle, and what becomes  *)
(* of requests, orders and trades.                                         *)
(***************************************************************************)
EXTENDS EngineProperties, OrderManagerProofs, FiniteSetTheorems

-----------------------------------------------------------------------------
(* Products of naturals grow with a factor. *)
LEMMA ProductGrows ==
  ASSUME NEW a \in Nat, NEW b \in Nat, NEW n \in Nat, a <= b
  PROVE  a * n <= b * n
<1>1. PICK d \in Nat : b = a + d
  <2>1. b - a \in Nat /\ b = a + (b - a)
    OBVIOUS
  <2> QED
    BY <2>1
<1>2. b * n = a * n + d * n
  BY <1>1
<1>3. d * n >= 0
  OBVIOUS
<1> QED
  BY <1>2, <1>3

(* A converted integer that is below 2^53 was not changed by it, and no    *)
(* conversion goes above Word.                                             *)
LEMMA Converted ==
  ASSUME NEW n \in 0 .. Word - 1, NEW d \in AsDouble(n)
  PROVE  /\ d \in Doubles /\ d \in 0 .. Word
         /\ d < Precision => d = n
         /\ n < Precision => d = n
<1>1. /\ 0 .. Precision \subseteq Doubles /\ Doubles \subseteq 0 .. Word
      /\ Precision \in Nat \ {0} /\ Word \in Nat \ {0}
  BY LatencyAssumption DEF LatencyAssumption
<1>2. d \in Doubles
  BY DEF AsDouble
<1>3. \A e \in Doubles : (d <= e /\ e <= n) \/ (n <= e /\ e <= d) => e = d
  BY DEF AsDouble
<1>4. d \in 0 .. Word
  BY <1>1, <1>2
<1>5. n < Precision => d = n
  <2> SUFFICES ASSUME n < Precision
               PROVE  d = n
    OBVIOUS
  <2>1. n \in 0 .. Precision
    BY <1>1
  <2>2. n \in Doubles
    BY <1>1, <2>1
  <2> QED
    BY <1>1, <1>3, <1>4, <2>2
<1>6. d < Precision => n < Precision
  <2> SUFFICES ASSUME d < Precision, ~(n < Precision)
               PROVE  FALSE
    OBVIOUS
  <2>1. Precision \in 0 .. Precision
    BY <1>1
  <2>2. Precision \in Doubles
    BY <1>1, <2>1
  <2>3. d <= Precision /\ Precision <= n
    BY <1>1, <1>4
  <2> QED
    BY <1>3, <1>4, <2>2, <2>3
<1> QED
  BY <1>2, <1>4, <1>5, <1>6

(* What recordLatency does, field by field. *)
LEMMA RecordShape ==
  ASSUME StatsTypeOK, NEW latency \in Latencies, recordLatency(latency)
  PROVE  \E d \in AsDouble(latency) :
           stats' = [totalExecuted |-> stats.totalExecuted + 1,
                     totalLatency |-> (stats.totalLatency + latency) % Word,
                     maxLatency |-> Larger(stats.maxLatency, d),
                     minLatency |-> Smaller(stats.minLatency, d)]
BY DEF recordLatency, StatsTypeOK, ExecutionStats

(* ExecutionStats is preserved by recordLatency, on its own and under the  *)
(* execution engine.                                                       *)
LEMMA RecordKeepsType ==
  ASSUME LatencyAssumption, StatsTypeOK, NEW latency \in Latencies,
         recordLatency(latency)
  PROVE  StatsTypeOK'
<1>1. PICK d \in AsDouble(latency) :
        stats' = [totalExecuted |-> stats.totalExecuted + 1,
                  totalLatency |-> (stats.totalLatency + latency) % Word,
                  maxLatency |-> Larger(stats.maxLatency, d),
                  minLatency |-> Smaller(stats.minLatency, d)]
  BY RecordShape
<1>2. /\ latency \in 0 .. Word - 1 /\ Word \in Nat \ {0}
      /\ stats.totalExecuted \in Nat /\ stats.totalLatency \in 0 .. Word - 1
      /\ stats.maxLatency \in Doubles /\ stats.minLatency \in Doubles \cup {DoubleMax}
  BY DEF LatencyAssumption, StatsTypeOK, ExecutionStats
<1>3. (stats.totalLatency + latency) % Word \in 0 .. Word - 1
  BY <1>2
<1>4. d \in Doubles
  BY DEF AsDouble
<1>5. Larger(stats.maxLatency, d) \in Doubles
  BY <1>2, <1>4 DEF Larger
<1>6. Smaller(stats.minLatency, d) \in Doubles \cup {DoubleMax}
  BY <1>2, <1>4 DEF Smaller
<1>7. stats.totalExecuted + 1 \in Nat
  BY <1>2
<1> QED
  BY <1>1, <1>3, <1>5, <1>6, <1>7 DEF StatsTypeOK, ExecutionStats

LEMMA ZeroLatency == 0 \in Doubles /\ 0 \in 0 .. Word - 1
<1>1. 0 \in 0 .. Precision /\ Word \in Nat \ {0}
  BY LatencyAssumption DEF LatencyAssumption
<1> QED
  BY <1>1, LatencyAssumption DEF LatencyAssumption

LEMMA StatsInitType == StatsInit => StatsTypeOK
BY ZeroLatency DEF StatsInit, StatsTypeOK, ExecutionStats

(* Type correctness of the statistics: the running sum stays a uint64_t,   *)
(* and maximum and minimum are doubles, 2^64 included, whichever way       *)
(* recordLatency()'s conversions round.                                    *)
THEOREM StatsTypeCorrect == StatsSpec => []StatsTypeOK
<1>1. StatsInit => StatsTypeOK
  BY StatsInitType
<1>2. StatsTypeOK /\ [StatsNext]_stats => StatsTypeOK'
  <2> SUFFICES ASSUME StatsTypeOK, [StatsNext]_stats
               PROVE  StatsTypeOK'
    OBVIOUS
  <2>1. CASE StatsNext
    BY <2>1, LatencyAssumption, RecordKeepsType DEF StatsNext
  <2>2. CASE UNCHANGED stats
    BY <2>2 DEF StatsTypeOK
  <2> QED
    BY <2>1, <2>2
<1> QED
  BY <1>1, <1>2, PTL DEF StatsSpec

-----------------------------------------------------------------------------
(* ReportedLatenciesAgree is not inductive: it says nothing of a sum that  *)
(* is not exact, nor of the minimum before the first execution.  What is:  *)
(* before the first execution nothing is recorded, after it the minimum is *)
(* a converted latency and not above the maximum, and unless (executions)  *)
(* * (maximum) has reached 2^53 the sum is below it, and lies between the  *)
(* two multiples.  The product only grows, so a sum that is exact now was  *)
(* always so.                                                              *)
Fresh ==
  /\ stats.totalLatency = 0
  /\ stats.maxLatency = 0
  /\ stats.minLatency = DoubleMax
SumBetween ==
  SumIsExact =>
    /\ stats.minLatency * stats.totalExecuted <= stats.totalLatency
    /\ stats.totalLatency <= stats.maxLatency * stats.totalExecuted
StatsInv ==
  /\ StatsTypeOK
  /\ stats.totalExecuted = 0 => Fresh
  /\ stats.totalExecuted > 0 =>
       /\ stats.minLatency <= Word /\ stats.minLatency <= stats.maxLatency
       /\ SumBetween

LEMMA StatsInvInit == StatsInit => StatsInv
BY StatsInitType DEF StatsInit, StatsInv, Fresh

LEMMA StatsTypes ==
  ASSUME StatsTypeOK
  PROVE  /\ stats.totalExecuted \in Nat /\ stats.totalLatency \in 0 .. Word - 1
         /\ stats.maxLatency \in 0 .. Word
         /\ stats.minLatency \in Nat
         /\ Word \in Nat \ {0} /\ Precision \in Nat \ {0} /\ Precision <= Word
         /\ DoubleMax \in Nat /\ DoubleMax > Word
<1>1. /\ stats.totalExecuted \in Nat /\ stats.totalLatency \in 0 .. Word - 1
      /\ stats.maxLatency \in Doubles /\ stats.minLatency \in Doubles \cup {DoubleMax}
  BY DEF StatsTypeOK, ExecutionStats
<1>2. /\ Word \in Nat \ {0} /\ Precision \in Nat \ {0}
      /\ DoubleMax \in Nat /\ DoubleMax > Word
      /\ 0 .. Precision \subseteq Doubles /\ Doubles \subseteq 0 .. Word
  BY LatencyAssumption DEF LatencyAssumption
<1>3. Precision \in 0 .. Word
  <2>1. Precision \in 0 .. Precision
    BY <1>2
  <2> QED
    BY <1>2, <2>1
<1>4. stats.maxLatency \in 0 .. Word
  BY <1>1, <1>2
<1>5. stats.minLatency \in 0 .. Word \/ stats.minLatency = DoubleMax
  BY <1>1, <1>2
<1>6. Precision <= Word /\ stats.minLatency \in Nat
  BY <1>2, <1>3, <1>5
<1> QED
  BY <1>1, <1>2, <1>4, <1>6

LEMMA RecordKeepsInv ==
  ASSUME StatsInv, NEW latency \in Latencies, recordLatency(latency)
  PROVE  StatsInv'
<1> DEFINE n     == stats.totalExecuted
           total == stats.totalLatency
           max   == stats.maxLatency
           min   == stats.minLatency
<1>1. StatsTypeOK'
  BY RecordKeepsType, LatencyAssumption DEF StatsInv
<1>2. /\ n \in Nat /\ total \in Nat /\ max \in Nat /\ min \in Nat
      /\ latency \in 0 .. Word - 1 /\ Word \in Nat \ {0}
      /\ Precision \in Nat \ {0} /\ Precision <= Word
      /\ DoubleMax \in Nat /\ DoubleMax > Word
  BY StatsTypes, LatencyAssumption DEF LatencyAssumption, StatsInv
<1>3. PICK d \in AsDouble(latency) :
        /\ stats'.totalExecuted = n + 1
        /\ stats'.totalLatency = (total + latency) % Word
        /\ stats'.maxLatency = Larger(max, d)
        /\ stats'.minLatency = Smaller(min, d)
  BY RecordShape DEF StatsInv
<1>4. d \in 0 .. Word /\ (d < Precision => d = latency)
  BY <1>2, Converted
<1> DEFINE max2 == Larger(max, d)
           min2 == Smaller(min, d)
<1>5. /\ max2 \in Nat /\ max <= max2 /\ d <= max2
      /\ min2 \in Nat /\ min2 <= min /\ min2 <= d
  BY <1>2, <1>4 DEF Larger, Smaller
<1> HIDE DEF n, total, max, min, max2, min2
<1>6. min2 <= Word /\ min2 <= max2
  BY <1>2, <1>4, <1>5
<1>7. SumBetween'
  <2> SUFFICES ASSUME (n + 1) * max2 < Precision
               PROVE  /\ min2 * (n + 1) <= (total + latency) % Word
                      /\ (total + latency) % Word <= max2 * (n + 1)
    BY <1>3 DEF SumBetween, SumIsExact, max2, min2
  <2>1. /\ max2 * (n + 1) = max2 * n + max2
        /\ (n + 1) * max2 = max2 * n + max2
        /\ min2 * (n + 1) = min2 * n + min2
    BY <1>2, <1>5
  <2>2. max * n <= max2 * n
    BY <1>2, <1>5, ProductGrows
  <2>3. max * n \in Nat /\ max2 * n \in Nat /\ min2 * n \in Nat
    BY <1>2, <1>5
  <2>4. /\ min2 * n <= total
        /\ total <= max * n
    <3>1. CASE n = 0
      <4>1. total = 0
        BY <3>1 DEF StatsInv, Fresh, n, total
      <4> QED
        BY <4>1, <3>1, <1>2, <1>5
    <3>2. CASE n > 0
      <4>1. n * max < Precision
        <5>1. n * max = max * n
          BY <1>2
        <5> QED
          BY <5>1, <2>1, <2>2, <2>3, <1>2, <1>5
      <4>2. min * n <= total /\ total <= max * n
        BY <4>1, <3>2 DEF StatsInv, SumBetween, SumIsExact, n, total, max, min
      <4>3. min2 * n <= min * n
        BY <1>2, <1>5, ProductGrows
      <4>4. min * n \in Nat
        BY <1>2, <1>5
      <4> QED
        BY <4>2, <4>3, <4>4, <2>3, <1>2
    <3> QED
      BY <3>1, <3>2, <1>2
  <2>5. max2 < Precision
    BY <2>1, <2>3, <1>2, <1>5
  <2>6. d = latency
    BY <2>5, <1>2, <1>4, <1>5
  <2>7. total + latency < Word
    BY <2>1, <2>2, <2>3, <2>4, <2>6, <1>2, <1>5
  <2>8. (total + latency) % Word = total + latency
    BY <2>7, <1>2
  <2> QED
    BY <2>1, <2>2, <2>3, <2>4, <2>6, <2>8, <1>2, <1>5
<1>8. stats'.totalExecuted > 0
  BY <1>2, <1>3
<1> QED
  BY <1>1, <1>2, <1>3, <1>6, <1>7, <1>8 DEF StatsInv, min2, max2

LEMMA StatsInvImplies == StatsInv => ReportedLatenciesAgree
<1> SUFFICES ASSUME StatsInv
             PROVE  ReportedLatenciesAgree
  OBVIOUS
<1>1. /\ stats.totalExecuted \in Nat /\ stats.totalLatency \in 0 .. Word - 1
      /\ stats.maxLatency \in 0 .. Word /\ stats.minLatency \in Nat
      /\ Word \in Nat \ {0} /\ Precision \in Nat \ {0} /\ Precision <= Word
      /\ DoubleMax \in Nat /\ DoubleMax > Word
  BY StatsTypes DEF StatsInv
<1>2. CASE stats.totalExecuted = 0
  <2>1. Fresh
    BY <1>2 DEF StatsInv
  <2>2. getMinLatency = 0 /\ getMaxLatency = 0
    BY <2>1 DEF Fresh, getMinLatency, getMaxLatency
  <2> QED
    BY <1>1, <1>2, <2>2 DEF ReportedLatenciesAgree, getExecutedOrdersCount,
                            getAverageLatencyIsBetween
<1>3. CASE stats.totalExecuted > 0
  <2>1. /\ stats.minLatency <= Word /\ stats.minLatency <= stats.maxLatency
        /\ SumBetween
    BY <1>3 DEF StatsInv
  <2>2. /\ stats.minLatency # DoubleMax /\ getMinLatency = stats.minLatency
        /\ getMaxLatency = stats.maxLatency
    BY <1>1, <2>1 DEF getMinLatency, getMaxLatency
  <2>3. ASSUME SumIsExact, NEW total \in AsDouble(stats.totalLatency)
        PROVE  /\ stats.minLatency * stats.totalExecuted <= total
               /\ total <= stats.maxLatency * stats.totalExecuted
    <3>1. /\ stats.minLatency * stats.totalExecuted <= stats.totalLatency
          /\ stats.totalLatency <= stats.maxLatency * stats.totalExecuted
          /\ stats.totalExecuted * stats.maxLatency < Precision
      BY <2>1, <2>3 DEF SumBetween, SumIsExact
    <3>2. stats.maxLatency * stats.totalExecuted = stats.totalExecuted * stats.maxLatency
          /\ stats.maxLatency * stats.totalExecuted \in Nat
      BY <1>1
    <3>3. stats.totalLatency < Precision
      BY <1>1, <3>1, <3>2
    <3>4. total = stats.totalLatency
      BY <1>1, <3>3, Converted
    <3> QED
      BY <3>1, <3>4
  <2> QED
    BY <2>1, <2>2, <2>3 DEF ReportedLatenciesAgree, getAverageLatencyIsBetween
<1> QED
  BY <1>1, <1>2, <1>3

(* The minimum and the maximum that the getters report agree, and with the *)
(* average as long as the sum is exact, whatever latencies were recorded,  *)
(* in whatever order and however they were rounded.                        *)
THEOREM LatenciesAgree == StatsSpec => []ReportedLatenciesAgree
<1>1. StatsInv /\ [StatsNext]_stats => StatsInv'
  <2> SUFFICES ASSUME StatsInv, [StatsNext]_stats
               PROVE  StatsInv'
    OBVIOUS
  <2>1. CASE StatsNext
    BY <2>1, RecordKeepsInv DEF StatsNext
  <2>2. CASE UNCHANGED stats
    BY <2>2 DEF StatsInv, StatsTypeOK, Fresh, SumBetween, SumIsExact
  <2> QED
    BY <2>1, <2>2
<1> QED
  BY StatsInvInit, <1>1, StatsInvImplies, PTL DEF StatsSpec

-----------------------------------------------------------------------------
(* EngineTypeOK is not inductive: a thread that is created while another   *)
(* one holds queueMutex would not find it free.  start() creates one only  *)
(* when none is left, because a controller that is idle has joined the     *)
(* thread whose "running" it cleared.                                      *)
Lifecycle ==
  /\ controller = "idle" => (running <=> thread # "none")
  /\ controller = "spawn" => running /\ thread = "none"
  /\ controller \in {"notify", "join"} => ~running

(* The part of EngineTypeOK that is the engine's own. *)
Own ==
  /\ running \in BOOLEAN
  /\ executionQueue \subseteq ExecutionRequest
  /\ thread \in {"none", "head", "lock", "predicate", "block", "waiting",
                 "check", "returned"} \cup Executing
  /\ queueMutex = IF thread \in {"predicate", "block", "check"}
                  THEN "held" ELSE "free"
  /\ request \in ExecutionRequest
  /\ executionPrice \in Nat
  /\ controller \in {"idle", "spawn", "notify", "join"}
  /\ client \in [Clients -> [next : {"place", "push", "notify"},
                             request : ExecutionRequest]]
  /\ executed \subseteq ExecutionRequest

LEMMA TypeParts == EngineTypeOK <=> OrderManagerTypeOK /\ StatsTypeOK /\ Own
BY DEF EngineTypeOK, Own

LEMMA TypeParts2 ==
  (EngineTypeOK)' <=> (OrderManagerTypeOK)' /\ (StatsTypeOK)' /\ (Own)'
BY DEF EngineTypeOK, Own

LEMMA NoRequestType == NoRequest \in ExecutionRequest
BY DEF NoRequest, ExecutionRequest, OrderSide, ExecutionPriority, HIGH, NORMAL, LOW

LEMMA EngineTypeInit == Init => EngineTypeOK
<1> SUFFICES ASSUME Init
             PROVE  EngineTypeOK
  OBVIOUS
<1>1. OrderManagerTypeOK /\ StatsTypeOK
  BY OrderManagerTypeInit, StatsInitType DEF Init
<1>2. Own
  BY NoRequestType DEF Init, Own
<1> QED
  BY <1>1, <1>2, TypeParts

(* A client's local variables stay typed. *)
LEMMA ClientType ==
  ASSUME Own, NEW c \in Clients, NEW r \in ExecutionRequest,
         NEW next \in {"place", "push", "notify"},
         client' = [client EXCEPT ![c] = [next |-> next, request |-> r]]
  PROVE  client' \in [Clients -> [next : {"place", "push", "notify"},
                                  request : ExecutionRequest]]
BY DEF Own

LEMMA PlaceKeepsType ==
  ASSUME EngineTypeOK, NEW c \in Clients, Place(c)
  PROVE  EngineTypeOK'
<1>1. OrderManagerTypeOK /\ StatsTypeOK /\ Own
  BY TypeParts
<1>2. PICK side \in OrderSide, price \in Prices, quantity \in Quantities,
           priority \in ExecutionPriority :
        PlaceRequest(c, side, price, quantity, priority)
  BY DEF Place
<1> DEFINE r == [orderId |-> orderIdCounter, side |-> side, price |-> price,
                 quantity |-> quantity, priority |-> priority]
<1>3. price \in Nat /\ quantity \in Nat /\ orderIdCounter \in Nat
  BY <1>1, OrderAssumption DEF OrderAssumption, OrderManagerTypeOK
<1>4. NewOrder(side, price, quantity) \in Order /\ r \in ExecutionRequest
  BY <1>3 DEF NewOrder, Order, OrderStatus, ExecutionRequest
<1>5. UNCHANGED <<tradeVars, stats, running, queueVars, threadVars, controller,
                  executed>>
  BY <1>2 DEF PlaceRequest
<1> HIDE DEF r
<1>6. OrderManagerTypeOK'
  BY <1>1, <1>2, <1>4, <1>5, PlaceType DEF PlaceRequest
<1>7. StatsTypeOK'
  BY <1>1, <1>5 DEF StatsTypeOK
<1>8. client' = [client EXCEPT ![c] = [next |-> "push", request |-> r]]
  BY <1>2 DEF PlaceRequest, r
<1>9. Own'
  <2>1. client' \in [Clients -> [next : {"place", "push", "notify"},
                                 request : ExecutionRequest]]
    BY <1>1, <1>4, <1>8, ClientType
  <2> QED
    BY <1>1, <1>5, <2>1 DEF Own, queueVars, threadVars
<1> QED
  BY <1>6, <1>7, <1>9, TypeParts2

(* Most steps leave the order manager and the statistics alone. *)
LEMMA OwnStep ==
  ASSUME EngineTypeOK, UNCHANGED <<omVars, stats>>, Own'
  PROVE  EngineTypeOK'
<1>1. OrderManagerTypeOK'
  BY TypeParts, UnchangedType
<1>2. StatsTypeOK'
  BY TypeParts DEF StatsTypeOK
<1> QED
  BY <1>1, <1>2, TypeParts2

LEMMA SubmitKeepsType ==
  ASSUME EngineTypeOK, NEW c \in Clients, Submit(c) \/ SubmitNotify(c)
  PROVE  EngineTypeOK'
<1>1. Own /\ client[c].request \in ExecutionRequest
  BY TypeParts DEF Own
<1>2. CASE Submit(c)
  <2>1. client' = [client EXCEPT ![c] =
                     [next |-> "notify", request |-> client[c].request]]
    <3>1. client[c] \in [next : {"place", "push", "notify"},
                         request : ExecutionRequest]
      BY <1>1 DEF Own
    <3>2. [client[c] EXCEPT !.next = "notify"]
            = [next |-> "notify", request |-> client[c].request]
      BY <3>1
    <3>3. client' = [client EXCEPT ![c] = [client[c] EXCEPT !.next = "notify"]]
      BY <1>2 DEF Submit
    <3> QED
      BY <3>2, <3>3
  <2>2. client' \in [Clients -> [next : {"place", "push", "notify"},
                                 request : ExecutionRequest]]
    BY <1>1, <2>1, ClientType
  <2>3. Own'
    BY <1>1, <1>2, <2>2 DEF Submit, Own, threadVars
  <2> QED
    BY <1>2, <2>3, OwnStep DEF Submit
<1>3. CASE SubmitNotify(c)
  <2>1. client' \in [Clients -> [next : {"place", "push", "notify"},
                                 request : ExecutionRequest]]
    BY <1>1, <1>3, NoRequestType, ClientType DEF SubmitNotify
  <2>2. Own'
    BY <1>1, <1>3, <2>1 DEF SubmitNotify, Own, Notified, queueVars, Executing
  <2> QED
    BY <1>3, <2>2, OwnStep DEF SubmitNotify
<1> QED
  BY <1>2, <1>3

LEMMA ControllerKeepsType ==
  ASSUME EngineTypeOK, Lifecycle, ControllerStep
  PROVE  EngineTypeOK'
<1>1. Own
  BY TypeParts
<1>2. Own'
  <2>1. CASE Start
    BY <1>1, <2>1 DEF Start, Own, queueVars, threadVars
  <2>2. CASE Spawn
    BY <1>1, <2>2 DEF Spawn, Own, queueVars, Executing, Lifecycle
  <2>3. CASE Stop
    BY <1>1, <2>3 DEF Stop, Own, queueVars, threadVars
  <2>4. CASE StopNotify
    BY <1>1, <2>4 DEF StopNotify, Own, queueVars, Notified, Executing
  <2>5. CASE Join
    BY <1>1, <2>5 DEF Join, Own, queueVars, Executing
  <2> QED
    BY <2>1, <2>2, <2>3, <2>4, <2>5 DEF ControllerStep
<1>3. UNCHANGED <<omVars, stats>>
  BY DEF ControllerStep, Start, Spawn, Stop, StopNotify, Join
<1> QED
  BY <1>2, <1>3, OwnStep

LEMMA ThreadKeepsType ==
  ASSUME EngineTypeOK, ThreadStep \/ SpuriousWakeup
  PROVE  EngineTypeOK'
<1>1. OrderManagerTypeOK /\ StatsTypeOK /\ Own
  BY TypeParts
<1>2. CASE LoopHead
  BY <1>1, <1>2, OwnStep DEF LoopHead, Own, queueVars, Executing
<1>3. CASE Lock
  BY <1>1, <1>3, OwnStep DEF Lock, Own, Executing
<1>4. CASE Predicate
  BY <1>1, <1>4, OwnStep DEF Predicate, Own, queueVars, Executing
<1>5. CASE Block
  BY <1>1, <1>5, OwnStep DEF Block, Own, Executing
<1>6. CASE SpuriousWakeup
  BY <1>1, <1>6, OwnStep DEF SpuriousWakeup, Own, queueVars, Executing
<1>7. CASE Check
  <2>1. executionQueue' \subseteq ExecutionRequest /\ request' \in ExecutionRequest
    BY <1>1, <1>7 DEF Check, Pop, Own
  <2>2. Own'
    BY <1>1, <1>7, <2>1 DEF Check, Own, Executing
  <2> QED
    BY <1>7, <2>2, OwnStep DEF Check
<1>8. CASE ReadTick
  <2>1. executionPrice' \in Nat
    <3>1. PICK quote \in Quotes :
            executionPrice' = PriceOf(request, quote[1], quote[2])
      BY <1>8 DEF ReadTick, ReadQuote
    <3>2. quote[1] \in Nat /\ quote[2] \in Nat
      BY EngineAssumption DEF EngineAssumption
    <3>3. request.price \in Nat
      BY <1>1 DEF Own, ExecutionRequest
    <3> QED
      BY <3>1, <3>2, <3>3 DEF PriceOf, Larger, Smaller
  <2>2. Own'
    BY <1>1, <1>8, <2>1 DEF ReadTick, ReadQuote, Own, queueVars, Executing
  <2> QED
    BY <1>8, <2>2, OwnStep DEF ReadTick, ReadQuote
<1>9. CASE FillOrder
  <2>1. request.quantity \in Nat
    BY <1>1 DEF Own, ExecutionRequest
  <2>2. OrderManagerTypeOK'
    BY <1>1, <1>9, <2>1, ExecutionType DEF FillOrder
  <2>3. StatsTypeOK' /\ Own'
    BY <1>1, <1>9 DEF FillOrder, StatsTypeOK, Own, queueVars, Executing
  <2> QED
    BY <2>2, <2>3, TypeParts2
<1>10. CASE RecordTrade
  <2>1. TradeOf(request, executionPrice) \in Trade
    BY <1>1 DEF Own, ExecutionRequest, Trade, TradeOf
  <2>2. OrderManagerTypeOK'
    BY <1>1, <1>10, <2>1, TradeType DEF RecordTrade
  <2>3. StatsTypeOK' /\ Own'
    BY <1>1, <1>10 DEF RecordTrade, StatsTypeOK, Own, queueVars, Executing
  <2> QED
    BY <2>2, <2>3, TypeParts2
<1>11. CASE RecordLatency
  <2>1. StatsTypeOK'
    BY <1>1, <1>11, LatencyAssumption, RecordKeepsType DEF RecordLatency
  <2>2. OrderManagerTypeOK'
    BY <1>1, <1>11, UnchangedType DEF RecordLatency
  <2>3. Own'
    BY <1>1, <1>11, NoRequestType DEF RecordLatency, Own, queueVars, Executing
  <2> QED
    BY <2>1, <2>2, <2>3, TypeParts2
<1> QED
  BY <1>2, <1>3, <1>4, <1>5, <1>6, <1>7, <1>8, <1>9, <1>10, <1>11 DEF ThreadStep

LEMMA DeskKeepsType ==
  ASSUME EngineTypeOK, DeskStep
  PROVE  EngineTypeOK'
<1>1. OrderManagerTypeOK /\ StatsTypeOK /\ Own
  BY TypeParts
<1>2. OrderManagerTypeOK'
  <2>1. ASSUME NEW id, Cancel(id)
        PROVE  OrderManagerTypeOK'
    BY <1>1, <2>1, CancelType DEF Cancel
  <2>2. ASSUME NEW id, NEW price \in Prices, NEW quantity \in Quantities,
               Modify(id, price, quantity)
        PROVE  OrderManagerTypeOK'
    BY <1>1, <2>2, ModifyType, OrderAssumption DEF Modify, OrderAssumption
  <2> QED
    BY <2>1, <2>2 DEF DeskStep
<1>3. UNCHANGED <<tradeVars, stats, running, queueVars, threadVars, controller,
                  client, executed>>
  BY DEF DeskStep, Cancel, Modify
<1>4. StatsTypeOK' /\ Own'
  BY <1>1, <1>3 DEF StatsTypeOK, Own, queueVars, threadVars
<1> QED
  BY <1>2, <1>4, TypeParts2

-----------------------------------------------------------------------------
LEMMA LifecycleStep ==
  ASSUME EngineTypeOK, Lifecycle, [Next]_vars
  PROVE  Lifecycle'
<1>1. CASE \E c \in Clients : ClientStep(c)
  BY <1>1 DEF ClientStep, Place, PlaceRequest, Submit, SubmitNotify, Lifecycle, Notified,
              threadVars
<1>2. CASE ControllerStep
  BY <1>2 DEF ControllerStep, Start, Spawn, Stop, StopNotify, Join, Lifecycle,
              threadVars, Notified
<1>3. CASE ThreadStep \/ SpuriousWakeup
  BY <1>3 DEF ThreadStep, SpuriousWakeup, LoopHead, Lock, Predicate, Block,
              Check, ReadTick, ReadQuote, FillOrder, RecordTrade, RecordLatency, Lifecycle
<1>4. CASE DeskStep
  BY <1>4 DEF DeskStep, Cancel, Modify, Lifecycle, threadVars
<1>5. CASE UNCHANGED vars
  BY <1>5 DEF vars, Lifecycle, threadVars
<1> QED
  BY <1>1, <1>2, <1>3, <1>4, <1>5 DEF Next

EngineInv == EngineTypeOK /\ Lifecycle

LEMMA EngineInvInductive == Spec => []EngineInv
<1>1. Init => EngineInv
  BY EngineTypeInit DEF EngineInv, Init, Lifecycle
<1>2. EngineInv /\ [Next]_vars => EngineInv'
  <2> SUFFICES ASSUME EngineTypeOK, Lifecycle, [Next]_vars
               PROVE  EngineTypeOK'
    BY LifecycleStep DEF EngineInv
  <2>1. CASE \E c \in Clients : ClientStep(c)
    BY <2>1, PlaceKeepsType, SubmitKeepsType DEF ClientStep
  <2>2. CASE ControllerStep
    BY <2>2, ControllerKeepsType
  <2>3. CASE ThreadStep \/ SpuriousWakeup
    BY <2>3, ThreadKeepsType
  <2>4. CASE DeskStep
    BY <2>4, DeskKeepsType
  <2>5. CASE UNCHANGED vars
    <3>1. Own'
      BY <2>5, TypeParts DEF vars, Own, queueVars, threadVars
    <3> QED
      BY <2>5, <3>1, OwnStep DEF vars
  <2> QED
    BY <2>1, <2>2, <2>3, <2>4, <2>5 DEF Next
<1> QED
  BY <1>1, <1>2, PTL DEF Spec

(* Type correctness of the engine and its order manager in every           *)
(* interleaving of the threads; queueMutex is held exactly between the     *)
(* lock of executionLoop() and its release.                                *)
THEOREM EngineTypeCorrect == Spec => []EngineTypeOK
<1>1. EngineInv => EngineTypeOK
  BY DEF EngineInv
<1> QED
  BY <1>1, EngineInvInductive, PTL

(* When stop() has returned and start() was not called again, the          *)
(* execution thread is gone and queueMutex is free: the engine may be      *)
(* destroyed.                                                              *)
THEOREM StoppedMeansQuiescent == Spec => []QuiescentWhenStopped
<1>1. EngineInv => QuiescentWhenStopped
  BY DEF EngineInv, Lifecycle, QuiescentWhenStopped, Stopped, EngineTypeOK
<1> QED
  BY <1>1, EngineInvInductive, PTL

-----------------------------------------------------------------------------
(* A request is in one of four places (A to D), and there is one request   *)
(* for each of the ids.                                                    *)
OneEach(A, B, C, D, ids) ==
  /\ {r.orderId : r \in A \cup B \cup C \cup D} = ids
  /\ \A r, s \in A \cup B \cup C \cup D : r.orderId = s.orderId => r = s
  /\ A \cap B = {} /\ A \cap C = {} /\ A \cap D = {}
  /\ B \cap C = {} /\ B \cap D = {} /\ C \cap D = {}

(* A request with a new id is built ... *)
LEMMA NewRequest ==
  ASSUME NEW A, NEW B, NEW C, NEW D, NEW ids, OneEach(A, B, C, D, ids),
         NEW r, r.orderId \notin ids
  PROVE  OneEach(A \cup {r}, B, C, D, ids \cup {r.orderId})
<1>1. \A s \in A \cup B \cup C \cup D : s.orderId # r.orderId /\ s # r
  BY DEF OneEach
<1>2. (A \cup {r}) \cup B \cup C \cup D = (A \cup B \cup C \cup D) \cup {r}
  OBVIOUS
<1> DEFINE all == A \cup B \cup C \cup D
<1>3. {s.orderId : s \in all} = ids /\ \A s, t \in all : s.orderId = t.orderId => s = t
  BY DEF OneEach
<1>4. {s.orderId : s \in all \cup {r}} = ids \cup {r.orderId}
  BY <1>3
<1>5. \A s, t \in all \cup {r} : s.orderId = t.orderId => s = t
  BY <1>1, <1>3
<1>6. /\ (A \cup {r}) \cap B = {} /\ (A \cup {r}) \cap C = {}
      /\ (A \cup {r}) \cap D = {}
      /\ B \cap C = {} /\ B \cap D = {} /\ C \cap D = {}
  BY <1>1 DEF OneEach
<1> QED
  BY <1>2, <1>4, <1>5, <1>6 DEF OneEach

(* ... and moves on from place to place. *)
LEMMA RequestPushed ==
  ASSUME NEW A, NEW B, NEW C, NEW D, NEW ids, OneEach(A, B, C, D, ids),
         NEW r \in A
  PROVE  OneEach(A \ {r}, B \cup {r}, C, D, ids)
<1>1. (A \ {r}) \cup (B \cup {r}) \cup C \cup D = A \cup B \cup C \cup D
  OBVIOUS
<1> QED
  BY <1>1 DEF OneEach

LEMMA Taken ==
  ASSUME NEW A, NEW B, NEW D, NEW ids, OneEach(A, B, {}, D, ids),
         NEW r \in B
  PROVE  OneEach(A, B \ {r}, {r}, D, ids)
<1>1. A \cup (B \ {r}) \cup {r} \cup D = A \cup B \cup {} \cup D
  OBVIOUS
<1> QED
  BY <1>1 DEF OneEach

LEMMA Done ==
  ASSUME NEW A, NEW B, NEW D, NEW ids, NEW r, OneEach(A, B, {r}, D, ids)
  PROVE  OneEach(A, B, {}, D \cup {r}, ids)
<1>1. A \cup B \cup {} \cup (D \cup {r}) = A \cup B \cup {r} \cup D
  OBVIOUS
<1> QED
  BY <1>1 DEF OneEach

-----------------------------------------------------------------------------
(* RequestsConserved speaks of sets of requests: for it to be inductive,   *)
(* the request a client is about to push has to be in no other client's    *)
(* hands.                                                                  *)
Conserved == OneEach(Built, executionQueue, executing, executed, DOMAIN orders)

BuiltOnce ==
  \A c, d \in Clients :
    /\ client[c].next = "push" /\ client[d].next = "push"
    /\ client[c].request.orderId = client[d].request.orderId
    => c = d

LEMMA ConservedSuffices == Conserved => RequestsConserved
<1> SUFFICES ASSUME Conserved
             PROVE  RequestsConserved
  OBVIOUS
<1> DEFINE all == Built \cup executionQueue \cup executing \cup executed
           places == <<Built, executionQueue, executing, executed>>
<1>1. /\ {r.orderId : r \in all} = DOMAIN orders
      /\ \A r, s \in all : r.orderId = s.orderId => r = s
  BY DEF Conserved, OneEach
<1>2. \A i, j \in 1 .. 4 : i # j => places[i] \cap places[j] = {}
  <2>1. /\ places[1] \cap places[2] = {} /\ places[1] \cap places[3] = {}
        /\ places[1] \cap places[4] = {} /\ places[2] \cap places[3] = {}
        /\ places[2] \cap places[4] = {} /\ places[3] \cap places[4] = {}
    BY DEF Conserved, OneEach
  <2> HIDE DEF places
  <2>2. \A i \in 1 .. 4 : i = 1 \/ i = 2 \/ i = 3 \/ i = 4
    OBVIOUS
  <2> QED
    BY <2>1, <2>2
<1> QED
  BY <1>1, <1>2 DEF RequestsConserved

LEMMA BuiltRequest ==
  ASSUME NEW r
  PROVE  r \in Built <=> \E c \in Clients :
                           client[c].next = "push" /\ client[c].request = r
BY DEF Built

LEMMA BuiltRequest2 ==
  ASSUME NEW r
  PROVE  r \in Built' <=> \E c \in Clients :
                            client'[c].next = "push" /\ client'[c].request = r
BY DEF Built

LEMMA ClientKeeps ==
  ASSUME Own, NEW c \in Clients, NEW v, client' = [client EXCEPT ![c] = v]
  PROVE  client'[c] = v /\ \A d \in Clients \ {c} : client'[d] = client[d]
BY DEF Own

LEMMA PlaceConserves ==
  ASSUME EngineTypeOK, Conserved, BuiltOnce, NEW c \in Clients, Place(c)
  PROVE  Conserved' /\ BuiltOnce'
<1>1. OrderManagerTypeOK /\ Own
  BY TypeParts
<1>2. PICK side \in OrderSide, price \in Prices, quantity \in Quantities,
           priority \in ExecutionPriority :
        PlaceRequest(c, side, price, quantity, priority)
  BY DEF Place
<1> DEFINE r == [orderId |-> orderIdCounter, side |-> side, price |-> price,
                 quantity |-> quantity, priority |-> priority]
           v == [next |-> "push", request |-> r]
<1>3. client' = [client EXCEPT ![c] = v] /\ client[c].next = "place"
  BY <1>2 DEF PlaceRequest
<1>4. r.orderId = orderIdCounter /\ v.next = "push" /\ v.request = r
  OBVIOUS
<1> HIDE DEF r
<1>5. v.next = "push" /\ v.request = r
  OBVIOUS
<1> HIDE DEF v
<1>6. client'[c] = v /\ \A d \in Clients \ {c} : client'[d] = client[d]
  BY <1>1, <1>3, ClientKeeps
<1>7. Built' = Built \cup {r}
  BY <1>3, <1>5, <1>6, BuiltRequest, BuiltRequest2
<1>8. orderIdCounter \notin DOMAIN orders
  BY <1>1 DEF OrderManagerTypeOK, FirstOrderId
<1>9. DOMAIN orders' = (DOMAIN orders) \cup {orderIdCounter}
  BY <1>2 DEF PlaceRequest, placeOrder, ChangeOrder, Stored
<1>10. UNCHANGED <<executionQueue, executed, thread, request>>
  BY <1>2 DEF PlaceRequest, queueVars, threadVars
<1>11. executing' = executing
  BY <1>10 DEF executing
<1>12. Conserved'
  <2>1. OneEach(Built \cup {r}, executionQueue, executing, executed,
                (DOMAIN orders) \cup {r.orderId})
    BY <1>4, <1>8, NewRequest DEF Conserved
  <2> QED
    BY <1>4, <1>7, <1>9, <1>10, <1>11, <2>1 DEF Conserved
<1>13. BuiltOnce'
  <2>1. \A d \in Clients \ {c} :
          client[d].next = "push" => client[d].request.orderId # orderIdCounter
    BY <1>8, BuiltRequest DEF Conserved, OneEach
  <2> QED
    BY <1>4, <1>5, <1>6, <2>1 DEF BuiltOnce
<1> QED
  BY <1>12, <1>13

LEMMA SubmitConserves ==
  ASSUME EngineTypeOK, Conserved, BuiltOnce, NEW c \in Clients, Submit(c)
  PROVE  Conserved' /\ BuiltOnce'
<1>1. Own
  BY TypeParts
<1> DEFINE r == client[c].request
           v == [client[c] EXCEPT !.next = "notify"]
<1>2. client' = [client EXCEPT ![c] = v] /\ client[c].next = "push"
  BY DEF Submit
<1>3. v.next = "notify"
  <2>1. client[c] \in [next : {"place", "push", "notify"},
                       request : ExecutionRequest]
    BY <1>1 DEF Own
  <2> QED
    BY <2>1
<1> HIDE DEF v
<1>4. client'[c] = v /\ \A d \in Clients \ {c} : client'[d] = client[d]
  BY <1>1, <1>2, ClientKeeps
<1>5. \A d \in Clients \ {c} : client[d].next = "push" => client[d].request # r
  BY <1>2 DEF BuiltOnce
<1>6. Built' = Built \ {r}
  BY <1>2, <1>3, <1>4, <1>5, BuiltRequest, BuiltRequest2
<1>7. executionQueue' = executionQueue \cup {r} /\ r \in Built
  BY <1>2, BuiltRequest DEF Submit
<1>8. UNCHANGED <<executed, thread, request, orders>>
  BY DEF Submit, omVars, orderVars, threadVars
<1>9. executing' = executing
  BY <1>8 DEF executing
<1> HIDE DEF r
<1>10. OneEach(Built \ {r}, executionQueue \cup {r}, executing, executed,
               DOMAIN orders)
  BY <1>7, RequestPushed DEF Conserved
<1>11. Conserved'
  BY <1>6, <1>7, <1>8, <1>9, <1>10 DEF Conserved
<1>12. BuiltOnce'
  BY <1>3, <1>4 DEF BuiltOnce
<1> QED
  BY <1>11, <1>12

(* Nobody builds or pushes a request, and the map keeps its ids. *)
LEMMA OtherwiseConserves ==
  ASSUME Conserved, BuiltOnce, client' = client, DOMAIN orders' = DOMAIN orders,
         OneEach(Built, executionQueue', executing', executed', DOMAIN orders)
  PROVE  Conserved' /\ BuiltOnce'
<1>1. Built' = Built
  BY DEF Built
<1> QED
  BY <1>1 DEF Conserved, BuiltOnce

LEMMA ExecutionKeepsIds ==
  ASSUME NEW id, NEW quantity, simulateOrderExecution(id, quantity)
  PROVE  DOMAIN orders' = DOMAIN orders
BY DEF simulateOrderExecution, ChangeOrder, Stored

LEMMA ThreadConserves ==
  ASSUME EngineTypeOK, Conserved, BuiltOnce, ThreadStep \/ SpuriousWakeup
  PROVE  Conserved' /\ BuiltOnce'
<1>1. client' = client
  BY DEF ThreadStep, LoopHead, Lock, Predicate, Block, Check, ReadTick, ReadQuote,
         FillOrder, RecordTrade, RecordLatency, SpuriousWakeup
<1>2. DOMAIN orders' = DOMAIN orders
  <2>1. CASE FillOrder
    BY <2>1, ExecutionKeepsIds DEF FillOrder
  <2>2. CASE ~FillOrder
    BY <2>2 DEF ThreadStep, LoopHead, Lock, Predicate, Block, Check, ReadTick,
         ReadQuote, RecordTrade, RecordLatency, SpuriousWakeup, omVars, orderVars
  <2> QED
    BY <2>1, <2>2
<1>3. OneEach(Built, executionQueue', executing', executed', DOMAIN orders)
  <2>1. CASE Check
    <3>1. executing = {} /\ executed' = executed
      BY <2>1 DEF Check, executing, Executing
    <3>2. CASE executionQueue = {}
      BY <2>1, <3>1, <3>2 DEF Check, Conserved, executing, Executing
    <3>3. CASE executionQueue # {}
      <4>1. PICK r \in executionQueue : Pop(r)
        BY <2>1, <3>3 DEF Check
      <4>2. executing' = {r} /\ executionQueue' = executionQueue \ {r}
        BY <2>1, <3>3, <4>1 DEF Check, Pop, executing, Executing
      <4> QED
        BY <3>1, <4>2, Taken DEF Conserved
    <3> QED
      BY <3>2, <3>3
  <2>2. CASE RecordLatency
    <3>1. executing = {request} /\ executing' = {}
      BY <2>2 DEF RecordLatency, executing, Executing
    <3>2. executed' = executed \cup {request} /\ executionQueue' = executionQueue
      BY <2>2 DEF RecordLatency, queueVars
    <3> QED
      BY <3>1, <3>2, Done DEF Conserved
  <2>3. CASE ~Check /\ ~RecordLatency
    <3>1. executionQueue' = executionQueue /\ executed' = executed
      BY <2>3 DEF ThreadStep, LoopHead, Lock, Predicate, Block, ReadTick, ReadQuote,
         FillOrder, RecordTrade, SpuriousWakeup, queueVars
    <3>2. executing' = executing
      BY <2>3 DEF ThreadStep, LoopHead, Lock, Predicate, Block, ReadTick, ReadQuote,
         FillOrder, RecordTrade, SpuriousWakeup, executing, Executing
    <3> QED
      BY <3>1, <3>2 DEF Conserved
  <2> QED
    BY <2>1, <2>2, <2>3
<1> QED
  BY <1>1, <1>2, <1>3, OtherwiseConserves

LEMMA ConservedStep ==
  ASSUME EngineTypeOK, Lifecycle, Conserved, BuiltOnce, [Next]_vars
  PROVE  Conserved' /\ BuiltOnce'
<1>1. CASE \E c \in Clients : ClientStep(c)
  <2>1. PICK c \in Clients : ClientStep(c)
    BY <1>1
  <2>2. CASE SubmitNotify(c)
    <3>1. Own
      BY TypeParts
    <3> DEFINE v == [next |-> "place", request |-> NoRequest]
    <3>0. client' = [client EXCEPT ![c] = v] /\ client[c].next = "notify"
          /\ v.next = "place"
      BY <2>2 DEF SubmitNotify
    <3> HIDE DEF v
    <3>2. client'[c].next = "place" /\ client[c].next = "notify"
          /\ \A d \in Clients \ {c} : client'[d] = client[d]
      BY <3>0, <3>1, ClientKeeps
    <3>3. Built' = Built
      <4>1. \A r : r \in Built <=> r \in Built'
        BY <3>2, BuiltRequest, BuiltRequest2
      <4> QED
        BY <4>1
    <3>4. BuiltOnce'
      BY <3>2 DEF BuiltOnce
    <3>5. executing' = executing
      BY <2>2 DEF SubmitNotify, Notified, executing, Executing
    <3> QED
      BY <2>2, <3>3, <3>4, <3>5 DEF SubmitNotify, Conserved, queueVars, omVars,
         orderVars
  <2> QED
    BY <2>1, <2>2, PlaceConserves, SubmitConserves DEF ClientStep
<1>2. CASE ControllerStep
  <2>1. UNCHANGED <<executionQueue, executed, client, orders, request>>
    BY <1>2 DEF ControllerStep, Start, Spawn, Stop, StopNotify, Join, queueVars,
       threadVars, omVars, orderVars
  <2>2. executing' = executing
    BY <1>2 DEF ControllerStep, Start, Spawn, Stop, StopNotify, Join, threadVars,
       Notified, Lifecycle, executing, Executing
  <2> QED
    BY <2>1, <2>2, OtherwiseConserves DEF Conserved
<1>3. CASE ThreadStep \/ SpuriousWakeup
  BY <1>3, ThreadConserves
<1>4. CASE DeskStep
  <2>1. UNCHANGED <<executionQueue, executed, client, thread, request>>
    BY <1>4 DEF DeskStep, Cancel, Modify, queueVars, threadVars
  <2>2. DOMAIN orders' = DOMAIN orders
    BY <1>4 DEF DeskStep, Cancel, Modify, cancelOrder, modifyOrder, IsPending,
       ChangeOrder, Stored
  <2>3. executing' = executing
    BY <2>1 DEF executing
  <2> QED
    BY <2>1, <2>2, <2>3, OtherwiseConserves DEF Conserved
<1>5. CASE UNCHANGED vars
  BY <1>5 DEF vars, omVars, orderVars, queueVars, threadVars, Conserved, BuiltOnce,
     Built, executing
<1> QED
  BY <1>1, <1>2, <1>3, <1>4, <1>5 DEF Next

RequestsInv == EngineInv /\ Conserved /\ BuiltOnce

LEMMA RequestsInvInductive == Spec => []RequestsInv
<1>1. Init => Conserved /\ BuiltOnce
  <2> SUFFICES ASSUME Init
               PROVE  Conserved /\ BuiltOnce
    OBVIOUS
  <2>1. \A c \in Clients : client[c].next = "place"
    BY DEF Init
  <2>2. Built = {} /\ executing = {} /\ DOMAIN orders = {}
    BY <2>1, BuiltRequest DEF Init, executing, Executing, OrderManagerInit
  <2> QED
    BY <2>1, <2>2 DEF Init, Conserved, OneEach, BuiltOnce
<1>2. EngineInv /\ Conserved /\ BuiltOnce /\ [Next]_vars => Conserved' /\ BuiltOnce'
  BY ConservedStep DEF EngineInv
<1> QED
  BY <1>1, <1>2, EngineInvInductive, PTL DEF Spec, RequestsInv

(* No request is lost, duplicated or executed twice between the client     *)
(* that builds it and the end of executeOrder(), however clients, desk,    *)
(* starts and stops interleave.                                            *)
THEOREM RequestsAreConserved == Spec => []RequestsConserved
<1>1. RequestsInv => RequestsConserved
  BY ConservedSuffices DEF RequestsInv
<1> QED
  BY <1>1, RequestsInvInductive, PTL

-----------------------------------------------------------------------------
(* The refinement: with lock and condition variable left out, every step   *)
(* of the engine is a step of the dispatcher or none.                      *)
dispatched == <<mode, executionQueue, executing, executed>>

LEMMA ClientDispatches ==
  ASSUME EngineTypeOK, Lifecycle, Conserved, NEW c \in Clients, ClientStep(c)
  PROVE  [Dispatch!Next]_dispatched
<1>1. CASE Place(c)
  BY <1>1 DEF Place, PlaceRequest, queueVars, threadVars, dispatched, mode, executing
<1>2. CASE Submit(c)
  <2> DEFINE r == client[c].request
  <2>1. r \in Built
    BY <1>2, BuiltRequest DEF Submit
  <2>2. r \notin executionQueue \cup executing \cup executed
    BY <2>1 DEF Conserved, OneEach
  <2>3. executionQueue' = executionQueue \cup {r}
    BY <1>2 DEF Submit
  <2>4. UNCHANGED <<mode, executing, executed>>
    BY <1>2 DEF Submit, threadVars, mode, executing
  <2> HIDE DEF r
  <2>5. Dispatch!Submit(r) /\ r \in executionQueue'
    BY <2>2, <2>3, <2>4 DEF Dispatch!Submit
  <2> QED
    BY <2>5 DEF Dispatch!Next
<1>3. CASE SubmitNotify(c)
  BY <1>3 DEF SubmitNotify, Notified, queueVars, dispatched, mode, executing, Executing
<1> QED
  BY <1>1, <1>2, <1>3 DEF ClientStep

LEMMA ControllerDispatches ==
  ASSUME EngineTypeOK, Lifecycle, ControllerStep
  PROVE  [Dispatch!Next]_dispatched
<1>1. CASE Start
  <2>1. thread = "none" /\ thread' = "none"
    BY <1>1 DEF Start, Lifecycle, threadVars
  <2>2. mode = "off" /\ mode' = "on" /\ executing = {} /\ executing' = {}
    BY <1>1, <2>1 DEF Start, mode, executing, Executing
  <2>3. UNCHANGED <<executionQueue, executing, executed>>
    BY <1>1, <2>2 DEF Start, queueVars
  <2> QED
    BY <2>2, <2>3 DEF Dispatch!Next, Dispatch!TurnOn
<1>2. CASE Spawn
  BY <1>2 DEF Spawn, Lifecycle, queueVars, dispatched, mode, executing, Executing
<1>3. CASE Stop
  <2>1. UNCHANGED <<executionQueue, executing, executed>>
    BY <1>3 DEF Stop, queueVars, threadVars, executing
  <2>2. CASE running
    <3>1. mode = "on" /\ mode' \in {"closing", "off"}
      BY <1>3, <2>2 DEF Stop, mode
    <3> QED
      BY <2>1, <3>1 DEF Dispatch!Next, Dispatch!TurnOff
  <2>3. CASE ~running
    <3>1. mode' = mode
      BY <1>3, <2>3 DEF Stop, mode, threadVars
    <3> QED
      BY <2>1, <3>1 DEF dispatched
  <2> QED
    BY <2>2, <2>3
<1>4. CASE StopNotify
  BY <1>4 DEF StopNotify, Notified, queueVars, dispatched, mode, executing, Executing
<1>5. CASE Join
  BY <1>5 DEF Join, queueVars, dispatched, mode, executing, Executing
<1> QED
  BY <1>1, <1>2, <1>3, <1>4, <1>5 DEF ControllerStep

LEMMA ThreadDispatches ==
  ASSUME EngineTypeOK, Lifecycle, ThreadStep \/ SpuriousWakeup
  PROVE  [Dispatch!Next]_dispatched
<1>1. CASE Check
  <2>1. executing = {} /\ executed' = executed /\ running' = running
    BY <1>1 DEF Check, executing, Executing
  <2>2. CASE executionQueue = {}
    <3>1. executionQueue' = executionQueue /\ executing' = executing
      BY <1>1, <2>1, <2>2 DEF Check, executing, Executing
    <3>2. CASE running
      BY <1>1, <2>1, <2>2, <3>1, <3>2 DEF Check, dispatched, mode
    <3>3. CASE ~running
      <4>1. mode = "closing" /\ mode' = "off"
        BY <1>1, <2>1, <2>2, <3>3 DEF Check, mode
      <4> QED
        BY <2>1, <3>1, <4>1 DEF Dispatch!Next, Dispatch!TurnOff
    <3> QED
      BY <3>2, <3>3
  <2>3. CASE executionQueue # {}
    <3>1. PICK r \in executionQueue : IsTop(r) /\ Pop(r)
      BY <1>1, <2>3 DEF Check
    <3>2. thread = "check" /\ thread' = "tick"
      BY <1>1, <2>3 DEF Check
    <3>3. executing' = {r} /\ executionQueue' = executionQueue \ {r}
      BY <3>1, <3>2 DEF Pop, executing, Executing
    <3>4. mode # "off" /\ mode' = IF mode = "closing" THEN "off" ELSE mode
      BY <2>1, <3>2 DEF mode
    <3>5. Dispatch!Begin(r)
      BY <2>1, <3>1, <3>3, <3>4 DEF Dispatch!Begin, IsTop
    <3> QED
      BY <3>5 DEF Dispatch!Next
  <2> QED
    BY <2>2, <2>3
<1>2. CASE RecordLatency
  <2>1. executing = {request} /\ executing' = {}
    BY <1>2 DEF RecordLatency, executing, Executing
  <2>2. executed' = executed \cup {request} /\ executionQueue' = executionQueue
    BY <1>2 DEF RecordLatency, queueVars
  <2>3. mode' = mode
    BY <1>2 DEF RecordLatency, mode
  <2> QED
    BY <2>1, <2>2, <2>3 DEF Dispatch!Next, Dispatch!Finish
<1>3. CASE LoopHead
  BY <1>3 DEF LoopHead, queueVars, dispatched, mode, executing, Executing
<1>4. CASE Lock \/ Predicate \/ Block \/ SpuriousWakeup
  BY <1>4 DEF Lock, Predicate, Block, SpuriousWakeup, queueVars, dispatched, mode,
     executing, Executing
<1>5. CASE ReadTick \/ FillOrder \/ RecordTrade
  BY <1>5 DEF ReadTick, ReadQuote, FillOrder, RecordTrade, queueVars, dispatched,
     mode, executing, Executing
<1> QED
  BY <1>1, <1>2, <1>3, <1>4, <1>5 DEF ThreadStep

(* The execution engine implements the dispatcher of PriorityDispatch:     *)
(* requests are executed one at a time, once, the most urgent first, and   *)
(* at most one more is begun after stop() was called.                      *)
THEOREM EngineImplementsDispatcher == Spec => DispatchesByPriority
<1>1. Init => Dispatch!Init
  BY DEF Init, Dispatch!Init, mode, executing, Executing
<1>2. RequestsInv /\ [Next]_vars => [Dispatch!Next]_dispatched
  <2> SUFFICES ASSUME EngineTypeOK, Lifecycle, Conserved, [Next]_vars
               PROVE  [Dispatch!Next]_dispatched
    BY DEF RequestsInv, EngineInv
  <2>1. CASE \E c \in Clients : ClientStep(c)
    BY <2>1, ClientDispatches
  <2>2. CASE ControllerStep
    BY <2>2, ControllerDispatches
  <2>3. CASE ThreadStep \/ SpuriousWakeup
    BY <2>3, ThreadDispatches
  <2>4. CASE DeskStep
    BY <2>4 DEF DeskStep, Cancel, Modify, queueVars, threadVars, dispatched, mode,
       executing
  <2>5. CASE UNCHANGED vars
    BY <2>5 DEF vars, queueVars, threadVars, dispatched, mode, executing
  <2> QED
    BY <2>1, <2>2, <2>3, <2>4, <2>5 DEF Next
<1>3. [Dispatch!Next]_dispatched => [Dispatch!Next]_(Dispatch!dispatchVars)
  BY DEF dispatched, Dispatch!dispatchVars
<1> QED
  BY <1>1, <1>2, <1>3, RequestsInvInductive, PTL
     DEF Spec, DispatchesByPriority, Dispatch!Spec

(* stop() can come to wait for ever only through the window in which the   *)
(* thread has evaluated wait()'s predicate and not blocked yet.            *)
THEOREM HangsOnlyInTheWindow == Spec => HungOnlyThroughWindow
<1>1. EngineInv /\ [Next]_vars => [~Hung /\ Hung' => thread = "block"]_vars
  <2> SUFFICES ASSUME EngineTypeOK, Lifecycle, [Next]_vars, ~Hung, Hung',
                      thread # "block"
               PROVE  FALSE
    BY DEF EngineInv
  <2>1. Own
    BY TypeParts
  <2>2. CASE \E c \in Clients : ClientStep(c)
    <3>1. PICK c \in Clients : ClientStep(c)
      BY <2>2
    <3>2. ASSUME Place(c) \/ Submit(c)
          PROVE  FALSE
      <4>1. thread' = thread /\ controller' = controller
        BY <3>2 DEF Place, PlaceRequest, Submit, threadVars
      <4>2. client[c].next # "notify"
        BY <3>2 DEF Place, PlaceRequest, Submit
      <4>3. \A d \in Clients \ {c} : client'[d] = client[d]
        BY <2>1, <3>2 DEF Place, PlaceRequest, Submit, Own
      <4> QED
        BY <4>1, <4>2, <4>3 DEF Hung
    <3>3. CASE SubmitNotify(c)
      BY <3>3 DEF SubmitNotify, Notified, Hung
    <3> QED
      BY <3>1, <3>2, <3>3 DEF ClientStep
  <2>3. CASE ControllerStep
    BY <2>3 DEF ControllerStep, Start, Spawn, Stop, StopNotify, Join, Notified,
       threadVars, Hung
  <2>4. CASE ThreadStep \/ SpuriousWakeup
    BY <2>4 DEF ThreadStep, LoopHead, Lock, Predicate, Block, Check, ReadTick,
       ReadQuote, FillOrder, RecordTrade, RecordLatency, SpuriousWakeup, Hung
  <2>5. CASE DeskStep
    BY <2>5 DEF DeskStep, Cancel, Modify, threadVars, Hung
  <2>6. CASE UNCHANGED vars
    BY <2>6 DEF vars, threadVars, Hung
  <2> QED
    BY <2>2, <2>3, <2>4, <2>5, <2>6 DEF Next
<1> QED
  BY <1>1, EngineInvInductive, PTL DEF Spec, HungOnlyThroughWindow

(* Lost wakeups.  The thread that is about to block holds queueMutex since *)
(* it found the queue empty, so nothing is pushed; while it sleeps, who    *)
(* pushes has still to notify.                                             *)
AboutToNotify == \E c \in Clients : client[c].next = "notify"
SleepsOnEmptyQueue ==
  /\ thread = "block" => executionQueue = {}
  /\ NoWakeupLost

LEMMA SleepsOnEmptyQueueStep ==
  ASSUME EngineTypeOK, SleepsOnEmptyQueue, [Next]_vars
  PROVE  SleepsOnEmptyQueue'
<1>1. Own
  BY TypeParts
<1>2. /\ thread = "block" => executionQueue = {}
      /\ thread = "waiting" /\ executionQueue # {} => AboutToNotify
  BY DEF SleepsOnEmptyQueue, NoWakeupLost, AboutToNotify
<1> SUFFICES /\ thread' = "block" => executionQueue' = {}
             /\ thread' = "waiting" /\ executionQueue' # {} => AboutToNotify'
  BY DEF SleepsOnEmptyQueue, NoWakeupLost, AboutToNotify
<1>3. ASSUME NEW c \in Clients, Place(c)
      PROVE  /\ thread' = thread /\ executionQueue' = executionQueue
             /\ AboutToNotify => AboutToNotify'
  <2>1. /\ thread' = thread /\ executionQueue' = executionQueue
        /\ client[c].next = "place"
        /\ \A d \in Clients \ {c} : client'[d] = client[d]
    BY <1>1, <1>3 DEF Place, PlaceRequest, threadVars, queueVars, Own
  <2> QED
    BY <2>1 DEF AboutToNotify
<1>4. ASSUME NEW c \in Clients, Submit(c)
      PROVE  thread' = thread /\ thread # "block" /\ AboutToNotify'
  <2>1. thread' = thread /\ thread # "block" /\ client'[c].next = "notify"
    BY <1>1, <1>4 DEF Submit, threadVars, Own
  <2> QED
    BY <2>1 DEF AboutToNotify
<1>5. ASSUME NEW c \in Clients, SubmitNotify(c)
      PROVE  thread' # "waiting" /\ (thread' = "block" => thread = "block")
             /\ executionQueue' = executionQueue
  BY <1>5 DEF SubmitNotify, Notified, queueVars
<1>6. CASE \E c \in Clients : ClientStep(c)
  BY <1>2, <1>3, <1>4, <1>5, <1>6 DEF ClientStep
<1>7. ASSUME ControllerStep \/ SpuriousWakeup \/ DeskStep \/ UNCHANGED vars
      PROVE  /\ executionQueue' = executionQueue /\ (AboutToNotify => AboutToNotify')
             /\ thread' \in {"block", "waiting"} => thread' = thread
  BY <1>7
  DEF ControllerStep, Start, Spawn, Stop, StopNotify, Join, Notified, SpuriousWakeup,
      DeskStep, Cancel, Modify, threadVars, queueVars, vars, AboutToNotify
<1>8. CASE ThreadStep
  <2>1. AboutToNotify => AboutToNotify'
    BY <1>8
    DEF ThreadStep, LoopHead, Lock, Predicate, Block, Check, ReadTick, ReadQuote, FillOrder,
        RecordTrade, RecordLatency, AboutToNotify
  <2>2. \/ thread' \notin {"block", "waiting"}
        \/ Predicate \/ Block
    BY <1>8
    DEF ThreadStep, LoopHead, Lock, Check, ReadTick, ReadQuote, FillOrder, RecordTrade,
        RecordLatency
  <2>3. ASSUME Predicate \/ Block
        PROVE  /\ executionQueue' = executionQueue
               /\ thread' = "block" => executionQueue = {}
               /\ thread' = "waiting" => thread = "block"
    BY <2>3 DEF Predicate, Block, queueVars
  <2> QED
    BY <1>2, <2>1, <2>2, <2>3
<1> QED
  BY <1>2, <1>6, <1>7, <1>8 DEF Next

(* submitOrder() notifies after it has released queueMutex, and wait()     *)
(* tests the queue under it: for any number of clients, a thread that      *)
(* sleeps on a request is one that somebody is about to wake.              *)
THEOREM WakeupsAreNotLost == Spec => []NoWakeupLost
<1>1. Init => SleepsOnEmptyQueue
  BY DEF Init, SleepsOnEmptyQueue, NoWakeupLost
<1>2. EngineInv /\ SleepsOnEmptyQueue /\ [Next]_vars => SleepsOnEmptyQueue'
  BY SleepsOnEmptyQueueStep DEF EngineInv
<1>3. SleepsOnEmptyQueue => NoWakeupLost
  BY DEF SleepsOnEmptyQueue
<1> QED
  BY <1>1, <1>2, <1>3, EngineInvInductive, PTL DEF Spec

-----------------------------------------------------------------------------
(* The requests whose order is filled and those whose trade is recorded    *)
(* (a request for nothing leaves neither).  One execution moves its        *)
(* request into the first set and then, in another critical section, into  *)
(* the second.                                                             *)
filledBy == executed \cup (IF thread \in {"trade", "record"} THEN {request} ELSE {})
tradedBy == executed \cup (IF thread = "record" THEN {request} ELSE {})

WithinLimit(r, price) == IF r.side = "BUY" THEN price <= r.price ELSE price >= r.price

Settles(trade, r) ==
  /\ r.quantity > 0
  /\ trade.tradeId = r.orderId
  /\ trade.orderId = r.orderId
  /\ trade.side = r.side
  /\ trade.quantity = r.quantity
  /\ WithinLimit(r, trade.price)

TradesAccounted ==
  /\ \A i \in DOMAIN trades : \E r \in tradedBy : Settles(trades[i], r)
  /\ \A r \in tradedBy :
       r.quantity > 0 => \E i \in DOMAIN trades : trades[i].orderId = r.orderId
  /\ \A i, j \in DOMAIN trades : trades[i].tradeId = trades[j].tradeId => i = j

OrdersAccounted ==
  /\ \A id \in DOMAIN orders :
       orders[id].status \in {"FILLED", "PARTIAL"} =>
         \E r \in filledBy : r.orderId = id /\ r.quantity > 0
  /\ \A r \in filledBy :
       r.quantity > 0 => /\ orders[r.orderId].status \in {"FILLED", "PARTIAL"}
                         /\ orders[r.orderId].filledQuantity = r.quantity

PriceTaken ==
  thread \in {"fill", "trade"} =>
    request.quantity > 0 /\ WithinLimit(request, executionPrice)

(* Every step but three leaves both sets as they are. *)
LEMMA SetsKept ==
  ASSUME EngineTypeOK, Lifecycle, [Next]_vars,
         ~ReadTick, ~FillOrder, ~RecordTrade
  PROVE  filledBy' = filledBy /\ tradedBy' = tradedBy /\ trades' = trades
<1>1. CASE \E c \in Clients : ClientStep(c)
  BY <1>1 DEF ClientStep, Place, PlaceRequest, Submit, SubmitNotify, Notified,
     threadVars, filledBy, tradedBy, omVars, tradeVars
<1>2. CASE ControllerStep
  BY <1>2 DEF ControllerStep, Start, Spawn, Stop, StopNotify, Join, Notified,
     Lifecycle, threadVars, filledBy, tradedBy, omVars, tradeVars
<1>3. CASE ThreadStep \/ SpuriousWakeup
  <2>1. CASE RecordLatency
    BY <2>1 DEF RecordLatency, filledBy, tradedBy, omVars, tradeVars
  <2>2. CASE ~RecordLatency
    BY <1>3, <2>2 DEF ThreadStep, LoopHead, Lock, Predicate, Block, Check,
       SpuriousWakeup, filledBy, tradedBy, omVars, tradeVars
  <2> QED
    BY <2>1, <2>2
<1>4. CASE DeskStep
  BY <1>4 DEF DeskStep, Cancel, Modify, threadVars, filledBy, tradedBy, tradeVars
<1>5. CASE UNCHANGED vars
  BY <1>5 DEF vars, threadVars, filledBy, tradedBy, omVars, tradeVars
<1> QED
  BY <1>1, <1>2, <1>3, <1>4, <1>5 DEF Next

LEMMA PriceTakenStep ==
  ASSUME EngineTypeOK, Lifecycle, PriceTaken, [Next]_vars
  PROVE  PriceTaken'
<1>1. CASE \E c \in Clients : ClientStep(c)
  BY <1>1 DEF ClientStep, Place, PlaceRequest, Submit, SubmitNotify, Notified,
     threadVars, PriceTaken
<1>2. CASE ControllerStep
  BY <1>2 DEF ControllerStep, Start, Spawn, Stop, StopNotify, Join, Notified,
     Lifecycle, threadVars, PriceTaken
<1>3. CASE ReadTick
  <2>1. PICK quote \in Quotes : ReadQuote(quote[1], quote[2])
    BY <1>3 DEF ReadTick
  <2>2. quote[1] \in Nat /\ quote[2] \in Nat
    BY EngineAssumption DEF EngineAssumption
  <2>3. request.price \in Nat
    BY DEF EngineTypeOK, ExecutionRequest
  <2>4. WithinLimit(request, PriceOf(request, quote[1], quote[2]))
    BY <2>2, <2>3 DEF WithinLimit, PriceOf, Larger, Smaller
  <2>5. /\ executionPrice' = PriceOf(request, quote[1], quote[2])
        /\ request' = request
        /\ thread' = "fill" => request.quantity > 0
        /\ thread' # "trade"
    BY <2>1 DEF ReadQuote
  <2>6. CASE thread' = "fill"
    <3>1. WithinLimit(request, PriceOf(request, quote[1], quote[2]))
            <=> WithinLimit(request', executionPrice')
      BY <2>5
    <3> QED
      BY <2>4, <2>5, <2>6, <3>1 DEF PriceTaken, WithinLimit
  <2> QED
    BY <2>5, <2>6 DEF PriceTaken
<1>4. CASE (ThreadStep \/ SpuriousWakeup) /\ ~ReadTick
  BY <1>4 DEF ThreadStep, LoopHead, Lock, Predicate, Block, Check,
     FillOrder, RecordTrade, RecordLatency, SpuriousWakeup, PriceTaken, WithinLimit
<1>5. CASE DeskStep
  BY <1>5 DEF DeskStep, Cancel, Modify, threadVars, PriceTaken, WithinLimit
<1>6. CASE UNCHANGED vars
  BY <1>6 DEF vars, threadVars, PriceTaken, WithinLimit
<1> QED
  BY <1>1, <1>2, <1>3, <1>4, <1>5, <1>6 DEF Next

(* What the three steps do to the sets. *)
LEMMA ReadTickSets ==
  ASSUME ReadTick
  PROVE  /\ UNCHANGED <<orders, trades, request>>
         /\ filledBy \subseteq filledBy' /\ tradedBy \subseteq tradedBy'
         /\ \A r \in filledBy' : r.quantity > 0 => r \in filledBy
         /\ \A r \in tradedBy' : r.quantity > 0 => r \in tradedBy
BY DEF ReadTick, ReadQuote, filledBy, tradedBy, omVars, orderVars, tradeVars

LEMMA FillOrderSets ==
  ASSUME FillOrder
  PROVE  /\ UNCHANGED <<trades, request, executed>>
         /\ filledBy = executed /\ filledBy' = executed \cup {request}
         /\ tradedBy' = tradedBy /\ executing = {request}
BY DEF FillOrder, filledBy, tradedBy, tradeVars, executing, Executing

LEMMA RecordTradeSets ==
  ASSUME RecordTrade
  PROVE  /\ UNCHANGED <<orders, request, executed>>
         /\ filledBy' = filledBy /\ executing = {request}
         /\ tradedBy = executed /\ tradedBy' = executed \cup {request}
BY DEF RecordTrade, filledBy, tradedBy, orderVars, executing, Executing

LEMMA OneOrderEach ==
  ASSUME Conserved, executing = {request}
  PROVE  /\ request.orderId \in DOMAIN orders
         /\ \A r \in executed : r.orderId # request.orderId
         /\ \A r \in executed : r.orderId \in DOMAIN orders
<1> DEFINE all == Built \cup executionQueue \cup executing \cup executed
<1>1. /\ {r.orderId : r \in all} = DOMAIN orders
      /\ \A r, s \in all : r.orderId = s.orderId => r = s
      /\ executing \cap executed = {}
  BY DEF Conserved, OneEach
<1>2. request \in all /\ request \notin executed
  BY <1>1
<1>3. \A r \in executed : r \in all
  OBVIOUS
<1> QED
  BY <1>1, <1>2, <1>3

LEMMA TradesAccountedStep ==
  ASSUME EngineTypeOK, Lifecycle, Conserved, PriceTaken, TradesAccounted,
         [Next]_vars
  PROVE  TradesAccounted'
<1>1. CASE ReadTick
  <2>1. \A trade, r : Settles(trade, r) => r.quantity > 0
    BY DEF Settles
  <2> QED
    BY <1>1, <2>1, ReadTickSets DEF TradesAccounted
<1>2. CASE RecordTrade
  <2> DEFINE t == TradeOf(request, executionPrice)
             n == Len(trades)
  <2>1. thread = "trade" /\ trades' = Append(trades, t)
    BY <1>2 DEF RecordTrade, simulateTrade
  <2>2. /\ t.tradeId = request.orderId /\ t.orderId = request.orderId
        /\ t.side = request.side /\ t.price = executionPrice
        /\ t.quantity = request.quantity
    BY DEF TradeOf
  <2>3. Settles(t, request)
    BY <2>1, <2>2 DEF PriceTaken, Settles
  <2> HIDE DEF t
  <2>4. trades \in Seq(Trade)
    BY DEF EngineTypeOK, OrderManagerTypeOK
  <2>5. /\ n \in Nat /\ DOMAIN trades = 1 .. n /\ DOMAIN trades' = 1 .. n + 1
        /\ trades'[n + 1] = t /\ \A i \in 1 .. n : trades'[i] = trades[i]
    BY <2>1, <2>4
  <2> HIDE DEF n
  <2>6. tradedBy = executed /\ tradedBy' = executed \cup {request}
    BY <1>2, RecordTradeSets
  <2>7. \A r \in executed : r.orderId # request.orderId
    BY <1>2, RecordTradeSets, OneOrderEach
  <2>8. \A i \in DOMAIN trades' : i \in 1 .. n \/ i = n + 1
    BY <2>5
  <2>9. \A i \in DOMAIN trades' : \E r \in tradedBy' : Settles(trades'[i], r)
    BY <2>3, <2>5, <2>6, <2>8 DEF TradesAccounted
  <2>10. \A r \in tradedBy' :
           r.quantity > 0 => \E i \in DOMAIN trades' : trades'[i].orderId = r.orderId
    <3>1. 1 .. n \subseteq 1 .. n + 1 /\ n + 1 \in 1 .. n + 1
      BY <2>5
    <3> QED
      BY <2>2, <2>5, <2>6, <3>1 DEF TradesAccounted
  <2>11. \A i \in 1 .. n : trades[i].tradeId # request.orderId
    BY <2>5, <2>6, <2>7 DEF TradesAccounted, Settles
  <2>12. \A i, j \in DOMAIN trades' :
           trades'[i].tradeId = trades'[j].tradeId => i = j
    BY <2>2, <2>5, <2>8, <2>11 DEF TradesAccounted
  <2> QED
    BY <2>9, <2>10, <2>12 DEF TradesAccounted
<1>3. CASE FillOrder
  BY <1>3, FillOrderSets DEF TradesAccounted
<1>4. CASE ~ReadTick /\ ~FillOrder /\ ~RecordTrade
  BY <1>4, SetsKept DEF TradesAccounted
<1> QED
  BY <1>1, <1>2, <1>3, <1>4

-----------------------------------------------------------------------------
(* The orders: a change touches one of them. *)
LEMMA ChangeOrderElsewhere ==
  ASSUME NEW id, NEW order, ChangeOrder(id, order)
  PROVE  /\ DOMAIN orders' = (DOMAIN orders) \cup {id}
         /\ orders'[id] = order
         /\ \A i \in (DOMAIN orders) \ {id} : orders'[i] = orders[i]
BY DEF ChangeOrder, Stored

(* Outside executeOrder() orders change only in placeOrder(), which adds   *)
(* one that is pending, and through the desk, which finds a pending one    *)
(* and leaves one that is pending or cancelled.                            *)
LEMMA OrdersChange ==
  ASSUME EngineTypeOK, [Next]_vars, ~FillOrder
  PROVE  \/ orders' = orders
         \/ \E c \in Clients : Place(c)
         \/ \E id \in DOMAIN orders, order \in Order :
              /\ DeskStep
              /\ ChangeOrder(id, order)
              /\ orders[id].status = "PENDING"
              /\ order.status \in {"PENDING", "CANCELLED"}
              /\ "cancel" \notin Desk => order.status = "PENDING"
              /\ "modify" \notin Desk => order.quantity = orders[id].quantity
<1>1. CASE DeskStep
  <2>1. PICK id \in DOMAIN orders :
          \/ Cancel(id)
          \/ \E price \in Prices, quantity \in Quantities :
               Modify(id, price, quantity)
    BY <1>1 DEF DeskStep
  <2>2. orders[id] \in Order
    BY DEF EngineTypeOK, OrderManagerTypeOK
  <2>3. CASE Cancel(id)
    <3> DEFINE order == [orders[id] EXCEPT !.status = "CANCELLED"]
    <3>1. order \in Order /\ order.status = "CANCELLED"
          /\ order.quantity = orders[id].quantity
      BY <2>2 DEF Order, OrderStatus
    <3>2. ChangeOrder(id, order) /\ orders[id].status = "PENDING" /\ "cancel" \in Desk
      BY <2>3 DEF Cancel, cancelOrder, IsPending
    <3> HIDE DEF order
    <3> QED
      BY <1>1, <3>1, <3>2
  <2>4. CASE \E price \in Prices, quantity \in Quantities :
               Modify(id, price, quantity)
    <3>1. PICK price \in Prices, quantity \in Quantities :
            Modify(id, price, quantity)
      BY <2>4
    <3> DEFINE order == [orders[id] EXCEPT !.price = price, !.quantity = quantity]
    <3>2. price \in Nat /\ quantity \in Nat
      BY OrderAssumption DEF OrderAssumption
    <3>3. order \in Order /\ order.status = orders[id].status
      BY <2>2, <3>2 DEF Order
    <3>4. ChangeOrder(id, order) /\ orders[id].status = "PENDING" /\ "modify" \in Desk
      BY <3>1 DEF Modify, modifyOrder, IsPending
    <3> HIDE DEF order
    <3> QED
      BY <1>1, <3>3, <3>4
  <2> QED
    BY <2>1, <2>3, <2>4
<1>2. CASE \E c \in Clients : ClientStep(c)
  BY <1>2 DEF ClientStep, Submit, SubmitNotify, omVars, orderVars
<1>3. CASE ControllerStep
  BY <1>3 DEF ControllerStep, Start, Spawn, Stop, StopNotify, Join, omVars, orderVars
<1>4. CASE ThreadStep \/ SpuriousWakeup
  BY <1>4 DEF ThreadStep, LoopHead, Lock, Predicate, Block, Check, ReadTick,
     ReadQuote, RecordTrade, RecordLatency, SpuriousWakeup, omVars, orderVars
<1>5. CASE UNCHANGED vars
  BY <1>5 DEF vars, omVars, orderVars
<1> QED
  BY <1>1, <1>2, <1>3, <1>4, <1>5 DEF Next

(* A new order is pending, has a new id and the quantity of its request. *)
LEMMA PlacedOrder ==
  ASSUME EngineTypeOK, NEW c \in Clients, Place(c)
  PROVE  /\ orderIdCounter \notin DOMAIN orders
         /\ DOMAIN orders' = (DOMAIN orders) \cup {orderIdCounter}
         /\ orders'[orderIdCounter].status = "PENDING"
         /\ \A i \in DOMAIN orders : orders'[i] = orders[i]
         /\ \E r : /\ client' = [client EXCEPT ![c] = [next |-> "push", request |-> r]]
                   /\ r.orderId = orderIdCounter
                   /\ orders'[orderIdCounter].quantity = r.quantity
<1>1. PICK side \in OrderSide, price \in Prices, quantity \in Quantities,
           priority \in ExecutionPriority :
        PlaceRequest(c, side, price, quantity, priority)
  BY DEF Place
<1> DEFINE r == [orderId |-> orderIdCounter, side |-> side, price |-> price,
                 quantity |-> quantity, priority |-> priority]
           order == [NewOrder(side, price, quantity) EXCEPT !.status = "PENDING"]
<1>2. client' = [client EXCEPT ![c] = [next |-> "push", request |-> r]]
  BY <1>1 DEF PlaceRequest
<1>3. ChangeOrder(orderIdCounter, order)
  BY <1>1 DEF PlaceRequest, placeOrder
<1>4. order.status = "PENDING" /\ order.quantity = quantity
  BY DEF NewOrder
<1>5. r.orderId = orderIdCounter /\ r.quantity = quantity
  OBVIOUS
<1> HIDE DEF r, order
<1>6. orderIdCounter \notin DOMAIN orders
  BY DEF EngineTypeOK, OrderManagerTypeOK, FirstOrderId
<1>7. /\ DOMAIN orders' = (DOMAIN orders) \cup {orderIdCounter}
      /\ orders'[orderIdCounter] = order
      /\ \A i \in (DOMAIN orders) \ {orderIdCounter} : orders'[i] = orders[i]
  BY <1>3, ChangeOrderElsewhere
<1> QED
  BY <1>2, <1>4, <1>5, <1>6, <1>7

(* The order of a request whose execution is over or under way is in the   *)
(* map.                                                                    *)
LEMMA FilledHaveOrders ==
  ASSUME Conserved, NEW r \in filledBy
  PROVE  r.orderId \in DOMAIN orders
<1>1. filledBy \subseteq executing \cup executed
  BY DEF filledBy, executing, Executing
<1> QED
  BY <1>1 DEF Conserved, OneEach

LEMMA OrdersAccountedStep ==
  ASSUME EngineTypeOK, Lifecycle, Conserved, OrdersAccounted, PriceTaken,
         [Next]_vars
  PROVE  OrdersAccounted'
<1>1. CASE FillOrder
  <2> DEFINE q == request.orderId
             order == Filled(orders[q], request.quantity)
  <2>1. /\ filledBy = executed /\ filledBy' = executed \cup {request}
        /\ executing = {request}
    BY <1>1, FillOrderSets
  <2>2. q \in DOMAIN orders /\ \A r \in executed : r.orderId # q
    BY <2>1, OneOrderEach
  <2>3. thread = "fill" /\ ChangeOrder(q, order)
    BY <1>1, <2>2 DEF FillOrder, simulateOrderExecution
  <2>4. orders[q] \in Order
    BY <2>2 DEF EngineTypeOK, OrderManagerTypeOK
  <2>5. order.status \in {"FILLED", "PARTIAL"} /\ order.filledQuantity = request.quantity
    BY <2>4 DEF Filled, Order
  <2>6. request.quantity > 0
    BY <2>3 DEF PriceTaken
  <2> HIDE DEF order
  <2>7. /\ DOMAIN orders' = DOMAIN orders /\ orders'[q] = order
        /\ \A i \in (DOMAIN orders) \ {q} : orders'[i] = orders[i]
    BY <2>2, <2>3, ChangeOrderElsewhere
  <2>8. \A id \in DOMAIN orders' :
          orders'[id].status \in {"FILLED", "PARTIAL"} =>
            \E r \in filledBy' : r.orderId = id /\ r.quantity > 0
    BY <2>1, <2>6, <2>7 DEF OrdersAccounted
  <2>9. \A r \in filledBy' :
          r.quantity > 0 => /\ orders'[r.orderId].status \in {"FILLED", "PARTIAL"}
                            /\ orders'[r.orderId].filledQuantity = r.quantity
    <3>1. \A r \in executed : orders'[r.orderId] = orders[r.orderId]
      BY <2>1, <2>2, <2>7, FilledHaveOrders
    <3> QED
      BY <2>1, <2>5, <2>7, <3>1 DEF OrdersAccounted
  <2> QED
    BY <2>8, <2>9 DEF OrdersAccounted
<1>2. CASE ~FillOrder
  <2>1. /\ filledBy \subseteq filledBy'
        /\ \A r \in filledBy' : r.quantity > 0 => r \in filledBy
    <3>1. CASE ReadTick
      BY <3>1, ReadTickSets
    <3>2. CASE RecordTrade
      BY <3>2, RecordTradeSets
    <3>3. CASE ~ReadTick /\ ~RecordTrade
      BY <1>2, <3>3, SetsKept
    <3> QED
      BY <3>1, <3>2, <3>3
  <2>2. \A r \in filledBy : r.orderId \in DOMAIN orders
    BY FilledHaveOrders
  <2>3. CASE orders' = orders
    BY <2>1, <2>3 DEF OrdersAccounted
  <2>4. CASE \E c \in Clients : Place(c)
    <3>1. /\ orderIdCounter \notin DOMAIN orders
          /\ DOMAIN orders' = (DOMAIN orders) \cup {orderIdCounter}
          /\ orders'[orderIdCounter].status = "PENDING"
          /\ \A i \in DOMAIN orders : orders'[i] = orders[i]
      BY <2>4, PlacedOrder
    <3> QED
      BY <2>1, <2>2, <3>1 DEF OrdersAccounted
  <2>5. CASE \E id \in DOMAIN orders, order \in Order :
               /\ ChangeOrder(id, order)
               /\ orders[id].status = "PENDING"
               /\ order.status \in {"PENDING", "CANCELLED"}
    <3>1. PICK id \in DOMAIN orders, order \in Order :
               /\ ChangeOrder(id, order)
               /\ orders[id].status = "PENDING"
               /\ order.status \in {"PENDING", "CANCELLED"}
      BY <2>5
    <3>2. /\ DOMAIN orders' = DOMAIN orders /\ orders'[id] = order
          /\ \A i \in (DOMAIN orders) \ {id} : orders'[i] = orders[i]
      BY <3>1, ChangeOrderElsewhere
    <3>3. \A r \in filledBy : r.quantity > 0 => r.orderId # id
      BY <3>1 DEF OrdersAccounted
    <3> QED
      BY <2>1, <2>2, <3>1, <3>2, <3>3 DEF OrdersAccounted
  <2> QED
    BY <1>2, <2>3, <2>4, <2>5, OrdersChange
<1> QED
  BY <1>1, <1>2

Accounted == PriceTaken /\ TradesAccounted /\ OrdersAccounted

ExecutionInv == RequestsInv /\ Accounted

LEMMA ExecutionInvInductive == Spec => []ExecutionInv
<1>1. Init => Accounted
  <2> SUFFICES ASSUME Init
               PROVE  Accounted
    OBVIOUS
  <2>1. /\ thread = "none" /\ executed = {} /\ trades = <<>>
        /\ DOMAIN orders = {}
    BY DEF Init, OrderManagerInit
  <2>2. filledBy = {} /\ tradedBy = {} /\ DOMAIN trades = {}
    BY <2>1 DEF filledBy, tradedBy
  <2> QED
    BY <2>1, <2>2 DEF Accounted, PriceTaken, TradesAccounted, OrdersAccounted
<1>2. RequestsInv /\ Accounted /\ [Next]_vars => Accounted'
  BY PriceTakenStep, TradesAccountedStep, OrdersAccountedStep
     DEF Accounted, RequestsInv, EngineInv
<1> QED
  BY <1>1, <1>2, RequestsInvInductive, PTL DEF Spec, ExecutionInv

(* Orders and trade history tell the same story at every moment, although  *)
(* executeOrder() changes them under two mutexes: no order is traded       *)
(* twice, a trade has the quantity its order is filled with, and only the  *)
(* order being executed can be filled without a trade.                     *)
THEOREM OrdersAndTradesMatch == Spec => []OrdersMatchTrades
<1>1. ASSUME EngineTypeOK, Conserved, Accounted
      PROVE  OrdersMatchTrades
  <2>1. tradedBy \subseteq filledBy
    BY DEF tradedBy, filledBy
  <2>2. \A i \in DOMAIN trades : \E r \in filledBy :
          r.quantity > 0 /\ trades[i].orderId = r.orderId
          /\ trades[i].quantity = r.quantity
    BY <1>1, <2>1 DEF Accounted, TradesAccounted, Settles
  <2>3. \A i \in DOMAIN trades :
       /\ trades[i].orderId \in DOMAIN orders
       /\ orders[trades[i].orderId].status \in {"FILLED", "PARTIAL"}
       /\ orders[trades[i].orderId].filledQuantity = trades[i].quantity
    BY <1>1, <2>2, FilledHaveOrders DEF Accounted, OrdersAccounted
  <2>4. ASSUME NEW id \in DOMAIN orders, orders[id].status \in {"FILLED", "PARTIAL"}
        PROVE  \/ \E i \in DOMAIN trades : trades[i].orderId = id
               \/ thread = "trade" /\ request.orderId = id
    <3>1. PICK r \in filledBy : r.orderId = id /\ r.quantity > 0
      BY <1>1, <2>4 DEF Accounted, OrdersAccounted
    <3>2. r \in tradedBy \/ (thread = "trade" /\ r = request)
      BY <3>1 DEF filledBy, tradedBy
    <3> QED
      BY <1>1, <3>1, <3>2 DEF Accounted, TradesAccounted
  <2>5. \A i, j \in DOMAIN trades :
          trades[i].tradeId = trades[j].tradeId => i = j
    BY <1>1 DEF Accounted, TradesAccounted
  <2> QED
    BY <2>3, <2>4, <2>5 DEF OrdersMatchTrades
<1>2. ExecutionInv => OrdersMatchTrades
  BY <1>1 DEF ExecutionInv, RequestsInv, EngineInv
<1> QED
  BY <1>2, ExecutionInvInductive, PTL

(* No trade is at a price worse than its request allows, whatever the tick *)
(* that executeOrder() read.                                               *)
THEOREM LimitsAreRespected == Spec => []LimitRespected
<1>1. ASSUME Accounted
      PROVE  LimitRespected
  <2>1. tradedBy \subseteq executing \cup executed
    BY DEF tradedBy, executing, Executing
  <2>2. \A i \in DOMAIN trades : \E r \in executing \cup executed :
          Settles(trades[i], r)
    BY <1>1, <2>1 DEF Accounted, TradesAccounted
  <2> QED
    BY <2>2 DEF LimitRespected, Settles, WithinLimit
<1>2. ExecutionInv => LimitRespected
  BY <1>1 DEF ExecutionInv
<1> QED
  BY <1>2, ExecutionInvInductive, PTL

(* A settled order never changes again, except that a cancelled one is     *)
(* executed when the execution thread reaches the request for it.          *)
THEOREM SettledStaysSettled == Spec => SettledIsFinal
<1>1. ASSUME EngineTypeOK, Conserved, Accounted, [Next]_vars,
             NEW id \in DOMAIN orders,
             orders[id].status # "PENDING", orders'[id] # orders[id]
      PROVE  orders[id].status = "CANCELLED" /\ thread = "fill"
             /\ request.orderId = id
  <2>1. CASE FillOrder
    <3>1. /\ filledBy = executed /\ executing = {request}
      BY <2>1, FillOrderSets
    <3>2. request.orderId \in DOMAIN orders
          /\ \A r \in executed : r.orderId # request.orderId
      BY <3>1, <1>1, OneOrderEach
    <3>3. thread = "fill"
          /\ ChangeOrder(request.orderId,
                         Filled(orders[request.orderId], request.quantity))
      BY <2>1, <3>2 DEF FillOrder, simulateOrderExecution
    <3>4. id = request.orderId
      BY <1>1, <3>3, ChangeOrderElsewhere
    <3>5. orders[id].status \notin {"FILLED", "PARTIAL"}
      BY <1>1, <3>1, <3>2, <3>4 DEF Accounted, OrdersAccounted
    <3>6. orders[id].status \in OrderStatus /\ orders[id].status # "REJECTED"
      BY <1>1 DEF EngineTypeOK, OrderManagerTypeOK, Order
    <3> QED
      BY <1>1, <3>3, <3>4, <3>5, <3>6 DEF OrderStatus
  <2>2. CASE ~FillOrder
    <3>1. CASE \E c \in Clients : Place(c)
      BY <1>1, <3>1, PlacedOrder
    <3>2. CASE \E i \in DOMAIN orders, order \in Order :
                 ChangeOrder(i, order) /\ orders[i].status = "PENDING"
      BY <1>1, <3>2, ChangeOrderElsewhere
    <3> QED
      BY <1>1, <2>2, <3>1, <3>2, OrdersChange
  <2> QED
    BY <2>1, <2>2
<1>2. ExecutionInv /\ [Next]_vars =>
        [\A id \in DOMAIN orders :
           orders[id].status # "PENDING" /\ orders'[id] # orders[id] =>
             orders[id].status = "CANCELLED" /\ thread = "fill"
             /\ request.orderId = id]_vars
  BY <1>1 DEF ExecutionInv, RequestsInv, EngineInv
<1> QED
  BY <1>2, ExecutionInvInductive, PTL DEF Spec, SettledIsFinal

-----------------------------------------------------------------------------
(* Without a desk that modifies orders, a request and its order agree on   *)
(* the quantity, and therefore the execution fills the order.              *)
requests == Built \cup executionQueue \cup executing \cup executed

QuantitiesAgree ==
  "modify" \notin Desk =>
    /\ \A r \in requests : orders[r.orderId].quantity = r.quantity
    /\ \A r \in filledBy : r.quantity > 0 => orders[r.orderId].status = "FILLED"

(* Requests come from clients that place orders and from nowhere else. *)
LEMMA RequestsKept ==
  ASSUME EngineTypeOK, Lifecycle, [Next]_vars, ~ \E c \in Clients : Place(c)
  PROVE  requests' \subseteq requests
<1>1. CASE \E c \in Clients : ClientStep(c)
  <2>1. PICK c \in Clients : Submit(c) \/ SubmitNotify(c)
    BY <1>1 DEF ClientStep
  <2>2. client \in [Clients -> [next : {"place", "push", "notify"},
                                request : ExecutionRequest]]
    BY DEF EngineTypeOK
  <2>3. client'[c].next # "push" /\ \A d \in Clients \ {c} : client'[d] = client[d]
    <3>1. CASE Submit(c)
      BY <2>2, <3>1 DEF Submit
    <3>2. CASE SubmitNotify(c)
      BY <2>2, <3>2 DEF SubmitNotify
    <3> QED
      BY <2>1, <3>1, <3>2
  <2>4. \A r : r \in Built' => r \in Built
    BY <2>3, BuiltRequest, BuiltRequest2
  <2>5. executing' = executing /\ executed' = executed
    BY <2>1 DEF Submit, SubmitNotify, Notified, threadVars, executing, Executing
  <2>6. executionQueue' \subseteq executionQueue \cup Built
    BY <2>1, BuiltRequest DEF Submit, SubmitNotify, queueVars
  <2> QED
    BY <2>4, <2>5, <2>6 DEF requests
<1>2. CASE ControllerStep
  <2>1. UNCHANGED <<executionQueue, executed, client, request>>
    BY <1>2 DEF ControllerStep, Start, Spawn, Stop, StopNotify, Join, queueVars,
       threadVars
  <2>2. executing' = executing
    BY <1>2 DEF ControllerStep, Start, Spawn, Stop, StopNotify, Join, threadVars,
       Notified, Lifecycle, executing, Executing
  <2>3. Built' = Built
    BY <2>1 DEF Built
  <2> QED
    BY <2>1, <2>2, <2>3 DEF requests
<1>3. CASE ThreadStep \/ SpuriousWakeup
  <2>1. client' = client
    BY <1>3 DEF ThreadStep, LoopHead, Lock, Predicate, Block, Check, ReadTick,
       ReadQuote, FillOrder, RecordTrade, RecordLatency, SpuriousWakeup
  <2>2. Built' = Built
    BY <2>1 DEF Built
  <2>3. executed' \subseteq executed \cup executing
    BY <1>3 DEF ThreadStep, LoopHead, Lock, Predicate, Block, Check, ReadTick,
       ReadQuote, FillOrder, RecordTrade, RecordLatency, SpuriousWakeup,
       executing, Executing
  <2>4. executionQueue' \subseteq executionQueue
    BY <1>3 DEF ThreadStep, LoopHead, Lock, Predicate, Block, Check, Pop, ReadTick,
       ReadQuote, FillOrder, RecordTrade, RecordLatency, SpuriousWakeup, queueVars
  <2>5. executing' \subseteq executing \cup executionQueue
    <3>1. CASE Check
      BY <3>1 DEF Check, Pop, executing, Executing
    <3>2. CASE ~Check
      BY <1>3, <3>2 DEF ThreadStep, LoopHead, Lock, Predicate, Block, ReadTick,
         ReadQuote, FillOrder, RecordTrade, RecordLatency, SpuriousWakeup,
         executing, Executing
    <3> QED
      BY <3>1, <3>2
  <2> QED
    BY <2>2, <2>3, <2>4, <2>5 DEF requests
<1>4. CASE DeskStep
  BY <1>4 DEF DeskStep, Cancel, Modify, queueVars, threadVars, requests, Built,
     executing
<1>5. CASE UNCHANGED vars
  BY <1>5 DEF vars, queueVars, threadVars, requests, Built, executing
<1> QED
  BY <1>1, <1>2, <1>3, <1>4, <1>5 DEF Next

LEMMA RequestsHaveOrders ==
  ASSUME Conserved, NEW r \in requests
  PROVE  r.orderId \in DOMAIN orders
BY DEF Conserved, OneEach, requests

LEMMA QuantitiesStep ==
  ASSUME EngineTypeOK, Lifecycle, Conserved, Accounted, QuantitiesAgree,
         [Next]_vars, "modify" \notin Desk
  PROVE  /\ \A r \in requests' : orders'[r.orderId].quantity = r.quantity
         /\ \A r \in filledBy' :
              r.quantity > 0 => orders'[r.orderId].status = "FILLED"
<1>1. /\ \A r \in requests : orders[r.orderId].quantity = r.quantity
      /\ \A r \in filledBy : r.quantity > 0 => orders[r.orderId].status = "FILLED"
      /\ \A r \in requests : r.orderId \in DOMAIN orders
      /\ filledBy \subseteq requests
  <2>1. filledBy \subseteq requests
    BY DEF filledBy, requests, executing, Executing
  <2> QED
    BY <2>1, RequestsHaveOrders DEF QuantitiesAgree
<1>2. CASE FillOrder
  <2> DEFINE q == request.orderId
             order == Filled(orders[q], request.quantity)
  <2>1. /\ filledBy = executed /\ filledBy' = executed \cup {request}
        /\ executing = {request}
    BY <1>2, FillOrderSets
  <2>2. q \in DOMAIN orders /\ \A r \in executed : r.orderId # q
    BY <2>1, OneOrderEach
  <2>3. thread = "fill" /\ ChangeOrder(q, order)
    BY <1>2, <2>2 DEF FillOrder, simulateOrderExecution
  <2>4. orders[q] \in Order
    BY <2>2 DEF EngineTypeOK, OrderManagerTypeOK
  <2>5. orders[q].quantity = request.quantity
    BY <1>1, <2>1 DEF requests
  <2>6. order.status = "FILLED" /\ order.quantity = orders[q].quantity
    BY <2>4, <2>5 DEF Filled, Order
  <2> HIDE DEF order
  <2>7. /\ orders'[q] = order
        /\ \A i \in (DOMAIN orders) \ {q} : orders'[i] = orders[i]
    BY <2>3, ChangeOrderElsewhere
  <2>8. \A i \in DOMAIN orders : orders'[i].quantity = orders[i].quantity
    BY <2>6, <2>7
  <2>9. ~ \E c \in Clients : Place(c)
    BY <1>2 DEF FillOrder, Place, PlaceRequest, threadVars
  <2>10. requests' \subseteq requests
    BY <2>9, RequestsKept
  <2>11. \A r \in requests' : orders'[r.orderId].quantity = r.quantity
    BY <1>1, <2>8, <2>10
  <2>12. \A r \in executed : r.quantity > 0 => orders'[r.orderId].status = "FILLED"
    BY <1>1, <2>1, <2>2, <2>7
  <2> QED
    BY <2>1, <2>6, <2>7, <2>11, <2>12
<1>3. CASE ~FillOrder
  <2>1. \A r \in filledBy' : r.quantity > 0 => r \in filledBy
    <3>1. CASE ReadTick
      BY <3>1, ReadTickSets
    <3>2. CASE RecordTrade
      BY <3>2, RecordTradeSets
    <3>3. CASE ~ReadTick /\ ~RecordTrade
      BY <1>3, <3>3, SetsKept
    <3> QED
      BY <3>1, <3>2, <3>3
  <2>2. CASE \E c \in Clients : Place(c)
    <3>1. PICK c \in Clients : Place(c)
      BY <2>2
    <3>2. /\ orderIdCounter \notin DOMAIN orders
          /\ \A i \in DOMAIN orders : orders'[i] = orders[i]
      BY <3>1, PlacedOrder
    <3>3. PICK r : /\ client' = [client EXCEPT ![c] =
                                   [next |-> "push", request |-> r]]
                   /\ r.orderId = orderIdCounter
                   /\ orders'[orderIdCounter].quantity = r.quantity
      BY <3>1, PlacedOrder
    <3> DEFINE v == [next |-> "push", request |-> r]
    <3>4. client' = [client EXCEPT ![c] = v] /\ v.request = r
      BY <3>3
    <3> HIDE DEF v
    <3>5. client'[c] = v /\ \A d \in Clients \ {c} : client'[d] = client[d]
      BY <3>4, TypeParts, ClientKeeps
    <3>6. \A s : s \in Built' => s \in Built \/ s = r
      BY <3>4, <3>5, BuiltRequest, BuiltRequest2
    <3>7. UNCHANGED <<executionQueue, executed, thread, request>>
      BY <3>1 DEF Place, PlaceRequest, queueVars, threadVars
    <3>8. requests' \subseteq requests \cup {r}
      BY <3>6, <3>7 DEF requests, executing
    <3> QED
      BY <1>1, <2>1, <3>2, <3>3, <3>8
  <2>3. CASE ~ \E c \in Clients : Place(c)
    <3>1. requests' \subseteq requests
      BY <2>3, RequestsKept
    <3>2. CASE orders' = orders
      BY <1>1, <2>1, <3>1, <3>2
    <3>3. CASE \E id \in DOMAIN orders, order \in Order :
                 /\ ChangeOrder(id, order)
                 /\ orders[id].status = "PENDING"
                 /\ "modify" \notin Desk => order.quantity = orders[id].quantity
      <4>1. PICK id \in DOMAIN orders, order \in Order :
                 /\ ChangeOrder(id, order)
                 /\ orders[id].status = "PENDING"
                 /\ order.quantity = orders[id].quantity
        BY <3>3
      <4>2. /\ orders'[id] = order
            /\ \A i \in (DOMAIN orders) \ {id} : orders'[i] = orders[i]
        BY <4>1, ChangeOrderElsewhere
      <4>3. \A r \in filledBy : r.quantity > 0 => r.orderId # id
        BY <1>1, <4>1
      <4> QED
        BY <1>1, <2>1, <3>1, <4>1, <4>2, <4>3
    <3> QED
      BY <1>3, <2>3, <3>2, <3>3, OrdersChange
  <2> QED
    BY <2>2, <2>3
<1> QED
  BY <1>2, <1>3

LEMMA QuantitiesInvariant == Spec => []QuantitiesAgree
<1>1. Init => QuantitiesAgree
  <2> SUFFICES ASSUME Init
               PROVE  QuantitiesAgree
    OBVIOUS
  <2>1. /\ \A c \in Clients : client[c].next = "place"
        /\ executionQueue = {} /\ executed = {} /\ thread = "none"
    BY DEF Init
  <2>2. requests = {} /\ filledBy = {}
    BY <2>1, BuiltRequest DEF requests, filledBy, executing, Executing
  <2> QED
    BY <2>2 DEF QuantitiesAgree
<1>2. ExecutionInv /\ QuantitiesAgree /\ [Next]_vars => QuantitiesAgree'
  BY QuantitiesStep DEF ExecutionInv, RequestsInv, EngineInv, QuantitiesAgree
<1> QED
  BY <1>1, <1>2, ExecutionInvInductive, PTL DEF Spec

(* Without a desk that modifies it, an order is filled once its request    *)
(* has been executed, unless there was nothing to fill.                    *)
THEOREM ExecutionFills == Spec => []ExecutedOrdersFilled
<1>1. QuantitiesAgree => ExecutedOrdersFilled
  BY DEF QuantitiesAgree, ExecutedOrdersFilled, filledBy
<1> QED
  BY <1>1, QuantitiesInvariant, PTL

(* Without a desk that cancels, no order is cancelled. *)
NoneCancelled ==
  "cancel" \notin Desk => \A id \in DOMAIN orders : orders[id].status # "CANCELLED"

LEMMA NoneCancelledStep ==
  ASSUME EngineTypeOK, NoneCancelled, [Next]_vars, "cancel" \notin Desk
  PROVE  \A id \in DOMAIN orders' : orders'[id].status # "CANCELLED"
<1>1. \A id \in DOMAIN orders : orders[id].status # "CANCELLED"
  BY DEF NoneCancelled
<1>2. CASE FillOrder
  <2> DEFINE q == request.orderId
             order == Filled(orders[q], request.quantity)
  <2>1. CASE q \in DOMAIN orders
    <3>1. orders[q] \in Order
      BY <2>1 DEF EngineTypeOK, OrderManagerTypeOK
    <3>2. order.status # "CANCELLED"
      BY <3>1 DEF Filled, Order
    <3>3. ChangeOrder(q, order)
      BY <1>2, <2>1 DEF FillOrder, simulateOrderExecution
    <3> HIDE DEF q, order
    <3>4. /\ DOMAIN orders' = (DOMAIN orders) \cup {q} /\ orders'[q] = order
          /\ \A i \in (DOMAIN orders) \ {q} : orders'[i] = orders[i]
      BY <3>3, ChangeOrderElsewhere
    <3> QED
      BY <1>1, <3>2, <3>4
  <2>2. CASE q \notin DOMAIN orders
    BY <1>1, <1>2, <2>2 DEF FillOrder, simulateOrderExecution
  <2> QED
    BY <2>1, <2>2
<1>3. CASE \E c \in Clients : Place(c)
  BY <1>1, <1>3, PlacedOrder
<1>4. CASE \E id \in DOMAIN orders, order \in Order :
             ChangeOrder(id, order) /\ order.status = "PENDING"
  BY <1>1, <1>4, ChangeOrderElsewhere
<1>5. CASE orders' = orders
  BY <1>1, <1>5
<1> QED
  BY <1>2, <1>3, <1>4, <1>5, OrdersChange

LEMMA NoneCancelledInvariant == Spec => []NoneCancelled
<1>1. Init => NoneCancelled
  BY DEF Init, OrderManagerInit, NoneCancelled
<1>2. EngineInv /\ NoneCancelled /\ [Next]_vars => NoneCancelled'
  BY NoneCancelledStep DEF EngineInv, NoneCancelled
<1> QED
  BY <1>1, <1>2, EngineInvInductive, PTL DEF Spec

-----------------------------------------------------------------------------
(* The counters.  A trade is recorded before the execution is counted, and *)
(* one execution at a time is in between.                                  *)
Counted ==
  /\ IsFiniteSet(executed)
  /\ Cardinality(executed) = stats.totalExecuted
  /\ totalTradesExecuted <= stats.totalExecuted + (IF thread = "record" THEN 1 ELSE 0)

LEMMA CountedStep ==
  ASSUME EngineTypeOK, Lifecycle, Conserved, Counted, [Next]_vars
  PROVE  Counted'
<1>1. /\ stats.totalExecuted \in Nat /\ totalTradesExecuted \in Nat
  BY DEF EngineTypeOK, StatsTypeOK, ExecutionStats, OrderManagerTypeOK
<1>2. CASE RecordLatency
  <2>1. thread = "record" /\ thread' = "head"
        /\ totalTradesExecuted' = totalTradesExecuted
        /\ executed' = executed \cup {request}
    BY <1>2 DEF RecordLatency, omVars, tradeVars
  <2>2. stats'.totalExecuted = stats.totalExecuted + 1
    <3>1. PICK latency \in Latencies : recordLatency(latency)
      BY <1>2 DEF RecordLatency
    <3>2. StatsTypeOK
      BY DEF EngineTypeOK
    <3> QED
      BY <3>1, <3>2, RecordShape
  <2>3. executing = {request}
    BY <2>1 DEF executing, Executing
  <2>4. request \notin executed
    BY <2>3 DEF Conserved, OneEach
  <2>5. IsFiniteSet(executed') /\ Cardinality(executed') = Cardinality(executed) + 1
    BY <2>1, <2>4, FS_AddElement DEF Counted
  <2> QED
    BY <1>1, <2>1, <2>2, <2>5 DEF Counted
<1>3. CASE RecordTrade
  <2>1. thread = "trade" /\ thread' = "record"
        /\ totalTradesExecuted' = totalTradesExecuted + 1
        /\ UNCHANGED <<stats, executed>>
    BY <1>3 DEF RecordTrade, simulateTrade
  <2> QED
    BY <1>1, <2>1 DEF Counted
<1>4. CASE ~RecordLatency /\ ~RecordTrade
  <2>1. UNCHANGED <<stats, executed, totalTradesExecuted>>
    BY <1>4 DEF Next, ClientStep, Place, PlaceRequest, Submit, SubmitNotify,
       ControllerStep, Start, Spawn, Stop, StopNotify, Join, ThreadStep, LoopHead,
       Lock, Predicate, Block, Check, ReadTick, ReadQuote, FillOrder,
       SpuriousWakeup, DeskStep, Cancel, Modify, vars, omVars, tradeVars
  <2>2. thread = "record" => thread' = "record"
    BY <1>4 DEF Next, ClientStep, Place, PlaceRequest, Submit, SubmitNotify,
       ControllerStep, Start, Spawn, Stop, StopNotify, Join, ThreadStep, LoopHead,
       Lock, Predicate, Block, Check, ReadTick, ReadQuote, FillOrder,
       SpuriousWakeup, DeskStep, Cancel, Modify, vars, threadVars, Notified,
       Lifecycle
  <2> QED
    BY <1>1, <2>1, <2>2 DEF Counted
<1> QED
  BY <1>2, <1>3, <1>4

LEMMA CountedInvariant == Spec => []Counted
<1>1. Init => Counted
  BY FS_EmptySet DEF Init, StatsInit, OrderManagerInit, Counted
<1>2. RequestsInv /\ Counted /\ [Next]_vars => Counted'
  BY CountedStep DEF RequestsInv, EngineInv
<1> QED
  BY <1>1, <1>2, RequestsInvInductive, PTL DEF Spec

(* The counters that other threads read one by one never claim more trades *)
(* than orders, and are apart by the execution under way at most.          *)
THEOREM CountersStayInStep == Spec => []CountersInStep
<1>1. ASSUME EngineTypeOK, Conserved, Counted
      PROVE  CountersInStep
  <2> DEFINE X == executing \cup executed
             ids == FirstOrderId .. orderIdCounter - 1
  <2>1. /\ stats.totalExecuted \in Nat /\ totalTradesExecuted \in Nat
        /\ totalOrdersPlaced \in Nat /\ orderIdCounter = FirstOrderId + totalOrdersPlaced
        /\ DOMAIN orders = ids
    BY <1>1 DEF EngineTypeOK, StatsTypeOK, ExecutionStats, OrderManagerTypeOK
  <2>2. /\ IsFiniteSet(executing)
        /\ thread = "record" => Cardinality(executing) = 1
        /\ Cardinality(executing) \in Nat
    <3>1. CASE thread \in Executing
      <4>1. executing = {request}
        BY <3>1 DEF executing
      <4>2. IsFiniteSet({request}) /\ Cardinality({request}) = 1
        BY FS_Singleton
      <4> QED
        BY <4>1, <4>2
    <3>2. CASE thread \notin Executing
      <4>1. executing = {} /\ thread # "record"
        BY <3>2 DEF executing, Executing
      <4>2. IsFiniteSet({}) /\ Cardinality({}) = 0
        BY FS_EmptySet
      <4> QED
        BY <4>1, <4>2
    <3> QED
      BY <3>1, <3>2
  <2>3. totalTradesExecuted <= stats.totalExecuted + Cardinality(executing)
    BY <1>1, <2>1, <2>2 DEF Counted
  <2>4. IsFiniteSet(X)
        /\ Cardinality(X) = Cardinality(executing) + Cardinality(executed)
    <3>1. executing \cap executed = {}
      BY <1>1 DEF Conserved, OneEach
    <3>2. IsFiniteSet(executed) /\ Cardinality(executed) \in Nat
      BY <1>1, <2>1 DEF Counted
    <3>3. /\ IsFiniteSet(executing \cup executed)
          /\ Cardinality(executing \cup executed)
               = Cardinality(executing) + Cardinality(executed)
                 - Cardinality(executing \cap executed)
      BY <2>2, <3>2, FS_Union
    <3>4. Cardinality(executing \cap executed) = 0
      BY <3>1, FS_EmptySet
    <3> QED
      BY <2>2, <3>2, <3>3, <3>4
  <2>5. Cardinality(X) <= totalOrdersPlaced
    <3> DEFINE f == [r \in X |-> r.orderId]
    <3>1. /\ \A r \in X : r.orderId \in ids
          /\ \A r, s \in X : r.orderId = s.orderId => r = s
      BY <1>1, <2>1 DEF Conserved, OneEach
    <3>2. f \in Injection(X, ids)
      BY <3>1 DEF Injection, IsInjective
    <3>3. IsFiniteSet(ids) /\ Cardinality(ids) = totalOrdersPlaced
      <4>1. FirstOrderId \in Int /\ orderIdCounter - 1 \in Int
        BY <2>1 DEF FirstOrderId
      <4>2. IsFiniteSet(ids) /\ Cardinality(ids) =
              IF FirstOrderId > orderIdCounter - 1 THEN 0
              ELSE (orderIdCounter - 1) - FirstOrderId + 1
        BY <4>1, FS_Interval
      <4> QED
        BY <2>1, <4>2 DEF FirstOrderId
    <3> HIDE DEF X, ids, f
    <3> QED
      BY <3>2, <3>3, FS_Injection
  <2>6. totalTradesExecuted <= totalOrdersPlaced
    BY <1>1, <2>1, <2>2, <2>3, <2>4, <2>5 DEF Counted
  <2> QED
    BY <1>1, <2>1, <2>3, <2>6 DEF CountersInStep, Counted, getExecutedOrdersCount
<1>2. ExecutionInv /\ Counted => CountersInStep
  BY <1>1 DEF ExecutionInv, RequestsInv, EngineInv
<1> QED
  BY <1>2, ExecutionInvInductive, CountedInvariant, PTL
=============================================================================
