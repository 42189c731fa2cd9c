---------------------------- MODULE LatencyStats ----------------------------
(***************************************************************************)
(* The latency statistics of the execution engine: struct ExecutionStats,  *)
(* which only recordLatency() changes, under statsMutex.  The execution    *)
(* thread calls it once per executeOrder(); the getters run on any thread  *)
(* under the same mutex, so each call is one step.                         *)
(*                                                                         *)
(* totalLatency is a uint64_t and wraps.  A latency is the difference of   *)
(* two high_resolution_clock readings converted to uint64_t: that clock is *)
(* allowed to be the system clock, and when it is set back between the two *)
(* readings the difference is negative and converts to almost 2^64.        *)
(*                                                                         *)
(* The two extremes are doubles.  A double holds every integer up to 2^53  *)
(* and fewer and fewer of the larger ones; converting another one gives,   *)
(* as the compiler chooses, the next double below or above it, so that the *)
(* largest uint64_t values may become 2^64, which no uint64_t is.          *)
(***************************************************************************)
EXTENDS Integers

CONSTANTS
  Word,       (* 2^64: the number of values of a uint64_t                  *)
  Latencies,  (* the latencies recordLatency may be given, in microseconds *)
  Precision,  (* 2^53: a double holds every integer up to it               *)
  Doubles,    (* the integers from 0 to 2^64 that a double holds           *)
  DoubleMax   (* std::numeric_limits<double>::max()                        *)

ASSUME LatencyAssumption ==
  /\ Word \in Nat \ {0} /\ Precision \in Nat \ {0}
  /\ Latencies \subseteq 0 .. Word - 1
  /\ 0 .. Precision \subseteq Doubles /\ Doubles \subseteq 0 .. Word
  /\ Word \in Doubles
  /\ DoubleMax \in Nat
  /\ DoubleMax > Word      \* every converted uint64_t is below the sentinel

VARIABLE stats

ExecutionStats ==
  [totalExecuted : Nat, totalLatency : 0 .. Word - 1,
   maxLatency : Doubles, minLatency : Doubles \cup {DoubleMax}]

StatsInit ==
  stats = [totalExecuted |-> 0, totalLatency |-> 0,
           maxLatency |-> 0, minLatency |-> DoubleMax]

-----------------------------------------------------------------------------
(* static_cast<double> of an integer: the double nothing lies between it   *)
(* and the integer, which is the integer itself if a double can hold it,   *)
(* and otherwise either of two.                                            *)
AsDouble(n) ==
  {d \in Doubles : \A e \in Doubles :
     (d <= e /\ e <= n) \/ (n <= e /\ e <= d) => e = d}

(* The two running extremes. *)
Larger(a, b)  == IF b > a THEN b ELSE a
Smaller(a, b) == IF b < a THEN b ELSE a

\* Mutated form: the two comparisons are chained with "else", so the first
\* latency sets the maximum and leaves the minimum at its sentinel.
recordLatencyElse(latency) ==
  \E latencyDouble \in AsDouble(latency) :
    stats' = [stats EXCEPT !.totalExecuted = @ + 1,
                           !.totalLatency = (@ + latency) % Word,
                           !.maxLatency = Larger(@, latencyDouble),
                           !.minLatency = IF latencyDouble > stats.maxLatency
                                          THEN @ ELSE Smaller(@, latencyDouble)]

\* Mutated form: the extremes are compared as integers are, unconverted.
recordLatencyUnconverted(latency) ==
  stats' = [stats EXCEPT !.totalExecuted = @ + 1,
                         !.totalLatency = (@ + latency) % Word,
                         !.maxLatency = Larger(@, latency),
                         !.minLatency = Smaller(@, latency)]

recordLatency(latency) ==
  \E latencyDouble \in AsDouble(latency) :
    stats' = [stats EXCEPT !.totalExecuted = @ + 1,
                           !.totalLatency = (@ + latency) % Word,
                           !.maxLatency = Larger(@, latencyDouble),
                           !.minLatency = Smaller(@, latencyDouble)]

(* The getters.  The average is the converted sum by the number, rounded   *)
(* to a double.  It is compared with doubles only, and one that is not     *)
(* above the quotient is not above the rounded quotient either, so the     *)
(* comparison is made with the quotient.                                   *)
getMaxLatency == stats.maxLatency
getMinLatency == IF stats.minLatency = DoubleMax THEN 0 ELSE stats.minLatency
getExecutedOrdersCount == stats.totalExecuted
getAverageLatencyIsBetween(lo, hi) ==
  stats.totalExecuted # 0 =>
    \A total \in AsDouble(stats.totalLatency) :
      /\ lo * stats.totalExecuted <= total
      /\ total <= hi * stats.totalExecuted

-----------------------------------------------------------------------------
(* The statistics on their own: any latency at any time.                   *)
StatsNext == \E latency \in Latencies : recordLatency(latency)
StatsSpec == StatsInit /\ [][StatsNext]_stats

-----------------------------------------------------------------------------
(* Type correctness of ExecutionStats (execution_engine.h:57-62). *)
StatsTypeOK == stats \in ExecutionStats

(* The latencies that are reported agree: once something was executed the  *)
(* minimum is not the sentinel, it is not above the maximum, whatever      *)
(* their conversion made of them, and the average lies between the two.    *)
(* The sum wraps at 2^64 and is converted, so the last can be promised     *)
(* only as long as (number of executions) * (maximum) is below 2^53: three *)
(* latencies of 2^53 + 1 have an average above their maximum, and one that *)
(* was negative ends the promise altogether.                               *)
SumIsExact == stats.totalExecuted * stats.maxLatency < Precision
ReportedLatenciesAgree ==
  /\ getExecutedOrdersCount > 0 => stats.minLatency # DoubleMax
  /\ getMinLatency <= getMaxLatency
  /\ SumIsExact => getAverageLatencyIsBetween(getMinLatency, getMaxLatency)
=============================================================================
