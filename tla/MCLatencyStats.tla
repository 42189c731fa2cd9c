--------------------------- MODULE MCLatencyStats ---------------------------
(* LatencyStats on a narrow word and doubles with three binary digits:     *)
(* sums of two latencies wrap, 9 is between two doubles, 63 becomes 56 or  *)
(* Word.  At most MaxExecuted latencies.                                   *)
EXTENDS LatencyStats

CONSTANT MaxExecuted

MCDoubles == {digits * scale : digits \in 0 .. Precision, scale \in {1, 2, 4, 8}}

BoundedNext == stats.totalExecuted < MaxExecuted /\ StatsNext
BoundedSpec == StatsInit /\ [][BoundedNext]_stats
=============================================================================
