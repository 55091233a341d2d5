------------------------------- MODULE MCLatency -------------------------------
(***************************************************************************)
(* Instances of LatencySystem: two or four buckets, values inside and      *)
(* outside them.                                                           *)
(***************************************************************************)
EXTENDS LatencySystem

MCInside == {0, 1, 3}
\* Two buckets of one row of the graph, one of the next, one that is too late for
\* it, and a value outside the histogram.
MCSpread == {0, 1, 2, 3, 5}
MCEdge == {1, 2}
===============================================================================
