------------------------- MODULE MCMetricsCollector -------------------------
(* MetricsCollector for TLC: two values are enough for a gauge to be seen  *)
(* to change.  No symmetry: the run checks a liveness property.            *)
EXTENDS MetricsCollector

MCValues == 0..1

=============================================================================
