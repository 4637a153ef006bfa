----------------------------- MODULE MCMetrics -----------------------------
(* Instance of Metrics for TLC: users and registries are model values.     *)
EXTENDS Metrics
=============================================================================
