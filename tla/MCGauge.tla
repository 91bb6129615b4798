------------------------------- MODULE MCGauge -------------------------------
(* A gauge with a few recorders.                                           *)
EXTENDS GaugeSpec, TLC

CONSTANTS r1, r2

Alike == Permutations({r1, r2})
=============================================================================
