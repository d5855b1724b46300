-------------------------- MODULE MCLatencyPoller ---------------------------
(* LatencyPoller with one or two providers and calls of 1 and 4 units.     *)
EXTENDS LatencyPoller

CONSTANTS p1, p2, s1, s2
OneProvider == {p1}
TwoProviders == {p1, p2}
OneStopper == {s1}
TwoStoppers == {s1, s2}
MCDurations == {1, 4}
=============================================================================
