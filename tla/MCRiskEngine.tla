----------------------------- MODULE MCRiskEngine -----------------------------
(* Model checking of RiskEngine: days of two ticks, the second of each       *)
(* after the deadline, and an equity that can fall past both loss limits.    *)
EXTENDS RiskEngine
=============================================================================
