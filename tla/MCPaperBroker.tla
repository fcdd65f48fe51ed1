---------------------------- MODULE MCPaperBroker ----------------------------
(* Model checking of PaperBroker: two requests at once, cash for one or two  *)
(* orders, a reset, and a fault at any point.                                *)
EXTENDS PaperBroker, TLC

CONSTANTS c1, c2, stock
ClientSymmetry == Permutations({c1, c2})
=============================================================================
