----------------------------- MODULE MCKillSwitch -----------------------------
(* Model checking of KillSwitch: the order router and the engine loop, two   *)
(* requests to halt and two resets that can meet in any order, one restart.  *)
EXTENDS KillSwitch

CONSTANTS router, engine
=============================================================================
