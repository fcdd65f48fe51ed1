----------------------------- MODULE MCEventQueue -----------------------------
(* Model checking of EventQueue: a ring of four slots, one websocket thread  *)
(* and one generator, enough events that the ring fills, drops and wraps.    *)
EXTENDS EventQueue

CONSTANTS ingestor, generator
=============================================================================
