--------------------------- MODULE MCHiveMindBridge ---------------------------
(* Model checking of HiveMindBridge: three scans and one asset, so that a    *)
(* slow engine can meet three sequence numbers; a crash of the daemon and a  *)
(* restart of the engine.                                                    *)
EXTENDS HiveMindBridge

CONSTANT asset
=============================================================================
