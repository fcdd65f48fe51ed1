------------------------------- MODULE Research -------------------------------
(***************************************************************************)
(* The research half of the web backend: the generator its simulations     *)
(* share, the advice it gives, the backtests behind it, the store of ticks *)
(* and the bars cut from them, the volume profiles, and the slicing of an  *)
(* order.  They share no state: a behaviour follows one of them, from any  *)
(* of its initial states, while the others stand still in one of theirs.   *)
(***************************************************************************)
EXTENDS Forecasts, TradeSignals, Backtests, TickStore, VolumeProfile, OrderSlicing

VARIABLE part  (* the part this behaviour follows *)
vars == <<part, forecastVars, signalVars, backtestVars, tickVars, profileVars, slicingVars>>

Init ==
  /\ part \in {"forecasts", "signals", "backtests", "ticks", "profile", "slicing"}
  /\ IF part = "forecasts" THEN TRUE ELSE salt = CHOOSE s \in Salts : TRUE
  /\ IF part = "signals" THEN TRUE
     ELSE desk = "scanner" /\ reading = CHOOSE r \in BarReadings : TRUE
  /\ IF part = "backtests" THEN TRUE ELSE study = "folds" /\ input = 1
  /\ IF part = "profile" THEN TRUE ELSE vols = [b \in 1 .. Bins |-> 0]
  /\ IF part = "slicing" THEN TRUE
     ELSE algo = "MARKET" /\ shares = 1 /\ traded = [i \in {0} |-> 1]
  /\ ForecastInit /\ SignalInit /\ BacktestInit /\ TickInit /\ ProfileInit /\ SlicingInit

Next ==
  /\ UNCHANGED part
  /\ \/ /\ part = "forecasts" /\ ForecastNext
        /\ UNCHANGED <<signalVars, backtestVars, tickVars, profileVars, slicingVars>>
     \/ /\ part = "signals" /\ SignalNext
        /\ UNCHANGED <<forecastVars, backtestVars, tickVars, profileVars, slicingVars>>
     \/ /\ part = "backtests" /\ BacktestNext
        /\ UNCHANGED <<forecastVars, signalVars, tickVars, profileVars, slicingVars>>
     \/ /\ part = "ticks" /\ TickNext
        /\ UNCHANGED <<forecastVars, signalVars, backtestVars, profileVars, slicingVars>>
     \/ /\ part = "profile" /\ ProfileNext
        /\ UNCHANGED <<forecastVars, signalVars, backtestVars, tickVars, slicingVars>>
     \/ /\ part = "slicing" /\ SlicingNext
        /\ UNCHANGED <<forecastVars, signalVars, backtestVars, tickVars, profileVars>>

Spec == Init /\ [][Next]_vars
=============================================================================
