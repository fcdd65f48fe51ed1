---------------------------- MODULE TradeSignals -----------------------------
(***************************************************************************)
(* From indicators to advice.  The prediction suite classifies the regime  *)
(* and draws up a trade (prediction_suite.py); the day trading engine and  *)
(* the tactical scanner raise signals from the last bars and pass them     *)
(* through the gate of the macro regime (intraday_engine.py,               *)
(* intraday_signals.py).                                                   *)
(*                                                                         *)
(* Indicators are readings.  Prices are in parts of a cent, rounded to     *)
(* cents where the code rounds; probabilities are in per cent, gaps in     *)
(* tenths of one; the bars' volume ratio is in thousandths and their RSI   *)
(* in hundredths.                                                          *)
(***************************************************************************)
EXTENDS Integers, FiniteSets

CONSTANTS Cent,          (* the parts of a cent                              *)
          SuiteReadings, (* bound: what the prediction suite computes        *)
          BarReadings    (* bound: what is computed from the last bars       *)

(* The ATR is given by its tenth.  The value area is around the point of     *)
(* control, whether their prices are whole cents or, all of them, the only   *)
(* price there was.                                                          *)
ASSUME SignalAssumption ==
  /\ Cent \in Nat \ {0}
  /\ SuiteReadings \subseteq
       [squeeze : BOOLEAN, stack : {"up", "down", "mixed"}, rsi : 0 .. 100, macd : Int,
        reverting : BOOLEAN, up : 0 .. 100, down : 0 .. 100, price : Nat \ {0}, atr : Nat,
        val : Nat, poc : Nat, vah : Nat]
  /\ \A r \in SuiteReadings : r.val <= r.poc /\ r.poc <= r.vah
  /\ BarReadings \subseteq
       [close : Nat, prev : Nat, vwap : Nat, band : Nat, rvol : Nat, rsi : 0 .. 10000, gap : Int,
        delta : Int, regime : {"RISK-ON", "RISK-OFF", "STAGFLATION"}]

VARIABLES desk,      (* who advises: suite, engine or scanner                *)
          reading,   (* the indicators                                       *)
          advice     (* what comes of them; empty until then                 *)
signalVars == <<desk, reading, advice>>

(* Rounding to a cent; which way half a cent goes is up to its binary form:  *)
(* ups are the prices that go up.                                            *)
Cents(x, ups) ==
  LET rest == 2 * (x % Cent)
      up   == rest > Cent \/ (rest = Cent /\ x \in ups)
  IN Cent * (x \div Cent) + (IF up THEN Cent ELSE 0)
Distance(a, b) == IF a < b THEN b - a ELSE a - b
-----------------------------------------------------------------------------
(* analyze_and_predict. *)

Regime(r) ==
  IF r.squeeze THEN "squeeze"
  ELSE IF r.stack = "up" /\ r.rsi > 52 /\ r.macd > 0 THEN "bull"
  ELSE IF r.stack = "down" /\ r.rsi < 48 /\ r.macd < 0 THEN "bear"
  ELSE IF r.reverting \/ Distance(r.rsi, 50) > 20 THEN "reverting"
  ELSE "consolidation"

Bias(r) ==
  CASE Regime(r) = "bull" -> "bullish"
    [] Regime(r) = "bear" -> "bearish"
    [] Regime(r) = "reverting" /\ r.rsi < 35 -> "oversold"
    [] Regime(r) = "reverting" /\ r.rsi > 65 -> "overbought"
    [] OTHER -> "neutral"

Long(r)  == Bias(r) \in {"bullish", "oversold"} \/ r.up > r.down + 10
Short(r) == Bias(r) \in {"bearish", "overbought"} \/ r.down > r.up + 10

Conviction(r) ==
  LET c == 50 + (Distance(r.up, r.down) * 7) \div 10 + (IF r.squeeze THEN 10 ELSE 20)
  IN IF c < 95 THEN c ELSE 95

(* A price some tenths of the ATR away from the last. *)
Away(r, tenths) == r.price + tenths * r.atr

(* The advice when nothing speaks for either side: the value area. *)
Wait(r, ups) ==
  [action |-> "wait", near |-> Cents(r.val, ups), far |-> Cents(r.vah, ups),
   stop |-> Cents(r.val - 10 * r.atr, ups), target1 |-> Cents(r.poc, ups),
   target2 |-> Cents(r.vah, ups), conviction |-> 45]

(* Fault for PlansAreSound: the short side keeps the long side's stop.       *)
PlanLongStop(r, ups) ==
  LET p(tenths) == Cents(Away(r, tenths), ups)
      trade(side, s) ==
        [action |-> side, near |-> p(3 * s), far |-> p(-s), stop |-> p(-15),
         target1 |-> p(-15 * s), target2 |-> p(-30 * s), conviction |-> Conviction(r)]
  IN IF Long(r) THEN trade("long", -1) ELSE IF Short(r) THEN trade("short", 1) ELSE Wait(r, ups)

(* The trade: an entry zone around the price, reaching three tenths of an    *)
(* ATR against the trade and one with it, a stop at one and a half and       *)
(* targets at one and a half and three; or to wait.                          *)
Plan(r, ups) ==
  LET p(tenths) == Cents(Away(r, tenths), ups)
      trade(side, s) ==
        [action |-> side, near |-> p(3 * s), far |-> p(-s), stop |-> p(15 * s),
         target1 |-> p(-15 * s), target2 |-> p(-30 * s), conviction |-> Conviction(r)]
  IN IF Long(r) THEN trade("long", -1) ELSE IF Short(r) THEN trade("short", 1) ELSE Wait(r, ups)

(* The prices of a plan that lie halfway between two cents. *)
Halves(r) ==
  {x \in {Away(r, k) : k \in {-30, -15, -3, -1, 1, 3, 15, 30}}
        \cup {r.val, r.poc, r.vah, r.val - 10 * r.atr} :
     2 * (x % Cent) = Cent}
-----------------------------------------------------------------------------
(* The last bars, as the day trading engine and the tactical scanner see     *)
(* them.  The range is the opening range of the one and the highs and lows   *)
(* of twenty bars of the other, the delta that of twenty bars.               *)
RangeLow == 2
RangeHigh == 4
CrossesUp(r, level)   == r.close > level /\ r.prev <= level
CrossesDown(r, level) == r.close < level /\ r.prev >= level

(* analyze: each signal with the condition that raises it. *)
Signals(r) ==
  LET raised ==
    [ orb_up         |-> CrossesUp(r, RangeHigh) /\ r.rvol >= 1500,
      orb_up_weak    |-> CrossesUp(r, RangeHigh) /\ r.rvol < 1500,
      orb_down       |-> CrossesDown(r, RangeLow) /\ r.rvol >= 1500,
      orb_down_weak  |-> CrossesDown(r, RangeLow) /\ r.rvol < 1500,
      oversold       |-> r.rsi < 3000,
      overbought     |-> r.rsi > 7000,
      vwap_up        |-> CrossesUp(r, r.vwap),
      vwap_down      |-> CrossesDown(r, r.vwap),
      gap_up         |-> r.gap >= 10 /\ r.rvol >= 1500 /\ r.close > r.vwap,
      gap_down       |-> r.gap <= -10 /\ r.rvol >= 1500 /\ r.close < r.vwap,
      stretch_up     |-> r.close > r.vwap + r.band,
      stretch_down   |-> r.close < r.vwap - r.band,
      delta_long     |-> r.delta > 3 /\ r.close > r.vwap,
      delta_short    |-> r.delta < -3 /\ r.close < r.vwap ]
  IN {s \in DOMAIN raised : raised[s]}

LongSignals == {"orb_up", "orb_up_weak", "gap_up", "delta_long", "vwap_up", "oversold"}
Breakouts   == {"orb_up", "orb_up_weak", "orb_down", "orb_down_weak", "gap_up", "gap_down"}

(* Fault for GatesAgree: one of the two confirmations is enough.             *)
GateEither(regime, S, r) ==
  CASE regime = "RISK-OFF"    -> {s \in S : s \in LongSignals => r.rvol >= 2000 \/ r.rsi >= 6000}
    [] regime = "STAGFLATION" -> S \ Breakouts
    [] OTHER                  -> S

(* apply_macro_filter. *)
Gate(regime, S, r) ==
  CASE regime = "RISK-OFF"    -> {s \in S : s \in LongSignals => r.rvol >= 2000 /\ r.rsi >= 6000}
    [] regime = "STAGFLATION" -> S \ Breakouts
    [] OTHER                  -> S

(* scan_universe, for one symbol: the first setup that fits, if any. *)
Alert(r) ==
  LET driven == Distance(r.gap, 0) >= 10 /\ r.rvol >= 1500 IN
  CASE driven /\ r.gap > 0 /\ r.close > RangeHigh /\ r.rsi > 5000 -> {"gap_up"}
    [] driven /\ r.gap < 0 /\ r.close < RangeLow /\ r.rsi < 5000 -> {"gap_down"}
    [] OTHER ->
       CASE r.close > RangeHigh /\ r.rvol >= 1500 /\ r.rsi > 5500 /\ r.delta > 1 -> {"breakout"}
         [] r.close < RangeLow /\ r.rvol >= 1500 /\ r.rsi < 4500 /\ r.delta < -1 -> {"breakdown"}
         [] OTHER ->
            CASE r.rsi > 7500 /\ r.close < r.prev -> {"fade_high"}
              [] r.rsi < 2500 /\ r.close > r.prev -> {"fade_low"}
              [] OTHER -> {}

(* The reading as an alert shows it: the volume ratio to two decimals, the   *)
(* RSI to one.                                                               *)
Shown(r) ==
  [r EXCEPT !.rvol = 10 * ((@ + 5) \div 10), !.rsi = 10 * ((@ + 5) \div 10)]

(* Its own gate, on what the alert shows; BREAKDOWN is not a BREAKOUT to it. *)
AlertGate(regime, A, r) ==
  LET confirmed == Shown(r).rvol >= 2000 /\ Shown(r).rsi >= 6000 IN
  CASE regime = "RISK-OFF"    -> {a \in A : a \in {"gap_up", "breakout", "fade_low"} => confirmed}
    [] regime = "STAGFLATION" -> A \ {"gap_up", "gap_down", "breakout"}
    [] OTHER                  -> A
-----------------------------------------------------------------------------
SignalInit ==
  /\ advice = {}
  /\ \/ desk = "suite" /\ reading \in SuiteReadings
     \/ desk \in {"engine", "scanner"} /\ reading \in BarReadings

SignalNext ==
  /\ advice = {}
  /\ \/ desk = "suite" /\ \E ups \in SUBSET Halves(reading) : advice' = {Plan(reading, ups)}
     \/ desk = "engine" /\ advice' = Gate(reading.regime, Signals(reading), reading)
     \/ desk = "scanner" /\ advice' = AlertGate(reading.regime, Alert(reading), reading)
  /\ UNCHANGED <<desk, reading>>

SignalSpec == SignalInit /\ [][SignalNext]_signalVars
-----------------------------------------------------------------------------
(* Properties. *)

(* The numbers of a trade are in order, stop, entry, targets, whatever the   *)
(* price is rounded to, with the stop out of the entry zone and the target   *)
(* beyond it once the ATR is a cent; and only a trade has more conviction    *)
(* than the advice to wait.                                                  *)
PlansAreSound ==
  desk = "suite" =>
    \A plan \in advice :
      LET ordered(s) == LET n(x) == s * x IN
            /\ n(plan.stop) <= n(plan.near) /\ n(plan.near) <= n(plan.far)
            /\ n(plan.far) <= n(plan.target1) /\ n(plan.target1) <= n(plan.target2)
            /\ 10 * reading.atr >= Cent => /\ n(plan.stop) < n(plan.near)
                                    /\ n(plan.far) < n(plan.target1)
      IN /\ plan.action = "long" => ordered(1)
         /\ plan.action = "short" => ordered(-1)
         /\ plan.action = "wait" => /\ plan.stop <= plan.near /\ plan.near <= plan.target1
                                    /\ plan.target1 <= plan.target2 /\ plan.target2 = plan.far
         /\ plan.conviction <= 95
         /\ plan.conviction > 45 <=> plan.action # "wait"

(* Both gates let the same setups pass ("same logic as IntradayEngine",      *)
(* intraday_signals.py), given the same numbers (the scanner compares the    *)
(* rounded ones, the engine what they were rounded from) and but for one     *)
(* setup: a breakdown in a stagflation.                                      *)
GatesAgree ==
  desk = "scanner" =>
    LET same == [gap_up |-> "gap_up", gap_down |-> "gap_down", breakout |-> "orb_up",
                 breakdown |-> "orb_down", fade_high |-> "overbought", fade_low |-> "oversold"]
    IN \A a \in Alert(reading) :
         ~(a = "breakdown" /\ reading.regime = "STAGFLATION") =>
           (AlertGate(reading.regime, {a}, reading) = {} <=>
              Gate(reading.regime, {same[a]}, Shown(reading)) = {})
=============================================================================
