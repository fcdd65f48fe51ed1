------------------------------ MODULE Backtests ------------------------------
(***************************************************************************)
(* Four computations that decide something on one part of a price history  *)
(* and judge it by another: the momentum backtest (backtester.py), the     *)
(* opening range backtest (intraday_backtester.py), the purged             *)
(* cross-validation of the pairs scan (stat_arb.py) and the walk-forward   *)
(* audit of the predictions (prediction_suite.py).  They are written over  *)
(* whole arrays, with slices and index arithmetic, and so are the          *)
(* operators here: what each decision rests on is a matter of the indices, *)
(* which is what the property is about.  How good the numbers are is not.  *)
(*                                                                         *)
(* A behaviour takes one history and runs one of the four on it.           *)
(***************************************************************************)
EXTENDS Integers, Sequences, FiniteSets, SequencesExt

CONSTANTS Assets,    (* the universe, as indices 1 .. n                      *)
          Days,      (* bound: the days of a price history                   *)
          Levels,    (* bound: the prices                                    *)
          OrbBars,   (* orb_minutes, 30: bars, whatever they last            *)
          MinRest,   (* bars a day needs after them, 5                       *)
          MaxBar,    (* bound: the bars of a day                             *)
          MaxRows,   (* bound: the rows of a cross-validation                *)
          MaxAudit,  (* bound: the rows of an audit                          *)
          Folds,     (* n_splits, 5                                          *)
          PerFold,   (* rows needed per fold, 10                             *)
          Embargo,   (* one over embargo_pct, 20                             *)
          MinTrain,  (* rows needed to fit, 50                               *)
          WarmUp,    (* bars before the first prediction, 25                 *)
          Horizon    (* forecast_horizon, 5                                  *)

ASSUME BacktestAssumption ==
  /\ {Days, OrbBars, MinRest, MaxBar, MaxRows, MaxAudit, PerFold, MinTrain, WarmUp} \subseteq Nat
  /\ {Folds, Embargo, Horizon} \subseteq Nat \ {0}
  /\ Levels \subseteq Nat \ {0}
  /\ Assets \subseteq Nat /\ IsFiniteSet(Assets)

VARIABLES study,    (* what is run: momentum, orb, folds, audit              *)
          input,    (* on what                                               *)
          outcome   (* what it did; empty until it ran                       *)
backtestVars == <<study, input, outcome>>

Least(a, b) == IF a < b THEN a ELSE b
Greatest(a, b) == IF a < b THEN b ELSE a
-----------------------------------------------------------------------------
(* run_cross_sectional_momentum, over a lookback of one day.                 *)

(* Momentum of an asset on a day is a quotient: quotients are compared by    *)
(* their cross products, and argsort keeps equal ones in order.              *)
Weaker(P, d, a, b) ==
  LET left  == P[d][a] * P[d - 1][b]
      right == P[d][b] * P[d - 1][a]
  IN left < right \/ (left = right /\ a < b)

Rank(P, d, a) == Cardinality({b \in Assets : Weaker(P, d, b, a)})
Leg == Greatest(1, Cardinality(Assets) \div 4)

(* weights[d]: the strongest quarter is held, the weakest is sold. *)
Weight(P, d, a) ==
  IF d = 1 THEN 0
  ELSE (IF Rank(P, d, a) >= Cardinality(Assets) - Leg THEN 1 ELSE 0)
       - (IF Rank(P, d, a) < Leg THEN 1 ELSE 0)

(* Fault for JudgedByUnseen: a day's own weights earn its return.            *)
HeldSameDay(P) == [d \in 2 .. Len(P) |-> [a \in Assets |-> Weight(P, d, a)]]

(* The weights of the day before earn a day's return, weights[:-1] beside    *)
(* daily_ret[1:].                                                            *)
Held(P) == [d \in 2 .. Len(P) |-> [a \in Assets |-> Weight(P, d - 1, a)]]

RunMomentum == {Held(input)}
-----------------------------------------------------------------------------
(* run_orb, on the closes of one day: -1 below the opening range, 1 above.   *)

(* The first close out of the range opens a position, the next one closes    *)
(* it, and the day is over; a day that ends before records nothing.          *)
Outside(closes) == {i \in OrbBars + 1 .. Len(closes) : closes[i] # 0}
Entry(closes) == CHOOSE i \in Outside(closes) : \A j \in Outside(closes) : i <= j
Trades(closes) ==
  IF Len(closes) < OrbBars + MinRest \/ Outside(closes) = {} \/ Entry(closes) = Len(closes) THEN {}
  ELSE {[entry |-> Entry(closes), exit |-> Entry(closes) + 1, side |-> closes[Entry(closes)]]}

RunOrb == Trades(input)
-----------------------------------------------------------------------------
(* purged_cross_validation, on n rows; rows are counted from 0.              *)

FoldSize(n) == n \div Folds
FirstOf(n, i) == i * FoldSize(n)
EndOf(n, i) == IF i < Folds - 1 THEN (i + 1) * FoldSize(n) ELSE n
Gap(n) == FoldSize(n) \div Embargo

TestRows(n, i) == FirstOf(n, i) .. EndOf(n, i) - 1

(* What is left of the rows on both sides, before and after the test, once   *)
(* the gap is taken out.                                                     *)
TrainRows(n, i) ==
  (0 .. Greatest(0, FirstOf(n, i) - Gap(n)) - 1) \cup (Least(n, EndOf(n, i) + Gap(n)) .. n - 1)

(* Every fold that has enough to fit on; in it, the signal of a row trades   *)
(* the change to the next.                                                   *)
RunFolds ==
  IF input < Folds * PerFold THEN {}
  ELSE {[fold |-> i, train |-> TrainRows(input, i), test |-> TestRows(input, i)]
          : i \in {i \in 0 .. Folds - 1 : Cardinality(TrainRows(input, i)) >= MinTrain}}
-----------------------------------------------------------------------------
(* audit_predictions, on rows whose close may be missing: prices leaves such *)
(* rows out, the slices of the data frame do not.                            *)

(* The row of the t-th price, t from 0. *)
RowOf(t) ==
  CHOOSE r \in DOMAIN input.close :
    input.close[r] /\ Cardinality({q \in 1 .. r - 1 : input.close[q]}) = t
Closes == Cardinality({r \in DOMAIN input.close : input.close[r]})

(* The prediction at t is fit on the first t + 1 rows, its last price being  *)
(* the latest of them; it is judged against the prices at t and t + Horizon. *)
(* A prediction that fails is left out.                                      *)
RunAudit ==
  IF Len(input.close) < input.bars + WarmUp THEN {}
  ELSE {[seen |-> t + 1, base |-> RowOf(t), actual |-> RowOf(t + Horizon)]
          : t \in (Greatest(WarmUp, Closes - input.bars - Horizon) .. Closes - Horizon - 1)
                  \ input.failed}
-----------------------------------------------------------------------------
BacktestInit ==
  /\ outcome = {}
  /\ \/ study = "momentum" /\ input \in [1 .. Days -> [Assets -> Levels]]
     \/ study = "orb" /\ input \in UNION {[1 .. n -> {-1, 0, 1}] : n \in 1 .. MaxBar}
     \/ study = "folds" /\ input \in 1 .. MaxRows
     \/ study = "audit" /\ input \in
          UNION {[close : [1 .. n -> BOOLEAN], bars : 1 .. 2, failed : SUBSET {WarmUp}]
                   : n \in 1 .. MaxAudit}

BacktestNext ==
  /\ outcome = {}
  /\ \/ study = "momentum" /\ outcome' = RunMomentum
     \/ study = "orb"      /\ outcome' = RunOrb
     \/ study = "folds"    /\ outcome' = RunFolds
     \/ study = "audit"    /\ outcome' = RunAudit
  /\ UNCHANGED <<study, input>>

BacktestSpec == BacktestInit /\ [][BacktestNext]_backtestVars
-----------------------------------------------------------------------------
(* Properties. *)

(* The position of a day is the same for every price that day could have,    *)
(* and is worth nothing in total.                                            *)
PositionsPrecedePrices ==
  \A held \in outcome : \A d \in DOMAIN held :
    /\ \A other \in [Assets -> Levels] : Held([input EXCEPT ![d] = other])[d] = held[d]
    /\ Cardinality({a \in Assets : held[d][a] = 1}) = Cardinality({a \in Assets : held[d][a] = -1})

(* A trade is the same for every day that goes on differently after its      *)
(* entry, of any length that has the exit.  (A day shorter than the opening  *)
(* range and its rest is left out as a whole, and a position still open at   *)
(* the last bar is never recorded: both depend on how the day goes on.)      *)
TradesPrecedeCloses ==
  \A trade \in outcome : \A n \in Greatest(OrbBars + MinRest, trade.exit) .. MaxBar :
    \A day \in [1 .. n -> {-1, 0, 1}] :
      (\A i \in 1 .. trade.entry : day[i] = input[i]) => trade \in Trades(day)

(* No row is both fitted on and tested, or fitted on within the gap of one   *)
(* that is tested.                                                           *)
FoldsArePurged ==
  \A f \in outcome : \A r \in f.train, q \in f.test :
    r < q - Gap(input) \/ r > q + Gap(input)

(* A prediction sees nothing after the bar it is judged from, however many   *)
(* closes are missing, and is judged by a later one.                         *)
AuditLooksBack ==
  \A e \in outcome : e.seen <= e.base /\ e.base < e.actual

(* In each of the four, what a decision is judged by had no part in it: a    *)
(* position comes before the prices that earn it, a trade before the close   *)
(* that ends it, a fold is fitted on no row that it is tested on, and what a *)
(* prediction has seen before the close it is compared with.  (This is less  *)
(* than freedom from look-ahead: a fold is fitted on rows after its test as  *)
(* well, see FoldsTrainOnThePast.)                                           *)
JudgedByUnseen ==
  outcome # {} =>
    CASE study = "momentum" -> PositionsPrecedePrices
      [] study = "orb"      -> TradesPrecedeCloses
      [] study = "folds"    -> FoldsArePurged
      [] study = "audit"    -> AuditLooksBack

(* What purged_cross_validation says of itself, that its fit avoids look-    *)
(* ahead.  TLC refutes it: of all folds but the last the rows after the test *)
(* are among those that are fitted on (stat_arb.py, train_idx).              *)
FoldsTrainOnThePast ==
  study = "folds" => \A f \in outcome : \A r \in f.train, q \in f.test : r < q
=============================================================================
