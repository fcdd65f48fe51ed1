------------------------------ MODULE MCResearch ------------------------------
(* Model checking of Research.  The endpoints of the generator find too few  *)
(* rows at first; the day of the tick store has bars of every number of      *)
(* ticks; histories are as long as two folds' gaps, or as three slices of    *)
(* uneven width, need.                                                       *)
EXTENDS Research

CONSTANTS t1, t2

JobsAsked ==
  { [kind |-> "advanced", rows |-> <<1, 2>>],
    [kind |-> "review", rows |-> <<4, 5>>],
    [kind |-> "screen", rows |-> <<2, 3>>],
    [kind |-> "stress", scenario |-> "pandemic"],
    [kind |-> "gauntlet", returns |-> "short"],
    [kind |-> "synthetic"] }

(* Indicators on either side of, and at, the limits they are compared with.  *)
(* The ATR is nothing, a cent or two; prices are halfway between cents, or   *)
(* below one.                                                                *)
SuiteReadingsSeen ==
  UNION { [squeeze : BOOLEAN, stack : {"up", "down", "mixed"}, rsi : {20, 34, 50, 53, 80},
           macd : {-1, 1}, reverting : BOOLEAN, up : {0, 20, 45}, down : {0, 20, 45},
           price : {4, 95, 97}, atr : {0, 1, 2}, val : {v[1]}, poc : {v[2]}, vah : {v[3]}]
            : v \in {<<90, 100, 110>>, <<95, 95, 95>>} }

BarReadingsSeen ==
  [close : {1, 3, 5}, prev : {1, 3, 5}, vwap : {2, 4}, band : {0, 2},
   rvol : {1000, 1500, 1996, 2000},
   rsi : {2000, 4400, 5600, 5996, 6000, 8000}, gap : {-10, 0, 10}, delta : {-4, 0, 4},
   regime : {"RISK-ON", "RISK-OFF", "STAGFLATION"}]

Symmetry == Permutations(Threads)
=============================================================================
