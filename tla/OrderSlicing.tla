---------------------------- MODULE OrderSlicing -----------------------------
(***************************************************************************)
(* How the execution simulator (algos.py) sizes an order into slices: in    *)
(* equal parts (TWAP), by the volume of the parts of the day (VWAP), or    *)
(* not at all.  Prices only enter the report and are left out.             *)
(***************************************************************************)
EXTENDS Integers, FiniteSets, Functions

CONSTANTS Slices,     (* the number of slices, 10                            *)
          MaxShares,  (* bound: the size of the order                        *)
          MaxBars,    (* bound: the bars of the volume history               *)
          MaxTraded   (* bound: the volume of a bar                          *)

ASSUME SlicingAssumption ==
  Slices \in Nat \ {0} /\ {MaxShares, MaxBars, MaxTraded} \subseteq Nat

VARIABLES algo,      (* TWAP, VWAP or MARKET                                 *)
          shares,    (* total_shares                                         *)
          traded,    (* the volumes                                          *)
          slice,     (* i                                                    *)
          remaining, (* remainder_shares, of VWAP                            *)
          sizes       (* the shares of each slice so far                      *)
slicingVars == <<algo, shares, traded, slice, remaining, sizes>>

Volumes == UNION {[0 .. n - 1 -> 0 .. MaxTraded] : n \in 1 .. MaxBars}

(* A history without any volume fails at the benchmark's division. *)
SlicingInit ==
  /\ algo \in {"TWAP", "VWAP", "MARKET"}
  /\ shares \in 1 .. MaxShares
  /\ traded \in {v \in Volumes : SumFunction(v) > 0}
  /\ slice = 0 /\ remaining = shares /\ sizes = [i \in {} |-> 0]

Cut(n) == sizes' = [i \in 0 .. slice |-> IF i = slice THEN n ELSE sizes[i]]
-----------------------------------------------------------------------------
(* The whole order at once. *)
SliceMarket ==
  /\ algo = "MARKET" /\ slice = 0
  /\ Cut(shares) /\ slice' = Slices
  /\ UNCHANGED <<algo, shares, traded, remaining>>

(* Equal parts, the first of them one larger as far as there is a remainder. *)
SliceTwap ==
  /\ algo = "TWAP" /\ slice < Slices
  /\ Cut((shares \div Slices) + (IF slice < shares % Slices THEN 1 ELSE 0))
  /\ slice' = slice + 1
  /\ UNCHANGED <<algo, shares, traded, remaining>>

(* The bars of a slice; the last takes what the division left over. *)
BarsOf(i) ==
  LET n == Cardinality(DOMAIN traded)
      width == n \div Slices
  IN i * width .. (IF i = Slices - 1 THEN n ELSE (i + 1) * width) - 1

(* round: halves go to the even neighbour. *)
Rounded(a, b) ==
  LET down == a \div b
      rest == 2 * (a % b)
  IN IF rest < b \/ (rest = b /\ down % 2 = 0) THEN down ELSE down + 1

Smaller(a, b) == IF a < b THEN a ELSE b
Larger(a, b) == IF a < b THEN b ELSE a

(* Fault for EveryShareIsSliced: nothing is kept for the slices that follow. *)
WantedAll(i) ==
  LET part == Rounded(shares * SumFunctionOnSet(traded, BarsOf(i)), SumFunction(traded))
  IN part

(* A slice's share of the volume, but a share is kept for each that follows. *)
Wanted(i) ==
  LET part == Rounded(shares * SumFunctionOnSet(traded, BarsOf(i)), SumFunction(traded))
  IN Larger(0, Smaller(part, remaining - (Slices - i - 1)))

SliceVwap ==
  /\ algo = "VWAP" /\ slice < Slices
  /\ LET n == IF slice = Slices - 1 THEN remaining ELSE Wanted(slice)
     IN Cut(n) /\ remaining' = remaining - n
  /\ slice' = slice + 1
  /\ UNCHANGED <<algo, shares, traded>>

SlicingNext == SliceMarket \/ SliceTwap \/ SliceVwap

SlicingSpec == SlicingInit /\ [][SlicingNext]_slicingVars
-----------------------------------------------------------------------------
(* Properties. *)

(* Every algorithm sells each share exactly once, whatever the volumes and   *)
(* however small the order, so that the padding and trimming that follow     *)
(* have nothing to do; TWAP's slices differ by no more than one share, and   *)
(* the last slice of VWAP, which takes what rounding left, is never empty    *)
(* for an order that has a share for each.                                   *)
EveryShareIsSliced ==
  slice = Slices =>
    /\ \A i \in DOMAIN sizes : sizes[i] >= 0
    /\ SumFunction(sizes) = shares
    /\ algo = "TWAP" => \A i, j \in DOMAIN sizes : sizes[i] <= sizes[j] + 1
    /\ algo = "VWAP" /\ shares >= Slices => sizes[Slices - 1] > 0
=============================================================================
