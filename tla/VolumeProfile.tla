---------------------------- MODULE VolumeProfile ----------------------------
(***************************************************************************)
(* The value area of a volume profile.  The same search is written three   *)
(* times (tick_store.py, prediction_suite.py, feature_engine.cpp); their   *)
(* only difference, a third case that goes left once nothing is left to    *)
(* the right, cannot occur, as a missing neighbour counts as -1.           *)
(***************************************************************************)
EXTENDS Integers, FiniteSetsExt, Functions

CONSTANTS Bins,      (* the number of bins               *)
          MaxVolume  (* bound: the volume of a bin       *)

ASSUME ProfileAssumption == Bins \in Nat \ {0} /\ MaxVolume \in Nat

VARIABLES vols,    (* bin_vol                           *)
          poc,     (* poc_idx                           *)
          left, right, accum
profileVars == <<vols, poc, left, right, accum>>

(* argmax and max_element take the first of equals. *)
FirstMax(v) == Min({b \in DOMAIN v : \A c \in DOMAIN v : v[c] <= v[b]})
Total == SumFunctionOnSet(vols, 1 .. Bins)

ProfileInit ==
  /\ vols \in [1 .. Bins -> 0 .. MaxVolume]
  /\ poc = FirstMax(vols)
  /\ left = poc /\ right = poc /\ accum = vols[poc]

(* Less than seventy per cent are in the area, and it can grow. *)
Wanting == 10 * accum < 7 * Total /\ (left > 1 \/ right < Bins)

LeftVolume == IF left > 1 THEN vols[left - 1] ELSE -1
RightVolume == IF right < Bins THEN vols[right + 1] ELSE -1

(* Fault for ValueAreaIsTight: the left side is added whatever it holds.     *)
WidenLeftAlways ==
  /\ Wanting /\ left > 1
  /\ left' = left - 1 /\ accum' = accum + LeftVolume
  /\ UNCHANGED <<vols, poc, right>>

(* The side with more volume is added, the left one of equals. *)
WidenLeft ==
  /\ Wanting /\ left > 1 /\ LeftVolume >= RightVolume
  /\ left' = left - 1 /\ accum' = accum + LeftVolume
  /\ UNCHANGED <<vols, poc, right>>

WidenRight ==
  /\ Wanting /\ right < Bins /\ ~(left > 1 /\ LeftVolume >= RightVolume)
  /\ right' = right + 1 /\ accum' = accum + RightVolume
  /\ UNCHANGED <<vols, poc, left>>

ProfileNext == WidenLeft \/ WidenRight

ProfileSpec == ProfileInit /\ [][ProfileNext]_profileVars
-----------------------------------------------------------------------------
(* Properties. *)

VolumeIn(l, r) == SumFunctionOnSet(vols, l .. r)

(* The area that is reported has the point of control in it, holds seventy   *)
(* per cent of the volume and would not without the bin added last, and the  *)
(* bin it could have taken instead, on the other side, has no more volume.   *)
ValueAreaIsTight ==
  ~Wanting =>
    /\ poc \in left .. right
    /\ 10 * VolumeIn(left, right) >= 7 * Total
    /\ left < right =>
         \/ /\ left < poc /\ 10 * VolumeIn(left + 1, right) < 7 * Total
            /\ right < Bins => vols[right + 1] <= vols[left]
         \/ /\ right > poc /\ 10 * VolumeIn(left, right - 1) < 7 * Total
            /\ left > 1 => vols[left - 1] < vols[right]
=============================================================================
