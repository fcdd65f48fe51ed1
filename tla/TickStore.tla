------------------------------ MODULE TickStore ------------------------------
(***************************************************************************)
(* The tick store (tick_store.py): ticks in a database, and a table of     *)
(* minute bars that is thrown away and computed again after every insert.  *)
(* All calls hold one lock, so no two of them overlap; but every statement *)
(* commits by itself, and the process may be killed between two.           *)
(*                                                                         *)
(* One symbol.  A tick is the time it is stamped with, in units of which   *)
(* Minute make a minute, and a volume of one.  A bar names its open and    *)
(* close by the times of the ticks they are the prices of.                 *)
(***************************************************************************)
EXTENDS Integers, Sequences, FiniteSetsExt, Functions

CONSTANTS Minute,     (* units of time in a minute                           *)
          MaxTime,    (* bound: the latest time                              *)
          MaxTicks,   (* bound: the ticks that are stored                    *)
          MaxCuts     (* bound: crashes                                      *)

ASSUME TickAssumption == Minute \in Nat \ {0} /\ {MaxTime, MaxTicks, MaxCuts} \subseteq Nat

VARIABLES
  ticks,    (* the table ticks                                               *)
  bars,     (* the table bars_1m: at the start, a minute; first and last     *)
            (* tick; volume                                                  *)
  step,     (* what the call in progress does next: idle, rows, delete,      *)
            (* insert                                                        *)
  rows,     (* rows of a list still to be inserted                           *)
  cut,      (* history: a call was cut short and none was completed since    *)
  cuts      (* history: crashes                                              *)

tickVars == <<ticks, bars, step, rows, cut, cuts>>

TickInit == ticks = <<>> /\ bars = {} /\ step = "idle" /\ rows = <<>> /\ cut = FALSE /\ cuts = 0

Batches == {<<s>> : s \in 0 .. MaxTime} \cup {<<s, t>> : s, t \in 0 .. MaxTime}
Fits(batch) == Len(ticks) + Len(batch) <= MaxTicks
-----------------------------------------------------------------------------
(* A DataFrame is inserted by one statement. *)
InsertFrame(batch) ==
  /\ step = "idle" /\ Fits(batch)
  /\ ticks' = ticks \o batch
  /\ step' = "delete"
  /\ UNCHANGED <<bars, rows, cut, cuts>>

(* A list is inserted row by row. *)
InsertList(batch) ==
  /\ step = "idle" /\ Fits(batch)
  /\ rows' = batch
  /\ step' = "rows"
  /\ UNCHANGED <<ticks, bars, cut, cuts>>

InsertRow ==
  /\ step = "rows"
  /\ ticks' = Append(ticks, Head(rows)) /\ rows' = Tail(rows)
  /\ step' = IF Len(rows) = 1 THEN "delete" ELSE "rows"
  /\ UNCHANGED <<bars, cut, cuts>>

(* Fault for BarsMatchTicks: the old bars are kept. *)
DeleteNothing ==
  /\ step = "delete" /\ step' = "insert"
  /\ UNCHANGED <<ticks, bars, rows, cut, cuts>>

(* _rebuild_1m_bars, first statement. *)
DeleteBars ==
  /\ step = "delete" /\ step' = "insert"
  /\ bars' = {}
  /\ UNCHANGED <<ticks, rows, cut, cuts>>

(* The quotient is a DOUBLE and the cast to BIGINT rounds it, halves to the  *)
(* even minute: half of a minute's ticks belong to the bar of the next.      *)
BarOf(t) ==
  LET down == t \div Minute
      rest == 2 * (t % Minute)
  IN IF rest < Minute \/ (rest = Minute /\ down % 2 = 0) THEN down ELSE down + 1

TicksAt(m) == {i \in DOMAIN ticks : BarOf(ticks[i]) = m}
Stamps(I) == {ticks[i] : i \in I}
Bar(m) == [at |-> m, first |-> Min(Stamps(TicksAt(m))), last |-> Max(Stamps(TicksAt(m))),
           volume |-> Cardinality(TicksAt(m))]

(* Its second statement. *)
InsertBars ==
  /\ step = "insert" /\ step' = "idle"
  /\ bars' = bars \cup {Bar(m) : m \in {BarOf(ticks[i]) : i \in DOMAIN ticks}}
  /\ cut' = FALSE
  /\ UNCHANGED <<ticks, rows, cuts>>

(* The process is killed; the database is as the last statement left it. *)
CutShort ==
  /\ step # "idle" /\ cuts < MaxCuts /\ cuts' = cuts + 1
  /\ step' = "idle" /\ rows' = <<>> /\ cut' = TRUE
  /\ UNCHANGED <<ticks, bars>>

TickNext ==
  \/ \E batch \in Batches : InsertFrame(batch) \/ InsertList(batch)
  \/ InsertRow \/ DeleteBars \/ InsertBars \/ CutShort

TickSpec == TickInit /\ [][TickNext]_tickVars
-----------------------------------------------------------------------------
(* get_ticks between two times, both included. *)
GetTicks(from, to) == {i \in DOMAIN ticks : ticks[i] \in from .. to}

(* get_bars: of the minutes from .. to, which both count, joined into bars   *)
(* of width minutes.                                                         *)
VolumeOf(B) == SumFunction([b \in B |-> b.volume])
Session(from, to) == {b \in bars : b.at \in from .. to}
GetBars(width, from, to) ==
  LET group(k) == {b \in Session(from, to) : b.at \div width = k}
  IN {[at |-> width * k, first |-> Min({b.first : b \in group(k)}),
       last |-> Max({b.last : b \in group(k)}),
       volume |-> VolumeOf(group(k))]
      : k \in {b.at \div width : b \in Session(from, to)}}
-----------------------------------------------------------------------------
(* Properties. *)

(* Once a call was completed, whatever was cut short before: every tick is   *)
(* in one bar of every width, bars do not overlap, and a bar holds no tick   *)
(* further than half a minute outside of it (_rebuild_1m_bars, get_bars).    *)
BarsMatchTicks ==
  step = "idle" /\ ~cut =>
    \A width \in 1 .. 2 :
      LET all == GetBars(width, 0, MaxTime + 1) IN
        /\ VolumeOf(bars) = Len(ticks)
        /\ VolumeOf(all) = Cardinality(GetTicks(0, MaxTime))
        /\ \A b \in all : /\ 2 * b.first >= 2 * Minute * b.at - Minute
                          /\ 2 * b.last <= 2 * Minute * (b.at + width) - Minute
        /\ \A b, c \in all : b.at < c.at => b.last < c.first
=============================================================================
