------------------------------ MODULE RiskEngine ------------------------------
(***************************************************************************)
(* The session-aware risk engine (risk_engine.cpp) and the trading account *)
(* it guards: orders are checked against a snapshot of the account, filled *)
(* when approved, and their results recorded; the engine is told of new    *)
(* snapshots, and an operator resets the day or a halt.  All calls hold    *)
(* mutex_ for their whole body but reset_halt, which clears halted_ first  *)
(* and takes the lock afterwards.                                          *)
(*                                                                         *)
(* Time is counted in ticks from 1 (0 means unset), DayLength of them to a *)
(* day.  Equity is a number of units and losses are percentages; a share   *)
(* costs one unit.  There is one symbol.                                   *)
(***************************************************************************)
EXTENDS Integers, FiniteSets

CONSTANTS
  DayLength,   (* ticks in a day                                            *)
  Deadline,    (* flat_deadline_ns, in ticks since midnight                 *)
  MaxTime,     (* bound: the last tick                                      *)
  Equities,    (* the values the account's equity can take                  *)
  MaxQuantity, (* bound: the largest order                                  *)
  MaxHeld,     (* bound: the largest position                               *)
  MaxPositionPct, MaxDailyLossPct, MaxIntradayLossPct, MaxDrawdownPct,
  MaxTrades,   (* max_trades_per_day                                        *)
  MaxLosses,   (* max_consecutive_losses                                    *)
  MaxHold,     (* max_position_hold_minutes, in ticks                       *)
  MaxResets    (* bound: calls of reset_halt and of reset_day               *)

ASSUME RiskAssumption ==
  /\ DayLength \in Nat \ {0} /\ Deadline \in 1 .. DayLength
  /\ MaxTime \in Nat \ {0} /\ Equities \subseteq Nat /\ MaxQuantity \in Nat \ {0}
  /\ MaxHeld \in Nat \ {0}
  /\ MaxPositionPct \in Nat /\ MaxDailyLossPct \in Nat
  /\ MaxIntradayLossPct \in Nat /\ MaxDrawdownPct \in Nat
  /\ MaxTrades \in Nat \ {0} /\ MaxLosses \in Nat \ {0} /\ MaxHold \in Nat
  /\ MaxResets \in Nat

VARIABLES
  now, equity, held, entry,  (* the account: timestamp_ns, total_equity,    *)
                 (* the signed position and when it was entered             *)
  halted,        (* halted_                                                 *)
  peak,          (* peak_equity_                                            *)
  dayEquity,     (* day_start_equity_                                       *)
  sessionEquity, (* session_start_equity_                                   *)
  dayDate,       (* day_start_date_ns_; the session's date is the same      *)
  trades,        (* trades_today_                                           *)
  losses,        (* consecutive_losses_                                     *)
  lastDay,       (* last_trade_day_ns_, a day                               *)
  resetting,     (* reset_halt is between its store and its lock            *)
  last,          (* history: the order that was just approved, or none      *)
  seen,          (* history: the equities the engine was shown today        *)
  recorded,      (* history: the trades recorded today                      *)
  manual,        (* history: reset_day was called, no day began since       *)
  resets         (* history: calls of reset_halt and reset_day              *)

account == <<now, equity, held, entry>>
anchors == <<dayEquity, sessionEquity, dayDate>>
counters == <<trades, losses, lastDay>>
vars == <<account, halted, peak, anchors, counters, resetting, last, seen, recorded,
          manual, resets>>

Day(t) == t \div DayLength
Abs(n) == IF n < 0 THEN -n ELSE n

NoOrder == [approved |-> FALSE, size |-> 0, before |-> 0, after |-> 0, long |-> FALSE]

(* An order: its signed size, and whether it carries a limit price. *)
Orders == [size : ((-MaxQuantity) .. MaxQuantity) \ {0}, priced : BOOLEAN]

Init ==
  /\ now = 1 /\ equity \in Equities \ {0} /\ held = 0 /\ entry = 0
  /\ halted = FALSE /\ peak = 0
  /\ dayEquity = 0 /\ sessionEquity = 0 /\ dayDate = 0
  /\ trades = 0 /\ losses = 0 /\ lastDay = -1
  /\ resetting = FALSE
  /\ last = NoOrder /\ seen = {} /\ recorded = 0 /\ manual = FALSE /\ resets = 0
-----------------------------------------------------------------------------
(* check_order.  The checks are made in this order; the first that fails     *)
(* decides.                                                                  *)

AfterDeadline == now % DayLength >= Deadline

(* Closes a part or all of the position. *)
Reduces(o) ==
  \/ held > 0 /\ o.size < 0 /\ -o.size <= held
  \/ held < 0 /\ o.size > 0 /\ o.size <= -held

HeldTooLong == held # 0 /\ entry > 0 /\ now - entry > MaxHold

(* Adds to a position that should be closed. *)
Extends(o) == (held > 0 /\ o.size > 0) \/ (held < 0 /\ o.size < 0)

(* Fault for AfterDeadlineOnlyReduces: an order that is larger than the      *)
(* position still counts as closing it.                                      *)
RefusedOverclosing(o) ==
  \/ halted
  \/ AfterDeadline /\ ~((held > 0 /\ o.size < 0) \/ (held < 0 /\ o.size > 0))
  \/ trades >= MaxTrades
  \/ losses >= MaxLosses
  \/ HeldTooLong /\ Extends(o)

(* Fault for ApprovedUnderTradeLimit. *)
RefusedOneLate(o) ==
  \/ halted
  \/ AfterDeadline /\ ~Reduces(o)
  \/ trades > MaxTrades
  \/ losses >= MaxLosses
  \/ HeldTooLong /\ Extends(o)

(* The checks made before the day's anchors are looked at. *)
Refused(o) ==
  \/ halted
  \/ AfterDeadline /\ ~Reduces(o)
  \/ trades >= MaxTrades
  \/ losses >= MaxLosses
  \/ HeldTooLong /\ Extends(o)

(* A percentage of from that has been lost is limit or more. *)
Lost(from, limit) == from > 0 /\ (from - equity) * 100 >= limit * from

(* Fault for AnchorsAreToday: the date is not compared. *)
AnchorDayOnce ==
  LET first == dayEquity <= 0 /\ equity > 0
  IN /\ dayEquity' = IF first THEN equity ELSE dayEquity
     /\ sessionEquity' = IF first THEN equity ELSE sessionEquity
     /\ dayDate' = IF first THEN now ELSE dayDate
     /\ UNCHANGED manual

(* The equities of a new day, or of the first check. *)
AnchorDay ==
  LET newDay == dayDate > 0 /\ Day(now) # Day(dayDate)
      first  == dayEquity <= 0
      sessionFirst == first \/ sessionEquity <= 0
  IN /\ dayEquity' = IF (newDay \/ first) /\ equity > 0 THEN equity ELSE dayEquity
     /\ sessionEquity' = IF (newDay \/ sessionFirst) /\ equity > 0 THEN equity ELSE sessionEquity
     /\ dayDate' = IF newDay \/ (first /\ equity > 0) THEN now ELSE dayDate
     /\ manual' = (manual /\ ~newDay)

TooLarge(o) == equity > 0 /\ Abs(held + o.size) * 100 > MaxPositionPct * equity

CheckRefused(o) ==
  /\ Refused(o)
  /\ last' = NoOrder
  /\ UNCHANGED <<account, halted, peak, anchors, counters, resetting, seen, recorded, manual,
                 resets>>

(* What is left is judged by the day's and the session's loss ... *)
Evaluate(o) ==
  /\ ~Refused(o)
  /\ AnchorDay
  /\ seen' = seen \cup {equity}
  /\ UNCHANGED <<now, equity, peak, counters, resetting, recorded, resets>>

CheckLoss(o) ==
  /\ Evaluate(o)
  /\ Lost(dayEquity', MaxDailyLossPct) \/ Lost(sessionEquity', MaxIntradayLossPct)
  /\ halted' = TRUE
  /\ last' = NoOrder
  /\ UNCHANGED <<held, entry>>

(* ... and then by its price and size.  An approved order is filled before   *)
(* the account changes otherwise.                                            *)
CheckSize(o) ==
  /\ Evaluate(o)
  /\ ~Lost(dayEquity', MaxDailyLossPct) /\ ~Lost(sessionEquity', MaxIntradayLossPct)
  /\ IF o.priced /\ ~TooLarge(o)
     THEN /\ held' = held + o.size
          /\ entry' = IF held' = 0 THEN 0
                      ELSE IF held = 0 \/ (held > 0) # (held' > 0) THEN now ELSE entry
          /\ last' = [approved |-> TRUE, size |-> o.size, before |-> held, after |-> held',
                      long |-> HeldTooLong]
     ELSE last' = NoOrder /\ UNCHANGED <<held, entry>>
  /\ UNCHANGED halted

CheckOrder(o) ==
  /\ Abs(held + o.size) <= MaxHeld
  /\ CheckRefused(o) \/ CheckLoss(o) \/ CheckSize(o)
-----------------------------------------------------------------------------
(* The other calls. *)

(* The drawdown from the peak halts.  A new day resets the counters, and not *)
(* the anchors, which are only set here when there are none.                 *)
UpdatePortfolio ==
  LET day == Day(now)
      newDay == lastDay >= 0 /\ day # lastDay
      top == IF equity > peak THEN equity ELSE peak
  IN /\ peak' = top
     /\ IF dayDate = 0
        THEN /\ dayDate' = now
             /\ dayEquity' = IF dayEquity <= 0 THEN equity ELSE dayEquity
             /\ sessionEquity' = IF sessionEquity <= 0 THEN equity ELSE sessionEquity
        ELSE UNCHANGED anchors
     /\ halted' = (halted \/ (top > 0 /\ (top - equity) * 100 >= MaxDrawdownPct * top))
     /\ IF newDay
        THEN trades' = 0 /\ losses' = 0 /\ lastDay' = day
        ELSE UNCHANGED counters
     /\ last' = NoOrder
     /\ seen' = seen \cup {equity}
     /\ UNCHANGED <<account, resetting, recorded, manual, resets>>

(* A closed trade; both counters begin anew on a new day. *)
RecordTradeResult(win) ==
  LET fresh == Day(now) # lastDay
      lost  == IF win THEN 0 ELSE (IF fresh THEN 0 ELSE losses) + 1
  IN /\ recorded < MaxTrades + 1
     /\ recorded' = recorded + 1
     /\ trades' = (IF fresh THEN 0 ELSE trades) + 1
     /\ losses' = lost
     /\ lastDay' = Day(now)
     /\ halted' = (halted \/ lost >= MaxLosses)
     /\ last' = NoOrder
     /\ UNCHANGED <<account, peak, anchors, resetting, seen, manual, resets>>

ResetDay ==
  /\ resets < MaxResets
  /\ resets' = resets + 1
  /\ dayEquity' = equity /\ sessionEquity' = equity
  /\ dayDate' = 0
  /\ trades' = 0 /\ losses' = 0
  /\ last' = NoOrder
  /\ manual' = TRUE
  /\ UNCHANGED <<account, halted, peak, lastDay, resetting, seen, recorded>>

(* reset_halt: the store ... *)
ResetHalt ==
  /\ ~resetting
  /\ resets < MaxResets
  /\ resets' = resets + 1
  /\ halted' = FALSE
  /\ resetting' = TRUE
  /\ last' = NoOrder
  /\ UNCHANGED <<account, peak, anchors, counters, seen, recorded, manual>>

(* ... and the part under the lock. *)
ResetHaltLocked ==
  /\ resetting
  /\ resetting' = FALSE
  /\ losses' = 0
  /\ last' = NoOrder
  /\ UNCHANGED <<account, halted, peak, anchors, trades, lastDay, seen, recorded, manual,
                 resets>>

(* Time passes and prices move. *)
Tick ==
  /\ now < MaxTime
  /\ now' = now + 1
  /\ equity' \in Equities
  /\ last' = NoOrder
  /\ seen' = IF Day(now') = Day(now) THEN seen ELSE {}
  /\ recorded' = IF Day(now') = Day(now) THEN recorded ELSE 0
  /\ UNCHANGED <<held, entry, halted, peak, anchors, counters, resetting, manual, resets>>

Next ==
  \/ \E o \in Orders : CheckOrder(o)
  \/ UpdatePortfolio
  \/ \E win \in BOOLEAN : RecordTradeResult(win)
  \/ ResetDay \/ ResetHalt \/ ResetHaltLocked
  \/ Tick

Spec == Init /\ [][Next]_vars
-----------------------------------------------------------------------------
(* Properties. *)

(* Every variable has its type; both counters stay within one day's trades.   *)
TypeOK ==
  /\ now \in 1 .. MaxTime /\ equity \in Equities
  /\ held \in (-MaxHeld) .. MaxHeld /\ entry \in 0 .. now
  /\ halted \in BOOLEAN /\ resetting \in BOOLEAN /\ manual \in BOOLEAN
  /\ peak \in Equities \cup {0}
  /\ dayEquity \in Equities \cup {0} /\ sessionEquity \in Equities \cup {0}
  /\ dayDate \in 0 .. now
  /\ trades \in 0 .. MaxTrades + 1 /\ losses \in 0 .. MaxTrades + 1
  /\ lastDay \in (-1) .. Day(now)
  /\ seen \subseteq Equities
  /\ recorded \in 0 .. MaxTrades + 1 /\ resets \in 0 .. MaxResets

(* The day's and the session's baseline are never different: the tighter     *)
(* session limit always decides and the daily one only when a loss jumps     *)
(* over it (check_order, update_portfolio and reset_day set them together).  *)
AnchorsAgree == dayEquity = sessionEquity

(* An approved order is judged against an equity the engine was shown on the *)
(* same day, and has not lost the session's limit against it, however many   *)
(* days, halts and resets of halts went before; reset_day and an account     *)
(* shown with no equity are outside this promise.                            *)
AnchorsAreToday ==
  last.approved /\ ~manual /\ 0 \notin seen =>
    /\ sessionEquity \in seen
    /\ ~Lost(sessionEquity, MaxIntradayLossPct)

(* No order is approved on a day on which the limit of trades was recorded,  *)
(* unless the operator began the day anew.                                   *)
ApprovedUnderTradeLimit == last.approved /\ recorded >= MaxTrades => manual

(* The inductive strengthening of AnchorsAgree and ApprovedUnderTradeLimit:   *)
(* counters of the current day count exactly the trades recorded today,      *)
(* unless reset_day set them back; and until the next day begins for         *)
(* check_order nothing takes back that mark.                                 *)
IndInv ==
  /\ TypeOK
  /\ AnchorsAgree
  /\ ApprovedUnderTradeLimit
  /\ recorded > 0 => lastDay = Day(now)
  /\ lastDay = Day(now) => trades <= recorded
  /\ losses <= trades
  /\ lastDay = Day(now) /\ trades # recorded =>
       manual /\ (dayDate = 0 \/ Day(dayDate) = Day(now))

(* The inductive strengthening of AnchorsAreToday: without a date there is no *)
(* baseline either, and a baseline dated today was shown to the engine today, *)
(* but for reset_day and for an account without equity.                      *)
AnchorInv ==
  /\ ~manual /\ dayDate = 0 => dayEquity = 0
  /\ ~manual /\ dayDate > 0 /\ Day(dayDate) = Day(now) /\ 0 \notin seen =>
       sessionEquity \in seen
  /\ AnchorsAreToday

(* After the deadline an approved order brings the position closer to flat   *)
(* and never through it.                                                     *)
AfterDeadlineOnlyReduces ==
  last.approved /\ AfterDeadline =>
    /\ Abs(last.after) < Abs(last.before)
    /\ (last.after > 0) => (last.before > 0)
    /\ (last.after < 0) => (last.before < 0)

(* What check_order says of a position held too long: "Force reduce, not new *)
(* exposure on same symbol", "only closing allowed".                         *)
HeldTooLongOnlyCloses ==
  last.approved /\ last.long =>
    /\ (last.after > 0) => (last.before > 0)
    /\ (last.after < 0) => (last.before < 0)
=============================================================================
