---------------------------- MODULE SafeguardProofs ----------------------------
(***************************************************************************)
(* Proofs about the two parts that stop a trade: KillSwitch and            *)
(* RiskEngine, each by itself.                                             *)
(*                                                                         *)
(* For any set of trading threads and any bounds: each thread trades at    *)
(* most once after the switch is raised, and a requested halt survives a   *)
(* crash of the engine at any point.                                       *)
(*                                                                         *)
(* For every length of the day, every set of equities and all limits: the  *)
(* baselines of the risk engine are those of today and always equal, no    *)
(* order is approved on a day whose limit of trades was reached, unless    *)
(* reset_day was called, and past the deadline orders only reduce.         *)
(***************************************************************************)
EXTENDS KillSwitch, RiskEngine, TLAPS

(***************************************************************************)
(* The kill switch.                                                        *)
(***************************************************************************)

(* The initial state satisfies the inductive invariant. *)
LEMMA InitSwitchInv == SwitchInit => SwitchInv
<1> SUFFICES ASSUME SwitchInit PROVE SwitchInv
  OBVIOUS
<1> USE DEF SwitchInit
<1>1. snap \in Snapshots /\ shown \in Snapshots
  BY DEF Snapshots, Quiet
<1>2. /\ kills \in 0 .. MaxKills /\ haltResets \in 0 .. MaxHaltResets
      /\ starts \in 0 .. MaxStarts /\ fails \in 0 .. MaxFails
  BY KillAssumption
<1>3. /\ late \in [Traders -> 0 .. MaxLate]
      /\ pc \in [Traders -> {"test", "act"}]
  BY KillAssumption
<1>4. SwitchTypeOK
  BY <1>1, <1>2, <1>3 DEF SwitchTypeOK
<1>5. ASSUME NEW t \in Traders PROVE late[t] <= 1 /\ late[t] # 1
  <2>1. late[t] = 0
    OBVIOUS
  <2> QED
    BY ONLY <2>1
<1> QED
  BY <1>4, <1>5 DEF SwitchInv

(* The engine's telemetry thread (check_surveillance and telemetry_loop)     *)
(* preserves it: only a raised switch lets the thread remove the flag.       *)
LEMMA TelemetrySwitchInv == SwitchInv /\ Telemetry => SwitchInv'
<1> SUFFICES ASSUME SwitchInv, Telemetry PROVE SwitchInv'
  OBVIOUS
<1> USE KillAssumption DEF SwitchInv, SwitchTypeOK, Snapshots, At, files, switch, poller, traders,
          backend, wanted, counts
<1>1. CASE CheckFlag
  BY <1>1 DEF CheckFlag
<1>2. CASE StoreHalt
  BY <1>2 DEF StoreHalt
<1>3. CASE StoreKill
  BY <1>3 DEF StoreKill
<1>4. CASE RemoveFlag
  BY <1>4 DEF RemoveFlag
<1>5. CASE Snapshot
  BY <1>5 DEF Snapshot
<1>6. CASE Publish
  BY <1>6 DEF Publish
<1> QED
  BY <1>1, <1>2, <1>3, <1>4, <1>5, <1>6 DEF Telemetry

(* A trading thread preserves it: past its test it has not traded late, and  *)
(* a raised switch keeps it from passing the test again.                     *)
LEMMA TraderSwitchInv ==
  ASSUME SwitchInv, NEW t \in Traders, Test(t) \/ Act(t)
  PROVE  SwitchInv'
<1> USE KillAssumption DEF SwitchInv, SwitchTypeOK, Snapshots, files, switch, poller, backend,
          wanted, counts, Goto
<1>1. CASE Test(t)
  BY <1>1 DEF Test
<1>2. CASE Act(t)
  BY <1>2 DEF Act
<1> QED
  BY <1>1, <1>2

(* Starting and stopping the engine preserve it. *)
LEMMA ProcessSwitchInv == SwitchInv /\ (Start \/ Stop) => SwitchInv'
<1> SUFFICES ASSUME SwitchInv, Start \/ Stop PROVE SwitchInv'
  OBVIOUS
<1> USE DEF SwitchInv, SwitchTypeOK, files, poller, traders, backend, wanted, counts
<1>1. CASE Start
  <2> USE <1>1 DEF Start
  <2>1. snap' \in Snapshots /\ shown' \in Snapshots
    BY DEF Snapshots, Quiet
  <2>2. starts' \in 0 .. MaxStarts
    BY KillAssumption
  <2>3. /\ late' \in [Traders -> 0 .. MaxLate]
        /\ pc' \in [Traders -> {"test", "act"}]
    BY KillAssumption
  <2>4. SwitchTypeOK'
    BY <2>1, <2>2, <2>3
  <2>5. ASSUME NEW t \in Traders PROVE late'[t] <= 1 /\ late'[t] # 1
    <3>1. late'[t] = 0
      OBVIOUS
    <3> QED
      BY ONLY <3>1
  <2> QED
    BY <2>4, <2>5
<1>2. CASE Stop
  BY <1>2 DEF Stop
<1> QED
  BY <1>1, <1>2

(* Those who request halts and haltResets preserve it. *)
LEMMA RequestSwitchInv == SwitchInv /\ (Backend \/ Drill) => SwitchInv'
<1> SUFFICES ASSUME SwitchInv, Backend \/ Drill PROVE SwitchInv'
  OBVIOUS
<1> USE DEF SwitchInv
<1>1. UNCHANGED <<shown, switch, poller, traders, up, starts, fails>>
  BY DEF Backend, TriggerKill, ResetExists, ResetRemove, Drill, counts, files
<1>2. SwitchTypeOK'
  <2>1. SwitchTypeOK
    OBVIOUS
  <2>2. /\ flag' \in BOOLEAN /\ pending' \in BOOLEAN
        /\ apc' \in {"idle", "remove"}
        /\ answer' \in {"none", "HALTED", "RESET", "error"}
        /\ asked' \in {"none", "halt", "reset"}
    <3> USE <2>1 DEF SwitchTypeOK, files, backend, counts
    <3>1. CASE TriggerKill \/ Drill
      BY <3>1 DEF TriggerKill, Drill, Request
    <3>2. CASE ResetExists \/ ResetRemove
      BY <3>2 DEF ResetExists, ResetRemove
    <3> QED
      BY <3>1, <3>2 DEF Backend
  <2>3. kills' \in 0 .. MaxKills /\ haltResets' \in 0 .. MaxHaltResets
    BY ONLY <2>1, KillAssumption, Backend \/ Drill
       DEF SwitchTypeOK, Backend, TriggerKill, ResetExists, ResetRemove, Drill, Request, counts
  <2> QED
    BY ONLY <1>1, <2>1, <2>2, <2>3 DEF SwitchTypeOK, Snapshots, switch, poller, traders
<1>3. (pending => flag)' /\ (kill => ~pending)'
  <2> USE DEF SwitchTypeOK, files, switch, counts
  <2>1. CASE TriggerKill \/ Drill
    BY <2>1 DEF TriggerKill, Drill, Request
  <2>2. CASE ResetExists \/ ResetRemove
    BY <2>2 DEF ResetExists, ResetRemove
  <2> QED
    BY <2>1, <2>2 DEF Backend
<1> QED
  BY <1>1, <1>2, <1>3 DEF switch, poller, traders

(* Every step preserves the inductive invariant. *)
LEMMA NextSwitchInv == SwitchInv /\ [SwitchNext]_switchVars => SwitchInv'
<1> SUFFICES ASSUME SwitchInv, [SwitchNext]_switchVars PROVE SwitchInv'
  OBVIOUS
<1>1. CASE UNCHANGED switchVars
  BY <1>1 DEF SwitchInv, SwitchTypeOK, Snapshots, switchVars, files, switch, poller, traders,
          backend, wanted, counts
<1>2. CASE SwitchNext
  BY <1>2, TelemetrySwitchInv, TraderSwitchInv, ProcessSwitchInv, RequestSwitchInv DEF SwitchNext
<1> QED
  BY <1>1, <1>2

(* The inductive invariant holds in every reachable state. *)
THEOREM SwitchInvariant == SwitchSpec => []SwitchInv
  BY InitSwitchInv, NextSwitchInv, PTL DEF SwitchSpec

(* Every variable keeps its type. *)
THEOREM SwitchTypeCorrect == SwitchSpec => []SwitchTypeOK
  BY SwitchInvariant, PTL DEF SwitchInv

(* Once the switch is raised a thread completes at most the one order whose  *)
(* test it had passed (route_order and the two tests of engine_loop).        *)
THEOREM OneLateOrder == SwitchSpec => []AtMostOneLateOrder
<1>1. SwitchInv => AtMostOneLateOrder
  BY DEF SwitchInv, AtMostOneLateOrder
<1> QED
  BY <1>1, SwitchInvariant, PTL

(* A requested halt that nobody acted on or took back is still on disk,      *)
(* wherever in check_surveillance the engine died.                           *)
THEOREM KillRemembered == SwitchSpec => []NoKillForgotten
<1>1. SwitchInv => NoKillForgotten
  BY DEF SwitchInv, NoKillForgotten
<1> QED
  BY <1>1, SwitchInvariant, PTL

(* What the telemetry file says of the switch stays true for as long as the  *)
(* switch stays as it is, over every stop, start, failed rename and request  *)
(* (main.cpp, telemetry_loop: one thread raises the switch and publishes).   *)
THEOREM DashboardStays == SwitchSpec => ShownStays
<1>1. ASSUME SwitchInv, Agrees, [SwitchNext]_switchVars, kill' = kill
      PROVE  Agrees'
  <2> SUFFICES shown' = shown \/ shown' = [kill |-> kill, halt |-> kill]
    BY <1>1 DEF Agrees
  <2>1. CASE Publish
    <3>1. up /\ tpc = "publish" /\ (shown' = snap \/ shown' = shown)
      BY <2>1 DEF Publish, At
    <3>2. snap = [kill |-> kill, halt |-> halt] /\ halt = kill
      <4>1. kill \in BOOLEAN /\ halt \in BOOLEAN
        BY <1>1 DEF SwitchInv, SwitchTypeOK
      <4> QED
        BY <1>1, <3>1, <4>1 DEF SwitchInv
    <3> QED
      BY <3>1, <3>2
  <2>2. CASE UNCHANGED switchVars
    BY <2>2 DEF switchVars, files
  <2>3. CASE SwitchNext /\ ~Publish
    BY <2>3 DEF SwitchNext, Telemetry, Backend, CheckFlag, StoreHalt, StoreKill, RemoveFlag,
                Snapshot, Start, Stop, Test, Act, TriggerKill, ResetExists, ResetRemove, Drill,
                Request, files
  <2> QED
    BY <1>1, <2>1, <2>2, <2>3
<1>2. SwitchInv /\ [SwitchNext]_switchVars => [Agrees /\ kill' = kill => Agrees']_switchVars
  BY <1>1
<1> QED
  BY <1>2, SwitchInvariant, PTL DEF SwitchSpec, ShownStays

(***************************************************************************)
(* The risk engine.                                                        *)
(***************************************************************************)

(* A day is a natural number.                                                *)
LEMMA DayType == \A t \in Nat : Day(t) \in Nat
BY RiskAssumption DEF Day

(* A later time is not on an earlier day. *)
LEMMA DayMonotone == \A t, u \in Nat : t <= u => Day(t) <= Day(u)
<1> TAKE t, u \in Nat
<1> HAVE t <= u
<1> DEFINE D == DayLength
           a == t \div D
           b == u \div D
           r == t % D
           s == u % D
<1>1. D \in Nat /\ D > 0
  BY RiskAssumption
<1>2. a \in Int /\ r \in 0 .. D - 1 /\ t = (a * D) + r
  BY <1>1
<1>3. b \in Int /\ s \in 0 .. D - 1 /\ u = (b * D) + s
  BY <1>1
<1> HIDE DEF D, a, b, r, s
<1>4. ASSUME b < a PROVE FALSE
  <2>1. (b + 1) * D <= a * D
    BY <1>1, <1>2, <1>3, <1>4
  <2>2. (b + 1) * D = (b * D) + D
    BY <1>1, <1>3
  <2> QED
    BY <1>1, <1>2, <1>3, <2>1, <2>2
<1>5. a <= b
  BY <1>2, <1>3, <1>4
<1> QED
  BY <1>5 DEF Day, a, b, D

(* The initial state satisfies the inductive invariant. *)
LEMMA InitIndInv == Init => IndInv
<1> SUFFICES ASSUME Init PROVE IndInv
  OBVIOUS
<1> USE RiskAssumption DEF Init
<1>1. Day(now) \in Nat
  BY DayType
<1>2. now \in 1 .. MaxTime /\ dayDate \in 0 .. now /\ entry \in 0 .. now
  OBVIOUS
<1>3. /\ held \in (-MaxHeld) .. MaxHeld
      /\ trades \in 0 .. MaxTrades + 1 /\ losses \in 0 .. MaxTrades + 1
      /\ recorded \in 0 .. MaxTrades + 1 /\ resets \in 0 .. MaxResets
  OBVIOUS
<1>4. lastDay \in (-1) .. Day(now)
  BY <1>1
<1>5. TypeOK
  BY <1>2, <1>3, <1>4 DEF TypeOK
<1>6. AnchorsAgree /\ ApprovedUnderTradeLimit
  BY DEF AnchorsAgree, ApprovedUnderTradeLimit, NoOrder
<1> QED
  BY <1>1, <1>5, <1>6 DEF IndInv

(* check_order preserves it.  An order is approved below the limit of        *)
(* trades; if the limit was recorded all the same, reset_day was called, and *)
(* the anchors say that no day has begun since.                              *)
LEMMA CheckIndInv ==
  ASSUME IndInv, NEW o \in Orders, CheckOrder(o)
  PROVE  IndInv'
<1> USE RiskAssumption
<1> DEFINE newDay == dayDate > 0 /\ Day(now) # Day(dayDate)
<1>1. /\ now \in 1 .. MaxTime /\ equity \in Equities /\ equity \in Nat
      /\ held \in Int /\ held \in (-MaxHeld) .. MaxHeld /\ entry \in 0 .. now
      /\ Day(now) \in Nat
  BY DayType DEF IndInv, TypeOK
<1>2. o.size \in Int /\ o.priced \in BOOLEAN
  BY DEF Orders
<1>3. UNCHANGED <<now, equity, peak, trades, losses, lastDay, resetting, recorded, resets>>
  BY DEF CheckOrder, CheckRefused, CheckLoss, CheckSize, Evaluate, account, counters, anchors
<1>4. /\ held' \in (-MaxHeld) .. MaxHeld
      /\ entry' \in 0 .. now
  <2>1. held' = held \/ held' = held + o.size
    BY DEF CheckOrder, CheckRefused, CheckLoss, CheckSize, account
  <2>2. held + o.size \in (-MaxHeld) .. MaxHeld
    BY <1>1, <1>2 DEF CheckOrder, Abs
  <2>3. entry' \in {0, now, entry}
    BY DEF CheckOrder, CheckRefused, CheckLoss, CheckSize, account
  <2> QED
    BY <1>1, <2>1, <2>2, <2>3
<1>5. halted' \in BOOLEAN
  BY DEF CheckOrder, CheckRefused, CheckLoss, CheckSize, account, IndInv, TypeOK
<1>6. seen' \subseteq Equities
  BY <1>1 DEF CheckOrder, CheckRefused, CheckLoss, CheckSize, Evaluate, IndInv, TypeOK
<1>7. /\ dayEquity' = sessionEquity'
      /\ dayEquity' \in Equities \cup {0}
      /\ dayDate' \in 0 .. now
      /\ dayDate' \in {dayDate, now}
      /\ manual /\ ~newDay => manual'
      /\ manual' \in BOOLEAN
  <2>1. CASE CheckRefused(o)
    BY <2>1, <1>1 DEF CheckRefused, anchors, IndInv, TypeOK, AnchorsAgree
  <2>2. CASE AnchorDay
    BY <2>2, <1>1 DEF AnchorDay, IndInv, TypeOK, AnchorsAgree
  <2> QED
    BY <2>1, <2>2 DEF CheckOrder, CheckLoss, CheckSize, Evaluate
<1>8. TypeOK'
  BY <1>1, <1>3, <1>4, <1>5, <1>6, <1>7 DEF TypeOK, IndInv
<1>9. last'.approved => trades < MaxTrades
  <2>1. CASE CheckRefused(o) \/ CheckLoss(o)
    BY <2>1 DEF CheckRefused, CheckLoss, NoOrder
  <2>2. CASE CheckSize(o)
    BY <2>2 DEF CheckSize, Evaluate, Refused, IndInv, TypeOK
  <2> QED
    BY <2>1, <2>2 DEF CheckOrder
<1>10. lastDay = Day(now) /\ trades # recorded => ~newDay /\ manual
  BY <1>1 DEF IndInv, TypeOK
<1>11. lastDay = Day(now) /\ trades # recorded =>
         manual' /\ (dayDate' = 0 \/ Day(dayDate') = Day(now))
  <2> SUFFICES ASSUME lastDay = Day(now), trades # recorded
               PROVE  manual' /\ (dayDate' = 0 \/ Day(dayDate') = Day(now))
    OBVIOUS
  <2>1. manual'
    BY <1>7, <1>10
  <2>2. CASE dayDate' = now
    BY <2>1, <2>2
  <2>3. CASE dayDate' = dayDate
    <3>1. dayDate = 0 \/ Day(dayDate) = Day(now)
      BY DEF IndInv
    <3> QED
      BY <2>1, <2>3, <3>1
  <2> QED
    BY <1>7, <2>2, <2>3
<1>12. last'.approved /\ recorded >= MaxTrades => manual'
  <2> SUFFICES ASSUME last'.approved, recorded >= MaxTrades
               PROVE  manual'
    OBVIOUS
  <2>1. recorded > 0 /\ trades # recorded
    BY <1>9 DEF IndInv, TypeOK
  <2>2. lastDay = Day(now)
    BY <2>1 DEF IndInv
  <2> QED
    BY <2>1, <2>2, <1>11
<1>13. UNCHANGED Day(now)
  BY <1>3 DEF Day
<1> QED
  BY <1>3, <1>7, <1>8, <1>11, <1>12, <1>13
     DEF IndInv, AnchorsAgree, ApprovedUnderTradeLimit, Day
(* update_portfolio preserves it: the counters are reset only on a day on    *)
(* which nothing was recorded yet.                                           *)
LEMMA UpdateIndInv == IndInv /\ UpdatePortfolio => IndInv'
<1> SUFFICES ASSUME IndInv, UpdatePortfolio PROVE IndInv'
  OBVIOUS
<1> USE RiskAssumption
<1>1. /\ now \in 1 .. MaxTime /\ equity \in Equities /\ equity \in Nat
      /\ Day(now) \in Nat /\ lastDay \in Int
  BY DayType DEF IndInv, TypeOK
<1>2. UNCHANGED <<now, equity, held, entry, resetting, recorded, manual, resets>>
  BY DEF UpdatePortfolio, account
<1>3. last' = NoOrder /\ ~last'.approved
  BY DEF UpdatePortfolio, NoOrder
<1>4. /\ dayEquity' = sessionEquity'
      /\ dayEquity' \in Equities \cup {0}
      /\ dayDate' = dayDate \/ (dayDate = 0 /\ dayDate' = now)
  BY <1>1 DEF UpdatePortfolio, anchors, IndInv, TypeOK, AnchorsAgree
<1>5. /\ halted' \in BOOLEAN /\ seen' \subseteq Equities
      /\ peak' \in Equities \cup {0}
  BY <1>1 DEF UpdatePortfolio, IndInv, TypeOK
<1>6. \/ trades' = 0 /\ losses' = 0 /\ lastDay' = Day(now) /\ lastDay # Day(now)
      \/ UNCHANGED <<trades, losses, lastDay>>
  BY DEF UpdatePortfolio, counters
<1>7. /\ trades' \in 0 .. MaxTrades + 1 /\ losses' \in 0 .. MaxTrades + 1
      /\ lastDay' \in (-1) .. Day(now) /\ losses' <= trades'
  BY <1>1, <1>6 DEF IndInv, TypeOK
<1>8. dayDate' \in 0 .. now
  BY <1>1, <1>4 DEF IndInv, TypeOK
<1>9. Day(now)' = Day(now)
  BY <1>2 DEF Day
<1>10. TypeOK'
  BY <1>1, <1>2, <1>4, <1>5, <1>7, <1>8, <1>9 DEF IndInv, TypeOK
<1>11. /\ recorded > 0 => lastDay' = Day(now)
       /\ lastDay' = Day(now) => trades' <= recorded
       /\ lastDay' = Day(now) /\ trades' # recorded =>
            manual /\ (dayDate = 0 \/ Day(dayDate) = Day(now))
  BY <1>1, <1>6 DEF IndInv, TypeOK
<1>12. dayDate = 0 \/ Day(dayDate) = Day(now) => dayDate' = 0 \/ Day(dayDate') = Day(now)
  <2>1. CASE dayDate' = dayDate
    BY <2>1
  <2>2. CASE dayDate' = now
    BY <2>2
  <2> QED
    BY <1>4, <2>1, <2>2
<1>13. (lastDay = Day(now) /\ trades # recorded =>
         manual /\ (dayDate = 0 \/ Day(dayDate) = Day(now)))'
  <2>1. Day(dayDate)' = Day(dayDate')
    BY DEF Day
  <2>2. Day(now) = Day(now')
    BY <1>2
  <2> QED
    BY <1>2, <1>11, <1>12, <2>1, <2>2
<1>14. AnchorsAgree' /\ ApprovedUnderTradeLimit'
  BY <1>3, <1>4 DEF AnchorsAgree, ApprovedUnderTradeLimit
<1>15. (recorded > 0 => lastDay = Day(now))' /\ (lastDay = Day(now) => trades <= recorded)'
  BY <1>2, <1>9, <1>11
<1> QED
  BY <1>7, <1>10, <1>13, <1>14, <1>15 DEF IndInv

(* record_trade_result preserves it: on the first trade of a day the counter *)
(* begins anew, and from then on it moves with the trades recorded.          *)
LEMMA RecordIndInv ==
  ASSUME IndInv, NEW win \in BOOLEAN, RecordTradeResult(win)
  PROVE  IndInv'
<1> USE RiskAssumption
<1>1. /\ Day(now) \in Nat /\ lastDay \in Int
      /\ trades \in 0 .. MaxTrades + 1 /\ recorded \in 0 .. MaxTrades + 1
      /\ losses \in 0 .. MaxTrades + 1
  BY DayType DEF IndInv, TypeOK
<1>2. UNCHANGED <<now, equity, held, entry, peak, dayEquity, sessionEquity, dayDate,
                  resetting, seen, manual, resets>>
  BY DEF RecordTradeResult, account, anchors
<1>3. last' = NoOrder /\ ~last'.approved
  BY DEF RecordTradeResult, NoOrder
<1>4. recorded' = recorded + 1 /\ recorded' \in 0 .. MaxTrades + 1
  BY <1>1 DEF RecordTradeResult
<1>5. lastDay' = Day(now)
  BY DEF RecordTradeResult
<1>6. \/ lastDay # Day(now) /\ recorded = 0 /\ trades' = 1 /\ losses' \in {0, 1}
      \/ /\ lastDay = Day(now) /\ trades <= recorded /\ trades' = trades + 1
         /\ losses' \in {0, losses + 1}
  BY <1>1 DEF RecordTradeResult, IndInv
<1>7. /\ trades' \in 0 .. MaxTrades + 1 /\ losses' \in 0 .. MaxTrades + 1
      /\ trades' <= recorded' /\ losses' <= trades'
  BY <1>1, <1>4, <1>6 DEF IndInv
<1>8. halted' \in BOOLEAN
  BY DEF RecordTradeResult
<1>9. Day(now)' = Day(now) /\ Day(dayDate)' = Day(dayDate)
  BY <1>2 DEF Day
<1>10. TypeOK'
  BY <1>1, <1>2, <1>4, <1>5, <1>7, <1>8, <1>9 DEF IndInv, TypeOK
<1>11. trades' # recorded' => manual /\ (dayDate = 0 \/ Day(dayDate) = Day(now))
  BY <1>1, <1>4, <1>6 DEF IndInv
<1> QED
  BY <1>2, <1>3, <1>5, <1>7, <1>9, <1>10, <1>11
     DEF IndInv, AnchorsAgree, ApprovedUnderTradeLimit

(* The operator's resets preserve it: reset_day sets the mark the invariant  *)
(* asks for, and forgets the date.                                           *)
LEMMA ResetIndInv == IndInv /\ (ResetDay \/ ResetHalt \/ ResetHaltLocked) => IndInv'
<1> SUFFICES ASSUME IndInv, ResetDay \/ ResetHalt \/ ResetHaltLocked PROVE IndInv'
  OBVIOUS
<1> USE RiskAssumption
<1>1. /\ Day(now) \in Nat /\ lastDay \in Int /\ equity \in Equities
      /\ trades \in 0 .. MaxTrades + 1 /\ recorded \in 0 .. MaxTrades + 1
      /\ losses \in 0 .. MaxTrades + 1 /\ resets \in 0 .. MaxResets /\ now \in 1 .. MaxTime
  BY DayType DEF IndInv, TypeOK
<1>2. UNCHANGED <<now, equity, held, entry, peak, lastDay, seen, recorded>>
  BY DEF ResetDay, ResetHalt, ResetHaltLocked, account, counters
<1>3. last' = NoOrder /\ ~last'.approved
  BY DEF ResetDay, ResetHalt, ResetHaltLocked, NoOrder
<1>4. resets' \in 0 .. MaxResets /\ halted' \in BOOLEAN /\ resetting' \in BOOLEAN
  <2>1. resets' \in 0 .. MaxResets
    BY <1>1 DEF ResetDay, ResetHalt, ResetHaltLocked
  <2>2. halted \in BOOLEAN /\ resetting \in BOOLEAN
    BY DEF IndInv, TypeOK
  <2>3. (halted' = FALSE \/ halted' = halted) /\ (resetting' \in BOOLEAN \/ resetting' = resetting)
    BY DEF ResetDay, ResetHalt, ResetHaltLocked
  <2> QED
    BY <2>1, <2>2, <2>3
<1>5. Day(now)' = Day(now)
  BY <1>2 DEF Day
<1>6. CASE ResetDay
  <2>1. /\ dayEquity' = equity /\ sessionEquity' = equity /\ dayDate' = 0
        /\ trades' = 0 /\ losses' = 0 /\ manual' = TRUE
    BY <1>6 DEF ResetDay
  <2>2. TypeOK'
    BY <1>1, <1>2, <1>4, <1>5, <2>1 DEF IndInv, TypeOK
  <2> QED
    BY <1>1, <1>2, <1>3, <1>5, <2>1, <2>2
       DEF IndInv, AnchorsAgree, ApprovedUnderTradeLimit
<1>7. CASE ResetHalt \/ ResetHaltLocked
  <2>1. /\ UNCHANGED <<dayEquity, sessionEquity, dayDate, trades, manual>>
        /\ losses' \in {0, losses}
    BY <1>7 DEF ResetHalt, ResetHaltLocked, anchors, counters
  <2>2. TypeOK'
    BY <1>1, <1>2, <1>4, <1>5, <2>1 DEF IndInv, TypeOK
  <2>3. Day(dayDate)' = Day(dayDate)
    BY <2>1 DEF Day
  <2> QED
    BY <1>1, <1>2, <1>3, <1>5, <2>1, <2>2, <2>3
       DEF IndInv, AnchorsAgree, ApprovedUnderTradeLimit
<1> QED
  BY <1>6, <1>7

(* Time preserves it: on a new day nothing is recorded, and the day of the   *)
(* last trade is behind.                                                     *)
LEMMA TickIndInv == IndInv /\ Tick => IndInv'
<1> SUFFICES ASSUME IndInv, Tick PROVE IndInv'
  OBVIOUS
<1> USE RiskAssumption
<1>1. now \in 1 .. MaxTime /\ now' \in 1 .. MaxTime /\ now' = now + 1
  BY DEF IndInv, TypeOK, Tick
<1>2. Day(now) \in Nat /\ Day(now') \in Nat /\ Day(now) <= Day(now')
  <2>1. now \in Nat /\ now' \in Nat /\ now <= now'
    BY <1>1, RiskAssumption
  <2> QED
    BY <2>1, DayType, DayMonotone
<1>3. UNCHANGED <<held, entry, halted, peak, dayEquity, sessionEquity, dayDate, trades,
                  losses, lastDay, resetting, manual, resets>>
  BY DEF Tick, anchors, counters
<1>4. last' = NoOrder /\ ~last'.approved
  BY DEF Tick, NoOrder
<1>5. /\ equity' \in Equities /\ seen' \subseteq Equities
      /\ recorded' \in 0 .. MaxTrades + 1
      /\ Day(now') = Day(now) => recorded' = recorded
      /\ Day(now') # Day(now) => recorded' = 0
  BY DEF Tick, IndInv, TypeOK
<1>6. /\ lastDay \in (-1) .. Day(now) /\ entry \in 0 .. now /\ dayDate \in 0 .. now
  BY DEF IndInv, TypeOK
<1>7. Day(now)' = Day(now') /\ Day(dayDate)' = Day(dayDate)
  BY <1>3 DEF Day
<1>8. TypeOK'
  <2>1. lastDay \in (-1) .. Day(now') /\ entry \in 0 .. now' /\ dayDate \in 0 .. now'
    BY <1>1, <1>2, <1>6
  <2> QED
    BY <1>1, <1>3, <1>5, <1>7, <2>1 DEF IndInv, TypeOK
<1>9. CASE Day(now') = Day(now)
  BY <1>3, <1>4, <1>5, <1>7, <1>8, <1>9
     DEF IndInv, AnchorsAgree, ApprovedUnderTradeLimit
<1>10. CASE Day(now') # Day(now)
  <2>1. lastDay # Day(now')
    BY <1>2, <1>6, <1>10
  <2> QED
    BY <1>3, <1>4, <1>5, <1>7, <1>8, <1>10, <2>1
       DEF IndInv, AnchorsAgree, ApprovedUnderTradeLimit
<1> QED
  BY <1>9, <1>10

(* Every call, and the passing of time, keeps the invariant.                 *)
LEMMA StepIndInv == IndInv /\ [Next]_vars => IndInv'
<1> SUFFICES ASSUME IndInv, [Next]_vars PROVE IndInv'
  OBVIOUS
<1>1. CASE \E o \in Orders : CheckOrder(o)
  BY <1>1, CheckIndInv
<1>2. CASE UpdatePortfolio
  BY <1>2, UpdateIndInv
<1>3. CASE \E win \in BOOLEAN : RecordTradeResult(win)
  BY <1>3, RecordIndInv
<1>4. CASE ResetDay \/ ResetHalt \/ ResetHaltLocked
  BY <1>4, ResetIndInv
<1>5. CASE Tick
  BY <1>5, TickIndInv
<1>6. CASE UNCHANGED vars
  BY <1>6 DEF vars, account, anchors, counters, IndInv, TypeOK, AnchorsAgree,
              ApprovedUnderTradeLimit, Day
<1> QED
  BY <1>1, <1>2, <1>3, <1>4, <1>5, <1>6 DEF Next

(* The inductive invariant holds in every reachable state.                   *)
THEOREM InductiveInvariant == Spec => []IndInv
BY InitIndInv, StepIndInv, PTL DEF Spec

(* Every variable keeps its type; in particular the counters of              *)
(* record_trade_result never run past the trades recorded on one day.        *)
THEOREM TypeCorrect == Spec => []TypeOK
<1>1. IndInv => TypeOK
  BY DEF IndInv
<1> QED
  BY <1>1, InductiveInvariant, PTL

(* The baselines of the daily and of the session limit are always equal      *)
(* (check_order, update_portfolio, reset_day).                               *)
THEOREM BaselinesAgree == Spec => []AnchorsAgree
<1>1. IndInv => AnchorsAgree
  BY DEF IndInv
<1> QED
  BY <1>1, InductiveInvariant, PTL

(* check_order approves nothing once max_trades_per_day trades were recorded *)
(* that day, however the calls and the days interleave.                      *)
THEOREM TradeLimit == Spec => []ApprovedUnderTradeLimit
<1>1. IndInv => ApprovedUnderTradeLimit
  BY DEF IndInv
<1> QED
  BY <1>1, InductiveInvariant, PTL

(* check_order preserves AnchorInv: the first check of a day anchors it to   *)
(* the equity it sees, and the checks that follow find that anchor or a      *)
(* later one of the same day.                                                *)
LEMMA CheckAnchorInv ==
  ASSUME IndInv, AnchorInv, NEW o \in Orders, CheckOrder(o)
  PROVE  AnchorInv'
<1> USE RiskAssumption
<1> DEFINE newDay == dayDate > 0 /\ Day(now) # Day(dayDate)
           first == dayEquity <= 0
<1>1. /\ now \in Nat /\ now > 0 /\ equity \in Nat /\ dayDate \in Nat
      /\ dayEquity \in Nat /\ sessionEquity = dayEquity
  BY DEF IndInv, TypeOK, AnchorsAgree
<1>2. now' = now /\ equity' = equity
  BY DEF CheckOrder, CheckRefused, CheckLoss, CheckSize, Evaluate, account
<1>3. Day(now)' = Day(now) /\ \A t : (Day(t))' = Day(t')
  BY <1>2 DEF Day
<1>4. CASE CheckRefused(o)
  <2>1. /\ UNCHANGED <<dayEquity, sessionEquity, dayDate, seen, manual>>
        /\ ~last'.approved
    BY <1>4 DEF CheckRefused, anchors, NoOrder
  <2>2. Day(dayDate)' = Day(dayDate)
    BY <2>1 DEF Day
  <2> QED
    BY <1>3, <2>1, <2>2 DEF AnchorInv, AnchorsAreToday
<1>5. CASE CheckLoss(o) \/ CheckSize(o)
  <2>1. /\ dayEquity' = IF (newDay \/ first) /\ equity > 0 THEN equity ELSE dayEquity
        /\ sessionEquity' = IF (newDay \/ first) /\ equity > 0 THEN equity ELSE sessionEquity
        /\ dayDate' = IF newDay \/ (first /\ equity > 0) THEN now ELSE dayDate
        /\ ~manual' => newDay \/ ~manual
        /\ seen' = seen \cup {equity}
    BY <1>1, <1>5 DEF CheckLoss, CheckSize, Evaluate, AnchorDay
  <2>2. ASSUME ~manual', dayDate' = 0 PROVE dayEquity' = 0
    <3>1. ~newDay /\ dayDate = 0 /\ ~(first /\ equity > 0)
      BY <1>1, <2>1, <2>2
    <3>2. dayEquity = 0
      BY <2>1, <2>2, <3>1 DEF AnchorInv
    <3> QED
      BY <1>1, <2>1, <3>1, <3>2
  <2>3. ASSUME ~manual', dayDate' > 0, 0 \notin seen'
        PROVE  sessionEquity' \in seen'
    <3>1. equity > 0 /\ equity \in seen' /\ 0 \notin seen
      BY <1>1, <2>1, <2>3
    <3>2. CASE newDay \/ first
      BY <2>1, <3>1, <3>2
    <3>3. CASE ~newDay /\ ~first
      <4>1. ~manual /\ dayDate > 0 /\ Day(dayDate) = Day(now)
        BY <1>1, <2>1, <2>3, <3>3
      <4> QED
        BY <2>1, <3>1, <3>3, <4>1 DEF AnchorInv
    <3> QED
      BY <3>2, <3>3
  <2>4. ASSUME ~manual', 0 \notin seen' PROVE dayDate' > 0
    <3>1. equity > 0
      BY <1>1, <2>1, <2>4
    <3>2. CASE newDay \/ first
      BY <1>1, <2>1, <3>1, <3>2
    <3>3. CASE ~newDay /\ ~first
      BY <1>1, <2>1, <2>4, <3>3 DEF AnchorInv
    <3> QED
      BY <3>2, <3>3
  <2>5. last'.approved => ~Lost(sessionEquity', MaxIntradayLossPct)
    BY <1>5 DEF CheckLoss, CheckSize, NoOrder
  <2>6. Lost(sessionEquity, MaxIntradayLossPct)' <=> Lost(sessionEquity', MaxIntradayLossPct)
    BY <1>2 DEF Lost
  <2>7. AnchorsAreToday'
    BY <2>3, <2>4, <2>5, <2>6 DEF AnchorsAreToday
  <2> QED
    BY <2>2, <2>3, <2>7 DEF AnchorInv
<1> QED
  BY <1>4, <1>5 DEF CheckOrder

(* So do the other calls, which approve nothing: update_portfolio anchors    *)
(* only where there is no date, reset_day asks for nothing, and a new day is *)
(* never the day of an anchor that is already set.                           *)
LEMMA OtherAnchorInv ==
  ASSUME IndInv, AnchorInv,
         \/ UpdatePortfolio
         \/ \E win \in BOOLEAN : RecordTradeResult(win)
         \/ ResetDay \/ ResetHalt \/ ResetHaltLocked
         \/ Tick
  PROVE  AnchorInv'
<1> USE RiskAssumption
<1>1. /\ now \in Nat /\ now > 0 /\ equity \in Nat /\ dayDate \in Nat
      /\ dayDate <= now /\ dayEquity \in Nat /\ sessionEquity = dayEquity
  BY DEF IndInv, TypeOK, AnchorsAgree
<1>2. AnchorsAreToday'
  <2>1. last' = NoOrder
    BY DEF UpdatePortfolio, RecordTradeResult, ResetDay, ResetHalt, ResetHaltLocked, Tick
  <2> QED
    BY <2>1 DEF AnchorsAreToday, NoOrder
<1>3. CASE UpdatePortfolio
  <2>1. /\ UNCHANGED <<now, manual>> /\ seen' = seen \cup {equity}
        /\ \/ UNCHANGED <<dayEquity, sessionEquity, dayDate>> /\ dayDate > 0
           \/ /\ dayDate = 0 /\ dayDate' = now
              /\ dayEquity = 0 => sessionEquity' = equity
    BY <1>1, <1>3 DEF UpdatePortfolio, account, anchors
  <2>2. Day(now)' = Day(now) /\ Day(dayDate)' = Day(dayDate')
    BY <2>1 DEF Day
  <2> QED
    BY <1>1, <1>2, <2>1, <2>2 DEF AnchorInv
<1>4. CASE \E win \in BOOLEAN : RecordTradeResult(win)
  <2>1. UNCHANGED <<now, dayEquity, sessionEquity, dayDate, seen, manual>>
    BY <1>4 DEF RecordTradeResult, account, anchors
  <2>2. Day(now)' = Day(now) /\ Day(dayDate)' = Day(dayDate)
    BY <2>1 DEF Day
  <2> QED
    BY <1>2, <2>1, <2>2 DEF AnchorInv
<1>5. CASE ResetDay
  BY <1>2, <1>5 DEF AnchorInv, ResetDay
<1>6. CASE ResetHalt \/ ResetHaltLocked
  <2>1. UNCHANGED <<now, dayEquity, sessionEquity, dayDate, seen, manual>>
    BY <1>6 DEF ResetHalt, ResetHaltLocked, account, anchors
  <2>2. Day(now)' = Day(now) /\ Day(dayDate)' = Day(dayDate)
    BY <2>1 DEF Day
  <2> QED
    BY <1>2, <2>1, <2>2 DEF AnchorInv
<1>7. CASE Tick
  <2>1. /\ UNCHANGED <<dayEquity, sessionEquity, dayDate, manual>>
        /\ now' = now + 1
        /\ Day(now') = Day(now) => seen' = seen
    BY <1>7 DEF Tick, anchors
  <2>2. Day(now)' = Day(now') /\ Day(dayDate)' = Day(dayDate)
    BY <2>1 DEF Day
  <2>3. Day(dayDate) <= Day(now) /\ Day(now) <= Day(now')
    <3>1. now' \in Nat /\ now <= now'
      BY <1>1, <2>1
    <3> QED
      BY <1>1, <3>1, DayMonotone
  <2>4. Day(dayDate) \in Nat /\ Day(now) \in Nat /\ Day(now') \in Nat
    BY <1>1, <2>1, DayType
  <2>5. Day(dayDate) = Day(now') => seen' = seen /\ Day(dayDate) = Day(now)
    BY <2>1, <2>3, <2>4
  <2> QED
    BY <1>2, <2>1, <2>2, <2>5 DEF AnchorInv
<1> QED
  BY <1>3, <1>4, <1>5, <1>6, <1>7

(* An approved order is judged against an equity of the same day, and has    *)
(* not lost the session's limit against it (check_order), on every           *)
(* interleaving of checks, snapshots, halts, resets of halts and days.       *)
THEOREM JudgedByToday == Spec => []AnchorsAreToday
<1>1. Init => AnchorInv
  BY DEF Init, AnchorInv, AnchorsAreToday, NoOrder
<1>2. IndInv /\ AnchorInv /\ [Next]_vars => AnchorInv'
  <2> SUFFICES ASSUME IndInv, AnchorInv, [Next]_vars PROVE AnchorInv'
    OBVIOUS
  <2>1. CASE Next
    BY <2>1, CheckAnchorInv, OtherAnchorInv DEF Next
  <2>2. CASE UNCHANGED vars
    BY <2>2 DEF vars, account, anchors, AnchorInv, AnchorsAreToday, Day, Lost
  <2> QED
    BY <2>1, <2>2
<1>3. AnchorInv => AnchorsAreToday
  BY DEF AnchorInv
<1> QED
  BY <1>1, <1>2, <1>3, InductiveInvariant, PTL DEF Spec

(* After the deadline of the day an approved order closes a part or all of   *)
(* the position and never goes through flat (check_order's flat_deadline_ns  *)
(* with its closing test).                                                   *)
THEOREM DeadlineReduces == Spec => []AfterDeadlineOnlyReduces
<1>1. Init => AfterDeadlineOnlyReduces
  BY DEF Init, AfterDeadlineOnlyReduces, NoOrder
<1>2. IndInv /\ AfterDeadlineOnlyReduces /\ [Next]_vars => AfterDeadlineOnlyReduces'
  <2> SUFFICES ASSUME IndInv, AfterDeadlineOnlyReduces, [Next]_vars
               PROVE  AfterDeadlineOnlyReduces'
    OBVIOUS
  <2>1. ASSUME NEW o \in Orders, CheckSize(o), last'.approved
        PROVE  AfterDeadlineOnlyReduces'
    <3>1. /\ ~Refused(o) /\ now' = now
          /\ last'.before = held /\ last'.after = held + o.size
      BY <2>1 DEF CheckSize, Evaluate, NoOrder
    <3>2. held \in Int /\ o.size \in Int
      BY RiskAssumption DEF IndInv, TypeOK, Orders
    <3>3. AfterDeadline' => Reduces(o)
      BY <3>1 DEF AfterDeadline, Refused
    <3> QED
      BY <3>1, <3>2, <3>3 DEF AfterDeadlineOnlyReduces, Reduces, Abs
  <2>2. CASE ~last'.approved
    BY <2>2 DEF AfterDeadlineOnlyReduces
  <2>3. CASE UNCHANGED vars
    BY <2>3 DEF vars, account, AfterDeadlineOnlyReduces, AfterDeadline
  <2>4. ASSUME Next, ~\E o \in Orders : CheckSize(o) PROVE ~last'.approved
    BY <2>4 DEF Next, CheckOrder, CheckRefused, CheckLoss, UpdatePortfolio,
                RecordTradeResult, ResetDay, ResetHalt, ResetHaltLocked, Tick, NoOrder
  <2> QED
    BY <2>1, <2>2, <2>3, <2>4
<1> QED
  BY <1>1, <1>2, InductiveInvariant, PTL DEF Spec
=============================================================================
