---------------------------- MODULE HiveMindBridge ----------------------------
(***************************************************************************)
(* The Hive-Mind bridge: the quant daemon writes trade signals into a      *)
(* memory-mapped struct (run_daemon, quant_daemon.py) and the engine loop  *)
(* reads and trades them (engine_loop, main.cpp).  There is no lock.  The  *)
(* daemon writes the fields one after the other and the sequence number    *)
(* last; the engine loads the sequence number first and the fields         *)
(* afterwards, and does not look at it again.                              *)
(*                                                                         *)
(* A field holds the number of the scan that wrote it; what that scan      *)
(* signalled is kept beside.  Stores become visible in program order and   *)
(* loads are made in program order, as x86 guarantees and as the acquire   *)
(* loads of the engine require.  The struct is a file, so it outlives both *)
(* processes; last_seq and current_weights are the engine's own memory.    *)
(***************************************************************************)
EXTENDS Naturals, FiniteSets

CONSTANTS Assets,     (* the assets a publication gives weights to          *)
          MaxScans,   (* bound: scans that find a pair                      *)
          MaxCrashes, (* bound: how often the daemon is killed in a write   *)
          MaxStarts,  (* bound: how often the engine is started             *)
          MaxRuns     (* bound: executions of one signal by one process     *)

ASSUME BridgeAssumption ==
  /\ MaxScans \in Nat /\ MaxCrashes \in Nat /\ MaxStarts \in Nat
  /\ MaxRuns \in Nat /\ MaxRuns >= 4
  /\ IsFiniteSet(Assets)

Scans == 1 .. MaxScans
ScanOrNone == 0 .. MaxScans

VARIABLES
  sequence, signal, hedge, spread,  (* fields: sequence, statarb_signal,    *)
            (* statarb_hedge_ratio, statarb_spread_z                        *)
  weighted, (* the assets whose target_weights entry is set, not zero       *)
  wpc,      (* where the daemon is                                          *)
  scan,     (* the last scan of the daemon                                  *)
  trades,   (* history: the scans whose signal was not zero                 *)
  vetoed,   (* history: the scans the satellite feed vetoed                 *)
  announced,(* history: the scan each sequence number announced             *)
  torn,     (* history: a publication was cut short and none was made since *)
  crashes,  (* history: how often the daemon was killed in a write          *)
  up,       (* the engine runs                                              *)
  kill,     (* its kill switch                                              *)
  rpc,      (* where the engine loop is                                     *)
  lastSeq,  (* last_seq                                                     *)
  arbSig, beta, z,  (* its copies of the fields: arb_sig, beta, z           *)
  todo,     (* the assets the rebalancing loop has not reached              *)
  held,     (* the assets whose current_weights entry is the target         *)
  runs,     (* history: how often this process executed each scan's signal  *)
  calm,     (* history: nothing was being written since last_seq was stored *)
  starts    (* history: how often the engine was started                    *)

struct  == <<sequence, signal, hedge, spread, weighted>>
daemon  == <<wpc, scan, trades, vetoed, announced, torn, crashes>>
copies  == <<arbSig, beta, z>>
process == <<up, kill, starts>>
engine  == <<rpc, lastSeq, copies, todo, held, runs, calm>>
vars == <<struct, daemon, process, engine>>

Init ==
  /\ sequence = 0 /\ signal = 0 /\ hedge = 0 /\ spread = 0 /\ weighted = {}
  /\ wpc = "idle" /\ scan = 0
  /\ trades = {} /\ vetoed = {}
  /\ announced = [s \in ScanOrNone |-> 0]
  /\ torn = FALSE /\ crashes = 0
  /\ up = FALSE /\ kill = FALSE /\ starts = 0
  /\ rpc = "poll" /\ lastSeq = 0
  /\ arbSig = 0 /\ beta = 0 /\ z = 0
  /\ todo = {} /\ held = {}
  /\ runs = [j \in Scans |-> 0]
  /\ calm = TRUE
-----------------------------------------------------------------------------
(* The daemon.                                                               *)

(* Fault for ExecutedIsGenuine: the veto is printed and not obeyed. *)
ScanUnvetoed ==
  /\ wpc = "idle"
  /\ scan < MaxScans
  /\ scan' = scan + 1
  /\ \E tradeIt, veto \in BOOLEAN :
       /\ veto => tradeIt
       /\ trades' = IF tradeIt THEN trades \cup {scan'} ELSE trades
       /\ vetoed' = IF veto THEN vetoed \cup {scan'} ELSE vetoed
  /\ wpc' = "signal"
  /\ UNCHANGED <<struct, announced, torn, crashes, process, engine>>

(* scan_universe finds a best pair; its signal may be flat.  The satellite   *)
(* feed can only veto a signal that trades.                                  *)
Scan ==
  /\ wpc = "idle"
  /\ scan < MaxScans
  /\ scan' = scan + 1
  /\ \E tradeIt, veto \in BOOLEAN :
       /\ veto => tradeIt
       /\ trades' = IF tradeIt THEN trades \cup {scan'} ELSE trades
       /\ vetoed' = IF veto THEN vetoed \cup {scan'} ELSE vetoed
       /\ wpc' = IF veto THEN "idle" ELSE "signal"
  /\ UNCHANGED <<struct, announced, torn, crashes, process, engine>>

(* One store into the struct: nothing the engine is doing is calm then. *)
Store(from, to) ==
  /\ wpc = from
  /\ wpc' = to
  /\ calm' = FALSE
  /\ UNCHANGED <<scan, trades, vetoed, crashes, process, rpc, lastSeq, copies, todo, held, runs>>

WriteSignal ==
  /\ Store("signal", "hedge")
  /\ signal' = scan
  /\ UNCHANGED <<sequence, hedge, spread, weighted, announced, torn>>

WriteHedge ==
  /\ Store("hedge", "spread")
  /\ hedge' = scan
  /\ UNCHANGED <<sequence, signal, spread, weighted, announced, torn>>

WriteSpread ==
  /\ Store("spread", "weights")
  /\ spread' = scan
  /\ UNCHANGED <<sequence, signal, hedge, weighted, announced, torn>>

(* num_assets, the symbols, target_weights and regime_vol, the same ones     *)
(* every time: the first half of the assets can be visible before the rest.  *)
WriteWeight ==
  /\ \E a \in Assets \ weighted :
       /\ Store("weights", "weights")
       /\ weighted' = weighted \cup {a}
  /\ UNCHANGED <<sequence, signal, hedge, spread, announced, torn>>

(* sequence += 1 *)
Announce ==
  /\ weighted = Assets
  /\ Store("weights", "idle")
  /\ sequence' = sequence + 1
  /\ announced' = [announced EXCEPT ![sequence'] = scan]
  /\ torn' = FALSE
  /\ UNCHANGED <<signal, hedge, spread, weighted>>

(* The daemon is killed while it writes, and started again: a file of the    *)
(* right size is kept as it is.                                              *)
DaemonCrash ==
  /\ wpc # "idle"
  /\ crashes < MaxCrashes
  /\ crashes' = crashes + 1
  /\ wpc' = "idle"
  /\ torn' = TRUE
  /\ UNCHANGED <<struct, scan, trades, vetoed, announced, process, engine>>

Publish == WriteSignal \/ WriteHedge \/ WriteSpread \/ WriteWeight \/ Announce
-----------------------------------------------------------------------------
(* The engine. *)

Start ==
  /\ ~up
  /\ starts < MaxStarts
  /\ starts' = starts + 1
  /\ up' = TRUE /\ kill' = FALSE
  /\ rpc' = "poll" /\ lastSeq' = 0
  /\ arbSig' = 0 /\ beta' = 0 /\ z' = 0
  /\ todo' = {} /\ held' = {}
  /\ runs' = [j \in Scans |-> 0]
  /\ calm' = TRUE
  /\ UNCHANGED <<struct, daemon>>

Stop ==
  /\ up
  /\ up' = FALSE
  /\ UNCHANGED <<struct, daemon, kill, starts, engine>>

(* The telemetry thread raises the switch (module KillSwitch). *)
Halt ==
  /\ up /\ ~kill
  /\ kill' = TRUE
  /\ UNCHANGED <<struct, daemon, up, starts, engine>>

At(l) == up /\ rpc = l

(* Fault for AtMostThrice: the sequence number is not remembered. *)
PollForgetful ==
  /\ At("poll")
  /\ sequence # lastSeq
  /\ calm' = (wpc = "idle" /\ ~torn)
  /\ rpc' = "signal"
  /\ UNCHANGED <<struct, daemon, process, lastSeq, copies, todo, held, runs>>

(* After an event was popped: an unchanged sequence number means no work. *)
Poll ==
  /\ At("poll")
  /\ sequence # lastSeq
  /\ lastSeq' = sequence
  /\ calm' = (wpc = "idle" /\ ~torn)
  /\ rpc' = "signal"
  /\ UNCHANGED <<struct, daemon, process, copies, todo, held, runs>>

ReadSignal ==
  /\ At("signal")
  /\ arbSig' = signal
  /\ rpc' = "gate"
  /\ UNCHANGED <<struct, daemon, process, lastSeq, beta, z, todo, held, runs, calm>>

(* arb_sig != 0 && !kill_switch: otherwise this publication's pair is never  *)
(* looked at again.                                                          *)
Gate ==
  /\ At("gate")
  /\ IF arbSig \in trades /\ ~kill
     THEN rpc' = "hedge" /\ UNCHANGED todo
     ELSE rpc' = "rebalance" /\ todo' = Assets
  /\ UNCHANGED <<struct, daemon, process, lastSeq, copies, held, runs, calm>>

(* Fault for TornNeedsOverlap: beta is kept from the first trade. *)
ReadHedgeOnce ==
  /\ At("hedge")
  /\ beta' = IF beta = 0 THEN hedge ELSE beta
  /\ rpc' = "spread"
  /\ UNCHANGED <<struct, daemon, process, lastSeq, arbSig, z, todo, held, runs, calm>>

ReadHedge ==
  /\ At("hedge")
  /\ beta' = hedge
  /\ rpc' = "spread"
  /\ UNCHANGED <<struct, daemon, process, lastSeq, arbSig, z, todo, held, runs, calm>>

ReadSpread ==
  /\ At("spread")
  /\ z' = spread
  /\ rpc' = "trade"
  /\ UNCHANGED <<struct, daemon, process, lastSeq, arbSig, beta, todo, held, runs, calm>>

(* Both legs are filled, counted and audited. *)
TradePair ==
  /\ At("trade")
  /\ runs[arbSig] < MaxRuns
  /\ runs' = [runs EXCEPT ![arbSig] = @ + 1]
  /\ rpc' = "rebalance"
  /\ todo' = Assets
  /\ UNCHANGED <<struct, daemon, process, lastSeq, copies, held, calm>>

(* One turn of the rebalancing loop: an asset whose target differs from what *)
(* is held is bought unless the switch is up or the price makes the order    *)
(* too small (shares > 10).                                                  *)
Rebalance ==
  /\ At("rebalance")
  /\ \E a \in todo :
       /\ todo' = todo \ {a}
       /\ \/ held' = held
          \/ a \in weighted \ held /\ ~kill /\ held' = held \cup {a}
  /\ UNCHANGED <<struct, daemon, process, rpc, lastSeq, copies, runs, calm>>

(* Fault for AnnouncedIsExecuted: the sequence number that is remembered is  *)
(* the one found at the end, not the one that was acted on.                  *)
FinishReloading ==
  /\ At("rebalance")
  /\ todo = {}
  /\ rpc' = "poll"
  /\ lastSeq' = sequence
  /\ UNCHANGED <<struct, daemon, process, copies, todo, held, runs, calm>>

Finish ==
  /\ At("rebalance")
  /\ todo = {}
  /\ rpc' = "poll"
  /\ UNCHANGED <<struct, daemon, process, lastSeq, copies, todo, held, runs, calm>>

EngineLoop ==
  Poll \/ ReadSignal \/ Gate \/ ReadHedge \/ ReadSpread \/ TradePair \/ Rebalance \/ Finish

Next ==
  \/ Scan \/ Publish \/ DaemonCrash
  \/ Start \/ Stop \/ Halt
  \/ EngineLoop

(* The generator feeds the engine loop events for as long as it runs, and    *)
(* each of them polls the bridge.                                            *)
Fairness == WF_vars(EngineLoop)

Spec == Init /\ [][Next]_vars
FairSpec == Spec /\ Fairness
-----------------------------------------------------------------------------
(* Properties. *)

(* Every variable has its type; the engine's copies never come from a scan    *)
(* that was not made, nor lastSeq from a number not yet announced.           *)
TypeOK ==
  /\ sequence \in ScanOrNone /\ signal \in ScanOrNone
  /\ hedge \in ScanOrNone /\ spread \in ScanOrNone
  /\ weighted \subseteq Assets
  /\ wpc \in {"idle", "signal", "hedge", "spread", "weights"}
  /\ scan \in ScanOrNone
  /\ trades \subseteq Scans /\ vetoed \subseteq trades
  /\ announced \in [ScanOrNone -> ScanOrNone]
  /\ torn \in BOOLEAN /\ crashes \in 0 .. MaxCrashes
  /\ up \in BOOLEAN /\ kill \in BOOLEAN /\ starts \in 0 .. MaxStarts
  /\ rpc \in {"poll", "signal", "gate", "hedge", "spread", "trade", "rebalance"}
  /\ lastSeq \in 0 .. sequence
  /\ arbSig \in 0 .. scan /\ beta \in 0 .. scan /\ z \in 0 .. scan
  /\ todo \subseteq Assets /\ held \subseteq Assets
  /\ runs \in [Scans -> 0 .. MaxRuns]
  /\ calm \in BOOLEAN

(* Although nothing locks the struct, the engine never trades a signal older *)
(* than the one that the sequence number it reacts to announced, and never   *)
(* one that was flat or vetoed (main.cpp, the acquire load of sequence;      *)
(* quant_daemon.py, the store order and the veto).                           *)
ExecutedIsGenuine ==
  At("trade") =>
    /\ arbSig >= announced[lastSeq]
    /\ beta >= announced[lastSeq] /\ z >= announced[lastSeq]
    /\ arbSig \in trades \ vetoed

(* One process trades one signal at most three times: as the early signal of *)
(* two older sequence numbers, and under its own.                            *)
AtMostThrice == \A j \in Scans : runs[j] <= 3

(* Signal, hedge ratio and z-score of different scans are only mixed when    *)
(* the daemon wrote while the engine read, or was killed in the middle of a  *)
(* publication and has made none since.                                      *)
TornNeedsOverlap == At("trade") /\ calm => arbSig = beta /\ beta = z

(* The inductive strengthening of ExecutedIsGenuine: what the daemon has      *)
(* written of a scan at each of its places, that it never writes a vetoed    *)
(* one, and that no field is older than what was announced before ...        *)
Writing == {"hedge", "spread", "weights"}
Reading == {"gate", "hedge", "spread", "trade"}

FieldsReach(j) == signal >= j /\ hedge >= j /\ spread >= j

DaemonInv ==
  /\ signal <= scan /\ hedge <= scan /\ spread <= scan
  /\ sequence <= scan /\ (wpc # "idle" => sequence < scan)
  /\ wpc = "signal" => signal < scan
  /\ wpc \in Writing => signal = scan
  /\ wpc \in {"spread", "weights"} => hedge = scan
  /\ wpc = "weights" => spread = scan
  /\ wpc = "idle" /\ ~torn => signal = hedge /\ hedge = spread
  /\ trades \subseteq 1 .. scan /\ vetoed \subseteq trades
  /\ signal \notin vetoed /\ (wpc # "idle" => scan \notin vetoed)
  /\ announced[0] = 0 /\ FieldsReach(announced[sequence])

(* ... and that the engine reads nothing older either. *)
EngineInv ==
  /\ FieldsReach(announced[lastSeq])
  /\ arbSig <= signal /\ arbSig \notin vetoed
  /\ rpc \in Reading => arbSig >= announced[lastSeq]
  /\ rpc \in Reading \ {"gate"} => arbSig \in trades
  /\ rpc \in {"spread", "trade"} => beta >= announced[lastSeq]
  /\ rpc = "trade" => z >= announced[lastSeq]

(* The strengthening of TornNeedsOverlap: while nothing is written, the       *)
(* fields agree and the copies are the fields.                               *)
CalmInv ==
  calm =>
    /\ rpc \in {"signal"} \cup Reading => signal = hedge /\ hedge = spread
    /\ rpc \in Reading => arbSig = signal
    /\ rpc \in {"spread", "trade"} => beta = hedge
    /\ rpc = "trade" => z = spread

(* The strengthening of AtMostThrice: the trades of a signal and those it can *)
(* still have.  A signal that is being read is one; only the signal that is  *)
(* in the struct can be picked up again, for a sequence number that is       *)
(* already there and for the one its publication has still to announce.      *)
Unread == IF lastSeq # sequence THEN 1 ELSE 0
Unannounced == IF wpc \in Writing THEN 1 ELSE 0
Underway(j) ==
  IF (rpc = "signal" /\ signal = j) \/ (rpc \in Reading /\ arbSig = j) THEN 1 ELSE 0

RunsInv ==
  \A j \in Scans :
    /\ signal = j => runs[j] + Underway(j) + Unread + Unannounced <= 3
    /\ signal > j => runs[j] + Underway(j) <= 3
    /\ signal < j => runs[j] = 0

(* A signal that was announced is traded, unless the next one overwrites it, *)
(* the switch is raised or the engine stops.                                 *)
AnnouncedIsExecuted ==
  \A j \in Scans :
    (up /\ sequence > 0 /\ announced[sequence] = j /\ j \in trades)
      ~> (runs[j] > 0 \/ signal # j \/ kill \/ ~up)
=============================================================================
