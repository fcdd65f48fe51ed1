------------------------------ MODULE KillSwitch ------------------------------
(***************************************************************************)
(* The kill switch, from the operator's button to the last order.  The web *)
(* backend and the surveillance daemon request a halt by writing the file  *)
(* data/surveillance_halt.flag (ops.py, surveillance_daemon.py); the       *)
(* telemetry thread of the engine polls for it, raises the switch, removes *)
(* the file and publishes a snapshot (InstitutionalOps::check_surveillance *)
(* and telemetry_loop); the threads that trade test the switch before each *)
(* order and act afterwards (route_order, engine_loop).                    *)
(*                                                                         *)
(* Each step below is one access to something shared: the flag file, one   *)
(* of the two atomics, or the telemetry file.  The engine can be killed    *)
(* and started again between any two of them; the switch lives in its      *)
(* memory, the two files do not.                                           *)
(***************************************************************************)
EXTENDS Naturals

CONSTANTS Traders,   (* the threads that test the switch and then trade     *)
          MaxKills,  (* bound: how many halts are requested                 *)
          MaxHaltResets, (* bound: how many resets are requested            *)
          MaxStarts, (* bound: how often the engine is started              *)
          MaxFails,  (* bound: how often the telemetry cannot be renamed    *)
          MaxLate    (* bound: orders counted after the switch was raised   *)

ASSUME KillAssumption ==
  /\ MaxKills \in Nat /\ MaxHaltResets \in Nat /\ MaxStarts \in Nat /\ MaxFails \in Nat
  /\ MaxLate \in Nat /\ MaxLate >= 2

VARIABLES
  flag,     (* surveillance_halt.flag exists                               *)
  up,       (* the engine process runs                                     *)
  halt,     (* regulatory_halt                                             *)
  kill,     (* kill_switch                                                 *)
  tpc,      (* where the telemetry thread is                               *)
  snap,     (* the kill_switch and regulatory_halt it is about to publish  *)
  shown,    (* the ones nexus_live.json holds                              *)
  pc,       (* each trading thread: at the test of the switch or past it   *)
  apc,      (* the backend's reset handler: between exists and remove      *)
  answer,   (* the last answer of the backend                              *)
  asked,    (* history: the last request that was granted               *)
  pending,  (* history: a halt was requested, no process has acted on it   *)
  late,     (* history: orders of each thread since the switch was raised  *)
  kills, haltResets, starts, fails  (* history: how often each happened    *)

files   == <<flag, shown>>
switch  == <<halt, kill>>
poller  == <<tpc, snap>>
traders == <<pc, late>>
backend == <<apc, answer>>
wanted  == <<asked, pending>>
counts  == <<kills, haltResets, starts, fails>>
switchVars == <<files, switch, poller, traders, backend, up, wanted, counts>>

Quiet == [kill |-> FALSE, halt |-> FALSE]

SwitchInit ==
  /\ flag = FALSE
  /\ up = FALSE
  /\ halt = FALSE /\ kill = FALSE
  /\ tpc = "sleep"
  /\ snap = Quiet /\ shown = Quiet
  /\ pc = [t \in Traders |-> "test"]
  /\ apc = "idle" /\ answer = "none"
  /\ asked = "none" /\ pending = FALSE
  /\ late = [t \in Traders |-> 0]
  /\ kills = 0 /\ haltResets = 0 /\ starts = 0 /\ fails = 0
-----------------------------------------------------------------------------
(* The engine process. *)

(* A new process: the switch is down, whatever it was before. *)
Start ==
  /\ ~up
  /\ starts < MaxStarts
  /\ up' = TRUE
  /\ starts' = starts + 1
  /\ halt' = FALSE /\ kill' = FALSE
  /\ tpc' = "sleep"
  /\ snap' = Quiet
  /\ pc' = [t \in Traders |-> "test"]
  /\ late' = [t \in Traders |-> 0]
  /\ UNCHANGED <<files, backend, wanted, kills, haltResets, fails>>

(* The process is stopped or killed; what its memory held is gone. *)
Stop ==
  /\ up
  /\ up' = FALSE
  /\ halt' = FALSE /\ kill' = FALSE
  /\ UNCHANGED <<files, poller, traders, backend, wanted, counts>>

At(l) == up /\ tpc = l

(* check_surveillance: returns if already halted, otherwise tries to open    *)
(* the flag.  Without it the thread goes on to the snapshot.                 *)
CheckFlag ==
  /\ At("sleep")
  /\ tpc' = IF ~halt /\ flag THEN "halt" ELSE "snap"
  /\ UNCHANGED <<files, switch, snap, traders, backend, up, wanted, counts>>

(* Fault for NoKillForgotten: the file is removed before the switch is up. *)
StoreHaltAndRemove ==
  /\ At("halt")
  /\ halt' = TRUE
  /\ flag' = FALSE
  /\ tpc' = "kill"
  /\ UNCHANGED <<shown, kill, snap, traders, backend, up, wanted, counts>>

StoreHalt ==
  /\ At("halt")
  /\ halt' = TRUE
  /\ tpc' = "kill"
  /\ UNCHANGED <<files, kill, snap, traders, backend, up, wanted, counts>>

(* Fault for KillTakesEffect: the engine's switch is not raised. *)
StoreHaltOnly ==
  /\ At("kill")
  /\ tpc' = "remove"
  /\ UNCHANGED <<files, switch, snap, traders, backend, up, wanted, counts>>

StoreKill ==
  /\ At("kill")
  /\ kill' = TRUE
  /\ pending' = FALSE
  /\ tpc' = "remove"
  /\ UNCHANGED <<files, halt, snap, traders, backend, up, asked, counts>>

RemoveFlag ==
  /\ At("remove")
  /\ flag' = FALSE
  /\ tpc' = "snap"
  /\ UNCHANGED <<shown, switch, snap, traders, backend, up, wanted, counts>>

(* telemetry_loop reads the atomics into the document ... *)
Snapshot ==
  /\ At("snap")
  /\ snap' = [kill |-> kill, halt |-> halt]
  /\ tpc' = "publish"
  /\ UNCHANGED <<files, switch, traders, backend, up, wanted, counts>>

(* Fault for DashboardCatchesUp: the new document stays in the temporary file. *)
PublishTemporary ==
  /\ At("publish")
  /\ tpc' = "sleep"
  /\ UNCHANGED <<files, snap, switch, traders, backend, up, wanted, counts>>

(* ... writes it to a temporary file and renames that over the old one; a    *)
(* rename that fails is logged, and the old document stays.                  *)
Publish ==
  /\ At("publish")
  /\ \/ shown' = snap /\ UNCHANGED fails
     \/ fails < MaxFails /\ fails' = fails + 1 /\ UNCHANGED shown
  /\ tpc' = "sleep"
  /\ UNCHANGED <<flag, snap, switch, traders, backend, up, wanted, kills, haltResets, starts>>

Telemetry == CheckFlag \/ StoreHalt \/ StoreKill \/ RemoveFlag \/ Snapshot \/ Publish
-----------------------------------------------------------------------------
(* The threads that trade: the generator, which routes orders, and the       *)
(* engine loop, which trades the pair and rebalances.                        *)

Goto(t, l) == pc' = [pc EXCEPT ![t] = l]

(* Fault for AtMostOneLateOrder: a thread that does not test the switch. *)
TestNothing(t) ==
  /\ up /\ pc[t] = "test"
  /\ Goto(t, "act")
  /\ UNCHANGED <<files, switch, poller, late, backend, up, wanted, counts>>

(* if (kill_switch.load()) return, or skip the order *)
Test(t) ==
  /\ up /\ pc[t] = "test"
  /\ ~kill
  /\ Goto(t, "act")
  /\ UNCHANGED <<files, switch, poller, late, backend, up, wanted, counts>>

Act(t) ==
  /\ up /\ pc[t] = "act"
  /\ kill => late[t] < MaxLate
  /\ late' = IF kill THEN [late EXCEPT ![t] = @ + 1] ELSE late
  /\ Goto(t, "test")
  /\ UNCHANGED <<files, switch, poller, backend, up, wanted, counts>>
-----------------------------------------------------------------------------
(* Those who request a halt or a reset. *)

(* What writing the flag leaves; open(..., "w") truncates one that exists. *)
Request ==
  /\ kills < MaxKills
  /\ kills' = kills + 1
  /\ flag' = TRUE
  /\ asked' = "halt"
  /\ pending' = ~kill

(* POST /api/ops/kill_switch: the backend's handlers do not overlap. *)
TriggerKill ==
  /\ apc = "idle"
  /\ Request
  /\ answer' = "HALTED"
  /\ UNCHANGED <<shown, switch, poller, traders, apc, up, haltResets, starts, fails>>

(* The surveillance daemon's drill, in a process of its own. *)
Drill ==
  /\ Request
  /\ UNCHANGED <<shown, switch, poller, traders, backend, up, haltResets, starts, fails>>

(* POST /api/ops/reset: looks for the flag first ... *)
ResetExists ==
  /\ apc = "idle"
  /\ haltResets < MaxHaltResets
  /\ haltResets' = haltResets + 1
  /\ IF flag
     THEN apc' = "remove" /\ UNCHANGED <<answer, asked>>
     ELSE answer' = "RESET" /\ asked' = "reset" /\ UNCHANGED apc
  /\ UNCHANGED <<files, switch, poller, traders, up, pending, kills, starts, fails>>

(* ... and then removes it; if the engine was faster, os.remove raises and   *)
(* the request fails.                                                        *)
ResetRemove ==
  /\ apc = "remove"
  /\ apc' = "idle"
  /\ flag' = FALSE
  /\ pending' = FALSE
  /\ IF flag
     THEN answer' = "RESET" /\ asked' = "reset"
     ELSE answer' = "error" /\ UNCHANGED asked
  /\ UNCHANGED <<shown, switch, poller, traders, up, counts>>

Backend == TriggerKill \/ ResetExists \/ ResetRemove

SwitchNext ==
  \/ Start \/ Stop
  \/ Telemetry
  \/ \E t \in Traders : Test(t) \/ Act(t)
  \/ Backend \/ Drill

(* Threads of a running engine keep running, and a handler that was called   *)
(* returns; nobody has to press a button or to stop or start the engine.     *)
Fairness ==
  /\ WF_switchVars(Telemetry)
  /\ \A t \in Traders : WF_switchVars(Test(t) \/ Act(t))
  /\ WF_switchVars(ResetRemove)

SwitchSpec == SwitchInit /\ [][SwitchNext]_switchVars
SwitchFairSpec == SwitchSpec /\ Fairness
-----------------------------------------------------------------------------
(* Properties. *)

Snapshots == [kill : BOOLEAN, halt : BOOLEAN]

(* Every variable has its type, and a process that is gone holds no switch.   *)
SwitchTypeOK ==
  /\ flag \in BOOLEAN /\ up \in BOOLEAN
  /\ halt \in BOOLEAN /\ kill \in BOOLEAN
  /\ tpc \in {"sleep", "halt", "kill", "remove", "snap", "publish"}
  /\ snap \in Snapshots /\ shown \in Snapshots
  /\ pc \in [Traders -> {"test", "act"}]
  /\ apc \in {"idle", "remove"}
  /\ answer \in {"none", "HALTED", "RESET", "error"}
  /\ asked \in {"none", "halt", "reset"} /\ pending \in BOOLEAN
  /\ late \in [Traders -> 0 .. MaxLate]
  /\ kills \in 0 .. MaxKills /\ haltResets \in 0 .. MaxHaltResets /\ starts \in 0 .. MaxStarts
  /\ fails \in 0 .. MaxFails
  /\ ~up => ~kill /\ ~halt

(* After the switch is raised each trading thread completes at most the one  *)
(* order whose test it had already passed (institutional_ops.h route_order,  *)
(* and the two tests in engine_loop).                                        *)
AtMostOneLateOrder == \A t \in Traders : late[t] <= 1

(* A halt that was requested and neither acted on nor reset still has its    *)
(* file, also when the engine dies in the middle of check_surveillance: the  *)
(* file is removed only after the switch is up, so the next process halts.   *)
NoKillForgotten == pending => flag

(* The inductive strengthening of the two, and of ShownStays below.  The     *)
(* thread that tests is one order late at most because a late thread is back *)
(* at its test; the flag outlives the stores because only a raised switch    *)
(* lets the telemetry thread remove it; and what that thread is about to     *)
(* publish is still true, as nobody else raises the switch.                  *)
SwitchInv ==
  /\ SwitchTypeOK
  /\ \A t \in Traders :
       /\ late[t] <= 1
       /\ late[t] = 1 => pc[t] = "test"
       /\ late[t] = 1 /\ up => kill
  /\ pending => flag
  /\ kill => ~pending
  /\ up /\ tpc = "remove" => kill
  /\ up /\ kill => halt
  /\ up /\ tpc = "kill" => halt
  /\ up /\ halt /\ ~kill => tpc = "kill"
  /\ up /\ tpc = "publish" => snap = [kill |-> kill, halt |-> halt]

(* The button works: a running engine acts on a requested halt, unless a     *)
(* reset takes the request back first (ops.py, trigger_kill and reset_ops;   *)
(* check_surveillance).                                                      *)
KillTakesEffect == pending /\ up ~> ~pending \/ ~up

(* The telemetry file says of the switch what is true: both documents it     *)
(* shows, kill_switch and regulatory_halt, follow the switch.                *)
Agrees == shown = [kill |-> kill, halt |-> kill]

(* What the file says of the switch stays true while the switch stays as it  *)
(* is, through stops, starts and failed renames: no document taken before    *)
(* the switch changed is published after one that shows the change.          *)
ShownStays == [][Agrees /\ kill' = kill => Agrees']_switchVars

(* The dashboard reads nexus_live.json: while the engine runs, what it says  *)
(* of the switch becomes true, unless the switch changes first or the engine *)
(* ends, and from then on stays true for as long as the switch stays as it   *)
(* is, though the file outlives the engine and renames may fail (MaxFails    *)
(* times).                                                                   *)
DashboardCatchesUp ==
  /\ \A k \in BOOLEAN : up /\ kill = k ~> (Agrees /\ kill = k) \/ kill # k \/ ~up
  /\ ShownStays

(* What the daemon ("Reset is handled via API") and the button "Reset        *)
(* System" say: after a reset that is not followed by a halt, the engine     *)
(* trades again.                                                             *)
ResetResumes == asked = "reset" ~> ~kill \/ asked = "halt"
=============================================================================
