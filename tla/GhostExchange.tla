---------------------------- MODULE GhostExchange ----------------------------
(***************************************************************************)
(* The ghost exchange (ghost_exchange.h): the web backend leaves a request *)
(* in a trigger file, the engine's ghost thread (main.cpp, from            *)
(* ghost_stress_test_loop on) takes it and starts a thread that simulates  *)
(* the execution.  The engine may be killed between any two steps, or be   *)
(* told to stop, and started again; the file stays.                        *)
(*                                                                         *)
(* A request is a number; prices, volatility and slippage decide nothing   *)
(* but the numbers on the dashboard and are left out, except whether there *)
(* is a price at all.                                                      *)
(***************************************************************************)
EXTENDS Integers, FiniteSets

CONSTANTS Shares,       (* bound: the sizes that are asked for             *)
          MinChild,     (* the smallest child order, 100                   *)
          Slices,       (* the number of child orders of a large one, 50   *)
          MaxRequests,  (* bound: requests                                 *)
          MaxStarts     (* bound: starts of the engine                     *)

ASSUME GhostAssumption ==
  /\ Shares \subseteq Nat \ {0}
  /\ MinChild \in Nat \ {0} /\ Slices \in Nat \ {0}
  /\ MaxRequests \in Nat /\ MaxStarts \in Nat

Requests == 1 .. MaxRequests

VARIABLES
  trigger,    (* data/ghost_trigger.json: a request, 0 for no file          *)
  size,       (* the shares of each request                                 *)
  engine,     (* up, stopping, and how it ended: clean, aborted, killed     *)
  loop,       (* where ghost_stress_test_loop is: poll, found, read,        *)
              (* removed, joining, left                                     *)
  held,       (* the request it has read                                    *)
  quoted,     (* last_price is positive                                     *)
  active,     (* reality.is_active                                          *)
  sim,        (* ghost_sim_thread: none, spawned, running                   *)
  target, filled,  (* reality.target_shares and filled_shares               *)
  requests,   (* history: requests made                                     *)
  starts,     (* history: starts of the engine                              *)
  served,     (* history: how often each request was started                *)
  forgotten,  (* history: requests whose file was removed when the engine   *)
              (* was killed, before their simulation was started            *)
  clash       (* history: a request met an earlier one                      *)

ghostVars == <<trigger, size, engine, loop, held, quoted, active, sim, target,
               filled, requests, starts, served, forgotten, clash>>
web     == <<trigger, size, requests>>
thread  == <<active, sim, target, filled>>
process == <<engine, loop, held, quoted, starts>>

GhostInit ==
  /\ trigger = 0 /\ size = [r \in Requests |-> 0]
  /\ engine = "up" /\ loop = "poll" /\ held = 0 /\ quoted = FALSE
  /\ active = FALSE /\ sim = "none" /\ target = 0 /\ filled = 0
  /\ requests = 0 /\ starts = 1
  /\ served = [r \in Requests |-> 0] /\ forgotten = {} /\ clash = FALSE

Alive == engine \in {"up", "stopping"}
-----------------------------------------------------------------------------
(* The web backend: the file is replaced as a whole.  The request meets an   *)
(* earlier one in the file, in the hands of the engine's thread, or in a     *)
(* simulation that is not active yet; beyond an active one it waits.         *)
GhostExecute(n) ==
  /\ requests < MaxRequests
  /\ requests' = requests + 1
  /\ trigger' = requests + 1
  /\ size' = [size EXCEPT ![requests + 1] = n]
  /\ clash' = (clash \/ trigger # 0 \/ (Alive /\ (held # 0 \/ sim = "spawned")))
  /\ UNCHANGED <<process, thread, served, forgotten>>

(* The first event with a price reaches last_price. *)
Quote ==
  /\ Alive /\ ~quoted
  /\ quoted' = TRUE
  /\ UNCHANGED <<web, engine, loop, held, starts, thread, served, forgotten, clash>>
-----------------------------------------------------------------------------
(* ghost_stress_test_loop. *)

Step(from, to) == Alive /\ loop = from /\ loop' = to

(* Nothing is polled while an execution is active, which is forever. *)
FindTrigger ==
  /\ Step("poll", "found")
  /\ engine = "up" /\ ~active /\ trigger # 0
  /\ UNCHANGED <<web, engine, held, quoted, starts, thread, served, forgotten, clash>>

ReadTrigger ==
  /\ Step("found", "read")
  /\ held' = trigger
  /\ UNCHANGED <<web, engine, quoted, starts, thread, served, forgotten, clash>>

(* Without a price the file is left for the next poll. *)
PutOff ==
  /\ Step("read", "poll")
  /\ ~quoted
  /\ held' = 0
  /\ UNCHANGED <<web, engine, quoted, starts, thread, served, forgotten, clash>>

(* Fault for RequestsAreServedOnce: the file stays until the next request.    *)
LeaveTrigger ==
  /\ Step("read", "removed")
  /\ quoted
  /\ UNCHANGED <<web, engine, held, quoted, starts, thread, served, forgotten, clash>>

(* The file is removed, whichever request it holds by now. *)
RemoveTrigger ==
  /\ Step("read", "removed")
  /\ quoted
  /\ trigger' = 0
  /\ UNCHANGED <<size, requests, engine, held, quoted, starts, thread, served, forgotten, clash>>

(* trigger_ghost_execution starts the simulation's thread; is_active is set  *)
(* by that thread only.                                                      *)
Spawn ==
  /\ Step("removed", "poll")
  /\ ~active /\ sim = "none"
  /\ sim' = "spawned"
  /\ served' = [served EXCEPT ![held] = @ + 1]
  /\ target' = size[held]
  /\ held' = 0
  /\ UNCHANGED <<web, engine, quoted, starts, active, filled, forgotten, clash>>

(* The thread of an earlier request has become active by now: this one is    *)
(* dropped, its file already removed.                                        *)
DropRequest ==
  /\ Step("removed", "poll")
  /\ active
  /\ held' = 0
  /\ UNCHANGED <<web, engine, quoted, starts, thread, served, forgotten, clash>>

(* Or it has not: it is joined, and does not end.                            *)
JoinForever ==
  /\ Step("removed", "joining")
  /\ ~active /\ sim # "none"
  /\ UNCHANGED <<web, engine, held, quoted, starts, thread, served, forgotten, clash>>

LeaveLoop ==
  /\ Step("poll", "left")
  /\ engine = "stopping"
  /\ UNCHANGED <<web, engine, held, quoted, starts, thread, served, forgotten, clash>>
-----------------------------------------------------------------------------
(* simulate_execution. *)

Least(a, b) == IF a < b THEN a ELSE b
Greatest(a, b) == IF a < b THEN b ELSE a

BeginSimulation ==
  /\ Alive /\ sim = "spawned"
  /\ sim' = "running" /\ active' = TRUE /\ filled' = 0
  /\ UNCHANGED <<web, process, target, served, forgotten, clash>>

(* The next child order. *)
Child == Least(Greatest(MinChild, target \div Slices), target - filled)

(* Fault for AlwaysShort: a child order can be filled as a whole.            *)
WholeFills(child) == {f \in 0 .. child : f >= child \div 10}

(* Between a tenth and a half of it are filled, rounded down (the largest of *)
(* 2^53 draws, which rounding makes exactly a half, is left out).            *)
Fills(child) == {f \in 0 .. child : f >= child \div 10 /\ 2 * f < child}

Fill ==
  /\ Alive /\ sim = "running"
  /\ filled < target
  /\ \E f \in Fills(Child) : filled' = filled + f
  /\ UNCHANGED <<web, process, active, sim, target, served, forgotten, clash>>
-----------------------------------------------------------------------------
(* The engine's life. *)

Signal ==
  /\ engine = "up"
  /\ engine' = "stopping"
  /\ UNCHANGED <<web, loop, held, quoted, starts, thread, served, forgotten, clash>>

(* main returns when its five threads have ended.  It does not join the      *)
(* simulation: a std::thread that still is joinable aborts the process.      *)
MainReturns ==
  /\ engine = "stopping" /\ loop = "left"
  /\ engine' = IF sim = "none" THEN "clean" ELSE "aborted"
  /\ UNCHANGED <<web, loop, held, quoted, starts, thread, served, forgotten, clash>>

(* What its memory holds is gone, also a request whose file it has removed.  *)
Kill ==
  /\ Alive
  /\ engine' = "killed"
  /\ held' = 0
  /\ forgotten' = IF loop = "removed" THEN forgotten \cup {held} ELSE forgotten
  /\ UNCHANGED <<web, loop, quoted, starts, thread, served, clash>>

StartEngine ==
  /\ ~Alive /\ starts < MaxStarts
  /\ starts' = starts + 1
  /\ engine' = "up" /\ loop' = "poll" /\ held' = 0 /\ quoted' = FALSE
  /\ active' = FALSE /\ sim' = "none" /\ target' = 0 /\ filled' = 0
  /\ UNCHANGED <<web, served, forgotten, clash>>

GhostNext ==
  \/ \E n \in Shares : GhostExecute(n)
  \/ Quote \/ FindTrigger \/ ReadTrigger \/ PutOff \/ RemoveTrigger
  \/ Spawn \/ DropRequest \/ JoinForever \/ LeaveLoop
  \/ BeginSimulation \/ Fill
  \/ Signal \/ MainReturns \/ Kill \/ StartEngine

GhostSpec == GhostInit /\ [][GhostNext]_ghostVars
-----------------------------------------------------------------------------
(* Properties. *)

(* An execution is never complete: of the last two shares none is ever       *)
(* filled, as half of a child order is rounded down (ghost_exchange.h).  The *)
(* simulation's thread therefore never ends.                                 *)
AlwaysShort == sim = "running" => target - filled >= Least(2, target)

(* No request is executed twice, wherever the engine dies and however often  *)
(* it is started on the same file.  One that met no other is executed or     *)
(* still on its way, over any number of deaths, with one exception: its file *)
(* is removed before its execution is started (main.cpp, std::remove and     *)
(* trigger_ghost_execution), and an engine killed between the two loses it.  *)
RequestsAreServedOnce ==
  /\ \A r \in Requests : served[r] <= 1
  /\ ~clash => \A r \in 1 .. requests : r \in {trigger, held} \cup forgotten \/ served[r] = 1

(* Without the exception: TLC refutes it, see Kill.                          *)
NoLoneRequestIsLost ==
  ~clash => \A r \in 1 .. requests : r \in {trigger, held} \/ served[r] = 1

(* What main.cpp says of the simulation's thread: it is tracked so that the  *)
(* engine shuts down in order.  TLC refutes it: see MainReturns.             *)
ShutsDownCleanly == engine # "aborted"
=============================================================================
