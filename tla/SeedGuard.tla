------------------------------ MODULE SeedGuard ------------------------------
(***************************************************************************)
(* The seed guard (seed_guard.py): on a start of the web backend, where it *)
(* is enabled, and whenever the API asks for it, a thread decides from a   *)
(* small JSON file and from the age of the parquet files whether the       *)
(* sample data has to be downloaded again.  No two steps are under a lock, *)
(* the file is written in place, and the backend may be killed any time.   *)
(***************************************************************************)
EXTENDS Integers

CONSTANTS Guards,    (* the threads that can run check_and_reseed at once    *)
          MaxBoots,  (* MAX_BOOTS                                            *)
          MaxEdits,  (* bound: edits of the watched source files             *)
          MaxChecks, (* bound: calls of check_and_reseed                     *)
          MaxKills   (* bound: crashes                                       *)

ASSUME GuardAssumption ==
  MaxBoots \in Nat /\ MaxEdits \in Nat /\ MaxChecks \in Nat /\ MaxKills \in Nat

VARIABLES
  meta,     (* .seed_meta.json: the boots and the version of the sources;    *)
            (* a missing or damaged file reads like NoMeta                   *)
  source,   (* the version of the watched source files                       *)
  old,      (* the kinds of files older than a week: those of the starter    *)
            (* symbols, and of others, which a reseed does not touch         *)
  guard,    (* where each thread is                                          *)
  copy,     (* the meta data it has read and changed                         *)
  tried,    (* history: the version of the sources at the latest attempt     *)
  since,    (* history: checks since then that decided against it            *)
  met,      (* history: two checks overlapped, or the sources were edited    *)
            (* during an attempt                                             *)
  checks, edits, kills  (* history: how often each happened                  *)

guardVars == <<meta, source, old, guard, copy, tried, since, met, checks, edits, kills>>

NoMeta == [boots |-> 0, hash |-> -1]

GuardInit ==
  /\ meta = NoMeta /\ source = 0 /\ old = {}
  /\ guard = [g \in Guards |-> "idle"] /\ copy = [g \in Guards |-> NoMeta]
  /\ tried = -1 /\ since = 0 /\ met = FALSE
  /\ checks = 0 /\ edits = 0 /\ kills = 0

Move(g, from, to) == guard[g] = from /\ guard' = [guard EXCEPT ![g] = to]
Alone(g) == \A h \in Guards \ {g} : guard[h] = "idle"
-----------------------------------------------------------------------------
(* Fault for TriggersAreKept: the boot limit is tested before this boot.     *)
NeedsReseedLate(m, force) ==
  force \/ old # {} \/ m.boots > MaxBoots + 1 \/ m.hash # source

(* The four reasons to download again. *)
NeedsReseed(m, force) ==
  force \/ old # {} \/ m.boots > MaxBoots \/ m.hash # source

Check(g, force) ==
  /\ checks < MaxChecks /\ checks' = checks + 1
  /\ LET m == [meta EXCEPT !.boots = @ + 1] IN
       /\ copy' = [copy EXCEPT ![g] = m]
       /\ IF NeedsReseed(m, force)
          THEN Move(g, "idle", "reseed") /\ tried' = source /\ since' = 0
          ELSE Move(g, "idle", "save") /\ UNCHANGED <<tried, since>>
  /\ met' = (met \/ ~Alone(g))
  /\ UNCHANGED <<meta, source, old, edits, kills>>

(* _do_reseed never raises; each symbol may fail, and only those of the      *)
(* starter list are refreshed.                                               *)
DoReseed(g) ==
  /\ Move(g, "reseed", "hash")
  /\ old' \in {old, old \ {"starter"}}
  /\ UNCHANGED <<meta, source, copy, tried, since, met, checks, edits, kills>>

(* The counters start over whatever came of it; the sources are hashed now. *)
ClearTriggers(g) ==
  /\ Move(g, "hash", "save")
  /\ copy' = [copy EXCEPT ![g] = [boots |-> 0, hash |-> source]]
  /\ UNCHANGED <<meta, source, old, tried, since, met, checks, edits, kills>>

(* _save_meta truncates the file and writes it. *)
OpenMeta(g) ==
  /\ Move(g, "save", "saving")
  /\ meta' = NoMeta
  /\ UNCHANGED <<source, old, copy, tried, since, met, checks, edits, kills>>

WriteMeta(g) ==
  /\ Move(g, "saving", "idle")
  /\ meta' = copy[g]
  /\ since' = IF copy[g].boots > 0 THEN since + 1 ELSE since
  /\ copy' = [copy EXCEPT ![g] = NoMeta]
  /\ UNCHANGED <<source, old, tried, met, checks, edits, kills>>
-----------------------------------------------------------------------------
Edit ==
  /\ edits < MaxEdits /\ edits' = edits + 1
  /\ source' = source + 1
  /\ met' = (met \/ \E g \in Guards : guard[g] # "idle")
  /\ UNCHANGED <<meta, old, guard, copy, tried, since, checks, kills>>

GrowOld ==
  /\ old' \in {old \cup {"starter"}, old \cup {"other"}}
  /\ UNCHANGED <<meta, source, guard, copy, tried, since, met, checks, edits, kills>>

(* The backend is killed; half a file stays half a file. *)
KillBackend ==
  /\ kills < MaxKills /\ kills' = kills + 1
  /\ guard' = [g \in Guards |-> "idle"] /\ copy' = [g \in Guards |-> NoMeta]
  /\ UNCHANGED <<meta, source, old, tried, since, met, checks, edits>>

GuardNext ==
  \/ \E g \in Guards :
       \/ \E force \in BOOLEAN : Check(g, force)
       \/ DoReseed(g) \/ ClearTriggers(g) \/ OpenMeta(g) \/ WriteMeta(g)
  \/ Edit \/ GrowOld \/ KillBackend

GuardSpec == GuardInit /\ [][GuardNext]_guardVars
-----------------------------------------------------------------------------
(* Properties. *)

(* Checks that meet neither each other nor an edit lose no trigger, wherever *)
(* the backend is killed: once a check has decided, a download was attempted *)
(* with the sources as they are, and no more than MaxBoots starts are        *)
(* recorded without an attempt (seed_guard.py, the list in its docstring).   *)
TriggersAreKept ==
  ~met => /\ \A g \in Guards : guard[g] # "idle" => tried = source
          /\ since <= MaxBoots
=============================================================================
