------------------------------ MODULE Supervisor ------------------------------
(***************************************************************************)
(* The service supervisor (supervisor.py) and the infrastructure console   *)
(* (infra_tui.py).  Every start or stop is a supervisor command, a process *)
(* of its own that reads the state file, starts or signals services one by *)
(* one, and writes the file back through a temporary file; the web backend *)
(* runs one per request and kills it after ten seconds.  Nothing locks the *)
(* state file.  The console starts and terminates services itself and      *)
(* never looks at it.                                                      *)
(*                                                                         *)
(* Process ids are handed out again after a process is gone, also to       *)
(* programs that are not services.  The temporary file has one name for    *)
(* all commands; a command that has it open keeps writing to the same      *)
(* inode when another one has renamed it into place.                       *)
(***************************************************************************)
EXTENDS Naturals

CONSTANTS Commands,  (* the supervisor commands that can run at once        *)
          Services,  (* the keys of COMMANDS                                *)
          Pids,      (* process ids                                         *)
          NoPid,     (* no entry in the state file                          *)
          Nothing,   (* no process has the id                               *)
          Foreign,   (* a process that is not a service                     *)
          Absent, Empty, Garbage, (* contents of a file                     *)
          MaxCalls,  (* bound: supervisor commands                          *)
          MaxFaults  (* bound: commands that raise or are killed            *)

ASSUME SupervisorAssumption ==
  /\ NoPid \notin Pids
  /\ Nothing \notin Services /\ Foreign \notin Services /\ Nothing # Foreign
  /\ Absent # Empty /\ Absent # Garbage /\ Empty # Garbage
  /\ MaxCalls \in Nat /\ MaxFaults \in Nat

States == [Services -> Pids \cup {NoPid}]

ASSUME ContentAssumption == {Absent, Empty, Garbage} \cap States = {}

VARIABLES
  runs,   (* what each process id runs                                      *)
  owned,  (* the ids of processes that a supervisor command started         *)
  dying,  (* the ids of processes that were sent SIGTERM                    *)
  prey,   (* the processes the console waits for                            *)
  file,   (* supervisor.json                                                *)
  tmp,    (* supervisor.tmp                                                 *)
  pc,     (* where each command is                                          *)
  todo,   (* the services it has not dealt with                             *)
  mem,    (* its copy of the state                                          *)
  fd,     (* the file that the inode it writes to has become                *)
  begun,  (* history: the command started a service                         *)
  overlapped, (* history: two commands ran at once                          *)
  killed, (* history: a command that had started a service was killed       *)
  raised, (* history: a command that had started a service raised           *)
  calls, faults (* history: how often each happened                         *)

processes == <<runs, owned, dying, prey>>
disk      == <<file, tmp>>
commands  == <<pc, todo, mem, fd, begun>>
history   == <<overlapped, killed, raised, calls, faults>>
vars == <<processes, disk, commands, history>>

NoState == [s \in Services |-> NoPid]

Init ==
  /\ runs = [p \in Pids |-> Nothing]
  /\ owned = {} /\ dying = {} /\ prey = {}
  /\ file = Absent /\ tmp = Absent
  /\ pc = [c \in Commands |-> "idle"]
  /\ todo = [c \in Commands |-> {}]
  /\ mem = [c \in Commands |-> NoState]
  /\ fd = [c \in Commands |-> "none"]
  /\ begun = [c \in Commands |-> FALSE]
  /\ overlapped = FALSE /\ killed = FALSE /\ raised = FALSE
  /\ calls = 0 /\ faults = 0

Goto(c, l) == pc' = [pc EXCEPT ![c] = l]
-----------------------------------------------------------------------------
(* One command. *)

(* A file that cannot be read or parsed counts as no services. *)
ReadState == IF file \in States THEN file ELSE NoState

(* supervisor.py start ... or stop ...: reads the state first. *)
Begin(c, action, names) ==
  /\ pc[c] = "idle"
  /\ calls < MaxCalls
  /\ calls' = calls + 1
  /\ Goto(c, action)
  /\ todo' = [todo EXCEPT ![c] = names]
  /\ mem' = [mem EXCEPT ![c] = ReadState]
  /\ begun' = [begun EXCEPT ![c] = FALSE]
  /\ overlapped' = (overlapped \/ \E d \in Commands : pc[d] # "idle")
  /\ UNCHANGED <<processes, disk, fd, killed, raised, faults>>

(* os.kill(pid, 0); a program of another user denies it and counts as gone. *)
MayLive(p) == p # NoPid /\ runs[p] # Nothing
MayBeGone(p) == p # NoPid => runs[p] \in {Nothing, Foreign}

Skip(c, s) ==
  /\ pc[c] = "start" /\ s \in todo[c]
  /\ MayLive(mem[c][s])
  /\ todo' = [todo EXCEPT ![c] = @ \ {s}]
  /\ UNCHANGED <<processes, disk, pc, mem, fd, begun, history>>

(* Popen: some free id runs the service from now on. *)
Spawn(c, s) ==
  \E p \in Pids :
    /\ runs[p] = Nothing
    /\ runs' = [runs EXCEPT ![p] = s]
    /\ owned' = owned \cup {p}
    /\ mem' = [mem EXCEPT ![c][s] = p]
    /\ todo' = [todo EXCEPT ![c] = @ \ {s}]
    /\ begun' = [begun EXCEPT ![c] = TRUE]
    /\ UNCHANGED <<dying, prey, disk, pc, fd, history>>

(* Fault for LoneCommandsTrack: the state is not consulted. *)
StartServiceAnyway(c, s) ==
  /\ pc[c] = "start" /\ s \in todo[c]
  /\ Spawn(c, s)

StartService(c, s) ==
  /\ pc[c] = "start" /\ s \in todo[c]
  /\ MayBeGone(mem[c][s])
  /\ Spawn(c, s)

(* The command's process is gone, and with it its memory. *)
Leave(c) ==
  /\ Goto(c, "idle")
  /\ todo' = [todo EXCEPT ![c] = {}]
  /\ mem' = [mem EXCEPT ![c] = NoState]
  /\ begun' = [begun EXCEPT ![c] = FALSE]

(* The command ends without writing the state. *)
Abandon(c) ==
  /\ faults < MaxFaults
  /\ faults' = faults + 1
  /\ Leave(c)
  /\ fd' = [fd EXCEPT ![c] = "none"]

(* Popen raises: the program is not there. *)
StartRaises(c) ==
  /\ pc[c] = "start" /\ todo[c] # {}
  /\ Abandon(c)
  /\ raised' = (raised \/ begun[c])
  /\ UNCHANGED <<processes, disk, overlapped, killed, calls>>

(* Takes the service out of the state; if its id is alive, its process group *)
(* is signalled.  A process does not end at once.                            *)
StopService(c, s) ==
  LET p == mem[c][s]
  IN /\ pc[c] = "stop" /\ s \in todo[c]
     /\ \/ MayBeGone(p) /\ UNCHANGED dying
        \/ MayLive(p) /\ dying' = dying \cup {p}
     /\ mem' = [mem EXCEPT ![c][s] = NoPid]
     /\ todo' = [todo EXCEPT ![c] = @ \ {s}]
     /\ UNCHANGED <<runs, owned, prey, disk, pc, fd, begun, history>>

(* killpg raises: the id leads no process group, or the process ended since  *)
(* it was found alive.                                                       *)
StopRaises(c) ==
  /\ pc[c] = "stop"
  /\ \E s \in todo[c] :
       LET p == mem[c][s]
       IN /\ MayLive(p)
          /\ \/ p \notin owned /\ UNCHANGED processes
             \/ /\ runs' = [runs EXCEPT ![p] = Nothing]
                /\ owned' = owned \ {p} /\ dying' = dying \ {p} /\ prey' = prey \ {p}
  /\ Abandon(c)
  /\ UNCHANGED <<disk, overlapped, killed, raised, calls>>

Done(c) == pc[c] \in {"start", "stop"} /\ todo[c] = {}

(* Fault for WholeUnlessOverlapped: the state file is written in place. *)
OpenStateFile(c) ==
  /\ Done(c)
  /\ file' = Empty
  /\ fd' = [fd EXCEPT ![c] = "file"]
  /\ Goto(c, "write")
  /\ UNCHANGED <<processes, tmp, todo, mem, begun, history>>

(* save: opening the temporary file empties it ... *)
OpenTemporary(c) ==
  /\ Done(c)
  /\ tmp' = Empty
  /\ fd' = [fd EXCEPT ![c] = "tmp"]
  /\ Goto(c, "write")
  /\ UNCHANGED <<processes, file, todo, mem, begun, history>>

(* What writing new over old, from the start of the file, can leave.         *)
Written(old, new) == IF old \in {Empty, new} THEN {new} ELSE {new, Garbage}

(* ... the text goes to the inode that was opened, whatever its name is now  *)
(* ...                                                                       *)
WriteState(c) ==
  /\ pc[c] = "write"
  /\ CASE fd[c] = "tmp"  -> tmp' \in Written(tmp, mem[c]) /\ UNCHANGED file
       [] fd[c] = "file" -> file' \in Written(file, mem[c]) /\ UNCHANGED tmp
       [] OTHER          -> UNCHANGED disk
  /\ fd' = [fd EXCEPT ![c] = "none"]
  /\ Goto(c, "replace")
  /\ UNCHANGED <<processes, todo, mem, begun, history>>

(* ... and the temporary file is renamed over the state file. *)
Replace(c) ==
  /\ pc[c] = "replace"
  /\ tmp # Absent
  /\ file' = tmp
  /\ tmp' = Absent
  /\ fd' = [d \in Commands |-> CASE fd[d] = "tmp"  -> "file"
                                 [] fd[d] = "file" -> "gone"
                                 [] OTHER          -> fd[d]]
  /\ Leave(c)
  /\ UNCHANGED <<processes, history>>

(* Another command was faster: there is nothing left to rename. *)
ReplaceRaises(c) ==
  /\ pc[c] = "replace"
  /\ tmp = Absent
  /\ Abandon(c)
  /\ raised' = (raised \/ begun[c])
  /\ UNCHANGED <<processes, disk, overlapped, killed, calls>>

(* The backend's timeout, at any point. *)
Kill(c) ==
  /\ pc[c] # "idle"
  /\ Abandon(c)
  /\ killed' = (killed \/ begun[c])
  /\ UNCHANGED <<processes, disk, overlapped, raised, calls>>
-----------------------------------------------------------------------------
(* Processes, and the console. *)

(* A process ends, by itself or after a signal; its id is free. *)
Exit(p) ==
  /\ runs[p] # Nothing
  /\ runs' = [runs EXCEPT ![p] = Nothing]
  /\ owned' = owned \ {p} /\ dying' = dying \ {p} /\ prey' = prey \ {p}
  /\ UNCHANGED <<disk, commands, history>>

(* action_start_...: no look at what runs already.  Or: some other program.  *)
Appear(p, what) ==
  /\ runs[p] = Nothing
  /\ runs' = [runs EXCEPT ![p] = what]
  /\ UNCHANGED <<owned, dying, prey, disk, commands, history>>

(* _kill_matching: every process whose command line contains the pattern is  *)
(* terminated, a program that only mentions it included ...                  *)
TerminateMatching(s) ==
  /\ prey = {}
  /\ \E others \in SUBSET {p \in Pids : runs[p] = Foreign} :
       prey' = {p \in Pids : runs[p] = s} \cup others
  /\ prey' # {}
  /\ dying' = dying \cup prey'
  /\ UNCHANGED <<runs, owned, disk, commands, history>>

(* ... and what is left of them after three seconds is killed. *)
KillStragglers ==
  /\ prey # {}
  /\ runs' = [p \in Pids |-> IF p \in prey THEN Nothing ELSE runs[p]]
  /\ owned' = owned \ prey /\ dying' = dying \ prey /\ prey' = {}
  /\ UNCHANGED <<disk, commands, history>>

Command(c) ==
  \/ \E names \in SUBSET Services \ {{}} : Begin(c, "start", names) \/ Begin(c, "stop", names)
  \/ \E s \in Services : Skip(c, s) \/ StartService(c, s) \/ StopService(c, s)
  \/ StartRaises(c) \/ StopRaises(c)
  \/ OpenTemporary(c) \/ WriteState(c) \/ Replace(c) \/ ReplaceRaises(c)
  \/ Kill(c)

Next ==
  \/ \E c \in Commands : Command(c)
  \/ \E p \in Pids : Exit(p)
  \/ \E p \in Pids, what \in Services \cup {Foreign} : Appear(p, what)
  \/ \E s \in Services : TerminateMatching(s)
  \/ KillStragglers

Spec == Init /\ [][Next]_vars
-----------------------------------------------------------------------------
(* Properties. *)

ProcessesOK ==
  /\ runs \in [Pids -> Services \cup {Nothing, Foreign}]
  /\ \A p \in owned \cup dying \cup prey : p \in Pids /\ runs[p] # Nothing
  /\ \A p \in owned : runs[p] \in Services
  /\ prey \subseteq dying

DiskOK ==
  /\ file \in States \cup {Absent, Empty, Garbage}
  /\ tmp \in States \cup {Absent, Empty, Garbage}

CommandsOK ==
  /\ pc \in [Commands -> {"idle", "start", "stop", "write", "replace"}]
  /\ todo \in [Commands -> SUBSET Services]
  /\ mem \in [Commands -> States]
  /\ fd \in [Commands -> {"none", "tmp", "file", "gone"}]
  /\ begun \in [Commands -> BOOLEAN]

HistoryOK ==
  /\ overlapped \in BOOLEAN /\ killed \in BOOLEAN /\ raised \in BOOLEAN
  /\ calls \in 0 .. MaxCalls /\ faults \in 0 .. MaxFaults

(* Every variable has its type; a process that is gone is neither owned nor  *)
(* dying, and only a command that is writing has a file open.                *)
TypeOK ==
  /\ ProcessesOK /\ DiskOK /\ CommandsOK /\ HistoryOK
  /\ \A c \in Commands : pc[c] = "write" <=> fd[c] # "none"

(* The processes of s that the supervisor started and nobody told to end. *)
Live(s) == {p \in owned \ dying : runs[p] = s}

(* A live process the supervisor started is in the state file, or in the     *)
(* memory of the command that is about to write it there.                    *)
Tracked(s, p) ==
  \/ file \in States /\ file[s] = p
  \/ \E c \in Commands : pc[c] # "idle" /\ mem[c][s] = p

(* With one command after the other, none of them killed or failing after it *)
(* started something, the supervisor knows every service it runs and runs    *)
(* none of them twice, although services die, ids are used again and the     *)
(* console starts and kills the same services (supervisor.py, start, stop).  *)
LoneCommandsTrack ==
  ~overlapped /\ ~killed /\ ~raised =>
    \A s \in Services :
      /\ \A p, q \in Live(s) : p = q
      /\ \A p \in Live(s) : Tracked(s, p)

(* The state file is never half written, wherever commands are killed, as    *)
(* long as they do not overlap (supervisor.py, save).                        *)
WholeUnlessOverlapped == ~overlapped => file \notin {Empty, Garbage}

(* The state file names every live process.                                  *)
FileTracks == \A s \in Services : \A p \in Live(s) : file \in States /\ file[s] = p

(* What a command that runs alone can rely on: the temporary file is its     *)
(* own, and the state file is whole.                                         *)
Alone ==
  /\ \A c, d \in Commands : pc[c] # "idle" /\ pc[d] # "idle" => c = d
  /\ \A c \in Commands :
       /\ fd[c] \in {"none", "tmp"}
       /\ pc[c] = "write" => tmp = Empty
       /\ pc[c] = "replace" => tmp = mem[c]
  /\ file \notin {Empty, Garbage}

(* What is known of the processes: the memory of the one command names every *)
(* live process, and so does the file for as long as it has started nothing. *)
Known ==
  /\ (\A c \in Commands : pc[c] = "idle" \/ ~begun[c]) => FileTracks
  /\ \A c \in Commands :
       /\ pc[c] # "idle" => \A s \in Services : \A p \in Live(s) : mem[c][s] = p
       /\ pc[c] = "stop" => ~begun[c]

(* The inductive strengthening of both. *)
IndInv ==
  /\ TypeOK
  /\ ~overlapped => Alone
  /\ ~overlapped /\ ~killed /\ ~raised => Known

(* The supervisor "owns child PIDs" (supervisor.py): what a command started  *)
(* is known afterwards, unless the command was killed.  TLC refutes it: a    *)
(* start whose second service cannot be launched forgets the first.          *)
OwnsChildren ==
  ~overlapped /\ ~killed =>
    \A s \in Services : \A p \in Live(s) : Tracked(s, p)
=============================================================================
