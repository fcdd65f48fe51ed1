--------------------------- MODULE SupervisorProofs ---------------------------
(***************************************************************************)
(* Proofs about Supervisor, for any commands, services and process ids and *)
(* any number of calls and faults: as long as commands do not overlap the  *)
(* state file is whole, and while none of them was cut short after it      *)
(* started something, every service that runs is known and runs once.      *)
(***************************************************************************)
EXTENDS Supervisor, TLAPS

(* The empty memory of a command is a state.                                 *)
LEMMA NoStateType == NoState \in States
BY DEF NoState, States

(* What is read of the disk is a state, also if the file is missing or       *)
(* damaged.                                                                  *)
LEMMA ReadType == DiskOK => ReadState \in States
BY NoStateType DEF DiskOK, ReadState

(* Nothing runs and no command is given at the start.                        *)
LEMMA InitIndInv == Init => IndInv
<1> SUFFICES ASSUME Init PROVE IndInv
  OBVIOUS
<1> USE SupervisorAssumption, ContentAssumption DEF Init
<1>1. ProcessesOK
  BY DEF ProcessesOK
<1>2. DiskOK
  BY DEF DiskOK
<1>3. CommandsOK
  BY NoStateType DEF CommandsOK
<1>4. HistoryOK
  <2>1. overlapped \in BOOLEAN /\ killed \in BOOLEAN /\ raised \in BOOLEAN
    BY Zenon
  <2>2. calls \in 0 .. MaxCalls /\ faults \in 0 .. MaxFaults
    BY SMT
  <2> QED
    BY <2>1, <2>2 DEF HistoryOK
<1>5. \A c \in Commands : pc[c] = "write" <=> fd[c] # "none"
  OBVIOUS
<1>6. Alone
  BY DEF Alone
<1>7. Known
  BY DEF Known, FileTracks, Live
<1> QED
  BY <1>1, <1>2, <1>3, <1>4, <1>5, <1>6, <1>7 DEF IndInv, TypeOK
-----------------------------------------------------------------------------
(* Types. *)

(* What a command leaves behind when it ends has the right type. *)
LEMMA LeaveType ==
  ASSUME CommandsOK, NEW c \in Commands, Leave(c)
  PROVE  /\ pc' \in [Commands -> {"idle", "start", "stop", "write", "replace"}]
         /\ todo' \in [Commands -> SUBSET Services]
         /\ mem' \in [Commands -> States]
         /\ begun' \in [Commands -> BOOLEAN]
  BY NoStateType DEF CommandsOK, Leave, Goto

(* A command that ends before its time keeps the types.                      *)
LEMMA AbandonType ==
  ASSUME CommandsOK, NEW c \in Commands, Abandon(c)
  PROVE  CommandsOK'
<1>1. fd' \in [Commands -> {"none", "tmp", "file", "gone"}]
  BY DEF Abandon, CommandsOK
<1>2. Leave(c)
  BY DEF Abandon
<1> QED
  BY <1>1, <1>2, LeaveType DEF CommandsOK

(* Every step keeps the types of the processes ...                           *)
LEMMA ProcessesStep == TypeOK /\ [Next]_vars => ProcessesOK'
<1> SUFFICES ASSUME TypeOK, [Next]_vars PROVE ProcessesOK'
  OBVIOUS
<1> USE SupervisorAssumption
<1>0. ProcessesOK /\ CommandsOK
  BY DEF TypeOK
<1>1. CASE UNCHANGED processes
  BY <1>0, <1>1 DEF ProcessesOK, processes
<1>2. ASSUME NEW c \in Commands, NEW s \in Services, Spawn(c, s)
      PROVE  ProcessesOK'
  BY <1>0, <1>2 DEF ProcessesOK, Spawn
<1>3. ASSUME NEW c \in Commands, NEW s \in Services, StopService(c, s)
      PROVE  ProcessesOK'
  <2>1. mem[c][s] \in Pids \cup {NoPid}
    BY <1>0 DEF CommandsOK, States
  <2> QED
    BY <1>0, <1>3, <2>1 DEF ProcessesOK, StopService, MayLive
<1>4. ASSUME NEW c \in Commands, StopRaises(c)
      PROVE  ProcessesOK'
  <2>1. CASE UNCHANGED processes
    BY <1>0, <2>1 DEF ProcessesOK, processes
  <2>2. CASE \E p : /\ runs' = [runs EXCEPT ![p] = Nothing]
                    /\ owned' = owned \ {p} /\ dying' = dying \ {p} /\ prey' = prey \ {p}
    BY <1>0, <2>2 DEF ProcessesOK
  <2> QED
    BY <1>4, <2>1, <2>2 DEF StopRaises
<1>5. ASSUME NEW p \in Pids, Exit(p)
      PROVE  ProcessesOK'
  BY <1>0, <1>5 DEF ProcessesOK, Exit
<1>6. ASSUME NEW p \in Pids, NEW what \in Services \cup {Foreign}, Appear(p, what)
      PROVE  ProcessesOK'
  BY <1>0, <1>6 DEF ProcessesOK, Appear
<1>7. ASSUME NEW s \in Services, TerminateMatching(s)
      PROVE  ProcessesOK'
  BY <1>0, <1>7 DEF ProcessesOK, TerminateMatching
<1>8. CASE KillStragglers
  BY <1>0, <1>8 DEF ProcessesOK, KillStragglers
<1>9. ASSUME NEW c \in Commands, Command(c)
      PROVE  ProcessesOK'
  BY <1>1, <1>2, <1>3, <1>4, <1>9
     DEF Command, Begin, Skip, StartService, StartRaises, OpenTemporary, WriteState,
         Replace, ReplaceRaises, Kill
<1> QED
  BY <1>1, <1>5, <1>6, <1>7, <1>8, <1>9 DEF Next, vars

(* ... of the files ...                                                      *)
LEMMA DiskStep == TypeOK /\ [Next]_vars => DiskOK'
<1> SUFFICES ASSUME TypeOK, [Next]_vars PROVE DiskOK'
  OBVIOUS
<1>0. DiskOK /\ CommandsOK
  BY DEF TypeOK
<1>1. CASE UNCHANGED disk
  BY <1>0, <1>1 DEF DiskOK, disk
<1>2. ASSUME NEW c \in Commands, OpenTemporary(c)
      PROVE  DiskOK'
  BY <1>0, <1>2 DEF DiskOK, OpenTemporary
<1>3. ASSUME NEW c \in Commands, WriteState(c)
      PROVE  DiskOK'
  <2>1. mem[c] \in States
    BY <1>0 DEF CommandsOK
  <2> QED
    BY <1>0, <1>3, <2>1 DEF DiskOK, WriteState, Written, disk
<1>4. ASSUME NEW c \in Commands, Replace(c)
      PROVE  DiskOK'
  BY <1>0, <1>4 DEF DiskOK, Replace
<1>5. ASSUME NEW c \in Commands, Command(c)
      PROVE  DiskOK'
  BY <1>1, <1>2, <1>3, <1>4, <1>5
     DEF Command, Begin, Skip, StartService, Spawn, StartRaises, StopService, StopRaises,
         ReplaceRaises, Kill
<1> QED
  BY <1>1, <1>5 DEF Next, vars, Exit, Appear, TerminateMatching, KillStragglers

(* ... of the commands ...                                                   *)
LEMMA CommandsStep == TypeOK /\ [Next]_vars => CommandsOK'
<1> SUFFICES ASSUME TypeOK, [Next]_vars PROVE CommandsOK'
  OBVIOUS
<1>0. CommandsOK /\ DiskOK
  BY DEF TypeOK
<1>1. CASE UNCHANGED commands
  BY <1>0, <1>1 DEF CommandsOK, commands
<1>2. ASSUME NEW c \in Commands, NEW names \in SUBSET Services,
             Begin(c, "start", names) \/ Begin(c, "stop", names)
      PROVE  CommandsOK'
  <2>1. ReadState \in States
    BY <1>0, ReadType
  <2>2. PICK action \in {"start", "stop"} : Begin(c, action, names)
    BY <1>2
  <2>3. mem' \in [Commands -> States] /\ fd' = fd
    BY <1>0, <2>1, <2>2 DEF CommandsOK, Begin
  <2>4. pc' \in [Commands -> {"idle", "start", "stop", "write", "replace"}]
    BY <1>0, <2>2 DEF CommandsOK, Begin, Goto
  <2>5. todo' \in [Commands -> SUBSET Services] /\ begun' \in [Commands -> BOOLEAN]
    BY <1>0, <2>2 DEF CommandsOK, Begin
  <2> QED
    BY <1>0, <2>3, <2>4, <2>5 DEF CommandsOK
<1>3. ASSUME NEW c \in Commands, NEW s \in Services, Skip(c, s)
      PROVE  CommandsOK'
  BY <1>0, <1>3 DEF CommandsOK, Skip
<1>4. ASSUME NEW c \in Commands, NEW s \in Services, StartService(c, s)
      PROVE  CommandsOK'
  <2> PICK p \in Pids : /\ mem' = [mem EXCEPT ![c][s] = p]
                        /\ todo' = [todo EXCEPT ![c] = @ \ {s}]
                        /\ begun' = [begun EXCEPT ![c] = TRUE]
                        /\ pc' = pc /\ fd' = fd
    BY <1>4 DEF StartService, Spawn
  <2>1. mem' \in [Commands -> States]
    BY <1>0 DEF CommandsOK, States
  <2> QED
    BY <1>0, <2>1 DEF CommandsOK
<1>5. ASSUME NEW c \in Commands, NEW s \in Services, StopService(c, s)
      PROVE  CommandsOK'
  <2>1. mem' \in [Commands -> States]
    BY <1>0, <1>5 DEF CommandsOK, States, StopService
  <2> QED
    BY <1>0, <1>5, <2>1 DEF CommandsOK, StopService
<1>6. ASSUME NEW c \in Commands, Abandon(c)
      PROVE  CommandsOK'
  BY <1>0, <1>6, AbandonType
<1>7. ASSUME NEW c \in Commands, OpenTemporary(c) \/ WriteState(c)
      PROVE  CommandsOK'
  BY <1>0, <1>7 DEF CommandsOK, OpenTemporary, WriteState, Goto
<1>8. ASSUME NEW c \in Commands, Replace(c)
      PROVE  CommandsOK'
  <2>1. fd' \in [Commands -> {"none", "tmp", "file", "gone"}]
    BY <1>0, <1>8 DEF CommandsOK, Replace
  <2>2. Leave(c)
    BY <1>8 DEF Replace
  <2> QED
    BY <1>0, <2>1, <2>2, LeaveType DEF CommandsOK
<1>9. ASSUME NEW c \in Commands, Command(c)
      PROVE  CommandsOK'
  BY <1>2, <1>3, <1>4, <1>5, <1>6, <1>7, <1>8, <1>9
     DEF Command, StartRaises, StopRaises, ReplaceRaises, Kill
<1> QED
  BY <1>1, <1>9 DEF Next, vars, Exit, Appear, TerminateMatching, KillStragglers

(* ... and of the history, ...                                               *)
LEMMA HistoryStep == TypeOK /\ [Next]_vars => HistoryOK'
<1> SUFFICES ASSUME TypeOK, [Next]_vars PROVE HistoryOK'
  OBVIOUS
<1>0. HistoryOK /\ CommandsOK
  BY DEF TypeOK
<1>1. CASE UNCHANGED history
  BY <1>0, <1>1, Zenon DEF HistoryOK, history
<1>2. ASSUME NEW c \in Commands, NEW action, NEW names, Begin(c, action, names)
      PROVE  HistoryOK'
  <2>1. calls' \in 0 .. MaxCalls
    BY <1>0, <1>2, SupervisorAssumption, SMT DEF HistoryOK, Begin
  <2>2. faults' \in 0 .. MaxFaults
    BY <1>0, <1>2, Zenon DEF HistoryOK, Begin
  <2>3. overlapped' \in BOOLEAN /\ killed' \in BOOLEAN /\ raised' \in BOOLEAN
    BY <1>0, <1>2, Zenon DEF HistoryOK, Begin
  <2> QED
    BY <2>1, <2>2, <2>3, Zenon DEF HistoryOK
<1>3. ASSUME NEW c \in Commands, Abandon(c), calls' = calls, overlapped' = overlapped,
             killed' \in BOOLEAN, raised' \in BOOLEAN
      PROVE  HistoryOK'
  <2>1. faults' \in 0 .. MaxFaults
    BY <1>0, <1>3, SupervisorAssumption, SMT DEF HistoryOK, Abandon
  <2> QED
    BY <1>0, <1>3, <2>1, Zenon DEF HistoryOK
<1>4. ASSUME NEW c \in Commands,
             StartRaises(c) \/ StopRaises(c) \/ ReplaceRaises(c) \/ Kill(c)
      PROVE  HistoryOK'
  <2>1. Abandon(c) /\ calls' = calls /\ overlapped' = overlapped
    BY <1>4, Zenon DEF StartRaises, StopRaises, ReplaceRaises, Kill
  <2>2. killed' \in BOOLEAN
    BY <1>0, <1>4, Zenon DEF HistoryOK, StartRaises, StopRaises, ReplaceRaises, Kill
  <2>3. raised' \in BOOLEAN
    BY <1>0, <1>4, Zenon DEF HistoryOK, StartRaises, StopRaises, ReplaceRaises, Kill
  <2> QED
    BY <1>3, <2>1, <2>2, <2>3, Zenon
<1>5. ASSUME NEW c \in Commands, Command(c)
      PROVE  HistoryOK'
  BY <1>1, <1>2, <1>4, <1>5
     DEF Command, Skip, StartService, Spawn, StopService, OpenTemporary, WriteState, Replace
<1> QED
  BY <1>1, <1>5 DEF Next, vars, Exit, Appear, TerminateMatching, KillStragglers

(* A command has a file open exactly while it is writing. *)
LEMMA OpenStep ==
  TypeOK /\ [Next]_vars => \A d \in Commands : (pc[d] = "write" <=> fd[d] # "none")'
<1> SUFFICES ASSUME TypeOK, [Next]_vars, NEW d \in Commands
             PROVE  pc'[d] = "write" <=> fd'[d] # "none"
  OBVIOUS
<1>0. CommandsOK /\ \A c \in Commands : pc[c] = "write" <=> fd[c] # "none"
  BY DEF TypeOK
<1>1. CASE UNCHANGED <<pc, fd>>
  BY <1>0, <1>1
<1>2. ASSUME NEW c \in Commands, NEW names,
             Begin(c, "start", names) \/ Begin(c, "stop", names)
      PROVE  pc'[d] = "write" <=> fd'[d] # "none"
  BY <1>0, <1>2 DEF CommandsOK, Begin, Goto
<1>3. ASSUME NEW c \in Commands, Abandon(c)
      PROVE  pc'[d] = "write" <=> fd'[d] # "none"
  BY <1>0, <1>3 DEF CommandsOK, Abandon, Leave, Goto
<1>4. ASSUME NEW c \in Commands, OpenTemporary(c) \/ WriteState(c)
      PROVE  pc'[d] = "write" <=> fd'[d] # "none"
  BY <1>0, <1>4 DEF CommandsOK, OpenTemporary, WriteState, Goto
<1>5. ASSUME NEW c \in Commands, Replace(c)
      PROVE  pc'[d] = "write" <=> fd'[d] # "none"
  BY <1>0, <1>5 DEF CommandsOK, Replace, Leave, Goto
<1>6. ASSUME NEW c \in Commands, Command(c)
      PROVE  pc'[d] = "write" <=> fd'[d] # "none"
  BY <1>1, <1>2, <1>3, <1>4, <1>5, <1>6
     DEF Command, Skip, StartService, Spawn, StartRaises, StopService, StopRaises,
         ReplaceRaises, Kill
<1> QED
  BY <1>1, <1>6 DEF Next, vars, commands, Exit, Appear, TerminateMatching, KillStragglers

(* ... and so all types.                                                     *)
LEMMA TypeStep == TypeOK /\ [Next]_vars => TypeOK'
BY ProcessesStep, DiskStep, CommandsStep, HistoryStep, OpenStep DEF TypeOK
-----------------------------------------------------------------------------
(* What happened once has happened. *)
LEMMA HistoryStays ==
  ASSUME Next
  PROVE  (overlapped => overlapped') /\ (killed => killed') /\ (raised => raised')
<1>1. CASE UNCHANGED history
  BY <1>1, Zenon DEF history
<1>2. ASSUME NEW c \in Commands, NEW action, NEW names, Begin(c, action, names)
      PROVE  (overlapped => overlapped') /\ (killed => killed') /\ (raised => raised')
  BY <1>2, Zenon DEF Begin
<1>3. ASSUME NEW c \in Commands,
             StartRaises(c) \/ StopRaises(c) \/ ReplaceRaises(c) \/ Kill(c)
      PROVE  (overlapped => overlapped') /\ (killed => killed') /\ (raised => raised')
  <2>1. /\ overlapped' = overlapped
        /\ killed' = killed \/ killed' = (killed \/ begun[c])
        /\ raised' = raised \/ raised' = (raised \/ begun[c])
    BY <1>3 DEF StartRaises, StopRaises, ReplaceRaises, Kill
  <2>2. overlapped => overlapped'
    BY <2>1, Zenon
  <2>3. killed => killed'
    BY <2>1, Zenon
  <2>4. raised => raised'
    BY <2>1, Zenon
  <2> QED
    BY <2>2, <2>3, <2>4, Zenon
<1>4. ASSUME NEW c \in Commands, Command(c)
      PROVE  (overlapped => overlapped') /\ (killed => killed') /\ (raised => raised')
  BY <1>1, <1>2, <1>3, <1>4, Zenon
     DEF Command, Skip, StartService, Spawn, StopService, OpenTemporary, WriteState, Replace
<1> QED
  BY <1>1, <1>4, Zenon DEF Next, Exit, Appear, TerminateMatching, KillStragglers

(* What a command that runs alone can rely on. *)

(* A command that overlaps no other keeps the temporary file to itself.      *)
LEMMA AloneStep ==
  ASSUME TypeOK, ~overlapped => Alone, Next, ~overlapped'
  PROVE  Alone'
<1>0. /\ ~overlapped
      /\ CommandsOK
      /\ \A c \in Commands : pc[c] = "write" <=> fd[c] # "none"
  <2>1. ~overlapped
    BY HistoryStays, Zenon
  <2> QED
    BY <2>1, Zenon DEF TypeOK
<1>1. Alone
  BY <1>0
<1>2. CASE UNCHANGED <<disk, pc, mem, fd>>
  BY <1>1, <1>2 DEF Alone, disk
<1>3. ASSUME NEW c \in Commands, NEW names \in SUBSET Services,
             NEW action \in {"start", "stop"}, Begin(c, action, names)
      PROVE  Alone'
  <2>1. \A d \in Commands : pc[d] = "idle"
    BY <1>3 DEF Begin
  <2>2. \A d \in Commands : pc'[d] # "idle" => d = c
    BY <1>0, <1>3, <2>1 DEF CommandsOK, Begin, Goto
  <2>3. \A d \in Commands : pc'[d] \notin {"write", "replace"}
    BY <1>0, <1>3, <2>1 DEF CommandsOK, Begin, Goto
  <2> QED
    BY <1>1, <1>3, <2>2, <2>3 DEF Alone, Begin, disk
<1>4. ASSUME NEW c \in Commands, NEW s \in Services, StartService(c, s)
      PROVE  Alone'
  <2>1. pc' = pc /\ pc[c] = "start" /\ \A d \in Commands : pc[d] # "idle" => d = c
    BY <1>1, <1>4 DEF Alone, StartService, Spawn
  <2> QED
    BY <1>1, <1>4, <2>1 DEF Alone, StartService, Spawn, disk
<1>5. ASSUME NEW c \in Commands, NEW s \in Services, StopService(c, s)
      PROVE  Alone'
  <2>1. pc' = pc /\ pc[c] = "stop" /\ \A d \in Commands : pc[d] # "idle" => d = c
    BY <1>1, <1>5 DEF Alone, StopService
  <2> QED
    BY <1>1, <1>5, <2>1 DEF Alone, StopService, disk
<1>6. ASSUME NEW c \in Commands, Abandon(c), UNCHANGED disk, pc[c] # "idle"
      PROVE  Alone'
  <2>1. \A d \in Commands : pc'[d] = "idle"
    BY <1>0, <1>1, <1>6 DEF Alone, CommandsOK, Abandon, Leave, Goto
  <2>2. \A d \in Commands : fd'[d] \in {"none", "tmp"}
    BY <1>0, <1>1, <1>6 DEF Alone, CommandsOK, Abandon
  <2> QED
    BY <1>1, <1>6, <2>1, <2>2 DEF Alone, disk
<1>7. ASSUME NEW c \in Commands, OpenTemporary(c)
      PROVE  Alone'
  <2>1. \A d \in Commands : pc'[d] # "idle" => d = c
    BY <1>0, <1>1, <1>7 DEF Alone, CommandsOK, OpenTemporary, Done, Goto
  <2>2. pc'[c] = "write" /\ fd' = [fd EXCEPT ![c] = "tmp"] /\ tmp' = Empty /\ file' = file
    BY <1>0, <1>7 DEF CommandsOK, OpenTemporary, Goto
  <2>3. \A d \in Commands : fd'[d] \in {"none", "tmp"}
    BY <1>0, <1>1, <2>2 DEF Alone, CommandsOK
  <2> QED
    BY <1>1, <2>1, <2>2, <2>3 DEF Alone
<1>8. ASSUME NEW c \in Commands, WriteState(c)
      PROVE  Alone'
  <2>1. \A d \in Commands : pc'[d] # "idle" => d = c
    BY <1>0, <1>1, <1>8 DEF Alone, CommandsOK, WriteState, Goto
  <2>2. fd[c] = "tmp" /\ tmp = Empty
    BY <1>0, <1>1, <1>8 DEF Alone, WriteState
  <2>3. tmp' = mem[c] /\ file' = file /\ mem' = mem /\ fd' = [fd EXCEPT ![c] = "none"]
    BY <1>8, <2>2 DEF WriteState, Written
  <2>4. pc'[c] = "replace"
    BY <1>0, <1>8 DEF CommandsOK, WriteState, Goto
  <2>5. \A d \in Commands : fd'[d] \in {"none", "tmp"}
    BY <1>0, <1>1, <2>3 DEF Alone, CommandsOK
  <2> QED
    BY <1>1, <2>1, <2>3, <2>4, <2>5 DEF Alone
<1>9. ASSUME NEW c \in Commands, Replace(c)
      PROVE  Alone'
  <2>1. \A d \in Commands : pc'[d] = "idle"
    BY <1>0, <1>1, <1>9 DEF Alone, CommandsOK, Replace, Leave, Goto
  <2>2. \A d \in Commands : fd'[d] \in {"none", "tmp"}
    <3>1. \A d \in Commands : fd[d] = "none"
      BY <1>0, <1>1, <1>9 DEF Alone, Replace
    <3> QED
      BY <1>9, <3>1 DEF Replace
  <2>3. file' = mem[c] /\ mem[c] \in States
    BY <1>0, <1>1, <1>9 DEF Alone, CommandsOK, Replace
  <2> QED
    BY <2>1, <2>2, <2>3, ContentAssumption DEF Alone
<1>10. ASSUME NEW c \in Commands, Command(c)
       PROVE  Alone'
  <2>1. CASE \E names \in SUBSET Services, action \in {"start", "stop"} :
               Begin(c, action, names)
    BY <1>3, <2>1
  <2>2. CASE \E s \in Services : Skip(c, s) \/ StartService(c, s) \/ StopService(c, s)
    BY <1>2, <1>4, <1>5, <2>2 DEF Skip
  <2>3. CASE StartRaises(c) \/ StopRaises(c) \/ ReplaceRaises(c) \/ Kill(c)
    BY <1>6, <2>3 DEF StartRaises, StopRaises, ReplaceRaises, Kill
  <2>4. CASE OpenTemporary(c) \/ WriteState(c) \/ Replace(c)
    BY <1>7, <1>8, <1>9, <2>4
  <2> QED
    BY <1>10, <2>1, <2>2, <2>3, <2>4 DEF Command
<1> QED
  BY <1>2, <1>10 DEF Next, commands, Exit, Appear, TerminateMatching, KillStragglers
-----------------------------------------------------------------------------
(* What is known of the processes. *)

(* No step but a start brings forth a live process of the supervisor's. *)
LEMMA LiveShrinks ==
  ASSUME ProcessesOK, NEW s \in Services,
         \A p \in owned' \ dying' : p \in owned \ dying /\ runs'[p] = runs[p]
  PROVE  Live(s)' \subseteq Live(s)
  BY DEF Live

(* Known is kept when commands stay where they are and nothing comes alive. *)
LEMMA KnownStays ==
  ASSUME Known, UNCHANGED <<file, pc, mem, begun>>,
         \A s \in Services : Live(s)' \subseteq Live(s)
  PROVE  Known'
<1>1. FileTracks => FileTracks'
  BY DEF FileTracks
<1> QED
  BY <1>1 DEF Known

(* ... and when the only command ends, if the file then names what lives. *)
LEMMA KnownAtEnd ==
  ASSUME CommandsOK, Alone, NEW c \in Commands, pc[c] # "idle", Leave(c), FileTracks'
  PROVE  Known'
<1>1. \A d \in Commands : pc'[d] = "idle"
  BY DEF CommandsOK, Alone, Leave, Goto
<1> QED
  BY <1>1 DEF Known

(* A command cut short before it started anything leaves a file that names   *)
(* what lives.                                                               *)
LEMMA KnownWhenCutShort ==
  ASSUME CommandsOK, Alone, Known, NEW c \in Commands, pc[c] # "idle", ~begun[c],
         Abandon(c), UNCHANGED file,
         \A s \in Services : Live(s)' \subseteq Live(s)
  PROVE  Known'
<1>1. \A d \in Commands : pc[d] = "idle" \/ ~begun[d]
  BY DEF Alone
<1>2. FileTracks'
  BY <1>1 DEF Known, FileTracks
<1>3. Leave(c)
  BY DEF Abandon
<1> QED
  BY <1>2, <1>3, KnownAtEnd

(* A service that is started is in the command's memory.                     *)
LEMMA KnownStart ==
  ASSUME TypeOK, Alone, Known, NEW c \in Commands, NEW s \in Services, StartService(c, s)
  PROVE  Known'
<1>0. ProcessesOK /\ CommandsOK
  BY DEF TypeOK
<1> PICK p \in Pids :
      /\ runs[p] = Nothing
      /\ runs' = [runs EXCEPT ![p] = s]
      /\ owned' = owned \cup {p} /\ dying' = dying
      /\ mem' = [mem EXCEPT ![c][s] = p]
      /\ begun' = [begun EXCEPT ![c] = TRUE]
      /\ pc' = pc
  BY DEF StartService, Spawn
<1>1. pc[c] = "start" /\ MayBeGone(mem[c][s])
  BY DEF StartService
<1>2. p \notin owned /\ p \notin dying
  BY <1>0 DEF ProcessesOK
<1>3. Live(s) = {}
  <2>1. \A q \in Live(s) : q \in Pids /\ mem[c][s] = q /\ runs[q] = s
    BY <1>0, <1>1 DEF Known, Live, ProcessesOK
  <2> QED
    BY <1>1, <2>1, SupervisorAssumption DEF MayBeGone
<1>4. Live(s)' = {p}
  BY <1>0, <1>2, <1>3 DEF ProcessesOK, Live
<1>5. \A t \in Services \ {s} : Live(t)' = Live(t)
  BY <1>0, <1>2 DEF ProcessesOK, Live
<1>6. mem'[c][s] = p /\ \A t \in Services \ {s} : mem'[c][t] = mem[c][t]
  BY <1>0 DEF CommandsOK, States
<1>7. \A d \in Commands : pc'[d] # "idle" => d = c
  BY <1>1 DEF Alone
<1>8. \A t \in Services : \A q \in Live(t)' : mem'[c][t] = q
  <2>1. \A t \in Services : \A q \in Live(t) : mem[c][t] = q
    BY <1>1 DEF Known
  <2> QED
    BY <1>4, <1>5, <1>6, <2>1
<1>9. begun'[c] = TRUE
  BY <1>0 DEF CommandsOK
<1> QED
  BY <1>1, <1>7, <1>8, <1>9 DEF Known

(* A service that is stopped counts as live no longer, and leaves the others *)
(* in memory.                                                                *)
LEMMA KnownStop ==
  ASSUME TypeOK, Alone, Known, NEW c \in Commands, NEW s \in Services, StopService(c, s)
  PROVE  Known'
<1>0. ProcessesOK /\ CommandsOK
  BY DEF TypeOK
<1>1. pc[c] = "stop" /\ UNCHANGED <<runs, owned, file, pc, begun>>
  BY DEF StopService, disk
<1>2. mem[c][s] \in Pids \cup {NoPid} /\ dying \subseteq dying'
  BY <1>0 DEF CommandsOK, States, StopService
<1>3. \A t \in Services : Live(t)' \subseteq Live(t)
  BY <1>1, <1>2 DEF Live
<1>4. Live(s)' = {}
  <2>1. \A q \in Live(s) : q \in Pids /\ mem[c][s] = q /\ runs[q] = s
    BY <1>0, <1>1 DEF Known, Live, ProcessesOK
  <2>2. \A q \in Live(s) : q \in dying'
    BY <2>1, SupervisorAssumption DEF StopService, MayBeGone
  <2> QED
    BY <1>3, <2>2 DEF Live
<1>5. \A t \in Services \ {s} : mem'[c][t] = mem[c][t]
  BY <1>0 DEF CommandsOK, States, StopService
<1>6. \A d \in Commands : pc'[d] # "idle" => d = c
  BY <1>1 DEF Alone
<1>7. \A t \in Services : \A q \in Live(t)' : mem'[c][t] = q
  <2>1. \A t \in Services : \A q \in Live(t) : mem[c][t] = q
    BY <1>1 DEF Known
  <2> QED
    BY <1>3, <1>4, <1>5, <2>1
<1>8. FileTracks => FileTracks'
  BY <1>1, <1>3 DEF FileTracks
<1> QED
  BY <1>1, <1>6, <1>7, <1>8 DEF Known

(* Every step of commands that do not overlap, and are not cut short, keeps  *)
(* every live service known.                                                 *)
LEMMA KnownStep ==
  ASSUME TypeOK, Next, Alone, Known, ~overlapped', ~killed', ~raised'
  PROVE  Known'
<1>0. ProcessesOK /\ CommandsOK
  BY DEF TypeOK
<1>1. ASSUME UNCHANGED processes
      PROVE  \A s \in Services : Live(s)' \subseteq Live(s)
  BY <1>0, <1>1, LiveShrinks DEF processes
<1>2. ASSUME NEW c \in Commands, NEW names \in SUBSET Services,
             NEW action \in {"start", "stop"}, Begin(c, action, names)
      PROVE  Known'
  <2>1. \A d \in Commands : pc[d] = "idle"
    BY <1>2 DEF Begin
  <2>2. FileTracks
    BY <2>1 DEF Known
  <2>3. \A s \in Services : Live(s)' = Live(s)
    BY <1>2 DEF Begin, processes, Live
  <2>4. FileTracks'
    BY <1>2, <2>2, <2>3 DEF FileTracks, Begin, disk
  <2>5. mem'[c] = ReadState
    BY <1>0, <1>2 DEF CommandsOK, Begin
  <2>6. \A s \in Services : \A p \in Live(s)' : mem'[c][s] = p
    BY <2>2, <2>3, <2>5 DEF FileTracks, ReadState
  <2>7. \A d \in Commands : pc'[d] # "idle" => d = c
    BY <1>0, <1>2, <2>1 DEF CommandsOK, Begin, Goto
  <2>8. ~begun'[c]
    BY <1>0, <1>2 DEF CommandsOK, Begin
  <2> QED
    BY <2>4, <2>6, <2>7, <2>8 DEF Known
<1>3. ASSUME NEW c \in Commands, NEW s \in Services, Skip(c, s)
      PROVE  Known'
  BY <1>1, <1>3, KnownStays DEF Skip, disk
<1>4. ASSUME NEW c \in Commands, StopRaises(c)
      PROVE  Known'
  <2>1. \A s \in Services : Live(s)' \subseteq Live(s)
    <3>1. CASE UNCHANGED processes
      BY <1>1, <3>1
    <3>2. CASE \E p : /\ runs' = [runs EXCEPT ![p] = Nothing]
                      /\ owned' = owned \ {p} /\ dying' = dying \ {p} /\ prey' = prey \ {p}
      BY <1>0, <3>2, LiveShrinks DEF ProcessesOK
    <3> QED
      BY <1>4, <3>1, <3>2 DEF StopRaises
  <2>2. pc[c] = "stop" /\ ~begun[c] /\ Abandon(c) /\ UNCHANGED file
    BY <1>4 DEF Known, StopRaises, disk
  <2> QED
    BY <1>0, <2>1, <2>2, KnownWhenCutShort
<1>5. ASSUME NEW c \in Commands, StartRaises(c) \/ ReplaceRaises(c) \/ Kill(c)
      PROVE  Known'
  <2>1. pc[c] # "idle" /\ Abandon(c) /\ UNCHANGED processes /\ UNCHANGED file
    BY <1>5 DEF StartRaises, ReplaceRaises, Kill, disk
  <2>2. raised' = (raised \/ begun[c]) \/ killed' = (killed \/ begun[c])
    BY <1>5 DEF StartRaises, ReplaceRaises, Kill
  <2>3. ~begun[c]
    BY <2>2, Zenon
  <2> QED
    BY <1>0, <1>1, <2>1, <2>3, KnownWhenCutShort
<1>6. ASSUME NEW c \in Commands, OpenTemporary(c) \/ WriteState(c)
      PROVE  Known'
  <2>1. pc[c] # "idle" /\ pc'[c] \notin {"idle", "stop"} /\ UNCHANGED <<mem, begun>>
    BY <1>0, <1>6 DEF CommandsOK, OpenTemporary, WriteState, Done, Goto
  <2>2. \A d \in Commands \ {c} : pc'[d] = pc[d]
    BY <1>0, <1>6 DEF CommandsOK, OpenTemporary, WriteState, Goto
  <2>3. file' = file
    <3>1. WriteState(c) => fd[c] = "tmp"
      BY DEF Alone, TypeOK, WriteState
    <3> QED
      BY <1>6, <3>1 DEF OpenTemporary, WriteState
  <2>4. \A s \in Services : Live(s)' \subseteq Live(s)
    BY <1>1, <1>6 DEF OpenTemporary, WriteState
  <2>5. FileTracks => FileTracks'
    BY <2>3, <2>4 DEF FileTracks
  <2> QED
    BY <2>1, <2>2, <2>4, <2>5 DEF Known
<1>7. ASSUME NEW c \in Commands, Replace(c)
      PROVE  Known'
  <2>1. file' = mem[c] /\ mem[c] \in States /\ pc[c] # "idle" /\ Leave(c)
    BY <1>0, <1>7 DEF CommandsOK, Alone, Replace
  <2>2. \A s \in Services : Live(s)' \subseteq Live(s)
    BY <1>1, <1>7 DEF Replace
  <2>3. FileTracks'
    BY <2>1, <2>2 DEF Known, FileTracks
  <2> QED
    BY <1>0, <2>1, <2>3, KnownAtEnd
<1>8. ASSUME NEW p \in Pids, Exit(p)
      PROVE  Known'
  <2>1. \A s \in Services : Live(s)' \subseteq Live(s)
    BY <1>0, <1>8, LiveShrinks DEF ProcessesOK, Exit
  <2> QED
    BY <1>8, <2>1, KnownStays DEF Exit, disk, commands
<1>9. ASSUME NEW p \in Pids, NEW what \in Services \cup {Foreign}, Appear(p, what)
      PROVE  Known'
  <2>1. \A s \in Services : Live(s)' \subseteq Live(s)
    BY <1>0, <1>9, LiveShrinks DEF ProcessesOK, Appear
  <2> QED
    BY <1>9, <2>1, KnownStays DEF Appear, disk, commands
<1>10. ASSUME NEW s \in Services, TerminateMatching(s)
       PROVE  Known'
  <2>1. \A t \in Services : Live(t)' \subseteq Live(t)
    BY <1>10 DEF Live, TerminateMatching
  <2> QED
    BY <1>10, <2>1, KnownStays DEF TerminateMatching, disk, commands
<1>11. CASE KillStragglers
  <2>1. \A s \in Services : Live(s)' \subseteq Live(s)
    BY <1>0, <1>11, LiveShrinks DEF ProcessesOK, KillStragglers
  <2> QED
    BY <1>11, <2>1, KnownStays DEF KillStragglers, disk, commands
<1>12. ASSUME NEW c \in Commands, Command(c)
       PROVE  Known'
  <2>1. CASE \E names \in SUBSET Services, action \in {"start", "stop"} :
               Begin(c, action, names)
    BY <1>2, <2>1
  <2>2. CASE \E s \in Services : Skip(c, s) \/ StartService(c, s) \/ StopService(c, s)
    BY <1>3, <2>2, KnownStart, KnownStop
  <2>3. CASE StartRaises(c) \/ StopRaises(c) \/ ReplaceRaises(c) \/ Kill(c)
    BY <1>4, <1>5, <2>3
  <2>4. CASE OpenTemporary(c) \/ WriteState(c) \/ Replace(c)
    BY <1>6, <1>7, <2>4
  <2> QED
    BY <1>12, <2>1, <2>2, <2>3, <2>4 DEF Command
<1> QED
  BY <1>8, <1>9, <1>10, <1>11, <1>12 DEF Next
-----------------------------------------------------------------------------
(* The invariant is inductive. *)
LEMMA StepIndInv == IndInv /\ [Next]_vars => IndInv'
<1> SUFFICES ASSUME IndInv, [Next]_vars PROVE IndInv'
  OBVIOUS
<1>1. TypeOK'
  BY TypeStep DEF IndInv
<1>2. CASE Next
  <2>1. ~overlapped' => Alone'
    BY <1>2, AloneStep, Zenon DEF IndInv
  <2>2. ~overlapped' /\ ~killed' /\ ~raised' => Known'
    <3> SUFFICES ASSUME ~overlapped', ~killed', ~raised' PROVE Known'
      OBVIOUS
    <3>1. ~overlapped /\ ~killed /\ ~raised
      BY <1>2, HistoryStays, Zenon
    <3>2. TypeOK /\ Alone /\ Known
      BY <3>1, Zenon DEF IndInv
    <3> QED
      BY <1>2, <3>2, KnownStep, Zenon
  <2> QED
    BY <1>1, <2>1, <2>2, Zenon DEF IndInv
<1>3. CASE UNCHANGED vars
  BY <1>1, <1>3
     DEF IndInv, Alone, Known, FileTracks, Live, vars, processes, disk, commands, history
<1> QED
  BY <1>2, <1>3

(* TypeOK, Alone and Known together are kept by every step of the            *)
(* supervisor, its processes and the console.                                *)
THEOREM Invariance == Spec => []IndInv
BY InitIndInv, StepIndInv, PTL DEF Spec

(* Every variable keeps its type, and only a command that is writing has a   *)
(* file open (supervisor.py).                                                *)
THEOREM TypeCorrect == Spec => []TypeOK
<1>1. IndInv => TypeOK
  BY DEF IndInv
<1> QED
  BY Invariance, <1>1, PTL

(* While commands run one after the other and none is cut short after it     *)
(* started something, every service the supervisor runs is known to it and   *)
(* runs once (supervisor.py, start, stop), for any number of commands, ids,  *)
(* services and processes ended or started by others.                        *)
THEOREM ServicesAreTracked == Spec => []LoneCommandsTrack
<1>1. IndInv => LoneCommandsTrack
  <2> SUFFICES ASSUME IndInv, ~overlapped /\ ~killed /\ ~raised, NEW s \in Services
               PROVE  /\ \A p, q \in Live(s) : p = q
                      /\ \A p \in Live(s) : Tracked(s, p)
    BY Zenon DEF LoneCommandsTrack
  <2>1. Known
    BY Zenon DEF IndInv
  <2>2. CASE \E c \in Commands : pc[c] # "idle"
    BY <2>1, <2>2 DEF Known, Tracked
  <2>3. CASE \A c \in Commands : pc[c] = "idle"
    BY <2>1, <2>3 DEF Known, FileTracks, Tracked
  <2> QED
    BY <2>2, <2>3
<1> QED
  BY Invariance, <1>1, PTL

(* Commands that do not overlap never leave a half-written state file,       *)
(* wherever they are killed (supervisor.py, save).                           *)
THEOREM StateFileIsWhole == Spec => []WholeUnlessOverlapped
<1>1. IndInv => WholeUnlessOverlapped
  BY Zenon DEF IndInv, Alone, WholeUnlessOverlapped
<1> QED
  BY Invariance, <1>1, PTL
=============================================================================
