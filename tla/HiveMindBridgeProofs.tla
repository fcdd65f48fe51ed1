------------------------- MODULE HiveMindBridgeProofs -------------------------
(***************************************************************************)
(* Proofs about HiveMindBridge, for every number of scans, crashes and     *)
(* starts and every set of assets: what the engine trades was announced    *)
(* and never vetoed, no process trades one signal more than three times,   *)
(* and torn reads need a write that overlaps.                              *)
(***************************************************************************)
EXTENDS HiveMindBridge, TLAPS

DaemonStep == Scan \/ Publish \/ DaemonCrash

(* A step is one of the daemon's, of the engine's, or one from outside.      *)
LEMMA NextCases ==
  [Next]_vars <=> \/ DaemonStep \/ Start \/ Stop \/ Halt \/ EngineLoop \/ UNCHANGED vars
BY DEF Next, DaemonStep

(* The numbers of scans are numbers. *)
LEMMA Numbers ==
  ASSUME TypeOK
  PROVE  /\ sequence \in Nat /\ signal \in Nat /\ hedge \in Nat /\ spread \in Nat
         /\ scan \in Nat /\ lastSeq \in Nat /\ lastSeq <= sequence
         /\ arbSig \in Nat /\ beta \in Nat /\ z \in Nat
         /\ announced \in [ScanOrNone -> Nat] /\ announced \in [ScanOrNone -> ScanOrNone]
         /\ lastSeq \in ScanOrNone /\ sequence \in ScanOrNone /\ 0 \in ScanOrNone
BY BridgeAssumption DEF TypeOK, ScanOrNone

(* What the daemon's stores leave alone of the engine, and which fields each *)
(* of them sets.                                                             *)
LEMMA DaemonLeaves ==
  DaemonStep => UNCHANGED <<up, kill, starts, rpc, lastSeq, arbSig, beta, z, todo, held, runs>>
<1>1. Scan \/ DaemonCrash =>
        UNCHANGED <<up, kill, starts, rpc, lastSeq, arbSig, beta, z, todo, held, runs>>
  BY DEF Scan, DaemonCrash, process, engine, copies
<1>2. Publish =>
        UNCHANGED <<up, kill, starts, rpc, lastSeq, arbSig, beta, z, todo, held, runs>>
  BY DEF Publish, WriteSignal, WriteHedge, WriteSpread, WriteWeight, Announce, Store,
         process, copies
<1> QED
  BY <1>1, <1>2 DEF DaemonStep

(* The engine never writes what the daemon writes.                           *)
LEMMA EngineLeaves ==
  EngineLoop \/ Start \/ Stop \/ Halt =>
    UNCHANGED <<sequence, signal, hedge, spread, weighted, wpc, scan, trades, vetoed, announced,
                torn, crashes>>
<1> USE DEF struct, daemon
<1>1. EngineLoop =>
        UNCHANGED <<sequence, signal, hedge, spread, weighted, wpc, scan, trades, vetoed,
                    announced, torn, crashes>>
  BY DEF EngineLoop, Poll, ReadSignal, Gate, ReadHedge, ReadSpread, TradePair, Rebalance, Finish
<1>2. Start \/ Stop \/ Halt =>
        UNCHANGED <<sequence, signal, hedge, spread, weighted, wpc, scan, trades, vetoed,
                    announced, torn, crashes>>
  BY DEF Start, Stop, Halt
<1> QED
  BY <1>1, <1>2

-----------------------------------------------------------------------------
(* The daemon's side. *)

(* Nothing is announced, written or vetoed at the start.                     *)
LEMMA InitDaemon == Init => DaemonInv
BY BridgeAssumption DEF Init, DaemonInv, Writing, FieldsReach, ScanOrNone

(* The number a field holds never goes back, and sequence is stored last.    *)
LEMMA DaemonStepInv ==
  ASSUME TypeOK, DaemonInv, DaemonStep
  PROVE  DaemonInv'
<1> USE Numbers DEF DaemonInv, FieldsReach, Writing
<1>1. CASE Scan
  <2>1. /\ scan' = scan + 1 /\ wpc = "idle"
        /\ UNCHANGED <<sequence, signal, hedge, spread, announced, torn>>
    BY <1>1 DEF Scan, struct
  <2>2. /\ trades' \subseteq 1 .. scan' /\ vetoed' \subseteq trades'
        /\ wpc' \in {"idle", "signal"}
        /\ vetoed' \subseteq vetoed \cup {scan + 1}
        /\ wpc' = "signal" => vetoed' = vetoed
    <3>1. PICK tradeIt \in BOOLEAN, veto \in BOOLEAN :
            /\ veto => tradeIt
            /\ trades' = IF tradeIt THEN trades \cup {scan + 1} ELSE trades
            /\ vetoed' = IF veto THEN vetoed \cup {scan + 1} ELSE vetoed
            /\ wpc' = IF veto THEN "idle" ELSE "signal"
      BY <1>1, <2>1 DEF Scan
    <3>2. trades \subseteq 1 .. scan /\ vetoed \subseteq trades /\ 1 .. scan \subseteq 1 .. scan'
          /\ scan + 1 \in 1 .. scan'
      BY <2>1
    <3>3. CASE veto
      BY <3>1, <3>2, <3>3
    <3>4. CASE ~veto
      BY <3>1, <3>2, <3>4
    <3> QED
      BY <3>3, <3>4
  <2>3. scan + 1 \notin vetoed /\ signal # scan + 1
    OBVIOUS
  <2> QED
    BY <2>1, <2>2, <2>3
<1>2. CASE DaemonCrash
  BY <1>2 DEF DaemonCrash, struct
<1>3. CASE WriteSignal
  BY <1>3 DEF WriteSignal, Store
<1>4. CASE WriteHedge
  BY <1>4 DEF WriteHedge, Store
<1>5. CASE WriteSpread
  BY <1>5 DEF WriteSpread, Store
<1>6. CASE WriteWeight
  BY <1>6 DEF WriteWeight, Store
<1>7. CASE Announce
  <2>1. /\ wpc = "weights" /\ wpc' = "idle" /\ sequence' = sequence + 1
        /\ announced' = [announced EXCEPT ![sequence + 1] = scan]
        /\ UNCHANGED <<signal, hedge, spread, scan, trades, vetoed>>
    BY <1>7 DEF Announce, Store
  <2>2. sequence + 1 \in ScanOrNone
    BY <2>1, BridgeAssumption DEF ScanOrNone, TypeOK
  <2>3. announced'[sequence'] = scan /\ announced'[0] = 0
    BY <2>1, <2>2
  <2> QED
    BY <2>1, <2>3
<1> QED
  BY <1>1, <1>2, <1>3, <1>4, <1>5, <1>6, <1>7 DEF DaemonStep, Publish

(* The daemon's part of the invariant depends on the daemon's variables      *)
(* only.                                                                     *)
LEMMA DaemonKept ==
  ASSUME DaemonInv,
         UNCHANGED <<sequence, signal, hedge, spread, weighted, wpc, scan, trades, vetoed,
                    announced,
                     torn, crashes>>
  PROVE  DaemonInv'
BY DEF DaemonInv, FieldsReach

-----------------------------------------------------------------------------
(* Types. *)

(* The types at the start.                                                   *)
LEMMA InitType == Init => TypeOK
<1> SUFFICES ASSUME Init PROVE TypeOK
  OBVIOUS
<1> USE BridgeAssumption DEF Init
<1>1. torn \in BOOLEAN /\ up \in BOOLEAN /\ kill \in BOOLEAN /\ calm \in BOOLEAN
  OBVIOUS
<1>2. runs \in [Scans -> 0 .. MaxRuns] /\ announced \in [ScanOrNone -> ScanOrNone]
  BY DEF ScanOrNone
<1> QED
  BY <1>1, <1>2 DEF TypeOK, ScanOrNone

(* The daemon's steps keep the types.                                        *)
LEMMA DaemonType == ASSUME TypeOK, DaemonInv, DaemonStep PROVE TypeOK'
<1> USE BridgeAssumption
<1>1. /\ scan' \in ScanOrNone /\ scan' >= scan
      /\ trades' \subseteq Scans /\ vetoed' \subseteq trades'
  <2>1. CASE Scan
    BY <2>1 DEF Scan, TypeOK, Scans, ScanOrNone
  <2>2. CASE ~Scan
    <3>1. UNCHANGED <<scan, trades, vetoed>>
      BY <2>2 DEF DaemonStep, Publish, WriteSignal, WriteHedge, WriteSpread, WriteWeight, Announce,
                  Store, DaemonCrash
    <3> QED
      BY <3>1 DEF TypeOK, ScanOrNone
  <2> QED
    BY <2>1, <2>2
<1>2. signal' \in ScanOrNone /\ hedge' \in ScanOrNone /\ spread' \in ScanOrNone
  <2>1. signal' \in {signal, scan} /\ hedge' \in {hedge, scan} /\ spread' \in {spread, scan}
    BY DEF DaemonStep, Scan, Publish, WriteSignal, WriteHedge, WriteSpread, WriteWeight, Announce,
           DaemonCrash, struct
  <2> QED
    BY <2>1 DEF TypeOK
<1>3. weighted' \subseteq Assets
  BY DEF DaemonStep, Scan, Publish, WriteSignal, WriteHedge, WriteSpread, WriteWeight, Announce,
         DaemonCrash, struct, TypeOK
<1>4. wpc' \in {"idle", "signal", "hedge", "spread", "weights"}
  BY DEF DaemonStep, Scan, Publish, WriteSignal, WriteHedge, WriteSpread, WriteWeight, Announce,
         Store, DaemonCrash
<1>5. /\ sequence' \in ScanOrNone /\ sequence' >= sequence
      /\ announced' \in [ScanOrNone -> ScanOrNone]
  <2>1. CASE Announce
    <3>1. sequence' = sequence + 1 /\ announced' = [announced EXCEPT ![sequence + 1] = scan]
      BY <2>1 DEF Announce
    <3>2. sequence < scan
      BY <2>1 DEF Announce, Store, DaemonInv
    <3> QED
      BY <3>1, <3>2 DEF TypeOK, ScanOrNone
  <2>2. CASE ~Announce
    <3>1. UNCHANGED <<sequence, announced>>
      BY <2>2 DEF DaemonStep, Scan, Publish, WriteSignal, WriteHedge, WriteSpread, WriteWeight,
                  DaemonCrash, struct
    <3> QED
      BY <3>1 DEF TypeOK, ScanOrNone
  <2> QED
    BY <2>1, <2>2
<1>6. torn' \in BOOLEAN /\ calm' \in BOOLEAN
  <2>1. torn' \in {torn, TRUE, FALSE} /\ calm' \in {calm, FALSE}
    BY DEF DaemonStep, Scan, Publish, WriteSignal, WriteHedge, WriteSpread, WriteWeight, Announce,
           Store, DaemonCrash, engine
  <2>2. torn \in BOOLEAN /\ calm \in BOOLEAN
    BY DEF TypeOK
  <2> QED
    BY <2>1, <2>2
<1>7. crashes' \in 0 .. MaxCrashes
  BY DEF DaemonStep, Scan, Publish, WriteSignal, WriteHedge, WriteSpread, WriteWeight, Announce,
         Store, DaemonCrash, TypeOK
<1>8. lastSeq' \in 0 .. sequence' /\ arbSig' \in 0 .. scan' /\ beta' \in 0 .. scan'
      /\ z' \in 0 .. scan'
  <2>1. UNCHANGED <<lastSeq, arbSig, beta, z>>
    BY DaemonLeaves
  <2> QED
    <3>1. scan' \in Nat /\ sequence' \in Nat
      BY <1>1, <1>5 DEF ScanOrNone
    <3>2. /\ lastSeq \in 0 .. sequence /\ arbSig \in 0 .. scan /\ beta \in 0 .. scan
          /\ z \in 0 .. scan /\ scan \in Nat /\ sequence \in Nat
      BY Numbers DEF TypeOK
    <3> QED
      BY <1>1, <1>5, <2>1, <3>1, <3>2
<1> QED
  BY <1>1, <1>2, <1>3, <1>4, <1>5, <1>6, <1>7, <1>8, DaemonLeaves DEF TypeOK

(* The steps of the engine, and those from outside, keep the types.          *)
LEMMA EngineType ==
  ASSUME TypeOK, DaemonInv, EngineLoop \/ Start \/ Stop \/ Halt
  PROVE  TypeOK'
<1> USE BridgeAssumption
<1> USE DEF copies, process, engine
<1>1. /\ lastSeq' \in 0 .. sequence
      /\ arbSig' \in 0 .. scan /\ beta' \in 0 .. scan /\ z' \in 0 .. scan
  <2>1. /\ lastSeq' \in {lastSeq, sequence, 0} /\ arbSig' \in {arbSig, signal, 0}
        /\ beta' \in {beta, hedge, 0} /\ z' \in {z, spread, 0}
    BY DEF EngineLoop, Poll, ReadSignal, Gate, ReadHedge, ReadSpread, TradePair, Rebalance, Finish,
           Start, Stop, Halt
  <2> QED
    BY <2>1, Numbers DEF DaemonInv, TypeOK
<1>2. rpc' \in {"poll", "signal", "gate", "hedge", "spread", "trade", "rebalance"}
  BY DEF EngineLoop, Poll, ReadSignal, Gate, ReadHedge, ReadSpread, TradePair, Rebalance, Finish,
         Start, Stop, Halt, TypeOK
<1>3. todo' \subseteq Assets /\ held' \subseteq Assets
  BY DEF EngineLoop, Poll, ReadSignal, Gate, ReadHedge, ReadSpread, TradePair, Rebalance, Finish,
         Start, Stop, Halt, TypeOK
<1>4. runs' \in [Scans -> 0 .. MaxRuns]
  <2>1. CASE TradePair
    <3>1. /\ runs' = [runs EXCEPT ![arbSig] = @ + 1] /\ runs[arbSig] < MaxRuns
          /\ runs \in [Scans -> 0 .. MaxRuns]
      BY <2>1 DEF TradePair, TypeOK
    <3>2. arbSig \in Scans => runs[arbSig] + 1 \in 0 .. MaxRuns
      BY <3>1
    <3> QED
      BY <3>1, <3>2
  <2>2. CASE Start
    BY <2>2 DEF Start
  <2>3. CASE ~TradePair /\ ~Start
    BY <2>3 DEF EngineLoop, Poll, ReadSignal, Gate, ReadHedge, ReadSpread, Rebalance, Finish,
                Stop, Halt, TypeOK
  <2> QED
    BY <2>1, <2>2, <2>3
<1>5. starts' \in 0 .. MaxStarts
  BY DEF EngineLoop, Poll, ReadSignal, Gate, ReadHedge, ReadSpread, TradePair, Rebalance, Finish,
         Start, Stop, Halt, TypeOK
<1>6. up' \in BOOLEAN /\ kill' \in BOOLEAN /\ calm' \in BOOLEAN
  <2>1. up' \in {up, TRUE, FALSE} /\ kill' \in {kill, TRUE, FALSE}
    BY DEF EngineLoop, Poll, ReadSignal, Gate, ReadHedge, ReadSpread, TradePair, Rebalance, Finish,
           Start, Stop, Halt
  <2>2. calm' = calm \/ calm' = TRUE \/ calm' = (wpc = "idle" /\ ~torn)
    BY DEF EngineLoop, Poll, ReadSignal, Gate, ReadHedge, ReadSpread, TradePair, Rebalance, Finish,
           Start, Stop, Halt
  <2>3. up \in BOOLEAN /\ kill \in BOOLEAN /\ calm \in BOOLEAN
    BY DEF TypeOK
  <2> QED
    BY <2>1, <2>2, <2>3
<1> QED
  BY <1>1, <1>2, <1>3, <1>4, <1>5, <1>6, EngineLeaves DEF TypeOK, ScanOrNone

(* Nothing changes where nothing changes.                                    *)
LEMMA StutterInv ==
  ASSUME UNCHANGED vars
  PROVE  /\ TypeOK => TypeOK'
         /\ DaemonInv => DaemonInv'
         /\ EngineInv => EngineInv'
         /\ CalmInv => CalmInv'
         /\ RunsInv => RunsInv'
<1> USE DEF vars, struct, daemon, process, engine, copies
<1>1. TypeOK => TypeOK'
  BY DEF TypeOK
<1>2. DaemonInv => DaemonInv'
  BY DEF DaemonInv, FieldsReach
<1>3. EngineInv => EngineInv'
  BY DEF EngineInv, FieldsReach
<1>4. CalmInv => CalmInv'
  BY DEF CalmInv
<1>5. RunsInv => RunsInv'
  BY DEF RunsInv, Underway, Unread, Unannounced
<1> QED
  BY <1>1, <1>2, <1>3, <1>4, <1>5

-----------------------------------------------------------------------------
(* The engine's side. *)

(* The engine has read and traded nothing at the start.                      *)
LEMMA InitEngine == Init => EngineInv /\ CalmInv /\ RunsInv
<1> SUFFICES ASSUME Init PROVE EngineInv /\ CalmInv /\ RunsInv
  OBVIOUS
<1> USE BridgeAssumption DEF Init
<1>1. EngineInv
  BY DEF EngineInv, FieldsReach, Reading, ScanOrNone
<1>2. CalmInv
  BY DEF CalmInv, Reading
<1>3. RunsInv
  BY DEF RunsInv, Scans
<1> QED
  BY <1>1, <1>2, <1>3

(* The daemon never makes a field older, and never vetoes what it wrote.     *)
LEMMA DaemonKeepsEngine ==
  ASSUME TypeOK, DaemonInv, EngineInv, DaemonStep
  PROVE  EngineInv'
<1> USE Numbers
<1>1. UNCHANGED <<rpc, lastSeq, arbSig, beta, z>>
  BY DaemonLeaves
<1>2. signal' >= signal /\ hedge' >= hedge /\ spread' >= spread
  BY DEF DaemonInv, DaemonStep, Scan, Publish, WriteSignal, WriteHedge, WriteSpread, WriteWeight,
         Announce, DaemonCrash, struct
<1>3. signal' \in Nat /\ hedge' \in Nat /\ spread' \in Nat
  BY DaemonType, Numbers DEF TypeOK, ScanOrNone
<1>4. announced'[lastSeq] = announced[lastSeq]
  <2>1. CASE Announce
    <3>1. announced' = [announced EXCEPT ![sequence + 1] = scan] /\ sequence + 1 # lastSeq
      BY <2>1 DEF Announce
    <3> QED
      BY <3>1
  <2>2. CASE ~Announce
    BY <2>2 DEF DaemonStep, Scan, Publish, WriteSignal, WriteHedge, WriteSpread, WriteWeight,
                DaemonCrash
  <2> QED
    BY <2>1, <2>2
<1>5. trades \subseteq trades' /\ vetoed' \subseteq vetoed \cup {scan + 1}
  BY DEF DaemonStep, Scan, Publish, WriteSignal, WriteHedge, WriteSpread, WriteWeight,
         Announce, Store, DaemonCrash
<1>6. arbSig # scan + 1
  BY DEF EngineInv, DaemonInv
<1>7. announced[lastSeq] \in Nat
  OBVIOUS
<1> QED
  BY <1>1, <1>2, <1>3, <1>4, <1>5, <1>6, <1>7 DEF EngineInv, FieldsReach

(* Whatever the engine loads is not older than what was announced.           *)
LEMMA EngineStepInv ==
  ASSUME TypeOK, DaemonInv, EngineInv, EngineLoop \/ Start \/ Stop \/ Halt
  PROVE  EngineInv'
<1> USE Numbers, EngineLeaves DEF EngineInv, FieldsReach, Reading
<1>1. announced[lastSeq] \in Nat /\ announced[sequence] \in Nat
  OBVIOUS
<1>2. CASE Poll
  BY <1>1, <1>2 DEF Poll, At, copies, DaemonInv
<1>3. CASE ReadSignal
  BY <1>1, <1>3 DEF ReadSignal, At, DaemonInv
<1>4. CASE Gate
  BY <1>4 DEF Gate, At, copies
<1>5. CASE ReadHedge
  BY <1>1, <1>5 DEF ReadHedge, At
<1>6. CASE ReadSpread
  BY <1>1, <1>6 DEF ReadSpread, At
<1>7. CASE TradePair \/ Rebalance \/ Finish
  BY <1>7 DEF TradePair, Rebalance, Finish, At, copies
<1>8. CASE Start
  <2>1. rpc' = "poll" /\ lastSeq' = 0 /\ arbSig' = 0
    BY <1>8 DEF Start
  <2>2. 0 \notin vetoed
    BY DEF DaemonInv
  <2>3. announced[0] = 0
    BY DEF DaemonInv
  <2> QED
    BY <2>1, <2>2, <2>3
<1>9. CASE Stop \/ Halt
  BY <1>9 DEF Stop, Halt, engine, copies
<1> QED
  BY <1>2, <1>3, <1>4, <1>5, <1>6, <1>7, <1>8, <1>9 DEF EngineLoop

(* Calm: a store ends it, and everything else leaves the fields alone.       *)
LEMMA StepCalm ==
  ASSUME TypeOK, DaemonInv, CalmInv, Next
  PROVE  CalmInv'
<1> USE DEF CalmInv, Reading
<1>1. CASE Publish
  BY <1>1 DEF Publish, WriteSignal, WriteHedge, WriteSpread, WriteWeight, Announce, Store
<1>2. CASE Scan \/ DaemonCrash
  BY <1>2 DEF Scan, DaemonCrash, struct, engine, copies
<1>3. CASE Start
  BY <1>3 DEF Start
<1>4. CASE Stop \/ Halt
  BY <1>4 DEF Stop, Halt, struct, engine, copies
<1>5. CASE Poll
  <2>1. rpc' = "signal" /\ (calm' => wpc = "idle" /\ ~torn) /\ UNCHANGED <<signal, hedge, spread>>
    BY <1>5 DEF Poll, struct
  <2> QED
    BY <2>1 DEF DaemonInv
<1>6. CASE ReadSignal
  BY <1>6 DEF ReadSignal, At, struct
<1>7. CASE Gate
  BY <1>7 DEF Gate, At, struct, copies
<1>8. CASE ReadHedge
  BY <1>8 DEF ReadHedge, At, struct
<1>9. CASE ReadSpread
  BY <1>9 DEF ReadSpread, At, struct
<1>10. CASE TradePair \/ Rebalance \/ Finish
  BY <1>10 DEF TradePair, Rebalance, Finish, At, struct, copies
<1> QED
  BY <1>1, <1>2, <1>3, <1>4, <1>5, <1>6, <1>7, <1>8, <1>9, <1>10 DEF Next, EngineLoop

-----------------------------------------------------------------------------
(* How often a signal can still be traded. *)

(* Each of the three supplements of the count is nothing or one ...          *)
LEMMA Counts ==
  /\ Unread \in {0, 1} /\ Unannounced \in {0, 1}
  /\ \A j : Underway(j) \in {0, 1}
BY DEF Unread, Unannounced, Underway

(* ... after a step too.                                                     *)
LEMMA CountsNext ==
  /\ Unread' \in {0, 1} /\ Unannounced' \in {0, 1}
  /\ \A j \in Scans : Underway(j)' \in {0, 1}
BY DEF Unread, Unannounced, Underway

(* A step that leaves the signal alone may move a trade from what is still   *)
(* to come to what is underway and on to what was done, and nothing else.    *)
LEMMA NoMoreRuns ==
  ASSUME TypeOK, RunsInv, signal' = signal,
         \A j \in Scans : runs'[j] \in Nat,
         \A j \in Scans : signal < j => runs'[j] = 0,
         \A j \in Scans : signal = j =>
           runs'[j] + Underway(j)' + Unread' + Unannounced'
             <= runs[j] + Underway(j) + Unread + Unannounced,
         \A j \in Scans : signal > j => runs'[j] + Underway(j)' <= runs[j] + Underway(j)
  PROVE  RunsInv'
<1> SUFFICES ASSUME NEW j \in Scans
             PROVE  /\ signal = j => runs'[j] + Underway(j)' + Unread' + Unannounced' <= 3
                    /\ signal > j => runs'[j] + Underway(j)' <= 3
                    /\ signal < j => runs'[j] = 0
  BY DEF RunsInv, Scans
<1>1. /\ Underway(j) \in {0, 1} /\ Unread \in {0, 1} /\ Unannounced \in {0, 1}
      /\ Underway(j)' \in {0, 1} /\ Unread' \in {0, 1} /\ Unannounced' \in {0, 1}
  BY Counts, CountsNext
<1>2. runs[j] \in Nat /\ runs'[j] \in Nat
  BY BridgeAssumption DEF TypeOK
<1>3. /\ signal = j => runs[j] + Underway(j) + Unread + Unannounced <= 3
      /\ signal > j => runs[j] + Underway(j) <= 3
  BY DEF RunsInv
<1>4. signal \in Nat /\ j \in Nat
  BY Numbers DEF Scans
<1> QED
  BY <1>1, <1>2, <1>3, <1>4

(* What is counted, and the number of the signal, are natural numbers.       *)
LEMMA RunsType ==
  ASSUME TypeOK
  PROVE  /\ \A j \in Scans : runs[j] \in Nat /\ j \in Nat
         /\ signal \in Nat
<1>1. runs \in [Scans -> 0 .. MaxRuns] /\ MaxRuns \in Nat
  BY BridgeAssumption DEF TypeOK
<1>2. \A j \in Scans : j \in Nat
  BY BridgeAssumption DEF Scans
<1> QED
  BY <1>1, <1>2, Numbers

(* Sums of four stay ordered if one pair is unchanged and the other does not *)
(* grow.                                                                     *)
LEMMA AddOrder ==
  ASSUME NEW a \in Nat, NEW b \in Nat, NEW c \in Nat, NEW d \in Nat,
         NEW a1 \in Nat, NEW b1 \in Nat, NEW c1 \in Nat, NEW d1 \in Nat,
         a1 + b1 = a + b, c1 + d1 <= c + d
  PROVE  a1 + b1 + c1 + d1 <= a + b + c + d
OBVIOUS

(* The daemon puts a new signal in place of one that nobody can pick up      *)
(* again, and lets it be picked up twice: for the sequence number that is    *)
(* there, and for its own.                                                   *)
LEMMA DaemonRuns ==
  ASSUME TypeOK, DaemonInv, EngineInv, RunsInv, DaemonStep
  PROVE  RunsInv'
<1> USE Numbers, RunsType
<1>1. UNCHANGED <<rpc, lastSeq, arbSig, runs>>
  BY DaemonLeaves
<1>2. CASE WriteSignal
  <2>1. wpc = "signal" /\ signal' = scan /\ signal < scan /\ arbSig <= signal
    BY <1>2 DEF WriteSignal, Store, DaemonInv, EngineInv
  <2> SUFFICES ASSUME NEW j \in Scans
               PROVE  /\ signal' = j => runs'[j] + Underway(j)' + Unread' + Unannounced' <= 3
                      /\ signal' > j => runs'[j] + Underway(j)' <= 3
                      /\ signal' < j => runs'[j] = 0
    BY DEF RunsInv, Scans
  <2>2. /\ Underway(j) \in {0, 1} /\ Unread \in {0, 1} /\ Unannounced \in {0, 1}
        /\ Underway(j)' \in {0, 1} /\ Unread' \in {0, 1} /\ Unannounced' \in {0, 1}
    BY Counts, CountsNext
  <2>3. runs'[j] = runs[j] /\ runs[j] \in Nat /\ j \in Nat
    BY <1>1
  <2>4. CASE signal < j
    <3>1. runs[j] = 0
      BY <2>4 DEF RunsInv
    <3> QED
      BY <2>2, <2>3, <3>1
  <2>5. CASE signal >= j
    <3>1. runs[j] + Underway(j) <= 3
      <4>1. CASE signal = j
        <5>1. runs[j] + Underway(j) + Unread + Unannounced <= 3
          BY <4>1 DEF RunsInv
        <5> QED
          BY <2>2, <2>3, <5>1
      <4>2. CASE signal > j
        BY <4>2 DEF RunsInv
      <4> QED
        BY <2>3, <2>5, <4>1, <4>2
    <3>2. Underway(j)' <= Underway(j)
      BY <1>1, <2>1, <2>5 DEF Underway
    <3> QED
      BY <2>1, <2>2, <2>3, <2>5, <3>1, <3>2
  <2> QED
    BY <2>3, <2>4, <2>5
<1>3. CASE ~WriteSignal
  <2>1. signal' = signal
    BY <1>3 DEF DaemonStep, Scan, Publish, WriteHedge, WriteSpread, WriteWeight, Announce,
                DaemonCrash, struct
  <2>2. \A j \in Scans : Underway(j)' = Underway(j)
    BY <1>1, <2>1 DEF Underway
  <2>3. Unread' + Unannounced' <= Unread + Unannounced
    <3>1. CASE Announce
      BY <1>1, <3>1 DEF Announce, Store, Unread, Unannounced, Writing
    <3>2. CASE ~Announce
      <4>1. sequence' = sequence
        BY <1>3, <3>2 DEF DaemonStep, Scan, Publish, WriteHedge, WriteSpread, WriteWeight,
                          DaemonCrash, struct
      <4>2. wpc' \in Writing => wpc \in Writing
        BY <1>3, <3>2 DEF DaemonStep, Scan, Publish, WriteHedge, WriteSpread, WriteWeight, Store,
                          DaemonCrash, Writing
      <4> QED
        BY <1>1, <4>1, <4>2 DEF Unread, Unannounced
    <3> QED
      BY <3>1, <3>2
  <2>4. ASSUME NEW j \in Scans
        PROVE  /\ runs'[j] \in Nat /\ (signal < j => runs'[j] = 0)
               /\ runs'[j] + Underway(j)' + Unread' + Unannounced'
                    <= runs[j] + Underway(j) + Unread + Unannounced
               /\ runs'[j] + Underway(j)' <= runs[j] + Underway(j)
    <3>1. /\ Underway(j) \in {0, 1} /\ Unread \in {0, 1} /\ Unannounced \in {0, 1}
          /\ Underway(j)' \in {0, 1} /\ Unread' \in {0, 1} /\ Unannounced' \in {0, 1}
      BY Counts, CountsNext
    <3>2. runs'[j] = runs[j] /\ runs[j] \in Nat /\ (signal < j => runs[j] = 0)
      BY <1>1 DEF RunsInv
    <3>3. Underway(j)' = Underway(j)
      BY <2>2
    <3>4. runs'[j] + Underway(j)' = runs[j] + Underway(j) /\ runs[j] + Underway(j) \in Nat
      BY <3>1, <3>2, <3>3
    <3>5. runs'[j] + Underway(j)' + Unread' + Unannounced'
            <= runs[j] + Underway(j) + Unread + Unannounced
      <4>1. /\ Unread \in Nat /\ Unannounced \in Nat /\ Unread' \in Nat /\ Unannounced' \in Nat
            /\ Underway(j) \in Nat /\ Underway(j)' \in Nat
            /\ runs[j] \in Nat /\ runs'[j] \in Nat
        BY <3>1, <3>2
      <4> QED
        BY <2>3, <3>4, <4>1, AddOrder
    <3>6. runs'[j] + Underway(j)' <= runs[j] + Underway(j)
      BY <3>4
    <3> QED
      BY <3>2, <3>5, <3>6
  <2> QED
    BY <2>1, <2>4, NoMoreRuns
<1> QED
  BY <1>2, <1>3

(* The engine turns what it has not read into what is underway, and that     *)
(* into one more trade or none.                                              *)
LEMMA EngineRuns ==
  ASSUME TypeOK, DaemonInv, EngineInv, RunsInv, EngineLoop \/ Stop \/ Halt
  PROVE  RunsInv'
<1> USE Numbers, RunsType
<1>1. UNCHANGED <<signal, sequence, wpc>>
  BY EngineLeaves
<1>2. Unannounced' = Unannounced
  BY <1>1 DEF Unannounced
<1>3. CASE Poll
  <2>1. /\ rpc = "poll" /\ rpc' = "signal" /\ lastSeq # sequence /\ lastSeq' = sequence
        /\ UNCHANGED <<arbSig, runs>>
    BY <1>3 DEF Poll, At, copies
  <2>2. Unread = 1 /\ Unread' = 0
    BY <1>1, <2>1 DEF Unread
  <2>3. ASSUME NEW j \in Scans
        PROVE  Underway(j) = 0 /\ Underway(j)' = IF signal = j THEN 1 ELSE 0
    BY <1>1, <2>1 DEF Underway, Reading
  <2> QED
    BY <1>1, <1>2, <2>1, <2>2, <2>3, Counts, NoMoreRuns DEF RunsInv
<1>4. CASE TradePair
  <2>1. /\ rpc = "trade" /\ rpc' = "rebalance" /\ UNCHANGED <<lastSeq, arbSig>>
        /\ runs' = [runs EXCEPT ![arbSig] = @ + 1]
    BY <1>4 DEF TradePair, At, copies
  <2>2. Unread' = Unread
    BY <1>1, <2>1 DEF Unread
  <2>3. arbSig <= signal /\ arbSig \in Nat /\ runs \in [Scans -> 0 .. MaxRuns]
    BY DEF EngineInv, TypeOK
  <2>4. ASSUME NEW j \in Scans
        PROVE  /\ runs'[j] \in Nat /\ (signal < j => runs'[j] = 0)
               /\ runs'[j] + Underway(j)' = runs[j] + Underway(j)
    <3>1. Underway(j)' = 0 /\ Underway(j) = IF arbSig = j THEN 1 ELSE 0
      BY <2>1 DEF Underway, Reading
    <3>2. runs'[j] = IF arbSig = j THEN runs[j] + 1 ELSE runs[j]
      BY <2>1, <2>3
    <3>3. signal < j => runs[j] = 0 /\ arbSig # j
      BY <2>3 DEF RunsInv
    <3> QED
      BY <3>1, <3>2, <3>3
  <2> QED
    BY <1>1, <1>2, <2>2, <2>4, Counts, CountsNext, NoMoreRuns
<1>5. CASE ~Poll /\ ~TradePair
  <2>1. UNCHANGED <<lastSeq, runs>>
    BY <1>5 DEF EngineLoop, ReadSignal, Gate, ReadHedge, ReadSpread, Rebalance, Finish, Stop, Halt,
                engine
  <2>2. Unread' = Unread
    BY <1>1, <2>1 DEF Unread
  <2>3. ASSUME NEW j \in Scans PROVE Underway(j)' <= Underway(j)
    <3>1. CASE ReadSignal
      BY <1>1, <3>1 DEF ReadSignal, At, Underway, Reading
    <3>2. CASE ~ReadSignal
      <4>1. arbSig' = arbSig /\ (rpc' \in Reading => rpc \in Reading) /\
            (rpc' = "signal" => rpc = "signal")
        BY <1>5, <3>2 DEF EngineLoop, Gate, ReadHedge, ReadSpread, Rebalance, Finish, Stop, Halt,
                engine, copies, At, Reading
      <4> QED
        BY <1>1, <4>1 DEF Underway
    <3> QED
      BY <3>1, <3>2
  <2>4. \A j \in Scans : runs'[j] \in Nat /\ (signal < j => runs'[j] = 0)
    BY <2>1 DEF RunsInv
  <2> QED
    BY <1>1, <1>2, <2>1, <2>2, <2>3, <2>4, Counts, CountsNext, NoMoreRuns
<1> QED
  BY <1>3, <1>4, <1>5

(* A new process has traded nothing. *)
LEMMA StartRuns == ASSUME TypeOK, Start PROVE RunsInv'
<1>1. rpc' = "poll" /\ runs' = [j \in Scans |-> 0]
  BY DEF Start
<1>2. ASSUME NEW j \in Scans PROVE Underway(j)' = 0 /\ runs'[j] = 0
  BY <1>1 DEF Underway, Reading
<1> QED
  BY <1>2, CountsNext DEF RunsInv, Scans

-----------------------------------------------------------------------------
(* What holds in every reachable state. *)

(* Every variable keeps its type, and both sides keep their invariant.       *)
THEOREM InductiveInvariant == Spec => [](TypeOK /\ DaemonInv /\ EngineInv)
<1> DEFINE Inv == TypeOK /\ DaemonInv /\ EngineInv
<1>1. Init => Inv
  BY InitType, InitDaemon, InitEngine
<1>2. ASSUME Inv, [Next]_vars PROVE Inv'
  <2>1. CASE DaemonStep
    BY <1>2, <2>1, DaemonType, DaemonStepInv, DaemonKeepsEngine
  <2>2. CASE EngineLoop \/ Start \/ Stop \/ Halt
    BY <1>2, <2>2, EngineType, EngineStepInv, EngineLeaves, DaemonKept
  <2>3. CASE UNCHANGED vars
    BY <1>2, <2>3, StutterInv
  <2> QED
    BY <1>2, <2>1, <2>2, <2>3, NextCases
<1> QED
  BY <1>1, <1>2, PTL DEF Spec

(* Without a lock between them, the engine trades only what was announced or *)
(* is newer, and never a flat or a vetoed scan (the store order of           *)
(* run_daemon, the acquire load of sequence in engine_loop).                 *)
THEOREM TradesAreGenuine == Spec => []ExecutedIsGenuine
<1>1. EngineInv => ExecutedIsGenuine
  BY DEF EngineInv, ExecutedIsGenuine, At, Reading
<1> QED
  BY <1>1, InductiveInvariant, PTL

(* One process trades one signal at most three times: for two sequence       *)
(* numbers it came too early for, and for its own (engine_loop, last_seq).   *)
THEOREM TradedAtMostThrice == Spec => []AtMostThrice
<1>1. ASSUME TypeOK, DaemonInv, EngineInv, RunsInv, [Next]_vars PROVE RunsInv'
  BY <1>1, NextCases, DaemonRuns, EngineRuns, StartRuns, StutterInv
<1>2. ASSUME TypeOK, RunsInv PROVE AtMostThrice
  <2> SUFFICES ASSUME NEW j \in Scans PROVE runs[j] <= 3
    BY DEF AtMostThrice
  <2> USE <1>2, Counts, RunsType
  <2>1. CASE signal = j
    <3>1. runs[j] + Underway(j) + Unread + Unannounced <= 3
      BY <2>1 DEF RunsInv
    <3> QED
      BY <3>1
  <2>2. CASE signal > j
    <3>1. runs[j] + Underway(j) <= 3
      BY <2>2 DEF RunsInv
    <3> QED
      BY <3>1
  <2>3. CASE signal < j
    BY <2>3 DEF RunsInv
  <2> QED
    BY <2>1, <2>2, <2>3
<1> QED
  BY <1>1, <1>2, InitEngine, InductiveInvariant, PTL DEF Spec

(* Signal, hedge ratio and z-score of one trade come from one scan unless    *)
(* the daemon wrote while the engine read, or was killed in a publication.   *)
THEOREM TornOnlyByOverlap == Spec => []TornNeedsOverlap
<1>1. TypeOK /\ DaemonInv /\ CalmInv /\ [Next]_vars => CalmInv'
  BY StepCalm, StutterInv
<1>2. CalmInv => TornNeedsOverlap
  BY DEF CalmInv, TornNeedsOverlap, At, Reading
<1> QED
  BY <1>1, <1>2, InitEngine, InductiveInvariant, PTL DEF Spec
=============================================================================
