------------------------------ MODULE Forecasts ------------------------------
(***************************************************************************)
(* Numpy's global generator, which every simulation of the web backend     *)
(* draws from.  The endpoints run their work in threads (asyncio.to_thread *)
(* in analytics.py, execution.py and infra.py of the API), and a seed or a *)
(* draw of one thread falls between those of another: prediction_suite.py  *)
(* and the synthetic bars of intraday_engine.py seed the generator and     *)
(* count on what follows, time_machine.py seeds it at random or, for the   *)
(* gauntlet, not at all.                                                   *)
(*                                                                         *)
(* A state of the generator is the last seed and what was drawn since; a   *)
(* draw is worth the state it leaves.  A job is the list of its seeds and  *)
(* draws, which depend on the rows of data it finds and not on the draws.  *)
(***************************************************************************)
EXTENDS Integers, Sequences, FiniteSets, SequencesExt

CONSTANTS Threads,    (* the threads of asyncio.to_thread                    *)
          Seeds,      (* bound: the seeds random.randint gives               *)
          Salts,      (* bound: hash(symbol), which differs per process      *)
          Steps,      (* bound: steps of a jump diffusion, 15 or 30          *)
          MinFit,     (* rows a prediction needs, 20                         *)
          MinReview,  (* rows below which a review asks for daily data, 50   *)
          MinScreen,  (* rows below which a symbol is not screened, 25       *)
          Walked,     (* walk_forward_bars, 40 by default                    *)
          FirstBar,   (* the first row a review predicts from, 25            *)
          Ahead,      (* forecast_horizon, 5                                 *)
          Jobs,       (* bound: the jobs asked for                           *)
          MaxRuns     (* bound: jobs started                                 *)

ASSUME ForecastAssumption ==
  /\ {Steps, MinFit, MinReview, MinScreen, Walked, FirstBar, Ahead, MaxRuns} \subseteq Nat
  /\ \A job \in Jobs : job.kind \in {"advanced", "review", "screen", "stress", "gauntlet",
                                     "synthetic"}
  /\ \A job \in Jobs : /\ job.kind \in {"advanced", "review"} => job.rows \in Nat \X Nat
                       /\ job.kind = "screen" => job.rows \in Seq(Nat)

VARIABLES rng,    (* the generator                                           *)
          salt,   (* of this process                                         *)
          work,   (* what a thread runs                                      *)
          said,   (* history: the draws of the runs that overlapped no other *)
          runs    (* jobs started                                            *)
forecastVars == <<rng, salt, work, said, runs>>

Idle == [busy |-> FALSE]
Seed(S) == [act |-> "seed", of |-> S]
Draw(what) == [act |-> "draw", of |-> {what}]
-----------------------------------------------------------------------------
(* simulate_jump_diffusion_paths: three draws a step. *)
Jump(seed) ==
  <<Seed({seed})>> \o
  FlattenSeq([i \in 1 .. Steps |-> <<Draw("noise"), Draw("jumps"), Draw("sizes")>>])

(* Fault for LoneForecastsRepeat: the cone is drawn without a seed.          *)
PredictUnseeded(rows, extended) ==
  IF rows < MinFit THEN <<>>
  ELSE <<Draw("shocks")>> \o (IF extended THEN Jump("42") \o Jump("43") \o Jump("44") ELSE <<>>)

(* analyze_and_predict: the cone, then the two ladders of thresholds and the *)
(* snapshots; with too few rows it fails before it seeds.                    *)
Predict(rows, extended) ==
  IF rows < MinFit THEN <<>>
  ELSE <<Seed({"42"}), Draw("shocks")>> \o
       (IF extended THEN Jump("42") \o Jump("43") \o Jump("44") ELSE <<>>)

(* audit_predictions: a prediction for each bar walked, on the rows to it.   *)
Review(rows) ==
  LET first == IF rows - Walked - Ahead > FirstBar THEN rows - Walked - Ahead ELSE FirstBar
      count == rows - Ahead - first
  IN IF rows < Walked + FirstBar \/ count <= 0 THEN <<>>
     ELSE FlattenSeq([k \in 1 .. count |-> Predict(first + k, FALSE)])

(* scan_universe: a symbol with too few rows is passed over. *)
Screen(rows) ==
  FlattenSeq([i \in DOMAIN rows |-> IF rows[i] < MinScreen THEN <<>> ELSE Predict(rows[i], TRUE)])

(* run_stress_test: the returns, or the padding of returns that are given    *)
(* and too short, then the crash.  Only returns of its own are seeded.       *)
Stress(scenario, returns) ==
  (CASE returns = "none"  -> <<Seed(Seeds), Draw("returns")>>
     [] returns = "short" -> <<Draw("padding")>>
     [] returns = "full"  -> <<>>) \o
  (CASE scenario = "winter"   -> <<Draw("crash")>>
     [] scenario = "pandemic" -> <<Draw("down"), Draw("up")>>
     [] OTHER                 -> <<>>)

(* _generate_synthetic: the base price, the path, closes, highs, lows and    *)
(* volumes.                                                                  *)
Synthetic(hash) ==
  <<Seed({hash}), Draw("base"), Draw("path"), Draw("closes"), Draw("highs"), Draw("lows"),
    Draw("volumes")>>

(* The endpoints.  A forecast or a review that finds too little asks again   *)
(* for a year of daily data; synthetic bars stand in for too few (ten).      *)
Program(job, hash) ==
  CASE job.kind = "advanced"  ->
         Predict(IF job.rows[1] < MinFit THEN job.rows[2] ELSE job.rows[1], TRUE)
    [] job.kind = "review"    ->
         Review(IF job.rows[1] < MinReview THEN job.rows[2] ELSE job.rows[1])
    [] job.kind = "screen"    -> Screen(job.rows)
    [] job.kind = "stress"    -> Stress(job.scenario, "none")
    [] job.kind = "gauntlet"  -> Stress("winter", job.returns)
    [] job.kind = "synthetic" -> Synthetic(hash)

(* The jobs that seed the generator before they draw, with the same seed     *)
(* every time.                                                               *)
Repeatable(job) == job.kind \in {"advanced", "review", "screen", "synthetic"}
-----------------------------------------------------------------------------
ForecastInit ==
  /\ salt \in Salts
  /\ rng = [seed |-> "fresh", drawn |-> <<>>]
  /\ work = [t \in Threads |-> Idle]
  /\ said = [job \in Jobs |-> {}]
  /\ runs = 0

(* A job that starts beside others overlaps them, and they it.               *)
StartJob(t) ==
  /\ ~work[t].busy
  /\ runs < MaxRuns
  /\ \E job \in Jobs :
       LET others == {u \in Threads \ {t} : work[u].busy} IN
       work' = [u \in Threads |->
                  IF u = t THEN [busy |-> TRUE, job |-> job, todo |-> Program(job, salt),
                                 got |-> <<>>, alone |-> others = {}]
                  ELSE IF u \in others THEN [work[u] EXCEPT !.got = <<>>, !.alone = FALSE]
                  ELSE work[u]]
  /\ runs' = runs + 1
  /\ UNCHANGED <<rng, salt, said>>

(* One call of the generator, which is locked for as long.                   *)
CallGenerator(t) ==
  /\ work[t].busy
  /\ work[t].todo # <<>>
  /\ LET op == Head(work[t].todo) IN
     \E x \in op.of :
       /\ rng' = IF op.act = "seed" THEN [seed |-> x, drawn |-> <<>>]
                 ELSE [rng EXCEPT !.drawn = Append(@, x)]
       /\ work' = [work EXCEPT ![t].todo = Tail(@),
                               ![t].got = IF op.act = "draw" /\ work[t].alone
                                          THEN Append(@, rng') ELSE @]
  /\ UNCHANGED <<salt, said, runs>>

Answer(t) ==
  /\ work[t].busy
  /\ work[t].todo = <<>>
  /\ said' = IF work[t].alone /\ Repeatable(work[t].job)
             THEN [said EXCEPT ![work[t].job] = @ \cup {work[t].got}] ELSE said
  /\ work' = [work EXCEPT ![t] = Idle]
  /\ UNCHANGED <<rng, salt, runs>>

(* The backend restarts: numpy starts afresh and strings hash anew, so that  *)
(* synthetic bars are not those of the process before.                       *)
RestartBackend ==
  /\ salt' \in Salts
  /\ rng' = [seed |-> "fresh", drawn |-> <<>>]
  /\ work' = [t \in Threads |-> Idle]
  /\ said' = [job \in Jobs |-> IF job.kind = "synthetic" THEN {} ELSE said[job]]
  /\ UNCHANGED runs

ForecastNext ==
  \/ \E t \in Threads : StartJob(t) \/ CallGenerator(t) \/ Answer(t)
  \/ RestartBackend

ForecastSpec == ForecastInit /\ [][ForecastNext]_forecastVars
-----------------------------------------------------------------------------
(* Properties. *)

(* A forecast, a review, a screening and synthetic bars come out the same    *)
(* every time, whatever ran before them and across restarts, as long as      *)
(* nothing else runs meanwhile: each seeds all that it draws.                *)
LoneForecastsRepeat == \A job \in Jobs : Cardinality(said[job]) <= 1
=============================================================================
