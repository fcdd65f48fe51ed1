# A TLA+ verification of Quantcore

Quantcore is a research and paper-trading workstation: a C++ engine
(`src/nexus`) that ingests a live feed and trades in simulation, a C++ core
library (`src/cpp`) with the risk engine, Python services and daemons
(`src/python`), and a FastAPI backend with a web UI (`src/web`). This directory
holds TLA+ modules of the parts whose correctness depends on the order in which
things happen, TLC configurations that check them on small instances, and proofs
that TLAPS checks for every instance. Source paths below are relative to `src/`.

## 1. The system

### Components, their state and their operations

| component | source | state | operations |
|---|---|---|---|
| event queue | `nexus/include/spsc_queue.h` | ring of 2097152 slots, `head_`, `tail_`, `push_mutex_` | `push`, `pop` |
| engine threads | `nexus/src/main.cpp`, `microstructure_sim.h` | `running`, local copies | websocket feed, order generator, engine loop, telemetry loop, ghost loop, signal handler |
| audit ledger | `nexus/include/audit_ledger.h` | the file; `seq_counter_`, two hashes, `file_size_`, the stream | open, `append_event` (with rotation), close |
| ledger verifier | `web/backend/api/ops.py` | none (reads the file) | `_verify_ledger_file` |
| kill switch | `nexus/include/institutional_ops.h`, `ops.py`, `surveillance_daemon.py` | flag file, two atomics, `nexus_live.json` | request, poll, raise, remove, publish, reset, `route_order` |
| Hive-Mind bridge | `python/quantcore/hivemind/quant_daemon.py`, `nexus/include/shared_bridge.h`, `main.cpp` 126-222 | memory-mapped struct; `last_seq`, `current_weights` | scan and publish; poll, trade the pair, rebalance |
| risk engine | `cpp/src/risk_engine.cpp` | halt, peak, baselines of day and session, counters | `check_order`, `update_portfolio`, `record_trade_result`, `reset_day`, `reset_halt` |
| paper broker | `python/quantcore/broker/paper_*.py`, `web/backend/api/broker.py` | DuckDB tables account, positions, trades; a lock | `submit_order`, `execute_fill`, `reset_account` |
| supervisor, TUI | `python/scripts/supervisor.py`, `infra_tui.py` | state file, processes | start, stop, status |
| limit order book | `nexus/include/limit_order_book.h`, `main.cpp` 97-109, 328-380 | two price maps; the published quotes | `update`, `prune_tail`, best prices, spread; `_audit_telemetry` |
| ghost exchange | `nexus/include/ghost_exchange.h`, `main.cpp` 382-441, `web/backend/api/execution.py` | trigger file, `is_active`, `filled`, the simulation's thread | `ghost_execute`, poll, spawn, simulate, shutdown |
| market data | `web/backend/analytics.py`, `python/quantcore/data/provider.py` | `_live_cache`, `_cache`, parquet files | `fetch_live_data`, `add_symbol`, `remove_symbol` |
| seed guard | `python/quantcore/data/seed_guard.py` | `.seed_meta.json`, age of the files | `check_and_reseed` |
| histories | `python/quantcore/alt_data/satellite.py`, `mlops/decay_monitor.py` | two JSON files | poll, append |
| trade tape | `web/backend/state.py`, `api/ws.py` | `TAPE_CLIENTS` | connect, `broadcast_fill`, disconnect |
| tick store | `python/quantcore/data/tick_store.py` | tables of ticks and of minute bars | insert, rebuild, query |
| forecasts and stress tests | `research/prediction_suite.py`, `risk/gauntlet.py`, `replay/time_machine.py`, `day_trading/intraday_engine.py` | numpy's global generator | predict, review, screen, simulate |
| regimes, plans, signals, gates | `prediction_suite.py`, `day_trading/intraday_*.py` | none between calls | classify, plan, raise, gate |
| backtests | `research/backtester.py`, `intraday_backtester.py`, `stat_arb.py`, the audit in `prediction_suite.py` | none between calls | hold, trade, fold, audit |
| volume profile | `tick_store.py`, `prediction_suite.py`, `cpp/src/feature_engine.cpp` | the search's two ends | widen |
| execution algorithms | `python/quantcore/execution/algos.py` | the remaining shares | MARKET, TWAP, VWAP |
| numerics | the rest of `python/quantcore/research`, `portfolio`, `vol`, `rl`, `models`, `cpp/src/feature_engine.cpp` | none between calls | pure computations |

### How they interact

* The feed and the generator push into one **event queue**; the engine thread
  pops, and after each event looks at the **Hive-Mind bridge**.
* The generator routes orders through `InstitutionalOps::route_order`; it and the
  engine loop test the **kill switch** and append to the **audit ledger**.
* The telemetry thread polls the **flag file** that the web backend and the
  surveillance daemon write, and renames a fresh `nexus_live.json` into place,
  which the backend and that daemon read.
* The web backend walks the ledger **file** while the engine writes it.
* Requests reach the **paper broker** in threads of their own
  (`asyncio.to_thread`) and share one ledger object and one connection.
* The pipeline hands account snapshots, orders and results to the **risk engine**.
* The engine thread updates the **book** that the telemetry thread walks without a
  lock; the backend audits what that thread published.
* The backend leaves a request in the **trigger file**, which the engine's ghost
  thread polls, removes and hands to a thread of its own.
* Requests for **market data** go through the dashboard's cache, the local file,
  the provider's cache and the external services, each in its own thread; adding
  and removing symbols changes the file behind both caches.
* The **seed guard** checks on a start of the backend, where
  `QUANTCORE_AUTO_RESEED` is set, and when the API is asked to, and downloads through `add_symbol`.
* Every simulation of the backend draws from **one random generator**; the requests
  run in threads, so their seeds and draws mix.

### What is hard about it

Concurrency without locks (the ring, the bridge), check-then-act across threads
and processes (kill switch, paper broker, reset handler), state split over files
and processes that die separately (flag, ledger, telemetry, bridge), statements
that commit one by one, and calendars whose rollover is seen by several calls
separately (risk engine), and processes that outlive the command that started
them (supervisor); caches stacked on caches, files rewritten in place by several
requests, a seed shared by everybody who draws, and arithmetic at its edges
(half shares, half minutes, prices below a cent). `PROJECT.json` lists these hazards at their lines with
the properties that cover them.

## 2. The modules

| module | models | abstract / composed with |
|---|---|---|
| `BoundedFifo` | what the event queue promises: a bounded FIFO that refuses only when full or at shutdown | |
| `EventQueue` | the ring and its threads, one step per access to shared memory | implements `BoundedFifo` (`INSTANCE ... WITH`) |
| `AuditLedger` | ledger processes, rotation, faults, and the verifier as an operator on the file | |
| `KillSwitch` | flag, atomics, telemetry document, trading threads, requests | |
| `HiveMindBridge` | the struct, the daemon's stores, the engine's loads | |
| `RiskEngine` | the five calls and the account they guard | |
| `PaperBroker` | requests, the lock, each SQL statement, failures | |
| `Supervisor` | start and stop commands, the state file and its temporary file, service processes and the console | |
| `OrderBook` | the book's two maps, the events, the unlocked reader, the audit of the quotes | part of `WebBackend` |
| `GhostExchange` | trigger file, ghost loop, simulation, shutdown, crashes | part of `WebBackend` |
| `MarketData` | both caches, the file, requests, writers, time | part of `WebBackend` |
| `SeedGuard` | the checks, the meta data's file, edits, ageing, kills | part of `WebBackend` |
| `Feeds` | two histories in JSON files | part of `WebBackend` |
| `Tape` | sockets, their handlers, broadcasts | part of `WebBackend` |
| `WebBackend` | these six side by side | extends all of them |
| `Forecasts` | the generator and the jobs that seed it and draw from it | part of `Research` |
| `TradeSignals` | regimes, plans, setups, alerts, both gates | part of `Research` |
| `Backtests` | the indices of four computations over histories | part of `Research` |
| `TickStore` | ticks, minute bars, their rebuilding, queries, crashes | part of `Research` |
| `VolumeProfile` | the search for the value area | part of `Research` |
| `OrderSlicing` | the sizes of the slices | part of `Research` |
| `Research` | these six side by side | extends all of them |
| `MC...` | constants and symmetry for TLC | extends the module it names |
| `EventQueueProofs`, `SupervisorProofs`, `HiveMindBridgeProofs`, `PaperBrokerProofs`, `AuditLedgerProofs` | theorems of the module they name | extend it and `TLAPS` |
| `SafeguardProofs` | theorems of `KillSwitch` and of `RiskEngine` | extends both |
| `WebBackendProofs`, `ResearchProofs` | theorems of the parts, and of the composition | extend `WebBackend`, `Research` |

Variables carry the names of the fields they stand for, or a comment that says
which. Variables marked *history* record what happened and never guard an action
except as a named bound. Operators with names such as `LeaveTrigger` or
`CostWithoutFee`, each introduced by a comment "Fault for ...", are plausible
errors in an action; no specification uses them. `PROJECT.json` names, for every
checked property, the definition they replace to show that the property notices.

### EventQueue

`push` is `Lock`, `CheckFull` (load of `head_`), `WriteSlot`, `Publish` (store of
`tail_`, unlock); `pop` is `Poll` (load of `tail_`), `ReadSlot`, `Advance` (store
of `head_`). A loaded index may be stale when it is used, which is what acquire
and release allow; stores are not reordered past the release that publishes them.
The feed is a *spinner* (it retries until the queue takes the event or the engine
stops), the generator a *dropper* (`generate_orders` ignores the result).
`ImplementsFifo` says that what is processed is what was accepted, in that order,
and that an event is refused only by a ring with `Cap - 1` events or at shutdown.

### AuditLedger

The file is a sequence of words, three to an entry (number, previous hash,
hash). Timestamps and event types do not influence a verdict and are dropped.
Hashes are named by chain and position, so **distinct entries have distinct
hashes** is an assumption of the model. Each running process has its own chain,
counter, `file_size_` and stream, opened for appending, or, after a rotation,
with truncation and a file offset of its own. A whole entry is one write; a full
disk leaves a part of it, cut between two words, and a stream that drops everything
until it is opened again; a power loss leaves a prefix of the file. `Verify` walks the
file the way `_verify_ledger_file` does. Two claims connect both: what the verifier
calls valid really is chained (`VerifiedIsChained`), and interleaved processes are
always reported (`InterleavingIsReported`). One torn write is always seen. Two can
complete each other: what the one left out is what the other left, and three words
that no process wrote together pass for an entry, since the verifier computes no hash.
Both claims except such an entry (`Spliced`). `LoneWriterIsExact` is about a process
that is alone since it last opened the file empty, without a fault (`tainted`).

### KillSwitch

Each action is one access to the flag file, one of the atomics, or the telemetry
file, and the engine may be killed between any two. `pending` remembers a request
nobody has acted on: a request made while the switch is up is not counted. The
module's own names are `SwitchInit`, `SwitchNext` and `SwitchSpec`, so that it can be
extended together with `RiskEngine`.
`manual_kill` and `InstitutionalOps::reset` are not actions because nothing in
the program calls them.

### HiveMindBridge

Every field of the struct holds the number of the scan that wrote it; `trades`
and `vetoed` say what that scan found. The daemon stores signal, hedge ratio,
z-score, weights and, last, the sequence number; the engine loads the sequence
number first and never again. Stores become visible in program order (the code
relies on x86 for it: the Python side has no barriers) and loads happen in program
order. A killed daemon leaves its half-written fields; a restarted one keeps the
file if its size is right. The engine's memory is lost at a restart.
An engine that reads during a publication can mix scans: `TornNeedsOverlap` says
this is the only way, next to a publication a crash cut short.

### RiskEngine

One symbol, integer equity, time in ticks. `check_order` is one action with three
outcomes because it holds `mutex_` throughout; `reset_halt` is two because it
clears the flag before it takes the lock. An approved order is filled at once, so
that later checks see the position. The model contains the account because the
checks are about it.

### PaperBroker

A request is `Submit`, `GetState` (under the lock, with the checks on what it
returned), `Acquire`, and three statements; a reset is `Acquire` and three
statements. Each statement commits by itself (DuckDB without a transaction: an
assumption about a library, visible in the code only by the absence of `BEGIN`),
each may fail, and the backend may die between any two. `damaged` and `exposed`
mark the executions that the two main properties exclude: a call ended in the
middle of its statements, and two calls overlapped or a read failed.

### Supervisor

A command is a process: `Begin` reads the state file, `Skip`, `StartService` and
`StopService` deal with one service each, `OpenTemporary`, `WriteState` and
`Replace` are the three system calls of `save`. Commands overlap freely, since
nothing locks the state file, and share one temporary file; `fd` follows the
inode a command writes to when another command renames it. `Kill` is the web
backend's timeout of ten seconds (or a user's interrupt), `StartRaises`,
`StopRaises` and `ReplaceRaises` are the exceptions nobody catches. A process id
is free again once its process is gone, and `Appear` may give it to a program that
is no service; the console (`TerminateMatching`, `KillStragglers`) ends services,
and whatever else matches, behind the supervisor's back. Services are dealt with
in any order, and a name given twice counts once. Nothing follows for commands that
overlap: they lose services and can leave half a file, and the properties say
what holds without an overlap.

A start that raises leaves a service running that the file does not name:
`OwnsChildren`, which says what `python/scripts/supervisor.py` line 4 promises, is
in the module and TLC refutes it.

### OrderBook

Prices count parts of a tick, so that `Quantize` can round as the code does; a side
is a function from its levels to their volume, as the `std::map` is. `Update`
inserts, cancels or trades, and prunes. `resting` is the same book without a limit
of levels, `dropped` the levels that pruning ever took. The telemetry thread reads
bid, ask and spread one after the other while `Changing` may be under way: walking a
`std::map` that is being changed is undefined, and the model lets each such read
give anything (`raced`). `Warnings` is the audit of `execution.py`, which flags
what "cannot be produced by the engine": crossed books can.

### GhostExchange

The trigger file is replaced by the backend and read, then removed, by the ghost
loop, in steps; the simulation runs in a thread that the loop joins before it
starts another (`JoinForever`: the thread never ends, see `AlwaysShort`). The fills
of one pass are rounded draws; a draw of exactly the largest of the generator's
2^53 values, which would fill a share more, is left out. `Signal`, `MainReturns`
(which destroys a thread that is joinable if a simulation was ever started), `Kill`
and `StartEngine` are the ends and beginnings of the process. A kill between
`std::remove` (`main.cpp:414`) and the start of the thread (line 415) loses the request:
`forgotten` has these, and `RequestsAreServedOnce` excepts them; `clash` is set only
where two requests meet.

### MarketData

One symbol and one interval, since both caches key by both. Data is the tick it was
downloaded at. A request is the accesses `FetchLive`, `LoadLocalHistory`,
`CacheGet`, `Download`, `CacheSet`, `FallBack`, `Store`; writers truncate and write
in place, and two that meet may leave a file of neither. Time passes in ticks of
which `Ttl`, at least two, make a minute: a request is answered before the second
tick after it began, as the services' timeouts are far shorter.

### SeedGuard, Feeds, Tape

A check is `Check`, `DoReseed`, `ClearTriggers`, `OpenMeta`, `WriteMeta`, with an
edit of the watched sources or a kill between any two; half a file reads as no
file. `Feeds` has one behaviour for each of the two histories, with requests that
read, merge and write back in place: opening empties the file, also under another
request that is writing, and `WriteHistory` puts any number of words (entries and the
closing bracket) at the offset of the request's own handle, over what is there or
beyond the end, which leaves a hole (`Overwritten`). Two that write at once leave a
splice, which may or may not parse (`Parses`); `spliced` remembers it until a request
alone empties the file. `Deduped` is the loop of the code, which keeps
the first of equal headlines. `Tape` splits a broadcast where it awaits:
every socket may fail, close or connect in between.

### Forecasts

A state of the generator is the last seed and what was drawn since; a draw is worth
the state it leaves. A job is the list of its seeds and draws, which depend on the
rows it finds, of both symbols where there are two, and, for synthetic bars, on the salt
with which the process hashes strings (`Program`). Jobs of two threads interleave at
each call of numpy. `said` collects what jobs answered that ran alone.

### TradeSignals, Backtests

`TradeSignals` chooses a reading from `SuiteReadings` or `BarReadings`, and evaluates
regime, plan, setups, alerts and gates. Probabilities are in per cent, prices in parts
of a cent (`Cent` of them). Which way Python rounds half a cent depends on the binary
value: `ups` are the halves that round up, chosen once, so that equal prices round
equally. `Backtests` keeps the array expressions of the code with their slices and
offsets (`Outside` and `Entry` are the two conditions of the opening-range trade);
`PositionsPrecedePrices`, `TradesPrecedeCloses`, `FoldsArePurged` and
`AuditLooksBack`, together `JudgedByUnseen`, say that what a decision is judged by had
no part in it: they change what comes after a decision and see whether it is still
taken, or compare the indices used. This is less than freedom from look-ahead, which
the code does not have everywhere: a fold of the cross-validation is also fitted on the
rows after its test, an opening-range day that ends too early is left out as a whole, and
a position still open at its end is not recorded.

### TickStore, VolumeProfile, OrderSlicing

`TickStore` has the insert and the two statements of the rebuild, between which the
process may die, and buckets as the SQL does: division of epoch seconds in floating
point and a cast that rounds, which puts the second half of each minute into the next
bar. `BarsMatchTicks` therefore allows half a minute. `VolumeProfile` is the search
that three files share; `OrderSlicing` one slice a step.

### WebBackend and Research

Their parts share no state that any property relates, so `part` picks one and the
others stand still; the composition makes one run of six state spaces. Parts that do
share state are in one module from the start: requests and writers of the same file,
the book and its reader, the trigger file and its two sides.

## 3. What the runs check

| run | question | result |
|---|---|---|
| `event_queue` | is a ring with two producers a FIFO, without torn events, and do all threads leave at shutdown? | holds |
| `audit_ledger` | can the verdict "verified" be wrong, can interleaving go unreported, are a lone writer's counters the file's? | holds |
| `audit_ledger_restart` | is a restart no anomaly, as the verifier's tests say? | **violated** |
| `kill_switch` | is a halt ever lost to a crash, how many orders slip through, does the dashboard catch up and then stay right? | holds |
| `kill_switch_reset` | does "Reset System" let the engine trade again? | **violated** |
| `hive_mind_bridge` | what can the engine trade, how often, and is it ever missed? | holds |
| `risk_engine` | do baselines and counters belong to today, does the deadline only reduce? | holds |
| `risk_engine_hold` | can a position held too long only be closed? | **violated** |
| `paper_broker` | do the books balance, who can be overdrawn, does a rejection leave a trade? | holds |
| `supervisor` | does the supervisor know what it runs, is its state file ever half written? | holds for commands that do not overlap |
| `web_backend` | how old is what is served, are triggers, histories, fills, levels and ghost requests lost or doubled? | holds |
| `research` | do forecasts repeat, is anything judged by what it was made from, are plans, gates, bars, value areas and slices what they should be? | holds |

Two kinds of claims are bounded by what the code really does, and say so:

* *What holds without an overlap.* `LoneCommandsTrack`, `WholeUnlessOverlapped`,
  `TriggersAreKept`, `LoneRequestsKeepHistory`, `LoneForecastsRepeat` and
  `ExposedBeforeShort` have a history variable for the overlap in their premise.
  Overlaps are in the model; what they lose is real, and excepted. (Of requests that
  overlap `LoneRequestsKeepHistory` still says that no headline comes twice, unless two
  wrote at once.) `RequestsAreServedOnce` excepts the requests that meet another, and
  those a kill between two lines of the ghost loop forgets.
* *What is as bad as it looks, but not worse.* `AlwaysShort` (no ghost execution is
  ever completed: less than half of a child order is filled at a time, rounded down,
  which is nothing of the last one or two shares),
  `LiveIsRecent` (ages of stacked caches add up), `BarsMatchTicks` (half a minute).

No run checks type invariants: each module's is part of the invariant proved, or
follows from the properties that are checked.

The three violated properties state what the repository itself says of its
behaviour (the quotations are in `PROJECT.json`, "findings"):

* **Restart.** `append_event` numbers entries from 1, the verifier accepts 0
  after a re-seeding. Shortest trace: start, append, stop, start, append.
* **Reset.** The engine removes the flag when it acts on it; the reset endpoint
  removes the flag only. Trace: halt, raise, remove, reset; the switch stays up.
* **Hold.** Only orders of the position's own side are refused; an opposite order
  larger than the position turns it round.

Section 5 lists further statements of the repository that its code does not keep.

### Bounds, and why they are enough

* `event_queue`: 4 slots (3 usable), one spinner and one dropper with 3 events
  each: the ring fills, wraps and is refused, with both producers waiting for the
  mutex. The safety properties are also proved for all sizes.
* `audit_ledger`: 2 processes, 6 appends, files of at most 2 entries, 4 chains,
  two faults, so that both torn writes of a spliced entry fit. Rotation, a restart on
  either side of it, and a process that writes past the size another counts, which
  makes room for the pattern a, b, a, all fit too. The processes are symmetric.
  The properties are proved for all sizes.
* `kill_switch`: 2 trading threads (generator and engine loop, as in the
  program), 2 halts, 2 resets, 2 processes, one failed rename. `MaxLate` = 2 leaves
  room for the late order the property excludes. The safety properties are proved for
  all sizes.
* `hive_mind_bridge`: 3 scans, since a signal can be executed under at most two
  older numbers and its own; one crash in a publication, two engine processes;
  `MaxRuns` = 4 leaves room for the execution the property excludes. One asset:
  the weights are the same in every publication. The safety properties are proved for
  all sizes.
* `risk_engine`: ticks 1 to 4 with two to a day, which is three dates (0, 1, 2);
  equities 0, 97 and 100, so that session limit (2%) and daily limit (3%) are
  both met and both missed; limits of 2 trades and 2 losses, 2 resets. The properties
  are proved for all limits and all lengths of a day.
* `paper_broker`: 2 requests at once, 3 orders of at most 2 shares, 2 resets, one
  fault, and cash for two shares but not for three, so that the race for cash and
  the race for shares both occur. The clients are symmetric. The properties are
  proved for any number of clients, orders and symbols.
* `supervisor`: 2 commands at once, 3 in all, 2 services, 2 process ids, so that
  ids are used again at once and a foreign program can take one, and one command
  that is killed or raises. Commands, services and ids are symmetric. The
  properties are proved for all sizes.
* `web_backend`: data: 2 requests at once, lifetimes of 2 ticks out of 4, 2 writes,
  so that an entry is filled from another's rest of a lifetime and a file is
  replaced, removed and broken under both. Guard: 2 threads, `MaxBoots` = 2 with 6
  checks, so that the boot limit is passed twice, 2 edits, 2 kills. Feeds: windows of
  3 with 4 requests and 2 headlines, so that entries fall out and headlines return.
  Tape: 3 sockets, since one that fails must have a neighbour on each side, 2 fills.
  Book: 3 parts of a tick, prices that round to level zero, to one level from both
  sides and to different ones, 2 levels a side, 4 events. Ghost: orders of 1 and 7
  with children of at least 3 in 2 slices, so that the last two shares are met from
  a single child and from several, 3 requests, 2 starts. The properties are proved for
  all sizes.
* `research`: 2 threads, 3 jobs of every kind that seeds or draws; backtests over 3 assets,
  3 days, 3 prices, days of up to 6 bars, up to 24 rows (3 folds, embargo 2, so that
  a gap of a whole fold fits), 7 audited bars; 4 ticks in two minutes and a half of 4
  units, one crash; 4 bins of volume up to 4; 3 slices of 5 shares over 5 bars.
  Every reading in `MCResearch` is on or beside a limit, which is complete for
  comparisons; an ATR of 0, 1 and 2 cents, prices below a cent, at half a cent and
  above it, and value areas of 90 to 110 or of the one price 95 are those at which
  rounding to cents makes levels coincide. The properties are proved for all sizes and
  all readings.

Every bound is a constant in a guard of the action it limits (`MaxEvents`,
`MaxAppends`, `MaxChains`, `MaxFaults`, ...). `CHECK_DEADLOCK FALSE` is set in all runs
since every system here may stop: processes end, and bounds run out.

### Fairness

* `EventQueue`: weak fairness of the engine thread and of each producer's steps
  after an event exists; an operating system thread that can run does. Nothing
  makes messages or signals arrive. A blocked `Lock` needs no strong fairness for
  the properties checked, as `MaxEvents` bounds how often others take the mutex.
* `KillSwitch`: weak fairness of the telemetry loop, of each trading thread and of
  the second half of a reset request: threads of a running process and handlers
  that were called. Nobody has to press a button, and no process has to be
  restarted; the liveness properties therefore end in "or the engine is down".
* `HiveMindBridge`: weak fairness of the engine loop. It looks at the bridge
  after an event, and the generator supplies events for as long as the engine runs.
* All others: no fairness, only safety is claimed. Nothing in the code makes a request
  come, a download succeed or a handler run, and a ghost execution never ends.

## 4. What is proved

Every safety property that a passing run checks is also a theorem of that run's
specification (of `Spec`; none needs the fairness), for every value of the constants. The method is the same
throughout: an invariant that is inductive, one lemma for each action that says the
action keeps it, and a lemma that says it implies the property.

### Assumptions

The proofs use only the assumptions on constants that the modules name
(`QueueAssumption`, `KillAssumption`, ..., `SlicingAssumption`: one in each module that
has constants, and `ContentAssumption` in `Supervisor`). TLC evaluates them in the
passing runs. Most say that bounds and sizes are natural numbers and that model values
differ. These say more:

* `Prices`, `Sockets`, `TapeFills`, `Clients`, and the `Assets` of bridge and backtests
  are finite, as all sets of a running program are; `Symbols` is not empty.
* `DataAssumption`: a lifetime is at least two ticks, since the services' timeouts are
  far shorter than the caches' lifetimes. With one tick `LiveIsRecent` is false.
* `KillAssumption` and `BridgeAssumption`: the bounds `MaxLate` and `MaxRuns` leave room
  for what the properties exclude, so that no guard makes them true.
* `SignalAssumption`: a reading's profile has `val <= poc <= vah`, which the search
  in `VolumeProfile` keeps by construction: it starts at the point of control and only
  moves outwards. Prices are positive.
* `ForecastAssumption`: what a job finds is a number of rows for each symbol it asks for.

One theorem has a hypothesis of its own. `ShortOnlyWhenExposed` needs
`Fee <= Price - Slip`: the commission of a share is not more than what it sells for.
The code charges half a cent a share, so this is every price above half a cent; below
it a sale costs money, nothing checks the cash of a seller, and the account can go
negative without any overlap (`paper_broker.py:50`, `:55`).

### The theorems

* `EventQueueProofs`: for every `Cap >= 2` and every set of producers.
  `NothingLost` alone is not inductive: it does not say that the index a producer
  checked is still good when it writes. `IndInv` adds that the mutex owner is the
  only producer past the check, that after the check the ring has room (the
  consumer can only make more), that a slot written and not published holds the
  event, and the same for the consumer's copy. From it follow type correctness,
  `NoSlotRace`, `NothingLost` and, step by step under the refinement mapping,
  `Spec => ImplementsFifo`.
* `SafeguardProofs`, kill switch: for any trading threads and any number of halts,
  resets, restarts and failures. `SwitchInv` adds that a thread that is one order late
  is back at its test with the switch up, that the telemetry thread removes the
  flag only when the switch is up, and that the document it is about to publish says
  what the switch is, since only that thread raises it. From the last follows
  `ShownStays`: a true document is never followed by one that is not, unless the switch
  changes. It is one half of `DashboardCatchesUp`; that the document becomes true is
  liveness, and only model-checked.
* `SafeguardProofs`, risk engine: for every length of day, deadline, set of equities
  and all limits. `IndInv` adds that the counters belong to `lastDay`, are never larger
  than what was recorded that day, and differ from it only after `reset_day` and
  until `check_order` sees another day. `BaselinesAgree` has a consequence for the
  code: the daily loss limit can only decide when a loss jumps over both.
  `AnchorsAreToday` needs, besides, whose equity an anchor can be before the first
  snapshot of a day (`AnchorInv`). `DeadlineReduces` is about the step itself: of the
  orders that `check_order` approves after the deadline it shows that the position they
  leave is smaller, on the same side or flat.
* `SupervisorProofs`: for any number of commands, services, process ids, calls and
  faults. `LoneCommandsTrack` is not inductive, as it does not say where a service
  is known from. `IndInv` adds, for commands that do not overlap, that the temporary
  file is the one command's own (`Alone`) and, while none was cut short after a
  start, that its memory names every live process and that the file does so too
  until the command starts something (`Known`). That a start finds no live process
  of its service follows from `Known` and from the id it finds dead or foreign.
* `HiveMindBridgeProofs`: for any number of scans, crashes and starts. `DaemonInv` says
  which fields already hold the scan at each store, that nothing vetoed is ever
  written and that no field is older than what was announced; `EngineInv` says the same
  of the engine's copies, and with it gives `ExecutedIsGenuine`. `CalmInv` says that the
  copies are the fields as long as nothing is written (`TornNeedsOverlap`).
  `AtMostThrice` needs a count that no step increases (`RunsInv`): the trades of a
  signal, plus one if it is being read, one if a sequence number was not seen yet,
  and one if its publication has still to announce it, are at most three.
* `PaperBrokerProofs`: for any clients, symbols, sizes and prices. The lock excludes
  (`TypeOK`); `BooksInv` says, at each place between two statements, by how much cash
  and positions are ahead of the trades' table, which gives `BooksBalance`; `OrdersInv`
  that an order still to be answered has neither a row nor an answer and a number of its
  own; `ExposureInv` that, while nothing overlapped, what an order was judged by still
  covers it (`Covered`).
* `AuditLedgerProofs`: for any processes, sizes, rotations, restarts and faults.
  `WriterInv` says which chain each process extends and that no two extend the same.
  `WordInv` says that each word is a number, or stands where the verifier begins an
  entry, or follows in the file what it follows in the entry it was written with: enough
  for `VerifiedIsChained` if no number stands in the place of a hash. `TearInv` says that
  no torn write does harm (`Aligned`), or that after the place of the one that does
  (`Torn`) the verifier meets no number but zeroes where it wants the previous hash. `FreshInv`
  says that every chain begins once, so that an entry with the seed for its previous
  hash is the first of its chain. `LoneInv` says what a process that is alone knows of
  its file: its length, its offset in it, and its last entry. The verifier is a recursive function
  over the entries; its counts are unfolded by induction over the entries read.
* `WebBackendProofs`: for any sizes, requests, threads, starts and kills.
  * *Ghost exchange.* `AlwaysShort` is inductive with the sizes (`Sized`);
    `RequestsAreServedOnce` needs where a request is: in the file, in the loop's hands,
    forgotten by a killed engine, or executed (`Unserved`), and that there is one
    simulation at a time (`OneAtATime`).
  * *Seed guard.* `TriggersAreKept` needs that the file is never newer than the latest
    attempt (`HashesFollow`), and that the boots on disk, or in the copy of the guard
    that is saving, count the checks since then (`ChecksAreCounted`).
  * *Market data.* `LiveIsRecent` needs how old an entry can be when it is cached: the
    provider's was downloaded at most a tick before, the dashboard's is at most a
    lifetime older than its time stamp (`Ages`). `LocalIsCurrent` needs that what was
    read of the file is what it holds, or the file changed since (`FileIsFollowed`).
  * *Book.* `BookInv` says that a level holds what rests there or is one that pruning
    took; `QuoteInv` what the telemetry thread has read so far, if no event came
    between.
  * *Tape.* `TapeInv` says that the list has every open socket once, and that for each
    broadcast every listener is still to be sent to, being sent to, or served.
  * *Histories.* `FeedInv` says that, as long as no two requests have written at once, the
    file is the part its one writer has written so far (`pos`), that what it writes and
    what a file holds that parses has no headline twice, and that what the
    only request in progress holds is what it read, merged.
* `ResearchProofs`: for any threads, histories, readings, bins and slices.
  * *Forecasts.* A job that overlaps no other is somewhere in its program, has drawn
    what the program draws up to there and left the generator as the program does
    (`ForecastInv`). Since each repeatable program seeds before it draws, its draws
    are a function of the program alone, which is `LoneForecastsRepeat`.
  * *Signals.* The property is one of operators: case by case over regimes and setups,
    from rounding being monotone and two levels a cent apart staying apart.
  * *Backtests.* Two histories that agree up to a day give the same positions up to
    that day, whatever follows; two days that agree up to a trade's entry, and are long
    enough, the same trade; folds by arithmetic on their bounds.
  * *Bars.* `TickInv` says what each table holds between the statements of the rebuild;
    the sum over the bars is the sum over the ticks of each minute.
  * *Value area.* `ProfileInv` says that the count is the volume between the two ends
    and that it was below the limit one bin ago.
  * *Slices.* `SlicingInv` says that what is sold and what remains is the order.

The parts of `WebBackend` and `Research` have specifications of their own. In both,
`PartsAreKept` shows that a behaviour of the composition is a behaviour of each part,
so that all theorems are about the specification the run checks.

Sums (`FoldFunctionOnSet`), `FlattenSeq` and the recursive functions of the models are
inductions over data. The library's induction theorems take an operator as a parameter,
which the installed provers cannot instantiate. These proofs take the set of natural
numbers that fail instead and its least element (`NaturalsInduction`,
`WellFoundedInduction` for sets), and unfold each function once at a time.

### What the proofs changed

* `VerifiedIsChained` and `InterleavingIsReported` were believed for any number of
  faults, and TLC agreed with one. The proof needed to know what two torn writes leave:
  an entry spliced from both. The exception is now stated, and the run has two faults.
* `PlansAreSound` needs that equal prices round equally: with a fresh choice for each
  half cent, stop and entry could change places.
* A forecast is a function of how many rows each of *both* symbols has; with one count
  two jobs that differ were one.
* `ShortOnlyWhenExposed` does not hold for shares worth less than their commission.

### Only model-checked

The liveness properties (`AcceptedIsProcessed`, `ShutdownCompletes`,
`KillTakesEffect`, `AnnouncedIsExecuted`, and that the document becomes true in
`DashboardCatchesUp`): liveness under fairness and ENABLED are beyond the prover. The statements of sections 3 and 5 that TLC refutes are
of course not theorems.

## 5. What else the models showed

Disagreements between the repository's words and its code, and other findings met
while modelling, that no run of this project repeats:

* `python/quantcore/broker/paper_broker.py:62`: two overlapping SELL requests both pass
  the check, so a naked short is possible (`tests/test_broker.py:35-36` says it is
  rejected). `NoNakedShort` in `PaperBroker`; TLC refutes it.
* `python/scripts/supervisor.py:78-84`: a start that raises forgets what it launched
  before (`OwnsChildren`; TLC refutes it).
* `nexus/src/main.cpp:489-495`: main joins five threads, but not the ghost simulation's;
  after any ghost execution a shutdown ends in `std::terminate`, although line 67 says
  the thread is tracked for an orderly one (`ShutsDownCleanly`; TLC refutes it).
* `nexus/src/main.cpp:414-415`: the trigger file is removed before the execution starts,
  and an engine killed in between loses the request for good (`NoLoneRequestIsLost`;
  TLC refutes it with a single request).
* `python/quantcore/alt_data/satellite.py:187-188` and `mlops/decay_monitor.py:57-58`: two
  requests that write at once leave a splice of both, which may parse and have a headline
  twice, although `generate_feed` drops repeated ones (`NoHeadlineIsTwice`; TLC refutes it).
* `python/quantcore/research/stat_arb.py:95` says that the purged cross-validation avoids
  look-ahead; lines 110-113 fit on the rows after the test as well, so every fold but the
  last knows its future (`FoldsTrainOnThePast`; TLC refutes it). What the gap keeps apart
  is `FoldsArePurged`.
* `python/quantcore/data/provider.py:8-9` calls daily data under an intraday interval an
  error; the advanced prediction and its review label the file's daily bars with the
  interval asked for (`IntervalIsHonest`; TLC refutes it).
* `web/backend/api/analytics.py:60`: the screener's route comes after
  `/api/predictions/{symbol}`, which takes its requests.
* `web/backend/api/execution.py:89`: crossed books and books without a bid are flagged as
  what the engine cannot produce, and it can; an empty ask side is not flagged.
* `python/quantcore/data/seed_guard.py:142`: the meta data is updated also after a failed
  re-seed; a re-seed refreshes the starter symbols only, while the age that causes it
  is that of the oldest file, so an old file of another symbol causes one at every start.
* `web/backend/api/ws.py`: `ws_tape` sleeps and never receives, so it does not hear of a
  disconnect; a closed socket is removed only when a broadcast to it fails.
* `python/quantcore/data/tick_store.py:102`: the second half of each minute lands in the next
  bar; a crash between the two statements of the rebuild leaves no bars until the next
  insert.
* `python/quantcore/research/stat_arb.py:88`: `scipy.stats` has no `coint`, so the scan of a
  universe always comes back empty. With folds of fewer than 20 rows its embargo is zero.
* `python/quantcore/research/intraday_backtester.py`: the opening range is counted in bars,
  not minutes, and a position opened on the last bar is dropped.
* `python/quantcore/day_trading/intraday_signals.py:185` says "same logic as IntradayEngine":
  a breakdown in a stagflation passes the one gate only, and the scanner compares
  rounded readings (both excepted in `GatesAgree`). An oversold long cannot pass the
  RISK-OFF gate at all (RSI below 30 against at least 60).
* `python/quantcore/research/prediction_suite.py`: conviction grows with the distance of the two
  probabilities also when they oppose the action; below a cent, stops can be zero or less.
* `web/backend/analytics.py:401-412`: for z-scores between 1 and 1.5 the forecast rises and the
  advice is SELL; lines 321-338 align daily z-scores to intraday dates by position.
* `python/quantcore/risk/gauntlet.py`: the stress tests draw whatever the last seed left, and a
  seed given with a strategy's returns is ignored; the synthetic bars' seed is a
  `hash`, which differs from process to process.

## 6. Not modelled

* Numerical code (statistics of the research suite, feature engine, option pricing,
  portfolio construction, costs and returns of backtests, learning): floating-point
  functions without state.
* Presentation (templates, scripts, TUI screens), logging, configuration, routing.
* External services: the Alpaca client, the feed's server, the formats of market data.
* Prices, sizes and statistics of what is traded, wherever no property needs them.
* The event bus: nothing publishes on it or subscribes to it. The time-of-day curve
  of the tick store: nothing calls it.
* Hazards left without a property for want of a run: the verifier cannot see that a
  file was cut between two entries (`ops.py:132`); a flag removed twice raises
  (`ops.py:57`); a halt requested while the engine is halted stops the next process
  (`institutional_ops.h:73`); a restarted engine trades the last publication again
  (`main.cpp:128`, bounded by `AtMostThrice`); with no equity the concentration check
  is skipped (`risk_engine.cpp:137`).

## 7. Plan

Done, most important first: event queue, audit ledger, kill switch, bridge, risk
engine, paper broker, supervisor; then book, ghost exchange, market data, seed guard,
histories, tape; then the research half. All their safety properties are proved.

Next: abstract specifications for the paper broker (an atomic account) and for the seed
guard, with the detailed modules shown to implement them where nothing overlaps; and
shorter proofs where several lemmas say the same of different actions.
