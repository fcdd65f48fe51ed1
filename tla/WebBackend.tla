------------------------------ MODULE WebBackend -----------------------------
(***************************************************************************)
(* The parts of the web backend and of what it asks the engine for that    *)
(* share nothing with each other: the prices, the seed guard, the files of *)
(* histories, the trade tape, the order book whose quotes the dashboard    *)
(* shows, and the ghost exchange it starts executions on.  A behaviour     *)
(* follows one of them while the others stand still: what is true of all   *)
(* together is true of each.  (The guard refreshes data through            *)
(* add_symbol; its file and what MarketData serves do not depend on each   *)
(* other otherwise.  Of the book the ghost exchange looks at nothing but   *)
(* whether there was a price.)                                             *)
(***************************************************************************)
EXTENDS MarketData, SeedGuard, Feeds, Tape, OrderBook, GhostExchange

VARIABLE part  (* the part this behaviour follows *)
engineVars == <<bookVars, ghostVars>>
vars == <<part, dataVars, guardVars, feedVars, tapeVars, engineVars>>

Init ==
  /\ part \in {"data", "guard", "feeds", "tape", "book", "ghost"}
  /\ DataInit /\ GuardInit /\ FeedInit /\ TapeInit /\ BookInit /\ GhostInit
  /\ part # "data" => interval = "1d" /\ ~preferLive /\ parquet = Absent
  /\ part # "feeds" => kind = "feed"

Next ==
  /\ UNCHANGED part
  /\ \/ part = "data" /\ DataNext /\ UNCHANGED <<guardVars, feedVars, tapeVars, engineVars>>
     \/ part = "guard" /\ GuardNext /\ UNCHANGED <<dataVars, feedVars, tapeVars, engineVars>>
     \/ part = "feeds" /\ FeedNext /\ UNCHANGED <<dataVars, guardVars, tapeVars, engineVars>>
     \/ part = "tape" /\ TapeNext /\ UNCHANGED <<dataVars, guardVars, feedVars, engineVars>>
     \/ /\ part = "book" /\ BookNext
        /\ UNCHANGED <<dataVars, guardVars, feedVars, tapeVars, ghostVars>>
     \/ /\ part = "ghost" /\ GhostNext
        /\ UNCHANGED <<dataVars, guardVars, feedVars, tapeVars, bookVars>>

Spec == Init /\ [][Next]_vars
=============================================================================
