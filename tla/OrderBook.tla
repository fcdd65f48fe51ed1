------------------------------ MODULE OrderBook ------------------------------
(***************************************************************************)
(* The limit order book of the engine (limit_order_book.h), the events the *)
(* feed and the generator bring to it, and its two readers: the telemetry    *)
(* thread, which walks the book without a lock, and the web backend's      *)
(* audit of what it published (execution.py).                              *)
(*                                                                         *)
(* Prices are counted in parts of a tick, Grain of them to one; a level of *)
(* the book is a whole number of ticks.  A side is a std::map: a function  *)
(* from the levels it holds to their volume.                               *)
(***************************************************************************)
EXTENDS Integers, FiniteSets, Functions

CONSTANTS Grain,       (* parts of a tick in the unit of prices            *)
          Prices,      (* bound: the prices that occur                     *)
          Quantities,  (* bound: the quantities of an order                *)
          Mid,         (* the generator's mid price, read when it starts   *)
          MaxLevels,   (* MAX_LEVELS_PER_SIDE                              *)
          MaxEvents,   (* bound: events processed                          *)
          MaxTrades    (* bound: those of them that come from the feed     *)

ASSUME BookAssumption ==
  /\ Grain \in Nat \ {0} /\ MaxLevels \in Nat \ {0}
  /\ Prices \subseteq Nat /\ IsFiniteSet(Prices) /\ Mid \in Prices \ {0}
  /\ Quantities \subseteq Nat \ {0}
  /\ MaxEvents \in Nat /\ MaxTrades \in Nat

Sides == {"BUY", "SELL"}
Event == [side : Sides, price : Prices, qty : Quantities \cup {0}]

(* quantize_price: the nearest tick, halves away from zero. *)
Quantize(p) == (2 * p + Grain) \div (2 * Grain)

VARIABLES
  book,      (* bids_ and asks_                                            *)
  busy,      (* engine_loop is in an update                               *)
  event,     (* the event it works on                                      *)
  reader,    (* where telemetry_loop is: the reads it has done             *)
  quote,     (* the document it builds: best_bid, best_ask, and whether    *)
             (* the spread is positive                                     *)
  raced,     (* history: the book was changed since the first read         *)
  resting,   (* history: what was added at each level since a cancel there *)
  dropped,   (* history: the levels that were pruned since a cancel there  *)
  trades,    (* history: events of the feed                                *)
  done       (* history: events processed                                  *)

bookVars == <<book, busy, event, reader, quote, raced, resting, dropped, trades, done>>
-----------------------------------------------------------------------------
(* The book. *)

Better(s, l, m) == IF s = "BUY" THEN l > m ELSE l < m
Best(s, side) == CHOOSE l \in DOMAIN side : \A m \in DOMAIN side \ {l} : Better(s, l, m)

Levels == {Quantize(p) : p \in Prices}

(* Above every level: std::numeric_limits<double>::max(). *)
Far == CHOOSE n \in {l + 1 : l \in Levels} : \A l \in Levels : l < n

BestBid(side) == IF DOMAIN side = {} THEN 0 ELSE Best("BUY", side)
BestAsk(side) == IF DOMAIN side = {} THEN Far ELSE Best("SELL", side)

(* Fault for CalmQuotesAgree: the spread of a crossed book is published.     *)
HasAnySpread(b) == DOMAIN b.BUY # {} /\ DOMAIN b.SELL # {}

(* get_spread_bps reports zero for a crossed book. *)
HasSpread(b) ==
  /\ DOMAIN b.BUY # {} /\ DOMAIN b.SELL # {}
  /\ BestBid(b.BUY) > 0 /\ BestBid(b.BUY) < BestAsk(b.SELL)

Volume(side, l) == IF l \in DOMAIN side THEN side[l] ELSE 0

(* Fault for BookIsGenuine: volume replaces volume, as it did once.          *)
ApplyOver(side, l, qty) ==
  IF qty = 0 THEN Restrict(side, DOMAIN side \ {l})
  ELSE [m \in DOMAIN side \cup {l} |-> IF m = l THEN qty ELSE side[m]]

(* A cancel removes the level, an order adds to it. *)
Apply(side, l, qty) ==
  IF qty = 0 THEN Restrict(side, DOMAIN side \ {l})
  ELSE [m \in DOMAIN side \cup {l} |-> IF m = l THEN Volume(side, l) + qty ELSE side[m]]

(* prune_tail keeps the levels nearest to the touch. *)
Prune(s, side) ==
  Restrict(side, {l \in DOMAIN side :
                   Cardinality({m \in DOMAIN side : Better(s, m, l)}) < MaxLevels})
-----------------------------------------------------------------------------
Empty == [s \in Sides |-> [l \in {} |-> 0]]
NoQuote == [bid |-> 0, ask |-> 0, spread |-> FALSE]
NoEvent == [side |-> "BUY", price |-> 0, qty |-> 0]

BookInit ==
  /\ book = Empty
  /\ busy = FALSE /\ event = NoEvent
  /\ reader = "sleep" /\ quote = NoQuote /\ raced = FALSE
  /\ resting = Empty /\ dropped = [s \in Sides |-> {}]
  /\ trades = 0 /\ done = 0

(* What the generator sends: orders on their side of the mid price it read   *)
(* once, market orders at it, and cancels around it.                         *)
FromGenerator(e) ==
  /\ e.price > 0
  /\ \/ e.qty = 0
     \/ e.side = "BUY" /\ e.price <= Mid
     \/ e.side = "SELL" /\ e.price >= Mid

(* engine_loop pops an event and begins the update of the book. *)
Pop(e) ==
  /\ ~busy /\ done < MaxEvents
  /\ busy' = TRUE /\ event' = e
  /\ \/ FromGenerator(e) /\ UNCHANGED trades
     \/ e.qty > 0 /\ trades < MaxTrades /\ trades' = trades + 1
  /\ UNCHANGED <<book, reader, quote, raced, resting, dropped, done>>

(* The update is complete.  A price that is not positive changes nothing. *)
Update ==
  /\ busy
  /\ busy' = FALSE /\ event' = NoEvent /\ done' = done + 1
  /\ LET s == event.side
         l == Quantize(event.price)
         grown == Apply(book[s], l, event.qty)
         kept == Prune(s, grown)
     IN IF event.price = 0
        THEN UNCHANGED <<book, resting, dropped, raced>>
        ELSE /\ book' = [book EXCEPT ![s] = kept]
             /\ resting' = [resting EXCEPT ![s] =
                  IF event.qty = 0 THEN Restrict(@, DOMAIN @ \ {l})
                  ELSE [m \in DOMAIN @ \cup {l} |->
                          IF m = l THEN event.qty + Volume(resting[s], l) ELSE @[m]]]
             /\ dropped' = [dropped EXCEPT ![s] =
                  IF event.qty = 0 THEN @ \ {l} ELSE @ \cup (DOMAIN grown \ DOMAIN kept)]
             /\ raced' = (reader # "sleep")
  /\ UNCHANGED <<reader, quote, trades>>

-----------------------------------------------------------------------------
(* telemetry_loop reads the book three times, with no lock.  A read of a     *)
(* side that is being changed is a data race and may return anything.        *)

Changing(s) == busy /\ event.price > 0 /\ event.side = s

ReadBid(v) ==
  /\ reader = "sleep"
  /\ Changing("BUY") \/ v = BestBid(book.BUY)
  /\ reader' = "bid"
  /\ quote' = [quote EXCEPT !.bid = v]
  /\ raced' = Changing("BUY")
  /\ UNCHANGED <<book, busy, event, resting, dropped, trades, done>>

ReadAsk(v) ==
  /\ reader = "bid"
  /\ Changing("SELL") \/ v = BestAsk(book.SELL)
  /\ reader' = "ask"
  /\ quote' = [quote EXCEPT !.ask = v]
  /\ raced' = (raced \/ Changing("SELL"))
  /\ UNCHANGED <<book, busy, event, resting, dropped, trades, done>>

ReadSpread(v) ==
  /\ reader = "ask"
  /\ Changing("BUY") \/ Changing("SELL") \/ v = HasSpread(book)
  /\ reader' = "spread"
  /\ quote' = [quote EXCEPT !.spread = v]
  /\ raced' = (raced \/ Changing("BUY") \/ Changing("SELL"))
  /\ UNCHANGED <<book, busy, event, resting, dropped, trades, done>>

(* The document is renamed into place, and the loop sleeps. *)
PublishQuote ==
  /\ reader = "spread"
  /\ reader' = "sleep" /\ quote' = NoQuote /\ raced' = FALSE
  /\ UNCHANGED <<book, busy, event, resting, dropped, trades, done>>

BookNext ==
  \/ \E e \in Event : Pop(e)
  \/ Update \/ PublishQuote
  \/ \E v \in Levels \cup {0, Far} : ReadBid(v) \/ ReadAsk(v)
  \/ \E v \in BOOLEAN : ReadSpread(v)

BookSpec == BookInit /\ [][BookNext]_bookVars

(* _audit_telemetry: what the backend reports about the published quotes. *)
Warnings(q) ==
  (IF q.bid >= q.ask THEN {"crossed book"} ELSE {}) \cup
  (IF q.bid <= 0 \/ q.ask <= 0 THEN {"non-positive quote"} ELSE {})
-----------------------------------------------------------------------------
(* Properties. *)

(* Every level of the book holds what was added to it since it was last      *)
(* cancelled, and none is missing, except for levels that had to be pruned:  *)
(* these may be missing, or hold less.  So no best price is ever stale.      *)
BookIsGenuine ==
  \A s \in Sides :
    /\ Cardinality(DOMAIN book[s]) <= MaxLevels
    /\ \A l \in Levels :
         /\ Volume(book[s], l) <= Volume(resting[s], l)
         /\ l \notin dropped[s] => Volume(book[s], l) = Volume(resting[s], l)

(* Of a snapshot no event disturbed, the audit's silence says that there is  *)
(* a spread, or that nobody sells: an empty ask side is the one impossible   *)
(* reading it does not flag.                                                 *)
CalmQuotesAgree ==
  reader = "spread" /\ ~raced =>
    (Warnings(quote) = {} <=> quote.spread \/ (quote.bid > 0 /\ quote.ask = Far))
=============================================================================
