----------------------------- MODULE MarketData ------------------------------
(***************************************************************************)
(* Where the dashboard's prices come from: fetch_live_data and the two     *)
(* commands on symbols of the web backend (analytics.py), in front of the  *)
(* provider with its own cache (provider.py).  Every request runs in a     *)
(* thread of its own; nothing but a single access to the provider's cache  *)
(* is under a lock.                                                        *)
(*                                                                         *)
(* One symbol and one interval, chosen at the start, as every cache key    *)
(* contains both.  Data is the time it was downloaded at; bars of the file *)
(* are daily whatever interval is asked for.  Time passes in ticks, Ttl to *)
(* a minute, and an answer takes less than a tick: the providers' timeouts *)
(* are five and ten seconds.                                               *)
(***************************************************************************)
EXTENDS Integers, FiniteSets

CONSTANTS Clients,   (* the requests that can be in progress at once *)
          Ttl,       (* the lifetime of both caches, in ticks        *)
          MaxClock,  (* bound: ticks                                 *)
          MaxWrites  (* bound: additions and removals of the symbol  *)

ASSUME DataAssumption ==
  Ttl \in Nat \ {0, 1} /\ MaxClock \in Nat /\ MaxWrites \in Nat /\ IsFiniteSet(Clients)

Nothing == [at |-> -1, ts |-> -1, local |-> FALSE]
Times == 0 .. MaxClock
Entries == {Nothing} \cup [at : Times, ts : Times, local : BOOLEAN]

VARIABLES
  interval,   (* of the requests: 1d or 5m                                 *)
  preferLive, (* QUANTCORE_PREFER_LIVE_DATA                                *)
  clock,
  live,       (* _live_cache: what it holds and since when                 *)
  cache,      (* the provider's _cache                                     *)
  parquet,    (* when the file was downloaded; Absent or Broken            *)
  pc,         (* where each request is                                     *)
  now,        (* the time each began at                                    *)
  seen,       (* the entry each found in _live_cache, however old          *)
  hand,       (* the data each has                                         *)
  answer,     (* the answer given by the latest step, if any: its data, how *)
              (* it was come by, when, what the file was then, and whether  *)
              (* its bars are daily                                         *)
  replaced,   (* history: when the file last changed                       *)
  writes      (* history: additions and removals                           *)

dataVars == <<interval, preferLive, clock, live, cache, parquet, pc, now, seen,
              hand, answer, replaced, writes>>
setting == <<interval, preferLive, clock>>
file    == <<parquet, replaced, writes>>

NoAnswer == [at |-> 0, how |-> "none", time |-> 0, file |-> 0, daily |-> TRUE]
Absent == -1
Broken == -2

DataInit ==
  /\ interval \in {"1d", "5m"} /\ preferLive \in BOOLEAN
  /\ clock = 0 /\ live = Nothing /\ cache = Nothing
  /\ parquet \in {Absent, 0}
  /\ pc = [c \in Clients |-> "idle"] /\ now = [c \in Clients |-> 0]
  /\ seen = [c \in Clients |-> Nothing] /\ hand = [c \in Clients |-> Nothing]
  /\ answer = NoAnswer
  /\ replaced = 0 /\ writes = 0

Silent == answer' = NoAnswer
At(c, l) == pc[c] = l
Goto(c, l) == pc' = [pc EXCEPT ![c] = l]
Reply(c, d, how) ==
  /\ pc' = [pc EXCEPT ![c] = "idle"] /\ now' = [now EXCEPT ![c] = 0]
  /\ seen' = [seen EXCEPT ![c] = Nothing] /\ hand' = [hand EXCEPT ![c] = Nothing]
  /\ answer' = [at |-> d.at, how |-> how, time |-> clock, file |-> parquet,
                daily |-> d.local \/ interval = "1d"]
Fetching == {c \in Clients : pc[c] \in {"local", "provider", "download", "keep", "store", "failed"}}
-----------------------------------------------------------------------------
(* Fault for LiveIsRecent: an entry may be as old as its lifetime.           *)
FreshInclusive(e) == e # Nothing /\ clock - e.ts <= Ttl

(* An entry is used for a minute. *)
Fresh(e) == e # Nothing /\ clock - e.ts < Ttl

How(e) == IF e.local THEN "local" ELSE "live"

(* fetch_live_data looks into its own cache. *)
FetchLive(c) ==
  /\ At(c, "idle")
  /\ IF Fresh(live)
     THEN Reply(c, live, How(live))
     ELSE /\ now' = [now EXCEPT ![c] = clock]
          /\ seen' = [seen EXCEPT ![c] = live]
          /\ Goto(c, IF preferLive THEN "provider" ELSE "local")
          /\ UNCHANGED hand /\ Silent
  /\ UNCHANGED <<setting, live, cache, file>>

Readable == parquet >= 0
FromFile(c) == [at |-> parquet, ts |-> now[c], local |-> TRUE]

(* Fault for LocalIsCurrent: what was cached of the file is cached again.    *)
LoadLocalAnyway(c) ==
  /\ At(c, "local")
  /\ IF seen[c].local
     THEN live' = [seen[c] EXCEPT !.ts = clock] /\ Reply(c, seen[c], "local")
     ELSE IF Readable
     THEN live' = FromFile(c) /\ Reply(c, FromFile(c), "local")
     ELSE Goto(c, "provider") /\ UNCHANGED <<live, now, seen, hand>> /\ Silent
  /\ UNCHANGED <<setting, cache, file>>

(* The file comes first, unless live data is preferred. *)
LoadLocalHistory(c) ==
  /\ At(c, "local")
  /\ IF Readable
     THEN live' = FromFile(c) /\ Reply(c, FromFile(c), "local")
     ELSE Goto(c, "provider") /\ UNCHANGED <<live, now, seen, hand>> /\ Silent
  /\ UNCHANGED <<setting, cache, file>>

(* _cache_get; an entry that is too old is deleted. *)
CacheGet(c) ==
  /\ At(c, "provider")
  /\ IF Fresh(cache)
     THEN /\ hand' = [hand EXCEPT ![c] = [cache EXCEPT !.ts = now[c]]]
          /\ Goto(c, "store") /\ UNCHANGED cache
     ELSE Goto(c, "download") /\ cache' = Nothing /\ UNCHANGED hand
  /\ UNCHANGED <<setting, live, file, now, seen>> /\ Silent

(* yfinance answers, or for daily bars Stooq does; or neither. *)
Download(c) ==
  /\ At(c, "download")
  /\ \/ /\ hand' = [hand EXCEPT ![c] = [at |-> clock, ts |-> now[c], local |-> FALSE]]
        /\ Goto(c, "keep")
     \/ Goto(c, "failed") /\ UNCHANGED hand
  /\ UNCHANGED <<setting, live, cache, file, now, seen>> /\ Silent

(* _cache_set, as of now: the later of two downloads may come first. *)
CacheSet(c) ==
  /\ At(c, "keep")
  /\ cache' = [hand[c] EXCEPT !.ts = clock]
  /\ Goto(c, "store")
  /\ UNCHANGED <<setting, live, file, now, seen, hand>> /\ Silent

(* Neither answers: what was cached is served, however old; else the file.   *)
FallBack(c) ==
  /\ At(c, "failed")
  /\ \/ seen[c] # Nothing /\ Reply(c, seen[c], "stale")
     \/ /\ seen[c] = Nothing /\ Readable
        /\ hand' = [hand EXCEPT ![c] = FromFile(c)]
        /\ Goto(c, "store") /\ UNCHANGED <<now, seen>> /\ Silent
     \/ /\ seen[c] = Nothing /\ ~Readable
        /\ Reply(c, Nothing, "error")
  /\ UNCHANGED <<setting, live, cache, file>>

(* Whatever was found is cached, as of the time the request began. *)
Store(c) ==
  /\ At(c, "store")
  /\ live' = hand[c]
  /\ Reply(c, hand[c], How(hand[c]))
  /\ UNCHANGED <<setting, cache, file>>
-----------------------------------------------------------------------------
(* add_symbol and remove_symbol.  Neither touches the two caches.            *)

Change(f) == parquet' = f /\ replaced' = clock
Others(c, l) == {d \in Clients \ {c} : pc[d] \in l}

(* The whole history is downloaded; without it the request fails. *)
AddSymbol(c) ==
  /\ At(c, "idle")
  /\ writes < MaxWrites /\ writes' = writes + 1
  /\ hand' = [hand EXCEPT ![c] = [at |-> clock, ts |-> clock, local |-> TRUE]]
  /\ Goto(c, "write")
  /\ UNCHANGED <<setting, live, cache, parquet, replaced, now, seen>> /\ Silent

(* The file is written in place: meanwhile nobody can read it, and what two  *)
(* writers leave may be neither's.                                           *)
BeginWrite(c) ==
  /\ At(c, "write")
  /\ Change(Broken)
  /\ LET meets == Others(c, {"writing", "mixing"})
     IN pc' = [d \in Clients |-> IF d \in meets \/ (d = c /\ meets # {}) THEN "mixing"
                                 ELSE IF d = c THEN "writing" ELSE pc[d]]
  /\ UNCHANGED <<setting, live, cache, writes, now, seen, hand>> /\ Silent

EndWrite(c) ==
  /\ pc[c] \in {"writing", "mixing"}
  /\ \/ parquet # Absent /\ Change(hand[c].at)
     \/ pc[c] = "mixing" /\ Change(Broken)
     \/ parquet = Absent /\ UNCHANGED <<parquet, replaced>>
  /\ hand' = [hand EXCEPT ![c] = Nothing]
  /\ Goto(c, "idle")
  /\ UNCHANGED <<setting, live, cache, writes, now, seen>> /\ Silent

(* exists and remove: a file that is gone by then fails the request. *)
FindFile(c) ==
  /\ At(c, "idle") /\ parquet # Absent
  /\ writes < MaxWrites /\ writes' = writes + 1
  /\ Goto(c, "remove")
  /\ UNCHANGED <<setting, live, cache, parquet, replaced, now, seen, hand>> /\ Silent

RemoveSymbol(c) ==
  /\ At(c, "remove")
  /\ IF parquet = Absent THEN UNCHANGED <<parquet, replaced>> ELSE Change(Absent)
  /\ Goto(c, "idle")
  /\ UNCHANGED <<setting, live, cache, writes, now, seen, hand>> /\ Silent
-----------------------------------------------------------------------------
(* A fetch that began before the last tick is answered before the next. *)
Tick ==
  /\ clock < MaxClock
  /\ \A c \in Fetching : now[c] = clock
  /\ clock' = clock + 1
  /\ UNCHANGED <<interval, preferLive, live, cache, file, pc, now, seen, hand>> /\ Silent

DataNext ==
  \/ \E c \in Clients :
       \/ FetchLive(c) \/ LoadLocalHistory(c) \/ CacheGet(c) \/ Download(c) \/ CacheSet(c)
       \/ FallBack(c) \/ Store(c)
       \/ AddSymbol(c) \/ BeginWrite(c) \/ EndWrite(c) \/ FindFile(c) \/ RemoveSymbol(c)
  \/ Tick

DataSpec == DataInit /\ [][DataNext]_dataVars

(* What the answers are called: the trend by the bars it got, the advanced   *)
(* prediction and its review by what was asked for.                          *)
TrendLabel(a) == IF a.daily THEN "1d" ELSE interval
AdvancedLabel(a) == interval
-----------------------------------------------------------------------------
(* Properties. *)

(* What is served as live is not older than two lifetimes: the caches are    *)
(* stacked, and their ages add up, but no more than that, whichever request  *)
(* fills and whichever reads them.  Older data is served only after a        *)
(* download failed.                                                          *)
LiveIsRecent == answer.how = "live" => answer.time - answer.at <= 2 * Ttl - 1

(* What is served from the file is what the file held less than a lifetime   *)
(* ago: a symbol added again, or removed, is seen to be so after a minute,   *)
(* unless the file is gone and a download failed.                            *)
LocalIsCurrent ==
  answer.how = "local" /\ answer.file \notin {Broken, answer.at} =>
    answer.time - replaced < Ttl

(* What provider.py says of daily data under an intraday interval: it is an  *)
(* error, not an answer.  TLC refutes it: the file's bars are daily.         *)
IntervalIsHonest ==
  answer.how \in {"live", "local", "stale"} => AdvancedLabel(answer) = TrendLabel(answer)
=============================================================================
