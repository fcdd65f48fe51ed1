--------------------------- MODULE WebBackendProofs ---------------------------
(***************************************************************************)
(* Proofs about the parts of the web backend and of what it asks the       *)
(* engine for: the data layer, the seed guard, the ghost exchange, the     *)
(* order book, the trade tape and the histories, each for itself, and then *)
(* for the composition of all parts.  They hold for any number of          *)
(* requests, threads and events, any lifetime of the caches, any sizes,    *)
(* levels and prices, and any number of crashes.                           *)
(***************************************************************************)
EXTENDS WebBackend, FiniteSetTheorems, SequenceTheorems, TLAPS

-----------------------------------------------------------------------------
(* The data layer (MarketData), for any number of requests, any lifetime of  *)
(* the caches and any time.                                                  *)
IsEntry(e) == /\ e = [at |-> e.at, ts |-> e.ts, local |-> e.local]
              /\ e.at \in Int /\ e.ts \in Int

Places == {"idle", "local", "provider", "download", "keep", "store", "failed",
           "write", "writing", "mixing", "remove"}

DataTypeOK ==
  /\ clock \in Nat /\ replaced \in Nat /\ parquet \in Int
  /\ IsEntry(live) /\ IsEntry(cache)
  /\ pc \in [Clients -> Places] /\ now \in [Clients -> Nat]
  /\ DOMAIN seen = Clients /\ DOMAIN hand = Clients
  /\ seen = [c \in Clients |-> seen[c]] /\ hand = [c \in Clients |-> hand[c]]
  /\ \A c \in Clients : IsEntry(seen[c]) /\ IsEntry(hand[c])

(* A request began in this tick or in the one before.                        *)
FetchesAreShort ==
  \A c \in Fetching : clock - 1 <= now[c] /\ now[c] <= clock

(* What the provider cached was downloaded at most a tick before; what the   *)
(* dashboard cached of it is as old as the provider's lifetime at most.      *)
CachesAreYoung ==
  /\ ~cache.local /\ cache.ts - cache.at <= 1
  /\ ~live.local => live.ts - live.at <= Ttl

HandsAreYoung ==
  \A c \in Clients :
    /\ pc[c] \in {"keep", "store"} => hand[c].ts = now[c]
    /\ pc[c] = "keep" => ~hand[c].local /\ now[c] <= hand[c].at
    /\ pc[c] = "store" /\ ~hand[c].local => now[c] - hand[c].at <= Ttl

(* What was read from the file is what it holds, or the file changed since.  *)
FileIsFollowed ==
  /\ replaced <= clock /\ live.ts <= clock
  /\ live.local => live.at = parquet \/ live.ts <= replaced
  /\ \A c \in Clients : pc[c] = "store" /\ hand[c].local =>
                          hand[c].at = parquet \/ hand[c].ts <= replaced

Ages == CachesAreYoung /\ HandsAreYoung
Answers == LiveIsRecent /\ LocalIsCurrent
DataInv == DataTypeOK /\ FetchesAreShort /\ Ages /\ FileIsFollowed /\ Answers

(* A step without an answer answers nothing wrong.                           *)
LEMMA SilentAnswers == Silent => Answers'
  BY DEF Silent, NoAnswer, Answers, LiveIsRecent, LocalIsCurrent

(* The empty entry is one.                                                   *)
LEMMA NothingIsEntry == IsEntry(Nothing)
  BY DEF IsEntry, Nothing

(* So is what a request makes of the file.                                   *)
LEMMA FromFileIsEntry ==
  ASSUME DataTypeOK, NEW c \in Clients
  PROVE  IsEntry(FromFile(c))
  BY DEF DataTypeOK, IsEntry, FromFile

(* Empty caches at the start.                                                *)
LEMMA InitDataInv == DataInit => DataInv
<1> SUFFICES ASSUME DataInit PROVE DataInv
  OBVIOUS
<1> USE DataAssumption DEF DataInit, Nothing, Absent
<1>1. DataTypeOK
  BY DEF DataTypeOK, IsEntry, Places
<1>2. FetchesAreShort
  BY DEF FetchesAreShort, Fetching
<1>3. Ages
  BY DEF Ages, CachesAreYoung, HandsAreYoung
<1>4. FileIsFollowed
  BY DEF FileIsFollowed
<1>5. Answers
  BY DEF Answers, LiveIsRecent, LocalIsCurrent, NoAnswer
<1> QED
  BY <1>1, <1>2, <1>3, <1>4, <1>5 DEF DataInv

(* What a fresh entry of the dashboard's cache answers.                      *)
LEMMA FetchLiveDataInv ==
  ASSUME DataInv, NEW c \in Clients, FetchLive(c)
  PROVE  DataInv'
<1> USE DataAssumption DEF DataInv
<1>1. CASE Fresh(live)
  <2>1. /\ Reply(c, live, How(live))
        /\ UNCHANGED <<setting, live, cache, file>>
    BY <1>1, Zenon DEF FetchLive
  <2>2. DataTypeOK'
    BY <2>1, NothingIsEntry DEF DataTypeOK, Reply, setting, file, Places
  <2>3. FetchesAreShort'
    BY <2>1 DEF DataTypeOK, Reply, setting, FetchesAreShort, Fetching
  <2>4. Ages' /\ FileIsFollowed'
    BY <2>1
    DEF DataTypeOK, Reply, setting, file, Ages, CachesAreYoung, HandsAreYoung, FileIsFollowed
  <2>5. Answers'
    BY <1>1, <2>1 DEF DataTypeOK, IsEntry, Reply, How, Fresh, setting, file, Ages, CachesAreYoung,
                      FileIsFollowed, Answers, LiveIsRecent, LocalIsCurrent
  <2> QED
    BY <2>2, <2>3, <2>4, <2>5
<1>2. CASE ~Fresh(live)
  <2>1. /\ now' = [now EXCEPT ![c] = clock] /\ seen' = [seen EXCEPT ![c] = live]
        /\ \/ pc' = [pc EXCEPT ![c] = "provider"]
           \/ pc' = [pc EXCEPT ![c] = "local"]
        /\ UNCHANGED <<clock, live, cache, parquet, replaced, hand>> /\ Silent
    BY <1>2 DEF FetchLive, Goto, setting, file
  <2>2. DataTypeOK'
    BY <2>1 DEF DataTypeOK, Places
  <2>3. FetchesAreShort'
    BY <2>1 DEF DataTypeOK, FetchesAreShort, Fetching
  <2>4. Ages' /\ FileIsFollowed'
    BY <2>1 DEF DataTypeOK, Ages, CachesAreYoung, HandsAreYoung, FileIsFollowed
  <2> QED
    BY <2>1, <2>2, <2>3, <2>4, SilentAnswers
<1> QED
  BY <1>1, <1>2

(* The file answers, and is cached with the time the request began at.       *)
LEMMA LoadLocalDataInv ==
  ASSUME DataInv, NEW c \in Clients, LoadLocalHistory(c)
  PROVE  DataInv'
<1> USE DataAssumption DEF DataInv
<1>1. CASE Readable
  <2>1. /\ live' = FromFile(c) /\ Reply(c, FromFile(c), "local") /\ c \in Fetching
        /\ UNCHANGED <<setting, cache, file>>
    BY <1>1, Zenon DEF LoadLocalHistory, At, Fetching
  <2>2. DataTypeOK'
    BY <2>1, NothingIsEntry, FromFileIsEntry DEF DataTypeOK, Reply, setting, file, Places
  <2>3. FetchesAreShort'
    BY <2>1 DEF DataTypeOK, Reply, setting, FetchesAreShort, Fetching
  <2>4. Ages' /\ FileIsFollowed'
    BY <2>1 DEF DataTypeOK, Reply, setting, file, FromFile, Ages, CachesAreYoung, HandsAreYoung,
                FileIsFollowed, FetchesAreShort
  <2>5. Answers'
    BY <2>1 DEF Reply, FromFile, Answers, LiveIsRecent, LocalIsCurrent
  <2> QED
    BY <2>2, <2>3, <2>4, <2>5
<1>2. CASE ~Readable
  <2>1. /\ pc' = [pc EXCEPT ![c] = "provider"] /\ c \in Fetching
        /\ UNCHANGED <<clock, live, cache, parquet, replaced, now, seen, hand>> /\ Silent
    BY <1>2 DEF LoadLocalHistory, At, Fetching, Goto, setting, file
  <2>2. DataTypeOK'
    BY <2>1 DEF DataTypeOK, Places
  <2>3. FetchesAreShort'
    BY <2>1 DEF DataTypeOK, FetchesAreShort, Fetching
  <2>4. Ages' /\ FileIsFollowed'
    BY <2>1 DEF DataTypeOK, Ages, CachesAreYoung, HandsAreYoung, FileIsFollowed
  <2> QED
    BY <2>1, <2>2, <2>3, <2>4, SilentAnswers
<1> QED
  BY <1>1, <1>2

(* What is fresh in the provider's cache is as old as its lifetime at most.  *)
LEMMA CacheGetDataInv ==
  ASSUME DataInv, NEW c \in Clients, CacheGet(c)
  PROVE  DataInv'
<1> USE DataAssumption DEF DataInv
<1>1. c \in Fetching /\ Silent /\ UNCHANGED <<clock, live, parquet, replaced, now, seen>>
  BY DEF CacheGet, At, Fetching, setting, file
<1>2. CASE Fresh(cache)
  <2>1. /\ hand' = [hand EXCEPT ![c] = [cache EXCEPT !.ts = now[c]]]
        /\ pc' = [pc EXCEPT ![c] = "store"] /\ UNCHANGED cache
    BY <1>2 DEF CacheGet, Goto
  <2>2. [cache EXCEPT !.ts = now[c]] = [at |-> cache.at, ts |-> now[c], local |-> cache.local]
    BY DEF DataTypeOK, IsEntry
  <2>3. DataTypeOK'
    <3>1. IsEntry([at |-> cache.at, ts |-> now[c], local |-> cache.local])
      BY DEF DataTypeOK, IsEntry
    <3> QED
      BY <1>1, <2>1, <2>2, <3>1 DEF DataTypeOK, Places
  <2>4. FetchesAreShort'
    BY <1>1, <2>1 DEF DataTypeOK, FetchesAreShort, Fetching
  <2>5. now[c] - cache.at <= Ttl
    BY <1>1, <1>2 DEF DataTypeOK, IsEntry, Fresh, FetchesAreShort, Ages, CachesAreYoung
  <2>6. Ages' /\ FileIsFollowed'
    BY <1>1, <2>1, <2>2, <2>5 DEF DataTypeOK, Ages, CachesAreYoung, HandsAreYoung, FileIsFollowed
  <2> QED
    BY <1>1, <2>3, <2>4, <2>6, SilentAnswers
<1>3. CASE ~Fresh(cache)
  <2>1. pc' = [pc EXCEPT ![c] = "download"] /\ cache' = Nothing /\ UNCHANGED hand
    BY <1>3 DEF CacheGet, Goto
  <2>2. DataTypeOK'
    BY <1>1, <2>1, NothingIsEntry DEF DataTypeOK, Places
  <2>3. FetchesAreShort'
    BY <1>1, <2>1 DEF DataTypeOK, FetchesAreShort, Fetching
  <2>4. Ages' /\ FileIsFollowed'
    BY <1>1, <2>1 DEF DataTypeOK, Ages, CachesAreYoung, HandsAreYoung, FileIsFollowed, Nothing
  <2> QED
    BY <1>1, <2>2, <2>3, <2>4, SilentAnswers
<1> QED
  BY <1>2, <1>3

(* What is downloaded is not older than the request.                         *)
LEMMA DownloadDataInv ==
  ASSUME DataInv, NEW c \in Clients, Download(c)
  PROVE  DataInv'
<1> USE DataAssumption DEF DataInv
<1>1. c \in Fetching /\ Silent /\ UNCHANGED <<clock, live, cache, parquet, replaced, now, seen>>
  BY DEF Download, At, Fetching, setting, file
<1>2. \/ /\ hand' = [hand EXCEPT ![c] = [at |-> clock, ts |-> now[c], local |-> FALSE]]
         /\ pc' = [pc EXCEPT ![c] = "keep"]
      \/ pc' = [pc EXCEPT ![c] = "failed"] /\ UNCHANGED hand
  BY DEF Download, Goto
<1>3. DataTypeOK'
  <2>1. IsEntry([at |-> clock, ts |-> now[c], local |-> FALSE])
    BY DEF DataTypeOK, IsEntry
  <2> QED
    BY <1>1, <1>2, <2>1 DEF DataTypeOK, Places
<1>4. FetchesAreShort'
  BY <1>1, <1>2 DEF DataTypeOK, FetchesAreShort, Fetching
<1>5. Ages' /\ FileIsFollowed'
  BY <1>1, <1>2 DEF DataTypeOK, Ages, CachesAreYoung, HandsAreYoung, FileIsFollowed, FetchesAreShort
<1> QED
  BY <1>1, <1>3, <1>4, <1>5, SilentAnswers

(* What the provider's cache is given was downloaded at most a tick before.  *)
LEMMA CacheSetDataInv ==
  ASSUME DataInv, NEW c \in Clients, CacheSet(c)
  PROVE  DataInv'
<1> USE DataAssumption DEF DataInv
<1>1. /\ pc[c] = "keep" /\ c \in Fetching /\ Silent
      /\ UNCHANGED <<clock, live, parquet, replaced, now, seen, hand>>
  BY DEF CacheSet, At, Fetching, setting, file
<1>2. cache' = [at |-> hand[c].at, ts |-> clock, local |-> hand[c].local]
  BY DEF CacheSet, DataTypeOK, IsEntry
<1>3. pc' = [pc EXCEPT ![c] = "store"]
  BY DEF CacheSet, Goto
<1>4. DataTypeOK'
  <2>1. IsEntry([at |-> hand[c].at, ts |-> clock, local |-> hand[c].local])
    BY DEF DataTypeOK, IsEntry
  <2> QED
    BY <1>1, <1>2, <1>3, <2>1 DEF DataTypeOK, Places
<1>5. FetchesAreShort'
  BY <1>1, <1>3 DEF DataTypeOK, FetchesAreShort, Fetching
<1>6. /\ hand[c].at \in Int /\ now[c] <= hand[c].at /\ ~hand[c].local
      /\ now[c] \in Int /\ clock - 1 <= now[c] /\ now[c] <= clock
      /\ hand[c].ts = now[c]
  BY <1>1 DEF DataTypeOK, IsEntry, Ages, HandsAreYoung, FetchesAreShort
<1>7. CachesAreYoung'
  BY <1>1, <1>2, <1>6 DEF DataTypeOK, Ages, CachesAreYoung
<1>8. HandsAreYoung' /\ FileIsFollowed'
  BY <1>1, <1>3, <1>6 DEF DataTypeOK, Ages, HandsAreYoung, FileIsFollowed
<1> QED
  BY <1>1, <1>4, <1>5, <1>7, <1>8, SilentAnswers DEF Ages

(* A stale answer says so; the file is read as it is.                        *)
LEMMA FallBackDataInv ==
  ASSUME DataInv, NEW c \in Clients, FallBack(c)
  PROVE  DataInv'
<1> USE DataAssumption DEF DataInv
<1>1. c \in Fetching /\ UNCHANGED <<clock, live, cache, parquet, replaced>>
  BY DEF FallBack, At, Fetching, setting, file
<1>2. CASE Reply(c, seen[c], "stale") \/ Reply(c, Nothing, "error")
  <2>1. DataTypeOK'
    BY <1>1, <1>2, NothingIsEntry DEF DataTypeOK, Reply, Places
  <2>2. FetchesAreShort'
    BY <1>1, <1>2 DEF DataTypeOK, Reply, FetchesAreShort, Fetching
  <2>3. Ages' /\ FileIsFollowed'
    BY <1>1, <1>2 DEF DataTypeOK, Reply, Ages, CachesAreYoung, HandsAreYoung, FileIsFollowed
  <2>4. Answers'
    BY <1>2 DEF Reply, Answers, LiveIsRecent, LocalIsCurrent
  <2> QED
    BY <2>1, <2>2, <2>3, <2>4
<1>3. CASE /\ hand' = [hand EXCEPT ![c] = FromFile(c)] /\ pc' = [pc EXCEPT ![c] = "store"]
           /\ UNCHANGED <<now, seen>> /\ Silent
  <2>1. DataTypeOK'
    BY <1>1, <1>3, FromFileIsEntry DEF DataTypeOK, Places
  <2>2. FetchesAreShort'
    BY <1>1, <1>3 DEF DataTypeOK, FetchesAreShort, Fetching
  <2>3. Ages' /\ FileIsFollowed'
    BY <1>1, <1>3 DEF DataTypeOK, FromFile, Ages, CachesAreYoung, HandsAreYoung, FileIsFollowed
  <2> QED
    BY <1>3, <2>1, <2>2, <2>3, SilentAnswers
<1> QED
  BY <1>2, <1>3 DEF FallBack, Goto

(* The answer is at most a tick older than what it was taken from.           *)
LEMMA StoreDataInv ==
  ASSUME DataInv, NEW c \in Clients, Store(c)
  PROVE  DataInv'
<1> USE DataAssumption DEF DataInv
<1>1. /\ pc[c] = "store" /\ c \in Fetching
      /\ live' = hand[c] /\ Reply(c, hand[c], How(hand[c]))
      /\ UNCHANGED <<clock, cache, parquet, replaced>>
  BY DEF Store, At, Fetching, setting, file
<1>2. DataTypeOK'
  BY <1>1, NothingIsEntry DEF DataTypeOK, Reply, Places
<1>3. FetchesAreShort'
  BY <1>1 DEF DataTypeOK, Reply, FetchesAreShort, Fetching
<1>4. /\ hand[c].ts = now[c]
      /\ ~hand[c].local => now[c] - hand[c].at <= Ttl
      /\ hand[c].local => hand[c].at = parquet \/ now[c] <= replaced
      /\ clock - 1 <= now[c] /\ now[c] <= clock
  BY <1>1 DEF Ages, HandsAreYoung, FileIsFollowed, FetchesAreShort
<1>5. hand[c].at \in Int /\ now[c] \in Int /\ clock \in Int /\ replaced \in Int
  BY DEF DataTypeOK, IsEntry
<1>6. Ages' /\ FileIsFollowed'
  BY <1>1, <1>4, <1>5 DEF DataTypeOK, Reply, Ages, CachesAreYoung, HandsAreYoung, FileIsFollowed
<1>7. LiveIsRecent'
  <2>1. answer'.time = clock /\ answer'.at = hand[c].at /\ answer'.how = How(hand[c])
    BY <1>1 DEF Reply
  <2>2. CASE hand[c].local
    BY <2>1, <2>2 DEF How, LiveIsRecent
  <2>3. CASE ~hand[c].local
    <3>1. now[c] - hand[c].at <= Ttl /\ clock - 1 <= now[c]
      BY <1>4, <2>3
    <3>2. Ttl \in Int /\ 2 <= Ttl
      OBVIOUS
    <3>3. clock - hand[c].at <= 2 * Ttl - 1
      BY <1>5, <3>1, <3>2
    <3> QED
      BY <2>1, <3>3 DEF LiveIsRecent
  <2> QED
    BY <2>2, <2>3
<1>8. LocalIsCurrent'
  BY <1>1, <1>4, <1>5 DEF Reply, How, LocalIsCurrent
<1> QED
  BY <1>2, <1>3, <1>6, <1>7, <1>8 DEF Answers

(* The file changes now, which is not before anything that is cached of it.  *)
LEMMA ChangesAreFollowed ==
  ASSUME DataInv, NEW f, Change(f), UNCHANGED <<clock, live>>,
         \A c \in Clients : pc'[c] = "store" =>
            pc[c] = "store" /\ hand'[c] = hand[c]
  PROVE  FileIsFollowed'
<1>1. \A c \in Clients : pc[c] = "store" => hand[c].ts <= clock
  BY DEF DataInv, Ages, HandsAreYoung, FetchesAreShort, Fetching
<1> QED
  BY <1>1 DEF DataInv, DataTypeOK, Change, FileIsFollowed

(* Adding, writing and removing keep the caches young, and note that the     *)
(* file changed.                                                             *)
LEMMA WriterDataInv ==
  ASSUME DataInv, NEW c \in Clients,
         AddSymbol(c) \/ BeginWrite(c) \/ EndWrite(c) \/ FindFile(c) \/ RemoveSymbol(c)
  PROVE  DataInv'
<1> USE DataAssumption DEF DataInv
<1>1. Silent /\ UNCHANGED <<clock, live, cache, now, seen>>
  BY DEF AddSymbol, BeginWrite, EndWrite, FindFile, RemoveSymbol, setting
<1>2. CASE AddSymbol(c)
  <2>1. /\ hand' = [hand EXCEPT ![c] = [at |-> clock, ts |-> clock, local |-> TRUE]]
        /\ pc' = [pc EXCEPT ![c] = "write"] /\ UNCHANGED <<parquet, replaced>>
    BY <1>2 DEF AddSymbol, Goto
  <2>2. IsEntry([at |-> clock, ts |-> clock, local |-> TRUE])
    BY DEF DataTypeOK, IsEntry
  <2>3. DataTypeOK'
    BY <1>1, <2>1, <2>2 DEF DataTypeOK, Places
  <2>4. FetchesAreShort' /\ Ages' /\ FileIsFollowed'
    BY <1>1, <2>1 DEF DataTypeOK, FetchesAreShort, Fetching, Ages, CachesAreYoung, HandsAreYoung,
                      FileIsFollowed
  <2> QED
    BY <1>1, <2>3, <2>4, SilentAnswers
<1>3. CASE BeginWrite(c)
  <2>1. Change(Broken) /\ UNCHANGED hand
    BY <1>3 DEF BeginWrite
  <2>2. /\ pc' \in [Clients -> Places]
        /\ \A d \in Clients : pc'[d] \in {"writing", "mixing"} \/ pc'[d] = pc[d]
    BY <1>3 DEF BeginWrite, DataTypeOK, Places
  <2>3. DataTypeOK'
    BY <1>1, <2>1, <2>2 DEF DataTypeOK, Change, Broken
  <2>4. FetchesAreShort' /\ Ages'
    BY <1>1, <2>1, <2>2 DEF FetchesAreShort, Fetching, Ages, CachesAreYoung, HandsAreYoung
  <2>5. FileIsFollowed'
    BY <1>1, <2>1, <2>2, ChangesAreFollowed
  <2> QED
    BY <1>1, <2>3, <2>4, <2>5, SilentAnswers
<1>4. CASE EndWrite(c)
  <2>1. /\ hand' = [hand EXCEPT ![c] = Nothing] /\ pc' = [pc EXCEPT ![c] = "idle"]
        /\ Change(hand[c].at) \/ Change(Broken) \/ UNCHANGED <<parquet, replaced>>
    BY <1>4 DEF EndWrite, Goto
  <2>2. DataTypeOK'
    <3>1. hand[c].at \in Int /\ clock \in Nat /\ Broken \in Int
      BY DEF DataTypeOK, IsEntry, Broken
    <3>2. parquet' \in Int /\ replaced' \in Nat
      BY <2>1, <3>1 DEF DataTypeOK, Change
    <3> QED
      BY <1>1, <2>1, <3>2, NothingIsEntry DEF DataTypeOK, Places
  <2>3. FetchesAreShort' /\ Ages'
    BY <1>1, <2>1 DEF DataTypeOK, FetchesAreShort, Fetching, Ages, CachesAreYoung, HandsAreYoung
  <2>4. \A d \in Clients : pc'[d] = "store" => pc[d] = "store" /\ hand'[d] = hand[d]
    BY <2>1 DEF DataTypeOK
  <2>5. FileIsFollowed'
    <3>1. CASE Change(hand[c].at)
      BY <1>1, <2>4, <3>1, ChangesAreFollowed
    <3>2. CASE Change(Broken)
      BY <1>1, <2>4, <3>2, ChangesAreFollowed
    <3>3. CASE UNCHANGED <<parquet, replaced>>
      BY <1>1, <2>4, <3>3 DEF FileIsFollowed
    <3> QED
      BY <2>1, <3>1, <3>2, <3>3
  <2> QED
    BY <1>1, <2>2, <2>3, <2>5, SilentAnswers
<1>5. CASE FindFile(c) \/ RemoveSymbol(c)
  <2>1. /\ UNCHANGED hand
        /\ pc' = [pc EXCEPT ![c] = "remove"] \/ pc' = [pc EXCEPT ![c] = "idle"]
        /\ Change(Absent) \/ UNCHANGED <<parquet, replaced>>
    BY <1>5 DEF FindFile, RemoveSymbol, Goto
  <2>2. DataTypeOK'
    BY <1>1, <2>1 DEF DataTypeOK, Places, Change, Absent
  <2>3. FetchesAreShort' /\ Ages'
    BY <1>1, <2>1 DEF DataTypeOK, FetchesAreShort, Fetching, Ages, CachesAreYoung, HandsAreYoung
  <2>4. \A d \in Clients : pc'[d] = "store" => pc[d] = "store" /\ hand'[d] = hand[d]
    BY <2>1 DEF DataTypeOK
  <2>5. FileIsFollowed'
    <3>1. CASE Change(Absent)
      BY <1>1, <2>4, <3>1, ChangesAreFollowed
    <3>2. CASE UNCHANGED <<parquet, replaced>>
      BY <1>1, <2>4, <3>2 DEF FileIsFollowed
    <3> QED
      BY <2>1, <3>1, <3>2
  <2> QED
    BY <1>1, <2>2, <2>3, <2>5, SilentAnswers
<1> QED
  BY <1>2, <1>3, <1>4, <1>5

(* Time passes only when no fetch in progress began before the last tick.    *)
LEMMA TickDataInv ==
  ASSUME DataInv, Tick
  PROVE  DataInv'
<1> USE DataAssumption DEF DataInv
<1>1. /\ \A c \in Fetching : now[c] = clock
      /\ clock' = clock + 1
      /\ UNCHANGED <<live, cache, parquet, replaced, pc, now, seen, hand>> /\ Silent
  BY DEF Tick, file
<1>2. DataTypeOK'
  BY <1>1 DEF DataTypeOK
<1>3. FetchesAreShort'
  BY <1>1 DEF DataTypeOK, FetchesAreShort, Fetching
<1>4. Ages' /\ FileIsFollowed'
  BY <1>1 DEF DataTypeOK, IsEntry, Ages, CachesAreYoung, HandsAreYoung, FileIsFollowed
<1> QED
  BY <1>1, <1>2, <1>3, <1>4, SilentAnswers

(* The inductive invariant holds in every state of the specification.        *)
THEOREM DataInvariant == DataSpec => []DataInv
<1>1. DataInv /\ [DataNext]_dataVars => DataInv'
  <2> SUFFICES ASSUME DataInv, [DataNext]_dataVars PROVE DataInv'
    OBVIOUS
  <2>1. ASSUME NEW c \in Clients,
               FetchLive(c) \/ LoadLocalHistory(c) \/ CacheGet(c) \/ Download(c)
                 \/ CacheSet(c) \/ FallBack(c) \/ Store(c)
        PROVE  DataInv'
    BY <2>1, FetchLiveDataInv, LoadLocalDataInv, CacheGetDataInv, DownloadDataInv, CacheSetDataInv,
       FallBackDataInv, StoreDataInv
  <2>2. ASSUME NEW c \in Clients,
               AddSymbol(c) \/ BeginWrite(c) \/ EndWrite(c) \/ FindFile(c) \/ RemoveSymbol(c)
        PROVE  DataInv'
    BY <2>2, WriterDataInv
  <2>3. CASE UNCHANGED dataVars
    BY <2>3 DEF dataVars, DataInv, DataTypeOK, FetchesAreShort, Fetching, Ages, CachesAreYoung,
                HandsAreYoung, FileIsFollowed, Answers, LiveIsRecent, LocalIsCurrent
  <2> QED
    BY <2>1, <2>2, <2>3, TickDataInv DEF DataNext
<1> QED
  BY <1>1, InitDataInv, PTL DEF DataSpec

(* What is served as live is younger than two lifetimes of the caches, for   *)
(* any lifetime of two ticks or more (analytics.py, fetch_live_data in front *)
(* of provider.py, fetch_bars).                                              *)
LEMMA LiveInData == DataSpec => []LiveIsRecent
<1>1. DataInv => LiveIsRecent
  BY DEF DataInv, Answers
<1> QED
  BY <1>1, DataInvariant, PTL

(* What is served from the file is what it held less than a lifetime ago,    *)
(* or the file changed within it (analytics.py, add_symbol, remove_symbol).  *)
LEMMA LocalInData == DataSpec => []LocalIsCurrent
<1>1. DataInv => LocalIsCurrent
  BY DEF DataInv, Answers
<1> QED
  BY <1>1, DataInvariant, PTL

-----------------------------------------------------------------------------
(* The seed guard (SeedGuard), for any number of threads that check, and any *)
(* number of checks, edits of the sources and kills.                         *)
Metas == [boots : Nat, hash : Int]

GuardTypeOK ==
  /\ meta \in Metas /\ copy \in [Guards -> Metas]
  /\ source \in Nat /\ tried \in Int /\ since \in Nat
  /\ guard \in [Guards -> {"idle", "reseed", "hash", "save", "saving"}]

(* While no two checks have met, one guard is at work at a time, and the     *)
(* latest attempt was for the sources as they are.                           *)
OneAtWork ==
  ~met => /\ \A g, h \in Guards : guard[g] # "idle" /\ guard[h] # "idle" => g = h
          /\ \A g \in Guards : guard[g] # "idle" => tried = source

(* What is on disk, or on its way there, is no newer than the latest         *)
(* attempt, which is no newer than the sources.                              *)
HashesFollow ==
  ~met => /\ meta.hash <= tried /\ tried <= source /\ -1 <= tried
          /\ \A g \in Guards : copy[g].hash <= tried

(* The checks that decided against an attempt are counted on disk (where     *)
(* half a file causes an attempt), and those of a guard at work in its copy. *)
ChecksAreCounted ==
  ~met => /\ meta.hash >= 0 => since <= meta.boots
          /\ \A g \in Guards :
               /\ guard[g] \in {"reseed", "hash"} => since = 0
               /\ guard[g] \in {"save", "saving"} =>
                    IF copy[g].boots > 0
                    THEN since < copy[g].boots /\ copy[g].boots <= MaxBoots
                    ELSE since = 0

GuardInv == GuardTypeOK /\ OneAtWork /\ HashesFollow /\ ChecksAreCounted /\ TriggersAreKept

(* No check was made at the start.                                           *)
LEMMA InitGuardInv == GuardInit => GuardInv
<1> SUFFICES ASSUME GuardInit PROVE GuardInv
  OBVIOUS
<1> USE GuardAssumption DEF GuardInit, NoMeta
<1>1. GuardTypeOK
  BY DEF GuardTypeOK, Metas
<1>2. OneAtWork /\ HashesFollow /\ ChecksAreCounted /\ TriggersAreKept
  BY DEF OneAtWork, HashesFollow, ChecksAreCounted, TriggersAreKept
<1> QED
  BY <1>1, <1>2 DEF GuardInv

(* A check that finds no reason to download has read the meta data of the    *)
(* latest attempt, with fewer than MaxBoots boots.                           *)
LEMMA CheckGuardInv ==
  ASSUME GuardInv, NEW g \in Guards, NEW force \in BOOLEAN, Check(g, force)
  PROVE  GuardInv'
<1> DEFINE m == [meta EXCEPT !.boots = @ + 1]
<1>1. /\ m \in Metas /\ m.hash = meta.hash /\ m.boots = meta.boots + 1
      /\ meta \in Metas
  BY DEF GuardInv, GuardTypeOK, Metas
<1>2. /\ copy' = [copy EXCEPT ![g] = m] /\ guard[g] = "idle"
      /\ UNCHANGED <<meta, source>>
      /\ ~met' => ~met /\ Alone(g)
  BY Zenon DEF Check, Move
<1>3. \/ /\ guard' = [guard EXCEPT ![g] = "reseed"]
         /\ tried' = source /\ since' = 0
      \/ /\ guard' = [guard EXCEPT ![g] = "save"]
         /\ UNCHANGED <<tried, since>>
         /\ m.boots <= MaxBoots /\ m.hash = source
  BY <1>1, GuardAssumption DEF Check, Move, NeedsReseed, Metas
<1> HIDE DEF m
<1>4. GuardTypeOK'
  BY <1>1, <1>2, <1>3 DEF GuardInv, GuardTypeOK
<1> SUFFICES ASSUME ~met' PROVE OneAtWork' /\ HashesFollow' /\ ChecksAreCounted' /\ TriggersAreKept'
  BY <1>4 DEF GuardInv, OneAtWork, HashesFollow, ChecksAreCounted, TriggersAreKept
<1>5. /\ ~met /\ \A h \in Guards \ {g} : guard[h] = "idle"
      /\ meta.hash <= tried /\ tried <= source /\ -1 <= tried
      /\ \A h \in Guards : copy[h].hash <= tried
      /\ meta.hash >= 0 => since <= meta.boots
      /\ since <= MaxBoots
  BY <1>2 DEF GuardInv, Alone, HashesFollow, ChecksAreCounted, TriggersAreKept
<1>6. tried' = source /\ tried <= tried' /\ -1 <= tried'
  <2>1. meta.hash \in Int /\ tried \in Int /\ source \in Int
    BY DEF GuardInv, GuardTypeOK, Metas
  <2>2. tried' = source
    BY <1>1, <1>3, <1>5, <2>1
  <2> QED
    BY <1>5, <2>1, <2>2
<1>7. /\ guard' \in [Guards -> {"idle", "reseed", "save"}]
      /\ \A h \in Guards \ {g} : guard'[h] = "idle" /\ copy'[h] = copy[h]
      /\ copy'[g] = m
  BY <1>2, <1>3, <1>5 DEF GuardInv, GuardTypeOK
<1>8. OneAtWork'
  BY <1>2, <1>6, <1>7 DEF OneAtWork
<1>9. HashesFollow'
  BY <1>1, <1>2, <1>4, <1>5, <1>6, <1>7 DEF HashesFollow, GuardTypeOK, Metas, GuardInv
<1>10. since' <= MaxBoots /\ (meta'.hash >= 0 => since' <= meta'.boots)
  BY <1>1, <1>2, <1>3, <1>5, GuardAssumption DEF Metas
<1>11. /\ guard'[g] = "reseed" => since' = 0
       /\ guard'[g] = "save" => since' < m.boots /\ m.boots <= MaxBoots /\ m.boots > 0
  BY <1>1, <1>2, <1>3, <1>5, GuardAssumption DEF Metas, GuardInv, GuardTypeOK
<1>12. ChecksAreCounted'
  BY <1>7, <1>10, <1>11 DEF ChecksAreCounted
<1>13. TriggersAreKept'
  BY <1>2, <1>6, <1>7, <1>10 DEF TriggersAreKept
<1> QED
  BY <1>8, <1>9, <1>12, <1>13

(* The steps of an attempt and of saving.                                    *)
LEMMA WorkGuardInv ==
  ASSUME GuardInv, NEW g \in Guards,
         DoReseed(g) \/ ClearTriggers(g) \/ OpenMeta(g) \/ WriteMeta(g)
  PROVE  GuardInv'
<1> USE GuardAssumption DEF Move, NoMeta, Metas
<1>1. CASE DoReseed(g)
  BY <1>1 DEF DoReseed, GuardInv, GuardTypeOK, OneAtWork, HashesFollow, ChecksAreCounted,
              TriggersAreKept
<1>2. CASE ClearTriggers(g)
  BY <1>2 DEF ClearTriggers, GuardInv, GuardTypeOK, OneAtWork, HashesFollow, ChecksAreCounted,
              TriggersAreKept
<1>3. CASE OpenMeta(g)
  BY <1>3 DEF OpenMeta, GuardInv, GuardTypeOK, OneAtWork, HashesFollow, ChecksAreCounted,
              TriggersAreKept
<1>4. CASE WriteMeta(g)
  BY <1>4 DEF WriteMeta, GuardInv, GuardTypeOK, OneAtWork, HashesFollow, ChecksAreCounted,
              TriggersAreKept
<1> QED
  BY <1>1, <1>2, <1>3, <1>4

(* What happens beside the guards: an edit while one is at work counts as    *)
(* met, and a kill leaves the file as it is.                                 *)
LEMMA OutsideGuardInv ==
  ASSUME GuardInv, Edit \/ GrowOld \/ KillBackend
  PROVE  GuardInv'
<1> USE GuardAssumption DEF NoMeta, Metas
<1>1. CASE Edit
  <2>1. GuardTypeOK'
    BY <1>1 DEF Edit, GuardInv, GuardTypeOK
  <2> SUFFICES ASSUME ~met'
               PROVE OneAtWork' /\ HashesFollow' /\ ChecksAreCounted' /\ TriggersAreKept'
    BY <2>1 DEF GuardInv, OneAtWork, HashesFollow, ChecksAreCounted, TriggersAreKept
  <2>2. ~met /\ \A g \in Guards : guard[g] = "idle"
    BY <1>1, Zenon DEF Edit
  <2>3. source' = source + 1 /\ UNCHANGED <<meta, guard, copy, tried, since>>
    BY <1>1 DEF Edit
  <2>4. OneAtWork' /\ TriggersAreKept'
    BY <2>2, <2>3 DEF GuardInv, OneAtWork, TriggersAreKept
  <2>5. HashesFollow'
    BY <2>2, <2>3 DEF GuardInv, GuardTypeOK, HashesFollow
  <2>6. ChecksAreCounted'
    BY <2>2, <2>3 DEF GuardInv, ChecksAreCounted
  <2> QED
    BY <2>4, <2>5, <2>6
<1>2. CASE GrowOld
  BY <1>2 DEF GrowOld, GuardInv, GuardTypeOK, OneAtWork, HashesFollow, ChecksAreCounted,
              TriggersAreKept
<1>3. CASE KillBackend
  <2>1. GuardTypeOK'
    BY <1>3 DEF KillBackend, GuardInv, GuardTypeOK
  <2> SUFFICES ASSUME ~met'
               PROVE OneAtWork' /\ HashesFollow' /\ ChecksAreCounted' /\ TriggersAreKept'
    BY <2>1 DEF GuardInv, OneAtWork, HashesFollow, ChecksAreCounted, TriggersAreKept
  <2>2. /\ ~met /\ UNCHANGED <<meta, source, tried, since>>
        /\ \A g \in Guards : guard'[g] = "idle" /\ copy'[g].hash = -1
    BY <1>3 DEF KillBackend
  <2>3. OneAtWork' /\ TriggersAreKept'
    BY <2>2 DEF GuardInv, OneAtWork, TriggersAreKept
  <2>4. HashesFollow'
    BY <2>2 DEF GuardInv, HashesFollow
  <2>5. ChecksAreCounted'
    BY <2>2 DEF GuardInv, ChecksAreCounted
  <2> QED
    BY <2>3, <2>4, <2>5
<1> QED
  BY <1>1, <1>2, <1>3

(* The inductive invariant holds in every state of the specification.        *)
THEOREM GuardInvariant == GuardSpec => []GuardInv
<1>1. GuardInv /\ [GuardNext]_guardVars => GuardInv'
  <2> SUFFICES ASSUME GuardInv, [GuardNext]_guardVars PROVE GuardInv'
    OBVIOUS
  <2>1. ASSUME NEW g \in Guards, NEW force \in BOOLEAN, Check(g, force) PROVE GuardInv'
    BY <2>1, CheckGuardInv
  <2>2. ASSUME NEW g \in Guards, DoReseed(g) \/ ClearTriggers(g) \/ OpenMeta(g) \/ WriteMeta(g)
        PROVE  GuardInv'
    BY <2>2, WorkGuardInv
  <2>3. CASE Edit \/ GrowOld \/ KillBackend
    BY <2>3, OutsideGuardInv
  <2>4. CASE UNCHANGED guardVars
    BY <2>4 DEF guardVars, GuardInv, GuardTypeOK, OneAtWork, HashesFollow, ChecksAreCounted,
                TriggersAreKept
  <2> QED
    BY <2>1, <2>2, <2>3, <2>4 DEF GuardNext
<1> QED
  BY <1>1, InitGuardInv, PTL DEF GuardSpec

(* Checks that meet neither each other nor an edit lose no trigger           *)
(* (seed_guard.py, check_and_reseed).                                        *)
LEMMA KeptByGuard == GuardSpec => []TriggersAreKept
<1>1. GuardInv => TriggersAreKept
  BY DEF GuardInv
<1> QED
  BY <1>1, GuardInvariant, PTL

-----------------------------------------------------------------------------
(* The ghost exchange (GhostExchange), for orders of any size, any size of   *)
(* child orders, and any number of requests, crashes and restarts.           *)
Holding == {"read", "removed", "joining"}

GhostTypeOK ==
  /\ requests \in 0 .. MaxRequests
  /\ trigger \in 0 .. requests
  /\ size \in [Requests -> Nat]
  /\ engine \in {"up", "stopping", "clean", "aborted", "killed"}
  /\ loop \in {"poll", "found", "left"} \cup Holding
  /\ held \in 0 .. requests
  /\ sim \in {"none", "spawned", "running"}
  /\ target \in Nat /\ filled \in Nat
  /\ served \in [Requests -> Nat]

(* Every order is for a share at least, and what is running has been asked   *)
(* for.                                                                      *)
Sized ==
  /\ \A r \in 1 .. requests : size[r] > 0
  /\ sim # "none" => target > 0

(* A request that is still in the file, or in the thread's hands, was never  *)
(* started; what is in its hands is no longer in the file once the file is   *)
(* removed, and is gone when the engine is.  An execution is active as soon  *)
(* as the simulation itself runs.                                            *)
Unserved ==
  /\ \A r \in Requests : served[r] <= 1
  /\ \A r \in Requests : r > requests => served[r] = 0
  /\ trigger # 0 => served[trigger] = 0
  /\ Alive => (held # 0 <=> loop \in Holding)
  /\ ~Alive => held = 0
  /\ held # 0 => served[held] = 0
  /\ loop = "found" => trigger # 0
  /\ Alive /\ loop \in {"removed", "joining"} => trigger # held
  /\ active <=> sim = "running"

(* While no request has met another, the one in the thread's hands has no    *)
(* simulation before it, and it is the one in the file until the file is     *)
(* removed; a new one waits in the file while a simulation runs.             *)
OneAtATime ==
  ~clash /\ Alive => /\ held # 0 \/ loop = "found" => sim = "none"
                     /\ sim = "spawned" => trigger = 0
                     /\ loop = "read" => trigger = held
                     /\ loop = "removed" => trigger = 0
                     /\ loop # "joining"

GhostInv == GhostTypeOK /\ Sized /\ AlwaysShort /\ Unserved /\ OneAtATime /\ RequestsAreServedOnce

(* No request was made at the start.                                         *)
LEMMA InitGhostInv == GhostInit => GhostInv
<1> SUFFICES ASSUME GhostInit PROVE GhostInv
  OBVIOUS
<1> USE GhostAssumption DEF GhostInit, Requests, Holding, Alive
<1>1. GhostTypeOK
  BY DEF GhostTypeOK
<1>2. Sized /\ AlwaysShort
  BY DEF Sized, AlwaysShort
<1>3. Unserved
  BY DEF Unserved
<1>4. OneAtATime /\ RequestsAreServedOnce
  BY DEF OneAtATime, RequestsAreServedOnce
<1> QED
  BY <1>1, <1>2, <1>3, <1>4 DEF GhostInv

(* A new request has the next number, and meets another only with clash set. *)
LEMMA RequestGhostInv ==
  ASSUME GhostInv, NEW n \in Shares, GhostExecute(n)
  PROVE  GhostInv'
<1> USE GhostAssumption DEF GhostExecute, process, thread, Requests, Holding, Alive
<1>1. GhostTypeOK'
  BY DEF GhostInv, GhostTypeOK
<1>2. Sized' /\ AlwaysShort'
  BY DEF GhostInv, GhostTypeOK, Sized, AlwaysShort
<1>3. Unserved'
  BY DEF GhostInv, GhostTypeOK, Unserved
<1>4. OneAtATime'
  <2>1. ~clash' => ~clash /\ trigger = 0
    OBVIOUS
  <2>2. ~clash' /\ Alive => /\ held = 0 /\ sim # "spawned"
                            /\ loop \notin Holding /\ loop # "found"
    BY <2>1 DEF GhostInv, Unserved
  <2> QED
    BY <2>1, <2>2 DEF OneAtATime
<1>5. RequestsAreServedOnce'
  <2>1. \A r \in 1 .. requests' : r \in 1 .. requests \/ r = trigger'
    BY DEF GhostInv, GhostTypeOK
  <2>2. ~clash' => ~clash /\ trigger = 0
    OBVIOUS
  <2>3. \A r \in 1 .. requests : r # 0
    BY DEF GhostInv, GhostTypeOK
  <2> QED
    BY <2>1, <2>2, <2>3 DEF GhostInv, RequestsAreServedOnce
<1> QED
  BY <1>1, <1>2, <1>3, <1>4, <1>5 DEF GhostInv

(* The ghost loop.                                                           *)
LEMMA LoopGhostInv ==
  ASSUME GhostInv,
         FindTrigger \/ ReadTrigger \/ PutOff \/ RemoveTrigger \/ LeaveLoop
  PROVE  GhostInv'
<1> USE DEF Step, web, thread, Requests, Holding, Alive
<1>1. GhostTypeOK'
  BY DEF GhostInv, GhostTypeOK, Unserved, FindTrigger, ReadTrigger, PutOff, RemoveTrigger, LeaveLoop
<1>2. Sized' /\ AlwaysShort'
  BY DEF GhostInv, Sized, AlwaysShort, FindTrigger, ReadTrigger, PutOff, RemoveTrigger, LeaveLoop
<1>3. CASE FindTrigger
  BY <1>1, <1>2, <1>3
     DEF FindTrigger, GhostInv, GhostTypeOK, Unserved, OneAtATime, RequestsAreServedOnce
<1>4. CASE ReadTrigger
  BY <1>1, <1>2, <1>4
     DEF ReadTrigger, GhostInv, GhostTypeOK, Unserved, OneAtATime, RequestsAreServedOnce
<1>5. CASE PutOff
  BY <1>1, <1>2, <1>5
     DEF PutOff, GhostInv, GhostTypeOK, Unserved, OneAtATime, RequestsAreServedOnce
<1>6. CASE RemoveTrigger
  BY <1>1, <1>2, <1>6
     DEF RemoveTrigger, GhostInv, GhostTypeOK, Unserved, OneAtATime, RequestsAreServedOnce
<1>7. CASE LeaveLoop
  BY <1>1, <1>2, <1>7
     DEF LeaveLoop, GhostInv, GhostTypeOK, Unserved, OneAtATime, RequestsAreServedOnce
<1> QED
  BY <1>3, <1>4, <1>5, <1>6, <1>7

(* A request that is removed from the file is started, unless an execution   *)
(* is there already: then it has met another.                                *)
LEMMA SpawnGhostInv ==
  ASSUME GhostInv, Spawn \/ DropRequest \/ JoinForever
  PROVE  GhostInv'
<1> USE DEF Step, web, thread, Requests, Holding, Alive
<1>1. CASE Spawn
  <2> USE <1>1 DEF Spawn
  <2>0. held \in Requests /\ held \in 1 .. requests /\ served[held] = 0
    BY GhostAssumption DEF GhostInv, GhostTypeOK, Unserved
  <2>1. /\ held \in Requests /\ held \in 1 .. requests
        /\ served' = [served EXCEPT ![held] = 1]
    BY <2>0
  <2>2. GhostTypeOK'
    BY <2>1 DEF GhostInv, GhostTypeOK
  <2>3. Sized' /\ AlwaysShort'
    BY <2>1 DEF GhostInv, GhostTypeOK, Sized, AlwaysShort
  <2>4. Unserved'
    BY <2>1 DEF GhostInv, GhostTypeOK, Unserved
  <2>5. OneAtATime'
    BY <2>0 DEF GhostInv, GhostTypeOK, OneAtATime
  <2>6. RequestsAreServedOnce'
    BY <2>1, <2>4 DEF GhostInv, GhostTypeOK, Unserved, RequestsAreServedOnce
  <2> QED
    BY <2>2, <2>3, <2>4, <2>5, <2>6 DEF GhostInv
<1>2. CASE DropRequest
  BY <1>2 DEF DropRequest, GhostInv, GhostTypeOK, Sized, AlwaysShort, Unserved, OneAtATime,
              RequestsAreServedOnce
<1>3. CASE JoinForever
  BY <1>3 DEF JoinForever, GhostInv, GhostTypeOK, Sized, AlwaysShort, Unserved, OneAtATime,
              RequestsAreServedOnce
<1> QED
  BY <1>1, <1>2, <1>3

(* A child order is no larger than what is left, and less than half of it is *)
(* filled: of three shares or more, two are left.                            *)
LEMMA SimulationGhostInv ==
  ASSUME GhostInv, BeginSimulation \/ Fill
  PROVE  GhostInv'
<1> USE DEF web, process, Requests, Holding, Alive
<1>1. CASE BeginSimulation
  <2>1. GhostTypeOK' /\ Sized' /\ AlwaysShort'
    BY <1>1 DEF BeginSimulation, GhostInv, GhostTypeOK, Sized, AlwaysShort, Least
  <2>2. Unserved' /\ RequestsAreServedOnce'
    BY <1>1 DEF BeginSimulation, GhostInv, Unserved, RequestsAreServedOnce
  <2>3. OneAtATime'
    BY <1>1 DEF BeginSimulation, GhostInv, OneAtATime
  <2> QED
    BY <2>1, <2>2, <2>3 DEF GhostInv
<1>2. CASE Fill
  <2> DEFINE left == target - filled
  <2>1. PICK f \in Fills(Child) : filled' = filled + f
    BY <1>2 DEF Fill
  <2>2. /\ Child \in Int /\ Child <= left /\ target \in Nat /\ filled \in Nat
        /\ left >= Least(2, target)
    BY <1>2, GhostAssumption DEF Fill, Child, Least, Greatest, GhostInv, GhostTypeOK, AlwaysShort
  <2>3. f \in Nat /\ 2 * f < left
    BY <2>2 DEF Fills
  <2>4. target - filled' >= Least(2, target)
    BY <2>1, <2>2, <2>3 DEF Least
  <2>5. GhostTypeOK' /\ Sized' /\ AlwaysShort'
    BY <1>2, <2>1, <2>2, <2>3, <2>4 DEF Fill, GhostInv, GhostTypeOK, Sized, AlwaysShort, Least
  <2>6. Unserved' /\ RequestsAreServedOnce' /\ OneAtATime'
    BY <1>2 DEF Fill, GhostInv, Unserved, RequestsAreServedOnce, OneAtATime
  <2> QED
    BY <2>5, <2>6 DEF GhostInv
<1> QED
  BY <1>1, <1>2

(* An engine that is killed with a request in its hands leaves it in the     *)
(* file, or has just removed the file; a new one starts with none and finds  *)
(* the file as it was.                                                       *)
LEMMA EngineGhostInv ==
  ASSUME GhostInv, Quote \/ Signal \/ MainReturns \/ Kill \/ StartEngine
  PROVE  GhostInv'
<1> USE DEF web, thread, Requests, Holding, Alive
<1>1. GhostTypeOK'
  BY DEF GhostInv, GhostTypeOK, Quote, Signal, MainReturns, Kill, StartEngine
<1>2. Sized' /\ AlwaysShort'
  BY DEF GhostInv, Sized, AlwaysShort, Quote, Signal, MainReturns, Kill, StartEngine
<1>3. Unserved'
  BY DEF GhostInv, Unserved, Quote, Signal, MainReturns, Kill, StartEngine
<1>4. OneAtATime'
  BY DEF GhostInv, GhostTypeOK, Unserved, OneAtATime, Quote, Signal, MainReturns, Kill, StartEngine
<1>5. RequestsAreServedOnce'
  <2>1. CASE Kill
    <3>1. ~clash /\ held # 0 => loop = "removed" \/ trigger = held
      BY <2>1 DEF Kill, GhostInv, Unserved, OneAtATime
    <3>2. \A r \in 1 .. requests : r # 0
      BY DEF GhostInv, GhostTypeOK
    <3> QED
      BY <2>1, <3>1, <3>2 DEF Kill, GhostInv, RequestsAreServedOnce
  <2>2. CASE Quote \/ Signal \/ MainReturns \/ StartEngine
    <3>1. /\ served' = served /\ trigger' = trigger /\ requests' = requests /\ held' = held
          /\ forgotten' = forgotten /\ clash' = clash
      BY <2>2 DEF Quote, Signal, MainReturns, StartEngine, GhostInv, Unserved
    <3> QED
      BY <3>1 DEF GhostInv, RequestsAreServedOnce
  <2> QED
    BY <2>1, <2>2
<1> QED
  BY <1>1, <1>2, <1>3, <1>4, <1>5 DEF GhostInv

(* The inductive invariant holds in every state of the specification.        *)
THEOREM GhostInvariant == GhostSpec => []GhostInv
<1>1. GhostInv /\ [GhostNext]_ghostVars => GhostInv'
  <2> SUFFICES ASSUME GhostInv, [GhostNext]_ghostVars PROVE GhostInv'
    OBVIOUS
  <2>1. ASSUME NEW n \in Shares, GhostExecute(n) PROVE GhostInv'
    BY <2>1, RequestGhostInv
  <2>2. CASE FindTrigger \/ ReadTrigger \/ PutOff \/ RemoveTrigger \/ LeaveLoop
    BY <2>2, LoopGhostInv
  <2>3. CASE Spawn \/ DropRequest \/ JoinForever
    BY <2>3, SpawnGhostInv
  <2>4. CASE BeginSimulation \/ Fill
    BY <2>4, SimulationGhostInv
  <2>5. CASE Quote \/ Signal \/ MainReturns \/ Kill \/ StartEngine
    BY <2>5, EngineGhostInv
  <2>6. CASE UNCHANGED ghostVars
    BY <2>6 DEF ghostVars, GhostInv, GhostTypeOK, Sized, AlwaysShort, Unserved, OneAtATime,
                RequestsAreServedOnce, Alive
  <2> QED
    BY <2>1, <2>2, <2>3, <2>4, <2>5, <2>6 DEF GhostNext
<1> QED
  BY <1>1, InitGhostInv, PTL DEF GhostSpec

(* No execution is ever complete, whatever the size of the order and of its  *)
(* child orders (ghost_exchange.h, simulate_execution).                      *)
LEMMA ShortInExchange == GhostSpec => []AlwaysShort
<1>1. GhostInv => AlwaysShort
  BY DEF GhostInv
<1> QED
  BY <1>1, GhostInvariant, PTL

(* A request is executed at most once, and one that met no other is not lost *)
(* unless the engine is killed between removing its file and starting it     *)
(* (main.cpp, ghost_stress_test_loop and trigger_ghost_execution).           *)
LEMMA ServedInExchange == GhostSpec => []RequestsAreServedOnce
<1>1. GhostInv => RequestsAreServedOnce
  BY DEF GhostInv
<1> QED
  BY <1>1, GhostInvariant, PTL

-----------------------------------------------------------------------------
(* The order book (OrderBook), for every grain, every finite set of prices,  *)
(* any capacity of a side and any number of events.                          *)

(* A set of natural numbers has a least one, unless it is empty.             *)
LEMMA LeastNatural ==
  ASSUME NEW T \in SUBSET Nat, T # {}
  PROVE  \E x \in T : \A y \in T : x <= y
<1>1. \E x \in T : \A y \in T : ~(<<y, x>> \in OpToRel(<, Nat))
  BY NatLessThanWellFounded, WFMin, T \subseteq Nat
<1>2. PICK x \in T : \A y \in T : ~(<<y, x>> \in OpToRel(<, Nat))
  BY <1>1
<1>3. ASSUME NEW y \in T PROVE x <= y
  <2>1. x \in Nat /\ y \in Nat
    OBVIOUS
  <2>2. ~(y < x)
    BY <1>2, <2>1 DEF OpToRel
  <2> QED
    BY <2>1, <2>2
<1> QED
  BY <1>2, <1>3

(* The levels of D that are better than l. *)
Ahead(s, D, l) == {m \in D : Better(s, m, l)}

(* Better is a strict order of the levels of a side, and total.              *)
LEMMA BetterIsOrder ==
  ASSUME NEW s \in Sides, NEW l \in Nat, NEW m \in Nat
  PROVE  /\ l # m => Better(s, l, m) \/ Better(s, m, l)
         /\ ~(Better(s, l, m) /\ Better(s, m, l))
         /\ \A n \in Nat : Better(s, l, m) /\ Better(s, m, n) => Better(s, l, n)
         /\ ~Better(s, l, l)
BY DEF Better, Sides

(* A better level has fewer ahead of it. *)
LEMMA AheadShrinks ==
  ASSUME NEW s \in Sides, NEW D \in SUBSET Nat, IsFiniteSet(D),
         NEW l \in D, NEW m \in D, Better(s, m, l)
  PROVE  Cardinality(Ahead(s, D, m)) < Cardinality(Ahead(s, D, l))
<1>1. Ahead(s, D, m) \subseteq Ahead(s, D, l)
  BY BetterIsOrder DEF Ahead
<1>2. m \in Ahead(s, D, l) /\ m \notin Ahead(s, D, m)
  BY BetterIsOrder DEF Ahead
<1>3. IsFiniteSet(Ahead(s, D, l)) /\ Ahead(s, D, l) \in SUBSET D
  BY FS_Subset DEF Ahead
<1>4. /\ IsFiniteSet(Ahead(s, D, m))
      /\ Cardinality(Ahead(s, D, m)) <= Cardinality(Ahead(s, D, l))
      /\ Cardinality(Ahead(s, D, m)) # Cardinality(Ahead(s, D, l))
  BY <1>1, <1>2, <1>3, FS_Subset
<1>5. Cardinality(Ahead(s, D, m)) \in Nat /\ Cardinality(Ahead(s, D, l)) \in Nat
  BY <1>3, <1>4, FS_CardinalityType
<1> QED
  BY <1>4, <1>5

(* A side that is not empty has a best level, and by the same argument for   *)
(* the other side a worst one.                                               *)
LEMMA BestExists ==
  ASSUME NEW s \in Sides, NEW D \in SUBSET Nat, IsFiniteSet(D), D # {}
  PROVE  \E l \in D : \A m \in D \ {l} : Better(s, l, m)
<1> DEFINE Counts == {Cardinality(Ahead(s, D, l)) : l \in D}
<1>1. \A l \in D : Cardinality(Ahead(s, D, l)) \in Nat
  <2> TAKE l \in D
  <2>1. Ahead(s, D, l) \in SUBSET D
    BY DEF Ahead
  <2> QED
    BY <2>1, FS_Subset, FS_CardinalityType
<1>2. Counts \in SUBSET Nat /\ Counts # {}
  BY <1>1
<1>3. PICK x \in Counts : \A y \in Counts : x <= y
  BY <1>2, LeastNatural
<1>4. PICK l \in D : x = Cardinality(Ahead(s, D, l))
  BY <1>3
<1>5. ASSUME NEW m \in D \ {l} PROVE Better(s, l, m)
  <2>1. CASE Better(s, m, l)
    <3>1. Cardinality(Ahead(s, D, m)) < Cardinality(Ahead(s, D, l))
      BY <2>1, AheadShrinks
    <3>2. Cardinality(Ahead(s, D, l)) <= Cardinality(Ahead(s, D, m))
      BY <1>3, <1>4
    <3> QED
      BY <1>1, <3>1, <3>2
  <2> QED
    BY <2>1, BetterIsOrder
<1> QED
  BY <1>5

(* A side that is finite and not empty has a worst level.                    *)
LEMMA WorstExists ==
  ASSUME NEW s \in Sides, NEW D \in SUBSET Nat, IsFiniteSet(D), D # {}
  PROVE  \E l \in D : \A m \in D \ {l} : Better(s, m, l)
<1> DEFINE other == IF s = "BUY" THEN "SELL" ELSE "BUY"
<1>1. other \in Sides
  BY DEF Sides
<1>2. \A l, m \in D : Better(other, l, m) => Better(s, m, l)
  BY DEF Better, Sides
<1> HIDE DEF other
<1>3. PICK l \in D : \A m \in D \ {l} : Better(other, l, m)
  BY <1>1, BestExists
<1> QED
  BY <1>2, <1>3

(* The best level of a side is one of its levels.                            *)
LEMMA BestIsBest ==
  ASSUME NEW s \in Sides, NEW side, DOMAIN side \in SUBSET Nat, IsFiniteSet(DOMAIN side),
         DOMAIN side # {}
  PROVE  Best(s, side) \in DOMAIN side
BY BestExists DEF Best

(* What prune_tail keeps: as many levels as there is room for, and all of    *)
(* them when there is room for all.                                          *)
LEMMA PruneFits ==
  ASSUME NEW s \in Sides, NEW side, DOMAIN side \in SUBSET Nat, IsFiniteSet(DOMAIN side)
  PROVE  /\ DOMAIN Prune(s, side) \subseteq DOMAIN side
         /\ IsFiniteSet(DOMAIN Prune(s, side))
         /\ Cardinality(DOMAIN Prune(s, side)) <= MaxLevels
         /\ \A l \in DOMAIN Prune(s, side) : Prune(s, side)[l] = side[l]
<1> DEFINE D == DOMAIN side
           K == {l \in D : Cardinality(Ahead(s, D, l)) < MaxLevels}
<1>1. DOMAIN Prune(s, side) = K /\ \A l \in K : Prune(s, side)[l] = side[l]
  BY DEF Prune, Restrict, Ahead
<1>2. K \in SUBSET D /\ K \in SUBSET Nat /\ IsFiniteSet(K)
  BY FS_Subset
<1>3. MaxLevels \in Nat /\ MaxLevels > 0
  BY BookAssumption
<1>4. Cardinality(K) <= MaxLevels
  <2>1. CASE K = {}
    BY <1>3, <2>1, FS_EmptySet
  <2>2. CASE K # {}
    <3>1. PICK w \in K : \A m \in K \ {w} : Better(s, m, w)
      BY <1>2, <2>2, WorstExists
    <3>2. K \ {w} \in SUBSET Ahead(s, D, w)
      BY <1>2, <3>1 DEF Ahead
    <3>3. Ahead(s, D, w) \in SUBSET D
      BY DEF Ahead
    <3>4. IsFiniteSet(Ahead(s, D, w)) /\ Cardinality(Ahead(s, D, w)) \in Nat
      BY <3>3, FS_Subset, FS_CardinalityType
    <3>5. Cardinality(K \ {w}) <= Cardinality(Ahead(s, D, w))
      BY <3>2, <3>4, FS_Subset
    <3>6. Cardinality(K \ {w}) = Cardinality(K) - 1 /\ Cardinality(K) \in Nat
      BY <1>2, FS_RemoveElement, FS_CardinalityType
    <3>7. Cardinality(Ahead(s, D, w)) < MaxLevels
      OBVIOUS
    <3> QED
      BY <1>3, <3>4, <3>5, <3>6, <3>7
  <2> QED
    BY <2>1, <2>2
<1> QED
  BY <1>1, <1>2, <1>4

(* A side within its capacity loses nothing to pruning.                      *)
LEMMA PruneKeepsAll ==
  ASSUME NEW s \in Sides, NEW side, DOMAIN side \in SUBSET Nat, IsFiniteSet(DOMAIN side),
         Cardinality(DOMAIN side) <= MaxLevels
  PROVE  DOMAIN Prune(s, side) = DOMAIN side
<1> DEFINE D == DOMAIN side
<1>1. ASSUME NEW l \in D PROVE Cardinality(Ahead(s, D, l)) < MaxLevels
  <2>1. Ahead(s, D, l) \in SUBSET D /\ l \notin Ahead(s, D, l)
    BY BetterIsOrder DEF Ahead
  <2>2. /\ Cardinality(Ahead(s, D, l)) <= Cardinality(D)
        /\ Cardinality(Ahead(s, D, l)) # Cardinality(D)
        /\ IsFiniteSet(Ahead(s, D, l))
    BY <2>1, FS_Subset
  <2>3. Cardinality(Ahead(s, D, l)) \in Nat /\ Cardinality(D) \in Nat
    BY <2>2, FS_CardinalityType
  <2> QED
    BY <2>2, <2>3, BookAssumption
<1> QED
  BY <1>1 DEF Prune, Restrict, Ahead

(* There are finitely many levels, natural numbers, and every price has one. *)
LEMMA LevelsType ==
  /\ \A p \in Prices : Quantize(p) \in Nat /\ Quantize(p) \in Levels
  /\ Levels \in SUBSET Nat /\ IsFiniteSet(Levels) /\ Levels # {}
<1>1. ASSUME NEW p \in Prices PROVE Quantize(p) \in Nat /\ Quantize(p) \in Levels
  <2>1. p \in Nat /\ Grain \in Nat /\ Grain > 0
    BY BookAssumption
  <2>2. 2 * p + Grain \in Nat /\ 2 * Grain \in Nat /\ 2 * Grain > 0
    BY <2>1
  <2>3. \A a, b \in Nat : b > 0 => a \div b \in Nat
    OBVIOUS
  <2> QED
    BY <2>2, <2>3 DEF Quantize, Levels
<1>2. Levels \in SUBSET Nat /\ Levels # {}
  BY <1>1, BookAssumption DEF Levels
<1>3. IsFiniteSet(Levels)
  <2> DEFINE f == [p \in Prices |-> Quantize(p)]
  <2>1. f \in Surjection(Prices, Levels)
    BY DEF Surjection, Levels
  <2> HIDE DEF f
  <2> QED
    BY <2>1, FS_Surjection, BookAssumption
<1> QED
  BY <1>1, <1>2, <1>3

(* The price that stands for an empty ask side is above all levels.          *)
LEMMA FarIsAbove == Far \in Nat /\ Far > 0 /\ \A l \in Levels : l < Far
<1>1. PICK top \in Levels : \A m \in Levels \ {top} : Better("BUY", top, m)
  BY LevelsType, BestExists DEF Sides
<1>2. \A l \in Levels : l < top + 1
  BY <1>1, LevelsType DEF Better
<1>3. Far \in {l + 1 : l \in Levels} /\ \A l \in Levels : l < Far
  BY <1>2 DEF Far
<1> QED
  BY <1>3, LevelsType

(* One side of the book, what rests on it, and what was dropped of it.       *)
SideIsGenuine(side, rest, drop) ==
  /\ DOMAIN side \subseteq Levels /\ DOMAIN rest \subseteq Levels
  /\ Cardinality(DOMAIN side) <= MaxLevels
  /\ \A l \in Levels :
       /\ Volume(side, l) \in Nat /\ Volume(rest, l) \in Nat
       /\ Volume(side, l) <= Volume(rest, l)
       /\ l \notin drop => Volume(side, l) = Volume(rest, l)

BookInv ==
  /\ DOMAIN book = Sides /\ DOMAIN resting = Sides /\ DOMAIN dropped = Sides
  /\ busy => event \in Event
  /\ \A s \in Sides : SideIsGenuine(book[s], resting[s], dropped[s])

(* As long as no event disturbs the reads, what was read is what is there.   *)
QuoteInv ==
  /\ quote = [bid |-> quote.bid, ask |-> quote.ask, spread |-> quote.spread]
  /\ reader \in {"bid", "ask", "spread"} /\ ~raced => quote.bid = BestBid(book.BUY)
  /\ reader \in {"ask", "spread"} /\ ~raced => quote.ask = BestAsk(book.SELL)
  /\ reader = "spread" /\ ~raced => (quote.spread <=> HasSpread(book))

(* The book is empty at the start.                                           *)
LEMMA InitBookInv == BookInit => BookInv /\ QuoteInv
<1> SUFFICES ASSUME BookInit PROVE BookInv /\ QuoteInv
  OBVIOUS
<1>1. ASSUME NEW s \in Sides PROVE SideIsGenuine(book[s], resting[s], dropped[s])
  <2>1. DOMAIN book[s] = {} /\ DOMAIN resting[s] = {}
    BY DEF BookInit, Empty
  <2>2. Cardinality({}) = 0
    BY FS_EmptySet
  <2> QED
    BY <2>1, <2>2, BookAssumption DEF SideIsGenuine, Volume
<1>2. DOMAIN book = Sides /\ DOMAIN resting = Sides /\ DOMAIN dropped = Sides /\ ~busy
  BY DEF BookInit, Empty
<1>3. QuoteInv
  BY DEF BookInit, QuoteInv, NoQuote
<1> QED
  BY <1>1, <1>2, <1>3 DEF BookInv

(* A cancel takes the level from both, and makes room rather than needs it. *)
LEMMA CancelIsGenuine ==
  ASSUME NEW s \in Sides, NEW l \in Levels, NEW side, NEW rest, NEW drop,
         SideIsGenuine(side, rest, drop)
  PROVE  SideIsGenuine(Prune(s, Restrict(side, DOMAIN side \ {l})),
                       Restrict(rest, DOMAIN rest \ {l}), drop \ {l})
<1> DEFINE cut == Restrict(side, DOMAIN side \ {l})
           kept == Prune(s, cut)
           left == Restrict(rest, DOMAIN rest \ {l})
<1>1. /\ DOMAIN side \in SUBSET Levels /\ IsFiniteSet(DOMAIN side)
      /\ DOMAIN side \in SUBSET Nat
  BY LevelsType, FS_Subset DEF SideIsGenuine
<1>2. /\ DOMAIN cut = DOMAIN side \ {l} /\ \A m \in DOMAIN cut : cut[m] = side[m]
      /\ DOMAIN left = DOMAIN rest \ {l} /\ \A m \in DOMAIN left : left[m] = rest[m]
  BY DEF Restrict
<1>3. /\ IsFiniteSet(DOMAIN cut) /\ DOMAIN cut \in SUBSET DOMAIN side
      /\ Cardinality(DOMAIN cut) <= Cardinality(DOMAIN side)
  BY <1>1, <1>2, FS_Subset
<1>4. Cardinality(DOMAIN cut) <= MaxLevels
  <2>1. Cardinality(DOMAIN cut) \in Nat /\ Cardinality(DOMAIN side) \in Nat
    BY <1>1, <1>3, FS_CardinalityType
  <2> QED
    BY <1>3, <2>1, BookAssumption DEF SideIsGenuine
<1> HIDE DEF cut, left
<1>5. /\ DOMAIN kept = DOMAIN cut /\ \A m \in DOMAIN cut : kept[m] = cut[m]
      /\ Cardinality(DOMAIN kept) <= MaxLevels
  BY <1>1, <1>3, <1>4, PruneKeepsAll, PruneFits
<1> HIDE DEF kept
<1>6. ASSUME NEW m \in Levels
      PROVE  /\ Volume(kept, m) = IF m = l THEN 0 ELSE Volume(side, m)
             /\ Volume(left, m) = IF m = l THEN 0 ELSE Volume(rest, m)
  BY <1>2, <1>5 DEF Volume
<1>7. DOMAIN kept \subseteq Levels /\ DOMAIN left \subseteq Levels
  BY <1>2, <1>5 DEF SideIsGenuine
<1>8. SideIsGenuine(kept, left, drop \ {l})
  BY <1>5, <1>6, <1>7 DEF SideIsGenuine
<1> QED
  BY <1>8 DEF kept, cut, left

(* An order adds to both; what then has no room is noted as dropped. *)
LEMMA OrderIsGenuine ==
  ASSUME NEW s \in Sides, NEW l \in Levels, NEW q \in Nat, q # 0, NEW side, NEW rest, NEW drop,
         SideIsGenuine(side, rest, drop),
         NEW grown, grown = Apply(side, l, q),
         NEW more, more = [m \in DOMAIN rest \cup {l} |->
                             IF m = l THEN q + Volume(rest, l) ELSE rest[m]]
  PROVE  SideIsGenuine(Prune(s, grown), more,
                       drop \cup (DOMAIN grown \ DOMAIN Prune(s, grown)))
<1> DEFINE kept == Prune(s, grown)
<1>1. /\ DOMAIN side \in SUBSET Levels /\ IsFiniteSet(DOMAIN side)
      /\ \A m \in Levels : Volume(side, m) \in Nat /\ Volume(rest, m) \in Nat
      /\ DOMAIN rest \in SUBSET Levels
  BY LevelsType, FS_Subset DEF SideIsGenuine
<1>2. /\ DOMAIN grown = DOMAIN side \cup {l} /\ DOMAIN more = DOMAIN rest \cup {l}
      /\ \A m \in DOMAIN grown : grown[m] = IF m = l THEN Volume(side, l) + q ELSE side[m]
      /\ \A m \in DOMAIN more : more[m] = IF m = l THEN q + Volume(rest, l) ELSE rest[m]
  BY DEF Apply
<1>3. IsFiniteSet(DOMAIN grown) /\ DOMAIN grown \in SUBSET Levels /\ DOMAIN grown \in SUBSET Nat
  <2>1. IsFiniteSet(DOMAIN side \cup {l})
    BY <1>1, FS_AddElement
  <2>2. DOMAIN side \cup {l} \in SUBSET Levels
    BY <1>1
  <2>3. DOMAIN grown \in SUBSET Levels
    BY <1>2, <2>2
  <2>4. Levels \in SUBSET Nat
    BY LevelsType
  <2> QED
    BY <1>2, <2>1, <2>3, <2>4
<1>4. /\ DOMAIN kept \subseteq DOMAIN grown /\ Cardinality(DOMAIN kept) <= MaxLevels
      /\ \A m \in DOMAIN kept : kept[m] = grown[m]
  BY <1>3, PruneFits
<1> HIDE DEF kept
<1>5. ASSUME NEW m \in Levels
      PROVE  /\ Volume(grown, m) = Volume(side, m) + (IF m = l THEN q ELSE 0)
             /\ Volume(more, m) = Volume(rest, m) + (IF m = l THEN q ELSE 0)
  <2>1. CASE m = l
    BY <1>1, <1>2, <2>1 DEF Volume
  <2>2. CASE m # l
    <3>1. Volume(grown, m) = Volume(side, m) /\ Volume(more, m) = Volume(rest, m)
      BY <1>2, <2>2 DEF Volume
    <3> QED
      BY <1>1, <2>2, <3>1
  <2> QED
    BY <2>1, <2>2
<1>6. ASSUME NEW m \in Levels
      PROVE  /\ Volume(kept, m) \in {0, Volume(grown, m)}
             /\ m \notin (DOMAIN grown \ DOMAIN kept) => Volume(kept, m) = Volume(grown, m)
  BY <1>4 DEF Volume
<1>7. ASSUME NEW m \in Levels
      PROVE  /\ Volume(kept, m) \in Nat /\ Volume(more, m) \in Nat
             /\ Volume(kept, m) <= Volume(more, m)
             /\ m \notin drop \cup (DOMAIN grown \ DOMAIN kept) =>
                  Volume(kept, m) = Volume(more, m)
  <2>1. /\ Volume(side, m) <= Volume(rest, m) /\ Volume(side, m) \in Nat /\ Volume(rest, m) \in Nat
        /\ m \notin drop => Volume(side, m) = Volume(rest, m)
    BY DEF SideIsGenuine
  <2> QED
    BY <1>5, <1>6, <2>1
<1>8. DOMAIN kept \subseteq Levels /\ DOMAIN more \subseteq Levels
  BY <1>1, <1>2, <1>3, <1>4
<1>9. SideIsGenuine(kept, more, drop \cup (DOMAIN grown \ DOMAIN kept))
  BY <1>4, <1>7, <1>8 DEF SideIsGenuine
<1> QED
  BY <1>9 DEF kept

(* An update of one side leaves the other as it is. *)
LEMMA UpdateBookInv == BookInv /\ Update => BookInv'
<1> SUFFICES ASSUME BookInv, Update PROVE BookInv'
  OBVIOUS
<1> DEFINE s == event.side
           l == Quantize(event.price)
           q == event.qty
           grown == Apply(book[s], l, q)
           kept == Prune(s, grown)
<1>1. /\ s \in Sides /\ event.price \in Prices /\ q \in Nat /\ l \in Levels
  <2>1. event \in Event
    BY DEF BookInv, Update
  <2>2. s \in Sides /\ event.price \in Prices /\ q \in Quantities \cup {0}
    BY <2>1 DEF Event
  <2>3. \A n \in Quantities \cup {0} : n \in Nat
    BY BookAssumption
  <2>4. q \in Nat
    BY <2>2, <2>3
  <2> QED
    BY <2>2, <2>4, LevelsType
<1>2. ~busy'
  BY DEF Update
<1>3. CASE event.price = 0
  <2>1. UNCHANGED <<book, resting, dropped>>
    BY <1>3 DEF Update
  <2> QED
    BY <1>2, <2>1 DEF BookInv
<1>4. CASE event.price # 0
  <2>1. /\ book' = [book EXCEPT ![s] = kept]
        /\ resting' = [resting EXCEPT ![s] =
             IF q = 0 THEN Restrict(resting[s], DOMAIN resting[s] \ {l})
             ELSE [m \in DOMAIN resting[s] \cup {l} |->
                     IF m = l THEN q + Volume(resting[s], l) ELSE resting[s][m]]]
        /\ dropped' = [dropped EXCEPT ![s] =
             IF q = 0 THEN dropped[s] \ {l} ELSE dropped[s] \cup (DOMAIN grown \ DOMAIN kept)]
    BY <1>4 DEF Update
  <2>2. DOMAIN book = Sides /\ DOMAIN resting = Sides /\ DOMAIN dropped = Sides
    BY DEF BookInv
  <2>3. SideIsGenuine(book'[s], resting'[s], dropped'[s])
    <3>1. SideIsGenuine(book[s], resting[s], dropped[s])
      BY <1>1 DEF BookInv
    <3>2. CASE q = 0
      <4>1. /\ book'[s] = Prune(s, Restrict(book[s], DOMAIN book[s] \ {l}))
            /\ resting'[s] = Restrict(resting[s], DOMAIN resting[s] \ {l})
            /\ dropped'[s] = dropped[s] \ {l}
        BY <1>1, <2>1, <2>2, <3>2 DEF Apply
      <4> HIDE DEF s, l
      <4> QED
        BY <1>1, <3>1, <4>1, CancelIsGenuine
    <3>3. CASE q # 0
      <4>1. /\ book'[s] = Prune(s, grown)
            /\ resting'[s] = [m \in DOMAIN resting[s] \cup {l} |->
                                IF m = l THEN q + Volume(resting[s], l) ELSE resting[s][m]]
            /\ dropped'[s] = dropped[s] \cup (DOMAIN grown \ DOMAIN Prune(s, grown))
        BY <1>1, <2>1, <2>2, <3>3
      <4>2. grown = Apply(book[s], l, q)
        OBVIOUS
      <4> HIDE DEF s, l, q, grown
      <4> QED
        BY <1>1, <3>1, <3>3, <4>1, <4>2, OrderIsGenuine
    <3> QED
      BY <3>2, <3>3
  <2>4. ASSUME NEW t \in Sides \ {s}
        PROVE  book'[t] = book[t] /\ resting'[t] = resting[t] /\ dropped'[t] = dropped[t]
    BY <2>1, <2>2
  <2>5. DOMAIN book' = Sides /\ DOMAIN resting' = Sides /\ DOMAIN dropped' = Sides
    BY <2>1, <2>2
  <2> HIDE DEF s
  <2>6. \A t \in Sides : SideIsGenuine(book'[t], resting'[t], dropped'[t])
    BY <2>3, <2>4 DEF BookInv
  <2> QED
    BY <1>2, <2>5, <2>6 DEF BookInv
<1> QED
  BY <1>3, <1>4
(* What the generator's and the feed's events, and the reader, leave alone.  *)
LEMMA StepBookInv == BookInv /\ [BookNext]_bookVars => BookInv'
<1> SUFFICES ASSUME BookInv, [BookNext]_bookVars PROVE BookInv'
  OBVIOUS
<1>1. ASSUME NEW e \in Event, Pop(e) PROVE BookInv'
  <2>1. event' \in Event /\ book' = book /\ resting' = resting /\ dropped' = dropped
    BY <1>1 DEF Pop
  <2> QED
    BY <2>1 DEF BookInv
<1>2. CASE Update
  BY <1>2, UpdateBookInv
<1>3. CASE UNCHANGED <<book, busy, event, resting, dropped>>
  BY <1>3 DEF BookInv
<1>4. CASE PublishQuote
  BY <1>3, <1>4 DEF PublishQuote
<1>5. ASSUME NEW v \in Levels \cup {0, Far}, ReadBid(v) \/ ReadAsk(v) PROVE BookInv'
  BY <1>3, <1>5 DEF ReadBid, ReadAsk
<1>6. ASSUME NEW v \in BOOLEAN, ReadSpread(v) PROVE BookInv'
  BY <1>3, <1>6 DEF ReadSpread
<1>7. CASE UNCHANGED bookVars
  BY <1>3, <1>7 DEF bookVars
<1> QED
  BY <1>1, <1>2, <1>4, <1>5, <1>6, <1>7 DEF BookNext

(* A reader whose reads no event disturbed has the prices that are there. *)
LEMMA StepQuoteInv == BookInv /\ QuoteInv /\ [BookNext]_bookVars => QuoteInv'
<1> SUFFICES ASSUME BookInv, QuoteInv, [BookNext]_bookVars PROVE QuoteInv'
  OBVIOUS
<1>1. CASE UNCHANGED <<book, reader, quote, raced>>
  BY <1>1 DEF QuoteInv
<1>2. ASSUME NEW e \in Event, Pop(e) PROVE QuoteInv'
  BY <1>1, <1>2 DEF Pop
<1>3. CASE Update
  <2>1. CASE event.price = 0
    BY <1>1, <1>3, <2>1 DEF Update
  <2>2. CASE event.price # 0
    <3>1. quote' = quote /\ reader' = reader /\ raced' = (reader # "sleep")
      BY <1>3, <2>2 DEF Update
    <3> QED
      BY <3>1 DEF QuoteInv
  <2> QED
    BY <2>1, <2>2
<1>4. CASE PublishQuote
  BY <1>4 DEF PublishQuote, NoQuote, QuoteInv
<1>5. ASSUME NEW v \in Levels \cup {0, Far}, ReadBid(v) PROVE QuoteInv'
  <2>1. /\ reader' = "bid" /\ book' = book /\ quote' = [quote EXCEPT !.bid = v]
        /\ ~raced' => v = BestBid(book.BUY)
    BY <1>5 DEF ReadBid
  <2> QED
    BY <2>1 DEF QuoteInv
<1>6. ASSUME NEW v \in Levels \cup {0, Far}, ReadAsk(v) PROVE QuoteInv'
  <2>1. /\ reader = "bid" /\ reader' = "ask" /\ book' = book
        /\ quote' = [quote EXCEPT !.ask = v]
        /\ ~raced' => ~raced
        /\ ~raced' => v = BestAsk(book.SELL)
    BY <1>6 DEF ReadAsk
  <2> QED
    BY <2>1 DEF QuoteInv
<1>7. ASSUME NEW v \in BOOLEAN, ReadSpread(v) PROVE QuoteInv'
  <2>1. /\ reader = "ask" /\ reader' = "spread" /\ book' = book
        /\ quote' = [quote EXCEPT !.spread = v]
        /\ ~raced' => ~raced
        /\ ~raced' => v = HasSpread(book)
    BY <1>7, Zenon DEF ReadSpread
  <2>2. /\ quote'.bid = quote.bid /\ quote'.ask = quote.ask /\ quote'.spread = v
        /\ quote' = [bid |-> quote'.bid, ask |-> quote'.ask, spread |-> quote'.spread]
    BY <2>1 DEF QuoteInv
  <2> QED
    BY <2>1, <2>2 DEF QuoteInv
<1>8. CASE UNCHANGED bookVars
  BY <1>1, <1>8 DEF bookVars
<1> QED
  BY <1>2, <1>3, <1>4, <1>5, <1>6, <1>7, <1>8 DEF BookNext

(* The best prices of a side of the book are levels, or the two extremes. *)
LEMMA TouchType ==
  ASSUME BookInv
  PROVE  /\ BestBid(book.BUY) \in Nat /\ BestAsk(book.SELL) \in Nat
         /\ BestBid(book.BUY) < Far
         /\ BestBid(book.BUY) > 0 => DOMAIN book.BUY # {}
         /\ DOMAIN book.SELL = {} => BestAsk(book.SELL) = Far
<1>1. ASSUME NEW s \in Sides
      PROVE  /\ DOMAIN book[s] \in SUBSET Levels /\ DOMAIN book[s] \in SUBSET Nat
             /\ IsFiniteSet(DOMAIN book[s])
  BY LevelsType, FS_Subset DEF BookInv, SideIsGenuine
<1>2. ASSUME NEW s \in Sides, DOMAIN book[s] # {} PROVE Best(s, book[s]) \in Levels
  BY <1>1, <1>2, BestIsBest
<1>3. /\ DOMAIN book.BUY # {} => Best("BUY", book.BUY) \in Levels
      /\ DOMAIN book.SELL # {} => Best("SELL", book.SELL) \in Levels
  BY <1>2 DEF Sides
<1>4. /\ BestBid(book.BUY) = IF DOMAIN book.BUY = {} THEN 0 ELSE Best("BUY", book.BUY)
      /\ BestAsk(book.SELL) = IF DOMAIN book.SELL = {} THEN Far ELSE Best("SELL", book.SELL)
  BY DEF BestBid, BestAsk
<1>5. Levels \in SUBSET Nat /\ Far \in Nat /\ Far > 0 /\ \A l \in Levels : l < Far
  BY LevelsType, FarIsAbove
<1>6. DOMAIN book.SELL = {} => BestAsk(book.SELL) = Far
  BY <1>4, Zenon
<1>7. BestAsk(book.SELL) \in Nat
  <2>1. BestAsk(book.SELL) \in Levels \/ BestAsk(book.SELL) = Far
    BY <1>3, <1>4, Zenon
  <2> QED
    BY <1>5, <2>1
<1>8. CASE DOMAIN book.BUY = {}
  <2>1. BestBid(book.BUY) = 0
    BY <1>4, <1>8, Zenon
  <2>2. /\ BestBid(book.BUY) \in Nat /\ BestBid(book.BUY) < Far
        /\ ~(BestBid(book.BUY) > 0)
    BY <1>5, <2>1
  <2> QED
    BY <1>6, <1>7, <2>2, Zenon
<1>9. CASE DOMAIN book.BUY # {}
  <2>1. BestBid(book.BUY) \in Levels
    BY <1>3, <1>4, <1>9, Zenon
  <2>2. BestBid(book.BUY) \in Nat /\ BestBid(book.BUY) < Far
    BY <1>5, <2>1
  <2> QED
    BY <1>6, <1>7, <1>9, <2>2, Zenon
<1> QED
  BY <1>8, <1>9

(* The audit of a calm snapshot says what the book's own spread says. *)
LEMMA CalmAudit == BookInv /\ QuoteInv => CalmQuotesAgree
<1> SUFFICES ASSUME BookInv, QuoteInv, reader = "spread", ~raced
             PROVE  Warnings(quote) = {} <=> quote.spread \/ (quote.bid > 0 /\ quote.ask = Far)
  BY DEF CalmQuotesAgree
<1> DEFINE b == BestBid(book.BUY)
           a == BestAsk(book.SELL)
<1>1. quote.bid = b /\ quote.ask = a /\ (quote.spread <=> HasSpread(book))
  BY DEF QuoteInv
<1>2. HasSpread(book) <=> DOMAIN book.BUY # {} /\ DOMAIN book.SELL # {} /\ b > 0 /\ b < a
  BY DEF HasSpread
<1>3. /\ b \in Nat /\ a \in Nat /\ b < Far /\ Far \in Nat
      /\ b > 0 => DOMAIN book.BUY # {}
      /\ DOMAIN book.SELL = {} => a = Far
  BY TouchType, FarIsAbove
<1> HIDE DEF a, b
<1>4. Warnings(quote) = {} <=> ~(b >= a) /\ ~(b <= 0 \/ a <= 0)
  BY <1>1 DEF Warnings
<1>5. (~(b >= a) /\ ~(b <= 0 \/ a <= 0)) <=> (b < a /\ b > 0)
  BY <1>3
<1>6. (b < a /\ b > 0) <=> (HasSpread(book) \/ (b > 0 /\ a = Far))
  BY <1>2, <1>3
<1> QED
  BY <1>1, <1>4, <1>5, <1>6, Zenon

(* BookInv and QuoteInv hold in every state the book, its events and its     *)
(* reader can reach.                                                         *)
THEOREM BookInvariant == BookSpec => [](BookInv /\ QuoteInv)
<1>1. BookInit => BookInv /\ QuoteInv
  BY InitBookInv
<1>2. BookInv /\ QuoteInv /\ [BookNext]_bookVars => (BookInv /\ QuoteInv)'
  BY StepBookInv, StepQuoteInv
<1> QED
  BY <1>1, <1>2, PTL DEF BookSpec

(* The book never keeps a stale level: whatever the orders and the cancels,  *)
(* a level holds what was added to it since it was last cancelled, except    *)
(* where prune_tail took it away.                                            *)
LEMMA GenuineInBook == BookSpec => []BookIsGenuine
<1>1. BookInv => BookIsGenuine
  BY DEF BookInv, BookIsGenuine, SideIsGenuine
<1> QED
  BY <1>1, BookInvariant, PTL

(* Of a snapshot nobody disturbed, the backend's audit is silent exactly     *)
(* when there is a spread, or when nobody sells.                             *)
LEMMA CalmInBook == BookSpec => []CalmQuotesAgree
BY CalmAudit, BookInvariant, PTL

-----------------------------------------------------------------------------
(* The trade tape (Tape), for any number of browsers and of fills: first what *)
(* the list operations of the broadcast do.                                  *)

(* x is in the list q, and nothing is in it twice. *)
Has(q, x) == \E i \in 1 .. Len(q) : q[i] = x
Distinct(q) == \A i, j \in 1 .. Len(q) : q[i] = q[j] => i = j

(* What a list has when one is appended ...                                  *)
LEMMA AppendHas ==
  ASSUME NEW S, NEW q \in Seq(S), NEW x \in S
  PROVE  /\ Append(q, x) \in Seq(S)
         /\ \A y : Has(Append(q, x), y) <=> Has(q, y) \/ y = x
         /\ Distinct(q) /\ ~Has(q, x) => Distinct(Append(q, x))
<1> DEFINE g == Append(q, x)
<1>1. /\ g \in Seq(S) /\ Len(q) \in Nat /\ Len(g) = Len(q) + 1
      /\ \A i \in 1 .. Len(q) : g[i] = q[i]
      /\ g[Len(q) + 1] = x
  BY AppendProperties, LenProperties
<1> HIDE DEF g
<1>2. \A y : Has(g, y) <=> Has(q, y) \/ y = x
  <2> SUFFICES ASSUME NEW y PROVE Has(g, y) <=> Has(q, y) \/ y = x
    OBVIOUS
  <2>1. \A i \in 1 .. Len(g) : i \in 1 .. Len(q) \/ i = Len(q) + 1
    BY <1>1
  <2>2. Len(q) + 1 \in 1 .. Len(g) /\ \A i \in 1 .. Len(q) : i \in 1 .. Len(g)
    BY <1>1
  <2>3. Has(g, y) => Has(q, y) \/ y = x
    BY <1>1, <2>1 DEF Has
  <2>4. Has(q, y) => Has(g, y)
    BY <1>1, <2>2 DEF Has
  <2>5. y = x => Has(g, y)
    BY <1>1, <2>2 DEF Has
  <2> QED
    BY <2>3, <2>4, <2>5
<1>3. Distinct(q) /\ ~Has(q, x) => Distinct(g)
  <2>1. \A i \in 1 .. Len(g) : i \in 1 .. Len(q) \/ i = Len(q) + 1
    BY <1>1
  <2> QED
    BY <1>1, <2>1 DEF Distinct, Has
<1> QED
  BY <1>1, <1>2, <1>3 DEF g

(* ... when the first is taken ...                                           *)
LEMMA TailHas ==
  ASSUME NEW S, NEW q \in Seq(S), q # <<>>
  PROVE  /\ Head(q) \in S /\ Has(q, Head(q)) /\ Tail(q) \in Seq(S)
         /\ \A y : Has(q, y) <=> Has(Tail(q), y) \/ y = Head(q)
         /\ Distinct(q) => Distinct(Tail(q)) /\ ~Has(Tail(q), Head(q))
<1> DEFINE g == Tail(q)
<1>1. /\ g \in Seq(S) /\ Len(q) \in Nat /\ Len(q) >= 1 /\ Len(g) = Len(q) - 1
      /\ \A i \in 1 .. Len(g) : g[i] = q[i + 1]
      /\ Head(q) = q[1] /\ Head(q) \in S
  <2>1. Len(q) \in Nat /\ Len(q) # 0
    BY EmptySeq, LenProperties
  <2> QED
    BY <2>1, HeadTailProperties
<1> HIDE DEF g
<1>2. /\ 1 \in 1 .. Len(q)
      /\ \A i \in 1 .. Len(g) : i + 1 \in 1 .. Len(q) /\ i + 1 # 1
      /\ \A i \in 1 .. Len(q) : i # 1 => i - 1 \in 1 .. Len(g) /\ (i - 1) + 1 = i
  BY <1>1
<1>3. \A y : Has(q, y) <=> Has(g, y) \/ y = Head(q)
  <2> SUFFICES ASSUME NEW y PROVE Has(q, y) <=> Has(g, y) \/ y = Head(q)
    OBVIOUS
  <2>1. Has(g, y) => Has(q, y)
    BY <1>1, <1>2 DEF Has
  <2>2. ASSUME NEW i \in 1 .. Len(q), q[i] = y PROVE Has(g, y) \/ y = Head(q)
    <3>1. CASE i = 1
      BY <1>1, <2>2, <3>1
    <3>2. CASE i # 1
      <4>1. i - 1 \in 1 .. Len(g) /\ g[i - 1] = y
        BY <1>1, <1>2, <2>2, <3>2
      <4> QED
        BY <4>1 DEF Has
    <3> QED
      BY <3>1, <3>2
  <2>3. y = Head(q) => Has(q, y)
    BY <1>1, <1>2 DEF Has
  <2> QED
    BY <2>1, <2>2, <2>3 DEF Has
<1>4. Distinct(q) => Distinct(g) /\ ~Has(g, Head(q))
  <2> SUFFICES ASSUME Distinct(q) PROVE Distinct(g) /\ ~Has(g, Head(q))
    OBVIOUS
  <2>1. ASSUME NEW i \in 1 .. Len(g), NEW j \in 1 .. Len(g), g[i] = g[j] PROVE i = j
    <3>1. i + 1 = j + 1
      BY <1>1, <1>2, <2>1 DEF Distinct
    <3> QED
      BY <3>1
  <2>2. ASSUME NEW i \in 1 .. Len(g), g[i] = Head(q) PROVE FALSE
    BY <1>1, <1>2, <2>2 DEF Distinct
  <2> QED
    BY <2>1, <2>2 DEF Distinct, Has
<1> QED
  BY <1>1, <1>2, <1>3, <1>4 DEF g, Has

(* ... and when one is removed.                                              *)
LEMMA WithoutHas ==
  ASSUME NEW S, NEW q \in Seq(S), Distinct(q), NEW x
  PROVE  /\ Without(q, x) \in Seq(S)
         /\ \A y : Has(Without(q, x), y) <=> Has(q, y) /\ y # x
         /\ Distinct(Without(q, x))
<1>1. CASE ~Has(q, x)
  <2>1. Without(q, x) = q
    BY <1>1 DEF Without, RemoveFirst, Has
  <2> QED
    BY <1>1, <2>1
<1>2. CASE Has(q, x)
  <2> DEFINE I == {i \in 1 .. Len(q) : q[i] = x}
             k == SelectInSeq(q, LAMBDA v : v = x)
             a == SubSeq(q, 1, k - 1)
             b == SubSeq(q, k + 1, Len(q))
             g == Without(q, x)
  <2>1. Len(q) \in Nat
    BY LenProperties
  <2>2. k = Min(I)
    <3>1. I # {}
      BY <1>2 DEF Has
    <3> QED
      BY <3>1 DEF SelectInSeq
  <2>3. k \in I
    <3>1. I # {} /\ I \in SUBSET Nat
      BY <1>2, <2>1 DEF Has
    <3>2. \E i \in I : \A j \in I : i <= j
      BY <3>1, LeastNatural
    <3> HIDE DEF I
    <3> QED
      BY <2>2, <3>2 DEF Min
  <2>4. g = a \o b
    BY <1>2 DEF Without, RemoveFirst, RemoveAt, Has
  <2>5. k \in 1 .. Len(q) /\ q[k] = x
    BY <2>3
  <2> HIDE DEF k, I, g
  <2>6. \A i \in 1 .. Len(q) : q[i] \in S
    BY ElementOfSeq
  <2>7. /\ \A i \in 1 .. k - 1 : q[i] \in S
        /\ \A i \in k + 1 .. Len(q) : q[i] \in S
        /\ 1 \in Int /\ k - 1 \in Int /\ k + 1 \in Int /\ Len(q) \in Int
    BY <2>1, <2>5, <2>6
  <2>8. /\ a \in Seq(S)
        /\ Len(a) = IF 1 <= k - 1 THEN (k - 1) - 1 + 1 ELSE 0
        /\ \A i \in 1 .. (k - 1) - 1 + 1 : a[i] = q[1 + i - 1]
    BY <2>7, SubSeqProperties
  <2>9. /\ b \in Seq(S)
        /\ Len(b) = IF k + 1 <= Len(q) THEN Len(q) - (k + 1) + 1 ELSE 0
        /\ \A i \in 1 .. Len(q) - (k + 1) + 1 : b[i] = q[k + 1 + i - 1]
    BY <2>7, SubSeqProperties
  <2> HIDE DEF a, b
  <2>10. /\ g \in Seq(S) /\ Len(g) = Len(a) + Len(b)
         /\ \A i \in 1 .. Len(a) + Len(b) : g[i] = IF i <= Len(a) THEN a[i] ELSE b[i - Len(a)]
    BY <2>4, <2>8, <2>9, ConcatProperties
  <2>11. Len(a) = k - 1 /\ Len(b) = Len(q) - k /\ Len(g) = Len(q) - 1
    <3>1. k \in Int /\ 1 <= k /\ k <= Len(q)
      BY <2>1, <2>5
    <3> DEFINE n == Len(q)
    <3>2. (IF 1 <= k - 1 THEN (k - 1) - 1 + 1 ELSE 0) = k - 1
      BY <3>1
    <3>3. (IF k + 1 <= n THEN n - (k + 1) + 1 ELSE 0) = n - k
      BY <2>1, <3>1
    <3>4. (k - 1) + (n - k) = n - 1
      BY <2>1, <3>1
    <3> QED
      BY <2>8, <2>9, <2>10, <3>2, <3>3, <3>4
  <2>12. ASSUME NEW i \in 1 .. Len(g) PROVE g[i] = IF i < k THEN q[i] ELSE q[i + 1]
    <3>1. CASE i < k
      <4>1. i \in 1 .. Len(a) + Len(b) /\ i <= Len(a)
        BY <2>1, <2>5, <2>11, <3>1
      <4>2. i \in 1 .. (k - 1) - 1 + 1 /\ 1 + i - 1 = i
        BY <2>5, <3>1
      <4> QED
        BY <2>8, <2>10, <3>1, <4>1, <4>2
    <3>2. CASE ~(i < k)
      <4>1. i \in 1 .. Len(a) + Len(b) /\ ~(i <= Len(a)) /\ i - Len(a) = (i - k) + 1
        BY <2>1, <2>5, <2>11, <3>2
      <4>2. (i - k) + 1 \in 1 .. Len(q) - (k + 1) + 1 /\ k + 1 + ((i - k) + 1) - 1 = i + 1
        BY <2>1, <2>5, <2>11, <3>2
      <4> QED
        BY <2>9, <2>10, <3>2, <4>1, <4>2
    <3> QED
      BY <3>1, <3>2
  <2>13. /\ \A i \in 1 .. Len(g) : /\ i < k => i \in 1 .. Len(q)
                                   /\ ~(i < k) => i + 1 \in 1 .. Len(q)
         /\ \A i \in 1 .. Len(q) :
              /\ i < k => i \in 1 .. Len(g)
              /\ i > k => i - 1 \in 1 .. Len(g) /\ ~(i - 1 < k) /\ (i - 1) + 1 = i
    BY <2>1, <2>5, <2>11
  <2>14. ASSUME NEW y, Has(g, y) PROVE Has(q, y) /\ y # x
    <3>1. PICK i \in 1 .. Len(g) : g[i] = y
      BY <2>14 DEF Has
    <3>2. CASE i < k
      <4>1. i \in 1 .. Len(q) /\ q[i] = y /\ i # k
        BY <2>5, <2>12, <2>13, <3>1, <3>2
      <4> QED
        BY <2>5, <4>1 DEF Has, Distinct
    <3>3. CASE ~(i < k)
      <4>1. i + 1 \in 1 .. Len(q) /\ q[i + 1] = y /\ i + 1 # k
        BY <2>5, <2>12, <2>13, <3>1, <3>3
      <4> QED
        BY <2>5, <4>1 DEF Has, Distinct
    <3> QED
      BY <3>2, <3>3
  <2>15. ASSUME NEW y, Has(q, y), y # x PROVE Has(g, y)
    <3>1. PICK i \in 1 .. Len(q) : q[i] = y
      BY <2>15 DEF Has
    <3>2. i # k
      BY <2>5, <2>15, <3>1
    <3>3. CASE i < k
      BY <2>12, <2>13, <3>1, <3>3 DEF Has
    <3>4. CASE i > k
      <4>1. i - 1 \in 1 .. Len(g) /\ g[i - 1] = q[i]
        BY <2>12, <2>13, <3>4
      <4> QED
        BY <3>1, <4>1 DEF Has
    <3> QED
      BY <2>5, <3>2, <3>3, <3>4
  <2>16. ASSUME NEW i \in 1 .. Len(g), NEW j \in 1 .. Len(g), g[i] = g[j] PROVE i = j
    <3> DEFINE moved(l) == IF l < k THEN l ELSE l + 1
    <3>1. moved(i) \in 1 .. Len(q) /\ moved(j) \in 1 .. Len(q) /\ q[moved(i)] = q[moved(j)]
      BY <2>12, <2>13, <2>16
    <3> HIDE DEF moved
    <3>2. moved(i) = moved(j)
      BY <3>1 DEF Distinct
    <3> QED
      BY <2>5, <3>2 DEF moved
  <2> QED
    BY <2>10, <2>14, <2>15, <2>16 DEF Distinct, g
<1> QED
  BY <1>1, <1>2

TapeTypeOK ==
  /\ tape \in Seq(Sockets)
  /\ socket \in [Sockets -> {"new", "open", "gone"}]
  /\ todo \in [TapeFills -> Seq(Sockets)]
  /\ listening \in [TapeFills -> SUBSET Sockets]
  /\ inbox \in [Sockets -> Seq(TapeFills)]

(* The list holds every open socket, nothing twice, and no browser that has  *)
(* not connected yet.                                                        *)
ListFollows ==
  /\ Distinct(tape)
  /\ \A s \in Sockets : /\ Has(tape, s) => socket[s] # "new"
                        /\ socket[s] = "open" => Has(tape, s)

(* A broadcast has nobody twice before it, and nobody that had the fill; who *)
(* listens is still before it or has the fill.                               *)
BroadcastsFollow ==
  \A f \in TapeFills :
    /\ Distinct(todo[f]) /\ listening[f] \subseteq Open
    /\ \A s \in Sockets : /\ Has(todo[f], s) => ~Has(inbox[s], f)
                          /\ s \in listening[f] => Has(todo[f], s) \/ Has(inbox[s], f)

OnceEach == \A s \in Sockets : Distinct(inbox[s])
TapeInv == TapeTypeOK /\ ListFollows /\ BroadcastsFollow /\ OnceEach

(* An empty list has nothing, and nothing twice.                             *)
LEMMA EmptyHas ==
  ASSUME NEW S PROVE <<>> \in Seq(S) /\ Distinct(<<>>) /\ \A x : ~Has(<<>>, x)
  BY EmptySeq DEF Has, Distinct

(* Nobody is connected at the start.                                         *)
LEMMA InitTapeInv == TapeInit => TapeInv
<1> SUFFICES ASSUME TapeInit PROVE TapeInv
  OBVIOUS
<1>1. TapeTypeOK
  BY EmptyHas DEF TapeInit, TapeTypeOK
<1>2. ListFollows
  BY EmptyHas DEF TapeInit, ListFollows
<1>3. BroadcastsFollow
  BY EmptyHas DEF TapeInit, BroadcastsFollow
<1>4. OnceEach
  BY EmptyHas DEF TapeInit, OnceEach
<1> QED
  BY <1>1, <1>2, <1>3, <1>4 DEF TapeInv

(* A browser that connects is on the list once, and in no broadcast that has *)
(* begun.                                                                    *)
LEMMA ConnectTapeInv ==
  ASSUME NEW s \in Sockets, TapeInv, Connect(s) PROVE TapeInv'
<1> USE DEF TapeInv
<1>1. /\ tape' \in Seq(Sockets)
      /\ \A y : Has(tape, y)' <=> Has(tape, y) \/ y = s
      /\ Distinct(tape) /\ ~Has(tape, s) => Distinct(tape)'
  <2>1. tape' = Append(tape, s) /\ tape \in Seq(Sockets)
    BY DEF Connect, TapeTypeOK
  <2> QED
    BY <2>1, AppendHas DEF Has, Distinct
<1>2. ~Has(tape, s)
  BY DEF Connect, ListFollows
<1>3. /\ \A x \in Sockets : socket'[x] = IF x = s THEN "open" ELSE socket[x]
      /\ socket' \in [Sockets -> {"new", "open", "gone"}]
  BY DEF Connect, TapeTypeOK
<1>4. TapeTypeOK'
  BY <1>1, <1>3 DEF Connect, TapeTypeOK
<1>5. ListFollows'
  <2>1. Distinct(tape)'
    BY <1>1, <1>2 DEF ListFollows
  <2>2. ASSUME NEW x \in Sockets
        PROVE (Has(tape, x)' => socket'[x] # "new") /\ (socket'[x] = "open" => Has(tape, x)')
    BY <1>1, <1>3 DEF ListFollows
  <2> QED
    BY <2>1, <2>2 DEF ListFollows
<1>6. Open \subseteq Open'
  BY <1>3 DEF Open
<1>7. BroadcastsFollow' /\ OnceEach'
  BY <1>6 DEF Connect, BroadcastsFollow, OnceEach
<1> QED
  BY <1>4, <1>5, <1>7

(* A browser that leaves listens to no broadcast.                            *)
LEMMA DisconnectTapeInv ==
  ASSUME NEW s \in Sockets, TapeInv, Disconnect(s) PROVE TapeInv'
<1> USE DEF TapeInv
<1>1. /\ \A x \in Sockets : socket'[x] = IF x = s THEN "gone" ELSE socket[x]
      /\ socket' \in [Sockets -> {"new", "open", "gone"}]
      /\ \A f \in TapeFills : listening'[f] = listening[f] \ {s}
      /\ listening' \in [TapeFills -> SUBSET Sockets]
  BY DEF Disconnect, TapeTypeOK
<1>2. TapeTypeOK'
  BY <1>1 DEF Disconnect, TapeTypeOK
<1>3. ListFollows'
  BY <1>1 DEF Disconnect, ListFollows
<1>4. Open' = Open \ {s}
  BY <1>1 DEF Open
<1>5. BroadcastsFollow'
  <2>1. todo' = todo /\ inbox' = inbox
    BY DEF Disconnect
  <2>2. ASSUME NEW f \in TapeFills PROVE listening'[f] \subseteq Open'
    BY <1>1, <1>4 DEF BroadcastsFollow
  <2>3. ASSUME NEW f \in TapeFills, NEW x \in Sockets, x \in listening'[f]
        PROVE Has(todo[f], x) \/ Has(inbox[x], f)
    BY <1>1, <2>3 DEF BroadcastsFollow
  <2> QED
    BY <2>1, <2>2, <2>3 DEF BroadcastsFollow
<1>6. OnceEach'
  BY DEF Disconnect, OnceEach
<1> QED
  BY <1>2, <1>3, <1>5, <1>6

(* A broadcast begins with everybody on the list.                            *)
LEMMA BroadcastTapeInv ==
  ASSUME NEW f \in TapeFills, TapeInv, Broadcast(f) PROVE TapeInv'
<1> USE DEF TapeInv
<1>1. /\ \A g \in TapeFills : todo'[g] = IF g = f THEN tape ELSE todo[g]
      /\ \A g \in TapeFills : listening'[g] = IF g = f THEN Open ELSE listening[g]
      /\ todo' \in [TapeFills -> Seq(Sockets)]
      /\ listening' \in [TapeFills -> SUBSET Sockets]
  BY DEF Broadcast, TapeTypeOK, Open
<1>2. TapeTypeOK' /\ ListFollows' /\ OnceEach' /\ Open' = Open
  BY <1>1 DEF Broadcast, TapeTypeOK, ListFollows, OnceEach, Open
<1>3. \A s \in Sockets : ~Has(inbox[s], f)
  <2> SUFFICES ASSUME NEW s \in Sockets, Has(inbox[s], f) PROVE FALSE
    OBVIOUS
  <2>1. inbox[s] \in Seq(TapeFills)
    BY DEF TapeTypeOK
  <2>2. PICK i \in 1 .. Len(inbox[s]) : inbox[s][i] = f
    BY DEF Has
  <2>3. i \in DOMAIN inbox[s]
    BY <2>1, <2>2, LenProperties
  <2> QED
    BY <2>2, <2>3 DEF Broadcast
<1>4. BroadcastsFollow'
  <2> SUFFICES ASSUME NEW g \in TapeFills
               PROVE  /\ Distinct(todo'[g]) /\ listening'[g] \subseteq Open
                      /\ \A s \in Sockets :
                           /\ Has(todo'[g], s) => ~Has(inbox[s], g)
                           /\ s \in listening'[g] => Has(todo'[g], s) \/ Has(inbox[s], g)
    BY <1>2 DEF Broadcast, BroadcastsFollow
  <2>1. CASE g = f
    <3>1. todo'[g] = tape /\ listening'[g] = Open
      BY <1>1, <2>1
    <3>2. \A s \in Sockets : s \in Open => Has(tape, s)
      BY DEF Open, ListFollows
    <3>3. Distinct(tape)
      BY DEF ListFollows
    <3> QED
      BY <1>3, <2>1, <3>1, <3>2, <3>3
  <2>2. CASE g # f
    <3>1. todo'[g] = todo[g] /\ listening'[g] = listening[g]
      BY <1>1, <2>2
    <3> QED
      BY <3>1 DEF BroadcastsFollow
  <2> QED
    BY <2>1, <2>2
<1> QED
  BY <1>2, <1>4

(* A send reaches the next socket or takes it off the list; nobody else is   *)
(* skipped.                                                                  *)
LEMMA SendNextTapeInv ==
  ASSUME NEW f \in TapeFills, TapeInv, SendNext(f) PROVE TapeInv'
<1> USE DEF TapeInv
<1> DEFINE s == Head(todo[f])
<1>1. /\ s \in Sockets /\ Has(todo[f], s) /\ Tail(todo[f]) \in Seq(Sockets)
      /\ \A y : Has(todo[f], y) <=> Has(Tail(todo[f]), y) \/ y = s
      /\ Distinct(Tail(todo[f])) /\ ~Has(Tail(todo[f]), s)
  <2>1. todo[f] \in Seq(Sockets) /\ todo[f] # <<>> /\ Distinct(todo[f])
    BY DEF SendNext, TapeTypeOK, BroadcastsFollow
  <2> QED
    BY <2>1, TailHas
<1>2. /\ socket[s] = "open" => inbox' = [inbox EXCEPT ![s] = Append(@, f)] /\ tape' = tape
      /\ socket[s] # "open" => tape' = Without(tape, s) /\ inbox' = inbox
      /\ todo' = [todo EXCEPT ![f] = Tail(@)]
      /\ socket' = socket /\ listening' = listening
  BY DEF SendNext
<1> HIDE DEF s
<1>3. /\ \A g \in TapeFills : todo'[g] = IF g = f THEN Tail(todo[f]) ELSE todo[g]
      /\ todo' \in [TapeFills -> Seq(Sockets)]
  BY <1>1, <1>2 DEF TapeTypeOK
<1>4. ~Has(inbox[s], f)
  BY <1>1 DEF BroadcastsFollow
<1>5. /\ inbox' \in [Sockets -> Seq(TapeFills)]
      /\ \A x \in Sockets : Distinct(inbox'[x])
      /\ \A x \in Sockets, g \in TapeFills :
           Has(inbox'[x], g) <=>
             (Has(inbox[x], g) \/ (x = s /\ g = f /\ socket[s] = "open"))
  <2>1. CASE socket[s] # "open"
    BY <1>2, <2>1 DEF TapeTypeOK, OnceEach
  <2>2. CASE socket[s] = "open"
    <3>1. inbox[s] \in Seq(TapeFills) /\ Distinct(inbox[s])
      BY <1>1 DEF TapeTypeOK, OnceEach
    <3>2. /\ Append(inbox[s], f) \in Seq(TapeFills)
          /\ \A y : Has(Append(inbox[s], f), y) <=> Has(inbox[s], y) \/ y = f
          /\ Distinct(Append(inbox[s], f))
      BY <1>4, <3>1, AppendHas
    <3>3. /\ \A x \in Sockets : inbox'[x] = IF x = s THEN Append(inbox[s], f) ELSE inbox[x]
          /\ inbox' \in [Sockets -> Seq(TapeFills)]
      BY <1>1, <1>2, <2>2, <3>2 DEF TapeTypeOK
    <3>4. \A x \in Sockets : Distinct(inbox'[x])
      BY <3>2, <3>3 DEF OnceEach
    <3> QED
      BY <2>2, <3>2, <3>3, <3>4
  <2> QED
    BY <2>1, <2>2
<1>6. /\ tape' \in Seq(Sockets) /\ Distinct(tape)'
      /\ \A y : Has(tape, y)' <=> Has(tape, y) /\ (y # s \/ socket[s] = "open")
  <2>1. CASE socket[s] = "open"
    BY <1>2, <2>1 DEF TapeTypeOK, ListFollows, Distinct, Has
  <2>2. CASE socket[s] # "open"
    <3>1. tape \in Seq(Sockets) /\ Distinct(tape)
      BY DEF TapeTypeOK, ListFollows
    <3>2. /\ tape' \in Seq(Sockets)
          /\ \A y : Has(tape', y) <=> Has(tape, y) /\ y # s
          /\ Distinct(tape')
      BY <1>2, <2>2, <3>1, WithoutHas
    <3> QED
      BY <2>2, <3>2
  <2> QED
    BY <2>1, <2>2
<1>7. TapeTypeOK'
  BY <1>2, <1>3, <1>5, <1>6 DEF TapeTypeOK
<1>8. ListFollows'
  <2>1. ASSUME NEW x \in Sockets
        PROVE  /\ Has(tape, x)' => socket[x] # "new"
               /\ socket[x] = "open" => Has(tape, x)'
    BY <1>6 DEF ListFollows
  <2> QED
    BY <1>2, <1>6, <2>1 DEF ListFollows
<1>9. OnceEach'
  BY <1>5 DEF OnceEach
<1>10. BroadcastsFollow'
  <2>1. Open' = Open /\ listening' = listening
    BY <1>2 DEF Open
  <2> SUFFICES ASSUME NEW g \in TapeFills
               PROVE  /\ Distinct(todo'[g]) /\ listening[g] \subseteq Open
                      /\ \A x \in Sockets :
                           /\ Has(todo'[g], x) => ~Has(inbox'[x], g)
                           /\ x \in listening[g] => Has(todo'[g], x) \/ Has(inbox'[x], g)
    BY <2>1 DEF BroadcastsFollow
  <2>2. listening[g] \subseteq Open
    BY DEF BroadcastsFollow
  <2>3. CASE g # f
    <3>1. todo'[g] = todo[g]
      BY <1>3, <2>3
    <3>2. \A x \in Sockets : Has(inbox'[x], g) <=> Has(inbox[x], g)
      BY <1>5, <2>3
    <3> QED
      BY <3>1, <3>2 DEF BroadcastsFollow
  <2>4. CASE g = f
    <3>1. todo'[g] = Tail(todo[f])
      BY <1>3, <2>4
    <3>2. ASSUME NEW x \in Sockets, Has(todo'[g], x) PROVE ~Has(inbox'[x], g)
      <4>1. Has(todo[f], x) /\ x # s
        BY <1>1, <3>1, <3>2
      <4> QED
        BY <1>5, <2>4, <4>1 DEF BroadcastsFollow
    <3>3. ASSUME NEW x \in Sockets, x \in listening[g]
          PROVE  Has(todo'[g], x) \/ Has(inbox'[x], g)
      <4>1. Has(todo[f], x) \/ Has(inbox[x], f)
        BY <2>4, <3>3 DEF BroadcastsFollow
      <4>2. CASE Has(inbox[x], f)
        BY <1>5, <2>4, <4>2
      <4>3. CASE Has(todo[f], x) /\ x # s
        BY <1>1, <3>1, <4>3
      <4>4. CASE x = s
        <5>1. socket[s] = "open"
          BY <2>2, <3>3, <4>4 DEF Open
        <5> QED
          BY <1>5, <2>4, <4>4, <5>1
      <4> QED
        BY <4>1, <4>2, <4>3, <4>4
    <3> QED
      BY <1>1, <2>2, <3>1, <3>2, <3>3
  <2> QED
    BY <2>3, <2>4
<1> QED
  BY <1>7, <1>8, <1>9, <1>10

(* The end of the server empties the list, and nobody listens any more.      *)
LEMMA CloseTapeInv ==
  ASSUME TapeInv, CloseTape PROVE TapeInv'
<1> USE DEF TapeInv
<1>1. TapeTypeOK'
  BY EmptyHas DEF CloseTape, TapeTypeOK
<1>2. ListFollows'
  BY EmptyHas DEF CloseTape, ListFollows
<1>3. BroadcastsFollow'
  <2>1. \A f \in TapeFills : listening'[f] = {}
    BY DEF CloseTape
  <2>2. todo' = todo /\ inbox' = inbox
    BY DEF CloseTape
  <2> QED
    BY <2>1, <2>2 DEF BroadcastsFollow
<1>4. OnceEach'
  BY DEF CloseTape, OnceEach
<1> QED
  BY <1>1, <1>2, <1>3, <1>4

(* The invariant implies that nobody is skipped.                             *)
LEMMA TapeAudit == TapeInv => NobodyIsSkipped
<1> SUFFICES ASSUME TapeInv, NEW f \in TapeFills, NEW s \in Sockets
             PROVE  LET copies == Cardinality({i \in DOMAIN inbox[s] : inbox[s][i] = f})
                    IN /\ copies <= 1
                       /\ todo[f] = <<>> /\ s \in listening[f] => copies = 1
  BY DEF NobodyIsSkipped
<1> DEFINE C == {i \in DOMAIN inbox[s] : inbox[s][i] = f}
<1>1. DOMAIN inbox[s] = 1 .. Len(inbox[s]) /\ Distinct(inbox[s])
  <2>1. inbox[s] \in Seq(TapeFills)
    BY DEF TapeInv, TapeTypeOK
  <2> QED
    BY <2>1, LenProperties DEF TapeInv, OnceEach
<1>2. CASE Has(inbox[s], f)
  <2>1. PICK i \in 1 .. Len(inbox[s]) : inbox[s][i] = f
    BY <1>2 DEF Has
  <2>2. C = {i}
    BY <1>1, <2>1 DEF Distinct
  <2>3. Cardinality(C) = 1
    BY <2>2, FS_Singleton
  <2> HIDE DEF C
  <2> QED
    BY <2>3 DEF C
<1>3. CASE ~Has(inbox[s], f)
  <2>1. C = {}
    BY <1>1, <1>3 DEF Has
  <2>2. Cardinality(C) = 0
    BY <2>1, FS_EmptySet
  <2>3. ~(todo[f] = <<>> /\ s \in listening[f])
    BY <1>3, EmptyHas DEF TapeInv, BroadcastsFollow
  <2> HIDE DEF C
  <2> QED
    BY <2>2, <2>3 DEF C
<1> QED
  BY <1>2, <1>3

(* The invariant of the tape holds of every behaviour of the tape (ws.py,    *)
(* ws_tape; state.py, broadcast_fill).                                       *)
THEOREM TapeInvariant == TapeSpec => []TapeInv
<1>1. TapeInv /\ [TapeNext]_tapeVars => TapeInv'
  <2> SUFFICES ASSUME TapeInv, [TapeNext]_tapeVars PROVE TapeInv'
    OBVIOUS
  <2>1. CASE \E s \in Sockets : Connect(s)
    BY <2>1, ConnectTapeInv
  <2>2. CASE \E s \in Sockets : Disconnect(s)
    BY <2>2, DisconnectTapeInv
  <2>3. CASE \E f \in TapeFills : Broadcast(f)
    BY <2>3, BroadcastTapeInv
  <2>4. CASE \E f \in TapeFills : SendNext(f)
    BY <2>4, SendNextTapeInv
  <2>5. CASE CloseTape
    BY <2>5, CloseTapeInv
  <2>6. CASE UNCHANGED tapeVars
    BY <2>6 DEF tapeVars, TapeInv, TapeTypeOK, ListFollows, BroadcastsFollow, OnceEach, Open
  <2> QED
    BY <2>1, <2>2, <2>3, <2>4, <2>5, <2>6 DEF TapeNext
<1> QED
  BY <1>1, InitTapeInv, PTL DEF TapeSpec

(* Nobody is skipped in any behaviour of the tape.                           *)
LEMMA ServedOnTape == TapeSpec => []NobodyIsSkipped
  BY TapeInvariant, TapeAudit, PTL

-----------------------------------------------------------------------------
(* The histories (Feeds), for any number of requests, any headlines and any  *)
(* window.  The loop that drops repeated headlines is unfolded by hand.      *)

(* Induction on the natural numbers, for a set.                              *)
LEMMA Induction ==
  ASSUME NEW T \in SUBSET Nat, 0 \in T, \A n \in T : n + 1 \in T
  PROVE  \A n \in Nat : n \in T
<1> SUFFICES ASSUME NEW m \in Nat, m \notin T PROVE FALSE
  OBVIOUS
<1>1. Nat \ T \in SUBSET Nat /\ Nat \ T # {}
  OBVIOUS
<1>2. PICK x \in Nat \ T : \A y \in Nat \ T : x <= y
  BY <1>1, LeastNatural
<1>3. x # 0
  BY <1>2
<1>4. x - 1 \in Nat /\ ~(x <= x - 1) /\ (x - 1) + 1 = x
  BY <1>3
<1>5. x - 1 \in T
  BY <1>2, <1>4
<1> QED
  BY <1>4, <1>5

Items == Headlines \cup Nat
Repeats(s, i) == s[i] \in Headlines /\ \E j \in 1 .. i - 1 : s[j] = s[i]

(* The loop that drops repeated headlines, unfolded.                         *)
LEMMA DedupedSteps ==
  ASSUME NEW s, Len(s) \in Nat
  PROVE  /\ Deduped(s)[0] = <<>>
         /\ \A i \in 1 .. Len(s) :
              Deduped(s)[i] = IF Repeats(s, i) THEN Deduped(s)[i - 1]
                                               ELSE Append(Deduped(s)[i - 1], s[i])
<1> DEFINE F(g, i) == IF i = 0 THEN <<>>
                      ELSE IF Repeats(s, i) THEN g[i - 1] ELSE Append(g[i - 1], s[i])
           N == Len(s)
           Good(m) == \E g : \A i \in 0 .. m : g[i] = F(g, i)
           T == {m \in Nat : Good(m)}
<1>1. 0 \in T
  <2>1. \A i \in 0 .. 0 : [j \in 0 .. 0 |-> <<>>][i] = <<>> /\ i = 0
    OBVIOUS
  <2> QED
    BY <2>1
<1>2. ASSUME NEW m \in T PROVE m + 1 \in T
  <2>1. PICK g : \A i \in 0 .. m : g[i] = F(g, i)
    BY <1>2
  <2> DEFINE h == [i \in 0 .. m + 1 |-> IF i = m + 1 THEN F(g, i) ELSE g[i]]
  <2>2. \A i \in 0 .. m : h[i] = g[i]
    OBVIOUS
  <2>3. \A i \in 0 .. m + 1 : i # 0 => i - 1 \in 0 .. m
    OBVIOUS
  <2>4. \A i \in 0 .. m + 1 : F(h, i) = F(g, i)
    BY <2>2, <2>3
  <2>5. \A i \in 0 .. m + 1 : h[i] = F(g, i)
    BY <2>1
  <2>6. m + 1 \in Nat
    OBVIOUS
  <2> HIDE DEF h, F
  <2> QED
    BY <2>4, <2>5, <2>6
<1>3. N \in T
  <2>1. T \in SUBSET Nat
    OBVIOUS
  <2> HIDE DEF T
  <2> QED
    BY <1>1, <1>2, <2>1, Induction
<1>4. PICK g : \A i \in 0 .. N : g[i] = F(g, i)
  BY <1>3
<1> DEFINE w == [i \in 0 .. N |-> g[i]]
<1>5. \A i \in 0 .. N : i # 0 => i - 1 \in 0 .. N
  OBVIOUS
<1>6. \A i \in 0 .. N : w[i] = F(w, i)
  BY <1>4, <1>5
<1>7. w = [i \in 0 .. N |-> F(w, i)]
  BY <1>6
<1>8. Deduped(s) = [i \in 0 .. N |-> F(Deduped(s), i)]
  BY <1>7 DEF Deduped, Repeats
<1>9. \A i \in 0 .. N : Deduped(s)[i] = F(Deduped(s), i)
  BY <1>8
<1>10. 0 \in 0 .. N /\ \A i \in 1 .. N : i \in 0 .. N /\ i # 0
  OBVIOUS
<1> QED
  BY <1>9, <1>10

NoHeadlineTwice(q) == \A i, j \in 1 .. Len(q) : q[i] \in Headlines /\ q[i] = q[j] => i = j

(* u holds what the first i entries of s hold, in their order. *)
HoldsFirst(s, i, u) ==
  /\ u \in Seq(Items)
  /\ \A x : Has(u, x) <=> \E j \in 1 .. i : s[j] = x
  /\ NoHeadlineTwice(u)
  /\ \A a, b \in 1 .. Len(u) : a < b => \E c, d \in 1 .. i : c < d /\ s[c] = u[a] /\ s[d] = u[b]

(* The loop leaves the first of each headline, in their order.               *)
LEMMA DedupedHolds ==
  ASSUME NEW s \in Seq(Items)
  PROVE  HoldsFirst(s, Len(s), Unique(s))
<1> DEFINE D == Deduped(s)
           T == {i \in Nat : i <= Len(s) => HoldsFirst(s, i, D[i])}
<1>1. /\ Len(s) \in Nat /\ D[0] = <<>>
      /\ \A i \in 1 .. Len(s) : D[i] = IF Repeats(s, i) THEN D[i - 1] ELSE Append(D[i - 1], s[i])
  BY DedupedSteps, LenProperties
<1> HIDE DEF D
<1>2. HoldsFirst(s, 0, D[0])
  <2>1. /\ <<>> \in Seq(Items) /\ Len(<<>>) = 0 /\ (\A x : ~Has(<<>>, x)) /\ 1 .. 0 = {}
    BY EmptyHas
  <2> QED
    BY <1>1, <2>1 DEF HoldsFirst, NoHeadlineTwice
<1>3. ASSUME NEW n \in Nat, n + 1 <= Len(s), HoldsFirst(s, n, D[n])
      PROVE  HoldsFirst(s, n + 1, D[n + 1])
  <2> DEFINE u == D[n]
             v == D[n + 1]
             y == s[n + 1]
  <2>1. n + 1 \in 1 .. Len(s) /\ (n + 1) - 1 = n
    BY <1>1, <1>3
  <2>2. /\ \A j \in 1 .. n + 1 : j \in 1 .. n \/ j = n + 1
        /\ \A j \in 1 .. n : j \in 1 .. n + 1 /\ j < n + 1
        /\ n + 1 \in 1 .. n + 1
    OBVIOUS
  <2>3. y \in Items
    BY <2>1, ElementOfSeq
  <2>4. v = IF Repeats(s, n + 1) THEN u ELSE Append(u, y)
    BY <1>1, <2>1
  <2>5. Repeats(s, n + 1) <=> y \in Headlines /\ Has(u, y)
    BY <1>3, <2>1 DEF Repeats, HoldsFirst
  <2>6. HoldsFirst(s, n, u)
    BY <1>3
  <2> HIDE DEF u, v, y
  <2>7. CASE Repeats(s, n + 1)
    <3>1. v = u /\ Has(u, y)
      BY <2>4, <2>5, <2>7
    <3>2. \A x : (\E j \in 1 .. n + 1 : s[j] = x) <=> (\E j \in 1 .. n : s[j] = x) \/ x = y
      BY <2>2 DEF y
    <3>3. \A x : Has(u, x) <=> \E j \in 1 .. n + 1 : s[j] = x
      BY <2>6, <3>1, <3>2 DEF HoldsFirst
    <3>4. \A a, b \in 1 .. Len(u) : a < b =>
            \E c, d \in 1 .. n + 1 : c < d /\ s[c] = u[a] /\ s[d] = u[b]
      BY <2>2, <2>6 DEF HoldsFirst
    <3> QED
      BY <2>6, <3>1, <3>3, <3>4 DEF HoldsFirst, v
  <2>8. CASE ~Repeats(s, n + 1)
    <3>1. v = Append(u, y) /\ ~(y \in Headlines /\ Has(u, y))
      BY <2>4, <2>5, <2>8
    <3>2. u \in Seq(Items) /\ Len(u) \in Nat
      BY <2>6, LenProperties DEF HoldsFirst
    <3>3. /\ v \in Seq(Items) /\ \A x : Has(v, x) <=> Has(u, x) \/ x = y
      BY <2>3, <3>1, <3>2, AppendHas
    <3>4. /\ Len(v) = Len(u) + 1 /\ v[Len(u) + 1] = y
          /\ \A i \in 1 .. Len(u) : v[i] = u[i]
      BY <2>3, <3>1, <3>2, AppendProperties
    <3>5. \A x : (\E j \in 1 .. n + 1 : s[j] = x) <=> (\E j \in 1 .. n : s[j] = x) \/ x = y
      BY <2>2 DEF y
    <3>6. \A x : Has(v, x) <=> \E j \in 1 .. n + 1 : s[j] = x
      BY <2>6, <3>3, <3>5 DEF HoldsFirst
    <3>7. \A i \in 1 .. Len(v) : i \in 1 .. Len(u) \/ i = Len(u) + 1
      BY <3>2, <3>4
    <3>8. ASSUME NEW a \in 1 .. Len(v), NEW b \in 1 .. Len(v), v[a] \in Headlines, v[a] = v[b]
          PROVE  a = b
      <4>1. CASE a \in 1 .. Len(u) /\ b \in 1 .. Len(u)
        BY <2>6, <3>4, <3>8, <4>1 DEF HoldsFirst, NoHeadlineTwice
      <4>2. CASE a \in 1 .. Len(u) /\ b = Len(u) + 1
        BY <3>1, <3>4, <3>8, <4>2 DEF Has
      <4>3. CASE a = Len(u) + 1 /\ b \in 1 .. Len(u)
        BY <3>1, <3>4, <3>8, <4>3 DEF Has
      <4> QED
        BY <3>7, <4>1, <4>2, <4>3
    <3>9. ASSUME NEW a \in 1 .. Len(v), NEW b \in 1 .. Len(v), a < b
          PROVE  \E c, d \in 1 .. n + 1 : c < d /\ s[c] = v[a] /\ s[d] = v[b]
      <4>1. a \in 1 .. Len(u)
        BY <3>2, <3>4, <3>9
      <4>2. CASE b \in 1 .. Len(u)
        <5>1. PICK c \in 1 .. n, d \in 1 .. n : c < d /\ s[c] = u[a] /\ s[d] = u[b]
          BY <2>6, <3>9, <4>1, <4>2 DEF HoldsFirst
        <5> QED
          BY <2>2, <3>4, <4>1, <4>2, <5>1
      <4>3. CASE b = Len(u) + 1
        <5>1. Has(u, u[a])
          BY <4>1 DEF Has
        <5>2. PICK c \in 1 .. n : s[c] = u[a]
          BY <2>6, <5>1 DEF HoldsFirst
        <5>3. v[b] = s[n + 1] /\ v[a] = u[a]
          BY <3>4, <4>1, <4>3 DEF y
        <5> QED
          BY <2>2, <5>2, <5>3
      <4> QED
        BY <3>7, <4>2, <4>3
    <3> QED
      BY <3>3, <3>6, <3>8, <3>9 DEF HoldsFirst, NoHeadlineTwice, v
  <2> QED
    BY <2>7, <2>8
<1>4. T \in SUBSET Nat /\ 0 \in T
  BY <1>2
<1>5. ASSUME NEW n \in T PROVE n + 1 \in T
  <2>1. n \in Nat /\ n + 1 \in Nat /\ (n + 1 <= Len(s) => n <= Len(s))
    BY <1>1
  <2> QED
    BY <1>3, <1>5, <2>1
<1>6. \A n \in Nat : n \in T
  <2> HIDE DEF T
  <2> QED
    BY <1>4, <1>5, Induction
<1>7. HoldsFirst(s, Len(s), D[Len(s)])
  BY <1>1, <1>6
<1> QED
  BY <1>7 DEF D, Unique

(* One repeated entry costs one place. *)
LEMMA DedupedLength ==
  ASSUME NEW s \in Seq(Items),
         \A c, d \in 1 .. Len(s) : Repeats(s, c) /\ Repeats(s, d) => c = d
  PROVE  Len(Unique(s)) \in Nat /\ Len(Unique(s)) >= Len(s) - 1
<1> DEFINE D == Deduped(s)
           L(i) == /\ D[i] \in Seq(Items) /\ Len(D[i]) \in Nat /\ Len(D[i]) >= i - 1
                   /\ (\A c \in 1 .. i : ~Repeats(s, c)) => Len(D[i]) = i
           T == {i \in Nat : i <= Len(s) => L(i)}
<1>1. /\ Len(s) \in Nat /\ D[0] = <<>>
      /\ \A i \in 1 .. Len(s) : D[i] = IF Repeats(s, i) THEN D[i - 1] ELSE Append(D[i - 1], s[i])
  BY DedupedSteps, LenProperties
<1> HIDE DEF D
<1>2. L(0)
  <2>1. <<>> \in Seq(Items) /\ Len(<<>>) = 0
    BY EmptySeq
  <2> QED
    BY <1>1, <2>1
<1>3. ASSUME NEW n \in Nat, n + 1 <= Len(s), L(n) PROVE L(n + 1)
  <2>1. n + 1 \in 1 .. Len(s) /\ (n + 1) - 1 = n /\ n + 1 \in 1 .. n + 1
    BY <1>1, <1>3
  <2>2. D[n + 1] = IF Repeats(s, n + 1) THEN D[n] ELSE Append(D[n], s[n + 1])
    BY <1>1, <2>1
  <2>3. \A c \in 1 .. n : c \in 1 .. n + 1 /\ c \in 1 .. Len(s) /\ c # n + 1
    BY <1>1, <1>3
  <2>4. CASE Repeats(s, n + 1)
    <3>1. \A c \in 1 .. n : ~Repeats(s, c)
      BY <2>1, <2>3, <2>4
    <3>2. Len(D[n]) = n /\ D[n + 1] = D[n]
      BY <1>3, <2>2, <2>4, <3>1
    <3>3. Len(D[n + 1]) \in Nat /\ Len(D[n + 1]) >= (n + 1) - 1
      BY <3>2
    <3> QED
      BY <1>3, <2>1, <2>4, <3>2, <3>3
  <2>5. CASE ~Repeats(s, n + 1)
    <3>1. D[n + 1] = Append(D[n], s[n + 1]) /\ s[n + 1] \in Items
      BY <2>1, <2>2, <2>5, ElementOfSeq
    <3>2. D[n + 1] \in Seq(Items) /\ Len(D[n + 1]) = Len(D[n]) + 1
      BY <1>3, <3>1, AppendProperties
    <3>3. Len(D[n + 1]) \in Nat /\ Len(D[n + 1]) >= (n + 1) - 1
      BY <1>3, <3>2
    <3>4. (\A c \in 1 .. n + 1 : ~Repeats(s, c)) => Len(D[n + 1]) = n + 1
      BY <1>3, <2>3, <3>2
    <3> QED
      BY <3>2, <3>3, <3>4
  <2> QED
    BY <2>4, <2>5
<1>4. T \in SUBSET Nat /\ 0 \in T
  BY <1>2
<1>5. ASSUME NEW n \in T PROVE n + 1 \in T
  <2>1. n \in Nat /\ n + 1 \in Nat /\ (n + 1 <= Len(s) => n <= Len(s))
    BY <1>1
  <2> QED
    BY <1>3, <1>5, <2>1
<1>6. \A n \in Nat : n \in T
  <2> HIDE DEF T, L
  <2> QED
    BY <1>4, <1>5, Induction
<1>7. L(Len(s))
  BY <1>1, <1>6
<1> QED
  BY <1>7 DEF D, Unique

(* Of a history q after n requests: its numbers fall, each number up to n is *)
(* there from the last on, and all are while there is room.                  *)
Descends(q) ==
  \A i, j \in 1 .. Len(q) :
    i < j /\ q[i] \notin Headlines /\ q[j] \notin Headlines => q[i] > q[j]
Reaches(q, n) ==
  \A i \in 1 .. Len(q) : q[i] \notin Headlines =>
                           q[i] \in 1 .. n /\ \A m \in q[i] .. n : Has(q, m)
Whole(q, n) == \A m \in 1 .. n : Has(q, m)
Good(q, n) == Descends(q) /\ Reaches(q, n) /\ (Len(q) < Window => Whole(q, n))

News == {<<>>} \cup {<<h>> : h \in Headlines}
New(q, n) == \E news \in News : q = Append(news, n)

(* What is kept of a list are its first entries, at most a window of them.   *)
LEMMA NewestIs ==
  ASSUME NEW S, NEW q \in Seq(S)
  PROVE  /\ Newest(q) \in Seq(S) /\ Len(Newest(q)) \in Nat /\ Len(q) \in Nat
         /\ Len(q) < Window => Len(Newest(q)) = Len(q)
         /\ Len(q) >= Window => Len(Newest(q)) = Window
         /\ \A i \in 1 .. Len(Newest(q)) : i \in 1 .. Len(q) /\ Newest(q)[i] = q[i]
<1> DEFINE n == IF Len(q) < Window THEN Len(q) ELSE Window
<1>1. Len(q) \in Nat /\ Window \in Nat
  BY FeedAssumption, LenProperties
<1>2. /\ n \in Nat /\ n <= Len(q) /\ n \in Int /\ 1 \in Int
      /\ Len(q) < Window => n = Len(q)
      /\ Len(q) >= Window => n = Window
  BY <1>1
<1>3. Newest(q) = SubSeq(q, 1, n)
  BY DEF Newest
<1> HIDE DEF n
<1>4. \A i \in 1 .. n : i \in 1 .. Len(q) /\ q[i] \in S
  BY <1>1, <1>2, ElementOfSeq
<1>5. /\ SubSeq(q, 1, n) \in Seq(S)
      /\ Len(SubSeq(q, 1, n)) = IF 1 <= n THEN n - 1 + 1 ELSE 0
      /\ \A i \in 1 .. n - 1 + 1 : SubSeq(q, 1, n)[i] = q[1 + i - 1]
  BY <1>2, <1>4, SubSeqProperties
<1>6. (IF 1 <= n THEN n - 1 + 1 ELSE 0) = n
  BY <1>2
<1>7. \A i \in 1 .. n : i \in 1 .. n - 1 + 1 /\ 1 + i - 1 = i
  BY <1>2
<1>8. \A i \in 1 .. n : SubSeq(q, 1, n)[i] = q[i]
  BY <1>5, <1>7
<1> QED
  BY <1>1, <1>2, <1>3, <1>4, <1>5, <1>6, <1>8

(* A good history is good when it is cut to the window ...                   *)
LEMMA NewestGood ==
  ASSUME NEW q \in Seq(Items), NEW n \in Nat, Good(q, n)
  PROVE  Good(Newest(q), n)
<1> DEFINE r == Newest(q)
<1>1. /\ Len(r) \in Nat /\ Len(q) \in Nat /\ Window \in Nat
      /\ Len(q) < Window => Len(r) = Len(q)
      /\ Len(q) >= Window => Len(r) = Window
      /\ \A i \in 1 .. Len(r) : i \in 1 .. Len(q) /\ r[i] = q[i]
  BY NewestIs, FeedAssumption
<1> HIDE DEF r
<1>2. Descends(r)
  BY <1>1 DEF Descends, Good
<1>3. Len(r) < Window => Whole(r, n)
  <2> SUFFICES ASSUME Len(r) < Window, NEW m \in 1 .. n PROVE Has(r, m)
    BY DEF Whole
  <2>1. Len(q) < Window /\ Len(r) = Len(q)
    BY <1>1
  <2>2. PICK i \in 1 .. Len(q) : q[i] = m
    BY <2>1 DEF Good, Whole, Has
  <2> QED
    BY <1>1, <2>1, <2>2 DEF Has
<1>4. Reaches(r, n)
  <2> SUFFICES ASSUME NEW i \in 1 .. Len(r), r[i] \notin Headlines
               PROVE  r[i] \in 1 .. n /\ \A m \in r[i] .. n : Has(r, m)
    BY DEF Reaches
  <2>1. i \in 1 .. Len(q) /\ r[i] = q[i]
    BY <1>1
  <2>2. r[i] \in 1 .. n /\ \A m \in r[i] .. n : Has(q, m)
    BY <2>1 DEF Good, Reaches
  <2>3. ASSUME NEW m \in r[i] .. n PROVE Has(r, m)
    <3>1. PICK j \in 1 .. Len(q) : q[j] = m
      BY <2>2, <2>3 DEF Has
    <3>2. m \in Nat /\ m \notin Headlines /\ m >= r[i]
      <4>1. m \in Nat /\ m >= r[i]
        BY <2>2, <2>3
      <4> QED
        BY <4>1, FeedAssumption
    <3>3. ~(i < j)
      <4> SUFFICES ASSUME i < j PROVE FALSE
        OBVIOUS
      <4>1. q[i] > q[j]
        BY <2>1, <3>1, <3>2 DEF Good, Descends
      <4> QED
        BY <2>1, <2>2, <3>1, <3>2, <4>1
    <3>4. j \in 1 .. Len(r)
      BY <1>1, <3>3
    <3> QED
      BY <1>1, <3>1, <3>4 DEF Has
  <2> QED
    BY <2>2, <2>3
<1> QED
  BY <1>2, <1>3, <1>4 DEF Good, r

(* ... and has no headline twice then either.                                *)
LEMMA NewestNoTwice ==
  ASSUME NEW q \in Seq(Items), NoHeadlineTwice(q)
  PROVE  NoHeadlineTwice(Newest(q))
<1>1. \A i \in 1 .. Len(Newest(q)) : i \in 1 .. Len(q) /\ Newest(q)[i] = q[i]
  BY NewestIs
<1> QED
  BY <1>1 DEF NoHeadlineTwice

(* What request n adds in front of a history that n - 1 requests made.       *)
LEMMA JoinIs ==
  ASSUME NEW past \in Seq(Items), NEW n \in Nat \ {0}, NEW new, New(new, n)
  PROVE  \E k \in {0, 1} :
           /\ new \o past \in Seq(Items) /\ Len(past) \in Nat
           /\ Len(new \o past) = Len(past) + (k + 1)
           /\ k = 1 => (new \o past)[1] \in Headlines
           /\ (new \o past)[k + 1] = n
           /\ \A i \in 1 .. Len(past) : (new \o past)[i + (k + 1)] = past[i]
<1>1. PICK news \in News : new = Append(news, n)
  BY DEF New
<1>2. Len(past) \in Nat
  BY LenProperties
<1>3. news \in Seq(Items) /\ (Len(news) = 0 \/ (Len(news) = 1 /\ news[1] \in Headlines))
  <2>1. CASE news = <<>>
    BY <2>1, EmptySeq
  <2>2. CASE \E h \in Headlines : news = <<h>>
    <3>1. PICK h \in Headlines : news = <<h>>
      BY <2>2
    <3>2. h \in Items
      BY DEF Items
    <3> QED
      BY <3>1, <3>2
  <2> QED
    BY <1>1, <2>1, <2>2 DEF News
<1> DEFINE k == Len(news)
<1>4. /\ new \in Seq(Items) /\ Len(new) = k + 1 /\ new[k + 1] = n
      /\ \A i \in 1 .. k : new[i] = news[i]
  <2>1. n \in Items
    BY DEF Items
  <2> QED
    BY <1>1, <1>3, <2>1, AppendProperties
<1>5. /\ new \o past \in Seq(Items) /\ Len(new \o past) = Len(new) + Len(past)
      /\ \A i \in 1 .. Len(new) + Len(past) :
           (new \o past)[i] = IF i <= Len(new) THEN new[i] ELSE past[i - Len(new)]
  BY <1>4, ConcatProperties
<1>6. k \in {0, 1} /\ (k = 1 => news[1] \in Headlines)
  BY <1>3
<1> HIDE DEF k
<1>7. /\ k + 1 \in 1 .. Len(new) + Len(past) /\ k + 1 <= Len(new)
      /\ k = 1 => 1 \in 1 .. Len(new) + Len(past) /\ 1 <= Len(new) /\ 1 \in 1 .. k
      /\ \A i \in 1 .. Len(past) : /\ i + (k + 1) \in 1 .. Len(new) + Len(past)
                                  /\ ~(i + (k + 1) <= Len(new)) /\ (i + (k + 1)) - Len(new) = i
  BY <1>2, <1>4, <1>6
<1>8. Len(new \o past) = Len(past) + (k + 1)
  BY <1>2, <1>4, <1>5, <1>6
<1>9. (new \o past)[k + 1] = n /\ (k = 1 => (new \o past)[1] \in Headlines)
  BY <1>4, <1>5, <1>6, <1>7
<1>10. \A i \in 1 .. Len(past) : (new \o past)[i + (k + 1)] = past[i]
  BY <1>5, <1>7
<1> QED
  BY <1>2, <1>5, <1>6, <1>8, <1>9, <1>10

(* A request's own entries before a good history descend, reach back as far  *)
(* as the window and repeat at most one headline.                            *)
LEMMA JoinGood ==
  ASSUME NEW past \in Seq(Items), NEW n \in Nat \ {0}, NEW new, New(new, n),
         Good(past, n - 1)
  PROVE  /\ new \o past \in Seq(Items) /\ Len(new \o past) \in Nat /\ Len(past) \in Nat
         /\ Len(new \o past) >= Len(past) + 1
         /\ Descends(new \o past) /\ Reaches(new \o past, n)
         /\ Len(past) < Window => Whole(new \o past, n)
         /\ NoHeadlineTwice(past) =>
              \A c, d \in 1 .. Len(new \o past) :
                Repeats(new \o past, c) /\ Repeats(new \o past, d) => c = d
<1> DEFINE s == new \o past
<1>1. PICK k \in {0, 1} :
        /\ s \in Seq(Items) /\ Len(past) \in Nat
        /\ Len(s) = Len(past) + (k + 1)
        /\ k = 1 => s[1] \in Headlines
        /\ s[k + 1] = n
        /\ \A i \in 1 .. Len(past) : s[i + (k + 1)] = past[i]
  BY JoinIs
<1> HIDE DEF s
<1>2. /\ Len(s) \in Nat /\ Len(s) >= Len(past) + 1 /\ n \notin Headlines
      /\ k + 1 \in 1 .. Len(s)
      /\ \A i \in 1 .. Len(past) : i + (k + 1) \in 1 .. Len(s)
  BY <1>1, FeedAssumption
<1>3. \A i \in 1 .. Len(s) :
        \/ i = 1 /\ k = 1
        \/ i = k + 1
        \/ i > k + 1 /\ i - (k + 1) \in 1 .. Len(past) /\ s[i] = past[i - (k + 1)]
  <2> SUFFICES ASSUME NEW i \in 1 .. Len(s), ~(i = 1 /\ k = 1), i # k + 1
               PROVE  i > k + 1 /\ i - (k + 1) \in 1 .. Len(past) /\ s[i] = past[i - (k + 1)]
    OBVIOUS
  <2>1. i > k + 1 /\ i - (k + 1) \in 1 .. Len(past) /\ (i - (k + 1)) + (k + 1) = i
    BY <1>1
  <2> QED
    BY <1>1, <2>1
<1>4. Has(s, n) /\ \A x : Has(past, x) => Has(s, x)
  BY <1>1, <1>2 DEF Has
<1>5. \A i \in 1 .. Len(past) : past[i] \notin Headlines =>
                                 past[i] \in 1 .. n - 1 /\ past[i] < n /\ past[i] \in 1 .. n
  <2>1. \A x \in 1 .. n - 1 : x < n /\ x \in 1 .. n
    OBVIOUS
  <2> QED
    BY <2>1 DEF Good, Reaches
<1>6. Descends(s)
  <2> SUFFICES ASSUME NEW i \in 1 .. Len(s), NEW j \in 1 .. Len(s), i < j,
                      s[i] \notin Headlines, s[j] \notin Headlines
               PROVE  s[i] > s[j]
    BY DEF Descends
  <2> DEFINE a == i - (k + 1)
             b == j - (k + 1)
  <2>1. j > k + 1 /\ b \in 1 .. Len(past) /\ s[j] = past[b]
    <3>1. ~(i = 1 /\ k = 1) /\ ~(j = 1 /\ k = 1)
      BY <1>1
    <3>2. i = k + 1 \/ i > k + 1
      BY <1>3, <3>1
    <3>3. j # k + 1
      BY <1>1, <3>2
    <3> QED
      BY <1>3, <3>1, <3>3
  <2>2. CASE i = k + 1
    <3>1. s[i] = n /\ s[j] < n /\ s[j] \in 1 .. n
      BY <1>1, <1>5, <2>1, <2>2
    <3> QED
      BY <3>1
  <2>3. CASE i # k + 1
    <3>1. i > k + 1 /\ a \in 1 .. Len(past) /\ s[i] = past[a]
      BY <1>1, <1>3, <2>3
    <3>2. a < b
      BY <1>1, <2>1, <3>1
    <3> HIDE DEF a, b
    <3> QED
      BY <2>1, <3>1, <3>2 DEF Good, Descends
  <2> QED
    BY <2>2, <2>3
<1>7. Reaches(s, n)
  <2> SUFFICES ASSUME NEW i \in 1 .. Len(s), s[i] \notin Headlines
               PROVE  s[i] \in 1 .. n /\ \A m \in s[i] .. n : Has(s, m)
    BY DEF Reaches
  <2>1. CASE i = k + 1
    <3>1. s[i] = n /\ n \in 1 .. n /\ \A m \in n .. n : m = n
      BY <1>1, <2>1
    <3> QED
      BY <1>4, <3>1
  <2>2. CASE i # k + 1
    <3> DEFINE a == i - (k + 1)
    <3>1. a \in 1 .. Len(past) /\ s[i] = past[a]
      BY <1>1, <1>3, <2>2
    <3> HIDE DEF a
    <3>2. s[i] \in 1 .. n /\ \A m \in s[i] .. n - 1 : Has(past, m)
      BY <1>5, <3>1 DEF Good, Reaches
    <3>3. \A m \in s[i] .. n : m \in s[i] .. n - 1 \/ m = n
      BY <3>2
    <3> QED
      BY <1>4, <3>2, <3>3
  <2> QED
    BY <2>1, <2>2
<1>8. Len(past) < Window => Whole(s, n)
  <2>1. \A m \in 1 .. n : m \in 1 .. n - 1 \/ m = n
    OBVIOUS
  <2> QED
    BY <1>4, <2>1 DEF Good, Whole
<1>9. ASSUME NoHeadlineTwice(past), NEW c \in 1 .. Len(s), NEW d \in 1 .. Len(s),
             Repeats(s, c), Repeats(s, d)
      PROVE  c = d
  <2>1. ASSUME NEW i \in 1 .. Len(s), Repeats(s, i)
        PROVE  i > k + 1 /\ i - (k + 1) \in 1 .. Len(past) /\ s[i] = past[i - (k + 1)]
               /\ s[i] \in Headlines /\ s[i] = s[1]
    <3>1. PICK j \in 1 .. i - 1 : s[j] = s[i]
      BY <2>1 DEF Repeats
    <3>2. s[i] \in Headlines /\ i # k + 1
      BY <1>1, <1>2, <2>1 DEF Repeats
    <3>3. j \in 1 .. Len(s) /\ j < i /\ i # 1 /\ j # k + 1
      BY <1>1, <1>2, <3>1, <3>2
    <3>4. i > k + 1 /\ i - (k + 1) \in 1 .. Len(past) /\ s[i] = past[i - (k + 1)]
      BY <1>3, <3>2, <3>3
    <3>5. j = 1
      <4> SUFFICES ASSUME j # 1 PROVE FALSE
        OBVIOUS
      <4> DEFINE a == j - (k + 1)
                 b == i - (k + 1)
      <4>1. a \in 1 .. Len(past) /\ s[j] = past[a]
        BY <1>3, <3>3
      <4>2. b \in 1 .. Len(past) /\ s[i] = past[b] /\ a # b
        BY <1>1, <3>3, <3>4
      <4> HIDE DEF a, b
      <4> QED
        BY <1>9, <3>1, <3>2, <4>1, <4>2 DEF NoHeadlineTwice
    <3> QED
      BY <3>1, <3>2, <3>4, <3>5
  <2> DEFINE a == c - (k + 1)
             b == d - (k + 1)
  <2>2. a \in 1 .. Len(past) /\ past[a] = s[1] /\ past[a] \in Headlines
    BY <1>9, <2>1
  <2>3. b \in 1 .. Len(past) /\ past[b] = s[1]
    BY <1>9, <2>1
  <2>4. a = b
    <3> HIDE DEF a, b
    <3> QED
      BY <1>9, <2>2, <2>3 DEF NoHeadlineTwice
  <2> QED
    BY <1>1, <2>4
<1> QED
  BY <1>1, <1>2, <1>6, <1>7, <1>8, <1>9 DEF s

(* Dropping what repeats keeps the order, and what must be there.            *)
LEMMA UniqueGood ==
  ASSUME NEW s \in Seq(Items), NEW n \in Nat, Descends(s), Reaches(s, n)
  PROVE  /\ Unique(s) \in Seq(Items) /\ NoHeadlineTwice(Unique(s))
         /\ Descends(Unique(s)) /\ Reaches(Unique(s), n)
         /\ Whole(s, n) => Whole(Unique(s), n)
<1> DEFINE u == Unique(s)
<1>1. HoldsFirst(s, Len(s), u)
  BY DedupedHolds
<1> HIDE DEF u
<1>2. \A x : Has(u, x) <=> Has(s, x)
  BY <1>1 DEF HoldsFirst, Has
<1>3. Descends(u)
  <2> SUFFICES ASSUME NEW i \in 1 .. Len(u), NEW j \in 1 .. Len(u), i < j,
                      u[i] \notin Headlines, u[j] \notin Headlines
               PROVE  u[i] > u[j]
    BY DEF Descends
  <2>1. PICK c \in 1 .. Len(s), d \in 1 .. Len(s) : c < d /\ s[c] = u[i] /\ s[d] = u[j]
    BY <1>1 DEF HoldsFirst
  <2> QED
    BY <2>1 DEF Descends
<1>4. Reaches(u, n)
  <2> SUFFICES ASSUME NEW i \in 1 .. Len(u), u[i] \notin Headlines
               PROVE  u[i] \in 1 .. n /\ \A m \in u[i] .. n : Has(u, m)
    BY DEF Reaches
  <2>1. Has(s, u[i])
    BY <1>2 DEF Has
  <2>2. PICK c \in 1 .. Len(s) : s[c] = u[i]
    BY <2>1 DEF Has
  <2>3. u[i] \in 1 .. n /\ \A m \in u[i] .. n : Has(s, m)
    BY <2>2 DEF Reaches
  <2> QED
    BY <1>2, <2>3
<1>5. Whole(s, n) => Whole(u, n)
  BY <1>2 DEF Whole
<1> QED
  BY <1>1, <1>3, <1>4, <1>5 DEF HoldsFirst, u

(* A request that met no other keeps the history good.                       *)
LEMMA MergeGood ==
  ASSUME NEW past \in Seq(Items), NEW n \in Nat \ {0}, NEW new, New(new, n),
         Good(past, n - 1), NoHeadlineTwice(past)
  PROVE  Good(Merge(new, past), n)
<1> DEFINE s == new \o past
<1>1. /\ s \in Seq(Items) /\ Len(s) \in Nat /\ Len(past) \in Nat
      /\ Len(s) >= Len(past) + 1
      /\ Descends(s) /\ Reaches(s, n)
      /\ Len(past) < Window => Whole(s, n)
      /\ \A c, d \in 1 .. Len(s) : Repeats(s, c) /\ Repeats(s, d) => c = d
  BY JoinGood
<1>2. Merge(new, past) = IF kind = "feed" THEN Newest(Unique(s)) ELSE Newest(s)
  BY DEF Merge
<1> HIDE DEF s
<1>3. Window \in Nat
  BY FeedAssumption
<1>4. Good(Newest(s), n)
  <2>1. Good(s, n)
    BY <1>1, <1>3 DEF Good
  <2> QED
    BY <1>1, <2>1, NewestGood
<1>5. Good(Newest(Unique(s)), n)
  <2>1. Len(Unique(s)) \in Nat /\ Len(Unique(s)) >= Len(s) - 1
    BY <1>1, DedupedLength
  <2>2. Len(Unique(s)) < Window => Len(past) < Window
    BY <1>1, <1>3, <2>1
  <2>3. /\ Unique(s) \in Seq(Items) /\ Descends(Unique(s)) /\ Reaches(Unique(s), n)
        /\ Whole(s, n) => Whole(Unique(s), n)
    BY <1>1, UniqueGood
  <2>4. Good(Unique(s), n)
    BY <1>1, <2>2, <2>3 DEF Good
  <2> QED
    BY <2>3, <2>4, NewestGood
<1> QED
  BY <1>2, <1>4, <1>5

(* What a request will write is a history without a headline twice.          *)
LEMMA MergeType ==
  ASSUME NEW past \in Seq(Items), NEW new \in Seq(Items),
         kind # "feed" => past \in Seq(Nat) /\ new \in Seq(Nat)
  PROVE  /\ Merge(new, past) \in Seq(Items) /\ NoHeadlineTwice(Merge(new, past))
         /\ kind # "feed" => Merge(new, past) \in Seq(Nat)
<1>1. new \o past \in Seq(Items)
  BY ConcatProperties
<1>2. CASE kind = "feed"
  <2>1. Unique(new \o past) \in Seq(Items) /\ NoHeadlineTwice(Unique(new \o past))
    BY <1>1, DedupedHolds DEF HoldsFirst
  <2>2. Merge(new, past) = Newest(Unique(new \o past))
    BY <1>2 DEF Merge
  <2> QED
    BY <1>2, <2>1, <2>2, NewestIs, NewestNoTwice
<1>3. CASE kind # "feed"
  <2>1. new \o past \in Seq(Nat)
    BY <1>3, ConcatProperties
  <2>2. Merge(new, past) = Newest(new \o past)
    BY <1>3 DEF Merge
  <2>3. Merge(new, past) \in Seq(Nat) /\ Merge(new, past) \in Seq(Items)
    BY <1>1, <2>1, <2>2, NewestIs
  <2>4. NoHeadlineTwice(Merge(new, past))
    BY <2>3, ElementOfSeq, FeedAssumption DEF NoHeadlineTwice
  <2> QED
    BY <2>3, <2>4
<1> QED
  BY <1>2, <1>3

FileWords == Items \cup {End}

FeedTypeOK ==
  /\ polls \in Nat /\ history \in Seq(FileWords) /\ rss \in News
  /\ at \in [Pollers -> {"idle", "read", "open", "write"}]
  /\ fresh \in [Pollers -> Seq(Items)] /\ result \in [Pollers -> Seq(Items)]
  /\ pos \in [Pollers -> Nat]
  /\ kind # "feed" => /\ history \in Seq(Nat \cup {End})
                      /\ fresh \in [Pollers -> Seq(Nat)] /\ result \in [Pollers -> Seq(Nat)]

(* A handle is at the beginning until its request writes, and no request     *)
(* writes beyond its own text.                                               *)
HandlesAreWithin ==
  \A p \in Pollers : pos[p] <= Len(result[p]) /\ (at[p] # "write" => pos[p] = 0)

(* What the file is while p alone has written to it since it was emptied.    *)
Begun(p) == Len(history) = pos[p] /\ \A i \in 1 .. pos[p] : history[i] = result[p][i]

(* While the file was not written through two handles, one request writes at *)
(* most, and the file is the beginning of its text; a headline is in no file *)
(* twice, nor in what a request is going to write.                           *)
NoFileTwice ==
  /\ \A p \in Pollers : NoHeadlineTwice(result[p])
  /\ ~spliced => /\ NoHeadlineTwice(history)
                 /\ \A p, q \in Pollers : at[p] = "write" /\ at[q] = "write" => p = q
                 /\ \A p \in Pollers : at[p] = "write" => Begun(p)

(* While nothing was mixed there is one request at most, and what it read,   *)
(* and what it will write, is good.                                          *)
LoneIsGood ==
  ~mixed =>
    /\ ~spliced
    /\ \A p, q \in Pollers : at[p] # "idle" /\ at[q] # "idle" => p = q
    /\ (\A p \in Pollers : at[p] = "idle") => Good(Contents(history), polls)
    /\ \A p \in Pollers :
         /\ at[p] = "read" => /\ polls # 0 /\ Good(Contents(history), polls - 1)
                              /\ New(fresh[p], polls)
         /\ at[p] \in {"open", "write"} => Good(result[p], polls)

FeedInv == FeedTypeOK /\ HandlesAreWithin /\ NoFileTwice /\ LoneIsGood

(* The same of the next state, spelled out.                                  *)
LEMMA LonePrimed ==
  LoneIsGood' <=>
    (~mixed' =>
       /\ ~spliced'
       /\ \A p, q \in Pollers : at'[p] # "idle" /\ at'[q] # "idle" => p = q
       /\ (\A p \in Pollers : at'[p] = "idle") => Good(Contents(history'), polls')
       /\ \A p \in Pollers :
            /\ at'[p] = "read" => /\ polls' # 0 /\ Good(Contents(history'), polls' - 1)
                                  /\ New(fresh'[p], polls')
            /\ at'[p] \in {"open", "write"} => Good(result'[p], polls'))
BY DEF LoneIsGood, Contents, Parses, Good, Descends, Reaches, Whole, Has, New

(* The empty history is good before the first request, and what an empty     *)
(* file holds.                                                               *)
LEMMA NoEntriesGood ==
  <<>> \in Seq(Items) /\ Good(<<>>, 0) /\ NoHeadlineTwice(<<>>) /\ Contents(<<>>) = <<>>
<1>1. <<>> \in Seq(Items) /\ Len(<<>>) = 0 /\ 1 .. 0 = {}
  BY EmptySeq
<1> QED
  BY <1>1 DEF Good, Descends, Reaches, Whole, NoHeadlineTwice, Contents, Parses

(* What is read from a file are its words but the last, or nothing.          *)
LEMMA ContentsAre ==
  ASSUME NEW S, NEW f \in Seq(S \cup {End})
  PROVE  /\ Contents(f) \in Seq(S) /\ Len(Contents(f)) \in Nat
         /\ Parses(f) => Len(f) \in Nat \ {0} /\ Len(Contents(f)) = Len(f) - 1
         /\ \A i \in 1 .. Len(Contents(f)) : i \in 1 .. Len(f) /\ Contents(f)[i] = f[i]
<1>1. Len(f) \in Nat /\ DOMAIN f = 1 .. Len(f)
  BY LenProperties
<1>2. CASE ~Parses(f)
  <2>1. Contents(f) = <<>> /\ <<>> \in Seq(S) /\ Len(<<>>) = 0 /\ 1 .. 0 = {}
    BY <1>2, EmptySeq DEF Contents
  <2> QED
    BY <1>2, <2>1
<1>3. CASE Parses(f)
  <2> DEFINE n == Len(f) - 1
  <2>1. Len(f) # 0
    BY <1>3, EmptySeq DEF Parses
  <2>2. n \in Nat /\ n \in Int /\ 1 \in Int /\ Len(f) = n + 1
    BY <1>1, <2>1
  <2>3. Contents(f) = SubSeq(f, 1, n)
    BY <1>3 DEF Contents
  <2>4. \A i \in 1 .. n : i \in 1 .. Len(f) /\ i # Len(f)
    <3> HIDE DEF n
    <3> QED
      BY <2>2
  <2>5. \A i \in 1 .. n : f[i] \in S
    <3> TAKE i \in 1 .. n
    <3>1. f[i] \in S \cup {End}
      BY <2>4, ElementOfSeq
    <3>2. f[i] # End
      BY <1>1, <1>3, <2>4 DEF Parses
    <3> QED
      BY <3>1, <3>2
  <2> HIDE DEF n
  <2>6. /\ SubSeq(f, 1, n) \in Seq(S)
        /\ Len(SubSeq(f, 1, n)) = IF 1 <= n THEN n - 1 + 1 ELSE 0
        /\ \A i \in 1 .. n - 1 + 1 : SubSeq(f, 1, n)[i] = f[1 + i - 1]
    BY <2>2, <2>4, <2>5, SubSeqProperties
  <2>7. (IF 1 <= n THEN n - 1 + 1 ELSE 0) = n /\ Len(f) - 1 = n
    BY <2>2
  <2>8. \A i \in 1 .. n : i \in 1 .. n - 1 + 1 /\ 1 + i - 1 = i
    BY <2>2
  <2>9. \A i \in 1 .. n : SubSeq(f, 1, n)[i] = f[i]
    BY <2>6, <2>8
  <2> QED
    BY <1>1, <2>1, <2>2, <2>3, <2>4, <2>6, <2>7, <2>9
<1> QED
  BY <1>2, <1>3

(* Reading a file adds no headline.                                          *)
LEMMA ContentsNoTwice ==
  ASSUME NEW f \in Seq(FileWords), NoHeadlineTwice(f)
  PROVE  NoHeadlineTwice(Contents(f))
<1>1. \A i \in 1 .. Len(Contents(f)) : i \in 1 .. Len(f) /\ Contents(f)[i] = f[i]
  BY ContentsAre DEF FileWords
<1> QED
  BY <1>1 DEF NoHeadlineTwice

(* A whole text is read back as what was written.                            *)
LEMMA WholeIsRead ==
  ASSUME NEW q \in Seq(Items), NEW n \in Nat, Good(q, n), NEW f \in Seq(FileWords),
         Len(f) = Len(q) + 1, f[Len(q) + 1] = End, \A i \in 1 .. Len(q) : f[i] = q[i]
  PROVE  Contents(f) = q
<1>1. /\ Len(q) \in Nat /\ Len(f) \in Nat /\ DOMAIN f = 1 .. Len(f)
      /\ \A i \in 1 .. Len(f) : i \in 1 .. Len(q) \/ i = Len(q) + 1
      /\ \A i \in 1 .. Len(q) : i # Len(q) + 1
  BY LenProperties
<1>2. \A i \in 1 .. Len(q) : q[i] # Hole /\ q[i] # End
  <2> TAKE i \in 1 .. Len(q)
  <2>1. Hole \notin Headlines /\ End \notin Headlines /\ Hole \notin 1 .. n /\ End \notin 1 .. n
    BY FeedAssumption DEF Hole, End
  <2>2. q[i] \in Headlines \/ q[i] \in 1 .. n
    BY DEF Good, Reaches
  <2> QED
    BY <2>1, <2>2
<1>3. f # <<>> /\ Hole # End
  BY <1>1, EmptySeq DEF Hole, End
<1>4. Parses(f)
  BY <1>1, <1>2, <1>3 DEF Parses
<1>5. /\ Contents(f) \in Seq(Items) /\ Len(Contents(f)) = Len(q)
      /\ \A i \in 1 .. Len(q) : Contents(f)[i] = q[i]
  <2>1. /\ Contents(f) \in Seq(Items) /\ Len(Contents(f)) = Len(f) - 1
        /\ \A i \in 1 .. Len(Contents(f)) : Contents(f)[i] = f[i]
    BY <1>4, ContentsAre DEF FileWords
  <2>2. Len(f) - 1 = Len(q)
    BY <1>1
  <2> QED
    BY <2>1, <2>2
<1> QED
  BY <1>5, SeqEqual

(* Words written at an offset are over what was there, the rest stays.       *)
LEMMA OverwrittenIs ==
  ASSUME NEW S, Hole \in S, NEW f \in Seq(S), NEW offset \in Nat, NEW words \in Seq(S)
  PROVE  LET g == Overwritten(f, offset, words)
             last == offset + Len(words)
         IN /\ g \in Seq(S) /\ Len(g) = IF Len(f) < last THEN last ELSE Len(f)
            /\ \A i \in 1 .. Len(g) : g[i] = IF i \in offset + 1 .. last THEN words[i - offset]
                                             ELSE IF i <= Len(f) THEN f[i] ELSE Hole
<1> DEFINE g == Overwritten(f, offset, words)
           last == offset + Len(words)
           n == IF Len(f) < last THEN last ELSE Len(f)
           e(i) == IF i \in offset + 1 .. last THEN words[i - offset]
                   ELSE IF i <= Len(f) THEN f[i] ELSE Hole
<1>1. Len(f) \in Nat /\ Len(words) \in Nat /\ last \in Nat /\ n \in Nat
  BY LenProperties
<1>2. g = [i \in 1 .. n |-> e(i)]
  BY DEF Overwritten
<1>3. ASSUME NEW i \in 1 .. n PROVE e(i) \in S
  <2>1. CASE i \in offset + 1 .. last
    <3>1. i - offset \in 1 .. Len(words)
      BY <1>1, <2>1
    <3> QED
      BY <2>1, <3>1, ElementOfSeq
  <2>2. CASE i \notin offset + 1 .. last
    <3>1. i <= Len(f) => i \in 1 .. Len(f)
      BY <1>1
    <3> QED
      BY <2>2, <3>1, ElementOfSeq
  <2> QED
    BY <2>1, <2>2
<1> HIDE DEF n, e
<1>4. g \in Seq(S) /\ Len(g) = n
  BY <1>1, <1>2, <1>3, IsASeq
<1>5. \A i \in 1 .. n : g[i] = e(i)
  BY <1>2
<1> HIDE DEF g
<1> QED
  BY <1>4, <1>5 DEF n, e, g

(* The text of a request is what it writes, and the closing bracket.         *)
LEMMA TextIs ==
  ASSUME NEW S, NEW p \in Pollers, result[p] \in Seq(S), Hole \in S
  PROVE  /\ Text(p) \in Seq(S \cup {End}) /\ Len(result[p]) \in Nat
         /\ Len(Text(p)) = Len(result[p]) + 1 /\ Text(p)[Len(result[p]) + 1] = End
         /\ \A i \in 1 .. Len(result[p]) : Text(p)[i] = result[p][i]
<1>1. result[p] \in Seq(S \cup {End}) /\ Len(result[p]) \in Nat
  <2>1. \A i \in 1 .. Len(result[p]) : result[p][i] \in S
    BY ElementOfSeq
  <2> QED
    BY LenProperties
<1> QED
  BY <1>1, AppendProperties DEF Text

(* One call writes a piece of a request's text over the file.                *)
LEMMA PieceIs ==
  ASSUME NEW S, Hole \in S, NEW p \in Pollers, result[p] \in Seq(S), pos[p] \in Nat,
         history \in Seq(S \cup {End}), NEW n \in pos[p] + 1 .. Len(Text(p)),
         history' = Overwritten(history, pos[p], SubSeq(Text(p), pos[p] + 1, n))
  PROVE  /\ history' \in Seq(S \cup {End}) /\ Len(history) \in Nat /\ n \in Nat
         /\ Len(history') = IF Len(history) < n THEN n ELSE Len(history)
         /\ \A i \in 1 .. Len(history') :
              history'[i] = IF i \in pos[p] + 1 .. n THEN Text(p)[i]
                            ELSE IF i <= Len(history) THEN history[i] ELSE Hole
<1> DEFINE W == S \cup {End}
           t == Text(p)
           o == pos[p]
           w == SubSeq(t, o + 1, n)
<1>1. t \in Seq(W) /\ Len(t) \in Nat /\ o \in Nat /\ n \in Nat /\ Len(history) \in Nat
  <2>1. t \in Seq(W)
    BY TextIs
  <2> QED
    BY <2>1, LenProperties
<1>2. n \in o + 1 .. Len(t) /\ o + 1 \in Int /\ n \in Int
  BY <1>1
<1> HIDE DEF t, o
<1>3. \A i \in o + 1 .. n : i \in 1 .. Len(t) /\ t[i] \in W
  BY <1>1, <1>2, ElementOfSeq
<1>4. /\ w \in Seq(W)
      /\ Len(w) = IF o + 1 <= n THEN n - (o + 1) + 1 ELSE 0
      /\ \A i \in 1 .. n - (o + 1) + 1 : w[i] = t[o + 1 + i - 1]
  BY <1>2, <1>3, SubSeqProperties
<1>5. /\ (IF o + 1 <= n THEN n - (o + 1) + 1 ELSE 0) = n - o /\ o + (n - o) = n
      /\ \A i \in o + 1 .. n : i - o \in 1 .. n - (o + 1) + 1 /\ o + 1 + (i - o) - 1 = i
  BY <1>1, <1>2
<1>6. \A i \in o + 1 .. n : w[i - o] = t[i]
  BY <1>4, <1>5
<1>7. Len(w) = n - o
  BY <1>4, <1>5
<1> HIDE DEF w, W
<1>8. Hole \in W /\ history \in Seq(W) /\ history' = Overwritten(history, o, w)
  BY DEF W, w, t, o
<1>9. /\ history' \in Seq(W)
      /\ Len(history') = IF Len(history) < o + Len(w) THEN o + Len(w) ELSE Len(history)
      /\ \A i \in 1 .. Len(history') :
           history'[i] = IF i \in o + 1 .. o + Len(w) THEN w[i - o]
                         ELSE IF i <= Len(history) THEN history[i] ELSE Hole
  BY <1>1, <1>4, <1>8, OverwrittenIs
<1>10. o + Len(w) = n
  BY <1>5, <1>7
<1>11. \A i \in 1 .. Len(history') :
         history'[i] = IF i \in o + 1 .. n THEN t[i]
                       ELSE IF i <= Len(history) THEN history[i] ELSE Hole
  BY <1>6, <1>9, <1>10
<1> QED
  BY <1>1, <1>9, <1>10, <1>11 DEF W, t, o

(* The file is empty and no request is made at the start.                    *)
LEMMA InitFeedInv == FeedInit => FeedInv
<1> SUFFICES ASSUME FeedInit PROVE FeedInv
  OBVIOUS
<1>1. /\ polls = 0 /\ history = <<>> /\ rss = <<>>
      /\ \A p \in Pollers : at[p] = "idle" /\ result[p] = <<>> /\ pos[p] = 0
      /\ mixed = FALSE /\ spliced = FALSE
  BY DEF FeedInit
<1>2. FeedTypeOK
  <2>1. /\ <<>> \in Seq(Nat) /\ <<>> \in Seq(Items) /\ <<>> \in News
        /\ <<>> \in Seq(FileWords) /\ <<>> \in Seq(Nat \cup {End})
    BY EmptySeq DEF News
  <2> QED
    BY <2>1 DEF FeedInit, FeedTypeOK
<1>3. HandlesAreWithin
  BY <1>1, EmptySeq DEF HandlesAreWithin
<1> QED
  BY <1>1, <1>2, <1>3, NoEntriesGood DEF FeedInv, NoFileTwice, LoneIsGood

(* A request begins, with the entries its number makes.                      *)
LEMMA BeginFeedInv ==
  ASSUME FeedInv, NEW p \in Pollers, Proceed(p, "idle", "read"), polls' = polls + 1,
         rss' \in News, NEW e, fresh' = [fresh EXCEPT ![p] = e], New(e, polls + 1),
         e \in Seq(Items), kind # "feed" => e \in Seq(Nat),
         mixed' = (mixed \/ Busy(p)), UNCHANGED <<kind, history, result, pos, spliced>>
  PROVE  FeedInv'
<1> USE DEF FeedInv
<1>1. /\ at[p] = "idle" /\ at' \in [Pollers -> {"idle", "read", "open", "write"}]
      /\ \A q \in Pollers : at'[q] = IF q = p THEN "read" ELSE at[q]
  BY DEF FeedTypeOK, Proceed
<1>2. fresh' \in [Pollers -> Seq(Items)] /\ fresh'[p] = e
  BY DEF FeedTypeOK
<1>3. kind # "feed" => fresh' \in [Pollers -> Seq(Nat)]
  BY DEF FeedTypeOK
<1>4. polls' \in Nat /\ polls' # 0 /\ polls' - 1 = polls
  BY DEF FeedTypeOK
<1>5. FeedTypeOK'
  BY <1>1, <1>2, <1>3, <1>4 DEF FeedTypeOK
<1>6. HandlesAreWithin' /\ NoFileTwice'
  <2>1. \A q \in Pollers : at'[q] = "write" <=> at[q] = "write"
    BY <1>1
  <2>2. HandlesAreWithin'
    BY <2>1 DEF HandlesAreWithin
  <2>3. NoFileTwice'
    BY <2>1 DEF NoFileTwice, Begun, NoHeadlineTwice
  <2> QED
    BY <2>2, <2>3
<1>7. LoneIsGood'
  <2> SUFFICES ASSUME ~mixed'
               PROVE  /\ ~spliced
                      /\ \A q, r \in Pollers : at'[q] # "idle" /\ at'[r] # "idle" => q = r
                      /\ \E q \in Pollers : at'[q] # "idle"
                      /\ \A q \in Pollers :
                           /\ at'[q] = "read" => /\ polls' # 0
                                                 /\ Good(Contents(history), polls' - 1)
                                                 /\ New(fresh'[q], polls')
                           /\ at'[q] \notin {"open", "write"}
    BY LonePrimed
  <2>1. ~mixed /\ \A q \in Pollers : at[q] = "idle"
    BY <1>1 DEF Busy
  <2>2. Good(Contents(history), polls) /\ ~spliced
    BY <2>1 DEF LoneIsGood
  <2>3. \A q \in Pollers : at'[q] # "idle" => q = p /\ at'[q] = "read"
    BY <1>1, <2>1
  <2>4. at'[p] # "idle"
    BY <1>1
  <2>5. \A q \in Pollers : at'[q] = "read" => polls' # 0 /\ Good(Contents(history), polls' - 1)
                                              /\ New(fresh'[q], polls')
    BY <1>2, <1>4, <2>2, <2>3
  <2> QED
    BY <2>2, <2>3, <2>4, <2>5
<1> QED
  BY <1>5, <1>6, <1>7

(* A request that begins alone has entries newer than the file's; a second   *)
(* one mixes them.                                                           *)
LEMMA FetchFeedInv ==
  ASSUME FeedInv, NEW p \in Pollers, FetchNews(p) \/ Evaluate(p)
  PROVE  FeedInv'
<1>0. polls + 1 \in Nat /\ polls + 1 \in Items
  BY DEF FeedInv, FeedTypeOK, Items
<1>1. CASE FetchNews(p)
  <2>1. PICK news \in News : /\ rss' = news \/ (rss # <<>> /\ news = rss /\ UNCHANGED rss)
                             /\ fresh' = [fresh EXCEPT ![p] = Append(news, polls + 1)]
    BY <1>1 DEF FetchNews, News
  <2>2. news \in Seq(Items)
    <3>1. CASE news = <<>>
      BY <3>1, EmptySeq
    <3>2. CASE \E h \in Headlines : news = <<h>>
      <4>1. PICK h \in Headlines : news = <<h>>
        BY <3>2
      <4>2. h \in Items
        BY DEF Items
      <4> QED
        BY <4>1, <4>2
    <3> QED
      BY <3>1, <3>2 DEF News
  <2>3. Append(news, polls + 1) \in Seq(Items)
    BY <1>0, <2>2, AppendProperties
  <2>4. New(Append(news, polls + 1), polls + 1)
    BY DEF New
  <2>5. /\ Proceed(p, "idle", "read") /\ polls' = polls + 1 /\ kind = "feed"
        /\ mixed' = (mixed \/ Busy(p)) /\ UNCHANGED <<kind, history, result, pos, spliced>>
    BY <1>1 DEF FetchNews
  <2>6. rss' \in News
    BY <2>1
  <2> QED
    BY <2>1, <2>3, <2>4, <2>5, <2>6, BeginFeedInv
<1>2. CASE Evaluate(p)
  <2>1. /\ Proceed(p, "idle", "read") /\ polls' = polls + 1 /\ rss' = rss
        /\ fresh' = [fresh EXCEPT ![p] = <<polls + 1>>]
        /\ mixed' = (mixed \/ Busy(p)) /\ UNCHANGED <<kind, history, result, pos, spliced>>
    BY <1>2 DEF Evaluate
  <2>2. <<polls + 1>> \in Seq(Items) /\ <<polls + 1>> \in Seq(Nat)
    BY <1>0
  <2>3. New(<<polls + 1>>, polls + 1)
    <3>1. <<polls + 1>> = Append(<<>>, polls + 1) /\ <<>> \in News
      BY DEF News
    <3> QED
      BY <3>1 DEF New
  <2>4. rss' \in News
    BY <2>1 DEF FeedInv, FeedTypeOK
  <2> QED
    BY <2>1, <2>2, <2>3, <2>4, BeginFeedInv
<1> QED
  BY <1>1, <1>2

(* A request that has read a good history will write a good one.             *)
LEMMA ReadFeedInv ==
  ASSUME FeedInv, NEW p \in Pollers, ReadHistory(p)
  PROVE  FeedInv'
<1> USE DEF FeedInv
<1> DEFINE past == Contents(history)
           m == Merge(fresh[p], past)
<1>1. /\ at[p] = "read" /\ at' \in [Pollers -> {"idle", "read", "open", "write"}]
      /\ \A q \in Pollers : at'[q] = IF q = p THEN "open" ELSE at[q]
      /\ result' = [result EXCEPT ![p] = m]
      /\ UNCHANGED <<kind, history, rss, fresh, pos, mixed, spliced, polls>>
  BY DEF FeedTypeOK, ReadHistory, Proceed
<1>2. /\ past \in Seq(Items) /\ fresh[p] \in Seq(Items)
      /\ kind # "feed" => past \in Seq(Nat) /\ fresh[p] \in Seq(Nat)
  BY ContentsAre DEF FeedTypeOK, FileWords
<1> HIDE DEF past
<1>3. m \in Seq(Items) /\ NoHeadlineTwice(m) /\ (kind # "feed" => m \in Seq(Nat))
  BY <1>2, MergeType
<1>4. ~mixed => Good(m, polls)
  <2> SUFFICES ASSUME ~mixed PROVE Good(m, polls)
    OBVIOUS
  <2>1. polls \in Nat /\ polls # 0 /\ Good(past, polls - 1) /\ New(fresh[p], polls)
    BY <1>1 DEF LoneIsGood, FeedTypeOK, past
  <2>2. polls \in Nat \ {0}
    BY <2>1
  <2>3. NoHeadlineTwice(past)
    BY ContentsNoTwice DEF LoneIsGood, NoFileTwice, FeedTypeOK, past
  <2> QED
    BY <1>2, <2>1, <2>2, <2>3, MergeGood
<1> HIDE DEF m
<1>5. FeedTypeOK'
  BY <1>1, <1>3 DEF FeedTypeOK
<1>6. \A q \in Pollers : result'[q] = IF q = p THEN m ELSE result[q]
  BY <1>1 DEF FeedTypeOK
<1>7. HandlesAreWithin'
  <2>1. pos[p] = 0 /\ 0 <= Len(m)
    BY <1>1, <1>3, LenProperties DEF HandlesAreWithin
  <2> QED
    BY <1>1, <1>6, <2>1 DEF HandlesAreWithin
<1>8. NoFileTwice'
  <2>1. \A q \in Pollers : NoHeadlineTwice(result'[q])
    BY <1>3, <1>6 DEF NoFileTwice
  <2>2. \A q \in Pollers : at'[q] = "write" => at[q] = "write" /\ result'[q] = result[q]
    BY <1>1, <1>6
  <2> QED
    BY <1>1, <2>1, <2>2 DEF NoFileTwice, Begun, NoHeadlineTwice
<1>9. LoneIsGood'
  <2> SUFFICES ASSUME ~mixed
               PROVE  /\ ~spliced
                      /\ \A q, r \in Pollers : at'[q] # "idle" /\ at'[r] # "idle" => q = r
                      /\ \E q \in Pollers : at'[q] # "idle"
                      /\ \A q \in Pollers :
                           /\ at'[q] # "read"
                           /\ at'[q] \in {"open", "write"} => Good(result'[q], polls)
    BY <1>1, LonePrimed
  <2>1. ~spliced /\ \A q \in Pollers : at[q] # "idle" => q = p
    BY <1>1 DEF LoneIsGood
  <2>2. \A q \in Pollers : at'[q] # "idle" => q = p /\ at'[q] = "open"
    BY <1>1, <2>1
  <2>3. at'[p] = "open"
    BY <1>1
  <2> QED
    BY <1>4, <1>6, <2>1, <2>2, <2>3
<1> QED
  BY <1>5, <1>7, <1>8, <1>9

(* Opening the file for writing empties it; alone, the request has begun.    *)
LEMMA OpenFeedInv ==
  ASSUME FeedInv, NEW p \in Pollers, OpenHistory(p)
  PROVE  FeedInv'
<1> USE DEF FeedInv
<1>1. /\ at[p] = "open" /\ at' \in [Pollers -> {"idle", "read", "open", "write"}]
      /\ \A q \in Pollers : at'[q] = IF q = p THEN "write" ELSE at[q]
      /\ history' = <<>>
      /\ spliced' = \E q \in Pollers \ {p} : at[q] = "write"
      /\ UNCHANGED <<kind, rss, fresh, result, pos, mixed, polls>>
  BY DEF FeedTypeOK, OpenHistory, Proceed
<1>2. /\ <<>> \in Seq(FileWords) /\ <<>> \in Seq(Nat \cup {End})
      /\ Len(<<>>) = 0 /\ 1 .. 0 = {} /\ NoHeadlineTwice(<<>>)
  BY EmptySeq DEF NoHeadlineTwice
<1>3. FeedTypeOK' /\ HandlesAreWithin'
  BY <1>1, <1>2 DEF FeedTypeOK, HandlesAreWithin
<1>4. NoFileTwice'
  <2>1. pos[p] = 0
    BY <1>1 DEF HandlesAreWithin
  <2>2. Begun(p)'
    BY <1>1, <1>2, <2>1 DEF Begun
  <2>3. ~spliced' => \A q \in Pollers : at'[q] = "write" => q = p
    BY <1>1
  <2>4. NoHeadlineTwice(history')
    BY <1>1, <1>2
  <2>5. \A q \in Pollers : NoHeadlineTwice(result'[q])
    BY <1>1 DEF NoFileTwice
  <2> QED
    BY <2>2, <2>3, <2>4, <2>5 DEF NoFileTwice, NoHeadlineTwice
<1>5. LoneIsGood'
  <2> SUFFICES ASSUME ~mixed
               PROVE  /\ ~spliced'
                      /\ \A q, r \in Pollers : at'[q] # "idle" /\ at'[r] # "idle" => q = r
                      /\ \E q \in Pollers : at'[q] # "idle"
                      /\ \A q \in Pollers :
                           /\ at'[q] # "read"
                           /\ at'[q] \in {"open", "write"} => Good(result[q], polls)
    BY <1>1, LonePrimed
  <2>1. \A q \in Pollers : at[q] # "idle" => q = p
    BY <1>1 DEF LoneIsGood
  <2>2. \A q \in Pollers : at'[q] # "idle" => q = p /\ at'[q] = "write"
    BY <1>1, <2>1
  <2>3. at'[p] = "write" /\ Good(result[p], polls)
    BY <1>1 DEF LoneIsGood
  <2>4. ~spliced'
    BY <1>1, <2>1
  <2> QED
    BY <2>2, <2>3, <2>4
<1> QED
  BY <1>3, <1>4, <1>5

(* A call that writes a piece of a text: alone, the file is the beginning of *)
(* that text after it too, and when it was the last call, the whole text.    *)
LEMMA WriteFeedInv ==
  ASSUME FeedInv, NEW p \in Pollers, WriteHistory(p)
  PROVE  FeedInv'
<1> USE DEF FeedInv
<1> DEFINE last == Len(result[p]) + 1
<1>1. PICK n \in pos[p] + 1 .. Len(Text(p)) :
        /\ history' = Overwritten(history, pos[p], SubSeq(Text(p), pos[p] + 1, n))
        /\ IF n < Len(Text(p))
           THEN pos' = [pos EXCEPT ![p] = n] /\ UNCHANGED <<at, fresh, result>>
           ELSE /\ at' = [at EXCEPT ![p] = "idle"] /\ pos' = [pos EXCEPT ![p] = 0]
                /\ fresh' = [fresh EXCEPT ![p] = <<>>] /\ result' = [result EXCEPT ![p] = <<>>]
  BY DEF WriteHistory
<1>2. /\ at[p] = "write" /\ UNCHANGED <<kind, rss, mixed, spliced, polls>>
      /\ result[p] \in Seq(Items) /\ (kind # "feed" => result[p] \in Seq(Nat))
      /\ pos[p] \in Nat /\ Hole \in Items /\ Hole \in Nat
  BY DEF WriteHistory, FeedTypeOK, Hole, Items
<1>3. /\ Len(result[p]) \in Nat /\ Len(Text(p)) = last /\ Text(p)[last] = End
      /\ \A i \in 1 .. Len(result[p]) : Text(p)[i] = result[p][i]
  BY <1>2, TextIs
<1>4. n \in Nat /\ n <= last /\ n > pos[p] /\ last \in Nat
  BY <1>1, <1>2, <1>3
<1>5. /\ history' \in Seq(FileWords) /\ Len(history) \in Nat
      /\ Len(history') = IF Len(history) < n THEN n ELSE Len(history)
      /\ \A i \in 1 .. Len(history') :
           history'[i] = IF i \in pos[p] + 1 .. n THEN Text(p)[i]
                         ELSE IF i <= Len(history) THEN history[i] ELSE Hole
  <2>1. history \in Seq(Items \cup {End})
    BY DEF FeedTypeOK, FileWords
  <2> QED
    <3>1. Hole \in Items /\ result[p] \in Seq(Items) /\ pos[p] \in Nat
      BY <1>2
    <3>2. history' = Overwritten(history, pos[p], SubSeq(Text(p), pos[p] + 1, n))
      BY <1>1
    <3> DEFINE S == Items
    <3> HIDE DEF S
    <3>3. Hole \in S /\ result[p] \in Seq(S) /\ history \in Seq(S \cup {End})
      BY <2>1, <3>1 DEF S
    <3>4. /\ history' \in Seq(S \cup {End}) /\ Len(history) \in Nat
          /\ Len(history') = IF Len(history) < n THEN n ELSE Len(history)
          /\ \A i \in 1 .. Len(history') :
               history'[i] = IF i \in pos[p] + 1 .. n THEN Text(p)[i]
                             ELSE IF i <= Len(history) THEN history[i] ELSE Hole
      BY <3>1, <3>2, <3>3, PieceIs
    <3> QED
      BY <3>4 DEF S, FileWords
<1>6. kind # "feed" => history' \in Seq(Nat \cup {End})
  BY <1>1, <1>2, PieceIs DEF FeedTypeOK
<1>7. ~spliced => /\ Len(history') = n
                  /\ \A i \in 1 .. n : history'[i] = Text(p)[i]
  <2> SUFFICES ASSUME ~spliced
               PROVE  /\ Len(history') = n
                      /\ \A i \in 1 .. n : history'[i] = Text(p)[i]
    OBVIOUS
  <2>1. /\ Len(history) = pos[p] /\ pos[p] <= Len(result[p])
        /\ \A i \in 1 .. pos[p] : history[i] = result[p][i]
    BY <1>2 DEF NoFileTwice, Begun, HandlesAreWithin
  <2>2. Len(history') = n
    BY <1>4, <1>5, <2>1
  <2>3. \A i \in 1 .. n : i \in pos[p] + 1 .. n \/ (i \in 1 .. pos[p] /\ i \notin pos[p] + 1 .. n)
    BY <1>2, <1>4
  <2>4. \A i \in 1 .. pos[p] : i <= Len(history) /\ i \in 1 .. Len(result[p])
    BY <1>2, <1>3, <2>1
  <2> QED
    BY <1>3, <1>5, <2>1, <2>2, <2>3, <2>4
<1>8. ~spliced => NoHeadlineTwice(history')
  <2> SUFFICES ASSUME ~spliced, NEW i \in 1 .. n, NEW j \in 1 .. n,
                      Text(p)[i] \in Headlines, Text(p)[i] = Text(p)[j]
               PROVE  i = j
    BY <1>7 DEF NoHeadlineTwice
  <2>1. End \notin Headlines
    BY FeedAssumption DEF End
  <2>2. \A k \in 1 .. n : k # last => k \in 1 .. Len(result[p])
    BY <1>3, <1>4
  <2>3. i \in 1 .. Len(result[p]) /\ j \in 1 .. Len(result[p])
    BY <1>3, <2>1, <2>2
  <2> QED
    BY <1>3, <2>3 DEF NoFileTwice, NoHeadlineTwice
<1> HIDE DEF last
<1>9. CASE n < last
  <2>1. pos' = [pos EXCEPT ![p] = n] /\ UNCHANGED <<at, fresh, result>>
    BY <1>1, <1>3, <1>9
  <2>2. \A q \in Pollers : pos'[q] = IF q = p THEN n ELSE pos[q]
    BY <2>1 DEF FeedTypeOK
  <2>3. FeedTypeOK'
    BY <1>2, <1>4, <1>5, <1>6, <2>1 DEF FeedTypeOK
  <2>4. n <= Len(result[p])
    BY <1>3, <1>4, <1>9 DEF last
  <2>5. HandlesAreWithin'
    BY <1>2, <2>1, <2>2, <2>4 DEF HandlesAreWithin
  <2>6. ~spliced => Begun(p)'
    <3>1. \A i \in 1 .. n : i \in 1 .. Len(result[p])
      BY <1>3, <1>4, <2>4
    <3> QED
      BY <1>3, <1>7, <2>1, <2>2, <3>1 DEF Begun
  <2>7. NoFileTwice'
    <3>1. ~spliced => \A q \in Pollers : at[q] = "write" => q = p
      BY <1>2 DEF NoFileTwice
    <3> QED
      BY <1>2, <1>8, <2>1, <2>6, <3>1 DEF NoFileTwice, NoHeadlineTwice
  <2>8. LoneIsGood'
    <3> SUFFICES ASSUME ~mixed
                 PROVE  \A q \in Pollers : at[q] # "idle" => q = p
      BY <1>2, <2>1, LonePrimed DEF LoneIsGood
    <3> QED
      BY <1>2 DEF LoneIsGood
  <2> QED
    BY <2>3, <2>5, <2>7, <2>8
<1>10. CASE ~(n < last)
  <2>1. /\ at' = [at EXCEPT ![p] = "idle"] /\ pos' = [pos EXCEPT ![p] = 0]
        /\ fresh' = [fresh EXCEPT ![p] = <<>>] /\ result' = [result EXCEPT ![p] = <<>>]
        /\ n = last
    BY <1>1, <1>3, <1>4, <1>10
  <2>2. \A q \in Pollers : /\ at'[q] = IF q = p THEN "idle" ELSE at[q]
                           /\ pos'[q] = IF q = p THEN 0 ELSE pos[q]
                           /\ result'[q] = IF q = p THEN <<>> ELSE result[q]
    BY <2>1 DEF FeedTypeOK
  <2>3. <<>> \in Seq(Nat) /\ <<>> \in Seq(Items) /\ Len(<<>>) = 0
    BY EmptySeq
  <2>4. FeedTypeOK'
    BY <1>2, <1>5, <1>6, <2>1, <2>3 DEF FeedTypeOK
  <2>5. HandlesAreWithin'
    BY <2>2, <2>3 DEF HandlesAreWithin
  <2>6. NoFileTwice'
    <3>1. \A q \in Pollers : NoHeadlineTwice(result'[q])
      BY <2>2, NoEntriesGood DEF NoFileTwice
    <3>2. ~spliced => \A q \in Pollers : at'[q] # "write"
      BY <1>2, <2>2 DEF NoFileTwice
    <3> QED
      BY <1>2, <1>8, <3>1, <3>2 DEF NoFileTwice
  <2>7. LoneIsGood'
    <3> SUFFICES ASSUME ~mixed
                 PROVE  /\ ~spliced
                        /\ \A q \in Pollers : at'[q] = "idle"
                        /\ Good(Contents(history'), polls)
      BY <1>2, LonePrimed
    <3>1. ~spliced /\ Good(result[p], polls) /\ \A q \in Pollers : at[q] # "idle" => q = p
      BY <1>2 DEF LoneIsGood
    <3>2. /\ Len(history') = Len(result[p]) + 1 /\ history'[Len(result[p]) + 1] = End
          /\ \A i \in 1 .. Len(result[p]) : history'[i] = result[p][i]
      <4>1. last \in 1 .. n /\ \A i \in 1 .. Len(result[p]) : i \in 1 .. n
        BY <1>3, <2>1 DEF last
      <4> QED
        BY <1>3, <1>7, <2>1, <3>1, <4>1 DEF last
    <3>3. Contents(history') = result[p]
      <4>1. polls \in Nat
        BY DEF FeedTypeOK
      <4> QED
        BY <1>2, <1>5, <3>1, <3>2, <4>1, WholeIsRead
    <3> QED
      BY <2>2, <3>1, <3>3
  <2> QED
    BY <2>4, <2>5, <2>6, <2>7
<1> QED
  BY <1>9, <1>10

(* A kill of the backend ends all requests, and counts as a mix.             *)
LEMMA KillFeedInv == FeedInv /\ KillPollers => FeedInv'
<1> SUFFICES ASSUME FeedInv, KillPollers PROVE FeedInv'
  OBVIOUS
<1>1. /\ at' = [p \in Pollers |-> "idle"] /\ pos' = [p \in Pollers |-> 0]
      /\ fresh' = [p \in Pollers |-> <<>>] /\ result' = [p \in Pollers |-> <<>>]
      /\ rss' = <<>> /\ mixed' = TRUE /\ UNCHANGED <<kind, history, spliced, polls>>
  BY DEF KillPollers
<1>2. FeedTypeOK'
  <2>1. <<>> \in Seq(Nat) /\ <<>> \in Seq(Items) /\ <<>> \in News
    BY EmptySeq DEF News
  <2> QED
    BY <1>1, <2>1 DEF FeedInv, FeedTypeOK
<1>3. HandlesAreWithin'
  BY <1>1, EmptySeq DEF HandlesAreWithin
<1>4. NoFileTwice'
  <2>1. \A p \in Pollers : NoHeadlineTwice(result'[p]) /\ at'[p] # "write"
    BY <1>1, NoEntriesGood
  <2>2. ~spliced' => NoHeadlineTwice(history')
    BY <1>1 DEF FeedInv, NoFileTwice
  <2> QED
    BY <2>1, <2>2 DEF NoFileTwice
<1>5. LoneIsGood'
  BY <1>1, LonePrimed
<1> QED
  BY <1>2, <1>3, <1>4, <1>5 DEF FeedInv

(* The invariant implies that lone requests keep the history.                *)
LEMMA FeedAudit == FeedInv => LoneRequestsKeepHistory
<1> SUFFICES ASSUME FeedInv PROVE LoneRequestsKeepHistory
  OBVIOUS
<1> DEFINE kept == Contents(history)
<1>1. kept \in Seq(Items) /\ DOMAIN kept = 1 .. Len(kept) /\ polls \in Nat
  <2>1. kept \in Seq(Items)
    BY ContentsAre DEF FeedInv, FeedTypeOK, FileWords
  <2> QED
    BY <2>1, LenProperties DEF FeedInv, FeedTypeOK
<1>2. ~spliced => NoHeadlineTwice(kept)
  BY ContentsNoTwice DEF FeedInv, FeedTypeOK, NoFileTwice
<1>3. ~mixed /\ (\A p \in Pollers : at[p] = "idle") => Good(kept, polls)
  BY DEF FeedInv, LoneIsGood
<1>4. \A n : Kept(n) <=> Has(kept, n)
  BY <1>1 DEF Kept, Has
<1> HIDE DEF kept
<1>5. ~spliced => \A i, j \in DOMAIN kept : kept[i] \in Headlines /\ kept[i] = kept[j] => i = j
  BY <1>1, <1>2 DEF NoHeadlineTwice
<1>6. ASSUME ~mixed, \A p \in Pollers : at[p] = "idle"
      PROVE  /\ \A i, j \in Numbered(kept) : i < j => kept[i] > kept[j]
             /\ \A i \in Numbered(kept) : kept[i] <= polls /\ \A n \in kept[i] .. polls : Kept(n)
             /\ Len(kept) < Window => \A n \in 1 .. polls : Kept(n)
  <2>1. Good(kept, polls)
    BY <1>3, <1>6
  <2>2. \A i \in 1 .. polls : i <= polls
    BY <1>1
  <2>3. \A i \in Numbered(kept) : i \in 1 .. Len(kept) /\ kept[i] \notin Headlines
    BY <1>1 DEF Numbered
  <2>4. \A i, j \in Numbered(kept) : i < j => kept[i] > kept[j]
    BY <2>1, <2>3 DEF Good, Descends
  <2>5. \A i \in Numbered(kept) : kept[i] <= polls /\ \A n \in kept[i] .. polls : Kept(n)
    BY <1>4, <2>1, <2>2, <2>3 DEF Good, Reaches
  <2>6. Len(kept) < Window => \A n \in 1 .. polls : Kept(n)
    BY <1>4, <2>1 DEF Good, Whole
  <2> QED
    BY <2>4, <2>5, <2>6
<1> QED
  BY <1>5, <1>6 DEF LoneRequestsKeepHistory, kept

(* The invariant of the histories, whose file several requests may be        *)
(* writing at once, each at its own offset, holds of all their behaviours    *)
(* (satellite.py; decay_monitor.py).                                         *)
THEOREM FeedInvariant == FeedSpec => []FeedInv
<1>1. FeedInv /\ [FeedNext]_feedVars => FeedInv'
  <2> SUFFICES ASSUME FeedInv, [FeedNext]_feedVars PROVE FeedInv'
    OBVIOUS
  <2>1. CASE \E p \in Pollers : FetchNews(p) \/ Evaluate(p)
    BY <2>1, FetchFeedInv
  <2>2. CASE \E p \in Pollers : ReadHistory(p)
    BY <2>2, ReadFeedInv
  <2>3. CASE \E p \in Pollers : OpenHistory(p)
    BY <2>3, OpenFeedInv
  <2>4. CASE \E p \in Pollers : WriteHistory(p)
    BY <2>4, WriteFeedInv
  <2>5. CASE KillPollers
    BY <2>5, KillFeedInv
  <2>6. CASE UNCHANGED feedVars
    <3>1. FeedTypeOK' /\ HandlesAreWithin'
      BY <2>6 DEF feedVars, FeedInv, FeedTypeOK, HandlesAreWithin
    <3>2. NoFileTwice'
      BY <2>6 DEF feedVars, FeedInv, NoFileTwice, Begun, NoHeadlineTwice
    <3>3. LoneIsGood'
      BY <2>6, LonePrimed DEF feedVars, FeedInv, LoneIsGood
    <3> QED
      BY <3>1, <3>2, <3>3 DEF FeedInv
  <2> QED
    BY <2>1, <2>2, <2>3, <2>4, <2>5, <2>6 DEF FeedNext
<1> QED
  BY <1>1, InitFeedInv, PTL DEF FeedSpec

(* Lone requests keep the history in every behaviour of the histories.       *)
LEMMA LoneInFeeds == FeedSpec => []LoneRequestsKeepHistory
  BY FeedInvariant, FeedAudit, PTL

-----------------------------------------------------------------------------
(* The composition (WebBackend): a behaviour of the whole is a behaviour of  *)
(* each part, so what was shown of a part is true of the whole.              *)

(* A behaviour of the composition is a behaviour of each part, as a step of  *)
(* one leaves the variables of the others alone.                             *)
THEOREM PartsAreKept ==
  Spec => DataSpec /\ GuardSpec /\ GhostSpec /\ BookSpec /\ TapeSpec /\ FeedSpec
<1>1. Init => DataInit /\ GuardInit /\ GhostInit /\ BookInit /\ TapeInit /\ FeedInit
  BY DEF Init
<1>2. [Next]_vars => [DataNext]_dataVars
  BY Zenon DEF Next, vars
<1>3. [Next]_vars => [GuardNext]_guardVars
  BY Zenon DEF Next, vars
<1>4. [Next]_vars => [GhostNext]_ghostVars
  BY Zenon DEF Next, vars, engineVars
<1>5. [Next]_vars => [BookNext]_bookVars
  BY Zenon DEF Next, vars, engineVars
<1>6. [Next]_vars => [TapeNext]_tapeVars
  BY Zenon DEF Next, vars
<1>7. [Next]_vars => [FeedNext]_feedVars
  BY Zenon DEF Next, vars
<1> QED
  BY <1>1, <1>2, <1>3, <1>4, <1>5, <1>6, <1>7, PTL
     DEF Spec, DataSpec, GuardSpec, GhostSpec, BookSpec, TapeSpec, FeedSpec

(* What the web backend serves as live is younger than two lifetimes of the  *)
(* caches, for any lifetime of two ticks or more (analytics.py,              *)
(* fetch_live_data in front of provider.py, fetch_bars).                     *)
THEOREM AlwaysRecent == Spec => []LiveIsRecent
BY PartsAreKept, LiveInData, PTL

(* What it serves from the file is what the file held less than a lifetime   *)
(* ago, or the file changed within it (analytics.py, add_symbol).            *)
THEOREM AlwaysCurrent == Spec => []LocalIsCurrent
BY PartsAreKept, LocalInData, PTL

(* Checks that meet neither each other nor an edit lose no trigger           *)
(* (seed_guard.py, check_and_reseed).                                        *)
THEOREM TriggersKept == Spec => []TriggersAreKept
BY PartsAreKept, KeptByGuard, PTL

(* No ghost execution is ever complete, whatever the size of the order and   *)
(* of its child orders (ghost_exchange.h, simulate_execution).               *)
THEOREM NeverComplete == Spec => []AlwaysShort
BY PartsAreKept, ShortInExchange, PTL

(* A ghost request is executed at most once, and one that met no other is    *)
(* not lost, unless the engine is killed after it has removed its file and   *)
(* before it has started it (main.cpp, ghost_stress_test_loop and            *)
(* trigger_ghost_execution).                                                 *)
THEOREM ServedOnce == Spec => []RequestsAreServedOnce
BY PartsAreKept, ServedInExchange, PTL

(* The book of the engine never keeps a stale level: whatever the orders and *)
(* cancels, a level holds what was added to it since it was last cancelled,  *)
(* except where prune_tail took it away (limit_order_book.h).                *)
THEOREM LevelsAreGenuine == Spec => []BookIsGenuine
BY PartsAreKept, GenuineInBook, PTL

(* Of a snapshot no event disturbed, the backend's audit is silent exactly   *)
(* when there is a spread, or when nobody sells (main.cpp, telemetry_loop;   *)
(* execution.py, _audit_telemetry).                                          *)
THEOREM CalmQuotes == Spec => []CalmQuotesAgree
BY PartsAreKept, CalmInBook, PTL

(* A browser that listens all through a broadcast gets the fill exactly once, *)
(* and none gets a fill twice, however many sockets fail and are taken off    *)
(* the list meanwhile (state.py, broadcast_tape; api/ws.py, ws_tape).         *)
THEOREM EveryListenerServed == Spec => []NobodyIsSkipped
BY PartsAreKept, ServedOnTape, PTL

(* Requests that do not overlap keep the latest entries, newest first with   *)
(* no gap, and all while there is room; and no headline is in the file       *)
(* twice, unless two requests wrote it at once (satellite.py, generate_feed; *)
(* decay_monitor.py, evaluate_models).                                       *)
THEOREM HistoryIsKept == Spec => []LoneRequestsKeepHistory
BY PartsAreKept, LoneInFeeds, PTL
=============================================================================
