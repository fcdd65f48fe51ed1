-------------------------------- MODULE Feeds --------------------------------
(***************************************************************************)
(* Two histories the web backend keeps in JSON files: the alternative data *)
(* feed (satellite.py) and the decay of the models (decay_monitor.py).     *)
(* Every request reads the file, adds to what it read and writes the file  *)
(* in place, in a thread of its own and without a lock: two that are       *)
(* writing write over each other.                                          *)
(*                                                                         *)
(* A behaviour follows one of the two.  A new entry of a history is the    *)
(* number of the request that made it; headlines that come again are       *)
(* members of Headlines.  The file is a sequence of words: entries, and    *)
(* the closing bracket.                                                    *)
(***************************************************************************)
EXTENDS Integers, Sequences

CONSTANTS Pollers,     (* the requests that can be in progress at once     *)
          Headlines,   (* what the news can say                            *)
          Window,      (* how many entries are kept, 50                    *)
          MaxPolls     (* bound: requests                                  *)

ASSUME FeedAssumption ==
  Window \in Nat \ {0} /\ MaxPolls \in Nat /\ Headlines \cap Int = {}

Hole == 0   (* zeroes before an offset the file did not reach, no request's  *)
End == -1   (* the closing bracket                                           *)

VARIABLES
  kind,     (* feed or decay                                               *)
  history,  (* the words of the file                                       *)
  rss,      (* the headlines cached for a minute                           *)
  at,       (* where each request is                                       *)
  fresh,    (* the entries it adds                                         *)
  result,   (* what it is going to write                                   *)
  pos,      (* how many words it has written, the offset of its handle     *)
  mixed,    (* history: two requests overlapped, or one was cut short      *)
  spliced,  (* history: two have written since one alone emptied the file  *)
  polls     (* history: requests                                           *)

feedVars == <<kind, history, rss, at, fresh, result, pos, mixed, spliced, polls>>

FeedInit ==
  /\ kind \in {"feed", "decay"}
  /\ history = <<>> /\ rss = <<>>
  /\ at = [p \in Pollers |-> "idle"]
  /\ fresh = [p \in Pollers |-> <<>>] /\ result = [p \in Pollers |-> <<>>]
  /\ pos = [p \in Pollers |-> 0]
  /\ mixed = FALSE /\ spliced = FALSE /\ polls = 0

Proceed(p, from, to) == at[p] = from /\ at' = [at EXCEPT ![p] = to]
Busy(p) == \E q \in Pollers \ {p} : at[q] # "idle"
-----------------------------------------------------------------------------
(* The loop over combined, after i entries: a headline seen before is not    *)
(* kept again, everything else is.                                           *)
Deduped(s) ==
  LET deduped[i \in 0 .. Len(s)] ==
        IF i = 0 THEN <<>>
        ELSE IF s[i] \in Headlines /\ \E j \in 1 .. i - 1 : s[j] = s[i]
             THEN deduped[i - 1]
             ELSE Append(deduped[i - 1], s[i])
  IN deduped

Unique(s) == Deduped(s)[Len(s)]

Newest(s) == SubSeq(s, 1, IF Len(s) < Window THEN Len(s) ELSE Window)

(* The news is cached unless there is none; an entry of its own comes last.  *)
FetchNews(p) ==
  /\ kind = "feed" /\ polls < MaxPolls
  /\ Proceed(p, "idle", "read")
  /\ polls' = polls + 1
  /\ \E news \in {<<>>} \cup {<<h>> : h \in Headlines} :
       /\ \/ rss' = news
          \/ rss # <<>> /\ news = rss /\ UNCHANGED rss
       /\ fresh' = [fresh EXCEPT ![p] = Append(news, polls + 1)]
  /\ mixed' = (mixed \/ Busy(p))
  /\ UNCHANGED <<kind, history, result, pos, spliced>>

(* The models are evaluated once the history was read. *)
Evaluate(p) ==
  /\ kind = "decay" /\ polls < MaxPolls
  /\ Proceed(p, "idle", "read")
  /\ polls' = polls + 1
  /\ fresh' = [fresh EXCEPT ![p] = <<polls + 1>>]
  /\ mixed' = (mixed \/ Busy(p))
  /\ UNCHANGED <<kind, history, rss, result, pos, spliced>>

(* Fault for LoneRequestsKeepHistory: the oldest entries are kept.           *)
MergeOldest(new, old) ==
  IF kind = "feed" THEN Newest(Unique(old \o new)) ELSE Newest(new \o old)

(* The feed puts new entries first and drops repeated headlines; the decay   *)
(* history, newest last in its file, is kept in the same order here, which   *)
(* only a splice would show.                                                 *)
Merge(new, old) ==
  IF kind = "feed" THEN Newest(Unique(new \o old)) ELSE Newest(new \o old)

(* A file is parsed when it is whole: without a hole, and closed once, at    *)
(* its end.  One that is missing, empty or cannot be parsed holds nothing.   *)
Parses(f) == f # <<>> /\ \A i \in DOMAIN f : f[i] # Hole /\ (f[i] = End <=> i = Len(f))
Contents(f) == IF Parses(f) THEN SubSeq(f, 1, Len(f) - 1) ELSE <<>>

ReadHistory(p) ==
  /\ Proceed(p, "read", "open")
  /\ result' = [result EXCEPT ![p] = Merge(fresh[p], Contents(history))]
  /\ UNCHANGED <<kind, history, rss, fresh, pos, mixed, spliced, polls>>

(* open(..., "w") empties the file, also under another that is writing it.   *)
OpenHistory(p) ==
  /\ Proceed(p, "open", "write")
  /\ history' = <<>>
  /\ spliced' = \E q \in Pollers \ {p} : at[q] = "write"
  /\ UNCHANGED <<kind, rss, fresh, result, pos, mixed, polls>>

Text(p) == Append(result[p], End)

(* The file f after words were written at an offset: over what is there,     *)
(* and with a hole before them where f is shorter.                           *)
Overwritten(f, offset, words) ==
  LET last == offset + Len(words)
  IN [i \in 1 .. (IF Len(f) < last THEN last ELSE Len(f)) |->
        IF i \in offset + 1 .. last THEN words[i - offset]
        ELSE IF i <= Len(f) THEN f[i] ELSE Hole]

(* json.dump writes in several calls, each at the offset of its own handle.  *)
WriteHistory(p) ==
  /\ at[p] = "write"
  /\ \E n \in pos[p] + 1 .. Len(Text(p)) :
       /\ history' = Overwritten(history, pos[p], SubSeq(Text(p), pos[p] + 1, n))
       /\ IF n < Len(Text(p))
          THEN pos' = [pos EXCEPT ![p] = n] /\ UNCHANGED <<at, fresh, result>>
          ELSE /\ at' = [at EXCEPT ![p] = "idle"] /\ pos' = [pos EXCEPT ![p] = 0]
               /\ fresh' = [fresh EXCEPT ![p] = <<>>] /\ result' = [result EXCEPT ![p] = <<>>]
  /\ UNCHANGED <<kind, rss, mixed, spliced, polls>>

(* The backend is killed. *)
KillPollers ==
  /\ \E p \in Pollers : at[p] # "idle"
  /\ at' = [p \in Pollers |-> "idle"]
  /\ fresh' = [p \in Pollers |-> <<>>] /\ result' = [p \in Pollers |-> <<>>]
  /\ pos' = [p \in Pollers |-> 0]
  /\ rss' = <<>> /\ mixed' = TRUE
  /\ UNCHANGED <<kind, history, spliced, polls>>

FeedNext ==
  \/ \E p \in Pollers :
       FetchNews(p) \/ Evaluate(p) \/ ReadHistory(p) \/ OpenHistory(p) \/ WriteHistory(p)
  \/ KillPollers

FeedSpec == FeedInit /\ [][FeedNext]_feedVars
-----------------------------------------------------------------------------
(* Properties. *)

Numbered(q) == {i \in DOMAIN q : q[i] \notin Headlines}
Kept(n) == \E i \in DOMAIN Contents(history) : Contents(history)[i] = n

(* Requests that do not overlap keep the history: its entries are those of   *)
(* the latest requests, newest first and with no gap, and none is missing    *)
(* while there is room.  No headline is in the file twice, whichever         *)
(* requests overlap and wherever the backend is killed, unless two wrote the *)
(* file at once: then it can be a splice of both, which may parse, and       *)
(* nothing is said of it until a request alone empties the file again.       *)
LoneRequestsKeepHistory ==
  LET kept == Contents(history)
  IN /\ ~spliced =>
          \A i, j \in DOMAIN kept : kept[i] \in Headlines /\ kept[i] = kept[j] => i = j
     /\ (~mixed /\ \A p \in Pollers : at[p] = "idle") =>
          /\ \A i, j \in Numbered(kept) : i < j => kept[i] > kept[j]
          /\ \A i \in Numbered(kept) : kept[i] <= polls /\ \A n \in kept[i] .. polls : Kept(n)
          /\ Len(kept) < Window => \A n \in 1 .. polls : Kept(n)

(* Without the exception: TLC refutes it, with two requests that write over  *)
(* each other.                                                               *)
NoHeadlineIsTwice ==
  LET kept == Contents(history)
  IN \A i, j \in DOMAIN kept : kept[i] \in Headlines /\ kept[i] = kept[j] => i = j
=============================================================================
