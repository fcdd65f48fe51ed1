----------------------------- MODULE AuditLedger -----------------------------
(***************************************************************************)
(* The audit ledger data/audit_ledger.bin: the nexus processes that append *)
(* to it (MerkleLedger, audit_ledger.h) and the verifier of the web        *)
(* backend that walks it (_verify_ledger_file, ops.py).                    *)
(*                                                                         *)
(* The file is a sequence of words, three to an entry: the sequence        *)
(* number, prev_hash and curr_hash (the timestamp decides nothing).  A     *)
(* hash is named by the chain it belongs to and its position in it: every  *)
(* (re)seeding starts a new chain, and the hashes of distinct entries are  *)
(* taken to be distinct.  An append is one write of a whole entry followed *)
(* by a flush, so killing a process tears nothing; a full disk leaves a    *)
(* part of an entry and a failed stream, and a power loss any prefix of    *)
(* the file, as nothing is synced.                                         *)
(***************************************************************************)
EXTENDS Integers, Sequences, FiniteSets

CONSTANTS Procs,      (* nexus processes that can run at once            *)
          MaxEntries, (* 50 MB, in entries: the size that triggers rotation *)
          MaxChains,  (* bound: how often a chain is seeded              *)
          MaxAppends, (* bound: how many events are appended             *)
          MaxFaults   (* bound: disk-full writes and power losses        *)

ASSUME LedgerAssumption ==
  /\ MaxEntries \in Nat \ {0}
  /\ MaxChains \in Nat /\ MaxAppends \in Nat /\ MaxFaults \in Nat

VARIABLES
  file,    (* the words in the file                                       *)
  up,      (* the processes that are running                              *)
  chain,   (* the chain each process is extending; 0 before its first     *)
  seq,     (* seq_counter_                                                *)
  size,    (* file_size_, in words: what the process believes             *)
  trunc,   (* out_ was reopened with trunc at a rotation, not with app    *)
  pos,     (* the file offset of a stream opened with trunc               *)
  bad,     (* a write failed: out_ stays open and drops what it is given  *)
  chains,  (* history: chains seeded so far                               *)
  appends, (* history: calls of append_event                              *)
  faults,  (* history: faults so far                                      *)
  tainted  (* history: a fault happened, or two processes were up at once, *)
           (* since the file was last started afresh by a lone process    *)

procVars == <<chain, seq, size, trunc, pos, bad>>
vars == <<file, up, procVars, chains, appends, faults, tainted>>

Word(k, c, n) == <<k, c, n>>
SeqWord(n) == Word("seq", 0, n)
Seed == Word("hash", 0, 0)
Hash(c, n) == Word("hash", c, n)

EntryWords == 3

(* struct LogEntry: prev_hash_ is the seed until the first append. *)
Entry(c, n) ==
  <<SeqWord(n), IF n = 1 THEN Seed ELSE Hash(c, n - 1), Hash(c, n)>>

Init ==
  /\ file = <<>>
  /\ up = {}
  /\ chain = [p \in Procs |-> 0]
  /\ seq = [p \in Procs |-> 0]
  /\ size = [p \in Procs |-> 0]
  /\ trunc = [p \in Procs |-> FALSE]
  /\ pos = [p \in Procs |-> 0]
  /\ bad = [p \in Procs |-> FALSE]
  /\ chains = 0
  /\ appends = 0
  /\ faults = 0
  /\ tainted = FALSE

(* The constructor: the hashes and seq_counter_ start over, the file is      *)
(* opened for appending.                                                     *)
Start(p) ==
  /\ p \notin up
  /\ chains < MaxChains
  /\ up' = up \cup {p}
  /\ chains' = chains + 1
  /\ chain' = [chain EXCEPT ![p] = chains + 1]
  /\ seq' = [seq EXCEPT ![p] = 0]
  /\ size' = [size EXCEPT ![p] = Len(file)]
  /\ trunc' = [trunc EXCEPT ![p] = FALSE]
  /\ pos' = [pos EXCEPT ![p] = 0]
  /\ bad' = [bad EXCEPT ![p] = FALSE]
  /\ tainted' = (tainted \/ up # {})
  /\ UNCHANGED <<file, appends, faults>>

(* The process exits or is killed. *)
Stop(p) ==
  /\ p \in up
  /\ up' = up \ {p}
  /\ UNCHANGED <<file, procVars, chains, appends, faults, tainted>>

(* A stream opened with app writes at the end of the file whoever extended   *)
(* it; one opened with trunc writes at its own offset, over what is there,   *)
(* and leaves zeroes before it if the file has become shorter.               *)
Write(p, words) ==
  IF ~trunc[p] \/ words = <<>>
  THEN file' = file \o words /\ UNCHANGED pos
  ELSE /\ file' = [i \in 1 .. (IF pos[p] + Len(words) > Len(file)
                               THEN pos[p] + Len(words) ELSE Len(file)) |->
                     IF i \in pos[p] + 1 .. pos[p] + Len(words) THEN words[i - pos[p]]
                     ELSE IF i <= Len(file) THEN file[i] ELSE SeqWord(0)]
       /\ pos' = [pos EXCEPT ![p] = @ + Len(words)]

(* append_event up to the write, when the entry fits under the size limit. *)
CountEntry(p) ==
  /\ p \in up
  /\ appends < MaxAppends
  /\ size[p] + EntryWords <= MaxEntries * EntryWords
  /\ size' = [size EXCEPT ![p] = @ + EntryWords]
  /\ seq' = [seq EXCEPT ![p] = @ + 1]
  /\ appends' = appends + 1
  /\ UNCHANGED <<up, chain, trunc, chains>>

AppendEvent(p) ==
  /\ CountEntry(p)
  /\ IF bad[p] THEN UNCHANGED <<file, pos>> ELSE Write(p, Entry(chain[p], seq[p] + 1))
  /\ UNCHANGED <<bad, faults, tainted>>

(* The same with a full disk: a part of the entry is written, and out_ never *)
(* writes again until it is reopened.  What lies over words of the file has  *)
(* its room already: only the part that makes the file longer is lost.       *)
AppendDiskFull(p) ==
  /\ CountEntry(p)
  /\ ~bad[p]
  /\ faults < MaxFaults
  /\ \E k \in 0 .. EntryWords - 1 :
       /\ trunc[p] => pos[p] + k >= Len(file)
       /\ Write(p, SubSeq(Entry(chain[p], seq[p] + 1), 1, k))
  /\ bad' = [bad EXCEPT ![p] = TRUE]
  /\ faults' = faults + 1
  /\ tainted' = TRUE

(* append_event beyond the limit: the file is emptied, the chain re-seeded,  *)
(* and the entry becomes the first of the file.                              *)
RotateInto(p, newSize, newPos) ==
  /\ p \in up
  /\ appends < MaxAppends /\ chains < MaxChains
  /\ size[p] + EntryWords > MaxEntries * EntryWords
  /\ file' = Entry(chains + 1, 1)
  /\ chains' = chains + 1
  /\ chain' = [chain EXCEPT ![p] = chains + 1]
  /\ seq' = [seq EXCEPT ![p] = 1]
  /\ size' = [size EXCEPT ![p] = newSize]
  /\ trunc' = [trunc EXCEPT ![p] = TRUE]
  /\ pos' = [pos EXCEPT ![p] = newPos]
  /\ bad' = [bad EXCEPT ![p] = FALSE]
  /\ appends' = appends + 1
  /\ tainted' = (tainted /\ up # {p})
  /\ UNCHANGED <<up, faults>>

(* Faults for LoneWriterIsExact and AppendOnly: a rotation that leaves       *)
(* file_size_ as it was, or the file offset at the start.                    *)
RotateKeepsSize(p) == RotateInto(p, size[p] + EntryWords, EntryWords)
RotateRewinds(p) == RotateInto(p, EntryWords, 0)

Rotate(p) == RotateInto(p, EntryWords, EntryWords)

(* The machine loses power: every process ends and only a prefix of the file *)
(* survives.                                                                 *)
PowerLoss ==
  /\ up # {}
  /\ faults < MaxFaults
  /\ \E k \in 0 .. Len(file) : file' = SubSeq(file, 1, k)
  /\ up' = {}
  /\ faults' = faults + 1
  /\ tainted' = TRUE
  /\ UNCHANGED <<procVars, chains, appends>>

Next ==
  \/ \E p \in Procs : Start(p) \/ Stop(p) \/ AppendEvent(p) \/ AppendDiskFull(p) \/ Rotate(p)
  \/ PowerLoss

Spec == Init /\ [][Next]_vars
-----------------------------------------------------------------------------
(* The verifier of the web backend. *)

(* The whole entries of a file; a partial one at the end is trailing.        *)
Entries(f) ==
  [i \in 1 .. Len(f) \div EntryWords |->
     [seq |-> f[3 * i - 2], prev |-> f[3 * i - 1], curr |-> f[3 * i]]]

Trailing(f) == Len(f) % EntryWords # 0

(* seq == prev_seq + 1; a hash read where a number should be never is. *)
Follows(s, t) == s[1] = "seq" /\ t = SeqWord(s[3] + 1)

(* Fault for VerifiedIsChained and InterleavingIsReported: every foreign     *)
(* prev_hash is taken for a restart.                                         *)
VerifyStepTrusting(v, e, i) ==
  LET reroot == e.prev # v.head
  IN [restarts |-> v.restarts + (IF reroot THEN 1 ELSE 0),
      breaks   |-> v.breaks,
      gaps     |-> v.gaps + (IF i = 1 \/ Follows(v.seq, e.seq) THEN 0 ELSE 1),
      head     |-> e.curr,
      seq      |-> e.seq]

(* _verify_ledger_file's loop, entry i: what the walk has counted, the hash  *)
(* the next entry should name, and the sequence number before it.            *)
VerifyStep(v, e, i) ==
  LET reroot == e.prev # v.head /\ e.prev = Seed /\ i > 1
      break  == e.prev # v.head /\ ~reroot
      restarts == v.restarts + (IF reroot THEN 1 ELSE 0)
      inOrder == \/ i = 1
                 \/ Follows(v.seq, e.seq)
                 \/ restarts > 0 /\ e.seq = SeqWord(0)
  IN [restarts |-> restarts,
      breaks   |-> v.breaks + (IF break THEN 1 ELSE 0),
      gaps     |-> v.gaps + (IF inOrder THEN 0 ELSE 1),
      head     |-> e.curr,
      seq      |-> e.seq]

VerifyStart == [restarts |-> 0, breaks |-> 0, gaps |-> 0, head |-> Seed, seq |-> SeqWord(0)]

Walk(es) ==
  LET walk[i \in 0 .. Len(es)] ==
        IF i = 0 THEN VerifyStart ELSE VerifyStep(walk[i - 1], es[i], i)
  IN walk

Verify(f) == Walk(Entries(f))[Len(Entries(f))]

(* The verdict: some entry, and no anomaly. *)
Valid(f) ==
  LET v == Verify(f)
  IN Len(Entries(f)) > 0 /\ v.breaks = 0 /\ v.gaps = 0 /\ ~Trailing(f)

-----------------------------------------------------------------------------
(* Properties. *)

Words == {SeqWord(n) : n \in 0 .. MaxAppends}
           \cup {Seed} \cup {Hash(c, n) : c \in 1 .. MaxChains, n \in 1 .. MaxAppends}

(* Every variable has its type: the file holds only words that an append or   *)
(* the zeroes before a stale offset can have put there.                      *)
TypeOK ==
  /\ file \in Seq(Words)
  /\ up \subseteq Procs
  /\ chain \in [Procs -> 0 .. MaxChains]
  /\ seq \in [Procs -> 0 .. MaxAppends]
  /\ size \in [Procs -> Nat]
  /\ trunc \in [Procs -> BOOLEAN]
  /\ pos \in [Procs -> Nat]
  /\ bad \in [Procs -> BOOLEAN]
  /\ chains \in 0 .. MaxChains
  /\ appends \in 0 .. MaxAppends
  /\ faults \in 0 .. MaxFaults
  /\ tainted \in BOOLEAN

(* 0 where the verifier finds something else than the hash of an entry.      *)
ChainOf(e) == e.curr[2]

IsNumber(w) == w[1] = "seq"
Is(e, c, n) == <<e.seq, e.prev, e.curr>> = Entry(c, n)

(* An entry that is the first of its chain, or follows the one before it.    *)
Chained(es, i) ==
  \E c \in 1 .. MaxChains, n \in 1 .. MaxAppends :
    Is(es[i], c, n) /\ (n = 1 \/ (i > 1 /\ Is(es[i - 1], c, n - 1)))

(* One torn write never passes for an entry.  Two can, as the verifier       *)
(* computes no hash: the stump of one, completed by the stump of another,    *)
(* has a sequence number in the place of its curr_hash.                      *)
Spliced(es, i) == faults > 1 /\ \E j \in 1 .. i : IsNumber(es[j].curr)

(* The verdict "Chain verified." is sound (ops.py, verify_ledger): whatever  *)
(* processes and rotations made the file, each of its entries is then whole, *)
(* and is the first of its chain or directly follows the entry its chain has *)
(* before it, unless two torn writes were spliced.                           *)
VerifiedIsChained ==
  Valid(file) =>
    LET es == Entries(file)
    IN \A i \in 1 .. Len(es) : Chained(es, i) \/ Spliced(es, i)

(* Two processes whose entries interleave in the file are always reported as *)
(* a chain break (ops.py, _diagnose: "they interleave"), unless two torn     *)
(* writes were spliced.                                                      *)
InterleavingIsReported ==
  LET es == Entries(file)
  IN (\E i, j, k \in 1 .. Len(es) :
        /\ i < j /\ j < k
        /\ ChainOf(es[i]) = ChainOf(es[k]) /\ ChainOf(es[k]) \notin {0, ChainOf(es[j])}
        /\ ~Spliced(es, k))
     => Verify(file).breaks > 0

(* What a lone writer believes is what the file holds: its own size count,   *)
(* which decides the rotation, and the chain length and last hash it reports *)
(* as telemetry (main.cpp, telemetry_loop); the file stays under the limit.  *)
LoneWriterIsExact ==
  ~tainted =>
    /\ Len(file) <= MaxEntries * EntryWords
    /\ \A p \in up :
         /\ size[p] = Len(file)
         /\ seq[p] > 0 =>
              SubSeq(file, Len(file) - EntryWords + 1, Len(file)) = Entry(chain[p], seq[p])

(* A lone writer never rewrites an entry, although after a rotation its      *)
(* stream no longer appends: the file only grows, or starts over.            *)
AppendOnly ==
  [][ ~tainted /\ ~tainted' =>
        \/ Len(file') >= Len(file) /\ SubSeq(file', 1, Len(file)) = file
        \/ \E p \in Procs : Rotate(p) ]_file

(* The claim of the verifier's tests: a restart alone is no anomaly.         *)
RestartIsNoAnomaly == ~tainted /\ file # <<>> => Valid(file)
=============================================================================
