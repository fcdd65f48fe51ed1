-------------------------- MODULE AuditLedgerProofs --------------------------
(***************************************************************************)
(* Proofs about the audit ledger (AuditLedger), for any number of          *)
(* processes, any size at which the file is rotated, and any number of     *)
(* restarts, appends and faults.                                           *)
(*                                                                         *)
(* What the verifier says of a file rests on what can stand beside what in *)
(* it, wherever an entry begins: WordInv.  What a lone writer believes     *)
(* rests on its being alone: LoneInv.                                      *)
(***************************************************************************)
EXTENDS AuditLedger, SequenceTheorems, NaturalsInduction, WellFoundedInduction, TLAPS
-----------------------------------------------------------------------------
(* Words and entries. *)

Zero == SeqWord(0)
Ids == 1 .. MaxChains
Numbers == 1 .. MaxAppends

(* What the entry n of a chain gives as prev_hash. *)
Prev(c, n) == IF n = 1 THEN Seed ELSE Hash(c, n - 1)

(* Words are different if they are named differently; a number is no hash.   *)
LEMMA WordFacts ==
  /\ \A n, m : SeqWord(n) = SeqWord(m) => n = m
  /\ \A c, n, d, m : Hash(c, n) = Hash(d, m) => c = d /\ n = m
  /\ \A c, n : c # 0 => Hash(c, n) # Seed
  /\ \A n : IsNumber(SeqWord(n))
  /\ \A c, n : ~IsNumber(Hash(c, n))
  /\ ~IsNumber(Seed) /\ IsNumber(Zero)
BY DEF SeqWord, Hash, Seed, Word, IsNumber, Zero

(* What an entry gives as its prev_hash is a hash, and the seed only in the  *)
(* first entry of a chain.                                                   *)
LEMMA PrevFacts ==
  ASSUME NEW c \in Ids, NEW n \in Numbers
  PROVE  /\ ~IsNumber(Prev(c, n)) /\ Prev(c, n) \in Words
         /\ Hash(c, n) \in Words /\ SeqWord(n) \in Words /\ Zero \in Words
         /\ Prev(c, n) = Seed <=> n = 1
<1>1. n \in Nat /\ c \in Nat /\ n > 0 /\ c > 0 /\ c # 0 /\ n <= MaxAppends
  BY LedgerAssumption DEF Ids, Numbers
<1>2. n # 1 => n - 1 \in 1 .. MaxAppends
  BY <1>1, LedgerAssumption
<1>3. n \in 0 .. MaxAppends /\ 0 \in 0 .. MaxAppends
  BY <1>1, LedgerAssumption
<1>4. SeqWord(n) \in Words /\ Zero \in Words /\ Seed \in Words /\ Hash(c, n) \in Words
  BY <1>3 DEF Words, Zero, Ids, Numbers
<1>5. n # 1 => Hash(c, n - 1) \in Words
  BY <1>2 DEF Words, Ids
<1> QED
  BY <1>1, <1>4, <1>5, WordFacts DEF Prev

(* The three words of an entry.                                              *)
LEMMA EntryShape ==
  ASSUME NEW c, NEW n
  PROVE  /\ Len(Entry(c, n)) = 3
         /\ Entry(c, n)[1] = SeqWord(n)
         /\ Entry(c, n)[2] = Prev(c, n)
         /\ Entry(c, n)[3] = Hash(c, n)
BY DEF Entry, Prev

(* An entry is made of words.                                                *)
LEMMA EntryType ==
  ASSUME NEW c \in Ids, NEW n \in Numbers
  PROVE  Entry(c, n) \in Seq(Words)
<1>1. SeqWord(n) \in Words /\ Prev(c, n) \in Words /\ Hash(c, n) \in Words
  BY PrevFacts
<1>2. Entry(c, n) = <<SeqWord(n), Prev(c, n), Hash(c, n)>>
  BY DEF Entry, Prev
<1> QED
  BY <1>1, <1>2

(* The first k words of an entry. *)
Piece(e, c, n, k) ==
  /\ e \in Seq(Words) /\ Len(e) = k
  /\ k >= 1 => e[1] = SeqWord(n)
  /\ k >= 2 => e[2] = Prev(c, n)
  /\ k >= 3 => e[3] = Hash(c, n)

(* A whole entry is the piece of all three of its words.                     *)
LEMMA WholePiece ==
  ASSUME NEW c \in Ids, NEW n \in Numbers
  PROVE  Piece(Entry(c, n), c, n, 3)
BY EntryType, EntryShape DEF Piece

(* What a full disk leaves of an entry is the piece of its first words.      *)
LEMMA PartPiece ==
  ASSUME NEW c \in Ids, NEW n \in Numbers, NEW k \in 0 .. 2
  PROVE  Piece(SubSeq(Entry(c, n), 1, k), c, n, k)
<1> DEFINE e == Entry(c, n)
<1>1. e \in Seq(Words) /\ Len(e) = 3
  BY EntryType, EntryShape
<1>2. \A i \in 1 .. k : e[i] \in Words
  BY <1>1, ElementOfSeq
<1>3. /\ SubSeq(e, 1, k) \in Seq(Words)
      /\ Len(SubSeq(e, 1, k)) = k
      /\ \A i \in 1 .. k : SubSeq(e, 1, k)[i] = e[i]
  <2>1. 1 \in Int /\ k \in Int
    OBVIOUS
  <2>2. /\ SubSeq(e, 1, k) \in Seq(Words)
        /\ Len(SubSeq(e, 1, k)) = IF 1 <= k THEN k - 1 + 1 ELSE 0
        /\ \A i \in 1 .. k - 1 + 1 : SubSeq(e, 1, k)[i] = e[1 + i - 1]
    BY <1>2, <2>1, SubSeqProperties
  <2> HIDE DEF e
  <2> QED
    BY <2>2
<1> HIDE DEF e
<1>4. k >= 1 => SubSeq(e, 1, k)[1] = e[1]
  BY <1>3
<1>5. k >= 2 => SubSeq(e, 1, k)[2] = e[2]
  BY <1>3
<1> QED
  BY <1>3, <1>4, <1>5, EntryShape DEF Piece, e
-----------------------------------------------------------------------------
(* Writing into a file. *)

(* g is f with the words e from offset at on, and zeroes before if need be.  *)
Put(f, g, at, e) ==
  /\ Len(g) = IF at + Len(e) > Len(f) THEN at + Len(e) ELSE Len(f)
  /\ \A q \in 1 .. Len(g) :
       g[q] = IF q \in at + 1 .. at + Len(e) THEN e[q - at]
              ELSE IF q <= Len(f) THEN f[q] ELSE Zero

(* A stream opened for appending puts an entry at the end of the file.       *)
LEMMA AppendPuts ==
  ASSUME NEW f \in Seq(Words), NEW e \in Seq(Words)
  PROVE  Put(f, f \o e, Len(f), e) /\ f \o e \in Seq(Words)
<1>1. Len(f) \in Nat /\ Len(e) \in Nat
  BY LenProperties
<1>2. /\ f \o e \in Seq(Words)
      /\ Len(f \o e) = Len(f) + Len(e)
      /\ \A i \in 1 .. Len(f) + Len(e) :
           (f \o e)[i] = IF i <= Len(f) THEN f[i] ELSE e[i - Len(f)]
  BY ConcatProperties
<1> DEFINE g == f \o e
<1> HIDE DEF g
<1>3. ASSUME NEW q \in 1 .. Len(g)
      PROVE  g[q] = IF q \in Len(f) + 1 .. Len(f) + Len(e) THEN e[q - Len(f)]
                    ELSE IF q <= Len(f) THEN f[q] ELSE Zero
  BY <1>1, <1>2 DEF g
<1> QED
  BY <1>1, <1>2, <1>3 DEF Put, g

(* A stream opened with truncation puts an entry at its own offset, over     *)
(* what is there or behind zeroes.                                           *)
LEMMA OverwritePuts ==
  ASSUME NEW f \in Seq(Words), NEW e \in Seq(Words), NEW at \in Nat, Zero \in Words,
         NEW g, g = [i \in 1 .. (IF at + Len(e) > Len(f) THEN at + Len(e) ELSE Len(f)) |->
                       IF i \in at + 1 .. at + Len(e) THEN e[i - at]
                       ELSE IF i <= Len(f) THEN f[i] ELSE SeqWord(0)]
  PROVE  Put(f, g, at, e) /\ g \in Seq(Words)
<1> DEFINE n == IF at + Len(e) > Len(f) THEN at + Len(e) ELSE Len(f)
<1>1. Len(f) \in Nat /\ Len(e) \in Nat
  BY LenProperties
<1>2. n \in Nat
  BY <1>1
<1>3. \A i \in 1 .. n : g[i] = IF i \in at + 1 .. at + Len(e) THEN e[i - at]
                               ELSE IF i <= Len(f) THEN f[i] ELSE Zero
  BY DEF Zero
<1>4. DOMAIN g = 1 .. n /\ g = [i \in 1 .. n |-> g[i]]
  OBVIOUS
<1> HIDE DEF n
<1>5. ASSUME NEW i \in 1 .. n PROVE g[i] \in Words
  <2>1. CASE i \in at + 1 .. at + Len(e)
    <3>1. i - at \in 1 .. Len(e)
      BY <1>1, <2>1
    <3>2. g[i] = e[i - at]
      BY <1>3, <2>1
    <3> QED
      BY <3>1, <3>2, ElementOfSeq
  <2>2. CASE i \notin at + 1 .. at + Len(e) /\ i <= Len(f)
    <3>1. i \in 1 .. Len(f) /\ g[i] = f[i]
      BY <1>1, <1>2, <1>3, <2>2
    <3> QED
      BY <3>1, ElementOfSeq
  <2>3. CASE i \notin at + 1 .. at + Len(e) /\ ~(i <= Len(f))
    BY <1>3, <2>3
  <2> QED
    BY <2>1, <2>2, <2>3
<1>6. g \in [1 .. n -> Words]
  BY <1>4, <1>5
<1>7. g \in Seq(Words) /\ Len(g) = n
  BY <1>2, <1>6, SeqDef, LenProperties
<1> QED
  BY <1>3, <1>7 DEF Put, n
-----------------------------------------------------------------------------
(* The processes. *)

(* No two processes are in one chain, and a stream that is open with trunc   *)
(* has written an entry, and whole ones only unless it failed.               *)
WriterInv ==
  /\ \A p \in up : chain[p] \in 1 .. chains
  /\ \A p \in Procs : chain[p] <= chains /\ seq[p] <= appends
  /\ \A p, r \in Procs : chain[p] = chain[r] /\ chain[p] # 0 => p = r
  /\ \A p \in Procs : trunc[p] => seq[p] > 0 /\ (~bad[p] => pos[p] % 3 = 0)

(* The types, and no process in a chain, at the start.                       *)
LEMMA InitWriterInv == Init => TypeOK /\ WriterInv
<1> SUFFICES ASSUME Init PROVE TypeOK /\ WriterInv
  OBVIOUS
<1>1. file \in Seq(Words)
  BY EmptySeq DEF Init
<1>2. TypeOK
  <2>1. 0 \in 0 .. MaxChains /\ 0 \in 0 .. MaxAppends /\ 0 \in 0 .. MaxFaults
    BY LedgerAssumption
  <2>2. /\ chain \in [Procs -> 0 .. MaxChains] /\ seq \in [Procs -> 0 .. MaxAppends]
        /\ size \in [Procs -> Nat] /\ pos \in [Procs -> Nat]
    BY <2>1 DEF Init
  <2>3. trunc \in [Procs -> BOOLEAN] /\ bad \in [Procs -> BOOLEAN] /\ tainted \in BOOLEAN
    BY DEF Init
  <2> QED
    BY <1>1, <2>1, <2>2, <2>3 DEF Init, TypeOK
<1>3. WriterInv
  BY LedgerAssumption DEF Init, WriterInv
<1> QED
  BY <1>2, <1>3

(* A write puts its words at the end of the file, or where the stream is.    *)
LEMMA WriteFacts ==
  ASSUME TypeOK, NEW p \in Procs, NEW c \in Ids, NEW n \in Numbers, NEW k \in 0 .. 3, NEW e,
         Piece(e, c, n, k), Write(p, e)
  PROVE  /\ file' \in Seq(Words)
         /\ \/ Put(file, file', Len(file), e) /\ pos' = pos /\ (~trunc[p] \/ k = 0)
            \/ /\ trunc[p] /\ Put(file, file', pos[p], e)
               /\ pos' = [pos EXCEPT ![p] = @ + k]
<1>1. file \in Seq(Words) /\ e \in Seq(Words) /\ Len(e) = k /\ pos[p] \in Nat
  BY DEF TypeOK, Piece
<1>2. CASE ~trunc[p] \/ e = <<>>
  <2>1. file' = file \o e /\ pos' = pos
    BY <1>2 DEF Write
  <2>2. e = <<>> => k = 0
    BY <1>1, EmptySeq
  <2> QED
    BY <1>1, <1>2, <2>1, <2>2, AppendPuts
<1>3. CASE ~(~trunc[p] \/ e = <<>>)
  <2>1. /\ file' = [i \in 1 .. (IF pos[p] + Len(e) > Len(file)
                                THEN pos[p] + Len(e) ELSE Len(file)) |->
                      IF i \in pos[p] + 1 .. pos[p] + Len(e) THEN e[i - pos[p]]
                      ELSE IF i <= Len(file) THEN file[i] ELSE SeqWord(0)]
        /\ pos' = [pos EXCEPT ![p] = @ + Len(e)]
    BY <1>3 DEF Write
  <2>2. Zero \in Words
    BY PrevFacts
  <2>3. Put(file, file', pos[p], e) /\ file' \in Seq(Words)
    BY <1>1, <2>1, <2>2, OverwritePuts
  <2> QED
    BY <1>1, <1>3, <2>1, <2>3
<1> QED
  BY <1>2, <1>3

(* What a process that appends has to write. *)
LEMMA NextEntry ==
  ASSUME TypeOK, WriterInv, NEW p \in up, appends < MaxAppends
  PROVE  /\ p \in Procs /\ chain[p] \in Ids /\ seq[p] + 1 \in Numbers /\ seq[p] \in Nat
         /\ seq[p] + 1 <= appends + 1
<1>1. p \in Procs
  BY DEF TypeOK
<1>2. chain[p] \in 1 .. chains /\ chains \in 0 .. MaxChains /\ seq[p] <= appends
  BY <1>1 DEF TypeOK, WriterInv
<1>3. seq[p] \in 0 .. MaxAppends /\ appends \in 0 .. MaxAppends
  BY <1>1 DEF TypeOK
<1> QED
  BY <1>1, <1>2, <1>3, LedgerAssumption DEF Ids, Numbers

(* p puts the first k words of its next entry at an offset: at the end of    *)
(* the file, or where a stream that no longer appends has come to.           *)
Puts(p, at, k) ==
  /\ p \in up /\ ~bad[p]
  /\ at \in Nat /\ k \in 0 .. 3
  /\ chain[p] \in Ids /\ seq[p] + 1 \in Numbers
  /\ \E e : Piece(e, chain[p], seq[p] + 1, k) /\ Put(file, file', at, e)
  /\ file' \in Seq(Words)
  /\ at = Len(file) \/ (trunc[p] /\ at = pos[p])
  /\ \/ at = Len(file) /\ pos' = pos /\ (~trunc[p] \/ k = 0)
     \/ trunc[p] /\ at = pos[p] /\ pos' = [pos EXCEPT ![p] = @ + k]
  /\ \/ k = 3 /\ bad' = bad /\ faults' = faults
     \/ /\ k < 3 /\ at + k >= Len(file)
        /\ bad' = [bad EXCEPT ![p] = TRUE] /\ faults' = faults + 1

(* An append writes one whole entry, at the end or at an offset where        *)
(* entries begin.                                                            *)
LEMMA AppendEventPuts ==
  ASSUME TypeOK, WriterInv, NEW p \in Procs, AppendEvent(p), ~bad[p]
  PROVE  \E at \in Nat : Puts(p, at, 3)
<1> DEFINE c == chain[p]
           n == seq[p] + 1
<1>1. p \in up /\ appends < MaxAppends /\ bad' = bad /\ faults' = faults
  BY DEF AppendEvent, CountEntry
<1>2. c \in Ids /\ n \in Numbers
  BY <1>1, NextEntry
<1>3. Write(p, Entry(c, n))
  BY DEF AppendEvent
<1>4. Piece(Entry(c, n), c, n, 3)
  BY <1>2, WholePiece
<1>5. file \in Seq(Words) /\ pos[p] \in Nat /\ faults \in Nat
  BY <1>1, LedgerAssumption DEF TypeOK
<1>6. Len(file) \in Nat
  BY <1>5, LenProperties
<1>7. 3 \in 0 .. 3
  OBVIOUS
<1> HIDE DEF c, n
<1>8. /\ file' \in Seq(Words)
      /\ \/ Put(file, file', Len(file), Entry(c, n)) /\ pos' = pos /\ (~trunc[p] \/ 3 = 0)
         \/ trunc[p] /\ Put(file, file', pos[p], Entry(c, n)) /\ pos' = [pos EXCEPT ![p] = @ + 3]
  BY <1>2, <1>3, <1>4, <1>7, WriteFacts
<1>9. CASE Put(file, file', Len(file), Entry(c, n)) /\ pos' = pos /\ (~trunc[p] \/ 3 = 0)
  <2>1. \E e : Piece(e, chain[p], seq[p] + 1, 3) /\ Put(file, file', Len(file), e)
    BY <1>4, <1>9 DEF c, n
  <2>2. Puts(p, Len(file), 3)
    BY <1>1, <1>2, <1>5, <1>6, <1>7, <1>8, <1>9, <2>1 DEF Puts, c, n
  <2> QED
    BY <1>6, <2>2
<1>10. CASE trunc[p] /\ Put(file, file', pos[p], Entry(c, n)) /\ pos' = [pos EXCEPT ![p] = @ + 3]
  <2>1. \E e : Piece(e, chain[p], seq[p] + 1, 3) /\ Put(file, file', pos[p], e)
    BY <1>4, <1>10 DEF c, n
  <2>2. Puts(p, pos[p], 3)
    BY <1>1, <1>2, <1>5, <1>7, <1>8, <1>10, <2>1 DEF Puts, c, n
  <2> QED
    BY <1>5, <2>2
<1> QED
  BY <1>8, <1>9, <1>10

(* A full disk leaves less than an entry at that place.                      *)
LEMMA AppendDiskFullPuts ==
  ASSUME TypeOK, WriterInv, NEW p \in Procs, AppendDiskFull(p)
  PROVE  \E at \in Nat, k \in 0 .. 2 : Puts(p, at, k)
<1> DEFINE c == chain[p]
           n == seq[p] + 1
<1>1. p \in up /\ appends < MaxAppends /\ ~bad[p] /\ faults' = faults + 1
  BY DEF AppendDiskFull, CountEntry
<1>2. c \in Ids /\ n \in Numbers
  BY <1>1, NextEntry
<1>3. PICK k \in 0 .. EntryWords - 1 :
        (trunc[p] => pos[p] + k >= Len(file)) /\ Write(p, SubSeq(Entry(c, n), 1, k))
  BY DEF AppendDiskFull
<1>4. k \in 0 .. 2 /\ k \in 0 .. 3 /\ k < 3
  BY DEF EntryWords
<1> DEFINE e == SubSeq(Entry(c, n), 1, k)
<1>5. Piece(e, c, n, k)
  BY <1>2, <1>4, PartPiece
<1>6. /\ file \in Seq(Words) /\ pos[p] \in Nat /\ faults \in Nat
      /\ bad' = [bad EXCEPT ![p] = TRUE]
  BY LedgerAssumption DEF TypeOK, AppendDiskFull
<1>7. Len(file) \in Nat /\ Len(file) + k >= Len(file)
  BY <1>4, <1>6, LenProperties
<1> HIDE DEF c, n, e
<1>8. /\ file' \in Seq(Words)
      /\ \/ Put(file, file', Len(file), e) /\ pos' = pos /\ (~trunc[p] \/ k = 0)
         \/ trunc[p] /\ Put(file, file', pos[p], e) /\ pos' = [pos EXCEPT ![p] = @ + k]
  <2>1. Write(p, e)
    BY <1>3 DEF e
  <2> QED
    BY <1>2, <1>4, <1>5, <2>1, WriteFacts
<1>9. CASE Put(file, file', Len(file), e) /\ pos' = pos /\ (~trunc[p] \/ k = 0)
  <2>1. Puts(p, Len(file), k)
    BY <1>1, <1>2, <1>4, <1>5, <1>6, <1>7, <1>8, <1>9 DEF Puts, c, n
  <2> QED
    BY <1>4, <1>7, <2>1
<1>10. CASE trunc[p] /\ Put(file, file', pos[p], e) /\ pos' = [pos EXCEPT ![p] = @ + k]
  <2>1. Puts(p, pos[p], k)
    BY <1>1, <1>2, <1>3, <1>4, <1>5, <1>6, <1>8, <1>10 DEF Puts, c, n
  <2> QED
    BY <1>4, <1>6, <2>1
<1> QED
  BY <1>8, <1>9, <1>10

(* A process that starts has a chain of its own.                             *)
LEMMA StartWriterInv ==
  ASSUME TypeOK, WriterInv, NEW p \in Procs, Start(p)
  PROVE  TypeOK' /\ WriterInv'
<1>1. /\ chains \in 0 .. MaxChains /\ chains + 1 \in 0 .. MaxChains /\ chains \in Nat
      /\ chain \in [Procs -> 0 .. MaxChains] /\ seq \in [Procs -> 0 .. MaxAppends]
      /\ appends \in 0 .. MaxAppends /\ 0 \in 0 .. MaxAppends /\ file \in Seq(Words)
  BY LedgerAssumption DEF TypeOK, Start
<1>2. chain' \in [Procs -> 0 .. MaxChains] /\ seq' \in [Procs -> 0 .. MaxAppends]
  BY <1>1 DEF Start
<1>3. Len(file) \in Nat
  BY <1>1, LenProperties
<1>4. size' \in [Procs -> Nat] /\ pos' \in [Procs -> Nat]
  BY <1>3 DEF Start, TypeOK
<1>5. trunc' \in [Procs -> BOOLEAN] /\ bad' \in [Procs -> BOOLEAN] /\ tainted' \in BOOLEAN
  BY DEF Start, TypeOK
<1>6. TypeOK'
  BY <1>1, <1>2, <1>4, <1>5 DEF Start, TypeOK
<1>7. /\ \A r \in Procs : chain'[r] = IF r = p THEN chains + 1 ELSE chain[r]
      /\ \A r \in Procs : seq'[r] = IF r = p THEN 0 ELSE seq[r]
      /\ \A r \in Procs : trunc'[r] = IF r = p THEN FALSE ELSE trunc[r]
      /\ \A r \in Procs : r # p => pos'[r] = pos[r] /\ bad'[r] = bad[r]
  BY DEF Start, TypeOK
<1>13. \A r \in Procs : /\ chain[r] \in Nat /\ chain[r] <= chains
                        /\ seq[r] \in Nat /\ seq[r] <= appends
  BY LedgerAssumption DEF TypeOK, WriterInv
<1>8. up' = up \cup {p} /\ chains' = chains + 1 /\ appends' = appends /\ up \subseteq Procs
  BY DEF Start, TypeOK
<1>9. \A r \in up' : chain'[r] \in 1 .. chains'
  <2> SUFFICES ASSUME NEW r \in up' PROVE chain'[r] \in 1 .. chains'
    OBVIOUS
  <2>1. CASE r = p
    BY <1>1, <1>7, <1>8, <2>1
  <2>2. CASE r # p
    <3>1. r \in up /\ r \in Procs /\ chain'[r] = chain[r]
      BY <1>7, <1>8, <2>2
    <3>2. chain[r] \in 1 .. chains
      BY <3>1 DEF WriterInv
    <3> QED
      BY <1>1, <1>8, <3>1, <3>2
  <2> QED
    BY <2>1, <2>2
<1>10. \A r \in Procs : chain'[r] <= chains' /\ seq'[r] <= appends'
  BY <1>1, <1>7, <1>8, <1>13, LedgerAssumption
<1>11. \A r, t \in Procs : chain'[r] = chain'[t] /\ chain'[r] # 0 => r = t
  BY <1>1, <1>7, <1>13 DEF WriterInv
<1>12. \A r \in Procs : trunc'[r] => seq'[r] > 0 /\ (~bad'[r] => pos'[r] % 3 = 0)
  BY <1>7 DEF WriterInv
<1> QED
  BY <1>6, <1>9, <1>10, <1>11, <1>12 DEF WriterInv

(* An append, whatever becomes of its words. *)
LEMMA CountWriterInv ==
  ASSUME TypeOK, WriterInv, NEW p \in Procs, CountEntry(p),
         file' \in Seq(Words), faults' \in 0 .. MaxFaults, tainted' \in BOOLEAN,
         bad' \in [Procs -> BOOLEAN], pos' \in [Procs -> Nat],
         \A r \in Procs : r # p => pos'[r] = pos[r] /\ bad'[r] = bad[r],
         trunc[p] /\ ~bad'[p] => pos'[p] % 3 = 0
  PROVE  TypeOK' /\ WriterInv'
<1>1. /\ p \in up /\ seq[p] + 1 \in Numbers /\ seq[p] \in Nat /\ seq[p] + 1 <= appends + 1
      /\ appends < MaxAppends /\ appends \in 0 .. MaxAppends
  BY NextEntry DEF CountEntry, TypeOK
<1>2. appends' \in 0 .. MaxAppends /\ seq[p] + 1 \in 0 .. MaxAppends
  BY <1>1, LedgerAssumption DEF CountEntry, Numbers
<1>3. seq' \in [Procs -> 0 .. MaxAppends]
  BY <1>2 DEF CountEntry, TypeOK
<1>4. size' \in [Procs -> Nat]
  BY DEF CountEntry, TypeOK, EntryWords
<1>5. TypeOK'
  BY <1>2, <1>3, <1>4 DEF CountEntry, TypeOK
<1>6. /\ up' = up /\ chain' = chain /\ trunc' = trunc /\ chains' = chains /\ appends' = appends + 1
      /\ \A r \in Procs : /\ seq'[r] = IF r = p THEN seq[p] + 1 ELSE seq[r]
                          /\ seq[r] <= appends /\ seq[r] \in Nat
  BY DEF CountEntry, TypeOK, WriterInv
<1>7. \A r \in Procs : seq'[r] <= appends'
  BY <1>1, <1>6
<1>8. \A r \in Procs : trunc'[r] => seq'[r] > 0 /\ (~bad'[r] => pos'[r] % 3 = 0)
  BY <1>1, <1>6 DEF WriterInv
<1>9. /\ \A r \in up' : chain'[r] \in 1 .. chains'
      /\ \A r \in Procs : chain'[r] <= chains'
      /\ \A r, t \in Procs : chain'[r] = chain'[t] /\ chain'[r] # 0 => r = t
  BY <1>6 DEF WriterInv
<1> QED
  BY <1>5, <1>7, <1>8, <1>9 DEF WriterInv

(* An append stays in its chain, whether the disk was full or not.           *)
LEMMA AppendWriterInv ==
  ASSUME TypeOK, WriterInv, NEW p \in Procs, AppendEvent(p) \/ AppendDiskFull(p)
  PROVE  TypeOK' /\ WriterInv'
<1>1. CountEntry(p)
  BY DEF AppendEvent, AppendDiskFull
<1>2. /\ file \in Seq(Words) /\ pos \in [Procs -> Nat] /\ bad \in [Procs -> BOOLEAN]
      /\ faults \in 0 .. MaxFaults /\ tainted \in BOOLEAN
  BY DEF TypeOK
<1>3. ASSUME NEW at \in Nat, NEW k \in 0 .. 3, Puts(p, at, k),
             faults' \in 0 .. MaxFaults, tainted' \in BOOLEAN
      PROVE  TypeOK' /\ WriterInv'
  <2>1. file' \in Seq(Words)
    BY <1>3 DEF Puts
  <2>2. bad' \in [Procs -> BOOLEAN] /\ pos' \in [Procs -> Nat]
    <3>1. bad' \in [Procs -> BOOLEAN]
      BY <1>2, <1>3 DEF Puts
    <3>2. k \in Nat /\ pos[p] + k \in Nat
      BY <1>2
    <3>3. pos' = pos \/ pos' = [pos EXCEPT ![p] = pos[p] + k]
      BY <1>3 DEF Puts
    <3> QED
      BY <1>2, <3>1, <3>2, <3>3
  <2>3. \A r \in Procs : r # p => pos'[r] = pos[r] /\ bad'[r] = bad[r]
    BY <1>2, <1>3 DEF Puts
  <2>4. trunc[p] /\ ~bad'[p] => pos'[p] % 3 = 0
    <3> SUFFICES ASSUME trunc[p], ~bad'[p] PROVE pos'[p] % 3 = 0
      OBVIOUS
    <3>1. k = 3 /\ ~bad[p]
      BY <1>2, <1>3 DEF Puts
    <3>2. pos[p] % 3 = 0 /\ pos[p] \in Nat
      BY <1>2, <3>1 DEF WriterInv
    <3>3. pos'[p] = pos[p] + 3
      BY <1>2, <1>3, <3>1 DEF Puts
    <3> QED
      BY <3>2, <3>3
  <2> QED
    BY <1>1, <1>3, <2>1, <2>2, <2>3, <2>4, CountWriterInv
<1>4. CASE AppendEvent(p) /\ bad[p]
  <2>1. file' = file /\ pos' = pos /\ bad' = bad /\ faults' = faults /\ tainted' = tainted
    BY <1>4 DEF AppendEvent
  <2> QED
    BY <1>1, <1>2, <1>4, <2>1, CountWriterInv
<1>5. CASE AppendEvent(p) /\ ~bad[p]
  <2>1. faults' = faults /\ tainted' = tainted
    BY <1>5 DEF AppendEvent
  <2>2. PICK at \in Nat : Puts(p, at, 3)
    BY <1>5, AppendEventPuts
  <2> QED
    BY <1>2, <1>3, <2>1, <2>2
<1>6. CASE AppendDiskFull(p)
  <2>1. faults' \in 0 .. MaxFaults /\ tainted' \in BOOLEAN
    BY <1>2, <1>6, LedgerAssumption DEF AppendDiskFull
  <2>2. PICK at \in Nat, k \in 0 .. 2 : Puts(p, at, k)
    BY <1>6, AppendDiskFullPuts
  <2> QED
    BY <1>3, <2>1, <2>2
<1> QED
  BY <1>4, <1>5, <1>6

(* What a rotation leaves: one entry, the first of a new chain, for the      *)
(* process that rotated.                                                     *)
LEMMA RotateFacts ==
  ASSUME TypeOK, WriterInv, NEW p \in Procs, Rotate(p)
  PROVE  /\ p \in up /\ chains + 1 \in Ids /\ 1 \in Numbers
         /\ file' = Entry(chains + 1, 1) /\ Piece(file', chains + 1, 1, 3)
         /\ chains' = chains + 1 /\ up' = up /\ faults' = faults /\ appends' = appends + 1
         /\ tainted' = (tainted /\ up # {p})
         /\ \A r \in Procs : /\ chain'[r] = IF r = p THEN chains + 1 ELSE chain[r]
                             /\ seq'[r] = IF r = p THEN 1 ELSE seq[r]
                             /\ size'[r] = IF r = p THEN 3 ELSE size[r]
                             /\ pos'[r] = IF r = p THEN 3 ELSE pos[r]
                             /\ trunc'[r] = IF r = p THEN TRUE ELSE trunc[r]
                             /\ bad'[r] = IF r = p THEN FALSE ELSE bad[r]
<1>1. p \in up /\ appends < MaxAppends /\ chains < MaxChains
  BY DEF Rotate, RotateInto
<1>2. chains + 1 \in Ids /\ 1 \in Numbers
  BY <1>1, LedgerAssumption DEF TypeOK, Ids, Numbers
<1>3. /\ chain' = [chain EXCEPT ![p] = chains + 1] /\ seq' = [seq EXCEPT ![p] = 1]
      /\ size' = [size EXCEPT ![p] = 3] /\ pos' = [pos EXCEPT ![p] = 3]
      /\ trunc' = [trunc EXCEPT ![p] = TRUE] /\ bad' = [bad EXCEPT ![p] = FALSE]
      /\ file' = Entry(chains + 1, 1) /\ chains' = chains + 1 /\ up' = up /\ faults' = faults
      /\ appends' = appends + 1 /\ tainted' = (tainted /\ up # {p})
  BY DEF Rotate, RotateInto, EntryWords
<1>4. Piece(file', chains + 1, 1, 3)
  BY <1>2, <1>3, WholePiece
<1> QED
  BY <1>1, <1>2, <1>3, <1>4 DEF TypeOK

(* A rotation begins a chain that no other process is in.                    *)
LEMMA RotateWriterInv ==
  ASSUME TypeOK, WriterInv, NEW p \in Procs, Rotate(p)
  PROVE  TypeOK' /\ WriterInv'
<1>1. /\ chains \in 0 .. MaxChains /\ chains + 1 \in 0 .. MaxChains /\ chains \in Nat
      /\ appends \in 0 .. MaxAppends /\ appends + 1 \in 0 .. MaxAppends /\ appends \in Nat
      /\ 1 \in 0 .. MaxAppends
  BY LedgerAssumption DEF TypeOK, Rotate, RotateInto
<1>2. /\ chain' = [chain EXCEPT ![p] = chains + 1] /\ seq' = [seq EXCEPT ![p] = 1]
      /\ size' = [size EXCEPT ![p] = 3] /\ pos' = [pos EXCEPT ![p] = 3]
      /\ trunc' = [trunc EXCEPT ![p] = TRUE] /\ bad' = [bad EXCEPT ![p] = FALSE]
  BY DEF Rotate, RotateInto, EntryWords
<1>3. /\ chain' \in [Procs -> 0 .. MaxChains] /\ seq' \in [Procs -> 0 .. MaxAppends]
      /\ size' \in [Procs -> Nat] /\ pos' \in [Procs -> Nat]
      /\ trunc' \in [Procs -> BOOLEAN] /\ bad' \in [Procs -> BOOLEAN]
  BY <1>1, <1>2 DEF TypeOK
<1>4. file' \in Seq(Words) /\ tainted' \in BOOLEAN
  BY RotateFacts DEF Piece
<1>5. TypeOK'
  BY <1>1, <1>3, <1>4, RotateFacts DEF TypeOK
<1>6. \A r \in Procs : /\ chain'[r] = IF r = p THEN chains + 1 ELSE chain[r]
                       /\ seq'[r] = IF r = p THEN 1 ELSE seq[r]
                       /\ pos'[r] = IF r = p THEN 3 ELSE pos[r]
                       /\ r # p => trunc'[r] = trunc[r] /\ bad'[r] = bad[r]
  BY RotateFacts
<1>12. \A r \in Procs : /\ chain[r] \in Nat /\ chain[r] <= chains
                        /\ seq[r] \in Nat /\ seq[r] <= appends
  BY LedgerAssumption DEF TypeOK, WriterInv
<1>7. up' = up /\ chains' = chains + 1 /\ appends' = appends + 1 /\ up \subseteq Procs
  BY RotateFacts DEF TypeOK
<1>8. \A r \in up' : chain'[r] \in 1 .. chains'
  BY <1>1, <1>6, <1>7 DEF WriterInv
<1>9. \A r \in Procs : chain'[r] <= chains' /\ seq'[r] <= appends'
  BY <1>1, <1>6, <1>7, <1>12
<1>10. \A r, t \in Procs : chain'[r] = chain'[t] /\ chain'[r] # 0 => r = t
  BY <1>1, <1>6, <1>12 DEF WriterInv
<1>11. \A r \in Procs : trunc'[r] => seq'[r] > 0 /\ (~bad'[r] => pos'[r] % 3 = 0)
  BY <1>6 DEF WriterInv
<1> QED
  BY <1>5, <1>8, <1>9, <1>10, <1>11 DEF WriterInv

(* What survives a loss of power. *)
LEMMA PowerLossFacts ==
  ASSUME TypeOK, PowerLoss
  PROVE  /\ file' \in Seq(Words) /\ Len(file') \in 0 .. Len(file)
         /\ \A q \in 1 .. Len(file') : file'[q] = file[q]
         /\ up' = {} /\ faults' = faults + 1 /\ tainted' = TRUE
         /\ UNCHANGED <<procVars, chains, appends>>
<1>1. file \in Seq(Words)
  BY DEF TypeOK
<1>2. PICK k \in 0 .. Len(file) : file' = SubSeq(file, 1, k)
  BY DEF PowerLoss
<1>3. Len(file) \in Nat /\ k \in Nat /\ k \in Int /\ k <= Len(file) /\ 1 \in Int
  BY <1>1, LenProperties
<1>4. \A i \in 1 .. k : file[i] \in Words
  BY <1>1, <1>3, ElementOfSeq
<1>5. /\ SubSeq(file, 1, k) \in Seq(Words)
      /\ Len(SubSeq(file, 1, k)) = IF 1 <= k THEN k - 1 + 1 ELSE 0
      /\ \A i \in 1 .. k - 1 + 1 : SubSeq(file, 1, k)[i] = file[1 + i - 1]
  BY <1>3, <1>4, SubSeqProperties
<1>6. Len(file') = k /\ file' \in Seq(Words) /\ \A q \in 1 .. k : file'[q] = file[q]
  BY <1>2, <1>3, <1>5
<1> QED
  BY <1>3, <1>6 DEF PowerLoss

(* Every step keeps the types and the chains apart.                          *)
LEMMA StepWriterInv == TypeOK /\ WriterInv /\ [Next]_vars => TypeOK' /\ WriterInv'
<1> SUFFICES ASSUME TypeOK, WriterInv, [Next]_vars PROVE TypeOK' /\ WriterInv'
  OBVIOUS
<1>1. ASSUME NEW p \in Procs, Start(p) PROVE TypeOK' /\ WriterInv'
  BY <1>1, StartWriterInv
<1>2. ASSUME NEW p \in Procs, Stop(p) PROVE TypeOK' /\ WriterInv'
  BY <1>2 DEF Stop, TypeOK, WriterInv, procVars
<1>3. ASSUME NEW p \in Procs, AppendEvent(p) \/ AppendDiskFull(p) PROVE TypeOK' /\ WriterInv'
  BY <1>3, AppendWriterInv
<1>4. ASSUME NEW p \in Procs, Rotate(p) PROVE TypeOK' /\ WriterInv'
  BY <1>4, RotateWriterInv
<1>5. CASE PowerLoss
  <2>1. faults' \in 0 .. MaxFaults
    BY <1>5, LedgerAssumption DEF PowerLoss, TypeOK
  <2> QED
    BY <1>5, <2>1, PowerLossFacts DEF TypeOK, WriterInv, procVars
<1>6. CASE UNCHANGED vars
  BY <1>6 DEF vars, procVars, TypeOK, WriterInv
<1> QED
  BY <1>1, <1>2, <1>3, <1>4, <1>5, <1>6 DEF Next
-----------------------------------------------------------------------------
(* What can stand beside what. *)

(* v is the word after u in an entry. *)
Proper(u, v) ==
  \E c \in Ids, n \in Numbers :
    \/ u = SeqWord(n) /\ v = Prev(c, n)
    \/ u = Prev(c, n) /\ v = Hash(c, n)

(* Each word is a number, or stands where the verifier begins an entry, or   *)
(* is preceded by what precedes it in its own entry.                         *)
WordsFollow(f) ==
  \A q \in 1 .. Len(f) :
    IsNumber(f[q]) \/ q % 3 = 1 \/ (q > 1 /\ Proper(f[q - 1], f[q]))

(* A write, even a torn one, leaves every word behind what it follows.       *)
LEMMA PutWords ==
  ASSUME NEW f \in Seq(Words), NEW g \in Seq(Words), NEW c \in Ids, NEW n \in Numbers,
         NEW k \in 0 .. 3, NEW at \in Nat, NEW e,
         WordsFollow(f), Piece(e, c, n, k), Put(f, g, at, e),
         at = Len(f) \/ at % 3 = 0, k < 3 => at + k >= Len(f)
  PROVE  WordsFollow(g)
<1>1. Len(f) \in Nat /\ Len(e) = k /\ Len(g) \in Nat
  BY LenProperties DEF Piece
<1>2. Len(g) = IF at + k > Len(f) THEN at + k ELSE Len(f)
  BY <1>1 DEF Put
<1>3. \A q \in 1 .. Len(g) :
        g[q] = IF q \in at + 1 .. at + k THEN e[q - at]
               ELSE IF q <= Len(f) THEN f[q] ELSE Zero
  BY <1>1 DEF Put
<1> SUFFICES ASSUME NEW q \in 1 .. Len(g)
             PROVE  IsNumber(g[q]) \/ q % 3 = 1 \/ (q > 1 /\ Proper(g[q - 1], g[q]))
  BY DEF WordsFollow
<1>4. ASSUME q <= Len(f), g[q] = f[q], q > 1 => g[q - 1] = f[q - 1]
      PROVE  IsNumber(g[q]) \/ q % 3 = 1 \/ (q > 1 /\ Proper(g[q - 1], g[q]))
  <2>1. q \in 1 .. Len(f)
    BY <1>1, <1>4
  <2>2. IsNumber(f[q]) \/ q % 3 = 1 \/ (q > 1 /\ Proper(f[q - 1], f[q]))
    BY <2>1 DEF WordsFollow
  <2> QED
    BY <1>4, <2>2, Zenon
<1>5. CASE q <= at /\ q <= Len(f)
  <2>1. g[q] = f[q]
    BY <1>1, <1>3, <1>5
  <2>2. q > 1 => g[q - 1] = f[q - 1]
    BY <1>1, <1>3, <1>5
  <2> QED
    BY <1>4, <1>5, <2>1, <2>2
<1>6. CASE q <= at /\ ~(q <= Len(f))
  <2>1. g[q] = Zero
    BY <1>1, <1>3, <1>6
  <2> QED
    BY <2>1, WordFacts
<1>7. CASE q \in at + 1 .. at + k
  <2>1. g[q] = e[q - at]
    BY <1>1, <1>3, <1>7
  <2>5. q - 1 > at => g[q - 1] = e[(q - 1) - at]
    <3> SUFFICES ASSUME q - 1 > at PROVE g[q - 1] = e[(q - 1) - at]
      OBVIOUS
    <3>1. q - 1 \in 1 .. Len(g) /\ q - 1 \in at + 1 .. at + k
      BY <1>1, <1>7
    <3> QED
      BY <1>3, <3>1
  <2>2. CASE q = at + 1
    <3>1. g[q] = SeqWord(n)
      BY <1>7, <2>1, <2>2 DEF Piece
    <3> QED
      BY <3>1, WordFacts
  <2>3. CASE q = at + 2
    <3>1. g[q] = Prev(c, n) /\ g[q - 1] = SeqWord(n) /\ q > 1
      BY <1>7, <2>1, <2>3, <2>5 DEF Piece
    <3> QED
      BY <3>1 DEF Proper
  <2>4. CASE q = at + 3
    <3>1. g[q] = Hash(c, n) /\ g[q - 1] = Prev(c, n) /\ q > 1
      BY <1>7, <2>1, <2>4, <2>5 DEF Piece
    <3> QED
      BY <3>1 DEF Proper
  <2> QED
    BY <1>7, <2>2, <2>3, <2>4
<1>8. CASE q > at + k
  <2>1. q <= Len(f) /\ k = 3 /\ at % 3 = 0
    BY <1>1, <1>2, <1>8
  <2>2. CASE q = at + 4
    BY <2>1, <2>2
  <2>3. CASE q > at + 4
    <3>1. g[q] = f[q]
      BY <1>1, <1>3, <2>1, <2>3
    <3>2. g[q - 1] = f[q - 1]
      BY <1>1, <1>3, <2>1, <2>3
    <3> QED
      BY <1>4, <2>1, <3>1, <3>2
  <2> QED
    BY <1>8, <2>1, <2>2, <2>3
<1> QED
  BY <1>1, <1>5, <1>6, <1>7, <1>8

(* An entry by itself, as a rotation leaves it. *)
LEMMA EntryWordsFollow ==
  ASSUME NEW f, NEW c \in Ids, NEW n \in Numbers, Piece(f, c, n, 3)
  PROVE  WordsFollow(f)
<1>1. /\ f[1] = SeqWord(n) /\ f[2] = Prev(c, n) /\ f[3] = Hash(c, n) /\ Len(f) = 3
  BY DEF Piece
<1>2. \A q \in 1 .. 3 : q = 1 \/ q = 2 \/ q = 3
  OBVIOUS
<1>3. IsNumber(f[1]) /\ Proper(f[1], f[2]) /\ Proper(f[2], f[3])
  BY <1>1, WordFacts DEF Proper
<1> QED
  BY <1>1, <1>2, <1>3 DEF WordsFollow

WordInv == WordsFollow(file)

(* The cases in which a step changes the file. *)
LEMMA FileSteps ==
  ASSUME TypeOK, WriterInv, [Next]_vars
  PROVE  \/ file' = file
         \/ \E p \in Procs, at \in Nat, k \in 0 .. 3 :
              (AppendEvent(p) \/ AppendDiskFull(p)) /\ Puts(p, at, k)
         \/ \E p \in Procs : Rotate(p)
         \/ PowerLoss
<1>1. ASSUME NEW p \in Procs, AppendEvent(p)
      PROVE  file' = file \/ \E at \in Nat : Puts(p, at, 3)
  <2>1. bad[p] => file' = file
    BY <1>1 DEF AppendEvent
  <2> QED
    BY <1>1, <2>1, AppendEventPuts
<1>2. ASSUME NEW p \in Procs, AppendDiskFull(p)
      PROVE  \E at \in Nat, k \in 0 .. 3 : Puts(p, at, k)
  <2>1. PICK at \in Nat, k \in 0 .. 2 : Puts(p, at, k)
    BY <1>2, AppendDiskFullPuts
  <2>2. k \in 0 .. 3
    OBVIOUS
  <2> QED
    BY <2>1, <2>2
<1>3. 3 \in 0 .. 3
  OBVIOUS
<1>4. ASSUME NEW p \in Procs, Start(p) \/ Stop(p) PROVE file' = file
  BY <1>4 DEF Start, Stop
<1>5. UNCHANGED vars => file' = file
  BY DEF vars
<1> QED
  BY <1>1, <1>2, <1>3, <1>4, <1>5, Zenon DEF Next

(* Every step leaves every word behind what it follows; a loss of power      *)
(* shortens the file only.                                                   *)
LEMMA StepWordInv == TypeOK /\ WriterInv /\ WordInv /\ [Next]_vars => WordInv'
<1> SUFFICES ASSUME TypeOK, WriterInv, WordInv, [Next]_vars PROVE WordInv'
  OBVIOUS
<1>1. file \in Seq(Words)
  BY DEF TypeOK
<1>2. CASE file' = file
  BY <1>2 DEF WordInv
<1>3. ASSUME NEW p \in Procs, NEW at \in Nat, NEW k \in 0 .. 3, Puts(p, at, k) PROVE WordInv'
  <2>1. PICK e : Piece(e, chain[p], seq[p] + 1, k) /\ Put(file, file', at, e)
    BY <1>3 DEF Puts
  <2>2. /\ chain[p] \in Ids /\ seq[p] + 1 \in Numbers /\ file' \in Seq(Words) /\ ~bad[p]
        /\ at = Len(file) \/ (trunc[p] /\ at = pos[p])
        /\ k < 3 => at + k >= Len(file)
    BY <1>3 DEF Puts
  <2>3. at = Len(file) \/ at % 3 = 0
    BY <2>2 DEF WriterInv
  <2> QED
    BY <1>1, <2>1, <2>2, <2>3, PutWords DEF WordInv
<1>4. ASSUME NEW p \in Procs, Rotate(p) PROVE WordInv'
  BY <1>4, RotateFacts, EntryWordsFollow DEF WordInv
<1>5. CASE PowerLoss
  <2>1. /\ Len(file') \in 0 .. Len(file) /\ Len(file) \in Nat
        /\ \A q \in 1 .. Len(file') : file'[q] = file[q]
    BY <1>1, <1>5, PowerLossFacts, LenProperties
  <2>2. ASSUME NEW q \in 1 .. Len(file')
        PROVE  IsNumber(file'[q]) \/ q % 3 = 1 \/ (q > 1 /\ Proper(file'[q - 1], file'[q]))
    <3>1. q \in 1 .. Len(file) /\ file'[q] = file[q] /\ (q > 1 => file'[q - 1] = file[q - 1])
      BY <2>1
    <3>2. IsNumber(file[q]) \/ q % 3 = 1 \/ (q > 1 /\ Proper(file[q - 1], file[q]))
      BY <3>1 DEF WordInv, WordsFollow
    <3> QED
      BY <3>1, <3>2, Zenon
  <2> QED
    BY <2>2 DEF WordInv, WordsFollow
<1> QED
  BY <1>2, <1>3, <1>4, <1>5, FileSteps
-----------------------------------------------------------------------------
(* What one torn write leaves behind. *)

(* Up to T, a number where the verifier looks for a curr_hash is a zero, and *)
(* so is what stands for the prev_hash.                                      *)
OnlyZeros(f, T) ==
  \A q \in 1 .. Len(f) :
    q <= T /\ q % 3 = 0 /\ IsNumber(f[q]) => f[q] = Zero /\ f[q - 1] = Zero

(* No write was torn, or in a place where this does no harm. *)
Aligned(f) == Len(f) % 3 # 2 /\ OnlyZeros(f, Len(f))

(* After the tear at T, nothing but a zero is a number where the verifier    *)
(* looks for a prev_hash; zeroes reach to the beginning of an entry that is  *)
(* not the first of its chain; and the file ends with a hash.                *)
ZerosGoOn(f, q) ==
  f[q] = Zero => q < Len(f) /\ (f[q + 1] = Zero \/ (q % 3 = 0 /\ f[q + 1] # SeqWord(1)))

Torn(f, T) ==
  /\ T % 3 = 2 /\ T <= Len(f) /\ Len(f) % 3 # 1
  /\ OnlyZeros(f, T)
  /\ \A q \in T + 1 .. Len(f) : (q % 3 = 2 /\ IsNumber(f[q]) => f[q] = Zero) /\ ZerosGoOn(f, q)
  /\ Len(f) > T => ~IsNumber(f[Len(f)])

TearInv ==
  /\ faults = 0 => Aligned(file) /\ Len(file) % 3 = 0
  /\ faults <= 1 => Aligned(file) \/ \E T \in Nat : Torn(file, T)

(* In a file without a harmful tear a write leaves no number but zeroes in   *)
(* the place of a hash.                                                      *)
LEMMA PutZeros ==
  ASSUME NEW f \in Seq(Words), NEW g \in Seq(Words), NEW c \in Ids, NEW n \in Numbers,
         NEW k \in 0 .. 3, NEW at \in Nat, NEW e,
         Aligned(f), Piece(e, c, n, k), Put(f, g, at, e),
         at = Len(f) \/ at % 3 = 0, k < 3 => at + k >= Len(f) /\ at % 3 = 0
  PROVE  OnlyZeros(g, Len(g))
<1>1. Len(f) \in Nat /\ Len(e) = k /\ Len(g) \in Nat
  BY LenProperties DEF Piece
<1>2. Len(g) = IF at + k > Len(f) THEN at + k ELSE Len(f)
  BY <1>1 DEF Put
<1>3. \A q \in 1 .. Len(g) :
        g[q] = IF q \in at + 1 .. at + k THEN e[q - at]
               ELSE IF q <= Len(f) THEN f[q] ELSE Zero
  BY <1>1 DEF Put
<1>4. Len(f) % 3 # 2
  BY DEF Aligned
<1> SUFFICES ASSUME NEW q \in 1 .. Len(g), q % 3 = 0, IsNumber(g[q])
             PROVE  g[q] = Zero /\ g[q - 1] = Zero
  BY DEF OnlyZeros
<1>5. q - 1 \in 1 .. Len(g) /\ q \in Nat /\ q >= 3
  BY <1>1
<1>6. ASSUME q <= Len(f), g[q] = f[q], g[q - 1] = f[q - 1]
      PROVE  g[q] = Zero /\ g[q - 1] = Zero
  BY <1>1, <1>6 DEF Aligned, OnlyZeros
<1>7. CASE q <= at /\ q <= Len(f)
  <2>1. g[q] = f[q] /\ g[q - 1] = f[q - 1]
    BY <1>1, <1>3, <1>5, <1>7
  <2> QED
    BY <1>6, <1>7, <2>1
<1>8. CASE q <= at /\ ~(q <= Len(f))
  <2>1. g[q] = Zero
    BY <1>1, <1>3, <1>8
  <2>2. q - 1 # Len(f)
    BY <1>1, <1>4, <1>5
  <2>3. ~(q - 1 <= Len(f)) /\ ~(q - 1 \in at + 1 .. at + k)
    BY <1>1, <1>5, <1>8, <2>2
  <2>4. g[q - 1] = Zero
    BY <1>3, <1>5, <2>3
  <2> QED
    BY <2>1, <2>4
<1>9. CASE q \in at + 1 .. at + k
  <2>1. g[q] = e[q - at]
    BY <1>1, <1>3, <1>9
  <2>2. at % 3 = 0 \/ (k = 3 /\ at % 3 = 1)
    BY <1>1, <1>4
  <2>3. (q = at + 3 /\ k = 3) \/ (q = at + 2 /\ k = 3)
    BY <1>5, <1>9, <2>2
  <2>4. g[q] = Hash(c, n) \/ g[q] = Prev(c, n)
    BY <2>1, <2>3 DEF Piece
  <2> QED
    BY <2>4, WordFacts, PrevFacts
<1>10. CASE q > at + k
  <2>1. q <= Len(f) /\ k = 3 /\ at % 3 = 0
    BY <1>1, <1>2, <1>10
  <2>2. q - 1 > at + k
    BY <1>5, <1>10, <2>1
  <2>3. g[q] = f[q]
    <3>1. ~(q \in at + 1 .. at + k) /\ q <= Len(f)
      BY <1>10, <2>1
    <3> QED
      BY <1>3, <3>1
  <2>4. g[q - 1] = f[q - 1]
    <3>1. ~(q - 1 \in at + 1 .. at + k) /\ q - 1 <= Len(f)
      BY <1>1, <2>1, <2>2
    <3> QED
      BY <1>3, <1>5, <3>1
  <2> QED
    BY <1>6, <2>1, <2>3, <2>4
<1> QED
  BY <1>5, <1>7, <1>8, <1>9, <1>10

(* A whole entry does no harm to a file that has none.                       *)
LEMMA PutAligned ==
  ASSUME NEW f \in Seq(Words), NEW g \in Seq(Words), NEW c \in Ids, NEW n \in Numbers,
         NEW at \in Nat, NEW e,
         Aligned(f), Piece(e, c, n, 3), Put(f, g, at, e), at = Len(f) \/ at % 3 = 0
  PROVE  Aligned(g) /\ (Len(f) % 3 = 0 => Len(g) % 3 = 0)
<1>1. Len(f) \in Nat /\ Len(e) = 3
  BY LenProperties DEF Piece
<1>2. Len(g) = IF at + 3 > Len(f) THEN at + 3 ELSE Len(f)
  BY <1>1 DEF Put
<1>3. OnlyZeros(g, Len(g))
  <2>1. 3 \in 0 .. 3 /\ (3 < 3 => at + 3 >= Len(f) /\ at % 3 = 0)
    OBVIOUS
  <2> QED
    BY <2>1, PutZeros
<1>4. Len(f) % 3 # 2
  BY DEF Aligned
<1>5. Len(g) % 3 # 2 /\ (Len(f) % 3 = 0 => Len(g) % 3 = 0)
  <2>1. Len(g) = Len(f) \/ (Len(g) = Len(f) + 3) \/ (Len(g) = at + 3 /\ at % 3 = 0)
    BY <1>1, <1>2
  <2>2. (at + 3) % 3 = at % 3 /\ (Len(f) + 3) % 3 = Len(f) % 3
    BY <1>1
  <2> QED
    BY <1>4, <2>1, <2>2
<1> QED
  BY <1>3, <1>5 DEF Aligned

(* Whatever a file of whole entries becomes, its length says where it tore. *)
LEMMA TornOrAligned ==
  ASSUME NEW g \in Seq(Words), OnlyZeros(g, Len(g))
  PROVE  Aligned(g) \/ Torn(g, Len(g))
<1>1. Len(g) \in Nat
  BY LenProperties
<1>2. CASE Len(g) % 3 = 2
  <2>1. Len(g) <= Len(g) /\ ~(Len(g) > Len(g)) /\ Len(g) % 3 # 1
    BY <1>1, <1>2
  <2>2. \A q \in Len(g) + 1 .. Len(g) :
          (q % 3 = 2 /\ IsNumber(g[q]) => g[q] = Zero) /\ ZerosGoOn(g, q)
    BY <1>1
  <2> QED
    BY <1>2, <2>1, <2>2 DEF Torn
<1>3. CASE Len(g) % 3 # 2
  BY <1>3 DEF Aligned
<1> QED
  BY <1>2, <1>3

(* A whole entry leaves the one harmful tear what it was.                    *)
LEMMA PutTorn ==
  ASSUME NEW f \in Seq(Words), NEW g \in Seq(Words), NEW c \in Ids, NEW n \in Numbers,
         NEW at \in Nat, NEW e, NEW T \in Nat,
         Torn(f, T), Piece(e, c, n, 3), Put(f, g, at, e),
         at = Len(f) \/ (at % 3 = 0 /\ n # 1)
  PROVE  Torn(g, T)
<1>1. Len(f) \in Nat /\ Len(e) = 3 /\ Len(g) \in Nat
  BY LenProperties DEF Piece
<1>2. Len(g) = IF at + 3 > Len(f) THEN at + 3 ELSE Len(f)
  BY <1>1 DEF Put
<1>3. \A q \in 1 .. Len(g) :
        g[q] = IF q \in at + 1 .. at + 3 THEN e[q - at]
               ELSE IF q <= Len(f) THEN f[q] ELSE Zero
  BY <1>1 DEF Put
<1>4. /\ T % 3 = 2 /\ T <= Len(f) /\ Len(f) % 3 # 1 /\ OnlyZeros(f, T)
      /\ Len(f) > T => ~IsNumber(f[Len(f)])
  BY DEF Torn
<1>5. T <= Len(g) /\ Len(g) % 3 # 1
  <2>1. Len(g) = Len(f) \/ (Len(g) = Len(f) + 3) \/ (Len(g) = at + 3 /\ at % 3 = 0)
    BY <1>1, <1>2
  <2>2. (at + 3) % 3 = at % 3 /\ (Len(f) + 3) % 3 = Len(f) % 3 /\ Len(g) >= Len(f)
    BY <1>1, <1>2
  <2> QED
    BY <1>1, <1>4, <2>1, <2>2
<1>6. ASSUME NEW q \in 1 .. Len(g), q <= at \/ q > at + 3, q <= Len(f) PROVE g[q] = f[q]
  BY <1>1, <1>3, <1>6
<1>7. ASSUME NEW q \in 1 .. Len(g), q <= at, ~(q <= Len(f)) PROVE g[q] = Zero
  BY <1>1, <1>3, <1>7
<1>8. /\ g[at + 1] = SeqWord(n) /\ g[at + 2] = Prev(c, n) /\ g[at + 3] = Hash(c, n)
      /\ at + 3 <= Len(g)
  <2>1. at + 3 <= Len(g)
    BY <1>1, <1>2
  <2>2. /\ at + 1 \in 1 .. Len(g) /\ at + 2 \in 1 .. Len(g) /\ at + 3 \in 1 .. Len(g)
        /\ (at + 1) - at = 1 /\ (at + 2) - at = 2 /\ (at + 3) - at = 3
        /\ {at + 1, at + 2, at + 3} \subseteq at + 1 .. at + 3
    BY <1>1, <2>1
  <2>3. g[at + 1] = e[1] /\ g[at + 2] = e[2] /\ g[at + 3] = e[3]
    BY <1>3, <2>2
  <2> QED
    BY <2>1, <2>3 DEF Piece
<1>9. /\ SeqWord(n) # Zero /\ Prev(c, n) # Zero /\ Hash(c, n) # Zero
      /\ ~IsNumber(Prev(c, n)) /\ ~IsNumber(Hash(c, n)) /\ (n # 1 => SeqWord(n) # SeqWord(1))
  <2>1. n # 0
    BY DEF Numbers
  <2> QED
    BY <2>1, WordFacts, PrevFacts DEF Zero
<1>10. ASSUME at # Len(f) PROVE at % 3 = 0 /\ n # 1
  BY <1>10
<1>11. OnlyZeros(g, T)
  <2> SUFFICES ASSUME NEW q \in 1 .. Len(g), q <= T, q % 3 = 0, IsNumber(g[q])
               PROVE  g[q] = Zero /\ g[q - 1] = Zero
    BY DEF OnlyZeros
  <2>1. q \in 1 .. Len(f) /\ q - 1 \in 1 .. Len(g) /\ q <= Len(f) /\ q - 1 <= Len(f) /\ q \in Nat
    <3>1. q >= 3 /\ q \in Nat
      BY <1>1
    <3>2. T <= Len(f) /\ T <= Len(g)
      BY <1>4, <1>5
    <3> QED
      BY <1>1, <3>1, <3>2
  <2>2. ASSUME g[q] = f[q], g[q - 1] = f[q - 1] PROVE g[q] = Zero /\ g[q - 1] = Zero
    BY <1>4, <2>1, <2>2 DEF OnlyZeros
  <2>3. CASE q <= at
    <3>1. q - 1 <= at
      BY <2>1, <2>3
    <3> QED
      BY <1>6, <2>1, <2>2, <2>3, <3>1
  <2>4. CASE q > at
    <3>1. at % 3 = 0
      BY <1>1, <1>10, <2>1, <2>4
    <3>2. q = at + 3 \/ (q > at + 3 /\ q - 1 > at + 3)
      BY <2>1, <2>4, <3>1
    <3>3. q # at + 3
      BY <1>8, <1>9
    <3> QED
      BY <1>6, <2>1, <2>2, <3>2, <3>3
  <2> QED
    BY <2>1, <2>3, <2>4
<1>12. ASSUME NEW q \in T + 1 .. Len(g), q % 3 = 2, IsNumber(g[q]) PROVE g[q] = Zero
  <2>1. q \in 1 .. Len(g) /\ q \in Nat
    BY <1>1
  <2>2. q # at + 2 /\ q # at + 3
    BY <1>8, <1>9, <1>12
  <2>3. q # at + 1
    <3> SUFFICES ASSUME q = at + 1 PROVE FALSE
      OBVIOUS
    <3>1. at % 3 = 1
      BY <1>12
    <3>2. at % 3 # 1
      BY <1>4, <1>10
    <3> QED
      BY <3>1, <3>2
  <2>4. q <= at \/ q > at + 3
    BY <2>1, <2>2, <2>3
  <2>5. CASE q <= Len(f)
    <3>1. g[q] = f[q] /\ q \in T + 1 .. Len(f)
      BY <1>1, <1>6, <2>1, <2>4, <2>5
    <3> QED
      BY <1>12, <3>1 DEF Torn
  <2>6. CASE ~(q <= Len(f))
    <3>1. q <= at
      BY <1>1, <1>2, <2>1, <2>4, <2>6
    <3> QED
      BY <1>7, <2>1, <2>6, <3>1
  <2> QED
    BY <2>5, <2>6
<1>13. ASSUME NEW q \in T + 1 .. Len(g) PROVE ZerosGoOn(g, q)
  <2> SUFFICES ASSUME g[q] = Zero
               PROVE  q < Len(g) /\ (g[q + 1] = Zero \/ (q % 3 = 0 /\ g[q + 1] # SeqWord(1)))
    BY DEF ZerosGoOn
  <2>1. q \in 1 .. Len(g) /\ q \in Nat
    BY <1>1
  <2>2. q <= at \/ q > at + 3
    <3>1. q # at + 1 /\ q # at + 2 /\ q # at + 3
      BY <1>8, <1>9
    <3> QED
      BY <2>1, <3>1
  <2>3. CASE q = at /\ at # Len(f)
    <3>1. q % 3 = 0 /\ n # 1 /\ q < Len(g) /\ g[q + 1] = SeqWord(n)
      BY <1>1, <1>8, <1>10, <2>1, <2>3
    <3> QED
      BY <1>9, <3>1
  <2>4. CASE q <= Len(f) /\ ~(q = at /\ at # Len(f))
    <3>1. f[q] = Zero /\ q \in T + 1 .. Len(f)
      BY <1>1, <1>6, <2>1, <2>2, <2>4
    <3>2. q < Len(f) /\ (f[q + 1] = Zero \/ (q % 3 = 0 /\ f[q + 1] # SeqWord(1)))
      BY <3>1 DEF Torn, ZerosGoOn
    <3>3. q + 1 \in 1 .. Len(g) /\ q < Len(g)
      BY <1>1, <1>2, <2>1, <3>2
    <3>4. (q + 1 <= at \/ q + 1 > at + 3) /\ q + 1 <= Len(f)
      BY <1>1, <2>1, <2>2, <2>4, <3>2
    <3>5. g[q + 1] = f[q + 1]
      BY <1>6, <3>3, <3>4
    <3> QED
      BY <3>2, <3>3, <3>5
  <2>5. CASE ~(q <= Len(f)) /\ q # at
    <3>1. q <= at
      BY <1>1, <1>2, <2>1, <2>2, <2>5
    <3>2. q + 1 <= at /\ ~(q + 1 <= Len(f)) /\ q + 1 \in 1 .. Len(g) /\ q < Len(g)
      BY <1>1, <1>8, <2>1, <2>5, <3>1
    <3> QED
      BY <1>7, <3>2
  <2> QED
    BY <1>1, <2>3, <2>4, <2>5
<1>14. ASSUME Len(g) > T PROVE ~IsNumber(g[Len(g)])
  <2>1. CASE Len(g) = at + 3
    BY <1>8, <1>9, <2>1
  <2>2. CASE Len(g) # at + 3
    <3>1. Len(g) = Len(f) /\ Len(g) > at + 3 /\ Len(g) \in 1 .. Len(g)
      BY <1>1, <1>2, <1>8, <2>2
    <3>2. g[Len(g)] = f[Len(f)] /\ Len(f) > T
      BY <1>1, <1>6, <1>14, <3>1
    <3> QED
      BY <1>4, <3>2
  <2> QED
    BY <2>1, <2>2
<1> QED
  BY <1>4, <1>5, <1>11, <1>12, <1>13, <1>14 DEF Torn

(* The file a rotation leaves is not torn.                                   *)
LEMMA EntryIsAligned ==
  ASSUME NEW f, NEW c \in Ids, NEW n \in Numbers, Piece(f, c, n, 3)
  PROVE  Aligned(f) /\ Len(f) % 3 = 0
<1>1. f[3] = Hash(c, n) /\ Len(f) = 3
  BY DEF Piece
<1>2. \A q \in 1 .. 3 : q % 3 = 0 => q = 3
  OBVIOUS
<1>3. 3 % 3 = 0
  OBVIOUS
<1> QED
  BY <1>1, <1>2, <1>3, WordFacts DEF Aligned, OnlyZeros

(* Every step keeps what is known of tears: a first fault may leave one,     *)
(* whole entries leave it there.                                             *)
LEMMA StepTearInv == TypeOK /\ WriterInv /\ TearInv /\ [Next]_vars => TearInv'
<1> SUFFICES ASSUME TypeOK, WriterInv, TearInv, [Next]_vars PROVE TearInv'
  OBVIOUS
<1>1. file \in Seq(Words) /\ faults \in Nat /\ Len(file) \in Nat
  BY LedgerAssumption, LenProperties DEF TypeOK
<1>2. CASE file' = file /\ faults' = faults
  BY <1>2 DEF TearInv
<1>3. ASSUME NEW p \in Procs, NEW at \in Nat, NEW k \in 0 .. 3, Puts(p, at, k) PROVE TearInv'
  <2>1. PICK e : Piece(e, chain[p], seq[p] + 1, k) /\ Put(file, file', at, e)
    BY <1>3 DEF Puts
  <2>2. /\ chain[p] \in Ids /\ seq[p] + 1 \in Numbers /\ file' \in Seq(Words) /\ ~bad[p]
        /\ at = Len(file) \/ (trunc[p] /\ at = pos[p])
    BY <1>3 DEF Puts
  <2>3. at = Len(file) \/ (at % 3 = 0 /\ seq[p] + 1 # 1)
    <3>1. seq[p] \in Nat
      BY LedgerAssumption DEF TypeOK
    <3> QED
      BY <2>2, <3>1 DEF WriterInv
  <2>4. CASE k = 3 /\ faults' = faults
    <3>1. faults <= 1 => Aligned(file') \/ \E T \in Nat : Torn(file', T)
      <4>1. ASSUME Aligned(file) PROVE Aligned(file')
        BY <1>1, <2>1, <2>2, <2>3, <2>4, <4>1, PutAligned
      <4>2. ASSUME NEW T \in Nat, Torn(file, T) PROVE Torn(file', T)
        BY <1>1, <2>1, <2>2, <2>3, <2>4, <4>2, PutTorn
      <4> QED
        BY <4>1, <4>2 DEF TearInv
    <3>2. faults = 0 => Aligned(file') /\ Len(file') % 3 = 0
      BY <1>1, <2>1, <2>2, <2>3, <2>4, PutAligned DEF TearInv
    <3> QED
      BY <2>4, <3>1, <3>2 DEF TearInv
  <2>5. CASE k < 3 /\ at + k >= Len(file) /\ faults' = faults + 1
    <3>1. CASE faults = 0
      <4>1. Aligned(file) /\ Len(file) % 3 = 0 /\ at % 3 = 0
        BY <2>3, <3>1 DEF TearInv
      <4>2. OnlyZeros(file', Len(file'))
        BY <1>1, <2>1, <2>2, <2>3, <2>5, <4>1, PutZeros
      <4>3. Aligned(file') \/ Torn(file', Len(file'))
        BY <2>2, <4>2, TornOrAligned
      <4> QED
        BY <1>1, <2>2, <2>5, <3>1, <4>3, LenProperties DEF TearInv
    <3>2. CASE faults # 0
      BY <1>1, <2>5, <3>2 DEF TearInv
    <3> QED
      BY <3>1, <3>2
  <2> QED
    BY <1>3, <2>4, <2>5 DEF Puts
<1>4. ASSUME NEW p \in Procs, Rotate(p) PROVE TearInv'
  BY <1>4, RotateFacts, EntryIsAligned DEF TearInv
<1>5. CASE PowerLoss
  <2>1. /\ file' \in Seq(Words) /\ Len(file') \in 0 .. Len(file) /\ faults' = faults + 1
        /\ \A q \in 1 .. Len(file') : file'[q] = file[q]
    BY <1>5, PowerLossFacts
  <2>2. CASE faults = 0
    <3>1. OnlyZeros(file, Len(file))
      BY <2>2 DEF TearInv, Aligned
    <3>2. ASSUME NEW q \in 1 .. Len(file'), q % 3 = 0, IsNumber(file'[q])
          PROVE  file'[q] = Zero /\ file'[q - 1] = Zero
      <4>1. q \in 1 .. Len(file) /\ q - 1 \in 1 .. Len(file') /\ q <= Len(file)
        BY <1>1, <2>1, <3>2
      <4>2. file'[q] = file[q] /\ file'[q - 1] = file[q - 1]
        BY <2>1, <4>1
      <4> QED
        BY <3>1, <3>2, <4>1, <4>2 DEF OnlyZeros
    <3>3. OnlyZeros(file', Len(file'))
      BY <3>2 DEF OnlyZeros
    <3>4. Aligned(file') \/ Torn(file', Len(file'))
      BY <2>1, <3>3, TornOrAligned
    <3> QED
      BY <1>1, <2>1, <2>2, <3>4 DEF TearInv
  <2>3. CASE faults # 0
    BY <1>1, <2>1, <2>3 DEF TearInv
  <2> QED
    BY <2>2, <2>3
<1>6. file' # file \/ faults' # faults =>
        \/ \E p \in Procs, at \in Nat, k \in 0 .. 3 : Puts(p, at, k)
        \/ \E p \in Procs : Rotate(p)
        \/ PowerLoss
  <2>1. ASSUME NEW p \in Procs, Start(p) \/ Stop(p) \/ (AppendEvent(p) /\ bad[p])
        PROVE  file' = file /\ faults' = faults
    BY <2>1 DEF Start, Stop, AppendEvent
  <2>2. ASSUME NEW p \in Procs, AppendEvent(p), ~bad[p]
        PROVE  \E at \in Nat, k \in 0 .. 3 : Puts(p, at, k)
    <3>1. 3 \in 0 .. 3
      OBVIOUS
    <3> QED
      BY <2>2, <3>1, AppendEventPuts
  <2>3. ASSUME NEW p \in Procs, AppendDiskFull(p)
        PROVE  \E at \in Nat, k \in 0 .. 3 : Puts(p, at, k)
    <3>1. PICK at \in Nat, k \in 0 .. 2 : Puts(p, at, k)
      BY <2>3, AppendDiskFullPuts
    <3>2. k \in 0 .. 3
      OBVIOUS
    <3> QED
      BY <3>1, <3>2
  <2>4. UNCHANGED vars => file' = file /\ faults' = faults
    BY DEF vars
  <2> QED
    BY <2>1, <2>2, <2>3, <2>4, Zenon DEF Next
<1> QED
  BY <1>2, <1>3, <1>4, <1>5, <1>6
-----------------------------------------------------------------------------
(* Every chain is seeded once: FreshInv. *)

(* A hash is in the file only when its chain has come so far. *)
HashesAreOld(f) ==
  \A q \in 1 .. Len(f), c \in Ids, n \in Numbers :
    f[q] = Hash(c, n) => c <= chains /\ \A p \in Procs : chain[p] = c => n <= seq[p]

(* q is the curr_hash of the first entry of a chain. *)
Root(f, q, c) == q > 1 /\ f[q - 1] = Seed /\ f[q] = Hash(c, 1)

OneRoot(f) ==
  \A q, r \in 1 .. Len(f), c \in Ids : Root(f, q, c) /\ Root(f, r, c) => q = r

FreshInv == HashesAreOld(file) /\ OneRoot(file)

(* A write makes at most its own entry the first of a chain.                 *)
LEMMA PutRoots ==
  ASSUME NEW f \in Seq(Words), NEW g \in Seq(Words), NEW c \in Ids, NEW n \in Numbers,
         NEW k \in 0 .. 3, NEW at \in Nat, NEW e,
         Piece(e, c, n, k), Put(f, g, at, e), k < 3 => at + k >= Len(f),
         NEW q \in 1 .. Len(g), NEW d \in Ids, Root(g, q, d)
  PROVE  (q \in 1 .. Len(f) /\ Root(f, q, d)) \/ (q = at + 3 /\ d = c /\ n = 1)
<1>1. Len(f) \in Nat /\ Len(e) = k /\ Len(g) \in Nat
  BY LenProperties DEF Piece
<1>2. Len(g) = IF at + k > Len(f) THEN at + k ELSE Len(f)
  BY <1>1 DEF Put
<1>3. \A i \in 1 .. Len(g) :
        g[i] = IF i \in at + 1 .. at + k THEN e[i - at]
               ELSE IF i <= Len(f) THEN f[i] ELSE Zero
  BY <1>1 DEF Put
<1>4. q > 1 /\ q - 1 \in 1 .. Len(g) /\ g[q - 1] = Seed /\ g[q] = Hash(d, 1)
  BY <1>1 DEF Root
<1>5. Zero # Seed /\ Zero # Hash(d, 1) /\ d # 0 /\ c # 0
  BY WordFacts DEF Ids
<1>6. q \notin at + 1 .. at + k => q <= Len(f) /\ g[q] = f[q]
  BY <1>3, <1>4, <1>5
<1>7. q - 1 \notin at + 1 .. at + k => q - 1 <= Len(f) /\ g[q - 1] = f[q - 1]
  BY <1>3, <1>4, <1>5
<1>8. CASE q \notin at + 1 .. at + k /\ q - 1 \notin at + 1 .. at + k
  BY <1>1, <1>4, <1>6, <1>7, <1>8 DEF Root
<1>9. CASE q \in at + 1 .. at + k
  <2>1. g[q] = e[q - at]
    BY <1>3, <1>9
  <2>2. q # at + 1
    <3>1. q = at + 1 => g[q] = SeqWord(n)
      BY <1>9, <2>1 DEF Piece
    <3> QED
      BY <1>4, <3>1, WordFacts
  <2>3. q # at + 2
    <3> SUFFICES ASSUME q = at + 2 PROVE FALSE
      OBVIOUS
    <3>1. q - 1 \in at + 1 .. at + k /\ (q - 1) - at = 1 /\ k >= 1
      BY <1>9
    <3>2. g[q - 1] = e[(q - 1) - at]
      BY <1>3, <1>4, <3>1
    <3>3. g[q - 1] = SeqWord(n)
      BY <3>1, <3>2 DEF Piece
    <3> QED
      BY <1>4, <3>3, WordFacts
  <2>4. q = at + 3 /\ k = 3 /\ q - at = 3
    BY <1>9, <2>2, <2>3
  <2>5. g[q] = Hash(c, n)
    BY <2>1, <2>4 DEF Piece
  <2> QED
    BY <1>4, <2>4, <2>5, WordFacts
<1>10. CASE q \notin at + 1 .. at + k /\ q - 1 \in at + 1 .. at + k
  <2>1. q = at + k + 1 /\ q <= Len(f) /\ k >= 1
    BY <1>1, <1>6, <1>10
  <2>2. k = 3 /\ (q - 1) - at = 3
    BY <1>1, <2>1
  <2>3. g[q - 1] = e[(q - 1) - at]
    BY <1>3, <1>4, <1>10
  <2>4. g[q - 1] = Hash(c, n)
    BY <2>2, <2>3 DEF Piece
  <2> QED
    BY <1>4, <1>5, <2>4, WordFacts
<1> QED
  BY <1>8, <1>9, <1>10

(* A write adds no hashes but those of its chain up to its number.           *)
LEMMA PutHashes ==
  ASSUME NEW f \in Seq(Words), NEW g \in Seq(Words), NEW c \in Ids, NEW n \in Numbers,
         NEW k \in 0 .. 3, NEW at \in Nat, NEW e,
         Piece(e, c, n, k), Put(f, g, at, e),
         NEW q \in 1 .. Len(g), NEW d \in Ids, NEW m \in Numbers, g[q] = Hash(d, m)
  PROVE  (q \in 1 .. Len(f) /\ f[q] = Hash(d, m)) \/ (d = c /\ m <= n)
<1>1. Len(f) \in Nat /\ Len(e) = k /\ Len(g) \in Nat
  BY LenProperties DEF Piece
<1>2. \A i \in 1 .. Len(g) :
        g[i] = IF i \in at + 1 .. at + k THEN e[i - at]
               ELSE IF i <= Len(f) THEN f[i] ELSE Zero
  BY <1>1 DEF Put
<1>3. Zero # Hash(d, m) /\ d # 0 /\ n \in Nat /\ m \in Nat
  BY WordFacts, LedgerAssumption DEF Ids, Numbers
<1>4. CASE q \notin at + 1 .. at + k
  BY <1>1, <1>2, <1>3, <1>4
<1>5. CASE q \in at + 1 .. at + k
  <2>1. g[q] = e[q - at]
    BY <1>2, <1>5
  <2>2. q - at = 1 \/ q - at = 2 \/ q - at = 3
    BY <1>5
  <2>3. g[q] = SeqWord(n) \/ g[q] = Prev(c, n) \/ g[q] = Hash(c, n)
    BY <1>5, <2>1, <2>2 DEF Piece
  <2>4. g[q] # SeqWord(n)
    BY WordFacts
  <2>5. g[q] = Prev(c, n) => n # 1 /\ d = c /\ m = n - 1
    <3> SUFFICES ASSUME g[q] = Prev(c, n) PROVE n # 1 /\ d = c /\ m = n - 1
      OBVIOUS
    <3>1. Hash(d, m) # Seed
      BY <1>3, WordFacts
    <3>2. n # 1 /\ Hash(d, m) = Hash(c, n - 1)
      BY <3>1 DEF Prev
    <3> QED
      BY <3>2, WordFacts
  <2>6. g[q] = Hash(c, n) => d = c /\ m = n
    BY WordFacts
  <2> QED
    BY <1>3, <2>3, <2>4, <2>5, <2>6
<1> QED
  BY <1>4, <1>5

(* Every step keeps chains begun once and without hashes of entries to come. *)
LEMMA StepFreshInv == TypeOK /\ WriterInv /\ FreshInv /\ [Next]_vars => FreshInv'
<1> SUFFICES ASSUME TypeOK, WriterInv, FreshInv, [Next]_vars PROVE FreshInv'
  OBVIOUS
<1>1. file \in Seq(Words) /\ Len(file) \in Nat /\ chains \in Nat
  BY LedgerAssumption, LenProperties DEF TypeOK
<1>2. \A r \in Procs : seq[r] \in Nat /\ chain[r] \in Nat /\ chain[r] <= chains
  BY LedgerAssumption DEF TypeOK, WriterInv
<1>3. ASSUME NEW p \in Procs, Start(p) PROVE FreshInv'
  <2>1. file' = file /\ chains' = chains + 1
        /\ \A r \in Procs : /\ chain'[r] = IF r = p THEN chains + 1 ELSE chain[r]
                            /\ r # p => seq'[r] = seq[r]
    BY <1>3 DEF Start, TypeOK
  <2>2. ASSUME NEW q \in 1 .. Len(file), NEW c \in Ids, NEW n \in Numbers, file[q] = Hash(c, n)
        PROVE  c <= chains' /\ \A r \in Procs : chain'[r] = c => n <= seq'[r]
    <3>1. c <= chains /\ (\A r \in Procs : chain[r] = c => n <= seq[r]) /\ c \in Nat
      BY <2>2 DEF FreshInv, HashesAreOld, Ids
    <3>2. c # chains + 1 /\ c <= chains + 1
      BY <1>1, <3>1
    <3> QED
      BY <2>1, <3>1, <3>2
  <2> QED
    BY <2>1, <2>2 DEF FreshInv, HashesAreOld, OneRoot, Root
<1>4. ASSUME NEW p \in Procs, CountEntry(p)
      PROVE  /\ chain' = chain /\ chains' = chains
             /\ \A r \in Procs : seq'[r] = IF r = p THEN seq[p] + 1 ELSE seq[r]
  BY <1>4 DEF CountEntry, TypeOK
<1>5. ASSUME NEW p \in Procs, AppendEvent(p), file' = file PROVE FreshInv'
  <2>1. CountEntry(p)
    BY <1>5 DEF AppendEvent
  <2>2. \A n \in Numbers, r \in Procs : n <= seq[r] => n <= seq'[r]
    BY <1>2, <1>4, <2>1, LedgerAssumption DEF Numbers
  <2> QED
    BY <1>4, <1>5, <2>1, <2>2 DEF FreshInv, HashesAreOld, OneRoot, Root
<1>6. ASSUME NEW p \in Procs, NEW at \in Nat, NEW k \in 0 .. 3, Puts(p, at, k),
             AppendEvent(p) \/ AppendDiskFull(p)
      PROVE  FreshInv'
  <2> DEFINE c == chain[p]
             n == seq[p] + 1
  <2>1. PICK e : Piece(e, c, n, k) /\ Put(file, file', at, e)
    BY <1>6 DEF Puts
  <2>2. c \in Ids /\ n \in Numbers /\ file' \in Seq(Words) /\ (k < 3 => at + k >= Len(file))
    BY <1>6 DEF Puts
  <2>3. CountEntry(p)
    BY <1>6 DEF AppendEvent, AppendDiskFull
  <2>4. \A m \in Numbers, r \in Procs : m <= seq[r] => m <= seq'[r]
    BY <1>2, <1>4, <2>3, LedgerAssumption DEF Numbers
  <2>5. /\ chain' = chain /\ chains' = chains /\ seq'[p] = n /\ c <= chains /\ c # 0
        /\ seq[p] = n - 1 /\ n \in Nat
    BY <1>2, <1>4, <2>2, <2>3 DEF Ids
  <2>6. \A r \in Procs : chain[r] = c => r = p
    BY <2>5 DEF WriterInv
  <2> HIDE DEF c, n
  <2>7. ASSUME NEW q \in 1 .. Len(file'), NEW d \in Ids, NEW m \in Numbers,
               file'[q] = Hash(d, m)
        PROVE  d <= chains' /\ \A r \in Procs : chain'[r] = d => m <= seq'[r]
    <3>1. (q \in 1 .. Len(file) /\ file[q] = Hash(d, m)) \/ (d = c /\ m <= n)
      BY <1>1, <2>1, <2>2, <2>7, PutHashes
    <3>2. CASE q \in 1 .. Len(file) /\ file[q] = Hash(d, m)
      <4>1. d <= chains /\ \A r \in Procs : chain[r] = d => m <= seq[r]
        BY <3>2 DEF FreshInv, HashesAreOld
      <4> QED
        BY <2>4, <2>5, <4>1
    <3>3. CASE d = c /\ m <= n
      BY <2>5, <2>6, <3>3
    <3> QED
      BY <3>1, <3>2, <3>3
  <2>8. ASSUME NEW q \in 1 .. Len(file'), NEW r \in 1 .. Len(file'), NEW d \in Ids,
               Root(file', q, d), Root(file', r, d)
        PROVE  q = r
    <3>1. (q \in 1 .. Len(file) /\ Root(file, q, d)) \/ (q = at + 3 /\ d = c /\ n = 1)
      BY <1>1, <2>1, <2>2, <2>8, PutRoots
    <3>2. (r \in 1 .. Len(file) /\ Root(file, r, d)) \/ (r = at + 3 /\ d = c /\ n = 1)
      BY <1>1, <2>1, <2>2, <2>8, PutRoots
    <3>3. ASSUME NEW i \in 1 .. Len(file), Root(file, i, d) PROVE ~(d = c /\ n = 1)
      <4> SUFFICES ASSUME d = c, n = 1 PROVE FALSE
        OBVIOUS
      <4>1. file[i] = Hash(c, n) /\ chain[p] = c
        BY <3>3 DEF Root, c
      <4>2. n <= seq[p]
        BY <2>2, <4>1 DEF FreshInv, HashesAreOld
      <4> QED
        BY <2>5, <4>2
    <3>4. Root(file, q, d) /\ q \in 1 .. Len(file) /\ Root(file, r, d) /\ r \in 1 .. Len(file)
            => q = r
      BY DEF FreshInv, OneRoot
    <3> QED
      BY <3>1, <3>2, <3>3, <3>4
  <2> QED
    BY <2>7, <2>8 DEF FreshInv, HashesAreOld, OneRoot
<1>7. ASSUME NEW p \in Procs, Rotate(p) PROVE FreshInv'
  <2> DEFINE c == chains + 1
  <2>1. /\ c \in Ids /\ chains' = c
        /\ \A r \in Procs : /\ chain'[r] = IF r = p THEN c ELSE chain[r]
                            /\ seq'[r] = IF r = p THEN 1 ELSE seq[r]
    BY <1>7, RotateFacts
  <2>2. /\ Len(file') = 3 /\ file'[1] = SeqWord(1) /\ file'[2] = Seed /\ file'[3] = Hash(c, 1)
    <3>1. file' = Entry(c, 1) /\ Prev(c, 1) = Seed
      BY <1>7, RotateFacts DEF Prev
    <3> QED
      BY <3>1, EntryShape
  <2>3. \A r \in Procs : chain'[r] = c => r = p
    BY <1>1, <1>2, <2>1
  <2>4. \A q \in 1 .. 3 : q = 1 \/ q = 2 \/ q = 3
    OBVIOUS
  <2> HIDE DEF c
  <2>5. ASSUME NEW q \in 1 .. Len(file'), NEW d \in Ids, NEW m \in Numbers, file'[q] = Hash(d, m)
        PROVE  q = 3 /\ d = c /\ m = 1
    <3>1. d # 0
      BY DEF Ids
    <3> QED
      BY <2>2, <2>4, <2>5, <3>1, WordFacts
  <2>6. 1 \in Numbers /\ c \in Nat
    <3>1. 1 \in Numbers
      BY <1>7, RotateFacts
    <3> QED
      BY <2>1, <3>1 DEF Ids
  <2>7. HashesAreOld(file)'
    <3> SUFFICES ASSUME NEW q \in 1 .. Len(file'), NEW d \in Ids, NEW m \in Numbers,
                        file'[q] = Hash(d, m)
                 PROVE  d <= chains' /\ \A r \in Procs : chain'[r] = d => m <= seq'[r]
      BY DEF HashesAreOld
    <3>1. d = c /\ m = 1
      BY <2>5
    <3> QED
      BY <2>1, <2>3, <2>6, <3>1
  <2>8. OneRoot(file')
    BY <2>5, <2>6 DEF OneRoot, Root
  <2> QED
    BY <2>7, <2>8 DEF FreshInv, HashesAreOld, OneRoot, Root
<1>8. CASE PowerLoss
  <2>1. /\ Len(file') \in 0 .. Len(file) /\ \A q \in 1 .. Len(file') : file'[q] = file[q]
        /\ chain' = chain /\ chains' = chains /\ seq' = seq
    BY <1>8, PowerLossFacts DEF procVars
  <2>2. \A q \in 1 .. Len(file') : q \in 1 .. Len(file)
    BY <1>1, <2>1
  <2>3. \A q \in 1 .. Len(file') : q > 1 => q - 1 \in 1 .. Len(file')
    BY <1>1, <2>1
  <2>4. HashesAreOld(file)'
    BY <2>1, <2>2 DEF FreshInv, HashesAreOld
  <2>5. OneRoot(file')
    BY <2>1, <2>2, <2>3 DEF FreshInv, OneRoot, Root
  <2> QED
    BY <2>4, <2>5 DEF FreshInv, HashesAreOld, OneRoot, Root
<1>9. ASSUME NEW p \in Procs, Stop(p) PROVE FreshInv'
  BY <1>9 DEF Stop, procVars, FreshInv, HashesAreOld, OneRoot, Root
<1>10. CASE UNCHANGED vars
  BY <1>10 DEF vars, procVars, FreshInv, HashesAreOld, OneRoot, Root
<1>11. ASSUME NEW p \in Procs, AppendEvent(p) PROVE FreshInv'
  <2>1. bad[p] => file' = file
    BY <1>11 DEF AppendEvent
  <2>2. ~bad[p] => \E at \in Nat : Puts(p, at, 3)
    BY <1>11, AppendEventPuts
  <2>3. 3 \in 0 .. 3
    OBVIOUS
  <2> QED
    BY <1>5, <1>6, <1>11, <2>1, <2>2, <2>3
<1>12. ASSUME NEW p \in Procs, AppendDiskFull(p) PROVE FreshInv'
  <2>1. PICK at \in Nat, k \in 0 .. 2 : Puts(p, at, k)
    BY <1>12, AppendDiskFullPuts
  <2>2. k \in 0 .. 3
    OBVIOUS
  <2> QED
    BY <1>6, <1>12, <2>1, <2>2
<1> QED
  BY <1>3, <1>7, <1>8, <1>9, <1>10, <1>11, <1>12 DEF Next
-----------------------------------------------------------------------------
(* A writer that is alone: LoneInv. *)

(* The last entry of f. *)
EndsWith(f, c, n) ==
  /\ Len(f) >= 3
  /\ f[Len(f) - 2] = SeqWord(n) /\ f[Len(f) - 1] = Prev(c, n) /\ f[Len(f)] = Hash(c, n)

(* What p knows of the file. *)
Knows(p) ==
  /\ size[p] = Len(file) /\ ~bad[p]
  /\ trunc[p] => pos[p] = Len(file)
  /\ seq[p] > 0 => EndsWith(file, chain[p], seq[p])

LoneInv ==
  ~tainted =>
    /\ Len(file) <= MaxEntries * 3
    /\ \A p, r \in up : p = r
    /\ \A p \in up : Knows(p)

(* An entry put at the end is the last one, and what was there before is     *)
(* unchanged.                                                                *)
LEMMA PutAtEnd ==
  ASSUME NEW f \in Seq(Words), NEW g \in Seq(Words), NEW c \in Ids, NEW n \in Numbers, NEW e,
         Piece(e, c, n, 3), Put(f, g, Len(f), e)
  PROVE  /\ Len(g) = Len(f) + 3
         /\ EndsWith(g, c, n)
         /\ SubSeq(g, 1, Len(f)) = f
<1>1. Len(f) \in Nat /\ Len(e) = 3
  BY LenProperties DEF Piece
<1>2. Len(g) = Len(f) + 3
  BY <1>1 DEF Put
<1>3. \A q \in 1 .. Len(g) :
        g[q] = IF q \in Len(f) + 1 .. Len(f) + 3 THEN e[q - Len(f)]
               ELSE IF q <= Len(f) THEN f[q] ELSE Zero
  BY <1>1 DEF Put
<1>4. EndsWith(g, c, n)
  <2>1. /\ Len(f) + 1 \in 1 .. Len(g) /\ Len(f) + 2 \in 1 .. Len(g) /\ Len(f) + 3 \in 1 .. Len(g)
        /\ (Len(f) + 1) - Len(f) = 1 /\ (Len(f) + 2) - Len(f) = 2 /\ (Len(f) + 3) - Len(f) = 3
        /\ {Len(f) + 1, Len(f) + 2, Len(f) + 3} \subseteq Len(f) + 1 .. Len(f) + 3
    BY <1>1, <1>2
  <2>2. g[Len(f) + 1] = e[1] /\ g[Len(f) + 2] = e[2] /\ g[Len(f) + 3] = e[3]
    BY <1>3, <2>1
  <2>3. Len(g) - 2 = Len(f) + 1 /\ Len(g) - 1 = Len(f) + 2 /\ Len(g) >= 3
    BY <1>1, <1>2
  <2> QED
    BY <1>2, <2>2, <2>3 DEF EndsWith, Piece
<1>5. SubSeq(g, 1, Len(f)) = f
  <2>1. \A q \in 1 .. Len(f) : q \in 1 .. Len(g) /\ q \notin Len(f) + 1 .. Len(f) + 3 /\ q <= Len(f)
    BY <1>1, <1>2
  <2>2. \A q \in 1 .. Len(f) : g[q] = f[q]
    BY <1>3, <2>1
  <2>3. \A q \in 1 .. Len(f) : g[q] \in Words
    BY <2>2, ElementOfSeq
  <2>4. 1 \in Int /\ Len(f) \in Int
    BY <1>1
  <2>5. /\ SubSeq(g, 1, Len(f)) \in Seq(Words)
        /\ Len(SubSeq(g, 1, Len(f))) = IF 1 <= Len(f) THEN Len(f) - 1 + 1 ELSE 0
        /\ \A i \in 1 .. Len(f) - 1 + 1 : SubSeq(g, 1, Len(f))[i] = g[1 + i - 1]
    BY <2>3, <2>4, SubSeqProperties
  <2>6. Len(SubSeq(g, 1, Len(f))) = Len(f)
    BY <1>1, <2>5
  <2>7. \A i \in 1 .. Len(f) : SubSeq(g, 1, Len(f))[i] = f[i]
    BY <1>1, <2>2, <2>5
  <2> QED
    BY <2>5, <2>6, <2>7, SeqEqual
<1> QED
  BY <1>2, <1>4, <1>5

(* A lone writer that writes at all writes at the end. *)
LEMMA LoneAppends ==
  ASSUME TypeOK, WriterInv, LoneInv, ~tainted, NEW p \in Procs, AppendEvent(p)
  PROVE  /\ p \in up /\ file' \in Seq(Words)
         /\ \E e : Piece(e, chain[p], seq[p] + 1, 3) /\ Put(file, file', Len(file), e)
         /\ trunc[p] => pos'[p] = Len(file) + 3
<1>1. p \in up /\ ~bad[p] /\ (trunc[p] => pos[p] = Len(file))
  BY DEF AppendEvent, CountEntry, LoneInv, Knows
<1>2. PICK at \in Nat : Puts(p, at, 3)
  BY <1>1, AppendEventPuts
<1>3. at = Len(file)
  BY <1>1, <1>2 DEF Puts
<1>4. trunc[p] => pos'[p] = Len(file) + 3
  <2> SUFFICES ASSUME trunc[p] PROVE pos'[p] = Len(file) + 3
    OBVIOUS
  <2>1. pos' = [pos EXCEPT ![p] = pos[p] + 3]
    BY <1>2 DEF Puts
  <2>2. pos'[p] = pos[p] + 3
    BY <2>1 DEF TypeOK
  <2> QED
    BY <1>1, <2>2
<1> QED
  BY <1>1, <1>2, <1>3, <1>4 DEF Puts

(* Every step keeps what a lone process knows of its file.                   *)
LEMMA StepLoneInv == TypeOK /\ WriterInv /\ LoneInv /\ [Next]_vars => LoneInv'
<1> SUFFICES ASSUME TypeOK, WriterInv, LoneInv, [Next]_vars PROVE LoneInv'
  OBVIOUS
<1>1. file \in Seq(Words) /\ Len(file) \in Nat /\ MaxEntries \in Nat /\ MaxEntries >= 1
      /\ up \subseteq Procs
  BY LedgerAssumption, LenProperties DEF TypeOK
<1>2. ASSUME NEW p \in Procs, Start(p) PROVE LoneInv'
  <2> SUFFICES ASSUME ~tainted'
               PROVE  /\ Len(file') <= MaxEntries * 3
                      /\ \A r, t \in up' : r = t
                      /\ \A r \in up' : Knows(r)'
    BY DEF LoneInv
  <2>1. ~tainted /\ up = {} /\ up' = {p} /\ file' = file
    BY <1>2 DEF Start
  <2>2. size'[p] = Len(file) /\ ~bad'[p] /\ ~trunc'[p] /\ seq'[p] = 0
    BY <1>2 DEF Start, TypeOK
  <2> QED
    BY <2>1, <2>2 DEF LoneInv, Knows
<1>3. ASSUME NEW p \in Procs, Stop(p) PROVE LoneInv'
  BY <1>3 DEF Stop, procVars, LoneInv, Knows
<1>4. ASSUME NEW p \in Procs, AppendEvent(p) PROVE LoneInv'
  <2> SUFFICES ASSUME ~tainted'
               PROVE  /\ Len(file') <= MaxEntries * 3
                      /\ \A r, t \in up' : r = t
                      /\ \A r \in up' : Knows(r)'
    BY DEF LoneInv
  <2>1. ~tainted /\ up' = up /\ chain' = chain /\ bad' = bad /\ trunc' = trunc
    BY <1>4 DEF AppendEvent, CountEntry
  <2>2. PICK e : Piece(e, chain[p], seq[p] + 1, 3) /\ Put(file, file', Len(file), e)
    BY <1>4, <2>1, LoneAppends
  <2>3. p \in up /\ file' \in Seq(Words) /\ (trunc[p] => pos'[p] = Len(file) + 3)
    BY <1>4, <2>1, LoneAppends
  <2>4. size[p] = Len(file) /\ ~bad[p] /\ size[p] + 3 <= MaxEntries * 3
    BY <1>4, <2>1, <2>3 DEF AppendEvent, CountEntry, EntryWords, LoneInv, Knows
  <2>5. size'[p] = size[p] + 3 /\ seq'[p] = seq[p] + 1
    BY <1>4 DEF AppendEvent, CountEntry, EntryWords, TypeOK
  <2>6. chain[p] \in Ids /\ seq[p] + 1 \in Numbers
    BY <1>4, <2>3, NextEntry DEF AppendEvent, CountEntry
  <2>7. Len(file') = Len(file) + 3 /\ EndsWith(file', chain[p], seq[p] + 1)
    BY <1>1, <2>2, <2>3, <2>6, PutAtEnd
  <2>8. Knows(p)'
    BY <2>1, <2>3, <2>4, <2>5, <2>7 DEF Knows
  <2>9. \A r, t \in up : r = t
    BY <2>1 DEF LoneInv
  <2> QED
    BY <2>1, <2>3, <2>4, <2>7, <2>8, <2>9
<1>5. ASSUME NEW p \in Procs, AppendDiskFull(p) PROVE LoneInv'
  BY <1>5 DEF AppendDiskFull, LoneInv
<1>6. ASSUME NEW p \in Procs, Rotate(p) PROVE LoneInv'
  <2> SUFFICES ASSUME ~tainted'
               PROVE  /\ Len(file') <= MaxEntries * 3
                      /\ \A r, t \in up' : r = t
                      /\ \A r \in up' : Knows(r)'
    BY DEF LoneInv
  <2>1. p \in up /\ up' = up /\ (~tainted \/ up = {p})
    BY <1>6, RotateFacts
  <2>2. up' = {p}
    BY <2>1 DEF LoneInv
  <2>3. /\ chain'[p] = chains + 1 /\ seq'[p] = 1 /\ size'[p] = 3 /\ pos'[p] = 3 /\ ~bad'[p]
        /\ Piece(file', chains + 1, 1, 3)
    BY <1>6, RotateFacts
  <2>4. /\ Len(file') = 3 /\ file'[1] = SeqWord(1) /\ file'[2] = Prev(chains + 1, 1)
        /\ file'[3] = Hash(chains + 1, 1)
    BY <2>3 DEF Piece
  <2>5. EndsWith(file', chains + 1, 1)
    BY <2>4 DEF EndsWith
  <2>6. Knows(p)'
    BY <2>3, <2>4, <2>5 DEF Knows
  <2>7. 3 <= MaxEntries * 3
    BY <1>1
  <2> QED
    BY <2>2, <2>4, <2>6, <2>7
<1>7. CASE PowerLoss
  BY <1>7 DEF PowerLoss, LoneInv
<1>8. CASE UNCHANGED vars
  BY <1>8 DEF vars, procVars, LoneInv, Knows
<1> QED
  BY <1>2, <1>3, <1>4, <1>5, <1>6, <1>7, <1>8 DEF Next

(* What a lone process knows makes its counters exact.                       *)
LEMMA LoneIsExact == TypeOK /\ LoneInv => LoneWriterIsExact
<1> SUFFICES ASSUME TypeOK, LoneInv, ~tainted
             PROVE  /\ Len(file) <= MaxEntries * EntryWords
                    /\ \A p \in up :
                         /\ size[p] = Len(file)
                         /\ seq[p] > 0 => SubSeq(file, (Len(file) - EntryWords) + 1, Len(file))
                                            = Entry(chain[p], seq[p])
  BY DEF LoneWriterIsExact
<1>1. Len(file) <= MaxEntries * EntryWords /\ \A p \in up : Knows(p)
  BY DEF LoneInv, EntryWords
<1>2. ASSUME NEW p \in up, seq[p] > 0
      PROVE  SubSeq(file, (Len(file) - EntryWords) + 1, Len(file)) = Entry(chain[p], seq[p])
  <2> DEFINE c == chain[p]
             n == seq[p]
             N == Len(file)
             s == SubSeq(file, N - 2, N)
  <2>1. EndsWith(file, c, n)
    BY <1>1, <1>2 DEF Knows
  <2>2. file \in Seq(Words) /\ N \in Nat /\ N >= 3
    BY <2>1, LenProperties DEF TypeOK, EndsWith
  <2>3. \A i \in N - 2 .. N : i \in 1 .. N
    BY <2>2
  <2>4. \A i \in N - 2 .. N : file[i] \in Words
    BY <2>2, <2>3, ElementOfSeq
  <2>5. N - 2 \in Int /\ N \in Int
    BY <2>2
  <2> HIDE DEF c, n, N
  <2>6. /\ s \in Seq(Words)
        /\ Len(s) = IF N - 2 <= N THEN N - (N - 2) + 1 ELSE 0
        /\ \A i \in 1 .. N - (N - 2) + 1 : s[i] = file[(N - 2) + i - 1]
    BY <2>4, <2>5, SubSeqProperties
  <2>7. Len(s) = 3 /\ N - (N - 2) + 1 = 3
    BY <2>2, <2>6
  <2>8. 1 \in 1 .. 3 /\ 2 \in 1 .. 3 /\ 3 \in 1 .. 3
        /\ (N - 2) + 1 - 1 = N - 2 /\ (N - 2) + 2 - 1 = N - 1 /\ (N - 2) + 3 - 1 = N
    BY <2>2
  <2>9. s[1] = file[N - 2] /\ s[2] = file[N - 1] /\ s[3] = file[N]
    BY <2>6, <2>7, <2>8
  <2>10. s[1] = SeqWord(n) /\ s[2] = Prev(c, n) /\ s[3] = Hash(c, n)
    BY <2>1, <2>9 DEF EndsWith, N
  <2> HIDE DEF s
  <2>11. s = <<s[1], s[2], s[3]>>
    BY <2>6, <2>7
  <2>12. s = Entry(c, n)
    BY <2>10, <2>11 DEF Entry, Prev
  <2>13. (N - EntryWords) + 1 = N - 2
    BY <2>2 DEF EntryWords
  <2> QED
    BY <2>12, <2>13 DEF s, c, n, N
<1> QED
  BY <1>1, <1>2 DEF Knows

(* The steps of a lone process extend the file or rotate it.                 *)
LEMMA StepAppendOnly ==
  ASSUME TypeOK, WriterInv, LoneInv, [Next]_vars, ~tainted, ~tainted', file' # file
  PROVE  \/ Len(file') >= Len(file) /\ SubSeq(file', 1, Len(file)) = file
         \/ \E p \in Procs : Rotate(p)
<1>1. file \in Seq(Words) /\ Len(file) \in Nat
  BY LenProperties DEF TypeOK
<1>2. ASSUME NEW p \in Procs, AppendEvent(p)
      PROVE  Len(file') >= Len(file) /\ SubSeq(file', 1, Len(file)) = file
  <2>1. PICK e : Piece(e, chain[p], seq[p] + 1, 3) /\ Put(file, file', Len(file), e)
    BY <1>2, LoneAppends
  <2>2. p \in up /\ file' \in Seq(Words)
    BY <1>2, LoneAppends
  <2>3. chain[p] \in Ids /\ seq[p] + 1 \in Numbers
    BY <1>2, <2>2, NextEntry DEF AppendEvent, CountEntry
  <2>4. Len(file') = Len(file) + 3 /\ SubSeq(file', 1, Len(file)) = file
    BY <1>1, <2>1, <2>2, <2>3, PutAtEnd
  <2> QED
    BY <1>1, <2>4
<1>3. ASSUME NEW p \in Procs, Start(p) \/ Stop(p) PROVE FALSE
  BY <1>3 DEF Start, Stop
<1>4. ASSUME NEW p \in Procs, AppendDiskFull(p) PROVE FALSE
  BY <1>4 DEF AppendDiskFull
<1>5. ~PowerLoss /\ ~(UNCHANGED vars)
  BY DEF PowerLoss, vars
<1> QED
  BY <1>2, <1>3, <1>4, <1>5 DEF Next
-----------------------------------------------------------------------------
(* What the verifier has seen when it reports nothing. *)

(* Induction on the natural numbers, for a set.                              *)
LEMMA Induction ==
  ASSUME NEW T \in SUBSET Nat, 0 \in T, \A n \in T : n + 1 \in T
  PROVE  \A n \in Nat : n \in T
<1> SUFFICES ASSUME NEW m \in Nat, m \notin T PROVE FALSE
  OBVIOUS
<1> DEFINE U == Nat \ T
<1>1. U \in SUBSET Nat /\ U # {}
  OBVIOUS
<1>2. \E x \in U : \A y \in U : ~(<<y, x>> \in OpToRel(<, Nat))
  BY <1>1, NatLessThanWellFounded, WFMin
<1>3. PICK x \in U : \A y \in U : ~(<<y, x>> \in OpToRel(<, Nat))
  BY <1>2
<1>4. x \in Nat /\ x # 0 /\ x \notin T
  OBVIOUS
<1>5. x - 1 \in Nat /\ x - 1 < x /\ (x - 1) + 1 = x
  BY <1>4
<1>6. x - 1 \notin T
  BY <1>4, <1>5
<1>7. <<x - 1, x>> \in OpToRel(<, Nat)
  BY <1>4, <1>5 DEF OpToRel
<1> QED
  BY <1>3, <1>5, <1>6, <1>7

(* The verifier's walk, unfolded: it starts with the empty verdict and takes *)
(* the entries one by one.                                                   *)
LEMMA WalkSteps ==
  ASSUME NEW es, Len(es) \in Nat
  PROVE  /\ Walk(es)[0] = VerifyStart
         /\ \A i \in 1 .. Len(es) : Walk(es)[i] = VerifyStep(Walk(es)[i - 1], es[i], i)
<1> DEFINE F(g, i) == IF i = 0 THEN VerifyStart ELSE VerifyStep(g[i - 1], es[i], i)
           N == Len(es)
           Good(m) == \E g : \A i \in 0 .. m : g[i] = F(g, i)
           T == {m \in Nat : Good(m)}
<1>1. 0 \in T
  <2>1. \A i \in 0 .. 0 : [j \in 0 .. 0 |-> VerifyStart][i] = VerifyStart /\ i = 0
    OBVIOUS
  <2> QED
    BY <2>1
<1>2. ASSUME NEW m \in T PROVE m + 1 \in T
  <2>1. PICK g : \A i \in 0 .. m : g[i] = F(g, i)
    BY <1>2
  <2> DEFINE h == [i \in 0 .. m + 1 |-> IF i = m + 1 THEN F(g, i) ELSE g[i]]
  <2>2. \A i \in 0 .. m : h[i] = g[i]
    OBVIOUS
  <2>3. \A i \in 0 .. m + 1 : i # 0 => i - 1 \in 0 .. m
    OBVIOUS
  <2>4. \A i \in 0 .. m + 1 : F(h, i) = F(g, i)
    BY <2>2, <2>3
  <2>5. \A i \in 0 .. m + 1 : h[i] = F(g, i)
    BY <2>1
  <2>6. m + 1 \in Nat
    OBVIOUS
  <2> HIDE DEF h, F
  <2> QED
    BY <2>4, <2>5, <2>6
<1>3. N \in T
  <2>1. T \in SUBSET Nat
    OBVIOUS
  <2> HIDE DEF T
  <2> QED
    BY <1>1, <1>2, <2>1, Induction
<1>4. PICK g : \A i \in 0 .. N : g[i] = F(g, i)
  BY <1>3
<1> DEFINE w == [i \in 0 .. N |-> g[i]]
<1>5. \A i \in 0 .. N : i # 0 => i - 1 \in 0 .. N
  OBVIOUS
<1>6. \A i \in 0 .. N : w[i] = F(w, i)
  BY <1>4, <1>5
<1>7. w = [i \in 0 .. N |-> F(w, i)]
  BY <1>6
<1>8. Walk(es) = [i \in 0 .. N |-> F(Walk(es), i)]
  BY <1>7 DEF Walk
<1>9. \A i \in 0 .. N : Walk(es)[i] = F(Walk(es), i)
  BY <1>8
<1>10. 0 \in 0 .. N /\ \A i \in 1 .. N : i \in 0 .. N /\ i # 0
  OBVIOUS
<1> QED
  BY <1>9, <1>10

(* What the walk has counted only grows, and it remembers the last entry. *)
LEMMA StepCounts ==
  ASSUME NEW v, NEW e, NEW i \in Nat \ {0}, NEW w, w = VerifyStep(v, e, i),
         v.breaks \in Nat, v.gaps \in Nat, v.restarts \in Nat
  PROVE  /\ w.breaks \in Nat /\ w.gaps \in Nat /\ w.restarts \in Nat
         /\ w.breaks >= v.breaks /\ w.gaps >= v.gaps
         /\ w.head = e.curr /\ w.seq = e.seq
         /\ w.breaks = v.breaks => e.prev = v.head \/ (e.prev = Seed /\ i > 1)
         /\ w.gaps = v.gaps => i = 1 \/ Follows(v.seq, e.seq) \/ e.seq = SeqWord(0)
<1> DEFINE reroot == e.prev # v.head /\ e.prev = Seed /\ i > 1
           break == e.prev # v.head /\ ~reroot
           restarts == v.restarts + (IF reroot THEN 1 ELSE 0)
           inOrder == i = 1 \/ Follows(v.seq, e.seq) \/ (restarts > 0 /\ e.seq = SeqWord(0))
<1>1. /\ w.restarts = restarts
      /\ w.breaks = v.breaks + (IF break THEN 1 ELSE 0)
      /\ w.gaps = v.gaps + (IF inOrder THEN 0 ELSE 1)
      /\ w.head = e.curr /\ w.seq = e.seq
  BY DEF VerifyStep
<1>2. /\ w.restarts \in Nat /\ w.breaks \in Nat /\ w.breaks >= v.breaks
      /\ w.breaks = v.breaks => ~break
  <2> HIDE DEF break, reroot
  <2> QED
    BY <1>1
<1>3. w.gaps \in Nat /\ w.gaps >= v.gaps /\ (w.gaps = v.gaps => inOrder)
  <2> HIDE DEF inOrder, restarts
  <2> QED
    BY <1>1
<1> QED
  BY <1>1, <1>2, <1>3

(* The counts of a verdict never decrease along the file.                    *)
LEMMA WalkCounts ==
  ASSUME NEW es, Len(es) \in Nat
  PROVE  \A i \in 0 .. Len(es) :
           /\ Walk(es)[i].breaks \in Nat /\ Walk(es)[i].gaps \in Nat
           /\ Walk(es)[i].restarts \in Nat
           /\ \A j \in 0 .. i : /\ Walk(es)[j].breaks <= Walk(es)[i].breaks
                               /\ Walk(es)[j].gaps <= Walk(es)[i].gaps
<1> DEFINE W == Walk(es)
           N == Len(es)
           Counts(i) == /\ W[i].breaks \in Nat /\ W[i].gaps \in Nat /\ W[i].restarts \in Nat
                        /\ \A j \in 0 .. i : /\ W[j].breaks <= W[i].breaks /\ W[j].gaps <= W[i].gaps
                                           /\ W[j].breaks \in Nat /\ W[j].gaps \in Nat
           T == {i \in Nat : i <= N => Counts(i)}
<1>1. /\ W[0] = VerifyStart
      /\ \A i \in 1 .. N : W[i] = VerifyStep(W[i - 1], es[i], i)
  BY WalkSteps
<1> HIDE DEF W
<1>2. 0 \in T
  <2>1. W[0].breaks = 0 /\ W[0].gaps = 0 /\ W[0].restarts = 0
    BY <1>1 DEF VerifyStart
  <2>2. \A j \in 0 .. 0 : j = 0
    OBVIOUS
  <2> QED
    BY <2>1, <2>2
<1>3. ASSUME NEW i \in T PROVE i + 1 \in T
  <2> SUFFICES ASSUME i + 1 <= N PROVE Counts(i + 1)
    OBVIOUS
  <2>1. i \in Nat /\ Counts(i) /\ i + 1 \in 1 .. N /\ (i + 1) - 1 = i
    OBVIOUS
  <2>2. W[i + 1] = VerifyStep(W[i], es[i + 1], i + 1)
    BY <1>1, <2>1
  <2>3. /\ W[i + 1].breaks \in Nat /\ W[i + 1].gaps \in Nat /\ W[i + 1].restarts \in Nat
        /\ W[i + 1].breaks >= W[i].breaks /\ W[i + 1].gaps >= W[i].gaps
    <3>1. W[i].breaks \in Nat /\ W[i].gaps \in Nat /\ W[i].restarts \in Nat
      BY <2>1
    <3> QED
      BY <2>2, <3>1, StepCounts
  <2>4. ASSUME NEW j \in 0 .. i + 1
        PROVE  /\ W[j].breaks <= W[i + 1].breaks /\ W[j].gaps <= W[i + 1].gaps
               /\ W[j].breaks \in Nat /\ W[j].gaps \in Nat
    <3>1. CASE j = i + 1
      BY <2>3, <3>1
    <3>2. CASE j # i + 1
      <4>1. j \in 0 .. i /\ j \in 0 .. j /\ j \in Nat
        BY <2>1, <3>2
      <4>2. W[j].breaks <= W[i].breaks /\ W[j].gaps <= W[i].gaps
        BY <2>1, <4>1
      <4>3. W[j].breaks \in Nat /\ W[j].gaps \in Nat
        BY <2>1, <4>1
      <4>4. W[i].breaks \in Nat /\ W[i].gaps \in Nat
        BY <2>1
      <4> QED
        BY <2>3, <4>2, <4>3, <4>4
    <3> QED
      BY <3>1, <3>2
  <2> QED
    BY <2>3, <2>4
<1>4. \A n \in Nat : n \in T
  <2>1. T \in SUBSET Nat
    OBVIOUS
  <2> HIDE DEF T
  <2> QED
    BY <1>2, <1>3, <2>1, Induction
<1> QED
  BY <1>4 DEF W

(* The entries the verifier sees are every three words of the file.          *)
LEMMA EntriesFacts ==
  ASSUME NEW f \in Seq(Words)
  PROVE  /\ Len(Entries(f)) = Len(f) \div 3 /\ Len(Entries(f)) \in Nat
         /\ \A i \in 1 .. Len(Entries(f)) :
              /\ 3 * i <= Len(f)
              /\ Entries(f)[i].seq = f[3 * i - 2]
              /\ Entries(f)[i].prev = f[3 * i - 1]
              /\ Entries(f)[i].curr = f[3 * i]
<1> DEFINE M == Len(f) \div 3
           S == [seq : Words, prev : Words, curr : Words]
           es == Entries(f)
<1>1. Len(f) \in Nat
  BY LenProperties
<1>2. M \in Nat /\ 3 * M <= Len(f)
  BY <1>1
<1>3. es = [i \in 1 .. M |-> [seq |-> f[3 * i - 2], prev |-> f[3 * i - 1], curr |-> f[3 * i]]]
  BY DEF Entries, EntryWords
<1> HIDE DEF M, es
<1>4. ASSUME NEW i \in 1 .. M
      PROVE  /\ 3 * i - 2 \in 1 .. Len(f) /\ 3 * i - 1 \in 1 .. Len(f) /\ 3 * i \in 1 .. Len(f)
             /\ 3 * i <= Len(f)
  BY <1>1, <1>2
<1>5. ASSUME NEW i \in 1 .. M PROVE es[i] \in S
  <2>1. f[3 * i - 2] \in Words /\ f[3 * i - 1] \in Words /\ f[3 * i] \in Words
    BY <1>4, ElementOfSeq
  <2> QED
    BY <1>3, <2>1
<1>6. es \in [1 .. M -> S]
  BY <1>3, <1>5
<1>7. es \in Seq(S) /\ Len(es) = M
  <2> HIDE DEF S
  <2> QED
    BY <1>2, <1>6, SeqDef, LenProperties
<1>8. \A i \in 1 .. M : /\ es[i].seq = f[3 * i - 2] /\ es[i].prev = f[3 * i - 1]
                       /\ es[i].curr = f[3 * i]
  BY <1>3
<1> QED
  BY <1>2, <1>4, <1>7, <1>8 DEF M, es

(* What it means that the verifier finds no break, and no gap. *)
LEMMA NoBreak ==
  ASSUME file \in Seq(Words), Verify(file).breaks <= 0,
         NEW i \in 1 .. Len(Entries(file))
  PROVE  LET es == Entries(file)
         IN es[i].prev = Seed \/ (i > 1 /\ es[i].prev = es[i - 1].curr)
<1> DEFINE es == Entries(file)
           W == Walk(es)
           N == Len(es)
<1>1. N \in Nat /\ i \in 0 .. N /\ i - 1 \in 0 .. N /\ N \in 0 .. N /\ i \in Nat
  BY EntriesFacts
<1> HIDE DEF es
<1>2. W[N].breaks <= 0
  BY DEF Verify, es
<1> HIDE DEF W
<1>3. /\ \A j \in 0 .. N : W[j].breaks <= W[N].breaks /\ W[j].breaks \in Nat
      /\ W[i - 1].gaps \in Nat /\ W[i - 1].restarts \in Nat
  BY <1>1, WalkCounts DEF W
<1>4. W[i - 1].breaks = 0 /\ W[i].breaks = 0
  BY <1>1, <1>2, <1>3
<1>5. W[i] = VerifyStep(W[i - 1], es[i], i)
  BY <1>1, WalkSteps DEF W, es
<1>6. es[i].prev = W[i - 1].head \/ (es[i].prev = Seed /\ ~(i = 1))
  <2>1. W[i - 1].breaks \in Nat
    BY <1>1, <1>3
  <2> QED
    BY <1>3, <1>4, <1>5, <2>1, StepCounts
<1>7. CASE i = 1
  <2>1. W[i - 1] = VerifyStart
    BY <1>1, <1>7, WalkSteps DEF W
  <2> QED
    BY <1>6, <1>7, <2>1 DEF VerifyStart, es
<1>8. CASE i # 1
  <2>1. i > 1 /\ i - 1 \in 1 .. N /\ (i - 1) - 1 \in 0 .. N
    BY <1>1, <1>8
  <2>2. W[i - 1] = VerifyStep(W[(i - 1) - 1], es[i - 1], i - 1)
    BY <1>1, <2>1, WalkSteps DEF W
  <2>3. W[i - 1].head = es[i - 1].curr
    BY <2>2 DEF VerifyStep
  <2> QED
    BY <1>6, <2>1, <2>3 DEF es
<1> QED
  BY <1>7, <1>8

(* Without a gap each entry's number follows the one before it, or is that   *)
(* of a new beginning.                                                       *)
LEMMA NoGap ==
  ASSUME file \in Seq(Words), Verify(file).gaps <= 0,
         NEW i \in 2 .. Len(Entries(file))
  PROVE  LET es == Entries(file)
         IN Follows(es[i - 1].seq, es[i].seq) \/ es[i].seq = SeqWord(0)
<1> DEFINE es == Entries(file)
           W == Walk(es)
           N == Len(es)
<1>1. /\ N \in Nat /\ i \in 0 .. N /\ i \in 1 .. N /\ i - 1 \in 0 .. N /\ N \in 0 .. N
      /\ i - 1 \in 1 .. N /\ (i - 1) - 1 \in 0 .. N /\ i # 1
  BY EntriesFacts
<1> HIDE DEF es
<1>2. W[N].gaps <= 0
  BY DEF Verify, es
<1> HIDE DEF W
<1>3. /\ \A j \in 0 .. N : W[j].gaps <= W[N].gaps /\ W[j].gaps \in Nat
      /\ W[i - 1].breaks \in Nat /\ W[i - 1].restarts \in Nat
  BY <1>1, WalkCounts DEF W
<1>4. W[i - 1].gaps = 0 /\ W[i].gaps = 0
  BY <1>1, <1>2, <1>3
<1>5. W[i] = VerifyStep(W[i - 1], es[i], i)
  BY <1>1, WalkSteps DEF W
<1>6. Follows(W[i - 1].seq, es[i].seq) \/ es[i].seq = SeqWord(0)
  <2>1. W[i - 1].gaps \in Nat
    BY <1>1, <1>3
  <2> QED
    BY <1>1, <1>3, <1>4, <1>5, <2>1, StepCounts
<1>7. W[i - 1] = VerifyStep(W[(i - 1) - 1], es[i - 1], i - 1)
  BY <1>1, WalkSteps DEF W
<1>8. W[i - 1].seq = es[i - 1].seq
  BY <1>7 DEF VerifyStep
<1> QED
  BY <1>6, <1>8 DEF es
-----------------------------------------------------------------------------
(* The verdict. *)

(* The words of an entry as the verifier reads them. *)
LEMMA EntryWordsAre ==
  ASSUME file \in Seq(Words), NEW i \in 1 .. Len(Entries(file))
  PROVE  LET e == Entries(file)[i]
         IN /\ 3 * i - 2 \in 1 .. Len(file) /\ 3 * i - 1 \in 1 .. Len(file)
            /\ 3 * i \in 1 .. Len(file)
            /\ e.seq = file[3 * i - 2] /\ e.prev = file[3 * i - 1] /\ e.curr = file[3 * i]
            /\ e.seq \in Words /\ e.prev \in Words /\ e.curr \in Words
<1>1. Len(file) \in Nat /\ 3 * i <= Len(file) /\ i \in Nat /\ i >= 1
  BY EntriesFacts, LenProperties
<1>2. 3 * i - 2 \in 1 .. Len(file) /\ 3 * i - 1 \in 1 .. Len(file) /\ 3 * i \in 1 .. Len(file)
  BY <1>1
<1>3. file[3 * i - 2] \in Words /\ file[3 * i - 1] \in Words /\ file[3 * i] \in Words
  BY <1>2, ElementOfSeq
<1> QED
  BY <1>2, <1>3, EntriesFacts

(* Within an entry the verifier sees, hashes follow what they follow in the  *)
(* entry they were written with.                                             *)
LEMMA EntryWordInv ==
  ASSUME file \in Seq(Words), WordInv, NEW i \in 1 .. Len(Entries(file))
  PROVE  LET e == Entries(file)[i]
         IN /\ IsNumber(e.prev) \/ Proper(e.seq, e.prev)
            /\ IsNumber(e.curr) \/ Proper(e.prev, e.curr)
<1>1. i \in Nat
  BY EntriesFacts
<1>2. /\ (3 * i) % 3 = 0 /\ (3 * i - 1) % 3 = 2
      /\ 3 * i - 1 > 1 /\ 3 * i > 1 /\ (3 * i - 1) - 1 = 3 * i - 2
  <2>1. i >= 1
    OBVIOUS
  <2> QED
    BY <1>1, <2>1
<1>3. IsNumber(file[3 * i - 1]) \/ Proper(file[3 * i - 2], file[3 * i - 1])
  <2>1. 3 * i - 1 \in 1 .. Len(file)
    BY EntryWordsAre
  <2> QED
    BY <1>2, <2>1 DEF WordInv, WordsFollow
<1>4. IsNumber(file[3 * i]) \/ Proper(file[3 * i - 1], file[3 * i])
  <2>1. 3 * i \in 1 .. Len(file)
    BY EntryWordsAre
  <2> QED
    BY <1>2, <2>1 DEF WordInv, WordsFollow
<1> QED
  BY <1>3, <1>4, EntryWordsAre

(* What follows what in an entry. *)
LEMMA AfterNumber ==
  ASSUME NEW s, NEW p, IsNumber(s), Proper(s, p)
  PROVE  \E c \in Ids, n \in Numbers : s = SeqWord(n) /\ p = Prev(c, n)
<1>1. \A c \in Ids, n \in Numbers : s # Prev(c, n)
  BY PrevFacts
<1> QED
  BY <1>1 DEF Proper

(* The hash written after a prev_hash has the same position, and the same    *)
(* predecessor.                                                              *)
LEMMA AfterPrev ==
  ASSUME NEW c \in Ids, NEW n \in Numbers, NEW h, Proper(Prev(c, n), h)
  PROVE  \E d \in Ids : h = Hash(d, n) /\ Prev(d, n) = Prev(c, n)
<1>1. PICK d \in Ids, m \in Numbers :
        \/ Prev(c, n) = SeqWord(m) /\ h = Prev(d, m)
        \/ Prev(c, n) = Prev(d, m) /\ h = Hash(d, m)
  BY DEF Proper
<1>2. Prev(c, n) # SeqWord(m)
  BY PrevFacts, WordFacts
<1>3. Prev(c, n) = Prev(d, m) /\ h = Hash(d, m)
  BY <1>1, <1>2
<1>4. m = n
  <2>1. CASE n = 1
    BY <1>3, <2>1, PrevFacts
  <2>2. CASE n # 1
    <3>1. m # 1
      BY <1>3, <2>2, PrevFacts
    <3>2. Hash(c, n - 1) = Hash(d, m - 1)
      BY <1>3, <2>2, <3>1 DEF Prev
    <3>3. n - 1 = m - 1
      BY <3>2, WordFacts
    <3> QED
      BY <3>3, LedgerAssumption DEF Numbers
  <2> QED
    BY <2>1, <2>2
<1> QED
  BY <1>3, <1>4

(* Read where the verifier finds no fault, an entry is whole. *)
LEMMA WholeEntry ==
  ASSUME NEW e, ~IsNumber(e.prev), ~IsNumber(e.curr), IsNumber(e.seq),
         Proper(e.seq, e.prev), Proper(e.prev, e.curr)
  PROVE  \E c \in Ids, n \in Numbers : Is(e, c, n)
<1>1. PICK c \in Ids, n \in Numbers : e.seq = SeqWord(n) /\ e.prev = Prev(c, n)
  BY AfterNumber
<1>2. PICK d \in Ids : e.curr = Hash(d, n) /\ Prev(d, n) = Prev(c, n)
  BY <1>1, AfterPrev
<1> QED
  BY <1>1, <1>2 DEF Is, Entry, Prev

(* The fields of an entry that is the one written.                           *)
LEMMA IsFacts ==
  ASSUME NEW e, NEW c, NEW n, Is(e, c, n)
  PROVE  e.seq = SeqWord(n) /\ e.prev = Prev(c, n) /\ e.curr = Hash(c, n)
BY DEF Is, Entry, Prev

(* What the verdict says of each entry. *)
LEMMA ValidEntries ==
  ASSUME file \in Seq(Words), WordInv, Valid(file), NEW i \in 1 .. Len(Entries(file))
  PROVE  LET es == Entries(file)
             e == es[i]
         IN /\ e.prev = Seed \/ (i > 1 /\ e.prev = es[i - 1].curr)
            /\ i > 1 => Follows(es[i - 1].seq, e.seq) \/ e.seq = SeqWord(0)
            /\ Len(file) = 3 * Len(es) /\ Len(es) \in Nat
            /\ ~IsNumber(e.prev) => IsNumber(e.seq)
<1> DEFINE es == Entries(file)
           e == es[i]
<1>1. /\ Verify(file).breaks <= 0 /\ Verify(file).gaps <= 0 /\ Len(file) % 3 = 0
  BY DEF Valid, Trailing, EntryWords
<1>2. Len(file) = 3 * Len(es) /\ Len(es) \in Nat
  <2>1. Len(file) \in Nat /\ Len(es) = Len(file) \div 3 /\ Len(es) \in Nat
    BY EntriesFacts, LenProperties
  <2> HIDE DEF es
  <2> QED
    BY <1>1, <2>1
<1>3. e.prev = Seed \/ (i > 1 /\ e.prev = es[i - 1].curr)
  BY <1>1, NoBreak
<1>4. i > 1 => Follows(es[i - 1].seq, e.seq) \/ e.seq = SeqWord(0)
  <2>1. i > 1 => i \in 2 .. Len(es)
    BY <1>2
  <2> QED
    BY <1>1, <2>1, NoGap
<1>5. ASSUME ~IsNumber(e.prev) PROVE IsNumber(e.seq)
  <2>1. CASE i > 1
    <3>1. \A s : IsNumber(SeqWord(s))
      BY WordFacts
    <3> QED
      BY <1>4, <2>1, <3>1 DEF Follows
  <2>2. CASE ~(i > 1)
    <3>1. e.prev = Seed /\ Proper(e.seq, e.prev)
      BY <1>3, <1>5, <2>2, EntryWordInv
    <3>2. PICK c \in Ids, n \in Numbers :
            \/ e.seq = SeqWord(n) /\ e.prev = Prev(c, n)
            \/ e.seq = Prev(c, n) /\ e.prev = Hash(c, n)
      BY <3>1 DEF Proper
    <3>3. Hash(c, n) # Seed
      BY WordFacts DEF Ids
    <3> QED
      BY <3>1, <3>2, <3>3, WordFacts
  <2> QED
    BY <2>1, <2>2
<1> QED
  BY <1>2, <1>3, <1>4, <1>5

(* Where no curr_hash up to it is a number, an entry is chained. *)
LEMMA HashesAreChained ==
  ASSUME file \in Seq(Words), WordInv, Valid(file), NEW i \in 1 .. Len(Entries(file)),
         \A j \in 1 .. i : ~IsNumber(Entries(file)[j].curr)
  PROVE  Chained(Entries(file), i)
<1> DEFINE es == Entries(file)
<1>1. i \in Nat /\ Len(es) \in Nat /\ i <= Len(es) /\ i >= 1
  BY EntriesFacts
<1>2. ASSUME NEW j \in 1 .. i PROVE \E c \in Ids, n \in Numbers : Is(es[j], c, n)
  <2>1. j \in 1 .. Len(es) /\ (j > 1 => j - 1 \in 1 .. i)
    BY <1>1
  <2>2. es[j].prev = Seed \/ (j > 1 /\ es[j].prev = es[j - 1].curr)
    BY <2>1, ValidEntries
  <2>3. ~IsNumber(es[j].prev)
    BY <2>1, <2>2, WordFacts
  <2>4. IsNumber(es[j].seq)
    BY <2>1, <2>3, ValidEntries
  <2>5. Proper(es[j].seq, es[j].prev) /\ Proper(es[j].prev, es[j].curr)
    BY <2>1, <2>3, EntryWordInv
  <2> HIDE DEF es
  <2> QED
    BY <2>3, <2>4, <2>5, WholeEntry DEF es
<1>3. PICK c \in Ids, n \in Numbers : Is(es[i], c, n)
  BY <1>1, <1>2
<1>4. es[i].prev = Prev(c, n) /\ es[i].curr = Hash(c, n)
  BY <1>3, IsFacts
<1>5. CASE n = 1
  BY <1>3, <1>5 DEF Chained, Ids, Numbers, es
<1>6. CASE n # 1
  <2>1. es[i].prev # Seed
    BY <1>4, <1>6, PrevFacts
  <2>2. i > 1 /\ es[i].prev = es[i - 1].curr
    BY <2>1, ValidEntries
  <2>3. i - 1 \in 1 .. i
    BY <1>1, <2>2
  <2>4. PICK d \in Ids, m \in Numbers : Is(es[i - 1], d, m)
    BY <1>2, <2>3
  <2>5. Hash(d, m) = Hash(c, n - 1)
    <3>1. es[i - 1].curr = Hash(d, m)
      BY <2>4, IsFacts
    <3> QED
      BY <1>4, <1>6, <2>2, <3>1 DEF Prev
  <2>6. d = c /\ m = n - 1
    BY <2>5, WordFacts
  <2>7. Is(es[i - 1], c, n - 1)
    BY <2>4, <2>6
  <2> QED
    BY <1>3, <2>2, <2>7 DEF Chained, Ids, Numbers, es
<1> QED
  BY <1>5, <1>6

(* The first entry with a number for its curr_hash. *)
LEMMA FirstNumber ==
  ASSUME NEW es, Len(es) \in Nat, NEW k \in 1 .. Len(es), IsNumber(es[k].curr)
  PROVE  \E j \in 1 .. k : IsNumber(es[j].curr) /\ \A i \in 1 .. j - 1 : ~IsNumber(es[i].curr)
<1> DEFINE U == {j \in Nat : j \in 1 .. k /\ IsNumber(es[j].curr)}
<1>1. U \in SUBSET Nat /\ U # {}
  OBVIOUS
<1>2. \E x \in U : \A y \in U : ~(<<y, x>> \in OpToRel(<, Nat))
  BY <1>1, NatLessThanWellFounded, WFMin
<1>3. PICK x \in U : \A y \in U : ~(<<y, x>> \in OpToRel(<, Nat))
  BY <1>2
<1>4. ASSUME NEW i \in 1 .. x - 1 PROVE ~IsNumber(es[i].curr)
  <2>1. i \in Nat /\ i < x /\ i \in 1 .. k /\ x \in Nat
    OBVIOUS
  <2>2. <<i, x>> \in OpToRel(<, Nat)
    BY <2>1 DEF OpToRel
  <2> QED
    BY <1>3, <2>1, <2>2
<1> QED
  BY <1>4

(* Below the tear a number for a curr_hash comes with one for the prev_hash. *)
LEMMA NoNumberBelow ==
  ASSUME file \in Seq(Words), Valid(file), WordInv, NEW T \in Nat, OnlyZeros(file, T),
         NEW j \in 1 .. Len(Entries(file)), IsNumber(Entries(file)[j].curr),
         \A i \in 1 .. j - 1 : ~IsNumber(Entries(file)[i].curr)
  PROVE  3 * j > T /\ ~IsNumber(Entries(file)[j].prev)
<1> DEFINE es == Entries(file)
<1>1. j \in Nat /\ Len(es) \in Nat /\ (j > 1 => j - 1 \in 1 .. j - 1)
  <2>1. Len(es) \in Nat
    BY EntriesFacts
  <2>2. j \in 1 .. Len(es)
    OBVIOUS
  <2> HIDE DEF es
  <2> QED
    BY <2>1, <2>2
<1>2. es[j].prev = Seed \/ (j > 1 /\ es[j].prev = es[j - 1].curr)
  BY ValidEntries
<1>3. ~IsNumber(es[j].prev)
  BY <1>1, <1>2, WordFacts
<1>4. /\ 3 * j \in 1 .. Len(file) /\ es[j].prev = file[3 * j - 1] /\ es[j].curr = file[3 * j]
  BY EntryWordsAre
<1>5. (3 * j) % 3 = 0
  BY <1>1
<1>6. ASSUME 3 * j <= T PROVE FALSE
  <2>1. file[3 * j - 1] = Zero
    BY <1>4, <1>5, <1>6 DEF OnlyZeros
  <2> QED
    BY <1>3, <1>4, <2>1, WordFacts
<1> QED
  BY <1>1, <1>3, <1>6

(* After the tear it is followed by a zero in the same place. *)
LEMMA NumberGoesOn ==
  ASSUME file \in Seq(Words), Valid(file), WordInv, NEW T \in Nat, Torn(file, T),
         NEW i \in 1 .. Len(Entries(file)), i < Len(Entries(file)), 3 * i > T,
         IsNumber(Entries(file)[i].curr),
         ~IsNumber(Entries(file)[i].prev) \/ Entries(file)[i].curr = Zero
  PROVE  Entries(file)[i + 1].curr = Zero
<1> DEFINE es == Entries(file)
           m == i + 1
<1>1. i \in Nat /\ Len(es) \in Nat /\ m \in 1 .. Len(es) /\ m > 1 /\ m - 1 = i
  BY EntriesFacts
<1>2. /\ es[i].prev = file[3 * i - 1] /\ es[i].curr = file[3 * i] /\ 3 * i \in 1 .. Len(file)
      /\ es[i].seq = file[3 * i - 2]
  BY EntryWordsAre
<1>3. /\ es[m].prev = file[3 * m - 1] /\ es[m].curr = file[3 * m] /\ es[m].seq = file[3 * m - 2]
      /\ 3 * m \in 1 .. Len(file) /\ 3 * m - 1 \in 1 .. Len(file)
  BY <1>1, EntryWordsAre
<1> HIDE DEF es
<1>4. /\ 3 * i + 1 = 3 * m - 2 /\ (3 * m - 1) + 1 = 3 * m
      /\ (3 * m - 1) % 3 = 2 /\ (3 * m - 1) % 3 # 0
  BY <1>1
<1>5. Len(file) \in Nat /\ 3 * m - 1 \in T + 1 .. Len(file) /\ 3 * i \in T + 1 .. Len(file)
  BY <1>1, <1>2, <1>3, LenProperties
<1>6. es[m].prev = Seed \/ es[m].prev = es[i].curr
  BY <1>1, ValidEntries DEF es
<1>7. CASE es[m].prev = es[i].curr
  <2>1. file[3 * m - 1] = Zero
    <3>1. IsNumber(file[3 * m - 1])
      BY <1>3, <1>7 DEF es
    <3> QED
      BY <1>4, <1>5, <3>1 DEF Torn
  <2>2. ZerosGoOn(file, 3 * m - 1)
    BY <1>5 DEF Torn
  <2>3. file[(3 * m - 1) + 1] = Zero
    BY <1>4, <2>1, <2>2 DEF ZerosGoOn
  <2> QED
    BY <1>3, <1>4, <2>3 DEF es
<1>8. CASE es[m].prev = Seed
  <2>1. es[m].seq = SeqWord(1)
    <3>1. ~IsNumber(es[m].prev)
      BY <1>8, WordFacts
    <3>2. IsNumber(es[m].seq) /\ Proper(es[m].seq, es[m].prev)
      BY <1>1, <3>1, EntryWordInv, ValidEntries DEF es
    <3>3. PICK c \in Ids, n \in Numbers : es[m].seq = SeqWord(n) /\ es[m].prev = Prev(c, n)
      BY <3>2, AfterNumber
    <3>4. n = 1
      BY <1>8, <3>3, PrevFacts
    <3> QED
      BY <3>3, <3>4
  <2>2. Follows(es[i].seq, SeqWord(1))
    <3>1. Follows(es[i].seq, es[m].seq) \/ es[m].seq = SeqWord(0)
      BY <1>1, ValidEntries DEF es
    <3>2. SeqWord(1) # SeqWord(0)
      BY WordFacts
    <3> QED
      BY <2>1, <3>1, <3>2
  <2>3. CASE es[i].curr = Zero
    <3>1. ZerosGoOn(file, 3 * i)
      BY <1>5 DEF Torn
    <3>2. file[3 * i + 1] = Zero \/ file[3 * i + 1] # SeqWord(1)
      BY <1>2, <2>3, <3>1 DEF ZerosGoOn
    <3>3. file[3 * i + 1] = SeqWord(1)
      BY <1>3, <1>4, <2>1
    <3> QED
      BY <3>2, <3>3, WordFacts DEF Zero
  <2>4. CASE ~IsNumber(es[i].prev)
    <3>1. IsNumber(es[i].seq) /\ Proper(es[i].seq, es[i].prev)
      BY <2>4, EntryWordInv, ValidEntries DEF es
    <3>2. PICK c \in Ids, n \in Numbers : es[i].seq = SeqWord(n)
      BY <3>1, AfterNumber
    <3>3. n \in Nat /\ n >= 1
      BY LedgerAssumption DEF Numbers
    <3>4. SeqWord(1) = SeqWord(n + 1)
      BY <2>2, <3>2 DEF Follows, SeqWord, Word
    <3>5. 1 = n + 1
      BY <3>4, WordFacts
    <3> QED
      BY <3>3, <3>5
  <2> QED
    BY <2>3, <2>4 DEF es
<1> QED
  BY <1>6, <1>7, <1>8

(* One torn write leaves no file that passes with a number for a curr_hash.  *)
LEMMA OneTear ==
  ASSUME file \in Seq(Words), Valid(file), WordInv,
         Aligned(file) \/ \E T \in Nat : Torn(file, T),
         NEW k \in 1 .. Len(Entries(file))
  PROVE  ~IsNumber(Entries(file)[k].curr)
<1> DEFINE es == Entries(file)
           N == Len(es)
<1>1. Len(file) \in Nat /\ N \in Nat /\ Len(file) = 3 * N
  BY EntriesFacts, LenProperties, ValidEntries
<1> SUFFICES ASSUME IsNumber(es[k].curr) PROVE FALSE
  OBVIOUS
<1>2. PICK j \in 1 .. k : IsNumber(es[j].curr) /\ \A i \in 1 .. j - 1 : ~IsNumber(es[i].curr)
  BY <1>1, FirstNumber
<1>3. j \in 1 .. N /\ 3 * j <= Len(file)
  BY <1>1
<1>4. CASE Aligned(file)
  <2>1. 3 * j > Len(file)
    BY <1>1, <1>2, <1>3, <1>4, NoNumberBelow DEF Aligned
  <2> QED
    BY <1>1, <1>3, <2>1
<1>5. ASSUME NEW T \in Nat, Torn(file, T) PROVE FALSE
  <2>1. 3 * j > T /\ ~IsNumber(es[j].prev)
    BY <1>2, <1>3, <1>5, NoNumberBelow DEF Torn
  <2> DEFINE U == {i \in Nat : j + i <= N => (IsNumber(es[j + i].curr)
                                              /\ (i > 0 => es[j + i].curr = Zero))}
  <2>2. 0 \in U
    <3>1. j + 0 = j
      BY <1>3
    <3> HIDE DEF es
    <3> QED
      BY <1>2, <3>1 DEF es
  <2>3. ASSUME NEW i \in U PROVE i + 1 \in U
    <3> SUFFICES ASSUME j + (i + 1) <= N PROVE es[j + (i + 1)].curr = Zero
      BY WordFacts
    <3> DEFINE r == j + i
    <3>1. r + 1 = j + (i + 1) /\ i \in Nat /\ r \in 1 .. N /\ r < N /\ 3 * r > T
      BY <1>1, <1>3, <2>1
    <3>2. IsNumber(es[r].curr) /\ (i > 0 => es[r].curr = Zero)
      BY <3>1
    <3>3. ~IsNumber(es[r].prev) \/ es[r].curr = Zero
      <4>1. i = 0 => r = j
        BY <1>3
      <4> HIDE DEF es, r, U
      <4> QED
        BY <2>1, <3>1, <3>2, <4>1
    <3> HIDE DEF r, U
    <3>4. es[r + 1].curr = Zero
      BY <1>5, <3>1, <3>2, <3>3, NumberGoesOn
    <3> QED
      BY <3>1, <3>4
  <2>4. \A i \in Nat : i \in U
    <3>1. U \in SUBSET Nat
      OBVIOUS
    <3> HIDE DEF U
    <3> QED
      BY <2>2, <2>3, <3>1, Induction
  <2>5. IsNumber(es[N].curr)
    <3>1. N - j \in Nat /\ j + (N - j) = N
      BY <1>1, <1>3
    <3>2. N - j \in U
      BY <2>4, <3>1
    <3> HIDE DEF es, N
    <3> QED
      BY <1>1, <3>1, <3>2
  <2>6. es[N].curr = file[Len(file)] /\ Len(file) > T
    <3>1. N \in 1 .. N
      BY <1>1, <1>3
    <3>2. es[N].curr = file[3 * N]
      BY <3>1, EntryWordsAre
    <3> QED
      BY <1>1, <1>3, <2>1, <3>2
  <2> QED
    BY <1>5, <2>5, <2>6 DEF Torn
<1> QED
  BY <1>4, <1>5

(* The invariant implies that the verdict is sound.                          *)
LEMMA VerifiedChains ==
  ASSUME TypeOK, WordInv, TearInv
  PROVE  VerifiedIsChained
<1> SUFFICES ASSUME Valid(file), NEW i \in 1 .. Len(Entries(file))
             PROVE  Chained(Entries(file), i) \/ Spliced(Entries(file), i)
  BY DEF VerifiedIsChained
<1>1. file \in Seq(Words) /\ faults \in Nat
  BY LedgerAssumption DEF TypeOK
<1>2. CASE \A j \in 1 .. i : ~IsNumber(Entries(file)[j].curr)
  BY <1>1, <1>2, HashesAreChained
<1>3. CASE \E j \in 1 .. i : IsNumber(Entries(file)[j].curr)
  <2>1. PICK j \in 1 .. i : IsNumber(Entries(file)[j].curr)
    BY <1>3
  <2>2. j \in 1 .. Len(Entries(file))
    BY <1>1, EntriesFacts
  <2>3. ~(Aligned(file) \/ \E T \in Nat : Torn(file, T))
    BY <1>1, <2>1, <2>2, OneTear
  <2>4. faults > 1
    BY <1>1, <2>3 DEF TearInv
  <2> QED
    BY <1>3, <2>4 DEF Spliced
<1> QED
  BY <1>2, <1>3
-----------------------------------------------------------------------------
(* Interleaved chains. *)

(* Where no two torn writes were spliced, a number read as prev_hash is a zero. *)
LEMMA PrevIsNoNumber ==
  ASSUME TypeOK, WordInv, TearInv, Verify(file).breaks <= 0,
         NEW k \in 1 .. Len(Entries(file)), ~Spliced(Entries(file), k), NEW m \in 1 .. k,
         IsNumber(Entries(file)[m].prev)
  PROVE  Entries(file)[m].prev = Zero
<1> DEFINE es == Entries(file)
<1>1. file \in Seq(Words) /\ faults \in Nat
  BY LedgerAssumption DEF TypeOK
<1>2. Len(es) \in Nat /\ m \in 1 .. Len(es)
  BY <1>1, EntriesFacts
<1>3. m > 1 /\ es[m].prev = es[m - 1].curr
  <2>1. es[m].prev = Seed \/ (m > 1 /\ es[m].prev = es[m - 1].curr)
    BY <1>1, <1>2, NoBreak
  <2> QED
    BY <2>1, WordFacts
<1>4. m - 1 \in 1 .. k /\ m - 1 \in 1 .. Len(es) /\ m \in Nat
  BY <1>2, <1>3
<1>5. es[m - 1].curr = file[3 * (m - 1)] /\ 3 * (m - 1) \in 1 .. Len(file)
  BY <1>1, <1>4, EntryWordsAre
<1>6. es[m].prev = file[3 * m - 1] /\ 3 * m - 1 \in 1 .. Len(file)
  BY <1>1, <1>2, EntryWordsAre
<1>7. faults <= 1
  <2>1. IsNumber(es[m - 1].curr)
    BY <1>3
  <2> QED
    BY <1>1, <1>4, <2>1 DEF Spliced
<1>8. (3 * (m - 1)) % 3 = 0 /\ (3 * m - 1) % 3 = 2 /\ Len(file) \in Nat
  BY <1>1, <1>4, LenProperties
<1>9. IsNumber(file[3 * (m - 1)])
  BY <1>3, <1>5
<1>10. ASSUME NEW T \in Nat, OnlyZeros(file, T), 3 * (m - 1) <= T PROVE es[m].prev = Zero
  <2>1. file[3 * (m - 1)] = Zero
    BY <1>5, <1>8, <1>9, <1>10 DEF OnlyZeros
  <2> QED
    BY <1>3, <1>5, <2>1
<1>11. CASE Aligned(file)
  <2>1. 3 * (m - 1) <= Len(file)
    BY <1>5
  <2> QED
    BY <1>8, <1>10, <1>11, <2>1 DEF Aligned
<1>12. ASSUME NEW T \in Nat, Torn(file, T) PROVE es[m].prev = Zero
  <2>1. CASE 3 * (m - 1) <= T
    BY <1>10, <1>12, <2>1 DEF Torn
  <2>2. CASE ~(3 * (m - 1) <= T)
    <3>1. 3 * m - 1 \in T + 1 .. Len(file)
      BY <1>4, <1>6, <2>2
    <3>2. IsNumber(file[3 * m - 1])
      BY <1>6
    <3> QED
      BY <1>6, <1>8, <1>12, <3>1, <3>2 DEF Torn
  <2> QED
    BY <2>1, <2>2
<1> QED
  BY <1>7, <1>11, <1>12 DEF TearInv

(* A hash is preceded by the hash before it, up to the first of its chain.   *)
LEMMA Precedes ==
  ASSUME TypeOK, WordInv, TearInv, Verify(file).breaks <= 0,
         NEW k \in 1 .. Len(Entries(file)), ~Spliced(Entries(file), k), NEW m \in 1 .. k,
         NEW c \in Ids, NEW n \in Numbers, Entries(file)[m].curr = Hash(c, n)
  PROVE  /\ n # 1 => m > 1 /\ Entries(file)[m - 1].curr = Hash(c, n - 1)
         /\ n = 1 => Root(file, 3 * m, c)
<1> DEFINE es == Entries(file)
<1>1. file \in Seq(Words)
  BY DEF TypeOK
<1>2. Len(es) \in Nat /\ m \in 1 .. Len(es) /\ m \in Nat /\ m >= 1
  BY <1>1, EntriesFacts
<1>3. Proper(es[m].prev, Hash(c, n))
  BY <1>1, <1>2, EntryWordInv, WordFacts
<1>4. PICK d \in Ids, l \in Numbers :
        \/ es[m].prev = SeqWord(l) /\ Hash(c, n) = Prev(d, l)
        \/ es[m].prev = Prev(d, l) /\ Hash(c, n) = Hash(d, l)
  BY <1>3 DEF Proper
<1>5. es[m].prev # SeqWord(l)
  <2>1. l # 0
    BY DEF Numbers
  <2>2. SeqWord(l) # Zero
    BY <2>1, WordFacts DEF Zero
  <2> QED
    BY <2>2, PrevIsNoNumber, WordFacts
<1>6. es[m].prev = Prev(c, n)
  BY <1>4, <1>5, WordFacts
<1>7. es[m].prev = Seed \/ (m > 1 /\ es[m].prev = es[m - 1].curr)
  BY <1>1, <1>2, NoBreak
<1>8. ASSUME n # 1 PROVE m > 1 /\ es[m - 1].curr = Hash(c, n - 1)
  <2>1. es[m].prev # Seed
    BY <1>6, <1>8, PrevFacts
  <2> QED
    BY <1>6, <1>7, <1>8, <2>1 DEF Prev
<1>9. ASSUME n = 1 PROVE Root(file, 3 * m, c)
  <2>1. es[m].prev = file[3 * m - 1] /\ es[m].curr = file[3 * m] /\ 3 * m > 1
    BY <1>1, <1>2, EntryWordsAre
  <2> QED
    BY <1>6, <1>9, <2>1 DEF Root, Prev
<1> QED
  BY <1>8, <1>9

(* In a file without breaks a hash of a chain has all its predecessors       *)
(* before it, back to the first of the chain.                                *)
LEMMA Descent ==
  ASSUME TypeOK, WordInv, TearInv, Verify(file).breaks <= 0,
         NEW k \in 1 .. Len(Entries(file)), ~Spliced(Entries(file), k), NEW m \in 1 .. k,
         NEW c \in Ids, NEW n \in Numbers, Entries(file)[m].curr = Hash(c, n)
  PROVE  /\ \A d \in Nat : d < n => d < m /\ Entries(file)[m - d].curr = Hash(c, n - d)
         /\ Root(file, 3 * (m - (n - 1)), c) /\ n - 1 < m
<1> DEFINE es == Entries(file)
           U == {d \in Nat : d < n => d < m /\ es[m - d].curr = Hash(c, n - d)}
<1>1. m \in Nat /\ n \in Nat /\ m >= 1 /\ n >= 1 /\ m <= k /\ n <= MaxAppends /\ MaxAppends \in Nat
  <2>1. Len(es) \in Nat
    BY EntriesFacts DEF TypeOK
  <2> QED
    BY <2>1, LedgerAssumption DEF Numbers
<1>2. 0 \in U
  <2>1. m - 0 = m /\ n - 0 = n /\ 0 < m
    BY <1>1
  <2> HIDE DEF es
  <2> QED
    BY <2>1 DEF es
<1>3. ASSUME NEW d \in U PROVE d + 1 \in U
  <2> SUFFICES ASSUME d + 1 < n PROVE d + 1 < m /\ es[m - (d + 1)].curr = Hash(c, n - (d + 1))
    OBVIOUS
  <2>1. d \in Nat /\ d < n
    BY <1>1
  <2>2. d < m /\ es[m - d].curr = Hash(c, n - d)
    BY <2>1
  <2>3. /\ m - d \in 1 .. k /\ n - d \in Numbers /\ n - d # 1
        /\ (m - d) - 1 = m - (d + 1) /\ (n - d) - 1 = n - (d + 1)
    BY <1>1, <2>1, <2>2 DEF Numbers
  <2>4. m - d > 1 /\ es[(m - d) - 1].curr = Hash(c, (n - d) - 1)
    BY <2>2, <2>3, Precedes
  <2> QED
    BY <1>1, <2>1, <2>3, <2>4
<1>4. \A d \in Nat : d \in U
  <2>1. U \in SUBSET Nat
    OBVIOUS
  <2> HIDE DEF U
  <2> QED
    BY <1>2, <1>3, <2>1, Induction
<1>5. n - 1 < m /\ es[m - (n - 1)].curr = Hash(c, 1)
  <2>1. n - 1 \in Nat /\ n - 1 < n /\ n - (n - 1) = 1
    BY <1>1
  <2>2. n - 1 \in U
    BY <1>4, <2>1
  <2> HIDE DEF es
  <2> QED
    BY <2>1, <2>2
<1>6. m - (n - 1) \in 1 .. k /\ 1 \in Numbers
  BY <1>1, <1>5 DEF Numbers
<1>7. Root(file, 3 * (m - (n - 1)), c)
  BY <1>5, <1>6, Precedes
<1> QED
  BY <1>4, <1>5, <1>7

(* An entry that belongs to a chain has one of its hashes.                   *)
LEMMA HashOf ==
  ASSUME NEW e, e.curr \in Words, ChainOf(e) # 0
  PROVE  \E n \in Numbers : ChainOf(e) \in Ids /\ e.curr = Hash(ChainOf(e), n)
BY DEF ChainOf, Words, SeqWord, Seed, Hash, Word, Ids, Numbers

(* An entry with a hash of a chain belongs to that chain.                    *)
LEMMA ChainOfHash ==
  ASSUME NEW e, NEW c, NEW n, e.curr = Hash(c, n)
  PROVE  ChainOf(e) = c
BY DEF ChainOf, Hash, Word

(* The invariant implies that interleaving is reported: without breaks the   *)
(* two entries around the one of another chain would lead back to two        *)
(* beginnings of one chain.                                                  *)
LEMMA InterleavesBreaks ==
  ASSUME TypeOK, WordInv, TearInv, FreshInv
  PROVE  InterleavingIsReported
<1> DEFINE es == Entries(file)
<1>1. file \in Seq(Words) /\ Len(es) \in Nat
  BY EntriesFacts DEF TypeOK
<1>2. Verify(file).breaks \in Nat
  <2>1. Len(es) \in 0 .. Len(es)
    BY <1>1
  <2> HIDE DEF es
  <2>2. Walk(es)[Len(es)].breaks \in Nat
    BY <1>1, <2>1, WalkCounts
  <2> QED
    BY <2>2 DEF Verify, es
<1> SUFFICES ASSUME NEW i \in 1 .. Len(es), NEW j \in 1 .. Len(es), NEW k \in 1 .. Len(es),
                    i < j, j < k, ChainOf(es[i]) = ChainOf(es[k]), ChainOf(es[k]) # 0,
                    ChainOf(es[k]) # ChainOf(es[j]), ~Spliced(es, k),
                    Verify(file).breaks <= 0
             PROVE  FALSE
  <2>1. ~(Verify(file).breaks > 0) => Verify(file).breaks <= 0
    BY <1>2
  <2> HIDE DEF es
  <2> QED
    BY <2>1 DEF InterleavingIsReported, es
<1> DEFINE c == ChainOf(es[k])
<1>3. i \in 1 .. k /\ j \in 1 .. k /\ k \in 1 .. k /\ i \in Nat /\ j \in Nat /\ k \in Nat
  BY <1>1
<1>4. es[i].curr \in Words /\ es[k].curr \in Words
  BY <1>1, EntryWordsAre
<1> HIDE DEF es
<1>5. PICK n \in Numbers : c \in Ids /\ es[k].curr = Hash(c, n)
  BY <1>4, HashOf
<1>6. PICK l \in Numbers : es[i].curr = Hash(c, l)
  BY <1>4, HashOf
<1> HIDE DEF c
<1>7. /\ \A d \in Nat : d < n => d < k /\ es[k - d].curr = Hash(c, n - d)
      /\ Root(file, 3 * (k - (n - 1)), c) /\ n - 1 < k
  BY <1>3, <1>5, Descent DEF es
<1>8. Root(file, 3 * (i - (l - 1)), c) /\ l - 1 < i
  BY <1>3, <1>5, <1>6, Descent DEF es
<1>9. n \in Nat /\ l \in Nat /\ n >= 1 /\ l >= 1
  BY LedgerAssumption DEF Numbers
<1>10. /\ k - (n - 1) \in 1 .. Len(es) /\ i - (l - 1) \in 1 .. Len(es)
       /\ k - (n - 1) \in Nat /\ i - (l - 1) \in Nat
  BY <1>1, <1>7, <1>8, <1>9
<1>11. 3 * (k - (n - 1)) \in 1 .. Len(file) /\ 3 * (i - (l - 1)) \in 1 .. Len(file)
  BY <1>1, <1>10, EntryWordsAre DEF es
<1>12. 3 * (k - (n - 1)) = 3 * (i - (l - 1))
  BY <1>5, <1>7, <1>8, <1>11 DEF FreshInv, OneRoot
<1>13. k - j \in Nat /\ k - j < n /\ k - (k - j) = j
  BY <1>3, <1>9, <1>10, <1>12
<1>14. es[j].curr = Hash(c, n - (k - j))
  BY <1>7, <1>13
<1>15. ChainOf(es[j]) = c
  BY <1>14, ChainOfHash
<1> QED
  BY <1>15 DEF c
-----------------------------------------------------------------------------
(* The theorems. *)

IInv == TypeOK /\ WriterInv /\ WordInv /\ TearInv /\ FreshInv /\ LoneInv

(* The whole invariant at the start.                                         *)
LEMMA InitIInv == Init => IInv
<1> SUFFICES ASSUME Init PROVE IInv
  OBVIOUS
<1>1. TypeOK /\ WriterInv
  BY InitWriterInv
<1>2. file = <<>> /\ Len(file) = 0
  BY EmptySeq DEF Init
<1>3. \A q : q \notin 1 .. 0
  OBVIOUS
<1>4. WordInv
  BY <1>2, <1>3 DEF WordInv, WordsFollow
<1>5. Aligned(file) /\ Len(file) % 3 = 0
  BY <1>2, <1>3 DEF Aligned, OnlyZeros
<1>6. TearInv
  BY <1>5 DEF TearInv
<1>7. FreshInv
  BY <1>2, <1>3 DEF FreshInv, HashesAreOld, OneRoot
<1>8. LoneInv
  <2>1. up = {}
    BY DEF Init
  <2>2. 0 <= MaxEntries * 3
    BY LedgerAssumption
  <2> QED
    BY <1>2, <2>1, <2>2 DEF LoneInv
<1> QED
  BY <1>1, <1>4, <1>6, <1>7, <1>8 DEF IInv

(* Every step keeps the whole invariant.                                     *)
LEMMA StepIInv == IInv /\ [Next]_vars => IInv'
<1> SUFFICES ASSUME IInv, [Next]_vars PROVE IInv'
  OBVIOUS
<1>1. TypeOK' /\ WriterInv'
  BY StepWriterInv DEF IInv
<1>2. WordInv'
  BY StepWordInv DEF IInv
<1>3. TearInv'
  BY StepTearInv DEF IInv
<1>4. FreshInv'
  BY StepFreshInv DEF IInv
<1>5. LoneInv'
  BY StepLoneInv DEF IInv
<1> QED
  BY <1>1, <1>2, <1>3, <1>4, <1>5 DEF IInv

(* Types, and what keeps the file legible: which word can stand beside which, *)
(* where one torn write can have left a number in the place of a hash, that   *)
(* no chain has two beginnings, and what a lone writer knows.                 *)
THEOREM InductiveInvariant == Spec => []IInv
<1>1. Init => IInv
  BY InitIInv
<1>2. IInv /\ [Next]_vars => IInv'
  BY StepIInv
<1> QED
  BY <1>1, <1>2, PTL DEF Spec

(* The verdict of verify_ledger (ops.py) is sound: when it finds neither a   *)
(* break nor a gap nor trailing bytes, every entry is whole and is the first *)
(* of its chain or follows the entry before it, unless two torn writes were  *)
(* spliced: for any number of processes, restarts, rotations and faults.     *)
THEOREM VerdictIsSound == Spec => []VerifiedIsChained
<1>1. IInv => VerifiedIsChained
  BY VerifiedChains DEF IInv
<1> QED
  BY <1>1, InductiveInvariant, PTL

(* A second nexus process that forks the file is always seen: entries of one *)
(* chain around an entry of another make the walk count a break.             *)
THEOREM ForksAreReported == Spec => []InterleavingIsReported
<1>1. IInv => InterleavingIsReported
  BY InterleavesBreaks DEF IInv
<1> QED
  BY <1>1, InductiveInvariant, PTL

(* A lone writer's own count of the file's size, which decides when it       *)
(* rotates, is the size of the file, and its last hash the last in the file. *)
THEOREM LoneWriterKnows == Spec => []LoneWriterIsExact
<1>1. IInv => LoneWriterIsExact
  BY LoneIsExact DEF IInv
<1> QED
  BY <1>1, InductiveInvariant, PTL

(* A lone writer never rewrites an entry, even through a stream that a       *)
(* rotation opened with trunc: the file only grows, or starts over.          *)
THEOREM LoneWriterAppends == Spec => AppendOnly
<1> DEFINE Appends == ~tainted /\ ~tainted' =>
                        \/ Len(file') >= Len(file) /\ SubSeq(file', 1, Len(file)) = file
                        \/ \E p \in Procs : Rotate(p)
<1>1. IInv /\ [Next]_vars => [Appends]_file
  BY StepAppendOnly DEF IInv
<1> HIDE DEF Appends
<1>2. Spec => [][Appends]_file
  BY <1>1, InductiveInvariant, PTL DEF Spec
<1> QED
  BY <1>2 DEF AppendOnly, Appends
=============================================================================
