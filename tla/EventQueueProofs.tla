---------------------------- MODULE EventQueueProofs ----------------------------
(***************************************************************************)
(* Theorems about EventQueue, for every capacity and every set of          *)
(* producer threads.                                                       *)
(***************************************************************************)
EXTENDS EventQueue, SequenceTheorems, TLAPS

-----------------------------------------------------------------------------
(* Index arithmetic. *)

(* An index below twice the capacity wraps at most once. *)
LEMMA WrapOnce ==
  \A x \in Nat : x < 2 * Cap => x % Cap = IF x < Cap THEN x ELSE x - Cap
<1>0. Cap \in Nat /\ Cap >= 2
  BY QueueAssumption
<1> SUFFICES ASSUME NEW x \in Nat, x < 2 * Cap
             PROVE  x % Cap = IF x < Cap THEN x ELSE x - Cap
  OBVIOUS
<1>1. CASE x < Cap
  BY <1>0, <1>1
<1>2. CASE ~(x < Cap)
  BY <1>0, <1>2
<1>3. QED
  BY <1>1, <1>2

(* The masked increment stays in the ring. *)
LEMMA SuccValue ==
  \A i \in Slots : /\ Succ(i) = IF i = Cap - 1 THEN 0 ELSE i + 1
                   /\ Succ(i) \in Slots
<1>1. Cap \in Nat /\ Cap >= 2
  BY QueueAssumption
<1> SUFFICES ASSUME NEW i \in Slots
             PROVE  /\ Succ(i) = IF i = Cap - 1 THEN 0 ELSE i + 1
                    /\ Succ(i) \in Slots
  OBVIOUS
<1>2. i + 1 \in Nat /\ i + 1 < 2 * Cap
  BY <1>1 DEF Slots
<1>3. (i + 1) % Cap = IF i + 1 < Cap THEN i + 1 ELSE (i + 1) - Cap
  BY <1>2, WrapOnce, Zenon
<1>4. QED
  BY <1>1, <1>3 DEF Succ, Slots

(* Two indices are less than a full turn apart. *)
LEMMA DistanceType ==
  \A h, t \in Slots : Distance(h, t) \in 0 .. Cap - 1
BY QueueAssumption DEF Slots, Distance

(* Where the i-th event of a window lies. *)
LEMMA WindowIndex ==
  \A h, t \in Slots : \A i \in 1 .. Distance(h, t) :
    /\ (h + i - 1) % Cap = IF h + i - 1 < Cap THEN h + i - 1 ELSE (h + i - 1) - Cap
    /\ (h + i - 1) % Cap \in Slots
    /\ (h + i - 1) % Cap # t
<1>1. Cap \in Nat /\ Cap >= 2
  BY QueueAssumption
<1> SUFFICES ASSUME NEW h \in Slots, NEW t \in Slots, NEW i \in 1 .. Distance(h, t)
             PROVE  /\ (h + i - 1) % Cap = IF h + i - 1 < Cap THEN h + i - 1
                                                             ELSE (h + i - 1) - Cap
                    /\ (h + i - 1) % Cap \in Slots
                    /\ (h + i - 1) % Cap # t
  OBVIOUS
<1>2. h + i - 1 \in Nat /\ h + i - 1 < 2 * Cap
  BY <1>1, DistanceType DEF Slots
<1>3. (h + i - 1) % Cap = IF h + i - 1 < Cap THEN h + i - 1 ELSE (h + i - 1) - Cap
  BY <1>2, WrapOnce, Zenon
<1>4. QED
  BY <1>1, <1>2, <1>3 DEF Slots, Distance
-----------------------------------------------------------------------------
(* The events between two indices. *)

(* What a slot can hold. *)
Ring == Event \cup {NoEvent}

(* A window of a ring of S elements is a sequence over S. *)
LEMMA WindowSeq ==
  ASSUME NEW S, NEW b \in [Slots -> S]
  PROVE  \A h, t \in Slots :
           /\ Window(b, h, t) \in Seq(S)
           /\ Len(Window(b, h, t)) = Distance(h, t)
           /\ \A i \in 1 .. Distance(h, t) : Window(b, h, t)[i] = b[(h + i - 1) % Cap]
<1> TAKE h, t \in Slots
<1>1. Distance(h, t) \in Nat
  BY DistanceType, QueueAssumption
<1>2. Window(b, h, t) \in [1 .. Distance(h, t) -> S]
  BY WindowIndex DEF Window
<1>3. Window(b, h, t) \in Seq(S)
  BY <1>1, <1>2, SeqDef
<1>4. Len(Window(b, h, t)) = Distance(h, t)
  BY <1>1, <1>2, <1>3, LenProperties
<1>5. QED
  BY <1>3, <1>4 DEF Window

(* Storing the tail index appends the event that was written before it. *)
LEMMA WindowAppend ==
  ASSUME NEW S, NEW b \in [Slots -> S], NEW h \in Slots, NEW t \in Slots,
         Succ(t) # h
  PROVE  /\ Distance(h, t) < Cap - 1
         /\ Window(b, h, Succ(t)) = Append(Window(b, h, t), b[t])
<1>1. Cap \in Nat /\ Cap >= 2
  BY QueueAssumption
<1>2. Succ(t) \in Slots /\ Succ(t) = IF t = Cap - 1 THEN 0 ELSE t + 1
  BY SuccValue
<1>3. Distance(h, t) < Cap - 1 /\ Distance(h, Succ(t)) = Distance(h, t) + 1
  BY <1>1, <1>2 DEF Slots, Distance
<1> DEFINE w == Window(b, h, t)
           v == Window(b, h, Succ(t))
           n == Distance(h, t)
<1>4. n \in Nat
  BY <1>1, DistanceType
<1>5. /\ w \in Seq(S) /\ Len(w) = n
      /\ \A i \in 1 .. n : w[i] = b[(h + i - 1) % Cap]
  BY WindowSeq
<1>6. /\ v \in Seq(S) /\ Len(v) = n + 1
      /\ \A i \in 1 .. n + 1 : v[i] = b[(h + i - 1) % Cap]
  <2> HIDE DEF n
  <2>1. /\ v \in Seq(S) /\ Len(v) = Distance(h, Succ(t))
        /\ \A i \in 1 .. Distance(h, Succ(t)) : v[i] = b[(h + i - 1) % Cap]
    <3>1. \A x, y \in Slots :
            /\ Window(b, x, y) \in Seq(S)
            /\ Len(Window(b, x, y)) = Distance(x, y)
            /\ \A i \in 1 .. Distance(x, y) : Window(b, x, y)[i] = b[(x + i - 1) % Cap]
      BY WindowSeq
    <3>2. QED
      BY <1>2, <3>1, Zenon
  <2>2. Distance(h, Succ(t)) = n + 1
    BY <1>3 DEF n
  <2>3. QED
    BY <2>1, <2>2
<1>7. (h + (n + 1) - 1) % Cap = t
  BY <1>1, <1>2, <1>3, WindowIndex DEF Slots, Distance
<1>8. b[t] \in S
  OBVIOUS
<1> HIDE DEF w, v, n
<1>9. Append(w, b[t]) \in Seq(S) /\ Len(Append(w, b[t])) = n + 1
  BY <1>5, <1>8
<1>10. \A i \in 1 .. n + 1 : v[i] = Append(w, b[t])[i]
  BY <1>4, <1>5, <1>6, <1>7, <1>8
<1>11. v = Append(w, b[t])
  BY <1>6, <1>9, <1>10, SeqEqual
<1>12. QED
  BY <1>3, <1>11 DEF w, v

(* Storing the head index removes the oldest event. *)
LEMMA WindowTail ==
  ASSUME NEW S, NEW b \in [Slots -> S], NEW h \in Slots, NEW t \in Slots,
         h # t
  PROVE  /\ Window(b, h, t) # <<>>
         /\ Head(Window(b, h, t)) = b[h]
         /\ Window(b, Succ(h), t) = Tail(Window(b, h, t))
<1>1. Cap \in Nat /\ Cap >= 2
  BY QueueAssumption
<1>2. Succ(h) \in Slots /\ Succ(h) = IF h = Cap - 1 THEN 0 ELSE h + 1
  BY SuccValue
<1> DEFINE w == Window(b, h, t)
           v == Window(b, Succ(h), t)
           n == Distance(h, t)
<1>3. n \in Nat /\ n >= 1 /\ n < Cap /\ Distance(Succ(h), t) = n - 1
  BY <1>1, <1>2 DEF Slots, Distance
<1>4. /\ w \in Seq(S) /\ Len(w) = n
      /\ \A i \in 1 .. n : w[i] = b[(h + i - 1) % Cap]
  BY WindowSeq
<1>5. /\ v \in Seq(S) /\ Len(v) = n - 1
      /\ \A i \in 1 .. n - 1 : v[i] = b[(Succ(h) + i - 1) % Cap]
  <2> HIDE DEF n
  <2>1. /\ v \in Seq(S) /\ Len(v) = Distance(Succ(h), t)
        /\ \A i \in 1 .. Distance(Succ(h), t) : v[i] = b[(Succ(h) + i - 1) % Cap]
    <3>1. \A x, y \in Slots :
            /\ Window(b, x, y) \in Seq(S)
            /\ Len(Window(b, x, y)) = Distance(x, y)
            /\ \A i \in 1 .. Distance(x, y) : Window(b, x, y)[i] = b[(x + i - 1) % Cap]
      BY WindowSeq
    <3>2. QED
      BY <1>2, <3>1, Zenon
  <2>2. QED
    BY <1>3, <2>1
<1>6. \A i \in 1 .. n - 1 : (Succ(h) + i - 1) % Cap = (h + (i + 1) - 1) % Cap
  <2> SUFFICES ASSUME NEW i \in 1 .. n - 1
               PROVE  (Succ(h) + i - 1) % Cap = (h + (i + 1) - 1) % Cap
    OBVIOUS
  <2>1. i + 1 \in 1 .. Distance(h, t) /\ i \in 1 .. Distance(Succ(h), t)
    BY <1>3
  <2>2. (h + (i + 1) - 1) % Cap = IF h + (i + 1) - 1 < Cap THEN h + (i + 1) - 1
                                                          ELSE (h + (i + 1) - 1) - Cap
    BY <2>1, WindowIndex
  <2>3. (Succ(h) + i - 1) % Cap = IF Succ(h) + i - 1 < Cap THEN Succ(h) + i - 1
                                                          ELSE (Succ(h) + i - 1) - Cap
    BY <2>1, <1>2, WindowIndex
  <2> HIDE DEF n
  <2>4. i \in Nat /\ i >= 1 /\ i < Cap
    BY <1>1, <1>3
  <2>5. QED
    BY <1>1, <1>2, <2>2, <2>3, <2>4 DEF Slots
<1>7. (h + 1 - 1) % Cap = h
  BY <1>1, WrapOnce DEF Slots
<1> HIDE DEF w, v, n
<1>8. w # <<>> /\ Head(w) = b[h]
  BY <1>3, <1>4, <1>7
<1>9. Tail(w) \in Seq(S) /\ Len(Tail(w)) = n - 1
      /\ \A i \in 1 .. n - 1 : Tail(w)[i] = w[i + 1]
  BY <1>3, <1>4, <1>8, HeadTailProperties
<1>10. \A i \in 1 .. n - 1 : v[i] = Tail(w)[i]
  <2> SUFFICES ASSUME NEW i \in 1 .. n - 1
               PROVE  v[i] = Tail(w)[i]
    OBVIOUS
  <2>1. i + 1 \in 1 .. n
    BY <1>3
  <2>2. w[i + 1] = b[(h + (i + 1) - 1) % Cap]
    BY <1>4, <2>1, Zenon
  <2>3. v[i] = b[(Succ(h) + i - 1) % Cap]
    BY <1>5
  <2>4. QED
    BY <1>6, <1>9, <2>2, <2>3, Zenon
<1>11. v = Tail(w)
  BY <1>5, <1>9, <1>10, SeqEqual
<1>12. QED
  BY <1>8, <1>11 DEF w, v

(* Writing the slot at the tail index leaves the window as it is. *)
LEMMA WindowWrite ==
  \A b \in [Slots -> Ring] : \A h, t \in Slots : \A e \in Ring :
    Window([b EXCEPT ![t] = e], h, t) = Window(b, h, t)
BY WindowIndex DEF Window
-----------------------------------------------------------------------------
(* The inductive invariant. *)

(* The ring's contents are a sequence of events in every typed state. *)
LEMMA ContentsSeq ==
  TypeOK => Contents \in Seq(Ring) /\ Len(Contents) = Distance(head, tail)
BY WindowSeq DEF TypeOK, Contents, Ring

(* Pushing extends the history and the contents by the same event. *)
LEMMA AppendBoth ==
  \A a, c, w \in Seq(Ring) : \A e \in Ring :
    a = c \o w => Append(a, e) = c \o Append(w, e)
<1> DEFINE S == Ring
<1> HIDE DEF S
<1> SUFFICES ASSUME NEW a \in Seq(S), NEW c \in Seq(S), NEW w \in Seq(S), NEW e \in S,
                    a = c \o w
             PROVE  Append(a, e) = c \o Append(w, e)
  BY DEF S
<1>1. Append(a, e) \in Seq(S) /\ c \o Append(w, e) \in Seq(S)
  OBVIOUS
<1>2. Len(Append(a, e)) = Len(c \o Append(w, e))
  OBVIOUS
<1>3. \A i \in 1 .. Len(Append(a, e)) : Append(a, e)[i] = (c \o Append(w, e))[i]
  <2> DEFINE u == Append(w, e)
  <2>1. /\ u \in Seq(S) /\ Len(u) = Len(w) + 1
        /\ \A i \in 1 .. Len(w) : u[i] = w[i]
        /\ u[Len(w) + 1] = e
    OBVIOUS
  <2> HIDE DEF u
  <2>2. \A i \in 1 .. Len(c) + Len(u) :
          (c \o u)[i] = IF i <= Len(c) THEN c[i] ELSE u[i - Len(c)]
    BY <2>1, ConcatProperties
  <2>3. \A i \in 1 .. Len(c) + Len(w) :
          a[i] = IF i <= Len(c) THEN c[i] ELSE w[i - Len(c)]
    BY ConcatProperties
  <2>4. Len(a) = Len(c) + Len(w) /\ Len(c) \in Nat /\ Len(w) \in Nat
    BY ConcatProperties, LenProperties
  <2> SUFFICES ASSUME NEW i \in 1 .. Len(Append(a, e))
               PROVE  Append(a, e)[i] = (c \o u)[i]
    BY DEF u
  <2>5. CASE i = Len(a) + 1
    <3>1. i \in 1 .. Len(c) + Len(u) /\ ~(i <= Len(c)) /\ i - Len(c) = Len(w) + 1
      BY <2>1, <2>4, <2>5
    <3>2. (c \o u)[i] = e
      BY <2>1, <2>2, <3>1
    <3>3. QED
      BY <2>5, <3>2
  <2>6. CASE i \in 1 .. Len(a)
    <3>1. Append(a, e)[i] = a[i]
      BY <2>6
    <3>2. i \in 1 .. Len(c) + Len(w) /\ i \in 1 .. Len(c) + Len(u)
      BY <2>1, <2>4, <2>6
    <3>3. CASE i <= Len(c)
      BY <2>2, <2>3, <3>1, <3>2, <3>3
    <3>4. CASE ~(i <= Len(c))
      <4>1. i - Len(c) \in 1 .. Len(w)
        BY <2>4, <3>2, <3>4
      <4>2. u[i - Len(c)] = w[i - Len(c)]
        BY <2>1, <4>1
      <4>3. QED
        BY <2>2, <2>3, <3>1, <3>2, <3>4, <4>2
    <3>5. QED
      BY <3>3, <3>4
  <2>7. i \in 1 .. Len(a) \/ i = Len(a) + 1
    <3>1. Len(Append(a, e)) = Len(a) + 1
      OBVIOUS
    <3>2. i \in 1 .. Len(a) + 1
      BY <3>1
    <3> DEFINE n == Len(a)
    <3>3. n \in Nat /\ i \in 1 .. n + 1
      BY <3>2, LenProperties
    <3> HIDE DEF n
    <3>4. i \in 1 .. n \/ i = n + 1
      BY <3>3
    <3>5. QED
      BY <3>4 DEF n
  <2>8. QED
    BY <2>5, <2>6, <2>7
<1>4. QED
  BY <1>1, <1>2, <1>3, SeqEqual

(* Popping moves the oldest event from the contents to the history. *)
LEMMA MoveHead ==
  ASSUME NEW S, NEW c \in Seq(S), NEW w \in Seq(S), w # <<>>
  PROVE  c \o w = Append(c, Head(w)) \o Tail(w)
<1>1. Head(w) \in S /\ Tail(w) \in Seq(S) /\ Len(Tail(w)) = Len(w) - 1
      /\ \A i \in 1 .. Len(Tail(w)) : Tail(w)[i] = w[i + 1]
  BY HeadTailProperties
<1>2. c \o w \in Seq(S) /\ Append(c, Head(w)) \o Tail(w) \in Seq(S)
  BY <1>1
<1>3. Len(c \o w) = Len(Append(c, Head(w)) \o Tail(w))
  BY <1>1
<1>4. \A i \in 1 .. Len(c \o w) : (c \o w)[i] = (Append(c, Head(w)) \o Tail(w))[i]
  BY <1>1
<1>5. QED
  BY <1>2, <1>3, <1>4, SeqEqual

(* The ring is empty and nobody is in it at the start.                       *)
LEMMA InitIndInv == Init => IndInv
<1> SUFFICES ASSUME Init PROVE IndInv
  OBVIOUS
<1>0. Cap \in Nat /\ Cap >= 2 /\ MaxEvents \in Nat /\ NoThread \notin Producers
  BY QueueAssumption
<1>1. TypeOK
  BY <1>0 DEF Init, TypeOK, Slots
<1>2. Contents = <<>>
  <2>1. Contents \in Seq(Ring) /\ Len(Contents) = 0
    BY <1>0, <1>1, ContentsSeq DEF Init, Distance
  <2>2. QED
    BY <2>1, EmptySeq
<1>3. NothingLost
  BY <1>2 DEF Init, NothingLost
<1>4. QED
  BY <1>0, <1>1, <1>3 DEF Init, IndInv

(* A producer's own steps; p is the producer, the engine thread stands still. *)
LEMMA ProduceIndInv ==
  ASSUME IndInv, NEW p \in Producers, Produce(p)
  PROVE  IndInv'
<1>0. Cap \in Nat /\ Cap >= 2 /\ MaxEvents \in Nat /\ NoThread \notin Producers
  BY QueueAssumption
<1> USE DEF IndInv
<1>1. CASE Create(p)
  <2>1. TypeOK'
    BY <1>0, <1>1 DEF Create, Goto, ring, consumer, history, TypeOK
  <2>2. NothingLost'
    BY <1>1 DEF Create, ring, history, NothingLost, Contents, Window, Distance
  <2>3. QED
    BY <1>0, <1>1, <2>1, <2>2 DEF Create, Goto, ring, consumer, history, TypeOK, Item
<1>2. CASE SpinTest(p)
  <2>1. TypeOK'
    <3>1. Item(p) \in Event
      BY <1>2 DEF SpinTest, TypeOK, Item, Event
    <3>2. QED
      BY <1>0, <1>2, <3>1 DEF SpinTest, Goto, ring, consumer, TypeOK
  <2>2. NothingLost'
    BY <1>2 DEF SpinTest, ring, NothingLost, Contents, Window, Distance
  <2>3. QED
    BY <1>0, <1>2, <2>1, <2>2 DEF SpinTest, Goto, ring, consumer, TypeOK, Item
<1>3. CASE Lock(p)
  <2>1. TypeOK'
    BY <1>0, <1>3 DEF Lock, Goto, ring, consumer, history, TypeOK
  <2>2. NothingLost'
    BY <1>3 DEF Lock, ring, history, NothingLost, Contents, Window, Distance
  <2>3. QED
    BY <1>0, <1>3, <2>1, <2>2 DEF Lock, Goto, ring, consumer, history, TypeOK, Item
<1>4. CASE CheckFull(p)
  <2>1. TypeOK'
    <3>1. Item(p) \in Event
      BY <1>4 DEF CheckFull, TypeOK, Item, Event
    <3>2. QED
      BY <1>0, <1>4, <3>1 DEF CheckFull, Goto, ring, consumer, TypeOK
  <2>2. NothingLost'
    BY <1>4 DEF CheckFull, ring, NothingLost, Contents, Window, Distance
  <2>3. QED
    BY <1>0, <1>4, <2>1, <2>2 DEF CheckFull, Goto, ring, consumer, TypeOK, Item
<1>5. CASE WriteSlot(p)
  <2>1. TypeOK'
    BY <1>0, <1>5 DEF WriteSlot, Goto, consumer, history, TypeOK, Item, Event
  <2>2. Item(p) \in Ring
    BY <1>5 DEF WriteSlot, TypeOK, Item, Event, Ring
  <2>3. Contents' = Contents
    <3>1. Window([buffer EXCEPT ![tail] = Item(p)], head, tail) = Window(buffer, head, tail)
      <4>1. buffer \in [Slots -> Ring] /\ head \in Slots /\ tail \in Slots
        BY DEF TypeOK, Ring
      <4>2. QED
        BY <2>2, <4>1, WindowWrite
    <3>2. QED
      BY <1>5, <3>1 DEF WriteSlot, Contents
  <2>4. NothingLost'
    BY <1>5, <2>3 DEF WriteSlot, history, NothingLost
  <2>5. \A q \in Producers : pc'[q] = "publish" => buffer'[tail'] = Item(q)'
    BY <1>5 DEF WriteSlot, Goto, TypeOK, Item
  <2>6. cpc' = "advance" => event' = buffer'[head']
    BY <1>5 DEF WriteSlot, consumer, TypeOK
  <2>7. QED
    BY <1>0, <1>5, <2>1, <2>4, <2>5, <2>6 DEF WriteSlot, Goto, consumer, history, TypeOK, Succ
<1>6. CASE Publish(p)
  <2>1. Succ(tail) \in Slots /\ Succ(tail) # head
    BY <1>6, SuccValue DEF Publish, TypeOK
  <2>2. TypeOK'
    BY <1>0, <1>6, <2>1 DEF Publish, Goto, consumer, TypeOK, Item, Event
  <2>3. Contents' = Append(Contents, Item(p))
    <3>1. Window(buffer, head, Succ(tail)) = Append(Window(buffer, head, tail), buffer[tail])
      BY <2>1, WindowAppend DEF TypeOK, Ring
    <3>2. QED
      BY <1>6, <3>1 DEF Publish, Contents
  <2>4. NothingLost'
    <3>1. Item(p) \in Ring
      BY <1>6 DEF Publish, TypeOK, Item, Event, Ring
    <3>2. accepted \in Seq(Ring) /\ consumed \in Seq(Ring) /\ Contents \in Seq(Ring)
      BY ContentsSeq, SeqMonotonic DEF TypeOK, Ring
    <3>3. Append(accepted, Item(p)) = consumed \o Append(Contents, Item(p))
      <4>1. accepted = consumed \o Contents
        BY DEF NothingLost
      <4>2. QED
        BY <3>1, <3>2, <4>1, AppendBoth, Zenon
    <3>4. QED
      BY <1>6, <2>3, <3>3 DEF Publish, NothingLost
  <2>5. QED
    BY <1>0, <1>6, <2>1, <2>2, <2>4 DEF Publish, Goto, consumer, TypeOK, Item
<1>7. QED
  BY <1>1, <1>2, <1>3, <1>4, <1>5, <1>6 DEF Produce

(* The engine thread's steps. *)
LEMMA ConsumeIndInv ==
  ASSUME IndInv, Consume
  PROVE  IndInv'
<1>0. Cap \in Nat /\ Cap >= 2 /\ MaxEvents \in Nat /\ NoThread \notin Producers
  BY QueueAssumption
<1> USE DEF IndInv
<1>1. CASE Poll
  <2>1. TypeOK'
    BY <1>1 DEF Poll, producer, ring, history, TypeOK
  <2>2. NothingLost'
    BY <1>1 DEF Poll, ring, history, NothingLost, Contents, Window, Distance
  <2>3. QED
    BY <1>1, <2>1, <2>2 DEF Poll, producer, ring, history, TypeOK, Item
<1>2. CASE ReadSlot
  <2>1. TypeOK'
    BY <1>2 DEF ReadSlot, producer, ring, history, TypeOK
  <2>2. NothingLost'
    BY <1>2 DEF ReadSlot, ring, history, NothingLost, Contents, Window, Distance
  <2>3. QED
    BY <1>2, <2>1, <2>2 DEF ReadSlot, producer, ring, history, TypeOK, Item
<1>3. CASE Advance
  <2>1. Succ(head) \in Slots /\ head # tail /\ event = buffer[head]
    BY <1>3, SuccValue DEF Advance, TypeOK
  <2>2. TypeOK'
    BY <1>3, <2>1 DEF Advance, producer, TypeOK
  <2>3. /\ Contents # <<>>
        /\ Head(Contents) = event
        /\ Contents' = Tail(Contents)
    <3>1. /\ Window(buffer, head, tail) # <<>>
          /\ Head(Window(buffer, head, tail)) = buffer[head]
          /\ Window(buffer, Succ(head), tail) = Tail(Window(buffer, head, tail))
      BY <2>1, WindowTail DEF TypeOK, Ring
    <3>2. QED
      BY <1>3, <2>1, <3>1 DEF Advance, Contents
  <2>4. NothingLost'
    <3>1. consumed \in Seq(Ring) /\ Contents \in Seq(Ring)
      BY ContentsSeq DEF TypeOK, Ring
    <3>2. consumed \o Contents = Append(consumed, Head(Contents)) \o Tail(Contents)
      BY <2>3, <3>1, MoveHead
    <3>3. QED
      BY <1>3, <2>3, <3>2 DEF Advance, NothingLost
  <2>5. \A q \in Producers : pc'[q] \in {"write", "publish"} => Succ(tail') # head'
    <3>1. Succ(tail) # Succ(head)
      <4>1. Succ(tail) = IF tail = Cap - 1 THEN 0 ELSE tail + 1
        BY SuccValue DEF TypeOK
      <4>2. Succ(head) = IF head = Cap - 1 THEN 0 ELSE head + 1
        BY SuccValue DEF TypeOK
      <4>3. QED
        BY <1>0, <2>1, <4>1, <4>2 DEF TypeOK, Slots
    <3>2. QED
      BY <1>3, <3>1 DEF Advance, producer
  <2>6. QED
    BY <1>3, <2>2, <2>4, <2>5 DEF Advance, producer, TypeOK, Item
<1>4. QED
  BY <1>1, <1>2, <1>3 DEF Consume

(* Every step of every thread keeps the invariant.                           *)
LEMMA NextIndInv == IndInv /\ [Next]_vars => IndInv'
<1> SUFFICES ASSUME IndInv, [Next]_vars PROVE IndInv'
  OBVIOUS
<1>1. CASE \E p \in Producers : Produce(p)
  BY <1>1, ProduceIndInv
<1>2. CASE Consume
  BY <1>2, ConsumeIndInv
<1>3. CASE Shutdown
  BY <1>3 DEF Shutdown, producer, ring, consumer, history, IndInv, TypeOK, Item,
              NothingLost, Contents, Window, Distance
<1>4. CASE UNCHANGED vars
  BY <1>4 DEF vars, IndInv, TypeOK, Item, NothingLost, Contents, Window, Distance, Succ
<1>5. QED
  BY <1>1, <1>2, <1>3, <1>4 DEF Next

(* The inductive invariant holds of every capacity and every set of producers. *)
THEOREM InductiveInvariant == Spec => []IndInv
<1>1. Init => IndInv
  BY InitIndInv
<1>2. IndInv /\ [Next]_vars => IndInv'
  BY NextIndInv
<1>3. QED
  BY <1>1, <1>2, PTL DEF Spec

(* Type correctness: both indices stay in the ring. *)
THEOREM TypeCorrect == Spec => []TypeOK
<1>1. IndInv => TypeOK
  BY DEF IndInv
<1>2. QED
  BY <1>1, InductiveInvariant, PTL

(* The engine thread never copies the slot a producer writes. *)
THEOREM SlotExclusion == Spec => []NoSlotRace
<1>1. IndInv => NoSlotRace
  BY DEF IndInv, NoSlotRace
<1>2. QED
  BY <1>1, InductiveInvariant, PTL

(* The events pushed are the events popped followed by the ring's contents. *)
THEOREM NoEventLost == Spec => []NothingLost
<1>1. IndInv => NothingLost
  BY DEF IndInv
<1>2. QED
  BY <1>1, InductiveInvariant, PTL
-----------------------------------------------------------------------------
(* Refinement: every step of the queue is a step of the bounded channel. *)

(* The empty ring is the empty channel.                                      *)
LEMMA InitRefines == Init => Fifo!Init
<1> SUFFICES ASSUME Init PROVE Fifo!Init
  OBVIOUS
<1>1. Cap \in Nat /\ Cap >= 2
  BY QueueAssumption
<1>2. TypeOK
  BY InitIndInv DEF IndInv
<1>3. Contents = <<>>
  <2>1. Contents \in Seq(Ring) /\ Len(Contents) = 0
    BY <1>1, <1>2, ContentsSeq DEF Init, Distance
  <2>2. QED
    BY <2>1, EmptySeq
<1>4. QED
  BY <1>3 DEF Init, Fifo!Init

(* A step that touches neither the ring nor the histories leaves the channel *)
(* as it is.                                                                 *)
LEMMA QuietRefines ==
  ASSUME UNCHANGED <<ring, consumed, lost, running>>
  PROVE  UNCHANGED Fifo!fifoVars
BY DEF ring, Contents, Window, Distance, Fifo!fifoVars

(* A producer's step adds the event, refuses it or changes nothing of the    *)
(* channel.                                                                  *)
LEMMA ProduceRefines ==
  ASSUME IndInv, NEW p \in Producers, Produce(p)
  PROVE  Fifo!Next \/ UNCHANGED Fifo!fifoVars
<1>0. Cap \in Nat /\ Cap >= 2
  BY QueueAssumption
<1>1. CASE Create(p) \/ Lock(p)
  BY <1>1, QuietRefines DEF Create, Lock, history
<1>2. CASE SpinTest(p)
  <2>1. CASE running
    BY <1>2, <2>1, QuietRefines DEF SpinTest
  <2>2. CASE ~running
    <3>1. Item(p) \in Event
      BY <1>2 DEF SpinTest, IndInv, TypeOK, Item, Event
    <3>2. Contents' = Contents
      BY <1>2 DEF SpinTest, ring, Contents, Window, Distance
    <3>3. Fifo!Refuse(Item(p))
      BY <1>2, <2>2, <3>2 DEF SpinTest, Fifo!Refuse
    <3>4. QED
      BY <3>1, <3>3 DEF Fifo!Next
  <2>3. QED
    BY <2>1, <2>2
<1>3. CASE CheckFull(p)
  <2>1. CASE Succ(tail) = head /\ p \notin Spinners
    <3>1. Item(p) \in Event
      BY <1>3 DEF CheckFull, IndInv, TypeOK, Item, Event
    <3>2. Contents' = Contents
      BY <1>3 DEF CheckFull, ring, Contents, Window, Distance
    <3>3. Distance(head, tail) = Cap - 1
      BY <1>0, <2>1, SuccValue DEF IndInv, TypeOK, Slots, Distance
    <3>4. Len(Contents) = Cap - 1
      BY <3>3, ContentsSeq DEF IndInv
    <3>5. Fifo!Refuse(Item(p))
      BY <1>3, <2>1, <3>2, <3>4 DEF CheckFull, Fifo!Refuse
    <3>6. QED
      BY <3>1, <3>5 DEF Fifo!Next
  <2>2. CASE ~(Succ(tail) = head /\ p \notin Spinners)
    BY <1>3, <2>2, QuietRefines DEF CheckFull
  <2>3. QED
    BY <2>1, <2>2
<1>4. CASE WriteSlot(p)
  <2>1. Item(p) \in Ring
    BY <1>4 DEF WriteSlot, IndInv, TypeOK, Item, Event, Ring
  <2>2. buffer \in [Slots -> Ring] /\ head \in Slots /\ tail \in Slots
    BY DEF IndInv, TypeOK, Ring
  <2>3. Window([buffer EXCEPT ![tail] = Item(p)], head, tail) = Window(buffer, head, tail)
    BY <2>1, <2>2, WindowWrite
  <2>4. Contents' = Contents
    BY <1>4, <2>3 DEF WriteSlot, Contents
  <2>5. QED
    BY <1>4, <2>4 DEF WriteSlot, history, Fifo!fifoVars
<1>5. CASE Publish(p)
  <2>1. /\ Item(p) \in Event /\ buffer[tail] = Item(p) /\ Succ(tail) # head
        /\ buffer \in [Slots -> Ring] /\ head \in Slots /\ tail \in Slots
    BY <1>5 DEF Publish, IndInv, TypeOK, Item, Event, Ring
  <2>2. /\ Distance(head, tail) < Cap - 1
        /\ Window(buffer, head, Succ(tail)) = Append(Window(buffer, head, tail), buffer[tail])
    BY <2>1, WindowAppend
  <2>3. Len(Contents) < Cap - 1
    BY <2>2, ContentsSeq DEF IndInv
  <2>4. Fifo!Put(Item(p))
    BY <1>5, <2>1, <2>2, <2>3 DEF Publish, Contents, Fifo!Put
  <2>5. QED
    BY <2>1, <2>4 DEF Fifo!Next
<1>6. QED
  BY <1>1, <1>2, <1>3, <1>4, <1>5 DEF Produce

(* The consumer's step takes the oldest event or changes nothing of the      *)
(* channel.                                                                  *)
LEMMA ConsumeRefines ==
  ASSUME IndInv, Consume
  PROVE  Fifo!Next \/ UNCHANGED Fifo!fifoVars
<1>1. CASE Poll \/ ReadSlot
  BY <1>1, QuietRefines DEF Poll, ReadSlot, history
<1>2. CASE Advance
  <2>1. /\ head # tail /\ event = buffer[head]
        /\ buffer \in [Slots -> Ring] /\ head \in Slots /\ tail \in Slots
    BY <1>2 DEF Advance, IndInv, TypeOK, Ring
  <2>2. /\ Window(buffer, head, tail) # <<>>
        /\ Head(Window(buffer, head, tail)) = buffer[head]
        /\ Window(buffer, Succ(head), tail) = Tail(Window(buffer, head, tail))
    BY <2>1, WindowTail
  <2>3. Fifo!Take
    BY <1>2, <2>1, <2>2 DEF Advance, producer, Contents, Fifo!Take
  <2>4. QED
    BY <2>3 DEF Fifo!Next
<1>3. QED
  BY <1>1, <1>2 DEF Consume

(* The event queue implements a bounded first-in first-out channel of Cap-1  *)
(* events (spsc_queue.h), whatever its producers do.                         *)
THEOREM QueueRefinesFifo == Spec => ImplementsFifo
<1>1. Init => Fifo!Init
  BY InitRefines
<1>2. IndInv /\ [Next]_vars => [Fifo!Next]_(Fifo!fifoVars)
  <2> SUFFICES ASSUME IndInv, [Next]_vars
               PROVE  Fifo!Next \/ UNCHANGED Fifo!fifoVars
    OBVIOUS
  <2>1. CASE \E p \in Producers : Produce(p)
    BY <2>1, ProduceRefines
  <2>2. CASE Consume
    BY <2>2, ConsumeRefines
  <2>3. CASE Shutdown
    <3>1. Fifo!Close
      BY <2>3 DEF Shutdown, ring, history, Contents, Window, Distance, Fifo!Close
    <3>2. QED
      BY <3>1 DEF Fifo!Next
  <2>4. CASE UNCHANGED vars
    BY <2>4, QuietRefines DEF vars, ring
  <2>5. QED
    BY <2>1, <2>2, <2>3, <2>4 DEF Next
<1>3. QED
  BY <1>1, <1>2, InductiveInvariant, PTL DEF Spec, ImplementsFifo, Fifo!Spec
=============================================================================
