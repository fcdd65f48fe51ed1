--------------------------- MODULE PaperBrokerProofs ---------------------------
(***************************************************************************)
(* Proofs about PaperBroker, for every set of requests and of symbols,     *)
(* every price, number of calls and number of faults: the books balance    *)
(* whenever the lock is free and no call was cut in the middle, a rejected *)
(* order has no trade, and nothing is overdrawn or sold short before two   *)
(* calls overlap or a read fails.                                          *)
(***************************************************************************)
EXTENDS PaperBroker, TLAPS

(* An order in whole shares moves whole amounts. *)
LEMMA OrderType ==
  ASSUME NEW o \in Orders
  PROVE  /\ o.symbol \in Symbols /\ o.qty \in Nat
         /\ Cost(o) \in Nat /\ CashOf(o) \in Int /\ SharesOf(o) \in Int
         /\ o.buy => CashOf(o) = -Cost(o) /\ SharesOf(o) = o.qty
         /\ ~o.buy => SharesOf(o) = -o.qty
<1> USE BrokerAssumption
<1>1. o.symbol \in Symbols /\ o.qty \in Nat
  BY DEF Orders
<1>2. FillPrice(o) \in Nat
  BY DEF FillPrice
<1>3. Commission(o) \in Nat
  BY <1>1 DEF Commission
<1>4. o.qty * FillPrice(o) \in Nat
  BY <1>1, <1>2
<1> QED
  BY <1>1, <1>3, <1>4 DEF Cost, CashOf, SharesOf

(* A sale brings in no less than nothing when the commission of a share is   *)
(* not more than what the share is sold for.                                 *)
LEMMA SaleEarns ==
  ASSUME Fee <= Price - Slip, NEW o \in Orders, ~o.buy
  PROVE  CashOf(o) >= 0
<1> USE BrokerAssumption
<1>1. o.qty \in Nat
  BY DEF Orders
<1>2. Commission(o) \in {0, o.qty * Fee}
  BY DEF Commission
<1>3. o.qty * Fee <= o.qty * (Price - Slip)
  BY <1>1
<1>4. o.qty * (Price - Slip) \in Int /\ o.qty * (Price - Slip) >= 0 /\ o.qty * Fee \in Int
  BY <1>1
<1>5. CashOf(o) = (o.qty * (Price - Slip)) - Commission(o)
  BY DEF CashOf, FillPrice
<1> QED
  BY <1>2, <1>3, <1>4, <1>5

(* The order of an idle client is one.                                       *)
LEMMA NoOrderType == NoOrder \in Orders
<1>1. (CHOOSE s \in Symbols : TRUE) \in Symbols
  BY BrokerAssumption
<1> QED
  BY <1>1, BrokerAssumption DEF NoOrder, Orders

Places == {"idle", "state", "lock", "reset"} \cup Locked

(* The lock is held by the call that is between its statements: what a step  *)
(* of one call does to that.                                                 *)
LockOK == \A c \in Clients : lock = c <=> pc[c] \in Locked

(* The type invariant, conjunct by conjunct.                                 *)
LEMMA TypeParts ==
  TypeOK <=> /\ cash \in Int /\ flow \in Int
             /\ position \in [Symbols -> Int] /\ volume \in [Symbols -> Int]
             /\ rows \subseteq Ids /\ rejected \subseteq Ids
             /\ lock \in Clients \cup {NoClient}
             /\ pc \in [Clients -> Places]
             /\ LockOK
             /\ order \in [Clients -> Orders]
             /\ id \in [Clients -> 0 .. orders]
             /\ damaged \in BOOLEAN /\ exposed \in BOOLEAN
             /\ orders \in 0 .. MaxOrders /\ resets \in 0 .. MaxResets
             /\ faults \in 0 .. MaxFaults
BY DEF TypeOK, Places, LockOK

(* One step of a client moves only that client's place. *)
Step(c) ==
  \/ \E o \in Orders : Submit(c, o)
  \/ GetState(c) \/ GetStateFails(c) \/ Acquire(c)
  \/ UpdateCash(c) \/ UpdatePosition(c) \/ InsertTrade(c)
  \/ Reset(c) \/ WipePositions(c) \/ WipeTrades(c) \/ RestoreCash(c)
  \/ StatementFails(c)

(* A client's step moves that client and nobody else.                        *)
LEMMA StepMoves ==
  ASSUME TypeOK, NEW c \in Clients, Step(c)
  PROVE  /\ pc' = [pc EXCEPT ![c] = pc'[c]] /\ pc'[c] \in Places
         /\ pc' \in [Clients -> Places]
         /\ \A d \in Clients \ {c} : pc'[d] = pc[d]
<1>1. pc \in [Clients -> Places]
  BY TypeParts
<1>2. PICK l \in Places : pc' = [pc EXCEPT ![c] = l]
  <2>1. CASE \E o \in Orders : Submit(c, o)
    <3>1. pc' = pc \/ pc' = [pc EXCEPT ![c] = "state"]
      BY <2>1 DEF Submit, Goto
    <3>2. pc' = [pc EXCEPT ![c] = pc[c]] \/ pc' = [pc EXCEPT ![c] = "state"]
      BY <3>1, <1>1
    <3>3. pc[c] \in Places /\ "state" \in Places
      BY <1>1 DEF Places
    <3> QED
      BY <3>2, <3>3
  <2>2. CASE GetState(c) \/ GetStateFails(c)
    BY <2>2 DEF GetState, GetStateFails, Judge, Goto, Places, Locked
  <2>3. CASE Acquire(c) \/ UpdateCash(c) \/ UpdatePosition(c) \/ InsertTrade(c)
    BY <2>3 DEF Acquire, UpdateCash, UpdatePosition, InsertTrade, Goto, Places, Locked, Halfway
  <2>4. CASE Reset(c) \/ WipePositions(c) \/ WipeTrades(c) \/ RestoreCash(c) \/ StatementFails(c)
    BY <2>4 DEF Reset, WipePositions, WipeTrades, RestoreCash, StatementFails, Goto, Places,
                Locked, Halfway
  <2> QED
    BY <2>1, <2>2, <2>3, <2>4 DEF Step
<1> QED
  BY <1>1, <1>2

(* The types at the start.                                                   *)
LEMMA InitType == Init => TypeOK
<1> SUFFICES ASSUME Init PROVE TypeOK
  OBVIOUS
<1> USE BrokerAssumption
<1>1. order \in [Clients -> Orders]
  BY NoOrderType DEF Init
<1>2. LockOK
  BY DEF Init, LockOK, Locked, Halfway
<1>3. pc \in [Clients -> Places]
  BY DEF Init, Places
<1>4. /\ position \in [Symbols -> Int] /\ volume \in [Symbols -> Int]
      /\ cash \in Int /\ flow \in Int /\ rows \subseteq Ids /\ rejected \subseteq Ids
  BY DEF Init
<1>5. /\ orders \in 0 .. MaxOrders /\ resets \in 0 .. MaxResets /\ faults \in 0 .. MaxFaults
      /\ id \in [Clients -> 0 .. orders]
  BY DEF Init
<1>6. /\ lock \in Clients \cup {NoClient} /\ damaged \in BOOLEAN /\ exposed \in BOOLEAN
  BY DEF Init
<1> QED
  BY <1>1, <1>2, <1>3, <1>4, <1>5, <1>6, TypeParts

(* No order is on its way at the start ...                                   *)
LEMMA InitOrders == Init => OrdersInv
BY DEF Init, OrdersInv, Pending, Filling, RejectedLeavesNoTrade

(* ... the books are empty ...                                               *)
LEMMA InitBooks == Init => BooksInv
BY BrokerAssumption DEF Init, BooksInv, Balanced

(* ... and nothing is owed.                                                  *)
LEMMA InitExposure == Init => ExposureInv
BY BrokerAssumption DEF Init, ExposureInv, Covered

(* Each call takes the lock before its statements and gives it back after    *)
(* the last one or the one that fails.                                       *)
LEMMA StepLock == ASSUME TypeOK, NEW c \in Clients, Step(c) PROVE LockOK'
<1> USE BrokerAssumption
<1>1. LockOK /\ lock \in Clients \cup {NoClient} /\ c # NoClient
  BY TypeParts
<1>2. \A d \in Clients \ {c} : pc'[d] = pc[d]
  BY StepMoves
<1>3. pc \in [Clients -> Places]
  BY TypeParts
<1>4. CASE (\E o \in Orders : Submit(c, o)) \/ GetState(c) \/ GetStateFails(c) \/ Reset(c)
  <2>1. lock' = lock /\ pc[c] \notin Locked /\ pc'[c] \notin Locked
    BY <1>3, <1>4 DEF Submit, GetState, GetStateFails, Judge, Reset, Goto, Locked, Halfway, Places
  <2> QED
    BY <1>1, <1>2, <2>1 DEF LockOK
<1>5. CASE Acquire(c)
  <2>1. lock = NoClient /\ lock' = c /\ pc'[c] \in Locked
    BY <1>3, <1>5 DEF Acquire, Goto, Locked, Halfway
  <2> QED
    BY <1>1, <1>2, <2>1 DEF LockOK
<1>6. CASE UpdateCash(c) \/ UpdatePosition(c) \/ WipePositions(c) \/ WipeTrades(c)
  <2>1. lock' = lock /\ pc[c] \in Locked /\ pc'[c] \in Locked
    BY <1>3, <1>6 DEF UpdateCash, UpdatePosition, WipePositions, WipeTrades, Goto, Locked, Halfway
  <2> QED
    BY <1>1, <1>2, <2>1 DEF LockOK
<1>7. CASE InsertTrade(c) \/ RestoreCash(c) \/ StatementFails(c)
  <2>1. lock' = NoClient /\ pc'[c] \notin Locked
    BY <1>3, <1>7 DEF InsertTrade, RestoreCash, StatementFails, Goto, Locked, Halfway
  <2>2. lock = c
    BY <1>1, <1>7 DEF InsertTrade, RestoreCash, StatementFails, LockOK, Locked, Halfway
  <2> QED
    BY <1>1, <1>2, <2>1, <2>2 DEF LockOK
<1> QED
  BY <1>4, <1>5, <1>6, <1>7 DEF Step

(* The number of an order, once given, is one of those given out. *)
LEMMA StepIds ==
  ASSUME TypeOK, OrdersInv, NEW c \in Clients, Step(c)
  PROVE  /\ order' \in [Clients -> Orders] /\ id' \in [Clients -> 0 .. orders']
         /\ orders' \in 0 .. MaxOrders /\ orders' >= orders
         /\ rows' \subseteq 1 .. orders' /\ rejected' \subseteq 1 .. orders'
<1> USE BrokerAssumption
<1>1. /\ order \in [Clients -> Orders] /\ id \in [Clients -> 0 .. orders]
      /\ orders \in 0 .. MaxOrders /\ pc \in [Clients -> Places]
  BY TypeParts
<1>2. rows \subseteq 1 .. orders /\ rejected \subseteq 1 .. orders
  BY DEF OrdersInv
<1>3. CASE \E o \in Orders : Submit(c, o)
  <2>1. PICK o \in Orders : Submit(c, o)
    BY <1>3
  <2>2. /\ orders' = orders + 1 /\ orders < MaxOrders /\ rows' = rows
        /\ order' = [order EXCEPT ![c] = o] /\ id' = [id EXCEPT ![c] = orders + 1]
        /\ rejected' \subseteq rejected \cup {orders + 1}
    BY <2>1 DEF Submit, database
  <2>3. id' \in [Clients -> 0 .. orders + 1]
    BY <1>1, <2>2
  <2> QED
    BY <1>1, <1>2, <2>2, <2>3
<1>4. CASE ~\E o \in Orders : Submit(c, o)
  <2>1. UNCHANGED <<order, id, orders>>
    BY <1>4 DEF Step, GetState, GetStateFails, Acquire, UpdateCash, UpdatePosition, InsertTrade,
                Reset, WipePositions, WipeTrades, RestoreCash, StatementFails, counts
  <2>2. rows' \subseteq rows \cup {id[c]} /\ rejected' \subseteq rejected \cup {id[c]}
    BY <1>4 DEF Step, GetState, GetStateFails, Judge, Acquire, UpdateCash, UpdatePosition,
                InsertTrade, Reset, WipePositions, WipeTrades, RestoreCash, StatementFails, database
  <2>3. rows' # rows \/ rejected' # rejected =>
         pc[c] \in Pending \/ (rows' = {} /\ rejected' = rejected)
    BY <1>4 DEF Step, GetState, GetStateFails, Acquire, UpdateCash, UpdatePosition,
                InsertTrade, Reset, WipePositions, WipeTrades, RestoreCash, StatementFails,
                database,
                Pending, Filling
  <2>4. pc[c] \in Pending => id[c] \in 1 .. orders
    BY DEF OrdersInv
  <2> QED
    BY <1>1, <1>2, <2>1, <2>2, <2>3, <2>4
<1> QED
  BY <1>3, <1>4

(* Every client's step keeps the types and the mutual exclusion of the lock. *)
LEMMA StepType ==
  ASSUME TypeOK, OrdersInv, NEW c \in Clients, Step(c)
  PROVE  TypeOK'
<1> USE BrokerAssumption
<1>1. /\ cash \in Int /\ flow \in Int
      /\ position \in [Symbols -> Int] /\ volume \in [Symbols -> Int]
      /\ lock \in Clients \cup {NoClient}
      /\ resets \in 0 .. MaxResets /\ faults \in 0 .. MaxFaults
      /\ order[c] \in Orders
  BY TypeParts
<1>2. /\ order[c].symbol \in Symbols /\ CashOf(order[c]) \in Int /\ SharesOf(order[c]) \in Int
  BY <1>1, OrderType
<1>3. cash' \in Int /\ flow' \in Int
  <2>1. /\ cash' = cash \/ cash' = cash + CashOf(order[c]) \/ cash' = InitialCash
        /\ flow' = flow \/ flow' = flow + CashOf(order[c]) \/ flow' = 0
    BY DEF Step, Submit, GetState, GetStateFails, Acquire, UpdateCash, UpdatePosition, InsertTrade,
           Reset, WipePositions, WipeTrades, RestoreCash, StatementFails, database
  <2> QED
    BY <1>1, <1>2, <2>1
<1>4. position' \in [Symbols -> Int] /\ volume' \in [Symbols -> Int]
  <2>1. /\ \/ position' = position \/ position' = [s \in Symbols |-> 0]
           \/ position' = [position EXCEPT ![order[c].symbol] = @ + SharesOf(order[c])]
        /\ \/ volume' = volume \/ volume' = [s \in Symbols |-> 0]
           \/ volume' = [volume EXCEPT ![order[c].symbol] = @ + SharesOf(order[c])]
    BY DEF Step, Submit, GetState, GetStateFails, Acquire, UpdateCash, UpdatePosition, InsertTrade,
           Reset, WipePositions, WipeTrades, RestoreCash, StatementFails, database
  <2> QED
    BY <1>1, <1>2, <2>1
<1>5. lock' \in Clients \cup {NoClient}
  BY <1>1 DEF Step, Submit, GetState, GetStateFails, Acquire, UpdateCash, UpdatePosition,
              InsertTrade, Reset, WipePositions, WipeTrades, RestoreCash, StatementFails
<1>6. resets' \in 0 .. MaxResets /\ faults' \in 0 .. MaxFaults
  <2>1. /\ resets' = resets \/ (resets < MaxResets /\ resets' = resets + 1)
        /\ faults' = faults \/ (faults < MaxFaults /\ faults' = faults + 1)
    BY DEF Step, Submit, GetState, GetStateFails, Acquire, UpdateCash, UpdatePosition, InsertTrade,
           Reset, WipePositions, WipeTrades, RestoreCash, StatementFails, counts
  <2> QED
    BY <1>1, <2>1
<1>7. damaged' \in BOOLEAN /\ exposed' \in BOOLEAN
  <2>1. damaged \in BOOLEAN /\ exposed \in BOOLEAN
    BY TypeParts
  <2>2. damaged' \in {damaged, FALSE, damaged \/ pc[c] \in Halfway}
    BY DEF Step, Submit, GetState, GetStateFails, Acquire, UpdateCash, UpdatePosition, InsertTrade,
           Reset, WipePositions, WipeTrades, RestoreCash, StatementFails
  <2>3. exposed' \in {exposed, TRUE, Others(c), exposed \/ Others(c)}
    BY DEF Step, Submit, GetState, GetStateFails, Acquire, UpdateCash, UpdatePosition, InsertTrade,
           Reset, WipePositions, WipeTrades, RestoreCash, StatementFails
  <2>4. (pc[c] \in Halfway) \in BOOLEAN /\ Others(c) \in BOOLEAN
    BY DEF Others
  <2> QED
    BY <2>1, <2>2, <2>3, <2>4
<1>8. rows' \subseteq Ids' /\ rejected' \subseteq Ids'
  <2>1. /\ orders' \in 0 .. MaxOrders /\ rows' \subseteq 1 .. orders'
        /\ rejected' \subseteq 1 .. orders'
    BY StepIds
  <2> QED
    BY <2>1 DEF Ids
<1>9. /\ order' \in [Clients -> Orders'] /\ id' \in [Clients -> 0 .. orders']
      /\ orders' \in 0 .. MaxOrders
  BY StepIds DEF Orders
<1>10. pc' \in [Clients -> Places]
  BY StepMoves
<1> QED
  BY <1>3, <1>4, <1>5, <1>6, <1>7, <1>8, <1>9, <1>10, StepLock, TypeParts
     DEF Places, Locked, Halfway, LockOK, TypeOK

(* A step gives out a new number, answers an order with one row or one       *)
(* refusal, or leaves both tables without anything new.                      *)
LEMMA StepOrders ==
  ASSUME TypeOK, OrdersInv, NEW c \in Clients, Step(c)
  PROVE  OrdersInv'
<1> USE BrokerAssumption
<1>1. /\ rows' \subseteq 1 .. orders' /\ rejected' \subseteq 1 .. orders'
      /\ id \in [Clients -> 0 .. orders] /\ orders \in 0 .. MaxOrders
      /\ pc \in [Clients -> Places]
  BY StepIds, TypeParts
<1>2. \A d \in Clients \ {c} : pc'[d] = pc[d]
  BY StepMoves
<1>3. CASE \E o \in Orders : Submit(c, o)
  <2>1. /\ orders' = orders + 1 /\ rows' = rows
        /\ id' = [id EXCEPT ![c] = orders + 1]
        /\ \/ rejected' = rejected
           \/ rejected' = rejected \cup {orders + 1} /\ pc' = pc /\ pc[c] = "idle"
    BY <1>3 DEF Submit, database
  <2>2. /\ rows \cap rejected = {} /\ orders + 1 \notin rows /\ orders + 1 \notin rejected
    BY <1>1 DEF OrdersInv, RejectedLeavesNoTrade
  <2>3. /\ id'[c] = orders + 1
        /\ \A d \in Clients \ {c} : id'[d] = id[d]
        /\ \A d \in Clients : pc[d] \in Pending => id[d] \in 1 .. orders
    BY <1>1, <2>1 DEF OrdersInv
  <2>4. RejectedLeavesNoTrade'
    BY <2>1, <2>2 DEF RejectedLeavesNoTrade
  <2>5. ASSUME NEW d \in Clients, pc'[d] \in Pending
        PROVE  /\ id'[d] \in 1 .. orders' /\ id'[d] \notin rows' /\ id'[d] \notin rejected'
               /\ \A e \in Clients \ {d} : pc'[e] \in Pending => id'[e] # id'[d]
    <3>1. CASE d = c
      <4>1. rejected' = rejected
        BY <2>1, <2>5, <3>1 DEF Pending, Filling
      <4> QED
        BY <1>1, <1>2, <2>1, <2>2, <2>3, <3>1, <4>1
    <3>2. CASE d # c
      <4>1. /\ pc[d] \in Pending /\ id'[d] = id[d] /\ id[d] \in 1 .. orders
            /\ id[d] \notin rows /\ id[d] \notin rejected
        BY <1>2, <2>3, <2>5, <3>2 DEF OrdersInv
      <4>2. id[d] # orders + 1
        BY <1>1, <4>1
      <4>3. ASSUME NEW e \in Clients \ {d}, pc'[e] \in Pending PROVE id'[e] # id'[d]
        BY <1>2, <2>3, <3>2, <4>1, <4>2, <4>3 DEF OrdersInv
      <4> QED
        BY <1>1, <2>1, <4>1, <4>2, <4>3
    <3> QED
      BY <3>1, <3>2
  <2> QED
    BY <1>1, <2>4, <2>5 DEF OrdersInv
<1>4. CASE ~\E o \in Orders : Submit(c, o)
  <2>1. UNCHANGED <<id, orders>>
    BY <1>4 DEF Step, GetState, GetStateFails, Acquire, UpdateCash, UpdatePosition, InsertTrade,
                Reset, WipePositions, WipeTrades, RestoreCash, StatementFails, counts
  <2>2. CASE /\ pc[c] \in Pending /\ pc'[c] = "idle"
             /\ \/ rows' = rows \cup {id[c]} /\ rejected' = rejected
                \/ rows' = rows /\ rejected' = rejected \cup {id[c]}
    <3>1. id[c] \notin rows /\ id[c] \notin rejected
      BY <2>2 DEF OrdersInv
    <3>2. RejectedLeavesNoTrade'
      BY <2>2, <3>1 DEF OrdersInv, RejectedLeavesNoTrade
    <3>3. pc'[c] \notin Pending
      BY <2>2 DEF Pending, Filling
    <3> QED
      BY <1>1, <1>2, <2>1, <2>2, <3>2, <3>3 DEF OrdersInv
  <2>3. CASE /\ pc'[c] \in Pending => pc[c] \in Pending
             /\ rows' \subseteq rows /\ rejected' = rejected
    BY <1>1, <1>2, <2>1, <2>3 DEF OrdersInv, RejectedLeavesNoTrade
  <2>4. CASE GetState(c) \/ GetStateFails(c)
    BY <1>1, <2>2, <2>3, <2>4 DEF GetState, GetStateFails, Judge, Goto, database, Pending
  <2>5. CASE Acquire(c)
    <3>1. rows' = rows /\ rejected' = rejected
      BY <2>5 DEF Acquire, database
    <3>2. pc'[c] \in Pending => pc[c] \in Pending
      BY <1>1, <2>5 DEF Acquire, Goto, Pending, Filling
    <3> QED
      BY <2>3, <3>1, <3>2
  <2>6. CASE UpdateCash(c) \/ UpdatePosition(c)
    BY <1>1, <2>3, <2>6 DEF UpdateCash, UpdatePosition, Goto, Pending, Filling
  <2>7. CASE InsertTrade(c)
    BY <1>1, <2>2, <2>7 DEF InsertTrade, Goto, Pending, Filling
  <2>8. CASE Reset(c) \/ WipePositions(c) \/ WipeTrades(c) \/ RestoreCash(c)
    <3>1. rows' \subseteq rows /\ rejected' = rejected
      BY <2>8 DEF Reset, WipePositions, WipeTrades, RestoreCash, database
    <3>2. pc'[c] \notin Pending
      BY <1>1, <2>8 DEF Reset, WipePositions, WipeTrades, RestoreCash, Goto, Pending, Filling
    <3> QED
      BY <2>3, <3>1, <3>2
  <2>9. CASE StatementFails(c)
    <3>1. pc'[c] = "idle" /\ rows' = rows
      BY <1>1, <2>9 DEF StatementFails, Goto, database
    <3>2. CASE pc[c] \in Filling
      BY <2>2, <2>9, <3>1, <3>2 DEF StatementFails, Pending
    <3>3. CASE pc[c] \notin Filling
      BY <2>3, <2>9, <3>1, <3>3 DEF StatementFails, Pending, Filling
    <3> QED
      BY <3>2, <3>3
  <2> QED
    BY <1>4, <2>4, <2>5, <2>6, <2>7, <2>8, <2>9 DEF Step
<1> QED
  BY <1>3, <1>4

(* Only the call that holds the lock writes to the database, so what it has  *)
(* still to write is all that the books can lack.                            *)
LEMMA StepBooks ==
  ASSUME TypeOK, BooksInv, NEW c \in Clients, Step(c)
  PROVE  BooksInv'
<1> USE BrokerAssumption
<1>1. /\ LockOK /\ pc \in [Clients -> Places] /\ c # NoClient
      /\ order[c] \in Orders /\ cash \in Int /\ flow \in Int
      /\ volume \in [Symbols -> Int]
  BY TypeParts
<1>2. \A d \in Clients \ {c} : pc'[d] = pc[d]
  BY StepMoves
<1>3. order[c].symbol \in Symbols /\ CashOf(order[c]) \in Int /\ SharesOf(order[c]) \in Int
  BY <1>1, OrderType
<1> DEFINE Held == {"cash", "wipe positions", "position", "trade", "wipe trades", "restore cash"}
<1>4. Locked = Held
  BY DEF Locked, Halfway
<1>5. CASE (\E o \in Orders : Submit(c, o)) \/ GetState(c) \/ GetStateFails(c) \/ Reset(c)
  <2>1. /\ UNCHANGED <<cash, position, flow, volume, lock, damaged>>
        /\ \A d \in Clients \ {c} : order'[d] = order[d]
    BY <1>5, TypeParts DEF Submit, GetState, GetStateFails, Reset, database
  <2>2. pc'[c] \notin Held
    BY <1>1, <1>5 DEF Submit, GetState, GetStateFails, Judge, Reset, Goto
  <2> QED
    BY <1>2, <2>1, <2>2 DEF BooksInv, Balanced, CashOf, SharesOf, FillPrice, Commission
<1>6. CASE Acquire(c)
  <2>1. /\ lock = NoClient /\ lock' = c /\ pc'[c] \in {"cash", "wipe positions"}
        /\ UNCHANGED <<cash, position, flow, volume, damaged, order>>
    BY <1>1, <1>6 DEF Acquire, Goto, database
  <2>2. \A d \in Clients \ {c} : pc'[d] \notin Held
    BY <1>1, <1>2, <1>4, <2>1 DEF LockOK
  <2> QED
    BY <1>1, <2>1, <2>2 DEF BooksInv, Balanced
<1>7. ASSUME pc[c] \in Held
      PROVE  lock = c /\ \A d \in Clients \ {c} : pc'[d] \notin Held
  BY <1>1, <1>2, <1>4, <1>7 DEF LockOK
<1>8. CASE UpdateCash(c)
  <2>1. /\ cash' = cash + CashOf(order[c]) /\ pc[c] = "cash" /\ pc'[c] = "position"
        /\ UNCHANGED <<position, flow, volume, lock, damaged, order>>
    BY <1>1, <1>8 DEF UpdateCash, Goto
  <2>2. ~damaged => Balanced
    BY <2>1 DEF BooksInv
  <2>3. (CashOf(order[c]))' = CashOf(order[c])
    BY <2>1 DEF CashOf, FillPrice, Commission
  <2> HIDE DEF Held
  <2>4. ~damaged => cash' = InitialCash + (flow + CashOf(order[c]))
    BY <1>1, <1>3, <2>1, <2>2 DEF Balanced
  <2> QED
    BY <1>1, <1>7, <2>1, <2>2, <2>3, <2>4 DEF BooksInv, Balanced, Held
<1>9. CASE UpdatePosition(c)
  <2>1. /\ position' = [position EXCEPT ![order[c].symbol] = @ + SharesOf(order[c])]
        /\ pc[c] = "position" /\ pc'[c] = "trade"
        /\ UNCHANGED <<cash, flow, volume, lock, damaged, order>>
    BY <1>1, <1>9 DEF UpdatePosition, Goto
  <2>2. ~damaged => position = volume /\ cash = InitialCash + (flow + CashOf(order[c]))
    BY <2>1 DEF BooksInv
  <2>3. /\ (CashOf(order[c]))' = CashOf(order[c])
        /\ (SharesOf(order[c]))' = SharesOf(order[c])
    BY <2>1 DEF CashOf, FillPrice, Commission, SharesOf
  <2> QED
    BY <1>1, <1>7, <2>1, <2>2, <2>3 DEF BooksInv
<1>10. CASE InsertTrade(c)
  <2>1. /\ flow' = flow + CashOf(order[c]) /\ lock' = NoClient
        /\ volume' = [volume EXCEPT ![order[c].symbol] = @ + SharesOf(order[c])]
        /\ pc[c] = "trade" /\ pc'[c] = "idle"
        /\ UNCHANGED <<cash, position, damaged>>
    BY <1>1, <1>10 DEF InsertTrade, Goto
  <2>2. ~damaged => /\ cash = InitialCash + (flow + CashOf(order[c]))
                    /\ position = [volume EXCEPT ![order[c].symbol] = @ + SharesOf(order[c])]
    BY <2>1 DEF BooksInv
  <2>3. ~damaged' => Balanced'
    BY <2>1, <2>2 DEF Balanced
  <2> QED
    BY <1>1, <1>7, <2>1, <2>3 DEF BooksInv
<1>11. CASE WipePositions(c)
  <2>1. /\ position' = Nothing /\ pc[c] = "wipe positions" /\ pc'[c] = "wipe trades"
        /\ UNCHANGED <<lock, damaged>>
    BY <1>1, <1>11 DEF WipePositions, Goto, Nothing
  <2> QED
    BY <1>1, <1>7, <2>1 DEF BooksInv, Nothing
<1>12. CASE WipeTrades(c)
  <2>1. /\ flow' = 0 /\ volume' = Nothing /\ UNCHANGED <<position, lock, damaged>>
        /\ pc[c] = "wipe trades" /\ pc'[c] = "restore cash"
    BY <1>1, <1>12 DEF WipeTrades, Goto, Nothing
  <2> QED
    BY <1>1, <1>7, <2>1 DEF BooksInv, Nothing
<1>13. CASE RestoreCash(c)
  <2>1. /\ cash' = InitialCash /\ lock' = NoClient /\ pc[c] = "restore cash" /\ pc'[c] = "idle"
        /\ UNCHANGED <<position, flow, volume>>
    BY <1>1, <1>13 DEF RestoreCash, Goto
  <2>2. flow = 0 /\ volume = Nothing /\ position = Nothing
    BY <2>1 DEF BooksInv
  <2>3. Balanced'
    <3>1. position' = volume'
      BY <2>1, <2>2
    <3>2. InitialCash = InitialCash + 0
      OBVIOUS
    <3>3. cash' = InitialCash + flow'
      BY <2>1, <2>2, <3>2
    <3> QED
      BY <3>1, <3>3 DEF Balanced
  <2> QED
    BY <1>1, <1>7, <2>1, <2>3 DEF BooksInv
<1>14. CASE StatementFails(c)
  <2>1. /\ lock = c /\ lock' = NoClient /\ pc'[c] = "idle"
        /\ UNCHANGED <<cash, position, flow, volume>>
        /\ ~damaged' => ~damaged /\ pc[c] \notin Halfway
    BY <1>1, <1>14 DEF StatementFails, Goto, database
  <2>2. pc[c] \in Held
    BY <1>1, <1>4, <2>1 DEF LockOK
  <2>3. ~damaged' => pc[c] \in {"cash", "wipe positions"}
    BY <2>1, <2>2 DEF Halfway
  <2>4. ~damaged' => Balanced'
    BY <2>1, <2>3 DEF BooksInv, Balanced
  <2> QED
    BY <1>1, <1>7, <2>1, <2>2, <2>4 DEF BooksInv
<1> QED
  BY <1>5, <1>6, <1>8, <1>9, <1>10, <1>11, <1>12, <1>13, <1>14 DEF Step

(* While nothing overlaps, the call in progress is the only one, so the      *)
(* account it was judged by is the account it takes from.                    *)
LEMMA StepExposure ==
  ASSUME Fee <= Price - Slip, TypeOK, BooksInv, ExposureInv, NEW c \in Clients, Step(c)
  PROVE  ExposureInv'
<1> SUFFICES ASSUME ~exposed' PROVE ExposureInv'
  BY DEF ExposureInv
<1> USE BrokerAssumption
<1>1. /\ pc \in [Clients -> Places] /\ order \in [Clients -> Orders] /\ order[c] \in Orders
      /\ cash \in Int /\ position \in [Symbols -> Int]
  BY TypeParts
<1>2. \A d \in Clients \ {c} : pc'[d] = pc[d]
  BY StepMoves
<1>3. /\ order[c].symbol \in Symbols /\ order[c].qty \in Nat
      /\ CashOf(order[c]) \in Int /\ SharesOf(order[c]) \in Int /\ Cost(order[c]) \in Nat
  BY <1>1, OrderType
(* Nobody else is in a call, before and after the step. *)
<1>4. \A d \in Clients \ {c} : pc'[d] = "idle"
  <2>1. CASE (\E o \in Orders : Submit(c, o)) \/ Reset(c) \/ RestoreCash(c)
    BY <1>2, <2>1 DEF Submit, Reset, RestoreCash, Others
  <2>2. CASE ~((\E o \in Orders : Submit(c, o)) \/ Reset(c) \/ RestoreCash(c))
    <3>1. ~exposed
      BY <2>2 DEF Step, GetState, GetStateFails, Acquire, UpdateCash, UpdatePosition, InsertTrade,
                  WipePositions, WipeTrades, StatementFails
    <3>2. pc[c] # "idle"
      <4>1. lock = c => pc[c] \in Locked
        BY TypeParts DEF LockOK
      <4> QED
        BY <2>2, <4>1 DEF Step, GetState, GetStateFails, Acquire, UpdateCash, UpdatePosition,
           InsertTrade, WipePositions, WipeTrades, StatementFails, Locked, Halfway
    <3> QED
      BY <1>2, <3>1, <3>2 DEF ExposureInv
  <2> QED
    BY <2>1, <2>2
<1>5. SUFFICES /\ cash' >= 0 /\ \A s \in Symbols : position'[s] >= 0
               /\ Covered(c)'
  <2>1. \A d \in Clients \ {c} : Covered(d)'
    BY <1>4 DEF Covered
  <2> QED
    BY <1>4, <2>1 DEF ExposureInv
<1>6. CASE RestoreCash(c)
  <2>1. cash' = InitialCash /\ position' = Nothing /\ pc'[c] = "idle"
    BY <1>1, <1>6 DEF RestoreCash, Goto, BooksInv
  <2> QED
    BY <2>1 DEF Nothing, Covered
<1>7. CASE ~RestoreCash(c)
  <2>1. ~exposed
    BY <1>7 DEF Step, Submit, GetState, GetStateFails, Acquire, UpdateCash, UpdatePosition,
                InsertTrade, Reset, WipePositions, WipeTrades, StatementFails
  <2>2. cash >= 0 /\ (\A s \in Symbols : position[s] >= 0) /\ Covered(c)
    BY <2>1 DEF ExposureInv
  <2>3. CASE (\E o \in Orders : Submit(c, o)) \/ Reset(c) \/ StatementFails(c)
    <3>1. /\ UNCHANGED <<cash, position>>
          /\ pc'[c] \in {"idle", "state", "reset"}
      BY <1>1, <2>3 DEF Submit, Reset, StatementFails, Goto, database
    <3> QED
      BY <2>2, <3>1 DEF Covered
  <2>4. CASE GetState(c)
    <3>1. /\ UNCHANGED <<cash, position, order>>
          /\ \/ pc'[c] = "idle"
             \/ pc'[c] = "lock" /\ Affords(order[c], cash, position[order[c].symbol])
      BY <1>1, <2>4 DEF GetState, Judge, Goto, database
    <3> QED
      BY <2>2, <3>1 DEF Covered, Affords, Cost, FillPrice, Commission
  <2>5. CASE GetStateFails(c)
    BY <2>5 DEF GetStateFails
  <2>6. CASE Acquire(c)
    <3>1. /\ UNCHANGED <<cash, position, order>>
          /\ \/ pc'[c] = "wipe positions"
             \/ pc'[c] = "cash" /\ pc[c] = "lock"
      BY <1>1, <2>6 DEF Acquire, Goto, database
    <3> QED
      BY <2>2, <3>1 DEF Covered, Affords, Cost, FillPrice, Commission
  <2>7. CASE UpdateCash(c)
    <3>1. /\ UNCHANGED <<position, order>> /\ cash' = cash + CashOf(order[c])
          /\ pc[c] = "cash" /\ pc'[c] = "position"
      BY <1>1, <2>7 DEF UpdateCash, Goto
    <3>2. Affords(order[c], cash, position[order[c].symbol])
      BY <2>2, <3>1 DEF Covered
    <3>3. CASE order[c].buy
      <4>1. CashOf(order[c]) = -Cost(order[c]) /\ Cost(order[c]) <= cash
        BY <1>1, <3>2, <3>3, OrderType DEF Affords
      <4> QED
        BY <1>1, <1>3, <2>2, <3>1, <3>3, <4>1 DEF Covered
    <3>4. CASE ~order[c].buy
      <4>1. CashOf(order[c]) >= 0 /\ order[c].qty <= position[order[c].symbol]
        BY <1>1, <3>2, <3>4, SaleEarns DEF Affords
      <4> QED
        BY <1>1, <1>3, <2>2, <3>1, <4>1 DEF Covered
    <3> QED
      BY <3>3, <3>4
  <2>8. CASE UpdatePosition(c)
    <3>1. /\ cash' = cash /\ pc[c] = "position" /\ pc'[c] = "trade"
          /\ position' = [position EXCEPT ![order[c].symbol] = @ + SharesOf(order[c])]
      BY <1>1, <2>8 DEF UpdatePosition, Goto
    <3>2. position[order[c].symbol] + SharesOf(order[c]) >= 0
      <4>1. CASE order[c].buy
        <5>1. SharesOf(order[c]) = order[c].qty
          BY <1>1, <4>1, OrderType
        <5> QED
          BY <1>1, <1>3, <2>2, <5>1
      <4>2. CASE ~order[c].buy
        <5>1. SharesOf(order[c]) = -order[c].qty
          BY <1>1, <4>2, OrderType
        <5>2. order[c].qty <= position[order[c].symbol]
          BY <2>2, <3>1, <4>2 DEF Covered
        <5> QED
          BY <1>1, <1>3, <5>1, <5>2
      <4> QED
        BY <4>1, <4>2
    <3> QED
      BY <1>1, <2>2, <3>1, <3>2 DEF Covered
  <2>9. CASE InsertTrade(c)
    <3>1. UNCHANGED <<cash, position>> /\ pc'[c] = "idle"
      BY <1>1, <2>9 DEF InsertTrade, Goto
    <3> QED
      BY <2>2, <3>1 DEF Covered
  <2>10. CASE WipePositions(c)
    <3>1. cash' = cash /\ position' = [s \in Symbols |-> 0] /\ pc'[c] = "wipe trades"
      BY <1>1, <2>10 DEF WipePositions, Goto
    <3>2. \A s \in Symbols : position'[s] = 0
      BY <3>1
    <3>3. ASSUME NEW s \in Symbols PROVE position'[s] >= 0
      BY <3>2, 0 >= 0
    <3> QED
      BY <2>2, <3>1, <3>3 DEF Covered
  <2>11. CASE WipeTrades(c)
    <3>1. UNCHANGED <<cash, position>> /\ pc'[c] = "restore cash"
      BY <1>1, <2>11 DEF WipeTrades, Goto
    <3> QED
      BY <2>2, <3>1 DEF Covered
  <2> QED
    BY <1>7, <2>3, <2>4, <2>5, <2>6, <2>7, <2>8, <2>9, <2>10, <2>11 DEF Step
<1> QED
  BY <1>6, <1>7

(* A crash ends every call where it is. *)
LEMMA CrashParts ==
  ASSUME TypeOK, Crash
  PROVE  /\ pc' = [c \in Clients |-> "idle"] /\ lock' = NoClient
         /\ UNCHANGED <<cash, position, rows, flow, volume, order, id, rejected, exposed,
                       orders, resets>>
         /\ faults' \in 0 .. MaxFaults
         /\ ~damaged' => ~damaged /\ \A c \in Clients : pc[c] \notin Halfway
<1>1. /\ pc' = [c \in Clients |-> "idle"] /\ lock' = NoClient
      /\ UNCHANGED <<cash, position, rows, flow, volume, order, id, rejected, exposed,
                    orders, resets>>
  BY DEF Crash, database
<1>2. faults' \in 0 .. MaxFaults
  BY BrokerAssumption DEF Crash, TypeOK
<1>3. damaged' = (damaged \/ \E c \in Clients : pc[c] \in Halfway)
  BY DEF Crash
<1>4. ASSUME ~damaged' PROVE ~damaged /\ \A c \in Clients : pc[c] \notin Halfway
  BY <1>3, <1>4, Zenon
<1> QED
  BY <1>1, <1>2, <1>4

(* A crash of the backend keeps the types ...                                *)
LEMMA CrashType == TypeOK /\ Crash => TypeOK'
<1> SUFFICES ASSUME TypeOK, Crash PROVE TypeOK'
  OBVIOUS
<1> USE BrokerAssumption
<1>1. LockOK'
  BY CrashParts DEF LockOK, Locked, Halfway
<1>2. pc' \in [Clients -> Places]
  BY CrashParts DEF Places
<1>3. damaged' \in BOOLEAN
  BY DEF Crash, TypeOK
<1> QED
  BY <1>1, <1>2, <1>3, CrashParts, TypeParts DEF TypeOK, LockOK, Places, Ids, Orders

(* ... forgets the orders on their way ...                                   *)
LEMMA CrashOrders == TypeOK /\ OrdersInv /\ Crash => OrdersInv'
BY CrashParts DEF OrdersInv, RejectedLeavesNoTrade, Pending, Filling

(* ... leaves the books as they are, and marks them if a call was cut ...    *)
LEMMA CrashBooks == TypeOK /\ BooksInv /\ Crash => BooksInv'
<1> SUFFICES ASSUME TypeOK, BooksInv, Crash PROVE BooksInv'
  OBVIOUS
<1>1. ASSUME ~damaged' PROVE Balanced
  <2>1. ~damaged /\ \A c \in Clients : pc[c] \notin Halfway
    BY <1>1, CrashParts
  <2>2. CASE lock = NoClient
    BY <2>1, <2>2 DEF BooksInv
  <2>3. CASE lock # NoClient
    <3>1. PICK c \in Clients : lock = c
      BY <2>3, TypeParts
    <3>2. pc[c] \in {"cash", "wipe positions"}
      BY <2>1, <3>1, TypeParts DEF LockOK, Locked
    <3> QED
      BY <2>1, <3>2 DEF BooksInv
  <2> QED
    BY <2>2, <2>3
<1> QED
  BY <1>1, CrashParts DEF BooksInv, Balanced

(* ... and exposes nobody.                                                   *)
LEMMA CrashExposure == TypeOK /\ ExposureInv /\ Crash => ExposureInv'
BY CrashParts DEF ExposureInv, Covered

(* What a stuttering step keeps. *)
LEMMA Stutter ==
  UNCHANGED vars => /\ TypeOK => TypeOK'
                    /\ OrdersInv => OrdersInv'
                    /\ BooksInv => BooksInv'
                    /\ ExposureInv => ExposureInv'
<1> SUFFICES ASSUME UNCHANGED vars
             PROVE  /\ TypeOK => TypeOK'
                    /\ OrdersInv => OrdersInv'
                    /\ BooksInv => BooksInv'
                    /\ ExposureInv => ExposureInv'
  OBVIOUS
<1> USE DEF vars, database, calls, counts
<1>1. TypeOK => TypeOK'
  BY DEF TypeOK, Ids
<1>2. OrdersInv => OrdersInv'
  BY DEF OrdersInv, RejectedLeavesNoTrade
<1>3. BooksInv => BooksInv'
  BY DEF BooksInv, Balanced, CashOf, SharesOf, FillPrice, Commission
<1>4. ExposureInv => ExposureInv'
  BY DEF ExposureInv, Covered, Affords, Cost, FillPrice, Commission
<1> QED
  BY <1>1, <1>2, <1>3, <1>4

(* A step is a client's or a crash.                                          *)
LEMMA NextIsStep == Next <=> (\E c \in Clients : Step(c)) \/ Crash
BY DEF Next, Step

(* Every variable keeps its type, and the ledger's lock is held exactly by   *)
(* the call that is between its statements (get_state, execute_fill,         *)
(* reset_account); the numbers given out come with it.                       *)
THEOREM TypeCorrect == Spec => [](TypeOK /\ OrdersInv)
<1>1. Init => TypeOK /\ OrdersInv
  BY InitType, InitOrders
<1>2. TypeOK /\ OrdersInv /\ [Next]_vars => (TypeOK /\ OrdersInv)'
  BY StepType, StepOrders, CrashType, CrashOrders, Stutter, NextIsStep
<1> QED
  BY <1>1, <1>2, PTL DEF Spec

(* An order answered REJECTED has no row in the trade history, however the   *)
(* requests interleave and wherever a statement fails or the process dies    *)
(* (submit_order with execute_fill).                                         *)
THEOREM RejectedHasNoTrade == Spec => []RejectedLeavesNoTrade
<1>1. OrdersInv => RejectedLeavesNoTrade
  BY DEF OrdersInv
<1> QED
  BY <1>1, TypeCorrect, PTL

(* The types and the books are an invariant.                                 *)
LEMMA BooksInvariant == Spec => [](TypeOK /\ BooksInv)
<1>1. TypeOK /\ OrdersInv /\ BooksInv /\ [Next]_vars => BooksInv'
  BY StepBooks, CrashBooks, Stutter, NextIsStep
<1> QED
  BY <1>1, InitBooks, TypeCorrect, PTL DEF Spec

(* With the lock free, the account is what the trade history explains,       *)
(* unless a call was cut between its statements and the account not reset    *)
(* since (execute_fill, reset_account).                                      *)
THEOREM BooksAlwaysBalance == Spec => []BooksBalance
<1>1. BooksInv => BooksBalance
  BY DEF BooksInv, Balanced, BooksBalance
<1> QED
  BY <1>1, BooksInvariant, PTL

(* One request after the other never overdraws the account and never sells   *)
(* short, whatever statements fail in between (submit_order's checks), for a *)
(* commission that is not more than the sale of a share brings in.           *)
THEOREM ShortOnlyWhenExposed ==
  ASSUME Fee <= Price - Slip
  PROVE  Spec => []ExposedBeforeShort
<1>1. TypeOK /\ BooksInv /\ ExposureInv /\ [Next]_vars => ExposureInv'
  BY StepExposure, CrashExposure, Stutter, NextIsStep
<1>2. ExposureInv => ExposedBeforeShort
  BY DEF ExposureInv, ExposedBeforeShort
<1> QED
  BY <1>1, <1>2, InitExposure, BooksInvariant, PTL DEF Spec
=============================================================================
