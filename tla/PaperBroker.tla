----------------------------- MODULE PaperBroker -----------------------------
(***************************************************************************)
(* The paper broker and its ledger (paper_broker.py, paper_ledger.py), as  *)
(* the web backend uses them: every request runs submit_order or           *)
(* reset_account in a thread of its own (asyncio.to_thread), all on one    *)
(* broker and one DuckDB connection.                                       *)
(*                                                                         *)
(* The ledger's lock is held by get_state and by execute_fill, and is free *)
(* between the two.  Each SQL statement commits by itself, so a statement  *)
(* that fails, or a process that dies, leaves the ones before it in the    *)
(* database.  The trades table is kept as the orders it has rows of and    *)
(* the totals of these rows; the average cost of a position decides        *)
(* nothing here.                                                           *)
(***************************************************************************)
EXTENDS Integers, FiniteSets

CONSTANTS Clients,     (* the requests that can be in progress at once    *)
          Symbols,
          InitialCash, (* account.initial_cash, also get_state's fallback *)
          Price, Slip, (* market price of a share and the slippage of it  *)
          Fee,         (* commission of VWAP, per share                   *)
          MaxQty,      (* bound: the largest order                        *)
          MaxOrders, MaxResets, (* bounds: calls of each kind             *)
          MaxFaults,   (* bound: failed statements and crashes            *)
          NoClient     (* the lock is free                                *)

ASSUME BrokerAssumption ==
  /\ InitialCash \in Nat /\ Price \in Nat /\ Slip \in Nat /\ Slip <= Price /\ Fee \in Nat
  /\ MaxQty \in Nat /\ MaxOrders \in Nat /\ MaxResets \in Nat /\ MaxFaults \in Nat
  /\ NoClient \notin Clients
  /\ IsFiniteSet(Clients)
  /\ Symbols # {}

Orders == [symbol : Symbols, buy : BOOLEAN, qty : 0 .. MaxQty, vwap : BOOLEAN]
Ids == 1 .. MaxOrders

VARIABLES
  cash,      (* account.cash                                              *)
  position,  (* positions: the quantity held of each symbol               *)
  rows,      (* trades: the orders that have a row                        *)
  flow,      (* trades: what the rows add to the cash                     *)
  volume,    (* trades: what the rows add to each position                *)
  lock,      (* the ledger's _lock                                        *)
  pc,        (* where each client's call is                               *)
  order,     (* the order of each client                                  *)
  id,        (* and its number                                            *)
  rejected,  (* history: the orders answered REJECTED                     *)
  damaged,   (* history: a call ended in the middle of its statements,    *)
             (* and the account was not reset since                       *)
  exposed,   (* history: a call overlapped another one, or a read failed, *)
             (* and the account was not reset since                       *)
  orders, resets, faults  (* history: how often each happened             *)

database == <<cash, position, rows, flow, volume>>
calls    == <<lock, pc, order, id>>
counts   == <<orders, resets, faults>>
vars == <<database, calls, rejected, damaged, exposed, counts>>

FillPrice(o) == IF o.buy THEN Price + Slip ELSE Price - Slip
Commission(o) == IF o.vwap THEN o.qty * Fee ELSE 0

(* Fault for ExposedBeforeShort: the commission is not part of the check.    *)
CostWithoutFee(o) == o.qty * FillPrice(o)

(* What a buyer has to pay. *)
Cost(o) == (o.qty * FillPrice(o)) + Commission(o)

(* What a fill adds to the cash and to the position. *)
CashOf(o) == IF o.buy THEN -((o.qty * FillPrice(o)) + Commission(o))
                      ELSE (o.qty * FillPrice(o)) - Commission(o)
SharesOf(o) == IF o.buy THEN o.qty ELSE -o.qty

NoOrder == [symbol |-> CHOOSE s \in Symbols : TRUE, buy |-> TRUE, qty |-> 0, vwap |-> FALSE]

Init ==
  /\ cash = InitialCash
  /\ position = [s \in Symbols |-> 0]
  /\ rows = {} /\ flow = 0 /\ volume = [s \in Symbols |-> 0]
  /\ lock = NoClient
  /\ pc = [c \in Clients |-> "idle"]
  /\ order = [c \in Clients |-> NoOrder]
  /\ id = [c \in Clients |-> 0]
  /\ rejected = {} /\ damaged = FALSE /\ exposed = FALSE
  /\ orders = 0 /\ resets = 0 /\ faults = 0

Goto(c, l) == pc' = [pc EXCEPT ![c] = l]
Others(c) == \E d \in Clients \ {c} : pc[d] # "idle"
-----------------------------------------------------------------------------
(* submit_order. *)

(* The request arrives; an order of no shares is refused at once. *)
Submit(c, o) ==
  /\ pc[c] = "idle"
  /\ orders < MaxOrders
  /\ orders' = orders + 1
  /\ order' = [order EXCEPT ![c] = o]
  /\ id' = [id EXCEPT ![c] = orders + 1]
  /\ IF o.qty = 0
     THEN rejected' = rejected \cup {orders + 1} /\ UNCHANGED pc
     ELSE Goto(c, "state") /\ UNCHANGED rejected
  /\ exposed' = (exposed \/ Others(c))
  /\ UNCHANGED <<database, lock, damaged, resets, faults>>

(* The checks of buying power and of the position. *)
Affords(o, money, held) == IF o.buy THEN Cost(o) <= money ELSE o.qty <= held

Judge(c, money, held) ==
  IF Affords(order[c], money, held)
  THEN Goto(c, "lock") /\ UNCHANGED rejected
  ELSE Goto(c, "idle") /\ rejected' = rejected \cup {id[c]}

(* get_state, under the lock, and the checks on what it returned. *)
GetState(c) ==
  /\ pc[c] = "state"
  /\ lock = NoClient
  /\ Judge(c, cash, position[order[c].symbol])
  /\ UNCHANGED <<database, lock, order, id, damaged, exposed, counts>>

(* A failed read is logged and answered with an untouched account. *)
GetStateFails(c) ==
  /\ pc[c] = "state"
  /\ lock = NoClient
  /\ faults < MaxFaults
  /\ faults' = faults + 1
  /\ Judge(c, InitialCash, 0)
  /\ exposed' = TRUE
  /\ UNCHANGED <<database, lock, order, id, damaged, orders, resets>>

(* execute_fill takes the lock, or reset_account does. *)
Acquire(c) ==
  /\ pc[c] \in {"lock", "reset"}
  /\ lock = NoClient
  /\ lock' = c
  /\ Goto(c, IF pc[c] = "lock" THEN "cash" ELSE "wipe positions")
  /\ UNCHANGED <<database, order, id, rejected, damaged, exposed, counts>>

UpdateCash(c) ==
  /\ pc[c] = "cash"
  /\ cash' = cash + CashOf(order[c])
  /\ Goto(c, "position")
  /\ UNCHANGED <<position, rows, flow, volume, lock, order, id, rejected, damaged, exposed, counts>>

(* Fault for RejectedLeavesNoTrade: the row is written before the position,  *)
(* which is then never known to have failed.                                 *)
UpdatePositionAfterRow(c) ==
  /\ pc[c] = "position"
  /\ position' = [position EXCEPT ![order[c].symbol] = @ + SharesOf(order[c])]
  /\ rows' = rows \cup {id[c]}
  /\ Goto(c, "trade")
  /\ UNCHANGED <<cash, flow, volume, lock, order, id, rejected, damaged, exposed, counts>>

(* The position is read and written back. *)
UpdatePosition(c) ==
  /\ pc[c] = "position"
  /\ position' = [position EXCEPT ![order[c].symbol] = @ + SharesOf(order[c])]
  /\ Goto(c, "trade")
  /\ UNCHANGED <<cash, rows, flow, volume, lock, order, id, rejected, damaged, exposed, counts>>

(* The trade's row, after which the lock is released and the order FILLED. *)
InsertTrade(c) ==
  /\ pc[c] = "trade"
  /\ rows' = rows \cup {id[c]}
  /\ flow' = flow + CashOf(order[c])
  /\ volume' = [volume EXCEPT ![order[c].symbol] = @ + SharesOf(order[c])]
  /\ lock' = NoClient
  /\ Goto(c, "idle")
  /\ UNCHANGED <<cash, position, order, id, rejected, damaged, exposed, counts>>
-----------------------------------------------------------------------------
(* reset_account, in three statements. *)

Reset(c) ==
  /\ pc[c] = "idle"
  /\ resets < MaxResets
  /\ resets' = resets + 1
  /\ Goto(c, "reset")
  /\ exposed' = (exposed \/ Others(c))
  /\ UNCHANGED <<database, lock, order, id, rejected, damaged, orders, faults>>

WipePositions(c) ==
  /\ pc[c] = "wipe positions"
  /\ position' = [s \in Symbols |-> 0]
  /\ Goto(c, "wipe trades")
  /\ UNCHANGED <<cash, rows, flow, volume, lock, order, id, rejected, damaged, exposed, counts>>

WipeTrades(c) ==
  /\ pc[c] = "wipe trades"
  /\ rows' = {} /\ flow' = 0 /\ volume' = [s \in Symbols |-> 0]
  /\ Goto(c, "restore cash")
  /\ UNCHANGED <<cash, position, lock, order, id, rejected, damaged, exposed, counts>>

(* Fault for BooksBalance: the account keeps what it has. *)
RestoreNoCash(c) ==
  /\ pc[c] = "restore cash"
  /\ lock' = NoClient
  /\ Goto(c, "idle")
  /\ damaged' = FALSE
  /\ exposed' = Others(c)
  /\ UNCHANGED <<database, order, id, rejected, counts>>

RestoreCash(c) ==
  /\ pc[c] = "restore cash"
  /\ cash' = InitialCash
  /\ lock' = NoClient
  /\ Goto(c, "idle")
  /\ damaged' = FALSE
  /\ exposed' = Others(c)
  /\ UNCHANGED <<position, rows, flow, volume, order, id, rejected, counts>>
-----------------------------------------------------------------------------
(* Faults. *)

(* The statements before which others of the same call have committed. *)
Halfway == {"position", "trade", "wipe trades", "restore cash"}
Filling == {"cash", "position", "trade"}
Locked == {"cash", "wipe positions"} \cup Halfway

(* A statement raises.  execute_fill catches that and the order is answered  *)
(* REJECTED, LEDGER_WRITE_FAILED; out of reset_account it fails the request. *)
StatementFails(c) ==
  /\ lock = c
  /\ faults < MaxFaults
  /\ faults' = faults + 1
  /\ lock' = NoClient
  /\ Goto(c, "idle")
  /\ rejected' = IF pc[c] \in Filling THEN rejected \cup {id[c]} ELSE rejected
  /\ damaged' = (damaged \/ pc[c] \in Halfway)
  /\ UNCHANGED <<database, order, id, exposed, orders, resets>>

(* The backend is killed and started again on the same database. *)
Crash ==
  /\ faults < MaxFaults
  /\ \E c \in Clients : pc[c] # "idle"
  /\ faults' = faults + 1
  /\ lock' = NoClient
  /\ pc' = [c \in Clients |-> "idle"]
  /\ damaged' = (damaged \/ \E c \in Clients : pc[c] \in Halfway)
  /\ UNCHANGED <<database, order, id, rejected, exposed, orders, resets>>

Next ==
  \/ \E c \in Clients :
       \/ \E o \in Orders : Submit(c, o)
       \/ GetState(c) \/ GetStateFails(c) \/ Acquire(c)
       \/ UpdateCash(c) \/ UpdatePosition(c) \/ InsertTrade(c)
       \/ Reset(c) \/ WipePositions(c) \/ WipeTrades(c) \/ RestoreCash(c)
       \/ StatementFails(c)
  \/ Crash

Spec == Init /\ [][Next]_vars
-----------------------------------------------------------------------------
(* Properties. *)

(* Every variable has its type, and the lock is held exactly by the call that *)
(* is between its statements.                                                *)
TypeOK ==
  /\ cash \in Int /\ flow \in Int
  /\ position \in [Symbols -> Int] /\ volume \in [Symbols -> Int]
  /\ rows \subseteq Ids /\ rejected \subseteq Ids
  /\ lock \in Clients \cup {NoClient}
  /\ pc \in [Clients -> {"idle", "state", "lock", "reset"} \cup Locked]
  /\ \A c \in Clients : lock = c <=> pc[c] \in Locked
  /\ order \in [Clients -> Orders]
  /\ id \in [Clients -> 0 .. orders]
  /\ damaged \in BOOLEAN /\ exposed \in BOOLEAN
  /\ orders \in 0 .. MaxOrders /\ resets \in 0 .. MaxResets /\ faults \in 0 .. MaxFaults

(* Whenever the lock is free, the cash and the positions are what the rows   *)
(* of the trades table explain: no fill is counted twice, torn by a reset or *)
(* lost, unless a statement failed or the backend died in the middle of a    *)
(* call; and a complete reset repairs that.                                  *)
BooksBalance ==
  lock = NoClient /\ ~damaged =>
    /\ cash = InitialCash + flow
    /\ position = volume

(* The account is overdrawn, or short of a symbol, only after two calls      *)
(* overlapped or a read failed: one request after the other never gets       *)
(* there, whatever statements fail in between (submit_order's checks).       *)
ExposedBeforeShort ==
  ~exposed => cash >= 0 /\ \A s \in Symbols : position[s] >= 0

(* An order that was answered REJECTED has no row in the trade history, also *)
(* when its cash was taken before a statement failed.                        *)
RejectedLeavesNoTrade == rows \cap rejected = {}

(* The inductive strengthenings of the three, statement by statement.  Unless *)
(* a call was cut in the middle, what is missing from the books is exactly   *)
(* what the call that holds the lock has still to write; a reset that has    *)
(* come that far has nothing left, damaged or not.                           *)
Nothing == [s \in Symbols |-> 0]
Balanced == cash = InitialCash + flow /\ position = volume

BooksInv ==
  /\ \A c \in Clients : pc[c] \in {"wipe trades", "restore cash"} => position = Nothing
  /\ \A c \in Clients : pc[c] = "restore cash" => flow = 0 /\ volume = Nothing
  /\ ~damaged =>
       /\ lock = NoClient => Balanced
       /\ \A c \in Clients :
            /\ pc[c] \in {"cash", "wipe positions"} => Balanced
            /\ pc[c] \in {"position", "trade"} => cash = InitialCash + (flow + CashOf(order[c]))
            /\ pc[c] = "position" => position = volume
            /\ pc[c] = "trade" =>
                 position = [volume EXCEPT ![order[c].symbol] = @ + SharesOf(order[c])]

(* An order that is still to be answered is new to the table and to the      *)
(* answers, and no other client has its number.                              *)
Pending == {"state", "lock"} \cup Filling

OrdersInv ==
  /\ rows \subseteq 1 .. orders /\ rejected \subseteq 1 .. orders
  /\ \A c \in Clients : pc[c] \in Pending =>
       /\ id[c] \in 1 .. orders /\ id[c] \notin rows /\ id[c] \notin rejected
       /\ \A d \in Clients \ {c} : pc[d] \in Pending => id[d] # id[c]
  /\ RejectedLeavesNoTrade

(* While nothing overlaps, the order in progress is still covered by what it *)
(* was judged by.                                                            *)
Covered(c) ==
  LET held == position[order[c].symbol]
  IN /\ pc[c] \in {"lock", "cash"} => Affords(order[c], cash, held)
     /\ pc[c] = "position" /\ ~order[c].buy => order[c].qty <= held

ExposureInv ==
  ~exposed =>
    /\ \A c, d \in Clients : pc[c] # "idle" /\ pc[d] # "idle" => c = d
    /\ cash >= 0 /\ \A s \in Symbols : position[s] >= 0
    /\ \A c \in Clients : Covered(c)

(* What the broker's tests call the rejection of naked shorts: an account    *)
(* without failed statements never owes shares.  TLC refutes it: two orders  *)
(* to sell that overlap are both filled from one position.                   *)
NoNakedShort == faults = 0 => \A s \in Symbols : position[s] >= 0
=============================================================================
