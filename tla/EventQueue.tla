------------------------------ MODULE EventQueue ------------------------------
(***************************************************************************)
(* The lock-free event queue of the Nexus engine (spsc_queue.h) together   *)
(* with the threads that use it (main.cpp): producers that serialise their *)
(* pushes with push_mutex_, and the one engine thread that pops.           *)
(*                                                                         *)
(* push and pop are split at every access to memory the other side reads   *)
(* or writes: the load of the other side's index, the access to the slot,  *)
(* and the store of the own index.  An index that was loaded may be        *)
(* arbitrarily old when it is used, which is all that the acquire loads    *)
(* and release stores of the code allow.                                   *)
(*                                                                         *)
(* The websocket callback (live_data_ingestor) is a Spinner: it calls push *)
(* until push succeeds or the engine stops.  The microstructure generator  *)
(* (generate_orders) is a Dropper: it ignores the result of push.          *)
(***************************************************************************)
EXTENDS Naturals, Sequences, FiniteSets

CONSTANTS Cap,       (* Capacity: the slots of the ring, a power of two   *)
          Spinners,  (* producer threads that retry a refused push        *)
          Droppers,  (* producer threads that drop a refused event        *)
          MaxEvents, (* bound: how many events one producer creates       *)
          NoThread,  (* push_mutex_ is free                               *)
          NoEvent    (* an unused slot                                    *)

Producers == Spinners \cup Droppers
Event == Producers \X (1 .. MaxEvents)

ASSUME QueueAssumption ==
  /\ Cap \in Nat /\ Cap >= 2
  /\ MaxEvents \in Nat
  /\ Spinners \cap Droppers = {}
  /\ NoThread \notin Producers
  /\ NoEvent \notin Event

VARIABLES
  running,   (* the engine's running flag, cleared by the signal handler   *)
  mutex,     (* the thread that holds push_mutex_, or NoThread             *)
  head,      (* head_: the next slot to pop                                *)
  tail,      (* tail_: the next slot to fill                               *)
  buffer,    (* buffer_                                                    *)
  pc,        (* where each producer is                                     *)
  made,      (* how many events each producer has created                  *)
  cpc,       (* where the engine thread is                                 *)
  event,     (* the engine thread's local copy of the event it pops        *)
  consumed,  (* history: the events popped, in order                       *)
  accepted,  (* history: the events pushed, in order                       *)
  lost       (* history: the events no push will be tried for again        *)

ring     == <<head, tail, buffer>>
history  == <<consumed, accepted, lost>>
producer == <<mutex, pc, made>>
consumer == <<cpc, event>>
vars == <<running, mutex, head, tail, buffer, pc, made, cpc, event,
          consumed, accepted, lost>>

Slots == 0 .. Cap - 1

(* (i + 1) & (Capacity - 1): Capacity is a power of two *)
Succ(i) == (i + 1) % Cap

(* The event a producer holds is the last one it created. *)
Item(p) == <<p, made[p]>>

Init ==
  /\ running = TRUE
  /\ mutex = NoThread
  /\ head = 0
  /\ tail = 0
  /\ buffer = [i \in Slots |-> NoEvent]
  /\ pc = [p \in Producers |-> "idle"]
  /\ made = [p \in Producers |-> 0]
  /\ cpc = "poll"
  /\ event = NoEvent
  /\ consumed = <<>>
  /\ accepted = <<>>
  /\ lost = {}

Goto(p, l) == pc' = [pc EXCEPT ![p] = l]
-----------------------------------------------------------------------------
(* The producers. *)

(* A message arrives on the websocket, or the generator draws an order.  The *)
(* generator's loop only looks at running between two bursts of orders, so   *)
(* it can create events after the flag was cleared.                          *)
Create(p) ==
  /\ pc[p] = "idle"
  /\ made[p] < MaxEvents
  /\ made' = [made EXCEPT ![p] = @ + 1]
  /\ Goto(p, IF p \in Spinners THEN "spin" ELSE "lock")
  /\ UNCHANGED <<running, mutex, ring, consumer, history>>

(* Fault for ShutdownCompletes: a retry loop that ignores the flag. *)
SpinTestForever(p) ==
  /\ pc[p] = "spin"
  /\ Goto(p, "lock")
  /\ UNCHANGED <<running, mutex, made, ring, consumer, history>>

(* while (running && !push(ev)): the flag is read before every attempt. *)
SpinTest(p) ==
  /\ pc[p] = "spin"
  /\ IF running
     THEN Goto(p, "lock") /\ UNCHANGED lost
     ELSE Goto(p, "idle") /\ lost' = lost \cup {Item(p)}
  /\ UNCHANGED <<running, mutex, made, ring, consumer, consumed, accepted>>

Lock(p) ==
  /\ pc[p] = "lock"
  /\ mutex = NoThread
  /\ mutex' = p
  /\ Goto(p, "check")
  /\ UNCHANGED <<running, made, ring, consumer, history>>

(* Fault for NoSlotRace: a full ring is overwritten. *)
CheckFullNever(p) ==
  /\ pc[p] = "check"
  /\ Goto(p, "write")
  /\ UNCHANGED <<running, mutex, made, ring, consumer, history>>

(* Fault for ImplementsFifo: the ring is taken for full one event too early. *)
CheckFullEarly(p) ==
  /\ pc[p] = "check"
  /\ IF head \in {Succ(tail), Succ(Succ(tail))}
     THEN /\ mutex' = NoThread
          /\ Goto(p, IF p \in Spinners THEN "spin" ELSE "idle")
          /\ lost' = IF p \in Spinners THEN lost ELSE lost \cup {Item(p)}
     ELSE /\ Goto(p, "write")
          /\ UNCHANGED <<mutex, lost>>
  /\ UNCHANGED <<running, made, ring, consumer, consumed, accepted>>

(* Loads head_; tail_ cannot change while the mutex is held.  A push that    *)
(* finds the ring full returns false and releases the mutex.                 *)
CheckFull(p) ==
  /\ pc[p] = "check"
  /\ IF Succ(tail) = head
     THEN /\ mutex' = NoThread
          /\ Goto(p, IF p \in Spinners THEN "spin" ELSE "idle")
          /\ lost' = IF p \in Spinners THEN lost ELSE lost \cup {Item(p)}
     ELSE /\ Goto(p, "write")
          /\ UNCHANGED <<mutex, lost>>
  /\ UNCHANGED <<running, made, ring, consumer, consumed, accepted>>

WriteSlot(p) ==
  /\ pc[p] = "write"
  /\ buffer' = [buffer EXCEPT ![tail] = Item(p)]
  /\ Goto(p, "publish")
  /\ UNCHANGED <<running, mutex, made, head, tail, consumer, history>>

(* tail_.store(release); push returns true, which releases the mutex. *)
Publish(p) ==
  /\ pc[p] = "publish"
  /\ tail' = Succ(tail)
  /\ mutex' = NoThread
  /\ accepted' = Append(accepted, Item(p))
  /\ Goto(p, "idle")
  /\ UNCHANGED <<running, made, head, buffer, consumer, consumed, lost>>

Produce(p) ==
  Create(p) \/ SpinTest(p) \/ Lock(p) \/ CheckFull(p) \/ WriteSlot(p) \/ Publish(p)
-----------------------------------------------------------------------------
(* The engine thread. *)

(* Fault for AcceptedIsProcessed: a ring of one event is taken for empty. *)
PollTwo ==
  /\ cpc = "poll"
  /\ \/ /\ running
        /\ tail \notin {head, Succ(head)}
        /\ cpc' = "read"
     \/ /\ ~running
        /\ cpc' = "done"
  /\ UNCHANGED <<running, producer, ring, event, history>>

(* One turn of while (running): loads tail_; an empty ring is polled again. *)
Poll ==
  /\ cpc = "poll"
  /\ \/ /\ running
        /\ head # tail
        /\ cpc' = "read"
     \/ /\ ~running
        /\ cpc' = "done"
  /\ UNCHANGED <<running, producer, ring, event, history>>

ReadSlot ==
  /\ cpc = "read"
  /\ event' = buffer[head]
  /\ cpc' = "advance"
  /\ UNCHANGED <<running, producer, ring, history>>

(* head_.store(release): pop returns true and the slot may be reused. *)
Advance ==
  /\ cpc = "advance"
  /\ head' = Succ(head)
  /\ consumed' = Append(consumed, event)
  /\ cpc' = "poll"
  /\ UNCHANGED <<running, producer, tail, buffer, event, accepted, lost>>

Consume == Poll \/ ReadSlot \/ Advance

(* SIGINT or SIGTERM: handle_shutdown_signal *)
Shutdown ==
  /\ running
  /\ running' = FALSE
  /\ UNCHANGED <<producer, ring, consumer, history>>

Next ==
  \/ \E p \in Producers : Produce(p)
  \/ Consume
  \/ Shutdown

(* Each thread keeps running; nothing forces a message to arrive, nor a      *)
(* signal.                                                                   *)
Fairness ==
  /\ WF_vars(Consume)
  /\ \A p \in Producers :
       WF_vars(SpinTest(p) \/ Lock(p) \/ CheckFull(p) \/ WriteSlot(p) \/ Publish(p))

Spec == Init /\ [][Next]_vars
FairSpec == Spec /\ Fairness
-----------------------------------------------------------------------------
(* Properties. *)

(* Every variable has its type; spsc_queue.h keeps both indices in the ring. *)
TypeOK ==
  /\ running \in BOOLEAN
  /\ mutex \in Producers \cup {NoThread}
  /\ head \in Slots
  /\ tail \in Slots
  /\ buffer \in [Slots -> Event \cup {NoEvent}]
  /\ pc \in [Producers -> {"idle", "spin", "lock", "check", "write", "publish"}]
  /\ made \in [Producers -> 0 .. MaxEvents]
  /\ \A p \in Producers : pc[p] # "idle" => made[p] >= 1
  /\ cpc \in {"poll", "read", "advance", "done"}
  /\ event \in Event \cup {NoEvent}
  /\ consumed \in Seq(Event \cup {NoEvent})
  /\ accepted \in Seq(Event)
  /\ lost \subseteq Event

(* How many slots lie between the indices h and t. *)
Distance(h, t) == IF t >= h THEN t - h ELSE t - h + Cap

(* The slots of b from index h up to t, oldest first. *)
Window(b, h, t) == [i \in 1 .. Distance(h, t) |-> b[(h + i - 1) % Cap]]

(* The events that were pushed and not popped. *)
Contents == Window(buffer, head, tail)

(* The slot the engine thread is copying is never the slot a producer is     *)
(* writing: buffer_ has no lock of its own, so that overlap would be a torn  *)
(* event (spsc_queue.h, push and pop).                                       *)
NoSlotRace ==
  \A p \in Producers :
    pc[p] \in {"write", "publish"} /\ cpc \in {"read", "advance"} => head # tail

(* Nothing that was accepted is lost, duplicated, torn or reordered: the     *)
(* events popped, followed by what the ring holds, are the events pushed.    *)
NothingLost == accepted = consumed \o Contents

(* The inductive strengthening of NothingLost: the mutex excludes the other  *)
(* producers between the check and the store of the index; an index that was *)
(* checked stays valid because the other side only moves away from it; the   *)
(* copies made before an index is stored are still the slot's contents.      *)
IndInv ==
  /\ TypeOK
  /\ \A p \in Producers : pc[p] \in {"check", "write", "publish"} <=> mutex = p
  /\ \A p \in Producers : pc[p] \in {"write", "publish"} => Succ(tail) # head
  /\ \A p \in Producers : pc[p] = "publish" => buffer[tail] = Item(p)
  /\ cpc \in {"read", "advance"} => head # tail
  /\ cpc = "advance" => event = buffer[head]
  /\ NothingLost

(* The queue implements the bounded channel: the ring holds at most Cap - 1  *)
(* events and an event is refused only when that many are stored, or at      *)
(* shutdown.                                                                 *)
Fifo == INSTANCE BoundedFifo WITH
          Bound <- Cap - 1, fifo <- Contents, delivered <- consumed,
          refused <- lost, open <- running
ImplementsFifo == Fifo!Spec

(* Every event push accepted is processed by the engine thread, unless the   *)
(* engine is stopped first.                                                  *)
AcceptedIsProcessed ==
  \A n \in 1 .. Cardinality(Event) :
    Len(accepted) >= n ~> (Len(consumed) >= n \/ ~running)

(* After the signal every thread leaves its loop, so that main's joins       *)
(* return: in particular a producer spinning on a full ring whose consumer   *)
(* has already left (main.cpp joins the producer first).                     *)
ShutdownCompletes == ~running ~> (cpc = "done" /\ \A p \in Spinners : pc[p] = "idle")
=============================================================================
