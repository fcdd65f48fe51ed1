----------------------------- MODULE BoundedFifo -----------------------------
(***************************************************************************)
(* What the event queue of the Nexus engine promises its threads: a        *)
(* first-in first-out channel of at most Bound events.  An event handed to *)
(* it is stored at the end, or refused; it may only be refused when the    *)
(* channel holds Bound events or the engine is shutting down, and events   *)
(* leave in the order in which they entered.                               *)
(***************************************************************************)
EXTENDS Naturals, Sequences

CONSTANTS Event,  (* the events that can be handed to the channel *)
          Bound   (* how many events the channel can hold         *)

VARIABLES fifo,      (* the events stored, oldest first               *)
          delivered, (* every event the channel has given out         *)
          refused,   (* the events the channel turned away for good   *)
          open       (* FALSE once the engine was told to stop        *)

fifoVars == <<fifo, delivered, refused, open>>

Init ==
  /\ fifo = <<>>
  /\ delivered = <<>>
  /\ refused = {}
  /\ open = TRUE

Put(e) ==
  /\ Len(fifo) < Bound
  /\ fifo' = Append(fifo, e)
  /\ UNCHANGED <<delivered, refused, open>>

Refuse(e) ==
  /\ Len(fifo) = Bound \/ ~open
  /\ refused' = refused \cup {e}
  /\ UNCHANGED <<fifo, delivered, open>>

Take ==
  /\ fifo # <<>>
  /\ delivered' = Append(delivered, Head(fifo))
  /\ fifo' = Tail(fifo)
  /\ UNCHANGED <<refused, open>>

Close ==
  /\ open' = FALSE
  /\ UNCHANGED <<fifo, delivered, refused>>

Next ==
  \/ \E e \in Event : Put(e) \/ Refuse(e)
  \/ Take
  \/ Close

Spec == Init /\ [][Next]_fifoVars
=============================================================================
