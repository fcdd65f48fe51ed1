-------------------------------- MODULE Tape ---------------------------------
(***************************************************************************)
(* The trade tape of the web backend (state.py, api/ws.py): a filled order *)
(* starts a task that sends the fill to every websocket that is open.  All *)
(* tasks run on one event loop and give way only where they await.         *)
(***************************************************************************)
EXTENDS Integers, SequencesExt, FiniteSets

CONSTANTS Sockets,   (* the browsers                                       *)
          TapeFills  (* bound: the fills that are broadcast                *)

ASSUME TapeAssumption == IsFiniteSet(Sockets) /\ IsFiniteSet(TapeFills)

VARIABLES
  tape,      (* TAPE_CLIENTS                                               *)
  socket,    (* what became of each browser: new, open, gone               *)
  handler,   (* the sockets whose ws_tape is running                       *)
  todo,      (* the sockets each broadcast still has to send to            *)
  listening, (* history: the sockets that were open all through each       *)
             (* broadcast                                                  *)
  inbox      (* history: what each browser got                             *)

tapeVars == <<tape, socket, handler, todo, listening, inbox>>

TapeInit ==
  /\ tape = <<>> /\ handler = {}
  /\ socket = [s \in Sockets |-> "new"]
  /\ todo = [f \in TapeFills |-> <<>>] /\ listening = [f \in TapeFills |-> {}]
  /\ inbox = [s \in Sockets |-> <<>>]

(* remove, where the socket is in the list. *)
Without(q, s) == RemoveFirst(q, s)
Open == {s \in Sockets : socket[s] = "open"}

(* ws_tape accepts the socket and registers it. *)
Connect(s) ==
  /\ socket[s] = "new"
  /\ socket' = [socket EXCEPT ![s] = "open"]
  /\ tape' = Append(tape, s)
  /\ handler' = handler \cup {s}
  /\ UNCHANGED <<todo, listening, inbox>>

(* A browser leaves.  ws_tape only sleeps, and never hears of it. *)
Disconnect(s) ==
  /\ socket[s] = "open"
  /\ socket' = [socket EXCEPT ![s] = "gone"]
  /\ listening' = [f \in TapeFills |-> listening[f] \ {s}]
  /\ UNCHANGED <<tape, handler, todo, inbox>>

(* broadcast_tape begins, with a copy of the list. *)
Broadcast(f) ==
  /\ todo[f] = <<>> /\ listening[f] = {} /\ tape # <<>>
  /\ \A s \in Sockets : f \notin {inbox[s][i] : i \in DOMAIN inbox[s]}
  /\ todo' = [todo EXCEPT ![f] = tape]
  /\ listening' = [listening EXCEPT ![f] = Open]
  /\ UNCHANGED <<tape, socket, handler, inbox>>

(* Fault for NobodyIsSkipped: the list itself is walked, so that a removal   *)
(* moves the next socket out of the way.                                     *)
SendNextShared(f) ==
  /\ todo[f] # <<>>
  /\ LET s == Head(todo[f]) IN
       IF socket[s] = "open"
       THEN /\ inbox' = [inbox EXCEPT ![s] = Append(@, f)]
            /\ todo' = [todo EXCEPT ![f] = Tail(@)]
            /\ UNCHANGED tape
       ELSE /\ tape' = Without(tape, s)
            /\ todo' = [todo EXCEPT ![f] = IF Len(@) > 1 THEN Tail(Tail(@)) ELSE <<>>]
            /\ UNCHANGED inbox
  /\ UNCHANGED <<socket, handler, listening>>

(* One send is awaited; a socket that fails is taken off the list. *)
SendNext(f) ==
  /\ todo[f] # <<>>
  /\ LET s == Head(todo[f]) IN
       IF socket[s] = "open"
       THEN inbox' = [inbox EXCEPT ![s] = Append(@, f)] /\ UNCHANGED tape
       ELSE tape' = Without(tape, s) /\ UNCHANGED inbox
  /\ todo' = [todo EXCEPT ![f] = Tail(@)]
  /\ UNCHANGED <<socket, handler, listening>>

(* close_state runs when the server has closed all sockets for good. *)
CloseTape ==
  /\ tape # <<>>
  /\ tape' = <<>> /\ handler' = {}
  /\ socket' = [s \in Sockets |-> "gone"]
  /\ listening' = [f \in TapeFills |-> {}]
  /\ UNCHANGED <<todo, inbox>>

TapeNext ==
  \/ \E s \in Sockets : Connect(s) \/ Disconnect(s)
  \/ \E f \in TapeFills : Broadcast(f) \/ SendNext(f)
  \/ CloseTape

TapeSpec == TapeInit /\ [][TapeNext]_tapeVars
-----------------------------------------------------------------------------
(* Properties. *)

(* A browser that listens all through a broadcast gets the fill, once, however *)
(* many others fail and are removed meanwhile, and none gets a fill twice.   *)
NobodyIsSkipped ==
  \A f \in TapeFills, s \in Sockets :
    LET copies == Cardinality({i \in DOMAIN inbox[s] : inbox[s][i] = f})
    IN /\ copies <= 1
       /\ todo[f] = <<>> /\ s \in listening[f] => copies = 1
=============================================================================
