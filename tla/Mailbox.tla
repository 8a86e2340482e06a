------------------------------ MODULE Mailbox ------------------------------
(***************************************************************************)
(* What the receive queue of one cport promises: a mailbox that any thread *)
(* puts messages into and one consumer takes them out of, in order and one *)
(* at a time.  The consumer is attached and asked to leave; it leaves only *)
(* between two messages, and only when the box is empty.                   *)
(***************************************************************************)
EXTENDS Sequences

CONSTANT Message

VARIABLES
  box,       (* the messages that wait, oldest first                       *)
  running,   (* <<m>> while the consumer handles m, else <<>>              *)
  consumer,  (* "off", "on" or "leaving"                                   *)
  status     (* "live" until the system stops                              *)

vars == <<box, running, consumer, status>>

Init == box = <<>> /\ running = <<>> /\ consumer = "off" /\ status = "live"

Put ==
  /\ \E m \in Message : box' = Append(box, m)
  /\ UNCHANGED <<running, consumer, status>>

Take ==
  /\ consumer # "off"
  /\ running = <<>>
  /\ box # <<>>
  /\ running' = <<Head(box)>>
  /\ box' = Tail(box)
  /\ UNCHANGED <<consumer, status>>

Done ==
  /\ running # <<>>
  /\ running' = <<>>
  /\ UNCHANGED <<box, consumer, status>>

Attach ==
  /\ consumer = "off"
  /\ consumer' = "on"
  /\ UNCHANGED <<box, running, status>>

AskToLeave ==
  /\ consumer = "on"
  /\ consumer' = "leaving"
  /\ UNCHANGED <<box, running, status>>

Leave ==
  /\ consumer = "leaving"
  /\ running = <<>>
  /\ box = <<>>
  /\ consumer' = "off"
  /\ UNCHANGED <<box, running, status>>

Stop == status' = "stopped" /\ UNCHANGED <<box, running, consumer>>

Consume == status = "live" /\ (Take \/ Done \/ Leave)

Next == status = "live" /\ (Put \/ Take \/ Done \/ Attach \/ AskToLeave \/ Leave \/ Stop)

Safety == Init /\ [][Next]_vars

Spec == Safety /\ WF_vars(Consume)
=============================================================================
