--------------------------- MODULE UartTransport ----------------------------
(***************************************************************************)
(* The transport of platform/transport-uart.c: Greybus messages on a       *)
(* serial line, with the number of the cport in the padding of the header. *)
(*                                                                         *)
(* The interrupt handler moves bytes into a ring buffer and submits a work *)
(* item; the system work queue runs it to take one message out and hand it *)
(* to greybus_rx_handler.  Submitting an item that is queued does nothing, *)
(* and one that is running is queued again.  The handler interrupts the    *)
(* work item anywhere; an overflow in the middle of ring_buf_get is left   *)
(* out.  Threads that send write their bytes to the line with no lock.     *)
(***************************************************************************)
EXTENDS Integers, FiniteSets, Sequences

CONSTANTS
  HeaderSize, (* sizeof(struct gb_operation_hdr): 8                        *)
  MaxPayload, (* GB_MAX_PAYLOAD_SIZE, GB_MTU less the header               *)
  Pad,        (* RB_PAD: 8                                                 *)
  Senders,    (* the threads that call gb_xport_send                       *)
  MaxOut,     (* bound: messages sent                                      *)
  MaxIn,      (* bound: messages the peer sends                            *)
  Window      (* how many messages the peer sends ahead of their delivery  *)

ASSUME UartAssumption ==
  /\ {HeaderSize, Window} \subseteq Nat \ {0}
  /\ {MaxPayload, Pad, MaxOut, MaxIn} \subseteq Nat

VARIABLES
  peer,       (* the next byte the peer sends                              *)
  line,       (* the bytes that wait in the UART                           *)
  ring,       (* uart_rb                                                   *)
  queued,     (* uart_work is queued                                       *)
  work,       (* where uart_work_fn is, and the message it builds          *)
  delivered,  (* ghost: messages handed on; 0 is none the peer sent        *)
  overflowed, (* ghost: a byte of the ring was dropped                     *)
  burst,      (* ghost: the ring held bytes of two messages                *)
  send,       (* where each sender is                                      *)
  out,        (* the bytes written to the line                             *)
  overlapped, (* ghost: two sends overlapped                               *)
  budget      (* ghost: messages that may still be sent                    *)

inVars == <<peer, line, ring, queued, work, delivered, overflowed, burst>>
outVars == <<send, out, overlapped, budget>>
vars == <<inVars, outVars>>

(* The size of uart_rb.                                                    *)
Capacity == HeaderSize + MaxPayload + Pad

WorkIdle == [pc |-> "off", got |-> <<>>, need |-> 0]
SendIdle == [pc |-> "idle", msg |-> 0, at |-> 0]

(* The peer's byte pos of message msg, which has len bytes.                *)
Byte(msg, pos, len) == [msg |-> msg, pos |-> pos, len |-> len]

Init ==
  /\ peer = Byte(1, 1, 0)
  /\ line = <<>>
  /\ ring = <<>>
  /\ queued = FALSE
  /\ work = WorkIdle
  /\ delivered = <<>>
  /\ overflowed = FALSE
  /\ burst = FALSE
  /\ send = [s \in Senders |-> SendIdle]
  /\ out = <<>>
  /\ overlapped = FALSE
  /\ budget = MaxOut

-----------------------------------------------------------------------------
(* The peer sends a byte; it begins a message when its window allows.      *)
PeerByte(len) ==
  /\ peer.msg <= MaxIn
  /\ IF peer.pos = 1 THEN peer.msg <= Len(delivered) + Window ELSE len = peer.len
  /\ line' = Append(line, Byte(peer.msg, peer.pos, len))
  /\ peer' = IF peer.pos = len THEN Byte(peer.msg + 1, 1, 0)
             ELSE Byte(peer.msg, peer.pos + 1, len)
  /\ UNCHANGED <<ring, queued, work, delivered, overflowed, burst, outVars>>

(* The work item is submitted when a header is in the ring, and as if more *)
(* than a header were needed.                                              *)
MoreThanHeader(q) == Len(q) > HeaderSize
HeaderIn(q) == Len(q) >= HeaderSize

(* gb_xport_uart_isr: every byte that waits goes into the ring, at the     *)
(* expense of the oldest when it is full.                                  *)
Fit(q) == IF Len(q) <= Capacity THEN q ELSE SubSeq(q, Len(q) - Capacity + 1, Len(q))

Isr ==
  LET all == ring \o line
  IN  /\ line # <<>>
      /\ line' = <<>>
      /\ ring' = Fit(all)
      /\ queued' = (queued \/ HeaderIn(ring'))
      /\ overflowed' = (overflowed \/ Len(all) > Capacity)
      /\ burst' = (burst \/ Cardinality({all[i].msg : i \in DOMAIN all}) > 1)
      /\ UNCHANGED <<peer, work, delivered, outVars>>

-----------------------------------------------------------------------------
(* uart_work_fn, in the system work queue.                                 *)

WorkStart ==
  /\ work.pc = "off"
  /\ queued
  /\ queued' = FALSE
  /\ work' = [WorkIdle EXCEPT !.pc = "header"]
  /\ UNCHANGED <<peer, line, ring, delivered, overflowed, burst, outVars>>

Oldest(n) == SubSeq(ring, 1, n)
Rest(n) == SubSeq(ring, n + 1, Len(ring))

(* q begins with the bytes of one message.                                 *)
Genuine(q) == \A i \in DOMAIN q : q[i] = Byte(q[1].msg, i, q[1].len)

(* The size in a header counts the header, and as if it did not.           *)
WholeSize(q) == q[1].len
PayloadSize(q) == q[1].len - HeaderSize

(* What follows a header: its own payload, or, if it is made up of other   *)
(* bytes, any payload or, with an invalid size, none and no message.       *)
WorkHeader ==
  /\ work.pc = "header"
  /\ Len(ring) >= HeaderSize
  /\ ring' = Rest(HeaderSize)
  /\ LET got == Oldest(HeaderSize)
         Payload(n) == work' = [pc |-> "payload", got |-> got, need |-> n]
     IN  IF Genuine(got)
           THEN Payload(PayloadSize(got))
           ELSE (\E n \in 0..MaxPayload : Payload(n)) \/ work' = WorkIdle
  /\ UNCHANGED <<peer, line, queued, delivered, overflowed, burst, outVars>>

(* The payload is there: the message is handed on.                         *)
WorkPayload ==
  LET got == work.got \o Oldest(work.need)
  IN  /\ work.pc = "payload"
      /\ Len(ring) >= work.need
      /\ ring' = Rest(work.need)
      /\ delivered' = Append(delivered,
            IF Genuine(got) /\ Len(got) = got[1].len THEN got[1].msg ELSE 0)
      /\ work' = WorkIdle
      /\ UNCHANGED <<peer, line, queued, overflowed, burst, outVars>>

-----------------------------------------------------------------------------
(* gb_xport_send, in any thread.                                           *)

SendBegin(s) ==
  /\ send[s] = SendIdle
  /\ budget > 0
  /\ budget' = budget - 1
  /\ send' = [send EXCEPT ![s] = [pc |-> "write", msg |-> budget, at |-> 1]]
  /\ overlapped' = (overlapped \/ \E t \in Senders : send[t] # SendIdle)
  /\ UNCHANGED <<inVars, out>>

(* sendMessage: uart_poll_out of the next byte, and as if one were skipped *)
(* after the first.                                                        *)
SkipOne(at) == IF at = 1 THEN 3 ELSE at + 1
Following(at) == at + 1

SendByte(s) ==
  /\ send[s].pc = "write"
  /\ out' = Append(out, [from |-> s, msg |-> send[s].msg, pos |-> send[s].at])
  /\ \/ /\ send[s].at >= HeaderSize
        /\ send' = [send EXCEPT ![s] = SendIdle]
     \/ /\ send[s].at < HeaderSize
        /\ send' = [send EXCEPT ![s].at = Following(@)]
  /\ UNCHANGED <<inVars, overlapped, budget>>

-----------------------------------------------------------------------------
Peer == \E len \in HeaderSize..HeaderSize + MaxPayload : PeerByte(len)

Work == WorkStart \/ WorkHeader \/ WorkPayload

Send(s) == SendBegin(s) \/ SendByte(s)

Next == Peer \/ Isr \/ Work \/ \E s \in Senders : Send(s)

Spec == Init /\ [][Next]_vars

(* The peer finishes a message it began and answers its window, interrupts *)
(* are served, and the work queue runs.                                    *)
FairSpec == Spec /\ WF_vars(Peer) /\ WF_vars(Isr) /\ WF_vars(Work)

-----------------------------------------------------------------------------
Sizes == HeaderSize..HeaderSize + MaxPayload
Bytes == [msg : 1..MaxIn, pos : 1..HeaderSize + MaxPayload, len : Sizes]

(* Type correctness.                                                       *)
TypeOK ==
  /\ peer \in [msg : 1..MaxIn + 1, pos : 1..HeaderSize + MaxPayload,
               len : {0} \cup Sizes]
  /\ line \in Seq(Bytes)
  /\ ring \in Seq(Bytes) /\ Len(ring) <= Capacity
  /\ queued \in BOOLEAN
  /\ work \in [pc : {"off", "header", "payload"}, got : Seq(Bytes), need : 0..MaxPayload]
  /\ delivered \in Seq(0..MaxIn)
  /\ overflowed \in BOOLEAN /\ burst \in BOOLEAN /\ overlapped \in BOOLEAN
  /\ send \in [Senders -> [pc : {"idle", "write"}, msg : 0..MaxOut,
                           at : 0..HeaderSize]]
  /\ out \in Seq([from : Senders, msg : 1..MaxOut, pos : 1..HeaderSize])
  /\ budget \in 0..MaxOut

(* As long as the ring has not overflowed, the core gets the messages of   *)
(* the peer whole and in order, wherever the interrupts fall in the work   *)
(* item; the state stays of its type (transport-uart.c:49-92, 179-211).    *)
InOrder == TypeOK /\ (~overflowed => \A i \in DOMAIN delivered : delivered[i] = i)

(* Every message of the peer is delivered, unless two were in the ring at  *)
(* a time, as one submission of the work item takes one message: so a peer *)
(* that waits for each gets all of them delivered                          *)
(* (transport-uart.c:38-99, 172-212).                                      *)
EachIsDelivered ==
  \A n \in 1..MaxIn : peer.msg > n ~> Len(delivered) >= n \/ burst

(* What is on the line is framed, unless two sends overlap                 *)
(* (transport-uart.c:101-111, 148).                                        *)
FramedUnlessOverlapped ==
  ~overlapped =>
    \A i \in 2..Len(out) :
      IF out[i].pos = 1 THEN out[i - 1].pos = HeaderSize
      ELSE out[i - 1] = [out[i] EXCEPT !.pos = @ - 1]
=============================================================================
