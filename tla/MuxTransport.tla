---------------------------- MODULE MuxTransport ----------------------------
(***************************************************************************)
(* The transport of platform/transport-tcpip-multiplex.c: one connection   *)
(* carries the messages of all cports, each as its cport number followed   *)
(* by the Greybus message.                                                 *)
(*                                                                         *)
(* One receive thread accepts a connection, reads messages from it and     *)
(* hands them to greybus_rx_handler.  Any thread that sends writes to the  *)
(* same socket with no lock, a message in two calls and each in pieces.    *)
(* ctx.client_sock is shared by all of them.                               *)
(*                                                                         *)
(* A stream is a sequence of words, the pieces the program reads or writes *)
(* at a time: word 0 of a message is its cport number, word 1 its header   *)
(* and the others its payload.  The socket's descriptor is given out again *)
(* when the next connection is accepted.                                   *)
(***************************************************************************)
EXTENDS Integers, FiniteSets, Sequences

CONSTANTS
  Senders,   (* the threads that call gb_trans_send                        *)
  BodyWords, (* the pieces a message is written in after its cport number  *)
  MaxLen,    (* the longest payload the peer sends, in words               *)
  MaxOut,    (* bound: messages sent                                       *)
  MaxIn,     (* bound: messages the peer sends on one connection           *)
  MaxConn,   (* bound: connections accepted                                *)
  MaxFail    (* bound: allocations and writes that fail                    *)

ASSUME MuxAssumption ==
  /\ BodyWords \in Nat \ {0}
  /\ {MaxLen, MaxOut, MaxIn, MaxConn, MaxFail} \subseteq Nat

VARIABLES
  open,        (* the descriptor refers to a connection                    *)
  client_sock, (* ctx.client_sock # -1                                     *)
  peer,        (* "open", "fin" (closed by the peer) or "reset"            *)
  inflow,      (* the words the peer sent and nobody read                  *)
  rx,          (* where the receive thread is, and the message it reads    *)
  send,        (* where each sender is                                     *)
  out,         (* the words written to the connection                      *)
  sent,        (* ghost: messages the peer sent on this connection         *)
  delivered,   (* ghost: messages handed on; 0 is none the peer sent       *)
  skipped,     (* ghost: "no", or the most a failed allocation left unread *)
  disturbed,   (* ghost: a send was overlapped, cut short or reconnected   *)
  budget       (* ghost: what is left of the bounds                        *)

rxVars == <<open, client_sock, peer, inflow, rx, sent, delivered, skipped>>
sendVars == <<send, out, disturbed>>
vars == <<rxVars, sendVars, budget>>

RxIdle == [pc |-> "poll", got |-> <<>>, need |-> 0]
SendIdle == [pc |-> "idle", sock |-> FALSE, at |-> 0, num |-> 0]

Init ==
  /\ open = FALSE
  /\ client_sock = FALSE
  /\ peer = "open"
  /\ inflow = <<>>
  /\ rx = RxIdle
  /\ send = [s \in Senders |-> SendIdle]
  /\ out = <<>>
  /\ sent = 0
  /\ delivered = <<>>
  /\ skipped = "no"
  /\ disturbed = FALSE
  /\ budget = [out |-> MaxOut, conn |-> MaxConn, fail |-> MaxFail]

-----------------------------------------------------------------------------
(* gb_trans_send, in any thread: two calls of write_data.                  *)

Busy == {s \in Senders : send[s].pc # "idle"}

SendBegin(s) ==
  /\ send[s] = SendIdle
  /\ budget.out > 0
  /\ budget' = [budget EXCEPT !.out = @ - 1]
  /\ send' = [send EXCEPT ![s] = [pc |-> "cport", sock |-> FALSE, at |-> 0,
                                  num |-> budget.out]]
  /\ disturbed' = (disturbed \/ Busy # {})
  /\ UNCHANGED <<rxVars, out>>

(* Both calls of write_data read ctx.client_sock, and keep what they read. *)
SendSock(s) ==
  /\ send[s].pc \in {"cport", "body"}
  /\ send' = [send EXCEPT ![s].pc = IF @ = "cport" THEN "write_cport" ELSE "write_body",
                          ![s].sock = client_sock]
  /\ UNCHANGED <<rxVars, out, disturbed, budget>>

Writable(s) == send[s].sock /\ open /\ peer # "reset"

Word(s) == [msg |-> <<s, send[s].num>>, part |-> send[s].at]

(* What is left to write after a piece, and as if write_data began again   *)
(* at the start of its buffer.                                             *)
Restart(at) == 1
Advance(at) == at + 1

SendCport(s) ==
  /\ send[s].pc = "write_cport"
  /\ Writable(s)
  /\ out' = Append(out, Word(s))
  /\ send' = [send EXCEPT ![s].pc = "body", ![s].at = 1]
  /\ UNCHANGED <<rxVars, disturbed, budget>>

SendBody(s) ==
  /\ send[s].pc = "write_body"
  /\ Writable(s)
  /\ out' = Append(out, Word(s))
  /\ \/ send[s].at = BodyWords /\ send' = [send EXCEPT ![s] = SendIdle]
     \/ send[s].at # BodyWords /\ send' = [send EXCEPT ![s].at = Advance(@)]
  /\ UNCHANGED <<rxVars, disturbed, budget>>

(* zsock_send fails: gb_trans_send returns, also in the middle of a message. *)
SendFails(s) ==
  /\ send[s].pc \in {"write_cport", "write_body"}
  /\ \/ ~Writable(s) /\ UNCHANGED budget
     \/ budget.fail > 0 /\ budget' = [budget EXCEPT !.fail = @ - 1]
  /\ send' = [send EXCEPT ![s] = SendIdle]
  /\ disturbed' = (disturbed \/ send[s].at > 0)
  /\ UNCHANGED <<rxVars, out>>

-----------------------------------------------------------------------------
(* The peer of the connection.                                             *)

Message(n, len) == [i \in 1..len + 2 |-> [msg |-> n, part |-> i - 1, len |-> len]]

PeerSends(len) ==
  /\ open /\ peer = "open"
  /\ sent < MaxIn
  /\ sent' = sent + 1
  /\ inflow' = inflow \o Message(sent + 1, len)
  /\ UNCHANGED <<open, client_sock, peer, rx, delivered, skipped, sendVars, budget>>

(* It closes the connection, perhaps after the first words of a message ... *)
PeerCloses ==
  /\ open /\ peer = "open"
  /\ peer' = "fin"
  /\ \E k \in 0..MaxLen + 1 : inflow' = inflow \o SubSeq(Message(sent + 1, MaxLen), 1, k)
  /\ UNCHANGED <<open, client_sock, rx, sent, delivered, skipped, sendVars, budget>>

(* ... or resets it, and what was not read is gone.                        *)
PeerResets ==
  /\ open /\ peer = "open"
  /\ peer' = "reset"
  /\ inflow' = <<>>
  /\ UNCHANGED <<open, client_sock, rx, sent, delivered, skipped, sendVars, budget>>

-----------------------------------------------------------------------------
(* gb_trans_rx_thread_handler.                                             *)

(* gb_trans_accept: a new connection on the same descriptor.               *)
RxAccept ==
  /\ rx.pc = "poll"
  /\ ~client_sock
  /\ budget.conn > 0
  /\ budget' = [budget EXCEPT !.conn = @ - 1]
  /\ open' = TRUE
  /\ client_sock' = TRUE
  /\ peer' = "open"
  /\ inflow' = <<>>
  /\ out' = <<>>
  /\ sent' = 0
  /\ delivered' = <<>>
  /\ skipped' = "no"
  /\ disturbed' = (Cardinality(Busy) > 1 \/ \E s \in Senders : send[s].at > 0)
  /\ UNCHANGED <<rx, send>>

(* gb_trans_rx: the poll reports data, the end of the stream or an error.  *)
RxPoll ==
  /\ rx.pc = "poll"
  /\ client_sock
  /\ inflow # <<>> \/ peer # "open"
  /\ rx' = [RxIdle EXCEPT !.pc = "read"]
  /\ UNCHANGED <<open, client_sock, peer, inflow, sent, delivered, skipped,
                 sendVars, budget>>

(* gb_message_payload_len: the header counts itself in its size, and as if *)
(* that were forgotten.                                                    *)
SizeWithHeader(header) == header.len + 1
PayloadLen(header) == header.len

(* The lengths the word read as a header may announce: its own if it is    *)
(* one, else any.                                                          *)
Announced(word) == IF word.part = 1 THEN {PayloadLen(word)} ELSE 0..MaxLen

(* read_data gets the next word of the cport, the header or the payload.   *)
RxRead ==
  LET got == Append(rx.got, Head(inflow))
  IN  /\ rx.pc = "read"
      /\ inflow # <<>>
      /\ inflow' = Tail(inflow)
      /\ \E need \in IF Len(got) = 2 THEN Announced(got[2]) ELSE {rx.need} :
           rx' = [got |-> got, need |-> need,
                  pc |-> IF Len(got) = 2 THEN "alloc"
                         ELSE IF Len(got) = need + 2 THEN "deliver" ELSE "read"]
      /\ UNCHANGED <<open, client_sock, peer, sent, delivered, skipped, sendVars, budget>>

(* gb_message_alloc: succeeds, ...                                         *)
RxAlloc ==
  /\ rx.pc = "alloc"
  /\ rx' = [rx EXCEPT !.pc = IF rx.need = 0 THEN "deliver" ELSE "read"]
  /\ UNCHANGED <<open, client_sock, peer, inflow, sent, delivered, skipped,
                 sendVars, budget>>

(* ... or the message is given up, its payload still in the stream.        *)
RxNoMemory ==
  /\ rx.pc = "alloc"
  /\ budget.fail > 0
  /\ budget' = [budget EXCEPT !.fail = @ - 1]
  /\ rx' = RxIdle
  /\ skipped' = IF rx.need > 0 \/ skipped = "payload" THEN "payload" ELSE "message"
  /\ UNCHANGED <<open, client_sock, peer, inflow, sent, delivered, sendVars>>

(* read_data returns 0: the connection is closed ..., and as if the end of *)
(* the stream were taken for an error.                                     *)
EofIgnored == "poll"
Eof == "close"

RxEof ==
  /\ rx.pc = "read"
  /\ inflow = <<>>
  /\ peer = "fin"
  /\ rx' = [RxIdle EXCEPT !.pc = Eof]
  /\ UNCHANGED <<open, client_sock, peer, inflow, sent, delivered, skipped,
                 sendVars, budget>>

RxClose ==
  /\ rx.pc = "close"
  /\ open' = FALSE
  /\ rx' = [rx EXCEPT !.pc = "forget"]
  /\ UNCHANGED <<client_sock, peer, inflow, sent, delivered, skipped, sendVars, budget>>

(* ... and then forgotten.                                                 *)
RxForget ==
  /\ rx.pc = "forget"
  /\ client_sock' = FALSE
  /\ rx' = RxIdle
  /\ UNCHANGED <<open, peer, inflow, sent, delivered, skipped, sendVars, budget>>

(* read_data returns an error: the message is given up, and client_sock    *)
(* stays as it is.                                                         *)
RxError ==
  /\ rx.pc = "read"
  /\ peer = "reset"
  /\ rx' = RxIdle
  /\ UNCHANGED <<open, client_sock, peer, inflow, sent, delivered, skipped,
                 sendVars, budget>>

Whole(words) ==
  \E n \in 1..MaxIn, len \in 0..MaxLen : words = Message(n, len)

(* greybus_rx_handler gets the message, which is then freed.               *)
RxDeliver ==
  /\ rx.pc = "deliver"
  /\ delivered' = Append(delivered, IF Whole(rx.got) THEN rx.got[1].msg ELSE 0)
  /\ rx' = RxIdle
  /\ UNCHANGED <<open, client_sock, peer, inflow, sent, skipped, sendVars, budget>>

-----------------------------------------------------------------------------
Send(s) ==
  SendBegin(s) \/ SendSock(s) \/ SendCport(s) \/ SendBody(s) \/ SendFails(s)

Peer == (\E len \in 0..MaxLen : PeerSends(len)) \/ PeerCloses \/ PeerResets

Rx ==
  \/ RxAccept \/ RxPoll \/ RxRead \/ RxAlloc \/ RxNoMemory
  \/ RxEof \/ RxClose \/ RxForget \/ RxError \/ RxDeliver

Next == (\E s \in Senders : Send(s)) \/ Peer \/ Rx

Spec == Init /\ [][Next]_vars

(* The receive thread runs whenever it can.                                *)
FairSpec == Spec /\ WF_vars(Rx)

-----------------------------------------------------------------------------
InWords == [msg : 1..MaxIn + 1, part : 0..MaxLen + 1, len : 0..MaxLen]
OutWords == [msg : Senders \X (1..MaxOut), part : 0..BodyWords]

(* Type correctness.                                                       *)
TypeOK ==
  /\ open \in BOOLEAN
  /\ client_sock \in BOOLEAN
  /\ peer \in {"open", "fin", "reset"}
  /\ inflow \in Seq(InWords)
  /\ rx \in [pc : {"poll", "read", "alloc", "deliver", "close", "forget"},
             got : Seq(InWords), need : 0..MaxLen]
  /\ send \in [Senders ->
       [pc : {"idle", "cport", "write_cport", "body", "write_body"},
        sock : BOOLEAN, at : 0..BodyWords, num : 0..MaxOut]]
  /\ out \in Seq(OutWords)
  /\ sent \in 0..MaxIn
  /\ delivered \in Seq(0..MaxIn)
  /\ skipped \in {"no", "message", "payload"}
  /\ disturbed \in BOOLEAN
  /\ budget \in [out : 0..MaxOut, conn : 0..MaxConn, fail : 0..MaxFail]

(* q is a sequence of whole messages, the last one perhaps unfinished.     *)
Framed(q) ==
  \A i \in 1..Len(q) :
    IF q[i].part = 0
      THEN i = 1 \/ q[i - 1].part = BodyWords
      ELSE i > 1 /\ q[i - 1] = [q[i] EXCEPT !.part = @ - 1]

(* The stream of a connection stays framed, however the writes are cut in  *)
(* pieces, unless two sends overlap, a write fails in the middle of a      *)
(* message, or a send outlives the connection it began on; the state stays *)
(* of its type (transport-tcpip-multiplex.c:88-101, 226-231).              *)
FramedUnlessDisturbed == TypeOK /\ (~disturbed => Framed(out))

(* The core gets the messages of a connection in the order the peer sent   *)
(* them, none left out and none made up, empty payloads and a cut last     *)
(* message included, as long as every allocation succeeds.  Only a payload *)
(* that was left unread for want of memory makes it take other words for a *)
(* message, or an older one than it had                                    *)
(* (transport-tcpip-multiplex.c:132-171, 398-412).                         *)
InboundInOrder ==
  /\ skipped = "no" => \A i \in DOMAIN delivered : delivered[i] = i
  /\ skipped # "payload" =>
       /\ \A i \in DOMAIN delivered : delivered[i] # 0
       /\ \A i, j \in DOMAIN delivered : i < j => delivered[i] < delivered[j]

(* A connection the peer closes is noticed, and given up so that the next  *)
(* one can be accepted (transport-tcpip-multiplex.c:140, 147, 159,         *)
(* 400-404, 426).                                                          *)
CloseIsNoticed == open /\ peer = "fin" ~> ~client_sock
=============================================================================
