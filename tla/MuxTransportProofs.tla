------------------------- MODULE MuxTransportProofs -------------------------
(***************************************************************************)
(* Theorems about the multiplexed transport, for any senders, sizes and    *)
(* bounds: the stream that is written stays framed unless it is disturbed, *)
(* and what is read comes to the core in order.                            *)
(***************************************************************************)
EXTENDS MuxTransport, FiniteSetTheorems, TLAPS

-----------------------------------------------------------------------------
(* The sending side of the inductive invariant.                            *)

(* What a sender's place says of the words it has written.                 *)
SendInv ==
  /\ \A s \in Senders :
       /\ send[s].pc = "idle" <=> send[s] = SendIdle
       /\ send[s].pc \in {"cport", "write_cport"} => send[s].at = 0
       /\ send[s].pc \in {"body", "write_body"} => send[s].at > 0
       /\ send[s].pc # "idle" => send[s].num > 0
  /\ IsFiniteSet(Busy)

(* Undisturbed, at most one sender is busy, and the stream ends with the   *)
(* last word it wrote, or with a whole message.                            *)
OutInv ==
  ~disturbed =>
    /\ Framed(out)
    /\ \A s, t \in Busy : s = t
    /\ (\A s \in Senders : send[s].at = 0) =>
         out = <<>> \/ out[Len(out)].part = BodyWords
    /\ \A s \in Senders : send[s].at > 0 =>
         /\ out # <<>>
         /\ out[Len(out)] = [msg |-> <<s, send[s].num>>, part |-> send[s].at - 1]

-----------------------------------------------------------------------------
(* The receiving side of the inductive invariant.                          *)

(* How much of a message the receive thread has.                           *)
RxInv ==
  /\ rx.pc \in {"poll", "close", "forget"} => rx.got = <<>>
  /\ rx.pc = "read" /\ Len(rx.got) >= 2 => Len(rx.got) < rx.need + 2
  /\ rx.pc = "alloc" => Len(rx.got) = 2
  /\ rx.pc = "deliver" => Len(rx.got) = rx.need + 2
  /\ peer = "reset" => inflow = <<>>

(* The word after w in the peer's stream.                                  *)
Follows(w, v) ==
  IF w.part = w.len + 1
    THEN v.part = 0 /\ v.msg = w.msg + 1
    ELSE v = [w EXCEPT !.part = @ + 1]

(* Message n is one the core has yet to get, and the next one as long as   *)
(* every allocation succeeded.                                             *)
Beyond(n) ==
  /\ \A i \in 1..Len(delivered) : delivered[i] < n
  /\ skipped = "no" => n = Len(delivered) + 1

(* The word belongs to a message the peer sent, or to the one it cut off.  *)
Genuine(w) ==
  /\ w.part <= w.len + 1
  /\ w.msg <= sent \/ w.part < w.len + 1

(* The words in hand are the beginning of a message.                       *)
InHand ==
  /\ \A i \in 1..Len(rx.got) :
       /\ rx.got[i].msg = rx.got[1].msg
       /\ rx.got[i].len = rx.got[1].len
       /\ rx.got[i].part = i - 1
       /\ Genuine(rx.got[i])
  /\ Len(rx.got) >= 2 => rx.need = rx.got[1].len

(* What is in flight is what the peer sent, word after word.               *)
InFlight ==
  \A i \in 1..Len(inflow) :
    /\ Genuine(inflow[i])
    /\ i < Len(inflow) => Follows(inflow[i], inflow[i + 1])

(* It goes on from the words in hand, and no message comes twice.          *)
Joint ==
  /\ rx.got # <<>> => Beyond(rx.got[1].msg)
  /\ rx.got # <<>> /\ inflow # <<>> => Follows(rx.got[Len(rx.got)], inflow[1])
  /\ rx.got = <<>> /\ inflow # <<>> => inflow[1].part = 0 /\ Beyond(inflow[1].msg)

(* The last word of the peer's last message.                               *)
LastWord(w) == w.msg = sent /\ w.part = w.len + 1

(* While the peer may send more, all it sent is in flight or in hand.      *)
Ends ==
  peer = "open" =>
    /\ inflow # <<>> => LastWord(inflow[Len(inflow)])
    /\ inflow = <<>> /\ rx.got # <<>> => LastWord(rx.got[Len(rx.got)])
    /\ inflow = <<>> /\ rx.got = <<>> => Beyond(sent + 1)

(* All of it, unless a payload was left unread.                            *)
InInv == skipped # "payload" => InHand /\ InFlight /\ Joint /\ Ends

IInv == TypeOK /\ SendInv /\ OutInv /\ RxInv /\ InInv /\ InboundInOrder

-----------------------------------------------------------------------------
(* Words and streams.                                                      *)

(* The words of a message.                                                 *)
LEMMA MessageFacts ==
  ASSUME NEW n \in 1..MaxIn + 1, NEW len \in 0..MaxLen
  PROVE  /\ Message(n, len) \in Seq(InWords)
         /\ Len(Message(n, len)) = len + 2
         /\ \A i \in 1..len + 2 :
              Message(n, len)[i] = [msg |-> n, part |-> i - 1, len |-> len]
<1> DEFINE w(i) == [msg |-> n, part |-> i - 1, len |-> len]
           k == len + 2
<1>1. k \in Nat /\ MaxLen \in Nat /\ MaxIn \in Nat
  BY MuxAssumption DEF MuxAssumption
<1>2. \A i \in 1..k : w(i) \in InWords
  BY <1>1 DEF InWords
<1>3. Message(n, len) = [i \in 1..k |-> w(i)]
  BY DEF Message
<1> HIDE DEF w, k
<1>4. /\ Message(n, len) \in Seq(InWords) /\ Len(Message(n, len)) = k
      /\ \A i \in 1..k : Message(n, len)[i] = w(i)
  BY <1>1, <1>2, <1>3
<1> QED
  BY <1>4 DEF w, k

(* The first words of a message.                                           *)
LEMMA CutFacts ==
  ASSUME NEW n \in 1..MaxIn + 1, NEW k \in 0..MaxLen + 1
  PROVE  /\ SubSeq(Message(n, MaxLen), 1, k) \in Seq(InWords)
         /\ Len(SubSeq(Message(n, MaxLen), 1, k)) = k
         /\ \A i \in 1..k : SubSeq(Message(n, MaxLen), 1, k)[i]
              = [msg |-> n, part |-> i - 1, len |-> MaxLen]
<1>1. MaxLen \in 0..MaxLen /\ MaxLen \in Nat
  BY MuxAssumption DEF MuxAssumption
<1>2. PICK m \in Seq(InWords) :
        /\ m = Message(n, MaxLen) /\ Len(m) = MaxLen + 2
        /\ \A i \in 1..MaxLen + 2 : m[i] = [msg |-> n, part |-> i - 1, len |-> MaxLen]
  BY <1>1, MessageFacts
<1>3. /\ SubSeq(m, 1, k) \in Seq(InWords) /\ Len(SubSeq(m, 1, k)) = k
      /\ \A i \in 1..k : SubSeq(m, 1, k)[i] = m[i]
  BY <1>1, <1>2
<1> QED
  BY <1>1, <1>2, <1>3

(* A stream that more words are sent into.                                 *)
LEMMA JoinFacts ==
  ASSUME NEW s \in Seq(InWords), NEW t \in Seq(InWords)
  PROVE  /\ s \o t \in Seq(InWords)
         /\ Len(s) \in Nat /\ Len(t) \in Nat
         /\ Len(s \o t) = Len(s) + Len(t)
         /\ \A i \in 1..Len(s) : (s \o t)[i] = s[i]
         /\ \A i \in 1..Len(t) : (s \o t)[Len(s) + i] = t[i]
         /\ s = <<>> <=> Len(s) = 0
  OBVIOUS

(* A queue with a last element.                                            *)
LEMMA AppendFacts ==
  ASSUME NEW S, NEW s \in Seq(S), NEW e \in S
  PROVE  /\ Append(s, e) \in Seq(S)
         /\ Len(s) \in Nat
         /\ Len(Append(s, e)) = Len(s) + 1
         /\ \A i \in 1..Len(s) : Append(s, e)[i] = s[i] /\ s[i] \in S
         /\ Append(s, e)[Len(s) + 1] = e
         /\ Append(s, e) # <<>>
         /\ s = <<>> <=> Len(s) = 0
  OBVIOUS

(* What a queue holds.                                                     *)
LEMMA ElementFacts ==
  ASSUME NEW S, NEW s \in Seq(S)
  PROVE  Len(s) \in Nat /\ \A i \in 1..Len(s) : s[i] \in S
  OBVIOUS

(* A queue without its first element.                                      *)
LEMMA TailFacts ==
  ASSUME NEW S, NEW s \in Seq(S), s # <<>>
  PROVE  /\ Len(s) \in Nat \ {0}
         /\ Head(s) \in S /\ Head(s) = s[1]
         /\ Tail(s) \in Seq(S)
         /\ Len(Tail(s)) = Len(s) - 1
         /\ \A i \in 1..Len(Tail(s)) : Tail(s)[i] = s[i + 1]
         /\ Tail(s) = <<>> <=> Len(s) = 1
<1>1. /\ Len(s) \in Nat \ {0}
      /\ Head(s) \in S /\ Head(s) = s[1]
      /\ Tail(s) \in Seq(S)
      /\ Len(Tail(s)) = Len(s) - 1
  OBVIOUS
<1>2. \A i \in 1..Len(Tail(s)) : Tail(s)[i] = s[i + 1]
  OBVIOUS
<1>3. \A t \in Seq(S) : t = <<>> <=> Len(t) = 0
  OBVIOUS
<1>4. Tail(s) = <<>> <=> Len(Tail(s)) = 0
  BY <1>1, <1>3
<1> QED
  BY <1>1, <1>2, <1>4

-----------------------------------------------------------------------------
(* What each thread leaves alone.                                          *)

LEMMA SendFrame ==
  ASSUME NEW s \in Senders, Send(s)
  PROVE  UNCHANGED <<open, client_sock, peer, inflow, rx, sent, delivered, skipped>>
  BY DEF Send, SendBegin, SendSock, SendCport, SendBody, SendFails, rxVars

LEMMA RxFrame ==
  ASSUME Rx \/ Peer, ~RxAccept
  PROVE  UNCHANGED <<send, out, disturbed>>
  BY DEF Rx, Peer, PeerSends, PeerCloses, PeerResets, RxPoll, RxRead, RxAlloc, RxNoMemory,
     RxEof, RxClose, RxForget, RxError, RxDeliver, sendVars

(* The word a sender writes.                                               *)
LEMMA WordFacts ==
  ASSUME TypeOK, SendInv, NEW s \in Senders, send[s].pc # "idle"
  PROVE  Word(s) \in OutWords
<1>1. PICK num \in Nat, at \in 0..BodyWords :
        num = send[s].num /\ at = send[s].at /\ num > 0 /\ num <= MaxOut
  BY MuxAssumption DEF TypeOK, SendInv, MuxAssumption
<1>2. num \in 1..MaxOut
  BY <1>1, MuxAssumption DEF MuxAssumption
<1> QED
  BY <1>1, <1>2 DEF Word, OutWords

(* What the receive thread reads next.                                     *)
LEMMA ReadFacts ==
  ASSUME TypeOK, RxRead
  PROVE  /\ inflow # <<>> /\ Head(inflow) \in InWords
         /\ inflow' = Tail(inflow) /\ inflow' \in Seq(InWords)
         /\ rx.pc = "read"
         /\ rx'.got = Append(rx.got, Head(inflow))
         /\ rx'.got \in Seq(InWords)
         /\ Len(rx'.got) = Len(rx.got) + 1
         /\ Len(rx.got) = 1 => rx'.need \in Announced(Head(inflow))
         /\ Len(rx.got) # 1 => rx'.need = rx.need
         /\ rx'.need \in 0..MaxLen
         /\ rx'.pc = IF Len(rx.got) = 1 THEN "alloc"
                     ELSE IF Len(rx.got) + 1 = rx'.need + 2 THEN "deliver" ELSE "read"
         /\ rx' \in [pc : {"poll", "read", "alloc", "deliver", "close", "forget"},
                     got : Seq(InWords), need : 0..MaxLen]
         /\ UNCHANGED <<open, client_sock, peer, sent, delivered, skipped, budget, sendVars>>
<1>1. /\ rx.got \in Seq(InWords) /\ inflow \in Seq(InWords) /\ inflow # <<>>
      /\ rx.pc = "read" /\ inflow' = Tail(inflow)
      /\ UNCHANGED <<open, client_sock, peer, sent, delivered, skipped, budget>>
  BY DEF RxRead, TypeOK
<1>2. Head(inflow) \in InWords /\ Tail(inflow) \in Seq(InWords)
  BY <1>1, TailFacts
<1>3. PICK w \in InWords : w = Head(inflow)
  BY <1>2
<1>4. PICK q \in Seq(InWords) : q = rx.got
  BY <1>1
<1>5. PICK got \in Seq(InWords), n \in Nat :
        got = Append(q, w) /\ n = Len(q) /\ Len(got) = n + 1 /\ got[n + 1] = w
  <2>1. /\ Append(q, w) \in Seq(InWords) /\ Len(q) \in Nat
        /\ Len(Append(q, w)) = Len(q) + 1 /\ Append(q, w)[Len(q) + 1] = w
    BY AppendFacts
  <2> QED
    BY <2>1, Zenon
<1>6. PICK need :
        /\ need \in IF Len(got) = 2 THEN Announced(got[2]) ELSE {rx.need}
        /\ rx' = [got |-> got, need |-> need,
                  pc |-> IF Len(got) = 2 THEN "alloc"
                         ELSE IF Len(got) = need + 2 THEN "deliver" ELSE "read"]
  <2>1. \E need \in IF Len(Append(q, w)) = 2 THEN Announced(Append(q, w)[2]) ELSE {rx.need} :
          rx' = [got |-> Append(q, w), need |-> need,
                 pc |-> IF Len(Append(q, w)) = 2 THEN "alloc"
                        ELSE IF Len(Append(q, w)) = need + 2 THEN "deliver" ELSE "read"]
    BY <1>3, <1>4 DEF RxRead
  <2> QED
    BY <1>5, <2>1
<1>7. /\ n = 1 => need \in Announced(w)
      /\ n # 1 => need = rx.need
  <2>1. Len(got) = 2 <=> n = 1
    BY <1>5
  <2>2. n = 1 => got[2] = w
    BY <1>5
  <2> QED
    BY <1>6, <2>1, <2>2
<1>8. need \in 0..MaxLen
  <2>1. Announced(w) \subseteq 0..MaxLen
    BY DEF Announced, PayloadLen, InWords
  <2>2. rx.need \in 0..MaxLen
    BY DEF TypeOK
  <2> QED
    BY <1>7, <2>1, <2>2
<1>9. /\ rx'.got = got /\ rx'.need = need
      /\ rx'.pc = IF Len(got) = 2 THEN "alloc"
                  ELSE IF Len(got) = need + 2 THEN "deliver" ELSE "read"
  BY <1>6
<1>10. rx'.pc = IF n = 1 THEN "alloc"
                ELSE IF n + 1 = need + 2 THEN "deliver" ELSE "read"
  BY <1>5, <1>9
<1>11. rx' \in [pc : {"poll", "read", "alloc", "deliver", "close", "forget"},
                got : Seq(InWords), need : 0..MaxLen]
  <2>1. rx'.pc \in {"poll", "read", "alloc", "deliver", "close", "forget"}
    BY <1>10
  <2>2. rx' = [got |-> got, need |-> need, pc |-> rx'.pc]
    BY <1>6
  <2> QED
    BY <1>5, <1>8, <2>1, <2>2
<1>12. sendVars' = sendVars
  BY DEF RxRead
<1> QED
  BY <1>1, <1>2, <1>3, <1>4, <1>5, <1>7, <1>8, <1>9, <1>10, <1>11, <1>12

(* Where the senders may be.                                               *)
Places == [Senders ->
            [pc : {"idle", "cport", "write_cport", "body", "write_body"},
             sock : BOOLEAN, at : 0..BodyWords, num : 0..MaxOut]]

(* What each step of a sender makes of its place.                          *)
LEMMA SendFacts ==
  ASSUME TypeOK, SendInv, NEW s \in Senders, Send(s)
  PROVE  /\ send' \in Places
         /\ \A t \in Senders : t # s => send'[t] = send[t]
         /\ SendBegin(s) =>
              /\ send[s].pc = "idle" /\ budget.out > 0
              /\ send'[s].pc = "cport" /\ send'[s].at = 0 /\ send'[s].num = budget.out
         /\ SendSock(s) =>
              /\ send[s].pc \in {"cport", "body"}
              /\ send'[s].pc = IF send[s].pc = "cport" THEN "write_cport" ELSE "write_body"
              /\ send'[s].at = send[s].at /\ send'[s].num = send[s].num
         /\ SendCport(s) =>
              /\ send[s].pc = "write_cport" /\ send'[s].pc = "body"
              /\ send'[s].at = 1 /\ send'[s].num = send[s].num
         /\ SendBody(s) => send[s].pc = "write_body" /\
              IF send[s].at = BodyWords THEN send'[s] = SendIdle
              ELSE /\ send'[s].pc = "write_body" /\ send'[s].at = send[s].at + 1
                   /\ send'[s].num = send[s].num
         /\ SendFails(s) =>
              send[s].pc \in {"write_cport", "write_body"} /\ send'[s] = SendIdle
<1>0. BodyWords \in Nat /\ BodyWords > 0 /\ MaxOut \in Nat
  BY MuxAssumption DEF MuxAssumption
<1>1. send \in Places /\ budget.out \in 0..MaxOut /\ client_sock \in BOOLEAN
  BY DEF TypeOK, Places
<1>2. SendIdle \in [pc : {"idle", "cport", "write_cport", "body", "write_body"},
                    sock : BOOLEAN, at : 0..BodyWords, num : 0..MaxOut]
  BY <1>0 DEF SendIdle
<1>3. ASSUME SendBegin(s)
      PROVE  /\ send[s].pc = "idle" /\ budget.out > 0
             /\ send'[s].pc = "cport" /\ send'[s].at = 0 /\ send'[s].num = budget.out
             /\ send' \in Places /\ \A t \in Senders : t # s => send'[t] = send[t]
  <2>1. send[s].pc = "idle" /\ budget.out > 0
    BY <1>3 DEF SendBegin, SendIdle
  <2>2. PICK e : /\ e = [pc |-> "cport", sock |-> FALSE, at |-> 0, num |-> budget.out]
                 /\ send' = [send EXCEPT ![s] = e]
    BY <1>3 DEF SendBegin
  <2>3. e \in [pc : {"idle", "cport", "write_cport", "body", "write_body"},
               sock : BOOLEAN, at : 0..BodyWords, num : 0..MaxOut]
    BY <1>0, <1>1, <2>2
  <2>4. /\ send'[s] = e /\ send' \in Places
        /\ \A t \in Senders : t # s => send'[t] = send[t]
    BY <1>1, <2>2, <2>3 DEF Places
  <2> QED
    BY <2>1, <2>2, <2>4
<1>4. ASSUME SendSock(s)
      PROVE  /\ send[s].pc \in {"cport", "body"}
             /\ send'[s].pc = IF send[s].pc = "cport" THEN "write_cport" ELSE "write_body"
             /\ send'[s].at = send[s].at /\ send'[s].num = send[s].num
             /\ send' \in Places /\ \A t \in Senders : t # s => send'[t] = send[t]
  <2>1. PICK e :
          /\ e = [send[s] EXCEPT !.pc = IF @ = "cport" THEN "write_cport" ELSE "write_body",
                                 !.sock = client_sock]
          /\ send' = [send EXCEPT ![s] = e]
    BY <1>4 DEF SendSock
  <2>2. send[s].pc \in {"cport", "body"}
    BY <1>4 DEF SendSock
  <2>3. /\ e \in [pc : {"idle", "cport", "write_cport", "body", "write_body"},
                  sock : BOOLEAN, at : 0..BodyWords, num : 0..MaxOut]
        /\ e.pc = IF send[s].pc = "cport" THEN "write_cport" ELSE "write_body"
        /\ e.at = send[s].at /\ e.num = send[s].num
    BY <1>1, <2>1 DEF Places
  <2>4. /\ send'[s] = e /\ send' \in Places
        /\ \A t \in Senders : t # s => send'[t] = send[t]
    BY <1>1, <2>1, <2>3 DEF Places
  <2> QED
    BY <2>2, <2>3, <2>4, Zenon
<1>5. ASSUME SendCport(s)
      PROVE  /\ send[s].pc = "write_cport" /\ send'[s].pc = "body"
             /\ send'[s].at = 1 /\ send'[s].num = send[s].num
             /\ send' \in Places /\ \A t \in Senders : t # s => send'[t] = send[t]
  <2>0. 1 \in 0..BodyWords
    BY <1>0
  <2>1. send' \in Places
    <3>1. send' = [send EXCEPT ![s].pc = "body", ![s].at = 1]
      BY <1>5 DEF SendCport
    <3> QED
      BY <1>1, <2>0, <3>1 DEF Places
  <2> QED
    BY <1>1, <1>5, <2>1 DEF SendCport, Places
<1>6. ASSUME SendBody(s)
      PROVE  /\ send[s].pc = "write_body"
             /\ IF send[s].at = BodyWords THEN send'[s] = SendIdle
                ELSE /\ send'[s].pc = "write_body" /\ send'[s].at = send[s].at + 1
                     /\ send'[s].num = send[s].num
             /\ send' \in Places /\ \A t \in Senders : t # s => send'[t] = send[t]
  <2>1. send[s].pc = "write_body" /\ send[s].at \in 0..BodyWords
    BY <1>1, <1>6 DEF SendBody, Places
  <2>2. CASE send[s].at = BodyWords
    <3>1. send' = [send EXCEPT ![s] = SendIdle]
      BY <1>6, <2>2 DEF SendBody
    <3> QED
      BY <1>1, <1>2, <2>1, <2>2, <3>1 DEF Places
  <2>3. CASE send[s].at # BodyWords
    <3>1. send' = [send EXCEPT ![s].at = @ + 1]
      BY <1>6, <2>3 DEF SendBody, Advance
    <3>2. send[s].at + 1 \in 0..BodyWords
      BY <1>0, <2>1, <2>3
    <3>3. send' \in Places
      BY <1>1, <3>1, <3>2 DEF Places
    <3>4. /\ send'[s].pc = send[s].pc /\ send'[s].num = send[s].num
          /\ send'[s].at = send[s].at + 1
      BY <1>1, <3>1 DEF Places
    <3>5. \A t \in Senders : t # s => send'[t] = send[t]
      BY <1>1, <3>1 DEF Places
    <3> QED
      BY <2>1, <2>3, <3>3, <3>4, <3>5
  <2> QED
    BY <2>2, <2>3
<1>7. ASSUME SendFails(s)
      PROVE  /\ send[s].pc \in {"write_cport", "write_body"} /\ send'[s] = SendIdle
             /\ send' \in Places /\ \A t \in Senders : t # s => send'[t] = send[t]
  BY <1>1, <1>2, <1>7 DEF SendFails, Places
<1> QED
  BY <1>3, <1>4, <1>5, <1>6, <1>7 DEF Send

(* A send spends one of the messages left, or a failure.                   *)
LEMMA BudgetFacts ==
  ASSUME TypeOK
  PROVE  /\ budget.out > 0 /\ budget' = [budget EXCEPT !.out = @ - 1] =>
              budget' \in [out : 0..MaxOut, conn : 0..MaxConn, fail : 0..MaxFail]
         /\ budget.conn > 0 /\ budget' = [budget EXCEPT !.conn = @ - 1] =>
              budget' \in [out : 0..MaxOut, conn : 0..MaxConn, fail : 0..MaxFail]
         /\ budget.fail > 0 /\ budget' = [budget EXCEPT !.fail = @ - 1] =>
              budget' \in [out : 0..MaxOut, conn : 0..MaxConn, fail : 0..MaxFail]
<1>0. MaxOut \in Nat /\ MaxConn \in Nat /\ MaxFail \in Nat
  BY MuxAssumption DEF MuxAssumption
<1>1. budget \in [out : 0..MaxOut, conn : 0..MaxConn, fail : 0..MaxFail]
  BY DEF TypeOK
<1>2. ASSUME budget.out > 0 PROVE budget.out - 1 \in 0..MaxOut
  BY <1>0, <1>1, <1>2
<1>3. ASSUME budget.conn > 0 PROVE budget.conn - 1 \in 0..MaxConn
  BY <1>0, <1>1, <1>3
<1>4. ASSUME budget.fail > 0 PROVE budget.fail - 1 \in 0..MaxFail
  BY <1>0, <1>1, <1>4
<1> QED
  BY <1>1, <1>2, <1>3, <1>4

(* The receive thread between two messages.                                *)
LEMMA IdleFacts ==
  ASSUME NEW pc, rx' = [RxIdle EXCEPT !.pc = pc] \/ (rx' = RxIdle /\ pc = "poll")
  PROVE  /\ rx'.pc = pc /\ rx'.got = <<>> /\ rx'.need = 0
         /\ pc \in {"poll", "read", "alloc", "deliver", "close", "forget"} =>
              rx' \in [pc : {"poll", "read", "alloc", "deliver", "close", "forget"},
                       got : Seq(InWords), need : 0..MaxLen]
<1>1. 0 \in 0..MaxLen /\ <<>> \in Seq(InWords)
  BY MuxAssumption DEF MuxAssumption
<1>2. rx' = [pc |-> pc, got |-> <<>>, need |-> 0]
  BY DEF RxIdle
<1> QED
  BY <1>1, <1>2

(* Every step keeps the types.                                             *)
LEMMA TypeStep ==
  ASSUME TypeOK, SendInv, [Next]_vars
  PROVE  TypeOK'
<1> USE DEF rxVars, sendVars
<1>0. /\ BodyWords \in Nat /\ BodyWords > 0 /\ MaxLen \in Nat /\ MaxOut \in Nat
      /\ MaxIn \in Nat /\ MaxConn \in Nat /\ MaxFail \in Nat
  BY MuxAssumption DEF MuxAssumption
<1>1. ASSUME NEW s \in Senders, Send(s) PROVE TypeOK'
  <2>1. UNCHANGED <<open, client_sock, peer, inflow, rx, sent, delivered, skipped>>
    BY <1>1, SendFrame
  <2>2. send' \in [Senders ->
               [pc : {"idle", "cport", "write_cport", "body", "write_body"},
                sock : BOOLEAN, at : 0..BodyWords, num : 0..MaxOut]]
    BY <1>1, SendFacts DEF Places
  <2>3. out' \in Seq(OutWords)
    <3>1. CASE SendCport(s) \/ SendBody(s)
      <4>1. Word(s) \in OutWords
        BY <3>1, WordFacts DEF SendCport, SendBody
      <4>2. out \in Seq(OutWords) /\ out' = Append(out, Word(s))
        BY <3>1 DEF SendCport, SendBody, TypeOK
      <4> QED
        BY <4>1, <4>2, AppendFacts
    <3>2. CASE ~(SendCport(s) \/ SendBody(s))
      BY <1>1, <3>2 DEF Send, SendBegin, SendSock, SendFails, TypeOK
    <3> QED
      BY <3>1, <3>2
  <2>4. disturbed' \in BOOLEAN
    BY <1>1 DEF Send, SendBegin, SendSock, SendCport, SendBody, SendFails, TypeOK
  <2>5. budget' \in [out : 0..MaxOut, conn : 0..MaxConn, fail : 0..MaxFail]
    <3>1. \/ UNCHANGED budget
          \/ budget.out > 0 /\ budget' = [budget EXCEPT !.out = @ - 1]
          \/ budget.fail > 0 /\ budget' = [budget EXCEPT !.fail = @ - 1]
      BY <1>1 DEF Send, SendBegin, SendSock, SendCport, SendBody, SendFails
    <3> QED
      BY <3>1, BudgetFacts DEF TypeOK
  <2> QED
    BY <2>1, <2>2, <2>3, <2>4, <2>5 DEF TypeOK
<1>2. ASSUME NEW len \in 0..MaxLen, PeerSends(len) PROVE TypeOK'
  <2>1. sent' = sent + 1 /\ sent + 1 \in 1..MaxIn + 1 /\ sent' \in 0..MaxIn
    BY <1>0, <1>2 DEF PeerSends, TypeOK
  <2>2. inflow' \in Seq(InWords)
    <3>1. Message(sent + 1, len) \in Seq(InWords)
      BY <2>1, MessageFacts
    <3>2. inflow \in Seq(InWords) /\ inflow' = inflow \o Message(sent + 1, len)
      BY <1>2 DEF PeerSends, TypeOK
    <3> QED
      BY <3>1, <3>2, JoinFacts
  <2> QED
    BY <1>2, <2>1, <2>2 DEF PeerSends, TypeOK
<1>3. CASE PeerCloses
  <2>1. sent + 1 \in 1..MaxIn + 1
    BY <1>0, <1>3 DEF PeerCloses, TypeOK
  <2>2. PICK k \in 0..MaxLen + 1 : inflow' = inflow \o SubSeq(Message(sent + 1, MaxLen), 1, k)
    BY <1>3 DEF PeerCloses
  <2>3. inflow' \in Seq(InWords)
    <3>1. SubSeq(Message(sent + 1, MaxLen), 1, k) \in Seq(InWords)
      BY <2>1, CutFacts
    <3>2. inflow \in Seq(InWords)
      BY DEF TypeOK
    <3> QED
      BY <2>2, <3>1, <3>2, JoinFacts
  <2> QED
    BY <1>3, <2>3 DEF PeerCloses, TypeOK
<1>4. CASE PeerResets
  BY <1>4 DEF PeerResets, TypeOK
<1>5. CASE RxAccept
  <2>1. budget' \in [out : 0..MaxOut, conn : 0..MaxConn, fail : 0..MaxFail]
    BY <1>5, BudgetFacts DEF RxAccept
  <2>2. disturbed' \in BOOLEAN /\ sent' \in 0..MaxIn
    BY <1>0, <1>5 DEF RxAccept
  <2> QED
    BY <1>5, <2>1, <2>2 DEF RxAccept, TypeOK
<1>6. CASE RxPoll \/ RxEof \/ RxError
  <2>1. rx' \in [pc : {"poll", "read", "alloc", "deliver", "close", "forget"},
                 got : Seq(InWords), need : 0..MaxLen]
    BY <1>6, IdleFacts DEF RxPoll, RxEof, RxError, Eof
  <2> QED
    BY <1>6, <2>1 DEF RxPoll, RxEof, RxError, TypeOK
<1>7. CASE RxRead
  BY <1>7, ReadFacts DEF TypeOK
<1>8. CASE RxAlloc
  BY <1>8 DEF RxAlloc, TypeOK
<1>9. CASE RxNoMemory
  <2>1. budget' \in [out : 0..MaxOut, conn : 0..MaxConn, fail : 0..MaxFail]
    BY <1>9, BudgetFacts DEF RxNoMemory
  <2>2. rx' \in [pc : {"poll", "read", "alloc", "deliver", "close", "forget"},
                 got : Seq(InWords), need : 0..MaxLen]
    BY <1>9, IdleFacts DEF RxNoMemory
  <2> QED
    BY <1>9, <2>1, <2>2 DEF RxNoMemory, TypeOK
<1>10. CASE RxClose
  BY <1>10 DEF RxClose, TypeOK
<1>11. CASE RxForget
  <2>1. rx' \in [pc : {"poll", "read", "alloc", "deliver", "close", "forget"},
                 got : Seq(InWords), need : 0..MaxLen]
    BY <1>11, IdleFacts DEF RxForget
  <2> QED
    BY <1>11, <2>1 DEF RxForget, TypeOK
<1>12. CASE RxDeliver
  <2>1. PICK n \in 0..MaxIn : delivered' = Append(delivered, n)
    <3>1. CASE Whole(rx.got)
      <4>1. PICK n \in 1..MaxIn, len \in 0..MaxLen : rx.got = Message(n, len)
        BY <3>1 DEF Whole
      <4>2. 1 \in 1..len + 2 /\ n \in 1..MaxIn + 1 /\ n \in 0..MaxIn
        BY <1>0, <4>1
      <4>3. Message(n, len)[1] = [msg |-> n, part |-> 0, len |-> len]
        BY <4>2, MessageFacts
      <4>4. rx.got[1].msg = n
        BY <4>1, <4>3
      <4> QED
        BY <1>12, <3>1, <4>2, <4>4 DEF RxDeliver
    <3>2. CASE ~Whole(rx.got)
      BY <1>0, <1>12, <3>2 DEF RxDeliver
    <3> QED
      BY <3>1, <3>2
  <2>2. delivered' \in Seq(0..MaxIn)
    BY <2>1, AppendFacts DEF TypeOK
  <2>3. rx' \in [pc : {"poll", "read", "alloc", "deliver", "close", "forget"},
                 got : Seq(InWords), need : 0..MaxLen]
    BY <1>12, IdleFacts DEF RxDeliver
  <2> QED
    BY <1>12, <2>2, <2>3 DEF RxDeliver, TypeOK
<1>13. CASE UNCHANGED vars
  BY <1>13 DEF vars, TypeOK
<1> QED
  BY <1>1, <1>2, <1>3, <1>4, <1>5, <1>6, <1>7, <1>8, <1>9, <1>10, <1>11, <1>12, <1>13
     DEF Next, Peer, Rx

-----------------------------------------------------------------------------
(* The sending side.                                                       *)

(* A sender's place follows the words it has written.                      *)
LEMMA SendStep ==
  ASSUME TypeOK, SendInv, [Next]_vars
  PROVE  SendInv'
<1>1. ASSUME NEW s \in Senders, Send(s) PROVE SendInv'
  <2>0. BodyWords \in Nat /\ BodyWords > 0
    BY MuxAssumption DEF MuxAssumption
  <2>1. /\ send' \in Places
        /\ \A t \in Senders : t # s => send'[t] = send[t]
    BY <1>1, SendFacts
  <2>2. /\ send'[s].pc = "idle" <=> send'[s] = SendIdle
        /\ send'[s].pc \in {"cport", "write_cport"} => send'[s].at = 0
        /\ send'[s].pc \in {"body", "write_body"} => send'[s].at > 0
        /\ send'[s].pc # "idle" => send'[s].num > 0
    <3>1. /\ send[s].pc \in {"cport", "write_cport"} => send[s].at = 0
          /\ send[s].pc \in {"body", "write_body"} => send[s].at > 0
          /\ send[s].pc # "idle" => send[s].num > 0
          /\ send[s].at \in 0..BodyWords
      BY DEF SendInv, TypeOK
    <3>2. SendIdle.pc = "idle"
      BY DEF SendIdle
    <3>3. CASE SendBegin(s)
      BY <1>1, <3>1, <3>2, <3>3, SendFacts
    <3>4. CASE SendSock(s)
      BY <1>1, <3>1, <3>2, <3>4, SendFacts
    <3>5. CASE SendCport(s)
      BY <1>1, <3>1, <3>2, <3>5, SendFacts
    <3>6. CASE SendBody(s)
      <4>1. CASE send[s].at = BodyWords
        BY <1>1, <3>2, <3>6, <4>1, SendFacts
      <4>2. CASE send[s].at # BodyWords
        BY <1>1, <3>1, <3>2, <3>6, <4>2, SendFacts
      <4> QED
        BY <4>1, <4>2
    <3>7. CASE SendFails(s)
      BY <1>1, <3>2, <3>7, SendFacts
    <3> QED
      BY <1>1, <3>3, <3>4, <3>5, <3>6, <3>7 DEF Send
  <2>3. ASSUME NEW t \in Senders, t # s
        PROVE  /\ send'[t].pc = "idle" <=> send'[t] = SendIdle
               /\ send'[t].pc \in {"cport", "write_cport"} => send'[t].at = 0
               /\ send'[t].pc \in {"body", "write_body"} => send'[t].at > 0
               /\ send'[t].pc # "idle" => send'[t].num > 0
    BY <2>1, <2>3 DEF SendInv
  <2>4. IsFiniteSet(Busy')
    <3>1. Busy' \subseteq Busy \cup {s}
      BY <2>1 DEF Busy
    <3>2. IsFiniteSet(Busy \cup {s})
      BY FS_AddElement DEF SendInv
    <3> QED
      BY <3>1, <3>2, FS_Subset
  <2> QED
    BY <2>2, <2>3, <2>4 DEF SendInv
<1>2. CASE UNCHANGED send
  <2>1. Busy' = Busy
    BY <1>2 DEF Busy
  <2> QED
    BY <1>2, <2>1 DEF SendInv
<1>3. CASE RxAccept
  BY <1>2, <1>3 DEF RxAccept
<1>4. CASE (Rx \/ Peer) /\ ~RxAccept
  BY <1>2, <1>4, RxFrame
<1>5. CASE UNCHANGED vars
  BY <1>2, <1>5 DEF vars, sendVars
<1> QED
  BY <1>1, <1>3, <1>4, <1>5 DEF Next

(* A stream that one more word is written to.                              *)
LEMMA FramedFacts ==
  ASSUME NEW q \in Seq(OutWords), Framed(q), NEW w \in OutWords,
         IF w.part = 0 THEN q = <<>> \/ q[Len(q)].part = BodyWords
         ELSE q # <<>> /\ q[Len(q)] = [w EXCEPT !.part = @ - 1]
  PROVE  /\ Framed(Append(q, w))
         /\ Append(q, w) # <<>> /\ Append(q, w)[Len(Append(q, w))] = w
<1>1. PICK n \in Nat : n = Len(q)
  OBVIOUS
<1>2. PICK r \in Seq(OutWords) :
        /\ r = Append(q, w) /\ Len(r) = n + 1 /\ r[n + 1] = w /\ r # <<>>
        /\ \A i \in 1..n : r[i] = q[i]
  <2>1. /\ Append(q, w) \in Seq(OutWords) /\ Len(Append(q, w)) = Len(q) + 1
        /\ \A i \in 1..Len(q) : Append(q, w)[i] = q[i]
        /\ Append(q, w)[Len(q) + 1] = w /\ Append(q, w) # <<>>
    BY AppendFacts
  <2> QED
    BY <1>1, <2>1, Zenon
<1>3. q = <<>> <=> n = 0
  BY <1>1
<1>4. ASSUME NEW i \in 1..n + 1
      PROVE  IF r[i].part = 0 THEN i = 1 \/ r[i - 1].part = BodyWords
             ELSE i > 1 /\ r[i - 1] = [r[i] EXCEPT !.part = @ - 1]
  <2>1. CASE i = n + 1
    <3>1. CASE w.part = 0
      <4>1. CASE n = 0
        BY <1>2, <2>1, <3>1, <4>1
      <4>2. CASE n # 0
        <5>1. q[n].part = BodyWords /\ n \in 1..n /\ i - 1 = n
          BY <1>1, <1>3, <2>1, <3>1, <4>2
        <5>2. r[i - 1] = q[n]
          BY <1>2, <5>1
        <5> QED
          BY <1>2, <2>1, <3>1, <5>1, <5>2
      <4> QED
        BY <4>1, <4>2
    <3>2. CASE w.part # 0
      <4>1. n # 0 /\ q[n] = [w EXCEPT !.part = @ - 1]
        BY <1>1, <1>3, <3>2
      <4>2. n \in 1..n /\ i - 1 = n /\ i > 1
        BY <2>1, <4>1
      <4>3. r[i - 1] = q[n] /\ r[i] = w
        BY <1>2, <2>1, <4>2
      <4> QED
        BY <3>2, <4>1, <4>2, <4>3
    <3> QED
      BY <3>1, <3>2
  <2>2. CASE i # n + 1
    <3>1. i \in 1..n /\ i \in 1..Len(q)
      BY <1>1, <2>2
    <3>2. IF q[i].part = 0 THEN i = 1 \/ q[i - 1].part = BodyWords
          ELSE i > 1 /\ q[i - 1] = [q[i] EXCEPT !.part = @ - 1]
      BY <3>1 DEF Framed
    <3>3. r[i] = q[i]
      BY <1>2, <3>1
    <3>4. CASE i = 1
      BY <3>2, <3>3, <3>4
    <3>5. CASE i # 1
      <4>1. i - 1 \in 1..n
        BY <3>1, <3>5
      <4>2. r[i - 1] = q[i - 1]
        BY <1>2, <4>1
      <4> QED
        BY <3>2, <3>3, <4>2
    <3> QED
      BY <3>4, <3>5
  <2> QED
    BY <2>1, <2>2
<1>5. Framed(r)
  BY <1>2, <1>4 DEF Framed
<1> QED
  BY <1>2, <1>5

(* Who is not busy has written nothing of a message.                       *)
LEMMA IdleSender ==
  ASSUME SendInv, NEW s \in Senders
  PROVE  /\ s \in Busy <=> send[s].pc # "idle"
         /\ s \notin Busy => send[s].at = 0
<1>1. s \in Busy <=> send[s].pc # "idle"
  BY DEF Busy
<1>2. ASSUME s \notin Busy PROVE send[s].at = 0
  BY <1>1, <1>2 DEF SendInv, SendIdle
<1> QED
  BY <1>1, <1>2

(* What a word carries.                                                    *)
LEMMA WordParts ==
  ASSUME NEW s \in Senders
  PROVE  /\ Word(s) = [msg |-> <<s, send[s].num>>, part |-> send[s].at]
         /\ Word(s).part = send[s].at
         /\ [Word(s) EXCEPT !.part = @ - 1] = [msg |-> <<s, send[s].num>>, part |-> send[s].at - 1]
  BY DEF Word

(* The stream stays framed, and ends where the busy sender is.             *)
LEMMA OutStep ==
  ASSUME TypeOK, SendInv, OutInv, [Next]_vars
  PROVE  OutInv'
<1>0. BodyWords \in Nat /\ BodyWords > 0
  BY MuxAssumption DEF MuxAssumption
<1>a. SendInv'
  BY SendStep
<1>1. CASE UNCHANGED <<send, out, disturbed>>
  <2>1. Busy' = Busy
    BY <1>1 DEF Busy
  <2> QED
    BY <1>1, <2>1 DEF OutInv, Framed
<1>2. ASSUME NEW s \in Senders, SendBegin(s) PROVE OutInv'
  <2>0. SUFFICES ASSUME ~disturbed' PROVE OutInv'
    BY DEF OutInv
  <2>1. ~disturbed /\ Busy = {} /\ out' = out
    BY <1>2, <2>0 DEF SendBegin
  <2>2. /\ send'[s].at = 0
        /\ \A t \in Senders : t # s => send'[t] = send[t]
    BY <1>2, SendFacts DEF Send
  <2>3. \A t \in Senders : send[t].at = 0
    BY <2>1, IdleSender
  <2>4. \A t \in Senders : send'[t].at = 0
    BY <2>2, <2>3
  <2>5. Busy' \subseteq {s}
    BY <2>1, <2>2 DEF Busy
  <2>6. Framed(out) /\ (out = <<>> \/ out[Len(out)].part = BodyWords)
    BY <2>1, <2>3 DEF OutInv
  <2>7. Framed(out')
    BY <2>1, <2>6
  <2>8. \A t, u \in Busy' : t = u
    BY <2>5
  <2> QED
    BY <2>1, <2>4, <2>6, <2>7, <2>8 DEF OutInv, Framed
<1>3. ASSUME NEW s \in Senders, SendSock(s) PROVE OutInv'
  <2>1. disturbed' = disturbed /\ out' = out
    BY <1>3 DEF SendSock
  <2>2. \A t \in Senders : /\ send'[t].at = send[t].at
                           /\ send'[t].num = send[t].num
                           /\ send'[t].pc = "idle" <=> send[t].pc = "idle"
    BY <1>3, SendFacts DEF Send
  <2>3. Busy' = Busy
    BY <2>2 DEF Busy
  <2> QED
    BY <2>1, <2>2, <2>3 DEF OutInv, Framed
<1>4. ASSUME NEW s \in Senders, SendCport(s) PROVE OutInv'
  <2>0. SUFFICES ASSUME ~disturbed' PROVE OutInv'
    BY DEF OutInv
  <2>1. /\ ~disturbed /\ out' = Append(out, Word(s))
        /\ send[s].pc = "write_cport" /\ send[s].at = 0
    BY <1>4, <2>0 DEF SendCport, SendInv
  <2>2. /\ send'[s].at = 1 /\ send'[s].num = send[s].num
        /\ \A t \in Senders : t # s => send'[t] = send[t]
    BY <1>4, SendFacts DEF Send
  <2>3. Busy = {s}
    BY <2>1, IdleSender DEF OutInv
  <2>4. \A t \in Senders : t # s => send[t].at = 0 /\ send'[t].at = 0 /\ t \notin Busy'
    BY <2>2, <2>3, IdleSender DEF Busy
  <2>5. Framed(out) /\ (out = <<>> \/ out[Len(out)].part = BodyWords)
    BY <2>1, <2>4 DEF OutInv
  <2>6. Word(s) \in OutWords /\ Word(s) = [msg |-> <<s, send[s].num>>, part |-> 0]
    BY <2>1, WordFacts, WordParts
  <2>7. Word(s).part = 0 /\ out \in Seq(OutWords)
    BY <2>6 DEF TypeOK
  <2>8. Framed(out') /\ out' # <<>> /\ out'[Len(out')] = Word(s)
    BY <2>1, <2>5, <2>6, <2>7, FramedFacts
  <2>9. \A t, u \in Busy' : t = u
    BY <2>4 DEF Busy
  <2>10. send'[s].at - 1 = 0 /\ send'[s].at # 0
    BY <2>2
  <2> QED
    BY <2>2, <2>4, <2>6, <2>8, <2>9, <2>10 DEF OutInv, Framed
<1>5. ASSUME NEW s \in Senders, SendBody(s) PROVE OutInv'
  <2>0. SUFFICES ASSUME ~disturbed' PROVE OutInv'
    BY DEF OutInv
  <2>1. /\ ~disturbed /\ out' = Append(out, Word(s))
        /\ send[s].pc = "write_body" /\ send[s].at > 0 /\ send[s].at \in 0..BodyWords
    BY <1>5, <2>0 DEF SendBody, SendInv, TypeOK
  <2>2. \A t \in Senders : t # s => send'[t] = send[t]
    BY <1>5, SendFacts DEF Send
  <2>3. Busy = {s}
    BY <2>1, IdleSender DEF OutInv
  <2>4. \A t \in Senders : t # s => send[t].at = 0 /\ send'[t].at = 0 /\ t \notin Busy'
    BY <2>2, <2>3, IdleSender DEF Busy
  <2>5. /\ Framed(out) /\ out # <<>>
        /\ out[Len(out)] = [msg |-> <<s, send[s].num>>, part |-> send[s].at - 1]
    BY <2>1 DEF OutInv
  <2>6. /\ Word(s) \in OutWords /\ out \in Seq(OutWords)
        /\ Word(s) = [msg |-> <<s, send[s].num>>, part |-> send[s].at]
        /\ Word(s).part # 0
        /\ out[Len(out)] = [Word(s) EXCEPT !.part = @ - 1]
    BY <2>1, <2>5, WordFacts, WordParts DEF TypeOK
  <2>8. Framed(out') /\ out' # <<>> /\ out'[Len(out')] = Word(s)
    BY <2>1, <2>5, <2>6, FramedFacts
  <2>9. \A t, u \in Busy' : t = u
    BY <2>4 DEF Busy
  <2>10. CASE send[s].at = BodyWords
    <3>1. send'[s].at = 0 /\ Word(s).part = BodyWords
      BY <1>5, <2>6, <2>10, SendFacts DEF Send, SendIdle
    <3> QED
      BY <2>4, <2>8, <2>9, <3>1 DEF OutInv, Framed
  <2>11. CASE send[s].at # BodyWords
    <3>1. send'[s].at = send[s].at + 1 /\ send'[s].num = send[s].num
      BY <1>5, <2>11, SendFacts DEF Send
    <3>2. send'[s].at - 1 = send[s].at /\ send'[s].at # 0
      BY <2>1, <3>1
    <3>3. out'[Len(out')] = [msg |-> <<s, send'[s].num>>, part |-> send'[s].at - 1]
      BY <2>6, <2>8, <3>1, <3>2
    <3>4. \A t \in Senders : send'[t].at > 0 => t = s
      BY <2>4
    <3> QED
      BY <2>8, <2>9, <3>2, <3>3, <3>4 DEF OutInv, Framed
  <2> QED
    BY <2>10, <2>11
<1>6. ASSUME NEW s \in Senders, SendFails(s) PROVE OutInv'
  <2>0. SUFFICES ASSUME ~disturbed' PROVE OutInv'
    BY DEF OutInv
  <2>1. ~disturbed /\ out' = out /\ ~(send[s].at > 0) /\ send[s].at \in 0..BodyWords
    BY <1>6, <2>0 DEF SendFails, TypeOK
  <2>2. /\ send[s].pc \in {"write_cport", "write_body"}
        /\ send'[s] = SendIdle
        /\ \A t \in Senders : t # s => send'[t] = send[t]
    BY <1>6, SendFacts DEF Send
  <2>3. send'[s].at = 0 /\ send'[s].pc = "idle" /\ send[s].at = 0
    BY <2>1, <2>2 DEF SendIdle
  <2>4. Busy = {s}
    BY <2>1, <2>2, IdleSender DEF OutInv
  <2>5. \A t \in Senders : send[t].at = 0 /\ send'[t].at = 0
    BY <2>2, <2>3, <2>4, IdleSender
  <2>6. Busy' = {}
    BY <2>2, <2>3, <2>4 DEF Busy
  <2> QED
    BY <2>1, <2>5, <2>6 DEF OutInv, Framed
<1>7. CASE RxAccept
  <2>0. SUFFICES ASSUME ~disturbed' PROVE OutInv'
    BY DEF OutInv
  <2>1. /\ out' = <<>> /\ send' = send
        /\ ~(Cardinality(Busy) > 1) /\ \A t \in Senders : ~(send[t].at > 0)
    BY <1>7, <2>0 DEF RxAccept
  <2>2. \A t, u \in Busy : t = u
    <3> SUFFICES ASSUME NEW t \in Busy, NEW u \in Busy, t # u PROVE FALSE
      OBVIOUS
    <3>1. IsFiniteSet(Busy) /\ {t, u} \subseteq Busy
      BY DEF SendInv
    <3>2. Cardinality({t, u}) <= Cardinality(Busy)
      BY <3>1, FS_Subset
    <3>3. Cardinality({t}) = 1 /\ IsFiniteSet({t})
      BY FS_Singleton
    <3>4. Cardinality({t} \cup {u}) = Cardinality({t}) + 1
      BY <3>3, FS_AddElement
    <3>5. {t} \cup {u} = {t, u}
      OBVIOUS
    <3>6. Cardinality({t, u}) = 2
      BY <3>3, <3>4, <3>5
    <3>7. Cardinality(Busy) \in Nat
      BY <3>1, FS_CardinalityType
    <3> QED
      BY <2>1, <3>2, <3>6, <3>7
  <2>3. Busy' = Busy
    BY <2>1 DEF Busy
  <2>4. Framed(out')
    BY <2>1 DEF Framed
  <2> QED
    BY <2>1, <2>2, <2>3, <2>4 DEF OutInv, Framed
<1>8. CASE (Rx \/ Peer) /\ ~RxAccept
  BY <1>1, <1>8, RxFrame
<1>9. CASE UNCHANGED vars
  BY <1>1, <1>9 DEF vars, sendVars
<1> QED
  BY <1>2, <1>3, <1>4, <1>5, <1>6, <1>7, <1>8, <1>9 DEF Next, Send

-----------------------------------------------------------------------------
(* The receiving side.                                                     *)

(* The receive thread has as much of a message as its place says.          *)
LEMMA RxStep ==
  ASSUME TypeOK, RxInv, [Next]_vars
  PROVE  RxInv'
<1>0. Len(rx.got) \in Nat /\ rx.need \in Nat
  BY MuxAssumption DEF TypeOK, MuxAssumption
<1>1. CASE UNCHANGED <<peer, inflow, rx>>
  BY <1>1 DEF RxInv
<1>2. ASSUME NEW s \in Senders, Send(s) PROVE RxInv'
  BY <1>1, <1>2, SendFrame
<1>3. CASE Peer
  <2>1. rx' = rx /\ (peer' = "reset" => inflow' = <<>>)
    BY <1>3 DEF Peer, PeerSends, PeerCloses, PeerResets
  <2> QED
    BY <2>1 DEF RxInv
<1>4. CASE RxAccept
  BY <1>4 DEF RxAccept, RxInv
<1>5. CASE RxPoll \/ RxEof \/ RxError \/ RxForget \/ RxDeliver \/ RxNoMemory
  <2>1. /\ rx'.pc \in {"poll", "read", "close"} /\ rx'.got = <<>>
        /\ UNCHANGED <<peer, inflow>>
    BY <1>5, IdleFacts DEF RxPoll, RxEof, RxError, RxForget, RxDeliver, RxNoMemory, Eof
  <2>2. Len(rx'.got) = 0
    BY <2>1
  <2> QED
    BY <2>1, <2>2 DEF RxInv
<1>6. CASE RxRead
  <2>1. /\ Len(rx'.got) = Len(rx.got) + 1 /\ rx'.need \in 0..MaxLen
        /\ Len(rx.got) # 1 => rx'.need = rx.need
        /\ rx'.pc = IF Len(rx.got) = 1 THEN "alloc"
                    ELSE IF Len(rx.got) + 1 = rx'.need + 2 THEN "deliver" ELSE "read"
        /\ rx.pc = "read" /\ peer' = peer /\ inflow # <<>>
    BY <1>6, ReadFacts
  <2>2. peer' # "reset"
    BY <2>1 DEF RxInv
  <2>3. CASE Len(rx.got) = 1
    BY <2>1, <2>2, <2>3 DEF RxInv
  <2>4. CASE Len(rx.got) # 1
    <3>1. Len(rx.got) >= 2 => Len(rx.got) < rx.need + 2
      BY <2>1 DEF RxInv
    <3>2. rx'.pc \in {"deliver", "read"}
          /\ (rx'.pc = "deliver" <=> Len(rx.got) + 1 = rx'.need + 2)
      BY <2>1, <2>4
    <3>3. rx'.pc = "deliver" => Len(rx'.got) = rx'.need + 2
      BY <2>1, <3>2
    <3>4. rx'.pc = "read" /\ Len(rx'.got) >= 2 => Len(rx'.got) < rx'.need + 2
      BY <1>0, <2>1, <2>4, <3>1, <3>2
    <3> QED
      BY <2>2, <3>2, <3>3, <3>4 DEF RxInv
  <2> QED
    BY <2>3, <2>4
<1>7. CASE RxAlloc
  <2>1. /\ rx'.pc = IF rx.need = 0 THEN "deliver" ELSE "read"
        /\ rx'.got = rx.got /\ rx'.need = rx.need
        /\ rx.pc = "alloc" /\ UNCHANGED <<peer, inflow>>
    BY <1>7 DEF RxAlloc, TypeOK
  <2>2. Len(rx.got) = 2
    BY <2>1 DEF RxInv
  <2> QED
    BY <1>0, <2>1, <2>2 DEF RxInv
<1>8. CASE RxClose
  <2>1. /\ rx'.pc = "forget" /\ rx'.got = rx.got /\ rx.pc = "close"
        /\ UNCHANGED <<peer, inflow>>
    BY <1>8 DEF RxClose, TypeOK
  <2> QED
    BY <2>1 DEF RxInv
<1>9. CASE UNCHANGED vars
  BY <1>1, <1>9 DEF vars, rxVars
<1> QED
  BY <1>2, <1>3, <1>4, <1>5, <1>6, <1>7, <1>8, <1>9 DEF Next, Rx

(* Two streams, one after the other.                                       *)
LEMMA JoinFollows ==
  ASSUME NEW f \in Seq(InWords), NEW t \in Seq(InWords),
         \A i \in 1..Len(f) : i < Len(f) => Follows(f[i], f[i + 1]),
         \A i \in 1..Len(t) : i < Len(t) => Follows(t[i], t[i + 1]),
         f # <<>> /\ t # <<>> => Follows(f[Len(f)], t[1]),
         NEW g, g = f \o t
  PROVE  \A i \in 1..Len(g) : i < Len(g) => Follows(g[i], g[i + 1])
<1>1. PICK n \in Nat, m \in Nat : n = Len(f) /\ m = Len(t)
  OBVIOUS
<1>2. /\ Len(g) = n + m
      /\ \A i \in 1..n : g[i] = f[i]
      /\ \A i \in 1..m : g[n + i] = t[i]
  BY <1>1, JoinFacts
<1>3. ASSUME NEW i \in 1..Len(g), i < Len(g) PROVE Follows(g[i], g[i + 1])
  <2>0. i \in 1..n + m /\ i < n + m
    BY <1>2, <1>3
  <2>1. CASE i < n
    <3>1. i \in 1..n /\ i + 1 \in 1..n
      BY <2>0, <2>1
    <3>2. g[i] = f[i] /\ g[i + 1] = f[i + 1]
      BY <1>2, <3>1
    <3>3. Follows(f[i], f[i + 1])
      BY <1>1, <2>1, <3>1
    <3> QED
      BY <3>2, <3>3
  <2>2. CASE i = n
    <3>1. i \in 1..n /\ 1 \in 1..m /\ n > 0 /\ m > 0
      BY <2>0, <2>2
    <3>2. g[i] = f[n] /\ g[i + 1] = t[1]
      BY <1>2, <2>2, <3>1
    <3>3. f # <<>> /\ t # <<>>
      BY <1>1, <3>1
    <3>4. Follows(f[n], t[1])
      BY <1>1, <3>3
    <3> QED
      BY <3>2, <3>4
  <2>3. CASE i > n
    <3>1. PICK j \in 1..m : i = n + j /\ j < m
      <4>1. i - n \in 1..m /\ i = n + (i - n) /\ i - n < m
        BY <2>0, <2>3
      <4> QED
        BY <4>1
    <3>2. j + 1 \in 1..m /\ i + 1 = n + (j + 1)
      BY <3>1
    <3>3. g[i] = t[j] /\ g[i + 1] = t[j + 1]
      BY <1>2, <3>1, <3>2
    <3>4. Follows(t[j], t[j + 1])
      BY <1>1, <3>1
    <3> QED
      BY <3>3, <3>4
  <2>4. i < n \/ i = n \/ i > n
    BY <2>0
  <2> QED
    BY <2>1, <2>2, <2>3, <2>4, Zenon
<1> QED
  BY <1>3

(* The words of a message follow each other, cut off or not.               *)
LEMMA MessageFollows ==
  ASSUME NEW n \in Nat, NEW len \in Nat, NEW t \in Seq(InWords), Len(t) <= len + 2,
         \A i \in 1..Len(t) : t[i] = [msg |-> n, part |-> i - 1, len |-> len]
  PROVE  \A i \in 1..Len(t) : i < Len(t) => Follows(t[i], t[i + 1])
<1>1. ASSUME NEW i \in 1..Len(t), i < Len(t) PROVE Follows(t[i], t[i + 1])
  <2>1. i + 1 \in 1..Len(t) /\ i \in Nat
    BY <1>1
  <2>2. /\ t[i] = [msg |-> n, part |-> i - 1, len |-> len]
        /\ t[i + 1] = [msg |-> n, part |-> i, len |-> len]
    BY <2>1
  <2>3. i - 1 # len + 1
    BY <1>1, <2>1
  <2>4. t[i + 1] = [t[i] EXCEPT !.part = @ + 1]
    BY <2>1, <2>2
  <2>5. t[i].part = i - 1 /\ t[i].len = len
    BY <2>2
  <2> QED
    BY <2>3, <2>4, <2>5 DEF Follows
<1> QED
  BY <1>1

(* Where nothing moves.                                                    *)
LEMMA InSame ==
  ASSUME InInv, UNCHANGED <<inflow, sent, delivered, skipped, peer>>,
         rx'.got = rx.got, rx'.need = rx.need \/ Len(rx.got) = 0
  PROVE  InInv'
  BY DEF InInv, InHand, InFlight, Joint, Ends, Genuine, Beyond, LastWord, Follows

(* Where nothing is left to come or to be handed on.                       *)
LEMMA InNothing ==
  ASSUME inflow' = <<>>, rx'.got = <<>>, peer' # "open"
  PROVE  InInv'
  BY DEF InInv, InHand, InFlight, Joint, Ends

(* The peer adds a message, or the beginning of one, to what is in flight. *)
LEMMA InSends ==
  ASSUME TypeOK, InInv, peer = "open", NEW len \in 0..MaxLen, NEW t \in Seq(InWords),
         Len(t) <= len + 2,
         \A i \in 1..Len(t) : t[i] = [msg |-> sent + 1, part |-> i - 1, len |-> len],
         inflow' = inflow \o t,
         UNCHANGED <<rx, delivered, skipped>>,
         \/ peer' = "open" /\ Len(t) = len + 2 /\ sent' = sent + 1
         \/ peer' = "fin" /\ Len(t) < len + 2 /\ sent' = sent
  PROVE  InInv'
<1> SUFFICES ASSUME skipped # "payload" PROVE (InHand /\ InFlight /\ Joint /\ Ends)'
  BY DEF InInv
<1>0. /\ InHand /\ InFlight /\ Joint /\ Ends
      /\ sent \in Nat /\ len \in Nat /\ sent' \in Nat /\ sent <= sent'
      /\ inflow \in Seq(InWords)
  <2>1. sent \in Nat /\ len \in Nat /\ inflow \in Seq(InWords)
    BY MuxAssumption DEF TypeOK, MuxAssumption
  <2>2. sent' \in Nat /\ sent <= sent'
    BY <2>1
  <2> QED
    BY <2>1, <2>2, Zenon DEF InInv
<1>1. PICK f \in Seq(InWords), n \in Nat, k \in Nat :
        f = inflow /\ n = Len(f) /\ k = Len(t)
  <2>1. inflow \in Seq(InWords) /\ Len(inflow) \in Nat /\ Len(t) \in Nat
    BY <1>0, JoinFacts
  <2> QED
    BY <2>1, Zenon
<1>2. PICK g \in Seq(InWords) : g = inflow' /\ g = f \o t /\ Len(g) = n + k
                                /\ (\A i \in 1..n : g[i] = f[i])
                                /\ (\A i \in 1..k : g[n + i] = t[i])
  <2>1. /\ f \o t \in Seq(InWords) /\ Len(f \o t) = Len(f) + Len(t)
        /\ \A i \in 1..Len(f) : (f \o t)[i] = f[i]
        /\ \A i \in 1..Len(t) : (f \o t)[Len(f) + i] = t[i]
    BY JoinFacts
  <2> QED
    BY <1>1, <2>1, Zenon
<1>3. /\ f = <<>> <=> n = 0
      /\ t = <<>> <=> k = 0
      /\ g = <<>> <=> n + k = 0
  BY <1>1, <1>2
<1>4. n > 0 => LastWord(f[n])
  BY <1>0, <1>1, <1>3 DEF Ends
<1>5. k > 0 => t[1] = [msg |-> sent + 1, part |-> 0, len |-> len]
  BY <1>1
<1>6. InHand'
  <2>1. \A i \in 1..Len(rx.got) : rx.got[i].msg <= sent => rx.got[i].msg <= sent'
    <3> SUFFICES ASSUME NEW i \in 1..Len(rx.got), rx.got[i].msg <= sent
                 PROVE  rx.got[i].msg <= sent'
      OBVIOUS
    <3>1. rx.got[i] \in InWords
      BY DEF TypeOK
    <3>2. rx.got[i].msg \in Int
      BY <3>1, MuxAssumption DEF InWords, MuxAssumption
    <3> QED
      BY <1>0, <3>2
  <2> QED
    BY <1>0, <2>1 DEF InHand, Genuine
<1>7. InFlight'
  <2>1. \A i \in 1..Len(g) : i < Len(g) => Follows(g[i], g[i + 1])
    <3>1. \A i \in 1..Len(f) : i < Len(f) => Follows(f[i], f[i + 1])
      BY <1>0, <1>1 DEF InFlight
    <3>2. sent + 1 \in Nat
      BY <1>0
    <3>3. \A i \in 1..Len(t) : i < Len(t) => Follows(t[i], t[i + 1])
      BY <1>0, <3>2, MessageFollows
    <3>4. ASSUME f # <<>>, t # <<>> PROVE Follows(f[Len(f)], t[1])
      BY <1>1, <1>3, <1>4, <1>5, <3>4 DEF LastWord, Follows
    <3> QED
      BY <1>2, <3>1, <3>3, <3>4, JoinFollows
  <2>2. ASSUME NEW i \in 1..Len(g)
        PROVE  g[i].part <= g[i].len + 1 /\ (g[i].msg <= sent' \/ g[i].part < g[i].len + 1)
    <3>1. CASE i <= n
      <4>1. i \in 1..n /\ i \in 1..Len(inflow) /\ g[i] = inflow[i] /\ inflow[i] \in InWords
        BY <1>1, <1>2, <2>2, <3>1
      <4>2. Genuine(inflow[i])
        BY <1>0, <4>1 DEF InFlight
      <4>3. inflow[i].msg \in Int
        <5>1. \A w \in InWords : w.msg \in Int
          BY MuxAssumption DEF InWords, MuxAssumption
        <5> QED
          BY <4>1, <5>1, Zenon
      <4>4. inflow[i].msg <= sent => inflow[i].msg <= sent'
        BY <1>0, <4>3
      <4> QED
        BY <4>1, <4>2, <4>4 DEF Genuine
    <3>2. CASE i > n
      <4>1. i - n \in 1..k /\ n + (i - n) = i
        BY <1>2, <2>2, <3>2
      <4>2. PICK j \in 1..k : j = i - n
        BY <4>1
      <4>3. g[i] = t[j]
        BY <1>2, <4>1, <4>2
      <4>4. t[j] = [msg |-> sent + 1, part |-> j - 1, len |-> len]
        BY <1>1, <4>2
      <4>5. g[i].msg = sent + 1 /\ g[i].part = j - 1 /\ g[i].len = len
        BY <4>3, <4>4
      <4>6. j <= len + 2 /\ (sent' = sent + 1 \/ j < len + 2) /\ j \in Nat
        BY <1>0, <1>1, <4>2
      <4> QED
        BY <1>0, <4>5, <4>6
    <3>3. i <= n \/ i > n
      BY <1>2, <2>2
    <3> QED
      BY <3>1, <3>2, <3>3, Zenon
  <2> QED
    BY <1>2, <2>1, <2>2, Zenon DEF InFlight, Genuine
<1>8. Joint'
  <2>1. rx.got # <<>> => Beyond(rx.got[1].msg)
    BY <1>0 DEF Joint
  <2>2. ASSUME g # <<>>
        PROVE  /\ rx.got # <<>> => Follows(rx.got[Len(rx.got)], g[1])
               /\ rx.got = <<>> => g[1].part = 0 /\ Beyond(g[1].msg)
    <3>1. CASE n > 0
      <4>1. 1 \in 1..n /\ g[1] = inflow[1] /\ inflow # <<>>
        BY <1>1, <1>2, <1>3, <3>1
      <4> QED
        BY <1>0, <4>1 DEF Joint
    <3>2. CASE n = 0
      <4>1. k > 0 /\ 1 \in 1..k /\ n + 1 = 1 /\ inflow = <<>>
        BY <1>1, <1>3, <2>2, <3>2
      <4>2. g[1] = [msg |-> sent + 1, part |-> 0, len |-> len]
        BY <1>2, <1>5, <4>1
      <4>3. g[1].part = 0 /\ g[1].msg = sent + 1
        BY <4>2
      <4>4. /\ rx.got # <<>> => LastWord(rx.got[Len(rx.got)])
            /\ rx.got = <<>> => Beyond(sent + 1)
        BY <1>0, <4>1 DEF Ends
      <4> QED
        BY <4>3, <4>4 DEF LastWord, Follows
    <3> QED
      BY <1>1, <3>1, <3>2
  <2> QED
    BY <1>2, <2>1, <2>2 DEF Joint, Beyond, Follows
<1>9. Ends'
  <2> SUFFICES ASSUME peer' = "open" PROVE Ends'
    BY DEF Ends
  <2>1. k = len + 2 /\ sent' = sent + 1 /\ k > 0
    BY <1>0, <1>1
  <2>2. g # <<>> /\ k \in 1..k /\ Len(g) = n + k
    BY <1>2, <1>3, <2>1
  <2>3. g[Len(g)] = [msg |-> sent + 1, part |-> k - 1, len |-> len]
    BY <1>1, <1>2, <2>2
  <2>4. g[Len(g)].msg = sent + 1 /\ g[Len(g)].part = k - 1 /\ g[Len(g)].len = len
    BY <2>3
  <2>5. k - 1 = len + 1
    BY <1>0, <2>1
  <2> QED
    BY <1>2, <2>1, <2>2, <2>4, <2>5 DEF Ends, LastWord
<1> QED
  BY <1>6, <1>7, <1>8, <1>9

(* The receive thread takes the next word.                                 *)
LEMMA InReads ==
  ASSUME TypeOK, RxInv, InInv, RxRead
  PROVE  InInv'
<1>1. /\ inflow # <<>> /\ inflow \in Seq(InWords) /\ rx.got \in Seq(InWords)
      /\ inflow' = Tail(inflow) /\ rx.pc = "read"
      /\ rx'.got = Append(rx.got, Head(inflow))
      /\ Len(rx.got) = 1 => rx'.need \in Announced(Head(inflow))
      /\ Len(rx.got) # 1 => rx'.need = rx.need
      /\ UNCHANGED <<peer, sent, delivered, skipped>>
  BY ReadFacts DEF TypeOK
<1> SUFFICES ASSUME skipped # "payload" PROVE (InHand /\ InFlight /\ Joint /\ Ends)'
  BY <1>1 DEF InInv
<1>2. InHand /\ InFlight /\ Joint /\ Ends
  BY DEF InInv
<1>3. PICK q \in Seq(InWords), f \in Seq(InWords), n \in Nat, k \in Nat, w \in InWords :
        /\ q = rx.got /\ f = inflow /\ n = Len(q) /\ k = Len(f) /\ w = f[1] /\ w = Head(inflow)
        /\ k > 0
  <2>1. /\ Len(inflow) \in Nat \ {0} /\ Len(rx.got) \in Nat
        /\ Head(inflow) \in InWords /\ Head(inflow) = inflow[1]
    BY <1>1, TailFacts, AppendFacts
  <2>2. Len(inflow) > 0 /\ Len(inflow) \in Nat
    BY <2>1
  <2> QED
    BY <1>1, <2>1, <2>2, Zenon
<1>4. PICK r \in Seq(InWords) :
        /\ r = rx'.got /\ Len(r) = n + 1 /\ r[n + 1] = w /\ r # <<>>
        /\ \A i \in 1..n : r[i] = q[i]
  <2>1. /\ Append(q, w) \in Seq(InWords) /\ Len(Append(q, w)) = Len(q) + 1
        /\ Append(q, w)[Len(q) + 1] = w /\ Append(q, w) # <<>>
        /\ \A i \in 1..Len(q) : Append(q, w)[i] = q[i]
    BY AppendFacts
  <2> QED
    BY <1>1, <1>3, <2>1, Zenon
<1>5. PICK h \in Seq(InWords) :
        /\ h = inflow' /\ Len(h) = k - 1 /\ (h = <<>> <=> k = 1)
        /\ \A i \in 1..k - 1 : h[i] = f[i + 1]
  <2>1. /\ Tail(inflow) \in Seq(InWords) /\ Len(Tail(inflow)) = Len(inflow) - 1
        /\ \A i \in 1..Len(Tail(inflow)) : Tail(inflow)[i] = inflow[i + 1]
        /\ Tail(inflow) = <<>> <=> Len(inflow) = 1
    BY <1>1, TailFacts
  <2> QED
    BY <1>1, <1>3, <2>1
<1>6. q = <<>> <=> n = 0
  BY <1>3
<1>7. n > 0 => w.msg = q[1].msg /\ w.len = q[1].len /\ w.part = n
  <2> SUFFICES ASSUME n > 0 PROVE w.msg = q[1].msg /\ w.len = q[1].len /\ w.part = n
    OBVIOUS
  <2>1. n \in 1..n /\ 1 \in 1..n
    OBVIOUS
  <2>2. /\ q[n].msg = q[1].msg /\ q[n].len = q[1].len /\ q[n].part = n - 1
        /\ n >= 2 => rx.need = q[1].len
    BY <1>2, <1>3, <2>1 DEF InHand
  <2>3. q[1] \in InWords /\ q[1].len \in Nat /\ q[n] \in InWords
    <3>1. q[1] \in InWords /\ q[n] \in InWords
      BY <1>3, <2>1
    <3>2. \A v \in InWords : v.len \in Nat
      BY MuxAssumption DEF InWords, MuxAssumption
    <3> QED
      BY <3>1, <3>2, Zenon
  <2>4. n - 1 # q[1].len + 1
    <3>1. CASE n = 1
      BY <2>3, <3>1
    <3>2. CASE n # 1
      <4>0. n >= 2 /\ n # 1
        BY <3>2
      <4>1. n >= 2 /\ n < rx.need + 2
        <5>1. Len(rx.got) >= 2
          BY <1>3, <4>0
        <5>2. Len(rx.got) < rx.need + 2
          BY <1>1, <5>1 DEF RxInv
        <5> QED
          BY <1>3, <4>0, <5>2
      <4> QED
        BY <2>2, <2>3, <4>1
    <3> QED
      BY <3>1, <3>2
  <2>5. Follows(q[n], w)
    <3>1. Follows(rx.got[Len(rx.got)], inflow[1])
      BY <1>1, <1>2, <1>3, <1>6 DEF Joint
    <3> QED
      BY <1>3, <3>1
  <2>6. w = [q[n] EXCEPT !.part = @ + 1]
    BY <2>2, <2>4, <2>5 DEF Follows
  <2>7. w.msg = q[n].msg /\ w.len = q[n].len /\ w.part = q[n].part + 1
    BY <2>3, <2>6 DEF InWords
  <2> QED
    BY <2>2, <2>7
<1>8. n = 0 => w.part = 0 /\ Beyond(w.msg)
  BY <1>1, <1>2, <1>3, <1>6 DEF Joint
<1>9. Genuine(w)
  <2>1. 1 \in 1..Len(inflow)
    BY <1>3
  <2> QED
    BY <1>2, <1>3, <2>1 DEF InFlight
<1>10. \A i \in 1..n + 1 : /\ r[i].msg = r[1].msg
                           /\ r[i].len = r[1].len
                           /\ r[i].part = i - 1
                           /\ Genuine(r[i])
  <2> SUFFICES ASSUME NEW i \in 1..n + 1
               PROVE  /\ r[i].msg = r[1].msg /\ r[i].len = r[1].len
                      /\ r[i].part = i - 1 /\ Genuine(r[i])
    OBVIOUS
  <2>1. CASE n = 0
    <3>1. i = 1 /\ r[1] = w
      BY <1>4, <2>1
    <3> QED
      BY <1>8, <1>9, <2>1, <3>1
  <2>2. CASE n > 0 /\ i = n + 1
    <3>1. 1 \in 1..n /\ r[1] = q[1] /\ r[i] = w /\ i - 1 = n
      BY <1>4, <2>2
    <3> QED
      BY <1>7, <1>9, <2>2, <3>1
  <2>3. CASE n > 0 /\ i # n + 1
    <3>1. i \in 1..n /\ 1 \in 1..n
      BY <2>3
    <3>2. r[1] = q[1] /\ r[i] = q[i] /\ i \in 1..Len(rx.got)
      BY <1>3, <1>4, <3>1
    <3> QED
      BY <1>2, <1>3, <3>2 DEF InHand
  <2> QED
    BY <2>1, <2>2, <2>3
<1>11. InHand'
  <2>1. Len(r) >= 2 => rx'.need = r[1].len
    <3> SUFFICES ASSUME n > 0 PROVE rx'.need = r[1].len
      BY <1>4
    <3>1. 1 \in 1..n /\ r[1] = q[1]
      BY <1>4
    <3>2. CASE n = 1
      <4>1. w.part = 1 /\ w.len = r[1].len /\ rx'.need \in Announced(w)
        BY <1>1, <1>3, <1>7, <3>1, <3>2
      <4> QED
        BY <4>1 DEF Announced, PayloadLen
    <3>3. CASE n # 1
      <4>a. n >= 2 /\ n # 1
        BY <3>3
      <4>0. n >= 2 /\ Len(rx.got) # 1
        BY <1>3, <4>a, Zenon
      <4>1. n >= 2 /\ rx'.need = rx.need
        BY <1>1, <4>0
      <4> QED
        BY <1>2, <1>3, <3>1, <4>1 DEF InHand
    <3> QED
      BY <3>2, <3>3
  <2>2. sent' = sent /\ rx'.got = r /\ Len(r) = n + 1
    BY <1>1, <1>4
  <2> QED
    BY <1>10, <2>1, <2>2 DEF InHand, Genuine
<1>12. InFlight'
  <2>1. ASSUME NEW i \in 1..k - 1
        PROVE  Genuine(h[i]) /\ (i < k - 1 => Follows(h[i], h[i + 1]))
    <3>1. i + 1 \in 1..Len(inflow) /\ h[i] = f[i + 1]
      BY <1>3, <1>5
    <3>2. Genuine(f[i + 1])
      BY <1>2, <1>3, <3>1 DEF InFlight
    <3>3. ASSUME i < k - 1 PROVE Follows(h[i], h[i + 1])
      <4>1. i + 1 < Len(inflow) /\ i + 1 \in 1..k - 1 /\ i + 1 + 1 = i + 2
        BY <1>3, <3>3
      <4>2. h[i + 1] = f[i + 1 + 1]
        BY <1>5, <4>1
      <4>3. Follows(f[i + 1], f[i + 1 + 1])
        BY <1>2, <1>3, <3>1, <4>1 DEF InFlight
      <4> QED
        BY <3>1, <4>2, <4>3
    <3> QED
      BY <3>1, <3>2, <3>3
  <2>2. inflow' = h /\ Len(h) = k - 1 /\ sent' = sent
    BY <1>1, <1>5
  <2> QED
    BY <2>1, <2>2 DEF InFlight, Genuine, Follows
<1>13. Joint'
  <2>1. Beyond(r[1].msg)
    <3>1. CASE n = 0
      <4>1. r[1] = w
        BY <1>4, <3>1
      <4> QED
        BY <1>8, <3>1, <4>1
    <3>2. CASE n > 0
      <4>1. 1 \in 1..n /\ r[1] = q[1]
        BY <1>4, <3>2
      <4> QED
        BY <1>2, <1>3, <1>6, <3>2, <4>1 DEF Joint
    <3> QED
      BY <3>1, <3>2
  <2>2. h # <<>> => Follows(r[n + 1], h[1])
    <3> SUFFICES ASSUME h # <<>> PROVE Follows(r[n + 1], h[1])
      OBVIOUS
    <3>1. k > 1 /\ 1 \in 1..k - 1 /\ 1 \in 1..Len(inflow) /\ 1 < Len(inflow)
      BY <1>3, <1>5
    <3>2. h[1] = f[1 + 1]
      BY <1>5, <3>1
    <3>3. Follows(f[1], f[1 + 1])
      BY <1>2, <1>3, <3>1 DEF InFlight
    <3> QED
      BY <1>3, <1>4, <3>2, <3>3
  <2>3. /\ rx'.got = r /\ Len(r) = n + 1 /\ inflow' = h /\ r # <<>>
        /\ delivered' = delivered /\ skipped' = skipped
    BY <1>1, <1>4, <1>5
  <2> QED
    BY <2>1, <2>2, <2>3 DEF Joint, Beyond, Follows
<1>14. Ends'
  <2> SUFFICES ASSUME peer = "open"
               PROVE  /\ h # <<>> => LastWord(h[Len(h)])
                      /\ h = <<>> => LastWord(r[Len(r)])
    BY <1>1, <1>4, <1>5 DEF Ends, LastWord
  <2>1. LastWord(f[k])
    BY <1>1, <1>2, <1>3 DEF Ends
  <2>2. ASSUME h # <<>> PROVE LastWord(h[Len(h)])
    <3>1. k - 1 \in 1..k - 1 /\ k - 1 + 1 = k
      BY <1>3, <1>5, <2>2
    <3>2. h[k - 1] = f[k]
      BY <1>5, <3>1
    <3> QED
      BY <1>5, <2>1, <3>2
  <2>3. ASSUME h = <<>> PROVE LastWord(r[Len(r)])
    BY <1>3, <1>4, <1>5, <2>1, <2>3
  <2> QED
    BY <2>2, <2>3
<1> QED
  BY <1>11, <1>12, <1>13, <1>14

(* A message the receive thread has all of is the next one the peer sent.  *)
LEMMA WholeFacts ==
  ASSUME TypeOK, RxInv, InHand, Joint, Ends,
         rx.pc = "deliver" \/ (rx.pc = "alloc" /\ rx.need = 0)
  PROVE  \E m \in 1..MaxIn, len \in 0..MaxLen :
           /\ rx.got = Message(m, len) /\ rx.got[1].msg = m
           /\ m \in Nat /\ m <= sent
           /\ Beyond(m)
           /\ inflow # <<>> => inflow[1].part = 0 /\ inflow[1].msg = m + 1
           /\ inflow = <<>> /\ peer = "open" => m = sent
<1>0. MaxLen \in Nat /\ MaxIn \in Nat /\ sent \in 0..MaxIn
  BY MuxAssumption DEF MuxAssumption, TypeOK
<1>1. Len(rx.got) = rx.need + 2 /\ rx.need \in Nat
  <2>1. rx.need \in Nat
    BY <1>0 DEF TypeOK
  <2>2. CASE rx.pc = "deliver"
    BY <2>1, <2>2 DEF RxInv
  <2>3. CASE rx.pc = "alloc" /\ rx.need = 0
    BY <2>1, <2>3 DEF RxInv
  <2> QED
    BY <2>2, <2>3
<1>2. PICK q \in Seq(InWords), len \in 0..MaxLen :
        q = rx.got /\ len = rx.need /\ Len(q) = len + 2 /\ len \in Nat
  BY <1>1 DEF TypeOK
<1>3. 1 \in 1..len + 2 /\ len + 2 \in 1..len + 2
  BY <1>2
<1>4. PICK m \in 1..MaxIn + 1 : q[1].msg = m
  <2>1. q[1] \in InWords
    BY <1>2, <1>3
  <2> QED
    BY <2>1 DEF InWords
<1>5. q[1].len = len
  BY <1>1, <1>2 DEF InHand
<1>6. \A i \in 1..len + 2 : /\ q[i].msg = m /\ q[i].len = len /\ q[i].part = i - 1
                            /\ q[i] \in InWords
  <2> SUFFICES ASSUME NEW i \in 1..len + 2
               PROVE  /\ q[i].msg = m /\ q[i].len = len /\ q[i].part = i - 1
                      /\ q[i] \in InWords
    OBVIOUS
  <2>1. i \in 1..Len(rx.got)
    BY <1>2
  <2>2. q[i].msg = q[1].msg /\ q[i].len = q[1].len /\ q[i].part = i - 1
    BY <1>2, <2>1 DEF InHand
  <2>3. q[i] \in InWords
    BY <1>2
  <2> QED
    BY <1>4, <1>5, <2>2, <2>3
<1>7. \A i \in 1..len + 2 : q[i] = [msg |-> m, part |-> i - 1, len |-> len]
  BY <1>6 DEF InWords
<1>8. q = Message(m, len)
  <2>1. /\ Message(m, len) \in Seq(InWords) /\ Len(Message(m, len)) = len + 2
        /\ \A i \in 1..len + 2 : Message(m, len)[i] = [msg |-> m, part |-> i - 1, len |-> len]
    BY MessageFacts
  <2>2. \A i \in 1..len + 2 : Message(m, len)[i] = q[i]
    BY <1>7, <2>1
  <2>3. \A s \in Seq(InWords), t \in Seq(InWords) :
          Len(s) = Len(t) /\ (\A i \in 1..Len(s) : s[i] = t[i]) => s = t
    OBVIOUS
  <2> QED
    BY <1>2, <2>1, <2>2, <2>3
<1>9. q[len + 2].part = len + 1 /\ q[len + 2].len = len /\ q[len + 2].msg = m
  BY <1>2, <1>3, <1>6
<1>10. m <= sent /\ m \in Nat
  <2>1. Genuine(q[len + 2])
    BY <1>2, <1>3 DEF InHand
  <2> QED
    BY <1>2, <1>9, <2>1 DEF Genuine
<1>11. m \in 1..MaxIn
  BY <1>0, <1>10
<1>12. q # <<>>
  BY <1>2
<1>13. Beyond(m)
  BY <1>2, <1>4, <1>12 DEF Joint
<1>14. inflow # <<>> => inflow[1].part = 0 /\ inflow[1].msg = m + 1
  <2>1. inflow # <<>> => Follows(q[len + 2], inflow[1])
    BY <1>2, <1>12 DEF Joint
  <2> QED
    BY <1>9, <2>1 DEF Follows
<1>15. inflow = <<>> /\ peer = "open" => m = sent
  BY <1>2, <1>9, <1>12 DEF Ends, LastWord
<1> QED
  BY <1>2, <1>4, <1>8, <1>10, <1>11, <1>13, <1>14, <1>15

(* Such a message is handed on, ...                                        *)
LEMMA InDelivers ==
  ASSUME TypeOK, RxInv, InInv, InboundInOrder, RxDeliver
  PROVE  InInv' /\ InboundInOrder'
<1>0. /\ rx.pc = "deliver" /\ rx'.got = <<>>
      /\ UNCHANGED <<peer, inflow, sent, skipped>>
  BY IdleFacts DEF RxDeliver
<1> SUFFICES ASSUME skipped # "payload" PROVE InInv' /\ InboundInOrder'
  BY <1>0 DEF InInv, InboundInOrder
<1>1. InHand /\ InFlight /\ Joint /\ Ends
  BY DEF InInv
<1>2. PICK m \in 1..MaxIn, len \in 0..MaxLen :
        /\ rx.got = Message(m, len) /\ rx.got[1].msg = m
        /\ m \in Nat /\ m <= sent
        /\ Beyond(m)
        /\ inflow # <<>> => inflow[1].part = 0 /\ inflow[1].msg = m + 1
        /\ inflow = <<>> /\ peer = "open" => m = sent
  BY <1>0, <1>1, WholeFacts
<1>3. delivered' = Append(delivered, m)
  <2>1. Whole(rx.got)
    BY <1>2 DEF Whole
  <2> QED
    BY <1>2, <2>1 DEF RxDeliver
<1>4. PICK d \in Seq(0..MaxIn), n \in Nat :
        /\ d = delivered /\ n = Len(d)
        /\ \A i \in 1..n : d[i] \in 0..MaxIn /\ d[i] < m
        /\ skipped = "no" => m = n + 1
  <2>1. delivered \in Seq(0..MaxIn) /\ Len(delivered) \in Nat
    BY DEF TypeOK
  <2>2. /\ \A i \in 1..Len(delivered) : delivered[i] \in 0..MaxIn
        /\ \A i \in 1..Len(delivered) : delivered[i] < m
        /\ skipped = "no" => m = Len(delivered) + 1
    <3>1. \A i \in 1..Len(delivered) : delivered[i] \in 0..MaxIn
      BY <2>1, ElementFacts
    <3>2. Beyond(m)
      BY <1>2
    <3> QED
      BY <3>1, <3>2, Zenon DEF Beyond
  <2> QED
    BY <2>1, <2>2, Zenon
<1>5. PICK e \in Seq(0..MaxIn) :
        /\ e = delivered' /\ Len(e) = n + 1 /\ e[n + 1] = m
        /\ \A i \in 1..n : e[i] = d[i]
  <2>1. m \in 0..MaxIn
    BY <1>2
  <2>2. /\ Append(d, m) \in Seq(0..MaxIn) /\ Len(Append(d, m)) = Len(d) + 1
        /\ Append(d, m)[Len(d) + 1] = m
        /\ \A i \in 1..Len(d) : Append(d, m)[i] = d[i]
    BY <2>1, AppendFacts
  <2> QED
    BY <1>3, <1>4, <2>2, Zenon
<1>6. DOMAIN e = 1..n + 1 /\ DOMAIN d = 1..n
  BY <1>4, <1>5
<1>7. /\ \A i \in 1..n + 1 : e[i] < m + 1
      /\ skipped = "no" => m + 1 = Len(e) + 1
  <2>1. ASSUME NEW i \in 1..n + 1 PROVE e[i] < m + 1
    <3>1. CASE i = n + 1
      BY <1>2, <1>5, <3>1
    <3>2. CASE i # n + 1
      <4>1. i \in 1..n
        BY <3>2
      <4>2. e[i] = d[i] /\ d[i] \in Int /\ d[i] < m
        <5>1. d[i] \in 0..MaxIn /\ d[i] < m
          BY <1>4, <4>1
        <5>2. e[i] = d[i]
          BY <1>5, <4>1
        <5> QED
          BY <5>1, <5>2
      <4> QED
        BY <1>2, <4>2
    <3> QED
      BY <3>1, <3>2
  <2>2. skipped = "no" => m + 1 = Len(e) + 1
    BY <1>4, <1>5
  <2> QED
    BY <2>1, <2>2
<1>8. InInv'
  <2>1. InHand'
    BY <1>0 DEF InHand
  <2>2. InFlight'
    BY <1>0, <1>1 DEF InFlight, Genuine, Follows
  <2>3. Joint'
    BY <1>0, <1>2, <1>5, <1>7 DEF Joint, Beyond
  <2>4. Ends'
    <3>1. inflow # <<>> /\ peer = "open" => LastWord(inflow[Len(inflow)])
      BY <1>1 DEF Ends
    <3> QED
      BY <1>0, <1>2, <1>5, <1>7, <3>1 DEF Ends, Beyond, LastWord
  <2> QED
    BY <2>1, <2>2, <2>3, <2>4 DEF InInv
<1>9. InboundInOrder'
  <2>0. /\ skipped = "no" => \A i \in 1..n : d[i] = i
        /\ \A i \in 1..n : d[i] # 0
        /\ \A i, j \in 1..n : i < j => d[i] < d[j]
    BY <1>4, <1>6 DEF InboundInOrder
  <2>1. ASSUME skipped = "no", NEW i \in 1..n + 1 PROVE e[i] = i
    <3>1. CASE i = n + 1
      BY <1>4, <1>5, <2>1, <3>1
    <3>2. CASE i # n + 1
      <4>1. i \in 1..n
        BY <3>2
      <4> QED
        BY <1>5, <2>0, <2>1, <4>1
    <3> QED
      BY <3>1, <3>2
  <2>2. ASSUME NEW i \in 1..n + 1 PROVE e[i] # 0
    <3>1. CASE i = n + 1
      BY <1>5, <3>1
    <3>2. CASE i # n + 1
      <4>1. i \in 1..n
        BY <3>2
      <4> QED
        BY <1>5, <2>0, <4>1
    <3> QED
      BY <3>1, <3>2
  <2>3. ASSUME NEW i \in 1..n + 1, NEW j \in 1..n + 1, i < j PROVE e[i] < e[j]
    <3>1. i \in 1..n /\ e[i] = d[i]
      <4>1. i \in 1..n
        BY <2>3
      <4> QED
        BY <1>5, <4>1
    <3>2. CASE j = n + 1
      <4>1. e[j] = m /\ d[i] < m
        BY <1>4, <1>5, <3>1, <3>2
      <4> QED
        BY <3>1, <4>1
    <3>3. CASE j # n + 1
      <4>1. j \in 1..n
        BY <3>3
      <4>2. e[j] = d[j]
        BY <1>5, <4>1
      <4> QED
        BY <2>0, <2>3, <3>1, <4>1, <4>2
    <3> QED
      BY <3>2, <3>3
  <2> QED
    BY <1>0, <1>5, <1>6, <2>1, <2>2, <2>3 DEF InboundInOrder
<1> QED
  BY <1>8, <1>9

(* ... or given up, its header read and no payload to leave behind.        *)
LEMMA InGivesUp ==
  ASSUME TypeOK, RxInv, InInv, InboundInOrder, RxNoMemory
  PROVE  InInv' /\ InboundInOrder'
<1>0. /\ rx.pc = "alloc" /\ rx'.got = <<>>
      /\ UNCHANGED <<peer, inflow, sent, delivered>>
      /\ skipped' = IF rx.need > 0 \/ skipped = "payload" THEN "payload" ELSE "message"
  BY IdleFacts DEF RxNoMemory
<1> SUFFICES ASSUME skipped' # "payload" PROVE InInv' /\ InboundInOrder'
  BY <1>0 DEF InInv, InboundInOrder
<1>1. skipped' = "message" /\ skipped # "payload" /\ rx.need = 0
  BY <1>0, MuxAssumption DEF TypeOK, MuxAssumption
<1>2. InHand /\ InFlight /\ Joint /\ Ends
  BY <1>1 DEF InInv
<1>3. PICK m \in 1..MaxIn :
        /\ m \in Nat /\ m <= sent
        /\ Beyond(m)
        /\ inflow # <<>> => inflow[1].part = 0 /\ inflow[1].msg = m + 1
        /\ inflow = <<>> /\ peer = "open" => m = sent
  BY <1>0, <1>1, <1>2, WholeFacts
<1>4. \A i \in 1..Len(delivered) : delivered[i] < m + 1
  <2>1. \A i \in 1..Len(delivered) : delivered[i] \in 0..MaxIn
    BY ElementFacts DEF TypeOK
  <2>2. \A i \in 1..Len(delivered) : delivered[i] < m
    BY <1>3 DEF Beyond
  <2>3. MaxIn \in Nat
    BY MuxAssumption DEF MuxAssumption
  <2> SUFFICES ASSUME NEW i \in 1..Len(delivered) PROVE delivered[i] < m + 1
    OBVIOUS
  <2>4. delivered[i] \in 0..MaxIn /\ delivered[i] < m
    BY <2>1, <2>2
  <2> QED
    BY <1>3, <2>3, <2>4
<1>5. InHand'
  BY <1>0 DEF InHand
<1>6. InFlight'
  BY <1>0, <1>2 DEF InFlight, Genuine, Follows
<1>7. Joint'
  BY <1>0, <1>1, <1>3, <1>4 DEF Joint, Beyond
<1>8. Ends'
  <2>1. inflow # <<>> /\ peer = "open" => LastWord(inflow[Len(inflow)])
    BY <1>2 DEF Ends
  <2> QED
    BY <1>0, <1>1, <1>3, <1>4, <2>1 DEF Ends, Beyond, LastWord
<1>9. InboundInOrder'
  BY <1>0, <1>1 DEF InboundInOrder
<1> QED
  BY <1>5, <1>6, <1>7, <1>8, <1>9 DEF InInv

(* A new connection.                                                       *)
LEMMA InAccepts ==
  ASSUME RxInv, RxAccept
  PROVE  InInv' /\ InboundInOrder'
<1>1. /\ rx'.got = <<>> /\ inflow' = <<>> /\ delivered' = <<>> /\ sent' = 0
  BY DEF RxAccept, RxInv
<1>2. InHand' /\ InFlight' /\ Joint' /\ Ends'
  BY <1>1 DEF InHand, InFlight, Joint, Ends, Beyond
<1>3. InboundInOrder'
  BY <1>1 DEF InboundInOrder
<1> QED
  BY <1>2, <1>3 DEF InInv

(* What is read is what was sent, and comes to the core in order.          *)
LEMMA InStep ==
  ASSUME TypeOK, RxInv, InInv, InboundInOrder, [Next]_vars
  PROVE  InInv' /\ InboundInOrder'
<1> USE DEF rxVars
<1>0. MaxLen \in Nat /\ MaxIn \in Nat
  BY MuxAssumption DEF MuxAssumption
<1>1. ASSUME NEW s \in Senders, Send(s) PROVE InInv' /\ InboundInOrder'
  BY <1>1, SendFrame, InSame DEF InboundInOrder
<1>2. ASSUME NEW len \in 0..MaxLen, PeerSends(len) PROVE InInv' /\ InboundInOrder'
  <2>1. sent + 1 \in 1..MaxIn + 1
    BY <1>0, <1>2 DEF PeerSends, TypeOK
  <2>2. PICK t \in Seq(InWords) :
          /\ t = Message(sent + 1, len) /\ Len(t) = len + 2
          /\ \A i \in 1..len + 2 : t[i] = [msg |-> sent + 1, part |-> i - 1, len |-> len]
    BY <2>1, MessageFacts
  <2>3. /\ Len(t) <= len + 2
        /\ \A i \in 1..Len(t) : t[i] = [msg |-> sent + 1, part |-> i - 1, len |-> len]
    BY <1>0, <2>2
  <2>4. /\ peer = "open" /\ peer' = "open" /\ sent' = sent + 1 /\ inflow' = inflow \o t
        /\ UNCHANGED <<rx, delivered, skipped>>
    BY <1>2, <2>2 DEF PeerSends
  <2>5. InInv'
    BY <2>2, <2>3, <2>4, InSends
  <2> QED
    BY <2>4, <2>5 DEF InboundInOrder
<1>3. CASE PeerCloses
  <2>1. sent + 1 \in 1..MaxIn + 1
    BY <1>0, <1>3 DEF PeerCloses, TypeOK
  <2>2. PICK k \in 0..MaxLen + 1 : inflow' = inflow \o SubSeq(Message(sent + 1, MaxLen), 1, k)
    BY <1>3 DEF PeerCloses
  <2>3. PICK t \in Seq(InWords) :
          /\ t = SubSeq(Message(sent + 1, MaxLen), 1, k) /\ Len(t) = k
          /\ \A i \in 1..k : t[i] = [msg |-> sent + 1, part |-> i - 1, len |-> MaxLen]
    BY <2>1, CutFacts
  <2>4. /\ Len(t) < MaxLen + 2 /\ Len(t) <= MaxLen + 2 /\ MaxLen \in 0..MaxLen
        /\ \A i \in 1..Len(t) : t[i] = [msg |-> sent + 1, part |-> i - 1, len |-> MaxLen]
    BY <1>0, <2>3
  <2>5. /\ peer = "open" /\ peer' = "fin" /\ sent' = sent /\ inflow' = inflow \o t
        /\ UNCHANGED <<rx, delivered, skipped>>
    BY <1>3, <2>2, <2>3 DEF PeerCloses
  <2>6. InInv'
    BY <2>4, <2>5, InSends
  <2> QED
    BY <2>5, <2>6 DEF InboundInOrder
<1>4. CASE PeerResets
  <2>1. /\ inflow' = <<>> /\ peer' = "reset"
        /\ UNCHANGED <<rx, sent, delivered, skipped>>
    BY <1>4 DEF PeerResets
  <2>2. InInv'
    BY <2>1 DEF InInv, InHand, InFlight, Joint, Ends, Genuine, Beyond
  <2> QED
    BY <2>1, <2>2 DEF InboundInOrder
<1>5. CASE RxAccept
  BY <1>5, InAccepts
<1>6. CASE RxPoll \/ RxForget
  <2>1. /\ rx'.got = <<>> /\ rx.got = <<>> /\ Len(rx.got) = 0
        /\ UNCHANGED <<inflow, sent, delivered, skipped, peer>>
    BY <1>6, IdleFacts DEF RxPoll, RxForget, RxInv
  <2> QED
    BY <2>1, InSame DEF InboundInOrder
<1>7. CASE RxAlloc \/ RxClose
  <2>1. /\ rx'.got = rx.got /\ rx'.need = rx.need
        /\ UNCHANGED <<inflow, sent, delivered, skipped, peer>>
    BY <1>7 DEF RxAlloc, RxClose, TypeOK
  <2> QED
    BY <2>1, InSame DEF InboundInOrder
<1>8. CASE RxEof \/ RxError
  <2>1. /\ rx'.got = <<>> /\ inflow' = <<>> /\ peer' # "open"
        /\ UNCHANGED <<delivered, skipped>>
    BY <1>8, IdleFacts DEF RxEof, RxError, Eof, RxInv
  <2> QED
    BY <2>1, InNothing DEF InboundInOrder
<1>9. CASE RxRead
  BY <1>9, InReads DEF RxRead, InboundInOrder
<1>10. CASE RxNoMemory
  BY <1>10, InGivesUp
<1>11. CASE RxDeliver
  BY <1>11, InDelivers
<1>12. CASE UNCHANGED vars
  BY <1>12, InSame DEF vars, InboundInOrder
<1> QED
  BY <1>1, <1>2, <1>3, <1>4, <1>5, <1>6, <1>7, <1>8, <1>9, <1>10, <1>11, <1>12
     DEF Next, Peer, Rx

-----------------------------------------------------------------------------
(* The initial states, and the theorems.                                   *)

LEMMA InitInv == Init => IInv
<1> SUFFICES ASSUME Init PROVE IInv
  OBVIOUS
<1> USE DEF Init
<1>0. /\ BodyWords \in Nat /\ BodyWords > 0 /\ MaxLen \in Nat /\ MaxOut \in Nat
      /\ MaxIn \in Nat /\ MaxConn \in Nat /\ MaxFail \in Nat
  BY MuxAssumption DEF MuxAssumption
<1>1. \A s \in Senders : /\ send[s] = SendIdle /\ send[s].pc = "idle" /\ send[s].at = 0
  BY DEF SendIdle
<1>2. Busy = {}
  BY <1>1 DEF Busy
<1>3. rx.got = <<>> /\ rx.pc = "poll" /\ rx.need = 0
  BY DEF RxIdle
<1>4. TypeOK
  <2>1. rx \in [pc : {"poll", "read", "alloc", "deliver", "close", "forget"},
                got : Seq(InWords), need : 0..MaxLen]
    BY <1>0 DEF RxIdle
  <2>2. SendIdle \in [pc : {"idle", "cport", "write_cport", "body", "write_body"},
                      sock : BOOLEAN, at : 0..BodyWords, num : 0..MaxOut]
    BY <1>0 DEF SendIdle
  <2>3. send \in [Senders ->
               [pc : {"idle", "cport", "write_cport", "body", "write_body"},
                sock : BOOLEAN, at : 0..BodyWords, num : 0..MaxOut]]
    BY <2>2
  <2>4. budget \in [out : 0..MaxOut, conn : 0..MaxConn, fail : 0..MaxFail]
    BY <1>0
  <2>5. /\ <<>> \in Seq(InWords) /\ <<>> \in Seq(OutWords) /\ <<>> \in Seq(0..MaxIn)
        /\ 0 \in 0..MaxIn
    BY <1>0
  <2> QED
    BY <2>1, <2>3, <2>4, <2>5 DEF TypeOK
<1>5. SendInv
  BY <1>1, <1>2, FS_EmptySet DEF SendInv
<1>6. OutInv
  BY <1>1, <1>2 DEF OutInv, Framed
<1>7. RxInv
  BY <1>3 DEF RxInv
<1>8. InInv
  BY <1>3 DEF InInv, InHand, InFlight, Joint, Ends, Beyond
<1>9. InboundInOrder
  BY DEF InboundInOrder
<1> QED
  BY <1>4, <1>5, <1>6, <1>7, <1>8, <1>9 DEF IInv

LEMMA NextInv == IInv /\ [Next]_vars => IInv'
<1> SUFFICES ASSUME IInv, [Next]_vars PROVE IInv'
  OBVIOUS
<1>1. TypeOK /\ SendInv /\ OutInv /\ RxInv /\ InInv /\ InboundInOrder
  BY DEF IInv
<1>2. TypeOK' /\ SendInv'
  BY <1>1, TypeStep, SendStep
<1>3. OutInv' /\ RxInv'
  BY <1>1, OutStep, RxStep
<1>4. InInv' /\ InboundInOrder'
  BY <1>1, InStep
<1> QED
  BY <1>2, <1>3, <1>4 DEF IInv

(* The invariant holds in every reachable state: each sender's place       *)
(* matches the end of the stream, and the words in hand and in flight are  *)
(* what the peer sent, one after the other.                                *)
THEOREM Inductive == Spec => []IInv
  BY InitInv, NextInv, PTL DEF Spec

(* The stream of a connection stays framed unless two sends overlap, a     *)
(* write fails in the middle of a message, or a send outlives its          *)
(* connection; the state stays of its type                                 *)
(* (transport-tcpip-multiplex.c:88-101, 226-231).                          *)
THEOREM FramedCorrect == Spec => []FramedUnlessDisturbed
<1>1. IInv => FramedUnlessDisturbed
  BY DEF IInv, OutInv, FramedUnlessDisturbed
<1> QED
  BY <1>1, Inductive, PTL

(* The core gets the messages of a connection in the order the peer sent   *)
(* them, none left out and none made up, as long as every allocation       *)
(* succeeds; only a payload left unread can change that                    *)
(* (transport-tcpip-multiplex.c:132-171, 398-412).                         *)
THEOREM InboundCorrect == Spec => []InboundInOrder
<1>1. IInv => InboundInOrder
  BY DEF IInv
<1> QED
  BY <1>1, Inductive, PTL
=============================================================================
