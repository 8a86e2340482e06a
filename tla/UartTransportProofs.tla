------------------------ MODULE UartTransportProofs -------------------------
(***************************************************************************)
(* Theorems about the serial transport, for any senders, sizes and bounds: *)
(* what is read comes to the core whole and in order as long as the ring   *)
(* does not overflow, and what is written is framed unless sends overlap.  *)
(***************************************************************************)
EXTENDS UartTransport, TLAPS

-----------------------------------------------------------------------------
(* The sending side of the inductive invariant.                            *)

Busy == {s \in Senders : send[s] # SendIdle}

(* What a sender's place says of the bytes it has written.                 *)
SendInv ==
  \A s \in Senders :
    /\ send[s].pc = "idle" <=> send[s] = SendIdle
    /\ send[s].pc = "write" => send[s].at > 0 /\ send[s].msg > 0

(* Without an overlap, at most one sender is busy, and the line ends with  *)
(* the last byte it wrote, or with a whole message.                        *)
OutInv ==
  ~overlapped =>
    /\ FramedUnlessOverlapped
    /\ \A s, t \in Busy : s = t
    /\ (\A s \in Busy : send[s].at = 1) =>
         out = <<>> \/ out[Len(out)].pos = HeaderSize
    /\ \A s \in Busy : send[s].at > 1 =>
         /\ out # <<>>
         /\ out[Len(out)] = [from |-> s, msg |-> send[s].msg, pos |-> send[s].at - 1]

-----------------------------------------------------------------------------
(* The receiving side of the inductive invariant.                          *)

(* All that the peer sent and the core does not have yet.                  *)
Stream == work.got \o ring \o line

(* Byte c comes after byte b.                                              *)
Follows(b, c) ==
  IF b.pos = b.len THEN c.pos = 1 /\ c.msg = b.msg + 1
  ELSE c = Byte(b.msg, b.pos + 1, b.len)

(* The bytes around byte i, as far as they are there, are those of its     *)
(* message, from the first; and one message comes after the other.         *)
Chain(q) ==
  \A i \in 1..Len(q) :
    /\ q[i].pos <= i
    /\ q[i].pos <= q[i].len
    /\ i < Len(q) => Follows(q[i], q[i + 1])
    /\ \A j \in 1..Len(q) :
         j - i + q[i].pos \in 1..q[i].len =>
           q[j] = Byte(q[i].msg, j - i + q[i].pos, q[i].len)

(* How much of a message the work item has, and where the peer is.         *)
WorkInv ==
  /\ work.pc # "payload" => work.got = <<>>
  /\ work.pc = "payload" => Len(work.got) = HeaderSize
  /\ peer.pos = 1 \/ peer.pos <= peer.len

(* Without an overflow, the stream begins with the message that is due,    *)
(* and the peer goes on from its end.                                      *)
InInv ==
  ~overflowed =>
    /\ Chain(Stream)
    /\ Stream # <<>> => Stream[1].msg = Len(delivered) + 1
    /\ Stream # <<>> => Follows(Stream[Len(Stream)], peer)
    /\ Stream = <<>> => peer.pos = 1 /\ peer.msg = Len(delivered) + 1
    /\ work.pc = "payload" => work.need = PayloadSize(work.got)

IInv == InOrder /\ SendInv /\ OutInv /\ WorkInv /\ InInv

-----------------------------------------------------------------------------
(* Bytes and streams.                                                      *)

LEMMA ConstFacts ==
  /\ HeaderSize \in Nat /\ HeaderSize > 0
  /\ MaxPayload \in Nat /\ Pad \in Nat /\ MaxOut \in Nat /\ MaxIn \in Nat
  BY UartAssumption DEF UartAssumption

LEMMA ByteFacts ==
  ASSUME NEW b \in Bytes
  PROVE  /\ b.pos \in Nat /\ b.len \in Nat /\ b.msg \in Nat
         /\ b.pos > 0 /\ b.len > 0 /\ b.msg > 0
         /\ b = Byte(b.msg, b.pos, b.len)
         /\ b.len \in Sizes /\ b.msg \in 1..MaxIn
  BY ConstFacts DEF Bytes, Sizes, Byte

(* What a queue holds.                                                     *)
LEMMA ElementFacts ==
  ASSUME NEW S, NEW q \in Seq(S)
  PROVE  /\ Len(q) \in Nat
         /\ DOMAIN q = 1..Len(q)
         /\ \A i \in 1..Len(q) : q[i] \in S
         /\ q = <<>> <=> Len(q) = 0
  OBVIOUS

(* A queue with a last element.                                            *)
LEMMA AppendFacts ==
  ASSUME NEW S, NEW q \in Seq(S), NEW e \in S
  PROVE  /\ Append(q, e) \in Seq(S)
         /\ Append(q, e) # <<>>
         /\ Len(Append(q, e)) = Len(q) + 1
         /\ \A i \in 1..Len(q) : Append(q, e)[i] = q[i]
         /\ Append(q, e)[Len(q) + 1] = e
  OBVIOUS

(* Two queues, one after the other.                                        *)
LEMMA JoinFacts ==
  ASSUME NEW S, NEW p \in Seq(S), NEW q \in Seq(S)
  PROVE  /\ p \o q \in Seq(S)
         /\ Len(p \o q) = Len(p) + Len(q)
         /\ \A i \in 1..Len(p) : (p \o q)[i] = p[i]
         /\ \A i \in 1..Len(q) : (p \o q)[Len(p) + i] = q[i]
  OBVIOUS

(* The beginning of a queue, and what follows it.                          *)
LEMMA PrefixFacts ==
  ASSUME NEW S, NEW q \in Seq(S), NEW n \in 0..Len(q)
  PROVE  /\ SubSeq(q, 1, n) \in Seq(S)
         /\ Len(SubSeq(q, 1, n)) = n
         /\ \A i \in 1..n : SubSeq(q, 1, n)[i] = q[i]
  OBVIOUS

LEMMA RestFacts ==
  ASSUME NEW S, NEW q \in Seq(S), NEW n \in 0..Len(q)
  PROVE  /\ SubSeq(q, n + 1, Len(q)) \in Seq(S)
         /\ Len(SubSeq(q, n + 1, Len(q))) = Len(q) - n
         /\ \A i \in 1..Len(q) - n : SubSeq(q, n + 1, Len(q))[i] = q[n + i]
  OBVIOUS

(* Two queues with the same elements.                                      *)
LEMMA SameFacts ==
  ASSUME NEW S, NEW p \in Seq(S), NEW q \in Seq(S), Len(p) = Len(q),
         \A i \in 1..Len(p) : p[i] = q[i]
  PROVE  p = q
  OBVIOUS

(* A queue cut in two and put together.                                    *)
LEMMA CutFacts ==
  ASSUME NEW S, NEW q \in Seq(S), NEW n \in 0..Len(q)
  PROVE  SubSeq(q, 1, n) \o SubSeq(q, n + 1, Len(q)) = q
<1>1. PICK m \in Nat : m = Len(q) /\ n \in Nat /\ n <= m
  OBVIOUS
<1>2. PICK a \in Seq(S) :
        a = SubSeq(q, 1, n) /\ Len(a) = n /\ \A i \in 1..n : a[i] = q[i]
  <2>1. /\ SubSeq(q, 1, n) \in Seq(S) /\ Len(SubSeq(q, 1, n)) = n
        /\ \A i \in 1..n : SubSeq(q, 1, n)[i] = q[i]
    BY PrefixFacts
  <2> QED
    BY <2>1, Zenon
<1>3. PICK b \in Seq(S) :
        b = SubSeq(q, n + 1, m) /\ Len(b) = m - n /\ \A i \in 1..m - n : b[i] = q[n + i]
  <2>1. /\ SubSeq(q, n + 1, m) \in Seq(S) /\ Len(SubSeq(q, n + 1, m)) = m - n
        /\ \A i \in 1..m - n : SubSeq(q, n + 1, m)[i] = q[n + i]
    BY <1>1, RestFacts
  <2> QED
    BY <2>1, Zenon
<1>4. /\ a \o b \in Seq(S) /\ Len(a \o b) = m
      /\ \A i \in 1..n : (a \o b)[i] = q[i]
      /\ \A i \in 1..m - n : (a \o b)[n + i] = q[n + i]
  <2>1. /\ a \o b \in Seq(S) /\ Len(a \o b) = Len(a) + Len(b)
        /\ \A i \in 1..Len(a) : (a \o b)[i] = a[i]
        /\ \A i \in 1..Len(b) : (a \o b)[Len(a) + i] = b[i]
    BY JoinFacts
  <2>2. Len(a) = n /\ Len(b) = m - n /\ n + (m - n) = m
    BY <1>1, <1>2, <1>3
  <2>3. Len(a \o b) = m
    BY <2>1, <2>2
  <2>4. \A i \in 1..n : (a \o b)[i] = q[i]
    BY <2>1, <2>2, <1>2
  <2>5. \A i \in 1..m - n : (a \o b)[n + i] = q[n + i]
    BY <2>1, <2>2, <1>3
  <2> QED
    BY <2>1, <2>3, <2>4, <2>5
<1>5. \A i \in 1..m : (a \o b)[i] = q[i]
  <2> SUFFICES ASSUME NEW i \in 1..m PROVE (a \o b)[i] = q[i]
    OBVIOUS
  <2>1. CASE i <= n
    BY <2>1, <1>4
  <2>2. CASE i > n
    <3>1. i - n \in 1..m - n /\ n + (i - n) = i
      BY <2>2, <1>1
    <3> QED
      BY <3>1, <1>4
  <2>3. i <= n \/ i > n
    BY <1>1
  <2> QED
    BY <2>1, <2>2, <2>3
<1>6. a \o b = q
  BY <1>1, <1>4, <1>5, SameFacts
<1> QED
  BY <1>1, <1>2, <1>3, <1>6

(* It does not matter how three queues are put together.                   *)
LEMMA ThreeFacts ==
  ASSUME NEW p \in Seq(Bytes), NEW q \in Seq(Bytes), NEW r \in Seq(Bytes)
  PROVE  (p \o q) \o r = p \o (q \o r)
  OBVIOUS

LEMMA JoinAppend ==
  ASSUME NEW S, NEW p \in Seq(S), NEW q \in Seq(S), NEW e \in S
  PROVE  p \o Append(q, e) = Append(p \o q, e)
  OBVIOUS

(* One more byte.                                                          *)
LEMMA ChainAppend ==
  ASSUME NEW q \in Seq(Bytes), Chain(q), NEW c \in Bytes, c.pos <= c.len,
         q = <<>> => c.pos = 1,
         q # <<>> => Follows(q[Len(q)], c)
  PROVE  Chain(Append(q, c))
<1>1. PICK n \in Nat, t \in Seq(Bytes) :
        /\ n = Len(q) /\ t = Append(q, c) /\ Len(t) = n + 1
        /\ \A i \in 1..n : t[i] = q[i]
        /\ t[n + 1] = c
  <2>1. /\ Append(q, c) \in Seq(Bytes) /\ Len(q) \in Nat
        /\ Len(Append(q, c)) = Len(q) + 1
        /\ \A i \in 1..Len(q) : Append(q, c)[i] = q[i]
        /\ Append(q, c)[Len(q) + 1] = c
    BY AppendFacts, ElementFacts
  <2> QED
    BY <2>1, Zenon
<1>2. /\ \A i \in 1..n : q[i] \in Bytes
      /\ q = <<>> <=> n = 0
  BY <1>1, ElementFacts
<1>3. \A b \in Bytes : b.pos \in Nat /\ b.len \in Nat /\ b.msg \in Nat /\ b.pos > 0
                       /\ b = Byte(b.msg, b.pos, b.len)
  BY ByteFacts
<1>4. CASE n = 0
  <2>1. \A i \in 1..n + 1 : i = n + 1
    BY <1>4
  <2>2. c.pos = 1
    BY <1>2, <1>4
  <2> QED
    BY <1>1, <1>3, <1>4, <2>1, <2>2 DEF Chain
<1>5. CASE n > 0
  <2>1. PICK b \in Bytes : b = q[n] /\ t[n] = b /\ Follows(b, c)
    <3>1. n \in 1..n /\ q # <<>>
      BY <1>2, <1>5
    <3> QED
      BY <3>1, <1>1, <1>2
  <2>2. /\ b.pos <= n /\ b.pos <= b.len
        /\ \A j \in 1..n : j - n + b.pos \in 1..b.len =>
             t[j] = Byte(b.msg, j - n + b.pos, b.len)
    <3>1. n \in 1..n
      BY <1>5
    <3> QED
      BY <3>1, <1>1, <2>1 DEF Chain
  <2>3. /\ b.pos \in Nat /\ b.len \in Nat /\ b.msg \in Nat /\ b.pos > 0
        /\ c.pos \in Nat /\ c.len \in Nat /\ c.msg \in Nat /\ c.pos > 0
    BY <1>3, <2>1
  <2>4. ASSUME NEW i \in 1..n + 1
        PROVE  t[i].pos <= i /\ t[i].pos <= t[i].len
    <3>1. CASE i \in 1..n
      <4>1. q[i].pos <= i /\ q[i].pos <= q[i].len
        BY <3>1, <1>1 DEF Chain
      <4> QED
        BY <3>1, <4>1, <1>1
    <3>2. CASE i = n + 1
      <4>1. t[i] = c
        BY <3>2, <1>1
      <4>2. c.pos = 1 \/ c.pos = b.pos + 1
        BY <2>1 DEF Follows, Byte
      <4> QED
        BY <3>2, <4>1, <4>2, <2>2, <2>3
    <3> QED
      BY <3>1, <3>2
  <2>5. ASSUME NEW i \in 1..n + 1, i < n + 1
        PROVE  Follows(t[i], t[i + 1])
    <3>1. CASE i < n
      <4>1. i \in 1..n /\ i + 1 \in 1..n
        BY <3>1
      <4> QED
        BY <4>1, <3>1, <1>1 DEF Chain
    <3>2. CASE i = n
      BY <3>2, <1>1, <2>1
    <3> QED
      BY <2>5, <3>1, <3>2
  <2>6. ASSUME NEW i \in 1..n + 1, NEW j \in 1..n + 1, j - i + t[i].pos \in 1..t[i].len
        PROVE  t[j] = Byte(t[i].msg, j - i + t[i].pos, t[i].len)
    <3>1. CASE i \in 1..n /\ j \in 1..n
      <4>1. j - i + q[i].pos \in 1..q[i].len
        BY <3>1, <2>6, <1>1
      <4>2. q[j] = Byte(q[i].msg, j - i + q[i].pos, q[i].len)
        BY <3>1, <4>1, <1>1 DEF Chain
      <4> QED
        BY <3>1, <4>2, <1>1
    <3>2. CASE i \in 1..n /\ j = n + 1
      <4>1. PICK a \in Bytes : a = q[i] /\ t[i] = a
        BY <3>2, <1>1, <1>2
      <4>0. PICK pos \in Nat, len \in Nat : pos = a.pos /\ len = a.len /\ pos > 0
        BY <4>1, <1>3
      <4>2. PICK k \in Int : k = n - i + pos
        BY <3>2
      <4>3. k + 1 = j - i + a.pos /\ k \in 1..a.len /\ k + 1 <= a.len
        <5>1. n + 1 - i + pos <= len
          BY <3>2, <4>0, <4>1, <2>6
        <5>2. n - i >= 0
          BY <3>2
        <5>3. k + 1 = j - i + pos
          BY <3>2, <4>2
        <5>4. k + 1 <= len
          BY <5>1, <4>2
        <5>5. k >= 1
          BY <5>2, <4>0, <4>2
        <5>6. k \in 1..len
          BY <5>4, <5>5
        <5> QED
          BY <4>0, <5>3, <5>4, <5>6, Zenon
      <4>4. q[n] = Byte(a.msg, k, a.len)
        <5>1. n \in 1..n /\ n - i + q[i].pos \in 1..q[i].len
          <6>1. n \in 1..n
            BY <1>5
          <6> QED
            BY <6>1, <4>0, <4>1, <4>2, <4>3, Zenon
        <5> QED
          BY <5>1, <3>2, <4>0, <4>1, <4>2, <1>1 DEF Chain
      <4>5. b.msg = a.msg /\ b.pos = k /\ b.len = a.len
        BY <4>4, <2>1 DEF Byte
      <4>6. c = Byte(a.msg, k + 1, a.len)
        BY <4>3, <4>5, <2>1, <2>3 DEF Follows
      <4>7. t[j] = c
        BY <3>2, <1>1
      <4> QED
        BY <4>6, <4>7, <4>1, <4>3
    <3>3. CASE i = n + 1 /\ j = n + 1
      <4>1. t[i] = c /\ t[j] = c /\ j - i + c.pos = c.pos
        BY <3>3, <2>3, <1>1
      <4> QED
        BY <4>1, <1>3
    <3>4. CASE i = n + 1 /\ j \in 1..n
      <4>1. t[i] = c
        BY <3>4, <1>1
      <4>2. j - (n + 1) + c.pos >= 1
        BY <4>1, <3>4, <2>6, <2>3
      <4>3. c.pos # 1
        BY <4>2, <3>4
      <4>4. c = Byte(b.msg, b.pos + 1, b.len)
        BY <4>3, <2>1 DEF Follows
      <4>5. c.pos = b.pos + 1 /\ c.msg = b.msg /\ c.len = b.len
        BY <4>4 DEF Byte
      <4>6. /\ j - n + b.pos = j - (n + 1) + c.pos
            /\ j - n + b.pos \in 1..b.len
        BY <4>1, <4>2, <4>5, <2>2, <2>3, <3>4, <2>6
      <4>7. t[j] = Byte(b.msg, j - n + b.pos, b.len)
        BY <4>6, <2>2, <3>4
      <4> QED
        BY <4>1, <4>5, <4>6, <4>7, <3>4
    <3>5. (i \in 1..n \/ i = n + 1) /\ (j \in 1..n \/ j = n + 1)
      OBVIOUS
    <3> QED
      BY <3>1, <3>2, <3>3, <3>4, <3>5
  <2>7. Chain(t)
    BY <1>1, <2>4, <2>5, <2>6 DEF Chain
  <2> QED
    BY <1>1, <2>7
<1> QED
  BY <1>4, <1>5

(* The first message in the stream, and what is left without it.           *)
LEMMA ChainDrop ==
  ASSUME NEW q \in Seq(Bytes), Chain(q), q # <<>>, NEW n \in Nat, n = q[1].len,
         Len(q) >= n
  PROVE  /\ \A k \in 1..n : q[k] = Byte(q[1].msg, k, n)
         /\ Chain(SubSeq(q, n + 1, Len(q)))
         /\ n < Len(q) => q[n + 1].msg = q[1].msg + 1 /\ q[n + 1].pos = 1
<1>1. PICK m \in Nat : m = Len(q) /\ m > 0 /\ \A i \in 1..m : q[i] \in Bytes
  BY ElementFacts
<1>2. PICK a \in Bytes : a = q[1]
  BY <1>1
<1>3. \A b \in Bytes : b.pos \in Nat /\ b.len \in Nat /\ b.msg \in Nat /\ b.pos > 0
                       /\ b.len > 0
  BY ByteFacts
<1>4. a.pos = 1 /\ a.len = n /\ n > 0
  <2>1. 1 \in 1..m
    BY <1>1
  <2> QED
    BY <2>1, <1>1, <1>2, <1>3 DEF Chain
<1>5. ASSUME NEW k \in 1..n
      PROVE  q[k] = Byte(a.msg, k, n)
  <2>1. 1 \in 1..m /\ k \in 1..m /\ k - 1 + a.pos = k
    BY <1>1, <1>4
  <2> QED
    BY <2>1, <1>1, <1>2, <1>4 DEF Chain
<1>6. ASSUME n < m
      PROVE  Follows(q[n], q[n + 1])
  <2>1. n \in 1..m
    BY <1>4, <1>6
  <2> QED
    BY <2>1, <1>1, <1>6 DEF Chain
<1>7. ASSUME n < m
      PROVE  q[n + 1].msg = a.msg + 1 /\ q[n + 1].pos = 1
  <2>1. q[n] = Byte(a.msg, n, n)
    BY <1>4, <1>5
  <2> QED
    BY <2>1, <1>6, <1>7 DEF Follows, Byte
<1>8. PICK t \in Seq(Bytes) :
        /\ t = SubSeq(q, n + 1, m) /\ Len(t) = m - n
        /\ \A i \in 1..m - n : t[i] = q[n + i]
  <2>1. n \in 0..Len(q)
    BY <1>1
  <2>2. /\ SubSeq(q, n + 1, m) \in Seq(Bytes)
        /\ Len(SubSeq(q, n + 1, m)) = m - n
        /\ \A i \in 1..m - n : SubSeq(q, n + 1, m)[i] = q[n + i]
    BY <1>1, <2>1, RestFacts
  <2> QED
    BY <2>2, Zenon
<1>9. Chain(t)
  <2>0. PICK p \in Nat : p = m - n /\ Len(t) = p /\ \A i \in 1..p : t[i] = q[n + i]
    <3>1. m - n \in Nat
      BY <1>1
    <3> QED
      BY <3>1, <1>8, Zenon
  <2> SUFFICES ASSUME NEW i \in 1..p
               PROVE  /\ t[i].pos <= i
                      /\ t[i].pos <= t[i].len
                      /\ i < p => Follows(t[i], t[i + 1])
                      /\ \A j \in 1..p :
                           j - i + t[i].pos \in 1..t[i].len =>
                             t[j] = Byte(t[i].msg, j - i + t[i].pos, t[i].len)
    BY <2>0 DEF Chain
  <2>1. n + i \in 1..m
    BY <2>0
  <2>2. PICK b \in Bytes : b = q[n + i] /\ t[i] = b
    BY <2>1, <1>1, <2>0
  <2>3. /\ b.pos <= n + i /\ b.pos <= b.len
        /\ n + i < m => Follows(b, q[n + i + 1])
        /\ \A j \in 1..m : j - (n + i) + b.pos \in 1..b.len =>
             q[j] = Byte(b.msg, j - (n + i) + b.pos, b.len)
    BY <2>1, <2>2, <1>1 DEF Chain
  <2>4. b.pos \in Nat /\ b.len \in Nat /\ b.pos > 0
    BY <1>3
  <2>5. b.pos <= i
    <3> SUFFICES ASSUME b.pos > i PROVE FALSE
      BY <2>4
    <3>0. PICK pos \in Nat, len \in Nat :
            pos = b.pos /\ len = b.len /\ pos > i /\ pos <= n + i /\ pos <= len /\ pos > 0
      BY <2>3, <2>4
    <3>1. PICK st \in Int : st = n + i - pos + 1
      BY <3>0
    <3>2. /\ st \in 1..n /\ st \in 1..m
          /\ st - (n + i) + b.pos = 1 /\ 1 \in 1..b.len
      <4>0. i \in Int
        OBVIOUS
      <4>4. st >= 1
        BY <3>0, <3>1, <4>0
      <4>6. st <= n
        <5>1. pos - i >= 1
          BY <3>0, <4>0
        <5> QED
          BY <5>1, <3>1, <4>0
      <4>1. st \in 1..n
        BY <3>1, <4>4, <4>6
      <4>2. st \in 1..m
        BY <4>1, <1>1
      <4>3. st - (n + i) + pos = 1
        BY <3>1
      <4>5. 1 \in 1..len
        BY <3>0
      <4> QED
        BY <4>1, <4>2, <4>3, <4>5, <3>0
    <3>3. q[st] = Byte(b.msg, 1, b.len)
      BY <3>2, <2>3
    <3>4. q[st] = Byte(a.msg, st, n)
      BY <3>2, <1>5
    <3>5. st = 1 /\ b.len = n
      BY <3>3, <3>4 DEF Byte
    <3> QED
      BY <3>0, <3>1, <3>5
  <2>6. i < p => Follows(t[i], t[i + 1])
    <3> SUFFICES ASSUME i < p PROVE Follows(t[i], t[i + 1])
      OBVIOUS
    <3>1. i + 1 \in 1..p /\ n + (i + 1) = n + i + 1 /\ n + i < m
      BY <2>0
    <3>2. t[i + 1] = q[n + i + 1]
      BY <3>1, <2>0
    <3> QED
      BY <3>1, <3>2, <2>2, <2>3
  <2>7. ASSUME NEW j \in 1..p, j - i + b.pos \in 1..b.len
        PROVE  t[j] = Byte(b.msg, j - i + b.pos, b.len)
    <3>1. n + j \in 1..m /\ (n + j) - (n + i) + b.pos = j - i + b.pos
      <4>1. n + j \in 1..m
        BY <2>0
      <4>2. \A pos \in Nat : (n + j) - (n + i) + pos = j - i + pos
        <5>1. i \in Int /\ j \in Int
          OBVIOUS
        <5> QED
          BY <5>1
      <4> QED
        BY <4>1, <4>2, <2>4
    <3>2. q[n + j] = Byte(b.msg, j - i + b.pos, b.len)
      BY <3>1, <2>3, <2>7
    <3> QED
      BY <3>2, <2>0
  <2> QED
    BY <2>2, <2>3, <2>5, <2>6, <2>7
<1> QED
  BY <1>1, <1>2, <1>4, <1>5, <1>7, <1>8, <1>9

-----------------------------------------------------------------------------
(* The two sides share no variable.                                        *)

InTypeOK ==
  /\ peer \in [msg : 1..MaxIn + 1, pos : 1..HeaderSize + MaxPayload,
               len : {0} \cup Sizes]
  /\ line \in Seq(Bytes)
  /\ ring \in Seq(Bytes) /\ Len(ring) <= Capacity
  /\ queued \in BOOLEAN
  /\ work \in [pc : {"off", "header", "payload"}, got : Seq(Bytes), need : 0..MaxPayload]
  /\ delivered \in Seq(0..MaxIn)
  /\ overflowed \in BOOLEAN /\ burst \in BOOLEAN

OutTypeOK ==
  /\ overlapped \in BOOLEAN
  /\ send \in [Senders -> [pc : {"idle", "write"}, msg : 0..MaxOut, at : 0..HeaderSize]]
  /\ out \in Seq([from : Senders, msg : 1..MaxOut, pos : 1..HeaderSize])
  /\ budget \in 0..MaxOut

Ordered == ~overflowed => \A i \in DOMAIN delivered : delivered[i] = i

InSide == InTypeOK /\ Ordered /\ WorkInv /\ InInv
OutSide == OutTypeOK /\ SendInv /\ OutInv

LEMMA Sides ==
  IInv <=> InSide /\ OutSide
  BY DEF IInv, InOrder, TypeOK, InSide, OutSide, InTypeOK, OutTypeOK, Ordered

LEMMA InFrame ==
  ASSUME InSide, UNCHANGED inVars
  PROVE  InSide'
<1>1. /\ peer' = peer /\ line' = line /\ ring' = ring /\ queued' = queued /\ work' = work
      /\ delivered' = delivered /\ overflowed' = overflowed /\ burst' = burst
  BY DEF inVars
<1>2. Stream' = Stream
  BY <1>1 DEF Stream
<1>3. InTypeOK' /\ Ordered' /\ WorkInv'
  BY <1>1 DEF InSide, InTypeOK, Ordered, WorkInv
<1>4. Chain(Stream) => Chain(Stream')
  BY <1>2, Zenon
<1>5. InInv'
  BY <1>1, <1>2, <1>4 DEF InSide, InInv, PayloadSize
<1> QED
  BY <1>3, <1>5 DEF InSide

LEMMA OutFrame ==
  ASSUME OutSide, UNCHANGED outVars
  PROVE  OutSide'
<1>1. send' = send /\ out' = out /\ overlapped' = overlapped /\ budget' = budget
  BY DEF outVars
<1> QED
  BY <1>1 DEF OutSide, OutTypeOK, SendInv, OutInv, FramedUnlessOverlapped, Busy

-----------------------------------------------------------------------------
(* The sending side.                                                       *)

Places == [pc : {"idle", "write"}, msg : 0..MaxOut, at : 0..HeaderSize]
OutBytes == [from : Senders, msg : 1..MaxOut, pos : 1..HeaderSize]

(* A sender that begins when no other is busy comes after a whole message. *)
LEMMA BeginStep ==
  ASSUME OutSide, NEW s \in Senders, SendBegin(s)
  PROVE  OutSide'
<1>1. /\ send \in [Senders -> Places] /\ budget \in 0..MaxOut
      /\ out \in Seq(OutBytes) /\ overlapped \in BOOLEAN
  BY DEF OutSide, OutTypeOK, Places, OutBytes
<1>2. /\ budget > 0 /\ budget' = budget - 1 /\ out' = out
      /\ send[s] = SendIdle
      /\ send' = [send EXCEPT ![s] = [pc |-> "write", msg |-> budget, at |-> 1]]
      /\ overlapped' = (overlapped \/ \E t \in Senders : send[t] # SendIdle)
  BY DEF SendBegin
<1>3. [pc |-> "write", msg |-> budget, at |-> 1] \in Places
  BY <1>1, ConstFacts DEF Places
<1>4. /\ send' \in [Senders -> Places]
      /\ send'[s] = [pc |-> "write", msg |-> budget, at |-> 1]
      /\ \A t \in Senders : t # s => send'[t] = send[t]
  BY <1>1, <1>2, <1>3
<1>5. OutTypeOK'
  <2>1. budget' \in 0..MaxOut
    BY <1>1, <1>2, ConstFacts
  <2>2. overlapped' \in BOOLEAN
    BY <1>2, Zenon
  <2> QED
    BY <2>1, <2>2, <1>1, <1>2, <1>4 DEF OutTypeOK, Places, OutBytes
<1>6. SendInv'
  <2>1. send'[s].pc = "write" /\ send'[s].at > 0 /\ send'[s].msg > 0 /\ send'[s] # SendIdle
    BY <1>1, <1>2, <1>4 DEF SendIdle
  <2> QED
    BY <1>4, <2>1 DEF SendInv, OutSide, SendIdle
<1>7. OutInv'
  <2> SUFFICES ASSUME ~overlapped' PROVE OutInv'
    BY DEF OutInv
  <2>1. ~overlapped /\ Busy = {}
    BY <1>2 DEF Busy
  <2>2. \A t \in Busy' : t = s
    BY <2>1, <1>4 DEF Busy
  <2>3. send'[s].at = 1
    BY <1>4
  <2>4. FramedUnlessOverlapped'
    BY <2>1, <1>2 DEF OutSide, OutInv, FramedUnlessOverlapped
  <2>5. out = <<>> \/ out[Len(out)].pos = HeaderSize
    BY <2>1 DEF OutSide, OutInv
  <2> QED
    BY <1>2, <2>2, <2>3, <2>4, <2>5 DEF OutInv
<1> QED
  BY <1>5, <1>6, <1>7 DEF OutSide

(* Every byte but the first comes after the one before it.                 *)
LEMMA ByteStep ==
  ASSUME OutSide, NEW s \in Senders, SendByte(s)
  PROVE  OutSide'
<1> DEFINE w == [from |-> s, msg |-> send[s].msg, pos |-> send[s].at]
<1>1. /\ send \in [Senders -> Places] /\ budget \in 0..MaxOut
      /\ out \in Seq(OutBytes) /\ overlapped \in BOOLEAN
  BY DEF OutSide, OutTypeOK, Places, OutBytes
<1>2. /\ send[s].pc = "write" /\ out' = Append(out, w)
      /\ budget' = budget /\ overlapped' = overlapped
  BY DEF SendByte
<1>3. PICK at \in 1..HeaderSize, msg \in 1..MaxOut : at = send[s].at /\ msg = send[s].msg
  <2>1. send[s].at > 0 /\ send[s].msg > 0
    BY <1>2 DEF OutSide, SendInv
  <2> QED
    BY <1>1, <2>1, ConstFacts DEF Places
<1>4. w \in OutBytes /\ w = [from |-> s, msg |-> msg, pos |-> at]
  BY <1>3 DEF OutBytes
<1>5. SendIdle \in Places
  BY ConstFacts DEF Places, SendIdle
<1>6. /\ send' \in [Senders -> Places]
      /\ \A t \in Senders : t # s => send'[t] = send[t]
      /\ \/ at = HeaderSize /\ send'[s] = SendIdle
         \/ send'[s] = [pc |-> "write", msg |-> msg, at |-> at + 1] /\ at < HeaderSize
  <2>1. CASE at >= HeaderSize
    <3>1. send' = [send EXCEPT ![s] = SendIdle]
      BY <2>1, <1>3, ConstFacts DEF SendByte
    <3>2. at = HeaderSize
      BY <2>1, <1>3, ConstFacts
    <3> QED
      BY <3>1, <3>2, <1>1, <1>5
  <2>2. CASE at < HeaderSize
    <3>1. send' = [send EXCEPT ![s].at = at + 1]
      BY <2>2, <1>3, ConstFacts DEF SendByte, Following
    <3>2. [pc |-> "write", msg |-> msg, at |-> at + 1] \in Places
      BY <2>2, ConstFacts DEF Places
    <3>3. send'[s] = [pc |-> "write", msg |-> msg, at |-> at + 1]
      BY <3>1, <1>1, <1>2, <1>3 DEF Places
    <3>4. \A t \in Senders : t # s => send'[t] = send[t]
      BY <3>1, <1>1
    <3>5. send' \in [Senders -> Places]
      BY <3>1, <3>2, <3>3, <3>4, <1>1
    <3> QED
      BY <2>2, <3>3, <3>4, <3>5
  <2>3. at >= HeaderSize \/ at < HeaderSize
    BY ConstFacts
  <2> QED
    BY <2>1, <2>2, <2>3
<1> HIDE DEF w
<1>7. PICK q \in Seq(OutBytes), n \in Nat :
        /\ q = out' /\ n = Len(out) /\ Len(q) = n + 1
        /\ \A i \in 1..n : q[i] = out[i]
        /\ q[n + 1] = w
  <2>1. /\ Append(out, w) \in Seq(OutBytes) /\ Len(out) \in Nat
        /\ Len(Append(out, w)) = Len(out) + 1
        /\ \A i \in 1..Len(out) : Append(out, w)[i] = out[i]
        /\ Append(out, w)[Len(out) + 1] = w
    BY <1>1, <1>4, AppendFacts, ElementFacts
  <2> QED
    BY <1>2, <2>1, Zenon
<1>8. OutTypeOK'
  BY <1>1, <1>2, <1>6, <1>7 DEF OutTypeOK, Places, OutBytes
<1>9. SendInv'
  <2>1. ASSUME send'[s] = [pc |-> "write", msg |-> msg, at |-> at + 1]
        PROVE  /\ send'[s].pc = "idle" <=> send'[s] = SendIdle
               /\ send'[s].pc = "write" => send'[s].at > 0 /\ send'[s].msg > 0
    BY <2>1 DEF SendIdle
  <2>2. ASSUME send'[s] = SendIdle
        PROVE  /\ send'[s].pc = "idle" <=> send'[s] = SendIdle
               /\ send'[s].pc = "write" => send'[s].at > 0 /\ send'[s].msg > 0
    BY <2>2 DEF SendIdle
  <2>3. ASSUME NEW t \in Senders
        PROVE  /\ send'[t].pc = "idle" <=> send'[t] = SendIdle
               /\ send'[t].pc = "write" => send'[t].at > 0 /\ send'[t].msg > 0
    <3>1. CASE t = s
      BY <3>1, <1>6, <2>1, <2>2
    <3>2. CASE t # s
      <4>1. send'[t] = send[t]
        BY <3>2, <1>6
      <4>2. /\ send[t].pc = "idle" <=> send[t] = SendIdle
            /\ send[t].pc = "write" => send[t].at > 0 /\ send[t].msg > 0
        BY DEF SendInv, OutSide
      <4> QED
        BY <4>1, <4>2
    <3> QED
      BY <3>1, <3>2
  <2> QED
    BY <2>3 DEF SendInv
<1>10. OutInv'
  <2> SUFFICES ASSUME ~overlapped' PROVE OutInv'
    BY DEF OutInv
  <2>1. /\ FramedUnlessOverlapped
        /\ \A r, t \in Busy : r = t
        /\ (\A t \in Busy : send[t].at = 1) =>
             out = <<>> \/ out[Len(out)].pos = HeaderSize
        /\ \A t \in Busy : send[t].at > 1 =>
             /\ out # <<>>
             /\ out[Len(out)] = [from |-> t, msg |-> send[t].msg, pos |-> send[t].at - 1]
    BY <1>2 DEF OutSide, OutInv
  <2>2. s \in Busy /\ \A t \in Busy : t = s
    <3>1. s \in Busy
      BY <1>2 DEF Busy, SendIdle
    <3> QED
      BY <3>1, <2>1
  <2>3. \A t \in Busy' : t = s
    BY <2>2, <1>6 DEF Busy
  <2>4. out = <<>> <=> n = 0
    BY <1>1, <1>7, ElementFacts
  <2>5. n > 0 => IF at = 1 THEN out[n].pos = HeaderSize
                 ELSE out[n] = [from |-> s, msg |-> msg, pos |-> at - 1]
    <3>1. CASE at = 1
      <4>1. \A t \in Busy : send[t].at = 1
        BY <3>1, <2>2, <1>3
      <4> QED
        BY <3>1, <4>1, <2>1, <2>4, <1>7
    <3>2. CASE at # 1
      <4>1. send[s].at > 1
        BY <3>2, <1>3
      <4> QED
        BY <3>2, <4>1, <2>1, <2>2, <1>3, <1>7
    <3> QED
      BY <3>1, <3>2
  <2>6. FramedUnlessOverlapped'
    <3>1. ASSUME NEW i \in 2..n + 1
          PROVE  IF q[i].pos = 1 THEN q[i - 1].pos = HeaderSize
                 ELSE q[i - 1] = [q[i] EXCEPT !.pos = @ - 1]
      <4>1. CASE i \in 2..n
        <5>1. IF out[i].pos = 1 THEN out[i - 1].pos = HeaderSize
              ELSE out[i - 1] = [out[i] EXCEPT !.pos = @ - 1]
          BY <4>1, <2>1, <1>2, <1>7 DEF FramedUnlessOverlapped
        <5>2. q[i] = out[i] /\ q[i - 1] = out[i - 1]
          BY <4>1, <1>7
        <5> QED
          BY <5>1, <5>2
      <4>2. CASE i = n + 1
        <5>1. n > 0 /\ n \in 1..n /\ i - 1 = n
          BY <4>2
        <5>2. q[i] = w /\ q[i - 1] = out[n]
          BY <4>2, <5>1, <1>7
        <5>3. w.pos = at /\ [w EXCEPT !.pos = @ - 1] = [from |-> s, msg |-> msg, pos |-> at - 1]
          BY <1>4
        <5> QED
          BY <5>1, <5>2, <5>3, <2>5
      <4> QED
        BY <4>1, <4>2
    <3> QED
      BY <3>1, <1>7 DEF FramedUnlessOverlapped
  <2>7. q[Len(q)] = [from |-> s, msg |-> msg, pos |-> at] /\ q # <<>>
    BY <1>4, <1>7
  <2>8. CASE at = HeaderSize /\ send'[s] = SendIdle
    <3>1. Busy' = {}
      BY <2>3, <2>8 DEF Busy
    <3> QED
      BY <3>1, <2>6, <2>7, <2>8, <1>7 DEF OutInv
  <2>9. CASE send'[s] = [pc |-> "write", msg |-> msg, at |-> at + 1]
    <3>1. send'[s].at = at + 1 /\ send'[s].at # 1 /\ at + 1 - 1 = at /\ send'[s].msg = msg
      BY <2>9
    <3>2. s \in Busy'
      BY <2>9 DEF Busy, SendIdle
    <3>3. out'[Len(out')] = [from |-> s, msg |-> send'[s].msg, pos |-> send'[s].at - 1]
      BY <3>1, <2>7, <1>7
    <3> QED
      BY <3>1, <3>2, <3>3, <2>3, <2>6, <2>7, <1>7 DEF OutInv
  <2> QED
    BY <1>6, <2>8, <2>9
<1> QED
  BY <1>8, <1>9, <1>10 DEF OutSide

-----------------------------------------------------------------------------
(* The receiving side.                                                     *)

(* Where a part of the stream is.                                          *)
LEMMA StreamFacts ==
  ASSUME InTypeOK
  PROVE  /\ Stream \in Seq(Bytes)
         /\ Len(work.got) \in Nat /\ Len(ring) \in Nat /\ Len(line) \in Nat
         /\ Len(Stream) = Len(work.got) + Len(ring) + Len(line)
<1>1. PICK g \in Seq(Bytes), r \in Seq(Bytes), l \in Seq(Bytes) :
        g = work.got /\ r = ring /\ l = line
  BY DEF InTypeOK
<1>2. g \o r \in Seq(Bytes) /\ Len(g \o r) = Len(g) + Len(r)
  BY JoinFacts
<1>3. (g \o r) \o l \in Seq(Bytes) /\ Len((g \o r) \o l) = Len(g \o r) + Len(l)
  BY <1>2, JoinFacts
<1>4. Len(g) \in Nat /\ Len(r) \in Nat /\ Len(l) \in Nat
  BY ElementFacts
<1> QED
  BY <1>1, <1>2, <1>3, <1>4 DEF Stream

(* A byte on the line is a byte at the end of the stream.                  *)
LEMMA PeerStep ==
  ASSUME InSide, NEW len \in Sizes, PeerByte(len)
  PROVE  InSide'
<1>1. /\ peer \in [msg : 1..MaxIn + 1, pos : 1..HeaderSize + MaxPayload,
                   len : {0} \cup Sizes]
      /\ line \in Seq(Bytes) /\ ring \in Seq(Bytes) /\ work.got \in Seq(Bytes)
  BY DEF InSide, InTypeOK
<1>2. /\ ring' = ring /\ queued' = queued /\ work' = work /\ delivered' = delivered
      /\ overflowed' = overflowed /\ burst' = burst
  BY DEF PeerByte
<1>3. PICK msg, pos, c :
        /\ msg \in Nat /\ pos \in Nat
        /\ msg = peer.msg /\ pos = peer.pos /\ msg \in 1..MaxIn /\ pos >= 1
        /\ pos = 1 \/ len = peer.len
        /\ c = Byte(msg, pos, len)
        /\ line' = Append(line, c)
        /\ peer' = IF pos = len THEN Byte(msg + 1, 1, 0) ELSE Byte(msg, pos + 1, len)
  BY <1>1, ConstFacts DEF PeerByte
<1>4. len \in Nat /\ len > 0 /\ len <= HeaderSize + MaxPayload
  BY ConstFacts DEF Sizes
<1>5. pos <= len
  BY <1>3, <1>4 DEF InSide, WorkInv
<1>6. c \in Bytes /\ c.pos = pos /\ c.msg = msg /\ c.len = len
  BY <1>3, <1>4, <1>5, ConstFacts DEF Bytes, Byte
<1>7. line' \in Seq(Bytes)
  BY <1>1, <1>3, <1>6, AppendFacts
<1>8. /\ peer' \in [msg : 1..MaxIn + 1, pos : 1..HeaderSize + MaxPayload,
                    len : {0} \cup Sizes]
      /\ peer'.pos = 1 \/ peer'.pos <= peer'.len
  <2>1. CASE pos = len
    <3>1. msg + 1 \in 1..MaxIn + 1 /\ 1 \in 1..HeaderSize + MaxPayload
      BY <1>3, ConstFacts
    <3> QED
      BY <2>1, <3>1, <1>3 DEF Byte
  <2>2. CASE pos # len
    <3>1. /\ msg \in 1..MaxIn + 1 /\ pos + 1 \in 1..HeaderSize + MaxPayload
          /\ pos + 1 <= len
      BY <2>2, <1>3, <1>4, <1>5, ConstFacts
    <3> QED
      BY <2>2, <3>1, <1>3 DEF Byte
  <2> QED
    BY <2>1, <2>2
<1>9. InTypeOK' /\ Ordered' /\ WorkInv'
  BY <1>2, <1>7, <1>8 DEF InSide, InTypeOK, Ordered, WorkInv, Capacity
<1>10. InInv'
  <2> SUFFICES ASSUME ~overflowed' PROVE InInv'
    BY DEF InInv
  <2>1. PICK q \in Seq(Bytes) : q = Stream
    BY StreamFacts DEF InSide
  <2>2. Stream' = Append(q, c)
    <3>1. PICK p \in Seq(Bytes) : p = work.got \o ring
      BY <1>1, JoinFacts
    <3>2. p \o Append(line, c) = Append(p \o line, c)
      <4>1. PICK l \in Seq(Bytes) : l = line
        BY <1>1
      <4>2. p \o Append(l, c) = Append(p \o l, c)
        BY <1>6, JoinAppend
      <4> QED
        BY <4>1, <4>2
    <3> QED
      BY <3>1, <3>2, <2>1, <1>2, <1>3 DEF Stream
  <2>3. /\ Chain(q)
        /\ q # <<>> => q[1].msg = Len(delivered) + 1
        /\ q # <<>> => Follows(q[Len(q)], peer)
        /\ q = <<>> => pos = 1 /\ msg = Len(delivered) + 1
        /\ work.pc = "payload" => work.need = PayloadSize(work.got)
    BY <1>2, <1>3, <2>1 DEF InSide, InInv
  <2>4. q # <<>> => Follows(q[Len(q)], c)
    <3> SUFFICES ASSUME q # <<>> PROVE Follows(q[Len(q)], c)
      OBVIOUS
    <3>1. PICK b \in Bytes : b = q[Len(q)]
      BY ElementFacts
    <3>2. Follows(b, peer)
      BY <2>3, <3>1
    <3>3. b.pos \in Nat /\ b.pos > 0 /\ b.len \in Nat
      BY ByteFacts
    <3>4. CASE b.pos = b.len
      BY <3>1, <3>2, <3>4, <1>3, <1>6 DEF Follows
    <3>5. CASE b.pos # b.len
      <4>1. peer = Byte(b.msg, b.pos + 1, b.len)
        BY <3>2, <3>5 DEF Follows
      <4>2. pos = b.pos + 1 /\ msg = b.msg /\ peer.len = b.len
        BY <4>1, <1>3 DEF Byte
      <4>3. len = b.len
        BY <4>2, <3>3, <1>3
      <4> QED
        BY <3>1, <3>5, <4>2, <4>3, <1>3 DEF Follows
    <3> QED
      BY <3>4, <3>5
  <2>5. Chain(Append(q, c))
    BY <2>3, <2>4, <1>5, <1>6, ChainAppend
  <2>6. PICK t \in Seq(Bytes), n \in Nat :
          /\ t = Append(q, c) /\ n = Len(q) /\ Len(t) = n + 1 /\ t # <<>>
          /\ \A i \in 1..n : t[i] = q[i]
          /\ t[n + 1] = c
    <3>1. /\ Append(q, c) \in Seq(Bytes) /\ Len(q) \in Nat
          /\ Len(Append(q, c)) = Len(q) + 1 /\ Append(q, c) # <<>>
          /\ \A i \in 1..Len(q) : Append(q, c)[i] = q[i]
          /\ Append(q, c)[Len(q) + 1] = c
      BY <1>6, AppendFacts, ElementFacts
    <3> QED
      BY <3>1, Zenon
  <2>7. t[1].msg = Len(delivered) + 1
    <3>1. CASE q = <<>>
      <4>1. n + 1 = 1
        BY <3>1, <2>6, ElementFacts
      <4> QED
        BY <3>1, <4>1, <2>3, <2>6, <1>6
    <3>2. CASE q # <<>>
      <4>1. 1 \in 1..n
        BY <3>2, <2>6, ElementFacts
      <4> QED
        BY <3>2, <4>1, <2>3, <2>6
    <3> QED
      BY <3>1, <3>2
  <2>8. Follows(c, peer')
    BY <1>3, <1>6 DEF Follows, Byte
  <2>9. Chain(Stream')
    BY <2>2, <2>5, Zenon
  <2>10. /\ Stream' # <<>> /\ Stream'[1].msg = Len(delivered') + 1
         /\ Stream'[Len(Stream')] = c
    BY <1>2, <2>2, <2>6, <2>7
  <2>11. work'.pc = "payload" => work'.need = PayloadSize(work'.got)
    BY <2>3, <1>2
  <2> QED
    BY <2>8, <2>9, <2>10, <2>11 DEF InInv, PayloadSize
<1> QED
  BY <1>9, <1>10 DEF InSide

(* An interrupt that loses no byte leaves the stream as it is.             *)
LEMMA IsrStep ==
  ASSUME InSide, Isr
  PROVE  InSide'
<1>1. /\ line \in Seq(Bytes) /\ ring \in Seq(Bytes) /\ work.got \in Seq(Bytes)
      /\ overflowed \in BOOLEAN /\ queued \in BOOLEAN /\ burst \in BOOLEAN
  BY DEF InSide, InTypeOK
<1>2. PICK all \in Seq(Bytes), n \in Nat : all = ring \o line /\ n = Len(all)
  BY <1>1, JoinFacts, ElementFacts
<1>3. /\ line' = <<>> /\ ring' = Fit(all)
      /\ queued' = (queued \/ HeaderIn(ring'))
      /\ overflowed' = (overflowed \/ n > Capacity)
      /\ burst' = (burst \/ Cardinality({all[i].msg : i \in DOMAIN all}) > 1)
      /\ peer' = peer /\ work' = work /\ delivered' = delivered
  BY <1>2 DEF Isr
<1>4. Capacity \in Nat
  BY ConstFacts DEF Capacity
<1>5. ring' \in Seq(Bytes) /\ Len(ring') <= Capacity /\ (n <= Capacity => ring' = all)
  <2>1. CASE n <= Capacity
    BY <2>1, <1>2, <1>3 DEF Fit
  <2>2. CASE n > Capacity
    <3>1. PICK k \in 0..n : k = n - Capacity /\ n - k = Capacity
      BY <2>2, <1>4
    <3>2. /\ SubSeq(all, k + 1, n) \in Seq(Bytes)
          /\ Len(SubSeq(all, k + 1, n)) = n - k
      BY <3>1, <1>2, RestFacts
    <3>3. ring' = SubSeq(all, k + 1, n)
      <4>1. ~(Len(all) <= Capacity)
        BY <2>2, <1>2, <1>4
      <4>2. Fit(all) = SubSeq(all, Len(all) - Capacity + 1, Len(all))
        BY <4>1, Zenon DEF Fit
      <4>3. Len(all) - Capacity = k
        BY <3>1, <1>2
      <4> QED
        BY <4>2, <4>3, <1>2, <1>3, Zenon
    <3> QED
      BY <2>2, <3>1, <3>2, <3>3, <1>4
  <2> QED
    BY <2>1, <2>2, <1>4
<1>6. queued' \in BOOLEAN /\ overflowed' \in BOOLEAN /\ burst' \in BOOLEAN
  BY <1>3, Zenon
<1>7. InTypeOK' /\ WorkInv'
  BY <1>3, <1>5, <1>6 DEF InSide, InTypeOK, WorkInv, Capacity
<1>8. Ordered'
  BY <1>3 DEF InSide, Ordered
<1>9. InInv'
  <2> SUFFICES ASSUME ~overflowed' PROVE InInv'
    BY DEF InInv
  <2>1. ~overflowed /\ ring' = all
    <3>1. ~overflowed /\ ~(n > Capacity)
      BY <1>3, Zenon
    <3> QED
      BY <3>1, <1>4, <1>5
  <2>2. Stream' = Stream
    <3>1. (work.got \o ring) \o line = work.got \o (ring \o line)
      <4>1. PICK g \in Seq(Bytes), r \in Seq(Bytes), l \in Seq(Bytes) :
              g = work.got /\ r = ring /\ l = line
        BY <1>1
      <4>2. (g \o r) \o l = g \o (r \o l)
        BY ThreeFacts
      <4> QED
        BY <4>1, <4>2
    <3>2. PICK p \in Seq(Bytes) : p = work.got \o all
      BY <1>1, <1>2, JoinFacts
    <3>3. p \o <<>> = p
      OBVIOUS
    <3> QED
      BY <3>1, <3>2, <3>3, <2>1, <1>2, <1>3 DEF Stream
  <2>3. Chain(Stream')
    <3>1. Chain(Stream)
      BY <2>1 DEF InSide, InInv
    <3> QED
      BY <2>2, <3>1, Zenon
  <2> QED
    BY <1>3, <2>1, <2>2, <2>3 DEF InSide, InInv, PayloadSize
<1> QED
  BY <1>7, <1>8, <1>9 DEF InSide

LEMMA StartStep ==
  ASSUME InSide, WorkStart
  PROVE  InSide'
<1>1. /\ work.pc = "off" /\ work' = [pc |-> "header", got |-> <<>>, need |-> 0]
      /\ queued' = FALSE
      /\ peer' = peer /\ line' = line /\ ring' = ring /\ delivered' = delivered
      /\ overflowed' = overflowed /\ burst' = burst
  BY DEF WorkStart, WorkIdle
<1>2. work.got = <<>>
  BY <1>1 DEF InSide, WorkInv
<1>3. Stream' = Stream
  BY <1>1, <1>2 DEF Stream
<1>4. InTypeOK'
  <2>1. work' \in [pc : {"off", "header", "payload"}, got : Seq(Bytes), need : 0..MaxPayload]
    <3>1. <<>> \in Seq(Bytes) /\ 0 \in 0..MaxPayload
      BY ConstFacts
    <3> QED
      BY <1>1, <3>1
  <2> QED
    BY <1>1, <2>1 DEF InSide, InTypeOK, Capacity
<1>5. Ordered' /\ WorkInv'
  BY <1>1 DEF InSide, Ordered, WorkInv
<1>6. Chain(Stream) => Chain(Stream')
  BY <1>3, Zenon
<1>7. InInv'
  BY <1>1, <1>3, <1>6 DEF InSide, InInv
<1> QED
  BY <1>4, <1>5, <1>7 DEF InSide

(* The stream begins at the beginning of a message.                        *)
LEMMA ChainFirst ==
  ASSUME NEW q \in Seq(Bytes), Chain(q), q # <<>>
  PROVE  \A k \in 1..Len(q) : k <= q[1].len => q[k] = Byte(q[1].msg, k, q[1].len)
<1>1. PICK m \in Nat : m = Len(q) /\ m > 0 /\ \A i \in 1..m : q[i] \in Bytes
  BY ElementFacts
<1>2. PICK a \in Bytes : a = q[1]
  BY <1>1
<1>3. a.pos = 1 /\ a.len \in Nat
  <2>1. 1 \in 1..m
    BY <1>1
  <2> QED
    BY <2>1, <1>1, <1>2, ByteFacts DEF Chain
<1>4. ASSUME NEW k \in 1..m, k <= a.len
      PROVE  q[k] = Byte(a.msg, k, a.len)
  <2>1. 1 \in 1..m /\ k - 1 + a.pos = k /\ k \in 1..a.len
    BY <1>1, <1>3, <1>4
  <2> QED
    BY <2>1, <1>1, <1>2 DEF Chain
<1> QED
  BY <1>1, <1>2, <1>4

(* A stream without its beginning.                                         *)
LEMMA BehindFacts ==
  ASSUME NEW S, NEW p \in Seq(S), NEW q \in Seq(S)
  PROVE  SubSeq(p \o q, Len(p) + 1, Len(p \o q)) = q
<1>1. PICK t \in Seq(S), m \in Nat, n \in Nat :
        /\ t = p \o q /\ m = Len(p) /\ n = Len(q) /\ Len(t) = m + n
        /\ \A i \in 1..n : t[m + i] = q[i]
  <2>1. /\ p \o q \in Seq(S) /\ Len(p) \in Nat /\ Len(q) \in Nat
        /\ Len(p \o q) = Len(p) + Len(q)
        /\ \A i \in 1..Len(q) : (p \o q)[Len(p) + i] = q[i]
    BY JoinFacts, ElementFacts
  <2> QED
    BY <2>1, Zenon
<1>2. m \in 0..Len(t) /\ Len(t) - m = n
  BY <1>1
<1>3. PICK u \in Seq(S) :
        /\ u = SubSeq(t, m + 1, Len(t)) /\ Len(u) = Len(t) - m
        /\ \A i \in 1..Len(t) - m : u[i] = t[m + i]
  <2>1. /\ SubSeq(t, m + 1, Len(t)) \in Seq(S)
        /\ Len(SubSeq(t, m + 1, Len(t))) = Len(t) - m
        /\ \A i \in 1..Len(t) - m : SubSeq(t, m + 1, Len(t))[i] = t[m + i]
    BY <1>2, RestFacts
  <2> QED
    BY <2>1, Zenon
<1>4. Len(u) = Len(q) /\ \A i \in 1..Len(u) : u[i] = q[i]
  BY <1>1, <1>2, <1>3
<1>5. u = q
  BY <1>4, SameFacts
<1> QED
  BY <1>1, <1>3, <1>5

(* The header that is taken is that of the message that is due.            *)
LEMMA HeaderStep ==
  ASSUME InSide, WorkHeader
  PROVE  InSide'
<1>1. /\ line \in Seq(Bytes) /\ ring \in Seq(Bytes) /\ Len(ring) <= Capacity
      /\ delivered \in Seq(0..MaxIn)
  BY DEF InSide, InTypeOK
<1>2. /\ work.pc = "header" /\ Len(ring) >= HeaderSize
      /\ peer' = peer /\ line' = line /\ queued' = queued /\ delivered' = delivered
      /\ overflowed' = overflowed /\ burst' = burst
  BY DEF WorkHeader
<1>3. work.got = <<>>
  BY <1>2 DEF InSide, WorkInv
<1>4. PICK n \in Nat : n = Len(ring) /\ HeaderSize \in 0..n /\ HeaderSize <= n
  BY <1>1, <1>2, ElementFacts, ConstFacts
<1>5. PICK got \in Seq(Bytes) :
        /\ got = Oldest(HeaderSize) /\ Len(got) = HeaderSize
        /\ \A i \in 1..HeaderSize : got[i] = ring[i]
  <2>1. /\ SubSeq(ring, 1, HeaderSize) \in Seq(Bytes)
        /\ Len(SubSeq(ring, 1, HeaderSize)) = HeaderSize
        /\ \A i \in 1..HeaderSize : SubSeq(ring, 1, HeaderSize)[i] = ring[i]
    BY <1>1, <1>4, PrefixFacts
  <2> QED
    BY <2>1, Zenon DEF Oldest
<1>6. PICK rest \in Seq(Bytes) :
        rest = Rest(HeaderSize) /\ rest = ring' /\ Len(rest) = n - HeaderSize
  <2>1. SubSeq(ring, HeaderSize + 1, Len(ring)) \in Seq(Bytes)
        /\ Len(SubSeq(ring, HeaderSize + 1, Len(ring))) = Len(ring) - HeaderSize
    BY <1>1, <1>4, RestFacts
  <2>2. ring' = Rest(HeaderSize)
    BY DEF WorkHeader
  <2> QED
    BY <2>1, <2>2, <1>4, Zenon DEF Rest
<1>7. got \o rest = ring
  <2>1. SubSeq(ring, 1, HeaderSize) \o SubSeq(ring, HeaderSize + 1, Len(ring)) = ring
    BY <1>1, <1>4, CutFacts
  <2> QED
    BY <2>1, <1>5, <1>6 DEF Oldest, Rest
<1>8. /\ Genuine(got) => work' = [pc |-> "payload", got |-> got, need |-> PayloadSize(got)]
      /\ ~Genuine(got) => \/ \E k \in 0..MaxPayload :
                               work' = [pc |-> "payload", got |-> got, need |-> k]
                          \/ work' = WorkIdle
  BY <1>5 DEF WorkHeader
<1>9. PayloadSize(got) \in 0..MaxPayload
  <2>1. got[1] \in Bytes
    BY <1>5, ConstFacts, ElementFacts
  <2>2. PICK len \in Nat : len = got[1].len /\ len >= HeaderSize /\ len <= HeaderSize + MaxPayload
    BY <2>1, ByteFacts, ConstFacts DEF Sizes
  <2> QED
    BY <2>2, ConstFacts DEF PayloadSize
<1>10. PICK k \in 0..MaxPayload :
         \/ work' = [pc |-> "payload", got |-> got, need |-> k]
         \/ work' = WorkIdle
  BY <1>8, <1>9
<1>11. /\ work' \in [pc : {"off", "header", "payload"}, got : Seq(Bytes), need : 0..MaxPayload]
       /\ work'.pc # "payload" => work'.got = <<>>
       /\ work'.pc = "payload" => Len(work'.got) = HeaderSize
  <2>1. 0 \in 0..MaxPayload /\ <<>> \in Seq(Bytes)
    BY ConstFacts
  <2> QED
    <3>1. CASE work' = [pc |-> "payload", got |-> got, need |-> k]
      BY <3>1, <1>5
    <3>2. CASE work' = [pc |-> "off", got |-> <<>>, need |-> 0]
      BY <3>2, <2>1
    <3> QED
      BY <3>1, <3>2, <1>10 DEF WorkIdle
<1>12. Len(rest) <= Capacity
  <2>1. Capacity \in Nat
    BY ConstFacts DEF Capacity
  <2> QED
    BY <2>1, <1>1, <1>4, <1>6, ConstFacts
<1>13. InTypeOK' /\ Ordered' /\ WorkInv'
  BY <1>2, <1>6, <1>11, <1>12 DEF InSide, InTypeOK, Ordered, WorkInv, Capacity
<1>14. InInv'
  <2> SUFFICES ASSUME ~overflowed' PROVE InInv'
    BY DEF InInv
  <2>1. PICK q \in Seq(Bytes) : q = Stream /\ Chain(q)
    BY <1>2, StreamFacts DEF InSide, InInv
  <2>2. q = (got \o rest) \o line
    <3>1. <<>> \o ring = ring
      BY <1>1
    <3> QED
      BY <3>1, <2>1, <1>3, <1>7 DEF Stream
  <2>3. \A i \in 1..HeaderSize : q[i] = got[i] /\ i \in 1..Len(q)
    <3>1. PICK r \in Seq(Bytes), l \in Seq(Bytes) : r = ring /\ l = line
      BY <1>1
    <3>2. \A i \in 1..Len(r) : (r \o l)[i] = r[i] /\ Len(r \o l) = Len(r) + Len(l)
      BY JoinFacts
    <3>3. Len(l) \in Nat
      BY ElementFacts
    <3>4. q = r \o l /\ Len(r) = n
      BY <3>1, <2>2, <1>4, <1>7
    <3>5. \A i \in 1..HeaderSize : i \in 1..n /\ i \in 1..n + Len(l)
      BY <3>3, <1>4, ConstFacts
    <3> QED
      BY <3>1, <3>2, <3>4, <3>5, <1>5
  <2>4. 1 \in 1..HeaderSize /\ q[1] = got[1] /\ q # <<>> /\ got[1] \in Bytes
    <3>1. 1 \in 1..HeaderSize
      BY ConstFacts
    <3>2. q[1] = got[1] /\ 1 \in 1..Len(q)
      BY <3>1, <2>3
    <3>3. q # <<>>
      BY <3>2, <2>1, ElementFacts
    <3>4. got[1] \in Bytes
      BY <3>1, <1>5, ElementFacts
    <3> QED
      BY <3>1, <3>2, <3>3, <3>4
  <2>5. Genuine(got)
    <3>1. \A i \in 1..HeaderSize : i <= got[1].len
      <4>1. PICK len \in Nat : len = got[1].len /\ len >= HeaderSize
        BY <2>4, ByteFacts, ConstFacts DEF Sizes
      <4> QED
        BY <4>1, ConstFacts
    <3>2. \A i \in 1..HeaderSize : q[i] = Byte(q[1].msg, i, q[1].len)
      BY <3>1, <2>1, <2>3, <2>4, ChainFirst
    <3>3. \A i \in 1..HeaderSize : got[i] = Byte(got[1].msg, i, got[1].len)
      BY <3>2, <2>3, <2>4
    <3> QED
      BY <3>3, <1>5, ElementFacts DEF Genuine
  <2>6. work' = [pc |-> "payload", got |-> got, need |-> PayloadSize(got)]
    BY <2>5, <1>8
  <2>7. Stream' = Stream
    BY <2>1, <2>2, <2>6, <1>2, <1>6 DEF Stream
  <2>8. Chain(Stream')
    BY <2>1, <2>7, Zenon
  <2> QED
    BY <1>2, <2>6, <2>7, <2>8 DEF InSide, InInv, PayloadSize
<1> QED
  BY <1>13, <1>14 DEF InSide

(* The message that is handed on is the one that was due, and the stream   *)
(* goes on with the next.                                                  *)
LEMMA PayloadStep ==
  ASSUME InSide, WorkPayload
  PROVE  InSide'
<1>1. /\ line \in Seq(Bytes) /\ ring \in Seq(Bytes) /\ Len(ring) <= Capacity
      /\ delivered \in Seq(0..MaxIn) /\ work.got \in Seq(Bytes)
      /\ work.need \in 0..MaxPayload
  BY DEF InSide, InTypeOK
<1>2. /\ work.pc = "payload" /\ Len(ring) >= work.need
      /\ ring' = Rest(work.need) /\ work' = WorkIdle
      /\ peer' = peer /\ line' = line /\ queued' = queued
      /\ overflowed' = overflowed /\ burst' = burst
  BY DEF WorkPayload
<1>3. Len(work.got) = HeaderSize
  BY <1>2 DEF InSide, WorkInv
<1>4. PICK n \in Nat, need \in Nat :
        n = Len(ring) /\ need = work.need /\ need \in 0..n /\ need <= n
  BY <1>1, <1>2, ElementFacts, ConstFacts
<1>5. PICK mid \in Seq(Bytes) : mid = Oldest(need) /\ Len(mid) = need
  <2>1. SubSeq(ring, 1, need) \in Seq(Bytes) /\ Len(SubSeq(ring, 1, need)) = need
    BY <1>1, <1>4, PrefixFacts
  <2> QED
    BY <2>1, Zenon DEF Oldest
<1>6. PICK rest \in Seq(Bytes) :
        rest = Rest(need) /\ rest = ring' /\ Len(rest) = n - need
  <2>1. SubSeq(ring, need + 1, Len(ring)) \in Seq(Bytes)
        /\ Len(SubSeq(ring, need + 1, Len(ring))) = Len(ring) - need
    BY <1>1, <1>4, RestFacts
  <2>2. ring' = Rest(need)
    BY <1>2, <1>4
  <2> QED
    BY <2>1, <2>2, <1>4, Zenon DEF Rest
<1>7. mid \o rest = ring
  <2>1. SubSeq(ring, 1, need) \o SubSeq(ring, need + 1, Len(ring)) = ring
    BY <1>1, <1>4, CutFacts
  <2> QED
    BY <2>1, <1>5, <1>6 DEF Oldest, Rest
<1>17. ASSUME NEW x \in Seq(Bytes), NEW y \in Seq(Bytes)
       PROVE  (x \o ring) \o y = (x \o mid) \o (rest \o y)
  <2>1. PICK u \in Seq(Bytes) : u = x \o mid
    BY JoinFacts
  <2>2. x \o (mid \o rest) = u \o rest
    BY <2>1, SMTT(20)
  <2>3. (u \o rest) \o y = u \o (rest \o y)
    BY ThreeFacts
  <2> QED
    BY <2>1, <2>2, <2>3, <1>7, Zenon
<1>8. PICK g \in Seq(Bytes), got \in Seq(Bytes) :
        /\ g = work.got /\ got = g \o mid /\ Len(got) = HeaderSize + need
        /\ \A i \in 1..HeaderSize : got[i] = g[i]
  <2>1. PICK g \in Seq(Bytes) : g = work.got
    BY <1>1
  <2>2. /\ g \o mid \in Seq(Bytes) /\ Len(g \o mid) = Len(g) + Len(mid)
        /\ \A i \in 1..Len(g) : (g \o mid)[i] = g[i]
    BY JoinFacts
  <2>3. Len(g) = HeaderSize
    BY <2>1, <1>3
  <2>4. Len(g \o mid) = HeaderSize + need /\ \A i \in 1..HeaderSize : (g \o mid)[i] = g[i]
    BY <2>2, <2>3, <1>5
  <2> QED
    BY <2>1, <2>2, <2>4, Zenon
<1>9. PICK e :
        /\ delivered' = Append(delivered, e)
        /\ e = IF Genuine(got) /\ Len(got) = got[1].len THEN got[1].msg ELSE 0
  BY <1>4, <1>5, <1>8 DEF WorkPayload
<1>10. 1 \in 1..HeaderSize /\ got[1] = g[1] /\ got[1] \in Bytes
  <2>1. 1 \in 1..HeaderSize /\ 1 \in 1..HeaderSize + need
    BY ConstFacts
  <2>2. got[1] \in Bytes
    BY <2>1, <1>8, ElementFacts
  <2> QED
    BY <2>1, <2>2, <1>8
<1>11. e \in 0..MaxIn
  <2>1. got[1].msg \in 0..MaxIn /\ 0 \in 0..MaxIn
    <3>1. got[1].msg \in 1..MaxIn
      BY <1>10, ByteFacts
    <3> QED
      BY <3>1, ConstFacts
  <2> QED
    BY <2>1, <1>9
<1>12. PICK d \in Seq(0..MaxIn), m \in Nat :
         /\ d = delivered' /\ m = Len(delivered) /\ Len(d) = m + 1
         /\ \A i \in 1..m : d[i] = delivered[i]
         /\ d[m + 1] = e
  <2>1. /\ Append(delivered, e) \in Seq(0..MaxIn) /\ Len(delivered) \in Nat
        /\ Len(Append(delivered, e)) = Len(delivered) + 1
        /\ \A i \in 1..Len(delivered) : Append(delivered, e)[i] = delivered[i]
        /\ Append(delivered, e)[Len(delivered) + 1] = e
    BY <1>1, <1>11, AppendFacts, ElementFacts
  <2> QED
    BY <1>9, <2>1, Zenon
<1>13. Len(rest) <= Capacity
  <2>1. Capacity \in Nat
    BY ConstFacts DEF Capacity
  <2> QED
    BY <2>1, <1>1, <1>4, <1>6
<1>14. work' = [pc |-> "off", got |-> <<>>, need |-> 0]
  BY <1>2 DEF WorkIdle
<1>15. InTypeOK' /\ WorkInv'
  <2>1. work' \in [pc : {"off", "header", "payload"}, got : Seq(Bytes), need : 0..MaxPayload]
    <3>1. 0 \in 0..MaxPayload /\ <<>> \in Seq(Bytes)
      BY ConstFacts
    <3> QED
      BY <3>1, <1>14
  <2> QED
    BY <2>1, <1>2, <1>6, <1>12, <1>13, <1>14 DEF InSide, InTypeOK, WorkInv, Capacity
<1>16. Ordered' /\ InInv'
  <2> SUFFICES ASSUME ~overflowed' PROVE Ordered' /\ InInv'
    BY DEF Ordered, InInv
  <2>1. PICK q \in Seq(Bytes) :
          /\ q = Stream /\ Chain(q)
          /\ q # <<>> => q[1].msg = m + 1
          /\ q # <<>> => Follows(q[Len(q)], peer)
          /\ need = PayloadSize(g)
    BY <1>2, <1>4, <1>8, <1>12, StreamFacts DEF InSide, InInv
  <2>2. PICK l \in Seq(Bytes), u \in Seq(Bytes) :
          /\ l = line /\ u = rest \o l /\ u = Stream' /\ q = got \o u
    <3>1. PICK l \in Seq(Bytes) : l = line
      BY <1>1
    <3>2. (g \o ring) \o l = (g \o mid) \o (rest \o l)
      BY <1>17
    <3>3. q = (g \o ring) \o l
      BY <3>1, <2>1, <1>8, Zenon DEF Stream
    <3>4. q = got \o (rest \o l)
      BY <3>2, <3>3, <1>8, Zenon
    <3>5. rest \o l \in Seq(Bytes)
      BY JoinFacts
    <3>6. Stream' = rest \o l
      <4>1. <<>> \o rest = rest
        OBVIOUS
      <4> QED
        BY <3>1, <4>1, <1>2, <1>6, <1>14 DEF Stream
    <3> QED
      BY <3>1, <3>4, <3>5, <3>6
  <2>3. PICK k \in Nat : k = HeaderSize + need /\ k > 0 /\ k = Len(got) /\ k = g[1].len
    <3>1. PICK len \in Nat : len = g[1].len
      BY <1>10, ByteFacts
    <3>2. need = len - HeaderSize
      BY <3>1, <2>1 DEF PayloadSize
    <3>3. len = HeaderSize + need /\ len > 0
      BY <3>2, ConstFacts
    <3> QED
      BY <3>1, <3>3, <1>8
  <2>4. PICK j \in Nat :
          /\ j = Len(u) /\ Len(q) = k + j
          /\ \A i \in 1..k : q[i] = got[i]
          /\ \A i \in 1..j : q[k + i] = u[i]
    <3>1. /\ Len(got \o u) = Len(got) + Len(u) /\ Len(u) \in Nat
          /\ \A i \in 1..Len(got) : (got \o u)[i] = got[i]
          /\ \A i \in 1..Len(u) : (got \o u)[Len(got) + i] = u[i]
      BY JoinFacts, ElementFacts
    <3> QED
      BY <3>1, <2>2, <2>3, Zenon
  <2>5. q # <<>> /\ q[1] = got[1] /\ q[1].len = k /\ k \in 1..k
    <3>1. k + j # 0 /\ 1 \in 1..k /\ k \in 1..k
      BY <2>3, <2>4
    <3>2. q # <<>>
      BY <3>1, <2>4, ElementFacts
    <3> QED
      BY <3>1, <3>2, <2>3, <2>4, <1>10
  <2>6. Len(q) >= k
    BY <2>4
  <2>7. /\ \A i \in 1..k : q[i] = Byte(q[1].msg, i, k)
        /\ Chain(SubSeq(q, k + 1, Len(q)))
        /\ k < Len(q) => q[k + 1].msg = q[1].msg + 1 /\ q[k + 1].pos = 1
    BY <2>1, <2>5, <2>6, ChainDrop
  <2>8. SubSeq(q, k + 1, Len(q)) = u
    <3>1. SubSeq(got \o u, Len(got) + 1, Len(got \o u)) = u
      BY BehindFacts
    <3> QED
      BY <3>1, <2>2, <2>3
  <2>9. Chain(Stream')
    BY <2>2, <2>7, <2>8, Zenon
  <2>10. e = m + 1
    <3>1. \A i \in 1..k : got[i] = Byte(got[1].msg, i, got[1].len)
      BY <2>4, <2>5, <2>7
    <3>2. DOMAIN got = 1..k
      BY <2>3, ElementFacts
    <3>3. Genuine(got)
      BY <3>1, <3>2, Zenon DEF Genuine
    <3> QED
      BY <3>3, <2>1, <2>3, <2>5, <1>9
  <2>11. Ordered'
    <3>1. \A i \in DOMAIN delivered : delivered[i] = i
      BY <1>2 DEF InSide, Ordered
    <3>2. \A i \in 1..m + 1 : d[i] = i
      <4>1. ASSUME NEW i \in 1..m + 1 PROVE d[i] = i
        <5>1. CASE i \in 1..m
          <6>1. i \in DOMAIN delivered
            BY <5>1, <1>1, <1>12, ElementFacts
          <6>2. d[i] = delivered[i]
            BY <5>1, <1>12
          <6> QED
            BY <6>1, <6>2, <3>1
        <5>2. CASE i = m + 1
          BY <5>2, <2>10, <1>12
        <5> QED
          BY <5>1, <5>2
      <4> QED
        BY <4>1
    <3>3. DOMAIN d = 1..m + 1
      BY <1>12, ElementFacts
    <3> QED
      BY <3>2, <3>3, <1>12 DEF Ordered
  <2>12. Len(delivered') + 1 = q[1].msg + 1
    BY <2>1, <2>5, <1>12
  <2>13. CASE j > 0
    <3>1. k < Len(q) /\ 1 \in 1..j /\ j \in 1..j
      BY <2>4, <2>13
    <3>2. u # <<>>
      BY <2>4, <2>13, ElementFacts
    <3>3. u[1] = q[k + 1] /\ u[j] = q[Len(q)]
      BY <3>1, <2>4
    <3>4. u[1].msg = Len(delivered') + 1
      BY <3>1, <3>3, <2>7, <2>12
    <3>5. Follows(u[Len(u)], peer')
      BY <3>3, <2>1, <2>4, <2>5, <1>2
    <3>6. work'.pc # "payload"
      BY <1>14
    <3>7. /\ Stream' # <<>> /\ Stream'[1].msg = Len(delivered') + 1
          /\ Follows(Stream'[Len(Stream')], peer')
      BY <3>2, <3>4, <3>5, <2>2, Zenon
    <3> QED
      BY <3>6, <3>7, <2>9, <2>11 DEF InInv
  <2>14. CASE j = 0
    <3>1. u = <<>> /\ Len(q) = k
      <4>1. u = <<>> <=> Len(u) = 0
        BY ElementFacts
      <4>2. Len(u) = 0 /\ Len(q) = k
        BY <2>4, <2>14
      <4> QED
        BY <4>1, <4>2
    <3>2. q[k] = Byte(q[1].msg, k, k)
      BY <2>5, <2>7
    <3>3. Follows(Byte(q[1].msg, k, k), peer)
      BY <3>1, <3>2, <2>1, <2>5
    <3>4. peer'.pos = 1 /\ peer'.msg = Len(delivered') + 1
      BY <3>3, <2>12, <1>2 DEF Follows, Byte
    <3>5. work'.pc # "payload" /\ Stream' = <<>>
      BY <3>1, <2>2, <1>14
    <3> QED
      BY <3>4, <3>5, <2>9, <2>11 DEF InInv
  <2>15. j > 0 \/ j = 0
    BY <2>4
  <2> QED
    BY <2>13, <2>14, <2>15
<1> QED
  BY <1>15, <1>16 DEF InSide

-----------------------------------------------------------------------------
(* The theorems.                                                           *)

LEMMA InitSides ==
  Init => InSide /\ OutSide
<1> SUFFICES ASSUME Init PROVE InSide /\ OutSide
  OBVIOUS
<1>1. /\ peer = [msg |-> 1, pos |-> 1, len |-> 0] /\ line = <<>> /\ ring = <<>>
      /\ queued = FALSE /\ work = [pc |-> "off", got |-> <<>>, need |-> 0]
      /\ delivered = <<>> /\ overflowed = FALSE /\ burst = FALSE
      /\ send = [s \in Senders |-> SendIdle] /\ out = <<>> /\ overlapped = FALSE
      /\ budget = MaxOut
  BY DEF Init, Byte, WorkIdle
<1>2. Capacity \in Nat /\ 0 <= Capacity
  BY ConstFacts DEF Capacity
<1>3. <<>> \in Seq(Bytes) /\ Len(<<>>) = 0 /\ <<>> \in Seq(0..MaxIn)
  OBVIOUS
<1>4. InTypeOK
  <2>1. /\ 1 \in 1..MaxIn + 1 /\ 1 \in 1..HeaderSize + MaxPayload /\ 0 \in 0..MaxPayload
    BY ConstFacts
  <2> QED
    BY <2>1, <1>1, <1>2, <1>3 DEF InTypeOK
<1>5. Ordered /\ WorkInv
  BY <1>1 DEF Ordered, WorkInv
<1>6. Stream = <<>>
  BY <1>1 DEF Stream
<1>7. InInv
  BY <1>1, <1>3, <1>6 DEF InInv, Chain
<1>8. OutTypeOK
  <2>1. SendIdle \in [pc : {"idle", "write"}, msg : 0..MaxOut, at : 0..HeaderSize]
    BY ConstFacts DEF SendIdle
  <2> QED
    <3>1. MaxOut \in 0..MaxOut /\ <<>> \in Seq([from : Senders, msg : 1..MaxOut, pos : 1..HeaderSize])
      BY ConstFacts
    <3>2. send \in [Senders -> [pc : {"idle", "write"}, msg : 0..MaxOut, at : 0..HeaderSize]]
      BY <2>1, <1>1
    <3> QED
      BY <3>1, <3>2, <1>1 DEF OutTypeOK
<1>9. SendInv
  BY <1>1 DEF SendInv, SendIdle
<1>10. OutInv
  <2>1. Busy = {}
    BY <1>1 DEF Busy
  <2> QED
    BY <2>1, <1>1, <1>3 DEF OutInv, FramedUnlessOverlapped
<1> QED
  BY <1>4, <1>5, <1>7, <1>8, <1>9, <1>10 DEF InSide, OutSide

LEMMA NextSides ==
  InSide /\ OutSide /\ [Next]_vars => InSide' /\ OutSide'
<1> SUFFICES ASSUME InSide, OutSide, [Next]_vars PROVE InSide' /\ OutSide'
  OBVIOUS
<1>1. CASE UNCHANGED vars
  BY <1>1, InFrame, OutFrame DEF vars
<1>2. CASE Peer
  <2>1. PICK len \in Sizes : PeerByte(len)
    BY <1>2 DEF Peer, Sizes
  <2>2. UNCHANGED outVars
    BY <2>1 DEF PeerByte
  <2> QED
    BY <2>1, <2>2, PeerStep, OutFrame
<1>3. CASE Isr
  <2>1. UNCHANGED outVars
    BY <1>3 DEF Isr
  <2> QED
    BY <1>3, <2>1, IsrStep, OutFrame
<1>4. CASE Work
  <2>1. UNCHANGED outVars
    BY <1>4 DEF Work, WorkStart, WorkHeader, WorkPayload
  <2>2. InSide'
    BY <1>4, StartStep, HeaderStep, PayloadStep DEF Work
  <2> QED
    BY <2>1, <2>2, OutFrame
<1>5. ASSUME NEW s \in Senders, Send(s)
      PROVE  InSide' /\ OutSide'
  <2>1. UNCHANGED inVars
    BY <1>5 DEF Send, SendBegin, SendByte
  <2>2. OutSide'
    BY <1>5, BeginStep, ByteStep DEF Send
  <2> QED
    BY <2>1, <2>2, InFrame
<1> QED
  BY <1>1, <1>2, <1>3, <1>4, <1>5 DEF Next

(* The invariant of both sides, for every number of senders and every size *)
(* (transport-uart.c:30-212).                                              *)
THEOREM Inductive == Spec => []IInv
<1>1. Init => IInv
  BY InitSides, Sides
<1>2. IInv /\ [Next]_vars => IInv'
  <2>1. IInv' <=> InSide' /\ OutSide'
    BY Sides, PTL
  <2> QED
    BY <2>1, NextSides, Sides
<1> QED
  BY <1>1, <1>2, PTL DEF Spec

(* As long as no byte of the ring was dropped, the core gets the peer's    *)
(* messages whole and in order (transport-uart.c:49-92, 179-211).          *)
THEOREM OrderCorrect == Spec => []InOrder
<1>1. IInv => InOrder
  BY DEF IInv
<1> QED
  BY <1>1, Inductive, PTL

(* What is on the line is framed, unless two sends overlap                 *)
(* (transport-uart.c:101-111, 148).                                        *)
THEOREM FramedCorrect == Spec => []FramedUnlessOverlapped
<1>1. IInv => FramedUnlessOverlapped
  BY DEF IInv, OutInv, FramedUnlessOverlapped
<1> QED
  BY <1>1, Inductive, PTL
=============================================================================
