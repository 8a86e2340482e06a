-------------------------- MODULE UartDriverProofs --------------------------
(***************************************************************************)
(* Theorems about the receiving side of the UART bridge driver, for any    *)
(* number of buffers, of chunks, of status changes and of failing calls:   *)
(* a buffer has one owner, the chunks leave in order, the rx thread finds  *)
(* a buffer for the device unless the callback raced it, and the peer      *)
(* learns the modem status.                                                *)
(***************************************************************************)
EXTENDS UartDriver, FiniteSetTheorems, TLAPS

-----------------------------------------------------------------------------
(* The inductive invariant.                                                *)

Items(q) == {q[i] : i \in 1..Len(q)}
Distinct(q) == \A i, j \in 1..Len(q) : q[i] = q[j] => i = j

(* gb_uart_init before it triggers the receiver, and the driver as long as *)
(* all its buffers are there and its rx thread runs.                       *)
Starting == {"status", "receiver", "read", "attach", "trigger"}
Pooled == {"read", "attach", "trigger", "up", "stop_rx", "join_rx"}

(* What there is in each phase of the driver's life.                       *)
LifeInv ==
  /\ life \in Starting =>
       /\ data_queue = <<>> /\ filling = NoNode /\ rx_node = NoNode
       /\ ~require_node /\ arrived = 0 /\ sent = <<>> /\ rx_sem = 0
  /\ life \in Starting \cup {"up", "stop_rx"} => ~thread_stop
  /\ life = "join_rx" => thread_stop
  /\ life \notin Starting \cup {"up", "stop_rx"} => thread_stop \/ filling = NoNode
  /\ life \in Starting \cup {"up", "stop_rx"} => held = {}
  /\ life \in {"status", "receiver"} =>
       /\ rx.pc = "off" /\ free_queue = <<>>
       /\ \A n \in Nodes : heap[n] = "none"
  /\ life \in {"read", "attach", "trigger"} => rx.pc = "wait" /\ free_queue # <<>>
  /\ life \in Pooled => \A n \in Nodes : heap[n] = "live"
  /\ life \in {"up", "stop_rx"} => rx.pc # "off"
  /\ life \notin Pooled => rx.pc = "off"
  /\ life \in {"stop_status", "join_status", "close", "closed"} => free_queue = <<>>

(* Where a buffer may be.                                                  *)
Placed(n) ==
  \/ n \in Items(free_queue) \/ n \in Items(data_queue)
  \/ n = rx.node \/ n = filling

(* A buffer is in one place, and there only while it is allocated; one     *)
(* that was lost, or was not freed at the end, is the device's last.       *)
OwnInv ==
  /\ Distinct(free_queue) /\ Distinct(data_queue)
  /\ \A n \in Items(free_queue) : n \notin Items(data_queue)
  /\ rx.node # NoNode =>
       rx.node \notin Items(free_queue) /\ rx.node \notin Items(data_queue)
  /\ filling # NoNode =>
       /\ filling \notin Items(free_queue) /\ filling \notin Items(data_queue)
       /\ filling # rx.node /\ filling = rx_node
  /\ rx.node # NoNode <=> rx.pc \in {"send", "put", "start"}
  /\ \A n \in Nodes : Placed(n) => heap[n] = "live"
  /\ life \in {"read", "attach", "trigger", "up"} /\ NoFailure => \A n \in Nodes : Placed(n)
  /\ \A n \in Nodes : heap[n] = "live" => Placed(n) \/ n \in held \/ n = rx_node
  /\ require_node /\ rx.pc # "clear" /\ rx_node # NoNode /\ heap[rx_node] = "live" =>
       Placed(rx_node) \/ rx_node \in held
  /\ thread_stop /\ filling # NoNode => filling \in held
  /\ life \notin Pooled \cup {"free_data"} => \A n \in Items(data_queue) : n \in held

(* The chunks are numbered as they arrive, through the queue and the hand  *)
(* of the rx thread to the peer, without a gap as long as no call fails.   *)
OrderInv ==
  /\ \A i, j \in 1..Len(sent) : i < j => sent[i] < sent[j]
  /\ \A i, j \in 1..Len(data_queue) : i < j => chunk[data_queue[i]] < chunk[data_queue[j]]
  /\ \A i \in 1..Len(sent) : sent[i] <= arrived
  /\ \A n \in Items(data_queue) : chunk[n] <= arrived
  /\ \A i \in 1..Len(sent), n \in Items(data_queue) : sent[i] < chunk[n]
  /\ rx.pc = "send" =>
       /\ chunk[rx.node] <= arrived
       /\ \A i \in 1..Len(sent) : sent[i] < chunk[rx.node]
       /\ \A n \in Items(data_queue) : chunk[rx.node] < chunk[n]

Hand == IF rx.pc = "send" THEN 1 ELSE 0

WholeInv ==
  life \in Starting \cup {"up"} /\ NoFailure =>
    /\ Len(sent) + Hand + Len(data_queue) = arrived
    /\ \A i \in 1..Len(sent) : sent[i] = i
    /\ rx.pc = "send" => chunk[rx.node] = Len(sent) + 1
    /\ \A i \in 1..Len(data_queue) : chunk[data_queue[i]] = Len(sent) + Hand + i

(* The semaphore counts what is queued.                                    *)
SemInv ==
  rx.pc # "off" =>
    IF rx.pc = "get" THEN Len(data_queue) <= rx_sem + 1 ELSE Len(data_queue) <= rx_sem

(* A request for a buffer comes when the device has none, and unless the   *)
(* callback raced the thread a buffer is or will be free to answer it.     *)
RequestInv ==
  /\ require_node => filling = NoNode \/ rx.pc = "clear"
  /\ rx.pc \in {"claim", "start"} => require_node
  /\ rx.pc = "start" => rx.node = rx_node
  /\ fault # "none" => fault = "null" /\ raced
  /\ ~raced /\ require_node =>
       /\ rx.pc \in {"wait", "get"} => data_queue # <<>> \/ free_queue # <<>>
       /\ rx.pc \in {"require", "claim"} => free_queue # <<>>
  /\ life = "up" /\ NoFailure /\ ~raced /\ filling = NoNode =>
       /\ require_node /\ rx.pc # "clear"
       /\ rx.pc = "wait" => rx_sem > 0

(* The modem status the callback saw is the device's, and the thread is    *)
(* woken for it.                                                           *)
StatusInv ==
  /\ attached <=> life \in {"trigger", "up"}
  /\ life \in {"status", "receiver", "read", "attach"} => ~ms_seen
  /\ attached /\ ms_seen => updated_ms = modem
  /\ status = "wait" /\ status_sem = 0 /\ ms_seen /\ NoFailure => told = updated_ms

IInv ==
  /\ TypeOK /\ LifeInv /\ OwnInv /\ OrderInv /\ WholeInv /\ SemInv /\ RequestInv /\ StatusInv

-----------------------------------------------------------------------------
(* Queues of buffers.                                                      *)

LEMMA NoSuchNode == NoNode \notin Nodes
  BY UartDriverAssumption DEF UartDriverAssumption

LEMMA EmptyFacts ==
  /\ <<>> \in Seq(Nodes) /\ Items(<<>>) = {} /\ Distinct(<<>>) /\ Len(<<>>) = 0
  BY DEF Items, Distinct

LEMMA QueueFacts ==
  ASSUME NEW q \in Seq(Nodes)
  PROVE  /\ Len(q) \in Nat
         /\ Items(q) \subseteq Nodes
         /\ \A i \in 1..Len(q) : q[i] \in Items(q)
         /\ \A n \in Items(q) : \E i \in 1..Len(q) : q[i] = n
         /\ q = <<>> <=> Len(q) = 0
         /\ q = <<>> <=> Items(q) = {}
<1>1. Len(q) \in Nat /\ DOMAIN q = 1..Len(q) /\ \A i \in 1..Len(q) : q[i] \in Nodes
  OBVIOUS
<1>2. q = <<>> <=> Len(q) = 0
  OBVIOUS
<1>3. /\ Items(q) \subseteq Nodes
      /\ \A i \in 1..Len(q) : q[i] \in Items(q)
      /\ \A n \in Items(q) : \E i \in 1..Len(q) : q[i] = n
  BY <1>1 DEF Items
<1>4. q # <<>> => 1 \in 1..Len(q)
  BY <1>1, <1>2
<1>5. q = <<>> => Items(q) = {}
  BY EmptyFacts
<1> QED
  BY <1>1, <1>2, <1>3, <1>4, <1>5

LEMMA AppendFacts ==
  ASSUME NEW S, NEW q \in Seq(S), NEW n \in S
  PROVE  /\ Append(q, n) \in Seq(S)
         /\ Append(q, n) # <<>>
         /\ Len(q) \in Nat
         /\ Len(Append(q, n)) = Len(q) + 1
         /\ \A i \in 1..Len(q) : Append(q, n)[i] = q[i]
         /\ Append(q, n)[Len(q) + 1] = n
  OBVIOUS

(* A buffer at the end of a queue.                                         *)
LEMMA PutFacts ==
  ASSUME NEW q \in Seq(Nodes), NEW n \in Nodes
  PROVE  \E t \in Seq(Nodes), m \in Nat :
           /\ t = Append(q, n) /\ t # <<>>
           /\ m = Len(q) /\ Len(t) = m + 1
           /\ \A i \in 1..m : t[i] = q[i]
           /\ t[m + 1] = n
           /\ Items(t) = Items(q) \cup {n}
           /\ Distinct(q) /\ n \notin Items(q) => Distinct(t)
<1>1. PICK m \in Nat, t \in Seq(Nodes) :
        /\ m = Len(q) /\ t = Append(q, n) /\ t # <<>> /\ Len(t) = m + 1
        /\ \A i \in 1..m : t[i] = q[i]
        /\ t[m + 1] = n
  <2>1. /\ Append(q, n) \in Seq(Nodes) /\ Append(q, n) # <<>> /\ Len(q) \in Nat
        /\ Len(Append(q, n)) = Len(q) + 1
        /\ \A i \in 1..Len(q) : Append(q, n)[i] = q[i]
        /\ Append(q, n)[Len(q) + 1] = n
    BY AppendFacts
  <2> QED
    BY <2>1, Zenon
<1>2. /\ \A i \in 1..m : q[i] \in Items(q)
      /\ \A x \in Items(q) : \E i \in 1..m : q[i] = x
      /\ \A i \in 1..m + 1 : t[i] \in Items(t)
      /\ \A x \in Items(t) : \E i \in 1..m + 1 : t[i] = x
  BY <1>1, QueueFacts
<1>3. \A i \in 1..m + 1 : i \in 1..m \/ i = m + 1
  OBVIOUS
<1>4. \A i \in 1..m : i \in 1..m + 1 /\ m + 1 \in 1..m + 1
  OBVIOUS
<1>5. Items(t) = Items(q) \cup {n}
  <2>1. ASSUME NEW x \in Items(t) PROVE x \in Items(q) \cup {n}
    BY <1>1, <1>2, <1>3
  <2>2. ASSUME NEW x \in Items(q) PROVE x \in Items(t)
    <3>1. PICK i \in 1..m : q[i] = x
      BY <1>2
    <3>2. t[i] = x /\ i \in 1..m + 1
      BY <3>1, <1>1
    <3> QED
      BY <3>2, <1>2
  <2>3. n \in Items(t)
    <3>1. m + 1 \in 1..m + 1
      OBVIOUS
    <3> QED
      BY <3>1, <1>1, <1>2
  <2> QED
    BY <2>1, <2>2, <2>3
<1>6. ASSUME Distinct(q), n \notin Items(q) PROVE Distinct(t)
  <2> SUFFICES ASSUME NEW i \in 1..m + 1, NEW j \in 1..m + 1, t[i] = t[j] PROVE i = j
    BY <1>1 DEF Distinct
  <2>1. CASE i \in 1..m /\ j \in 1..m
    BY <2>1, <1>1, <1>6 DEF Distinct
  <2>2. CASE i = m + 1 /\ j \in 1..m
    BY <2>2, <1>1, <1>2, <1>6
  <2>3. CASE j = m + 1 /\ i \in 1..m
    BY <2>3, <1>1, <1>2, <1>6
  <2> QED
    BY <2>1, <2>2, <2>3, <1>3
<1> QED
  BY <1>1, <1>5, <1>6, Zenon

(* The first buffer of a queue, and the others.                            *)
LEMMA TakeFacts ==
  ASSUME NEW q \in Seq(Nodes), q # <<>>
  PROVE  \E t \in Seq(Nodes), m \in Nat, h \in Nodes :
           /\ t = Tail(q) /\ h = Head(q) /\ h = q[1] /\ h # NoNode
           /\ Len(q) = m + 1 /\ Len(t) = m
           /\ \A i \in 1..m : t[i] = q[i + 1]
           /\ Items(q) = Items(t) \cup {h}
           /\ Distinct(q) => h \notin Items(t) /\ Distinct(t)
<1>1. PICK t \in Seq(Nodes), m \in Nat, h \in Nodes :
        /\ t = Tail(q) /\ h = Head(q) /\ h = q[1]
        /\ Len(q) = m + 1 /\ Len(t) = m
        /\ \A i \in 1..m : t[i] = q[i + 1]
  <2>1. PICK m \in Nat : Len(q) = m + 1
    OBVIOUS
  <2>2. Tail(q) \in Seq(Nodes) /\ Len(Tail(q)) = m /\ Head(q) \in Nodes /\ Head(q) = q[1]
    BY <2>1
  <2>3. \A i \in 1..m : Tail(q)[i] = q[i + 1]
    BY <2>1, <2>2
  <2> QED
    BY <2>1, <2>2, <2>3, Zenon
<1>3. /\ \A i \in 1..m : t[i] \in Items(t)
      /\ \A x \in Items(t) : \E i \in 1..m : t[i] = x
      /\ \A i \in 1..m + 1 : q[i] \in Items(q)
      /\ \A x \in Items(q) : \E i \in 1..m + 1 : q[i] = x
  BY <1>1, QueueFacts
<1>4. \A i \in 1..m : i + 1 \in 1..m + 1 /\ i + 1 # 1
  OBVIOUS
<1>5. \A i \in 1..m + 1 : i = 1 \/ (i - 1 \in 1..m /\ (i - 1) + 1 = i)
  OBVIOUS
<1>6. Items(q) = Items(t) \cup {h}
  <2>1. ASSUME NEW x \in Items(t) PROVE x \in Items(q)
    <3>1. PICK i \in 1..m : t[i] = x
      BY <1>3
    <3> QED
      BY <3>1, <1>1, <1>3, <1>4
  <2>2. h \in Items(q)
    <3>1. 1 \in 1..m + 1
      OBVIOUS
    <3> QED
      BY <3>1, <1>1, <1>3
  <2>3. ASSUME NEW x \in Items(q) PROVE x \in Items(t) \cup {h}
    <3>1. PICK i \in 1..m + 1 : q[i] = x
      BY <1>3
    <3>2. CASE i = 1
      BY <3>1, <3>2, <1>1
    <3>3. CASE i # 1
      <4>1. i - 1 \in 1..m /\ (i - 1) + 1 = i
        BY <3>3, <1>5
      <4>2. t[i - 1] = x
        BY <4>1, <3>1, <1>1
      <4> QED
        BY <4>1, <4>2, <1>3
    <3> QED
      BY <3>2, <3>3
  <2> QED
    BY <2>1, <2>2, <2>3
<1>7. ASSUME Distinct(q) PROVE h \notin Items(t) /\ Distinct(t)
  <2>1. \A i \in 1..m : t[i] # h
    <3> SUFFICES ASSUME NEW i \in 1..m, t[i] = h PROVE FALSE
      OBVIOUS
    <3>1. i + 1 \in 1..m + 1 /\ 1 \in 1..m + 1 /\ i + 1 # 1 /\ q[i + 1] = q[1]
      BY <1>1, <1>4
    <3> QED
      BY <3>1, <1>1, <1>7 DEF Distinct
  <2>2. \A i, j \in 1..m : t[i] = t[j] => i = j
    <3> SUFFICES ASSUME NEW i \in 1..m, NEW j \in 1..m, t[i] = t[j] PROVE i = j
      OBVIOUS
    <3>1. i + 1 \in 1..m + 1 /\ j + 1 \in 1..m + 1 /\ q[i + 1] = q[j + 1]
      BY <1>1, <1>4
    <3>2. i + 1 = j + 1
      BY <3>1, <1>1, <1>7 DEF Distinct
    <3> QED
      BY <3>2
  <2> QED
    BY <2>1, <2>2, <1>1, <1>3 DEF Distinct
<1>8. h # NoNode
  BY NoSuchNode
<1> QED
  BY <1>1, <1>6, <1>7, <1>8, Zenon
-----------------------------------------------------------------------------
(* Each step keeps it: first those that move no buffer.                    *)

LEMMA StatusType ==
  ASSUME budget \in [chunks : 0..MaxChunks, status : 0..MaxStatus, fail : 0..MaxFail],
         budget.status > 0, budget' = [budget EXCEPT !.status = @ - 1]
  PROVE  budget' \in [chunks : 0..MaxChunks, status : 0..MaxStatus, fail : 0..MaxFail]
<1>1. budget.status - 1 \in 0..MaxStatus
  BY UartDriverAssumption DEF UartDriverAssumption
<1> QED
  BY <1>1

LEMMA FailsType ==
  ASSUME budget \in [chunks : 0..MaxChunks, status : 0..MaxStatus, fail : 0..MaxFail],
         Fails \/ UNCHANGED budget
  PROVE  budget' \in [chunks : 0..MaxChunks, status : 0..MaxStatus, fail : 0..MaxFail]
<1>1. CASE Fails
  <2>1. budget.fail - 1 \in 0..MaxFail
    BY <1>1, UartDriverAssumption DEF Fails, UartDriverAssumption
  <2> QED
    BY <1>1, <2>1 DEF Fails
<1> QED
  BY <1>1

LEMMA ModemChangesStep == ASSUME IInv, fault = "none", ModemChanges PROVE IInv'
<1>1. TypeOK'
  <2>1. modem' \in 0..1
    <3>1. modem \in 0..1 /\ modem' = 1 - modem
      BY DEF IInv, TypeOK, ModemChanges
    <3> QED
      BY <3>1
  <2>2. budget' \in [chunks : 0..MaxChunks, status : 0..MaxStatus, fail : 0..MaxFail]
    BY StatusType DEF IInv, TypeOK, ModemChanges
  <2>3. status_sem + 1 \in Nat
    BY DEF IInv, TypeOK
  <2>4. /\ updated_ms' \in 0..1 /\ status_sem' \in Nat /\ ms_seen' \in BOOLEAN
    BY <2>1, <2>3 DEF IInv, TypeOK, ModemChanges, Stored
  <2> QED
    BY <2>1, <2>2, <2>4 DEF IInv, ModemChanges, poolVars, rxVars, TypeOK, Pointers
<1> USE NoSuchNode, UartDriverAssumption
    DEF ModemChanges, Stored, UartDriverAssumption, poolVars, rxVars, statusVars, IInv,
        TypeOK, Pointers, LifeInv, Starting, Pooled
<1>2. LifeInv'
  OBVIOUS
<1>3. OwnInv'
  BY DEF OwnInv, Placed, NoFailure
<1>4. OrderInv'
  BY DEF OrderInv
<1>5. WholeInv'
  BY DEF WholeInv, Hand, NoFailure
<1>6. SemInv'
  BY DEF SemInv
<1>7. RequestInv'
  BY DEF RequestInv, NoFailure
<1>8. StatusInv'
  BY SMTT(60) DEF StatusInv, NoFailure
<1> HIDE NoSuchNode, UartDriverAssumption
    DEF ModemChanges, Stored, UartDriverAssumption, poolVars, rxVars, statusVars,
        TypeOK, Pointers, LifeInv, Starting, Pooled
<1> QED
  BY <1>1, <1>2, <1>3, <1>4, <1>5, <1>6, <1>7, <1>8

LEMMA LineChangesStep == ASSUME IInv, fault = "none", LineChanges PROVE IInv'
<1>1. TypeOK'
  <2>1. budget' \in [chunks : 0..MaxChunks, status : 0..MaxStatus, fail : 0..MaxFail]
    BY StatusType DEF IInv, TypeOK, LineChanges
  <2>2. status_sem + 1 \in Nat
    BY DEF IInv, TypeOK
  <2> QED
    BY <2>1, <2>2 DEF IInv, LineChanges, poolVars, rxVars, TypeOK
<1> USE NoSuchNode, UartDriverAssumption
    DEF LineChanges, UartDriverAssumption, poolVars, rxVars, statusVars, IInv,
        TypeOK, Pointers, LifeInv, Starting, Pooled
<1>2. LifeInv'
  OBVIOUS
<1>3. OwnInv'
  BY DEF OwnInv, Placed, NoFailure
<1>4. OrderInv'
  BY DEF OrderInv
<1>5. WholeInv'
  BY DEF WholeInv, Hand, NoFailure
<1>6. SemInv'
  BY DEF SemInv
<1>7. RequestInv'
  BY DEF RequestInv, NoFailure
<1>8. StatusInv'
  BY DEF StatusInv, NoFailure
<1> HIDE NoSuchNode, UartDriverAssumption
    DEF LineChanges, UartDriverAssumption, poolVars, rxVars, statusVars, TypeOK,
        Pointers, LifeInv, Starting, Pooled
<1> QED
  BY <1>1, <1>2, <1>3, <1>4, <1>5, <1>6, <1>7, <1>8

LEMMA StatusWaitStep == ASSUME IInv, fault = "none", StatusWait PROVE IInv'
<1>1. TypeOK'
  BY NoSuchNode, UartDriverAssumption
  DEF StatusWait, UartDriverAssumption, poolVars, rxVars, statusVars, IInv, TypeOK,
      Pointers
<1> USE NoSuchNode, UartDriverAssumption
    DEF StatusWait, UartDriverAssumption, poolVars, rxVars, statusVars, IInv,
        TypeOK, Pointers, LifeInv, Starting, Pooled
<1>2. LifeInv'
  OBVIOUS
<1>3. OwnInv'
  BY DEF OwnInv, Placed, NoFailure
<1>4. OrderInv'
  BY DEF OrderInv
<1>5. WholeInv'
  BY DEF WholeInv, Hand, NoFailure
<1>6. SemInv'
  BY DEF SemInv
<1>7. RequestInv'
  BY DEF RequestInv, NoFailure
<1>8. StatusInv'
  BY DEF StatusInv, NoFailure
<1> HIDE NoSuchNode, UartDriverAssumption
    DEF StatusWait, UartDriverAssumption, poolVars, rxVars, statusVars, TypeOK,
        Pointers, LifeInv, Starting, Pooled
<1> QED
  BY <1>1, <1>2, <1>3, <1>4, <1>5, <1>6, <1>7, <1>8

LEMMA StatusReportStep == ASSUME IInv, fault = "none", StatusReport PROVE IInv'
<1>1. TypeOK'
  <2>1. budget' \in [chunks : 0..MaxChunks, status : 0..MaxStatus, fail : 0..MaxFail]
    BY FailsType DEF IInv, TypeOK, StatusReport
  <2> QED
    BY <2>1 DEF IInv, StatusReport, poolVars, rxVars, TypeOK, Pointers
<1> USE NoSuchNode, UartDriverAssumption
    DEF StatusReport, Fails, UartDriverAssumption, poolVars, rxVars, statusVars, IInv,
        TypeOK, Pointers, LifeInv, Starting, Pooled
<1>2. LifeInv'
  OBVIOUS
<1>3. OwnInv'
  BY DEF OwnInv, Placed, NoFailure
<1>4. OrderInv'
  BY DEF OrderInv
<1>5. WholeInv'
  BY DEF WholeInv, Hand, NoFailure
<1>6. SemInv'
  BY DEF SemInv
<1>7. RequestInv'
  BY DEF RequestInv, NoFailure
<1>8. StatusInv'
  BY DEF StatusInv, NoFailure
<1> HIDE NoSuchNode, UartDriverAssumption
    DEF StatusReport, Fails, UartDriverAssumption, poolVars, rxVars, statusVars,
        TypeOK, Pointers, LifeInv, Starting, Pooled
<1> QED
  BY <1>1, <1>2, <1>3, <1>4, <1>5, <1>6, <1>7, <1>8

LEMMA InitStatusStep == ASSUME IInv, fault = "none", InitStatus PROVE IInv'
<1>1. TypeOK'
  <2>1. budget' \in [chunks : 0..MaxChunks, status : 0..MaxStatus, fail : 0..MaxFail]
    BY FailsType DEF InitStatus, IInv, TypeOK
  <2>2. life' \in {"receiver", "close"} /\ status' \in {"wait", status}
    BY DEF InitStatus
  <2> QED
    BY <2>1, <2>2 DEF InitStatus, poolVars, rxVars, IInv, TypeOK
<1> USE NoSuchNode, UartDriverAssumption
    DEF InitStatus, Fails, UartDriverAssumption, poolVars, rxVars, statusVars, IInv,
        TypeOK, Pointers, LifeInv, Starting, Pooled
<1>2. LifeInv'
  OBVIOUS
<1>3. OwnInv'
  BY DEF OwnInv, Placed, NoFailure
<1>4. OrderInv'
  BY DEF OrderInv
<1>5. WholeInv'
  BY DEF WholeInv, Hand, NoFailure
<1>6. SemInv'
  BY DEF SemInv
<1>7. RequestInv'
  BY DEF RequestInv, NoFailure
<1>8. StatusInv'
  BY DEF StatusInv, NoFailure
<1> HIDE NoSuchNode, UartDriverAssumption
    DEF InitStatus, Fails, UartDriverAssumption, poolVars, rxVars, statusVars, TypeOK,
        Pointers, LifeInv, Starting, Pooled
<1> QED
  BY <1>1, <1>2, <1>3, <1>4, <1>5, <1>6, <1>7, <1>8

LEMMA InitReadStep == ASSUME IInv, fault = "none", InitRead PROVE IInv'
<1> USE NoSuchNode, UartDriverAssumption
    DEF InitRead, Fails, UartDriverAssumption, poolVars, rxVars, statusVars, IInv,
        TypeOK, Pointers, LifeInv, Starting, Pooled
<1>1. TypeOK'
  <2>1. budget' \in [chunks : 0..MaxChunks, status : 0..MaxStatus, fail : 0..MaxFail]
    BY FailsType
  <2> QED
    BY <2>1
<1>2. LifeInv'
  OBVIOUS
<1>3. OwnInv'
  BY DEF OwnInv, Placed, NoFailure
<1>4. OrderInv'
  BY DEF OrderInv
<1>5. WholeInv'
  BY DEF WholeInv, Hand, NoFailure
<1>6. SemInv'
  BY DEF SemInv
<1>7. RequestInv'
  BY DEF RequestInv, NoFailure
<1>8. StatusInv'
  BY DEF StatusInv, NoFailure
<1> HIDE NoSuchNode, UartDriverAssumption
    DEF InitRead, Fails, UartDriverAssumption, poolVars, rxVars, statusVars, TypeOK,
        Pointers, LifeInv, Starting, Pooled
<1> QED
  BY <1>1, <1>2, <1>3, <1>4, <1>5, <1>6, <1>7, <1>8

LEMMA InitAttachStep == ASSUME IInv, fault = "none", InitAttach PROVE IInv'
<1> USE NoSuchNode, UartDriverAssumption
    DEF InitAttach, Fails, UartDriverAssumption, poolVars, rxVars, statusVars, IInv,
        TypeOK, Pointers, LifeInv, Starting, Pooled
<1>1. TypeOK'
  <2>1. budget' \in [chunks : 0..MaxChunks, status : 0..MaxStatus, fail : 0..MaxFail]
    BY FailsType
  <2> QED
    BY <2>1
<1>2. LifeInv'
  OBVIOUS
<1>3. OwnInv'
  BY DEF OwnInv, Placed, NoFailure
<1>4. OrderInv'
  BY DEF OrderInv
<1>5. WholeInv'
  BY DEF WholeInv, Hand, NoFailure
<1>6. SemInv'
  BY DEF SemInv
<1>7. RequestInv'
  BY DEF RequestInv, NoFailure
<1>8. StatusInv'
  BY DEF StatusInv, NoFailure
<1> HIDE NoSuchNode, UartDriverAssumption
    DEF InitAttach, Fails, UartDriverAssumption, poolVars, rxVars, statusVars, TypeOK,
        Pointers, LifeInv, Starting, Pooled
<1> QED
  BY <1>1, <1>2, <1>3, <1>4, <1>5, <1>6, <1>7, <1>8

LEMMA InitTriggerStep == ASSUME IInv, fault = "none", InitTrigger PROVE IInv'
<1>1. TypeOK'
  <2>1. budget' \in [chunks : 0..MaxChunks, status : 0..MaxStatus, fail : 0..MaxFail]
    BY FailsType DEF IInv, TypeOK, InitTrigger
  <2>2. rx_sem + 1 \in Nat
    BY DEF IInv, TypeOK
  <2>3. /\ life' \in {"up", "stop_rx"} /\ require_node' \in BOOLEAN /\ rx_sem' \in Nat
        /\ attached' \in BOOLEAN
    BY <2>2 DEF IInv, TypeOK, InitTrigger
  <2> QED
    BY <2>1, <2>3 DEF IInv, InitTrigger, TypeOK, Pointers
<1> USE NoSuchNode, UartDriverAssumption
    DEF InitTrigger, Fails, UartDriverAssumption, poolVars, rxVars, statusVars, IInv,
        TypeOK, Pointers, LifeInv, Starting, Pooled
<1>2. LifeInv'
  OBVIOUS
<1>3. OwnInv'
  BY DEF OwnInv, Placed, NoFailure
<1>4. OrderInv'
  BY DEF OrderInv
<1>5. WholeInv'
  BY DEF WholeInv, Hand, NoFailure
<1>6. SemInv'
  BY DEF SemInv
<1>7. RequestInv'
  BY DEF RequestInv, NoFailure
<1>8. StatusInv'
  <2>1. CASE life' = "up"
    BY <2>1 DEF StatusInv, NoFailure
  <2>2. CASE life' = "stop_rx"
    <3>1. ~NoFailure'
      BY <2>2 DEF NoFailure
    <3> QED
      BY <2>2, <3>1 DEF StatusInv
  <2> QED
    BY <2>1, <2>2
<1> HIDE NoSuchNode, UartDriverAssumption
    DEF InitTrigger, Fails, UartDriverAssumption, poolVars, rxVars, statusVars, TypeOK,
        Pointers, LifeInv, Starting, Pooled
<1> QED
  BY <1>1, <1>2, <1>3, <1>4, <1>5, <1>6, <1>7, <1>8

LEMMA ExitStep == ASSUME IInv, fault = "none", Exit PROVE IInv'
<1>1. TypeOK'
  BY DEF Exit, poolVars, rxVars, IInv, TypeOK
<1> USE NoSuchNode, UartDriverAssumption
    DEF Exit, UartDriverAssumption, poolVars, rxVars, statusVars, IInv,
        TypeOK, Pointers, LifeInv, Starting, Pooled
<1>2. LifeInv'
  OBVIOUS
<1>3. OwnInv'
  BY DEF OwnInv, Placed, NoFailure
<1>4. OrderInv'
  BY DEF OrderInv
<1>5. WholeInv'
  BY DEF WholeInv, Hand, NoFailure
<1>6. SemInv'
  BY DEF SemInv
<1>7. RequestInv'
  BY DEF RequestInv, NoFailure
<1>8. StatusInv'
  BY DEF StatusInv, NoFailure
<1> HIDE NoSuchNode, UartDriverAssumption
    DEF Exit, UartDriverAssumption, poolVars, rxVars, statusVars, TypeOK, Pointers,
        LifeInv, Starting, Pooled
<1> QED
  BY <1>1, <1>2, <1>3, <1>4, <1>5, <1>6, <1>7, <1>8

LEMMA StopRxStep == ASSUME IInv, fault = "none", StopRx PROVE IInv'
<1>1. TypeOK'
  BY NoSuchNode, UartDriverAssumption
  DEF StopRx, Woken, UartDriverAssumption, poolVars, rxVars, statusVars, IInv, TypeOK,
      Pointers
<1> USE NoSuchNode, UartDriverAssumption
    DEF StopRx, Woken, UartDriverAssumption, poolVars, rxVars, statusVars, IInv,
        TypeOK, Pointers, LifeInv, Starting, Pooled
<1>2. LifeInv'
  OBVIOUS
<1>3. OwnInv'
  BY DEF OwnInv, Placed, NoFailure
<1>4. OrderInv'
  BY DEF OrderInv
<1>5. WholeInv'
  BY DEF WholeInv, Hand, NoFailure
<1>6. SemInv'
  BY DEF SemInv
<1>7. RequestInv'
  BY DEF RequestInv, NoFailure
<1>8. StatusInv'
  BY DEF StatusInv, NoFailure
<1> HIDE NoSuchNode, UartDriverAssumption
    DEF StopRx, Woken, UartDriverAssumption, poolVars, rxVars, statusVars, TypeOK,
        Pointers, LifeInv, Starting, Pooled
<1> QED
  BY <1>1, <1>2, <1>3, <1>4, <1>5, <1>6, <1>7, <1>8

LEMMA JoinRxStep == ASSUME IInv, fault = "none", JoinRx PROVE IInv'
<1>1. TypeOK'
  BY NoSuchNode, UartDriverAssumption
  DEF JoinRx, Joined, UartDriverAssumption, poolVars, rxVars, statusVars, IInv, TypeOK,
      Pointers
<1> USE NoSuchNode, UartDriverAssumption
    DEF JoinRx, Joined, UartDriverAssumption, poolVars, rxVars, statusVars, IInv,
        TypeOK, Pointers, LifeInv, Starting, Pooled
<1>2. LifeInv'
  OBVIOUS
<1>3. OwnInv'
  BY DEF OwnInv, Placed, NoFailure
<1>4. OrderInv'
  BY DEF OrderInv
<1>5. WholeInv'
  BY DEF WholeInv, Hand, NoFailure
<1>6. SemInv'
  BY DEF SemInv
<1>7. RequestInv'
  BY DEF RequestInv, NoFailure
<1>8. StatusInv'
  BY DEF StatusInv, NoFailure
<1> HIDE NoSuchNode, UartDriverAssumption
    DEF JoinRx, Joined, UartDriverAssumption, poolVars, rxVars, statusVars, TypeOK,
        Pointers, LifeInv, Starting, Pooled
<1> QED
  BY <1>1, <1>2, <1>3, <1>4, <1>5, <1>6, <1>7, <1>8

LEMMA StopStatusStep == ASSUME IInv, fault = "none", StopStatus PROVE IInv'
<1>1. TypeOK'
  BY NoSuchNode, UartDriverAssumption
  DEF StopStatus, Woken, UartDriverAssumption, poolVars, rxVars, statusVars, IInv,
      TypeOK, Pointers
<1> USE NoSuchNode, UartDriverAssumption
    DEF StopStatus, Woken, UartDriverAssumption, poolVars, rxVars, statusVars, IInv,
        TypeOK, Pointers, LifeInv, Starting, Pooled
<1>2. LifeInv'
  OBVIOUS
<1>3. OwnInv'
  BY DEF OwnInv, Placed, NoFailure
<1>4. OrderInv'
  BY DEF OrderInv
<1>5. WholeInv'
  BY DEF WholeInv, Hand, NoFailure
<1>6. SemInv'
  BY DEF SemInv
<1>7. RequestInv'
  BY DEF RequestInv, NoFailure
<1>8. StatusInv'
  BY DEF StatusInv, NoFailure
<1> HIDE NoSuchNode, UartDriverAssumption
    DEF StopStatus, Woken, UartDriverAssumption, poolVars, rxVars, statusVars, TypeOK,
        Pointers, LifeInv, Starting, Pooled
<1> QED
  BY <1>1, <1>2, <1>3, <1>4, <1>5, <1>6, <1>7, <1>8

LEMMA JoinStatusStep == ASSUME IInv, fault = "none", JoinStatus PROVE IInv'
<1>1. TypeOK'
  BY NoSuchNode, UartDriverAssumption
  DEF JoinStatus, UartDriverAssumption, poolVars, rxVars, statusVars, IInv, TypeOK,
      Pointers
<1> USE NoSuchNode, UartDriverAssumption
    DEF JoinStatus, UartDriverAssumption, poolVars, rxVars, statusVars, IInv,
        TypeOK, Pointers, LifeInv, Starting, Pooled
<1>2. LifeInv'
  OBVIOUS
<1>3. OwnInv'
  BY DEF OwnInv, Placed, NoFailure
<1>4. OrderInv'
  BY DEF OrderInv
<1>5. WholeInv'
  BY DEF WholeInv, Hand, NoFailure
<1>6. SemInv'
  BY DEF SemInv
<1>7. RequestInv'
  BY DEF RequestInv, NoFailure
<1>8. StatusInv'
  BY DEF StatusInv, NoFailure
<1> HIDE NoSuchNode, UartDriverAssumption
    DEF JoinStatus, UartDriverAssumption, poolVars, rxVars, statusVars, TypeOK,
        Pointers, LifeInv, Starting, Pooled
<1> QED
  BY <1>1, <1>2, <1>3, <1>4, <1>5, <1>6, <1>7, <1>8

LEMMA CloseStep == ASSUME IInv, fault = "none", Close PROVE IInv'
<1>1. TypeOK'
  BY NoSuchNode, UartDriverAssumption
  DEF Close, UartDriverAssumption, poolVars, rxVars, statusVars, IInv, TypeOK, Pointers
<1> USE NoSuchNode, UartDriverAssumption
    DEF Close, UartDriverAssumption, poolVars, rxVars, statusVars, IInv,
        TypeOK, Pointers, LifeInv, Starting, Pooled
<1>2. LifeInv'
  OBVIOUS
<1>3. OwnInv'
  BY DEF OwnInv, Placed, NoFailure
<1>4. OrderInv'
  BY DEF OrderInv
<1>5. WholeInv'
  BY DEF WholeInv, Hand, NoFailure
<1>6. SemInv'
  BY DEF SemInv
<1>7. RequestInv'
  BY DEF RequestInv, NoFailure
<1>8. StatusInv'
  BY DEF StatusInv, NoFailure
<1> HIDE NoSuchNode, UartDriverAssumption
    DEF Close, UartDriverAssumption, poolVars, rxVars, statusVars, TypeOK, Pointers,
        LifeInv, Starting, Pooled
<1> QED
  BY <1>1, <1>2, <1>3, <1>4, <1>5, <1>6, <1>7, <1>8

LEMMA RxWaitStep == ASSUME IInv, fault = "none", RxWait PROVE IInv'
<1>1. TypeOK'
  <2>1. rx' \in [pc : {"off", "wait", "get", "send", "put", "require", "claim", "start", "clear"},
                node : Pointers]
    BY DEF IInv, TypeOK, RxWait
  <2>2. rx_sem - 1 \in Nat
    BY DEF IInv, TypeOK, RxWait, Posted
  <2> QED
    BY <2>1, <2>2 DEF IInv, RxWait, poolVars, statusVars, TypeOK
<1> USE NoSuchNode, UartDriverAssumption
    DEF RxWait, Posted, UartDriverAssumption, poolVars, rxVars, statusVars, IInv,
        TypeOK, Pointers, LifeInv, Starting, Pooled
<1>2. LifeInv'
  OBVIOUS
<1>3. OwnInv'
  BY DEF OwnInv, Placed, NoFailure
<1>4. OrderInv'
  BY DEF OrderInv
<1>5. WholeInv'
  BY DEF WholeInv, Hand, NoFailure
<1>6. SemInv'
  BY DEF SemInv
<1>7. RequestInv'
  BY DEF RequestInv, NoFailure
<1>8. StatusInv'
  BY DEF StatusInv, NoFailure
<1> HIDE NoSuchNode, UartDriverAssumption
    DEF RxWait, Posted, UartDriverAssumption, poolVars, rxVars, statusVars, TypeOK,
        Pointers, LifeInv, Starting, Pooled
<1> QED
  BY <1>1, <1>2, <1>3, <1>4, <1>5, <1>6, <1>7, <1>8

LEMMA RxRequireStep == ASSUME IInv, fault = "none", RxRequire PROVE IInv'
<1>1. TypeOK'
  <2>1. rx' \in [pc : {"off", "wait", "get", "send", "put", "require", "claim", "start", "clear"},
                node : Pointers]
    BY DEF IInv, TypeOK, RxRequire
  <2> QED
    BY <2>1 DEF RxRequire, poolVars, statusVars, IInv, TypeOK
<1> USE NoSuchNode, UartDriverAssumption
    DEF RxRequire, Requested, UartDriverAssumption, poolVars, rxVars, statusVars, IInv,
        TypeOK, Pointers, LifeInv, Starting, Pooled
<1>2. LifeInv'
  OBVIOUS
<1>3. OwnInv'
  BY DEF OwnInv, Placed, NoFailure
<1>4. OrderInv'
  BY DEF OrderInv
<1>5. WholeInv'
  BY DEF WholeInv, Hand, NoFailure
<1>6. SemInv'
  BY DEF SemInv
<1>7. RequestInv'
  BY DEF RequestInv, NoFailure
<1>8. StatusInv'
  BY DEF StatusInv, NoFailure
<1> HIDE NoSuchNode, UartDriverAssumption
    DEF RxRequire, Requested, UartDriverAssumption, poolVars, rxVars, statusVars,
        TypeOK, Pointers, LifeInv, Starting, Pooled
<1> QED
  BY <1>1, <1>2, <1>3, <1>4, <1>5, <1>6, <1>7, <1>8

LEMMA RxClearStep == ASSUME IInv, fault = "none", RxClear PROVE IInv'
<1>1. TypeOK'
  <2>1. rx' \in [pc : {"off", "wait", "get", "send", "put", "require", "claim", "start", "clear"},
                node : Pointers]
    BY DEF IInv, TypeOK, RxClear
  <2>2. require_node' \in BOOLEAN
    BY DEF RxClear, ClearRequest
  <2> QED
    BY <2>1, <2>2 DEF RxClear, statusVars, IInv, TypeOK
<1> USE NoSuchNode, UartDriverAssumption
    DEF RxClear, ClearRequest, UartDriverAssumption, poolVars, rxVars, statusVars, IInv,
        TypeOK, Pointers, LifeInv, Starting, Pooled
<1>2. LifeInv'
  OBVIOUS
<1>3. OwnInv'
  BY DEF OwnInv, Placed, NoFailure
<1>4. OrderInv'
  BY DEF OrderInv
<1>5. WholeInv'
  BY DEF WholeInv, Hand, NoFailure
<1>6. SemInv'
  BY DEF SemInv
<1>7. RequestInv'
  BY DEF RequestInv, NoFailure
<1>8. StatusInv'
  BY DEF StatusInv, NoFailure
<1> HIDE NoSuchNode, UartDriverAssumption
    DEF RxClear, ClearRequest, UartDriverAssumption, poolVars, rxVars, statusVars,
        TypeOK, Pointers, LifeInv, Starting, Pooled
<1> QED
  BY <1>1, <1>2, <1>3, <1>4, <1>5, <1>6, <1>7, <1>8

-----------------------------------------------------------------------------
(* The steps that move a buffer.                                           *)

(* The buffer the device filled is queued, and the device gets a free one, *)
(* or asks for one.                                                        *)
LEMMA RxCallbackStep == ASSUME IInv, fault = "none", RxCallback PROVE IInv'
<1>1. /\ filling \in Nodes /\ filling = rx_node /\ filling # NoNode /\ filling # rx.node
      /\ filling \notin Items(free_queue) /\ filling \notin Items(data_queue)
      /\ heap[filling] = "live" /\ arrived \in Nat /\ arrived' = arrived + 1
      /\ life \notin Starting
      /\ require_node => rx.pc = "clear"
  BY NoSuchNode DEF IInv, TypeOK, Pointers, OwnInv, Placed, LifeInv, RequestInv, RxCallback
<1>2. PICK q \in Seq(Nodes), m \in Nat :
        /\ q = data_queue' /\ q # <<>>
        /\ m = Len(data_queue) /\ Len(q) = m + 1
        /\ \A i \in 1..m : q[i] = data_queue[i]
        /\ q[m + 1] = filling
        /\ Items(q) = Items(data_queue) \cup {filling}
        /\ Distinct(q)
  <2>1. data_queue \in Seq(Nodes) /\ Distinct(data_queue) /\ data_queue' = Append(data_queue, filling)
    BY <1>1 DEF IInv, TypeOK, OwnInv, RxCallback, PutNode
  <2>2. PICK q \in Seq(Nodes), m \in Nat :
          /\ q = Append(data_queue, filling) /\ q # <<>>
          /\ m = Len(data_queue) /\ Len(q) = m + 1
          /\ \A i \in 1..m : q[i] = data_queue[i]
          /\ q[m + 1] = filling
          /\ Items(q) = Items(data_queue) \cup {filling}
          /\ Distinct(data_queue) /\ filling \notin Items(data_queue) => Distinct(q)
    BY <1>1, <2>1, PutFacts, Zenon
  <2> QED
    BY <1>1, <2>1, <2>2, Zenon
<1>3. PICK t \in Seq(Nodes), h \in Nodes :
        /\ t = free_queue' /\ h = rx_node' /\ filling' \in {h, NoNode}
        /\ Distinct(t)
        /\ \/ /\ free_queue = <<>> /\ t = <<>> /\ h = filling /\ filling' = NoNode
              /\ require_node' = TRUE
              /\ raced' = (raced \/ rx.pc \in {"require", "clear"})
              /\ budget'.fail = budget.fail
           \/ /\ free_queue # <<>> /\ Items(free_queue) = Items(t) \cup {h} /\ h \notin Items(t)
              /\ require_node' = require_node /\ raced' = raced
              /\ budget'.fail = budget.fail \/ budget'.fail < budget.fail
              /\ filling' = NoNode => budget'.fail < budget.fail
  <2>1. free_queue \in Seq(Nodes) /\ Distinct(free_queue)
    BY DEF IInv, TypeOK, OwnInv
  <2>2. CASE free_queue = <<>>
    BY <1>1, <2>1, <2>2 DEF RxCallback, IInv, TypeOK
  <2>3. CASE free_queue # <<>>
    <3>1. PICK t \in Seq(Nodes), h \in Nodes :
            /\ t = Tail(free_queue) /\ h = Head(free_queue)
            /\ Items(free_queue) = Items(t) \cup {h}
            /\ h \notin Items(t) /\ Distinct(t)
      BY <2>1, <2>3, TakeFacts, Zenon
    <3>2. free_queue' = t /\ rx_node' = h /\ filling' \in {h, NoNode}
      BY <2>3, <3>1 DEF RxCallback, NextNode
    <3>3. /\ require_node' = require_node /\ raced' = raced
          /\ budget'.fail = budget.fail \/ budget'.fail < budget.fail
          /\ filling' = NoNode => budget'.fail < budget.fail
      <4>1. budget.fail \in Nat /\ NextNode # NoNode
        BY <2>3, <3>1, NoSuchNode, UartDriverAssumption
           DEF IInv, TypeOK, NextNode, UartDriverAssumption
      <4>2. require_node' = require_node /\ raced' = raced
        BY <2>3 DEF RxCallback
      <4>3. CASE filling' = NextNode /\ budget' = [budget EXCEPT !.chunks = @ - 1]
        BY <4>1, <4>2, <4>3 DEF IInv, TypeOK
      <4>4. CASE budget' = [budget EXCEPT !.chunks = @ - 1, !.fail = @ - 1]
        BY <4>1, <4>2, <4>4 DEF IInv, TypeOK
      <4> QED
        BY <2>3, <4>3, <4>4 DEF RxCallback
    <3> QED
      BY <2>3, <3>1, <3>2, <3>3, Zenon
  <2> QED
    BY <2>2, <2>3
<1>12. /\ Items(t) \subseteq Items(free_queue) /\ Items(free_queue) \subseteq Items(t) \cup {h}
       /\ h = filling \/ h \in Items(free_queue)
       /\ h \notin Items(t)
  <2>1. CASE free_queue = <<>> /\ t = <<>> /\ h = filling
    BY <1>1, <2>1, EmptyFacts
  <2>2. CASE Items(free_queue) = Items(t) \cup {h} /\ h \notin Items(t)
    BY <2>2
  <2>3. \/ free_queue = <<>> /\ t = <<>> /\ h = filling
        \/ Items(free_queue) = Items(t) \cup {h} /\ h \notin Items(t)
    BY <1>3
  <2> QED
    BY <2>1, <2>2, <2>3
<1>4. TypeOK'
  <2>1. chunk' \in [Nodes -> Nat]
    <3>1. chunk \in [Nodes -> Nat] /\ chunk' = [chunk EXCEPT ![filling] = arrived + 1]
      BY DEF RxCallback, IInv, TypeOK
    <3>2. arrived + 1 \in Nat
      BY <1>1
    <3> QED
      BY <3>1, <3>2
  <2>2. budget' \in [chunks : 0..MaxChunks, status : 0..MaxStatus, fail : 0..MaxFail]
    <3>1. budget.chunks > 0 => budget.chunks - 1 \in 0..MaxChunks
      BY UartDriverAssumption DEF IInv, TypeOK, UartDriverAssumption
    <3>2. budget.fail > 0 => budget.fail - 1 \in 0..MaxFail
      BY UartDriverAssumption DEF IInv, TypeOK, UartDriverAssumption
    <3> QED
      BY <3>1, <3>2 DEF RxCallback, IInv, TypeOK
  <2>3. held' \subseteq Nodes /\ rx_sem' \in Nat /\ arrived' \in Nat
    <3>1. held' = held \/ held' = held \cup {h}
      BY <1>3 DEF RxCallback
    <3>2. rx_sem' = rx_sem + 1 /\ rx_sem \in Nat /\ held \subseteq Nodes
      BY DEF RxCallback, IInv, TypeOK
    <3> QED
      BY <1>1, <3>1, <3>2
  <2>4. raced' \in BOOLEAN /\ require_node' \in BOOLEAN
    BY <1>3, Zenon DEF IInv, TypeOK
  <2>5. rx_node' \in Pointers /\ filling' \in Pointers
    BY <1>3 DEF Pointers
  <2>6. /\ life' = life /\ heap' = heap /\ rx' = rx /\ sent' = sent
        /\ thread_stop' = thread_stop /\ fault' = fault /\ modem' = modem
        /\ attached' = attached /\ updated_ms' = updated_ms /\ status_sem' = status_sem
        /\ last_serial_state' = last_serial_state /\ status' = status
        /\ told' = told /\ ms_seen' = ms_seen
    BY DEF RxCallback, statusVars
  <2>7. free_queue' \in Seq(Nodes) /\ data_queue' \in Seq(Nodes)
    BY <1>2, <1>3
  <2> QED
    <3>1. /\ life' \in {"status", "receiver", "read", "attach", "trigger", "up", "stop_rx",
                        "join_rx", "free_data", "free_free", "stop_status", "join_status",
                        "close", "closed"}
          /\ heap' \in [Nodes -> {"none", "live", "freed"}]
          /\ rx' \in [pc : {"off", "wait", "get", "send", "put", "require", "claim", "start",
                            "clear"},
                      node : Pointers]
          /\ sent' \in Seq(Nat) /\ thread_stop' \in BOOLEAN
      BY <2>6, Zenon DEF IInv, TypeOK
    <3>2. /\ modem' \in 0..1 /\ updated_ms' \in 0..1 /\ last_serial_state' \in 0..1
          /\ told' \in 0..1 /\ attached' \in BOOLEAN /\ ms_seen' \in BOOLEAN
          /\ status_sem' \in Nat /\ status' \in {"off", "wait", "report"}
          /\ fault' \in {"none", "null", "busy"}
      BY <2>6, Zenon DEF IInv, TypeOK
    <3> QED
      BY <2>1, <2>2, <2>3, <2>4, <2>5, <2>7, <3>1, <3>2, Zenon DEF TypeOK
<1>5. LifeInv'
  <2>1. /\ life' = life /\ heap' = heap /\ rx' = rx /\ thread_stop' = thread_stop
        /\ ~thread_stop => held' = held
    BY DEF RxCallback
  <2>2. free_queue = <<>> => free_queue' = <<>>
    BY DEF RxCallback
  <2> QED
    BY <1>1, <2>1, <2>2 DEF LifeInv, Starting, Pooled, IInv
<1>6. OwnInv'
  <2>1. /\ life' = life /\ heap' = heap /\ rx' = rx /\ thread_stop' = thread_stop
        /\ held \subseteq held'
        /\ thread_stop => h \in held'
    BY <1>3 DEF RxCallback
  <2>2. \A n \in Nodes : Placed(n) => Placed(n)' \/ n = rx_node'
    BY <1>2, <1>3, <2>1 DEF Placed
  <2>3. \A n \in Nodes : Placed(n)' => heap[n] = "live"
    BY <1>1, <1>2, <1>3, <1>12, <2>1, NoSuchNode DEF Placed, IInv, OwnInv
  <2>4. NoFailure' => NoFailure /\ \A n \in Nodes : Placed(n) => Placed(n)'
    <3>1. budget.fail \in 0..MaxFail /\ budget'.fail \in 0..MaxFail
      BY <1>4 DEF IInv, TypeOK
    <3>2. NoFailure' => budget'.fail = budget.fail
      BY <1>3, <3>1 DEF NoFailure
    <3>3. budget'.fail = budget.fail => filling' = h \/ h = filling
      BY <1>3, <3>1
    <3> QED
      BY <1>2, <1>3, <2>1, <3>2, <3>3 DEF NoFailure, Placed
  <2>5. h = filling \/ (h # filling /\ h \notin Items(q) /\ h # rx.node)
    BY <1>1, <1>2, <1>3, <1>12, NoSuchNode DEF IInv, OwnInv
  <2>6. \A n \in Items(t) : n \notin Items(q)
    BY <1>1, <1>2, <1>3, EmptyFacts DEF IInv, OwnInv
  <2>7. rx.node # NoNode => rx.node \notin Items(t) /\ rx.node \notin Items(q)
    BY <1>1, <1>2, <1>3, EmptyFacts DEF IInv, OwnInv
  <2>8. filling' # NoNode =>
          /\ filling' \notin Items(t) /\ filling' \notin Items(q)
          /\ filling' # rx.node /\ filling' = h
    BY <1>1, <1>3, <2>5 DEF IInv, OwnInv
  <2>9. \A n \in Nodes : heap[n] = "live" => Placed(n)' \/ n \in held' \/ n = rx_node'
    <3>1. \A n : n = rx_node => Placed(n)'
      BY <1>1, <1>2 DEF Placed
    <3> QED
      BY <2>1, <2>2, <3>1 DEF IInv, OwnInv
  <2>10. require_node' /\ rx.pc # "clear" => Placed(rx_node)' /\ rx_node' = rx_node
    BY <1>1, <1>2, <1>3 DEF Placed
  <2>11. thread_stop /\ filling' # NoNode => filling' \in held'
    BY <1>3, <2>1
  <2>12. life \notin Pooled \cup {"free_data"} => \A n \in Items(q) : n \in held'
    BY <1>1, <1>2, <2>1 DEF IInv, OwnInv, LifeInv
  <2> QED
    BY <1>2, <1>3, <2>1, <2>3, <2>4, <2>6, <2>7, <2>8, <2>9, <2>10, <2>11, <2>12
       DEF OwnInv, IInv
<1>7. OrderInv'
  <2>1. /\ sent' = sent /\ rx' = rx
        /\ chunk'[filling] = arrived + 1
        /\ \A n \in Nodes : n # filling => chunk'[n] = chunk[n] /\ chunk[n] \in Nat
    BY <1>1 DEF RxCallback, IInv, TypeOK
  <2>2. PICK s \in Nat :
          /\ s = Len(sent) /\ \A i \in 1..s : sent[i] \in Nat
          /\ \A i \in 1..m : data_queue[i] \in Items(data_queue)
          /\ Items(data_queue) \subseteq Nodes
    <3>1. sent \in Seq(Nat) /\ data_queue \in Seq(Nodes)
      BY DEF IInv, TypeOK
    <3>2. Len(sent) \in Nat /\ \A i \in 1..Len(sent) : sent[i] \in Nat
      BY <3>1
    <3>3. /\ \A i \in 1..Len(data_queue) : data_queue[i] \in Items(data_queue)
          /\ Items(data_queue) \subseteq Nodes
      BY <3>1, QueueFacts
    <3> QED
      BY <1>2, <3>2, <3>3, Zenon
  <2>3. /\ \A n \in Items(data_queue) : chunk'[n] = chunk[n] /\ chunk[n] \in Nat
        /\ rx.pc = "send" => rx.node \in Nodes /\ chunk'[rx.node] = chunk[rx.node]
                             /\ chunk[rx.node] \in Nat
    <3>1. rx.pc = "send" => rx.node \in Nodes
      BY DEF IInv, OwnInv, TypeOK, Pointers
    <3> QED
      BY <1>1, <2>1, <2>2, <3>1
  <2>4. /\ \A n \in Items(data_queue) : chunk[n] <= arrived
        /\ \A i \in 1..s : sent[i] <= arrived
        /\ rx.pc = "send" => chunk[rx.node] <= arrived
    BY <2>2 DEF IInv, OrderInv
  <2>5. /\ \A n \in Items(q) : chunk'[n] <= arrived'
        /\ \A i \in 1..s : sent[i] <= arrived'
        /\ rx.pc = "send" => chunk'[rx.node] <= arrived'
    BY <1>1, <1>2, <2>1, <2>2, <2>3, <2>4
  <2>6. \A i, j \in 1..m + 1 : i < j => chunk'[q[i]] < chunk'[q[j]]
    <3> SUFFICES ASSUME NEW i \in 1..m + 1, NEW j \in 1..m + 1, i < j
                 PROVE  chunk'[q[i]] < chunk'[q[j]]
      OBVIOUS
    <3>1. i \in 1..m /\ (j \in 1..m \/ j = m + 1)
      OBVIOUS
    <3>2. q[i] = data_queue[i] /\ q[i] \in Items(data_queue)
      BY <1>2, <2>2, <3>1
    <3>3. CASE j \in 1..m
      BY <1>2, <2>2, <2>3, <3>1, <3>2, <3>3 DEF IInv, OrderInv
    <3>4. CASE j = m + 1
      BY <1>1, <1>2, <2>1, <2>3, <2>4, <3>2, <3>4
    <3> QED
      BY <3>1, <3>3, <3>4
  <2>7. /\ \A i \in 1..s, n \in Items(q) : sent[i] < chunk'[n]
        /\ rx.pc = "send" => \A n \in Items(q) : chunk'[rx.node] < chunk'[n]
    BY <1>1, <1>2, <2>1, <2>2, <2>3, <2>4 DEF IInv, OrderInv
  <2>8. rx.pc = "send" => \A i \in 1..s : sent[i] < chunk'[rx.node]
    BY <2>2, <2>3 DEF IInv, OrderInv
  <2>9. \A i, j \in 1..s : i < j => sent[i] < sent[j]
    BY <2>2 DEF IInv, OrderInv
  <2> QED
    BY <1>2, <2>1, <2>2, <2>5, <2>6, <2>7, <2>8, <2>9 DEF OrderInv
<1>8. WholeInv'
  <2> SUFFICES ASSUME life = "up", NoFailure'
               PROVE  /\ Len(sent) + Hand + (m + 1) = arrived + 1
                      /\ \A i \in 1..Len(sent) : sent[i] = i
                      /\ rx.pc = "send" => chunk'[rx.node] = Len(sent) + 1
                      /\ \A i \in 1..m + 1 : chunk'[q[i]] = Len(sent) + Hand + i
    BY <1>1, <1>2 DEF WholeInv, RxCallback, Hand
  <2>1. NoFailure
    <3>1. budget.fail \in 0..MaxFail /\ budget'.fail \in 0..MaxFail
      BY <1>4 DEF IInv, TypeOK
    <3> QED
      BY <1>3, <3>1 DEF NoFailure
  <2>2. PICK s \in Nat, w \in Nat : s = Len(sent) /\ w = Hand
    BY DEF IInv, TypeOK, Hand
  <2>3. /\ s + w + m = arrived
        /\ \A i \in 1..s : sent[i] = i
        /\ rx.pc = "send" => chunk[rx.node] = s + 1
        /\ \A i \in 1..m : chunk[data_queue[i]] = s + w + i
    BY <1>2, <2>1, <2>2 DEF IInv, WholeInv
  <2>4. /\ chunk'[filling] = arrived + 1
        /\ \A n \in Nodes : n # filling => chunk'[n] = chunk[n]
    BY <1>1 DEF RxCallback, IInv, TypeOK
  <2>5. rx.pc = "send" => chunk'[rx.node] = s + 1
    <3>1. rx.pc = "send" => rx.node \in Nodes
      BY DEF IInv, OwnInv, TypeOK, Pointers
    <3> QED
      BY <1>1, <2>3, <2>4, <3>1
  <2>6. \A i \in 1..m + 1 : chunk'[q[i]] = s + w + i
    <3>1. \A i \in 1..m : data_queue[i] \in Nodes /\ data_queue[i] # filling
      BY <1>1, <1>2, QueueFacts DEF IInv, TypeOK
    <3>2. \A i \in 1..m : chunk'[q[i]] = s + w + i
      BY <1>2, <2>3, <2>4, <3>1
    <3>3. chunk'[q[m + 1]] = s + w + (m + 1)
      BY <1>1, <1>2, <2>3, <2>4
    <3>4. \A i \in 1..m + 1 : i \in 1..m \/ i = m + 1
      OBVIOUS
    <3> QED
      BY <3>2, <3>3, <3>4
  <2>7. s + w + (m + 1) = arrived + 1
    BY <1>1, <2>3
  <2> QED
    BY <2>2, <2>3, <2>5, <2>6, <2>7, Zenon
<1>9. SemInv'
  <2>1. rx' = rx /\ rx_sem' = rx_sem + 1 /\ rx_sem \in Nat
    BY DEF RxCallback, IInv, TypeOK
  <2> QED
    BY <1>2, <2>1 DEF IInv, SemInv
<1>10. RequestInv'
  <2>1. /\ rx' = rx /\ fault' = fault /\ life' = life /\ rx_sem' > 0 /\ raced \in BOOLEAN
    BY DEF RxCallback, IInv, TypeOK
  <2>2. NoFailure' => budget'.fail = budget.fail
    <3>1. budget.fail \in 0..MaxFail /\ budget'.fail \in 0..MaxFail
      BY <1>4 DEF IInv, TypeOK
    <3> QED
      BY <1>3, <3>1 DEF NoFailure
  <2>3. rx.pc \notin {"claim", "start"}
    BY <1>1 DEF IInv, RequestInv
  <2>4. CASE free_queue = <<>>
    <3>1. require_node' /\ filling' = NoNode
      BY <1>3, <2>4
    <3>2. ~raced' => ~raced /\ rx.pc \notin {"require", "clear"}
      BY <1>3, <2>4, Zenon
    <3> QED
      BY <1>2, <2>1, <2>3, <3>1, <3>2 DEF RequestInv
  <2>5. CASE free_queue # <<>>
    <3>1. require_node' = require_node /\ (filling' = NoNode => ~NoFailure')
      <4>1. budget.fail \in 0..MaxFail /\ budget'.fail \in 0..MaxFail
        BY <1>4 DEF IInv, TypeOK
      <4> QED
        BY <1>3, <2>2, <2>5, <4>1
    <3> QED
      BY <1>1, <2>1, <2>3, <3>1 DEF RequestInv
  <2> QED
    BY <2>4, <2>5
<1>11. StatusInv'
  <2>1. NoFailure' => NoFailure
    <3>1. budget.fail \in 0..MaxFail /\ budget'.fail \in 0..MaxFail
      BY <1>4 DEF IInv, TypeOK
    <3> QED
      BY <1>3, <3>1 DEF NoFailure
  <2> QED
    BY <2>1 DEF RxCallback, statusVars, IInv, StatusInv
<1> QED
  BY <1>4, <1>5, <1>6, <1>7, <1>8, <1>9, <1>10, <1>11 DEF IInv

(* The first buffer of the queue is in the hand of the rx thread.          *)
LEMMA RxGetStep == ASSUME IInv, fault = "none", RxGet PROVE IInv'
<1>1. /\ rx.pc = "get" /\ rx.node = NoNode /\ life \in Pooled /\ fault' = fault
      /\ life' = life /\ heap' = heap /\ free_queue' = free_queue /\ rx_node' = rx_node
      /\ filling' = filling /\ require_node' = require_node /\ chunk' = chunk
      /\ rx_sem' = rx_sem /\ sent' = sent /\ arrived' = arrived /\ raced' = raced
      /\ held' = held /\ thread_stop' = thread_stop /\ budget' = budget
  BY DEF RxGet, IInv, LifeInv, OwnInv, TypeOK, Pointers
<1>2. UNCHANGED statusVars
  BY DEF RxGet
<1>3. StatusInv'
  BY <1>1, <1>2 DEF IInv, StatusInv, NoFailure, statusVars
<1>4. CASE data_queue = <<>>
  <2>1. data_queue' = data_queue /\ rx' = [rx EXCEPT !.pc = "require"]
    BY <1>4 DEF RxGet
  <2>2. rx'.pc = "require" /\ rx'.node = NoNode
    BY <1>1, <2>1 DEF IInv, TypeOK
  <2>3. TypeOK'
    <3>1. rx' \in [pc : {"off", "wait", "get", "send", "put", "require", "claim", "start", "clear"},
                   node : Pointers]
      BY <2>1 DEF IInv, TypeOK
    <3> QED
      BY <1>1, <1>2, <2>1, <3>1 DEF IInv, TypeOK, statusVars
  <2>4. LifeInv'
    BY <1>1, <2>1, <2>2 DEF IInv, LifeInv, Starting, Pooled
  <2>5. OwnInv'
    BY <1>1, <2>1, <2>2 DEF IInv, OwnInv, Placed, NoFailure
  <2>6. OrderInv'
    BY <1>1, <2>1, <2>2 DEF IInv, OrderInv
  <2>7. WholeInv'
    BY <1>1, <2>1, <2>2 DEF IInv, WholeInv, Hand, NoFailure
  <2>8. SemInv'
    <3>1. Len(data_queue) = 0 /\ rx_sem \in Nat
      BY <1>4 DEF IInv, TypeOK
    <3> QED
      BY <1>1, <2>1, <2>2, <3>1 DEF SemInv
  <2>9. RequestInv'
    BY <1>1, <1>4, <2>1, <2>2 DEF IInv, RequestInv, NoFailure
  <2> QED
    BY <1>3, <2>3, <2>4, <2>5, <2>6, <2>7, <2>8, <2>9 DEF IInv
<1>5. CASE data_queue # <<>>
  <2>1. PICK t \in Seq(Nodes), m \in Nat, h \in Nodes :
          /\ t = data_queue' /\ rx' = [pc |-> "send", node |-> h]
          /\ h = data_queue[1] /\ h # NoNode
          /\ Len(data_queue) = m + 1 /\ Len(t) = m
          /\ \A i \in 1..m : t[i] = data_queue[i + 1]
          /\ Items(data_queue) = Items(t) \cup {h}
          /\ h \notin Items(t) /\ Distinct(t)
    <3>1. data_queue \in Seq(Nodes) /\ Distinct(data_queue)
      BY DEF IInv, TypeOK, OwnInv
    <3>2. data_queue' = Tail(data_queue) /\ rx' = [pc |-> "send", node |-> Head(data_queue)]
      BY <1>5 DEF RxGet
    <3>3. PICK t \in Seq(Nodes), m \in Nat, h \in Nodes :
            /\ t = Tail(data_queue) /\ h = Head(data_queue) /\ h = data_queue[1] /\ h # NoNode
            /\ Len(data_queue) = m + 1 /\ Len(t) = m
            /\ \A i \in 1..m : t[i] = data_queue[i + 1]
            /\ Items(data_queue) = Items(t) \cup {h}
            /\ Distinct(data_queue) => h \notin Items(t) /\ Distinct(t)
      BY <1>5, <3>1, TakeFacts, Zenon
    <3> QED
      BY <3>1, <3>2, <3>3, Zenon
  <2>2. rx'.pc = "send" /\ rx'.node = h
    BY <2>1
  <2>3. TypeOK'
    <3>1. rx' \in [pc : {"off", "wait", "get", "send", "put", "require", "claim", "start", "clear"},
                   node : Pointers]
      BY <2>1 DEF Pointers
    <3> QED
      BY <1>1, <1>2, <2>1, <3>1 DEF IInv, TypeOK, Pointers, statusVars
  <2>4. LifeInv'
    BY <1>1, <1>5, <2>1, <2>2 DEF IInv, LifeInv, Starting, Pooled
  <2>5. OwnInv'
    <3>1. \A n \in Nodes : Placed(n)' <=> Placed(n)
      BY <1>1, <2>1, <2>2, NoSuchNode DEF Placed
    <3>2. h \notin Items(free_queue) /\ h # filling
      BY <1>1, <2>1 DEF IInv, OwnInv
    <3>3. rx_node \in Nodes \cup {NoNode}
      BY DEF IInv, TypeOK, Pointers
    <3> QED
      BY <1>1, <2>1, <2>2, <3>1, <3>2, <3>3 DEF IInv, OwnInv, NoFailure
  <2>6. OrderInv'
    <3>1. \A i \in 1..m : i + 1 \in 1..m + 1 /\ 1 \in 1..m + 1 /\ 1 < i + 1
      OBVIOUS
    <3>2. \A i, j \in 1..m : i < j => chunk[t[i]] < chunk[t[j]]
      <4> SUFFICES ASSUME NEW i \in 1..m, NEW j \in 1..m, i < j PROVE chunk[t[i]] < chunk[t[j]]
        OBVIOUS
      <4>1. i + 1 \in 1..m + 1 /\ j + 1 \in 1..m + 1 /\ i + 1 < j + 1
        OBVIOUS
      <4>2. chunk[data_queue[i + 1]] < chunk[data_queue[j + 1]]
        BY <4>1, <2>1 DEF IInv, OrderInv
      <4> QED
        BY <4>2, <2>1
    <3>3. \A n \in Items(t) : chunk[h] < chunk[n]
      <4> SUFFICES ASSUME NEW n \in Items(t) PROVE chunk[h] < chunk[n]
        OBVIOUS
      <4>1. PICK i \in 1..m : t[i] = n
        BY <2>1, QueueFacts
      <4>2. chunk[data_queue[1]] < chunk[data_queue[i + 1]]
        BY <3>1, <2>1 DEF IInv, OrderInv
      <4> QED
        BY <4>1, <4>2, <2>1
    <3>4. /\ chunk[h] <= arrived
          /\ \A i \in 1..Len(sent) : sent[i] < chunk[h]
      BY <2>1 DEF IInv, OrderInv
    <3> QED
      BY <1>1, <2>1, <2>2, <3>2, <3>3, <3>4 DEF IInv, OrderInv
  <2>7. WholeInv'
    <3> SUFFICES ASSUME life \in Starting \cup {"up"}, NoFailure
                 PROVE  /\ Len(sent) + 1 + m = arrived
                        /\ \A i \in 1..Len(sent) : sent[i] = i
                        /\ chunk[h] = Len(sent) + 1
                        /\ \A i \in 1..m : chunk[t[i]] = Len(sent) + 1 + i
      BY <1>1, <2>1, <2>2 DEF WholeInv, Hand, NoFailure
    <3>1. PICK s \in Nat : s = Len(sent)
      BY DEF IInv, TypeOK
    <3>2. /\ s + 0 + (m + 1) = arrived
          /\ \A i \in 1..s : sent[i] = i
          /\ \A i \in 1..m + 1 : chunk[data_queue[i]] = s + 0 + i
      BY <1>1, <2>1, <3>1 DEF IInv, WholeInv, Hand
    <3>3. chunk[h] = s + 1
      <4>1. 1 \in 1..m + 1
        OBVIOUS
      <4> QED
        BY <2>1, <3>2, <4>1
    <3>4. \A i \in 1..m : chunk[t[i]] = s + 1 + i
      <4>1. \A i \in 1..m : i + 1 \in 1..m + 1 /\ s + 0 + (i + 1) = s + 1 + i
        OBVIOUS
      <4> QED
        BY <2>1, <3>2, <4>1
    <3>5. s + 1 + m = arrived
      BY <3>2
    <3> QED
      BY <3>1, <3>2, <3>3, <3>4, <3>5, Zenon
  <2>8. SemInv'
    <3>1. m + 1 <= rx_sem + 1 /\ rx_sem \in Nat
      BY <1>1, <2>1 DEF IInv, SemInv, TypeOK
    <3> QED
      BY <1>1, <2>1, <2>2, <3>1 DEF SemInv
  <2>9. RequestInv'
    BY <1>1, <2>1, <2>2 DEF IInv, RequestInv, NoFailure
  <2> QED
    BY <1>3, <2>3, <2>4, <2>5, <2>6, <2>7, <2>8, <2>9 DEF IInv
<1> QED
  BY <1>4, <1>5

(* The chunk is sent, or lost by a failure.                                *)
LEMMA RxSendStep == ASSUME IInv, fault = "none", RxSend PROVE IInv'
<1>1. /\ rx.pc = "send" /\ rx.node \in Nodes /\ life \in Pooled /\ fault' = fault
      /\ life' = life /\ heap' = heap /\ free_queue' = free_queue /\ rx_node' = rx_node
      /\ filling' = filling /\ require_node' = require_node /\ chunk' = chunk
      /\ data_queue' = data_queue
      /\ rx_sem' = rx_sem /\ arrived' = arrived /\ raced' = raced
      /\ held' = held /\ thread_stop' = thread_stop
  BY DEF RxSend, IInv, LifeInv, OwnInv, TypeOK, Pointers, poolVars
<1>2. UNCHANGED statusVars
  BY DEF RxSend
<1>3. /\ rx' \in [pc : {"off", "wait", "get", "send", "put", "require", "claim", "start", "clear"},
                  node : Pointers]
      /\ rx'.pc = "put" /\ rx'.node = rx.node
  BY DEF RxSend, IInv, TypeOK
<1>4. PICK v \in Nat : v = chunk[rx.node]
  BY <1>1 DEF IInv, TypeOK
<1>5. \/ sent' = Append(sent, v) /\ budget' = budget
      \/ sent' = sent /\ Fails
  BY <1>4 DEF RxSend
<1>6. NoFailure' => NoFailure /\ budget' = budget
  BY <1>5 DEF NoFailure, Fails, IInv, TypeOK
<1>7. PICK s \in Nat, q \in Seq(Nat) :
        /\ s = Len(sent) /\ q = sent'
        /\ \A i \in 1..s : q[i] = sent[i]
        /\ \/ q = sent /\ Len(q) = s /\ Fails
           \/ Len(q) = s + 1 /\ q[s + 1] = v
  <2>1. sent \in Seq(Nat) /\ Len(sent) \in Nat
    BY DEF IInv, TypeOK
  <2>2. CASE sent' = sent /\ Fails
    BY <2>1, <2>2
  <2>3. CASE sent' = Append(sent, v)
    <3>1. /\ Append(sent, v) \in Seq(Nat)
          /\ Len(Append(sent, v)) = Len(sent) + 1
          /\ \A i \in 1..Len(sent) : Append(sent, v)[i] = sent[i]
          /\ Append(sent, v)[Len(sent) + 1] = v
      BY <2>1, AppendFacts
    <3> QED
      BY <2>1, <2>3, <3>1, Zenon
  <2> QED
    BY <1>5, <2>2, <2>3
<1>8. TypeOK'
  <2>1. budget' \in [chunks : 0..MaxChunks, status : 0..MaxStatus, fail : 0..MaxFail]
    BY <1>5, FailsType DEF IInv, TypeOK
  <2>2. sent' \in Seq(Nat)
    BY <1>7, Zenon
  <2> QED
    BY <1>1, <1>2, <1>3, <2>1, <2>2, SMTT(30) DEF IInv, TypeOK, statusVars
<1>9. LifeInv'
  BY <1>1, <1>3 DEF IInv, LifeInv, Starting, Pooled
<1>10. OwnInv'
  BY <1>1, <1>3, <1>6 DEF IInv, OwnInv, Placed
<1>11. OrderInv'
  <2>1. /\ \A i, j \in 1..s : i < j => sent[i] < sent[j]
        /\ \A i \in 1..s : sent[i] < v /\ sent[i] <= arrived
        /\ \A i \in 1..s, n \in Items(data_queue) : sent[i] < chunk[n]
        /\ \A n \in Items(data_queue) : v < chunk[n]
        /\ v <= arrived
    BY <1>1, <1>4, <1>7 DEF IInv, OrderInv
  <2>2. CASE q = sent
    BY <1>1, <1>3, <1>7, <2>2 DEF IInv, OrderInv
  <2>3. CASE Len(q) = s + 1 /\ q[s + 1] = v
    <3>1. \A i \in 1..s + 1 : i \in 1..s \/ i = s + 1
      OBVIOUS
    <3>2. \A i, j \in 1..s + 1 : i < j => q[i] < q[j]
      <4> SUFFICES ASSUME NEW i \in 1..s + 1, NEW j \in 1..s + 1, i < j PROVE q[i] < q[j]
        OBVIOUS
      <4>1. i \in 1..s
        OBVIOUS
      <4>2. CASE j \in 1..s
        BY <4>1, <4>2, <1>7, <2>1
      <4>3. CASE j = s + 1
        BY <4>1, <4>3, <1>7, <2>1, <2>3
      <4> QED
        BY <3>1, <4>2, <4>3
    <3>3. /\ \A i \in 1..s + 1 : q[i] <= arrived
          /\ \A i \in 1..s + 1, n \in Items(data_queue) : q[i] < chunk[n]
      BY <1>7, <2>1, <2>3, <3>1
    <3> QED
      BY <1>1, <1>3, <1>7, <2>3, <3>2, <3>3 DEF IInv, OrderInv
  <2> QED
    BY <1>7, <2>2, <2>3
<1>12. WholeInv'
  <2> SUFFICES ASSUME life \in Starting \cup {"up"}, NoFailure'
               PROVE  /\ Len(q) + 0 + Len(data_queue) = arrived
                      /\ \A i \in 1..Len(q) : q[i] = i
                      /\ \A i \in 1..Len(data_queue) : chunk[data_queue[i]] = Len(q) + 0 + i
    BY <1>1, <1>3, <1>7 DEF WholeInv, Hand
  <2>1. NoFailure /\ Len(q) = s + 1 /\ q[s + 1] = v
    BY <1>6, <1>7 DEF Fails, IInv, TypeOK
  <2>2. PICK m \in Nat : m = Len(data_queue)
    BY DEF IInv, TypeOK
  <2>3. /\ s + 1 + m = arrived
        /\ \A i \in 1..s : sent[i] = i
        /\ v = s + 1
        /\ \A i \in 1..m : chunk[data_queue[i]] = s + 1 + i
    BY <1>1, <1>4, <1>7, <2>1, <2>2 DEF IInv, WholeInv, Hand
  <2>4. \A i \in 1..s + 1 : q[i] = i
    <3>1. \A i \in 1..s + 1 : i \in 1..s \/ i = s + 1
      OBVIOUS
    <3> QED
      BY <1>7, <2>1, <2>3, <3>1
  <2>5. s + 1 + 0 = s + 1
    OBVIOUS
  <2> QED
    BY <2>1, <2>2, <2>3, <2>4, <2>5, Zenon
<1>13. SemInv'
  BY <1>1, <1>3 DEF IInv, SemInv
<1>14. RequestInv'
  BY <1>1, <1>3, <1>6 DEF IInv, RequestInv
<1>15. StatusInv'
  BY <1>1, <1>2, <1>6 DEF IInv, StatusInv, statusVars
<1> QED
  BY <1>8, <1>9, <1>10, <1>11, <1>12, <1>13, <1>14, <1>15 DEF IInv

(* The buffer is free again.                                               *)
LEMMA RxPutStep == ASSUME IInv, fault = "none", RxPut PROVE IInv'
<1>1. /\ rx.pc = "put" /\ rx.node \in Nodes /\ life \in Pooled /\ fault' = fault
      /\ life' = life /\ heap' = heap /\ rx_node' = rx_node
      /\ filling' = filling /\ require_node' = require_node /\ chunk' = chunk
      /\ data_queue' = data_queue
      /\ rx_sem' = rx_sem /\ sent' = sent /\ arrived' = arrived /\ raced' = raced
      /\ held' = held /\ thread_stop' = thread_stop /\ budget' = budget
      /\ rx' = [pc |-> "require", node |-> NoNode]
  BY DEF RxPut, IInv, LifeInv, OwnInv, TypeOK, Pointers
<1>2. UNCHANGED statusVars
  BY DEF RxPut
<1>3. PICK n \in Nodes, q \in Seq(Nodes) :
        /\ n = rx.node /\ q = free_queue' /\ q # <<>> /\ n # NoNode
        /\ n \notin Items(free_queue) /\ n \notin Items(data_queue) /\ n # filling
        /\ Items(q) = Items(free_queue) \cup {n} /\ Distinct(q)
  <2>1. /\ rx.node # NoNode
        /\ rx.node \notin Items(free_queue) /\ rx.node \notin Items(data_queue)
        /\ filling # rx.node
    BY <1>1, NoSuchNode DEF IInv, OwnInv
  <2>2. free_queue \in Seq(Nodes) /\ Distinct(free_queue)
        /\ free_queue' = Append(free_queue, rx.node)
    BY DEF RxPut, PutNode, IInv, TypeOK, OwnInv
  <2> QED
    BY <1>1, <2>1, <2>2, PutFacts
<1>4. TypeOK'
  <2>1. rx' \in [pc : {"off", "wait", "get", "send", "put", "require", "claim", "start", "clear"},
                 node : Pointers]
    BY <1>1 DEF Pointers
  <2> QED
    BY <1>1, <1>2, <1>3, <2>1 DEF IInv, TypeOK, statusVars
<1>5. LifeInv'
  BY <1>1, <1>3 DEF IInv, LifeInv, Starting, Pooled
<1>6. OwnInv'
  <2>1. \A x \in Nodes : Placed(x)' <=> Placed(x)
    BY <1>1, <1>3, NoSuchNode DEF Placed
  <2>2. rx_node \in Nodes \cup {NoNode}
    BY DEF IInv, TypeOK, Pointers
  <2> QED
    BY <1>1, <1>3, <2>1, <2>2 DEF IInv, OwnInv, NoFailure
<1>7. OrderInv'
  BY <1>1 DEF IInv, OrderInv
<1>8. WholeInv'
  BY <1>1 DEF IInv, WholeInv, Hand, NoFailure
<1>9. SemInv'
  BY <1>1 DEF IInv, SemInv
<1>10. RequestInv'
  BY <1>1, <1>3 DEF IInv, RequestInv, NoFailure
<1>11. StatusInv'
  BY <1>1, <1>2 DEF IInv, StatusInv, NoFailure, statusVars
<1> QED
  BY <1>4, <1>5, <1>6, <1>7, <1>8, <1>9, <1>10, <1>11 DEF IInv

(* The rx thread takes a free buffer for the device, or breaks.            *)
LEMMA RxClaimStep == ASSUME IInv, fault = "none", RxClaim PROVE IInv'
<1>1. /\ rx.pc = "claim" /\ rx.node = NoNode /\ life \in Pooled
      /\ life \notin Starting /\ require_node /\ filling = NoNode
      /\ life' = life /\ heap' = heap
      /\ filling' = filling /\ require_node' = require_node /\ chunk' = chunk
      /\ data_queue' = data_queue
      /\ rx_sem' = rx_sem /\ sent' = sent /\ arrived' = arrived /\ raced' = raced
      /\ held' = held /\ thread_stop' = thread_stop /\ budget' = budget
  BY DEF RxClaim, IInv, LifeInv, OwnInv, RequestInv, TypeOK, Pointers, Starting, Pooled
<1>2. UNCHANGED statusVars
  BY DEF RxClaim
<1>3. rx_node \in Nodes /\ heap[rx_node] = "live" => Placed(rx_node) \/ rx_node \in held
  BY <1>1, NoSuchNode DEF IInv, OwnInv
<1>4. StatusInv'
  BY <1>1, <1>2 DEF IInv, StatusInv, NoFailure, statusVars
<1>5. CASE free_queue = <<>>
  <2>1. /\ free_queue' = free_queue /\ rx' = rx /\ rx_node' = NoNode /\ fault' = "null"
    BY <1>5 DEF RxClaim, NextNode
  <2>2. TypeOK'
    BY <1>1, <1>2, <2>1 DEF IInv, TypeOK, Pointers, statusVars
  <2>3. LifeInv'
    BY <1>1, <2>1 DEF IInv, LifeInv, Starting, Pooled
  <2>4. OwnInv'
    <3>1. \A n : Placed(n)' <=> Placed(n)
      BY <1>1, <2>1 DEF Placed
    <3>2. \A n \in Nodes : heap[n] = "live" => Placed(n) \/ n \in held
      BY <1>3 DEF IInv, OwnInv
    <3> QED
      BY <1>1, <2>1, <3>1, <3>2 DEF IInv, OwnInv, NoFailure
  <2>5. OrderInv'
    BY <1>1, <2>1 DEF IInv, OrderInv
  <2>6. WholeInv'
    BY <1>1, <2>1 DEF IInv, WholeInv, Hand, NoFailure
  <2>7. SemInv'
    BY <1>1, <2>1 DEF IInv, SemInv
  <2>8. RequestInv'
    <3>1. raced
      BY <1>1, <1>5 DEF IInv, RequestInv
    <3> QED
      BY <1>1, <2>1, <3>1 DEF IInv, RequestInv
  <2> QED
    BY <1>4, <2>2, <2>3, <2>4, <2>5, <2>6, <2>7, <2>8 DEF IInv
<1>6. CASE free_queue # <<>>
  <2>1. PICK t \in Seq(Nodes), h \in Nodes :
          /\ t = free_queue' /\ h = rx_node' /\ rx' = [pc |-> "start", node |-> h]
          /\ h # NoNode /\ fault' = fault
          /\ Items(free_queue) = Items(t) \cup {h}
          /\ h \notin Items(t) /\ Distinct(t)
    <3>1. free_queue \in Seq(Nodes) /\ Distinct(free_queue)
      BY DEF IInv, TypeOK, OwnInv
    <3>2. PICK t \in Seq(Nodes), h \in Nodes :
            /\ t = Tail(free_queue) /\ h = Head(free_queue) /\ h # NoNode
            /\ Items(free_queue) = Items(t) \cup {h}
            /\ h \notin Items(t) /\ Distinct(t)
      BY <1>6, <3>1, TakeFacts, Zenon
    <3>3. free_queue' = t /\ rx_node' = h /\ rx' = [pc |-> "start", node |-> h] /\ fault' = fault
      BY <1>6, <3>2 DEF RxClaim, NextNode
    <3> QED
      BY <3>2, <3>3, Zenon
  <2>2. rx'.pc = "start" /\ rx'.node = h
    BY <2>1
  <2>3. TypeOK'
    <3>1. /\ rx' \in [pc : {"off", "wait", "get", "send", "put", "require", "claim", "start", "clear"},
                      node : Pointers]
          /\ rx_node' \in Pointers
      BY <2>1 DEF Pointers
    <3> QED
      BY <1>1, <1>2, <2>1, <3>1 DEF IInv, TypeOK, statusVars
  <2>4. LifeInv'
    BY <1>1, <1>6, <2>1, <2>2 DEF IInv, LifeInv, Starting, Pooled
  <2>5. OwnInv'
    <3>1. \A n \in Nodes : Placed(n)' <=> Placed(n)
      BY <1>1, <2>1, <2>2, NoSuchNode DEF Placed
    <3>2. h \notin Items(data_queue)
      BY <1>1, <2>1 DEF IInv, OwnInv
    <3>3. \A n \in Nodes : heap[n] = "live" => Placed(n) \/ n \in held
      BY <1>3 DEF IInv, OwnInv
    <3>4. Placed(h)'
      BY <2>2 DEF Placed
    <3> QED
      BY <1>1, <2>1, <2>2, <3>1, <3>2, <3>3, <3>4 DEF IInv, OwnInv, NoFailure
  <2>6. OrderInv'
    BY <1>1, <2>2 DEF IInv, OrderInv
  <2>7. WholeInv'
    BY <1>1, <2>2 DEF IInv, WholeInv, Hand, NoFailure
  <2>8. SemInv'
    BY <1>1, <2>2 DEF IInv, SemInv
  <2>9. RequestInv'
    BY <1>1, <2>1, <2>2 DEF IInv, RequestInv, NoFailure
  <2> QED
    BY <1>4, <2>3, <2>4, <2>5, <2>6, <2>7, <2>8, <2>9 DEF IInv
<1> QED
  BY <1>5, <1>6

(* The device is stopped when it is started, and has the buffer unless the *)
(* start fails.                                                            *)
LEMMA RxStartStep == ASSUME IInv, fault = "none", RxStart PROVE IInv'
<1>1. /\ rx.pc = "start" /\ rx.node \in Nodes /\ rx.node = rx_node /\ life \in Pooled
      /\ life \notin Starting /\ require_node /\ filling = NoNode
  BY NoSuchNode
     DEF RxStart, IInv, LifeInv, OwnInv, RequestInv, TypeOK, Pointers, Starting, Pooled
<1>2. /\ life' = life /\ heap' = heap /\ free_queue' = free_queue /\ rx_node' = rx_node
      /\ require_node' = require_node /\ chunk' = chunk /\ data_queue' = data_queue
      /\ rx_sem' = rx_sem /\ sent' = sent /\ arrived' = arrived /\ raced' = raced
      /\ thread_stop' = thread_stop /\ fault' = fault
      /\ rx' = [pc |-> "clear", node |-> NoNode]
      /\ held' = IF thread_stop THEN held \cup {rx.node} ELSE held
  BY <1>1 DEF RxStart
<1>3. UNCHANGED statusVars
  BY DEF RxStart
<1>4. \/ filling' = rx.node /\ budget' = budget
      \/ filling' = NoNode /\ Fails
  BY <1>1 DEF RxStart
<1>5. NoFailure' => NoFailure /\ filling' = rx.node
  BY <1>4 DEF NoFailure, Fails, IInv, TypeOK
<1>6. rx'.pc = "clear" /\ rx'.node = NoNode
  BY <1>2
<1>7. TypeOK'
  <2>1. budget' \in [chunks : 0..MaxChunks, status : 0..MaxStatus, fail : 0..MaxFail]
    BY <1>4, FailsType DEF IInv, TypeOK
  <2>2. rx' \in [pc : {"off", "wait", "get", "send", "put", "require", "claim", "start", "clear"},
                 node : Pointers]
    BY <1>2 DEF Pointers
  <2>3. filling' \in Pointers /\ held' \subseteq Nodes
    BY <1>1, <1>2, <1>4 DEF Pointers, IInv, TypeOK
  <2> QED
    BY <1>2, <1>3, <2>1, <2>2, <2>3 DEF IInv, TypeOK, statusVars
<1>8. LifeInv'
  BY <1>1, <1>2, <1>6 DEF IInv, LifeInv, Starting, Pooled
<1>9. OwnInv'
  <2>1. /\ rx.node \notin Items(free_queue) /\ rx.node \notin Items(data_queue)
        /\ rx.node # NoNode
    BY <1>1, NoSuchNode DEF IInv, OwnInv
  <2>2. \A n \in Nodes : Placed(n)' => Placed(n)
    BY <1>1, <1>2, <1>4, <1>6, NoSuchNode DEF Placed
  <2>3. \A n \in Nodes : Placed(n) => Placed(n)' \/ n = rx.node
    BY <1>1, <1>2, NoSuchNode DEF Placed
  <2>4. \A n : n = filling' => Placed(n)'
    BY DEF Placed
  <2>5. held \subseteq held' /\ (thread_stop => rx.node \in held')
    BY <1>2
  <2>6. \A n \in Nodes : heap[n] = "live" => Placed(n)' \/ n \in held' \/ n = rx_node
    BY <1>1, <2>3, <2>5 DEF IInv, OwnInv
  <2>7. NoFailure' => \A n \in Nodes : Placed(n) => Placed(n)'
    BY <1>5, <2>3, <2>4
  <2>8. thread_stop /\ filling' # NoNode => filling' \in held'
    BY <1>4, <2>5
  <2>9. filling' # NoNode => filling' = rx_node /\ filling' = rx.node
    BY <1>1, <1>4
  <2>10. life \notin Pooled \cup {"free_data"} => \A n \in Items(data_queue) : n \in held'
    BY <1>1
  <2> QED
    BY <1>2, <1>5, <1>6, <2>1, <2>2, <2>6, <2>7, <2>8, <2>9, <2>10 DEF IInv, OwnInv
<1>10. OrderInv'
  BY <1>2, <1>6 DEF IInv, OrderInv
<1>11. WholeInv'
  BY <1>1, <1>2, <1>5, <1>6 DEF IInv, WholeInv, Hand
<1>12. SemInv'
  BY <1>1, <1>2, <1>6 DEF IInv, SemInv
<1>13. RequestInv'
  BY <1>1, <1>2, <1>5, <1>6, NoSuchNode DEF IInv, RequestInv
<1>14. StatusInv'
  BY <1>2, <1>3, <1>5 DEF IInv, StatusInv, statusVars
<1> QED
  BY <1>7, <1>8, <1>9, <1>10, <1>11, <1>12, <1>13, <1>14 DEF IInv

-----------------------------------------------------------------------------
(* The buffers are allocated and freed.                                    *)

LEMMA AllocatedFacts ==
  /\ AllocationOrder \in Seq(Nodes)
  /\ AllocationOrder # <<>>
  /\ Distinct(AllocationOrder)
  /\ Items(AllocationOrder) = Nodes
<1>1. PICK k \in Nat : k = Cardinality(Nodes) /\ ExistsBijection(1..k, Nodes)
  BY FS_CardinalityType, UartDriverAssumption DEF UartDriverAssumption
<1>2. PICK f \in [1..k -> Nodes] : \A i, j \in 1..k : f[i] = f[j] => i = j
  BY <1>1 DEF ExistsBijection, Bijection, Injection, IsInjective
<1>3. PICK q \in [1..k -> Nodes] :
        q = AllocationOrder /\ \A i, j \in 1..k : q[i] = q[j] => i = j
  <2>1. AllocationOrder =
          CHOOSE g \in [1..k -> Nodes] : \A i, j \in 1..k : g[i] = g[j] => i = j
    BY <1>1, Zenon DEF AllocationOrder
  <2> QED
    BY <1>2, <2>1, Zenon
<1>4. q \in Seq(Nodes) /\ Len(q) = k
  OBVIOUS
<1>5. Distinct(q)
  BY <1>3, <1>4 DEF Distinct
<1>6. Items(q) = Nodes
  <2>1. q \in Injection(1..k, Nodes)
    BY <1>3 DEF Injection, IsInjective
  <2>2. Cardinality(1..k) = k
    BY FS_Interval
  <2>3. q \in Surjection(1..k, Nodes)
    BY <1>1, <2>1, <2>2, FS_Injection, UartDriverAssumption DEF UartDriverAssumption
  <2> QED
    BY <1>4, <2>3 DEF Surjection, Items
<1>7. q # <<>>
  BY <1>4, <1>6, EmptyFacts, UartDriverAssumption DEF UartDriverAssumption
<1> QED
  BY <1>3, <1>4, <1>5, <1>6, <1>7

(* All buffers are free at first; when one cannot be allocated, those that *)
(* were are freed.                                                         *)
LEMMA InitReceiverStep == ASSUME IInv, fault = "none", InitReceiver PROVE IInv'
<1>1. /\ life = "receiver" /\ rx.pc = "off" /\ rx.node = NoNode /\ filling = NoNode
      /\ rx_node = NoNode /\ data_queue = <<>> /\ free_queue = <<>> /\ held = {}
      /\ ~require_node /\ ~thread_stop /\ sent = <<>> /\ arrived = 0
  BY DEF InitReceiver, IInv, LifeInv, OwnInv, TypeOK, Pointers, Starting
<1>2. /\ data_queue' = data_queue /\ rx_node' = rx_node /\ filling' = filling
      /\ require_node' = require_node /\ chunk' = chunk /\ rx_sem' = rx_sem
      /\ sent' = sent /\ arrived' = arrived /\ raced' = raced /\ held' = held
      /\ thread_stop' = thread_stop /\ fault' = fault
  BY DEF InitReceiver
<1>3. UNCHANGED statusVars
  BY DEF InitReceiver
<1>4. \/ /\ free_queue' = AllocationOrder /\ heap' = [n \in Nodes |-> "live"]
         /\ life' = "read" /\ rx' = [rx EXCEPT !.pc = "wait"] /\ budget' = budget
      \/ /\ free_queue' = free_queue /\ rx' = rx /\ life' = "stop_status" /\ Fails
         /\ \E some \in SUBSET Nodes : heap' = [n \in Nodes |-> IF n \in some THEN "freed" ELSE "none"]
  BY DEF InitReceiver
<1>5. NoFailure' => NoFailure
  BY <1>4 DEF NoFailure, Fails, IInv, TypeOK
<1>6. /\ rx' \in [pc : {"off", "wait", "get", "send", "put", "require", "claim", "start", "clear"},
                  node : Pointers]
      /\ rx'.pc \in {"off", "wait"} /\ rx'.node = NoNode
      /\ rx'.pc = "off" <=> life' = "stop_status"
  BY <1>1, <1>4 DEF IInv, TypeOK
<1>7. /\ free_queue' \in Seq(Nodes) /\ Distinct(free_queue')
      /\ life' = "read" => free_queue' # <<>> /\ Items(free_queue') = Nodes
      /\ life' = "stop_status" => free_queue' = <<>> /\ Items(free_queue') = {}
  BY <1>1, <1>4, AllocatedFacts, EmptyFacts
<1>8. /\ heap' \in [Nodes -> {"none", "live", "freed"}]
      /\ life' = "read" => \A n \in Nodes : heap'[n] = "live"
      /\ life' = "stop_status" => \A n \in Nodes : heap'[n] # "live"
  BY <1>4
<1>9. life' \in {"read", "stop_status"}
  BY <1>4
<1>10. TypeOK'
  <2>1. budget' \in [chunks : 0..MaxChunks, status : 0..MaxStatus, fail : 0..MaxFail]
    BY <1>4, FailsType DEF IInv, TypeOK
  <2> QED
    BY <1>2, <1>3, <1>6, <1>7, <1>8, <1>9, <2>1 DEF IInv, TypeOK, statusVars
<1>11. LifeInv'
  <2>1. rx_sem = 0
    BY <1>1 DEF IInv, LifeInv, Starting
  <2> QED
    BY <1>1, <1>2, <1>6, <1>7, <1>8, <1>9, <2>1 DEF LifeInv, Starting, Pooled
<1>12. OwnInv'
  BY <1>1, <1>2, <1>6, <1>7, <1>8, <1>9, EmptyFacts, NoSuchNode DEF OwnInv, Placed, Pooled
<1>13. OrderInv'
  BY <1>1, <1>2, <1>6, EmptyFacts DEF OrderInv
<1>14. WholeInv'
  BY <1>1, <1>2, <1>6 DEF WholeInv, Hand
<1>15. SemInv'
  BY <1>1, <1>2, <1>6 DEF IInv, TypeOK, SemInv
<1>16. RequestInv'
  BY <1>1, <1>2, <1>6, <1>9 DEF IInv, RequestInv
<1>17. StatusInv'
  BY <1>1, <1>3, <1>5, <1>9 DEF IInv, StatusInv, statusVars
<1> QED
  BY <1>10, <1>11, <1>12, <1>13, <1>14, <1>15, <1>16, <1>17 DEF IInv

(* What is freed is not in a queue any more.                               *)
LEMMA FreeDataStep == ASSUME IInv, fault = "none", FreeData PROVE IInv'
<1>1. /\ life = "free_data" /\ rx.pc = "off" /\ rx.node = NoNode
      /\ free_queue' = free_queue /\ rx_node' = rx_node /\ filling' = filling
      /\ require_node' = require_node /\ chunk' = chunk /\ thread_stop' = thread_stop
      /\ fault' = fault /\ budget' = budget
  BY DEF FreeData, IInv, LifeInv, OwnInv, TypeOK, Pointers, Starting, Pooled
<1>2. UNCHANGED <<statusVars, rxVars>>
  BY DEF FreeData
<1>3. CASE data_queue = <<>>
  <2>1. life' = "free_free" /\ data_queue' = data_queue /\ heap' = heap
    BY <1>3 DEF FreeData
  <2>2. TypeOK'
    BY <1>1, <1>2, <2>1 DEF IInv, TypeOK, statusVars, rxVars
  <2>3. LifeInv'
    BY <1>1, <1>2, <2>1 DEF IInv, LifeInv, Starting, Pooled, rxVars
  <2>4. OwnInv'
    BY <1>1, <1>2, <1>3, <2>1, EmptyFacts DEF IInv, OwnInv, Placed, rxVars
  <2>5. OrderInv' /\ WholeInv' /\ SemInv' /\ RequestInv'
    BY <1>1, <1>2, <2>1 DEF IInv, OrderInv, WholeInv, Starting, SemInv, RequestInv, rxVars
  <2>6. StatusInv'
    BY <1>1, <1>2, <2>1 DEF IInv, StatusInv, NoFailure, statusVars
  <2> QED
    BY <2>2, <2>3, <2>4, <2>5, <2>6 DEF IInv
<1>4. CASE data_queue # <<>>
  <2>1. PICK t \in Seq(Nodes), m \in Nat, h \in Nodes :
          /\ t = data_queue' /\ h # NoNode /\ heap' = [heap EXCEPT ![h] = "freed"]
          /\ life' = life
          /\ Len(data_queue) = m + 1 /\ Len(t) = m
          /\ \A i \in 1..m : t[i] = data_queue[i + 1]
          /\ Items(data_queue) = Items(t) \cup {h}
          /\ h \notin Items(t) /\ Distinct(t)
    <3>1. data_queue \in Seq(Nodes) /\ Distinct(data_queue)
      BY DEF IInv, TypeOK, OwnInv
    <3>2. /\ data_queue' = Tail(data_queue) /\ life' = life
          /\ heap' = [heap EXCEPT ![Head(data_queue)] = "freed"]
      BY <1>4 DEF FreeData
    <3>3. PICK t \in Seq(Nodes), m \in Nat, h \in Nodes :
            /\ t = Tail(data_queue) /\ h = Head(data_queue) /\ h = data_queue[1] /\ h # NoNode
            /\ Len(data_queue) = m + 1 /\ Len(t) = m
            /\ \A i \in 1..m : t[i] = data_queue[i + 1]
            /\ Items(data_queue) = Items(t) \cup {h}
            /\ Distinct(data_queue) => h \notin Items(t) /\ Distinct(t)
      BY <1>4, <3>1, TakeFacts, Zenon
    <3> QED
      BY <3>1, <3>2, <3>3, Zenon
  <2>2. /\ heap' \in [Nodes -> {"none", "live", "freed"}]
        /\ \A n \in Nodes : heap'[n] = IF n = h THEN "freed" ELSE heap[n]
    BY <2>1 DEF IInv, TypeOK
  <2>3. TypeOK'
    BY <1>1, <1>2, <2>1, <2>2 DEF IInv, TypeOK, statusVars, rxVars
  <2>4. LifeInv'
    BY <1>1, <1>2, <2>1 DEF IInv, LifeInv, Starting, Pooled, rxVars
  <2>5. OwnInv'
    <3>1. h \notin Items(free_queue) /\ h # filling /\ h # rx.node
      BY <1>1, <2>1 DEF IInv, OwnInv
    <3>2. \A n : Placed(n)' <=> Placed(n) /\ n # h
      BY <1>1, <1>2, <2>1, <3>1 DEF Placed, rxVars
    <3>3. rx_node \in Nodes \cup {NoNode}
      BY DEF IInv, TypeOK, Pointers
    <3> QED
      BY <1>1, <1>2, <2>1, <2>2, <3>2, <3>3 DEF IInv, OwnInv, rxVars
  <2>6. OrderInv'
    <3>1. \A i, j \in 1..m : i < j => chunk[t[i]] < chunk[t[j]]
      <4> SUFFICES ASSUME NEW i \in 1..m, NEW j \in 1..m, i < j PROVE chunk[t[i]] < chunk[t[j]]
        OBVIOUS
      <4>1. i + 1 \in 1..m + 1 /\ j + 1 \in 1..m + 1 /\ i + 1 < j + 1
        OBVIOUS
      <4>2. chunk[data_queue[i + 1]] < chunk[data_queue[j + 1]]
        BY <4>1, <2>1 DEF IInv, OrderInv
      <4> QED
        BY <4>2, <2>1
    <3> QED
      BY <1>1, <1>2, <2>1, <3>1 DEF IInv, OrderInv, rxVars
  <2>7. WholeInv' /\ SemInv' /\ RequestInv'
    BY <1>1, <1>2, <2>1 DEF IInv, WholeInv, Starting, SemInv, RequestInv, rxVars
  <2>8. StatusInv'
    BY <1>1, <1>2, <2>1 DEF IInv, StatusInv, NoFailure, statusVars
  <2> QED
    BY <2>3, <2>4, <2>5, <2>6, <2>7, <2>8 DEF IInv
<1> QED
  BY <1>3, <1>4

LEMMA FreeFreeStep == ASSUME IInv, fault = "none", FreeFree PROVE IInv'
<1>1. /\ life = "free_free" /\ rx.pc = "off" /\ rx.node = NoNode
      /\ data_queue' = data_queue /\ rx_node' = rx_node /\ filling' = filling
      /\ require_node' = require_node /\ chunk' = chunk /\ thread_stop' = thread_stop
      /\ fault' = fault /\ budget' = budget
  BY DEF FreeFree, IInv, LifeInv, OwnInv, TypeOK, Pointers, Starting, Pooled
<1>2. UNCHANGED <<statusVars, rxVars>>
  BY DEF FreeFree
<1>3. life' \in {"free_free", "stop_status"}
  BY <1>1 DEF FreeFree
<1>4. OrderInv' /\ WholeInv' /\ SemInv' /\ RequestInv'
  BY <1>1, <1>2, <1>3 DEF IInv, OrderInv, WholeInv, Starting, SemInv, RequestInv, rxVars
<1>5. StatusInv'
  BY <1>1, <1>2, <1>3 DEF IInv, StatusInv, NoFailure, statusVars
<1>6. CASE free_queue = <<>>
  <2>1. life' = "stop_status" /\ free_queue' = free_queue /\ heap' = heap
    BY <1>6 DEF FreeFree
  <2>2. TypeOK'
    BY <1>1, <1>2, <2>1 DEF IInv, TypeOK, statusVars, rxVars
  <2>3. LifeInv'
    BY <1>1, <1>2, <1>6, <2>1 DEF IInv, LifeInv, Starting, Pooled, rxVars
  <2>4. OwnInv'
    BY <1>1, <1>2, <2>1 DEF IInv, OwnInv, Placed, Pooled, rxVars
  <2> QED
    BY <1>4, <1>5, <2>2, <2>3, <2>4 DEF IInv
<1>7. CASE free_queue # <<>>
  <2>1. PICK t \in Seq(Nodes), h \in Nodes :
          /\ t = free_queue' /\ h # NoNode /\ heap' = [heap EXCEPT ![h] = "freed"]
          /\ life' = life
          /\ Items(free_queue) = Items(t) \cup {h}
          /\ h \notin Items(t) /\ Distinct(t)
    <3>1. free_queue \in Seq(Nodes) /\ Distinct(free_queue)
      BY DEF IInv, TypeOK, OwnInv
    <3>2. /\ free_queue' = Tail(free_queue) /\ life' = life
          /\ heap' = [heap EXCEPT ![Head(free_queue)] = "freed"]
      BY <1>7 DEF FreeFree
    <3>3. PICK t \in Seq(Nodes), h \in Nodes :
            /\ t = Tail(free_queue) /\ h = Head(free_queue) /\ h # NoNode
            /\ Items(free_queue) = Items(t) \cup {h}
            /\ h \notin Items(t) /\ Distinct(t)
      BY <1>7, <3>1, TakeFacts, Zenon
    <3> QED
      BY <3>2, <3>3, Zenon
  <2>2. /\ heap' \in [Nodes -> {"none", "live", "freed"}]
        /\ \A n \in Nodes : heap'[n] = IF n = h THEN "freed" ELSE heap[n]
    BY <2>1 DEF IInv, TypeOK
  <2>3. TypeOK'
    BY <1>1, <1>2, <2>1, <2>2 DEF IInv, TypeOK, statusVars, rxVars
  <2>4. LifeInv'
    BY <1>1, <1>2, <2>1 DEF IInv, LifeInv, Starting, Pooled, rxVars
  <2>5. OwnInv'
    <3>1. h \notin Items(data_queue) /\ h # filling /\ h # rx.node
      BY <1>1, <2>1 DEF IInv, OwnInv
    <3>2. \A n : Placed(n)' <=> Placed(n) /\ n # h
      BY <1>1, <1>2, <2>1, <3>1 DEF Placed, rxVars
    <3>3. rx_node \in Nodes \cup {NoNode}
      BY DEF IInv, TypeOK, Pointers
    <3> QED
      BY <1>1, <1>2, <2>1, <2>2, <3>2, <3>3 DEF IInv, OwnInv, rxVars
  <2> QED
    BY <1>4, <1>5, <2>3, <2>4, <2>5 DEF IInv
<1> QED
  BY <1>6, <1>7

LEMMA InitStep == Init => IInv
<1> SUFFICES ASSUME Init PROVE IInv
  OBVIOUS
<1>1. TypeOK
  <2>1. budget \in [chunks : 0..MaxChunks, status : 0..MaxStatus, fail : 0..MaxFail]
    BY UartDriverAssumption DEF Init, UartDriverAssumption
  <2>2. /\ heap \in [Nodes -> {"none", "live", "freed"}] /\ chunk \in [Nodes -> Nat]
        /\ rx = [pc |-> "off", node |-> NoNode] /\ sent \in Seq(Nat)
    BY DEF Init
  <2>3. rx \in [pc : {"off", "wait", "get", "send", "put", "require", "claim", "start", "clear"},
                node : Pointers]
    BY <2>2 DEF Pointers
  <2>4. /\ free_queue \in Seq(Nodes) /\ data_queue \in Seq(Nodes)
        /\ rx_node \in Pointers /\ filling \in Pointers
    BY EmptyFacts DEF Init, Pointers
  <2>5. /\ life = "status" /\ require_node \in BOOLEAN /\ rx_sem \in Nat
        /\ thread_stop \in BOOLEAN /\ modem \in 0..1
    BY DEF Init
  <2>7. updated_ms = 0 /\ last_serial_state = 0 /\ told = 0
    BY DEF Init
  <2>6. /\ attached \in BOOLEAN /\ ms_seen \in BOOLEAN /\ raced \in BOOLEAN
        /\ status_sem \in Nat /\ status = "off" /\ arrived \in Nat
        /\ held \subseteq Nodes /\ fault = "none"
    BY DEF Init
  <2> QED
    BY <2>1, <2>2, <2>3, <2>4, <2>5, <2>6, <2>7 DEF TypeOK
<1>2. LifeInv /\ OwnInv
  BY EmptyFacts, NoSuchNode DEF Init, LifeInv, OwnInv, Placed, Starting, Pooled
<1>3. OrderInv /\ WholeInv
  BY EmptyFacts DEF Init, OrderInv, WholeInv, Hand
<1>4. SemInv /\ RequestInv /\ StatusInv
  BY DEF Init, SemInv, RequestInv, StatusInv
<1> QED
  BY <1>1, <1>2, <1>3, <1>4 DEF IInv

LEMMA NextStep == IInv /\ [Next]_vars => IInv'
<1> SUFFICES ASSUME IInv, [Next]_vars PROVE IInv'
  OBVIOUS
<1>1. CASE Next
  <2>1. fault = "none"
    BY <1>1 DEF Next
  <2>2. CASE RxThread
    BY <2>1, <2>2, RxWaitStep, RxGetStep, RxSendStep, RxPutStep, RxRequireStep, RxClaimStep,
       RxStartStep, RxClearStep DEF RxThread
  <2>3. CASE StatusThread
    BY <2>1, <2>3, StatusWaitStep, StatusReportStep DEF StatusThread
  <2>4. CASE Interrupt
    BY <2>1, <2>4, RxCallbackStep, ModemChangesStep, LineChangesStep DEF Interrupt
  <2>5. CASE LifeStep
    BY <2>1, <2>5, InitStatusStep, InitReceiverStep, InitReadStep, InitAttachStep,
       InitTriggerStep, StopRxStep, JoinRxStep, FreeDataStep, FreeFreeStep, StopStatusStep,
       JoinStatusStep, CloseStep DEF LifeStep
  <2>6. CASE Exit
    BY <2>1, <2>6, ExitStep
  <2> QED
    BY <1>1, <2>2, <2>3, <2>4, <2>5, <2>6 DEF Next
<1>2. CASE UNCHANGED vars
  <2> USE <1>2 DEF vars, poolVars, rxVars, statusVars, IInv
  <2>1. TypeOK'
    BY DEF TypeOK
  <2>2. LifeInv' /\ OwnInv'
    BY DEF LifeInv, OwnInv, Placed, NoFailure
  <2>3. OrderInv' /\ WholeInv'
    BY DEF OrderInv, WholeInv, Hand, NoFailure
  <2>4. SemInv' /\ RequestInv' /\ StatusInv'
    BY DEF SemInv, RequestInv, StatusInv, NoFailure
  <2> QED
    BY <2>1, <2>2, <2>3, <2>4
<1> QED
  BY <1>1, <1>2

(* The inductive invariant of the receiving side holds in every state      *)
(* (uart.c:308-469, 547-606, 845-946).                                     *)
THEOREM Inductive == Spec => []IInv
  BY InitStep, NextStep, PTL DEF Spec

(* The rx thread starts the device on a free buffer, and the device does   *)
(* not stay stopped, unless a request for a buffer came between the steps  *)
(* of the thread that put one back and that clear the last request         *)
(* (uart.c:317-330, 454-469).                                              *)
THEOREM BreakCorrect == Spec => []BreakNeedsRace
<1>1. IInv => BreakNeedsRace
  <2> SUFFICES ASSUME IInv PROVE BreakNeedsRace
    OBVIOUS
  <2>1. fault # "none" => fault = "null" /\ raced
    BY DEF IInv, RequestInv
  <2>2. ASSUME life = "up", rx.pc = "wait", rx_sem = 0, filling = NoNode, ~raced, NoFailure
        PROVE  FALSE
    BY <2>2 DEF IInv, RequestInv
  <2> QED
    BY <2>1, <2>2 DEF BreakNeedsRace
<1> QED
  BY <1>1, Inductive, PTL

(* When the status thread sleeps and no call failed, the peer knows the    *)
(* modem status of the device (uart.c:246-248, 384-402, 886).              *)
THEOREM StatusCorrect == Spec => []StatusSettles
<1>1. IInv => StatusSettles
  BY DEF IInv, StatusInv, StatusSettles
<1> QED
  BY <1>1, Inductive, PTL

(* A buffer is once at most in a queue without duplicates.                 *)
LEMMA CountFacts ==
  ASSUME NEW q \in Seq(Nodes), Distinct(q), NEW n
  PROVE  Cardinality({i \in DOMAIN q : q[i] = n}) = IF n \in Items(q) THEN 1 ELSE 0
<1>1. DOMAIN q = 1..Len(q)
  OBVIOUS
<1>2. CASE n \in Items(q)
  <2>1. PICK i \in 1..Len(q) : q[i] = n
    BY <1>2, QueueFacts
  <2>2. {j \in DOMAIN q : q[j] = n} = {i}
    BY <1>1, <2>1 DEF Distinct
  <2> QED
    BY <1>2, <2>2, FS_Singleton
<1>3. CASE n \notin Items(q)
  <2>1. {j \in DOMAIN q : q[j] = n} = {}
    BY <1>1, <1>3, QueueFacts
  <2> QED
    BY <1>3, <2>1, FS_EmptySet
<1> QED
  BY <1>2, <1>3

(* Every buffer has one owner: a queue, the rx thread or the device        *)
(* (uart.c:317-333, 436-463, 547-559, 904-946).                            *)
THEOREM OwnerCorrect == Spec => []OneOwner
<1>1. IInv => OneOwner
  <2> SUFFICES ASSUME IInv PROVE OneOwner
    OBVIOUS
  <2>1. \A n \in Nodes :
          /\ Placed(n) => Places(n) = 1
          /\ ~Placed(n) => Places(n) = 0
    <3> SUFFICES ASSUME NEW n \in Nodes
                 PROVE  (Placed(n) => Places(n) = 1) /\ (~Placed(n) => Places(n) = 0)
      OBVIOUS
    <3> DEFINE A == Cardinality({i \in DOMAIN free_queue : free_queue[i] = n})
               B == Cardinality({i \in DOMAIN data_queue : data_queue[i] = n})
    <3>1. A = IF n \in Items(free_queue) THEN 1 ELSE 0
      BY CountFacts DEF IInv, TypeOK, OwnInv
    <3>2. B = IF n \in Items(data_queue) THEN 1 ELSE 0
      BY CountFacts DEF IInv, TypeOK, OwnInv
    <3>3. Places(n) = A + B + (IF rx.node = n THEN 1 ELSE 0) + (IF filling = n THEN 1 ELSE 0)
      BY DEF Places
    <3>4. /\ n \in Items(free_queue) => n \notin Items(data_queue) /\ n # rx.node /\ n # filling
          /\ n \in Items(data_queue) => n # rx.node /\ n # filling
          /\ n = rx.node => n # filling
      BY NoSuchNode DEF IInv, OwnInv
    <3> HIDE DEF A, B
    <3> QED
      BY <3>1, <3>2, <3>3, <3>4 DEF Placed
  <2>2. \A n \in Nodes : Places(n) <= (IF heap[n] = "live" THEN 1 ELSE 0)
    BY <2>1 DEF IInv, OwnInv
  <2>3. filling # NoNode => filling = rx_node
    BY DEF IInv, OwnInv
  <2>4. life = "up" /\ NoFailure => \A n \in Nodes : Places(n) = 1
    BY <2>1 DEF IInv, OwnInv
  <2>5. ASSUME life = "closed", NEW n \in Nodes, heap[n] = "live"
        PROVE  n \in held \cup {rx_node}
    <3>1. rx.node = NoNode /\ free_queue = <<>> /\ \A x \in Items(data_queue) : x \in held
      BY <2>5 DEF IInv, LifeInv, OwnInv, Pooled
    <3>2. Placed(n) => n \in Items(data_queue) \/ n = rx_node
      BY <3>1, EmptyFacts, NoSuchNode DEF Placed, IInv, OwnInv
    <3> QED
      BY <2>5, <3>1, <3>2 DEF IInv, OwnInv
  <2> QED
    BY <2>2, <2>3, <2>4, <2>5 DEF OneOwner, IInv
<1> QED
  BY <1>1, Inductive, PTL

LEMMA ConcatFacts ==
  ASSUME NEW S, NEW s \in Seq(S), NEW t \in Seq(S)
  PROVE  /\ s \o t \in Seq(S)
         /\ Len(s \o t) = Len(s) + Len(t)
         /\ \A i \in 1..Len(s) : (s \o t)[i] = s[i]
         /\ \A i \in 1..Len(t) : (s \o t)[Len(s) + i] = t[i]
  OBVIOUS

UpTo(k) == [i \in 1..k |-> i]
InTurn(s, t, u) == s \o t \o u
From(s, k) == \A i \in 1..Len(s) : s[i] = k + i

(* Three sequences that number on from one another number all they hold.   *)
LEMMA NumberedFacts ==
  ASSUME NEW s \in Seq(Nat), NEW t \in Seq(Nat), NEW u \in Seq(Nat), NEW k \in Nat,
         Len(s) + Len(t) + Len(u) = k,
         From(s, 0), From(t, Len(s)), From(u, Len(s) + Len(t))
  PROVE  InTurn(s, t, u) = UpTo(k)
<1>1. PICK v \in Seq(Nat) :
        /\ v = s \o t /\ Len(v) = Len(s) + Len(t)
        /\ \A i \in 1..Len(s) : v[i] = s[i]
        /\ \A i \in 1..Len(t) : v[Len(s) + i] = t[i]
  <2>1. /\ s \o t \in Seq(Nat) /\ Len(s \o t) = Len(s) + Len(t)
        /\ \A i \in 1..Len(s) : (s \o t)[i] = s[i]
        /\ \A i \in 1..Len(t) : (s \o t)[Len(s) + i] = t[i]
    BY ConcatFacts
  <2> QED
    BY <2>1, Zenon
<1>2. PICK w \in Seq(Nat) :
        /\ w = v \o u /\ Len(w) = Len(v) + Len(u)
        /\ \A i \in 1..Len(v) : w[i] = v[i]
        /\ \A i \in 1..Len(u) : w[Len(v) + i] = u[i]
  <2>1. /\ v \o u \in Seq(Nat) /\ Len(v \o u) = Len(v) + Len(u)
        /\ \A i \in 1..Len(v) : (v \o u)[i] = v[i]
        /\ \A i \in 1..Len(u) : (v \o u)[Len(v) + i] = u[i]
    BY ConcatFacts
  <2> QED
    BY <2>1, Zenon
<1>3. PICK a \in Nat, b \in Nat, c \in Nat : a = Len(s) /\ b = Len(t) /\ c = Len(u)
  OBVIOUS
<1>0. /\ \A i \in 1..a : s[i] = i
      /\ \A i \in 1..b : t[i] = a + i
      /\ \A i \in 1..c : u[i] = a + b + i
  BY <1>3 DEF From
<1>4. \A i \in 1..a + b : v[i] = i
  <2> SUFFICES ASSUME NEW i \in 1..a + b PROVE v[i] = i
    OBVIOUS
  <2>1. CASE i \in 1..a
    BY <1>0, <1>1, <1>3, <2>1
  <2>2. CASE i \notin 1..a
    <3>1. PICK j \in 1..b : i = a + j
      <4>1. i - a \in 1..b /\ i = a + (i - a)
        BY <2>2
      <4> QED
        BY <4>1
    <3>2. v[a + j] = t[j] /\ t[j] = a + j
      BY <1>0, <1>1, <1>3
    <3> QED
      BY <3>1, <3>2
  <2> QED
    BY <2>1, <2>2
<1>5. \A i \in 1..k : w[i] = i
  <2> SUFFICES ASSUME NEW i \in 1..k PROVE w[i] = i
    OBVIOUS
  <2>1. CASE i \in 1..a + b
    BY <1>1, <1>2, <1>3, <1>4, <2>1
  <2>2. CASE i \notin 1..a + b
    <3>1. PICK j \in 1..c : i = a + b + j
      <4>1. i - (a + b) \in 1..c /\ i = a + b + (i - (a + b))
        BY <2>2, <1>3
      <4> QED
        BY <4>1
    <3>2. w[a + b + j] = u[j] /\ u[j] = a + b + j
      BY <1>0, <1>1, <1>2, <1>3
    <3> QED
      BY <3>1, <3>2
  <2> QED
    BY <2>1, <2>2
<1>6. Len(w) = k
  BY <1>1, <1>2, <1>3
<1>7. w = [i \in 1..k |-> i]
  BY <1>5, <1>6
<1> QED
  BY <1>1, <1>2, <1>7, Zenon DEF InTurn, UpTo

(* The chunks leave in the order they arrived; without a failure none is   *)
(* left out, and the thread sleeps only when all are sent                  *)
(* (uart.c:317-319, 430-454).                                              *)
THEOREM ChunksCorrect == Spec => []ChunksInOrder
<1>1. IInv => ChunksInOrder
  <2> SUFFICES ASSUME IInv PROVE ChunksInOrder
    OBVIOUS
  <2>1. \A i, j \in DOMAIN sent : i < j => sent[i] < sent[j]
    <3>1. DOMAIN sent = 1..Len(sent)
      BY DEF IInv, TypeOK
    <3> QED
      BY <3>1 DEF IInv, OrderInv
  <2>2. ASSUME life = "up", NoFailure
        PROVE  sent \o InHand \o Waiting = [i \in 1..arrived |-> i]
    <3>1. PICK m \in Nat :
            /\ m = Len(data_queue) /\ DOMAIN data_queue = 1..m
            /\ \A i \in 1..m : data_queue[i] \in Nodes
      BY DEF IInv, TypeOK
    <3>2. PICK w \in Seq(Nat) :
            w = Waiting /\ Len(w) = m /\ \A i \in 1..m : w[i] = chunk[data_queue[i]]
      <4>1. chunk \in [Nodes -> Nat]
        BY DEF IInv, TypeOK
      <4>2. Waiting = [i \in 1..m |-> chunk[data_queue[i]]]
        BY <3>1 DEF Waiting
      <4>3. [i \in 1..m |-> chunk[data_queue[i]]] \in Seq(Nat)
        BY <3>1, <4>1
      <4> QED
        BY <4>2, <4>3
    <3>3. PICK h \in Seq(Nat) :
            /\ h = InHand /\ Len(h) = Hand
            /\ rx.pc = "send" => h[1] = chunk[rx.node]
      <4>1. CASE rx.pc = "send"
        <5>1. chunk[rx.node] \in Nat
          BY <4>1 DEF IInv, TypeOK, OwnInv, Pointers
        <5>2. PICK c \in Nat : c = chunk[rx.node]
          BY <5>1
        <5>3. <<c>> \in Seq(Nat) /\ Len(<<c>>) = 1 /\ <<c>>[1] = c
          OBVIOUS
        <5>4. InHand = <<c>> /\ Hand = 1
          BY <4>1, <5>2 DEF InHand, Hand
        <5> QED
          BY <5>2, <5>3, <5>4, Zenon
      <4>2. CASE rx.pc # "send"
        <5>1. <<>> \in Seq(Nat) /\ Len(<<>>) = 0
          OBVIOUS
        <5>2. InHand = <<>> /\ Hand = 0
          BY <4>2 DEF InHand, Hand
        <5> QED
          BY <4>2, <5>1, <5>2, Zenon
      <4> QED
        BY <4>1, <4>2
    <3>4. /\ Len(sent) + Hand + m = arrived
          /\ \A i \in 1..Len(sent) : sent[i] = i
          /\ rx.pc = "send" => chunk[rx.node] = Len(sent) + 1
          /\ \A i \in 1..m : chunk[data_queue[i]] = Len(sent) + Hand + i
      BY <2>2, <3>1 DEF IInv, WholeInv
    <3>5. \A i \in 1..Len(h) : h[i] = Len(sent) + i
      BY <3>3, <3>4 DEF Hand
    <3>6. /\ Len(sent) + Len(h) + Len(w) = arrived
          /\ \A i \in 1..Len(w) : w[i] = Len(sent) + Len(h) + i
      BY <3>2, <3>3, <3>4
    <3>7. PICK s \in Seq(Nat), k \in Nat : s = sent /\ k = arrived
      BY DEF IInv, TypeOK
    <3>8. /\ Len(s) + Len(h) + Len(w) = k
          /\ From(s, 0) /\ From(h, Len(s)) /\ From(w, Len(s) + Len(h))
      BY <3>4, <3>5, <3>6, <3>7 DEF From
    <3>9. InTurn(s, h, w) = UpTo(k)
      BY <3>8, NumberedFacts
    <3> QED
      BY <3>2, <3>3, <3>7, <3>9, Zenon DEF InTurn, UpTo
  <2>3. life = "up" /\ rx.pc = "wait" /\ rx_sem = 0 => data_queue = <<>>
    BY QueueFacts DEF IInv, TypeOK, SemInv
  <2> QED
    BY <2>1, <2>2, <2>3 DEF ChunksInOrder
<1> QED
  BY <1>1, Inductive, PTL
=============================================================================
