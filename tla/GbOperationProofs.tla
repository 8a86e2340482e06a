------------------------- MODULE GbOperationProofs -------------------------
(***************************************************************************)
(* Theorems about requests and their responses, for any operations,        *)
(* responses, senders and bounds: the safety properties of GbOperation     *)
(* that TLC checks on a small instance.                                    *)
(***************************************************************************)
EXTENDS GbOperation, FiniteSetTheorems, TLAPS

(* The request has passed the id-giving section of                         *)
(* gb_operation_send_request.                                              *)
Numbered(o) == stamp[o] > 0

(* The request is still to be answered: in tx_fifo, or just taken from it. *)
Waiting(o) == Linked(o) \/ (worker.pc = "callback" /\ worker.cur = o)

(* Who holds a reference of a response: rx_fifo, the worker, requests.     *)
Queued(r) == \E i \in DOMAIN rx_fifo : rx_fifo[i] = r
InHand(r) == worker.pc # "idle" /\ worker.resp = r
Holders(r) == {o \in Ops : mem[o] = "live" /\ response[o] = r}

-----------------------------------------------------------------------------
(* The parts of the inductive invariant.                                   *)

(* Each sender has an operation of its own while it is in a call, numbered *)
(* from its second step on.                                                *)
SenderInv ==
  /\ \A s \in Senders :
       /\ sender[s].op = NoOp <=> sender[s].pc = "idle"
       /\ sender[s].pc = "idle" => sender[s] = SenderIdle
       /\ \A o \in Ops : sender[s].op = o =>
            (Numbered(o) <=> sender[s].pc # "number")
  /\ \A s, t \in Senders :
       sender[s].op = sender[t].op /\ sender[s].op # NoOp => s = t

(* An operation is in tx_fifo at most once, not while the worker has it,   *)
(* and only after it was numbered.                                         *)
ListInv ==
  /\ \A i, j \in 1..Len(tx_fifo) : tx_fifo[i] = tx_fifo[j] => i = j
  /\ \A o \in Ops : (Linked(o) \/ Taken(o)) => Numbered(o)
  /\ \A o \in Ops : ~(Linked(o) /\ Taken(o))
  /\ worker.pc = "idle" => worker = WorkerIdle
  /\ worker.pc # "idle" => worker.resp \in Resps
  /\ worker.pc \in {"callback", "unref"} =>
       worker.cur \in Ops

(* The counts of references, and that a response's holders are finite.     *)
OpRefs ==
  \A o \in Ops :
    /\ ref_count[o] = One(Owned(o)) + One(Linked(o) \/ Taken(o))
    /\ mem[o] = "live" <=> ref_count[o] > 0

RespRefs ==
  \A r \in Resps :
    /\ IsFiniteSet(Holders(r))
    /\ resp_refs[r] = One(Queued(r)) + One(InHand(r)) + Cardinality(Holders(r))

(* What is not numbered has never been seen by the list, the peer or the   *)
(* worker; what waits has not been answered; an answer comes once.         *)
AnswerInv ==
  /\ \A o \in Ops : (~Numbered(o) \/ Waiting(o)) =>
       /\ response[o] = NoOp /\ called[o] = 0 /\ sync_sem[o] = 0
       /\ o \notin failed \cup flushed
  /\ \A o \in Ops :
       /\ called[o] <= 1
       /\ called[o] = 1 => o \notin failed \cup flushed
       /\ sync_sem[o] > 0 => response[o] # NoOp
       /\ mem[o] = "unused" => ~Numbered(o)

(* The synchronous form destroys its request with the response in it.      *)
SyncInv ==
  \A s \in Senders, o \in Ops :
    sender[s].pc = "destroy" /\ sender[s].sync /\ sender[s].op = o /\ o \notin failed
      => response[o] # NoOp

(* The peer answers requests it received, each response once.              *)
PeerInv ==
  /\ \A o \in wire : Numbered(o)
  /\ \A r \in Resps, o \in Ops : answers[r] = o => Numbered(o)
  /\ \A s \in Senders, o \in Ops : sender[s].pc = "send" /\ sender[s].op = o =>
       o \notin wire /\ \A r \in Resps : answers[r] # o
  /\ \A i, j \in 1..Len(rx_fifo) : rx_fifo[i] = rx_fifo[j] => i = j
  /\ \A r \in Resps : ~(Queued(r) /\ InHand(r))
  /\ \A r \in Resps :
       \/ Queued(r) \/ InHand(r) \/ r \in dropped
       \/ \E o \in Ops : response[o] = r
       => answers[r] # NoOp

(* Stamps are taken from a counter that only grows.                        *)
StampInv ==
  /\ \A o \in Ops : Numbered(o) => stamp[o] < request_id
  /\ \A o, p \in Ops : Numbered(o) /\ stamp[o] = stamp[p] => o = p

(* The worker has returned when gb_flush_tx_fifo begins.                   *)
TurnInv ==
  worker.pc # "idle" \/ rx_fifo # <<>> => life \in {"up", "closing"}

(* Where the walk of gb_process_response is, as long as no send has        *)
(* failed: the element in hand is in the list, the saved one is its        *)
(* successor, and the request the response answers is not behind.          *)
WalkInv ==
  failed = {} /\ worker.pc = "walk" =>
    /\ worker.cur = NoOp =>
         \A j \in 1..Len(tx_fifo) : tx_fifo[j] # answers[worker.resp]
    /\ worker.cur # NoOp =>
         \E i \in 1..Len(tx_fifo) :
           /\ tx_fifo[i] = worker.cur
           /\ worker.nxt # NoOp =>
                i < Len(tx_fifo) /\ tx_fifo[i + 1] = worker.nxt
           /\ \A j \in 1..Len(tx_fifo) : tx_fifo[j] = answers[worker.resp] =>
                j >= i /\ (j > i => worker.nxt # NoOp)

(* Where the walk of gb_flush_tx_fifo is: at the head of the list.         *)
FlushInv ==
  failed = {} /\ life = "flush" /\ cursor.cur # NoOp =>
    /\ Len(tx_fifo) > 0
    /\ tx_fifo[1] = cursor.cur
    /\ cursor.nxt # NoOp => Len(tx_fifo) > 1 /\ tx_fifo[2] = cursor.nxt

(* A request whose send has not yet returned is linked, unless it was      *)
(* flushed or taken for another one.                                       *)
SendInv ==
  \A s \in Senders : sender[s].pc = "send" =>
    \A o \in Ops : sender[s].op = o => Linked(o) \/ o \in flushed \/ Misled(o)

IInv ==
  /\ TypeOK /\ SenderInv /\ ListInv
  /\ OpRefs /\ RespRefs
  /\ AnswerInv /\ SyncInv /\ PeerInv /\ StampInv
  /\ TurnInv /\ WalkInv /\ FlushInv /\ SendInv
  /\ WalksAreSafe /\ WrongAnswerNeedsWrap

-----------------------------------------------------------------------------
(* The list.                                                               *)

(* A linked operation is at its place.                                     *)
LEMMA PlaceFacts ==
  ASSUME TypeOK, NEW o, Linked(o)
  PROVE  /\ Place(o) \in 1..Len(tx_fifo)
         /\ tx_fifo[Place(o)] = o
         /\ Len(tx_fifo) \in Nat
         /\ o \in Ops
<1>1. \E i \in DOMAIN tx_fifo : tx_fifo[i] = o
  BY DEF Linked
<1>2. Place(o) \in DOMAIN tx_fifo /\ tx_fifo[Place(o)] = o
  BY <1>1 DEF Place
<1> QED
  BY <1>2 DEF TypeOK

(* An operation is linked when it is at some index.                        *)
LEMMA LinkedFacts ==
  ASSUME TypeOK, NEW o
  PROVE  /\ Len(tx_fifo) \in Nat
         /\ Linked(o) <=> \E i \in 1..Len(tx_fifo) : tx_fifo[i] = o
         /\ \A i \in 1..Len(tx_fifo) : tx_fifo[i] \in Ops
  BY DEF TypeOK, Linked

(* sys_dlist_peek_next returns an operation of the list, or NULL.          *)
LEMMA AfterFacts ==
  ASSUME TypeOK, NEW o
  PROVE  /\ After(o) \in Pointers
         /\ First \in Pointers
         /\ First # NoOp => Len(tx_fifo) > 0 /\ tx_fifo[1] = First
         /\ First = NoOp => tx_fifo = <<>>
<1>1. After(o) \in Pointers
  <2>1. CASE Linked(o)
    BY <2>1, PlaceFacts, LinkedFacts DEF After, Pointers
  <2> QED
    BY <2>1 DEF After, Pointers
<1>2. CASE tx_fifo = <<>>
  BY <1>1, <1>2 DEF First, Pointers
<1>3. CASE tx_fifo # <<>>
  <2>1. tx_fifo \in Seq(Ops) /\ NoOp \notin Ops
    BY OperationAssumption DEF TypeOK, OperationAssumption
  <2>2. Head(tx_fifo) = tx_fifo[1] /\ Len(tx_fifo) > 0 /\ Head(tx_fifo) \in Ops
    BY <1>3, <2>1
  <2> QED
    BY <1>1, <1>3, <2>1, <2>2 DEF First, Pointers
<1> QED
  BY <1>2, <1>3

(* sys_dlist_append of an operation that is not linked.                    *)
LEMMA LinkFacts ==
  ASSUME TypeOK, NEW o \in Ops, tx_fifo' = Append(tx_fifo, o)
  PROVE  /\ tx_fifo' \in Seq(Ops)
         /\ Len(tx_fifo') = Len(tx_fifo) + 1
         /\ tx_fifo'[Len(tx_fifo')] = o
         /\ \A i \in 1..Len(tx_fifo) : tx_fifo'[i] = tx_fifo[i]
         /\ \A p : Linked(p)' <=> Linked(p) \/ p = o
<1>1. tx_fifo \in Seq(Ops) /\ Len(tx_fifo) \in Nat
  BY DEF TypeOK
<1>2. /\ tx_fifo' \in Seq(Ops)
      /\ Len(tx_fifo') = Len(tx_fifo) + 1
      /\ tx_fifo'[Len(tx_fifo')] = o
      /\ \A i \in 1..Len(tx_fifo) : tx_fifo'[i] = tx_fifo[i]
      /\ DOMAIN tx_fifo = 1..Len(tx_fifo)
      /\ DOMAIN tx_fifo' = 1..Len(tx_fifo')
  BY <1>1
<1>3. ASSUME NEW p PROVE Linked(p)' <=> Linked(p) \/ p = o
  BY <1>1, <1>2 DEF Linked
<1> QED
  BY <1>2, <1>3

(* sys_dlist_remove of an operation that is linked once.                   *)
LEMMA UnlinkFacts ==
  ASSUME TypeOK, ListInv, NEW o, Linked(o), Unlink(o)
  PROVE  /\ tx_fifo' \in Seq(Ops)
         /\ Len(tx_fifo') = Len(tx_fifo) - 1
         /\ \A i \in 1..Len(tx_fifo') :
              tx_fifo'[i] = IF i < Place(o) THEN tx_fifo[i] ELSE tx_fifo[i + 1]
         /\ \A i, j \in 1..Len(tx_fifo') : tx_fifo'[i] = tx_fifo'[j] => i = j
         /\ \A p : Linked(p)' <=> Linked(p) /\ p # o
<1> DEFINE n == Len(tx_fifo) - 1
           e(i) == IF i < Place(o) THEN tx_fifo[i] ELSE tx_fifo[i + 1]
<1>1. /\ Place(o) \in 1..Len(tx_fifo) /\ tx_fifo[Place(o)] = o
      /\ Len(tx_fifo) \in Nat
      /\ \A i \in 1..Len(tx_fifo) : tx_fifo[i] \in Ops
      /\ \A i, j \in 1..Len(tx_fifo) : tx_fifo[i] = tx_fifo[j] => i = j
  BY PlaceFacts, LinkedFacts DEF ListInv
<1>2. n \in Nat /\ \A i \in 1..n : e(i) \in Ops
  BY <1>1
<1>3. tx_fifo' = [i \in 1..n |-> e(i)]
  BY DEF Unlink
<1> HIDE DEF n, e
<1>4. tx_fifo' \in Seq(Ops) /\ Len(tx_fifo') = n /\ DOMAIN tx_fifo' = 1..n
  BY <1>2, <1>3
<1>5. \A i \in 1..Len(tx_fifo') : tx_fifo'[i] = e(i)
  BY <1>3, <1>4
<1> USE DEF n, e
<1>6. \A i, j \in 1..Len(tx_fifo') : tx_fifo'[i] = tx_fifo'[j] => i = j
  BY <1>1, <1>4, <1>5
<1>7. ASSUME NEW p PROVE Linked(p)' <=> Linked(p) /\ p # o
  <2>1. ASSUME NEW i \in 1..Len(tx_fifo'), tx_fifo'[i] = p
        PROVE  Linked(p) /\ p # o
    <3>1. /\ i < Place(o) => i \in 1..Len(tx_fifo) /\ tx_fifo[i] = p /\ i # Place(o)
          /\ ~(i < Place(o)) => i + 1 \in 1..Len(tx_fifo) /\ tx_fifo[i + 1] = p /\ i + 1 # Place(o)
      BY <1>1, <1>4, <1>5, <2>1
    <3> QED
      BY <3>1, <1>1, LinkedFacts
  <2>2. ASSUME NEW i \in 1..Len(tx_fifo), tx_fifo[i] = p, p # o
        PROVE  \E j \in DOMAIN tx_fifo' : tx_fifo'[j] = p
    <3>1. CASE i < Place(o)
      <4>1. i \in DOMAIN tx_fifo' /\ tx_fifo'[i] = p
        BY <1>1, <1>4, <1>5, <2>2, <3>1
      <4> QED
        BY <4>1
    <3>2. CASE i > Place(o)
      <4>1. i - 1 \in DOMAIN tx_fifo' /\ tx_fifo'[i - 1] = p
        BY <1>1, <1>4, <1>5, <2>2, <3>2
      <4> QED
        BY <4>1
    <3>3. i # Place(o)
      BY <1>1, <2>2
    <3> QED
      BY <1>1, <3>1, <3>2, <3>3
  <2>3. Linked(p)' <=> \E i \in 1..Len(tx_fifo') : tx_fifo'[i] = p
    BY <1>4 DEF Linked
  <2>4. Linked(p)' => Linked(p) /\ p # o
    BY <2>1, <2>3
  <2>5. Linked(p) /\ p # o => Linked(p)'
    BY <2>2, <2>3, <1>4, LinkedFacts
  <2> QED
    BY <2>4, <2>5
<1> QED
  BY <1>4, <1>5, <1>6, <1>7

-----------------------------------------------------------------------------
(* Threads and counts.                                                     *)

(* A sender inside a call has an operation.                                *)
LEMMA SenderFacts ==
  ASSUME TypeOK, SenderInv, NEW s \in Senders
  PROVE  /\ sender[s].pc # "idle" => sender[s].op \in Ops /\ Owned(sender[s].op)
         /\ sender[s].pc \in {"idle", "number", "send", "sent", "wait", "destroy"}
         /\ sender[s].sync \in BOOLEAN
         /\ sender[s].op \in Pointers
  BY DEF TypeOK, SenderInv, Pointers, Owned

(* A sender goes to another place in the same call.                        *)
LEMMA MoveFacts ==
  ASSUME TypeOK, NEW s \in Senders,
         NEW p \in {"idle", "number", "send", "sent", "wait", "destroy"},
         sender' = [sender EXCEPT ![s].pc = p]
  PROVE  /\ sender' \in [Senders ->
              [pc : {"idle", "number", "send", "sent", "wait", "destroy"},
               op : Pointers, sync : BOOLEAN]]
         /\ sender'[s].pc = p
         /\ sender'[s].op = sender[s].op
         /\ sender'[s].sync = sender[s].sync
         /\ \A t \in Senders : t # s => sender'[t] = sender[t]
         /\ \A t \in Senders : sender'[t].op = sender[t].op
         /\ \A o : Owned(o)' <=> Owned(o)
  BY DEF TypeOK, Owned

(* One counts as it should.                                                *)
LEMMA OneFacts ==
  ASSUME NEW b \in BOOLEAN
  PROVE  One(b) \in {0, 1} /\ (One(b) = 1 <=> b)
  BY DEF One

(* A response is held by as many operations as hold it: adding or taking   *)
(* away one holder changes the count by one.                               *)
LEMMA HoldersFacts ==
  ASSUME RespRefs, NEW r \in Resps, NEW o
  PROVE  /\ IsFiniteSet(Holders(r)) /\ Cardinality(Holders(r)) \in Nat
         /\ IsFiniteSet(Holders(r) \cup {o}) /\ IsFiniteSet(Holders(r) \ {o})
         /\ o \in Holders(r) =>
              Cardinality(Holders(r)) > 0
              /\ Cardinality(Holders(r) \ {o}) = Cardinality(Holders(r)) - 1
         /\ o \notin Holders(r) =>
              Cardinality(Holders(r) \cup {o}) = Cardinality(Holders(r)) + 1
<1>1. IsFiniteSet(Holders(r))
  BY DEF RespRefs
<1>2. Cardinality(Holders(r)) \in Nat
  BY <1>1, FS_CardinalityType
<1>3. o \in Holders(r) => Cardinality(Holders(r)) # 0
  BY <1>1, FS_EmptySet
<1>4. /\ IsFiniteSet(Holders(r) \cup {o})
      /\ Cardinality(Holders(r) \cup {o}) =
           IF o \in Holders(r) THEN Cardinality(Holders(r)) ELSE Cardinality(Holders(r)) + 1
  BY <1>1, FS_AddElement
<1>5. /\ IsFiniteSet(Holders(r) \ {o})
      /\ Cardinality(Holders(r) \ {o}) =
           IF o \in Holders(r) THEN Cardinality(Holders(r)) - 1 ELSE Cardinality(Holders(r))
  BY <1>1, FS_RemoveElement
<1> QED
  BY <1>1, <1>2, <1>3, <1>4, <1>5

(* gb_operation_unref of an operation somebody holds: its count goes down, *)
(* it stays live while the count is not 0, and of the response it holds    *)
(* only its own reference goes.                                            *)
LEMMA UnrefFacts ==
  ASSUME TypeOK, OpRefs, RespRefs, NEW o \in Ops, ref_count[o] > 0,
         Unref(o), UNCHANGED response
  PROVE  /\ ref_count' \in [Ops -> Nat]
         /\ mem' \in [Ops -> {"unused", "live", "freed"}]
         /\ resp_refs' \in [Resps -> Nat]
         /\ ref_count'[o] = ref_count[o] - 1
         /\ \A p \in Ops \ {o} : ref_count'[p] = ref_count[p]
         /\ \A p \in Ops : mem'[p] = "live" <=> ref_count'[p] > 0
         /\ \A p \in Ops : mem'[p] = "unused" <=> mem[p] = "unused"
         /\ \A r \in Resps :
              /\ IsFiniteSet(Holders(r)')
              /\ Cardinality(Holders(r)') \in Nat
              /\ resp_refs'[r] - Cardinality(Holders(r)')
                   = resp_refs[r] - Cardinality(Holders(r))
<1>1. /\ ref_count' = [ref_count EXCEPT ![o] = @ - 1]
      /\ ref_count \in [Ops -> Nat] /\ mem \in [Ops -> {"unused", "live", "freed"}]
      /\ resp_refs \in [Resps -> Nat] /\ response' = response
      /\ mem[o] = "live"
  BY DEF Unref, TypeOK, OpRefs
<1>2. \A r \in Resps : Cardinality(Holders(r)) \in Nat /\ IsFiniteSet(Holders(r))
                       /\ resp_refs[r] \in Nat /\ resp_refs[r] >= Cardinality(Holders(r))
  <2> TAKE r \in Resps
  <2>1. Cardinality(Holders(r)) \in Nat /\ IsFiniteSet(Holders(r))
    BY HoldersFacts
  <2>2. resp_refs[r] \in Nat
    BY <1>1
  <2>3. \E a, b \in {0, 1} : resp_refs[r] = a + b + Cardinality(Holders(r))
    BY DEF RespRefs, One, InHand
  <2> QED
    BY <2>1, <2>2, <2>3
<1>3. CASE ref_count[o] # 1
  <2>1. UNCHANGED <<mem, resp_refs>>
    BY <1>3 DEF Unref
  <2>2. \A r \in Resps : Holders(r)' = Holders(r)
    BY <1>1, <2>1 DEF Holders
  <2> QED
    BY <1>1, <1>2, <1>3, <2>1, <2>2 DEF OpRefs
<1>4. CASE ref_count[o] = 1
  <2>1. /\ mem' = [mem EXCEPT ![o] = "freed"]
        /\ resp_refs' = [r \in Resps |->
             IF r = response[o] THEN resp_refs[r] - 1 ELSE resp_refs[r]]
    BY <1>4 DEF Unref
  <2>2. ASSUME NEW r \in Resps
        PROVE  /\ IsFiniteSet(Holders(r)') /\ Cardinality(Holders(r)') \in Nat
               /\ resp_refs'[r] \in Nat
               /\ resp_refs'[r] - Cardinality(Holders(r)')
                    = resp_refs[r] - Cardinality(Holders(r))
    <3>1. CASE r = response[o]
      <4>1. o \in Holders(r) /\ Holders(r)' = Holders(r) \ {o}
        BY <1>1, <2>1, <3>1 DEF Holders
      <4>2. /\ IsFiniteSet(Holders(r) \ {o})
            /\ Cardinality(Holders(r)) > 0
            /\ Cardinality(Holders(r) \ {o}) = Cardinality(Holders(r)) - 1
        BY <4>1, HoldersFacts
      <4>3. resp_refs'[r] = resp_refs[r] - 1
        BY <2>1, <3>1
      <4> QED
        BY <1>2, <4>1, <4>2, <4>3
    <3>2. CASE r # response[o]
      <4>1. Holders(r)' = Holders(r)
        BY <1>1, <2>1, <3>2 DEF Holders
      <4> QED
        BY <1>2, <2>1, <3>2, <4>1
    <3> QED
      BY <3>1, <3>2
  <2>3. resp_refs' \in [Resps -> Nat]
    BY <2>1, <2>2
  <2> QED
    BY <1>1, <1>4, <2>1, <2>2, <2>3 DEF OpRefs
<1> QED
  BY <1>3, <1>4

(* The access that crashes the system changes nothing else.                *)
LEMMA CrashFrame ==
  ASSUME NEW what, Crash(what)
  PROVE  /\ fault' = what
         /\ UNCHANGED <<mem, ref_count, stamp, response, called, sync_sem, answers,
                        resp_refs, request_id, tx_fifo, wire, rx_fifo, sender, worker,
                        life, cursor, failed, lost, flushed, dropped>>
  BY DEF Crash, opVars, respVars, ghosts

(* A response arrives: it is new, and goes to the tail of rx_fifo.         *)
LEMMA PeerFrame ==
  ASSUME NEW o \in Ops, NEW r \in Resps, AnswersOnce(o, r) \/ AnswersAgain(o, r)
  PROVE  /\ o \in wire /\ answers[r] = NoOp
         /\ life \in {"up", "closing"}
         /\ answers' = [answers EXCEPT ![r] = o]
         /\ resp_refs' = [resp_refs EXCEPT ![r] = 1]
         /\ rx_fifo' = Append(rx_fifo, r)
         /\ wire' \subseteq wire
         /\ UNCHANGED <<mem, ref_count, stamp, response, called, sync_sem, request_id,
                        tx_fifo, sender, worker, life, cursor, failed, lost, flushed,
                        dropped, fault>>
<1>1. PeerAnswers(o, r) /\ (wire' = wire \ {o} \/ wire' = wire)
  BY DEF AnswersOnce, AnswersAgain
<1>2. /\ o \in wire /\ answers[r] = NoOp
      /\ life \in {"up", "closing"}
      /\ answers' = [answers EXCEPT ![r] = o]
      /\ resp_refs' = [resp_refs EXCEPT ![r] = 1]
      /\ rx_fifo' = Append(rx_fifo, r)
      /\ UNCHANGED <<opVars, request_id, tx_fifo, sender, worker, life, cursor, ghosts, fault>>
  BY <1>1, Zenon DEF PeerAnswers
<1> QED
  BY <1>1, <1>2 DEF opVars, ghosts

(* An operation somebody holds is live and has a positive count.           *)
LEMMA HeldFacts ==
  ASSUME TypeOK, OpRefs, NEW o \in Ops, Owned(o) \/ Linked(o) \/ Taken(o)
  PROVE  ref_count[o] > 0 /\ mem[o] = "live"
  BY DEF TypeOK, OpRefs, One

-----------------------------------------------------------------------------
(* Every step keeps the types.                                             *)
LEMMA TypeStep ==
  ASSUME TypeOK, SenderInv, ListInv, OpRefs, RespRefs, [Next]_vars
  PROVE  TypeOK'
<1> USE DEF opVars, respVars, ghosts
<1>1. ASSUME NEW s \in Senders, NEW o \in Ops, Refused(s, o) PROVE TypeOK'
  BY <1>1 DEF Refused, TypeOK
<1>2. ASSUME NEW s \in Senders, NEW o \in Ops, NEW b \in BOOLEAN, SendCheck(s, o, b)
      PROVE  TypeOK'
  BY <1>2 DEF SendCheck, TypeOK, Pointers
<1>3. ASSUME NEW s \in Senders, SendNumber(s) PROVE TypeOK'
  <2>1. sender[s].op \in Ops
    BY <1>3, SenderFacts DEF SendNumber
  <2>2. NextId \in Nat
    BY OperationAssumption DEF NextId, TypeOK, OperationAssumption
  <2>3. tx_fifo' \in Seq(Ops)
    BY <1>3, <2>1, LinkFacts DEF SendNumber
  <2>4. sender' \in [Senders ->
              [pc : {"idle", "number", "send", "sent", "wait", "destroy"},
               op : Pointers, sync : BOOLEAN]]
    BY <1>3, MoveFacts DEF SendNumber
  <2>5. /\ ref_count' \in [Ops -> Nat] /\ stamp' \in [Ops -> Nat]
        /\ request_id' \in Nat
    BY <1>3, <2>1, <2>2 DEF SendNumber, Ref, TypeOK
  <2> QED
    BY <1>3, <2>3, <2>4, <2>5 DEF SendNumber, TypeOK
<1>4. ASSUME NEW s \in Senders, SendTransmit(s) \/ SendReturns(s) PROVE TypeOK'
  <2>1. sender[s].op \in Ops
    BY <1>4, SenderFacts DEF SendTransmit, SendReturns
  <2>2. sender' \in [Senders ->
              [pc : {"idle", "number", "send", "sent", "wait", "destroy"},
               op : Pointers, sync : BOOLEAN]]
    BY <1>4, MoveFacts DEF SendTransmit, SendReturns
  <2> QED
    BY <1>4, <2>1, <2>2 DEF SendTransmit, SendReturns, TypeOK
<1>5. ASSUME NEW s \in Senders, SendFails(s) PROVE TypeOK'
  <2>1. CASE ~Linked(sender[s].op)
    BY <1>5, <2>1, CrashFrame DEF SendFails, TypeOK
  <2>2. CASE Linked(sender[s].op)
    <3>1. sender[s].op \in Ops /\ ref_count[sender[s].op] > 0
      BY <1>5, <2>2, SenderFacts, HeldFacts DEF SendFails
    <3>2. tx_fifo' \in Seq(Ops)
      BY <1>5, <2>2, UnlinkFacts DEF SendFails
    <3>3. sender' \in [Senders ->
                [pc : {"idle", "number", "send", "sent", "wait", "destroy"},
                 op : Pointers, sync : BOOLEAN]]
      BY <1>5, <2>2, MoveFacts DEF SendFails
    <3>4. /\ ref_count' \in [Ops -> Nat]
          /\ mem' \in [Ops -> {"unused", "live", "freed"}]
          /\ resp_refs' \in [Resps -> Nat]
      BY <1>5, <2>2, <3>1, UnrefFacts DEF SendFails
    <3> QED
      BY <1>5, <2>2, <3>1, <3>2, <3>3, <3>4 DEF SendFails, TypeOK
  <2> QED
    BY <2>1, <2>2
<1>6. ASSUME NEW s \in Senders, SyncWakes(s) PROVE TypeOK'
  <2>1. sender[s].op \in Ops
    BY <1>6, SenderFacts DEF SyncWakes
  <2>2. sender' \in [Senders ->
              [pc : {"idle", "number", "send", "sent", "wait", "destroy"},
               op : Pointers, sync : BOOLEAN]]
    BY <1>6, MoveFacts DEF SyncWakes
  <2> QED
    BY <1>6, <2>1, <2>2 DEF SyncWakes, Posted, TypeOK
<1>7. ASSUME NEW s \in Senders, SendDestroy(s) PROVE TypeOK'
  <2>1. sender[s].op \in Ops /\ ref_count[sender[s].op] > 0
    BY <1>7, SenderFacts, HeldFacts DEF SendDestroy
  <2>2. /\ ref_count' \in [Ops -> Nat]
        /\ mem' \in [Ops -> {"unused", "live", "freed"}]
        /\ resp_refs' \in [Resps -> Nat]
    BY <1>7, <2>1, UnrefFacts DEF SendDestroy
  <2> QED
    <3>1. SenderIdle \in
            [pc : {"idle", "number", "send", "sent", "wait", "destroy"},
             op : Pointers, sync : BOOLEAN]
      BY DEF SenderIdle, Pointers
    <3> QED
      BY <1>7, <2>2, <3>1 DEF SendDestroy, TypeOK
<1>8. ASSUME NEW o \in Ops, NEW r \in Resps, AnswersOnce(o, r) \/ AnswersAgain(o, r)
      PROVE  TypeOK'
  <2>1. rx_fifo' = Append(rx_fifo, r) /\ rx_fifo \in Seq(Resps)
    BY <1>8, PeerFrame DEF TypeOK
  <2>2. rx_fifo' \in Seq(Resps)
    BY <2>1
  <2>3. /\ answers' = [answers EXCEPT ![r] = o]
        /\ resp_refs' = [resp_refs EXCEPT ![r] = 1]
        /\ wire' \subseteq wire
        /\ UNCHANGED <<mem, ref_count, stamp, response, called, sync_sem, request_id,
                       tx_fifo, sender, worker, life, cursor, failed, lost, flushed,
                       dropped, fault>>
    BY <1>8, PeerFrame
  <2>4. answers' \in [Resps -> Pointers] /\ resp_refs' \in [Resps -> Nat] /\ wire' \subseteq Ops
    BY <1>8, <2>3 DEF TypeOK, Pointers
  <2> QED
    BY <2>2, <2>3, <2>4 DEF TypeOK
<1>9. ASSUME NEW o \in Ops, Lose(o) PROVE TypeOK'
  BY <1>9 DEF Lose, TypeOK
<1>10. CASE WorkerGet
  <2>1. Head(rx_fifo) \in Resps /\ Tail(rx_fifo) \in Seq(Resps)
    BY <1>10 DEF WorkerGet, TypeOK
  <2>2. First \in Pointers /\ After(First) \in Pointers
    BY AfterFacts
  <2> QED
    BY <1>10, <2>1, <2>2 DEF WorkerGet, TypeOK, RespPointers
<1>11. CASE WorkerNext
  <2>1. After(worker.nxt) \in Pointers
    BY AfterFacts
  <2> QED
    BY <1>11, <2>1 DEF WorkerNext, TypeOK
<1>12. CASE WorkerFreed
  BY <1>12, CrashFrame DEF WorkerFreed, TypeOK
<1>13. CASE WorkerMatch
  <2>1. CASE ~Linked(worker.cur)
    BY <1>13, <2>1, CrashFrame DEF WorkerMatch, TypeOK
  <2>2. CASE Linked(worker.cur)
    <3>1. tx_fifo' \in Seq(Ops)
      BY <1>13, <2>2, UnlinkFacts DEF WorkerMatch
    <3>2. worker' \in [pc : {"idle", "walk", "callback", "unref", "destroy"},
                       resp : RespPointers, cur : Pointers, nxt : Pointers]
      BY <1>13, <2>2 DEF WorkerMatch, TypeOK
    <3> QED
      BY <1>13, <2>2, <3>1, <3>2 DEF WorkerMatch, TypeOK
  <2> QED
    BY <2>1, <2>2
<1>14. CASE WorkerCallback
  <2>1. worker.cur \in Ops /\ worker.resp \in Resps
    BY <1>14 DEF WorkerCallback, ListInv
  <2>4. /\ resp_refs' \in [Resps -> Nat]
        /\ response' \in [Ops -> RespPointers]
    BY <1>14, <2>1 DEF WorkerCallback, RefResponse, TypeOK, RespPointers
  <2>2. called' \in [Ops -> Nat] /\ sync_sem' \in [Ops -> Nat]
    BY <1>14, <2>1 DEF WorkerCallback, PostSync, TypeOK
  <2>3. worker' \in [pc : {"idle", "walk", "callback", "unref", "destroy"},
                     resp : RespPointers, cur : Pointers, nxt : Pointers]
    BY <1>14 DEF WorkerCallback, TypeOK
  <2> QED
    BY <1>14, <2>4, <2>2, <2>3 DEF WorkerCallback, TypeOK
<1>15. CASE WorkerUnref
  <2>1. worker.cur \in Ops /\ Taken(worker.cur)
    BY <1>15 DEF WorkerUnref, ListInv, Taken
  <2>2. /\ ref_count' \in [Ops -> Nat]
        /\ mem' \in [Ops -> {"unused", "live", "freed"}]
        /\ resp_refs' \in [Resps -> Nat]
    BY <1>15, <2>1, HeldFacts, UnrefFacts DEF WorkerUnref
  <2> QED
    BY <1>15, <2>1, <2>2 DEF WorkerUnref, TypeOK
<1>16. CASE WorkerDrop
  BY <1>16 DEF WorkerDrop, ListInv, TypeOK
<1>17. CASE WorkerDestroy
  <2>1. worker.resp \in Resps
    BY <1>17 DEF WorkerDestroy, ListInv
  <2>2. \E a \in {0, 1} : resp_refs[worker.resp] = a + 1 + Cardinality(Holders(worker.resp))
    BY <1>17, <2>1 DEF WorkerDestroy, RespRefs, One, InHand
  <2>3. resp_refs[worker.resp] - 1 \in Nat
    <3>1. Cardinality(Holders(worker.resp)) \in Nat
      BY <2>1, HoldersFacts
    <3> QED
      BY <2>2, <3>1
  <2>4. resp_refs' \in [Resps -> Nat]
    BY <1>17, <2>1, <2>3 DEF WorkerDestroy, TypeOK
  <2> QED
    BY <1>17, <2>4 DEF WorkerDestroy, WorkerIdle, RespPointers, Pointers, TypeOK
<1>18. CASE UnregisterFlag \/ FlushDone
  BY <1>18 DEF UnregisterFlag, FlushDone, TypeOK
<1>19. CASE UnregisterJoin
  <2>1. First \in Pointers /\ After(First) \in Pointers
    BY AfterFacts
  <2> QED
    BY <1>19, <2>1 DEF UnregisterJoin, TypeOK
<1>20. CASE FlushOne
  <2>1. CASE mem[cursor.cur] = "freed" \/ ~Linked(cursor.cur)
    BY <1>20, <2>1, CrashFrame DEF FlushOne, TypeOK
  <2>2. CASE ~(mem[cursor.cur] = "freed" \/ ~Linked(cursor.cur))
    <3>1. cursor.cur \in Ops /\ ref_count[cursor.cur] > 0
      BY <1>20, <2>2, PlaceFacts, HeldFacts DEF FlushOne
    <3>2. tx_fifo' \in Seq(Ops)
      BY <1>20, <2>2, UnlinkFacts DEF FlushOne
    <3>3. After(cursor.nxt) \in Pointers
      BY AfterFacts
    <3>4. /\ ref_count' \in [Ops -> Nat]
          /\ mem' \in [Ops -> {"unused", "live", "freed"}]
          /\ resp_refs' \in [Resps -> Nat]
      BY <1>20, <2>2, <3>1, UnrefFacts DEF FlushOne
    <3>5. cursor' \in [cur : Pointers, nxt : Pointers] /\ flushed' \subseteq Ops
      BY <1>20, <2>2, <3>1, <3>3 DEF FlushOne, TypeOK
    <3> QED
      BY <1>20, <2>2, <3>2, <3>4, <3>5 DEF FlushOne, TypeOK
  <2> QED
    BY <2>1, <2>2
<1>21. CASE UNCHANGED vars
  BY <1>21 DEF vars, TypeOK
<1> QED
  BY <1>1, <1>2, <1>3, <1>4, <1>5, <1>6, <1>7, <1>8, <1>9, <1>10, <1>11, <1>12, <1>13,
     <1>14, <1>15, <1>16, <1>17, <1>18, <1>19, <1>20, <1>21
     DEF Next, SendStep, Worker, Unregister

(* What only senders change, and what only the worker does.                *)
LEMMA SenderFrame ==
  ASSUME [Next]_vars, ~\E s \in Senders : SendStep(s),
         ~\E s \in Senders, o \in Ops, b \in BOOLEAN : SendCheck(s, o, b)
  PROVE  UNCHANGED <<sender, stamp, request_id>>
<1> USE DEF opVars, respVars, ghosts
<1>1. ASSUME NEW s \in Senders, NEW o \in Ops, Refused(s, o)
      PROVE  UNCHANGED <<sender, stamp, request_id>>
  BY <1>1 DEF Refused
<1>2. ASSUME NEW o \in Ops, NEW r \in Resps, AnswersOnce(o, r) \/ AnswersAgain(o, r)
      PROVE  UNCHANGED <<sender, stamp, request_id>>
  BY <1>2, PeerFrame
<1>3. ASSUME NEW o \in Ops, Lose(o) PROVE UNCHANGED <<sender, stamp, request_id>>
  BY <1>3 DEF Lose
<1>4. CASE Worker
  BY <1>4 DEF Worker, WorkerGet, WorkerNext, WorkerFreed, WorkerMatch, WorkerCallback,
     WorkerUnref, WorkerDrop, WorkerDestroy, Crash
<1>5. CASE UnregisterFlag \/ Unregister \/ UNCHANGED vars
  BY <1>5 DEF UnregisterFlag, Unregister, UnregisterJoin, FlushOne, FlushDone, Crash, vars
<1> QED
  BY <1>1, <1>2, <1>3, <1>4, <1>5 DEF Next

LEMMA WorkerFrame ==
  ASSUME [Next]_vars, ~Worker
  PROVE  UNCHANGED <<worker, response, called, dropped>>
<1> USE DEF opVars, respVars, ghosts
<1>1. ASSUME NEW s \in Senders, NEW o \in Ops, NEW b \in BOOLEAN,
             Refused(s, o) \/ SendCheck(s, o, b)
      PROVE  UNCHANGED <<worker, response, called, dropped>>
  BY <1>1 DEF Refused, SendCheck
<1>2. ASSUME NEW o \in Ops, NEW r \in Resps, AnswersOnce(o, r) \/ AnswersAgain(o, r)
      PROVE  UNCHANGED <<worker, response, called, dropped>>
  BY <1>2, PeerFrame
<1>3. ASSUME NEW o \in Ops, Lose(o) PROVE UNCHANGED <<worker, response, called, dropped>>
  BY <1>3 DEF Lose
<1>4. ASSUME NEW s \in Senders, SendStep(s)
      PROVE  UNCHANGED <<worker, response, called, dropped>>
  BY <1>4 DEF SendStep, SendNumber, SendTransmit, SendFails, SendReturns, SyncWakes,
     SendDestroy, Crash
<1>5. CASE UnregisterFlag \/ Unregister \/ UNCHANGED vars
  BY <1>5 DEF UnregisterFlag, Unregister, UnregisterJoin, FlushOne, FlushDone, Crash, vars
<1> QED
  BY <1>1, <1>2, <1>3, <1>4, <1>5 DEF Next

(* tx_fifo is changed by an id-giving, a failing send, a match and a flush. *)
LEMMA ListFrame ==
  ASSUME [Next]_vars,
         ~\E s \in Senders : SendNumber(s) \/ SendFails(s), ~WorkerMatch, ~FlushOne
  PROVE  UNCHANGED tx_fifo
<1> USE DEF opVars, respVars, ghosts
<1>1. ASSUME NEW s \in Senders, NEW o \in Ops, NEW b \in BOOLEAN,
             Refused(s, o) \/ SendCheck(s, o, b)
      PROVE  UNCHANGED tx_fifo
  BY <1>1 DEF Refused, SendCheck
<1>2. ASSUME NEW o \in Ops, NEW r \in Resps, AnswersOnce(o, r) \/ AnswersAgain(o, r)
      PROVE  UNCHANGED tx_fifo
  BY <1>2, PeerFrame
<1>3. ASSUME NEW o \in Ops, Lose(o) PROVE UNCHANGED tx_fifo
  BY <1>3 DEF Lose
<1>4. ASSUME NEW s \in Senders, SendStep(s) PROVE UNCHANGED tx_fifo
  BY <1>4 DEF SendStep, SendTransmit, SendReturns, SyncWakes, SendDestroy, Unref
<1>5. CASE UnregisterFlag \/ Unregister \/ UNCHANGED vars
  BY <1>5 DEF UnregisterFlag, Unregister, UnregisterJoin, FlushDone, vars
<1>6. CASE Worker
  BY <1>6 DEF Worker, WorkerGet, WorkerNext, WorkerFreed, WorkerCallback,
     WorkerUnref, WorkerDrop, WorkerDestroy, Crash
<1> QED
  BY <1>1, <1>2, <1>3, <1>4, <1>5, <1>6 DEF Next

(* An id is given once: a request that is numbered stays so.               *)
LEMMA NumberFacts ==
  ASSUME TypeOK, SenderInv, NEW s \in Senders, SendNumber(s)
  PROVE  /\ sender[s].op \in Ops /\ Owned(sender[s].op)
         /\ NextId \in Nat /\ NextId > 0 /\ NextId >= request_id
         /\ ~Numbered(sender[s].op)
         /\ \A o \in Ops : Numbered(o)' <=> Numbered(o) \/ o = sender[s].op
         /\ \A o \in Ops : o # sender[s].op => stamp'[o] = stamp[o]
         /\ stamp'[sender[s].op] = NextId /\ request_id' = NextId + 1
<1>1. sender[s].op \in Ops /\ ~Numbered(sender[s].op) /\ Owned(sender[s].op)
  BY SenderFacts DEF SendNumber, SenderInv
<1>2. request_id \in Nat /\ IdSpace \in Nat \ {0, 1} /\ stamp \in [Ops -> Nat]
  BY OperationAssumption DEF TypeOK, OperationAssumption
<1>3. 0 % IdSpace = 0
  BY <1>2
<1>4. NextId \in Nat /\ NextId > 0 /\ NextId >= request_id
  BY <1>2, <1>3 DEF NextId
<1> QED
  BY <1>1, <1>2, <1>4 DEF SendNumber, Numbered

(* An operation just allocated has no holder.                              *)
LEMMA FreshFacts ==
  ASSUME TypeOK, OpRefs, NEW o \in Ops, mem[o] # "live"
  PROVE  ~Owned(o) /\ ~Linked(o) /\ ~Taken(o) /\ ref_count[o] = 0
<1>1. ref_count[o] \in Nat /\ ~(ref_count[o] > 0)
  BY DEF TypeOK, OpRefs
<1>2. ref_count[o] = One(Owned(o)) + One(Linked(o) \/ Taken(o))
  BY DEF OpRefs
<1> QED
  BY <1>1, <1>2 DEF One

(* What an operation's creator does to its own place.                      *)
LEMMA SenderStep ==
  ASSUME TypeOK, SenderInv, OpRefs, AnswerInv, [Next]_vars
  PROVE  SenderInv'
<1> USE DEF opVars, respVars, ghosts
<1>1. ASSUME NEW s \in Senders, NEW o \in Ops, NEW b \in BOOLEAN, SendCheck(s, o, b)
      PROVE  SenderInv'
  <2>1. \A t \in Senders : sender[t].op # o
    BY <1>1, FreshFacts DEF SendCheck, Owned
  <2>2. ~Numbered(o) /\ o # NoOp
    BY <1>1, OperationAssumption DEF SendCheck, AnswerInv, OperationAssumption
  <2>3. /\ sender'[s] = [pc |-> "number", op |-> o, sync |-> b]
        /\ \A t \in Senders : t # s => sender'[t] = sender[t]
        /\ stamp' = stamp
    BY <1>1 DEF SendCheck, TypeOK
  <2> QED
    BY <2>1, <2>2, <2>3 DEF SenderInv, Numbered
<1>2. ASSUME NEW s \in Senders, SendNumber(s) PROVE SenderInv'
  <2>1. /\ sender'[s].pc = "send" /\ sender[s].pc = "number"
        /\ \A t \in Senders : t # s => sender'[t] = sender[t]
        /\ \A t \in Senders : sender'[t].op = sender[t].op
    BY <1>2, MoveFacts DEF SendNumber
  <2>2. \A t \in Senders : sender[t].op # NoOp => sender[t].op \in Ops
    BY SenderFacts DEF SenderInv
  <2>3. /\ \A o \in Ops : Numbered(o)' <=> Numbered(o) \/ o = sender[s].op
        /\ sender[s].op \in Ops
    BY <1>2, NumberFacts
  <2>4. \A t \in Senders : t # s => sender[t].op # sender[s].op
    BY <2>1 DEF SenderInv
  <2> QED
    BY <2>1, <2>2, <2>3, <2>4 DEF SenderInv
<1>3. ASSUME NEW s \in Senders,
             SendTransmit(s) \/ SendFails(s) \/ SendReturns(s) \/ SyncWakes(s)
      PROVE  SenderInv'
  <2>1. CASE UNCHANGED <<sender, stamp>>
    BY <2>1 DEF SenderInv, Numbered
  <2>2. CASE ~UNCHANGED <<sender, stamp>>
    <3>1. \E p \in {"sent", "wait", "destroy"} : sender' = [sender EXCEPT ![s].pc = p]
      BY <1>3, <2>2 DEF SendTransmit, SendFails, SendReturns, SyncWakes, Crash
    <3>2. /\ sender'[s].pc \in {"sent", "wait", "destroy"}
          /\ \A t \in Senders : t # s => sender'[t] = sender[t]
          /\ \A t \in Senders : sender'[t].op = sender[t].op
      BY <3>1, MoveFacts
    <3>3. sender[s].pc \notin {"idle", "number"} /\ stamp' = stamp
      BY <1>3 DEF SendTransmit, SendFails, SendReturns, SyncWakes, Crash
    <3> QED
      BY <3>2, <3>3 DEF SenderInv, Numbered
  <2> QED
    BY <2>1, <2>2
<1>4. ASSUME NEW s \in Senders, SendDestroy(s) PROVE SenderInv'
  <2>1. /\ sender'[s] = SenderIdle
        /\ \A t \in Senders : t # s => sender'[t] = sender[t]
        /\ stamp' = stamp
    BY <1>4 DEF SendDestroy, TypeOK
  <2>2. sender'[s].pc = "idle" /\ sender'[s].op = NoOp /\ NoOp \notin Ops
    BY <2>1, OperationAssumption DEF SenderIdle, OperationAssumption
  <2> QED
    BY <2>1, <2>2 DEF SenderInv, Numbered
<1>5. CASE UNCHANGED <<sender, stamp>>
  BY <1>5 DEF SenderInv, Numbered
<1> QED
  BY <1>1, <1>2, <1>3, <1>4, <1>5, SenderFrame DEF SendStep

(* tx_fifo holds numbered requests, each once, and not the worker's.       *)
LEMMA ListStep ==
  ASSUME TypeOK, SenderInv, ListInv, OpRefs, AnswerInv, [Next]_vars
  PROVE  ListInv'
<1> USE DEF opVars, respVars, ghosts
<1>1. ASSUME NEW s \in Senders, SendNumber(s) PROVE ListInv'
  <2> DEFINE o == sender[s].op
  <2>1. /\ o \in Ops /\ ~Numbered(o)
        /\ \A p \in Ops : Numbered(p)' <=> Numbered(p) \/ p = o
    BY <1>1, NumberFacts
  <2>2. tx_fifo' = Append(tx_fifo, o) /\ worker' = worker
    BY <1>1 DEF SendNumber
  <2> HIDE DEF o
  <2>3. /\ Len(tx_fifo') = Len(tx_fifo) + 1 /\ Len(tx_fifo) \in Nat
        /\ tx_fifo'[Len(tx_fifo')] = o
        /\ \A i \in 1..Len(tx_fifo) : tx_fifo'[i] = tx_fifo[i] /\ tx_fifo[i] \in Ops
        /\ \A p : Linked(p)' <=> Linked(p) \/ p = o
    BY <2>1, <2>2, LinkFacts, LinkedFacts
  <2>4. \A i \in 1..Len(tx_fifo') : i \in 1..Len(tx_fifo) \/ i = Len(tx_fifo')
    BY <2>3
  <2>5. \A i \in 1..Len(tx_fifo) : tx_fifo[i] # o
    <3>1. ~Linked(o)
      BY <2>1 DEF ListInv
    <3> QED
      BY <3>1, LinkedFacts
  <2>6. \A p \in Ops : (Linked(p)' \/ Taken(p)') => Numbered(p)'
    BY <2>1, <2>2, <2>3 DEF ListInv, Taken
  <2>7. \A i, j \in 1..Len(tx_fifo') : tx_fifo'[i] = tx_fifo'[j] => i = j
    BY <2>3, <2>4, <2>5 DEF ListInv
  <2> QED
    BY <2>1, <2>2, <2>3, <2>6, <2>7 DEF ListInv, Taken
<1>2. ASSUME NEW s \in Senders, SendFails(s) PROVE ListInv'
  <2>1. CASE ~Linked(sender[s].op)
    BY <1>2, <2>1, CrashFrame DEF SendFails, ListInv, Numbered, Linked, Taken
  <2>2. CASE Linked(sender[s].op)
    <3>1. worker' = worker /\ stamp' = stamp
      BY <1>2, <2>2 DEF SendFails
    <3> QED
      BY <1>2, <2>2, <3>1, UnlinkFacts DEF SendFails, ListInv, Numbered, Taken
  <2> QED
    BY <2>1, <2>2
<1>3. CASE FlushOne
  <2>1. CASE mem[cursor.cur] = "freed" \/ ~Linked(cursor.cur)
    BY <1>3, <2>1, CrashFrame DEF FlushOne, ListInv, Numbered, Linked, Taken
  <2>2. CASE ~(mem[cursor.cur] = "freed" \/ ~Linked(cursor.cur))
    <3>1. worker' = worker /\ stamp' = stamp
      BY <1>3, <2>2 DEF FlushOne
    <3> QED
      BY <1>3, <2>2, <3>1, UnlinkFacts DEF FlushOne, ListInv, Numbered, Taken
  <2> QED
    BY <2>1, <2>2
<1>4. CASE WorkerMatch
  <2>1. CASE ~Linked(worker.cur)
    BY <1>4, <2>1, CrashFrame DEF WorkerMatch, ListInv, Numbered, Linked, Taken
  <2>2. CASE Linked(worker.cur)
    <3>1. /\ stamp' = stamp /\ worker.pc = "walk"
          /\ worker'.cur = worker.cur /\ worker'.resp = worker.resp
          /\ worker'.pc = "callback"
      BY <1>4, <2>2 DEF WorkerMatch, TypeOK
    <3>2. worker.cur \in Ops /\ Numbered(worker.cur)
      BY <2>2, PlaceFacts DEF ListInv
    <3> QED
      BY <1>4, <2>2, <3>1, <3>2, UnlinkFacts DEF WorkerMatch, ListInv, Numbered, Taken
  <2> QED
    BY <2>1, <2>2
<1>5. CASE Worker /\ ~WorkerMatch
  <2>1. tx_fifo' = tx_fifo /\ stamp' = stamp
    BY <1>5 DEF Worker, WorkerGet, WorkerNext, WorkerFreed, WorkerCallback,
       WorkerUnref, WorkerDrop, WorkerDestroy, Crash
  <2>2. CASE WorkerGet
    <3>1. worker'.pc = "walk" /\ worker'.resp = Head(rx_fifo) /\ Head(rx_fifo) \in Resps
      BY <2>2 DEF WorkerGet, TypeOK
    <3> QED
      BY <2>1, <3>1 DEF ListInv, Numbered, Linked, Taken
  <2>3. CASE WorkerNext \/ WorkerFreed \/ WorkerCallback \/ WorkerUnref \/ WorkerDrop
    <3>1. /\ worker'.resp = worker.resp /\ worker'.pc # "idle" /\ worker.pc # "idle"
          /\ worker'.pc \in {"callback", "unref"} =>
               worker.pc = "callback" /\ worker'.cur = worker.cur
      BY <2>3 DEF WorkerNext, WorkerFreed, WorkerCallback, WorkerUnref, WorkerDrop,
         Crash, TypeOK
    <3> QED
      BY <2>1, <3>1 DEF ListInv, Numbered, Linked, Taken
  <2>4. CASE WorkerDestroy
    <3>1. worker' = WorkerIdle
      BY <2>4 DEF WorkerDestroy
    <3> QED
      BY <2>1, <3>1 DEF ListInv, Numbered, Linked, Taken, WorkerIdle
  <2> QED
    BY <1>5, <2>2, <2>3, <2>4 DEF Worker
<1>6. CASE UNCHANGED <<tx_fifo, stamp, worker>>
  BY <1>6 DEF ListInv, Numbered, Linked, Taken
<1>7. CASE ~Worker /\ ~FlushOne /\ ~\E s \in Senders : SendNumber(s) \/ SendFails(s)
  <2>1. UNCHANGED tx_fifo
    BY <1>7, ListFrame DEF Worker
  <2>2. UNCHANGED worker
    BY <1>7, WorkerFrame
  <2>3. UNCHANGED stamp
    <3>1. CASE \E s \in Senders : SendStep(s)
      BY <1>7, <3>1 DEF SendStep, SendTransmit, SendReturns, SyncWakes, SendDestroy
    <3>2. CASE \E s \in Senders, o \in Ops, b \in BOOLEAN : SendCheck(s, o, b)
      BY <3>2 DEF SendCheck
    <3> QED
      BY <3>1, <3>2, SenderFrame
  <2> QED
    BY <1>6, <2>1, <2>2, <2>3
<1> QED
  BY <1>1, <1>2, <1>3, <1>4, <1>5, <1>7

-----------------------------------------------------------------------------
(* The reference counts.                                                   *)

(* A step that leaves the counts, the memory and the holders alone keeps   *)
(* the counts right.                                                       *)
LEMMA OpRefsFrame ==
  ASSUME TypeOK, OpRefs, UNCHANGED <<ref_count, mem>>,
         \A o \in Ops : /\ Owned(o)' <=> Owned(o)
                        /\ (Linked(o) \/ Taken(o))' <=> (Linked(o) \/ Taken(o))
  PROVE  OpRefs'
  BY DEF OpRefs, One

(* The count of an operation is the number of those that hold it, whatever *)
(* the order in which sender, worker and unregistration let it go.         *)
LEMMA OpRefsStep ==
  ASSUME TypeOK, SenderInv, ListInv, OpRefs, RespRefs, [Next]_vars
  PROVE  OpRefs'
<1> USE DEF opVars, respVars, ghosts
<1>1. ASSUME NEW s \in Senders, NEW o \in Ops, Refused(s, o) PROVE OpRefs'
  <2>1. /\ mem' = [mem EXCEPT ![o] = "freed"] /\ mem[o] = "unused"
        /\ UNCHANGED <<ref_count, sender, tx_fifo, worker>>
    BY <1>1 DEF Refused
  <2>2. \A p \in Ops : mem'[p] = "live" <=> mem[p] = "live"
    BY <2>1 DEF TypeOK
  <2>3. \A p \in Ops : /\ Owned(p)' <=> Owned(p)
                       /\ (Linked(p) \/ Taken(p))' <=> (Linked(p) \/ Taken(p))
    BY <2>1 DEF Owned, Linked, Taken
  <2> QED
    BY <2>1, <2>2, <2>3 DEF OpRefs, One
<1>2. ASSUME NEW s \in Senders, NEW o \in Ops, NEW b \in BOOLEAN, SendCheck(s, o, b)
      PROVE  OpRefs'
  <2>1. ~Owned(o) /\ ~Linked(o) /\ ~Taken(o)
    BY <1>2, FreshFacts DEF SendCheck
  <2>2. /\ mem' = [mem EXCEPT ![o] = "live"] /\ ref_count' = [ref_count EXCEPT ![o] = 1]
        /\ sender' = [sender EXCEPT ![s] = [pc |-> "number", op |-> o, sync |-> b]]
        /\ sender[s] = SenderIdle
        /\ UNCHANGED <<tx_fifo, worker>>
    BY <1>2 DEF SendCheck
  <2>3. sender[s].op = NoOp /\ NoOp \notin Ops
    BY <2>2, OperationAssumption DEF SenderIdle, OperationAssumption
  <2>4. sender'[s].op = o /\ \A t \in Senders : t # s => sender'[t] = sender[t]
    BY <2>2 DEF TypeOK
  <2>5. \A p \in Ops : Owned(p)' <=> Owned(p) \/ p = o
    BY <2>3, <2>4 DEF Owned
  <2>6. \A p \in Ops : (Linked(p)' <=> Linked(p)) /\ (Taken(p)' <=> Taken(p))
    BY <2>2 DEF Linked, Taken
  <2>7. /\ ref_count'[o] = 1 /\ mem'[o] = "live"
        /\ \A p \in Ops \ {o} : ref_count'[p] = ref_count[p] /\ mem'[p] = mem[p]
    BY <2>2 DEF TypeOK
  <2> QED
    BY <2>1, <2>5, <2>6, <2>7 DEF OpRefs, One
<1>3. ASSUME NEW s \in Senders, SendNumber(s) PROVE OpRefs'
  <2> DEFINE o == sender[s].op
  <2>1. o \in Ops /\ Owned(o) /\ ~Numbered(o)
    BY <1>3, NumberFacts
  <2>2. /\ tx_fifo' = Append(tx_fifo, o)
        /\ ref_count' = [ref_count EXCEPT ![o] = @ + 1]
        /\ UNCHANGED <<mem, worker>>
        /\ \A p : Owned(p)' <=> Owned(p)
    BY <1>3, MoveFacts DEF SendNumber, Ref
  <2> HIDE DEF o
  <2>3. /\ \A p : Linked(p)' <=> Linked(p) \/ p = o
        /\ \A p : Taken(p)' <=> Taken(p)
    BY <2>1, <2>2, LinkFacts DEF Taken
  <2>4. ~Linked(o) /\ ~Taken(o)
    BY <2>1 DEF ListInv
  <2>5. ref_count \in [Ops -> Nat]
    BY DEF TypeOK
  <2> QED
    BY <2>1, <2>2, <2>3, <2>4, <2>5 DEF OpRefs, One
<1>4. ASSUME NEW s \in Senders, SendTransmit(s) \/ SendReturns(s) \/ SyncWakes(s)
      PROVE  OpRefs'
  <2>1. /\ \A p : Owned(p)' <=> Owned(p)
        /\ UNCHANGED <<ref_count, mem, tx_fifo, worker>>
    BY <1>4, MoveFacts DEF SendTransmit, SendReturns, SyncWakes
  <2> QED
    BY <2>1, OpRefsFrame DEF Linked, Taken
<1>5. ASSUME NEW s \in Senders, SendFails(s) PROVE OpRefs'
  <2> DEFINE o == sender[s].op
  <2>1. CASE ~Linked(o)
    BY <1>5, <2>1, CrashFrame, OpRefsFrame DEF SendFails, Owned, Linked, Taken
  <2>2. CASE Linked(o)
    <3>1. o \in Ops /\ Owned(o) /\ ref_count[o] > 0 /\ ~Taken(o)
      BY <1>5, <2>2, SenderFacts, HeldFacts DEF SendFails, ListInv
    <3>2. /\ Unlink(o) /\ Unref(o) /\ UNCHANGED <<response, worker>>
          /\ \A p : Owned(p)' <=> Owned(p)
      BY <1>5, <2>2, MoveFacts DEF SendFails
    <3> HIDE DEF o
    <3>3. /\ \A p : Linked(p)' <=> Linked(p) /\ p # o
          /\ \A p : Taken(p)' <=> Taken(p)
      BY <2>2, <3>2, UnlinkFacts DEF Taken
    <3>4. /\ ref_count'[o] = ref_count[o] - 1
          /\ \A p \in Ops \ {o} : ref_count'[p] = ref_count[p]
          /\ \A p \in Ops : mem'[p] = "live" <=> ref_count'[p] > 0
      BY <3>1, <3>2, UnrefFacts
    <3> QED
      BY <2>2, <3>1, <3>2, <3>3, <3>4 DEF OpRefs, One
  <2> QED
    BY <2>1, <2>2
<1>6. ASSUME NEW s \in Senders, SendDestroy(s) PROVE OpRefs'
  <2> DEFINE o == sender[s].op
  <2>1. o \in Ops /\ Owned(o) /\ ref_count[o] > 0 /\ o # NoOp /\ NoOp \notin Ops
    BY <1>6, SenderFacts, HeldFacts, OperationAssumption
       DEF SendDestroy, OperationAssumption
  <2>2. /\ Unref(o) /\ UNCHANGED <<response, worker, tx_fifo>>
        /\ sender' = [sender EXCEPT ![s] = SenderIdle]
    BY <1>6 DEF SendDestroy
  <2>3. \A p \in Ops : Owned(p)' <=> Owned(p) /\ p # o
    <3>1. sender'[s].op = NoOp /\ \A t \in Senders : t # s => sender'[t] = sender[t]
      BY <2>2 DEF SenderIdle, TypeOK
    <3>2. \A t \in Senders : t # s => sender[t].op # o
      BY <2>1 DEF SenderInv
    <3> QED
      BY <2>1, <3>1, <3>2 DEF Owned
  <2> HIDE DEF o
  <2>4. \A p : (Linked(p)' <=> Linked(p)) /\ (Taken(p)' <=> Taken(p))
    BY <2>2 DEF Linked, Taken
  <2>5. /\ ref_count'[o] = ref_count[o] - 1
        /\ \A p \in Ops \ {o} : ref_count'[p] = ref_count[p]
        /\ \A p \in Ops : mem'[p] = "live" <=> ref_count'[p] > 0
    BY <2>1, <2>2, UnrefFacts
  <2> QED
    BY <2>1, <2>3, <2>4, <2>5 DEF OpRefs, One
<1>7. CASE WorkerMatch
  <2>1. CASE ~Linked(worker.cur)
    BY <1>7, <2>1, CrashFrame, OpRefsFrame DEF WorkerMatch, Owned, Linked, Taken
  <2>2. CASE Linked(worker.cur)
    <3>1. /\ \A p : Linked(p)' <=> Linked(p) /\ p # worker.cur
          /\ UNCHANGED <<ref_count, mem, sender>>
      BY <1>7, <2>2, UnlinkFacts DEF WorkerMatch
    <3>2. /\ worker.pc = "walk" /\ worker'.pc = "callback" /\ worker'.cur = worker.cur
      BY <1>7, <2>2 DEF WorkerMatch, TypeOK
    <3>3. \A p : ~Taken(p) /\ (Taken(p)' <=> p = worker.cur)
      BY <3>2 DEF Taken
    <3> QED
      BY <2>2, <3>1, <3>3, OpRefsFrame DEF Owned
  <2> QED
    BY <2>1, <2>2
<1>8. CASE WorkerUnref
  <2> DEFINE o == worker.cur
  <2>1. o \in Ops /\ Taken(o) /\ ref_count[o] > 0 /\ ~Linked(o)
    BY <1>8, HeldFacts DEF WorkerUnref, ListInv, Taken
  <2>2. /\ Unref(o) /\ UNCHANGED <<response, sender, tx_fifo>>
        /\ worker.pc = "unref" /\ worker'.pc = "destroy"
    BY <1>8 DEF WorkerUnref, TypeOK
  <2>3. /\ \A p : Taken(p)' <=> Taken(p) /\ p # o
        /\ \A p : (Linked(p)' <=> Linked(p)) /\ (Owned(p)' <=> Owned(p))
    BY <2>2 DEF Taken, Linked, Owned
  <2> HIDE DEF o
  <2>5. /\ ref_count'[o] = ref_count[o] - 1
        /\ \A p \in Ops \ {o} : ref_count'[p] = ref_count[p]
        /\ \A p \in Ops : mem'[p] = "live" <=> ref_count'[p] > 0
    BY <2>1, <2>2, UnrefFacts
  <2> QED
    BY <2>1, <2>3, <2>5 DEF OpRefs, One
<1>9. CASE Worker /\ ~WorkerMatch /\ ~WorkerUnref
  <2>1. UNCHANGED <<ref_count, mem, sender, tx_fifo>>
    BY <1>9 DEF Worker, WorkerGet, WorkerNext, WorkerFreed, WorkerCallback,
       WorkerDrop, WorkerDestroy, Crash
  <2>2. \A p : Taken(p)' <=> Taken(p)
    <3>1. CASE WorkerCallback \/ WorkerFreed
      BY <3>1 DEF WorkerCallback, WorkerFreed, Crash, Taken, TypeOK
    <3>2. CASE WorkerGet \/ WorkerNext \/ WorkerDrop \/ WorkerDestroy
      <4>1. /\ worker.pc \in {"idle", "walk", "destroy"}
            /\ worker'.pc \in {"idle", "walk", "destroy"}
        <5>1. CASE WorkerGet
          BY <5>1 DEF WorkerGet
        <5>2. CASE WorkerNext
          BY <5>2 DEF WorkerNext, TypeOK
        <5>3. CASE WorkerDrop
          BY <5>3 DEF WorkerDrop, TypeOK
        <5>4. CASE WorkerDestroy
          BY <5>4 DEF WorkerDestroy, WorkerIdle
        <5> QED
          BY <3>2, <5>1, <5>2, <5>3, <5>4
      <4> QED
        BY <4>1 DEF Taken
    <3> QED
      BY <1>9, <3>1, <3>2 DEF Worker
  <2> QED
    BY <2>1, <2>2, OpRefsFrame DEF Owned, Linked
<1>10. CASE FlushOne
  <2> DEFINE o == cursor.cur
  <2>1. CASE mem[o] = "freed" \/ ~Linked(o)
    BY <1>10, <2>1, CrashFrame, OpRefsFrame DEF FlushOne, Owned, Linked, Taken
  <2>2. CASE ~(mem[o] = "freed" \/ ~Linked(o))
    <3>1. o \in Ops /\ ref_count[o] > 0 /\ ~Taken(o)
      BY <2>2, PlaceFacts, HeldFacts DEF ListInv
    <3>2. Unlink(o) /\ Unref(o) /\ UNCHANGED <<response, worker, sender>>
      BY <1>10, <2>2 DEF FlushOne
    <3> HIDE DEF o
    <3>3. /\ \A p : Linked(p)' <=> Linked(p) /\ p # o
          /\ \A p : (Taken(p)' <=> Taken(p)) /\ (Owned(p)' <=> Owned(p))
      BY <2>2, <3>2, UnlinkFacts DEF Taken, Owned
    <3>4. /\ ref_count'[o] = ref_count[o] - 1
          /\ \A p \in Ops \ {o} : ref_count'[p] = ref_count[p]
          /\ \A p \in Ops : mem'[p] = "live" <=> ref_count'[p] > 0
      BY <3>1, <3>2, UnrefFacts
    <3> QED
      BY <2>2, <3>1, <3>2, <3>3, <3>4 DEF OpRefs, One
  <2> QED
    BY <2>1, <2>2
<1>11. ASSUME NEW o \in Ops, NEW r \in Resps, AnswersOnce(o, r) \/ AnswersAgain(o, r)
       PROVE  OpRefs'
  BY <1>11, PeerFrame, OpRefsFrame DEF Owned, Linked, Taken
<1>12. ASSUME NEW o \in Ops, Lose(o) PROVE OpRefs'
  BY <1>12, OpRefsFrame DEF Lose, Owned, Linked, Taken
<1>13. CASE UnregisterFlag \/ UnregisterJoin \/ FlushDone \/ UNCHANGED vars
  BY <1>13, OpRefsFrame DEF UnregisterFlag, UnregisterJoin, FlushDone, vars,
     Owned, Linked, Taken
<1> QED
  BY <1>1, <1>2, <1>3, <1>4, <1>5, <1>6, <1>7, <1>8, <1>9, <1>10, <1>11, <1>12, <1>13
     DEF Next, SendStep, Unregister

(* Where each step of the worker takes it.                                 *)
LEMMA WorkerMoves ==
  ASSUME TypeOK, ListInv
  PROVE  /\ WorkerGet =>
              /\ worker.pc = "idle" /\ worker'.pc = "walk" /\ worker.resp = NoOp
              /\ worker'.resp = Head(rx_fifo) /\ rx_fifo' = Tail(rx_fifo)
         /\ WorkerNext \/ WorkerDrop =>
              /\ worker.pc = "walk" /\ worker'.pc \in {"walk", "destroy"}
              /\ worker'.resp = worker.resp
         /\ WorkerCallback =>
              /\ worker.pc = "callback" /\ worker'.pc = "unref"
              /\ worker'.resp = worker.resp /\ worker'.cur = worker.cur
         /\ WorkerUnref =>
              /\ worker.pc = "unref" /\ worker'.pc = "destroy"
              /\ worker'.resp = worker.resp /\ worker'.cur = worker.cur
         /\ WorkerMatch /\ Linked(worker.cur) =>
              /\ worker.pc = "walk" /\ worker'.pc = "callback"
              /\ worker'.resp = worker.resp /\ worker'.cur = worker.cur
         /\ WorkerDestroy =>
              /\ worker.pc = "destroy" /\ worker'.pc = "idle" /\ worker'.resp = NoOp
<1>1. CASE WorkerGet
  <2>1. worker = WorkerIdle
    BY <1>1 DEF WorkerGet, ListInv
  <2> QED
    BY <1>1, <2>1 DEF WorkerGet, WorkerIdle, WorkerNext, WorkerDrop, WorkerCallback,
       WorkerUnref, WorkerMatch, WorkerDestroy
<1>2. CASE WorkerNext \/ WorkerDrop
  BY <1>2 DEF WorkerNext, WorkerDrop, WorkerGet, WorkerCallback, WorkerUnref, WorkerMatch,
     WorkerDestroy, TypeOK
<1>3. CASE WorkerCallback
  BY <1>3 DEF WorkerCallback, WorkerGet, WorkerNext, WorkerDrop, WorkerUnref, WorkerMatch,
     WorkerDestroy, TypeOK
<1>4. CASE WorkerUnref
  BY <1>4 DEF WorkerUnref, WorkerGet, WorkerNext, WorkerDrop, WorkerCallback, WorkerMatch,
     WorkerDestroy, TypeOK
<1>5. CASE WorkerMatch /\ Linked(worker.cur)
  BY <1>5 DEF WorkerMatch, WorkerGet, WorkerNext, WorkerDrop, WorkerCallback, WorkerUnref,
     WorkerDestroy, TypeOK
<1>6. CASE WorkerDestroy
  BY <1>6 DEF WorkerDestroy, WorkerIdle, WorkerGet, WorkerNext, WorkerDrop, WorkerCallback,
     WorkerUnref, WorkerMatch
<1> QED
  BY <1>1, <1>2, <1>3, <1>4, <1>5, <1>6

(* rx_fifo: what putting a response and taking one does.                   *)
LEMMA PutFacts ==
  ASSUME TypeOK, NEW r \in Resps, rx_fifo' = Append(rx_fifo, r)
  PROVE  /\ \A q : Queued(q)' <=> Queued(q) \/ q = r
         /\ Len(rx_fifo) \in Nat /\ Len(rx_fifo') = Len(rx_fifo) + 1
         /\ rx_fifo'[Len(rx_fifo')] = r
         /\ \A i \in 1..Len(rx_fifo) : rx_fifo'[i] = rx_fifo[i]
<1>1. rx_fifo \in Seq(Resps)
  BY DEF TypeOK
<1>2. /\ Len(rx_fifo) \in Nat /\ Len(rx_fifo') = Len(rx_fifo) + 1
      /\ rx_fifo'[Len(rx_fifo')] = r
      /\ \A i \in 1..Len(rx_fifo) : rx_fifo'[i] = rx_fifo[i]
      /\ DOMAIN rx_fifo = 1..Len(rx_fifo) /\ DOMAIN rx_fifo' = 1..Len(rx_fifo')
  BY <1>1
<1> QED
  BY <1>2 DEF Queued

LEMMA TakeFacts ==
  ASSUME TypeOK, PeerInv, rx_fifo # <<>>, rx_fifo' = Tail(rx_fifo)
  PROVE  /\ Head(rx_fifo) \in Resps /\ Queued(Head(rx_fifo))
         /\ \A q : Queued(q)' <=> Queued(q) /\ q # Head(rx_fifo)
         /\ \A i, j \in 1..Len(rx_fifo') : rx_fifo'[i] = rx_fifo'[j] => i = j
<1>1. rx_fifo \in Seq(Resps)
  BY DEF TypeOK
<1>2. /\ Len(rx_fifo) \in Nat \ {0} /\ Len(rx_fifo') = Len(rx_fifo) - 1
      /\ Head(rx_fifo) = rx_fifo[1] /\ Head(rx_fifo) \in Resps
      /\ \A i \in 1..Len(rx_fifo') : rx_fifo'[i] = rx_fifo[i + 1]
      /\ DOMAIN rx_fifo = 1..Len(rx_fifo) /\ DOMAIN rx_fifo' = 1..Len(rx_fifo')
  BY <1>1
<1>3. \A i, j \in 1..Len(rx_fifo) : rx_fifo[i] = rx_fifo[j] => i = j
  BY DEF PeerInv
<1>4. ASSUME NEW q PROVE Queued(q)' <=> Queued(q) /\ q # Head(rx_fifo)
  <2>1. ASSUME NEW i \in 1..Len(rx_fifo'), rx_fifo'[i] = q
        PROVE  Queued(q) /\ q # Head(rx_fifo)
    <3>1. i + 1 \in DOMAIN rx_fifo /\ rx_fifo[i + 1] = q /\ i + 1 # 1 /\ 1 \in DOMAIN rx_fifo
      BY <1>2, <2>1
    <3> QED
      BY <1>2, <1>3, <3>1 DEF Queued
  <2>2. ASSUME NEW i \in 1..Len(rx_fifo), rx_fifo[i] = q, q # Head(rx_fifo)
        PROVE  \E j \in DOMAIN rx_fifo' : rx_fifo'[j] = q
    <3>1. i - 1 \in DOMAIN rx_fifo' /\ rx_fifo'[i - 1] = q
      BY <1>2, <2>2
    <3> QED
      BY <3>1
  <2> QED
    BY <1>2, <2>1, <2>2 DEF Queued
<1>5. 1 \in DOMAIN rx_fifo
  BY <1>2
<1> QED
  BY <1>2, <1>3, <1>4, <1>5 DEF Queued

(* The count of a response changes with the places that hold it.           *)
LEMMA RespRefsFrame ==
  ASSUME RespRefs, UNCHANGED resp_refs,
         \A r \in Resps : /\ Queued(r)' <=> Queued(r)
                          /\ InHand(r)' <=> InHand(r)
                          /\ Holders(r)' = Holders(r)
  PROVE  RespRefs'
  BY DEF RespRefs, One

(* A response is freed exactly when rx_fifo, the worker and the requests   *)
(* it answered have let it go.                                             *)
LEMMA RespRefsStep ==
  ASSUME TypeOK, SenderInv, ListInv, OpRefs, RespRefs, AnswerInv, PeerInv, [Next]_vars
  PROVE  RespRefs'
<1> USE DEF opVars, respVars, ghosts
<1>1. ASSUME NEW s \in Senders, NEW o \in Ops, NEW b \in BOOLEAN,
             Refused(s, o) \/ SendCheck(s, o, b)
      PROVE  RespRefs'
  <2>1. /\ UNCHANGED <<resp_refs, response, rx_fifo, worker>>
        /\ mem[o] = "unused" /\ \A p \in Ops : p # o => mem'[p] = mem[p]
    BY <1>1 DEF Refused, SendCheck, TypeOK
  <2>2. response[o] \notin Resps
    BY <2>1, OperationAssumption DEF AnswerInv, OperationAssumption
  <2>3. \A r \in Resps : Holders(r)' = Holders(r)
    BY <2>1, <2>2 DEF Holders
  <2> QED
    BY <2>1, <2>3, RespRefsFrame DEF Queued, InHand
<1>2. ASSUME NEW s \in Senders,
             SendNumber(s) \/ SendTransmit(s) \/ SendReturns(s) \/ SyncWakes(s)
      PROVE  RespRefs'
  BY <1>2, RespRefsFrame DEF SendNumber, SendTransmit, SendReturns, SyncWakes,
     Queued, InHand, Holders
<1>3. ASSUME NEW o \in Ops, ref_count[o] > 0, Unref(o), UNCHANGED <<response, rx_fifo>>,
             \A r \in Resps : InHand(r)' <=> InHand(r)
      PROVE  RespRefs'
  <2>1. \A r \in Resps :
              /\ IsFiniteSet(Holders(r)')
              /\ Cardinality(Holders(r)') \in Nat
              /\ resp_refs'[r] - Cardinality(Holders(r)')
                   = resp_refs[r] - Cardinality(Holders(r))
              /\ resp_refs[r] \in Nat /\ resp_refs'[r] \in Nat
    BY <1>3, UnrefFacts DEF TypeOK
  <2>2. \A r \in Resps : Cardinality(Holders(r)) \in Nat
    BY HoldersFacts
  <2>3. \A r \in Resps : Queued(r)' <=> Queued(r)
    BY <1>3 DEF Queued
  <2> QED
    BY <1>3, <2>1, <2>2, <2>3 DEF RespRefs, One
<1>4. ASSUME NEW s \in Senders, SendFails(s) PROVE RespRefs'
  <2>1. CASE ~Linked(sender[s].op)
    BY <1>4, <2>1, CrashFrame, RespRefsFrame DEF SendFails, Queued, InHand, Holders
  <2>2. CASE Linked(sender[s].op)
    <3>1. sender[s].op \in Ops /\ ref_count[sender[s].op] > 0
      BY <1>4, <2>2, SenderFacts, HeldFacts DEF SendFails
    <3>2. Unref(sender[s].op) /\ UNCHANGED <<response, rx_fifo, worker>>
      BY <1>4, <2>2 DEF SendFails
    <3> QED
      BY <3>1, <3>2, <1>3 DEF InHand
  <2> QED
    BY <2>1, <2>2
<1>5. ASSUME NEW s \in Senders, SendDestroy(s) PROVE RespRefs'
  <2>1. sender[s].op \in Ops /\ ref_count[sender[s].op] > 0
    BY <1>5, SenderFacts, HeldFacts DEF SendDestroy
  <2>2. Unref(sender[s].op) /\ UNCHANGED <<response, rx_fifo, worker>>
    BY <1>5 DEF SendDestroy
  <2> QED
    BY <2>1, <2>2, <1>3 DEF InHand
<1>6. CASE FlushOne
  <2>1. CASE mem[cursor.cur] = "freed" \/ ~Linked(cursor.cur)
    BY <1>6, <2>1, CrashFrame, RespRefsFrame DEF FlushOne, Queued, InHand, Holders
  <2>2. CASE ~(mem[cursor.cur] = "freed" \/ ~Linked(cursor.cur))
    <3>1. cursor.cur \in Ops /\ ref_count[cursor.cur] > 0
      BY <2>2, PlaceFacts, HeldFacts
    <3>2. Unref(cursor.cur) /\ UNCHANGED <<response, rx_fifo, worker>>
      BY <1>6, <2>2 DEF FlushOne
    <3> QED
      BY <3>1, <3>2, <1>3 DEF InHand
  <2> QED
    BY <2>1, <2>2
<1>7. CASE WorkerUnref
  <2>1. worker.cur \in Ops /\ ref_count[worker.cur] > 0
    BY <1>7, HeldFacts DEF WorkerUnref, ListInv, Taken
  <2>2. Unref(worker.cur) /\ UNCHANGED <<response, rx_fifo>>
    BY <1>7 DEF WorkerUnref
  <2>3. \A r \in Resps : InHand(r)' <=> InHand(r)
    BY <1>7, WorkerMoves DEF InHand
  <2> QED
    BY <2>1, <2>2, <2>3, <1>3
<1>8. CASE WorkerGet
  <2>1. rx_fifo # <<>> /\ UNCHANGED <<resp_refs, response, mem>>
    BY <1>8 DEF WorkerGet
  <2>2. /\ \A q : Queued(q)' <=> Queued(q) /\ q # Head(rx_fifo)
        /\ Queued(Head(rx_fifo))
    BY <1>8, <2>1, WorkerMoves, TakeFacts
  <2>3. \A q \in Resps : ~InHand(q) /\ (InHand(q)' <=> q = Head(rx_fifo))
    BY <1>8, WorkerMoves DEF InHand
  <2>4. \A r \in Resps : Holders(r)' = Holders(r)
    BY <2>1 DEF Holders
  <2> QED
    BY <2>1, <2>2, <2>3, <2>4 DEF RespRefs, One
<1>9. CASE WorkerNext \/ WorkerDrop
  <2>1. UNCHANGED <<resp_refs, response, mem, rx_fifo>>
    BY <1>9 DEF WorkerNext, WorkerDrop
  <2>2. \A r \in Resps : InHand(r)' <=> InHand(r)
    BY <1>9, WorkerMoves DEF InHand
  <2> QED
    BY <2>1, <2>2, RespRefsFrame DEF Queued, Holders
<1>10. CASE WorkerMatch
  <2>1. CASE ~Linked(worker.cur)
    BY <1>10, <2>1, CrashFrame, RespRefsFrame DEF WorkerMatch, Queued, InHand, Holders
  <2>2. CASE Linked(worker.cur)
    <3>1. UNCHANGED <<resp_refs, response, mem, rx_fifo>>
      BY <1>10, <2>2 DEF WorkerMatch
    <3>2. \A r \in Resps : InHand(r)' <=> InHand(r)
      BY <1>10, <2>2, WorkerMoves DEF InHand
    <3> QED
      BY <3>1, <3>2, RespRefsFrame DEF Queued, Holders
  <2> QED
    BY <2>1, <2>2
<1>11. ASSUME WorkerCallback, NEW o \in Ops, NEW q \in Resps, worker.cur = o, worker.resp = q
       PROVE  RespRefs'
  <2>1. worker.pc = "callback" /\ Taken(o) /\ mem[o] = "live"
    BY <1>11, HeldFacts DEF WorkerCallback, Taken
  <2>2. /\ resp_refs' = [resp_refs EXCEPT ![q] = @ + 1]
        /\ response' = [response EXCEPT ![o] = q]
        /\ UNCHANGED <<mem, rx_fifo>>
    BY <1>11 DEF WorkerCallback, RefResponse
  <2>3. response[o] = NoOp /\ NoOp \notin Resps
    BY <1>11, <2>1, OperationAssumption DEF AnswerInv, Waiting, OperationAssumption
  <2>4. \A r \in Resps : (InHand(r)' <=> InHand(r)) /\ (Queued(r)' <=> Queued(r))
    BY <1>11, <2>2, WorkerMoves DEF InHand, Queued
  <2>5. response \in [Ops -> RespPointers] /\ resp_refs \in [Resps -> Nat]
    BY DEF TypeOK
  <2>6. o \notin Holders(q) /\ Holders(q)' = Holders(q) \cup {o}
    BY <2>1, <2>2, <2>3, <2>5 DEF Holders
  <2>7. \A r \in Resps \ {q} : Holders(r)' = Holders(r)
    BY <2>1, <2>2, <2>3, <2>5 DEF Holders
  <2>8. /\ IsFiniteSet(Holders(q)') /\ Cardinality(Holders(q)) \in Nat
        /\ Cardinality(Holders(q)') = Cardinality(Holders(q)) + 1
    BY <2>1, <2>6, HoldersFacts
  <2>9. resp_refs[q] \in Nat /\ resp_refs'[q] = resp_refs[q] + 1
    BY <2>1, <2>2, <2>5
  <2>10. \A r \in Resps \ {q} : resp_refs'[r] = resp_refs[r]
    BY <2>2, <2>5
  <2>11. resp_refs'[q] = One(Queued(q)') + One(InHand(q)') + Cardinality(Holders(q)')
    BY <2>1, <2>4, <2>8, <2>9 DEF RespRefs, One
  <2>12. ASSUME NEW r \in Resps
         PROVE  /\ IsFiniteSet(Holders(r)')
                /\ resp_refs'[r] = One(Queued(r)') + One(InHand(r)') + Cardinality(Holders(r)')
    <3>1. CASE r = q
      BY <2>8, <2>11, <3>1
    <3>2. CASE r # q
      BY <2>4, <2>7, <2>10, <3>2 DEF RespRefs, One
    <3> QED
      BY <3>1, <3>2
  <2> QED
    BY <2>12 DEF RespRefs, One
<1>12. ASSUME WorkerDestroy, NEW q \in Resps, worker.resp = q PROVE RespRefs'
  <2>1. worker.pc = "destroy"
    BY <1>12 DEF WorkerDestroy
  <2>2. /\ resp_refs' = [resp_refs EXCEPT ![q] = @ - 1]
        /\ UNCHANGED <<mem, rx_fifo, response>>
    BY <1>12 DEF WorkerDestroy
  <2>3. \A r \in Resps : /\ InHand(r) <=> r = q
                         /\ ~InHand(r)'
                         /\ Queued(r)' <=> Queued(r)
                         /\ Holders(r)' = Holders(r)
    BY <1>12, <2>1, <2>2, WorkerMoves DEF InHand, Queued, Holders
  <2>4. \A r \in Resps : Cardinality(Holders(r)) \in Nat
    BY HoldersFacts
  <2>5. resp_refs \in [Resps -> Nat]
    BY DEF TypeOK
  <2> QED
    BY <2>1, <2>2, <2>3, <2>4, <2>5 DEF RespRefs, One
<1>13. ASSUME NEW o \in Ops, NEW r \in Resps, AnswersOnce(o, r) \/ AnswersAgain(o, r)
       PROVE  RespRefs'
  <2>1. /\ rx_fifo' = Append(rx_fifo, r) /\ answers[r] = NoOp
        /\ resp_refs' = [resp_refs EXCEPT ![r] = 1]
        /\ UNCHANGED <<mem, response, worker>>
    BY <1>13, PeerFrame
  <2>2. ~Queued(r) /\ ~InHand(r) /\ Holders(r) = {}
    BY <2>1 DEF PeerInv, Holders
  <2>3. \A q \in Resps : /\ Queued(q)' <=> Queued(q) \/ q = r
                         /\ InHand(q)' <=> InHand(q)
                         /\ Holders(q)' = Holders(q)
    BY <2>1, PutFacts DEF InHand, Holders
  <2>4. Cardinality(Holders(r)) = 0 /\ resp_refs \in [Resps -> Nat]
    BY <2>2, FS_EmptySet DEF TypeOK
  <2>5. resp_refs'[r] = 1 /\ \A q \in Resps \ {r} : resp_refs'[q] = resp_refs[q]
    BY <2>1, <2>4
  <2>6. ASSUME NEW q \in Resps
        PROVE  /\ IsFiniteSet(Holders(q)')
               /\ resp_refs'[q] = One(Queued(q)') + One(InHand(q)') + Cardinality(Holders(q)')
    <3>1. CASE q = r
      BY <2>2, <2>3, <2>4, <2>5, <3>1 DEF RespRefs, One
    <3>2. CASE q # r
      BY <2>3, <2>5, <3>2 DEF RespRefs, One
    <3> QED
      BY <3>1, <3>2
  <2> QED
    BY <2>6 DEF RespRefs, One
<1>14. ASSUME NEW o \in Ops, Lose(o) PROVE RespRefs'
  BY <1>14, RespRefsFrame DEF Lose, Queued, InHand, Holders
<1>15. CASE WorkerFreed
  BY <1>15, CrashFrame, RespRefsFrame DEF WorkerFreed, Queued, InHand, Holders
<1>16. CASE UnregisterFlag \/ UnregisterJoin \/ FlushDone \/ UNCHANGED vars
  BY <1>16, RespRefsFrame DEF UnregisterFlag, UnregisterJoin, FlushDone, vars,
     Queued, InHand, Holders
<1>17. /\ WorkerCallback => worker.cur \in Ops /\ worker.resp \in Resps
       /\ WorkerDestroy => worker.resp \in Resps
  BY DEF WorkerCallback, WorkerDestroy, ListInv
<1> QED
  BY <1>1, <1>2, <1>4, <1>5, <1>6, <1>7, <1>8, <1>9, <1>10, <1>11, <1>12, <1>13, <1>14,
     <1>15, <1>16, <1>17
     DEF Next, SendStep, Worker, Unregister

-----------------------------------------------------------------------------
(* The life of a request: numbered once, answered at most once.            *)

LEMMA NumberedStays ==
  ASSUME TypeOK, SenderInv, [Next]_vars
  PROVE  /\ \A o \in Ops : Numbered(o) => Numbered(o)' /\ stamp'[o] = stamp[o]
         /\ request_id \in Nat /\ request_id' \in Nat /\ request_id' >= request_id
         /\ (~\E s \in Senders : SendNumber(s)) => UNCHANGED <<stamp, request_id>>
<1>1. request_id \in Nat
  BY DEF TypeOK
<1>2. CASE \E s \in Senders : SendNumber(s)
  <2>1. PICK s \in Senders : SendNumber(s)
    BY <1>2
  <2> QED
    BY <1>1, <1>2, <2>1, NumberFacts
<1>3. CASE ~\E s \in Senders : SendNumber(s)
  <2>1. UNCHANGED <<stamp, request_id>>
    <3>1. CASE \E s \in Senders : SendStep(s)
      BY <1>3, <3>1 DEF SendStep, SendTransmit, SendReturns, SendFails, SyncWakes,
         SendDestroy, Crash, opVars
    <3>2. CASE \E s \in Senders, o \in Ops, b \in BOOLEAN : SendCheck(s, o, b)
      BY <3>2 DEF SendCheck
    <3> QED
      BY <3>1, <3>2, SenderFrame
  <2> QED
    BY <1>1, <2>1 DEF Numbered
<1> QED
  BY <1>2, <1>3

(* A step that answers nothing keeps what is known of the requests.        *)
LEMMA AnswerFrame ==
  ASSUME AnswerInv, UNCHANGED <<response, called, sync_sem, failed, flushed, stamp>>,
         \A o \in Ops : /\ Waiting(o)' => Waiting(o)
                        /\ mem'[o] = "unused" => mem[o] = "unused"
  PROVE  AnswerInv'
  BY DEF AnswerInv, Numbered

(* A request that is taken out of tx_fifo was not answered, and will not be. *)
LEMMA AnswerStep ==
  ASSUME TypeOK, SenderInv, ListInv, OpRefs, RespRefs, AnswerInv, [Next]_vars
  PROVE  AnswerInv'
<1> USE DEF opVars, respVars, ghosts
<1>1. ASSUME NEW s \in Senders, NEW o \in Ops, NEW b \in BOOLEAN,
             Refused(s, o) \/ SendCheck(s, o, b)
      PROVE  AnswerInv'
  <2>1. /\ UNCHANGED <<response, called, sync_sem, failed, flushed, stamp, tx_fifo, worker>>
        /\ \A p \in Ops : mem'[p] = "unused" => mem[p] = "unused"
    BY <1>1 DEF Refused, SendCheck, TypeOK
  <2> QED
    BY <2>1, AnswerFrame DEF Waiting, Linked
<1>2. ASSUME NEW s \in Senders, SendNumber(s) PROVE AnswerInv'
  <2>1. PICK o \in Ops : o = sender[s].op /\ Owned(o) /\ ~Numbered(o)
    BY <1>2, NumberFacts
  <2>2. /\ UNCHANGED <<mem, response, called, sync_sem, failed, flushed, worker>>
        /\ tx_fifo' = Append(tx_fifo, o)
        /\ mem[o] = "live"
    BY <1>2, <2>1, HeldFacts DEF SendNumber
  <2>3. \A p : Waiting(p)' <=> Waiting(p) \/ p = o
    BY <2>2, LinkFacts DEF Waiting
  <2>4. \A p \in Ops : Numbered(p)' <=> Numbered(p) \/ p = o
    BY <1>2, <2>1, NumberFacts
  <2> QED
    BY <2>1, <2>2, <2>3, <2>4 DEF AnswerInv
<1>3. ASSUME NEW s \in Senders, SendTransmit(s) \/ SendReturns(s) PROVE AnswerInv'
  BY <1>3, AnswerFrame DEF SendTransmit, SendReturns, Waiting, Linked
<1>4. ASSUME NEW s \in Senders, SyncWakes(s) PROVE AnswerInv'
  <2>1. PICK o \in Ops : o = sender[s].op
    BY <1>4, SenderFacts DEF SyncWakes
  <2>2. /\ UNCHANGED <<mem, response, called, failed, flushed, stamp, tx_fifo, worker>>
        /\ sync_sem[o] > 0 /\ sync_sem' = [sync_sem EXCEPT ![o] = @ - 1]
        /\ sync_sem \in [Ops -> Nat]
    BY <1>4, <2>1 DEF SyncWakes, Posted, TypeOK
  <2>3. \A p : Waiting(p)' <=> Waiting(p)
    BY <2>2 DEF Waiting, Linked
  <2> QED
    BY <2>2, <2>3 DEF AnswerInv, Numbered
<1>5. ASSUME NEW s \in Senders, SendFails(s) PROVE AnswerInv'
  <2>1. CASE ~Linked(sender[s].op)
    BY <1>5, <2>1, CrashFrame, AnswerFrame DEF SendFails, Waiting, Linked
  <2>2. CASE Linked(sender[s].op)
    <3>1. PICK o \in Ops : o = sender[s].op /\ Linked(o) /\ ref_count[o] > 0 /\ ~Taken(o)
      BY <1>5, <2>2, SenderFacts, HeldFacts DEF SendFails, ListInv
    <3>2. /\ UNCHANGED <<response, called, sync_sem, flushed, stamp, worker>>
          /\ Unlink(o) /\ Unref(o) /\ failed' = failed \cup {o}
      BY <1>5, <2>2, <3>1 DEF SendFails
    <3>3. \A p \in Ops : mem'[p] = "unused" <=> mem[p] = "unused"
      BY <3>1, <3>2, UnrefFacts
    <3>4. \A p : Waiting(p)' <=> Waiting(p) /\ p # o
      BY <3>1, <3>2, UnlinkFacts DEF Waiting, Taken
    <3>5. Numbered(o) /\ Waiting(o)
      BY <3>1 DEF ListInv, Waiting
    <3> QED
      BY <3>2, <3>3, <3>4, <3>5 DEF AnswerInv, Numbered
  <2> QED
    BY <2>1, <2>2
<1>6. ASSUME NEW s \in Senders, SendDestroy(s) PROVE AnswerInv'
  <2>1. sender[s].op \in Ops /\ ref_count[sender[s].op] > 0
    BY <1>6, SenderFacts, HeldFacts DEF SendDestroy
  <2>2. /\ UNCHANGED <<response, called, sync_sem, failed, flushed, stamp, tx_fifo, worker>>
        /\ Unref(sender[s].op)
    BY <1>6 DEF SendDestroy
  <2>3. \A p \in Ops : mem'[p] = "unused" <=> mem[p] = "unused"
    BY <2>1, <2>2, UnrefFacts
  <2> QED
    BY <2>2, <2>3, AnswerFrame DEF Waiting, Linked
<1>7. CASE FlushOne
  <2>1. CASE mem[cursor.cur] = "freed" \/ ~Linked(cursor.cur)
    BY <1>7, <2>1, CrashFrame, AnswerFrame DEF FlushOne, Waiting, Linked
  <2>2. CASE ~(mem[cursor.cur] = "freed" \/ ~Linked(cursor.cur))
    <3>1. PICK o \in Ops : o = cursor.cur /\ Linked(o) /\ ref_count[o] > 0 /\ ~Taken(o)
      BY <2>2, PlaceFacts, HeldFacts DEF ListInv
    <3>2. /\ UNCHANGED <<response, called, sync_sem, failed, stamp, worker>>
          /\ Unlink(o) /\ Unref(o) /\ flushed' = flushed \cup {o}
      BY <1>7, <2>2, <3>1 DEF FlushOne
    <3>3. \A p \in Ops : mem'[p] = "unused" <=> mem[p] = "unused"
      BY <3>1, <3>2, UnrefFacts
    <3>4. \A p : Waiting(p)' <=> Waiting(p) /\ p # o
      BY <3>1, <3>2, UnlinkFacts DEF Waiting, Taken
    <3>5. Numbered(o) /\ Waiting(o)
      BY <3>1 DEF ListInv, Waiting
    <3> QED
      BY <3>2, <3>3, <3>4, <3>5 DEF AnswerInv, Numbered
  <2> QED
    BY <2>1, <2>2
<1>8. CASE WorkerCallback
  <2>1. PICK o \in Ops : o = worker.cur /\ Taken(o) /\ Waiting(o) /\ ~Linked(o) /\ Numbered(o)
    BY <1>8 DEF WorkerCallback, ListInv, Taken, Waiting
  <2>2. /\ UNCHANGED <<mem, failed, flushed, stamp, tx_fifo>>
        /\ response' = [response EXCEPT ![o] = worker.resp]
        /\ called' = [called EXCEPT ![o] = @ + 1]
        /\ sync_sem' = [sync_sem EXCEPT ![o] = @ + 1]
    BY <1>8, <2>1 DEF WorkerCallback, PostSync
  <2>3. worker.resp \in Resps /\ worker.resp # NoOp
    BY <1>8, OperationAssumption DEF WorkerCallback, ListInv, OperationAssumption
  <2>4. \A p : Waiting(p)' <=> Waiting(p) /\ p # o
    BY <1>8, <2>1, <2>2, WorkerMoves DEF Waiting, Linked
  <2>5. /\ response \in [Ops -> RespPointers]
        /\ called \in [Ops -> Nat] /\ sync_sem \in [Ops -> Nat]
    BY DEF TypeOK
  <2> QED
    BY <2>1, <2>2, <2>3, <2>4, <2>5 DEF AnswerInv, Numbered
<1>9. CASE WorkerUnref
  <2>1. worker.cur \in Ops /\ ref_count[worker.cur] > 0
    BY <1>9, HeldFacts DEF WorkerUnref, ListInv, Taken
  <2>2. /\ UNCHANGED <<response, called, sync_sem, failed, flushed, stamp, tx_fifo>>
        /\ Unref(worker.cur)
    BY <1>9 DEF WorkerUnref
  <2>3. \A p \in Ops : mem'[p] = "unused" <=> mem[p] = "unused"
    BY <2>1, <2>2, UnrefFacts
  <2>4. \A p : Waiting(p)' => Waiting(p)
    BY <1>9, <2>2, WorkerMoves DEF Waiting, Linked
  <2> QED
    BY <2>2, <2>3, <2>4, AnswerFrame
<1>10. CASE WorkerMatch
  <2>1. CASE ~Linked(worker.cur)
    BY <1>10, <2>1, CrashFrame, AnswerFrame DEF WorkerMatch, Waiting, Linked
  <2>2. CASE Linked(worker.cur)
    <3>1. UNCHANGED <<mem, response, called, sync_sem, failed, flushed, stamp>>
      BY <1>10, <2>2 DEF WorkerMatch
    <3>2. \A p : Waiting(p)' => Waiting(p)
      BY <1>10, <2>2, WorkerMoves, UnlinkFacts DEF WorkerMatch, Waiting
    <3> QED
      BY <3>1, <3>2, AnswerFrame
  <2> QED
    BY <2>1, <2>2
<1>11. CASE WorkerGet \/ WorkerNext \/ WorkerDrop \/ WorkerDestroy
  <2>1. UNCHANGED <<mem, response, called, sync_sem, failed, flushed, stamp, tx_fifo>>
    BY <1>11 DEF WorkerGet, WorkerNext, WorkerDrop, WorkerDestroy
  <2>2. \A p : Waiting(p)' => Waiting(p)
    BY <1>11, <2>1, WorkerMoves DEF Waiting, Linked
  <2> QED
    BY <2>1, <2>2, AnswerFrame
<1>12. ASSUME NEW o \in Ops, NEW r \in Resps, AnswersOnce(o, r) \/ AnswersAgain(o, r)
       PROVE  AnswerInv'
  BY <1>12, PeerFrame, AnswerFrame DEF Waiting, Linked
<1>13. ASSUME NEW o \in Ops, Lose(o) PROVE AnswerInv'
  BY <1>13, AnswerFrame DEF Lose, Waiting, Linked
<1>14. CASE WorkerFreed
  BY <1>14, CrashFrame, AnswerFrame DEF WorkerFreed, Waiting, Linked
<1>15. CASE UnregisterFlag \/ UnregisterJoin \/ FlushDone \/ UNCHANGED vars
  BY <1>15, AnswerFrame DEF UnregisterFlag, UnregisterJoin, FlushDone, vars, Waiting, Linked
<1> QED
  BY <1>1, <1>2, <1>3, <1>4, <1>5, <1>6, <1>7, <1>8, <1>9, <1>10, <1>11, <1>12, <1>13,
     <1>14, <1>15
     DEF Next, SendStep, Worker, Unregister

(* What was recorded of a request stays recorded.                          *)
LEMMA GhostsGrow ==
  ASSUME [Next]_vars
  PROVE  failed \subseteq failed' /\ flushed \subseteq flushed'
<1> USE DEF opVars, respVars, ghosts
<1>1. CASE \E s \in Senders : SendStep(s)
  BY <1>1 DEF SendStep, SendNumber, SendTransmit, SendFails, SendReturns, SyncWakes,
     SendDestroy, Crash
<1>2. CASE \E s \in Senders, o \in Ops : \/ Refused(s, o)
                                         \/ \E b \in BOOLEAN : SendCheck(s, o, b)
  BY <1>2 DEF Refused, SendCheck
<1>3. CASE \E o \in Ops, r \in Resps : AnswersOnce(o, r) \/ AnswersAgain(o, r)
  BY <1>3, PeerFrame
<1>4. CASE (\E o \in Ops : Lose(o)) \/ Worker
  BY <1>4 DEF Lose, Worker, WorkerGet, WorkerNext, WorkerFreed, WorkerMatch,
     WorkerCallback, WorkerUnref, WorkerDrop, WorkerDestroy, Crash
<1>5. CASE UnregisterFlag \/ Unregister \/ UNCHANGED vars
  BY <1>5 DEF UnregisterFlag, Unregister, UnregisterJoin, FlushOne, FlushDone, Crash, vars
<1> QED
  BY <1>1, <1>2, <1>3, <1>4, <1>5 DEF Next

(* gb_operation_send_request_sync destroys its request only with a         *)
(* response, or because the send failed.                                   *)
LEMMA SyncStep ==
  ASSUME TypeOK, SenderInv, ListInv, AnswerInv, SyncInv, [Next]_vars
  PROVE  SyncInv'
<1> USE DEF opVars, respVars, ghosts
<1>1. ASSUME NEW o \in Ops PROVE response[o] # NoOp => response'[o] # NoOp
  <2>1. CASE WorkerCallback
    BY <2>1, OperationAssumption
       DEF WorkerCallback, ListInv, TypeOK, OperationAssumption
  <2>2. CASE ~WorkerCallback
    <3>1. UNCHANGED response
      <4>1. CASE Worker
        BY <2>2, <4>1 DEF Worker, WorkerGet, WorkerNext, WorkerFreed, WorkerMatch,
           WorkerUnref, WorkerDrop, WorkerDestroy, Crash
      <4> QED
        BY <4>1, WorkerFrame
    <3> QED
      BY <3>1
  <2> QED
    BY <2>1, <2>2
<1>2. failed \subseteq failed'
  BY GhostsGrow
<1>3. ASSUME NEW t \in Senders, NEW o \in Ops,
             sender'[t].pc = "destroy", sender'[t].sync, sender'[t].op = o, o \notin failed'
      PROVE  response'[o] # NoOp
  <2>1. CASE sender'[t] = sender[t]
    BY <1>1, <1>2, <1>3, <2>1 DEF SyncInv
  <2>2. CASE sender'[t] # sender[t]
    <3>1. PICK s \in Senders : SendStep(s) \/ \E p \in Ops, b \in BOOLEAN : SendCheck(s, p, b)
      BY <2>2, SenderFrame
    <3>2. CASE \E p \in Ops, b \in BOOLEAN : SendCheck(s, p, b)
      <4>1. \E p \in Ops, b \in BOOLEAN :
              sender' = [sender EXCEPT ![s] = [pc |-> "number", op |-> p, sync |-> b]]
        BY <3>2 DEF SendCheck
      <4>2. sender'[t].pc = "number" \/ sender'[t] = sender[t]
        BY <4>1 DEF TypeOK
      <4> QED
        BY <1>3, <2>2, <4>2
    <3>3. CASE SendNumber(s) \/ SendTransmit(s)
      <4>1. sender'[t].pc \in {"send", "sent"} \/ sender'[t] = sender[t]
        BY <3>3 DEF SendNumber, SendTransmit, TypeOK
      <4> QED
        BY <1>3, <2>2, <4>1
    <3>4. CASE SendReturns(s)
      <4>1. /\ sender' = [sender EXCEPT ![s].pc = IF sender[s].sync THEN "wait" ELSE "destroy"]
            /\ sender \in [Senders ->
                 [pc : {"idle", "number", "send", "sent", "wait", "destroy"},
                  op : Pointers, sync : BOOLEAN]]
        BY <3>4 DEF SendReturns, TypeOK
      <4>2. t = s /\ sender'[t].sync = sender[t].sync
        BY <2>2, <4>1
      <4>3. sender[t].sync => sender'[t].pc = "wait"
        BY <4>1, <4>2
      <4> QED
        BY <1>3, <4>2, <4>3
    <3>5. CASE SendFails(s)
      <4>1. t = s /\ sender'[t].op = sender[t].op /\ failed' = failed \cup {sender[s].op}
        BY <2>2, <3>5 DEF SendFails, Crash, TypeOK
      <4> QED
        BY <1>3, <4>1
    <3>6. CASE SyncWakes(s)
      <4>1. t = s /\ sender'[t].op = sender[t].op /\ sync_sem[sender[t].op] > 0
        BY <2>2, <3>6 DEF SyncWakes, Posted, TypeOK
      <4> QED
        BY <1>1, <1>3, <4>1 DEF AnswerInv
    <3>7. CASE SendDestroy(s)
      <4>1. sender'[t].pc = "idle" \/ sender'[t] = sender[t]
        BY <3>7 DEF SendDestroy, SenderIdle, TypeOK
      <4> QED
        BY <1>3, <2>2, <4>1
    <3> QED
      BY <3>1, <3>2, <3>3, <3>4, <3>5, <3>6, <3>7 DEF SendStep
  <2> QED
    BY <2>1, <2>2
<1> QED
  BY <1>3 DEF SyncInv

(* Each response comes once and answers a request the peer received.       *)
LEMMA PeerFrames ==
  ASSUME TypeOK, PeerInv, UNCHANGED <<rx_fifo, answers>>, wire' \subseteq wire,
         \A o \in Ops : Numbered(o) => Numbered(o)',
         \A s \in Senders : sender'[s].pc = "send" => sender'[s] = sender[s],
         \A r \in Resps : /\ InHand(r)' => InHand(r)
                          /\ r \in dropped' => r \in dropped \/ InHand(r)
                          /\ \A o \in Ops : response'[o] = r => response[o] = r \/ InHand(r)
  PROVE  PeerInv'
<1> USE DEF PeerInv
<1>1. \A o \in wire' : Numbered(o)'
  BY DEF TypeOK
<1> QED
  BY <1>1 DEF Queued

LEMMA PeerStep ==
  ASSUME TypeOK, SenderInv, ListInv, PeerInv, [Next]_vars
  PROVE  PeerInv'
<1> USE DEF opVars, respVars, ghosts
<1>1. \A o \in Ops : Numbered(o) => Numbered(o)'
  BY NumberedStays
<1>2. ASSUME NEW s \in Senders, NEW o \in Ops, NEW b \in BOOLEAN,
             Refused(s, o) \/ SendCheck(s, o, b)
      PROVE  PeerInv'
  <2>1. /\ UNCHANGED <<rx_fifo, answers, wire, worker, dropped, response>>
        /\ \A t \in Senders : sender'[t] = sender[t] \/ sender'[t].pc = "number"
    BY <1>2 DEF Refused, SendCheck, TypeOK
  <2> QED
    BY <1>1, <2>1, PeerFrames DEF InHand
<1>3. ASSUME NEW s \in Senders, SendNumber(s) PROVE PeerInv'
  <2>1. PICK o \in Ops : o = sender[s].op /\ ~Numbered(o)
    BY <1>3, NumberFacts
  <2>2. UNCHANGED <<rx_fifo, answers, wire, worker, dropped, response>>
    BY <1>3 DEF SendNumber
  <2>3. /\ \A t \in Senders : t # s => sender'[t] = sender[t]
        /\ sender'[s].op = o
    BY <1>3, <2>1, MoveFacts DEF SendNumber
  <2>4. o \notin wire /\ \A r \in Resps : answers[r] # o
    BY <2>1 DEF PeerInv
  <2>5. \A t \in Senders, p \in Ops : sender'[t].pc = "send" /\ sender'[t].op = p =>
          p \notin wire' /\ \A r \in Resps : answers'[r] # p
    BY <2>2, <2>3, <2>4 DEF PeerInv
  <2>6. \A p \in wire' : Numbered(p)'
    BY <1>1, <2>2 DEF PeerInv, TypeOK
  <2> QED
    BY <1>1, <2>2, <2>5, <2>6 DEF PeerInv, Queued, InHand
<1>4. ASSUME NEW s \in Senders, SendTransmit(s) PROVE PeerInv'
  <2>1. PICK o \in Ops : o = sender[s].op
    BY <1>4, SenderFacts DEF SendTransmit
  <2>2. /\ UNCHANGED <<rx_fifo, answers, worker, dropped, response, stamp>>
        /\ wire' = wire \cup {o} /\ sender[s].pc = "send"
    BY <1>4, <2>1 DEF SendTransmit
  <2>3. /\ \A t \in Senders : t # s => sender'[t] = sender[t]
        /\ sender'[s].pc = "sent"
    BY <1>4, MoveFacts DEF SendTransmit
  <2>4. Numbered(o) /\ \A t \in Senders : t # s => sender[t].op # o
    BY <2>1, <2>2 DEF SenderInv
  <2>5. \A t \in Senders, p \in Ops : sender'[t].pc = "send" /\ sender'[t].op = p =>
          p \notin wire' /\ \A r \in Resps : answers'[r] # p
    BY <2>2, <2>3, <2>4 DEF PeerInv
  <2>6. \A p \in wire' : Numbered(p)'
    BY <1>1, <2>2, <2>4 DEF PeerInv, TypeOK
  <2> QED
    BY <1>1, <2>2, <2>5, <2>6 DEF PeerInv, Queued, InHand
<1>5. ASSUME NEW s \in Senders,
             SendFails(s) \/ SendReturns(s) \/ SyncWakes(s) \/ SendDestroy(s)
      PROVE  PeerInv'
  <2>1. UNCHANGED <<rx_fifo, answers, wire, worker, dropped, response>>
    BY <1>5 DEF SendFails, SendReturns, SyncWakes, SendDestroy, Crash
  <2>2. \A t \in Senders : sender'[t] = sender[t] \/ sender'[t].pc # "send"
    BY <1>5 DEF SendFails, SendReturns, SyncWakes, SendDestroy, Crash, SenderIdle, TypeOK
  <2> QED
    BY <1>1, <2>1, <2>2, PeerFrames DEF InHand
<1>6. ASSUME NEW o \in Ops, NEW r \in Resps, AnswersOnce(o, r) \/ AnswersAgain(o, r)
      PROVE  PeerInv'
  <2>1. /\ o \in wire /\ answers[r] = NoOp
        /\ answers' = [answers EXCEPT ![r] = o]
        /\ rx_fifo' = Append(rx_fifo, r)
        /\ wire' \subseteq wire
        /\ UNCHANGED <<worker, dropped, response, sender, stamp>>
    BY <1>6, PeerFrame
  <2>2. ~Queued(r) /\ ~InHand(r)
    BY <2>1 DEF PeerInv
  <2>3. /\ \A q : Queued(q)' <=> Queued(q) \/ q = r
        /\ Len(rx_fifo) \in Nat /\ Len(rx_fifo') = Len(rx_fifo) + 1
        /\ rx_fifo'[Len(rx_fifo')] = r
        /\ \A i \in 1..Len(rx_fifo) : rx_fifo'[i] = rx_fifo[i]
    BY <2>1, PutFacts
  <2>4. \A i \in 1..Len(rx_fifo) : rx_fifo[i] # r
    BY <2>2 DEF Queued, TypeOK
  <2>5. \A i \in 1..Len(rx_fifo') : i \in 1..Len(rx_fifo) \/ i = Len(rx_fifo')
    BY <2>3
  <2>6. \A i, j \in 1..Len(rx_fifo') : rx_fifo'[i] = rx_fifo'[j] => i = j
    BY <2>3, <2>4, <2>5 DEF PeerInv
  <2>7. /\ Numbered(o) /\ o # NoOp
        /\ answers'[r] = o /\ \A q \in Resps \ {r} : answers'[q] = answers[q]
    BY <2>1, OperationAssumption DEF PeerInv, TypeOK, OperationAssumption
  <2>8. \A t \in Senders, p \in Ops : sender'[t].pc = "send" /\ sender'[t].op = p =>
          p \notin wire' /\ \A q \in Resps : answers'[q] # p
    BY <2>1, <2>7 DEF PeerInv
  <2>9. \A p \in wire' : Numbered(p)'
    BY <1>1, <2>1 DEF PeerInv, TypeOK
  <2>10. \A q \in Resps : InHand(q)' <=> InHand(q)
    BY <2>1 DEF InHand
  <2>11. \A q \in Resps, p \in Ops : answers'[q] = p => Numbered(p)'
    BY <1>1, <2>7 DEF PeerInv
  <2>12. \A q \in Resps : ~(Queued(q)' /\ InHand(q)')
    BY <2>2, <2>3, <2>10 DEF PeerInv
  <2>13. \A q \in Resps :
           \/ Queued(q)' \/ InHand(q)' \/ q \in dropped'
           \/ \E p \in Ops : response'[p] = q
           => answers'[q] # NoOp
    BY <2>1, <2>3, <2>7, <2>10 DEF PeerInv
  <2> QED
    BY <2>6, <2>8, <2>9, <2>11, <2>12, <2>13 DEF PeerInv
<1>7. ASSUME NEW o \in Ops, Lose(o) PROVE PeerInv'
  BY <1>1, <1>7, PeerFrames DEF Lose, InHand
<1>8. CASE WorkerGet
  <2>1. /\ rx_fifo # <<>> /\ UNCHANGED <<answers, wire, dropped, response, sender, stamp>>
        /\ rx_fifo' = Tail(rx_fifo)
    BY <1>8 DEF WorkerGet
  <2>2. /\ \A q : Queued(q)' <=> Queued(q) /\ q # Head(rx_fifo)
        /\ Queued(Head(rx_fifo))
        /\ \A i, j \in 1..Len(rx_fifo') : rx_fifo'[i] = rx_fifo'[j] => i = j
    BY <2>1, TakeFacts
  <2>3. \A q \in Resps : InHand(q)' <=> q = Head(rx_fifo)
    BY <1>8, WorkerMoves DEF InHand
  <2>4. \A p \in wire' : Numbered(p)'
    BY <1>1, <2>1 DEF PeerInv, TypeOK
  <2> QED
    BY <1>1, <2>1, <2>2, <2>3, <2>4 DEF PeerInv
<1>9. CASE WorkerNext \/ WorkerDrop \/ WorkerUnref \/ WorkerDestroy
  <2>1. /\ UNCHANGED <<rx_fifo, answers, wire, response, sender>>
        /\ dropped' \subseteq dropped \cup {worker.resp}
    BY <1>9 DEF WorkerNext, WorkerDrop, WorkerUnref, WorkerDestroy
  <2>2. \A q \in Resps : InHand(q)' => InHand(q)
    BY <1>9, WorkerMoves, OperationAssumption DEF InHand, OperationAssumption
  <2>3. \A q \in Resps : q \in dropped' => q \in dropped \/ InHand(q)
    BY <1>9 DEF WorkerNext, WorkerDrop, WorkerUnref, WorkerDestroy, InHand
  <2> QED
    BY <1>1, <2>1, <2>2, <2>3, PeerFrames
<1>10. CASE WorkerMatch
  <2>1. CASE ~Linked(worker.cur)
    BY <1>1, <1>10, <2>1, CrashFrame, PeerFrames DEF WorkerMatch, InHand
  <2>2. CASE Linked(worker.cur)
    <3>1. UNCHANGED <<rx_fifo, answers, wire, response, sender, dropped>>
      BY <1>10, <2>2 DEF WorkerMatch
    <3>2. \A q \in Resps : InHand(q)' => InHand(q)
      BY <1>10, <2>2, WorkerMoves DEF InHand
    <3> QED
      BY <1>1, <3>1, <3>2, PeerFrames
  <2> QED
    BY <2>1, <2>2
<1>11. CASE WorkerCallback
  <2>1. /\ UNCHANGED <<rx_fifo, answers, wire, sender, dropped>>
        /\ response' = [response EXCEPT ![worker.cur] = worker.resp]
        /\ response \in [Ops -> RespPointers]
    BY <1>11 DEF WorkerCallback, TypeOK
  <2>2. \A q \in Resps : /\ InHand(q)' => InHand(q)
                         /\ worker.resp = q => InHand(q)
    BY <1>11, WorkerMoves DEF InHand
  <2>3. \A q \in Resps, o \in Ops : response'[o] = q => response[o] = q \/ InHand(q)
    BY <2>1, <2>2
  <2> QED
    BY <1>1, <2>1, <2>2, <2>3, PeerFrames
<1>12. CASE WorkerFreed
  BY <1>1, <1>12, CrashFrame, PeerFrames DEF WorkerFreed, InHand
<1>13. CASE UnregisterFlag \/ Unregister \/ UNCHANGED vars
  <2>1. UNCHANGED <<rx_fifo, answers, wire, worker, dropped, response, sender>>
    BY <1>13 DEF UnregisterFlag, Unregister, UnregisterJoin, FlushOne, FlushDone, Crash, vars
  <2> QED
    BY <1>1, <2>1, PeerFrames DEF InHand
<1> QED
  BY <1>2, <1>3, <1>4, <1>5, <1>6, <1>7, <1>8, <1>9, <1>10, <1>11, <1>12, <1>13
     DEF Next, SendStep, Worker

-----------------------------------------------------------------------------
(* Ids, and the request a response is taken to answer.                     *)

(* Every request is stamped higher than the ones before it.                *)
LEMMA StampStep ==
  ASSUME TypeOK, SenderInv, StampInv, [Next]_vars
  PROVE  StampInv'
<1>1. stamp \in [Ops -> Nat] /\ request_id \in Nat
  BY DEF TypeOK
<1>2. ASSUME NEW s \in Senders, SendNumber(s) PROVE StampInv'
  <2>1. PICK o \in Ops : o = sender[s].op /\ ~Numbered(o)
    BY <1>2, NumberFacts
  <2>2. /\ NextId \in Nat /\ NextId > 0 /\ NextId >= request_id
        /\ \A p \in Ops : p # o => stamp'[p] = stamp[p]
        /\ stamp'[o] = NextId /\ request_id' = NextId + 1
    BY <1>2, <2>1, NumberFacts
  <2> QED
    BY <1>1, <2>1, <2>2 DEF StampInv, Numbered
<1>3. CASE ~\E s \in Senders : SendNumber(s)
  <2>1. UNCHANGED <<stamp, request_id>>
    BY <1>3, NumberedStays
  <2> QED
    BY <2>1 DEF StampInv, Numbered
<1> QED
  BY <1>2, <1>3

(* What a request holds, or is about to get, changes only when the worker  *)
(* takes it out of tx_fifo.                                                *)
LEMMA MisledStays ==
  ASSUME TypeOK, ListInv, PeerInv, [Next]_vars, NEW o \in Ops,
         ~(WorkerMatch /\ worker.cur = o /\ Linked(o))
  PROVE  Misled(o)' <=> Misled(o)
<1> USE DEF opVars, respVars, ghosts
<1>1. ASSUME NEW p \in Ops, NEW r \in Resps, AnswersOnce(p, r) \/ AnswersAgain(p, r)
      PROVE  Misled(o)' <=> Misled(o)
  <2>1. /\ answers[r] = NoOp /\ answers' = [answers EXCEPT ![r] = p]
        /\ UNCHANGED <<worker, response>>
    BY <1>1, PeerFrame
  <2>2. ~InHand(r) /\ response[o] # r
    BY <2>1 DEF PeerInv
  <2>3. answers \in [Resps -> Pointers] /\ response[o] \in RespPointers
        /\ worker.resp \in RespPointers
    BY DEF TypeOK
  <2>4. \A q \in Resps : q # r => answers'[q] = answers[q]
    BY <2>1, <2>3
  <2> QED
    BY <2>1, <2>2, <2>3, <2>4 DEF Misled, InHand, RespPointers
<1>2. CASE WorkerCallback
  <2>1. /\ worker' = [worker EXCEPT !.pc = "unref"] /\ worker.pc = "callback"
        /\ response' = [response EXCEPT ![worker.cur] = worker.resp]
        /\ UNCHANGED answers
    BY <1>2 DEF WorkerCallback
  <2>2. response \in [Ops -> RespPointers] /\ worker'.pc = "unref"
    BY <2>1, WorkerMoves DEF TypeOK
  <2>3. response'[o] = IF worker.cur = o THEN worker.resp ELSE response[o]
    BY <2>1, <2>2
  <2> QED
    BY <2>1, <2>2, <2>3 DEF Misled
<1>3. CASE WorkerMatch
  <2>1. CASE ~Linked(worker.cur)
    BY <1>3, <2>1, CrashFrame DEF WorkerMatch, Misled
  <2>2. CASE Linked(worker.cur)
    <3>1. UNCHANGED <<answers, response>> /\ worker.pc = "walk" /\ worker.cur # o
      BY <1>3, <2>2 DEF WorkerMatch
    <3>2. worker'.cur = worker.cur
      BY <1>3, <2>2, WorkerMoves DEF WorkerMatch
    <3> QED
      BY <3>1, <3>2 DEF Misled
  <2> QED
    BY <2>1, <2>2
<1>4. CASE WorkerGet \/ WorkerNext \/ WorkerUnref \/ WorkerDrop \/ WorkerDestroy
  <2>1. UNCHANGED <<answers, response>> /\ worker.pc # "callback"
    BY <1>4 DEF WorkerGet, WorkerNext, WorkerUnref, WorkerDrop, WorkerDestroy
  <2>2. worker'.pc # "callback"
    BY <1>4, WorkerMoves DEF WorkerGet, WorkerNext, WorkerUnref, WorkerDrop, WorkerDestroy
  <2> QED
    BY <2>1, <2>2 DEF Misled
<1>5. CASE WorkerFreed
  BY <1>5, CrashFrame DEF WorkerFreed, Misled
<1>6. ASSUME NEW s \in Senders,
             SendStep(s) \/ \E p \in Ops : \/ Refused(s, p)
                                           \/ \E b \in BOOLEAN : SendCheck(s, p, b)
      PROVE  Misled(o)' <=> Misled(o)
  <2>1. UNCHANGED <<worker, response, answers>>
    BY <1>6 DEF SendStep, SendNumber, SendTransmit, SendFails, SendReturns, SyncWakes,
       SendDestroy, Crash, Refused, SendCheck
  <2> QED
    BY <2>1 DEF Misled
<1>7. CASE (\E p \in Ops : Lose(p)) \/ UnregisterFlag \/ Unregister \/ UNCHANGED vars
  <2>1. UNCHANGED <<worker, response, answers>>
    BY <1>7 DEF Lose, UnregisterFlag, Unregister, UnregisterJoin, FlushOne, FlushDone,
       Crash, vars
  <2> QED
    BY <2>1 DEF Misled
<1> QED
  BY <1>1, <1>2, <1>3, <1>4, <1>5, <1>6, <1>7 DEF Next, Worker

(* A match leads the request astray exactly when the response answers      *)
(* another one, and it did not hold a response before.                     *)
LEMMA MatchFacts ==
  ASSUME TypeOK, ListInv, AnswerInv, WorkerMatch, Linked(worker.cur)
  PROVE  /\ worker.cur \in Ops /\ ~Misled(worker.cur)
         /\ worker.resp \in Resps
         /\ Misled(worker.cur)' <=> answers[worker.resp] # worker.cur
         /\ Unlink(worker.cur)
         /\ UNCHANGED <<mem, ref_count, stamp, response, called, sync_sem, answers,
                        resp_refs, request_id, wire, rx_fifo, sender, life, cursor,
                        failed, lost, flushed, dropped, fault>>
<1>1. /\ worker.pc = "walk" /\ worker' = [worker EXCEPT !.pc = "callback"]
      /\ Unlink(worker.cur)
      /\ UNCHANGED <<mem, ref_count, stamp, response, called, sync_sem, answers,
                     resp_refs, request_id, wire, rx_fifo, sender, life, cursor,
                     failed, lost, flushed, dropped, fault>>
  BY DEF WorkerMatch, opVars, respVars, ghosts
<1>2. worker.cur \in Ops /\ worker.resp \in Resps
  BY <1>1, PlaceFacts DEF ListInv
<1>3. /\ worker.resp # NoOp
      /\ worker'.pc = "callback" /\ worker'.cur = worker.cur /\ worker'.resp = worker.resp
  BY <1>1, <1>2, OperationAssumption DEF TypeOK, OperationAssumption
<1>4. response[worker.cur] = NoOp
  BY <1>2 DEF AnswerInv, Waiting
<1>5. Misled(worker.cur)' <=> answers[worker.resp] # worker.cur
  BY <1>1, <1>3 DEF Misled
<1> QED
  BY <1>1, <1>2, <1>4, <1>5 DEF Misled

(* An id smaller than the id space is the counter itself.                  *)
LEMMA IdFacts ==
  ASSUME NEW n \in Nat, n < IdSpace
  PROVE  n % IdSpace = n
  BY OperationAssumption DEF OperationAssumption

(* Two requests with the same id are one, until the counter goes round.    *)
LEMMA WrongAnswerStep ==
  ASSUME TypeOK, SenderInv, ListInv, AnswerInv, PeerInv, StampInv,
         WrongAnswerNeedsWrap, [Next]_vars
  PROVE  WrongAnswerNeedsWrap'
<1>1. request_id \in Nat /\ request_id' \in Nat /\ request_id' >= request_id
      /\ IdSpace \in Nat
  BY NumberedStays, OperationAssumption DEF OperationAssumption
<1>2. CASE WorkerMatch /\ Linked(worker.cur) /\ answers[worker.resp] # worker.cur
  <2>1. /\ worker.cur \in Ops /\ worker.resp \in Resps /\ request_id' = request_id
        /\ Id(worker.cur) = Id(answers[worker.resp])
    BY <1>2, MatchFacts DEF WorkerMatch, Matches
  <2>2. InHand(worker.resp) /\ answers[worker.resp] \in Pointers
    BY <1>2, <2>1 DEF WorkerMatch, InHand, TypeOK
  <2>3. PICK p \in Ops : answers[worker.resp] = p /\ p # worker.cur
    BY <1>2, <2>1, <2>2 DEF PeerInv, Pointers
  <2>4. Numbered(p) /\ Numbered(worker.cur)
    BY <1>2, <2>1, <2>3 DEF PeerInv, ListInv
  <2>5. PICK m \in Nat, n \in Nat : stamp[p] = m /\ stamp[worker.cur] = n
    BY <2>1 DEF TypeOK
  <2>6. m # n /\ m < request_id /\ n < request_id /\ m % IdSpace = n % IdSpace
    BY <2>1, <2>3, <2>4, <2>5 DEF StampInv, Id
  <2>7. m >= IdSpace \/ n >= IdSpace
    BY <1>1, <2>6, IdFacts
  <2> QED
    BY <1>1, <2>1, <2>6, <2>7 DEF WrongAnswerNeedsWrap
<1>3. CASE ~(WorkerMatch /\ Linked(worker.cur) /\ answers[worker.resp] # worker.cur)
  <2>1. ASSUME NEW o \in Ops, Misled(o)' PROVE Misled(o)
    <3>1. CASE WorkerMatch /\ worker.cur = o /\ Linked(o)
      <4>1. Misled(worker.cur)' <=> answers[worker.resp] # worker.cur
        BY <3>1, MatchFacts
      <4>2. ~Misled(worker.cur)'
        BY <1>3, <3>1, <4>1
      <4>3. worker'.cur = o
        BY <3>1, WorkerMoves
      <4> QED
        BY <2>1, <3>1, <4>2, <4>3 DEF Misled
    <3>2. CASE ~(WorkerMatch /\ worker.cur = o /\ Linked(o))
      BY <2>1, <3>2, MisledStays
    <3> QED
      BY <3>1, <3>2
  <2> QED
    BY <1>1, <2>1 DEF WrongAnswerNeedsWrap
<1> QED
  BY <1>2, <1>3

-----------------------------------------------------------------------------
(* The walks over tx_fifo.                                                 *)

(* Who puts a request into tx_fifo, and who takes it out.                  *)
LEMMA LinkedStep ==
  ASSUME TypeOK, SenderInv, ListInv, [Next]_vars, NEW o \in Ops
  PROVE  /\ Linked(o)' => Linked(o) \/ \E s \in Senders : SendNumber(s) /\ sender[s].op = o
         /\ Linked(o) /\ ~Linked(o)' =>
              \/ \E s \in Senders : /\ SendFails(s) /\ sender[s].op = o
                                    /\ failed' = failed \cup {o}
                                    /\ sender'[s].pc = "destroy"
              \/ WorkerMatch /\ worker.cur = o
              \/ FlushOne /\ cursor.cur = o /\ o \in flushed'
<1>1. ASSUME NEW s \in Senders, SendNumber(s) PROVE Linked(o)' <=> Linked(o) \/ o = sender[s].op
  <2>1. PICK p \in Ops : p = sender[s].op
    BY <1>1, NumberFacts
  <2>2. tx_fifo' = Append(tx_fifo, p)
    BY <1>1, <2>1 DEF SendNumber
  <2> QED
    BY <2>1, <2>2, LinkFacts
<1>2. ASSUME NEW s \in Senders, SendFails(s)
      PROVE  /\ Linked(o)' => Linked(o)
             /\ Linked(o) /\ ~Linked(o)' =>
                  sender[s].op = o /\ failed' = failed \cup {o} /\ sender'[s].pc = "destroy"
  <2>1. CASE ~Linked(sender[s].op)
    BY <1>2, <2>1, CrashFrame DEF SendFails, Linked
  <2>2. CASE Linked(sender[s].op)
    <3>1. PICK p \in Ops : p = sender[s].op /\ Linked(p)
      BY <1>2, <2>2, SenderFacts DEF SendFails
    <3>2. Unlink(p) /\ failed' = failed \cup {p} /\ sender'[s].pc = "destroy"
      BY <1>2, <2>2, <3>1, MoveFacts DEF SendFails
    <3> QED
      BY <3>1, <3>2, UnlinkFacts
  <2> QED
    BY <2>1, <2>2
<1>3. ASSUME WorkerMatch
      PROVE  /\ Linked(o)' => Linked(o)
             /\ Linked(o) /\ ~Linked(o)' => worker.cur = o
  <2>1. CASE ~Linked(worker.cur)
    BY <1>3, <2>1, CrashFrame DEF WorkerMatch, Linked
  <2>2. CASE Linked(worker.cur)
    <3>1. PICK p : p = worker.cur /\ Linked(p) /\ Unlink(p)
      BY <1>3, <2>2 DEF WorkerMatch
    <3> QED
      BY <3>1, UnlinkFacts
  <2> QED
    BY <2>1, <2>2
<1>4. ASSUME FlushOne
      PROVE  /\ Linked(o)' => Linked(o)
             /\ Linked(o) /\ ~Linked(o)' => cursor.cur = o /\ o \in flushed'
  <2>1. CASE mem[cursor.cur] = "freed" \/ ~Linked(cursor.cur)
    BY <1>4, <2>1, CrashFrame DEF FlushOne, Linked
  <2>2. CASE ~(mem[cursor.cur] = "freed" \/ ~Linked(cursor.cur))
    <3>1. PICK p : p = cursor.cur /\ Linked(p) /\ Unlink(p) /\ flushed' = flushed \cup {p}
      BY <1>4, <2>2 DEF FlushOne
    <3> QED
      BY <3>1, UnlinkFacts
  <2> QED
    BY <2>1, <2>2
<1>5. CASE (~\E s \in Senders : SendNumber(s) \/ SendFails(s)) /\ ~WorkerMatch /\ ~FlushOne
  BY <1>5, ListFrame DEF Linked
<1> QED
  BY <1>1, <1>2, <1>3, <1>4, <1>5

(* The operation of a send in progress is in tx_fifo, or was flushed or    *)
(* taken for another one.                                                  *)
LEMMA SendInvStep ==
  ASSUME TypeOK, SenderInv, ListInv, AnswerInv, PeerInv, SendInv, [Next]_vars
  PROVE  SendInv'
<1> SUFFICES ASSUME NEW s \in Senders, NEW o \in Ops,
                    sender'[s].pc = "send", sender'[s].op = o
             PROVE  Linked(o)' \/ o \in flushed' \/ Misled(o)'
  BY DEF SendInv
<1>1. CASE SendNumber(s)
  <2>1. sender[s].op = o
    BY <1>1, MoveFacts DEF SendNumber
  <2>2. tx_fifo' = Append(tx_fifo, o)
    BY <1>1, <2>1 DEF SendNumber
  <2> QED
    BY <2>2, LinkFacts
<1>2. CASE sender'[s] = sender[s]
  <2>1. sender[s].pc = "send" /\ sender[s].op = o
    BY <1>2
  <2>2. Linked(o) \/ o \in flushed \/ Misled(o)
    BY <2>1 DEF SendInv
  <2>3. \A r \in Resps : answers[r] # o
    BY <2>1 DEF PeerInv
  <2>4. CASE WorkerMatch /\ worker.cur = o /\ Linked(o)
    <3>1. worker.resp \in Resps /\ (Misled(worker.cur)' <=> answers[worker.resp] # worker.cur)
      BY <2>4, MatchFacts
    <3>2. Misled(worker.cur)' /\ worker'.cur = o
      BY <2>3, <2>4, <3>1, WorkerMoves
    <3> QED
      BY <2>4, <3>2 DEF Misled
  <2>5. CASE ~(WorkerMatch /\ worker.cur = o /\ Linked(o))
    <3>1. Misled(o) => Misled(o)'
      BY <2>5, MisledStays
    <3>2. ASSUME NEW t \in Senders, sender[t].op = o, sender'[t].pc = "destroy"
          PROVE  FALSE
      BY <2>1, <1>2, <3>2, OperationAssumption DEF SenderInv, OperationAssumption
    <3> QED
      BY <2>2, <2>5, <3>1, <3>2, LinkedStep, GhostsGrow
  <2> QED
    BY <2>4, <2>5
<1>3. CASE sender'[s] # sender[s] /\ ~SendNumber(s)
  <2>1. PICK t \in Senders : SendStep(t) \/ \E p \in Ops, b \in BOOLEAN : SendCheck(t, p, b)
    BY <1>3, SenderFrame
  <2>2. CASE \E p \in Ops, b \in BOOLEAN : SendCheck(t, p, b)
    <3>1. \E p \in Ops, b \in BOOLEAN :
            sender' = [sender EXCEPT ![t] = [pc |-> "number", op |-> p, sync |-> b]]
      BY <2>2 DEF SendCheck
    <3>2. sender'[s].pc = "number" \/ sender'[s] = sender[s]
      BY <3>1 DEF TypeOK
    <3> QED
      BY <1>3, <3>2
  <2>3. CASE SendNumber(t)
    <3>1. t # s /\ sender'[s] = sender[s]
      BY <1>3, <2>3, MoveFacts DEF SendNumber
    <3> QED
      BY <1>3, <3>1
  <2>4. CASE \/ SendTransmit(t) \/ SendReturns(t) \/ SendFails(t)
             \/ SyncWakes(t) \/ SendDestroy(t)
    <3>1. sender'[s] = sender[s] \/ sender'[s].pc # "send"
      BY <2>4 DEF SendTransmit, SendReturns, SendFails, SyncWakes, SendDestroy, Crash,
         SenderIdle, TypeOK
    <3> QED
      BY <1>3, <3>1
  <2> QED
    BY <2>1, <2>2, <2>3, <2>4 DEF SendStep
<1> QED
  BY <1>1, <1>2, <1>3

(* sys_dlist_peek_next of the element at a place.                          *)
LEMMA AtFacts ==
  ASSUME TypeOK, ListInv, NEW i \in 1..Len(tx_fifo)
  PROVE  /\ Linked(tx_fifo[i]) /\ tx_fifo[i] \in Ops
         /\ Place(tx_fifo[i]) = i
         /\ i < Len(tx_fifo) =>
              After(tx_fifo[i]) = tx_fifo[i + 1] /\ After(tx_fifo[i]) # NoOp
         /\ ~(i < Len(tx_fifo)) => After(tx_fifo[i]) = NoOp
<1>1. /\ Len(tx_fifo) \in Nat
      /\ Linked(tx_fifo[i])
      /\ \A j \in 1..Len(tx_fifo) : tx_fifo[j] \in Ops /\ tx_fifo[j] # NoOp
  BY LinkedFacts, OperationAssumption DEF OperationAssumption
<1>2. Place(tx_fifo[i]) = i
  BY <1>1, PlaceFacts DEF ListInv
<1>3. i < Len(tx_fifo) => i + 1 \in 1..Len(tx_fifo)
  BY <1>1
<1> QED
  BY <1>1, <1>2, <1>3 DEF After

(* The worker takes its turns before gb_flush_tx_fifo begins.              *)
LEMMA TurnStep ==
  ASSUME TypeOK, ListInv, TurnInv, [Next]_vars
  PROVE  TurnInv'
<1> USE DEF opVars, respVars, ghosts
<1>1. ASSUME NEW s \in Senders, NEW o \in Ops, NEW b \in BOOLEAN,
             Refused(s, o) \/ SendCheck(s, o, b)
      PROVE  TurnInv'
  BY <1>1 DEF Refused, SendCheck, TurnInv
<1>2. ASSUME NEW o \in Ops, NEW r \in Resps, AnswersOnce(o, r) \/ AnswersAgain(o, r)
      PROVE  TurnInv'
  BY <1>2, PeerFrame DEF TurnInv
<1>3. CASE Worker
  <2>1. (worker.pc # "idle" \/ rx_fifo # <<>>) /\ UNCHANGED life
    BY <1>3 DEF Worker, WorkerGet, WorkerNext, WorkerFreed, WorkerMatch, WorkerCallback,
       WorkerUnref, WorkerDrop, WorkerDestroy, Crash
  <2> QED
    BY <2>1 DEF TurnInv
<1>4. CASE UnregisterFlag \/ UnregisterJoin \/ FlushDone
  <2>1. /\ UNCHANGED <<worker, rx_fifo>>
        /\ \/ life' = "closing" /\ life = "up"
           \/ worker.pc = "idle" /\ rx_fifo = <<>>
    BY <1>4 DEF UnregisterFlag, UnregisterJoin, WorkerGone, FlushDone, TurnInv
  <2> QED
    BY <2>1 DEF TurnInv
<1>5. CASE FlushOne \/ UNCHANGED vars
  BY <1>5 DEF FlushOne, Crash, vars, TurnInv
<1>6. ASSUME NEW o \in Ops, Lose(o) PROVE TurnInv'
  BY <1>6 DEF Lose, TurnInv
<1>7. ASSUME NEW s \in Senders, SendStep(s) PROVE TurnInv'
  <2>1. UNCHANGED <<worker, rx_fifo, life>>
    BY <1>7 DEF SendStep, SendNumber, SendTransmit, SendFails, SendReturns, SyncWakes,
       SendDestroy, Crash
  <2> QED
    BY <2>1 DEF TurnInv
<1> QED
  BY <1>1, <1>2, <1>3, <1>4, <1>5, <1>6, <1>7 DEF Next, Unregister

(* What does not touch the list, the worker or its response keeps the walk. *)
LEMMA WalkFrame ==
  ASSUME WalkInv, UNCHANGED <<tx_fifo, worker>>, failed \subseteq failed',
         answers'[worker.resp] = answers[worker.resp]
  PROVE  WalkInv'
  BY DEF WalkInv

LEMMA WalkStep ==
  ASSUME TypeOK, SenderInv, ListInv, PeerInv, TurnInv, WalkInv, [Next]_vars
  PROVE  WalkInv'
<1> USE DEF opVars, respVars, ghosts
<1>1. failed \subseteq failed'
  BY GhostsGrow
<1>2. Len(tx_fifo) \in Nat
  BY LinkedFacts
<1>3. ASSUME NEW s \in Senders, SendNumber(s) PROVE WalkInv'
  <2>1. PICK o \in Ops : o = sender[s].op /\ ~Numbered(o)
    BY <1>3, NumberFacts
  <2>2. tx_fifo' = Append(tx_fifo, o) /\ UNCHANGED <<worker, answers, failed>>
    BY <1>3, <2>1 DEF SendNumber
  <2>3. /\ Len(tx_fifo') = Len(tx_fifo) + 1
        /\ tx_fifo'[Len(tx_fifo')] = o
        /\ \A i \in 1..Len(tx_fifo) : tx_fifo'[i] = tx_fifo[i]
    BY <2>2, LinkFacts
  <2> SUFFICES ASSUME failed = {}, worker.pc = "walk" PROVE WalkInv'
    BY <2>2 DEF WalkInv
  <2>4. answers[worker.resp] # o
    BY <2>1 DEF PeerInv, ListInv
  <2>5. \A j \in 1..Len(tx_fifo') : tx_fifo'[j] = answers[worker.resp] => j \in 1..Len(tx_fifo)
    BY <1>2, <2>3, <2>4
  <2>6. CASE worker.cur = NoOp
    BY <2>2, <2>3, <2>5, <2>6 DEF WalkInv
  <2>7. CASE worker.cur # NoOp
    <3>1. PICK i \in 1..Len(tx_fifo) :
            /\ tx_fifo[i] = worker.cur
            /\ worker.nxt # NoOp =>
                 i < Len(tx_fifo) /\ tx_fifo[i + 1] = worker.nxt
            /\ \A j \in 1..Len(tx_fifo) : tx_fifo[j] = answers[worker.resp] =>
                 j >= i /\ (j > i => worker.nxt # NoOp)
      BY <2>7 DEF WalkInv
    <3>2. /\ i \in 1..Len(tx_fifo') /\ tx_fifo'[i] = worker.cur
          /\ worker.nxt # NoOp =>
               i < Len(tx_fifo') /\ tx_fifo'[i + 1] = worker.nxt
      BY <1>2, <2>3, <3>1
    <3>3. \A j \in 1..Len(tx_fifo') : tx_fifo'[j] = answers[worker.resp] =>
            j >= i /\ (j > i => worker.nxt # NoOp)
      BY <2>3, <2>5, <3>1
    <3> QED
      BY <2>2, <2>7, <3>2, <3>3 DEF WalkInv
  <2> QED
    BY <2>6, <2>7
<1>4. ASSUME NEW s \in Senders, SendFails(s) PROVE WalkInv'
  <2>1. CASE ~Linked(sender[s].op)
    BY <1>1, <1>4, <2>1, CrashFrame, WalkFrame DEF SendFails
  <2>2. CASE Linked(sender[s].op)
    BY <1>4, <2>2 DEF SendFails, WalkInv
  <2> QED
    BY <2>1, <2>2
<1>5. ASSUME NEW s \in Senders, NEW o \in Ops, NEW b \in BOOLEAN,
             Refused(s, o) \/ SendCheck(s, o, b)
      PROVE  WalkInv'
  <2>1. UNCHANGED <<tx_fifo, worker, answers>>
    BY <1>5 DEF Refused, SendCheck
  <2> QED
    BY <1>1, <2>1, WalkFrame
<1>6. ASSUME NEW o \in Ops, NEW r \in Resps, AnswersOnce(o, r) \/ AnswersAgain(o, r)
      PROVE  WalkInv'
  <2>1. /\ UNCHANGED <<tx_fifo, worker>> /\ answers[r] = NoOp
        /\ answers' = [answers EXCEPT ![r] = o]
    BY <1>6, PeerFrame
  <2>2. worker.pc = "walk" => worker.resp \in Resps /\ worker.resp # r
    BY <2>1 DEF PeerInv, ListInv, InHand
  <2>3. worker.pc = "walk" => answers'[worker.resp] = answers[worker.resp]
    BY <2>1, <2>2 DEF TypeOK
  <2>4. worker.pc # "walk" => WalkInv'
    BY <2>1 DEF WalkInv
  <2> QED
    BY <1>1, <2>1, <2>3, <2>4, WalkFrame
<1>7. CASE WorkerGet
  <2>1. /\ UNCHANGED <<tx_fifo, answers, failed>>
        /\ worker'.cur = First /\ worker'.nxt = After(First)
    BY <1>7 DEF WorkerGet
  <2>2. CASE First = NoOp
    <3>1. Len(tx_fifo) = 0
      BY <2>2, AfterFacts
    <3> QED
      BY <2>1, <2>2, <3>1 DEF WalkInv
  <2>3. CASE First # NoOp
    <3>1. 1 \in 1..Len(tx_fifo) /\ tx_fifo[1] = First
      BY <1>2, <2>3, AfterFacts
    <3>2. /\ 1 < Len(tx_fifo) => After(First) = tx_fifo[1 + 1] /\ After(First) # NoOp
          /\ ~(1 < Len(tx_fifo)) => After(First) = NoOp
      BY <3>1, AtFacts
    <3>3. \A j \in 1..Len(tx_fifo) : j >= 1 /\ (j > 1 => 1 < Len(tx_fifo))
      BY <1>2
    <3> QED
      BY <2>1, <2>3, <3>1, <3>2, <3>3 DEF WalkInv
  <2> QED
    BY <2>2, <2>3
<1>8. CASE WorkerNext
  <2>1. /\ UNCHANGED <<tx_fifo, answers, failed>> /\ worker.pc = "walk" /\ worker.cur # NoOp
        /\ worker'.cur = worker.nxt /\ worker'.nxt = After(worker.nxt)
        /\ worker'.resp = worker.resp
        /\ answers[worker.resp] # worker.cur
    BY <1>8 DEF WorkerNext, Matches, TypeOK
  <2> SUFFICES ASSUME failed = {} PROVE WalkInv'
    BY <2>1 DEF WalkInv
  <2>2. PICK i \in 1..Len(tx_fifo) :
          /\ tx_fifo[i] = worker.cur
          /\ worker.nxt # NoOp =>
               i < Len(tx_fifo) /\ tx_fifo[i + 1] = worker.nxt
          /\ \A j \in 1..Len(tx_fifo) : tx_fifo[j] = answers[worker.resp] =>
               j >= i /\ (j > i => worker.nxt # NoOp)
    BY <2>1 DEF WalkInv
  <2>3. \A j \in 1..Len(tx_fifo) : tx_fifo[j] = answers[worker.resp] =>
          j >= i + 1 /\ worker.nxt # NoOp
    BY <1>2, <2>1, <2>2
  <2>4. CASE worker.nxt = NoOp
    BY <2>1, <2>3, <2>4 DEF WalkInv
  <2>5. CASE worker.nxt # NoOp
    <3>1. PICK k \in 1..Len(tx_fifo) : k = i + 1 /\ tx_fifo[k] = worker.nxt
      BY <1>2, <2>2, <2>5
    <3>2. /\ k < Len(tx_fifo) => After(worker.nxt) = tx_fifo[k + 1] /\ After(worker.nxt) # NoOp
          /\ ~(k < Len(tx_fifo)) => After(worker.nxt) = NoOp
      BY <3>1, AtFacts
    <3>3. \A j \in 1..Len(tx_fifo) : tx_fifo[j] = answers[worker.resp] =>
            j >= k /\ (j > k => After(worker.nxt) # NoOp)
      BY <1>2, <2>3, <3>1, <3>2
    <3> QED
      BY <2>1, <2>5, <3>1, <3>2, <3>3 DEF WalkInv
  <2> QED
    BY <2>4, <2>5
<1>9. CASE WorkerMatch
  <2>1. CASE ~Linked(worker.cur)
    BY <1>1, <1>9, <2>1, CrashFrame, WalkFrame DEF WorkerMatch
  <2>2. CASE Linked(worker.cur)
    BY <1>9, <2>2, WorkerMoves DEF WalkInv
  <2> QED
    BY <2>1, <2>2
<1>10. CASE WorkerCallback \/ WorkerUnref \/ WorkerDestroy
  BY <1>10, WorkerMoves DEF WalkInv
<1>11. CASE WorkerDrop
  <2>1. worker'.pc = "destroy"
    BY <1>11 DEF WorkerDrop, TypeOK
  <2> QED
    BY <2>1 DEF WalkInv
<1>12. CASE WorkerFreed
  BY <1>1, <1>12, CrashFrame, WalkFrame DEF WorkerFreed
<1>13. CASE FlushOne
  <2>1. worker.pc = "idle" /\ UNCHANGED worker
    BY <1>13 DEF FlushOne, Crash, TurnInv
  <2> QED
    BY <2>1 DEF WalkInv
<1>14. CASE UnregisterFlag \/ UnregisterJoin \/ FlushDone \/ UNCHANGED vars
  <2>1. UNCHANGED <<tx_fifo, worker, answers>>
    BY <1>14 DEF UnregisterFlag, UnregisterJoin, FlushDone, vars
  <2> QED
    BY <1>1, <2>1, WalkFrame
<1>15. ASSUME NEW o \in Ops, Lose(o) PROVE WalkInv'
  BY <1>1, <1>15, WalkFrame DEF Lose
<1>16. ASSUME NEW s \in Senders,
              SendTransmit(s) \/ SendReturns(s) \/ SyncWakes(s) \/ SendDestroy(s)
       PROVE  WalkInv'
  <2>1. UNCHANGED <<tx_fifo, worker, answers>>
    BY <1>16 DEF SendTransmit, SendReturns, SyncWakes, SendDestroy
  <2> QED
    BY <1>1, <2>1, WalkFrame
<1> QED
  BY <1>3, <1>4, <1>5, <1>6, <1>7, <1>8, <1>9, <1>10, <1>11, <1>12, <1>13, <1>14, <1>15, <1>16
     DEF Next, SendStep, Worker, Unregister

(* gb_flush_tx_fifo removes the head, and goes on with what follows it.    *)
LEMMA FlushFrame ==
  ASSUME FlushInv, UNCHANGED <<tx_fifo, cursor>>, failed \subseteq failed',
         life' = "flush" => life = "flush"
  PROVE  FlushInv'
  BY DEF FlushInv

LEMMA FlushStep ==
  ASSUME TypeOK, SenderInv, ListInv, TurnInv, FlushInv, [Next]_vars
  PROVE  FlushInv'
<1> USE DEF opVars, respVars, ghosts
<1>1. failed \subseteq failed'
  BY GhostsGrow
<1>2. Len(tx_fifo) \in Nat
  BY LinkedFacts
<1>3. ASSUME NEW s \in Senders, SendNumber(s) PROVE FlushInv'
  <2>1. PICK o \in Ops : o = sender[s].op
    BY <1>3, NumberFacts
  <2>2. tx_fifo' = Append(tx_fifo, o) /\ UNCHANGED <<life, cursor, failed>>
    BY <1>3, <2>1 DEF SendNumber
  <2>3. /\ Len(tx_fifo') = Len(tx_fifo) + 1
        /\ \A i \in 1..Len(tx_fifo) : tx_fifo'[i] = tx_fifo[i]
    BY <2>2, LinkFacts
  <2> QED
    BY <1>2, <2>2, <2>3 DEF FlushInv
<1>4. ASSUME NEW s \in Senders, SendFails(s) PROVE FlushInv'
  <2>1. CASE ~Linked(sender[s].op)
    BY <1>1, <1>4, <2>1, CrashFrame, FlushFrame DEF SendFails
  <2>2. CASE Linked(sender[s].op)
    BY <1>4, <2>2 DEF SendFails, FlushInv
  <2> QED
    BY <2>1, <2>2
<1>5. ASSUME NEW s \in Senders,
             \/ SendTransmit(s) \/ SendReturns(s) \/ SyncWakes(s) \/ SendDestroy(s)
             \/ \E o \in Ops : Refused(s, o) \/ \E b \in BOOLEAN : SendCheck(s, o, b)
      PROVE  FlushInv'
  <2>1. UNCHANGED <<tx_fifo, cursor, life>>
    BY <1>5 DEF SendTransmit, SendReturns, SyncWakes, SendDestroy, Refused, SendCheck
  <2> QED
    BY <1>1, <2>1, FlushFrame
<1>6. ASSUME NEW o \in Ops, NEW r \in Resps, AnswersOnce(o, r) \/ AnswersAgain(o, r)
      PROVE  FlushInv'
  BY <1>1, <1>6, PeerFrame, FlushFrame
<1>7. ASSUME NEW o \in Ops, Lose(o) PROVE FlushInv'
  BY <1>1, <1>7, FlushFrame DEF Lose
<1>8. CASE Worker
  <2>1. (worker.pc # "idle" \/ rx_fifo # <<>>) /\ UNCHANGED life
    BY <1>8 DEF Worker, WorkerGet, WorkerNext, WorkerFreed, WorkerMatch, WorkerCallback,
       WorkerUnref, WorkerDrop, WorkerDestroy, Crash
  <2> QED
    BY <2>1 DEF TurnInv, FlushInv
<1>9. CASE UnregisterJoin
  <2>1. UNCHANGED <<tx_fifo, failed>> /\ cursor'.cur = First /\ cursor'.nxt = After(First)
    BY <1>9 DEF UnregisterJoin
  <2>2. CASE First = NoOp
    BY <2>1, <2>2 DEF FlushInv
  <2>3. CASE First # NoOp
    <3>1. 1 \in 1..Len(tx_fifo) /\ tx_fifo[1] = First
      BY <1>2, <2>3, AfterFacts
    <3>2. /\ 1 < Len(tx_fifo) => After(First) = tx_fifo[1 + 1]
          /\ ~(1 < Len(tx_fifo)) => After(First) = NoOp
      BY <3>1, AtFacts
    <3> QED
      BY <1>2, <2>1, <3>1, <3>2 DEF FlushInv
  <2> QED
    BY <2>2, <2>3
<1>10. CASE FlushOne
  <2>1. CASE mem[cursor.cur] = "freed" \/ ~Linked(cursor.cur)
    BY <1>1, <1>10, <2>1, CrashFrame, FlushFrame DEF FlushOne
  <2>2. CASE ~(mem[cursor.cur] = "freed" \/ ~Linked(cursor.cur))
    <3>1. /\ Unlink(cursor.cur) /\ Linked(cursor.cur) /\ cursor.cur # NoOp /\ life = "flush"
          /\ cursor' = [cur |-> cursor.nxt, nxt |-> After(cursor.nxt)]
          /\ UNCHANGED failed
      BY <1>10, <2>2 DEF FlushOne
    <3> SUFFICES ASSUME failed = {}, cursor.nxt # NoOp PROVE FlushInv'
      BY <3>1 DEF FlushInv
    <3>2. /\ Len(tx_fifo) > 1 /\ 1 \in 1..Len(tx_fifo)
          /\ tx_fifo[1] = cursor.cur /\ tx_fifo[2] = cursor.nxt
      BY <1>2, <3>1 DEF FlushInv
    <3>3. Place(cursor.cur) = 1
      BY <3>2, AtFacts
    <3>4. /\ Len(tx_fifo') = Len(tx_fifo) - 1
          /\ \A i \in 1..Len(tx_fifo') : tx_fifo'[i] = tx_fifo[i + 1]
      <4>1. /\ Len(tx_fifo') = Len(tx_fifo) - 1
            /\ \A i \in 1..Len(tx_fifo') :
                 tx_fifo'[i] = IF i < Place(cursor.cur) THEN tx_fifo[i] ELSE tx_fifo[i + 1]
        BY <3>1, UnlinkFacts
      <4> QED
        BY <1>2, <3>3, <4>1
    <3>5. PICK k \in 1..Len(tx_fifo) : k = 2
      BY <1>2, <3>2
    <3>6. /\ k < Len(tx_fifo) => After(tx_fifo[k]) = tx_fifo[k + 1]
          /\ ~(k < Len(tx_fifo)) => After(tx_fifo[k]) = NoOp
      BY AtFacts
    <3>7. After(cursor.nxt) # NoOp => Len(tx_fifo) > 2 /\ After(cursor.nxt) = tx_fifo[3]
      BY <1>2, <3>2, <3>5, <3>6
    <3>8. /\ Len(tx_fifo') > 0 /\ tx_fifo'[1] = cursor.nxt
          /\ Len(tx_fifo) > 2 => Len(tx_fifo') > 1 /\ tx_fifo'[2] = tx_fifo[3]
      BY <1>2, <3>2, <3>4
    <3> QED
      BY <3>1, <3>7, <3>8 DEF FlushInv
  <2> QED
    BY <2>1, <2>2
<1>11. CASE UnregisterFlag \/ FlushDone
  BY <1>11 DEF UnregisterFlag, FlushDone, FlushInv
<1>12. CASE UNCHANGED vars
  BY <1>12 DEF vars, FlushInv
<1> QED
  BY <1>3, <1>4, <1>5, <1>6, <1>7, <1>8, <1>9, <1>10, <1>11, <1>12
     DEF Next, SendStep, Unregister

(* As long as no send has failed, only the removal after a flush or a wrong *)
(* match can crash.                                                        *)
LEMMA FaultStep ==
  ASSUME TypeOK, SenderInv, ListInv, OpRefs, WalkInv, FlushInv, SendInv, [Next]_vars,
         failed = {}, fault = "none", fault' # "none"
  PROVE  fault' = "unlinked" /\ (flushed' # {} \/ \E o \in Ops : Misled(o)')
<1> USE DEF opVars, respVars, ghosts
<1>1. ASSUME NEW s \in Senders, SendFails(s)
      PROVE  fault' = "unlinked" /\ (flushed' # {} \/ \E o \in Ops : Misled(o)')
  <2>1. PICK o \in Ops : o = sender[s].op /\ sender[s].pc = "send"
    BY <1>1, SenderFacts DEF SendFails
  <2>2. ~Linked(o) /\ Crash("unlinked")
    BY <1>1, <2>1 DEF SendFails
  <2>3. o \in flushed \/ Misled(o)
    BY <2>1, <2>2 DEF SendInv
  <2>4. fault' = "unlinked" /\ flushed' = flushed /\ (Misled(o)' <=> Misled(o))
    BY <2>2, CrashFrame DEF Misled
  <2> QED
    BY <2>3, <2>4
<1>2. ASSUME NEW s \in Senders,
             \/ SendNumber(s) \/ SendTransmit(s) \/ SendReturns(s) \/ SyncWakes(s)
             \/ SendDestroy(s)
             \/ \E o \in Ops : Refused(s, o) \/ \E b \in BOOLEAN : SendCheck(s, o, b)
      PROVE  fault' = "none"
  BY <1>2 DEF SendNumber, SendTransmit, SendReturns, SyncWakes, SendDestroy, Refused, SendCheck
<1>3. ASSUME NEW o \in Ops, NEW r \in Resps, AnswersOnce(o, r) \/ AnswersAgain(o, r)
      PROVE  fault' = "none"
  BY <1>3, PeerFrame
<1>4. worker.pc = "walk" /\ worker.cur # NoOp =>
        Linked(worker.cur) /\ mem[worker.cur] = "live"
  <2> SUFFICES ASSUME worker.pc = "walk", worker.cur # NoOp
               PROVE  Linked(worker.cur) /\ mem[worker.cur] = "live"
    OBVIOUS
  <2>1. PICK i \in 1..Len(tx_fifo) : tx_fifo[i] = worker.cur
    BY DEF WalkInv
  <2>2. Linked(worker.cur) /\ worker.cur \in Ops
    BY <2>1, AtFacts
  <2> QED
    BY <2>2, HeldFacts
<1>5. life = "flush" /\ cursor.cur # NoOp =>
        Linked(cursor.cur) /\ mem[cursor.cur] = "live"
  <2> SUFFICES ASSUME life = "flush", cursor.cur # NoOp
               PROVE  Linked(cursor.cur) /\ mem[cursor.cur] = "live"
    OBVIOUS
  <2>1. 1 \in 1..Len(tx_fifo) /\ tx_fifo[1] = cursor.cur
    BY LinkedFacts DEF FlushInv
  <2>2. Linked(cursor.cur) /\ cursor.cur \in Ops
    BY <2>1, AtFacts
  <2> QED
    BY <2>2, HeldFacts
<1>6. Worker => fault' = "none"
  BY <1>4 DEF Worker, WorkerGet, WorkerNext, WorkerFreed, WorkerMatch, WorkerCallback,
     WorkerUnref, WorkerDrop, WorkerDestroy
<1>7. (\E o \in Ops : Lose(o)) \/ UnregisterFlag \/ Unregister \/ UNCHANGED vars
        => fault' = "none"
  BY <1>5 DEF Lose, UnregisterFlag, Unregister, UnregisterJoin, FlushOne, FlushDone, vars
<1> QED
  BY <1>1, <1>2, <1>3, <1>6, <1>7 DEF Next, SendStep

(* Only the peer answers.                                                  *)
LEMMA AnswersStay ==
  ASSUME [Next]_vars, ~\E o \in Ops, r \in Resps : AnswersOnce(o, r) \/ AnswersAgain(o, r)
  PROVE  UNCHANGED answers
<1> USE DEF opVars, respVars, ghosts
<1>1. CASE \E s \in Senders : SendStep(s)
  BY <1>1 DEF SendStep, SendNumber, SendTransmit, SendFails, SendReturns, SyncWakes,
     SendDestroy, Crash
<1>2. CASE \E s \in Senders, o \in Ops : \/ Refused(s, o)
                                         \/ \E b \in BOOLEAN : SendCheck(s, o, b)
  BY <1>2 DEF Refused, SendCheck
<1>3. CASE (\E o \in Ops : Lose(o)) \/ Worker
  BY <1>3 DEF Lose, Worker, WorkerGet, WorkerNext, WorkerFreed, WorkerMatch,
     WorkerCallback, WorkerUnref, WorkerDrop, WorkerDestroy, Crash
<1>4. CASE UnregisterFlag \/ Unregister \/ UNCHANGED vars
  BY <1>4 DEF UnregisterFlag, Unregister, UnregisterJoin, FlushOne, FlushDone, Crash, vars
<1> QED
  BY <1>1, <1>2, <1>3, <1>4 DEF Next

(* No response is dropped while its request waits, and the walks do not    *)
(* crash: one step.                                                        *)
LEMMA WalksAreSafeStep ==
  ASSUME TypeOK, SenderInv, ListInv, OpRefs, PeerInv, WalkInv, FlushInv, SendInv,
         WalksAreSafe, [Next]_vars, TypeOK'
  PROVE  WalksAreSafe'
<1> SUFFICES ASSUME failed' = {} PROVE WalksAreSafe'
  BY DEF WalksAreSafe
<1>1. failed = {}
  BY GhostsGrow
<1>2. ASSUME NEW r \in Resps, r \in dropped' 
      PROVE  \E o \in Ops : answers'[r] = o /\ ~Linked(o)'
  <2>1. r \in dropped \/ (WorkerDrop /\ r = worker.resp)
    <3>1. CASE Worker
      BY <1>2, <3>1 DEF Worker, WorkerGet, WorkerNext, WorkerFreed, WorkerMatch,
         WorkerCallback, WorkerUnref, WorkerDrop, WorkerDestroy, Crash, ghosts
    <3> QED
      BY <1>2, <3>1, WorkerFrame
  <2>2. r \in dropped \/ InHand(r)
    BY <2>1 DEF WorkerDrop, InHand
  <2>3. PICK o \in Ops : answers[r] = o /\ Numbered(o)
    BY <2>2 DEF PeerInv, TypeOK, Pointers
  <2>4. ~Linked(o)
    <3>1. CASE r \in dropped
      BY <1>1, <2>3, <3>1 DEF WalksAreSafe
    <3>2. CASE WorkerDrop /\ r = worker.resp
      BY <1>1, <2>3, <3>2, LinkedFacts DEF WorkerDrop, WalkInv
    <3> QED
      BY <2>1, <3>1, <3>2
  <2>5. ~Linked(o)'
    BY <2>3, <2>4, LinkedStep, NumberFacts
  <2>6. answers'[r] = o
    <3>1. ASSUME NEW p \in Ops, NEW q \in Resps, AnswersOnce(p, q) \/ AnswersAgain(p, q)
          PROVE  answers'[r] = o
      <4>1. answers[q] = NoOp /\ answers' = [answers EXCEPT ![q] = p]
        BY <3>1, PeerFrame
      <4> QED
        BY <2>3, <4>1, OperationAssumption DEF TypeOK, OperationAssumption
    <3>2. CASE ~\E p \in Ops, q \in Resps : AnswersOnce(p, q) \/ AnswersAgain(p, q)
      <4>1. UNCHANGED answers
        BY <3>2, AnswersStay
      <4> QED
        BY <2>3, <4>1
    <3> QED
      BY <3>1, <3>2
  <2> QED
    BY <2>5, <2>6
<1>3. fault' # "none" =>
        fault' = "unlinked" /\ (flushed' # {} \/ \E o \in Ops : Misled(o)')
  <2>1. CASE fault = "none"
    BY <1>1, <2>1, FaultStep
  <2>2. CASE fault # "none"
    <3>1. UNCHANGED vars
      BY <2>2 DEF Next
    <3>2. UNCHANGED <<fault, flushed>> /\ \A o \in Ops : Misled(o)' <=> Misled(o)
      BY <3>1 DEF vars, opVars, respVars, ghosts, Misled
    <3> QED
      BY <1>1, <3>2 DEF WalksAreSafe
  <2> QED
    BY <2>1, <2>2
<1>4. \A r \in dropped' : ~Linked(answers[r])'
  BY <1>2 DEF TypeOK, Linked
<1> QED
  BY <1>3, <1>4 DEF WalksAreSafe

-----------------------------------------------------------------------------
(* The invariant.                                                          *)

LEMMA InitInv == Init => IInv
<1> SUFFICES ASSUME Init PROVE IInv
  OBVIOUS
<1> USE DEF Init, SenderIdle, WorkerIdle
<1>1. /\ tx_fifo = <<>> /\ Len(tx_fifo) = 0 /\ rx_fifo = <<>> /\ Len(rx_fifo) = 0
      /\ \A o \in Ops : ~Linked(o) /\ ~Taken(o) /\ ~Waiting(o) /\ ~Numbered(o)
  BY DEF Linked, Taken, Waiting, Numbered
<1>2. \A o \in Ops : ~Owned(o) /\ ~Misled(o)
  BY OperationAssumption DEF Owned, Misled, OperationAssumption
<1>3. TypeOK
  BY DEF TypeOK, Pointers, RespPointers
<1>4. SenderInv /\ ListInv
  BY <1>1, OperationAssumption DEF SenderInv, ListInv, OperationAssumption
<1>5. OpRefs
  BY <1>1, <1>2 DEF OpRefs, One
<1>6. RespRefs
  <2>1. \A r \in Resps : Holders(r) = {} /\ ~Queued(r) /\ ~InHand(r)
    BY <1>1 DEF Holders, Queued, InHand
  <2>2. IsFiniteSet({}) /\ Cardinality({}) = 0
    BY FS_EmptySet
  <2>3. \A r \in Resps : /\ IsFiniteSet(Holders(r)) /\ Cardinality(Holders(r)) = 0
                         /\ One(Queued(r)) = 0 /\ One(InHand(r)) = 0
                         /\ resp_refs[r] = 0
    BY <2>1, <2>2 DEF One
  <2> QED
    BY <2>3 DEF RespRefs
<1>7. AnswerInv /\ SyncInv /\ StampInv
  BY <1>1 DEF AnswerInv, SyncInv, StampInv
<1>8. PeerInv
  BY <1>1, OperationAssumption DEF PeerInv, Queued, InHand, OperationAssumption
<1>9. TurnInv /\ WalkInv /\ FlushInv /\ SendInv /\ WalksAreSafe
  BY DEF TurnInv, WalkInv, FlushInv, SendInv, WalksAreSafe
<1>10. WrongAnswerNeedsWrap
  BY <1>2 DEF WrongAnswerNeedsWrap
<1> QED
  BY <1>3, <1>4, <1>5, <1>6, <1>7, <1>8, <1>9, <1>10 DEF IInv

LEMMA NextInv == IInv /\ [Next]_vars => IInv'
<1> SUFFICES ASSUME IInv, [Next]_vars PROVE IInv'
  OBVIOUS
<1> USE DEF IInv
<1>1. TypeOK'
  BY TypeStep
<1>2. SenderInv' /\ ListInv'
  BY SenderStep, ListStep
<1>3. OpRefs' /\ RespRefs'
  BY OpRefsStep, RespRefsStep
<1>4. AnswerInv' /\ SyncInv' /\ PeerInv' /\ StampInv'
  BY AnswerStep, SyncStep, PeerStep, StampStep
<1>5. TurnInv' /\ WalkInv' /\ FlushInv' /\ SendInv'
  BY TurnStep, WalkStep, FlushStep, SendInvStep
<1>6. WalksAreSafe' /\ WrongAnswerNeedsWrap'
  BY <1>1, WalksAreSafeStep, WrongAnswerStep
<1> QED
  BY <1>1, <1>2, <1>3, <1>4, <1>5, <1>6

(* The invariant holds in every reachable state: each sender has one       *)
(* operation, an operation is in tx_fifo or with the worker at most once,  *)
(* the counts are the holders, stamps are unique, the unlocked walks are   *)
(* inside the list.                                                        *)
THEOREM Inductive == Spec => []IInv
  BY InitInv, NextInv, PTL DEF Spec

(* The state stays of its type: counts never go below zero, pointers are   *)
(* operations or NULL (greybus-core.c:351-414, 755-825, 934-957).          *)
THEOREM TypeCorrect == Spec => []TypeOK
<1>1. IInv => TypeOK
  BY DEF IInv
<1> QED
  BY <1>1, Inductive, PTL

(* gb_operation_ref and gb_operation_unref balance: the count of an        *)
(* operation, and of a response, is the number of those who hold it, and   *)
(* an operation is freed exactly when nobody does                          *)
(* (greybus-core.c:364-365, 414, 781, 796, 934-957).                       *)
THEOREM RefsCorrect == Spec => []RefsAreHolders
<1>1. IInv => RefsAreHolders
  BY Zenon DEF IInv, RefsAreHolders, OpRefs, RespRefs, Queued, InHand, Holders
<1> QED
  BY <1>1, Inductive, PTL

(* As long as no send has failed, the walks over tx_fifo without irq_lock  *)
(* meet only linked, live operations, and no response is dropped while its *)
(* request waits (greybus-core.c:351-374, 516-524, 793-794).               *)
THEOREM WalksCorrect == Spec => []WalksAreSafe
<1>1. IInv => WalksAreSafe
  BY DEF IInv
<1> QED
  BY <1>1, Inductive, PTL

(* The callback of an operation runs at most once, not after its send      *)
(* failed or it was flushed, and the synchronous form returns success only *)
(* with a response                                                         *)
(* (greybus-core.c:367-369, 520-523, 793-797, 813-824, 1036).              *)
THEOREM CallbackCorrect == Spec => []CallbackOnce
<1>1. ASSUME IInv PROVE CallbackOnce
  <2>1. ASSUME NEW s \in Senders, sender[s].pc = "destroy", sender[s].sync,
               sender[s].op \notin failed
        PROVE  response[sender[s].op] # NoOp
    <3>1. PICK o \in Ops : o = sender[s].op
      BY <1>1, <2>1, SenderFacts DEF IInv
    <3> QED
      BY <1>1, <2>1, <3>1 DEF IInv, SyncInv
  <2>2. \A o \in Ops : called[o] <= 1 /\ (called[o] = 1 => o \notin failed \cup flushed)
    BY <1>1 DEF IInv, AnswerInv
  <2> QED
    BY <2>1, <2>2 DEF CallbackOnce
<1> QED
  BY <1>1, Inductive, PTL

(* A request gets the response to another only after the 16-bit counter    *)
(* has gone round (greybus-core.c:354, 775-778).                           *)
THEOREM WrongAnswerCorrect == Spec => []WrongAnswerNeedsWrap
<1>1. IInv => WrongAnswerNeedsWrap
  BY DEF IInv
<1> QED
  BY <1>1, Inductive, PTL
=============================================================================
