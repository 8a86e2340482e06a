---------------------------- MODULE GbOperation ----------------------------
(***************************************************************************)
(* The requests a cport sends and waits for: operations and their          *)
(* reference counts, tx_fifo, request ids and the matching of responses    *)
(* (greybus-core.c).                                                       *)
(*                                                                         *)
(* Sender threads call gb_operation_send_request, or its _sync form, and   *)
(* then gb_operation_destroy.  The cport's worker takes the responses the  *)
(* peer sends and looks their request up in tx_fifo without a lock; the    *)
(* transport's send may block, so other threads run in the middle of       *)
(* gb_operation_send_request although it holds irq_lock.  A controller may *)
(* unregister the driver.  An operation is malloc'ed once: its address is  *)
(* not given out again, so that a use after free shows as such.            *)
(***************************************************************************)
EXTENDS Integers, FiniteSets, Sequences

CONSTANTS
  Ops,          (* the operations senders create                           *)
  Resps,        (* bound: the operations made of responses that arrive     *)
  NoOp,         (* NULL                                                    *)
  Senders,      (* the threads that send requests                          *)
  IdSpace,      (* how many values the id of a header has: 65536           *)
  MaxFail,      (* bound: sends the transport fails                        *)
  MaxLost,      (* bound: requests whose answer is lost                    *)
  MayUnregister (* whether the driver may be unregistered                  *)

ASSUME OperationAssumption ==
  /\ NoOp \notin Ops \cup Resps
  /\ IdSpace \in Nat \ {0, 1}
  /\ MaxFail \in Nat
  /\ MaxLost \in Nat
  /\ MayUnregister \in BOOLEAN

VARIABLES
  mem,          (* "unused", "live" or "freed": the memory of an operation *)
  ref_count,    (* its reference count                                     *)
  stamp,        (* the value of request_id it was numbered with            *)
  response,     (* op->response, or NoOp                                   *)
  called,       (* how many times its callback ran                         *)
  sync_sem,     (* the count of op->sync_sem                               *)
  answers,      (* the request a response answers, or NoOp before it comes *)
  resp_refs,    (* the reference count of a response                       *)
  request_id,   (* the counter request ids are taken from                  *)
  tx_fifo,      (* the operations that wait for a response                 *)
  wire,         (* the requests the peer has and may answer                *)
  rx_fifo,      (* the responses that wait for the worker                  *)
  sender,       (* where each sender is, and with which operation          *)
  worker,       (* where the worker is: its response and its loop cursors  *)
  life,         (* "up", "closing" (exit_worker is set), "flush" or "down" *)
  cursor,       (* the loop cursors of gb_flush_tx_fifo                    *)
  failed,       (* ghost: the operations whose send failed                 *)
  lost,         (* ghost: the requests whose answer the network lost       *)
  flushed,      (* ghost: the operations gb_flush_tx_fifo dropped          *)
  dropped,      (* ghost: the responses that found no request              *)
  fault         (* "none", "freed" or "unlinked": the access that crashed  *)

opVars == <<mem, ref_count, stamp, response, called, sync_sem>>
respVars == <<answers, resp_refs>>
ghosts == <<failed, lost, flushed, dropped>>
vars == <<opVars, respVars, request_id, tx_fifo, wire, rx_fifo, sender, worker, life,
          cursor, ghosts, fault>>

SenderIdle == [pc |-> "idle", op |-> NoOp, sync |-> FALSE]
WorkerIdle == [pc |-> "idle", resp |-> NoOp, cur |-> NoOp, nxt |-> NoOp]

Init ==
  /\ mem = [o \in Ops |-> "unused"]
  /\ ref_count = [o \in Ops |-> 0]
  /\ stamp = [o \in Ops |-> 0]
  /\ response = [o \in Ops |-> NoOp]
  /\ called = [o \in Ops |-> 0]
  /\ sync_sem = [o \in Ops |-> 0]
  /\ answers = [r \in Resps |-> NoOp]
  /\ resp_refs = [r \in Resps |-> 0]
  /\ request_id = 0
  /\ tx_fifo = <<>>
  /\ wire = {}
  /\ rx_fifo = <<>>
  /\ sender = [s \in Senders |-> SenderIdle]
  /\ worker = WorkerIdle
  /\ life = "up"
  /\ cursor = [cur |-> NoOp, nxt |-> NoOp]
  /\ failed = {} /\ lost = {} /\ flushed = {} /\ dropped = {}
  /\ fault = "none"

-----------------------------------------------------------------------------
(* The list and the counts.                                                *)

Linked(o) == \E i \in DOMAIN tx_fifo : tx_fifo[i] = o
Place(o) == CHOOSE i \in DOMAIN tx_fifo : tx_fifo[i] = o

Crash(what) ==
  /\ fault' = what
  /\ UNCHANGED <<opVars, respVars, request_id, tx_fifo, wire, rx_fifo, sender, worker,
                 life, cursor, ghosts>>

(* sys_dlist_peek_next: NULL after the tail, and of an unlinked node or of  *)
(* NULL.                                                                   *)
After(o) ==
  IF Linked(o) /\ Place(o) < Len(tx_fifo) THEN tx_fifo[Place(o) + 1] ELSE NoOp

(* As if an operation stayed in the list after it was dealt with.          *)
StayLinked(o) == UNCHANGED tx_fifo

(* sys_dlist_remove of a linked node; of another one it follows NULL.      *)
Unlink(o) ==
  tx_fifo' = [i \in 1..Len(tx_fifo) - 1 |->
                IF i < Place(o) THEN tx_fifo[i] ELSE tx_fifo[i + 1]]

First == IF tx_fifo = <<>> THEN NoOp ELSE Head(tx_fifo)

(* The id of a header: the low bits of the counter it was stamped with,    *)
(* and as if it were never stored.                                         *)
IdForgotten(o) == 0
Id(o) == stamp[o] % IdSpace

(* A response r answers o by its id.                                       *)
Matches(o, r) == Id(o) = Id(answers[r])

(* gb_operation_unref: the last reference frees the operation, and with it *)
(* drops its response.                                                     *)
Unref(o) ==
  /\ ref_count' = [ref_count EXCEPT ![o] = @ - 1]
  /\ IF ref_count[o] = 1
       THEN /\ mem' = [mem EXCEPT ![o] = "freed"]
            /\ resp_refs' = [r \in Resps |->
                 IF r = response[o] THEN resp_refs[r] - 1 ELSE resp_refs[r]]
       ELSE UNCHANGED <<mem, resp_refs>>

(* gb_operation_ref of a request that enters tx_fifo, and as if forgotten. *)
RefForgotten(o) == UNCHANGED ref_count
Ref(o) == ref_count' = [ref_count EXCEPT ![o] = @ + 1]

(* gb_operation_ref of a response that is attached.                        *)
RefResponse(r) == resp_refs' = [resp_refs EXCEPT ![r] = @ + 1]

(* gb_operation_callback_sync, and as if the semaphore were not posted.    *)
PostSyncForgotten(o) == UNCHANGED sync_sem
PostSync(o) == sync_sem' = [sync_sem EXCEPT ![o] = @ + 1]

(* sem_wait returns.                                                       *)
Posted(o) == sync_sem[o] > 0

-----------------------------------------------------------------------------
(* gb_operation_send_request and gb_operation_send_request_sync.           *)

(* A sender creates an operation and calls; exit_worker refuses it.        *)
Refused(s, o) ==
  /\ sender[s] = SenderIdle
  /\ mem[o] = "unused"
  /\ life # "up"
  /\ mem' = [mem EXCEPT ![o] = "freed"]
  /\ UNCHANGED <<ref_count, stamp, response, called, sync_sem, respVars,
                 request_id, tx_fifo, wire, rx_fifo, sender, worker, life,
                 cursor, ghosts, fault>>

(* The check of exit_worker passes ...                                     *)
SendCheck(s, o, sync) ==
  /\ sender[s] = SenderIdle
  /\ mem[o] = "unused"
  /\ life = "up"
  /\ mem' = [mem EXCEPT ![o] = "live"]
  /\ ref_count' = [ref_count EXCEPT ![o] = 1]
  /\ sender' = [sender EXCEPT ![s] = [pc |-> "number", op |-> o, sync |-> sync]]
  /\ UNCHANGED <<stamp, response, called, sync_sem, respVars, request_id,
                 tx_fifo, wire, rx_fifo, worker, life, cursor, ghosts, fault>>

(* ... and under irq_lock the request gets an id other than 0, a reference *)
(* and a place in tx_fifo.                                                 *)
NextId == IF request_id % IdSpace = 0 THEN request_id + 1 ELSE request_id

SendNumber(s) ==
  LET o == sender[s].op
  IN  /\ sender[s].pc = "number"
      /\ stamp' = [stamp EXCEPT ![o] = NextId]
      /\ request_id' = NextId + 1
      /\ Ref(o)
      /\ tx_fifo' = Append(tx_fifo, o)
      /\ sender' = [sender EXCEPT ![s].pc = "send"]
      /\ UNCHANGED <<mem, response, called, sync_sem, respVars, wire, rx_fifo,
                     worker, life, cursor, ghosts, fault>>

(* The transport passes the request on before its send returns.            *)
SendTransmit(s) ==
  /\ sender[s].pc = "send"
  /\ wire' = wire \cup {sender[s].op}
  /\ sender' = [sender EXCEPT ![s].pc = "sent"]
  /\ UNCHANGED <<opVars, respVars, request_id, tx_fifo, rx_fifo, worker, life, cursor,
                 ghosts, fault>>

(* The transport fails: the request is taken back.                         *)
SendFails(s) ==
  LET o == sender[s].op
  IN  /\ sender[s].pc = "send"
      /\ Cardinality(failed) < MaxFail
      /\ IF ~Linked(o)
           THEN Crash("unlinked")
           ELSE /\ Unlink(o)
                /\ Unref(o)
                /\ failed' = failed \cup {o}
                /\ sender' = [sender EXCEPT ![s].pc = "destroy"]
                /\ UNCHANGED <<stamp, response, called, sync_sem, answers, request_id,
                               wire, rx_fifo, worker, life, cursor, lost,
                               flushed, dropped, fault>>

(* The send succeeds: the synchronous form waits, the other returns.       *)
SendReturns(s) ==
  /\ sender[s].pc = "sent"
  /\ sender' = [sender EXCEPT ![s].pc = IF sender[s].sync THEN "wait" ELSE "destroy"]
  /\ UNCHANGED <<opVars, respVars, request_id, tx_fifo, wire, rx_fifo, worker, life,
                 cursor, ghosts, fault>>

(* sem_wait(&operation->sync_sem) returns.                                 *)
SyncWakes(s) ==
  LET o == sender[s].op
  IN  /\ sender[s].pc = "wait"
      /\ Posted(o)
      /\ sync_sem' = [sync_sem EXCEPT ![o] = @ - 1]
      /\ sender' = [sender EXCEPT ![s].pc = "destroy"]
      /\ UNCHANGED <<mem, ref_count, stamp, response, called, respVars,
                     request_id, tx_fifo, wire, rx_fifo, worker, life, cursor,
                     ghosts, fault>>

(* The caller is done with the operation: gb_operation_destroy.            *)
SendDestroy(s) ==
  /\ sender[s].pc = "destroy"
  /\ Unref(sender[s].op)
  /\ sender' = [sender EXCEPT ![s] = SenderIdle]
  /\ UNCHANGED <<stamp, response, called, sync_sem, answers, request_id, tx_fifo, wire,
                 rx_fifo, worker, life, cursor, ghosts, fault>>

-----------------------------------------------------------------------------
(* The peer answers a request it has, in any order, once or again, or the  *)
(* answer is lost; greybus_rx_handler queues the response.  Bound: what is *)
(* answered again leaves a response for each request not yet answered.     *)

Unanswered == {o \in Ops : \A r \in Resps : answers[r] # o}

PeerAnswers(o, r) ==
  /\ o \in wire
  /\ answers[r] = NoOp
  /\ \/ o \in Unanswered
     \/ Cardinality({q \in Resps : answers[q] = NoOp}) > Cardinality(Unanswered)
  /\ life \in {"up", "closing"}
  /\ answers' = [answers EXCEPT ![r] = o]
  /\ resp_refs' = [resp_refs EXCEPT ![r] = 1]
  /\ rx_fifo' = Append(rx_fifo, r)
  /\ UNCHANGED <<opVars, request_id, tx_fifo, sender, worker, life, cursor,
                 ghosts, fault>>

AnswersOnce(o, r) == PeerAnswers(o, r) /\ wire' = wire \ {o}

AnswersAgain(o, r) == PeerAnswers(o, r) /\ UNCHANGED wire

Lose(o) ==
  /\ o \in wire
  /\ Cardinality(lost) < MaxLost
  /\ wire' = wire \ {o}
  /\ lost' = lost \cup {o}
  /\ UNCHANGED <<opVars, respVars, request_id, tx_fifo, rx_fifo, sender, worker, life,
                 cursor, failed, flushed, dropped, fault>>

-----------------------------------------------------------------------------
(* gb_process_response, in the worker.  The loop reads an element's id and *)
(* the next element's address before it looks at the element.              *)

WorkerGet ==
  /\ worker.pc = "idle"
  /\ rx_fifo # <<>>
  /\ rx_fifo' = Tail(rx_fifo)
  /\ worker' = [pc |-> "walk", resp |-> Head(rx_fifo), cur |-> First,
                nxt |-> After(First)]
  /\ UNCHANGED <<opVars, respVars, request_id, tx_fifo, wire, sender, life, cursor,
                 ghosts, fault>>

(* The element does not match: the loop goes to the one it saved, and      *)
(* reads that one's successor.                                             *)
WorkerNext ==
  /\ worker.pc = "walk"
  /\ worker.cur # NoOp
  /\ mem[worker.cur] = "live"
  /\ ~Matches(worker.cur, worker.resp)
  /\ worker' = [worker EXCEPT !.cur = worker.nxt, !.nxt = After(worker.nxt)]
  /\ UNCHANGED <<opVars, respVars, request_id, tx_fifo, wire, rx_fifo, sender, life,
                 cursor, ghosts, fault>>

WorkerFreed ==
  /\ worker.pc = "walk"
  /\ worker.cur # NoOp
  /\ mem[worker.cur] = "freed"
  /\ Crash("freed")

(* The ids are equal: the request is removed under irq_lock.               *)
WorkerMatch ==
  /\ worker.pc = "walk"
  /\ worker.cur # NoOp
  /\ mem[worker.cur] = "live"
  /\ Matches(worker.cur, worker.resp)
  /\ IF ~Linked(worker.cur)
       THEN Crash("unlinked")
       ELSE /\ Unlink(worker.cur)
            /\ worker' = [worker EXCEPT !.pc = "callback"]
            /\ UNCHANGED <<opVars, respVars, request_id, wire, rx_fifo, sender, life,
                           cursor, ghosts, fault>>

(* The response is attached with a reference of its own, and the callback  *)
(* runs: gb_operation_callback_sync, or the sender's.                      *)
WorkerCallback ==
  LET o == worker.cur
  IN  /\ worker.pc = "callback"
      /\ RefResponse(worker.resp)
      /\ response' = [response EXCEPT ![o] = worker.resp]
      /\ called' = [called EXCEPT ![o] = @ + 1]
      /\ PostSync(o)
      /\ worker' = [worker EXCEPT !.pc = "unref"]
      /\ UNCHANGED <<mem, ref_count, stamp, answers, request_id, tx_fifo, wire,
                     rx_fifo, sender, life, cursor, ghosts, fault>>

WorkerUnref ==
  /\ worker.pc = "unref"
  /\ Unref(worker.cur)
  /\ worker' = [worker EXCEPT !.pc = "destroy"]
  /\ UNCHANGED <<stamp, response, called, sync_sem, answers, request_id, tx_fifo, wire,
                 rx_fifo, sender, life, cursor, ghosts, fault>>

(* No request matches: the response is dropped.                            *)
WorkerDrop ==
  /\ worker.pc = "walk"
  /\ worker.cur = NoOp
  /\ worker' = [worker EXCEPT !.pc = "destroy"]
  /\ dropped' = dropped \cup {worker.resp}
  /\ UNCHANGED <<opVars, respVars, request_id, tx_fifo, wire, rx_fifo, sender, life,
                 cursor, failed, lost, flushed, fault>>

(* gb_operation_destroy of the response, at the end of the worker's turn.  *)
WorkerDestroy ==
  /\ worker.pc = "destroy"
  /\ resp_refs' = [resp_refs EXCEPT ![worker.resp] = @ - 1]
  /\ worker' = WorkerIdle
  /\ UNCHANGED <<opVars, answers, request_id, tx_fifo, wire, rx_fifo, sender,
                 life, cursor, ghosts, fault>>

-----------------------------------------------------------------------------
(* gb_unregister_driver, as far as operations see it.                      *)

UnregisterFlag ==
  /\ MayUnregister
  /\ life = "up"
  /\ life' = "closing"
  /\ UNCHANGED <<opVars, respVars, request_id, tx_fifo, wire, rx_fifo, sender, worker,
                 cursor, ghosts, fault>>

(* The worker has drained its queue and returned: gb_flush_tx_fifo begins; *)
(* and as if the worker were not joined.                                   *)
NotJoined == TRUE
WorkerGone == worker.pc = "idle" /\ rx_fifo = <<>>

UnregisterJoin ==
  /\ life = "closing"
  /\ WorkerGone
  /\ life' = "flush"
  /\ cursor' = [cur |-> First, nxt |-> After(First)]
  /\ UNCHANGED <<opVars, respVars, request_id, tx_fifo, wire, rx_fifo, sender, worker,
                 ghosts, fault>>

(* An element is removed and its reference dropped, without a callback.    *)
FlushOne ==
  LET o == cursor.cur
      n == cursor.nxt
  IN  /\ life = "flush"
      /\ o # NoOp
      /\ IF mem[o] = "freed" THEN Crash("freed")
         ELSE IF ~Linked(o) THEN Crash("unlinked")
         ELSE /\ Unlink(o)
              /\ Unref(o)
              /\ flushed' = flushed \cup {o}
              /\ cursor' = [cur |-> n, nxt |-> After(n)]
              /\ UNCHANGED <<stamp, response, called, sync_sem, answers, request_id, wire,
                             rx_fifo, sender, worker, life, failed,
                             lost, dropped, fault>>

FlushDone ==
  /\ life = "flush"
  /\ cursor.cur = NoOp
  /\ life' = "down"
  /\ UNCHANGED <<opVars, respVars, request_id, tx_fifo, wire, rx_fifo, sender, worker,
                 cursor, ghosts, fault>>

-----------------------------------------------------------------------------
SendStep(s) ==
  \/ SendNumber(s) \/ SendTransmit(s) \/ SendFails(s) \/ SendReturns(s)
  \/ SyncWakes(s) \/ SendDestroy(s)

Worker ==
  \/ WorkerGet \/ WorkerNext \/ WorkerFreed \/ WorkerMatch \/ WorkerCallback
  \/ WorkerUnref \/ WorkerDrop \/ WorkerDestroy

Unregister == UnregisterJoin \/ FlushOne \/ FlushDone

Next ==
  /\ fault = "none"
  /\ \/ \E s \in Senders : SendStep(s)
     \/ \E s \in Senders, o \in Ops :
          Refused(s, o) \/ \E sync \in BOOLEAN : SendCheck(s, o, sync)
     \/ \E o \in Ops, r \in Resps : AnswersOnce(o, r) \/ AnswersAgain(o, r)
     \/ \E o \in Ops : Lose(o)
     \/ Worker
     \/ UnregisterFlag \/ Unregister

Spec == Init /\ [][Next]_vars

(* Every thread that can run does, and the peer answers what it received.  *)
FairSpec ==
  /\ Spec
  /\ \A s \in Senders : WF_vars(fault = "none" /\ SendStep(s))
  /\ \A o \in Ops : WF_vars(fault = "none" /\ \E r \in Resps : AnswersOnce(o, r))
  /\ WF_vars(fault = "none" /\ Worker)
  /\ WF_vars(fault = "none" /\ Unregister)

-----------------------------------------------------------------------------
Pointers == Ops \cup {NoOp}
RespPointers == Resps \cup {NoOp}

(* Type correctness.                                                       *)
TypeOK ==
  /\ mem \in [Ops -> {"unused", "live", "freed"}]
  /\ ref_count \in [Ops -> Nat]
  /\ stamp \in [Ops -> Nat]
  /\ response \in [Ops -> RespPointers]
  /\ called \in [Ops -> Nat]
  /\ sync_sem \in [Ops -> Nat]
  /\ answers \in [Resps -> Pointers]
  /\ resp_refs \in [Resps -> Nat]
  /\ request_id \in Nat
  /\ tx_fifo \in Seq(Ops)
  /\ wire \subseteq Ops
  /\ rx_fifo \in Seq(Resps)
  /\ sender \in [Senders ->
        [pc : {"idle", "number", "send", "sent", "wait", "destroy"},
         op : Pointers, sync : BOOLEAN]]
  /\ worker \in
        [pc : {"idle", "walk", "callback", "unref", "destroy"},
         resp : RespPointers, cur : Pointers, nxt : Pointers]
  /\ life \in {"up", "closing", "flush", "down"}
  /\ cursor \in [cur : Pointers, nxt : Pointers]
  /\ failed \subseteq Ops /\ lost \subseteq Ops
  /\ flushed \subseteq Ops /\ dropped \subseteq Resps
  /\ fault \in {"none", "freed", "unlinked"}

One(b) == IF b THEN 1 ELSE 0

(* The creator of o has not destroyed it yet.                              *)
Owned(o) == \E s \in Senders : sender[s].op = o

(* The worker has taken o out of tx_fifo and not yet dropped the list's    *)
(* reference.                                                              *)
Taken(o) == worker.pc \in {"callback", "unref"} /\ worker.cur = o

(* The reference count of an operation is the number of those who hold it: *)
(* its creator, and tx_fifo or the worker that took it from there; it is   *)
(* freed exactly when nobody does.  A response is held by the worker and   *)
(* by the live request it answered; the state stays of its type            *)
(* (greybus-core.c:364-365, 414, 781, 796, 934-957).                       *)
RefsAreHolders ==
  /\ TypeOK
  /\ \A o \in Ops :
       /\ ref_count[o] = One(Owned(o)) + One(Linked(o) \/ Taken(o))
       /\ mem[o] = "live" <=> ref_count[o] > 0
  /\ \A r \in Resps :
       resp_refs[r] = One(\E i \in DOMAIN rx_fifo : rx_fifo[i] = r)
                      + One(worker.pc # "idle" /\ worker.resp = r)
                      + Cardinality({o \in Ops : mem[o] = "live" /\ response[o] = r})

(* A request o holds, or is about to get, the response to another one.     *)
Misled(o) ==
  LET r == IF worker.pc = "callback" /\ worker.cur = o
             THEN worker.resp ELSE response[o]
  IN  r # NoOp /\ answers[r] # o

(* As long as no send has failed, the unlocked walks over tx_fifo and the  *)
(* removals meet only linked, live operations, and no response is dropped  *)
(* while its request waits.  Two exceptions: a send that fails after an    *)
(* unregistration flushed its request, or after the request was taken for  *)
(* another one of the same id                                              *)
(* (greybus-core.c:351-374, 516-524, 793-794).                             *)
WalksAreSafe ==
  failed = {} =>
    /\ \A r \in dropped : ~Linked(answers[r])
    /\ fault # "none" =>
         fault = "unlinked" /\ (flushed # {} \/ \E o \in Ops : Misled(o))

(* An operation's callback runs at most once, and never after its send     *)
(* failed or it was flushed; gb_operation_send_request_sync returns        *)
(* success only with a response                                            *)
(* (greybus-core.c:367-369, 520-523, 793-797, 813-824, 1036).              *)
CallbackOnce ==
  /\ \A o \in Ops :
       called[o] <= 1 /\ (called[o] = 1 => o \notin failed \cup flushed)
  /\ \A s \in Senders :
       LET o == sender[s].op
       IN  sender[s].pc = "destroy" /\ sender[s].sync /\ o \notin failed
             => response[o] # NoOp

(* A request gets the response to another only after the 16-bit counter    *)
(* has gone round (greybus-core.c:354, 775-778).                           *)
WrongAnswerNeedsWrap ==
  (\E o \in Ops : Misled(o)) => request_id > IdSpace

(* With a peer that answers, no failed send and no unregistration, every   *)
(* call returns and every operation is freed (greybus-core.c:755-825).     *)
CallsReturn ==
  \A o \in Ops : mem[o] = "live" ~> mem[o] = "freed"

(* A request that waits for a response does not wait for ever: the         *)
(* watchdog of the cport is armed while tx_fifo is not empty               *)
(* (greybus-core.c:296-305) and times it out.                              *)
RequestsTimeOut ==
  \A o \in Ops : Linked(o) ~> ~Linked(o)
=============================================================================
