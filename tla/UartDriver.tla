----------------------------- MODULE UartDriver ------------------------------
(***************************************************************************)
(* The receiving side of the UART bridge driver (uart.c).                  *)
(*                                                                         *)
(* A pool of buffers goes round: the device fills one, its callback puts   *)
(* it in data_queue and starts the device on one of free_queue, and the rx *)
(* thread sends what is in data_queue and puts the buffers back.  When     *)
(* free_queue is empty the callback leaves the device stopped and asks the *)
(* thread, by require_node, to start it again.  A second thread reports    *)
(* changes of the modem status.  gb_uart_init and gb_uart_exit start and   *)
(* stop all of it; exit does not stop the device before device_close.      *)
(*                                                                         *)
(* The callbacks are interrupts: they may come between any two steps of a  *)
(* thread, and no thread runs during one.                                  *)
(***************************************************************************)
EXTENDS Integers, FiniteSets, Sequences

CONSTANTS
  Nodes,     (* the buffers, MAX_RX_BUF_NUMBER of them                     *)
  NoNode,    (* NULL                                                       *)
  MaxChunks, (* bound: times the device fills a buffer                     *)
  MaxStatus, (* bound: changes of the modem status or the line status      *)
  MaxFail    (* bound: calls of the device or the core that fail           *)

ASSUME UartDriverAssumption ==
  /\ NoNode \notin Nodes
  /\ Nodes # {} /\ IsFiniteSet(Nodes)
  /\ {MaxChunks, MaxStatus, MaxFail} \subseteq Nat

VARIABLES
  life,       (* where gb_uart_init and then gb_uart_exit is               *)
  heap,       (* "none", "live" or "freed": the memory of a buffer         *)
  free_queue, (* info->free_queue                                          *)
  data_queue, (* info->data_queue                                          *)
  rx_node,    (* info->rx_node                                             *)
  filling,    (* the buffer the device was started on, or NoNode           *)
  require_node, (* info->require_node                                      *)
  rx_sem,     (* the count of info->rx_sem                                 *)
  rx,         (* where uart_rx_thread is, and the node it holds            *)
  chunk,      (* the number of the chunk in a buffer                       *)
  sent,       (* the chunks sent to the peer                               *)
  thread_stop, (* info->thread_stop                                        *)
  modem,      (* the modem status of the device, one bit of it             *)
  attached,   (* the status callbacks are attached                         *)
  updated_ms, (* info->updated_ms                                          *)
  last_serial_state, (* info->last_serial_state                            *)
  status_sem, (* the count of info->status_sem                             *)
  status,     (* where uart_status_thread is                               *)
  told,       (* ghost: the status the peer knows                          *)
  ms_seen,    (* ghost: the modem status callback ran                      *)
  arrived,    (* ghost: chunks the device received                         *)
  raced,      (* ghost: the callback asked for a buffer between the steps  *)
              (* of the rx thread that put one back and that clear it      *)
  held,       (* ghost: the buffers the device had after exit began        *)
  fault,      (* "none", "null" or "busy": the access that crashed         *)
  budget      (* ghost: what is left of the bounds                         *)

poolVars == <<heap, free_queue, data_queue, rx_node, filling, require_node, chunk>>
rxVars == <<rx_sem, rx, sent, arrived, raced, held>>
statusVars == <<modem, attached, updated_ms, last_serial_state, status_sem, status,
                told, ms_seen>>
vars == <<life, poolVars, rxVars, thread_stop, statusVars, fault, budget>>

Init ==
  /\ life = "status"
  /\ heap = [n \in Nodes |-> "none"]
  /\ free_queue = <<>> /\ data_queue = <<>>
  /\ rx_node = NoNode /\ filling = NoNode
  /\ require_node = FALSE
  /\ rx_sem = 0
  /\ rx = [pc |-> "off", node |-> NoNode]
  /\ chunk = [n \in Nodes |-> 0]
  /\ sent = <<>>
  /\ thread_stop = FALSE
  /\ modem \in 0..1
  /\ attached = FALSE
  /\ updated_ms = 0 /\ last_serial_state = 0
  /\ status_sem = 0
  /\ status = "off"
  /\ told = 0
  /\ ms_seen = FALSE
  /\ arrived = 0
  /\ raced = FALSE
  /\ held = {}
  /\ fault = "none"
  /\ budget = [chunks |-> MaxChunks, status |-> MaxStatus, fail |-> MaxFail]

Fails == budget.fail > 0 /\ budget' = [budget EXCEPT !.fail = @ - 1]

-----------------------------------------------------------------------------
(* uart_rx_callback: the device filled its buffer.                         *)

(* A node goes to the end of a queue, and as if to its front.              *)
PutFirst(queue, n) == <<n>> \o queue
PutNode(queue, n) == Append(queue, n)

(* The callback starts the device on the head of free_queue, and as if on  *)
(* the buffer it just filled.                                              *)
SameNode == rx_node
NextNode == IF free_queue = <<>> THEN NoNode ELSE Head(free_queue)

RxCallback ==
  /\ filling # NoNode
  /\ budget.chunks > 0
  /\ arrived' = arrived + 1
  /\ chunk' = [chunk EXCEPT ![filling] = arrived + 1]
  /\ data_queue' = PutNode(data_queue, rx_node)
  /\ rx_sem' = rx_sem + 1
  /\ IF free_queue = <<>>
       THEN /\ require_node' = TRUE
            /\ raced' = (raced \/ rx.pc \in {"require", "clear"})
            /\ filling' = NoNode
            /\ budget' = [budget EXCEPT !.chunks = @ - 1]
            /\ UNCHANGED <<free_queue, rx_node>>
       ELSE /\ free_queue' = Tail(free_queue)
            /\ rx_node' = NextNode
            /\ \/ /\ filling' = NextNode
                  /\ budget' = [budget EXCEPT !.chunks = @ - 1]
               \/ /\ budget.fail > 0
                  /\ filling' = NoNode
                  /\ budget' = [budget EXCEPT !.chunks = @ - 1, !.fail = @ - 1]
            /\ UNCHANGED <<require_node, raced>>
  /\ held' = IF thread_stop THEN held \cup {rx_node'} ELSE held
  /\ UNCHANGED <<life, heap, rx, sent, thread_stop, statusVars, fault>>

-----------------------------------------------------------------------------
(* uart_rx_thread.                                                         *)

(* sem_wait returns.                                                       *)
Posted == rx_sem > 0

RxWait ==
  /\ rx.pc = "wait"
  /\ Posted
  /\ rx_sem' = rx_sem - 1
  /\ rx' = [rx EXCEPT !.pc = IF thread_stop THEN "off" ELSE "get"]
  /\ UNCHANGED <<life, poolVars, sent, arrived, raced, held, thread_stop, statusVars,
                 fault, budget>>

RxGet ==
  /\ rx.pc = "get"
  /\ IF data_queue = <<>>
       THEN rx' = [rx EXCEPT !.pc = "require"] /\ UNCHANGED data_queue
       ELSE /\ rx' = [pc |-> "send", node |-> Head(data_queue)]
            /\ data_queue' = Tail(data_queue)
  /\ UNCHANGED <<life, heap, free_queue, rx_node, filling, require_node, chunk, rx_sem,
                 sent, arrived, raced, held, thread_stop, statusVars, fault, budget>>

(* The chunk is sent, or lost when no operation can be created or sent.    *)
RxSend ==
  /\ rx.pc = "send"
  /\ \/ sent' = Append(sent, chunk[rx.node]) /\ UNCHANGED budget
     \/ Fails /\ UNCHANGED sent
  /\ rx' = [rx EXCEPT !.pc = "put"]
  /\ UNCHANGED <<life, poolVars, rx_sem, arrived, raced, held, thread_stop,
                 statusVars, fault>>

RxPut ==
  /\ rx.pc = "put"
  /\ free_queue' = PutNode(free_queue, rx.node)
  /\ rx' = [pc |-> "require", node |-> NoNode]
  /\ UNCHANGED <<life, heap, data_queue, rx_node, filling, require_node, chunk, rx_sem,
                 sent, arrived, raced, held, thread_stop, statusVars, fault, budget>>

(* The device is started when the callback asked for it.                   *)
Requested == require_node

RxRequire ==
  /\ rx.pc = "require"
  /\ rx' = [rx EXCEPT !.pc = IF Requested THEN "claim" ELSE "wait"]
  /\ UNCHANGED <<life, poolVars, rx_sem, sent, arrived, raced, held, thread_stop,
                 statusVars, fault, budget>>

(* The buffer for the device: no check that there is one.                  *)
RxClaim ==
  /\ rx.pc = "claim"
  /\ rx_node' = NextNode
  /\ IF free_queue = <<>>
       THEN fault' = "null" /\ UNCHANGED <<free_queue, rx>>
       ELSE /\ free_queue' = Tail(free_queue)
            /\ rx' = [pc |-> "start", node |-> NextNode]
            /\ UNCHANGED fault
  /\ UNCHANGED <<life, heap, data_queue, filling, require_node, chunk, rx_sem, sent,
                 arrived, raced, held, thread_stop, statusVars, budget>>

(* device_uart_start_receiver                                              *)
RxStart ==
  /\ rx.pc = "start"
  /\ IF filling # NoNode
       THEN fault' = "busy" /\ UNCHANGED <<filling, budget>>
       ELSE /\ \/ filling' = rx.node /\ UNCHANGED budget
               \/ Fails /\ UNCHANGED filling
            /\ UNCHANGED fault
  /\ rx' = [pc |-> "clear", node |-> NoNode]
  /\ held' = IF thread_stop THEN held \cup {rx.node} ELSE held
  /\ UNCHANGED <<life, heap, free_queue, data_queue, rx_node, require_node, chunk, rx_sem,
                 sent, arrived, raced, thread_stop, statusVars>>

(* The request is cleared after the device may have made the next one; and *)
(* as if it were kept.                                                     *)
KeepRequest == require_node
ClearRequest == FALSE

RxClear ==
  /\ rx.pc = "clear"
  /\ require_node' = ClearRequest
  /\ rx' = [rx EXCEPT !.pc = "wait"]
  /\ UNCHANGED <<life, heap, free_queue, data_queue, rx_node, filling, chunk, rx_sem,
                 sent, arrived, raced, held, thread_stop, statusVars, fault, budget>>

-----------------------------------------------------------------------------
(* The status callbacks and uart_status_thread.                            *)

(* The modem status changes: uart_ms_callback, if attached; and as if the  *)
(* value were not stored.                                                  *)
NotStored(ms) == updated_ms
Stored(ms) == ms

ModemChanges ==
  /\ budget.status > 0
  /\ budget' = [budget EXCEPT !.status = @ - 1]
  /\ modem' = 1 - modem
  /\ IF attached
       THEN /\ updated_ms' = Stored(modem')
            /\ status_sem' = status_sem + 1
            /\ ms_seen' = TRUE
       ELSE UNCHANGED <<updated_ms, status_sem, ms_seen>>
  /\ UNCHANGED <<life, poolVars, rxVars, thread_stop, attached, last_serial_state, status,
                 told, fault>>

(* The line status changes: uart_ls_callback.  No bit of it is reported.   *)
LineChanges ==
  /\ budget.status > 0
  /\ attached /\ life # "trigger"
  /\ budget' = [budget EXCEPT !.status = @ - 1]
  /\ status_sem' = status_sem + 1
  /\ UNCHANGED <<life, poolVars, rxVars, thread_stop, modem, attached, updated_ms,
                 last_serial_state, status, told, ms_seen, fault>>

StatusWait ==
  /\ status = "wait"
  /\ status_sem > 0
  /\ status_sem' = status_sem - 1
  /\ status' = IF thread_stop THEN "off" ELSE "report"
  /\ UNCHANGED <<life, poolVars, rxVars, thread_stop, modem, attached, updated_ms,
                 last_serial_state, told, ms_seen, fault, budget>>

(* A change is remembered as reported, even if it cannot be sent.          *)
StatusReport ==
  /\ status = "report"
  /\ last_serial_state' = updated_ms
  /\ \/ told' = updated_ms /\ UNCHANGED budget
     \/ updated_ms # last_serial_state /\ Fails /\ UNCHANGED told
  /\ status' = "wait"
  /\ UNCHANGED <<life, poolVars, rxVars, thread_stop, modem, attached, updated_ms,
                 status_sem, ms_seen, fault>>

-----------------------------------------------------------------------------
(* gb_uart_init.                                                           *)

(* uart_status_cb_init: the status thread runs.                            *)
InitStatus ==
  /\ life = "status"
  /\ \/ life' = "receiver" /\ status' = "wait" /\ UNCHANGED budget
     \/ Fails /\ life' = "close" /\ UNCHANGED status
  /\ UNCHANGED <<poolVars, rxVars, thread_stop, modem, attached, updated_ms,
                 last_serial_state, status_sem, told, ms_seen, fault>>

(* uart_alloc_buf: the buffers in the order they were allocated.           *)
AllocationOrder ==
  CHOOSE q \in [1..Cardinality(Nodes) -> Nodes] :
    \A i, j \in 1..Cardinality(Nodes) : q[i] = q[j] => i = j

(* uart_receiver_cb_init: the buffers are allocated and the thread runs,   *)
(* or the buffers there are, are freed again.                              *)
InitReceiver ==
  /\ life = "receiver"
  /\ \/ /\ free_queue' = AllocationOrder
        /\ heap' = [n \in Nodes |-> "live"]
        /\ rx' = [rx EXCEPT !.pc = "wait"]
        /\ life' = "read"
        /\ UNCHANGED budget
     \/ /\ Fails
        /\ \E some \in SUBSET Nodes : heap' = [n \in Nodes |-> IF n \in some THEN "freed" ELSE "none"]
        /\ life' = "stop_status"
        /\ UNCHANGED <<free_queue, rx>>
  /\ UNCHANGED <<data_queue, rx_node, filling, require_node, chunk, rx_sem, sent, arrived,
                 raced, held, thread_stop, statusVars, fault>>

(* The status is read ...                                                  *)
InitRead ==
  /\ life = "read"
  /\ \/ /\ last_serial_state' = modem /\ told' = modem
        /\ life' = "attach"
        /\ UNCHANGED budget
     \/ Fails /\ life' = "stop_rx" /\ UNCHANGED <<last_serial_state, told>>
  /\ UNCHANGED <<poolVars, rxVars, thread_stop, modem, attached, updated_ms, status_sem,
                 status, ms_seen, fault>>

(* ... before the modem status callback is attached, ...                   *)
InitAttach ==
  /\ life = "attach"
  /\ \/ attached' = TRUE /\ life' = "trigger" /\ UNCHANGED budget
     \/ Fails /\ life' = "stop_rx" /\ UNCHANGED attached
  /\ UNCHANGED <<poolVars, rxVars, thread_stop, modem, updated_ms, last_serial_state,
                 status_sem, status, told, ms_seen, fault>>

(* ... then that of the line status, and the first receiving is triggered. *)
InitTrigger ==
  /\ life = "trigger"
  /\ \/ /\ require_node' = TRUE
        /\ rx_sem' = rx_sem + 1
        /\ life' = "up"
        /\ UNCHANGED <<attached, budget>>
     \/ /\ Fails
        /\ attached' = FALSE
        /\ life' = "stop_rx"
        /\ UNCHANGED <<require_node, rx_sem>>
  /\ UNCHANGED <<heap, free_queue, data_queue, rx_node, filling, chunk, rx, sent, arrived,
                 raced, held, thread_stop, modem, updated_ms, last_serial_state,
                 status_sem, status, told, ms_seen, fault>>

-----------------------------------------------------------------------------
(* gb_uart_exit; gb_uart_init ends with the same calls when it fails.      *)

Exit ==
  /\ life = "up"
  /\ attached' = FALSE
  /\ life' = "stop_rx"
  /\ UNCHANGED <<poolVars, rxVars, thread_stop, modem, updated_ms, last_serial_state,
                 status_sem, status, told, ms_seen, fault, budget>>

(* uart_receiver_cb_deinit: the thread is told to stop and woken, and as   *)
(* if it were not woken, ...                                               *)
NotWoken(sem) == sem
Woken(sem) == sem + 1

StopRx ==
  /\ life = "stop_rx"
  /\ thread_stop' = TRUE
  /\ rx_sem' = Woken(rx_sem)
  /\ held' = {filling} \ {NoNode}
  /\ life' = "join_rx"
  /\ UNCHANGED <<poolVars, rx, sent, arrived, raced, statusVars, fault, budget>>

(* ... joined, ...                                                         *)
Joined == rx.pc = "off"

JoinRx ==
  /\ life = "join_rx"
  /\ Joined
  /\ life' = "free_data"
  /\ UNCHANGED <<poolVars, rxVars, thread_stop, statusVars, fault, budget>>

(* ... and the buffers of both queues are freed, one at a time.            *)
FreeData ==
  /\ life = "free_data"
  /\ IF data_queue = <<>>
       THEN life' = "free_free" /\ UNCHANGED <<data_queue, heap>>
       ELSE /\ heap' = [heap EXCEPT ![Head(data_queue)] = "freed"]
            /\ data_queue' = Tail(data_queue)
            /\ UNCHANGED life
  /\ UNCHANGED <<free_queue, rx_node, filling, require_node, chunk, rxVars, thread_stop,
                 statusVars, fault, budget>>

FreeFree ==
  /\ life = "free_free"
  /\ IF free_queue = <<>>
       THEN life' = "stop_status" /\ UNCHANGED <<free_queue, heap>>
       ELSE /\ heap' = [heap EXCEPT ![Head(free_queue)] = "freed"]
            /\ free_queue' = Tail(free_queue)
            /\ UNCHANGED life
  /\ UNCHANGED <<data_queue, rx_node, filling, require_node, chunk, rxVars, thread_stop,
                 statusVars, fault, budget>>

(* uart_status_cb_deinit, and device_close, after which no callback runs.  *)
StopStatus ==
  /\ life = "stop_status"
  /\ thread_stop' = TRUE
  /\ status_sem' = Woken(status_sem)
  /\ life' = "join_status"
  /\ UNCHANGED <<poolVars, rxVars, modem, attached, updated_ms, last_serial_state, status,
                 told, ms_seen, fault, budget>>

JoinStatus ==
  /\ life = "join_status"
  /\ status = "off"
  /\ life' = "close"
  /\ UNCHANGED <<poolVars, rxVars, thread_stop, statusVars, fault, budget>>

Close ==
  /\ life = "close"
  /\ filling' = NoNode
  /\ life' = "closed"
  /\ UNCHANGED <<heap, free_queue, data_queue, rx_node, require_node, chunk, rxVars,
                 thread_stop, statusVars, fault, budget>>

-----------------------------------------------------------------------------
RxThread ==
  \/ RxWait \/ RxGet \/ RxSend \/ RxPut \/ RxRequire \/ RxClaim \/ RxStart \/ RxClear

StatusThread == StatusWait \/ StatusReport

Interrupt == RxCallback \/ ModemChanges \/ LineChanges

LifeStep ==
  \/ InitStatus \/ InitReceiver \/ InitRead \/ InitAttach \/ InitTrigger
  \/ StopRx \/ JoinRx \/ FreeData \/ FreeFree \/ StopStatus \/ JoinStatus \/ Close

Next ==
  /\ fault = "none"
  /\ RxThread \/ StatusThread \/ Interrupt \/ LifeStep \/ Exit

Spec == Init /\ [][Next]_vars

(* The threads run when they can, and an init or exit that began goes on.  *)
FairSpec ==
  /\ Spec
  /\ WF_vars(fault = "none" /\ RxThread)
  /\ WF_vars(fault = "none" /\ StatusThread)
  /\ WF_vars(fault = "none" /\ LifeStep)

-----------------------------------------------------------------------------
Pointers == Nodes \cup {NoNode}

(* Type correctness.                                                       *)
TypeOK ==
  /\ life \in {"status", "receiver", "read", "attach", "trigger", "up", "stop_rx", "join_rx",
               "free_data", "free_free", "stop_status", "join_status", "close", "closed"}
  /\ heap \in [Nodes -> {"none", "live", "freed"}]
  /\ free_queue \in Seq(Nodes) /\ data_queue \in Seq(Nodes)
  /\ rx_node \in Pointers /\ filling \in Pointers
  /\ require_node \in BOOLEAN
  /\ rx_sem \in Nat
  /\ rx \in [pc : {"off", "wait", "get", "send", "put", "require", "claim", "start", "clear"},
             node : Pointers]
  /\ chunk \in [Nodes -> Nat]
  /\ sent \in Seq(Nat)
  /\ thread_stop \in BOOLEAN
  /\ modem \in 0..1 /\ updated_ms \in 0..1 /\ last_serial_state \in 0..1 /\ told \in 0..1
  /\ attached \in BOOLEAN /\ ms_seen \in BOOLEAN /\ raced \in BOOLEAN
  /\ status_sem \in Nat
  /\ status \in {"off", "wait", "report"}
  /\ arrived \in Nat
  /\ held \subseteq Nodes
  /\ fault \in {"none", "null", "busy"}
  /\ budget \in [chunks : 0..MaxChunks, status : 0..MaxStatus, fail : 0..MaxFail]

Places(n) ==
  Cardinality({i \in DOMAIN free_queue : free_queue[i] = n})
  + Cardinality({i \in DOMAIN data_queue : data_queue[i] = n})
  + (IF rx.node = n THEN 1 ELSE 0)
  + (IF filling = n THEN 1 ELSE 0)

NoFailure == budget.fail = MaxFail

(* A buffer is in one place at a time: a queue, the hand of the rx thread  *)
(* or the device, which fills the buffer the driver takes it to fill.  A   *)
(* freed one is nowhere, and only one the device would not take is lost    *)
(* while the driver runs (uart.c:317-333, 436-463, 557-558).  gb_uart_exit *)
(* or a gb_uart_init that fails frees every buffer but the ones the device *)
(* had since the rx thread was stopped (547-559, 904-916, 942-946).        *)
OneOwner ==
  /\ TypeOK
  /\ \A n \in Nodes : Places(n) <= (IF heap[n] = "live" THEN 1 ELSE 0)
  /\ filling # NoNode => filling = rx_node
  /\ life = "up" /\ NoFailure => \A n \in Nodes : Places(n) = 1
  /\ life = "closed" => \A n \in Nodes : heap[n] = "live" => n \in held \cup {rx_node}

InHand == IF rx.pc = "send" THEN <<chunk[rx.node]>> ELSE <<>>
Waiting == [i \in DOMAIN data_queue |-> chunk[data_queue[i]]]

(* The peer gets the chunks in the order they arrived; without a failure   *)
(* none is left out, and the thread sleeps only when all of them are sent  *)
(* (uart.c:317-319, 430-454).                                              *)
ChunksInOrder ==
  /\ \A i, j \in DOMAIN sent : i < j => sent[i] < sent[j]
  /\ life = "up" /\ NoFailure => sent \o InHand \o Waiting = [i \in 1..arrived |-> i]
  /\ life = "up" /\ rx.pc = "wait" /\ rx_sem = 0 => data_queue = <<>>

(* The rx thread finds a free buffer when it starts the device, and the    *)
(* device stopped, and the device does not stay stopped while the driver   *)
(* sleeps, unless a request for a buffer came after the thread put back    *)
(* its own and before it cleared the last one, or a call failed            *)
(* (uart.c:317-330, 454-469).                                              *)
BreakNeedsRace ==
  /\ fault # "none" => fault = "null" /\ raced
  /\ life = "up" /\ rx.pc = "wait" /\ rx_sem = 0 /\ filling = NoNode
       => raced \/ ~NoFailure

(* When the status thread sleeps, the peer knows the modem status, unless  *)
(* no modem callback came yet or a call failed (uart.c:246-248, 384-402,   *)
(* 886).                                                                   *)
StatusSettles ==
  life = "up" /\ status = "wait" /\ status_sem = 0 /\ ms_seen /\ NoFailure
    => told = modem

(* gb_uart_exit returns: both threads end, unless the rx thread crashed    *)
(* (uart.c:484-490, 549-553).                                              *)
ExitReturns == life = "stop_rx" ~> life = "closed" \/ fault # "none"

(* The rx thread passes a buffer to the device as soon as it gets a free   *)
(* one (uart.c:411-414): it does not pass one it has not got.              *)
PassesFreeBuffer == fault # "null"
=============================================================================
