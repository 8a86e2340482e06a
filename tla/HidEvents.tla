----------------------------- MODULE HidEvents -----------------------------
(***************************************************************************)
(* hid.c, the input reports: the device's callback copies a report into    *)
(* the node it finds in report_node, queues it and takes a free node for   *)
(* the next one; a thread sends what is queued and gives the node back.    *)
(* When the callback finds no free node it sets node_request, and the      *)
(* thread hands it the next one.  The callback runs as an interrupt, which *)
(* the thread cannot come between, or in a thread of the device driver's.  *)
(***************************************************************************)
EXTENDS Naturals, Sequences, FiniteSets

CONSTANTS
  HidNodes,    \* the nodes, MAX_REPORT_OPERATIONS of them
  NoHidNode,   \* no node
  Contexts,    \* where the callback runs: "interrupt" or "thread"
  MaxReports   \* bound: reports of the device

VARIABLES
  ctx,          \* where this device's callback runs
  phase,        \* where gb_hid_init and gb_hid_exit are
  nodes,        \* the nodes allocated and not freed
  hid_free_queue, hid_data_queue, report_node, node_request,
  active_sem,   \* the count of the semaphore
  hid_thread_stop,
  cb,           \* the callback: where it is, and the node it holds
  proc,         \* the thread: where it is, and the node it holds
  crossed,      \* history: the callback ran while the thread was looking
  report,       \* each node's buffer: the number of the report in it
  hid_arrived,  \* bound: reports the device has called with
  hid_sent      \* the reports sent, in order

hidVars == <<ctx, phase, nodes, hid_free_queue, hid_data_queue, report_node, node_request,
             active_sem, hid_thread_stop, cb, proc, crossed, report, hid_arrived, hid_sent>>

ASSUME HidAssumption == NoHidNode \notin HidNodes /\ MaxReports \in Nat

HidInit ==
  /\ ctx \in Contexts
  /\ phase = "alloc"
  /\ nodes = {} /\ hid_free_queue = <<>> /\ hid_data_queue = <<>>
  /\ report_node = NoHidNode /\ node_request = FALSE
  /\ active_sem = 0 /\ hid_thread_stop = FALSE
  /\ cb = [pc |-> "idle", node |-> NoHidNode]
  /\ proc = [pc |-> "none", node |-> NoHidNode]
  /\ crossed = FALSE
  /\ report = [n \in HidNodes |-> 0]
  /\ hid_arrived = 0 /\ hid_sent = <<>>

Queues == <<hid_free_queue, hid_data_queue>>
Traffic == <<report, hid_arrived, hid_sent>>
ToCb(pc, n) == cb' = [pc |-> pc, node |-> n]
ToProc(pc, n) == proc' = [pc |-> pc, node |-> n]

(* node_dequeue: the first node, or none.                                  *)
First(q) == IF q = <<>> THEN NoHidNode ELSE Head(q)
Rest(q) == IF q = <<>> THEN q ELSE Tail(q)
OfQueue(q) == {q[i] : i \in DOMAIN q}

-----------------------------------------------------------------------------
(* gb_hid_init.                                                            *)

(* hid_alloc_op: the nodes one by one; a failure frees those there are.    *)
AllocNode ==
  /\ phase = "alloc"
  /\ \/ \E n \in HidNodes \ nodes :
          /\ nodes' = nodes \cup {n}
          /\ hid_free_queue' = Append(hid_free_queue, n)
          /\ phase' = IF nodes' = HidNodes THEN "thread" ELSE "alloc"
     \/ nodes' = {} /\ hid_free_queue' = <<>> /\ phase' = "failed"
  /\ UNCHANGED <<ctx, hid_data_queue, report_node, node_request, active_sem, hid_thread_stop,
                 cb, proc, Traffic>>

(* The semaphore and the thread of hid_receiver_callback_init; then the    *)
(* first node is taken for the callback.                                   *)
StartThread ==
  /\ phase = "thread"
  /\ \/ /\ ToProc("wait", NoHidNode)
        /\ report_node' = First(hid_free_queue) /\ hid_free_queue' = Rest(hid_free_queue)
        /\ phase' = "attach" /\ UNCHANGED nodes
     \/ /\ nodes' = {} /\ hid_free_queue' = <<>> /\ phase' = "failed"
        /\ UNCHANGED <<report_node, proc>>
  /\ UNCHANGED <<ctx, hid_data_queue, node_request, active_sem, hid_thread_stop, cb, Traffic>>

(* device_hid_register_callback: when it fails all is taken down again.    *)
AttachCallback ==
  /\ phase = "attach"
  /\ phase' \in {"on", "down"}
  /\ UNCHANGED <<ctx, nodes, Queues, report_node, node_request, active_sem, hid_thread_stop,
                 cb, proc, Traffic>>

-----------------------------------------------------------------------------
(* hid_event_callback_routine.                                             *)

(* Without a node the thread is woken and the report is lost; a report of  *)
(* another length is refused; another is copied into the node.             *)
CbReport ==
  /\ phase = "on" /\ cb.pc = "idle" /\ hid_arrived < MaxReports
  /\ hid_arrived' = hid_arrived + 1
  /\ IF report_node = NoHidNode
       THEN active_sem' = active_sem + 1 /\ UNCHANGED <<cb, report>>
       ELSE /\ UNCHANGED active_sem
            /\ \/ UNCHANGED <<cb, report>>
               \/ ToCb("queue", NoHidNode) /\ report' = [report EXCEPT ![report_node] = hid_arrived']
  /\ UNCHANGED <<ctx, phase, nodes, Queues, report_node, node_request, hid_thread_stop, proc, hid_sent>>

(* The node goes to the end of the queue, and as if to its front.          *)
QueuedFirst(q, n) == <<n>> \o q
Queued(q, n) == Append(q, n)

CbQueue ==
  /\ cb.pc = "queue"
  /\ hid_data_queue' = Queued(hid_data_queue, report_node)
  /\ ToCb("take", NoHidNode)
  /\ UNCHANGED <<ctx, phase, nodes, hid_free_queue, report_node, node_request, active_sem,
                 hid_thread_stop, proc, Traffic>>

CbTake ==
  /\ cb.pc = "take"
  /\ hid_free_queue' = Rest(hid_free_queue)
  /\ ToCb(IF hid_free_queue = <<>> THEN "request" ELSE "keep", First(hid_free_queue))
  /\ UNCHANGED <<ctx, phase, nodes, hid_data_queue, report_node, node_request, active_sem,
                 hid_thread_stop, proc, Traffic>>

CbRequest ==
  /\ cb.pc = "request"
  /\ node_request' = TRUE
  /\ ToCb("keep", NoHidNode)
  /\ UNCHANGED <<ctx, phase, nodes, Queues, report_node, active_sem, hid_thread_stop, proc, Traffic>>

CbKeep ==
  /\ cb.pc = "keep"
  /\ report_node' = cb.node
  /\ ToCb("post", NoHidNode)
  /\ UNCHANGED <<ctx, phase, nodes, Queues, node_request, active_sem, hid_thread_stop, proc, Traffic>>

(* sem_post, and as if it were left out.                                   *)
NotPosted(sem) == sem
SemPost(sem) == sem + 1

CbPost ==
  /\ cb.pc = "post"
  /\ active_sem' = SemPost(active_sem)
  /\ ToCb("idle", NoHidNode)
  /\ UNCHANGED <<ctx, phase, nodes, Queues, report_node, node_request, hid_thread_stop, proc, Traffic>>

CbNext == CbReport \/ CbQueue \/ CbTake \/ CbRequest \/ CbKeep \/ CbPost

-----------------------------------------------------------------------------
(* report_proc_thread.                                                     *)

ProcRuns(pc) == proc.pc = pc /\ (ctx = "interrupt" => cb.pc = "idle")

ProcWake ==
  /\ ProcRuns("wait") /\ active_sem > 0
  /\ active_sem' = active_sem - 1
  /\ IF hid_thread_stop
       THEN ToProc("ended", NoHidNode) /\ UNCHANGED hid_data_queue
       ELSE /\ hid_data_queue' = Rest(hid_data_queue)
            /\ ToProc(IF hid_data_queue = <<>> THEN "look" ELSE "send", First(hid_data_queue))
  /\ UNCHANGED <<ctx, phase, nodes, hid_free_queue, report_node, node_request, hid_thread_stop, cb, Traffic>>

(* gb_operation_send_request, whose failure is only logged.                *)
ProcSend ==
  /\ ProcRuns("send")
  /\ hid_sent' \in {hid_sent, Append(hid_sent, report[proc.node])}
  /\ ToProc("give", proc.node)
  /\ UNCHANGED <<ctx, phase, nodes, Queues, report_node, node_request, active_sem,
                 hid_thread_stop, cb, report, hid_arrived>>

ProcGive ==
  /\ ProcRuns("give")
  /\ hid_free_queue' = Append(hid_free_queue, proc.node)
  /\ ToProc("look", NoHidNode)
  /\ UNCHANGED <<ctx, phase, nodes, hid_data_queue, report_node, node_request, active_sem,
                 hid_thread_stop, cb, Traffic>>

ProcLook ==
  /\ ProcRuns("look")
  /\ IF node_request
       THEN ToProc("hand", First(hid_free_queue)) /\ hid_free_queue' = Rest(hid_free_queue)
       ELSE ToProc("wait", NoHidNode) /\ UNCHANGED hid_free_queue
  /\ UNCHANGED <<ctx, phase, nodes, hid_data_queue, report_node, node_request, active_sem,
                 hid_thread_stop, cb, Traffic>>

ProcHand ==
  /\ ProcRuns("hand")
  /\ report_node' = proc.node
  /\ ToProc("clear", NoHidNode)
  /\ UNCHANGED <<ctx, phase, nodes, Queues, node_request, active_sem, hid_thread_stop, cb, Traffic>>

ProcClear ==
  /\ ProcRuns("clear")
  /\ node_request' = FALSE
  /\ ToProc("wait", NoHidNode)
  /\ UNCHANGED <<ctx, phase, nodes, Queues, report_node, active_sem, hid_thread_stop, cb, Traffic>>

ProcNext == ProcWake \/ ProcSend \/ ProcGive \/ ProcLook \/ ProcHand \/ ProcClear

-----------------------------------------------------------------------------
(* gb_hid_exit: no callback comes any more; the thread is told to stop ... *)
Detached ==
  /\ phase = "on" /\ cb.pc = "idle"
  /\ phase' = "down"
  /\ UNCHANGED <<ctx, nodes, Queues, report_node, node_request, active_sem, hid_thread_stop,
                 cb, proc, Traffic>>

StopThread ==
  /\ phase = "down"
  /\ hid_thread_stop' = TRUE /\ active_sem' = active_sem + 1
  /\ phase' = "join"
  /\ UNCHANGED <<ctx, nodes, Queues, report_node, node_request, cb, proc, Traffic>>

(* ... joined, and the nodes in the two queues are freed, and as if only   *)
(* those in the free queue were.                                           *)
OfFreeQueue == OfQueue(hid_free_queue)
OfQueues == OfQueue(hid_free_queue) \cup OfQueue(hid_data_queue)

FreeQueues ==
  /\ phase = "join" /\ proc.pc = "ended"
  /\ nodes' = nodes \ OfQueues
  /\ hid_free_queue' = <<>> /\ hid_data_queue' = <<>>
  /\ phase' = "gone"
  /\ UNCHANGED <<ctx, report_node, node_request, active_sem, hid_thread_stop, cb, proc, Traffic>>

(* The callback is under way while the thread is at its look for a wanted  *)
(* node.                                                                   *)
Crossing == cb.pc # "idle" /\ proc.pc \in {"look", "hand", "clear"}

HidNext ==
  /\ \/ AllocNode \/ StartThread \/ AttachCallback
     \/ CbNext \/ ProcNext
     \/ Detached \/ StopThread \/ FreeQueues
  /\ crossed' = (crossed \/ Crossing')

HidSpec == HidInit /\ [][HidNext]_hidVars

-----------------------------------------------------------------------------
(* Type correctness: what is queued is allocated.                          *)
HidTypeOK ==
  /\ nodes \subseteq HidNodes
  /\ OfQueue(hid_free_queue) \cup OfQueue(hid_data_queue) \subseteq nodes
  /\ report_node \in HidNodes \cup {NoHidNode}
  /\ active_sem \in Nat

(* Reports leave in the order the device gave them, each at most once,     *)
(* wherever the callback runs (hid.c:443-458, 487-492).                    *)
ReportsInOrder == \A i, j \in DOMAIN hid_sent : i < j => hid_sent[i] < hid_sent[j]

(* While the thread waits and no callback runs, what is queued will wake   *)
(* the thread; and when the callback has no node, the thread knows that it *)
(* wants one, unless the two crossed: the thread answers a want it reads,  *)
(* perhaps with the null pointer of an empty queue, and clears the flag a  *)
(* callback has just set, and then no report is taken ever after           *)
(* (hid.c:433-458, 481-498).                                               *)
WantsAreHeard ==
  phase = "on" /\ cb.pc = "idle" /\ proc.pc = "wait" =>
    /\ (hid_data_queue # <<>> => active_sem > 0)
    /\ (report_node = NoHidNode => node_request \/ crossed)

(* What the exit does not free is the one node the callback had at hand:   *)
(* it is in neither queue, and nobody frees report_node (hid.c:624-636,    *)
(* 707-726).  The state stays of its type.                                 *)
OnlyReportNodeLeaks ==
  /\ HidTypeOK
  /\ phase \in {"failed", "gone"} => crossed \/ nodes \subseteq {report_node}
=============================================================================
