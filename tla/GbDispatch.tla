----------------------------- MODULE GbDispatch -----------------------------
(***************************************************************************)
(* The receive path and the driver lifecycle of greybus-core.c.            *)
(*                                                                         *)
(* A thread of the transport calls greybus_rx_handler, which queues the    *)
(* message on the cport's rx_fifo and posts its semaphore.  The cport's    *)
(* worker thread (gb_pending_message_worker) waits on the semaphore and    *)
(* processes the messages.  The application boots the library, and         *)
(* registers and unregisters the driver of each cport.  None of them       *)
(* holds a lock while it reads g_cport[cport].driver, so every read of it  *)
(* is a step of its own.                                                   *)
(***************************************************************************)
EXTENDS Integers, Sequences

CONSTANTS
  CPorts,       (* the connection ports of the manifest                    *)
  RxThreads,    (* the threads that call greybus_rx_handler                *)
  MaxMsgs,      (* bound: messages the peer sends                          *)
  MaxRegister,  (* bound: calls of _gb_register_driver                     *)
  MaxUnregister (* bound: calls of gb_unregister_driver                    *)

ASSUME BoundsAssumption ==
  /\ MaxMsgs \in Nat
  /\ MaxRegister \in Nat
  /\ MaxUnregister \in Nat

VARIABLES
  cports,       (* the g_cport table: "unset", "counted" (cport_count is   *)
                (* set, g_cport still NULL), "ready" or "freed"            *)
  driver,       (* g_cport[c].driver # NULL                                *)
  inited,       (* driver->init has run on c, and driver->exit has not     *)
  exit_worker,  (* g_cport[c].exit_worker                                  *)
  rx_fifo,      (* g_cport[c].rx_fifo                                      *)
  rx_sem,       (* the count of g_cport[c].rx_fifo_lock                    *)
  worker,       (* where the worker thread of c is                         *)
  current,      (* the operation the worker of c holds, or <<>>            *)
  rx,           (* where each transport thread is in greybus_rx_handler    *)
  call,         (* where the application is in its call on c               *)
  accepted,     (* ghost: how many messages were queued on c               *)
  handled,      (* ghost: how many messages the workers of c have finished *)
  due,          (* ghost: accepted[c] when gb_unregister_driver(c) began    *)
  budget,       (* ghost: what is left of the three bounds                 *)
  fault         (* "none", or the invalid access that stopped the system   *)

vars == <<cports, driver, inited, exit_worker, rx_fifo, rx_sem, worker,
          current, rx, call, accepted, handled, due, budget, fault>>

workerVars == <<rx_fifo, rx_sem, worker, current, handled>>
lifeVars == <<cports, driver, inited, exit_worker, call>>

(***************************************************************************)
(* What the receive path distinguishes in a message: the ping, a response, *)
(* a request with a handler, with a fast handler, or with neither.         *)
(***************************************************************************)
Kinds == {"ping", "response", "request", "fast", "unknown"}

Messages == [seq : Nat \ {0}, kind : Kinds]

RxIdle == [pc |-> "idle"]

(* The thread is inside greybus_rx_handler(c, ...) with a k message.       *)
RxAt(pc, c, k) == [pc |-> pc, cport |-> c, kind |-> k]

RxStates == {RxIdle}
  \cup [pc : {"lookup", "fast", "create", "append"}, cport : CPorts, kind : Kinds]

Calls == {"none", "start", "publish", "post", "join", "exit", "clear"}

Budgets == [msgs : 0..MaxMsgs, reg : 0..MaxRegister, unreg : 0..MaxUnregister]

Init ==
  /\ cports = "unset"
  /\ driver = [c \in CPorts |-> FALSE]
  /\ inited = [c \in CPorts |-> FALSE]
  /\ exit_worker = [c \in CPorts |-> FALSE]
  /\ rx_fifo = [c \in CPorts |-> <<>>]
  /\ rx_sem = [c \in CPorts |-> 0]
  /\ worker = [c \in CPorts |-> "none"]
  /\ current = [c \in CPorts |-> <<>>]
  /\ rx = [t \in RxThreads |-> RxIdle]
  /\ call = [c \in CPorts |-> "none"]
  /\ accepted = [c \in CPorts |-> 0]
  /\ handled = [c \in CPorts |-> 0]
  /\ due = [c \in CPorts |-> 0]
  /\ budget = [msgs |-> MaxMsgs, reg |-> MaxRegister, unreg |-> MaxUnregister]
  /\ fault = "none"

(* An access to memory that is not there: the system stops.                *)
Crash(what) ==
  /\ fault' = what
  /\ UNCHANGED <<lifeVars, workerVars, rx, accepted, due, budget>>

(* The table cannot be used: g_cport is NULL, or has been freed.           *)
NoTable == cports \in {"counted", "freed"}

(* sem_post(&g_cport[c].rx_fifo_lock), and as if the semaphore were binary. *)
PostBinary(c) == rx_sem' = [rx_sem EXCEPT ![c] = 1]
Post(c) == rx_sem' = [rx_sem EXCEPT ![c] = @ + 1]

(* sem_wait can return, and as if it returned at once.                     *)
TokenAlways(c) == TRUE
Token(c) == rx_sem[c] > 0

(* sys_dlist_append, and as if it were sys_dlist_prepend.                  *)
Prepend(q, m) == <<m>> \o q
Enqueue(q, m) == Append(q, m)

(* What the worker leaves on, and as if it did not look at the queue, or   *)
(* looked at it the wrong way round.                                       *)
ExitFlag(c) == exit_worker[c]
ExitInverted(c) == exit_worker[c] /\ rx_fifo[c] # <<>>
ExitNow(c) == exit_worker[c] /\ rx_fifo[c] = <<>>

(* The check of driver in greybus_rx_handler, and as if it were left out.  *)
AnyCPort(c) == TRUE
HasDriver(c) == driver[c]

-----------------------------------------------------------------------------
(* greybus_rx_handler, in a transport thread.                              *)

(* The cport number is checked against cport_count and driver against NULL. *)
RxCheck(t, c, k) ==
  /\ rx[t] = RxIdle
  /\ budget.msgs > 0
  /\ cports = "ready"
  /\ budget' = [budget EXCEPT !.msgs = @ - 1]
  /\ rx' = IF HasDriver(c) THEN [rx EXCEPT ![t] = RxAt("lookup", c, k)] ELSE rx
  /\ UNCHANGED <<lifeVars, workerVars, accepted, due, fault>>

(* The message is refused: cport_count is still 0, or the header is garbage. *)
RxReject(t) ==
  /\ rx[t] = RxIdle
  /\ budget.msgs > 0
  /\ cports \in {"unset", "ready"}
  /\ budget' = [budget EXCEPT !.msgs = @ - 1]
  /\ UNCHANGED <<lifeVars, workerVars, rx, accepted, due, fault>>

(* cport_count is set but g_cport is NULL or freed: the check of driver     *)
(* reads through it.                                                       *)
RxCheckNoTable(t) ==
  /\ rx[t] = RxIdle
  /\ budget.msgs > 0
  /\ NoTable
  /\ Crash("g_cport")

(* find_operation_handler reads driver a second time.                      *)
RxLookup(t) ==
  /\ rx[t].pc = "lookup"
  /\ cports = "ready"
  /\ driver[rx[t].cport]
  /\ rx' = [rx EXCEPT ![t] = RxAt(IF rx[t].kind = "fast" THEN "fast" ELSE "create",
                                  rx[t].cport, rx[t].kind)]
  /\ UNCHANGED <<lifeVars, workerVars, accepted, due, budget, fault>>

RxLookupNull(t) ==
  /\ rx[t].pc = "lookup"
  /\ cports = "ready"
  /\ ~driver[rx[t].cport]
  /\ Crash("driver")

(* op_handler->fast_handler(cport, data) returns.                          *)
RxFastHandler(t) ==
  /\ rx[t].pc = "fast"
  /\ rx' = [rx EXCEPT ![t] = RxIdle]
  /\ UNCHANGED <<lifeVars, workerVars, accepted, due, budget, fault>>

(* gb_rx_create_operation: succeeds, or returns NULL and the message is    *)
(* dropped with -ENOMEM.                                                   *)
RxCreate(t) ==
  /\ rx[t].pc = "create"
  /\ cports = "ready"
  /\ \/ rx' = [rx EXCEPT ![t] = RxAt("append", rx[t].cport, rx[t].kind)]
     \/ rx' = [rx EXCEPT ![t] = RxIdle]
  /\ UNCHANGED <<lifeVars, workerVars, accepted, due, budget, fault>>

(* Under irq_lock the operation is appended and the semaphore posted.      *)
RxAppend(t) ==
  /\ rx[t].pc = "append"
  /\ cports = "ready"
  /\ LET c == rx[t].cport
     IN  /\ accepted' = [accepted EXCEPT ![c] = @ + 1]
         /\ rx_fifo' = [rx_fifo EXCEPT
               ![c] = Enqueue(@, [seq |-> accepted[c] + 1, kind |-> rx[t].kind])]
         /\ Post(c)
  /\ rx' = [rx EXCEPT ![t] = RxIdle]
  /\ UNCHANGED <<lifeVars, worker, current, handled, due, budget, fault>>

(* gb_deinit freed the table while the thread was inside the handler.      *)
RxFreedTable(t) ==
  /\ rx[t].pc \in {"lookup", "create", "append"}
  /\ cports = "freed"
  /\ Crash("g_cport")

-----------------------------------------------------------------------------
(* gb_pending_message_worker, the worker thread of cport c.                *)

(* sem_wait returns: the worker consumes one token.                        *)
WorkerWait(c) ==
  /\ worker[c] = "wait"
  /\ Token(c)
  /\ rx_sem' = [rx_sem EXCEPT ![c] = @ - 1]
  /\ worker' = [worker EXCEPT ![c] = "woken"]
  /\ UNCHANGED <<lifeVars, rx_fifo, current, handled, rx, accepted, due, budget, fault>>

(* The worker reads exit_worker and rx_fifo without a lock: it returns when *)
(* it is told to and nothing is queued.                                    *)
WorkerCheck(c) ==
  /\ worker[c] = "woken"
  /\ worker' = [worker EXCEPT ![c] =
                  IF ExitNow(c) THEN "exited" ELSE "get"]
  /\ UNCHANGED <<lifeVars, rx_fifo, rx_sem, current, handled, rx, accepted,
                 due, budget, fault>>

(* sys_dlist_get takes the head of the queue, or returns NULL, which the   *)
(* worker uses as an operation.                                            *)
WorkerGet(c) ==
  /\ worker[c] = "get"
  /\ IF rx_fifo[c] = <<>>
       THEN Crash("rx_fifo")
       ELSE /\ current' = [current EXCEPT ![c] = <<Head(rx_fifo[c])>>]
            /\ rx_fifo' = [rx_fifo EXCEPT ![c] = Tail(@)]
            /\ worker' = [worker EXCEPT ![c] = "dispatch"]
            /\ UNCHANGED <<lifeVars, rx_sem, handled, rx, accepted, due, budget, fault>>

(* gb_operation_destroy ends the iteration for the message in hand.        *)
Finish(c) ==
  /\ current' = [current EXCEPT ![c] = <<>>]
  /\ handled' = [handled EXCEPT ![c] = @ + 1]
  /\ worker' = [worker EXCEPT ![c] = "wait"]

(* A ping is answered and a response passed to gb_process_response without *)
(* a look at the driver.                                                   *)
WorkerPingOrResponse(c) ==
  /\ worker[c] = "dispatch"
  /\ current[c][1].kind \in {"ping", "response"}
  /\ Finish(c)
  /\ UNCHANGED <<lifeVars, rx_fifo, rx_sem, rx, accepted, due, budget, fault>>

(* gb_process_request looks the handler up in the driver: it is there, ... *)
WorkerLookup(c) ==
  /\ worker[c] = "dispatch"
  /\ current[c][1].kind = "request"
  /\ driver[c]
  /\ worker' = [worker EXCEPT ![c] = "handler"]
  /\ UNCHANGED <<lifeVars, rx_fifo, rx_sem, current, handled, rx, accepted,
                 due, budget, fault>>

(* ... or the request is answered with GB_OP_INVALID.                      *)
WorkerNoHandler(c) ==
  /\ worker[c] = "dispatch"
  /\ current[c][1].kind = "unknown"
  /\ driver[c]
  /\ Finish(c)
  /\ UNCHANGED <<lifeVars, rx_fifo, rx_sem, rx, accepted, due, budget, fault>>

WorkerLookupNull(c) ==
  /\ worker[c] = "dispatch"
  /\ current[c][1].kind \in {"request", "unknown"}
  /\ ~driver[c]
  /\ Crash("driver")

(* The driver's handler returns and its result is sent.                    *)
WorkerHandler(c) ==
  /\ worker[c] = "handler"
  /\ Finish(c)
  /\ UNCHANGED <<lifeVars, rx_fifo, rx_sem, rx, accepted, due, budget, fault>>

-----------------------------------------------------------------------------
(* The application: gb_init, then calls of _gb_register_driver and          *)
(* gb_unregister_driver, at most one at a time on a cport, and gb_deinit.  *)

(* gb_init assigns cport_count, then allocates g_cport.  The transport's   *)
(* threads run since gb_transport_backend_init.                            *)
InitCount ==
  /\ cports = "unset"
  /\ cports' = "counted"
  /\ UNCHANGED <<driver, inited, exit_worker, call, workerVars, rx, accepted,
                 due, budget, fault>>

InitAlloc ==
  /\ cports = "counted"
  /\ cports' = "ready"
  /\ UNCHANGED <<driver, inited, exit_worker, call, workerVars, rx, accepted,
                 due, budget, fault>>

(* The call on c goes from one of its steps to the next.                   *)
Call(c, from, to) ==
  /\ cports = "ready"
  /\ call[c] = from
  /\ call' = [call EXCEPT ![c] = to]

(* The checks pass and driver->init succeeds.                              *)
RegisterInit(c) ==
  /\ Call(c, "none", "start")
  /\ budget.reg > 0
  /\ ~driver[c]
  /\ inited' = [inited EXCEPT ![c] = TRUE]
  /\ budget' = [budget EXCEPT !.reg = @ - 1]
  /\ UNCHANGED <<cports, driver, exit_worker, workerVars, rx, accepted, due, fault>>

(* exit_worker is cleared and the worker thread created ...                *)
RegisterStart(c) ==
  /\ Call(c, "start", "publish")
  /\ exit_worker' = [exit_worker EXCEPT ![c] = FALSE]
  /\ worker' = [worker EXCEPT ![c] = "wait"]
  /\ UNCHANGED <<cports, driver, inited, rx_fifo, rx_sem, current, handled,
                 rx, accepted, due, budget, fault>>

(* ... or pthread_create fails and driver->exit undoes driver->init.       *)
RegisterStartFails(c) ==
  /\ Call(c, "start", "none")
  /\ exit_worker' = [exit_worker EXCEPT ![c] = FALSE]
  /\ inited' = [inited EXCEPT ![c] = FALSE]
  /\ UNCHANGED <<cports, driver, workerVars, rx, accepted, due, budget, fault>>

(* The driver is stored last, after the worker is running.                 *)
RegisterPublish(c) ==
  /\ Call(c, "publish", "none")
  /\ driver' = [driver EXCEPT ![c] = TRUE]
  /\ UNCHANGED <<cports, inited, exit_worker, workerVars, rx, accepted, due, budget, fault>>

UnregisterFlag(c) ==
  /\ Call(c, "none", "post")
  /\ budget.unreg > 0
  /\ driver[c]
  /\ exit_worker' = [exit_worker EXCEPT ![c] = TRUE]
  /\ budget' = [budget EXCEPT !.unreg = @ - 1]
  /\ due' = [due EXCEPT ![c] = accepted[c]]
  /\ UNCHANGED <<cports, driver, inited, workerVars, rx, accepted, fault>>

PostThen(c, to) ==
  /\ Call(c, "post", to)
  /\ Post(c)
  /\ UNCHANGED <<cports, driver, inited, exit_worker, rx_fifo, worker, current,
                 handled, rx, accepted, due, budget, fault>>

(* The exit token is posted, and as if the worker were not joined after.   *)
UnregisterPostNoJoin(c) == PostThen(c, "exit")
UnregisterPost(c) == PostThen(c, "join")

(* pthread_join returns once the worker has.                               *)
UnregisterJoin(c) ==
  /\ worker[c] = "exited"
  /\ Call(c, "join", "exit")
  /\ worker' = [worker EXCEPT ![c] = "none"]
  /\ UNCHANGED <<cports, driver, inited, exit_worker, rx_fifo, rx_sem, current,
                 handled, rx, accepted, due, budget, fault>>

(* The tx_fifo is flushed and driver->exit called.                         *)
UnregisterExit(c) ==
  /\ Call(c, "exit", "clear")
  /\ inited' = [inited EXCEPT ![c] = FALSE]
  /\ UNCHANGED <<cports, driver, exit_worker, workerVars, rx, accepted, due, budget, fault>>

UnregisterClear(c) ==
  /\ Call(c, "clear", "none")
  /\ driver' = [driver EXCEPT ![c] = FALSE]
  /\ UNCHANGED <<cports, inited, exit_worker, workerVars, rx, accepted, due, budget, fault>>

(* gb_deinit has unregistered every driver and frees the table; cport_count *)
(* keeps its value.                                                        *)
Deinit ==
  /\ cports = "ready"
  /\ budget.unreg > 0
  /\ \A c \in CPorts : call[c] = "none" /\ ~driver[c]
  /\ cports' = "freed"
  /\ budget' = [budget EXCEPT !.unreg = 0]
  /\ UNCHANGED <<driver, inited, exit_worker, call, workerVars, rx, accepted, due, fault>>

-----------------------------------------------------------------------------
RxThread(t) ==
  \/ \E c \in CPorts, k \in Kinds : RxCheck(t, c, k)
  \/ RxReject(t) \/ RxCheckNoTable(t)
  \/ RxLookup(t) \/ RxLookupNull(t) \/ RxFastHandler(t)
  \/ RxCreate(t) \/ RxAppend(t) \/ RxFreedTable(t)

Worker(c) ==
  \/ WorkerWait(c) \/ WorkerCheck(c) \/ WorkerGet(c)
  \/ WorkerPingOrResponse(c) \/ WorkerLookup(c) \/ WorkerNoHandler(c)
  \/ WorkerLookupNull(c)  \/ WorkerHandler(c)

Register(c) ==
  \/ RegisterInit(c) \/ RegisterStart(c) \/ RegisterStartFails(c)
  \/ RegisterPublish(c)

Unregister(c) ==
  \/ UnregisterFlag(c) \/ UnregisterPost(c) \/ UnregisterJoin(c)
  \/ UnregisterExit(c) \/ UnregisterClear(c)

Next ==
  /\ fault = "none"
  /\ \/ \E t \in RxThreads : RxThread(t)
     \/ \E c \in CPorts : Worker(c)
     \/ \E c \in CPorts : Register(c) \/ Unregister(c)
     \/ InitCount \/ InitAlloc \/ Deinit

Spec == Init /\ [][Next]_vars

(* The scheduler runs every thread that can run, and a driver's handler    *)
(* returns.  Nothing makes the peer send or the application call.          *)
RxInside(t) ==
  /\ fault = "none"
  /\ RxLookup(t) \/ RxLookupNull(t) \/ RxFastHandler(t) \/ RxCreate(t)
     \/ RxAppend(t) \/ RxFreedTable(t)

CallInside(c) ==
  /\ fault = "none"
  /\ RegisterStart(c) \/ RegisterStartFails(c) \/ RegisterPublish(c)
     \/ UnregisterPost(c) \/ UnregisterJoin(c) \/ UnregisterExit(c)
     \/ UnregisterClear(c)

Fairness ==
  /\ \A t \in RxThreads : WF_vars(RxInside(t))
  /\ \A c \in CPorts : WF_vars(fault = "none" /\ Worker(c)) /\ WF_vars(CallInside(c))

FairSpec == Spec /\ Fairness

-----------------------------------------------------------------------------
(* Type correctness.                                                       *)
TypeOK ==
  /\ cports \in {"unset", "counted", "ready", "freed"}
  /\ driver \in [CPorts -> BOOLEAN]
  /\ inited \in [CPorts -> BOOLEAN]
  /\ exit_worker \in [CPorts -> BOOLEAN]
  /\ rx_fifo \in [CPorts -> Seq(Messages)]
  /\ rx_sem \in [CPorts -> Nat]
  /\ worker \in [CPorts ->
                 {"none", "wait", "woken", "get", "dispatch", "handler", "exited"}]
  /\ current \in [CPorts -> Seq(Messages)]
  /\ rx \in [RxThreads -> RxStates]
  /\ call \in [CPorts -> Calls]
  /\ accepted \in [CPorts -> Nat]
  /\ handled \in [CPorts -> Nat]
  /\ due \in [CPorts -> Nat]
  /\ budget \in Budgets
  /\ fault \in {"none", "g_cport", "driver", "rx_fifo"}

(* The worker holds a token of the semaphore that it has not yet matched   *)
(* with a message or with its exit (greybus-core.c:388-401).               *)
HeldToken(c) == IF worker[c] \in {"woken", "get"} THEN 1 ELSE 0

(* The token gb_unregister_driver posts and only the worker's exit consumes. *)
ExitToken(c) ==
  IF call[c] = "join" /\ worker[c] # "exited" THEN 1 ELSE 0

(* The semaphore counts the queue: one token per queued message and one    *)
(* for the exit, whatever the order of appends, wake-ups and unregistration *)
(* (sem_post at 510 and 539, sem_wait at 388).                             *)
TokensMatchQueue ==
  \A c \in CPorts :
    rx_sem[c] + HeldToken(c) = Len(rx_fifo[c]) + ExitToken(c)

(* The worker never takes the head of an empty rx_fifo, which it would     *)
(* dereference as an operation (greybus-core.c:397-402).                   *)
DequeueNeverEmpty == fault # "rx_fifo"

(* The messages of s are the ones accepted after the n-th, without a gap.  *)
Consecutive(s, n) == \A i \in 1..Len(s) : s[i].seq = n + i

(* Every message accepted on a cport is finished exactly once and in the   *)
(* order of acceptance, also when its driver is unregistered and another   *)
(* one registered in between: what is finished, in hand and queued are     *)
(* consecutive (greybus-core.c:397-414, 508-511).                          *)
InOrder ==
  \A c \in CPorts :
    /\ accepted[c] = handled[c] + Len(current[c]) + Len(rx_fifo[c])
    /\ Consecutive(current[c], handled[c])
    /\ Consecutive(rx_fifo[c], handled[c] + Len(current[c]))

(* gb_unregister_driver calls driver->exit only when every message         *)
(* accepted before the call has been finished (greybus-core.c:538-546).    *)
DrainedBeforeExit ==
  \A c \in CPorts : call[c] \in {"exit", "clear"} => handled[c] >= due[c]

(* A driver's handler runs only between its init and its exit              *)
(* (greybus-core.c:266, 544, 614).                                         *)
HandlerWhileInited ==
  \A c \in CPorts : worker[c] = "handler" => inited[c]

(* Without an unregistration no thread ever reads a NULL driver: the check *)
(* at 465 stays true until the lookup at 218, and the worker finds nothing *)
(* queued before the driver is stored at 638.                              *)
NullDriverNeedsUnregister ==
  fault = "driver" => budget.unreg < MaxUnregister

(* What the proofs of these invariants rest on: how the application's      *)
(* place in its call fixes the worker, the driver and exit_worker of a cport.    *)
HasWorker(c) ==
  /\ driver[c] \/ call[c] = "publish"
  /\ call[c] \notin {"exit", "clear"}

LifeInv ==
  \A c \in CPorts :
    /\ worker[c] # "none" <=> HasWorker(c)
    /\ inited[c] <=>
         /\ driver[c] \/ call[c] \in {"start", "publish"}
         /\ call[c] # "clear"
    /\ call[c] \in {"post", "join", "exit", "clear"} => driver[c]
    /\ call[c] \in {"start", "publish"} => ~driver[c]
    /\ HasWorker(c) => (exit_worker[c] <=> call[c] \in {"post", "join"})

WorkerInv ==
  \A c \in CPorts :
    /\ Len(current[c]) = IF worker[c] \in {"dispatch", "handler"} THEN 1 ELSE 0
    /\ worker[c] = "get" => rx_fifo[c] # <<>>
    /\ worker[c] = "exited" => call[c] = "join"

DrainInv ==
  \A c \in CPorts :
    /\ due[c] <= accepted[c]
    /\ \/ worker[c] = "exited"
       \/ call[c] \in {"exit", "clear"}
       => handled[c] >= due[c]

(* A call of gb_unregister_driver returns, since the worker drains its     *)
(* queue and leaves (greybus-core.c:538-550), the peer's messages being    *)
(* finite here.                                                            *)
UnregisterReturns ==
  \A c \in CPorts :
    call[c] \in {"post", "join", "exit", "clear"}
      ~> (call[c] = "none" \/ fault # "none")
=============================================================================
