# Greybus for Zephyr in TLA+

This directory specifies the concurrent core of the Greybus implementation in
this repository and checks it: TLC explores small instances, TLAPS proves the
results that do not depend on the size of the instance.  Source lines are given
as `file:line` under `src/subsys/greybus/`.

## 1. The system

A Greybus node offers *bundles* (an I2C bus, a UART, ...), each reached through
one or more *cports*.  A remote host sends requests to a cport and gets one
response to each; a node may send requests too.

| part | state | operations | works with |
|---|---|---|---|
| core, receive path and driver lifecycle (`greybus-core.c`) | per cport: `driver`, `rx_fifo`, its semaphore `rx_fifo_lock`, `exit_worker`, a worker thread; `cport_count`, `g_cport` | `greybus_rx_handler`, `gb_pending_message_worker`, `_gb_register_driver`, `gb_unregister_driver`, `gb_init`, `gb_deinit` | called by the transport's threads and by the application; calls the drivers' handlers |
| core, operations and requests (`greybus-core.c`) | operations and their reference counts, per cport `tx_fifo`, the counter `request_id` | `gb_operation_create`, `_ref`, `_unref`, `_send_request`, `_send_request_sync`, `gb_process_response`, `gb_flush_tx_fifo` | called by drivers' threads; the worker completes them |
| core, watchdog (`greybus-core.c`, `greybus-stubs.c`) | `timeout_wd`, `timedout_operation` | `gb_watchdog_update`, `gb_operation_timeout`, `gb_clean_timedout_operation` | the `wd_*` functions it is built on do nothing in this build |
| core, responses and handlers (`greybus-core.c`) | `has_responded`, `response_buffer`, the static `oom_hdr`, a driver's sorted handler table | `gb_operation_send_response`, `find_operation_handler` | called by workers |
| TCP/IP transport (`platform/transport-tcpip.c`) | a list of sockets, one per cport, a mutex, a service thread | accept, receive, send, listen, stop | delivers to `greybus_rx_handler` |
| multiplexing TCP/IP transport (`platform/transport-tcpip-multiplex.c`) | one client socket for all cports, a receive thread | accept, receive, send | the same |
| UART transport (`platform/transport-uart.c`) | a ring buffer, a work item | interrupt handler, work handler, send | the same |
| service and platform map (`platform/service.c`, `platform.c`, `manifest.c`) | tables from cport to device | boot order | starts the transport, then the core |
| manifest (`greybus-manifest.c`, `platform/bundle.c`, `interface.c`, `string.c`) | the manifest blob, the list of cports, the largest ids | parse, patch, number cports, `enable_cports` | read at registration and by the control driver |
| control protocol (`control-gpb.c`) | none of its own | connected, disconnected, manifest, bundle, interface and timesync requests | a driver of cport 0 |
| UART bridge driver (`uart.c`) | a pool of receive nodes, two queues, a thread and two semaphores | requests, device callbacks | the largest concurrent driver |
| HID driver (`hid.c`) | nodes in two queues, `report_node`, `node_request`, a thread and a semaphore | requests, a device callback | sends events from its thread |
| other class drivers (`gpio.c`, `pwm-protocol.c`, `lights.c`, `vibrator.c`, `i2c.c`, `spi.c`, `sdio.c`, `usb.c`, `power_supply.c`, `camera.c`) | a device and an info, in the bundle or in a static of the file; `num_pwms`, the camera's state | handlers of requests, init, exit, event callbacks | called by the core's workers; share a bundle |
| loopback driver (`loopback.c`) | a list of instances, statistics under a lock | answers requests, sends requests and measures them | uses the core's requests |
| audio driver (`audio.c`) | lists of codecs and DAIs | requests, device callbacks | its init always fails |
| tape (`greybus-tape-arm-semihosting.c`) | a file | record, replay | replay is a second caller of `greybus_rx_handler` |

What makes it hard:

* **Interleaving.**  The transport's threads, one worker per cport, drivers'
  threads and the application share `g_cport[]`.  `irq_lock` guards the list
  operations only; `driver`, `exit_worker` and the walks over `tx_fifo` are read
  without it, and a blocking call under `irq_lock` lets other threads run.
* **Lifecycle.**  A driver is stored after its worker runs (628, 638), and
  removed after the worker was joined (540, 547); messages arrive all the while.
* **Failure.**  A send fails after its request was queued, a response is lost
  or repeated, an allocation fails in the middle of a message.
* **Time.**  Nothing times out: the watchdog is an empty stub.
* **Sharing.**  Cports of one bundle share its `dev` and `priv`, workers share
  the header of the out-of-memory answer, and all cports of a protocol share one
  driver with its handler table.

What makes each part correct is stated in the sections on the modules below,
and the hazards the properties are aimed at are listed in `PROJECT.json`.

## 2. Modules

| module | models | proofs |
|---|---|---|
| `GbDispatch` | receive path, workers, registration, `gb_init`, `gb_deinit` | `GbDispatchProofs` |
| `Mailbox` | abstract specification: what a cport's receive queue promises | |
| `MCGbDispatch` | instance for TLC; `GbDispatch` refines `Mailbox` | |
| `GbOperation` | requests, their reference counts, ids, responses | `GbOperationProofs` |
| `MCGbOperation` | instance for TLC | |
| `MuxTransport` | the multiplexed connection: framing in both directions, reconnection | `MuxTransportProofs` |
| `TcpTransport` | a socket for each connection: contexts, descriptors, the service thread, senders | `TcpTransportProofs` |
| `UartTransport` | the serial line: interrupt handler, ring buffer, work item, senders | `UartTransportProofs` |
| `UartDriver` | the UART bridge driver: buffers, its two threads, callbacks, init and exit | `UartDriverProofs` |
| `Steps` | the vocabulary of the request handlers, and how an errno becomes a result | |
| `PinHandlers`, `BusHandlers`, `OtherHandlers` | every request handler of fourteen class drivers | `DriversProofs` |
| `Requests` | a worker that runs a handler against a device and an allocator that may fail, and answers | `DriversProofs` |
| `DriverLife` | init, use and exit of ten drivers on two cports of a bundle | `DriversProofs` |
| `HidEvents` | the input reports of the HID driver | `DriversProofs` |
| `Transfers` | what `spi.c` and `sdio.c` compute from a request | `DriversProofs` |
| `MCTransfers`, `MCDrivers` | instances for TLC; `MCDrivers` is all the class drivers in one run | |
| `Manifest` | parsing, numbering and patching of manifests, as operators | `ServiceProofs` |
| `Service` | the start of a node beside the first requests; the control protocol | `ServiceProofs` |
| `MCService` | manifests and fragments for TLC | |

The transports need no module of their own for TLC: their configurations
instantiate them directly.

Type invariants other than `GbDispatch`'s are the first conjunct of an invariant
of their module.

### GbDispatch

| code | TLA+ |
|---|---|
| `g_cport[c].driver`, `.exit_worker`, `.rx_fifo` | `driver[c]`, `exit_worker[c]`, `rx_fifo[c]` |
| `g_cport[c].rx_fifo_lock` | `rx_sem[c]` |
| `cport_count`, `g_cport` | `cports` |
| the program counter of a worker and the operation it holds | `worker[c]`, `current[c]` |
| the program counter of a thread in `greybus_rx_handler` | `rx[t]` |
| the call the application makes on a cport | `call[c]` |
| `greybus_rx_handler` | `RxCheck`, `RxReject`, `RxLookup`, `RxFastHandler`, `RxCreate`, `RxAppend` |
| `gb_pending_message_worker`, `gb_process_request` | `WorkerWait`, `WorkerCheck`, `WorkerGet`, `WorkerLookup`, `WorkerHandler`, ... |
| `_gb_register_driver` | `RegisterInit`, `RegisterStart`, `RegisterStartFails`, `RegisterPublish` |
| `gb_unregister_driver` | `UnregisterFlag`, `UnregisterPost`, `UnregisterJoin`, `UnregisterExit`, `UnregisterClear` |
| `gb_init`, `gb_deinit` | `InitCount`, `InitAlloc`, `Deinit` |

Each read of unlocked shared state is a step of its own.  An access through a
NULL or freed pointer is the action that sets `fault`, and stops the system.
Messages are a sequence number (ghost) and one of five kinds; sizes, bundles and
payloads are left out.  The application makes at most one call at a time on a
cport: nothing in the code serialises two registrations of the same cport, and
no caller in the repository makes them.  `gb_deinit` unregisters every driver;
these unregistrations are the same actions as the application's, and `Deinit`
is the step that frees the table after them.

`accepted`, `handled`, `due` and `budget` are ghosts.  Invariants: `TypeOK`;
`TokensMatchQueue`, the semaphore counts the queue plus the token of the
unregistration, from which follows that the worker never dereferences the NULL of
an empty list (`DequeueNeverEmpty`, proved); `InOrder`, messages are finished once and in order across
re-registrations; `DrainedBeforeExit` and `HandlerWhileInited`, a driver's exit
waits for its handlers and for everything accepted before; and
`NullDriverNeedsUnregister`, the unlocked second read of `driver` (218) finds
NULL only if a driver is unregistered.  Liveness: `UnregisterReturns`; that an
accepted message is handled is a part of `ImplementsMailbox`, the refinement of
`Mailbox`, whose fairness the implementation inherits.

With an unregistration the fault of `NullDriverNeedsUnregister` is reachable: a
thread past the check at 465 dereferences NULL at 221 once 547 has run.  A
message appended after the join but before 547 waits, and if its driver is
registered again before the worker looks it up (638) all is well, if not the
worker meets the NULL driver.  The property states the strongest promise the
code keeps.

### GbOperation

| code | TLA+ |
|---|---|
| `op->ref_count`, `op->response`, `op->sync_sem`, the memory of `op` | `ref_count`, `response`, `sync_sem`, `mem` |
| `hdr->id` | `Id(o)`, from `stamp` |
| a response operation and its count | `answers`, `resp_refs` |
| `request_id`, `tx_fifo`, `rx_fifo` | the same |
| `op` and `op_safe` of the two list walks | `worker.cur`, `worker.nxt`, `cursor` |
| `gb_operation_send_request` | `Refused`, `SendCheck`, `SendNumber`, `SendTransmit`, `SendFails`, `SendReturns` |
| `gb_operation_send_request_sync` | the same, then `SyncWakes` |
| `gb_process_response` | `WorkerGet`, `WorkerNext`, `WorkerMatch`, `WorkerCallback`, `WorkerUnref`, `WorkerDrop` |
| `gb_operation_destroy` | `SendDestroy`, `WorkerDestroy` |
| `gb_unregister_driver`, `gb_flush_tx_fifo` | `UnregisterFlag`, `UnregisterJoin`, `FlushOne`, `FlushDone` |

The transport's send may block while `irq_lock` is held, and then other threads
run; so `SendNumber` (773-787), the transmission and its outcome are separate
steps.  The peer answers requests in any order, twice, or never.  The worker is
the one of `GbDispatch`, reduced to its responses.  Operations are allocated
once, so that a use after free is a visible fault and not a hit on a new
operation.  Not modelled: requests without a response (they touch no shared
state of the core), and `gb_operation_send_request_nowait`.

`RefsAreHolders` says what every reference count is, of requests and of
responses: one for the creator, one for `tx_fifo` or for the worker that took
the request from there.  `WalksAreSafe`: as long as no send has failed, the
unlocked walks meet live, linked operations only, and no response is thrown
away although its request waits, unless it was taken for another of the same
id.  With a failed send the worker may hold the removed operation as its saved
next element (351, 794), and then follows a NULL or a freed node.
`CallbackOnce` relates callbacks and the waking of synchronous senders to
responses; `WrongAnswerNeedsWrap` says that a response reaches another request
only after the 16-bit ids went round.

### MuxTransport

| code | TLA+ |
|---|---|
| `ctx.client_sock`, the connection its descriptor refers to | `client_sock`, `open`, `peer` |
| the bytes of the two directions | `inflow`, `out`: sequences of words |
| the receive thread in `gb_message_receive` and `gb_trans_rx` | `rx` |
| a thread in `gb_trans_send` | `send[s]` |
| `gb_trans_accept`, `gb_trans_rx`, `read_data`, `gb_message_alloc` | `RxAccept`, `RxPoll`, `RxRead`, `RxAlloc`, `RxNoMemory`, `RxEof`, `RxClose`, `RxForget`, `RxError`, `RxDeliver` |
| `gb_trans_send`, `write_data` | `SendBegin`, `SendSock`, `SendCport`, `SendBody`, `SendFails` |

A word stands for a piece the program reads or writes at once; a word read
where another kind is expected may announce any length.  The set-up of the
listening socket is left out.  The lowest free descriptor is given to the next
connection, so a sender that read `client_sock` before a reconnection writes to
the new one.

`FramedUnlessDisturbed` names the only ways the outgoing framing is lost: sends
that overlap, a write that fails in the middle, a send that outlives its
connection.  `InboundInOrder` says the same of the incoming direction: an
allocation that fails leaves the payload in the stream (151-155), and from there
on what is delivered need not be a message.
`CloseIsNoticed` is liveness: a closed connection is given up.  After a *reset*
it is not (406-409): the thread polls the dead socket for ever.

### TcpTransport

| code | TLA+ |
|---|---|
| `fd_list`, `ctx->fd`, `ctx->cport`, the memory of a context | `fd_list`, `fd`, `cport`, `mem` |
| the socket a descriptor refers to | `file` |
| `fd_context_insert`, `_erase`, `_clear`, `_find` | in `Setup` and `SvcInsert`, `Erase`, `SvcClear`, `First` |
| `gb_transport_backend_init`, `netsetup` | `Setup`, `SetupFails`, `SetupDone` |
| `service_thread`, `prepare_pollfds` | `svc`: `SvcPrepare`, `SvcPoll`, `SvcLoop`, `SvcClear` |
| `accept_new_connection` | `SvcAccept`, `SvcInsert` |
| `handle_client_input`, `getMessage` | `SvcInput`, `SvcRecv`, `SvcRecvEnds`, `SvcDeliver`, `SvcClose` |
| `gb_xport_send`, `sendMessage` | `send[s]`: `SendFind`, `SendFd`, `SendWrite`, `SendFails`, `SendErase` |

A context is named by its socket, and created once, so that a use after free is
a visible fault.  A descriptor that was closed is given to the next connection,
as the lowest free one.  What `poll` was given is `svc.todo`, and what it found
readable is `svc.ready`, which the loop empties as it counts `revents` down.
`fd_list_mutex` guards single operations, which are
single steps; the argument of an erase (373, 634) is read in the same step.
A message arrives in two words, so that a peer can stop in the middle of one,
and is sent in one.  A call that fails spends the bound `MaxFail`: among them
`poll`, which ends the service thread (444), and `inet_ntop` of a connection just
accepted (329), after which `accept_new_connection` returns with its descriptor
open and no context; the ghost `nameless` keeps those connections.

Nothing protects the context a look-up returned.  `torn` is the ghost that
notes when one was erased in another thread's hands; `RoutedUnlessTorn` says
that messages go astray or broken and freed memory is read in that case only, although descriptors are closed and given out again all
the time.  It is reachable: a sender whose write fails erases the context the
service thread is receiving on, which then reads it (360, 373).
`ListMatchesFiles` holds with no such condition: list, memory and descriptors
agree whoever erased what.  It also says where the code leaks: every open
descriptor is listed or about to be, or is a nameless one, which never gets a
context and stays open for good, even past `fd_context_clear` (240).
`EachIsServed` is liveness, and names what gives it
up: a nameless connection is never read from; `crowded` is the end of the service
thread when there are more sockets than `poll` takes (401-405, 438), which stops
every cport, and so does a `poll` that failed.

### UartTransport

| code | TLA+ |
|---|---|
| `uart_rb`, the FIFO of the UART | `ring`, `line` |
| `uart_work`, queued and running | `queued`, `work` |
| `gb_xport_uart_isr` | `Isr` |
| `uart_work_fn` | `WorkStart`, `WorkHeader`, `WorkPayload` |
| `gb_xport_send`, `sendMessage` | `SendBegin`, `SendByte` |
| the peer, which sends at most `Window` messages ahead | `peer`, `PeerByte` |

A byte is the message it belongs to, its place there and the length the header
announces.  The loops that poll the ring (51-54, 75-78) are guards.  A header
made up of other bytes may announce any length, or be rejected (61-72).
Left out: `malloc` and `realloc` that fail unchecked (56, 80), and an overflow
that interrupts the work item's own `ring_buf_get` (193, 57): what happens then
is decided by the ring buffer of Zephyr; and the number of the cport in the
padding, of which line 138 keeps one byte.

`InOrder`: short of an overflow the core gets the peer's messages, whole and in
order.  `EachIsDelivered` says what the transport depends on: one submission of the work item takes one
message (210), so a message that completes while another one is in the ring
stays there until more bytes arrive.  `FramedUnlessOverlapped` is the outgoing
side, where `uart_poll_out` is called byte by byte without a lock.

### UartDriver

| code | TLA+ |
|---|---|
| `free_queue`, `data_queue`, `rx_node`, `require_node`, `thread_stop` | the same |
| the buffer the device was started on | `filling` |
| `rx_sem`, `status_sem` | their counts |
| `uart_rx_thread`, with the node it holds | `rx`: `RxWait`, `RxGet`, `RxSend`, `RxPut`, `RxRequire`, `RxClaim`, `RxStart`, `RxClear` |
| `uart_status_thread` | `status`: `StatusWait`, `StatusReport` |
| `uart_rx_callback`, `uart_ms_callback`, `uart_ls_callback` | `RxCallback`, `ModemChanges`, `LineChanges` |
| `gb_uart_init` | `InitStatus`, `InitReceiver`, `InitRead`, `InitAttach`, `InitTrigger` |
| `gb_uart_exit`, and the error labels of `gb_uart_init` | `Exit`, `StopRx`, `JoinRx`, `FreeData`, `FreeFree`, `StopStatus`, `JoinStatus`, `Close` |

The callbacks are interrupts: each is one step, between any two steps of a
thread.  The UART device is external: it fills one buffer at a time, calls back
once for each, may refuse to start, and after `device_close` calls nothing.
The modem status is one bit; the line status is not reported (349-364).

`OneOwner`: a buffer is in a queue, in the rx thread's hand or with the device,
never in two of them, and never freed there.  `ChunksInOrder`: nothing is lost,
doubled or overtaken between the device and the peer.  `StatusSettles`: when the
status thread sleeps, the peer knows the modem status.  `OneOwner` says also
that exit frees all buffers but those the device holds.  `BreakNeedsRace` names the one
window in which the protocol of `require_node` breaks: between the step that puts a buffer back (454) and the one that clears
the flag (468).  A request that comes there before the flag is read makes the
thread start the device on NULL; one that comes after it is forgotten, and the
device stays stopped.

### Steps, PinHandlers, BusHandlers, OtherHandlers, Requests

A handler is a function that checks its request, calls the device and the
allocator, and returns a result at the first failure.  `Steps` gives names to
these steps, and the three modules of handlers write each function of the
source as the set of its paths, one for each branch that the payload or the
device's answer selects.  `Requests` gathers their tables in `Handlers` and is
the worker that takes them.

| code | TLA+ |
|---|---|
| a check of the size, an index or a pointer, with an early return | `Need(fact, result)` |
| a test and an assignment of `num_pwms`, `report_desc_len`, the camera's `state` | `In`, `Put`; `st` |
| `gb_operation_alloc_response`: checked, not looked at, used unchecked | `Alloc`, `TryAlloc`, `MustAlloc` |
| `malloc`, `free`, and the labels that free | `Malloc`, `Free`, `Freeing` |
| a call of the device that asks, or changes | `Reads`, `Writes` |
| `gb_process_request` | `TakePing`, `TakeUnknown`, `TakeRequest`; `Require` ... `Finish` |
| `gb_operation_send_response` | `NetDown`, `SendResponse` |
| `gb_operation_send_oom_response`, `oom_hdr` | `FillOom`, `SendOom`; `oom_hdr` |
| `exit_worker` | `exiting` |

`map` gives the generic steps one place in the source each where the step is
written out; the handlers are mapped to their own functions.  Each fact a check
is about holds or fails, each call succeeds or returns one of `Errnos`.  What a
payload says is left out, and so are the byte order and the layout of answers.
Assertions are taken as compiled out, as in a release build: an error that only
an assertion looks at is lost (`spi.c:92`, 140).  The four `timesync_*`
functions are stubs without a return value, whose callers read one
(`control-gpb.c:352-422`).

`WrongIdNeedsRace`: the host gets the answer to its own request; two workers
that run out of memory together may exchange ids, since a transport that blocks
gives up the interrupt lock in the middle (837-842).  `AnswersAreTrue` compares
what the host is told with what happened.  A success means that every call
succeeded, except in the ten operations of `Careless`; an error means that
nothing was changed, except in the five of `Untidy`.  Every member of the two
sets is needed.  When the header of an empty answer cannot be allocated, a
success too is answered as out of memory (864-868).  `NothingHeld`: handlers
free what they allocated on every way out, and just two of them follow a
pointer nobody checked (`camera.c:280`, `spi.c:135`).

### DriverLife

| code | TLA+ |
|---|---|
| `bundle->dev`, `bundle->priv`; `info` of `camera.c`, `usbdev` of `usb.c` | `dev`, `priv` by place |
| the `zalloc`ed infos, open devices and attached callbacks | `infos`, `handles`, `callbacks` |
| `gb_*_init`, with their labels; `gb_*_exit` | sequences of steps, `InitOf`, `ExitOf` |
| `_gb_register_driver`, `gb_unregister_driver`, one at a time | `BeginInit`, `Served`, `BeginExit` |
| handlers and event callbacks, as far as they follow the pointers | `Handle`, `Callback` |

`FaultNeedsCrowd`: through every failure and re-registration nothing freed,
closed or null is used, as long as a bundle has one cport (or a file with a
static variable one cport on the node).  With two, the second init overwrites
what the first kept, or a gpio, i2c or spi cport writes into the place another
driver keeps its device in.  `OnlyLeakyLeak`: after the last exit no device is
open, no callback can come and every info is freed, but those of `sdio.c` and
`power_supply.c`, which never store it, and of a camera whose init failed.  The
devices of lights, sdio, camera, usb, power supply, hid, pwm and uart are behind
`device_*` functions the repository declares and does not define.

### HidEvents

| code | TLA+ |
|---|---|
| `free_queue`, `data_queue`, `thread_stop` | `hid_free_queue`, `hid_data_queue`, `hid_thread_stop` |
| `report_node`, `node_request`, `active_sem` | the same |
| `hid_event_callback_routine` | `CbReport`, `CbQueue`, `CbTake`, `CbRequest`, `CbKeep`, `CbPost` |
| `report_proc_thread` | `ProcWake`, `ProcSend`, `ProcGive`, `ProcLook`, `ProcHand`, `ProcClear` |
| `hid_alloc_op`, `hid_receiver_callback_init`, `gb_hid_init` | `AllocNode`, `StartThread`, `AttachCallback` |
| `gb_hid_exit`, `hid_receiver_callback_deinit`, `hid_free_op` | `Detached`, `StopThread`, `FreeQueues` |

The callback is a device driver's, which is not in the repository: it is an
interrupt, in the middle of which the thread does nothing, or runs in a thread
(`Contexts`).  Only the queues are under a lock.

`ReportsInOrder`: reports leave in the order they came.  `WantsAreHeard`: while
the thread sleeps nothing is queued, and a callback without a node is known to
want one, unless the callback ran while the thread was at its look (496-500):
the thread clears a request the callback has just made, or hands over the null
pointer of an empty queue, and from then on every report is refused although
the thread is woken by each.  Both happen.  `OnlyReportNodeLeaks`: exit frees
every node but the callback's.

### Transfers

`spi.c` gives each descriptor of a transfer a buffer at its own index and counts
the descriptors that write, and those that read (373-404); `InStepIsDone` says
for which transfers that is what the host asked for: those whose writing
descriptors come first, and whose reading ones do, and others only if they have
an empty write, which counts but has no words.  `sdio.c` cuts the limits of
a card so that a block of data fits in a message (165-180); `AnnouncedFits` says
when it does not: the size of a block is cut, their number is not.  Their
conjunction is `LayoutsFit`.  `spi_transceive` is Zephyr's: it shifts out and in
the words of the two sets side by side.

### Manifest and Service

| code | TLA+ |
|---|---|
| the lists and maxima in `g_greybus` | `CPortsOf`, `MaxIds`, `MaxBundle`; `max` |
| `manifest_patch`, `identify_patch_descriptor` | `Patch` with `Fragment`, `Renumbered`, `NextMax` |
| `combined_mnfb`, then `bridge_manifest` | `blob` |
| `greybus_service_init`, `gb_init` | `boot`: `Parse`, `Patch`, `Backend`, `AllocBundles`, `AllocCPorts` |
| `enable_cports`, `_gb_register_driver` | `RegisterReject`, `RegisterBundle`, `RegisterInit`, `SortBegin`, `SortEnd`, `RegisterWorker` |
| `g_bundle[b]`, `driver->bundle`, `g_cport[c].driver` | `bundle`, `drv_bundle`, `driver` |
| `greybus_rx_handler` | `Receive` |
| `gb_process_request`, `find_operation_handler` | `WFind`, `WBundle`, `WMisfiled`, `WDevice`, `WOther` |
| `gb_control_connected`, `_disconnected`, `gb_listen`, `gb_notify` | `CtlListen`, `CtlNotify`, `CtlDisconnect` |

A manifest is a sequence of descriptors; a string's text, the text a reference
meant and the property a link meant are ghosts.  Of the four links of a device
(`greybus-manifest.h:220-223`) the model has one; all are treated alike, and so are
the other three.  The value of a property is data no code here reads.  The transport receives from 125 on, `gb_init` and
the registrations come after it, and the first workers run beside the later
registrations: all of this is interleaved.  `qsort` is two steps, between which
a search may miss and a pointer may name another handler (`moving`); a heap sort
moves the elements of a sorted array too.  A fragment with a rejected
descriptor makes the code skip as many bytes as the number of the error (553-556),
past the end perhaps, and a failing `realloc` (560) makes it write to a null pointer:
`Patch` ends in the faults `misread` and `null_blob`, and nothing is said of what
follows.  Left out are builds whose add-on boards are looked up by an id, a
bundle whose table of devices cannot be allocated (605, unchecked), and `gb_deinit`,
`manifest_release` and `enable_manifest`, which nothing calls.

`PatchKeepsRefs`: in the combined manifest ids are unique and every reference to
a string is to the one it meant, if that is so in its parts and as long as the
ids fit their byte.  The links of a device to properties are *not* kept, which is a
bug of the code: it gives the properties of a fragment new ids (401) and leaves the
links as they were (407-412).  What `PatchKeepsRefs` says of them is exact: the
property a link meant has the id `link + shift`, where `shift`, a ghost of the device,
is the largest property id that stood before its fragment.  Ids being unique, the
link is right where there was none (the first board on a manifest without
properties, as the samples' are), and wrong everywhere else.  The maxima grow by
more than they need to (568-570 add the largest *moved* id), which
`Needed` states.  `ConnectedIsServed`: a request for a cport whose connection
succeeded is never dropped, however far the boot thread is.  `BundleIsOwn` and
`HandlerIsOwn` name the only ways a request meets another cport's device or
handler: a driver has one handler table and one bundle pointer for all its
cports, so registering a second one disturbs the first (611, 622); and a bundle
with a gap in its numbers has too few devices (605).  Both are reachable with
two controllers of a kind.  `fault` is also reachable as `null_table`: a message
between 1071 and 1072, or after `gb_init` ran out of memory, which leaves
`cport_count` set and the transport running.

## 3. Runs

| run | instance | shows |
|---|---|---|
| `dispatch` | 2 cports, 2 receiving threads, 2 messages, 2 registrations, 1 unregistration, fairness | the invariants of `GbDispatch`, its liveness, and the refinement of `Mailbox` |
| `op_safety` | 3 operations with 2 ids, 2 senders, 3 responses, 1 failing send, unregistration | reference counts, walks, callbacks, wrong answers need a wrap |
| `op_liveness` | 2 operations, 3 responses, fairness, no failure | every call returns |
| `op_timeout` | as before, one answer lost | **violation**: nothing times out |
| `mux` | 2 senders, 2 messages in, 2 out, 2 connections, 1 failure, fairness | framing; a close is noticed |
| `tcp` | 2 cports, 2 connections, 1 sender, 1 message in each, 1 out, 1 failure, fairness | contexts and descriptors agree; routing, order, delivery |
| `uart_transport` | 2 senders, 2 messages out, 3 in, 2 of them in flight, fairness | framing, delivery, what a burst breaks |
| `drivers` | handlers of 14 drivers with 1 to 3 requests, 2 workers for one of them; 2 cports with any two of 10 drivers, 2 lives each; HID: 3 nodes, 4 reports; UART: 3 buffers, 4 chunks, 2 status changes, 1 failure, fairness; transfers of up to 4 descriptors, 35 cards | everything section 2 says of the class drivers |
| `uart_driver_null` | 3 buffers, 4 chunks | **violation**: the device is started without a buffer |
| `boot` | 7 manifests, 4 sets of fragments, 4 cports, 3 bundles, 2 requests, 1 failure, 1 missing device | what requests meet while the node starts; patched manifests |
| `boot_no_control` | the manifest without a control cport | **violation**: its last cport is rejected |
| `spi_test` | the transfer of the SPI test | **violation**: two of its reads are never made |

Why the bounds are enough.  `GbDispatch`: the cports share nothing but the
table, so two are enough to see one disturb the other; two threads reach every
order of check, lookup and append on one cport, of two messages one is queued
while the other is in hand, and two registrations around one unregistration let a
worker start on what an earlier one left.  `GbOperation`: a walk over `tx_fifo`
needs a current element, a saved next one and one behind it; a third operation
is also what makes an id come round in a space of three.  Id 0 is skipped, so
`IdSpace = 3` leaves two ids.  `MuxTransport`: two sends are enough to overlap,
a second connection to show what survives the first.  `TcpTransport`: two
connections, of one cport or of two, let a descriptor be given out again under a
thread that holds it; `PollMax = 3` is one less than two cports and their
connections, and a failure is one that any of the calls may meet.  A single sender meets the service thread in every step; two were
checked too, without liveness (two messages out, 7.7 million states).  `UartTransport`: the
sizes 8, `GB_MTU - 8` and 8 of header, payload and padding are scaled to 2 each;
a header in two bytes can be torn, and two messages of four bytes overflow a
ring of six.  `UartDriver`: three buffers are one with the device, one in the
thread's hand and one in a queue; the fourth chunk comes after all of them were
used.

`MCDrivers` composes modules that share no state: the constant of a behaviour
`part` says which of them moves, and the others stay in one initial state, so
that their instances add up and do not multiply.  `Requests`: a driver's handlers
keep at most one variable between requests, of three values, which the bounds
let every operation meet in every value; the workers of two cports share
nothing but `oom_hdr`, so two workers are given to one driver only.  Only
`sdio.c` tells one errno from another.  `DriverLife`: two cports of any two
drivers are a shared bundle; the second life starts from what the first left
behind.  `HidEvents`: three nodes are one at hand, one queued and one in the
thread; the fourth report finds none.  `Transfers`: three descriptors put a
buffer in use behind an unused one on either side, the fourth repeats it.

`Service`: two cports of a protocol, in one bundle or in two, show what
they share; three bundles let one be declared by a cport only; one gap, one
cport beyond the count and one protocol without a driver are in the manifests.
Two requests are a connection and what the host does with it.  `IdRange = 6`
instead of 256 lets the ids of some manifests wrap and leaves others room.  The
boards' devices have links: behind a manifest without properties the first
board's stays right and the second one's does not; behind one with a property
both are off.
Bounds sit in the guards (`budget`, `MaxFail`, `MaxReq`, `MaxLost`, `Unanswered`) and are ghosts.

`CHECK_DEADLOCK FALSE` everywhere: the peer may stop sending, the application
may stop calling, a fault stops the system, and a flushed synchronous sender
waits for ever.

Fairness.  `GbDispatch`: weak fairness of every worker, of every thread inside
`greybus_rx_handler` and of a call that has begun; Zephyr's scheduler runs
ready threads of these priorities, and the waits (`sem_wait`, `pthread_join`)
are guards of the actions.  Handlers are assumed to return.  Nothing makes the peer
send or the application call.  `GbOperation`: the same, and that the peer
answers a request it received (`AnswersOnce`), which `op_liveness` states as its
premise and `op_timeout` takes away for one request.  `MuxTransport`: the
receive thread.  `TcpTransport`: the service thread, of which no call is made to
fail (the fairness is of its steps that spend no failure), and a peer that began a
message finishes it, which `getMessage` relies on.  `UartTransport`: interrupts are served, the system work queue
runs, and the peer finishes a message it began and sends on while its window
allows.  `UartDriver`, in `drivers`: both threads, and an init or exit that
began; no interrupt is assumed.

Findings.  `op_timeout`: the comment of `gb_watchdog_update` (296-305) describes a
watchdog for requests that wait; `wd_start` (`greybus-stubs.c:20`) does nothing.
`uart_driver_null`: `uart.c:461` takes for granted that there is a free buffer.
`boot_no_control`: the overlay of the BeagleConnect Freedom calls the control
cport optional, but without it the cports 1 and 2 are two, and
`_gb_register_driver` (561) takes their number for a bound of their ids.
`spi_test`: the test in `tests/subsys/greybus/spi/src/spi.c:294-375` expects the
bytes of its first, fourth and fifth descriptor; the set of receive buffers
counts three and so ends at the third (`spi.c:401`), and the others are answered
as zeros.

Two more defects are no run of their own, since a property that holds states them
exactly: the links that are not moved (`PatchKeepsRefs`, `greybus-manifest.c:407`),
and the descriptor that stays open when `inet_ntop` fails (`ListMatchesFiles`,
`transport-tcpip.c:329-333`).

## 4. Proofs

Each `...Proofs` module proves theorems of its component's specification for
every value of the constants that its named assumption allows: any number of
cports, threads, operations, buffers and messages.  Each has one inductive
invariant, called `IInv` (in `DriversProofs` there are four: `AnswerInv` and
`HandlersInv` of the requests, `LifeIInv` and `HidIInv`; `ServiceProofs` has
`RefsInv` besides), a lemma for every action or
group of actions that says it is preserved, and a theorem or lemma that it always
holds; the theorems below follow from that.  TLC checked every inductive invariant on the
component's own instance before it was proved.

| module | theorems | properties they state |
|---|---|---|
| `GbDispatchProofs` | `TypeCorrect`, `TokensCorrect`, `OrderCorrect`, `DrainCorrect`, `HandlerCorrect`, `NullDriverCorrect`, `DequeueCorrect`, `RefinesMailbox` | `TypeOK`, `TokensMatchQueue`, `InOrder`, `DrainedBeforeExit`, `HandlerWhileInited`, `NullDriverNeedsUnregister`; no dequeue of an empty list; the safety part of `Mailbox` |
| `GbOperationProofs` | `RefsCorrect`, `WalksCorrect`, `CallbackCorrect`, `WrongAnswerCorrect` | `RefsAreHolders`, `WalksAreSafe`, `CallbackOnce`, `WrongAnswerNeedsWrap` |
| `MuxTransportProofs` | `FramedCorrect`, `InboundCorrect` | `FramedUnlessDisturbed`, `InboundInOrder` |
| `TcpTransportProofs` | `ListCorrect`, `RoutedCorrect` | `ListMatchesFiles`, `RoutedUnlessTorn` |
| `UartTransportProofs` | `OrderCorrect`, `FramedCorrect` | `InOrder`, `FramedUnlessOverlapped` |
| `DriversProofs` | `AnswerIsOwn`, `AnswersCorrect`, `NothingIsHeld`, `NoFaultAlone`, `NothingLeftAlone`, `ReportsCorrect`, `WantsCorrect`, `LeakCorrect`, `LayoutsCorrect` | `WrongIdNeedsRace`, `AnswersAreTrue`, `NothingHeld`, `FaultNeedsCrowd`, `OnlyLeakyLeak`, `ReportsInOrder`, `WantsAreHeard`, `OnlyReportNodeLeaks`, `LayoutsFit` |
| `UartDriverProofs` | `OwnerCorrect`, `ChunksCorrect`, `BreakCorrect`, `StatusCorrect` | `OneOwner`, `ChunksInOrder`, `BreakNeedsRace`, `StatusSettles` |
| `ServiceProofs` | `ServedCorrect`, `HandlerCorrect`, `BundleCorrect`, `PatchCorrect` | `ConnectedIsServed`, `HandlerIsOwn`, `BundleIsOwn`, `PatchKeepsRefs` |

### GbDispatchProofs

From `BoundsAssumption` alone.  The invariant is the conjunction of

* `TypeOK`;
* `LifeInv`: where the application is in its call on a cport fixes whether the
  cport has a worker, a driver and `exit_worker` set.  Without it nothing says
  that the token posted at 539 is the only one no message pays for;
* `WorkerInv`: a worker past its check (393) has something to take, and an exited
  worker is one that is being joined.  It makes `DequeueNeverEmpty` inductive;
* `TokensMatchQueue`, `InOrder`;
* `DrainInv`: what was accepted before the unregistration is finished once the
  worker has exited, which gives `DrainedBeforeExit`;
* `NullInv`: before the first unregistration, a thread past the check of the
  driver (465) and every queued message have a driver.

The argument for the worker: it reads `exit_worker` and an empty queue without
the lock, but by `TokensMatchQueue` a worker that was woken with an empty queue
holds the exit's token, hence `exit_worker` is set and it leaves.

`RefinesMailbox` shows step by step that the queue of each cport implements
`Mailbox`: the initial state is a mailbox's, and every step of a receiver, a
worker or the application is one of `Put`, `Take`, `Done`, `Attach`,
`AskToLeave`, `Leave`, `Stop` or leaves the mailbox alone.  `Leave` is where the
inductive invariant is needed: a worker leaves an empty queue only.

### GbOperationProofs

The count of a request is one for its creator and one for the list or the worker
that took it from there (`OpRefs`); the count of a response is one for the
queue, one for the worker and one for each live request that points to it
(`RespRefs`, where the requests are counted by the cardinality of a set).  To
carry these through a step one must know that no operation is twice in
`tx_fifo` or both there and in the worker's hand (`ListInv`), that senders own
different operations (`SenderInv`), and that what is not numbered yet is in
nobody's hands (`AnswerInv`, `PeerInv`).  The unlocked walks are safe because,
as long as no send failed, the worker is the only one that unlinks: the element
in hand is linked, the saved one is its successor, and the request the response
answers is not behind (`WalkInv`, `FlushInv`).  `StampInv` says that stamps are
taken from a growing counter, from which `WrongAnswerNeedsWrap` follows: two
live requests with the same id are a whole round of ids apart.

### MuxTransportProofs and UartTransportProofs

Outgoing: unless disturbed (overlapped) at most one sender is busy, and the
stream ends with the last piece it wrote, or with a whole message (`OutInv`).
Incoming: what is in hand, in the ring or on its way is a stream of genuine
pieces, each following the one before, which goes on from what was delivered
(`InInv`).  On the serial line the whole stream is one sequence, `Stream`, that
the interrupt handler only moves; `Chain` says it is the messages of the peer
whichever byte one starts from, which is what lets the header in the work item's
hands say where the next one begins.

### TcpTransportProofs

From `TcpAssumption`.  A context that was ever created has a descriptor, and a
socket in use has exactly the one it was given (`FilesInv`); from this
follows, by the pigeonhole, that a socket without a descriptor always finds a
free one (`FreeFacts`), and that an erase by descriptor meets the context it is
meant for (`WithFdFacts`), even when the descriptor was given out before.  A
nameless connection keeps its descriptor for ever, so it is one of those the
pigeonhole counts, and it has no context anyone could look up.
`SvcInv`, `SendInv` and `SetupInv` say what each thread has in hand.

`RoutedUnlessTorn` needs to know what "not torn" buys (`UntornInv`): a context
in a thread's hand lives, so its descriptor refers to its own socket
(`SvcHeld`, `SendersHeld`); and for each connection the words the core has,
those in the service thread's hand and those that wait are the peer's words one
after the other (`StreamInv`), except while the connection is about to be
closed.  A step that breaks this for another thread is one that sets `torn`.

### DriversProofs and UartDriverProofs: pools of buffers

`HidEvents`, in `DriversProofs`, and `UartDriver` are pools of buffers that go round between an interrupt and a thread.  The
invariants say where a buffer may be and that it is in one place
(`NodesInv`, `OwnInv`); that the numbers of what the device delivered grow from
what was sent, by what the thread holds, to what is queued (`OrderInv`, and
without a failure that none is missing, `WholeInv`); that the semaphore counts
at least what is queued (`SemInv`); and what the flag by which the callback asks
for a buffer means in every place the thread and the callback can be
(`RequestInv`, `CrossInv`).  The last part is the subtle one: a request is either
open, with a buffer free or on its way to answer it, or the two crossed in the
window the ghosts `crossed` and `raced` note.

### DriversProofs: answers and lives

`AnswerIsOwn` says of any number of workers, and uses nothing of what the
handlers do, that a foreign id in an answer needs two workers that ran out of memory
together.  `HeaderInv`: until that happens at most one worker is between filling
and sending `oom_hdr`, and the header has the id of its request.

`NoFaultAlone` and `NothingLeftAlone` are about any number of cports of a bundle
with any of the ten drivers, through any number of lives, failures and events.
They rest on `LifeAssumption` (the drivers are those ten) and `NullAssumption`
(the null pointer and the device array are no info).  `JobsOK` is what holds
always.  `SoundInv` holds until a place is shared: `InitAt` and `ExitAt` read off
the steps of a driver's function that came before which of its info, handle and
callback exist, and that `dev` and `priv` point to them; `UndoInv` says the same
of the labels an init leaves by, and `OffInv` what a cport leaves behind.  The
functions enter by two lemmas only, `InitTable` and `ExitTable`: before which
step of which driver what was done, what a failure there has to undo, and what
the whole function did.  They are proved by going through the ten pairs of
functions, and are the ownership rules those functions keep.

### DriversProofs: the handlers

`AnswersCorrect` and `NothingIsHeld` rest on a discipline of the handlers,
`Tidy`, which is a statement about one path of one handler:

* `Frees`: each step that may make it return frees all that was allocated before
  (`HeldAt`) and not freed yet, and so does its end;
* `Honest`: no failing step returns a success; a failure is ignored in an
  operation of `Careless` only, and a pointer followed unchecked in the two
  operations of `Crashing` only;
* `AllOrNothing`, unless it is in `Untidy`: nothing was changed before a step that
  may make it return.

A lemma for each driver (`GpioTidy` ... `LoopbackTidy`) goes through its table
and shows every path tidy, `HandlersAreTidy` for all.  Most paths have no buffer
and change something in their last step at most (`Plain`); where a handler is
put together from parts, `PlainAfter` and its like say what the parts give.
`HandlersInv` carries it to the worker: the rest of a task is the rest of a path
of its handler, what it holds is within `HeldAt` there, and it has changed
something only if a step before it does.  `RequestsAssumption` says that the
drivers are some of those fourteen and that a device that fails returns an
errno other than 0.

### DriversProofs: transfers

`LayoutsCorrect` is about transfers of any number of descriptors, each of any
number of words, and cards of any limits; `TransfersAssumption` says that every
descriptor writes or reads and none that reads is empty, as the code demands
(`spi.c:316-320`, 403-406).  Nothing moves, so the work is in the
operators.  `Sums` counts the words of the first descriptors, and `FlattenFacts`
places each word of a concatenation by them; both are inductions over the number
of descriptors, made with sets of numbers (`AllNumbers`).  The descriptors of a
set are the first ones if and only if their number reaches all of them
(`CountedClosed`).  If it does, each word is on the bus at its own clock
(`ClosedClocks`), and since every descriptor writes or reads, the longer of the
two sets takes as long as the transfer; if it does not, the words of the last
one, if it has any, never come (`OpenClocks`).

### ServiceProofs

From `ServiceAssumption` and `NodeAssumption`: a manifest's cports are a list,
with numbers and bundles of those the model has, its descriptors have the fields
of their types and ids of a byte, and there are two slots for add-on boards.
`ShapeInv` and `BootInv` say where the boot thread is and what is allocated by
then, and `BuiltInv` what the cport it is registering has got: its bundle, built
from the lowest number of a cport in it, and past its init its device in its
slot.  `ServesInv` is the heart.  Every published driver belongs to a cport `i`
of the manifest the boot thread is past, whose bundle is built and whose device
is in its slot; and the bundle of the shared driver, like the one a worker read
from it before, is `Given`: `i`'s own, or that of a later cport of the protocol.
A registration moves the shared pointer, and by that the later cport is the
witness `HandlerIsOwn` and `BundleIsOwn` name; it does not move a slot, since two
cports of a bundle have different numbers and a number that has a driver is
rejected (561).  That a missing slot means a gap needs `BundleFacts`: the lowest
number of a bundle exists and is not above the cport's own (a well-founded
minimum).  `ConnectedIsServed` rests on a driver being published only once the
table exists, and never taken back.

`PatchCorrect` has an invariant of its own, `RefsInv`: what was put together so
far is well formed and has no id above the maxima (`Sound`), and the maxima
leave room for the fragments to come.  `AppendedIsSound` is the step: the ids of
a fragment count from 1 and are moved above all there were, so they meet no
earlier one, and its references move by as much as its strings.  Its links do not
move, and are short of its properties by what these were moved (`Linking`); the
fragments that come later are numbered above, and do not change that.  To say what is
kept of a fragment without recursion, `Kept` names the n-th descriptor by its
rank among those that are not skipped; `KeptFacts` shows that it leaves none out
and repeats none.  The premise of the property, `PartsFit`, is that the parts
are well formed, that fragments count from 1, and that `Needed` ids fit.

### Only model-checked

* Liveness, which rests on fairness: `CallsReturn`, `RequestsTimeOut`,
  `UnregisterReturns`, `CloseIsNoticed`, `EachIsServed`, `EachIsDelivered`,
  `ExitReturns`, and the fairness of `Mailbox` (`ImplementsMailbox`).

These need `ENABLED` or a fairness premise, which the provers do not have.  Every
safety invariant of a passing run is a theorem.

## 5. Not modelled, and the plan

Next: the sending side of `loopback.c`, once something calls it.

Not modelled:

* The audio driver.  `gb_audio_alloc_info_list` sets its device to NULL
  (`audio.c:1501-1505`) and returns, so init answers `-ENODEV` and nothing else
  in the file runs.  Nor is `gb_camera_properties.h`, a list of constants,
  or `unipro.h`, whose functions are stubs (`greybus-stubs.c:32-118`).
* The sending side of `loopback.c` (`gb_loopback_send_req`, its list and its
  statistics): nothing in the repository calls it, and the latency figures need
  `CONFIG_GREYBUS_FEATURE_HAVE_TIMESTAMPS`, which nothing defines.
* The events lights, sdio, power supply and gpio send from their callbacks
  (create, send, destroy): the order of their reference counts is the sender's
  in `GbOperation`, and `send_async` of all three transports is NULL
  (`transport-tcpip.c:662`, `transport-tcpip-multiplex.c:243`,
  `transport-uart.c:167`).
* Tape record and replay: replay is a second caller of `greybus_rx_handler`,
  which `GbDispatch` has; the rest is file input and output.
* The glue of the platform (`platform/gpio.c`, `i2c.c`, `spi.c`, ...), which
  registers devices at boot; TLS credentials; the Zephyr kernel and network
  stack, whose semaphores, lists and sockets are modelled by what the code uses
  of them.
* What a ring buffer of Zephyr does when `ring_buf_get` is interrupted by
  another one (`transport-uart.c:193`), and a UART transport whose `malloc`
  fails unchecked.
