------------------------------ MODULE Requests ------------------------------
(***************************************************************************)
(* What a worker of greybus-core.c does with one request: look the handler *)
(* up, run it step by step against a device that may fail, and answer.     *)
(* One class driver serves the cports of some workers; they share the      *)
(* driver's variables, the heap and the static header of the out-of-memory *)
(* answer.                                                                 *)
(***************************************************************************)
EXTENDS PinHandlers, BusHandlers, OtherHandlers, Naturals

CONSTANTS
  Workers,      \* the workers, one for each cport of the driver
  NoId,         \* the id 0 of a request that wants no answer
  Drivers,      \* the class drivers of the node, by name
  Start,        \* each driver's variable at first
  Serving,      \* the workers whose cports each driver has
  Errnos,       \* the errnos each driver's device may return
  MaxRequests   \* bound: requests taken, by driver

VARIABLES
  drv,      \* the driver of this node
  st,       \* the variable its handlers test and set
  task,     \* what each worker is doing
  exiting,  \* the workers whose exit_worker is set
  oom_hdr,  \* the id in the static header
  last,     \* history: each worker's last answer
  oom_raced,    \* history: two workers were between filling and sending oom_hdr
  taken     \* bound: requests taken so far

(* Each driver's table of handlers: a function from operations to paths.   *)
Handlers ==
  [gpio |-> gb_gpio_handlers, pwm |-> gb_pwm_handlers, lights |-> gb_lights_handlers,
   vibrator |-> gb_vibrator_handlers, i2c |-> gb_i2c_handlers, spi |-> gb_spi_handlers,
   sdio |-> gb_sdio_handlers, usb |-> gb_usb_handlers, uart |-> gb_uart_handlers,
   control |-> gb_control_handlers, hid |-> gb_hid_handlers,
   power_supply |-> gb_power_supply_handlers, camera |-> gb_camera_handlers,
   loopback |-> gb_loopback_handlers]

(* A device that fails has an errno of its own to return.                  *)
ASSUME RequestsAssumption ==
  /\ NoId \notin Workers
  /\ Drivers \subseteq DOMAIN Handlers
  /\ \A d \in Drivers : "0" \notin Errnos[d]
  /\ Serving \in [Drivers -> SUBSET Workers]
  /\ MaxRequests \in [Drivers -> Nat]

reqVars == <<drv, st, task, exiting, oom_hdr, last, oom_raced, taken>>

Idle == [pc |-> "idle", op |-> "none", todo |-> <<>>, id |-> NoId, answer |-> FALSE,
         resp |-> "none", held |-> {}, failed |-> FALSE, changed |-> FALSE, result |-> "none"]

NoAnswer == [op |-> "none", asked |-> NoId, id |-> NoId, result |-> "none",
             resp |-> "none", failed |-> FALSE, changed |-> FALSE]

RequestsInit ==
  /\ drv \in Drivers
  /\ st = Start[drv]
  /\ task = [w \in Workers |-> Idle]
  /\ exiting = {}
  /\ oom_hdr = NoId
  /\ last = [w \in Workers |-> NoAnswer]
  /\ oom_raced = FALSE
  /\ taken = 0

Running(w) == task[w].pc = "run"

(* The worker goes on with this task; what else it changes is said apart.  *)
Becomes(w, t) == task' = [task EXCEPT ![w] = t]

(* The handler returned: the buffers it frees on the way are given back,   *)
(* and the request is answered if the core answers it.                     *)
Returned(t, code, frees) ==
  IF code = "fault" THEN [t EXCEPT !.pc = "fault"]
  ELSE IF ~t.answer THEN [Idle EXCEPT !.held = t.held \ frees]
  ELSE [t EXCEPT !.pc = "answer", !.result = code, !.todo = <<>>, !.held = t.held \ frees]

-----------------------------------------------------------------------------
(* gb_process_request: a ping and a type without a handler are answered    *)
(* whatever their id; a handler's result only when the request has one.    *)
Take(w, t) ==
  /\ task[w].pc = "idle"
  /\ w \in Serving[drv] \ exiting
  /\ taken < MaxRequests[drv]
  /\ taken' = taken + 1
  /\ Becomes(w, t)
  /\ last' = [last EXCEPT ![w] = NoAnswer]
  /\ UNCHANGED <<drv, st, exiting, oom_hdr, oom_raced>>

TakePing(w) ==
  \E id \in {NoId, w} :
    Take(w, [Idle EXCEPT !.pc = "answer", !.op = "ping", !.id = id,
                         !.answer = TRUE, !.result = "SUCCESS"])

TakeUnknown(w) ==
  \E id \in {NoId, w} :
    Take(w, [Idle EXCEPT !.pc = "answer", !.op = "unknown", !.id = id,
                         !.answer = TRUE, !.result = "INVALID"])

TakeRequest(w) ==
  \E id \in {NoId, w}, op \in DOMAIN Handlers[drv] :
    \E path \in Handlers[drv][op] :
      Take(w, [Idle EXCEPT !.pc = "run", !.op = op, !.todo = path,
                           !.id = id, !.answer = id # NoId])

-----------------------------------------------------------------------------
(* The steps of a handler.                                                 *)

(* The step at hand, of one of these kinds.                                *)
At(w, kinds) == Running(w) /\ task[w].todo # <<>> /\ Head(task[w].todo).do \in kinds

Now(w) == Head(task[w].todo)
On(w) == [task[w] EXCEPT !.todo = Tail(@)]

Quiet == UNCHANGED <<drv, exiting, oom_hdr, last, oom_raced, taken>>

(* A condition on the request or the platform: it holds or it does not.    *)
Require(w) ==
  /\ At(w, {"need"})
  /\ \E t \in {On(w), Returned(task[w], Now(w).code, Now(w).frees)} : Becomes(w, t)
  /\ UNCHANGED st /\ Quiet

(* A condition on the driver's variable.                                   *)
Check(w) ==
  /\ At(w, {"in"})
  /\ Becomes(w, IF st \in Now(w).vals THEN On(w)
                ELSE Returned(task[w], Now(w).code, Now(w).frees))
  /\ UNCHANGED st /\ Quiet

(* The driver's variable is set.                                           *)
Store(w) ==
  /\ At(w, {"put"})
  /\ st' \in Now(w).vals
  /\ Becomes(w, [On(w) EXCEPT !.changed = TRUE])
  /\ Quiet

(* A buffer of the handler's own is given back.                            *)
Release(w) ==
  /\ At(w, {"free"})
  /\ Becomes(w, [On(w) EXCEPT !.held = @ \ {Now(w).what}])
  /\ UNCHANGED st /\ Quiet

(* The step fails: with "ignored" the handler does not notice.             *)
FailsWith(w, err) ==
  LET s == Now(w)
      t == [task[w] EXCEPT !.failed = TRUE]
      code == CodeOf(s, err) IN
  /\ MayFail(s)
  /\ Becomes(w, IF code = "ignored" THEN [t EXCEPT !.todo = Tail(@)]
                                    ELSE Returned(t, code, s.frees))
  /\ UNCHANGED st /\ Quiet

(* gb_operation_alloc_response with the payload of the operation.          *)
AllocResponse(w) ==
  /\ At(w, {"alloc"})
  /\ \/ /\ Becomes(w, [On(w) EXCEPT !.resp = "payload"])
        /\ UNCHANGED st /\ Quiet
     \/ FailsWith(w, "ENOMEM")

AllocBuffer(w) ==
  /\ At(w, {"malloc"})
  /\ \/ /\ Becomes(w, [On(w) EXCEPT !.held = @ \cup {Now(w).what}])
        /\ UNCHANGED st /\ Quiet
     \/ FailsWith(w, "ENOMEM")

CallDevice(w) ==
  /\ At(w, {"read", "write"})
  /\ \/ /\ Becomes(w, [On(w) EXCEPT !.changed = @ \/ Now(w).do = "write"])
        /\ UNCHANGED st /\ Quiet
     \/ \E err \in Errnos[drv] : FailsWith(w, err)

Finish(w) ==
  /\ Running(w) /\ task[w].todo = <<>>
  /\ Becomes(w, Returned(task[w], "SUCCESS", {}))
  /\ UNCHANGED st /\ Quiet

-----------------------------------------------------------------------------
(* The answer.                                                             *)

Answering(w) == task[w].pc = "answer"

Unsent(w) ==
  /\ Becomes(w, Idle)
  /\ UNCHANGED <<drv, st, exiting, oom_hdr, last, oom_raced, taken>>

(* gb_operation_send_response of a cport whose worker must exit.           *)
NetDown(w) == Answering(w) /\ w \in exiting /\ Unsent(w)

(* What the host receives.                                                 *)
Sent(w, id, result, resp) ==
  /\ Becomes(w, Idle)
  /\ last' = [last EXCEPT ![w] =
       [op |-> task[w].op, asked |-> task[w].id, id |-> id, result |-> result,
        resp |-> resp, failed |-> task[w].failed, changed |-> task[w].changed]]
  /\ UNCHANGED <<drv, st, exiting, oom_hdr, oom_raced, taken>>

(* gb_operation_send_response: the handler's response, or an empty one     *)
(* allocated now; the transport may refuse it, and then nothing is sent.   *)
SendResponse(w) ==
  /\ Answering(w) /\ w \notin exiting
  /\ \/ Sent(w, task[w].id, task[w].result,
             IF task[w].resp = "none" THEN "empty" ELSE task[w].resp)
     \/ Unsent(w)

(* gb_operation_send_oom_response: without memory for an empty response    *)
(* the static header is filled, and as if only an empty one were ...       *)
FilledOnce(id) == IF oom_hdr = NoId THEN id ELSE oom_hdr
Filled(id) == id

FillOom(w) ==
  /\ Answering(w) /\ w \notin exiting
  /\ task[w].resp = "none"
  /\ oom_hdr' = Filled(task[w].id)
  /\ oom_raced' = (oom_raced \/ \E v \in Workers \ {w} : task[v].pc = "oom")
  /\ Becomes(w, [task[w] EXCEPT !.pc = "oom"])
  /\ UNCHANGED <<drv, st, exiting, last, taken>>

(* ... and sent, with interrupts locked: a transport that blocks gives the *)
(* lock up, and another worker may fill the header before it has left.     *)
SendOom(w) ==
  /\ task[w].pc = "oom"
  /\ Sent(w, oom_hdr, "NO_MEMORY", "static") \/ Unsent(w)

(* gb_unregister_driver sets exit_worker while the worker may be anywhere. *)
ExitWorker(w) ==
  /\ w \in Serving[drv] \ exiting
  /\ exiting' = exiting \cup {w}
  /\ UNCHANGED <<drv, st, task, oom_hdr, last, oom_raced, taken>>

RequestsStep(w) ==
  \/ TakePing(w) \/ TakeUnknown(w) \/ TakeRequest(w)
  \/ Require(w) \/ Check(w) \/ Store(w) \/ Release(w) \/ AllocResponse(w) \/ AllocBuffer(w)
  \/ CallDevice(w) \/ Finish(w)
  \/ NetDown(w) \/ SendResponse(w) \/ FillOom(w) \/ SendOom(w) \/ ExitWorker(w)

RequestsNext == \E w \in Workers : RequestsStep(w)

RequestsSpec == RequestsInit /\ [][RequestsNext]_reqVars
-----------------------------------------------------------------------------
(* Type correctness, with what the worker keeps between requests.          *)
RequestsTypeOK ==
  /\ drv \in Drivers
  /\ exiting \subseteq Serving[drv]
  /\ oom_hdr \in Workers \cup {NoId}
  /\ taken \in 0..MaxRequests[drv]
  /\ oom_raced \in BOOLEAN
  /\ \A w \in Workers :
       /\ task[w].pc \in {"idle", "run", "answer", "oom", "fault"}
       /\ task[w].resp \in {"none", "payload"}
       /\ task[w].pc = "oom" => task[w].resp = "none"
       /\ task[w].pc = "idle" => task[w].todo = <<>>

(* A cport's host gets the answer to its own request, and no other's,      *)
(* unless two workers ran out of memory for an answer at the same time:    *)
(* gb_operation_send_oom_response builds it in one static header           *)
(* (greybus-core.c:826-846).                                               *)
WrongIdNeedsRace ==
  \A w \in Workers : last[w].id = last[w].asked \/ oom_raced

(* The operations that answer a success although a call of the device or   *)
(* an allocation failed: nobody looks at what the call returned, or a      *)
(* timeout is taken for an answer.                                         *)
Careless ==
  {<<"gpio", "get_direction">>, <<"gpio", "get_value">>, <<"vibrator", "vibrator_on">>,
   <<"vibrator", "vibrator_off">>, <<"spi", "master_config">>, <<"spi", "device_config">>,
   <<"sdio", "command">>, <<"usb", "hcd_stop">>, <<"hid", "set_report">>,
   <<"camera", "configure_streams">>}

(* GB_OP_SUCCESS is the truth: but for the operations above, whose calls   *)
(* fail unseen, every call and every allocation made for it succeeded.     *)
SuccessIsTrue ==
  \A w \in Workers :
    last[w].result = "SUCCESS" /\ last[w].failed => <<drv, last[w].op>> \in Careless

(* The operations that may answer an error after the device or the         *)
(* driver's variable has changed: a second call or the allocation of the   *)
(* answer failed, or the variable was set before the call was made.        *)
Untidy ==
  {<<"gpio", "direction_out">>, <<"sdio", "command">>, <<"sdio", "transfer">>,
   <<"camera", "configure_streams">>, <<"camera", "flush">>}

(* An error says that nothing was done: the host may retry every operation *)
(* that is not one of the above without doing anything twice.  The static  *)
(* out-of-memory answer says nothing: it also stands for a success whose   *)
(* header could not be allocated (greybus-core.c:864-868).                 *)
FailureLeavesDevice ==
  \A w \in Workers :
    last[w].result # "SUCCESS" /\ last[w].changed =>
      <<drv, last[w].op>> \in Untidy \/ last[w].resp = "static"

(* What the host is told of its request is true, of a success and of a     *)
(* failure, but for the handlers listed above (greybus-core.c:258-273, and *)
(* the handlers).                                                          *)
AnswersAreTrue == SuccessIsTrue /\ FailureLeavesDevice

(* On every way out of a handler its own buffers have been freed, and only *)
(* two handlers go on through a pointer nobody checked: the answer of the  *)
(* camera's streams (camera.c:281-283) and the platform's device of an spi *)
(* chip (spi.c:134-143).  The state stays of its type.                     *)
NothingHeld ==
  /\ RequestsTypeOK
  /\ \A w \in Workers :
       /\ task[w].pc \in {"idle", "answer", "oom"} => task[w].held = {}
       /\ task[w].pc = "fault" =>
            <<drv, task[w].op>> \in {<<"camera", "configure_streams">>, <<"spi", "device_config">>}
=============================================================================
