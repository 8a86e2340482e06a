------------------------------- MODULE Steps -------------------------------
(***************************************************************************)
(* The vocabulary the operation handlers of the class drivers are written  *)
(* in.  A handler is a set of paths, one for every branch the content of   *)
(* the request or the answer of the device selects; a path is the sequence *)
(* of steps the handler takes until it returns GB_OP_SUCCESS.  A step that *)
(* fails makes the handler return at once, with the step's own code, after *)
(* it freed the buffers the code frees on that way out.                    *)
(*                                                                         *)
(* Every step is a record of the same fields, so that TLC can compare two  *)
(* of them: do (what kind of step), what (the request's fact, the driver's *)
(* variable, the buffer or the device's function), vals (values of the     *)
(* variable), code (what a failing step returns), frees (the buffers a     *)
(* failing step frees).                                                    *)
(***************************************************************************)
EXTENDS Sequences

Step(do, what, vals, code) ==
  [do |-> do, what |-> what, vals |-> vals, code |-> code, frees |-> {}]

(* A fact about the request or the platform, without which the handler     *)
(* returns code; "fault" is the use of a null pointer nobody checked.      *)
Need(what, code) == Step("need", what, {}, code)

(* The driver's variable must have one of these values.                    *)
In(var, vals, code) == Step("in", var, vals, code)

(* The driver's variable takes this value.                                 *)
Put(var, val) == Step("put", var, {val}, "never")

(* gb_operation_alloc_response: with its result checked, not looked at,    *)
(* and used without a check.                                               *)
Alloc     == Step("alloc", "response", {}, "NO_MEMORY")
TryAlloc  == Step("alloc", "response", {}, "ignored")
MustAlloc == Step("alloc", "response", {}, "fault")

(* A buffer of the handler's own, and its return.                          *)
Malloc(buf) == Step("malloc", buf, {}, "NO_MEMORY")
Free(buf)   == Step("free", buf, {}, "never")

(* A call of the device that only asks it, and one that changes it.  The   *)
(* code "errno" is gb_errno_to_op_result of what the call returned; with   *)
(* "ignored" the handler does not look at what the call returned, and with *)
(* "unless_ETIMEDOUT" it takes a timeout for a success.                    *)
Reads(call, code)  == Step("read", call, {}, code)
Writes(call, code) == Step("write", call, {}, code)

(* The same step, freeing these buffers when it fails.                     *)
Freeing(step, bufs) == [step EXCEPT !.frees = bufs]

(* Whether a step can fail at all.                                         *)
MayFail(step) == step.code # "never"

(* How the errno of a device's function becomes the result of an operation.*)
gb_errno_to_op_result(err) ==
  CASE err = "0"                      -> "SUCCESS"
    [] err = "ENOMEM"                 -> "NO_MEMORY"
    [] err = "EINTR"                  -> "INTERRUPTED"
    [] err = "ETIMEDOUT"              -> "TIMEOUT"
    [] err \in {"EPROTO", "ENOSYS"}   -> "PROTOCOL_BAD"
    [] err = "EINVAL"                 -> "INVALID"
    [] err = "EOVERFLOW"              -> "OVERFLOW"
    [] err \in {"ENODEV", "ENXIO"}    -> "NONEXISTENT"
    [] err = "EBUSY"                  -> "RETRY"
    [] OTHER                          -> "UNKNOWN_ERROR"

(* What a handler returns when step fails with errno err; "ignored" when   *)
(* it goes on.                                                             *)
CodeOf(step, err) ==
  CASE step.code = "errno" -> gb_errno_to_op_result(err)
    [] step.code = "unless_ETIMEDOUT" ->
         IF err = "ETIMEDOUT" THEN "ignored" ELSE gb_errno_to_op_result(err)
    [] OTHER -> step.code

(* The handlers many drivers have: the version, and an operation that only *)
(* succeeds.                                                               *)
VersionHandler == {<<Alloc>>}
EmptyHandler == {<<>>}
=============================================================================
