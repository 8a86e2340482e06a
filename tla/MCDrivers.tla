----------------------------- MODULE MCDrivers -----------------------------
(***************************************************************************)
(* The class drivers, on small instances: the handlers of all of them, the *)
(* life of those that open a device, the threads of uart.c and hid.c, and  *)
(* what spi.c and sdio.c compute from a request.  They meet nowhere: in a  *)
(* behaviour one part moves, and the others stay where they begin.         *)
(***************************************************************************)
EXTENDS Requests, DriverLife, HidEvents, UartDriver, MCTransfers

CONSTANTS w0, w1, c0, c1

VARIABLE part

allVars == <<part, reqVars, lifeVars, hidVars, vars, transferVars>>

(* One of the initial states, where the part at hand is another.           *)
Pinned(p, isFirst) == part # p => isFirst

DriversInit ==
  /\ part \in {"requests", "life", "hid", "uart", "spi", "sdio"}
  /\ RequestsInit /\ Pinned("requests", drv = "loopback")
  /\ LifeInit /\ Pinned("life", driverOf = [c \in BundleCPorts |-> "pwm"])
  /\ HidInit /\ Pinned("hid", ctx = "interrupt")
  /\ Init
  /\ TransfersInit /\ Pinned("spi", transfers = <<>>)
  /\ Pinned("sdio", card = [max_blk_size |-> 512, max_blk_count |-> 1])

Moves(p) == part = p /\ UNCHANGED part

DriversNext ==
  \/ Moves("requests") /\ RequestsNext /\ UNCHANGED <<lifeVars, hidVars, vars, transferVars>>
  \/ Moves("life") /\ LifeNext /\ UNCHANGED <<reqVars, hidVars, vars, transferVars>>
  \/ Moves("hid") /\ HidNext /\ UNCHANGED <<reqVars, lifeVars, vars, transferVars>>
  \/ Moves("uart") /\ Next /\ UNCHANGED <<reqVars, lifeVars, hidVars, transferVars>>

(* The fairness of uart.c's threads.                                       *)
UartFair(A) == part = "uart" /\ fault = "none" /\ A

DriversSpec ==
  /\ DriversInit /\ [][DriversNext]_allVars
  /\ WF_vars(UartFair(RxThread))
  /\ WF_vars(UartFair(StatusThread))
  /\ WF_vars(UartFair(LifeStep))
-----------------------------------------------------------------------------
(* The instances.                                                          *)
MCDriverNames == DOMAIN Handlers
MCStart ==
  [d \in MCDriverNames |->
     CASE d = "pwm" -> "0" [] d = "hid" -> "0" [] d = "camera" -> "UNCONFIGURED" [] OTHER -> "none"]
(* Two cports where the workers meet, over the static header.              *)
MCServing == [d \in MCDriverNames |-> IF d = "loopback" THEN {w0, w1} ELSE {w0}]
(* Two requests where the first leaves something for the second, three for *)
(* the camera's states.                                                    *)
MCMaxRequests ==
  [d \in MCDriverNames |->
     CASE d = "camera" -> 3 [] d \in {"pwm", "hid", "loopback"} -> 2 [] OTHER -> 1]
(* Only the sdio driver tells one errno from another.                      *)
MCErrnos == [d \in MCDriverNames |-> IF d = "sdio" THEN {"EIO", "ETIMEDOUT"} ELSE {"EIO"}]

MCLifeDrivers == ClassDrivers
=============================================================================
