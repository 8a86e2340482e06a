---------------------------- MODULE MCGbDispatch ----------------------------
(* The receive path on small instances, and its refinement of Mailbox.     *)
EXTENDS GbDispatch

CONSTANT Watched (* the cport whose queue is compared with a mailbox       *)

ASSUME WatchedAssumption == Watched \in CPorts

MCMessage == [seq : 1..MaxMsgs, kind : Kinds]

Box == INSTANCE Mailbox WITH
  Message <- MCMessage,
  box <- rx_fifo[Watched],
  running <- current[Watched],
  consumer <- IF worker[Watched] \in {"none", "exited"} THEN "off"
              ELSE IF exit_worker[Watched] THEN "leaving" ELSE "on",
  status <- IF fault = "none" THEN "live" ELSE "stopped"

(* A cport's rx_fifo, semaphore and worker implement a mailbox, with its   *)
(* liveness: what is put is taken, in order, one at a time, and the        *)
(* consumer leaves only an empty box (greybus-core.c:378-418, 508-511).    *)
ImplementsMailbox == Box!Spec
=============================================================================
