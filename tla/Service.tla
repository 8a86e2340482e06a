------------------------------- MODULE Service ------------------------------
(***************************************************************************)
(* The start of a node and the requests that meet it half started:         *)
(* greybus_service_init (platform/service.c), the manifest, gb_init,       *)
(* enable_cports and _gb_register_driver, beside the receive thread, the   *)
(* workers and the control protocol.                                       *)
(*                                                                         *)
(* The transport receives before gb_init has run, and the workers of the   *)
(* first cports run while the boot thread registers the next ones.  All    *)
(* cports of a protocol share one struct gb_driver: its handler table,     *)
(* which every registration sorts again, and its bundle, which every       *)
(* registration overwrites.                                                *)
(*                                                                         *)
(* A worker has at most one request in hand; queues, exit and              *)
(* unregistration are GbDispatch's.  Nothing in the repository unregisters *)
(* a driver or calls gb_deinit at run time.                                *)
(***************************************************************************)
EXTENDS Manifest, FiniteSets, Functions

CONSTANTS
  Manifests,  (* manifests a node may be built with                        *)
  Clicks,     (* what the two add-on slots may hold: sequences of          *)
              (* fragments, empty in a build without add-on boards         *)
  CPorts,     (* cport numbers the host sends to                           *)
  Bundles,    (* bundle numbers                                            *)
  Protocols,  (* the protocols this build has a driver for                 *)
  Control,    (* the control protocol                                      *)
  DevDrivers, (* the protocols whose init takes a device for the cport     *)
  None,
  MaxReq,     (* bound: requests of the host                               *)
  MaxFail     (* bound: calls that fail, and devices that are missing      *)

ASSUME ServiceAssumption ==
  /\ CPorts \subseteq Nat /\ Bundles \subseteq Nat
  /\ {MaxReq, MaxFail} \subseteq Nat
  /\ DevDrivers \subseteq Protocols \ {Control}
  /\ None \notin CPorts /\ None \notin Bundles /\ None \notin Protocols

(* A manifest declares a list of cports, with numbers and bundles of those *)
(* above.  There are two add-on slots.                                     *)
ASSUME NodeAssumption ==
  /\ \A m \in Manifests :
       LET cps == CPortsOf(m)
       IN  /\ Described(m)
           /\ Len(cps) \in Nat /\ DOMAIN cps = 1..Len(cps)
           /\ \A i \in DOMAIN cps : cps[i].id \in CPorts /\ cps[i].bundle \in Bundles
  /\ \A k \in Clicks :
       Len(k) \in 0..2 /\ DOMAIN k = 1..Len(k) /\ \A i \in DOMAIN k : Described(k[i])

VARIABLES
  manifest,   (* greybus_manifest_builtin                                  *)
  clicks,     (* the fragments of the add-on boards                        *)
  devices,    (* the cports that gb_add_cport_device_mapping was called for *)
  boot,       (* where the boot thread is                                  *)
  max,        (* the largest ids in g_greybus                              *)
  blob,       (* combined_mnfb, bridge_manifest once the transport is up   *)
  cport_count,
  table,      (* g_cport is allocated                                      *)
  bundle,     (* g_bundle: per bundle, cport_start and the devices         *)
  driver,     (* g_cport[c].driver                                         *)
  drv_bundle, (* per protocol, driver->bundle                              *)
  moving,     (* per protocol, qsort is moving its handlers                *)
  req,        (* per cport, the request its worker has in hand             *)
  connected,  (* ghost: cports whose connection the host was told of       *)
  misfiled,   (* ghost: cports whose request met no or another handler     *)
  strayed,    (* ghost: cports whose handler or init used another's device *)
  lost,       (* ghost: connected cports a request of which was dropped    *)
  fault,
  budget      (* ghost: [req, fail], what is left of the bounds            *)

inputs == <<manifest, clicks, devices>>
core == <<cport_count, table, bundle, driver, drv_bundle, moving>>
ghosts == <<connected, misfiled, strayed, lost>>
vars == <<inputs, boot, max, blob, core, req, ghosts, fault, budget>>

List == CPortsOf(manifest)

NoBundle == [start |-> 0, dev |-> <<>>]
NoReq == [pc |-> "none", arg |-> None, kind |-> "plain", bundle |-> None]

Init ==
  /\ manifest \in Manifests
  /\ clicks \in Clicks
  /\ devices \in {D \in SUBSET CPorts : Cardinality(CPorts \ D) <= MaxFail}
  /\ boot = [pc |-> "parse", at |-> 1]
  /\ max = [k \in Kinds |-> 0]
  /\ blob = <<>>
  /\ cport_count = 0
  /\ table = FALSE
  /\ bundle = [b \in Bundles |-> NoBundle]
  /\ driver = [c \in CPorts |-> None]
  /\ drv_bundle = [p \in Protocols |-> None]
  /\ moving = [p \in Protocols |-> FALSE]
  /\ req = [c \in CPorts |-> NoReq]
  /\ connected = {} /\ misfiled = {} /\ strayed = {} /\ lost = {}
  /\ fault = "none"
  /\ budget = [req |-> MaxReq, fail |-> MaxFail]

-----------------------------------------------------------------------------
(* greybus_service_init.                                                   *)

Goto(pc, at) == boot' = [pc |-> pc, at |-> at]

(* A call fails, and the service does not start: its blob is given up.     *)
Fails ==
  /\ budget.fail > 0
  /\ budget' = [budget EXCEPT !.fail = @ - 1]
  /\ blob' = <<>>
  /\ Goto("failed", 0)

Parse ==
  /\ boot.pc = "parse"
  /\ \/ /\ ~Parses(manifest)
        /\ Goto("failed", 0)
        /\ UNCHANGED <<max, blob, budget>>
     \/ /\ Parses(manifest)
        /\ max' = MaxIds(manifest)
        /\ blob' = manifest
        /\ Goto("patch", 1)
        /\ UNCHANGED budget
     \/ Parses(manifest) /\ Fails /\ max' = MaxIds(manifest)
  /\ UNCHANGED <<inputs, core, req, ghosts, fault>>

(* manifest_patch rejects a fragment without descriptors.  In others it    *)
(* passes over a rejected descriptor by 22 bytes, as the errno says, and   *)
(* goes on reading there, be it past the end; and what realloc returns is  *)
(* written to even if it is NULL.                                          *)
Patch ==
  LET f == clicks[boot.at]
  IN  /\ boot.pc = "patch"
      /\ boot.at <= Len(clicks)
      /\ \/ /\ f = <<>>
            /\ Goto("failed", 0)
            /\ UNCHANGED <<max, blob, fault, budget>>
         \/ /\ f # <<>> /\ ~Parses(f)
            /\ fault' = "misread"
            /\ UNCHANGED <<boot, max, blob, budget>>
         \/ /\ Parses(f) /\ KeptAt(f) # {}
            /\ budget.fail > 0
            /\ budget' = [budget EXCEPT !.fail = @ - 1]
            /\ fault' = "null_blob"
            /\ UNCHANGED <<boot, max, blob>>
         \/ /\ Parses(f)
            /\ blob' = blob \o Fragment(max, f)
            /\ max' = NextMax(max, f)
            /\ Goto("patch", boot.at + 1)
            /\ UNCHANGED <<fault, budget>>
      /\ UNCHANGED <<inputs, core, req, ghosts>>

(* There must be cports; gb_transport_backend_init then starts to receive. *)
Backend ==
  /\ boot.pc = "patch"
  /\ boot.at > Len(clicks)
  /\ \/ /\ List = <<>>
        /\ Goto("failed", 0)
        /\ UNCHANGED <<blob, budget>>
     \/ List # <<>> /\ Fails
     \/ List # <<>> /\ Goto("bundles", 0) /\ UNCHANGED <<blob, budget>>
  /\ UNCHANGED <<inputs, max, core, req, ghosts, fault>>

(* gb_init: the table of bundles and the number of cports ...              *)
AllocBundles ==
  /\ boot.pc = "bundles"
  /\ \/ Fails /\ UNCHANGED cport_count
     \/ /\ cport_count' = Len(List)
        /\ Goto("cports", 0)
        /\ UNCHANGED <<blob, budget>>
  /\ UNCHANGED <<inputs, max, table, bundle, driver, drv_bundle, moving, req,
                 ghosts, fault>>

(* ... and the table of cports.                                            *)
AllocCPorts ==
  /\ boot.pc = "cports"
  /\ \/ Fails /\ UNCHANGED table
     \/ /\ table' = TRUE
        /\ Goto("enable", 1)
        /\ UNCHANGED <<blob, budget>>
  /\ UNCHANGED <<inputs, max, cport_count, bundle, driver, drv_bundle, moving, req,
                 ghosts, fault>>

Receiving == boot.pc \notin {"parse", "patch"} /\ (boot.pc = "failed" => cport_count > 0)

-----------------------------------------------------------------------------
(* enable_cports, and _gb_register_driver of one cport after the other.    *)

This == List[boot.at]

(* manifest_get_start_cport_bundle is the lowest number; and as if it were *)
(* none.                                                                   *)
StartZero(b) == 0
Start(b) == StartOf(List, b)

InDevs(b, i) == i + 1 \in DOMAIN bundle[b].dev

(* gb_listen and gb_notify accept the cport, and as if they took any one   *)
(* of the manifest.                                                        *)
Listed(c) == \E i \in DOMAIN List : List[i].id = c
Registered(c) == c < cport_count /\ driver[c] # None

(* Every cport of the manifest that the registration does not reject.      *)
Acceptable(d) ==
  /\ d.protocol \in Protocols
  /\ d.id < cport_count
  /\ driver[d.id] = None
  /\ d.bundle <= MaxBundle(manifest)

RegisterReject ==
  /\ boot.pc = "enable"
  /\ boot.at <= Len(List)
  /\ ~Acceptable(This)
  /\ Goto("enable", boot.at + 1)
  /\ UNCHANGED <<inputs, max, blob, core, req, ghosts, fault, budget>>

(* The bundle is allocated with its first cport, unless there is no        *)
(* memory, and the driver gets it.                                         *)
NewBundle(b) ==
  [start |-> Start(b),
   dev |-> [i \in 1..Cardinality(InBundle(List, b)) |-> None]]

GivenTo(p, b) == [drv_bundle EXCEPT ![p] = b]

RegisterBundle ==
  LET b == This.bundle
  IN  /\ boot.pc = "enable"
      /\ boot.at <= Len(List)
      /\ Acceptable(This)
      /\ \/ /\ bundle' = IF bundle[b] = NoBundle
                         THEN [bundle EXCEPT ![b] = NewBundle(b)] ELSE bundle
            /\ drv_bundle' = GivenTo(This.protocol, b)
            /\ Goto(IF This.protocol \in DevDrivers THEN "init" ELSE "sort", boot.at)
            /\ UNCHANGED budget
         \/ /\ bundle[b] = NoBundle
            /\ budget.fail > 0
            /\ budget' = [budget EXCEPT !.fail = @ - 1]
            /\ Goto("enable", boot.at + 1)
            /\ UNCHANGED <<bundle, drv_bundle>>
      /\ UNCHANGED <<inputs, max, blob, cport_count, table, driver, moving, req,
                     ghosts, fault>>

(* gb_gpio_init, gb_i2c_init, gb_spi_init: no device, no driver.           *)
RegisterInit ==
  LET b == This.bundle
      i == This.id - bundle[b].start
  IN  /\ boot.pc = "init"
      /\ \/ /\ ~InDevs(b, i)
            /\ fault' = "outside"
            /\ strayed' = strayed \cup {This.id}
            /\ UNCHANGED <<bundle, boot>>
         \/ /\ InDevs(b, i)
            /\ This.id \in devices
            /\ bundle' = [bundle EXCEPT ![b].dev[i + 1] = This.id]
            /\ Goto("sort", boot.at)
            /\ UNCHANGED <<fault, strayed>>
         \/ /\ InDevs(b, i)
            /\ This.id \notin devices
            /\ bundle' = [bundle EXCEPT ![b].dev[i + 1] = None]
            /\ Goto("enable", boot.at + 1)
            /\ UNCHANGED <<fault, strayed>>
      /\ UNCHANGED <<inputs, max, blob, cport_count, table, driver, drv_bundle,
                     moving, req, connected, misfiled, lost, budget>>

(* qsort of the driver's handlers, which may move those in their places;   *)
(* and as if the driver were published before it.                          *)
SortPublished ==
  /\ boot.pc = "sort"
  /\ driver' = [driver EXCEPT ![This.id] = This.protocol]
  /\ moving' = [moving EXCEPT ![This.protocol] = TRUE]
  /\ Goto("sorted", boot.at)
  /\ UNCHANGED <<inputs, max, blob, cport_count, table, bundle, drv_bundle,
                 req, ghosts, fault, budget>>

SortBegin ==
  /\ boot.pc = "sort"
  /\ moving' = [moving EXCEPT ![This.protocol] = TRUE]
  /\ Goto("sorted", boot.at)
  /\ UNCHANGED <<inputs, max, blob, cport_count, table, bundle, driver, drv_bundle,
                 req, ghosts, fault, budget>>

SortEnd ==
  /\ boot.pc = "sorted"
  /\ moving' = [moving EXCEPT ![This.protocol] = FALSE]
  /\ Goto("create", boot.at)
  /\ UNCHANGED <<inputs, max, blob, cport_count, table, bundle, driver, drv_bundle,
                 req, ghosts, fault, budget>>

(* pthread_create of the worker, and the driver is there; or it fails, and *)
(* the next cport has its turn.                                            *)
RegisterWorker ==
  /\ boot.pc = "create"
  /\ \/ /\ driver' = [driver EXCEPT ![This.id] = This.protocol]
        /\ UNCHANGED budget
     \/ /\ budget.fail > 0
        /\ budget' = [budget EXCEPT !.fail = @ - 1]
        /\ UNCHANGED driver
  /\ Goto("enable", boot.at + 1)
  /\ UNCHANGED <<inputs, max, blob, cport_count, table, bundle, drv_bundle, moving,
                 req, ghosts, fault>>

EnableEnd ==
  /\ boot.pc = "enable"
  /\ boot.at > Len(List)
  /\ Goto("done", 0)
  /\ UNCHANGED <<inputs, max, blob, core, req, ghosts, fault, budget>>

Boot ==
  \/ Parse \/ Patch \/ Backend \/ AllocBundles \/ AllocCPorts
  \/ RegisterReject \/ RegisterBundle \/ RegisterInit \/ SortBegin \/ SortEnd
  \/ RegisterWorker \/ EnableEnd

-----------------------------------------------------------------------------
(* greybus_rx_handler of a request for cport c, whose kind and cport the   *)
(* control protocol looks at.                                              *)
Receive(c, kind, k) ==
  /\ Receiving
  /\ budget.req > 0
  /\ req[c] = NoReq
  /\ budget' = [budget EXCEPT !.req = @ - 1]
  /\ \/ /\ c < cport_count /\ ~table
        /\ fault' = "null_table"
        /\ UNCHANGED <<req, lost>>
     \/ /\ IF c < cport_count THEN table /\ driver[c] = None ELSE TRUE
        /\ lost' = lost \cup ({c} \cap connected)
        /\ UNCHANGED <<req, fault>>
     \/ /\ c < cport_count /\ driver[c] # None
        /\ req' = [req EXCEPT ![c] = [NoReq EXCEPT !.pc = "find", !.kind = kind, !.arg = k]]
        /\ UNCHANGED <<lost, fault>>
  /\ UNCHANGED <<inputs, boot, max, blob, core, connected, misfiled, strayed>>

Request(c) ==
  \/ Receive(c, "plain", None)
  \/ \E k \in CPorts :
       Receive(c, "connect", k) \/ Receive(c, "disconnect", k)

(* gb_process_request in the worker of cport c.  The binary search in a    *)
(* table on the move may find nothing, and the request is answered as      *)
(* invalid; what it found may be another handler when it is called.        *)
WFind(c) ==
  /\ req[c].pc = "find"
  /\ \/ /\ req' = [req EXCEPT ![c].pc = "bundle"]
        /\ UNCHANGED misfiled
     \/ /\ moving[driver[c]]
        /\ req' = [req EXCEPT ![c] = NoReq]
        /\ misfiled' = misfiled \cup {c}
  /\ UNCHANGED <<inputs, boot, max, blob, core, connected, strayed, lost, fault, budget>>

WBundle(c) ==
  /\ req[c].pc = "bundle"
  /\ req' = [req EXCEPT ![c].pc = "run", ![c].bundle = drv_bundle[driver[c]]]
  /\ UNCHANGED <<inputs, boot, max, blob, core, ghosts, fault, budget>>

WMisfiled(c) ==
  /\ req[c].pc = "run"
  /\ moving[driver[c]]
  /\ req' = [req EXCEPT ![c] = NoReq]
  /\ misfiled' = misfiled \cup {c}
  /\ UNCHANGED <<inputs, boot, max, blob, core, connected, strayed, lost, fault, budget>>

(* A handler that takes its device from the bundle of the operation.       *)
WDevice(c) ==
  LET b == req[c].bundle
      i == c - bundle[b].start
  IN  /\ req[c].pc = "run"
      /\ driver[c] \in DevDrivers
      /\ req' = [req EXCEPT ![c] = NoReq]
      /\ fault' = IF InDevs(b, i) THEN fault ELSE "outside"
      /\ strayed' = IF InDevs(b, i) /\ bundle[b].dev[i + 1] = c
                    THEN strayed ELSE strayed \cup {c}
      /\ UNCHANGED <<inputs, boot, max, blob, core, connected, misfiled, lost, budget>>

WOther(c) ==
  /\ req[c].pc = "run"
  /\ driver[c] \notin DevDrivers
  /\ driver[c] = Control => req[c].kind = "plain"
  /\ req' = [req EXCEPT ![c] = NoReq]
  /\ UNCHANGED <<inputs, boot, max, blob, core, ghosts, fault, budget>>

(* gb_control_connected: gb_listen and gb_notify both ask for the driver;  *)
(* the transports have nothing to do for a cport that is connected.        *)
CtlListen(c) ==
  LET k == req[c].arg
  IN  /\ req[c].pc = "run"
      /\ driver[c] = Control
      /\ req[c].kind = "connect"
      /\ req' = [req EXCEPT ![c] = IF Registered(k) THEN [@ EXCEPT !.pc = "notify"] ELSE NoReq]
      /\ UNCHANGED <<inputs, boot, max, blob, core, ghosts, fault, budget>>

CtlNotify(c) ==
  LET k == req[c].arg
  IN  /\ req[c].pc = "notify"
      /\ req' = [req EXCEPT ![c] = NoReq]
      /\ connected' = IF Registered(k) THEN connected \cup {k} ELSE connected
      /\ UNCHANGED <<inputs, boot, max, blob, core, misfiled, strayed, lost, fault, budget>>

(* gb_control_disconnected; the host is told so if the cport has a driver. *)
CtlDisconnect(c) ==
  LET k == req[c].arg
  IN  /\ req[c].pc = "run"
      /\ driver[c] = Control
      /\ req[c].kind = "disconnect"
      /\ req' = [req EXCEPT ![c] = NoReq]
      /\ connected' = IF Registered(k) THEN connected \ {k} ELSE connected
      /\ UNCHANGED <<inputs, boot, max, blob, core, misfiled, strayed, lost, fault, budget>>

Worker(c) ==
  \/ WFind(c) \/ WBundle(c) \/ WMisfiled(c) \/ WDevice(c) \/ WOther(c)
  \/ CtlListen(c) \/ CtlNotify(c) \/ CtlDisconnect(c)

(* Nothing is said of the node after a wild access.                        *)
Next ==
  /\ fault = "none"
  /\ Boot \/ \E c \in CPorts : Request(c) \/ Worker(c)

Spec == Init /\ [][Next]_vars

-----------------------------------------------------------------------------
(* Properties.                                                             *)

(* The types, and that a handler runs with a bundle: the driver of a cport *)
(* is seen only when driver->bundle was set (greybus-core.c:264, 611).     *)
TypeOK ==
  /\ boot.at \in 0..(Len(List) + Len(clicks) + 1)
  /\ cport_count \in {0, Len(List)}
  /\ table => cport_count = Len(List)
  /\ \A c \in CPorts :
       /\ driver[c] \in Protocols \cup {None}
       /\ req[c].arg \in CPorts \cup {None}
       /\ req[c].pc # "none" => driver[c] # None
       /\ req[c].pc \in {"run", "notify"} => req[c].bundle \in Bundles
  /\ \A p \in Protocols : drv_bundle[p] \in Bundles \cup {None}
  /\ \A b \in Bundles : Range(bundle[b].dev) \subseteq CPorts \cup {None}
  /\ connected \cup misfiled \cup strayed \cup lost \subseteq CPorts
  /\ fault \in {"none", "misread", "null_blob", "null_table", "outside"}

(* The combined manifest a host reads (manifest_patch): every id is the    *)
(* only one of its kind, and every property and device names the string it *)
(* named in its own part, if it was so in the parts, their fragments count *)
(* from 1, and the ids, which grow by more than they need to with every    *)
(* fragment, fit one byte.  The links of a device to properties are not    *)
(* kept: they stay while the properties move, and so each is off by        *)
(* exactly the largest property id that stood before its fragment; where   *)
(* there was none it is right, elsewhere it is to another property or to   *)
(* none (greybus-manifest.c:378-412, 568-570).                             *)
Needed(kind) ==
  LET L(i) == IF i \in DOMAIN clicks THEN Largest(Ids(clicks[i], kind)) ELSE 0
  IN  2 * MaxIds(manifest)[kind] + L(1) + L(2)

PartsFit ==
  /\ WellFormed(manifest)
  /\ \A i \in DOMAIN clicks :
       WellFormed(clicks[i]) /\ \A kind \in Kinds : 0 \notin Ids(clicks[i], kind)
  /\ \A kind \in Kinds : Needed(kind) < IdRange

PatchKeepsRefs == PartsFit => WellFormed(blob)

(* Cport j of the manifest is registered with the driver of cport i while  *)
(* the worker of cport i may run.                                          *)
Later(i, j) ==
  /\ i < j /\ List[i].protocol = List[j].protocol
  /\ List[j].id < Len(List) /\ List[j].bundle <= MaxBundle(manifest)

(* The number of a cport in its bundle is beyond the bundle's devices.     *)
Gap(i) ==
  LET b == List[i].bundle
  IN  List[i].id - StartOf(List, b) >= Cardinality(InBundle(List, b))

(* A handler works on the device of its own cport (gpio.c, i2c.c, spi.c),  *)
(* unless the numbers of the bundle's cports have a gap (greybus-core.c:   *)
(* 605), or a later cport of the protocol, in another bundle, has taken    *)
(* the driver's one bundle pointer (greybus-core.c:611); the state stays   *)
(* of its type.                                                            *)
BundleIsOwn ==
  /\ TypeOK
  /\ \A c \in strayed :
       \E i \in DOMAIN List :
         /\ List[i].id = c
         /\ \/ Gap(i)
            \/ \E j \in DOMAIN List : Later(i, j) /\ List[i].bundle # List[j].bundle

(* A request meets the handler of its type, unless the registration of a   *)
(* later cport of the protocol sorts the shared table while the search or  *)
(* the call is under way (greybus-core.c:231-241, 266, 621-624).           *)
HandlerIsOwn ==
  \A c \in misfiled :
    \E i, j \in DOMAIN List : List[i].id = c /\ Later(i, j)

(* Once the host was told that a cport is connected, no request for it is  *)
(* dropped: the boot thread may not be done, but gb_control_connected      *)
(* accepts only a cport whose driver was published, and then its worker,   *)
(* its bundle and the table are there (greybus-core.c:465-468, 638, 660).  *)
ConnectedIsServed ==
  lost = {} /\ (connected # {} => fault # "null_table")

(* "Note: control bundle 0 and control cport 0 are optional" (samples/...  *)
(* /beagleconnect_freedom.overlay:87): started without a failure, a node   *)
(* serves every cport whose protocol it has a driver for.  But the number  *)
(* of cports is taken for a bound of their ids (greybus-core.c:561).       *)
AllServed ==
  boot.pc = "done" /\ budget.fail = MaxFail =>
    \A i \in DOMAIN List :
      /\ List[i].protocol \in Protocols
      /\ List[i].protocol \in DevDrivers => List[i].id \in devices
      => driver[List[i].id] # None
=============================================================================
