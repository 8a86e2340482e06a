----------------------------- MODULE DriverLife -----------------------------
(***************************************************************************)
(* The init and exit functions of the class drivers, on the cports of one  *)
(* bundle.  A driver keeps what it allocated in the bundle (bundle->dev    *)
(* and bundle->priv) or, for camera.c and usb.c, in a static variable of   *)
(* the file: either way cports share it.  The core calls init when a       *)
(* driver is registered and exit after the cport's worker has ended, one   *)
(* cport at a time; the handlers of the cports that are served and the     *)
(* callbacks of the devices run in between.  (uart.c is in UartDriver.)    *)
(***************************************************************************)
EXTENDS Naturals, Sequences

CONSTANTS
  BundleCPorts, \* the cports of the bundle
  Null,         \* no pointer
  LifeDrivers,  \* the drivers a cport may have
  MaxLives      \* bound: times each cport's driver is initialised

VARIABLES
  driverOf,  \* each cport's driver
  job,       \* each cport: what the core is doing with it, and the steps left
  dev,       \* each place's device: a handle, or the array the core put there
  priv,      \* each place's info
  infos,     \* the infos allocated and not freed
  handles,   \* the device handles open
  callbacks,  \* the callbacks: a handle and the info it is called with
  lives,     \* bound: times each cport's driver was initialised
  crowded,   \* history: two cports were initialised that share a place
  misused    \* history: a freed, closed or null thing was used

lifeVars == <<driverOf, job, dev, priv, infos, handles, callbacks, lives, crowded, misused>>

(* The class drivers that keep something in their bundle, or their file.   *)
ClassDrivers ==
  {"pwm", "lights", "hid", "sdio", "power_supply", "camera", "usb", "gpio", "i2c", "spi"}

ASSUME LifeAssumption ==
  /\ LifeDrivers \subseteq ClassDrivers
  /\ MaxLives \in Nat

(* Where a driver keeps its device and its info: in the cport's bundle, or *)
(* in a static variable of its file.                                       *)
Homes == {"bundle", "camera", "usb"}
HomeOf(c) == IF driverOf[c] \in Homes THEN driverOf[c] ELSE "bundle"

Array == <<"array">>          \* bundle->dev as the core allocates it: one a cport
Own(c) == <<c, lives[c]>>     \* the info, and the handle, of this life

(* The null pointer is neither.                                            *)
ASSUME NullAssumption == Null \notin {Array} \cup (BundleCPorts \X (1..MaxLives))

LifeInit ==
  /\ driverOf \in [BundleCPorts -> LifeDrivers]
  /\ job = [c \in BundleCPorts |-> [pc |-> "off", todo |-> <<>>]]
  /\ dev = [p \in Homes |-> IF p = "bundle" THEN Array ELSE Null]
  /\ priv = [p \in Homes |-> Null]
  /\ infos = {} /\ handles = {} /\ callbacks = {}
  /\ lives = [c \in BundleCPorts |-> 0]
  /\ crowded = FALSE /\ misused = FALSE

-----------------------------------------------------------------------------
(* The functions, as what they do in order; a step of an init comes with   *)
(* what the code undoes when it fails.  AttachKeepsOpen leaves the device  *)
(* of a failed init open, ExitAttached the callback of hid.c attached.     *)
Try(do, undo) == [do |-> do, undo |-> undo]
Do(do) == [do |-> do, undo |-> <<>>]

CloseDev == Do("close")
FreeInfo == Do("free")

gb_pwm_init == <<Do("zalloc"), Try("open", <<FreeInfo>>), Do("keep")>>
AttachKeepsOpen ==
  <<Do("zalloc"), Try("open", <<FreeInfo>>), Try("attach", <<FreeInfo>>), Do("keep")>>
gb_lights_init ==
  <<Do("zalloc"), Try("open", <<FreeInfo>>), Try("attach", <<CloseDev, FreeInfo>>), Do("keep")>>
gb_hid_init ==
  <<Do("zalloc"), Try("open", <<FreeInfo>>), Try("prepare", <<CloseDev, FreeInfo>>),
    Try("attach", <<CloseDev, FreeInfo>>), Do("keep")>>
gb_sdio_init == <<Do("zalloc"), Try("open", <<FreeInfo>>), Try("attach", <<CloseDev, FreeInfo>>)>>
gb_power_supply_init ==
  <<Do("zalloc"), Try("open", <<FreeInfo>>), Try("attach", <<CloseDev, FreeInfo>>)>>
gb_camera_init == <<Do("zalloc"), Do("open")>>
gb_usb_init == <<Do("open")>>
gb_gpio_init == <<Do("bind")>>
gb_i2c_init == <<Do("bind")>>
gb_spi_init == <<Do("bind")>>

InitOf(d) ==
  [pwm |-> gb_pwm_init, lights |-> gb_lights_init, hid |-> gb_hid_init, sdio |-> gb_sdio_init,
   power_supply |-> gb_power_supply_init, camera |-> gb_camera_init, usb |-> gb_usb_init,
   gpio |-> gb_gpio_init, i2c |-> gb_i2c_init, spi |-> gb_spi_init][d]

gb_pwm_exit == <<Do("close_if_open"), Do("free_kept")>>
gb_lights_exit == <<Do("detach"), CloseDev, Do("free_kept")>>
ExitAttached == <<CloseDev, Do("free_kept")>>
gb_hid_exit == <<Do("detach"), CloseDev, Do("free_kept")>>
gb_sdio_exit == <<Do("detach"), CloseDev, Do("free_kept")>>
gb_power_supply_exit == <<Do("detach"), CloseDev, Do("free_kept")>>
gb_camera_exit == <<CloseDev, Do("free_kept"), Do("forget")>>
gb_usb_exit == <<Do("close_if_open")>>
gb_gpio_exit == <<>>
gb_i2c_exit == <<>>
gb_spi_exit == <<>>

ExitOf(d) ==
  [pwm |-> gb_pwm_exit, lights |-> gb_lights_exit, hid |-> gb_hid_exit, sdio |-> gb_sdio_exit,
   power_supply |-> gb_power_supply_exit, camera |-> gb_camera_exit, usb |-> gb_usb_exit,
   gpio |-> gb_gpio_exit, i2c |-> gb_i2c_exit, spi |-> gb_spi_exit][d]

OfArray == {"gpio", "i2c", "spi"}         \* the drivers that use bundle->dev[i]
ReadsInfo == {"pwm", "hid", "camera"}     \* whose handlers read the info
ChecksNull == {"pwm", "hid"}              \* and look for a null pointer first

-----------------------------------------------------------------------------
(* _gb_register_driver calls init while nothing else is being registered   *)
(* or unregistered.                                                        *)
BeginInit(c) ==
  /\ \A b \in BundleCPorts : job[b].pc \in {"off", "on"}
  /\ job[c].pc = "off" /\ lives[c] < MaxLives
  /\ lives' = [lives EXCEPT ![c] = @ + 1]
  /\ crowded' = (crowded \/ \E b \in BundleCPorts \ {c} :
                              lives[b] > 0 /\ HomeOf(b) = HomeOf(c))
  /\ job' = [job EXCEPT ![c] = [pc |-> "init", todo |-> InitOf(driverOf[c])]]
  /\ UNCHANGED <<driverOf, dev, priv, infos, handles, callbacks, misused>>

Same == UNCHANGED <<driverOf, lives, crowded>>

(* The step at hand, when it is of these kinds, and what comes after it.   *)
Does(c, kinds) == job[c].todo # <<>> /\ Head(job[c].todo).do \in kinds
GoOn(c) == job' = [job EXCEPT ![c].todo = Tail(@)]

(* A step of an init fails: what the code undoes, and the driver is not    *)
(* registered.                                                             *)
GiveUp(c) == job' = [job EXCEPT ![c] = [pc |-> "undo", todo |-> Head(job[c].todo).undo]]

(* camera.c stores the info, or the null pointer, at once: the device it   *)
(* keeps there is gone.                                                    *)
Emptied(c, info) ==
  IF driverOf[c] = "camera"
    THEN /\ priv' = [priv EXCEPT ![HomeOf(c)] = info]
         /\ dev' = [dev EXCEPT ![HomeOf(c)] = Null]
    ELSE UNCHANGED <<priv, dev>>

Zalloc(c) ==
  /\ Does(c, {"zalloc"})
  /\ \/ GoOn(c) /\ infos' = infos \cup {Own(c)} /\ Emptied(c, Own(c))
     \/ GiveUp(c) /\ UNCHANGED infos /\ Emptied(c, Null)
  /\ UNCHANGED <<handles, callbacks, misused>> /\ Same

(* device_open: the handle, or the null pointer, is stored at once.        *)
Open(c) ==
  /\ Does(c, {"open"})
  /\ \/ GoOn(c) /\ handles' = handles \cup {Own(c)}
        /\ dev' = [dev EXCEPT ![HomeOf(c)] = Own(c)]
     \/ GiveUp(c) /\ UNCHANGED handles
        /\ dev' = [dev EXCEPT ![HomeOf(c)] = Null]
  /\ UNCHANGED <<priv, infos, callbacks, misused>> /\ Same

(* The device gets a callback and this driver's info.                      *)
Attach(c) ==
  /\ Does(c, {"attach"})
  /\ \/ GoOn(c) /\ callbacks' = callbacks \cup {<<dev[HomeOf(c)], Own(c)>>}
     \/ GiveUp(c) /\ UNCHANGED callbacks
  /\ UNCHANGED <<dev, priv, infos, handles, misused>> /\ Same

(* hid.c: the report length, the queues and the thread.                    *)
Prepare(c) ==
  /\ Does(c, {"prepare"})
  /\ GoOn(c) \/ GiveUp(c)
  /\ UNCHANGED <<dev, priv, infos, handles, callbacks, misused>> /\ Same

Keep(c) ==
  /\ Does(c, {"keep"})
  /\ GoOn(c)
  /\ priv' = [priv EXCEPT ![HomeOf(c)] = Own(c)]
  /\ UNCHANGED <<dev, infos, handles, callbacks, misused>> /\ Same

(* bundle->dev[i] = the cport's device: a write into the core's array, or  *)
(* into whatever another driver has put in its place.                      *)
Bind(c) ==
  /\ Does(c, {"bind"})
  /\ GoOn(c) \/ GiveUp(c)
  /\ misused' = (misused \/ dev[HomeOf(c)] # Array)
  /\ UNCHANGED <<dev, priv, infos, handles, callbacks>> /\ Same

(* The end of an init: the worker is started, or cannot be and exit is     *)
(* called; and the end of the undoing and of an exit.                      *)
Served(c) ==
  /\ job[c].todo = <<>>
  /\ \/ /\ job[c].pc = "init"
        /\ \E next \in {[pc |-> "on", todo |-> <<>>], [pc |-> "exit", todo |-> ExitOf(driverOf[c])]} :
             job' = [job EXCEPT ![c] = next]
     \/ /\ job[c].pc \in {"undo", "exit"}
        /\ job' = [job EXCEPT ![c] = [pc |-> "off", todo |-> <<>>]]
  /\ UNCHANGED <<dev, priv, infos, handles, callbacks, misused>> /\ Same

(* gb_unregister_driver joined the cport's worker.                         *)
BeginExit(c) ==
  /\ \A b \in BundleCPorts : job[b].pc \in {"off", "on"}
  /\ job[c].pc = "on"
  /\ job' = [job EXCEPT ![c] = [pc |-> "exit", todo |-> ExitOf(driverOf[c])]]
  /\ UNCHANGED <<dev, priv, infos, handles, callbacks, misused>> /\ Same

CloseIt(c) ==
  /\ Does(c, {"close", "close_if_open"})
  /\ GoOn(c)
  /\ handles' = handles \ {dev[HomeOf(c)]}
  /\ misused' = \/ misused
                \/ /\ dev[HomeOf(c)] \notin handles
                   /\ dev[HomeOf(c)] # Null \/ Does(c, {"close"})
  /\ UNCHANGED <<dev, priv, infos, callbacks>> /\ Same

(* The info an init still has at hand is freed.                            *)
FreeOwn(c) ==
  /\ Does(c, {"free"})
  /\ GoOn(c)
  /\ infos' = infos \ {Own(c)}
  /\ UNCHANGED <<dev, priv, handles, callbacks, misused>> /\ Same

(* An exit frees the info it finds, and free(NULL) does nothing; camera.c  *)
(* reads its device from there before.                                     *)
FreeKept(c) ==
  /\ Does(c, {"free_kept"})
  /\ GoOn(c)
  /\ infos' = infos \ {priv[HomeOf(c)]}
  /\ misused' = (misused \/ priv[HomeOf(c)] \notin infos \cup {Null})
  /\ UNCHANGED <<dev, priv, handles, callbacks>> /\ Same

(* camera.c: info = NULL, and the device with it.                          *)
Forget(c) ==
  /\ Does(c, {"forget"})
  /\ GoOn(c)
  /\ priv' = [priv EXCEPT ![HomeOf(c)] = Null]
  /\ dev' = [dev EXCEPT ![HomeOf(c)] = Null]
  /\ UNCHANGED <<infos, handles, callbacks, misused>> /\ Same

Detach(c) ==
  /\ Does(c, {"detach"})
  /\ GoOn(c)
  /\ callbacks' = {a \in callbacks : a[1] # dev[HomeOf(c)]}
  /\ misused' = (misused \/ dev[HomeOf(c)] \notin handles)
  /\ UNCHANGED <<dev, priv, infos, handles>> /\ Same

(* A handler of a served cport works with the device, and with the info.   *)
Handle(c) ==
  LET p == HomeOf(c)  d == driverOf[c] IN
  /\ job[c].pc = "on"
  /\ misused' = \/ misused
                \/ d \in OfArray /\ dev[p] # Array
                \/ /\ d \notin OfArray
                   /\ d \in ChecksNull => dev[p] # Null /\ priv[p] # Null
                   /\ dev[p] \notin handles \/ (d \in ReadsInfo /\ priv[p] \notin infos)
  /\ UNCHANGED <<job, dev, priv, infos, handles, callbacks>> /\ Same

(* An event of a device: its callback reads the info.                      *)
Callback(a) ==
  /\ misused' = (misused \/ a[2] \notin infos)
  /\ UNCHANGED <<job, dev, priv, infos, handles, callbacks>> /\ Same

(* After a misuse there is nothing more to say.                            *)
LifeNext ==
  /\ ~misused
  /\ \/ \E c \in BundleCPorts :
          \/ BeginInit(c) \/ Zalloc(c) \/ Open(c) \/ Attach(c) \/ Prepare(c) \/ Keep(c)
          \/ Bind(c) \/ Served(c) \/ BeginExit(c) \/ CloseIt(c) \/ FreeOwn(c)
          \/ FreeKept(c) \/ Forget(c) \/ Detach(c) \/ Handle(c)
     \/ \E a \in callbacks : Callback(a)

LifeSpec == LifeInit /\ [][LifeNext]_lifeVars

-----------------------------------------------------------------------------
(* Type correctness: what is kept or open was made by an init.             *)
LifeTypeOK ==
  /\ driverOf \in [BundleCPorts -> LifeDrivers]
  /\ \A c \in BundleCPorts : job[c].pc \in {"off", "init", "undo", "on", "exit"}
  /\ lives \in [BundleCPorts -> 0..MaxLives]
  /\ infos \cup handles \subseteq BundleCPorts \X (1..MaxLives)
  /\ {crowded, misused} \subseteq BOOLEAN

(* A driver alone in its bundle (and in its file) never uses what it freed *)
(* or closed, nor a null pointer, through any failure of its init and any  *)
(* number of registrations: pointers that stay behind in the bundle are    *)
(* only followed when a second cport shares it (greybus-core.c:585-618).   *)
FaultNeedsCrowd == misused => crowded

(* The drivers whose exit cannot free the info, because init never kept    *)
(* it, and the one whose failed init leaves it behind.                     *)
Leaky == {"sdio", "power_supply", "camera"}

(* Once every cport is unregistered no device is open and no callback can  *)
(* come, and every info has been freed but those of the leaky drivers,     *)
(* unless two cports shared the bundle: what the second init overwrote is  *)
(* lost (sdio.c:387-446, power_supply.c:346-406, camera.c:446-496).  The   *)
(* state stays of its type.                                                *)
OnlyLeakyLeak ==
  /\ LifeTypeOK
  /\ (\A c \in BundleCPorts : job[c].pc = "off") /\ ~crowded /\ ~misused =>
       /\ handles = {} /\ callbacks = {}
       /\ \A i \in infos : driverOf[i[1]] \in Leaky
=============================================================================
