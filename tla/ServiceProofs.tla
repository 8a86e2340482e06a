---------------------------- MODULE ServiceProofs ----------------------------
(***************************************************************************)
(* What is proved of the start of a node and its first requests, for any   *)
(* manifests, add-on boards, cports, bundles, protocols and bounds.        *)
(***************************************************************************)
EXTENDS Service, FiniteSetTheorems, WellFoundedInduction, TLAPS

Registering == {"init", "sort", "sorted", "create"}
Enabled == {"enable", "done"} \cup Registering
Early == {"parse", "patch", "bundles", "cports", "failed"}

Asks ==
  [pc : {"none", "find", "bundle", "run", "notify"}, arg : CPorts \cup {None},
   kind : {"plain", "connect", "disconnect"}, bundle : Bundles \cup {None}]

Faults == {"none", "misread", "null_blob", "null_table", "outside"}

(* The shape of the state, and what the host may know.                     *)
ShapeInv ==
  /\ manifest \in Manifests /\ clicks \in Clicks
  /\ driver \in [CPorts -> Protocols \cup {None}]
  /\ drv_bundle \in [Protocols -> Bundles \cup {None}]
  /\ req \in [CPorts -> Asks]
  /\ DOMAIN bundle = Bundles
  /\ \A b \in Bundles :
       /\ bundle[b] = [start |-> bundle[b].start, dev |-> bundle[b].dev]
       /\ \A i \in DOMAIN bundle[b].dev : bundle[b].dev[i] \in CPorts \cup {None}
  /\ \A p \in Protocols : moving[p] => boot.pc = "sorted" /\ This.protocol = p
  /\ DOMAIN moving = Protocols
  /\ fault \in Faults

(* Where the boot thread is, and what gb_init has allocated by then.       *)
BootInv ==
  /\ boot.pc \in Early \cup Enabled
  /\ boot.pc = "parse" => boot.at = 1
  /\ boot.pc = "patch" => boot.at \in 1..Len(clicks) + 1
  /\ boot.pc = "enable" => boot.at \in 1..Len(List) + 1
  /\ boot.pc \in Registering => boot.at \in 1..Len(List) /\ Acceptable(This)
  /\ boot.pc \in {"bundles", "cports", "failed", "done"} => boot.at = 0
  /\ boot.pc \in {"parse", "patch", "bundles"} => cport_count = 0
  /\ cport_count \in {0, Len(List)}
  /\ boot.pc \in {"cports"} \cup Enabled => cport_count = Len(List)
  /\ table <=> boot.pc \in Enabled

(* A bundle has what its first cport allocated.                            *)
Built(b) ==
  /\ bundle[b].start = StartOf(List, b)
  /\ DOMAIN bundle[b].dev = 1..Cardinality(InBundle(List, b))

(* The device of a cport is in the place its handlers look for it.         *)
Slot(d) ==
  LET i == d.id - StartOf(List, d.bundle)
  IN  d.protocol \in DevDrivers =>
        i + 1 \in DOMAIN bundle[d.bundle].dev /\ bundle[d.bundle].dev[i + 1] = d.id

(* The bundle of cport i's driver: its own, or a later cport's.            *)
Given(i, b) ==
  b = List[i].bundle \/ \E j \in DOMAIN List : Later(i, j) /\ List[j].bundle = b

Passed(i) == boot.pc = "done" \/ i < boot.at

BuiltInv ==
  /\ \A b \in Bundles : bundle[b] = NoBundle \/ Built(b)
  /\ boot.pc \in Registering =>
       Built(This.bundle) /\ drv_bundle[This.protocol] = This.bundle
  /\ boot.pc \in Registering \ {"init"} => Slot(This)

(* The i-th cport of the manifest is c, and c has a driver.                *)
Serves(c, i) ==
  /\ i \in DOMAIN List /\ Passed(i)
  /\ List[i].id = c /\ List[i].protocol = driver[c]
  /\ Built(List[i].bundle) /\ Slot(List[i])
  /\ Given(i, drv_bundle[driver[c]])
  /\ req[c].pc \in {"run", "notify"} => Given(i, req[c].bundle)

ServesInv ==
  \A c \in CPorts :
    driver[c] # None =>
      /\ boot.pc \in Enabled /\ c < cport_count
      /\ \E i \in DOMAIN List : Serves(c, i)

ReqInv ==
  /\ \A c \in CPorts :
       /\ req[c].pc # "none" => driver[c] # None
       /\ req[c].kind # "plain" => req[c].arg \in CPorts
       /\ req[c].pc = "notify" => req[c].kind = "connect"
  /\ connected \subseteq {c \in CPorts : driver[c] # None}
  /\ misfiled \cup strayed \subseteq CPorts

(* The part of BundleIsOwn that is not about types.                        *)
StrayedInv ==
  \A c \in strayed :
    \E i \in DOMAIN List :
      /\ List[i].id = c
      /\ \/ Gap(i)
         \/ \E j \in DOMAIN List : Later(i, j) /\ List[i].bundle # List[j].bundle

BuildInv == ShapeInv /\ BootInv /\ BuiltInv
HostInv == ServesInv /\ ReqInv
IInv == BuildInv /\ HostInv /\ ConnectedIsServed /\ HandlerIsOwn /\ StrayedInv

-----------------------------------------------------------------------------
(* What does not change.                                                   *)

LEMMA ListFacts ==
  ASSUME ShapeInv
  PROVE  /\ Len(List) \in Nat /\ DOMAIN List = 1..Len(List) /\ Len(clicks) \in Nat
         /\ \A i \in DOMAIN List :
              List[i].id \in CPorts /\ List[i].id \in Nat /\ List[i].bundle \in Bundles
  BY NodeAssumption, ServiceAssumption DEF ShapeInv, List

LEMMA SameList ==
  ASSUME manifest' = manifest
  PROVE  /\ List' = List
         /\ \A b : StartOf(List, b)' = StartOf(List, b) /\ InBundle(List, b)' = InBundle(List, b)
         /\ \A i, j : Later(i, j)' <=> Later(i, j)
         /\ \A i, b : Given(i, b)' <=> Given(i, b)
         /\ \A i : Gap(i)' <=> Gap(i)
<1>1. List' = List
  BY DEF List
<1>2. \A i, j : Later(i, j)' <=> Later(i, j)
  BY <1>1 DEF Later
<1> QED
  BY <1>1, <1>2 DEF Given, Gap

(* The number of a bundle's cports, and where they start.                  *)
LEMMA BundleFacts ==
  ASSUME ShapeInv, NEW i \in DOMAIN List
  PROVE  LET b == List[i].bundle
         IN  /\ Cardinality(InBundle(List, b)) \in Nat
             /\ StartOf(List, b) \in Nat /\ StartOf(List, b) <= List[i].id
<1> DEFINE b == List[i].bundle
           S == {List[k].id : k \in InBundle(List, b)}
<1>1. InBundle(List, b) \subseteq 1..Len(List) /\ i \in InBundle(List, b)
  BY ListFacts DEF InBundle
<1>2. Cardinality(InBundle(List, b)) \in Nat
  <2>1. IsFiniteSet(1..Len(List))
    BY ListFacts, FS_Interval
  <2> QED
    BY <1>1, <2>1, FS_Subset, FS_CardinalityType
<1>3. S \subseteq Nat /\ List[i].id \in S
  BY <1>1, ListFacts
<1>4. \E n \in S : \A k \in S : n <= k
  <2>1. \E n \in S : \A k \in S : <<k, n>> \notin OpToRel(<, Nat)
    <3> HIDE DEF S
    <3> QED
      BY <1>3, NatLessThanWellFounded, WFMin
  <2>2. \A k, n \in S : <<k, n>> \notin OpToRel(<, Nat) => n <= k
    BY <1>3 DEF OpToRel
  <2> QED
    BY <2>1, <2>2
<1>5. \E n \in S : \A k \in InBundle(List, b) : n <= List[k].id
  BY <1>4
<1>6. StartOf(List, b) \in S /\ \A k \in InBundle(List, b) : StartOf(List, b) <= List[k].id
  BY <1>5 DEF StartOf
<1> QED
  BY <1>1, <1>2, <1>3, <1>6

(* A cport goes on being served while the boot thread goes on.             *)
LEMMA ServesKept ==
  ASSUME IInv, manifest' = manifest, NEW c \in CPorts, driver[c] # None,
         driver'[c] = driver[c],
         \A i \in DOMAIN List : Passed(i) => Passed(i)',
         \A b \in Bundles : Built(b) => Built(b)',
         \A i \in DOMAIN List : List[i].id = c /\ Slot(List[i]) => Slot(List[i])',
         \A i \in DOMAIN List : Serves(c, i) => Given(i, drv_bundle'[driver[c]]),
         \A i \in DOMAIN List :
           Serves(c, i) /\ req'[c].pc \in {"run", "notify"} => Given(i, req'[c].bundle)
  PROVE  \E i \in DOMAIN List' : Serves(c, i)'
<1>1. PICK i \in DOMAIN List : Serves(c, i)
  BY DEF IInv, HostInv, ServesInv
<1>2. PICK b \in Bundles : b = List[i].bundle
  BY ListFacts DEF IInv, BuildInv
<1>3. List' = List
  BY SameList
<1>4. Passed(i)' /\ Built(b)' /\ Slot(List[i])'
  BY <1>1, <1>2 DEF Serves
<1>5. Given(i, drv_bundle[driver[c]])'
  BY <1>1, SameList
<1>6. (req[c].pc \in {"run", "notify"} => Given(i, req[c].bundle))'
  BY <1>1, SameList
<1>7. Serves(c, i)'
  BY <1>1, <1>2, <1>3, <1>4, <1>5, <1>6 DEF Serves
<1> QED
  BY <1>3, <1>7

(* The state is of its types.                                              *)
LEMMA Types ==
  ASSUME IInv
  PROVE  TypeOK
<1> USE DEF IInv, BuildInv, HostInv
<1>1. boot.at \in 0..Len(List) + Len(clicks) + 1
  BY ListFacts DEF BootInv, Early, Enabled, Registering
<1>2. cport_count \in {0, Len(List)} /\ (table => cport_count = Len(List))
  BY DEF BootInv
<1>3. ASSUME NEW c \in CPorts
      PROVE  /\ driver[c] \in Protocols \cup {None}
             /\ req[c].arg \in CPorts \cup {None}
             /\ req[c].pc # "none" => driver[c] # None
             /\ req[c].pc \in {"run", "notify"} => req[c].bundle \in Bundles
  <2>1. driver[c] \in Protocols \cup {None} /\ req[c] \in Asks
    BY DEF ShapeInv
  <2>2. req[c].pc # "none" => driver[c] # None
    BY DEF ReqInv
  <2>3. ASSUME req[c].pc \in {"run", "notify"} PROVE req[c].bundle \in Bundles
    <3>1. PICK i \in DOMAIN List : Serves(c, i)
      BY <2>2, <2>3 DEF ServesInv
    <3> QED
      BY <2>3, <3>1, ListFacts DEF Serves, Given
  <2> QED
    BY <2>1, <2>2, <2>3 DEF Asks
<1>4. \A p \in Protocols : drv_bundle[p] \in Bundles \cup {None}
  BY DEF ShapeInv
<1>5. \A b \in Bundles : Range(bundle[b].dev) \subseteq CPorts \cup {None}
  BY DEF ShapeInv, Range
<1>6. connected \cup misfiled \cup strayed \cup lost \subseteq CPorts
  BY DEF ReqInv, ConnectedIsServed
<1>7. fault \in Faults
  BY DEF ShapeInv
<1> QED
  BY <1>1, <1>2, <1>3, <1>4, <1>5, <1>6, <1>7 DEF TypeOK, Faults

(* What a step of the boot thread leaves alone.                            *)
LEMMA GhostsStay ==
  ASSUME IInv, manifest' = manifest, UNCHANGED <<misfiled, strayed>>
  PROVE  HandlerIsOwn' /\ StrayedInv'
<1>1. List' = List
  BY SameList
<1>2. HandlerIsOwn'
  BY <1>1, SameList DEF IInv, HandlerIsOwn
<1>3. StrayedInv'
  BY <1>1, SameList DEF IInv, StrayedInv
<1> QED
  BY <1>2, <1>3

LEMMA HostStays ==
  ASSUME IInv, UNCHANGED <<connected, misfiled, strayed, lost, req>>,
         fault' \in {fault, "misread", "null_blob"},
         \A c \in CPorts : driver[c] # None => driver'[c] # None
  PROVE  ReqInv' /\ ConnectedIsServed'
  BY DEF IInv, HostInv, ReqInv, ConnectedIsServed

-----------------------------------------------------------------------------
(* The boot thread, until it registers the first cport.                    *)

LEMMA NoDriverYet ==
  ASSUME IInv, boot.pc \in Early
  PROVE  (\A c \in CPorts : driver[c] = None) /\ (\A p \in Protocols : ~moving[p])
<1>1. \A c \in CPorts : driver[c] = None
  BY DEF IInv, HostInv, ServesInv, Early, Enabled, Registering
<1>2. \A p \in Protocols : ~moving[p]
  BY DEF IInv, BuildInv, ShapeInv, Early
<1> QED
  BY <1>1, <1>2

(* A step there, which moves the boot thread and may allocate a table.     *)
LEMMA EarlyKeeps ==
  ASSUME IInv, boot.pc \in Early, UNCHANGED <<inputs, req, ghosts>>,
         fault' \in {fault, "misread", "null_blob"},
         UNCHANGED <<bundle, driver, drv_bundle, moving>>,
         boot'.pc \in Early \cup {"enable"}, BootInv'
  PROVE  IInv'
<1>1. manifest' = manifest /\ clicks' = clicks /\ List' = List
  BY SameList DEF inputs
<1>2. ShapeInv'
  BY <1>1, NoDriverYet DEF IInv, BuildInv, ShapeInv, Faults
<1>3. BuiltInv'
  <2>1. \A b \in Bundles : (bundle[b] = NoBundle \/ Built(b))'
    BY <1>1, SameList DEF IInv, BuildInv, BuiltInv, Built, NoBundle
  <2>2. boot'.pc \notin Registering
    BY DEF Early, Registering
  <2> QED
    BY <2>1, <2>2 DEF BuiltInv
<1>4. ServesInv'
  BY NoDriverYet DEF ServesInv
<1>5. ReqInv' /\ ConnectedIsServed'
  BY HostStays DEF ghosts
<1>6. HandlerIsOwn' /\ StrayedInv'
  BY <1>1, GhostsStay DEF ghosts
<1> QED
  BY <1>2, <1>3, <1>4, <1>5, <1>6 DEF IInv, BuildInv, HostInv

LEMMA FailsFacts ==
  ASSUME Fails
  PROVE  boot' = [pc |-> "failed", at |-> 0]
  BY DEF Fails, Goto

LEMMA ParseStep ==
  ASSUME IInv, Parse
  PROVE  IInv'
<1>1. /\ boot.pc = "parse" /\ UNCHANGED <<inputs, core, req, ghosts, fault>>
      /\ boot' \in {[pc |-> "failed", at |-> 0], [pc |-> "patch", at |-> 1]}
  BY FailsFacts DEF Parse, Goto
<1>2. BootInv /\ ShapeInv
  BY DEF IInv, BuildInv
<1>3. Len(clicks') \in Nat /\ List' = List
  BY <1>1, <1>2, ListFacts, SameList DEF inputs
<1>4. BootInv'
  BY <1>1, <1>2, <1>3 DEF BootInv, core, Early, Enabled, Registering
<1> QED
  BY <1>1, <1>4, EarlyKeeps DEF Early, core

LEMMA PatchStep ==
  ASSUME IInv, Patch
  PROVE  IInv'
<1>1. /\ boot.pc = "patch" /\ boot.at <= Len(clicks)
      /\ UNCHANGED <<inputs, core, req, ghosts>>
      /\ boot' \in {boot, [pc |-> "failed", at |-> 0], [pc |-> "patch", at |-> boot.at + 1]}
      /\ fault' \in {fault, "misread", "null_blob"}
  BY DEF Patch, Goto
<1>2. BootInv /\ ShapeInv
  BY DEF IInv, BuildInv
<1>3. Len(clicks) \in Nat /\ clicks' = clicks /\ List' = List
  BY <1>1, <1>2, ListFacts, SameList DEF inputs
<1>4. boot.at \in 1..Len(clicks) /\ boot.at + 1 \in 1..Len(clicks) + 1
  BY <1>1, <1>2, <1>3 DEF BootInv
<1>5. BootInv'
  BY <1>1, <1>2, <1>3, <1>4 DEF BootInv, core, Early, Enabled, Registering
<1> QED
  BY <1>1, <1>5, EarlyKeeps DEF Early, core

LEMMA BackendStep ==
  ASSUME IInv, Backend
  PROVE  IInv'
<1>1. /\ boot.pc = "patch" /\ UNCHANGED <<inputs, core, req, ghosts, fault>>
      /\ boot' \in {[pc |-> "failed", at |-> 0], [pc |-> "bundles", at |-> 0]}
  BY FailsFacts DEF Backend, Goto
<1>2. BootInv /\ List' = List
  BY <1>1, SameList DEF IInv, BuildInv, inputs
<1>3. BootInv'
  BY <1>1, <1>2 DEF BootInv, core, Early, Enabled, Registering
<1> QED
  BY <1>1, <1>3, EarlyKeeps DEF Early, core

LEMMA AllocStep ==
  ASSUME IInv, AllocBundles \/ AllocCPorts
  PROVE  IInv'
<1>1. /\ UNCHANGED <<inputs, req, ghosts, fault>>
      /\ UNCHANGED <<bundle, driver, drv_bundle, moving>>
  BY DEF AllocBundles, AllocCPorts
<1>2. /\ BootInv /\ List' = List /\ Len(List) \in Nat
  BY <1>1, SameList, ListFacts DEF IInv, BuildInv, inputs
<1>3. CASE AllocBundles
  <2>1. /\ boot.pc = "bundles" /\ table' = table
        /\ \/ boot' = [pc |-> "failed", at |-> 0] /\ cport_count' = cport_count
           \/ boot' = [pc |-> "cports", at |-> 0] /\ cport_count' = Len(List)
    BY <1>3, FailsFacts DEF AllocBundles, Goto
  <2>2. BootInv'
    BY <1>2, <2>1 DEF BootInv, Early, Enabled, Registering
  <2> QED
    BY <1>1, <2>1, <2>2, EarlyKeeps DEF Early
<1>4. CASE AllocCPorts
  <2>1. /\ boot.pc = "cports" /\ cport_count' = cport_count
        /\ \/ boot' = [pc |-> "failed", at |-> 0] /\ table' = table
           \/ boot' = [pc |-> "enable", at |-> 1] /\ table' = TRUE
    BY <1>4, FailsFacts DEF AllocCPorts, Goto
  <2>2. BootInv'
    BY <1>2, <2>1 DEF BootInv, Early, Enabled, Registering
  <2> QED
    BY <1>1, <2>1, <2>2, EarlyKeeps DEF Early
<1> QED
  BY <1>3, <1>4

-----------------------------------------------------------------------------
(* The registrations.                                                      *)

LEMMA ThisFacts ==
  ASSUME IInv, boot.pc \in Registering \/ (boot.pc = "enable" /\ boot.at <= Len(List))
  PROVE  /\ boot.at \in 1..Len(List) /\ boot.at \in DOMAIN List
         /\ This.id \in CPorts /\ This.id \in Nat /\ This.bundle \in Bundles
         /\ cport_count = Len(List) /\ Len(List) \in Nat
<1>1. BootInv /\ Len(List) \in Nat
  BY ListFacts DEF IInv, BuildInv
<1>2. boot.pc \in Enabled /\ cport_count = Len(List)
  BY <1>1 DEF BootInv, Enabled
<1>3. boot.at \in 1..Len(List)
  <2>1. CASE boot.pc \in Registering
    BY <1>1, <2>1 DEF BootInv
  <2>2. CASE boot.pc = "enable" /\ boot.at <= Len(List)
    BY <1>1, <2>2 DEF BootInv
  <2> QED
    BY <2>1, <2>2
<1> QED
  BY <1>1, <1>2, <1>3, ListFacts DEF IInv, BuildInv, This

(* A step that goes on, and disturbs no cport that is served.              *)
LEMMA RegisterKeeps ==
  ASSUME IInv, boot.pc \in Enabled \ {"done"}, boot'.pc \in Enabled,
         boot.at \in Nat /\ boot'.at \in Nat, boot'.pc = "done" \/ boot.at <= boot'.at,
         UNCHANGED <<inputs, cport_count, driver, req, ghosts, fault>>,
         ShapeInv', BootInv', BuiltInv',
         \A b \in Bundles : Built(b) => Built(b)',
         \A i \in DOMAIN List : driver[List[i].id] # None /\ Slot(List[i]) => Slot(List[i])',
         \A c \in CPorts, i \in DOMAIN List :
           driver[c] # None /\ Serves(c, i) => Given(i, drv_bundle'[driver[c]])
  PROVE  IInv'
<1>1. manifest' = manifest
  BY DEF inputs
<1>2. \A i \in DOMAIN List : Passed(i) => Passed(i)'
  BY ListFacts DEF Passed, IInv, BuildInv
<1>3. ServesInv'
  <2> SUFFICES ASSUME NEW c \in CPorts, driver'[c] # None
               PROVE  /\ boot'.pc \in Enabled /\ c < cport_count'
                      /\ \E i \in DOMAIN List' : Serves(c, i)'
    BY DEF ServesInv
  <2>1. driver[c] # None /\ driver'[c] = driver[c] /\ c < cport_count
    BY DEF IInv, HostInv, ServesInv
  <2>2. \A i \in DOMAIN List : List[i].id = c /\ Slot(List[i]) => Slot(List[i])'
    BY <2>1
  <2>3. \A i \in DOMAIN List : Serves(c, i) => Given(i, drv_bundle'[driver[c]])
    BY <2>1
  <2>4. \A i \in DOMAIN List :
          Serves(c, i) /\ req'[c].pc \in {"run", "notify"} => Given(i, req'[c].bundle)
    BY DEF Serves
  <2>5. \E i \in DOMAIN List' : Serves(c, i)'
    BY <1>1, <1>2, <2>1, <2>2, <2>3, <2>4, ServesKept
  <2> QED
    BY <2>1, <2>5
<1>4. ReqInv' /\ ConnectedIsServed'
  BY HostStays DEF ghosts
<1>5. HandlerIsOwn' /\ StrayedInv'
  BY <1>1, GhostsStay DEF ghosts
<1> QED
  BY <1>3, <1>4, <1>5 DEF IInv, BuildInv, HostInv

(* Nothing but the boot thread's place changes, and the marks of the sort. *)
LEMMA PlaceKeeps ==
  ASSUME IInv, boot.pc \in Enabled \ {"done"}, boot'.pc \in Enabled,
         boot.at \in Nat /\ boot'.at \in Nat, boot'.pc = "done" \/ boot.at <= boot'.at,
         UNCHANGED <<inputs, cport_count, driver, bundle, drv_bundle, req, ghosts, fault>>,
         BootInv', DOMAIN moving' = Protocols,
         \A p \in Protocols : moving'[p] => boot'.pc = "sorted" /\ List[boot'.at].protocol = p,
         boot'.pc \in Registering =>
           boot.pc \in Registering \ {"init"} /\ boot'.at = boot.at
  PROVE  IInv'
<1>1. manifest' = manifest /\ clicks' = clicks /\ List' = List
  BY SameList DEF inputs
<1>2. ShapeInv'
  BY <1>1 DEF IInv, BuildInv, ShapeInv, This
<1>3. \A b \in Bundles : Built(b)' <=> Built(b)
  BY <1>1, SameList DEF Built
<1>4. \A i \in DOMAIN List : Slot(List[i]) => Slot(List[i])'
  BY <1>1, SameList DEF Slot
<1>5. BuiltInv'
  <2>1. \A b \in Bundles : (bundle[b] = NoBundle \/ Built(b))'
    BY <1>3 DEF IInv, BuildInv, BuiltInv, NoBundle
  <2>2. ASSUME boot'.pc \in Registering
        PROVE  (Built(This.bundle) /\ drv_bundle[This.protocol] = This.bundle /\ Slot(This))'
    <3>1. boot.pc \in Registering \ {"init"} /\ boot'.at = boot.at
      BY <2>2
    <3>2. PICK k \in DOMAIN List, b \in Bundles : k = boot.at /\ b = List[k].bundle
      BY <3>1, ThisFacts DEF This
    <3>3. Built(b) /\ drv_bundle[List[k].protocol] = b /\ Slot(List[k])
      BY <3>1, <3>2 DEF IInv, BuildInv, BuiltInv, This
    <3>4. Built(b)' /\ Slot(List[k])'
      BY <1>3, <1>4, <3>3
    <3> QED
      BY <1>1, <3>1, <3>2, <3>3, <3>4 DEF This
  <2> QED
    BY <2>1, <2>2 DEF BuiltInv
<1> QED
  BY <1>2, <1>3, <1>4, <1>5, RegisterKeeps DEF Serves

LEMMA RejectStep ==
  ASSUME IInv, RegisterReject \/ EnableEnd
  PROVE  IInv'
<1>1. /\ boot.pc = "enable"
      /\ UNCHANGED <<inputs, cport_count, table, driver, bundle, drv_bundle, moving, req,
                     ghosts, fault>>
      /\ \/ boot' = [pc |-> "done", at |-> 0]
         \/ boot' = [pc |-> "enable", at |-> boot.at + 1] /\ boot.at <= Len(List)
  BY DEF RegisterReject, EnableEnd, Goto, core
<1>2. BootInv /\ ShapeInv /\ List' = List /\ Len(List) \in Nat
  BY <1>1, SameList, ListFacts DEF IInv, BuildInv, inputs
<1>3. boot.at \in 1..Len(List) + 1
  BY <1>1, <1>2 DEF BootInv
<1>4. BootInv'
  BY <1>1, <1>2, <1>3 DEF BootInv, Early, Enabled, Registering
<1>5. DOMAIN moving' = Protocols /\ \A p \in Protocols : ~moving'[p]
  BY <1>1, <1>2 DEF ShapeInv
<1>6. boot'.pc \in Enabled \ Registering /\ boot.pc \in Enabled \ {"done"}
  BY <1>1 DEF Enabled, Registering
<1>7. boot'.at \in Nat /\ (boot'.pc = "done" \/ boot.at <= boot'.at)
  BY <1>1, <1>3
<1> QED
  BY <1>1, <1>3, <1>4, <1>5, <1>6, <1>7, PlaceKeeps

LEMMA SameAcceptable ==
  ASSUME UNCHANGED <<manifest, cport_count, driver>>
  PROVE  \A d : Acceptable(d)' <=> Acceptable(d)
  BY DEF Acceptable

LEMMA SortStep ==
  ASSUME IInv, SortBegin \/ SortEnd
  PROVE  IInv'
<1>1. /\ UNCHANGED <<inputs, cport_count, table, driver, bundle, drv_bundle, req, ghosts, fault>>
      /\ boot.pc \in {"sort", "sorted"}
  BY DEF SortBegin, SortEnd
<1>2. /\ boot'.at = boot.at
      /\ \/ /\ boot.pc = "sort" /\ boot'.pc = "sorted"
            /\ moving' = [moving EXCEPT ![This.protocol] = TRUE]
         \/ /\ boot.pc = "sorted" /\ boot'.pc = "create"
            /\ moving' = [moving EXCEPT ![This.protocol] = FALSE]
  BY DEF SortBegin, SortEnd, Goto
<1>3. BootInv /\ ShapeInv /\ List' = List /\ manifest' = manifest
  BY <1>1, SameList DEF IInv, BuildInv, inputs
<1>4. boot.pc \in Registering \ {"init"} /\ boot'.pc \in Registering
  BY <1>1, <1>2 DEF Registering
<1>5. boot.at \in 1..Len(List) /\ Len(List) \in Nat /\ Acceptable(This)
  BY <1>3, <1>4, ThisFacts DEF BootInv
<1>6. This' = This /\ Acceptable(This)'
  BY <1>1, <1>2, <1>3, <1>5, SameAcceptable DEF This
<1>7. BootInv'
  BY <1>1, <1>2, <1>3, <1>4, <1>5, <1>6 DEF BootInv, Early, Enabled, Registering
<1>8. /\ DOMAIN moving' = Protocols
      /\ \A p \in Protocols : moving'[p] => boot'.pc = "sorted" /\ This.protocol = p
  BY <1>2, <1>3 DEF ShapeInv
<1>9. \A p \in Protocols : moving'[p] => boot'.pc = "sorted" /\ List[boot'.at].protocol = p
  BY <1>2, <1>8 DEF This
<1>10. boot.pc \in Enabled \ {"done"} /\ boot'.pc \in Enabled
  BY <1>4 DEF Enabled, Registering
<1>11. boot.at \in Nat /\ boot'.at \in Nat /\ boot.at <= boot'.at
  BY <1>2, <1>5
<1> QED
  BY <1>1, <1>2, <1>4, <1>7, <1>8, <1>9, <1>10, <1>11, PlaceKeeps

(* What a registration that goes on to a later cport has to keep.          *)
LEMMA NextPlace ==
  ASSUME IInv, boot.pc \in Registering \/ (boot.pc = "enable" /\ boot.at <= Len(List)),
         UNCHANGED <<inputs, cport_count, table>>,
         boot' = [pc |-> "enable", at |-> boot.at + 1]
  PROVE  /\ BootInv' /\ boot.pc \in Enabled \ {"done"}
         /\ boot'.pc \in Enabled \ Registering
         /\ boot.at \in Nat /\ boot'.at \in Nat /\ boot.at <= boot'.at
<1>1. boot.at \in 1..Len(List) /\ cport_count = Len(List) /\ Len(List) \in Nat
  BY ThisFacts
<1>2. boot.pc \in Enabled \ {"done"} /\ List' = List /\ BootInv
  BY SameList DEF Enabled, Registering, inputs, IInv, BuildInv
<1>3. table
  BY <1>2 DEF BootInv
<1>4. BootInv'
  BY <1>1, <1>2, <1>3 DEF BootInv, Early, Enabled, Registering
<1>5. boot'.pc \in Enabled \ Registering
  BY DEF Enabled, Registering
<1> QED
  BY <1>1, <1>2, <1>4, <1>5

(* A registration that fails after its driver or bundle were given.        *)
LEMMA GiveUpStep ==
  ASSUME IInv, boot.pc \in Registering \ {"init"} \/ (boot.pc = "enable" /\ boot.at <= Len(List)),
         UNCHANGED <<inputs, cport_count, table, driver, bundle, drv_bundle, moving, req,
                     ghosts, fault>>,
         boot.pc # "sorted", boot' = [pc |-> "enable", at |-> boot.at + 1]
  PROVE  IInv'
<1>1. /\ BootInv' /\ boot.pc \in Enabled \ {"done"}
      /\ boot'.pc \in Enabled \ Registering
      /\ boot.at \in Nat /\ boot'.at \in Nat /\ boot.at <= boot'.at
  BY NextPlace
<1>2. DOMAIN moving' = Protocols /\ \A p \in Protocols : ~moving'[p]
  BY DEF IInv, BuildInv, ShapeInv
<1> QED
  BY <1>1, <1>2, PlaceKeeps

LEMMA BundleStep ==
  ASSUME IInv, RegisterBundle
  PROVE  IInv'
<1>1. /\ boot.pc = "enable" /\ boot.at <= Len(List) /\ Acceptable(This)
      /\ UNCHANGED <<inputs, cport_count, table, driver, moving, req, ghosts, fault>>
  BY DEF RegisterBundle
<1>2. CASE boot' = [pc |-> "enable", at |-> boot.at + 1] /\ UNCHANGED <<bundle, drv_bundle>>
  BY <1>1, <1>2, GiveUpStep
<1>3. CASE /\ bundle' = IF bundle[This.bundle] = NoBundle
                        THEN [bundle EXCEPT ![This.bundle] = NewBundle(This.bundle)]
                        ELSE bundle
           /\ drv_bundle' = GivenTo(This.protocol, This.bundle)
           /\ boot' = [pc |-> IF This.protocol \in DevDrivers THEN "init" ELSE "sort",
                       at |-> boot.at]
  <2>1. PICK k \in DOMAIN List, b \in Bundles :
          k = boot.at /\ b = List[k].bundle /\ This = List[k]
    BY <1>1, ThisFacts DEF This
  <2>2. /\ ShapeInv /\ BootInv /\ BuiltInv /\ k \in 1..Len(List) /\ Len(List) \in Nat
        /\ cport_count = Len(List) /\ table
    BY <1>1, <2>1, ThisFacts DEF IInv, BuildInv, BootInv, Enabled
  <2>3. /\ manifest' = manifest /\ List' = List /\ clicks' = clicks /\ This' = This
        /\ List[k].protocol \in Protocols /\ driver[List[k].id] = None
    BY <1>1, <1>3, <2>1, SameList DEF inputs, This, Acceptable
  <2>4. /\ drv_bundle' = [drv_bundle EXCEPT ![List[k].protocol] = b]
        /\ DOMAIN bundle' = Bundles
        /\ \A x \in Bundles : bundle'[x] = bundle[x] \/ (x = b /\ bundle[b] = NoBundle)
        /\ bundle[b] = NoBundle => bundle'[b] = NewBundle(b)
    BY <1>3, <2>1, <2>2 DEF GivenTo, ShapeInv
  <2>5. /\ NewBundle(b).start = StartOf(List, b)
        /\ DOMAIN NewBundle(b).dev = 1..Cardinality(InBundle(List, b))
        /\ NewBundle(b) = [start |-> NewBundle(b).start, dev |-> NewBundle(b).dev]
        /\ \A i \in DOMAIN NewBundle(b).dev : NewBundle(b).dev[i] = None
    BY DEF NewBundle, Start
  <2>6. boot'.pc \in {"init", "sort"} /\ boot'.at = k
    BY <1>3, <2>1
  <2>7. boot'.pc \in Registering /\ boot.pc \in Enabled \ {"done"} /\ boot'.pc \in Enabled
    BY <1>1, <2>6 DEF Registering, Enabled
  <2>8. ShapeInv'
    <3>1. drv_bundle' \in [Protocols -> Bundles \cup {None}]
      BY <2>1, <2>2, <2>4 DEF ShapeInv
    <3>2. \A x \in Bundles :
            /\ bundle'[x] = [start |-> bundle'[x].start, dev |-> bundle'[x].dev]
            /\ \A i \in DOMAIN bundle'[x].dev : bundle'[x].dev[i] \in CPorts \cup {None}
      <4> TAKE x \in Bundles
      <4>1. CASE bundle'[x] = bundle[x]
        BY <2>2, <4>1 DEF ShapeInv
      <4>2. CASE x = b /\ bundle[b] = NoBundle
        BY <2>4, <2>5, <4>2
      <4> QED
        BY <2>4, <4>1, <4>2
    <3>3. \A p \in Protocols : ~moving[p]
      BY <1>1, <2>2 DEF ShapeInv
    <3> QED
      BY <1>1, <2>2, <2>3, <2>4, <3>1, <3>2, <3>3 DEF ShapeInv
  <2>9. BootInv'
    <3>1. Acceptable(This)'
      BY <1>1, <2>3, SameAcceptable
    <3> QED
      BY <1>1, <2>2, <2>3, <2>6, <3>1 DEF BootInv, Early, Enabled, Registering
  <2>10. \A x \in Bundles : Built(x) => Built(x)'
    BY <2>3, <2>4, <2>5, SameList DEF Built
  <2>11. Built(b)'
    <3>1. CASE bundle[b] = NoBundle
      BY <2>3, <2>4, <2>5, <3>1, SameList DEF Built
    <3>2. CASE bundle[b] # NoBundle
      BY <2>2, <2>10, <3>2 DEF BuiltInv
    <3> QED
      BY <3>1, <3>2
  <2>12. BuiltInv'
    <3>1. \A x \in Bundles : (bundle[x] = NoBundle \/ Built(x))'
      BY <2>2, <2>4, <2>10, <2>11 DEF BuiltInv, NoBundle
    <3>2. drv_bundle'[List[k].protocol] = b
      BY <2>2, <2>3, <2>4 DEF ShapeInv
    <3>3. boot'.pc # "init" => Slot(List[k])'
      BY <1>3, <2>1, <2>3 DEF Slot
    <3> QED
      BY <2>1, <2>3, <2>6, <2>11, <3>1, <3>2, <3>3 DEF BuiltInv, Registering
  <2>13. ASSUME NEW i \in DOMAIN List, driver[List[i].id] # None, Slot(List[i])
         PROVE  Slot(List[i])'
    <3>1. CASE bundle'[List[i].bundle] = bundle[List[i].bundle]
      BY <2>3, <2>13, <3>1, SameList DEF Slot
    <3>2. CASE List[i].bundle = b /\ bundle[b] = NoBundle
      <4>1. DOMAIN bundle[List[i].bundle].dev = {}
        BY <3>2 DEF NoBundle
      <4>2. List[i].protocol \notin DevDrivers
        BY <2>13, <4>1 DEF Slot
      <4> QED
        BY <2>3, <4>2 DEF Slot
    <3>3. List[i].bundle \in Bundles
      BY <2>2, ListFacts
    <3> QED
      BY <2>4, <3>1, <3>2, <3>3
  <2>14. ASSUME NEW c \in CPorts, NEW i \in DOMAIN List, driver[c] # None, Serves(c, i)
         PROVE  Given(i, drv_bundle'[driver[c]])
    <3>1. driver[c] \in Protocols
      BY <2>2, <2>14 DEF ShapeInv
    <3>2. CASE driver[c] = List[k].protocol
      <4>1. Later(i, k)
        BY <1>1, <2>1, <2>2, <2>14, <3>2 DEF Serves, Passed, Later, Acceptable
      <4>2. drv_bundle'[driver[c]] = b
        BY <2>2, <2>3, <2>4, <3>2 DEF ShapeInv
      <4> QED
        BY <2>1, <4>1, <4>2 DEF Given
    <3>3. CASE driver[c] # List[k].protocol
      <4>1. drv_bundle'[driver[c]] = drv_bundle[driver[c]]
        BY <2>2, <2>4, <3>1, <3>3 DEF ShapeInv
      <4> QED
        BY <2>14, <4>1 DEF Serves
    <3> QED
      BY <3>2, <3>3
  <2>15. boot.at \in Nat /\ boot'.at \in Nat /\ boot.at <= boot'.at
    BY <2>1, <2>2, <2>6
  <2> QED
    BY <1>1, <2>7, <2>8, <2>9, <2>10, <2>12, <2>13, <2>14, <2>15, RegisterKeeps
<1> QED
  BY <1>2, <1>3 DEF RegisterBundle, Goto

(* The bundle's devices begin where the driver's init looks for its own.   *)
LEMMA InitFacts ==
  ASSUME IInv, boot.pc = "init"
  PROVE  LET b == This.bundle
             n == This.id - bundle[b].start
         IN  /\ bundle[b].start = StartOf(List, b) /\ n \in Nat
             /\ DOMAIN bundle[b].dev = 1..Cardinality(InBundle(List, b))
             /\ InDevs(b, n) <=> ~Gap(boot.at)
<1>1. boot.at \in DOMAIN List /\ Built(This.bundle) /\ This.id \in Nat
  BY ThisFacts DEF IInv, BuildInv, BuiltInv, Registering
<1>2. /\ Cardinality(InBundle(List, This.bundle)) \in Nat
      /\ StartOf(List, This.bundle) \in Nat /\ StartOf(List, This.bundle) <= This.id
  BY <1>1, BundleFacts DEF IInv, BuildInv, This
<1>3. This.id - StartOf(List, This.bundle) \in Nat
  BY <1>1, <1>2
<1> QED
  BY <1>1, <1>2, <1>3 DEF Built, InDevs, Gap, This

(* The place of this cport's device is written, and no other's.            *)
LEMMA DeviceStep ==
  ASSUME IInv, boot.pc = "init", UNCHANGED <<inputs, cport_count, table, driver, drv_bundle>>,
         UNCHANGED <<moving, req, ghosts, fault>>, NEW x \in {This.id, None},
         InDevs(This.bundle, This.id - bundle[This.bundle].start),
         bundle' = [bundle EXCEPT ![This.bundle].dev[This.id - bundle[This.bundle].start + 1] = x],
         \/ boot' = [pc |-> "sort", at |-> boot.at] /\ x = This.id
         \/ boot' = [pc |-> "enable", at |-> boot.at + 1]
  PROVE  IInv'
<1>1. PICK k \in DOMAIN List, b \in Bundles, n \in Nat :
        /\ k = boot.at /\ b = List[k].bundle /\ This = List[k]
        /\ n = List[k].id - StartOf(List, b) /\ bundle[b].start = StartOf(List, b)
  <2>1. boot.at \in DOMAIN List /\ This.bundle \in Bundles
    BY ThisFacts DEF Registering
  <2> QED
    BY <2>1, InitFacts DEF This
<1>2. /\ boot.pc \in Registering /\ ShapeInv /\ BootInv /\ BuiltInv
      /\ k \in 1..Len(List) /\ Len(List) \in Nat /\ cport_count = Len(List) /\ table
      /\ List[k].id \in CPorts /\ List[k].id \in Nat
  BY <1>1, ThisFacts DEF IInv, BuildInv, BootInv, Enabled, Registering
<1>3. /\ manifest' = manifest /\ List' = List /\ clicks' = clicks
  BY SameList DEF inputs
<1>4. Acceptable(List[k]) /\ driver[List[k].id] = None /\ Acceptable(List[k])'
  BY <1>1, <1>2, <1>3, SameAcceptable DEF BootInv, Acceptable
<1>5. n + 1 \in DOMAIN bundle[b].dev
  BY <1>1 DEF InDevs
<1>6. /\ DOMAIN bundle' = Bundles
      /\ \A y \in Bundles : y # b => bundle'[y] = bundle[y]
      /\ bundle'[b] = [start |-> bundle[b].start, dev |-> [bundle[b].dev EXCEPT ![n + 1] = x]]
  <2>1. bundle' = [bundle EXCEPT ![b].dev[n + 1] = x]
    BY <1>1
  <2>2. bundle[b] = [start |-> bundle[b].start, dev |-> bundle[b].dev] /\ DOMAIN bundle = Bundles
    BY <1>2 DEF ShapeInv
  <2> QED
    BY <2>1, <2>2
<1>7. /\ bundle'[b].start = bundle[b].start
      /\ DOMAIN bundle'[b].dev = DOMAIN bundle[b].dev
      /\ bundle'[b].dev[n + 1] = x
      /\ \A i \in DOMAIN bundle[b].dev : i # n + 1 => bundle'[b].dev[i] = bundle[b].dev[i]
  BY <1>5, <1>6
<1>8. ShapeInv'
  <2>1. \A y \in Bundles :
          /\ bundle'[y] = [start |-> bundle'[y].start, dev |-> bundle'[y].dev]
          /\ \A i \in DOMAIN bundle'[y].dev : bundle'[y].dev[i] \in CPorts \cup {None}
    <3>1. x \in CPorts \cup {None}
      BY <1>1, <1>2
    <3> TAKE y \in Bundles
    <3>2. CASE y # b
      BY <1>2, <1>6, <3>2 DEF ShapeInv
    <3>3. CASE y = b
      <4>1. bundle'[b] = [start |-> bundle'[b].start, dev |-> bundle'[b].dev]
        BY <1>6
      <4>2. \A i \in DOMAIN bundle[b].dev : bundle[b].dev[i] \in CPorts \cup {None}
        BY <1>2 DEF ShapeInv
      <4> QED
        BY <1>7, <3>1, <3>3, <4>1, <4>2
    <3> QED
      BY <3>2, <3>3
  <2>2. \A p \in Protocols : ~moving[p]
    BY <1>2 DEF ShapeInv
  <2> QED
    BY <1>2, <1>3, <1>6, <2>1, <2>2 DEF ShapeInv
<1>9. BootInv'
  <2>1. CASE boot' = [pc |-> "sort", at |-> boot.at]
    <3>1. boot'.pc = "sort" /\ boot'.at = k /\ This' = List[k]
      BY <1>1, <1>3, <2>1 DEF This
    <3> QED
      BY <1>2, <1>3, <1>4, <3>1 DEF BootInv, Early, Enabled, Registering
  <2>2. CASE boot' = [pc |-> "enable", at |-> boot.at + 1]
    BY <1>2, <2>2, NextPlace
  <2> QED
    BY <2>1, <2>2
<1>10. \A y \in Bundles : Built(y) => Built(y)'
  BY <1>3, <1>6, <1>7, SameList DEF Built
<1>11. Built(b) /\ Built(b)'
  BY <1>1, <1>2, <1>10 DEF BuiltInv
<1>12. BuiltInv'
  <2>1. \A y \in Bundles : (bundle[y] = NoBundle \/ Built(y))'
    BY <1>2, <1>6, <1>10, <1>11 DEF BuiltInv, NoBundle
  <2>2. drv_bundle'[List[k].protocol] = b
    BY <1>1, <1>2 DEF BuiltInv
  <2>3. x = List[k].id => Slot(List[k])'
    BY <1>1, <1>3, <1>5, <1>7, SameList DEF Slot
  <2>4. CASE boot' = [pc |-> "sort", at |-> boot.at] /\ x = This.id
    <3>1. This' = List[k] /\ x = List[k].id
      BY <1>1, <1>3, <2>4 DEF This
    <3>2. (Built(This.bundle) /\ drv_bundle[This.protocol] = This.bundle)'
      BY <1>1, <1>11, <2>2, <3>1
    <3>3. Slot(This)'
      BY <1>3, <2>3, <3>1
    <3> QED
      BY <2>1, <3>2, <3>3 DEF BuiltInv
  <2>5. CASE boot' = [pc |-> "enable", at |-> boot.at + 1]
    BY <2>1, <2>5 DEF BuiltInv, Registering
  <2> QED
    BY <2>4, <2>5
<1>13. ASSUME NEW i \in DOMAIN List, driver[List[i].id] # None, Slot(List[i])
       PROVE  Slot(List[i])'
  <2>1. List[i].bundle \in Bundles /\ List[i].id \in Nat /\ List[i].id # List[k].id
    BY <1>2, <1>4, <1>13, ListFacts
  <2>2. CASE List[i].bundle # b
    BY <1>3, <1>6, <1>13, <2>1, <2>2, SameList DEF Slot
  <2>3. CASE List[i].bundle = b
    <3>1. StartOf(List, b) \in Nat
      BY <1>2, <2>3, BundleFacts
    <3>2. List[i].id - StartOf(List, b) + 1 # n + 1
      BY <1>1, <1>2, <2>1, <3>1
    <3> QED
      BY <1>3, <1>7, <1>13, <2>3, <3>2, SameList DEF Slot
  <2> QED
    BY <2>2, <2>3
<1>14. \A c \in CPorts, i \in DOMAIN List :
         driver[c] # None /\ Serves(c, i) => Given(i, drv_bundle'[driver[c]])
  BY DEF Serves
<1>15. /\ boot.pc \in Enabled \ {"done"} /\ boot'.pc \in Enabled
       /\ boot.at \in Nat /\ boot'.at \in Nat /\ boot.at <= boot'.at
  BY <1>1, <1>2 DEF Enabled, Registering
<1> QED
  BY <1>8, <1>9, <1>10, <1>12, <1>13, <1>14, <1>15, RegisterKeeps

LEMMA InitStep ==
  ASSUME IInv, RegisterInit
  PROVE  IInv'
<1>1. /\ boot.pc = "init"
      /\ UNCHANGED <<inputs, cport_count, table, driver, drv_bundle, moving, req>>
      /\ UNCHANGED <<connected, misfiled, lost>>
  BY DEF RegisterInit
<1>2. CASE InDevs(This.bundle, This.id - bundle[This.bundle].start)
  BY <1>1, <1>2, DeviceStep DEF RegisterInit, Goto, ghosts
<1>3. CASE ~InDevs(This.bundle, This.id - bundle[This.bundle].start)
  <2>1. /\ fault' = "outside" /\ strayed' = strayed \cup {This.id}
        /\ UNCHANGED <<bundle, boot>>
    BY <1>3 DEF RegisterInit
  <2>2. boot.at \in DOMAIN List /\ This.id \in CPorts /\ Gap(boot.at)
    BY <1>1, <1>3, ThisFacts, InitFacts DEF Registering
  <2>3. manifest' = manifest /\ clicks' = clicks /\ List' = List /\ This' = This
    BY <1>1, <2>1, SameList DEF inputs, This
  <2>4. BuildInv'
    <3>1. ShapeInv'
      BY <1>1, <2>1, <2>3 DEF IInv, BuildInv, ShapeInv, Faults
    <3>2. BootInv'
      <4>1. Acceptable(This)' <=> Acceptable(This)
        BY <1>1, <2>3, SameAcceptable
      <4> QED
        BY <1>1, <2>1, <2>3, <4>1 DEF IInv, BuildInv, BootInv
    <3>3. BuiltInv'
      <4>1. \A b \in Bundles : Built(b)' <=> Built(b)
        BY <2>1, <2>3, SameList DEF Built
      <4>2. This.bundle \in Bundles
        BY <1>1, ThisFacts DEF Registering
      <4> QED
        BY <1>1, <2>1, <2>3, <4>1, <4>2 DEF IInv, BuildInv, BuiltInv, NoBundle
    <3> QED
      BY <3>1, <3>2, <3>3 DEF BuildInv
  <2>5. ServesInv'
    <3>1. \A b \in Bundles : Built(b) => Built(b)'
      BY <2>1, <2>3, SameList DEF Built
    <3>2. \A i \in DOMAIN List : Slot(List[i]) => Slot(List[i])'
      BY <2>1, <2>3, SameList DEF Slot
    <3>3. \A i \in DOMAIN List : Passed(i) => Passed(i)'
      BY <2>1 DEF Passed
    <3>4. ASSUME NEW c \in CPorts, driver'[c] # None
          PROVE  /\ boot'.pc \in Enabled /\ c < cport_count'
                 /\ \E i \in DOMAIN List' : Serves(c, i)'
      <4>1. boot.pc \in Enabled /\ c < cport_count /\ driver[c] # None
        BY <1>1, <3>4 DEF IInv, HostInv, ServesInv
      <4>2. \A i \in DOMAIN List : Serves(c, i) =>
              /\ Given(i, drv_bundle'[driver[c]])
              /\ req'[c].pc \in {"run", "notify"} => Given(i, req'[c].bundle)
        BY <1>1 DEF Serves
      <4>3. \E i \in DOMAIN List' : Serves(c, i)'
        BY <1>1, <2>3, <3>1, <3>2, <3>3, <4>1, <4>2, ServesKept
      <4> QED
        BY <1>1, <2>1, <4>1, <4>3
    <3> QED
      BY <3>4 DEF ServesInv
  <2>6. ReqInv' /\ ConnectedIsServed'
    BY <1>1, <2>1, <2>2 DEF IInv, HostInv, ReqInv, ConnectedIsServed
  <2>7. HandlerIsOwn' /\ StrayedInv'
    <3>1. HandlerIsOwn'
      BY <1>1, <2>3, SameList DEF IInv, HandlerIsOwn
    <3>2. StrayedInv'
      BY <2>1, <2>2, <2>3, SameList DEF IInv, StrayedInv, This
    <3> QED
      BY <3>1, <3>2
  <2> QED
    BY <2>4, <2>5, <2>6, <2>7 DEF IInv, HostInv
<1> QED
  BY <1>2, <1>3

(* A worker is created, and its cport is served from then on.              *)
LEMMA WorkerStep ==
  ASSUME IInv, RegisterWorker
  PROVE  IInv'
<1>1. /\ boot.pc = "create" /\ boot' = [pc |-> "enable", at |-> boot.at + 1]
      /\ UNCHANGED <<inputs, cport_count, table, bundle, drv_bundle, moving, req, ghosts, fault>>
      /\ boot.pc \in Registering \ {"init"}
  BY DEF RegisterWorker, Goto, Registering
<1>2. CASE UNCHANGED driver
  BY <1>1, <1>2, GiveUpStep
<1>3. CASE driver' = [driver EXCEPT ![This.id] = This.protocol]
  <2>1. PICK k \in DOMAIN List, b \in Bundles :
          k = boot.at /\ b = List[k].bundle /\ This = List[k]
    BY <1>1, ThisFacts DEF This
  <2>2. /\ ShapeInv /\ BootInv /\ BuiltInv /\ ReqInv /\ k \in 1..Len(List)
        /\ cport_count = Len(List) /\ table
        /\ List[k].id \in CPorts /\ Acceptable(List[k])
        /\ boot.pc \in Enabled
    BY <1>1, <2>1, ThisFacts
    DEF IInv, BuildInv, HostInv, BootInv, Enabled, Registering
  <2>3. manifest' = manifest /\ clicks' = clicks /\ List' = List
    BY <1>1, SameList DEF inputs
  <2>4. /\ List[k].protocol \in Protocols /\ List[k].protocol # None
        /\ List[k].id < cport_count /\ driver[List[k].id] = None
    BY <2>2, ServiceAssumption DEF Acceptable
  <2>5. /\ driver' \in [CPorts -> Protocols \cup {None}]
        /\ driver'[List[k].id] = List[k].protocol
        /\ \A c \in CPorts : c # List[k].id => driver'[c] = driver[c]
        /\ \A c \in CPorts : driver[c] # None => driver'[c] = driver[c]
    BY <1>3, <2>1, <2>2, <2>4 DEF ShapeInv
  <2>6. BootInv'
    BY <1>1, NextPlace
  <2>7. ShapeInv'
    <3>1. \A p \in Protocols : ~moving[p]
      BY <1>1, <2>2 DEF ShapeInv
    <3> QED
      BY <1>1, <2>2, <2>3, <2>5, <3>1 DEF ShapeInv
  <2>8. \A x \in Bundles : Built(x)' <=> Built(x)
    BY <1>1, <2>3, SameList DEF Built
  <2>9. BuiltInv'
    BY <1>1, <2>2, <2>8 DEF BuiltInv, NoBundle, Registering
  <2>10. \A i \in DOMAIN List : Slot(List[i])' <=> Slot(List[i])
    BY <1>1, <2>3, SameList DEF Slot
  <2>11. \A i \in DOMAIN List : (Passed(i) => Passed(i)') /\ Passed(k)'
    BY <1>1, <2>1, <2>2, ListFacts DEF Passed
  <2>12. ServesInv'
    <3> SUFFICES ASSUME NEW c \in CPorts, driver'[c] # None
                 PROVE  /\ boot'.pc \in Enabled /\ c < cport_count'
                        /\ \E i \in DOMAIN List' : Serves(c, i)'
      BY DEF ServesInv
    <3>1. CASE driver[c] # None
      <4>1. c < cport_count /\ driver'[c] = driver[c]
        BY <2>5, <3>1 DEF IInv, HostInv, ServesInv
      <4>2. \A i \in DOMAIN List : Serves(c, i) =>
              /\ Given(i, drv_bundle'[driver[c]])
              /\ req'[c].pc \in {"run", "notify"} => Given(i, req'[c].bundle)
        BY <1>1 DEF Serves
      <4>3. \E i \in DOMAIN List' : Serves(c, i)'
        BY <2>3, <2>8, <2>10, <2>11, <3>1, <4>1, <4>2, ServesKept
      <4> QED
        BY <1>1, <4>1, <4>3 DEF Enabled
    <3>2. CASE driver[c] = None
      <4>1. c = List[k].id /\ req[c].pc = "none"
        BY <2>2, <2>5, <3>2 DEF ReqInv
      <4>2. Built(b) /\ Slot(List[k]) /\ drv_bundle[List[k].protocol] = b
        BY <1>1, <2>1, <2>2 DEF BuiltInv
      <4>3. Given(k, b)
        BY <2>1 DEF Given
      <4>4. Built(b)' /\ Slot(List[k])' /\ Given(k, b)' /\ Passed(k)'
        BY <2>3, <2>8, <2>10, <2>11, <4>2, <4>3, SameList
      <4>5. Serves(c, k)'
        BY <1>1, <2>1, <2>3, <2>5, <4>1, <4>2, <4>4 DEF Serves
      <4> QED
        BY <1>1, <2>3, <2>4, <4>1, <4>5 DEF Enabled
    <3> QED
      BY <3>1, <3>2
  <2>13. ReqInv' /\ ConnectedIsServed'
    BY <1>1, <2>5, HostStays DEF ghosts
  <2>14. HandlerIsOwn' /\ StrayedInv'
    BY <1>1, <2>3, GhostsStay DEF ghosts
  <2> QED
    BY <2>6, <2>7, <2>9, <2>12, <2>13, <2>14 DEF IInv, BuildInv, HostInv
<1> QED
  BY <1>2, <1>3 DEF RegisterWorker

LEMMA BootStep ==
  ASSUME IInv, Boot
  PROVE  IInv'
  BY ParseStep, PatchStep, BackendStep, AllocStep, RejectStep, BundleStep, InitStep, SortStep,
     WorkerStep DEF Boot

-----------------------------------------------------------------------------
(* The host and the workers.                                               *)

(* A step that changes requests and ghosts only.                           *)
LEMMA HostKeeps ==
  ASSUME IInv, UNCHANGED <<inputs, boot, core>>, NEW c \in CPorts, NEW r \in Asks,
         req' = [req EXCEPT ![c] = r], fault' \in Faults,
         r.pc # "none" => driver[c] # None,
         r.kind # "plain" => r.arg \in CPorts, r.pc = "notify" => r.kind = "connect",
         \A i \in DOMAIN List :
           Serves(c, i) /\ r.pc \in {"run", "notify"} => Given(i, r.bundle)
  PROVE  /\ BuildInv' /\ ServesInv'
         /\ \A x \in CPorts :
              /\ req'[x].pc # "none" => driver'[x] # None
              /\ req'[x].kind # "plain" => req'[x].arg \in CPorts
              /\ req'[x].pc = "notify" => req'[x].kind = "connect"
<1>1. /\ manifest' = manifest /\ clicks' = clicks /\ List' = List /\ This' = This
      /\ UNCHANGED <<cport_count, table, bundle, driver, drv_bundle, moving>>
  BY SameList DEF inputs, This, core
<1>2. /\ req' \in [CPorts -> Asks] /\ req'[c] = r
      /\ \A x \in CPorts : x # c => req'[x] = req[x]
  BY DEF IInv, BuildInv, ShapeInv
<1>3. ShapeInv'
  BY <1>1, <1>2 DEF IInv, BuildInv, ShapeInv
<1>4. BootInv'
  <2>1. Acceptable(This)' <=> Acceptable(This)
    BY <1>1, SameAcceptable
  <2> QED
    BY <1>1, <2>1 DEF IInv, BuildInv, BootInv
<1>5. \A b \in Bundles : Built(b)' <=> Built(b)
  BY <1>1, SameList DEF Built
<1>6. \A i \in DOMAIN List : Slot(List[i])' <=> Slot(List[i])
  BY <1>1, SameList DEF Slot
<1>7. BuiltInv'
  <2>1. \A b \in Bundles : (bundle[b] = NoBundle \/ Built(b))'
    BY <1>1, <1>5 DEF IInv, BuildInv, BuiltInv, NoBundle
  <2>2. ASSUME boot.pc \in Registering
        PROVE  /\ (Built(This.bundle) /\ drv_bundle[This.protocol] = This.bundle)'
               /\ boot.pc # "init" => Slot(This)'
    <3>1. PICK k \in DOMAIN List, b \in Bundles : This = List[k] /\ b = List[k].bundle
      BY <2>2, ThisFacts DEF This
    <3>2. /\ Built(b) /\ drv_bundle[List[k].protocol] = b
          /\ boot.pc # "init" => Slot(List[k])
      BY <2>2, <3>1 DEF IInv, BuildInv, BuiltInv
    <3> QED
      BY <1>1, <1>5, <1>6, <3>1, <3>2
  <2> QED
    BY <2>1, <2>2 DEF BuiltInv
<1>8. ServesInv'
  <2> SUFFICES ASSUME NEW x \in CPorts, driver'[x] # None
               PROVE  /\ boot'.pc \in Enabled /\ x < cport_count'
                      /\ \E i \in DOMAIN List' : Serves(x, i)'
    BY DEF ServesInv
  <2>1. boot.pc \in Enabled /\ x < cport_count /\ driver[x] # None
    BY <1>1 DEF IInv, HostInv, ServesInv
  <2>2. \A i \in DOMAIN List : Serves(x, i) =>
          /\ Given(i, drv_bundle'[driver[x]])
          /\ req'[x].pc \in {"run", "notify"} => Given(i, req'[x].bundle)
    BY <1>1, <1>2 DEF Serves
  <2>3. \A i \in DOMAIN List : Passed(i) => Passed(i)'
    BY DEF Passed
  <2>4. \E i \in DOMAIN List' : Serves(x, i)'
    BY <1>1, <1>5, <1>6, <2>1, <2>2, <2>3, ServesKept
  <2> QED
    BY <1>1, <2>1, <2>4
<1> QED
  BY <1>1, <1>2, <1>3, <1>4, <1>7, <1>8 DEF IInv, BuildInv, HostInv, ReqInv

(* The worker whose request is over, or changes its place.                 *)
LEMMA AsksFacts ==
  ASSUME IInv, NEW c \in CPorts
  PROVE  /\ req[c] \in Asks /\ NoReq \in Asks /\ NoReq.pc = "none" /\ NoReq.kind = "plain"
         /\ req[c].pc # "none" => driver[c] \in Protocols /\ driver[c] # None
         /\ req[c].kind # "plain" => req[c].arg \in CPorts
         /\ req[c].pc = "notify" => req[c].kind = "connect"
         /\ req[c].pc # "none" => \E i \in DOMAIN List : Serves(c, i)
  BY DEF IInv, BuildInv, HostInv, ShapeInv, ReqInv, ServesInv, NoReq, Asks

(* A driver's handlers are sorted again for a later cport of its protocol. *)
LEMMA MovingFacts ==
  ASSUME IInv, NEW c \in CPorts, req[c].pc # "none", moving[driver[c]]
  PROVE  \E i, j \in DOMAIN List : List[i].id = c /\ Later(i, j)
<1>1. PICK i \in DOMAIN List : Serves(c, i)
  BY AsksFacts
<1>2. boot.pc = "sorted" /\ This.protocol = driver[c]
  BY AsksFacts DEF IInv, BuildInv, ShapeInv
<1>3. boot.at \in DOMAIN List /\ cport_count = Len(List) /\ Acceptable(This)
  BY <1>2, ThisFacts DEF IInv, BuildInv, BootInv, Registering
<1>4. Later(i, boot.at)
  BY <1>1, <1>2, <1>3 DEF Serves, Passed, Later, Acceptable, This
<1> QED
  BY <1>1, <1>3, <1>4 DEF Serves

(* A connection is served: a connected cport is known to the core.         *)
LEMMA ConnectedFacts ==
  ASSUME IInv, NEW c \in connected
  PROVE  c \in CPorts /\ driver[c] # None /\ c < cport_count /\ table
<1>1. c \in CPorts /\ driver[c] # None
  BY DEF IInv, HostInv, ReqInv
<1>2. boot.pc \in Enabled /\ c < cport_count
  BY <1>1 DEF IInv, HostInv, ServesInv
<1>3. table
  BY <1>2 DEF IInv, BuildInv, BootInv
<1> QED
  BY <1>1, <1>2, <1>3

LEMMA ReceiveStep ==
  ASSUME IInv, NEW c \in CPorts, NEW kind \in {"plain", "connect", "disconnect"},
         NEW k \in CPorts \cup {None}, kind # "plain" => k \in CPorts,
         Receive(c, kind, k), fault = "none"
  PROVE  IInv'
<1>1. UNCHANGED <<inputs, boot, core, connected, misfiled, strayed>>
  BY DEF Receive
<1>2. manifest' = manifest
  BY <1>1 DEF inputs
<1>3. PICK r \in Asks :
        /\ req' = [req EXCEPT ![c] = r] /\ r.pc \notin {"run", "notify"}
        /\ r.pc # "none" => driver[c] # None
        /\ r.kind # "plain" => r.arg \in CPorts
  <2>1. CASE UNCHANGED req
    <3>1. req[c] = NoReq /\ req' = [req EXCEPT ![c] = req[c]]
      BY <2>1 DEF Receive, IInv, BuildInv, ShapeInv
    <3> QED
      BY <3>1, AsksFacts
  <2>2. CASE /\ driver[c] # None
             /\ req' = [req EXCEPT ![c] = [NoReq EXCEPT !.pc = "find", !.kind = kind, !.arg = k]]
    <3> DEFINE r == [NoReq EXCEPT !.pc = "find", !.kind = kind, !.arg = k]
    <3>1. NoReq \in Asks
      BY AsksFacts
    <3>2. r \in Asks /\ r.pc = "find" /\ r.kind = kind /\ r.arg = k
      BY <3>1 DEF Asks
    <3> HIDE DEF r
    <3>3. req' = [req EXCEPT ![c] = r]
      BY <2>2 DEF r
    <3> QED
      BY <2>2, <3>2, <3>3
  <2> QED
    BY <2>1, <2>2 DEF Receive
<1>4. /\ fault' \in {"none", "null_table"}
      /\ fault' = "null_table" => ~table
      /\ lost' = lost \/ (lost' = lost \cup ({c} \cap connected)
                          /\ ~(c < cport_count /\ driver[c] # None))
  BY DEF Receive
<1>5. BuildInv' /\ ServesInv' /\ ReqInv'
  BY <1>1, <1>3, <1>4, HostKeeps DEF ReqInv, IInv, HostInv, core, Faults
<1>6. ConnectedIsServed'
  <2>1. lost' = {}
    BY <1>4, ConnectedFacts DEF IInv, ConnectedIsServed
  <2> QED
    BY <1>1, <1>4, <2>1, ConnectedFacts DEF ConnectedIsServed
<1>7. HandlerIsOwn' /\ StrayedInv'
  BY <1>1, <1>2, GhostsStay
<1> QED
  BY <1>5, <1>6, <1>7 DEF IInv, HostInv

(* A request that ends in the worker of cport c, or stays there.           *)
LEMMA WorkerKeeps ==
  ASSUME IInv, UNCHANGED <<inputs, boot, core, connected, lost>>, NEW c \in CPorts,
         NEW r \in Asks, req' = [req EXCEPT ![c] = r], fault' \in {fault, "outside"},
         r.pc # "none" => driver[c] # None,
         r.kind # "plain" => r.arg \in CPorts, r.pc = "notify" => r.kind = "connect",
         \A i \in DOMAIN List :
           Serves(c, i) /\ r.pc \in {"run", "notify"} => Given(i, r.bundle),
         misfiled' = misfiled \/ (misfiled' = misfiled \cup {c}
           /\ \E i, j \in DOMAIN List : List[i].id = c /\ Later(i, j)),
         strayed' = strayed \/ (strayed' = strayed \cup {c}
           /\ \E i \in DOMAIN List :
                /\ List[i].id = c
                /\ Gap(i) \/ \E j \in DOMAIN List :
                               Later(i, j) /\ List[i].bundle # List[j].bundle)
  PROVE  IInv'
<1>1. manifest' = manifest /\ List' = List /\ UNCHANGED driver
  BY SameList DEF inputs, core
<1>2. fault' \in Faults
  BY DEF IInv, BuildInv, ShapeInv, Faults
<1>3. BuildInv' /\ ServesInv'
  BY <1>2, HostKeeps
<1>4. \A x \in CPorts :
        /\ req'[x].pc # "none" => driver'[x] # None
        /\ req'[x].kind # "plain" => req'[x].arg \in CPorts
        /\ req'[x].pc = "notify" => req'[x].kind = "connect"
  BY <1>2, HostKeeps
<1>5. ReqInv'
  BY <1>1, <1>4 DEF IInv, HostInv, ReqInv
<1>6. ConnectedIsServed'
  BY DEF IInv, ConnectedIsServed
<1>7. HandlerIsOwn'
  BY <1>1, SameList DEF IInv, HandlerIsOwn
<1>8. StrayedInv'
  BY <1>1, SameList DEF IInv, StrayedInv
<1> QED
  BY <1>3, <1>5, <1>6, <1>7, <1>8 DEF IInv, HostInv

(* The worker finds a handler, and hands the bundle to it.                 *)
LEMMA FindStep ==
  ASSUME IInv, NEW c \in CPorts, WFind(c) \/ WBundle(c) \/ WMisfiled(c)
  PROVE  IInv'
<1>1. /\ UNCHANGED <<inputs, boot, core, connected, strayed, lost, fault>>
      /\ req[c].pc \in {"find", "bundle", "run"}
  BY DEF WFind, WBundle, WMisfiled, ghosts
<1>2. req[c].pc # "none" /\ req[c] \in Asks
  BY <1>1, AsksFacts
<1>3. CASE /\ moving[driver[c]] /\ req' = [req EXCEPT ![c] = NoReq]
           /\ misfiled' = misfiled \cup {c}
  BY <1>1, <1>2, <1>3, AsksFacts, MovingFacts, WorkerKeeps
<1>4. CASE /\ req[c].pc = "find" /\ req' = [req EXCEPT ![c].pc = "bundle"]
           /\ misfiled' = misfiled
  <2> DEFINE r == [req[c] EXCEPT !.pc = "bundle"]
  <2>1. /\ r \in Asks /\ r.pc = "bundle" /\ r.kind = req[c].kind /\ r.arg = req[c].arg
    BY <1>2 DEF Asks
  <2>2. req' = [req EXCEPT ![c] = r]
    BY <1>4
  <2> HIDE DEF r
  <2> QED
    BY <1>1, <1>2, <1>4, <2>1, <2>2, AsksFacts, WorkerKeeps
<1>5. CASE /\ req[c].pc = "bundle" /\ misfiled' = misfiled
           /\ req' = [req EXCEPT ![c].pc = "run", ![c].bundle = drv_bundle[driver[c]]]
  <2> DEFINE b == drv_bundle[driver[c]]
             r == [req[c] EXCEPT !.pc = "run", !.bundle = b]
  <2>1. \A i \in DOMAIN List : Serves(c, i) => Given(i, b)
    BY DEF Serves
  <2>2. b \in Bundles \cup {None}
    BY <1>2, AsksFacts DEF IInv, BuildInv, ShapeInv
  <2> HIDE DEF b
  <2>3. /\ r \in Asks /\ r.pc = "run" /\ r.kind = req[c].kind /\ r.arg = req[c].arg
        /\ r.bundle = b
    BY <1>2, <2>2 DEF Asks
  <2>4. req' = [req EXCEPT ![c] = r]
    <3>1. c \in DOMAIN req
      BY DEF IInv, BuildInv, ShapeInv
    <3> QED
      BY <1>5, <3>1 DEF b
  <2> HIDE DEF r
  <2> QED
    BY <1>1, <1>2, <1>5, <2>1, <2>3, <2>4, AsksFacts, WorkerKeeps
<1> QED
  BY <1>3, <1>4, <1>5 DEF WFind, WBundle, WMisfiled, ghosts

(* A handler goes to another cport's device only if the driver was given   *)
(* another bundle.                                                         *)
LEMMA DeviceFacts ==
  ASSUME IInv, NEW c \in CPorts, req[c].pc = "run", driver[c] \in DevDrivers,
         NEW b, b = req[c].bundle,
         ~(InDevs(b, c - bundle[b].start) /\ bundle[b].dev[c - bundle[b].start + 1] = c)
  PROVE  \E i, j \in DOMAIN List :
           List[i].id = c /\ Later(i, j) /\ List[i].bundle # List[j].bundle
<1>1. PICK i \in DOMAIN List : Serves(c, i)
  BY AsksFacts
<1>2. Given(i, b)
  BY <1>1 DEF Serves
<1>3. b # List[i].bundle
  BY <1>1 DEF Serves, Built, Slot, InDevs
<1> QED
  BY <1>1, <1>2, <1>3 DEF Given, Serves

LEMMA RunStep ==
  ASSUME IInv, NEW c \in CPorts, WDevice(c) \/ WOther(c)
  PROVE  IInv'
<1>1. /\ UNCHANGED <<inputs, boot, core, connected, misfiled, lost>>
      /\ req' = [req EXCEPT ![c] = NoReq] /\ req[c].pc = "run"
      /\ fault' \in {fault, "outside"}
  BY DEF WDevice, WOther, ghosts
<1>2. \/ strayed' = strayed
      \/ /\ strayed' = strayed \cup {c} /\ driver[c] \in DevDrivers
         /\ LET b == req[c].bundle
                i == c - bundle[b].start
            IN  ~(InDevs(b, i) /\ bundle[b].dev[i + 1] = c)
  BY DEF WDevice, WOther, ghosts
<1>3. strayed' = strayed \/ (strayed' = strayed \cup {c}
        /\ \E i, j \in DOMAIN List :
             List[i].id = c /\ Later(i, j) /\ List[i].bundle # List[j].bundle)
  BY <1>1, <1>2, DeviceFacts
<1> QED
  BY <1>1, <1>3, AsksFacts, WorkerKeeps

(* The control protocol tells the host of cports that have a driver.       *)
LEMMA ControlStep ==
  ASSUME IInv, NEW c \in CPorts, fault = "none",
         CtlListen(c) \/ CtlNotify(c) \/ CtlDisconnect(c)
  PROVE  IInv'
<1>1. /\ UNCHANGED <<inputs, boot, core, misfiled, strayed, lost, fault>>
      /\ req[c].pc \in {"run", "notify"} /\ req[c] \in Asks
      /\ manifest' = manifest
  BY AsksFacts DEF CtlListen, CtlNotify, CtlDisconnect, ghosts, inputs
<1>2. CASE CtlListen(c) /\ req' = [req EXCEPT ![c] = [@ EXCEPT !.pc = "notify"]]
  <2> DEFINE r == [req[c] EXCEPT !.pc = "notify"]
  <2>1. /\ r \in Asks /\ r.pc = "notify" /\ r.kind = req[c].kind /\ r.arg = req[c].arg
        /\ r.bundle = req[c].bundle
    BY <1>1 DEF Asks
  <2>2. req' = [req EXCEPT ![c] = r]
    BY <1>2
  <2> HIDE DEF r
  <2>3. \A i \in DOMAIN List : Serves(c, i) => Given(i, r.bundle)
    BY <1>1, <2>1 DEF Serves
  <2>4. req[c].kind = "connect" /\ connected' = connected
    BY <1>2 DEF CtlListen, ghosts
  <2> QED
    BY <1>1, <2>1, <2>2, <2>3, <2>4, AsksFacts, WorkerKeeps
<1>3. CASE req' = [req EXCEPT ![c] = NoReq] /\ connected' = connected
  BY <1>1, <1>3, AsksFacts, WorkerKeeps
<1>4. CASE /\ CtlNotify(c) \/ CtlDisconnect(c)
           /\ req' = [req EXCEPT ![c] = NoReq]
  <2>1. /\ req[c].arg \in CPorts
        /\ connected' \subseteq connected
           \/ (Registered(req[c].arg) /\ connected' = connected \cup {req[c].arg})
    BY <1>4, AsksFacts DEF CtlNotify, CtlDisconnect
  <2>2. /\ BuildInv' /\ ServesInv'
        /\ \A x \in CPorts :
             /\ req'[x].pc # "none" => driver'[x] # None
             /\ req'[x].kind # "plain" => req'[x].arg \in CPorts
             /\ req'[x].pc = "notify" => req'[x].kind = "connect"
    <3>1. fault' \in Faults
      BY <1>1 DEF IInv, BuildInv, ShapeInv
    <3> QED
      BY <1>1, <1>4, <3>1, AsksFacts, HostKeeps
  <2>3. ReqInv'
    BY <1>1, <2>1, <2>2 DEF IInv, HostInv, ReqInv, Registered, core
  <2>4. HandlerIsOwn' /\ StrayedInv'
    BY <1>1, GhostsStay
  <2> QED
    BY <1>1, <2>2, <2>3, <2>4 DEF IInv, HostInv, ConnectedIsServed
<1> QED
  BY <1>2, <1>3, <1>4 DEF CtlListen, CtlNotify, CtlDisconnect, ghosts

-----------------------------------------------------------------------------
(* The combined manifest.                                                  *)

IsSeq(m) == \E S : m \in Seq(S)

(* Every id of m is a natural number up to the largest of its kind.        *)
Sound(m, top) ==
  /\ IsSeq(m) /\ WellFormed(m)
  /\ top \in [Kinds -> Nat]
  /\ \A kind \in Kinds : \A n \in Ids(m, kind) : n \in 0..top[kind]

FirstMax == MaxIds(manifest)
SecondBound(kind) == 2 * FirstMax[kind] + Largest(Ids(clicks[1], kind))

(* While it is put together the combined manifest is sound, and there is   *)
(* room for the fragments to come.                                         *)
RefsInv ==
  /\ manifest \in Manifests /\ clicks \in Clicks
  /\ boot.pc = "parse" => boot.at = 1
  /\ boot.pc = "patch" => boot.at \in 1..Len(clicks) + 1
  /\ PartsFit =>
       /\ WellFormed(blob)
       /\ boot.pc = "patch" => Sound(blob, max)
       /\ boot.pc = "patch" /\ boot.at = 1 => max = FirstMax
       /\ boot.pc = "patch" /\ boot.at = 2 => \A kind \in Kinds : max[kind] <= SecondBound(kind)

(* The largest of some numbers.                                            *)
LEMMA LargestFacts ==
  ASSUME NEW n \in Nat, NEW S, S \subseteq 0..n
  PROVE  /\ Largest(S) \in 0..n
         /\ S # {} => Largest(S) \in S
         /\ \A k \in S : k <= Largest(S)
<1>1. CASE S = {}
  BY <1>1 DEF Largest
<1>2. CASE S # {}
  <2> DEFINE T == {n - k : k \in S}
  <2>1. \A k \in S : k \in Nat /\ n - k \in Nat
    OBVIOUS
  <2>2. T \subseteq Nat /\ T # {}
    BY <1>2, <2>1
  <2>3. \E l \in T : \A k \in T : l <= k
    <3> HIDE DEF T
    <3>1. PICK R : R = OpToRel(<, Nat)
      OBVIOUS
    <3>2. IsWellFoundedOn(R, Nat)
      BY <3>1, NatLessThanWellFounded
    <3>3. PICK l \in T : \A k \in T : <<k, l>> \notin R
      BY <2>2, <3>2, WFMin
    <3>4. \A k \in T : ~(k < l)
      BY <2>2, <3>1, <3>3 DEF OpToRel
    <3> QED
      BY <2>2, <3>4
  <2>4. PICK k \in S : \A j \in S : n - k <= n - j
    BY <2>3
  <2>5. \A j \in S : j <= k
    BY <2>1, <2>4
  <2> QED
    BY <1>2, <2>5 DEF Largest
<1> QED
  BY <1>1, <1>2

(* A manifest's or fragment's own ids.                                     *)
LEMMA IdFacts ==
  ASSUME NEW m, Described(m), NEW kind \in Kinds
  PROVE  /\ Ids(m, kind) \subseteq 0..IdRange - 1
         /\ Largest(Ids(m, kind)) \in 0..IdRange - 1
         /\ \A n \in Ids(m, kind) : n <= Largest(Ids(m, kind))
<1>1. PICK top \in Nat : top = IdRange - 1
  BY ManifestAssumption
<1>2. PICK S : S = Ids(m, kind)
  OBVIOUS
<1>3. S \subseteq 0..top
  BY <1>1, <1>2 DEF Ids, Described
<1>4. Largest(S) \in 0..top /\ \A n \in S : n <= Largest(S)
  BY <1>3, LargestFacts
<1> QED
  BY <1>1, <1>2, <1>3, <1>4

(* The N descriptors that are kept of a fragment stand in the places g.    *)
Places(f, N, g) ==
  /\ N \in Nat /\ g \in [1..N -> KeptAt(f)] /\ KeptAt(f) \subseteq DOMAIN f
  /\ \A n, k \in 1..N : n # k => g[n] # g[k]
  /\ \A i \in KeptAt(f) : \E n \in 1..N : g[n] = i

LEMMA KeptFacts ==
  ASSUME NEW f, f \in Seq(Range(f))
  PROVE  \E N, g : Places(f, N, g) /\ Kept(f) = [n \in 1..N |-> f[g[n]]]
<1> DEFINE K == KeptAt(f)
           N == Cardinality(K)
           Upto(i) == {j \in K : j <= i}
           r == [i \in K |-> Rank(f, i)]
<1>1. K \subseteq 1..Len(f) /\ Len(f) \in Nat /\ DOMAIN f = 1..Len(f)
  BY DEF KeptAt
<1>2. IsFiniteSet(K) /\ N \in Nat
  <2>1. IsFiniteSet(1..Len(f))
    BY <1>1, FS_Interval
  <2>2. K \in SUBSET (1..Len(f))
    BY <1>1
  <2> HIDE DEF K
  <2>3. IsFiniteSet(K)
    BY <2>1, <2>2, FS_Subset
  <2> QED
    BY <2>3, FS_CardinalityType
<1>3. \A i \in K : Rank(f, i) = Cardinality(Upto(i))
  BY DEF Rank
<1>4. \A i \in K : IsFiniteSet(Upto(i)) /\ Cardinality(Upto(i)) \in 1..N
  <2> SUFFICES ASSUME NEW i \in K
               PROVE  IsFiniteSet(Upto(i)) /\ Cardinality(Upto(i)) \in 1..N
    OBVIOUS
  <2>1. PICK U : U = Upto(i)
    OBVIOUS
  <2>2. U \subseteq K /\ i \in U
    BY <1>1, <2>1
  <2>3. IsFiniteSet(U) /\ Cardinality(U) <= N /\ Cardinality(U) \in Nat
    BY <1>2, <2>2, FS_Subset, FS_CardinalityType
  <2>4. Cardinality(U) # 0
    BY <2>2, <2>3, FS_EmptySet
  <2> QED
    BY <2>1, <2>3, <2>4, <1>2
<1>5. ASSUME NEW i \in K, NEW j \in K, i < j
      PROVE  Rank(f, i) # Rank(f, j)
  <2>1. PICK U, V : U = Upto(i) /\ V = Upto(j)
    OBVIOUS
  <2>2. U \subseteq V /\ j \in V /\ j \notin U
    BY <1>1, <1>5, <2>1
  <2>3. IsFiniteSet(V)
    BY <1>4, <2>1
  <2>4. Cardinality(U) # Cardinality(V)
    BY <2>2, <2>3, FS_Subset
  <2> QED
    BY <1>3, <2>1, <2>4
<1>6. r \in Injection(K, 1..N)
  <2>1. r \in [K -> 1..N]
    BY <1>3, <1>4
  <2>2. \A i, j \in K : r[i] = r[j] => i = j
    BY <1>1, <1>5
  <2> QED
    BY <2>1, <2>2 DEF Injection, IsInjective
<1>7. r \in Surjection(K, 1..N)
  <2>1. IsFiniteSet(1..N) /\ Cardinality(1..N) = N
    BY <1>2, FS_Interval
  <2> HIDE DEF r
  <2> QED
    BY <1>6, <2>1, FS_Injection
<1>8. \A n \in 1..N : \E i \in K : Rank(f, i) = n
  BY <1>7 DEF Surjection
<1> DEFINE g == [n \in 1..N |-> CHOOSE i \in K : Rank(f, i) = n]
<1>9. \A n \in 1..N : g[n] \in K /\ Rank(f, g[n]) = n
  BY <1>8
<1>10. \A i \in K : Rank(f, i) \in 1..N /\ g[Rank(f, i)] = i
  <2> SUFFICES ASSUME NEW i \in K PROVE Rank(f, i) \in 1..N /\ g[Rank(f, i)] = i
    OBVIOUS
  <2>1. Rank(f, i) \in 1..N
    BY <1>3, <1>4
  <2>2. g[Rank(f, i)] \in K /\ Rank(f, g[Rank(f, i)]) = Rank(f, i)
    BY <1>9, <2>1
  <2> HIDE DEF g
  <2> QED
    BY <1>1, <1>5, <2>1, <2>2
<1>11. Kept(f) = [n \in 1..N |-> f[g[n]]]
  BY DEF Kept
<1>12. g \in [1..N -> K]
  BY <1>9
<1> HIDE DEF g, N, K
<1>13. \A n, k \in 1..N : n # k => g[n] # g[k]
  BY <1>9
<1>14. \A i \in K : \E n \in 1..N : g[n] = i
  BY <1>10
<1>15. Places(f, N, g)
  BY <1>1, <1>2, <1>12, <1>13, <1>14 DEF K, Places
<1> QED
  BY <1>11, <1>15

(* What a fragment becomes: its references to strings move up with its     *)
(* strings; its links stay, and tell how far its properties moved.         *)
IsMoved(q, f, top) ==
  \E N, g :
    /\ Places(f, N, g)
    /\ IsSeq(q) /\ DOMAIN q = 1..N
    /\ \A n \in 1..N :
         LET d == f[g[n]]
         IN  /\ q[n].type = d.type
             /\ d.type \in Kinds => q[n].id = d.id + top[d.type] /\ q[n].id \in 0..IdRange - 1
             /\ d.type = "string" => q[n].text = d.text
             /\ d.type \in {"property", "device"} =>
                  q[n].name = d.name + top["string"] /\ q[n].meant = d.meant
             /\ d.type = "device" =>
                  q[n].link = d.link /\ q[n].linked = d.linked /\ q[n].shift = top["property"]

(* There is room for a fragment's ids above those so far.                  *)
Room(f, top) ==
  /\ top \in [Kinds -> Nat]
  /\ \A kind \in Kinds : top[kind] + Largest(Ids(f, kind)) < IdRange

LEMMA NameFacts ==
  ASSUME NEW m, WellFormed(m), NEW i \in DOMAIN m, m[i].type \in {"property", "device"}
  PROVE  m[i].name \in Ids(m, "string")
<1>1. Resolved(m, m[i]) = {m[i].meant}
  BY DEF WellFormed
<1>2. PICK j \in DOMAIN m : m[j].type = "string" /\ m[j].id = m[i].name
  BY <1>1 DEF Resolved
<1> QED
  BY <1>2 DEF Ids

LEMMA LinkFacts ==
  ASSUME NEW m, WellFormed(m), NEW i \in DOMAIN m, m[i].type = "device",
         m[i].link # 0
  PROVE  m[i].link + m[i].shift \in Ids(m, "property")
<1>1. Linked(m, m[i]) = {m[i].linked}
  BY DEF WellFormed
<1>2. PICK j \in DOMAIN m : m[j].type = "property" /\ m[j].id = m[i].link + m[i].shift
  BY <1>1 DEF Linked
<1> QED
  BY <1>2 DEF Ids

LEMMA MovedFacts ==
  ASSUME NEW n \in 0..IdRange - 1, NEW by \in Nat, n + by < IdRange
  PROVE  Moved(n, by) = n + by /\ n + by \in 0..IdRange - 1
  BY ManifestAssumption DEF Moved

LEMMA FragmentFacts ==
  ASSUME NEW f, Described(f), WellFormed(f), NEW top, Room(f, top)
  PROVE  IsMoved(Fragment(top, f), f, top)
<1>1. f \in Seq(Range(f))
  BY DEF Described
<1>2. PICK N, g : Places(f, N, g) /\ Kept(f) = [n \in 1..N |-> f[g[n]]]
  BY <1>1, KeptFacts
<1>3. N \in Nat /\ \A n \in 1..N : g[n] \in DOMAIN f
  BY <1>2 DEF Places
<1>4. PICK q : q = Fragment(top, f)
  OBVIOUS
<1>5. q = [n \in 1..N |-> Renumbered(top, f[g[n]])]
  BY <1>2, <1>3, <1>4 DEF Fragment
<1>6. IsSeq(q) /\ DOMAIN q = 1..N
  <2>1. q \in Seq({Renumbered(top, f[g[n]]) : n \in 1..N})
    BY <1>3, <1>5
  <2> QED
    BY <1>5, <2>1 DEF IsSeq
<1>7. ASSUME NEW n \in 1..N, NEW d, d = f[g[n]]
      PROVE  /\ q[n].type = d.type
             /\ d.type \in Kinds => q[n].id = d.id + top[d.type] /\ q[n].id \in 0..IdRange - 1
             /\ d.type = "string" => q[n].text = d.text
             /\ d.type \in {"property", "device"} =>
                  q[n].name = d.name + top["string"] /\ q[n].meant = d.meant
             /\ d.type = "device" =>
                  q[n].link = d.link /\ q[n].linked = d.linked /\ q[n].shift = top["property"]
  <2>1. PICK i \in DOMAIN f : i = g[n] /\ d = f[i]
    BY <1>3, <1>7
  <2>2. q[n] = Renumbered(top, d)
    BY <1>5, <1>7
  <2>3. ASSUME NEW kind \in Kinds, NEW x \in Ids(f, kind)
        PROVE  Moved(x, top[kind]) = x + top[kind] /\ x + top[kind] \in 0..IdRange - 1
    <3>1. x \in 0..IdRange - 1 /\ x <= Largest(Ids(f, kind))
          /\ Largest(Ids(f, kind)) \in 0..IdRange - 1
      BY <2>3, IdFacts
    <3>2. top[kind] \in Nat /\ top[kind] + Largest(Ids(f, kind)) < IdRange
      BY DEF Room
    <3>3. PICK l \in Nat : l = Largest(Ids(f, kind))
      BY <3>1, ManifestAssumption
    <3>4. x + top[kind] < IdRange
      BY <3>1, <3>2, <3>3, ManifestAssumption
    <3> QED
      BY <3>1, <3>2, <3>4, MovedFacts
  <2>4. d.type \in Kinds => d.id \in Ids(f, d.type)
    BY <2>1 DEF Ids
  <2>5. "string" \in Kinds /\ "property" \in Kinds /\ "device" \in Kinds
    BY DEF Kinds
  <2>6. CASE d.type = "string"
    <3>1. DOMAIN d = {"type", "id", "text"}
      BY <2>1, <2>6 DEF Described
    <3>2. Renumbered(top, d) = [d EXCEPT !.id = Moved(d.id, top["string"])]
      BY <2>6 DEF Renumbered
    <3>3. q[n].type = d.type /\ q[n].text = d.text /\ q[n].id = Moved(d.id, top["string"])
      BY <2>2, <3>1, <3>2
    <3> QED
      BY <2>3, <2>4, <2>5, <2>6, <3>3
  <2>7. CASE d.type = "property"
    <3>1. DOMAIN d = {"type", "id", "name", "meant"}
      BY <2>1, <2>7 DEF Described
    <3>2. Renumbered(top, d) = [d EXCEPT !.id = Moved(d.id, top["property"]),
                                         !.name = Moved(d.name, top["string"])]
      BY <2>7 DEF Renumbered
    <3>3. /\ q[n].type = d.type /\ q[n].meant = d.meant
          /\ q[n].id = Moved(d.id, top["property"]) /\ q[n].name = Moved(d.name, top["string"])
      BY <2>2, <3>1, <3>2
    <3>4. d.name \in Ids(f, "string")
      BY <2>1, <2>7, NameFacts
    <3> QED
      BY <2>3, <2>4, <2>5, <2>7, <3>3, <3>4
  <2>8. CASE d.type = "device"
    <3>1. DOMAIN d = {"type", "id", "name", "meant", "link", "linked", "shift"}
      BY <2>1, <2>8 DEF Described
    <3>2. Renumbered(top, d) = [d EXCEPT !.id = Moved(d.id, top["device"]),
                                         !.name = Moved(d.name, top["string"]),
                                         !.shift = top["property"]]
      BY <2>8 DEF Renumbered
    <3>3. /\ q[n].type = d.type /\ q[n].meant = d.meant
          /\ q[n].id = Moved(d.id, top["device"]) /\ q[n].name = Moved(d.name, top["string"])
      BY <2>2, <3>1, <3>2
    <3>4. q[n].link = d.link /\ q[n].linked = d.linked /\ q[n].shift = top["property"]
      BY <2>2, <3>1, <3>2
    <3>5. d.name \in Ids(f, "string")
      BY <2>1, <2>8, NameFacts
    <3> QED
      BY <2>3, <2>4, <2>5, <2>8, <3>3, <3>4, <3>5
  <2>9. CASE d.type \notin {"string", "property", "device"}
    <3>1. Renumbered(top, d) = d
      BY <2>9 DEF Renumbered
    <3> QED
      BY <2>2, <2>9, <3>1 DEF Kinds
  <2> QED
    BY <2>6, <2>7, <2>8, <2>9
<1> QED
  BY <1>2, <1>4, <1>6, <1>7 DEF IsMoved

(* The fragment's own ids, in what it becomes.                             *)
LEMMA MovedIds ==
  ASSUME NEW f, Described(f), NEW top, Room(f, top), NEW q, IsMoved(q, f, top),
         \A kind \in Kinds : 0 \notin Ids(f, kind)
  PROVE  \A kind \in Kinds :
           /\ MaxIds(q)[kind] \in 0..IdRange - 1
           /\ MaxIds(q)[kind] <= top[kind] + Largest(Ids(f, kind))
           /\ \A x \in Ids(q, kind) : x \in Nat /\ x > top[kind] /\ x <= MaxIds(q)[kind]
<1>1. PICK N, g : /\ Places(f, N, g) /\ IsSeq(q) /\ DOMAIN q = 1..N
                  /\ \A n \in 1..N :
                       LET d == f[g[n]]
                       IN  /\ q[n].type = d.type
                           /\ d.type \in Kinds =>
                                q[n].id = d.id + top[d.type] /\ q[n].id \in 0..IdRange - 1
  BY DEF IsMoved
<1>2. PICK b \in Nat : b = IdRange - 1
  BY ManifestAssumption
<1> SUFFICES ASSUME NEW kind \in Kinds
    PROVE  /\ MaxIds(q)[kind] \in 0..b
           /\ MaxIds(q)[kind] <= top[kind] + Largest(Ids(f, kind))
           /\ \A x \in Ids(q, kind) : x \in Nat /\ x > top[kind] /\ x <= MaxIds(q)[kind]
  BY <1>2
<1>3. PICK S, l : S = Ids(q, kind) /\ l = Largest(Ids(f, kind))
  OBVIOUS
<1>4. /\ Ids(f, kind) \subseteq 0..b /\ l \in 0..b /\ \A x \in Ids(f, kind) : x <= l
      /\ top[kind] \in Nat
  BY <1>2, <1>3, IdFacts DEF Room
<1>5. ASSUME NEW x \in S
      PROVE  x \in 0..b /\ x > top[kind] /\ x <= top[kind] + l
  <2>1. PICK n \in 1..N : q[n].type = kind /\ q[n].id = x
    BY <1>1, <1>3, <1>5 DEF Ids
  <2>2. f[g[n]].type = kind /\ x = f[g[n]].id + top[kind] /\ x \in 0..b
    BY <1>1, <1>2, <2>1
  <2>3. f[g[n]].id \in Ids(f, kind)
    BY <1>1, <2>2 DEF Ids, Places
  <2>4. PICK y \in Ids(f, kind) : y = f[g[n]].id /\ y # 0
    BY <2>3
  <2> QED
    BY <1>4, <2>2, <2>4
<1>6. S \subseteq 0..b
  BY <1>5
<1>7. /\ Largest(S) \in 0..b /\ (S # {} => Largest(S) \in S)
      /\ \A x \in S : x <= Largest(S)
  BY <1>6, LargestFacts
<1>8. S = {} => Largest(S) = 0
  BY DEF Largest
<1>9. MaxIds(q)[kind] = Largest(S)
  BY <1>3 DEF MaxIds
<1>10. Largest(S) <= top[kind] + l
  BY <1>4, <1>5, <1>7, <1>8
<1> QED
  BY <1>3, <1>5, <1>7, <1>9, <1>10

(* Ids are of one descriptor each.                                         *)
Distinct(m) ==
  \A i, j \in DOMAIN m :
    i # j /\ m[i].type \in Kinds /\ m[i].type = m[j].type => m[i].id # m[j].id

Referring(m) ==
  \A i \in DOMAIN m : m[i].type \in {"property", "device"} => Resolved(m, m[i]) = {m[i].meant}

Linking(m) ==
  \A i \in DOMAIN m :
    m[i].type = "device" /\ m[i].link # 0 => Linked(m, m[i]) = {m[i].linked}

LEMMA WellFormedParts == \A m : WellFormed(m) <=> Distinct(m) /\ Referring(m) /\ Linking(m)
  BY DEF WellFormed, Distinct, Referring, Linking

(* r is m with q behind it.                                                *)
Joins(r, m, q) ==
  /\ IsSeq(r) /\ Len(m) \in Nat /\ DOMAIN m = 1..Len(m)
  /\ \A i \in DOMAIN m : i \in DOMAIN r /\ r[i] = m[i]
  /\ \A n \in DOMAIN q : Len(m) + n \in DOMAIN r /\ r[Len(m) + n] = q[n]
  /\ \A i \in DOMAIN r : i \in DOMAIN m \/ \E n \in DOMAIN q : i = Len(m) + n

LEMMA JoinFacts ==
  ASSUME NEW m, IsSeq(m), NEW q, IsSeq(q), NEW r, r = m \o q
  PROVE  Joins(r, m, q)
<1>1. PICK S, T : m \in Seq(S) /\ q \in Seq(T)
  BY DEF IsSeq
<1>2. PICK l \in Nat, k \in Nat : l = Len(m) /\ k = Len(q)
  BY <1>1
<1>3. DOMAIN m = 1..l /\ DOMAIN q = 1..k
  BY <1>1, <1>2
<1>4. m \in Seq(S \cup T) /\ q \in Seq(S \cup T)
  BY <1>1
<1>5. r \in Seq(S \cup T) /\ Len(r) = l + k
  BY <1>2, <1>4
<1>6. DOMAIN r = 1..l + k
  BY <1>5
<1>7. \A i \in 1..l : r[i] = m[i]
  BY <1>1, <1>2
<1>8. \A n \in 1..k : r[l + n] = q[n]
  BY <1>1, <1>2
<1>9. \A i \in 1..l + k : i \in 1..l \/ \E n \in 1..k : i = l + n
  <2> SUFFICES ASSUME NEW i \in 1..l + k, i \notin 1..l PROVE \E n \in 1..k : i = l + n
    OBVIOUS
  <2>1. i - l \in 1..k /\ i = l + (i - l)
    OBVIOUS
  <2> QED
    BY <2>1
<1>10. (\A i \in 1..l : i \in 1..l + k) /\ (\A n \in 1..k : l + n \in 1..l + k)
  OBVIOUS
<1>11. IsSeq(r)
  BY <1>5 DEF IsSeq
<1>12. \A i \in DOMAIN m : i \in DOMAIN r /\ r[i] = m[i]
  BY <1>3, <1>6, <1>7, <1>10
<1>13. \A n \in DOMAIN q : Len(m) + n \in DOMAIN r /\ r[Len(m) + n] = q[n]
  BY <1>2, <1>3, <1>6, <1>8, <1>10
<1>14. ASSUME NEW i \in DOMAIN r
       PROVE  i \in DOMAIN m \/ \E n \in DOMAIN q : i = Len(m) + n
  <2>1. i \in 1..l + k
    BY <1>6
  <2>2. CASE i \in 1..l
    BY <1>3, <2>2
  <2>3. CASE \E n \in 1..k : i = l + n
    <3>1. PICK n \in 1..k : i = l + n
      BY <2>3
    <3>2. n \in DOMAIN q /\ i = Len(m) + n
      BY <1>2, <1>3, <3>1
    <3> QED
      BY <3>2
  <2> QED
    BY <1>9, <2>1, <2>2, <2>3
<1>15. Len(m) \in Nat /\ DOMAIN m = 1..Len(m)
  BY <1>2, <1>3
<1> QED
  BY <1>11, <1>12, <1>13, <1>14, <1>15, Zenon DEF Joins

(* A fragment whose ids fit is appended: nothing means another than it did. *)
LEMMA AppendedIsSound ==
  ASSUME NEW m, NEW top, Sound(m, top), NEW f, Described(f), WellFormed(f), Room(f, top),
         \A kind \in Kinds : 0 \notin Ids(f, kind)
  PROVE  /\ Sound(m \o Fragment(top, f), NextMax(top, f))
         /\ \A kind \in Kinds :
              NextMax(top, f)[kind] <= 2 * top[kind] + Largest(Ids(f, kind))
<1>1. PICK q : q = Fragment(top, f)
  OBVIOUS
<1>2. IsMoved(q, f, top)
  BY <1>1, FragmentFacts
<1>3. PICK N, g :
        /\ Places(f, N, g)
        /\ IsSeq(q) /\ DOMAIN q = 1..N
        /\ \A n \in 1..N :
             LET d == f[g[n]]
             IN  /\ q[n].type = d.type
                 /\ d.type \in Kinds => q[n].id = d.id + top[d.type] /\ q[n].id \in 0..IdRange - 1
                 /\ d.type = "string" => q[n].text = d.text
                 /\ d.type \in {"property", "device"} =>
                      q[n].name = d.name + top["string"] /\ q[n].meant = d.meant
                 /\ d.type = "device" =>
                      q[n].link = d.link /\ q[n].linked = d.linked /\ q[n].shift = top["property"]
  BY <1>2 DEF IsMoved
<1>4. /\ top \in [Kinds -> Nat] /\ IsSeq(m) /\ WellFormed(m)
      /\ \A kind \in Kinds : \A n \in Ids(m, kind) : n \in 0..top[kind]
  BY DEF Sound
<1>5. PICK r : r = m \o q
  OBVIOUS
<1>6. /\ Len(m) \in Nat /\ DOMAIN m = 1..Len(m) /\ IsSeq(r)
      /\ \A i \in DOMAIN m : i \in DOMAIN r /\ r[i] = m[i]
      /\ \A n \in DOMAIN q : Len(m) + n \in DOMAIN r /\ r[Len(m) + n] = q[n]
      /\ \A i \in DOMAIN r : i \in DOMAIN m \/ \E n \in DOMAIN q : i = Len(m) + n
  <2>1. IsSeq(m) /\ IsSeq(q)
    BY <1>3, <1>4
  <2>2. Joins(r, m, q)
    BY <1>5, <2>1, JoinFacts
  <2> QED
    BY <2>2 DEF Joins
<1>7. \A kind \in Kinds :
        /\ MaxIds(q)[kind] \in 0..IdRange - 1
        /\ MaxIds(q)[kind] <= top[kind] + Largest(Ids(f, kind))
        /\ \A x \in Ids(q, kind) : x \in Nat /\ x > top[kind] /\ x <= MaxIds(q)[kind]
  BY <1>2, MovedIds
<1>8. \A n \in DOMAIN q : /\ q[n].type = f[g[n]].type /\ g[n] \in DOMAIN f
                          /\ q[n].type \in Kinds => /\ f[g[n]].id \in Nat
                                                    /\ q[n].id = f[g[n]].id + top[q[n].type]
  <2> SUFFICES ASSUME NEW n \in 1..N
               PROVE  /\ q[n].type = f[g[n]].type /\ g[n] \in DOMAIN f
                      /\ q[n].type \in Kinds => /\ f[g[n]].id \in Nat
                                                /\ q[n].id = f[g[n]].id + top[q[n].type]
    BY <1>3
  <2>1. g[n] \in DOMAIN f
    BY <1>3 DEF Places
  <2> QED
    BY <1>3, <2>1, ManifestAssumption DEF Described
<1>9. /\ \A i \in DOMAIN m : m[i].type \in Kinds => m[i].id \in Ids(m, m[i].type)
      /\ \A n \in DOMAIN q : q[n].type \in Kinds => q[n].id \in Ids(q, q[n].type)
      /\ \A i \in DOMAIN f : f[i].type \in Kinds => f[i].id \in Ids(f, f[i].type)
  BY DEF Ids
<1>10. "string" \in Kinds
  BY DEF Kinds
<1>11. Distinct(r)
  <2>1. ASSUME NEW i \in DOMAIN m, NEW n \in DOMAIN q, m[i].type \in Kinds, m[i].type = q[n].type
        PROVE  m[i].id # q[n].id
    <3>1. PICK t \in Nat : t = top[m[i].type]
      BY <1>4, <2>1
    <3>2. m[i].id \in 0..t
      BY <1>4, <1>9, <2>1, <3>1
    <3>3. q[n].id \in Nat /\ q[n].id > t
      BY <1>7, <1>9, <2>1, <3>1
    <3> QED
      BY <3>2, <3>3
  <2>2. ASSUME NEW n \in DOMAIN q, NEW k \in DOMAIN q, n # k, q[n].type \in Kinds,
               q[n].type = q[k].type
        PROVE  q[n].id # q[k].id
    <3>1. g[n] # g[k] /\ g[n] \in DOMAIN f /\ g[k] \in DOMAIN f
      BY <1>3, <1>8, <2>2 DEF Places
    <3>2. f[g[n]].id # f[g[k]].id
      BY <1>8, <2>2, <3>1, WellFormedParts DEF Distinct
    <3>3. PICK t \in Nat : t = top[q[n].type]
      BY <1>4, <2>2
    <3> QED
      BY <1>8, <2>2, <3>2, <3>3
  <2>3. Distinct(m)
    BY <1>4, WellFormedParts
  <2>4. ASSUME NEW i \in DOMAIN r, NEW j \in DOMAIN r, i # j, r[i].type \in Kinds,
               r[i].type = r[j].type
        PROVE  r[i].id # r[j].id
    <3>1. CASE i \in DOMAIN m /\ j \in DOMAIN m
      BY <1>6, <2>3, <2>4, <3>1 DEF Distinct
    <3>2. CASE i \in DOMAIN m /\ \E n \in DOMAIN q : j = Len(m) + n
      BY <1>6, <2>1, <2>4, <3>2
    <3>3. CASE j \in DOMAIN m /\ \E n \in DOMAIN q : i = Len(m) + n
      BY <1>6, <2>1, <2>4, <3>3
    <3>4. CASE (\E n \in DOMAIN q : i = Len(m) + n) /\ \E k \in DOMAIN q : j = Len(m) + k
      <4>1. PICK n \in DOMAIN q, k \in DOMAIN q : i = Len(m) + n /\ j = Len(m) + k
        BY <3>4
      <4> QED
        BY <1>6, <2>2, <2>4, <4>1
    <3> QED
      BY <1>6, <3>1, <3>2, <3>3, <3>4
  <2> QED
    BY <2>4 DEF Distinct
<1>12. Referring(r)
  <2> DEFINE t == top["string"]
             At(s, name) == {k \in DOMAIN s : s[k].type = "string" /\ s[k].id = name}
  <2>1. t \in Nat /\ Referring(m) /\ Referring(f)
    BY <1>4, <1>10, WellFormedParts
  <2>2. \A k \in DOMAIN m : m[k].type = "string" => m[k].id \in 0..t
    BY <1>4, <1>9, <1>10
  <2>3. \A n \in DOMAIN q : q[n].type = "string" =>
          q[n].id > t /\ q[n].id = f[g[n]].id + t /\ f[g[n]].id \in Nat /\ q[n].text = f[g[n]].text
    BY <1>3, <1>7, <1>8, <1>9, <1>10
  <2>4. ASSUME NEW i \in DOMAIN m, m[i].type \in {"property", "device"}
        PROVE  Resolved(r, m[i]) = {m[i].meant}
    <3>1. m[i].name \in 0..t
      BY <1>4, <1>10, <2>4, NameFacts
    <3>2. \A k \in DOMAIN r : r[k].type = "string" /\ r[k].id = m[i].name => k \in DOMAIN m
      BY <1>6, <2>1, <2>3, <3>1
    <3>3. At(r, m[i].name) = At(m, m[i].name)
      BY <1>6, <3>2
    <3>4. Resolved(r, m[i]) = Resolved(m, m[i])
      BY <1>6, <3>3 DEF Resolved
    <3> QED
      BY <2>1, <2>4, <3>4 DEF Referring
  <2>5. ASSUME NEW n \in DOMAIN q, q[n].type \in {"property", "device"}
        PROVE  Resolved(r, q[n]) = {q[n].meant}
    <3>1. PICK d : d = f[g[n]]
      OBVIOUS
    <3>2. /\ g[n] \in DOMAIN f /\ d.type \in {"property", "device"}
          /\ q[n].name = d.name + t /\ q[n].meant = d.meant
      BY <1>3, <1>8, <2>5, <3>1
    <3>3. d.name \in Ids(f, "string")
      BY <3>1, <3>2, NameFacts
    <3>4. d.name \in Nat /\ d.name # 0
      BY <1>10, <3>3, IdFacts, ManifestAssumption
    <3>5. q[n].name > t /\ q[n].name \in Nat
      BY <2>1, <3>2, <3>4
    <3>6. Resolved(f, d) = {d.meant}
      BY <2>1, <3>1, <3>2 DEF Referring
    <3>7. ASSUME NEW k \in At(r, q[n].name)
          PROVE  r[k].text = d.meant
      <4>1. k \notin DOMAIN m
        BY <1>6, <2>1, <2>2, <3>5
      <4>2. PICK j \in DOMAIN q : k = Len(m) + j /\ r[k] = q[j]
        BY <1>6, <4>1
      <4>3. /\ f[g[j]].type = "string" /\ q[j].text = f[g[j]].text
            /\ f[g[j]].id + t = d.name + t /\ f[g[j]].id \in Nat
        BY <1>8, <2>3, <3>2, <4>2
      <4>4. f[g[j]].id = d.name
        BY <2>1, <3>4, <4>3
      <4>5. f[g[j]].text \in Resolved(f, d)
        BY <1>8, <4>2, <4>3, <4>4 DEF Resolved
      <4> QED
        BY <3>6, <4>2, <4>3, <4>5
    <3>8. \E k \in At(r, q[n].name) : TRUE
      <4>1. PICK i \in DOMAIN f : f[i].type = "string" /\ f[i].id = d.name
        BY <3>3 DEF Ids
      <4>2. i \in KeptAt(f)
        BY <1>10, <4>1 DEF KeptAt
      <4>3. PICK j \in DOMAIN q : g[j] = i
        BY <1>3, <4>2 DEF Places
      <4>4. q[j].type = "string" /\ q[j].id = d.name + t
        BY <1>8, <1>10, <2>3, <4>1, <4>3
      <4> QED
        BY <1>6, <3>2, <4>3, <4>4
    <3>9. Resolved(r, q[n]) = {r[k].text : k \in At(r, q[n].name)}
      BY DEF Resolved
    <3> HIDE DEF At
    <3> QED
      BY <3>2, <3>7, <3>8, <3>9
  <2>6. ASSUME NEW i \in DOMAIN r, r[i].type \in {"property", "device"}
        PROVE  Resolved(r, r[i]) = {r[i].meant}
    <3>1. CASE i \in DOMAIN m
      BY <1>6, <2>4, <2>6, <3>1
    <3>2. CASE \E n \in DOMAIN q : i = Len(m) + n
      BY <1>6, <2>5, <2>6, <3>2
    <3> QED
      BY <1>6, <3>1, <3>2
  <2> QED
    BY <2>6 DEF Referring
<1>13. Linking(r)
  <2> DEFINE p == top["property"]
             At(s, x) == {k \in DOMAIN s : s[k].type = "property" /\ s[k].id = x}
  <2>1. p \in Nat /\ Linking(m) /\ Linking(f) /\ "property" \in Kinds
    BY <1>4, WellFormedParts DEF Kinds
  <2>2. \A k \in DOMAIN m : m[k].type = "property" => m[k].id \in 0..p
    BY <1>4, <1>9, <2>1
  <2>3. \A n \in DOMAIN q : q[n].type = "property" =>
          q[n].id > p /\ q[n].id = f[g[n]].id + p /\ f[g[n]].id \in Nat
          /\ q[n].meant = f[g[n]].meant
    BY <1>3, <1>7, <1>8, <1>9, <2>1
  <2>4. ASSUME NEW i \in DOMAIN m, m[i].type = "device", m[i].link # 0
        PROVE  Linked(r, m[i]) = {m[i].linked}
    <3>1. PICK x : x = m[i].link + m[i].shift
      OBVIOUS
    <3>2. x \in 0..p
      BY <1>4, <2>1, <2>4, <3>1, LinkFacts
    <3>3. \A k \in DOMAIN r : r[k].type = "property" /\ r[k].id = x => k \in DOMAIN m
      BY <1>6, <2>1, <2>3, <3>2
    <3>4. At(r, x) = At(m, x)
      BY <1>6, <3>3
    <3>5. Linked(r, m[i]) = Linked(m, m[i])
      BY <1>6, <3>1, <3>4 DEF Linked
    <3> QED
      BY <2>1, <2>4, <3>5 DEF Linking
  <2>5. ASSUME NEW n \in DOMAIN q, q[n].type = "device", q[n].link # 0
        PROVE  Linked(r, q[n]) = {q[n].linked}
    <3>1. PICK d, x : d = f[g[n]] /\ x = q[n].link + q[n].shift
      OBVIOUS
    <3>2. /\ g[n] \in DOMAIN f /\ d.type = "device" /\ q[n].link = d.link
          /\ q[n].linked = d.linked /\ q[n].shift = p
      BY <1>3, <1>8, <2>5, <3>1
    <3>3. d.shift = 0 /\ d.link \in Nat /\ d.link # 0
      BY <2>5, <3>1, <3>2, ManifestAssumption DEF Described
    <3>4. d.link + d.shift = d.link /\ d.link \in Ids(f, "property")
      BY <3>1, <3>2, <3>3, LinkFacts
    <3>5. x = d.link + p /\ x > p
      BY <2>1, <3>1, <3>2, <3>3
    <3>6. Linked(f, d) = {d.linked}
      BY <2>1, <3>1, <3>2, <3>3 DEF Linking
    <3>7. ASSUME NEW k \in At(r, x)
          PROVE  r[k].meant = d.linked
      <4>1. k \notin DOMAIN m
        BY <1>6, <2>1, <2>2, <3>3, <3>5
      <4>2. PICK j \in DOMAIN q : k = Len(m) + j /\ r[k] = q[j]
        BY <1>6, <4>1
      <4>3. /\ f[g[j]].type = "property" /\ q[j].meant = f[g[j]].meant
            /\ f[g[j]].id + p = d.link + p /\ f[g[j]].id \in Nat
        BY <1>8, <2>3, <3>5, <4>2
      <4>4. f[g[j]].id = d.link
        BY <2>1, <3>3, <4>3
      <4>5. f[g[j]].meant \in Linked(f, d)
        BY <1>8, <3>4, <4>2, <4>3, <4>4 DEF Linked
      <4> QED
        BY <3>6, <4>2, <4>3, <4>5
    <3>8. \E k \in At(r, x) : TRUE
      <4>1. PICK i \in DOMAIN f : f[i].type = "property" /\ f[i].id = d.link
        BY <3>4 DEF Ids
      <4>2. i \in KeptAt(f)
        BY <2>1, <4>1 DEF KeptAt
      <4>3. PICK j \in DOMAIN q : g[j] = i
        BY <1>3, <4>2 DEF Places
      <4>4. q[j].type = "property" /\ q[j].id = x
        BY <1>8, <2>1, <2>3, <3>5, <4>1, <4>3
      <4> QED
        BY <1>6, <4>3, <4>4
    <3>9. Linked(r, q[n]) = {r[k].meant : k \in At(r, x)}
      BY <3>1 DEF Linked
    <3> HIDE DEF At
    <3> QED
      BY <3>2, <3>7, <3>8, <3>9
  <2>6. ASSUME NEW i \in DOMAIN r, r[i].type = "device", r[i].link # 0
        PROVE  Linked(r, r[i]) = {r[i].linked}
    <3>1. CASE i \in DOMAIN m
      BY <1>6, <2>4, <2>6, <3>1
    <3>2. CASE \E n \in DOMAIN q : i = Len(m) + n
      BY <1>6, <2>5, <2>6, <3>2
    <3> QED
      BY <1>6, <3>1, <3>2
  <2> QED
    BY <2>6 DEF Linking
<1>14. PICK next : next = NextMax(top, f)
  OBVIOUS
<1>15. next = [kind \in Kinds |-> top[kind] + MaxIds(q)[kind]]
  BY <1>1, <1>14 DEF NextMax
<1>16. ASSUME NEW kind \in Kinds
       PROVE  /\ next[kind] \in Nat /\ next[kind] <= 2 * top[kind] + Largest(Ids(f, kind))
              /\ \A x \in Ids(r, kind) : x \in 0..next[kind]
  <2>1. PICK t \in Nat, p \in Nat : t = top[kind] /\ p = MaxIds(q)[kind]
    BY <1>4, <1>7, ManifestAssumption
  <2>2. next[kind] = t + p
    BY <1>15, <2>1
  <2>3. PICK l \in Nat : l = Largest(Ids(f, kind))
    BY IdFacts, ManifestAssumption
  <2>4. p <= t + l
    BY <1>7, <2>1, <2>3
  <2>5. ASSUME NEW x \in Ids(r, kind) PROVE x \in 0..t + p
    <3>1. PICK i \in DOMAIN r : r[i].type = kind /\ r[i].id = x
      BY <2>5 DEF Ids
    <3>2. CASE i \in DOMAIN m
      <4>1. x \in Ids(m, kind)
        BY <1>6, <1>9, <3>1, <3>2
      <4>2. x \in 0..t
        BY <1>4, <2>1, <4>1
      <4> QED
        BY <4>2
    <3>3. CASE \E n \in DOMAIN q : i = Len(m) + n
      <4>1. x \in Ids(q, kind)
        BY <1>6, <1>9, <3>1, <3>3
      <4>2. x \in Nat /\ x <= p
        BY <1>7, <2>1, <4>1
      <4> QED
        BY <4>2
    <3> QED
      BY <1>6, <3>1, <3>2, <3>3
  <2> QED
    BY <2>1, <2>2, <2>3, <2>4, <2>5
<1>17. Sound(r, next)
  <2>1. next \in [Kinds -> Nat]
    BY <1>15, <1>16
  <2> QED
    BY <1>6, <1>11, <1>12, <1>13, <1>16, <2>1, WellFormedParts DEF Sound
<1> QED
  BY <1>1, <1>5, <1>14, <1>16, <1>17

-----------------------------------------------------------------------------
(* The combined manifest is put together at boot.                          *)

(* The parts, and what may be known of their ids.                          *)
LEMMA PartsFacts ==
  ASSUME manifest \in Manifests, clicks \in Clicks
  PROVE  /\ Described(manifest) /\ Len(clicks) \in 0..2 /\ DOMAIN clicks = 1..Len(clicks)
         /\ \A i \in DOMAIN clicks : Described(clicks[i])
         /\ \A kind \in Kinds :
              /\ FirstMax[kind] = Largest(Ids(manifest, kind)) /\ FirstMax[kind] \in Nat
              /\ \A i \in DOMAIN clicks : Largest(Ids(clicks[i], kind)) \in Nat
<1>1. /\ Described(manifest) /\ Len(clicks) \in 0..2 /\ DOMAIN clicks = 1..Len(clicks)
      /\ \A i \in DOMAIN clicks : Described(clicks[i])
  BY NodeAssumption
<1>2. ASSUME NEW m, Described(m), NEW kind \in Kinds
      PROVE  Largest(Ids(m, kind)) \in Nat
  BY <1>2, IdFacts, ManifestAssumption
<1>3. \A kind \in Kinds : FirstMax[kind] = Largest(Ids(manifest, kind))
  BY DEF FirstMax, MaxIds
<1> QED
  BY <1>1, <1>2, <1>3

LEMMA FirstIsSound ==
  ASSUME manifest \in Manifests, clicks \in Clicks, WellFormed(manifest)
  PROVE  Sound(manifest, FirstMax)
<1>1. Described(manifest) /\ IsSeq(manifest)
  BY PartsFacts DEF Described, IsSeq
<1>2. FirstMax \in [Kinds -> Nat]
  BY PartsFacts DEF FirstMax, MaxIds
<1>3. ASSUME NEW kind \in Kinds, NEW n \in Ids(manifest, kind)
      PROVE  n \in 0..FirstMax[kind]
  <2>1. n \in 0..IdRange - 1 /\ n <= Largest(Ids(manifest, kind))
    BY <1>1, <1>3, IdFacts
  <2> QED
    BY <1>3, <2>1, PartsFacts, ManifestAssumption
<1> QED
  BY <1>1, <1>2, <1>3 DEF Sound

(* There is room for the next fragment.                                    *)
LEMMA PatchRoom ==
  ASSUME RefsInv, PartsFit, boot.pc = "patch", boot.at <= Len(clicks)
  PROVE  /\ boot.at \in {1, 2} /\ boot.at \in DOMAIN clicks
         /\ Room(clicks[boot.at], max)
<1>1. manifest \in Manifests /\ clicks \in Clicks /\ boot.at \in 1..Len(clicks) + 1
  BY DEF RefsInv
<1>2. Len(clicks) \in 0..2 /\ DOMAIN clicks = 1..Len(clicks)
  BY <1>1, PartsFacts
<1>3. boot.at \in {1, 2} /\ boot.at \in DOMAIN clicks
  BY <1>1, <1>2
<1>4. max \in [Kinds -> Nat]
  BY DEF RefsInv, Sound
<1>5. ASSUME NEW kind \in Kinds
      PROVE  max[kind] + Largest(Ids(clicks[boot.at], kind)) < IdRange
  <2> DEFINE L(i) == IF i \in DOMAIN clicks THEN Largest(Ids(clicks[i], kind)) ELSE 0
  <2>1. PICK m \in Nat, a \in Nat, b \in Nat : m = FirstMax[kind] /\ a = L(1) /\ b = L(2)
    BY <1>1, PartsFacts
  <2>2. 2 * m + a + b < IdRange
    BY <2>1 DEF PartsFit, Needed, FirstMax
  <2>3. max[kind] \in Nat
    BY <1>4
  <2>4. CASE boot.at = 1
    <3>1. max[kind] = m /\ Largest(Ids(clicks[boot.at], kind)) = a
      BY <1>3, <2>1, <2>4 DEF RefsInv
    <3> QED
      BY <2>2, <3>1, ManifestAssumption
  <2>5. CASE boot.at = 2
    <3>1. 1 \in DOMAIN clicks
      BY <1>2, <1>3, <2>5
    <3>2. max[kind] <= 2 * m + a /\ Largest(Ids(clicks[boot.at], kind)) = b
      BY <1>3, <2>1, <2>5, <3>1 DEF RefsInv, SecondBound
    <3> QED
      BY <2>2, <2>3, <3>2, ManifestAssumption
  <2> QED
    BY <1>3, <2>4, <2>5
<1> QED
  BY <1>3, <1>4, <1>5 DEF Room

LEMMA SameParts ==
  ASSUME UNCHANGED <<manifest, clicks>>
  PROVE  /\ PartsFit' <=> PartsFit
         /\ FirstMax' = FirstMax /\ \A kind : SecondBound(kind)' = SecondBound(kind)
  BY DEF PartsFit, Needed, FirstMax, SecondBound

LEMMA RefsParse ==
  ASSUME RefsInv, Parse
  PROVE  RefsInv'
<1>1. /\ UNCHANGED <<manifest, clicks>>
      /\ \/ boot' = [pc |-> "failed", at |-> 0] /\ blob' \in {blob, <<>>}
         \/ boot' = [pc |-> "patch", at |-> 1] /\ blob' = manifest /\ max' = FirstMax
  BY DEF Parse, Fails, Goto, inputs, FirstMax
<1>2. manifest \in Manifests /\ clicks \in Clicks /\ Len(clicks) \in Nat
  BY PartsFacts DEF RefsInv
<1>3. WellFormed(<<>>)
  BY DEF WellFormed
<1>4. CASE boot' = [pc |-> "failed", at |-> 0] /\ blob' \in {blob, <<>>}
  <2>1. boot'.pc = "failed"
    BY <1>4
  <2> QED
    BY <1>1, <1>2, <1>3, <1>4, <2>1, SameParts DEF RefsInv
<1>5. CASE boot' = [pc |-> "patch", at |-> 1] /\ blob' = manifest /\ max' = FirstMax
  <2>1. boot'.pc = "patch" /\ boot'.at = 1 /\ boot'.at \in 1..Len(clicks) + 1
    BY <1>2, <1>5
  <2>2. PartsFit => Sound(blob', max') /\ WellFormed(blob')
    BY <1>2, <1>5, FirstIsSound DEF PartsFit
  <2>3. Sound(blob, max)' <=> Sound(blob', max')
    BY DEF Sound
  <2> QED
    BY <1>1, <1>2, <1>5, <2>1, <2>2, <2>3, SameParts DEF RefsInv
<1> QED
  BY <1>1, <1>4, <1>5

(* The rest of the boot, the requests, and what ends in a fault.           *)
LEMMA RefsElse ==
  ASSUME RefsInv, UNCHANGED <<manifest, clicks>>,
         \/ blob' \in {blob, <<>>} /\ boot'.pc \notin {"parse", "patch"}
         \/ UNCHANGED <<boot, max, blob>>
  PROVE  RefsInv'
<1>1. WellFormed(<<>>)
  BY DEF WellFormed
<1>2. CASE blob' \in {blob, <<>>} /\ boot'.pc \notin {"parse", "patch"}
  BY <1>1, <1>2, SameParts DEF RefsInv
<1>3. CASE UNCHANGED <<boot, max, blob>>
  <2>1. Sound(blob, max)' <=> Sound(blob, max)
    BY <1>3 DEF Sound
  <2> QED
    BY <1>3, <2>1, SameParts DEF RefsInv
<1> QED
  BY <1>2, <1>3

LEMMA RefsPatch ==
  ASSUME RefsInv, Patch
  PROVE  RefsInv'
<1>1. PICK f : f = clicks[boot.at]
  OBVIOUS
<1>2. /\ UNCHANGED <<manifest, clicks>> /\ boot.pc = "patch" /\ boot.at <= Len(clicks)
      /\ \/ boot' = [pc |-> "failed", at |-> 0] /\ blob' = blob
         \/ UNCHANGED <<boot, max, blob>>
         \/ /\ boot' = [pc |-> "patch", at |-> boot.at + 1]
            /\ blob' = blob \o Fragment(max, f) /\ max' = NextMax(max, f)
  BY <1>1 DEF Patch, Goto, inputs
<1>3. /\ manifest \in Manifests /\ clicks \in Clicks /\ Len(clicks) \in Nat
      /\ boot.at \in 1..Len(clicks) + 1
  BY <1>2, PartsFacts DEF RefsInv
<1>4. CASE boot' = [pc |-> "failed", at |-> 0] /\ blob' = blob
  <2>1. boot'.pc = "failed"
    BY <1>4
  <2> QED
    BY <1>2, <1>3, <1>4, <2>1, SameParts DEF RefsInv
<1>5. CASE /\ boot' = [pc |-> "patch", at |-> boot.at + 1]
           /\ blob' = blob \o Fragment(max, f) /\ max' = NextMax(max, f)
  <2>1. boot'.pc = "patch" /\ boot'.at = boot.at + 1 /\ boot'.at \in 1..Len(clicks) + 1
        /\ boot'.at # 1
    BY <1>2, <1>3, <1>5
  <2>2. ASSUME PartsFit
        PROVE  /\ Sound(blob', max') /\ WellFormed(blob')
               /\ boot'.at = 2 => \A kind \in Kinds : max'[kind] <= SecondBound(kind)
    <3>1. Room(f, max) /\ boot.at \in DOMAIN clicks
      BY <1>1, <1>2, <2>2, PatchRoom
    <3>2. Described(f) /\ WellFormed(f) /\ \A kind \in Kinds : 0 \notin Ids(f, kind)
      BY <1>1, <1>3, <2>2, <3>1, PartsFacts DEF PartsFit
    <3>3. Sound(blob, max)
      BY <1>2, <2>2 DEF RefsInv
    <3>4. /\ Sound(blob', max')
          /\ \A kind \in Kinds : max'[kind] <= 2 * max[kind] + Largest(Ids(f, kind))
      BY <1>5, <3>1, <3>2, <3>3, AppendedIsSound
    <3>5. boot.at = 1 => max = FirstMax
      BY <1>2, <2>2 DEF RefsInv
    <3>6. boot'.at = 2 => boot.at = 1
      BY <1>3, <2>1
    <3> QED
      BY <1>1, <3>4, <3>5, <3>6 DEF Sound, SecondBound
  <2>3. Sound(blob, max)' <=> Sound(blob', max')
    BY DEF Sound
  <2> QED
    BY <1>2, <1>3, <2>1, <2>2, <2>3, SameParts DEF RefsInv
<1>6. CASE UNCHANGED <<boot, max, blob>>
  BY <1>2, <1>6, RefsElse
<1> QED
  BY <1>2, <1>4, <1>5, <1>6

LEMMA RefsHold == Spec => []RefsInv
<1>1. ASSUME Init PROVE RefsInv
  <2>1. WellFormed(<<>>)
    BY DEF WellFormed
  <2> QED
    BY <1>1, <2>1 DEF Init, RefsInv
<1>2. ASSUME RefsInv, Next PROVE RefsInv'
  <2>1. CASE Parse
    BY <1>2, <2>1, RefsParse
  <2>2. CASE Patch
    BY <1>2, <2>2, RefsPatch
  <2>3. CASE Backend \/ AllocBundles \/ AllocCPorts
    <3>1. UNCHANGED <<manifest, clicks>> /\ blob' \in {blob, <<>>}
      BY <2>3 DEF Backend, AllocBundles, AllocCPorts, Fails, inputs
    <3>2. boot'.pc \notin {"parse", "patch"}
      BY <2>3 DEF Backend, AllocBundles, AllocCPorts, Fails, Goto
    <3> QED
      BY <1>2, <3>1, <3>2, RefsElse
  <2>4. CASE \/ RegisterReject \/ RegisterBundle \/ RegisterInit \/ SortBegin \/ SortEnd
             \/ RegisterWorker \/ EnableEnd
    <3>1. UNCHANGED <<manifest, clicks>> /\ blob' \in {blob, <<>>}
      BY <2>4 DEF RegisterReject, RegisterBundle, RegisterInit, SortBegin, SortEnd,
                  RegisterWorker, EnableEnd, Fails, inputs
    <3>2. boot'.pc \notin {"parse", "patch"}
      BY <2>4 DEF RegisterReject, RegisterBundle, RegisterInit, SortBegin, SortEnd,
                  RegisterWorker, EnableEnd, Fails, Goto
    <3> QED
      BY <1>2, <3>1, <3>2, RefsElse
  <2>5. ASSUME NEW c \in CPorts, Request(c) \/ Worker(c) PROVE RefsInv'
    <3>1. UNCHANGED <<manifest, clicks, boot, max, blob>>
      BY <2>5 DEF Request, Receive, Worker, WFind, WBundle, WMisfiled, WDevice, WOther,
                  CtlListen, CtlNotify, CtlDisconnect, inputs
    <3> QED
      BY <1>2, <3>1, RefsElse
  <2> QED
    BY <1>2, <2>1, <2>2, <2>3, <2>4, <2>5 DEF Next, Boot
<1>3. RefsInv /\ UNCHANGED vars => RefsInv'
  BY RefsElse DEF vars, inputs
<1> QED
  BY <1>1, <1>2, <1>3, PTL DEF Spec

-----------------------------------------------------------------------------
(* The theorems.                                                           *)

LEMMA Starts == Init => IInv
<1> SUFFICES ASSUME Init PROVE IInv
  OBVIOUS
<1>1. ShapeInv
  BY ServiceAssumption DEF Init, ShapeInv, NoBundle, NoReq, Asks, Faults
<1>2. BootInv
  <2>1. boot.pc = "parse" /\ boot.at = 1 /\ cport_count = 0 /\ ~table
    BY DEF Init
  <2> QED
    BY <2>1 DEF BootInv, Early, Enabled, Registering
<1>3. BuiltInv /\ ServesInv
  BY DEF Init, BuiltInv, ServesInv, Registering
<1>4. ReqInv
  BY DEF Init, ReqInv, NoReq
<1>5. ConnectedIsServed /\ HandlerIsOwn /\ StrayedInv
  BY DEF Init, ConnectedIsServed, HandlerIsOwn, StrayedInv
<1> QED
  BY <1>1, <1>2, <1>3, <1>4, <1>5 DEF IInv, BuildInv, HostInv

LEMMA Stutters ==
  ASSUME IInv, UNCHANGED vars
  PROVE  IInv'
<1>1. UNCHANGED <<inputs, boot, core, ghosts, fault, req>> /\ manifest' = manifest
  BY DEF vars, inputs
<1>2. HandlerIsOwn' /\ StrayedInv'
  BY <1>1, GhostsStay DEF ghosts
<1>3. ReqInv' /\ ConnectedIsServed'
  BY <1>1, HostStays DEF ghosts, core
<1>4. BuildInv' /\ ServesInv'
  <2>1. UNCHANGED <<manifest, clicks, boot, cport_count, table, bundle, driver, drv_bundle,
                    moving, req, fault>>
    BY <1>1 DEF inputs, core
  <2>2. List' = List /\ This' = This
    BY <2>1, SameList DEF This
  <2>3. /\ Acceptable(This)' <=> Acceptable(This)
        /\ \A b : Built(b)' <=> Built(b)
        /\ \A i : Slot(List[i])' <=> Slot(List[i])
        /\ Slot(This)' <=> Slot(This)
        /\ Built(This.bundle)' <=> Built(This.bundle)
    BY <2>1, <2>2, SameAcceptable, SameList DEF Built, Slot
  <2>4. BuildInv'
    BY <2>1, <2>2, <2>3 DEF IInv, BuildInv, ShapeInv, BootInv, BuiltInv, NoBundle
  <2>5. ASSUME NEW c \in CPorts, NEW i \in DOMAIN List, Serves(c, i)
        PROVE  Serves(c, i)'
    <3>1. PICK b : b = List[i].bundle
      OBVIOUS
    <3>2. Built(b)' /\ Slot(List[i])' /\ Passed(i)' /\ Given(i, drv_bundle[driver[c]])'
          /\ (req[c].pc \in {"run", "notify"} => Given(i, req[c].bundle))'
      BY <2>1, <2>3, <2>5, <3>1, SameList DEF Serves, Passed
    <3> QED
      BY <2>1, <2>2, <2>5, <3>1, <3>2 DEF Serves
  <2>6. ServesInv'
    BY <2>1, <2>2, <2>5 DEF IInv, HostInv, ServesInv
  <2> QED
    BY <2>4, <2>6
<1> QED
  BY <1>2, <1>3, <1>4 DEF IInv, HostInv

LEMMA Inductive == Spec => []IInv
<1>1. ASSUME IInv, Next PROVE IInv'
  <2>1. CASE Boot
    BY <1>1, <2>1, BootStep
  <2>2. ASSUME NEW c \in CPorts, Request(c) PROVE IInv'
    BY <1>1, <2>2, ReceiveStep DEF Request, Next
  <2>3. ASSUME NEW c \in CPorts, Worker(c) PROVE IInv'
    BY <1>1, <2>3, FindStep, RunStep, ControlStep DEF Worker, Next
  <2> QED
    BY <1>1, <2>1, <2>2, <2>3 DEF Next
<1> QED
  BY <1>1, Starts, Stutters, PTL DEF Spec

(* A request for a cport whose connection succeeded is never dropped, and  *)
(* never meets a table that is not there, however far the boot thread is   *)
(* (greybus-core.c:465-468, 638, 660).                                     *)
THEOREM ServedCorrect == Spec => []ConnectedIsServed
<1>1. IInv => ConnectedIsServed
  BY DEF IInv
<1> QED
  BY <1>1, Inductive, PTL

(* A request meets another handler than its own only if a later cport of   *)
(* its protocol is registered beside it (greybus-core.c:231-241, 621-624). *)
THEOREM HandlerCorrect == Spec => []HandlerIsOwn
<1>1. IInv => HandlerIsOwn
  BY DEF IInv
<1> QED
  BY <1>1, Inductive, PTL

(* A handler works on another cport's device only where the numbers of a   *)
(* bundle have a gap, or a later cport took the driver to another bundle   *)
(* (greybus-core.c:605, 611).                                              *)
THEOREM BundleCorrect == Spec => []BundleIsOwn
<1>1. IInv => BundleIsOwn
  BY Types DEF IInv, StrayedInv, BundleIsOwn
<1> QED
  BY <1>1, Inductive, PTL

(* The fragments of the add-on boards are appended so that every id of the *)
(* combined manifest is the only one of its kind, every property and       *)
(* device refers to the string it referred to in its own part, and the     *)
(* link of every device is off by exactly as much as the properties of its *)
(* fragment were moved, if the ids fit one byte.  The fragments are those  *)
(* that parse: with a rejected descriptor, or when realloc fails, the boot *)
(* ends in a fault (greybus-manifest.c:378-412, 513-571).                  *)
THEOREM PatchCorrect == Spec => []PatchKeepsRefs
<1>1. RefsInv => PatchKeepsRefs
  BY DEF RefsInv, PatchKeepsRefs
<1> QED
  BY <1>1, RefsHold, PTL
=============================================================================
