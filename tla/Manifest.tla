------------------------------ MODULE Manifest ------------------------------
(***************************************************************************)
(* Manifests (greybus-manifest.c): what a manifest declares, and how the   *)
(* fragments of the mikroBUS add-on boards are appended to it with their   *)
(* string, property and device ids moved out of the way.                   *)
(*                                                                         *)
(* A manifest is a sequence of descriptors.  A descriptor is a record with *)
(* its type and the fields its type has: id, bundle and protocol; name,    *)
(* the id of the string it refers to; and two ghosts, the text of a string *)
(* and the text a reference meant where it was written.  A device has four *)
(* links to properties (prop_link, gpio_link, reg_link, clock_link), all   *)
(* treated alike: link is one of them, the id of a property, or 0 if there *)
(* is none.  Its ghosts are linked, the name of the property it meant, and *)
(* shift, how far the ids of the properties beside it were moved.  The     *)
(* type "bad" stands for a descriptor that identify_descriptor rejects.    *)
(***************************************************************************)
EXTENDS Integers, Sequences, FiniteSets, Functions

CONSTANT IdRange  (* how many values an id of one byte has: 256            *)

ASSUME ManifestAssumption == IdRange \in Nat \ {0}

Kinds == {"string", "property", "device"}

(* MAX over a set of naturals, and 0 if there are none.                    *)
Largest(S) ==
  IF S = {} THEN 0 ELSE CHOOSE n \in S : \A k \in S : k <= n

Ids(m, type) == {m[i].id : i \in {j \in DOMAIN m : m[j].type = type}}

(* identify_descriptor keeps the largest id of each kind ...               *)
MaxIds(m) == [k \in Kinds |-> Largest(Ids(m, k))]
MaxBundle(m) == Largest(Ids(m, "bundle"))

(* ... and appends each cport to the list of cports.                       *)
CPortsOf(m) == SelectSeq(m, LAMBDA d : d.type = "cport")

(* manifest_parse accepts a manifest with descriptors, all of them valid.  *)
Parses(m) == m # <<>> /\ \A i \in DOMAIN m : m[i].type # "bad"

(* The descriptors of a manifest or a fragment are records with the fields *)
(* of their types, and ids of one byte.                                    *)
Described(m) ==
  /\ m \in Seq(Range(m))
  /\ \A i \in DOMAIN m :
       /\ m[i].type \in Kinds => m[i].id \in 0..IdRange - 1
       /\ m[i].type = "string" => DOMAIN m[i] = {"type", "id", "text"}
       /\ m[i].type = "property" => DOMAIN m[i] = {"type", "id", "name", "meant"}
       /\ m[i].type = "device" =>
            /\ DOMAIN m[i] = {"type", "id", "name", "meant", "link", "linked", "shift"}
            /\ m[i].link \in 0..IdRange - 1 /\ m[i].shift = 0

(* manifest_get_num_cports_bundle and manifest_get_start_cport_bundle.     *)
InBundle(cps, b) == {i \in DOMAIN cps : cps[i].bundle = b}
StartOf(cps, b) ==
  CHOOSE n \in {cps[i].id : i \in InBundle(cps, b)} :
    \A i \in InBundle(cps, b) : n <= cps[i].id

-----------------------------------------------------------------------------
(* manifest_patch.                                                         *)

(* An id of a fragment moves up by the largest id of its kind so far, in   *)
(* one byte; and as if it kept its place.                                  *)
Unmoved(n, by) == n
Moved(n, by) == (n + by) % IdRange

(* identify_patch_descriptor of a descriptor that is kept: ids move, and   *)
(* the references to strings, but a device's links to properties do not.   *)
Renumbered(max, d) ==
  CASE d.type = "string" -> [d EXCEPT !.id = Moved(@, max["string"])]
    [] d.type = "property" ->
         [d EXCEPT !.id = Moved(@, max["property"]), !.name = Moved(@, max["string"])]
    [] d.type = "device" ->
         [d EXCEPT !.id = Moved(@, max["device"]), !.name = Moved(@, max["string"]),
                   !.shift = max["property"]]
    [] OTHER -> d

(* Interfaces, bundles and cports of a fragment that parses are skipped:   *)
(* the n-th of the others is the one that n of them do not come after.     *)
KeptAt(f) == {i \in DOMAIN f : f[i].type \in Kinds \cup {"mikrobus"}}
Rank(f, i) == Cardinality({j \in KeptAt(f) : j <= i})
Kept(f) ==
  [n \in 1..Cardinality(KeptAt(f)) |-> f[CHOOSE i \in KeptAt(f) : Rank(f, i) = n]]

Fragment(max, f) == [i \in DOMAIN Kept(f) |-> Renumbered(max, Kept(f)[i])]

(* The largest ids of the fragment, which were moved up already, are added *)
(* to those so far; and as if they were not.                               *)
SameMax(max, f) == max
NextMax(max, f) == [k \in Kinds |-> max[k] + MaxIds(Fragment(max, f))[k]]

-----------------------------------------------------------------------------
(* The strings that descriptor d of the manifest m refers to.              *)
Resolved(m, d) ==
  {m[j].text : j \in {k \in DOMAIN m : m[k].type = "string" /\ m[k].id = d.name}}

(* The properties, by their names, that the link of device d would refer   *)
(* to had it moved as far as the properties beside it.                     *)
Linked(m, d) ==
  {m[j].meant :
     j \in {k \in DOMAIN m : m[k].type = "property" /\ m[k].id = d.link + d.shift}}

(* In a manifest put together from parts, ids of a kind are distinct, each *)
(* name is the string it meant in its own part, and each link falls short  *)
(* of the property it meant by just as much as that was moved.             *)
WellFormed(m) ==
  /\ \A i, j \in DOMAIN m :
       i # j /\ m[i].type \in Kinds /\ m[i].type = m[j].type => m[i].id # m[j].id
  /\ \A i \in DOMAIN m :
       m[i].type \in {"property", "device"} => Resolved(m, m[i]) = {m[i].meant}
  /\ \A i \in DOMAIN m :
       m[i].type = "device" /\ m[i].link # 0 => Linked(m, m[i]) = {m[i].linked}
=============================================================================
