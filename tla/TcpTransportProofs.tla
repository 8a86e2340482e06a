------------------------- MODULE TcpTransportProofs -------------------------
(***************************************************************************)
(* Theorems about the transport with a socket for each connection, for any *)
(* number of cports, connections, senders and messages: the list, the      *)
(* memory and the descriptors agree, and messages go where they belong     *)
(* unless a context was erased in the hands of another thread.             *)
(***************************************************************************)
EXTENDS TcpTransport, FiniteSetTheorems, WellFoundedInduction, TLAPS

-----------------------------------------------------------------------------
(* The inductive invariant.                                                *)

(* The descriptors: a context keeps the one it got, and a socket has one.  *)
FilesInv ==
  /\ \A x \in Sockets : mem[x] # "none" \/ x \in nameless => fd[x] \in Fds
  /\ \A f \in Fds : file[f] # None => fd[file[f]] = f

(* Only listening sockets are in the list until the set-up is done.        *)
SetupInv ==
  svc.pc = "setup" =>
    /\ Len(fd_list) <= NumCPorts
    /\ \A i \in 1..Len(fd_list) : fd_list[i] = i
    /\ \A s \in Senders : send[s].pc = "idle"

(* What the service thread has in hand.                                    *)
Serving == {"input", "recv", "deliver", "close"}

SvcInv ==
  /\ svc.pc = "accept" => svc.ctx \in CPorts
  /\ svc.pc = "insert" =>
       /\ svc.ctx \in Conns \ nameless /\ mem[svc.ctx] = "none" /\ peer[svc.ctx] # "none"
       /\ fd[svc.ctx] \in Fds /\ file[fd[svc.ctx]] = svc.ctx
  /\ svc.pc \in Serving => svc.ctx \in Conns /\ mem[svc.ctx] # "none"
  /\ svc.pc = "recv" => svc.fd \in Fds /\ Len(svc.got) < MessageWords
  /\ svc.pc = "deliver" => Len(svc.got) = MessageWords
  /\ svc.pc \notin Serving \ {"input"} => svc.got = <<>>

(* What the senders have in hand.                                          *)
SendInv ==
  \A s \in Senders :
    /\ send[s].pc = "idle" <=> send[s] = SendIdle
    /\ send[s].pc # "idle" =>
         /\ send[s].cport \in CPorts
         /\ send[s].ctx \in Conns /\ mem[send[s].ctx] # "none"
    /\ send[s].pc = "write" => send[s].fd \in Fds

(* What there is of a connection before it is made, and that its cport is  *)
(* known from then on.                                                     *)
PeerInv ==
  \A x \in Conns :
    /\ mem[x] # "none" \/ x \in nameless => peer[x] # "none"
    /\ peer[x] = "none" =>
         /\ written[x] = 0 /\ inflow[x] = <<>>
         /\ delivered[x] = <<>> /\ out[x] = <<>>
    /\ peer[x] = "reset" => inflow[x] = <<>>

(* The words the service thread has of connection x.                       *)
InHand(x) == IF svc.ctx = x THEN Len(svc.got) ELSE 0

(* What the core has, what is in hand and what waits are the words of the  *)
(* peer, one after the other.                                              *)
StreamInv(x) ==
  /\ svc.ctx = x =>
       \A i \in 1..Len(svc.got) : svc.got[i] = 2 * Len(delivered[x]) + i
  /\ \A i \in 1..Len(inflow[x]) : inflow[x][i] = 2 * Len(delivered[x]) + InHand(x) + i
  /\ peer[x] = "open" => written[x] = 2 * Len(delivered[x]) + InHand(x) + Len(inflow[x])

(* As long as no context was erased in the hands of a thread: it lives as  *)
(* long as one works with it, on the descriptor it has.                    *)
SvcHeld ==
  /\ svc.pc \in Serving => mem[svc.ctx] = "live"
  /\ svc.pc = "recv" => svc.fd = fd[svc.ctx]

SendersHeld ==
  \A s \in Senders :
    /\ send[s].pc # "idle" =>
         mem[send[s].ctx] = "live" /\ send[s].cport = cport[send[s].ctx]
    /\ send[s].pc = "write" => send[s].fd = fd[send[s].ctx]

WordsInv ==
  \A x \in Conns :
    mem[x] # "freed" /\ ~(svc.pc = "close" /\ svc.ctx = x) => StreamInv(x)

UntornInv == ~torn => SvcHeld /\ SendersHeld /\ WordsInv

(* ListMatchesFiles without the types.                                     *)
ListInv ==
  /\ \A i, j \in DOMAIN fd_list : fd_list[i] = fd_list[j] => i = j
  /\ \A x \in Sockets : mem[x] = "live" <=> IsListed(x)
  /\ \A x \in Listed : file[fd[x]] = x
  /\ \A f \in Fds :
       file[f] # None =>
         \/ file[f] \in Listed \cup nameless
         \/ svc.pc = "insert" /\ svc.ctx = file[f]
  /\ \A x \in nameless : mem[x] = "none" /\ file[fd[x]] = x

IInv ==
  /\ TypeOK /\ ListInv /\ RoutedUnlessTorn
  /\ FilesInv /\ SetupInv /\ SvcInv /\ SendInv /\ PeerInv /\ UntornInv

-----------------------------------------------------------------------------
(* The first of the list, and the lowest of the free descriptors.          *)

LEMMA ConstFacts ==
  /\ NumCPorts \in Nat /\ NumCPorts > 0 /\ MaxConn \in Nat /\ MaxIn \in Nat
  /\ MaxOut \in Nat /\ MaxFail \in Nat /\ PollMax \in Nat
  BY TcpAssumption DEF TcpAssumption

LEMMA SocketFacts ==
  /\ Sockets = 1..NumCPorts + MaxConn /\ Fds = Sockets
  /\ CPorts \subseteq Sockets /\ Conns \subseteq Sockets
  /\ \A x \in Sockets : x \in CPorts <=> x \notin Conns
  /\ \A x \in Sockets : x \in Nat /\ x # None
  /\ None \notin Sockets
  BY ConstFacts DEF Sockets, Fds, CPorts, Conns, None

(* A set of numbers has a least one.                                       *)
LEMMA LeastFacts ==
  ASSUME NEW T \in SUBSET Nat, T # {}
  PROVE  \E i \in T : \A j \in T : i <= j
<1>1. PICK R : R = OpToRel(<, Nat)
  OBVIOUS
<1>2. IsWellFoundedOn(R, Nat)
  BY <1>1, NatLessThanWellFounded
<1>3. PICK i \in T : \A j \in T : <<j, i>> \notin R
  BY <1>2, WFMin
<1>4. \A j \in T : ~(j < i)
  <2> SUFFICES ASSUME NEW j \in T, j < i PROVE <<j, i>> \in R
    BY <1>3
  <2> QED
    BY <1>1 DEF OpToRel
<1> QED
  BY <1>3, <1>4

LEMMA ListedFacts ==
  ASSUME fd_list \in Seq(Sockets)
  PROVE  /\ Len(fd_list) \in Nat /\ DOMAIN fd_list = 1..Len(fd_list)
         /\ \A i \in 1..Len(fd_list) : fd_list[i] \in Sockets /\ fd_list[i] \in Listed
         /\ \A x : x \in Listed <=> IsListed(x)
         /\ \A x \in Listed : \E i \in 1..Len(fd_list) : fd_list[i] = x
         /\ Listed \subseteq Sockets
  BY DEF Listed, IsListed

(* The first context of a kind, if there is one.                           *)
LEMMA FirstFacts ==
  ASSUME fd_list \in Seq(Sockets), NEW S
  PROVE  \/ First(S) = None /\ \A x \in Listed : x \notin S
         \/ First(S) \in S /\ First(S) \in Listed
<1> DEFINE found == {i \in DOMAIN fd_list : fd_list[i] \in S}
<1>1. First(S) = IF found = {} THEN None
                 ELSE fd_list[CHOOSE i \in found : \A j \in found : i <= j]
  BY DEF First
<1>2. found \in SUBSET Nat /\ \A i \in found : fd_list[i] \in S /\ fd_list[i] \in Listed
  BY ListedFacts
<1>3. CASE found = {}
  BY <1>1, <1>3, ListedFacts
<1>4. CASE found # {}
  <2>1. PICK k \in found : \A j \in found : k <= j
    BY <1>2, <1>4, LeastFacts
  <2>2. (CHOOSE i \in found : \A j \in found : i <= j) \in found
    BY <2>1
  <2> QED
    BY <1>1, <1>2, <1>4, <2>2
<1> QED
  BY <1>3, <1>4

(* The context of a descriptor is the one the descriptor was given.        *)
LEMMA WithFdFacts ==
  ASSUME TypeOK, ListInv, NEW x \in Listed
  PROVE  WithFd(fd[x]) = x
<1>1. fd_list \in Seq(Sockets)
  BY DEF TypeOK
<1>2. x \in {y \in Sockets : fd[y] = fd[x]}
  BY <1>1, ListedFacts
<1>3. /\ WithFd(fd[x]) \in Listed
      /\ fd[WithFd(fd[x])] = fd[x]
  BY <1>1, <1>2, FirstFacts DEF WithFd
<1> QED
  BY <1>3 DEF ListInv

LEMMA LookedUpFacts ==
  ASSUME fd_list \in Seq(Sockets), NEW f
  PROVE  WithFd(f) = None \/ WithFd(f) \in Listed
  BY FirstFacts DEF WithFd

LEMMA ClientFacts ==
  ASSUME fd_list \in Seq(Sockets), NEW c, Client(c) # None
  PROVE  Client(c) \in Listed /\ Client(c) \in Conns /\ cport[Client(c)] = c
  BY FirstFacts DEF Client

(* As long as a socket has no descriptor, one is free.                     *)
LEMMA FreeFacts ==
  ASSUME TypeOK, FilesInv, NEW x \in Sockets, \A f \in Fds : file[f] # x
  PROVE  LowestFree \in Fds /\ file[LowestFree] = None
<1>1. FreeFds # {}
  <2> SUFFICES ASSUME FreeFds = {} PROVE FALSE
    OBVIOUS
  <2>1. PICK k \in Nat : IsFiniteSet(Fds) /\ Cardinality(Fds) = k
    BY ConstFacts, SocketFacts, FS_Interval
  <2>2. /\ IsFiniteSet(Sockets \ {x})
        /\ Cardinality(Sockets \ {x}) = k - 1
    <3>1. IsFiniteSet(Sockets) /\ Cardinality(Sockets) = k
      BY <2>1, SocketFacts
    <3>2. /\ IsFiniteSet(Sockets \ {x})
          /\ Cardinality(Sockets \ {x}) = Cardinality(Sockets) - 1
      BY <3>1, FS_RemoveElement
    <3> QED
      BY <3>1, <3>2
  <2>3. \A f \in Fds : file[f] \in Sockets \ {x}
    BY DEF FreeFds, TypeOK
  <2>4. file \in [Fds -> Sockets \ {x}]
    BY <2>3 DEF TypeOK
  <2>5. Cardinality(Sockets \ {x}) < Cardinality(Fds)
    BY <2>1, <2>2
  <2>6. PICK f \in Fds, g \in Fds : f # g /\ file[f] = file[g]
    BY <2>1, <2>2, <2>4, <2>5, FS_PigeonHole
  <2>7. fd[file[f]] = f /\ fd[file[g]] = g
    BY <2>3, SocketFacts DEF FilesInv
  <2> QED
    BY <2>6, <2>7
<1>2. FreeFds \in SUBSET Nat
  BY SocketFacts DEF FreeFds
<1>3. PICK f \in FreeFds : \A g \in FreeFds : f <= g
  BY <1>1, <1>2, LeastFacts
<1>4. LowestFree \in FreeFds
  BY <1>3 DEF LowestFree
<1> QED
  BY <1>4 DEF FreeFds

(* The list after an erase.                                                *)
LEMMA WithoutFacts ==
  ASSUME TypeOK, ListInv, NEW x \in Listed
  PROVE  \E t \in Seq(Sockets) :
           /\ t = Without(x)
           /\ \A i, j \in 1..Len(t) : t[i] = t[j] => i = j
           /\ {t[i] : i \in 1..Len(t)} = Listed \ {x}
<1>1. PICK q \in Seq(Sockets), n \in Nat :
        /\ q = fd_list /\ n = Len(q) /\ DOMAIN q = 1..n
        /\ \A i \in 1..n : q[i] \in Sockets /\ q[i] \in Listed
        /\ \A i, j \in 1..n : q[i] = q[j] => i = j
        /\ \A y \in Listed : \E i \in 1..n : q[i] = y
  <2>1. fd_list \in Seq(Sockets)
    BY DEF TypeOK
  <2>2. /\ Len(fd_list) \in Nat /\ DOMAIN fd_list = 1..Len(fd_list)
        /\ \A i \in 1..Len(fd_list) : fd_list[i] \in Sockets /\ fd_list[i] \in Listed
        /\ \A y \in Listed : \E i \in 1..Len(fd_list) : fd_list[i] = y
    BY <2>1, ListedFacts
  <2>3. \A i, j \in 1..Len(fd_list) : fd_list[i] = fd_list[j] => i = j
    BY <2>2 DEF ListInv
  <2> QED
    BY <2>1, <2>2, <2>3, Zenon
<1>2. PICK k \in 1..n : k = Place(x) /\ q[k] = x
  <2>1. PICK i \in 1..n : q[i] = x
    BY <1>1
  <2>2. Place(x) \in DOMAIN q /\ q[Place(x)] = x
    BY <1>1, <2>1 DEF Place
  <2> QED
    BY <1>1, <2>2
<1>3. n - 1 \in Nat /\ \A i \in 1..n - 1 : i \in 1..n /\ i + 1 \in 1..n
  BY <1>2
<1>4. PICK t \in Seq(Sockets) :
        /\ t = Without(x) /\ Len(t) = n - 1
        /\ \A i \in 1..n - 1 : t[i] = IF i < k THEN q[i] ELSE q[i + 1]
  <2>1. Without(x) = [i \in 1..n - 1 |-> IF i < k THEN q[i] ELSE q[i + 1]]
    BY <1>1, <1>2 DEF Without
  <2>2. [i \in 1..n - 1 |-> IF i < k THEN q[i] ELSE q[i + 1]] \in [1..n - 1 -> Sockets]
    BY <1>1, <1>3
  <2>3. PICK t : t = [i \in 1..n - 1 |-> IF i < k THEN q[i] ELSE q[i + 1]]
    OBVIOUS
  <2>4. t \in Seq(Sockets) /\ Len(t) = n - 1
    BY <2>2, <2>3, <1>3
  <2>5. \A i \in 1..n - 1 : t[i] = IF i < k THEN q[i] ELSE q[i + 1]
    BY <2>3
  <2> QED
    BY <2>1, <2>3, <2>4, <2>5, Zenon
<1>5. \A i, j \in 1..n - 1 : t[i] = t[j] => i = j
  <2> SUFFICES ASSUME NEW i \in 1..n - 1, NEW j \in 1..n - 1, t[i] = t[j] PROVE i = j
    OBVIOUS
  <2>1. i \in 1..n /\ i + 1 \in 1..n /\ j \in 1..n /\ j + 1 \in 1..n
    BY <1>3
  <2> QED
    BY <1>1, <1>4, <2>1
<1>6. \A i \in 1..n - 1 : t[i] \in Listed /\ t[i] # x
  <2> SUFFICES ASSUME NEW i \in 1..n - 1 PROVE t[i] \in Listed /\ t[i] # x
    OBVIOUS
  <2>1. i \in 1..n /\ i + 1 \in 1..n
    BY <1>3
  <2>2. CASE i < k
    BY <1>1, <1>2, <1>4, <2>1, <2>2
  <2>3. CASE ~(i < k)
    BY <1>1, <1>2, <1>4, <2>1, <2>3
  <2> QED
    BY <2>2, <2>3
<1>7. ASSUME NEW y \in Listed, y # x PROVE \E i \in 1..n - 1 : t[i] = y
  <2>1. PICK j \in 1..n : q[j] = y /\ j # k
    BY <1>1, <1>2, <1>7
  <2>2. CASE j < k
    BY <1>4, <2>1, <2>2
  <2>3. CASE j > k
    <3>1. j - 1 \in 1..n - 1 /\ ~(j - 1 < k) /\ j - 1 + 1 = j
      BY <2>3
    <3> QED
      BY <1>4, <2>1, <3>1
  <2> QED
    BY <2>1, <2>2, <2>3
<1> QED
  BY <1>4, <1>5, <1>6, <1>7

-----------------------------------------------------------------------------
(* What a step keeps.                                                      *)

LEMMA FilesStill ==
  ASSUME ListInv, FilesInv, UNCHANGED <<listVars, nameless>>,
         svc.pc = "insert" => svc'.pc = "insert" /\ svc'.ctx = svc.ctx
  PROVE  ListInv' /\ FilesInv'
  BY DEF ListInv, FilesInv, listVars, IsListed, Listed

LEMMA WordsStill ==
  ASSUME WordsInv, UNCHANGED <<mem, peerVars, inflow, svc, delivered>>
  PROVE  WordsInv'
<1> USE DEF peerVars
<1>1. \A x \in Conns : StreamInv(x)' <=> StreamInv(x)
  BY DEF StreamInv, InHand
<1> QED
  BY <1>1 DEF WordsInv

LEMMA FailsType ==
  ASSUME TypeOK, Fails
  PROVE  budget' \in [out : 0..MaxOut, fail : 0..MaxFail]
<1>1. PICK o \in 0..MaxOut, n \in 0..MaxFail : budget = [out |-> o, fail |-> n]
  BY DEF TypeOK
<1>2. n > 0 /\ budget' = [out |-> o, fail |-> n - 1]
  BY <1>1 DEF Fails
<1>3. n - 1 \in 0..MaxFail
  BY <1>2, ConstFacts
<1> QED
  BY <1>2, <1>3

(* Nothing happens but a crash.                                            *)
LEMMA CrashStep == ASSUME IInv, torn, Crash PROVE IInv'
<1> USE DEF IInv, Crash, listVars, peerVars, ghosts
<1>1. TypeOK'
  BY DEF TypeOK
<1>2. ListInv' /\ FilesInv'
  BY FilesStill
<1>3. SetupInv' /\ SvcInv' /\ SendInv' /\ PeerInv'
  BY DEF SetupInv, SvcInv, SendInv, PeerInv
<1>4. RoutedUnlessTorn' /\ UntornInv'
  BY DEF RoutedUnlessTorn, UntornInv, SvcHeld, SendersHeld, WordsInv
<1> QED
  BY <1>1, <1>2, <1>3, <1>4

-----------------------------------------------------------------------------
(* The peers.                                                              *)

LEMMA ListedHasPeer ==
  ASSUME IInv, NEW x \in Conns, peer[x] = "none"
  PROVE  /\ mem[x] = "none"
         /\ svc.pc \in Serving \cup {"insert"} => svc.ctx # x
         /\ \A s \in Senders : send[s].pc # "idle" => send[s].ctx # x
  BY SocketFacts DEF IInv, PeerInv, SvcInv, SendInv

LEMMA PeerConnectsStep ==
  ASSUME IInv, NEW x \in Conns, NEW c \in CPorts, PeerConnects(x, c) PROVE IInv'
<1>1. /\ peer[x] = "none" /\ svc.pc # "setup"
      /\ peer' = [peer EXCEPT ![x] = "open"] /\ cport' = [cport EXCEPT ![x] = c]
      /\ UNCHANGED <<listVars, written, inflow, svc, send, ghosts, fault, budget>>
  BY DEF PeerConnects
<1>2. /\ mem[x] = "none" /\ x \in Sockets
      /\ svc.pc \in Serving \cup {"insert"} => svc.ctx # x
      /\ \A s \in Senders : send[s].pc # "idle" => send[s].ctx # x
  BY <1>1, ListedHasPeer, SocketFacts
<1>3. written[x] = 0 /\ inflow[x] = <<>> /\ delivered[x] = <<>> /\ out[x] = <<>>
  BY <1>1 DEF IInv, PeerInv
<1> USE <1>1 DEF IInv, listVars, ghosts
<1>4. TypeOK'
  BY SocketFacts DEF TypeOK
<1>5. ListInv' /\ FilesInv'
  BY FilesStill
<1>6. SetupInv' /\ SvcInv' /\ SendInv'
  BY <1>2 DEF SetupInv, SvcInv, SendInv, TypeOK, Serving
<1>7. PeerInv'
  BY <1>2, <1>3 DEF PeerInv, TypeOK
<1>8. RoutedUnlessTorn'
  BY <1>3, SocketFacts DEF RoutedUnlessTorn, TypeOK
<1>9. UntornInv'
  <2> SUFFICES ASSUME ~torn PROVE UntornInv'
    BY DEF UntornInv, SvcHeld, SendersHeld, WordsInv
  <2>1. \A s \in Senders : send[s].pc # "idle" => cport'[send[s].ctx] = cport[send[s].ctx]
    BY <1>2, SocketFacts DEF TypeOK, SendInv
  <2>2. ASSUME NEW y \in Conns, mem[y] # "freed", ~(svc.pc = "close" /\ svc.ctx = y)
        PROVE  StreamInv(y)'
    <3>1. StreamInv(y)
      BY <2>2 DEF UntornInv, SvcHeld, SendersHeld, WordsInv
    <3>2. y = x => svc.got = <<>> \/ svc.ctx # y
      BY <1>2 DEF SvcInv, Serving
    <3>3. CASE y = x
      <4>1. Len(<<>>) = 0
        OBVIOUS
      <4>2. (svc.ctx = x => Len(svc.got) = 0) /\ Len(inflow[x]) = 0 /\ Len(delivered[x]) = 0
        BY <4>1, <3>2, <3>3, <1>3
      <4> QED
        BY <4>2, <3>3, <1>3 DEF StreamInv, InHand
    <3>4. CASE y # x
      <4>1. peer'[y] = peer[y] /\ inflow' = inflow /\ delivered' = delivered
        BY <3>4 DEF TypeOK
      <4> QED
        BY <3>1, <4>1 DEF StreamInv, InHand
    <3> QED
      BY <3>3, <3>4
  <2> QED
    BY <2>1, <2>2 DEF UntornInv, SvcHeld, SendersHeld, WordsInv
<1> QED
  BY <1>4, <1>5, <1>6, <1>7, <1>8, <1>9

LEMMA PeerWritesStep == ASSUME IInv, NEW x \in Conns, PeerWrites(x) PROVE IInv'
<1> DEFINE w == written[x] + 1
<1>1. /\ peer[x] = "open" /\ written[x] < 2 * MaxIn
      /\ written' = [written EXCEPT ![x] = w]
      /\ inflow' = [inflow EXCEPT ![x] = Append(inflow[x], w)]
      /\ UNCHANGED <<listVars, cport, peer, svc, send, ghosts, fault, budget>>
  BY DEF PeerWrites, IInv, TypeOK
<1>2. written[x] \in 0..2 * MaxIn /\ inflow[x] \in Seq(1..2 * MaxIn)
  BY DEF IInv, TypeOK
<1>3. w \in Nat /\ w \in 0..2 * MaxIn /\ w \in 1..2 * MaxIn
  BY <1>1, <1>2, ConstFacts
<1> HIDE DEF w
<1>4. PICK q \in Seq(1..2 * MaxIn), t \in Seq(1..2 * MaxIn) :
        /\ q = inflow[x] /\ t = Append(inflow[x], w)
        /\ Len(q) \in Nat /\ Len(t) = Len(q) + 1 /\ t # <<>>
        /\ \A i \in 1..Len(q) : t[i] = q[i]
        /\ t[Len(q) + 1] = w
  <2>1. PICK q \in Seq(1..2 * MaxIn) : q = inflow[x]
    BY <1>2
  <2>2. /\ Append(q, w) \in Seq(1..2 * MaxIn) /\ Append(q, w) # <<>>
        /\ Len(q) \in Nat /\ Len(Append(q, w)) = Len(q) + 1
        /\ \A i \in 1..Len(q) : Append(q, w)[i] = q[i]
        /\ Append(q, w)[Len(q) + 1] = w
    BY <1>3
  <2> QED
    BY <2>1, <2>2, Zenon
<1> USE <1>1 DEF IInv, listVars, ghosts
<1>5. TypeOK'
  BY <1>3, <1>4 DEF TypeOK
<1>6. ListInv' /\ FilesInv'
  BY FilesStill
<1>7. SetupInv' /\ SvcInv' /\ SendInv'
  BY DEF SetupInv, SvcInv, SendInv
<1>8. PeerInv'
  BY <1>3, <1>4 DEF PeerInv, TypeOK
<1>9. RoutedUnlessTorn'
  BY DEF RoutedUnlessTorn
<1>10. UntornInv'
  <2> SUFFICES ASSUME ~torn PROVE UntornInv'
    BY DEF UntornInv, SvcHeld, SendersHeld, WordsInv
  <2>1. ASSUME NEW y \in Conns, mem[y] # "freed", ~(svc.pc = "close" /\ svc.ctx = y)
        PROVE  StreamInv(y)'
    <3>1. StreamInv(y)
      BY <2>1 DEF UntornInv, SvcHeld, SendersHeld, WordsInv
    <3>2. CASE y = x
      <4>1. PICK d \in Nat, h \in Nat, l \in Nat :
              d = 2 * Len(delivered[x]) /\ h = InHand(x) /\ l = Len(q)
        <5>1. delivered[x] \in Seq(0..MaxIn) /\ svc.got \in Seq(1..2 * MaxIn)
          BY DEF TypeOK
        <5>2. 2 * Len(delivered[x]) \in Nat /\ Len(svc.got) \in Nat
          BY <5>1
        <5>3. InHand(x) \in Nat
          BY <5>2 DEF InHand
        <5> QED
          BY <5>2, <5>3, <1>4, Zenon
      <4>2. /\ \A i \in 1..l : q[i] = d + h + i
            /\ written[x] = d + h + l
        BY <3>1, <3>2, <4>1, <1>4 DEF StreamInv
      <4>3. w = d + h + l + 1
        BY <4>2 DEF w
      <4>4. inflow'[x] = t /\ written'[x] = w /\ InHand(x)' = h /\ Len(t) = l + 1
        BY <4>1, <1>2, <1>4 DEF InHand, TypeOK
      <4>5. \A i \in 1..l + 1 : t[i] = d + h + i
        <5> SUFFICES ASSUME NEW i \in 1..l + 1 PROVE t[i] = d + h + i
          OBVIOUS
        <5>1. CASE i = l + 1
          <6>1. t[l + 1] = w
            BY <4>1, <1>4
          <6>2. d + h + l + 1 = d + h + (l + 1)
            OBVIOUS
          <6> QED
            BY <5>1, <6>1, <6>2, <4>3, Zenon
        <5>2. CASE i # l + 1
          <6>1. i \in 1..l
            BY <5>2
          <6> QED
            BY <4>1, <4>2, <6>1, <1>4
        <5> QED
          BY <5>1, <5>2
      <4>6. written'[x] = d + h + Len(t)
        BY <4>3, <4>4
      <4>7. svc.ctx = x => \A i \in 1..Len(svc.got) : svc.got[i] = 2 * Len(delivered[x]) + i
        BY <3>1, <3>2 DEF StreamInv
      <4>8. svc' = svc /\ delivered' = delivered
        OBVIOUS
      <4> HIDE DEF IInv
      <4> QED
        BY ONLY <3>2, <4>1, <4>4, <4>5, <4>6, <4>7, <4>8 DEF StreamInv
    <3>3. CASE y # x
      <4>1. inflow'[y] = inflow[y] /\ written'[y] = written[y]
        BY <3>3 DEF TypeOK
      <4> QED
        BY <3>1, <4>1 DEF StreamInv, InHand
    <3> QED
      BY <3>2, <3>3
  <2> QED
    BY <2>1 DEF UntornInv, SvcHeld, SendersHeld, WordsInv
<1> QED
  BY <1>5, <1>6, <1>7, <1>8, <1>9, <1>10

LEMMA PeerClosesStep == ASSUME IInv, NEW x \in Conns, PeerCloses(x) PROVE IInv'
<1>1. /\ peer[x] = "open"
      /\ UNCHANGED <<listVars, cport, written, svc, send, ghosts, fault, budget>>
  BY DEF PeerCloses
<1>2. \/ peer' = [peer EXCEPT ![x] = "fin"] /\ inflow' = inflow
      \/ peer' = [peer EXCEPT ![x] = "reset"] /\ inflow' = [inflow EXCEPT ![x] = <<>>]
  BY DEF PeerCloses
<1>3. /\ peer'[x] \in {"fin", "reset"} /\ (peer'[x] = "reset" => inflow'[x] = <<>>)
      /\ inflow'[x] = inflow[x] \/ inflow'[x] = <<>>
      /\ \A y \in Conns : y # x => peer'[y] = peer[y] /\ inflow'[y] = inflow[y]
  BY <1>2 DEF IInv, TypeOK
<1>4. Len(<<>>) = 0 /\ <<>> \in Seq(1..2 * MaxIn)
  OBVIOUS
<1> USE <1>1 DEF IInv, listVars, ghosts
<1>5. TypeOK'
  <2>1. peer' \in [Conns -> {"none", "open", "fin", "reset"}]
    <3>1. PICK v \in {"fin", "reset"} : peer' = [peer EXCEPT ![x] = v]
      BY <1>2
    <3> QED
      BY <3>1 DEF TypeOK
  <2>2. inflow' \in [Conns -> Seq(1..2 * MaxIn)]
    <3>1. PICK e \in Seq(1..2 * MaxIn) : e = <<>>
      BY <1>4
    <3> QED
      BY <1>2, <3>1 DEF TypeOK
  <2> QED
    BY <2>1, <2>2 DEF TypeOK
<1>6. ListInv' /\ FilesInv'
  BY FilesStill
<1>7. SetupInv' /\ SvcInv' /\ SendInv'
  BY <1>3 DEF SetupInv, SvcInv, SendInv
<1>8. PeerInv'
  BY <1>3 DEF PeerInv
<1>9. RoutedUnlessTorn'
  BY DEF RoutedUnlessTorn
<1>10. UntornInv'
  <2> SUFFICES ASSUME ~torn PROVE UntornInv'
    BY DEF UntornInv, SvcHeld, SendersHeld, WordsInv
  <2>1. ASSUME NEW y \in Conns, mem[y] # "freed", ~(svc.pc = "close" /\ svc.ctx = y)
        PROVE  StreamInv(y)'
    <3>1. StreamInv(y)
      BY <2>1 DEF UntornInv, SvcHeld, SendersHeld, WordsInv
    <3>2. /\ inflow'[y] = inflow[y] \/ Len(inflow'[y]) = 0
          /\ peer'[y] = "open" => peer[y] = "open" /\ inflow'[y] = inflow[y]
      BY <1>3, <1>4
    <3>3. InHand(y)' = InHand(y)
      BY DEF InHand
    <3> QED
      BY <3>1, <3>2, <3>3 DEF StreamInv
  <2> QED
    BY <2>1 DEF UntornInv, SvcHeld, SendersHeld, WordsInv
<1> QED
  BY <1>5, <1>6, <1>7, <1>8, <1>9, <1>10

-----------------------------------------------------------------------------
(* gb_xport_send.                                                          *)

(* A sender goes on, and nothing else it is about changes.                 *)
SendTypes ==
  [pc : {"idle", "fd", "write", "erase"}, cport : CPorts \cup {None},
   ctx : Conns \cup {None}, fd : Fds \cup {None}]

LEMMA IdleFacts == SendIdle \in SendTypes /\ SendIdle.pc = "idle" /\ SendIdle.ctx = None
  BY DEF SendIdle, SendTypes

LEMMA SendFindStep ==
  ASSUME IInv, NEW s \in Senders, NEW c \in CPorts, SendFind(s, c) PROVE IInv'
<1>1. PICK x : x = Client(c)
  OBVIOUS
<1>2. /\ x # None /\ send[s] = SendIdle
      /\ send' = [send EXCEPT ![s] = [pc |-> "fd", cport |-> c, ctx |-> x, fd |-> None]]
      /\ UNCHANGED <<listVars, cport, peerVars, inflow, svc, ghosts, fault>>
  <2>1. /\ x # None /\ send[s] = SendIdle
        /\ UNCHANGED <<listVars, cport, peerVars, inflow, svc, ghosts, fault>>
    BY <1>1 DEF SendFind
  <2>2. send' = [send EXCEPT ![s] = [pc |-> "fd", cport |-> c, ctx |-> x, fd |-> None]]
    BY <1>1 DEF SendFind
  <2> QED
    BY <2>1, <2>2
<1>3. budget' \in [out : 0..MaxOut, fail : 0..MaxFail]
  <2>1. PICK o \in 0..MaxOut, n \in 0..MaxFail : budget = [out |-> o, fail |-> n]
    BY DEF IInv, TypeOK
  <2>2. o > 0 /\ budget' = [out |-> o - 1, fail |-> n]
    BY <2>1 DEF SendFind
  <2>3. o - 1 \in 0..MaxOut
    BY <2>2, ConstFacts
  <2> QED
    BY <2>2, <2>3
<1>4. x \in Listed /\ x \in Conns /\ cport[x] = c /\ x \in Sockets /\ mem[x] = "live"
  <2>1. x \in Listed /\ x \in Conns /\ cport[x] = c
    BY <1>1, <1>2, ClientFacts, Zenon DEF IInv, TypeOK
  <2>2. x \in Sockets /\ IsListed(x)
    BY <2>1, ListedFacts DEF IInv, TypeOK
  <2> QED
    BY <2>1, <2>2 DEF IInv, ListInv
<1>5. PICK r \in SendTypes :
        r = [pc |-> "fd", cport |-> c, ctx |-> x, fd |-> None] /\ send' = [send EXCEPT ![s] = r]
  BY <1>2, <1>4 DEF SendTypes
<1> USE <1>2 DEF IInv, listVars, peerVars, ghosts
<1>6. TypeOK'
  <2>1. send' \in [Senders -> SendTypes]
    BY <1>5 DEF TypeOK, SendTypes
  <2> QED
    BY <1>3, <2>1 DEF TypeOK, SendTypes
<1>7. ListInv' /\ FilesInv'
  BY FilesStill
<1>8. SetupInv'
  <2> SUFFICES ASSUME svc.pc = "setup" PROVE FALSE
    BY DEF SetupInv
  <2>1. \A i \in 1..Len(fd_list) : fd_list[i] = i /\ i \in CPorts
    BY ConstFacts DEF SetupInv, CPorts, TypeOK
  <2>2. \E i \in 1..Len(fd_list) : fd_list[i] = x
    BY <1>4, ListedFacts DEF TypeOK
  <2> QED
    BY <2>1, <2>2, <1>4, SocketFacts
<1>9. SvcInv' /\ PeerInv' /\ RoutedUnlessTorn'
  BY DEF SvcInv, PeerInv, RoutedUnlessTorn
<1>10. SendInv' /\ UntornInv'
  <2>1. send'[s] = r /\ \A t \in Senders : t # s => send'[t] = send[t]
    BY <1>5 DEF TypeOK
  <2>2. r.pc = "fd" /\ r # SendIdle /\ r.cport = c /\ r.ctx = x
    BY <1>5 DEF SendIdle
  <2>3. SendInv'
    BY <1>4, <2>1, <2>2 DEF SendInv
  <2>4. UntornInv'
    BY <1>4, <2>1, <2>2, WordsStill DEF UntornInv, SvcHeld, SendersHeld
  <2> QED
    BY <2>3, <2>4
<1> QED
  BY <1>6, <1>7, <1>8, <1>9, <1>10

LEMMA SendFdStep == ASSUME IInv, NEW s \in Senders, SendFd(s) PROVE IInv'
<1>1. CASE mem[send[s].ctx] = "freed"
  <2>1. torn /\ Crash
    BY <1>1 DEF SendFd, IInv, UntornInv, SvcHeld, SendersHeld, WordsInv
  <2> QED
    BY <2>1, CrashStep
<1>2. CASE mem[send[s].ctx] # "freed"
  <2>1. PICK x, f : x = send[s].ctx /\ f = fd[x]
    OBVIOUS
  <2>2. /\ send[s].pc = "fd"
        /\ send' = [send EXCEPT ![s] = [send[s] EXCEPT !.pc = "write", !.fd = f]]
        /\ UNCHANGED <<listVars, cport, peerVars, inflow, svc, ghosts, fault, budget>>
    BY <1>2, <2>1 DEF SendFd, IInv, TypeOK
  <2>3. x \in Conns /\ mem[x] # "none" /\ f \in Fds /\ send[s].cport \in CPorts
    BY <2>1, <2>2, SocketFacts DEF IInv, SendInv, FilesInv
  <2>4. PICK r \in SendTypes :
          /\ r = [send[s] EXCEPT !.pc = "write", !.fd = f]
          /\ r.pc = "write" /\ r.ctx = x /\ r.cport = send[s].cport /\ r.fd = f
          /\ send' = [send EXCEPT ![s] = r]
    <3>1. PICK o \in SendTypes : o = send[s]
      BY DEF IInv, TypeOK, SendTypes
    <3>2. PICK r : r = [o EXCEPT !.pc = "write", !.fd = f]
      OBVIOUS
    <3>3. r \in SendTypes /\ r.pc = "write" /\ r.ctx = o.ctx /\ r.cport = o.cport /\ r.fd = f
      BY <2>3, <3>1, <3>2 DEF SendTypes
    <3> QED
      BY <2>1, <2>2, <3>1, <3>2, <3>3
  <2>5. send'[s] = r /\ (\A t \in Senders : t # s => send'[t] = send[t]) /\ r # SendIdle
    <3>1. send \in [Senders -> SendTypes]
      BY DEF IInv, TypeOK, SendTypes
    <3>2. r # SendIdle
      BY <2>4, IdleFacts
    <3> QED
      BY <2>4, <3>1, <3>2
  <2> USE <2>2 DEF IInv, listVars, peerVars, ghosts
  <2>6. TypeOK'
    <3>1. send' \in [Senders -> SendTypes]
      BY <2>4 DEF TypeOK, SendTypes
    <3> QED
      BY <3>1 DEF TypeOK, SendTypes
  <2>7. ListInv' /\ FilesInv'
    BY FilesStill
  <2>8. SetupInv' /\ SvcInv' /\ PeerInv' /\ RoutedUnlessTorn'
    BY <2>2 DEF SetupInv, SvcInv, PeerInv, RoutedUnlessTorn
  <2>9. SendInv'
    BY <2>3, <2>4, <2>5 DEF SendInv
  <2>10. UntornInv'
    BY <2>1, <2>4, <2>5, WordsStill DEF UntornInv, SvcHeld, SendersHeld
  <2> QED
    BY <2>6, <2>7, <2>8, <2>9, <2>10
<1> QED
  BY <1>1, <1>2

LEMMA SendFailsStep == ASSUME IInv, NEW s \in Senders, SendFails(s) PROVE IInv'
<1>1. /\ send[s].pc = "write"
      /\ send' = [send EXCEPT ![s] = [send[s] EXCEPT !.pc = "erase"]]
      /\ UNCHANGED <<listVars, cport, peerVars, inflow, svc, ghosts, fault>>
  BY DEF SendFails, IInv, TypeOK
<1>2. budget' \in [out : 0..MaxOut, fail : 0..MaxFail]
  BY FailsType DEF SendFails, IInv, TypeOK
<1>3. PICK r \in SendTypes :
        /\ r = [send[s] EXCEPT !.pc = "erase"]
        /\ r.pc = "erase" /\ r.ctx = send[s].ctx /\ r.cport = send[s].cport
        /\ send' = [send EXCEPT ![s] = r]
  BY <1>1 DEF IInv, TypeOK, SendTypes
<1>4. send'[s] = r /\ (\A t \in Senders : t # s => send'[t] = send[t]) /\ r # SendIdle
  BY <1>3 DEF IInv, TypeOK, SendIdle
<1> USE <1>1 DEF IInv, listVars, peerVars, ghosts
<1>5. TypeOK'
  <2>1. send' \in [Senders -> SendTypes]
    BY <1>3 DEF TypeOK, SendTypes
  <2> QED
    BY <1>2, <2>1 DEF TypeOK, SendTypes
<1>6. ListInv' /\ FilesInv'
  BY FilesStill
<1>7. SetupInv' /\ SvcInv' /\ PeerInv' /\ RoutedUnlessTorn'
  BY DEF SetupInv, SvcInv, PeerInv, RoutedUnlessTorn
<1>8. SendInv'
  BY <1>3, <1>4 DEF SendInv
<1>9. UntornInv'
  BY <1>3, <1>4, WordsStill DEF UntornInv, SvcHeld, SendersHeld
<1> QED
  BY <1>5, <1>6, <1>7, <1>8, <1>9

(* A descriptor in use is of a socket that there is.                       *)
LEMMA InUseFacts ==
  ASSUME IInv, NEW f \in Fds, file[f] \in Conns
  PROVE  peer[file[f]] # "none"
<1>1. file[f] # None
  BY SocketFacts
<1>2. CASE file[f] \in Listed
  <2>1. mem[file[f]] = "live"
    BY <1>2, ListedFacts DEF IInv, TypeOK, ListInv
  <2> QED
    BY <2>1 DEF IInv, PeerInv
<1>3. CASE svc.pc = "insert" /\ svc.ctx = file[f]
  BY <1>3 DEF IInv, SvcInv
<1>4. CASE file[f] \in nameless
  BY <1>4 DEF IInv, PeerInv
<1> QED
  BY <1>1, <1>2, <1>3, <1>4 DEF IInv, ListInv

(* A context that lives has its own socket on its descriptor.              *)
LEMMA LiveFacts ==
  ASSUME IInv, NEW x \in Sockets, mem[x] = "live"
  PROVE  x \in Listed /\ fd[x] \in Fds /\ file[fd[x]] = x
<1>1. x \in Listed
  BY ListedFacts DEF IInv, TypeOK, ListInv
<1> QED
  BY <1>1 DEF IInv, ListInv, FilesInv

LEMMA SendWriteStep == ASSUME IInv, NEW s \in Senders, SendWrite(s) PROVE IInv'
<1>1. PICK x, c : x = file[send[s].fd] /\ c = send[s].cport
  OBVIOUS
<1>2. /\ send[s].pc = "write" /\ x \in Conns
      /\ out' = [out EXCEPT ![x] = Append(out[x], c)]
      /\ send' = [send EXCEPT ![s] = SendIdle]
      /\ UNCHANGED <<listVars, cport, peerVars, inflow, svc, delivered, torn, crowded,
                     nameless, fault, budget>>
  BY <1>1 DEF SendWrite
<1>3. c \in CPorts /\ send[s].fd \in Fds /\ send[s].ctx \in Conns
  BY <1>1, <1>2 DEF IInv, SendInv
<1>4. peer[x] # "none"
  BY <1>1, <1>2, <1>3, InUseFacts
<1>5. ~torn => c = cport[x]
  <2> SUFFICES ASSUME ~torn PROVE c = cport[x]
    OBVIOUS
  <2>1. /\ mem[send[s].ctx] = "live" /\ c = cport[send[s].ctx]
        /\ send[s].fd = fd[send[s].ctx]
    BY <1>1, <1>2 DEF IInv, UntornInv, SendersHeld
  <2>2. file[send[s].fd] = send[s].ctx
    BY <2>1, <1>3, LiveFacts, SocketFacts
  <2> QED
    BY <1>1, <2>1, <2>2
<1>6. PICK q \in Seq(CPorts), t \in Seq(CPorts) :
        /\ q = out[x] /\ out' = [out EXCEPT ![x] = t]
        /\ DOMAIN q = 1..Len(q) /\ DOMAIN t = 1..Len(q) + 1 /\ Len(q) \in Nat
        /\ \A i \in 1..Len(q) : t[i] = q[i]
        /\ t[Len(q) + 1] = c
  <2>1. PICK q \in Seq(CPorts) : q = out[x]
    BY <1>2 DEF IInv, TypeOK
  <2>2. /\ Append(q, c) \in Seq(CPorts) /\ Len(q) \in Nat
        /\ DOMAIN q = 1..Len(q) /\ DOMAIN Append(q, c) = 1..Len(q) + 1
        /\ \A i \in 1..Len(q) : Append(q, c)[i] = q[i]
        /\ Append(q, c)[Len(q) + 1] = c
    BY <1>3
  <2> QED
    BY <1>2, <2>1, <2>2, Zenon
<1> USE <1>2 DEF IInv, listVars, peerVars, ghosts
<1>7. TypeOK'
  <2>1. send' \in [Senders -> SendTypes]
    BY IdleFacts DEF TypeOK, SendTypes
  <2>2. out' \in [Conns -> Seq(CPorts)]
    BY <1>6 DEF TypeOK
  <2> QED
    BY <2>1, <2>2 DEF TypeOK, SendTypes
<1>8. ListInv' /\ FilesInv'
  BY FilesStill
<1>9. send'[s] = SendIdle /\ \A y \in Senders : y # s => send'[y] = send[y]
  BY DEF TypeOK
<1>10. SetupInv' /\ SvcInv'
  BY <1>9, IdleFacts DEF SetupInv, SvcInv
<1>11. PeerInv'
  BY <1>4, <1>6 DEF PeerInv, TypeOK
<1>12. SendInv'
  BY <1>9, IdleFacts DEF SendInv
<1>13. UntornInv'
  BY <1>9, IdleFacts, WordsStill DEF UntornInv, SvcHeld, SendersHeld
<1>14. RoutedUnlessTorn'
  <2> SUFFICES ASSUME ~torn PROVE RoutedUnlessTorn'
    BY DEF RoutedUnlessTorn
  <2>1. \A i \in 1..Len(q) : q[i] = cport[x]
    BY <1>6 DEF RoutedUnlessTorn
  <2>2. \A i \in 1..Len(q) + 1 : i \in 1..Len(q) \/ i = Len(q) + 1
    BY <1>6
  <2>3. \A i \in DOMAIN t : t[i] = cport[x]
    BY <1>5, <1>6, <2>1, <2>2
  <2>4. out'[x] = t /\ \A y \in Conns : y # x => out'[y] = out[y]
    BY <1>6 DEF TypeOK
  <2> QED
    BY <2>3, <2>4 DEF RoutedUnlessTorn
<1> QED
  BY <1>7, <1>8, <1>10, <1>11, <1>12, <1>13, <1>14

(* What an erase leaves.                                                   *)
LEMMA EraseFacts ==
  ASSUME IInv, NEW x \in Sockets, mem[x] = "live", Erase(fd[x]), UNCHANGED nameless,
         svc.pc = "insert" => svc'.pc = "insert" /\ svc'.ctx = svc.ctx
  PROVE  /\ ListInv' /\ FilesInv'
         /\ fd' = fd /\ mem' = [mem EXCEPT ![x] = "freed"]
         /\ file' \in [Fds -> Sockets \cup {None}] /\ fd_list' \in Seq(Sockets)
         /\ \A f \in Fds : file[f] # x => file'[f] = file[f]
<1>1. x \in Listed /\ fd[x] \in Fds /\ file[fd[x]] = x
  BY LiveFacts
<1>2. WithFd(fd[x]) = x /\ x # None
  BY <1>1, WithFdFacts, SocketFacts DEF IInv
<1>3. /\ fd_list' = Without(x) /\ file' = [file EXCEPT ![fd[x]] = None]
      /\ mem' = [mem EXCEPT ![x] = "freed"] /\ fd' = fd
  BY <1>2 DEF Erase, Closed
<1>4. PICK t \in Seq(Sockets) :
        /\ t = fd_list'
        /\ \A i, j \in 1..Len(t) : t[i] = t[j] => i = j
        /\ {t[i] : i \in 1..Len(t)} = Listed \ {x}
  BY <1>1, <1>3, WithoutFacts, Zenon DEF IInv
<1>5. DOMAIN t = 1..Len(t)
  OBVIOUS
<1>6. Listed' = Listed \ {x}
  BY <1>4, <1>5 DEF Listed
<1>7. \A y : IsListed(y)' <=> y \in Listed /\ y # x
  <2>1. \A y : IsListed(y)' <=> \E i \in 1..Len(t) : t[i] = y
    BY <1>4, <1>5 DEF IsListed
  <2> QED
    BY <1>4, <2>1
<1>8. \A y : IsListed(y) <=> y \in Listed
  BY DEF Listed, IsListed
<1>9. file' \in [Fds -> Sockets \cup {None}] /\ fd_list' \in Seq(Sockets)
  BY <1>3, <1>4 DEF IInv, TypeOK
<1>10. /\ file'[fd[x]] = None /\ \A f \in Fds : f # fd[x] => file'[f] = file[f]
       /\ mem'[x] = "freed" /\ \A y \in Sockets : y # x => mem'[y] = mem[y]
  BY <1>1, <1>3 DEF IInv, TypeOK
<1>11. ListInv'
  <2>1. \A i, j \in DOMAIN fd_list' : fd_list'[i] = fd_list'[j] => i = j
    BY <1>4, <1>5
  <2>2. \A y \in Sockets : mem'[y] = "live" <=> IsListed(y)'
    BY <1>7, <1>8, <1>10 DEF IInv, ListInv
  <2>3. \A y \in Listed' : file'[fd'[y]] = y
    <3> SUFFICES ASSUME NEW y \in Listed, y # x PROVE file'[fd[y]] = y
      BY <1>3, <1>6
    <3>1. y \in Sockets /\ mem[y] = "live"
      BY ListedFacts DEF IInv, TypeOK, ListInv
    <3>2. fd[y] \in Fds /\ file[fd[y]] = y
      BY <3>1, LiveFacts
    <3> QED
      BY <1>1, <1>10, <3>2
  <2>4. ASSUME NEW f \in Fds, file'[f] # None
        PROVE  \/ file'[f] \in Listed' \cup nameless'
               \/ svc'.pc = "insert" /\ svc'.ctx = file'[f]
    <3>1. f # fd[x] /\ file'[f] = file[f]
      BY <1>10, <2>4
    <3>2. fd[file[f]] = f
      BY <2>4, <3>1 DEF IInv, FilesInv
    <3>3. file[f] # x
      BY <3>1, <3>2
    <3>4. \/ file[f] \in Listed \cup nameless
          \/ svc.pc = "insert" /\ svc.ctx = file[f]
      BY <2>4, <3>1 DEF IInv, ListInv
    <3> QED
      BY <1>6, <3>1, <3>3, <3>4
  <2>5. ASSUME NEW y \in nameless' PROVE mem'[y] = "none" /\ file'[fd'[y]] = y
    <3>1. y \in nameless /\ y \in Sockets
      BY <2>5, SocketFacts DEF IInv, TypeOK
    <3>2. mem[y] = "none" /\ fd[y] \in Fds /\ file[fd[y]] = y
      BY <3>1 DEF IInv, ListInv, FilesInv
    <3>3. y # x /\ fd[y] # fd[x]
      BY <1>1, <3>2
    <3> QED
      BY <1>3, <1>10, <3>1, <3>2, <3>3
  <2> QED
    BY <2>1, <2>2, <2>3, <2>4, <2>5 DEF ListInv
<1>12. FilesInv'
  <2>1. \A y \in Sockets : mem'[y] # "none" => mem[y] # "none"
    BY <1>10
  <2>2. \A f \in Fds : file'[f] # None => file'[f] = file[f]
    BY <1>10
  <2> QED
    BY <1>3, <2>1, <2>2 DEF IInv, FilesInv
<1> QED
  BY <1>1, <1>3, <1>9, <1>10, <1>11, <1>12

LEMMA SendEraseStep == ASSUME IInv, NEW s \in Senders, SendErase(s) PROVE IInv'
<1>1. CASE mem[send[s].ctx] = "freed"
  <2>1. torn /\ Crash
    BY <1>1 DEF SendErase, IInv, UntornInv, SendersHeld
  <2> QED
    BY <2>1, CrashStep
<1>2. CASE mem[send[s].ctx] # "freed"
  <2>1. PICK x : x = send[s].ctx
    OBVIOUS
  <2>2. /\ send[s].pc = "erase" /\ Erase(fd[x])
        /\ torn' = (torn \/ SenderUses(x, Senders \ {s}) \/ ServiceUses(x))
        /\ send' = [send EXCEPT ![s] = SendIdle]
        /\ UNCHANGED <<cport, peerVars, inflow, svc, delivered, out, crowded, nameless, fault,
                       budget>>
    BY <1>2, <2>1 DEF SendErase
  <2>3. x \in Conns /\ x \in Sockets /\ mem[x] = "live"
    BY <1>2, <2>1, <2>2, SocketFacts DEF IInv, SendInv, TypeOK
  <2>4. /\ ListInv' /\ FilesInv'
        /\ fd' = fd /\ mem' = [mem EXCEPT ![x] = "freed"]
        /\ file' \in [Fds -> Sockets \cup {None}] /\ fd_list' \in Seq(Sockets)
        /\ \A f \in Fds : file[f] # x => file'[f] = file[f]
    BY <2>2, <2>3, EraseFacts
  <2>5. mem'[x] = "freed" /\ \A y \in Sockets : y # x => mem'[y] = mem[y]
    BY <2>3, <2>4 DEF IInv, TypeOK
  <2>6. send'[s] = SendIdle /\ \A t \in Senders : t # s => send'[t] = send[t]
    BY <2>2 DEF IInv, TypeOK
  <2> USE <2>2 DEF IInv, peerVars
  <2>7. TypeOK'
    <3>1. send' \in [Senders -> SendTypes]
      BY IdleFacts DEF TypeOK, SendTypes
    <3>2. mem' \in [Sockets -> {"none", "live", "freed"}]
      BY <2>4 DEF TypeOK
    <3>3. torn' \in BOOLEAN
      BY Zenon DEF TypeOK, SenderUses, ServiceUses
    <3> QED
      BY <2>4, <3>1, <3>2, <3>3 DEF TypeOK, SendTypes
  <2>8. SetupInv'
    BY DEF SetupInv
  <2>9. SvcInv'
    <3>1. svc.pc = "insert" =>
            /\ svc.ctx # x /\ mem'[svc.ctx] = "none"
            /\ fd'[svc.ctx] \in Fds /\ file'[fd'[svc.ctx]] = svc.ctx
      BY <2>3, <2>4, <2>5, SocketFacts DEF SvcInv
    <3>2. svc.pc \in Serving => mem'[svc.ctx] # "none"
      BY <2>3, <2>5, SocketFacts DEF SvcInv
    <3> QED
      BY <3>1, <3>2 DEF SvcInv
  <2>10. SendInv'
    <3>1. \A y \in Sockets : mem[y] # "none" => mem'[y] # "none"
      BY <2>3, <2>5
    <3>2. ASSUME NEW t \in Senders, t # s, send[t].ctx \in Conns, mem[send[t].ctx] # "none"
          PROVE  mem'[send[t].ctx] # "none"
      BY <3>1, <3>2, SocketFacts
    <3> QED
      BY <2>6, <3>2, IdleFacts DEF SendInv
  <2>11. PeerInv'
    BY <2>3, <2>5, SocketFacts DEF PeerInv
  <2>12. RoutedUnlessTorn'
    BY DEF RoutedUnlessTorn
  <2>13. UntornInv'
    <3> SUFFICES ASSUME ~torn' PROVE UntornInv'
      BY DEF UntornInv
    <3>1. ~torn /\ svc.ctx # x /\ \A t \in Senders \ {s} : send[t].ctx # x
      BY DEF SenderUses, ServiceUses
    <3>2. SvcHeld'
      BY <2>4, <2>5, <3>1, SocketFacts DEF UntornInv, SvcHeld, SvcInv
    <3>3. SendersHeld'
      BY <2>4, <2>5, <2>6, <3>1, IdleFacts, SocketFacts
      DEF UntornInv, SendersHeld, SendInv
    <3>4. WordsInv'
      <4>1. \A y \in Conns : StreamInv(y)' <=> StreamInv(y)
        BY DEF StreamInv, InHand
      <4>2. \A y \in Conns : mem'[y] # "freed" => mem[y] # "freed"
        BY <2>5, SocketFacts
      <4> QED
        BY <3>1, <4>1, <4>2 DEF UntornInv, WordsInv
    <3> QED
      BY <3>2, <3>3, <3>4 DEF UntornInv
  <2> QED
    BY <2>4, <2>7, <2>8, <2>9, <2>10, <2>11, <2>12, <2>13
<1> QED
  BY <1>1, <1>2

-----------------------------------------------------------------------------
(* service_thread.                                                         *)

SvcTypes ==
  [pc : {"setup", "prepare", "poll", "loop", "accept", "insert", "input",
         "recv", "deliver", "close", "clear", "off"},
   todo : Seq(Fds), ready : SUBSET Fds, ctx : Sockets \cup {None}, fd : Fds \cup {None},
   got : Seq(1..2 * MaxIn)]

LEMMA EmptyFacts ==
  /\ <<>> \in Seq(Fds) /\ <<>> \in Seq(1..2 * MaxIn)
  /\ Len(<<>>) = 0 /\ DOMAIN <<>> = {}
<1>1. Len(<<>>) = 0 /\ 1..0 = {}
  OBVIOUS
<1>2. \A S : <<>> \in Seq(S)
  OBVIOUS
<1>3. DOMAIN <<>> = {}
  BY <1>1
<1> QED
  BY <1>1, <1>2, <1>3

LEMMA SvcAtFacts ==
  ASSUME NEW pc \in {"prepare", "clear", "off"}
  PROVE  /\ SvcAt(pc) \in SvcTypes /\ SvcAt(pc).pc = pc /\ SvcAt(pc).ctx = None
         /\ SvcAt(pc).got = <<>>
<1>1. PICK a, b : a = <<>> /\ b = <<>> /\ a \in Seq(Fds) /\ b \in Seq(1..2 * MaxIn)
  BY EmptyFacts, Zenon
<1>2. SvcAt(pc) = [pc |-> pc, todo |-> a, ready |-> {}, ctx |-> None, fd |-> None, got |-> b]
  BY <1>1 DEF SvcAt
<1> QED
  BY <1>1, <1>2 DEF SvcTypes

(* The words stay as they are while the thread has none.                   *)
LEMMA EmptyHandFacts ==
  ASSUME NEW x \in Conns, StreamInv(x), InHand(x) = 0, svc'.got = <<>>,
         UNCHANGED <<delivered, peerVars, inflow>>
  PROVE  StreamInv(x)'
<1> USE DEF peerVars
<1>1. InHand(x)' = 0 /\ \A i \in 1..Len(svc'.got) : FALSE
  BY EmptyFacts DEF InHand
<1>2. \A i \in 1..Len(inflow[x]) : inflow[x][i] = 2 * Len(delivered[x]) + 0 + i
  BY DEF StreamInv
<1>3. peer[x] = "open" => written[x] = 2 * Len(delivered[x]) + 0 + Len(inflow[x])
  BY DEF StreamInv
<1> QED
  BY <1>1, <1>2, <1>3 DEF StreamInv

(* The thread moves on with nothing in hand, or takes up a context that    *)
(* lives.                                                                  *)
LEMMA SvcMovesStep ==
  ASSUME IInv, svc.pc \notin Serving \cup {"insert"},
         svc' \in SvcTypes, svc'.got = <<>>,
         svc'.pc \notin {"setup", "insert", "recv", "deliver", "close"},
         svc'.pc = "accept" => svc'.ctx \in CPorts,
         svc'.pc = "input" => svc'.ctx \in Conns /\ mem[svc'.ctx] = "live",
         crowded' \in BOOLEAN, budget' \in [out : 0..MaxOut, fail : 0..MaxFail],
         UNCHANGED <<listVars, cport, peerVars, inflow, send, delivered, out, torn, nameless,
                     fault>>
  PROVE  IInv'
<1> USE DEF IInv, listVars, peerVars
<1>1. svc.got = <<>> /\ Len(<<>>) = 0
  BY DEF SvcInv
<1>2. TypeOK'
  BY DEF TypeOK, SvcTypes
<1>3. ListInv' /\ FilesInv'
  BY FilesStill, Zenon
<1>4. SetupInv' /\ SvcInv'
  BY DEF SetupInv, SvcInv, Serving
<1>5. SendInv' /\ PeerInv' /\ RoutedUnlessTorn'
  BY DEF SendInv, PeerInv, RoutedUnlessTorn
<1>6. UntornInv'
  <2> SUFFICES ASSUME ~torn PROVE UntornInv'
    BY DEF UntornInv
  <2>1. SvcHeld'
    BY DEF SvcHeld, Serving
  <2>2. SendersHeld'
    BY DEF UntornInv, SendersHeld
  <2>3. ASSUME NEW x \in Conns, mem[x] # "freed" PROVE StreamInv(x)'
    <3>1. StreamInv(x)
      BY <2>3 DEF UntornInv, WordsInv, Serving
    <3>2. InHand(x) = 0
      BY <1>1 DEF InHand
    <3> QED
      BY <3>1, <3>2, EmptyHandFacts
  <2> QED
    BY <2>1, <2>2, <2>3 DEF UntornInv, WordsInv
<1> QED
  BY <1>2, <1>3, <1>4, <1>5, <1>6

LEMMA SetupFailsStep == ASSUME IInv, SetupFails PROVE IInv'
<1>1. svc.pc = "setup" /\ svc' = SvcAt("clear")
  BY DEF SetupFails
<1>2. budget' \in [out : 0..MaxOut, fail : 0..MaxFail]
  BY FailsType DEF SetupFails, IInv
<1>3. svc' \in SvcTypes /\ svc'.got = <<>> /\ svc'.pc = "clear"
  BY <1>1, SvcAtFacts
<1>4. UNCHANGED <<listVars, cport, peerVars, inflow, send, ghosts, fault>>
  BY DEF SetupFails
<1> QED
  BY <1>1, <1>2, <1>3, <1>4, SvcMovesStep DEF ghosts, Serving, IInv, TypeOK

LEMMA SetupDoneStep == ASSUME IInv, SetupDone PROVE IInv'
<1>1. svc.pc = "setup" /\ (svc' = SvcAt("prepare") \/ svc' = SvcAt("clear"))
  BY DEF SetupDone
<1>2. budget' \in [out : 0..MaxOut, fail : 0..MaxFail]
  BY FailsType DEF SetupDone, IInv, TypeOK
<1>3. svc' \in SvcTypes /\ svc'.got = <<>> /\ svc'.pc \in {"prepare", "clear"}
  BY <1>1, SvcAtFacts
<1>4. UNCHANGED <<listVars, cport, peerVars, inflow, send, ghosts, fault>>
  BY DEF SetupDone
<1> QED
  BY <1>1, <1>2, <1>3, <1>4, SvcMovesStep DEF ghosts, Serving, IInv, TypeOK

LEMMA SvcPrepareStep == ASSUME IInv, SvcPrepare PROVE IInv'
<1>1. /\ svc.pc = "prepare"
      /\ UNCHANGED <<listVars, cport, peerVars, inflow, send, delivered, out, torn, nameless,
                     fault, budget>>
  BY DEF SvcPrepare
<1>2. /\ svc' \in SvcTypes /\ svc'.got = <<>> /\ svc'.pc \in {"poll", "clear"}
      /\ crowded' \in BOOLEAN
  <2>1. CASE Len(fd_list) \in 1..PollMax
    <3>1. \A x \in Listed : x \in Sockets /\ fd[x] \in Fds
      BY ListedFacts, LiveFacts DEF IInv, TypeOK, ListInv
    <3>2. PICK n \in Nat : n = Len(fd_list) /\ DOMAIN fd_list = 1..n
      BY ListedFacts DEF IInv, TypeOK
    <3>3. \A i \in 1..n : fd[fd_list[i]] \in Fds
      BY <3>1, <3>2, ListedFacts DEF IInv, TypeOK
    <3>4. [i \in DOMAIN fd_list |-> fd[fd_list[i]]] \in Seq(Fds)
      BY <3>2, <3>3
    <3>5. PICK t, r : t = [i \in DOMAIN fd_list |-> fd[fd_list[i]]] /\ r = {fd[x] : x \in Listed}
      OBVIOUS
    <3>6. t \in Seq(Fds) /\ r \in SUBSET Fds
      BY <3>1, <3>4, <3>5
    <3>7. svc' = [SvcAt("poll") EXCEPT !.todo = t, !.ready = r] /\ crowded' = crowded
      BY <2>1, <3>5 DEF SvcPrepare
    <3>8. PICK a, e : a = <<>> /\ e = <<>> /\ e \in Seq(1..2 * MaxIn)
      BY EmptyFacts, Zenon
    <3>9. svc' = [pc |-> "poll", todo |-> t, ready |-> r, ctx |-> None, fd |-> None, got |-> e]
      <4>1. PICK b : b = SvcAt("poll")
        OBVIOUS
      <4>2. b = [pc |-> "poll", todo |-> a, ready |-> {}, ctx |-> None, fd |-> None, got |-> e]
        BY <4>1, <3>8 DEF SvcAt
      <4>3. svc' = [b EXCEPT !.todo = t, !.ready = r]
        BY <4>1, <3>7
      <4> QED
        BY <4>2, <4>3
    <3>10. svc' \in SvcTypes /\ svc'.got = e /\ svc'.pc = "poll"
      BY <3>6, <3>8, <3>9 DEF SvcTypes
    <3>11. crowded' \in BOOLEAN
      BY <3>7, Zenon DEF IInv, TypeOK
    <3> QED
      BY <3>8, <3>10, <3>11
  <2>2. CASE Len(fd_list) \notin 1..PollMax
    <3>1. svc' = SvcAt("clear") /\ crowded' = TRUE
      BY <2>2 DEF SvcPrepare
    <3> QED
      BY <3>1, SvcAtFacts
  <2> QED
    BY <2>1, <2>2
<1> QED
  BY <1>1, <1>2, SvcMovesStep DEF Serving, IInv, TypeOK

LEMMA SvcPollStep == ASSUME IInv, SvcPoll PROVE IInv'
<1>1. svc.pc = "poll" /\ UNCHANGED <<listVars, cport, peerVars, inflow, send, ghosts, fault>>
  BY DEF SvcPoll
<1>2. CASE /\ svc' = [svc EXCEPT !.pc = "loop", !.ready = {f \in svc.ready : Readable(f)}]
           /\ UNCHANGED budget
  <2>1. PICK r : r = {f \in svc.ready : Readable(f)}
    OBVIOUS
  <2>2. svc \in SvcTypes /\ svc.got = <<>>
    BY <1>1 DEF IInv, TypeOK, SvcInv, SvcTypes, Serving
  <2>3. r \in SUBSET Fds
    BY <2>1, <2>2 DEF SvcTypes
  <2>4. svc' \in SvcTypes /\ svc'.got = <<>> /\ svc'.pc = "loop"
    BY <1>2, <2>1, <2>2, <2>3 DEF SvcTypes
  <2> QED
    BY <1>1, <1>2, <2>4, SvcMovesStep DEF ghosts, Serving, IInv, TypeOK
<1>3. CASE svc' = SvcAt("clear") /\ Fails
  <2>1. svc' \in SvcTypes /\ svc'.got = <<>> /\ svc'.pc = "clear"
    BY <1>3, SvcAtFacts
  <2>2. budget' \in [out : 0..MaxOut, fail : 0..MaxFail]
    BY <1>3, FailsType DEF IInv
  <2> QED
    BY <1>1, <2>1, <2>2, SvcMovesStep DEF ghosts, Serving, IInv, TypeOK
<1> QED
  BY <1>2, <1>3 DEF SvcPoll

LEMMA SvcLoopStep == ASSUME IInv, SvcLoop PROVE IInv'
<1>1. /\ svc.pc = "loop"
      /\ UNCHANGED <<listVars, cport, peerVars, inflow, send, ghosts, fault, budget>>
  BY DEF SvcLoop
<1>2. /\ svc' \in SvcTypes /\ svc'.got = <<>>
      /\ svc'.pc \in {"prepare", "loop", "accept", "input"}
      /\ svc'.pc = "accept" => svc'.ctx \in CPorts
      /\ svc'.pc = "input" => svc'.ctx \in Conns /\ mem[svc'.ctx] = "live"
  <2>1. CASE svc' = SvcAt("prepare")
    BY <2>1, SvcAtFacts
  <2>2. CASE svc' # SvcAt("prepare")
    <3>1. PICK f, t : f = Head(svc.todo) /\ t = Tail(svc.todo)
      OBVIOUS
    <3>2. PICK x, r : r = svc.ready \ {f} /\ x = IF f \in svc.ready THEN WithFd(f) ELSE None
      OBVIOUS
    <3>3. PICK p : p = IF x = None THEN "loop" ELSE IF x \in CPorts THEN "accept" ELSE "input"
      OBVIOUS
    <3>4. /\ svc.todo # <<>>
          /\ svc' = [svc EXCEPT !.todo = t, !.ready = r, !.ctx = x, !.pc = p]
      BY <2>2, <3>1, <3>2, <3>3 DEF SvcLoop
    <3>5. svc \in SvcTypes /\ svc.got = <<>>
      BY <1>1 DEF IInv, TypeOK, SvcInv, SvcTypes, Serving
    <3>6. t \in Seq(Fds) /\ r \in SUBSET Fds
      BY <3>4, <3>5, <3>1, <3>2 DEF SvcTypes
    <3>7. x = None \/ x \in Listed
      BY <3>2, LookedUpFacts DEF IInv, TypeOK
    <3>8. x = None \/ (x \in Sockets /\ mem[x] = "live")
      BY <3>7, ListedFacts DEF IInv, TypeOK, ListInv
    <3>9. p \in {"loop", "accept", "input"} /\ x \in Sockets \cup {None}
      BY <3>3, <3>8
    <3>10. svc' \in SvcTypes /\ svc'.got = <<>> /\ svc'.pc = p /\ svc'.ctx = x
      BY <3>4, <3>5, <3>6, <3>9 DEF SvcTypes
    <3>11. p = "accept" => x \in CPorts
      BY <3>3
    <3>12. p = "input" => x \in Conns /\ mem[x] = "live"
      BY <3>3, <3>8, SocketFacts
    <3> QED
      BY <3>9, <3>10, <3>11, <3>12
  <2> QED
    BY <2>1, <2>2
<1> QED
  BY <1>1, <1>2, SvcMovesStep DEF ghosts, Serving, IInv, TypeOK

(* The list after a new context is appended.                               *)
LEMMA AppendFacts ==
  ASSUME TypeOK, ListInv, NEW x \in Sockets, mem[x] # "live", fd_list' = Append(fd_list, x)
  PROVE  /\ fd_list' \in Seq(Sockets) /\ Len(fd_list') = Len(fd_list) + 1
         /\ \A i \in 1..Len(fd_list) : fd_list'[i] = fd_list[i]
         /\ fd_list'[Len(fd_list) + 1] = x
         /\ \A i, j \in DOMAIN fd_list' : fd_list'[i] = fd_list'[j] => i = j
         /\ \A y : IsListed(y)' <=> IsListed(y) \/ y = x
         /\ Listed' = Listed \cup {x} /\ x \notin Listed
<1>1. x \notin Listed
  BY ListedFacts DEF TypeOK, ListInv
<1>2. PICK q \in Seq(Sockets), n \in Nat :
        /\ q = fd_list /\ n = Len(q) /\ DOMAIN q = 1..n
        /\ \A i \in 1..n : q[i] \in Sockets /\ q[i] # x
        /\ \A i, j \in 1..n : q[i] = q[j] => i = j
  <2>1. fd_list \in Seq(Sockets)
    BY DEF TypeOK
  <2>2. /\ Len(fd_list) \in Nat /\ DOMAIN fd_list = 1..Len(fd_list)
        /\ \A i \in 1..Len(fd_list) : fd_list[i] \in Sockets /\ fd_list[i] # x
    BY <1>1, <2>1, ListedFacts
  <2>3. \A i, j \in 1..Len(fd_list) : fd_list[i] = fd_list[j] => i = j
    BY <2>2 DEF ListInv
  <2> QED
    BY <2>1, <2>2, <2>3, Zenon
<1>3. PICK t \in Seq(Sockets) :
        /\ t = fd_list' /\ Len(t) = n + 1 /\ DOMAIN t = 1..n + 1
        /\ \A i \in 1..n : t[i] = q[i]
        /\ t[n + 1] = x
  <2>1. /\ Append(q, x) \in Seq(Sockets) /\ Len(Append(q, x)) = n + 1
        /\ DOMAIN Append(q, x) = 1..n + 1
        /\ \A i \in 1..n : Append(q, x)[i] = q[i]
        /\ Append(q, x)[n + 1] = x
    BY <1>2
  <2> QED
    BY <1>2, <2>1, Zenon
<1>4. \A i : i \in 1..n + 1 <=> i \in 1..n \/ i = n + 1
  BY <1>2
<1>5. \A i, j \in 1..n + 1 : t[i] = t[j] => i = j
  BY <1>2, <1>3, <1>4
<1>6. \A y : IsListed(y) <=> \E i \in 1..n : q[i] = y
  BY <1>2 DEF IsListed
<1>7. \A y : IsListed(y)' <=> \E i \in 1..n + 1 : t[i] = y
  BY <1>3 DEF IsListed
<1>8. \A y : IsListed(y)' <=> IsListed(y) \/ y = x
  BY <1>3, <1>4, <1>6, <1>7
<1>9. \A y : (y \in Listed' <=> IsListed(y)') /\ (y \in Listed <=> IsListed(y))
  BY DEF Listed, IsListed
<1> QED
  BY <1>1, <1>2, <1>3, <1>5, <1>8, <1>9

LEMMA SetupStep == ASSUME IInv, Setup PROVE IInv'
<1>1. PICK c, f, n : n = Len(fd_list) /\ c = n + 1 /\ f = LowestFree
  OBVIOUS
<1>2. /\ svc.pc = "setup" /\ c <= NumCPorts
      /\ file' = [file EXCEPT ![f] = c] /\ fd' = [fd EXCEPT ![c] = f]
      /\ cport' = [cport EXCEPT ![c] = c] /\ mem' = [mem EXCEPT ![c] = "live"]
      /\ fd_list' = Append(fd_list, c)
      /\ UNCHANGED <<peerVars, inflow, svc, send, ghosts, fault, budget>>
  BY <1>1 DEF Setup
<1>3. n \in Nat /\ \A i \in 1..n : fd_list[i] = i
  BY <1>1, <1>2, ListedFacts DEF IInv, TypeOK, SetupInv
<1>4. c \in CPorts /\ c \in Sockets /\ c # None /\ c \notin Conns
  BY <1>1, <1>2, <1>3, SocketFacts, ConstFacts DEF CPorts
<1>5. c \notin Listed
  BY <1>1, <1>3, ListedFacts DEF IInv, TypeOK
<1>6. mem[c] # "live"
  BY <1>4, <1>5, ListedFacts DEF IInv, TypeOK, ListInv
<1>7. \A g \in Fds : file[g] # c
  BY <1>2, <1>4, <1>5 DEF IInv, TypeOK, ListInv
<1>8. f \in Fds /\ file[f] = None
  BY <1>1, <1>4, <1>7, FreeFacts DEF IInv
<1>9. /\ fd_list' \in Seq(Sockets) /\ Len(fd_list') = n + 1
      /\ \A i \in 1..n : fd_list'[i] = fd_list[i]
      /\ fd_list'[n + 1] = c
      /\ \A i, j \in DOMAIN fd_list' : fd_list'[i] = fd_list'[j] => i = j
      /\ \A y : IsListed(y)' <=> IsListed(y) \/ y = c
      /\ Listed' = Listed \cup {c}
  BY <1>1, <1>2, <1>4, <1>6, AppendFacts DEF IInv
<1>10. /\ file'[f] = c /\ \A g \in Fds : g # f => file'[g] = file[g]
       /\ fd'[c] = f /\ mem'[c] = "live" /\ cport'[c] = c
       /\ \A y \in Sockets : y # c =>
            fd'[y] = fd[y] /\ mem'[y] = mem[y] /\ cport'[y] = cport[y]
  BY <1>2, <1>4, <1>8 DEF IInv, TypeOK
<1> USE DEF IInv, peerVars, ghosts
<1>11. TypeOK'
  BY <1>2, <1>4, <1>8, <1>9 DEF TypeOK
<1>12. ListInv'
  <2>1. \A y \in Sockets : mem'[y] = "live" <=> IsListed(y)'
    BY <1>9, <1>10 DEF ListInv
  <2>2. ASSUME NEW y \in Listed' PROVE file'[fd'[y]] = y
    <3>1. CASE y = c
      BY <3>1, <1>8, <1>10
    <3>2. CASE y # c
      <4>1. y \in Sockets /\ mem[y] = "live"
        BY <2>2, <3>2, <1>9, ListedFacts DEF TypeOK, ListInv
      <4>2. fd[y] \in Fds /\ file[fd[y]] = y /\ y # None
        BY <4>1, LiveFacts, SocketFacts
      <4> QED
        BY <3>2, <4>1, <4>2, <1>8, <1>10
    <3> QED
      BY <3>1, <3>2
  <2>3. \A g \in Fds : file'[g] # None => file'[g] \in Listed' \cup nameless'
    BY <1>2, <1>9, <1>10 DEF ListInv
  <2>4. ASSUME NEW y \in nameless' PROVE mem'[y] = "none" /\ file'[fd'[y]] = y
    <3>1. y \in nameless /\ y \in Sockets /\ y # None /\ y # c
      BY <1>2, <1>4, <2>4, SocketFacts DEF TypeOK
    <3>2. mem[y] = "none" /\ fd[y] \in Fds /\ file[fd[y]] = y
      BY <3>1 DEF ListInv, FilesInv
    <3> QED
      BY <1>8, <1>10, <3>1, <3>2
  <2> QED
    BY <2>1, <2>2, <2>3, <2>4, <1>9 DEF ListInv
<1>13. FilesInv'
  <2>1. \A y \in Sockets : mem'[y] # "none" \/ y \in nameless' => fd'[y] \in Fds
    BY <1>2, <1>8, <1>10 DEF FilesInv
  <2>2. ASSUME NEW g \in Fds, file'[g] # None PROVE fd'[file'[g]] = g
    <3>1. CASE g = f
      BY <3>1, <1>10
    <3>2. CASE g # f
      <4>1. file'[g] = file[g] /\ file[g] \in Sockets /\ file[g] # c
        BY <2>2, <3>2, <1>7, <1>10 DEF TypeOK
      <4> QED
        BY <2>2, <4>1, <1>10 DEF FilesInv
    <3> QED
      BY <3>1, <3>2
  <2> QED
    BY <2>1, <2>2 DEF FilesInv
<1>14. SetupInv'
  <2>1. \A i \in 1..n + 1 : i \in 1..n \/ i = n + 1
    BY <1>3
  <2>2. \A i \in 1..n + 1 : fd_list'[i] = i
    BY <1>1, <1>3, <1>9, <2>1
  <2> QED
    BY <1>1, <1>2, <1>9, <2>2 DEF SetupInv
<1>15. SvcInv' /\ RoutedUnlessTorn'
  BY <1>2, <1>4, <1>10, SocketFacts DEF SvcInv, RoutedUnlessTorn, Serving
<1>16. SendInv' /\ PeerInv'
  BY <1>2, <1>4, <1>10, SocketFacts DEF SetupInv, SendInv, PeerInv
<1>17. UntornInv'
  <2> SUFFICES ASSUME ~torn PROVE UntornInv'
    BY <1>2 DEF UntornInv
  <2>1. SvcHeld' /\ SendersHeld'
    BY <1>2 DEF SvcHeld, SendersHeld, SetupInv, Serving
  <2>2. \A y \in Conns : StreamInv(y)' <=> StreamInv(y)
    BY <1>2 DEF StreamInv, InHand
  <2>3. WordsInv'
    BY <1>2, <1>4, <1>10, <2>2, SocketFacts DEF UntornInv, WordsInv
  <2> QED
    BY <2>1, <2>3 DEF UntornInv
<1> QED
  BY <1>11, <1>12, <1>13, <1>14, <1>15, <1>16, <1>17

LEMMA ResumeFacts ==
  ASSUME svc \in SvcTypes
  PROVE  /\ Resume \in SvcTypes /\ Resume.pc = "loop" /\ Resume.ctx = None
         /\ Resume.got = <<>>
<1>1. PICK e \in Seq(1..2 * MaxIn) : e = <<>>
  BY EmptyFacts, Zenon
<1>2. Resume = [svc EXCEPT !.pc = "loop", !.ctx = None, !.fd = None, !.got = e]
  BY <1>1 DEF Resume
<1> QED
  BY <1>1, <1>2 DEF SvcTypes

(* A connection with a descriptor of its own; the list is as it was.       *)
LEMMA SvcAcceptStep == ASSUME IInv, SvcAccept PROVE IInv'
<1>1. /\ svc.pc = "accept"
      /\ UNCHANGED <<fd_list, mem, cport, peerVars, inflow, send, delivered, out, torn,
                     crowded, fault>>
  BY DEF SvcAccept
<1>2. svc \in SvcTypes /\ svc.got = <<>>
  BY <1>1 DEF IInv, TypeOK, SvcInv, SvcTypes, Serving
<1>3. CASE svc' = Resume /\ Fails /\ UNCHANGED <<file, fd, nameless>>
  <2>1. svc' \in SvcTypes /\ svc'.got = <<>> /\ svc'.pc = "loop"
    BY <1>2, <1>3, ResumeFacts
  <2>2. budget' \in [out : 0..MaxOut, fail : 0..MaxFail]
    BY <1>3, FailsType DEF IInv
  <2> QED
    BY <1>1, <1>3, <2>1, <2>2, SvcMovesStep DEF listVars, Serving, IInv, TypeOK
<1>4. ASSUME NEW x \in Backlog(svc.ctx),
             file' = [file EXCEPT ![LowestFree] = x], fd' = [fd EXCEPT ![x] = LowestFree],
             \/ /\ svc' = [svc EXCEPT !.pc = "insert", !.ctx = x]
                /\ UNCHANGED <<nameless, budget>>
             \/ /\ svc' = Resume /\ Fails
                /\ nameless' = nameless \cup {x}
      PROVE  IInv'
  <2>1. PICK f : f = LowestFree
    OBVIOUS
  <2>2. file' = [file EXCEPT ![f] = x] /\ fd' = [fd EXCEPT ![x] = f]
    BY <1>4, <2>1
  <2>3. /\ x \in Conns /\ peer[x] # "none" /\ mem[x] = "none" /\ x \in Sockets /\ x # None
        /\ x \notin nameless
    <3>1. x \in Conns /\ peer[x] # "none" /\ fd[x] = None
      BY <1>4 DEF Backlog
    <3> QED
      BY <3>1, SocketFacts DEF IInv, FilesInv
  <2>4. x \notin Listed
    BY <2>3, ListedFacts DEF IInv, TypeOK, ListInv
  <2>5. \A g \in Fds : file[g] # x
    BY <1>1, <2>3, <2>4 DEF IInv, ListInv
  <2>6. f \in Fds /\ file[f] = None
    BY <2>1, <2>3, <2>5, FreeFacts DEF IInv
  <2>7. /\ file'[f] = x /\ \A g \in Fds : g # f => file'[g] = file[g]
        /\ fd'[x] = f /\ \A y \in Sockets : y # x => fd'[y] = fd[y]
    BY <2>2, <2>3, <2>6 DEF IInv, TypeOK
  <2>8. /\ svc' \in SvcTypes /\ svc'.got = <<>>
        /\ budget' \in [out : 0..MaxOut, fail : 0..MaxFail]
        /\ nameless' \subseteq Conns
        /\ \/ svc'.pc = "insert" /\ svc'.ctx = x /\ nameless' = nameless
           \/ svc'.pc = "loop" /\ nameless' = nameless \cup {x}
    <3>1. CASE /\ svc' = [svc EXCEPT !.pc = "insert", !.ctx = x]
               /\ UNCHANGED <<nameless, budget>>
      BY <1>2, <2>3, <3>1 DEF SvcTypes, IInv, TypeOK
    <3>2. CASE svc' = Resume /\ Fails /\ nameless' = nameless \cup {x}
      BY <1>2, <2>3, <3>2, ResumeFacts, FailsType DEF IInv, TypeOK
    <3> QED
      BY <1>4, <3>1, <3>2
  <2> USE <1>1 DEF IInv, peerVars
  <2>9. TypeOK'
    BY <2>2, <2>3, <2>6, <2>8 DEF TypeOK, SvcTypes
  <2>10. ListInv'
    <3>1. Listed' = Listed /\ \A y : IsListed(y)' <=> IsListed(y)
      BY DEF Listed, IsListed
    <3>2. ASSUME NEW y \in Listed PROVE file'[fd'[y]] = y
      <4>1. y \in Sockets /\ mem[y] = "live"
        BY ListedFacts DEF TypeOK, ListInv
      <4>2. fd[y] \in Fds /\ file[fd[y]] = y /\ y # None
        BY <4>1, LiveFacts, SocketFacts
      <4> QED
        BY <4>1, <4>2, <2>3, <2>6, <2>7
    <3>3. \A g \in Fds : file'[g] # None => file'[g] \in Listed \cup nameless \/ file'[g] = x
      BY <2>7 DEF ListInv
    <3>4. \A i, j \in DOMAIN fd_list' : fd_list'[i] = fd_list'[j] => i = j
      BY DEF ListInv
    <3>5. \A y \in Sockets : mem'[y] = "live" <=> IsListed(y)'
      BY <3>1 DEF ListInv
    <3>6. ASSUME NEW y \in nameless' PROVE mem'[y] = "none" /\ file'[fd'[y]] = y
      <4>1. CASE y = x
        BY <2>3, <2>7, <4>1
      <4>2. CASE y # x
        <5>1. y \in nameless /\ y \in Sockets /\ y # None
          BY <2>8, <3>6, <4>2, SocketFacts DEF TypeOK
        <5>2. mem[y] = "none" /\ fd[y] \in Fds /\ file[fd[y]] = y
          BY <5>1 DEF ListInv, FilesInv
        <5> QED
          BY <2>6, <2>7, <4>2, <5>1, <5>2
      <4> QED
        BY <4>1, <4>2
    <3> QED
      BY <2>8, <3>1, <3>2, <3>3, <3>4, <3>5, <3>6 DEF ListInv
  <2>11. FilesInv'
    <3>1. \A y \in Sockets : mem'[y] # "none" \/ y \in nameless' => fd'[y] \in Fds
      BY <2>6, <2>7, <2>8 DEF FilesInv
    <3>2. ASSUME NEW g \in Fds, file'[g] # None PROVE fd'[file'[g]] = g
      <4>1. CASE g = f
        BY <4>1, <2>7
      <4>2. CASE g # f
        <5>1. file'[g] = file[g] /\ file[g] \in Sockets /\ file[g] # x
          BY <3>2, <4>2, <2>5, <2>7 DEF TypeOK
        <5> QED
          BY <3>2, <5>1, <2>7 DEF FilesInv
      <4> QED
        BY <4>1, <4>2
    <3> QED
      BY <3>1, <3>2 DEF FilesInv
  <2>12. SetupInv'
    BY <2>8 DEF SetupInv
  <2>13. SvcInv'
    BY <2>3, <2>6, <2>7, <2>8 DEF SvcInv, Serving
  <2>14. SendInv' /\ PeerInv' /\ RoutedUnlessTorn'
    BY <2>3, <2>8 DEF SendInv, PeerInv, RoutedUnlessTorn
  <2>15. UntornInv'
    <3> SUFFICES ASSUME ~torn PROVE UntornInv'
      BY DEF UntornInv
    <3>1. SvcHeld'
      BY <2>8 DEF SvcHeld, Serving
    <3>2. SendersHeld'
      BY <2>3, <2>7, SocketFacts DEF UntornInv, SendersHeld, SendInv
    <3>3. ASSUME NEW y \in Conns, mem[y] # "freed" PROVE StreamInv(y)'
      <4>1. StreamInv(y)
        BY <3>3 DEF UntornInv, WordsInv
      <4>2. InHand(y) = 0
        BY <1>2, EmptyFacts DEF InHand
      <4> QED
        BY <4>1, <4>2, <2>8, EmptyHandFacts
    <3> QED
      BY <3>1, <3>2, <3>3 DEF UntornInv, WordsInv
  <2> QED
    BY <2>9, <2>10, <2>11, <2>12, <2>13, <2>14, <2>15
<1> QED
  BY <1>3, <1>4 DEF SvcAccept

LEMMA SvcInsertStep == ASSUME IInv, SvcInsert PROVE IInv'
<1>1. PICK x : x = svc.ctx
  OBVIOUS
<1>2. /\ svc.pc = "insert" /\ svc' = Resume
      /\ UNCHANGED <<fd, cport, peerVars, inflow, send, ghosts, fault>>
  BY DEF SvcInsert
<1>3. /\ x \in Conns /\ mem[x] = "none" /\ peer[x] # "none" /\ x \in Sockets /\ x # None
      /\ fd[x] \in Fds /\ file[fd[x]] = x /\ x \notin nameless
  BY <1>1, <1>2, SocketFacts DEF IInv, SvcInv
<1>4. svc' \in SvcTypes /\ svc'.pc = "loop" /\ svc'.got = <<>> /\ svc.got = <<>>
  BY <1>2, ResumeFacts DEF SvcTypes, Serving, IInv, TypeOK, SvcInv
<1>5. x \notin Listed
  BY <1>3, ListedFacts DEF IInv, TypeOK, ListInv
<1>6. \A g \in Fds : file[g] # None =>
        file[g] \in Listed \cup nameless \cup {x} /\ fd[file[g]] = g
  BY <1>1, <1>2 DEF IInv, ListInv, FilesInv
<1>6a. \A y \in nameless : y \in Sockets /\ y # x /\ mem[y] = "none" /\ file[fd[y]] = y
  <2>1. \A y \in nameless : mem[y] = "none" /\ file[fd[y]] = y
    BY DEF IInv, ListInv
  <2>2. nameless \subseteq Sockets
    BY SocketFacts DEF IInv, TypeOK
  <2> QED
    BY <1>3, <2>1, <2>2
<1> USE <1>2 DEF IInv, peerVars, ghosts
<1>7. /\ ListInv' /\ FilesInv' /\ mem' \in [Sockets -> {"none", "live", "freed"}]
      /\ fd_list' \in Seq(Sockets) /\ file' \in [Fds -> Sockets \cup {None}]
      /\ budget' \in [out : 0..MaxOut, fail : 0..MaxFail]
      /\ mem'[x] \in {"live", "freed"} /\ \A y \in Sockets : y # x => mem'[y] = mem[y]
  <2>1. CASE /\ fd_list' = Append(fd_list, x)
             /\ mem' = [mem EXCEPT ![x] = "live"]
             /\ UNCHANGED <<file, budget>>
    <3>1. /\ fd_list' \in Seq(Sockets)
          /\ \A i, j \in DOMAIN fd_list' : fd_list'[i] = fd_list'[j] => i = j
          /\ \A y : IsListed(y)' <=> IsListed(y) \/ y = x
          /\ Listed' = Listed \cup {x}
      BY <1>3, <2>1, AppendFacts
    <3>2. mem'[x] = "live" /\ \A y \in Sockets : y # x => mem'[y] = mem[y]
      BY <1>3, <2>1 DEF TypeOK
    <3>3. \A y \in Sockets : mem'[y] = "live" <=> IsListed(y)'
      BY <3>1, <3>2 DEF ListInv
    <3>4. \A y \in Listed' : file'[fd'[y]] = y
      BY <1>3, <2>1, <3>1 DEF ListInv
    <3>5. \A g \in Fds : file'[g] # None => file'[g] \in Listed' \cup nameless
      BY <1>6, <2>1, <3>1
    <3>6. ListInv'
      BY <1>6a, <2>1, <3>1, <3>2, <3>3, <3>4, <3>5 DEF ListInv
    <3>7. FilesInv'
      BY <1>3, <2>1, <3>2 DEF FilesInv
    <3> QED
      BY <2>1, <3>1, <3>2, <3>6, <3>7 DEF TypeOK
  <2>2. CASE /\ Fails /\ UNCHANGED fd_list
             /\ file' = [file EXCEPT ![fd[x]] = None]
             /\ mem' = [mem EXCEPT ![x] = "freed"]
    <3>1. mem'[x] = "freed" /\ \A y \in Sockets : y # x => mem'[y] = mem[y]
      BY <1>3, <2>2 DEF TypeOK
    <3>2. file'[fd[x]] = None /\ \A g \in Fds : g # fd[x] => file'[g] = file[g]
      BY <1>3, <2>2 DEF TypeOK
    <3>3. /\ Listed' = Listed
          /\ \A y : (IsListed(y)' <=> IsListed(y)) /\ (IsListed(y) <=> y \in Listed)
      BY <2>2 DEF Listed, IsListed
    <3>4. \A y \in Sockets : mem'[y] = "live" <=> IsListed(y)'
      BY <1>5, <3>1, <3>3 DEF ListInv
    <3>5. ASSUME NEW y \in Listed PROVE file'[fd[y]] = y
      <4>1. y \in Sockets /\ mem[y] = "live" /\ y # x
        BY <1>5, ListedFacts DEF TypeOK, ListInv
      <4>2. fd[y] \in Fds /\ file[fd[y]] = y
        BY <4>1, LiveFacts
      <4> QED
        BY <4>1, <4>2, <1>3, <3>2
    <3>6. \A g \in Fds : file'[g] # None =>
            file'[g] \in Listed \cup nameless /\ fd[file'[g]] = g
      BY <1>3, <1>6, <3>2
    <3>10. \A y \in nameless : mem'[y] = "none" /\ file'[fd[y]] = y
      <4>1. \A y \in nameless : fd[y] \in Fds /\ fd[y] # fd[x]
        BY <1>3, <1>6a DEF FilesInv
      <4> QED
        BY <1>6a, <3>1, <3>2, <4>1
    <3>7. ListInv'
      BY <2>2, <3>3, <3>4, <3>5, <3>6, <3>10 DEF ListInv
    <3>8. FilesInv'
      BY <1>3, <3>1, <3>6 DEF FilesInv
    <3>9. budget' \in [out : 0..MaxOut, fail : 0..MaxFail]
      BY <2>2, FailsType
    <3> QED
      BY <2>2, <3>1, <3>7, <3>8, <3>9 DEF TypeOK
  <2> QED
    BY <1>1, <2>1, <2>2 DEF SvcInsert
<1>8. TypeOK'
  BY <1>4, <1>7 DEF TypeOK, SvcTypes
<1>9. SetupInv' /\ SvcInv'
  BY <1>4 DEF SetupInv, SvcInv, Serving
<1>10. SendInv' /\ PeerInv' /\ RoutedUnlessTorn'
  <2>1. \A y \in Conns : (mem[y] # "none" => mem'[y] # "none") /\ (y # x => mem'[y] = mem[y])
    BY <1>3, <1>7, SocketFacts
  <2>2. SendInv'
    BY <2>1 DEF SendInv
  <2>3. PeerInv'
    BY <1>3, <2>1 DEF PeerInv
  <2>4. RoutedUnlessTorn'
    BY DEF RoutedUnlessTorn
  <2> QED
    BY <2>2, <2>3, <2>4
<1>11. UntornInv'
  <2> SUFFICES ASSUME ~torn PROVE UntornInv'
    BY DEF UntornInv
  <2>1. SvcHeld'
    BY <1>4 DEF SvcHeld, Serving
  <2>2. SendersHeld'
    BY <1>3, <1>7, SocketFacts DEF UntornInv, SendersHeld, SendInv
  <2>3. ASSUME NEW y \in Conns, mem'[y] # "freed" PROVE StreamInv(y)'
    <3>1. StreamInv(y)
      BY <1>3, <1>7, <2>3, SocketFacts DEF UntornInv, WordsInv
    <3>2. InHand(y) = 0
      BY <1>4, EmptyFacts DEF InHand
    <3> QED
      BY <3>1, <3>2, <1>4, EmptyHandFacts
  <2> QED
    BY <2>1, <2>2, <2>3 DEF UntornInv, WordsInv
<1> QED
  BY <1>7, <1>8, <1>9, <1>10, <1>11

LEMMA SvcInputStep == ASSUME IInv, SvcInput PROVE IInv'
<1>1. CASE mem[svc.ctx] = "freed"
  <2>1. torn /\ Crash
    BY <1>1 DEF SvcInput, IInv, UntornInv, SvcHeld, Serving
  <2> QED
    BY <2>1, CrashStep
<1>2. CASE mem[svc.ctx] # "freed"
  <2>1. PICK x, f : x = svc.ctx /\ f = fd[x]
    OBVIOUS
  <2>2. /\ svc.pc = "input" /\ svc' = [svc EXCEPT !.pc = "recv", !.fd = f]
        /\ UNCHANGED <<listVars, cport, peerVars, inflow, send, ghosts, fault, budget>>
    BY <1>2, <2>1 DEF SvcInput
  <2>3. svc \in SvcTypes /\ svc.got = <<>>
    BY <2>2 DEF IInv, TypeOK, SvcInv, SvcTypes, Serving
  <2>4. x \in Conns /\ mem[x] # "none" /\ f \in Fds
    BY <2>1, <2>2, SocketFacts DEF IInv, SvcInv, FilesInv, Serving
  <2>5. svc' \in SvcTypes /\ svc'.pc = "recv" /\ svc'.ctx = x /\ svc'.fd = f /\ svc'.got = <<>>
    BY <2>1, <2>2, <2>3, <2>4 DEF SvcTypes
  <2> USE <2>2 DEF IInv, listVars, peerVars, ghosts
  <2>6. TypeOK'
    BY <2>5 DEF TypeOK, SvcTypes
  <2>7. ListInv' /\ FilesInv'
    BY FilesStill
  <2>8. SetupInv' /\ SvcInv'
    BY <2>4, <2>5, EmptyFacts DEF SetupInv, SvcInv, Serving, MessageWords
  <2>9. SendInv' /\ PeerInv' /\ RoutedUnlessTorn'
    BY DEF SendInv, PeerInv, RoutedUnlessTorn
  <2>10. UntornInv'
    <3> SUFFICES ASSUME ~torn PROVE UntornInv'
      BY DEF UntornInv
    <3>1. SvcHeld'
      BY <2>1, <2>5 DEF UntornInv, SvcHeld, Serving
    <3>2. SendersHeld'
      BY DEF UntornInv, SendersHeld
    <3>3. ASSUME NEW y \in Conns, mem[y] # "freed" PROVE StreamInv(y)'
      <4>1. StreamInv(y)
        BY <3>3 DEF UntornInv, WordsInv
      <4>2. InHand(y) = 0
        BY <2>3, EmptyFacts DEF InHand
      <4> QED
        BY <4>1, <4>2, <2>5, EmptyHandFacts
    <3> QED
      BY <3>1, <3>2, <3>3 DEF UntornInv, WordsInv
  <2> QED
    BY <2>6, <2>7, <2>8, <2>9, <2>10
<1> QED
  BY <1>1, <1>2

LEMMA SvcRecvEndsStep == ASSUME IInv, SvcRecvEnds PROVE IInv'
<1>1. /\ svc.pc = "recv" /\ svc' = [svc EXCEPT !.pc = "close"]
      /\ UNCHANGED <<listVars, cport, peerVars, inflow, send, ghosts, fault>>
  BY DEF SvcRecvEnds
<1>2. budget' \in [out : 0..MaxOut, fail : 0..MaxFail]
  BY FailsType DEF SvcRecvEnds, IInv, TypeOK
<1>3. svc \in SvcTypes
  BY DEF IInv, TypeOK, SvcTypes
<1>4. /\ svc' \in SvcTypes /\ svc'.pc = "close" /\ svc'.ctx = svc.ctx /\ svc'.got = svc.got
  BY <1>1, <1>3 DEF SvcTypes
<1> USE <1>1 DEF IInv, listVars, peerVars, ghosts
<1>5. TypeOK'
  BY <1>2, <1>4 DEF TypeOK, SvcTypes
<1>6. ListInv' /\ FilesInv'
  BY FilesStill
<1>7. SetupInv' /\ SvcInv'
  BY <1>4 DEF SetupInv, SvcInv, Serving
<1>8. SendInv' /\ PeerInv' /\ RoutedUnlessTorn'
  BY DEF SendInv, PeerInv, RoutedUnlessTorn
<1>9. UntornInv'
  <2> SUFFICES ASSUME ~torn PROVE UntornInv'
    BY DEF UntornInv
  <2>1. SvcHeld' /\ SendersHeld'
    BY <1>4 DEF UntornInv, SvcHeld, SendersHeld, Serving
  <2>2. \A y \in Conns : StreamInv(y)' <=> StreamInv(y)
    BY <1>4 DEF StreamInv, InHand
  <2>3. WordsInv'
    BY <1>4, <2>2 DEF UntornInv, WordsInv
  <2> QED
    BY <2>1, <2>3 DEF UntornInv
<1> QED
  BY <1>5, <1>6, <1>7, <1>8, <1>9

LEMMA HeadTailFacts ==
  ASSUME NEW W, NEW q \in Seq(W), NEW l \in Nat, Len(q) = l + 1
  PROVE  /\ Head(q) \in W /\ Head(q) = q[1]
         /\ Tail(q) \in Seq(W) /\ Len(Tail(q)) = l
         /\ \A i \in 1..l : Tail(q)[i] = q[i + 1]
<1>1. q # <<>> /\ 1 \in 1..Len(q)
  OBVIOUS
<1>2. Head(q) \in W /\ Head(q) = q[1]
  BY <1>1
<1>3. Tail(q) \in Seq(W) /\ Len(Tail(q)) = l
  BY <1>1
<1>4. \A i \in 1..l : Tail(q)[i] = q[i + 1]
  BY <1>1
<1> QED
  BY <1>2, <1>3, <1>4

(* The next word of the connection of the descriptor.                      *)
LEMMA SvcRecvStep == ASSUME IInv, SvcRecv PROVE IInv'
<1>1. PICK x, p : /\ x = file[svc.fd]
                  /\ p = IF Len(Append(svc.got, Head(inflow[x]))) = MessageWords
                           THEN "deliver" ELSE "recv"
  OBVIOUS
<1>2. /\ svc.pc = "recv" /\ x \in Conns /\ inflow[x] # <<>>
      /\ UNCHANGED <<listVars, cport, peerVars, send, ghosts, fault, budget>>
  BY <1>1 DEF SvcRecv
<1>3. /\ inflow' = [inflow EXCEPT ![x] = Tail(inflow[x])]
      /\ svc' = [svc EXCEPT !.got = Append(svc.got, Head(inflow[x])), !.pc = p]
  BY <1>1 DEF SvcRecv
<1>4. /\ svc \in SvcTypes /\ inflow \in [Conns -> Seq(1..2 * MaxIn)]
      /\ svc.ctx \in Conns /\ mem[svc.ctx] # "none" /\ Len(svc.got) < MessageWords
  BY <1>2 DEF IInv, TypeOK, SvcInv, Serving, SvcTypes
<1>5. PICK q \in Seq(1..2 * MaxIn), l \in Nat, w \in 1..2 * MaxIn, t \in Seq(1..2 * MaxIn) :
        /\ q = inflow[x] /\ Len(q) = l + 1 /\ w = Head(q) /\ t = Tail(q)
        /\ w = q[1] /\ Len(t) = l /\ \A i \in 1..l : t[i] = q[i + 1]
  <2>1. PICK q \in Seq(1..2 * MaxIn) : q = inflow[x] /\ q # <<>>
    BY <1>2, <1>4
  <2>2. PICK l \in Nat : Len(q) = l + 1
    <3>1. Len(q) \in Nat /\ Len(q) > 0
      BY <2>1
    <3>2. Len(q) - 1 \in Nat /\ Len(q) = (Len(q) - 1) + 1
      BY <3>1
    <3> QED
      BY <3>2
  <2>3. PICK w, t : w = Head(q) /\ t = Tail(q)
    OBVIOUS
  <2>4. /\ w \in 1..2 * MaxIn /\ t \in Seq(1..2 * MaxIn) /\ w = q[1] /\ Len(t) = l
        /\ \A i \in 1..l : t[i] = q[i + 1]
    BY <2>1, <2>2, <2>3, HeadTailFacts, Zenon
  <2> QED
    BY <2>1, <2>2, <2>3, <2>4, Zenon
<1>6. PICK h \in Nat, g \in Seq(1..2 * MaxIn), u \in Seq(1..2 * MaxIn) :
        /\ g = svc.got /\ Len(g) = h /\ h < MessageWords /\ u = Append(svc.got, w)
        /\ Len(u) = h + 1 /\ u[h + 1] = w /\ \A i \in 1..h : u[i] = g[i]
  <2>1. PICK g \in Seq(1..2 * MaxIn), h \in Nat : g = svc.got /\ Len(g) = h
    BY <1>4 DEF SvcTypes
  <2>2. /\ Append(g, w) \in Seq(1..2 * MaxIn) /\ Len(Append(g, w)) = h + 1
        /\ Append(g, w)[h + 1] = w /\ \A i \in 1..h : Append(g, w)[i] = g[i]
    BY <2>1
  <2> QED
    BY <1>4, <2>1, <2>2, Zenon
<1>7. /\ inflow' = [inflow EXCEPT ![x] = t]
      /\ svc' = [svc EXCEPT !.got = u, !.pc = p]
  BY <1>3, <1>5, <1>6, Zenon
<1>8. p = IF h + 1 = MessageWords THEN "deliver" ELSE "recv"
  BY <1>1, <1>5, <1>6, Zenon
<1>9. /\ svc' \in SvcTypes /\ svc'.pc = p /\ svc'.ctx = svc.ctx /\ svc'.fd = svc.fd
      /\ svc'.got = u
  BY <1>4, <1>7, <1>8 DEF SvcTypes
<1>10. inflow'[x] = t /\ \A y \in Conns : y # x => inflow'[y] = inflow[y]
  BY <1>2, <1>4, <1>7
<1> USE <1>2 DEF IInv, listVars, peerVars, ghosts
<1>11. TypeOK'
  <2>1. inflow' \in [Conns -> Seq(1..2 * MaxIn)]
    BY <1>4, <1>5, <1>7
  <2>2. svc' \in SvcTypes
    BY <1>9
  <2> QED
    BY <2>1, <2>2 DEF TypeOK, SvcTypes
<1>12. ListInv' /\ FilesInv'
  BY FilesStill
<1>13. SetupInv'
  BY <1>8, <1>9 DEF SetupInv
<1>14. SvcInv'
  <2>1. svc.fd \in Fds
    BY DEF SvcInv
  <2> QED
    BY <1>4, <1>6, <1>8, <1>9, <2>1 DEF SvcInv, Serving, MessageWords
<1>15. SendInv' /\ RoutedUnlessTorn'
  BY DEF SendInv, RoutedUnlessTorn
<1>16. PeerInv'
  BY <1>10 DEF PeerInv
<1>17. UntornInv'
  <2> SUFFICES ASSUME ~torn PROVE UntornInv'
    BY DEF UntornInv
  <2>1. SvcHeld'
    BY <1>8, <1>9 DEF UntornInv, SvcHeld, Serving
  <2>2. SendersHeld'
    BY DEF UntornInv, SendersHeld
  <2>3. svc.ctx = x
    <3>1. mem[svc.ctx] = "live" /\ svc.fd = fd[svc.ctx]
      BY DEF UntornInv, SvcHeld, Serving
    <3> QED
      BY <1>1, <1>4, <3>1, LiveFacts, SocketFacts
  <2>4. ASSUME NEW y \in Conns, mem[y] # "freed" PROVE StreamInv(y)'
    <3>1. StreamInv(y)
      BY <2>4 DEF UntornInv, WordsInv
    <3>2. CASE y # x
      BY <1>9, <1>10, <2>3, <3>1, <3>2 DEF StreamInv, InHand
    <3>3. CASE y = x
      <4>1. PICK d \in Nat : d = 2 * Len(delivered[x])
        <5>1. delivered[x] \in Seq(0..MaxIn)
          BY DEF TypeOK
        <5>2. Len(delivered[x]) \in Nat
          BY <5>1
        <5>3. 2 * Len(delivered[x]) \in Nat
          BY <5>2
        <5> QED
          BY <5>3
      <4>2. /\ \A i \in 1..h : g[i] = d + i
            /\ \A i \in 1..l + 1 : q[i] = d + h + i
            /\ peer[x] = "open" => written[x] = d + h + (l + 1)
        BY <1>5, <1>6, <2>3, <3>1, <3>3, <4>1 DEF StreamInv, InHand
      <4>3. \A i \in 1..h + 1 : u[i] = d + i
        <5> SUFFICES ASSUME NEW i \in 1..h + 1 PROVE u[i] = d + i
          OBVIOUS
        <5>1. CASE i = h + 1
          <6>1. 1 \in 1..l + 1 /\ d + h + 1 = d + (h + 1)
            OBVIOUS
          <6>2. q[1] = d + h + 1
            BY <4>2, <6>1
          <6> QED
            BY <1>5, <1>6, <5>1, <6>1, <6>2, Zenon
        <5>2. CASE i # h + 1
          <6>1. i \in 1..h
            BY <5>2
          <6> QED
            BY <1>6, <4>2, <6>1
        <5> QED
          BY <5>1, <5>2
      <4>4. \A i \in 1..l : t[i] = d + (h + 1) + i
        <5> SUFFICES ASSUME NEW i \in 1..l PROVE t[i] = d + (h + 1) + i
          OBVIOUS
        <5>1. i + 1 \in 1..l + 1 /\ d + h + (i + 1) = d + (h + 1) + i
          OBVIOUS
        <5> QED
          BY <1>5, <4>2, <5>1
      <4>5. peer[x] = "open" => written[x] = d + (h + 1) + l
        BY <4>2
      <4>6. InHand(x)' = h + 1
        BY <1>6, <1>9, <2>3 DEF InHand
      <4> QED
        <5>1. svc'.got = u /\ Len(u) = h + 1 /\ inflow'[x] = t /\ Len(t) = l
          BY <1>5, <1>6, <1>9, <1>10
        <5>2. 2 * Len(delivered'[x]) = d
          BY <4>1
        <5>3. peer'[x] = peer[x] /\ written'[x] = written[x]
          OBVIOUS
        <5> QED
          BY <3>3, <4>3, <4>4, <4>5, <4>6, <5>1, <5>2, <5>3, Zenon DEF StreamInv
    <3> QED
      BY <3>2, <3>3
  <2> QED
    BY <2>1, <2>2, <2>4 DEF UntornInv, WordsInv
<1> QED
  BY <1>11, <1>12, <1>13, <1>14, <1>15, <1>16, <1>17

LEMMA ElementType ==
  ASSUME NEW W, NEW q \in Seq(W), NEW i \in 1..Len(q)
  PROVE  q[i] \in W
  OBVIOUS

(* A whole message goes to the core: the next one, unless the context was  *)
(* torn.                                                                   *)
LEMMA NumberFacts ==
  ASSUME TypeOK, NEW x \in Conns, Len(svc.got) = MessageWords
  PROVE  /\ Number(svc.got, x) \in 0..MaxIn
         /\ (\A i \in 1..2 : svc.got[i] = 2 * Len(delivered[x]) + i)
              => Number(svc.got, x) = Len(delivered[x]) + 1
<1>1. PICK n \in Nat, m \in Nat : n = Len(delivered[x]) /\ m = n + 1
  <2>1. delivered[x] \in Seq(0..MaxIn)
    BY DEF TypeOK
  <2> QED
    BY <2>1
<1>2. PICK g \in Seq(1..2 * MaxIn) : g = svc.got /\ Len(g) = 2
  BY DEF TypeOK, MessageWords
<1>3. PICK k : k = Number(g, x)
  OBVIOUS
<1>4. k = IF g = <<2 * m - 1, 2 * m>> THEN m ELSE 0
  BY <1>1, <1>3 DEF Number, None
<1>5. k \in 0..MaxIn
  <2>1. CASE g = <<2 * m - 1, 2 * m>>
    <3>1. g[2] = 2 * m
      BY <2>1
    <3>2. PICK w \in Nat : w = 2 * MaxIn
      BY ConstFacts
    <3>3. PICK e \in Seq(1..w) : e = g /\ Len(e) = 2
      BY <1>2, <3>2
    <3>4. e[2] \in 1..w
      <4>1. 2 \in 1..Len(e)
        BY <3>3
      <4> QED
        BY <4>1, ElementType, Zenon
    <3>5. m <= MaxIn
      BY <3>1, <3>2, <3>3, <3>4, <1>1, ConstFacts
    <3> QED
      BY <1>1, <1>4, <2>1, <3>5, ConstFacts
  <2>2. CASE g # <<2 * m - 1, 2 * m>>
    BY <1>4, <2>2, ConstFacts
  <2> QED
    BY <2>1, <2>2
<1>6. ASSUME \A i \in 1..2 : g[i] = 2 * n + i PROVE k = m
  <2>1. g[1] = 2 * m - 1 /\ g[2] = 2 * m
    BY <1>1, <1>6
  <2>2. g = <<2 * m - 1, 2 * m>>
    <3>1. g = <<g[1], g[2]>>
      BY <1>2
    <3> QED
      BY <2>1, <3>1, Zenon
  <2> QED
    BY <1>4, <2>2
<1> QED
  BY <1>1, <1>2, <1>3, <1>5, <1>6, Zenon

LEMMA SvcDeliverStep == ASSUME IInv, SvcDeliver PROVE IInv'
<1>1. CASE mem[svc.ctx] = "freed"
  <2>1. torn /\ Crash
    BY <1>1 DEF SvcDeliver, IInv, UntornInv, SvcHeld, Serving
  <2> QED
    BY <2>1, CrashStep
<1>2. CASE mem[svc.ctx] # "freed"
  <2>1. PICK x, k : x = svc.ctx /\ k = Number(svc.got, x)
    OBVIOUS
  <2>2. /\ svc.pc = "deliver"
        /\ UNCHANGED <<listVars, cport, peerVars, inflow, send, out, torn, crowded, nameless,
                       fault>>
    BY <1>2, <2>1 DEF SvcDeliver
  <2>3. delivered' = [delivered EXCEPT ![x] = Append(delivered[x], k)]
    BY <1>2, <2>1 DEF SvcDeliver
  <2>4. \/ svc' = Resume /\ UNCHANGED budget
        \/ svc' = [svc EXCEPT !.pc = "close"] /\ Fails
    BY <1>2, <2>1 DEF SvcDeliver
  <2>5. /\ svc \in SvcTypes /\ x \in Conns /\ mem[x] # "none" /\ peer[x] # "none"
        /\ Len(svc.got) = MessageWords
    BY <2>1, <2>2 DEF IInv, TypeOK, SvcInv, PeerInv, Serving, SvcTypes
  <2>6. /\ k \in 0..MaxIn
        /\ (\A i \in 1..2 : svc.got[i] = 2 * Len(delivered[x]) + i) => k = Len(delivered[x]) + 1
    BY <2>1, <2>5, NumberFacts DEF IInv
  <2>7. PICK q \in Seq(0..MaxIn), n \in Nat, t \in Seq(0..MaxIn) :
          /\ q = delivered[x] /\ n = Len(q) /\ DOMAIN q = 1..n
          /\ delivered' = [delivered EXCEPT ![x] = t]
          /\ Len(t) = n + 1 /\ DOMAIN t = 1..n + 1
          /\ \A i \in 1..n : t[i] = q[i]
          /\ t[n + 1] = k
    <3>1. PICK q \in Seq(0..MaxIn), n \in Nat : q = delivered[x] /\ n = Len(q)
      BY <2>5 DEF IInv, TypeOK
    <3>2. /\ Append(q, k) \in Seq(0..MaxIn) /\ Len(Append(q, k)) = n + 1
          /\ DOMAIN Append(q, k) = 1..n + 1 /\ DOMAIN q = 1..n
          /\ \A i \in 1..n : Append(q, k)[i] = q[i]
          /\ Append(q, k)[n + 1] = k
      BY <2>6, <3>1
    <3> QED
      BY <2>3, <3>1, <3>2, Zenon
  <2>8. delivered'[x] = t /\ \A y \in Conns : y # x => delivered'[y] = delivered[y]
    BY <2>5, <2>7 DEF IInv, TypeOK
  <2>9. /\ svc' \in SvcTypes /\ svc'.pc \in {"loop", "close"}
        /\ svc'.pc = "loop" => svc'.got = <<>>
        /\ svc'.pc = "close" => svc'.ctx = x
        /\ svc'.ctx \in {None, x}
        /\ budget' \in [out : 0..MaxOut, fail : 0..MaxFail]
    <3>1. CASE svc' = Resume /\ UNCHANGED budget
      BY <2>5, <3>1, ResumeFacts DEF IInv, TypeOK
    <3>2. CASE svc' = [svc EXCEPT !.pc = "close"] /\ Fails
      <4>1. svc' \in SvcTypes /\ svc'.pc = "close" /\ svc'.ctx = x
        BY <2>1, <2>5, <3>2 DEF SvcTypes
      <4>2. budget' \in [out : 0..MaxOut, fail : 0..MaxFail]
        BY <3>2, FailsType DEF IInv
      <4> QED
        BY <4>1, <4>2
    <3> QED
      BY <2>4, <3>1, <3>2
  <2> USE <2>2 DEF IInv, listVars, peerVars
  <2>10. TypeOK'
    <3>1. delivered' \in [Conns -> Seq(0..MaxIn)]
      BY <2>7 DEF TypeOK
    <3> QED
      BY <2>9, <3>1 DEF TypeOK, SvcTypes
  <2>11. ListInv' /\ FilesInv'
    BY FilesStill
  <2>12. SetupInv' /\ SvcInv'
    BY <2>5, <2>9 DEF SetupInv, SvcInv, Serving
  <2>13. SendInv'
    BY DEF SendInv
  <2>14. PeerInv'
    BY <2>5, <2>8 DEF PeerInv
  <2>15. RoutedUnlessTorn' /\ UntornInv'
    <3> SUFFICES ASSUME ~torn PROVE RoutedUnlessTorn' /\ UntornInv'
      BY DEF RoutedUnlessTorn, UntornInv
    <3>1. mem[x] = "live" /\ StreamInv(x)
      BY <2>1, <2>5 DEF UntornInv, SvcHeld, WordsInv, Serving
    <3>2. \A i \in 1..2 : svc.got[i] = 2 * Len(delivered[x]) + i
      BY <2>1, <2>5, <3>1 DEF StreamInv, MessageWords
    <3>3. k = n + 1
      BY <2>6, <2>7, <3>2
    <3>4. RoutedUnlessTorn'
      <4>1. \A i \in 1..n : q[i] = i
        BY <2>5, <2>7 DEF RoutedUnlessTorn
      <4>2. \A i \in 1..n + 1 : i \in 1..n \/ i = n + 1
        BY <2>7
      <4>3. \A i \in DOMAIN t : t[i] = i
        BY <2>7, <3>3, <4>1, <4>2
      <4> QED
        BY <2>8, <4>3 DEF RoutedUnlessTorn
    <3>5. SvcHeld' /\ SendersHeld'
      BY <2>1, <2>9, <3>1 DEF UntornInv, SvcHeld, SendersHeld, Serving
    <3>6. ASSUME NEW y \in Conns, mem[y] # "freed", ~(svc'.pc = "close" /\ svc'.ctx = y)
          PROVE  StreamInv(y)'
      <4>1. svc'.ctx # y \/ svc'.got = <<>>
        BY <2>9, <3>6
      <4>2. InHand(y)' = 0 /\ (svc'.ctx = y => \A i \in 1..Len(svc'.got) : FALSE)
        BY <4>1, EmptyFacts DEF InHand
      <4>3. StreamInv(y)
        BY <3>6 DEF UntornInv, WordsInv
      <4>4. PICK d \in Nat, l \in Nat : d = Len(delivered[y]) /\ l = Len(inflow[y])
        BY DEF TypeOK
      <4>5. CASE y = x
        <5>1. InHand(x) = 2
          BY <2>1, <2>5 DEF InHand, MessageWords
        <5>2. /\ \A i \in 1..l : inflow[y][i] = 2 * d + 2 + i
              /\ peer[y] = "open" => written[y] = 2 * d + 2 + l
          BY <4>3, <4>4, <4>5, <5>1 DEF StreamInv
        <5>3. d = n /\ Len(delivered'[y]) = d + 1
          BY <2>7, <2>8, <4>4, <4>5
        <5>4. 2 * (d + 1) + 0 = 2 * d + 2
          BY <4>4
        <5>5. /\ \A i \in 1..l : inflow[y][i] = 2 * (d + 1) + 0 + i
              /\ peer[y] = "open" => written[y] = 2 * (d + 1) + 0 + l
          BY <5>2, <5>4
        <5> QED
          BY <4>2, <4>4, <5>3, <5>5 DEF StreamInv
      <4>6. CASE y # x
        <5>1. InHand(y) = 0
          BY <2>1, <4>6 DEF InHand
        <5>2. /\ \A i \in 1..l : inflow[y][i] = 2 * d + 0 + i
              /\ peer[y] = "open" => written[y] = 2 * d + 0 + l
          BY <4>3, <4>4, <5>1 DEF StreamInv
        <5> QED
          BY <2>8, <4>2, <4>4, <4>6, <5>2 DEF StreamInv
      <4> QED
        BY <4>5, <4>6
    <3> QED
      BY <3>4, <3>5, <3>6 DEF UntornInv, WordsInv
  <2> QED
    BY <2>10, <2>11, <2>12, <2>13, <2>14, <2>15
<1> QED
  BY <1>1, <1>2

LEMMA SvcCloseStep == ASSUME IInv, SvcClose PROVE IInv'
<1>1. CASE mem[svc.ctx] = "freed"
  <2>1. torn /\ Crash
    BY <1>1 DEF SvcClose, IInv, UntornInv, SvcHeld, Serving
  <2> QED
    BY <2>1, CrashStep
<1>2. CASE mem[svc.ctx] # "freed"
  <2>1. PICK x : x = svc.ctx
    OBVIOUS
  <2>2. /\ svc.pc = "close" /\ Erase(fd[x]) /\ svc' = Resume
        /\ torn' = (torn \/ SenderUses(x, Senders))
        /\ UNCHANGED <<cport, peerVars, inflow, send, delivered, out, crowded, nameless, fault,
                       budget>>
    BY <1>2, <2>1 DEF SvcClose
  <2>3. svc \in SvcTypes /\ x \in Conns /\ x \in Sockets /\ mem[x] = "live"
    BY <1>2, <2>1, <2>2, SocketFacts DEF IInv, SvcInv, TypeOK, Serving, SvcTypes
  <2>4. /\ ListInv' /\ FilesInv'
        /\ fd' = fd /\ mem' = [mem EXCEPT ![x] = "freed"]
        /\ file' \in [Fds -> Sockets \cup {None}] /\ fd_list' \in Seq(Sockets)
    BY <2>2, <2>3, EraseFacts
  <2>5. mem'[x] = "freed" /\ \A y \in Sockets : y # x => mem'[y] = mem[y]
    BY <2>3, <2>4 DEF IInv, TypeOK
  <2>6. svc' \in SvcTypes /\ svc'.pc = "loop" /\ svc'.got = <<>>
    BY <2>2, <2>3, ResumeFacts
  <2> USE <2>2 DEF IInv, peerVars
  <2>7. TypeOK'
    <3>1. mem' \in [Sockets -> {"none", "live", "freed"}]
      BY <2>4 DEF TypeOK
    <3>2. torn' \in BOOLEAN
      BY Zenon DEF TypeOK, SenderUses
    <3> QED
      BY <2>4, <2>6, <3>1, <3>2 DEF TypeOK, SvcTypes
  <2>8. SetupInv' /\ SvcInv'
    BY <2>6 DEF SetupInv, SvcInv, Serving
  <2>9. SendInv' /\ PeerInv'
    BY <2>3, <2>5, SocketFacts DEF SendInv, PeerInv
  <2>10. RoutedUnlessTorn'
    BY DEF RoutedUnlessTorn
  <2>11. UntornInv'
    <3> SUFFICES ASSUME ~torn' PROVE UntornInv'
      BY DEF UntornInv
    <3>1. ~torn /\ \A t \in Senders : send[t].ctx # x
      BY DEF SenderUses
    <3>2. SvcHeld'
      BY <2>6 DEF SvcHeld, Serving
    <3>3. SendersHeld'
      BY <2>4, <2>5, <3>1, SocketFacts DEF UntornInv, SendersHeld, SendInv
    <3>4. ASSUME NEW y \in Conns, mem'[y] # "freed" PROVE StreamInv(y)'
      <4>1. y # x /\ mem[y] # "freed"
        BY <2>5, <3>4, SocketFacts
      <4>2. StreamInv(y)
        BY <2>1, <3>1, <4>1 DEF UntornInv, WordsInv
      <4>3. InHand(y) = 0
        BY <2>1, <4>1 DEF InHand
      <4> QED
        BY <4>2, <4>3, <2>6, EmptyHandFacts
    <3> QED
      BY <3>2, <3>3, <3>4 DEF UntornInv, WordsInv
  <2> QED
    BY <2>4, <2>7, <2>8, <2>9, <2>10, <2>11
<1> QED
  BY <1>1, <1>2

(* All contexts are erased: what is open is without one for good.          *)
LEMMA SvcClearStep == ASSUME IInv, SvcClear PROVE IInv'
<1>1. /\ svc.pc = "clear" /\ fd_list' = <<>> /\ svc' = SvcAt("off")
      /\ torn' = (torn \/ \E x \in Listed : SenderUses(x, Senders))
      /\ UNCHANGED <<fd, cport, peerVars, inflow, send, delivered, out, crowded, nameless, fault,
                       budget>>
  BY DEF SvcClear
<1>2. file' = [f \in Fds |-> IF file[f] \in Listed THEN None ELSE file[f]]
  BY DEF SvcClear
<1>3. mem' = [x \in Sockets |-> IF IsListed(x) THEN "freed" ELSE mem[x]]
  BY DEF SvcClear
<1>4. svc' \in SvcTypes /\ svc'.pc = "off" /\ svc'.ctx = None /\ svc'.got = <<>> /\ svc.got = <<>>
  BY <1>1, SvcAtFacts DEF IInv, SvcInv, Serving
<1>5. PICK e \in Seq(Sockets) : e = <<>> /\ DOMAIN e = {}
  <2>1. <<>> \in Seq(Sockets) /\ DOMAIN <<>> = {}
    BY EmptyFacts DEF Fds
  <2> QED
    BY <2>1, Zenon
<1>6. Listed' = {} /\ \A y : ~IsListed(y)'
  <2>1. fd_list' = e
    BY <1>1, <1>5
  <2> QED
    BY <1>5, <2>1 DEF Listed, IsListed
<1>7. /\ \A f \in Fds : file'[f] # None => file'[f] = file[f] /\ file[f] \in nameless
      /\ \A x \in nameless : mem'[x] = "none" /\ file'[fd[x]] = x
  <2>1. \A f \in Fds : file'[f] # None => file'[f] = file[f] /\ file[f] \in nameless
    BY <1>1, <1>2 DEF IInv, ListInv
  <2>2. ASSUME NEW x \in nameless PROVE mem'[x] = "none" /\ file'[fd[x]] = x
    <3>1. x \in Sockets /\ mem[x] = "none" /\ file[fd[x]] = x /\ fd[x] \in Fds
      BY <2>2, SocketFacts DEF IInv, TypeOK, ListInv, FilesInv
    <3>2. ~IsListed(x)
      BY <3>1 DEF IInv, ListInv
    <3>3. x \notin Listed
      BY <3>2, ListedFacts DEF IInv, TypeOK
    <3> QED
      BY <1>2, <1>3, <3>1, <3>2, <3>3
  <2> QED
    BY <2>1, <2>2
<1>8. /\ \A x \in Sockets : mem'[x] # "live"
      /\ \A x \in Sockets : mem'[x] # "none" => mem[x] # "none"
      /\ \A x \in Sockets : mem[x] # "none" => mem'[x] # "none"
      /\ \A x \in Sockets : mem'[x] # "freed" => mem[x] # "freed"
  BY <1>3 DEF IInv, ListInv
<1> USE <1>1 DEF IInv, peerVars
<1>9. TypeOK'
  <2>1. file' \in [Fds -> Sockets \cup {None}]
    BY <1>2 DEF TypeOK
  <2>2. mem' \in [Sockets -> {"none", "live", "freed"}]
    BY <1>3 DEF TypeOK
  <2>3. torn' \in BOOLEAN
    BY Zenon DEF TypeOK, SenderUses
  <2>4. fd_list' \in Seq(Sockets)
    BY <1>5
  <2> QED
    BY <1>4, <2>1, <2>2, <2>3, <2>4 DEF TypeOK, SvcTypes
<1>10. ListInv'
  <2>1. DOMAIN fd_list' = {}
    BY <1>5
  <2> QED
    BY <1>6, <1>7, <1>8, <2>1 DEF ListInv
<1>11. FilesInv'
  BY <1>7, <1>8 DEF FilesInv
<1>12. SetupInv' /\ SvcInv'
  BY <1>4 DEF SetupInv, SvcInv, Serving
<1>13. SendInv' /\ PeerInv'
  BY <1>8, SocketFacts DEF SendInv, PeerInv
<1>14. RoutedUnlessTorn'
  BY DEF RoutedUnlessTorn
<1>15. UntornInv'
  <2> SUFFICES ASSUME ~torn' PROVE UntornInv'
    BY DEF UntornInv
  <2>1. ~torn /\ \A x \in Listed, t \in Senders : send[t].ctx # x
    BY DEF SenderUses
  <2>2. \A s \in Senders : send[s].pc = "idle"
    <3> SUFFICES ASSUME NEW s \in Senders, send[s].pc # "idle" PROVE FALSE
      OBVIOUS
    <3>1. mem[send[s].ctx] = "live" /\ send[s].ctx \in Conns
      BY <2>1 DEF UntornInv, SendersHeld, SendInv
    <3>2. send[s].ctx \in Listed
      BY <3>1, LiveFacts, SocketFacts
    <3> QED
      BY <2>1, <3>2
  <2>3. SvcHeld' /\ SendersHeld'
    BY <1>4, <2>2 DEF SvcHeld, SendersHeld, Serving
  <2>4. ASSUME NEW y \in Conns, mem'[y] # "freed" PROVE StreamInv(y)'
    <3>1. StreamInv(y)
      BY <1>8, <2>1, <2>4, SocketFacts DEF UntornInv, WordsInv
    <3>2. InHand(y) = 0
      BY <1>4, EmptyFacts DEF InHand
    <3> QED
      BY <3>1, <3>2, <1>4, EmptyHandFacts
  <2> QED
    BY <2>3, <2>4 DEF UntornInv, WordsInv
<1> QED
  BY <1>9, <1>10, <1>11, <1>12, <1>13, <1>14, <1>15

-----------------------------------------------------------------------------
(* The invariant holds at first, and every step keeps it.                  *)

LEMMA InitStep == ASSUME Init PROVE IInv
<1>1. PICK a, b, c, d :
        /\ a \in Seq(Sockets) /\ b \in Seq(1..2 * MaxIn) /\ c \in Seq(0..MaxIn)
        /\ d \in Seq(CPorts) /\ a = <<>> /\ b = <<>> /\ c = <<>> /\ d = <<>>
  <2>1. \A S : <<>> \in Seq(S)
    OBVIOUS
  <2> QED
    BY <2>1, Zenon
<1>2. Len(<<>>) = 0 /\ DOMAIN <<>> = {}
  BY EmptyFacts
<1>3. svc = [pc |-> "setup", todo |-> a, ready |-> {}, ctx |-> None, fd |-> None, got |-> b]
  BY <1>1 DEF Init, SvcAt
<1>4. /\ fd_list = a /\ inflow = [x \in Conns |-> b] /\ delivered = [x \in Conns |-> c]
      /\ out = [x \in Conns |-> d]
  BY <1>1 DEF Init
<1>5. \A s \in Senders : send[s] = SendIdle
  BY DEF Init
<1>6. TypeOK
  <2>1. svc \in SvcTypes
    BY <1>1, <1>3 DEF SvcTypes, Fds
  <2>2. send \in [Senders -> SendTypes]
    BY IdleFacts DEF Init
  <2>3. budget \in [out : 0..MaxOut, fail : 0..MaxFail]
    BY ConstFacts DEF Init
  <2>4. /\ file \in [Fds -> Sockets \cup {None}]
        /\ fd \in [Sockets -> Fds \cup {None}]
        /\ mem \in [Sockets -> {"none", "live", "freed"}]
        /\ cport \in [Sockets -> CPorts \cup {None}]
        /\ peer \in [Conns -> {"none", "open", "fin", "reset"}]
    BY DEF Init
  <2>5. written \in [Conns -> 0..2 * MaxIn]
    BY ConstFacts DEF Init
  <2>6. /\ fd_list \in Seq(Sockets) /\ inflow \in [Conns -> Seq(1..2 * MaxIn)]
        /\ delivered \in [Conns -> Seq(0..MaxIn)] /\ out \in [Conns -> Seq(CPorts)]
    BY <1>1, <1>4
  <2>7. /\ torn \in BOOLEAN /\ crowded \in BOOLEAN /\ nameless \subseteq Conns
        /\ fault \in {"none", "freed"}
    BY DEF Init
  <2> QED
    BY <2>1, <2>2, <2>3, <2>4, <2>5, <2>6, <2>7 DEF TypeOK, SvcTypes, SendTypes
<1>7. Listed = {} /\ \A y : ~IsListed(y)
  BY <1>1, <1>2, <1>4 DEF Listed, IsListed
<1>8. ListInv /\ FilesInv
  <2>1. DOMAIN fd_list = {}
    BY <1>1, <1>2, <1>4
  <2>2. /\ \A f \in Fds : file[f] = None
        /\ \A x \in Sockets : mem[x] = "none" /\ x \notin nameless
        /\ nameless = {}
    BY DEF Init
  <2> QED
    BY <1>7, <2>1, <2>2 DEF ListInv, FilesInv
<1>9. SetupInv
  <2>1. Len(fd_list) = 0
    BY <1>1, <1>2, <1>4
  <2> QED
    BY <1>5, <2>1, ConstFacts, IdleFacts DEF SetupInv
<1>10. SvcInv
  BY <1>1, <1>3 DEF SvcInv, Serving
<1>11. SendInv
  BY <1>5, IdleFacts DEF SendInv
<1>12. PeerInv
  <2>1. \A x \in Conns : mem[x] = "none" /\ peer[x] = "none" /\ written[x] = 0
                         /\ x \notin nameless
    BY SocketFacts DEF Init
  <2>2. \A x \in Conns : inflow[x] = <<>> /\ delivered[x] = <<>> /\ out[x] = <<>>
    BY <1>1, <1>4
  <2> QED
    BY <2>1, <2>2 DEF PeerInv
<1>13. RoutedUnlessTorn
  <2>1. fault = "none"
    BY DEF Init
  <2>2. \A x \in Conns : out[x] = d /\ delivered[x] = c
    BY <1>4
  <2> QED
    BY <1>1, <1>2, <2>1, <2>2 DEF RoutedUnlessTorn
<1>14. UntornInv
  <2>1. SvcHeld /\ SendersHeld
    BY <1>3, <1>5, IdleFacts DEF SvcHeld, SendersHeld, Serving
  <2>2. ASSUME NEW x \in Conns PROVE StreamInv(x)
    <3>1. svc.got = b /\ inflow[x] = b /\ delivered[x] = c /\ peer[x] = "none"
      BY <1>3, <1>4 DEF Init
    <3>2. Len(b) = 0 /\ Len(c) = 0
      BY <1>1, <1>2
    <3> QED
      BY <3>1, <3>2 DEF StreamInv
  <2> QED
    BY <2>1, <2>2 DEF UntornInv, WordsInv
<1> QED
  BY <1>6, <1>8, <1>9, <1>10, <1>11, <1>12, <1>13, <1>14 DEF IInv

LEMMA NextStep == ASSUME IInv, [Next]_vars PROVE IInv'
<1>1. CASE UNCHANGED vars
  <2> USE <1>1 DEF vars, listVars, peerVars, ghosts, IInv
  <2>1. TypeOK'
    BY DEF TypeOK
  <2>2. ListInv' /\ FilesInv'
    BY FilesStill
  <2>3. SetupInv' /\ SvcInv' /\ SendInv' /\ PeerInv' /\ RoutedUnlessTorn'
    BY DEF SetupInv, SvcInv, SendInv, PeerInv, RoutedUnlessTorn
  <2>4. UntornInv'
    BY WordsStill DEF UntornInv, SvcHeld, SendersHeld
  <2> QED
    BY <2>1, <2>2, <2>3, <2>4
<1>2. CASE Peers
  BY <1>2, PeerConnectsStep, PeerWritesStep, PeerClosesStep DEF Peers
<1>3. CASE Service
  <2>1. CASE Setup \/ SetupFails \/ SetupDone
    BY <2>1, SetupStep, SetupFailsStep, SetupDoneStep
  <2>2. CASE SvcPrepare \/ SvcPoll \/ SvcLoop \/ SvcAccept \/ SvcInsert
    BY <2>2, SvcPrepareStep, SvcPollStep, SvcLoopStep, SvcAcceptStep, SvcInsertStep
  <2>3. CASE SvcInput \/ SvcRecv \/ SvcRecvEnds \/ SvcDeliver \/ SvcClose \/ SvcClear
    BY <2>3, SvcInputStep, SvcRecvStep, SvcRecvEndsStep, SvcDeliverStep, SvcCloseStep,
       SvcClearStep
  <2> QED
    BY <1>3, <2>1, <2>2, <2>3 DEF Service
<1>4. ASSUME NEW s \in Senders, Sending(s) PROVE IInv'
  BY <1>4, SendFdStep, SendWriteStep, SendFailsStep, SendEraseStep DEF Sending
<1>5. ASSUME NEW s \in Senders, NEW c \in CPorts, SendFind(s, c) PROVE IInv'
  BY <1>5, SendFindStep
<1> QED
  BY <1>1, <1>2, <1>3, <1>4, <1>5 DEF Next

THEOREM Inductive == Spec => []IInv
<1>1. Init => IInv
  BY InitStep
<1>2. IInv /\ [Next]_vars => IInv'
  BY NextStep
<1> QED
  BY <1>1, <1>2, PTL DEF Spec

(* The list of contexts, their memory and the descriptors agree, whoever   *)
(* erases a context and whichever descriptor accept gives out again: one   *)
(* descriptor may be open without a context because it is being inserted,  *)
(* and the only ones that leak, for good, are those of connections whose   *)
(* address inet_ntop could not format (fd_context_insert,                  *)
(* fd_context_erase, fd_context_clear, accept_new_connection:              *)
(* transport-tcpip.c:149-258, 329-338).                                    *)
THEOREM ListCorrect == Spec => []ListMatchesFiles
<1>1. IInv => ListMatchesFiles
  BY DEF IInv, ListInv, ListMatchesFiles
<1> QED
  BY <1>1, Inductive, PTL

(* As long as no context was erased in the hands of another thread, each   *)
(* message sent goes to a connection of its cport, and the core gets the   *)
(* messages of a connection whole and in order                             *)
(* (transport-tcpip.c:344-377, 451, 481-559, 626-635).                     *)
THEOREM RoutedCorrect == Spec => []RoutedUnlessTorn
<1>1. IInv => RoutedUnlessTorn
  BY DEF IInv
<1> QED
  BY <1>1, Inductive, PTL
=============================================================================
