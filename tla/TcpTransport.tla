---------------------------- MODULE TcpTransport -----------------------------
(***************************************************************************)
(* The transport of platform/transport-tcpip.c: a listening socket for     *)
(* each cport and a socket for each connection, kept in fd_list.           *)
(*                                                                         *)
(* One service thread polls all of them, accepts connections and reads     *)
(* messages, blocking until a message is whole.  Any thread that sends     *)
(* looks the connection of its cport up in fd_list.  fd_list_mutex guards  *)
(* each operation on the list, but not the context a look-up returns: an   *)
(* erase closes its descriptor, which accept gives out again, and frees it.*)
(*                                                                         *)
(* A context is named by its socket: the cport of a listening one, the     *)
(* connection of an accepted one.  A message arrives in two words and is   *)
(* sent in one: a send cut short ends in an erase, as a failed one does.   *)
(***************************************************************************)
EXTENDS Integers, FiniteSets, Sequences

CONSTANTS
  NumCPorts, (* num_cports                                                 *)
  MaxConn,   (* bound: connections the peers open                          *)
  PollMax,   (* CONFIG_NET_SOCKETS_POLL_MAX                                *)
  Senders,   (* the threads that call gb_xport_send                        *)
  MaxIn,     (* bound: messages a peer sends on a connection               *)
  MaxOut,    (* bound: messages sent                                       *)
  MaxFail    (* bound: calls that fail                                     *)

ASSUME TcpAssumption ==
  /\ {NumCPorts, PollMax} \subseteq Nat \ {0}
  /\ {MaxConn, MaxIn, MaxOut, MaxFail} \subseteq Nat

CPorts == 1..NumCPorts
Conns == NumCPorts + 1..NumCPorts + MaxConn
Sockets == CPorts \cup Conns
Fds == Sockets    (* as many as sockets: calls fail through MaxFail        *)
None == 0

VARIABLES
  file,      (* the socket a descriptor refers to, or None                 *)
  fd_list,   (* the contexts, in the order they were appended              *)
  fd,        (* the descriptor a socket was given, kept in ctx->fd         *)
  mem,       (* "none", "live" or "freed": the memory of a context         *)
  cport,     (* ctx->cport                                                 *)
  peer,      (* "none", "open", "fin" or "reset": the other end            *)
  written,   (* how many words the peer sent                               *)
  inflow,    (* the words that wait in a connection                        *)
  svc,       (* where the service thread is                                *)
  send,      (* where each sender is                                       *)
  delivered, (* ghost: messages handed on; None is none the peer sent      *)
  out,       (* ghost: the cports whose messages were written to it        *)
  torn,      (* ghost: a context was erased while another thread used it   *)
  crowded,   (* ghost: fd_list did not fit the array of poll               *)
  nameless,  (* ghost: connections whose address could not be formatted    *)
  fault,     (* "none" or "freed": the access that crashed                 *)
  budget     (* ghost: what is left of the bounds                          *)

listVars == <<file, fd_list, fd, mem>>
peerVars == <<peer, written>>
ghosts == <<delivered, out, torn, crowded, nameless>>
vars == <<listVars, cport, peerVars, inflow, svc, send, ghosts, fault, budget>>

SvcAt(pc) ==
  [pc |-> pc, todo |-> <<>>, ready |-> {}, ctx |-> None, fd |-> None, got |-> <<>>]
SendIdle == [pc |-> "idle", cport |-> None, ctx |-> None, fd |-> None]

Init ==
  /\ file = [f \in Fds |-> None]
  /\ fd_list = <<>>
  /\ fd = [x \in Sockets |-> None]
  /\ mem = [x \in Sockets |-> "none"]
  /\ cport = [x \in Sockets |-> None]
  /\ peer = [x \in Conns |-> "none"]
  /\ written = [x \in Conns |-> 0]
  /\ inflow = [x \in Conns |-> <<>>]
  /\ svc = SvcAt("setup")
  /\ send = [s \in Senders |-> SendIdle]
  /\ delivered = [x \in Conns |-> <<>>]
  /\ out = [x \in Conns |-> <<>>]
  /\ torn = FALSE
  /\ crowded = FALSE
  /\ nameless = {}
  /\ fault = "none"
  /\ budget = [out |-> MaxOut, fail |-> MaxFail]

Fails == budget.fail > 0 /\ budget' = [budget EXCEPT !.fail = @ - 1]

-----------------------------------------------------------------------------
(* fd_list and the descriptors.                                            *)

IsListed(x) == \E i \in DOMAIN fd_list : fd_list[i] = x
Listed == {fd_list[i] : i \in DOMAIN fd_list}

FreeFds == {f \in Fds : file[f] = None}
LowestFree == CHOOSE f \in FreeFds : \A g \in FreeFds : f <= g

(* The first context of the list that is in S, or None.                    *)
First(S) ==
  LET found == {i \in DOMAIN fd_list : fd_list[i] \in S}
  IN  IF found = {} THEN None
      ELSE fd_list[CHOOSE i \in found : \A j \in found : i <= j]

(* fd_to_context, and the context of a connection of cport c; and as if    *)
(* any connection would do.                                                *)
WithFd(f) == First({x \in Sockets : fd[x] = f})
AnyClient(c) == First(Conns)
Client(c) == First({x \in Conns : cport[x] = c})

(* The list without a context that is erased.                              *)
Place(x) == CHOOSE i \in DOMAIN fd_list : fd_list[i] = x
Without(x) ==
  [i \in 1..Len(fd_list) - 1 |-> IF i < Place(x) THEN fd_list[i] ELSE fd_list[i + 1]]

(* fd_context_erase: the context of descriptor f, if any, leaves the list, *)
(* its descriptor is closed and its memory freed; and as if the descriptor *)
(* stayed open.                                                            *)
StaysOpen(f) == file
Closed(f) == [file EXCEPT ![f] = None]

Erase(f) ==
  LET x == WithFd(f)
  IN  IF x = None THEN UNCHANGED listVars
      ELSE /\ fd_list' = Without(x)
           /\ file' = Closed(f)
           /\ mem' = [mem EXCEPT ![x] = "freed"]
           /\ UNCHANGED fd

(* Whether one of these senders, or the service thread, uses context x.    *)
SenderUses(x, senders) == \E t \in senders : send[t].ctx = x
ServiceUses(x) ==
  \/ svc.ctx = x
  \/ fd[x] \in svc.ready

-----------------------------------------------------------------------------
(* gb_transport_backend_init.                                              *)

(* netsetup: the next cport gets its listening socket ...                  *)
Setup ==
  LET c == Len(fd_list) + 1
      f == LowestFree
  IN  /\ svc.pc = "setup"
      /\ c <= NumCPorts
      /\ file' = [file EXCEPT ![f] = c]
      /\ fd' = [fd EXCEPT ![c] = f]
      /\ cport' = [cport EXCEPT ![c] = c]
      /\ mem' = [mem EXCEPT ![c] = "live"]
      /\ fd_list' = Append(fd_list, c)
      /\ UNCHANGED <<peerVars, inflow, svc, send, ghosts, fault, budget>>

(* ... or a call fails, and all is undone.                                 *)
SetupFails ==
  /\ svc.pc = "setup"
  /\ Len(fd_list) < NumCPorts
  /\ Fails
  /\ svc' = SvcAt("clear")
  /\ UNCHANGED <<listVars, cport, peerVars, inflow, send, ghosts, fault>>

(* The service thread is created, or not, and all is undone.               *)
SetupDone ==
  /\ svc.pc = "setup"
  /\ Len(fd_list) = NumCPorts
  /\ \/ svc' = SvcAt("prepare") /\ UNCHANGED budget
     \/ svc' = SvcAt("clear") /\ Fails
  /\ UNCHANGED <<listVars, cport, peerVars, inflow, send, ghosts, fault>>

-----------------------------------------------------------------------------
(* The peers.                                                              *)

(* A connection to the socket that listens for c waits to be accepted.     *)
PeerConnects(x, c) ==
  /\ peer[x] = "none"
  /\ \A y \in Conns : y < x => peer[y] # "none"
  /\ IsListed(c) /\ svc.pc # "setup"
  /\ peer' = [peer EXCEPT ![x] = "open"]
  /\ cport' = [cport EXCEPT ![x] = c]
  /\ UNCHANGED <<listVars, written, inflow, svc, send, ghosts, fault, budget>>

(* Words 2n - 1 and 2n are message n.                                      *)
PeerWrites(x) ==
  /\ peer[x] = "open"
  /\ written[x] < 2 * MaxIn
  /\ written' = [written EXCEPT ![x] = @ + 1]
  /\ inflow' = [inflow EXCEPT ![x] = Append(@, written[x] + 1)]
  /\ UNCHANGED <<listVars, cport, peer, svc, send, ghosts, fault, budget>>

PeerFinishes(x) == written[x] % 2 = 1 /\ PeerWrites(x)

PeerCloses(x) ==
  /\ peer[x] = "open"
  /\ \/ peer' = [peer EXCEPT ![x] = "fin"] /\ UNCHANGED inflow
     \/ /\ peer' = [peer EXCEPT ![x] = "reset"]
        /\ inflow' = [inflow EXCEPT ![x] = <<>>]
  /\ UNCHANGED <<listVars, cport, written, svc, send, ghosts, fault, budget>>

-----------------------------------------------------------------------------
(* service_thread.                                                         *)

(* prepare_pollfds: the descriptors to poll, or the end of the thread.     *)
SvcPrepare ==
  /\ svc.pc = "prepare"
  /\ IF Len(fd_list) \in 1..PollMax
       THEN /\ svc' = [SvcAt("poll") EXCEPT
                         !.todo = [i \in DOMAIN fd_list |-> fd[fd_list[i]]],
                         !.ready = {fd[x] : x \in Listed}]
            /\ UNCHANGED crowded
       ELSE svc' = SvcAt("clear") /\ crowded' = TRUE
  /\ UNCHANGED <<listVars, cport, peerVars, inflow, send, delivered, out, torn, nameless,
                 fault, budget>>

Backlog(c) == {x \in Conns : peer[x] # "none" /\ fd[x] = None /\ cport[x] = c}

(* POLLIN of a descriptor, and as if only those that listen were polled.   *)
Pending(f) == file[f] \in CPorts /\ Backlog(file[f]) # {}
Readable(f) ==
  LET x == file[f]
  IN  \/ x \in CPorts /\ Backlog(x) # {}
      \/ x \in Conns /\ (inflow[x] # <<>> \/ peer[x] # "open")

(* poll returns with those that are readable; one that was closed wakes it *)
(* as well.  When it fails the thread ends.                                *)
SvcPoll ==
  /\ svc.pc = "poll"
  /\ \/ /\ \E f \in svc.ready : Readable(f) \/ file[f] = None
        /\ svc' = [svc EXCEPT !.pc = "loop", !.ready = {f \in @ : Readable(f)}]
        /\ UNCHANGED budget
     \/ svc' = SvcAt("clear") /\ Fails
  /\ UNCHANGED <<listVars, cport, peerVars, inflow, send, ghosts, fault>>

(* The next one is passed over, or its context is looked up, as long as    *)
(* one is left that is ready.                                              *)
SvcLoop ==
  /\ svc.pc = "loop"
  /\ \/ svc.ready = {} /\ svc' = SvcAt("prepare")
     \/ /\ svc.ready # {} /\ svc.todo # <<>>
        /\ LET f == Head(svc.todo)
               x == IF f \in svc.ready THEN WithFd(f) ELSE None
           IN  svc' = [svc EXCEPT !.todo = Tail(@), !.ready = @ \ {f}, !.ctx = x,
                         !.pc = IF x = None THEN "loop"
                                ELSE IF x \in CPorts THEN "accept" ELSE "input"]
  /\ UNCHANGED <<listVars, cport, peerVars, inflow, send, ghosts, fault, budget>>

Resume == [svc EXCEPT !.pc = "loop", !.ctx = None, !.fd = None, !.got = <<>>]

(* accept_new_connection: accept fails, or a connection leaves the backlog *)
(* with a descriptor.  If inet_ntop cannot format its address, that is     *)
(* all: the descriptor is not closed and gets no context.                  *)
SvcAccept ==
  /\ svc.pc = "accept"
  /\ \/ svc' = Resume /\ Fails /\ UNCHANGED <<file, fd, nameless>>
     \/ \E x \in Backlog(svc.ctx) :
          /\ file' = [file EXCEPT ![LowestFree] = x]
          /\ fd' = [fd EXCEPT ![x] = LowestFree]
          /\ \/ /\ svc' = [svc EXCEPT !.pc = "insert", !.ctx = x]
                /\ UNCHANGED <<nameless, budget>>
             \/ /\ svc' = Resume /\ Fails
                /\ nameless' = nameless \cup {x}
  /\ UNCHANGED <<fd_list, mem, cport, peerVars, inflow, send, delivered, out, torn,
                 crowded, fault>>

(* It gets a context, or is closed.                                        *)
SvcInsert ==
  LET x == svc.ctx
  IN  /\ svc.pc = "insert"
      /\ \/ /\ fd_list' = Append(fd_list, x)
            /\ mem' = [mem EXCEPT ![x] = "live"]
            /\ UNCHANGED <<file, budget>>
         \/ /\ Fails
            /\ file' = [file EXCEPT ![fd[x]] = None]
            /\ mem' = [mem EXCEPT ![x] = "freed"]
            /\ UNCHANGED fd_list
      /\ svc' = Resume
      /\ UNCHANGED <<fd, cport, peerVars, inflow, send, ghosts, fault>>

Crash ==
  /\ fault' = "freed"
  /\ UNCHANGED <<listVars, cport, peerVars, inflow, svc, send, ghosts, budget>>

(* handle_client_input reads the descriptor from the context, ...          *)
SvcInput ==
  /\ svc.pc = "input"
  /\ IF mem[svc.ctx] = "freed" THEN Crash
     ELSE /\ svc' = [svc EXCEPT !.pc = "recv", !.fd = fd[svc.ctx]]
          /\ UNCHANGED <<listVars, cport, peerVars, inflow, send, ghosts, fault, budget>>

(* ... getMessage receives from it until the message is whole, ...         *)
MessageWords == 2

SvcRecv ==
  LET x == file[svc.fd]
      got == Append(svc.got, Head(inflow[x]))
  IN  /\ svc.pc = "recv"
      /\ x \in Conns
      /\ inflow[x] # <<>>
      /\ inflow' = [inflow EXCEPT ![x] = Tail(@)]
      /\ svc' = [svc EXCEPT !.got = got,
                            !.pc = IF Len(got) = MessageWords THEN "deliver" ELSE "recv"]
      /\ UNCHANGED <<listVars, cport, peerVars, send, ghosts, fault, budget>>

(* ... the connection is at its end or broken, a size is invalid or memory *)
(* short, ...                                                              *)
SvcRecvEnds ==
  LET x == file[svc.fd]
  IN  /\ svc.pc = "recv"
      /\ \/ Fails
         \/ /\ x \in Conns => inflow[x] = <<>> /\ peer[x] # "open"
            /\ UNCHANGED budget
      /\ svc' = [svc EXCEPT !.pc = "close"]
      /\ UNCHANGED <<listVars, cport, peerVars, inflow, send, ghosts, fault>>

(* ... and greybus_rx_handler gets the message with the cport of the       *)
(* context; when it refuses one, the connection is closed.                 *)
Number(got, x) ==
  LET n == Len(delivered[x]) + 1 IN IF got = <<2 * n - 1, 2 * n>> THEN n ELSE None

SvcDeliver ==
  LET x == svc.ctx
  IN  /\ svc.pc = "deliver"
      /\ IF mem[x] = "freed" THEN Crash
         ELSE /\ \/ svc' = Resume /\ UNCHANGED budget
                 \/ svc' = [svc EXCEPT !.pc = "close"] /\ Fails
              /\ delivered' = [delivered EXCEPT ![x] = Append(@, Number(svc.got, x))]
              /\ UNCHANGED <<listVars, cport, peerVars, inflow, send, out, torn, crowded, nameless,
                             fault>>

(* What a closed connection's context is erased by.                        *)
SvcClose ==
  LET x == svc.ctx
  IN  /\ svc.pc = "close"
      /\ IF mem[x] = "freed" THEN Crash
         ELSE /\ Erase(fd[x])
              /\ torn' = (torn \/ SenderUses(x, Senders))
              /\ svc' = Resume
              /\ UNCHANGED <<cport, peerVars, inflow, send, delivered, out, crowded, nameless,
                             fault, budget>>

(* fd_context_clear                                                        *)
SvcClear ==
  /\ svc.pc = "clear"
  /\ fd_list' = <<>>
  /\ file' = [f \in Fds |-> IF file[f] \in Listed THEN None ELSE file[f]]
  /\ mem' = [x \in Sockets |-> IF IsListed(x) THEN "freed" ELSE mem[x]]
  /\ torn' = (torn \/ \E x \in Listed : SenderUses(x, Senders))
  /\ svc' = SvcAt("off")
  /\ UNCHANGED <<fd, cport, peerVars, inflow, send, delivered, out, crowded, nameless,
                 fault, budget>>

-----------------------------------------------------------------------------
(* gb_xport_send.                                                          *)

(* The context of the cport's connection, without a lock from here on, ... *)
SendFind(s, c) ==
  /\ send[s] = SendIdle
  /\ budget.out > 0
  /\ Client(c) # None
  /\ budget' = [budget EXCEPT !.out = @ - 1]
  /\ send' = [send EXCEPT ![s] =
                 [pc |-> "fd", cport |-> c, ctx |-> Client(c), fd |-> None]]
  /\ UNCHANGED <<listVars, cport, peerVars, inflow, svc, ghosts, fault>>

(* ... its descriptor, ...                                                 *)
SendFd(s) ==
  /\ send[s].pc = "fd"
  /\ IF mem[send[s].ctx] = "freed" THEN Crash
     ELSE /\ send' = [send EXCEPT ![s].pc = "write", ![s].fd = fd[send[s].ctx]]
          /\ UNCHANGED <<listVars, cport, peerVars, inflow, svc, ghosts, fault, budget>>

(* ... the message, ...                                                    *)
SendWrite(s) ==
  LET x == file[send[s].fd]
  IN  /\ send[s].pc = "write"
      /\ x \in Conns
      /\ peer[x] # "reset"
      /\ out' = [out EXCEPT ![x] = Append(@, send[s].cport)]
      /\ send' = [send EXCEPT ![s] = SendIdle]
      /\ UNCHANGED <<listVars, cport, peerVars, inflow, svc, delivered, torn, crowded,
                     nameless, fault, budget>>

(* ... or an error, ...                                                    *)
SendFails(s) ==
  LET x == file[send[s].fd]
  IN  /\ send[s].pc = "write"
      /\ \/ Fails
         \/ (x \in Conns => peer[x] # "open") /\ UNCHANGED budget
      /\ send' = [send EXCEPT ![s].pc = "erase"]
      /\ UNCHANGED <<listVars, cport, peerVars, inflow, svc, ghosts, fault>>

(* ... after which the context is erased.                                  *)
SendErase(s) ==
  LET x == send[s].ctx
  IN  /\ send[s].pc = "erase"
      /\ IF mem[x] = "freed" THEN Crash
         ELSE /\ Erase(fd[x])
              /\ torn' = (torn \/ SenderUses(x, Senders \ {s}) \/ ServiceUses(x))
              /\ send' = [send EXCEPT ![s] = SendIdle]
              /\ UNCHANGED <<cport, peerVars, inflow, svc, delivered, out, crowded, nameless,
                             fault, budget>>

-----------------------------------------------------------------------------
Peers ==
  \E x \in Conns :
    (\E c \in CPorts : PeerConnects(x, c)) \/ PeerWrites(x) \/ PeerCloses(x)

Service ==
  \/ Setup \/ SetupFails \/ SetupDone
  \/ SvcPrepare \/ SvcPoll \/ SvcLoop \/ SvcAccept \/ SvcInsert
  \/ SvcInput \/ SvcRecv \/ SvcRecvEnds \/ SvcDeliver \/ SvcClose \/ SvcClear

Sending(s) == SendFd(s) \/ SendWrite(s) \/ SendFails(s) \/ SendErase(s)

Next ==
  /\ fault = "none"
  /\ \/ Peers
     \/ Service
     \/ \E s \in Senders : Sending(s) \/ \E c \in CPorts : SendFind(s, c)

Spec == Init /\ [][Next]_vars

(* The service thread runs, though no call has to fail for it, and a peer  *)
(* finishes a message it began.                                            *)
FairSpec ==
  /\ Spec
  /\ WF_vars(fault = "none" /\ Service /\ UNCHANGED budget)
  /\ \A x \in Conns : WF_vars(fault = "none" /\ PeerFinishes(x))

-----------------------------------------------------------------------------
(* Type correctness.                                                       *)
TypeOK ==
  /\ file \in [Fds -> Sockets \cup {None}]
  /\ fd_list \in Seq(Sockets)
  /\ fd \in [Sockets -> Fds \cup {None}]
  /\ mem \in [Sockets -> {"none", "live", "freed"}]
  /\ cport \in [Sockets -> CPorts \cup {None}]
  /\ peer \in [Conns -> {"none", "open", "fin", "reset"}]
  /\ written \in [Conns -> 0..2 * MaxIn]
  /\ inflow \in [Conns -> Seq(1..2 * MaxIn)]
  /\ svc \in [pc : {"setup", "prepare", "poll", "loop", "accept", "insert", "input",
                    "recv", "deliver", "close", "clear", "off"},
              todo : Seq(Fds), ready : SUBSET Fds, ctx : Sockets \cup {None}, fd : Fds \cup {None},
              got : Seq(1..2 * MaxIn)]
  /\ send \in [Senders -> [pc : {"idle", "fd", "write", "erase"}, cport : CPorts \cup {None},
                           ctx : Conns \cup {None}, fd : Fds \cup {None}]]
  /\ delivered \in [Conns -> Seq(0..MaxIn)]
  /\ out \in [Conns -> Seq(CPorts)]
  /\ torn \in BOOLEAN /\ crowded \in BOOLEAN /\ nameless \subseteq Conns
  /\ fault \in {"none", "freed"}
  /\ budget \in [out : 0..MaxOut, fail : 0..MaxFail]

(* Whoever erases it: a context is listed exactly once while it lives, and *)
(* its descriptor refers to its own socket, given out again or not.  The   *)
(* descriptors without a context are that of the connection that is being  *)
(* inserted and those that inet_ntop failed for: they never get one, and   *)
(* stay open for good, past the end of the service thread.  The state      *)
(* stays of its type (transport-tcpip.c:149-258, 329-338).                 *)
ListMatchesFiles ==
  /\ TypeOK
  /\ \A i, j \in DOMAIN fd_list : fd_list[i] = fd_list[j] => i = j
  /\ \A x \in Sockets : mem[x] = "live" <=> IsListed(x)
  /\ \A x \in Listed : file[fd[x]] = x
  /\ \A f \in Fds :
       file[f] # None =>
         \/ file[f] \in Listed \cup nameless
         \/ svc.pc = "insert" /\ svc.ctx = file[f]
  /\ \A x \in nameless : mem[x] = "none" /\ file[fd[x]] = x

(* Unless a context was erased while another thread used it, a message     *)
(* goes to a connection of its own cport, the core gets those of a         *)
(* connection in order, whole and with the cport of that connection, and   *)
(* nobody uses a freed context                                             *)
(* (transport-tcpip.c:344-377, 451, 481-559, 626-635).                     *)
RoutedUnlessTorn ==
  ~torn => /\ fault = "none"
           /\ \A x \in Conns :
                /\ \A i \in DOMAIN out[x] : out[x][i] = cport[x]
                /\ \A i \in DOMAIN delivered[x] : delivered[x][i] = i

(* With peers that finish what they began, every whole message is          *)
(* delivered unless its connection was given up: closed, reset, or one     *)
(* that was accepted but whose address could not be formatted.  All of     *)
(* them depend on one thread, which ends when poll fails or more sockets   *)
(* are open than it takes                                                  *)
(* (transport-tcpip.c:329-333, 401-405, 436-478).                          *)
EachIsServed ==
  \A x \in Conns, n \in 1..MaxIn :
    written[x] >= 2 * n ~>
      \/ Len(delivered[x]) >= n
      \/ mem[x] = "freed" \/ peer[x] = "reset" \/ x \in nameless
      \/ torn \/ crowded \/ fault # "none" \/ svc.pc = "off"
=============================================================================
