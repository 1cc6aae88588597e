------------------------------ MODULE Sockets -------------------------------
(***************************************************************************)
(* The calls that libktsn.c puts in front of the C library's: socket,      *)
(* setsockopt, sendmsg and close, with the list of sockets they keep and   *)
(* the list of interfaces made at start-up.  One process, which makes its  *)
(* calls from one thread.                                                  *)
(*                                                                         *)
(* Descriptors also come and go through calls libktsn does not see         *)
(* (accept, dup, dup2, fclose): those are the ...Elsewhere actions.        *)
(***************************************************************************)
EXTENDS Integers, SequencesExt

CONSTANTS
    MaxFd,        \* bound: descriptors are 0..MaxFd
    Prios,        \* values of SO_PRIORITY
    IfIndexes,    \* network interfaces
    Addrs,        \* IPv4 destinations
    Nets,         \* for an address with its netmask, the Addrs on its subnet
    MaxIfAddrs,   \* bound: entries getifaddrs returns
    NSlots,       \* packet slots
    None          \* NULL, no socket, no control message

Fds == 0..MaxFd
Domains == {"PF_PACKET", "AF_INET", "other"}
IfAddr == [ifindex : IfIndexes, family : {"AF_INET"}, net : Nets]
          \cup [ifindex : IfIndexes, family : {"other"}, net : {{}}]

\* msg_name, as the struct sockaddr_ll and as the struct sockaddr_in that the
\* two senders take it for.
MsgNames == {None} \cup [sll_ifindex : IfIndexes, sin_addr : Addrs]

ASSUME SocketsAssumption ==
    /\ MaxFd \in Nat /\ MaxIfAddrs \in Nat /\ NSlots \in Nat
    /\ -1 \notin Prios
    /\ Nets \subseteq SUBSET Addrs
    /\ None \notin Domains \cup [sll_ifindex : IfIndexes, sin_addr : Addrs]

VARIABLES
    kernel,       \* the domain of each descriptor that is open
    ifaddrs,      \* what getifaddrs returned at start-up
    sockets,      \* g_socket_list
    interfaces,   \* g_interface_list
    slots,        \* entries of free_ring
    wanted,       \* history: what was asked for each open descriptor that is
                  \* not bypassed
    bypassed      \* history: descriptors whose opening or closing libktsn
                  \* did not see, or that were named before they were open

table == <<kernel, sockets, wanted, bypassed>>
hosts == <<ifaddrs, interfaces>>
sockVars == <<table, hosts, slots>>

-----------------------------------------------------------------------------
\* LIST_FOREACH: where the first node with the wanted field is, or 0.
kt_socket_find(fd) == SelectInSeq(sockets, LAMBDA s : s.fd = fd)
InList(list, ix) == SelectInSeq(list, LAMBDA i : i.ifindex = ix)
kt_interface_find(ix) == InList(interfaces, ix)

\* ... or whose address is on the subnet of addr.
kt_interface_get_by_net(name) ==
    IF name = None THEN 0
    ELSE SelectInSeq(interfaces, LAMBDA i : name.sin_addr \in i.net)

\* Mutant: every address gets a node.
AddInterfaceAgain(list, e) ==
    IF e.family = "AF_INET" THEN <<[ifindex |-> e.ifindex, net |-> e.net]>> \o list
    ELSE list

\* A round of query_interfaces: the first IPv4 address of an interface gets a
\* node.  The socket that is opened to ask for the MAC address is closed again.
AddInterface(list, e) ==
    IF e.family = "AF_INET" /\ InList(list, e.ifindex) = 0
    THEN <<[ifindex |-> e.ifindex, net |-> e.net]>> \o list
    ELSE list

query_interfaces(addrs) ==
    LET list[k \in 0..Len(addrs)] ==
            IF k = 0 THEN << >> ELSE AddInterface(list[k - 1], addrs[k])
    IN  list[Len(addrs)]

Nothing == [prio |-> -1, txtime |-> 0]

SockInit ==
    /\ kernel = [fd \in Fds |-> None]
    /\ ifaddrs \in BoundedSeq(IfAddr, MaxIfAddrs)
    /\ sockets = << >>
    /\ interfaces = query_interfaces(ifaddrs)
    /\ slots = NSlots
    /\ wanted = [fd \in Fds |-> Nothing]
    /\ bypassed = {}

-----------------------------------------------------------------------------
\* A new descriptor of the kernel is the lowest one that is free.
Opens(fd, d) ==
    /\ kernel[fd] = None
    /\ \A f \in Fds : f < fd => kernel[f] # None
    /\ kernel' = [kernel EXCEPT ![fd] = d]

\* One that is closed is forgotten with all its options.
Closes(fd) ==
    /\ kernel' = [kernel EXCEPT ![fd] = None]
    /\ wanted' = [wanted EXCEPT ![fd] = Nothing]

Node(fd, p, t, d) == [fd |-> fd, prio |-> p, txtime |-> t, domain |-> d]
Insert(node) == sockets' = <<node>> \o sockets

\* socket: a node that is already there for the descriptor is kept as it is.
Socket(fd, d) ==
    /\ Opens(fd, d)
    /\ IF kt_socket_find(fd) = 0
       THEN Insert(Node(fd, -1, 0, d))
       ELSE UNCHANGED sockets
    /\ UNCHANGED <<hosts, slots, wanted, bypassed>>

\* Mutant: a node is added each time.
SetOptionInserts(fd, field, value) ==
    /\ \E g \in Domains : Insert([Node(fd, -1, 0, g) EXCEPT ![field] = value])
    /\ UNCHANGED <<kernel, wanted, bypassed, hosts, slots>>

\* setsockopt for SO_TXTIME and SO_PRIORITY: the C library is not asked.  A
\* node made here has a domain that nobody wrote.
SetOption(fd, field, value) ==
    LET i == kt_socket_find(fd) IN
    /\ \/ /\ i = 0
          /\ \E g \in Domains : Insert([Node(fd, -1, 0, g) EXCEPT ![field] = value])
       \/ i # 0 /\ sockets' = [sockets EXCEPT ![i][field] = value]
    /\ bypassed' = IF kernel[fd] = None THEN bypassed \cup {fd} ELSE bypassed
    /\ wanted' = IF fd \in bypassed' THEN wanted ELSE [wanted EXCEPT ![fd][field] = value]
    /\ UNCHANGED <<kernel, hosts, slots>>

SetTxtime(fd) == SetOption(fd, "txtime", 1)
SetPriority(fd, p) == SetOption(fd, "prio", p)

\* Mutant: the node stays in the list.
CloseKeepsNode(fd) ==
    /\ Closes(fd)
    /\ bypassed' = bypassed \ {fd}
    /\ UNCHANGED <<sockets, hosts, slots>>

\* close: the node is removed first, then the descriptor is closed.
Close(fd) ==
    LET i == kt_socket_find(fd) IN
    /\ sockets' = IF i = 0 THEN sockets ELSE RemoveAt(sockets, i)
    /\ Closes(fd)
    /\ bypassed' = bypassed \ {fd}
    /\ UNCHANGED <<hosts, slots>>

\* A descriptor from elsewhere; libktsn never learns what it stands for.
OpenElsewhere(fd) ==
    /\ Opens(fd, "other")
    /\ bypassed' = bypassed \cup {fd}
    /\ UNCHANGED <<sockets, wanted, hosts, slots>>

CloseElsewhere(fd) ==
    /\ kernel[fd] # None
    /\ Closes(fd)
    /\ bypassed' = bypassed \cup {fd}
    /\ UNCHANGED <<sockets, hosts, slots>>

-----------------------------------------------------------------------------
\* Which way sendmsg sends a message: to the C library's sendmsg, to the
\* daemon, no way at all because no case of the switch fits the domain, or
\* into a fault because sendmsg_packet reads through a null msg_name.
Route(fd, name, hasTxtime) ==
    LET i == kt_socket_find(fd)
        via(iface) == IF iface = 0 THEN "default" ELSE "daemon"
    IN  CASE i = 0 -> "default"
          [] i # 0 /\ (sockets[i].txtime = 0 \/ ~hasTxtime) -> "default"
          [] OTHER ->
               CASE sockets[i].domain = "AF_INET" -> via(kt_interface_get_by_net(name))
                 [] sockets[i].domain = "PF_PACKET" ->
                        IF name = None THEN "fault"
                        ELSE via(kt_interface_find(name.sll_ifindex))
                 [] OTHER -> "none"

\* The message takes a slot and goes to tx_ring ...
SendToDaemon(fd, name, hasTxtime) ==
    /\ Route(fd, name, hasTxtime) = "daemon" /\ slots > 0
    /\ slots' = slots - 1
    /\ UNCHANGED <<table, hosts>>

\* ... or there is none and the call returns -ENOBUFS.
SendNoSlot(fd, name, hasTxtime) ==
    /\ Route(fd, name, hasTxtime) = "daemon" /\ slots = 0
    /\ UNCHANGED sockVars

\* The message goes to the C library's sendmsg.
SendDefault(fd, name, hasTxtime) ==
    /\ Route(fd, name, hasTxtime) = "default"
    /\ UNCHANGED sockVars

\* Mutant: the slot goes nowhere.
SlotForgotten ==
    /\ slots < NSlots
    /\ UNCHANGED sockVars

\* The daemon returns a slot.
SlotReturned ==
    /\ slots < NSlots
    /\ slots' = slots + 1
    /\ UNCHANGED <<table, hosts>>

\* A program of which nothing is known.
AnyCall ==
    \/ \E fd \in Fds, d \in Domains : Socket(fd, d)
    \/ \E fd \in Fds : SetTxtime(fd) \/ \E p \in Prios : SetPriority(fd, p)
    \/ \E fd \in Fds : Close(fd) \/ OpenElsewhere(fd) \/ CloseElsewhere(fd)
    \/ \E fd \in Fds, name \in MsgNames, t \in BOOLEAN : SendToDaemon(fd, name, t)

SockNext == AnyCall \/ SlotReturned
SockSpec == SockInit /\ [][SockNext]_sockVars

-----------------------------------------------------------------------------
(***************************************************************************)
(* Properties                                                              *)
(***************************************************************************)
NodeRight(fd) ==
    IF kernel[fd] = None
    THEN \A i \in 1..Len(sockets) : sockets[i].fd # fd
    ELSE \E i \in 1..Len(sockets) :
             sockets[i] = Node(fd, wanted[fd].prio, wanted[fd].txtime, kernel[fd])

\* The list of sockets says what the application did: a descriptor that
\* libktsn saw coming has a node, with the domain it was opened with and the
\* options set since then, also when its number was used before; one that is
\* closed has none.
TableFaithful == \A fd \in Fds \ bypassed : NodeRight(fd)

\* No descriptor has two nodes, whatever calls bypassed libktsn: close then
\* removes all there is about it.
OneNode ==
    \A i, j \in 1..Len(sockets) : sockets[i].fd = sockets[j].fd => i = j

\* The inductive invariant: both, with the types.
Options == [prio : Prios \cup {-1}, txtime : {0, 1}]
Nodes == [fd : Fds, prio : Prios \cup {-1}, txtime : {0, 1}, domain : Domains]
SockInv ==
    /\ kernel \in [Fds -> Domains \cup {None}]
    /\ sockets \in Seq(Nodes)
    /\ wanted \in [Fds -> Options]
    /\ bypassed \in SUBSET Fds
    /\ \A fd \in Fds : kernel[fd] = None \/ fd \in bypassed => wanted[fd] = Nothing
    /\ OneNode
    /\ TableFaithful

\* The entry of getifaddrs that counts for an interface.
Primary(ix) == SelectInSeq(ifaddrs, LAMBDA e : e.family = "AF_INET" /\ e.ifindex = ix)

\* sendmsg sends a message of such a descriptor to the daemon exactly when the
\* socket was set up for SO_TXTIME, the message has a transmission time, and
\* its destination is on the subnet of the first IPv4 address of some
\* interface or names an interface that has one; all others go the default
\* way, but for the messages of sockets that are neither IPv4 nor packet
\* sockets, which go nowhere, and packets without a destination.
RouteRight ==
    \A fd \in Fds \ bypassed, name \in MsgNames, t \in BOOLEAN :
        kernel[fd] # None =>
            LET timed == wanted[fd].txtime = 1 /\ t
                local ==
                    CASE kernel[fd] = "AF_INET" ->
                             name # None /\ \E ix \in IfIndexes :
                                 Primary(ix) # 0 /\ name.sin_addr \in ifaddrs[Primary(ix)].net
                      [] kernel[fd] = "PF_PACKET" -> name # None /\ Primary(name.sll_ifindex) # 0
                      [] OTHER -> FALSE
                how == Route(fd, name, t)
            IN  /\ how = "daemon" <=> timed /\ local
                /\ how = "none" <=> timed /\ kernel[fd] = "other"
                /\ how = "fault" <=> timed /\ kernel[fd] = "PF_PACKET" /\ name = None
=============================================================================
