---------------------------- MODULE SocketsProofs ---------------------------
(***************************************************************************)
(* The lists of libktsn, for any program and any number of descriptors.    *)
(* The list of sockets says what the application did; a search in it is    *)
(* only understood because no descriptor has two nodes, so OneNode is part *)
(* of the induction.  sendmsg routes messages right whatever getifaddrs    *)
(* returned.  tsn_perf is one of those programs, and its talker keeps      *)
(* numbers and times in order.                                             *)
(***************************************************************************)
EXTENDS TsnPerf, SequenceTheorems, TLAPS

\* kt_socket_find returns the node of the descriptor, or 0 if there is none.
LEMMA FindSpec ==
    ASSUME OneNode, sockets \in Seq(Nodes), NEW fd \in Fds
    PROVE  LET i == kt_socket_find(fd)
           IN  \/ i = 0 /\ \A j \in 1..Len(sockets) : sockets[j].fd # fd
               \/ i \in 1..Len(sockets) /\ sockets[i].fd = fd
<1> DEFINE I == {j \in 1..Len(sockets) : sockets[j].fd = fd}
<1>1. kt_socket_find(fd) = IF I # {} THEN Min(I) ELSE 0
  BY DEF kt_socket_find, SelectInSeq
<1>2. CASE I = {}
  BY <1>1, <1>2
<1>3. CASE I # {}
  <2>1. PICK k \in I : TRUE
    BY <1>3
  <2>2. I = {k}
    BY <2>1 DEF OneNode
  <2>3. k \in 1..Len(sockets) /\ k \in Int
    BY <2>1
  <2>4. Min({k}) = k
    BY <2>3 DEF Min
  <2> QED  BY <1>1, <1>3, <2>1, <2>2, <2>4
<1> QED  BY <1>2, <1>3

\* LIST_INSERT_HEAD puts a node in front and keeps the others.
LEMMA InsertSpec ==
    ASSUME sockets \in Seq(Nodes), NEW node \in Nodes, Insert(node)
    PROVE  /\ sockets' \in Seq(Nodes)
           /\ Len(sockets') = Len(sockets) + 1
           /\ sockets'[1] = node
           /\ \A j \in 2..Len(sockets') : j - 1 \in 1..Len(sockets) /\ sockets'[j] = sockets[j - 1]
           /\ \A j \in 1..Len(sockets) : sockets'[j + 1] = sockets[j]
BY DEF Insert

\* LIST_REMOVE takes one node out and keeps the others.
LEMMA RemoveSpec ==
    ASSUME NEW s \in Seq(Nodes), NEW i \in 1..Len(s)
    PROVE  /\ RemoveAt(s, i) \in Seq(Nodes)
           /\ Len(RemoveAt(s, i)) = Len(s) - 1
           /\ \A j \in 1..(Len(s) - 1) :
                  RemoveAt(s, i)[j] = s[IF j < i THEN j ELSE j + 1]
<1> DEFINE a == SubSeq(s, 1, i - 1)
           b == SubSeq(s, i + 1, Len(s))
<1>1. a \in Seq(Nodes) /\ Len(a) = i - 1 /\ \A j \in 1..(i - 1) : a[j] = s[j]
  OBVIOUS
<1>2. b \in Seq(Nodes) /\ Len(b) = Len(s) - i /\ \A j \in 1..(Len(s) - i) : b[j] = s[i + j]
  OBVIOUS
<1>3. RemoveAt(s, i) = a \o b
  BY DEF RemoveAt
<1> HIDE DEF a, b
<1>4. a \o b \in Seq(Nodes) /\ Len(a \o b) = Len(s) - 1
  <2>1. a \o b \in Seq(Nodes) /\ Len(a \o b) = Len(a) + Len(b)
    BY <1>1, <1>2, ConcatProperties
  <2>2. Len(s) \in Nat /\ i \in Int
    OBVIOUS
  <2> QED  BY <1>1, <1>2, <2>1, <2>2
<1>5. ASSUME NEW j \in 1..(Len(s) - 1)
      PROVE  (a \o b)[j] = s[IF j < i THEN j ELSE j + 1]
  <2>1. CASE j < i
    BY <1>1, <1>2, <2>1
  <2>2. CASE ~(j < i)
    <3>1. j - (i - 1) \in 1..(Len(s) - i) /\ i + (j - (i - 1)) = j + 1
      BY <2>2
    <3>2. (a \o b)[j] = b[j - (i - 1)]
      BY <1>1, <1>2, <2>2
    <3> QED  BY <1>2, <2>2, <3>1, <3>2
  <2> QED  BY <2>1, <2>2
<1> QED  BY <1>3, <1>4, <1>5

\* A node added for a descriptor that has none keeps the list free of doubles.
LEMMA InsertOneNode ==
    ASSUME sockets \in Seq(Nodes), OneNode, NEW node \in Nodes, Insert(node),
           \A j \in 1..Len(sockets) : sockets[j].fd # node.fd
    PROVE  OneNode'
<1> SUFFICES ASSUME NEW i \in 1..Len(sockets'), NEW j \in 1..Len(sockets'),
                    sockets'[i].fd = sockets'[j].fd
             PROVE  i = j
  BY DEF OneNode
<1>1. Len(sockets) \in Nat /\ Len(sockets') = Len(sockets) + 1
  BY InsertSpec
<1>0. \A k \in 1..Len(sockets') : k # 1 => sockets'[k].fd # node.fd
  <2> SUFFICES ASSUME NEW k \in 2..Len(sockets')  PROVE sockets'[k].fd # node.fd
    BY <1>1
  <2> QED  BY InsertSpec
<1>2. CASE i = 1
  BY <1>2, <1>0, InsertSpec
<1>3. CASE j = 1
  BY <1>3, <1>0, InsertSpec
<1>4. CASE i # 1 /\ j # 1
  <2>1. /\ i - 1 \in 1..Len(sockets) /\ sockets'[i] = sockets[i - 1]
        /\ j - 1 \in 1..Len(sockets) /\ sockets'[j] = sockets[j - 1]
    BY <1>1, <1>4, InsertSpec
  <2>2. i - 1 = j - 1
    BY <2>1 DEF OneNode
  <2> QED  BY <2>2
<1> QED  BY <1>2, <1>3, <1>4

\* A node put in front for one descriptor is no matter for another.
LEMMA InsertOthers ==
    ASSUME sockets \in Seq(Nodes), NEW node \in Nodes, Insert(node),
           NEW f \in Fds, f # node.fd, NodeRight(f),
           kernel'[f] = kernel[f], wanted'[f] = wanted[f]
    PROVE  NodeRight(f)'
<1>1. Len(sockets) \in Nat /\ Len(sockets') = Len(sockets) + 1
  BY InsertSpec
<1>2. CASE kernel[f] = None
  <2> SUFFICES ASSUME NEW i \in 1..Len(sockets')  PROVE sockets'[i].fd # f
    BY <1>2 DEF NodeRight
  <2>1. CASE i = 1
    BY <2>1, InsertSpec
  <2>2. CASE i # 1
    <3>1. i \in 2..Len(sockets')
      BY <1>1, <2>2
    <3>2. i - 1 \in 1..Len(sockets) /\ sockets'[i] = sockets[i - 1]
      BY <3>1, InsertSpec
    <3> QED  BY <1>2, <3>2 DEF NodeRight
  <2> QED  BY <2>1, <2>2
<1>3. CASE kernel[f] # None
  <2>1. PICK i \in 1..Len(sockets) :
            sockets[i] = Node(f, wanted[f].prio, wanted[f].txtime, kernel[f])
    BY <1>3 DEF NodeRight
  <2>2. i + 1 \in 1..Len(sockets') /\ sockets'[i + 1] = sockets[i]
    BY <1>1, InsertSpec
  <2> QED  BY <1>3, <2>1, <2>2 DEF NodeRight
<1> QED  BY <1>2, <1>3

\* socket: the new node is right for its descriptor.  A node that was there
\* belongs to a descriptor that libktsn did not see closing.
LEMMA SocketInv ==
    ASSUME SockInv, NEW fd \in Fds, NEW d \in Domains, Socket(fd, d)
    PROVE  SockInv'
<1> DEFINE node == Node(fd, -1, 0, d)
<1>1. kernel[fd] = None /\ wanted[fd] = Nothing /\ wanted' = wanted /\ bypassed' = bypassed
  BY DEF Socket, Opens, SockInv
<1>2. kernel' \in [Fds -> Domains \cup {None}] /\ kernel'[fd] = d
  BY DEF Socket, Opens, SockInv
<1>3. \A f \in Fds : f # fd => kernel'[f] = kernel[f]
  BY DEF Socket, Opens, SockInv
<1>4. d # None
  BY SocketsAssumption
<1>5. \A f \in Fds : kernel'[f] = None \/ f \in bypassed' => wanted'[f] = Nothing
  BY <1>1, <1>2, <1>3, <1>4 DEF SockInv
<1>6. CASE kt_socket_find(fd) = 0
  <2>1. Insert(node) /\ node \in Nodes /\ node.fd = fd
    BY <1>6 DEF Socket, Node, Nodes
  <2>2. sockets' \in Seq(Nodes) /\ Len(sockets') = Len(sockets) + 1 /\ sockets'[1] = node
    BY <2>1, InsertSpec DEF SockInv
  <2>3. \A j \in 1..Len(sockets) : sockets[j].fd # fd
    BY <1>6, FindSpec DEF SockInv
  <2>4. OneNode'
    BY <2>1, <2>3, InsertOneNode DEF SockInv
  <2>5. NodeRight(fd)'
    <3>1. 1 \in 1..Len(sockets')
      BY <2>2 DEF SockInv
    <3>0. wanted'[fd].prio = -1 /\ wanted'[fd].txtime = 0
      BY <1>1 DEF Nothing
    <3>2. sockets'[1] = Node(fd, wanted'[fd].prio, wanted'[fd].txtime, kernel'[fd])
      BY <1>2, <2>2, <3>0, Zenon
    <3> QED  BY <1>2, <1>4, <3>1, <3>2 DEF NodeRight
  <2>6. ASSUME NEW f \in Fds \ bypassed', f # fd  PROVE NodeRight(f)'
    BY <1>1, <1>3, <2>1, <2>6, InsertOthers DEF SockInv, TableFaithful
  <2> QED  BY <1>1, <1>2, <1>5, <2>2, <2>4, <2>5, <2>6 DEF SockInv, TableFaithful
<1>7. CASE kt_socket_find(fd) # 0
  <2>1. sockets' = sockets
    BY <1>7 DEF Socket
  <2>2. fd \in bypassed
    BY <1>1, <1>7, FindSpec DEF SockInv, TableFaithful, NodeRight
  <2>3. ASSUME NEW f \in Fds \ bypassed'  PROVE NodeRight(f)'
    BY <1>1, <1>3, <2>1, <2>2, <2>3 DEF SockInv, TableFaithful, NodeRight
  <2>4. OneNode'
    BY <2>1 DEF SockInv, OneNode
  <2> QED  BY <1>1, <1>2, <1>5, <2>1, <2>3, <2>4 DEF SockInv, TableFaithful
<1> QED  BY <1>6, <1>7

\* A value written into a node makes no second node for its descriptor ...
LEMMA UpdateSpec ==
    ASSUME sockets \in Seq(Nodes), OneNode, NEW i \in 1..Len(sockets), NEW node \in Nodes,
           node.fd = sockets[i].fd, sockets' = [sockets EXCEPT ![i] = node]
    PROVE  /\ sockets' \in Seq(Nodes) /\ Len(sockets') = Len(sockets) /\ sockets'[i] = node
           /\ \A j \in 1..Len(sockets) : j # i => sockets'[j] = sockets[j]
           /\ \A j \in 1..Len(sockets) : sockets'[j].fd = sockets[j].fd
           /\ OneNode'
<1>1. sockets' \in Seq(Nodes) /\ Len(sockets') = Len(sockets) /\ sockets'[i] = node
  OBVIOUS
<1>2. \A j \in 1..Len(sockets) : j # i => sockets'[j] = sockets[j]
  OBVIOUS
<1>3. \A j \in 1..Len(sockets) : sockets'[j].fd = sockets[j].fd
  BY <1>1, <1>2
<1>4. OneNode'
  BY <1>1, <1>3 DEF OneNode
<1> QED  BY <1>1, <1>2, <1>3, <1>4

\* ... and is no matter for another.
LEMMA UpdateOthers ==
    ASSUME sockets \in Seq(Nodes), OneNode, NEW i \in 1..Len(sockets), NEW node \in Nodes,
           node.fd = sockets[i].fd, sockets' = [sockets EXCEPT ![i] = node],
           NEW f \in Fds, f # node.fd, NodeRight(f),
           kernel'[f] = kernel[f], wanted'[f] = wanted[f]
    PROVE  NodeRight(f)'
<1>1. CASE kernel[f] = None
  BY <1>1, UpdateSpec DEF NodeRight
<1>2. CASE kernel[f] # None
  <2>1. PICK j \in 1..Len(sockets) :
            sockets[j] = Node(f, wanted[f].prio, wanted[f].txtime, kernel[f])
    BY <1>2 DEF NodeRight
  <2>2. sockets[j].fd = f
    BY <2>1 DEF Node
  <2>3. j # i
    BY <2>2
  <2>4. sockets'[j] = Node(f, wanted'[f].prio, wanted'[f].txtime, kernel'[f])
    BY <2>1, <2>3, UpdateSpec
  <2> QED  BY <1>2, <2>4, UpdateSpec DEF NodeRight
<1> QED  BY <1>1, <1>2

\* setsockopt, for a field that an option and a node have in common: the node
\* of a descriptor that libktsn saw coming is there and is updated.
LEMMA SetOptionInv ==
    ASSUME SockInv, NEW fd \in Fds, NEW field, NEW value, SetOption(fd, field, value),
           \A r \in Nodes : [r EXCEPT ![field] = value] \in Nodes
                            /\ [r EXCEPT ![field] = value].fd = r.fd,
           \A o \in Options : [o EXCEPT ![field] = value] \in Options,
           \A f \in Fds, o \in Options, d \in Domains :
               [Node(f, o.prio, o.txtime, d) EXCEPT ![field] = value]
                 = Node(f, [o EXCEPT ![field] = value].prio, [o EXCEPT ![field] = value].txtime, d)
    PROVE  SockInv'
<1> DEFINE i == kt_socket_find(fd)
<1>1. kernel' = kernel /\ bypassed' \in SUBSET Fds /\ (\A f \in Fds : f \in bypassed => f \in bypassed')
  BY DEF SetOption, SockInv
<1>2. fd \notin bypassed' => kernel[fd] # None /\ wanted' = [wanted EXCEPT ![fd] = [@ EXCEPT ![field] = value]]
  BY DEF SetOption
<1>3. fd \in bypassed' => wanted' = wanted /\ (kernel[fd] = None \/ fd \in bypassed)
  BY DEF SetOption
<1>4. wanted' \in [Fds -> Options] /\ \A f \in Fds : f # fd => wanted'[f] = wanted[f]
  <2>1. CASE fd \in bypassed'
    BY <1>3, <2>1 DEF SockInv
  <2>2. CASE fd \notin bypassed'
    <3>1. [wanted[fd] EXCEPT ![field] = value] \in Options
      BY DEF SockInv
    <3> QED  BY <1>2, <2>2, <3>1 DEF SockInv
  <2> QED  BY <2>1, <2>2
<1>5. \A f \in Fds : f # fd => (f \in bypassed' <=> f \in bypassed)
  BY DEF SetOption
<1>6. \A f \in Fds : kernel'[f] = None \/ f \in bypassed' => wanted'[f] = Nothing
  BY <1>1, <1>2, <1>3, <1>4, <1>5 DEF SockInv
<1>7. CASE i = 0
  <2>1. PICK g \in Domains : Insert([Node(fd, -1, 0, g) EXCEPT ![field] = value])
    BY <1>7 DEF SetOption
  <2> DEFINE node == [Node(fd, -1, 0, g) EXCEPT ![field] = value]
  <2>2. Node(fd, -1, 0, g) \in Nodes /\ Node(fd, -1, 0, g).fd = fd
    BY DEF Node, Nodes
  <2>3. node \in Nodes /\ node.fd = fd
    BY <2>2
  <2> HIDE DEF node
  <2>4. Insert(node)
    BY <2>1 DEF node
  <2>5. \A j \in 1..Len(sockets) : sockets[j].fd # fd
    BY <1>7, FindSpec DEF SockInv
  <2>6. sockets' \in Seq(Nodes) /\ OneNode'
    BY <2>3, <2>4, <2>5, InsertSpec, InsertOneNode DEF SockInv
  <2>7. fd \in bypassed'
    <3> SUFFICES ASSUME fd \notin bypassed'  PROVE FALSE
      OBVIOUS
    <3>1. PICK j \in 1..Len(sockets) :
              sockets[j] = Node(fd, wanted[fd].prio, wanted[fd].txtime, kernel[fd])
      BY <1>1, <1>2 DEF SockInv, TableFaithful, NodeRight
    <3> QED  BY <2>5, <3>1 DEF Node
  <2>8. ASSUME NEW f \in Fds \ bypassed'  PROVE NodeRight(f)'
    <3>1. f # fd /\ NodeRight(f) /\ kernel'[f] = kernel[f] /\ wanted'[f] = wanted[f]
      BY <1>1, <1>4, <1>5, <2>7, <2>8 DEF SockInv, TableFaithful
    <3> QED  BY <2>3, <2>4, <3>1, InsertOthers DEF SockInv
  <2> QED  BY <1>1, <1>4, <1>6, <2>6, <2>8 DEF SockInv, TableFaithful
<1>8. CASE i # 0
  <2>1. i \in 1..Len(sockets) /\ sockets[i].fd = fd
    BY <1>8, FindSpec DEF SockInv
  <2> DEFINE node == [sockets[i] EXCEPT ![field] = value]
  <2>2. sockets[i] \in Nodes
    BY <2>1 DEF SockInv
  <2>3. node \in Nodes /\ node.fd = fd
    BY <2>1, <2>2
  <2>4. sockets' = [sockets EXCEPT ![i] = node]
    BY <1>8 DEF SetOption
  <2>5. fd \notin bypassed' => node = Node(fd, wanted'[fd].prio, wanted'[fd].txtime, kernel'[fd])
    <3> SUFFICES ASSUME fd \notin bypassed'
                 PROVE  node = Node(fd, wanted'[fd].prio, wanted'[fd].txtime, kernel'[fd])
      OBVIOUS
    <3>1. PICK j \in 1..Len(sockets) :
              sockets[j] = Node(fd, wanted[fd].prio, wanted[fd].txtime, kernel[fd])
      BY <1>1, <1>2 DEF SockInv, TableFaithful, NodeRight
    <3>2. j = i
      BY <2>1, <3>1 DEF SockInv, OneNode, Node
    <3>3. wanted[fd] \in Options /\ kernel[fd] \in Domains
      BY <1>2 DEF SockInv
    <3>4. wanted'[fd] = [wanted[fd] EXCEPT ![field] = value]
      BY <1>2 DEF SockInv
    <3> QED  BY <1>1, <3>1, <3>2, <3>3, <3>4
  <2> HIDE DEF node, i
  <2>6. sockets' \in Seq(Nodes) /\ Len(sockets') = Len(sockets) /\ sockets'[i] = node /\ OneNode'
    BY <2>1, <2>3, <2>4, UpdateSpec DEF SockInv
  <2>7. ASSUME NEW f \in Fds \ bypassed'  PROVE NodeRight(f)'
    <3>1. CASE f = fd
      BY <1>1, <1>2, <2>1, <2>5, <2>6, <2>7, <3>1 DEF NodeRight
    <3>2. CASE f # fd
      <4>1. NodeRight(f) /\ kernel'[f] = kernel[f] /\ wanted'[f] = wanted[f]
        BY <1>1, <1>4, <1>5, <2>7, <3>2 DEF SockInv, TableFaithful
      <4>2. f # node.fd
        BY <2>3, <3>2
      <4>3. sockets \in Seq(Nodes) /\ OneNode /\ node.fd = sockets[i].fd
        BY <2>1, <2>3 DEF SockInv
      <4> QED  BY <2>1, <2>3, <2>4, <4>1, <4>2, <4>3, UpdateOthers
    <3> QED  BY <3>1, <3>2
  <2> QED  BY <1>1, <1>4, <1>6, <2>6, <2>7 DEF SockInv, TableFaithful
<1> QED  BY <1>7, <1>8

\* setsockopt for SO_TXTIME.
LEMMA SetTxtimeInv ==
    ASSUME SockInv, NEW fd \in Fds, SetTxtime(fd)
    PROVE  SockInv'
<1>1. SetOption(fd, "txtime", 1)
  BY DEF SetTxtime
<1>2. \A r \in Nodes : [r EXCEPT !["txtime"] = 1] \in Nodes
                       /\ [r EXCEPT !["txtime"] = 1].fd = r.fd
  BY DEF Nodes
<1>3. \A o \in Options : [o EXCEPT !["txtime"] = 1] \in Options
  BY DEF Options
<1>4. \A f \in Fds, o \in Options, d \in Domains :
        [Node(f, o.prio, o.txtime, d) EXCEPT !["txtime"] = 1]
          = Node(f, [o EXCEPT !["txtime"] = 1].prio, [o EXCEPT !["txtime"] = 1].txtime, d)
  BY DEF Node, Options
<1> QED  BY <1>1, <1>2, <1>3, <1>4, SetOptionInv

\* setsockopt for SO_PRIORITY.
LEMMA SetPriorityInv ==
    ASSUME SockInv, NEW fd \in Fds, NEW p \in Prios, SetPriority(fd, p)
    PROVE  SockInv'
<1>1. SetOption(fd, "prio", p)
  BY DEF SetPriority
<1>2. \A r \in Nodes : [r EXCEPT !["prio"] = p] \in Nodes
                       /\ [r EXCEPT !["prio"] = p].fd = r.fd
  BY DEF Nodes
<1>3. \A o \in Options : [o EXCEPT !["prio"] = p] \in Options
  BY DEF Options
<1>4. \A f \in Fds, o \in Options, d \in Domains :
        [Node(f, o.prio, o.txtime, d) EXCEPT !["prio"] = p]
          = Node(f, [o EXCEPT !["prio"] = p].prio, [o EXCEPT !["prio"] = p].txtime, d)
  BY DEF Node, Options
<1> QED  BY <1>1, <1>2, <1>3, <1>4, SetOptionInv

\* LIST_REMOVE of the node of a descriptor leaves none for it, and the others.
LEMMA RemoveNode ==
    ASSUME sockets \in Seq(Nodes), OneNode, NEW i \in 1..Len(sockets),
           sockets' = RemoveAt(sockets, i)
    PROVE  /\ sockets' \in Seq(Nodes) /\ OneNode'
           /\ \A j \in 1..Len(sockets') : sockets'[j].fd # sockets[i].fd
           /\ \A j \in 1..Len(sockets') : \E k \in 1..Len(sockets) : sockets'[j] = sockets[k]
           /\ \A k \in 1..Len(sockets) :
                  k # i => \E j \in 1..Len(sockets') : sockets'[j] = sockets[k]
<1> DEFINE old(j) == IF j < i THEN j ELSE j + 1
<1>1. sockets' \in Seq(Nodes) /\ Len(sockets') = Len(sockets) - 1 /\ Len(sockets) \in Nat
  BY RemoveSpec
<1>2. \A j \in 1..Len(sockets') : /\ sockets'[j] = sockets[old(j)]
                                  /\ old(j) \in 1..Len(sockets) /\ old(j) # i
  BY <1>1, RemoveSpec
<1>3. \A j, k \in 1..Len(sockets') : old(j) = old(k) => j = k
  BY <1>1
<1>4. ASSUME NEW k \in 1..Len(sockets), k # i
      PROVE  \E j \in 1..Len(sockets') : old(j) = k
  <2>1. CASE k < i
    BY <1>1, <2>1
  <2>2. CASE k > i
    <3>1. k - 1 \in 1..Len(sockets') /\ old(k - 1) = k
      BY <1>1, <2>2
    <3> QED  BY <3>1
  <2> QED  BY <1>4, <2>1, <2>2
<1> HIDE DEF old
<1>5. OneNode'
  BY <1>2, <1>3 DEF OneNode
<1>6. \A j \in 1..Len(sockets') : sockets'[j].fd # sockets[i].fd
  BY <1>2 DEF OneNode
<1> QED  BY <1>1, <1>2, <1>4, <1>5, <1>6

\* close: nothing is left of the descriptor, so its number may come again.
LEMMA CloseInv ==
    ASSUME SockInv, NEW fd \in Fds, Close(fd)
    PROVE  SockInv'
<1> DEFINE i == kt_socket_find(fd)
<1>1. /\ kernel' \in [Fds -> Domains \cup {None}] /\ kernel'[fd] = None
      /\ wanted' \in [Fds -> Options] /\ wanted'[fd] = Nothing
      /\ bypassed' = bypassed \ {fd}
  BY DEF Close, Closes, SockInv, Nothing, Options
<1>2. \A f \in Fds : f # fd => kernel'[f] = kernel[f] /\ wanted'[f] = wanted[f]
  BY DEF Close, Closes, SockInv
<1>3. /\ sockets' \in Seq(Nodes) /\ OneNode'
      /\ \A j \in 1..Len(sockets') : sockets'[j].fd # fd
      /\ \A j \in 1..Len(sockets') : \E k \in 1..Len(sockets) : sockets'[j] = sockets[k]
      /\ \A k \in 1..Len(sockets) :
             sockets[k].fd # fd => \E j \in 1..Len(sockets') : sockets'[j] = sockets[k]
  <2>1. CASE i = 0
    <3>1. sockets' = sockets
      BY <2>1 DEF Close
    <3>2. \A j \in 1..Len(sockets) : sockets[j].fd # fd
      BY <2>1, FindSpec DEF SockInv
    <3> QED  BY <3>1, <3>2 DEF SockInv, OneNode
  <2>2. CASE i # 0
    <3>1. i \in 1..Len(sockets) /\ sockets[i].fd = fd
      BY <2>2, FindSpec DEF SockInv
    <3>2. sockets' = RemoveAt(sockets, i)
      BY <2>2 DEF Close
    <3> HIDE DEF i
    <3> QED  BY <3>1, <3>2, RemoveNode DEF SockInv
  <2> QED  BY <2>1, <2>2
<1>4. ASSUME NEW f \in Fds \ bypassed'  PROVE NodeRight(f)'
  <2>1. CASE f = fd
    BY <1>1, <1>3, <2>1 DEF NodeRight
  <2>2. CASE f # fd
    <3>1. NodeRight(f) /\ kernel'[f] = kernel[f] /\ wanted'[f] = wanted[f]
      BY <1>1, <1>2, <2>2 DEF SockInv, TableFaithful
    <3>2. CASE kernel[f] = None
      BY <1>3, <3>1, <3>2 DEF NodeRight
    <3>3. CASE kernel[f] # None
      <4>1. PICK k \in 1..Len(sockets) :
                sockets[k] = Node(f, wanted[f].prio, wanted[f].txtime, kernel[f])
        BY <3>1, <3>3 DEF NodeRight
      <4>2. sockets[k].fd # fd
        BY <2>2, <4>1 DEF Node
      <4> QED  BY <1>3, <3>1, <3>3, <4>1, <4>2 DEF NodeRight
    <3> QED  BY <3>2, <3>3
  <2> QED  BY <2>1, <2>2
<1>5. \A f \in Fds : kernel'[f] = None \/ f \in bypassed' => wanted'[f] = Nothing
  BY <1>1, <1>2 DEF SockInv
<1> QED  BY <1>1, <1>3, <1>4, <1>5 DEF SockInv, TableFaithful

\* A call that libktsn does not see leaves the list alone; from then on the
\* descriptor is one of which the list may be wrong.
LEMMA ElsewhereInv ==
    ASSUME SockInv, NEW fd \in Fds, OpenElsewhere(fd) \/ CloseElsewhere(fd)
    PROVE  SockInv'
<1>1. /\ kernel' \in [Fds -> Domains \cup {None}]
      /\ wanted' \in [Fds -> Options] /\ wanted'[fd] = Nothing
      /\ bypassed' = bypassed \cup {fd} /\ sockets' = sockets
  <2>1. CASE OpenElsewhere(fd)
    BY <2>1 DEF OpenElsewhere, Opens, SockInv, Domains
  <2>2. CASE CloseElsewhere(fd)
    BY <2>2 DEF CloseElsewhere, Closes, SockInv, Nothing, Options
  <2> QED  BY <2>1, <2>2
<1>2. \A f \in Fds : f # fd => kernel'[f] = kernel[f] /\ wanted'[f] = wanted[f]
  BY DEF OpenElsewhere, CloseElsewhere, Opens, Closes, SockInv
<1>3. ASSUME NEW f \in Fds \ bypassed'  PROVE NodeRight(f)'
  BY <1>1, <1>2 DEF SockInv, TableFaithful, NodeRight
<1>4. \A f \in Fds : kernel'[f] = None \/ f \in bypassed' => wanted'[f] = Nothing
  BY <1>1, <1>2 DEF SockInv
<1> QED  BY <1>1, <1>3, <1>4 DEF SockInv, TableFaithful, OneNode

\* sendmsg and the daemon leave the list alone.
LEMMA TableUnchanged ==
    ASSUME SockInv, UNCHANGED table
    PROVE  SockInv'
BY DEF SockInv, TableFaithful, OneNode, NodeRight, table

\* SockInv is an inductive invariant.
THEOREM SockInvariant == SockSpec => []SockInv
<1>1. SockInit => SockInv
  <2> SUFFICES ASSUME SockInit  PROVE SockInv
    OBVIOUS
  <2>1. kernel = [fd \in Fds |-> None] /\ sockets = << >> /\ bypassed = {}
        /\ wanted = [fd \in Fds |-> Nothing]
    BY DEF SockInit
  <2>2. Nothing \in Options
    BY DEF Nothing, Options
  <2> QED  BY <2>1, <2>2 DEF SockInv, OneNode, TableFaithful, NodeRight
<1>2. SockInv /\ [SockNext]_sockVars => SockInv'
  <2> SUFFICES ASSUME SockInv, [SockNext]_sockVars  PROVE SockInv'
    OBVIOUS
  <2>1. CASE \E fd \in Fds, d \in Domains : Socket(fd, d)
    BY <2>1, SocketInv
  <2>2. CASE \E fd \in Fds : SetTxtime(fd) \/ \E p \in Prios : SetPriority(fd, p)
    BY <2>2, SetTxtimeInv, SetPriorityInv
  <2>3. CASE \E fd \in Fds : Close(fd) \/ OpenElsewhere(fd) \/ CloseElsewhere(fd)
    BY <2>3, CloseInv, ElsewhereInv
  <2>4. CASE \E fd \in Fds, name \in MsgNames, t \in BOOLEAN : SendToDaemon(fd, name, t)
    BY <2>4, TableUnchanged DEF SendToDaemon
  <2>5. CASE SlotReturned
    BY <2>5, TableUnchanged DEF SlotReturned
  <2>6. CASE UNCHANGED sockVars
    BY <2>6, TableUnchanged DEF sockVars
  <2> QED  BY <2>1, <2>2, <2>3, <2>4, <2>5, <2>6 DEF SockNext, AnyCall
<1> QED  BY <1>1, <1>2, PTL DEF SockSpec

\* For every program that calls socket, setsockopt, sendmsg and close, for any
\* number of descriptors, and whatever opens and closes bypass libktsn, the
\* list of sockets is right about every descriptor that is not bypassed.
THEOREM ListFaithful == SockSpec => []TableFaithful
<1>1. SockInv => TableFaithful
  BY DEF SockInv
<1> QED  BY <1>1, SockInvariant, PTL

-----------------------------------------------------------------------------
(***************************************************************************)
(* tsn_perf                                                                *)
(***************************************************************************)
\* What tsn_perf calls libktsn with.
CallInv ==
    /\ pc # "main" => config.addr \in Destinations /\ config.use_txtime \in BOOLEAN
    /\ pc \in {"txPriority", "txStamping", "txTxtime", "start", "loop", "send", "bind"}
           => sockfd \in Fds

\* The options that main leaves are those of Configs, but for n_msgs.
LEMMA ConfigSpec ==
    ASSUME NEW c \in Configs, Main(c)
    PROVE  config'.addr \in Destinations /\ config'.use_txtime \in BOOLEAN
<1>1. c.addr \in Destinations /\ c.use_txtime \in BOOLEAN
  BY DEF Configs
<1>2. config'.addr = c.addr /\ config'.use_txtime = c.use_txtime
  BY DEF Main, Configs
<1> QED  BY <1>1, <1>2

\* CallInv holds at the start,
LEMMA CallInit == Init => CallInv
  BY DEF Init, CallInv

\* and every step keeps it.
LEMMA CallStep == CallInv /\ [Next]_vars => CallInv'
<1> SUFFICES ASSUME CallInv, [Next]_vars  PROVE CallInv'
  OBVIOUS
<1>1. ASSUME NEW c \in Configs, Main(c)  PROVE CallInv'
  <2>1. pc' \in {"exit", "fault", "rxSocket", "txSocket"}
    BY <1>1 DEF Main, Goto
  <2> QED  BY <1>1, <2>1, ConfigSpec DEF CallInv
<1>2. CASE TxSocket
  BY <1>2 DEF TxSocket, Goto, CallInv
<1>3. CASE TxPriority \/ TxStamping \/ TxTxtime
  BY <1>3 DEF TxPriority, TxStamping, TxTxtime, Goto, perf, CallInv
<1>4. CASE Start \/ Loop \/ SendOk \/ SendRefused
  BY <1>4 DEF Start, Loop, SendOk, SendRefused, Goto, perf, CallInv
<1>5. CASE RxSocket
  BY <1>5 DEF RxSocket, Goto, CallInv
<1>6. CASE Bind \/ Recv
  BY <1>6 DEF Bind, Recv, Goto, perf, CallInv
<1>7. CASE Sigint
  BY <1>7 DEF Sigint, Goto, CallInv
<1>8. CASE UNCHANGED <<pc, config, sockfd>>
  BY <1>8 DEF CallInv
<1>9. Tick \/ UNCHANGED <<perf, pc, clock>> => UNCHANGED <<pc, config, sockfd>>
  BY DEF Tick, perf
<1>10. UNCHANGED vars => UNCHANGED <<pc, config, sockfd>>
  BY DEF vars, perf
<1> QED  BY <1>1, <1>2, <1>3, <1>4, <1>5, <1>6, <1>7, <1>8, <1>9, <1>10 DEF Next, PerfStep

\* A destination is a msg_name.
LEMMA DestinationName == Destinations \subseteq MsgNames
<1>1. (CHOOSE ix \in IfIndexes : TRUE) \in IfIndexes
  BY TsnPerfAssumption
<1> QED  BY <1>1 DEF Destinations, MsgNames

\* A step of tsn_perf is a call of the program that Sockets knows, or none.
LEMMA PerfCalls == CallInv /\ [Next]_vars => [SockNext]_sockVars
<1> SUFFICES ASSUME CallInv, [Next]_vars  PROVE SockNext \/ UNCHANGED sockVars
  OBVIOUS
<1>1. CASE TxSocket \/ RxSocket
  BY <1>1 DEF TxSocket, RxSocket, Domains, SockNext, AnyCall
<1>2. CASE TxPriority \/ TxTxtime
  BY <1>2 DEF TxPriority, TxTxtime, Goto, CallInv, SockNext, AnyCall
<1>3. CASE SendOk
  <2>1. pc = "send"
    BY <1>3 DEF SendOk, Goto
  <2>2. sockfd \in Fds /\ config.addr \in MsgNames /\ config.use_txtime \in BOOLEAN
    BY <2>1, DestinationName DEF CallInv
  <2>3. CASE SendToDaemon(sockfd, config.addr, config.use_txtime)
    BY <2>2, <2>3 DEF SockNext, AnyCall
  <2>4. CASE SendDefault(sockfd, config.addr, config.use_txtime)
    BY <2>4 DEF SendDefault
  <2> QED  BY <1>3, <2>3, <2>4 DEF SendOk
<1>4. CASE Bind
  BY <1>4 DEF Bind, Goto, CallInv, SockNext, AnyCall
<1>5. CASE SendRefused
  BY <1>5 DEF SendRefused, SendNoSlot, SendDefault
<1>6. CASE TxStamping \/ Start \/ Loop \/ Recv \/ Sigint \/ Tick \/ UNCHANGED vars
           \/ \E c \in Configs : Main(c)
  BY <1>6 DEF TxStamping, Start, Loop, Recv, Sigint, Tick, Main, vars
<1>7. CASE AnyCall \/ SlotReturned
  BY <1>7 DEF SockNext
<1> QED  BY <1>1, <1>2, <1>3, <1>4, <1>5, <1>6, <1>7 DEF Next, PerfStep

\* tsn_perf on top of libktsn is one of the programs of Sockets, so all that
\* is shown for those holds of it.
THEOREM PerfRefines == Spec => SockSpec
<1>1. Init => SockInit
  BY DEF Init
<1> QED  BY <1>1, CallInit, CallStep, PerfCalls, PTL DEF Spec, SockSpec

\* A message that sendmsg accepted.
Messages == [num : Nat, txtime : Nat, at : Nat]

\* The inductive invariant behind TalkerOrder: the next message has the next
\* number, its time is an interval per number later than that of each message
\* before, and the talker only comes to sendmsg once it may.
TalkerInv ==
    /\ clock \in Nat /\ txtime \in Nat
    /\ out \in Seq(Messages) /\ counter = Len(out) + 1
    /\ pc \notin {"loop", "send", "done", "killed"} => out = << >>
    /\ pc = "send" => clock >= txtime - Delay
    /\ \A i \in 1..Len(out) : txtime - out[i].txtime >= (Len(out) + 1 - i) * Interval
    /\ TalkerOrder

\* TalkerInv holds at the start,
LEMMA TalkerInit == Init => TalkerInv
<1> SUFFICES ASSUME Init  PROVE TalkerInv
  OBVIOUS
<1>1. clock \in Nat /\ txtime = 0 /\ counter = 1 /\ pc = "main"
  BY TsnPerfAssumption DEF Init
<1>2. out = << >> /\ Len(out) = 0 /\ out \in Seq(Messages)
  BY DEF Init
<1> QED  BY <1>1, <1>2 DEF TalkerInv, TalkerOrder

\* One more interval.
LEMMA OneMore ==
    ASSUME NEW a \in Int, NEW b \in Int
    PROVE  (a + 1) * b = a * b + b /\ a * b \in Int
  OBVIOUS

\* The time of the next message moves on by an interval.
LEMMA TalkerLater ==
    ASSUME TalkerInv, txtime' = txtime + Interval, UNCHANGED <<out, counter, clock>>,
           pc' = "loop", pc = "send"
    PROVE  TalkerInv'
<1>1. Interval \in Nat /\ txtime \in Nat
  BY TsnPerfAssumption DEF TalkerInv
<1>2. ASSUME NEW i \in 1..Len(out)
      PROVE  txtime' - out[i].txtime >= (Len(out) + 1 - i) * Interval
  <2>0. out[i] \in Messages
    BY DEF TalkerInv
  <2>1. out[i].txtime \in Nat
    BY <2>0 DEF Messages
  <2> DEFINE g == (Len(out) + 1 - i) * Interval
  <2>2. txtime - out[i].txtime >= g
    BY DEF TalkerInv
  <2>3. Len(out) \in Nat /\ g \in Int
    BY <1>1 DEF TalkerInv
  <2> HIDE DEF g
  <2>4. txtime' - out[i].txtime >= g
    BY <1>1, <2>1, <2>2, <2>3
  <2> QED  BY <2>4 DEF g
<1> QED  BY <1>1, <1>2 DEF TalkerInv, TalkerOrder

\* sendmsg accepts the message.
LEMMA TalkerSends ==
    ASSUME TalkerInv, SendOk
    PROVE  TalkerInv'
<1> DEFINE n == Len(out)
           m == [num |-> counter, txtime |-> txtime, at |-> clock]
<1>1. /\ Interval \in Nat /\ Delay \in Nat /\ txtime \in Nat /\ clock \in Nat
      /\ out \in Seq(Messages) /\ n \in Nat /\ counter = n + 1
  BY TsnPerfAssumption DEF TalkerInv
<1>2. /\ pc = "send" /\ pc' = "loop" /\ clock' = clock
      /\ out' = Append(out, m) /\ counter' = counter + 1 /\ txtime' = txtime + Interval
  BY DEF SendOk, Goto
<1>3. m \in Messages /\ m.num = n + 1 /\ m.txtime = txtime /\ m.at = clock
  BY <1>1 DEF Messages
<1> HIDE DEF m
<1>4. /\ out' \in Seq(Messages) /\ Len(out') = n + 1 /\ out'[n + 1] = m
      /\ \A i \in 1..n : out'[i] = out[i]
  BY <1>1, <1>2, <1>3
<1>5. ASSUME NEW i \in 1..n
      PROVE  /\ out[i].txtime \in Nat /\ (n + 1 - i) * Interval \in Int
             /\ txtime - out[i].txtime >= (n + 1 - i) * Interval
             /\ (n + 1 + 1 - i) * Interval = (n + 1 - i) * Interval + Interval
  <2>1. out[i] \in Messages
    BY <1>1
  <2>2. n + 1 - i \in Int /\ n + 1 + 1 - i = (n + 1 - i) + 1
    BY <1>1
  <2>3. (n + 1 + 1 - i) * Interval = (n + 1 - i) * Interval + Interval
        /\ (n + 1 - i) * Interval \in Int
    <3> DEFINE a == n + 1 - i
    <3>1. a \in Int /\ n + 1 + 1 - i = a + 1
      BY <2>2
    <3> HIDE DEF a
    <3>2. (a + 1) * Interval = a * Interval + Interval /\ a * Interval \in Int
      BY <1>1, <3>1, OneMore
    <3> QED  BY <3>1, <3>2 DEF a
  <2>4. txtime - out[i].txtime >= (n + 1 - i) * Interval
    BY DEF TalkerInv
  <2> QED  BY <2>1, <2>3, <2>4 DEF Messages
<1>6. ASSUME NEW i \in 1..Len(out')
      PROVE  txtime' - out'[i].txtime >= (Len(out') + 1 - i) * Interval
  <2>1. CASE i = n + 1
    <3>1. Len(out') + 1 - i = 1 /\ 1 * Interval = Interval
      BY <1>1, <1>4, <2>1
    <3>2. txtime' - out'[i].txtime = Interval
      BY <1>1, <1>2, <1>3, <1>4, <2>1
    <3>3. (Len(out') + 1 - i) * Interval = Interval
      BY <3>1
    <3>4. Interval >= Interval
      BY <1>1
    <3> QED  BY <3>2, <3>3, <3>4
  <2>2. CASE i # n + 1
    <3>1. i \in 1..n
      BY <1>1, <1>4, <2>2
    <3> DEFINE g == (n + 1 - i) * Interval
               t == out[i].txtime
               h == (n + 1 + 1 - i) * Interval
    <3>2. t \in Nat /\ g \in Int /\ txtime - t >= g /\ h = g + Interval
      BY <1>5, <3>1
    <3>3. out'[i].txtime = t
      BY <1>4, <3>1
    <3>6. (Len(out') + 1 - i) * Interval = h
      BY <1>4
    <3> HIDE DEF g, t, h
    <3>4. (txtime + Interval) - t >= h
      BY <1>1, <3>2
    <3>5. txtime' - out'[i].txtime = (txtime + Interval) - t
      BY <1>2, <3>3
    <3> QED  BY <3>4, <3>5, <3>6
  <2> QED  BY <2>1, <2>2
<1>7. ASSUME NEW i \in 1..Len(out')
      PROVE  /\ out'[i].num = i
             /\ out'[i].at >= out'[i].txtime - Delay
             /\ \A j \in 1..(i - 1) : out'[i].txtime - out'[j].txtime >= (i - j) * Interval
  <2>1. CASE i = n + 1
    <3>1. out'[i] = m
      BY <1>4, <2>1
    <3>2. clock >= txtime - Delay
      BY <1>2 DEF TalkerInv
    <3>3. ASSUME NEW j \in 1..(i - 1)
          PROVE  out'[i].txtime - out'[j].txtime >= (i - j) * Interval
      <4>1. j \in 1..n
        BY <1>1, <2>1
      <4> QED  BY <1>3, <1>4, <1>5, <2>1, <3>1, <4>1
    <3> QED  BY <1>3, <2>1, <3>1, <3>2, <3>3
  <2>2. CASE i # n + 1
    <3>1. i \in 1..n /\ \A j \in 1..(i - 1) : j \in 1..n
      BY <1>1, <1>4, <2>2
    <3>2. out'[i] = out[i] /\ \A j \in 1..(i - 1) : out'[j] = out[j]
      BY <1>4, <3>1
    <3> QED  BY <3>1, <3>2 DEF TalkerInv, TalkerOrder
  <2> QED  BY <2>1, <2>2
<1>8. TalkerOrder'
  BY <1>7 DEF TalkerOrder
<1>9. counter' = Len(out') + 1 /\ txtime' \in Nat
  BY <1>1, <1>2, <1>4
<1> QED  BY <1>1, <1>2, <1>4, <1>6, <1>8, <1>9 DEF TalkerInv

\* and every step keeps it.
LEMMA TalkerStep == TalkerInv /\ [Next]_vars => TalkerInv'
<1> SUFFICES ASSUME TalkerInv, [Next]_vars  PROVE TalkerInv'
  OBVIOUS
<1>1. CASE SendOk
  BY <1>1, TalkerSends
<1>2. CASE SendRefused
  BY <1>2, TalkerLater DEF SendRefused, Goto
<1>3. CASE Start
  <2>1. pc = "start" /\ pc' = "loop" /\ out' = out /\ clock' = clock /\ counter' = 1
        /\ txtime' = (clock \div Sec) * Sec + 2 * Sec
    BY <1>3 DEF Start, Goto
  <2>2. out = << >> /\ Len(out) = 0
    BY <2>1 DEF TalkerInv
  <2>3. txtime' \in Nat
    <3>1. clock \in Nat /\ Sec \in Nat \ {0}
      BY TsnPerfAssumption DEF TalkerInv
    <3>2. clock \div Sec \in Nat
      BY <3>1
    <3> HIDE DEF TalkerInv
    <3> QED  BY <2>1, <3>1, <3>2
  <2> QED  BY <2>1, <2>2, <2>3 DEF TalkerInv, TalkerOrder
<1>4. CASE Loop
  <2>1. pc = "loop" /\ UNCHANGED <<clock, txtime, out, counter>>
        /\ (pc' = "done" \/ (pc' = "send" /\ clock >= txtime - Delay))
    BY <1>4 DEF Loop, Goto, perf
  <2> QED  BY <2>1 DEF TalkerInv, TalkerOrder
<1>5. CASE Tick
  <2>1. clock' = clock + 1 /\ UNCHANGED <<pc, txtime, out, counter>>
    BY <1>5 DEF Tick, perf
  <2> QED  BY <2>1, TsnPerfAssumption DEF TalkerInv, TalkerOrder
<1>6. CASE /\ UNCHANGED <<clock, txtime, out, counter>>
           /\ pc' = pc \/ pc' \in {"done", "killed"}
              \/ (pc \notin {"loop", "send", "done", "killed"} /\ pc' # "send")
  BY <1>6 DEF TalkerInv, TalkerOrder
<1>7. CASE TxSocket \/ TxPriority \/ TxStamping \/ TxTxtime
  BY <1>6, <1>7 DEF TxSocket, TxPriority, TxStamping, TxTxtime, Goto, perf
<1>8. CASE RxSocket \/ Bind \/ Recv \/ Sigint
  BY <1>6, <1>8 DEF RxSocket, Bind, Recv, Sigint, Goto, perf
<1>9. CASE \E c \in Configs : Main(c)
  BY <1>6, <1>9 DEF Main, Goto
<1>10. CASE UNCHANGED <<perf, pc, clock>>
  BY <1>6, <1>10 DEF perf
<1>11. CASE UNCHANGED vars
  BY <1>10, <1>11 DEF vars
<1> QED  BY <1>1, <1>2, <1>3, <1>4, <1>5, <1>7, <1>8, <1>9, <1>10, <1>11 DEF Next, PerfStep

\* For any number of messages, any interval and any refusals, what the talker
\* sends is numbered without a gap, spaced, and not handed over too soon.
THEOREM TalkerOrdered == Spec => []TalkerOrder
<1>1. TalkerInv => TalkerOrder
  BY DEF TalkerInv
<1> QED  BY <1>1, TalkerInit, TalkerStep, PTL DEF Spec

\* What the loop of do_talker keeps of the number of the next message.
CountInv ==
    /\ pc # "main" => config.n_msgs \in Nat \ {0}
    /\ pc \in {"rxSocket", "bind", "recv"} => config.role = "listener"
    /\ pc = "loop" => counter <= config.n_msgs
    /\ pc = "send" => counter < config.n_msgs
    /\ pc = "done" /\ config.role = "talker" => counter = config.n_msgs

\* What main leaves in config.
LEMMA CountMain ==
    ASSUME NEW c \in Configs, Main(c)
    PROVE  CountInv'
<1>1. c.n_msgs \in Nat
  BY TsnPerfAssumption DEF Configs
<1>2. config'.n_msgs = (IF c.n_msgs <= 0 THEN 1 ELSE c.n_msgs) /\ config'.role = c.role
  BY DEF Main, Configs
<1>3. config'.n_msgs \in Nat \ {0}
  BY <1>1, <1>2
<1>4. pc' \in {"exit", "fault", "txSocket"} \/ (pc' = "rxSocket" /\ c.role = "listener")
  BY DEF Main, Goto
<1> QED  BY <1>2, <1>3, <1>4 DEF CountInv

\* Every step keeps CountInv.
LEMMA CountStep == TalkerInv /\ CountInv /\ [Next]_vars => CountInv'
<1> SUFFICES ASSUME TalkerInv, CountInv, [Next]_vars  PROVE CountInv'
  OBVIOUS
<1>0. counter \in Nat
  <2>1. Len(out) \in Nat
    BY LenProperties DEF TalkerInv
  <2> QED  BY <2>1 DEF TalkerInv
<1>1. CASE SendOk
  <2>1. pc = "send" /\ pc' = "loop" /\ counter' = counter + 1 /\ config' = config
    BY <1>1 DEF SendOk, Goto
  <2> QED  BY <1>0, <2>1 DEF CountInv
<1>2. CASE SendRefused
  <2>1. pc = "send" /\ pc' = "loop" /\ counter' = counter /\ config' = config
    BY <1>2 DEF SendRefused, Goto
  <2> QED  BY <1>0, <2>1 DEF CountInv
<1>3. CASE Start
  <2>1. pc = "start" /\ pc' = "loop" /\ counter' = 1 /\ config' = config
    BY <1>3 DEF Start, Goto
  <2> QED  BY <2>1 DEF CountInv
<1>4. CASE Loop
  <2>1. /\ pc = "loop" /\ counter' = counter /\ config' = config
        /\ \/ pc' = "send" /\ counter < config.n_msgs
           \/ pc' = "done" /\ counter >= config.n_msgs
    BY <1>4 DEF Loop, Goto, perf
  <2> QED  BY <1>0, <2>1 DEF CountInv
<1>5. CASE \E c \in Configs : Main(c)
  BY <1>5, CountMain
<1>6. CASE Recv
  <2>1. pc = "recv" /\ pc' = "done" /\ config' = config
    BY <1>6 DEF Recv, Goto, perf
  <2> QED  BY <2>1 DEF CountInv
<1>7. CASE /\ counter' = counter /\ config' = config
           /\ \/ pc' = pc
              \/ pc # "main" /\ pc' \in {"txPriority", "txStamping", "txTxtime", "start",
                                         "exit", "killed"}
              \/ pc \in {"rxSocket", "bind"} /\ pc' \in {"bind", "recv"}
  BY <1>7 DEF CountInv
<1>8. CASE TxSocket \/ TxPriority \/ TxStamping \/ TxTxtime
  BY <1>7, <1>8 DEF TxSocket, TxPriority, TxStamping, TxTxtime, Goto, perf
<1>9. CASE RxSocket \/ Bind \/ Sigint
  BY <1>7, <1>9 DEF RxSocket, Bind, Sigint, Goto
<1>10. CASE Tick \/ UNCHANGED <<perf, pc, clock>> \/ UNCHANGED vars
  BY <1>7, <1>10 DEF Tick, perf, vars
<1> QED  BY <1>1, <1>2, <1>3, <1>4, <1>5, <1>6, <1>8, <1>9, <1>10 DEF Next, PerfStep

\* A talker that comes to the end of its loop has had n_msgs - 1 messages
\* accepted, one less than the option says, however many were refused.
THEOREM TalkerTotal ==
    Spec => [](pc = "done" /\ config.role = "talker" => Len(out) = config.n_msgs - 1)
<1>1. Init => CountInv
  BY DEF Init, CountInv
<1>2. ASSUME TalkerInv, CountInv, pc = "done", config.role = "talker"
      PROVE  Len(out) = config.n_msgs - 1
  <2>1. Len(out) \in Nat
    BY <1>2, LenProperties DEF TalkerInv
  <2> QED  BY <1>2, <2>1 DEF TalkerInv, CountInv
<1>3. TalkerInv /\ CountInv =>
          (pc = "done" /\ config.role = "talker" => Len(out) = config.n_msgs - 1)
  BY <1>2
<1> QED  BY <1>1, <1>3, TalkerInit, TalkerStep, CountStep, PTL DEF Spec

-----------------------------------------------------------------------------
(***************************************************************************)
(* The list of interfaces                                                  *)
(***************************************************************************)
\* Induction on a number, and loops as functions of their round.
Loops == INSTANCE PrioQueueOpsProofs

IfNodes == [ifindex : IfIndexes, net : Nets]
IfNode(e) == [ifindex |-> e.ifindex, net |-> e.net]

\* Entry m of getifaddrs is an IPv4 address, and the first of its interface.
Inet(addrs, m) == addrs[m].family = "AF_INET"
First(addrs, m) ==
    /\ Inet(addrs, m)
    /\ \A l \in 1..(m - 1) : Inet(addrs, l) => addrs[l].ifindex # addrs[m].ifindex

\* A list that has a node for each first address among the first k, and no other.
Listed(list, addrs, k) ==
    /\ list \in Seq(IfNodes)
    /\ \A j \in 1..Len(list) : \E m \in 1..k : First(addrs, m) /\ list[j] = IfNode(addrs[m])
    /\ \A m \in 1..k : First(addrs, m) => \E j \in 1..Len(list) : list[j] = IfNode(addrs[m])
    /\ \A m \in 1..k : Inet(addrs, m) =>
           \E j \in 1..Len(list) : list[j].ifindex = addrs[m].ifindex

\* The first of the places where a list has what is looked for.
LEMMA MinSpec ==
    ASSUME NEW I \in SUBSET Nat, I # {}
    PROVE  Min(I) \in I /\ \A y \in I : Min(I) <= y
  BY Loops!LeastNumber DEF Min

\* An interface is found in a list if it has a node there.
LEMMA InListSpec ==
    ASSUME NEW list \in Seq(IfNodes), NEW ix
    PROVE  InList(list, ix) # 0 <=> \E j \in 1..Len(list) : list[j].ifindex = ix
<1> DEFINE I == {j \in 1..Len(list) : list[j].ifindex = ix}
<1>1. InList(list, ix) = IF I # {} THEN Min(I) ELSE 0
  BY DEF InList, SelectInSeq
<1>2. I \in SUBSET Nat /\ 0 \notin I
  OBVIOUS
<1>3. I # {} => Min(I) \in I
  <2> HIDE DEF I
  <2> QED  BY <1>2, MinSpec
<1>4. InList(list, ix) # 0 <=> I # {}
  <2> HIDE DEF I
  <2> QED  BY <1>1, <1>2, <1>3
<1> QED  BY <1>4

\* A list with a node in front of it.
InFront(node, list) == <<node>> \o list

\* What that leaves at which place.
Shifted(new, node, list) ==
    /\ new \in Seq(IfNodes) /\ new[1] = node /\ Len(new) = Len(list) + 1
    /\ \A j \in 1..Len(list) : new[j + 1] = list[j]
    /\ \A j \in 2..Len(new) : j - 1 \in 1..Len(list) /\ new[j] = list[j - 1]

\* A node in front of a list shifts the others by one.
LEMMA NodeInFront ==
    ASSUME NEW list \in Seq(IfNodes), NEW node \in IfNodes
    PROVE  Shifted(InFront(node, list), node, list)
  BY DEF InFront, Shifted

\* An entry of getifaddrs with an IPv4 address makes a node.
LEMMA NodeOf ==
    ASSUME NEW e \in IfAddr, e.family = "AF_INET"
    PROVE  IfNode(e) \in IfNodes /\ IfNode(e).ifindex = e.ifindex /\ IfNode(e).net = e.net
  BY DEF IfAddr, IfNode, IfNodes

\* A round of the loop takes the list one entry further.
LEMMA RoundListed ==
    ASSUME NEW addrs \in Seq(IfAddr), NEW k \in 1..Len(addrs), NEW list,
           Listed(list, addrs, k - 1)
    PROVE  Listed(AddInterface(list, addrs[k]), addrs, k)
<1> DEFINE e == addrs[k]
           new == AddInterface(list, e)
<1>0. list \in Seq(IfNodes) /\ Len(list) \in Nat /\ e \in IfAddr
  BY DEF Listed
<1>1. CASE Inet(addrs, k) /\ InList(list, e.ifindex) = 0
  <2>1. IfNode(e) \in IfNodes /\ IfNode(e).ifindex = e.ifindex
    BY <1>0, <1>1, NodeOf DEF Inet
  <2>2. new = <<IfNode(e)>> \o list
    BY <1>1 DEF AddInterface, Inet, IfNode
  <2>3. First(addrs, k)
    BY <1>0, <1>1, InListSpec DEF First, Listed
  <2> HIDE DEF new, e
  <2>4. /\ new \in Seq(IfNodes) /\ new[1] = IfNode(e) /\ Len(new) = Len(list) + 1
        /\ \A j \in 1..Len(list) : new[j + 1] = list[j]
        /\ \A j \in 2..Len(new) : j - 1 \in 1..Len(list) /\ new[j] = list[j - 1]
    <3> DEFINE node == IfNode(e)
    <3>1. node \in IfNodes /\ new = InFront(node, list)
      BY <2>1, <2>2 DEF InFront
    <3> HIDE DEF node
    <3>2. Shifted(new, node, list)
      BY <1>0, <3>1, NodeInFront
    <3> QED  BY <3>2 DEF Shifted, node
  <2>5. ASSUME NEW j \in 1..Len(new)
        PROVE  \E m \in 1..k : First(addrs, m) /\ new[j] = IfNode(addrs[m])
    <3>1. CASE j = 1
      BY <2>3, <2>4, <3>1 DEF e
    <3>2. CASE j # 1
      <4>1. j - 1 \in 1..Len(list) /\ new[j] = list[j - 1]
        BY <1>0, <2>4, <3>2
      <4>2. PICK m \in 1..(k - 1) : First(addrs, m) /\ list[j - 1] = IfNode(addrs[m])
        BY <4>1 DEF Listed
      <4> QED  BY <4>1, <4>2
    <3> QED  BY <3>1, <3>2
  <2>6. \A j \in 1..Len(list) : j + 1 \in 1..Len(new)
    BY <1>0, <2>4
  <2>7. 1 \in 1..Len(new)
    BY <1>0, <2>4
  <2>8. ASSUME NEW m \in 1..k, First(addrs, m)
        PROVE  \E j \in 1..Len(new) : new[j] = IfNode(addrs[m])
    <3>1. CASE m = k
      BY <2>4, <2>7, <3>1 DEF e
    <3>2. CASE m # k
      <4>1. PICK j \in 1..Len(list) : list[j] = IfNode(addrs[m])
        <5>1. m \in 1..(k - 1)
          BY <3>2
        <5> QED  BY <2>8, <5>1 DEF Listed
      <4> QED  BY <2>4, <2>6, <4>1
    <3> QED  BY <3>1, <3>2
  <2>9. ASSUME NEW m \in 1..k, Inet(addrs, m)
        PROVE  \E j \in 1..Len(new) : new[j].ifindex = addrs[m].ifindex
    <3>1. CASE m = k
      BY <2>1, <2>4, <2>7, <3>1 DEF e
    <3>2. CASE m # k
      <4>1. PICK j \in 1..Len(list) : list[j].ifindex = addrs[m].ifindex
        <5>1. m \in 1..(k - 1)
          BY <3>2
        <5> QED  BY <2>9, <5>1 DEF Listed
      <4> QED  BY <2>4, <2>6, <4>1
    <3> QED  BY <3>1, <3>2
  <2>10. Listed(new, addrs, k)
    BY <2>4, <2>5, <2>8, <2>9 DEF Listed
  <2> QED  BY <2>10 DEF new, e
<1>2. CASE ~(Inet(addrs, k) /\ InList(list, e.ifindex) = 0)
  <2>1. new = list
    BY <1>2 DEF AddInterface, Inet
  <2>2. Inet(addrs, k) => \E j \in 1..Len(list) : list[j].ifindex = e.ifindex
    BY <1>0, <1>2, InListSpec
  <2>3. ~First(addrs, k)
    <3> SUFFICES ASSUME First(addrs, k)  PROVE FALSE
      OBVIOUS
    <3>1. PICK j \in 1..Len(list) : list[j].ifindex = e.ifindex
      BY <2>2 DEF First
    <3>2. PICK m \in 1..(k - 1) : First(addrs, m) /\ list[j] = IfNode(addrs[m])
      BY DEF Listed
    <3>3. addrs[m].ifindex = e.ifindex
      BY <3>1, <3>2 DEF IfNode
    <3> QED  BY <3>2, <3>3 DEF First
  <2>4. \A m \in 1..k : m = k \/ m \in 1..(k - 1)
    OBVIOUS
  <2>5. \A m \in 1..(k - 1) : m \in 1..k
    OBVIOUS
  <2>6. Listed(list, addrs, k)
    BY <2>2, <2>3, <2>4, <2>5 DEF Listed
  <2> QED  BY <2>1, <2>6
<1> QED  BY <1>1, <1>2

\* A list of interfaces keeps its type in a round.
LEMMA RoundType ==
    ASSUME NEW list \in Seq(IfNodes), NEW e \in IfAddr
    PROVE  AddInterface(list, e) \in Seq(IfNodes)
<1>1. CASE e.family = "AF_INET" /\ InList(list, e.ifindex) = 0
  <2>1. AddInterface(list, e) = <<IfNode(e)>> \o list
    BY <1>1 DEF AddInterface, IfNode
  <2>2. IfNode(e) \in IfNodes
    BY <1>1, NodeOf
  <2> QED  BY <2>1, <2>2
<1>2. CASE ~(e.family = "AF_INET" /\ InList(list, e.ifindex) = 0)
  BY <1>2 DEF AddInterface
<1> QED  BY <1>1, <1>2

\* query_interfaces makes one node for each interface with an IPv4 address,
\* from the first one.
LEMMA QueryListed ==
    ASSUME NEW addrs \in Seq(IfAddr)
    PROVE  Listed(query_interfaces(addrs), addrs, Len(addrs))
<1> DEFINE n == Len(addrs)
           S == Seq(IfNodes)
           F == [k \in 1..n |-> [l \in S |-> AddInterface(l, addrs[k])]]
           Up(g) == g = [k \in 0..n |->
                            IF k = 0 THEN << >> ELSE AddInterface(g[k - 1], addrs[k])]
           r == CHOOSE g : Up(g)
<1>0. n \in Nat /\ (\A k \in 1..n : addrs[k] \in IfAddr) /\ << >> \in S
  OBVIOUS
<1>1. query_interfaces(addrs) = r[n]
  BY DEF query_interfaces
<1> HIDE DEF n, S
<1>2. F \in [1..n -> [S -> S]]
  BY <1>0, RoundType DEF S
<1>3. PICK g \in [0..n -> S] : Loops!IsLoop(g, F, << >>, n)
  <2> HIDE DEF F
  <2> QED  BY <1>0, <1>2, Loops!LoopExists
<1>4. Up(g)
  <2>1. ASSUME NEW k \in 0..n, k # 0  PROVE F[k][g[k - 1]] = AddInterface(g[k - 1], addrs[k])
    <3>1. k \in 1..n /\ k - 1 \in 0..n
      BY <1>0, <2>1
    <3>2. g[k - 1] \in S
      BY <3>1
    <3> QED  BY <3>1, <3>2
  <2> HIDE DEF F
  <2> QED  BY <1>3, <2>1 DEF Loops!IsLoop
<1>5. Up(r)
  <2> HIDE DEF Up
  <2> QED  BY <1>4
<1> HIDE DEF r
<1>6. r[0] = << >> /\ \A k \in 1..n : r[k] = AddInterface(r[k - 1], addrs[k])
  BY <1>0, <1>5
<1> DEFINE T == {k \in 0..n : Listed(r[k], addrs, k)}
<1>7. 0 \in T
  <2>1. << >> \in Seq(IfNodes) /\ Len(<< >>) = 0
    OBVIOUS
  <2>2. Listed(<< >>, addrs, 0)
    BY <2>1 DEF Listed
  <2> QED  BY <1>0, <1>6, <2>2
<1>8. ASSUME NEW k \in 1..n, k - 1 \in T  PROVE k \in T
  <2>1. Listed(r[k - 1], addrs, k - 1)
    BY <1>8
  <2>2. Listed(AddInterface(r[k - 1], addrs[k]), addrs, k)
    BY <2>1, RoundListed DEF n
  <2> QED  BY <1>0, <1>6, <2>2
<1>9. n \in T
  <2> HIDE DEF T
  <2>1. \A k \in 0..n : k \in T
    BY <1>0, <1>7, <1>8, Loops!InductionTo
  <2> QED  BY <1>0, <2>1
<1> QED  BY <1>1, <1>9 DEF n

\* Primary finds the first IPv4 address of an interface.
LEMMA PrimarySpec ==
    ASSUME ifaddrs \in Seq(IfAddr), NEW ix
    PROVE  \/ /\ Primary(ix) = 0
              /\ \A m \in 1..Len(ifaddrs) : Inet(ifaddrs, m) => ifaddrs[m].ifindex # ix
           \/ /\ Primary(ix) # 0 /\ Primary(ix) \in 1..Len(ifaddrs)
              /\ First(ifaddrs, Primary(ix)) /\ ifaddrs[Primary(ix)].ifindex = ix
<1> DEFINE I == {m \in 1..Len(ifaddrs) : Inet(ifaddrs, m) /\ ifaddrs[m].ifindex = ix}
           p == Primary(ix)
<1>1. p = IF I # {} THEN Min(I) ELSE 0
  BY DEF Primary, SelectInSeq, Inet
<1>2. I \in SUBSET Nat
  OBVIOUS
<1>3. CASE I = {}
  BY <1>1, <1>3
<1>4. CASE I # {}
  <2>1. p \in I /\ \A y \in I : p <= y
    <3> HIDE DEF I, p
    <3> QED  BY <1>1, <1>2, <1>4, MinSpec
  <2> HIDE DEF p
  <2>2. p \in 1..Len(ifaddrs) /\ p # 0 /\ Inet(ifaddrs, p) /\ ifaddrs[p].ifindex = ix
    BY <2>1
  <2>3. \A l \in 1..(p - 1) : Inet(ifaddrs, l) => ifaddrs[l].ifindex # ifaddrs[p].ifindex
    BY <2>1, <2>2
  <2> QED  BY <2>2, <2>3 DEF First, p
<1> QED  BY <1>3, <1>4

\* The two first addresses of an interface are one.
LEMMA FirstOnce ==
    ASSUME NEW addrs \in Seq(IfAddr), NEW l \in 1..Len(addrs), NEW m \in 1..Len(addrs),
           First(addrs, l), First(addrs, m), addrs[l].ifindex = addrs[m].ifindex
    PROVE  l = m
<1>1. ~(l < m) /\ ~(m < l)
  BY DEF First
<1> QED  BY <1>1

\* The interfaces of this process are those that getifaddrs returned.
HostInv ==
    /\ ifaddrs \in Seq(IfAddr)
    /\ Listed(interfaces, ifaddrs, Len(ifaddrs))

\* kt_interface_find knows the interfaces that have an IPv4 address.
LEMMA FindInterface ==
    ASSUME HostInv, NEW ix
    PROVE  kt_interface_find(ix) # 0 <=> Primary(ix) # 0
<1>1. interfaces \in Seq(IfNodes) /\ ifaddrs \in Seq(IfAddr)
  BY DEF HostInv, Listed
<1>2. kt_interface_find(ix) # 0 <=> \E j \in 1..Len(interfaces) : interfaces[j].ifindex = ix
  BY <1>1, InListSpec DEF kt_interface_find
<1>3. ASSUME Primary(ix) # 0
      PROVE  \E j \in 1..Len(interfaces) : interfaces[j].ifindex = ix
  <2>1. Primary(ix) \in 1..Len(ifaddrs) /\ Inet(ifaddrs, Primary(ix))
        /\ ifaddrs[Primary(ix)].ifindex = ix
    BY <1>1, <1>3, PrimarySpec DEF First
  <2> QED  BY <2>1 DEF HostInv, Listed
<1>4. ASSUME NEW j \in 1..Len(interfaces), interfaces[j].ifindex = ix
      PROVE  Primary(ix) # 0
  <2>1. PICK m \in 1..Len(ifaddrs) : First(ifaddrs, m) /\ interfaces[j] = IfNode(ifaddrs[m])
    BY DEF HostInv, Listed
  <2>2. Inet(ifaddrs, m) /\ ifaddrs[m].ifindex = ix
    BY <1>4, <2>1 DEF First, IfNode
  <2> QED  BY <1>1, <2>2, PrimarySpec
<1> QED  BY <1>2, <1>3, <1>4

\* kt_interface_get_by_net knows the subnets of their first addresses.
LEMMA FindSubnet ==
    ASSUME HostInv, NEW name \in MsgNames
    PROVE  kt_interface_get_by_net(name) # 0 <=>
               name # None /\ \E ix \in IfIndexes :
                   Primary(ix) # 0 /\ name.sin_addr \in ifaddrs[Primary(ix)].net
<1>1. interfaces \in Seq(IfNodes) /\ ifaddrs \in Seq(IfAddr)
  BY DEF HostInv, Listed
<1>2. CASE name = None
  BY <1>2 DEF kt_interface_get_by_net
<1>3. CASE name # None
  <2> DEFINE a == name.sin_addr
             I == {j \in 1..Len(interfaces) : a \in interfaces[j].net}
  <2>1. kt_interface_get_by_net(name) = IF I # {} THEN Min(I) ELSE 0
    BY <1>3 DEF kt_interface_get_by_net, SelectInSeq
  <2>2. I \in SUBSET Nat /\ 0 \notin I
    OBVIOUS
  <2>3. kt_interface_get_by_net(name) # 0 <=> I # {}
    <3> HIDE DEF I
    <3> QED  BY <2>1, <2>2, MinSpec
  <2> HIDE DEF a
  <2>4. ASSUME NEW j \in 1..Len(interfaces), a \in interfaces[j].net
        PROVE  \E ix \in IfIndexes : Primary(ix) # 0 /\ a \in ifaddrs[Primary(ix)].net
    <3>1. PICK m \in 1..Len(ifaddrs) : First(ifaddrs, m) /\ interfaces[j] = IfNode(ifaddrs[m])
      BY DEF HostInv, Listed
    <3> DEFINE ix == ifaddrs[m].ifindex
               p == Primary(ix)
    <3>2. ix \in IfIndexes /\ ifaddrs[m].net = interfaces[j].net
      BY <1>1, <3>1, NodeOf DEF First, Inet, IfAddr
    <3>3. p # 0 /\ p \in 1..Len(ifaddrs) /\ First(ifaddrs, p) /\ ifaddrs[p].ifindex = ix
      BY <1>1, <3>1, PrimarySpec DEF First
    <3>4. p = m
      <4> HIDE DEF p
      <4> QED  BY <1>1, <3>1, <3>3, FirstOnce
    <3> QED  BY <2>4, <3>2, <3>3, <3>4
  <2>5. ASSUME NEW ix \in IfIndexes, Primary(ix) # 0, a \in ifaddrs[Primary(ix)].net
        PROVE  I # {}
    <3> DEFINE p == Primary(ix)
    <3>1. p \in 1..Len(ifaddrs) /\ First(ifaddrs, p)
      BY <1>1, <2>5, PrimarySpec
    <3>2. a \in ifaddrs[p].net
      BY <2>5
    <3> HIDE DEF p
    <3>3. PICK j \in 1..Len(interfaces) : interfaces[j] = IfNode(ifaddrs[p])
      BY <3>1 DEF HostInv, Listed
    <3> QED  BY <3>2, <3>3 DEF IfNode
  <2> QED  BY <1>3, <2>3, <2>4, <2>5 DEF a
<1> QED  BY <1>2, <1>3

\* sendmsg on a descriptor whose node is right.
LEMMA RouteSpec ==
    ASSUME SockInv, HostInv, NEW fd \in Fds \ bypassed, kernel[fd] # None,
           NEW name \in MsgNames, NEW t \in BOOLEAN
    PROVE  LET timed == wanted[fd].txtime = 1 /\ t
               how == Route(fd, name, t)
           IN  /\ ~timed => how = "default"
               /\ timed /\ kernel[fd] = "AF_INET" =>
                      how = IF kt_interface_get_by_net(name) = 0 THEN "default" ELSE "daemon"
               /\ timed /\ kernel[fd] = "PF_PACKET" =>
                      how = IF name = None THEN "fault"
                            ELSE IF kt_interface_find(name.sll_ifindex) = 0 THEN "default"
                            ELSE "daemon"
               /\ timed /\ kernel[fd] = "other" => how = "none"
<1> DEFINE i == kt_socket_find(fd)
<1>1. PICK j \in 1..Len(sockets) :
          sockets[j] = Node(fd, wanted[fd].prio, wanted[fd].txtime, kernel[fd])
  BY DEF SockInv, TableFaithful, NodeRight
<1>2. sockets[j].fd = fd /\ sockets[j].txtime = wanted[fd].txtime /\ sockets[j].domain = kernel[fd]
  <2>1. ASSUME NEW p, NEW x, NEW d
        PROVE  Node(fd, p, x, d).fd = fd /\ Node(fd, p, x, d).txtime = x /\ Node(fd, p, x, d).domain = d
    BY DEF Node
  <2> QED  BY <1>1, <2>1, SMTT(20)
<1>3. i \in 1..Len(sockets) /\ sockets[i].fd = fd
  BY <1>2, FindSpec DEF SockInv
<1>4. i = j
  <2> HIDE DEF i
  <2> QED  BY <1>2, <1>3 DEF SockInv, OneNode
<1>5. i # 0
  <2> HIDE DEF i
  <2> QED  BY <1>3
<1>6. wanted[fd].txtime \in {0, 1}
  BY DEF SockInv, Options
<1> DEFINE timed == wanted[fd].txtime = 1 /\ t
           via(iface) == IF iface = 0 THEN "default" ELSE "daemon"
<1>7. Route(fd, name, t) =
        IF ~timed THEN "default"
        ELSE CASE kernel[fd] = "AF_INET" -> via(kt_interface_get_by_net(name))
               [] kernel[fd] = "PF_PACKET" ->
                      IF name = None THEN "fault" ELSE via(kt_interface_find(name.sll_ifindex))
               [] OTHER -> "none"
  <2>1. (sockets[i].txtime = 0 \/ ~t) <=> ~timed
    BY <1>2, <1>4, <1>6
  <2>2. sockets[i].domain = kernel[fd]
    BY <1>2, <1>4
  <2> HIDE DEF timed
  <2> QED  BY <1>5, <2>1, <2>2 DEF Route
<1> QED  BY <1>7

\* The state of the two lists makes sendmsg's choice right.
LEMMA RightRoute == SockInv /\ HostInv => RouteRight
<1> SUFFICES ASSUME SockInv, HostInv, NEW fd \in Fds \ bypassed, NEW name \in MsgNames,
                    NEW t \in BOOLEAN, kernel[fd] # None
             PROVE  LET timed == wanted[fd].txtime = 1 /\ t
                        local ==
                            CASE kernel[fd] = "AF_INET" ->
                                     name # None /\ \E ix \in IfIndexes :
                                         /\ Primary(ix) # 0
                                         /\ name.sin_addr \in ifaddrs[Primary(ix)].net
                              [] kernel[fd] = "PF_PACKET" ->
                                     name # None /\ Primary(name.sll_ifindex) # 0
                              [] OTHER -> FALSE
                        how == Route(fd, name, t)
                    IN  /\ how = "daemon" <=> timed /\ local
                        /\ how = "none" <=> timed /\ kernel[fd] = "other"
                        /\ how = "fault" <=> timed /\ kernel[fd] = "PF_PACKET" /\ name = None
  BY DEF RouteRight
<1> DEFINE timed == wanted[fd].txtime = 1 /\ t
           how == Route(fd, name, t)
           subnet == name # None /\ \E ix \in IfIndexes :
                         Primary(ix) # 0 /\ name.sin_addr \in ifaddrs[Primary(ix)].net
           port == name # None /\ Primary(name.sll_ifindex) # 0
           net == kt_interface_get_by_net(name)
           iface == kt_interface_find(name.sll_ifindex)
<1>1. kernel[fd] \in {"AF_INET", "PF_PACKET", "other"}
  BY DEF SockInv, Domains
<1>2. net # 0 <=> subnet
  BY FindSubnet
<1>3. iface # 0 <=> Primary(name.sll_ifindex) # 0
  BY FindInterface
<1>4. /\ ~timed => how = "default"
      /\ timed /\ kernel[fd] = "AF_INET" => how = IF net = 0 THEN "default" ELSE "daemon"
      /\ timed /\ kernel[fd] = "PF_PACKET" =>
             how = IF name = None THEN "fault" ELSE IF iface = 0 THEN "default" ELSE "daemon"
      /\ timed /\ kernel[fd] = "other" => how = "none"
  BY RouteSpec
<1> HIDE DEF timed, how, subnet, net, iface
<1>5. /\ how = "none" <=> timed /\ kernel[fd] = "other"
      /\ how = "fault" <=> timed /\ kernel[fd] = "PF_PACKET" /\ name = None
  BY <1>1, <1>4
<1>6. how = "daemon" <=> \/ timed /\ kernel[fd] = "AF_INET" /\ subnet
                         \/ timed /\ kernel[fd] = "PF_PACKET" /\ port
  BY <1>1, <1>2, <1>3, <1>4
<1> DEFINE local == CASE kernel[fd] = "AF_INET" -> subnet
                      [] kernel[fd] = "PF_PACKET" -> port
                      [] OTHER -> FALSE
<1>7. how = "daemon" <=> timed /\ local
  BY <1>1, <1>6
<1> QED  BY <1>5, <1>7 DEF timed, how, subnet

\* Neither list of the host changes after the start.
LEMMA HostStep == HostInv /\ [SockNext]_sockVars => HostInv'
<1> SUFFICES ASSUME HostInv, [SockNext]_sockVars  PROVE UNCHANGED hosts
  BY DEF HostInv, hosts
<1> QED  BY DEF SockNext, AnyCall, Socket, SetTxtime, SetPriority, SetOption, Close,
                OpenElsewhere, CloseElsewhere, SendToDaemon, SlotReturned, sockVars, hosts

\* HostInv holds at the start.
LEMMA HostInit == SockInit => HostInv
<1>1. ASSUME SockInit  PROVE ifaddrs \in Seq(IfAddr)
  <2>1. PICK m \in 0..MaxIfAddrs : ifaddrs \in [1..m -> IfAddr]
    BY <1>1 DEF SockInit, BoundedSeq, SeqOf
  <2>2. m \in Nat
    BY SocketsAssumption
  <2> QED  BY <2>1, <2>2, SeqDef
<1> QED  BY <1>1, QueryListed DEF SockInit, HostInv

\* For every program, any number of descriptors and whatever getifaddrs
\* returned at the start, sendmsg makes the choice that RouteRight asks for.
THEOREM RouteCorrect == SockSpec => []RouteRight
<1> QED  BY SockInvariant, HostInit, HostStep, RightRoute, PTL DEF SockSpec

\* Every message of tsn_perf goes the way that RouteRight asks for, and the
\* list of sockets is right about tsn_perf's descriptor.
THEOREM PerfRouted == Spec => [](TableFaithful /\ RouteRight)
  BY PerfRefines, ListFaithful, RouteCorrect, PTL
=============================================================================
