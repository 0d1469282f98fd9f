----------------------------- MODULE PacketList -----------------------------
(***************************************************************************)
(* The list of packets of src/lib/packet.cpp: the tree of packets that     *)
(* wait for a reply, the table of sockets they leave from, and the bitmaps *)
(* that say which RADIUS Id is in use towards which destination on which   *)
(* socket.  The server keeps one such list for the requests it proxies     *)
(* (event.cpp), radclient one for the requests it sends.                   *)
(*                                                                         *)
(* A slot is an index of pl->sockets; a bitmap of slots is a set of slots. *)
(* The source port is a function of the socket, so sockfd stands for both. *)
(***************************************************************************)
EXTENDS Integers, FiniteSets

CONSTANTS
    Packets,      \* the callers' RADIUS_PACKETs
    Fds,          \* file descriptors the callers may open
    Dsts,         \* destinations: an IP address and a port
    Addrs,        \* source addresses of this host
    AnyAddr,      \* INADDR_ANY
    SockAddr,     \* what getsockname() says of each descriptor
    MaxSockets,   \* MAX_SOCKETS, 32 in the code
    NumIds        \* RADIUS Ids per socket and destination, 256 in the code

NoFd == -1
Slots == 0 .. MaxSockets - 1
Ids == 0 .. NumIds - 1

ASSUME PacketListAssumption ==
    /\ Fds \subseteq Nat
    /\ AnyAddr \notin Addrs
    /\ SockAddr \in [Fds -> Addrs \cup {AnyAddr}]
    /\ MaxSockets \in Nat \ {0}
    /\ NumIds \in Nat \ {0}
    /\ IsFiniteSet(Packets)

VARIABLES
    sockets,       \* pl->sockets[].sockfd, per slot
    outgoing,      \* pl->sockets[].num_outgoing, per slot
    mask,          \* pl->mask: the slots Ids may be allocated on
    inUse,         \* dst2id_ht: inUse[d][i] is the bitmap pd->id[i] of destination d
    num_outgoing,  \* pl->num_outgoing
    tree,          \* pl->tree: the packets inserted and not yanked
    pkt,           \* the fields of each packet that the list reads or writes
    stage          \* where the caller is with each packet

vars == <<sockets, outgoing, mask, inUse, num_outgoing, tree, pkt, stage>>

(***************************************************************************)
(* The caller's progress with a packet.  Both callers follow the rules of  *)
(* the header comments: allocate, insert, yank, free the Id.               *)
(***************************************************************************)
Stages == {"idle", "allocated", "listed", "yanked"}

Packet == [sockfd: Fds \cup {NoFd}, id: Ids, src: Addrs \cup {AnyAddr}, dst: Dsts]

TypeOK ==
    /\ sockets \in [Slots -> Fds \cup {NoFd}]
    /\ outgoing \in [Slots -> Int]
    /\ mask \in SUBSET Slots
    /\ inUse \in [Dsts -> [Ids -> SUBSET Slots]]
    /\ num_outgoing \in Int
    /\ tree \in SUBSET Packets
    /\ pkt \in [Packets -> Packet]
    /\ stage \in [Packets -> Stages]

-----------------------------------------------------------------------------
\* SOCK2OFFSET: FNV_MAGIC_PRIME * sockfd, reduced to a slot.
SOCK2OFFSET(fd) == (fd * (16777619 % MaxSockets)) % MaxSockets

\* How many slots a probe that starts at fd's own slot visits before slot s.
Probe(fd, s) == (s - SOCK2OFFSET(fd) + MaxSockets) % MaxSockets

\* The slots that hold the descriptor, the one a probe meets first in front.
fr_socket_find(fd) ==
    {s \in Slots : sockets[s] = fd /\ \A t \in Slots : sockets[t] = fd => Probe(fd, s) <= Probe(fd, t)}

\* fr_packet_cmp: packets that agree on these are the same entry of the tree.
Key(p) == <<pkt[p].sockfd, pkt[p].id, pkt[p].dst, pkt[p].src>>

\* rbtree_finddata: the entries of the tree that have a key.
Find(key) == {q \in tree : Key(q) = key}

-----------------------------------------------------------------------------
Init ==
    /\ sockets = [s \in Slots |-> NoFd]
    /\ outgoing = [s \in Slots |-> 0]
    /\ mask = {}
    /\ inUse = [d \in Dsts |-> [i \in Ids |-> {}]]
    /\ num_outgoing = 0
    /\ tree = {}
    /\ pkt \in [Packets -> [sockfd: {NoFd}, id: {0}, src: {AnyAddr}, dst: Dsts]]
    /\ stage = [p \in Packets |-> "idle"]

\* fr_packet_list_socket_add: the first free slot of the probe takes the
\* descriptor.  When getsockname() fails the slot stays taken, its bit clear.
SocketAdd(fd, nameKnown) ==
    /\ \A s \in Slots : sockets[s] # fd       \* a descriptor the caller just opened
    /\ \E s \in Slots :
         /\ sockets[s] = NoFd
         /\ \A t \in Slots : sockets[t] = NoFd => Probe(fd, s) <= Probe(fd, t)
         /\ sockets' = [sockets EXCEPT ![s] = fd]
         /\ outgoing' = [outgoing EXCEPT ![s] = 0]
         /\ mask' = IF nameKnown THEN mask \cup {s} ELSE mask
    /\ UNCHANGED <<inUse, num_outgoing, tree, pkt, stage>>

\* fr_packet_list_socket_remove: refused while the socket has Ids in use.
SocketRemove(fd) ==
    /\ \E s \in fr_socket_find(fd) :
         /\ outgoing[s] = 0
         /\ sockets' = [sockets EXCEPT ![s] = NoFd]
         /\ mask' = mask \ {s}
    /\ UNCHANGED <<outgoing, inUse, num_outgoing, tree, pkt, stage>>

\* A socket may carry a packet whose caller asked for source address src.
\* (A socket whose getsockname() failed has no address family: no match.)
Suits(s, src) ==
    /\ sockets[s] # NoFd
    /\ s \in mask
    /\ src = AnyAddr \/ SockAddr[sockets[s]] = src

\* The Ids the search may stop at: it starts at a random Id and takes the
\* first whose bitmap is not the mask, so it may stop at any of them.
FreeIds(d) == {i \in Ids : inUse[d][i] # mask}

\* MUTANT: the bitmap of the Id is not looked at.
AnySlots(d, i, src) == {s \in Slots : Suits(s, src)}

\* The sockets left for Id i towards d, of which the lowest slot is taken.
FreeSlots(d, i, src) == {s \in Slots : Suits(s, src) /\ s \in mask \ inUse[d][i]}

\* fr_packet_list_id_alloc, the successful return.
IdAlloc(p, d, src) ==
    /\ stage[p] = "idle"
    /\ \E i \in FreeIds(d) : \E s \in FreeSlots(d, i, src) :
         /\ \A t \in FreeSlots(d, i, src) : s <= t
         /\ inUse' = [inUse EXCEPT ![d][i] = @ \cup {s}]
         /\ outgoing' = [outgoing EXCEPT ![s] = @ + 1]
         /\ num_outgoing' = num_outgoing + 1
         /\ pkt' = [pkt EXCEPT ![p] = [sockfd |-> sockets[s], id |-> i,
                                       src |-> SockAddr[sockets[s]], dst |-> d]]
    /\ stage' = [stage EXCEPT ![p] = "allocated"]
    /\ UNCHANGED <<sockets, mask, tree>>

\* fr_packet_list_id_alloc returns 0: "All IDs are being used", or "Internal sanity
\* check failed": the second happens when the Id found is free on no socket
\* that suits, even if the next Id is.
IdAllocFails(p, d, src) ==
    /\ stage[p] = "idle"
    /\ \/ FreeIds(d) = {}
       \/ \E i \in FreeIds(d) : FreeSlots(d, i, src) = {}
    /\ UNCHANGED <<sockets, outgoing, mask, inUse, num_outgoing, tree, pkt, stage>>

\* fr_packet_list_insert: the tree refuses a second entry with the same key.
Insert(p) ==
    /\ stage[p] = "allocated"
    /\ Find(Key(p)) = {}
    /\ tree' = tree \cup {p}
    /\ stage' = [stage EXCEPT ![p] = "listed"]
    /\ UNCHANGED <<sockets, outgoing, mask, inUse, num_outgoing, pkt>>

\* fr_packet_list_yank: by key, whatever entry has it.
Yank(p) ==
    /\ stage[p] = "listed"
    /\ tree' = tree \ Find(Key(p))
    /\ stage' = [stage EXCEPT ![p] = "yanked"]
    /\ UNCHANGED <<sockets, outgoing, mask, inUse, num_outgoing, pkt>>

\* MUTANT: the bit stays set.
IdFreeKeepsBit(p) ==
    /\ stage[p] = "yanked"
    /\ \E s \in fr_socket_find(pkt[p].sockfd) : outgoing' = [outgoing EXCEPT ![s] = @ - 1]
    /\ num_outgoing' = num_outgoing - 1
    /\ stage' = [stage EXCEPT ![p] = "idle"]
    /\ UNCHANGED <<sockets, mask, inUse, tree, pkt>>

\* MUTANT: the socket's own count is not lowered.
IdFreeKeepsCount(p) ==
    /\ stage[p] = "yanked"
    /\ \E s \in fr_socket_find(pkt[p].sockfd) :
         inUse' = [inUse EXCEPT ![pkt[p].dst][pkt[p].id] = @ \ {s}]
    /\ num_outgoing' = num_outgoing - 1
    /\ stage' = [stage EXCEPT ![p] = "idle"]
    /\ UNCHANGED <<sockets, outgoing, mask, tree, pkt>>

\* fr_packet_list_id_free.
IdFree(p) ==
    /\ stage[p] = "yanked"
    /\ \E s \in fr_socket_find(pkt[p].sockfd) :
         /\ inUse' = [inUse EXCEPT ![pkt[p].dst][pkt[p].id] = @ \ {s}]
         /\ outgoing' = [outgoing EXCEPT ![s] = @ - 1]
    /\ num_outgoing' = num_outgoing - 1
    /\ stage' = [stage EXCEPT ![p] = "idle"]
    /\ UNCHANGED <<sockets, mask, tree, pkt>>

Next ==
    \/ \E fd \in Fds : \E nameKnown \in BOOLEAN : SocketAdd(fd, nameKnown)
    \/ \E fd \in Fds : SocketRemove(fd)
    \/ \E p \in Packets, d \in Dsts, src \in Addrs \cup {AnyAddr} :
         IdAlloc(p, d, src) \/ IdAllocFails(p, d, src)
    \/ \E p \in Packets : Insert(p) \/ Yank(p) \/ IdFree(p)

Spec == Init /\ [][Next]_vars

-----------------------------------------------------------------------------
\* The packets whose Id is allocated and not yet freed.
Held == {p \in Packets : stage[p] # "idle"}

\* The bit a packet's allocation has set.
Owns(p, d, i, s) ==
    p \in Held /\ pkt[p].dst = d /\ pkt[p].id = i /\ pkt[p].sockfd = sockets[s] /\ sockets[s] # NoFd

\* "If a bit is 1, then that ID is in use for that socket" (packet.cpp): a bit
\* is set exactly when some packet holds that Id on that socket towards that
\* destination, through any sequence of adds and removes of sockets.
IdBitsAreOwned ==
    \A d \in Dsts, i \in Ids, s \in Slots :
        s \in inUse[d][i] <=> \E p \in Packets : Owns(p, d, i, s)

\* No two packets ever hold the same Id on the same socket towards the same
\* destination, so that a reply names one request and
\* fr_packet_list_insert() never meets a second entry with its key.
NoIdCollision ==
    \A p, q \in Held : p # q => Key(p) # Key(q)

\* The tree holds exactly the packets whose callers believe them listed:
\* fr_packet_list_yank(), which deletes by key, never takes another's entry.
ListedIsInTree ==
    \A p \in Packets : p \in tree <=> stage[p] = "listed"

\* A socket may be removed only when no bit of it is left, and the slot's
\* next owner starts clean: num_outgoing counts the packets that hold an Id.
OutgoingCounts ==
    /\ \A s \in Slots : sockets[s] # NoFd =>
         outgoing[s] = Cardinality({p \in Held : pkt[p].sockfd = sockets[s]})
    /\ num_outgoing = Cardinality(Held)

\* MUTANT: a socket bound to INADDR_ANY is not treated specially.
ReplyKeyAsReceived(fd, id, from, to) == <<fd, id, from, to>>

\* fr_packet_list_find_byreply() on a reply from the destination of p: the key
\* it builds from the socket, the reply's Id, source and destination address.
ReplyKey(fd, id, from, to) ==
    <<fd, id, from, IF SockAddr[fd] = AnyAddr THEN SockAddr[fd] ELSE to>>

\* A reply to a listed packet finds that packet and no other, whichever of the
\* host's addresses it arrived at when the socket is bound to INADDR_ANY.
ReplyFindsItsRequest ==
    \A p \in tree : \A to \in Addrs :
        (SockAddr[pkt[p].sockfd] \in {AnyAddr, to}) =>
            Find(ReplyKey(pkt[p].sockfd, pkt[p].id, pkt[p].dst, to)) = {p}

-----------------------------------------------------------------------------
\* The sockets of the table, and what each packet holds.
OpenSockets == {sockets[s] : s \in Slots} \ {NoFd}
Holds == [p \in Packets |->
            IF stage[p] = "idle" THEN <<>> ELSE <<pkt[p].sockfd, pkt[p].dst, pkt[p].id>>]

Space == INSTANCE IdSpace WITH open <- OpenSockets, holds <- Holds, Nothing <- <<>>

\* The bitmaps, the masks, the counts and the probe together implement the
\* space of Ids the callers see: fr_packet_list_id_alloc() hands out only what
\* nobody holds, on a socket of the list, and fr_packet_list_socket_remove()
\* takes no socket away from under an Id.
ImplementsIdSpace == Space!Spec

=============================================================================
