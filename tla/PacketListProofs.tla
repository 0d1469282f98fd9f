-------------------------- MODULE PacketListProofs --------------------------
(***************************************************************************)
(* For every number of packets, sockets, destinations and Ids: an Id is    *)
(* marked in use exactly while one packet holds it, no two packets share   *)
(* one, and a reply finds the packet it answers.                           *)
(*                                                                         *)
(* The inductive invariant adds to the properties of the runs that a       *)
(* descriptor is in one slot, and that the socket of a packet with an Id   *)
(* stays in the table: num_outgoing is what keeps it there, so the counts  *)
(* are part of the induction.                                              *)
(***************************************************************************)
EXTENDS PacketList, FiniteSetTheorems, TLAPS

\* A descriptor is in one slot, and a slot of the mask has a descriptor.
SocketsOnce ==
    /\ \A s, t \in Slots : sockets[s] # NoFd /\ sockets[s] = sockets[t] => s = t
    /\ \A s \in mask : sockets[s] # NoFd

\* A packet with an Id has its socket in the table, and the socket's address.
HeldHasSocket ==
    \A p \in Held :
        /\ \E s \in mask : sockets[s] = pkt[p].sockfd
        /\ pkt[p].sockfd \in Fds
        /\ pkt[p].src = SockAddr[pkt[p].sockfd]

Inv ==
    /\ TypeOK
    /\ SocketsOnce
    /\ HeldHasSocket
    /\ IdBitsAreOwned
    /\ NoIdCollision
    /\ ListedIsInTree
    /\ OutgoingCounts

\* The packets that hold an Id on a socket.
Users(fd) == {p \in Held : pkt[p].sockfd = fd}

LEMMA FdIsNat == \A fd \in Fds : fd # NoFd
  BY PacketListAssumption DEF NoFd

LEMMA HeldFinite == IsFiniteSet(Held) /\ \A fd : IsFiniteSet(Users(fd))
  <1>1. Held \in SUBSET Packets /\ \A fd : Users(fd) \in SUBSET Packets
    BY DEF Held, Users
  <1>2. QED
    BY <1>1, FS_Subset, PacketListAssumption

\* A held packet's slot is in the table and is the only one with its socket.
LEMMA HeldSlot ==
    ASSUME Inv, NEW p \in Held
    PROVE  \E s \in Slots : s \in mask /\ sockets[s] = pkt[p].sockfd /\ sockets[s] # NoFd
  BY DEF Inv, HeldHasSocket, SocketsOnce, TypeOK

\* The key of a held packet follows from its socket, Id and destination.
LEMMA SameKey ==
    ASSUME Inv, NEW p \in Held, NEW q \in Held,
           pkt[p].sockfd = pkt[q].sockfd, pkt[p].id = pkt[q].id, pkt[p].dst = pkt[q].dst
    PROVE  p = q
  <1>1. Key(p) = Key(q)
    BY DEF Key, Inv, HeldHasSocket
  <1>2. QED
    BY <1>1 DEF Inv, NoIdCollision

-----------------------------------------------------------------------------
LEMMA InitInv == Init => Inv
  <1> SUFFICES ASSUME Init PROVE Inv
    OBVIOUS
  <1>1. Held = {}
    BY DEF Init, Held
  <1>2. TypeOK
    <2>1. 0 \in Ids
      BY PacketListAssumption DEF Ids
    <2>2. pkt \in [Packets -> Packet]
      BY <2>1 DEF Init, Packet
    <2>3. QED
      BY <2>2 DEF Init, TypeOK, Stages
  <1>3. SocketsOnce /\ HeldHasSocket /\ NoIdCollision /\ ListedIsInTree
    BY <1>1 DEF Init, SocketsOnce, HeldHasSocket, NoIdCollision, ListedIsInTree
  <1>4. IdBitsAreOwned
    BY <1>1 DEF Init, IdBitsAreOwned, Owns
  <1>5. OutgoingCounts
    BY <1>1, FS_EmptySet DEF Init, OutgoingCounts
  <1>6. QED
    BY <1>2, <1>3, <1>4, <1>5 DEF Inv

LEMMA SocketAddInv ==
    ASSUME Inv, NEW fd \in Fds, NEW nameKnown \in BOOLEAN, SocketAdd(fd, nameKnown)
    PROVE  Inv'
  <1> PICK s \in Slots :
        /\ sockets[s] = NoFd
        /\ sockets' = [sockets EXCEPT ![s] = fd]
        /\ outgoing' = [outgoing EXCEPT ![s] = 0]
        /\ mask' = IF nameKnown THEN mask \cup {s} ELSE mask
    BY DEF SocketAdd
  <1>1. /\ \A t \in Slots : sockets[t] # fd
        /\ UNCHANGED <<inUse, num_outgoing, tree, pkt, stage>>
        /\ Held' = Held
    BY DEF SocketAdd, Held
  <1>2. fd # NoFd /\ TypeOK
    BY FdIsNat DEF Inv
  <1>3. TypeOK'
    BY <1>1, <1>2 DEF TypeOK
  <1>4. \A t \in Slots : sockets'[t] = IF t = s THEN fd ELSE sockets[t]
    BY <1>2 DEF TypeOK
  <1>5. SocketsOnce'
    BY <1>1, <1>2, <1>4 DEF Inv, SocketsOnce, TypeOK
  <1>6. \A p \in Held : pkt[p].sockfd # fd
    BY <1>1, HeldSlot
  <1>7. HeldHasSocket'
    <2> SUFFICES ASSUME NEW p \in Held
                 PROVE  \E t \in mask' : sockets'[t] = pkt[p].sockfd
      BY <1>1 DEF HeldHasSocket, Inv
    <2>1. PICK t \in Slots : t \in mask /\ sockets[t] = pkt[p].sockfd /\ sockets[t] # NoFd
      BY HeldSlot
    <2>2. QED
      BY <1>4, <2>1
  <1>8. IdBitsAreOwned'
    <2> SUFFICES ASSUME NEW d \in Dsts, NEW i \in Ids, NEW t \in Slots
                 PROVE  t \in inUse[d][i] <=> \E p \in Packets : Owns(p, d, i, t)'
      BY <1>1 DEF IdBitsAreOwned
    <2>1. t \in inUse[d][i] <=> \E p \in Packets : Owns(p, d, i, t)
      BY DEF Inv, IdBitsAreOwned
    <2>2. \A p \in Packets : Owns(p, d, i, t)' <=> Owns(p, d, i, t)
      BY <1>1, <1>4, <1>6 DEF Owns
    <2>3. QED
      BY <2>1, <2>2
  <1>9. NoIdCollision' /\ ListedIsInTree'
    BY <1>1 DEF Inv, NoIdCollision, ListedIsInTree, Key
  <1>10. OutgoingCounts'
    <2>1. Users(fd) = {}
      BY <1>6 DEF Users
    <2>2. \A t \in Slots : sockets'[t] # NoFd => outgoing'[t] = Cardinality(Users(sockets'[t]))
      <3> SUFFICES ASSUME NEW t \in Slots, sockets'[t] # NoFd
                   PROVE  outgoing'[t] = Cardinality(Users(sockets'[t]))
        OBVIOUS
      <3>1. CASE t = s
        BY <1>2, <1>4, <2>1, <3>1, FS_EmptySet DEF TypeOK
      <3>2. CASE t # s
        BY <1>2, <1>4, <3>2 DEF Inv, OutgoingCounts, Users, TypeOK
      <3>3. QED
        BY <3>1, <3>2
    <2>3. QED
      BY <1>1, <2>2 DEF OutgoingCounts, Users, Inv
  <1>11. QED
    BY <1>3, <1>5, <1>7, <1>8, <1>9, <1>10 DEF Inv

LEMMA SocketRemoveInv ==
    ASSUME Inv, NEW fd \in Fds, SocketRemove(fd)
    PROVE  Inv'
  <1> PICK s \in Slots :
        /\ sockets[s] = fd
        /\ outgoing[s] = 0
        /\ sockets' = [sockets EXCEPT ![s] = NoFd]
        /\ mask' = mask \ {s}
    BY DEF SocketRemove, fr_socket_find
  <1>1. /\ UNCHANGED <<outgoing, inUse, num_outgoing, tree, pkt, stage>>
        /\ Held' = Held
    BY DEF SocketRemove, Held
  <1>2. fd # NoFd /\ TypeOK
    BY FdIsNat DEF Inv
  <1>3. TypeOK'
    BY <1>1, <1>2 DEF TypeOK
  <1>4. \A t \in Slots : sockets'[t] = IF t = s THEN NoFd ELSE sockets[t]
    BY <1>2 DEF TypeOK
  <1>5. SocketsOnce'
    BY <1>2, <1>4 DEF Inv, SocketsOnce, TypeOK
  <1>6. \A p \in Held : pkt[p].sockfd # fd
    <2>1. Cardinality(Users(fd)) = 0
      BY <1>2 DEF Inv, OutgoingCounts, Users
    <2>2. Users(fd) = {}
      BY <2>1, HeldFinite, FS_EmptySet
    <2>3. QED
      BY <2>2 DEF Users
  <1>7. HeldHasSocket'
    <2> SUFFICES ASSUME NEW p \in Held
                 PROVE  \E t \in mask' : sockets'[t] = pkt[p].sockfd
      BY <1>1 DEF HeldHasSocket, Inv
    <2>1. PICK t \in Slots : t \in mask /\ sockets[t] = pkt[p].sockfd /\ sockets[t] # NoFd
      BY HeldSlot
    <2>2. t # s
      BY <1>6, <2>1
    <2>3. QED
      BY <1>4, <2>1, <2>2
  <1>8. IdBitsAreOwned'
    <2> SUFFICES ASSUME NEW d \in Dsts, NEW i \in Ids, NEW t \in Slots
                 PROVE  t \in inUse[d][i] <=> \E p \in Packets : Owns(p, d, i, t)'
      BY <1>1 DEF IdBitsAreOwned
    <2>1. t \in inUse[d][i] <=> \E p \in Packets : Owns(p, d, i, t)
      BY DEF Inv, IdBitsAreOwned
    <2>2. \A p \in Packets : Owns(p, d, i, t)' <=> Owns(p, d, i, t)
      BY <1>1, <1>4, <1>6 DEF Owns
    <2>3. QED
      BY <2>1, <2>2
  <1>9. NoIdCollision' /\ ListedIsInTree'
    BY <1>1 DEF Inv, NoIdCollision, ListedIsInTree, Key
  <1>10. OutgoingCounts'
    BY <1>1, <1>4 DEF Inv, OutgoingCounts
  <1>11. QED
    BY <1>3, <1>5, <1>7, <1>8, <1>9, <1>10 DEF Inv

LEMMA IdAllocInv ==
    ASSUME Inv, NEW p \in Packets, NEW d \in Dsts, NEW src \in Addrs \cup {AnyAddr},
           IdAlloc(p, d, src)
    PROVE  Inv'
  <1> PICK i \in Ids, s \in Slots :
        /\ s \in mask /\ s \notin inUse[d][i] /\ sockets[s] # NoFd
        /\ inUse' = [inUse EXCEPT ![d][i] = @ \cup {s}]
        /\ outgoing' = [outgoing EXCEPT ![s] = @ + 1]
        /\ pkt' = [pkt EXCEPT ![p] = [sockfd |-> sockets[s], id |-> i,
                                      src |-> SockAddr[sockets[s]], dst |-> d]]
    BY DEF IdAlloc, FreeIds, FreeSlots, Suits
  <1>1. /\ UNCHANGED <<sockets, mask, tree>>
        /\ num_outgoing' = num_outgoing + 1
        /\ stage[p] = "idle"
        /\ stage' = [stage EXCEPT ![p] = "allocated"]
        /\ TypeOK
    BY DEF IdAlloc, Inv
  <1>2. p \notin Held /\ Held' = Held \cup {p}
    BY <1>1 DEF Held, TypeOK
  <1>3. sockets[s] \in Fds /\ SockAddr[sockets[s]] \in Addrs \cup {AnyAddr}
    BY <1>1, PacketListAssumption DEF TypeOK
  <1>4. /\ pkt'[p] = [sockfd |-> sockets[s], id |-> i, src |-> SockAddr[sockets[s]], dst |-> d]
        /\ \A q \in Packets \ {p} : pkt'[q] = pkt[q]
    BY <1>1 DEF TypeOK
  <1>5. TypeOK'
    <2>1. pkt' \in [Packets -> Packet]
      BY <1>1, <1>3 DEF TypeOK, Packet
    <2>2. inUse' \in [Dsts -> [Ids -> SUBSET Slots]]
      BY <1>1 DEF TypeOK
    <2>3. outgoing' \in [Slots -> Int] /\ stage' \in [Packets -> Stages]
      BY <1>1 DEF TypeOK, Stages
    <2>4. QED
      BY <1>1, <2>1, <2>2, <2>3 DEF TypeOK
  <1>6. SocketsOnce'
    BY <1>1 DEF Inv, SocketsOnce
  <1>7. HeldHasSocket'
    <2> SUFFICES ASSUME NEW q \in Held'
                 PROVE  /\ \E t \in mask : sockets[t] = pkt'[q].sockfd
                        /\ pkt'[q].sockfd \in Fds
                        /\ pkt'[q].src = SockAddr[pkt'[q].sockfd]
      BY <1>1 DEF HeldHasSocket
    <2>1. CASE q = p
      BY <1>3, <1>4, <2>1
    <2>2. CASE q # p
      <3>1. q \in Held /\ pkt'[q] = pkt[q]
        BY <1>2, <1>4, <2>2 DEF Held
      <3>2. QED
        BY <3>1 DEF Inv, HeldHasSocket
    <2>3. QED
      BY <2>1, <2>2
  <1>8. \A q \in Held : ~(pkt[q].dst = d /\ pkt[q].id = i /\ pkt[q].sockfd = sockets[s])
    BY DEF Inv, IdBitsAreOwned, Owns, Held
  <1>9. IdBitsAreOwned'
    <2> SUFFICES ASSUME NEW e \in Dsts, NEW j \in Ids, NEW t \in Slots
                 PROVE  t \in inUse'[e][j] <=> \E q \in Packets : Owns(q, e, j, t)'
      BY DEF IdBitsAreOwned
    <2>1. t \in inUse[e][j] <=> \E q \in Packets : Owns(q, e, j, t)
      BY DEF Inv, IdBitsAreOwned
    <2>2. t \in inUse'[e][j] <=> t \in inUse[e][j] \/ (e = d /\ j = i /\ t = s)
      BY <1>1 DEF TypeOK
    <2>3. \A q \in Packets \ {p} : Owns(q, e, j, t)' <=> Owns(q, e, j, t)
      BY <1>1, <1>2, <1>4 DEF Owns
    <2>4. Owns(p, e, j, t)' <=> (e = d /\ j = i /\ t = s)
      BY <1>1, <1>2, <1>4 DEF Owns, Inv, SocketsOnce
    <2>5. ~Owns(p, e, j, t)
      BY <1>2 DEF Owns
    <2>6. QED
      BY <2>1, <2>2, <2>3, <2>4, <2>5
  <1>10. NoIdCollision'
    <2> SUFFICES ASSUME NEW q \in Held', NEW r \in Held', q # r
                 PROVE  Key(q)' # Key(r)'
      BY DEF NoIdCollision
    <2>1. CASE q # p /\ r # p
      <3>1. q \in Held /\ r \in Held /\ pkt'[q] = pkt[q] /\ pkt'[r] = pkt[r]
        BY <1>2, <1>4, <2>1 DEF Held
      <3>2. QED
        BY <3>1 DEF Inv, NoIdCollision, Key
    <2>2. CASE q = p \/ r = p
      BY <1>2, <1>4, <1>8, <2>2 DEF Key, Held
    <2>3. QED
      BY <2>1, <2>2
  <1>11. ListedIsInTree'
    BY <1>1 DEF Inv, ListedIsInTree, TypeOK
  <1>12. OutgoingCounts'
    <2>1. Users(sockets[s])' = Users(sockets[s]) \cup {p} /\ p \notin Users(sockets[s])
      BY <1>1, <1>2, <1>4 DEF Users, Held
    <2>2. Cardinality(Users(sockets[s])') = Cardinality(Users(sockets[s])) + 1
      BY <2>1, HeldFinite, FS_AddElement
    <2>3. ASSUME NEW t \in Slots, sockets[t] # NoFd
          PROVE  outgoing'[t] = Cardinality(Users(sockets[t])')
      <3>1. outgoing[t] = Cardinality(Users(sockets[t]))
        BY <2>3 DEF Inv, OutgoingCounts, Users
      <3>2. CASE t = s
        BY <1>1, <2>2, <3>1, <3>2 DEF TypeOK
      <3>3. CASE t # s
        <4>1. sockets[t] # sockets[s]
          BY <2>3, <3>3 DEF Inv, SocketsOnce
        <4>2. Users(sockets[t])' = Users(sockets[t])
          BY <1>1, <1>2, <1>4, <4>1 DEF Users, Held
        <4>3. outgoing'[t] = outgoing[t]
          BY <1>1, <3>3 DEF TypeOK
        <4>4. QED
          BY <3>1, <4>2, <4>3
      <3>4. QED
        BY <3>2, <3>3
    <2>4. num_outgoing' = Cardinality(Held')
      BY <1>1, <1>2, HeldFinite, FS_AddElement DEF Inv, OutgoingCounts
    <2>5. QED
      BY <1>1, <2>3, <2>4 DEF OutgoingCounts, Users
  <1>13. QED
    BY <1>5, <1>6, <1>7, <1>9, <1>10, <1>11, <1>12 DEF Inv

\* A step that moves no packet into or out of Held keeps all but the tree.
LEMMA HeldSame ==
    ASSUME Inv, Held' = Held, TypeOK', ListedIsInTree',
           UNCHANGED <<sockets, outgoing, mask, inUse, num_outgoing, pkt>>
    PROVE  Inv'
  <1>1. SocketsOnce' /\ HeldHasSocket'
    BY DEF Inv, SocketsOnce, HeldHasSocket
  <1>2. IdBitsAreOwned'
    BY DEF Inv, IdBitsAreOwned, Owns
  <1>3. NoIdCollision' /\ OutgoingCounts'
    BY DEF Inv, NoIdCollision, Key, OutgoingCounts
  <1>4. QED
    BY <1>1, <1>2, <1>3 DEF Inv

LEMMA InsertInv == ASSUME Inv, NEW p \in Packets, Insert(p) PROVE Inv'
  <1>1. Held' = Held /\ TypeOK'
    BY DEF Insert, Held, Inv, TypeOK, Stages
  <1>2. ListedIsInTree'
    BY DEF Insert, Inv, ListedIsInTree, TypeOK
  <1>3. QED
    BY <1>1, <1>2, HeldSame DEF Insert

\* fr_packet_list_yank() by key meets exactly the packet that was listed.
LEMMA FindsItself == ASSUME Inv, NEW p \in tree PROVE Find(Key(p)) = {p}
  <1>1. \A q \in tree : q \in Held
    BY DEF Inv, ListedIsInTree, TypeOK, Held
  <1>2. QED
    BY <1>1 DEF Inv, NoIdCollision, Find

LEMMA YankInv == ASSUME Inv, NEW p \in Packets, Yank(p) PROVE Inv'
  <1>1. tree' = tree \ {p}
    BY FindsItself DEF Yank, Inv, ListedIsInTree
  <1>2. Held' = Held /\ TypeOK'
    BY <1>1 DEF Yank, Held, Inv, TypeOK, Stages
  <1>3. ListedIsInTree'
    BY <1>1 DEF Yank, Inv, ListedIsInTree, TypeOK
  <1>4. QED
    BY <1>2, <1>3, HeldSame DEF Yank

LEMMA IdAllocFailsInv ==
    ASSUME Inv, NEW p \in Packets, NEW d \in Dsts, NEW src, IdAllocFails(p, d, src)
    PROVE  Inv'
  <1>1. Held' = Held /\ TypeOK' /\ ListedIsInTree'
    BY DEF IdAllocFails, Held, Inv, TypeOK, ListedIsInTree
  <1>2. QED
    BY <1>1, HeldSame DEF IdAllocFails

LEMMA IdFreeInv == ASSUME Inv, NEW p \in Packets, IdFree(p) PROVE Inv'
  <1> PICK s \in Slots :
        /\ sockets[s] = pkt[p].sockfd
        /\ inUse' = [inUse EXCEPT ![pkt[p].dst][pkt[p].id] = @ \ {s}]
        /\ outgoing' = [outgoing EXCEPT ![s] = @ - 1]
    BY DEF IdFree, fr_socket_find
  <1> DEFINE d == pkt[p].dst
             i == pkt[p].id
  <1>1. /\ UNCHANGED <<sockets, mask, tree, pkt>>
        /\ num_outgoing' = num_outgoing - 1
        /\ stage[p] = "yanked"
        /\ stage' = [stage EXCEPT ![p] = "idle"]
        /\ TypeOK
    BY DEF IdFree, Inv
  <1>2. p \in Held /\ Held' = Held \ {p}
    BY <1>1 DEF Held, TypeOK
  <1>3. sockets[s] # NoFd /\ d \in Dsts /\ i \in Ids
    BY <1>1, <1>2, FdIsNat DEF Inv, HeldHasSocket, TypeOK, Packet
  <1>4. TypeOK'
    <2>1. inUse' \in [Dsts -> [Ids -> SUBSET Slots]]
      BY <1>1, <1>3 DEF TypeOK
    <2>2. outgoing' \in [Slots -> Int] /\ stage' \in [Packets -> Stages]
      BY <1>1 DEF TypeOK, Stages
    <2>3. QED
      BY <1>1, <2>1, <2>2 DEF TypeOK
  <1>5. SocketsOnce' /\ HeldHasSocket' /\ NoIdCollision'
    BY <1>1, <1>2 DEF Inv, SocketsOnce, HeldHasSocket, NoIdCollision, Key
  <1>6. IdBitsAreOwned'
    <2> SUFFICES ASSUME NEW e \in Dsts, NEW j \in Ids, NEW t \in Slots
                 PROVE  t \in inUse'[e][j] <=> \E q \in Packets : Owns(q, e, j, t)'
      BY DEF IdBitsAreOwned
    <2>1. t \in inUse[e][j] <=> \E q \in Packets : Owns(q, e, j, t)
      BY DEF Inv, IdBitsAreOwned
    <2>2. t \in inUse'[e][j] <=> t \in inUse[e][j] /\ ~(e = d /\ j = i /\ t = s)
      BY <1>1, <1>3 DEF TypeOK
    <2>3. \A q \in Packets : Owns(q, e, j, t)' <=> Owns(q, e, j, t) /\ q # p
      BY <1>1, <1>2 DEF Owns
    <2>4. Owns(p, e, j, t) <=> (e = d /\ j = i /\ t = s)
      BY <1>2, <1>3 DEF Owns, Inv, SocketsOnce
    <2>5. \A q \in Packets : Owns(q, d, i, s) => q = p
      BY <1>2, SameKey DEF Owns
    <2>6. QED
      BY <2>1, <2>2, <2>3, <2>4, <2>5
  <1>7. ListedIsInTree'
    BY <1>1 DEF Inv, ListedIsInTree, TypeOK
  <1>8. OutgoingCounts'
    <2>1. Users(sockets[s])' = Users(sockets[s]) \ {p} /\ p \in Users(sockets[s])
      BY <1>1, <1>2 DEF Users
    <2>2. Cardinality(Users(sockets[s])') = Cardinality(Users(sockets[s])) - 1
      BY <2>1, HeldFinite, FS_RemoveElement
    <2>3. ASSUME NEW t \in Slots, sockets[t] # NoFd
          PROVE  outgoing'[t] = Cardinality(Users(sockets[t])')
      <3>1. outgoing[t] = Cardinality(Users(sockets[t]))
        BY <2>3 DEF Inv, OutgoingCounts, Users
      <3>2. CASE t = s
        BY <1>1, <2>2, <3>1, <3>2 DEF TypeOK
      <3>3. CASE t # s
        <4>1. sockets[t] # sockets[s]
          BY <2>3, <3>3 DEF Inv, SocketsOnce
        <4>2. Users(sockets[t])' = Users(sockets[t])
          BY <1>1, <1>2, <4>1 DEF Users
        <4>3. outgoing'[t] = outgoing[t]
          BY <1>1, <3>3 DEF TypeOK
        <4>4. QED
          BY <3>1, <4>2, <4>3
      <3>4. QED
        BY <3>2, <3>3
    <2>4. num_outgoing' = Cardinality(Held')
      BY <1>1, <1>2, HeldFinite, FS_RemoveElement DEF Inv, OutgoingCounts
    <2>5. QED
      BY <1>1, <2>3, <2>4 DEF OutgoingCounts, Users
  <1>9. QED
    BY <1>4, <1>5, <1>6, <1>7, <1>8 DEF Inv

-----------------------------------------------------------------------------
\* The inductive invariant holds in every behaviour of the packet list.
THEOREM InvTheorem == Spec => []Inv
  <1>1. Init => Inv
    BY InitInv
  <1>2. Inv /\ [Next]_vars => Inv'
    <2> SUFFICES ASSUME Inv, [Next]_vars PROVE Inv'
      OBVIOUS
    <2>1. CASE UNCHANGED vars
      <3>1. Held' = Held /\ TypeOK' /\ ListedIsInTree'
        BY <2>1 DEF vars, Held, Inv, TypeOK, ListedIsInTree
      <3>2. QED
        BY <2>1, <3>1, HeldSame DEF vars
    <2>2. QED
      BY <2>1, SocketAddInv, SocketRemoveInv, IdAllocInv, IdAllocFailsInv, InsertInv, YankInv, IdFreeInv
         DEF Next
  <1>3. QED
    BY <1>1, <1>2, PTL DEF Spec

\* "If a bit is 1, then that ID is in use for that socket, and the request
\* MUST be in the packet hash!" (packet.cpp): for any number of sockets,
\* destinations and Ids, a bit is set exactly while a packet holds the Id.
THEOREM BitsTheorem == Spec => []IdBitsAreOwned
  <1>1. Inv => IdBitsAreOwned
    BY DEF Inv
  <1>2. QED
    BY <1>1, InvTheorem, PTL

\* Two requests never share socket, destination and Id, however sockets come
\* and go, so fr_packet_list_insert() always finds its key unused.
THEOREM NoCollisionTheorem == Spec => []NoIdCollision
  <1>1. Inv => NoIdCollision
    BY DEF Inv
  <1>2. QED
    BY <1>1, InvTheorem, PTL

\* The counts that guard fr_packet_list_socket_remove() are exact.
THEOREM CountsTheorem == Spec => []OutgoingCounts
  <1>1. Inv => OutgoingCounts
    BY DEF Inv
  <1>2. QED
    BY <1>1, InvTheorem, PTL

\* fr_packet_list_find_byreply() returns the request that a reply answers and
\* no other, also on sockets bound to INADDR_ANY.
THEOREM ReplyTheorem == Spec => []ReplyFindsItsRequest
  <1>1. Inv => ReplyFindsItsRequest
    <2> SUFFICES ASSUME Inv, NEW p \in tree, NEW to \in Addrs,
                        SockAddr[pkt[p].sockfd] \in {AnyAddr, to}
                 PROVE  Find(ReplyKey(pkt[p].sockfd, pkt[p].id, pkt[p].dst, to)) = {p}
      BY DEF ReplyFindsItsRequest
    <2>1. p \in Held
      BY DEF Inv, ListedIsInTree, TypeOK, Held
    <2>2. ReplyKey(pkt[p].sockfd, pkt[p].id, pkt[p].dst, to) = Key(p)
      BY <2>1 DEF ReplyKey, Key, Inv, HeldHasSocket
    <2>3. QED
      BY <2>2, FindsItself
  <1>2. QED
    BY <1>1, InvTheorem, PTL
-----------------------------------------------------------------------------
LEMMA NotEmpty == \A a, b, c : <<a, b, c>> # <<>>
  OBVIOUS

\* What a packet with an Id holds, and that only such a packet holds anything.
LEMMA HoldsOf ==
    ASSUME TypeOK, NEW p \in Packets
    PROVE  /\ stage[p] = "idle" => Holds[p] = <<>>
           /\ stage[p] # "idle" => Holds[p] = <<pkt[p].sockfd, pkt[p].dst, pkt[p].id>> /\ Holds[p] # <<>>
  BY NotEmpty DEF Holds

LEMMA InitImplements == ASSUME Init PROVE Space!Init
  <1>1. OpenSockets = {}
    BY DEF Init, OpenSockets
  <1>2. Holds = [p \in Packets |-> <<>>]
    BY DEF Init, Holds
  <1>3. QED
    BY <1>1, <1>2 DEF Space!Init

\* The new descriptor takes a free slot; no packet is touched.
LEMMA SocketAddImplements ==
    ASSUME Inv, NEW fd \in Fds, NEW nameKnown \in BOOLEAN, SocketAdd(fd, nameKnown)
    PROVE  Space!Open(fd)
  <1> USE DEF Inv
  <1>1. PICK s \in Slots : sockets[s] = NoFd /\ sockets' = [sockets EXCEPT ![s] = fd]
    BY DEF SocketAdd
  <1>2. Holds' = Holds
    BY DEF SocketAdd, Holds
  <1>3. fd \notin OpenSockets
    BY DEF SocketAdd, OpenSockets
  <1>4. OpenSockets' = OpenSockets \cup {fd}
    <2>1. \A t \in Slots : sockets'[t] = IF t = s THEN fd ELSE sockets[t]
      BY <1>1 DEF TypeOK
    <2>2. QED
      BY <1>1, <2>1, FdIsNat DEF OpenSockets
  <1>5. QED
    BY <1>2, <1>3, <1>4 DEF Space!Open

\* A socket without outgoing packets is held by nobody.
LEMMA SocketRemoveImplements ==
    ASSUME Inv, NEW fd \in Fds, SocketRemove(fd)
    PROVE  Space!Close(fd)
  <1>0. TypeOK /\ SocketsOnce /\ OutgoingCounts
    BY DEF Inv
  <1>1. PICK s \in Slots : sockets[s] = fd /\ outgoing[s] = 0 /\ sockets' = [sockets EXCEPT ![s] = NoFd]
    BY DEF SocketRemove, fr_socket_find
  <1>2. Holds' = Holds
    BY DEF SocketRemove, Holds
  <1>3. fd \in OpenSockets
    BY <1>1, FdIsNat DEF OpenSockets
  <1>4. OpenSockets' = OpenSockets \ {fd}
    <2>1. \A t \in Slots : sockets'[t] = IF t = s THEN NoFd ELSE sockets[t]
      BY <1>0, <1>1 DEF TypeOK
    <2>2. \A t \in Slots : sockets[t] = fd => t = s
      BY <1>0, <1>1, FdIsNat DEF SocketsOnce
    <2>3. QED
      BY <1>1, <2>1, <2>2 DEF OpenSockets
  <1>5. ASSUME NEW p \in Packets, Holds[p] # <<>> PROVE Holds[p][1] # fd
    <2>1. p \in Held /\ Holds[p][1] = pkt[p].sockfd
      BY <1>0, <1>5, HoldsOf DEF Held
    <2>2. Cardinality(Users(fd)) = 0
      BY <1>0, <1>1, FdIsNat DEF OutgoingCounts, Users
    <2>3. Users(fd) = {}
      BY <2>2, HeldFinite, FS_EmptySet
    <2>4. QED
      BY <2>1, <2>3 DEF Users
  <1>6. QED
    BY <1>2, <1>3, <1>4, <1>5 DEF Space!Close

\* The Id comes from a bitmap whose bit is clear, so nobody holds the triple.
LEMMA IdAllocImplements ==
    ASSUME Inv, NEW p \in Packets, NEW d \in Dsts, NEW src \in Addrs \cup {AnyAddr}, IdAlloc(p, d, src)
    PROVE  \E t \in Space!Triples : Space!Take(p, t)
  <1>0. TypeOK /\ SocketsOnce /\ HeldHasSocket /\ IdBitsAreOwned
    BY DEF Inv
  <1>1. PICK i \in Ids, s \in Slots :
            /\ s \in mask /\ sockets[s] # NoFd /\ s \notin inUse[d][i]
            /\ pkt' = [pkt EXCEPT ![p] = [sockfd |-> sockets[s], id |-> i,
                                          src |-> SockAddr[sockets[s]], dst |-> d]]
    BY DEF IdAlloc, FreeIds, FreeSlots, Suits
  <1> DEFINE tr == <<sockets[s], d, i>>
  <1>2. sockets[s] \in Fds /\ sockets[s] \in OpenSockets
    BY <1>0, <1>1 DEF TypeOK, OpenSockets
  <1>3. tr \in Space!Triples
    BY <1>2 DEF Space!Triples
  <1>4. ASSUME NEW q \in Packets PROVE Holds[q] # tr
    <2>1. CASE stage[q] = "idle"
      BY <1>0, <2>1, HoldsOf, NotEmpty
    <2>2. CASE stage[q] # "idle" /\ Holds[q] = tr
      <3>1. pkt[q].sockfd = sockets[s] /\ pkt[q].dst = d /\ pkt[q].id = i
        BY <1>0, <2>2, HoldsOf
      <3>2. Owns(q, d, i, s)
        BY <1>1, <2>2, <3>1 DEF Owns, Held
      <3>3. QED
        BY <1>0, <1>1, <3>2 DEF IdBitsAreOwned
    <2>3. QED
      BY <2>1, <2>2
  <1>5. Holds[p] = <<>>
    BY <1>0, HoldsOf DEF IdAlloc
  <1>6. Holds' = [Holds EXCEPT ![p] = tr]
    <2>1. stage' = [stage EXCEPT ![p] = "allocated"]
      BY DEF IdAlloc
    <2>2. Holds' = [q \in Packets |-> IF q = p THEN tr ELSE Holds[q]]
      BY <1>0, <1>1, <2>1 DEF Holds, TypeOK
    <2>3. QED
      BY <2>2 DEF Holds
  <1>7. OpenSockets' = OpenSockets
    BY DEF IdAlloc, OpenSockets
  <1>8. Space!Take(p, tr)
    BY <1>2, <1>4, <1>5, <1>6, <1>7 DEF Space!Take
  <1>9. QED
    BY <1>3, <1>8

LEMMA IdFreeImplements ==
    ASSUME Inv, NEW p \in Packets, IdFree(p)
    PROVE  Space!Give(p)
  <1>0. TypeOK
    BY DEF Inv
  <1>1. Holds[p] # <<>>
    BY <1>0, HoldsOf DEF IdFree
  <1>2. Holds' = [Holds EXCEPT ![p] = <<>>]
    <2>1. Holds' = [q \in Packets |-> IF q = p THEN <<>> ELSE Holds[q]]
      BY <1>0 DEF IdFree, Holds, TypeOK
    <2>2. QED
      BY <2>1 DEF Holds
  <1>3. OpenSockets' = OpenSockets
    BY DEF IdFree, OpenSockets
  <1>4. QED
    BY <1>1, <1>2, <1>3 DEF Space!Give

\* Insert and yank change the tree and the stage only: the space stutters.
LEMMA StutterImplements ==
    ASSUME Inv, NEW p \in Packets, Insert(p) \/ Yank(p)
    PROVE  OpenSockets' = OpenSockets /\ Holds' = Holds
  <1>1. OpenSockets' = OpenSockets
    BY DEF Insert, Yank, OpenSockets
  <1>2. Holds' = Holds
    <2>1. \A q \in Packets : stage'[q] = "idle" <=> stage[q] = "idle"
      BY DEF Inv, TypeOK, Insert, Yank
    <2>2. pkt' = pkt
      BY DEF Insert, Yank
    <2>3. QED
      BY <2>1, <2>2 DEF Holds
  <1>3. QED
    BY <1>1, <1>2

\* The packet list of packet.cpp implements the space of Ids, for any number
\* of packets, sockets, destinations and Ids.
THEOREM ImplementsTheorem == Spec => ImplementsIdSpace
  <1>1. Init => Space!Init
    BY InitImplements
  <1>2. Inv /\ [Next]_vars => [Space!Next]_<<OpenSockets, Holds>>
    <2> SUFFICES ASSUME Inv, [Next]_vars PROVE [Space!Next]_<<OpenSockets, Holds>>
      OBVIOUS
    <2>1. CASE UNCHANGED vars
      BY <2>1 DEF vars, OpenSockets, Holds
    <2>2. ASSUME NEW fd \in Fds, NEW nameKnown \in BOOLEAN, SocketAdd(fd, nameKnown) PROVE Space!Next
      BY <2>2, SocketAddImplements DEF Space!Next
    <2>3. ASSUME NEW fd \in Fds, SocketRemove(fd) PROVE Space!Next
      BY <2>3, SocketRemoveImplements DEF Space!Next
    <2>4. ASSUME NEW p \in Packets, NEW d \in Dsts, NEW src \in Addrs \cup {AnyAddr}, IdAlloc(p, d, src)
          PROVE  Space!Next
      BY <2>4, IdAllocImplements DEF Space!Next
    <2>5. ASSUME NEW p \in Packets, NEW d \in Dsts, NEW src \in Addrs \cup {AnyAddr}, IdAllocFails(p, d, src)
          PROVE  OpenSockets' = OpenSockets /\ Holds' = Holds
      BY <2>5 DEF IdAllocFails, OpenSockets, Holds
    <2>6. ASSUME NEW p \in Packets, IdFree(p) PROVE Space!Next
      BY <2>6, IdFreeImplements DEF Space!Next
    <2>7. QED
      BY <2>1, <2>2, <2>3, <2>4, <2>5, <2>6, StutterImplements DEF Next
  <1>3. QED
    BY <1>1, <1>2, InvTheorem, PTL DEF Spec, ImplementsIdSpace, Space!Spec

=============================================================================
