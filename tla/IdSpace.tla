------------------------------ MODULE IdSpace -------------------------------
(***************************************************************************)
(* What the packet list promises its callers, without slots, bitmaps,      *)
(* masks, counts or a tree: sockets are opened and closed, and a packet    *)
(* may hold an Id on an open socket towards a destination that no other    *)
(* packet holds.  A socket is never closed under a packet that holds an Id *)
(* on it.                                                                  *)
(***************************************************************************)
CONSTANTS
    Packets, Fds, Dsts, Ids,
    Nothing     \* what a packet without an Id holds

VARIABLES
    open,       \* the sockets in the list
    holds       \* per packet, the <<socket, destination, Id>> it holds

Triples == Fds \X Dsts \X Ids

Init ==
    /\ open = {}
    /\ holds = [p \in Packets |-> Nothing]

Open(fd) ==
    /\ fd \notin open
    /\ open' = open \cup {fd}
    /\ UNCHANGED holds

Close(fd) ==
    /\ fd \in open
    /\ \A p \in Packets : holds[p] = Nothing \/ holds[p][1] # fd
    /\ open' = open \ {fd}
    /\ UNCHANGED holds

Take(p, t) ==
    /\ holds[p] = Nothing
    /\ t[1] \in open
    /\ \A q \in Packets : holds[q] # t
    /\ holds' = [holds EXCEPT ![p] = t]
    /\ UNCHANGED open

Give(p) ==
    /\ holds[p] # Nothing
    /\ holds' = [holds EXCEPT ![p] = Nothing]
    /\ UNCHANGED open

Next ==
    \/ \E fd \in Fds : Open(fd) \/ Close(fd)
    \/ \E p \in Packets : Give(p) \/ \E t \in Triples : Take(p, t)

Spec == Init /\ [][Next]_<<open, holds>>
=============================================================================
