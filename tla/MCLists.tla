------------------------------ MODULE MCLists -------------------------------
(* The packet list and the containers it is made of; and the attributes of a *)
(* packet, the conditions on them and the users file that is searched with   *)
(* them.  One at a time: focus says which one moves.                         *)
EXTENDS PacketList, RbTree, MCHashTable, Condition, MCUsers

\* Two slots, three descriptors on them, two Ids per destination.
CONSTANTS a1, a2
MCFds == {3, 4, 5}
MCSockAddr == (3 :> a1) @@ (4 :> AnyAddr) @@ (5 :> a2)
Symm == Permutations(Packets) \cup Permutations(Dsts)

VARIABLE focus

listVars == <<focus, vars, rbVars, hashVars, condVars, pairVars, usersVars>>

\* What does not move has one initial state.
ListsInit ==
    /\ focus \in {"packets", "rbtree", "hash", "condition", "pairs", "users"}
    /\ IF focus = "condition" THEN TRUE ELSE evaluate_it = TRUE
    /\ IF focus = "pairs" THEN TRUE ELSE vps = <<>>
    /\ IF focus = "users" THEN TRUE ELSE users_file = OneUser
    /\ Init /\ RbInit /\ HashInit /\ CondInit /\ PairsInit /\ UsersInit
    /\ focus # "packets" => \A p, q \in Packets : pkt[p].dst = pkt[q].dst

ListsNext ==
    /\ UNCHANGED focus
    /\ \/ focus = "packets" /\ Next /\ UNCHANGED <<rbVars, hashVars, condVars, pairVars, usersVars>>
       \/ focus = "rbtree" /\ RbNext /\ UNCHANGED <<vars, hashVars, condVars, pairVars, usersVars>>
       \/ focus = "hash" /\ HashNext /\ UNCHANGED <<vars, rbVars, condVars, pairVars, usersVars>>
       \/ focus = "condition" /\ CondNext /\ UNCHANGED <<vars, rbVars, hashVars, pairVars, usersVars>>
       \/ focus = "pairs" /\ PairsNext /\ UNCHANGED <<vars, rbVars, hashVars, condVars, usersVars>>
       \/ focus = "users" /\ UsersNext /\ UNCHANGED <<vars, rbVars, hashVars, condVars, pairVars>>

ListsSpec == ListsInit /\ [][ListsNext]_listVars
=============================================================================
