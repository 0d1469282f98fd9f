------------------------------ MODULE KeyedSet ------------------------------
(***************************************************************************)
(* What the containers promise their callers, without nodes, colours,      *)
(* buckets or chains: a set of entries that knows its size.  An entry that *)
(* is in the set is not entered again; one that is not, is not deleted.    *)
(***************************************************************************)
EXTENDS Naturals

CONSTANT Entries

VARIABLES
    members,    \* what a look-up finds
    count       \* what num_elements says

Init == members = {} /\ count = 0

Insert(k) ==
    /\ k \notin members
    /\ members' = members \cup {k}
    /\ count' = count + 1

Delete(k) ==
    /\ k \in members
    /\ members' = members \ {k}
    /\ count' = count - 1

Next == \E k \in Entries : Insert(k) \/ Delete(k)

Spec == Init /\ [][Next]_<<members, count>>
=============================================================================
