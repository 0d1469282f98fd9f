------------------------------- MODULE RbTree -------------------------------
(***************************************************************************)
(* The red-black tree behind the packet list, the clients, the realms, the *)
(* EAP sessions and the configuration.  Nodes have addresses, since the    *)
(* callers keep them (rbtree_insertnode(), rbtree_delete()) and since all  *)
(* trees share one Sentinel, which a rotation must never write to.  Every  *)
(* tree of the program is made with replace_flag 0.                        *)
(***************************************************************************)
EXTENDS Integers, FiniteSets

CONSTANT RbKeys     \* the data, which are also the addresses malloc() gives

ASSUME RbAssumption == RbKeys \subseteq Nat \ {0} /\ IsFiniteSet(RbKeys)

NIL == 0            \* the address of Sentinel
NULL == -1
Sentinel == [Left |-> NIL, Right |-> NIL, Parent |-> NULL, Color |-> "black", Data |-> NULL]

VARIABLES
    rb,             \* Root, num_elements, and what is at each address
    handle          \* history: the node rbtree_insertnode() returned for each key

rbVars == <<rb, handle>>

NoNode == [Sentinel EXCEPT !.Color = "free"]      \* no node at this address

Other(side) == IF side = "Left" THEN "Right" ELSE "Left"
Assign(t, x, field, v) == [t EXCEPT !.node[x][field] = v]
SetIf(b, t, x, field, v) == IF b THEN Assign(t, x, field, v) ELSE t
At(t, x, field) == t.node[x][field]

-----------------------------------------------------------------------------
\* The child of p that is x becomes y; without a parent y is the root.
Relink(t, p, x, y, side) ==
    IF p = NULL THEN [t EXCEPT !.Root = y]
    ELSE IF At(t, p, side) = x THEN Assign(t, p, side, y) ELSE Assign(t, p, Other(side), y)

\* RotateLeft() and RotateRight(): the other child of x takes its place.
Rotate(t, x, side) ==
    LET y == At(t, x, Other(side))
        z == At(t, y, side)
        p == At(t, x, "Parent")
        t1 == SetIf(z # NIL, Assign(t, x, Other(side), z), z, "Parent", x)
        t2 == SetIf(y # NIL, t1, y, "Parent", p)
        t3 == Assign(Relink(t2, p, x, y, side), y, side, x)
    IN  SetIf(x # NIL, t3, x, "Parent", y)

RECURSIVE Fixed(_, _)
Fixed(t, x) ==
    LET p == At(t, x, "Parent")
    IN  IF x = t.Root \/ At(t, p, "Color") = "black" THEN t
        ELSE LET g == At(t, p, "Parent")
                 side == IF p = At(t, g, "Left") THEN "Left" ELSE "Right"
                 uncle == At(t, g, Other(side))
             IN  IF At(t, uncle, "Color") = "red"
                 THEN Fixed(Assign(Assign(Assign(t, p, "Color", "black"), uncle, "Color", "black"), g, "Color", "red"), g)
                 ELSE LET inside == x = At(t, p, Other(side))
                          t1 == IF inside THEN Rotate(t, p, side) ELSE t
                          x1 == IF inside THEN p ELSE x
                          par1 == At(t1, x1, "Parent")
                          g1 == At(t1, par1, "Parent")
                      IN  Fixed(Rotate(Assign(Assign(t1, par1, "Color", "black"), g1, "Color", "red"),
                                       g1, Other(side)), x1)

InsertFixup(t, x) == LET t1 == Fixed(t, x) IN Assign(t1, t1.Root, "Color", "black")

\* The cases of DeleteFixup(), for X on either side of its parent.  A red
\* sibling W of X goes up.
RedSibling(t, w, parent, side) ==
    IF At(t, w, "Color") = "red"
      THEN Rotate(Assign(Assign(t, w, "Color", "black"), parent, "Color", "red"), parent, side)
    ELSE t

Black(t, n, f) == At(t, At(t, n, f), "Color") = "black"

\* The far child of W is black: its near child takes the place of W.
NearUp(t, w, side) ==
    LET near == At(t, w, side)
    IN  IF Black(t, w, Other(side))
          THEN Rotate(Assign(SetIf(near # NIL, t, near, "Color", "black"), w, "Color", "red"), w, Other(side))
        ELSE t

\* W takes the colour of the parent, and its place.
SiblingUp(t, w, parent, side) ==
    LET t1 == Assign(t, w, "Color", At(t, parent, "Color"))
        t2 == SetIf(parent # NIL, t1, parent, "Color", "black")
        far == At(t2, w, Other(side))
    IN  Rotate(SetIf(At(t2, far, "Color") # "black", t2, far, "Color", "black"), parent, side)

\* X = Root ends the loop.
ToRoot(t, parent) == [tree |-> t, x |-> t.Root, parent |-> parent]

LastCases(t, parent, side) == ToRoot(SiblingUp(t, At(t, parent, Other(side)), parent, side), parent)

BlackSibling(t, w, parent, side) ==
    IF Black(t, w, "Left") /\ Black(t, w, "Right")
      THEN [tree |-> SetIf(w # NIL, t, w, "Color", "red"), x |-> parent, parent |-> At(t, parent, "Parent")]
    ELSE LastCases(NearUp(t, w, side), parent, side)

LoopTurn(t, x, parent) ==
    LET side == IF x = At(t, parent, "Left") THEN "Left" ELSE "Right"
        Turned(t1) == BlackSibling(t1, At(t1, parent, Other(side)), parent, side)
    IN  Turned(RedSibling(t, At(t, parent, Other(side)), parent, side))

RECURSIVE Lifted(_)
Lifted(s) ==
    IF s.x = s.tree.Root \/ At(s.tree, s.x, "Color") = "red" THEN Assign(s.tree, s.x, "Color", "black")
    ELSE Lifted(LoopTurn(s.tree, s.x, s.parent))

DeleteFixup(t, x, parent) == Lifted([tree |-> t, x |-> x, parent |-> parent])

-----------------------------------------------------------------------------
\* The path of Compare() from x to the node of k; NULL: there is none.
RECURSIVE Search(_, _, _)
Search(t, x, k) ==
    CASE x = NIL -> NULL
      [] x # NIL /\ At(t, x, "Data") = k -> x
      [] OTHER -> Search(t, At(t, x, IF k < At(t, x, "Data") THEN "Left" ELSE "Right"), k)

rbtree_find(t, k) == Search(t, t.Root, k)

\* Where a new node for k hangs.
RECURSIVE Place(_, _, _)
Place(t, x, k) ==
    LET next == At(t, x, IF k < At(t, x, "Data") THEN "Left" ELSE "Right")
    IN  IF next = NIL THEN x ELSE Place(t, next, k)

RECURSIVE Leftmost(_, _)
Leftmost(t, x) == IF At(t, x, "Left") = NIL THEN x ELSE Leftmost(t, At(t, x, "Left"))

\* malloc(): an address that is not in use.
NewNode(k) ==
    IF rb.node[k] = NoNode THEN k ELSE CHOOSE n \in RbKeys : rb.node[n] = NoNode

rbtree_insertnode(k) ==
    /\ rbtree_find(rb, k) = NULL
    /\ LET x == NewNode(k)
           p == IF rb.Root = NIL THEN NULL ELSE Place(rb, rb.Root, k)
           new == [Left |-> NIL, Right |-> NIL, Parent |-> p, Color |-> "red", Data |-> k]
           t1 == [rb EXCEPT !.node[x] = new, !.num_elements = @ + 1]
           t2 == IF p = NULL THEN [t1 EXCEPT !.Root = x]
                 ELSE Assign(t1, p, IF k <= At(rb, p, "Data") THEN "Left" ELSE "Right", x)
       IN  rb' = InsertFixup(t2, x) /\ handle' = [handle EXCEPT ![k] = x]

\* Y leaves the chain of parents: its only child X takes its place.
Unchain(t, x, y) ==
    LET p == At(t, y, "Parent")
    IN  Relink(SetIf(x # NIL, t, x, "Parent", p), p, y, x, "Left")

\* DeleteFixup() is left out when the child is Sentinel.
Balance(t, x, y, parent) ==
    IF At(t, y, "Color") = "black" /\ x # NIL THEN DeleteFixup(t, x, parent) ELSE t

\* Mutant: the successor is looked for on the wrong side.
HeirOnLeft(z) ==
    IF NIL \in {At(rb, z, "Left"), At(rb, z, "Right")} THEN z
    ELSE Leftmost(rb, At(rb, z, "Left"))

\* The node Y that leaves its place when Z is deleted: Z, or its successor.
Heir(z) ==
    IF NIL \in {At(rb, z, "Left"), At(rb, z, "Right")} THEN z
    ELSE Leftmost(rb, At(rb, z, "Right"))

\* Mutant: Z stays in the tree, with the data of Y, and Y is freed.
DataMoves(t, y, z) == [t EXCEPT !.node[y] = NoNode]

\* Z is copied to Y, whose address the callers may hold, and freed.
TakePlace(t, y, z) ==
    LET t1 == [t EXCEPT !.node[y] = t.node[z]]
        t2 == Relink(t1, At(t1, y, "Parent"), z, y, "Left")
        l == At(t2, y, "Left")
        r == At(t2, y, "Right")
        t3 == SetIf(At(t2, l, "Parent") = z, t2, l, "Parent", y)
        t4 == SetIf(At(t3, r, "Parent") = z, t3, r, "Parent", y)
    IN  [t4 EXCEPT !.node[z] = NoNode]

rbtree_delete(z) ==
    LET y == Heir(z)
        x == IF At(rb, y, "Left") # NIL THEN At(rb, y, "Left") ELSE At(rb, y, "Right")
        parent == At(rb, y, "Parent")
        t1 == Unchain(rb, x, y)
        t2 == Balance(SetIf(y # z, t1, z, "Data", At(t1, y, "Data")), x, y, parent)
        t3 == IF y = z THEN [t2 EXCEPT !.node[z] = NoNode] ELSE TakePlace(t2, y, z)
    IN  [t3 EXCEPT !.num_elements = @ - 1]

rbtree_deletebydata(k) ==
    LET z == rbtree_find(rb, k)
    IN  /\ z # NULL
        /\ rb' = rbtree_delete(z)
        /\ handle' = [handle EXCEPT ![k] = NULL]

-----------------------------------------------------------------------------
RbInit ==
    /\ rb = [Root |-> NIL, num_elements |-> 0,
               node |-> [n \in RbKeys \cup {NIL} |-> IF n = NIL THEN Sentinel ELSE NoNode]]
    /\ handle = [k \in RbKeys |-> NULL]

RbNext == \E k \in RbKeys : rbtree_insertnode(k) \/ rbtree_deletebydata(k)

RbSpec == RbInit /\ [][RbNext]_rbVars

-----------------------------------------------------------------------------
Members == {k \in RbKeys : rbtree_find(rb, k) # NULL}

Abstract == INSTANCE KeyedSet WITH Entries <- RbKeys, members <- Members, count <- rb.num_elements

(* The tree is a set that knows its size: whatever rotations and moves a      *)
(* deletion needs, it takes away the one entry it is asked for and every      *)
(* other one is found as before.                                              *)
TreeIsASet == Abstract!Spec

Used == {n \in RbKeys : rb.node[n] # NoNode}

(* Parents and children agree, and every node that is in use hangs in the     *)
(* tree: no deletion leaves a pointer to what it freed.                       *)
LinksAgree ==
    /\ rb.Root # NIL => rb.Root \in Used /\ At(rb, rb.Root, "Parent") = NULL
    /\ \A n \in Used :
        /\ \A f \in {"Left", "Right"} : At(rb, n, f) # NIL =>
               At(rb, n, f) \in Used /\ At(rb, At(rb, n, f), "Parent") = n
        /\ n # rb.Root => \E f \in {"Left", "Right"} : At(rb, At(rb, n, "Parent"), f) = n

(* The node that rbtree_insertnode() returned stays the node of its data until *)
(* they are deleted: "the user structure in Y->Data MAY include a pointer to Y". *)
NodeStays == \A k \in Members : rbtree_find(rb, k) = handle[k]

(* The one Sentinel that all trees share is never written to, and no red node *)
(* has a red parent.                                                          *)
SentinelIsClean ==
    /\ rb.node[NIL] = Sentinel
    /\ \A n \in Used : At(rb, n, "Color") = "red" =>
           At(rb, n, "Parent") # NULL /\ At(rb, At(rb, n, "Parent"), "Color") = "black"

(* What the callers rely on beyond the set of entries: links, node addresses *)
(* and the shared Sentinel stay right through insertions and deletions.       *)
TreeIsSound == LinksAgree /\ NodeStays /\ SentinelIsClean

=============================================================================
