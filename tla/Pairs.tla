-------------------------------- MODULE Pairs --------------------------------
(* Lists of attributes and the functions that move attributes from one list   *)
(* to another by their operators.  A pair has the identity of the memory that *)
(* holds it, since request->username points to one and every pair must be     *)
(* freed once.                                                                *)
EXTENDS Integers, SequencesExt, FiniteSetsExt

CONSTANTS
    PairLists,      \* lists a request may have, pairs without identity
    FromLists       \* lists that may be moved to them

VARIABLES
    vps,            \* request->packet->vps
    username,       \* the pair request->username points to, 0 if there is none
    freed,          \* pairs that were freed
    lost,           \* pairs that are on no list and were not freed
    moved           \* what the last call was given and what it left in "from"

pairVars == <<vps, username, freed, lost, moved>>

PairIds(list) == {p.id : p \in Range(list)}
Where(list, a) == {i \in DOMAIN list : list[i].attr = a}
Without(list, gone) == SelectSeq(list, LAMBDA p : p.id \notin gone)

\* The place of the first pair of an attribute, 0 if there is none.
pairfind(list, a) == IF Where(list, a) = {} THEN 0 ELSE Min(Where(list, a))

pairdelete(list, a) == SelectSeq(list, LAMBDA p : p.attr # a)

\* Operators that compare, and are only meant for check items.
Comparing == {"!=", ">=", ">", "<=", "<", "=*", "!*", "=="}
Passwords == {"User-Password", "Crypt-Password"}
Repeatable == {"Hint", "Framed-Route"}

(* The loops over "from": kept are the pairs up to tailfrom, over those behind *)
(* it that are still linked.                                                   *)
MoveLoop(to) == [to |-> to, kept |-> <<>>, over |-> <<>>, freed |-> {}, lost |-> {}]

\* tailfrom = i.
Keep(s, p) == [s EXCEPT !.kept = @ \o s.over \o <<p>>, !.over = <<>>]

\* i goes to the end of "to"; "from" goes on behind tailfrom with the next one.
Move(s, p) ==
    [s EXCEPT !.to = Append(@, p), !.over = <<>>, !.lost = @ \cup PairIds(s.over)]

\* A pair of "to" is deleted with all others of its attribute.
Subtract(s, p) ==
    LET j == pairfind(s.to, p.attr)
    IN  IF j # 0 /\ p.val \in {0, s.to[j].val}
        THEN [s EXCEPT !.to = pairdelete(@, p.attr),
                       !.freed = @ \cup {s.to[k].id : k \in Where(s.to, p.attr)}]
        ELSE s

\* memcpy() over the pair that was found.
Overwrite(s, p) ==
    LET j == pairfind(s.to, p.attr)
    IN  [s EXCEPT !.to[j] = [p EXCEPT !.id = s.to[j].id]]

\* The other pairs of the attribute go; i is not taken for tailfrom.
OverwriteAll(s, p) ==
    LET j == pairfind(s.to, p.attr)
        others == {s.to[k].id : k \in Where(s.to, p.attr) \ {j}}
        t == Overwrite(s, p)
    IN  [t EXCEPT !.to = Without(@, others), !.freed = @ \cup others, !.over = Append(@, p)]

PairmoveTurn(has_password, s, p) ==
    IF (has_password /\ p.attr \in Passwords) \/ p.op \in Comparing THEN Keep(s, p)
    ELSE IF p.attr \in Repeatable THEN Move(s, p)
    ELSE CASE p.op = "-=" -> Keep(Subtract(s, p), p)
           [] p.op = "=" /\ pairfind(s.to, p.attr) # 0 -> Keep(s, p)
           [] p.op = ":=" /\ pairfind(s.to, p.attr) # 0 -> OverwriteAll(s, p)
           [] OTHER -> Move(s, p)

pairmove(to, from) ==
    LET has_password == \E p \in Range(to) : p.attr \in Passwords
    IN  FoldLeft(LAMBDA s, p : PairmoveTurn(has_password, s, p), MoveLoop(to), from)

XlatmoveTurn(s, p) ==
    IF p.attr = "Fall-Through" THEN Keep(s, p)
    ELSE CASE p.op = "-=" -> Keep(Subtract(s, p), p)
           [] p.op = "=" /\ pairfind(s.to, p.attr) # 0 -> Keep(s, p)
           [] p.op = ":=" /\ pairfind(s.to, p.attr) # 0 -> Keep(Overwrite(s, p), p)
           [] OTHER -> Move(s, p)

\* The expansion of the values is left out: nothing here depends on it.
pairxlatmove(to, from) == FoldLeft(XlatmoveTurn, MoveLoop(to), from)

-----------------------------------------------------------------------------
(* radius_pairmove() works on arrays: to_list with the pairs there were, then *)
(* the ones that are appended.                                                *)

Array(to) == [to_list |-> to, count |-> Len(to), edited |-> {}, freed |-> {}]

\* Places of the attribute, also those that another pair has filled.
UneditedOrNot(s, p) ==
    {j \in 1..s.count : s.to_list[j].id \notin s.freed /\ s.to_list[j].attr = p.attr}

\* Places of the attribute that no pair of "from" has filled.
Unedited(s, p) ==
    {j \in (1..s.count) \ s.edited : s.to_list[j].id \notin s.freed
                                       /\ s.to_list[j].attr = p.attr}

Appended(s, p) == [s EXCEPT !.to_list = Append(@, p)]

Replaced(s, js, p) ==
    IF js = {} THEN Appended(s, p)
    ELSE [s EXCEPT !.freed = @ \cup {s.to_list[Min(js)].id},
                   !.to_list[Min(js)] = p,
                   !.edited = @ \cup {Min(js)}]

\* The pair itself is freed with what is left in "from".
Deleted(s, js, p) == [s EXCEPT !.freed = @ \cup {s.to_list[j].id : j \in js} \cup {p.id}]

\* <= and >= replace a value that is out of range; one that is in range does
\* not stop the pair from being appended.
UpdateTurn(s, p) ==
    LET Those(Test(_)) == {j \in Unedited(s, p) : Test(s.to_list[j].val)}
    IN  CASE p.op = "+=" -> Appended(s, p)
          [] p.op = ":=" -> Replaced(s, Unedited(s, p), p)
          [] p.op = "=" -> IF Unedited(s, p) = {} THEN Appended(s, p) ELSE Deleted(s, {}, p)
          [] p.op = "!*" -> Deleted(s, Unedited(s, p), p)
          [] p.op = "-=" -> Deleted(s, Those(LAMBDA v : v = p.val), p)
          [] p.op = "==" -> Deleted(s, Those(LAMBDA v : v # p.val), p)
          [] p.op = "<=" -> Replaced(s, Those(LAMBDA v : v > p.val), p)
          [] p.op = ">=" -> Replaced(s, Those(LAMBDA v : v < p.val), p)

\* The list is chained again, and every operator becomes "=".
radius_pairmove(to, from) ==
    LET s == FoldLeft(UpdateTurn, Array(to), from)
        list == Without(s.to_list, s.freed)
    IN  [to |-> [i \in DOMAIN list |-> [list[i] EXCEPT !.op = "="]], freed |-> s.freed]

\* The last Stripped-User-Name, or else the first User-Name.
fix_up(list) ==
    LET stripped == Where(list, "Stripped-User-Name")
    IN  IF stripped # {} THEN list[Max(stripped)].id
        ELSE IF Where(list, "User-Name") # {} THEN list[pairfind(list, "User-Name")].id
        ELSE 0

-----------------------------------------------------------------------------
\* Pairs n + 1, n + 2, ... with the contents of a list.
Allocated(list, n) ==
    [i \in DOMAIN list |-> [id |-> n + i, attr |-> list[i].attr, op |-> list[i].op,
                            val |-> list[i].val]]

PairsInit ==
    \E list \in PairLists :
        /\ vps = Allocated(list, 0)
        /\ username = fix_up(vps)
        /\ freed = {} /\ lost = {}
        /\ moved = [fn |-> "none", before |-> vps, from |-> <<>>]

\* "update request": the values of the configuration are copied and moved.
radius_update_attrlist(list) ==
    LET from == Allocated(list, Len(vps))
        s == radius_pairmove(vps, from)
    IN  /\ vps' = s.to /\ username' = fix_up(s.to)
        /\ freed' = s.freed /\ UNCHANGED lost
        /\ moved' = [fn |-> "update", before |-> vps, from |-> from]

\* A module moves a copy of a list to the request and frees what is left of it.
MoveAndFree(fn, list) ==
    LET from == Allocated(list, Len(vps))
        s == IF fn = "move" THEN pairmove(vps, from) ELSE pairxlatmove(vps, from)
    IN  /\ vps' = s.to /\ UNCHANGED username
        /\ freed' = s.freed \cup PairIds(s.kept \o s.over) /\ lost' = s.lost
        /\ moved' = [fn |-> fn, before |-> vps, from |-> from]

PairsNext ==
    /\ moved.fn = "none"
    /\ \E list \in FromLists : \/ radius_update_attrlist(list)
                               \/ MoveAndFree("move", list)
                               \/ MoveAndFree("xlat", list)

PairsSpec == PairsInit /\ [][PairsNext]_pairVars

-----------------------------------------------------------------------------
Number(list, a) == Cardinality(Where(list, a))
Given == Range(moved.from)
Had == Range(moved.before)
Kept(p) == p.id \in PairIds(vps)

\* Every pair is on the list, freed or lost, and never two of these; what is
\* lost is a pair that pairmove() has copied over another.
OwnedOnce ==
    /\ Cardinality(PairIds(vps)) = Len(vps)
    /\ PairIds(vps) \cap (freed \cup lost) = {} /\ freed \cap lost = {}
    /\ PairIds(vps) \cup freed \cup lost = 1..(Len(moved.before) + Len(moved.from))
    /\ \A p \in Given : p.id \in lost => moved.fn = "move" /\ p.op = ":="

\* An operator of "update" takes away what it says and nothing else.
Justified(q) ==
    \E p \in Given :
        /\ p.attr = q.attr
        /\ \/ p.op \in {":=", "!*"}
           \/ p.op = "-=" /\ q.val = p.val
           \/ p.op = "==" /\ q.val # p.val
           \/ p.op = "<=" /\ q.val > p.val
           \/ p.op = ">=" /\ q.val < p.val

\* The operators apply only to what the list had before.
UpdateIsRight ==
    /\ \A p \in Given : p.op \in {"+=", ":=", "<=", ">="} => Kept(p)
    /\ \A p \in Given : p.op = "=" /\ Kept(p) => \A q \in Had : q.attr = p.attr => ~Kept(q)
    /\ \A q \in Had : Kept(q) \/ Justified(q)
    /\ Cardinality({q \in Had : ~Kept(q) /\ ~\E p \in Given : p.attr = q.attr /\ p.op \in {"!*", "-=", "=="}})
         <= Cardinality({p \in Given : p.op \in {":=", "<=", ">="}})

\* The only pair of its attribute that is moved.
Alone(p) == \A q \in Given : q.attr = p.attr => q = p
Same(p) == {q \in Range(vps) : q.attr = p.attr}

\* ":=" leaves one value, "=" adds none to one, and no comparison is moved.
MoveIsRight ==
    /\ \A p \in Given :
         Alone(p) /\ p.attr \notin Repeatable \cup Passwords \cup {"Fall-Through"} =>
         /\ p.op = ":=" => \E q \in Same(p) : q.val = p.val
         /\ p.op = ":=" /\ moved.fn = "move" => Cardinality(Same(p)) = 1
         /\ p.op = "=" => Number(vps, p.attr) = Max({1, Number(moved.before, p.attr)})
    /\ \A p \in Given : moved.fn = "move" /\ p.op \in Comparing => ~Kept(p)
    /\ (\E q \in Had : q.attr \in Passwords) /\ moved.fn = "move" =>
         \A p \in Given : p.attr \in Passwords => ~Kept(p)

\* request->username is a pair of the list, unless User-Name is subtracted by
\* a function that does not know the request.
UsernameIsLive ==
    \/ username = 0 \/ username \in PairIds(vps)
    \/ moved.fn # "update" /\ \E p \in Given : p.attr = "User-Name" /\ p.op = "-="

(* Moving attributes: no pair is on the list and freed, or freed twice, or    *)
(* forgotten but for those pairmove() loses when it moves another one behind  *)
(* a ":=" (valuepair-lib.cpp:580); request->username stays valid; "update"    *)
(* applies its operators "ONLY to the attributes in the original list" and    *)
(* deletes "only the matching attributes" (evaluate.cpp:922-937); ":=" leaves *)
(* one value and "=" does not add a second.                                   *)
PairsAreKept ==
    /\ OwnedOnce /\ UsernameIsLive
    /\ moved.fn = "update" => UpdateIsRight
    /\ moved.fn \in {"move", "xlat"} => MoveIsRight
=============================================================================
