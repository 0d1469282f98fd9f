------------------------------- MODULE Timers -------------------------------
(***************************************************************************)
(* What the users of the event list (event.cpp) rely on: an owner has at   *)
(* most one event; setting it again replaces it; the event fires once, when*)
(* its time has come and no event that is set is due before it; an event   *)
(* that was deleted does not fire.                                         *)
(***************************************************************************)
EXTENDS Integers

CONSTANTS Owners, Times, Never, Nobody

VARIABLES
    due,       \* per owner, the time of its event, or Never
    clock,
    firing     \* whose callback the last step ran, or Nobody

Init ==
    /\ due = [o \in Owners |-> Never]
    /\ clock \in Times
    /\ firing = Nobody

Set(o, w) ==
    /\ due' = [due EXCEPT ![o] = w]
    /\ firing' = Nobody
    /\ UNCHANGED clock

Cancel(o) ==
    /\ due[o] # Never
    /\ due' = [due EXCEPT ![o] = Never]
    /\ firing' = Nobody
    /\ UNCHANGED clock

Fire(o) ==
    /\ due[o] # Never /\ due[o] <= clock
    /\ \A q \in Owners : due[q] # Never => due[o] <= due[q]
    /\ due' = [due EXCEPT ![o] = Never]
    /\ firing' = o
    /\ UNCHANGED clock

Advance ==
    /\ clock' > clock
    /\ firing' = Nobody
    /\ UNCHANGED due

Next ==
    \/ \E o \in Owners : Cancel(o) \/ Fire(o) \/ \E w \in Times : Set(o, w)
    \/ Advance

Spec == Init /\ [][Next]_<<due, clock, firing>>
=============================================================================
