------------------------------ MODULE MCEngine ------------------------------
(* The machinery under the request handlers, one part at a time: focus says  *)
(* which one moves.  Timers and readers of the event list are looked at      *)
(* apart, because neither touches the other's state.                         *)
EXTENDS MCModCall, EventList, Coa

VARIABLE focus

\* The parts that stand still have one state each.
IdleMod ==
    /\ policy = NestedIf
    /\ oracle = <<>> /\ modstack = <<>> /\ called = <<>>
    /\ myresult = ModDefault
    /\ flags = [was_if |-> FALSE, if_taken |-> FALSE]
    /\ modpc = "idle"

IdleCoa ==
    /\ coa_conf = [haveChildren |-> TRUE, refused |-> FALSE, late |-> FALSE]
    /\ coa = [c \in CoaReqs |-> Unborn]
    /\ coa_ids = [i \in CoaIds |-> NoId]
    /\ coa_outstanding = 0
    /\ coa_stale = {}

EngineInit ==
    /\ focus \in {"modcall", "timers", "readers", "coa"}
    /\ IF focus = "modcall" THEN ModInit ELSE IdleMod
    /\ IF focus = "coa" THEN CoaInit ELSE IdleCoa
    /\ EvInit

EngineNext ==
    /\ UNCHANGED focus
    /\ \/ focus = "modcall" /\ ModNext /\ UNCHANGED <<evVars, coaVars>>
       \/ focus = "timers" /\ TimerNext /\ UNCHANGED <<modVars, coaVars>>
       \/ focus = "readers" /\ ReaderNext /\ UNCHANGED <<modVars, coaVars>>
       \/ focus = "coa" /\ CoaNext /\ UNCHANGED <<modVars, evVars>>

engineVars == <<focus, modVars, evVars, coaVars>>
EngineSpec == EngineInit /\ [][EngineNext]_engineVars

\* Started as a daemon with and without late answers, and without children with
\* a Fail section that accepts and one that refuses.
MCCoaConfs ==
    {[haveChildren |-> TRUE, refused |-> FALSE, late |-> FALSE],
     [haveChildren |-> TRUE, refused |-> FALSE, late |-> TRUE],
     [haveChildren |-> FALSE, refused |-> FALSE, late |-> FALSE],
     [haveChildren |-> FALSE, refused |-> TRUE, late |-> FALSE]}

\* The CoA requests are alike.
Symm == Permutations(CoaReqs)
=============================================================================
