----------------------------- MODULE MCModCall ------------------------------
(* Policies of every kind of keyword, nested.                               *)
EXTENDS ModCall, TLC

\* Types and children of the nodes in order; grouptypes other than simple;
\* actions of the configuration.
Tree(ts, ks, gs, ov) ==
    [type |-> ts, kids |-> ks,
     gtype |-> [n \in DOMAIN ts |-> IF n \in DOMAIN gs THEN gs[n] ELSE "simple"],
     over |-> ov]

NoOver == <<>>
Leaf == <<>>

\* m; if { if { m } else { m } } elsif { m } else { m }
NestedIf ==
    Tree(<<"group", "single", "if", "if", "single", "else", "single", "elsif", "single", "else", "single">>,
         <<<<2, 3, 8, 10>>, Leaf, <<4, 6>>, <<5>>, Leaf, <<7>>, Leaf, <<9>>, Leaf, <<11>>, Leaf>>, <<>>, NoOver)

\* redundant-load-balance { m m { fail = reject } m }; if {} else { m }
Redundant ==
    Tree(<<"group", "redundant-load-balance", "single", "single", "single", "if", "else", "single">>,
         <<<<2, 6, 7>>, <<3, 4, 5>>, Leaf, Leaf, Leaf, <<>>, <<8>>, Leaf>>, 2 :> "redundant",
         <<4, "fail">> :> Reject)

\* m { fail = 2 }; update; switch { case { update m } case { m } }; expansion; m
Switch ==
    Tree(<<"group", "single", "update", "switch", "case", "update", "single", "case", "single", "keep", "single">>,
         <<<<2, 3, 4, 10, 11>>, Leaf, Leaf, <<5, 8>>, <<6, 7>>, Leaf, Leaf, <<9>>, Leaf, Leaf, Leaf>>, <<>>,
         <<2, "fail">> :> 2)

\* append { m group { if { m } } m }; load-balance { m m }; if { m } else { group { m } }
Append3 ==
    Tree(<<"group", "group", "single", "group", "if", "single", "single",
           "load-balance", "single", "single", "if", "single", "else", "group", "single">>,
         <<<<2, 8, 11, 13>>, <<3, 4, 7>>, Leaf, <<5>>, <<6>>, Leaf, Leaf, <<9, 10>>, Leaf, Leaf,
           <<12>>, Leaf, <<14>>, <<15>>, Leaf>>, 2 :> "append", NoOver)

\* if { } m else { m }; if { m } group { else { m } m }; update; else { group { } }
\* Three times an else that no if comes right before.
LooseElse ==
    Tree(<<"group", "if", "single", "else", "single", "if", "single", "group", "else", "single", "single",
           "update", "else", "group">>,
         <<<<2, 3, 4, 6, 8, 12, 13>>, <<>>, Leaf, <<5>>, Leaf, <<7>>, Leaf, <<9, 11>>, <<10>>, Leaf, Leaf,
           Leaf, <<14>>, <<>>>>, <<>>, NoOver)

MCPolicies == {NestedIf, Redundant, Switch, Append3, LooseElse}
=============================================================================
