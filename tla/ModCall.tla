------------------------------ MODULE ModCall -------------------------------
(***************************************************************************)
(* The interpreter of the policy language (modcall.cpp).  A section of the *)
(* configuration is compiled into a tree of modules, groups and keywords;  *)
(* modcall() walks it with a stack of its own and two flags, was_if and    *)
(* if_taken, that are not on the stack.  The reference at the end is the   *)
(* recursive evaluation the iteration stands for.                          *)
(*                                                                         *)
(* What the modules return, what the conditions say and which member a     *)
(* load-balance group picks is chosen at the start (oracle).               *)
(***************************************************************************)
EXTENDS Integers, Sequences, SequencesExt

CONSTANTS
    Policies,        \* the trees of a run
    ModResults,      \* what its modules may return
    ModDefault,      \* default_component_results[component]
    ModNone          \* no child

Rcodes == {"reject", "fail", "ok", "handled", "invalid", "userlock", "notfound", "noop", "updated"}

Return == -1         \* MOD_ACTION_RETURN
Reject == -2         \* MOD_ACTION_REJECT

VARIABLES
    policy,          \* the tree
    oracle,          \* what the outside says
    modstack,        \* modcall_stack, the top last
    myresult,
    flags,           \* was_if and if_taken
    modpc,           \* the label of modcall() that comes next
    called           \* history: the modules called, in order

modVars == <<policy, oracle, modstack, myresult, flags, modpc, called>>

Types == {"single", "keep", "update", "group", "load-balance", "redundant-load-balance",
          "if", "elsif", "else", "switch", "case"}
Groups == Types \ {"single", "keep", "update"}

\* The authorize rows of defaultactions.
DefaultActions ==
    [simple    |-> [r \in Rcodes |-> CASE r = "ok" -> 3 [] r = "notfound" -> 1 [] r = "noop" -> 2
                                       [] r = "updated" -> 4 [] OTHER -> Return],
     redundant |-> [r \in Rcodes |-> IF r = "fail" THEN 1 ELSE Return],
     append    |-> [r \in Rcodes |-> CASE r = "fail" -> 1 [] r = "notfound" -> 2 [] OTHER -> Return]]

\* A tree: node 1 is the section.  kids are the children of a group in order,
\* gtype the grouptype that decides their actions, over the actions that the
\* configuration gives to some nodes.
Nodes(p) == DOMAIN p.type
Parent(p, n) == CHOOSE m \in Nodes(p) : \E i \in DOMAIN p.kids[m] : p.kids[m][i] = n
Place(p, n) == CHOOSE i \in DOMAIN p.kids[Parent(p, n)] : p.kids[Parent(p, n)][i] = n
Following(p, n) ==
    LET s == p.kids[Parent(p, n)] IN IF Place(p, n) < Len(s) THEN s[Place(p, n) + 1] ELSE ModNone
First(p, n) == IF p.kids[n] = <<>> THEN ModNone ELSE p.kids[n][1]

\* child->actions[], as the compiler sets it: a case always returns, an
\* update section has priority 0 for everything.
Action(p, n, r) ==
    CASE p.type[n] = "case" -> Return
      [] p.type[n] = "update" -> 0
      [] p.type[n] = "keep" -> DefaultActions.simple[r]
      [] OTHER -> IF <<n, r>> \in DOMAIN p.over THEN p.over[<<n, r>>]
                  ELSE DefaultActions[p.gtype[Parent(p, n)]][r]

OfType(p, ts) == {n \in Nodes(p) : p.type[n] \in ts}

\* What the outside may say: the result of each module, the outcome of each
\* condition, the member each load-balance group and switch picks.  An
\* expansion ("keep") has no result, an update section that works has none.
Oracles(p) ==
    [ret: [OfType(p, {"single"}) -> ModResults],
     update: [OfType(p, {"update"}) -> {"updated", "invalid"}],
     cond: [OfType(p, {"if", "elsif"}) -> BOOLEAN],
     pick: {f \in [OfType(p, {"load-balance", "redundant-load-balance", "switch"}) -> Nodes(p) \cup {ModNone}] :
              \A n \in DOMAIN f :
                 \/ \E i \in DOMAIN p.kids[n] : p.kids[n][i] = f[n]
                 \/ f[n] = ModNone /\ (p.type[n] = "switch" \/ p.kids[n] = <<>>)}]

Top == modstack[Len(modstack)]
Node == Top.child
TypeOf(n) == policy.type[n]

SetTop(f) == modstack' = [modstack EXCEPT ![Len(modstack)] = f]
Goto(l) == modpc' = l

-----------------------------------------------------------------------------
\* modcall(): the stack holds the section itself.
ModInit ==
    /\ policy \in Policies
    /\ oracle \in Oracles(policy)
    /\ modstack = <<[child |-> 1, start |-> ModNone, result |-> ModDefault, priority |-> 0]>>
    /\ myresult = ModDefault
    /\ flags = [was_if |-> FALSE, if_taken |-> FALSE]
    /\ modpc = "loop"
    /\ called = <<>>

Skipped(n) == TypeOf(n) \in {"else", "elsif"} /\ (~flags.was_if \/ flags.if_taken)
False(n) == TypeOf(n) \in {"if", "elsif"} /\ ~Skipped(n) /\ ~oracle.cond[n]

\* An else or elsif without an if before it, or after one that was taken.
SkipElse ==
    /\ modpc = "loop" /\ Skipped(Node)
    /\ myresult' = Top.result
    /\ Goto("unroll")
    /\ UNCHANGED <<policy, oracle, modstack, flags, called>>

\* An if or elsif whose condition is false; elsif has taken the group's result
\* for its own first.
FalseIf ==
    /\ modpc = "loop" /\ False(Node)
    /\ LET r == IF TypeOf(Node) = "elsif" THEN Top.result ELSE myresult
       IN myresult' = r /\ SetTop([Top EXCEPT !.result = r])
    /\ flags' = [was_if |-> TRUE, if_taken |-> FALSE]
    /\ Goto("next_section")
    /\ UNCHANGED <<policy, oracle, called>>

\* call_modsingle(), or indexed_modcall() for another server's section.
CallSingle ==
    /\ modpc = "loop" /\ TypeOf(Node) = "single"
    /\ myresult' = oracle.ret[Node]
    /\ called' = Append(called, Node)
    /\ Goto("unroll")
    /\ UNCHANGED <<policy, oracle, modstack, flags>>

\* An expansion, or an update section: the last result stays, unless the
\* update fails.
KeepResult ==
    /\ modpc = "loop" /\ TypeOf(Node) \in {"keep", "update"}
    /\ myresult' = IF TypeOf(Node) = "update" /\ oracle.update[Node] # "updated"
                     THEN oracle.update[Node] ELSE myresult
    /\ Goto("unroll")
    /\ UNCHANGED <<policy, oracle, modstack, flags, called>>

\* A group: its first child, or the one that is picked.  An empty group
\* returns at once.
Enter ==
    /\ modpc = "loop" /\ TypeOf(Node) \in Groups /\ ~Skipped(Node) /\ ~False(Node)
    /\ LET kid == IF Node \in DOMAIN oracle.pick THEN oracle.pick[Node] ELSE First(policy, Node)
       IN /\ modstack' = Append(modstack, [child |-> kid, start |-> kid, result |-> ModDefault, priority |-> 0])
          /\ Goto(IF kid = ModNone THEN "do_return" ELSE "loop")
    /\ myresult' = IF TypeOf(Node) \in {"else", "elsif"} THEN Top.result ELSE myresult
    /\ UNCHANGED <<policy, oracle, flags, called>>

\* unroll: the child's action for the result.
Unroll ==
    /\ modpc = "unroll"
    /\ LET a == Action(policy, Node, myresult) IN
       \/ a = Return /\ SetTop([Top EXCEPT !.result = myresult]) /\ Goto("do_return")
       \/ a = Reject /\ SetTop([Top EXCEPT !.result = "reject"]) /\ Goto("do_return")
       \/ /\ a >= 0
          /\ SetTop(IF a >= Top.priority THEN [Top EXCEPT !.result = myresult, !.priority = a] ELSE Top)
          /\ Goto("next_section")
    /\ UNCHANGED <<policy, oracle, myresult, flags, called>>

\* The child after the one that is done, by the type of their parent.
After(n) ==
    LET p == Parent(policy, n)
        next == IF Following(policy, n) # ModNone THEN Following(policy, n) ELSE First(policy, p)
    IN CASE TypeOf(p) \in {"switch", "load-balance"} -> ModNone
         [] TypeOf(p) = "redundant-load-balance" -> IF next = Top.start THEN ModNone ELSE next
         [] OTHER -> Following(policy, n)

NextSection ==
    /\ modpc = "next_section"
    /\ IF After(Node) = ModNone THEN modstack' = modstack /\ Goto("do_return")
       ELSE SetTop([Top EXCEPT !.child = After(Node)]) /\ Goto("loop")
    /\ UNCHANGED <<policy, oracle, myresult, flags, called>>

\* Mutant: the flags of the group that ends stay as they are.
FlagsKept(n) == flags

\* was_if and if_taken after group n has returned.
FlagsAfter(n) ==
    LET taken == TypeOf(n) \in {"if", "elsif"} IN [was_if |-> taken, if_taken |-> taken]

\* do_return: the group's result is its parent's child's result.  An empty
\* group sets the flags by the type of the group around it.
DoReturn ==
    /\ modpc = "do_return"
    /\ myresult' = Top.result
    /\ modstack' = Front(modstack)
    /\ IF Len(modstack) = 2 THEN Goto("done") /\ UNCHANGED flags
       ELSE LET group == modstack[Len(modstack) - 1].child
            IN /\ Goto("unroll")
               /\ flags' = FlagsAfter(IF Node = ModNone THEN Parent(policy, group) ELSE group)
    /\ UNCHANGED <<policy, oracle, called>>

ModNext ==
    \/ SkipElse \/ FalseIf \/ CallSingle \/ KeepResult \/ Enter
    \/ Unroll \/ NextSection \/ DoReturn

ModSpec == ModInit /\ [][ModNext]_modVars

-----------------------------------------------------------------------------
\* The reference: a group is its children in order, an if-chain the first
\* branch whose condition holds.  st carries the group's result and its
\* priority, the last result, the modules called, and whether a chain of if
\* and elsif is still looking for its branch.
Apply(p, n, st, r, chain) ==
    LET a == Action(p, n, r)
        s == [st EXCEPT !.last = r, !.chain = chain]
    IN CASE a = Return -> [s EXCEPT !.res = r, !.over = TRUE]
         [] a = Reject -> [s EXCEPT !.res = "reject", !.over = TRUE]
         [] OTHER -> IF a >= st.prio THEN [s EXCEPT !.res = r, !.prio = a] ELSE s

\* The children of a group that get a turn, in order: of a redundant group
\* that balances all, from the one picked round to the one before it.
Turns(p, o, n) ==
    LET k == p.kids[n] IN
    CASE p.type[n] \in {"load-balance", "switch"} -> IF o.pick[n] = ModNone THEN <<>> ELSE <<o.pick[n]>>
      [] p.type[n] = "redundant-load-balance" ->
           IF k = <<>> THEN <<>>
           ELSE LET i == Place(p, o.pick[n]) IN SubSeq(k, i, Len(k)) \o SubSeq(k, 1, i - 1)
      [] OTHER -> k

\* Which if an else or elsif belongs to.  "adjacent": the one right before it
\* in its group, or none.  "last": the last one that ended before it, with
\* modules, updates and expansions in between, or the beginning of a group.
Bindings == {"adjacent", "last"}
Between(binding, chain) == IF binding = "last" THEN chain ELSE "none"

RECURSIVE EvalGroup(_, _, _, _, _), EvalTurn(_, _, _, _, _)

\* Child n of a group whose evaluation so far is st.
EvalTurn(p, o, n, st, binding) ==
    LET branch == p.type[n] \in {"if", "elsif", "else"}
        begun == p.type[n] \in {"elsif", "else"}
        s == IF begun THEN [st EXCEPT !.last = st.res] ELSE st
    IN IF st.over THEN st
       ELSE IF begun /\ st.chain # "looking" THEN Apply(p, n, s, st.res, st.chain)
       ELSE IF branch /\ p.type[n] # "else" /\ ~o.cond[n]
              THEN [s EXCEPT !.chain = "looking", !.res = s.last]
       ELSE IF p.type[n] = "single"
              THEN Apply(p, n, [s EXCEPT !.calls = Append(@, n)], o.ret[n], Between(binding, s.chain))
       ELSE IF p.type[n] \in {"keep", "update"}
              THEN Apply(p, n, s, IF p.type[n] = "update" /\ o.update[n] # "updated"
                                    THEN o.update[n] ELSE s.last, Between(binding, s.chain))
       ELSE LET g == EvalGroup(p, o, n, s, binding)
            IN Apply(p, n, [s EXCEPT !.calls = g.calls], g.res, IF branch THEN "taken" ELSE "none")

EvalGroup(p, o, n, st, binding) ==
    FoldLeft(LAMBDA s, k : EvalTurn(p, o, k, s, binding),
             [st EXCEPT !.res = ModDefault, !.prio = 0, !.chain = Between(binding, @), !.over = FALSE],
             Turns(p, o, n))

Reference(p, o, binding) ==
    EvalGroup(p, o, 1, [res |-> ModDefault, prio |-> 0, last |-> ModDefault, calls |-> <<>>,
                        chain |-> "none", over |-> FALSE], binding)

\* Every else and elsif comes right after an if or elsif.  The compiler asks
\* for less: it takes them anywhere but in a load-balance group.
ElseFollowsIf(p) ==
    \A n \in OfType(p, {"else", "elsif"}) :
        Place(p, n) > 1 /\ p.type[p.kids[Parent(p, n)][Place(p, n) - 1]] \in {"if", "elsif"}

\* modcall() returns what the recursive evaluation of the section returns, and
\* calls the same modules in the same order.  Where every else follows its if,
\* the two flags that are not on the stack never let a nested group decide about
\* an outer else, or the other way round.  In the other sections the compiler
\* takes, an else goes with the last if that ended, over modules in between and
\* into the group that begins with it; no module and no group beyond that is
\* skipped or run.  (As in the code, a false if puts the last result in the place
\* of the group's.)
ModcallIsStructured ==
    modpc = "done" =>
        \A binding \in IF ElseFollowsIf(policy) THEN Bindings ELSE {"last"} :
            LET ref == Reference(policy, oracle, binding)
            IN myresult = ref.res /\ called = ref.calls

=============================================================================
