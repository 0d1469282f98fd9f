------------------------------ MODULE MCParts -------------------------------
(* Components that do not share state, one at a time: focus says which one   *)
(* moves.                                                                    *)
EXTENDS MCHomePool, Detail, EapSession, EapMethods, TLC

\* Users with every method, with one they must use, without passwords or
\* triplets; MSCHAPv2 in a tunnel; cards behind, ahead of and near the end of
\* the server's sequence number.
BaseMethods ==
    [types |-> EapMethod, default |-> "md5", only |-> "any", password |-> TRUE,
     triplets |-> TRUE, send_error |-> FALSE, proxy |-> FALSE, sqn |-> 1, card |-> 1]
MCMethodConfs ==
    {[BaseMethods EXCEPT !.default = m] : m \in EapMethod}
    \cup {[BaseMethods EXCEPT !.default = m, !.only = "sim"] : m \in EapMethod}
    \cup {[BaseMethods EXCEPT !.default = "leap", !.password = FALSE, !.triplets = FALSE],
          [BaseMethods EXCEPT !.types = {"md5", "gtc"}, !.default = "sim"]}
    \cup {[BaseMethods EXCEPT !.types = {"aka", "md5"}, !.default = "aka", !.sqn = s, !.card = c] :
            s \in {0, 7}, c \in {2, 5, 9}}
    \cup {[BaseMethods EXCEPT !.types = {"mschapv2"}, !.default = "mschapv2", !.send_error = e, !.proxy = p] :
            e, p \in BOOLEAN}

VARIABLE focus

\* The pool while another component moves: it has one server, which is
\* dead.
IdlePool == [PoolOf("fail-over", NoHome, FALSE, FALSE, {}) EXCEPT !.servers = <<h1>>]

PartsInit ==
    /\ focus \in {"pool", "detail", "eap", "methods"}
    /\ IF focus = "pool" THEN PoolInit
       ELSE /\ pool_conf = IdlePool
            /\ home_state = [h \in Homes |-> "dead"]
            /\ currently_outstanding = [h \in Homes |-> 0]
    /\ DetailInit
    /\ EapInit
    /\ IF focus = "methods" THEN TRUE ELSE method_conf = BaseMethods
    /\ MethodInit

\* The records are alike: they are numbered in the order of their writing.
Numbered == \A r \in Records \ {1} : kind[r] # "unwritten" => kind[r - 1] # "unwritten"

PartsNext ==
    /\ UNCHANGED focus
    /\ \/ focus = "pool" /\ PoolNext /\ UNCHANGED <<detailVars, eapVars, methodVars>>
       \/ focus = "detail" /\ DetailNext /\ Numbered' /\ UNCHANGED <<poolVars, eapVars, methodVars>>
       \/ focus = "eap" /\ EapNext /\ UNCHANGED <<poolVars, detailVars, methodVars>>
       \/ focus = "methods" /\ MethodNext /\ UNCHANGED <<poolVars, detailVars, eapVars>>

PartsSpec == PartsInit /\ [][PartsNext]_<<focus, poolVars, detailVars, eapVars, methodVars>>

\* The sessions are alike.
Symm == Permutations(Sessions)
=============================================================================
