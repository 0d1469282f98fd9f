------------------------------ MODULE MCProxy -------------------------------
(* A home server as a proxy uses it, and a CoA request that is sent to one:  *)
(* focus says which of the two moves.                                        *)
EXTENDS MCHomeServer, Coa

VARIABLE focus

\* The one that does not move has one configuration.
ProxyInit ==
    /\ focus \in {"home", "coa"}
    /\ Init /\ CoaInit
    /\ focus = "home" => coa_conf = CHOOSE c \in CoaConfs : TRUE
    /\ focus = "coa" => conf = CHOOSE c \in Confs : TRUE

ProxyNext ==
    /\ UNCHANGED focus
    /\ \/ focus = "home" /\ Next /\ UNCHANGED coaVars
       \/ focus = "coa" /\ CoaNext /\ UNCHANGED vars

\* The timers of the one that moves.
ProxyFairness ==
    /\ focus = "home" => Fairness
    /\ focus = "coa" => CoaFairness

ProxySpec == ProxyInit /\ [][ProxyNext]_<<focus, vars, coaVars>> /\ ProxyFairness

\* Started as a daemon with late answers, and without children.
MCCoaConfs ==
    {[haveChildren |-> TRUE, refused |-> FALSE, late |-> TRUE],
     [haveChildren |-> FALSE, refused |-> FALSE, late |-> FALSE]}
=============================================================================
