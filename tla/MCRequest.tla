----------------------------- MODULE MCRequest ------------------------------
(* A few requests of one NAS, with one or two home servers. *)
EXTENDS Request, TLC

CONSTANTS q1, q2, k1, v1, v2, h1, h2

Conf(children, fail, post, virtual, bad) ==
    [haveChildren |-> children, noResponseFail |-> fail, postProxyFail |-> post,
     virtual |-> virtual, badReplies |-> bad]

\* Started as a daemon, with the post-proxy section for silent home servers.
Daemon == {Conf(TRUE, TRUE, TRUE, FALSE, FALSE)}

\* Started with -X, where request_post_handler() calls wait_a_bit(); and a
\* daemon that drops requests of silent home servers and may meet bad replies.
Others == {Conf(FALSE, TRUE, FALSE, FALSE, FALSE), Conf(TRUE, FALSE, FALSE, FALSE, TRUE)}

Symm == Permutations(Reqs) \cup Permutations(Vectors) \cup Permutations(RealHomes)
=============================================================================
