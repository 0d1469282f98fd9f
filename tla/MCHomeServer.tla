---------------------------- MODULE MCHomeServer ----------------------------
(* One home server, with and without status checks. *)
EXTENDS HomeServer, TLC

CONSTANTS r1, r2, g1, g2

Conf(check, wake, noIds, lost) ==
    [pingCheck |-> check, wakeAll |-> wake, idsRunOut |-> noIds, pingsGetLost |-> lost]

\* Status checks that are all answered, or not; no status checks, in a pool
\* that wakes its dead servers or not; and each with Ids running out.
MCConfs == {Conf(check, ~check, noIds, lost) : check, noIds, lost \in BOOLEAN}
             \cup {Conf(FALSE, FALSE, FALSE, TRUE)}

\* Status checks while Ids run out.
NoIdConfs == {Conf(TRUE, FALSE, TRUE, TRUE)}
=============================================================================
