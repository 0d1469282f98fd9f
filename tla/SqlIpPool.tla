----------------------------- MODULE SqlIpPool ------------------------------
(***************************************************************************)
(* rlm_sqlippool.cpp with the queries of raddb/sql/mysql/ippool.conf:      *)
(* addresses with a lease, in a table that several servers use.  A server  *)
(* handles one packet at a time; each statement is a step, and what a      *)
(* statement returns is not looked at.  The database (InnoDB) is external: *)
(* a transaction that has touched the table keeps the others out until it  *)
(* commits, and is rolled back when its connection is lost.  A user stands *)
(* for a User-Name with its Calling-Station-Id and NAS-Port (pool-key).    *)
(***************************************************************************)
EXTENDS Integers, FiniteSets

CONSTANTS
    PoolAddrs, PoolUsers, PoolServers,
    NoUser, NoAddr,
    LeaseDuration,   \* lease-duration
    MaxNow,          \* the clock stops there
    SqlPoolConfs     \* the configurations of a run

\* pool: the addresses whose pool_name is the users' Pool-Name.  nases: the
\* NASes whose users share it.  faults: statements fail, and connections are
\* lost.  slow: the clock moves between two statements.  late: an Accounting-Stop
\* comes again, or when the user's next session is there.
SqlPoolConf ==
    [pool: SUBSET PoolAddrs, nases: SUBSET {"nas1", "nas2"}, faults: BOOLEAN, slow: BOOLEAN, late: BOOLEAN]

NoServer == "none"

ASSUME SqlIpPoolAssumption ==
    /\ LeaseDuration \in Nat \ {0} /\ MaxNow \in Nat \ {0} /\ SqlPoolConfs \subseteq SqlPoolConf
    /\ NoUser \notin PoolUsers /\ NoAddr \notin PoolAddrs /\ NoServer \notin PoolServers

VARIABLES
    sqlip_conf,
    pool_now,
    radippool,      \* nasipaddress, username and expiry_time (0: NULL) of each address
    pool_before,    \* the table as the transaction found it
    pool_lock,      \* the server whose transaction has the table
    pool_job,       \* what each server is doing
    pool_held,      \* what each user was given, by which NAS, and until when
    pool_last,      \* what each user's last session had: its Stop may come late
    pool_again      \* history: the users who had such a Stop in this session

sqlipVars == <<sqlip_conf, pool_now, radippool, pool_before, pool_lock, pool_job, pool_held, pool_last, pool_again>>

FreeRow == [nas |-> "", user |-> NoUser, expiry |-> 0]
FreeTable == [a \in PoolAddrs |-> FreeRow]
NoJob == [kind |-> "idle", step |-> "", user |-> NoUser, nas |-> "", addr |-> NoAddr, tx |-> FALSE]
NotHeld == [addr |-> NoAddr, nas |-> "", until |-> 0]

SqlPoolTypeOK ==
    /\ pool_now \in 1 .. MaxNow
    /\ radippool \in [PoolAddrs -> [nas: {"", "nas1", "nas2"}, user: PoolUsers \cup {NoUser}, expiry: 0 .. MaxNow + LeaseDuration]]
    /\ pool_lock # NoServer => pool_job[pool_lock].tx
    /\ \A a \in PoolAddrs : radippool[a].expiry = 0 <=> radippool[a].user = NoUser

SqlPoolInit ==
    /\ sqlip_conf \in SqlPoolConfs
    /\ pool_now = 1
    /\ radippool = FreeTable /\ pool_before = FreeTable
    /\ pool_lock = NoServer
    /\ pool_job = [s \in PoolServers |-> NoJob]
    /\ pool_held = [u \in PoolUsers |-> NotHeld]
    /\ pool_last = [u \in PoolUsers |-> NotHeld] /\ pool_again = {}

-----------------------------------------------------------------------------
\* The statements.

\* allocate-clear: "expiry_time <= NOW() - INTERVAL 1 SECOND AND nasipaddress = ..."
AllocateClear(r, nas) ==
    [a \in PoolAddrs |-> IF r[a].nas = nas /\ r[a].expiry # 0 /\ r[a].expiry <= pool_now - 1 THEN FreeRow ELSE r[a]]

\* allocate-find: rows that have no expiry_time or one in the past; the user's
\* own last address first, then those without.
AllocateFind(r, user) ==
    LET found == {a \in sqlip_conf.pool : r[a].expiry < pool_now}
        own == {a \in found : r[a].user = user}
        first(S) == {a \in S : \A b \in S : r[a].expiry <= r[b].expiry}
    IN  IF own # {} THEN first(own) ELSE first(found)

\* allocate-update: "WHERE framedipaddress = '%I' AND expiry_time IS NULL".
AllocateUpdate(r, addr, nas, user) ==
    [a \in PoolAddrs |->
        IF a = addr /\ r[a].expiry = 0 THEN [nas |-> nas, user |-> user, expiry |-> pool_now + LeaseDuration] ELSE r[a]]

\* start-update and alive-update; stop-clear; on-clear and off-clear.
IsLeaseOf(r, a, j) == r[a].nas = j.nas /\ r[a].user = j.user /\ a = j.addr
RenewLease(r, j) == [a \in PoolAddrs |-> IF IsLeaseOf(r, a, j) THEN [r[a] EXCEPT !.expiry = pool_now + LeaseDuration] ELSE r[a]]
StopClear(r, j) == [a \in PoolAddrs |-> IF IsLeaseOf(r, a, j) THEN FreeRow ELSE r[a]]
OnClear(r, j) == [a \in PoolAddrs |-> IF r[a].nas = j.nas THEN FreeRow ELSE r[a]]

-----------------------------------------------------------------------------
\* Packets come.

UserIsBusy(u) == \E s \in PoolServers : pool_job[s].kind \notin {"idle", "again"} /\ pool_job[s].user = u
StopIsComing(u) == \E s \in PoolServers : pool_job[s].kind = "again" /\ pool_job[s].user = u

PoolPacket(s, kind, u, n, a) ==
    /\ pool_job[s] = NoJob
    /\ pool_job' = [pool_job EXCEPT ![s] = [NoJob EXCEPT !.kind = kind, !.step = "begin", !.user = u, !.nas = n, !.addr = a]]

\* An Access-Request that was accepted: sqlippool_postauth().  A NAS that comes
\* up has its Accounting-On answered first.
PoolLogin(s, u, n) ==
    /\ n \in sqlip_conf.nases /\ pool_held[u] = NotHeld /\ ~UserIsBusy(u)
    /\ \A t \in PoolServers : pool_job[t].kind = "on" => pool_job[t].nas # n
    /\ PoolPacket(s, "allocate", u, n, NoAddr)
    /\ pool_again' = {v \in pool_again : v # u \/ StopIsComing(u)}
    /\ UNCHANGED <<sqlip_conf, pool_now, radippool, pool_before, pool_lock, pool_held, pool_last>>

\* Accounting-Start and Alive, while the lease lasts.
Renews(s, u) ==
    /\ pool_held[u] # NotHeld /\ pool_held[u].until >= pool_now /\ ~UserIsBusy(u)
    /\ PoolPacket(s, "renew", u, pool_held[u].nas, pool_held[u].addr)
    /\ UNCHANGED <<sqlip_conf, pool_now, radippool, pool_before, pool_lock, pool_held, pool_last, pool_again>>

\* The session of u is over.
PoolEnds(u) ==
    /\ pool_held' = [pool_held EXCEPT ![u] = NotHeld]
    /\ pool_last' = IF sqlip_conf.late THEN [pool_last EXCEPT ![u] = pool_held[u]] ELSE pool_last

PoolLogoff(s, u) ==
    /\ pool_held[u] # NotHeld /\ ~UserIsBusy(u)
    /\ PoolPacket(s, "stop", u, pool_held[u].nas, pool_held[u].addr)
    /\ PoolEnds(u)
    /\ UNCHANGED <<sqlip_conf, pool_now, radippool, pool_before, pool_lock, pool_again>>

\* The Accounting-Stop is lost, or comes later.
PoolStopLost(u) ==
    /\ pool_held[u] # NotHeld /\ ~UserIsBusy(u)
    /\ PoolEnds(u)
    /\ UNCHANGED <<sqlip_conf, pool_now, radippool, pool_before, pool_lock, pool_job, pool_again>>

\* The Stop of the last session comes again, or at last: it has the user, the
\* NAS and the address, and stop-clear asks for no more.
PoolStopAgain(s, u) ==
    /\ sqlip_conf.late /\ pool_last[u] # NotHeld /\ ~StopIsComing(u)
    /\ PoolPacket(s, "again", u, pool_last[u].nas, pool_last[u].addr)
    /\ pool_again' = pool_again \cup {u}
    /\ UNCHANGED <<sqlip_conf, pool_now, radippool, pool_before, pool_lock, pool_held, pool_last>>

\* Accounting-On and Off: all sessions of the NAS are over.
NasReboot(s, n) ==
    /\ n \in sqlip_conf.nases
    /\ \A t \in PoolServers : pool_job[t].kind # "again" => pool_job[t].nas # n
    /\ PoolPacket(s, "on", NoUser, n, NoAddr)
    /\ pool_held' = [u \in PoolUsers |-> IF pool_held[u].nas = n THEN NotHeld ELSE pool_held[u]]
    /\ UNCHANGED <<sqlip_conf, pool_now, radippool, pool_before, pool_lock, pool_last, pool_again>>

-----------------------------------------------------------------------------
\* A server runs the statements of its packet.  (Mutant: no transaction.)

PoolNoBegin(s) == [pool_job EXCEPT ![s].tx = FALSE, ![s].step = IF pool_job[s].kind = "allocate" THEN "clear" ELSE "work"]
PoolBegun(s) == [pool_job EXCEPT ![s].tx = TRUE, ![s].step = IF pool_job[s].kind = "allocate" THEN "clear" ELSE "work"]
PoolBegin(s) ==
    /\ pool_job[s].step = "begin"
    /\ pool_job' = PoolBegun(s)
    /\ UNCHANGED <<sqlip_conf, pool_now, radippool, pool_before, pool_lock, pool_held, pool_last, pool_again>>

\* A statement that touches the table waits for the transaction that has it.
TouchTable(s) ==
    /\ pool_lock \in {NoServer, s}
    /\ pool_lock' = IF pool_job[s].tx THEN s ELSE NoServer
    /\ pool_before' = IF pool_lock = NoServer /\ pool_job[s].tx THEN radippool ELSE pool_before

\* The transaction of s, if it has the table, is over.
EndTransaction(s) ==
    /\ pool_lock' = IF pool_lock = s THEN NoServer ELSE pool_lock
    /\ pool_before' = IF pool_lock = s THEN FreeTable ELSE pool_before

ClearExpired(s) ==
    /\ pool_job[s].step = "clear" /\ TouchTable(s)
    /\ radippool' = AllocateClear(radippool, pool_job[s].nas)
    /\ pool_job' = [pool_job EXCEPT ![s].step = "find"]
    /\ UNCHANGED <<sqlip_conf, pool_now, pool_held, pool_last, pool_again>>

\* "Nothing found..." commits (pool-check, which follows, changes nothing).
FindAddress(s) ==
    /\ pool_job[s].step = "find" /\ TouchTable(s)
    /\ LET found == AllocateFind(radippool, pool_job[s].user)
       IN  \/ \E a \in found : pool_job' = [pool_job EXCEPT ![s].step = "update", ![s].addr = a]
           \/ found = {} /\ pool_job' = [pool_job EXCEPT ![s].step = "commit"]
    /\ UNCHANGED <<sqlip_conf, pool_now, radippool, pool_held, pool_last, pool_again>>

SaveAddress(s) ==
    /\ pool_job[s].step = "update" /\ TouchTable(s)
    /\ radippool' = AllocateUpdate(radippool, pool_job[s].addr, pool_job[s].nas, pool_job[s].user)
    /\ pool_job' = [pool_job EXCEPT ![s].step = "commit"]
    /\ UNCHANGED <<sqlip_conf, pool_now, pool_held, pool_last, pool_again>>

AccountingWork(s) ==
    /\ pool_job[s].step = "work" /\ TouchTable(s)
    /\ radippool' = CASE pool_job[s].kind = "renew" -> RenewLease(radippool, pool_job[s])
                      [] pool_job[s].kind \in {"stop", "again"} -> StopClear(radippool, pool_job[s])
                      [] OTHER -> OnClear(radippool, pool_job[s])
    /\ pool_job' = [pool_job EXCEPT ![s].step = "commit"]
    /\ UNCHANGED <<sqlip_conf, pool_now, pool_held, pool_last, pool_again>>

\* The packet is done: an address goes out with the Access-Accept, whatever
\* became of the statements.
PoolDone(s) ==
    /\ pool_job' = [pool_job EXCEPT ![s] = NoJob]
    /\ pool_held' = IF pool_job[s].kind \in {"allocate", "renew"} /\ pool_job[s].addr # NoAddr
                 THEN [pool_held EXCEPT ![pool_job[s].user] =
                         [addr |-> pool_job[s].addr, nas |-> pool_job[s].nas, until |-> pool_now + LeaseDuration]]
               ELSE pool_held

PoolCommit(s) ==
    /\ pool_job[s].step = "commit" /\ PoolDone(s) /\ EndTransaction(s)
    /\ UNCHANGED <<sqlip_conf, pool_now, radippool, pool_last, pool_again>>

\* sqlippool_command() logs an error and goes on; a SELECT that fails has found
\* nothing; a COMMIT that fails has saved nothing.
StatementFails(s) ==
    /\ sqlip_conf.faults
    /\ \/ /\ pool_job[s].step \in {"begin", "clear", "find", "update", "work"}
          /\ pool_job' = [pool_job EXCEPT ![s].step =
                          CASE @ = "begin" -> IF pool_job[s].kind = "allocate" THEN "clear" ELSE "work"
                            [] @ = "clear" -> "find"
                            [] OTHER -> "commit"]
          /\ UNCHANGED <<radippool, pool_before, pool_lock, pool_held>>
       \/ /\ pool_job[s].step = "commit" /\ PoolDone(s) /\ EndTransaction(s)
          /\ radippool' = IF pool_lock = s THEN pool_before ELSE radippool
    /\ UNCHANGED <<sqlip_conf, pool_now, pool_last, pool_again>>

\* The connection is lost: the transaction is rolled back, and rlm_sql_query()
\* sends the statement again on a new connection, outside any transaction.
ConnectionLost(s) ==
    /\ sqlip_conf.faults
    /\ pool_job[s].tx
    /\ radippool' = IF pool_lock = s THEN pool_before ELSE radippool
    /\ EndTransaction(s)
    /\ pool_job' = [pool_job EXCEPT ![s].tx = FALSE]
    /\ UNCHANGED <<sqlip_conf, pool_now, pool_held, pool_last, pool_again>>

\* sql_get_socket() has none: no address, and the packet is done.
NoSocket(s) ==
    /\ sqlip_conf.faults
    /\ pool_job[s].step = "begin"
    /\ pool_job' = [pool_job EXCEPT ![s] = NoJob]
    /\ UNCHANGED <<sqlip_conf, pool_now, radippool, pool_before, pool_lock, pool_held, pool_last, pool_again>>

PoolTick ==
    /\ pool_now < MaxNow
    /\ sqlip_conf.slow \/ \A s \in PoolServers : pool_job[s] = NoJob
    /\ pool_now' = pool_now + 1
    /\ UNCHANGED <<sqlip_conf, radippool, pool_before, pool_lock, pool_job, pool_held, pool_last, pool_again>>

SqlPoolNext ==
    \/ \E s \in PoolServers, u \in PoolUsers : \E n \in {"nas1", "nas2"} : PoolLogin(s, u, n)
    \/ \E s \in PoolServers, u \in PoolUsers : Renews(s, u) \/ PoolLogoff(s, u) \/ PoolStopAgain(s, u)
    \/ \E u \in PoolUsers : PoolStopLost(u)
    \/ \E s \in PoolServers, n \in {"nas1", "nas2"} : NasReboot(s, n)
    \/ \E s \in PoolServers :
         \/ PoolBegin(s) \/ ClearExpired(s) \/ FindAddress(s) \/ SaveAddress(s) \/ AccountingWork(s) \/ PoolCommit(s)
         \/ StatementFails(s) \/ ConnectionLost(s) \/ NoSocket(s)
    \/ PoolTick

SqlPoolSpec == SqlPoolInit /\ [][SqlPoolNext]_sqlipVars

-----------------------------------------------------------------------------
LeaseIsExclusive ==
    \A u, v \in PoolUsers \ pool_again :
        u # v /\ pool_held[u] # NotHeld /\ pool_held[u].addr = pool_held[v].addr =>
            ~(pool_held[u].until >= pool_now /\ pool_held[v].until >= pool_now)

\* No address is given to a user while another one's lease of it lasts, with any
\* number of servers on one database, as long as the users of one NAS share the
\* pool, no statement fails, no lease ends between two statements, and neither
\* user had an Accounting-Stop of an earlier session in this one.  (It does not
\* hold when two NASes share it: allocate-find returns an expired row of the
\* other NAS, which allocate-clear left, and allocate-update then saves nothing.
\* Nor for a user whose old Stop came again: stop-clear, ippool.conf:77-83, does
\* not ask for the session and frees the row of the new one.
\* sqlippool.conf:34-39 says that MySQL "can hand out the same IP address to 2
\* different users" and to use "MySQL with InnoDB".)
PoolIsExclusive ==
    Cardinality(sqlip_conf.nases) <= 1 /\ ~sqlip_conf.faults /\ ~sqlip_conf.slow => LeaseIsExclusive

\* The same, with the types: a row has a user exactly when it has an expiry_time.
SqlPoolIsRight == SqlPoolTypeOK /\ PoolIsExclusive

=============================================================================
