-------------------------------- MODULE Sql ---------------------------------
(***************************************************************************)
(* Accounting in a database (rlm_sql, with the MySQL driver): the pool of  *)
(* connections, which are opened again when they are lost, too old or used *)
(* up, and the queries that keep one row of radacct per session although   *)
(* the packets of a session come repeatedly and in any order.              *)
(*                                                                         *)
(* The build has no threads: a packet is handled in one step.  A connection*)
(* may be lost before or after the database has run a query.               *)
(***************************************************************************)
EXTENDS Integers, Sequences

CONSTANTS
    NumSocks,       \* num_sql_socks
    SqlDelay,       \* connect_failure_retry_delay
    SqlLifetime,    \* lifetime, or 0
    SqlMaxQueries,  \* max_queries, or 0
    SqlSessions,    \* Acct-Unique-Session-Ids, all of one NAS
    UniqueIds,      \* the tables of a run: whether radacct has a unique key on acctuniqueid
    MaxRows         \* bound: rows of one session (without that key there may be many)

ASSUME SqlAssumption ==
    /\ NumSocks \in Nat \ {0} /\ MaxRows \in Nat \ {0}
    /\ {SqlDelay, SqlLifetime, SqlMaxQueries} \subseteq Nat
    /\ UniqueIds \subseteq BOOLEAN

VARIABLES
    socks,      \* inst->sqlpool, in the order of the list
    last_used,  \* the place in the list where the next search starts, or 0
    grace,      \* seconds until now > connect_after
    sql_up,     \* the database accepts connections
    unique_key, \* the table has that key (the shipped schema.sql has a plain one)
    radacct,    \* per session, its rows: whether acctstoptime is NULL
    acked,      \* history: the packets that were answered, per session
    restarted   \* history: the sessions with a Start after the answered Stop

sqlVars == <<socks, last_used, grace, sql_up, unique_key, radacct, acked, restarted>>

Places == 1 .. NumSocks

\* SQLSOCK: state, the connection of the driver (none: its sock is NULL), and
\* how long it is open and the queries made on it, as far as they are compared.
SqlSock == [connected: BOOLEAN, conn: {"none", "live", "broken"},
            age: 0 .. SqlLifetime + 1, queries: 0 .. SqlMaxQueries]

Kinds == {"start", "alive", "stop"}

SqlTypeOK ==
    /\ socks \in [Places -> SqlSock]
    /\ last_used \in 0 .. NumSocks
    /\ grace \in 0 .. SqlDelay + 1
    /\ sql_up \in BOOLEAN /\ unique_key \in BOOLEAN
    /\ radacct \in [SqlSessions -> Seq(BOOLEAN)]
    /\ acked \in [SqlSessions -> SUBSET Kinds]
    /\ restarted \subseteq SqlSessions

-----------------------------------------------------------------------------
Open == [connected |-> TRUE, conn |-> "live", age |-> 0, queries |-> 0]
Unconnected == [Open EXCEPT !.connected = FALSE, !.conn = "none"]

\* The state a handler works on: the sockets, the time of grace, the rows of
\* all sessions, the result of the last query and its affected rows, and the
\* place of its socket, or 0.
World == [socks |-> socks, grace |-> grace, rows |-> radacct, ret |-> "ok", n |-> 0, got |-> 0]

\* connect_single_socket() that succeeds or not.
Connected(w, i) == [w EXCEPT !.socks[i] = Open]

NotConnected(w, i) == [w EXCEPT !.socks[i] = Unconnected, !.grace = SqlDelay + 1]
Connects(w, i) == (IF sql_up THEN {Connected(w, i)} ELSE {}) \cup {NotConnected(w, i)}

-----------------------------------------------------------------------------
\* Too old, or too many queries.
UsedUp(s) ==
    /\ s.connected
    /\ \/ SqlLifetime # 0 /\ s.age > SqlLifetime
       \/ SqlMaxQueries # 0 /\ s.queries >= SqlMaxQueries

\* sql_get_socket(), one socket of the list: closed when it is too old or has
\* had too many queries, and then connected again whatever the time of grace;
\* an unconnected one is connected when that is over.  w.got is the place of
\* the socket that is returned.
Visit(w, i) ==
    LET s == w.socks[i]
        again == UsedUp(s) \/ (~s.connected /\ w.grace = 0)
        v == IF again THEN (IF sql_up THEN Connected(w, i) ELSE NotConnected(w, i)) ELSE w
    IN IF v.socks[i].connected THEN [v EXCEPT !.got = i] ELSE v

\* From where the last search left off, round to the place before.
Ring ==
    LET start == IF last_used = 0 THEN 1 ELSE last_used
    IN [k \in 1 .. NumSocks |-> ((start + k - 2) % NumSocks) + 1]

\* What is left after so many sockets; the search ends at the one that is got.
Search(w) ==
    LET after[k \in 0 .. NumSocks] ==
            IF k = 0 THEN w
            ELSE IF after[k - 1].got # 0 THEN after[k - 1] ELSE Visit(after[k - 1], Ring[k])
    IN after

sql_get_socket(w) ==
    LET found == Search(w)[NumSocks]
        i == found.got
    IN IF i = 0 \/ SqlMaxQueries = 0 THEN found ELSE [found EXCEPT !.socks[i].queries = @ + 1]

-----------------------------------------------------------------------------
\* What a statement of dialup.conf does to the rows of session s: INSERT of an
\* open or a closed row, UPDATE of all rows of the session (CLIENT_FOUND_ROWS:
\* those that match count as affected).
Insert(w, s, open) ==
    IF unique_key /\ w.rows[s] # <<>> THEN [w EXCEPT !.ret = "error"]
    ELSE [w EXCEPT !.rows[s] = Append(@, open), !.n = 1, !.ret = "ok"]
Update(w, s, closes) ==
    [w EXCEPT !.rows[s] = [k \in DOMAIN @ |-> @[k] /\ ~closes], !.n = Len(w.rows[s]), !.ret = "ok"]

Statement(w, s, q) ==
    CASE q = "start" -> Insert(w, s, TRUE)
      [] q = "start_alt" -> Update(w, s, FALSE)
      [] q = "alive" -> Update(w, s, FALSE)
      [] q = "alive_alt" -> Insert(w, s, TRUE)
      [] q = "stop" -> Update(w, s, TRUE)
      [] q = "stop_alt" -> Insert(w, s, FALSE)
      [] q = "onoff" -> [w EXCEPT !.rows = [t \in SqlSessions |-> [k \in DOMAIN @[t] |-> FALSE]], !.ret = "ok"]

\* sql_query() of the driver: the statement runs, fails (a deadlock or a lock
\* that takes too long), or the connection is lost before or after it ran.
Attempt(w, i, s, q) ==
    LET down(v) == [v EXCEPT !.ret = "down", !.socks[i].conn = "broken"] IN
    IF w.socks[i].conn # "live" THEN {[w EXCEPT !.ret = "down"]}
    ELSE {Statement(w, s, q), [w EXCEPT !.ret = "error"], down(w), down(Statement(w, s, q))}

\* Mutant: the query is not made again on the new connection.
QueryNoRetry(w, i, s, q) ==
    LET first == Attempt(w, i, s, q)
        again == UNION {Connects(v, i) : v \in {u \in first : u.ret = "down"}}
    IN {v \in first : v.ret # "down"}
       \cup {[v EXCEPT !.ret = IF v.socks[i].connected THEN "ok" ELSE "error", !.n = 1] : v \in again}

\* rlm_sql_query(): when the connection is lost it is closed, opened again and
\* the query made once more, whether it ran the first time or not.
rlm_sql_query(w, i, s, q) ==
    LET first == Attempt(w, i, s, q)
        again == UNION {Connects(v, i) : v \in {u \in first : u.ret = "down"}}
        second == UNION {Attempt(v, i, s, q) : v \in {u \in again : u.socks[i].connected}}
    IN {v \in first : v.ret # "down"}
       \cup {[v EXCEPT !.ret = "error"] : v \in {u \in again : ~u.socks[i].connected}}
       \cup {[v EXCEPT !.ret = IF @ = "ok" THEN "ok" ELSE "error"] : v \in second}

\* The alternate query: of a Start when the first one failed, of an Alive or a
\* Stop when it matched no row.
Alternate == [start |-> "start_alt", alive |-> "alive_alt", stop |-> "stop_alt"]
TriesAlternate(w, kind) ==
    IF kind = "start" THEN w.ret = "error" ELSE kind # "onoff" /\ w.ret = "ok" /\ w.n < 1

\* rlm_sql_accounting() with socket i.
Accounting(w, i, s, kind) ==
    UNION {IF TriesAlternate(v, kind) THEN rlm_sql_query(v, i, s, Alternate[kind]) ELSE {v} :
             v \in rlm_sql_query(w, i, s, kind)}

\* rad_accounting(): only what was stored is answered.  Without a socket the
\* module fails.
Handle(s, kind) ==
    \E v \in LET w == sql_get_socket(World)
             IN IF w.got = 0 THEN {[w EXCEPT !.ret = "error"]} ELSE Accounting(w, w.got, s, kind) :
         /\ \A t \in SqlSessions : Len(v.rows[t]) <= MaxRows
         /\ socks' = v.socks
         /\ grace' = v.grace
         /\ radacct' = v.rows
         /\ last_used' = IF v.got = 0 THEN last_used ELSE IF v.got = NumSocks THEN 0 ELSE v.got + 1
         /\ acked' = IF v.ret = "ok" /\ kind \in Kinds THEN [acked EXCEPT ![s] = @ \cup {kind}] ELSE acked
         /\ restarted' = IF "stop" \notin acked[s] THEN restarted
                         ELSE IF kind = "start" THEN restarted \cup {s}
                         ELSE IF kind = "stop" /\ v.ret = "ok" THEN restarted \ {s} ELSE restarted
         /\ UNCHANGED <<sql_up, unique_key>>

\* sql_init_socketpool(): the first failure begins a time of grace.
SqlInit ==
    /\ sql_up \in BOOLEAN /\ unique_key \in UniqueIds
    /\ socks = [i \in Places |-> IF sql_up THEN Open ELSE Unconnected]
    /\ last_used = 0
    /\ grace = IF sql_up THEN 0 ELSE SqlDelay + 1
    /\ radacct = [s \in SqlSessions |-> <<>>]
    /\ acked = [s \in SqlSessions |-> {}]
    /\ restarted = {}

\* The database goes, with all connections, or comes back; or it ends the
\* connections that are idle.
Broken(P) == socks' = [i \in Places |-> IF i \in P /\ socks[i].conn = "live" THEN [socks[i] EXCEPT !.conn = "broken"]
                                       ELSE socks[i]]
Database ==
    /\ \/ sql_up /\ sql_up' = FALSE /\ Broken(Places)
       \/ ~sql_up /\ sql_up' = TRUE /\ UNCHANGED socks
       \/ sql_up /\ UNCHANGED sql_up /\ \E i \in Places : socks[i].conn = "live" /\ Broken({i})
    /\ UNCHANGED <<last_used, grace, unique_key, radacct, acked, restarted>>

\* A second goes by.
SqlTick ==
    /\ grace' = IF grace > 0 THEN grace - 1 ELSE 0
    /\ socks' = [i \in Places |->
                   [socks[i] EXCEPT !.age = IF socks[i].connected /\ SqlLifetime # 0 /\ @ <= SqlLifetime
                                            THEN @ + 1 ELSE @]]
    /\ UNCHANGED <<last_used, sql_up, unique_key, radacct, acked, restarted>>

SqlNext ==
    \/ \E s \in SqlSessions, kind \in Kinds \cup {"onoff"} : Handle(s, kind)
    \/ Database \/ SqlTick

SqlSpec == SqlInit /\ [][SqlNext]_sqlVars

-----------------------------------------------------------------------------
\* A socket is marked connected exactly when the driver has a connection for
\* it, so a handler never works on a NULL connection.
SocketIsTrue == \A i \in Places : socks[i].connected <=> socks[i].conn # "none"

\* An answered Alive or Stop has its row, and an answered Stop has left no row
\* open, in whatever order the packets come, come again, and are retried on a
\* lost connection.  With a unique key that is one row, closed for good.  Without
\* it, as the shipped schema.sql is, a retried INSERT makes a second row, and a
\* Start that comes after the Stop opens one again: nothing else does.
StopIsFinal ==
    \A s \in SqlSessions :
        /\ acked[s] \cap {"alive", "stop"} # {} => Len(radacct[s]) >= 1 /\ (unique_key => Len(radacct[s]) = 1)
        /\ "stop" \in acked[s] /\ (unique_key \/ s \notin restarted) =>
             \A k \in 1 .. Len(radacct[s]) : ~radacct[s][k]

\* A handler gets a socket when one is connected, wherever the last search
\* left off, and also in a time of grace; and when the database is back and
\* that time is over.
PoolRecovers ==
    \/ sql_up /\ grace = 0
    \/ \E i \in Places : socks[i].connected /\ ~UsedUp(socks[i])
    => sql_get_socket(World).got # 0

\* "If the accounting module returns NOOP, the data storage did not succeed, so
\* radiusd should not send Accounting-Response" (acct.cpp): what is answered
\* has been stored.
AckedIsStored == \A s \in SqlSessions : acked[s] # {} => radacct[s] # <<>>

\* "We failed the insert above.  It's probably because the stop record came
\* before the start" (rlm_sql.cpp): a Start after the Stop opens nothing.
StartAfterStop == \A s \in SqlSessions : "stop" \in acked[s] => \A k \in DOMAIN radacct[s] : ~radacct[s][k]

\* SQL accounting: an answered Stop closes the rows of its session, for good where
\* acctuniqueid is unique, although rlm_sql_query() repeats what may have run; and
\* sql_get_socket() gives a socket that has a connection whenever there is one,
\* and again when the database is back.
SqlIsRight == SqlTypeOK /\ StopIsFinal /\ SocketIsTrue /\ PoolRecovers

=============================================================================
