------------------------------- MODULE IpPool -------------------------------
(***************************************************************************)
(* Address pools of rlm_ippool: two gdbm files, the sessions by NAS port   *)
(* (the key) and the number of sessions by address.  Post-auth gives a     *)
(* caller an address, an Accounting-Stop takes it back.  Both are sequences*)
(* of stores, and the server may stop between any two of them, or a store  *)
(* may fail.                                                               *)
(*                                                                         *)
(* A file of gdbm is walked in the order of its hash: any entry may be the *)
(* first that suits.                                                       *)
(***************************************************************************)
EXTENDS Integers, Sequences, FiniteSets

CONSTANTS
    Ports,         \* keys: "%{NAS-IP-Address} %{NAS-Port}"
    Addrs,         \* the addresses of the range
    Callers,       \* Calling-Station-Ids, and NoOne where there is none
    Zero,          \* the caller id "0" that ippool_instantiate() stores
    NoOne,         \* no entry, no address, no Calling-Station-Id
    IpConfs        \* the configurations of a run


VARIABLES
    ip_conf,
    db,            \* the files: sess (session_db) and num (ip_index)
    lease,         \* per port, the address and the caller of the session at the NAS
    stops,         \* the ports whose last Accounting-Stop may arrive
    crashes        \* how often the server stopped, or a store failed, in between

ipVars == <<ip_conf, db, lease, stops, crashes>>

\* override: as configured.  crash: how often the server may stop or a store fail.
\* late: an Accounting-Stop may arrive again, and after the next session began.
\* zero: there are callers whose Calling-Station-Id is "0".
\* others: ports also have sessions without an address of the pool (their reply
\* had one, none was left, post-auth failed, or they have no Pool-Name), and a
\* Stop comes of them as well.
IpConf == [override: BOOLEAN, crash: Nat, late: BOOLEAN, zero: BOOLEAN, others: BOOLEAN]

\* ippool_info.  old: session and pool timeout are over.
Info == [ip: Addrs, active: BOOLEAN, cli: {Zero}, extra: BOOLEAN, old: BOOLEAN]

\* The keys of the session file: ports, and for each address the bucket it is
\* put into at the beginning.
Buckets == Ports \cup Addrs

Lease == [ip: Addrs, cli: Callers]

ASSUME IpPoolAssumption ==
    /\ IsFiniteSet(Ports) /\ IsFiniteSet(Addrs) /\ Ports \cap Addrs = {}
    /\ NoOne \notin Ports \cup Addrs \cup Info \cup Lease
    /\ Zero \in Callers
    /\ IpConfs \subseteq IpConf

IpTypeOK ==
    /\ ip_conf \in IpConf
    /\ db.sess \in [Buckets -> Info \cup {NoOne}]
    /\ db.num \in [Addrs -> Nat]
    /\ lease \in [Ports -> Lease \cup {NoOne}]
    /\ stops \subseteq Ports
    /\ crashes \in 0 .. ip_conf.crash

-----------------------------------------------------------------------------
\* ippool_instantiate() of a new database.
IpInit ==
    /\ ip_conf \in IpConfs
    /\ db = [sess |-> [k \in Buckets |->
                         IF k \in Ports THEN NoOne
                         ELSE [ip |-> k, active |-> FALSE, cli |-> Zero, extra |-> FALSE, old |-> FALSE]],
             num |-> [a \in Addrs |-> 0]]
    /\ lease = [k \in Ports |-> NoOne]
    /\ stops = {}
    /\ crashes = 0

Store(d, k, e) == [d EXCEPT !.sess[k] = e]

\* The stores that set the entry of port k free: the entry, the number of
\* sessions of its address, and for an extra entry of a multilink session the
\* deletion of the entry when others remain.
Release(d, k) ==
    LET e == d.sess[k]
        off == Store(d, k, [e EXCEPT !.active = FALSE, !.old = FALSE])
        less == [off EXCEPT !.num[e.ip] = @ - 1]
    IN IF d.num[e.ip] = 0 THEN <<off>>
       ELSE IF less.num[e.ip] > 0 /\ e.extra THEN <<off, less, Store(less, k, NoOne)>>
       ELSE <<off, less>>

\* The steps of an operation: all of them, or with a crash or a failed store
\* the first ones only.
Final(steps) == steps[Len(steps)]
Run(steps) == db' = Final(steps) /\ UNCHANGED crashes
RunPart(steps) ==
    /\ crashes < ip_conf.crash
    /\ crashes' = crashes + 1
    /\ \E i \in 1 .. Len(steps) : db' = steps[i]

-----------------------------------------------------------------------------
Entries(d) == {k \in Buckets : d.sess[k] # NoOne}

\* An active entry with the same caller id, for multilink.
SameCaller(d, cli) == {k \in Entries(d) : cli # NoOne /\ d.sess[k].cli = cli /\ d.sess[k].active}

\* "An entry with active == 0 or an entry that has expired."
Available(d) == {k \in Entries(d) : ~d.sess[k].active \/ d.sess[k].old}

\* Mutant: the number of sessions of the address is not looked at.
FreeIfAvailable(d) == Available(d)

\* ... whose address has no session by the other file.
FreeEntries(d) == {k \in Available(d) : d.num[d.sess[k].ip] = 0}

\* The entry to be used for a caller, or none.
Usable(d, cli) == IF SameCaller(d, cli) # {} THEN SameCaller(d, cli) ELSE FreeEntries(d)

\* The stores that give the address of entry x to port: the two entries
\* exchange their addresses when the port had one (found), x is deleted when it
\* had not, and a multilink session leaves x alone.
Give(d, port, x, cli, found) ==
    LET mppp == SameCaller(d, cli) # {}
        cleared == IF mppp THEN <<>>
                   ELSE IF ~found THEN <<Store(d, x, NoOne)>>
                   ELSE IF d.sess[port] = NoOne THEN <<>>
                   ELSE <<Store(d, x, d.sess[port])>>
        d1 == IF cleared = <<>> THEN d ELSE cleared[1]
        d2 == Store(d1, port, [d.sess[x] EXCEPT !.active = TRUE, !.old = FALSE, !.extra = @ \/ mppp])
    IN cleared \o <<d2, [d2 EXCEPT !.num[d.sess[x].ip] = @ + 1]>>

\* The entry of the port is stale if it is active.
Cleaned(port) ==
    IF db.sess[port] # NoOne /\ db.sess[port].active THEN Release(db, port) ELSE <<db>>

\* The session at the NAS is a new one, whatever comes of it.
NewSession(port, l) ==
    /\ lease' = [lease EXCEPT ![port] = l]
    /\ stops' = IF ip_conf.late THEN stops ELSE stops \ {port}
    /\ UNCHANGED ip_conf

\* ippool_postauth() for a caller whose reply has a Framed-IP-Address already:
\* without override that is kept, but a stale entry has been cleaned.
HasAddress(port) ==
    /\ ~ip_conf.override
    /\ Run(Cleaned(port)) \/ RunPart(Cleaned(port))
    /\ NewSession(port, NoOne)

\* ippool_postauth() that returns an address, or ends in between.
Allocate(port, cli) ==
    LET d == Final(Cleaned(port)) IN
    \E x \in Usable(d, cli) :
        LET steps == Give(d, port, x, cli, db.sess[port] # NoOne) IN
        \/ Run(steps) /\ NewSession(port, [ip |-> d.sess[x].ip, cli |-> cli])
        \/ RunPart(Cleaned(port) \o steps) /\ NewSession(port, NoOne)

\* "No available ip addresses in pool."
NotFound(port, cli) ==
    LET d == Final(Cleaned(port)) IN
    /\ Usable(d, cli) = {}
    /\ Run(<<d>>)
    /\ NewSession(port, NoOne)

\* The session ends at the NAS: one with an address of the pool, or another.
Hangup(port) ==
    /\ lease[port] # NoOne \/ ip_conf.others
    /\ lease' = [lease EXCEPT ![port] = NoOne]
    /\ stops' = stops \cup {port}
    /\ UNCHANGED <<ip_conf, db, crashes>>

\* ippool_accounting(): the entry of the port, active or not.
Stop(port) ==
    /\ port \in stops
    /\ IF db.sess[port] = NoOne THEN Run(<<db>>)
       ELSE Run(Release(db, port)) \/ RunPart(Release(db, port))
    /\ stops' = IF ip_conf.late THEN stops ELSE stops \ {port}
    /\ UNCHANGED <<ip_conf, lease>>

\* The session's time is over: the NAS has ended it, and no Stop has come.
Expire(port) ==
    /\ db.sess[port] # NoOne /\ db.sess[port].active /\ ~db.sess[port].old
    /\ db' = [db EXCEPT !.sess[port].old = TRUE]
    /\ lease' = [lease EXCEPT ![port] = NoOne]
    /\ UNCHANGED <<ip_conf, stops, crashes>>

IpNext ==
    \E port \in Ports :
        \/ HasAddress(port) \/ Hangup(port) \/ Stop(port) \/ Expire(port)
        \/ \E cli \in {c \in Callers : c = Zero => ip_conf.zero} : Allocate(port, cli) \/ NotFound(port, cli)

IpSpec == IpInit /\ [][IpNext]_ipVars

-----------------------------------------------------------------------------
\* Two sessions never have the same address, although the two files are not
\* changed together: a crash between their stores may cost an address, but does
\* not give one to two callers.  (An Accounting-Stop that comes late is taken for
\* the new session's, and a caller from "0" shares.)  One trouble at a time: a
\* second crash, callers from "0" that have doubled an entry, or the Stop of a
\* session that has no address of the pool do it after a crash.  That crash
\* leaves two entries of one address, and then one of them is active and not
\* counted; and such a Stop uncounts an address that callers from "0" share.
Troubles == crashes + (IF ip_conf.zero THEN 1 ELSE 0) + (IF ip_conf.others THEN 1 ELSE 0)

AddressIsExclusive ==
    ~ip_conf.late /\ Troubles <= 1 =>
        \A k, l \in Ports : k # l /\ lease[k] # NoOne /\ lease[l] # NoOne =>
            lease[k].ip # lease[l].ip \/ Zero \in {lease[k].cli, lease[l].cli}

\* Without crashes no address is lost or doubled however the entries exchange
\* them, and the second file counts the sessions of the first, also when an
\* Accounting-Stop comes twice or of a session that the pool gave nothing.
PoolIsComplete ==
    ~ip_conf.zero /\ crashes = 0 =>
        \A a \in Addrs :
            /\ \E k \in Entries(db) :
                 /\ db.sess[k].ip = a
                 /\ db.num[a] = IF db.sess[k].active THEN 1 ELSE 0
            /\ Cardinality({k \in Entries(db) : db.sess[k].ip = a}) = 1

\* "An entry that has expired" can be given to another caller.
ExpiredIsFree ==
    \A k \in Available(db) : crashes = 0 => k \in FreeEntries(db)

\* No address goes to two callers over a crash, and none is lost without one.
AddressesAreKept == IpTypeOK /\ AddressIsExclusive /\ PoolIsComplete

=============================================================================
