------------------------------ MODULE MCStores ------------------------------
(* The modules and lists that keep sessions, logins, tunnels and clients, and *)
(* the packets on the wire, one at a time: focus says which one moves.        *)
EXTENDS IpPool, Sql, Radutmp, EapTls, Peap, Clients, MCWire, SqlIpPool

\* A crash; Accounting-Stops that come late; callers from "0"; sessions without
\* an address of the pool.
IpBase == [override |-> FALSE, crash |-> 0, late |-> FALSE, zero |-> FALSE, others |-> FALSE]
MCIpConfs ==
    {[crash |-> 1] @@ IpBase, [late |-> TRUE, others |-> TRUE] @@ IpBase,
     [override |-> TRUE, zero |-> TRUE] @@ IpBase, [others |-> TRUE] @@ IpBase}

\* Two NASes with a port each; networks from orderly to lossy and unordered.
MCNasOf == [p \in NasPorts |-> IF p = "b1" THEN "b" ELSE "a"]
MCUtConfs ==
    {[network |-> "ordered", delay |-> TRUE, rotate |-> 0],
     [network |-> "ordered", delay |-> FALSE, rotate |-> 0],
     [network |-> "lossy", delay |-> TRUE, rotate |-> 1],
     [network |-> "any", delay |-> TRUE, rotate |-> 2]}

\* TLS conversations: flights shorter than, as long as and longer than a
\* fragment and a record, whole and resumed handshakes, three methods, every
\* way to cut (Cut), and the sizes that the code does not stand (Odd).
Base ==
    [method |-> "tls", reused |-> FALSE, resume |-> FALSE, vps |-> FALSE, mtu |-> 0, length |-> TRUE,
     mine |-> <<4, 1>>, theirs |-> <<1, 5>>, frag |-> 2, always |-> FALSE]
Cut == [mtu: {0, 16}, length: BOOLEAN, frag: {2, 3}, always: BOOLEAN]
Full ==
    {[method |-> "tls", mine |-> <<m, n>>, theirs |-> <<a, b>>] :
        m \in {1, 3, 4, 6}, n \in {1, 3, 4}, a \in {1, 3}, b \in {2, 4, 6}}
    \cup {[method |-> "peap", mine |-> <<4, 1, m, n>>, theirs |-> <<1, 2, a, b>>] :
        m \in {1, 4}, n \in {2, 6}, a \in {1, 6}, b \in {1, 4}}
    \cup {[method |-> "ttls", mine |-> <<1, n, 0, m>>, theirs |-> <<1, 3, a, 1>>] :
        m \in {1, 4}, n \in {2, 6}, a \in {1, 6}}
Resumed ==
    {[method |-> "tls", mine |-> <<m>>, theirs |-> <<1, b>>] : m \in {1, 6}, b \in {1, 3}}
    \cup {[method |-> "peap", mine |-> <<4, 0, m>>, theirs |-> <<1, 2, a>>] : m \in {1, 4}, a \in {1, 4}}
    \cup {[method |-> "ttls", mine |-> <<m>>, theirs |-> <<1, b>>] : m \in {1, 6}, b \in {1, 3}}
Odd == {[mtu |-> 14], [mtu |-> 9], [mine |-> <<7, 1>>], [theirs |-> <<1, 9>>]}
MCTlsConfs ==
    {Base} \cup {c @@ f @@ Base : c \in Cut, f \in Full}
    \cup {c @@ f @@ [reused |-> TRUE] @@ r @@ Base :
            c \in Cut, f \in Resumed, r \in [resume: BOOLEAN, vps: BOOLEAN]}
    \cup {o @@ Base : o \in Odd}

\* Clients: networks with dynamic clients below and above static ones, both
\* address families, duplicates, and sections that are refused.
Bits(a) == [j \in 1 .. WordBits |-> (a \div 2^(WordBits - j)) % 2]
V4(a) == [af |-> "v4", w |-> <<Bits(a)>>]
V6(a, b, c, d) == [af |-> "v6", w |-> <<Bits(a), Bits(b), Bits(c), Bits(d)>>]
Net(ip, prefix, life, limit) ==
    [ip |-> ip, prefix |-> prefix, secret |-> 1, client_server |-> TRUE,
     lifetime |-> life, rate_limit |-> limit, sql |-> FALSE]
Nas(ip, prefix, secret, sql) ==
    [ip |-> ip, prefix |-> prefix, secret |-> secret, client_server |-> FALSE,
     lifetime |-> 0, rate_limit |-> FALSE, sql |-> sql]
MCClientConfs ==
    {<<Net(V4(2), 1, 1, TRUE), Nas(V4(0), 0, 2, FALSE)>>,
     <<Nas(V4(2), 2, 1, TRUE), Net(V4(0), 0, 3, FALSE)>>,
     <<Net(V6(1, 0, 0, 0), 4, 1, TRUE), Nas(V6(1, 2, 0, 1), 3, 1, FALSE),
       Nas(V6(1, 0, 3, 1), 7, 1, TRUE), Nas(V4(3), 2, 2, FALSE)>>,
     <<Nas(V4(1), 1, 1, FALSE), Nas(V4(0), 1, 1, FALSE), Nas(V4(0), 1, 2, TRUE)>>,
     <<Nas(V4(1), 1, 1, TRUE), Nas(V4(0), 3, 1, TRUE)>>,
     <<Net(V4(1), 2, 1, TRUE)>>,
     <<>>}
MCSenders == {V4(2), V4(3), V6(1, 0, 3, 2), V6(1, 2, 3, 2)}

\* Two servers, two users and one NAS: the whole pool; one address while
\* statements fail and leases end, or while Accounting-Stops come late.
OneNas(pool, trouble, late) ==
    [pool |-> pool, nases |-> {"nas1"}, faults |-> trouble, slow |-> trouble, late |-> late]
OneAddr == {CHOOSE a \in PoolAddrs : TRUE}
MCSqlPoolConfs == {OneNas(PoolAddrs, FALSE, FALSE), OneNas(OneAddr, TRUE, FALSE), OneNas(OneAddr, FALSE, TRUE)}

-----------------------------------------------------------------------------
VARIABLE focus

storeVars == <<focus, ipVars, sqlVars, utVars, tlsVars, peapVars, clientVars, wireVars, sqlipVars>>

\* What does not move has one initial state.
StoresInit ==
    /\ focus \in {"ippool", "sql", "utmp", "tls", "peap", "clients", "wire", "sqlippool"}
    /\ IF focus = "ippool" THEN TRUE ELSE ip_conf = CHOOSE c \in IpConfs : TRUE
    /\ IF focus = "sql" THEN TRUE ELSE sql_up = TRUE /\ unique_key = TRUE
    /\ IF focus = "utmp" THEN TRUE ELSE ut_conf = CHOOSE c \in UtConfs : TRUE
    /\ IF focus = "tls" THEN TRUE ELSE tls_conf = Base
    /\ IF focus = "peap" THEN TRUE ELSE peap_conf = [soh |-> FALSE, reused |-> FALSE, as_eap |-> FALSE]
    /\ IF focus = "clients" THEN TRUE ELSE todo = <<>>
    /\ IF focus = "sqlippool" THEN TRUE ELSE sqlip_conf = CHOOSE c \in SqlPoolConfs : TRUE
    /\ IpInit /\ SqlInit /\ UtInit /\ TlsInit /\ PeapInit /\ ClientsInit /\ SqlPoolInit
    /\ IF focus = "wire" THEN WireInit ELSE exchange = Idle /\ WireStart

StoresNext ==
    /\ UNCHANGED focus
    /\ \/ focus = "ippool" /\ IpNext /\ UNCHANGED <<sqlVars, utVars, tlsVars, peapVars, clientVars, wireVars, sqlipVars>>
       \/ focus = "sql" /\ SqlNext /\ UNCHANGED <<ipVars, utVars, tlsVars, peapVars, clientVars, wireVars, sqlipVars>>
       \/ focus = "utmp" /\ UtNext /\ UNCHANGED <<ipVars, sqlVars, tlsVars, peapVars, clientVars, wireVars, sqlipVars>>
       \/ focus = "tls" /\ TlsNext /\ UNCHANGED <<ipVars, sqlVars, utVars, peapVars, clientVars, wireVars, sqlipVars>>
       \/ focus = "peap" /\ PeapNext /\ UNCHANGED <<ipVars, sqlVars, utVars, tlsVars, clientVars, wireVars, sqlipVars>>
       \/ focus = "clients" /\ ClientsNext /\ UNCHANGED <<ipVars, sqlVars, utVars, tlsVars, peapVars, wireVars, sqlipVars>>
       \/ focus = "wire" /\ WireNext /\ UNCHANGED <<ipVars, sqlVars, utVars, tlsVars, peapVars, clientVars, sqlipVars>>
       \/ focus = "sqlippool" /\ SqlPoolNext /\ UNCHANGED <<ipVars, sqlVars, utVars, tlsVars, peapVars, clientVars, wireVars>>

StoresSpec == StoresInit /\ [][StoresNext]_storeVars

=============================================================================
