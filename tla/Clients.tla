------------------------------ MODULE Clients ------------------------------
(***************************************************************************)
(* The clients a listener knows: networks read from the configuration and  *)
(* from SQL at start-up, and the dynamic clients that the virtual server   *)
(* of a network creates when a packet comes from an address nobody knows.  *)
(* A dynamic client is deleted at the first packet after its lifetime,     *)
(* while requests that point to it may still be alive: it waits in         *)
(* deleted_clients, and is freed when a later one is deleted.              *)
(*                                                                         *)
(* Addresses keep their words (one for IPv4, four for IPv6), of WordBits   *)
(* bits instead of 32, since client_sane() masks them word by word; bit 1  *)
(* of a word is its first one on the wire.                                 *)
(***************************************************************************)
EXTENDS Integers, Sequences, FiniteSetsExt

CONSTANTS
    WordBits,       \* bits of a word of an address: 32 in the code
    Senders,        \* the addresses packets come from
    ClientConfs,    \* the sections of the configuration and the rows of the nas table, in order
    HoldTime,       \* seconds a deleted client is kept: 120 in the code
    RequestLife,    \* the longest life of a request: max_request_time and cleanup_delay
    MaxDeleted,     \* the size of deleted_clients: 1024 in the code
    MaxClock, MaxClients     \* bounds: the clock, and the clients ever allocated

Words(af) == IF af = "v4" THEN 1 ELSE 4
MaxPrefix(af) == Words(af) * WordBits
Word == [1 .. WordBits -> {0, 1}]
Address == UNION {[af: {f}, w: [1 .. Words(f) -> Word]] : f \in {"v4", "v6"}}

\* A section: the prefix is as written (MaxPrefix when it is left out),
\* sql says that it is a row of the nas table.
Section == [ip: Address, prefix: 0 .. 4 * WordBits, secret: {1, 2}, client_server: BOOLEAN,
            lifetime: Nat, rate_limit: BOOLEAN, sql: BOOLEAN]

\* radiusd.conf:206 offers 5 to 120 seconds for max_request_time, so that
\* RequestLife <= HoldTime is up to the administrator.  The nas table has no
\* column for a virtual server that creates clients.
ASSUME ClientsAssumption ==
    /\ WordBits \in Nat \ {0} /\ MaxDeleted \in Nat \ {0, 1}
    /\ HoldTime \in Nat /\ RequestLife \in 0 .. HoldTime
    /\ MaxClock \in Nat /\ MaxClients \in Nat
    /\ Senders \subseteq Address
    /\ \A conf \in ClientConfs :
         /\ conf \in Seq(Section) /\ Len(conf) <= MaxClients
         /\ \A i \in 1 .. Len(conf) : conf[i].sql => ~conf[i].client_server

VARIABLES
    todo,       \* the sections still to be read
    started,    \* "reading", "up", or "failed": the configuration is refused
    clock,      \* time(NULL)
    radclients, \* every RADCLIENT that entered a list, in that order
    lists,      \* trees, tree_num, min_prefix, deleted_clients; freed: the ones given to free()
    used,       \* history: until when a request may use each client
    asked       \* history: how often each network was asked for an unknown address this second

clientVars == <<todo, started, clock, radclients, lists, used, asked>>

RadClient == [ip: Address, prefix: 0 .. 4 * WordBits, secret: {1, 2}, client_server: BOOLEAN,
              lifetime: Nat, rate_limit: BOOLEAN,
              dynamic: 0 .. 3, created: Nat, last_new_client: Nat]

-----------------------------------------------------------------------------
\* A word without the bits behind the first keep ones.
Masked(word, keep) == [b \in 1 .. WordBits |-> IF b <= keep THEN word[b] ELSE 0]

\* Mutant: the words behind the one that the prefix cuts are masked as it is.
SaneMasksAlike(ip, prefix) ==
    LET keep == prefix % WordBits
        cut == prefix \div WordBits
    IN  [ip EXCEPT !.w = [i \in DOMAIN @ |-> IF i <= cut THEN @[i] ELSE Masked(@[i], keep)]]

\* client_sane(): the bits behind the prefix become 0; the words in front of
\* the one that the prefix cuts stay, the ones behind it are cleared.
client_sane(ip, prefix) ==
    LET keep == prefix % WordBits
        cut == prefix \div WordBits
    IN  [ip EXCEPT !.w = [i \in DOMAIN @ |->
            CASE i <= cut -> @[i]
              [] i = cut + 1 -> Masked(@[i], keep)
              [] OTHER -> Masked(@[i], 0)]]

\* client_find(): the trees from the longest prefix to min_prefix; 0: no client.
client_find(cs, ls, ip) ==
    LET At(p) == {i \in ls.trees : cs[i].prefix = p /\ cs[i].ip = client_sane(ip, p)}
        hits == {p \in ls.min_prefix .. MaxPrefix(ip.af) : At(p) # {}}
    IN  IF hits = {} THEN 0 ELSE CHOOSE i \in At(Max(hits)) : TRUE

\* The part of client_add() that enters the client: the trees, and the least prefix.
Enter(cs, ls, c) ==
    LET n == Len(cs) + 1
    IN  [ls EXCEPT !.trees = @ \cup {n}, !.tree_num = @ \cup {n},
                   !.min_prefix = IF c.prefix < @ THEN c.prefix ELSE @]

\* The clients of the same network.
Twins(cs, ls, c) == {i \in ls.trees : cs[i].prefix = c.prefix /\ cs[i].ip = c.ip}

\* A client of the nas table inherits the lifetime of what client_find() finds
\* for its network, which may be the client itself: it is in the tree by now.
Inherited(cs, ls, c) ==
    LET all == Append(cs, c)
    IN  IF c.dynamic = 1 /\ c.lifetime = 0
        THEN all[client_find(all, Enter(cs, ls, c), c.ip)].lifetime ELSE c.lifetime

\* client_add(): refused, ignored as a complete duplicate, or entered.
client_add(cs, ls, client) ==
    LET c == [client EXCEPT !.ip = client_sane(client.ip, client.prefix)]
        old == Twins(cs, ls, c)
        Same(i) == \A f \in {"secret", "client_server", "lifetime"} : cs[i][f] = c[f]
        sane == client.prefix <= MaxPrefix(client.ip.af)
    IN  IF ~sane \/ old # {}
        THEN [ok |-> sane /\ \A i \in old : Same(i), cs |-> cs, ls |-> ls]
        ELSE [ok |-> TRUE, cs |-> Append(cs, [c EXCEPT !.lifetime = Inherited(cs, ls, c)]),
              ls |-> Enter(cs, ls, c)]

\* client_free() of a client that client_delete() marked: it is pushed (or lost,
\* when deleted_clients is full), and the head is freed when it is old enough.
client_free(cs, ls, n) ==
    LET full == Len(ls.deleted) = MaxDeleted
        q == IF full THEN ls.deleted ELSE Append(ls.deleted, n)
    IN  IF cs[q[1]].created + HoldTime < clock
        THEN [ls EXCEPT !.deleted = Tail(q), !.freed = @ \cup {q[1]}]
        ELSE [ls EXCEPT !.deleted = q]

client_delete(cs, ls, n) ==
    LET marked == [cs EXCEPT ![n].dynamic = 3, ![n].created = clock]
    IN  [cs |-> marked, ls |-> client_free(marked, [ls EXCEPT !.trees = @ \ {n}, !.tree_num = @ \ {n}], n)]

-----------------------------------------------------------------------------
ClientsInit ==
    /\ todo \in ClientConfs
    /\ started = "reading"
    /\ clock = 1
    /\ radclients = <<>>
    /\ lists = [trees |-> {}, tree_num |-> {}, min_prefix |-> 4 * WordBits,
                deleted |-> <<>>, freed |-> {}]
    /\ used = <<>> /\ asked = <<>>

\* client_parse(): a network of dynamic clients is not a single address, and
\* IPv4 has no longer prefix than its address.
Parses(s) ==
    /\ ~s.sql /\ s.client_server => s.prefix # MaxPrefix(s.ip.af)
    /\ ~s.sql => s.prefix <= MaxPrefix(s.ip.af)

FromSection(s) ==
    [ip |-> s.ip, prefix |-> s.prefix, secret |-> s.secret, client_server |-> s.client_server,
     lifetime |-> s.lifetime, rate_limit |-> s.rate_limit,
     dynamic |-> IF s.sql THEN 1 ELSE 0, created |-> 0, last_new_client |-> 0]

\* clients_parse_section() and generate_sql_clients(), one client at a time:
\* what is refused keeps the server from starting.
ReadClient ==
    /\ started = "reading" /\ todo # <<>>
    /\ LET s == Head(todo)
           added == client_add(radclients, lists, FromSection(s))
       IN  IF Parses(s) /\ added.ok
           THEN /\ radclients' = added.cs /\ lists' = added.ls
                /\ used' = [i \in DOMAIN added.cs |-> 0] /\ asked' = used'
                /\ UNCHANGED started
           ELSE started' = "failed" /\ UNCHANGED <<radclients, lists, used, asked>>
    /\ todo' = Tail(todo)
    /\ UNCHANGED clock

StartUp ==
    /\ started = "reading" /\ todo = <<>>
    /\ started' = "up"
    /\ UNCHANGED <<todo, clock, radclients, lists, used, asked>>

-----------------------------------------------------------------------------
\* The packet becomes a request of client n.
Taken(cs, ls, n) ==
    /\ radclients' = cs /\ lists' = ls
    /\ used' = [i \in DOMAIN cs |-> IF i = n THEN clock + RequestLife
                                    ELSE IF i \in DOMAIN used THEN used[i] ELSE 0]

\* "unknown": the packet is discarded.
Unknown(cs, ls) == radclients' = cs /\ lists' = ls /\ UNCHANGED used

\* The client that client_create() makes of the attributes of the virtual server.
Created(ip) ==
    [ip |-> ip, prefix |-> MaxPrefix(ip.af), secret |-> 1, client_server |-> FALSE,
     lifetime |-> 0, rate_limit |-> FALSE, dynamic |-> 0, created |-> 0, last_new_client |-> 0]

\* client_validate(): the new client gets its lifetime after client_add().
client_validate(cs, ls, c, net) ==
    LET added == client_add(cs, ls, c)
        n == Len(added.cs)
        new == [added.cs[n] EXCEPT !.dynamic = 1, !.lifetime = cs[net].lifetime, !.created = clock]
    IN  IF added.ok THEN [added EXCEPT !.cs = [@ EXCEPT ![n] = new]] ELSE added

\* The rest of client_listener_find(): the virtual server of the network is run.
\* It says no, or what it says does not make a client (yes = FALSE), or it does.
Ask(cs, ls, net, ip, yes) ==
    LET marked == [cs EXCEPT ![net].last_new_client = clock]
        made == client_validate(marked, ls, Created(ip), net)
    IN  IF yes /\ made.ok
        THEN Len(marked) < MaxClients /\ Taken(made.cs, made.ls, Len(made.cs))
        ELSE Unknown(marked, ls)

\* asked counts to 2.
NotAsked == asked' = [i \in DOMAIN used' |-> IF i \in DOMAIN asked THEN asked[i] ELSE 0]
Asked(net) == asked' = [i \in DOMAIN used' |-> IF i \notin DOMAIN asked THEN 0
                                          ELSE IF i = net THEN Min({2, asked[i] + 1}) ELSE asked[i]]

\* A packet from a dynamic client whose lifetime is over: it is deleted, and the
\* enclosing network decides, whatever its rate limit.
Expired(n, ip, yes) ==
    LET rest == client_delete(radclients, lists, n)
        net == client_find(rest.cs, rest.ls, ip)
    IN  /\ IF net = 0 \/ ~rest.cs[net].client_server THEN Unknown(rest.cs, rest.ls)
                                                     ELSE Ask(rest.cs, rest.ls, net, ip, yes)
        /\ NotAsked

\* A packet from an address that only a network with a virtual server encloses.
Enclosed(net, ip, yes) ==
    IF radclients[net].rate_limit /\ clock = radclients[net].last_new_client
    THEN Unknown(radclients, lists) /\ NotAsked
    ELSE Ask(radclients, lists, net, ip, yes) /\ Asked(net)

\* A packet comes: client_listener_find().
client_listener_find(ip, yes) ==
    LET n == client_find(radclients, lists, ip)
        c == radclients[n]
    IN  /\ started = "up"
        /\ CASE n = 0 -> Unknown(radclients, lists) /\ NotAsked
             [] n # 0 /\ c.dynamic = 0 /\ ~c.client_server -> Taken(radclients, lists, n) /\ NotAsked
             [] n # 0 /\ c.dynamic = 0 /\ c.client_server -> Enclosed(n, ip, yes)
             [] OTHER -> IF c.lifetime = 0 \/ clock = c.last_new_client \/ c.created + c.lifetime > clock
                         THEN Taken(radclients, lists, n) /\ NotAsked
                         ELSE Expired(n, ip, yes)
        /\ UNCHANGED <<todo, started, clock>>

Second ==
    /\ started = "up" /\ clock < MaxClock
    /\ clock' = clock + 1
    /\ asked' = [i \in DOMAIN asked |-> 0]
    /\ UNCHANGED <<todo, started, radclients, lists, used>>

ClientsNext ==
    \/ ReadClient \/ StartUp \/ Second
    \/ \E ip \in Senders, yes \in BOOLEAN : client_listener_find(ip, yes)

ClientsSpec == ClientsInit /\ [][ClientsNext]_clientVars

-----------------------------------------------------------------------------
(* Types: a client that left the trees is marked as deleted, and             *)
(* deleted_clients never holds more than it was made for.                    *)
ClientsTypeOK ==
    /\ radclients \in Seq(RadClient) /\ Len(radclients) <= MaxClients
    /\ todo \in Seq(Section)
    /\ lists.trees \subseteq DOMAIN radclients /\ lists.freed \subseteq DOMAIN radclients
    /\ Len(lists.deleted) <= MaxDeleted
    /\ \A n \in DOMAIN radclients : n \in lists.trees <=> radclients[n].dynamic # 3

\* Two addresses agree in the first bits, as many as the prefix says, counted
\* through all words.
Agree(a, b, prefix) ==
    /\ a.af = b.af
    /\ \A i \in 1 .. Words(a.af), j \in 1 .. WordBits :
         (i - 1) * WordBits + j <= prefix => a.w[i][j] = b.w[i][j]

(* client_find() finds, for every address, the client with the longest        *)
(* prefix whose network the address lies in, and nobody when there is none,   *)
(* whatever the order of additions and deletions did to min_prefix.           *)
NearestIsFound ==
    \A ip \in Senders :
        LET around == {n \in lists.trees : Agree(radclients[n].ip, ip, radclients[n].prefix)}
            found == client_find(radclients, lists, ip)
        IN  /\ found = 0 <=> around = {}
            /\ found # 0 => /\ found \in around
                            /\ \A n \in around \ {found} : radclients[n].prefix < radclients[found].prefix

(* A client is not freed as long as a request that came from it can be alive *)
(* (client_free() keeps it for 120 seconds).                                  *)
UsedIsNotFreed == \A n \in lists.freed : used[n] < clock

(* Nothing points to a client that was freed or waits to be: the trees, the  *)
(* tree of the statistics and deleted_clients have no client in common, save *)
(* the first two, which agree, and deleted_clients holds none twice.          *)
NothingDangles ==
    LET waiting == {lists.deleted[i] : i \in DOMAIN lists.deleted}
    IN  /\ lists.tree_num = lists.trees
        /\ (lists.trees \cup waiting) \cap lists.freed = {}
        /\ lists.trees \cap waiting = {}
        /\ \A i, j \in DOMAIN lists.deleted : lists.deleted[i] = lists.deleted[j] => i = j

(* With rate_limit a network runs its virtual server for at most one unknown *)
(* address in a second, also when it says no ("we only allow one new client  *)
(* per second").                                                              *)
NewIsLimited ==
    \A n \in DOMAIN radclients : radclients[n].rate_limit => asked[n] <= 1

(* A packet is answered with the secret of the nearest client; dynamic        *)
(* clients come at most as fast as they may, and none is freed or forgotten   *)
(* while a tree or a request points to it.                                    *)
ClientsAreRight ==
    ClientsTypeOK /\ NearestIsFound /\ UsedIsNotFreed /\ NothingDangles /\ NewIsLimited

=============================================================================
