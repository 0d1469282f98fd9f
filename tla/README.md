# A TLA+ verification of WinRadius

WinRadius is a RADIUS server for Windows, derived from FreeRADIUS 2. This
directory holds TLA+ models of its core, TLC configurations that check them on
small instances, and proofs, checked by TLAPS, of what matters most for every
size. All paths below are relative to `src/WinRadius/`.

1. [The system](#1-the-system)
2. [Modules and how they correspond to the code](#2-modules-and-how-they-correspond-to-the-code)
3. [Runs](#3-runs)
4. [Fairness](#4-fairness)
5. [Proofs](#5-proofs)
6. [Where code and documentation disagree](#6-where-code-and-documentation-disagree)
7. [What is not modelled](#7-what-is-not-modelled)
8. [Plan](#8-plan)

## 1. The system

The server is one process with one thread: `HAVE_PTHREAD_H` is not defined in
this build, so `thread_pool_addrequest()` runs a request in line, and
`radius_signal_self()` runs its handler at once. Everything is a callback of
the event loop (`fr_event_loop()`): a readable socket or a timer. What is hard
is therefore not a data race but the *order* of callbacks: a request lives
through many of them, and between two of them the NAS may repeat or replace its
packet, the home server may answer late or twice, another request may make the
home server change state, and a timer set by one handler may fire after another
has changed what it meant.

| Component | State it keeps | Operations | Interacts with | What makes it correct |
|---|---|---|---|---|
| Packet list (`src/lib/packet.cpp`) | tree of packets waiting for a reply, table of sockets, bitmap of Ids per destination | add/remove a socket, allocate/free an Id, insert/yank, find by reply | the proxy list `proxy_list` of `event.cpp`; radclient | an Id is never used twice at a time; a reply finds its request; the counts that allow a socket to be removed are exact |
| Request life cycle (`winradiusd/event.cpp`) | per REQUEST: `child_state`, its event, `next_callback`/`next_when`, both hashes, reply, home server | packet from the NAS, duplicate, conflicting packet, reply of a home server, five timers | policy modules (what to answer), packet list, home servers | one answer, never early, never none; a request always has a timer and is freed in the end; the assertions of the handlers hold |
| Home server state (`winradiusd/event.cpp`) | alive/zombie/dead, `currently_outstanding`, status checks, one timer | send, reply, time-out, status check sent/answered/missed, revival | requests, pools | a server out of service has the timer that brings it back; the count never blocks an idle server; only answers in a row revive |
| Home server pools (`winradiusd/realms.cpp`) | pool type and members | `home_server_ldb()` | home server state, requests | the best server is found by the order of each type; `max_outstanding` is a limit |
| Detail files (`winradiusd/detail.cpp`, `src/modules/rlm_detail`) | the file, the work file, the reader's state | write, poll, answer, restart | requests made from records | no complete record that can be read is lost over crashes and retries; each is answered |
| EAP sessions (`src/modules/rlm_eap/mem.cpp`, `eap.cpp`, `rlm_eap.cpp`) | list and tree of handlers, State attributes | start, response, NAK, expiry, proxied tunnel | EAP methods, requests | a State answers once; the list is exact and bounded; expired sessions do not go on; no handler is lost |
| Originated CoA requests (`event.cpp` 1326-1704) | a request with its own retransmission timer, its Id, its parent | originate, retransmit, give up, answer, hand over | packet list, home servers, the parent request | it ends once, in time, with its own Id, and is freed also when its parent is gone |
| Event list and heap (`src/lib/event-lib.cpp`, `heap.cpp`) | heap of timers, each with its place; the readers | insert, delete, run; open, close, wait | every timer and socket | a timer fires once, in order, not after it was deleted; the loop wakes in time and calls the right handler |
| Policy interpreter (`winradiusd/modcall.cpp`) | a stack of calls, a result and a priority, two flags | `modcall()` | every module | it computes what the tree says |
| EAP-TLS, PEAP, TTLS (`src/modules/rlm_eap/eap_tls.cpp`, `tls.cpp`, `peap.cpp`) | the four TLS buffers, the fragment that is sent; the phase | request, response, acknowledgement | EAP sessions, OpenSSL, requests to a home server | flights arrive whole; success is earned, failure final |
| EAP password methods (`rlm_eap_md5.cpp`, `_gtc`, `_leap`, `_sim`, `_aka`, `_mschapv2`; `eap.cpp`) | `handler->opaque`: challenge, keys, where the method is | identity, NAK, response, answer of a home server | EAP sessions, PEAP | an accept, and its keys, follow a proof of the last challenge; who does what is asked is not rejected |
| SQL (`src/modules/rlm_sql`) | connections; rows of radacct | find a socket, query, retry, reconnect | accounting | what is answered has its row, and an answered Stop leaves none open; the pool recovers |
| Address pools (`rlm_ippool`; `rlm_sqlippool`) | two files; a table that several servers use | allocate, renew, release, expire | post-auth, accounting | an address has one holder |
| Login records (`rlm_radutmp`) | a file of records, cached offsets | start, update, stop, On/Off, count | accounting, simultaneous use | one record per port, and the count is right |
| Clients (`winradiusd/client.cpp`, `listen.cpp`) | a tree per prefix, dynamic clients, deleted ones | add, find, create, expire, free | every packet received | the nearest is found; none is freed in use |
| Wire format (`src/lib/radius.cpp`) | none | encode, sign, check, verify, decode | every packet | decoding undoes encoding; what is signed verifies; nothing is written past a buffer |
| Conditions (`winradiusd/evaluate.cpp`) | one frame per nested call | check at start, evaluate in a request | policy interpreter | what is accepted has one value; what is skipped is not run |
| Attribute lists (`src/lib/valuepair-lib.cpp`, `winradiusd/valuepair.cpp`, `evaluate.cpp`) | linked lists of pairs, `request->username` | find, delete, move by operator | every module | a pair has one owner; an operator does what it says |
| Users file (`src/modules/rlm_files`) | a chain of entries per name | search for a request | attribute lists | the entries that match, in the order of the file, for every request alike |
| Containers (`src/lib/rbtree.cpp`, `hash.cpp`) | nodes, colours; chains, buckets | insert, find, delete, walk | everything above | they are sets, and nodes keep their address |

`PROJECT.json` lists every component, the ones left out too, and each hazard at
the line where it bites.

How a proxied Access-Request crosses the components: `received_request()` puts
it in the request hash and runs `radius_handle_request()`; policy sets
Proxy-To-Realm; `successfully_proxied_request()` asks `home_server_ldb()` for a
server (*HomePool*), `insert_into_proxy_hash()` counts it on the server
(*HomeServer*) and takes an Id (*PacketList*), and the request waits as
`REQUEST_PROXIED` with a timer (*Request*). The reply is found by
`fr_packet_list_find_byreply()`, gives the Id back, marks the server alive and
runs the handler again; silence runs `no_response_to_proxied_request()`, which
may mark the server a zombie and answers for it.

## 2. Modules and how they correspond to the code

Definitions keep the names of the functions they model; `PROJECT.json` maps
each to its lines. A definition whose comment starts with MUTANT (or Mutant) is
a deliberately broken variant of the definition that follows it: replacing one
by the other must make the named property fail. No specification uses it.

**PacketList.** One action per function: `SocketAdd`, `SocketRemove`, `IdAlloc`
(with its failure `IdAllocFails`), `Insert`, `Yank`, `IdFree`;
`fr_packet_list_find_byreply()` changes nothing and is the operator `ReplyKey`.
A bitmap `pd->id[i]` is a set of slots, `inUse[d][i]`. The open-addressed table of
sockets is kept, with its probe order (`Probe`, `fr_socket_find`), because a
removed socket leaves a hole and its slot gets a new owner. The random Id from
which the search starts makes every Id whose bitmap is not full a possible
result, and the failure "Internal sanity check failed", which happens although
another Id is free, is kept. `stage` is how far the caller has got with a packet: both callers
allocate, insert, yank and free in this order.

**Request.** Every handler is an operator from a request to the *set* of
requests it may leave behind, so that what policy and network decide is a
choice, and in-line calls compose as they do in the code:
`received_request()` -> `radius_handle_request` -> `request_pre_handler`, `fun`,
`request_post_handler` -> `Respond` -> `Finish` -> `wait_a_bit`. One step of
the model is one callback of the event loop. `rad_assert()` and `rad_panic()`
set `failed`, which stays set in the slot after the request is freed. The
other history fields (`sent`, `early`, `hasty`, `quiet`,
`dropped`, `cached`, `late`) say what the properties need to know of the past.
`when` is the time left until `request->when`, and for a delayed reject it is negative when
the loop is late: `reject_delay()` adds `cleanup_delay` to it, so a reject that is sent late is
cleaned up as much sooner after it was sent (event.cpp:629). `next_when` of a CoA-Request, to which
`Respond` adds, is counted in the same way (event.cpp:2462); no other handler adds to a time that may be past.
`conf` is chosen once: `have_children` (from -X and -s; it decides who
calls `wait_a_bit()`), `no_response_fail`, whether Post-Proxy-Type Fail is
configured, whether the pool has virtual servers, and whether replies that fail
`rad_verify()` occur.

**HomeServer.** The state machine of one server with the requests and status
checks in flight to it. `PingHomeServer` is `ping_home_server()`, including its
early returns and the failure to find an Id; `NoResponse` is
`no_response_to_proxied_request()` with `check_for_zombie_home_server()` before
and the change to zombie after it, in the order of the code. Replies are
assumed to verify. `streak` is history.

**HomePool.** `home_server_ldb(r)` is the function as written: the start index
(`Start`), the loop (one `Turn` per server; `Turns` is what may have been found after so many
of them, a set where it asks `fr_rand()`), then zombie, fallback, wake-all and the DEFAULT realm. The
servers change state, fill and empty between choices. `ActsAs` says where the code leaves the
rule of proxy.conf: keyed-balance without a key is fail-over, client-port-balance is
client-balance (section 6). It covers a named realm;
the DEFAULT realm's own pool is of type fail-over without a fallback.

**Detail.** `do_detail` writes, `event_poll_detail` is one whole
`detail_recv()` (one disjunct per `data->state`), `detail_send` and `Vanish` are
the two ends of a proxied record, `Restart` is a crash: the files stay, the
reader's memory does not. Records may be complete, complete but empty, cut short
by a full disk in the body or in the header line. A read may fail at any place
(`ReadError`), after which the code unlinks the work file with what it has not read; `discarded` is
that. `LockWorks`, `UnlinkFails` and `ReadFails` are properties of the platform. Delays and the load factor are left out: a poll
may come at any time, so every timing is covered.

**EapSession.** `handler` is each EAP_HANDLER and where it is: on the list, with a
proxied request (`held`), freed, or owned by nobody (`lost`). A State attribute
is `StateKey`: session, trip and type, which is what the code mixes into 128
random bits. `Respond(c)` is `eap_authenticate()` for a response that carries
any State ever sent, so that repeated and stale responses are ordinary inputs.
Ages are relative to the request a timestamp was copied from.

**Coa.** `Originate` is `originate_coa()` and the first transmission at the end
of the parent; `CoaStep` fires the event of a CoA request:
`retransmit_coa_request`, `no_response_to_coa_request` and the clean-up, with
RFC 5080's delays rounded up to seconds. A retransmission takes a new Id. The
home server answers any transmission at any time (`Reply`), and `LateReply` is an
answer under an Id that has changed hands meanwhile. `ParentFreed` is
`wait_a_bit()` of the parent.

**EventList**, implementing **Timers**. The heap is the array of `heap.cpp`, with
the offset each event keeps of itself, so that `fr_heap_extract()` from the middle
is the code's bubbling and not a set difference. Its two loops are a turn each (`BubbleTurn`,
`SiftTurn`) and the state after so many turns, a recursive function (`BubbleTurns`, `SiftTurns`). `Select`, `EventsHaveRun`,
`Dispatch` and `HandlerReturns` are the parts of `fr_event_loop()` between which
handlers open and close sockets. Timers is what users rely on: one event per owner,
fired once, when due, in order. `ImplementsTimers` is the refinement.

**ModCall.** The loop of `modcall()` with its labels as a program counter
(`SkipElse`, `FalseIf`, `CallSingle`, `KeepResult`, `Enter`, `Unroll`,
`NextSection`, `DoReturn`), its stack, and the flags `was_if` and `if_taken` that are
not on the stack. `Reference` is the recursive evaluation of the same tree. The compiler
(modcall.cpp:1713-1761) takes an `else` or `elsif` anywhere but in a load-balance group, so the
reference has two ways to say which `if` it belongs to: the one right before it (`"adjacent"`), or the
last one that ended, with modules in between and into the group that begins with the `else` (`"last"`).
Where every `else` follows its `if` the code does both; elsewhere it does the second.

**IdSpace** is what the packet list promises: a socket is opened or closed, a
triple of socket, destination and Id is taken by one packet and given back by it.
`ImplementsIdSpace` is the refinement, checked by TLC and proved.

**IpPool.** The two gdbm files of `rlm_ippool` as functions; a post-auth or an
Accounting-Stop is its sequence of stores, after any of which the server may stop
or a store fail. The walk of a gdbm file meets its entries in any order. An Accounting-Stop is for a
NAS and a port, and is handled whatever address its session had: with `others` ports have sessions
without an address of the pool (a Framed-IP-Address of their own, or none left), whose Stops come too.

**Sql.** `sql_get_socket()` with its round robin, lifetimes and the time of grace
after a failed connection; `rlm_sql_query()` with its one retry; and the queries
of the shipped MySQL schema for each Acct-Status-Type. A connection may be lost
before the database ran a statement, or after. The database is external; `unique_key` says whether
its table has a unique key on acctuniqueid. The shipped schema.sql:49 has a plain one, so there an INSERT
that is retried or repeated makes a second row.

**SqlIpPool.** `sqlippool_postauth()` and `sqlippool_accounting()` of two servers on
one table, one statement a step, with the queries of `raddb/sql/mysql/ippool.conf`.
InnoDB is external: a transaction that has touched the table keeps others out.
Statements may fail, which the code does not notice, and connections be lost. With `late` an
Accounting-Stop may come again, or late (`PoolStopAgain`): stop-clear (ippool.conf:77-83) does not ask for
the session, so it frees the row that the user's next session has by then.

**EapTls.** `eaptls_process()` and what it calls, per EAP packet: verify, the
fragment flags, `record_plus()`, `record_minus()`, the four buffers, and
the end of EAP-TLS, PEAP and TTLS. An octet is the flight it belongs to and its
place, so that order and completeness can be told. OpenSSL and the peer (RFC 5216)
are external and keep to the protocol.

**Peap.** The phases of `eappeap_process()`, one action per `t->status`, with
`process_reply`, resumption, statements of health, and inner requests that are
proxied (`eappeap_postproxy`).

**EapMethods.** One conversation from the EAP-Identity to its end. `initiate` and
`authenticate` dispatch to one operator per method, which gives its result (the EAP packet,
the keys, the new `handler->opaque`); `Conclude` is what `eap_authenticate()` makes of it:
fail, leave the handler with a proxied request, or `eap_compose()` and list or free it.
`EapNak` picks the next type as `eaptype_select()` does, `OtherType` is data of another type.
The peer sends any operation of the method with no proof or with one that the user made of
any challenge shown so far, and attributes of the user may be missing from a round. Cryptography is
`Key`: what goes into a proof or a session key. `proven` and `honest` are history.

**Radutmp.** `radutmp_accounting()` on a sequence of records, with `nas_port_find()`'s
cache of offsets. The NASes send Start, Alive, Stop and On; the network keeps their
order, loses, repeats or reorders them. The file may be removed, the server
restarted.

**Clients.** `client_add()`, `client_find()`, `client_listener_find()` and
`client_free()` with one tree per prefix, `min_prefix`, `deleted_clients` and the
tree of the statistics. An address is its words, each a sequence of `WordBits` bits.

**RbTree**, implementing **KeyedSet**. `rbtree.cpp` with node addresses, colours, the
shared Sentinel and both fix-ups. **HashTable**: `hash.cpp` with its split-ordered
chains, which are cut up lazily after the table has grown.

**Wire.** `rad_encode`, `rad_sign`, `rad_packet_ok`, `rad_verify` and `rad_decode` for one
exchange, which may be encoded a second time for another home server. Lengths are
real; a value is an interval of the octets it was made of, an encrypted one is a
record of what it was encrypted with, a digest is what it was computed over. Of its first octet a
value says whether it is a NUL, or could be a tag. `over` says that a packet was written past its
buffer: by attributes that were written before their length was known (`Added`), or by
`rad_sign()` at the offset of an attribute that is not there. What follows is undefined, and the exchange ends there.

**Condition.** `radius_evaluate_condition()`, one token a step, with a frame for each
nested call: `Negate`, `Open`, `LeftWord`, `Operator`, `RightWord`, `Join`, `Close`, `End`,
and `Malformed` for what it refuses. The text is chosen while it is read, as far as
`condition_looks_ok()` lets it through. `Language` is the reference: the set of
conditions of each length with their values, made from shorter ones. `gettoken()` does
not know `!`, `&&` and `||`, so they are words where a word is expected; `&&` and
`||` have one precedence and group to the right. A word is a number, 0 or not, a program that fails, or an
attribute; `radius_do_cmp()` returns FALSE where the right word is no value for the attribute, or `<` is
asked of what is not a number (`CanCompare`), and that ends the evaluation.

**Pairs.** `pairmove()`, `pairxlatmove()` and `radius_pairmove()` as loops over
the list that is moved (`PairmoveTurn`, `XlatmoveTurn`, `UpdateTurn`), with the identity of
each pair's memory, so that what is freed twice, leaked or left dangling can be told. A
step is one call on any two lists. **Users** extends it: `getusersfile()` makes the
chains, `file_common()` is one request, and `Stored` is what `paircompare()` leaves in the
entry it compared.

**MC modules** give values to constants. *MCParts*, *MCEngine*, *MCStores*, *MCProxy*
and *MCLists* extend modules that share no state, and let one of them, `focus`,
move. The theorems are in *PacketListProofs*, *RequestProofs*, *HomeServerProofs*,
*EventProofs* (of EventList and Coa), *DetailProofs*, *EapProofs* (of EapSession, Peap and
EapMethods), *SearchProofs* (of HomePool, Sql and Clients) and *StoreProofs* (of SqlIpPool,
IpPool and Radutmp).

Requests, home servers, pools and Ids are separate modules that meet at small
interfaces: Request sees a server only as dead or not (`HomeStateChanges`) and
an Id as found or not; HomeServer sees a request as in flight or not; HomePool
sees any change of state; Coa takes Ids as IdSpace gives them; all of them set
events as Timers promises. Each module thus allows at least what its neighbour
can do.

## 3. Runs

| Run | Module, cfg | Bounds | Checks |
|---|---|---|---|
| `lists` | MCLists | 3 packets, 2 destinations, 2 slots, 3 descriptors, 2 Ids; a tree of 6 keys; a hash table with 8 data, 1 to 16 buckets; conditions of at most 8 tokens, 2 deep; 2 or 3 attributes and 2 moved to them; files of 2 and 3 entries | `IdBitsAreOwned`, `OutgoingCounts`, `ReplyFindsItsRequest`, `ImplementsIdSpace`; `TreeIsASet`, `TreeIsSound`; `StoredIsFound`; `ConditionIsRight`; `PairsAreKept`; `UsersAreRight` |
| `request_daemon` | MCRequest | 2 requests, 1 key, 2 vectors, 2 home servers, 1 forwarded duplicate | `HandlersAgree`, `OneRequestPerKey`, `OneAnswer`, `RejectsAreDelayed`, `NoSilentDrop`, `ProxiedHoldsId`, `RepliesAreCached` |
| `request_modes` | MCRequest, MCRequestModes.cfg | all 4 packet codes, 1 home server, two more configurations, no reject delay, no forwarded duplicate | `HandlersAgree`, `EventuallyFreed` |
| `home_server` | MCProxy | 2 requests, 2 status checks, 9 configurations; 1 CoA request | `OutOfServiceHasTimer`, `OutstandingIsInFlight`, `AnswersInARow`, `DeadComesBack`; `CoaIsFreed` |
| `parts` | MCParts | 3 servers in 15 pools; 3 records; 3 EAP sessions, limit 2; EAP conversations of 5 responses and 4 challenges, 24 configurations | `ChoiceIsRight`; `RecordsAreKept`; `SessionsAreExact`; `MethodsAreSound` |
| `engine` | MCEngine | policies of MCModCall; 6 timers, 2 times; 3 descriptors, 2 places; 2 CoA requests, 2 Ids | `ModcallIsStructured`; `LoopIsRight`, `ImplementsTimers`; `CoaIsRight` |
| `stores` | MCStores | see below | `AddressesAreKept`; `SqlIsRight`; `SqlPoolIsRight`; `LoginsAreRight`; `ConversationIsWhole`; `PeapIsSound`; `ClientsAreRight`; `PacketsAreRead` |

The remaining five runs expect a violation and are described in section 6. What
belongs to one component is checked as one invariant, a conjunction of named parts,
which the rest of this text calls by their own names:

| Invariant | Parts, besides the type |
|---|---|
| `TreeIsSound` | `LinksAgree`, `NodeStays`, `SentinelIsClean` |
| `StoredIsFound` | finding, counting and `ChainsAreDisjoint` |
| `HandlersAgree` | `LiveHasEvent`, `NoAssertFails` |
| `ChoiceIsRight` | `LoopFindsBest`, `NeverTooBusy` |
| `RecordsAreKept` | `NoRecordLost`, `RetriedIsInWork` |
| `SessionsAreExact` | `StateIsUsedOnce`, `ListIsExact`, `OldestFirst`, `ExpiredIsNotContinued` |
| `MethodsAreSound` | `AcceptedIsProven`, `KeysGoWithAccept`, `OpaqueIsOfType`, `HonestIsNotRejected`, `SyncIsOnce` |
| `LoopIsRight` | `HeapIsExact`, `WakesInTime`, `ReadersAreWatched`, `ReadyIsHandled` |
| `CoaIsRight` | `CoaIdIsItsOwn`, `CoaHasTimer`, `CoaEndsOnce`, `CoaStopsInTime` |
| `AddressesAreKept` | `AddressIsExclusive`, `PoolIsComplete` |
| `SqlIsRight` | `StopIsFinal`, `SocketIsTrue`, `PoolRecovers` |
| `SqlPoolIsRight` | `PoolIsExclusive` |
| `LoginsAreRight` | `OneRecordPerPort`, `SimulIsExact`, `LoginIsCounted` |
| `ConversationIsWhole` | `FlightsAreWhole`, `SuccessIsWhole`, `RequestsAreRight`, `RoundsAreFew` |
| `PeapIsSound` | `SuccessIsEarned`, `UsernameIsKnown`, and `FailureIsFinal` of every step |
| `ClientsAreRight` | `NearestIsFound`, `UsedIsNotFreed`, `NothingDangles`, `NewIsLimited` |
| `PacketsAreRead` | `DecodeIsInverse`, `SignedIsVerified`, `BuffersAreKept` |
| `PairsAreKept` | `OwnedOnce`, `UsernameIsLive`, `UpdateIsRight`, `MoveIsRight` |

`TypeOK`, `NoIdCollision` and `ListedIsInTree` of PacketList and `TypeOK` of HomeServer
are not checked again by a run: they are proved (section 5).

*Why the bounds are enough.* Collisions need two packets, and a third for
slots whose other socket was removed and replaced; three descriptors on two
slots make every slot change hands and every probe wrap. A request has at most
one rival, the newer packet with its key, so two requests and one key show every
conflict; two home servers are needed to fail over and back. Time constants are
small, and keep the orders of the timers that differ: `response_window` equal to
`cleanup_delay` and `reject_delay` in one run and longer in the other, and a second
window that `max_request_time` cuts short after a failover (3 against 2 + 2). `MaxDups` bounds only how often a duplicate is
forwarded; in `request_modes` it is 0, and rejects are not delayed: those are in
`request_daemon`, and in the theorems for all configurations. Ages stop at the last value a guard tells apart (`AgeCap`, `LastCap`),
and how late an event is counts only for a delayed reject and for a CoA-Request, up to `CleanupDelay`, by when
what is sent is cleaned up at once: a longer
delay of the loop differs in nothing; `MaxAge` of EapSession is above `timer_expire`. Five responses are two more than the longest
method needs, for NAKs, repetitions and resynchronization, and `SqnMax` = 9 with a step of 2 has both cards
that are behind and ones that wrap. Two status
checks in flight overlap, which is the case that matters for answers in a row. Of Detail, `MaxCopies` = 1 allows one request in flight for each set of records
that is read together; a retry while it is there is answered at once, or not at all, and its late answer meets
any later state of the reader. The records are numbered in the order in which they are written, which
loses nothing, since they are alike. The `MAX_SOCKETS` = 32, 256 Ids,
50 trips and 3 handlers per expiry of the code are constants; the proofs about
PacketList hold for every value of its constants. `max_requests` is 0 (no limit)
in the runs.

Six events make a heap of three levels, where an extraction from the middle moves
an event down on one side and, in another order, up; two different times give every
order of equal and unequal keys. Three descriptors on two places make a place be
used again. Two CoA requests and two Ids make an Id change hands while an answer is
under way; `CoaMrc` = 1 allows the first transmission to be repeated, `CoaMrd` = 5 ends
it. Six keys give red-black trees in which a deletion takes every case of the
fix-up (seven keys were also checked once). Eight data in a table that grows from
one bucket to sixteen leave chains of two generations uncut.

Eight tokens are two conditions that are joined within a pair of parentheses, or a nested one
with a `!` and a join; the limit of nesting, 64 in the code, is 3, so that it is met. An
operator of Pairs meets up to three attributes of its own kind and one other that is moved
with it. Files of two entries have every pair of names, checks and replies; those of
three have an entry of the user in front that falls through. Requests come one after
the other without end.

Of `stores`: IpPool has three ports for two addresses, so that the pool is full, and
one crash, or callers from "0", or sessions without an address of the pool (two of these can double an
address, section 6); Stops that come late are a configuration of their own. Sql has two sockets that are lost, live for one second and stand two
queries, a time of grace of a second, and one session, tables with and without the unique key, any
number of repeated packets, and rows up to `MaxRows` = 2 of a session: the first, and one that a repeated
INSERT adds. SqlIpPool has two servers, two users, two addresses, and
leases that end; with one address, statements that fail, and Stops that come again. Radutmp has two NASes with a port
each, two logins per port, two packets under way. EapTls takes flights of lengths just
below, at and above fragments of 2 and 3 octets and records of 6, full and resumed
handshakes, and every way to cut. Peap allows three inner rounds. Clients has words of
2 bits, so that prefixes end within a word and span words (IPv6 has four), at most 7
clients, a hold time of 2 and a clock of 6. Wire keeps the real lengths of
attributes, with values at 0, 1, 253, 254 and more octets, in a packet of at most 620 octets:
two long attributes fit and the third does not, and lists that end in a long attribute of several pieces, or in a
Message-Authenticator for which there is no room. All codes and answers are tried, with the
same and with different secrets.

*Symmetry* is used over requests, vectors and servers, packets and
destinations, CoA requests, and sessions, and only in runs without liveness properties.

*Deadlock* is checked except where a component may come to rest: all records read,
all sessions used, a policy evaluated, a list moved, a conversation over (`parts`,
`engine`, `lists`, `stores`, `home_server` because of its CoA request, and the runs of Detail and
EapSession alone).

What the properties say, by what could go wrong:

- *Late and repeated messages.* `OneAnswer`: no mixture of late proxy replies,
  duplicates and delayed rejects sends two different answers. `RejectsAreDelayed`: no path
  sends a reject before `reject_delay`. `StateIsUsedOnce`: an EAP response is
  accepted once. `ReplyFindsItsRequest`: also on sockets bound to INADDR_ANY.
  `CoaEndsOnce`, `CoaIdIsItsOwn`: although answers race retransmissions.
  `StopIsFinal`, `SimulIsExact`, `OneRecordPerPort`: accounting packets that come
  late, twice or in another order.
- *Things that must not be lost.* `LiveHasEvent` and `EventuallyFreed`: every
  request keeps a timer and goes away. `NoSilentDrop`: a silent home server
  does not make the server silent. `NoRecordLost`: over crashes, retries, cut
  records and failed unlinks; of a file that cannot be read, only what was not read. `OutOfServiceHasTimer` and `DeadComesBack`.
  `CoaHasTimer`, `CoaIsFreed`. `FlightsAreWhole`: no octet of a TLS flight.
  `PoolIsComplete`: no address. `DecodeIsInverse`: no attribute. `HeapIsExact`,
  `TreeIsASet`, `StoredIsFound`: no timer or entry.
- *Shared keys and limits.* `OneRequestPerKey`, `ImplementsIdSpace`,
  `IdBitsAreOwned`, `OutgoingCounts`, `ListIsExact`, `NeverTooBusy`,
  `AddressIsExclusive` over a crash, `PoolIsExclusive` between servers.
- *Stale state.* `ProxiedHoldsId`: a duplicate is never sent with an Id that was
  given back. `OutstandingIsInFlight`, `AnswersInARow`, `OldestFirst`.
  `ReadyIsHandled`: a descriptor that was closed and opened again while the loop goes
  on. `UsedIsNotFreed`: a client whose request is still in work. `NodeStays`: a
  pointer into a tree. `UsernameIsLive`: the pointer to the user's name.
  `UsersAreRight`: nothing of one request is left for the next (but see section 6).
- *Two pieces of code that must agree.* `SignedIsVerified`, `DecodeIsInverse`,
  `ModcallIsStructured`, `ConditionIsRight`, `UsersAreRight`, `NearestIsFound`,
  `LoopFindsBest`: each against a definition
  that does not share its algorithm.

Some properties hold only under a condition, which is part of their statement:

- `Regular` (Request): no virtual home servers, and with `have_children` off neither
  Post-Proxy-Type Fail, nor replies that do not verify, nor a reject delay (section 6): there a
  request may be left without an event. `RejectsAreDelayed` leaves out only
  Post-Proxy-Type Fail with `have_children` off, `OneAnswer` and `OneRequestPerKey` nothing.
- `~conf.badReplies` (`ProxiedHoldsId`): `lookup_in_proxy_hash()` gives the Id
  back before `rad_verify()` looks at the reply.
- `~IdsRunOut` (HomeServer): a status check without an Id is counted, never
  uncounted, and not repeated (section 6).
- `wakeAll` (`NeverTooBusy`): waking all dead servers does not look at counts.
- `late` (`RepliesAreCached`): a delayed reject is cached less by as much as the loop was late to
  send it.
- `discarded`, `misplaced`, `headless` (Detail): what was not read of a work file whose reading failed is
  unlinked with it; an answer that arrives when the reader is at
  another record is taken for that record's; a header line cut short may make the
  next record be skipped.
- `Troubles` <= 1 and `~late` (`AddressIsExclusive`): one crash, or callers from "0", or sessions
  without an address of the pool, see section 6.
- `unique_key` (`StopIsFinal`): with a unique key a session has one row, closed for good by its Stop. Without,
  as shipped, an answered Alive or Stop has its row, and an answered Stop leaves none open until a Start comes
  after it (`restarted`).
- one NAS, no failed statement, no lease that ends between two statements, and users whose old
  Accounting-Stop does not come in their present session (`pool_again`; `PoolIsExclusive`).
- lists that fit into a packet, or whose pairs are one attribute each and have no
  Message-Authenticator (`BuffersAreKept`).
- every `else` after its `if` (`ModcallIsStructured`): elsewhere it belongs to the last `if` that ended.
- `network`, `delay` (`SimulIsExact`, `LoginIsCounted`): packets that are in order, and
  NASes that send Acct-Delay-Time.
- `Fits` (`RoundsAreFew`, `RequestsAreRight`): flights not longer than a record.
- `~late` (`CoaIdIsItsOwn`): see section 6.
- `RequestLife` <= `HoldTime` (`UsedIsNotFreed`): requests live at most the 120 seconds
  a deleted client is kept.
- no expansion in a check item, and a user not named DEFAULT (`UsersAreRight`): see section 6.
- `lost` (`OwnedOnce`), `-=` of User-Name (`UsernameIsLive`): see section 6.
- `proxied` (EapSession): a handler that comes back from a proxied tunnel goes to
  the tail with an old timestamp.

## 4. Fairness

`Request`: `WF(Tick)` (time passes) and weak fairness of each request's due
timer. `fr_event_loop()` runs every due event before it waits again, so a due
event is not put off for ever. Nothing is assumed about the NAS, home servers
or policy.

`HomeServer`: the same for its timers and the requests' time-outs; a status
check in flight is answered or times out, because each has an event. That
status checks *are* answered is not assumed: `DeadComesBack` asks for it in its
premise (`~pingsGetLost`).

`Coa` (`CoaFairness`): the same, for time and the event of each CoA request (its
parent's included). The home server need never answer.

`Detail` (`DetailLive`): `event_poll_detail()` always puts itself back on the
event list: weak fairness. Strong fairness says that the lock is not refused for
ever and that the server answers a record it is sent again and again; restarts
stop at some time. These are assumptions about the surroundings, and generous
ones: the run `detail_lock` shows that even so nothing is read in this build.

## 5. Proofs

TLAPS proves 30 theorems, for every number of packets, sockets, Ids, requests, keys, home
servers, clients, timers, records, sessions, ports, users, addresses and servers on one database, and for all time constants. What is
assumed of the constants are the ASSUMEs of the modules, which TLC evaluates in every run:
types, that a "none" is not one of the things it stands for the absence of, and what the
code itself enforces when it reads the configuration (`reject_delay` is cut down to
`cleanup_delay`; the limits on the timers of CoA). 27 of the theorems state properties that the runs
check. Each module has one inductive invariant, which was given to TLC as an
invariant before it was proved, one lemma per action, and under it a step per conjunct that the
action disturbs.

*PacketListProofs.* `BitsTheorem`, `NoCollisionTheorem`, `CountsTheorem` and
`ReplyTheorem` follow from `InvTheorem`, `Spec => []Inv`. None of the properties
is inductive alone: that an Id is not given twice needs every set bit to be
owned and every owner's bit to be set (`IdBitsAreOwned`); that freeing an Id
clears the right bit needs its socket to be in one slot only (`SocketsOnce`)
and still there (`HeldHasSocket`); that the socket is still there needs the
count that guards its removal to be exact (`OutgoingCounts`); and that `Yank`,
which deletes by key, takes only its own entry needs `NoIdCollision`. `Inv` is
their conjunction with `TypeOK` and `ListedIsInTree`. There is one lemma per
action, and under it one step per conjunct the action disturbs. `HeldSlot`,
`SameKey` and `FindsItself` are the facts used in several of them; counting rests on
the library's cardinality theorems and the assumption that `Packets` is finite.
`ImplementsTheorem`, `Spec => Abstract!Spec`, shows that every step of the packet
list is a step of IdSpace or leaves it alone, from the same invariant: that a triple
is free when it is taken is `IdBitsAreOwned`, and that a socket closes only
when none of its triples is held is `OutgoingCounts`.

*HomeServerProofs.* `TypeCorrect`, then `TimerTheorem`, `OutstandingTheorem` and
`AnswersTheorem`, each inductive relative to `TypeOK`. The lemmas say what each
helper does to the fields an invariant reads (`ZombieCheck`,
`NotCountedFields`, `TimerKept`, `PingBound`), so that the proof of a step is a
case split on `Next`.

*RequestProofs.* `HandlersTheorem`, `KeysTheorem`, `AnswerTheorem`, `RejectTheorem`,
`DropTheorem`, `IdTheorem` and `CacheTheorem` follow from `RequestInv`. That an event is there is not
inductive: it has to be the *right* event for the state (`Timed`), or `wait_a_bit` with the right
callback to come (`NextRight`); else the assertion of the next handler fails. That one
answer is sent needs that nothing but `reply` was ever sent and that a request which waits
for a home server has no reply (`Core`, `Waits`). That no reject is early needs the
time at which a delayed reject is due, both while `wait_a_bit` has it and as an event, and that a
finished request with a reject is old enough for a duplicate to get it (`Ripe`). That a reply is
kept for `cleanup_delay` needs that an Access-Request which was answered, or whose answer a duplicate
would get, has `cleanup_delay` as its event, or as what `wait_a_bit` is to set, and that the
time left, the time it was kept so far, and what a delayed reject was late make up the whole (`Due`): a duplicate in between
sends the reply again and moves nothing. `Rest`
is what holds between two handlers; a handler is a composition of functions from requests to
sets of requests, and there is one lemma per function, with the weaker conjuncts (`Core`,
`Calm`) that hold in the middle of a handler as what they hand to each other.

*EventProofs.* `EventListTheorem` and `TimersTheorem` from `EvInv`. The heap is described by
`Whole`: every event is in one place, knows it, and is not due before its parent. In the
middle of an operation that is not true, and two weaker predicates say what is. While
`fr_heap_bubble()` runs, all but the event at place i are right, and the parent of i is not
due after the children of i (`Bubbling`); a swap keeps this one level up (`BubbleSwaps`), and where
the loop ends it makes a heap (`BubbleLemma`). While `fr_heap_extract()` runs there is a hole, whose
parent is not due after its children (`Holed`); the smaller child moves up (`SiftStep`) until the
hole is a leaf (`SiftLemma`), and the last event that is put there is bubbled, because it
comes from another branch and may be due before its new parent (`MovedLemma`). Both loops are recursive functions on
0..n. The lemmas `UpTo`, `RecursionExists` and `IterationExists` are the induction and the recursion they need, from the
library's `WFMin`, since the induction theorems with an operator parameter cannot be used; each loop
gets its own measure (`BubbledUp`, `SunkDown`), which shows that it has ended after as many
turns as there are places. `FirstIsLeast` makes the first event the one that Timers may fire.
`LoopOK` says what `fr_event_loop()` knows between two of its steps; that the set of
ready sockets is watched is lost when a handler changes the readers, and this is why the loop then starts
anew. `WakeLemma` is the arithmetic of seconds and microseconds for any length of a second.

`CoaTheorem` is from `CoaInv`: each request is with its parent or on its own
(`AtParent`, `OnItsOwn`), with its next event before the end; and unless an answer
was late, the Ids and the requests point at each other (`Owned`).

*DetailProofs.* `DetailTheorem` from `DetailInv`. A record is in one place of one file
(`FilesAre`), and the reader stands behind the blank line of a record (`Place`). What it has
passed is answered or is being sent (`Passed`), so that when it unlinks the work file at its end nothing
unanswered is in it (`Kept`), and when a read fails only what was not read (`discarded`). The hard part is `Reader`: after a record that never ends, `data->vps` is
left as it was read, and a late reply must not be taken for an answer to it. What was sent into the
server had an end (`Sent`) and what is left over has none, so the two are never the
same. `Reader` holds until a reply comes for another record (`misplaced`), `Passed` and `Kept` as long as also
no header line was cut short; both are what `NoRecordLost` excepts. Finding the next blank line is the
least of a set of naturals, which the library's `WFMin` gives.

*EapProofs.* `SessionsTheorem` from `EapInv`. A State that was accepted is behind the trips of
its session, or the session is over (`Behind`): this is why it never matches again. The
list is described as a sequence without repetition whose members are the listed handlers, in order
of age unless a tunnel was proxied (`Listed`); the lemmas are about removing from it,
appending to it, and the expiry that takes a prefix. `PeapTheorem` is from `PeapInv`, which says which
phase each return code belongs to and that who waits for a statement of health is known; it also
proves the action part, that a failure is final. `MethodsTheorem` is from the type of
`handler->opaque` of each method and what its last challenge was.

*SearchProofs.* `ChoiceIsAlwaysRight`, `SqlIsAlwaysRight` and `ClientsAreAlwaysRight`. The searches around a ring,
`home_server_ldb()` and `sql_get_socket()`, are recursive functions on 0..n as in EventProofs, and what
they leave is an induction over the turns. For a pool: what was found so far is the first live server
passed (`FirstIsFound`), or for load-balance one of the least busy (`LeastIsFound`), and a turn never
takes a server that is full. For SQL, a socket that is given is connected, and one is
given if any can be (`SearchIsRight`). `SqlInv` adds that with a unique key a session has one row (`OneRow`); that an
answered Stop leaves no row open needs, for each query, that it closes every row of its session
(`Closed`) or opens none (`StaysClosed`), over the retry that may have found it done already.
`ClientsInv` has what the search relies on: addresses are masked to their prefix, no two
clients of a tree have one address, and `min_prefix` is not above any of them (`TreesOK`). `client_sane()` keeps the
bits of a prefix and clears the others (`SaneLemma`), so an address lies in a network just when the network
is what its prefix leaves of the address (`AgreeLemma`); this is why looking for an equal address in each
tree from the longest prefix down finds the nearest network (`FindLemma`). That no client is freed in use needs when a client left the trees
(`created` is set anew then), that a request does not use one for longer than `RequestLife` from there
(`UsedOK`), and the assumption that this is at most the `HoldTime` of the code. That the client which a network creates
is never a duplicate needs that a network with a virtual server is never a single address (`ClientOK`).

*StoreProofs.* `SqlPoolTheorem` from `SqlPoolInv`. Types hold with failing statements too (`Typed`).
For one NAS and no faults: the row of an address that is held is the holder's and does not
end before the lease, unless an old Stop came in this session (`Backed`), a user has one packet at a time besides such a Stop (`OneJob`), and what each packet
has found so far is still true, because its transaction has the table from its first statement
on (`Working`): the address that allocate-find chose has no expiry_time when
allocate-update asks for that.

`IpPoolTheorem` is from `IpInv`, which says what the two files owe each other in four
circumstances. Without a crash, every address has one entry and the number of its sessions is 1
or 0 as that is active (`Whole`). With callers from "0", who share, the number is the
cardinality of the active entries (`Counted`). After one crash, an active entry is
the only one of its address, or it is counted and the only active one (`Sound`). In each of these, the
port of a session, or of a Stop that is to come, has its active entry (`Held`), so an
Accounting-Stop never releases what another port has. With sessions that have no address of the pool a Stop may
find an entry that is not active; `Whole` and that the port of a session has its entry (`Leased`) are
then enough, because a count that is 0 is not lowered. The lemmas are about the stores: what each one
leaves (`Off`, `Lower`, `Cleared`, `Put`, `Gave`), and that every one of them, starting from `Whole`, ends in `Sound`;
from `Sound` alone it does not, which is why a second crash is one too many.

`LoginsTheorem` is from `UtInv`, which is about one port at a time: its records in the file, of which
there is at most one and none before the cached offset (`OneEach`), the packet that may come again,
and the packets of the port that are on their way. That a Start always writes needs that the
session numbers grow from the record to what is on its way (`InOrder`). That a session which
is on is counted needs that a repeated packet agrees with the record (`Heard`). That nothing else
is counted needs more: what is on its way belongs to the session of the record, or its
Start is on its way before it (`ExactFor`), so that a Stop finds the record it is for, and a Start
that comes late finds its own session in the record and is not written. This is lost when the file is
removed, since the late Start then finds no record: `UtConf` has removals for the other networks only.

*Only model-checked.* `EventuallyFreed`, `DeadComesBack`, `CoaIsFreed` and
`DetailIsRead`: liveness under fairness is out of the prover's reach. `TreeIsASet` and `TreeIsSound` (RbTree),
`StoredIsFound` (HashTable) and `ModcallIsStructured` (ModCall): trees and chains are
walked by recursive operators, which this prover does not take. `ConditionIsRight`, `PairsAreKept`,
`UsersAreRight` and `PacketsAreRead`: the references are folds over texts and lists, whose
values for every input are an induction over data. `ConversationIsWhole` (EapTls): the number of
rounds is compared with a sum over the flights, a fold too.

## 6. Where code and documentation disagree

Each of these is a run that checks one property, which TLC finds violated.

- `request_window` / `WindowIsHonoured`. When a duplicate finds its home server
  dead and fails over, the no-response event is inserted at a `request->when`
  left from before (event.cpp:2671), so the second server may be given up before
  its `response_window` (proxy.conf:233).
- `users_frozen` / `UsersAreRight`. `paircompare()` expands a check item in the entry of
  the users file itself, so that the first request's value is compared with all later ones
  (valuepair.cpp:468, rlm_files.cpp:466, users:20). The hints and huntgroups files are
  read in the same way (rlm_preprocess.cpp:354, 398).
- `detail_lock` / `DetailIsRead`. `misc.cpp` undefines the only locking call this
  build has, so the work file is never read (misc.cpp:67).
- `hash_collision` / `StoredIsFound`. `list_find()` gives up at an entry with the same hash
  that compares smaller, so that of two data with one hash the greater, inserted
  later, is in the chain and is not found (hash.cpp:193).
- `eap_leak` / `HandlersAreOwned`. A response with the wrong type or name leaves a
  handler that is on no list and is never freed (eap.cpp:997).

Met while modelling, without a run of their own. The models have the code's
behaviour in each case; where a property is named, giving it to TLC as an invariant of
the module's run shows the trace.

Requests, pools and home servers:

- Failing over to a virtual home server runs the request in line and leaves the old
  event, or a request that is DONE, behind; the assertions at event.cpp:2296-2297 fail
  (event.cpp:921).
- A status check for which there is no Id is the last one (event.cpp:807), although
  proxy.conf:271 says that they continue (`HasTimer` without `~IdsRunOut`).
- A delayed reject that the loop sends late is cached for `cleanup_delay` less the delay, since
  `cleanup_delay` is added to when it was due (event.cpp:629, radiusd.conf:191-192).
- A reply that does not verify gives the Id of its request back first (event.cpp:3022): the request waits
  without it (`ProxiedHoldsId` without `~conf.badReplies`).
- For CoA and Disconnect `cleanup_delay` is added to a `next_when` that was never
  set: the reply is not cached (event.cpp:2462, radiusd.conf:191-192).
- keyed-balance without a key is fail-over, not load-balance (realms.cpp:1928,
  proxy.conf:523-524).
- An answer to a CoA request under an Id that went to another transmission gives that
  Id back (event.cpp:224-228). A delay may reach 2.9 times MRT, and a request is sent
  MRC + 1 times.

- `fr_packet_list_id_alloc()` returns 0 when all Ids are used, where its comment
  says -1, which radclient tests for (packet.cpp:757).
- `client-port-balance` drops the result of `fr_hash_update()` and goes by the client's address
  alone (realms.cpp:1917, proxy.conf:506-507).
- One request more than `max_requests` is kept (event.cpp:2797).
- The zombie period starts at the last packet received, so it may be over at once
  (event.cpp:1130).
- The jitter of status checks spans 8 seconds and not 4 (event.cpp:833).
- With -X and Post-Proxy-Type Fail a request stays without an event (event.cpp:1046), and one
  whose reject is being delayed may be left DONE, where a duplicate gets the reject early.
- With -X, when a home server fails and the request is younger than `reject_delay`,
  `request_post_handler()` returns early (event.cpp:2444-2454) and nobody calls `wait_a_bit()`:
  the request keeps no event, or the no-response event, whose assertion then fails. The
  same with a reject for a request that lost its Id to a reply that did not verify and was
  proxied again. Found by the proof of `HandlersTheorem`; `LiveHasEvent` and
  `NoAssertFails` without the last line of `Regular` show it.
- A CoA request may outlive `coa_mrd`: the first delay is set without a look at it, and
  with the `coa_irt` of 5 and the `coa_mrd` of 5 that `home_server_add()` lets through it is up to
  7 seconds (event.cpp:1662-1680). Found by the proof of `CoaTheorem`; `CoaEnd` says what holds.
- A truncated detail record leaves `data->vps` set (detail.cpp:413). A detail file that cannot be read to
  its end is unlinked with the records that were not read ("FIXME: Leave the file in-place", detail.cpp:588-591).
- `eap_detach()` frees `handler_tree` before `eaplist_free()` uses it
  (rlm_eap.cpp:64).

Engine and containers:

- A false `if` stores the last result whatever its priority, so a section need not
  return the one of highest priority (modcall.cpp:462 against 42-43). An `else` that does not follow an `if`
  is accepted, and goes by flags that modules, updates and the beginning of a group leave as they are
  (modcall.cpp:415-467, 1713-1761).
  Sections nested 32 deep end the server (modcall.cpp:548).
- A descriptor inserted twice takes two places (event-lib.cpp:262), and holes below
  `max_readers` count towards the limit.
- `rbtree_delete()` skips the fix-up when the child is the Sentinel (rbtree.cpp:421, 447),
  so the black heights stop agreeing: the tree stays a search tree, without the balance
  the comment speaks of. `WalkNodePostOrder()` walks its subtrees in order.

Conditions and attributes:

- A program in back quotes that fails, a right side that is no value for the attribute
  (evaluate.cpp:389), or `<` and `>` with what is no number (410-418) makes a condition fail in a request, which "should
  never happen" (modcall.cpp:454); the condition is then false, `!` or not.
- `update` with `<=` or `>=` appends the pair although the attribute is there and in range
  (evaluate.cpp:1120-1123 against "if it didn't exist").
- `:=` of `pairmove()` does not take the pair for `tailfrom`, so the pair is on no list when a
  later one moves, and is never freed (valuepair-lib.cpp:585).
- `-=` of User-Name by `pairmove()` or `pairxlatmove()` frees what `request->username` points
  to. `-=` deletes every value when it matches the first.
- A user whose name is DEFAULT gets the entries of DEFAULT twice.

Accounting and pools:

- What an expired entry held cannot be given to another caller (`ExpiredIsFree`;
  rlm_ippool.cpp:622); `entry.cli` is compared and never stored (599); an Accounting-Stop
  that comes late releases the address of the next session, and one of a session without an address of
  the pool lowers the count of the port's old entry (400-413); two crashes, or one
  where callers from "0" share or such Stops come, can give an address to two callers: the first leaves two entries of
  it, the second an active one that is not counted, whose release uncounts the other.
- A Start whose both queries failed is answered (`AckedIsStored`; rlm_sql.cpp:1337
  against acct.cpp:153-155). Without a unique key a Start that comes after the Stop
  opens a second row (`StartAfterStop`; rlm_sql.cpp:1330), as does an INSERT that is retried after the connection
  was lost: so it is with the shipped schema.sql:49.
- A pool of rlm_sqlippool that two NASes share: allocate-find returns expired rows of
  the other NAS, which allocate-clear left, and allocate-update ("expiry_time IS NULL") then
  saves nothing, so the address goes out twice, also with InnoDB, which sqlippool.conf:34-39
  recommends against it (`LeaseIsExclusive` with two NASes). An Accounting-Stop that comes again frees the
  address of the user's next session, since stop-clear has no session in its WHERE (ippool.conf:77-83). When `sql_set_user()`
  fails the socket is not released (rlm_sqlippool.cpp:570).
- `rad_check_ts()` never returns 0, so `session_zap()` is not reached from the
  simultaneous use check; a late Alive brings a finished login back, and a late Start
  overwrites a newer one (rlm_radutmp.cpp).

EAP, clients, packets:

- A TLS alert is never sent; a flight longer than MAX_RECORD_SIZE is cut; a Framed-MTU of 14
  makes fragments of no octets (rlm_eap_tls.cpp:1565).
- An ACK of MSCHAPv2's success makes no EAP packet, so `eap_compose()` rejects, where the
  comment says "return EAP-Success" (rlm_eap_mschapv2.cpp:433-437); an AT_RES that differs ends
  in the same way. The SQN of AKA goes from its end to 0 (rlm_eap_aka.cpp:226-227), and
  resynchronization does not look at what `eap_aka_getchalans()` returns (640). A home server
  that accepts without MS-CHAP2-Success leaves an accept with an EAP-Failure.
- Clients read from SQL never inherit a lifetime (client.cpp:373-390); the rate limit
  of deletions is dead code (listen.cpp:191-197); when `deleted_clients` is full the client
  is lost (client.cpp:87).
- A list longer than MAX_PACKET_LEN loses its tail, the Message-Authenticator too, while
  `packet->offset` still points there (radius.cpp:1361), and `rad_sign()` writes the digest there, past the
  packet if nothing else was in its place (1474). Attributes of several pieces are written before their length
  is looked at, past `data[MAX_PACKET_LEN + 256]` if they are long ("FIXME: Keep track of room in the
  packet!", 1116, 1212, against the comment at 1353-1359). A number with a tag loses its first octet (1161); a string
  that may have a tag, has none, and starts like one is read as tagged (2327); a User-Password ends at its first NUL (2364).
  A User-Password in a request
  with its own digest is encoded under one vector and decoded under another. A
  Tunnel-Password in a proxied Access-Request makes `rad_encode()` fail, so the request is
  never sent. PW_TYPE_SIGNED never sets its data.

## 7. What is not modelled

- Third-party code, hash functions and replacements of the C library. Most of the lines
  under `src/` are of this kind: vendored headers of OpenSSL and MySQL, cryptography,
  dictionaries.
- Cryptography, by what its result depends on, and what an authentication module decides,
  a choice. What TTLS does with the attributes inside its tunnel; TNC.
- Parsing of configuration, dictionaries and the users file, the compiler of policy
  sections and string expansion: text processing, most of it at start. Of conditions, regular expressions.
- Threads, the control socket and SIGHUP: not compiled in this build. DHCP: another protocol.
- Statistics: nothing decides on them.
- The hash values and `fr_rand()`: inputs, or a choice.
- Modules without state, and those that work on one attribute list at a time.
- `checkrad`, which `rad_check_ts()` runs and waits for (session.cpp:122-225), rlm_dynamic_clients,
  and packets from source port 0.
- Of the wire format: PW_TYPE_SIGNED, the Ascend secrets, the CHAP digest, and printing.

## 8. Plan

Done: PacketList, Request, HomeServer, HomePool, Detail, EapSession, Coa, ModCall,
EventList, the containers, the stores, EAP tunnels, clients, the wire format, conditions,
attribute lists, the users file, and the refinements to IdSpace, Timers and KeyedSet; proofs about
PacketList, Request, HomeServer, HomePool, EventList, Coa, Detail, EapSession, Peap, EapMethods, Sql,
Clients, SqlIpPool, IpPool and Radutmp.

Left, most important first:

1. Request over HomeServer and PacketList in one module, with the interfaces of section 2 as
   refinements.
2. The caches (`rlm_cache`, `rlm_caching`); radclient's use of the packet list; the attributes inside TTLS.
