------------------------------- MODULE Request -------------------------------
(***************************************************************************)
(* The life of a request in winradiusd/event.cpp: received, handled,       *)
(* perhaps proxied, answered (at once or after reject_delay), kept for     *)
(* cleanup_delay so that a duplicate gets the same answer, freed.          *)
(*                                                                         *)
(* The build has no pthreads: thread_pool_addrequest() runs the request in *)
(* line, so a handler, from the packet or the timer that starts it to its  *)
(* return to the event loop, is one step.  have_children is still set from *)
(* the command line and decides who calls wait_a_bit().                    *)
(*                                                                         *)
(* A handler is an operator from a request to the set of requests it may   *)
(* leave behind; what policy modules and the network decide is a choice.   *)
(* Times are counted down: "when" is the time left until request->when.    *)
(* Where a handler still adds to it, it is negative when it is past, down  *)
(* to -cleanup_delay, the last value that is told apart.  "age" is the     *)
(* time since request->received and "proxyAge" since request->proxy_when,  *)
(* each up to such a value.                                                *)
(***************************************************************************)
EXTENDS Integers, FiniteSets

CONSTANTS
    Reqs,            \* the REQUESTs that may be allocated at once (a bound)
    Keys,            \* NAS source address, port and packet Id: what fr_packet_cmp compares
    Vectors,         \* authentication vectors, which tell a new packet from a duplicate
    Codes,           \* packet codes received, of AllCodes
    RealHomes,       \* home servers reached by the network
    VirtualHomes,    \* home servers that are virtual servers of this process
    Confs,           \* the configurations and surroundings looked at
    RejectDelay, CleanupDelay, ResponseWindow, MaxRequestTime,
    MaxRequests,     \* max_requests
    MaxDups          \* bound: duplicates forwarded to the home server

AllCodes == {"auth", "acct", "coa", "status"}
Homes == RealHomes \cup VirtualHomes
NoHome == "none"

ConfRecord ==
    [haveChildren: BOOLEAN,     \* have_children: FALSE with -X and -s
     noResponseFail: BOOLEAN,   \* home->no_response_fail
     postProxyFail: BOOLEAN,    \* a Post-Proxy-Type Fail is configured
     virtual: BOOLEAN,          \* the pool holds the virtual home servers too
     badReplies: BOOLEAN]       \* replies that fail rad_verify() occur

\* mainconfig.cpp keeps reject_delay <= cleanup_delay, realms.cpp response_window >= 1.
ASSUME RequestAssumption ==
    /\ Codes \subseteq AllCodes
    /\ Confs \subseteq ConfRecord
    /\ RejectDelay \in Nat /\ CleanupDelay \in Nat /\ RejectDelay <= CleanupDelay
    /\ ResponseWindow \in Nat \ {0}
    /\ MaxRequestTime \in Nat \ {0}
    /\ MaxRequests \in Nat /\ MaxDups \in Nat
    /\ NoHome \notin Homes /\ RealHomes \cap VirtualHomes = {}

VARIABLES
    conf,    \* one of Confs, the same for ever
    req,     \* the requests
    dead     \* the real home servers whose state is HOME_STATE_IS_DEAD

vars == <<conf, req, dead>>

MaxOf(a, b) == IF a > b THEN a ELSE b
AgeCap == MaxOf(MaxOf(RejectDelay + CleanupDelay, MaxRequestTime), 1)
WhenCap == ResponseWindow + CleanupDelay + AgeCap
Times == -CleanupDelay .. WhenCap
NeverSet == -CleanupDelay - 1

Callbacks == {"none", "wait_a_bit", "cleanup_delay", "reject_delay",
              "no_response_to_proxied_request", "wait_for_proxy_id_to_expire"}
ChildStates == {"FREE", "QUEUED", "RUNNING", "PROXIED", "REJECT_DELAY", "CLEANUP_DELAY", "DONE"}

RequestRecord ==
    [key: Keys \cup {"none"}, vector: Vectors \cup {"none"}, code: AllCodes,
     child: ChildStates,
     inHash: BOOLEAN,               \* in_request_hash
     inProxy: BOOLEAN,              \* in_proxy_hash
     ev: Callbacks, when: Times,
     nextCb: Callbacks,
     nextWhen: {NeverSet} \cup Times,      \* next_when; NeverSet is the epoch
     age: 0 .. AgeCap, proxyAge: 0 .. ResponseWindow + 1,
     reply: {"none", "accept", "reject"},      \* reply->code
     toRealm: BOOLEAN,              \* config_items hold Proxy-To-Realm
     noRespond: BOOLEAN,            \* config_items hold Response-Packet-Type = Do-Not-Respond
     home: Homes \cup {NoHome},     \* home_server; set together with request->proxy
     proxyReply: BOOLEAN,           \* request->proxy_reply
     sends: 0 .. MaxDups + 1, answers: 0 .. MaxDups + 1,   \* num_proxied_requests, _responses
     sent: SUBSET {"accept", "reject"},   \* history: the replies sent to the NAS
     cached: 0 .. CleanupDelay,     \* history: time since the first of them was sent
     late: 0 .. CleanupDelay,       \* history: how late a delayed reject was sent
     early: BOOLEAN,                \* history: a reject left before reject_delay
     hasty: BOOLEAN,                \* history: a home server was given up before its response_window
     quiet: BOOLEAN,                \* history: policy, or a newer packet of the NAS, wants no answer
     dropped: BOOLEAN,              \* history: the last request here was freed unanswered, not quiet
     failed: BOOLEAN]               \* history: a rad_assert() or rad_panic() was hit

TypeOK ==
    /\ conf \in Confs
    /\ req \in [Reqs -> RequestRecord]
    /\ dead \in SUBSET RealHomes

-----------------------------------------------------------------------------
\* A REQUEST that is not allocated.
Unused ==
    [key |-> "none", vector |-> "none", code |-> "auth",
     child |-> "FREE", inHash |-> FALSE, inProxy |-> FALSE, ev |-> "none", when |-> 0,
     nextCb |-> "none", nextWhen |-> NeverSet, age |-> 0, proxyAge |-> 0, reply |-> "none",
     toRealm |-> FALSE, noRespond |-> FALSE, home |-> NoHome, proxyReply |-> FALSE,
     sends |-> 0, answers |-> 0,
     sent |-> {}, cached |-> 0, late |-> 0, early |-> FALSE, hasty |-> FALSE, quiet |-> FALSE,
     dropped |-> FALSE, failed |-> FALSE]

Live(r) == r.child # "FREE"

RadAssert(r, p) == [r EXCEPT !.failed = @ \/ ~p]

\* ev_request_free: leaves both hashes and the event list.
ev_request_free(r) ==
    [RadAssert(Unused, ~r.failed /\ r.child # "QUEUED")
       EXCEPT !.dropped = r.code = "auth" /\ r.sent = {} /\ ~r.quiet]

\* INSERT_EVENT: one event per request, at request->when.
INSERT_EVENT(r, cb) == [r EXCEPT !.ev = cb]

Left(limit, spent) == IF spent < limit THEN limit - spent ELSE 0

\* MUTANT: waits for every answer, however long.
WaitForAllAnswers(r) ==
    IF r.sends = r.answers THEN ev_request_free(r)
    ELSE INSERT_EVENT([r EXCEPT !.when = Left(ResponseWindow, r.proxyAge)],
                      "wait_for_proxy_id_to_expire")

wait_for_proxy_id_to_expire(r) ==
    IF r.sends = r.answers \/ r.proxyAge > ResponseWindow
    THEN ev_request_free(r)
    ELSE INSERT_EVENT([r EXCEPT !.when = Left(ResponseWindow, r.proxyAge)],
                      "wait_for_proxy_id_to_expire")

cleanup_delay(r) ==
    LET s == [RadAssert(r, r.child \in {"CLEANUP_DELAY", "DONE"}) EXCEPT !.inHash = FALSE]
    IN  IF s.home # NoHome /\ s.inProxy THEN wait_for_proxy_id_to_expire(s)
                                        ELSE ev_request_free(s)

wait_a_bit(r) ==
    IF r.child \in {"QUEUED", "RUNNING", "DONE"}
    THEN cleanup_delay([r EXCEPT !.child = "DONE"])
    ELSE LET s == RadAssert(r, r.nextCb \notin {"none", "wait_a_bit"})
         IN  IF r.nextCb = "none" THEN ev_request_free(s)
             ELSE [INSERT_EVENT(s, r.nextCb) EXCEPT !.when = IF r.nextWhen = NeverSet THEN -CleanupDelay ELSE r.nextWhen,
                                                  !.nextCb = "none"]

\* listener->send()
Send(r) ==
    [r EXCEPT !.sent = @ \cup {r.reply},
              !.early = @ \/ (r.code = "auth" /\ r.reply = "reject" /\ r.age < RejectDelay)]

\* MUTANT: the event of the clean-up is forgotten.
RejectWithoutEvent(r) ==
    [Send(r) EXCEPT !.when = @ + CleanupDelay, !.child = "CLEANUP_DELAY"]

\* MUTANT: cleaned up at once.
RejectNotCached(r) == INSERT_EVENT([Send(r) EXCEPT !.child = "CLEANUP_DELAY"], "cleanup_delay")

\* cleanup_delay is added to request->when, the time at which the reject was due.
reject_delay(r) ==
    INSERT_EVENT([Send(RadAssert(r, r.child = "REJECT_DELAY"))
                    EXCEPT !.when = @ + CleanupDelay, !.child = "CLEANUP_DELAY", !.late = -r.when],
                 "cleanup_delay")

-----------------------------------------------------------------------------
(***************************************************************************)
(* Proxying.                                                               *)
(***************************************************************************)
\* home_server_ldb: any server of the pool that is not dead, or none when all
\* are dead or at their limit.
home_server_ldb == ((IF conf.virtual THEN Homes ELSE RealHomes) \ dead) \cup {NoHome}

\* MUTANT: sent without an entry in the proxy hash.
SentWithoutId(r) ==
    [r EXCEPT !.child = "PROXIED", !.sends = 1, !.answers = 0, !.proxyAge = 0,
              !.nextWhen = ResponseWindow, !.nextCb = "no_response_to_proxied_request"]

\* proxy_request: the requests it may leave when an Id was found for the
\* packet.  (Without one the request is as it was.)
proxy_request(r) ==
    [r EXCEPT !.inProxy = TRUE, !.child = "PROXIED", !.sends = 1, !.answers = 0,
              !.proxyAge = 0,
              !.nextWhen = IF Left(MaxRequestTime, r.age) < ResponseWindow
                           THEN Left(MaxRequestTime, r.age) ELSE ResponseWindow,
              !.nextCb = "no_response_to_proxied_request"]

setup_post_proxy_fail(r) == conf.postProxyFail /\ r.code \in {"auth", "acct"}

\* process_proxy_reply: the post-proxy section may fail or handle the request.
process_proxy_reply(r) ==
    {r, [r EXCEPT !.child = "DONE", !.quiet = TRUE]}

\* request_pre_handler: child is RUNNING when it returns 1, DONE when 0.
request_pre_handler(r, decodes) ==
    LET s == [r EXCEPT !.child = "RUNNING"]
        bad == IF decodes THEN {[s EXCEPT !.child = "DONE", !.quiet = TRUE]} ELSE {}
    IN  bad \cup (IF s.home # NoHome THEN process_proxy_reply(s) ELSE {s})

\* rad_authenticate, rad_accounting, rad_coa_recv or the Status-Server reply:
\* what the policy may decide.  A proxied reply decides for the home server.
fun(r) ==
    LET answer == {[r EXCEPT !.reply = c] : c \in {"accept"} \cup IF r.code = "auth" THEN {"reject"} ELSE {}}
    IN  IF r.proxyReply \/ r.code = "status" THEN answer
        ELSE answer \cup {r, [r EXCEPT !.toRealm = TRUE]}
                    \cup (IF r.code = "auth" THEN {[r EXCEPT !.noRespond = TRUE]} ELSE {})

\* proxy_to_virtual_server: the virtual server answers or does not; its answer
\* goes through the post-proxy section, and the request is processed again.
proxy_to_virtual_server(r) ==
    LET answered == [r EXCEPT !.proxyReply = TRUE]
        silent == IF setup_post_proxy_fail(r) THEN [r EXCEPT !.child = "RUNNING"] ELSE r
    IN  (UNION {fun(s) : s \in process_proxy_reply(answered)}) \cup process_proxy_reply(silent)

\* successfully_proxied_request: pairs of the return code and the request.
\* -1: no server, or the pre-proxy section failed, or no Id; 0: not proxied;
\* 1: sent; 2: processed by a virtual server.
successfully_proxied_request(r) ==
    IF r.inProxy \/ r.proxyReply \/ ~r.toRealm THEN {<<0, r>>}
    ELSE UNION {
        IF h = NoHome THEN {<<-1, r>>}
        ELSE LET s == [r EXCEPT !.home = h]
             IN  {<<-1, s>>, <<0, s>>}
                 \cup (IF h \in RealHomes THEN {<<1, proxy_request(s)>>}
                       ELSE IF s.code \in {"auth", "acct"}
                            THEN {<<2, t>> : t \in proxy_to_virtual_server(s)}
                            ELSE {})                      \* "Unknown packet type"
        : h \in home_server_ldb}

-----------------------------------------------------------------------------
(***************************************************************************)
(* request_post_handler.                                                   *)
(***************************************************************************)
\* MUTANT: nobody calls wait_a_bit() in single threaded mode.
FinishAndForget(r, childState) ==
    [r EXCEPT !.child = childState, !.toRealm = FALSE, !.noRespond = FALSE]

\* The end: config_items are freed, the child state is set, and in single
\* threaded mode wait_a_bit() is called.
Finish(r, childState) ==
    LET s == [r EXCEPT !.child = childState, !.toRealm = FALSE, !.noRespond = FALSE]
    IN  IF conf.haveChildren THEN s ELSE wait_a_bit(s)

SendAnyReply(r) == IF r.reply = "none" THEN r ELSE Send(r)

\* The switch on the packet code, once the request is not (or no longer) proxied.
Respond(r) ==
    CASE r.code = "auth" /\ r.reply = "none" /\ r.noRespond ->
           Finish([r EXCEPT !.nextWhen = MaxRequestTime, !.nextCb = "cleanup_delay", !.quiet = TRUE],
                  "CLEANUP_DELAY")
      [] r.code = "auth" /\ ~(r.reply = "none" /\ r.noRespond) ->
           LET s == IF r.reply = "none" THEN [r EXCEPT !.reply = "reject"] ELSE r
           IN  IF s.reply = "reject" /\ s.age < RejectDelay
               THEN [s EXCEPT !.nextWhen = RejectDelay - s.age, !.nextCb = "reject_delay",
                              !.child = "REJECT_DELAY"]
               ELSE Finish([Send(s) EXCEPT !.nextWhen = CleanupDelay, !.nextCb = "cleanup_delay"],
                           "CLEANUP_DELAY")
      [] r.code = "coa" ->
           \* adds to next_when as it is: the deadline of the home server, or the
           \* epoch, which is long past, when the request was not proxied
           Finish([SendAnyReply(r) EXCEPT !.nextWhen = IF @ = NeverSet THEN @ ELSE @ + CleanupDelay,
                                          !.nextCb = "cleanup_delay"],
                  "CLEANUP_DELAY")
      [] OTHER ->
           Finish([SendAnyReply(r) EXCEPT !.nextCb = "none"], "DONE")

request_post_handler(r) ==
    LET s == RadAssert(r, r.child = "RUNNING")
    IN  IF ~s.inHash /\ s.home # NoHome /\ s.code = "coa"
        THEN {Finish([s EXCEPT !.nextCb = "none"], "DONE")}
        ELSE IF s.inProxy \/ s.reply # "none" \/ s.code = "status" THEN {Respond(s)}
        ELSE UNION {
            CASE x[1] = 1 -> {x[2]}
              [] x[1] = -1 /\ setup_post_proxy_fail(x[2]) ->
                   {Respond(t) : t \in request_pre_handler(x[2], FALSE)}
              [] OTHER -> {Respond(x[2])}
            : x \in successfully_proxied_request(s)}

\* radius_handle_request: with what policy decides, or with null_handler.
radius_handle_request(r, decodes, null) ==
    UNION {IF s.child = "RUNNING"
           THEN UNION {request_post_handler(t) : t \in IF null THEN {s} ELSE fun(s)}
           ELSE {s}
           : s \in request_pre_handler(r, decodes)}

-----------------------------------------------------------------------------
(***************************************************************************)
(* What happens when the home server does not answer.                      *)
(***************************************************************************)
post_proxy_fail_handler(r) ==
    LET handled == IF setup_post_proxy_fail(r)
                   THEN radius_handle_request([r EXCEPT !.child = "QUEUED"], FALSE, TRUE)
                   ELSE request_post_handler([r EXCEPT !.child = "RUNNING"])
    IN  IF conf.haveChildren THEN {wait_a_bit(s) : s \in handled} ELSE handled

\* virtual_server_handler, run in line; wait_a_bit() is called by
\* request_post_handler() or, in this build, by nobody.
proxy_fallback_handler(r) ==
    LET q == [r EXCEPT !.child = "QUEUED", !.nextWhen = 1, !.nextCb = "wait_a_bit"]
    IN  UNION {IF s.child = "RUNNING"
               THEN UNION {request_post_handler(t) : t \in proxy_to_virtual_server(s)}
               ELSE {s}
               : s \in request_pre_handler(q, FALSE)}

\* MUTANT: no_response_fail is ignored.
NoFailSection(r) == {wait_a_bit([r EXCEPT !.child = "RUNNING"])}

no_response_to_proxied_request(r) ==
    LET s == [RadAssert(r, r.child = "PROXIED")
                EXCEPT !.hasty = @ \/ (r.proxyAge < ResponseWindow /\ r.age < MaxRequestTime)]
    IN  IF s.home \in VirtualHomes THEN {wait_a_bit(s)}
        ELSE IF conf.noResponseFail THEN post_proxy_fail_handler(s)
        ELSE {wait_a_bit([s EXCEPT !.child = "RUNNING"])}

-----------------------------------------------------------------------------
(***************************************************************************)
(* Packets from the NAS.                                                   *)
(***************************************************************************)
\* A duplicate finds the home server dead: fail over to another one.
FailOver(r) ==
    LET s == [r EXCEPT !.inProxy = FALSE]
    IN  UNION {
        IF h = NoHome THEN post_proxy_fail_handler(s)
        ELSE LET t == [s EXCEPT !.home = h]
             IN  IF h \in VirtualHomes THEN proxy_fallback_handler(t)
                 ELSE LET p == proxy_request(t)
                      IN  {[INSERT_EVENT(p, p.nextCb) EXCEPT !.nextCb = "none"]}
                          \cup post_proxy_fail_handler(t)     \* no Id for the new server
        : h \in home_server_ldb}

\* MUTANT: the reply is sent again although it is being delayed.
RetransmitDelayed(r) == IF r.reply # "none" THEN {Send(r)} ELSE {r}

received_retransmit(r) ==
    CASE r.child = "PROXIED" /\ r.code = "auth" /\ r.home \in dead -> FailOver(r)
      [] r.child = "PROXIED" /\ r.code = "auth" /\ r.home \notin dead -> {[r EXCEPT !.sends = @ + 1]}
      [] r.child \in {"CLEANUP_DELAY", "DONE"} /\ r.reply # "none" -> {Send(r)}
      [] OTHER -> {r}                                     \* discarded

\* The entry of the request hash that a packet finds.
Holder(k) == {q \in Reqs : req[q].inHash /\ req[q].key = k}

\* A packet whose key is in the hash with the same vector.
ReceiveDuplicate(q) ==
    /\ req[q].inHash
    /\ req[q].child = "PROXIED" => req[q].sends <= MaxDups
    /\ \E s \in received_retransmit(req[q]) : req' = [req EXCEPT ![q] = s]
    /\ UNCHANGED <<conf, dead>>

\* received_request, when an older request has the key: what becomes of it.
\* A request still being worked on keeps its place for a second.
MakesWay(r) == r.child \in {"REJECT_DELAY", "CLEANUP_DELAY", "DONE"} \/ r.age >= 1

\* MUTANT: the older request stays in the hash.
OldStaysInHash(r) == [r EXCEPT !.quiet = TRUE]

GivenUp(r) ==
    LET s == [r EXCEPT !.quiet = TRUE]
    IN  IF r.child \in {"REJECT_DELAY", "CLEANUP_DELAY", "DONE"}
        THEN cleanup_delay([s EXCEPT !.child = "DONE"])
        ELSE RadAssert([s EXCEPT !.inHash = FALSE], r.child = "PROXIED" => r.ev # "none")

\* can_handle_new_request
can_handle_new_request(reqs) ==
    MaxRequests = 0 \/ Cardinality({q \in Reqs : reqs[q].inHash}) <= MaxRequests

NewRequest(k, v, c) ==
    INSERT_EVENT([Unused EXCEPT !.key = k, !.vector = v, !.code = c, !.child = "QUEUED",
                                !.inHash = TRUE, !.when = 1],
                 "wait_a_bit")

\* received_request for a packet that is not a duplicate, then its handler.
ReceiveRequest(q, k, v, c) ==
    /\ ~Live(req[q])
    /\ \A o \in Holder(k) : req[o].vector # v /\ MakesWay(req[o])
    /\ LET cleared == [o \in Reqs |-> IF o \in Holder(k) THEN GivenUp(req[o]) ELSE req[o]]
       IN  IF can_handle_new_request(cleared)
           THEN \E s \in radius_handle_request(NewRequest(k, v, c), TRUE, FALSE) :
                  req' = [cleared EXCEPT ![q] = s]
           ELSE req' = cleared
    /\ UNCHANGED <<conf, dead>>

-----------------------------------------------------------------------------
\* lookup_in_proxy_hash: counts the reply, and gives up the Id when every
\* packet sent with it was answered.
lookup_in_proxy_hash(r) ==
    [r EXCEPT !.answers = @ + 1, !.inProxy = r.sends # r.answers + 1]

\* MUTANT: a reply is used whatever became of the request.
WantedAlways(r, verified) == ~r.proxyReply /\ verified

\* received_proxy_response: replies of a finished or an answered request, and
\* those that fail rad_verify(), are ignored.
Wanted(r, verified) ==
    ~r.proxyReply /\ verified /\ r.reply = "none" /\ r.child = "PROXIED"

\* received_proxy_response, and the processing of the reply when it is wanted.
ReceiveProxyReply(q, verified) ==
    /\ req[q].inProxy
    /\ verified \/ conf.badReplies
    /\ LET r == lookup_in_proxy_hash(req[q])
       IN  IF ~Wanted(r, verified)
           THEN req' = [req EXCEPT ![q] = r]
           ELSE \E s \in radius_handle_request(
                            INSERT_EVENT([r EXCEPT !.proxyReply = TRUE, !.child = "QUEUED", !.when = 1],
                                         "wait_a_bit"), TRUE, FALSE) :
                  req' = [req EXCEPT ![q] = s]
    /\ UNCHANGED <<conf, dead>>

\* fr_event_run: the event is taken off the list, then its callback runs.
Fire(q, cb) ==
    /\ Live(req[q]) /\ req[q].ev = cb /\ req[q].when <= 0
    /\ LET r == [req[q] EXCEPT !.ev = "none"]
       IN  \E s \in (CASE cb = "wait_a_bit" -> {wait_a_bit(r)}
                       [] cb = "cleanup_delay" -> {cleanup_delay(r)}
                       [] cb = "reject_delay" -> {reject_delay(r)}
                       [] cb = "no_response_to_proxied_request" -> no_response_to_proxied_request(r)
                       [] cb = "wait_for_proxy_id_to_expire" -> {wait_for_proxy_id_to_expire(r)}) :
             req' = [req EXCEPT ![q] = s]
    /\ UNCHANGED <<conf, dead>>

\* A second less.  How long the time is past is counted where it is a base: of
\* a delayed reject, and next_when of a CoA-Request.
Sooner(w, base) == IF w <= (IF base THEN -CleanupDelay ELSE 0) THEN w ELSE w - 1

\* Time passes, also while an event is due: the loop may be late.
Tick ==
    /\ \E q \in Reqs : Live(req[q])
    /\ req' = [q \in Reqs |->
                 IF ~Live(req[q]) THEN req[q]
                 ELSE [req[q] EXCEPT !.when = Sooner(@, req[q].ev = "reject_delay"),
                                     !.nextWhen = Sooner(@, req[q].nextCb = "reject_delay" \/ req[q].code = "coa"),
                                     !.cached = IF req[q].sent # {} /\ @ < CleanupDelay THEN @ + 1 ELSE @,
                                     !.age = IF @ < AgeCap THEN @ + 1 ELSE @,
                                     !.proxyAge = IF @ <= ResponseWindow THEN @ + 1 ELSE @]]
    /\ UNCHANGED <<conf, dead>>

\* The home servers' own state machine, seen from a request.
HomeStateChanges(h) ==
    /\ dead' = IF h \in dead THEN dead \ {h} ELSE dead \cup {h}
    /\ UNCHANGED <<conf, req>>

Init ==
    /\ conf \in Confs
    /\ req = [q \in Reqs |-> Unused]
    /\ dead = {}

FireAny(q) == \E cb \in Callbacks \ {"none"} : Fire(q, cb)

Next ==
    \/ \E q \in Reqs, k \in Keys, v \in Vectors, c \in Codes : ReceiveRequest(q, k, v, c)
    \/ \E q \in Reqs : ReceiveDuplicate(q)
    \/ \E q \in Reqs, verified \in BOOLEAN : ReceiveProxyReply(q, verified)
    \/ \E q \in Reqs : FireAny(q)
    \/ \E h \in RealHomes : HomeStateChanges(h)
    \/ Tick

\* The event loop runs what is due, and time passes.
Fairness == WF_vars(Tick) /\ \A q \in Reqs : WF_vars(FireAny(q))

Spec == Init /\ [][Next]_vars /\ Fairness

-----------------------------------------------------------------------------
\* The configurations whose handlers keep to the rules below.  Failing over to
\* a virtual server does not: proxy_fallback_handler() runs the request in place
\* and leaves it to assertions that expect REQUEST_PROXIED.  Neither does a home
\* server that fails when have_children is off, because then nobody calls
\* wait_a_bit() unless request_post_handler() gets to its end: it does not when
\* Post-Proxy-Type Fail refuses, when the reject is delayed, or when the request
\* lost its Id to a bad reply and is proxied once more.
Regular ==
    /\ ~conf.virtual
    /\ conf.haveChildren \/ (~conf.postProxyFail /\ ~conf.badReplies /\ RejectDelay = 0)

\* Between two handlers every request that exists has an event: nothing else
\* would ever free it.  (received_proxy_response: "assert that there's an event
\* queued for request?")
LiveHasEvent == Regular => \A q \in Reqs : Live(req[q]) => req[q].ev # "none"

\* No rad_assert() or rad_panic() of the handlers is hit, in whatever order
\* timers, duplicates, conflicting packets and home servers' replies come.
NoAssertFails == Regular => \A q \in Reqs : ~req[q].failed

\* A key is in the request hash once, so that received_request() can insert
\* the newest packet and a duplicate finds the right request.
OneRequestPerKey == \A k \in Keys : Cardinality(Holder(k)) <= 1

\* The NAS never gets two different answers to one request: not from the
\* duplicate-reply path, a late proxy reply, or a delayed reject.
OneAnswer == \A q \in Reqs : Cardinality(req[q].sent) <= 1

\* No Access-Reject leaves before the request is reject_delay old, by any path.
\* (With a Post-Proxy-Type Fail that refuses, and have_children off, a request
\* whose reject is being delayed can be left DONE, where a duplicate gets it.)
RejectsAreDelayed ==
    conf.haveChildren \/ ~conf.postProxyFail => \A q \in Reqs : ~req[q].early

\* "if anything goes wrong, we send a reject message, instead of dropping the
\* packet" (received_request): with no_response_fail, an Access-Request is
\* freed unanswered only when policy said so or the NAS sent a newer packet
\* with its Id.
NoSilentDrop == Regular /\ conf.noResponseFail => \A q \in Reqs : ~req[q].dropped

\* A request that waits for a home server holds its proxy Id: a retransmission
\* never uses an Id that another request may have been given.
ProxiedHoldsId ==
    ~conf.badReplies => \A q \in Reqs : req[q].child = "PROXIED" => req[q].inProxy

\* proxy.conf, response_window: a home server is given up only when it did not
\* answer within this time (or the request is max_request_time old).
WindowIsHonoured == \A q \in Reqs : ~req[q].hasty

\* radiusd.conf, cleanup_delay, "the time to wait (in seconds) before cleaning
\* up a reply which was sent to the NAS": an Access-Request is cached for this
\* time after the reply, so that a duplicate gets the same reply and is not
\* processed again.  A delayed reject is cached until cleanup_delay after it was
\* due: by as much as the loop was late to send it, it is cached less.  Only a
\* newer packet of the NAS with the same key may end it earlier.
RepliesAreCached ==
    [][\A q \in Reqs :
         /\ Regular
         /\ req[q].inHash /\ req[q].code = "auth" /\ req[q].sent # {}
         /\ ~req'[q].inHash
         => \/ req[q].cached + req[q].late >= CleanupDelay
            \/ \E o \in Reqs, v \in Vectors, c \in Codes : ReceiveRequest(o, req[q].key, v, c)]_vars

\* Every request is freed in the end, however many duplicates arrive.
EventuallyFreed == \A q \in Reqs : Regular /\ Live(req[q]) ~> ~Live(req[q])

\* The handlers of event.cpp keep the rules among themselves: every request has
\* an event between two handlers, and no assertion of the next one fails.
HandlersAgree == TypeOK /\ LiveHasEvent /\ NoAssertFails

=============================================================================
