-------------------------------- MODULE Coa ---------------------------------
(***************************************************************************)
(* CoA and Disconnect requests that the server originates itself           *)
(* (event.cpp).  A request that is finished leaves one behind; it is sent, *)
(* sent again with growing delays (RFC 5080, 2.2.1), answered or given up, *)
(* and freed.  It takes its RADIUS Id from the list of proxied packets,    *)
(* and it hangs on the request that made it (its parent) until the         *)
(* parent's wait_a_bit() gives it an event of its own.                     *)
(*                                                                         *)
(* Time is in seconds, every delay rounded up.  The home server may answer *)
(* each transmission at any time, as often as it likes, or never; answers  *)
(* that come when the Id has gone to another transmission are "late".      *)
(***************************************************************************)
EXTENDS Integers, FiniteSets

CONSTANTS
    CoaReqs,        \* the requests; each is originated once
    CoaIds,         \* Ids of the proxy sockets towards the home server
    NoId,
    CoaIrt,         \* the home server's coa section: coa_irt, coa_mrt,
    CoaMrt,         \* coa_mrc and coa_mrd
    CoaMrc,
    CoaMrd,
    CoaConfs        \* the configurations of a run

\* haveChildren: not started with -X or -s.  refused: there is a Post-Proxy-Type
\* Fail section and it refuses.  late: answers to older transmissions arrive.
CoaConf == [haveChildren: BOOLEAN, refused: BOOLEAN, late: BOOLEAN]

\* home_server_add() forces the four values into these ranges.
ASSUME CoaAssumption ==
    /\ CoaIrt \in 1 .. 5
    /\ CoaMrt \in 0 .. 30
    /\ CoaMrc \in 0 .. 20
    /\ CoaMrd \in 5 .. 60
    /\ NoId \notin CoaIds \cup CoaReqs
    /\ CoaConfs \subseteq CoaConf

VARIABLES
    coa_conf,          \* how the server was started, and what may arrive
    coa,               \* per request, its REQUEST
    coa_ids,           \* who has each Id, in the bitmap and in proxy_list's tree
    coa_outstanding,   \* home_server->currently_outstanding
    coa_stale          \* the Ids of transmissions that are over and may yet be answered

coaVars == <<coa_conf, coa, coa_ids, coa_outstanding, coa_stale>>

CoaEvents == {"none", "retransmit_coa_request", "no_response_to_coa_request", "wait_a_bit"}

\* The fields of the REQUEST that the CoA code reads.
CoaRecord ==
    [st: {"unborn", "PROXIED", "DONE", "freed"},   \* child_state
     parent: BOOLEAN,        \* still request->coa of its parent
     ev: CoaEvents, when: Nat,
     next: BOOLEAN,          \* next_callback is retransmit_coa_request
     nextWhen: Nat,
     delay: Nat,
     count: Nat,             \* num_coa_requests
     stamped: BOOLEAN,       \* has an Event-Timestamp
     id: CoaIds \cup {NoId}, hash: BOOLEAN,       \* proxy->id, in_proxy_hash
     sends: Nat, answers: Nat,                    \* num_proxied_requests, _responses
     reply: BOOLEAN,         \* proxy_reply
     age: Nat,               \* now - proxy_when
     sentAt: Nat,            \* history: its age when it was sent last
     answered: Nat, failed: Nat]                  \* history: handlers run

Unborn ==
    [st |-> "unborn", parent |-> FALSE, ev |-> "none", when |-> 0, next |-> FALSE, nextWhen |-> 0,
     delay |-> 0, count |-> 0, stamped |-> FALSE, id |-> NoId, hash |-> FALSE, sends |-> 0,
     answers |-> 0, reply |-> FALSE, age |-> 0, sentAt |-> 0, answered |-> 0, failed |-> 0]

CoaTypeOK ==
    /\ coa_conf \in CoaConf
    /\ coa \in [CoaReqs -> CoaRecord]
    /\ coa_ids \in [CoaIds -> CoaReqs \cup {NoId}]
    /\ coa_outstanding \in Nat
    /\ coa_stale \subseteq CoaIds

Live(r) == r.st \in {"PROXIED", "DONE"}

-----------------------------------------------------------------------------
\* The Ids that fr_packet_list_id_alloc() may return.
FreeIds == {i \in CoaIds : coa_ids[i] = NoId}

\* fr_packet_list_yank() and fr_packet_list_id_free(): by Id, whoever has it.
\* Answers to what was sent under the Id may still come.
Released(ids, r) == [ids EXCEPT ![r.id] = NoId]
Stale(r) == IF coa_conf.late THEN coa_stale \cup {r.id} ELSE coa_stale

\* "If the home server hasn't replied", one less is outstanding.
CountDown(r) ==
    IF ~r.reply /\ coa_outstanding > 0 THEN coa_outstanding - 1 ELSE coa_outstanding

Set(c, r) == coa' = [coa EXCEPT ![c] = r]

\* A REQUEST after request_free(); the history stays.
Gone(r) == [Unborn EXCEPT !.st = "freed", !.answered = r.answered, !.failed = r.failed]

\* ev_request_free(): the event, the Id and the count go with the request.
Free(c, r) ==
    /\ Set(c, Gone(r))
    /\ coa_ids' = IF r.hash THEN Released(coa_ids, r) ELSE coa_ids
    /\ coa_stale' = Stale(r)
    /\ coa_outstanding' = IF r.hash THEN CountDown(r) ELSE coa_outstanding

-----------------------------------------------------------------------------
\* The first delay: 0.9 IRT and a random part of 2^22 microseconds / 10 per
\* second of IRT, which is up to 0.42.
LongestFirst == (132 * CoaIrt + 99) \div 100
FirstDelays == (9 * CoaIrt + 9) \div 10 .. LongestFirst

\* The following ones: 1.9 to 2.1 times the last, or when that is above MRT
\* 0.9 MRT and a random part that is up to 2 MRT (17 bits over 2^16).
NextDelays(last) ==
    UNION {IF CoaMrt # 0 /\ d > CoaMrt
             THEN (9 * CoaMrt + 9) \div 10 .. (29 * CoaMrt + 9) \div 10
             ELSE {d} : d \in (19 * last + 9) \div 10 .. (21 * last + 9) \div 10}

\* originated_coa_request() with an Id, and the end of the parent's handler:
\* without children request_post_handler() calls the parent's wait_a_bit(),
\* which gives the CoA request its event and divorces it.
Originate(c, stamped, delay, id) ==
    /\ coa[c].st = "unborn"
    /\ id \in FreeIds
    /\ coa_outstanding' = coa_outstanding + 1
    /\ coa_ids' = [coa_ids EXCEPT ![id] = c]
    /\ LET r == [Unborn EXCEPT !.st = "PROXIED", !.stamped = stamped, !.id = id, !.hash = TRUE,
                               !.delay = delay, !.sends = 1]
       IN Set(c, IF coa_conf.haveChildren
                   THEN [r EXCEPT !.parent = TRUE, !.next = TRUE, !.nextWhen = delay]
                   ELSE [r EXCEPT !.ev = "retransmit_coa_request", !.when = delay])
    /\ UNCHANGED <<coa_conf, coa_stale>>

\* originated_coa_request() fails: no such server, refused by pre-proxy, or no
\* Id left, in which case insert_into_proxy_hash() has already counted it.
OriginateFails(c) ==
    /\ coa[c].st = "unborn"
    /\ Set(c, Gone(Unborn))
    /\ coa_outstanding' = IF FreeIds = {} THEN coa_outstanding + 1 ELSE coa_outstanding
    /\ UNCHANGED <<coa_conf, coa_ids, coa_stale>>

\* Mutant: the parent lets go of the request and sets no event.
ParentForgets(c) ==
    /\ coa[c].parent
    /\ ~coa[c].reply /\ coa[c].next
    /\ Set(c, [coa[c] EXCEPT !.next = FALSE, !.nextWhen = 0, !.parent = FALSE])
    /\ UNCHANGED <<coa_conf, coa_ids, coa_outstanding, coa_stale>>

\* wait_a_bit() of the parent.
ParentWaits(c) ==
    /\ coa[c].parent
    /\ ~coa[c].reply /\ coa[c].next
    /\ Set(c, [coa[c] EXCEPT !.ev = "retransmit_coa_request", !.when = coa[c].nextWhen,
                             !.next = FALSE, !.nextWhen = 0, !.parent = FALSE])
    /\ UNCHANGED <<coa_conf, coa_ids, coa_outstanding, coa_stale>>

\* The parent is freed first, because another packet took its place.
ParentFreed(c) ==
    /\ coa[c].parent
    /\ Free(c, coa[c])
    /\ UNCHANGED coa_conf

-----------------------------------------------------------------------------
\* lookup_in_proxy_hash(): one answer more, and when there are as many as
\* transmissions the Id is given back.
LookedUp(r) ==
    [r EXCEPT !.answers = @ + 1, !.hash = @ /\ r.sends # r.answers + 1]

\* received_proxy_response(): only the first answer is handled, and only
\* while the request waits for one.
HandleReply(r) == ~r.reply /\ r.st = "PROXIED"

\* The handlers of the answer: it is decoded, run through post-proxy and
\* request_post_handler(), or refused on the way.  When that is reached
\* without children, wait_a_bit() frees the request at once; in all other
\* cases the event does it.
CoaAnswered(r) ==
    [r EXCEPT !.reply = TRUE, !.parent = FALSE, !.st = "DONE", !.ev = "wait_a_bit", !.when = 1,
              !.answered = @ + 1]

\* An answer to the request's last transmission arrives while it has its Id.
Reply(c) ==
    /\ coa[c].hash /\ coa_ids[coa[c].id] = c
    /\ LET r == LookedUp(coa[c])
           ids == IF r.hash THEN coa_ids ELSE Released(coa_ids, r)
       IN \/ ~HandleReply(coa[c]) /\ Set(c, r) /\ coa_ids' = ids
          \/ HandleReply(coa[c]) /\ Set(c, CoaAnswered(r)) /\ coa_ids' = ids
          \/ /\ HandleReply(coa[c]) /\ ~coa_conf.haveChildren
             /\ Set(c, Gone(CoaAnswered(r)))
             /\ coa_ids' = Released(coa_ids, r)
    /\ coa_outstanding' = CountDown(coa[c])
    /\ coa_stale' = Stale(coa[c])
    /\ UNCHANGED coa_conf

\* An answer to an older transmission finds whoever has its Id by now.  Only
\* then does rad_verify() say no: the answer has been counted, and the Id may
\* be gone.
LateReply(i) ==
    /\ i \in coa_stale /\ coa_ids[i] # NoId
    /\ LET c == coa_ids[i]
           r == LookedUp(coa[c])
       IN /\ Set(c, r)
          /\ coa_ids' = IF r.hash THEN coa_ids ELSE Released(coa_ids, r)
          /\ coa_outstanding' = CountDown(coa[c])
    /\ UNCHANGED <<coa_conf, coa_stale>>

-----------------------------------------------------------------------------
\* Without children post_proxy_fail_handler() leaves the call of wait_a_bit() to
\* request_post_handler(), which is not reached when the Fail section refuses.
Abandoned == ~coa_conf.haveChildren /\ coa_conf.refused

\* no_response_to_coa_request() and post_proxy_fail_handler(): the Fail
\* section, if there is one, and request_post_handler() make it DONE, and
\* wait_a_bit() frees what is DONE.
CoaNoResponse(c) ==
    LET r == [coa[c] EXCEPT !.failed = @ + 1, !.st = "DONE", !.ev = "none"] IN
    \/ ~Abandoned /\ Free(c, r)
    \/ Abandoned /\ Set(c, r) /\ UNCHANGED <<coa_ids, coa_stale, coa_outstanding>>

\* The next event: MRD after the first transmission nothing more is sent.
NextEvent(r, delay) ==
    IF r.age + delay > CoaMrd
      THEN [r EXCEPT !.delay = delay, !.ev = "no_response_to_coa_request",
                     !.when = IF r.age < CoaMrd THEN CoaMrd - r.age ELSE 0]
      ELSE [r EXCEPT !.delay = delay, !.ev = "retransmit_coa_request", !.when = delay]

Sent(r) == [r EXCEPT !.sends = @ + 1, !.count = @ + 1, !.sentAt = r.age]

\* Mutant: the old Id is not given back.
NewIdKeepsOld(c, r, id) == [coa_ids EXCEPT ![id] = c]

\* insert_into_proxy_hash(request, TRUE): the old Id is given back, whoever
\* has it, when the new one is there.
NewId(c, r, id) == [Released(coa_ids, r) EXCEPT ![id] = c]

\* retransmit_coa_request() before MRC is reached.  A request with a time
\* stamp gets the new time, and so a new Id; when there is none it is not sent,
\* but counted as outstanding once more.
Retransmit(c, delay) ==
    LET r == NextEvent(coa[c], delay) IN
    \/ /\ ~r.stamped
       /\ Set(c, Sent(r))
       /\ UNCHANGED <<coa_ids, coa_stale, coa_outstanding>>
    \/ /\ r.stamped
       /\ coa_outstanding' = coa_outstanding + 1
       /\ \/ /\ FreeIds = {}
             /\ Set(c, r)
             /\ UNCHANGED <<coa_ids, coa_stale>>
          \/ \E id \in FreeIds :
               /\ coa_ids' = NewId(c, r, id)
               /\ coa_stale' = Stale(r)
               /\ Set(c, Sent([r EXCEPT !.id = id, !.hash = TRUE, !.sends = 0, !.answers = 0]))

\* fr_event_run(): the request's event is due.
CoaFire(c) ==
    /\ coa[c].ev # "none" /\ coa[c].when = 0
    /\ \/ coa[c].ev = "wait_a_bit" /\ Free(c, coa[c])
       \/ coa[c].ev = "no_response_to_coa_request" /\ CoaNoResponse(c)
       \/ /\ coa[c].ev = "retransmit_coa_request"
          /\ CoaMrc # 0 /\ coa[c].count >= CoaMrc
          /\ CoaNoResponse(c)
       \/ /\ coa[c].ev = "retransmit_coa_request"
          /\ CoaMrc = 0 \/ coa[c].count < CoaMrc
          /\ \E delay \in NextDelays(coa[c].delay) : Retransmit(c, delay)
    /\ UNCHANGED coa_conf

\* Every second.  A parent's wait_a_bit() comes within the first.
CoaTick ==
    /\ \E c \in CoaReqs : coa[c].parent \/ coa[c].ev # "none"
    /\ \A c \in CoaReqs : coa[c].ev # "none" => coa[c].when > 0
    /\ \A c \in CoaReqs : coa[c].parent => coa[c].age = 0
    /\ coa' = [c \in CoaReqs |->
                 [coa[c] EXCEPT !.age = IF coa[c].st = "PROXIED" THEN @ + 1 ELSE @,
                                !.when = IF coa[c].ev # "none" THEN @ - 1 ELSE @,
                                !.nextWhen = IF coa[c].parent THEN @ - 1 ELSE @]]
    /\ UNCHANGED <<coa_conf, coa_ids, coa_outstanding, coa_stale>>

CoaInit ==
    /\ coa_conf \in CoaConfs
    /\ coa = [c \in CoaReqs |-> Unborn]
    /\ coa_ids = [i \in CoaIds |-> NoId]
    /\ coa_outstanding = 0
    /\ coa_stale = {}

CoaStep(c) == CoaFire(c) \/ ParentWaits(c)

CoaNext ==
    \/ \E c \in CoaReqs :
         \/ \E stamped \in BOOLEAN, delay \in FirstDelays, id \in CoaIds : Originate(c, stamped, delay, id)
         \/ OriginateFails(c) \/ ParentFreed(c) \/ Reply(c) \/ CoaStep(c)
    \/ \E i \in CoaIds : LateReply(i)
    \/ CoaTick

\* The event loop runs: events fire, the parents' too, and time goes on.
CoaFairness == WF_coaVars(CoaTick) /\ \A c \in CoaReqs : WF_coaVars(CoaStep(c))

CoaSpec == CoaInit /\ [][CoaNext]_coaVars /\ CoaFairness

-----------------------------------------------------------------------------
\* Without late answers, the Id of a request is its own as long as it is in
\* proxy_list, a request that waits for its answer is there, and no Id stays
\* behind when a request is freed, however often it changed its Id.
CoaIdIsItsOwn ==
    ~coa_conf.late =>
        /\ \A c \in CoaReqs : coa[c].hash => coa_ids[coa[c].id] = c
        /\ \A c \in CoaReqs : coa[c].st = "PROXIED" => coa[c].hash
        /\ \A i \in CoaIds : coa_ids[i] # NoId =>
             coa[coa_ids[i]].id = i /\ coa[coa_ids[i]].hash /\ Live(coa[coa_ids[i]])

\* A request that nobody else will free has an event, or a parent that is
\* going to give it one: wait_a_bit() ties "its events back into the main
\* event handler" before the parent goes away.
CoaHasTimer ==
    \A c \in CoaReqs : Live(coa[c]) =>
        \/ coa[c].ev # "none"
        \/ coa[c].parent /\ coa[c].next /\ ~coa[c].reply
        \/ Abandoned /\ coa[c].failed = 1

\* The answer is handled or the request fails, never both and never twice,
\* although answers race the timers and come repeatedly; a request that is
\* freed on its own has had one of the two.
CoaEndsOnce ==
    \A c \in CoaReqs :
        /\ coa[c].answered + coa[c].failed <= 1
        /\ coa[c].st = "DONE" => coa[c].answered + coa[c].failed = 1

\* MRD after the first transmission, or the first delay where that is longer:
\* the event of the first retransmission is set without a look at MRD.
CoaEnd == IF LongestFirst > CoaMrd THEN LongestFirst ELSE CoaMrd

\* Nothing is sent later than MRD after the first transmission, nor more than
\* MRC times again, and no request outlives MRD (unless the first delay does,
\* which with the largest coa_irt and the smallest coa_mrd it can).
CoaStopsInTime ==
    \A c \in CoaReqs :
        /\ CoaMrc # 0 => coa[c].count <= CoaMrc
        /\ coa[c].sentAt <= CoaEnd
        /\ coa[c].st = "PROXIED" => coa[c].age <= CoaEnd

\* "currently_outstanding ... is NOT the count of sent packets, but whether or
\* not the home server has responded at all" (lookup_in_proxy_hash): at most
\* one per request that waits for its first answer.
OutstandingIsCoas ==
    coa_outstanding <= Cardinality({c \in CoaReqs : coa[c].hash /\ ~coa[c].reply})

\* Every request that was originated is freed in the end, whatever the home
\* server answers.
CoaIsFreed ==
    ~Abandoned => \A c \in CoaReqs : coa[c].st = "PROXIED" ~> coa[c].st = "freed"

\* A CoA request keeps its own Id, has a timer, ends once and in time, however
\* answers race its retransmissions and its parent's end.
CoaIsRight == CoaTypeOK /\ CoaIdIsItsOwn /\ CoaHasTimer /\ CoaEndsOnce /\ CoaStopsInTime

=============================================================================
