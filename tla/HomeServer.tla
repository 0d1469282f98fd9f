----------------------------- MODULE HomeServer -----------------------------
(***************************************************************************)
(* One home server as the proxy code of winradiusd/event.cpp sees it:      *)
(* alive, zombie or dead, the count of outstanding requests, the status    *)
(* checks ("pings") and the timer that brings it back.                     *)
(*                                                                         *)
(* The requests proxied to it and the status checks are kept only as far   *)
(* as the server's state depends on them.  Times are counted down, ages up *)
(* to the last value told apart.  A handler is one step: the event loop    *)
(* has one thread.                                                         *)
(***************************************************************************)
EXTENDS Integers, FiniteSets

CONSTANTS
    Reqs,             \* requests that may be proxied to the server at once (a bound)
    Pings,            \* status checks that may be in flight at once (a bound)
    Confs,            \* the configurations and surroundings of the server looked at
    MaxOutstanding, ResponseWindow, ZombiePeriod, ReviveInterval,
    PingInterval, PingTimeout, NumPingsToAlive,
    MaxJitter         \* whole seconds of jitter, 8 in the code: 2^23 - 1 microseconds

ConfRecord ==
    [pingCheck: BOOLEAN,      \* ping_check # HOME_PING_CHECK_NONE
     wakeAll: BOOLEAN,        \* wake_all_if_all_dead, and no other server of the pool is live
     idsRunOut: BOOLEAN,      \* proxy_id_alloc() may fail
     pingsGetLost: BOOLEAN]   \* a status check may stay unanswered

ASSUME HomeServerAssumption ==
    /\ Confs \subseteq ConfRecord
    /\ MaxOutstanding \in Nat \ {0} /\ ResponseWindow \in Nat \ {0}
    /\ ZombiePeriod \in Nat \ {0} /\ ReviveInterval \in Nat \ {0}
    /\ PingInterval \in Nat /\ PingInterval >= 2
    /\ PingTimeout \in Nat \ {0} /\ NumPingsToAlive \in Nat \ {0}
    /\ MaxJitter \in Nat
    /\ IsFiniteSet(Reqs) /\ IsFiniteSet(Pings)

VARIABLES
    conf,     \* one of Confs, the same for ever
    home,     \* the home_server
    req,      \* the requests proxied to it
    ping,     \* time left of each status check in flight, or NoPing
    streak    \* history: status checks answered since the last one that was not

vars == <<conf, home, req, ping, streak>>

PingCheck == conf.pingCheck
IdsRunOut == conf.idsRunOut

NoPing == -1
LastCap == ZombiePeriod + 1

States == {"ALIVE", "ZOMBIE", "IS_DEAD"}
Events == {"none", "ping_home_server", "revive_home_server"}

HomeRecord ==
    [state: States,
     outstanding: Nat,       \* currently_outstanding
     pings: Nat,             \* num_received_pings
     ev: Events, when: Nat,  \* the server's timer
     last: Nat,              \* time since last_packet
     zombie: Nat]            \* time since zombie_period_start

TypeOK ==
    /\ conf \in Confs
    /\ home \in HomeRecord
    /\ req \in [Reqs -> [st: {"none", "waiting", "late"}, left: Nat]]
    /\ ping \in [Pings -> Int]
    /\ streak \in Nat

-----------------------------------------------------------------------------
Less(n) == IF n > 0 THEN n - 1 ELSE 0

\* A request is in the proxy hash until it is answered or its Id expires.
InFlight == {r \in Reqs : req[r].st # "none"}
PingsInFlight == {p \in Pings : ping[p] # NoPing}

\* ping_home_server: sends a status check unless the server is alive, has no
\* status checks, or has an event.  insert_into_proxy_hash() counts it before
\* it looks for an Id; without one nothing is sent, and no event inserted.
\* The relation is between the server before and after, and the next "ping".
PingHomeServer(h, h2) ==
    IF h.state = "ALIVE" \/ ~PingCheck \/ h.ev # "none"
    THEN h2 = h /\ ping' = ping
    ELSE \/ \E p \in Pings \ PingsInFlight, jitter \in 0 .. MaxJitter :
              /\ h2 = [h EXCEPT !.outstanding = @ + 1, !.ev = "ping_home_server",
                                !.when = PingInterval - 2 + jitter]
              /\ ping' = [ping EXCEPT ![p] = PingTimeout]
         \/ /\ IdsRunOut
            /\ h2 = [h EXCEPT !.outstanding = @ + 1]
            /\ ping' = ping

\* MUTANT: the timer is always cleared, never set.
DeadWithoutTimer(h) == [h EXCEPT !.state = "IS_DEAD", !.pings = 0, !.ev = "none"]

\* mark_home_server_dead, always from ZOMBIE: with status checks the pings go
\* on, without them the server is revived after a fixed time.
mark_home_server_dead(h) ==
    IF PingCheck THEN [h EXCEPT !.state = "IS_DEAD", !.pings = 0]
    ELSE [h EXCEPT !.state = "IS_DEAD", !.pings = 0, !.ev = "revive_home_server", !.when = ReviveInterval]

check_for_zombie_home_server(h) ==
    IF h.state = "ZOMBIE" /\ h.zombie >= ZombiePeriod THEN mark_home_server_dead(h) ELSE h

\* MUTANT: the count is left alone.
StillCounted(h) == h

\* remove_from_proxy_hash of a request without a reply.
NotCounted(h) == [h EXCEPT !.outstanding = Less(@)]

\* received_proxy_response of a real packet.
Answered(h) == [NotCounted(h) EXCEPT !.state = "ALIVE", !.last = 0]

\* The server is back in use because of status checks or revive_interval.
BackToLife(h) == [h EXCEPT !.state = "ALIVE", !.outstanding = 0, !.ev = "none"]


-----------------------------------------------------------------------------
Init ==
    /\ conf \in Confs
    /\ home = [state |-> "ALIVE", outstanding |-> 0, pings |-> 0, ev |-> "none", when |-> 0,
               last |-> 0, zombie |-> 0]
    /\ req = [r \in Reqs |-> [st |-> "none", left |-> 0]]
    /\ ping = [p \in Pings |-> NoPing]
    /\ streak = 0

\* home_server_ldb chooses this server, and insert_into_proxy_hash counts the
\* request before it looks for an Id.  A dead server without status checks may
\* be woken, whatever its count.
ProxyRequest(r, idFound) ==
    /\ req[r].st = "none"
    /\ \/ home.state # "IS_DEAD" /\ home.outstanding < MaxOutstanding
       \/ home.state = "IS_DEAD" /\ conf.wakeAll /\ ~PingCheck
    /\ idFound \/ IdsRunOut
    /\ LET h == IF home.state = "IS_DEAD" THEN [home EXCEPT !.state = "ALIVE"] ELSE home
       IN  home' = [h EXCEPT !.outstanding = @ + 1]
    /\ req' = IF idFound THEN [req EXCEPT ![r] = [st |-> "waiting", left |-> ResponseWindow]] ELSE req
    /\ UNCHANGED <<conf, ping, streak>>

\* A reply, on time or late; later copies find no entry in the hash.
ReceiveReply(r) ==
    /\ req[r].st # "none"
    /\ home' = Answered(home)
    /\ req' = [req EXCEPT ![r] = [st |-> "none", left |-> 0]]
    /\ UNCHANGED <<conf, ping, streak>>

\* received_retransmit of a request still waiting: the duplicate is sent on,
\* or, if the server is found dead, the request fails over to another one.
ReceiveRetransmit(r) ==
    /\ req[r].st = "waiting"
    /\ LET h == check_for_zombie_home_server(home)
       IN  IF h.state = "IS_DEAD"
           THEN /\ home' = NotCounted(h)
                /\ req' = [req EXCEPT ![r] = [st |-> "none", left |-> 0]]
           ELSE home' = h /\ UNCHANGED req
    /\ UNCHANGED <<conf, ping, streak>>

\* no_response_to_proxied_request: the request is finished (at once, or its Id
\* is kept a little longer); then an alive server that has been silent for a
\* quarter of zombie_period becomes a zombie and is pinged.
NoResponse(r, expired) ==
    /\ req[r].st = "waiting" /\ req[r].left = 0
    /\ req' = [req EXCEPT ![r].st = IF expired THEN "none" ELSE "late"]
    /\ LET checked == check_for_zombie_home_server(home)
           h == IF expired THEN NotCounted(checked) ELSE checked
       IN  IF h.state # "ALIVE" \/ h.last <= (ZombiePeriod + 3) \div 4
           THEN home' = h /\ ping' = ping
           ELSE PingHomeServer([h EXCEPT !.state = "ZOMBIE", !.zombie = h.last, !.ev = "none",
                                         !.outstanding = 0, !.pings = 0], home')
    /\ streak' = IF home.state = "ALIVE" /\ home'.state = "ZOMBIE" THEN 0 ELSE streak
    /\ UNCHANGED conf

\* wait_for_proxy_id_to_expire frees the request.
IdExpires(r) ==
    /\ req[r].st = "late"
    /\ home' = NotCounted(home)
    /\ req' = [req EXCEPT ![r].st = "none"]
    /\ UNCHANGED <<conf, ping, streak>>

\* The timer of the next status check.
PingTimer ==
    /\ home.ev = "ping_home_server" /\ home.when = 0
    /\ PingHomeServer([home EXCEPT !.ev = "none"], home')
    /\ UNCHANGED <<conf, req, streak>>

\* MUTANT: the answers are counted for a zombie only.
CountForZombiesOnly(h) == IF h.state = "ZOMBIE" THEN [h EXCEPT !.pings = @ + 1] ELSE h

\* received_response_to_ping
received_response_to_ping(h) ==
    LET n == h.pings + 1
    IN  IF h.state = "ALIVE" \/ n < NumPingsToAlive THEN [h EXCEPT !.pings = n]
        ELSE [BackToLife(h) EXCEPT !.pings = n]

\* Pings that a server on the way back answers beyond this count are not told apart.
Capped(h) == [h EXCEPT !.pings = IF @ > NumPingsToAlive THEN NumPingsToAlive ELSE @]

PingAnswered(p) ==
    /\ ping[p] # NoPing
    /\ home' = Capped(received_response_to_ping(NotCounted(home)))
    /\ ping' = [ping EXCEPT ![p] = NoPing]
    /\ streak' = IF streak < NumPingsToAlive THEN streak + 1 ELSE streak
    /\ UNCHANGED <<conf, req>>

\* MUTANT: the sequence goes on after a missed answer.
PingsNotInARow(h) == NotCounted(check_for_zombie_home_server(h))

\* no_response_to_ping: the sequence starts again, the zombie may be dead now,
\* and the status check is freed.
no_response_to_ping(h) == NotCounted(check_for_zombie_home_server([h EXCEPT !.pings = 0]))

PingUnanswered(p) ==
    /\ ping[p] = 0
    /\ conf.pingsGetLost
    /\ home' = no_response_to_ping(home)
    /\ ping' = [ping EXCEPT ![p] = NoPing]
    /\ streak' = 0
    /\ UNCHANGED <<conf, req>>

\* revive_home_server: "we have no idea if it really is alive or not".
ReviveTimer ==
    /\ home.ev = "revive_home_server" /\ home.when = 0
    /\ home' = BackToLife(home)
    /\ UNCHANGED <<conf, req, ping, streak>>

Aged(n, cap) == IF n < cap THEN n + 1 ELSE n

Tick ==
    /\ home' = [home EXCEPT !.when = Less(@), !.last = Aged(@, LastCap), !.zombie = Aged(@, LastCap)]
    /\ req' = [r \in Reqs |-> [req[r] EXCEPT !.left = Less(@)]]
    /\ ping' = [p \in Pings |-> IF ping[p] = NoPing THEN NoPing ELSE Less(ping[p])]
    /\ UNCHANGED <<conf, streak>>

Next ==
    \/ \E r \in Reqs : \E idFound \in BOOLEAN : ProxyRequest(r, idFound)
    \/ \E r \in Reqs : ReceiveReply(r) \/ ReceiveRetransmit(r) \/ IdExpires(r)
    \/ \E r \in Reqs : \E expired \in BOOLEAN : NoResponse(r, expired)
    \/ PingTimer
    \/ \E p \in Pings : PingAnswered(p) \/ PingUnanswered(p)
    \/ ReviveTimer
    \/ Tick

\* The event loop runs its timers; a status check in flight is settled: it is
\* answered, or times out.
Fairness ==
    /\ WF_vars(Tick) /\ WF_vars(PingTimer) /\ WF_vars(ReviveTimer)
    /\ \A p \in Pings : WF_vars(PingAnswered(p) \/ PingUnanswered(p))
    /\ \A r \in Reqs : WF_vars(\E expired \in BOOLEAN : NoResponse(r, expired))

Spec == Init /\ [][Next]_vars /\ Fairness

-----------------------------------------------------------------------------
\* A zombie or dead server with status checks has the next one scheduled, a
\* dead one without them its revival.
HasTimer ==
    /\ home.state # "ALIVE" /\ PingCheck => home.ev = "ping_home_server"
    /\ home.state = "IS_DEAD" /\ ~PingCheck => home.ev = "revive_home_server"

\* While there are Ids for the status checks, no order of replies, time-outs
\* and missed or answered status checks leaves a server out of service without
\* the timer that brings it back.  mark_home_server_dead() relies on it: "we
\* already started pinging when it was marked zombie".
OutOfServiceHasTimer == ~IdsRunOut => HasTimer

\* While there are Ids, currently_outstanding never counts a request or status
\* check that is no longer in flight: max_outstanding never blocks an idle
\* server.  (A failure to find an Id leaves the count one too high.)
OutstandingIsInFlight ==
    ~IdsRunOut => home.outstanding <= Cardinality(InFlight) + Cardinality(PingsInFlight)

\* proxy.conf, num_answers_to_alive, "the number of status checks in a row": a
\* status check brings the server back only when that many were answered since
\* the last one missed or the zombie period began.
AnswersInARow == home.pings <= streak

\* A dead server comes back: after revive_interval, or when it answers its
\* status checks and there are Ids for them.
DeadComesBack ==
    home.state = "IS_DEAD" /\ (PingCheck => ~conf.pingsGetLost /\ ~IdsRunOut) ~> home.state = "ALIVE"
=============================================================================
