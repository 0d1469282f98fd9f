-------------------------- MODULE HomeServerProofs --------------------------
(***************************************************************************)
(* For every number of requests and status checks, and every setting of    *)
(* the intervals: a home server that is out of service has the timer that  *)
(* brings it back, as long as proxy Ids do not run out.                    *)
(***************************************************************************)
EXTENDS HomeServer, FiniteSetTheorems, TLAPS

LEMMA LessIsNat == ASSUME NEW n \in Nat PROVE Less(n) \in Nat
  BY DEF Less

\* ping_home_server() keeps the types of the server and of the status checks.
LEMMA PingType ==
    ASSUME TypeOK, NEW h \in HomeRecord, NEW h2, PingHomeServer(h, h2)
    PROVE  h2 \in HomeRecord /\ ping' \in [Pings -> Int]
  <1>1. CASE h2 = h /\ ping' = ping
    BY <1>1 DEF TypeOK
  <1>2. ASSUME NEW p \in Pings, NEW jitter \in 0 .. MaxJitter,
               h2 = [h EXCEPT !.outstanding = @ + 1, !.ev = "ping_home_server",
                              !.when = PingInterval - 2 + jitter],
               ping' = [ping EXCEPT ![p] = PingTimeout]
        PROVE  h2 \in HomeRecord /\ ping' \in [Pings -> Int]
    <2>1. PingInterval - 2 + jitter \in Nat
      BY <1>2, HomeServerAssumption
    <2>2. h2 \in HomeRecord
      <3> DEFINE counted == [h EXCEPT !.outstanding = @ + 1]
                 armed == [counted EXCEPT !.ev = "ping_home_server"]
      <3>1. counted \in HomeRecord
        BY DEF HomeRecord
      <3>2. armed \in HomeRecord
        BY <3>1 DEF HomeRecord, Events
      <3>3. [armed EXCEPT !.when = PingInterval - 2 + jitter] \in HomeRecord
        BY <2>1, <3>2 DEF HomeRecord
      <3>4. h2 = [armed EXCEPT !.when = PingInterval - 2 + jitter]
        BY <1>2 DEF HomeRecord
      <3>5. QED
        BY <3>3, <3>4
    <2>3. ping' \in [Pings -> Int]
      BY <1>2, HomeServerAssumption DEF TypeOK
    <2>4. QED
      BY <2>2, <2>3
  <1>3. CASE h2 = [h EXCEPT !.outstanding = @ + 1] /\ ping' = ping
    BY <1>3 DEF TypeOK, HomeRecord
  <1>4. QED
    BY <1>1, <1>2, <1>3 DEF PingHomeServer

\* The helpers that turn a server into a server.
LEMMA HelperTypes ==
    ASSUME NEW h \in HomeRecord
    PROVE  /\ NotCounted(h) \in HomeRecord
           /\ Answered(h) \in HomeRecord
           /\ BackToLife(h) \in HomeRecord
           /\ check_for_zombie_home_server(h) \in HomeRecord
           /\ no_response_to_ping(h) \in HomeRecord
           /\ Capped(received_response_to_ping(h)) \in HomeRecord
           /\ received_response_to_ping(h) \in HomeRecord
  <1>1. \A g \in HomeRecord : NotCounted(g) \in HomeRecord
    BY LessIsNat DEF NotCounted, HomeRecord
  <1>2. Answered(h) \in HomeRecord
    BY <1>1 DEF Answered, HomeRecord, States
  <1>3. \A g \in HomeRecord : BackToLife(g) \in HomeRecord
    BY DEF BackToLife, HomeRecord, States, Events
  <1>4. \A g \in HomeRecord : check_for_zombie_home_server(g) \in HomeRecord
    BY HomeServerAssumption DEF check_for_zombie_home_server, mark_home_server_dead, HomeRecord, States, Events
  <1>5. no_response_to_ping(h) \in HomeRecord
    <2>1. [h EXCEPT !.pings = 0] \in HomeRecord
      BY DEF HomeRecord
    <2>2. QED
      BY <1>1, <1>4, <2>1 DEF no_response_to_ping
  <1>6. received_response_to_ping(h) \in HomeRecord
    BY <1>3 DEF received_response_to_ping, HomeRecord
  <1>7. Capped(received_response_to_ping(h)) \in HomeRecord
    BY <1>6, HomeServerAssumption DEF Capped, HomeRecord
  <1>8. QED
    BY <1>1, <1>2, <1>3, <1>4, <1>5, <1>6, <1>7

LEMMA AgedIsNat == ASSUME NEW n \in Nat, NEW cap \in Nat PROVE Aged(n, cap) \in Nat
  BY DEF Aged

\* The type invariant holds in every behaviour: a step of the event loop never
\* leaves the server, a request or a status check outside its type.
THEOREM TypeCorrect == Spec => []TypeOK
  <1>1. Init => TypeOK
    BY HomeServerAssumption DEF Init, TypeOK, HomeRecord, States, Events, NoPing
  <1>2. TypeOK /\ [Next]_vars => TypeOK'
    <2> SUFFICES ASSUME TypeOK, [Next]_vars PROVE TypeOK'
      OBVIOUS
    <2> home \in HomeRecord
      BY DEF TypeOK
    <2>1. ASSUME NEW r \in Reqs, NEW idFound \in BOOLEAN, ProxyRequest(r, idFound)
          PROVE  TypeOK'
      <3> DEFINE h == IF home.state = "IS_DEAD" THEN [home EXCEPT !.state = "ALIVE"] ELSE home
      <3>1. h \in HomeRecord
        BY DEF HomeRecord, States
      <3>2. home' \in HomeRecord
        <4>1. [h EXCEPT !.outstanding = @ + 1] \in HomeRecord
          BY <3>1 DEF HomeRecord
        <4>2. home' = [h EXCEPT !.outstanding = @ + 1]
          BY <2>1 DEF ProxyRequest
        <4>3. QED
          BY <4>1, <4>2
      <3>3. req' \in [Reqs -> [st: {"none", "waiting", "late"}, left: Nat]]
        BY <2>1, HomeServerAssumption DEF ProxyRequest, TypeOK
      <3>4. QED
        BY <2>1, <3>2, <3>3 DEF ProxyRequest, TypeOK
    <2>2. ASSUME NEW r \in Reqs, ReceiveReply(r) PROVE TypeOK'
      BY <2>2, HelperTypes DEF ReceiveReply, TypeOK
    <2>3. ASSUME NEW r \in Reqs, ReceiveRetransmit(r) PROVE TypeOK'
      <3>1. home' \in HomeRecord
        <4>1. check_for_zombie_home_server(home) \in HomeRecord
          BY HelperTypes
        <4>2. NotCounted(check_for_zombie_home_server(home)) \in HomeRecord
          BY <4>1, HelperTypes
        <4>3. QED
          BY <2>3, <4>1, <4>2 DEF ReceiveRetransmit
      <3>2. req' \in [Reqs -> [st: {"none", "waiting", "late"}, left: Nat]]
        BY <2>3 DEF ReceiveRetransmit, TypeOK
      <3>3. QED
        BY <2>3, <3>1, <3>2 DEF ReceiveRetransmit, TypeOK
    <2>4. ASSUME NEW r \in Reqs, IdExpires(r) PROVE TypeOK'
      BY <2>4, HelperTypes DEF IdExpires, TypeOK
    <2>5. ASSUME NEW r \in Reqs, NEW expired \in BOOLEAN, NoResponse(r, expired)
          PROVE  TypeOK'
      <3> DEFINE checked == check_for_zombie_home_server(home)
                 h == IF expired THEN NotCounted(checked) ELSE checked
                 z == [h EXCEPT !.state = "ZOMBIE", !.zombie = h.last, !.ev = "none",
                                !.outstanding = 0, !.pings = 0]
      <3>1. checked \in HomeRecord
        BY HelperTypes
      <3>2. h \in HomeRecord
        BY <3>1, HelperTypes
      <3>3. z \in HomeRecord
        BY <3>2 DEF HomeRecord, States, Events
      <3>4. \/ home' = h /\ ping' = ping
            \/ PingHomeServer(z, home')
        BY <2>5 DEF NoResponse
      <3>5. home' \in HomeRecord /\ ping' \in [Pings -> Int]
        <4>1. CASE home' = h /\ ping' = ping
          BY <3>2, <4>1 DEF TypeOK
        <4>2. CASE PingHomeServer(z, home')
          BY <3>3, <4>2, PingType
        <4>3. QED
          BY <3>4, <4>1, <4>2
      <3>6. req' \in [Reqs -> [st: {"none", "waiting", "late"}, left: Nat]]
        BY <2>5 DEF NoResponse, TypeOK
      <3>7. streak' \in Nat
        BY <2>5 DEF NoResponse, TypeOK
      <3>8. QED
        BY <2>5, <3>5, <3>6, <3>7 DEF NoResponse, TypeOK
    <2>6. CASE PingTimer
      <3>1. [home EXCEPT !.ev = "none"] \in HomeRecord
        BY DEF HomeRecord, Events
      <3>2. home' \in HomeRecord /\ ping' \in [Pings -> Int]
        BY <2>6, <3>1, PingType DEF PingTimer
      <3>3. QED
        BY <2>6, <3>2 DEF PingTimer, TypeOK
    <2>7. ASSUME NEW p \in Pings, PingAnswered(p) PROVE TypeOK'
      <3>1. NotCounted(home) \in HomeRecord
        BY HelperTypes
      <3>2. home' \in HomeRecord
        BY <2>7, <3>1, HelperTypes DEF PingAnswered
      <3>3. streak' \in Nat
        BY <2>7 DEF PingAnswered, TypeOK
      <3>4. QED
        BY <2>7, <3>2, <3>3 DEF PingAnswered, TypeOK, NoPing
    <2>8. ASSUME NEW p \in Pings, PingUnanswered(p) PROVE TypeOK'
      BY <2>8, HelperTypes DEF PingUnanswered, TypeOK, NoPing
    <2>9. CASE ReviveTimer
      BY <2>9, HelperTypes DEF ReviveTimer, TypeOK
    <2>10. CASE Tick
      <3>1. home' \in HomeRecord
        <4>1. home.when \in Nat /\ home.last \in Nat /\ home.zombie \in Nat /\ LastCap \in Nat
          BY HomeServerAssumption DEF HomeRecord, LastCap
        <4>2. /\ Less(home.when) \in Nat
              /\ Aged(home.last, LastCap) \in Nat
              /\ Aged(home.zombie, LastCap) \in Nat
          BY <4>1, LessIsNat, AgedIsNat
        <4>3. QED
          BY <2>10, <4>2 DEF Tick, HomeRecord
      <3>2. req' \in [Reqs -> [st: {"none", "waiting", "late"}, left: Nat]]
        BY <2>10, LessIsNat DEF Tick, TypeOK
      <3>3. ping' \in [Pings -> Int]
        BY <2>10 DEF Tick, TypeOK, Less, NoPing
      <3>4. QED
        BY <2>10, <3>1, <3>2, <3>3 DEF Tick, TypeOK
    <2>11. CASE UNCHANGED vars
      BY <2>11 DEF vars, TypeOK
    <2>12. QED
      BY <2>1, <2>2, <2>3, <2>4, <2>5, <2>6, <2>7, <2>8, <2>9, <2>10, <2>11 DEF Next
  <1>3. QED
    BY <1>1, <1>2, PTL DEF Spec

-----------------------------------------------------------------------------
\* No step changes the configuration.
LEMMA ConfUnchanged == ASSUME [Next]_vars PROVE conf' = conf
  BY DEF Next, vars, ProxyRequest, ReceiveReply, ReceiveRetransmit, IdExpires, NoResponse,
         PingTimer, PingAnswered, PingUnanswered, ReviveTimer, Tick

\* What the helpers do to the fields the invariants read.
LEMMA ZombieCheck ==
    ASSUME NEW h \in HomeRecord
    PROVE  LET c == check_for_zombie_home_server(h)
           IN  /\ c.outstanding = h.outstanding
               /\ c.last = h.last
               /\ c.pings \in {h.pings, 0}
               /\ \/ c.state = h.state /\ c.ev = h.ev
                  \/ /\ h.state = "ZOMBIE" /\ c.state = "IS_DEAD"
                     /\ c.ev = IF PingCheck THEN h.ev ELSE "revive_home_server"
  BY DEF check_for_zombie_home_server, mark_home_server_dead, HomeRecord

LEMMA NotCountedFields ==
    ASSUME NEW h \in HomeRecord
    PROVE  LET c == NotCounted(h)
           IN  /\ c.outstanding = Less(h.outstanding)
               /\ c.pings = h.pings /\ c.state = h.state /\ c.ev = h.ev /\ c.last = h.last
  BY DEF NotCounted, HomeRecord

\* A home server out of service always has its timer.
Timer(h) ==
    /\ h.state # "ALIVE" /\ PingCheck => h.ev = "ping_home_server"
    /\ h.state = "IS_DEAD" /\ ~PingCheck => h.ev = "revive_home_server"

LEMMA TimerKept ==
    ASSUME NEW h \in HomeRecord, Timer(h)
    PROVE  /\ Timer(check_for_zombie_home_server(h))
           /\ Timer(NotCounted(h))
           /\ Timer(Answered(h))
           /\ Timer(BackToLife(h))
           /\ Timer(Capped(received_response_to_ping(h)))
           /\ Timer(no_response_to_ping(h))
  <1>1. \A g \in HomeRecord : Timer(g) => Timer(check_for_zombie_home_server(g))
    BY ZombieCheck DEF Timer
  <1>2. \A g \in HomeRecord : Timer(g) => Timer(NotCounted(g))
    BY NotCountedFields DEF Timer
  <1>3. Timer(Answered(h))
    BY HelperTypes DEF Timer, Answered, HomeRecord
  <1>4. Timer(BackToLife(h))
    BY DEF Timer, BackToLife, HomeRecord
  <1>5. Timer(received_response_to_ping(h))
    BY DEF Timer, received_response_to_ping, BackToLife, HomeRecord
  <1>6. Timer(Capped(received_response_to_ping(h)))
    BY <1>5, HelperTypes DEF Timer, Capped, HomeRecord
  <1>7. Timer(no_response_to_ping(h))
    <2>1. [h EXCEPT !.pings = 0] \in HomeRecord /\ Timer([h EXCEPT !.pings = 0])
      BY DEF HomeRecord, Timer
    <2>2. QED
      BY <1>1, <1>2, <2>1, HelperTypes DEF no_response_to_ping
  <1>8. QED
    BY <1>1, <1>2, <1>3, <1>4, <1>6, <1>7

\* Unless Ids run out, ping_home_server() leaves a server that is out of
\* service and has status checks with the timer of the next one.
LEMMA PingTimerSet ==
    ASSUME ~IdsRunOut, NEW h \in HomeRecord, h.ev = "none",
           h.state = "IS_DEAD" => PingCheck,
           NEW h2, PingHomeServer(h, h2)
    PROVE  Timer(h2)
  <1>1. CASE h.state = "ALIVE" \/ ~PingCheck
    BY <1>1 DEF PingHomeServer, Timer
  <1>2. CASE ~(h.state = "ALIVE" \/ ~PingCheck)
    <2>1. PICK p \in Pings \ PingsInFlight, jitter \in 0 .. MaxJitter :
            h2 = [h EXCEPT !.outstanding = @ + 1, !.ev = "ping_home_server",
                           !.when = PingInterval - 2 + jitter]
      BY <1>2 DEF PingHomeServer
    <2>2. h2.ev = "ping_home_server"
      BY <2>1 DEF HomeRecord
    <2>3. QED
      BY <1>2, <2>2 DEF Timer
  <1>3. QED
    BY <1>1, <1>2

\* "It will continue sending status checks until the home server is marked
\* 'alive'" (proxy.conf), in any configuration and for any number of requests and status checks and any
\* intervals: while Ids do not run out, no order of replies, time-outs,
\* retransmissions and answered or lost status checks leaves a zombie or dead
\* server without the event of ping_home_server() or revive_home_server().
THEOREM TimerTheorem == Spec => []OutOfServiceHasTimer
  <1>1. Init => OutOfServiceHasTimer
    BY DEF Init, OutOfServiceHasTimer, HasTimer
  <1>2. TypeOK /\ OutOfServiceHasTimer /\ [Next]_vars => OutOfServiceHasTimer'
    <2> SUFFICES ASSUME TypeOK, ~IdsRunOut, Timer(home), [Next]_vars PROVE Timer(home')
      BY ConfUnchanged DEF OutOfServiceHasTimer, HasTimer, Timer, PingCheck, IdsRunOut
    <2> home \in HomeRecord
      BY DEF TypeOK
    <2>1. ASSUME NEW r \in Reqs, NEW idFound \in BOOLEAN, ProxyRequest(r, idFound)
          PROVE  Timer(home')
      BY <2>1 DEF ProxyRequest, Timer, HomeRecord
    <2>2. ASSUME NEW r \in Reqs, ReceiveReply(r) \/ ReceiveRetransmit(r) \/ IdExpires(r)
          PROVE  Timer(home')
      <3>1. \/ home' = Answered(home)
            \/ home' = NotCounted(home)
            \/ home' = check_for_zombie_home_server(home)
            \/ home' = NotCounted(check_for_zombie_home_server(home))
        BY <2>2 DEF ReceiveReply, ReceiveRetransmit, IdExpires
      <3>2. QED
        BY <3>1, TimerKept, HelperTypes
    <2>3. ASSUME NEW r \in Reqs, NEW expired \in BOOLEAN, NoResponse(r, expired)
          PROVE  Timer(home')
      <3> DEFINE checked == check_for_zombie_home_server(home)
                 h == IF expired THEN NotCounted(checked) ELSE checked
                 z == [h EXCEPT !.state = "ZOMBIE", !.zombie = h.last, !.ev = "none",
                                !.outstanding = 0, !.pings = 0]
      <3>1. h \in HomeRecord /\ Timer(h)
        BY HelperTypes, TimerKept
      <3>2. z \in HomeRecord /\ z.ev = "none" /\ z.state = "ZOMBIE"
        BY <3>1 DEF HomeRecord, States, Events
      <3>3. home' = h \/ PingHomeServer(z, home')
        BY <2>3 DEF NoResponse
      <3>4. ASSUME PingHomeServer(z, home') PROVE Timer(home')
        BY <3>2, <3>4, PingTimerSet
      <3>5. QED
        BY <3>1, <3>3, <3>4
    <2>4. CASE PingTimer
      <3> DEFINE h == [home EXCEPT !.ev = "none"]
      <3>1. h \in HomeRecord /\ h.ev = "none" /\ h.state = home.state
        BY DEF HomeRecord, Events
      <3>2. home.state = "IS_DEAD" => PingCheck
        BY <2>4 DEF PingTimer, Timer
      <3>3. PingHomeServer(h, home')
        BY <2>4 DEF PingTimer
      <3>4. QED
        BY <3>1, <3>2, <3>3, PingTimerSet
    <2>5. ASSUME NEW p \in Pings, PingAnswered(p) \/ PingUnanswered(p) PROVE Timer(home')
      <3>1. NotCounted(home) \in HomeRecord /\ Timer(NotCounted(home))
        BY HelperTypes, TimerKept
      <3>2. \/ home' = Capped(received_response_to_ping(NotCounted(home)))
            \/ home' = no_response_to_ping(home)
        BY <2>5 DEF PingAnswered, PingUnanswered
      <3>3. QED
        BY <3>1, <3>2, TimerKept
    <2>6. CASE ReviveTimer
      BY <2>6, TimerKept DEF ReviveTimer
    <2>7. CASE Tick
      BY <2>7 DEF Tick, Timer, HomeRecord
    <2>8. CASE UNCHANGED vars
      BY <2>8 DEF vars, Timer
    <2>9. QED
      BY <2>1, <2>2, <2>3, <2>4, <2>5, <2>6, <2>7, <2>8 DEF Next
  <1>3. QED
    BY <1>1, <1>2, TypeCorrect, PTL DEF Spec

-----------------------------------------------------------------------------
\* The bound of currently_outstanding.
Bound == Cardinality(InFlight) + Cardinality(PingsInFlight)

LEMMA InFlightFinite ==
    /\ IsFiniteSet(InFlight) /\ Cardinality(InFlight) \in Nat
    /\ IsFiniteSet(PingsInFlight) /\ Cardinality(PingsInFlight) \in Nat
  <1>1. IsFiniteSet(InFlight)
    BY FS_Subset, HomeServerAssumption DEF InFlight
  <1>2. IsFiniteSet(PingsInFlight)
    BY FS_Subset, HomeServerAssumption DEF PingsInFlight
  <1>3. QED
    BY <1>1, <1>2, FS_CardinalityType

\* One request, or one status check, leaves: the bound is one less.
LEMMA RequestLeaves ==
    ASSUME NEW r \in InFlight, InFlight' = InFlight \ {r}, PingsInFlight' = PingsInFlight
    PROVE  Bound \in Nat /\ Bound' = Bound - 1
  <1>1. Cardinality(InFlight \ {r}) = Cardinality(InFlight) - 1
    BY InFlightFinite, FS_RemoveElement, Zenon
  <1>2. Cardinality(InFlight') = Cardinality(InFlight) - 1
    BY <1>1
  <1>3. QED
    BY <1>2, InFlightFinite DEF Bound

LEMMA PingLeaves ==
    ASSUME NEW p \in PingsInFlight, PingsInFlight' = PingsInFlight \ {p}, InFlight' = InFlight
    PROVE  Bound \in Nat /\ Bound' = Bound - 1
  <1>1. Cardinality(PingsInFlight \ {p}) = Cardinality(PingsInFlight) - 1
    BY InFlightFinite, FS_RemoveElement, Zenon
  <1>2. Cardinality(PingsInFlight') = Cardinality(PingsInFlight) - 1
    BY <1>1
  <1>3. QED
    BY <1>2, InFlightFinite DEF Bound

\* ping_home_server() of a server whose count is 0 or untouched adds one to
\* the count and one status check, or neither.
LEMMA PingBound ==
    ASSUME ~IdsRunOut, TypeOK, NEW h \in HomeRecord, NEW h2, PingHomeServer(h, h2)
    PROVE  \/ h2 = h /\ PingsInFlight' = PingsInFlight
           \/ /\ h2.outstanding = h.outstanding + 1
              /\ Cardinality(PingsInFlight') = Cardinality(PingsInFlight) + 1
  <1>1. CASE h2 = h /\ ping' = ping
    BY <1>1 DEF PingsInFlight
  <1>2. ASSUME NEW p \in Pings \ PingsInFlight, NEW jitter \in 0 .. MaxJitter,
               h2 = [h EXCEPT !.outstanding = @ + 1, !.ev = "ping_home_server",
                              !.when = PingInterval - 2 + jitter],
               ping' = [ping EXCEPT ![p] = PingTimeout]
        PROVE  /\ h2.outstanding = h.outstanding + 1
               /\ Cardinality(PingsInFlight') = Cardinality(PingsInFlight) + 1
    <2>1. h2.outstanding = h.outstanding + 1
      BY <1>2 DEF HomeRecord
    <2>2. PingsInFlight' = PingsInFlight \cup {p}
      BY <1>2, HomeServerAssumption DEF PingsInFlight, TypeOK, NoPing
    <2>3. QED
      BY <2>1, <2>2, InFlightFinite, FS_AddElement
  <1>3. QED
    BY <1>1, <1>2 DEF PingHomeServer

\* currently_outstanding never counts more than what is in flight, for any
\* number of requests and status checks: max_outstanding never keeps an idle
\* server out of use.  (Each failure to find an Id would add one: hence the
\* assumption.)
THEOREM OutstandingTheorem == Spec => []OutstandingIsInFlight
  <1>1. Init => OutstandingIsInFlight
    BY InFlightFinite DEF Init, OutstandingIsInFlight
  <1>2. TypeOK /\ OutstandingIsInFlight /\ [Next]_vars => OutstandingIsInFlight'
    <2> SUFFICES ASSUME TypeOK, ~IdsRunOut, home.outstanding <= Bound, [Next]_vars
                 PROVE  home'.outstanding <= Bound'
      BY ConfUnchanged DEF OutstandingIsInFlight, Bound, IdsRunOut
    <2> home \in HomeRecord /\ home.outstanding \in Nat
      BY DEF TypeOK, HomeRecord
    <2> Bound \in Nat
      BY InFlightFinite DEF Bound
    <2>b. Bound' \in Nat
      <3>1. IsFiniteSet(InFlight') /\ IsFiniteSet(PingsInFlight')
        BY FS_Subset, HomeServerAssumption DEF InFlight, PingsInFlight
      <3>2. QED
        BY <3>1, FS_CardinalityType DEF Bound
    <2>1. ASSUME NEW r \in Reqs, NEW idFound \in BOOLEAN, ProxyRequest(r, idFound)
          PROVE  home'.outstanding <= Bound'
      <3>1. home'.outstanding = home.outstanding + 1
        BY <2>1 DEF ProxyRequest, HomeRecord
      <3>2. InFlight' = InFlight \cup {r} /\ r \notin InFlight /\ PingsInFlight' = PingsInFlight
        BY <2>1 DEF ProxyRequest, InFlight, PingsInFlight, TypeOK
      <3>3. Bound' = Bound + 1
        <4>1. Cardinality(InFlight') = Cardinality(InFlight) + 1
          BY <3>2, InFlightFinite, FS_AddElement
        <4>2. QED
          BY <3>2, <4>1, InFlightFinite DEF Bound
      <3>4. QED
        BY <3>1, <3>3
    <2>2. ASSUME NEW r \in Reqs, r \in InFlight, InFlight' = InFlight \ {r}, ping' = ping,
                 home'.outstanding = Less(home.outstanding)
          PROVE  home'.outstanding <= Bound'
      <3>1. Bound' = Bound - 1
        BY <2>2, RequestLeaves DEF PingsInFlight
      <3>2. QED
        BY <2>b, <2>2, <3>1 DEF Less
    <2>3. ASSUME NEW r \in Reqs, ReceiveReply(r) PROVE home'.outstanding <= Bound'
      <3>1. home'.outstanding = Less(home.outstanding)
        BY <2>3, NotCountedFields, HelperTypes DEF ReceiveReply, Answered, HomeRecord
      <3>2. r \in InFlight /\ InFlight' = InFlight \ {r} /\ ping' = ping
        BY <2>3 DEF ReceiveReply, InFlight, TypeOK
      <3>3. QED
        BY <2>2, <3>1, <3>2
    <2>4. ASSUME NEW r \in Reqs, ReceiveRetransmit(r) PROVE home'.outstanding <= Bound'
      <3> DEFINE h == check_for_zombie_home_server(home)
      <3>1. h \in HomeRecord /\ h.outstanding = home.outstanding
        BY HelperTypes, ZombieCheck
      <3>2. CASE h.state = "IS_DEAD"
        <4>1. home'.outstanding = Less(home.outstanding)
          BY <2>4, <3>1, <3>2, NotCountedFields DEF ReceiveRetransmit
        <4>2. r \in InFlight /\ InFlight' = InFlight \ {r} /\ ping' = ping
          BY <2>4, <3>2 DEF ReceiveRetransmit, InFlight, TypeOK
        <4>3. QED
          BY <2>2, <4>1, <4>2
      <3>3. CASE h.state # "IS_DEAD"
        BY <2>4, <3>1, <3>3 DEF ReceiveRetransmit, Bound, InFlight, PingsInFlight
      <3>4. QED
        BY <3>2, <3>3
    <2>5. ASSUME NEW r \in Reqs, IdExpires(r) PROVE home'.outstanding <= Bound'
      <3>1. home'.outstanding = Less(home.outstanding)
        BY <2>5, NotCountedFields DEF IdExpires
      <3>2. r \in InFlight /\ InFlight' = InFlight \ {r} /\ ping' = ping
        BY <2>5 DEF IdExpires, InFlight, TypeOK
      <3>3. QED
        BY <2>2, <3>1, <3>2
    <2>6. ASSUME NEW r \in Reqs, NEW expired \in BOOLEAN, NoResponse(r, expired)
          PROVE  home'.outstanding <= Bound'
      <3> DEFINE checked == check_for_zombie_home_server(home)
                 h == IF expired THEN NotCounted(checked) ELSE checked
                 z == [h EXCEPT !.state = "ZOMBIE", !.zombie = h.last, !.ev = "none",
                                !.outstanding = 0, !.pings = 0]
      <3>1. /\ h \in HomeRecord
            /\ h.outstanding = IF expired THEN Less(home.outstanding) ELSE home.outstanding
        <4>1. checked \in HomeRecord /\ checked.outstanding = home.outstanding
          BY HelperTypes, ZombieCheck
        <4>2. /\ NotCounted(checked) \in HomeRecord
              /\ NotCounted(checked).outstanding = Less(checked.outstanding)
          BY <4>1, HelperTypes, NotCountedFields
        <4>3. QED
          BY <4>1, <4>2
      <3>2. z \in HomeRecord /\ z.outstanding = 0
        BY <3>1 DEF HomeRecord, States, Events
      <3>3. r \in InFlight /\ InFlight' = IF expired THEN InFlight \ {r} ELSE InFlight
        BY <2>6 DEF NoResponse, InFlight, TypeOK
      <3>4. CASE home' = h /\ ping' = ping
        <4>1. CASE expired
          BY <2>2, <3>1, <3>3, <3>4, <4>1
        <4>2. CASE ~expired
          BY <3>1, <3>3, <3>4, <4>2 DEF Bound, PingsInFlight
        <4>3. QED
          BY <4>1, <4>2
      <3>5. CASE PingHomeServer(z, home')
        <4>1. CASE home' = z /\ PingsInFlight' = PingsInFlight
          BY <2>b, <3>2, <4>1
        <4>2. CASE /\ home'.outstanding = z.outstanding + 1
                   /\ Cardinality(PingsInFlight') = Cardinality(PingsInFlight) + 1
          <5>1. Cardinality(InFlight') \in Nat
            <6>1. IsFiniteSet(InFlight')
              BY FS_Subset, HomeServerAssumption DEF InFlight
            <6>2. QED
              BY <6>1, FS_CardinalityType
          <5>2. QED
            BY <3>2, <4>2, <5>1, InFlightFinite DEF Bound
        <4>3. QED
          BY <3>2, <3>5, <4>1, <4>2, PingBound
      <3>6. QED
        BY <2>6, <3>4, <3>5 DEF NoResponse
    <2>7. CASE PingTimer
      <3> DEFINE h == [home EXCEPT !.ev = "none"]
      <3>1. h \in HomeRecord /\ h.outstanding = home.outstanding
        BY DEF HomeRecord, Events
      <3>2. PingHomeServer(h, home') /\ InFlight' = InFlight
        BY <2>7 DEF PingTimer, InFlight
      <3>3. QED
        <4>1. \/ home' = h /\ PingsInFlight' = PingsInFlight
              \/ /\ home'.outstanding = h.outstanding + 1
                 /\ Cardinality(PingsInFlight') = Cardinality(PingsInFlight) + 1
          BY <3>1, <3>2, PingBound
        <4>2. CASE home' = h /\ PingsInFlight' = PingsInFlight
          BY <3>1, <3>2, <4>2 DEF Bound
        <4>3. CASE /\ home'.outstanding = h.outstanding + 1
                   /\ Cardinality(PingsInFlight') = Cardinality(PingsInFlight) + 1
          <5> HIDE DEF h
          <5>1. QED
            BY <3>1, <3>2, <4>3, InFlightFinite DEF Bound
        <4>4. QED
          BY <4>1, <4>2, <4>3
    <2>8. ASSUME NEW p \in Pings, PingAnswered(p) \/ PingUnanswered(p)
          PROVE  home'.outstanding <= Bound'
      <3>1. p \in PingsInFlight /\ PingsInFlight' = PingsInFlight \ {p} /\ InFlight' = InFlight
        BY <2>8 DEF PingAnswered, PingUnanswered, PingsInFlight, InFlight, TypeOK, NoPing
      <3>2. Bound' = Bound - 1
        BY <3>1, PingLeaves
      <3>3. home'.outstanding \in {0, Less(home.outstanding)}
        <4>1. NotCounted(home) \in HomeRecord /\ NotCounted(home).outstanding = Less(home.outstanding)
          BY HelperTypes, NotCountedFields
        <4>2. CASE PingAnswered(p)
          <5> DEFINE g == received_response_to_ping(NotCounted(home))
          <5>1. g \in HomeRecord /\ g.outstanding \in {0, Less(home.outstanding)}
            BY <4>1, HelperTypes DEF received_response_to_ping, BackToLife, HomeRecord
          <5>2. QED
            BY <4>2, <5>1 DEF PingAnswered, Capped, HomeRecord
        <4>3. CASE PingUnanswered(p)
          <5> DEFINE g == [home EXCEPT !.pings = 0]
          <5>1. g \in HomeRecord /\ g.outstanding = home.outstanding
            BY DEF HomeRecord
          <5>2. QED
            <6> DEFINE c == check_for_zombie_home_server(g)
            <6>1. c \in HomeRecord /\ c.outstanding = home.outstanding
              BY <5>1, HelperTypes, ZombieCheck
            <6>2. NotCounted(c).outstanding = Less(c.outstanding)
              BY <6>1, NotCountedFields
            <6>3. home' = NotCounted(c)
              BY <4>3 DEF PingUnanswered, no_response_to_ping
            <6>4. QED
              BY <6>1, <6>2, <6>3
        <4>4. QED
          BY <2>8, <4>2, <4>3
      <3>4. QED
        BY <2>b, <3>2, <3>3 DEF Less
    <2>9. CASE ReviveTimer
      BY <2>b, <2>9 DEF ReviveTimer, BackToLife, HomeRecord
    <2>10. CASE Tick
      <3>1. home'.outstanding = home.outstanding
        BY <2>10 DEF Tick, HomeRecord
      <3>2. InFlight' = InFlight
        BY <2>10 DEF Tick, InFlight, TypeOK
      <3>3. PingsInFlight' = PingsInFlight
        BY <2>10 DEF Tick, PingsInFlight, TypeOK, Less, NoPing
      <3>4. QED
        BY <3>1, <3>2, <3>3 DEF Bound
    <2>11. CASE UNCHANGED vars
      BY <2>11 DEF vars, Bound, InFlight, PingsInFlight
    <2>12. QED
      BY <2>1, <2>3, <2>4, <2>5, <2>6, <2>7, <2>8, <2>9, <2>10, <2>11 DEF Next
  <1>3. QED
    BY <1>1, <1>2, TypeCorrect, PTL DEF Spec

-----------------------------------------------------------------------------
\* proxy.conf, num_answers_to_alive: however replies, status checks and their
\* time-outs interleave, num_received_pings never counts an answer from before
\* the last status check that was missed or before the zombie period began.
THEOREM AnswersTheorem == Spec => []AnswersInARow
  <1>1. Init => AnswersInARow
    BY DEF Init, AnswersInARow
  <1>2. TypeOK /\ AnswersInARow /\ [Next]_vars => AnswersInARow'
    <2> SUFFICES ASSUME TypeOK, home.pings <= streak, [Next]_vars
                 PROVE  home'.pings <= streak'
      BY DEF AnswersInARow
    <2> home \in HomeRecord /\ home.pings \in Nat /\ streak \in Nat
      BY DEF TypeOK, HomeRecord
    <2>1. ASSUME home'.pings \in {home.pings, 0}, streak' = streak
          PROVE  home'.pings <= streak'
      BY <2>1
    <2>2. ASSUME NEW r \in Reqs, NEW idFound \in BOOLEAN, ProxyRequest(r, idFound)
          PROVE  home'.pings <= streak'
      BY <2>2 DEF ProxyRequest, HomeRecord
    <2>3. ASSUME NEW r \in Reqs, ReceiveReply(r) PROVE home'.pings <= streak'
      BY <2>3, NotCountedFields, HelperTypes DEF ReceiveReply, Answered, HomeRecord
    <2>4. ASSUME NEW r \in Reqs, ReceiveRetransmit(r) PROVE home'.pings <= streak'
      <3> DEFINE c == check_for_zombie_home_server(home)
      <3>1. c \in HomeRecord /\ c.pings \in {home.pings, 0}
        BY HelperTypes, ZombieCheck
      <3>2. NotCounted(c).pings = c.pings
        BY <3>1, NotCountedFields
      <3>3. home' \in {c, NotCounted(c)} /\ streak' = streak
        BY <2>4 DEF ReceiveRetransmit
      <3>4. QED
        BY <2>1, <3>1, <3>2, <3>3
    <2>5. ASSUME NEW r \in Reqs, IdExpires(r) PROVE home'.pings <= streak'
      BY <2>5, NotCountedFields DEF IdExpires
    <2>6. ASSUME NEW r \in Reqs, NEW expired \in BOOLEAN, NoResponse(r, expired)
          PROVE  home'.pings <= streak'
      <3> DEFINE checked == check_for_zombie_home_server(home)
                 h == IF expired THEN NotCounted(checked) ELSE checked
                 z == [h EXCEPT !.state = "ZOMBIE", !.zombie = h.last, !.ev = "none",
                                !.outstanding = 0, !.pings = 0]
      <3>1. checked \in HomeRecord /\ checked.pings \in {home.pings, 0}
        BY HelperTypes, ZombieCheck
      <3>2. h \in HomeRecord /\ h.pings = checked.pings
        BY <3>1, HelperTypes, NotCountedFields
      <3>3. z \in HomeRecord /\ z.pings = 0
        BY <3>2 DEF HomeRecord, States, Events
      <3>4. streak' \in {0, streak}
        BY <2>6 DEF NoResponse
      <3>5. CASE home' = h /\ ~(home.state = "ALIVE" /\ home'.state = "ZOMBIE")
        <4>1. streak' = streak
          BY <2>6, <3>5 DEF NoResponse
        <4>2. QED
          BY <2>1, <3>1, <3>2, <3>5, <4>1
      <3>6. ~(home' = h /\ home.state = "ALIVE" /\ home'.state = "ZOMBIE")
        <4>1. checked.state = "ZOMBIE" => home.state = "ZOMBIE"
          BY ZombieCheck
        <4>2. h.state = checked.state
          BY <3>1, NotCountedFields
        <4>3. QED
          BY <4>1, <4>2
      <3>7. CASE PingHomeServer(z, home')
        <4>1. home'.pings = 0
          <5> HIDE DEF z
          <5>1. QED
            BY <3>3, <3>7 DEF PingHomeServer, HomeRecord
        <4>2. QED
          BY <3>4, <4>1
      <3>8. QED
        BY <2>6, <3>5, <3>6, <3>7 DEF NoResponse
    <2>7. CASE PingTimer
      <3> DEFINE h == [home EXCEPT !.ev = "none"]
      <3>1. h \in HomeRecord /\ h.pings = home.pings
        BY DEF HomeRecord, Events
      <3>2. PingHomeServer(h, home') /\ streak' = streak
        BY <2>7 DEF PingTimer
      <3>3. home'.pings = h.pings
        <4> HIDE DEF h
        <4>1. QED
          BY <3>1, <3>2 DEF PingHomeServer, HomeRecord
      <3>4. QED
        BY <3>1, <3>2, <3>3
    <2>8. ASSUME NEW p \in Pings, PingAnswered(p) PROVE home'.pings <= streak'
      <3> DEFINE g == NotCounted(home)
                 a == received_response_to_ping(g)
      <3>1. g \in HomeRecord /\ g.pings = home.pings
        BY HelperTypes, NotCountedFields
      <3>2. a \in HomeRecord
        BY <3>1, HelperTypes
      <3>3. a.pings = home.pings + 1
        BY <3>1 DEF received_response_to_ping, BackToLife, HomeRecord
      <3>4. home'.pings = IF a.pings > NumPingsToAlive THEN NumPingsToAlive ELSE a.pings
        BY <2>8, <3>2 DEF PingAnswered, Capped, HomeRecord
      <3>5. streak' = IF streak < NumPingsToAlive THEN streak + 1 ELSE streak
        BY <2>8 DEF PingAnswered
      <3>6. QED
        BY <3>3, <3>4, <3>5, HomeServerAssumption
    <2>9. ASSUME NEW p \in Pings, PingUnanswered(p) PROVE home'.pings <= streak'
      <3> DEFINE g == [home EXCEPT !.pings = 0]
                 c == check_for_zombie_home_server(g)
      <3>1. g \in HomeRecord /\ g.pings = 0
        BY DEF HomeRecord
      <3>2. c \in HomeRecord /\ c.pings = 0
        BY <3>1, HelperTypes, ZombieCheck
      <3>3. NotCounted(c).pings = 0
        BY <3>2, NotCountedFields
      <3>4. home' = NotCounted(c) /\ streak' = 0
        BY <2>9 DEF PingUnanswered, no_response_to_ping
      <3>5. QED
        BY <3>3, <3>4
    <2>10. CASE ReviveTimer
      BY <2>10 DEF ReviveTimer, BackToLife, HomeRecord
    <2>11. CASE Tick
      BY <2>11 DEF Tick, HomeRecord
    <2>12. CASE UNCHANGED vars
      BY <2>12 DEF vars
    <2>13. QED
      BY <2>2, <2>3, <2>4, <2>5, <2>6, <2>7, <2>8, <2>9, <2>10, <2>11, <2>12 DEF Next
  <1>3. QED
    BY <1>1, <1>2, TypeCorrect, PTL DEF Spec
=============================================================================
