--------------------------- MODULE RequestProofs ----------------------------
(***************************************************************************)
(* The handlers of event.cpp agree with each other, for every number of    *)
(* requests, keys and home servers and for all delays.                     *)
(***************************************************************************)
EXTENDS Request, FiniteSetTheorems, TLAPS

NoResponse == "no_response_to_proxied_request"
Delays == conf.haveChildren \/ ~conf.postProxyFail

\* What holds of a REQUEST also in the middle of a handler: the Id is held
\* while answers are missing, nothing but the reply was sent, a delayed reject
\* is due when the request is reject_delay old, and a CoA request is not
\* finished twice.
Core(r) ==
    /\ r \in RequestRecord
    /\ r.inProxy => r.answers < r.sends
    /\ r.sent \subseteq {r.reply} \ {"none"}
    /\ Delays => ~r.early
    /\ r.ev = "reject_delay" => r.reply = "reject" /\ r.age + r.when >= RejectDelay
    /\ r.nextCb = "reject_delay" =>
         r.reply = "reject" /\ r.nextWhen # NeverSet /\ r.age + r.nextWhen >= RejectDelay
    /\ r.code = "coa" /\ (r.ev = NoResponse \/ r.nextCb = NoResponse) => r.nextWhen <= ResponseWindow

\* A request that waits for its home server.
Waits(r) ==
    r.child = "PROXIED" =>
        /\ r.reply = "none" /\ ~r.proxyReply
        /\ r.home \in RealHomes
        /\ r.code = "coa" => r.nextWhen <= ResponseWindow
        /\ ~conf.badReplies => r.inProxy

\* A reject that a duplicate would get is old enough.
Ripe(r) ==
    /\ Delays /\ r.child \in {"CLEANUP_DELAY", "DONE"} /\ r.inHash
    /\ r.code = "auth" /\ r.reply = "reject"
    => r.age >= RejectDelay

\* Between two handlers.
Calm(r) ==
    /\ Core(r)
    /\ r.child \notin {"QUEUED", "RUNNING"}
    /\ r.child = "FREE" => ~r.inHash /\ ~r.inProxy
    /\ Waits(r)
    /\ Ripe(r)

\* An Access-Request that was answered, or that a duplicate would get the
\* answer of, is cleaned up when its reply was kept for cleanup_delay, less what
\* a delayed reject was late: w is the time left until then.
Due(r, w) ==
    /\ r.code = "auth" /\ r.inHash
    /\ r.sent # {} \/ (r.reply # "none" /\ r.child \in {"CLEANUP_DELAY", "DONE"})
    => /\ r.sent # {} /\ r.child = "CLEANUP_DELAY"
       /\ r.cached + r.late >= CleanupDelay \/ w + r.cached + r.late >= CleanupDelay

\* The callback that wait_a_bit() is to set next is the one the state needs,
NextRight(r) ==
    /\ r.child = "PROXIED" => r.nextCb = NoResponse
    /\ r.child = "REJECT_DELAY" => r.nextCb = "reject_delay"
    /\ r.child = "CLEANUP_DELAY" => r.nextCb = "cleanup_delay"
    /\ Due(r, r.nextWhen)

\* or that callback is set already.
Timed(r) ==
    \/ r.child = "FREE"
    \/ r.ev = "wait_a_bit" /\ NextRight(r)
    \/ /\ \/ r.child = "PROXIED" /\ r.ev = NoResponse
          \/ r.child = "REJECT_DELAY" /\ r.ev = "reject_delay"
          \/ r.child \in {"CLEANUP_DELAY", "DONE"} /\ r.ev = "cleanup_delay"
       /\ Due(r, r.when)
    \/ r.child \in {"CLEANUP_DELAY", "DONE"} /\ r.ev = "wait_for_proxy_id_to_expire" /\ ~r.inHash

\* An Access-Request that is finished was answered, or nobody wants an answer.
Answered(r) ==
    Regular /\ conf.noResponseFail =>
        /\ ~r.dropped
        /\ r.code = "auth" /\ r.child \in {"QUEUED", "RUNNING", "CLEANUP_DELAY", "DONE"}
           => r.sent # {} \/ r.quiet

Rest(r) == Calm(r) /\ Answered(r) /\ (Regular => ~r.failed /\ Timed(r))

\* Two requests with one key.
Unique == \A p, q \in Reqs : req[p].inHash /\ req[q].inHash /\ req[p].key = req[q].key => p = q

\* The inductive invariant.
RequestInv ==
    /\ conf \in Confs /\ dead \subseteq RealHomes
    /\ req \in [Reqs -> RequestRecord]
    /\ \A q \in Reqs : Rest(req[q])
    /\ Unique

\* A handler leaves a request in the hash only where it was.
Keeps(r, s) == s.inHash => r.inHash /\ s.key = r.key

\* What a step of a handler leaves alone.
SameTimer(r, s) == s.ev = r.ev /\ s.when = r.when /\ s.nextCb = r.nextCb /\ s.nextWhen = r.nextWhen
SameReply(r, s) == s.reply = r.reply /\ s.sent = r.sent /\ s.early = r.early
SamePacket(r, s) ==
    /\ s.key = r.key /\ s.inHash = r.inHash /\ s.code = r.code
    /\ s.age = r.age /\ s.cached = r.cached /\ s.late = r.late
SameProxy(r, s) ==
    /\ s.inProxy = r.inProxy /\ s.answers = r.answers /\ s.sends = r.sends
    /\ s.home = r.home /\ s.proxyReply = r.proxyReply
SameMarks(r, s) == s.quiet = r.quiet /\ s.dropped = r.dropped /\ s.failed = r.failed

-----------------------------------------------------------------------------
\* The fields of a REQUEST.
LEMMA Fields ==
    ASSUME NEW r \in RequestRecord
    PROVE  /\ r.child \in ChildStates /\ r.ev \in Callbacks /\ r.nextCb \in Callbacks
           /\ r.when \in Times /\ r.nextWhen \in {NeverSet} \cup Times
           /\ r.age \in 0 .. AgeCap /\ r.proxyAge \in 0 .. ResponseWindow + 1
           /\ r.reply \in {"none", "accept", "reject"} /\ r.home \in Homes \cup {NoHome}
           /\ r.sends \in 0 .. MaxDups + 1 /\ r.answers \in 0 .. MaxDups + 1
           /\ r.sent \in SUBSET {"accept", "reject"} /\ r.code \in AllCodes
           /\ r.cached \in 0 .. CleanupDelay /\ r.late \in 0 .. CleanupDelay
  BY DEF RequestRecord

LEMMA Booleans ==
    ASSUME NEW r \in RequestRecord
    PROVE  /\ r.inHash \in BOOLEAN /\ r.inProxy \in BOOLEAN /\ r.proxyReply \in BOOLEAN
           /\ r.toRealm \in BOOLEAN /\ r.noRespond \in BOOLEAN
           /\ r.early \in BOOLEAN /\ r.hasty \in BOOLEAN /\ r.quiet \in BOOLEAN
           /\ r.dropped \in BOOLEAN /\ r.failed \in BOOLEAN
  BY DEF RequestRecord

LEMMA Caps == /\ AgeCap \in Nat /\ AgeCap >= RejectDelay + CleanupDelay /\ AgeCap >= RejectDelay /\ AgeCap >= MaxRequestTime /\ AgeCap >= 1
              /\ WhenCap = ResponseWindow + CleanupDelay + AgeCap /\ WhenCap \in Nat
              /\ \A w \in 0 .. WhenCap : w \in Times
              /\ \A w \in Times : w \in Int /\ -CleanupDelay <= w /\ w <= WhenCap
              /\ \A w \in Int : -CleanupDelay <= w /\ w <= WhenCap => w \in Times
              /\ NeverSet \in Int /\ NeverSet = -CleanupDelay - 1
  BY RequestAssumption DEF AgeCap, WhenCap, MaxOf, Times, NeverSet

LEMMA UnusedType == Unused \in RequestRecord
  BY Caps, RequestAssumption DEF RequestRecord, Unused, ChildStates, Callbacks, AllCodes, NeverSet

LEMMA UnusedFields ==
    /\ Unused.child = "FREE" /\ Unused.inHash = FALSE /\ Unused.inProxy = FALSE
    /\ Unused.ev = "none" /\ Unused.nextCb = "none" /\ Unused.sent = {} /\ Unused.early = FALSE
    /\ Unused.failed = FALSE /\ Unused.reply = "none" /\ Unused.nextWhen = NeverSet
    /\ Unused.proxyReply = FALSE /\ Unused.home = NoHome /\ Unused.dropped = FALSE
  BY DEF Unused

\* Nothing is due of a request that has no reply,
LEMMA NothingDue ==
    ASSUME NEW r, Core(r), r.reply = "none", NEW w
    PROVE  Due(r, w)
  BY DEF Due, Core

\* and what is due is due as before when nothing that counts has changed.
LEMMA DueSame ==
    ASSUME NEW r, NEW s, SamePacket(r, s), SameReply(r, s), s.child = r.child, NEW w
    PROVE  Due(s, w) <=> Due(r, w)
  BY DEF Due, SamePacket, SameReply

\* ev_request_free().
LEMMA FreeLemma ==
    ASSUME NEW r \in RequestRecord, conf \in ConfRecord,
           Regular => ~r.failed /\ r.child # "QUEUED",
           Regular /\ conf.noResponseFail /\ r.code = "auth" => r.sent # {} \/ r.quiet
    PROVE  Rest(ev_request_free(r)) /\ ~ev_request_free(r).inHash /\ ev_request_free(r).child = "FREE"
  <1> DEFINE p == ~r.failed /\ r.child # "QUEUED"
             d == r.code = "auth" /\ r.sent = {} /\ ~r.quiet
             f == Unused.failed \/ ~p
             u == [Unused EXCEPT !.failed = f]
             s == [u EXCEPT !.dropped = d]
  <1>1. f \in BOOLEAN /\ d \in BOOLEAN
    OBVIOUS
  <1>2. ev_request_free(r) = s
    BY DEF ev_request_free, RadAssert
  <1>3. f <=> ~p
    BY Zenon DEF Unused
  <1>4. Regular => ~f
    BY <1>3
  <1>5. Regular /\ conf.noResponseFail => ~d
    BY Booleans
  <1> HIDE DEF f, d
  <1>6. u \in RequestRecord /\ u.failed = f
        /\ u.child = "FREE" /\ u.inHash = FALSE /\ u.inProxy = FALSE /\ u.ev = "none" /\ u.nextCb = "none"
        /\ u.sent = {} /\ u.early = FALSE
    BY <1>1, UnusedType, UnusedFields DEF RequestRecord
  <1> HIDE DEF u
  <1>7. s \in RequestRecord /\ s.failed = f /\ s.dropped = d
        /\ s.child = "FREE" /\ s.inHash = FALSE /\ s.inProxy = FALSE /\ s.ev = "none" /\ s.nextCb = "none"
        /\ s.sent = {} /\ s.early = FALSE
    BY <1>1, <1>6 DEF RequestRecord
  <1> HIDE DEF s
  <1>8. Core(s)
    BY <1>7 DEF Core, NoResponse
  <1>9. Calm(s) /\ Timed(s)
    BY <1>7, <1>8 DEF Calm, Timed, Waits, Ripe
  <1>10. Answered(s)
    BY <1>7, <1>5 DEF Answered
  <1> QED
    BY <1>2, <1>4, <1>7, <1>9, <1>10 DEF Rest

LEMMA AssertLemma ==
    ASSUME NEW r \in RequestRecord, NEW p
    PROVE  LET s == RadAssert(r, p) IN
           /\ s \in RequestRecord /\ s.failed = (r.failed \/ ~p) /\ s.child = r.child
           /\ SameTimer(r, s) /\ SameReply(r, s) /\ SamePacket(r, s) /\ SameProxy(r, s)
           /\ s.quiet = r.quiet /\ s.dropped = r.dropped /\ s.proxyAge = r.proxyAge
           /\ s.noRespond = r.noRespond /\ s.toRealm = r.toRealm
  <1> DEFINE f == r.failed \/ ~p
             s == [r EXCEPT !.failed = f]
  <1>1. f \in BOOLEAN
    OBVIOUS
  <1>2. RadAssert(r, p) = s
    BY DEF RadAssert
  <1> HIDE DEF f
  <1>3. s \in RequestRecord /\ s.failed = f /\ s.child = r.child
        /\ s.quiet = r.quiet /\ s.dropped = r.dropped /\ s.proxyAge = r.proxyAge
        /\ s.noRespond = r.noRespond /\ s.toRealm = r.toRealm
    BY <1>1 DEF RequestRecord
  <1>4. SameTimer(r, s) /\ SameReply(r, s) /\ SamePacket(r, s) /\ SameProxy(r, s)
    BY <1>1 DEF RequestRecord, SameTimer, SameReply, SamePacket, SameProxy
  <1> HIDE DEF s
  <1> QED
    BY <1>2, <1>3, <1>4 DEF f

LEMMA LeftLemma ==
    ASSUME NEW a \in Nat, NEW b \in Nat
    PROVE  Left(a, b) \in 0 .. a /\ Left(a, b) \in Nat /\ Left(a, b) + b >= a
  BY DEF Left

\* wait_for_proxy_id_to_expire().
LEMMA ExpireLemma ==
    ASSUME NEW r, Calm(r), r.child # "FREE", conf \in ConfRecord, Answered(r),
           Regular => ~r.failed /\ r.child \in {"CLEANUP_DELAY", "DONE"} /\ ~r.inHash
    PROVE  Rest(wait_for_proxy_id_to_expire(r)) /\ Keeps(r, wait_for_proxy_id_to_expire(r))
  <1>0. r \in RequestRecord
    BY DEF Calm, Core
  <1>1. CASE r.sends = r.answers \/ r.proxyAge > ResponseWindow
    <2>1. wait_for_proxy_id_to_expire(r) = ev_request_free(r)
      BY <1>1 DEF wait_for_proxy_id_to_expire
    <2>2. Regular /\ conf.noResponseFail /\ r.code = "auth" => r.sent # {} \/ r.quiet
      BY DEF Answered
    <2> QED
      BY <1>0, <2>1, <2>2, FreeLemma DEF Keeps
  <1>2. CASE ~(r.sends = r.answers \/ r.proxyAge > ResponseWindow)
    <2> DEFINE w == Left(ResponseWindow, r.proxyAge)
               s == [[r EXCEPT !.when = w] EXCEPT !.ev = "wait_for_proxy_id_to_expire"]
    <2>1. wait_for_proxy_id_to_expire(r) = s
      BY <1>2 DEF wait_for_proxy_id_to_expire, INSERT_EVENT
    <2>2. w \in Times
      BY <1>0, Fields, Caps, RequestAssumption DEF Left
    <2> HIDE DEF w
    <2>3. s \in RequestRecord /\ s.ev = "wait_for_proxy_id_to_expire" /\ s.nextCb = r.nextCb
          /\ s.nextWhen = r.nextWhen /\ s.child = r.child
      BY <1>0, <2>2 DEF RequestRecord, Callbacks
    <2>4. SameReply(r, s) /\ SamePacket(r, s) /\ SameProxy(r, s) /\ SameMarks(r, s)
      BY <1>0, <2>2 DEF RequestRecord, SameReply, SamePacket, SameProxy, SameMarks
    <2> HIDE DEF s
    <2>5. Core(s)
      BY <2>3, <2>4 DEF Calm, Core, SameReply, SamePacket, SameProxy, NoResponse
    <2>6. Calm(s)
      BY <2>3, <2>4, <2>5 DEF Calm, Waits, Ripe, SameReply, SamePacket, SameProxy
    <2>7. Answered(s)
      BY <2>3, <2>4 DEF Answered, SameReply, SamePacket, SameMarks
    <2>8. Regular => ~s.failed /\ Timed(s)
      BY <2>3, <2>4 DEF SameMarks, SamePacket, Timed
    <2>9. Keeps(r, s)
      BY <2>4 DEF Keeps, SamePacket
    <2> QED
      BY <2>1, <2>6, <2>7, <2>8, <2>9 DEF Rest
  <1> QED
    BY <1>1, <1>2

\* cleanup_delay().
LEMMA CleanupLemma ==
    ASSUME NEW r, Core(r), Waits(r), r.child \notin {"FREE", "QUEUED", "RUNNING"},
           conf \in ConfRecord, Answered(r),
           Regular => ~r.failed /\ r.child \in {"CLEANUP_DELAY", "DONE"}
    PROVE  Rest(cleanup_delay(r)) /\ Keeps(r, cleanup_delay(r)) /\ ~cleanup_delay(r).inHash
  <1> DEFINE p == r.child \in {"CLEANUP_DELAY", "DONE"}
             a == RadAssert(r, p)
             s == [a EXCEPT !.inHash = FALSE]
  <1>0. r \in RequestRecord
    BY DEF Core
  <1> HIDE DEF p
  <1>1. /\ a \in RequestRecord /\ a.failed = (r.failed \/ ~p) /\ a.child = r.child
        /\ SameTimer(r, a) /\ SameReply(r, a) /\ SamePacket(r, a) /\ SameProxy(r, a)
        /\ a.quiet = r.quiet /\ a.dropped = r.dropped
    BY <1>0, AssertLemma
  <1>2. Regular => ~a.failed
    BY <1>1 DEF p
  <1> HIDE DEF a
  <1>3. /\ s \in RequestRecord /\ s.failed = a.failed /\ s.child = r.child /\ s.inHash = FALSE
        /\ s.quiet = r.quiet /\ s.dropped = r.dropped /\ s.code = r.code /\ s.age = r.age
    BY <1>1 DEF RequestRecord, SamePacket
  <1>4. SameTimer(r, s) /\ SameReply(r, s) /\ SameProxy(r, s)
    BY <1>1 DEF RequestRecord, SameTimer, SameReply, SameProxy
  <1>5. cleanup_delay(r) = IF s.home # NoHome /\ s.inProxy THEN wait_for_proxy_id_to_expire(s)
                           ELSE ev_request_free(s)
    BY DEF cleanup_delay, a, p
  <1> HIDE DEF s
  <1>6. Core(s)
    BY <1>3, <1>4 DEF Core, SameTimer, SameReply, SameProxy
  <1>7. Calm(s)
    BY <1>3, <1>4, <1>6 DEF Calm, Waits, Ripe, SameTimer, SameReply, SameProxy
  <1>8. Answered(s)
    BY <1>3, <1>4 DEF Answered, SameReply
  <1>9. Regular => ~s.failed
    BY <1>2, <1>3
  <1>10. Rest(wait_for_proxy_id_to_expire(s)) /\ Keeps(s, wait_for_proxy_id_to_expire(s))
    BY <1>3, <1>7, <1>8, <1>9, ExpireLemma
  <1>11. Regular /\ conf.noResponseFail /\ s.code = "auth" => s.sent # {} \/ s.quiet
    BY <1>3, <1>8 DEF Answered
  <1>12. Rest(ev_request_free(s)) /\ ~ev_request_free(s).inHash
    BY <1>3, <1>9, <1>11, FreeLemma
  <1> QED
    BY <1>3, <1>5, <1>10, <1>12 DEF Keeps

\* wait_a_bit().
LEMMA WaitLemma ==
    ASSUME NEW r, Core(r), Waits(r), r.child = "CLEANUP_DELAY" => Ripe(r), r.child # "FREE",
           conf \in ConfRecord, Answered(r),
           Regular => ~r.failed /\ (r.child \in {"QUEUED", "RUNNING", "DONE"} \/ NextRight(r))
    PROVE  Rest(wait_a_bit(r)) /\ Keeps(r, wait_a_bit(r))
  <1>0. r \in RequestRecord /\ r.child \in ChildStates
    BY Fields DEF Core
  <1>1. CASE r.child \in {"QUEUED", "RUNNING", "DONE"}
    <2> DEFINE s == [r EXCEPT !.child = "DONE"]
    <2>1. s \in RequestRecord /\ s.child = "DONE"
      BY <1>0 DEF RequestRecord, ChildStates
    <2>2. SameTimer(r, s) /\ SameReply(r, s) /\ SamePacket(r, s) /\ SameProxy(r, s) /\ SameMarks(r, s)
      BY <1>0 DEF RequestRecord, SameTimer, SameReply, SamePacket, SameProxy, SameMarks
    <2>3. wait_a_bit(r) = cleanup_delay(s)
      BY <1>1 DEF wait_a_bit
    <2> HIDE DEF s
    <2>4. Core(s)
      BY <2>1, <2>2 DEF Core, SameTimer, SameReply, SamePacket, SameProxy
    <2>5. Waits(s)
      BY <2>1 DEF Waits
    <2>6. Answered(s)
      BY <1>1, <2>1, <2>2 DEF Answered, SameReply, SamePacket, SameMarks
    <2>7. Regular => ~s.failed
      BY <2>2 DEF SameMarks
    <2>8. Rest(cleanup_delay(s)) /\ Keeps(s, cleanup_delay(s))
      BY <2>1, <2>4, <2>5, <2>6, <2>7, CleanupLemma
    <2> QED
      BY <2>2, <2>3, <2>8 DEF Keeps, SamePacket
  <1>2. CASE r.child \notin {"QUEUED", "RUNNING", "DONE"}
    <2> DEFINE p == r.nextCb \notin {"none", "wait_a_bit"}
               a == RadAssert(r, p)
               w == IF r.nextWhen = NeverSet THEN -CleanupDelay ELSE r.nextWhen
               e == [a EXCEPT !.ev = r.nextCb]
               s == [e EXCEPT !.when = w, !.nextCb = "none"]
    <2>0. r.child \in {"PROXIED", "REJECT_DELAY", "CLEANUP_DELAY"}
      BY <1>0, <1>2 DEF ChildStates
    <2>1. Regular => p
      BY <1>2, <2>0 DEF NextRight, NoResponse
    <2> HIDE DEF p
    <2>2. /\ a \in RequestRecord /\ a.failed = (r.failed \/ ~p) /\ a.child = r.child
          /\ SameTimer(r, a) /\ SameReply(r, a) /\ SamePacket(r, a) /\ SameProxy(r, a)
          /\ a.quiet = r.quiet /\ a.dropped = r.dropped
      BY <1>0, AssertLemma
    <2>3. Regular => ~a.failed
      BY <2>1, <2>2
    <2>4. wait_a_bit(r) = IF r.nextCb = "none" THEN ev_request_free(a) ELSE s
      BY <1>2 DEF wait_a_bit, INSERT_EVENT, p
    <2> HIDE DEF a
    <2>5. CASE r.nextCb = "none"
      <3>1. ~Regular
        BY <2>1, <2>5 DEF p
      <3>2. Rest(ev_request_free(a)) /\ ~ev_request_free(a).inHash
        BY <2>2, <3>1, FreeLemma
      <3> QED
        BY <2>4, <2>5, <3>2 DEF Keeps
    <2>6. CASE r.nextCb # "none"
      <3>1. w \in Times /\ w >= r.nextWhen /\ (r.nextWhen # NeverSet => w = r.nextWhen)
        BY <1>0, Fields, Caps, RequestAssumption
      <3> HIDE DEF w
      <3>2. r.nextCb \in Callbacks /\ "none" \in Callbacks
        BY <1>0, Fields DEF Callbacks
      <3>3. /\ e \in RequestRecord /\ e.failed = a.failed /\ e.child = r.child /\ e.ev = r.nextCb
            /\ e.nextWhen = r.nextWhen
            /\ SameReply(r, e) /\ SamePacket(r, e) /\ SameProxy(r, e)
            /\ e.quiet = r.quiet /\ e.dropped = r.dropped
        BY <2>2, <3>2 DEF RequestRecord, SameTimer, SameReply, SamePacket, SameProxy
      <3> HIDE DEF e
      <3>4. /\ s \in RequestRecord /\ s.failed = a.failed /\ s.child = r.child /\ s.ev = r.nextCb
            /\ s.when = w /\ s.nextCb = "none" /\ s.nextWhen = r.nextWhen
            /\ SameReply(r, s) /\ SamePacket(r, s) /\ SameProxy(r, s)
            /\ s.quiet = r.quiet /\ s.dropped = r.dropped
        BY <3>1, <3>2, <3>3 DEF RequestRecord, SameReply, SamePacket, SameProxy
      <3> HIDE DEF s
      <3>5. Core(s)
        BY <3>1, <3>4 DEF Core, SameReply, SamePacket, SameProxy, NoResponse
      <3>6. Calm(s)
        BY <2>0, <3>4, <3>5 DEF Calm, Waits, Ripe, SameReply, SamePacket, SameProxy
      <3>7. Answered(s)
        BY <2>0, <3>4 DEF Answered, SameReply, SamePacket
      <3>8. Regular => ~s.failed /\ Timed(s)
        <4>1. Due(r, r.nextWhen) => Due(s, s.when)
          <5>1. Due(s, r.nextWhen) <=> Due(r, r.nextWhen)
            BY <3>4, DueSame
          <5>2. /\ r.nextWhen \in Int /\ w \in Int
                /\ s.cached \in 0 .. CleanupDelay /\ s.late \in 0 .. CleanupDelay
            BY <1>0, <3>1, <3>4, Fields, Caps
          <5> QED
            BY <3>1, <3>4, <5>1, <5>2, RequestAssumption DEF Due
        <4>2. Regular => NextRight(r)
          BY <1>2
        <4> QED
          BY <2>0, <2>3, <3>4, <4>1, <4>2 DEF NextRight, Timed
      <3>9. Keeps(r, s)
        BY <3>4 DEF Keeps, SamePacket
      <3> QED
        BY <2>4, <2>6, <3>6, <3>7, <3>8, <3>9 DEF Rest
    <2> QED
      BY <2>5, <2>6
  <1> QED
    BY <1>1, <1>2

-----------------------------------------------------------------------------
\* What request_post_handler() may make of r.  With children, wait_a_bit() is
\* yet to come and will find the right callback; without, it has been called,
\* unless the request was proxied.
Done(r, s) ==
    /\ Calm(s) /\ Answered(s) /\ Keeps(r, s)
    /\ Regular => ~s.failed
    /\ conf.haveChildren => s.child # "FREE"
    /\ Regular /\ conf.haveChildren => s.ev = r.ev /\ NextRight(s)
    /\ Regular /\ ~conf.haveChildren =>
         Timed(s) \/ (~r.inProxy /\ s.child = "PROXIED" /\ s.ev = r.ev /\ s.nextCb = NoResponse)

\* What it expects.
Entry(r) ==
    /\ Core(r)
    /\ r.code = "coa" => r.ev # NoResponse /\ r.nextWhen <= ResponseWindow
    /\ Regular => ~r.failed /\ (r.code = "auth" => r.sent = {})
    /\ Regular /\ conf.noResponseFail => ~r.dropped

LEMMA DoneLemma ==
    ASSUME NEW r, NEW a, NEW s, Done(a, s),
           a.ev = r.ev, a.inHash = r.inHash, a.key = r.key, a.inProxy = r.inProxy
    PROVE  Done(r, s)
  BY DEF Done, Keeps

\* listener->send().
LEMMA SendLemma ==
    ASSUME NEW r, Core(r), r.reply # "none",
           Delays /\ r.code = "auth" /\ r.reply = "reject" => r.age >= RejectDelay
    PROVE  LET s == Send(r) IN
           /\ Core(s) /\ s.sent # {} /\ s.child = r.child /\ s.reply = r.reply
           /\ SameTimer(r, s) /\ SamePacket(r, s) /\ SameProxy(r, s) /\ SameMarks(r, s)
  <1> DEFINE n == r.sent \cup {r.reply}
             e == r.early \/ (r.code = "auth" /\ r.reply = "reject" /\ r.age < RejectDelay)
             s == [r EXCEPT !.sent = n, !.early = e]
  <1>0. r \in RequestRecord
    BY DEF Core
  <1>1. Send(r) = s
    BY DEF Send
  <1>2. n \in SUBSET {"accept", "reject"} /\ n # {} /\ n \subseteq {r.reply} \ {"none"}
    BY <1>0, Fields DEF Core
  <1>3. e \in BOOLEAN
    OBVIOUS
  <1>4. r.age \in Int /\ RejectDelay \in Int
    BY <1>0, Fields, Caps, RequestAssumption
  <1>5. Delays => ~e
    <2>1. Delays => ~r.early
      BY DEF Core
    <2>2. Delays => ~(r.code = "auth" /\ r.reply = "reject" /\ r.age < RejectDelay)
      BY <1>4
    <2> QED
      BY <2>1, <2>2
  <1> HIDE DEF n, e
  <1>6. s \in RequestRecord /\ s.sent = n /\ s.early = e /\ s.child = r.child /\ s.reply = r.reply
    BY <1>0, <1>2, <1>3 DEF RequestRecord
  <1>7. SameTimer(r, s) /\ SamePacket(r, s) /\ SameProxy(r, s) /\ SameMarks(r, s)
    BY <1>0, <1>2, <1>3 DEF RequestRecord, SameTimer, SamePacket, SameProxy, SameMarks
  <1> HIDE DEF s
  <1>8. Core(s)
    BY <1>2, <1>5, <1>6, <1>7 DEF Core, SameTimer, SamePacket, SameProxy
  <1> QED
    BY <1>1, <1>2, <1>6, <1>7, <1>8

\* The end of request_post_handler().
LEMMA FinishLemma ==
    ASSUME NEW r, Core(r), NEW c \in {"CLEANUP_DELAY", "DONE"}, conf \in ConfRecord,
           Delays /\ r.code = "auth" /\ r.reply = "reject" => r.age >= RejectDelay,
           Regular => ~r.failed,
           Regular /\ conf.noResponseFail => ~r.dropped,
           r.code = "auth" => r.sent # {} \/ r.quiet,
           c = "CLEANUP_DELAY" => r.nextCb = "cleanup_delay",
           r.code = "auth" /\ r.reply # "none" =>
             r.sent # {} /\ c = "CLEANUP_DELAY" /\ r.nextWhen = CleanupDelay
    PROVE  Done(r, Finish(r, c))
  <1> DEFINE s == [r EXCEPT !.child = c, !.toRealm = FALSE, !.noRespond = FALSE]
  <1>0. r \in RequestRecord /\ c \in ChildStates
    BY DEF Core, ChildStates
  <1>1. s \in RequestRecord /\ s.child = c
    BY <1>0 DEF RequestRecord
  <1>2. SameTimer(r, s) /\ SameReply(r, s) /\ SamePacket(r, s) /\ SameProxy(r, s) /\ SameMarks(r, s)
    BY <1>0 DEF RequestRecord, SameTimer, SameReply, SamePacket, SameProxy, SameMarks
  <1>3. Finish(r, c) = IF conf.haveChildren THEN s ELSE wait_a_bit(s)
    BY DEF Finish
  <1> HIDE DEF s
  <1>4. Core(s)
    BY <1>1, <1>2 DEF Core, SameTimer, SameReply, SamePacket, SameProxy
  <1>5. Waits(s) /\ Ripe(s)
    BY <1>1, <1>2 DEF Waits, Ripe, SameReply, SamePacket
  <1>6. Answered(s)
    BY <1>1, <1>2 DEF Answered, SameReply, SamePacket, SameMarks
  <1>7. NextRight(s) /\ s.child # "FREE"
    <2>1. Due(s, s.nextWhen)
      <3>1. CASE s.reply = "none"
        BY <1>4, <3>1, NothingDue
      <3>2. CASE s.reply # "none"
        <4>1. s.cached \in 0 .. CleanupDelay /\ s.late \in 0 .. CleanupDelay
          BY <1>1, Fields
        <4> QED
          BY <1>1, <1>2, <3>2, <4>1, RequestAssumption DEF Due, SameTimer, SameReply, SamePacket
      <3> QED
        BY <3>1, <3>2
    <2> QED
      BY <1>1, <1>2, <2>1 DEF NextRight, SameTimer
  <1>8. Regular => ~s.failed
    BY <1>2 DEF SameMarks
  <1>9. Calm(s)
    BY <1>1, <1>4, <1>5 DEF Calm
  <1>10. CASE conf.haveChildren
    <2>1. Keeps(r, s) /\ s.ev = r.ev
      BY <1>2 DEF Keeps, SamePacket, SameTimer
    <2> QED
      BY <1>3, <1>6, <1>7, <1>8, <1>9, <1>10, <2>1 DEF Done
  <1>11. CASE ~conf.haveChildren
    <2>1. Rest(wait_a_bit(s)) /\ Keeps(s, wait_a_bit(s))
      BY <1>4, <1>5, <1>6, <1>7, <1>8, WaitLemma
    <2>2. Keeps(r, wait_a_bit(s))
      BY <1>2, <2>1 DEF Keeps, SamePacket
    <2> QED
      BY <1>3, <1>11, <2>1, <2>2 DEF Done, Rest
  <1> QED
    BY <1>10, <1>11

\* The switch on the packet code.
LEMMA RespondLemma ==
    ASSUME NEW r, Entry(r), conf \in ConfRecord
    PROVE  Done(r, Respond(r))
  <1>0. r \in RequestRecord /\ Core(r)
    BY DEF Entry, Core
  <1>a. "cleanup_delay" \in Callbacks /\ "reject_delay" \in Callbacks /\ "none" \in Callbacks
    BY DEF Callbacks
  <1>b. r.code \in AllCodes /\ r.reply \in {"none", "accept", "reject"}
    BY <1>0, Fields
  \* Do-Not-Respond.
  <1>1. CASE r.code = "auth" /\ r.reply = "none" /\ r.noRespond
    <2> DEFINE a == [r EXCEPT !.nextWhen = MaxRequestTime, !.nextCb = "cleanup_delay", !.quiet = TRUE]
    <2>1. Respond(r) = Finish(a, "CLEANUP_DELAY")
      BY <1>1 DEF Respond
    <2>2. MaxRequestTime \in Times
      BY Caps, RequestAssumption
    <2>3. /\ a \in RequestRecord /\ a.nextCb = "cleanup_delay" /\ a.quiet = TRUE /\ a.ev = r.ev
          /\ a.when = r.when /\ a.failed = r.failed /\ a.dropped = r.dropped
      BY <1>0, <1>a, <2>2 DEF RequestRecord
    <2>4. SameReply(r, a) /\ SamePacket(r, a) /\ SameProxy(r, a)
      BY <1>0, <1>a, <2>2 DEF RequestRecord, SameReply, SamePacket, SameProxy
    <2> HIDE DEF a
    <2>5. Core(a)
      BY <1>0, <1>1, <2>3, <2>4 DEF Core, SameReply, SamePacket, SameProxy, NoResponse
    <2>6. a.reply = "none"
      BY <1>1, <2>4 DEF SameReply
    <2>7. Regular => ~a.failed
      BY <2>3 DEF Entry
    <2>8. Regular /\ conf.noResponseFail => ~a.dropped
      BY <2>3 DEF Entry
    <2>9. Done(a, Finish(a, "CLEANUP_DELAY"))
      BY <2>3, <2>5, <2>6, <2>7, <2>8, FinishLemma
    <2> QED
      BY <2>1, <2>3, <2>4, <2>9, DoneLemma DEF SamePacket, SameProxy
  <1>2. CASE r.code = "auth" /\ ~(r.reply = "none" /\ r.noRespond)
    <2> DEFINE s == IF r.reply = "none" THEN [r EXCEPT !.reply = "reject"] ELSE r
    <2>1. /\ s \in RequestRecord /\ s.reply # "none" /\ s.sent = r.sent /\ s.early = r.early
          /\ s.reply \in {r.reply, "reject"} /\ (r.reply # "none" => s.reply = r.reply)
      BY <1>0 DEF RequestRecord
    <2>2. SameTimer(r, s) /\ SamePacket(r, s) /\ SameProxy(r, s) /\ SameMarks(r, s)
      BY <1>0 DEF RequestRecord, SameTimer, SamePacket, SameProxy, SameMarks
    <2>3. Respond(r) =
            IF s.reply = "reject" /\ s.age < RejectDelay
              THEN [s EXCEPT !.nextWhen = RejectDelay - s.age, !.nextCb = "reject_delay", !.child = "REJECT_DELAY"]
              ELSE Finish([Send(s) EXCEPT !.nextWhen = CleanupDelay, !.nextCb = "cleanup_delay"], "CLEANUP_DELAY")
      BY <1>2 DEF Respond
    <2> HIDE DEF s
    <2>4. Core(s)
      BY <1>0, <2>1, <2>2 DEF Core, SameTimer, SamePacket, SameProxy
    <2>5. (Regular => ~s.failed) /\ (Regular /\ conf.noResponseFail => ~s.dropped)
      BY <2>2 DEF Entry, SameMarks
    <2>6. s.age \in Nat /\ RejectDelay \in Nat /\ s.code = "auth"
      BY <1>2, <2>1, <2>2, Fields, Caps, RequestAssumption DEF SamePacket
    \* The reject waits.
    <2>7. CASE s.reply = "reject" /\ s.age < RejectDelay
      <3> DEFINE w == RejectDelay - s.age
                 t == [s EXCEPT !.nextWhen = w, !.nextCb = "reject_delay", !.child = "REJECT_DELAY"]
      <3>1. w \in Times /\ w # NeverSet /\ w >= 0 /\ s.age + w >= RejectDelay
        BY <2>6, <2>7, Caps, RequestAssumption
      <3> HIDE DEF w
      <3>2. /\ t \in RequestRecord /\ t.child = "REJECT_DELAY" /\ t.nextCb = "reject_delay" /\ t.nextWhen = w
            /\ t.ev = s.ev /\ t.when = s.when
        BY <1>a, <2>1, <3>1 DEF RequestRecord, ChildStates
      <3>3. SameReply(s, t) /\ SamePacket(s, t) /\ SameProxy(s, t) /\ SameMarks(s, t)
        BY <1>a, <2>1, <3>1 DEF RequestRecord, SameReply, SamePacket, SameProxy, SameMarks
      <3>4. Respond(r) = t
        BY <2>3, <2>7 DEF w
      <3> HIDE DEF t
      <3>5. Core(t)
        BY <2>4, <2>6, <2>7, <3>1, <3>2, <3>3 DEF Core, SameReply, SamePacket, SameProxy
      <3>6. Calm(t)
        BY <3>2, <3>5 DEF Calm, Waits, Ripe
      <3>7. Answered(t)
        BY <2>5, <3>2, <3>3 DEF Answered, SameMarks
      <3>8. Keeps(r, t) /\ t.ev = r.ev
        BY <2>2, <3>2, <3>3 DEF Keeps, SamePacket, SameTimer
      <3>9. Regular => NextRight(t)
        <4>1. Regular => t.sent = {}
          BY <1>2, <2>1, <3>3 DEF Entry, SameReply
        <4> QED
          BY <3>2, <4>1 DEF NextRight, Due
      <3>10. Regular => conf.haveChildren
        BY <2>6, <2>7 DEF Regular
      <3>11. Regular => ~t.failed
        BY <2>5, <3>3 DEF SameMarks
      <3> QED
        BY <3>2, <3>4, <3>6, <3>7, <3>8, <3>9, <3>10, <3>11 DEF Done
    \* The answer is sent.
    <2>8. CASE ~(s.reply = "reject" /\ s.age < RejectDelay)
      <3> DEFINE n == Send(s)
                 a == [n EXCEPT !.nextWhen = CleanupDelay, !.nextCb = "cleanup_delay"]
      <3>1. s.reply = "reject" => s.age >= RejectDelay
        BY <2>6, <2>8
      <3>2. /\ Core(n) /\ n.sent # {} /\ n.child = s.child /\ n.reply = s.reply
            /\ SameTimer(s, n) /\ SamePacket(s, n) /\ SameProxy(s, n) /\ SameMarks(s, n)
        BY <2>1, <2>4, <3>1, SendLemma
      <3> HIDE DEF n
      <3>3. CleanupDelay \in Times /\ n \in RequestRecord
        BY <3>2, Caps, RequestAssumption DEF Core
      <3>4. /\ a \in RequestRecord /\ a.nextCb = "cleanup_delay" /\ a.nextWhen = CleanupDelay
            /\ a.ev = n.ev /\ a.when = n.when
        BY <1>a, <3>3 DEF RequestRecord
      <3>5. SameReply(n, a) /\ SamePacket(n, a) /\ SameProxy(n, a) /\ SameMarks(n, a)
        BY <1>a, <3>3 DEF RequestRecord, SameReply, SamePacket, SameProxy, SameMarks
      <3>6. Respond(r) = Finish(a, "CLEANUP_DELAY")
        BY <2>3, <2>8 DEF n
      <3> HIDE DEF a
      <3>7. Core(a)
        <4>1. a.code = "auth"
          BY <2>6, <3>2, <3>5 DEF SamePacket
        <4> QED
          BY <3>2, <3>4, <3>5, <4>1 DEF Core, SameReply, SamePacket, SameProxy, NoResponse
      <3>8. /\ a.reply = s.reply /\ a.age = s.age /\ a.sent # {} /\ a.failed = s.failed /\ a.dropped = s.dropped
            /\ a.ev = r.ev /\ a.inHash = r.inHash /\ a.key = r.key /\ a.inProxy = r.inProxy
        BY <2>2, <3>2, <3>4, <3>5 DEF SameReply, SamePacket, SameProxy, SameMarks, SameTimer
      <3>9. Done(a, Finish(a, "CLEANUP_DELAY"))
        BY <2>5, <3>1, <3>4, <3>7, <3>8, FinishLemma
      <3> QED
        BY <3>6, <3>8, <3>9, DoneLemma
    <2> QED
      BY <2>7, <2>8
  <1>3. CASE r.code # "auth"
    <2> DEFINE n == SendAnyReply(r)
    <2>1. /\ Core(n) /\ n.child = r.child /\ n.reply = r.reply
          /\ SameTimer(r, n) /\ SamePacket(r, n) /\ SameProxy(r, n) /\ SameMarks(r, n)
      <3>1. CASE r.reply = "none"
        BY <1>0, <3>1 DEF SendAnyReply, SameTimer, SamePacket, SameProxy, SameMarks
      <3>2. CASE r.reply # "none"
        BY <1>0, <1>3, <3>2, SendLemma DEF SendAnyReply
      <3> QED
        BY <3>1, <3>2
    <2> HIDE DEF n
    <2>2. n \in RequestRecord
      BY <2>1 DEF Core
    <2>3. CASE r.code = "coa"
      <3> DEFINE w == IF n.nextWhen = NeverSet THEN n.nextWhen ELSE n.nextWhen + CleanupDelay
                 a == [n EXCEPT !.nextWhen = w, !.nextCb = "cleanup_delay"]
      <3>1. w \in {NeverSet} \cup Times
        <4>1. n.nextWhen = r.nextWhen /\ r.nextWhen <= ResponseWindow
          BY <2>1, <2>3 DEF Entry, SameTimer
        <4>2. n.nextWhen \in {NeverSet} \cup Times
          BY <2>2, Fields
        <4> QED
          BY <4>1, <4>2, Caps, RequestAssumption
      <3>2. Respond(r) = Finish(a, "CLEANUP_DELAY")
        BY <2>3 DEF Respond, n
      <3> HIDE DEF w
      <3>3. a \in RequestRecord /\ a.nextCb = "cleanup_delay" /\ a.ev = n.ev /\ a.when = n.when
        BY <1>a, <2>2, <3>1 DEF RequestRecord
      <3>4. SameReply(n, a) /\ SamePacket(n, a) /\ SameProxy(n, a) /\ SameMarks(n, a)
        BY <1>a, <2>2, <3>1 DEF RequestRecord, SameReply, SamePacket, SameProxy, SameMarks
      <3> HIDE DEF a
      <3>5. a.code = "coa" /\ a.ev # NoResponse
        BY <2>1, <2>3, <3>3, <3>4 DEF SamePacket, SameTimer, Entry
      <3>6. Core(a)
        BY <2>1, <3>3, <3>4, <3>5 DEF Core, SameReply, SamePacket, SameProxy, NoResponse
      <3>7. /\ a.failed = r.failed /\ a.dropped = r.dropped
            /\ a.ev = r.ev /\ a.inHash = r.inHash /\ a.key = r.key /\ a.inProxy = r.inProxy
        BY <2>1, <3>3, <3>4 DEF SameReply, SamePacket, SameProxy, SameMarks, SameTimer
      <3>8. (Regular => ~a.failed) /\ (Regular /\ conf.noResponseFail => ~a.dropped)
        BY <3>7 DEF Entry
      <3>9. Done(a, Finish(a, "CLEANUP_DELAY"))
        BY <3>3, <3>5, <3>6, <3>8, FinishLemma
      <3> QED
        BY <3>2, <3>7, <3>9, DoneLemma
    <2>4. CASE r.code # "coa"
      <3> DEFINE a == [n EXCEPT !.nextCb = "none"]
      <3>1. Respond(r) = Finish(a, "DONE")
        BY <1>3, <2>4 DEF Respond, n
      <3>3. a \in RequestRecord /\ a.nextCb = "none" /\ a.ev = n.ev /\ a.when = n.when
        BY <1>a, <2>2 DEF RequestRecord
      <3>4. SameReply(n, a) /\ SamePacket(n, a) /\ SameProxy(n, a) /\ SameMarks(n, a)
        BY <1>a, <2>2 DEF RequestRecord, SameReply, SamePacket, SameProxy, SameMarks
      <3> HIDE DEF a
      <3>5. a.code # "coa" /\ a.code # "auth"
        BY <1>3, <2>1, <2>4, <3>4 DEF SamePacket
      <3>6. Core(a)
        BY <2>1, <3>3, <3>4, <3>5 DEF Core, SameReply, SamePacket, SameProxy
      <3>7. /\ a.failed = r.failed /\ a.dropped = r.dropped
            /\ a.ev = r.ev /\ a.inHash = r.inHash /\ a.key = r.key /\ a.inProxy = r.inProxy
        BY <2>1, <3>3, <3>4 DEF SameReply, SamePacket, SameProxy, SameMarks, SameTimer
      <3>8. (Regular => ~a.failed) /\ (Regular /\ conf.noResponseFail => ~a.dropped)
        BY <3>7 DEF Entry
      <3>9. Done(a, Finish(a, "DONE"))
        BY <3>5, <3>6, <3>8, FinishLemma
      <3> QED
        BY <3>1, <3>7, <3>9, DoneLemma
    <2> QED
      BY <2>3, <2>4
  <1> QED
    BY <1>1, <1>2, <1>3

-----------------------------------------------------------------------------
\* proxy_request().
LEMMA ProxyLemma ==
    ASSUME NEW r, Core(r), r.reply = "none", ~r.proxyReply, r.home \in RealHomes
    PROVE  LET s == proxy_request(r) IN
           /\ Calm(s) /\ s.child = "PROXIED" /\ s.nextCb = NoResponse /\ s.ev = r.ev /\ s.inProxy
           /\ SameReply(r, s) /\ SamePacket(r, s) /\ SameMarks(r, s)
  <1> DEFINE w == IF Left(MaxRequestTime, r.age) < ResponseWindow
                  THEN Left(MaxRequestTime, r.age) ELSE ResponseWindow
             a == [r EXCEPT !.inProxy = TRUE, !.child = "PROXIED", !.sends = 1, !.answers = 0]
             s == [a EXCEPT !.proxyAge = 0, !.nextWhen = w, !.nextCb = NoResponse]
  <1>0. r \in RequestRecord
    BY DEF Core
  <1>1. proxy_request(r) = s
    BY <1>0 DEF proxy_request, NoResponse, RequestRecord
  <1>2. w \in 0 .. WhenCap /\ w \in Times /\ w <= ResponseWindow
    BY <1>0, Fields, Caps, RequestAssumption DEF Left
  <1> HIDE DEF w
  <1>3. 1 \in 0 .. MaxDups + 1 /\ 0 \in 0 .. MaxDups + 1 /\ 0 \in 0 .. ResponseWindow + 1
    BY RequestAssumption
  <1>4. "PROXIED" \in ChildStates /\ NoResponse \in Callbacks
    BY DEF ChildStates, Callbacks, NoResponse
  <1>5. /\ a \in RequestRecord /\ a.child = "PROXIED" /\ a.inProxy = TRUE /\ a.sends = 1 /\ a.answers = 0
        /\ SameTimer(r, a) /\ a.home = r.home /\ a.proxyReply = r.proxyReply
    BY <1>0, <1>3, <1>4 DEF RequestRecord, SameTimer
  <1>6. SameReply(r, a) /\ SamePacket(r, a) /\ SameMarks(r, a)
    BY <1>0, <1>3, <1>4 DEF RequestRecord, SameReply, SamePacket, SameMarks
  <1> HIDE DEF a
  <1>b. s \in RequestRecord
    <2>1. w \in {NeverSet} \cup Times
      BY <1>2
    <2> DEFINE a1 == [a EXCEPT !.proxyAge = 0]
               a2 == [a1 EXCEPT !.nextWhen = w]
    <2>2. a1 \in RequestRecord
      BY <1>3, <1>5 DEF RequestRecord
    <2> HIDE DEF a1
    <2>3. a2 \in RequestRecord
      BY <2>1, <2>2 DEF RequestRecord
    <2> HIDE DEF a2
    <2>4. [a2 EXCEPT !.nextCb = NoResponse] \in RequestRecord
      BY <1>4, <2>3 DEF RequestRecord
    <2> QED
      BY <2>4 DEF a1, a2
  <1>c. s.ev = a.ev /\ s.when = a.when /\ s.nextCb = NoResponse /\ s.nextWhen = w
    BY <1>5 DEF RequestRecord
  <1>d. s.child = a.child /\ s.inProxy = a.inProxy /\ s.sends = a.sends /\ s.answers = a.answers
        /\ s.home = a.home /\ s.proxyReply = a.proxyReply
    BY <1>5 DEF RequestRecord
  <1>7. /\ s \in RequestRecord /\ s.child = "PROXIED" /\ s.inProxy = TRUE /\ s.sends = 1 /\ s.answers = 0
        /\ s.ev = r.ev /\ s.when = r.when /\ s.nextCb = NoResponse /\ s.nextWhen = w
        /\ s.home = r.home /\ s.proxyReply = r.proxyReply
    BY <1>b, <1>c, <1>d, <1>5 DEF SameTimer
  <1>8. SameReply(r, s) /\ SamePacket(r, s) /\ SameMarks(r, s)
    BY <1>2, <1>3, <1>4, <1>5, <1>6 DEF RequestRecord, SameReply, SamePacket, SameMarks
  <1> HIDE DEF s
  <1>9. Core(s)
    BY <1>2, <1>7, <1>8 DEF Core, SameReply, SamePacket, NoResponse
  <1>10. Calm(s)
    BY <1>2, <1>7, <1>8, <1>9 DEF Calm, Waits, Ripe, SameReply
  <1> QED
    BY <1>1, <1>7, <1>8, <1>10

\* A handler that is not at its end.
Along(r, s) ==
    /\ Entry(s) /\ s.ev = r.ev /\ SamePacket(r, s)
    /\ s.inProxy = r.inProxy

\* process_proxy_reply() and request_pre_handler().
LEMMA StopLemma ==
    ASSUME NEW r, Entry(r), NEW c \in {"RUNNING", "DONE"}, NEW b \in BOOLEAN
    PROVE  LET s == [r EXCEPT !.child = c, !.quiet = b] IN
           /\ Along(r, s) /\ SameReply(r, s) /\ SameProxy(r, s) /\ s.child = c /\ s.quiet = b
           /\ s.toRealm = r.toRealm /\ s.noRespond = r.noRespond
  <1> DEFINE s == [r EXCEPT !.child = c, !.quiet = b]
  <1>0. r \in RequestRecord /\ c \in ChildStates
    BY DEF Entry, Core, ChildStates
  <1>1. /\ s \in RequestRecord /\ s.child = c /\ s.quiet = b /\ s.failed = r.failed /\ s.dropped = r.dropped
        /\ s.toRealm = r.toRealm /\ s.noRespond = r.noRespond
    BY <1>0 DEF RequestRecord
  <1>2. SameTimer(r, s) /\ SameReply(r, s) /\ SamePacket(r, s) /\ SameProxy(r, s)
    BY <1>0 DEF RequestRecord, SameTimer, SameReply, SamePacket, SameProxy
  <1> HIDE DEF s
  <1>3. Core(s)
    BY <1>1, <1>2 DEF Entry, Core, SameTimer, SameReply, SamePacket, SameProxy
  <1>4. Entry(s)
    BY <1>1, <1>2, <1>3 DEF Entry, SameTimer, SamePacket, SameReply
  <1>5. Along(r, s)
    BY <1>2, <1>4 DEF Along, SameTimer, SameProxy
  <1> QED
    BY <1>1, <1>2, <1>5 DEF s

LEMMA ChildLemma ==
    ASSUME NEW r, Entry(r), NEW c \in {"QUEUED", "RUNNING", "DONE"}
    PROVE  LET s == [r EXCEPT !.child = c] IN
           Along(r, s) /\ SameReply(r, s) /\ SameProxy(r, s) /\ s.child = c /\ s.quiet = r.quiet
  <1> DEFINE s == [r EXCEPT !.child = c]
  <1>0. r \in RequestRecord /\ c \in ChildStates
    BY DEF Entry, Core, ChildStates
  <1>1. s \in RequestRecord /\ s.child = c
    BY <1>0 DEF RequestRecord
  <1>2. SameTimer(r, s) /\ SameReply(r, s) /\ SamePacket(r, s) /\ SameProxy(r, s) /\ SameMarks(r, s)
    BY <1>0 DEF RequestRecord, SameTimer, SameReply, SamePacket, SameProxy, SameMarks
  <1> HIDE DEF s
  <1>3. Core(s)
    BY <1>1, <1>2 DEF Entry, Core, SameTimer, SameReply, SamePacket, SameProxy
  <1>4. Entry(s)
    BY <1>1, <1>2, <1>3 DEF Entry, SameTimer, SamePacket, SameReply, SameMarks
  <1>5. Along(r, s)
    BY <1>2, <1>4 DEF Along, SameTimer, SameProxy
  <1> QED
    BY <1>1, <1>2, <1>5 DEF s, SameMarks

LEMMA ReplyLemma ==
    ASSUME NEW r, Entry(r), NEW s \in process_proxy_reply(r)
    PROVE  /\ Along(r, s) /\ SameReply(r, s) /\ SameProxy(r, s)
           /\ s.child \in {r.child, "DONE"} /\ (s.child = r.child \/ s.quiet)
  <1>0. r \in RequestRecord
    BY DEF Entry, Core
  <1>1. CASE s = r
    BY <1>1 DEF Along, SamePacket, SameReply, SameProxy
  <1>2. CASE s = [r EXCEPT !.child = "DONE", !.quiet = TRUE]
    BY <1>2, StopLemma
  <1> QED
    BY <1>1, <1>2 DEF process_proxy_reply

LEMMA PreLemma ==
    ASSUME NEW r, Entry(r), NEW d, NEW s \in request_pre_handler(r, d)
    PROVE  /\ Along(r, s) /\ SameReply(r, s) /\ SameProxy(r, s)
           /\ s.child \in {"RUNNING", "DONE"} /\ (s.child = "DONE" => s.quiet)
  <1> DEFINE a == [r EXCEPT !.child = "RUNNING"]
             b == [a EXCEPT !.child = "DONE", !.quiet = TRUE]
  <1>1. s \in process_proxy_reply(a) \/ s = a \/ s = b
    BY DEF request_pre_handler
  <1>2. Along(r, a) /\ SameReply(r, a) /\ SameProxy(r, a) /\ a.child = "RUNNING"
    BY ChildLemma
  <1> HIDE DEF a
  <1>3. Entry(a)
    BY <1>2 DEF Along
  <1>4. CASE s \in process_proxy_reply(a)
    <2>1. /\ Along(a, s) /\ SameReply(a, s) /\ SameProxy(a, s)
          /\ s.child \in {"RUNNING", "DONE"} /\ (s.child = "RUNNING" \/ s.quiet)
      BY <1>2, <1>3, <1>4, ReplyLemma
    <2> QED
      BY <1>2, <2>1 DEF Along, SameReply, SameProxy, SamePacket
  <1>5. CASE s = a
    BY <1>2, <1>5
  <1>6. CASE s = b
    <2>1. Along(a, s) /\ SameReply(a, s) /\ SameProxy(a, s) /\ s.child = "DONE" /\ s.quiet = TRUE
      BY <1>3, <1>6, StopLemma
    <2> QED
      BY <1>2, <2>1 DEF Along, SameReply, SameProxy, SamePacket
  <1> QED
    BY <1>1, <1>4, <1>5, <1>6

\* What policy may decide.
LEMMA FunLemma ==
    ASSUME NEW r, Entry(r), r.reply = "none", NEW s \in fun(r)
    PROVE  /\ Along(r, s) /\ SameProxy(r, s) /\ s.child = r.child
           /\ r.proxyReply => s.reply # "none"
  <1>0. r \in RequestRecord /\ Core(r)
    BY DEF Entry, Core
  <1>1. \/ s = r /\ ~r.proxyReply
        \/ s = [r EXCEPT !.toRealm = TRUE] /\ ~r.proxyReply
        \/ s = [r EXCEPT !.noRespond = TRUE] /\ ~r.proxyReply
        \/ \E c \in {"accept", "reject"} : s = [r EXCEPT !.reply = c]
    BY DEF fun
  <1>2. CASE s = r /\ ~r.proxyReply
    BY <1>2 DEF Along, SamePacket, SameProxy
  <1>3. CASE (s = [r EXCEPT !.toRealm = TRUE] \/ s = [r EXCEPT !.noRespond = TRUE]) /\ ~r.proxyReply
    <2>1. s \in RequestRecord /\ s.child = r.child
      <3>1. CASE s = [r EXCEPT !.toRealm = TRUE]
        BY <1>0, <3>1 DEF RequestRecord
      <3>2. CASE s = [r EXCEPT !.noRespond = TRUE]
        BY <1>0, <3>2 DEF RequestRecord
      <3> QED
        BY <1>3, <3>1, <3>2
    <2>2. SameTimer(r, s) /\ SameReply(r, s) /\ SamePacket(r, s) /\ SameProxy(r, s) /\ SameMarks(r, s)
      BY <1>0, <1>3 DEF RequestRecord, SameTimer, SameReply, SamePacket, SameProxy, SameMarks
    <2>3. Core(s)
      BY <1>0, <2>1, <2>2 DEF Core, SameTimer, SameReply, SamePacket, SameProxy
    <2>4. Entry(s)
      BY <2>2, <2>3 DEF Entry, SameTimer, SamePacket, SameReply, SameMarks
    <2> QED
      BY <1>3, <2>1, <2>2, <2>4 DEF Along, SameTimer, SameProxy
  <1>4. CASE \E c \in {"accept", "reject"} : s = [r EXCEPT !.reply = c]
    <2>0. PICK c \in {"accept", "reject"} : s = [r EXCEPT !.reply = c]
      BY <1>4
    <2>1. s \in RequestRecord /\ s.child = r.child /\ s.reply = c /\ s.sent = r.sent /\ s.early = r.early
      BY <1>0, <2>0 DEF RequestRecord
    <2>2. SameTimer(r, s) /\ SamePacket(r, s) /\ SameProxy(r, s) /\ SameMarks(r, s)
      BY <1>0, <2>0 DEF RequestRecord, SameTimer, SamePacket, SameProxy, SameMarks
    <2>3. Core(s)
      BY <1>0, <2>1, <2>2 DEF Core, SameTimer, SamePacket, SameProxy
    <2>4. Entry(s)
      BY <2>1, <2>2, <2>3 DEF Entry, SameTimer, SamePacket, SameMarks
    <2> QED
      BY <2>1, <2>2, <2>4 DEF Along, SameTimer, SameProxy
  <1> QED
    BY <1>1, <1>2, <1>3, <1>4

\* proxy_to_virtual_server().
LEMMA VirtualLemma ==
    ASSUME NEW r, Entry(r), r.reply = "none", NEW s \in proxy_to_virtual_server(r)
    PROVE  Along(r, s)
  <1>0. r \in RequestRecord /\ Core(r)
    BY DEF Entry, Core
  <1> DEFINE answered == [r EXCEPT !.proxyReply = TRUE]
             silent == IF setup_post_proxy_fail(r) THEN [r EXCEPT !.child = "RUNNING"] ELSE r
             A == process_proxy_reply(answered)
             B == process_proxy_reply(silent)
  <1>1. (\E a \in process_proxy_reply(answered) : s \in fun(a)) \/ s \in process_proxy_reply(silent)
    <2>1. proxy_to_virtual_server(r) = (UNION {fun(a) : a \in A}) \cup B
      BY Zenon DEF proxy_to_virtual_server
    <2> HIDE DEF A, B
    <2>2. (\E a \in A : s \in fun(a)) \/ s \in B
      BY <2>1
    <2> QED
      BY <2>2 DEF A, B
  <1>2. CASE \E a \in process_proxy_reply(answered) : s \in fun(a)
    <2>1. answered \in RequestRecord
      BY <1>0 DEF RequestRecord
    <2>2. /\ SameTimer(r, answered) /\ SameReply(r, answered) /\ SamePacket(r, answered) /\ SameMarks(r, answered)
          /\ answered.inProxy = r.inProxy /\ answered.answers = r.answers /\ answered.sends = r.sends
      BY <1>0 DEF RequestRecord, SameTimer, SameReply, SamePacket, SameMarks
    <2> HIDE DEF answered
    <2>3. Core(answered)
      BY <1>0, <2>1, <2>2 DEF Core, SameTimer, SameReply, SamePacket
    <2>4. Entry(answered) /\ answered.reply = "none"
      BY <2>2, <2>3 DEF Entry, SameTimer, SamePacket, SameMarks, SameReply
    <2>5. PICK a \in process_proxy_reply(answered) : s \in fun(a)
      BY <1>2
    <2>6. Along(answered, a) /\ SameReply(answered, a)
      BY <2>4, ReplyLemma
    <2>7. Entry(a) /\ a.reply = "none"
      BY <2>4, <2>6 DEF Along, SameReply
    <2>8. Along(a, s)
      BY <2>5, <2>7, FunLemma
    <2> QED
      BY <2>2, <2>6, <2>8 DEF Along, SameTimer, SamePacket
  <1>3. CASE s \in process_proxy_reply(silent)
    <2>1. Along(r, silent)
      <3>1. CASE setup_post_proxy_fail(r)
        BY <3>1, ChildLemma
      <3>2. CASE ~setup_post_proxy_fail(r)
        BY <3>2 DEF Along, SamePacket
      <3> QED
        BY <3>1, <3>2
    <2> HIDE DEF silent
    <2>2. Along(silent, s)
      BY <1>3, <2>1, ReplyLemma DEF Along
    <2> QED
      BY <2>1, <2>2 DEF Along, SamePacket
  <1> QED
    BY <1>1, <1>2, <1>3

LEMMA HomeLemma ==
    ASSUME NEW r, Entry(r), NEW h \in Homes
    PROVE  LET s == [r EXCEPT !.home = h] IN
           /\ Along(r, s) /\ SameReply(r, s) /\ SameMarks(r, s) /\ s.home = h
           /\ s.proxyReply = r.proxyReply /\ s.child = r.child
  <1> DEFINE s == [r EXCEPT !.home = h]
  <1>0. r \in RequestRecord /\ Core(r)
    BY DEF Entry, Core
  <1>1. /\ s \in RequestRecord /\ s.child = r.child /\ s.home = h /\ s.proxyReply = r.proxyReply
        /\ s.inProxy = r.inProxy /\ s.answers = r.answers /\ s.sends = r.sends
    BY <1>0 DEF RequestRecord
  <1>2. SameTimer(r, s) /\ SameReply(r, s) /\ SamePacket(r, s) /\ SameMarks(r, s)
    BY <1>0 DEF RequestRecord, SameTimer, SameReply, SamePacket, SameMarks
  <1> HIDE DEF s
  <1>3. Core(s)
    BY <1>0, <1>1, <1>2 DEF Core, SameTimer, SameReply, SamePacket
  <1>4. Entry(s)
    BY <1>2, <1>3 DEF Entry, SameTimer, SamePacket, SameReply, SameMarks
  <1> QED
    BY <1>1, <1>2, <1>4 DEF Along, SameTimer, s

\* A request that was just proxied.
LEMMA ProxiedLemma ==
    ASSUME NEW r, Entry(r), r.reply = "none", ~r.proxyReply, r.home \in RealHomes, conf \in ConfRecord,
           NEW q, ~q.inProxy, q.ev = r.ev, SamePacket(q, r)
    PROVE  Done(q, proxy_request(r))
  <1> DEFINE s == proxy_request(r)
  <1>1. /\ Calm(s) /\ s.child = "PROXIED" /\ s.nextCb = NoResponse /\ s.ev = r.ev
        /\ SameReply(r, s) /\ SamePacket(r, s) /\ SameMarks(r, s)
    BY ProxyLemma DEF Entry
  <1> HIDE DEF s
  <1>2. Answered(s) /\ (Regular => ~s.failed)
    BY <1>1 DEF Answered, SameMarks, Entry
  <1>3. Keeps(q, s)
    BY <1>1 DEF Keeps, SamePacket
  <1>4. NextRight(s)
    <2>1. Due(s, s.nextWhen)
      BY <1>1, NothingDue DEF Calm, SameReply
    <2> QED
      BY <1>1, <2>1 DEF NextRight
  <1>5. Done(q, s)
    BY <1>1, <1>2, <1>3, <1>4 DEF Done
  <1> QED
    BY <1>5 DEF s

\* successfully_proxied_request().
LEMMA SuccessLemma ==
    ASSUME NEW r, Entry(r), r.reply = "none", conf \in ConfRecord,
           NEW x \in successfully_proxied_request(r)
    PROVE  (x[1] = 1 => Done(r, x[2])) /\ (x[1] # 1 => Along(r, x[2]))
  <1>0. r \in RequestRecord
    BY DEF Entry, Core
  <1>a. Along(r, r)
    BY DEF Along, SamePacket
  <1>1. CASE r.inProxy \/ r.proxyReply \/ ~r.toRealm
    <2>1. x = <<0, r>>
      BY <1>1 DEF successfully_proxied_request
    <2> QED
      BY <2>1, <1>a
  <1>2. CASE ~(r.inProxy \/ r.proxyReply \/ ~r.toRealm)
    <2> DEFINE To(h) == [r EXCEPT !.home = h]
               Virtual(h) == {<<2, t>> : t \in proxy_to_virtual_server(To(h))}
               Out(h) == IF h = NoHome THEN {<<-1, r>>}
                         ELSE {<<-1, To(h)>>, <<0, To(h)>>}
                              \cup (IF h \in RealHomes THEN {<<1, proxy_request(To(h))>>}
                                    ELSE IF To(h).code \in {"auth", "acct"} THEN Virtual(h) ELSE {})
    <2>1. successfully_proxied_request(r) = UNION {Out(h) : h \in home_server_ldb}
      BY <1>2 DEF successfully_proxied_request
    <2>2. PICK h \in home_server_ldb : x \in Out(h)
      BY <2>1
    <2>3. h = NoHome \/ h \in Homes
      BY DEF home_server_ldb, Homes
    <2>4. CASE h = NoHome
      <3>1. x = <<-1, r>>
        BY <2>2, <2>4
      <3> QED
        BY <3>1, <1>a
    <2>5. CASE h # NoHome
      <3> DEFINE s == To(h)
      <3>1. h \in Homes
        BY <2>3, <2>5
      <3>2. /\ Along(r, s) /\ SameReply(r, s) /\ SameMarks(r, s) /\ s.home = h
            /\ s.proxyReply = r.proxyReply /\ s.child = r.child
        BY <3>1, HomeLemma
      <3>3. \/ x = <<-1, s>> \/ x = <<0, s>>
            \/ h \in RealHomes /\ x = <<1, proxy_request(s)>>
            \/ \E t \in proxy_to_virtual_server(s) : x = <<2, t>>
        BY <2>2, <2>5
      <3> HIDE DEF To
      <3>4. Entry(s) /\ s.reply = "none" /\ ~s.proxyReply
        BY <1>2, <3>2 DEF Along, SameReply
      <3>5. CASE x = <<-1, s>> \/ x = <<0, s>>
        BY <3>2, <3>5
      <3>6. CASE h \in RealHomes /\ x = <<1, proxy_request(s)>>
        <4>1. ~r.inProxy /\ r.ev = s.ev /\ SamePacket(r, s) /\ s.home \in RealHomes
          BY <1>2, <3>2, <3>6 DEF Along
        <4>2. Done(r, proxy_request(s))
          BY <3>4, <4>1, ProxiedLemma
        <4> QED
          BY <3>6, <4>2
      <3>7. CASE \E t \in proxy_to_virtual_server(s) : x = <<2, t>>
        <4>1. PICK t \in proxy_to_virtual_server(s) : x = <<2, t>>
          BY <3>7
        <4>2. Along(s, t)
          BY <3>4, VirtualLemma
        <4>3. Along(r, t)
          BY <3>2, <4>2 DEF Along, SamePacket
        <4> QED
          BY <4>1, <4>3
      <3> QED
        BY <3>3, <3>5, <3>6, <3>7
    <2> QED
      BY <2>4, <2>5
  <1> QED
    BY <1>1, <1>2

\* request_post_handler().
LEMMA PostLemma ==
    ASSUME NEW r, Entry(r), Regular => r.child = "RUNNING", conf \in ConfRecord,
           NEW s \in request_post_handler(r)
    PROVE  Done(r, s)
  <1> DEFINE p == r.child = "RUNNING"
             a == RadAssert(r, p)
  <1>0. r \in RequestRecord /\ Core(r)
    BY DEF Entry, Core
  <1>1. /\ request_post_handler(r) =
             IF ~a.inHash /\ a.home # NoHome /\ a.code = "coa"
               THEN {Finish([a EXCEPT !.nextCb = "none"], "DONE")}
             ELSE IF a.inProxy \/ a.reply # "none" \/ a.code = "status" THEN {Respond(a)}
             ELSE UNION {
                 CASE x[1] = 1 -> {x[2]}
                   [] x[1] = -1 /\ setup_post_proxy_fail(x[2]) ->
                        {Respond(t) : t \in request_pre_handler(x[2], FALSE)}
                   [] OTHER -> {Respond(x[2])}
                 : x \in successfully_proxied_request(a)}
    BY DEF request_post_handler
  <1> HIDE DEF p
  <1>2. /\ a \in RequestRecord /\ a.failed = (r.failed \/ ~p) /\ a.child = r.child
        /\ SameTimer(r, a) /\ SameReply(r, a) /\ SamePacket(r, a) /\ SameProxy(r, a)
        /\ a.quiet = r.quiet /\ a.dropped = r.dropped
    BY <1>0, AssertLemma
  <1> HIDE DEF a
  <1>3. Regular => ~a.failed
    BY <1>2 DEF p, Entry
  <1>4. Core(a)
    BY <1>0, <1>2 DEF Core, SameTimer, SameReply, SamePacket, SameProxy
  <1>5. Entry(a)
    BY <1>2, <1>3, <1>4 DEF Entry, SameTimer, SamePacket, SameReply
  <1>6. a.ev = r.ev /\ a.inHash = r.inHash /\ a.key = r.key /\ a.inProxy = r.inProxy
    BY <1>2 DEF SameTimer, SamePacket, SameProxy
  <1>7. SUFFICES Done(a, s)
    BY <1>6, DoneLemma
  <1>8. CASE ~a.inHash /\ a.home # NoHome /\ a.code = "coa"
    <2> DEFINE b == [a EXCEPT !.nextCb = "none"]
    <2>1. s = Finish(b, "DONE")
      BY <1>1, <1>8
    <2>2. /\ b \in RequestRecord /\ b.nextCb = "none" /\ b.ev = a.ev /\ b.when = a.when /\ b.nextWhen = a.nextWhen
          /\ SameReply(a, b) /\ SamePacket(a, b)
      BY <1>2 DEF RequestRecord, Callbacks, SameReply, SamePacket
    <2>3. SameProxy(a, b) /\ SameMarks(a, b)
      BY <1>2 DEF RequestRecord, Callbacks, SameProxy, SameMarks
    <2> HIDE DEF b
    <2>4. Core(b)
      BY <1>4, <2>2, <2>3 DEF Core, SameReply, SamePacket, SameProxy, NoResponse
    <2>5. b.code = "coa" /\ (Regular => ~b.failed) /\ (Regular /\ conf.noResponseFail => ~b.dropped)
      BY <1>5, <1>8, <2>2, <2>3 DEF SamePacket, SameMarks, Entry
    <2>6. Done(b, Finish(b, "DONE"))
      BY <2>4, <2>5, FinishLemma
    <2> QED
      BY <2>1, <2>2, <2>3, <2>6, DoneLemma DEF SamePacket, SameProxy
  <1>9. CASE ~(~a.inHash /\ a.home # NoHome /\ a.code = "coa") /\ (a.inProxy \/ a.reply # "none" \/ a.code = "status")
    <2>1. s = Respond(a)
      BY <1>1, <1>9
    <2> QED
      BY <1>5, <2>1, RespondLemma
  <1>10. CASE ~(~a.inHash /\ a.home # NoHome /\ a.code = "coa") /\ ~(a.inProxy \/ a.reply # "none" \/ a.code = "status")
    <2> DEFINE Out(x) == CASE x[1] = 1 -> {x[2]}
                           [] x[1] = -1 /\ setup_post_proxy_fail(x[2]) ->
                                {Respond(t) : t \in request_pre_handler(x[2], FALSE)}
                           [] OTHER -> {Respond(x[2])}
    <2>1. s \in UNION {Out(x) : x \in successfully_proxied_request(a)}
      BY <1>1, <1>10
    <2>2. PICK x \in successfully_proxied_request(a) : s \in Out(x)
      BY <2>1
    <2>3. (x[1] = 1 => Done(a, x[2])) /\ (x[1] # 1 => Along(a, x[2]))
      BY <1>5, <1>10, SuccessLemma
    <2>4. CASE x[1] = 1
      <3>0. Out(x) = {x[2]}
        BY <2>4
      <3> HIDE DEF Out
      <3>1. s = x[2]
        BY <2>2, <3>0
      <3> QED
        BY <2>3, <2>4, <3>1
    <2>5. CASE x[1] = -1 /\ setup_post_proxy_fail(x[2])
      <3>0. Out(x) = {Respond(t) : t \in request_pre_handler(x[2], FALSE)}
        BY <2>5
      <3> HIDE DEF Out
      <3>1. PICK t \in request_pre_handler(x[2], FALSE) : s = Respond(t)
        BY <2>2, <3>0
      <3>2. Along(a, x[2]) /\ Entry(x[2])
        BY <2>3, <2>5 DEF Along
      <3>a. Along(x[2], t)
        <4> DEFINE y == x[2]
        <4>1. Entry(y) /\ t \in request_pre_handler(y, FALSE)
          BY <3>1, <3>2
        <4> HIDE DEF y
        <4>2. Along(y, t)
          BY ONLY <4>1, PreLemma, Zenon
        <4> QED
          BY <4>2 DEF y
      <3>3. Along(x[2], t) /\ Entry(t)
        BY <3>a DEF Along
      <3>4. Done(t, s)
        BY <3>1, <3>3, RespondLemma
      <3> QED
        BY <3>2, <3>3, <3>4, DoneLemma DEF Along, SamePacket
    <2>6. CASE x[1] # 1 /\ ~(x[1] = -1 /\ setup_post_proxy_fail(x[2]))
      <3>1. s = Respond(x[2])
        BY <2>2, <2>6
      <3>2. Along(a, x[2]) /\ Entry(x[2])
        BY <2>3, <2>6 DEF Along
      <3>3. Done(x[2], s)
        BY <3>1, <3>2, RespondLemma
      <3> QED
        BY <3>2, <3>3, DoneLemma DEF Along, SamePacket
    <2> QED
      BY <2>4, <2>5, <2>6
  <1> QED
    BY <1>8, <1>9, <1>10

\* The request was not handled further.
Stopped(r, s) == Along(r, s) /\ SameReply(r, s) /\ s.child = "DONE" /\ s.quiet

\* radius_handle_request().
LEMMA HandleLemma ==
    ASSUME NEW r, Entry(r), conf \in ConfRecord, NEW d, NEW null, null \/ r.reply = "none",
           NEW s \in radius_handle_request(r, d, null)
    PROVE  Done(r, s) \/ Stopped(r, s)
  <1> DEFINE Funs(a) == IF null THEN {a} ELSE fun(a)
             Out(a) == IF a.child = "RUNNING" THEN UNION {request_post_handler(t) : t \in Funs(a)} ELSE {a}
  <1>1. PICK a \in request_pre_handler(r, d) : s \in Out(a)
    BY DEF radius_handle_request
  <1>2. /\ Along(r, a) /\ SameReply(r, a)
        /\ a.child \in {"RUNNING", "DONE"} /\ (a.child = "DONE" => a.quiet)
    BY PreLemma
  <1>3. CASE a.child = "RUNNING"
    <2>1. PICK t \in Funs(a) : s \in request_post_handler(t)
      BY <1>1, <1>3
    <2>2. Along(a, t) /\ t.child = "RUNNING"
      <3>1. CASE null
        BY <1>2, <1>3, <2>1, <3>1 DEF Along, SamePacket
      <3>2. CASE ~null
        BY <1>2, <1>3, <2>1, <3>2, FunLemma DEF Along, SameReply
      <3> QED
        BY <3>1, <3>2
    <2>3. Done(t, s)
      BY <2>1, <2>2, PostLemma DEF Along
    <2> QED
      BY <1>2, <2>2, <2>3, DoneLemma DEF Along, SamePacket
  <1>4. CASE a.child = "DONE"
    <2>1. s = a
      BY <1>1, <1>4
    <2> QED
      BY <1>2, <1>4, <2>1 DEF Stopped
  <1> QED
    BY <1>2, <1>3, <1>4

\* What Done and Stopped mean for wait_a_bit() and for the event loop.
LEMMA DoneWaits ==
    ASSUME NEW r, NEW s, Done(r, s) \/ Stopped(r, s), conf.haveChildren, conf \in ConfRecord
    PROVE  Rest(wait_a_bit(s)) /\ Keeps(r, wait_a_bit(s))
  <1>1. CASE Done(r, s)
    <2>1. Core(s) /\ Waits(s) /\ Ripe(s) /\ s.child # "FREE" /\ Answered(s) /\ Keeps(r, s)
      BY <1>1 DEF Done, Calm
    <2>2. Regular => ~s.failed /\ NextRight(s)
      BY <1>1 DEF Done
    <2>3. Rest(wait_a_bit(s)) /\ Keeps(s, wait_a_bit(s))
      BY <2>1, <2>2, WaitLemma
    <2> QED
      BY <2>1, <2>3 DEF Keeps
  <1>2. CASE Stopped(r, s)
    <2>1. Entry(s) /\ s.child = "DONE" /\ s.quiet /\ SamePacket(r, s)
      BY <1>2 DEF Stopped, Along
    <2>2. Core(s) /\ Waits(s) /\ Answered(s) /\ (Regular => ~s.failed)
      BY <2>1 DEF Entry, Waits, Answered
    <2>3. Rest(wait_a_bit(s)) /\ Keeps(s, wait_a_bit(s))
      BY <2>1, <2>2, WaitLemma
    <2> QED
      BY <2>1, <2>3 DEF Keeps, SamePacket
  <1> QED
    BY <1>1, <1>2

LEMMA DoneRests ==
    ASSUME NEW r, NEW s, Done(r, s) \/ Stopped(r, s), r.ev = "wait_a_bit", r.reply = "none",
           conf \in ConfRecord
    PROVE  Rest(s) /\ Keeps(r, s)
  <1>1. CASE Done(r, s)
    <2>1. Regular => Timed(s)
      <3>1. CASE conf.haveChildren
        BY <1>1, <3>1 DEF Done, Timed
      <3>2. CASE ~conf.haveChildren
        <4>1. s.child = "PROXIED" => Due(s, s.nextWhen)
          BY <1>1, NothingDue DEF Done, Calm, Waits
        <4> QED
          BY <1>1, <3>2, <4>1 DEF Done, Timed, NextRight, NoResponse
      <3> QED
        BY <3>1, <3>2
    <2> QED
      BY <1>1, <2>1 DEF Done, Rest
  <1>2. CASE Stopped(r, s)
    <2>1. /\ Entry(s) /\ s.child = "DONE" /\ s.quiet /\ SamePacket(r, s) /\ s.ev = "wait_a_bit"
          /\ s.reply = "none"
      BY <1>2 DEF Stopped, Along, SameReply
    <2>2. Calm(s)
      BY <2>1 DEF Calm, Entry, Waits, Ripe
    <2>3. Due(s, s.nextWhen)
      BY <2>1, <2>2, NothingDue DEF Calm
    <2>4. Answered(s) /\ (Regular => ~s.failed /\ Timed(s))
      BY <2>1, <2>3 DEF Entry, Answered, Timed, NextRight
    <2> QED
      BY <2>1, <2>2, <2>4 DEF Rest, Keeps, SamePacket
  <1> QED
    BY <1>1, <1>2

\* post_proxy_fail_handler().
LEMMA FailLemma ==
    ASSUME NEW r, Entry(r), conf \in ConfRecord,
           Regular /\ ~conf.haveChildren => r.inProxy \/ r.ev \in {"wait_a_bit", NoResponse},
           NEW s \in post_proxy_fail_handler(r)
    PROVE  Rest(s) /\ Keeps(r, s)
  <1> DEFINE handled == IF setup_post_proxy_fail(r)
                        THEN radius_handle_request([r EXCEPT !.child = "QUEUED"], FALSE, TRUE)
                        ELSE request_post_handler([r EXCEPT !.child = "RUNNING"])
  <1>1. post_proxy_fail_handler(r) = IF conf.haveChildren THEN {wait_a_bit(t) : t \in handled} ELSE handled
    BY Zenon DEF post_proxy_fail_handler
  <1>2. ASSUME NEW t \in handled
        PROVE  /\ Done(r, t) \/ Stopped(r, t)
               /\ ~setup_post_proxy_fail(r) => Done(r, t)
    <2>1. CASE setup_post_proxy_fail(r)
      <3> DEFINE q == [r EXCEPT !.child = "QUEUED"]
      <3>1. t \in radius_handle_request(q, FALSE, TRUE)
        BY <1>2, <2>1
      <3>2. Along(r, q) /\ SameReply(r, q)
        BY ChildLemma
      <3> HIDE DEF q
      <3>3. Entry(q)
        BY <3>2 DEF Along
      <3>4. Done(q, t) \/ Stopped(q, t)
        <4> DEFINE d == FALSE
                   null == TRUE
        <4>1. t \in radius_handle_request(q, d, null) /\ (null \/ q.reply = "none")
          BY <3>1
        <4> HIDE DEF d, null
        <4> QED
          BY ONLY <3>3, <4>1, HandleLemma, conf \in ConfRecord
      <3>5. Done(q, t) => Done(r, t)
        BY <3>2, DoneLemma DEF Along, SamePacket
      <3>6. Stopped(q, t) => Stopped(r, t)
        BY <3>2 DEF Stopped, Along, SamePacket, SameReply
      <3> QED
        BY <2>1, <3>4, <3>5, <3>6
    <2>2. CASE ~setup_post_proxy_fail(r)
      <3> DEFINE q == [r EXCEPT !.child = "RUNNING"]
      <3>1. t \in request_post_handler(q)
        BY <1>2, <2>2
      <3>2. Along(r, q) /\ q.child = "RUNNING"
        BY ChildLemma
      <3> HIDE DEF q
      <3>3. Done(q, t)
        BY <3>1, <3>2, PostLemma DEF Along
      <3> QED
        BY <3>2, <3>3, DoneLemma DEF Along, SamePacket
    <2> QED
      BY <2>1, <2>2
  <1> HIDE DEF handled
  <1>3. CASE conf.haveChildren
    <2>1. PICK t \in handled : s = wait_a_bit(t)
      BY <1>1, <1>3
    <2> QED
      BY <1>2, <1>3, <2>1, DoneWaits
  <1>4. CASE ~conf.haveChildren
    <2>1. (Done(r, s) \/ Stopped(r, s)) /\ (~setup_post_proxy_fail(r) => Done(r, s))
      BY <1>1, <1>2, <1>4
    <2>2. CASE Done(r, s)
      <3>1. Regular => Timed(s)
        <4>1. s.child = "PROXIED" => Due(s, s.nextWhen) /\ Due(s, s.when)
          BY <2>2, NothingDue DEF Done, Calm, Waits
        <4> QED
          BY <1>4, <2>2, <4>1 DEF Done, Timed, NextRight, NoResponse
      <3> QED
        BY <2>2, <3>1 DEF Done, Rest
    <2>3. CASE ~Done(r, s)
      <3>1. Stopped(r, s) /\ conf.postProxyFail
        BY <2>1, <2>3 DEF setup_post_proxy_fail
      <3>2. ~Regular /\ ~Delays
        BY <1>4, <3>1 DEF Regular, Delays
      <3>3. Entry(s) /\ s.child = "DONE" /\ SamePacket(r, s)
        BY <3>1 DEF Stopped, Along
      <3>4. Calm(s) /\ Answered(s)
        BY <3>2, <3>3 DEF Calm, Entry, Waits, Ripe, Answered
      <3> QED
        BY <3>2, <3>3, <3>4 DEF Rest, Keeps, SamePacket
    <2> QED
      BY <2>2, <2>3
  <1> QED
    BY <1>3, <1>4

\* proxy_fallback_handler().
LEMMA FallbackLemma ==
    ASSUME NEW r, Entry(r), r.reply = "none", r.code = "auth", ~Regular, conf \in ConfRecord,
           NEW s \in proxy_fallback_handler(r)
    PROVE  Rest(s) /\ Keeps(r, s)
  <1> DEFINE q == [r EXCEPT !.child = "QUEUED", !.nextWhen = 1, !.nextCb = "wait_a_bit"]
             Out(a) == IF a.child = "RUNNING"
                       THEN UNION {request_post_handler(t) : t \in proxy_to_virtual_server(a)}
                       ELSE {a}
  <1>0. r \in RequestRecord /\ Core(r)
    BY DEF Entry, Core
  <1>1. PICK a \in request_pre_handler(q, FALSE) : s \in Out(a)
    BY DEF proxy_fallback_handler
  <1>2. 1 \in {NeverSet} \cup Times /\ "QUEUED" \in ChildStates /\ "wait_a_bit" \in Callbacks
    BY Caps, RequestAssumption DEF ChildStates, Callbacks
  <1>3. /\ q \in RequestRecord /\ q.ev = r.ev /\ q.when = r.when /\ q.nextCb = "wait_a_bit"
        /\ SameReply(r, q) /\ SamePacket(r, q)
    BY <1>0, <1>2 DEF RequestRecord, SameReply, SamePacket
  <1>4. SameProxy(r, q) /\ SameMarks(r, q)
    BY <1>0, <1>2 DEF RequestRecord, SameProxy, SameMarks
  <1> HIDE DEF q
  <1>5. Core(q)
    BY <1>0, <1>3, <1>4 DEF Core, SameReply, SamePacket, SameProxy, NoResponse
  <1>6. Entry(q)
    BY <1>3, <1>5 DEF Entry, SamePacket
  <1>7. /\ Along(q, a) /\ SameReply(q, a)
        /\ a.child \in {"RUNNING", "DONE"} /\ (a.child = "DONE" => a.quiet)
    <2> DEFINE d == FALSE
    <2>1. a \in request_pre_handler(q, d)
      BY <1>1
    <2> HIDE DEF d
    <2> QED
      BY <1>6, <2>1, PreLemma
  <1>8. Entry(a) /\ a.reply = "none"
    BY <1>3, <1>7 DEF Along, SameReply
  <1>9. CASE a.child = "RUNNING"
    <2>1. PICK t \in proxy_to_virtual_server(a) : s \in request_post_handler(t)
      BY <1>1, <1>9
    <2>2. Along(a, t)
      BY <1>8, VirtualLemma
    <2>3. Done(t, s)
      BY <2>1, <2>2, PostLemma DEF Along
    <2>4. Keeps(r, s)
      BY <1>3, <1>7, <2>2, <2>3 DEF Along, SamePacket, Done, Keeps
    <2> QED
      BY <2>3, <2>4 DEF Done, Rest
  <1>10. CASE a.child = "DONE"
    <2>1. s = a
      BY <1>1, <1>10
    <2>2. Calm(s) /\ Answered(s)
      BY <1>8, <1>10, <2>1 DEF Calm, Entry, Waits, Ripe, Answered
    <2>3. Keeps(r, s)
      BY <1>3, <1>7, <2>1 DEF Along, SamePacket, Keeps
    <2> QED
      BY <2>2, <2>3 DEF Rest
  <1> QED
    BY <1>7, <1>9, <1>10

-----------------------------------------------------------------------------
\* fr_event_run() takes the event off the list.
LEMMA FiredLemma ==
    ASSUME NEW o, Rest(o)
    PROVE  LET r == [o EXCEPT !.ev = "none"] IN
           /\ Core(r) /\ Waits(r) /\ Ripe(r) /\ Answered(r) /\ r.child = o.child
           /\ r.ev = "none" /\ r.nextCb = o.nextCb /\ r.nextWhen = o.nextWhen /\ r.when = o.when
           /\ SameReply(o, r) /\ SamePacket(o, r) /\ SameProxy(o, r) /\ SameMarks(o, r)
  <1> DEFINE r == [o EXCEPT !.ev = "none"]
  <1>0. o \in RequestRecord
    BY DEF Rest, Calm, Core
  <1>1. /\ r \in RequestRecord /\ r.child = o.child /\ r.ev = "none" /\ r.nextCb = o.nextCb
        /\ r.nextWhen = o.nextWhen /\ r.when = o.when
    BY <1>0 DEF RequestRecord, Callbacks
  <1>2. SameReply(o, r) /\ SamePacket(o, r) /\ SameProxy(o, r) /\ SameMarks(o, r)
    BY <1>0 DEF RequestRecord, SameReply, SamePacket, SameProxy, SameMarks
  <1> HIDE DEF r
  <1>3. Core(r)
    BY <1>1, <1>2 DEF Rest, Calm, Core, SameReply, SamePacket, SameProxy, NoResponse
  <1>4. Waits(r) /\ Ripe(r)
    BY <1>1, <1>2 DEF Rest, Calm, Waits, Ripe, SameReply, SamePacket, SameProxy
  <1>5. Answered(r)
    BY <1>1, <1>2 DEF Rest, Answered, SameReply, SamePacket, SameMarks
  <1> QED
    BY <1>1, <1>2, <1>3, <1>4, <1>5 DEF r

\* The callback reject_delay().
LEMMA RejectLemma ==
    ASSUME NEW o, Rest(o), o.ev = "reject_delay", o.when <= 0, o.child # "FREE", conf \in ConfRecord,
           NEW r, r = [o EXCEPT !.ev = "none"]
    PROVE  Rest(reject_delay(r)) /\ Keeps(o, reject_delay(r))
  <1> DEFINE p == r.child = "REJECT_DELAY"
             a == RadAssert(r, p)
             n == Send(a)
             b == [n EXCEPT !.when = n.when + CleanupDelay, !.child = "CLEANUP_DELAY", !.late = -r.when]
             s == [b EXCEPT !.ev = "cleanup_delay"]
  <1>1. reject_delay(r) = s
    BY DEF reject_delay, INSERT_EVENT
  <1>2. /\ Core(r) /\ Waits(r) /\ Ripe(r) /\ Answered(r) /\ r.child = o.child
        /\ r.ev = "none" /\ r.nextCb = o.nextCb /\ r.nextWhen = o.nextWhen /\ r.when = o.when
        /\ SameReply(o, r) /\ SamePacket(o, r) /\ SameProxy(o, r) /\ SameMarks(o, r)
    BY FiredLemma
  <1>3. r \in RequestRecord /\ Core(o) /\ o \in RequestRecord
    BY <1>2 DEF Core, Rest, Calm
  <1>4. Regular => p
    BY <1>2 DEF Rest, Timed, NoResponse
  <1> HIDE DEF p
  <1>5. /\ a \in RequestRecord /\ a.failed = (r.failed \/ ~p) /\ a.child = r.child
        /\ SameTimer(r, a) /\ SameReply(r, a) /\ SamePacket(r, a) /\ SameProxy(r, a)
        /\ a.quiet = r.quiet /\ a.dropped = r.dropped
    BY ONLY <1>3, AssertLemma
  <1>6. Regular => ~a.failed
    <2>1. Regular => ~r.failed
      BY <1>2 DEF Rest, SameMarks
    <2> QED
      BY <1>4, <1>5, <2>1
  <1> HIDE DEF a
  <1>7. Core(a)
    BY <1>2, <1>5 DEF Core, SameTimer, SameReply, SamePacket, SameProxy
  <1>8. a.reply = "reject" /\ a.age >= RejectDelay
    <2>1. o.reply = "reject" /\ o.age + o.when >= RejectDelay
      BY <1>3 DEF Core
    <2>2. o.age \in Nat /\ o.when \in Int
      BY <1>3, Fields, Caps
    <2>3. a.reply = o.reply /\ a.age = o.age
      BY <1>2, <1>5 DEF SameReply, SamePacket
    <2> QED
      BY <2>1, <2>2, <2>3, RequestAssumption
  <1>9. /\ Core(n) /\ n.sent # {} /\ n.child = a.child /\ n.reply = a.reply
        /\ SameTimer(a, n) /\ SamePacket(a, n) /\ SameProxy(a, n) /\ SameMarks(a, n)
    BY <1>7, <1>8, SendLemma
  <1> HIDE DEF n
  <1>10. n \in RequestRecord /\ n.when = o.when /\ r.when = o.when /\ n.age >= RejectDelay /\ n.nextCb = o.nextCb
    BY <1>2, <1>5, <1>8, <1>9 DEF Core, SameTimer, SamePacket
  <1> DEFINE w == n.when + CleanupDelay
             l == -r.when
  <1>11. w \in Times /\ l \in 0 .. CleanupDelay /\ w + l = CleanupDelay /\ w \in Int
    <2>1. o.when \in Int /\ -CleanupDelay <= o.when
      BY <1>3, Fields, Caps
    <2> QED
      BY <1>10, <2>1, Caps, RequestAssumption
  <1> HIDE DEF w, l
  <1>12. b = [n EXCEPT !.when = w, !.child = "CLEANUP_DELAY", !.late = l]
    BY DEF w, l
  <1> HIDE DEF b
  <1>13. /\ b \in RequestRecord /\ b.child = "CLEANUP_DELAY" /\ b.nextCb = n.nextCb /\ b.nextWhen = n.nextWhen
         /\ b.when = w /\ b.late = l
    <2> DEFINE d == [n EXCEPT !.when = w, !.child = "CLEANUP_DELAY"]
    <2>1. /\ d \in RequestRecord /\ d.child = "CLEANUP_DELAY" /\ d.nextCb = n.nextCb /\ d.nextWhen = n.nextWhen
          /\ d.when = w
      <3> DEFINE d1 == [n EXCEPT !.when = w]
      <3>1. d1 \in RequestRecord /\ d1.nextCb = n.nextCb /\ d1.nextWhen = n.nextWhen /\ d1.when = w
        BY ONLY <1>10, <1>11 DEF RequestRecord, d1
      <3>2. d = [d1 EXCEPT !.child = "CLEANUP_DELAY"]
        OBVIOUS
      <3> HIDE DEF d1
      <3> QED
        BY ONLY <3>1, <3>2 DEF RequestRecord, ChildStates
    <2>2. b = [d EXCEPT !.late = l]
      BY <1>12
    <2> HIDE DEF d
    <2> QED
      BY ONLY <1>11, <2>1, <2>2 DEF RequestRecord
  <1>14. /\ SameReply(n, b) /\ SameProxy(n, b) /\ SameMarks(n, b)
         /\ b.key = n.key /\ b.inHash = n.inHash /\ b.code = n.code /\ b.age = n.age
    BY <1>10, <1>12 DEF RequestRecord, SameReply, SameProxy, SameMarks
  <1>15. /\ s \in RequestRecord /\ s.child = "CLEANUP_DELAY" /\ s.nextCb = n.nextCb /\ s.nextWhen = n.nextWhen
         /\ s.ev = "cleanup_delay" /\ s.when = w /\ s.late = l
    BY <1>13 DEF RequestRecord, Callbacks
  <1>16. /\ SameReply(n, s) /\ SameProxy(n, s) /\ SameMarks(n, s)
         /\ s.key = n.key /\ s.inHash = n.inHash /\ s.code = n.code /\ s.age = n.age
    BY <1>13, <1>14 DEF RequestRecord, SameReply, SameProxy, SameMarks
  <1> HIDE DEF s
  <1>17. Core(s)
    BY <1>9, <1>15, <1>16 DEF Core, SameReply, SamePacket, SameProxy, SameTimer, NoResponse
  <1>18. Calm(s)
    BY <1>10, <1>15, <1>16, <1>17 DEF Calm, Waits, Ripe, SamePacket
  <1>19. s.failed = a.failed /\ s.dropped = r.dropped /\ s.sent # {}
    BY <1>5, <1>9, <1>16 DEF SameMarks, SameReply
  <1>20. Answered(s)
    BY <1>2, <1>19 DEF Answered
  <1>21. Regular => ~s.failed /\ Timed(s)
    <2>1. s.cached \in 0 .. CleanupDelay
      BY <1>15, Fields
    <2>2. Due(s, s.when)
      BY <1>11, <1>15, <1>19, <2>1, RequestAssumption DEF Due
    <2> QED
      BY <1>6, <1>15, <1>19, <2>2 DEF Timed
  <1>22. Keeps(o, s)
    BY <1>2, <1>5, <1>9, <1>16 DEF Keeps, SamePacket
  <1> QED
    BY <1>1, <1>18, <1>20, <1>21, <1>22 DEF Rest

\* no_response_to_proxied_request().
LEMMA NoResponseLemma ==
    ASSUME NEW o, Rest(o), o.ev = NoResponse, o.child # "FREE", conf \in ConfRecord,
           NEW r, r = [o EXCEPT !.ev = "none"],
           NEW s \in no_response_to_proxied_request(r)
    PROVE  Rest(s) /\ Keeps(o, s)
  <1> DEFINE p == r.child = "PROXIED"
             a == RadAssert(r, p)
             h == a.hasty \/ (r.proxyAge < ResponseWindow /\ r.age < MaxRequestTime)
             b == [a EXCEPT !.hasty = h]
             c == [b EXCEPT !.child = "RUNNING"]
  <1>1. no_response_to_proxied_request(r) =
          IF b.home \in VirtualHomes THEN {wait_a_bit(b)}
          ELSE IF conf.noResponseFail THEN post_proxy_fail_handler(b) ELSE {wait_a_bit(c)}
    BY DEF no_response_to_proxied_request
  <1>2. /\ Core(r) /\ Waits(r) /\ Ripe(r) /\ Answered(r) /\ r.child = o.child
        /\ r.ev = "none" /\ r.nextCb = o.nextCb /\ r.nextWhen = o.nextWhen /\ r.when = o.when
        /\ SameReply(o, r) /\ SamePacket(o, r) /\ SameProxy(o, r) /\ SameMarks(o, r)
    BY FiredLemma
  <1>3. r \in RequestRecord
    BY <1>2 DEF Core
  <1>4. Regular => p /\ ~r.failed
    BY <1>2 DEF Rest, Timed, NoResponse, SameMarks
  <1> HIDE DEF p
  <1>5. /\ a \in RequestRecord /\ a.failed = (r.failed \/ ~p) /\ a.child = r.child
        /\ SameTimer(r, a) /\ SameReply(r, a) /\ SamePacket(r, a) /\ SameProxy(r, a)
        /\ a.quiet = r.quiet /\ a.dropped = r.dropped
    BY ONLY <1>3, AssertLemma
  <1>6. Regular => ~a.failed
    BY <1>4, <1>5
  <1> HIDE DEF a
  <1>7. h \in BOOLEAN
    OBVIOUS
  <1> HIDE DEF h
  <1>8. b \in RequestRecord /\ b.child = a.child
    BY <1>5, <1>7 DEF RequestRecord
  <1>9. SameTimer(a, b) /\ SameReply(a, b) /\ SamePacket(a, b) /\ SameProxy(a, b) /\ SameMarks(a, b)
    BY <1>5, <1>7 DEF RequestRecord, SameTimer, SameReply, SamePacket, SameProxy, SameMarks
  <1> HIDE DEF b
  <1>10. /\ SameTimer(r, b) /\ SameReply(r, b) /\ SamePacket(r, b) /\ SameProxy(r, b) /\ b.child = r.child
         /\ b.quiet = r.quiet /\ b.dropped = r.dropped /\ b.failed = a.failed
    BY <1>5, <1>8, <1>9 DEF SameTimer, SameReply, SamePacket, SameProxy, SameMarks
  <1>11. Core(b)
    BY <1>2, <1>8, <1>10 DEF Core, SameTimer, SameReply, SamePacket, SameProxy
  <1>12. Waits(b) /\ Ripe(b) /\ Answered(b) /\ b.child # "FREE"
    BY <1>2, <1>10 DEF Waits, Ripe, Answered, SameTimer, SameReply, SamePacket, SameProxy
  <1>13. Regular => ~b.failed
    BY <1>6, <1>10
  <1>14. Entry(b)
    <2>1. b.code = "coa" => b.ev # NoResponse /\ b.nextWhen <= ResponseWindow
      BY <1>2, <1>10 DEF SameTimer, SamePacket, Rest, Calm, Core, NoResponse
    <2>2. Regular => b.sent = {}
      BY <1>2, <1>4, <1>10 DEF Core, Waits, SameReply, p
    <2> QED
      BY <1>11, <1>12, <1>13, <2>1, <2>2 DEF Entry, Answered
  <1>15. SUFFICES Rest(s) /\ Keeps(b, s)
    BY <1>2, <1>10 DEF Keeps, SamePacket
  <1>16. CASE b.home \in VirtualHomes
    <2>1. ~Regular
      BY <1>4, <1>10, <1>12, <1>16, RequestAssumption DEF Waits, p
    <2>2. s = wait_a_bit(b)
      BY <1>1, <1>16
    <2> QED
      BY <1>11, <1>12, <2>1, <2>2, WaitLemma
  <1>17. CASE b.home \notin VirtualHomes /\ conf.noResponseFail
    <2>1. s \in post_proxy_fail_handler(b)
      BY <1>1, <1>17
    <2>2. Regular /\ ~conf.haveChildren => b.inProxy
      BY <1>4, <1>10, <1>12 DEF Waits, p, Regular
    <2> QED
      BY <1>14, <2>1, <2>2, FailLemma
  <1>18. CASE b.home \notin VirtualHomes /\ ~conf.noResponseFail
    <2>1. s = wait_a_bit(c)
      BY <1>1, <1>18
    <2>2. Along(b, c) /\ c.child = "RUNNING"
      BY <1>14, ChildLemma
    <2> HIDE DEF c
    <2>3. Core(c) /\ Waits(c) /\ Answered(c) /\ (Regular => ~c.failed)
      BY <1>18, <2>2 DEF Along, Entry, Waits, Answered
    <2>4. Rest(s) /\ Keeps(c, s)
      BY <2>1, <2>2, <2>3, WaitLemma
    <2> QED
      BY <2>2, <2>4 DEF Keeps, Along, SamePacket
  <1> QED
    BY <1>16, <1>17, <1>18

\* A duplicate finds the home server dead.
LEMMA FailOverLemma ==
    ASSUME NEW r, Rest(r), r.child = "PROXIED", r.code = "auth", conf \in ConfRecord,
           NEW s \in FailOver(r)
    PROVE  Rest(s) /\ Keeps(r, s)
  <1> DEFINE a == [r EXCEPT !.inProxy = FALSE]
             To(h) == [a EXCEPT !.home = h]
             Again(t) == [INSERT_EVENT(proxy_request(t), proxy_request(t).nextCb) EXCEPT !.nextCb = "none"]
             Out(h) == IF h = NoHome THEN post_proxy_fail_handler(a)
                       ELSE IF h \in VirtualHomes THEN proxy_fallback_handler(To(h))
                       ELSE {Again(To(h))} \cup post_proxy_fail_handler(To(h))
  <1>0. r \in RequestRecord
    BY DEF Rest, Calm, Core
  <1>1. FailOver(r) = UNION {Out(h) : h \in home_server_ldb}
    BY DEF FailOver
  <1>2. /\ a \in RequestRecord /\ a.child = "PROXIED" /\ a.inProxy = FALSE /\ a.home = r.home
        /\ a.proxyReply = r.proxyReply
        /\ SameTimer(r, a) /\ SameReply(r, a)
    BY <1>0 DEF RequestRecord, SameTimer, SameReply
  <1>3. SamePacket(r, a) /\ SameMarks(r, a)
    BY <1>0 DEF RequestRecord, SamePacket, SameMarks
  <1> HIDE DEF a
  <1>4. Core(a)
    BY <1>2, <1>3 DEF Rest, Calm, Core, SameTimer, SameReply, SamePacket
  <1>5. Entry(a) /\ a.code = "auth" /\ a.reply = "none" /\ ~a.proxyReply
    <2>1. a.reply = "none" /\ a.sent = {}
      BY <1>2 DEF Rest, Calm, Core, Waits, SameReply
    <2> QED
      BY <1>2, <1>3, <1>4, <2>1 DEF Entry, Rest, Calm, Waits, Answered, SamePacket, SameMarks
  <1>6. Regular => a.ev \in {"wait_a_bit", NoResponse}
    BY <1>2 DEF Rest, Timed, SameTimer
  <1>7. PICK h \in home_server_ldb : s \in Out(h)
    BY <1>1
  <1>8. SUFFICES Rest(s) /\ Keeps(a, s)
    BY <1>3 DEF Keeps, SamePacket
  <1>9. CASE h = NoHome
    <2>1. s \in post_proxy_fail_handler(a)
      BY <1>7, <1>9
    <2> QED
      BY <1>5, <1>6, <2>1, FailLemma
  <1>10. CASE h # NoHome
    <2> DEFINE t == To(h)
    <2>1. h \in Homes
      BY <1>10 DEF home_server_ldb, Homes
    <2>2. /\ Along(a, t) /\ SameReply(a, t) /\ SameMarks(a, t) /\ t.home = h
          /\ t.proxyReply = a.proxyReply /\ t.child = a.child
      BY <1>5, <2>1, HomeLemma
    <2>3. \/ h \in VirtualHomes /\ s \in proxy_fallback_handler(t)
          \/ h \notin VirtualHomes /\ s \in post_proxy_fail_handler(t)
          \/ h \notin VirtualHomes /\ s = Again(t)
      BY <1>7, <1>10
    <2> HIDE DEF To
    <2>4. Entry(t) /\ t.reply = "none" /\ ~t.proxyReply /\ t.code = "auth" /\ t.ev = a.ev
      BY <1>5, <2>2 DEF Along, SameReply, SamePacket
    <2>5. SUFFICES Rest(s) /\ Keeps(t, s)
      BY <2>2 DEF Keeps, Along, SamePacket
    <2>6. CASE h \in VirtualHomes /\ s \in proxy_fallback_handler(t)
      <3>1. ~Regular
        BY <2>6, <1>10, RequestAssumption DEF home_server_ldb, Regular
      <3> QED
        BY <2>4, <2>6, <3>1, FallbackLemma
    <2>7. CASE h \notin VirtualHomes /\ s \in post_proxy_fail_handler(t)
      BY <1>6, <2>4, <2>7, FailLemma
    <2>8. CASE h \notin VirtualHomes /\ s = Again(t)
      <3> DEFINE p == proxy_request(t)
                 e == [p EXCEPT !.ev = p.nextCb]
                 g == [e EXCEPT !.nextCb = "none"]
      <3>1. s = g
        BY <2>8 DEF INSERT_EVENT
      <3>2. h \in RealHomes
        BY <2>1, <2>8 DEF Homes
      <3>3. /\ Calm(p) /\ p.child = "PROXIED" /\ p.nextCb = NoResponse /\ p.ev = t.ev /\ p.inProxy
            /\ SameReply(t, p) /\ SamePacket(t, p) /\ SameMarks(t, p)
        BY <2>2, <2>4, <3>2, ProxyLemma DEF Entry
      <3> HIDE DEF p
      <3>4. p \in RequestRecord /\ NoResponse \in Callbacks
        BY <3>3 DEF Calm, Core, NoResponse, Callbacks
      <3>5. /\ e \in RequestRecord /\ e.child = "PROXIED" /\ e.ev = NoResponse /\ e.nextWhen = p.nextWhen
            /\ SameReply(p, e) /\ SamePacket(p, e)
        BY <3>3, <3>4 DEF RequestRecord, SameReply, SamePacket
      <3>6. SameProxy(p, e) /\ SameMarks(p, e)
        BY <3>3, <3>4 DEF RequestRecord, SameProxy, SameMarks
      <3> HIDE DEF e
      <3>7. /\ g \in RequestRecord /\ g.child = "PROXIED" /\ g.ev = NoResponse /\ g.nextWhen = p.nextWhen
            /\ g.nextCb = "none" /\ SameReply(p, g) /\ SamePacket(p, g)
        BY <3>5 DEF RequestRecord, SameReply, SamePacket, Callbacks
      <3>8. SameProxy(p, g) /\ SameMarks(p, g)
        BY <3>5, <3>6 DEF RequestRecord, SameProxy, SameMarks
      <3> HIDE DEF g
      <3>9. Core(g)
        BY <3>3, <3>7, <3>8 DEF Calm, Core, SameReply, SamePacket, SameProxy, NoResponse
      <3>10. Calm(g)
        BY <3>3, <3>7, <3>8, <3>9 DEF Calm, Waits, Ripe, SameReply, SamePacket, SameProxy
      <3>11. Regular => ~g.failed /\ Timed(g)
        <4>1. Due(g, g.when)
          BY <3>7, <3>9, <3>10, NothingDue DEF Calm, Waits
        <4> QED
          BY <2>4, <3>3, <3>7, <3>8, <4>1 DEF Timed, SameMarks, Entry
      <3>12. Answered(g)
        BY <2>4, <3>3, <3>7, <3>8 DEF Answered, SameMarks, Entry
      <3>13. Keeps(t, g)
        BY <3>3, <3>7 DEF Keeps, SamePacket
      <3> QED
        BY <3>1, <3>10, <3>11, <3>12, <3>13 DEF Rest
    <2> QED
      BY <2>3, <2>6, <2>7, <2>8
  <1> QED
    BY <1>9, <1>10

\* received_retransmit().
LEMMA RetransmitLemma ==
    ASSUME NEW r, Rest(r), r.inHash, r.child = "PROXIED" => r.sends <= MaxDups, conf \in ConfRecord,
           NEW s \in received_retransmit(r)
    PROVE  Rest(s) /\ Keeps(r, s)
  <1>0. r \in RequestRecord /\ Core(r)
    BY DEF Rest, Calm, Core
  <1>1. CASE r.child = "PROXIED" /\ r.code = "auth" /\ r.home \in dead
    <2>1. s \in FailOver(r)
      BY <1>1 DEF received_retransmit
    <2> QED
      BY <1>1, <2>1, FailOverLemma
  <1>2. CASE r.child = "PROXIED" /\ r.code = "auth" /\ r.home \notin dead
    <2> DEFINE n == r.sends + 1
               t == [r EXCEPT !.sends = n]
    <2>1. s = t
      BY <1>2 DEF received_retransmit
    <2>2. n \in 0 .. MaxDups + 1 /\ n > r.sends /\ r.answers \in Int /\ r.sends \in Int
      BY <1>0, <1>2, Fields, RequestAssumption
    <2> HIDE DEF n
    <2>3. /\ t \in RequestRecord /\ t.child = r.child /\ t.sends = n /\ t.answers = r.answers
          /\ t.inProxy = r.inProxy /\ t.home = r.home /\ t.proxyReply = r.proxyReply
      BY <1>0, <2>2 DEF RequestRecord
    <2>4. SameTimer(r, t) /\ SameReply(r, t) /\ SamePacket(r, t) /\ SameMarks(r, t)
      BY <1>0, <2>2 DEF RequestRecord, SameTimer, SameReply, SamePacket, SameMarks
    <2> HIDE DEF t
    <2>a. t.inProxy => t.answers < t.sends
      BY <1>0, <2>2, <2>3 DEF Core
    <2>5. Core(t)
      BY <1>0, <2>a, <2>3, <2>4 DEF Core, SameTimer, SameReply, SamePacket
    <2>6. Calm(t)
      BY <1>2, <2>3, <2>4, <2>5 DEF Rest, Calm, Waits, Ripe, SameTimer, SameReply, SamePacket
    <2>7. Answered(t)
      BY <2>3, <2>4 DEF Rest, Answered, SameReply, SamePacket, SameMarks
    <2>8. Regular => ~t.failed /\ Timed(t)
      <3>1. Due(t, t.when) /\ Due(t, t.nextWhen)
        BY <1>2, <2>3, <2>5, <2>6, NothingDue DEF Calm, Waits
      <3> QED
        BY <2>3, <2>4, <3>1 DEF Rest, Timed, NextRight, SameTimer, SamePacket, SameMarks
    <2>9. Keeps(r, t)
      BY <2>4 DEF Keeps, SamePacket
    <2> QED
      BY <2>1, <2>6, <2>7, <2>8, <2>9 DEF Rest
  <1>3. CASE r.child \in {"CLEANUP_DELAY", "DONE"} /\ r.reply # "none"
    <2> DEFINE t == Send(r)
    <2>1. s = t
      BY <1>3 DEF received_retransmit
    <2>2. Delays /\ r.code = "auth" /\ r.reply = "reject" => r.age >= RejectDelay
      BY <1>3 DEF Rest, Calm, Ripe
    <2>3. /\ Core(t) /\ t.sent # {} /\ t.child = r.child /\ t.reply = r.reply
          /\ SameTimer(r, t) /\ SamePacket(r, t) /\ SameProxy(r, t) /\ SameMarks(r, t)
      BY <1>0, <1>3, <2>2, SendLemma
    <2> HIDE DEF t
    <2>4. Calm(t)
      BY <1>3, <2>3 DEF Rest, Calm, Waits, Ripe, SamePacket, SameProxy
    <2>5. Answered(t)
      BY <2>3 DEF Rest, Answered, SameMarks
    <2>6. Regular => ~t.failed /\ Timed(t)
      <3>1. ASSUME NEW w, Due(r, w) PROVE Due(t, w)
        BY <1>3, <2>3, <3>1 DEF Due, SamePacket
      <3> QED
        BY <2>3, <3>1 DEF Rest, Timed, NextRight, SameTimer, SamePacket, SameMarks
    <2>7. Keeps(r, t)
      BY <2>3 DEF Keeps, SamePacket
    <2> QED
      BY <2>1, <2>4, <2>5, <2>6, <2>7 DEF Rest
  <1>4. CASE ~(r.child = "PROXIED" /\ r.code = "auth") /\ ~(r.child \in {"CLEANUP_DELAY", "DONE"} /\ r.reply # "none")
    <2>1. s = r
      BY <1>4 DEF received_retransmit
    <2> QED
      BY <2>1 DEF Keeps
  <1> QED
    BY <1>1, <1>2, <1>3, <1>4

\* An older request makes way for a packet with its key.
LEMMA GivenUpLemma ==
    ASSUME NEW r, Rest(r), r.inHash, conf \in ConfRecord
    PROVE  Rest(GivenUp(r)) /\ ~GivenUp(r).inHash
  <1>0. r \in RequestRecord /\ Core(r) /\ r.child \in ChildStates
    BY Fields DEF Rest, Calm, Core
  <1> DEFINE a == [r EXCEPT !.quiet = TRUE]
             b == [a EXCEPT !.child = "DONE"]
             c == [a EXCEPT !.inHash = FALSE]
             p == r.child = "PROXIED" => r.ev # "none"
  <1>1. GivenUp(r) = IF r.child \in {"REJECT_DELAY", "CLEANUP_DELAY", "DONE"} THEN cleanup_delay(b)
                     ELSE RadAssert(c, p)
    BY DEF GivenUp
  <1>2. a \in RequestRecord /\ a.quiet = TRUE /\ a.child = r.child /\ a.failed = r.failed /\ a.dropped = r.dropped
        /\ SameTimer(r, a) /\ SameReply(r, a)
    BY <1>0 DEF RequestRecord, SameTimer, SameReply
  <1>3. SamePacket(r, a) /\ SameProxy(r, a)
    BY <1>0 DEF RequestRecord, SamePacket, SameProxy
  <1> HIDE DEF a, p
  <1>4. CASE r.child \in {"REJECT_DELAY", "CLEANUP_DELAY", "DONE"}
    <2>1. b \in RequestRecord /\ b.quiet = TRUE /\ b.child = "DONE" /\ b.failed = r.failed /\ b.dropped = r.dropped
          /\ SameTimer(r, b) /\ SameReply(r, b)
      BY <1>2 DEF RequestRecord, SameTimer, SameReply, ChildStates
    <2>2. SamePacket(r, b) /\ SameProxy(r, b)
      BY <1>2, <1>3 DEF RequestRecord, SamePacket, SameProxy, ChildStates
    <2> HIDE DEF b
    <2>3. Core(b)
      BY <1>0, <2>1, <2>2 DEF Core, SameTimer, SameReply, SamePacket, SameProxy
    <2>4. Waits(b) /\ Answered(b) /\ (Regular => ~b.failed)
      BY <2>1 DEF Waits, Answered, Rest
    <2> QED
      BY <1>1, <1>4, <2>1, <2>3, <2>4, CleanupLemma
  <1>5. CASE r.child \notin {"REJECT_DELAY", "CLEANUP_DELAY", "DONE"}
    <2> DEFINE s == RadAssert(c, p)
    <2>0. r.child = "PROXIED"
      BY <1>0, <1>5 DEF ChildStates, Rest, Calm
    <2>1. /\ c \in RequestRecord /\ c.quiet = TRUE /\ c.child = r.child /\ c.failed = r.failed
          /\ c.dropped = r.dropped /\ c.inHash = FALSE /\ c.code = r.code /\ c.age = r.age
      BY <1>2, <1>3 DEF RequestRecord, SamePacket
    <2>2. SameTimer(r, c) /\ SameReply(r, c) /\ SameProxy(r, c)
      BY <1>2, <1>3 DEF RequestRecord, SameTimer, SameReply, SameProxy
    <2> HIDE DEF c
    <2>3. /\ s \in RequestRecord /\ s.failed = (c.failed \/ ~p) /\ s.child = c.child
          /\ SameTimer(c, s) /\ SameReply(c, s) /\ SamePacket(c, s) /\ SameProxy(c, s)
          /\ s.quiet = c.quiet /\ s.dropped = c.dropped
      BY ONLY <2>1, AssertLemma
    <2> HIDE DEF s
    <2>4. Regular => p /\ ~r.failed
      BY <2>0 DEF Rest, Timed, NoResponse, p
    <2>5. Regular => ~s.failed
      BY <2>1, <2>3, <2>4
    <2>6. /\ s.child = "PROXIED" /\ s.dropped = r.dropped /\ s.inHash = FALSE /\ s.code = r.code /\ s.age = r.age
          /\ SameTimer(r, s) /\ SameReply(r, s) /\ SameProxy(r, s)
      BY <2>0, <2>1, <2>2, <2>3 DEF SameTimer, SameReply, SamePacket, SameProxy
    <2>7. Core(s)
      BY <1>0, <2>3, <2>6 DEF Core, SameTimer, SameReply, SameProxy
    <2>8. Calm(s)
      BY <2>0, <2>6, <2>7 DEF Rest, Calm, Waits, Ripe, SameTimer, SameReply, SameProxy
    <2>9. Answered(s) /\ (Regular => Timed(s))
      BY <2>0, <2>6 DEF Rest, Answered, Timed, NextRight, Due, SameTimer
    <2> QED
      BY <1>1, <1>5, <2>5, <2>6, <2>8, <2>9 DEF Rest, s
  <1> QED
    BY <1>4, <1>5

\* A packet that finds no duplicate, and its handler.
LEMMA NewLemma ==
    ASSUME NEW k \in Keys, NEW v \in Vectors, NEW c \in Codes, conf \in ConfRecord,
           NEW s \in radius_handle_request(NewRequest(k, v, c), TRUE, FALSE)
    PROVE  Rest(s) /\ (s.inHash => s.key = k)
  <1> DEFINE a == [Unused EXCEPT !.key = k, !.vector = v, !.code = c]
             b == [a EXCEPT !.child = "QUEUED", !.inHash = TRUE, !.when = 1]
             r == [b EXCEPT !.ev = "wait_a_bit"]
  <1>1. NewRequest(k, v, c) = r
    BY DEF NewRequest, INSERT_EVENT
  <1>2. c \in AllCodes /\ 1 \in Times
    BY Caps, RequestAssumption
  <1>3. /\ a \in RequestRecord /\ a.key = k /\ a.code = c /\ a.inProxy = FALSE /\ a.sent = {} /\ a.early = FALSE
        /\ a.nextCb = "none" /\ a.failed = FALSE /\ a.dropped = FALSE /\ a.reply = "none" /\ a.nextWhen = NeverSet
    BY <1>2, UnusedType, UnusedFields DEF RequestRecord
  <1> HIDE DEF a
  <1>4. /\ b \in RequestRecord /\ b.key = k /\ b.code = c /\ b.inProxy = FALSE /\ b.sent = {} /\ b.early = FALSE
        /\ b.nextCb = "none" /\ b.failed = FALSE /\ b.dropped = FALSE /\ b.reply = "none" /\ b.nextWhen = NeverSet
    BY <1>2, <1>3 DEF RequestRecord, ChildStates
  <1> HIDE DEF b
  <1>5. /\ r \in RequestRecord /\ r.key = k /\ r.code = c /\ r.inProxy = FALSE /\ r.sent = {} /\ r.early = FALSE
        /\ r.nextCb = "none" /\ r.failed = FALSE /\ r.dropped = FALSE /\ r.reply = "none" /\ r.nextWhen = NeverSet
        /\ r.ev = "wait_a_bit"
    BY <1>4 DEF RequestRecord, Callbacks
  <1>6. s \in radius_handle_request(r, TRUE, FALSE)
    BY <1>1
  <1> HIDE DEF r
  <1>7. Core(r)
    BY <1>5 DEF Core, NoResponse
  <1>8. Entry(r)
    BY <1>5, <1>7, RequestAssumption DEF Entry, NoResponse, NeverSet
  <1>9. Done(r, s) \/ Stopped(r, s)
    <2> DEFINE d == TRUE
               null == FALSE
    <2>1. s \in radius_handle_request(r, d, null) /\ (null \/ r.reply = "none")
      BY <1>5, <1>6
    <2> HIDE DEF d, null
    <2> QED
      BY ONLY <1>8, <2>1, HandleLemma, conf \in ConfRecord
  <1>10. Rest(s) /\ Keeps(r, s)
    BY <1>5, <1>9, DoneRests
  <1> QED
    BY <1>5, <1>10 DEF Keeps

\* received_proxy_response().
LEMMA AnswerLemma ==
    ASSUME NEW o, Rest(o), o.inProxy, conf \in ConfRecord, NEW verified \in BOOLEAN,
           verified \/ conf.badReplies, NEW s,
           LET r == lookup_in_proxy_hash(o) IN
             IF ~Wanted(r, verified) THEN s = r
             ELSE s \in radius_handle_request(
                          INSERT_EVENT([r EXCEPT !.proxyReply = TRUE, !.child = "QUEUED", !.when = 1],
                                       "wait_a_bit"), TRUE, FALSE)
    PROVE  Rest(s) /\ Keeps(o, s)
  <1> DEFINE n == o.answers + 1
             i == o.sends # n
             w == [o EXCEPT !.answers = n]
             r == [w EXCEPT !.inProxy = i]
             b == [r EXCEPT !.proxyReply = TRUE, !.child = "QUEUED", !.when = 1]
             e == [b EXCEPT !.ev = "wait_a_bit"]
  <1>0. o \in RequestRecord /\ Core(o)
    BY DEF Rest, Calm, Core
  <1>1. IF ~Wanted(r, verified) THEN s = r ELSE s \in radius_handle_request(e, TRUE, FALSE)
    BY DEF lookup_in_proxy_hash, INSERT_EVENT
  <1>2. n \in 0 .. MaxDups + 1 /\ n <= o.sends /\ n \in Nat /\ o.sends \in Nat
    BY <1>0, Fields, RequestAssumption DEF Core
  <1>3. i \in BOOLEAN /\ (i => n < o.sends)
    BY <1>2
  <1> HIDE DEF n, i
  <1>a. /\ w \in RequestRecord /\ w.child = o.child /\ w.answers = n /\ w.sends = o.sends
        /\ w.home = o.home /\ w.proxyReply = o.proxyReply
    BY <1>0, <1>2 DEF RequestRecord
  <1>b. SameTimer(o, w) /\ SameReply(o, w) /\ SamePacket(o, w) /\ SameMarks(o, w)
    BY <1>0, <1>2 DEF RequestRecord, SameTimer, SameReply, SamePacket, SameMarks
  <1> HIDE DEF w
  <1>4. /\ r \in RequestRecord /\ r.child = o.child /\ r.answers = n /\ r.inProxy = i /\ r.sends = o.sends
        /\ r.home = o.home /\ r.proxyReply = o.proxyReply
    BY <1>a, <1>3 DEF RequestRecord
  <1>5. SameTimer(o, r) /\ SameReply(o, r) /\ SamePacket(o, r) /\ SameMarks(o, r)
    BY <1>a, <1>b, <1>3 DEF RequestRecord, SameTimer, SameReply, SamePacket, SameMarks
  <1> HIDE DEF r
  <1>6. r.inProxy => r.answers < r.sends
    BY <1>3, <1>4
  <1>7. Core(r)
    BY <1>0, <1>4, <1>5, <1>6 DEF Core, SameTimer, SameReply, SamePacket
  <1>8. CASE ~Wanted(r, verified)
    <2>1. s = r
      BY <1>1, <1>8
    <2>2. r.child = "PROXIED" => conf.badReplies
      BY <1>4, <1>5, <1>8 DEF Wanted, Rest, Calm, Waits, SameReply
    <2>3. r.child # "FREE"
      BY <1>4 DEF Rest, Calm
    <2>4. Calm(r)
      BY <1>4, <1>5, <1>7, <2>2, <2>3 DEF Rest, Calm, Waits, Ripe, SameTimer, SameReply, SamePacket
    <2>5. Answered(r) /\ (Regular => ~r.failed /\ Timed(r))
      <3>1. ASSUME NEW u PROVE Due(r, u) <=> Due(o, u)
        BY <1>4, <1>5, DueSame
      <3> QED
        BY <1>4, <1>5, <3>1 DEF Rest, Answered, Timed, NextRight, SameTimer, SameReply, SamePacket, SameMarks
    <2> QED
      BY <1>5, <2>1, <2>4, <2>5 DEF Rest, Keeps, SamePacket
  <1>9. CASE Wanted(r, verified)
    <2>1. s \in radius_handle_request(e, TRUE, FALSE)
      BY <1>1, <1>9
    <2>2. r.reply = "none" /\ r.child = "PROXIED"
      BY <1>9 DEF Wanted
    <2>3. 1 \in Times
      BY Caps, RequestAssumption
    <2>4. /\ b \in RequestRecord /\ b.nextCb = r.nextCb /\ b.nextWhen = r.nextWhen
          /\ b.inProxy = r.inProxy /\ b.answers = r.answers /\ b.sends = r.sends
      BY <1>4, <2>3 DEF RequestRecord, ChildStates
    <2>5. SameReply(r, b) /\ SamePacket(r, b) /\ SameMarks(r, b)
      BY <1>4, <2>3 DEF RequestRecord, SameReply, SamePacket, SameMarks
    <2> HIDE DEF b
    <2>6. /\ e \in RequestRecord /\ e.nextCb = r.nextCb /\ e.nextWhen = r.nextWhen /\ e.ev = "wait_a_bit"
          /\ e.inProxy = r.inProxy /\ e.answers = r.answers /\ e.sends = r.sends
      BY <2>4 DEF RequestRecord, Callbacks
    <2>7. SameReply(r, e) /\ SamePacket(r, e) /\ SameMarks(r, e)
      BY <2>4, <2>5 DEF RequestRecord, SameReply, SamePacket, SameMarks
    <2> HIDE DEF e
    <2>8. Core(e)
      BY <1>7, <2>6, <2>7 DEF Core, SameReply, SamePacket, NoResponse
    <2>9. e.code = "coa" => e.ev # NoResponse /\ e.nextWhen <= ResponseWindow
      BY <1>4, <1>5, <2>2, <2>6, <2>7 DEF SamePacket, SameTimer, Rest, Calm, Waits, NoResponse
    <2>10. Entry(e) /\ e.reply = "none"
      BY <1>5, <2>2, <2>7, <2>8, <2>9 DEF Entry, Rest, Answered, SameMarks, SameReply, Core
    <2>11. Done(e, s) \/ Stopped(e, s)
      <3> DEFINE d == TRUE
                 null == FALSE
      <3>1. s \in radius_handle_request(e, d, null) /\ (null \/ e.reply = "none")
        BY <2>1, <2>10
      <3> HIDE DEF d, null
      <3> QED
        BY ONLY <2>10, <3>1, HandleLemma, conf \in ConfRecord
    <2>12. Rest(s) /\ Keeps(e, s)
      BY <2>6, <2>10, <2>11, DoneRests
    <2> QED
      BY <1>5, <2>7, <2>12 DEF Keeps, SamePacket
  <1> QED
    BY <1>8, <1>9

\* fr_event_run(): the callback of a due event.
LEMMA FireLemma ==
    ASSUME NEW o, Rest(o), o.child # "FREE", o.when <= 0, NEW cb \in Callbacks \ {"none"}, o.ev = cb,
           conf \in ConfRecord, NEW r, r = [o EXCEPT !.ev = "none"],
           NEW s \in (CASE cb = "wait_a_bit" -> {wait_a_bit(r)}
                        [] cb = "cleanup_delay" -> {cleanup_delay(r)}
                        [] cb = "reject_delay" -> {reject_delay(r)}
                        [] cb = "no_response_to_proxied_request" -> no_response_to_proxied_request(r)
                        [] cb = "wait_for_proxy_id_to_expire" -> {wait_for_proxy_id_to_expire(r)})
    PROVE  Rest(s) /\ Keeps(o, s)
  <1>1. /\ Core(r) /\ Waits(r) /\ Ripe(r) /\ Answered(r) /\ r.child = o.child
        /\ r.nextCb = o.nextCb /\ r.nextWhen = o.nextWhen
        /\ SamePacket(o, r) /\ SameMarks(o, r) /\ SameProxy(o, r) /\ SameReply(o, r)
    BY FiredLemma
  <1>2. r.child \notin {"FREE", "QUEUED", "RUNNING"}
    BY <1>1 DEF Rest, Calm
  <1>3. Calm(r)
    BY <1>1, <1>2 DEF Calm
  <1>4. Regular => ~r.failed /\ Timed(o)
    BY <1>1 DEF Rest, SameMarks
  <1>5. ASSUME NEW t, Keeps(r, t)
        PROVE  Keeps(o, t)
    BY <1>1, <1>5 DEF Keeps, SamePacket
  <1>6. CASE cb = "wait_a_bit"
    <2>1. s = wait_a_bit(r)
      BY <1>6
    <2>2. Regular => NextRight(r)
      <3>1. Due(r, r.nextWhen) <=> Due(o, o.nextWhen)
        BY <1>1, DueSame
      <3> QED
        BY <1>1, <1>4, <1>6, <3>1 DEF Timed, NextRight, NoResponse
    <2> QED
      BY <1>1, <1>2, <1>4, <1>5, <2>1, <2>2, WaitLemma
  <1>7. CASE cb = "cleanup_delay"
    <2>1. s = cleanup_delay(r)
      BY <1>7
    <2>2. Regular => r.child \in {"CLEANUP_DELAY", "DONE"}
      BY <1>1, <1>4, <1>7 DEF Timed, NoResponse
    <2> QED
      BY <1>1, <1>2, <1>4, <1>5, <2>1, <2>2, CleanupLemma
  <1>8. CASE cb = "reject_delay"
    <2>1. s = reject_delay(r)
      BY <1>8
    <2> QED
      BY <1>8, <2>1, RejectLemma
  <1>9. CASE cb = NoResponse
    <2>1. s \in no_response_to_proxied_request(r)
      BY <1>9 DEF NoResponse
    <2> QED
      BY <1>9, <2>1, NoResponseLemma
  <1>10. CASE cb = "wait_for_proxy_id_to_expire"
    <2>1. s = wait_for_proxy_id_to_expire(r)
      BY <1>10
    <2>2. Regular => r.child \in {"CLEANUP_DELAY", "DONE"} /\ ~r.inHash
      BY <1>1, <1>4, <1>10 DEF Timed, NoResponse, SamePacket
    <2> QED
      BY <1>1, <1>2, <1>3, <1>4, <1>5, <2>1, <2>2, ExpireLemma
  <1> QED
    BY <1>6, <1>7, <1>8, <1>9, <1>10 DEF Callbacks, NoResponse

\* A second passes for a request.
LEMMA TickLemma ==
    ASSUME NEW o, Rest(o), o.child # "FREE",
           NEW s, s = [o EXCEPT !.when = Sooner(@, o.ev = "reject_delay"),
                                !.nextWhen = Sooner(@, o.nextCb = "reject_delay" \/ o.code = "coa"),
                                !.cached = IF o.sent # {} /\ @ < CleanupDelay THEN @ + 1 ELSE @,
                                !.age = IF @ < AgeCap THEN @ + 1 ELSE @,
                                !.proxyAge = IF @ <= ResponseWindow THEN @ + 1 ELSE @]
    PROVE  Rest(s) /\ s.inHash = o.inHash /\ s.key = o.key
  <1> DEFINE w == Sooner(o.when, o.ev = "reject_delay")
             n == Sooner(o.nextWhen, o.nextCb = "reject_delay" \/ o.code = "coa")
             c == IF o.sent # {} /\ o.cached < CleanupDelay THEN o.cached + 1 ELSE o.cached
             g == IF o.age < AgeCap THEN o.age + 1 ELSE o.age
             x == IF o.proxyAge <= ResponseWindow THEN o.proxyAge + 1 ELSE o.proxyAge
             a == [o EXCEPT !.when = w]
             b == [a EXCEPT !.nextWhen = n]
             d == [b EXCEPT !.cached = c]
             e == [d EXCEPT !.age = g]
  <1>0. o \in RequestRecord /\ Core(o) /\ o.cached \in 0 .. CleanupDelay
    BY DEF Rest, Calm, Core, RequestRecord
  <1>f. /\ o.when \in Times /\ o.nextWhen \in {NeverSet} \cup Times /\ o.when \in Int /\ o.nextWhen \in Int
        /\ o.age \in 0 .. AgeCap /\ o.proxyAge \in 0 .. ResponseWindow + 1 /\ o.late \in 0 .. CleanupDelay
    BY <1>0, Fields, Caps
  <1>1. s = [e EXCEPT !.proxyAge = x]
    BY <1>0 DEF RequestRecord
  <1>2. w \in Times /\ w \in Int /\ w >= o.when - 1 /\ w <= o.when
    BY <1>f, Caps, RequestAssumption DEF Sooner
  <1>3. /\ n \in {NeverSet} \cup Times /\ n \in Int /\ n <= o.nextWhen /\ n >= o.nextWhen - 1
        /\ o.nextWhen # NeverSet => n # NeverSet /\ n >= -CleanupDelay
    BY <1>f, Caps, RequestAssumption DEF Sooner
  <1>4. c \in 0 .. CleanupDelay
    BY <1>0, RequestAssumption
  <1>5. g \in 0 .. AgeCap /\ g >= o.age /\ (g = o.age + 1 \/ (g = AgeCap /\ o.age = AgeCap))
    BY <1>f, Caps
  <1>6. x \in 0 .. ResponseWindow + 1
    BY <1>f, RequestAssumption
  <1> HIDE DEF w, n, c, g, x
  <1>7. /\ a \in RequestRecord /\ a.when = w /\ a.nextWhen = o.nextWhen /\ a.age = o.age
        /\ a.ev = o.ev /\ a.nextCb = o.nextCb /\ a.child = o.child
        /\ a.key = o.key /\ a.inHash = o.inHash /\ a.code = o.code /\ a.cached = o.cached /\ a.late = o.late
    BY <1>0, <1>2 DEF RequestRecord
  <1>8. SameReply(o, a) /\ SameProxy(o, a) /\ SameMarks(o, a)
    BY <1>0, <1>2 DEF RequestRecord, SameReply, SameProxy, SameMarks
  <1> HIDE DEF a
  <1>9. /\ b \in RequestRecord /\ b.when = w /\ b.nextWhen = n /\ b.age = o.age
        /\ b.ev = o.ev /\ b.nextCb = o.nextCb /\ b.child = o.child
        /\ b.key = o.key /\ b.inHash = o.inHash /\ b.code = o.code /\ b.cached = o.cached /\ b.late = o.late
    BY <1>7, <1>3 DEF RequestRecord
  <1>10. SameReply(o, b) /\ SameProxy(o, b) /\ SameMarks(o, b)
    BY <1>7, <1>8, <1>3 DEF RequestRecord, SameReply, SameProxy, SameMarks
  <1> HIDE DEF b
  <1>11. /\ d \in RequestRecord /\ d.when = w /\ d.nextWhen = n /\ d.age = o.age
         /\ d.ev = o.ev /\ d.nextCb = o.nextCb /\ d.child = o.child
         /\ d.key = o.key /\ d.inHash = o.inHash /\ d.code = o.code /\ d.cached = c /\ d.late = o.late
    BY <1>9, <1>4 DEF RequestRecord
  <1>12. SameReply(o, d) /\ SameProxy(o, d) /\ SameMarks(o, d)
    BY <1>9, <1>10, <1>4 DEF RequestRecord, SameReply, SameProxy, SameMarks
  <1> HIDE DEF d
  <1>13. /\ e \in RequestRecord /\ e.when = w /\ e.nextWhen = n /\ e.age = g
         /\ e.ev = o.ev /\ e.nextCb = o.nextCb /\ e.child = o.child
         /\ e.key = o.key /\ e.inHash = o.inHash /\ e.code = o.code /\ e.cached = c /\ e.late = o.late
    BY <1>11, <1>5 DEF RequestRecord
  <1>14. SameReply(o, e) /\ SameProxy(o, e) /\ SameMarks(o, e)
    BY <1>11, <1>12, <1>5 DEF RequestRecord, SameReply, SameProxy, SameMarks
  <1> HIDE DEF e
  <1> DEFINE t == [e EXCEPT !.proxyAge = x]
  <1>t. /\ t \in RequestRecord /\ t.when = w /\ t.nextWhen = n /\ t.age = g
        /\ t.ev = o.ev /\ t.nextCb = o.nextCb /\ t.child = o.child
        /\ t.key = o.key /\ t.inHash = o.inHash /\ t.code = o.code /\ t.cached = c /\ t.late = o.late
    BY ONLY <1>13, <1>6 DEF RequestRecord, t
  <1>u. SameReply(o, t) /\ SameProxy(o, t) /\ SameMarks(o, t)
    BY ONLY <1>13, <1>14, <1>6 DEF RequestRecord, SameReply, SameProxy, SameMarks, t
  <1>v. s = t
    BY <1>1
  <1> HIDE DEF t
  <1>15. /\ s \in RequestRecord /\ s.when = w /\ s.nextWhen = n /\ s.age = g
         /\ s.ev = o.ev /\ s.nextCb = o.nextCb /\ s.child = o.child
         /\ s.key = o.key /\ s.inHash = o.inHash /\ s.code = o.code /\ s.cached = c /\ s.late = o.late
    BY ONLY <1>t, <1>v
  <1>16. SameReply(o, s) /\ SameProxy(o, s) /\ SameMarks(o, s)
    BY ONLY <1>u, <1>v
  <1>17. s.age >= o.age /\ s.nextWhen <= o.nextWhen
    BY <1>3, <1>5, <1>15
  <1>18. o.age + o.when >= RejectDelay => s.age + s.when >= RejectDelay
    BY <1>f, <1>2, <1>5, <1>15, Caps, RequestAssumption
  <1>19. o.nextWhen # NeverSet /\ o.age + o.nextWhen >= RejectDelay
         => s.nextWhen # NeverSet /\ s.age + s.nextWhen >= RejectDelay
    BY <1>f, <1>3, <1>5, <1>15, Caps, RequestAssumption
  <1>20. o.nextWhen <= ResponseWindow => s.nextWhen <= ResponseWindow
    BY <1>f, <1>3, <1>15, Caps, RequestAssumption
  <1>21. Core(s)
    BY <1>0, <1>15, <1>16, <1>18, <1>19, <1>20 DEF Core, SameReply, SameProxy
  <1>22. Waits(s)
    BY <1>15, <1>16, <1>20 DEF Rest, Calm, Waits, SameReply, SameProxy
  <1>23. o.age >= RejectDelay => s.age >= RejectDelay
    BY <1>f, <1>5, <1>15, RequestAssumption
  <1>24. Ripe(s)
    BY <1>15, <1>16, <1>23 DEF Rest, Calm, Ripe, SameReply
  <1>25. Calm(s)
    BY <1>15, <1>16, <1>21, <1>22, <1>24 DEF Rest, Calm, SameProxy
  <1>26. Answered(s) /\ (Regular => ~s.failed /\ Timed(s))
    <2>1. o.sent # {} => c = o.cached + 1 \/ c = CleanupDelay
      BY <1>0, RequestAssumption DEF c
    <2>2. Due(o, o.when) => Due(s, s.when)
      BY <1>0, <1>f, <1>2, <1>4, <1>15, <1>16, <2>1, Caps, RequestAssumption DEF Due, SameReply
    <2>3. Due(o, o.nextWhen) => Due(s, s.nextWhen)
      BY <1>0, <1>f, <1>3, <1>4, <1>15, <1>16, <2>1, Caps, RequestAssumption DEF Due, SameReply
    <2> QED
      BY <1>15, <1>16, <2>2, <2>3 DEF Rest, Answered, Timed, NextRight, SameReply, SameMarks
  <1> QED
    BY <1>15, <1>25, <1>26 DEF Rest

-----------------------------------------------------------------------------
(***************************************************************************)
(* The invariant, step by step.                                            *)
(***************************************************************************)
LEMMA InitLemma == Init => RequestInv
  <1> SUFFICES ASSUME Init PROVE RequestInv
    OBVIOUS
  <1>1. Rest(Unused)
    <2>1. Core(Unused)
      BY UnusedType, UnusedFields DEF Core, NoResponse
    <2>2. Calm(Unused)
      BY <2>1, UnusedFields DEF Calm, Waits, Ripe
    <2>3. Answered(Unused) /\ Timed(Unused) /\ ~Unused.failed
      BY UnusedFields DEF Answered, Timed
    <2> QED
      BY <2>2, <2>3 DEF Rest
  <1>2. \A q \in Reqs : req[q] = Unused
    BY DEF Init
  <1> QED
    BY <1>1, <1>2, UnusedType, UnusedFields DEF Init, RequestInv, Unique

\* A step that changes one request and takes no new place in the hash.
LEMMA OneChanges ==
    ASSUME RequestInv, NEW q \in Reqs, NEW s, Rest(s), Keeps(req[q], s),
           req' = [req EXCEPT ![q] = s], conf' = conf, dead' = dead
    PROVE  RequestInv'
  <1>1. s \in RequestRecord
    BY DEF Rest, Calm, Core
  <1>2. req' \in [Reqs -> RequestRecord] /\ \A o \in Reqs : req'[o] = IF o = q THEN s ELSE req[o]
    BY <1>1 DEF RequestInv
  <1>3. Unique'
    BY <1>2 DEF RequestInv, Unique, Keeps
  <1>4. \A r : Rest(r)' <=> Rest(r)
    BY DEF Rest, Calm, Core, Waits, Ripe, Answered, Timed, NextRight, Due, Regular, Delays
  <1>5. \A o \in Reqs : Rest(req'[o])
    BY <1>2 DEF RequestInv
  <1> QED
    BY <1>2, <1>3, <1>4, <1>5 DEF RequestInv

\* received_request(): the older request leaves the hash before the newer one
\* takes its key.
LEMMA ReceiveLemma ==
    ASSUME RequestInv, NEW q \in Reqs, NEW k \in Keys, NEW v \in Vectors, NEW c \in Codes,
           ReceiveRequest(q, k, v, c)
    PROVE  RequestInv'
  <1> DEFINE cleared == [o \in Reqs |-> IF o \in Holder(k) THEN GivenUp(req[o]) ELSE req[o]]
  <1>0. conf \in ConfRecord /\ conf' = conf /\ dead' = dead
    BY RequestAssumption DEF RequestInv, ReceiveRequest
  <1>1. \A o \in Reqs : Rest(cleared[o]) /\ cleared[o] \in RequestRecord
    <2> SUFFICES ASSUME NEW o \in Reqs PROVE Rest(cleared[o])
      BY DEF Rest, Calm, Core
    <2>1. CASE o \in Holder(k)
      BY <1>0, <2>1, GivenUpLemma DEF RequestInv, Holder
    <2>2. CASE o \notin Holder(k)
      BY <2>2 DEF RequestInv
    <2> QED
      BY <2>1, <2>2
  <1>2. \A o \in Reqs : cleared[o].inHash => req[o].inHash /\ cleared[o].key = req[o].key /\ req[o].key # k
    <2> SUFFICES ASSUME NEW o \in Reqs, cleared[o].inHash
                 PROVE  req[o].inHash /\ cleared[o].key = req[o].key /\ req[o].key # k
      OBVIOUS
    <2>1. CASE o \in Holder(k)
      BY <1>0, <2>1, GivenUpLemma DEF RequestInv, Holder
    <2>2. CASE o \notin Holder(k)
      BY <2>2 DEF Holder
    <2> QED
      BY <2>1, <2>2
  <1>3. \A r : Rest(r)' <=> Rest(r)
    BY <1>0 DEF Rest, Calm, Core, Waits, Ripe, Answered, Timed, NextRight, Due, Regular, Delays
  <1>4. DOMAIN cleared = Reqs /\ cleared \in [Reqs -> RequestRecord]
    BY <1>1
  <1>5. \/ req' = cleared
        \/ \E s \in radius_handle_request(NewRequest(k, v, c), TRUE, FALSE) : req' = [cleared EXCEPT ![q] = s]
    BY DEF ReceiveRequest
  <1> HIDE DEF cleared
  <1>6. CASE req' = cleared
    <2>1. Unique'
      BY <1>2, <1>6 DEF RequestInv, Unique
    <2> QED
      BY <1>0, <1>1, <1>3, <1>4, <1>6, <2>1 DEF RequestInv
  <1>7. CASE \E s \in radius_handle_request(NewRequest(k, v, c), TRUE, FALSE) : req' = [cleared EXCEPT ![q] = s]
    <2>1. PICK s \in radius_handle_request(NewRequest(k, v, c), TRUE, FALSE) : req' = [cleared EXCEPT ![q] = s]
      BY <1>7
    <2>2. Rest(s) /\ (s.inHash => s.key = k)
      BY <1>0, NewLemma
    <2>3. s \in RequestRecord
      BY <2>2 DEF Rest, Calm, Core
    <2>4. req' \in [Reqs -> RequestRecord] /\ \A o \in Reqs : req'[o] = IF o = q THEN s ELSE cleared[o]
      BY <1>4, <2>1, <2>3
    <2>5. Unique'
      BY <1>2, <2>2, <2>4 DEF RequestInv, Unique
    <2>6. \A o \in Reqs : Rest(req'[o])
      BY <1>1, <2>2, <2>4
    <2> QED
      BY <1>0, <1>3, <2>4, <2>5, <2>6 DEF RequestInv
  <1> QED
    BY <1>5, <1>6, <1>7

LEMMA StepLemma == RequestInv /\ [Next]_vars => RequestInv'
  <1> SUFFICES ASSUME RequestInv, [Next]_vars PROVE RequestInv'
    OBVIOUS
  <1>0. conf \in ConfRecord /\ \A q \in Reqs : Rest(req[q])
    BY RequestAssumption DEF RequestInv
  <1>1. CASE \E q \in Reqs, k \in Keys, v \in Vectors, c \in Codes : ReceiveRequest(q, k, v, c)
    BY <1>1, ReceiveLemma
  <1>2. ASSUME NEW q \in Reqs, ReceiveDuplicate(q) PROVE RequestInv'
    <2>1. PICK s \in received_retransmit(req[q]) : req' = [req EXCEPT ![q] = s]
      BY <1>2 DEF ReceiveDuplicate
    <2>2. Rest(s) /\ Keeps(req[q], s)
      BY <1>0, <1>2, RetransmitLemma DEF ReceiveDuplicate
    <2> QED
      BY <1>2, <2>1, <2>2, OneChanges DEF ReceiveDuplicate
  <1>3. ASSUME NEW q \in Reqs, NEW verified \in BOOLEAN, ReceiveProxyReply(q, verified) PROVE RequestInv'
    <2> DEFINE r == lookup_in_proxy_hash(req[q])
               h == radius_handle_request(
                      INSERT_EVENT([r EXCEPT !.proxyReply = TRUE, !.child = "QUEUED", !.when = 1],
                                   "wait_a_bit"), TRUE, FALSE)
    <2>1. PICK s : (IF ~Wanted(r, verified) THEN s = r ELSE s \in h) /\ req' = [req EXCEPT ![q] = s]
      <3>1. CASE ~Wanted(r, verified)
        BY <1>3, <3>1 DEF ReceiveProxyReply
      <3>2. CASE Wanted(r, verified)
        <4>1. \E s \in h : req' = [req EXCEPT ![q] = s]
          BY <1>3, <3>2 DEF ReceiveProxyReply
        <4> QED
          BY <3>2, <4>1
      <3> QED
        BY <3>1, <3>2
    <2>2. req[q].inProxy /\ (verified \/ conf.badReplies) /\ conf' = conf /\ dead' = dead
      BY <1>3 DEF ReceiveProxyReply
    <2>3. Rest(s) /\ Keeps(req[q], s)
      BY <1>0, <2>1, <2>2, AnswerLemma
    <2> QED
      BY <2>1, <2>2, <2>3, OneChanges
  <1>4. ASSUME NEW q \in Reqs, FireAny(q) PROVE RequestInv'
    <2>1. PICK cb \in Callbacks \ {"none"} : Fire(q, cb)
      BY <1>4 DEF FireAny
    <2> DEFINE r == [req[q] EXCEPT !.ev = "none"]
    <2>2. PICK s \in (CASE cb = "wait_a_bit" -> {wait_a_bit(r)}
                        [] cb = "cleanup_delay" -> {cleanup_delay(r)}
                        [] cb = "reject_delay" -> {reject_delay(r)}
                        [] cb = "no_response_to_proxied_request" -> no_response_to_proxied_request(r)
                        [] cb = "wait_for_proxy_id_to_expire" -> {wait_for_proxy_id_to_expire(r)}) :
                req' = [req EXCEPT ![q] = s]
      BY <2>1 DEF Fire
    <2>3. req[q].child # "FREE" /\ req[q].ev = cb /\ req[q].when <= 0 /\ conf' = conf /\ dead' = dead
      BY <2>1 DEF Fire, Live
    <2>4. Rest(s) /\ Keeps(req[q], s)
      BY <1>0, <2>2, <2>3, FireLemma
    <2> QED
      BY <2>2, <2>3, <2>4, OneChanges
  <1>r. conf' = conf => \A r : Rest(r)' <=> Rest(r)
    BY DEF Rest, Calm, Core, Waits, Ripe, Answered, Timed, NextRight, Due, Regular, Delays
  <1>5. ASSUME NEW h \in RealHomes, HomeStateChanges(h) PROVE RequestInv'
    <2>1. conf' = conf /\ req' = req /\ dead' \subseteq RealHomes
      BY <1>5 DEF HomeStateChanges, RequestInv
    <2> QED
      BY <1>r, <2>1 DEF RequestInv, Unique
  <1>6. CASE Tick
    <2>1. conf' = conf /\ dead' = dead /\ DOMAIN req' = Reqs
      BY <1>6 DEF Tick
    <2>2. ASSUME NEW q \in Reqs
          PROVE  /\ Rest(req'[q]) /\ req'[q] \in RequestRecord
                 /\ req'[q].inHash = req[q].inHash /\ req'[q].key = req[q].key
      <3>1. CASE req[q].child = "FREE"
        BY <1>0, <1>6, <3>1 DEF Tick, Live, RequestInv
      <3>2. CASE req[q].child # "FREE"
        <4>1. req'[q] = [req[q] EXCEPT !.when = Sooner(@, req[q].ev = "reject_delay"),
                                !.nextWhen = Sooner(@, req[q].nextCb = "reject_delay" \/ req[q].code = "coa"),
                                !.cached = IF req[q].sent # {} /\ @ < CleanupDelay THEN @ + 1 ELSE @,
                                !.age = IF @ < AgeCap THEN @ + 1 ELSE @,
                                !.proxyAge = IF @ <= ResponseWindow THEN @ + 1 ELSE @]
          BY <1>6, <3>2 DEF Tick, Live
        <4>2. Rest(req'[q]) /\ req'[q].inHash = req[q].inHash /\ req'[q].key = req[q].key
          BY <1>0, <3>2, <4>1, TickLemma
        <4> QED
          BY <4>2 DEF Rest, Calm, Core
      <3> QED
        BY <3>1, <3>2
    <2>3. req' \in [Reqs -> RequestRecord]
      <3>1. req' = [q \in Reqs |-> req'[q]]
        BY <1>6 DEF Tick
      <3> QED
        BY <2>2, <3>1
    <2>4. Unique'
      BY <2>2 DEF RequestInv, Unique
    <2> QED
      BY <1>r, <2>1, <2>2, <2>3, <2>4 DEF RequestInv
  <1>7. CASE UNCHANGED vars
    BY <1>r, <1>7 DEF RequestInv, Unique, vars
  <1> QED
    BY <1>1, <1>2, <1>3, <1>4, <1>5, <1>6, <1>7 DEF Next

LEMMA InvLemma == Spec => []RequestInv
  BY InitLemma, StepLemma, PTL DEF Spec

-----------------------------------------------------------------------------
(***************************************************************************)
(* The theorems.                                                           *)
(***************************************************************************)
\* Between two handlers every request has the event that frees it in the end,
\* and the handlers of event.cpp hit no assertion, in whatever order timers,
\* duplicates, conflicting packets and replies of home servers come.
THEOREM HandlersTheorem == Spec => []HandlersAgree
  <1>1. RequestInv => HandlersAgree
    <2> SUFFICES ASSUME RequestInv PROVE HandlersAgree
      OBVIOUS
    <2>1. TypeOK
      BY DEF RequestInv, TypeOK
    <2>2. LiveHasEvent
      BY DEF RequestInv, Rest, Timed, LiveHasEvent, Live, NoResponse
    <2>3. NoAssertFails
      BY DEF RequestInv, Rest, NoAssertFails
    <2> QED
      BY <2>1, <2>2, <2>3 DEF HandlersAgree
  <1> QED
    BY <1>1, InvLemma, PTL

\* received_request() finds at most one request with the key of a packet, and
\* no handler ever puts a second one into the hash.
THEOREM KeysTheorem == Spec => []OneRequestPerKey
  <1>1. RequestInv => OneRequestPerKey
    <2> SUFFICES ASSUME RequestInv, NEW k \in Keys PROVE Cardinality(Holder(k)) <= 1
      BY DEF OneRequestPerKey
    <2>1. CASE Holder(k) = {}
      BY <2>1, FS_EmptySet
    <2>2. CASE Holder(k) # {}
      <3>1. PICK q : q \in Holder(k)
        BY <2>2
      <3>2. Holder(k) = {q}
        BY <3>1 DEF Holder, RequestInv, Unique
      <3>3. Cardinality({q}) = 1
        BY FS_Singleton
      <3> QED
        BY <3>2, <3>3
    <2> QED
      BY <2>1, <2>2
  <1> QED
    BY <1>1, InvLemma, PTL

\* Whatever is sent to the NAS for a request, by request_post_handler(), by
\* reject_delay() or for a duplicate, is one and the same reply.
THEOREM AnswerTheorem == Spec => []OneAnswer
  <1>1. RequestInv => OneAnswer
    <2> SUFFICES ASSUME RequestInv, NEW q \in Reqs PROVE Cardinality(req[q].sent) <= 1
      BY DEF OneAnswer
    <2>1. req[q].sent \subseteq {req[q].reply}
      BY DEF RequestInv, Rest, Calm, Core
    <2>2. req[q].sent = {} \/ req[q].sent = {req[q].reply}
      BY <2>1
    <2>3. Cardinality({}) = 0 /\ Cardinality({req[q].reply}) = 1
      BY FS_EmptySet, FS_Singleton
    <2> QED
      BY <2>2, <2>3
  <1> QED
    BY <1>1, InvLemma, PTL

\* No path of event.cpp sends an Access-Reject before the request is
\* reject_delay old: not the callback, and not the answer to a duplicate.
THEOREM RejectTheorem == Spec => []RejectsAreDelayed
  <1>1. RequestInv => RejectsAreDelayed
    BY DEF RequestInv, Rest, Calm, Core, Delays, RejectsAreDelayed
  <1> QED
    BY <1>1, InvLemma, PTL

\* With no_response_fail an Access-Request is not freed unanswered, unless the
\* policy or a newer packet of the NAS wants it so.
THEOREM DropTheorem == Spec => []NoSilentDrop
  <1>1. RequestInv => NoSilentDrop
    BY DEF RequestInv, Rest, Answered, NoSilentDrop
  <1> QED
    BY <1>1, InvLemma, PTL

\* A request that waits for a home server holds its Id in the proxy hash.
THEOREM IdTheorem == Spec => []ProxiedHoldsId
  <1>1. RequestInv => ProxiedHoldsId
    BY DEF RequestInv, Rest, Calm, Waits, ProxiedHoldsId
  <1> QED
    BY <1>1, InvLemma, PTL

\* An answered Access-Request in the hash waits for cleanup_delay(), or for
\* wait_a_bit() which sets it.
LEMMA AnsweredWaits ==
    ASSUME NEW r, Rest(r), Regular, r.inHash, r.code = "auth", r.sent # {}
    PROVE  /\ r.child = "CLEANUP_DELAY" /\ r.reply # "none" /\ r.cached \in 0 .. CleanupDelay
           /\ \/ r.ev = "cleanup_delay" /\ (r.when <= 0 => r.cached + r.late >= CleanupDelay)
              \/ r.ev = "wait_a_bit" /\ r.nextCb = "cleanup_delay"
  <1>1. Core(r) /\ Timed(r) /\ r.child # "FREE"
    BY DEF Rest, Calm
  <1>2. r \in RequestRecord /\ r.reply # "none"
    BY <1>1 DEF Core
  <1>3. r.cached \in 0 .. CleanupDelay /\ r.late \in 0 .. CleanupDelay /\ r.when \in Int
    BY <1>2, Fields, Caps
  <1>4. CASE r.ev = "wait_a_bit" /\ NextRight(r)
    BY <1>2, <1>3, <1>4 DEF NextRight, Due
  <1>5. CASE r.ev # "wait_a_bit"
    <2>1. Due(r, r.when) /\ (r.child = "CLEANUP_DELAY" => r.ev = "cleanup_delay")
      BY <1>1, <1>5 DEF Timed
    <2>2. /\ r.child = "CLEANUP_DELAY"
          /\ r.cached + r.late >= CleanupDelay \/ r.when + r.cached + r.late >= CleanupDelay
      BY <2>1 DEF Due
    <2>3. r.when <= 0 => r.cached + r.late >= CleanupDelay
      BY <1>3, <2>2, RequestAssumption
    <2> QED
      BY <1>2, <1>3, <2>1, <2>2, <2>3
  <1> QED
    BY <1>1, <1>4, <1>5 DEF Timed, NoResponse

\* Neither a duplicate nor a reply of the home server takes it out of the hash.
LEMMA AnsweredStays ==
    ASSUME NEW r, Rest(r), Regular, r.inHash, r.code = "auth", r.sent # {}
    PROVE  /\ \A s \in received_retransmit(r) : s.inHash
           /\ lookup_in_proxy_hash(r).inHash
           /\ \A verified : ~Wanted(lookup_in_proxy_hash(r), verified)
  <1>1. r.child = "CLEANUP_DELAY" /\ r.reply # "none" /\ r \in RequestRecord
    BY AnsweredWaits DEF Rest, Calm, Core
  <1>2. Send(r).inHash
    BY <1>1 DEF Send, RequestRecord
  <1>3. received_retransmit(r) = {Send(r)}
    BY <1>1 DEF received_retransmit
  <1>4. lookup_in_proxy_hash(r).inHash /\ lookup_in_proxy_hash(r).reply = r.reply
    BY <1>1 DEF lookup_in_proxy_hash, RequestRecord
  <1> QED
    BY <1>1, <1>2, <1>3, <1>4 DEF Wanted

\* Of the events, only cleanup_delay() does, and not before its time.
LEMMA AnsweredFires ==
    ASSUME NEW o, Rest(o), Regular, o.inHash, o.code = "auth", o.sent # {},
           o.when <= 0, NEW cb, o.ev = cb, NEW r, r = [o EXCEPT !.ev = "none"],
           NEW s \in (CASE cb = "wait_a_bit" -> {wait_a_bit(r)}
                        [] cb = "cleanup_delay" -> {cleanup_delay(r)}
                        [] cb = "reject_delay" -> {reject_delay(r)}
                        [] cb = "no_response_to_proxied_request" -> no_response_to_proxied_request(r)
                        [] cb = "wait_for_proxy_id_to_expire" -> {wait_for_proxy_id_to_expire(r)})
    PROVE  s.inHash \/ o.cached + o.late >= CleanupDelay
  <1>1. o.child = "CLEANUP_DELAY" /\ o \in RequestRecord
    BY AnsweredWaits DEF Rest, Calm, Core
  <1>2. CASE o.ev = "cleanup_delay"
    BY <1>2, AnsweredWaits
  <1>3. CASE o.ev = "wait_a_bit" /\ o.nextCb = "cleanup_delay"
    <2>1. s = wait_a_bit(r)
      BY <1>3
    <2>2. /\ r \in RequestRecord /\ r.child = "CLEANUP_DELAY" /\ r.nextCb = "cleanup_delay"
          /\ r.inHash
      BY <1>1, <1>3 DEF RequestRecord, Callbacks
    <2> DEFINE a == RadAssert(r, r.nextCb \notin {"none", "wait_a_bit"})
               e == [a EXCEPT !.ev = r.nextCb]
    <2>3. a \in RequestRecord /\ a.inHash
      BY <2>2, AssertLemma DEF SamePacket
    <2>4. s = [e EXCEPT !.when = IF r.nextWhen = NeverSet THEN -CleanupDelay ELSE r.nextWhen, !.nextCb = "none"]
      BY <2>1, <2>2 DEF wait_a_bit, INSERT_EVENT
    <2> HIDE DEF a
    <2>5. s.inHash = a.inHash
      BY <2>3, <2>4 DEF RequestRecord
    <2> QED
      BY <2>3, <2>5
  <1> QED
    BY <1>2, <1>3, AnsweredWaits

\* received_request() takes no other request out of the hash than the one with
\* the key of the packet.
LEMMA OthersStay ==
    ASSUME RequestInv, NEW p \in Reqs, NEW k \in Keys, NEW v \in Vectors, NEW c \in Codes,
           ReceiveRequest(p, k, v, c), NEW q \in Reqs, req[q].inHash, req[q].key # k
    PROVE  req'[q].inHash
  <1> DEFINE cleared == [o \in Reqs |-> IF o \in Holder(k) THEN GivenUp(req[o]) ELSE req[o]]
  <1>1. cleared[q] = req[q]
    BY DEF Holder
  <1>2. q # p
    BY DEF RequestInv, Rest, Calm, ReceiveRequest, Live
  <1>3. \/ req' = cleared
        \/ \E s \in radius_handle_request(NewRequest(k, v, c), TRUE, FALSE) : req' = [cleared EXCEPT ![p] = s]
    BY DEF ReceiveRequest
  <1>4. DOMAIN cleared = Reqs
    OBVIOUS
  <1> HIDE DEF cleared
  <1> QED
    BY <1>1, <1>2, <1>3, <1>4

\* A reply to an Access-Request stays in the hash for cleanup_delay, less what a
\* delayed reject was sent late (reject_delay() counts from the time it was due),
\* whatever duplicates, late replies and timers come, unless the NAS uses its key
\* again.
THEOREM CacheTheorem == Spec => RepliesAreCached
  <1> DEFINE Cached(q) ==
               /\ Regular
               /\ req[q].inHash /\ req[q].code = "auth" /\ req[q].sent # {}
               /\ ~req'[q].inHash
               => \/ req[q].cached + req[q].late >= CleanupDelay
                  \/ \E o \in Reqs, v \in Vectors, c \in Codes : ReceiveRequest(o, req[q].key, v, c)
  <1>1. RequestInv /\ [Next]_vars => [\A q \in Reqs : Cached(q)]_vars
    <2> SUFFICES ASSUME RequestInv, Next, NEW q \in Reqs,
                        Regular, req[q].inHash, req[q].code = "auth", req[q].sent # {}, ~req'[q].inHash
                 PROVE  \/ req[q].cached + req[q].late >= CleanupDelay
                        \/ \E o \in Reqs, v \in Vectors, c \in Codes : ReceiveRequest(o, req[q].key, v, c)
      OBVIOUS
    <2>0. req \in [Reqs -> RequestRecord] /\ Rest(req[q])
      BY DEF RequestInv
    <2>1. ASSUME NEW p \in Reqs, NEW k \in Keys, NEW v \in Vectors, NEW c \in Codes,
                 ReceiveRequest(p, k, v, c)
          PROVE  \E o \in Reqs, w \in Vectors, d \in Codes : ReceiveRequest(o, req[q].key, w, d)
      BY <2>1, OthersStay
    <2>2. ASSUME NEW p \in Reqs, ReceiveDuplicate(p) PROVE FALSE
      <3>1. PICK s \in received_retransmit(req[p]) : req' = [req EXCEPT ![p] = s]
        BY <2>2 DEF ReceiveDuplicate
      <3>2. p = q => s.inHash
        BY <2>0, AnsweredStays
      <3> QED
        BY <2>0, <3>1, <3>2
    <2>3. ASSUME NEW p \in Reqs, NEW verified \in BOOLEAN, ReceiveProxyReply(p, verified) PROVE FALSE
      <3>1. CASE p = q
        <4>1. ~Wanted(lookup_in_proxy_hash(req[q]), verified) /\ lookup_in_proxy_hash(req[q]).inHash
          BY <2>0, AnsweredStays
        <4>2. req' = [req EXCEPT ![q] = lookup_in_proxy_hash(req[q])]
          BY <2>3, <3>1, <4>1 DEF ReceiveProxyReply
        <4> QED
          BY <2>0, <4>1, <4>2
      <3>2. CASE p # q
        <4>1. \E s : req' = [req EXCEPT ![p] = s]
          BY <2>3 DEF ReceiveProxyReply
        <4> QED
          BY <2>0, <3>2, <4>1
      <3> QED
        BY <3>1, <3>2
    <2>4. ASSUME NEW p \in Reqs, FireAny(p) PROVE req[q].cached + req[q].late >= CleanupDelay
      <3>1. PICK cb \in Callbacks \ {"none"} : Fire(p, cb)
        BY <2>4 DEF FireAny
      <3> DEFINE r == [req[p] EXCEPT !.ev = "none"]
      <3>2. PICK s \in (CASE cb = "wait_a_bit" -> {wait_a_bit(r)}
                          [] cb = "cleanup_delay" -> {cleanup_delay(r)}
                          [] cb = "reject_delay" -> {reject_delay(r)}
                          [] cb = "no_response_to_proxied_request" -> no_response_to_proxied_request(r)
                          [] cb = "wait_for_proxy_id_to_expire" -> {wait_for_proxy_id_to_expire(r)}) :
                  req' = [req EXCEPT ![p] = s]
        BY <3>1 DEF Fire
      <3>3. req[p].ev = cb /\ req[p].when <= 0
        BY <3>1 DEF Fire
      <3>4. CASE p = q
        <4>1. s.inHash \/ req[q].cached + req[q].late >= CleanupDelay
          BY <2>0, <3>2, <3>3, <3>4, AnsweredFires
        <4> QED
          BY <2>0, <3>2, <3>4, <4>1
      <3>5. CASE p # q
        BY <2>0, <3>2, <3>5
      <3> QED
        BY <3>4, <3>5
    <2>5. ASSUME NEW h \in RealHomes, HomeStateChanges(h) PROVE FALSE
      BY <2>5 DEF HomeStateChanges
    <2>6. ASSUME Tick PROVE FALSE
      <3>1. req[q].child # "FREE"
        BY <2>0 DEF Rest, Calm
      <3>2. req'[q] = [req[q] EXCEPT !.when = Sooner(@, req[q].ev = "reject_delay"),
                                !.nextWhen = Sooner(@, req[q].nextCb = "reject_delay" \/ req[q].code = "coa"),
                              !.cached = IF req[q].sent # {} /\ @ < CleanupDelay THEN @ + 1 ELSE @,
                              !.age = IF @ < AgeCap THEN @ + 1 ELSE @,
                              !.proxyAge = IF @ <= ResponseWindow THEN @ + 1 ELSE @]
        BY <2>6, <3>1 DEF Tick, Live
      <3>3. Rest(req'[q]) /\ req'[q].inHash = req[q].inHash /\ req'[q].key = req[q].key
        BY <2>0, <3>1, <3>2, TickLemma
      <3> QED
        BY <3>3
    <2> QED
      BY <2>1, <2>2, <2>3, <2>4, <2>5, <2>6 DEF Next
  <1>2. RepliesAreCached <=> [][\A q \in Reqs : Cached(q)]_vars
    BY DEF RepliesAreCached
  <1> HIDE DEF Cached
  <1> QED
    BY <1>1, <1>2, InvLemma, PTL DEF Spec
=============================================================================
