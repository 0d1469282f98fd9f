------------------------------- MODULE EapTls -------------------------------
(***************************************************************************)
(* EAP-TLS, and what PEAP and TTLS do with it: TLS flights of any length   *)
(* go back and forth in fragments, one EAP packet at a time.  The server   *)
(* is eap_tls.cpp and the records of tls.cpp; OpenSSL behind it and the    *)
(* peer (RFC 5216) are external.  EapSession has what happens to responses *)
(* that are lost, repeated or stale: here each response answers the last   *)
(* request.                                                                *)
(*                                                                         *)
(* An octet is the flight it belongs to and its place there.               *)
(***************************************************************************)
EXTENDS Integers, Sequences, FiniteSets, FiniteSetsExt, Functions

CONSTANTS
    MAX_RECORD_SIZE,
    fragment_size,
    TlsConfs,      \* the conversations of a run
    MaxRounds      \* after so many responses rlm_eap ends the conversation (50)

ASSUME EapTlsAssumption ==
    /\ MAX_RECORD_SIZE \in Nat \ {0} /\ fragment_size \in 1 .. MAX_RECORD_SIZE
    /\ MaxRounds \in Nat \ {0}

\* method: "tls", "peap" or "ttls".  reused: the session is resumed.
\* resume: resumption is allowed, for this user too.  vps: something was
\* cached with the session.  mtu: Framed-MTU, 0 for none.  length:
\* include_length.  mine, theirs: the lengths of the flights of the server and
\* of the peer, which begins.  frag: the size of the peer's fragments.
\* always: it gives the length in each of them.
TlsConf == [method: {"tls", "peap", "ttls"}, reused: BOOLEAN, resume: BOOLEAN, vps: BOOLEAN,
            mtu: Nat, length: BOOLEAN, mine: Seq(Nat), theirs: Seq(Nat), frag: Nat \ {0},
            always: BOOLEAN]

VARIABLES
    tls_conf,
    tls,           \* tls_session_t
    ssl,           \* what OpenSSL has: in, its flight, out (from_ssl), done
    peer,          \* the peer: its flight, what it has left to send, what it got
    wire,          \* the last packet
    rounds,        \* number of responses so far
    result         \* "going", "success" or "fail"

tlsVars == <<tls_conf, tls, ssl, peer, wire, rounds, result>>

Flight(who, k) ==
    LET sizes == IF who = "peer" THEN tls_conf.theirs ELSE tls_conf.mine
    IN IF k \in DOMAIN sizes THEN [i \in 1 .. sizes[k] |-> <<who, k, i>>] ELSE <<>>

First(s, n) == SubSeq(s, 1, n)
After(s, n) == SubSeq(s, n + 1, Len(s))

\* more, length: the flags M and L, with the length that goes with L.
Packet == [from: {"server", "peer"}, start: BOOLEAN, more: BOOLEAN, length: Nat \cup {-1},
           data: Seq({"server", "peer"} \X Nat \X Nat)]

TlsTypeOK ==
    /\ Len(tls.dirty_in) <= MAX_RECORD_SIZE /\ Len(tls.dirty_out) <= MAX_RECORD_SIZE
    /\ tls.fragment \in BOOLEAN /\ tls.content \in {"none", "handshake", "finished", "application"}
    /\ wire.from \in {"server", "peer"} /\ wire.length \in Int
    /\ rounds \in 0 .. MaxRounds
    /\ result \in {"going", "success", "fail"}

-----------------------------------------------------------------------------
\* eaptls_initiate().  vp_integer - 14 is unsigned: an MTU below 14 is not
\* below fragment_size.
offset ==
    IF tls_conf.mtu >= 14 /\ tls_conf.mtu - 14 < fragment_size THEN tls_conf.mtu - 14 ELSE fragment_size

TlsRequest(more, length, data) ==
    [from |-> "server", start |-> FALSE, more |-> more, length |-> length, data |-> data]

TlsInit ==
    /\ tls_conf \in TlsConfs
    /\ tls = [dirty_in |-> <<>>, dirty_out |-> <<>>, fragment |-> FALSE, tls_msg_len |-> 0,
              content |-> "none"]
    /\ ssl = [k |-> 1, in |-> <<>>, out |-> <<>>, done |-> FALSE]
    /\ peer = [k |-> 0, left |-> <<>>, of |-> 1, got |-> <<>>]
    /\ wire = [TlsRequest(FALSE, -1, <<>>) EXCEPT !.start = TRUE]
    /\ rounds = 0
    /\ result = "going"

\* PEAP never gives the length in later fragments.
length_flag == tls_conf.length /\ tls_conf.method # "peap"

\* eaptls_request(): the next fragment, and the session after it.
eaptls_request(t) ==
    LET more == Len(t.dirty_out) > offset
        size == IF more THEN offset ELSE Len(t.dirty_out)
        lbit == length_flag \/ (more /\ ~t.fragment)
        len == IF t.fragment THEN t.tls_msg_len ELSE Len(t.dirty_out)
    IN <<[t EXCEPT !.fragment = more, !.tls_msg_len = len, !.dirty_out = After(@, size)],
         TlsRequest(more, IF lbit THEN len ELSE -1, First(t.dirty_out, size))>>

-----------------------------------------------------------------------------
(* External: OpenSSL takes octets in, and once it has the peer's flight it   *)
(* writes the next one.  The handshake is two flights of the peer.           *)
Handshake == 2

Feed(s, data) ==
    LET all == s.in \o data
        whole == all = Flight("peer", s.k)
    IN IF whole
       THEN [k |-> s.k + 1, in |-> <<>>, done |-> s.k >= Handshake,
             out |-> s.out \o (IF s.k <= Handshake THEN Flight("server", s.k) ELSE <<>>)]
       ELSE [s EXCEPT !.in = all]

\* cbtls_msg(): the last message that OpenSSL wrote.
Content(s) ==
    IF Flight("server", s.k) = <<>> THEN "none"
    ELSE IF s.k = Handshake \/ tls_conf.reused THEN "finished" ELSE "handshake"

\* BIO_read() of what OpenSSL wrote, as much as dirty_out takes.
ReadOut(t, s) ==
    LET n == Min({Len(s.out), MAX_RECORD_SIZE})
    IN <<IF s.out = <<>> THEN t ELSE [t EXCEPT !.dirty_out = First(s.out, n)],
         [s EXCEPT !.out = After(@, n)]>>

-----------------------------------------------------------------------------
\* The server's answer: a request, or the end.
Goes(t, s) ==
    LET r == eaptls_request(t)
    IN tls' = r[1] /\ wire' = r[2] /\ ssl' = s /\ UNCHANGED result

\* eaptls_success(), which fails where a session must not be resumed, or has
\* nothing cached, and eaptls_fail().
Ends(t, s, how) ==
    /\ result' = IF how = "success" /\ tls_conf.reused /\ ~(tls_conf.resume /\ tls_conf.vps)
                 THEN "fail" ELSE how
    /\ tls' = t /\ ssl' = s
    /\ wire' = TlsRequest(FALSE, -1, <<>>)

\* tls_handshake_send() of what is said in the tunnel.
Says(t, s) ==
    LET said == [s EXCEPT !.out = @ \o Flight("server", s.k)]
        r == ReadOut(t, said)
    IN Goes(r[1], r[2])

\* The handshake is over: EAP-TLS succeeds, PEAP goes on in the tunnel (with
\* the next flight, also in a resumed session), TTLS lets the peer go on.
Established(t, s) ==
    CASE tls_conf.method = "tls" -> Ends(t, s, "success")
      [] tls_conf.method = "peap" -> Says(t, s)
      [] tls_conf.method = "ttls" /\ tls_conf.reused -> Ends(t, s, "success")
      [] tls_conf.method = "ttls" /\ ~tls_conf.reused -> Goes(t, s)

\* Tunneled data arrived: for EAP-TLS that is an error; eappeap_process() and
\* eapttls_process() say something in the tunnel or end the conversation.
Tunneled(t, s) ==
    IF tls_conf.method = "tls" \/ s.in # <<>> THEN Ends(t, s, "fail")
    ELSE IF Flight("server", s.k) # <<>> THEN Says(t, s)
    ELSE Ends(t, s, "success") \/ Ends(t, s, "fail")

\* eaptls_ack_handler()
eaptls_ack_handler ==
    CASE tls.content = "none" -> Goes(tls, ssl)
      [] tls.content = "finished" /\ tls.dirty_out = <<>> ->
            Established([tls EXCEPT !.content = "application"], ssl)
      [] OTHER -> Goes(tls, ssl)

\* eaptls_operation() with tls_handshake_recv(): the peer's flight is complete.
eaptls_operation(t) ==
    LET fed == Feed(ssl, t.dirty_in)
        content == IF Len(fed.in) > 0 THEN t.content ELSE Content(ssl)
        r == ReadOut([t EXCEPT !.dirty_in = <<>>, !.content = content], fed)
    IN IF r[1].dirty_out # <<>> THEN Goes(r[1], r[2])
       ELSE IF fed.done THEN Established([r[1] EXCEPT !.content = "application"], r[2])
       ELSE Ends(r[1], r[2], "fail")

\* Mutant: the buffer is reinitialized with each fragment.
ProcessForgets(p) ==
    LET room == MAX_RECORD_SIZE - Len(tls.dirty_in)
        t == [tls EXCEPT !.dirty_in = p.data]
    IN IF p.data = <<>> /\ ~p.more /\ p.length = -1 THEN eaptls_ack_handler
       ELSE IF p.length > MAX_RECORD_SIZE \/ Len(p.data) > room THEN Ends(t, ssl, "fail")
       ELSE IF p.more
            THEN tls' = t /\ wire' = TlsRequest(FALSE, -1, <<>>) /\ UNCHANGED <<ssl, result>>
       ELSE IF ssl.done THEN Tunneled([t EXCEPT !.dirty_in = <<>>], Feed(ssl, t.dirty_in))
       ELSE eaptls_operation(t)

\* eaptls_process() of a response: eaptls_verify() tells an ACK from data (its
\* first, later and last fragments differ in the M flag alone),
\* eaptls_extract() and record_plus() refuse what is too long, a fragment that
\* is not the last gets eaptls_send_ack().
eaptls_process(p) ==
    LET room == MAX_RECORD_SIZE - Len(tls.dirty_in)
        t == [tls EXCEPT !.dirty_in = @ \o First(p.data, Min({room, Len(p.data)}))]
    IN IF p.data = <<>> /\ ~p.more /\ p.length = -1 THEN eaptls_ack_handler
       ELSE IF p.length > MAX_RECORD_SIZE \/ Len(p.data) > room THEN Ends(t, ssl, "fail")
       ELSE IF p.more
            THEN tls' = t /\ wire' = TlsRequest(FALSE, -1, <<>>) /\ UNCHANGED <<ssl, result>>
       ELSE IF ssl.done THEN Tunneled([t EXCEPT !.dirty_in = <<>>], Feed(ssl, t.dirty_in))
       ELSE eaptls_operation(t)

Server ==
    /\ result = "going"
    /\ wire.from = "peer"
    /\ eaptls_process(wire)
    /\ UNCHANGED <<tls_conf, peer, rounds>>

-----------------------------------------------------------------------------
(* External: a peer as in RFC 5216.                                          *)
Response(more, length, data) ==
    [from |-> "peer", start |-> FALSE, more |-> more, length |-> length, data |-> data]

\* The next fragment of flight k, of which left is left.
Fragment(k, left, first) ==
    LET more == Len(left) > tls_conf.frag
    IN Response(more, IF tls_conf.always \/ (more /\ first) THEN Len(Flight("peer", k)) ELSE -1,
                First(left, Min({Len(left), tls_conf.frag})))

\* A fragment was acknowledged.
NextFragment ==
    /\ peer.left # <<>>
    /\ wire' = Fragment(peer.k, peer.left, FALSE)
    /\ peer' = [peer EXCEPT !.left = After(@, Len(wire'.data))]

\* Whole: the server's flight is complete.  The one that ends a full handshake
\* is acknowledged, to any other the next flight of the peer is the answer.
Received == peer.got \o wire.data
Whole == ~wire.more /\ Received = Flight("server", peer.of)
LastOfHandshake == ~tls_conf.reused /\ peer.of = Handshake

NextFlight ==
    /\ peer.left = <<>>
    /\ wire.start \/ (Whole /\ ~LastOfHandshake /\ peer.k < Len(tls_conf.theirs))
    /\ wire' = Fragment(peer.k + 1, Flight("peer", peer.k + 1), TRUE)
    /\ peer' = [k |-> peer.k + 1, left |-> After(Flight("peer", peer.k + 1), Len(wire'.data)), got |-> <<>>,
                of |-> IF wire.start THEN 1 ELSE IF tls_conf.reused /\ peer.of = 1 THEN 3 ELSE peer.of + 1]

Acknowledge ==
    /\ peer.left = <<>> /\ ~wire.start
    /\ Whole => LastOfHandshake
    /\ wire' = Response(FALSE, -1, <<>>)
    /\ peer' = IF Whole THEN [peer EXCEPT !.of = @ + 1, !.got = <<>>] ELSE [peer EXCEPT !.got = Received]

Peer ==
    /\ result = "going"
    /\ wire.from = "server"
    /\ rounds < MaxRounds /\ rounds' = rounds + 1
    /\ NextFragment \/ NextFlight \/ Acknowledge
    /\ UNCHANGED <<tls_conf, tls, ssl, result>>

TlsNext == Server \/ Peer

TlsSpec == TlsInit /\ [][TlsNext]_tlsVars

-----------------------------------------------------------------------------
InTransit(who) == IF wire.from = who THEN wire.data ELSE <<>>

\* However the flights are cut, what one side has, what is on its way and what
\* the other side has left are the flight, in order: nothing is lost, repeated
\* or mixed with the flight before (dirty_in, dirty_out, record_plus(),
\* record_minus(), the M flag).
FlightsAreWhole ==
    result = "going" =>
        /\ ssl.in \o tls.dirty_in \o InTransit("peer") \o peer.left =
              IF ssl.k > peer.k THEN <<>> ELSE Flight("peer", peer.k)
        /\ peer.got \o InTransit("server") \o tls.dirty_out \o ssl.out
              \in {<<>>, Flight("server", peer.of)}

\* Success is sent only when both sides have had all the flights.
SuccessIsWhole ==
    result = "success" =>
        /\ ssl.k > Len(tls_conf.theirs) /\ ssl.in = <<>>
        /\ ssl.out = <<>> /\ tls.dirty_out = <<>> /\ peer.of > Len(tls_conf.mine)

\* The conversations that fit: flights not longer than a record, and an MTU
\* that leaves place for data.
Fits ==
    /\ \A i \in DOMAIN tls_conf.mine : tls_conf.mine[i] <= MAX_RECORD_SIZE
    /\ \A i \in DOMAIN tls_conf.theirs : tls_conf.theirs[i] <= MAX_RECORD_SIZE
    /\ offset > 0

\* A request that gives a length gives that of the whole flight, in the first
\* fragment and in every later one; and with its headers (10 octets, and 4 of
\* the length) it is not longer than the Framed-MTU.
RequestsAreRight ==
    wire.from = "server" /\ Fits =>
        /\ wire.length >= 0 => wire.length = Len(Flight("server", peer.of))
        /\ wire.more /\ peer.got = <<>> => wire.length >= 0
        /\ tls_conf.mtu >= 14 => 10 + Len(wire.data) + (IF wire.length >= 0 THEN 4 ELSE 0) <= tls_conf.mtu

\* Every round moves something: the conversation takes no more responses than
\* there are fragments, and one.
RoundsAreFew ==
    LET pieces(n, size) == (n + size - 1) \div size
        theirs == [i \in DOMAIN tls_conf.theirs |-> pieces(tls_conf.theirs[i], tls_conf.frag)]
        acks == [i \in DOMAIN tls_conf.mine |-> Max({0, pieces(tls_conf.mine[i], offset) - 1})]
    IN Fits => rounds <= SumFunction(theirs) + SumFunction(acks) + 1

\* A conversation of eap_tls.cpp in fragments: flights arrive whole, success comes
\* after all of them, every request is right, and it ends in few rounds.
ConversationIsWhole == TlsTypeOK /\ FlightsAreWhole /\ SuccessIsWhole /\ RequestsAreRight /\ RoundsAreFew

=============================================================================
