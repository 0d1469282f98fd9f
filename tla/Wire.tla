-------------------------------- MODULE Wire --------------------------------
(***************************************************************************)
(* radius.cpp: attributes become a packet, the packet is signed, checked   *)
(* and verified by whoever gets it, and becomes attributes again.  One     *)
(* exchange: a request (perhaps encoded twice, for a home server that was  *)
(* silent and for the next one) and its answer.                            *)
(*                                                                         *)
(* Lengths are octets; what an attribute says is opaque: a value is a run  *)
(* of octets (from .. to) of the items it was made of, of which the first  *)
(* may be one that the code treats specially.  A digest is what it was     *)
(* computed over.  PW_TYPE_SIGNED and Ascend secrets are left out.         *)
(***************************************************************************)
EXTENDS Integers, Sequences, SequencesExt, FiniteSetsExt, TLC

CONSTANTS
    MAX_PACKET_LEN,
    fr_max_attributes,   \* 0: as many as you like
    Exchanges            \* the exchanges of a run

AUTH_HDR_LEN == 20
AUTH_VECTOR_LEN == 16
AUTH_PASS_LEN == 16
MAX_PASS_LEN == 128

OwnDigest == {"Accounting-Request", "Disconnect-Request", "CoA-Request"}
RequestCodes == {"Access-Request", "Status-Server"} \cup OwnDigest
AccessReplies == {"Access-Accept", "Access-Reject", "Access-Challenge"}
OtherReplies == {"Accounting-Response", "Disconnect-ACK", "Disconnect-NAK", "CoA-ACK", "CoA-NAK"}

\* DICT_VENDOR: the octets of type, of length and of the continuation flag.
Vendors == [vsa |-> <<1, 1, 0>>, lucent |-> <<2, 1, 0>>, starent |-> <<2, 2, 0>>,
            usr |-> <<4, 0, 0>>, wimax |-> <<1, 1, 1>>]

\* DICT_ATTR: one attribute of each kind that radius.cpp tells apart.
Kind(vendor, type, encrypt, has_tag) ==
    [vendor |-> vendor, type |-> type, encrypt |-> encrypt, has_tag |-> has_tag]
Dictionary ==
    [name     |-> Kind("none", "string", "none", FALSE),
     text     |-> Kind("none", "string", "none", TRUE),
     number   |-> Kind("none", "integer", "none", TRUE),
     cui      |-> Kind("none", "octets", "none", FALSE),
     eap      |-> Kind("none", "octets", "none", FALSE),
     ma       |-> Kind("none", "octets", "none", FALSE),
     password |-> Kind("none", "string", "user", FALSE),
     tunnel   |-> Kind("none", "string", "tunnel", TRUE),
     mppe     |-> Kind("vsa", "octets", "tunnel", FALSE),
     lucent   |-> Kind("lucent", "string", "none", FALSE),
     starent  |-> Kind("starent", "string", "none", FALSE),
     usr      |-> Kind("usr", "string", "none", FALSE),
     wimax    |-> Kind("wimax", "octets", "none", FALSE),
     tlv      |-> Kind("wimax", "tlv", "none", FALSE),
     sub1     |-> Kind("wimax", "sub", "none", FALSE),
     sub2     |-> Kind("wimax", "sub", "none", FALSE),
     internal |-> Kind("none", "string", "none", FALSE)]
SubNumber == [sub1 |-> 1, sub2 |-> 2]

Size(v) == v.to - v.from + 1
Truncate(v, n) == [v EXCEPT !.to = Min({v.to, v.from + n - 1})]
Garbled == [of |-> <<>>, from |-> 1, to |-> 0]

\* A pair of the given length; id tells its value from all others.  first: its
\* first octet is one that could be a tag, a NUL, or neither.
Pair(attr, len, tag, first, id) ==
    [attr |-> attr, tag |-> tag, encoded |-> FALSE,
     val |-> [of |-> <<[attr |-> attr, len |-> len, first |-> first, id |-> id]>>, from |-> 1, to |-> len]]
StartsWith(v, first) == Size(v) > 0 /\ v.from = 1 /\ v.of[1].first = first
WithoutFirst(v) == [v EXCEPT !.from = @ + 1]

ZeroVector == [by |-> "zero"]
Random == [by |-> "random"]
InClear == [by |-> "none"]
NoPacket == [code |-> "none", vector |-> ZeroVector, vps |-> <<>>, offset |-> 0, ready |-> FALSE, over |-> FALSE,
             data |-> [code |-> "none", vector |-> ZeroVector, attrs |-> <<>>]]
Fresh(code, vector, vps) == [NoPacket EXCEPT !.code = code, !.vector = vector, !.vps = vps]

Octets(attrs) == FoldLeft(LAMBDA n, a : n + a.alen, 0, attrs)

-----------------------------------------------------------------------------
\* Encoding.

RoundUp(n) == ((n + AUTH_PASS_LEN - 1) \div AUTH_PASS_LEN) * AUTH_PASS_LEN

\* A password in blocks of 16 octets, under the secret and a vector.
make_passwd(v, secret, vector) ==
    LET pass == Truncate(v, MAX_PASS_LEN)
    IN  [val |-> pass, len |-> IF Size(pass) = 0 THEN AUTH_PASS_LEN ELSE RoundUp(Size(pass)),
         enc |-> [by |-> "user", secret |-> secret, vector |-> vector], bad |-> FALSE]

\* Here a salt of 2 octets and a length come with it.
make_tunnel_passwd(v, room, secret, vector) ==
    LET most == ((Min({room, 253}) - 2) \div 16) * 16 - 1
        pass == Truncate(v, most)
    IN  [val |-> pass, len |-> RoundUp(Size(pass) + 1) + 2,
         enc |-> [by |-> "tunnel", secret |-> secret, vector |-> vector], bad |-> FALSE]

\* The data of a pair in room octets.  (room is never below 18: each attribute
\* has its own Vendor-Specific.)  A tunnel password needs the request, in
\* packets without a digest of their own.
vp2data(p, original, secret, vp, room) ==
    LET v == Truncate(vp.val, room)
    IN  CASE Dictionary[vp.attr].encrypt = "user" -> make_passwd(v, secret, p.vector)
          [] Dictionary[vp.attr].encrypt = "tunnel" ->
               IF p.code \in OwnDigest THEN make_tunnel_passwd(v, room, secret, p.vector)
               ELSE [make_tunnel_passwd(v, room, secret, original.vector) EXCEPT !.bad = (original.code = "none")]
          [] OTHER -> [val |-> v, len |-> Size(v), enc |-> InClear, bad |-> FALSE]

\* The octets before the data, without the continuation flag.
Header(attr) ==
    LET vendor == Dictionary[attr].vendor
    IN  IF vendor = "none" THEN 2 ELSE 6 + Vendors[vendor][1] + Vendors[vendor][2]
Flag(attr) == IF Dictionary[attr].vendor = "none" THEN 0 ELSE Vendors[Dictionary[attr].vendor][3]

WireAttr(vp, alen, more, val, enc) ==
    [attr |-> vp.attr, alen |-> alen, more |-> more, tag |-> vp.tag, val |-> val, enc |-> enc, mac |-> ZeroVector]

\* Pieces of at most 254 octets less the header, all but the last flagged.
PieceSize(vp) == 254 - Header(vp.attr)
rad_vp2continuation(vp) ==
    LET most == PieceSize(vp)
        n == (Size(vp.val) + most - 1) \div most
    IN  [k \in 1 .. n |->
            LET piece == [vp.val EXCEPT !.from = (k - 1) * most + 1, !.to = Min({k * most, vp.val.to})]
            IN  WireAttr(vp, Header(vp.attr) + 1 + Size(piece), k < n, piece, InClear)]

\* A tag goes before a string, and over the first octet of a number (a tag of 0
\* too).
TagSize(vp) ==
    LET kind == Dictionary[vp.attr]
    IN  IF kind.has_tag /\ kind.type = "string" /\ (vp.tag \in 1 .. 31 \/ kind.encrypt = "tunnel") THEN 1 ELSE 0

IsTaggedNumber(attr) == Dictionary[attr].has_tag /\ Dictionary[attr].type = "integer"

\* One attribute with the data d: none if there are no data.
OneAttr(vp, d) ==
    LET head == Header(vp.attr) + Flag(vp.attr)
        len == d.len + TagSize(vp)
        val == IF IsTaggedNumber(vp.attr) THEN WithoutFirst(d.val) ELSE d.val
    IN  [attrs |-> IF len = 0 /\ vp.attr # "cui" THEN <<>> ELSE <<WireAttr(vp, head + len, FALSE, val, d.enc)>>,
         bad |-> d.bad]

\* The attributes on the wire for a pair.
rad_vp2attr(p, original, secret, vp) ==
    IF Flag(vp.attr) = 1 /\ Size(vp.val) > 254 - Header(vp.attr)
      THEN [attrs |-> rad_vp2continuation(vp), bad |-> FALSE]
    ELSE OneAttr(vp, vp2data(p, original, secret, vp, 255 - Header(vp.attr) - Flag(vp.attr) - TagSize(vp)))

\* The last pair that goes into the TLV of the pair at i: "Group the attributes
\* ONLY until we see a non-TLV attribute", in the order of their numbers.
IsSub(vp) == Dictionary[vp.attr].type = "sub"
GroupEnd(vps, i) ==
    Max({j \in i .. Len(vps) :
            \A k \in i .. j :
                /\ IsSub(vps[k]) /\ ~vps[k].encoded
                /\ k > i => SubNumber[vps[k].attr] > SubNumber[vps[k - 1].attr]})
rad_vp2tlv(vps) ==
    [attr |-> "tlv", tag |-> 0, encoded |-> FALSE,
     val |-> [of |-> [k \in 1 .. Len(vps) |-> vps[k].val.of[1]], from |-> 1,
              to |-> FoldLeft(LAMBDA n, vp : n + Size(vp.val) + 2, 0, vps)]]

\* A pair that is in a TLV is not encoded by itself.  (Mutant: it is not marked.)
NotMarked(vp) == vp
Marked(vp) == [vp EXCEPT !.encoded = TRUE]

\* The attributes put of the pair vp are written behind the others, and added if
\* they fit; a pair that does not fit ends it all.  over: they were written past
\* data[MAX_PACKET_LEN + 256].  list is what packet->vps has in its place then.
Added(acc, vp, put, upto, list) ==
    LET total == AUTH_HDR_LEN + Octets(acc.attrs \o put.attrs)
        fits == ~put.bad /\ total <= MAX_PACKET_LEN
    IN  [attrs |-> IF fits THEN acc.attrs \o put.attrs ELSE acc.attrs,
         offset |-> IF vp.attr = "ma" THEN Len(acc.attrs) + 1 ELSE acc.offset,
         upto |-> upto, vps |-> acc.vps \o list, stop |-> ~fits, bad |-> put.bad,
         over |-> total > MAX_PACKET_LEN + 256]

\* The pair at i, and those to end, as one TLV.
AddedGroup(p, original, secret, acc, i, end) ==
    LET tlv == rad_vp2tlv(SubSeq(p.vps, i, end))
    IN  Added(acc, p.vps[i], rad_vp2attr(p, original, secret, tlv), end, <<Marked(p.vps[i]), tlv>>)

\* One pair of packet->vps.
EncodePair(p, original, secret, acc, i) ==
    LET vp == p.vps[i]
    IN  IF vp.encoded \/ i <= acc.upto THEN [acc EXCEPT !.vps = Append(@, Marked(vp))]
        ELSE IF acc.stop \/ vp.attr = "internal" THEN [acc EXCEPT !.vps = Append(@, vp)]
        ELSE IF IsSub(vp) THEN AddedGroup(p, original, secret, acc, i, GroupEnd(p.vps, i))
        ELSE Added(acc, vp, rad_vp2attr(p, original, secret, vp), acc.upto, <<vp>>)

\* A packet that cannot be encoded has no data.
Encoded(p, all) ==
    [p EXCEPT !.vps = all.vps, !.offset = all.offset, !.ready = ~all.bad, !.over = all.over,
              !.data = IF all.bad THEN NoPacket.data
                       ELSE [code |-> p.code, vector |-> p.vector, attrs |-> all.attrs]]
rad_encode(packet, original, secret) ==
    LET p == [packet EXCEPT !.vector = IF packet.code \in OwnDigest THEN ZeroVector ELSE @]
    IN  Encoded(p, FoldLeft(LAMBDA acc, i : EncodePair(p, original, secret, acc, i),
                            [attrs |-> <<>>, offset |-> 0, upto |-> 0, vps |-> <<>>, stop |-> FALSE, bad |-> FALSE, over |-> FALSE],
                            [i \in 1 .. Len(p.vps) |-> i]))

-----------------------------------------------------------------------------
\* Signing and verifying.

\* The vector under which a Message-Authenticator is computed: none for what
\* has its own digest and for most answers, the request's for the answers of
\* Access-Request and Status-Server.
MacVector(code, vector, original) ==
    IF code \in AccessReplies \/ (code = "Accounting-Response" /\ original.code = "Status-Server")
      THEN original.vector
    ELSE IF code \in OwnDigest \cup OtherReplies THEN ZeroVector
    ELSE vector

\* rad_verify() has a switch of its own, which has to agree.
VerifyVector(code, vector, original) ==
    IF code \in AccessReplies \/ (code = "Accounting-Response" /\ original.code = "Status-Server")
      THEN original.vector
    ELSE IF code \in OwnDigest \cup OtherReplies THEN ZeroVector
    ELSE vector

Mac(d, vector, secret) == [by |-> "hmac", over |-> [d EXCEPT !.vector = vector], secret |-> secret]
Digest(d, vector, secret) == [by |-> "md5", over |-> [d EXCEPT !.vector = vector], secret |-> secret]

\* "If there's a Message-Authenticator, update it now, BEFORE updating the
\* authentication vector."  If the offset is behind the last attribute (the
\* Message-Authenticator did not fit), it is written behind packet->data.
rad_sign(p, original, secret) ==
    LET d == p.data
        mac == Mac(d, MacVector(p.code, p.vector, original), secret)
        macced == IF p.offset \in 1 .. Len(d.attrs)
                    THEN [d EXCEPT !.attrs[p.offset].mac = mac, !.vector = p.vector]
                  ELSE d
        done == [p EXCEPT !.over = @ \/ p.offset > Len(d.attrs)]
        digest == Digest(macced, macced.vector, secret)
    IN  IF ~p.ready THEN p
        ELSE IF p.code \in {"Access-Request", "Status-Server"} THEN [done EXCEPT !.data = macced]
        ELSE [done EXCEPT !.data = [macced EXCEPT !.vector = digest], !.vector = digest]

\* rad_recv() of what came.  The attributes of a packet that radius.cpp made
\* fill it exactly.
LengthsAreRight(d) ==
    d.code # "none" /\ AUTH_HDR_LEN + Octets(d.attrs) \in AUTH_HDR_LEN .. MAX_PACKET_LEN

\* flags: a Message-Authenticator is asked for.
rad_packet_ok(d, flags) ==
    LET has(attr) == \E i \in DOMAIN d.attrs : d.attrs[i].attr = attr
    IN  /\ LengthsAreRight(d)
        /\ \A i \in DOMAIN d.attrs : d.attrs[i].attr = "ma" => d.attrs[i].alen = 2 + AUTH_VECTOR_LEN
        /\ fr_max_attributes > 0 => Len(d.attrs) <= fr_max_attributes
        /\ (d.code = "Status-Server" \/ flags \/ has("eap")) => has("ma")

calc_acctdigest(d, secret) == d.vector = Digest(d, ZeroVector, secret)
calc_replydigest(d, original, secret) == original.code # "none" /\ d.vector = Digest(d, original.vector, secret)

rad_verify(d, original, secret) ==
    /\ \A i \in DOMAIN d.attrs :
          d.attrs[i].attr = "ma" =>
            /\ d.code \in AccessReplies => original.code # "none"
            /\ d.attrs[i].mac = Mac([d EXCEPT !.attrs[i].mac = ZeroVector],
                                    VerifyVector(d.code, d.vector, original), secret)
    /\ CASE d.code \in {"Access-Request", "Status-Server"} -> TRUE
         [] d.code \in OwnDigest -> calc_acctdigest(d, secret)
         [] OTHER -> calc_replydigest(d, original, secret)

-----------------------------------------------------------------------------
\* Decoding.

Decoded(attr, tag, val) == [attr |-> attr, tag |-> tag, encoded |-> FALSE, val |-> val]

\* A password comes out if it went in under the same secret and vector, up to
\* its first NUL: "vp->length = strlen(vp->vp_strvalue)".
UpToNul(v) == IF StartsWith(v, "nul") THEN Truncate(v, 0) ELSE v
rad_pwdecode(a, secret, vector) ==
    IF a.enc = [by |-> "user", secret |-> secret, vector |-> vector] THEN UpToNul(a.val) ELSE Garbled
rad_tunnel_pwdecode(a, secret, vector) ==
    IF a.enc = [by |-> "tunnel", secret |-> secret, vector |-> vector] THEN a.val ELSE Garbled

\* "Handle tags": a string that may have one and starts like one has it.  (The
\* octet's value is not modelled: it is tag 1.)
Untagged(attr, tag, val) ==
    IF Dictionary[attr].has_tag /\ Dictionary[attr].type = "string" /\ tag = 0 /\ StartsWith(val, "tag")
      THEN Decoded(attr, 1, WithoutFirst(val))
    ELSE Decoded(attr, tag, val)

\* "Tunnel-Password's may go ONLY in response packets": otherwise it stays raw.
data2vp(a, d, original, secret) ==
    LET style == Dictionary[a.attr].encrypt
        known == original.code # "none"
    IN  CASE style = "user" ->
               Decoded(a.attr, a.tag, rad_pwdecode(a, secret, IF known THEN original.vector ELSE d.vector))
          [] style = "tunnel" ->
               IF known THEN Decoded(a.attr, a.tag, rad_tunnel_pwdecode(a, secret, original.vector))
               ELSE Decoded("raw", 0, a.val)
          [] OTHER -> Untagged(a.attr, a.tag, a.val)

\* The other pieces of the attribute at i: those after it of the same number,
\* up to the first without the flag.  They are marked ("What a hack!").
rad_coalesce(attrs, marked, i) ==
    LET same == {j \in i + 1 .. Len(attrs) : attrs[j].attr = attrs[i].attr /\ j \notin marked}
        ends == {j \in same : ~attrs[j].more}
    IN  IF ends = {} THEN same ELSE {j \in same : j <= Min(ends)}

\* The pieces as one value, if they are one.
Joined(vals) ==
    LET n == Len(vals)
    IN  IF \A k \in 2 .. n : vals[k].of = vals[1].of /\ vals[k].from = vals[k - 1].to + 1
          THEN [vals[1] EXCEPT !.to = vals[n].to]
        ELSE Garbled

\* A well-formed TLV becomes its parts (sorted by rad_sortvp()), and anything
\* else one pair.
rad_continuation2vp(attr, val) ==
    LET whole == FoldLeft(LAMBDA n, item : n + item.len + 2, 0, val.of)
        parts == SortSeq(val.of, LAMBDA x, y : SubNumber[x.attr] < SubNumber[y.attr])
    IN  IF attr = "tlv" /\ val.from = 1 /\ val.to = whole
          THEN [k \in DOMAIN parts |->
                  Decoded(parts[k].attr, 0, [of |-> <<parts[k]>>, from |-> 1, to |-> parts[k].len])]
        ELSE <<Decoded(attr, 0, val)>>

\* "Ignore VSAs that have no data", and other attributes, "Unless it's CUI."
NoData(a) == a.alen = Header(a.attr) + Flag(a.attr) /\ a.attr # "cui"

Pieces(attrs, places) ==
    LET order == SetToSortSeq(places, <)
    IN  [k \in DOMAIN order |-> attrs[order[k]].val]

Read(acc, got, marked) ==
    LET vps == acc.vps \o got
    IN  [vps |-> vps, marked |-> acc.marked \cup marked,
         bad |-> fr_max_attributes > 0 /\ Len(vps) > fr_max_attributes]

\* Only attributes with a continuation flag can have more pieces.
DecodeAttr(d, original, secret, acc, i) ==
    LET a == d.attrs[i]
        rest == IF a.more THEN rad_coalesce(d.attrs, acc.marked, i) ELSE {}
    IN  IF i \in acc.marked \/ NoData(a) \/ acc.bad THEN acc
        ELSE IF Flag(a.attr) = 1 /\ (a.more \/ Dictionary[a.attr].type = "tlv")
          THEN Read(acc, rad_continuation2vp(a.attr, Joined(Pieces(d.attrs, {i} \cup rest))), rest)
        ELSE Read(acc, <<data2vp(a, d, original, secret)>>, {})

rad_decode(d, original, secret) ==
    FoldLeft(LAMBDA acc, i : DecodeAttr(d, original, secret, acc, i),
             [vps |-> <<>>, marked |-> {}, bad |-> FALSE], [i \in 1 .. Len(d.attrs) |-> i])

-----------------------------------------------------------------------------
\* An exchange: the code and attributes of the request, those of the answer;
\* same: the two ends have the same secret; again: the first home server was
\* silent; flags: the client has to send a Message-Authenticator.
ValuePair == [attr: DOMAIN Dictionary, tag: 0 .. 31, encoded: {FALSE},
              val: [of: Seq([attr: DOMAIN Dictionary, len: Nat, first: {"tag", "nul", ""}, id: Nat]), from: {1}, to: Nat]]
Exchange == [code: RequestCodes, vps: Seq(ValuePair), answer: AccessReplies \cup OtherReplies,
             rvps: Seq(ValuePair), same: BOOLEAN, again: BOOLEAN, flags: BOOLEAN]

ASSUME WireAssumption ==
    /\ MAX_PACKET_LEN \in Nat /\ MAX_PACKET_LEN >= AUTH_HDR_LEN /\ fr_max_attributes \in Nat
    /\ \A x \in Exchanges : x \in Exchange

VARIABLES
    exchange,
    wire_step,
    request,       \* the packet of the one that asks
    received,      \* the request, as the server has it
    reply,         \* the server's answer
    answer         \* the answer, as the one that asked has it

wireVars == <<exchange, wire_step, request, received, reply, answer>>

WireStart ==
    /\ wire_step = "start"
    /\ request = Fresh(exchange.code, Random, exchange.vps)
    /\ received = NoPacket /\ reply = NoPacket /\ answer = NoPacket
WireInit == exchange \in Exchanges /\ WireStart

ServerSecret == IF exchange.same THEN "s1" ELSE "s2"

\* A packet without data is not signed and not sent: rad_send() fails too.  What
\* follows a write past a buffer is undefined, and nothing is said of it.
StepAfter(p, step) == IF p.over THEN "undefined" ELSE IF p.ready THEN step ELSE "unsent"
Sent(p, step) == request' = p /\ wire_step' = StepAfter(p, step)
SendRequest(secret, step) ==
    Sent(rad_sign(rad_encode([request EXCEPT !.ready = FALSE], NoPacket, secret), NoPacket, secret), step)

proxy_socket_encode ==
    /\ wire_step = "start"
    /\ IF exchange.again THEN SendRequest("s0", "silent") ELSE SendRequest("s1", "sent")
    /\ UNCHANGED <<exchange, received, reply, answer>>

\* no_response_to_proxied_request(): "Free the old packet, to force re-encoding".
FailOver ==
    /\ wire_step = "silent"
    /\ SendRequest("s1", "sent")
    /\ UNCHANGED <<exchange, received, reply, answer>>

\* rad_recv() and client_socket_decode().
client_socket_decode ==
    /\ wire_step = "sent"
    /\ LET d == request.data
           vps == rad_decode(d, NoPacket, ServerSecret)
           ok == rad_packet_ok(d, exchange.flags) /\ rad_verify(d, NoPacket, ServerSecret) /\ ~vps.bad
       IN  /\ wire_step' = IF ok THEN "received" ELSE "refused"
           /\ received' = IF ok THEN Fresh(d.code, d.vector, vps.vps) ELSE received
    /\ UNCHANGED <<exchange, request, reply, answer>>

\* rad_alloc_reply() and client_socket_encode().
client_socket_encode ==
    /\ wire_step = "received"
    /\ LET p == rad_encode(Fresh(exchange.answer, received.vector, exchange.rvps), received, ServerSecret)
           signed == rad_sign(p, received, ServerSecret)
       IN  reply' = signed /\ wire_step' = IF signed.over THEN "undefined" ELSE "answered"
    /\ UNCHANGED <<exchange, request, received, answer>>

\* rad_recv(), received_proxy_response() and proxy_socket_decode().
proxy_socket_decode ==
    /\ wire_step = "answered"
    /\ LET d == reply.data
           vps == rad_decode(d, request, "s1")
           ok == rad_packet_ok(d, FALSE) /\ rad_verify(d, request, "s1") /\ ~vps.bad
       IN  /\ wire_step' = IF ok THEN "done" ELSE "ignored"
           /\ answer' = IF ok THEN Fresh(d.code, d.vector, vps.vps) ELSE answer
    /\ UNCHANGED <<exchange, request, received, reply>>

WireNext ==
    \/ proxy_socket_encode \/ FailOver \/ client_socket_decode
    \/ client_socket_encode \/ proxy_socket_decode

WireSpec == WireInit /\ [][WireNext]_wireVars

-----------------------------------------------------------------------------
\* Nothing leaves that a peer could not read: attributes of at most 255 octets
\* that together fit into a packet, and a Message-Authenticator where
\* packet->offset says, if the packet has one.
WireTypeOK ==
    /\ wire_step \in {"start", "silent", "sent", "unsent", "undefined", "received", "refused", "answered", "ignored", "done"}
    /\ \A p \in {request, reply} :
         /\ AUTH_HDR_LEN + Octets(p.data.attrs) <= MAX_PACKET_LEN
         /\ \A i \in DOMAIN p.data.attrs :
              /\ p.data.attrs[i].alen \in 2 .. 255
              /\ p.data.attrs[i].attr = "ma" => i <= p.offset

\* The attributes that a list stands for at the other end, said without octets:
\* what is not for the wire or has no data is gone, and what is too long is cut.
\* A tunnel password is not opened in a request; a User-Password does not
\* survive in a request that has its own digest, and else ends at a NUL.  A
\* number with a tag has lost its first octet, and a string without one its first
\* octet if that could be a tag.
Limit(vp) ==
    LET kind == Dictionary[vp.attr]
    IN  CASE kind.encrypt = "user" -> 128
          [] kind.encrypt = "tunnel" -> 239
          [] kind.vendor = "wimax" -> Size(vp.val)
          [] OTHER -> 255 - Header(vp.attr) - TagSize(vp)
Expected(code, vps) ==
    LET stays(vp) ==
            /\ vp.attr # "internal"
            /\ \/ Size(vp.val) > 0 \/ IsSub(vp) \/ vp.attr \in {"cui", "password", "tunnel", "mppe"}
               \/ TagSize(vp) = 1
        kept == SelectSeq(vps, stays)
    IN  [k \in DOMAIN kept |->
            LET vp == [kept[k] EXCEPT !.val = Truncate(@, Limit(kept[k]))]
                style == Dictionary[vp.attr].encrypt
            IN  CASE style = "tunnel" /\ code \in RequestCodes -> Decoded("raw", 0, vp.val)
                  [] style = "user" -> [vp EXCEPT !.val = IF code \in OwnDigest THEN Garbled ELSE UpToNul(@)]
                  [] IsTaggedNumber(vp.attr) -> [vp EXCEPT !.val = WithoutFirst(@)]
                  [] vp.attr = "text" -> Untagged("text", vp.tag, vp.val)
                  [] OTHER -> vp]

\* Lists that are sure to fit, with 36 octets for what comes with a pair.
Short(vps) == AUTH_HDR_LEN + FoldLeft(LAMBDA n, vp : n + Size(vp.val) + 36, 0, vps) <= MAX_PACKET_LEN

\* What one end encodes the other decodes: the same attributes (Expected) in the
\* same order, tags, passwords, continued attributes and TLVs too, also when they
\* were encoded before for another home server; if they are too many, the first
\* of them.
Same(code, vps, list) ==
    LET e == Expected(code, list)
    IN  IsPrefix(vps, e) /\ (Short(list) => vps = e)
DecodeIsInverse ==
    exchange.same =>
        /\ received # NoPacket => Same(exchange.code, received.vps, exchange.vps)
        /\ answer # NoPacket => Same(exchange.answer, answer.vps, exchange.rvps)

\* What one end signs the other accepts, for every code and every answer (the
\* two switches over codes in rad_sign() and rad_verify() agree), unless it is
\* over a limit or lacks the Message-Authenticator it needs; and nothing that
\* is signed is accepted under another secret.
Count(seq, attr) == Cardinality({i \in DOMAIN seq : seq[i].attr = attr})
Proper(p, vps, flags) ==
    LET needs == p.code = "Status-Server" \/ flags \/ Count(p.data.attrs, "eap") > 0
    IN  /\ Count(vps, "ma") <= 1 /\ (needs => Count(p.data.attrs, "ma") = 1)
        /\ fr_max_attributes > 0 =>
             Len(p.data.attrs) <= fr_max_attributes /\ Len(Expected(p.code, vps)) <= fr_max_attributes
SignedIsVerified ==
    /\ wire_step = "refused" =>
         ~exchange.same \/ ~Proper(request, exchange.vps, exchange.flags)
    /\ wire_step = "ignored" =>
         ~exchange.same \/ ~Proper(reply, exchange.rvps, FALSE)
    /\ received # NoPacket /\ ~exchange.same =>
         request.code = "Access-Request" /\ Count(request.data.attrs, "ma") = 0
    /\ answer # NoPacket => exchange.same

\* The buffers are large enough ("we allow the attributes to \"overflow\" the 4k
\* maximum RADIUS packet size, by one attribute") for every list that fits, and
\* for one that does not if each of its pairs is one attribute and it has no
\* Message-Authenticator.  (For the others they are not: rad_vp2continuation()
\* writes several attributes, "FIXME: Keep track of room in the packet!", and the
\* offset of a Message-Authenticator that did not fit is that of no attribute.)
Several(vps) ==
    \E i \in DOMAIN vps : Flag(vps[i].attr) = 1 /\ (IsSub(vps[i]) \/ Size(vps[i].val) > PieceSize(vps[i]))
BuffersAreKept ==
    \A pv \in {<<request, exchange.vps>>, <<reply, exchange.rvps>>} :
        pv[1].over => ~Short(pv[2]) /\ (Several(pv[2]) \/ Count(pv[2], "ma") > 0)

\* Whatever rad_encode() makes and rad_sign() signs is accepted by rad_verify()
\* when the secrets agree, and rad_decode() reads it back.
PacketsAreRead == WireTypeOK /\ DecodeIsInverse /\ SignedIsVerified /\ BuffersAreKept

=============================================================================
