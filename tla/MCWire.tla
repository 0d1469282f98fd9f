------------------------------- MODULE MCWire -------------------------------
(* Exchanges with attributes of every kind, at the edges of their lengths. *)
EXTENDS Wire

\* Each pair's value has the pair's place as its id.
Shape(attr, len, tag) == [attr |-> attr, len |-> len, tag |-> tag, first |-> ""]
Starting(first, shape) == [shape EXCEPT !.first = first]
Pairs(shapes) ==
    [i \in DOMAIN shapes |-> Pair(shapes[i].attr, shapes[i].len, shapes[i].tag, shapes[i].first, i)]

Ma == Shape("ma", 16, 0)
Long == {Shape("name", 253, 0), Shape("wimax", 247, 0), Shape("sub1", 200, 0), Shape("sub2", 200, 0)}
Shapes ==
    {Shape("name", n, 0) : n \in {0, 1}} \cup {Shape("text", n, t) : n \in {0, 253}, t \in {0, 1}}
    \cup {Shape("password", n, 0) : n \in {0, 16, 17, 130}}
    \cup {Shape("tunnel", n, t) : n \in {0, 15, 245}, t \in {0, 1}} \cup {Shape("mppe", n, 0) : n \in {32, 245}}
    \cup {Shape(v, n, 0) : v \in {"lucent", "starent", "usr"}, n \in {1, 253}}
    \cup {Shape("wimax", 246, 0), Shape("sub1", 1, 0), Shape("sub2", 0, 0), Shape("number", 4, 1),
          Starting("tag", Shape("text", 1, 0)), Starting("tag", Shape("text", 5, 1)),
          Starting("nul", Shape("password", 5, 0)),
          Shape("cui", 0, 0), Shape("eap", 253, 0), Shape("internal", 5, 0), Ma} \cup Long

Lists ==
    {<<>>} \cup {<<a>> : a \in Shapes} \cup {<<a, b>> : a, b \in Shapes}
    \cup {<<a, b, c>> : a, b, c \in Long \cup {Ma}}
    \cup {<<Shape("name", 253, 0), Shape("name", 253, 0), Shape("name", 80, 0), Ma>>}
    \cup {<<a, b, c, d>> : a \in {Ma, Shape("sub2", 200, 0)}, b, c, d \in Long}
Plain == {<<>>, <<Ma>>, <<Shape("eap", 253, 0), Ma>>, <<Shape("sub1", 200, 0), Shape("sub2", 200, 0), Ma>>}

\* Which codes answer which.
Answers ==
    ("Access-Request" :> AccessReplies) @@ ("Status-Server" :> {"Access-Accept", "Accounting-Response"})
    @@ ("Accounting-Request" :> {"Accounting-Response"})
    @@ ("Disconnect-Request" :> {"Disconnect-ACK", "Disconnect-NAK"}) @@ ("CoA-Request" :> {"CoA-ACK", "CoA-NAK"})

Asks(code, reply_code, vps, rvps, same, again, flags) ==
    [code |-> code, answer |-> reply_code, vps |-> Pairs(vps), rvps |-> Pairs(rvps),
     same |-> same, again |-> again, flags |-> flags]

Idle == Asks("Access-Request", "Access-Accept", <<>>, <<>>, TRUE, FALSE, FALSE)

\* Every code with plain lists; every list as a request and as an answer.
MCExchanges ==
    UNION {{Asks(c, a, v, r, same, again, flags) :
                a \in Answers[c], v \in Plain, r \in Plain,
                same \in BOOLEAN, again \in BOOLEAN, flags \in BOOLEAN} : c \in RequestCodes}
    \cup {Asks(c, CHOOSE a \in Answers[c] : TRUE, v, <<>>, TRUE, again, FALSE) :
        c \in {"Access-Request", "Accounting-Request"}, v \in Lists, again \in BOOLEAN}
    \cup {Asks("Access-Request", "Access-Accept", <<Ma>>, r, TRUE, FALSE, FALSE) : r \in Lists}
=============================================================================
