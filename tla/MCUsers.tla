------------------------------ MODULE MCUsers -------------------------------
(* Lists of attributes, and users files.                                     *)
EXTENDS Users

Pair(a, o, v) == [attr |-> a, op |-> o, val |-> v]

\* Lists of a request: up to two attributes, three of one, and a password.
OldPairs ==
    {Pair(a, "=", v) : a \in {"User-Name", "Session-Timeout"}, v \in 1..2} \cup {Pair("Hint", "=", 1)}
MCPairLists ==
    BoundedSeq(OldPairs, 2)
    \cup {l \in [1..3 -> OldPairs] : \A i, j \in 1..3 : l[i].attr = l[j].attr}
    \cup {<<Pair("User-Password", "=", 1)>>}

\* Every operator on an attribute that "update" compiles with it.
NewPairs ==
    {Pair("User-Name", o, v) : o \in {"+=", ":=", "=", "-=", "==", "!*"}, v \in 1..2}
    \cup {Pair("Session-Timeout", o, v) : o \in {"<=", ">=", ":=", "-="}, v \in 1..2}
    \cup {Pair("User-Name", "-=", 0), Pair("Hint", ":=", 2), Pair("Hint", "+=", 1),
          Pair("Stripped-User-Name", ":=", 1), Pair("Crypt-Password", ":=", 1),
          Pair("Fall-Through", "=", 1)}
MCFromLists == BoundedSeq(NewPairs, 2) \ {<<>>}

Entry(name, check, reply) == [name |-> name, check |-> check, reply |-> reply]
Through == <<Pair("Fall-Through", "=", "Yes")>>
Checks ==
    {<<>>, <<Pair("NAS-Port", "==", "1")>>,
     <<Pair("NAS-Port", "=", "2"), Pair("Auth-Type", ":=", "Reject")>>,
     <<Pair("Auth-Type", "=", "Local")>>,
     <<Pair("Calling-Station-Id", "!*", "1"), Pair("NAS-Port", "!=", "1"), Pair("Auth-Type", "=", "Accept")>>}
Replies ==
    {<<>>, Through, <<Pair("Reply-Message", "=", "a")>> \o Through, <<Pair("Reply-Message", ":=", "b")>>}
Entries == {Entry(n, c, r) : n \in {"DEFAULT", "bob"}, c \in Checks, r \in Replies}

\* Two entries, or three of which the first is the user's and falls through.
MCFiles ==
    [1..2 -> Entries]
    \cup {<<e, f, g>> : e \in {x \in Entries : x.name = "bob" /\ Len(x.reply) = 2},
                        f \in {x \in Entries : x.reply = Through},
                        g \in {x \in Entries : Len(x.check) = 1}}

\* The smallest of these.
OneUser == <<Entry("bob", <<>>, <<>>), Entry("bob", <<>>, <<>>)>>

\* One entry for all users, with a value that is not the same for all.
FrozenFiles ==
    {<<Entry("DEFAULT", <<Pair("Calling-Station-Id", "==", "%{User-Name}")>>, <<>>)>>}

MCRequests ==
    {[user |-> u, attrs |-> [a \in {"NAS-Port"} |-> v]] : u \in {"bob", "DEFAULT"}, v \in {{"1"}, {"1", "2"}}}
    \cup {[user |-> u, attrs |-> [a \in {"Calling-Station-Id"} |-> {u}]] : u \in {"bob", "eve"}}

\* Users alone, without a list that is moved.
UsersAloneInit ==
    /\ UsersInit
    /\ vps = <<>> /\ username = 0 /\ freed = {} /\ lost = {}
    /\ moved = [fn |-> "none", before |-> <<>>, from |-> <<>>]
UsersAlone == UsersAloneInit /\ [][UsersNext /\ UNCHANGED pairVars]_<<usersVars, pairVars>>
=============================================================================
