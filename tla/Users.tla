-------------------------------- MODULE Users --------------------------------
(* The users file: getusersfile() hangs the entries of a name on a chain with *)
(* their order in the file, and file_common() reads the chain of the user and *)
(* that of DEFAULT side by side.  Check items are compared by paircompare(),  *)
(* which expands a value in the entry itself: entries live as long as the     *)
(* server and serve every request.                                            *)
EXTENDS Pairs

CONSTANTS
    Files,          \* users files: sequences of [name, check, reply]
    Requests        \* requests: [user, attrs], what %{...} expands to included

VARIABLES
    users_file,     \* as it was read
    chains,         \* name -> entries as they are in memory, [check, reply, order]
    answer          \* the last request and what file_common() did to it

usersVars == <<users_file, chains, answer>>

Names == {"DEFAULT"} \cup {r.user : r \in Requests}

\* Attributes of the protocol, as opposed to those of the server itself.
OnTheWire == {"NAS-Port", "Calling-Station-Id"}

\* Walking through the list when debugging, or for compat = cistron: "=" in a
\* check item is made an operator that compares, or one that adds.
Compatible(item, debug_flag, cistron) ==
    IF item.op # "=" \/ ~(debug_flag \/ cistron) THEN item
    ELSE IF item.attr \in OnTheWire \/ (cistron /\ item.attr \in {"Hint", "Huntgroup-Name"})
    THEN [item EXCEPT !.op = "=="]
    ELSE IF cistron THEN [item EXCEPT !.op = "+="]
    ELSE item

\* order counts the entries of the file.
getusersfile(file, debug_flag, cistron) ==
    FoldLeft(LAMBDA ht, i :
                 [ht EXCEPT ![file[i].name] = Append(@,
                     [check |-> [k \in DOMAIN file[i].check |->
                                    Compatible(file[i].check[k], debug_flag, cistron)],
                      reply |-> file[i].reply, order |-> i])],
             [n \in Names |-> <<>>], [i \in DOMAIN file |-> i])

UsersInit ==
    /\ users_file \in Files
    /\ \E debug_flag, cistron \in BOOLEAN :
         chains = getusersfile(users_file, debug_flag, cistron)
    /\ answer = [request |-> CHOOSE r \in Requests : TRUE, matched |-> <<0>>,
                 reply |-> <<>>, config |-> <<>>]

-----------------------------------------------------------------------------
\* Check items that paircompare() does not look at.
NotCompared(item, request) ==
    \/ item.op \in {":=", "+="}
    \/ item.attr \in {"Crypt-Password", "Auth-Type"}
    \/ item.attr = "User-Password" /\ "User-Password" \notin DOMAIN request.attrs

\* The value "%{User-Name}" becomes the name of the user of this request.
Xlat(val, request) == IF val = "%{User-Name}" THEN request.user ELSE val

\* One check item against the values the request has of its attribute.
ItemMatches(item, request) ==
    LET values == IF item.attr \in DOMAIN request.attrs THEN request.attrs[item.attr] ELSE {}
    IN  CASE item.op = "!*" -> values = {}
          [] item.op = "=*" -> values # {}
          [] item.op = "!=" -> \E v \in values : v # item.val
          [] OTHER -> item.val \in values

Compares(item, request) == NotCompared(item, request) \/ ItemMatches(item, request)

\* An item is expanded when the request has the attribute.
Expanded(item, request) ==
    IF NotCompared(item, request) \/ item.op = "!*" \/ item.attr \notin DOMAIN request.attrs
    THEN item
    ELSE [item EXCEPT !.val = Xlat(@, request)]

\* The check items as paircompare() leaves them: it stops at the first that
\* does not match.
Reached(check, request) ==
    {k \in DOMAIN check : \A j \in 1..(k - 1) : Compares(Expanded(check[j], request), request)}

Stored(check, request) ==
    [k \in DOMAIN check |->
        IF k \in Reached(check, request) THEN Expanded(check[k], request) ELSE check[k]]

paircompare(check, request) ==
    \A k \in DOMAIN check : Compares(Expanded(check[k], request), request)

\* The first Fall-Through of a reply.
fallthrough(reply) ==
    LET j == pairfind(reply, "Fall-Through") IN j # 0 /\ reply[j].val = "Yes"

\* Lists of an entry are copied before they are moved.
Copied(list) == [i \in DOMAIN list |-> [id |-> i, attr |-> list[i].attr,
                                        op |-> list[i].op, val |-> list[i].val]]

\* Forgets to compare the order: the user comes first.
UserFirst(s) == IF s.user = <<>> THEN "DEFAULT" ELSE "user"

\* Which chain has the next entry: the one that comes first in the file.
NextChain(s) ==
    IF s.user = <<>> THEN "DEFAULT"
    ELSE IF s.default = <<>> THEN "user"
    ELSE IF Head(s.user).order < Head(s.default).order THEN "user" ELSE "DEFAULT"

\* What a matching entry does.
Matched(s, pl) ==
    [s EXCEPT !.matched = Append(@, pl.order),
              !.reply = pairxlatmove(@, Copied(pl.reply)).to,
              !.config = pairmove(@, Copied(pl.check)).to,
              !.stop = ~fallthrough(pl.reply)]

\* The entry pl, as the comparison has left it.
Tried(s, pl, matches) ==
    LET t == [s EXCEPT !.stored = @ \cup {pl}]
    IN  IF matches THEN Matched(t, pl) ELSE t

Try(s, pl, request) ==
    Tried(s, [pl EXCEPT !.check = Stored(@, request)], paircompare(pl.check, request))

\* One turn of the loop takes an entry off its chain.
FileTurn(s, request) ==
    IF s.stop \/ (s.user = <<>> /\ s.default = <<>>) THEN s
    ELSE IF NextChain(s) = "user"
    THEN Try([s EXCEPT !.user = Tail(@)], Head(s.user), request)
    ELSE Try([s EXCEPT !.default = Tail(@)], Head(s.default), request)

FileLoop(request) ==
    LET user == chains[request.user]
        default == chains["DEFAULT"]
    IN  FoldLeft(LAMBDA s, i : FileTurn(s, request),
                 [user |-> user, default |-> default, stop |-> FALSE, matched |-> <<>>,
                  reply |-> <<>>, config |-> <<>>, stored |-> {}],
                 [i \in 1..(Len(user) + Len(default)) |-> i])

\* The entry of a chain after a request that has left these in memory.
AsStored(entry, stored) ==
    IF \E e \in stored : e.order = entry.order
    THEN CHOOSE e \in stored : e.order = entry.order
    ELSE entry

Answered(request, s) ==
    /\ answer' = [request |-> request, matched |-> s.matched,
                  reply |-> pairdelete(s.reply, "Fall-Through"), config |-> s.config]
    /\ chains' = [n \in Names |-> [k \in DOMAIN chains[n] |-> AsStored(chains[n][k], s.stored)]]
    /\ UNCHANGED users_file

file_common(request) == Answered(request, FileLoop(request))

UsersNext == \E request \in Requests : file_common(request)

UsersSpec == UsersInit /\ [][UsersNext]_usersVars

-----------------------------------------------------------------------------
\* What the file says of a request: the entries of the user and of DEFAULT
\* that match it, as far as the first without Fall-Through.
EntryMatches(entry, request) ==
    /\ entry.name \in {request.user, "DEFAULT"}
    /\ \A k \in DOMAIN entry.check :
         Compares([entry.check[k] EXCEPT !.val = Xlat(@, request)], request)

Selected(file, request) ==
    LET matching == {i \in DOMAIN file : EntryMatches(file[i], request)}
    IN  {i \in matching : \A j \in matching : j < i => fallthrough(file[j].reply)}

\* The value of an attribute after these items: ":=" sets it, and "=" only
\* where there is none.
Setting(items) ==
    FoldLeft(LAMBDA v, p : IF p.op = ":=" \/ v = "none" THEN p.val ELSE v, "none", items)

\* The items of an attribute in the selected entries, one after the other.
Items(file, selected, part, a) ==
    LET Of(i) == SelectSeq(file[i][part], LAMBDA p : p.attr = a)
    IN  FlattenSeq([k \in 1..Cardinality(selected) |-> Of(SetToSortSeq(selected, <)[k])])

FirstOf(list, a) == LET j == pairfind(list, a) IN IF j = 0 THEN "none" ELSE list[j].val

(* "All entries are processed in the order they appear in this file", "the    *)
(* first entry that matches the login-request will stop processing unless you *)
(* use the Fall-Through variable" (conf/raddb/users:25-28), and they are      *)
(* tested when a request is received: what was answered before, debugging and *)
(* compat make no difference.  A user whose name is DEFAULT has every entry   *)
(* of DEFAULT twice.                                                          *)
UsersAreRight ==
    LET r == answer.request
        selected == Selected(users_file, r)
    IN  answer.matched # <<0>> /\ r.user # "DEFAULT" =>
        /\ answer.matched = SetToSortSeq(selected, <)
        /\ FirstOf(answer.config, "Auth-Type") =
             Setting(Items(users_file, selected, "check", "Auth-Type"))
        /\ FirstOf(answer.reply, "Reply-Message") =
             Setting(Items(users_file, selected, "reply", "Reply-Message"))
        /\ Where(answer.reply, "Fall-Through") = {}
=============================================================================
