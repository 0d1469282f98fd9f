------------------------------ MODULE Condition ------------------------------
(* The condition of an "if" or "elsif": radius_evaluate_condition(), which    *)
(* parses and evaluates in one pass.  It is called once when a section is     *)
(* compiled, with evaluate_it FALSE to check the syntax, and then for every   *)
(* request.  A frame is one call of it, and a step reads one token; the text  *)
(* is chosen while it is read.                                                *)
EXTENDS Integers, SequencesExt

CONSTANTS
    MaxText,        \* bound: tokens of a condition
    MaxDepth        \* nesting at which a call gives up; 64 in the code

ASSUME ConditionAssumption == MaxText \in Nat /\ MaxDepth \in Nat \ {0}

VARIABLES
    evaluate_it,    \* argument of the first call
    text,           \* what has been read
    num_braces,     \* open parentheses of condition_looks_ok()
    frames,         \* calls that have not returned
    verdict,        \* "run", "ok", or "bad": the call returned FALSE
    presult

condVars == <<evaluate_it, text, num_braces, frames, verdict, presult>>

\* Strings "1", "0", a program in back quotes that fails, and a name that is no
\* number: on the left it is an attribute of type integer, whose value is 1.
Words == {"T", "F", "X", "A"}
Comparators == {"==", "<"}

\* gettoken() does not know these: where a word is expected they are words.
Plain == {"!", "&&", "||"}

Texts == {"(", ")", "%{"} \cup Comparators \cup Words \cup Plain

\* A call that has just begun.
Called(evaluate) ==
    [at |-> "start", evaluate |-> evaluate, result |-> TRUE, invert |-> FALSE,
     left |-> "F", token |-> "=="]

CondInit ==
    /\ evaluate_it \in BOOLEAN
    /\ text = <<>> /\ num_braces = 0
    /\ frames = <<Called(evaluate_it)>>
    /\ verdict = "run" /\ presult = FALSE

\* radius_do_cmp() of one word: the attribute exists, or the string is not 0.
DoCmpTrue(left) == left # "F"

\* radius_do_cmp() of two words returns FALSE when the right one cannot be parsed
\* as a value of the attribute on the left, or one of two strings that are to be
\* ordered is not a number.
NumberOf == [w \in {"T", "F", "A"} |-> IF w = "F" THEN 0 ELSE 1]
AllDigits(w) == w \in {"T", "F"}
CanCompare(left, token, right) ==
    IF left = "A" THEN AllDigits(right)                           \* pairparsevalue()
    ELSE token = "==" \/ (AllDigits(left) /\ AllDigits(right))

\* ... and else the attributes, the strings or the numbers are compared.
DoCmp(left, token, right) ==
    IF token = "<" THEN NumberOf[left] < NumberOf[right]
    ELSE IF left = "A" THEN NumberOf[left] = NumberOf[right]
    ELSE left = right

\* A frame that has evaluated, or skipped, a comparison.
Compared(f, cmp) ==
    [f EXCEPT !.at = "found",
              !.result = IF f.evaluate THEN cmp # f.invert ELSE @,
              !.invert = IF f.evaluate THEN FALSE ELSE @]

\* Peeking ahead: a word that no operator follows is a test for existence.
Settled(f) == IF f.at = "word" THEN Compared(f, DoCmpTrue(f.left)) ELSE f

\* expand_string() is called for words that are evaluated, and only for them.
Expands(f, t) == f.evaluate => t # "X"

Innermost == Last(frames)
Goes(f) == frames' = Append(Front(frames), f) /\ UNCHANGED <<verdict, presult>>

CanNegate(f, t) == f.at = "start" /\ t = "!"
CanOpen(f, t) == f.at \in {"start", "not"} /\ t = "(" /\ Len(frames) < MaxDepth
CanBeLeft(f, t) == /\ f.at \in {"start", "not"} /\ ~CanNegate(f, t)
                   /\ t \in Words \cup Plain /\ Expands(f, t)
CanBeOperator(f, t) == f.at = "word" /\ t \in Comparators
CanBeRight(f, t) == /\ f.at = "op" /\ t \in Words \cup Plain /\ Expands(f, t)
                    /\ f.evaluate => CanCompare(f.left, f.token, t)
CanJoin(f, t) == f.at \in {"word", "found"} /\ t \in {"&&", "||"}
CanClose(f, t) == f.at \in {"word", "found"} /\ t = ")" /\ Len(frames) > 1
CanEnd(f, t) == f.at = "found" /\ t = "EOL" /\ Len(frames) = 1

Negate(t) == /\ CanNegate(Innermost, t)
             /\ Goes([Innermost EXCEPT !.at = "not", !.invert = Innermost.evaluate \/ @])

Open(t) == /\ CanOpen(Innermost, t)
           /\ frames' = Append(frames, Called(Innermost.evaluate))
           /\ UNCHANGED <<verdict, presult>>

LeftWord(t) == CanBeLeft(Innermost, t) /\ Goes([Innermost EXCEPT !.at = "word", !.left = t])
Operator(t) == CanBeOperator(Innermost, t) /\ Goes([Innermost EXCEPT !.at = "op", !.token = t])
RightWord(t) ==
    /\ CanBeRight(Innermost, t)
    /\ Goes(Compared(Innermost, Innermost.evaluate /\ DoCmp(Innermost.left, Innermost.token, t)))

\* && and || that group to the left.
JoinedLeft(f, t) == [f EXCEPT !.at = "start", !.evaluate = f.result # (t = "||")]

\* What a frame that is found will evaluate after && or ||.
Joined(f, t) ==
    [f EXCEPT !.at = "start",
              !.evaluate = IF f.result = (t = "||") THEN FALSE ELSE @]

Join(t) == CanJoin(Innermost, t) /\ Goes(Joined(Settled(Innermost), t))

\* The caller takes the result of a call that was told to evaluate.
Returned(caller, result) == Compared(caller, result)

\* At a ) the call returns.  The first call meets none: the text ends there.
Close(t) ==
    /\ CanClose(Innermost, t)
    /\ frames' = Append(Front(Front(frames)),
                        Returned(Last(Front(frames)), Settled(Innermost).result))
    /\ UNCHANGED <<verdict, presult>>

End(t) ==
    /\ CanEnd(Innermost, t)
    /\ verdict' = "ok" /\ UNCHANGED frames
    /\ presult' = IF evaluate_it THEN Innermost.result ELSE presult

\* Every other token, and a comparison that fails, is an error that all calls
\* pass on.
Malformed(t) ==
    /\ ~ \/ CanNegate(Innermost, t) \/ CanOpen(Innermost, t) \/ CanBeLeft(Innermost, t)
         \/ CanBeOperator(Innermost, t) \/ CanBeRight(Innermost, t)
         \/ CanJoin(Innermost, t) \/ CanClose(Innermost, t) \/ CanEnd(Innermost, t)
    /\ verdict' = "bad" /\ UNCHANGED <<frames, presult>>

\* condition_looks_ok() has cut the text at the parenthesis that closes the
\* first one.
LooksOk(t) ==
    \/ text = <<>> /\ t = "("
    \/ text # <<>> /\ num_braces > 0 /\ t # "EOL"
       /\ (t = ")" \/ Len(text) + num_braces < MaxText)
    \/ text # <<>> /\ num_braces = 0 /\ t = "EOL"

ReadToken(t) ==
    /\ verdict = "run" /\ LooksOk(t)
    /\ text' = IF t = "EOL" THEN text ELSE Append(text, t)
    /\ num_braces' = CASE t = "(" -> num_braces + 1
                       [] t = ")" -> num_braces - 1
                       [] OTHER -> num_braces
    /\ UNCHANGED evaluate_it
    /\ \/ Negate(t) \/ Open(t) \/ LeftWord(t) \/ Operator(t) \/ RightWord(t)
       \/ Join(t) \/ Close(t) \/ End(t) \/ Malformed(t)

CondNext == \E t \in Texts \cup {"EOL"} : ReadToken(t)

CondSpec == CondInit /\ [][CondNext]_condVars

-----------------------------------------------------------------------------
(* What the language is: conditions of n tokens with their values, from those *)
(* of fewer.  && and || have one precedence and group to the right.           *)

Value(b) == IF b THEN "true" ELSE "false"
Not(v) == CASE v = "true" -> "false" [] v = "false" -> "true" [] OTHER -> v
Both(v, w) == IF v = "true" THEN w ELSE v
Either(v, w) == IF v = "false" THEN w ELSE v

Exists(w) == IF w = "X" THEN "fail" ELSE Value(w # "F")
Relation(v, op, w) ==
    IF "X" \in {v, w} THEN "fail"
    ELSE IF op = "==" /\ v # "A" THEN Value(v = w)
    ELSE IF v \in DOMAIN NumberOf /\ w \in {"T", "F"}
    THEN Value(IF op = "<" THEN NumberOf[v] < NumberOf[w] ELSE NumberOf[v] = NumberOf[w])
    ELSE "fail"

\* Comparisons whose left word is one of ws.
Comparisons(ws, n) ==
    IF n = 1 THEN {<<<<w>>, Exists(w)>> : w \in ws}
    ELSE IF n = 3 THEN {<<<<v, op, w>>, Relation(v, op, w)>> :
                          v \in ws, op \in Comparators, w \in Words \cup Plain}
    ELSE {}

Inverted(cs) == {<<<<"!">> \o c[1], Not(c[2])>> : c \in cs}

\* The conditions of k tokens of a table, none if it has no such line.
Of(table, k, part) == IF k \in DOMAIN table THEN table[k][part] ELSE {}

Bracketed(table, n) == {<<<<"(">> \o e[1] \o <<")">>, e[2]>> : e \in Of(table, n - 2, "exprs")}

\* Line n of the table: terms, and expressions that begin with one.
Line(table, n) ==
    LET terms == Comparisons(Words \cup {"&&", "||"}, n) \cup Bracketed(table, n)
                   \cup Inverted(Comparisons(Words \cup Plain, n - 1) \cup Bracketed(table, n - 1))
        Splits(k) == Of(table, k, "terms") \X Of(table, n - 1 - k, "exprs")
        joined == UNION {UNION {{<<p[1][1] \o <<"&&">> \o p[2][1], Both(p[1][2], p[2][2])>>,
                                 <<p[1][1] \o <<"||">> \o p[2][1], Either(p[1][2], p[2][2])>>}
                                : p \in Splits(k)} : k \in 1..(n - 2)}
    IN  [terms |-> terms, exprs |-> terms \cup joined]

\* The conditions a section of the configuration can have.
Language ==
    LET table == FoldLeft(LAMBDA acc, n : Append(acc, Line(acc, n)), <<>>,
                          [n \in 1..(MaxText - 2) |-> n])
    IN  UNION {Bracketed(table, n) : n \in 3..MaxText}

Nesting(s) ==
    LET Opened(k) == Cardinality({i \in 1..k : s[i] = "("}) - Cardinality({i \in 1..k : s[i] = ")"})
    IN  Max({Opened(k) : k \in 1..Len(s)})

Accepted(values) == {e[1] : e \in {x \in Language : x[2] \in values /\ Nesting(x[1]) < MaxDepth}}

\* Beginnings of texts that are accepted.
Begins(texts) == UNION {{SubSeq(s, 1, k) : k \in 1..Len(s)} : s \in texts}
WhenChecked == Begins(Accepted({"true", "false", "fail"}))
WhenEvaluated == Begins(Accepted({"true", "false"}))

(* A condition is accepted when the section is compiled exactly when it is    *)
(* one of the language, and when it is evaluated in a request it then has the *)
(* value of the language.  It is FALSE without a value, against "should never *)
(* happen, the condition is checked when the module section is loaded"        *)
(* (modcall.cpp:453-456), only where a part that is not skipped is a program  *)
(* that fails, a value that the attribute on the left cannot have, or < with  *)
(* what is no number.  Skipped parts are read to their end and never run.     *)
ConditionIsRight ==
    /\ verdict = "ok" =>
         IF evaluate_it THEN <<text, Value(presult)>> \in Language
         ELSE \E v \in {"true", "false", "fail"} : <<text, v>> \in Language
    /\ verdict = "ok" => Nesting(text) < MaxDepth
    /\ verdict = "bad" => text \notin (IF evaluate_it THEN WhenEvaluated ELSE WhenChecked)
=============================================================================
