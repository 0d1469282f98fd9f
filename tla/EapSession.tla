----------------------------- MODULE EapSession -----------------------------
(***************************************************************************)
(* The EAP sessions of rlm_eap: mem.cpp keeps them in a tree keyed by the  *)
(* State attribute and in a list ordered by age, eap.cpp matches a         *)
(* response to its session, and rlm_eap.cpp puts the session back with a   *)
(* new State, frees it, or leaves it with a request that is proxied.       *)
(*                                                                         *)
(* State holds 128 random bits with the number of trips and the EAP type   *)
(* mixed in: it is StateKey, unique to the session and the trip.           *)
(* What an EAP type decides is left open (Outcomes).  Time is the age, in  *)
(* ticks, of the request a handler's timestamp was copied from.            *)
(***************************************************************************)
EXTENDS Naturals, Sequences, FiniteSets

CONSTANTS
  Sessions,      \* EAP_HANDLERs that may be allocated
  Types,         \* EAP types that are configured
  MaxSessions,   \* max_sessions
  TimerLimit,    \* timer_expire
  MaxTrips,      \* trips a session may take; the code has 50
  ExpireCount,   \* handlers eaplist_expire() looks at; the code has 3
  MaxAge         \* bound on how far time runs past a live handler

ASSUME EapAssumption ==
  /\ MaxSessions \in Nat /\ TimerLimit \in Nat /\ MaxTrips \in Nat
  /\ ExpireCount \in Nat /\ MaxAge \in Nat /\ Types # {}

VARIABLES
  handler,      \* per session: where it is, trips, age, eap_type
  session_list, \* session_head to session_tail
  states,       \* every State attribute sent in an Access-Challenge
  accepted,     \* the States a response was accepted for
  twice,        \* some State was accepted a second time
  proxied,      \* some handler was left with a proxied request
  late          \* an expired session was continued with time left to expire it

eapVars == <<handler, session_list, states, accepted, twice, proxied, late>>

Places == {"unused", "listed", "held", "freed", "lost"}
HandlerRecord == [where : Places, trips : 0..MaxTrips, age : 0..MaxAge,
                  type : Types]
\* Mutant: State is not changed per round trip.
StateKeyPerSession(h, s) == [session |-> s, trips |-> 0, type |-> h[s].type]
StateKey(h, s) == [session |-> s, trips |-> h[s].trips, type |-> h[s].type]
StateKeys == [session : Sessions, trips : 0..MaxTrips, type : Types]

Live(s) == handler[s].where \in {"listed", "held"}
Blank(p) == [where |-> p, trips |-> 0, age |-> 0, type |-> CHOOSE t \in Types : TRUE]
ToFree(h, ss) == [s \in Sessions |-> IF s \in ss THEN Blank("freed") ELSE h[s]]
Members(l) == {l[i] : i \in DOMAIN l}

(***************************************************************************)
(* eaplist_expire(): the first few handlers, from the head, that are older *)
(* than timer_expire when seen from a request of age a.                    *)
(***************************************************************************)
TooOld(h, s, a) == h[s].age > a + TimerLimit
Expired(h, l, a) ==
  LET n == {k \in 0..Len(l) : k <= ExpireCount
                              /\ \A i \in 1..k : TooOld(h, l[i], a)}
  IN  CHOOSE k \in n : \A j \in n : j <= k
eaplist_expire(h, l, a) == SubSeq(l, Expired(h, l, a) + 1, Len(l))

(***************************************************************************)
(* eaplist_add() for a handler h[s] that is off the list: refused when     *)
(* there are max_sessions already, and then eap_fail() and free; else the  *)
(* handler goes to the tail under a new State.                             *)
(***************************************************************************)
eaplist_add(h, s, l, a) ==
  IF Len(l) >= MaxSessions
  THEN LET kept == eaplist_expire(h, l, a)
       IN  /\ session_list' = kept
           /\ handler' = ToFree(h, {s} \cup (Members(l) \ Members(kept)))
           /\ UNCHANGED states
  ELSE /\ session_list' = Append(l, s)
       /\ handler' = [h EXCEPT ![s].where = "listed", ![s].age = a]
       /\ states' = states \cup {StateKey(h, s)}

\* The handler is freed, with an EAP-Success or an EAP-Failure.
eap_handler_free(h, s, l) ==
  /\ session_list' = l
  /\ handler' = ToFree(h, {s})
  /\ UNCHANGED states

(***************************************************************************)
(* The rest of eap_authenticate(), once eaptype_select() has an outcome:   *)
(* an EAP-Request (or LEAP's success) is listed, a request that is to be   *)
(* proxied keeps the handler in its request data, anything else frees it.  *)
(***************************************************************************)
Reply(h, s, l) ==
  \/ eaplist_add(h, s, l, 0) /\ UNCHANGED proxied
  \/ eap_handler_free(h, s, l) /\ UNCHANGED proxied
  \/ /\ session_list' = l
     /\ handler' = [h EXCEPT ![s].where = "held", ![s].age = 0]
     /\ proxied' = TRUE
     /\ UNCHANGED states

\* eap_handler() for an EAP-Identity, then the type that is to be initiated:
\* its request is listed, or it fails and the new handler is freed.
Identity(s, t) ==
  /\ handler[s].where = "unused"
  /\ LET h == [handler EXCEPT ![s].type = t]
     IN  \/ eaplist_add(h, s, session_list, 0)
         \/ eap_handler_free(h, s, session_list)
  /\ UNCHANGED <<accepted, twice, proxied, late>>

(***************************************************************************)
(* eaplist_find(): expire, then take the session whose State the response  *)
(* carries off the list.                                                   *)
(***************************************************************************)
Matches(h, l, c) == {s \in Members(l) : StateKey(h, s) = c}
eaplist_delete(l, s) ==
  LET i == CHOOSE i \in DOMAIN l : l[i] = s
  IN  SubSeq(l, 1, i - 1) \o SubSeq(l, i + 1, Len(l))

eaplist_find(c) ==
  LET kept == eaplist_expire(handler, session_list, 0)
      gone == Members(session_list) \ Members(kept)
      h    == ToFree(handler, gone)
  IN  [list |-> kept, h |-> h, found |-> Matches(h, kept, c),
       expired |-> Len(session_list) - Len(kept)]

\* No session has the State of the response (or its EAP Id): only the
\* expiry is left.
Unmatched(f) ==
  /\ f.found = {}
  /\ session_list' = f.list
  /\ handler' = f.h
  /\ UNCHANGED <<states, accepted, twice, proxied, late>>

\* "More than 50 authentication packets for this EAP session."
TripsLeft(h, s) == h[s].trips < MaxTrips

TooManyTrips(f, s) ==
  /\ ~TripsLeft(f.h, s)
  /\ eap_handler_free(f.h, s, eaplist_delete(f.list, s))
  /\ UNCHANGED <<accepted, twice, proxied, late>>

\* The rest of eap_handler(): the wrong EAP type, or a User-Name that is not
\* the identity.  The handler is off the list by now.
WrongResponse(h, s, l) ==
  /\ handler' = [h EXCEPT ![s] = Blank("lost")]
  /\ session_list' = l
  /\ UNCHANGED <<states, proxied>>

\* eaptype_select() for a NAK that asks for another configured type: it is
\* initiated.  A NAK that names no such type fails like any other response.
Nak(h, s, l) ==
  \E t \in Types \ {h[s].type} :
    /\ eaplist_add([h EXCEPT ![s].type = t], s, l, 0)
    /\ UNCHANGED proxied

Respond(c) ==
  LET f == eaplist_find(c)
  IN  \/ Unmatched(f)
      \/ \E s \in f.found :
           \/ TooManyTrips(f, s)
           \/ /\ TripsLeft(f.h, s)
              /\ accepted' = accepted \cup {c}
              /\ twice' = (twice \/ c \in accepted)
              /\ late' = (late \/ (f.expired < ExpireCount /\ TooOld(f.h, s, 0)))
              /\ LET h == [f.h EXCEPT ![s].trips = @ + 1]
                     l == eaplist_delete(f.list, s)
                 IN  \/ WrongResponse(h, s, l)
                     \/ Nak(h, s, l)
                     \/ Reply(h, s, l)

(***************************************************************************)
(* eap_post_proxy() takes the handler back from the request data: there is *)
(* no tunnel callback or it fails and the handler is freed, or what it     *)
(* composed is an EAP-Request and the handler is listed, else freed.  The  *)
(* timestamp is that of the request, which may be old by now.              *)
(***************************************************************************)
eap_post_proxy(s) ==
  /\ handler[s].where = "held"
  /\ \/ eaplist_add(handler, s, session_list, handler[s].age)
     \/ eap_handler_free(handler, s, session_list)
  /\ UNCHANGED <<accepted, twice, proxied, late>>

\* The proxied request is freed, and its data with it.
eap_opaque_free(s) ==
  /\ handler[s].where = "held"
  /\ eap_handler_free(handler, s, session_list)
  /\ UNCHANGED <<accepted, twice, proxied, late>>

EapTick ==
  /\ \A s \in Sessions : Live(s) => handler[s].age < MaxAge
  /\ \E s \in Sessions : Live(s)
  /\ handler' = [s \in Sessions |->
                   IF Live(s) THEN [handler[s] EXCEPT !.age = @ + 1]
                   ELSE handler[s]]
  /\ UNCHANGED <<session_list, states, accepted, twice, proxied, late>>

EapInit ==
  /\ handler = [s \in Sessions |-> Blank("unused")]
  /\ session_list = <<>> /\ states = {} /\ accepted = {}
  /\ twice = FALSE /\ proxied = FALSE /\ late = FALSE

EapNext ==
  \/ \E s \in Sessions, t \in Types : Identity(s, t)
  \/ \E c \in states : Respond(c)
  \/ \E s \in Sessions : eap_post_proxy(s) \/ eap_opaque_free(s)
  \/ EapTick

EapSpec == EapInit /\ [][EapNext]_eapVars

----------------------------------------------------------------------------
EapTypeOK ==
  /\ handler \in [Sessions -> HandlerRecord]
  /\ session_list \in Seq(Sessions)
  /\ states \subseteq StateKeys /\ accepted \subseteq StateKeys
  /\ twice \in BOOLEAN /\ proxied \in BOOLEAN /\ late \in BOOLEAN

(***************************************************************************)
(* The list holds each handler that waits for a response once, and never   *)
(* more than max_sessions of them; no handler that was freed or that a     *)
(* proxied request holds is left on it.                                    *)
(***************************************************************************)
ListIsExact ==
  /\ Members(session_list) = {s \in Sessions : handler[s].where = "listed"}
  /\ Cardinality(Members(session_list)) = Len(session_list)
  /\ Len(session_list) <= MaxSessions

(***************************************************************************)
(* A State answers one challenge: a response that is repeated, by the peer *)
(* or by whoever saw it, is never accepted a second time.                  *)
(***************************************************************************)
StateIsUsedOnce == ~twice

(***************************************************************************)
(* "They should be the oldest ones": the head of the list is the oldest    *)
(* session, which eaplist_expire() relies on.  A handler that comes back   *)
(* from a proxied request brings an old timestamp to the tail.             *)
(***************************************************************************)
OldestFirst ==
  ~proxied => \A i, j \in DOMAIN session_list :
                i < j => handler[session_list[i]].age >= handler[session_list[j]].age

(***************************************************************************)
(* A session is not continued after timer_expire, unless so many others    *)
(* had to be expired in the same call that its turn did not come, or an    *)
(* old timestamp is in front of it.                                        *)
(***************************************************************************)
ExpiredIsNotContinued == late => proxied

(***************************************************************************)
(* "Then, release the handle from the list, and return it to the caller":  *)
(* every handler that is allocated is on the list, with a request, or      *)
(* freed.                                                                  *)
(***************************************************************************)
HandlersAreOwned == \A s \in Sessions : handler[s].where # "lost"

\* A State is accepted once, whatever is repeated; the list of sessions is exact
\* and bounded, and has the oldest in front, where expiry looks; what has expired
\* is not continued.
SessionsAreExact ==
  EapTypeOK /\ StateIsUsedOnce /\ ListIsExact /\ OldestFirst /\ ExpiredIsNotContinued

=============================================================================
