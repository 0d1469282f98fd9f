------------------------------ MODULE EapProofs ------------------------------
(***************************************************************************)
(* EAP, proved for every bound: the phases of PEAP for any number of inner *)
(* rounds, the password methods for any configuration, any number of       *)
(* challenges and responses, and any sequence number range, and the list   *)
(* of EAP sessions for any number of sessions, trips and EAP types, any    *)
(* max_sessions and any time: a State is accepted once, the list is exact, *)
(* and its order is what eaplist_expire() relies on.                       *)
(***************************************************************************)
EXTENDS Peap, EapMethods, EapSession, FiniteSetTheorems, SequenceTheorems, WellFoundedInduction, TLAPS

----------------------------------------------------------------------------
(* PEAP.  What is true between two packets: a proxied request belongs to    *)
(* phase 2, success to the Result-TLV that was sent, and whoever waits for  *)
(* a statement of health is known by name or resumes a session that the     *)
(* TLS library has resumed.                                                 *)
PeapInv ==
    /\ PeapTypeOK /\ SuccessIsEarned /\ UsernameIsKnown
    /\ peap_rcode = "proxied" => peap.status = "phase2"
    /\ peap_rcode = "success" => peap.status = "sent_success"
    /\ peap.status = "soh" /\ peap.resumption # "yes" => peap.username
    /\ peap.resumption = "yes" => peap_conf.reused

Tunnels == [status: Statuses, resumption: {"maybe", "no", "yes"}, username: BOOLEAN,
            home_access_accept: BOOLEAN]

\* What an inner round leaves, for a tunnel that is in phase 2 with a user name.
LEMMA InnerInv ==
    ASSUME PeapInv, NEW new \in Tunnels, new.status = "phase2", new.username,
           new.resumption = peap.resumption, Inner(new)
    PROVE  PeapInv'
  <1> USE DEF Tunnels
  <1>1. inner.rounds < MaxInner
    BY DEF Inner
  <1>2. ASSUME NEW code \in {"accept", "reject", "challenge"}, process_reply(new, code)
        PROVE  PeapInv'
    <2>1. /\ peap_conf' = peap_conf /\ peap_rcode' = "going"
          /\ peap' \in Tunnels /\ peap'.username /\ peap'.resumption = peap.resumption
          /\ peap'.status = CASE code = "accept" -> "sent_success"
                              [] code = "reject" -> "sent_failure"
                              [] OTHER -> "phase2"
      BY <1>2 DEF process_reply, Statuses
    <2>2. /\ inner' \in [said: {"nothing", "accept", "reject"}, rounds: 0 .. MaxInner]
          /\ code = "accept" => inner'.said = "accept"
      <3>1. /\ inner \in [said: {"nothing", "accept", "reject"}, rounds: 0 .. MaxInner]
            /\ inner.rounds + 1 \in 0 .. MaxInner
        BY <1>1, PeapAssumption DEF PeapInv, PeapTypeOK
      <3>2. inner' = [inner EXCEPT !.said = IF code = "challenge" THEN @ ELSE code, !.rounds = @ + 1]
        BY <1>2 DEF process_reply, InnerSays
      <3> QED
        BY <3>1, <3>2
    <2>3. PeapTypeOK'
      BY <2>1, <2>2 DEF PeapInv, PeapTypeOK
    <2>4. peap'.status = "sent_success" => inner'.said = "accept"
      BY <2>1, <2>2
    <2>5. QED
      BY <2>1, <2>3, <2>4 DEF PeapInv, SuccessIsEarned, UsernameIsKnown
  <1>3. CASE peap' = new /\ peap_rcode' = "proxied" /\ UNCHANGED <<peap_conf, inner>>
    BY <1>3 DEF PeapInv, PeapTypeOK, SuccessIsEarned, UsernameIsKnown
  <1>4. CASE Rejected(new)
    BY <1>4 DEF Rejected, PeapInv, PeapTypeOK, SuccessIsEarned, UsernameIsKnown
  <1>5. QED
    BY <1>2, <1>3, <1>4 DEF Inner, Proxied

\* Every step of PeapNext keeps PeapInv.
LEMMA PeapStep == PeapInv /\ [PeapNext]_peapVars => PeapInv'
  <1> SUFFICES ASSUME PeapInv, [PeapNext]_peapVars PROVE PeapInv'
    OBVIOUS
  <1> peap \in Tunnels
    BY DEF PeapInv, PeapTypeOK, Tunnels
  <1>1. CASE TunnelEstablished
    BY <1>1 DEF TunnelEstablished, Handled, PeapInv, PeapTypeOK, PeapConf, Statuses, SuccessIsEarned,
                UsernameIsKnown
  <1>2. CASE BadData
    BY <1>2 DEF BadData, Rejected, PeapInv, PeapTypeOK, SuccessIsEarned, UsernameIsKnown
  <1>3. ASSUME NEW data \in Tunnel, InnerIdentity(data) PROVE PeapInv'
    <2> DEFINE new == [peap EXCEPT !.username = TRUE, !.status = "phase2"]
    <2>1. CASE Rejected(peap)
      BY <1>3, <2>1 DEF InnerIdentity, Rejected, PeapInv, PeapTypeOK, SuccessIsEarned, UsernameIsKnown
    <2>2. CASE Handled([peap EXCEPT !.username = TRUE, !.status = "soh"])
      BY <2>2 DEF Handled, PeapInv, PeapTypeOK, Statuses, SuccessIsEarned, UsernameIsKnown
    <2>3. CASE Inner(new)
      <3>1. new \in Tunnels /\ new.status = "phase2" /\ new.username /\ new.resumption = peap.resumption
        BY DEF Tunnels, Statuses
      <3> QED
        BY <2>3, <3>1, InnerInv
    <2> QED
      BY <1>3, <2>1, <2>2, <2>3 DEF InnerIdentity
  <1>4. ASSUME NEW data \in Tunnel, SohResponse(data) PROVE PeapInv'
    <2> DEFINE new == [peap EXCEPT !.status = "phase2"]
    <2>1. CASE \/ Handled([peap EXCEPT !.status = "sent_failure"])
               \/ peap.resumption = "yes" /\ Handled([peap EXCEPT !.status = "sent_success"])
      BY <1>4, <2>1 DEF SohResponse, Handled, PeapInv, PeapTypeOK, Statuses, SuccessIsEarned, UsernameIsKnown
    <2>2. CASE peap.resumption # "yes" /\ Inner(new)
      <3>1. new \in Tunnels /\ new.status = "phase2" /\ new.username /\ new.resumption = peap.resumption
        BY <1>4, <2>2 DEF SohResponse, PeapInv, Tunnels, Statuses
      <3> QED
        BY <2>2, <3>1, InnerInv
    <2> QED
      BY <1>4, <2>1, <2>2 DEF SohResponse
  <1>5. ASSUME NEW data \in Tunnel, SentSuccess(data) PROVE PeapInv'
    BY <1>5 DEF SentSuccess, Handled, Rejected, PeapInv, PeapTypeOK, Statuses, SuccessIsEarned, UsernameIsKnown
  <1>6. ASSUME NEW data \in Tunnel, SentFailure(data) PROVE PeapInv'
    BY <1>6 DEF SentFailure, Rejected, PeapInv, PeapTypeOK, SuccessIsEarned, UsernameIsKnown
  <1>7. ASSUME NEW data \in Tunnel, Phase2(data) PROVE PeapInv'
    BY <1>7, InnerInv DEF Phase2, PeapInv, UsernameIsKnown
  <1>8. ASSUME NEW code \in {"accept", "reject", "challenge"}, eappeap_postproxy(code) PROVE PeapInv'
    <2> DEFINE new == [peap EXCEPT !.home_access_accept = TRUE]
    <2>1. peap.status = "phase2" /\ peap.username
      BY <1>8 DEF eappeap_postproxy, PeapInv, UsernameIsKnown
    <2>2. new \in Tunnels /\ new.status = "phase2" /\ new.username /\ new.resumption = peap.resumption
      BY <2>1 DEF Tunnels
    <2>3. Inner(peap) \/ Inner(new)
      BY <1>8 DEF eappeap_postproxy, Inner
    <2> QED
      BY <2>1, <2>2, <2>3, InnerInv
  <1>9. CASE UNCHANGED peapVars
    BY <1>9 DEF peapVars, PeapInv, PeapTypeOK, SuccessIsEarned, UsernameIsKnown
  <1> QED
    BY <1>1, <1>2, <1>3, <1>4, <1>5, <1>6, <1>7, <1>8, <1>9 DEF PeapNext

\* eappeap_process(): EAP-Success is earned, t->username is set when it is used,
\* and no success follows a failure, for any number of rounds.
THEOREM PeapTheorem == PeapSpec => PeapIsSound
  <1>1. PeapInit => PeapInv
    BY PeapAssumption DEF PeapInit, PeapInv, PeapTypeOK, PeapConf, Statuses, SuccessIsEarned, UsernameIsKnown
  <1>2. PeapInv => PeapTypeOK /\ SuccessIsEarned /\ UsernameIsKnown
    BY DEF PeapInv
  <1>3. PeapInv /\ [PeapNext]_peapVars => [peap.status = "sent_failure" => peap_rcode' = "fail"]_peapVars
    <2> SUFFICES ASSUME PeapInv, PeapNext, peap.status = "sent_failure" PROVE peap_rcode' = "fail"
      OBVIOUS
    <2> QED
      BY DEF PeapInv, PeapNext, TunnelEstablished, BadData, InnerIdentity, SohResponse, SentSuccess, SentFailure,
             Phase2, eappeap_postproxy, Rejected
  <1> QED
    BY <1>1, <1>2, <1>3, PeapStep, PTL DEF PeapSpec, PeapIsSound, FailureIsFinal


----------------------------------------------------------------------------
(* The password methods.  Opaques is what handler->opaque may hold.         *)
Opaques ==
    [kind : EapMethod \cup {"none"}, challenge : Nat, nonce : Nat, ident : {"outer", "inner"},
     state : {"none", "sent", "4", "6", "challenge", "start", "success", "failure"},
     mppe_keys : BOOLEAN, sqn : Nat, synced : BOOLEAN]
KindOf(m) == IF m = "gtc" THEN "none" ELSE m

\* A method that goes on has a state it knows; after LEAP's stage 4, and after
\* MSCHAPv2's success, the user has proved himself (P are the proofs so far).
GoesOn(m, o, P) ==
    /\ o.kind = KindOf(m)
    /\ m = "leap" => o.state \in {"4", "6"} /\ (o.state = "6" => method_conf.password /\ Key(o) \in P)
    /\ m = "sim" => o.state \in {"start", "challenge"}
    /\ m = "mschapv2" /\ o.state = "success" => Key(o) \in P

SyncedIsAhead(o) ==
    o.synced => o.sqn > method_conf.card \/ method_conf.card + SqnStep > SqnMax

MethodInv ==
    /\ MethodsAreSound
    /\ opaque \in Opaques /\ opaque.challenge <= drawn
    /\ conv.where \in {"listed", "held"} => conv.type \in EapMethod /\ GoesOn(conv.type, opaque, proven)
    /\ conv.where = "held" => conv.type = "mschapv2"
    /\ conv.where = "none" => drawn = 0 /\ conv.responses = 0
    /\ conv.responses <= MaxResponses + 1
    /\ conv.where = "held" => conv.responses <= MaxResponses

Results ==
    [rcode : {0, 1}, eap : {"none", "request", "response", "success", "failure"},
     radius : {"none", "challenge", "accept"}, keys : BOOLEAN, held : BOOLEAN, opaque : Opaques]

\* What a method may return, when P are the proofs by then and H says that the
\* peer did what was asked.
Returns(m, r, res, P, H) ==
    /\ res \in Results
    /\ res.opaque.challenge <= drawn + 1
    /\ eap_compose(res) = "accept" => KeyOf(m, res.opaque) \in P
    /\ res.keys => eap_compose(res) = "accept"
    /\ res.rcode = 1 /\ (res.held \/ IsListed(m, r, res)) => GoesOn(m, res.opaque, P)
    /\ res.held => m = "mschapv2" /\ r.op = "response" /\ res.rcode = 1 /\ ~res.keys
    /\ H /\ ~res.held => eap_compose(res) # "reject"
    /\ SyncedIsAhead(res.opaque)

LEMMA NoOpaqueType == NoOpaque \in Opaques /\ ~NoOpaque.synced /\ NoOpaque.challenge = 0
  BY DEF NoOpaque, Opaques

LEMMA OpaqueType ==
    ASSUME NEW m \in EapMethod, NEW c \in Nat, NEW st \in {"sent", "4", "challenge", "start"}
    PROVE  LET o == Opaque(m, c, st)
           IN  o \in Opaques /\ ~o.synced /\ o.kind = m /\ o.challenge = c /\ o.state = st
  BY DEF NoOpaque, Opaques, Opaque

LEMMA RefusedFields ==
    /\ Refused \in Results
    /\ Refused.rcode = 0 /\ Refused.eap = "failure" /\ Refused.radius = "none"
    /\ ~Refused.keys /\ ~Refused.held /\ Refused.opaque = NoOpaque
  <1>1. Result("failure", NoOpaque) \in Results
    BY NoOpaqueType DEF Result, Results
  <1>2. QED
    BY <1>1 DEF Refused, Result, Results

LEMMA RefusedReturns ==
    ASSUME NEW m \in EapMethod, NEW r, NEW P, drawn \in Nat, NEW H, ~H
    PROVE  Returns(m, r, Refused, P, H)
  BY NoOpaqueType, RefusedFields DEF Returns, eap_compose, SyncedIsAhead

\* The fields of Result(), and that it is one.
LEMMA ResultFields ==
    ASSUME NEW o \in Opaques, NEW eap \in {"none", "request", "response", "success", "failure"}
    PROVE  LET res == Result(eap, o)
           IN  /\ res \in Results /\ res.rcode = 1 /\ res.eap = eap /\ res.radius = "none"
               /\ ~res.keys /\ ~res.held /\ res.opaque = o
  BY DEF Result, Results

\* A request goes on; a success, with or without keys, needs the proof; a failure
\* or no packet at all is not what an honest peer gets.
LEMMA RequestReturns ==
    ASSUME NEW m \in EapMethod, NEW r, NEW P, NEW H, NEW o \in Opaques, GoesOn(m, o, P),
           o.challenge <= drawn + 1, SyncedIsAhead(o)
    PROVE  Returns(m, r, Result("request", o), P, H)
  BY ResultFields DEF Returns, eap_compose

LEMMA SuccessReturns ==
    ASSUME NEW m \in EapMethod \ {"leap"}, NEW r, NEW P, NEW H, NEW k \in BOOLEAN, NEW o \in Opaques,
           KeyOf(m, o) \in P, o.challenge <= drawn + 1, SyncedIsAhead(o)
    PROVE  /\ Returns(m, r, Result("success", o), P, H)
           /\ Returns(m, r, [Result("success", o) EXCEPT !.keys = k], P, H)
  <1>1. Returns(m, r, Result("success", o), P, H)
    BY ResultFields DEF Returns, eap_compose, IsListed
  <1>2. LET res == [Result("success", o) EXCEPT !.keys = k]
        IN  /\ res \in Results /\ res.rcode = 1 /\ res.eap = "success" /\ res.radius = "none"
            /\ ~res.held /\ res.opaque = o
    BY ResultFields DEF Results
  <1>3. QED
    BY <1>1, <1>2 DEF Returns, eap_compose, IsListed

LEMMA FailureReturns ==
    ASSUME NEW m \in EapMethod, NEW r, NEW P, NEW eap \in {"none", "failure"}, NEW o \in Opaques,
           o.challenge <= drawn + 1, SyncedIsAhead(o)
    PROVE  Returns(m, r, Result(eap, o), P, FALSE)
  BY ResultFields DEF Returns, eap_compose, IsListed

\* A new vector of AKA has a new challenge, and a sequence number that is ahead of
\* the one it was made of unless that was at its end.
LEMMA ChalansFields ==
    ASSUME drawn \in Nat, NEW o \in Opaques, NEW s \in 0..SqnMax
    PROVE  LET n == eap_aka_getchalans(o, s)
           IN  /\ n \in Opaques /\ n.kind = o.kind /\ n.state = o.state /\ n.synced = o.synced
               /\ n.challenge = drawn + 1 /\ (n.sqn > s \/ s + SqnStep > SqnMax)
  <1>1. NextSqn(s) \in Nat /\ (NextSqn(s) > s \/ s + SqnStep > SqnMax)
    BY MethodAssumption DEF NextSqn
  <1> DEFINE c == [o EXCEPT !.challenge = drawn + 1]
             n == [c EXCEPT !.sqn = NextSqn(s)]
  <1>2. /\ c \in Opaques /\ c.kind = o.kind /\ c.state = o.state /\ c.synced = o.synced
        /\ c.challenge = drawn + 1
    BY DEF Opaques
  <1>3. eap_aka_getchalans(o, s) = n
    BY DEF eap_aka_getchalans
  <1> HIDE DEF c
  <1>4. /\ n \in Opaques /\ n.kind = c.kind /\ n.state = c.state /\ n.synced = c.synced
        /\ n.challenge = c.challenge /\ n.sqn = NextSqn(s)
    BY <1>1, <1>2 DEF Opaques
  <1> HIDE DEF n
  <1> QED
    BY <1>1, <1>2, <1>3, <1>4

\* A new state of the method leaves the key and the vector.
LEMMA StateFields ==
    ASSUME NEW o \in Opaques, NEW st \in {"6", "challenge", "success", "failure"}
    PROVE  LET n == [o EXCEPT !.state = st]
           IN  /\ n \in Opaques /\ n.kind = o.kind /\ n.state = st /\ Key(n) = Key(o)
               /\ n.challenge = o.challenge /\ n.synced = o.synced /\ n.sqn = o.sqn
  BY DEF Opaques, Key

\* Every initiate() answers with a request, and fails only when the user lacks
\* what the method needs.
LEMMA InitiateReturns ==
    ASSUME MethodInv, NEW m \in EapMethod, NEW attrs, NEW r, NEW P
    PROVE  /\ Returns(m, r, initiate(m, attrs), P, FALSE)
           /\ Provided(m, attrs) => Returns(m, r, initiate(m, attrs), P, TRUE)
  <1>0. drawn \in Nat /\ method_conf \in MethodConf
    BY MethodAssumption DEF MethodInv, MethodsAreSound, MethodTypeOK
  <1>1. ASSUME NEW n \in EapMethod, NEW st \in {"sent", "4", "challenge", "start"},
               n = "leap" => st = "4", n = "sim" => st = "start", n # "gtc", NEW H
        PROVE  Returns(n, r, Result("request", Opaque(n, drawn + 1, st)), P, H)
    <2> DEFINE o == Opaque(n, drawn + 1, st)
    <2>1. o \in Opaques /\ ~o.synced /\ o.kind = n /\ o.challenge = drawn + 1 /\ o.state = st
      BY <1>0, OpaqueType
    <2> HIDE DEF o
    <2>2. GoesOn(n, o, P) /\ SyncedIsAhead(o) /\ o.challenge <= drawn + 1
      BY <1>0, <1>1, <2>1 DEF GoesOn, KindOf, SyncedIsAhead
    <2>3. Returns(n, r, Result("request", o), P, H)
      BY <2>1, <2>2, RequestReturns
    <2> QED
      BY <2>3 DEF o
  <1>2. CASE m = "md5"
    BY <1>1, <1>2 DEF initiate, md5_initiate, EapMethod
  <1>3. CASE m = "gtc"
    <2>1. GoesOn(m, NoOpaque, P) /\ SyncedIsAhead(NoOpaque) /\ NoOpaque.challenge <= drawn + 1
      BY <1>0, <1>3 DEF GoesOn, KindOf, SyncedIsAhead, NoOpaque
    <2>2. initiate(m, attrs) = Result("request", NoOpaque)
      BY <1>3 DEF initiate, gtc_initiate
    <2> QED
      BY <1>3, <2>1, <2>2, NoOpaqueType, RequestReturns
  <1>4. CASE m = "leap"
    BY <1>1, <1>4 DEF initiate, leap_initiate, EapMethod
  <1>5. CASE m = "mschapv2"
    BY <1>1, <1>5 DEF initiate, mschapv2_initiate, EapMethod
  <1>6. CASE m = "sim"
    <2>1. CASE method_conf.triplets
      BY <1>1, <1>6, <2>1 DEF initiate, eap_sim_initiate, EapMethod
    <2>2. CASE ~method_conf.triplets
      <3>1. initiate(m, attrs) = Refused /\ ~Provided(m, attrs)
        BY <1>6, <2>2 DEF initiate, eap_sim_initiate, Provided
      <3> QED
        BY <1>0, <3>1, RefusedReturns
    <2> QED
      BY <2>1, <2>2
  <1>7. CASE m = "aka"
    <2>1. CASE attrs = "all"
      <3> DEFINE o == eap_aka_getchalans(Opaque("aka", drawn + 1, "challenge"), method_conf.sqn)
      <3>1. o \in Opaques /\ ~o.synced /\ o.kind = "aka" /\ o.challenge = drawn + 1
        <4>1. method_conf.sqn \in 0..SqnMax
          BY <1>0 DEF MethodConf
        <4>2. LET c == Opaque("aka", drawn + 1, "challenge") IN c \in Opaques /\ ~c.synced /\ c.kind = "aka"
          BY <1>0, OpaqueType DEF EapMethod
        <4> QED
          BY <1>0, <4>1, <4>2, ChalansFields
      <3> HIDE DEF o
      <3>2. GoesOn(m, o, P) /\ SyncedIsAhead(o) /\ o.challenge <= drawn + 1
        BY <1>0, <1>7, <3>1 DEF GoesOn, KindOf, SyncedIsAhead
      <3>3. initiate(m, attrs) = Result("request", o)
        BY <1>7, <2>1 DEF initiate, eap_aka_initiate, o
      <3> QED
        BY <1>0, <3>1, <3>2, <3>3, RequestReturns
    <2>2. CASE attrs # "all"
      <3>1. initiate(m, attrs) = Refused /\ ~Provided(m, attrs)
        BY <1>7, <2>2 DEF initiate, eap_aka_initiate, Provided
      <3> QED
        BY <1>0, <3>1, RefusedReturns
    <2> QED
      BY <2>1, <2>2
  <1> QED
    BY <1>2, <1>3, <1>4, <1>5, <1>6, <1>7 DEF EapMethod

\* A right MSCHAPv2 response: the success goes to the peer and the keys wait.
LEMMA FixedReturns ==
    ASSUME NEW r, NEW P, NEW H, drawn \in Nat, opaque \in Opaques, opaque.kind = "mschapv2",
           Key(opaque) \in P, opaque.challenge <= drawn + 1, SyncedIsAhead(opaque)
    PROVE  LET res == fix_mppe_keys(Result("request", [opaque EXCEPT !.state = "success"]))
               later == [res EXCEPT !.radius = "challenge"]
           IN  /\ Returns("mschapv2", r, res, P, H) /\ Returns("mschapv2", r, later, P, H)
               /\ ~later.held /\ later.opaque.challenge = opaque.challenge
  <1> DEFINE s == [opaque EXCEPT !.state = "success"]
             plain == Result("request", s)
             n == [s EXCEPT !.mppe_keys = TRUE]
             unkeyed == [plain EXCEPT !.keys = FALSE]
             res == [unkeyed EXCEPT !.opaque = n]
             later == [res EXCEPT !.radius = "challenge"]
  <1>1. /\ s \in Opaques /\ s.kind = "mschapv2" /\ s.state = "success" /\ Key(s) = Key(opaque)
        /\ s.challenge = opaque.challenge /\ s.synced = opaque.synced /\ s.sqn = opaque.sqn
    BY StateFields
  <1> HIDE DEF s
  <1>2. /\ n \in Opaques /\ n.kind = "mschapv2" /\ Key(n) = Key(s)
        /\ n.challenge = s.challenge /\ n.synced = s.synced /\ n.sqn = s.sqn
    BY <1>1 DEF Opaques, Key
  <1>3. /\ plain \in Results /\ plain.rcode = 1 /\ plain.eap = "request" /\ plain.radius = "none"
        /\ ~plain.held /\ plain.opaque = s
    BY <1>1, ResultFields
  <1>4. fix_mppe_keys(plain) = res
    BY <1>3 DEF fix_mppe_keys, Results
  <1> HIDE DEF n, plain
  <1>5. /\ unkeyed \in Results /\ unkeyed.rcode = 1 /\ unkeyed.eap = "request"
        /\ unkeyed.radius = "none" /\ ~unkeyed.held /\ ~unkeyed.keys
    BY <1>3 DEF Results
  <1> HIDE DEF unkeyed
  <1>6. /\ res \in Results /\ res.rcode = 1 /\ res.eap = "request"
        /\ res.radius = "none" /\ ~res.held /\ ~res.keys /\ res.opaque = n
    BY <1>2, <1>5 DEF Results
  <1> HIDE DEF res
  <1>7. /\ later \in Results /\ later.rcode = 1 /\ later.eap = "request"
        /\ later.radius = "challenge" /\ ~later.held /\ ~later.keys /\ later.opaque = n
    BY <1>6 DEF Results
  <1> HIDE DEF later
  <1>8. GoesOn("mschapv2", n, P) /\ SyncedIsAhead(n) /\ n.challenge <= drawn + 1
    BY <1>1, <1>2 DEF GoesOn, KindOf, SyncedIsAhead
  <1>9. Returns("mschapv2", r, res, P, H)
    BY <1>6, <1>8 DEF Returns, eap_compose
  <1>10. Returns("mschapv2", r, later, P, H)
    BY <1>7, <1>8 DEF Returns, eap_compose
  <1>11. ~later.held /\ later.opaque.challenge = opaque.challenge
    BY <1>1, <1>2, <1>7
  <1> QED
    BY <1>4, <1>9, <1>10, <1>11 DEF later, plain, s

\* The accept of the home server, with or without MS-CHAP2-Success.
LEMMA PostProxyReturns ==
    ASSUME NEW r, NEW P, NEW H, NEW s \in BOOLEAN, H => s, drawn \in Nat, opaque \in Opaques,
           opaque.kind = "mschapv2", Key(opaque) \in P, opaque.challenge <= drawn, SyncedIsAhead(opaque)
    PROVE  /\ Returns("mschapv2", r, mschap_postproxy(s), P, H)
           /\ ~mschap_postproxy(s).held /\ mschap_postproxy(s).opaque.challenge <= drawn
  <1>0. opaque.challenge <= drawn + 1
    BY DEF Opaques
  <1>1. CASE s
    <2> DEFINE res == fix_mppe_keys(Result("request", [opaque EXCEPT !.state = "success"]))
               later == [res EXCEPT !.radius = "challenge"]
    <2>1. Returns("mschapv2", r, later, P, H) /\ ~later.held /\ later.opaque.challenge = opaque.challenge
      BY <1>0, FixedReturns
    <2>2. mschap_postproxy(s) = later
      BY <1>1 DEF mschap_postproxy
    <2> HIDE DEF later
    <2> QED
      BY <2>1, <2>2
  <1>2. CASE ~s
    <2> DEFINE a == [Refused EXCEPT !.radius = "accept"]
               b == [a EXCEPT !.keys = TRUE]
               res == [b EXCEPT !.opaque = opaque]
    <2>1. a \in Results /\ a.rcode = 0 /\ a.radius = "accept" /\ ~a.held
      BY RefusedFields DEF Results
    <2>2. mschap_postproxy(s) = res
      BY <1>2 DEF mschap_postproxy
    <2> HIDE DEF a
    <2>3. b \in Results /\ b.rcode = 0 /\ b.radius = "accept" /\ ~b.held /\ b.keys
      BY <2>1 DEF Results
    <2> HIDE DEF b
    <2>4. res \in Results /\ res.rcode = 0 /\ res.radius = "accept" /\ ~res.held /\ res.keys /\ res.opaque = opaque
      BY <2>3 DEF Results
    <2> HIDE DEF res
    <2> QED
      BY <1>0, <1>2, <2>2, <2>4 DEF Returns, eap_compose, KeyOf
  <1> QED
    BY <1>1, <1>2

----------------------------------------------------------------------------
\* Every authenticate(), for a response r whose proof, if the user made it, is
\* among P.
LEMMA AuthenticateReturns ==
    ASSUME MethodInv, conv.where = "listed", NEW m, m = conv.type, NEW r, NEW P,
           r.nonce \in Nat, r.ident \in {"outer", "inner"},
           proven \subseteq P, r.by = "user" => r.of \in P
    PROVE  /\ Returns(m, r, authenticate(m, r), P, FALSE)
           /\ Asked(m, r) => Returns(m, r, authenticate(m, r), P, TRUE)
  <1> DEFINE res == authenticate(m, r)
  <1>0. /\ drawn \in Nat /\ method_conf \in MethodConf /\ m \in EapMethod
        /\ opaque \in Opaques /\ opaque.challenge <= drawn + 1 /\ SyncedIsAhead(opaque)
        /\ GoesOn(m, opaque, proven) /\ GoesOn(m, opaque, P)
    <2>1. drawn \in Nat /\ method_conf \in MethodConf /\ m \in EapMethod
      BY MethodAssumption DEF MethodInv, MethodsAreSound, MethodTypeOK
    <2>2. opaque \in Opaques /\ opaque.challenge <= drawn + 1 /\ SyncedIsAhead(opaque)
      BY <2>1 DEF MethodInv, MethodsAreSound, SyncIsOnce, SyncedIsAhead, Opaques
    <2>3. GoesOn(m, opaque, proven)
      BY DEF MethodInv
    <2>4. GoesOn(m, opaque, P)
      BY <2>3 DEF GoesOn
    <2> QED
      BY <2>1, <2>2, <2>3, <2>4
  <1>1. Verify(m, opaque, r) => KeyOf(m, opaque) \in P
    BY DEF Verify
  <1>2. CASE m = "md5"
    <2>1. CASE ~method_conf.password \/ r.op = "malformed"
      <3>1. res = Refused /\ ~Asked(m, r)
        BY <1>2, <2>1 DEF authenticate, md5_authenticate, Asked
      <3> QED
        BY <1>0, <3>1, RefusedReturns
    <2>2. CASE ~(~method_conf.password \/ r.op = "malformed") /\ Verify(m, opaque, r)
      <3>1. res = Result("success", opaque)
        BY <1>2, <2>2 DEF authenticate, md5_authenticate
      <3>2. m \in EapMethod \ {"leap"} /\ KeyOf(m, opaque) \in P
        BY <1>0, <1>1, <1>2, <2>2
      <3>3. \A H : Returns(m, r, Result("success", opaque), P, H)
        BY <1>0, <3>2, SuccessReturns
      <3> QED
        BY <3>1, <3>3
    <2>3. CASE ~(~method_conf.password \/ r.op = "malformed") /\ ~Verify(m, opaque, r)
      <3>1. res = Result("failure", opaque) /\ ~Asked(m, r)
        BY <1>2, <2>3 DEF authenticate, md5_authenticate, Asked
      <3> QED
        BY <1>0, <3>1, FailureReturns
    <2> QED
      BY <2>1, <2>2, <2>3
  <1>3. CASE m = "gtc"
    <2>1. CASE r.op = "malformed" \/ ~method_conf.password \/ ~Verify(m, opaque, r)
      <3>1. res = Refused /\ ~Asked(m, r)
        BY <1>3, <2>1 DEF authenticate, gtc_authenticate, Asked
      <3> QED
        BY <1>0, <3>1, RefusedReturns
    <2>2. CASE ~(r.op = "malformed" \/ ~method_conf.password \/ ~Verify(m, opaque, r))
      <3>1. res = Result("success", opaque)
        BY <1>3, <2>2 DEF authenticate, gtc_authenticate
      <3>2. m \in EapMethod \ {"leap"} /\ KeyOf(m, opaque) \in P
        BY <1>0, <1>1, <1>3, <2>2
      <3>3. \A H : Returns(m, r, Result("success", opaque), P, H)
        BY <1>0, <3>2, SuccessReturns
      <3> QED
        BY <3>1, <3>3
    <2> QED
      BY <2>1, <2>2
  <1>4. CASE m = "leap"
    <2>0. opaque.state \in {"4", "6"} /\ (opaque.state = "6" => method_conf.password /\ Key(opaque) \in P)
      BY <1>0, <1>4 DEF GoesOn
    <2>1. CASE \/ r.op = "malformed" \/ ~method_conf.password
               \/ opaque.state = "4" /\ ~(r.op = "response" /\ Verify("leap", opaque, r))
      <3>1. res = Refused
        BY <1>4, <2>0, <2>1 DEF authenticate, leap_authenticate
      <3>2. ~Asked(m, r)
        BY <1>4, <2>0, <2>1 DEF Asked
      <3> QED
        BY <1>0, <3>1, <3>2, RefusedReturns
    <2>2. CASE ~(r.op = "malformed" \/ ~method_conf.password) /\ opaque.state = "4"
               /\ r.op = "response" /\ Verify("leap", opaque, r)
      <3> DEFINE o == [opaque EXCEPT !.state = "6"]
                 ok == [Result("success", o) EXCEPT !.radius = "challenge"]
      <3>1. /\ o \in Opaques /\ o.challenge = opaque.challenge /\ o.synced = opaque.synced /\ o.sqn = opaque.sqn
            /\ o.kind = opaque.kind /\ o.state = "6" /\ Key(o) = Key(opaque)
        BY <1>0 DEF Opaques, Key
      <3>2. GoesOn(m, o, P) /\ SyncedIsAhead(o)
        BY <1>0, <1>1, <1>4, <2>2, <3>1 DEF GoesOn, SyncedIsAhead, KeyOf
      <3> HIDE DEF o
      <3>3. /\ ok \in Results /\ ok.rcode = 1 /\ ok.eap = "success" /\ ok.radius = "challenge"
            /\ ~ok.keys /\ ~ok.held /\ ok.opaque = o
        BY <3>1, ResultFields DEF Results
      <3>4. res = ok
        BY <1>4, <2>2 DEF authenticate, leap_authenticate, o
      <3> HIDE DEF ok, res
      <3> QED
        BY <1>0, <3>1, <3>2, <3>3, <3>4 DEF Returns, eap_compose, res
    <2>3. CASE ~(r.op = "malformed" \/ ~method_conf.password) /\ opaque.state = "6"
      <3> DEFINE plain == Result("response", opaque)
                 ok == [plain EXCEPT !.keys = TRUE]
      <3>1. /\ plain \in Results /\ plain.rcode = 1 /\ plain.eap = "response" /\ plain.radius = "none"
            /\ ~plain.held /\ plain.opaque = opaque
        BY <1>0, ResultFields
      <3>2. res = ok
        BY <1>4, <2>3 DEF authenticate, leap_authenticate
      <3> HIDE DEF plain
      <3>3. /\ ok \in Results /\ ok.rcode = 1 /\ ok.eap = "response" /\ ok.radius = "none"
            /\ ok.keys /\ ~ok.held /\ ok.opaque = opaque
        BY <3>1 DEF Results
      <3>4. KeyOf(m, opaque) \in P
        BY <1>4, <2>0, <2>3 DEF KeyOf
      <3> HIDE DEF ok, res
      <3> QED
        BY <1>0, <3>2, <3>3, <3>4 DEF Returns, eap_compose, IsListed, res
    <2> QED
      BY <2>0, <2>1, <2>2, <2>3
  <1>5. CASE m = "sim"
    <2>0. opaque.state \in {"start", "challenge"} /\ opaque.kind = "sim"
      BY <1>0, <1>5 DEF GoesOn, KindOf
    <2>1. ASSUME NEW o \in Opaques, o.kind = "sim", o.challenge <= drawn + 1, SyncedIsAhead(o), NEW H
          PROVE  Returns(m, r, eap_sim_sendchallenge(o, r), P, H)
      <3> DEFINE c == [o EXCEPT !.state = "challenge"]
                 n == [c EXCEPT !.ident = r.ident]
      <3>1. /\ c \in Opaques /\ c.kind = "sim" /\ c.state = "challenge"
            /\ c.challenge = o.challenge /\ c.synced = o.synced /\ c.sqn = o.sqn
        BY <2>1, StateFields
      <3>2. eap_sim_sendchallenge(o, r) = Result("request", n)
        BY DEF eap_sim_sendchallenge
      <3> HIDE DEF c
      <3>3. /\ n \in Opaques /\ n.kind = "sim" /\ n.state = "challenge"
            /\ n.challenge = o.challenge /\ n.synced = o.synced /\ n.sqn = o.sqn
        BY <3>1 DEF Opaques
      <3> HIDE DEF n
      <3>4. GoesOn(m, n, P) /\ SyncedIsAhead(n) /\ n.challenge <= drawn + 1
        BY <1>5, <2>1, <3>3 DEF GoesOn, KindOf, SyncedIsAhead
      <3> QED
        BY <1>0, <3>2, <3>3, <3>4, RequestReturns
    <2>2. CASE r.op \in {"malformed", "client_error"}
      <3>1. res = Refused /\ ~Asked(m, r)
        BY <1>5, <2>0, <2>2 DEF authenticate, eap_sim_authenticate, Asked
      <3> QED
        BY <1>0, <3>1, RefusedReturns
    <2>3. CASE r.op \notin {"malformed", "client_error"} /\ opaque.state = "start"
      <3>0. res = process_eap_sim_start(r)
        BY <1>5, <2>3 DEF authenticate, eap_sim_authenticate
      <3>1. CASE r.op = "start"
        <4> DEFINE o == [opaque EXCEPT !.nonce = r.nonce]
        <4>1. /\ o \in Opaques /\ o.kind = "sim"
              /\ o.challenge = opaque.challenge /\ o.synced = opaque.synced /\ o.sqn = opaque.sqn
          BY <1>0, <2>0 DEF Opaques
        <4>2. res = eap_sim_sendchallenge(o, r)
          BY <3>0, <3>1 DEF process_eap_sim_start
        <4> HIDE DEF o, res
        <4>3. o.challenge <= drawn + 1 /\ SyncedIsAhead(o)
          BY <1>0, <4>1 DEF SyncedIsAhead
        <4> QED
          BY <2>1, <4>1, <4>2, <4>3 DEF res
      <3>2. CASE r.op = "start_bad"
        <4>1. res = Refused /\ ~Asked(m, r)
          BY <1>5, <2>3, <3>0, <3>2 DEF process_eap_sim_start, Asked
        <4> QED
          BY <1>0, <4>1, RefusedReturns
      <3>3. CASE r.op \notin {"start", "start_bad"}
        <4>1. res = Result("request", opaque)
          BY <3>0, <3>3 DEF process_eap_sim_start
        <4> QED
          BY <1>0, <4>1, RequestReturns
      <3> QED
        BY <3>1, <3>2, <3>3
    <2>4. CASE r.op \notin {"malformed", "client_error", "challenge"} /\ opaque.state = "challenge"
      <3>1. res = eap_sim_sendchallenge(opaque, r)
        BY <1>5, <2>4 DEF authenticate, eap_sim_authenticate
      <3> QED
        BY <1>0, <2>0, <2>1, <3>1
    <2>5. CASE r.op = "challenge" /\ opaque.state = "challenge"
      <3>0. res = process_eap_sim_challenge(r)
        BY <1>5, <2>5 DEF authenticate, eap_sim_authenticate
      <3>1. CASE Verify("sim", opaque, r)
        <4> DEFINE n == [opaque EXCEPT !.state = "success"]
        <4>1. /\ n \in Opaques /\ Key(n) = Key(opaque)
              /\ n.challenge = opaque.challenge /\ n.synced = opaque.synced /\ n.sqn = opaque.sqn
          BY <1>0, StateFields
        <4>2. res = [Result("success", n) EXCEPT !.keys = TRUE]
          BY <3>0, <3>1 DEF process_eap_sim_challenge
        <4> HIDE DEF n
        <4>3. m \in EapMethod \ {"leap"} /\ KeyOf(m, n) \in P
          BY <1>0, <1>1, <1>5, <3>1, <4>1 DEF KeyOf
        <4>4. n.challenge <= drawn + 1 /\ SyncedIsAhead(n)
          BY <1>0, <4>1 DEF SyncedIsAhead
        <4>5. \A H : Returns(m, r, [Result("success", n) EXCEPT !.keys = TRUE], P, H)
          BY <4>1, <4>3, <4>4, SuccessReturns
        <4> QED
          BY <4>2, <4>5
      <3>2. CASE ~Verify("sim", opaque, r)
        <4>1. res = Refused /\ ~Asked(m, r)
          BY <1>5, <2>5, <3>0, <3>2 DEF process_eap_sim_challenge, Asked
        <4> QED
          BY <1>0, <4>1, RefusedReturns
      <3> QED
        BY <3>1, <3>2
    <2> QED
      BY <2>0, <2>2, <2>3, <2>4, <2>5
  <1>6. CASE m = "aka"
    <2>1. CASE r.op \in {"malformed", "authentication_reject", "client_error"}
      <3>1. res = Refused
        BY <1>6, <2>1 DEF authenticate, eap_aka_authenticate
      <3>2. ~Asked(m, r)
        BY <1>6, <2>1 DEF Asked
      <3> QED
        BY <1>0, <3>1, <3>2, RefusedReturns
    <2>2. CASE r.op \in {"challenge", "bad_res"}
      <3>0. res = process_eap_aka_challenge(r)
        BY <1>6, <2>2 DEF authenticate, eap_aka_authenticate
      <3>1. CASE ~Verify("aka", opaque, r)
        <4>1. res = Refused
          BY <3>0, <3>1 DEF process_eap_aka_challenge
        <4>2. ~Asked(m, r)
          BY <1>6, <2>2, <3>1 DEF Asked
        <4> QED
          BY <1>0, <4>1, <4>2, RefusedReturns
      <3>2. CASE Verify("aka", opaque, r) /\ r.op = "bad_res"
        <4>1. res = Result("none", opaque)
          BY <3>0, <3>2 DEF process_eap_aka_challenge
        <4>2. ~Asked(m, r)
          BY <1>6, <3>2 DEF Asked
        <4> QED
          BY <1>0, <4>1, <4>2, FailureReturns
      <3>3. CASE Verify("aka", opaque, r) /\ r.op # "bad_res"
        <4> DEFINE n == [opaque EXCEPT !.state = "success"]
        <4>1. /\ n \in Opaques /\ Key(n) = Key(opaque)
              /\ n.challenge = opaque.challenge /\ n.synced = opaque.synced /\ n.sqn = opaque.sqn
          BY <1>0, StateFields
        <4>2. res = [Result("success", n) EXCEPT !.keys = TRUE]
          BY <3>0, <3>3 DEF process_eap_aka_challenge
        <4> HIDE DEF n
        <4>3. m \in EapMethod \ {"leap"} /\ KeyOf(m, n) \in P
          BY <1>0, <1>1, <1>6, <3>3, <4>1 DEF KeyOf
        <4>4. n.challenge <= drawn + 1 /\ SyncedIsAhead(n)
          BY <1>0, <4>1 DEF SyncedIsAhead
        <4>5. \A H : Returns(m, r, [Result("success", n) EXCEPT !.keys = TRUE], P, H)
          BY <4>1, <4>3, <4>4, SuccessReturns
        <4> QED
          BY <4>2, <4>5
      <3> QED
        BY <3>1, <3>2, <3>3
    <2>3. CASE r.op \in {"sync", "sync_bad"}
      <3>0. res = process_eap_aka_sqn_sync(r)
        BY <1>6, <2>3 DEF authenticate, eap_aka_authenticate
      <3>1. CASE r.op = "sync_bad" \/ r.attrs = "no_sqn"
        <4>1. res = Refused
          BY <3>0, <3>1 DEF process_eap_aka_sqn_sync
        <4>2. ~Asked(m, r)
          BY <1>6, <2>3, <3>1 DEF Asked
        <4> QED
          BY <1>0, <4>1, <4>2, RefusedReturns
      <3>2. CASE ~(r.op = "sync_bad" \/ r.attrs = "no_sqn") /\ r.attrs = "no_key"
        <4>1. res = Result("request", opaque)
          BY <3>0, <3>2 DEF process_eap_aka_sqn_sync
        <4> QED
          BY <1>0, <4>1, RequestReturns
      <3>3. CASE ~(r.op = "sync_bad" \/ r.attrs = "no_sqn") /\ r.attrs # "no_key"
        <4> DEFINE v == eap_aka_getchalans(opaque, method_conf.card)
                   n == [v EXCEPT !.synced = TRUE]
        <4>1. res = Result("request", n)
          BY <3>0, <3>3 DEF process_eap_aka_sqn_sync
        <4>2. method_conf.card \in 0..SqnMax
          BY <1>0 DEF MethodConf
        <4>3. /\ v \in Opaques /\ v.kind = opaque.kind /\ v.challenge = drawn + 1
              /\ v.sqn > method_conf.card \/ method_conf.card + SqnStep > SqnMax
          BY <1>0, <4>2, ChalansFields
        <4> HIDE DEF v
        <4>4. n \in Opaques /\ n.kind = v.kind /\ n.challenge = v.challenge /\ n.sqn = v.sqn
          BY <4>3 DEF Opaques
        <4> HIDE DEF n, res
        <4>5. opaque.kind = "aka"
          BY <1>0, <1>6 DEF GoesOn, KindOf
        <4>6. n.kind = "aka" /\ n.challenge <= drawn + 1
          BY <1>0, <4>3, <4>4, <4>5
        <4>7. GoesOn(m, n, P) /\ SyncedIsAhead(n)
          BY <1>6, <4>3, <4>4, <4>6 DEF GoesOn, KindOf, SyncedIsAhead
        <4>8. \A H : Returns(m, r, Result("request", n), P, H)
          BY <1>0, <4>4, <4>6, <4>7, RequestReturns
        <4> QED
          BY <4>1, <4>8 DEF res
      <3> QED
        BY <3>1, <3>2, <3>3
    <2>4. CASE r.op \notin {"malformed", "authentication_reject", "client_error", "challenge",
                            "bad_res", "sync", "sync_bad"}
      <3>1. res = Result("request", opaque)
        BY <1>6, <2>4 DEF authenticate, eap_aka_authenticate
      <3> QED
        BY <1>0, <3>1, RequestReturns
    <2> QED
      BY <2>1, <2>2, <2>3, <2>4
  <1>7. CASE m = "mschapv2"
    <2>0. opaque.kind = "mschapv2" /\ (opaque.state = "success" => Key(opaque) \in P)
      BY <1>0, <1>7 DEF GoesOn, KindOf
    <2>1. CASE r.op = "ack" /\ opaque.state = "success"
      <3>1. res = Result("none", opaque)
        BY <1>7, <2>1 DEF authenticate, mschapv2_authenticate
      <3>2. ~Asked(m, r)
        BY <1>7, <2>1 DEF Asked
      <3> QED
        BY <1>0, <3>1, <3>2, FailureReturns
    <2>2. CASE r.op = "response" /\ opaque.state = "challenge"
      <3>0. res = MschapResponse(r)
        BY <1>7, <2>2 DEF authenticate, mschapv2_authenticate
      <3>1. CASE method_conf.proxy
        <4> DEFINE plain == Result("none", opaque)
                   ok == [plain EXCEPT !.held = TRUE]
        <4>1. /\ plain \in Results /\ plain.rcode = 1 /\ plain.eap = "none" /\ plain.radius = "none"
              /\ ~plain.keys /\ plain.opaque = opaque
          BY <1>0, ResultFields
        <4>2. res = ok
          BY <3>0, <3>1 DEF MschapResponse
        <4> HIDE DEF plain
        <4>3. /\ ok \in Results /\ ok.rcode = 1 /\ ok.eap = "none" /\ ok.radius = "none"
              /\ ~ok.keys /\ ok.held /\ ok.opaque = opaque
          BY <4>1 DEF Results
        <4> HIDE DEF ok, res
        <4> QED
          BY <1>0, <1>7, <2>2, <4>2, <4>3 DEF Returns, eap_compose, res
      <3>2. CASE ~method_conf.proxy /\ Verify("mschapv2", opaque, r) /\ r.attrs = "all"
        <4> DEFINE o == [opaque EXCEPT !.state = "success"]
        <4>1. res = fix_mppe_keys(Result("request", o))
          BY <3>0, <3>2 DEF MschapResponse
        <4>2. Key(opaque) \in P
          BY <1>1, <1>7, <3>2 DEF KeyOf
        <4>3. \A H : Returns("mschapv2", r, fix_mppe_keys(Result("request", o)), P, H)
          BY <1>0, <2>0, <4>2, FixedReturns
        <4> HIDE DEF o, res
        <4> QED
          BY <1>7, <4>1, <4>3 DEF res
      <3>3. CASE ~method_conf.proxy /\ ~Verify("mschapv2", opaque, r) /\ ~method_conf.send_error
        <4>1. res = Result("failure", opaque)
          BY <3>0, <3>3 DEF MschapResponse
        <4>2. ~Asked(m, r)
          BY <1>7, <2>2, <3>3 DEF Asked
        <4> QED
          BY <1>0, <4>1, <4>2, FailureReturns
      <3>4. CASE ~method_conf.proxy /\ ~Verify("mschapv2", opaque, r) /\ method_conf.send_error
                 /\ r.attrs = "all"
        <4> DEFINE n == [opaque EXCEPT !.state = "failure"]
        <4>1. /\ n \in Opaques /\ n.kind = opaque.kind /\ n.state = "failure"
              /\ n.challenge = opaque.challenge /\ n.synced = opaque.synced /\ n.sqn = opaque.sqn
          BY <1>0, StateFields
        <4>2. res = Result("request", n)
          BY <3>0, <3>4 DEF MschapResponse
        <4> HIDE DEF n, res
        <4>3. GoesOn(m, n, P) /\ SyncedIsAhead(n) /\ n.challenge <= drawn + 1
          BY <1>0, <1>7, <2>0, <4>1 DEF GoesOn, KindOf, SyncedIsAhead
        <4>4. \A H : Returns(m, r, Result("request", n), P, H)
          BY <1>0, <4>1, <4>3, RequestReturns
        <4> QED
          BY <4>2, <4>4 DEF res
      <3>5. CASE ~method_conf.proxy /\ r.attrs # "all"
                 /\ (Verify("mschapv2", opaque, r) \/ method_conf.send_error)
        <4>1. res = Refused
          BY <3>0, <3>5 DEF MschapResponse
        <4>2. ~Asked(m, r)
          BY <1>7, <2>2, <3>5 DEF Asked
        <4> QED
          BY <1>0, <4>1, <4>2, RefusedReturns
      <3> QED
        BY <3>1, <3>2, <3>3, <3>4, <3>5
    <2>3. CASE r.op = "success" /\ opaque.state = "success"
      <3> DEFINE n == [opaque EXCEPT !.mppe_keys = FALSE]
      <3>1. /\ n \in Opaques /\ Key(n) = Key(opaque) /\ opaque.mppe_keys \in BOOLEAN
            /\ n.challenge = opaque.challenge /\ n.synced = opaque.synced /\ n.sqn = opaque.sqn
        BY <1>0 DEF Opaques, Key
      <3>2. res = [Result("success", n) EXCEPT !.keys = opaque.mppe_keys]
        BY <1>7, <2>3 DEF authenticate, mschapv2_authenticate
      <3> HIDE DEF n
      <3>3. m \in EapMethod \ {"leap"} /\ KeyOf(m, n) \in P
        BY <1>0, <1>7, <2>0, <2>3, <3>1 DEF KeyOf
      <3>4. n.challenge <= drawn + 1 /\ SyncedIsAhead(n)
        BY <1>0, <3>1 DEF SyncedIsAhead
      <3>5. \A H : Returns(m, r, [Result("success", n) EXCEPT !.keys = opaque.mppe_keys], P, H)
        BY <3>1, <3>3, <3>4, SuccessReturns
      <3> QED
        BY <3>2, <3>5
    <2>4. CASE r.op \in {"failure", "response"} /\ opaque.state = "failure"
      <3>1. res = Result("failure", opaque)
        BY <1>7, <2>4 DEF authenticate, mschapv2_authenticate
      <3>2. ~Asked(m, r)
        BY <1>7, <2>4 DEF Asked
      <3> QED
        BY <1>0, <3>1, <3>2, FailureReturns
    <2>5. CASE /\ ~(r.op = "ack" /\ opaque.state = "success")
               /\ ~(r.op = "response" /\ opaque.state = "challenge")
               /\ ~(r.op = "success" /\ opaque.state = "success")
               /\ ~(r.op \in {"failure", "response"} /\ opaque.state = "failure")
      <3>1. res = Refused
        BY <1>7, <2>5 DEF authenticate, mschapv2_authenticate
      <3>2. ~Asked(m, r)
        BY <1>7, <2>5 DEF Asked
      <3> QED
        BY <1>0, <3>1, <3>2, RefusedReturns
    <2> QED
      BY <2>1, <2>2, <2>3, <2>4, <2>5
  <1> QED
    BY <1>0, <1>2, <1>3, <1>4, <1>5, <1>6, <1>7 DEF EapMethod

----------------------------------------------------------------------------
\* What eap_authenticate() does with a sound result is sound, when the proofs and
\* the honesty of the peer are those of the result.
LEMMA ConcludeInv ==
    ASSUME MethodInv, NEW m \in EapMethod, NEW r, NEW res, Conclude(m, r, res),
           Returns(m, r, res, proven', honest'), proven \subseteq proven',
           honest' \in BOOLEAN, drawn < MaxChallenges \/ res.opaque.challenge <= drawn,
           conv.responses <= MaxResponses, res.held => conv.responses < MaxResponses
    PROVE  MethodInv'
  <1> DEFINE where == CASE res.rcode = 1 /\ res.held -> "held"
                        [] res.rcode = 1 /\ ~res.held /\ IsListed(m, r, res) -> "listed"
                        [] OTHER -> "freed"
  <1>0. /\ drawn \in 0..MaxChallenges /\ method_conf \in MethodConf /\ MaxResponses \in Nat
        /\ MaxChallenges \in Nat /\ conv.responses \in Nat
        /\ conv \in [where : {"none", "listed", "held", "freed", "lost"},
                     type : EapMethod \cup {"none"}, responses : 0..(MaxResponses + 2)]
    BY MethodAssumption DEF MethodInv, MethodsAreSound, MethodTypeOK
  <1>1. /\ conv' = [conv EXCEPT !.type = m, !.responses = @ + 1, !.where = where]
        /\ opaque' = res.opaque /\ method_conf' = method_conf
        /\ drawn' = IF res.opaque.challenge > drawn THEN drawn + 1 ELSE drawn
        /\ answer' = IF res.held THEN Silent
                     ELSE [code |-> eap_compose(res), keys |-> res.keys, key |-> KeyOf(m, res.opaque)]
    BY DEF Conclude
  <1>2. /\ conv'.type = m /\ conv'.responses = conv.responses + 1 /\ conv'.where = where
        /\ conv' \in [where : {"none", "listed", "held", "freed", "lost"},
                      type : EapMethod \cup {"none"}, responses : 0..(MaxResponses + 2)]
    <2>1. where \in {"none", "listed", "held", "freed", "lost"}
      OBVIOUS
    <2> HIDE DEF where
    <2> DEFINE C == [where : {"none", "listed", "held", "freed", "lost"},
                     type : EapMethod \cup {"none"}, responses : 0..(MaxResponses + 2)]
               c == [conv EXCEPT !.type = m]
               d == [c EXCEPT !.responses = conv.responses + 1]
    <2>2. c \in C /\ c.type = m /\ c.responses = conv.responses
      BY <1>0
    <2>3. conv' = [d EXCEPT !.where = where]
      BY <1>0, <1>1
    <2> HIDE DEF c
    <2>4. d \in C /\ d.type = m /\ d.responses = conv.responses + 1
      BY <1>0, <2>2
    <2> HIDE DEF d
    <2> QED
      BY <1>0, <2>1, <2>3, <2>4
  <1>3. /\ where # "none"
        /\ where = "held" => res.rcode = 1 /\ res.held /\ m = "mschapv2"
        /\ where \in {"held", "listed"} => GoesOn(m, res.opaque, proven')
    BY DEF Returns
  <1> HIDE DEF where
  <1>4. /\ res \in Results /\ res.opaque \in Opaques /\ res.opaque.challenge \in Nat
        /\ res.opaque.challenge <= drawn + 1
    BY DEF Returns, Results, Opaques
  <1>5. drawn' \in 0..MaxChallenges /\ res.opaque.challenge <= drawn'
    BY <1>0, <1>1, <1>4
  <1>6. /\ answer.code \in {"none", "challenge", "accept", "reject"}
        /\ AcceptedIsProven /\ KeysGoWithAccept /\ HonestIsNotRejected
    BY DEF MethodInv, MethodsAreSound, MethodTypeOK
  <1>7. /\ answer'.code \in {"none", "challenge", "accept", "reject"}
        /\ AcceptedIsProven' /\ KeysGoWithAccept' /\ HonestIsNotRejected'
    <2>1. CASE res.held
      <3>1. answer' = Silent
        BY <1>1, <2>1
      <3> QED
        BY <3>1 DEF Silent, AcceptedIsProven, KeysGoWithAccept, HonestIsNotRejected
    <2>2. CASE ~res.held
      <3>1. answer'.code = eap_compose(res) /\ answer'.keys = res.keys /\ answer'.key = KeyOf(m, res.opaque)
        BY <1>1, <2>2
      <3>2. eap_compose(res) \in {"none", "challenge", "accept", "reject"}
        BY <1>4 DEF eap_compose, Results
      <3> QED
        BY <2>2, <3>1, <3>2 DEF Returns, AcceptedIsProven, KeysGoWithAccept, HonestIsNotRejected
    <2> QED
      BY <2>1, <2>2
  <1>8. GoesOn(m, res.opaque, proven') => GoesOn(m, opaque, proven)'
    BY <1>1 DEF GoesOn, Key
  <1>9. OpaqueIsOfType' /\ SyncIsOnce'
    <2>1. OpaqueIsOfType'
      <3>1. GoesOn(m, res.opaque, proven') => res.opaque.kind = (IF m = "gtc" THEN "none" ELSE m)
        BY DEF GoesOn, KindOf
      <3> QED
        BY <1>1, <1>2, <1>3, <3>1 DEF OpaqueIsOfType
    <2>2. SyncIsOnce'
      BY <1>1 DEF SyncIsOnce, Returns, SyncedIsAhead
    <2> QED
      BY <2>1, <2>2
  <1>10. MethodsAreSound'
    BY <1>0, <1>1, <1>2, <1>5, <1>7, <1>9 DEF MethodsAreSound, MethodTypeOK
  <1>11. /\ conv'.where \in {"listed", "held"} => conv'.type \in EapMethod /\ GoesOn(conv.type, opaque, proven)'
         /\ conv'.where = "held" => conv'.type = "mschapv2" /\ conv'.responses <= MaxResponses
         /\ conv'.where # "none" /\ conv'.responses <= MaxResponses + 1
    <2>1. conv'.where \in {"listed", "held"} => conv'.type \in EapMethod /\ GoesOn(conv.type, opaque, proven)'
      BY <1>2, <1>3, <1>8 DEF GoesOn, Key
    <2> QED
      BY <1>0, <1>2, <1>3, <2>1
  <1> QED
    BY <1>1, <1>4, <1>5, <1>10, <1>11 DEF MethodInv

\* What a response can hold.
LEMMA ResponseType ==
    ASSUME NEW m, NEW r \in Responses(m)
    PROVE  r.nonce \in Nat /\ r.ident \in {"outer", "inner"}
  BY DEF Responses

\* Starting a method that is not configured is a failure; else initiate() decides.
LEMMA InitiateInv ==
    ASSUME MethodInv, NEW m \in EapMethod, NEW attrs, Initiate(m, attrs), UNCHANGED proven,
           honest' \in BOOLEAN, honest' => Provided(m, attrs),
           drawn < MaxChallenges, conv.responses <= MaxResponses
    PROVE  MethodInv'
  <1>0. drawn \in Nat /\ MaxChallenges \in Nat
    BY MethodAssumption DEF MethodInv, MethodsAreSound, MethodTypeOK
  <1> DEFINE r == [op |-> "initiate"]
  <1>1. CASE m \in method_conf.types
    <2> DEFINE res == initiate(m, attrs)
    <2>1. Conclude(m, r, res)
      BY <1>1 DEF Initiate
    <2>2. Returns(m, r, res, proven', honest')
      BY InitiateReturns
    <2>3. ~res.held
      BY <2>2 DEF Returns
    <2> HIDE DEF r, res
    <2> QED
      BY <2>1, <2>2, <2>3, ConcludeInv
  <1>2. CASE m \notin method_conf.types
    <2>1. Conclude(m, r, Refused)
      BY <1>2 DEF Initiate
    <2>2. ~honest'
      BY <1>2 DEF Provided
    <2>3. Returns(m, r, Refused, proven', honest')
      BY <1>0, <2>2, RefusedReturns
    <2>4. ~Refused.held
      BY RefusedFields
    <2> HIDE DEF r
    <2> QED
      BY <2>1, <2>3, <2>4, ConcludeInv
  <1> QED
    BY <1>1, <1>2

\* Every step keeps the invariant.
LEMMA MethodStep == MethodInv /\ [MethodNext]_methodVars => MethodInv'
  <1> SUFFICES ASSUME MethodInv, [MethodNext]_methodVars PROVE MethodInv'
    OBVIOUS
  <1>0. /\ drawn \in 0..MaxChallenges /\ MaxChallenges \in Nat \ {0} /\ MaxResponses \in Nat
        /\ method_conf \in MethodConf /\ honest \in BOOLEAN /\ conv.responses \in Nat
        /\ method_conf.types \subseteq EapMethod /\ method_conf.default \in EapMethod
        /\ method_conf.only \in EapMethod \cup {"any"}
        /\ conv \in [where : {"none", "listed", "held", "freed", "lost"},
                     type : EapMethod \cup {"none"}, responses : 0..(MaxResponses + 2)]
    <2>1. /\ drawn \in 0..MaxChallenges /\ MaxChallenges \in Nat \ {0} /\ MaxResponses \in Nat
          /\ method_conf \in MethodConf /\ honest \in BOOLEAN
          /\ conv \in [where : {"none", "listed", "held", "freed", "lost"},
                       type : EapMethod \cup {"none"}, responses : 0..(MaxResponses + 2)]
      BY MethodAssumption DEF MethodInv, MethodsAreSound, MethodTypeOK
    <2> QED
      BY <2>1 DEF MethodConf
  <1>1. ASSUME NEW a \in {"all", "no_key"}, EapIdentity(a) PROVE MethodInv'
    <2> DEFINE m == IF method_conf.only = "any" THEN method_conf.default ELSE method_conf.only
    <2>1. m \in EapMethod
      BY <1>0
    <2>2. Initiate(m, a) /\ honest' = Provided(m, a) /\ UNCHANGED proven /\ conv.where = "none"
      BY <1>1 DEF EapIdentity
    <2> HIDE DEF m
    <2>3. drawn < MaxChallenges /\ conv.responses <= MaxResponses
      BY <1>0, <2>2 DEF MethodInv
    <2>4. Provided(m, a) \in BOOLEAN
      BY DEF Provided
    <2> QED
      BY <2>1, <2>2, <2>3, <2>4, InitiateInv
  <1>2. ASSUME NEW m \in method_conf.types, OtherType(m) PROVE MethodInv'
    <2>1. /\ conv' = [conv EXCEPT !.where = "lost"] /\ answer' = [Silent EXCEPT !.code = "reject"]
          /\ honest' = FALSE /\ UNCHANGED <<method_conf, opaque, drawn, shown, proven>>
      BY <1>2 DEF OtherType
    <2>2. /\ conv'.where = "lost" /\ conv'.responses = conv.responses
          /\ conv' \in [where : {"none", "listed", "held", "freed", "lost"},
                        type : EapMethod \cup {"none"}, responses : 0..(MaxResponses + 2)]
      BY <1>0, <2>1
    <2>3. answer'.code = "reject" /\ ~answer'.keys
      BY <2>1 DEF Silent
    <2>4. MethodsAreSound'
      BY <1>0, <2>1, <2>2, <2>3 DEF MethodInv, MethodsAreSound, MethodTypeOK, AcceptedIsProven,
         KeysGoWithAccept, OpaqueIsOfType, HonestIsNotRejected, SyncIsOnce
    <2> QED
      BY <1>0, <2>1, <2>2, <2>4 DEF MethodInv
  <1>3. ASSUME NEW m \in method_conf.types, NEW r \in Responses(m), Authenticate(m, r) PROVE MethodInv'
    <2> DEFINE res == authenticate(m, r)
    <2>1. /\ conv.where = "listed" /\ conv.responses < MaxResponses /\ drawn < MaxChallenges
          /\ m = conv.type /\ Conclude(m, r, res)
          /\ proven' = (IF r.by = "user" THEN proven \cup {r.of} ELSE proven)
          /\ honest' = (honest /\ Asked(m, r))
      BY <1>3 DEF Authenticate, IsOfType
    <2>2. proven \subseteq proven' /\ (r.by = "user" => r.of \in proven') /\ (honest' => Asked(m, r))
      BY <2>1
    <2>3. honest' \in BOOLEAN
      BY <1>0, <2>1 DEF Asked
    <2>4. /\ Returns(m, r, res, proven', FALSE)
          /\ Asked(m, r) => Returns(m, r, res, proven', TRUE)
      BY <2>1, <2>2, ResponseType, AuthenticateReturns
    <2> HIDE DEF res
    <2>5. Returns(m, r, res, proven', honest')
      BY <2>2, <2>3, <2>4
    <2>6. m \in EapMethod /\ conv.responses <= MaxResponses
      BY <1>0, <2>1
    <2> QED
      BY <2>1, <2>2, <2>3, <2>5, <2>6, ConcludeInv
  <1>4. ASSUME NEW t \in method_conf.types \cup {"bad", "unknown"},
               NEW u \in method_conf.types \cup {"bad", "unknown"},
               NEW a \in {"all", "no_key"}, EapNak(<<t, u>>, a)
        PROVE  MethodInv'
    <2> DEFINE types == <<t, u>>
               picked == {i \in DOMAIN types : IsPicked(types[i])}
               first == CHOOSE i \in picked : \A j \in picked : i <= j
    <2>1. /\ conv.where = "listed" /\ conv.responses < MaxResponses /\ drawn < MaxChallenges
          /\ proven' = proven
          /\ \/ Conclude(conv.type, [op |-> "nak"], Refused) /\ honest' = FALSE
             \/ /\ picked # {} /\ Initiate(types[first], a)
                /\ honest' = (honest /\ Provided(types[first], a))
      BY <1>4 DEF EapNak
    <2>2. CASE Conclude(conv.type, [op |-> "nak"], Refused) /\ honest' = FALSE
      <3>1. conv.type \in EapMethod
        BY <2>1 DEF MethodInv
      <3> DEFINE r == [op |-> "nak"]
                 m == conv.type
      <3>2. Returns(m, r, Refused, proven', honest')
        BY <1>0, <2>2, <3>1, RefusedReturns
      <3>3. ~Refused.held
        BY RefusedFields
      <3>4. Conclude(m, r, Refused)
        BY <2>2
      <3>5. m \in EapMethod /\ conv.responses <= MaxResponses /\ honest' \in BOOLEAN /\ proven \subseteq proven'
        <4>1. conv.responses < MaxResponses /\ proven' = proven
          BY <2>1
        <4>2. honest' \in BOOLEAN
          BY <2>2
        <4>3. conv.responses <= MaxResponses
          BY <1>0, <4>1
        <4> QED
          BY <3>1, <4>1, <4>2, <4>3
      <3> HIDE DEF r, m
      <3> QED
        BY <2>1, <3>2, <3>3, <3>4, <3>5, ConcludeInv
    <2>3. CASE /\ picked # {} /\ Initiate(types[first], a)
               /\ honest' = (honest /\ Provided(types[first], a))
      <3> DEFINE m == types[first]
      <3>1. first \in picked
        <4>1. picked \subseteq {1, 2} /\ picked # {}
          BY <2>3
        <4> HIDE DEF picked
        <4>2. \E i \in picked : \A j \in picked : i <= j
          <5>1. CASE 1 \in picked
            <6>1. \A j \in picked : 1 <= j
              BY <4>1
            <6> QED
              BY <5>1, <6>1
          <5>2. CASE 1 \notin picked
            <6>1. picked = {2}
              BY <4>1, <5>2
            <6> QED
              BY <6>1
          <5> QED
            BY <5>1, <5>2
        <4> QED
          BY <4>2
      <3>2. m \in EapMethod
        BY <1>0, <3>1 DEF IsPicked
      <3> HIDE DEF m
      <3>3. Initiate(m, a) /\ honest' = (honest /\ Provided(m, a))
        BY <2>3 DEF m
      <3>4. honest' \in BOOLEAN /\ (honest' => Provided(m, a))
        BY <1>0, <3>3 DEF Provided
      <3> QED
        BY <1>0, <2>1, <3>2, <3>3, <3>4, InitiateInv
    <2> QED
      BY <2>1, <2>2, <2>3
  <1>5. ASSUME NEW s \in BOOLEAN, EapPostProxy(s) PROVE MethodInv'
    <2> DEFINE r == [op |-> "home"]
               res == mschap_postproxy(s)
    <2>1. /\ conv.where = "held" /\ Key(opaque) \in proven /\ UNCHANGED proven
          /\ honest' = (honest /\ s) /\ Conclude("mschapv2", r, res)
      BY <1>5 DEF EapPostProxy
    <2>2. /\ opaque.kind = "mschapv2" /\ opaque \in Opaques /\ opaque.challenge <= drawn + 1
          /\ opaque.challenge <= drawn /\ SyncedIsAhead(opaque) /\ conv.responses <= MaxResponses
      <3>1. opaque \in Opaques /\ opaque.challenge <= drawn /\ conv.responses <= MaxResponses
        BY <2>1 DEF MethodInv
      <3>2. opaque.kind = "mschapv2"
        BY <2>1 DEF MethodInv, GoesOn, KindOf
      <3>3. SyncedIsAhead(opaque)
        BY DEF MethodInv, MethodsAreSound, SyncIsOnce, SyncedIsAhead
      <3> QED
        BY <1>0, <3>1, <3>2, <3>3 DEF Opaques
    <2>3. /\ Returns("mschapv2", r, res, proven', honest')
          /\ ~res.held /\ res.opaque.challenge <= drawn
      BY <1>0, <2>1, <2>2, PostProxyReturns
    <2>4. honest' \in BOOLEAN /\ "mschapv2" \in EapMethod
      BY <1>0, <2>1 DEF EapMethod
    <2> HIDE DEF res, r
    <2> QED
      BY <2>1, <2>2, <2>3, <2>4, ConcludeInv
  <1>6. CASE EapHomeRejects
    <2> DEFINE r == [op |-> "home"]
    <2>1. conv.where = "held" /\ UNCHANGED proven /\ honest' = FALSE /\ Conclude("mschapv2", r, Refused)
      BY <1>6 DEF EapHomeRejects
    <2> HIDE DEF r
    <2>2. "mschapv2" \in EapMethod
      BY DEF EapMethod
    <2>3. Returns("mschapv2", r, Refused, proven', honest')
      BY <1>0, <2>1, <2>2, RefusedReturns
    <2>4. ~Refused.held /\ Refused.opaque.challenge <= drawn /\ conv.responses <= MaxResponses
      BY <1>0, <2>1, RefusedFields, NoOpaqueType DEF MethodInv
    <2> QED
      BY <2>1, <2>2, <2>3, <2>4, ConcludeInv
  <1>7. CASE UNCHANGED methodVars
    BY <1>7 DEF methodVars, MethodInv, MethodsAreSound, MethodTypeOK, AcceptedIsProven, KeysGoWithAccept,
       OpaqueIsOfType, HonestIsNotRejected, SyncIsOnce, GoesOn, Key
  <1> QED
    BY <1>1, <1>2, <1>3, <1>4, <1>5, <1>6, <1>7 DEF MethodNext

\* Whatever the peer sends, in whatever order, of whatever method: an Access-Accept
\* follows the user's proof of the last challenge of this conversation, keys go out
\* with it only, a method finds its own data behind handler->opaque, and a peer that
\* does what it is asked for is not rejected.
THEOREM MethodsTheorem == MethodSpec => []MethodsAreSound
  <1>1. MethodInit => MethodInv
    <2> SUFFICES ASSUME MethodInit PROVE MethodInv
      OBVIOUS
    <2>1. NoOpaque \in Opaques /\ ~NoOpaque.synced /\ NoOpaque.challenge = 0
      BY NoOpaqueType
    <2>2. MethodTypeOK
      BY MethodAssumption DEF MethodInit, MethodTypeOK, Silent
    <2> QED
      BY MethodAssumption, <2>1, <2>2 DEF MethodInit, MethodInv, MethodsAreSound, AcceptedIsProven,
         KeysGoWithAccept, OpaqueIsOfType, HonestIsNotRejected, SyncIsOnce, Silent
  <1>2. MethodInv => MethodsAreSound
    BY DEF MethodInv
  <1> QED
    BY <1>1, <1>2, MethodStep, PTL DEF MethodSpec

----------------------------------------------------------------------------
(* EAP sessions.                                                            *)

(***************************************************************************)
(* The list l for the handlers h, while the handlers off are in the hands  *)
(* of a request: no session twice, and the oldest in front unless a        *)
(* handler came back from a proxied request.                               *)
(***************************************************************************)
Distinct(l) == \A i, j \in DOMAIN l : i < j => l[i] # l[j]
OldFirst(h, l) == \A i, j \in DOMAIN l : i < j => h[l[i]].age >= h[l[j]].age
Listed(h, l, off, sorted) ==
    /\ l \in Seq(Sessions) /\ Len(l) <= MaxSessions /\ Distinct(l)
    /\ Members(l) = {s \in Sessions : h[s].where = "listed"} \ off
    /\ sorted => OldFirst(h, l)

\* A State that was accepted is behind the trips of its session, or the session
\* is over: this is why it never matches again.
Behind(h, A) ==
    \A c \in A : h[c.session].where \in {"freed", "lost"} \/ c.trips < h[c.session].trips

EapInv ==
    /\ EapTypeOK /\ ~twice
    /\ Listed(handler, session_list, {}, ~proxied)
    /\ Behind(handler, accepted)
    /\ ~proxied => \A s \in Sessions : handler[s].where # "held"
    /\ late => proxied

----------------------------------------------------------------------------
(* Lists.                                                                   *)

\* A bounded set of numbers has a largest one.
LEMMA LargestExists ==
    ASSUME NEW N \in Nat, NEW S, S \subseteq 0..N, S # {}
    PROVE  \E k \in S : \A j \in S : j <= k
  <1> DEFINE T == {i \in Nat : N - i \in S}
  <1>1. T \subseteq Nat /\ T # {}
    <2>1. PICK k \in S : TRUE
      OBVIOUS
    <2>2. N - k \in Nat /\ N - (N - k) = k
      BY <2>1
    <2> QED
      BY <2>1, <2>2
  <1>2. PICK x \in T : \A y \in T : ~(<<y, x>> \in OpToRel(<, Nat))
    BY <1>1, NatLessThanWellFounded, WFMin
  <1>3. \A y \in T : ~(y < x)
    BY <1>1, <1>2 DEF OpToRel
  <1>4. ASSUME NEW j \in S PROVE j <= N - x
    <2>1. N - j \in Nat /\ N - (N - j) = j
      BY <1>4
    <2>2. N - j \in T
      BY <1>4, <2>1
    <2>3. ~(N - j < x)
      BY <1>3, <2>2
    <2> QED
      BY <1>1, <2>1, <2>3
  <1> QED
    BY <1>2, <1>4

\* A list with no session twice has as many members as entries.
LEMMA DistinctCardinality ==
    ASSUME NEW l \in Seq(Sessions), Distinct(l)
    PROVE  Cardinality(Members(l)) = Len(l)
  <1> DEFINE n == Len(l)
             M == Members(l)
  <1>1. n \in Nat /\ DOMAIN l = 1..n /\ l \in [1..n -> Sessions]
    BY LenProperties
  <1>2. M = {l[i] : i \in 1..n}
    BY <1>1 DEF Members
  <1>3. \A i, j \in 1..n : l[i] = l[j] => i = j
    BY <1>1 DEF Distinct
  <1> HIDE DEF n, M
  <1>4. l \in [1..n -> M] /\ (\A t \in M : \E i \in 1..n : l[i] = t)
    BY <1>1, <1>2
  <1>5. l \in Bijection(1..n, M)
    BY <1>3, <1>4 DEF Bijection, Injection, IsInjective, Surjection
  <1>6. IsFiniteSet(1..n) /\ Cardinality(1..n) = (IF 1 > n THEN 0 ELSE n - 1 + 1)
    BY <1>1, FS_Interval
  <1>7. ExistsBijection(1..n, M)
    BY <1>5 DEF ExistsBijection
  <1>8. Cardinality(M) = Cardinality(1..n)
    BY <1>6, <1>7, FS_Bijection
  <1> QED
    BY <1>1, <1>6, <1>8 DEF n, M

\* A list made of some entries of another, in the same order, is as distinct and
\* as sorted.
LEMMA SublistKeeps ==
    ASSUME NEW h, NEW l \in Seq(Sessions), NEW k \in Seq(Sessions),
           NEW p \in [1..Len(k) -> 1..Len(l)],
           \A i \in 1..Len(k) : k[i] = l[p[i]],
           \A i, j \in 1..Len(k) : i < j => p[i] < p[j]
    PROVE  /\ Distinct(l) => Distinct(k)
           /\ OldFirst(h, l) => OldFirst(h, k)
           /\ Members(k) \subseteq Members(l)
  <1>1. DOMAIN l = 1..Len(l) /\ DOMAIN k = 1..Len(k)
    BY LenProperties
  <1>2. Distinct(l) => Distinct(k)
    BY <1>1 DEF Distinct
  <1>3. OldFirst(h, l) => OldFirst(h, k)
    BY <1>1 DEF OldFirst
  <1>4. Members(k) \subseteq Members(l)
    BY <1>1 DEF Members
  <1> QED
    BY <1>2, <1>3, <1>4

\* eaplist_expire() takes entries off the front as long as they are too old, and
\* no more than ExpireCount of them.
LEMMA ExpiredFields ==
    ASSUME NEW h, NEW l \in Seq(Sessions), NEW a
    PROVE  LET e == Expired(h, l, a)
           IN  /\ e \in 0..Len(l)
               /\ e < Len(l) /\ e < ExpireCount => ~TooOld(h, l[e + 1], a)
  <1> DEFINE n == {k \in 0..Len(l) : k <= ExpireCount /\ \A i \in 1..k : TooOld(h, l[i], a)}
             e == Expired(h, l, a)
  <1>0. Len(l) \in Nat /\ ExpireCount \in Nat
    BY LenProperties, EapAssumption
  <1>1. n \subseteq 0..Len(l) /\ 0 \in n
    BY <1>0
  <1>2. e = CHOOSE k \in n : \A j \in n : j <= k
    BY DEF Expired
  <1> HIDE DEF e
  <1>3. e \in n /\ \A j \in n : j <= e
    <2> HIDE DEF n
    <2>1. \E k \in n : \A j \in n : j <= k
      BY <1>0, <1>1, LargestExists
    <2> QED
      BY <1>2, <2>1
  <1>4. ASSUME e < Len(l), e < ExpireCount, TooOld(h, l[e + 1], a) PROVE FALSE
    <2>1. e + 1 \in 0..Len(l) /\ e + 1 <= ExpireCount
      BY <1>0, <1>3, <1>4
    <2>2. \A i \in 1..(e + 1) : i \in 1..e \/ i = e + 1
      BY <1>0, <1>3
    <2>3. \A i \in 1..(e + 1) : TooOld(h, l[i], a)
      BY <1>3, <1>4, <2>2
    <2>4. e + 1 \in n
      BY <2>1, <2>3
    <2> QED
      BY <1>0, <1>3, <2>4
  <1> QED
    BY <1>1, <1>3, <1>4 DEF e

LEMMA ExpireFields ==
    ASSUME NEW h, NEW l \in Seq(Sessions), NEW a
    PROVE  LET kept == eaplist_expire(h, l, a)
               e == Expired(h, l, a)
           IN  /\ kept \in Seq(Sessions) /\ Len(kept) = Len(l) - e /\ e \in 0..Len(l)
               /\ \A i \in 1..Len(kept) : e + i \in 1..Len(l) /\ kept[i] = l[e + i]
               /\ e < Len(l) /\ e < ExpireCount => ~TooOld(h, l[e + 1], a)
  <1> DEFINE kept == eaplist_expire(h, l, a)
             e == Expired(h, l, a)
  <1>1. e \in 0..Len(l) /\ (e < Len(l) /\ e < ExpireCount => ~TooOld(h, l[e + 1], a))
    BY ExpiredFields
  <1>2. Len(l) \in Nat /\ \A i \in 1..Len(l) : l[i] \in Sessions
    BY LenProperties, ElementOfSeq
  <1>3. kept = SubSeq(l, e + 1, Len(l))
    BY DEF eaplist_expire
  <1> HIDE DEF e, kept
  <1>4. \A i \in (e + 1)..Len(l) : l[i] \in Sessions
    BY <1>1, <1>2
  <1>5. /\ kept \in Seq(Sessions)
        /\ Len(kept) = (IF e + 1 <= Len(l) THEN Len(l) - (e + 1) + 1 ELSE 0)
        /\ \A i \in 1..(Len(l) - (e + 1) + 1) : kept[i] = l[(e + 1) + i - 1]
    BY <1>1, <1>2, <1>3, <1>4, SubSeqProperties
  <1>6. Len(kept) = Len(l) - e
    BY <1>1, <1>2, <1>5
  <1>7. ASSUME NEW i \in 1..Len(kept) PROVE e + i \in 1..Len(l) /\ kept[i] = l[e + i]
    <2>1. i \in 1..(Len(l) - (e + 1) + 1) /\ (e + 1) + i - 1 = e + i /\ e + i \in 1..Len(l)
      BY <1>1, <1>2, <1>6, <1>7
    <2> QED
      BY <1>5, <2>1
  <1> QED
    BY <1>1, <1>5, <1>6, <1>7 DEF e, kept

\* eaplist_delete() takes one entry out.
LEMMA DeleteFields ==
    ASSUME NEW l \in Seq(Sessions), NEW s, s \in Members(l)
    PROVE  \E d \in 1..Len(l) :
             LET k == eaplist_delete(l, s)
             IN  /\ l[d] = s /\ k \in Seq(Sessions) /\ Len(k) = Len(l) - 1
                 /\ \A i \in 1..Len(k) : k[i] = l[IF i < d THEN i ELSE i + 1]
  <1> DEFINE d == CHOOSE i \in DOMAIN l : l[i] = s
             a == SubSeq(l, 1, d - 1)
             b == SubSeq(l, d + 1, Len(l))
             k == eaplist_delete(l, s)
  <1>1. Len(l) \in Nat /\ DOMAIN l = 1..Len(l) /\ \A i \in 1..Len(l) : l[i] \in Sessions
    BY LenProperties, ElementOfSeq
  <1>2. d \in 1..Len(l) /\ l[d] = s
    <2>1. \E i \in DOMAIN l : l[i] = s
      BY DEF Members
    <2> QED
      BY <1>1, <2>1
  <1>3. k = a \o b
    BY DEF eaplist_delete
  <1> HIDE DEF d, k
  <1>4. a \in Seq(Sessions) /\ Len(a) = d - 1 /\ \A i \in 1..(d - 1) : a[i] = l[i]
    <2>1. \A i \in 1..(d - 1) : l[i] \in Sessions
      BY <1>1, <1>2
    <2>2. /\ a \in Seq(Sessions) /\ Len(a) = (IF 1 <= d - 1 THEN (d - 1) - 1 + 1 ELSE 0)
          /\ \A i \in 1..((d - 1) - 1 + 1) : a[i] = l[1 + i - 1]
      BY <1>1, <1>2, <2>1, SubSeqProperties
    <2> HIDE DEF a
    <2>3. Len(a) = d - 1 /\ (d - 1) - 1 + 1 = d - 1 /\ \A i \in 1..(d - 1) : 1 + i - 1 = i
      BY <1>1, <1>2, <2>2
    <2> QED
      BY <2>2, <2>3
  <1>5. b \in Seq(Sessions) /\ Len(b) = Len(l) - d /\ \A i \in 1..(Len(l) - d) : b[i] = l[d + i]
    <2>1. \A i \in (d + 1)..Len(l) : l[i] \in Sessions
      BY <1>1, <1>2
    <2>2. /\ b \in Seq(Sessions) /\ Len(b) = (IF d + 1 <= Len(l) THEN Len(l) - (d + 1) + 1 ELSE 0)
          /\ \A i \in 1..(Len(l) - (d + 1) + 1) : b[i] = l[(d + 1) + i - 1]
      <3>1. d + 1 \in Int /\ Len(l) \in Int
        BY <1>1, <1>2
      <3> QED
        BY <2>1, <3>1, SubSeqProperties
    <2> HIDE DEF b
    <2>3. Len(l) - (d + 1) + 1 = Len(l) - d /\ \A i \in 1..(Len(l) - d) : (d + 1) + i - 1 = d + i
      BY <1>1, <1>2
    <2>4. Len(b) = Len(l) - d
      <3>1. CASE d + 1 <= Len(l)
        BY <2>2, <2>3, <3>1
      <3>2. CASE ~(d + 1 <= Len(l))
        <4>0. d \in Int /\ Len(l) \in Int /\ d <= Len(l)
          BY <1>1, <1>2
        <4>1. Len(l) - d = 0
          BY <3>2, <4>0
        <4> QED
          BY <2>2, <3>2, <4>1
      <3> QED
        BY <3>1, <3>2
    <2> QED
      BY <2>2, <2>3, <2>4
  <1> HIDE DEF a, b
  <1>6. /\ k \in Seq(Sessions) /\ Len(k) = Len(a) + Len(b)
        /\ \A i \in 1..(Len(a) + Len(b)) : k[i] = (IF i <= Len(a) THEN a[i] ELSE b[i - Len(a)])
    BY <1>3, <1>4, <1>5, ConcatProperties
  <1>7. Len(k) = Len(l) - 1
    BY <1>1, <1>2, <1>4, <1>5, <1>6
  <1>8. ASSUME NEW i \in 1..Len(k) PROVE k[i] = l[IF i < d THEN i ELSE i + 1]
    <2>1. k[i] = (IF i <= Len(a) THEN a[i] ELSE b[i - Len(a)])
      BY <1>6, <1>8
    <2>2. CASE i < d
      <3>1. i <= Len(a) /\ i \in 1..(d - 1)
        BY <1>1, <1>2, <1>4, <1>7, <1>8, <2>2
      <3> QED
        BY <1>4, <2>1, <2>2, <3>1
    <2>3. CASE ~(i < d)
      <3>1. ~(i <= Len(a)) /\ i - Len(a) \in 1..(Len(l) - d) /\ d + (i - Len(a)) = i + 1
        BY <1>1, <1>2, <1>4, <1>7, <1>8, <2>3
      <3> QED
        BY <1>5, <2>1, <2>3, <3>1
    <2> QED
      BY <2>2, <2>3
  <1> QED
    BY <1>2, <1>6, <1>7, <1>8 DEF k

----------------------------------------------------------------------------
(* The list, through the calls that change it.                              *)
Handlers == [Sessions -> HandlerRecord]

LEMMA BlankType == ASSUME NEW p \in Places PROVE Blank(p) \in HandlerRecord /\ Blank(p).where = p
  <1>1. (CHOOSE t \in Types : TRUE) \in Types
    BY EapAssumption
  <1> QED
    BY <1>1, EapAssumption DEF Blank, HandlerRecord

\* Freeing handlers.
LEMMA ToFreeFields ==
    ASSUME NEW h \in Handlers, NEW X
    PROVE  /\ ToFree(h, X) \in Handlers
           /\ \A s \in Sessions : ToFree(h, X)[s] = IF s \in X THEN Blank("freed") ELSE h[s]
           /\ \A s \in X \cap Sessions : ToFree(h, X)[s].where = "freed"
  <1>1. Blank("freed") \in HandlerRecord /\ Blank("freed").where = "freed"
    BY BlankType DEF Places
  <1> QED
    BY <1>1 DEF ToFree, Handlers

\* The handlers of a request that are off the list may be freed, or changed.
LEMMA FreeListed ==
    ASSUME NEW h \in Handlers, NEW l, NEW off, NEW sorted, Listed(h, l, off, sorted), NEW X, X \subseteq off
    PROVE  Listed(ToFree(h, X), l, off \ X, sorted)
  <1> DEFINE g == ToFree(h, X)
  <1>1. /\ \A s \in Sessions : g[s] = IF s \in X THEN Blank("freed") ELSE h[s]
        /\ \A s \in X \cap Sessions : g[s].where = "freed"
    BY ToFreeFields
  <1> HIDE DEF g
  <1>2. l \in Seq(Sessions) /\ Members(l) = {s \in Sessions : h[s].where = "listed"} \ off
    BY DEF Listed
  <1>3. Members(l) = {s \in Sessions : g[s].where = "listed"} \ (off \ X)
    BY <1>1, <1>2
  <1>4. \A i \in DOMAIN l : l[i] \in Sessions /\ g[l[i]] = h[l[i]]
    <2>1. \A i \in DOMAIN l : l[i] \in Members(l)
      BY DEF Members
    <2> QED
      BY <1>1, <1>2, <2>1
  <1>5. OldFirst(h, l) => OldFirst(g, l)
    BY <1>4 DEF OldFirst
  <1> QED
    BY <1>3, <1>5 DEF Listed, g

LEMMA ChangeListed ==
    ASSUME NEW h \in Handlers, NEW l, NEW sorted, NEW s \in Sessions, Listed(h, l, {s}, sorted),
           NEW g \in Handlers, \A t \in Sessions \ {s} : g[t] = h[t]
    PROVE  /\ Listed(g, l, {s}, sorted)
           /\ g[s].where # "listed" => Listed(g, l, {}, sorted)
  <1>2. l \in Seq(Sessions) /\ Members(l) = {t \in Sessions : h[t].where = "listed"} \ {s}
    BY DEF Listed
  <1>3. /\ Members(l) = {t \in Sessions : g[t].where = "listed"} \ {s}
        /\ g[s].where # "listed" => Members(l) = {t \in Sessions : g[t].where = "listed"} \ {}
    BY <1>2
  <1>4. \A i \in DOMAIN l : l[i] \in Sessions /\ g[l[i]] = h[l[i]]
    <2>1. \A i \in DOMAIN l : l[i] \in Members(l)
      BY DEF Members
    <2> QED
      BY <1>2, <2>1
  <1>5. OldFirst(h, l) => OldFirst(g, l)
    BY <1>4 DEF OldFirst
  <1> QED
    BY <1>3, <1>5 DEF Listed

\* Expiry frees what it takes off the list.
LEMMA ExpireListed ==
    ASSUME NEW h \in Handlers, NEW l, NEW off, NEW sorted, Listed(h, l, off, sorted), NEW a
    PROVE  LET kept == eaplist_expire(h, l, a)
           IN  Listed(ToFree(h, Members(l) \ Members(kept)), kept, off, sorted)
  <1> DEFINE kept == eaplist_expire(h, l, a)
             e == Expired(h, l, a)
             gone == Members(l) \ Members(kept)
             g == ToFree(h, gone)
             p == [i \in 1..Len(kept) |-> e + i]
  <1>1. l \in Seq(Sessions) /\ Len(l) \in Nat /\ Len(l) <= MaxSessions /\ Distinct(l)
    BY LenProperties DEF Listed
  <1>2. /\ kept \in Seq(Sessions) /\ Len(kept) = Len(l) - e /\ e \in 0..Len(l)
        /\ \A i \in 1..Len(kept) : e + i \in 1..Len(l) /\ kept[i] = l[e + i]
    BY <1>1, ExpireFields
  <1>3. /\ \A s \in Sessions : g[s] = IF s \in gone THEN Blank("freed") ELSE h[s]
        /\ \A s \in gone \cap Sessions : g[s].where = "freed"
    BY ToFreeFields
  <1> HIDE DEF kept, e, g
  <1>4. /\ p \in [1..Len(kept) -> 1..Len(l)] /\ \A i \in 1..Len(kept) : kept[i] = l[p[i]]
        /\ \A i, j \in 1..Len(kept) : i < j => p[i] < p[j]
    BY <1>1, <1>2
  <1> HIDE DEF p
  <1>5. /\ Distinct(kept) /\ (OldFirst(h, l) => OldFirst(h, kept))
        /\ Members(kept) \subseteq Members(l)
    BY <1>1, <1>2, <1>4, SublistKeeps
  <1>6. Members(l) = {s \in Sessions : h[s].where = "listed"} \ off
    BY DEF Listed
  <1>7. Members(kept) = {s \in Sessions : g[s].where = "listed"} \ off
    BY <1>3, <1>5, <1>6
  <1>8. \A i \in DOMAIN kept : g[kept[i]] = h[kept[i]]
    <2>1. \A i \in DOMAIN kept : kept[i] \in Members(kept)
      BY DEF Members
    <2> QED
      BY <1>3, <1>5, <1>6, <2>1
  <1>9. OldFirst(h, kept) => OldFirst(g, kept)
    BY <1>8 DEF OldFirst
  <1>10. Len(kept) <= MaxSessions
    BY <1>1, <1>2, EapAssumption
  <1> QED
    BY <1>2, <1>5, <1>7, <1>9, <1>10 DEF Listed, g, kept

\* The session that was found is off the list.
LEMMA DeleteListed ==
    ASSUME NEW h \in Handlers, NEW l, NEW sorted, Listed(h, l, {}, sorted), NEW s, s \in Members(l)
    PROVE  Listed(h, eaplist_delete(l, s), {s}, sorted)
  <1> DEFINE k == eaplist_delete(l, s)
  <1>1. l \in Seq(Sessions) /\ Len(l) \in Nat /\ Len(l) <= MaxSessions /\ Distinct(l) /\ DOMAIN l = 1..Len(l)
    BY LenProperties DEF Listed
  <1>2. PICK d \in 1..Len(l) : /\ l[d] = s /\ k \in Seq(Sessions) /\ Len(k) = Len(l) - 1
                               /\ \A i \in 1..Len(k) : k[i] = l[IF i < d THEN i ELSE i + 1]
    <2>1. l \in Seq(Sessions)
      BY <1>1
    <2> QED
      BY <2>1, DeleteFields
  <1> HIDE DEF k
  <1> DEFINE p == [i \in 1..Len(k) |-> IF i < d THEN i ELSE i + 1]
  <1>3. /\ p \in [1..Len(k) -> 1..Len(l)] /\ \A i \in 1..Len(k) : p[i] # d /\ k[i] = l[p[i]]
        /\ \A i, j \in 1..Len(k) : i < j => p[i] < p[j]
    <2>1. Len(k) \in Nat /\ d \in Nat
      BY <1>1, <1>2
    <2>2. \A i \in 1..Len(k) : p[i] \in 1..Len(l) /\ p[i] # d
      BY <1>1, <1>2, <2>1
    <2>3. \A i, j \in 1..Len(k) : i < j => p[i] < p[j]
      BY <2>1
    <2>4. \A i \in 1..Len(k) : k[i] = l[p[i]]
      BY <1>2
    <2> QED
      BY <2>2, <2>3, <2>4
  <1>4. \A j \in 1..Len(l) : j # d => \E i \in 1..Len(k) : p[i] = j
    <2> SUFFICES ASSUME NEW j \in 1..Len(l), j # d PROVE \E i \in 1..Len(k) : p[i] = j
      OBVIOUS
    <2>1. CASE j < d
      BY <1>1, <1>2, <2>1
    <2>2. CASE j > d
      <3>1. j - 1 \in 1..Len(k) /\ ~(j - 1 < d) /\ (j - 1) + 1 = j
        BY <1>1, <1>2, <2>2
      <3> QED
        BY <3>1
    <2> QED
      BY <1>1, <2>1, <2>2
  <1> HIDE DEF p
  <1>5. /\ Distinct(k) /\ (OldFirst(h, l) => OldFirst(h, k)) /\ Members(k) \subseteq Members(l)
        /\ DOMAIN k = 1..Len(k)
    BY <1>1, <1>2, <1>3, SublistKeeps, LenProperties
  <1>6. Members(k) = Members(l) \ {s}
    <2>1. \A i, j \in 1..Len(l) : l[i] = l[j] => i = j
      BY <1>1 DEF Distinct
    <2>2. \A i \in 1..Len(k) : k[i] # s
      <3> SUFFICES ASSUME NEW i \in 1..Len(k) PROVE k[i] # s
        OBVIOUS
      <3>1. p[i] \in 1..Len(l) /\ p[i] # d /\ k[i] = l[p[i]]
        BY ONLY <1>3
      <3>2. l[p[i]] # l[d]
        BY ONLY <2>1, <3>1
      <3> QED
        BY ONLY <1>2, <3>1, <3>2
    <2>3. ASSUME NEW j \in 1..Len(l), l[j] # s PROVE \E i \in 1..Len(k) : k[i] = l[j]
      <3>1. j # d
        BY ONLY <1>2, <2>3
      <3>2. PICK i \in 1..Len(k) : p[i] = j
        BY ONLY <1>4, <3>1, <2>3
      <3>3. k[i] = l[p[i]]
        BY ONLY <1>3, <3>2
      <3> QED
        BY ONLY <3>2, <3>3
    <2>4. Members(k) = {k[i] : i \in 1..Len(k)} /\ Members(l) = {l[i] : i \in 1..Len(l)}
      BY <1>1, <1>5 DEF Members
    <2>5. s \notin Members(k)
      BY <2>2, <2>4
    <2>6. \A t \in Members(l) \ {s} : t \in Members(k)
      BY <2>3, <2>4
    <2> QED
      BY <1>5, <2>5, <2>6
  <1>7. Len(k) <= MaxSessions
    BY <1>1, <1>2, EapAssumption
  <1> QED
    BY <1>2, <1>5, <1>6, <1>7 DEF Listed, k

\* A handler goes to the tail of the list.
LEMMA AppendListed ==
    ASSUME NEW h \in Handlers, NEW l, NEW sorted, NEW s \in Sessions, Listed(h, l, {s}, sorted),
           Len(l) < MaxSessions, NEW g \in Handlers, \A t \in Sessions \ {s} : g[t] = h[t],
           g[s].where = "listed", sorted => g[s].age = 0
    PROVE  Listed(g, Append(l, s), {}, sorted)
  <1> DEFINE k == Append(l, s)
             n == Len(l)
  <1>1. /\ Listed(g, l, {s}, sorted) /\ l \in Seq(Sessions) /\ n \in Nat /\ DOMAIN l = 1..n /\ Distinct(l)
        /\ Members(l) = {t \in Sessions : g[t].where = "listed"} \ {s}
    BY ChangeListed, LenProperties DEF Listed
  <1>2. /\ k \in Seq(Sessions) /\ Len(k) = n + 1 /\ DOMAIN k = 1..(n + 1)
        /\ (\A i \in 1..n : k[i] = l[i]) /\ k[n + 1] = s
    BY <1>1, AppendProperties, LenProperties
  <1> HIDE DEF k, n
  <1>3. \A i \in 1..(n + 1) : i \in 1..n \/ i = n + 1
    BY <1>1
  <1>4. Members(k) = Members(l) \cup {s}
    BY <1>1, <1>2, <1>3 DEF Members
  <1>5. \A i \in 1..n : l[i] # s /\ l[i] \in Sessions
    BY <1>1 DEF Members
  <1>6. Distinct(k)
    BY <1>1, <1>2, <1>3, <1>5 DEF Distinct
  <1>7. ASSUME sorted PROVE OldFirst(g, k)
    <2>1. OldFirst(g, l)
      BY <1>1, <1>7 DEF Listed
    <2>2. \A i \in 1..n : g[l[i]].age >= g[s].age
      <3>1. \A t \in Sessions : g[t].age \in Nat
        BY EapAssumption DEF Handlers, HandlerRecord
      <3> QED
        BY <1>5, <1>7, <3>1
    <2> QED
      BY <1>1, <1>2, <1>3, <2>1, <2>2 DEF OldFirst
  <1>8. Len(k) <= MaxSessions
    BY <1>1, <1>2, EapAssumption DEF n
  <1> QED
    BY <1>1, <1>2, <1>4, <1>6, <1>7, <1>8 DEF Listed, k

----------------------------------------------------------------------------
(* A request that has the handler s in hand, off the list: h are the        *)
(* handlers by then and A the States that were accepted, with this one.     *)
InHand(h, l, s, A) ==
    /\ h \in Handlers /\ A \subseteq StateKeys
    /\ Listed(h, l, {s}, ~proxied)
    /\ Behind(h, A) /\ h[s].where \notin {"freed", "lost"}
    /\ ~proxied => \A t \in Sessions : h[t].where # "held"

\* What is left of the step when the handlers and the list are as they should be.
Noted == /\ accepted' \subseteq StateKeys /\ ~twice' /\ twice' \in BOOLEAN
         /\ late' \in BOOLEAN /\ (late' => proxied')

\* A handler is over, or has the trips it had, and is where it was or, for the one
\* in hand, on the list.
Moved(h, g, s) ==
    \A t \in Sessions : \/ g[t].where \in {"freed", "lost"}
                        \/ g[t].trips = h[t].trips /\ (g[t].where = h[t].where \/ (t = s /\ g[t].where = "listed"))

LEMMA KeptInv ==
    ASSUME Noted, handler' \in Handlers, states' \subseteq StateKeys, proxied' \in BOOLEAN,
           Listed(handler', session_list', {}, ~proxied'), Behind(handler', accepted'),
           ~proxied' => \A t \in Sessions : handler'[t].where # "held"
    PROVE  EapInv'
  <1>1. EapTypeOK'
    BY DEF EapTypeOK, Noted, Handlers, Listed
  <1> QED
    BY <1>1 DEF EapInv, Noted, Listed, OldFirst, Distinct, Members, Behind

LEMMA MovedInv ==
    ASSUME EapInv, NEW h, NEW l, NEW s \in Sessions, InHand(h, l, s, accepted'), Noted, UNCHANGED proxied,
           handler' \in Handlers, states' \subseteq StateKeys, Moved(h, handler', s),
           Listed(handler', session_list', {}, ~proxied)
    PROVE  EapInv'
  <1>3. Behind(handler', accepted')
    <2> SUFFICES ASSUME NEW c \in accepted'
                 PROVE  handler'[c.session].where \in {"freed", "lost"} \/ c.trips < handler'[c.session].trips
      BY DEF Behind
    <2>1. c.session \in Sessions
      BY DEF Noted, StateKeys
    <2>2. h[c.session].where \in {"freed", "lost"} \/ c.trips < h[c.session].trips
      BY DEF InHand, Behind
    <2>3. h[s].where \notin {"freed", "lost"}
      BY DEF InHand
    <2> QED
      BY <2>1, <2>2, <2>3 DEF Moved
  <1>4. ~proxied' => \A t \in Sessions : handler'[t].where # "held"
    BY DEF Moved, InHand
  <1>5. proxied' \in BOOLEAN /\ Listed(handler', session_list', {}, ~proxied')
    BY DEF EapInv, EapTypeOK
  <1> QED
    BY <1>3, <1>4, <1>5, KeptInv

\* The handler in hand is freed.
LEMMA FreeInv ==
    ASSUME EapInv, NEW h, NEW l, NEW s \in Sessions, InHand(h, l, s, accepted'), Noted, UNCHANGED proxied,
           eap_handler_free(h, s, l)
    PROVE  EapInv'
  <1>1. session_list' = l /\ handler' = ToFree(h, {s}) /\ states' = states
    BY DEF eap_handler_free
  <1>2. h \in Handlers /\ Listed(h, l, {s}, ~proxied) /\ states \subseteq StateKeys
    BY DEF InHand, EapInv, EapTypeOK
  <1>3. /\ handler' \in Handlers
        /\ \A t \in Sessions : handler'[t] = IF t \in {s} THEN Blank("freed") ELSE h[t]
        /\ \A t \in {s} \cap Sessions : handler'[t].where = "freed"
    BY <1>1, <1>2, ToFreeFields
  <1>4. Listed(handler', session_list', {s} \ {s}, ~proxied)
    BY <1>1, <1>2, FreeListed
  <1>5. {s} \ {s} = {}
    OBVIOUS
  <1>6. Moved(h, handler', s)
    BY <1>3 DEF Moved
  <1>7. states' \subseteq StateKeys /\ Listed(handler', session_list', {}, ~proxied)
    BY <1>1, <1>2, <1>4, <1>5
  <1> QED
    BY <1>3, <1>6, <1>7, MovedInv

\* The handler in hand is listed under its State, or freed when the list is full.
LEMMA AddInv ==
    ASSUME EapInv, NEW h, NEW l, NEW s \in Sessions, InHand(h, l, s, accepted'), Noted, UNCHANGED proxied,
           NEW a \in 0..MaxAge, ~proxied => a = 0, eaplist_add(h, s, l, a)
    PROVE  EapInv'
  <1>0. /\ h \in Handlers /\ Listed(h, l, {s}, ~proxied) /\ states \subseteq StateKeys
        /\ Len(l) \in Nat /\ MaxSessions \in Nat
    BY EapAssumption, LenProperties DEF InHand, EapInv, EapTypeOK, Listed
  <1>1. CASE Len(l) >= MaxSessions
    <2> DEFINE kept == eaplist_expire(h, l, a)
               gone == Members(l) \ Members(kept)
               g == ToFree(h, gone)
    <2>1. session_list' = kept /\ handler' = ToFree(h, {s} \cup gone) /\ states' = states
      BY <1>1 DEF eaplist_add
    <2>2. Listed(g, kept, {s}, ~proxied)
      BY <1>0, ExpireListed
    <2>3. g \in Handlers /\ \A t \in Sessions : g[t] = IF t \in gone THEN Blank("freed") ELSE h[t]
      BY <1>0, ToFreeFields
    <2>4. /\ handler' \in Handlers
          /\ \A t \in Sessions : handler'[t] = IF t \in {s} \cup gone THEN Blank("freed") ELSE h[t]
          /\ \A t \in ({s} \cup gone) \cap Sessions : handler'[t].where = "freed"
      BY <1>0, <2>1, ToFreeFields
    <2> HIDE DEF g, gone, kept
    <2>5. Listed(handler', kept, {}, ~proxied)
      <3>1. \A t \in Sessions \ {s} : handler'[t] = g[t]
        BY <2>3, <2>4
      <3>2. handler'[s].where # "listed"
        BY <2>4
      <3> QED
        BY <2>2, <2>3, <2>4, <3>1, <3>2, ChangeListed
    <2>6. Moved(h, handler', s)
      BY <2>4 DEF Moved
    <2>7. states' \subseteq StateKeys /\ Listed(handler', session_list', {}, ~proxied)
      BY <1>0, <2>1, <2>5
    <2> QED
      BY <2>4, <2>6, <2>7, MovedInv
  <1>2. CASE ~(Len(l) >= MaxSessions)
    <2> DEFINE g == [h EXCEPT ![s].where = "listed"]
    <2>1. /\ session_list' = Append(l, s) /\ handler' = [g EXCEPT ![s].age = a]
          /\ states' = states \cup {StateKey(h, s)}
      BY <1>0, <1>2 DEF eaplist_add, Handlers
    <2>2. g \in Handlers /\ g[s].where = "listed" /\ g[s].trips = h[s].trips /\ \A t \in Sessions \ {s} : g[t] = h[t]
      BY <1>0 DEF Handlers, HandlerRecord, Places
    <2> HIDE DEF g
    <2>3. /\ handler' \in Handlers /\ handler'[s].where = "listed" /\ handler'[s].trips = h[s].trips
          /\ handler'[s].age = a /\ \A t \in Sessions \ {s} : handler'[t] = h[t]
      BY <2>1, <2>2 DEF Handlers, HandlerRecord
    <2>4. StateKey(h, s) \in StateKeys
      BY <1>0 DEF StateKey, StateKeys, Handlers, HandlerRecord
    <2>5. Len(l) < MaxSessions
      BY <1>0, <1>2
    <2>6. Listed(handler', Append(l, s), {}, ~proxied)
      BY <1>0, <2>3, <2>5, AppendListed
    <2>7. Moved(h, handler', s)
      BY <2>3 DEF Moved
    <2>8. states' \subseteq StateKeys /\ Listed(handler', session_list', {}, ~proxied)
      BY <1>0, <2>1, <2>4, <2>6
    <2> QED
      BY <2>3, <2>7, <2>8, MovedInv
  <1> QED
    BY <1>1, <1>2

----------------------------------------------------------------------------
\* A handler that is not on the list is in hand when a request gets it.
LEMMA OffListed ==
    ASSUME NEW h, NEW l, NEW sorted, Listed(h, l, {}, sorted), NEW s, h[s].where # "listed"
    PROVE  Listed(h, l, {s}, sorted)
  BY DEF Listed

LEMMA EapInvFields ==
    ASSUME EapInv
    PROVE  /\ handler \in Handlers /\ states \subseteq StateKeys /\ accepted \subseteq StateKeys
           /\ proxied \in BOOLEAN /\ ~twice /\ twice \in BOOLEAN /\ late \in BOOLEAN
           /\ (late => proxied) /\ (~proxied => \A s \in Sessions : handler[s].where # "held")
           /\ Listed(handler, session_list, {}, ~proxied) /\ Behind(handler, accepted)
           /\ session_list \in Seq(Sessions) /\ 0 \in 0..MaxAge
  BY EapAssumption DEF EapInv, EapTypeOK, Handlers

LEMMA IdentityInv ==
    ASSUME EapInv, NEW s \in Sessions, NEW t \in Types, Identity(s, t)
    PROVE  EapInv'
  <1> DEFINE h == [handler EXCEPT ![s].type = t]
  <1>1. /\ handler[s].where = "unused"
        /\ eaplist_add(h, s, session_list, 0) \/ eap_handler_free(h, s, session_list)
        /\ UNCHANGED <<accepted, twice, proxied, late>>
    BY DEF Identity
  <1>2. /\ h \in Handlers /\ h[s].where = "unused" /\ h[s].trips = handler[s].trips
        /\ \A u \in Sessions \ {s} : h[u] = handler[u]
    BY <1>1, EapInvFields DEF Handlers, HandlerRecord
  <1> HIDE DEF h
  <1>3. Listed(h, session_list, {s}, ~proxied)
    <2>1. Listed(handler, session_list, {s}, ~proxied)
      BY <1>1, EapInvFields, OffListed
    <2> QED
      BY <1>2, <2>1, EapInvFields, ChangeListed
  <1>4. Behind(h, accepted)
    <2>1. \A c \in accepted : c.session \in Sessions
      BY EapInvFields DEF StateKeys
    <2> QED
      BY <1>1, <1>2, <2>1, EapInvFields DEF Behind
  <1>5. ~proxied => \A u \in Sessions : h[u].where # "held"
    BY <1>2, EapInvFields
  <1>6. InHand(h, session_list, s, accepted') /\ Noted /\ UNCHANGED proxied
    BY <1>1, <1>2, <1>3, <1>4, <1>5, EapInvFields DEF InHand, Noted
  <1>7. CASE eaplist_add(h, s, session_list, 0)
    BY <1>6, <1>7, EapInvFields, AddInv
  <1>8. CASE eap_handler_free(h, s, session_list)
    BY <1>6, <1>8, FreeInv
  <1> QED
    BY <1>1, <1>7, <1>8

\* eap_post_proxy() and the freeing of the request's data have the handler that was
\* held in hand.
LEMMA HeldInv ==
    ASSUME EapInv, NEW s \in Sessions, eap_post_proxy(s) \/ eap_opaque_free(s)
    PROVE  EapInv'
  <1>1. /\ handler[s].where = "held" /\ UNCHANGED <<accepted, twice, proxied, late>>
        /\ \/ eaplist_add(handler, s, session_list, handler[s].age)
           \/ eap_handler_free(handler, s, session_list)
    BY DEF eap_post_proxy, eap_opaque_free
  <1>2. Listed(handler, session_list, {s}, ~proxied) /\ proxied
    BY <1>1, EapInvFields, OffListed
  <1>3. InHand(handler, session_list, s, accepted') /\ Noted /\ UNCHANGED proxied
    BY <1>1, <1>2, EapInvFields DEF InHand, Noted
  <1>4. handler[s].age \in 0..MaxAge
    BY EapInvFields DEF Handlers, HandlerRecord
  <1>5. CASE eaplist_add(handler, s, session_list, handler[s].age)
    BY <1>2, <1>3, <1>4, <1>5, AddInv
  <1>6. CASE eap_handler_free(handler, s, session_list)
    BY <1>3, <1>6, FreeInv
  <1> QED
    BY <1>1, <1>5, <1>6

LEMMA TickInv ==
    ASSUME EapInv, EapTick
    PROVE  EapInv'
  <1>1. /\ \A s \in Sessions : Live(s) => handler[s].age < MaxAge
        /\ handler' = [s \in Sessions |-> IF Live(s) THEN [handler[s] EXCEPT !.age = @ + 1] ELSE handler[s]]
        /\ UNCHANGED <<session_list, states, accepted, twice, proxied, late>>
    BY DEF EapTick
  <1>2. \A s \in Sessions : handler[s] \in HandlerRecord
    BY EapInvFields DEF Handlers
  <1>3. ASSUME NEW s \in Sessions
        PROVE  /\ handler'[s] \in HandlerRecord /\ handler'[s].where = handler[s].where
               /\ handler'[s].trips = handler[s].trips
               /\ handler[s].where = "listed" => handler'[s].age = handler[s].age + 1
    <2>1. CASE Live(s)
      <3>1. handler'[s] = [handler[s] EXCEPT !.age = @ + 1] /\ handler[s].age < MaxAge
        BY <1>1, <2>1
      <3> QED
        BY <1>2, <3>1, EapAssumption DEF HandlerRecord
    <2>2. CASE ~Live(s)
      <3>1. handler'[s] = handler[s]
        BY <1>1, <2>2
      <3> QED
        BY <1>2, <2>2, <3>1 DEF Live
    <2> QED
      BY <2>1, <2>2
  <1>4. handler' \in Handlers
    BY <1>1, <1>3 DEF Handlers
  <1>5. Listed(handler', session_list, {}, ~proxied)
    <2>1. Members(session_list) = {s \in Sessions : handler'[s].where = "listed"} \ {}
      BY <1>3, EapInvFields DEF Listed
    <2>2. \A i \in DOMAIN session_list : LET s == session_list[i] IN s \in Sessions /\ handler[s].where = "listed"
      BY EapInvFields DEF Listed, Members
    <2>3. \A i \in DOMAIN session_list : LET s == session_list[i] IN
            handler[s].age \in Nat /\ handler'[s].age = handler[s].age + 1
      BY <1>2, <1>3, <2>2, EapAssumption DEF HandlerRecord
    <2>4. OldFirst(handler, session_list) => OldFirst(handler', session_list)
      BY <2>3 DEF OldFirst
    <2> QED
      BY <2>1, <2>4, EapInvFields DEF Listed
  <1>6. Behind(handler', accepted)
    <2>1. \A c \in accepted : c.session \in Sessions
      BY EapInvFields DEF StateKeys
    <2> QED
      BY <1>3, <2>1, EapInvFields DEF Behind
  <1>7. /\ Noted /\ states' \subseteq StateKeys /\ proxied' \in BOOLEAN
        /\ ~proxied' => \A t \in Sessions : handler'[t].where # "held"
    BY <1>1, <1>3, EapInvFields DEF Noted
  <1>8. Listed(handler', session_list', {}, ~proxied') /\ Behind(handler', accepted')
    BY <1>1, <1>5, <1>6
  <1> QED
    BY <1>4, <1>7, <1>8, KeptInv

----------------------------------------------------------------------------
(* eaplist_find().                                                          *)

\* The list and the handlers after the expiry are sound, and no handler is changed
\* that stays.
LEMMA FindExpires ==
    ASSUME EapInv, NEW c
    PROVE  LET f == eaplist_find(c)
           IN  /\ f.h \in Handlers /\ Listed(f.h, f.list, {}, ~proxied) /\ Behind(f.h, accepted)
               /\ ~proxied => \A t \in Sessions : f.h[t].where # "held"
               /\ f.list = eaplist_expire(handler, session_list, 0)
               /\ f.found = Matches(f.h, f.list, c)
               /\ f.expired = Len(session_list) - Len(f.list)
               /\ \A s \in Members(f.list) : f.h[s] = handler[s]
  <1> DEFINE kept == eaplist_expire(handler, session_list, 0)
             gone == Members(session_list) \ Members(kept)
             h == ToFree(handler, gone)
             f == eaplist_find(c)
  <1>1. /\ f.h = h /\ f.list = kept /\ f.found = Matches(h, kept, c)
        /\ f.expired = Len(session_list) - Len(kept)
    BY DEF eaplist_find
  <1>2. Listed(h, kept, {}, ~proxied)
    BY EapInvFields, ExpireListed
  <1>3. /\ h \in Handlers
        /\ \A s \in Sessions : h[s] = IF s \in gone THEN Blank("freed") ELSE handler[s]
        /\ \A s \in gone \cap Sessions : h[s].where = "freed"
    BY EapInvFields, ToFreeFields
  <1> HIDE DEF f, h, kept
  <1>4. Behind(h, accepted)
    <2>1. \A t \in accepted : t.session \in Sessions
      BY EapInvFields DEF StateKeys
    <2> QED
      BY <1>3, <2>1, EapInvFields DEF Behind
  <1>5. ~proxied => \A t \in Sessions : h[t].where # "held"
    BY <1>3, EapInvFields
  <1>6. \A s \in Members(kept) : h[s] = handler[s]
    <2>1. Members(kept) \subseteq Sessions
      BY <1>2 DEF Listed
    <2> QED
      BY <1>3, <2>1
  <1> QED
    BY <1>1, <1>2, <1>3, <1>4, <1>5, <1>6 DEF f, kept

\* The session that is found waits for this State, which was not accepted before;
\* and it is not too old when the expiry had time left, unless an old timestamp may
\* be in front of it.
LEMMA FoundIsFresh ==
    ASSUME EapInv, NEW c, NEW s, s \in eaplist_find(c).found
    PROVE  LET f == eaplist_find(c)
           IN  /\ s \in Sessions /\ s \in Members(f.list) /\ f.h[s].where = "listed"
               /\ c.session = s /\ c.trips = f.h[s].trips /\ c \in StateKeys /\ c \notin accepted
               /\ f.expired < ExpireCount /\ TooOld(f.h, s, 0) => proxied
  <1> DEFINE f == eaplist_find(c)
             l == session_list
             e == Expired(handler, l, 0)
  <1>1. /\ f.h \in Handlers /\ Listed(f.h, f.list, {}, ~proxied) /\ Behind(f.h, accepted)
        /\ f.list = eaplist_expire(handler, l, 0)
        /\ f.found = Matches(f.h, f.list, c)
        /\ f.expired = Len(l) - Len(f.list)
        /\ \A t \in Members(f.list) : f.h[t] = handler[t]
    BY FindExpires
  <1>2. s \in f.found
    OBVIOUS
  <1>3. /\ f.list \in Seq(Sessions) /\ Len(f.list) = Len(l) - e /\ e \in 0..Len(l)
        /\ \A i \in 1..Len(f.list) : e + i \in 1..Len(l) /\ f.list[i] = l[e + i]
        /\ e < Len(l) /\ e < ExpireCount => ~TooOld(handler, l[e + 1], 0)
    BY <1>1, ExpireFields, EapInvFields
  <1> HIDE DEF f, e
  <1>4. s \in Members(f.list) /\ StateKey(f.h, s) = c
    BY <1>1, <1>2 DEF Matches
  <1>5. s \in Sessions /\ f.h[s].where = "listed"
    BY <1>1, <1>4 DEF Listed
  <1>6. c.session = s /\ c.trips = f.h[s].trips /\ c \in StateKeys
    BY <1>1, <1>4, <1>5 DEF StateKey, StateKeys, Handlers, HandlerRecord
  <1>7. c \notin accepted
    <2>1. f.h[s].trips \in Nat
      BY <1>1, <1>5, EapAssumption DEF Handlers, HandlerRecord
    <2> QED
      BY <1>1, <1>5, <1>6, <2>1 DEF Behind
  <1>8. ASSUME f.expired < ExpireCount, TooOld(f.h, s, 0), ~proxied PROVE FALSE
    <2>1. Len(l) \in Nat /\ DOMAIN l = 1..Len(l) /\ DOMAIN f.list = 1..Len(f.list)
      BY <1>3, EapInvFields, LenProperties
    <2>2. PICK i \in 1..Len(f.list) : f.list[i] = s
      BY <1>4, <2>1 DEF Members
    <2>0. e \in Nat /\ Len(l) \in Nat /\ Len(f.list) = Len(l) - e /\ i \in Nat /\ 1 <= i /\ i <= Len(l) - e
      <3> DEFINE m == Len(f.list)
                 n == Len(l)
      <3>1. e \in 0..n /\ m = n - e /\ n \in Nat /\ i \in 1..m
        BY <1>3, <2>1, <2>2
      <3> HIDE DEF m, n
      <3>2. e \in Nat /\ n \in Nat /\ m = n - e /\ i \in Nat /\ 1 <= i /\ i <= n - e
        BY <3>1
      <3> QED
        BY <3>2 DEF m, n
    <2>3. e < ExpireCount /\ e < Len(l) /\ e + 1 \in 1..Len(l) /\ e + i \in 1..Len(l)
      <3>1. Len(l) - Len(f.list) < ExpireCount /\ ExpireCount \in Nat
        BY <1>1, <1>8, EapAssumption
      <3>2. Len(l) - (Len(l) - e) = e
        BY <2>0
      <3>3. e < ExpireCount
        BY <2>0, <3>1, <3>2
      <3> QED
        BY <2>0, <3>3
    <2>4. l[e + i] = s
      BY <1>3, <2>2
    <2>5. OldFirst(handler, l)
      BY <1>8, EapInvFields DEF Listed
    <2>6. /\ l[e + 1] \in Sessions
          /\ handler[l[e + 1]].age \in Nat /\ handler[s].age \in Nat /\ f.h[s] = handler[s]
      <3>1. \A t \in Sessions : handler[t].age \in Nat
        BY EapInvFields, EapAssumption DEF Handlers, HandlerRecord
      <3>2. l[e + 1] \in Sessions
        BY <2>3, EapInvFields, ElementOfSeq
      <3> QED
        BY <1>1, <1>4, <1>5, <3>1, <3>2
    <2>7. handler[l[e + 1]].age >= handler[s].age
      <3>1. CASE i = 1
        <4>1. l[e + 1] = s
          BY <2>4, <3>1
        <4> QED
          BY <2>6, <4>1
      <3>2. CASE i # 1
        <4>1. e + 1 < e + i
          BY <2>0, <3>2
        <4> QED
          BY <2>1, <2>3, <2>4, <2>5, <4>1 DEF OldFirst
      <3> QED
        BY <3>1, <3>2
    <2>8. TooOld(handler, l[e + 1], 0)
      BY <1>8, <2>6, <2>7, EapAssumption DEF TooOld
    <2> QED
      BY <1>3, <2>3, <2>8
  <1> QED
    BY <1>4, <1>5, <1>6, <1>7, <1>8 DEF f

LEMMA RespondInv ==
    ASSUME EapInv, NEW c, Respond(c)
    PROVE  EapInv'
  <1> DEFINE f == eaplist_find(c)
  <1>1. /\ f.h \in Handlers /\ Listed(f.h, f.list, {}, ~proxied) /\ Behind(f.h, accepted)
        /\ ~proxied => \A t \in Sessions : f.h[t].where # "held"
    BY FindExpires
  <1>2. CASE Unmatched(f)
    <2>1. session_list' = f.list /\ handler' = f.h /\ UNCHANGED <<states, accepted, twice, proxied, late>>
      BY <1>2 DEF Unmatched
    <2> HIDE DEF f
    <2>2. Noted /\ states' \subseteq StateKeys /\ proxied' \in BOOLEAN
      BY <2>1, EapInvFields DEF Noted
    <2>3. /\ handler' \in Handlers /\ Listed(handler', session_list', {}, ~proxied') /\ Behind(handler', accepted')
          /\ ~proxied' => \A t \in Sessions : handler'[t].where # "held"
      BY <1>1, <2>1
    <2> QED
      BY <2>2, <2>3, KeptInv
  <1>3. ASSUME NEW s \in f.found, TooManyTrips(f, s) PROVE EapInv'
    <2> DEFINE k == eaplist_delete(f.list, s)
    <2>1. eap_handler_free(f.h, s, k) /\ UNCHANGED <<accepted, twice, proxied, late>>
      BY <1>3 DEF TooManyTrips
    <2>2. s \in Sessions /\ s \in Members(f.list) /\ f.h[s].where = "listed"
      BY FoundIsFresh
    <2> HIDE DEF f
    <2>3. Listed(f.h, k, {s}, ~proxied)
      BY <1>1, <2>2, DeleteListed
    <2> HIDE DEF k
    <2>4. InHand(f.h, k, s, accepted') /\ Noted /\ UNCHANGED proxied
      BY <1>1, <2>1, <2>2, <2>3, EapInvFields DEF InHand, Noted
    <2> QED
      BY <2>1, <2>2, <2>4, FreeInv
  <1>4. ASSUME NEW s \in f.found, TripsLeft(f.h, s), accepted' = accepted \cup {c},
               twice' = (twice \/ c \in accepted), late' = (late \/ (f.expired < ExpireCount /\ TooOld(f.h, s, 0))),
               LET h == [f.h EXCEPT ![s].trips = @ + 1]
                   l == eaplist_delete(f.list, s)
               IN  WrongResponse(h, s, l) \/ Nak(h, s, l) \/ Reply(h, s, l)
        PROVE  EapInv'
    <2> DEFINE h == [f.h EXCEPT ![s].trips = @ + 1]
               l == eaplist_delete(f.list, s)
    <2>1. /\ s \in Sessions /\ s \in Members(f.list) /\ f.h[s].where = "listed"
          /\ c.session = s /\ c.trips = f.h[s].trips /\ c \in StateKeys /\ c \notin accepted
          /\ f.expired < ExpireCount /\ TooOld(f.h, s, 0) => proxied
      BY FoundIsFresh
    <2>2. WrongResponse(h, s, l) \/ Nak(h, s, l) \/ Reply(h, s, l)
      BY <1>4
    <2> HIDE DEF f
    <2>4. /\ h \in Handlers /\ h[s].where = "listed" /\ h[s].trips = f.h[s].trips + 1
          /\ \A t \in Sessions \ {s} : h[t] = f.h[t]
      <3>1. f.h[s] \in HandlerRecord /\ f.h[s].trips < MaxTrips
        BY <1>1, <1>4, <2>1 DEF Handlers, TripsLeft
      <3>2. [f.h[s] EXCEPT !.trips = @ + 1] \in HandlerRecord
        BY <3>1, EapAssumption DEF HandlerRecord
      <3>3. /\ h[s] = [f.h[s] EXCEPT !.trips = @ + 1] /\ \A t \in Sessions \ {s} : h[t] = f.h[t]
            /\ h = [t \in Sessions |-> h[t]]
        BY <1>1, <2>1 DEF Handlers
      <3> HIDE DEF h
      <3>4. h[s].where = "listed" /\ h[s].trips = f.h[s].trips + 1
        BY <2>1, <3>1, <3>3 DEF HandlerRecord
      <3>5. \A t \in Sessions : h[t] \in HandlerRecord
        BY <1>1, <3>2, <3>3 DEF Handlers
      <3> QED
        BY <3>3, <3>4, <3>5 DEF Handlers
    <2>5. Listed(h, l, {s}, ~proxied)
      <3>1. Listed(f.h, l, {s}, ~proxied)
        BY <1>1, <2>1, DeleteListed
      <3> HIDE DEF h, l
      <3> QED
        BY <1>1, <2>1, <2>4, <3>1, ChangeListed
    <2> HIDE DEF h, l
    <2>6. Behind(h, accepted')
      <3>1. f.h[s].trips \in Nat
        BY <1>1, <2>1, EapAssumption DEF Handlers, HandlerRecord
      <3>2. \A t \in accepted : t.session \in Sessions /\ t.trips \in Nat
        BY EapInvFields, EapAssumption DEF StateKeys
      <3>3. c.trips < h[s].trips
        BY <2>1, <2>4, <3>1
      <3>4. ASSUME NEW t \in accepted
            PROVE  h[t.session].where \in {"freed", "lost"} \/ t.trips < h[t.session].trips
        <4>1. f.h[t.session].where \in {"freed", "lost"} \/ t.trips < f.h[t.session].trips
          BY <1>1 DEF Behind
        <4> QED
          BY <2>1, <2>4, <3>1, <3>2, <4>1
      <3> QED
        BY <1>4, <2>1, <3>3, <3>4 DEF Behind
    <2>7. accepted' \subseteq StateKeys /\ ~twice' /\ twice' \in BOOLEAN
      BY <1>4, <2>1, EapInvFields
    <2>8. late' \in BOOLEAN /\ (late' => proxied)
      BY <1>4, <2>1, EapInvFields DEF TooOld
    <2>9. ~proxied => \A t \in Sessions : h[t].where # "held"
      BY <1>1, <2>4
    <2>10. InHand(h, l, s, accepted')
      BY <2>4, <2>5, <2>6, <2>7, <2>9 DEF InHand
    <2>11. UNCHANGED proxied => Noted
      BY <2>7, <2>8 DEF Noted
    <2>12. CASE WrongResponse(h, s, l)
      <3>1. handler' = [h EXCEPT ![s] = Blank("lost")] /\ session_list' = l /\ UNCHANGED <<states, proxied>>
        BY <2>12 DEF WrongResponse
      <3>2. Blank("lost") \in HandlerRecord /\ Blank("lost").where = "lost"
        BY BlankType DEF Places
      <3>3. handler' \in Handlers /\ handler'[s].where = "lost" /\ \A t \in Sessions \ {s} : handler'[t] = h[t]
        BY <2>1, <2>4, <3>1, <3>2 DEF Handlers
      <3>4. Listed(handler', session_list', {}, ~proxied)
        BY <2>1, <2>4, <2>5, <3>1, <3>3, ChangeListed
      <3>5. Moved(h, handler', s)
        BY <3>3 DEF Moved
      <3>6. states' \subseteq StateKeys /\ Noted /\ UNCHANGED proxied
        BY <2>11, <3>1, EapInvFields
      <3> QED
        BY <2>1, <2>10, <3>3, <3>4, <3>5, <3>6, MovedInv
    <2>13. CASE Nak(h, s, l)
      <3>1. PICK t \in Types : eaplist_add([h EXCEPT ![s].type = t], s, l, 0) /\ UNCHANGED proxied
        BY <2>13 DEF Nak
      <3> DEFINE g == [h EXCEPT ![s].type = t]
      <3>2. /\ g \in Handlers /\ g[s].where = "listed" /\ g[s].trips = h[s].trips
            /\ \A u \in Sessions \ {s} : g[u] = h[u]
        BY <2>1, <2>4 DEF Handlers, HandlerRecord
      <3> HIDE DEF g
      <3>3. Listed(g, l, {s}, ~proxied)
        BY <2>1, <2>4, <2>5, <3>2, ChangeListed
      <3>4. Behind(g, accepted')
        <4>1. \A u \in accepted' : u.session \in Sessions
          BY <2>7 DEF StateKeys
        <4> QED
          BY <2>4, <2>6, <3>2, <4>1 DEF Behind
      <3>5. InHand(g, l, s, accepted') /\ Noted
        BY <2>7, <2>9, <2>11, <3>1, <3>2, <3>3, <3>4 DEF InHand
      <3>6. eaplist_add(g, s, l, 0)
        BY <3>1 DEF g
      <3> QED
        BY <2>1, <3>1, <3>5, <3>6, EapInvFields, AddInv
    <2>14. CASE Reply(h, s, l)
      <3>1. CASE eaplist_add(h, s, l, 0) /\ UNCHANGED proxied
        BY <2>1, <2>10, <2>11, <3>1, EapInvFields, AddInv
      <3>2. CASE eap_handler_free(h, s, l) /\ UNCHANGED proxied
        BY <2>1, <2>10, <2>11, <3>2, FreeInv
      <3>3. CASE /\ session_list' = l /\ handler' = [h EXCEPT ![s].where = "held", ![s].age = 0]
                 /\ proxied' = TRUE /\ UNCHANGED states
        <4> DEFINE g == [h EXCEPT ![s].where = "held"]
        <4>1. /\ g \in Handlers /\ g[s].where = "held" /\ g[s].trips = h[s].trips
              /\ \A t \in Sessions \ {s} : g[t] = h[t]
          BY <2>1, <2>4 DEF Handlers, HandlerRecord, Places
        <4>2. handler' = [g EXCEPT ![s].age = 0]
          BY <2>1, <2>4, <3>3 DEF Handlers
        <4> HIDE DEF g
        <4>0. 0 \in 0..MaxAge
          BY EapInvFields
        <4>3. /\ handler' \in Handlers /\ handler'[s].where = "held" /\ handler'[s].trips = h[s].trips
              /\ \A t \in Sessions \ {s} : handler'[t] = h[t]
          <5>1. g[s] \in HandlerRecord /\ [g[s] EXCEPT !.age = 0] \in HandlerRecord
            BY <2>1, <4>0, <4>1 DEF Handlers, HandlerRecord
          <5>2. handler'[s] = [g[s] EXCEPT !.age = 0] /\ \A t \in Sessions \ {s} : handler'[t] = g[t]
            BY <2>1, <4>1, <4>2 DEF Handlers
          <5>3. handler'[s].where = "held" /\ handler'[s].trips = h[s].trips
            BY <4>1, <5>1, <5>2 DEF HandlerRecord
          <5>4. handler' \in Handlers
            BY <2>1, <4>1, <4>2, <5>1 DEF Handlers
          <5> QED
            BY <4>1, <5>2, <5>3, <5>4
        <4>4. Listed(handler', session_list', {}, ~proxied)
          <5>1. Listed(handler', l, {}, ~proxied)
            BY <2>1, <2>4, <2>5, <4>3, ChangeListed
          <5> QED
            BY <3>3, <5>1
        <4>5. Listed(handler', session_list', {}, ~proxied')
          BY <3>3, <4>4 DEF Listed
        <4>6. Behind(handler', accepted')
          <5>1. \A u \in accepted' : u.session \in Sessions
            BY <2>7 DEF StateKeys
          <5> QED
            BY <2>4, <2>6, <4>3, <5>1 DEF Behind
        <4>7. Noted /\ proxied' \in BOOLEAN /\ states' \subseteq StateKeys
          BY <2>7, <2>8, <3>3, EapInvFields DEF Noted
        <4>8. ~proxied' => \A t \in Sessions : handler'[t].where # "held"
          BY <3>3
        <4> QED
          BY <4>3, <4>5, <4>6, <4>7, <4>8, KeptInv
      <3> QED
        BY <2>14, <3>1, <3>2, <3>3 DEF Reply
    <2> QED
      BY <2>2, <2>12, <2>13, <2>14
  <1> QED
    BY <1>2, <1>3, <1>4 DEF Respond

\* Whatever is repeated, comes late or is answered by a home server: a State is
\* accepted once, the list of sessions holds each that waits once and no more than
\* max_sessions, the oldest is in front until a handler comes back from a home
\* server, and until then no expired session is continued that expiry had time for.
THEOREM SessionsTheorem == EapSpec => []SessionsAreExact
  <1>1. EapInit => EapInv
    <2> SUFFICES ASSUME EapInit PROVE EapInv
      OBVIOUS
    <2>1. Blank("unused") \in HandlerRecord /\ Blank("unused").where = "unused"
      BY BlankType DEF Places
    <2>2. EapTypeOK
      <3>1. handler \in [Sessions -> HandlerRecord] /\ session_list \in Seq(Sessions)
        BY <2>1 DEF EapInit
      <3>2. twice \in BOOLEAN /\ proxied \in BOOLEAN /\ late \in BOOLEAN
        BY Zenon DEF EapInit
      <3>3. states \subseteq StateKeys /\ accepted \subseteq StateKeys
        BY DEF EapInit
      <3> QED
        BY <3>1, <3>2, <3>3 DEF EapTypeOK
    <2>3. Listed(handler, session_list, {}, ~proxied)
      BY <2>1, EapAssumption DEF EapInit, Listed, Distinct, Members, OldFirst
    <2> QED
      BY <2>1, <2>2, <2>3 DEF EapInit, EapInv, Behind
  <1>2. EapInv /\ [EapNext]_eapVars => EapInv'
    <2> SUFFICES ASSUME EapInv, [EapNext]_eapVars PROVE EapInv'
      OBVIOUS
    <2>1. CASE UNCHANGED eapVars
      BY <2>1 DEF eapVars, EapInv, EapTypeOK, Listed, Distinct, Members, OldFirst, Behind
    <2> QED
      BY <2>1, IdentityInv, RespondInv, HeldInv, TickInv DEF EapNext
  <1>3. EapInv => SessionsAreExact
    <2> SUFFICES ASSUME EapInv PROVE SessionsAreExact
      OBVIOUS
    <2>1. ListIsExact
      BY EapInvFields, DistinctCardinality DEF ListIsExact, Listed
    <2>2. OldestFirst
      BY EapInvFields DEF OldestFirst, Listed, OldFirst
    <2> QED
      BY <2>1, <2>2 DEF EapInv, SessionsAreExact, StateIsUsedOnce, ExpiredIsNotContinued
  <1> QED
    BY <1>1, <1>2, <1>3, PTL DEF EapSpec

=============================================================================
