----------------------------- MODULE EapMethods -----------------------------
(***************************************************************************)
(* The password methods of rlm_eap, from the EAP-Identity to the answer:   *)
(* MD5, GTC, LEAP, SIM, AKA and MSCHAPv2, the choice between them (the     *)
(* user's EAP-Type, the default, a NAK), what each keeps in                *)
(* handler->opaque, and what eap_compose() makes of its result.            *)
(* EapSession has the list of sessions, Peap the tunnel around MSCHAPv2.   *)
(*                                                                         *)
(* Cryptography is by what it depends on: a proof is right when the user   *)
(* made it of the secret key (Key) that the method holds.  Key has the     *)
(* challenge, which is never drawn twice, and for SIM the nonce and the    *)
(* identity that go into the keys.                                         *)
(***************************************************************************)
EXTENDS Naturals, Sequences

CONSTANTS
  MethodConfs,  \* configurations, see MethodConf
  MaxChallenges,\* bound on the challenges drawn
  MaxResponses, \* bound on the responses of a conversation
  SqnStep,      \* 32: what AKA adds to the sequence number
  SqnMax        \* 2^48 - 1

VARIABLES
  method_conf, \* the configuration and what is known of the user
  conv,        \* the handler: where it is, its EAP type, responses so far
  opaque,      \* handler->opaque
  drawn,       \* challenges drawn so far
  shown,       \* keys of the challenges that were sent
  proven,      \* keys that the user has given a proof of
  answer,      \* the last answer to the NAS
  honest       \* so far the peer did what the method asks for

methodVars == <<method_conf, conv, opaque, drawn, shown, proven, answer, honest>>

EapMethod == {"md5", "gtc", "leap", "sim", "aka", "mschapv2"}
MethodConf ==
  [types : SUBSET EapMethod,          \* inst->types
   default : EapMethod,               \* default_eap_type
   only : EapMethod \cup {"any"},     \* EAP-Type of the user
   password : BOOLEAN,                \* Cleartext-Password is known
   triplets : BOOLEAN,                \* EAP-Sim-Rand1 and the others are known
   send_error : BOOLEAN,              \* MSCHAPv2 tells the peer of a failure
   proxy : BOOLEAN,                   \* a PEAP tunnel whose MSCHAPv2 goes to a home server
   sqn : 0..SqnMax, card : 0..SqnMax] \* AKA: EAP-Aka-SQN, and that of the card

ASSUME MethodAssumption ==
  /\ MaxChallenges \in Nat \ {0} /\ MaxResponses \in Nat
  /\ SqnStep \in Nat \ {0} /\ SqnMax \in Nat
  /\ MethodConfs \subseteq MethodConf

----------------------------------------------------------------------------
(* handler->opaque.  state is data->code, session->stage or ess->state.     *)
NoOpaque ==
  [kind |-> "none", challenge |-> 0, nonce |-> 0, ident |-> "outer", state |-> "none",
   mppe_keys |-> FALSE, sqn |-> 0, synced |-> FALSE]
Opaque(m, c, state) == [NoOpaque EXCEPT !.kind = m, !.challenge = c, !.state = state]

\* The key that proofs are made of and session keys are derived from.  A GTC
\* response is the password.
Key(o) ==
  [kind |-> o.kind, challenge |-> o.challenge, nonce |-> o.nonce, ident |-> o.ident]
Password == [Key(NoOpaque) EXCEPT !.kind = "gtc"]
KeyOf(m, o) == IF m = "gtc" THEN Password ELSE Key(o)

\* eapmd5_verify(), eapleap_stage4(), eapsim_checkmac(), the comparison of
\* AT_RES, and the MS-CHAP module.
Verify(m, o, r) == r.by = "user" /\ r.of = KeyOf(m, o)

(***************************************************************************)
(* What a method returns: rcode, the code of its EAP packet ("none" when   *)
(* it made none), a RADIUS code that is set already, the keys in the       *)
(* reply, whether the request waits for a home server, and the opaque.     *)
(***************************************************************************)
Result(eap, o) ==
  [rcode |-> 1, eap |-> eap, radius |-> "none", keys |-> FALSE, held |-> FALSE, opaque |-> o]
Refused == [Result("failure", NoOpaque) EXCEPT !.rcode = 0]

----------------------------------------------------------------------------
(* AKA: the sequence number that goes into AUTN, and the new vector.  The   *)
(* attributes come from this request's reply: some may be missing.          *)
NextSqn(s) == IF s + SqnStep > SqnMax THEN 0 ELSE s + SqnStep
eap_aka_getchalans(o, s) == [o EXCEPT !.challenge = drawn + 1, !.sqn = NextSqn(s)]

(***************************************************************************)
(* initiate() of each method, for a handler with no opaque.                *)
(***************************************************************************)
md5_initiate == Result("request", Opaque("md5", drawn + 1, "sent"))
gtc_initiate == Result("request", NoOpaque)
leap_initiate == Result("request", Opaque("leap", drawn + 1, "4"))
mschapv2_initiate == Result("request", Opaque("mschapv2", drawn + 1, "challenge"))
eap_sim_initiate ==
  IF method_conf.triplets THEN Result("request", Opaque("sim", drawn + 1, "start")) ELSE Refused
eap_aka_initiate(attrs) ==
  IF attrs = "all"
  THEN Result("request", eap_aka_getchalans(Opaque("aka", drawn + 1, "challenge"), method_conf.sqn))
  ELSE Refused

initiate(m, attrs) ==
  CASE m = "md5" -> md5_initiate
    [] m = "gtc" -> gtc_initiate
    [] m = "leap" -> leap_initiate
    [] m = "sim" -> eap_sim_initiate
    [] m = "aka" -> eap_aka_initiate(attrs)
    [] m = "mschapv2" -> mschapv2_initiate

----------------------------------------------------------------------------
(* authenticate() of each method, for the response r.                       *)

md5_authenticate(r) ==
  IF ~method_conf.password \/ r.op = "malformed" THEN Refused
  ELSE Result(IF Verify("md5", opaque, r) THEN "success" ELSE "failure", opaque)

\* With the password or by way of another module.
gtc_authenticate(r) ==
  IF r.op = "malformed" \/ ~method_conf.password \/ ~Verify("gtc", opaque, r) THEN Refused
  ELSE Result("success", opaque)

\* Stage 4 verifies the peer; eight octets, as in a request, are never the 24
\* of a response.  EAP-Success goes out in an Access-Challenge, and in stage 6
\* the server answers the challenge of the access point.  (It also wants a
\* User-Name, which every request of the conversation has.)
\* Mutant: the failure of stage 4 is answered, and the session kept.
leap_authenticateGoesOn(r) ==
  IF r.op = "malformed" \/ ~method_conf.password THEN Refused
  ELSE IF opaque.state = "4"
       THEN [Result("success", [opaque EXCEPT !.state = "6"]) EXCEPT !.radius = "challenge"]
       ELSE [Result("response", opaque) EXCEPT !.keys = TRUE]
leap_authenticate(r) ==
  IF \/ r.op = "malformed" \/ ~method_conf.password
     \/ opaque.state = "4" /\ ~(r.op = "response" /\ Verify("leap", opaque, r))
  THEN Refused
  ELSE IF opaque.state = "4"
       THEN [Result("success", [opaque EXCEPT !.state = "6"]) EXCEPT !.radius = "challenge"]
       ELSE [Result("response", opaque) EXCEPT !.keys = TRUE]

\* SIM: the challenge, with keys calculated anew of the nonce and of the
\* identity in this packet, if it has one.
eap_sim_sendchallenge(o, r) ==
  Result("request", [o EXCEPT !.state = "challenge", !.ident = r.ident])
process_eap_sim_start(r) ==
  CASE r.op = "start" -> eap_sim_sendchallenge([opaque EXCEPT !.nonce = r.nonce], r)
    [] r.op = "start_bad" -> Refused
    [] OTHER -> Result("request", opaque)
process_eap_sim_challenge(r) ==
  IF Verify("sim", opaque, r)
  THEN [Result("success", [opaque EXCEPT !.state = "success"]) EXCEPT !.keys = TRUE]
  ELSE Refused
eap_sim_authenticate(r) ==
  IF r.op \in {"malformed", "client_error"} THEN Refused
  ELSE CASE opaque.state = "start" -> process_eap_sim_start(r)
         [] opaque.state = "challenge" ->
              IF r.op = "challenge" THEN process_eap_sim_challenge(r)
              ELSE eap_sim_sendchallenge(opaque, r)

\* AKA: a wrong MAC fails; a wrong AT_RES makes no packet at all.
process_eap_aka_challenge(r) ==
  IF ~Verify("aka", opaque, r) THEN Refused
  ELSE IF r.op = "bad_res" THEN Result("none", opaque)
       ELSE [Result("success", [opaque EXCEPT !.state = "success"]) EXCEPT !.keys = TRUE]
\* The sequence number of the card replaces that of the reply.  When the rest
\* of the attributes is missing nobody asks, and the old vector is sent again.
process_eap_aka_sqn_sync(r) ==
  IF r.op = "sync_bad" \/ r.attrs = "no_sqn" THEN Refused
  ELSE Result("request", IF r.attrs = "no_key" THEN opaque
                         ELSE [eap_aka_getchalans(opaque, method_conf.card) EXCEPT !.synced = TRUE])
eap_aka_authenticate(r) ==
  CASE r.op \in {"malformed", "authentication_reject", "client_error"} -> Refused
    [] r.op \in {"challenge", "bad_res"} -> process_eap_aka_challenge(r)
    [] r.op \in {"sync", "sync_bad"} -> process_eap_aka_sqn_sync(r)
    [] OTHER -> Result("request", opaque)

(***************************************************************************)
(* MSCHAPv2.  The MS-CHAP module, or the home server, says whether the     *)
(* response is right; its MPPE keys wait in the opaque until the peer has  *)
(* confirmed the success.  An ACK of it is taken, but no packet is made.   *)
(***************************************************************************)
fix_mppe_keys(res) == [res EXCEPT !.keys = FALSE, !.opaque.mppe_keys = TRUE]

MschapResponse(r) ==
  LET right == Verify("mschapv2", opaque, r)
  IN  CASE method_conf.proxy -> [Result("none", opaque) EXCEPT !.held = TRUE]
        [] ~method_conf.proxy /\ right ->
             IF r.attrs = "all"
             THEN fix_mppe_keys(Result("request", [opaque EXCEPT !.state = "success"]))
             ELSE Refused
        [] ~method_conf.proxy /\ ~right /\ ~method_conf.send_error -> Result("failure", opaque)
        [] ~method_conf.proxy /\ ~right /\ method_conf.send_error ->
             IF r.attrs = "all" THEN Result("request", [opaque EXCEPT !.state = "failure"])
             ELSE Refused

mschapv2_authenticate(r) ==
  CASE r.op = "ack" /\ opaque.state = "success" -> Result("none", opaque)
    [] r.op = "response" /\ opaque.state = "challenge" -> MschapResponse(r)
    [] r.op = "success" /\ opaque.state = "success" ->
         [Result("success", [opaque EXCEPT !.mppe_keys = FALSE]) EXCEPT !.keys = opaque.mppe_keys]
    [] r.op \in {"failure", "response"} /\ opaque.state = "failure" -> Result("failure", opaque)
    [] OTHER -> Refused

\* mschap_postproxy(), for an accept of the home server.  Without
\* MS-CHAP2-Success it fails, and eap_fail() leaves the code of the reply.
mschap_postproxy(success) ==
  IF success
  THEN [fix_mppe_keys(Result("request", [opaque EXCEPT !.state = "success"]))
          EXCEPT !.radius = "challenge"]
  ELSE [Refused EXCEPT !.radius = "accept", !.keys = TRUE, !.opaque = opaque]

authenticate(m, r) ==
  CASE m = "md5" -> md5_authenticate(r)
    [] m = "gtc" -> gtc_authenticate(r)
    [] m = "leap" -> leap_authenticate(r)
    [] m = "sim" -> eap_sim_authenticate(r)
    [] m = "aka" -> eap_aka_authenticate(r)
    [] m = "mschapv2" -> mschapv2_authenticate(r)

----------------------------------------------------------------------------
\* The RADIUS code, unless it is set; a packet with no code is a reject.
eap_compose(res) ==
  IF res.radius # "none" THEN res.radius
  ELSE CASE res.eap \in {"success", "response"} -> "accept"
         [] res.eap = "request" -> "challenge"
         [] OTHER -> "reject"

\* eap_authenticate() keeps the handler for a request, and for the success of
\* LEAP's stage 4.
IsListed(m, r, res) ==
  \/ res.eap = "request"
  \/ m = "leap" /\ r.op = "response" /\ res.eap = "success"

Silent == [code |-> "none", keys |-> FALSE, key |-> Key(NoOpaque)]

(***************************************************************************)
(* The rest of eap_authenticate(), when method m has the result res for    *)
(* response r: eap_fail() and free; leave the handler with the proxied     *)
(* request; or answer, and list the handler or free it.                    *)
(***************************************************************************)
Conclude(m, r, res) ==
  /\ conv' = [conv EXCEPT !.type = m, !.responses = @ + 1,
                !.where = CASE res.rcode = 1 /\ res.held -> "held"
                            [] res.rcode = 1 /\ ~res.held /\ IsListed(m, r, res) -> "listed"
                            [] OTHER -> "freed"]
  /\ opaque' = res.opaque
  /\ drawn' = IF res.opaque.challenge > drawn THEN drawn + 1 ELSE drawn
  /\ shown' = IF res.eap = "request" THEN shown \cup {KeyOf(m, res.opaque)} ELSE shown
  /\ answer' = IF res.held THEN Silent
               ELSE [code |-> eap_compose(res), keys |-> res.keys,
                     key |-> KeyOf(m, res.opaque)]
  /\ UNCHANGED method_conf

----------------------------------------------------------------------------
(* What the peer may send: any operation of the method, with no proof, or   *)
(* with one that the user made of a key that was shown.                     *)
Ops(m) ==
  CASE m \in {"md5", "gtc"} -> {"value", "malformed"}
    [] m = "leap" -> {"response", "request", "malformed"}
    [] m = "sim" -> {"start", "start_bad", "challenge", "other", "client_error", "malformed"}
    [] m = "aka" -> {"challenge", "bad_res", "sync", "sync_bad", "authentication_reject",
                     "client_error", "other", "malformed"}
    [] m = "mschapv2" -> {"ack", "response", "success", "failure", "malformed"}

WithProof == {"value", "response", "challenge", "bad_res"}
Proofs(op) ==
  {[by |-> "other", of |-> Key(NoOpaque)]}
  \cup (IF op \in WithProof THEN {[by |-> "user", of |-> k] : k \in shown} ELSE {})
Attrs(m) ==
  CASE m = "aka" -> {"all", "no_sqn", "no_key"} [] m = "mschapv2" -> {"all", "no_key"} [] OTHER -> {"all"}

Responses(m) ==
  UNION {{[op |-> op, by |-> p.by, of |-> p.of, nonce |-> n, ident |-> i, attrs |-> a] :
            p \in Proofs(op), a \in Attrs(m),
            n \in IF op = "start" THEN {1, 2} ELSE {0},
            i \in IF m = "sim" THEN {"outer", "inner"} ELSE {"outer"}} : op \in Ops(m)}

\* The response that the method waits for.  A card whose sequence number is
\* not behind that of AUTN asks for synchronization.
Asked(m, r) ==
  CASE m \in {"md5", "gtc"} -> method_conf.password /\ r.op = "value" /\ Verify(m, opaque, r)
    [] m = "leap" /\ opaque.state = "4" ->
         method_conf.password /\ r.op = "response" /\ Verify(m, opaque, r)
    [] m = "leap" /\ opaque.state = "6" -> r.op = "request"
    [] m = "sim" /\ opaque.state = "start" -> r.op = "start"
    [] m = "sim" /\ opaque.state = "challenge" -> r.op = "challenge" /\ Verify(m, opaque, r)
    [] m = "aka" ->
         IF opaque.sqn > method_conf.card THEN r.op = "challenge" /\ Verify(m, opaque, r)
         ELSE r.op = "sync" /\ r.attrs = "all"
    [] m = "mschapv2" /\ opaque.state = "challenge" ->
         r.op = "response" /\ Verify(m, opaque, r) /\ r.attrs = "all"
    [] m = "mschapv2" /\ opaque.state = "success" -> r.op = "success"
    [] OTHER -> FALSE

----------------------------------------------------------------------------
(* A response of type m: another type than the handler's is not looked at,  *)
(* and the handler is gone.                                                 *)
IsOfType(m) == m = conv.type

Authenticate(m, r) ==
  /\ conv.where = "listed" /\ conv.responses < MaxResponses /\ drawn < MaxChallenges
  /\ IsOfType(m)
  /\ Conclude(m, r, authenticate(m, r))
  /\ proven' = IF r.by = "user" THEN proven \cup {r.of} ELSE proven
  /\ honest' = (honest /\ Asked(m, r))

OtherType(m) ==
  /\ conv.where = "listed"
  /\ ~IsOfType(m)
  /\ conv' = [conv EXCEPT !.where = "lost"]
  /\ answer' = [Silent EXCEPT !.code = "reject"]
  /\ honest' = FALSE
  /\ UNCHANGED <<method_conf, opaque, drawn, shown, proven>>

(***************************************************************************)
(* eaptype_select(): an identity starts the user's type or the default     *)
(* one; a NAK frees the opaque and starts the first type it names that is  *)
(* configured, is not the one it refuses, and is the user's if he has one. *)
(***************************************************************************)
Initiate(m, attrs) ==
  IF m \in method_conf.types THEN Conclude(m, [op |-> "initiate"], initiate(m, attrs))
  ELSE Conclude(m, [op |-> "initiate"], Refused)

\* What the method needs of the user is there.
Provided(m, attrs) ==
  /\ m \in method_conf.types
  /\ m = "sim" => method_conf.triplets
  /\ m = "aka" => attrs = "all"

EapIdentity(attrs) ==
  /\ conv.where = "none"
  /\ LET m == IF method_conf.only = "any" THEN method_conf.default ELSE method_conf.only
     IN Initiate(m, attrs) /\ honest' = Provided(m, attrs)
  /\ UNCHANGED proven

IsPicked(t) ==
  /\ t \in method_conf.types
  /\ t # conv.type
  /\ method_conf.only \in {"any", t}

EapNak(types, attrs) ==
  /\ conv.where = "listed" /\ conv.responses < MaxResponses /\ drawn < MaxChallenges
  /\ LET picked == {i \in DOMAIN types : IsPicked(types[i])}
         first == CHOOSE i \in picked : \A j \in picked : i <= j
         bad == \E i \in DOMAIN types : types[i] = "bad" /\ (picked = {} \/ i < first)
     IN  IF picked = {} \/ bad
         THEN Conclude(conv.type, [op |-> "nak"], Refused) /\ honest' = FALSE
         ELSE /\ Initiate(types[first], attrs)
              /\ honest' = (honest /\ Provided(types[first], attrs))
  /\ UNCHANGED proven

\* The home server accepts what is right and nothing else; else PEAP does not
\* call eap_post_proxy(), and the handler goes with the request.
EapPostProxy(success) ==
  /\ conv.where = "held"
  /\ Key(opaque) \in proven
  /\ Conclude("mschapv2", [op |-> "home"], mschap_postproxy(success))
  /\ honest' = (honest /\ success)
  /\ UNCHANGED proven

EapHomeRejects ==
  /\ conv.where = "held"
  /\ Conclude("mschapv2", [op |-> "home"], Refused)
  /\ honest' = FALSE
  /\ UNCHANGED proven

MethodInit ==
  /\ method_conf \in MethodConfs
  /\ conv = [where |-> "none", type |-> "none", responses |-> 0]
  /\ opaque = NoOpaque /\ drawn = 0 /\ shown = {} /\ proven = {}
  /\ answer = Silent /\ honest = TRUE

MethodNext ==
  \/ \E a \in {"all", "no_key"} : EapIdentity(a)
  \/ \E m \in method_conf.types : OtherType(m) \/ (\E r \in Responses(m) : Authenticate(m, r))
  \/ \E t, u \in method_conf.types \cup {"bad", "unknown"}, a \in {"all", "no_key"} : EapNak(<<t, u>>, a)
  \/ \E s \in BOOLEAN : EapPostProxy(s)
  \/ EapHomeRejects

MethodSpec == MethodInit /\ [][MethodNext]_methodVars

----------------------------------------------------------------------------
MethodTypeOK ==
  /\ method_conf \in MethodConf
  /\ conv \in [where : {"none", "listed", "held", "freed", "lost"},
               type : EapMethod \cup {"none"}, responses : 0..(MaxResponses + 2)]
  /\ drawn \in 0..MaxChallenges
  /\ answer.code \in {"none", "challenge", "accept", "reject"}
  /\ honest \in BOOLEAN

\* An Access-Accept follows a proof that the user made of the very challenge
\* this conversation sent last, whatever came before: other methods, resent
\* challenges, proofs of older ones.
AcceptedIsProven == answer.code = "accept" => answer.key \in proven

\* Session keys leave with an Access-Accept and with nothing else.
KeysGoWithAccept == answer.keys => answer.code = "accept"

\* What handler->opaque points to belongs to the EAP type of the handler.
OpaqueIsOfType ==
  conv.where \in {"listed", "held"} =>
    opaque.kind = (IF conv.type = "gtc" THEN "none" ELSE conv.type)

\* A peer that does what the methods ask for is never rejected.
HonestIsNotRejected == honest => answer.code # "reject"

\* After a synchronization failure the card takes the next challenge, unless
\* its sequence number is at the end of its range.
SyncIsOnce ==
  opaque.synced => opaque.sqn > method_conf.card \/ method_conf.card + SqnStep > SqnMax

\* The user is accepted when he has proved himself, and only then.
MethodsAreSound ==
  MethodTypeOK /\ AcceptedIsProven /\ KeysGoWithAccept /\ OpaqueIsOfType
  /\ HonestIsNotRejected /\ SyncIsOnce

=============================================================================
