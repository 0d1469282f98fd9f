-------------------------------- MODULE Peap --------------------------------
(***************************************************************************)
(* PEAP behind the TLS tunnel (EapTls has the tunnel): the phases of       *)
(* eappeap_process(), with session resumption, statements of health and    *)
(* inner requests that are proxied.  What the peer says in the tunnel and  *)
(* what the inner authentication answers is left open.                     *)
(***************************************************************************)
EXTENDS Naturals

CONSTANT MaxInner      \* rounds of the inner conversation, and of failed resumptions

ASSUME PeapAssumption == MaxInner \in Nat

VARIABLES
    peap_conf,     \* soh; reused: the TLS session is resumed; as_eap: proxy_tunneled_request_as_eap
    peap,             \* peap_tunnel_t
    peap_rcode,    \* what eappeap_authenticate() left: "going", "proxied", "success", "fail"
    inner          \* history: the last word of the inner authentication, and the rounds

peapVars == <<peap_conf, peap, peap_rcode, inner>>

PeapConf == [soh: BOOLEAN, reused: BOOLEAN, as_eap: BOOLEAN]

Statuses == {"none", "established", "identity", "soh", "phase2", "sent_success", "sent_failure"}

PeapTypeOK ==
    /\ peap_conf \in PeapConf
    /\ peap \in [status: Statuses, resumption: {"maybe", "no", "yes"}, username: BOOLEAN,
              home_access_accept: BOOLEAN]
    /\ peap_rcode \in {"going", "proxied", "success", "fail"}
    /\ inner \in [said: {"nothing", "accept", "reject"}, rounds: 0 .. MaxInner]

PeapInit ==
    /\ peap_conf \in PeapConf
    /\ peap = [status |-> "established", resumption |-> "maybe", username |-> FALSE,
            home_access_accept |-> FALSE]
    /\ peap_rcode = "going"
    /\ inner = [said |-> "nothing", rounds |-> 0]

-----------------------------------------------------------------------------
\* The replies of eappeap_process(): RLM_MODULE_HANDLED, _REJECT, _OK.
Handled(new) == peap' = new /\ peap_rcode' = "going" /\ UNCHANGED <<peap_conf, inner>>
Rejected(new) == peap' = new /\ peap_rcode' = "fail" /\ UNCHANGED <<peap_conf, inner>>

InnerSays(word) ==
    inner' = [inner EXCEPT !.said = IF word = "challenge" THEN @ ELSE word, !.rounds = @ + 1]

\* process_reply(): an Access-Accept or -Reject goes into the tunnel as a
\* Result-TLV, a challenge as it is.
process_reply(new, code) ==
    /\ peap' = [new EXCEPT !.status = CASE code = "accept" -> "sent_success"
                                     [] code = "reject" -> "sent_failure"
                                     [] OTHER -> @]
    /\ peap_rcode' = "going"
    /\ InnerSays(code)
    /\ UNCHANGED peap_conf

\* The inner request is to be proxied: as EAP, or, when the EAP conversation is
\* over, as what it contains (MS-CHAP).  Until then module_authenticate() answers.
Proxied(new) ==
    \/ peap' = new /\ peap_rcode' = "proxied" /\ UNCHANGED <<peap_conf, inner>>
    \/ ~peap_conf.as_eap /\ (process_reply(new, "accept") \/ process_reply(new, "challenge") \/ Rejected(new))

\* The inner authentication: rad_authenticate(fake).
Inner(new) ==
    /\ inner.rounds < MaxInner
    /\ \/ \E code \in {"accept", "reject", "challenge"} : process_reply(new, code)
       \/ Proxied(new)
       \/ Rejected(new)

\* What eapmessage_verify() lets pass; "bad" is everything else.
Tunnel == {"identity", "tlv_success", "tlv_failure", "eap"}

\* PEAP_STATUS_TUNNEL_ESTABLISHED: the data are not looked at.
TunnelEstablished ==
    /\ peap_rcode = "going" /\ peap.status = "established"
    /\ IF ~peap_conf.reused THEN Handled([peap EXCEPT !.resumption = "no", !.status = "identity"])
       ELSE Handled([peap EXCEPT !.resumption = "yes",
                              !.status = IF peap_conf.soh THEN "soh" ELSE "sent_success"])

\* PEAP_STATUS_INNER_IDENTITY_REQ_SENT
InnerIdentity(data) ==
    /\ peap_rcode = "going" /\ peap.status = "identity"
    /\ IF data # "identity" THEN Rejected(peap)
       ELSE IF peap_conf.soh THEN Handled([peap EXCEPT !.username = TRUE, !.status = "soh"])
       ELSE Inner([peap EXCEPT !.username = TRUE, !.status = "phase2"])

\* PEAP_STATUS_WAIT_FOR_SOH_RESPONSE: the virtual server for statements of
\* health accepts or not; phase 2 follows unless the session is resumed.
SohResponse(data) ==
    /\ peap_rcode = "going" /\ peap.status = "soh" /\ data \in Tunnel
    /\ \/ Handled([peap EXCEPT !.status = "sent_failure"])
       \/ /\ peap.resumption = "yes"
          /\ Handled([peap EXCEPT !.status = "sent_success"])
       \/ /\ peap.resumption # "yes"
          /\ Inner([peap EXCEPT !.status = "phase2"])

\* PEAP_STATUS_SENT_TLV_SUCCESS: the peer agrees, or rejects the resumption,
\* after which a full authentication starts.
SentSuccess(data) ==
    /\ peap_rcode = "going" /\ peap.status = "sent_success" /\ data \in Tunnel
    /\ IF data = "tlv_success"
       THEN peap_rcode' = "success" /\ UNCHANGED <<peap_conf, peap, inner>>
       ELSE IF peap.resumption = "yes"
            THEN Handled([peap EXCEPT !.status = "identity", !.resumption = "no"])
            ELSE Rejected(peap)

\* Mutant: after a failure the peer may go on with phase 2.
FailureGoesOn(data) == peap_rcode = "going" /\ peap.status = "sent_failure" /\ Inner([peap EXCEPT !.status = "phase2"])

\* PEAP_STATUS_SENT_TLV_FAILURE
SentFailure(data) == peap_rcode = "going" /\ peap.status = "sent_failure" /\ Rejected(peap)

\* PEAP_STATUS_PHASE2
Phase2(data) == peap_rcode = "going" /\ peap.status = "phase2" /\ data \in Tunnel /\ Inner(peap)

\* "Tunneled data is invalid."
BadData == peap_rcode = "going" /\ peap.status # "established" /\ Rejected(peap)

\* eappeap_postproxy(): the home server's answer.  After MS-CHAP an accept is
\* given to the inner post-proxy and post-auth, which may fail, make a challenge
\* of it, or (rad_postauth()) an Access-Reject.
eappeap_postproxy(code) ==
    /\ peap_rcode = "proxied"
    /\ inner.rounds < MaxInner
    /\ \/ /\ peap_conf.as_eap \/ code # "accept"
          /\ process_reply(peap, code)
       \/ /\ ~peap_conf.as_eap /\ code = "accept"
          /\ LET new == [peap EXCEPT !.home_access_accept = TRUE]
             IN (\E said \in {"accept", "reject", "challenge"} : process_reply(new, said)) \/ Rejected(new)

PeapNext ==
    \/ TunnelEstablished \/ BadData
    \/ \E data \in Tunnel :
         InnerIdentity(data) \/ SohResponse(data) \/ SentSuccess(data) \/ SentFailure(data) \/ Phase2(data)
    \/ \E code \in {"accept", "reject", "challenge"} : eappeap_postproxy(code)

PeapSpec == PeapInit /\ [][PeapNext]_peapVars

-----------------------------------------------------------------------------
\* EAP-Success comes only after the inner authentication, here or at a home
\* server, said accept last, or for a session that is resumed and that neither
\* side refused; statements of health and failed resumptions in between change
\* nothing of that.
SuccessIsEarned ==
    peap_rcode = "success" \/ peap.status = "sent_success" =>
        \/ inner.said = "accept"
        \/ peap_conf.reused /\ peap.resumption = "yes"

\* After a failure was sent into the tunnel the conversation cannot succeed.
FailureIsFinal == [][peap.status = "sent_failure" => peap_rcode' = "fail"]_peapVars

\* Phase 2 begins only when there is a user name to begin it with: eappeap_process()
\* uses t->username without a test (peap.cpp:925).
UsernameIsKnown == peap.status = "phase2" => peap.username

\* eappeap_process() as a whole: success is earned, phase 2 has a user name, and
\* nothing comes after a failure.
PeapIsSound == [](PeapTypeOK /\ SuccessIsEarned /\ UsernameIsKnown) /\ FailureIsFinal

=============================================================================
