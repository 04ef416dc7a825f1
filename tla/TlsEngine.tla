----------------------------- MODULE TlsEngine -----------------------------
(***************************************************************************)
(* The client handshake engine, tls/handshake.c for TLS 1.3 and tls12.c    *)
(* for TLS 1.2, as operators from one value of the struct brisk__tls13_hs  *)
(* to the next.  TlsHandshake drives it alone, as QUIC does, and TlsConn   *)
(* through the record layer.                                               *)
(*                                                                         *)
(* A message is a record of what the handlers look at: t its type, sz the  *)
(* units it takes in the buffer (the first holds the header), flaw the one *)
(* thing that is wrong with its encoding.  Bytes are cells, [m, k] being   *)
(* unit k of message m.  Cryptography is its verdict: a signature or a MAC *)
(* is good or not, a secret is live or wiped.  A refusal is a list of      *)
(* conditions in the order of the code, each with its alert.               *)
(*                                                                         *)
(* Name_variant(...) is a copy of Name with one mistake, never used by the *)
(* specifications: PROJECT.json says which property notices it.            *)
(***************************************************************************)
EXTENDS Integers, FiniteSets, SequencesExt

CONSTANTS
    OUT_MAX,        \* BRISK__TLS13_OUT_MAX, in units
    MAX_MSG,        \* BRISK_TLS_MAX_HS_MSG with its header
    IN_CAP          \* HS_IN_CAP

ASSUME EngineAssumption ==
    /\ OUT_MAX \in Nat /\ MAX_MSG \in Nat /\ IN_CAP \in Nat /\ IN_CAP > MAX_MSG

INITIAL   == 0              \* the epochs, RFC 9001's encryption levels
HANDSHAKE == 2
APP       == 3
Epochs    == {INITIAL, HANDSHAKE, APP}

Suites13 == {"chacha13", "aes256_13"}
Suites12 == {"ecdsa12", "rsa12"}
alg(suite) == IF suite = "aes256_13" THEN "sha384" ELSE "sha256"
ShareGroups == {"x25519", "p256"}

\* EXT_TABLE, as much of it as the messages here use: where an extension may stand.
Where ==
    [server_name |-> {"EE", "CR"}, groups |-> {"EE"}, sigs |-> {"CR"}, alpn |-> {"EE"},
     psk |-> {"SH"}, early_data |-> {"EE", "NST"}, versions |-> {"SH", "HRR"},
     cookie |-> {"HRR"}, psk_modes |-> {}, key_share |-> {"SH", "HRR"}, rsl |-> {"EE"},
     quic_tp |-> {"EE"}]
CH_ALLOWED == (DOMAIN Where \ {"early_data"}) \cup {"ems", "reneg"}
SH12_EXT == {"reneg", "ems", "alpn", "server_name"}

ServerStates13 == {"WAIT_SH", "WAIT_EE", "WAIT_CERT_CR", "WAIT_CERT", "WAIT_CV", "WAIT_FIN"}
ServerStates12 == {"WAIT12_CERT", "WAIT12_SKE", "WAIT12_CR_SHD", "WAIT12_SHD", "WAIT12_CCS",
                   "WAIT12_FIN"}
States == ServerStates13 \cup ServerStates12 \cup {"START", "WAIT_CH2", "CONNECTED", "FAILED"}

NoOffer == [exts |-> {}, suites |-> {}, groups |-> {}, alpn |-> {}]

\* cfg.quic, and the client's certificate: "none", or one with a "key" or a "sign" callback.
hs_init(cfg) ==
    [cfg |-> cfg, state |-> "START", alert |-> "none", err |-> "OK", version |-> "none", suite |-> "none",
     in_epoch |-> INITIAL, hrr_seen |-> FALSE, hrr_group |-> "none", cookie |-> "none",
     cr_seen |-> FALSE, cr_sig_ok |-> FALSE, cr_send |-> FALSE,
     psk_suite |-> "none", psk_len |-> 0, psk_offered |-> FALSE, psk_ok |-> FALSE,
     tls12_offered |-> FALSE, offer |-> NoOffer, share_group |-> "none", session_id |-> FALSE,
     peer_rsl |-> FALSE, alpn_sel |-> "none", ku |-> {}, secrets |-> {},
     buf |-> <<>>, in_base |-> 0, in_len |-> 0, n_certs |-> 0,
     out |-> <<>>, out_off |-> 0, out_split |-> 0,
     th |-> <<>>, exports |-> <<>>]

-----------------------------------------------------------------------------
(* Refusal and output *)

\* A refusal is the first alert that is raised.
When(broken, alert) == IF broken THEN alert ELSE "none"
FirstAlert(alerts) ==
    LET raised == {i \in DOMAIN alerts : alerts[i] # "none"}
    IN  IF raised = {} THEN "none" ELSE alerts[CHOOSE i \in raised : \A j \in raised : i <= j]

err_of(alert) ==
    CASE alert \in {"bad_certificate", "unsupported_certificate", "unknown_ca", "decrypt_error"}
             -> "E_AUTH"
      [] alert = "internal_error" -> "E_ARG"
      [] OTHER -> "E_PROTO"

hs_wipe_secrets(s) == s \cap {"exp", "res"}

\* Failure is final: every secret is wiped and the queued output dropped.
fail(h, alert) ==
    [h EXCEPT !.state = "FAILED", !.alert = alert, !.err = err_of(alert),
              !.secrets = hs_wipe_secrets(@) \ {"exp", "res"},
              !.out = <<>>, !.out_off = 0, !.out_split = 0, !.n_certs = 0, !.buf = <<>>]
tls12_insecure(h, alert) == [fail(h, alert) EXCEPT !.err = "E_INSECURE"]

th_add(h, m) == [h EXCEPT !.th = Append(@, m)]

\* What the client sends, and the room it takes in the queue.
Flight(t) == [t |-> t]
out_size(m) == IF m.t \in {"CH", "C_CERT"} THEN 2 ELSE 1
Units(m, epoch) == [i \in 1..out_size(m) |-> [m |-> m.t, ep |-> epoch]]
fits(h, n) == n <= OUT_MAX - Len(h.out)

\* The queue is a run at INITIAL up to out_split and a run of the next epoch.
queue_nosplit(h, epoch, m) == [th_add(h, m) EXCEPT !.out = @ \o Units(m, epoch)]
queue(h, epoch, m) ==
    [th_add(h, m) EXCEPT
        !.out = @ \o Units(m, epoch),
        !.out_split = IF epoch = INITIAL THEN Len(h.out) + out_size(m) ELSE @]

exported_late(h, n, epoch, first, second, env) ==
    LET give(g, dir) == [g EXCEPT !.exports = Append(@, <<epoch, dir, Len(g.th)>>)]
    IN  CASE ~env[first] -> fail(h, "internal_error")
          [] env[first] /\ ~env[second] -> fail(give(h, first), "internal_error")
          [] env[first] /\ env[second] -> give(give(h, first), second)

\* Two secrets over the first n messages of the transcript are handed to the owner, who may
\* refuse.
exported(h, n, epoch, first, second, env) ==
    LET give(g, dir) == [g EXCEPT !.exports = Append(@, <<epoch, dir, n>>)]
    IN  CASE ~env[first] -> fail(h, "internal_error")
          [] env[first] /\ ~env[second] -> fail(give(h, first), "internal_error")
          [] env[first] /\ env[second] -> give(give(h, first), second)

\* Extensions the server sent: none twice, all offered, each in its place.
ext_rules(h, m, where) ==
    LET known == {x \in m.exts : x \in DOMAIN Where}
        asked == h.offer.exts \cup (IF where = "HRR" THEN {"cookie"} ELSE {})
    IN  << When(m.flaw = "ext_twice", "illegal_parameter"),
           When(where # "CR" /\ ~(m.exts \subseteq asked), "unsupported_extension"),
           When(\E x \in known : where \notin Where[x], "illegal_parameter"),
           When(where # "CR" /\ known # m.exts, "illegal_parameter") >>
ext_check(h, m, where) == FirstAlert(ext_rules(h, m, where))

alpn_check(h, m) ==
    CASE "alpn" \notin m.exts -> "none"
      [] m.flaw = "alpn" -> "decode_error"
      [] m.alpn \notin h.offer.alpn ->
            IF h.cfg.quic THEN "no_application_protocol" ELSE "illegal_parameter"
      [] OTHER -> "none"

-----------------------------------------------------------------------------
(* ServerHello and HelloRetryRequest *)

hrr_rules(h, m) ==
    LET ks == "key_share" \in m.exts
        ck == "cookie" \in m.exts
    IN  << When(ks /\ (m.group \notin h.offer.groups \/ m.group = h.share_group),
                "illegal_parameter"),
           When(ks /\ m.group \notin ShareGroups, "handshake_failure"),
           When(ck /\ m.flaw = "cookie", "decode_error"),
           When(ck /\ m.flaw = "cookie_long", "illegal_parameter"),
           When(~ks /\ ~ck, "illegal_parameter") >>
hs_on_hrr(h, m) ==
    LET alert == FirstAlert(hrr_rules(h, m))
    IN  IF alert # "none" THEN fail(h, alert)
        ELSE [th_add(h, m) EXCEPT
                !.suite = m.suite, !.secrets = @ \ {"priv", "p256"},
                !.hrr_group = IF "key_share" \in m.exts THEN m.group ELSE "none",
                !.cookie = IF "cookie" \in m.exts THEN m.cookie ELSE "none",
                !.hrr_seen = TRUE, !.state = "WAIT_CH2"]

\* A ServerHello of TLS 1.2, whose random carries no downgrade sentinel.
sh12_rules(h, m) ==
    << When(m.hrr \/ h.hrr_seen, "illegal_parameter"),
       When(m.suite \notin Suites12 \cap h.offer.suites \/ m.flaw = "compression",
            "illegal_parameter"),
       When(h.session_id /\ m.sid_echo, "illegal_parameter"),
       When(~(m.exts \subseteq SH12_EXT \cap h.offer.exts), "unsupported_extension"),
       When(m.flaw = "ext_twice", "decode_error"),
       When(m.flaw = "renegotiated", "handshake_failure"),
       alpn_check(h, m) >>
tls12_on_sh(h, m) ==
    LET alert == FirstAlert(sh12_rules(h, m))
    IN  IF m.flaw = "version_old" THEN tls12_insecure(h, "protocol_version")
        ELSE IF m.flaw = "version_new" THEN fail(h, "protocol_version")
        ELSE IF alert # "none" THEN fail(h, alert)
        ELSE IF ~({"ems", "reneg"} \subseteq m.exts) THEN tls12_insecure(h, "handshake_failure")
        ELSE [th_add(h, m) EXCEPT
                !.alpn_sel = IF "alpn" \in m.exts THEN m.alpn ELSE @,
                !.secrets = @ \ {"psk"}, !.psk_len = 0,
                !.version = "12", !.suite = m.suite, !.state = "WAIT12_CERT"]

\* The handshake secrets, from the key share and the PSK if it was selected.
sh_keys(h, m, env) ==
    LET n == Len(h.th) + 1
        g == [th_add(h, m) EXCEPT
                !.suite = m.suite, !.version = "13", !.psk_ok = "psk" \in m.exts,
                !.secrets = (@ \ {"priv", "p256", "psk"}) \cup {"ks", "c_hs", "s_hs"}]
        e == exported(g, n, HANDSHAKE, "recv", "send", env)
    IN  IF m.flaw = "point" THEN fail([h EXCEPT !.version = "13"], "illegal_parameter")
        ELSE IF e.state = "FAILED" THEN e
        ELSE [e EXCEPT !.in_epoch = HANDSHAKE, !.state = "WAIT_EE"]

sh13_rules(h, m) ==
    << When(m.version = "other", "illegal_parameter"),
       When(m.flaw \in {"version_old", "version_new"}, "protocol_version"),
       When(~m.sid_echo, "illegal_parameter"),
       When(m.suite \notin Suites13 \cap h.offer.suites, "illegal_parameter"),
       When(h.hrr_seen /\ m.suite # h.suite, "illegal_parameter"),
       When(m.flaw = "compression", "illegal_parameter"),
       ext_check(h, m, IF m.hrr THEN "HRR" ELSE "SH") >>
psk_rules(h, m) ==
    LET psk == "psk" \in m.exts
    IN  << When(psk /\ m.flaw = "psk_len", "decode_error"),
           When(psk /\ (m.flaw = "psk_id" \/ alg(m.suite) # alg(h.psk_suite)
                       \/ "key_share" \notin m.exts), "illegal_parameter"),
           When("key_share" \notin m.exts, "missing_extension"),
           When(m.flaw = "share", "decode_error"),
           When(m.group # h.share_group \/ m.group \notin ShareGroups, "illegal_parameter") >>

hs_on_sh(h, m, env) ==
    LET alert == FirstAlert(sh13_rules(h, m))
        more  == FirstAlert(psk_rules(h, m))
    IN  IF m.flaw = "malformed" THEN fail(h, "decode_error")
        ELSE IF m.hrr /\ h.hrr_seen THEN fail(h, "unexpected_message")
        ELSE IF m.version = "absent" THEN
            IF m.sentinel THEN fail(h, "illegal_parameter")
            ELSE IF h.tls12_offered THEN tls12_on_sh(h, m)
            ELSE fail(h, "protocol_version")
        ELSE IF alert # "none" THEN fail(h, alert)
        ELSE IF m.hrr THEN hs_on_hrr(h, m)
        ELSE IF more # "none" THEN fail(h, more)
        ELSE sh_keys(h, m, env)

-----------------------------------------------------------------------------
(* The rest of the TLS 1.3 handshake *)

ee_rules(h, m, env) ==
    << When(m.flaw = "malformed", "decode_error"),
       ext_check(h, m, "EE"),
       When(m.flaw = "data", "decode_error"),
       When("rsl" \in m.exts /\ m.flaw = "rsl", "illegal_parameter"),
       alpn_check(h, m),
       When(h.cfg.quic /\ "quic_tp" \notin m.exts, "missing_extension"),
       When(h.cfg.quic /\ "alpn" \notin m.exts, "no_application_protocol"),
       When("quic_tp" \in m.exts /\ ~env.peer_tp, "internal_error") >>
hs_on_ee(h, m, env) ==
    LET alert == FirstAlert(ee_rules(h, m, env))
    IN  IF alert # "none" THEN fail(h, alert)
        ELSE [th_add(h, m) EXCEPT
                !.peer_rsl = "rsl" \in m.exts,
                !.alpn_sel = IF "alpn" \in m.exts THEN m.alpn ELSE "none",
                !.state = IF h.psk_ok THEN "WAIT_FIN" ELSE "WAIT_CERT_CR"]

hs_on_cr(h, m) ==
    LET alert == FirstAlert(
         << When(m.flaw = "malformed", "decode_error"),
            When(m.flaw = "context", "illegal_parameter"),
            ext_check(h, m, "CR"),
            When("sigs" \notin m.exts, "missing_extension"),
            When(m.flaw = "sigs", "decode_error") >>)
    IN  IF alert # "none" THEN fail(h, alert)
        ELSE [th_add(h, m) EXCEPT !.cr_sig_ok = @ \/ m.ecdsa, !.cr_seen = TRUE,
                                  !.state = "WAIT_CERT"]

\* The parsed certificates point into the message, which stays in the buffer below in_base.
keep_certs(h, m, state) ==
    [th_add(h, m) EXCEPT !.n_certs = 1, !.in_base = m.sz, !.state = state]

hs_on_cert(h, m) ==
    LET alert == FirstAlert(
         << When(m.flaw = "malformed", "decode_error"),
            When(m.flaw = "context", "illegal_parameter"),
            When(m.flaw = "empty", "decode_error"),
            When(m.flaw = "entry_ext", "unsupported_extension"),
            When(m.flaw \in {"too_many", "x509"}, "bad_certificate") >>)
    IN  IF alert # "none" THEN fail(h, alert) ELSE keep_certs(h, m, "WAIT_CV")

\* m.verdict is what the authenticator says of chain, host and signature.
verify_rules_trusting(h, m) ==
    << When(m.flaw = "malformed", "decode_error"),
       When(m.flaw = "scheme", "illegal_parameter") >>
verify_rules(h, m) ==
    << When(m.flaw = "malformed", "decode_error"),
       When(m.flaw = "scheme", "illegal_parameter"),
       m.verdict >>

hs_on_cv(h, m) ==
    LET alert == FirstAlert(verify_rules(h, m))
    IN  IF alert # "none" THEN fail(h, alert)
        ELSE [th_add(h, m) EXCEPT !.n_certs = 0, !.in_base = 0, !.state = "WAIT_FIN"]

\* The answer to a CertificateRequest.
signs(h) == h.cr_seen /\ h.cfg.client # "none" /\ h.cr_sig_ok
hs_client_auth(h) ==
    IF signs(h) THEN queue(queue(h, HANDSHAKE, Flight("C_CERT")), HANDSHAKE, Flight("C_CV"))
    ELSE queue(h, HANDSHAKE, Flight("C_EMPTY"))

fin_keys(h, m, env) ==
    LET n      == Len(h.th) + 1
        heard  == th_add(h, m)
        flight == queue(IF h.cr_seen THEN hs_client_auth(heard) ELSE heard, HANDSHAKE, Flight("C_FIN"))
        e      == exported([flight EXCEPT !.secrets = @ \cup {"exp", "res"}], n, APP, "recv", "send", env)
    IN  IF Len(flight.out) > OUT_MAX \/ (signs(h) /\ ~env.sign) THEN fail(h, "internal_error")
        ELSE IF e.state = "FAILED" THEN e
        ELSE [e EXCEPT !.secrets = hs_wipe_secrets(@), !.in_epoch = APP, !.state = "CONNECTED"]

hs_on_fin(h, m, env) ==
    IF m.flaw = "malformed" THEN fail(h, "decode_error")
    ELSE IF ~m.mac THEN fail(h, "decrypt_error")
    ELSE fin_keys(h, m, env)

\* After the handshake: a ticket goes to its callback, a KeyUpdate to the record layer.
hs_on_nst(h, m, env) ==
    LET alert == FirstAlert(
         << When(m.flaw = "malformed", "decode_error"),
            When(m.flaw = "ext_twice" \/ \E x \in m.exts : x \in DOMAIN Where /\ "NST" \notin Where[x],
                "illegal_parameter"),
            When(h.cfg.quic /\ m.flaw = "early_data", "quic_protocol_violation"),
            When(~env.ticket, "internal_error") >>)
    IN  IF alert # "none" THEN fail(h, alert) ELSE h

hs_on_ku(h, m) ==
    LET alert == FirstAlert(
         << When(h.cfg.quic, "unexpected_message"),
            When(m.flaw = "malformed", "decode_error"),
            When(m.flaw = "request", "illegal_parameter") >>)
    IN  IF alert # "none" THEN fail(h, alert)
        ELSE [h EXCEPT !.ku = @ \cup {"rotate"} \cup (IF m.requested THEN {"reply"} ELSE {})]

-----------------------------------------------------------------------------
(* TLS 1.2 *)

t12_on_cert(h, m) ==
    LET alert == FirstAlert(
         << When(m.flaw \in {"malformed", "empty"}, "decode_error"),
            When(m.flaw \in {"too_many", "x509"}, "bad_certificate"),
            When(m.key # (IF h.suite = "ecdsa12" THEN "ec" ELSE "rsa"), "unsupported_certificate") >>)
    IN  IF alert # "none" THEN fail(h, alert) ELSE keep_certs(h, m, "WAIT12_SKE")

\* The signature is verified before the point is used; then both private keys die.
ske_rules(h, m) ==
    << When(m.flaw = "malformed", "decode_error"),
       When(m.group \notin ShareGroups \cap h.offer.groups, "illegal_parameter"),
       When(m.flaw \in {"point_len", "scheme"}, "illegal_parameter"),
       m.verdict,
       When(m.flaw = "point", "illegal_parameter") >>
t12_on_ske(h, m) ==
    LET alert == FirstAlert(ske_rules(h, m))
    IN  IF alert # "none" THEN fail(h, alert)
        ELSE [th_add(h, m) EXCEPT !.secrets = (@ \ {"priv", "p256"}) \cup {"main"},
                                  !.n_certs = 0, !.in_base = 0, !.state = "WAIT12_CR_SHD"]

t12_on_cr(h, m) ==
    IF m.flaw = "malformed" THEN fail(h, "decode_error")
    ELSE [th_add(h, m) EXCEPT !.cr_sig_ok = @ \/ m.ecdsa, !.cr_send = m.ecdsa_sign,
                              !.cr_seen = TRUE, !.state = "WAIT12_SHD"]

\* The answer to ServerHelloDone: the flight in the clear, the keys, and the Finished under them.
t12_on_shd(h, m, env) ==
    LET send   == signs(h) /\ h.cr_send
        heard  == th_add(h, m)
        cert   == IF ~h.cr_seen THEN heard
                  ELSE queue(heard, INITIAL, IF send THEN Flight("C_CERT") ELSE Flight("C_EMPTY"))
        kx     == queue(cert, INITIAL, Flight("CKE"))
        clear  == IF send THEN queue(kx, INITIAL, Flight("C_CV")) ELSE kx
        flight == queue(clear, HANDSHAKE, Flight("C_FIN"))
        e      == exported(flight, Len(kx.th), APP, "send", "recv", env)
    IN  IF m.flaw = "malformed" THEN fail(h, "decode_error")
        ELSE IF send /\ h.cfg.client = "sign" THEN fail(h, "internal_error")
        ELSE IF Len(flight.out) > OUT_MAX \/ (send /\ ~env.sign) THEN fail(h, "internal_error")
        ELSE IF e.state = "FAILED" THEN e
        ELSE [e EXCEPT !.state = "WAIT12_CCS"]

t12_on_fin(h, m) ==
    IF m.flaw = "malformed" THEN fail(h, "decode_error")
    ELSE IF ~m.mac THEN fail(h, "decrypt_error")
    ELSE [h EXCEPT !.secrets = @ \ {"main"}, !.state = "CONNECTED"]

\* A HelloRequest is never hashed and, before CONNECTED, ignored.
t12_on_hreq(h, m) ==
    IF m.flaw = "malformed" THEN fail(h, "decode_error")
    ELSE IF h.state = "CONNECTED" THEN [h EXCEPT !.ku = @ \cup {"hr"}]
    ELSE h

t12_dispatch(h, m, env) ==
    CASE m.t = "HREQ"                                              -> t12_on_hreq(h, m)
      [] m.t = "CERT" /\ h.state = "WAIT12_CERT"                   -> t12_on_cert(h, m)
      [] m.t = "SKE"  /\ h.state = "WAIT12_SKE"                    -> t12_on_ske(h, m)
      [] m.t = "CR"   /\ h.state = "WAIT12_CR_SHD"                 -> t12_on_cr(h, m)
      [] m.t = "SHD"  /\ h.state \in {"WAIT12_CR_SHD", "WAIT12_SHD"} -> t12_on_shd(h, m, env)
      [] m.t = "FIN"  /\ h.state = "WAIT12_FIN"                    -> t12_on_fin(h, m)
      [] OTHER -> fail(h, "unexpected_message")

\* The server's ChangeCipherSpec, which the record layer reports.
tls12_on_ccs(h) ==
    IF h.state = "FAILED" THEN h
    ELSE IF h.version # "12" \/ h.state # "WAIT12_CCS" \/ h.in_len # 0
         THEN fail(h, "unexpected_message")
    ELSE [h EXCEPT !.state = "WAIT12_FIN", !.in_epoch = APP]

-----------------------------------------------------------------------------
(* Reassembly *)

t13_dispatch(h, m, env) ==
    CASE m.t = "SH"   /\ h.state = "WAIT_SH"                      -> hs_on_sh(h, m, env)
      [] m.t = "EE"   /\ h.state = "WAIT_EE"                      -> hs_on_ee(h, m, env)
      [] m.t = "CR"   /\ h.state = "WAIT_CERT_CR"                 -> hs_on_cr(h, m)
      [] m.t = "CERT" /\ h.state \in {"WAIT_CERT_CR", "WAIT_CERT"} -> hs_on_cert(h, m)
      [] m.t = "CV"   /\ h.state = "WAIT_CV"                      -> hs_on_cv(h, m)
      [] m.t = "FIN"  /\ h.state = "WAIT_FIN"                     -> hs_on_fin(h, m, env)
      [] m.t = "NST"  /\ h.state = "CONNECTED"                    -> hs_on_nst(h, m, env)
      [] m.t = "KU"   /\ h.state = "CONNECTED"                    -> hs_on_ku(h, m)
      [] OTHER -> fail(h, "unexpected_message")

dispatch(h, m, env) ==
    IF h.version = "12" THEN t12_dispatch(h, m, env) ELSE t13_dispatch(h, m, env)

\* Nothing may follow a message that precedes a key change, or a HelloRetryRequest.
crosses_ku(h, ep, m) == h.state = "WAIT_CH2" \/ (h.state = "CONNECTED" /\ m.t = "KU")
crosses(h, ep, m) == h.in_epoch # ep \/ crosses_ku(h, ep, m)
boundary(h, ep) ==
    fail(h, IF h.cfg.quic /\ h.in_epoch # ep THEN "quic_protocol_violation"
            ELSE "unexpected_message")

\* Unit k of m arrives at ep: it is stored behind in_base, and a whole message dispatched.
take(h, ep, m, k, more, env) ==
    LET stored == [h EXCEPT !.buf = Append(SubSeq(@, 1, h.in_base + h.in_len),
                                           [m |-> m, k |-> k, ep |-> ep]),
                            !.in_len = @ + 1]
        done   == dispatch([stored EXCEPT !.in_len = 0], m, env)
        kept   == [done EXCEPT !.buf = IF done.n_certs = 0 /\ done.in_base = 0 THEN <<>> ELSE @]
    IN  IF k = 1 /\ (m.sz > MAX_MSG \/ m.sz > IN_CAP - h.in_base)
        THEN fail(stored, "illegal_parameter")
        ELSE IF k < m.sz THEN stored
        ELSE IF kept.state # "FAILED" /\ more /\ crosses(kept, ep, m) THEN boundary(kept, ep)
        ELSE kept

\* units is what one call brings: a sequence of <<message, unit>>, which the loop takes one by one.
hs_turn(h, ep, units, i, env) ==
    IF h.state = "FAILED" THEN h
    ELSE take(h, ep, units[i][1], units[i][2], i < Len(units), env)
hs_turns(h, ep, units, env) ==
    LET after[i \in 0..Len(units)] ==
            IF i = 0 THEN h ELSE hs_turn(after[i - 1], ep, units, i, env)
    IN  after[Len(units)]
feed(h, ep, units, env) ==
    IF h.state = "FAILED" \/ Len(units) = 0 THEN h
    ELSE IF ep # h.in_epoch \/ h.state \in {"START", "WAIT_CH2"} THEN boundary(h, ep)
    ELSE hs_turns(h, ep, units, env)

-----------------------------------------------------------------------------
(* The owner's calls *)

\* What pull hands out: up to cap units of one epoch.
pulled(h, cap) ==
    LET clear == h.out_off < h.out_split
        avail == (IF clear THEN h.out_split ELSE Len(h.out)) - h.out_off
        n     == IF avail < cap THEN avail ELSE cap
    IN  [n |-> n, units |-> SubSeq(h.out, h.out_off + 1, h.out_off + n),
         ep |-> IF clear THEN INITIAL ELSE IF h.version = "12" THEN APP ELSE HANDSHAKE]
pull(h, cap) ==
    LET off == h.out_off + pulled(h, cap).n
    IN  IF off = Len(h.out) THEN [h EXCEPT !.out = <<>>, !.out_off = 0, !.out_split = 0]
        ELSE [h EXCEPT !.out_off = off]

set_psk(h, suite) ==
    [h EXCEPT !.psk_suite = suite, !.psk_len = 1, !.secrets = @ \cup {"psk"}]
set_tls12_key(h) == [h EXCEPT !.secrets = @ \cup {"p256"}]

\* A ClientHello built by the caller must be one this engine can finish.
parse_ch(h, ch) ==
    /\ {"versions", "key_share", "sigs", "groups"} \subseteq ch.exts /\ ch.exts \subseteq CH_ALLOWED
    /\ ch.group \in ShareGroups \cap ch.groups
    /\ ch.suites # {} /\ ch.suites \subseteq Suites13 \cup Suites12
    /\ ch.suites \cap Suites12 # {} => ch.tls12 /\ ~h.cfg.quic
    /\ h.cfg.quic = ("quic_tp" \in ch.exts)
    /\ h.cfg.quic => ~ch.sid /\ "alpn" \in ch.exts
    /\ "psk" \in ch.exts => "psk_modes" \in ch.exts
    /\ ("cookie" \in ch.exts) = (ch.cookie # "none")

\* The second one repeats the first but for what the HelloRetryRequest asked.
matches_hrr(h, ch) ==
    /\ ch.sid = h.session_id /\ h.suite \in ch.suites
    /\ ch.group = IF h.hrr_group # "none" THEN h.hrr_group ELSE h.share_group
    /\ ch.cookie = h.cookie

\* A PSK goes out only with a suite of its hash, and after an HRR only if that suite has it.
psk_fits(h, ch) ==
    LET hash == alg(h.psk_suite)
    IN  IF "psk" \in ch.exts
        THEN /\ h.psk_len # 0 /\ \E s \in ch.suites : alg(s) = hash
             /\ h.state = "WAIT_CH2" => alg(h.suite) = hash
        ELSE ~(h.state = "WAIT_CH2" /\ h.psk_offered /\ alg(h.suite) = hash)

accepts_hello(h, ch) ==
    /\ h.state \in {"START", "WAIT_CH2"} /\ parse_ch(h, ch) /\ fits(h, out_size(ch))
    /\ IF h.state = "START" THEN ch.cookie = "none" ELSE matches_hrr(h, ch)
    /\ psk_fits(h, ch)

client_hello(h, ch) ==
    LET psk == "psk" \in ch.exts
    IN  [queue(h, INITIAL, ch) EXCEPT
           !.session_id = ch.sid, !.share_group = ch.group, !.psk_offered = psk,
           !.psk_len = IF psk THEN @ ELSE 0,
           !.secrets = (IF psk THEN @ ELSE @ \ {"psk"}) \cup {"priv"},
           !.tls12_offered = ch.tls12 /\ ch.suites \cap Suites12 # {},
           !.offer = [exts |-> ch.exts, suites |-> ch.suites, groups |-> ch.groups,
                      alpn |-> ch.alpn],
           !.state = "WAIT_SH"]

=============================================================================
