---------------------------- MODULE TlsHandshake ----------------------------
(***************************************************************************)
(* The handshake engine on its own: an owner that calls brisk__tls13_hs_*  *)
(* in any order and with any fragmentation, as the QUIC connection does,   *)
(* against a server that may send any message at any time.                 *)
(***************************************************************************)
EXTENDS TlsEngine

CONSTANTS
    Cfgs,           \* the configurations: [quic, client]
    Hellos,         \* the ClientHellos the owner may build
    Psks,           \* the suites a PSK may be for
    Messages,       \* what the server may send
    Followers,      \* what may follow the end of another message in one call
    Caps            \* buffer sizes of pull, in units

\* The server's messages are of the kinds it may send and of at least one unit, the owner's are
\* ClientHellos, and a ServerHello without the cookie extension carries no cookie.
ServerKinds == {"SH", "EE", "CR", "CERT", "CV", "SKE", "FIN", "SHD", "NST", "KU", "HREQ"}
ASSUME HandshakeAssumption ==
    /\ \A m \in Messages : m.t \in ServerKinds /\ m.sz \in Nat \ {0}
    /\ \A m \in Messages : m.t = "SH" =>
          m.hrr \in BOOLEAN /\ ("cookie" \notin m.exts => m.cookie = "none")
    /\ \A ch \in Hellos : ch.t = "CH"
    /\ Followers \subseteq Messages /\ Caps \subseteq Nat

VARIABLES
    hs,             \* the engine, struct brisk__tls13_hs
    sent            \* history: what pull handed out, [m, queued, as] for each unit

vars == <<hs, sent>>

\* The callbacks of cfg: all accept, or one of those the message may lead to refuses.
Callbacks == {"recv", "send", "peer_tp", "ticket", "sign"}
Accepting == [c \in Callbacks |-> TRUE]
Asked(t) == CASE t = "SH" -> {"recv", "send"}
              [] t = "EE" -> {"peer_tp"}
              [] t \in {"FIN", "SHD"} -> {"recv", "send", "sign"}
              [] t = "NST" -> {"ticket"}
              [] OTHER -> {}
Envs(t) == {Accepting} \cup {[Accepting EXCEPT ![c] = FALSE] : c \in Asked(t)}

Parts(m, first, last) == [i \in 1..(last - first + 1) |-> <<m, first + i - 1>>]

\* What one call may bring: more of the message that has begun, with or without the start of
\* another, or the start of a message.
Starts == {Parts(m, 1, k) : m \in Messages, k \in 1..MAX_MSG}
Chunks(h) ==
    LET m == h.buf[h.in_base + h.in_len].m
        rest(last) == Parts(m, h.in_len + 1, last)
    IN  IF h.in_len = 0 THEN {s \in Starts : Len(s) <= s[1][1].sz}
        ELSE {rest(k) : k \in (h.in_len + 1)..m.sz}
                \cup {rest(m.sz) \o Parts(f, 1, 1) : f \in Followers}

Init ==
    /\ hs \in {hs_init(cfg) : cfg \in Cfgs}
    /\ sent = <<>>

SetPsk ==
    /\ hs.state = "START"
    /\ \E suite \in Psks : hs' = set_psk(hs, suite)
    /\ UNCHANGED sent

SetTls12Key ==
    /\ hs.state = "START"
    /\ hs' = set_tls12_key(hs)
    /\ UNCHANGED sent

ClientHello ==
    /\ \E ch \in Hellos : accepts_hello(hs, ch) /\ hs' = client_hello(hs, ch)
    /\ UNCHANGED sent

Feed ==
    /\ hs.state # "FAILED"
    /\ \E units \in Chunks(hs) : \E env \in Envs(units[1][1].t) :
          hs' = feed(hs, hs.in_epoch, units, env)
    /\ UNCHANGED sent

\* Data of another encryption level, or after the failure; what it says does not matter.
FeedElsewhere ==
    /\ \E ep \in Epochs :
          /\ ep = hs.in_epoch => hs.state = "FAILED"
          /\ hs' = feed(hs, ep, << <<CHOOSE m \in Messages : TRUE, 1>> >>, Accepting)
    /\ UNCHANGED sent

ChangeCipherSpec ==
    /\ hs' = tls12_on_ccs(hs)
    /\ UNCHANGED sent

Pull ==
    /\ hs.state # "FAILED" /\ hs.out_off # Len(hs.out)
    /\ \E cap \in Caps :
          LET p == pulled(hs, cap)
          IN  /\ hs' = pull(hs, cap)
              /\ sent' = sent \o [i \in 1..p.n |-> [m |-> p.units[i].m, queued |-> p.units[i].ep,
                                                    as |-> p.ep]]

\* The record layer reads and clears the pending KeyUpdate.
TakeKu ==
    /\ hs.ku # {}
    /\ hs' = [hs EXCEPT !.ku = {}]
    /\ UNCHANGED sent

Next ==
    \/ SetPsk
    \/ SetTls12Key
    \/ ClientHello
    \/ Feed
    \/ FeedElsewhere
    \/ ChangeCipherSpec
    \/ Pull
    \/ TakeKu

Spec == Init /\ [][Next]_vars

-----------------------------------------------------------------------------
(* Properties *)

\* The transcript s: the kinds of its messages, and the last message of a kind.
Kind(m) == IF m.t = "SH" /\ m.hrr THEN "HRR" ELSE m.t
Kinds(s) == [i \in DOMAIN s |-> Kind(s[i])]
Of(s, kind) == {i \in DOMAIN s : Kind(s[i]) = kind}
The(s, kind) == s[Max(Of(s, kind))]

Transcripts13 ==
    {hello \o <<"SH", "EE">> \o auth[1] \o <<"FIN">> \o auth[2] \o <<"C_FIN">> :
        hello \in {<<"CH">>, <<"CH", "HRR", "CH">>},
        auth \in {<< <<>>, <<>> >>, << <<"CERT", "CV">>, <<>> >>,
                  << <<"CR", "CERT", "CV">>, <<"C_CERT", "C_CV">> >>,
                  << <<"CR", "CERT", "CV">>, <<"C_EMPTY">> >>}}
Transcripts12 ==
    {<<"CH", "SH", "CERT", "SKE">> \o auth \o <<"C_FIN">> :
        auth \in {<<"SHD", "CKE">>, <<"CR", "SHD", "C_EMPTY", "CKE">>,
                  <<"CR", "SHD", "C_CERT", "CKE", "C_CV">>}}

Authenticated(h) ==
    IF h.version = "12" THEN The(h.th, "SKE").verdict = "none"
    ELSE /\ The(h.th, "FIN").mac
         /\ IF h.psk_ok THEN Of(h.th, "CERT") = {} /\ "psk" \in The(h.th, "CH").exts
            ELSE Of(h.th, "CV") # {} /\ The(h.th, "CV").verdict = "none"

Agreed(h) ==
    LET ch == The(h.th, "CH")  sh == The(h.th, "SH")  hrr == The(h.th, "HRR")
    IN  /\ h.suite = sh.suite /\ h.suite \in ch.suites
        /\ h.alpn_sel \in ch.alpn \cup {"none"}
        /\ h.version = "13" =>
              /\ sh.group = ch.group
              /\ h.psk_ok => alg(h.psk_suite) = alg(h.suite)
        /\ Of(h.th, "HRR") # {} =>
              /\ hrr.suite = h.suite
              /\ (ch.group # h.th[1].group) = ("key_share" \in hrr.exts)
              /\ "key_share" \in hrr.exts => ch.group = hrr.group
              /\ ch.cookie = hrr.cookie

NotDowngraded(h) ==
    LET ch == The(h.th, "CH")  sh == The(h.th, "SH")
    IN  h.version = "12" => /\ ~sh.sentinel /\ ch.tls12 /\ ~h.cfg.quic
                            /\ {"ems", "reneg"} \subseteq sh.exts \cap ch.exts

Sound(h) ==
    /\ Kinds(h.th) \in (IF h.version = "12" THEN Transcripts12 ELSE Transcripts13)
    /\ Of(h.th, "C_CERT") # {} => h.cfg.client # "none"
    /\ Authenticated(h) /\ Agreed(h) /\ NotDowngraded(h)

\* Whatever the server sends in whatever fragments, the engine reports CONNECTED only after one
\* of the handshakes of RFC 9846 and RFC 5246, with the server authenticated (handshake.c
\* hs_on_cv and hs_on_fin, tls12.c t12_on_ske), every parameter taken from the last ClientHello
\* and from the HelloRetryRequest before it, and TLS 1.2 only when nothing pointed to 1.3.
ConnectedSound == hs.state = "CONNECTED" => Sound(hs)

\* Every secret is bound to the part of the transcript RFC 9846 7.1 names, and handed over in the
\* order the record layer relies on: in TLS 1.3 receive before send, over the ServerHello and then
\* over the server's Finished; in TLS 1.2 send before receive, over the ClientKeyExchange.
Handover(s) ==
    IF Of(s, "CKE") # {} THEN << <<APP, "send", "CKE">>, <<APP, "recv", "CKE">> >>
    ELSE << <<HANDSHAKE, "recv", "SH">>, <<HANDSHAKE, "send", "SH">>,
            <<APP, "recv", "FIN">>, <<APP, "send", "FIN">> >>
Holds(h, epoch, dir) ==
    \E i \in DOMAIN h.exports : h.exports[i][1] = epoch /\ h.exports[i][2] = dir
HandedInOrder(h) ==
    /\ Len(h.exports) <= Len(Handover(h.th))
    /\ \A i \in DOMAIN h.exports :
          /\ h.exports[i][3] \in DOMAIN h.th
          /\ <<h.exports[i][1], h.exports[i][2], Kind(h.th[h.exports[i][3]])>> = Handover(h.th)[i]
KeysBoundToTranscript(h) ==
    /\ HandedInOrder(h)
    /\ h.state # "FAILED" /\ h.in_epoch # INITIAL => Holds(h, h.in_epoch, "recv")

\* The parsed certificates point into the Certificate message (handshake.c:856), so until the
\* signature is checked no later message may be written over it.
CertsStayInBuffer(h) ==
    h.n_certs # 0 =>
        LET m == The(h.th, "CERT")
        IN  \A k \in 1..m.sz : h.buf[k].m = m /\ h.buf[k].k = k

\* No message spans a key change (RFC 9846 5.1): the bytes of a message that has begun all came
\* under the keys that are in use.
NoMessageSpansKeyChange(h) ==
    h.state # "FAILED" =>
        \A k \in 1..h.in_len : h.buf[h.in_base + k].ep = h.in_epoch

\* The units of the client's messages in the transcript s.
OwnKinds == {"CH", "CKE", "C_CERT", "C_EMPTY", "C_CV", "C_FIN"}
UnitsOf(m) == IF m.t \in OwnKinds THEN [i \in 1..out_size(m) |-> m.t] ELSE <<>>
OwnUnits(s) ==
    LET upto[i \in 0..Len(s)] == IF i = 0 THEN <<>> ELSE upto[i - 1] \o UnitsOf(s[i])
    IN  upto[Len(s)]
Names(s) == [i \in DOMAIN s |-> s[i].m]
Pending(h) == SubSeq(h.out, h.out_off + 1, Len(h.out))
SentAs(h, queued) ==
    IF queued = INITIAL THEN INITIAL ELSE IF Of(h.th, "CKE") # {} THEN APP ELSE HANDSHAKE

\* The client's messages leave in the order of the transcript, none lost and none twice, each
\* under the keys it was queued for (handshake.c:1721: a TLS 1.2 Finished under the APP keys) and
\* never before their owner has those keys.
FlightInOrder ==
    /\ hs.state # "FAILED" => Names(sent) \o Names(Pending(hs)) = OwnUnits(hs.th)
    /\ \A i \in DOMAIN sent :
          /\ sent[i].as = SentAs(hs, sent[i].queued)
          /\ sent[i].as # INITIAL => Holds(hs, sent[i].as, "send")

\* A secret lives no longer than the step that needs it: the private keys end with the key
\* agreement or the retry, a PSK with the ServerHello, the handshake secrets with CONNECTED, and
\* everything, the queued output too, with a failure (handshake.c hs_wipe_secrets).
SecretsWiped(h) ==
    /\ h.state = "FAILED" => h.secrets = {} /\ h.out = <<>>
    /\ h.state = "CONNECTED" => h.secrets \subseteq {"exp", "res"}
    /\ h.state = "WAIT_CH2" => h.secrets \cap {"priv", "p256"} = {}
    /\ h.state \in States \ {"START", "WAIT_SH", "WAIT_CH2"} => "psk" \notin h.secrets
    /\ Of(h.th, "SKE") # {} \/ h.version = "13" => h.secrets \cap {"priv", "p256"} = {}
    /\ "psk" \in h.secrets /\ h.state = "WAIT_SH" => "psk" \in The(h.th, "CH").exts

\* Secrets cover the transcript the RFC says, and none outlives its use.
SecretsInStep == KeysBoundToTranscript(hs) /\ SecretsWiped(hs)

\* Reassembly neither mixes what two keys protected nor overwrites what is still pointed at.
ReassemblySound == NoMessageSpansKeyChange(hs) /\ CertsStayInBuffer(hs)
=============================================================================
