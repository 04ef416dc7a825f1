--------------------------- MODULE MCTlsHandshake ---------------------------
(***************************************************************************)
(* Three configurations, the ClientHellos of tests/test_tls13_hs.c in      *)
(* small, and a server that sends good messages, whole and in fragments,   *)
(* and each refused one at least once.  The good ones take several units,  *)
(* the refused ones one.                                                   *)
(***************************************************************************)
EXTENDS TlsHandshake, MCTlsMessages

MCCfgs == {[quic |-> FALSE, client |-> "none"], [quic |-> FALSE, client |-> "key"],
           [quic |-> TRUE, client |-> "none"]}

Psk == {"psk", "psk_modes"}
MCHellos ==
    {CH({"chacha13", "aes256_13", "ecdsa12"}, Base13 \cup {"ems", "reneg"}, g, c, TRUE, TRUE)
        : g \in {"x25519", "p256"}, c \in {"none", "c1", "c2"}}
    \cup {CH({"chacha13", "aes256_13"}, Base13 \cup Psk \cup {"rsl"}, g, c, FALSE, TRUE)
        : g \in {"x25519", "p256"}, c \in {"none", "c1"}}
    \cup {CH({"chacha13", "aes256_13"}, Base13 \cup {"rsl"}, g, c, FALSE, TRUE)
        : g \in {"x25519", "p256"}, c \in {"c1"}}
    \cup {CH({"chacha13"}, Base13 \cup {"quic_tp"}, g, "none", FALSE, FALSE)
        : g \in {"x25519", "p256"}}

ServerHellos ==
    {SH, HRR, SH12, [One EXCEPT !.suite = "aes256_13"], [One EXCEPT !.group = "p256"],
     [One EXCEPT !.exts = {"versions"}], [One EXCEPT !.exts = @ \cup {"psk"}],
     [One EXCEPT !.exts = @ \cup {"psk"}, !.suite = "aes256_13"],
     [One EXCEPT !.version = "other"], [One EXCEPT !.sid_echo = FALSE],
     [One EXCEPT !.hrr = TRUE], [One EXCEPT !.hrr = TRUE, !.exts = {"versions"}],
     [One EXCEPT !.hrr = TRUE, !.exts = {"versions", "cookie"}, !.cookie = "c1"],
     [SH12 EXCEPT !.sentinel = TRUE, !.sz = 1], [SH12 EXCEPT !.exts = {"ems"}, !.sz = 1],
     [SH12 EXCEPT !.exts = @ \cup {"alpn"}, !.alpn = "h2", !.sz = 1],
     [SH12 EXCEPT !.hrr = TRUE, !.sz = 1]}
    \cup Flaws(SH, {"malformed", "share", "point", "ext_twice", "version_old"})
    \cup Flaws([SH EXCEPT !.exts = @ \cup {"psk"}], {"psk_len", "psk_id"})
    \cup Flaws(HRR, {"cookie", "cookie_long"})
    \cup Flaws(SH12, {"version_old", "version_new", "renegotiated"})

EncryptedExtensions ==
    {EE, [EE EXCEPT !.exts = {}], [EE EXCEPT !.alpn = "x"], [EE EXCEPT !.exts = @ \cup {"cookie"}],
     [EE EXCEPT !.exts = @ \cup {"quic_tp"}], [EE EXCEPT !.exts = @ \cup {"key_share"}]}
    \cup Flaws([EE EXCEPT !.exts = @ \cup {"rsl"}], {"rsl", "malformed"})

CertRequests == {CR, [CR EXCEPT !.ecdsa = FALSE], [CR EXCEPT !.exts = {}]} \cup Flaws(CR, {"malformed"})

Certificates == {CERT, [CERT EXCEPT !.sz = 3], [CERT EXCEPT !.sz = 4], [CERT EXCEPT !.key = "rsa", !.sz = 1]}
                \cup Flaws(CERT, {"malformed", "empty", "x509"})

Bad == {"decrypt_error", "unknown_ca"}
MCMessages ==
    ServerHellos \cup EncryptedExtensions \cup CertRequests \cup Certificates
    \cup {CV, SKE, [SKE EXCEPT !.group = "x448"], FIN, [FIN EXCEPT !.mac = FALSE, !.sz = 1], Small("SHD")}
    \cup {[m EXCEPT !.verdict = v, !.sz = 1] : m \in {CV, SKE}, v \in Bad}
    \cup Flaws(CV, {"none", "malformed", "scheme"}) \cup Flaws(SKE, {"point_len", "point"})
    \cup {[t |-> "NST", sz |-> 1, flaw |-> f, exts |-> {}] : f \in {"none", "early_data"}}
    \cup {[t |-> "KU", sz |-> 2, flaw |-> "none", requested |-> TRUE], Small("HREQ")}
    \cup Flaws(Small("HREQ"), {"malformed"})

\* What may follow the end of another message in one call.
MCFollowers == {EE, CERT, Small("SHD"), [t |-> "NST", sz |-> 1, flaw |-> "none", exts |-> {}]}
=============================================================================
