----------------------------- MODULE MCTlsConn -----------------------------
(***************************************************************************)
(* A client that offers both versions with a certificate, and one that     *)
(* resumes, against servers that choose TLS 1.3, TLS 1.2 or a retry.       *)
(***************************************************************************)
EXTENDS TlsConn, MCTlsMessages

Both == CH({"chacha13", "aes256_13", "ecdsa12"}, Base13 \cup {"ems", "reneg"}, "x25519", "none",
           TRUE, TRUE)
Fresh == [hello |-> Both, ticket |-> "none", client |-> "key"]
Resumed == [hello |-> Both, ticket |-> "chacha13", client |-> "none"]

HRR1 == [HRR EXCEPT !.sz = 1]
CookieOnly == [One EXCEPT !.hrr = TRUE, !.exts = {"versions", "cookie"}, !.cookie = "c1"]
CV1 == [CV EXCEPT !.sz = 1]
FIN1 == [FIN EXCEPT !.sz = 1]
PSK(m) == [m EXCEPT !.exts = @ \cup {"psk"}]
P256(m) == [m EXCEPT !.group = "p256"]
Aes(m) == [m EXCEPT !.suite = "aes256_13"]
Handshake(offer, flight) == [offer |-> offer, flight |-> flight]
MCHandshakes ==
    {Handshake(Fresh, <<One, EE, CR, CERT, CV1, FIN1>>),
     Handshake(Fresh, <<HRR1, P256(One), EE, FIN1>>),
     Handshake(Fresh, <<SH12, CERT, SKE, CR, Small("SHD"), FIN1>>),
     Handshake(Resumed, <<PSK(One), EE, FIN1>>),
     Handshake(Resumed, <<HRR1, PSK(P256(One)), EE, FIN1>>),
     Handshake(Resumed, <<Aes(HRR1), Aes(P256(One)), EE, CERT, CV1, FIN1>>),
     Handshake(Resumed, <<CookieOnly, SH>>)}
KU == [t |-> "KU", sz |-> 1, flaw |-> "none", requested |-> TRUE]
MCPosts == {KU, Small("HREQ")}
MCStrays == {[FIN1 EXCEPT !.mac = FALSE], Small("HREQ")}
=============================================================================
