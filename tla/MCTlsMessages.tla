--------------------------- MODULE MCTlsMessages ---------------------------
(***************************************************************************)
(* The messages of a good server and the ClientHellos it answers, for the  *)
(* runs of TlsHandshake and TlsConn; a flawed one takes a single unit.     *)
(***************************************************************************)

Base13 == {"versions", "key_share", "sigs", "groups", "alpn"}
CH(suites, exts, group, cookie, tls12, sid) ==
    [t |-> "CH", sid |-> sid, group |-> group, suites |-> suites, groups |-> {"x25519", "p256"},
     exts |-> exts \cup (IF cookie = "none" THEN {} ELSE {"cookie"}), cookie |-> cookie,
     alpn |-> {"h2"}, tls12 |-> tls12]

SH == [t |-> "SH", sz |-> 2, flaw |-> "none", hrr |-> FALSE, sentinel |-> FALSE, version |-> "13",
       sid_echo |-> TRUE, suite |-> "chacha13", exts |-> {"versions", "key_share"},
       group |-> "x25519", cookie |-> "none", alpn |-> "none"]
One == [SH EXCEPT !.sz = 1]
HRR == [SH EXCEPT !.hrr = TRUE, !.group = "p256", !.exts = @ \cup {"cookie"}, !.cookie = "c1"]
SH12 == [SH EXCEPT !.version = "absent", !.sid_echo = FALSE, !.suite = "ecdsa12",
                   !.exts = {"ems", "reneg"}, !.group = "none", !.sz = 1]
Flaws(m, fs) == {[m EXCEPT !.flaw = f, !.sz = 1] : f \in fs}
EE == [t |-> "EE", sz |-> 1, flaw |-> "none", exts |-> {"alpn"}, alpn |-> "h2"]
CR == [t |-> "CR", sz |-> 1, flaw |-> "none", exts |-> {"sigs"}, ecdsa |-> TRUE, ecdsa_sign |-> TRUE]
CERT == [t |-> "CERT", sz |-> 2, flaw |-> "none", key |-> "ec"]
CV == [t |-> "CV", sz |-> 2, flaw |-> "none", verdict |-> "none"]
SKE == [t |-> "SKE", sz |-> 1, flaw |-> "none", verdict |-> "none", group |-> "p256"]
FIN == [t |-> "FIN", sz |-> 2, flaw |-> "none", mac |-> TRUE]
Small(t) == [t |-> t, sz |-> 1, flaw |-> "none"]
=============================================================================
