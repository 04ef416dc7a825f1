----------------------------- MODULE X509Chain -----------------------------
(***************************************************************************)
(* brisk__x509_chain_verify in x509/chain.c: a depth-first search with     *)
(* backtracking for a path from the server's end entity certificate to a   *)
(* trust anchor.  The server chooses the other certificates, their order   *)
(* and their number; the trust store offers anchors by name.  At each      *)
(* level the anchors are asked first, then the certificates the server     *)
(* sent, and a level that leads nowhere is undone.                         *)
(*                                                                         *)
(* A key stands for a SubjectPublicKeyInfo, and a signature for the key    *)
(* that made it.  cert(i) is certs[i] of the code.                         *)
(*                                                                         *)
(* Name_variant(...) is a copy of Name with one mistake, never used by the *)
(* specification: PROJECT.json says which property notices it.             *)
(***************************************************************************)
EXTENDS Integers, Sequences, FiniteSets

CONSTANTS
    MAX_CHAIN,      \* BRISK__X509_MAX_CHAIN
    MAX_VERIFY,     \* BRISK__X509_MAX_VERIFY
    MAX_LOOKUPS,    \* BRISK__X509_MAX_LOOKUPS
    MAX_ANCHORS,    \* BRISK__X509_MAX_ANCHORS
    TIME_POLICY,    \* BRISK_X509_TIME_POLICY: "strict", "floor" or "none"
    TIME_FLOOR,     \* BRISK_X509_TIME_FLOOR
    NoName,         \* the empty Name
    Cert,           \* certificates as cert.c parses them
    Inputs          \* the calls: certs, now, time_floor, ca_mem, system, pinning, pins

ASSUME ChainAssumption ==
    /\ MAX_CHAIN \in 1..31 /\ MAX_VERIFY \in Nat
    /\ MAX_LOOKUPS \in Nat /\ MAX_ANCHORS \in Nat
    /\ \A in \in Inputs : in.certs \in Seq(Cert) /\ Len(in.certs) > 0

VARIABLES
    input,          \* the arguments of the call
    chosen,         \* chosen[d]: the index of the parent taken at depth d
    depth, resume, below, pin_mask, work, lookups,
    at,             \* where the loop stands
    i,              \* its index there
    anchor,         \* the anchor under inspection when it returned BRISK_OK
    rc              \* what was returned

vars == <<input, chosen, depth, resume, below, pin_mask, work, lookups, at, i, anchor, rc>>

Depths == 0..MAX_CHAIN - 1
n_certs == Len(input.certs)
Index == 0..n_certs - 1
cert(k) == input.certs[k + 1]
cur == IF depth = 0 THEN 0 ELSE chosen[depth - 1]

-----------------------------------------------------------------------------
(* Certificates *)

name_eq(a, b) == a = b /\ a # NoName
self_issued(c) == name_eq(c.issuer, c.subject)
signed_by(child, issuer) == child.signer = issuer.key

tfloor == IF input.time_floor > TIME_FLOOR THEN input.time_floor ELSE TIME_FLOOR
time_ok(c) ==
    \/ TIME_POLICY = "none"
    \/ input.now < tfloor /\ TIME_POLICY = "floor" /\ c.not_after >= tfloor
    \/ input.now >= tfloor /\ c.not_before <= input.now /\ input.now <= c.not_after

\* 6.1.4 (k), (n), (l) and (m); of an anchor an old version is accepted.
usable_ca(ca, under, is_anchor) ==
    /\ IF ca.version = 3 THEN ca.is_ca ELSE is_anchor
    /\ ca.key_usage \in {"absent", "certSign"}
    /\ ca.path_len >= 0 => under <= ca.path_len

pinned(c) == c.key \in input.pins
END_ENTITY == 31
pin_start == IF ~input.pinning \/ pinned(cert(0)) THEN {END_ENTITY} ELSE {}

\* The store: the certificates of cfg.ca_mem in order, then the system's bundle.
Named(list, dn) == SelectSeq(list, LAMBDA a : a.subject = dn)
conn_anchor(dn) == Named(input.ca_mem, dn) \o Named(input.system, dn)
Offers(dn) == {k \in 0..MAX_ANCHORS - 1 : k < Len(conn_anchor(dn))}
Offered(dn, k) == conn_anchor(dn)[k + 1]

-----------------------------------------------------------------------------
(* The search *)

Start(in) ==
    /\ input = in
    /\ chosen = [d \in Depths |-> 0] /\ depth = 0 /\ resume = 1 /\ below = 0
    /\ work = 0 /\ lookups = 0 /\ i = 0 /\ anchor = <<>>
    /\ IF time_ok(cert(0))
       THEN at = "arrive" /\ rc = "none" /\ pin_mask = pin_start
       ELSE at = "done" /\ rc = "BRISK_E_AUTH" /\ pin_mask = {}
Init == \E in \in Inputs : Start(in)

return(code) == at' = "done" /\ rc' = code

\* The anchors are asked on first arrival at a depth only, and a bounded number of times.
Arrive ==
    /\ at = "arrive"
    /\ LET first == resume = 1 /\ depth < MAX_CHAIN
       IN  /\ lookups' = IF first THEN lookups + 1 ELSE lookups
           /\ IF first /\ lookups' <= MAX_LOOKUPS
              THEN at' = "anchors" /\ i' = 0
              ELSE at' = "peers" /\ i' = resume
    /\ UNCHANGED <<input, chosen, depth, resume, below, pin_mask, work, anchor, rc>>

NoMoreAnchors ==
    /\ at = "anchors" /\ i \notin Offers(cert(cur).issuer)
    /\ at' = "peers" /\ i' = resume
    /\ UNCHANGED <<input, chosen, depth, resume, below, pin_mask, work, lookups, anchor, rc>>

anchor_fits(a) == name_eq(cert(cur).issuer, a.subject) /\ usable_ca(a, below, TRUE)
TryAnchor ==
    /\ at = "anchors" /\ i \in Offers(cert(cur).issuer)
    /\ LET a == Offered(cert(cur).issuer, i)
       IN  /\ work' = IF anchor_fits(a) THEN work + 1 ELSE work
           /\ IF work' > MAX_VERIFY
              THEN return("BRISK_E_AUTH") /\ UNCHANGED <<i, anchor>>
              ELSE IF /\ anchor_fits(a) /\ signed_by(cert(cur), a)
                      /\ pin_mask # {} \/ pinned(a)
              THEN return("BRISK_OK") /\ anchor' = a /\ UNCHANGED i
              ELSE i' = i + 1 /\ UNCHANGED <<at, rc, anchor>>
    /\ UNCHANGED <<input, chosen, depth, resume, below, pin_mask, lookups>>

\* What makes certs[k] worth a verification as the parent of cur.
peer_fits(k) ==
    /\ k # cur /\ name_eq(cert(cur).issuer, cert(k).subject)
    /\ usable_ca(cert(k), below, FALSE) /\ time_ok(cert(k))

Pins(k) == IF input.pinning /\ pinned(cert(k)) THEN pin_mask \cup {depth} ELSE pin_mask
Descend(k) ==
    /\ chosen' = [chosen EXCEPT ![depth] = k]
    /\ below' = IF self_issued(cert(k)) THEN below ELSE below + 1
    /\ pin_mask' = Pins(k)
    /\ depth' = depth + 1 /\ resume' = 1
    /\ at' = "arrive" /\ i' = 0 /\ UNCHANGED rc

Scanning == at = "peers" /\ depth < MAX_CHAIN /\ i < n_certs
TryPeer ==
    /\ Scanning
    /\ work' = IF peer_fits(i) THEN work + 1 ELSE work
    /\ IF work' > MAX_VERIFY
       THEN return("BRISK_E_AUTH") /\ UNCHANGED <<chosen, below, pin_mask, depth, resume, i>>
       ELSE IF peer_fits(i) /\ signed_by(cert(cur), cert(i))
       THEN Descend(i)
       ELSE i' = i + 1 /\ UNCHANGED <<chosen, below, pin_mask, depth, resume, at, rc>>
    /\ UNCHANGED <<input, lookups, anchor>>

\* Everything the abandoned parent contributed is taken back.
Unpinned_not == pin_mask
Unpinned == pin_mask \ {depth - 1}
Under_kept == below
Under == IF self_issued(cert(chosen[depth - 1])) THEN below ELSE below - 1
DeadEnd ==
    /\ at = "peers" /\ ~Scanning
    /\ IF depth = 0
       THEN return("BRISK_E_AUTH") /\ UNCHANGED <<depth, resume, below, pin_mask>>
       ELSE /\ depth' = depth - 1 /\ resume' = chosen[depth - 1] + 1
            /\ below' = Under /\ pin_mask' = Unpinned
            /\ at' = "arrive" /\ UNCHANGED rc
    /\ UNCHANGED <<input, chosen, work, lookups, i, anchor>>

Next == Arrive \/ NoMoreAnchors \/ TryAnchor \/ TryPeer \/ DeadEnd

Spec == Init /\ [][Next]_vars

-----------------------------------------------------------------------------
(* Paths, without a search *)

\* p[0], ..., p[n - 1] are the certificates above the end entity, a the anchor above them.
On(p, d) == IF d = 0 THEN 0 ELSE p[d - 1]
Between(p, d) == Cardinality({k \in 0..d - 1 : ~self_issued(cert(p[k]))})
Link(p, d) ==
    /\ p[d] \in Index \ {0} /\ signed_by(cert(On(p, d)), cert(p[d]))
    /\ name_eq(cert(On(p, d)).issuer, cert(p[d]).subject)
    /\ usable_ca(cert(p[d]), Between(p, d), FALSE) /\ time_ok(cert(p[d]))
Path(p, n) == time_ok(cert(0)) /\ \A d \in 0..n - 1 : Link(p, d)
Anchored(p, n, a) ==
    LET top == cert(On(p, n))
    IN  /\ \E k \in Offers(top.issuer) : a = Offered(top.issuer, k)
        /\ name_eq(top.issuer, a.subject) /\ signed_by(top, a)
        /\ usable_ca(a, Between(p, n), TRUE)
PinSatisfied(p, n, a) ==
    input.pinning => pinned(a) \/ \E d \in 0..n : pinned(cert(On(p, d)))
Trusted(p, n, a) == Path(p, n) /\ Anchored(p, n, a) /\ PinSatisfied(p, n, a)

-----------------------------------------------------------------------------
(* Properties *)

TypeOK ==
    /\ input.certs \in Seq(Cert) /\ n_certs > 0 /\ chosen \in [Depths -> Index]
    /\ depth \in 0..MAX_CHAIN /\ resume \in Nat \ {0} /\ below \in 0..depth
    /\ pin_mask \subseteq 0..31 /\ work \in 0..MAX_VERIFY + 1 /\ lookups \in Nat
    /\ at \in {"arrive", "anchors", "peers", "done"} /\ i \in Nat
    /\ rc \in {"none", "BRISK_OK", "BRISK_E_AUTH"}

\* When brisk__x509_chain_verify returns BRISK_OK, the certificates it stands on are a path of
\* RFC 5280 6.1 that the policy accepts: every link signed, named, in date and allowed to issue
\* at its height, an anchor of the store above, and a pinned key on this very path if there are
\* pins; whatever the search tried and took back before leaves no trace.
OkIsTrusted == rc = "BRISK_OK" => depth < MAX_CHAIN /\ Trusted(chosen, depth, anchor)

\* When it returns BRISK_E_AUTH there is no such path among the certificates, in whatever order
\* they came, or a budget was spent: no wrong first choice makes a good chain fail.
AuthIsHopeless ==
    rc = "BRISK_E_AUTH" /\ work <= MAX_VERIFY /\ lookups <= MAX_LOOKUPS =>
        \A n \in Depths : \A p \in [0..n - 1 -> Index \ {0}] : Path(p, n) =>
            \A k \in Offers(cert(On(p, n)).issuer) :
                ~Trusted(p, n, Offered(cert(On(p, n)).issuer, k))
=============================================================================
