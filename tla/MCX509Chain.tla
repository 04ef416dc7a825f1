---------------------------- MODULE MCX509Chain ----------------------------
(***************************************************************************)
(* Chains of up to three certificates behind the end entity "www", taken   *)
(* with repetition and in every order from a pool around a key rollover:   *)
(* an issuing CA X in several versions, a second CA Y, the root R and its  *)
(* cross-certificate under the new root S.                                 *)
(***************************************************************************)
EXTENDS X509Chain, TLC

Base == [version |-> 3, is_ca |-> TRUE, key_usage |-> "certSign", path_len |-> -1,
         not_before |-> 0, not_after |-> 9]
Of(subject, key, issuer, signer) ==
    [subject |-> subject, key |-> key, issuer |-> issuer, signer |-> signer] @@ Base

www == [Of("www", "kw", "X", "kx") EXCEPT !.is_ca = FALSE, !.key_usage = "other"]
XbyR == Of("X", "kx", "R", "kr")
XbyY == Of("X", "kx", "Y", "ky")
YbyX == Of("Y", "ky", "X", "kx")
YbyR == Of("Y", "ky", "R", "kr")
RbyS == Of("R", "kr", "S", "ks")
XbyX == Of("X", "kx", "X", "kx2")
X2   == Of("X", "kx2", "R", "kr")
Pool == {
    XbyR, XbyY, YbyX, YbyR, RbyS, XbyX, X2,
    [XbyR EXCEPT !.not_after = 4],                  \* expired
    [XbyR EXCEPT !.key_usage = "other"],
    [YbyR EXCEPT !.path_len = 0],
    [RbyS EXCEPT !.path_len = 1]}
Roots == {Of("R", "kr", "R", "kr"), Of("R", "kz", "R", "kz"),
          [Of("S", "ks", "S", "ks") EXCEPT !.version = 1, !.is_ca = FALSE],
          [Of("S", "ks", "S", "ks") EXCEPT !.path_len = 1]}
Stores == UNION {[1..n -> Roots] : n \in 0..2}
Pinned == {<<FALSE, {}>>, <<TRUE, {"ks"}>>, <<TRUE, {"ky"}>>}

MCCert == Pool \cup Roots \cup {www}
MCInputs ==
    {[certs |-> <<www>> \o peers, now |-> now, time_floor |-> 0,
      ca_mem |-> store, system |-> << >>, pinning |-> p[1], pins |-> p[2]] :
        peers \in UNION {[1..n -> Pool] : n \in 0..3}, now \in {5},
        store \in Stores, p \in Pinned}
=============================================================================
