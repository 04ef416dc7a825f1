------------------------- MODULE TlsHandshakeProofs -------------------------
(***************************************************************************)
(* Every property of the run tls_handshake, for every set of messages,     *)
(* ClientHellos, configurations and buffer sizes.                          *)
(***************************************************************************)
EXTENDS TlsHandshake, SetSums, SequenceTheorems

-----------------------------------------------------------------------------
(* The inductive invariant *)

OwnFlight == {Flight(t) : t \in OwnKinds}
Transcript == Messages \cup Hellos \cup OwnFlight

Fields ==
    {"cfg", "state", "alert", "err", "version", "suite", "in_epoch", "hrr_seen", "hrr_group",
     "cookie", "cr_seen", "cr_sig_ok", "cr_send", "psk_suite", "psk_len", "psk_offered", "psk_ok",
     "tls12_offered", "offer", "share_group", "session_id", "peer_rsl", "alpn_sel", "ku",
     "secrets", "buf", "in_base", "in_len", "n_certs", "out", "out_off", "out_split", "th",
     "exports"}
Shape(h) == h = [f \in Fields |-> h[f]]

Typed(h) ==
    /\ Shape(h)
    /\ h.state \in States /\ h.version \in {"none", "12", "13"} /\ h.in_epoch \in Epochs
    /\ h.hrr_seen \in BOOLEAN /\ h.cr_seen \in BOOLEAN /\ h.psk_ok \in BOOLEAN
    /\ h.in_base \in Nat /\ h.in_len \in Nat /\ h.n_certs \in {0, 1}
    /\ h.out_off \in Nat /\ h.out_split \in Nat
    /\ h.th \in Seq(Transcript)
    /\ h.buf \in Seq([m : Messages, k : Nat, ep : Epochs])
    /\ h.out \in Seq([m : OwnKinds, ep : Epochs])
    /\ h.exports \in Seq(Epochs \X {"recv", "send"} \X Nat)

Early == {"START", "WAIT_SH", "WAIT_CH2"}
Mid13 == {"WAIT_EE", "WAIT_CERT_CR", "WAIT_CERT", "WAIT_CV", "WAIT_FIN"}
Mid12 == {"WAIT12_CERT", "WAIT12_SKE", "WAIT12_CR_SHD", "WAIT12_SHD"}
Late  == {"WAIT12_CCS", "WAIT12_FIN", "CONNECTED"}

\* What has been heard and said, state by state.
Greeting(h) == IF h.hrr_seen THEN <<"CH", "HRR", "CH">> ELSE <<"CH">>
Met(h) == Greeting(h) \o <<"SH", "EE">>
Proof13(h) == IF h.psk_ok THEN <<>> ELSE IF h.cr_seen THEN <<"CR", "CERT", "CV">> ELSE <<"CERT", "CV">>
Script(h) ==
    /\ h.state = "START" => h.th = <<>> /\ ~h.hrr_seen
    /\ h.state = "WAIT_CH2" => Kinds(h.th) = <<"CH", "HRR">> /\ h.hrr_seen
    /\ h.state = "WAIT_SH" => Kinds(h.th) = Greeting(h)
    /\ h.state = "WAIT_EE" => Kinds(h.th) = Greeting(h) \o <<"SH">>
    /\ h.state = "WAIT_CERT_CR" => Kinds(h.th) = Met(h)
    /\ h.state = "WAIT_CERT" => Kinds(h.th) = Met(h) \o <<"CR">>
    /\ h.state = "WAIT_CV" => Kinds(h.th) = Met(h) \o (IF h.cr_seen THEN <<"CR", "CERT">> ELSE <<"CERT">>)
    /\ h.state = "WAIT_FIN" => Kinds(h.th) = Met(h) \o Proof13(h)
    /\ h.state = "WAIT12_CERT" => Kinds(h.th) = Greeting(h) \o <<"SH">>
    /\ h.state = "WAIT12_SKE" => Kinds(h.th) = Greeting(h) \o <<"SH", "CERT">>
    /\ h.state = "WAIT12_CR_SHD" => Kinds(h.th) = Greeting(h) \o <<"SH", "CERT", "SKE">>
    /\ h.state = "WAIT12_SHD" => Kinds(h.th) = Greeting(h) \o <<"SH", "CERT", "SKE", "CR">>

\* The flags that go with it.
Flags(h) ==
    /\ h.state \in Mid12 => ~h.hrr_seen
    /\ h.state \in Early \cup {"WAIT_EE", "WAIT_CERT_CR", "WAIT12_CERT", "WAIT12_SKE",
                               "WAIT12_CR_SHD"} => ~h.cr_seen
    /\ h.state \in {"WAIT_CERT", "WAIT12_SHD"} => h.cr_seen
    /\ h.state \in {"WAIT_CERT_CR", "WAIT_CERT", "WAIT_CV"} => ~h.psk_ok
    /\ h.state = "WAIT_FIN" /\ h.psk_ok => ~h.cr_seen
    /\ h.state \in Early => h.version = "none"
    /\ h.state \in Mid13 => h.version = "13"
    /\ h.state \in Mid12 \cup {"WAIT12_CCS", "WAIT12_FIN"} => h.version = "12"
    /\ h.state = "CONNECTED" => h.version \in {"12", "13"}

\* The last ClientHello is the offer the engine holds; the first one's group is the one retried.
Open == {"WAIT_SH", "WAIT_CH2"} \cup Mid13 \cup Mid12
Offered(h) ==
    LET ch == The(h.th, "CH")
    IN  /\ h.state \in Open =>
              /\ Of(h.th, "CH") # {}
              /\ h.offer.exts = ch.exts /\ h.offer.suites = ch.suites /\ h.offer.alpn = ch.alpn
              /\ h.share_group = ch.group /\ h.share_group \in ShareGroups
              /\ h.tls12_offered => ch.tls12 /\ ~h.cfg.quic
        /\ (h.state = "WAIT_SH" /\ ~h.hrr_seen) \/ h.state = "WAIT_CH2" =>
              h.share_group = h.th[1].group

\* A retry asks for another group or returns a cookie, and the second ClientHello complies.
Retried(h) ==
    LET ch == The(h.th, "CH")  hrr == The(h.th, "HRR")
    IN  h.state \in {"START"} \cup Open =>
           /\ ~h.hrr_seen => Of(h.th, "HRR") = {}
           /\ h.hrr_seen =>
                 /\ Of(h.th, "HRR") # {}
                 /\ hrr.suite = h.suite /\ h.cookie = hrr.cookie
                 /\ h.hrr_group = IF "key_share" \in hrr.exts THEN hrr.group ELSE "none"
                 /\ "key_share" \in hrr.exts =>
                       hrr.group \in ShareGroups /\ hrr.group # h.th[1].group
                 /\ h.state # "WAIT_CH2" =>
                       /\ ch.group = IF "key_share" \in hrr.exts THEN hrr.group ELSE h.th[1].group
                       /\ ch.cookie = hrr.cookie

\* What has not been heard yet.
Unheard(h) ==
    /\ h.state \in Early \cup {"WAIT_EE", "WAIT_CERT_CR", "WAIT_CERT", "WAIT12_CERT"} =>
          Of(h.th, "CERT") = {}
    /\ h.state = "WAIT_FIN" /\ h.psk_ok => Of(h.th, "CERT") = {}
    /\ h.state \in Early \cup Mid13 \cup {"WAIT12_CERT", "WAIT12_SKE"} => Of(h.th, "SKE") = {}
    /\ h.state \in Early \cup Mid13 \cup Mid12 => Of(h.th, "CKE") = {} /\ Of(h.th, "C_CERT") = {}
    /\ h.state = "CONNECTED" /\ h.version = "13" => Of(h.th, "CKE") = {}
    /\ h.state \in Late /\ h.version = "12" => Of(h.th, "CKE") # {}

\* What the ServerHello and the messages after it have settled.
Chosen(h) ==
    LET sh == The(h.th, "SH")
    IN  /\ h.state \in Early => h.alpn_sel = "none"
        /\ h.state \in Mid13 \cup Mid12 =>
              /\ Of(h.th, "SH") # {} /\ h.suite = sh.suite /\ h.suite \in h.offer.suites
              /\ h.alpn_sel \in h.offer.alpn \cup {"none"}
        /\ h.state \in Mid13 =>
              /\ sh.group = h.share_group
              /\ h.psk_ok => "psk" \in h.offer.exts /\ alg(h.psk_suite) = alg(h.suite)
        /\ h.state \in Mid12 =>
              /\ ~sh.sentinel /\ h.tls12_offered
              /\ {"ems", "reneg"} \subseteq sh.exts \cap h.offer.exts
        /\ h.state = "WAIT_FIN" /\ ~h.psk_ok =>
              Of(h.th, "CV") # {} /\ The(h.th, "CV").verdict = "none"
        /\ h.state \in {"WAIT12_CR_SHD", "WAIT12_SHD"} =>
              Of(h.th, "SKE") # {} /\ The(h.th, "SKE").verdict = "none"

KeysAt(h) ==
    /\ h.state \in Early \cup Mid12 => h.exports = <<>> /\ h.in_epoch = INITIAL
    /\ h.state \in Mid13 => Len(h.exports) = 2 /\ h.in_epoch = HANDSHAKE
    /\ h.state = "WAIT12_CCS" => Len(h.exports) = 2 /\ h.in_epoch = INITIAL
    /\ h.state = "WAIT12_FIN" => Len(h.exports) = 2 /\ h.in_epoch = APP
    /\ h.state = "CONNECTED" => /\ Len(h.exports) = IF h.version = "12" THEN 2 ELSE 4
                                /\ h.in_epoch = APP

SecretsAt(h) ==
    /\ h.state \in {"START", "WAIT_SH"} => h.secrets \subseteq {"psk", "p256", "priv"}
    /\ h.state = "WAIT_SH" /\ "psk" \in h.secrets => "psk" \in h.offer.exts
    /\ h.state = "WAIT_CH2" => h.secrets \subseteq {"psk"}
    /\ h.state \in Mid13 => h.secrets \subseteq {"ks", "c_hs", "s_hs"}
    /\ h.state \in {"WAIT12_CERT", "WAIT12_SKE"} => h.secrets \subseteq {"priv", "p256"}
    /\ h.state \in {"WAIT12_CR_SHD", "WAIT12_SHD", "WAIT12_CCS", "WAIT12_FIN"} =>
          h.secrets \subseteq {"main"}
    /\ h.state = "CONNECTED" => h.secrets \subseteq {"exp", "res"}
    /\ h.state = "FAILED" => h.secrets = {} /\ h.out = <<>>

\* The buffer: the Certificate message while it is pointed at, then the units of one message.
Certs(h) ==
    /\ (h.n_certs # 0) <=> (h.state \in {"WAIT_CV", "WAIT12_SKE"})
    /\ h.state # "FAILED" =>
        /\ h.n_certs = 0 => h.in_base = 0
        /\ h.in_base <= Len(h.buf)
        /\ h.n_certs # 0 =>
              /\ Of(h.th, "CERT") # {} /\ h.in_base = The(h.th, "CERT").sz
              /\ \A k \in 1..h.in_base : h.buf[k].m = The(h.th, "CERT") /\ h.buf[k].k = k

\* The n units behind in_base are the first n units of m, which came under the keys in use.
Begun(h, m, n) ==
    /\ h.in_base + n <= Len(h.buf)
    /\ \A k \in 1..n : h.buf[h.in_base + k] = [m |-> m, k |-> k, ep |-> h.in_epoch]
Partial(h) ==
    h.state # "FAILED" /\ h.in_len # 0 =>
        \E m \in Messages : h.in_len < m.sz /\ Begun(h, m, h.in_len)

\* The output queue and what has left it, s: the client's messages in order, each with its
\* epoch, and nothing for the keys of a later epoch before the state that has them.
InLine(h, s) ==
    /\ Names(s) \o Names(Pending(h)) = OwnUnits(h.th)
    /\ h.out_off <= Len(h.out) /\ h.out_split <= Len(h.out)
    /\ \A j \in 1..Len(h.out) : (h.out[j].ep = INITIAL) <=> (j <= h.out_split)
Queued(h, s) ==
    h.state # "FAILED" => InLine(h, s) /\ (h.out_split < Len(h.out) => h.state \in Late)
SentRight(h, s) ==
    \A j \in 1..Len(s) :
        /\ s[j].as = SentAs(h, s[j].queued)
        /\ s[j].queued # INITIAL => h.state \in Late \cup {"FAILED"} /\ Holds(h, s[j].as, "send")

SentType == Seq([m : OwnKinds, queued : Epochs, as : Epochs])

\* What the handlers of messages keep, and what the owner's calls do.
Heard(h) ==
    /\ Typed(h) /\ Script(h) /\ Flags(h) /\ Offered(h) /\ Retried(h) /\ Unheard(h) /\ Chosen(h)
    /\ KeysBoundToTranscript(h) /\ KeysAt(h) /\ SecretsAt(h) /\ Certs(h)
    /\ h.state \in Late => Sound(h)

Ready(h, s) == Heard(h) /\ s \in SentType /\ Queued(h, s) /\ SentRight(h, s)

IInv == Ready(hs, sent) /\ Partial(hs)

-----------------------------------------------------------------------------
(* Sequences and transcripts *)

\* A set of positions that is not empty has a largest one.
LEMMA LargestPosition ==
    ASSUME NEW n \in Nat, NEW S \in SUBSET (1..n), S # {}
    PROVE  Max(S) \in S /\ \A j \in S : Max(S) >= j
<1> DEFINE T == {n - j : j \in S}
<1>0. T \in SUBSET Nat /\ T # {}
  <2>1. \A j \in S : j \in 1..n /\ n - j \in Nat
    OBVIOUS
  <2> QED BY <2>1
<1>1. PICK t \in T : \A u \in T : t <= u
  <2> HIDE DEF T
  <2> QED BY <1>0, LeastNatural
<1>2. PICK i \in S : t = n - i
  BY <1>1
<1>3. \A j \in S : i >= j
  <2> TAKE j \in S
  <2>1. n - i <= n - j
    BY <1>1, <1>2
  <2> QED BY <2>1
<1> QED BY <1>3 DEF Max

LEMMA LastPosition ==
    ASSUME NEW n \in Nat, NEW S \in SUBSET (1..n), n \in S
    PROVE  Max(S) = n
<1>1. Max(S) \in S /\ \A j \in S : Max(S) >= j
  BY LargestPosition
<1>2. Max(S) \in 1..n /\ Max(S) >= n
  BY <1>1
<1> QED BY <1>2

\* A transcript and one more message.
LEMMA Appended ==
    ASSUME NEW s \in Seq(Transcript), NEW m \in Transcript
    PROVE  /\ Append(s, m) \in Seq(Transcript) /\ Len(Append(s, m)) = Len(s) + 1
           /\ Append(s, m)[Len(s) + 1] = m
           /\ \A i \in 1..Len(s) : Append(s, m)[i] = s[i]
           /\ s # <<>> => Append(s, m)[1] = s[1]
           /\ Of(Append(s, m), Kind(m)) # {} /\ The(Append(s, m), Kind(m)) = m
<1>1. /\ Append(s, m) \in Seq(Transcript) /\ Len(Append(s, m)) = Len(s) + 1
      /\ Append(s, m)[Len(s) + 1] = m
      /\ \A i \in 1..Len(s) : Append(s, m)[i] = s[i]
  OBVIOUS
<1>2. s # <<>> => Append(s, m)[1] = s[1]
  OBVIOUS
<1>3. Of(Append(s, m), Kind(m)) \in SUBSET (1..Len(s) + 1) /\ Len(s) + 1 \in Of(Append(s, m), Kind(m))
  BY <1>1 DEF Of
<1>4. Max(Of(Append(s, m), Kind(m))) = Len(s) + 1
  BY <1>3, LastPosition
<1> QED BY <1>1, <1>2, <1>3, <1>4 DEF The

\* A message of another kind.
LEMMA Other ==
    ASSUME NEW s \in Seq(Transcript), NEW m \in Transcript, NEW kind, kind # Kind(m)
    PROVE  /\ Of(Append(s, m), kind) = Of(s, kind)
           /\ Of(s, kind) # {} => The(Append(s, m), kind) = The(s, kind)
<1>1. /\ Len(Append(s, m)) = Len(s) + 1 /\ Append(s, m)[Len(s) + 1] = m
      /\ DOMAIN Append(s, m) = 1..Len(s) + 1 /\ DOMAIN s = 1..Len(s) /\ Len(s) \in Nat
  OBVIOUS
<1>2. \A i \in 1..Len(s) : Append(s, m)[i] = s[i]
  OBVIOUS
<1>3. Of(Append(s, m), kind) = Of(s, kind)
  BY <1>1, <1>2 DEF Of
<1>4. ASSUME Of(s, kind) # {} PROVE The(Append(s, m), kind) = The(s, kind)
  <2>1. Of(s, kind) \in SUBSET (1..Len(s))
    BY <1>1 DEF Of
  <2>2. Max(Of(s, kind)) \in 1..Len(s)
    BY <1>1, <1>4, <2>1, LargestPosition
  <2> QED BY <1>2, <1>3, <2>2 DEF The
<1> QED BY <1>3, <1>4

LEMMA KindsAppended ==
    ASSUME NEW s \in Seq(Transcript), NEW m \in Transcript
    PROVE  Kinds(Append(s, m)) = Append(Kinds(s), Kind(m))
<1>1. /\ Len(Append(s, m)) = Len(s) + 1 /\ Append(s, m)[Len(s) + 1] = m
      /\ DOMAIN Append(s, m) = 1..Len(s) + 1 /\ DOMAIN s = 1..Len(s) /\ Len(s) \in Nat
  OBVIOUS
<1>2. \A i \in 1..Len(s) : Append(s, m)[i] = s[i]
  OBVIOUS
<1>3. Kinds(s) \in Seq({Kind(s[i]) : i \in 1..Len(s)}) /\ Len(Kinds(s)) = Len(s)
  BY <1>1 DEF Kinds
<1> QED BY <1>1, <1>2, <1>3 DEF Kinds

\* Rules that give no alert: none of them does.
LEMMA NoneRaised ==
    ASSUME NEW alerts, DOMAIN alerts \in SUBSET Nat, FirstAlert(alerts) = "none"
    PROVE  \A i \in DOMAIN alerts : alerts[i] = "none"
<1> DEFINE raised == {i \in DOMAIN alerts : alerts[i] # "none"}
           first  == CHOOSE i \in raised : \A j \in raised : i <= j
<1>1. SUFFICES ASSUME raised # {} PROVE FALSE
  OBVIOUS
<1>2. raised \in SUBSET Nat
  OBVIOUS
<1>3. \E i \in raised : \A j \in raised : i <= j
  <2> HIDE DEF raised
  <2> QED BY <1>1, <1>2, LeastNatural
<1>4. first \in raised
  <2> HIDE DEF raised
  <2> QED BY <1>3
<1>5. FirstAlert(alerts) = alerts[first]
  BY <1>1 DEF FirstAlert
<1> HIDE DEF first
<1>6. alerts[first] # "none"
  BY <1>4
<1> QED BY <1>5, <1>6

\* f is the table of the client's units in the first n messages of s.
Upto(f, s, n) == f = [i \in 0..n |-> IF i = 0 THEN <<>> ELSE f[i - 1] \o UnitsOf(s[i])]

LEMMA UnitsOfType == ASSUME NEW m \in Transcript PROVE UnitsOf(m) \in Seq(OwnKinds)
BY DEF UnitsOf, out_size

LEMMA UptoStep ==
    ASSUME NEW f, NEW s, NEW n \in Nat, Upto(f, s, n)
    PROVE  /\ f[0] = <<>>
           /\ \A i \in 1..n : f[i] = f[i - 1] \o UnitsOf(s[i])
<1>1. \A i \in 0..n : f[i] = IF i = 0 THEN <<>> ELSE f[i - 1] \o UnitsOf(s[i])
  BY DEF Upto
<1>2. 0 \in 0..n /\ \A i \in 1..n : i \in 0..n /\ i # 0
  OBVIOUS
<1> QED BY <1>1, <1>2

LEMMA UptoExists ==
    ASSUME NEW s, NEW n \in Nat
    PROVE  \E f : Upto(f, s, n)
<1> DEFINE Bad == {k \in Nat : ~\E f : Upto(f, s, k)}
<1>1. Bad = {}
  <2> SUFFICES ASSUME Bad # {} PROVE FALSE
    OBVIOUS
  <2>0. Bad \in SUBSET Nat
    OBVIOUS
  <2>1. PICK k \in Bad : \A j \in Bad : k <= j
    <3> HIDE DEF Bad
    <3> QED BY <2>0, LeastNatural
  <2>2. k # 0
    <3>1. Upto([i \in 0..0 |-> <<>>], s, 0)
      BY DEF Upto
    <3> QED BY <3>1, <2>1
  <2>3. k - 1 \in Nat /\ k - 1 \notin Bad
    <3>1. k \in Nat
      OBVIOUS
    <3> HIDE DEF Bad
    <3> QED BY <2>1, <2>2, <3>1
  <2>4. PICK f : Upto(f, s, k - 1)
    BY <2>3
  <2> DEFINE g == [i \in 0..k |-> IF i = k THEN f[k - 1] \o UnitsOf(s[k]) ELSE f[i]]
  <2>5. \A i \in 0..k : g[i] = IF i = 0 THEN <<>> ELSE g[i - 1] \o UnitsOf(s[i])
    <3> TAKE i \in 0..k
    <3>1. f[0] = <<>> /\ \A j \in 1..(k - 1) : f[j] = f[j - 1] \o UnitsOf(s[j])
      <4> HIDE DEF Bad
      <4> QED BY <2>3, <2>4, UptoStep, ZenonT(60)
    <3>2. CASE i = k
      BY <3>2, <2>3, <2>2
    <3>3. CASE i = 0
      BY <3>1, <3>3, <2>2
    <3>4. CASE i # k /\ i # 0
      <4>1. i \in 1..(k - 1) /\ i - 1 \in 0..k /\ i - 1 # k
        BY <3>4, <2>3
      <4> QED BY <4>1, <3>1
    <3> QED BY <3>2, <3>3, <3>4
  <2>6. Upto(g, s, k)
    <3>1. g = [i \in 0..k |-> g[i]]
      OBVIOUS
    <3> HIDE DEF g
    <3> QED BY <2>5, <3>1 DEF Upto
  <2> QED BY <2>6
<1> QED BY <1>1

LEMMA UptoUnique ==
    ASSUME NEW f, NEW s, NEW n \in Nat, Upto(f, s, n),
           NEW g, NEW t, NEW k \in Nat, Upto(g, t, k), n <= k,
           \A i \in 1..n : s[i] = t[i]
    PROVE  \A i \in 0..n : f[i] = g[i]
<1> DEFINE Bad == {i \in 0..n : f[i] # g[i]}
<1>1. SUFFICES ASSUME Bad # {} PROVE FALSE
  OBVIOUS
<1>2. PICK i \in Bad : \A j \in Bad : i <= j
  <2>1. Bad \in SUBSET Nat
    OBVIOUS
  <2> HIDE DEF Bad
  <2> QED BY <1>1, <2>1, LeastNatural
<1>3. /\ f[0] = <<>> /\ g[0] = <<>>
      /\ \A j \in 1..n : f[j] = f[j - 1] \o UnitsOf(s[j])
      /\ \A j \in 1..k : g[j] = g[j - 1] \o UnitsOf(t[j])
  BY UptoStep, ZenonT(60)
<1>4. i \in 1..n
  BY <1>3
<1>5. i - 1 \in 0..n /\ i - 1 \notin Bad
  BY <1>4, <1>2
<1>6. f[i - 1] = g[i - 1] /\ f[i] # g[i]
  BY <1>5
<1>7. i \in 1..k /\ s[i] = t[i]
  BY <1>4
<1> HIDE DEF Bad
<1>8. f[i] = f[i - 1] \o UnitsOf(s[i]) /\ g[i] = g[i - 1] \o UnitsOf(t[i])
  BY <1>3, <1>4, <1>7
<1> QED BY <1>6, <1>7, <1>8

LEMMA OwnUnitsUpto ==
    ASSUME NEW s \in Seq(Transcript), NEW f, Upto(f, s, Len(s))
    PROVE  OwnUnits(s) = f[Len(s)]
<1> DEFINE g == CHOOSE x : Upto(x, s, Len(s))
<1>1. Len(s) \in Nat
  OBVIOUS
<1>2. Upto(g, s, Len(s))
  OBVIOUS
<1>3. OwnUnits(s) = g[Len(s)]
  BY DEF OwnUnits, Upto
<1> HIDE DEF g
<1>4. \A i \in 0..Len(s) : f[i] = g[i]
  BY <1>1, <1>2, UptoUnique
<1> QED BY <1>1, <1>3, <1>4

\* The client's units in a transcript, message by message.
LEMMA OwnUnitsAppended ==
    ASSUME NEW s \in Seq(Transcript), NEW m \in Transcript
    PROVE  OwnUnits(Append(s, m)) = OwnUnits(s) \o UnitsOf(m)
<1> DEFINE t == Append(s, m)
           n == Len(s)
<1>1. t \in Seq(Transcript) /\ Len(t) = n + 1 /\ t[n + 1] = m /\ n \in Nat
      /\ \A i \in 1..n : s[i] = t[i]
  BY Appended
<1>2. PICK f : Upto(f, s, n)
  BY <1>1, UptoExists
<1>3. PICK g : Upto(g, t, n + 1)
  <2> HIDE DEF t, n
  <2>1. n + 1 \in Nat
    BY <1>1
  <2> QED BY <2>1, UptoExists
<1>4. OwnUnits(s) = f[n]
  BY <1>2, OwnUnitsUpto
<1>5. OwnUnits(t) = g[n + 1]
  <2> HIDE DEF t, n
  <2> QED BY <1>1, <1>3, OwnUnitsUpto
<1>6. \A i \in 0..n : f[i] = g[i]
  <2> HIDE DEF t, n
  <2>1. n <= n + 1 /\ n + 1 \in Nat
    BY <1>1
  <2> QED BY <1>1, <1>2, <1>3, <2>1, UptoUnique
<1>7. g[n + 1] = g[n] \o UnitsOf(t[n + 1])
  <2> HIDE DEF t, n
  <2>1. n + 1 \in Nat /\ n + 1 \in 1..(n + 1) /\ (n + 1) - 1 = n
    BY <1>1
  <2>2. \A i \in 1..(n + 1) : g[i] = g[i - 1] \o UnitsOf(t[i])
    BY <1>3, <2>1, UptoStep, ZenonT(60)
  <2> QED BY <2>1, <2>2
<1> HIDE DEF n
<1>8. n \in 0..n
  BY <1>1
<1> QED BY <1>1, <1>4, <1>5, <1>6, <1>7, <1>8

LEMMA OwnUnitsEmpty == OwnUnits(<<>>) = <<>>
<1>1. <<>> \in Seq(Transcript) /\ Len(<<>>) = 0
  OBVIOUS
<1>2. PICK f : Upto(f, <<>>, 0)
  BY UptoExists
<1>3. OwnUnits(<<>>) = f[0]
  BY <1>1, <1>2, OwnUnitsUpto
<1> QED BY <1>2, <1>3, UptoStep

LEMMA OwnUnitsType ==
    ASSUME NEW s \in Seq(Transcript)
    PROVE  OwnUnits(s) \in Seq(OwnKinds)
<1>0. Len(s) \in Nat /\ \A i \in 1..Len(s) : s[i] \in Transcript
  OBVIOUS
<1>1. PICK f : Upto(f, s, Len(s))
  BY <1>0, UptoExists
<1>2. f[0] = <<>> /\ \A i \in 1..Len(s) : f[i] = f[i - 1] \o UnitsOf(s[i])
  BY <1>0, <1>1, UptoStep, ZenonT(60)
<1> DEFINE Bad == {i \in 0..Len(s) : f[i] \notin Seq(OwnKinds)}
<1>3. Bad = {}
  <2> SUFFICES ASSUME Bad # {} PROVE FALSE
    OBVIOUS
  <2>0. Bad \in SUBSET Nat
    OBVIOUS
  <2>1. PICK i \in Bad : \A j \in Bad : i <= j
    <3> HIDE DEF Bad
    <3> QED BY <2>0, LeastNatural
  <2>2. i \in 1..Len(s)
    <3>1. f[0] \in Seq(OwnKinds)
      <4>1. <<>> \in Seq(OwnKinds)
        OBVIOUS
      <4> QED BY <1>2, <4>1
    <3>2. i # 0
      BY <3>1
    <3> QED BY <1>0, <3>2
  <2>3. i - 1 \in 0..Len(s) /\ i - 1 \notin Bad
    BY <2>1, <2>2
  <2>4. f[i - 1] \in Seq(OwnKinds)
    BY <2>3
  <2>5. UnitsOf(s[i]) \in Seq(OwnKinds)
    BY <1>0, <2>2, UnitsOfType
  <2>6. f[i] \in Seq(OwnKinds)
    <3>1. f[i] = f[i - 1] \o UnitsOf(s[i])
      BY <1>2, <2>2
    <3> QED BY <2>4, <2>5, <3>1
  <2> QED BY <2>6
<1>4. OwnUnits(s) = f[Len(s)]
  BY <1>1, OwnUnitsUpto
<1> QED BY <1>3, <1>4

-----------------------------------------------------------------------------
(* What accepting a message means *)

LEMMA AlpnRules ==
    ASSUME NEW h, NEW m, alpn_check(h, m) = "none"
    PROVE  "alpn" \in m.exts => m.alpn \in h.offer.alpn
BY DEF alpn_check

LEMMA EeRules ==
    ASSUME NEW h, NEW m, NEW env, FirstAlert(ee_rules(h, m, env)) = "none"
    PROVE  "alpn" \in m.exts => m.alpn \in h.offer.alpn
<1>1. DOMAIN ee_rules(h, m, env) = 1..8 /\ ee_rules(h, m, env)[5] = alpn_check(h, m)
  BY DEF ee_rules
<1>2. alpn_check(h, m) = "none"
  BY <1>1, NoneRaised
<1> QED BY <1>2, AlpnRules

LEMMA ExtRules ==
    ASSUME NEW h, NEW m, ext_check(h, m, "SH") = "none"
    PROVE  m.exts \subseteq h.offer.exts
<1>1. DOMAIN ext_rules(h, m, "SH") = 1..4
      /\ ext_rules(h, m, "SH")[2] = When(~(m.exts \subseteq h.offer.exts), "unsupported_extension")
  BY DEF ext_rules
<1>2. FirstAlert(ext_rules(h, m, "SH")) = "none"
  BY DEF ext_check
<1>3. When(~(m.exts \subseteq h.offer.exts), "unsupported_extension") = "none"
  BY <1>1, <1>2, NoneRaised
<1> QED BY <1>3 DEF When

LEMMA Sh13Rules ==
    ASSUME NEW h, NEW m, FirstAlert(sh13_rules(h, m)) = "none"
    PROVE  /\ m.suite \in Suites13 \cap h.offer.suites
           /\ h.hrr_seen => m.suite = h.suite
           /\ ~m.hrr => m.exts \subseteq h.offer.exts
<1>1. /\ DOMAIN sh13_rules(h, m) = 1..7
      /\ sh13_rules(h, m)[4] = When(m.suite \notin Suites13 \cap h.offer.suites, "illegal_parameter")
      /\ sh13_rules(h, m)[5] = When(h.hrr_seen /\ m.suite # h.suite, "illegal_parameter")
      /\ sh13_rules(h, m)[7] = ext_check(h, m, IF m.hrr THEN "HRR" ELSE "SH")
  BY DEF sh13_rules
<1>2. \A i \in 1..7 : sh13_rules(h, m)[i] = "none"
  BY <1>1, NoneRaised
<1>3. m.suite \in Suites13 \cap h.offer.suites
  BY <1>1, <1>2 DEF When
<1>4. h.hrr_seen => m.suite = h.suite
  BY <1>1, <1>2 DEF When
<1>5. ~m.hrr => m.exts \subseteq h.offer.exts
  BY <1>1, <1>2, ExtRules
<1> QED BY <1>3, <1>4, <1>5

LEMMA PskRules ==
    ASSUME NEW h, NEW m, FirstAlert(psk_rules(h, m)) = "none"
    PROVE  /\ "psk" \in m.exts => alg(m.suite) = alg(h.psk_suite)
           /\ m.group = h.share_group
<1>1. /\ DOMAIN psk_rules(h, m) = 1..5
      /\ psk_rules(h, m)[2] = When("psk" \in m.exts /\ (m.flaw = "psk_id" \/ alg(m.suite) # alg(h.psk_suite)
                       \/ "key_share" \notin m.exts), "illegal_parameter")
      /\ psk_rules(h, m)[5] = When(m.group # h.share_group \/ m.group \notin ShareGroups, "illegal_parameter")
  BY DEF psk_rules
<1>2. \A i \in 1..5 : psk_rules(h, m)[i] = "none"
  BY <1>1, NoneRaised
<1>3. "psk" \in m.exts => alg(m.suite) = alg(h.psk_suite)
  BY <1>1, <1>2 DEF When
<1>4. m.group = h.share_group
  BY <1>1, <1>2 DEF When
<1> QED BY <1>3, <1>4

LEMMA HrrRules ==
    ASSUME NEW h, NEW m, FirstAlert(hrr_rules(h, m)) = "none", "key_share" \in m.exts
    PROVE  m.group # h.share_group /\ m.group \in ShareGroups
<1>1. /\ DOMAIN hrr_rules(h, m) = 1..5
      /\ hrr_rules(h, m)[1] = When("key_share" \in m.exts /\ (m.group \notin h.offer.groups \/ m.group = h.share_group),
                "illegal_parameter")
      /\ hrr_rules(h, m)[2] = When("key_share" \in m.exts /\ m.group \notin ShareGroups, "handshake_failure")
  BY DEF hrr_rules
<1>2. \A i \in 1..5 : hrr_rules(h, m)[i] = "none"
  BY <1>1, NoneRaised
<1>3. m.group # h.share_group
  BY <1>1, <1>2 DEF When
<1>4. m.group \in ShareGroups
  BY <1>1, <1>2 DEF When
<1> QED BY <1>3, <1>4

LEMMA Sh12Rules ==
    ASSUME NEW h, NEW m, FirstAlert(sh12_rules(h, m)) = "none"
    PROVE  /\ ~m.hrr /\ ~h.hrr_seen
           /\ m.suite \in h.offer.suites
           /\ m.exts \subseteq h.offer.exts
           /\ "alpn" \in m.exts => m.alpn \in h.offer.alpn
<1>1. /\ DOMAIN sh12_rules(h, m) = 1..7
      /\ sh12_rules(h, m)[1] = When(m.hrr \/ h.hrr_seen, "illegal_parameter")
      /\ sh12_rules(h, m)[2] = When(m.suite \notin Suites12 \cap h.offer.suites \/ m.flaw = "compression",
                                    "illegal_parameter")
      /\ sh12_rules(h, m)[4] = When(~(m.exts \subseteq SH12_EXT \cap h.offer.exts), "unsupported_extension")
      /\ sh12_rules(h, m)[7] = alpn_check(h, m)
  BY DEF sh12_rules
<1>2. \A i \in 1..7 : sh12_rules(h, m)[i] = "none"
  BY <1>1, NoneRaised
<1>3. ~m.hrr /\ ~h.hrr_seen
  BY <1>1, <1>2 DEF When
<1>4. m.suite \in h.offer.suites
  BY <1>1, <1>2 DEF When
<1>5. m.exts \subseteq h.offer.exts
  BY <1>1, <1>2 DEF When
<1>6. "alpn" \in m.exts => m.alpn \in h.offer.alpn
  BY <1>1, <1>2, AlpnRules
<1> QED BY <1>3, <1>4, <1>5, <1>6

LEMMA CvRules ==
    ASSUME NEW h, NEW m, FirstAlert(verify_rules(h, m)) = "none"
    PROVE  m.verdict = "none"
<1>1. DOMAIN verify_rules(h, m) = 1..3 /\ verify_rules(h, m)[3] = m.verdict
  BY DEF verify_rules
<1> QED BY <1>1, NoneRaised

LEMMA SkeRules ==
    ASSUME NEW h, NEW m, FirstAlert(ske_rules(h, m)) = "none"
    PROVE  m.verdict = "none"
<1>1. DOMAIN ske_rules(h, m) = 1..5 /\ ske_rules(h, m)[4] = m.verdict
  BY DEF ske_rules
<1> QED BY <1>1, NoneRaised

-----------------------------------------------------------------------------
(* Listening: what a message that is accepted leaves in order *)

Same(r, h, changed) == \A f \in Fields \ changed : r[f] = h[f]

\* r is h and has heard m besides.
Listens(r, h, m) ==
    /\ r.th = Append(h.th, m) /\ h.th \in Seq(Transcript) /\ m \in Messages
    /\ r.exports = h.exports /\ r.out = h.out /\ r.out_off = h.out_off /\ r.out_split = h.out_split
    /\ h.state \notin Late \cup {"START", "FAILED"} /\ r.state \notin Late \cup {"START", "FAILED"}

LEMMA ServerMessage ==
    ASSUME NEW m \in Messages
    PROVE  m \in Transcript /\ m.t \in ServerKinds /\ m.t \notin OwnKinds
           /\ Kind(m) \notin OwnKinds /\ m.sz \in Nat \ {0}
           /\ (Kind(m) = m.t \/ (Kind(m) = "HRR" /\ m.t = "SH"))
BY HandshakeAssumption DEF Transcript, ServerKinds, OwnKinds, Kind

LEMMA ListensTo ==
    ASSUME NEW h, NEW r, NEW m, Listens(r, h, m)
    PROVE  /\ r.th \in Seq(Transcript) /\ r.th # <<>>
           /\ Kinds(r.th) = Append(Kinds(h.th), Kind(m))
           /\ Of(r.th, Kind(m)) # {} /\ The(r.th, Kind(m)) = m
           /\ h.th # <<>> => r.th[1] = h.th[1]
           /\ OwnUnits(r.th) = OwnUnits(h.th)
<1>1. m \in Transcript /\ h.th \in Seq(Transcript) /\ r.th = Append(h.th, m)
  BY ServerMessage DEF Listens
<1>2. /\ r.th \in Seq(Transcript) /\ Of(r.th, Kind(m)) # {} /\ The(r.th, Kind(m)) = m
      /\ h.th # <<>> => r.th[1] = h.th[1]
  BY <1>1, Appended
<1>3. r.th # <<>>
  <2>1. Len(r.th) = Len(h.th) + 1 /\ Len(h.th) \in Nat
    BY <1>1
  <2> QED BY <2>1
<1>4. Kinds(r.th) = Append(Kinds(h.th), Kind(m))
  BY <1>1, KindsAppended
<1>6. OwnUnits(r.th) = OwnUnits(h.th)
  <2>1. UnitsOf(m) = <<>>
    BY ServerMessage DEF Listens, UnitsOf
  <2>2. OwnUnits(r.th) = OwnUnits(h.th) \o <<>> /\ OwnUnits(h.th) \in Seq(OwnKinds)
    BY <1>1, <2>1, OwnUnitsAppended, OwnUnitsType
  <2> QED BY <2>2
<1> QED BY <1>2, <1>3, <1>4, <1>6

LEMMA ListensToOther ==
    ASSUME NEW h, NEW r, NEW m, Listens(r, h, m), NEW kind, kind # Kind(m)
    PROVE  /\ Of(r.th, kind) = Of(h.th, kind)
           /\ Of(h.th, kind) # {} => The(r.th, kind) = The(h.th, kind)
<1>1. m \in Transcript /\ h.th \in Seq(Transcript) /\ r.th = Append(h.th, m)
  BY ServerMessage DEF Listens
<1> QED BY <1>1, Other

\* Listening changes neither the queue nor what was sent, nor what the secrets that were handed
\* over are bound to.
LEMMA ListensReady ==
    ASSUME NEW h, NEW r, NEW m, NEW s, Listens(r, h, m), Ready(h, s)
    PROVE  s \in SentType /\ Queued(r, s) /\ SentRight(r, s) /\ HandedInOrder(r)
<1>1. OwnUnits(r.th) = OwnUnits(h.th)
  BY ListensTo
<1>2. Queued(r, s)
  BY <1>1 DEF Ready, Queued, InLine, Listens, Pending
<1>3. SentRight(r, s)
  BY DEF Ready, SentRight, SentAs, Listens
<1>4. HandedInOrder(r)
  <2>1. m \in Transcript /\ h.th \in Seq(Transcript) /\ r.th = Append(h.th, m) /\ "CKE" # Kind(m)
    BY ServerMessage DEF Listens, OwnKinds
  <2>2. \A kind : kind # Kind(m) => Of(r.th, kind) = Of(h.th, kind)
    BY ListensToOther
  <2>3. Handover(r.th) = Handover(h.th)
    BY <2>1, <2>2 DEF Handover
  <2>4. \A i \in DOMAIN h.th : i \in DOMAIN r.th /\ r.th[i] = h.th[i]
    BY <2>1
  <2>5. HandedInOrder(h)
    BY DEF Ready, Heard, KeysBoundToTranscript
  <2>6. h.exports \in Seq(Epochs \X {"recv", "send"} \X Nat)
    BY DEF Ready, Heard, Typed
  <2> QED BY <2>3, <2>4, <2>5, <2>6 DEF HandedInOrder, Listens
<1> QED BY <1>2, <1>3, <1>4 DEF Ready

\* All of it, for a transcript that has begun.
Heeds(r, h, kind, m) ==
    /\ r.th \in Seq(Transcript) /\ r.th[1] = h.th[1] /\ Kinds(r.th) = Append(Kinds(h.th), kind)
    /\ Of(r.th, kind) # {} /\ The(r.th, kind) = m
    /\ \A other : other # kind =>
          /\ Of(r.th, other) = Of(h.th, other)
          /\ Of(h.th, other) # {} => The(r.th, other) = The(h.th, other)

LEMMA ListensHeeds ==
    ASSUME NEW h, NEW r, NEW m, NEW s, Listens(r, h, m), Ready(h, s), NEW kind, Kind(m) = kind
    PROVE  Heeds(r, h, kind, m)
<1>1. h.th # <<>>
  <2>1. Of(h.th, "CH") # {}
    <3>1. h.state \in Open
      BY DEF Listens, Late, Open, Mid13, Mid12, Ready, Heard, Typed, States, ServerStates13,
             ServerStates12
    <3> QED BY <3>1 DEF Ready, Heard, Offered
  <2> QED BY <2>1 DEF Of
<1>2. \A other : other # Kind(m) =>
         /\ Of(r.th, other) = Of(h.th, other)
         /\ Of(h.th, other) # {} => The(r.th, other) = The(h.th, other)
  BY ListensToOther
<1>3. /\ r.th \in Seq(Transcript) /\ r.th[1] = h.th[1] /\ Kinds(r.th) = Append(Kinds(h.th), Kind(m))
      /\ Of(r.th, Kind(m)) # {} /\ The(r.th, Kind(m)) = m
  BY <1>1, ListensTo
<1> QED BY <1>2, <1>3 DEF Heeds

-----------------------------------------------------------------------------
(* The handlers *)

\* r is what is left of h after a failure.
Fallen(r, h) ==
    /\ Shape(r) /\ r.state = "FAILED" /\ r.secrets = {} /\ r.n_certs = 0
    /\ r.out = <<>> /\ r.out_off = 0 /\ r.out_split = 0 /\ r.buf = <<>>
    /\ Same(r, h, {"state", "alert", "err", "secrets", "out", "out_off", "out_split", "n_certs",
                   "buf"})

LEMMA FailDoes ==
    ASSUME NEW h, NEW alert, Shape(h)
    PROVE  Fallen(fail(h, alert), h) /\ Fallen(tls12_insecure(h, alert), h)
<1> DEFINE r == fail(h, alert)
<1>1. Shape(r)
  BY DEF Shape, fail
<1>2. /\ r.state = "FAILED" /\ r.secrets = {} /\ r.n_certs = 0
      /\ r.out = <<>> /\ r.out_off = 0 /\ r.out_split = 0 /\ r.buf = <<>>
  BY DEF Shape, Fields, fail, hs_wipe_secrets
<1>3. Same(r, h, {"state", "alert", "err", "secrets", "out", "out_off", "out_split", "n_certs",
                  "buf"})
  BY DEF Shape, Same, fail
<1>4. Fallen(r, h)
  BY <1>1, <1>2, <1>3 DEF Fallen
<1> DEFINE t == [r EXCEPT !.err = "E_INSECURE"]
<1> HIDE DEF r
<1>5. Shape(t) /\ Same(t, r, {"err"})
  BY <1>1 DEF Shape, Same
<1> HIDE DEF t
<1>6. Fallen(t, h)
  <2>1. /\ t.state = r.state /\ t.secrets = r.secrets /\ t.n_certs = r.n_certs
        /\ t.out = r.out /\ t.out_off = r.out_off /\ t.out_split = r.out_split /\ t.buf = r.buf
    BY <1>5 DEF Same, Fields
  <2>2. Same(t, h, {"state", "alert", "err", "secrets", "out", "out_off", "out_split", "n_certs",
                    "buf"})
    BY <1>3, <1>5 DEF Same
  <2> QED BY <1>2, <1>5, <2>1, <2>2 DEF Fallen
<1> QED BY <1>4, <1>6 DEF tls12_insecure, r, t

\* A failure keeps everything, whatever was about to happen.
LEMMA FallenKeeps ==
    ASSUME NEW h, NEW r, Fallen(r, h), Typed(h), HandedInOrder(h)
    PROVE  /\ Heard(r) /\ r.state = "FAILED" /\ r.th = h.th /\ r.exports = h.exports
           /\ r.in_len = h.in_len
<1>1. /\ Shape(r) /\ r.state = "FAILED" /\ r.secrets = {} /\ r.n_certs = 0
      /\ r.out = <<>> /\ r.out_off = 0 /\ r.out_split = 0 /\ r.buf = <<>>
  BY DEF Fallen
<1>2. /\ r.th = h.th /\ r.exports = h.exports /\ r.in_len = h.in_len /\ r.version = h.version
      /\ r.in_epoch = h.in_epoch /\ r.hrr_seen = h.hrr_seen /\ r.cr_seen = h.cr_seen
      /\ r.psk_ok = h.psk_ok /\ r.in_base = h.in_base
  BY DEF Fallen, Same, Fields
<1>3. Typed(r)
  <2>1. <<>> \in Seq([m : Messages, k : Nat, ep : Epochs])
        /\ <<>> \in Seq([m : OwnKinds, ep : Epochs]) /\ "FAILED" \in States
    BY DEF States
  <2> QED BY <1>1, <1>2, <2>1 DEF Typed
<1>4. HandedInOrder(r) /\ KeysBoundToTranscript(r)
  BY <1>1, <1>2 DEF HandedInOrder, KeysBoundToTranscript
<1>5. /\ Script(r) /\ Flags(r) /\ Offered(r) /\ Retried(r) /\ Unheard(r) /\ Chosen(r)
      /\ KeysAt(r) /\ SecretsAt(r) /\ Certs(r) /\ r.state \notin Late
  BY <1>1 DEF Script, Flags, Offered, Retried, Unheard, Chosen, KeysAt, SecretsAt, Certs,
              Late, Mid13, Mid12, Early, Open
<1> QED BY <1>1, <1>2, <1>3, <1>4, <1>5 DEF Heard

\* What a handler leaves when it is done with a message.
Handled(r, h, s) == Ready(r, s) /\ r.in_len = h.in_len

LEMMA FallenHandled ==
    ASSUME NEW h, NEW s, NEW r, Fallen(r, h), Ready(h, s)
    PROVE  Handled(r, h, s)
<1>1. Typed(h) /\ HandedInOrder(h)
  BY DEF Ready, Heard, KeysBoundToTranscript
<1>2. Heard(r) /\ r.state = "FAILED" /\ r.th = h.th /\ r.exports = h.exports /\ r.in_len = h.in_len
  BY <1>1, FallenKeeps
<1>3. Queued(r, s) /\ SentRight(r, s)
  BY <1>2 DEF Ready, Queued, SentRight, SentAs, Holds
<1> QED BY <1>2, <1>3 DEF Handled, Ready

LEMMA FailHandled ==
    ASSUME NEW h, NEW s, NEW alert, Ready(h, s)
    PROVE  Handled(fail(h, alert), h, s) /\ Handled(tls12_insecure(h, alert), h, s)
<1>1. Shape(h)
  BY DEF Ready, Heard, Typed
<1> QED BY <1>1, FailDoes, FallenHandled

\* Nothing has left for a later epoch, and so what was sent stays right whatever happens.
LEMMA StillRight ==
    ASSUME NEW h, NEW s, Ready(h, s), h.state \notin Late \cup {"FAILED"}, NEW r
    PROVE  SentRight(r, s)
BY DEF Ready, SentRight, SentAs

\* A handler that fails half way, at g.
LEMMA FailsLater ==
    ASSUME NEW h, NEW s, Ready(h, s), h.state \notin Late \cup {"FAILED"},
           NEW g, Typed(g), HandedInOrder(g), g.in_len = h.in_len, NEW alert
    PROVE  Handled(fail(g, alert), h, s)
<1> DEFINE r == fail(g, alert)
<1>1. Fallen(r, g)
  BY FailDoes DEF Typed
<1> HIDE DEF r
<1>2. Heard(r) /\ r.state = "FAILED" /\ r.in_len = g.in_len
  BY <1>1, FallenKeeps
<1>3. SentRight(r, s)
  BY StillRight
<1> QED BY <1>2, <1>3 DEF Ready, Queued, Handled, r

\* Two secrets are handed over, or the owner refuses the first or the second.
GivesOne(h, n, epoch, dir) == [h EXCEPT !.exports = Append(@, <<epoch, dir, n>>)]
LEMMA ExportedDoes ==
    ASSUME NEW h, NEW n, NEW epoch, NEW first \in Callbacks, NEW second \in Callbacks,
           NEW env \in [Callbacks -> BOOLEAN]
    PROVE  LET e == exported(h, n, epoch, first, second, env)
               g == GivesOne(h, n, epoch, first)
           IN  \/ e = fail(h, "internal_error")
               \/ e = fail(g, "internal_error")
               \/ e = GivesOne(g, n, epoch, second)
<1>1. env[first] \in BOOLEAN /\ env[second] \in BOOLEAN
  OBVIOUS
<1>2. CASE ~env[first]
  BY <1>2 DEF exported
<1>3. CASE env[first] /\ ~env[second]
  BY <1>3 DEF exported, GivesOne
<1>4. CASE env[first] /\ env[second]
  BY <1>4 DEF exported, GivesOne
<1> QED BY <1>1, <1>2, <1>3, <1>4

LEMMA GivesOneDoes ==
    ASSUME NEW h, NEW n, NEW epoch, NEW dir, Shape(h)
    PROVE  LET g == GivesOne(h, n, epoch, dir)
           IN  /\ Shape(g) /\ Same(g, h, {"exports"})
               /\ g.exports = Append(h.exports, <<epoch, dir, n>>)
<1>1. Shape(GivesOne(h, n, epoch, dir))
  BY DEF Shape, GivesOne
<1>2. Same(GivesOne(h, n, epoch, dir), h, {"exports"})
  BY DEF Shape, Same, GivesOne
<1>3. GivesOne(h, n, epoch, dir).exports = Append(h.exports, <<epoch, dir, n>>)
  BY DEF Shape, Fields, GivesOne
<1> QED BY <1>1, <1>2, <1>3

\* A secret over the first n messages that is next in order.
LEMMA GivesOneKeeps ==
    ASSUME NEW h, Typed(h), HandedInOrder(h), NEW n \in DOMAIN h.th, NEW epoch \in Epochs,
           NEW dir \in {"recv", "send"}, Len(h.exports) < Len(Handover(h.th)),
           <<epoch, dir, Kind(h.th[n])>> = Handover(h.th)[Len(h.exports) + 1]
    PROVE  LET g == GivesOne(h, n, epoch, dir)
           IN  /\ Typed(g) /\ HandedInOrder(g) /\ Same(g, h, {"exports"})
               /\ Len(g.exports) = Len(h.exports) + 1
               /\ Holds(g, epoch, dir) /\ \A e, d : Holds(h, e, d) => Holds(g, e, d)
<1> DEFINE g == GivesOne(h, n, epoch, dir)
<1>1. Shape(g) /\ Same(g, h, {"exports"}) /\ g.exports = Append(h.exports, <<epoch, dir, n>>)
  BY GivesOneDoes DEF Typed
<1> HIDE DEF g
<1>2. /\ g.state = h.state /\ g.version = h.version /\ g.in_epoch = h.in_epoch
      /\ g.hrr_seen = h.hrr_seen /\ g.cr_seen = h.cr_seen /\ g.psk_ok = h.psk_ok
      /\ g.in_base = h.in_base /\ g.in_len = h.in_len /\ g.n_certs = h.n_certs
      /\ g.out_off = h.out_off /\ g.out_split = h.out_split /\ g.th = h.th /\ g.buf = h.buf
      /\ g.out = h.out
  BY <1>1 DEF Same, Fields
<1>3. /\ h.exports \in Seq(Epochs \X {"recv", "send"} \X Nat)
      /\ <<epoch, dir, n>> \in Epochs \X {"recv", "send"} \X Nat
      /\ h.th \in Seq(Transcript)
  BY DEF Typed
<1>4. /\ g.exports \in Seq(Epochs \X {"recv", "send"} \X Nat)
      /\ Len(g.exports) = Len(h.exports) + 1 /\ g.exports[Len(h.exports) + 1] = <<epoch, dir, n>>
      /\ \A i \in 1..Len(h.exports) : g.exports[i] = h.exports[i]
      /\ Len(h.exports) \in Nat
      /\ DOMAIN g.exports = 1..Len(h.exports) + 1 /\ DOMAIN h.exports = 1..Len(h.exports)
  BY <1>1, <1>3
<1>5. Typed(g)
  BY <1>1, <1>2, <1>4 DEF Typed
<1>6. HandedInOrder(g)
  <2>1. Len(g.exports) <= Len(Handover(g.th))
    <3>1. Len(Handover(h.th)) \in Nat
      BY DEF Handover
    <3> QED BY <1>2, <1>4, <3>1
  <2>2. ASSUME NEW i \in 1..Len(h.exports)
        PROVE  /\ g.exports[i][3] \in DOMAIN g.th
               /\ <<g.exports[i][1], g.exports[i][2], Kind(g.th[g.exports[i][3]])>> = Handover(g.th)[i]
    BY <1>2, <1>4, <2>2 DEF HandedInOrder
  <2>3. LET i == Len(h.exports) + 1
        IN  /\ g.exports[i][3] \in DOMAIN g.th
            /\ <<g.exports[i][1], g.exports[i][2], Kind(g.th[g.exports[i][3]])>> = Handover(g.th)[i]
    BY <1>2, <1>4
  <2>4. \A i \in DOMAIN g.exports : i \in 1..Len(h.exports) \/ i = Len(h.exports) + 1
    BY <1>4
  <2> QED BY <2>1, <2>2, <2>3, <2>4 DEF HandedInOrder
<1>7. ASSUME NEW e, NEW d, Holds(h, e, d) PROVE Holds(g, e, d)
  <2>1. PICK i \in DOMAIN h.exports : h.exports[i][1] = e /\ h.exports[i][2] = d
    BY <1>7 DEF Holds
  <2>2. i \in DOMAIN g.exports /\ g.exports[i] = h.exports[i]
    <3>1. DOMAIN h.exports = 1..Len(h.exports) /\ DOMAIN g.exports = 1..Len(h.exports) + 1
      BY <1>4
    <3>2. i \in 1..Len(h.exports)
      BY <3>1
    <3>3. i \in 1..Len(h.exports) + 1
      <4>1. Len(h.exports) \in Nat
        BY <1>4
      <4> QED BY <3>2, <4>1
    <3>4. g.exports[i] = h.exports[i]
      BY <1>4, <3>2
    <3> QED BY <3>1, <3>3, <3>4
  <2> QED BY <2>1, <2>2 DEF Holds
<1>8. Holds(g, epoch, dir)
  <2>1. Len(h.exports) + 1 \in DOMAIN g.exports
    BY <1>4
  <2>2. g.exports[Len(h.exports) + 1][1] = epoch /\ g.exports[Len(h.exports) + 1][2] = dir
    BY <1>4
  <2> QED BY <2>1, <2>2 DEF Holds
<1> QED BY <1>1, <1>4, <1>5, <1>6, <1>7, <1>8 DEF g

LEMMA AfterGreeting ==
    ASSUME NEW h, NEW kind
    PROVE  Append(Greeting(h), kind) = Greeting(h) \o <<kind>>
<1> DEFINE S == {"CH", "HRR", kind}
<1>1. <<"CH", "HRR", "CH">> \in Seq(S) /\ <<"CH">> \in Seq(S)
  OBVIOUS
<1>2. Greeting(h) \in Seq(S)
  <2> HIDE DEF S
  <2> QED BY <1>1 DEF Greeting
<1> QED BY <1>2, AppendIsConcat

LEMMA AfterMet ==
    ASSUME NEW h
    PROVE  /\ \A kind : Append(Met(h), kind) = Met(h) \o <<kind>>
           /\ Met(h) \o <<>> = Met(h)
<1>1. ASSUME NEW kind PROVE Append(Met(h), kind) = Met(h) \o <<kind>> /\ Met(h) \o <<>> = Met(h)
  <2> DEFINE S == {"CH", "HRR", "SH", "EE", kind}
  <2>1. <<"CH", "HRR", "CH">> \in Seq(S) /\ <<"CH">> \in Seq(S) /\ <<"SH", "EE">> \in Seq(S)
    OBVIOUS
  <2>2. kind \in S
    OBVIOUS
  <2> HIDE DEF S
  <2>3. Greeting(h) \in Seq(S)
    BY <2>1 DEF Greeting
  <2>4. Met(h) \in Seq(S)
    BY <2>1, <2>3, ConcatProperties DEF Met
  <2> QED BY <2>2, <2>4, AppendIsConcat, ConcatEmptySeq
<1> QED BY <1>1

\* The handlers between the ServerHello and the Finished change little, and little with it.
Settled(r, h) ==
    \A f \in {"cfg", "version", "suite", "in_epoch", "hrr_seen", "hrr_group", "cookie",
              "psk_suite", "psk_ok", "tls12_offered", "offer", "share_group", "in_len", "out",
              "out_off", "out_split", "exports"} : r[f] = h[f]

LEMMA SettledKeeps ==
    ASSUME NEW h, NEW s, Ready(h, s), NEW r, NEW m, Listens(r, h, m), Settled(r, h),
           NEW kind, Kind(m) = kind, kind \notin {"SH", "HRR"},
           (h.state \in Mid13 /\ r.state \in Mid13) \/ (h.state \in Mid12 /\ r.state \in Mid12)
    PROVE  /\ s \in SentType /\ Queued(r, s) /\ SentRight(r, s) /\ Heeds(r, h, kind, m)
           /\ Offered(r) /\ Retried(r) /\ KeysBoundToTranscript(r) /\ KeysAt(r) /\ r.state \notin Late
<1>1. Typed(h) /\ Heard(h) /\ h.state \in Open /\ h.state # "WAIT_CH2"
  BY DEF Ready, Heard, Open, Mid13, Mid12
<1>2. /\ r.cfg = h.cfg /\ r.version = h.version /\ r.suite = h.suite /\ r.in_epoch = h.in_epoch
      /\ r.hrr_seen = h.hrr_seen /\ r.hrr_group = h.hrr_group /\ r.cookie = h.cookie
      /\ r.tls12_offered = h.tls12_offered /\ r.offer = h.offer
      /\ r.share_group = h.share_group /\ r.exports = h.exports
  BY DEF Settled
<1>3. s \in SentType /\ Queued(r, s) /\ SentRight(r, s) /\ HandedInOrder(r)
  BY ListensReady
<1>4. Heeds(r, h, kind, m)
  BY ListensHeeds
<1>5. kind # "CH"
  <2>1. "CH" # Kind(m)
    BY ServerMessage DEF Listens, OwnKinds
  <2> QED BY <2>1
<1>6. Offered(r)
  BY <1>1, <1>2, <1>4, <1>5 DEF Heard, Heeds, Offered, Open, Mid13, Mid12
<1>7. Retried(r)
  <2>1. Retried(h)
    BY <1>1 DEF Heard
  <2>2. CASE ~h.hrr_seen
    BY <1>1, <1>2, <1>4, <2>1, <2>2 DEF Retried, Heeds
  <2>3. CASE h.hrr_seen
    <3>1. /\ Of(r.th, "HRR") = Of(h.th, "HRR") /\ Of(h.th, "HRR") # {}
          /\ The(r.th, "HRR") = The(h.th, "HRR") /\ The(r.th, "CH") = The(h.th, "CH")
      BY <1>1, <1>4, <1>5, <2>1, <2>3 DEF Heeds, Retried, Heard, Offered
    <3> QED BY <1>1, <1>2, <1>4, <2>1, <2>3, <3>1 DEF Retried, Heeds
  <2> QED BY <2>2, <2>3
<1>8. KeysBoundToTranscript(r)
  BY <1>1, <1>2, <1>3 DEF Heard, KeysBoundToTranscript, Holds, Mid13, Mid12
<1>9. KeysAt(r) /\ r.state \notin Late
  BY <1>1, <1>2 DEF Heard, KeysAt, Mid13, Mid12, Early, Late
<1> QED BY <1>3, <1>4, <1>6, <1>7, <1>8, <1>9

LEMMA EeDoes ==
    ASSUME NEW h, NEW m, NEW env, Shape(h)
    PROVE  LET r == hs_on_ee(h, m, env)
           IN  \/ \E alert : r = fail(h, alert)
               \/ /\ Shape(r)
                  /\ Same(r, h, {"th", "peer_rsl", "alpn_sel", "state"})
                  /\ r.th = Append(h.th, m)
                  /\ r.alpn_sel \in h.offer.alpn \cup {"none"}
                  /\ r.state = IF h.psk_ok THEN "WAIT_FIN" ELSE "WAIT_CERT_CR"
<1> DEFINE ok == [th_add(h, m) EXCEPT
                  !.peer_rsl = "rsl" \in m.exts,
                  !.alpn_sel = IF "alpn" \in m.exts THEN m.alpn ELSE "none",
                  !.state = IF h.psk_ok THEN "WAIT_FIN" ELSE "WAIT_CERT_CR"]
<1>1. \/ \E alert : hs_on_ee(h, m, env) = fail(h, alert)
      \/ hs_on_ee(h, m, env) = ok /\ FirstAlert(ee_rules(h, m, env)) = "none"
  BY DEF hs_on_ee
<1>2. FirstAlert(ee_rules(h, m, env)) = "none" => ("alpn" \in m.exts => m.alpn \in h.offer.alpn)
  BY EeRules
<1>3. Shape(ok)
  BY DEF Shape, th_add
<1>4. Same(ok, h, {"th", "peer_rsl", "alpn_sel", "state"})
  BY DEF Shape, Same, th_add
<1>5. /\ ok.th = Append(h.th, m)
      /\ ok.alpn_sel = IF "alpn" \in m.exts THEN m.alpn ELSE "none"
      /\ ok.state = IF h.psk_ok THEN "WAIT_FIN" ELSE "WAIT_CERT_CR"
  BY DEF Shape, Fields, th_add
<1> HIDE DEF ok
<1> QED BY <1>1, <1>2, <1>3, <1>4, <1>5

LEMMA EeKeeps ==
    ASSUME NEW h, NEW s, Ready(h, s), h.state = "WAIT_EE",
           NEW m \in Messages, m.t = "EE", NEW env
    PROVE  Handled(hs_on_ee(h, m, env), h, s)
<1> DEFINE r == hs_on_ee(h, m, env)
<1>1. Typed(h) /\ Shape(h) /\ Heard(h)
  BY DEF Ready, Heard, Typed
<1>2. CASE \E alert : r = fail(h, alert)
  BY <1>2, FailHandled
<1>3. CASE ~\E alert : r = fail(h, alert)
  <2>1. /\ Shape(r) /\ Same(r, h, {"th", "peer_rsl", "alpn_sel", "state"})
        /\ r.th = Append(h.th, m)
        /\ r.alpn_sel \in h.offer.alpn \cup {"none"}
        /\ r.state = IF h.psk_ok THEN "WAIT_FIN" ELSE "WAIT_CERT_CR"
    BY <1>3, <1>1, EeDoes
  <2> HIDE DEF r
  <2>2. /\ r.cfg = h.cfg /\ r.version = h.version /\ r.suite = h.suite
        /\ r.in_epoch = h.in_epoch /\ r.hrr_seen = h.hrr_seen /\ r.hrr_group = h.hrr_group
        /\ r.cookie = h.cookie /\ r.psk_suite = h.psk_suite /\ r.psk_ok = h.psk_ok
        /\ r.tls12_offered = h.tls12_offered /\ r.offer = h.offer
        /\ r.share_group = h.share_group /\ r.in_len = h.in_len /\ r.out = h.out
        /\ r.out_off = h.out_off /\ r.out_split = h.out_split /\ r.exports = h.exports
        /\ r.cr_seen = h.cr_seen /\ r.secrets = h.secrets /\ r.buf = h.buf
        /\ r.in_base = h.in_base /\ r.n_certs = h.n_certs
    BY <2>1 DEF Same, Fields
  <2>3. Settled(r, h) /\ Listens(r, h, m) /\ Kind(m) = "EE"
    BY <1>1, <2>1, <2>2 DEF Settled, Listens, Typed, Late, Kind
  <2>4. /\ s \in SentType /\ Queued(r, s) /\ SentRight(r, s) /\ Heeds(r, h, "EE", m)
        /\ Offered(r) /\ Retried(r) /\ KeysBoundToTranscript(r) /\ KeysAt(r) /\ r.state \notin Late
    BY <2>1, <2>3, SettledKeeps DEF Mid13, Mid12
  <2>5. Typed(r)
    BY <1>1, <2>1, <2>2, <2>4, HandshakeAssumption DEF Heard, Heeds, Typed, States, ServerStates13, ServerStates12
  <2>6. Script(r)
    <3>1. Kinds(h.th) = Greeting(h) \o <<"SH">> /\ Met(r) = Greeting(h) \o <<"SH", "EE">>
      BY <1>1, <2>2 DEF Heard, Script, Greeting, Met
    <3>2. Kinds(r.th) = Met(r)
      BY <2>4, <3>1 DEF Heeds
    <3>3. h.psk_ok => Met(r) = Met(r) \o Proof13(r)
      BY <2>2, AfterMet DEF Proof13
    <3> QED BY <2>1, <2>2, <3>2, <3>3 DEF Script
  <2>7. Flags(r)
    BY <1>1, <2>1, <2>2 DEF Heard, Flags, Early, Mid13, Mid12
  <2>8. Unheard(r)
    BY <1>1, <2>1, <2>2, <2>4, SMTT(30) DEF Heard, Heeds, Unheard, Flags, Early, Mid13, Mid12, Late
  <2>9. Chosen(r)
    BY <1>1, <2>1, <2>2, <2>4 DEF Heard, Heeds, Chosen, Flags, Early, Mid13, Mid12
  <2>10. SecretsAt(r)
    BY <1>1, <2>1, <2>2 DEF Heard, SecretsAt, Mid13
  <2>11. Certs(r)
    BY <1>1, <2>1, <2>2, <2>4 DEF Heard, Heeds, Certs
  <2> QED BY <2>2, <2>4, <2>5, <2>6, <2>7, <2>8, <2>9, <2>10, <2>11 DEF Heard, Handled, Ready, r
<1> QED BY <1>2, <1>3

LEMMA CrDoes ==
    ASSUME NEW h, NEW m, Shape(h)
    PROVE  LET r == hs_on_cr(h, m)
           IN  \/ \E alert : r = fail(h, alert)
               \/ /\ Shape(r)
                  /\ Same(r, h, {"th", "cr_sig_ok", "cr_seen", "state"})
                  /\ r.th = Append(h.th, m)
                  /\ r.cr_seen = TRUE
                  /\ r.state = "WAIT_CERT"
<1> DEFINE ok == [th_add(h, m) EXCEPT !.cr_sig_ok = @ \/ m.ecdsa, !.cr_seen = TRUE,
                                      !.state = "WAIT_CERT"]
<1>1. \/ \E alert : hs_on_cr(h, m) = fail(h, alert)
      \/ hs_on_cr(h, m) = ok
  BY DEF hs_on_cr
<1>3. Shape(ok)
  BY DEF Shape, th_add
<1>4. Same(ok, h, {"th", "cr_sig_ok", "cr_seen", "state"})
  BY DEF Shape, Same, th_add
<1>5. /\ ok.th = Append(h.th, m)
      /\ ok.cr_seen = TRUE
      /\ ok.state = "WAIT_CERT"
  BY DEF Shape, Fields, th_add
<1> HIDE DEF ok
<1> QED BY <1>1, <1>3, <1>4, <1>5

LEMMA CrKeeps ==
    ASSUME NEW h, NEW s, Ready(h, s), h.state = "WAIT_CERT_CR",
           NEW m \in Messages, m.t = "CR"
    PROVE  Handled(hs_on_cr(h, m), h, s)
<1> DEFINE r == hs_on_cr(h, m)
<1>1. Typed(h) /\ Shape(h) /\ Heard(h)
  BY DEF Ready, Heard, Typed
<1>2. CASE \E alert : r = fail(h, alert)
  BY <1>2, FailHandled
<1>3. CASE ~\E alert : r = fail(h, alert)
  <2>1. /\ Shape(r) /\ Same(r, h, {"th", "cr_sig_ok", "cr_seen", "state"})
        /\ r.th = Append(h.th, m)
        /\ r.cr_seen = TRUE
        /\ r.state = "WAIT_CERT"
    BY <1>3, <1>1, CrDoes
  <2> HIDE DEF r
  <2>2. /\ r.cfg = h.cfg /\ r.version = h.version /\ r.suite = h.suite
        /\ r.in_epoch = h.in_epoch /\ r.hrr_seen = h.hrr_seen /\ r.hrr_group = h.hrr_group
        /\ r.cookie = h.cookie /\ r.psk_suite = h.psk_suite /\ r.psk_ok = h.psk_ok
        /\ r.tls12_offered = h.tls12_offered /\ r.offer = h.offer
        /\ r.share_group = h.share_group /\ r.in_len = h.in_len /\ r.out = h.out
        /\ r.out_off = h.out_off /\ r.out_split = h.out_split /\ r.exports = h.exports
        /\ r.alpn_sel = h.alpn_sel /\ r.secrets = h.secrets /\ r.buf = h.buf
        /\ r.in_base = h.in_base /\ r.n_certs = h.n_certs
    BY <2>1 DEF Same, Fields
  <2>3. Settled(r, h) /\ Listens(r, h, m) /\ Kind(m) = "CR"
    BY <1>1, <2>1, <2>2 DEF Settled, Listens, Typed, Late, Kind
  <2>4. /\ s \in SentType /\ Queued(r, s) /\ SentRight(r, s) /\ Heeds(r, h, "CR", m)
        /\ Offered(r) /\ Retried(r) /\ KeysBoundToTranscript(r) /\ KeysAt(r) /\ r.state \notin Late
    BY <2>1, <2>3, SettledKeeps DEF Mid13, Mid12
  <2>5. Typed(r)
    BY <1>1, <2>1, <2>2, <2>4, HandshakeAssumption DEF Heard, Heeds, Typed, States, ServerStates13, ServerStates12
  <2>6. Script(r)
    <3>1. Kinds(h.th) = Met(h) /\ Met(r) = Met(h)
      BY <1>1, <2>2 DEF Heard, Script, Greeting, Met
    <3>2. Kinds(r.th) = Met(r) \o <<"CR">>
      BY <2>4, <3>1, AfterMet DEF Heeds
    <3> QED BY <2>1, <2>2, <3>2 DEF Script
  <2>7. Flags(r)
    BY <1>1, <2>1, <2>2 DEF Heard, Flags, Early, Mid13, Mid12
  <2>8. Unheard(r)
    BY <1>1, <2>1, <2>2, <2>4, ZenonT(60) DEF Heard, Heeds, Unheard, Flags, Early, Mid13, Mid12, Late
  <2>9. Chosen(r)
    BY <1>1, <2>1, <2>2, <2>4 DEF Heard, Heeds, Chosen, Flags, Early, Mid13, Mid12
  <2>10. SecretsAt(r)
    BY <1>1, <2>1, <2>2 DEF Heard, SecretsAt, Mid13
  <2>11. Certs(r)
    BY <1>1, <2>1, <2>2, <2>4 DEF Heard, Heeds, Certs
  <2> QED BY <2>2, <2>4, <2>5, <2>6, <2>7, <2>8, <2>9, <2>10, <2>11 DEF Heard, Handled, Ready, r
<1> QED BY <1>2, <1>3

LEMMA CertDoes ==
    ASSUME NEW h, NEW m, Shape(h)
    PROVE  LET r == hs_on_cert(h, m)
           IN  \/ \E alert : r = fail(h, alert)
               \/ /\ Shape(r)
                  /\ Same(r, h, {"th", "n_certs", "in_base", "state"})
                  /\ r.th = Append(h.th, m)
                  /\ r.n_certs = 1 /\ r.in_base = m.sz
                  /\ r.state = "WAIT_CV"
<1> DEFINE ok == keep_certs(h, m, "WAIT_CV")
<1>1. \/ \E alert : hs_on_cert(h, m) = fail(h, alert)
      \/ hs_on_cert(h, m) = ok
  BY DEF hs_on_cert
<1>3. Shape(ok)
  BY DEF Shape, keep_certs, th_add
<1>4. Same(ok, h, {"th", "n_certs", "in_base", "state"})
  BY DEF Shape, Same, keep_certs, th_add
<1>5. /\ ok.th = Append(h.th, m)
      /\ ok.n_certs = 1
      /\ ok.in_base = m.sz
      /\ ok.state = "WAIT_CV"
  BY DEF Shape, Fields, keep_certs, th_add
<1> HIDE DEF ok
<1> QED BY <1>1, <1>3, <1>4, <1>5

LEMMA CertKeeps ==
    ASSUME NEW h, NEW s, Ready(h, s), h.state \in {"WAIT_CERT_CR", "WAIT_CERT"},
           NEW m \in Messages, m.t = "CERT", Begun(h, m, m.sz)
    PROVE  Handled(hs_on_cert(h, m), h, s)
<1> DEFINE r == hs_on_cert(h, m)
<1>1. Typed(h) /\ Shape(h) /\ Heard(h)
  BY DEF Ready, Heard, Typed
<1>2. CASE \E alert : r = fail(h, alert)
  BY <1>2, FailHandled
<1>3. CASE ~\E alert : r = fail(h, alert)
  <2>1. /\ Shape(r) /\ Same(r, h, {"th", "n_certs", "in_base", "state"})
        /\ r.th = Append(h.th, m)
        /\ r.n_certs = 1 /\ r.in_base = m.sz
        /\ r.state = "WAIT_CV"
    BY <1>3, <1>1, CertDoes
  <2> HIDE DEF r
  <2>2. /\ r.cfg = h.cfg /\ r.version = h.version /\ r.suite = h.suite
        /\ r.in_epoch = h.in_epoch /\ r.hrr_seen = h.hrr_seen /\ r.hrr_group = h.hrr_group
        /\ r.cookie = h.cookie /\ r.psk_suite = h.psk_suite /\ r.psk_ok = h.psk_ok
        /\ r.tls12_offered = h.tls12_offered /\ r.offer = h.offer
        /\ r.share_group = h.share_group /\ r.in_len = h.in_len /\ r.out = h.out
        /\ r.out_off = h.out_off /\ r.out_split = h.out_split /\ r.exports = h.exports
        /\ r.cr_seen = h.cr_seen /\ r.alpn_sel = h.alpn_sel /\ r.secrets = h.secrets
        /\ r.buf = h.buf
    BY <2>1 DEF Same, Fields
  <2>3. Settled(r, h) /\ Listens(r, h, m) /\ Kind(m) = "CERT"
    BY <1>1, <2>1, <2>2 DEF Settled, Listens, Typed, Late, Kind
  <2>4. /\ s \in SentType /\ Queued(r, s) /\ SentRight(r, s) /\ Heeds(r, h, "CERT", m)
        /\ Offered(r) /\ Retried(r) /\ KeysBoundToTranscript(r) /\ KeysAt(r) /\ r.state \notin Late
    BY <2>1, <2>3, SettledKeeps DEF Mid13, Mid12
  <2>5. Typed(r)
    BY <1>1, <2>1, <2>2, <2>4, HandshakeAssumption DEF Heard, Heeds, Typed, States, ServerStates13, ServerStates12
  <2>6. Script(r)
    <3>1. CASE h.state = "WAIT_CERT_CR"
      <4>1. Kinds(h.th) = Met(h) /\ Met(r) = Met(h)
        BY <1>1, <2>2, <3>1 DEF Heard, Script, Greeting, Met, Flags
      <4>2. Kinds(r.th) = Met(r) \o <<"CERT">>
        BY <2>4, <4>1, AfterMet DEF Heeds
      <4> QED BY <1>1, <2>1, <2>2, <3>1, <4>2 DEF Script, Heard, Flags
    <3>2. CASE h.state = "WAIT_CERT"
      <4>1. Kinds(h.th) = Met(h) \o <<"CR">> /\ Met(r) = Met(h)
        BY <1>1, <2>2, <3>2 DEF Heard, Script, Greeting, Met, Flags
      <4>2. Kinds(r.th) = Met(r) \o <<"CR", "CERT">>
        BY <2>4, <4>1, AfterMet DEF Heeds
      <4> QED BY <1>1, <2>1, <2>2, <3>2, <4>2 DEF Script, Heard, Flags
    <3> QED BY <3>1, <3>2
  <2>7. Flags(r)
    BY <1>1, <2>1, <2>2 DEF Heard, Flags, Early, Mid13, Mid12
  <2>8. Unheard(r)
    BY <1>1, <2>1, <2>2, <2>4 DEF Heard, Heeds, Unheard, Flags, Early, Mid13, Mid12, Late
  <2>9. Chosen(r)
    BY <1>1, <2>1, <2>2, <2>4 DEF Heard, Heeds, Chosen, Flags, Early, Mid13, Mid12
  <2>10. SecretsAt(r)
    BY <1>1, <2>1, <2>2 DEF Heard, SecretsAt, Mid13
  <2>11. Certs(r)
    <3>1. h.n_certs = 0 /\ h.in_base = 0 /\ m.sz \in Nat
      BY <1>1, HandshakeAssumption DEF Heard, Certs, Typed
    <3>2. m.sz <= Len(h.buf) /\ \A k \in 1..m.sz : h.buf[k] = [m |-> m, k |-> k, ep |-> h.in_epoch]
      BY <3>1 DEF Begun
    <3>3. Of(r.th, "CERT") # {} /\ The(r.th, "CERT") = m
      BY <2>4 DEF Heeds
    <3>4. \A k \in 1..m.sz : r.buf[k].m = m /\ r.buf[k].k = k
      <4> TAKE k \in 1..m.sz
      <4>1. r.buf[k] = [m |-> m, k |-> k, ep |-> h.in_epoch]
        BY <2>2, <3>2
      <4> QED BY <4>1
    <3> QED BY <2>1, <2>2, <3>1, <3>2, <3>3, <3>4 DEF Certs
  <2> QED BY <2>2, <2>4, <2>5, <2>6, <2>7, <2>8, <2>9, <2>10, <2>11 DEF Heard, Handled, Ready, r
<1> QED BY <1>2, <1>3

LEMMA CvDoes ==
    ASSUME NEW h, NEW m, Shape(h)
    PROVE  LET r == hs_on_cv(h, m)
           IN  \/ \E alert : r = fail(h, alert)
               \/ /\ Shape(r)
                  /\ Same(r, h, {"th", "n_certs", "in_base", "state"})
                  /\ r.th = Append(h.th, m)
                  /\ r.n_certs = 0
                  /\ r.in_base = 0
                  /\ r.state = "WAIT_FIN"
                  /\ m.verdict = "none"
<1> DEFINE ok == [th_add(h, m) EXCEPT !.n_certs = 0, !.in_base = 0, !.state = "WAIT_FIN"]
<1>1. \/ \E alert : hs_on_cv(h, m) = fail(h, alert)
      \/ hs_on_cv(h, m) = ok /\ FirstAlert(verify_rules(h, m)) = "none"
  BY DEF hs_on_cv
<1>2. FirstAlert(verify_rules(h, m)) = "none" => (m.verdict = "none")
  BY CvRules
<1>3. Shape(ok)
  BY DEF Shape, th_add
<1>4. Same(ok, h, {"th", "n_certs", "in_base", "state"})
  BY DEF Shape, Same, th_add
<1>5. /\ ok.th = Append(h.th, m)
      /\ ok.n_certs = 0
      /\ ok.in_base = 0
      /\ ok.state = "WAIT_FIN"
  BY DEF Shape, Fields, th_add
<1> HIDE DEF ok
<1> QED BY <1>1, <1>2, <1>3, <1>4, <1>5

LEMMA CvKeeps ==
    ASSUME NEW h, NEW s, Ready(h, s), h.state = "WAIT_CV",
           NEW m \in Messages, m.t = "CV"
    PROVE  Handled(hs_on_cv(h, m), h, s)
<1> DEFINE r == hs_on_cv(h, m)
<1>1. Typed(h) /\ Shape(h) /\ Heard(h)
  BY DEF Ready, Heard, Typed
<1>2. CASE \E alert : r = fail(h, alert)
  BY <1>2, FailHandled
<1>3. CASE ~\E alert : r = fail(h, alert)
  <2>1. /\ Shape(r) /\ Same(r, h, {"th", "n_certs", "in_base", "state"})
        /\ r.th = Append(h.th, m)
        /\ r.n_certs = 0
        /\ r.in_base = 0
        /\ r.state = "WAIT_FIN"
        /\ m.verdict = "none"
    BY <1>3, <1>1, CvDoes
  <2> HIDE DEF r
  <2>2. /\ r.cfg = h.cfg /\ r.version = h.version /\ r.suite = h.suite
        /\ r.in_epoch = h.in_epoch /\ r.hrr_seen = h.hrr_seen /\ r.hrr_group = h.hrr_group
        /\ r.cookie = h.cookie /\ r.psk_suite = h.psk_suite /\ r.psk_ok = h.psk_ok
        /\ r.tls12_offered = h.tls12_offered /\ r.offer = h.offer
        /\ r.share_group = h.share_group /\ r.in_len = h.in_len /\ r.out = h.out
        /\ r.out_off = h.out_off /\ r.out_split = h.out_split /\ r.exports = h.exports
        /\ r.cr_seen = h.cr_seen /\ r.alpn_sel = h.alpn_sel /\ r.secrets = h.secrets
        /\ r.buf = h.buf
    BY <2>1 DEF Same, Fields
  <2>3. Settled(r, h) /\ Listens(r, h, m) /\ Kind(m) = "CV"
    BY <1>1, <2>1, <2>2 DEF Settled, Listens, Typed, Late, Kind
  <2>4. /\ s \in SentType /\ Queued(r, s) /\ SentRight(r, s) /\ Heeds(r, h, "CV", m)
        /\ Offered(r) /\ Retried(r) /\ KeysBoundToTranscript(r) /\ KeysAt(r) /\ r.state \notin Late
    BY <2>1, <2>3, SettledKeeps DEF Mid13, Mid12
  <2>5. Typed(r)
    BY <1>1, <2>1, <2>2, <2>4, HandshakeAssumption DEF Heard, Heeds, Typed, States, ServerStates13, ServerStates12
  <2>6. Script(r)
    <3>1. CASE h.cr_seen
      <4>1. Kinds(h.th) = Met(h) \o <<"CR", "CERT">> /\ Met(r) = Met(h)
        BY <1>1, <2>2, <3>1 DEF Heard, Script, Greeting, Met, Flags
      <4>2. Kinds(r.th) = Met(r) \o <<"CR", "CERT", "CV">>
        BY <2>4, <4>1, AfterMet DEF Heeds
      <4> QED BY <1>1, <2>1, <2>2, <3>1, <4>2 DEF Script, Heard, Flags, Proof13
    <3>2. CASE ~h.cr_seen
      <4>1. Kinds(h.th) = Met(h) \o <<"CERT">> /\ Met(r) = Met(h)
        BY <1>1, <2>2, <3>2 DEF Heard, Script, Greeting, Met, Flags
      <4>2. Kinds(r.th) = Met(r) \o <<"CERT", "CV">>
        BY <2>4, <4>1, AfterMet DEF Heeds
      <4> QED BY <1>1, <2>1, <2>2, <3>2, <4>2 DEF Script, Heard, Flags, Proof13
    <3> QED BY <3>1, <3>2
  <2>7. Flags(r)
    BY <1>1, <2>1, <2>2 DEF Heard, Flags, Early, Mid13, Mid12
  <2>8. Unheard(r)
    BY <1>1, <2>1, <2>2, <2>4 DEF Heard, Heeds, Unheard, Flags, Early, Mid13, Mid12, Late
  <2>9. Chosen(r)
    BY <1>1, <2>1, <2>2, <2>4 DEF Heard, Heeds, Chosen, Flags, Early, Mid13, Mid12
  <2>10. SecretsAt(r)
    BY <1>1, <2>1, <2>2 DEF Heard, SecretsAt, Mid13
  <2>11. Certs(r)
    BY <1>1, <2>1, <2>2, <2>4 DEF Heard, Heeds, Certs
  <2> QED BY <2>2, <2>4, <2>5, <2>6, <2>7, <2>8, <2>9, <2>10, <2>11 DEF Heard, Handled, Ready, r
<1> QED BY <1>2, <1>3

LEMMA T12CertDoes ==
    ASSUME NEW h, NEW m, Shape(h)
    PROVE  LET r == t12_on_cert(h, m)
           IN  \/ \E alert : r = fail(h, alert)
               \/ /\ Shape(r)
                  /\ Same(r, h, {"th", "n_certs", "in_base", "state"})
                  /\ r.th = Append(h.th, m)
                  /\ r.n_certs = 1 /\ r.in_base = m.sz
                  /\ r.state = "WAIT12_SKE"
<1> DEFINE ok == keep_certs(h, m, "WAIT12_SKE")
<1>1. \/ \E alert : t12_on_cert(h, m) = fail(h, alert)
      \/ t12_on_cert(h, m) = ok
  BY DEF t12_on_cert
<1>3. Shape(ok)
  BY DEF Shape, keep_certs, th_add
<1>4. Same(ok, h, {"th", "n_certs", "in_base", "state"})
  BY DEF Shape, Same, keep_certs, th_add
<1>5. /\ ok.th = Append(h.th, m)
      /\ ok.n_certs = 1
      /\ ok.in_base = m.sz
      /\ ok.state = "WAIT12_SKE"
  BY DEF Shape, Fields, keep_certs, th_add
<1> HIDE DEF ok
<1> QED BY <1>1, <1>3, <1>4, <1>5

LEMMA T12CertKeeps ==
    ASSUME NEW h, NEW s, Ready(h, s), h.state = "WAIT12_CERT",
           NEW m \in Messages, m.t = "CERT", Begun(h, m, m.sz)
    PROVE  Handled(t12_on_cert(h, m), h, s)
<1> DEFINE r == t12_on_cert(h, m)
<1>1. Typed(h) /\ Shape(h) /\ Heard(h)
  BY DEF Ready, Heard, Typed
<1>2. CASE \E alert : r = fail(h, alert)
  BY <1>2, FailHandled
<1>3. CASE ~\E alert : r = fail(h, alert)
  <2>1. /\ Shape(r) /\ Same(r, h, {"th", "n_certs", "in_base", "state"})
        /\ r.th = Append(h.th, m)
        /\ r.n_certs = 1 /\ r.in_base = m.sz
        /\ r.state = "WAIT12_SKE"
    BY <1>3, <1>1, T12CertDoes
  <2> HIDE DEF r
  <2>2. /\ r.cfg = h.cfg /\ r.version = h.version /\ r.suite = h.suite
        /\ r.in_epoch = h.in_epoch /\ r.hrr_seen = h.hrr_seen /\ r.hrr_group = h.hrr_group
        /\ r.cookie = h.cookie /\ r.psk_suite = h.psk_suite /\ r.psk_ok = h.psk_ok
        /\ r.tls12_offered = h.tls12_offered /\ r.offer = h.offer
        /\ r.share_group = h.share_group /\ r.in_len = h.in_len /\ r.out = h.out
        /\ r.out_off = h.out_off /\ r.out_split = h.out_split /\ r.exports = h.exports
        /\ r.cr_seen = h.cr_seen /\ r.alpn_sel = h.alpn_sel /\ r.secrets = h.secrets
        /\ r.buf = h.buf
    BY <2>1 DEF Same, Fields
  <2>3. Settled(r, h) /\ Listens(r, h, m) /\ Kind(m) = "CERT"
    BY <1>1, <2>1, <2>2 DEF Settled, Listens, Typed, Late, Kind
  <2>4. /\ s \in SentType /\ Queued(r, s) /\ SentRight(r, s) /\ Heeds(r, h, "CERT", m)
        /\ Offered(r) /\ Retried(r) /\ KeysBoundToTranscript(r) /\ KeysAt(r) /\ r.state \notin Late
    BY <2>1, <2>3, SettledKeeps DEF Mid13, Mid12
  <2>5. Typed(r)
    BY <1>1, <2>1, <2>2, <2>4, HandshakeAssumption DEF Heard, Heeds, Typed, States, ServerStates13, ServerStates12
  <2>6. Script(r)
    <3>1. Kinds(h.th) = Greeting(h) \o <<"SH">> /\ Greeting(r) = Greeting(h)
      BY <1>1, <2>2 DEF Heard, Script, Greeting
    <3>2. Kinds(r.th) = Greeting(r) \o <<"SH", "CERT">>
      BY <2>4, <3>1, AfterMet DEF Heeds
    <3> QED BY <2>1, <2>2, <3>2 DEF Script
  <2>7. Flags(r)
    BY <1>1, <2>1, <2>2 DEF Heard, Flags, Early, Mid13, Mid12
  <2>8. Unheard(r)
    BY <1>1, <2>1, <2>2, <2>4 DEF Heard, Heeds, Unheard, Flags, Early, Mid13, Mid12, Late
  <2>9. Chosen(r)
    BY <1>1, <2>1, <2>2, <2>4 DEF Heard, Heeds, Chosen, Flags, Early, Mid13, Mid12
  <2>10. SecretsAt(r)
    BY <1>1, <2>1, <2>2 DEF Heard, SecretsAt, Mid13
  <2>11. Certs(r)
    <3>1. h.n_certs = 0 /\ h.in_base = 0 /\ m.sz \in Nat
      BY <1>1, HandshakeAssumption DEF Heard, Certs, Typed
    <3>2. m.sz <= Len(h.buf) /\ \A k \in 1..m.sz : h.buf[k] = [m |-> m, k |-> k, ep |-> h.in_epoch]
      BY <3>1 DEF Begun
    <3>3. Of(r.th, "CERT") # {} /\ The(r.th, "CERT") = m
      BY <2>4 DEF Heeds
    <3>4. \A k \in 1..m.sz : r.buf[k].m = m /\ r.buf[k].k = k
      <4> TAKE k \in 1..m.sz
      <4>1. r.buf[k] = [m |-> m, k |-> k, ep |-> h.in_epoch]
        BY <2>2, <3>2
      <4> QED BY <4>1
    <3> QED BY <2>1, <2>2, <3>1, <3>2, <3>3, <3>4 DEF Certs
  <2> QED BY <2>2, <2>4, <2>5, <2>6, <2>7, <2>8, <2>9, <2>10, <2>11 DEF Heard, Handled, Ready, r
<1> QED BY <1>2, <1>3

LEMMA SkeDoes ==
    ASSUME NEW h, NEW m, Shape(h)
    PROVE  LET r == t12_on_ske(h, m)
           IN  \/ \E alert : r = fail(h, alert)
               \/ /\ Shape(r)
                  /\ Same(r, h, {"th", "secrets", "n_certs", "in_base", "state"})
                  /\ r.th = Append(h.th, m)
                  /\ r.secrets = (h.secrets \ {"priv", "p256"}) \cup {"main"}
                  /\ r.n_certs = 0
                  /\ r.in_base = 0
                  /\ r.state = "WAIT12_CR_SHD"
                  /\ m.verdict = "none"
<1> DEFINE ok == [th_add(h, m) EXCEPT !.secrets = (@ \ {"priv", "p256"}) \cup {"main"},
                                      !.n_certs = 0, !.in_base = 0, !.state = "WAIT12_CR_SHD"]
<1>1. \/ \E alert : t12_on_ske(h, m) = fail(h, alert)
      \/ t12_on_ske(h, m) = ok /\ FirstAlert(ske_rules(h, m)) = "none"
  BY DEF t12_on_ske
<1>2. FirstAlert(ske_rules(h, m)) = "none" => (m.verdict = "none")
  BY SkeRules
<1>3. Shape(ok)
  BY DEF Shape, th_add
<1>4. Same(ok, h, {"th", "secrets", "n_certs", "in_base", "state"})
  BY DEF Shape, Same, th_add
<1>5. /\ ok.th = Append(h.th, m)
      /\ ok.secrets = (h.secrets \ {"priv", "p256"}) \cup {"main"}
      /\ ok.n_certs = 0
      /\ ok.in_base = 0
      /\ ok.state = "WAIT12_CR_SHD"
  BY DEF Shape, Fields, th_add
<1> HIDE DEF ok
<1> QED BY <1>1, <1>2, <1>3, <1>4, <1>5

LEMMA SkeKeeps ==
    ASSUME NEW h, NEW s, Ready(h, s), h.state = "WAIT12_SKE",
           NEW m \in Messages, m.t = "SKE"
    PROVE  Handled(t12_on_ske(h, m), h, s)
<1> DEFINE r == t12_on_ske(h, m)
<1>1. Typed(h) /\ Shape(h) /\ Heard(h)
  BY DEF Ready, Heard, Typed
<1>2. CASE \E alert : r = fail(h, alert)
  BY <1>2, FailHandled
<1>3. CASE ~\E alert : r = fail(h, alert)
  <2>1. /\ Shape(r) /\ Same(r, h, {"th", "secrets", "n_certs", "in_base", "state"})
        /\ r.th = Append(h.th, m)
        /\ r.secrets = (h.secrets \ {"priv", "p256"}) \cup {"main"}
        /\ r.n_certs = 0
        /\ r.in_base = 0
        /\ r.state = "WAIT12_CR_SHD"
        /\ m.verdict = "none"
    BY <1>3, <1>1, SkeDoes
  <2> HIDE DEF r
  <2>2. /\ r.cfg = h.cfg /\ r.version = h.version /\ r.suite = h.suite
        /\ r.in_epoch = h.in_epoch /\ r.hrr_seen = h.hrr_seen /\ r.hrr_group = h.hrr_group
        /\ r.cookie = h.cookie /\ r.psk_suite = h.psk_suite /\ r.psk_ok = h.psk_ok
        /\ r.tls12_offered = h.tls12_offered /\ r.offer = h.offer
        /\ r.share_group = h.share_group /\ r.in_len = h.in_len /\ r.out = h.out
        /\ r.out_off = h.out_off /\ r.out_split = h.out_split /\ r.exports = h.exports
        /\ r.cr_seen = h.cr_seen /\ r.alpn_sel = h.alpn_sel /\ r.buf = h.buf
    BY <2>1 DEF Same, Fields
  <2>3. Settled(r, h) /\ Listens(r, h, m) /\ Kind(m) = "SKE"
    BY <1>1, <2>1, <2>2 DEF Settled, Listens, Typed, Late, Kind
  <2>4. /\ s \in SentType /\ Queued(r, s) /\ SentRight(r, s) /\ Heeds(r, h, "SKE", m)
        /\ Offered(r) /\ Retried(r) /\ KeysBoundToTranscript(r) /\ KeysAt(r) /\ r.state \notin Late
    BY <2>1, <2>3, SettledKeeps DEF Mid13, Mid12
  <2>5. Typed(r)
    BY <1>1, <2>1, <2>2, <2>4, HandshakeAssumption DEF Heard, Heeds, Typed, States, ServerStates13, ServerStates12
  <2>6. Script(r)
    <3>1. Kinds(h.th) = Greeting(h) \o <<"SH", "CERT">> /\ Greeting(r) = Greeting(h)
      BY <1>1, <2>2 DEF Heard, Script, Greeting
    <3>2. Kinds(r.th) = Greeting(r) \o <<"SH", "CERT", "SKE">>
      BY <2>4, <3>1, AfterMet DEF Heeds
    <3> QED BY <2>1, <2>2, <3>2 DEF Script
  <2>7. Flags(r)
    BY <1>1, <2>1, <2>2 DEF Heard, Flags, Early, Mid13, Mid12
  <2>8. Unheard(r)
    BY <1>1, <2>1, <2>2, <2>4 DEF Heard, Heeds, Unheard, Flags, Early, Mid13, Mid12, Late
  <2>9. Chosen(r)
    BY <1>1, <2>1, <2>2, <2>4 DEF Heard, Heeds, Chosen, Flags, Early, Mid13, Mid12
  <2>10. SecretsAt(r)
    BY <1>1, <2>1, <2>2 DEF Heard, SecretsAt, Mid13
  <2>11. Certs(r)
    BY <1>1, <2>1, <2>2, <2>4 DEF Heard, Heeds, Certs
  <2> QED BY <2>2, <2>4, <2>5, <2>6, <2>7, <2>8, <2>9, <2>10, <2>11 DEF Heard, Handled, Ready, r
<1> QED BY <1>2, <1>3

LEMMA T12CrDoes ==
    ASSUME NEW h, NEW m, Shape(h)
    PROVE  LET r == t12_on_cr(h, m)
           IN  \/ \E alert : r = fail(h, alert)
               \/ /\ Shape(r)
                  /\ Same(r, h, {"th", "cr_sig_ok", "cr_send", "cr_seen", "state"})
                  /\ r.th = Append(h.th, m)
                  /\ r.cr_seen = TRUE
                  /\ r.state = "WAIT12_SHD"
<1> DEFINE ok == [th_add(h, m) EXCEPT !.cr_sig_ok = @ \/ m.ecdsa, !.cr_send = m.ecdsa_sign,
                                      !.cr_seen = TRUE, !.state = "WAIT12_SHD"]
<1>1. \/ \E alert : t12_on_cr(h, m) = fail(h, alert)
      \/ t12_on_cr(h, m) = ok
  BY DEF t12_on_cr
<1>3. Shape(ok)
  BY DEF Shape, th_add
<1>4. Same(ok, h, {"th", "cr_sig_ok", "cr_send", "cr_seen", "state"})
  BY DEF Shape, Same, th_add
<1>5. /\ ok.th = Append(h.th, m)
      /\ ok.cr_seen = TRUE
      /\ ok.state = "WAIT12_SHD"
  BY DEF Shape, Fields, th_add
<1> HIDE DEF ok
<1> QED BY <1>1, <1>3, <1>4, <1>5

LEMMA T12CrKeeps ==
    ASSUME NEW h, NEW s, Ready(h, s), h.state = "WAIT12_CR_SHD",
           NEW m \in Messages, m.t = "CR"
    PROVE  Handled(t12_on_cr(h, m), h, s)
<1> DEFINE r == t12_on_cr(h, m)
<1>1. Typed(h) /\ Shape(h) /\ Heard(h)
  BY DEF Ready, Heard, Typed
<1>2. CASE \E alert : r = fail(h, alert)
  BY <1>2, FailHandled
<1>3. CASE ~\E alert : r = fail(h, alert)
  <2>1. /\ Shape(r) /\ Same(r, h, {"th", "cr_sig_ok", "cr_send", "cr_seen", "state"})
        /\ r.th = Append(h.th, m)
        /\ r.cr_seen = TRUE
        /\ r.state = "WAIT12_SHD"
    BY <1>3, <1>1, T12CrDoes
  <2> HIDE DEF r
  <2>2. /\ r.cfg = h.cfg /\ r.version = h.version /\ r.suite = h.suite
        /\ r.in_epoch = h.in_epoch /\ r.hrr_seen = h.hrr_seen /\ r.hrr_group = h.hrr_group
        /\ r.cookie = h.cookie /\ r.psk_suite = h.psk_suite /\ r.psk_ok = h.psk_ok
        /\ r.tls12_offered = h.tls12_offered /\ r.offer = h.offer
        /\ r.share_group = h.share_group /\ r.in_len = h.in_len /\ r.out = h.out
        /\ r.out_off = h.out_off /\ r.out_split = h.out_split /\ r.exports = h.exports
        /\ r.alpn_sel = h.alpn_sel /\ r.secrets = h.secrets /\ r.buf = h.buf
        /\ r.in_base = h.in_base /\ r.n_certs = h.n_certs
    BY <2>1 DEF Same, Fields
  <2>3. Settled(r, h) /\ Listens(r, h, m) /\ Kind(m) = "CR"
    BY <1>1, <2>1, <2>2 DEF Settled, Listens, Typed, Late, Kind
  <2>4. /\ s \in SentType /\ Queued(r, s) /\ SentRight(r, s) /\ Heeds(r, h, "CR", m)
        /\ Offered(r) /\ Retried(r) /\ KeysBoundToTranscript(r) /\ KeysAt(r) /\ r.state \notin Late
    BY <2>1, <2>3, SettledKeeps DEF Mid13, Mid12
  <2>5. Typed(r)
    BY <1>1, <2>1, <2>2, <2>4, HandshakeAssumption DEF Heard, Heeds, Typed, States, ServerStates13, ServerStates12
  <2>6. Script(r)
    <3>1. Kinds(h.th) = Greeting(h) \o <<"SH", "CERT", "SKE">> /\ Greeting(r) = Greeting(h)
      BY <1>1, <2>2 DEF Heard, Script, Greeting
    <3>2. Kinds(r.th) = Greeting(r) \o <<"SH", "CERT", "SKE", "CR">>
      BY <2>4, <3>1, AfterMet DEF Heeds
    <3> QED BY <2>1, <2>2, <3>2 DEF Script
  <2>7. Flags(r)
    BY <1>1, <2>1, <2>2 DEF Heard, Flags, Early, Mid13, Mid12
  <2>8. Unheard(r)
    BY <1>1, <2>1, <2>2, <2>4 DEF Heard, Heeds, Unheard, Flags, Early, Mid13, Mid12, Late
  <2>9. Chosen(r)
    BY <1>1, <2>1, <2>2, <2>4 DEF Heard, Heeds, Chosen, Flags, Early, Mid13, Mid12
  <2>10. SecretsAt(r)
    BY <1>1, <2>1, <2>2 DEF Heard, SecretsAt, Mid13
  <2>11. Certs(r)
    BY <1>1, <2>1, <2>2, <2>4 DEF Heard, Heeds, Certs
  <2> QED BY <2>2, <2>4, <2>5, <2>6, <2>7, <2>8, <2>9, <2>10, <2>11 DEF Heard, Handled, Ready, r
<1> QED BY <1>2, <1>3

-----------------------------------------------------------------------------
(* ServerHello and HelloRetryRequest *)

LEMMA Pair ==
    ASSUME NEW a, NEW b
    PROVE  <<a>> \o <<b>> = <<a, b>>
<1> DEFINE S == {a, b}
           t == <<a>> \o <<b>>
<1>1. <<a>> \in Seq(S) /\ <<b>> \in Seq(S) /\ <<a, b>> \in Seq(S)
  OBVIOUS
<1>2. t \in Seq(S) /\ Len(t) = 2 /\ t[1] = a /\ t[2] = b
  BY <1>1, ConcatProperties
<1> HIDE DEF S, t
<1>3. \A i \in 1..2 : t[i] = <<a, b>>[i]
  <2>1. \A i \in 1..2 : i = 1 \/ i = 2
    OBVIOUS
  <2> QED BY <1>2, <2>1
<1>4. t = <<a, b>>
  BY <1>1, <1>2, <1>3, SeqEqual
<1> QED BY <1>4 DEF t

LEMMA Triple ==
    ASSUME NEW a, NEW b, NEW c
    PROVE  <<a>> \o <<b, c>> = <<a, b, c>>
<1> DEFINE S == {a, b, c}
           t == <<a>> \o <<b, c>>
<1>1. <<a>> \in Seq(S) /\ <<b, c>> \in Seq(S) /\ <<a, b, c>> \in Seq(S)
  OBVIOUS
<1>2. t \in Seq(S) /\ Len(t) = 3 /\ t[1] = a /\ t[2] = b /\ t[3] = c
  BY <1>1, ConcatProperties
<1> HIDE DEF S, t
<1>3. \A i \in 1..3 : t[i] = <<a, b, c>>[i]
  <2>1. \A i \in 1..3 : i = 1 \/ i = 2 \/ i = 3
    OBVIOUS
  <2> QED BY <1>2, <2>1
<1>4. t = <<a, b, c>>
  BY <1>1, <1>2, <1>3, SeqEqual
<1> QED BY <1>4 DEF t

LEMMA HrrDoes ==
    ASSUME NEW h, NEW m, Shape(h)
    PROVE  LET r == hs_on_hrr(h, m)
           IN  \/ \E alert : r = fail(h, alert)
               \/ /\ Shape(r)
                  /\ Same(r, h, {"th", "suite", "secrets", "hrr_group", "cookie", "hrr_seen", "state"})
                  /\ r.th = Append(h.th, m) /\ r.suite = m.suite
                  /\ r.secrets = h.secrets \ {"priv", "p256"}
                  /\ r.hrr_group = IF "key_share" \in m.exts THEN m.group ELSE "none"
                  /\ r.cookie = IF "cookie" \in m.exts THEN m.cookie ELSE "none"
                  /\ r.hrr_seen = TRUE /\ r.state = "WAIT_CH2"
                  /\ "key_share" \in m.exts => m.group # h.share_group /\ m.group \in ShareGroups
<1> DEFINE ok == [th_add(h, m) EXCEPT
                     !.suite = m.suite, !.secrets = @ \ {"priv", "p256"},
                     !.hrr_group = IF "key_share" \in m.exts THEN m.group ELSE "none",
                     !.cookie = IF "cookie" \in m.exts THEN m.cookie ELSE "none",
                     !.hrr_seen = TRUE, !.state = "WAIT_CH2"]
<1>1. \/ \E alert : hs_on_hrr(h, m) = fail(h, alert)
      \/ hs_on_hrr(h, m) = ok /\ FirstAlert(hrr_rules(h, m)) = "none"
  BY DEF hs_on_hrr
<1>2. FirstAlert(hrr_rules(h, m)) = "none" =>
         ("key_share" \in m.exts => m.group # h.share_group /\ m.group \in ShareGroups)
  BY HrrRules
<1>3. Shape(ok)
  BY DEF Shape, th_add
<1>4. Same(ok, h, {"th", "suite", "secrets", "hrr_group", "cookie", "hrr_seen", "state"})
  BY DEF Shape, Same, th_add
<1>5. /\ ok.th = Append(h.th, m) /\ ok.suite = m.suite
      /\ ok.secrets = h.secrets \ {"priv", "p256"}
      /\ ok.hrr_group = IF "key_share" \in m.exts THEN m.group ELSE "none"
      /\ ok.cookie = IF "cookie" \in m.exts THEN m.cookie ELSE "none"
      /\ ok.hrr_seen = TRUE /\ ok.state = "WAIT_CH2"
  BY DEF Shape, Fields, th_add
<1> HIDE DEF ok
<1> QED BY <1>1, <1>2, <1>3, <1>4, <1>5

LEMMA HrrKeeps ==
    ASSUME NEW h, NEW s, Ready(h, s), h.state = "WAIT_SH", ~h.hrr_seen,
           NEW m \in Messages, m.t = "SH", m.hrr
    PROVE  Handled(hs_on_hrr(h, m), h, s)
<1> DEFINE r == hs_on_hrr(h, m)
<1>1. Typed(h) /\ Shape(h) /\ Heard(h)
  BY DEF Ready, Heard, Typed
<1>2. CASE \E alert : r = fail(h, alert)
  BY <1>2, FailHandled
<1>3. CASE ~\E alert : r = fail(h, alert)
  <2>1. /\ Shape(r)
        /\ Same(r, h, {"th", "suite", "secrets", "hrr_group", "cookie", "hrr_seen", "state"})
        /\ r.th = Append(h.th, m) /\ r.suite = m.suite
        /\ r.secrets = h.secrets \ {"priv", "p256"}
        /\ r.hrr_group = IF "key_share" \in m.exts THEN m.group ELSE "none"
        /\ r.cookie = IF "cookie" \in m.exts THEN m.cookie ELSE "none"
        /\ r.hrr_seen = TRUE /\ r.state = "WAIT_CH2"
        /\ "key_share" \in m.exts => m.group # h.share_group /\ m.group \in ShareGroups
    BY <1>3, <1>1, HrrDoes
  <2> HIDE DEF r
  <2>2. /\ r.cfg = h.cfg /\ r.version = h.version /\ r.in_epoch = h.in_epoch
        /\ r.psk_suite = h.psk_suite /\ r.psk_ok = h.psk_ok /\ r.tls12_offered = h.tls12_offered
        /\ r.offer = h.offer /\ r.share_group = h.share_group /\ r.in_len = h.in_len
        /\ r.out = h.out /\ r.out_off = h.out_off /\ r.out_split = h.out_split
        /\ r.exports = h.exports /\ r.cr_seen = h.cr_seen /\ r.alpn_sel = h.alpn_sel
        /\ r.buf = h.buf /\ r.in_base = h.in_base /\ r.n_certs = h.n_certs
    BY <2>1 DEF Same, Fields
  <2>3. Listens(r, h, m) /\ Kind(m) = "HRR"
    BY <1>1, <2>1, <2>2 DEF Listens, Typed, Late, Kind
  <2>4. s \in SentType /\ Queued(r, s) /\ SentRight(r, s) /\ HandedInOrder(r)
    BY <2>3, ListensReady
  <2>5. Heeds(r, h, "HRR", m)
    BY <2>3, ListensHeeds
  <2>6. Typed(r)
    BY <1>1, <2>1, <2>2, <2>5 DEF Heard, Heeds, Typed, States
  <2>7. Script(r)
    <3>1. Kinds(h.th) = <<"CH">>
      BY <1>1 DEF Heard, Script, Greeting
    <3>2. Kinds(r.th) = <<"CH">> \o <<"HRR">>
      BY <2>5, <3>1 DEF Heeds
    <3>3. <<"CH">> \o <<"HRR">> = <<"CH", "HRR">>
      BY Pair
    <3> QED BY <2>1, <3>2, <3>3 DEF Script
  <2>8. Flags(r) /\ Unheard(r) /\ Chosen(r)
    <3>1. Flags(r)
      BY <1>1, <2>1, <2>2 DEF Heard, Flags, Early, Mid13, Mid12
    <3>2. Unheard(r)
      BY <1>1, <2>1, <2>2, <2>5 DEF Heard, Heeds, Unheard, Early, Mid13, Mid12, Late
    <3>3. Chosen(r)
      BY <1>1, <2>1, <2>2 DEF Heard, Chosen, Early, Mid13, Mid12
    <3> QED BY <3>1, <3>2, <3>3
  <2>9. Offered(r)
    BY <1>1, <2>1, <2>2, <2>5 DEF Heard, Heeds, Offered, Open, Mid13, Mid12
  <2>10. Retried(r)
    <3>1. r.cookie = m.cookie
      BY <2>1, HandshakeAssumption
    <3>2. h.share_group = r.th[1].group
      BY <1>1, <2>5 DEF Heard, Heeds, Offered
    <3> QED BY <2>1, <2>2, <2>5, <3>1, <3>2 DEF Heeds, Retried
  <2>11. KeysBoundToTranscript(r) /\ KeysAt(r) /\ SecretsAt(r)
    BY <1>1, <2>1, <2>2, <2>4 DEF Heard, KeysBoundToTranscript, KeysAt, SecretsAt, Early, Mid13, Mid12
  <2>12. Certs(r)
    BY <1>1, <2>1, <2>2 DEF Heard, Certs
  <2>13. r.state \notin Late
    BY <2>1 DEF Late
  <2> QED BY <2>2, <2>4, <2>6, <2>7, <2>8, <2>9, <2>10, <2>11, <2>12, <2>13 DEF Heard, Handled, Ready, r
<1> QED BY <1>2, <1>3

LEMMA Sh12Does ==
    ASSUME NEW h, NEW m, Shape(h)
    PROVE  LET r == tls12_on_sh(h, m)
           IN  \/ \E alert : r = fail(h, alert) \/ r = tls12_insecure(h, alert)
               \/ /\ Shape(r)
                  /\ Same(r, h, {"th", "alpn_sel", "secrets", "psk_len", "version", "suite", "state"})
                  /\ r.th = Append(h.th, m) /\ r.suite = m.suite /\ m.suite \in h.offer.suites
                  /\ r.alpn_sel \in h.offer.alpn \cup {h.alpn_sel}
                  /\ r.secrets = h.secrets \ {"psk"}
                  /\ r.version = "12" /\ r.state = "WAIT12_CERT"
                  /\ ~m.hrr /\ ~h.hrr_seen /\ {"ems", "reneg"} \subseteq m.exts \cap h.offer.exts
<1> DEFINE ok == [th_add(h, m) EXCEPT
                     !.alpn_sel = IF "alpn" \in m.exts THEN m.alpn ELSE @,
                     !.secrets = @ \ {"psk"}, !.psk_len = 0,
                     !.version = "12", !.suite = m.suite, !.state = "WAIT12_CERT"]
           rules == FirstAlert(sh12_rules(h, m))
<1>1. \/ \E alert : tls12_on_sh(h, m) = fail(h, alert) \/ tls12_on_sh(h, m) = tls12_insecure(h, alert)
      \/ tls12_on_sh(h, m) = ok /\ rules = "none" /\ {"ems", "reneg"} \subseteq m.exts
  <2>1. CASE m.flaw = "version_old"
    BY <2>1 DEF tls12_on_sh
  <2>2. CASE m.flaw = "version_new"
    BY <2>2 DEF tls12_on_sh
  <2>3. CASE m.flaw # "version_old" /\ m.flaw # "version_new" /\ rules # "none"
    BY <2>3 DEF tls12_on_sh
  <2>4. CASE /\ m.flaw # "version_old" /\ m.flaw # "version_new" /\ rules = "none"
             /\ ~({"ems", "reneg"} \subseteq m.exts)
    BY <2>4 DEF tls12_on_sh
  <2>5. CASE /\ m.flaw # "version_old" /\ m.flaw # "version_new" /\ rules = "none"
             /\ {"ems", "reneg"} \subseteq m.exts
    BY <2>5 DEF tls12_on_sh
  <2> QED BY <2>1, <2>2, <2>3, <2>4, <2>5
<1>2. rules = "none" => /\ ~m.hrr /\ ~h.hrr_seen /\ m.suite \in h.offer.suites
                        /\ m.exts \subseteq h.offer.exts
                        /\ "alpn" \in m.exts => m.alpn \in h.offer.alpn
  BY Sh12Rules
<1>3. Shape(ok)
  BY DEF Shape, th_add
<1>4. Same(ok, h, {"th", "alpn_sel", "secrets", "psk_len", "version", "suite", "state"})
  BY DEF Shape, Same, th_add
<1>5. /\ ok.th = Append(h.th, m) /\ ok.suite = m.suite
      /\ ok.alpn_sel = IF "alpn" \in m.exts THEN m.alpn ELSE h.alpn_sel
      /\ ok.secrets = h.secrets \ {"psk"}
      /\ ok.version = "12" /\ ok.state = "WAIT12_CERT"
  BY DEF Shape, Fields, th_add
<1> HIDE DEF ok, rules
<1> QED BY <1>1, <1>2, <1>3, <1>4, <1>5

LEMMA Sh12Keeps ==
    ASSUME NEW h, NEW s, Ready(h, s), h.state = "WAIT_SH", h.tls12_offered,
           NEW m \in Messages, m.t = "SH", ~m.sentinel
    PROVE  Handled(tls12_on_sh(h, m), h, s)
<1> DEFINE r == tls12_on_sh(h, m)
<1>1. Typed(h) /\ Shape(h) /\ Heard(h)
  BY DEF Ready, Heard, Typed
<1>2. CASE \E alert : r = fail(h, alert) \/ r = tls12_insecure(h, alert)
  BY <1>2, FailHandled
<1>3. CASE ~\E alert : r = fail(h, alert) \/ r = tls12_insecure(h, alert)
  <2>1. /\ Shape(r)
        /\ Same(r, h, {"th", "alpn_sel", "secrets", "psk_len", "version", "suite", "state"})
        /\ r.th = Append(h.th, m) /\ r.suite = m.suite /\ m.suite \in h.offer.suites
        /\ r.alpn_sel \in h.offer.alpn \cup {h.alpn_sel}
        /\ r.secrets = h.secrets \ {"psk"}
        /\ r.version = "12" /\ r.state = "WAIT12_CERT"
        /\ ~m.hrr /\ ~h.hrr_seen /\ {"ems", "reneg"} \subseteq m.exts \cap h.offer.exts
    BY <1>3, <1>1, Sh12Does
  <2> HIDE DEF r
  <2>2. /\ r.cfg = h.cfg /\ r.in_epoch = h.in_epoch /\ r.hrr_seen = h.hrr_seen
        /\ r.hrr_group = h.hrr_group /\ r.cookie = h.cookie
        /\ r.psk_suite = h.psk_suite /\ r.psk_ok = h.psk_ok /\ r.tls12_offered = h.tls12_offered
        /\ r.offer = h.offer /\ r.share_group = h.share_group /\ r.in_len = h.in_len
        /\ r.out = h.out /\ r.out_off = h.out_off /\ r.out_split = h.out_split
        /\ r.exports = h.exports /\ r.cr_seen = h.cr_seen
        /\ r.buf = h.buf /\ r.in_base = h.in_base /\ r.n_certs = h.n_certs
    BY <2>1, ZenonT(60) DEF Same, Fields
  <2>3. Listens(r, h, m) /\ Kind(m) = "SH"
    BY <1>1, <2>1, <2>2 DEF Listens, Typed, Late, Kind
  <2>4. s \in SentType /\ Queued(r, s) /\ SentRight(r, s) /\ HandedInOrder(r)
    BY <2>3, ListensReady
  <2>5. Heeds(r, h, "SH", m)
    BY <2>3, ListensHeeds
  <2>6. Typed(r)
    BY <1>1, <2>1, <2>2, <2>5 DEF Heard, Heeds, Typed, States, ServerStates12
  <2>7. Script(r)
    <3>1. Kinds(h.th) = Greeting(h) /\ Greeting(r) = Greeting(h)
      BY <1>1, <2>2 DEF Heard, Script, Greeting
    <3>2. Kinds(r.th) = Greeting(r) \o <<"SH">>
      BY <2>5, <3>1, AfterGreeting DEF Heeds
    <3> QED BY <2>1, <3>2 DEF Script
  <2>8. Flags(r) /\ Unheard(r)
    BY <1>1, <2>1, <2>2, <2>5 DEF Heard, Heeds, Flags, Unheard, Early, Mid13, Mid12, Late
  <2>9. Chosen(r)
    BY <1>1, <2>1, <2>2, <2>5 DEF Heard, Heeds, Chosen, Flags, Early, Mid13, Mid12
  <2>10. Offered(r)
    BY <1>1, <2>1, <2>2, <2>5 DEF Heard, Heeds, Offered, Open, Mid13, Mid12
  <2>11. Retried(r)
    BY <1>1, <2>1, <2>2, <2>5 DEF Heard, Heeds, Retried, Open
  <2>12. KeysBoundToTranscript(r) /\ KeysAt(r) /\ SecretsAt(r)
    BY <1>1, <2>1, <2>2, <2>4 DEF Heard, KeysBoundToTranscript, KeysAt, SecretsAt, Early, Mid13, Mid12
  <2>13. Certs(r)
    BY <1>1, <2>1, <2>2 DEF Heard, Certs
  <2>14. r.state \notin Late
    BY <2>1 DEF Late
  <2> QED BY <2>2, <2>4, <2>6, <2>7, <2>8, <2>9, <2>10, <2>11, <2>12, <2>13, <2>14 DEF Heard, Handled, Ready, r
<1> QED BY <1>2, <1>3

\* The three moments of the handshake secrets: the ServerHello is hashed, the owner has the
\* receive secret, and the engine moves on.
ShHeard(h, m) ==
    [th_add(h, m) EXCEPT
        !.suite = m.suite, !.version = "13", !.psk_ok = "psk" \in m.exts,
        !.secrets = (@ \ {"priv", "p256", "psk"}) \cup {"ks", "c_hs", "s_hs"}]
ShDone(e) == [e EXCEPT !.in_epoch = HANDSHAKE, !.state = "WAIT_EE"]

LEMMA ShHeardDoes ==
    ASSUME NEW h, NEW m, Shape(h)
    PROVE  LET g == ShHeard(h, m)
           IN  /\ Shape(g) /\ Same(g, h, {"th", "suite", "version", "psk_ok", "secrets"})
               /\ g.th = Append(h.th, m) /\ g.suite = m.suite /\ g.version = "13"
               /\ g.psk_ok = ("psk" \in m.exts)
               /\ g.secrets = (h.secrets \ {"priv", "p256", "psk"}) \cup {"ks", "c_hs", "s_hs"}
<1> DEFINE g == ShHeard(h, m)
<1>1. Shape(g)
  BY DEF Shape, ShHeard, th_add
<1>2. Same(g, h, {"th", "suite", "version", "psk_ok", "secrets"})
  BY DEF Shape, Same, ShHeard, th_add
<1>3. /\ g.th = Append(h.th, m) /\ g.suite = m.suite /\ g.version = "13"
      /\ g.psk_ok = ("psk" \in m.exts)
      /\ g.secrets = (h.secrets \ {"priv", "p256", "psk"}) \cup {"ks", "c_hs", "s_hs"}
  BY DEF Shape, Fields, ShHeard, th_add
<1> QED BY <1>1, <1>2, <1>3

LEMMA ShDoneDoes ==
    ASSUME NEW e, Shape(e)
    PROVE  LET r == ShDone(e)
           IN  /\ Shape(r) /\ Same(r, e, {"in_epoch", "state"})
               /\ r.in_epoch = HANDSHAKE /\ r.state = "WAIT_EE"
<1>1. Shape(ShDone(e))
  BY DEF Shape, ShDone
<1>2. Same(ShDone(e), e, {"in_epoch", "state"})
  BY DEF Shape, Same, ShDone
<1>3. ShDone(e).in_epoch = HANDSHAKE /\ ShDone(e).state = "WAIT_EE"
  BY DEF Shape, Fields, ShDone
<1> QED BY <1>1, <1>2, <1>3

\* What an acceptable ServerHello of TLS 1.3 brings.
Acceptable(h, m) ==
    /\ ~m.hrr /\ m.suite \in h.offer.suites /\ (h.hrr_seen => m.suite = h.suite)
    /\ m.exts \subseteq h.offer.exts /\ m.group = h.share_group
    /\ "psk" \in m.exts => alg(m.suite) = alg(h.psk_suite)

\* The state after a ServerHello, before the secrets leave.
LEMMA ShHeardKeeps ==
    ASSUME NEW h, NEW s, Ready(h, s), h.state = "WAIT_SH",
           NEW m \in Messages, m.t = "SH", ~m.hrr
    PROVE  LET g == ShHeard(h, m)
           IN  /\ Typed(g) /\ HandedInOrder(g) /\ g.exports = <<>> /\ g.in_len = h.in_len
               /\ g.state = "WAIT_SH" /\ Len(h.th) + 1 \in DOMAIN g.th
               /\ Handover(g.th) = << <<HANDSHAKE, "recv", "SH">>, <<HANDSHAKE, "send", "SH">>,
                                      <<APP, "recv", "FIN">>, <<APP, "send", "FIN">> >>
               /\ Kind(g.th[Len(h.th) + 1]) = "SH"
               /\ Queued(g, s) /\ Heeds(g, h, "SH", m)
<1> DEFINE g == ShHeard(h, m)
<1>1. Typed(h) /\ Shape(h) /\ Heard(h)
  BY DEF Ready, Heard, Typed
<1>2. /\ Shape(g) /\ Same(g, h, {"th", "suite", "version", "psk_ok", "secrets"})
      /\ g.th = Append(h.th, m) /\ g.version = "13" /\ g.psk_ok = ("psk" \in m.exts)
  BY <1>1, ShHeardDoes
<1> HIDE DEF g
<1>3. /\ g.state = h.state /\ g.in_epoch = h.in_epoch /\ g.hrr_seen = h.hrr_seen
      /\ g.cr_seen = h.cr_seen /\ g.in_base = h.in_base /\ g.in_len = h.in_len
      /\ g.n_certs = h.n_certs /\ g.out_off = h.out_off /\ g.out_split = h.out_split
      /\ g.buf = h.buf /\ g.out = h.out /\ g.exports = h.exports
  BY <1>2 DEF Same, Fields
<1>4. Listens(g, h, m) /\ Kind(m) = "SH"
  BY <1>1, <1>2, <1>3 DEF Listens, Typed, Late, Kind
<1>5. Queued(g, s) /\ HandedInOrder(g) /\ Heeds(g, h, "SH", m)
  BY <1>4, ListensReady, ListensHeeds
<1>6. Typed(g)
  BY <1>1, <1>2, <1>3, <1>5 DEF Heeds, Typed
<1>7. g.exports = <<>>
  BY <1>1, <1>3 DEF Heard, KeysAt, Early
<1>8. Of(g.th, "CKE") = {}
  BY <1>1, <1>5 DEF Heard, Heeds, Unheard, Early
<1>9. Len(h.th) + 1 \in DOMAIN g.th /\ g.th[Len(h.th) + 1] = m
  BY <1>2, <1>4 DEF Listens
<1> QED BY <1>3, <1>4, <1>5, <1>6, <1>7, <1>8, <1>9 DEF Handover, g

LEMMA ShKeysKeeps ==
    ASSUME NEW h, NEW s, Ready(h, s), h.state = "WAIT_SH", NEW env \in [Callbacks -> BOOLEAN],
           NEW m \in Messages, m.t = "SH", Acceptable(h, m)
    PROVE  Handled(sh_keys(h, m, env), h, s)
<1> DEFINE n  == Len(h.th) + 1
           g  == ShHeard(h, m)
           g1 == GivesOne(g, n, HANDSHAKE, "recv")
           g2 == GivesOne(g1, n, HANDSHAKE, "send")
           v  == [h EXCEPT !.version = "13"]
<1>1. Typed(h) /\ Shape(h) /\ Heard(h) /\ HandedInOrder(h) /\ h.state \notin Late \cup {"FAILED"}
  BY DEF Ready, Heard, Typed, KeysBoundToTranscript, Late
<1>2. /\ Typed(g) /\ HandedInOrder(g) /\ g.exports = <<>> /\ g.in_len = h.in_len
      /\ g.state = "WAIT_SH" /\ n \in DOMAIN g.th
      /\ Handover(g.th) = << <<HANDSHAKE, "recv", "SH">>, <<HANDSHAKE, "send", "SH">>,
                             <<APP, "recv", "FIN">>, <<APP, "send", "FIN">> >>
      /\ Kind(g.th[n]) = "SH" /\ Queued(g, s) /\ Heeds(g, h, "SH", m)
  BY ShHeardKeeps DEF Acceptable
<1>3. /\ Shape(g) /\ Same(g, h, {"th", "suite", "version", "psk_ok", "secrets"})
      /\ g.th = Append(h.th, m) /\ g.suite = m.suite /\ g.version = "13"
      /\ g.psk_ok = ("psk" \in m.exts)
      /\ g.secrets = (h.secrets \ {"priv", "p256", "psk"}) \cup {"ks", "c_hs", "s_hs"}
  BY <1>1, ShHeardDoes
<1>4. /\ Typed(g1) /\ HandedInOrder(g1) /\ Same(g1, g, {"exports"}) /\ Len(g1.exports) = 1
      /\ Holds(g1, HANDSHAKE, "recv")
  <2> HIDE DEF g, n
  <2>1. Len(g.exports) = 0 /\ HANDSHAKE \in Epochs /\ Len(Handover(g.th)) = 4 /\ "recv" \in {"recv", "send"}
    BY <1>2 DEF Epochs
  <2>2. <<HANDSHAKE, "recv", Kind(g.th[n])>> = Handover(g.th)[Len(g.exports) + 1]
    BY <1>2, <2>1
  <2>3. Typed(g) /\ HandedInOrder(g) /\ n \in DOMAIN g.th /\ Len(g.exports) < Len(Handover(g.th))
    BY <1>2, <2>1
  <2>4. /\ Typed(g1) /\ HandedInOrder(g1) /\ Same(g1, g, {"exports"})
        /\ Len(g1.exports) = Len(g.exports) + 1 /\ Holds(g1, HANDSHAKE, "recv")
    BY <2>1, <2>2, <2>3, GivesOneKeeps
  <2> HIDE DEF g1
  <2> QED BY <2>1, <2>4
<1>5. /\ g1.in_len = h.in_len /\ g1.th = g.th /\ g1.state = "WAIT_SH"
  <2> HIDE DEF g1
  <2> QED BY <1>2, <1>4 DEF Same, Fields
<1>6. /\ Typed(g2) /\ HandedInOrder(g2) /\ Same(g2, g1, {"exports"}) /\ Len(g2.exports) = 2
      /\ Holds(g2, HANDSHAKE, "recv")
  <2> HIDE DEF g, g1, n
  <2>1. HANDSHAKE \in Epochs /\ Len(Handover(g1.th)) = 4
    BY <1>2, <1>5 DEF Epochs
  <2>2. <<HANDSHAKE, "send", Kind(g1.th[n])>> = Handover(g1.th)[Len(g1.exports) + 1] /\ n \in DOMAIN g1.th
    BY <1>2, <1>4, <1>5, <2>1
  <2>3. Typed(g1) /\ HandedInOrder(g1) /\ Len(g1.exports) < Len(Handover(g1.th)) /\ "send" \in {"recv", "send"}
    BY <1>4, <2>1
  <2>4. /\ Typed(g2) /\ HandedInOrder(g2) /\ Same(g2, g1, {"exports"})
        /\ Len(g2.exports) = Len(g1.exports) + 1 /\ Holds(g2, HANDSHAKE, "recv")
    BY <1>4, <2>1, <2>2, <2>3, GivesOneKeeps
  <2> HIDE DEF g2
  <2> QED BY <1>4, <2>4
<1>7. \/ sh_keys(h, m, env) = fail(v, "illegal_parameter")
      \/ sh_keys(h, m, env) = fail(g, "internal_error")
      \/ sh_keys(h, m, env) = fail(g1, "internal_error")
      \/ sh_keys(h, m, env) = ShDone(g2)
  <2> DEFINE e == exported(g, n, HANDSHAKE, "recv", "send", env)
  <2>1. e = fail(g, "internal_error") \/ e = fail(g1, "internal_error") \/ e = g2
    <3> HIDE DEF g, n
    <3>1. "recv" \in Callbacks /\ "send" \in Callbacks
      BY DEF Callbacks
    <3> QED BY <3>1, ExportedDoes
  <2>2. fail(g, "internal_error").state = "FAILED" /\ fail(g1, "internal_error").state = "FAILED"
    <3> HIDE DEF g, g1, n
    <3> QED BY <1>2, <1>4, FailDoes, SMTT(30) DEF Typed, Fallen
  <2>3. g2.state = "WAIT_SH"
    <3> HIDE DEF g1, g2
    <3> QED BY <1>5, <1>6 DEF Same, Fields
  <2>4. sh_keys(h, m, env) = IF m.flaw = "point" THEN fail(v, "illegal_parameter")
                             ELSE IF e.state = "FAILED" THEN e ELSE ShDone(e)
    BY DEF sh_keys, ShHeard, ShDone
  <2> HIDE DEF e, g, g1, g2, v
  <2> QED BY <2>1, <2>2, <2>3, <2>4
<1>8. CASE sh_keys(h, m, env) = fail(v, "illegal_parameter")
  <2>1. Shape(v) /\ Same(v, h, {"version"})
    BY <1>1 DEF Shape, Same
  <2>2. v.version = "13"
    BY <1>1 DEF Shape, Fields
  <2> HIDE DEF v
  <2>3. Typed(v) /\ HandedInOrder(v) /\ v.in_len = h.in_len
    <3>1. /\ v.state = h.state /\ v.in_epoch = h.in_epoch /\ v.hrr_seen = h.hrr_seen
          /\ v.cr_seen = h.cr_seen /\ v.psk_ok = h.psk_ok /\ v.in_base = h.in_base /\ v.in_len = h.in_len
          /\ v.n_certs = h.n_certs /\ v.out_off = h.out_off /\ v.out_split = h.out_split
          /\ v.th = h.th /\ v.buf = h.buf /\ v.out = h.out /\ v.exports = h.exports
      BY <2>1 DEF Same, Fields
    <3> QED BY <1>1, <2>1, <2>2, <3>1 DEF Typed, HandedInOrder
  <2> QED BY <1>1, <1>8, <2>3, FailsLater
<1>9. CASE sh_keys(h, m, env) = fail(g, "internal_error")
  <2> HIDE DEF g
  <2> QED BY <1>1, <1>2, <1>9, FailsLater
<1>10. CASE sh_keys(h, m, env) = fail(g1, "internal_error")
  <2> HIDE DEF g1
  <2> QED BY <1>1, <1>4, <1>5, <1>10, FailsLater
<1>11. CASE sh_keys(h, m, env) = ShDone(g2)
  <2> DEFINE r == ShDone(g2)
  <2>1. Shape(r) /\ Same(r, g2, {"in_epoch", "state"}) /\ r.in_epoch = HANDSHAKE /\ r.state = "WAIT_EE"
    <3> HIDE DEF g2
    <3> QED BY <1>6, ShDoneDoes DEF Typed
  <2> HIDE DEF r, g, g1, g2, n, v
  <2>2. /\ r.th = g.th /\ r.suite = m.suite /\ r.version = "13" /\ r.psk_ok = ("psk" \in m.exts)
        /\ r.secrets = (h.secrets \ {"priv", "p256", "psk"}) \cup {"ks", "c_hs", "s_hs"}
        /\ r.exports = g2.exports /\ r.out = g.out /\ r.out_off = g.out_off /\ r.out_split = g.out_split
    BY <1>3, <1>4, <1>6, <2>1 DEF Same, Fields
  <2>3. /\ r.cfg = h.cfg /\ r.hrr_seen = h.hrr_seen /\ r.hrr_group = h.hrr_group
        /\ r.cookie = h.cookie /\ r.psk_suite = h.psk_suite
        /\ r.offer = h.offer /\ r.share_group = h.share_group /\ r.in_len = h.in_len
        /\ r.cr_seen = h.cr_seen /\ r.alpn_sel = h.alpn_sel /\ r.tls12_offered = h.tls12_offered
        /\ r.buf = h.buf /\ r.in_base = h.in_base /\ r.n_certs = h.n_certs
        /\ r.out = h.out /\ r.out_off = h.out_off /\ r.out_split = h.out_split
    BY <1>3, <1>4, <1>6, <2>1, SMTT(30) DEF Same, Fields
  <2>4. s \in SentType /\ Queued(r, s) /\ SentRight(r, s)
    <3>1. InLine(g, s) /\ ~(g.out_split < Len(g.out))
      BY <1>1, <1>2 DEF Queued, Late
    <3>2. Pending(r) = Pending(g)
      BY <2>2 DEF Pending
    <3>3. SentRight(r, s)
      BY <1>1, StillRight
    <3> QED BY <2>2, <3>1, <3>2, <3>3 DEF Ready, Queued, InLine
  <2>5. Heeds(r, h, "SH", m)
    BY <1>2, <2>2 DEF Heeds
  <2>6. Typed(r)
    <3>1. r.exports \in Seq(Epochs \X {"recv", "send"} \X Nat)
      BY <1>6, <2>2 DEF Typed
    <3> QED BY <1>1, <2>1, <2>2, <2>3, <2>5, <3>1 DEF Heeds, Typed, States, ServerStates13, Epochs
  <2>7. Script(r)
    <3>1. Kinds(h.th) = Greeting(h) /\ Greeting(r) = Greeting(h)
      BY <1>1, <2>3 DEF Heard, Script, Greeting
    <3>2. Kinds(r.th) = Greeting(r) \o <<"SH">>
      BY <2>5, <3>1, AfterGreeting DEF Heeds
    <3> QED BY <2>1, <3>2 DEF Script
  <2>8. Flags(r)
    BY <1>1, <2>1, <2>2, <2>3 DEF Heard, Flags, Early, Mid13, Mid12
  <2>9. Unheard(r)
    BY <1>1, <2>1, <2>2, <2>3, <2>5 DEF Heard, Heeds, Unheard, Early, Mid13, Mid12, Late
  <2>10. Chosen(r)
    BY <1>1, <2>1, <2>2, <2>3, <2>5, ZenonT(60) DEF Heard, Heeds, Chosen, Early, Mid13, Mid12, Acceptable
  <2>11. Offered(r)
    BY <1>1, <2>1, <2>3, <2>5 DEF Heard, Heeds, Offered, Open, Mid13, Mid12
  <2>12. Retried(r)
    <3>1. Retried(h) /\ h.state \in Open /\ h.state # "WAIT_CH2"
      BY <1>1 DEF Heard, Open
    <3>2. CASE ~h.hrr_seen
      BY <2>1, <2>3, <2>5, <3>1, <3>2 DEF Retried, Heeds
    <3>3. CASE h.hrr_seen
      <4>1. /\ Of(r.th, "HRR") = Of(h.th, "HRR") /\ Of(h.th, "HRR") # {}
            /\ The(r.th, "HRR") = The(h.th, "HRR") /\ The(r.th, "CH") = The(h.th, "CH")
            /\ r.th[1] = h.th[1]
        BY <1>1, <2>5, <3>1, <3>3 DEF Heeds, Retried, Heard, Offered
      <4>2. r.suite = h.suite
        BY <2>2, <3>3 DEF Acceptable
      <4> QED BY <2>1, <2>3, <3>1, <3>3, <4>1, <4>2 DEF Retried
    <3> QED BY <3>2, <3>3
  <2>13. KeysBoundToTranscript(r) /\ KeysAt(r)
    <3>1. HandedInOrder(r) /\ Holds(r, HANDSHAKE, "recv")
      <4>1. r.th = g2.th
        BY <2>1 DEF Same, Fields
      <4>2. HandedInOrder(r)
        BY <1>6, <2>2, <4>1, ZenonT(60) DEF HandedInOrder
      <4>3. Holds(r, HANDSHAKE, "recv")
        BY <1>6, <2>2 DEF Holds
      <4> QED BY <4>2, <4>3
    <3> QED BY <1>6, <2>1, <2>2, <3>1 DEF KeysBoundToTranscript, KeysAt, Early, Mid13, Mid12
  <2>14. SecretsAt(r)
    BY <1>1, <2>1, <2>2 DEF Heard, SecretsAt, Mid13
  <2>15. Certs(r)
    BY <1>1, <2>1, <2>3, <2>5 DEF Heard, Heeds, Certs
  <2>16. r.state \notin Late
    BY <2>1 DEF Late
  <2> QED BY <1>11, <2>3, <2>4, <2>6, <2>7, <2>8, <2>9, <2>10, <2>11, <2>12, <2>13, <2>14, <2>15, <2>16
          DEF Heard, Handled, Ready, r
<1> QED BY <1>7, <1>8, <1>9, <1>10, <1>11

LEMMA ShKeeps ==
    ASSUME NEW h, NEW s, Ready(h, s), h.state = "WAIT_SH", NEW env \in [Callbacks -> BOOLEAN],
           NEW m \in Messages, m.t = "SH"
    PROVE  Handled(hs_on_sh(h, m, env), h, s)
<1> DEFINE alert == FirstAlert(sh13_rules(h, m))
           more  == FirstAlert(psk_rules(h, m))
<1>0. m.hrr \in BOOLEAN
  BY HandshakeAssumption
<1>1. CASE \E a : hs_on_sh(h, m, env) = fail(h, a)
  BY <1>1, FailHandled
<1>2. CASE ~m.sentinel /\ h.tls12_offered /\ hs_on_sh(h, m, env) = tls12_on_sh(h, m)
  BY <1>2, Sh12Keeps
<1>3. CASE ~h.hrr_seen /\ m.hrr /\ hs_on_sh(h, m, env) = hs_on_hrr(h, m)
  BY <1>3, HrrKeeps
<1>4. CASE alert = "none" /\ more = "none" /\ ~m.hrr /\ hs_on_sh(h, m, env) = sh_keys(h, m, env)
  <2>1. Acceptable(h, m)
    BY <1>4, Sh13Rules, PskRules DEF Acceptable
  <2> QED BY <1>4, <2>1, ShKeysKeeps
<1>5. \/ \E a : hs_on_sh(h, m, env) = fail(h, a)
      \/ ~m.sentinel /\ h.tls12_offered /\ hs_on_sh(h, m, env) = tls12_on_sh(h, m)
      \/ ~h.hrr_seen /\ m.hrr /\ hs_on_sh(h, m, env) = hs_on_hrr(h, m)
      \/ alert = "none" /\ more = "none" /\ ~m.hrr /\ hs_on_sh(h, m, env) = sh_keys(h, m, env)
  <2>1. CASE m.flaw = "malformed" \/ (m.hrr /\ h.hrr_seen)
    BY <2>1 DEF hs_on_sh
  <2>2. CASE m.flaw # "malformed" /\ ~(m.hrr /\ h.hrr_seen) /\ m.version = "absent"
    BY <2>2 DEF hs_on_sh
  <2>3. CASE m.flaw # "malformed" /\ ~(m.hrr /\ h.hrr_seen) /\ m.version # "absent" /\ alert # "none"
    BY <2>3 DEF hs_on_sh
  <2>4. CASE /\ m.flaw # "malformed" /\ ~(m.hrr /\ h.hrr_seen) /\ m.version # "absent"
             /\ alert = "none" /\ m.hrr
    BY <2>4 DEF hs_on_sh
  <2>5. CASE /\ m.flaw # "malformed" /\ ~(m.hrr /\ h.hrr_seen) /\ m.version # "absent"
             /\ alert = "none" /\ ~m.hrr
    BY <2>5 DEF hs_on_sh
  <2> QED BY <2>1, <2>2, <2>3, <2>4, <2>5
<1> QED BY <1>1, <1>2, <1>3, <1>4, <1>5

-----------------------------------------------------------------------------
(* What the client queues *)

LEMMA NamesDoes ==
    ASSUME NEW s, NEW n \in Nat, DOMAIN s = 1..n, \A i \in 1..n : s[i].m \in OwnKinds
    PROVE  Names(s) \in Seq(OwnKinds) /\ Len(Names(s)) = n /\ \A i \in 1..n : Names(s)[i] = s[i].m
<1>1. Names(s) = [i \in 1..n |-> s[i].m]
  BY DEF Names
<1>2. Names(s) \in [1..n -> OwnKinds]
  BY <1>1
<1>3. Names(s) \in Seq(OwnKinds) /\ DOMAIN Names(s) = 1..n
  BY <1>2
<1> QED BY <1>1, <1>3

LEMMA NamesConcat ==
    ASSUME NEW S, NEW s \in Seq(S), NEW t \in Seq(S), \A x \in S : x.m \in OwnKinds
    PROVE  Names(s \o t) = Names(s) \o Names(t)
<1>1. /\ s \o t \in Seq(S) /\ Len(s \o t) = Len(s) + Len(t)
      /\ \A i \in 1..Len(s) + Len(t) : (s \o t)[i] = IF i <= Len(s) THEN s[i] ELSE t[i - Len(s)]
  BY ConcatProperties
<1> DEFINE u == s \o t
<1>2. /\ Len(s) \in Nat /\ Len(t) \in Nat /\ DOMAIN s = 1..Len(s) /\ DOMAIN t = 1..Len(t)
      /\ \A i \in 1..Len(s) : s[i] \in S
      /\ \A i \in 1..Len(t) : t[i] \in S
  OBVIOUS
<1> HIDE DEF u
<1>3. u \in Seq(S) /\ Len(u) = Len(s) + Len(t) /\ DOMAIN u = 1..Len(s) + Len(t)
      /\ \A i \in 1..Len(s) + Len(t) : u[i] = IF i <= Len(s) THEN s[i] ELSE t[i - Len(s)]
  <2>1. u \in Seq(S) /\ Len(u) = Len(s) + Len(t)
        /\ \A i \in 1..Len(s) + Len(t) : u[i] = IF i <= Len(s) THEN s[i] ELSE t[i - Len(s)]
    BY <1>1 DEF u
  <2> QED BY <2>1
<1>4. /\ Names(s) \in Seq(OwnKinds) /\ Len(Names(s)) = Len(s)
      /\ \A i \in 1..Len(s) : Names(s)[i] = s[i].m
  BY <1>2, NamesDoes
<1>5. /\ Names(t) \in Seq(OwnKinds) /\ Len(Names(t)) = Len(t)
      /\ \A i \in 1..Len(t) : Names(t)[i] = t[i].m
  BY <1>2, NamesDoes
<1>6. /\ Names(u) \in Seq(OwnKinds) /\ Len(Names(u)) = Len(s) + Len(t)
      /\ \A i \in 1..Len(s) + Len(t) : Names(u)[i] = u[i].m
  <2>1. Len(s) + Len(t) \in Nat /\ \A i \in 1..Len(s) + Len(t) : u[i] \in S
    BY <1>2, <1>3
  <2> QED BY <1>3, <2>1, NamesDoes
<1>7. /\ Names(s) \o Names(t) \in Seq(OwnKinds) /\ Len(Names(s) \o Names(t)) = Len(s) + Len(t)
      /\ \A i \in 1..Len(s) + Len(t) : (Names(s) \o Names(t))[i] =
                     IF i <= Len(s) THEN Names(s)[i] ELSE Names(t)[i - Len(s)]
  <2> DEFINE a == Names(s)
             b == Names(t)
  <2>1. /\ a \o b \in Seq(OwnKinds) /\ Len(a \o b) = Len(a) + Len(b)
        /\ \A i \in 1..Len(a) + Len(b) : (a \o b)[i] = IF i <= Len(a) THEN a[i] ELSE b[i - Len(a)]
    <3>1. a \in Seq(OwnKinds) /\ b \in Seq(OwnKinds)
      BY <1>4, <1>5
    <3> HIDE DEF a, b
    <3> QED BY <3>1, ConcatProperties
  <2>2. Len(a) = Len(s) /\ Len(b) = Len(t)
    BY <1>4, <1>5
  <2> HIDE DEF a, b
  <2>3. /\ a \o b \in Seq(OwnKinds) /\ Len(a \o b) = Len(s) + Len(t)
        /\ \A i \in 1..Len(s) + Len(t) : (a \o b)[i] = IF i <= Len(s) THEN a[i] ELSE b[i - Len(s)]
    BY <2>1, <2>2
  <2> QED BY <2>3 DEF a, b
<1>8. ASSUME NEW i \in 1..Len(s) + Len(t) PROVE Names(u)[i] = (Names(s) \o Names(t))[i]
  <2>1. CASE i <= Len(s)
    <3>1. i \in 1..Len(s)
      BY <1>2, <2>1
    <3> QED BY <1>3, <1>4, <1>6, <1>7, <2>1, <3>1
  <2>2. CASE ~(i <= Len(s))
    <3>1. i - Len(s) \in 1..Len(t)
      BY <1>2, <2>2
    <3> QED BY <1>3, <1>5, <1>6, <1>7, <2>2, <3>1
  <2> QED BY <2>1, <2>2
<1>9. Names(u) = Names(s) \o Names(t)
  BY <1>6, <1>7, <1>8, SeqEqual
<1> QED BY <1>9 DEF u

\* A queue o of which off units have left and that n more join.
LEMMA PendingConcat ==
    ASSUME NEW S, NEW o \in Seq(S), NEW u \in Seq(S), NEW off \in 0..Len(o)
    PROVE  SubSeq(o \o u, off + 1, Len(o \o u)) = SubSeq(o, off + 1, Len(o)) \o u
<1> DEFINE a == SubSeq(o \o u, off + 1, Len(o \o u))
           p == SubSeq(o, off + 1, Len(o))
           n == Len(o) - off + Len(u)
<1>1. /\ Len(o) \in Nat /\ Len(u) \in Nat /\ off \in Nat /\ off <= Len(o)
      /\ \A i \in 1..Len(o) : o[i] \in S
  OBVIOUS
<1>2. /\ o \o u \in Seq(S) /\ Len(o \o u) = Len(o) + Len(u)
      /\ \A i \in 1..Len(o) + Len(u) : (o \o u)[i] = IF i <= Len(o) THEN o[i] ELSE u[i - Len(o)]
  BY ConcatProperties
<1>3. a \in Seq(S) /\ Len(a) = n /\ \A i \in 1..n : a[i] = (o \o u)[off + i]
  <2> DEFINE c == o \o u
  <2>1. c \in Seq(S) /\ Len(c) = Len(o) + Len(u)
    BY <1>2
  <2> HIDE DEF c
  <2>2. \A i \in (off + 1)..Len(c) : c[i] \in S
    BY <1>1, <2>1
  <2>3. /\ SubSeq(c, off + 1, Len(c)) \in Seq(S)
        /\ Len(SubSeq(c, off + 1, Len(c))) = IF off + 1 <= Len(c) THEN Len(c) - (off + 1) + 1 ELSE 0
        /\ \A i \in 1..Len(c) - (off + 1) + 1 : SubSeq(c, off + 1, Len(c))[i] = c[(off + 1) + i - 1]
    <3>1. off + 1 \in Int /\ Len(c) \in Int
      BY <1>1, <2>1
    <3> QED BY <2>2, <3>1, SubSeqProperties
  <2>4. Len(SubSeq(c, off + 1, Len(c))) = n
    BY <1>1, <2>1, <2>3
  <2>5. \A i \in 1..n : SubSeq(c, off + 1, Len(c))[i] = c[off + i]
    <3> TAKE i \in 1..n
    <3>1. i \in 1..Len(c) - (off + 1) + 1 /\ (off + 1) + i - 1 = off + i
      BY <1>1, <2>1
    <3> QED BY <2>3, <3>1
  <2> QED BY <2>3, <2>4, <2>5 DEF c
<1>4. p \in Seq(S) /\ Len(p) = Len(o) - off /\ \A i \in 1..Len(o) - off : p[i] = o[off + i]
  <2>1. \A i \in (off + 1)..Len(o) : o[i] \in S
    BY <1>1
  <2>2. /\ p \in Seq(S) /\ Len(p) = IF off + 1 <= Len(o) THEN Len(o) - (off + 1) + 1 ELSE 0
        /\ \A i \in 1..Len(o) - (off + 1) + 1 : p[i] = o[(off + 1) + i - 1]
    BY <1>1, <2>1, SubSeqProperties
  <2> HIDE DEF p
  <2>3. \A i \in 1..Len(o) - off : p[i] = o[off + i]
    <3> TAKE i \in 1..Len(o) - off
    <3>1. i \in 1..Len(o) - (off + 1) + 1 /\ (off + 1) + i - 1 = off + i
      BY <1>1
    <3> QED BY <2>2, <3>1
  <2> QED BY <1>1, <2>2, <2>3
<1> HIDE DEF a, p
<1>5. /\ p \o u \in Seq(S) /\ Len(p \o u) = n
      /\ \A i \in 1..n : (p \o u)[i] = IF i <= Len(p) THEN p[i] ELSE u[i - Len(p)]
  <2>1. /\ p \o u \in Seq(S) /\ Len(p \o u) = Len(p) + Len(u)
        /\ \A i \in 1..Len(p) + Len(u) : (p \o u)[i] = IF i <= Len(p) THEN p[i] ELSE u[i - Len(p)]
    BY <1>4, ConcatProperties
  <2>2. Len(p) + Len(u) = n
    BY <1>1, <1>4
  <2> HIDE DEF n
  <2> QED BY <2>1, <2>2
<1>6. ASSUME NEW i \in 1..n PROVE a[i] = (p \o u)[i]
  <2>0. off + i \in 1..Len(o) + Len(u)
    BY <1>1
  <2>1. CASE i <= Len(o) - off
    <3>1. i \in 1..Len(o) - off /\ off + i <= Len(o)
      BY <1>1, <2>1
    <3> QED BY <1>2, <1>3, <1>4, <1>5, <2>0, <2>1, <3>1
  <2>2. CASE ~(i <= Len(o) - off)
    <3>1. ~(off + i <= Len(o)) /\ (off + i) - Len(o) = i - Len(p)
      BY <1>1, <1>4, <2>2
    <3> QED BY <1>2, <1>3, <1>4, <1>5, <2>0, <2>2, <3>1
  <2> QED BY <2>1, <2>2
<1>7. a = p \o u
  BY <1>3, <1>5, <1>6, SeqEqual
<1> QED BY <1>7 DEF a, p

LEMMA UnitsDoes ==
    ASSUME NEW x, x.t \in OwnKinds, NEW ep \in Epochs
    PROVE  /\ Units(x, ep) \in Seq([m : OwnKinds, ep : Epochs])
           /\ out_size(x) \in {1, 2} /\ Len(Units(x, ep)) = out_size(x)
           /\ \A i \in 1..out_size(x) : Units(x, ep)[i].ep = ep
           /\ Names(Units(x, ep)) = UnitsOf(x)
<1> DEFINE n == out_size(x)
           u == Units(x, ep)
<1>1. n \in {1, 2}
  BY DEF out_size
<1>2. u = [i \in 1..n |-> [m |-> x.t, ep |-> ep]]
  BY DEF Units
<1> HIDE DEF n, u
<1>3. u \in [1..n -> [m : OwnKinds, ep : Epochs]] /\ n \in Nat
  BY <1>1, <1>2
<1>4. u \in Seq([m : OwnKinds, ep : Epochs]) /\ Len(u) = n /\ DOMAIN u = 1..n
  <2> DEFINE T == [m : OwnKinds, ep : Epochs]
  <2> HIDE DEF T
  <2>1. u \in [1..n -> T]
    BY <1>3 DEF T
  <2>2. u \in Seq(T) /\ Len(u) = n /\ DOMAIN u = 1..n
    BY <1>3, <2>1
  <2> QED BY <2>2 DEF T
<1>5. \A i \in 1..n : u[i].ep = ep /\ u[i].m = x.t
  BY <1>2
<1>6. Names(u) = [i \in 1..n |-> x.t]
  BY <1>4, <1>5 DEF Names
<1> QED BY <1>1, <1>4, <1>5, <1>6 DEF UnitsOf, n, u

LEMMA QueueDoes ==
    ASSUME NEW h, NEW x, NEW ep, Shape(h)
    PROVE  LET g == queue(h, ep, x)
           IN  /\ Shape(g) /\ Same(g, h, {"th", "out", "out_split"})
               /\ g.th = Append(h.th, x) /\ g.out = h.out \o Units(x, ep)
               /\ g.out_split = IF ep = INITIAL THEN Len(h.out) + out_size(x) ELSE h.out_split
<1>1. Shape(queue(h, ep, x))
  BY DEF Shape, queue, th_add
<1>2. Same(queue(h, ep, x), h, {"th", "out", "out_split"})
  BY DEF Shape, Same, queue, th_add
<1>3. LET g == queue(h, ep, x)
      IN  /\ g.th = Append(h.th, x) /\ g.out = h.out \o Units(x, ep)
          /\ g.out_split = IF ep = INITIAL THEN Len(h.out) + out_size(x) ELSE h.out_split
  BY DEF Shape, Fields, queue, th_add
<1> QED BY <1>1, <1>2, <1>3

\* t is s and more messages, of the kinds K.
Adds(t, s, K) ==
    /\ t \in Seq(Transcript) /\ s \in Seq(Transcript) /\ Len(s) <= Len(t)
    /\ \A i \in 1..Len(s) : t[i] = s[i]
    /\ \A kind : kind \notin K =>
          /\ Of(t, kind) = Of(s, kind)
          /\ Of(s, kind) # {} => The(t, kind) = The(s, kind)

LEMMA AddsOne ==
    ASSUME NEW s \in Seq(Transcript), NEW m \in Transcript, NEW K, Kind(m) \in K
    PROVE  Adds(Append(s, m), s, K)
<1>1. /\ Append(s, m) \in Seq(Transcript) /\ Len(Append(s, m)) = Len(s) + 1
      /\ \A i \in 1..Len(s) : Append(s, m)[i] = s[i]
  BY Appended
<1>2. \A kind : kind \notin K =>
         /\ Of(Append(s, m), kind) = Of(s, kind)
         /\ Of(s, kind) # {} => The(Append(s, m), kind) = The(s, kind)
  BY Other
<1>3. Len(s) \in Nat
  OBVIOUS
<1> QED BY <1>1, <1>2, <1>3 DEF Adds

LEMMA AddsMore ==
    ASSUME NEW s, NEW t, NEW u, NEW K, Adds(t, s, K), Adds(u, t, K)
    PROVE  Adds(u, s, K)
<1>1. /\ s \in Seq(Transcript) /\ t \in Seq(Transcript) /\ u \in Seq(Transcript)
      /\ Len(s) <= Len(t) /\ Len(t) <= Len(u)
      /\ Len(s) \in Nat /\ Len(t) \in Nat /\ Len(u) \in Nat
  BY DEF Adds
<1>2. \A i \in 1..Len(s) : u[i] = s[i]
  <2> TAKE i \in 1..Len(s)
  <2>1. i \in 1..Len(t)
    BY <1>1
  <2> QED BY <2>1 DEF Adds
<1>3. \A kind : kind \notin K =>
         /\ Of(u, kind) = Of(s, kind)
         /\ Of(s, kind) # {} => The(u, kind) = The(s, kind)
  BY DEF Adds
<1>4. Len(s) <= Len(u)
  BY <1>1
<1> QED BY <1>1, <1>2, <1>3, <1>4 DEF Adds

\* One more message of the client's in the queue.
LEMMA QueueKeeps ==
    ASSUME NEW h, Typed(h), NEW s \in SentType, InLine(h, s),
           NEW x \in Transcript, x.t \in OwnKinds, NEW ep \in Epochs,
           ep = INITIAL => h.out_split = Len(h.out)
    PROVE  LET g == queue(h, ep, x)
           IN  /\ Typed(g) /\ Same(g, h, {"th", "out", "out_split"}) /\ InLine(g, s)
               /\ g.th = Append(h.th, x) /\ Kinds(g.th) = Append(Kinds(h.th), x.t)
               /\ Of(g.th, x.t) # {} /\ The(g.th, x.t) = x
               /\ Len(h.out) <= Len(g.out)
               /\ ep = INITIAL => g.out_split = Len(g.out)
               /\ ep # INITIAL => g.out_split = h.out_split /\ g.out_split < Len(g.out)
               /\ \A K : x.t \in K => Adds(g.th, h.th, K)
<1> DEFINE g == queue(h, ep, x)
           u == Units(x, ep)
<1>1. /\ Shape(g) /\ Same(g, h, {"th", "out", "out_split"})
      /\ g.th = Append(h.th, x) /\ g.out = h.out \o u
      /\ g.out_split = IF ep = INITIAL THEN Len(h.out) + out_size(x) ELSE h.out_split
  BY QueueDoes DEF Typed
<1> HIDE DEF g, u
<1>2. /\ h.th \in Seq(Transcript) /\ h.out \in Seq([m : OwnKinds, ep : Epochs])
      /\ h.out_off \in Nat /\ h.out_split \in Nat /\ Len(h.out) \in Nat
      /\ h.out_off <= Len(h.out) /\ h.out_split <= Len(h.out)
  BY DEF Typed, InLine
<1>3. /\ u \in Seq([m : OwnKinds, ep : Epochs]) /\ out_size(x) \in {1, 2} /\ Len(u) = out_size(x)
      /\ \A i \in 1..out_size(x) : u[i].ep = ep
      /\ Names(u) = UnitsOf(x)
  BY UnitsDoes DEF u
<1>4. /\ g.out \in Seq([m : OwnKinds, ep : Epochs]) /\ Len(g.out) = Len(h.out) + out_size(x)
      /\ \A i \in 1..Len(h.out) + out_size(x) :
            g.out[i] = IF i <= Len(h.out) THEN h.out[i] ELSE u[i - Len(h.out)]
  <2>1. /\ h.out \o u \in Seq([m : OwnKinds, ep : Epochs]) /\ Len(h.out \o u) = Len(h.out) + Len(u)
        /\ \A i \in 1..Len(h.out) + Len(u) :
              (h.out \o u)[i] = IF i <= Len(h.out) THEN h.out[i] ELSE u[i - Len(h.out)]
    BY <1>2, <1>3, ConcatProperties
  <2> QED BY <1>1, <1>3, <2>1
<1>5. Kind(x) = x.t
  <2>1. "SH" \notin OwnKinds
    BY DEF OwnKinds
  <2> QED BY <2>1 DEF Kind
<1>6. /\ g.th \in Seq(Transcript) /\ Kinds(g.th) = Append(Kinds(h.th), x.t)
      /\ Of(g.th, x.t) # {} /\ The(g.th, x.t) = x
  BY <1>1, <1>2, <1>5, Appended, KindsAppended
<1>7. \A K : x.t \in K => Adds(g.th, h.th, K)
  BY <1>1, <1>2, <1>5, AddsOne
<1>8. /\ g.state = h.state /\ g.version = h.version /\ g.in_epoch = h.in_epoch
      /\ g.hrr_seen = h.hrr_seen /\ g.cr_seen = h.cr_seen /\ g.psk_ok = h.psk_ok
      /\ g.in_base = h.in_base /\ g.in_len = h.in_len /\ g.n_certs = h.n_certs
      /\ g.out_off = h.out_off /\ g.buf = h.buf /\ g.exports = h.exports
  BY <1>1, ZenonT(60) DEF Same, Fields
<1>9. Len(h.out) <= Len(g.out) /\ g.out_split \in Nat /\ g.out_split <= Len(g.out)
      /\ (ep = INITIAL => g.out_split = Len(g.out))
      /\ (ep # INITIAL => g.out_split = h.out_split /\ g.out_split < Len(g.out))
  BY <1>1, <1>2, <1>3, <1>4, SMTT(30)
<1>10. Typed(g)
  BY <1>1, <1>4, <1>6, <1>8, <1>9 DEF Typed
<1>11. Names(s) \o Names(Pending(g)) = OwnUnits(g.th)
  <2> DEFINE p == Pending(h)
  <2>1. Pending(g) = p \o u /\ p \in Seq([m : OwnKinds, ep : Epochs])
    <3>1. h.out_off \in 0..Len(h.out)
      BY <1>2
    <3>2. Pending(g) = p \o u
      BY <1>1, <1>2, <1>3, <1>8, <3>1, PendingConcat DEF Pending
    <3>3. p \in Seq([m : OwnKinds, ep : Epochs])
      <4> DEFINE T == [m : OwnKinds, ep : Epochs]
      <4>1. h.out \in Seq(T)
        BY <1>2
      <4> HIDE DEF T
      <4>2. \A i \in (h.out_off + 1)..Len(h.out) : h.out[i] \in T
        BY <1>2, <4>1
      <4>3. p \in Seq(T)
        BY <1>2, <4>2, SubSeqProperties DEF Pending
      <4> QED BY <4>3 DEF T
    <3> QED BY <3>2, <3>3
  <2> HIDE DEF p
  <2>2. Names(Pending(g)) = Names(p) \o UnitsOf(x)
    <3>1. \A y \in [m : OwnKinds, ep : Epochs] : y.m \in OwnKinds
      OBVIOUS
    <3>2. Names(p \o u) = Names(p) \o Names(u)
      BY <1>3, <2>1, <3>1, NamesConcat
    <3> QED BY <1>3, <2>1, <3>2
  <2>3. Names(s) \in Seq(OwnKinds) /\ Names(p) \in Seq(OwnKinds) /\ UnitsOf(x) \in Seq(OwnKinds)
    <3>1. DOMAIN s = 1..Len(s) /\ Len(s) \in Nat /\ \A i \in 1..Len(s) : s[i].m \in OwnKinds
      <4> DEFINE T == [m : OwnKinds, queued : Epochs, as : Epochs]
      <4>1. s \in Seq(T) /\ \A y \in T : y.m \in OwnKinds
        BY DEF SentType
      <4> HIDE DEF T
      <4> QED BY <4>1
    <3>2. DOMAIN p = 1..Len(p) /\ Len(p) \in Nat /\ \A i \in 1..Len(p) : p[i].m \in OwnKinds
      <4> DEFINE T == [m : OwnKinds, ep : Epochs]
      <4>1. p \in Seq(T) /\ \A y \in T : y.m \in OwnKinds
        BY <2>1
      <4> HIDE DEF T
      <4> QED BY <4>1
    <3> QED BY <3>1, <3>2, NamesDoes, UnitsOfType
  <2>4. Names(s) \o (Names(p) \o UnitsOf(x)) = (Names(s) \o Names(p)) \o UnitsOf(x)
    BY <2>3, ConcatAssociative
  <2>5. OwnUnits(g.th) = OwnUnits(h.th) \o UnitsOf(x)
    BY <1>1, <1>2, OwnUnitsAppended
  <2> QED BY <2>2, <2>4, <2>5 DEF InLine, p
<1>12. \A j \in 1..Len(g.out) : (g.out[j].ep = INITIAL) <=> (j <= g.out_split)
  <2> TAKE j \in 1..Len(g.out)
  <2>1. CASE j <= Len(h.out)
    <3>1. j \in 1..Len(h.out) /\ g.out[j] = h.out[j]
      BY <1>2, <1>3, <1>4, <2>1
    <3>2. (h.out[j].ep = INITIAL) <=> (j <= h.out_split)
      BY <3>1 DEF InLine
    <3> QED BY <1>1, <1>2, <1>3, <1>9, <2>1, <3>1, <3>2
  <2>2. CASE ~(j <= Len(h.out))
    <3>0. j \in 1..Len(h.out) + out_size(x) /\ out_size(x) \in Nat
      BY <1>3, <1>4
    <3>1. j - Len(h.out) \in 1..out_size(x) /\ g.out[j] = u[j - Len(h.out)]
      <4>1. g.out[j] = u[j - Len(h.out)]
        BY <1>4, <2>2, <3>0
      <4>2. j - Len(h.out) \in 1..out_size(x)
        BY <1>2, <2>2, <3>0
      <4> QED BY <4>1, <4>2
    <3>2. g.out[j].ep = ep
      BY <1>3, <3>1
    <3> QED BY <1>1, <1>2, <1>3, <1>4, <2>2, <3>2
  <2> QED BY <2>1, <2>2
<1>13. InLine(g, s)
  BY <1>2, <1>8, <1>9, <1>11, <1>12 DEF InLine
<1> QED BY <1>1, <1>6, <1>7, <1>9, <1>10, <1>13 DEF g

AllKinds == ServerKinds \cup OwnKinds \cup {"HRR"}

LEMMA KindsType ==
    ASSUME NEW s \in Seq(Transcript)
    PROVE  Kinds(s) \in Seq(AllKinds)
<1>1. ASSUME NEW x \in Transcript PROVE Kind(x) \in AllKinds
  <2>1. CASE x \in Messages
    BY <2>1, ServerMessage DEF AllKinds
  <2>2. CASE x \in Hellos \cup OwnFlight
    <3>1. x.t \in OwnKinds
      BY <2>2, HandshakeAssumption DEF OwnFlight, Flight, OwnKinds
    <3> QED BY <3>1 DEF Kind, AllKinds
  <2> QED BY <2>1, <2>2 DEF Transcript
<1>2. Len(s) \in Nat /\ DOMAIN s = 1..Len(s) /\ \A i \in 1..Len(s) : s[i] \in Transcript
  OBVIOUS
<1>3. Kinds(s) = [i \in 1..Len(s) |-> Kind(s[i])]
  BY <1>2 DEF Kinds
<1>4. Kinds(s) \in [1..Len(s) -> AllKinds]
  BY <1>1, <1>2, <1>3
<1> QED BY <1>2, <1>4

\* A sequence and one or two more elements.
LEMMA OneMore ==
    ASSUME NEW S, NEW k \in Seq(S), NEW a \in S
    PROVE  k \o <<a>> \in Seq(S) /\ Append(k, a) = k \o <<a>> /\ k \o <<>> = k
<1>1. <<a>> \in Seq(S)
  OBVIOUS
<1> QED BY <1>1, AppendIsConcat, ConcatProperties, ConcatEmptySeq

LEMMA TwoMore ==
    ASSUME NEW S, NEW k \in Seq(S), NEW a \in S, NEW b \in S
    PROVE  Append(Append(k, a), b) = k \o <<a, b>>
<1>1. <<a>> \in Seq(S) /\ <<b>> \in Seq(S)
  OBVIOUS
<1>2. Append(k, a) = k \o <<a>> /\ k \o <<a>> \in Seq(S)
  BY OneMore
<1>3. Append(k \o <<a>>, b) = (k \o <<a>>) \o <<b>>
  BY <1>2, OneMore
<1>4. (k \o <<a>>) \o <<b>> = k \o (<<a>> \o <<b>>)
  BY <1>1, ConcatAssociative
<1>5. <<a>> \o <<b>> = <<a, b>>
  BY Pair
<1> QED BY <1>2, <1>3, <1>4, <1>5

\* A message of the server's before the client answers.
LEMMA ThAddDoes ==
    ASSUME NEW h, Typed(h), NEW s \in SentType, InLine(h, s), NEW m \in Messages
    PROVE  LET g == th_add(h, m)
           IN  /\ Typed(g) /\ Same(g, h, {"th"}) /\ InLine(g, s)
               /\ g.th = Append(h.th, m) /\ Kinds(g.th) = Append(Kinds(h.th), Kind(m))
               /\ Of(g.th, Kind(m)) # {} /\ The(g.th, Kind(m)) = m
               /\ Len(h.th) + 1 \in DOMAIN g.th /\ g.th[Len(h.th) + 1] = m
               /\ \A K : Kind(m) \in K => Adds(g.th, h.th, K)
<1> DEFINE g == th_add(h, m)
<1>1. Shape(g) /\ Same(g, h, {"th"})
  BY DEF Typed, Shape, Same, th_add
<1>2. g.th = Append(h.th, m)
  BY DEF Typed, Shape, Fields, th_add
<1> HIDE DEF g
<1>3. h.th \in Seq(Transcript) /\ m \in Transcript
  BY ServerMessage DEF Typed
<1>4. /\ g.th \in Seq(Transcript) /\ Kinds(g.th) = Append(Kinds(h.th), Kind(m))
      /\ Of(g.th, Kind(m)) # {} /\ The(g.th, Kind(m)) = m
      /\ Len(h.th) + 1 \in DOMAIN g.th /\ g.th[Len(h.th) + 1] = m
  <2>1. Len(g.th) = Len(h.th) + 1 /\ g.th[Len(h.th) + 1] = m /\ Len(h.th) \in Nat
    BY <1>2, <1>3, Appended
  <2>2. g.th \in Seq(Transcript)
    BY <1>2, <1>3, Appended
  <2> QED BY <1>2, <1>3, <2>1, <2>2, Appended, KindsAppended
<1>5. \A K : Kind(m) \in K => Adds(g.th, h.th, K)
  BY <1>2, <1>3, AddsOne
<1>6. /\ g.state = h.state /\ g.version = h.version /\ g.in_epoch = h.in_epoch
      /\ g.hrr_seen = h.hrr_seen /\ g.cr_seen = h.cr_seen /\ g.psk_ok = h.psk_ok
      /\ g.in_base = h.in_base /\ g.in_len = h.in_len /\ g.n_certs = h.n_certs
      /\ g.out_off = h.out_off /\ g.buf = h.buf /\ g.exports = h.exports
      /\ g.out = h.out /\ g.out_split = h.out_split
  BY <1>1 DEF Same, Fields
<1>7. Typed(g)
  BY <1>1, <1>4, <1>6 DEF Typed
<1>8. OwnUnits(g.th) = OwnUnits(h.th)
  <2>1. UnitsOf(m) = <<>>
    BY ServerMessage DEF UnitsOf
  <2>2. OwnUnits(g.th) = OwnUnits(h.th) \o <<>> /\ OwnUnits(h.th) \in Seq(OwnKinds)
    BY <1>2, <1>3, <2>1, OwnUnitsAppended, OwnUnitsType
  <2> QED BY <2>2
<1>9. InLine(g, s)
  BY <1>6, <1>8 DEF InLine, Pending
<1> QED BY <1>1, <1>2, <1>4, <1>5, <1>7, <1>9 DEF g

LEMMA OwnTranscript ==
    ASSUME NEW t \in OwnKinds
    PROVE  Flight(t) \in Transcript /\ Flight(t).t = t
BY DEF Transcript, OwnFlight, Flight

LEMMA OutLength == ASSUME NEW h, Typed(h) PROVE Len(h.out) \in Nat
BY DEF Typed

\* The answer to a CertificateRequest, if there was one.
AnswerKinds == {"C_CERT", "C_CV", "C_EMPTY"}
Answered(f, g, s, answer) ==
    /\ Typed(f) /\ Same(f, g, {"th", "out", "out_split"}) /\ InLine(f, s)
    /\ f.out_split = g.out_split /\ Len(g.out) <= Len(f.out)
    /\ Kinds(f.th) = Kinds(g.th) \o answer /\ Adds(f.th, g.th, AnswerKinds)
    /\ answer \in {<<>>, <<"C_EMPTY">>, <<"C_CERT", "C_CV">>}
    /\ g.cr_seen <=> answer # <<>>
    /\ Of(f.th, "C_CERT") # {} => Of(g.th, "C_CERT") # {} \/ g.cfg.client # "none"

LEMMA ClientAuthDoes ==
    ASSUME NEW g, Typed(g), NEW s \in SentType, InLine(g, s)
    PROVE  \E answer : Answered(IF g.cr_seen THEN hs_client_auth(g) ELSE g, g, s, answer)
<1>0. g.cr_seen \in BOOLEAN /\ g.th \in Seq(Transcript) /\ Kinds(g.th) \in Seq(AllKinds)
  BY KindsType DEF Typed
<1>a. HANDSHAKE \in Epochs /\ HANDSHAKE # INITIAL
  BY DEF Epochs, HANDSHAKE, INITIAL
<1>b. {"C_CERT", "C_CV", "C_EMPTY"} \subseteq OwnKinds /\ {"C_CERT", "C_CV", "C_EMPTY"} \subseteq AllKinds
  BY DEF OwnKinds, AllKinds
<1>1. CASE ~g.cr_seen
  <2>1. Adds(g.th, g.th, AnswerKinds)
    <3>1. Len(g.th) \in Nat
      BY <1>0
    <3> QED BY <1>0, <3>1 DEF Adds
  <2>2. Kinds(g.th) = Kinds(g.th) \o <<>>
    BY <1>0, ConcatEmptySeq
  <2>3. Len(g.out) \in Nat
    BY DEF Typed
  <2>4. Same(g, g, {"th", "out", "out_split"})
    BY DEF Same
  <2>5. Answered(g, g, s, <<>>)
    BY <1>1, <2>1, <2>2, <2>3, <2>4 DEF Answered
  <2> QED BY <1>1, <2>5
<1>2. CASE g.cr_seen /\ signs(g)
  <2> DEFINE c == queue(g, HANDSHAKE, Flight("C_CERT"))
             f == queue(c, HANDSHAKE, Flight("C_CV"))
  <2>1. /\ Typed(c) /\ Same(c, g, {"th", "out", "out_split"}) /\ InLine(c, s)
        /\ Kinds(c.th) = Append(Kinds(g.th), "C_CERT") /\ Len(g.out) <= Len(c.out)
        /\ c.out_split = g.out_split /\ Adds(c.th, g.th, AnswerKinds)
    <3>1. "C_CERT" \in AnswerKinds /\ Flight("C_CERT") \in Transcript /\ Flight("C_CERT").t = "C_CERT"
      BY <1>b, OwnTranscript DEF AnswerKinds
    <3> QED BY <1>a, <1>b, <3>1, QueueKeeps
  <2> HIDE DEF c
  <2>2. /\ Typed(f) /\ Same(f, c, {"th", "out", "out_split"}) /\ InLine(f, s)
        /\ Kinds(f.th) = Append(Kinds(c.th), "C_CV") /\ Len(c.out) <= Len(f.out)
        /\ f.out_split = c.out_split /\ Adds(f.th, c.th, AnswerKinds)
    <3>1. "C_CV" \in AnswerKinds /\ Flight("C_CV") \in Transcript /\ Flight("C_CV").t = "C_CV"
      BY <1>b, OwnTranscript DEF AnswerKinds
    <3> QED BY <1>a, <1>b, <2>1, <3>1, QueueKeeps
  <2>3. hs_client_auth(g) = f
    BY <1>2 DEF hs_client_auth, c
  <2> HIDE DEF f
  <2>4. Kinds(f.th) = Kinds(g.th) \o <<"C_CERT", "C_CV">>
    BY <1>0, <1>b, <2>1, <2>2, TwoMore
  <2>5. Same(f, g, {"th", "out", "out_split"}) /\ Adds(f.th, g.th, AnswerKinds)
    <3>1. Same(f, g, {"th", "out", "out_split"})
      BY <2>1, <2>2 DEF Same
    <3> QED BY <2>1, <2>2, <3>1, AddsMore
  <2>6. Len(g.out) <= Len(f.out)
    <3>1. Len(g.out) \in Nat /\ Len(c.out) \in Nat /\ Len(f.out) \in Nat
      BY <2>1, <2>2, OutLength
    <3> QED BY <2>1, <2>2, <3>1
  <2>7. <<"C_CERT", "C_CV">> # <<>> /\ g.cfg.client # "none"
    <3>1. <<"C_CERT", "C_CV">> # <<>>
      OBVIOUS
    <3> QED BY <1>2, <3>1 DEF signs
  <2>8. Answered(f, g, s, <<"C_CERT", "C_CV">>)
    BY <1>2, <2>1, <2>2, <2>4, <2>5, <2>6, <2>7 DEF Answered
  <2> QED BY <1>2, <2>3, <2>8
<1>3. CASE g.cr_seen /\ ~signs(g)
  <2> DEFINE f == queue(g, HANDSHAKE, Flight("C_EMPTY"))
  <2>1. /\ Typed(f) /\ Same(f, g, {"th", "out", "out_split"}) /\ InLine(f, s)
        /\ Kinds(f.th) = Append(Kinds(g.th), "C_EMPTY") /\ Len(g.out) <= Len(f.out)
        /\ f.out_split = g.out_split /\ Adds(f.th, g.th, AnswerKinds) /\ Adds(f.th, g.th, {"C_EMPTY"})
    <3>1. /\ "C_EMPTY" \in AnswerKinds /\ Flight("C_EMPTY") \in Transcript
          /\ Flight("C_EMPTY").t = "C_EMPTY" /\ "C_EMPTY" \in {"C_EMPTY"}
      BY <1>b, OwnTranscript DEF AnswerKinds
    <3>2. /\ Typed(f) /\ Same(f, g, {"th", "out", "out_split"}) /\ InLine(f, s)
          /\ Kinds(f.th) = Append(Kinds(g.th), "C_EMPTY") /\ Len(g.out) <= Len(f.out)
          /\ f.out_split = g.out_split
      BY <1>a, <1>b, <3>1, QueueKeeps
    <3>3. \A K : "C_EMPTY" \in K => Adds(f.th, g.th, K)
      BY <1>a, <1>b, <3>1, QueueKeeps
    <3> HIDE DEF f
    <3> QED BY <3>1, <3>2, <3>3
  <2>2. hs_client_auth(g) = f
    BY <1>3 DEF hs_client_auth
  <2> HIDE DEF f
  <2>3. Kinds(f.th) = Kinds(g.th) \o <<"C_EMPTY">>
    BY <1>0, <1>b, <2>1, OneMore
  <2>4. Of(f.th, "C_CERT") = Of(g.th, "C_CERT")
    BY <2>1 DEF Adds
  <2>5. <<"C_EMPTY">> # <<>>
    OBVIOUS
  <2>6. Answered(f, g, s, <<"C_EMPTY">>)
    BY <1>3, <2>1, <2>3, <2>4, <2>5 DEF Answered
  <2> QED BY <1>3, <2>2, <2>6
<1> QED BY <1>0, <1>1, <1>2, <1>3

\* Two secrets over the first n messages that are next in order, from g on.
LEMMA HandsOver ==
    ASSUME NEW g, Typed(g), HandedInOrder(g), g.state # "FAILED", NEW n \in DOMAIN g.th,
           NEW epoch \in Epochs, NEW first \in {"recv", "send"}, NEW second \in {"recv", "send"},
           NEW k \in Nat, Len(g.exports) = k, k + 2 <= Len(Handover(g.th)),
           <<epoch, first, Kind(g.th[n])>> = Handover(g.th)[k + 1],
           <<epoch, second, Kind(g.th[n])>> = Handover(g.th)[k + 2],
           NEW env \in [Callbacks -> BOOLEAN]
    PROVE  LET e == exported(g, n, epoch, first, second, env)
           IN  \/ /\ e.state = "FAILED"
                  /\ \E f, alert : /\ e = fail(f, alert) /\ Typed(f) /\ HandedInOrder(f)
                                   /\ f.in_len = g.in_len
               \/ /\ e.state # "FAILED" /\ Typed(e) /\ HandedInOrder(e) /\ Same(e, g, {"exports"})
                  /\ Len(e.exports) = k + 2 /\ Holds(e, epoch, first) /\ Holds(e, epoch, second)
<1> DEFINE g1 == GivesOne(g, n, epoch, first)
           g2 == GivesOne(g1, n, epoch, second)
           e  == exported(g, n, epoch, first, second, env)
<1>0. Len(Handover(g.th)) \in Nat
  BY DEF Handover
<1>1. /\ Typed(g1) /\ HandedInOrder(g1) /\ Same(g1, g, {"exports"})
      /\ Len(g1.exports) = k + 1 /\ Holds(g1, epoch, first)
  <2>1. Len(g.exports) < Len(Handover(g.th))
    BY <1>0
  <2>2. /\ Typed(g1) /\ HandedInOrder(g1) /\ Same(g1, g, {"exports"})
        /\ Len(g1.exports) = Len(g.exports) + 1 /\ Holds(g1, epoch, first)
    BY <2>1, GivesOneKeeps
  <2> HIDE DEF g1
  <2> QED BY <2>2
<1>2. g1.th = g.th /\ g1.in_len = g.in_len /\ g1.state = g.state
  <2> HIDE DEF g1
  <2> QED BY <1>1 DEF Same, Fields
<1>3. /\ Typed(g2) /\ HandedInOrder(g2) /\ Same(g2, g1, {"exports"})
      /\ Len(g2.exports) = k + 2 /\ Holds(g2, epoch, first) /\ Holds(g2, epoch, second)
  <2> HIDE DEF g1
  <2>1. Len(g1.exports) < Len(Handover(g1.th)) /\ n \in DOMAIN g1.th
    BY <1>0, <1>1, <1>2
  <2>2. <<epoch, second, Kind(g1.th[n])>> = Handover(g1.th)[Len(g1.exports) + 1]
    BY <1>1, <1>2
  <2>3. /\ Typed(g2) /\ HandedInOrder(g2) /\ Same(g2, g1, {"exports"})
        /\ Len(g2.exports) = Len(g1.exports) + 1
        /\ Holds(g2, epoch, second) /\ Holds(g2, epoch, first)
    BY <1>1, <2>1, <2>2, GivesOneKeeps
  <2> HIDE DEF g2
  <2> QED BY <1>1, <2>3
<1>4. e = fail(g, "internal_error") \/ e = fail(g1, "internal_error") \/ e = g2
  <2>1. first \in Callbacks /\ second \in Callbacks
    BY DEF Callbacks
  <2> QED BY <2>1, ExportedDoes
<1>5. fail(g, "internal_error").state = "FAILED" /\ fail(g1, "internal_error").state = "FAILED"
  <2> HIDE DEF g1
  <2> QED BY <1>1, FailDoes, ZenonT(60) DEF Typed, Fallen
<1>6. Same(g2, g, {"exports"}) /\ g2.state # "FAILED"
  <2> HIDE DEF g1, g2
  <2>1. Same(g2, g, {"exports"})
    BY <1>1, <1>3 DEF Same
  <2>2. g2.state = g.state
    BY <2>1 DEF Same, Fields
  <2> QED BY <2>1, <2>2
<1> HIDE DEF g1, g2, e
<1>7. CASE e = fail(g, "internal_error")
  BY <1>5, <1>7 DEF e
<1>8. CASE e = fail(g1, "internal_error")
  BY <1>1, <1>2, <1>5, <1>8 DEF e
<1>9. CASE e = g2
  BY <1>3, <1>6, <1>9 DEF e
<1> QED BY <1>4, <1>7, <1>8, <1>9

-----------------------------------------------------------------------------
(* The server's Finished *)

LEMMA AddsWider ==
    ASSUME NEW t, NEW s, NEW K, Adds(t, s, K), NEW L, K \subseteq L
    PROVE  Adds(t, s, L)
<1>1. \A kind : kind \notin L => kind \notin K
  OBVIOUS
<1> QED BY <1>1 DEF Adds

\* What is added leaves the secrets in order, unless it is a ClientKeyExchange.
LEMMA StillInOrder ==
    ASSUME NEW h, Typed(h), HandedInOrder(h), NEW g, g.exports = h.exports,
           NEW K, Adds(g.th, h.th, K), "CKE" \notin K
    PROVE  HandedInOrder(g) /\ Handover(g.th) = Handover(h.th)
<1>1. Of(g.th, "CKE") = Of(h.th, "CKE")
  BY DEF Adds
<1>2. Handover(g.th) = Handover(h.th)
  BY <1>1 DEF Handover
<1>3. \A i \in DOMAIN h.th : i \in DOMAIN g.th /\ g.th[i] = h.th[i]
  <2>1. /\ DOMAIN h.th = 1..Len(h.th) /\ DOMAIN g.th = 1..Len(g.th) /\ Len(h.th) \in Nat
        /\ Len(g.th) \in Nat /\ Len(h.th) <= Len(g.th)
    BY DEF Adds
  <2>2. \A i \in 1..Len(h.th) : i \in 1..Len(g.th)
    BY <2>1
  <2> QED BY <2>1, <2>2 DEF Adds
<1>4. h.exports \in Seq(Epochs \X {"recv", "send"} \X Nat)
  BY DEF Typed
<1> QED BY <1>2, <1>3, <1>4 DEF HandedInOrder

\* What was agreed with the hellos stays agreed.
LEMMA AgreedFrom ==
    ASSUME NEW h, Heard(h), h.state \in {"WAIT_FIN", "WAIT12_CR_SHD", "WAIT12_SHD"},
           NEW r, r.cfg = h.cfg, r.suite = h.suite, r.alpn_sel = h.alpn_sel, r.version = h.version,
           r.psk_ok = h.psk_ok, r.psk_suite = h.psk_suite,
           NEW K, Adds(r.th, h.th, K), "CH" \notin K, "HRR" \notin K, "SH" \notin K
    PROVE  Agreed(r) /\ NotDowngraded(r) /\ The(r.th, "CH") = The(h.th, "CH")
<1>1. h.state \in Open /\ h.state \in Mid13 \cup Mid12 /\ h.state # "WAIT_CH2"
  BY DEF Open, Mid13, Mid12
<1>2. /\ Of(h.th, "CH") # {} /\ Of(h.th, "SH") # {}
  BY <1>1 DEF Heard, Offered, Chosen
<1>3. /\ The(r.th, "CH") = The(h.th, "CH") /\ The(r.th, "SH") = The(h.th, "SH")
      /\ Of(r.th, "HRR") = Of(h.th, "HRR")
      /\ Of(h.th, "HRR") # {} => The(r.th, "HRR") = The(h.th, "HRR")
  BY <1>2 DEF Adds
<1>4. r.th[1] = h.th[1]
  <2>1. Len(h.th) \in Nat /\ h.th # <<>> /\ h.th \in Seq(Transcript)
    BY <1>2 DEF Of, Adds
  <2>2. 1 \in 1..Len(h.th)
    BY <2>1
  <2> QED BY <2>2 DEF Adds
<1>5. /\ h.suite = The(h.th, "SH").suite /\ h.suite \in The(h.th, "CH").suites
      /\ h.alpn_sel \in The(h.th, "CH").alpn \cup {"none"}
  BY <1>1 DEF Heard, Offered, Chosen
<1>6. h.version = "13" => /\ The(h.th, "SH").group = The(h.th, "CH").group
                          /\ h.psk_ok => alg(h.psk_suite) = alg(h.suite)
  BY <1>1 DEF Heard, Offered, Chosen, Flags, Mid13, Mid12
<1>7. ASSUME Of(h.th, "HRR") # {}
      PROVE  LET ch == The(h.th, "CH")  hrr == The(h.th, "HRR")
             IN  /\ hrr.suite = h.suite
                 /\ (ch.group # h.th[1].group) = ("key_share" \in hrr.exts)
                 /\ "key_share" \in hrr.exts => ch.group = hrr.group
                 /\ ch.cookie = hrr.cookie
  <2>1. h.hrr_seen
    BY <1>1, <1>7 DEF Heard, Retried
  <2> QED BY <1>1, <2>1 DEF Heard, Retried
<1>8. h.version = "12" => /\ ~The(h.th, "SH").sentinel /\ The(h.th, "CH").tls12 /\ ~h.cfg.quic
                          /\ {"ems", "reneg"} \subseteq The(h.th, "SH").exts \cap The(h.th, "CH").exts
  <2>1. h.version = "12" => h.state \in Mid12
    BY DEF Heard, Flags, Mid13, Mid12
  <2> QED BY <1>1, <2>1 DEF Heard, Offered, Chosen
<1>9. Agreed(r)
  BY <1>3, <1>4, <1>5, <1>6, <1>7 DEF Agreed
<1>10. NotDowngraded(r)
  BY <1>3, <1>8 DEF NotDowngraded
<1> QED BY <1>3, <1>9, <1>10

FinKinds == {"FIN", "C_CERT", "C_CV", "C_EMPTY", "C_FIN"}
\* A CertificateRequest is answered, with or without a certificate, and nothing else is.
AnswerTo(h, answer) ==
    /\ answer \in {<<>>, <<"C_EMPTY">>, <<"C_CERT", "C_CV">>}
    /\ h.cr_seen <=> answer # <<>>
FinFlight(h, m) ==
    queue(IF h.cr_seen THEN hs_client_auth(th_add(h, m)) ELSE th_add(h, m), HANDSHAKE, Flight("C_FIN"))
FinReady(f) == [f EXCEPT !.secrets = @ \cup {"exp", "res"}]
FinDone(e) == [e EXCEPT !.secrets = hs_wipe_secrets(@), !.in_epoch = APP, !.state = "CONNECTED"]

\* The client's flight after the server's Finished.
LEMMA FinFlightDoes ==
    ASSUME NEW h, NEW s, Ready(h, s), h.state = "WAIT_FIN", NEW m \in Messages, m.t = "FIN"
    PROVE  LET f == FinFlight(h, m)
               n == Len(h.th) + 1
           IN  /\ Typed(f) /\ Same(f, h, {"th", "out", "out_split"}) /\ InLine(f, s)
               /\ Adds(f.th, h.th, FinKinds)
               /\ n \in DOMAIN f.th /\ Kind(f.th[n]) = "FIN"
               /\ The(f.th, "FIN") = m
               /\ Of(f.th, "C_CERT") # {} => h.cfg.client # "none"
               /\ \E answer : /\ Kinds(f.th) = ((Kinds(h.th) \o <<"FIN">>) \o answer) \o <<"C_FIN">>
                               /\ AnswerTo(h, answer)
<1> DEFINE g == th_add(h, m)
           a == IF g.cr_seen THEN hs_client_auth(g) ELSE g
           f == FinFlight(h, m)
           n == Len(h.th) + 1
<1>1. Typed(h) /\ Heard(h) /\ s \in SentType /\ InLine(h, s)
  BY DEF Ready, Heard, Queued
<1>2. Kind(m) = "FIN"
  BY DEF Kind
<1>3. /\ Typed(g) /\ Same(g, h, {"th"}) /\ InLine(g, s)
      /\ Kinds(g.th) = Append(Kinds(h.th), "FIN") /\ Of(g.th, "FIN") # {} /\ The(g.th, "FIN") = m
      /\ n \in DOMAIN g.th /\ g.th[n] = m /\ Adds(g.th, h.th, {"FIN"})
  <2>1. /\ Typed(g) /\ Same(g, h, {"th"}) /\ InLine(g, s)
        /\ Kinds(g.th) = Append(Kinds(h.th), Kind(m)) /\ Of(g.th, Kind(m)) # {} /\ The(g.th, Kind(m)) = m
        /\ n \in DOMAIN g.th /\ g.th[n] = m
    BY <1>1, ThAddDoes
  <2>2. \A K : Kind(m) \in K => Adds(g.th, h.th, K)
    BY <1>1, ThAddDoes
  <2> HIDE DEF g
  <2>3. Adds(g.th, h.th, {"FIN"})
    BY <1>2, <2>2
  <2> QED BY <1>2, <2>1, <2>3
<1>4. PICK answer : Answered(a, g, s, answer)
  <2> HIDE DEF g
  <2> QED BY <1>1, <1>3, ClientAuthDoes
<1>5. g.cr_seen = h.cr_seen /\ g.cfg = h.cfg
  <2> HIDE DEF g
  <2> QED BY <1>3 DEF Same, Fields
<1>6. f = queue(a, HANDSHAKE, Flight("C_FIN"))
  <2>1. a = IF h.cr_seen THEN hs_client_auth(g) ELSE g
    BY <1>5
  <2> HIDE DEF a
  <2> QED BY <2>1 DEF FinFlight
<1> HIDE DEF g, a, f
<1>7. /\ Typed(f) /\ Same(f, a, {"th", "out", "out_split"}) /\ InLine(f, s)
      /\ Kinds(f.th) = Append(Kinds(a.th), "C_FIN") /\ Adds(f.th, a.th, {"C_FIN"})
  <2>1. /\ Flight("C_FIN") \in Transcript /\ Flight("C_FIN").t = "C_FIN" /\ "C_FIN" \in OwnKinds
        /\ HANDSHAKE \in Epochs /\ HANDSHAKE # INITIAL /\ Typed(a) /\ InLine(a, s)
    BY <1>4, OwnTranscript DEF OwnKinds, Epochs, HANDSHAKE, INITIAL, Answered
  <2>2. LET q == queue(a, HANDSHAKE, Flight("C_FIN"))
        IN  /\ Typed(q) /\ Same(q, a, {"th", "out", "out_split"}) /\ InLine(q, s)
            /\ Kinds(q.th) = Append(Kinds(a.th), "C_FIN")
            /\ \A K : "C_FIN" \in K => Adds(q.th, a.th, K)
    BY <1>1, <2>1, QueueKeeps
  <2> QED BY <1>6, <2>2
<1>8. Same(f, h, {"th", "out", "out_split"})
  BY <1>3, <1>4, <1>7 DEF Same, Answered
<1>9. Adds(f.th, g.th, AnswerKinds \cup {"C_FIN"})
  <2>1. Adds(f.th, a.th, AnswerKinds \cup {"C_FIN"}) /\ Adds(a.th, g.th, AnswerKinds \cup {"C_FIN"})
    BY <1>4, <1>7, AddsWider DEF Answered
  <2> QED BY <2>1, AddsMore
<1>10. Adds(f.th, h.th, FinKinds)
  <2>1. Adds(f.th, g.th, FinKinds) /\ Adds(g.th, h.th, FinKinds)
    BY <1>3, <1>9, AddsWider DEF AnswerKinds, FinKinds
  <2> QED BY <2>1, AddsMore
<1>11. n \in DOMAIN f.th /\ Kind(f.th[n]) = "FIN" /\ The(f.th, "FIN") = m
  <2>1. DOMAIN g.th = 1..Len(g.th) /\ DOMAIN f.th = 1..Len(f.th) /\ Len(g.th) <= Len(f.th)
        /\ Len(g.th) \in Nat /\ Len(f.th) \in Nat
    BY <1>9 DEF Adds
  <2>2. n \in DOMAIN f.th /\ f.th[n] = m
    <3> HIDE DEF n
    <3>1. n \in 1..Len(g.th)
      BY <1>3, <2>1
    <3> QED BY <1>3, <1>9, <2>1, <3>1 DEF Adds
  <2>3. The(f.th, "FIN") = m
    BY <1>3, <1>9 DEF Adds, AnswerKinds
  <2> QED BY <1>2, <2>2, <2>3
<1>12. Of(f.th, "C_CERT") # {} => h.cfg.client # "none"
  <2>1. Of(f.th, "C_CERT") = Of(a.th, "C_CERT")
    BY <1>7 DEF Adds
  <2>2. Of(g.th, "C_CERT") = Of(h.th, "C_CERT")
    BY <1>3 DEF Adds
  <2>3. Of(h.th, "C_CERT") = {}
    BY <1>1 DEF Heard, Unheard, Mid13
  <2> QED BY <1>4, <1>5, <2>1, <2>2, <2>3 DEF Answered
<1>13. /\ Kinds(f.th) = ((Kinds(h.th) \o <<"FIN">>) \o answer) \o <<"C_FIN">>
       /\ AnswerTo(h, answer)
  <2>1. Kinds(h.th) \in Seq(AllKinds) /\ Kinds(a.th) \in Seq(AllKinds)
    BY <1>1, <1>4, KindsType DEF Typed, Answered
  <2>2. "FIN" \in AllKinds /\ "C_FIN" \in AllKinds
    BY DEF AllKinds, ServerKinds, OwnKinds
  <2>3. Kinds(g.th) = Kinds(h.th) \o <<"FIN">>
    BY <1>3, <2>1, <2>2, OneMore
  <2>4. Kinds(f.th) = Kinds(a.th) \o <<"C_FIN">>
    BY <1>7, <2>1, <2>2, OneMore
  <2> QED BY <1>4, <1>5, <2>3, <2>4 DEF Answered, AnswerTo
<1> QED BY <1>7, <1>8, <1>10, <1>11, <1>12, <1>13 DEF f

\* The transcript of a handshake of TLS 1.3.
LEMMA Whole13 ==
    ASSUME NEW h, h.psk_ok \in BOOLEAN, h.cr_seen \in BOOLEAN, h.psk_ok => ~h.cr_seen,
           NEW answer, AnswerTo(h, answer)
    PROVE  (((Met(h) \o Proof13(h)) \o <<"FIN">>) \o answer) \o <<"C_FIN">> \in Transcripts13
<1> DEFINE auth == <<Proof13(h), answer>>
           Auths == {<< <<>>, <<>> >>, << <<"CERT", "CV">>, <<>> >>,
                     << <<"CR", "CERT", "CV">>, <<"C_CERT", "C_CV">> >>,
                     << <<"CR", "CERT", "CV">>, <<"C_EMPTY">> >>}
<1>1. auth \in Auths
  <2>1. CASE h.psk_ok
    BY <2>1 DEF Proof13, AnswerTo
  <2>2. CASE ~h.psk_ok /\ ~h.cr_seen
    BY <2>2 DEF Proof13, AnswerTo
  <2>3. CASE ~h.psk_ok /\ h.cr_seen
    BY <2>3 DEF Proof13, AnswerTo
  <2> QED BY <2>1, <2>2, <2>3
<1>2. auth[1] = Proof13(h) /\ auth[2] = answer
  OBVIOUS
<1>3. Met(h) = Greeting(h) \o <<"SH", "EE">> /\ Greeting(h) \in {<<"CH">>, <<"CH", "HRR", "CH">>}
  BY DEF Met, Greeting
<1> DEFINE hello == Greeting(h)
<1> HIDE DEF auth, hello
<1>4. (((hello \o <<"SH", "EE">>) \o auth[1]) \o <<"FIN">>) \o auth[2] \o <<"C_FIN">> \in Transcripts13
  <2> DEFINE Hello == {<<"CH">>, <<"CH", "HRR", "CH">>}
             Form(x, y) == x \o <<"SH", "EE">> \o y[1] \o <<"FIN">> \o y[2] \o <<"C_FIN">>
  <2>1. Transcripts13 = {Form(x, y) : x \in Hello, y \in Auths}
    BY DEF Transcripts13
  <2>2. hello \in Hello
    BY <1>3 DEF hello
  <2>3. Form(hello, auth) \in Transcripts13
    <3> HIDE DEF Form, Auths, Hello
    <3> QED BY <1>1, <2>1, <2>2
  <2> QED BY <2>3
<1> QED BY <1>2, <1>3, <1>4 DEF hello

LEMMA FinReadyDoes ==
    ASSUME NEW f, Shape(f)
    PROVE  Shape(FinReady(f)) /\ Same(FinReady(f), f, {"secrets"})
BY DEF Shape, Same, FinReady

LEMMA FinDoneDoes ==
    ASSUME NEW e, Shape(e)
    PROVE  LET r == FinDone(e)
           IN  /\ Shape(r) /\ Same(r, e, {"secrets", "in_epoch", "state"})
               /\ r.secrets \subseteq {"exp", "res"} /\ r.in_epoch = APP /\ r.state = "CONNECTED"
<1>1. Shape(FinDone(e))
  BY DEF Shape, FinDone
<1>2. Same(FinDone(e), e, {"secrets", "in_epoch", "state"})
  BY DEF Shape, Same, FinDone
<1>3. /\ FinDone(e).secrets = e.secrets \cap {"exp", "res"}
      /\ FinDone(e).in_epoch = APP /\ FinDone(e).state = "CONNECTED"
  BY DEF Shape, Fields, FinDone, hs_wipe_secrets
<1>4. FinDone(e).secrets \subseteq {"exp", "res"}
  BY <1>3
<1> QED BY <1>1, <1>2, <1>3, <1>4

\* The handshake is complete: r has what h had, the client's flight and the secrets of the data.
LEMMA FinSound ==
    ASSUME NEW h, NEW s, Ready(h, s), h.state = "WAIT_FIN", NEW m \in Messages, m.mac,
           NEW r, r.cfg = h.cfg, r.suite = h.suite, r.alpn_sel = h.alpn_sel, r.version = h.version,
           r.psk_ok = h.psk_ok, r.psk_suite = h.psk_suite,
           Adds(r.th, h.th, FinKinds), The(r.th, "FIN") = m,
           Of(r.th, "C_CERT") # {} => h.cfg.client # "none",
           NEW answer, AnswerTo(h, answer),
           Kinds(r.th) = ((Kinds(h.th) \o <<"FIN">>) \o answer) \o <<"C_FIN">>
    PROVE  Sound(r)
<1>1. Heard(h) /\ Typed(h)
  BY DEF Ready, Heard
<1>2. h.version = "13" /\ h.psk_ok \in BOOLEAN /\ h.cr_seen \in BOOLEAN /\ (h.psk_ok => ~h.cr_seen)
  BY <1>1 DEF Heard, Typed, Flags, Mid13
<1>3. Agreed(r) /\ NotDowngraded(r) /\ The(r.th, "CH") = The(h.th, "CH")
  BY <1>1, AgreedFrom DEF FinKinds
<1>4. Kinds(r.th) \in Transcripts13
  <2>1. Kinds(h.th) = Met(h) \o Proof13(h)
    BY <1>1 DEF Heard, Script
  <2>2. (((Met(h) \o Proof13(h)) \o <<"FIN">>) \o answer) \o <<"C_FIN">> \in Transcripts13
    BY <1>2, Whole13
  <2> QED BY <2>1, <2>2
<1>5. /\ Of(r.th, "CERT") = Of(h.th, "CERT") /\ Of(r.th, "CV") = Of(h.th, "CV")
      /\ Of(h.th, "CV") # {} => The(r.th, "CV") = The(h.th, "CV")
  BY DEF Adds, FinKinds
<1>6. Authenticated(r)
  <2>1. CASE h.psk_ok
    <3>1. Of(h.th, "CERT") = {}
      BY <1>1, <2>1 DEF Heard, Unheard
    <3>2. "psk" \in The(h.th, "CH").exts
      BY <1>1, <2>1 DEF Heard, Chosen, Offered, Open, Mid13
    <3> QED BY <1>2, <1>3, <1>5, <2>1, <3>1, <3>2 DEF Authenticated
  <2>2. CASE ~h.psk_ok
    <3>1. Of(h.th, "CV") # {} /\ The(h.th, "CV").verdict = "none"
      BY <1>1, <2>2 DEF Heard, Chosen
    <3> QED BY <1>2, <1>5, <2>2, <3>1 DEF Authenticated
  <2> QED BY <2>1, <2>2
<1> QED BY <1>2, <1>3, <1>4, <1>6 DEF Sound

LEMMA FinKeysKeeps ==
    ASSUME NEW h, NEW s, Ready(h, s), h.state = "WAIT_FIN", NEW env \in [Callbacks -> BOOLEAN],
           NEW m \in Messages, m.t = "FIN", m.mac
    PROVE  Handled(fin_keys(h, m, env), h, s)
<1> DEFINE n == Len(h.th) + 1
           f == FinFlight(h, m)
           g == FinReady(f)
           e == exported(g, n, APP, "recv", "send", env)
           r == FinDone(e)
<1>1. Typed(h) /\ Heard(h) /\ HandedInOrder(h) /\ h.state \notin Late \cup {"FAILED"} /\ s \in SentType
  BY DEF Ready, Heard, KeysBoundToTranscript, Late
<1>2. /\ Typed(f) /\ Same(f, h, {"th", "out", "out_split"}) /\ InLine(f, s)
      /\ Adds(f.th, h.th, FinKinds)
      /\ n \in DOMAIN f.th /\ Kind(f.th[n]) = "FIN"
      /\ The(f.th, "FIN") = m
      /\ Of(f.th, "C_CERT") # {} => h.cfg.client # "none"
  BY FinFlightDoes
<1>3. PICK answer :
        /\ Kinds(f.th) = ((Kinds(h.th) \o <<"FIN">>) \o answer) \o <<"C_FIN">>
        /\ AnswerTo(h, answer)
  BY FinFlightDoes
<1>4. Shape(g) /\ Same(g, f, {"secrets"})
  <2> HIDE DEF f
  <2> QED BY <1>2, FinReadyDoes DEF Typed
<1>5. \/ \E alert : fin_keys(h, m, env) = fail(h, alert)
      \/ e.state = "FAILED" /\ fin_keys(h, m, env) = e
      \/ e.state # "FAILED" /\ fin_keys(h, m, env) = r
  BY DEF fin_keys, FinFlight, FinReady, FinDone
<1> HIDE DEF g, f
<1>6. /\ g.state = h.state /\ g.version = h.version /\ g.in_epoch = h.in_epoch
      /\ g.hrr_seen = h.hrr_seen /\ g.cr_seen = h.cr_seen /\ g.psk_ok = h.psk_ok
      /\ g.in_base = h.in_base /\ g.in_len = h.in_len /\ g.n_certs = h.n_certs
      /\ g.out_off = f.out_off /\ g.buf = h.buf /\ g.exports = h.exports
      /\ g.out = f.out /\ g.out_split = f.out_split /\ g.th = f.th
      /\ g.cfg = h.cfg /\ g.suite = h.suite /\ g.alpn_sel = h.alpn_sel /\ g.psk_suite = h.psk_suite
  BY <1>2, <1>4 DEF Same, Fields
<1>7. Typed(g)
  BY <1>1, <1>2, <1>4, <1>6 DEF Typed
<1>8. HandedInOrder(g) /\ Handover(g.th) = Handover(h.th)
  <2>1. "CKE" \notin FinKinds
    BY DEF FinKinds
  <2> QED BY <1>1, <1>2, <1>6, <2>1, StillInOrder
<1>9. /\ Handover(g.th) = << <<HANDSHAKE, "recv", "SH">>, <<HANDSHAKE, "send", "SH">>,
                             <<APP, "recv", "FIN">>, <<APP, "send", "FIN">> >>
      /\ Of(h.th, "CKE") = {}
  <2>1. Of(h.th, "CKE") = {}
    BY <1>1 DEF Heard, Unheard, Mid13
  <2> QED BY <1>8, <2>1 DEF Handover
<1>10. \/ /\ e.state = "FAILED"
          /\ \E x, alert : e = fail(x, alert) /\ Typed(x) /\ HandedInOrder(x) /\ x.in_len = g.in_len
       \/ /\ e.state # "FAILED" /\ Typed(e) /\ HandedInOrder(e) /\ Same(e, g, {"exports"})
          /\ Len(e.exports) = 4 /\ Holds(e, APP, "recv") /\ Holds(e, APP, "send")
  <2> DEFINE k == 2
  <2> HIDE DEF n
  <2>1. /\ APP \in Epochs /\ "recv" \in {"recv", "send"} /\ "send" \in {"recv", "send"} /\ k \in Nat
        /\ Len(g.exports) = k /\ k + 2 <= Len(Handover(g.th)) /\ n \in DOMAIN g.th
        /\ g.state # "FAILED" /\ k + 2 = 4
    BY <1>1, <1>2, <1>6, <1>9 DEF Heard, KeysAt, Mid13, Epochs
  <2>2. /\ <<APP, "recv", Kind(g.th[n])>> = Handover(g.th)[k + 1]
        /\ <<APP, "send", Kind(g.th[n])>> = Handover(g.th)[k + 2]
    BY <1>2, <1>6, <1>9
  <2> HIDE DEF k
  <2>3. \/ /\ e.state = "FAILED"
           /\ \E x, alert : e = fail(x, alert) /\ Typed(x) /\ HandedInOrder(x) /\ x.in_len = g.in_len
        \/ /\ e.state # "FAILED" /\ Typed(e) /\ HandedInOrder(e) /\ Same(e, g, {"exports"})
           /\ Len(e.exports) = k + 2 /\ Holds(e, APP, "recv") /\ Holds(e, APP, "send")
    BY <1>7, <1>8, <2>1, <2>2, HandsOver
  <2> HIDE DEF e
  <2> QED BY <2>1, <2>3
<1> HIDE DEF e, n
<1>11. CASE \E alert : fin_keys(h, m, env) = fail(h, alert)
  BY <1>11, FailHandled
<1>12. CASE e.state = "FAILED" /\ fin_keys(h, m, env) = e
  <2>1. PICK x, alert : e = fail(x, alert) /\ Typed(x) /\ HandedInOrder(x) /\ x.in_len = g.in_len
    BY <1>10, <1>12
  <2>2. Handled(fail(x, alert), h, s)
    BY <1>1, <1>6, <2>1, FailsLater
  <2> QED BY <1>12, <2>1, <2>2
<1>13. CASE e.state # "FAILED" /\ fin_keys(h, m, env) = r
  <2>1. /\ Typed(e) /\ HandedInOrder(e) /\ Same(e, g, {"exports"})
        /\ Len(e.exports) = 4 /\ Holds(e, APP, "recv")
    BY <1>10, <1>13
  <2>2. /\ Shape(r) /\ Same(r, e, {"secrets", "in_epoch", "state"})
        /\ r.secrets \subseteq {"exp", "res"} /\ r.in_epoch = APP /\ r.state = "CONNECTED"
    BY <2>1, FinDoneDoes DEF Typed
  <2> HIDE DEF r
  <2>3. /\ r.version = h.version /\ r.hrr_seen = h.hrr_seen /\ r.cr_seen = h.cr_seen
        /\ r.psk_ok = h.psk_ok /\ r.in_base = h.in_base /\ r.in_len = h.in_len
        /\ r.n_certs = h.n_certs /\ r.buf = h.buf /\ r.exports = e.exports
        /\ r.out_off = f.out_off /\ r.out = f.out /\ r.out_split = f.out_split
        /\ r.th = f.th /\ r.th = e.th
        /\ r.cfg = h.cfg /\ r.suite = h.suite /\ r.alpn_sel = h.alpn_sel /\ r.psk_suite = h.psk_suite
    BY <1>6, <2>1, <2>2 DEF Same, Fields
  <2>4. Typed(r)
    <3>1. r.exports \in Seq(Epochs \X {"recv", "send"} \X Nat) /\ APP \in Epochs /\ "CONNECTED" \in States
      BY <2>1, <2>3 DEF Typed, Epochs, States
    <3> QED BY <1>1, <1>2, <2>2, <2>3, <3>1 DEF Typed
  <2>5. h.version = "13"
    BY <1>1 DEF Heard, Flags, Mid13
  <2>6. Sound(r)
    BY <1>2, <1>3, <2>3, FinSound
  <2>7. Script(r) /\ Flags(r) /\ Offered(r) /\ Retried(r) /\ Chosen(r)
    BY <2>2, <2>3, <2>5 DEF Script, Flags, Offered, Retried, Chosen, Early, Mid13, Mid12, Open
  <2>8. Unheard(r)
    <3>1. Of(r.th, "CKE") = {}
      BY <1>2, <1>9, <2>3 DEF Adds, FinKinds
    <3> QED BY <2>2, <2>3, <2>5, <3>1 DEF Unheard, Early, Mid13, Mid12
  <2>9. KeysBoundToTranscript(r)
    <3>1. HandedInOrder(r)
      <4>1. r.exports = e.exports /\ r.th = e.th
        BY <2>3
      <4>2. HandedInOrder(e)
        BY <2>1
      <4> QED BY <4>1, <4>2 DEF HandedInOrder
    <3>2. Holds(r, APP, "recv")
      BY <2>1, <2>3 DEF Holds
    <3> QED BY <2>2, <3>1, <3>2 DEF KeysBoundToTranscript
  <2>10. KeysAt(r) /\ SecretsAt(r)
    BY <2>1, <2>2, <2>3, <2>5 DEF KeysAt, SecretsAt, Early, Mid13, Mid12
  <2>11. Certs(r)
    BY <1>1, <2>2, <2>3 DEF Heard, Certs
  <2>12. Queued(r, s) /\ SentRight(r, s)
    <3>1. InLine(r, s) /\ r.state \in Late
      BY <1>2, <2>2, <2>3 DEF InLine, Pending, Late
    <3>2. SentRight(r, s)
      BY <1>1, StillRight
    <3> QED BY <3>1, <3>2 DEF Queued
  <2> QED BY <1>1, <1>13, <2>3, <2>4, <2>6, <2>7, <2>8, <2>9, <2>10, <2>11, <2>12
          DEF Heard, Handled, Ready
<1> QED BY <1>5, <1>11, <1>12, <1>13

LEMMA FinKeeps ==
    ASSUME NEW h, NEW s, Ready(h, s), h.state = "WAIT_FIN", NEW env \in [Callbacks -> BOOLEAN],
           NEW m \in Messages, m.t = "FIN"
    PROVE  Handled(hs_on_fin(h, m, env), h, s)
<1>1. \/ \E alert : hs_on_fin(h, m, env) = fail(h, alert)
      \/ m.mac /\ hs_on_fin(h, m, env) = fin_keys(h, m, env)
  BY DEF hs_on_fin
<1>2. CASE \E alert : hs_on_fin(h, m, env) = fail(h, alert)
  BY <1>2, FailHandled
<1>3. CASE m.mac /\ hs_on_fin(h, m, env) = fin_keys(h, m, env)
  BY <1>3, FinKeysKeeps
<1> QED BY <1>1, <1>2, <1>3

-----------------------------------------------------------------------------
(* ServerHelloDone *)

\* g is h, which has heard and queued in the clear what makes its transcript k, of the kinds K.
Told(g, h, s, k, K) ==
    /\ Typed(g) /\ Same(g, h, {"th", "out", "out_split"}) /\ InLine(g, s)
    /\ g.out_split = Len(g.out) /\ Adds(g.th, h.th, K) /\ Kinds(g.th) = k

LEMMA TellsOne ==
    ASSUME NEW g, NEW h, NEW s \in SentType, NEW k, NEW K, Told(g, h, s, k, K),
           NEW t \in OwnKinds, t \in K
    PROVE  LET f == queue(g, INITIAL, Flight(t))
           IN  /\ Told(f, h, s, Append(k, t), K) /\ Len(f.th) \in DOMAIN f.th
               /\ Kind(f.th[Len(f.th)]) = t /\ Adds(f.th, g.th, K)
<1> DEFINE f == queue(g, INITIAL, Flight(t))
<1>1. /\ Typed(g) /\ Same(g, h, {"th", "out", "out_split"}) /\ InLine(g, s)
      /\ g.out_split = Len(g.out) /\ Adds(g.th, h.th, K) /\ Kinds(g.th) = k
  BY DEF Told
<1>2. Flight(t) \in Transcript /\ Flight(t).t = t /\ INITIAL \in Epochs
  BY OwnTranscript DEF Epochs
<1>3. /\ Typed(f) /\ Same(f, g, {"th", "out", "out_split"}) /\ InLine(f, s)
      /\ f.th = Append(g.th, Flight(t)) /\ Kinds(f.th) = Append(Kinds(g.th), t)
      /\ f.out_split = Len(f.out)
  BY <1>1, <1>2, QueueKeeps
<1>4. \A L : t \in L => Adds(f.th, g.th, L)
  BY <1>1, <1>2, QueueKeeps
<1> HIDE DEF f
<1>5. Adds(f.th, g.th, K) /\ Adds(f.th, h.th, K)
  <2>1. Adds(f.th, g.th, K)
    BY <1>4
  <2> QED BY <1>1, <2>1, AddsMore
<1>6. Same(f, h, {"th", "out", "out_split"})
  BY <1>1, <1>3 DEF Same
<1>7. Len(f.th) \in DOMAIN f.th /\ Kind(f.th[Len(f.th)]) = t
  <2>1. /\ g.th \in Seq(Transcript) /\ Len(f.th) = Len(g.th) + 1 /\ f.th[Len(g.th) + 1] = Flight(t)
    BY <1>1, <1>2, <1>3, Appended DEF Typed
  <2>2. f.th \in Seq(Transcript) /\ Len(g.th) \in Nat
    BY <1>3, <2>1 DEF Typed
  <2>3. Kind(Flight(t)) = t
    <3>1. "SH" # t
      BY DEF OwnKinds
    <3> QED BY <1>2, <3>1 DEF Kind
  <2> QED BY <2>1, <2>2, <2>3
<1> QED BY <1>1, <1>3, <1>5, <1>6, <1>7 DEF Told, f

ShdSends(h) == signs(h) /\ h.cr_send
ShdCert(h, m) ==
    IF ~h.cr_seen THEN th_add(h, m)
    ELSE queue(th_add(h, m), INITIAL, IF ShdSends(h) THEN Flight("C_CERT") ELSE Flight("C_EMPTY"))
ShdKx(h, m) == queue(ShdCert(h, m), INITIAL, Flight("CKE"))
ShdClear(h, m) ==
    IF ShdSends(h) THEN queue(ShdKx(h, m), INITIAL, Flight("C_CV")) ELSE ShdKx(h, m)
ShdFlight(h, m) == queue(ShdClear(h, m), HANDSHAKE, Flight("C_FIN"))
ShdDone(e) == [e EXCEPT !.state = "WAIT12_CCS"]

ShdKinds == {"SHD", "C_EMPTY", "CKE", "C_CV", "C_FIN"}
Base12 == <<"CH", "SH", "CERT", "SKE">>

LEMMA Base12Does ==
    /\ Base12 \in Seq(AllKinds)
    /\ <<"CH">> \o <<"SH", "CERT", "SKE">> = Base12
    /\ <<"CH">> \o <<"SH", "CERT", "SKE", "CR">> = Base12 \o <<"CR">>
<1>0. {"CH", "SH", "CERT", "SKE", "CR"} \subseteq AllKinds
  BY DEF AllKinds, ServerKinds, OwnKinds
<1>1. /\ Base12 \in Seq(AllKinds) /\ Len(Base12) = 4
      /\ Base12[1] = "CH" /\ Base12[2] = "SH" /\ Base12[3] = "CERT" /\ Base12[4] = "SKE"
  BY <1>0 DEF Base12
<1>2. <<"CH">> \in Seq(AllKinds) /\ <<"SH", "CERT", "SKE">> \in Seq(AllKinds)
      /\ <<"SH", "CERT", "SKE", "CR">> \in Seq(AllKinds) /\ <<"CR">> \in Seq(AllKinds)
  BY <1>0
<1>3. <<"CH">> \o <<"SH", "CERT", "SKE">> = Base12
  <2> DEFINE t == <<"CH">> \o <<"SH", "CERT", "SKE">>
  <2>1. /\ t \in Seq(AllKinds) /\ Len(t) = 4 /\ t[1] = "CH" /\ t[2] = "SH" /\ t[3] = "CERT"
        /\ t[4] = "SKE"
    BY <1>2, ConcatProperties
  <2> HIDE DEF t
  <2>2. \A i \in 1..4 : i = 1 \/ i = 2 \/ i = 3 \/ i = 4
    OBVIOUS
  <2>3. \A i \in 1..4 : t[i] = Base12[i]
    BY <1>1, <2>1, <2>2
  <2>4. t = Base12
    BY <1>1, <2>1, <2>3, SeqEqual
  <2> QED BY <2>4 DEF t
<1>4. <<"CH">> \o <<"SH", "CERT", "SKE", "CR">> = Base12 \o <<"CR">>
  <2> DEFINE t == <<"CH">> \o <<"SH", "CERT", "SKE", "CR">>
             u == Base12 \o <<"CR">>
  <2>1. /\ t \in Seq(AllKinds) /\ Len(t) = 5 /\ t[1] = "CH" /\ t[2] = "SH" /\ t[3] = "CERT"
        /\ t[4] = "SKE" /\ t[5] = "CR"
    BY <1>2, ConcatProperties
  <2>2. /\ u \in Seq(AllKinds) /\ Len(u) = 5 /\ u[1] = "CH" /\ u[2] = "SH" /\ u[3] = "CERT"
        /\ u[4] = "SKE" /\ u[5] = "CR"
    <3> DEFINE v == Append(Base12, "CR")
    <3>1. /\ v \in Seq(AllKinds) /\ Len(v) = 5 /\ v[5] = "CR"
          /\ v[1] = Base12[1] /\ v[2] = Base12[2] /\ v[3] = Base12[3] /\ v[4] = Base12[4]
      <4> DEFINE w == Base12
                 x == "CR"
      <4>1. w \in Seq(AllKinds) /\ Len(w) = 4 /\ x \in AllKinds
        BY <1>0, <1>1
      <4> HIDE DEF w, x
      <4>a. /\ Append(w, x) \in Seq(AllKinds)
            /\ Append(w, x) # << >>
            /\ Len(Append(w, x)) = Len(w) + 1
            /\ \A i \in 1..Len(w) : Append(w, x)[i] = w[i]
            /\ Append(w, x)[Len(w) + 1] = x
        BY <4>1, AppendProperties, ZenonT(60)
      <4>2. Append(w, x) \in Seq(AllKinds) /\ Len(Append(w, x)) = Len(w) + 1
        BY <4>a
      <4>3. Append(w, x)[Len(w) + 1] = x
        BY <4>a
      <4>4. \A i \in 1..Len(w) : Append(w, x)[i] = w[i]
        BY <4>a
      <4>5. Len(w) + 1 = 5 /\ 1 \in 1..Len(w) /\ 2 \in 1..Len(w) /\ 3 \in 1..Len(w) /\ 4 \in 1..Len(w)
        BY <4>1
      <4>6. /\ Append(w, x)[1] = w[1] /\ Append(w, x)[2] = w[2] /\ Append(w, x)[3] = w[3]
            /\ Append(w, x)[4] = w[4]
        BY <4>4, <4>5
      <4>7. Len(Append(w, x)) = 5 /\ Append(w, x)[5] = x
        BY <4>2, <4>3, <4>5
      <4> QED BY <4>2, <4>6, <4>7 DEF w, x
    <3>2. u = v
      BY <1>0, <1>1, OneMore
    <3> HIDE DEF u, v
    <3> QED BY <1>1, <3>1, <3>2
  <2> HIDE DEF t, u
  <2>3. \A i \in 1..5 : i = 1 \/ i = 2 \/ i = 3 \/ i = 4 \/ i = 5
    OBVIOUS
  <2>4. \A i \in 1..5 : t[i] = u[i]
    BY <2>1, <2>2, <2>3
  <2>5. t = u
    BY <2>1, <2>2, <2>4, SeqEqual
  <2> QED BY <2>5 DEF t, u
<1> QED BY <1>1, <1>3, <1>4

\* What the client says after the ServerHelloDone, one message after the other.
LEMMA ShdAnswers ==
    ASSUME NEW b \in Seq(AllKinds)
    PROVE  /\ Append(Append(b, "SHD"), "CKE") = b \o <<"SHD", "CKE">>
           /\ Append(Append(Append(b \o <<"CR">>, "SHD"), "C_EMPTY"), "CKE") =
                 b \o <<"CR", "SHD", "C_EMPTY", "CKE">>
           /\ Append(Append(Append(Append(b \o <<"CR">>, "SHD"), "C_CERT"), "CKE"), "C_CV") =
                 b \o <<"CR", "SHD", "C_CERT", "CKE", "C_CV">>
<1>0. {"SHD", "CKE", "CR", "C_EMPTY", "C_CERT", "C_CV"} \subseteq AllKinds
  BY DEF AllKinds, ServerKinds, OwnKinds
<1>1. Append(b, "SHD") = b \o <<"SHD">>
  BY <1>0, OneMore
<1>2. Append(b \o <<"SHD">>, "CKE") = b \o <<"SHD", "CKE">>
  OBVIOUS
<1>3. Append(b \o <<"CR">>, "SHD") = b \o <<"CR", "SHD">>
  OBVIOUS
<1>4. Append(b \o <<"CR", "SHD">>, "C_EMPTY") = b \o <<"CR", "SHD", "C_EMPTY">>
  OBVIOUS
<1>5. Append(b \o <<"CR", "SHD", "C_EMPTY">>, "CKE") = b \o <<"CR", "SHD", "C_EMPTY", "CKE">>
  OBVIOUS
<1>6. Append(b \o <<"CR", "SHD">>, "C_CERT") = b \o <<"CR", "SHD", "C_CERT">>
  OBVIOUS
<1>7. Append(b \o <<"CR", "SHD", "C_CERT">>, "CKE") = b \o <<"CR", "SHD", "C_CERT", "CKE">>
  OBVIOUS
<1>8. Append(b \o <<"CR", "SHD", "C_CERT", "CKE">>, "C_CV") = b \o <<"CR", "SHD", "C_CERT", "CKE", "C_CV">>
  OBVIOUS
<1> QED BY <1>1, <1>2, <1>3, <1>4, <1>5, <1>6, <1>7, <1>8

ShdTranscript(h, k) ==
    \/ ~h.cr_seen /\ k = Base12 \o <<"SHD", "CKE">>
    \/ h.cr_seen /\ ~ShdSends(h) /\ k = Base12 \o <<"CR", "SHD", "C_EMPTY", "CKE">>
    \/ h.cr_seen /\ ShdSends(h) /\ k = Base12 \o <<"CR", "SHD", "C_CERT", "CKE", "C_CV">>

LEMMA Whole12 ==
    ASSUME NEW h, NEW k, ShdTranscript(h, k)
    PROVE  k \o <<"C_FIN">> \in Transcripts12
<1> DEFINE Auths == {<<"SHD", "CKE">>, <<"CR", "SHD", "C_EMPTY", "CKE">>,
                     <<"CR", "SHD", "C_CERT", "CKE", "C_CV">>}
           Form(y) == Base12 \o y \o <<"C_FIN">>
<1>1. Transcripts12 = {Form(y) : y \in Auths}
  BY DEF Transcripts12, Base12
<1>2. PICK y \in Auths : k = Base12 \o y
  BY DEF ShdTranscript
<1>3. Form(y) = k \o <<"C_FIN">>
  BY <1>2
<1>4. Form(y) \in Transcripts12
  <2> HIDE DEF Form, Auths
  <2> QED BY <1>1
<1> QED BY <1>3, <1>4

\* The client's answer, in the clear up to its Finished.
LEMMA ShdClearDoes ==
    ASSUME NEW h, NEW s, Ready(h, s), h.state \in {"WAIT12_CR_SHD", "WAIT12_SHD"},
           NEW m \in Messages, m.t = "SHD", NEW K, ShdKinds \subseteq K,
           ShdSends(h) => "C_CERT" \in K
    PROVE  LET kx == ShdKx(h, m)
               c  == ShdClear(h, m)
           IN  /\ \E k : Told(c, h, s, k, K) /\ ShdTranscript(h, k)
               /\ Len(kx.th) \in DOMAIN kx.th /\ Kind(kx.th[Len(kx.th)]) = "CKE"
               /\ c = kx \/ Adds(c.th, kx.th, K)
<1> DEFINE a == th_add(h, m)
           b == ShdCert(h, m)
           kx == ShdKx(h, m)
           c == ShdClear(h, m)
<1>1. /\ Typed(h) /\ Heard(h) /\ s \in SentType /\ InLine(h, s) /\ h.out_split = Len(h.out)
      /\ ~h.hrr_seen /\ (h.cr_seen <=> h.state = "WAIT12_SHD") /\ h.cr_seen \in BOOLEAN
      /\ h.th \in Seq(Transcript)
  <2>1. Typed(h) /\ Heard(h) /\ s \in SentType /\ InLine(h, s) /\ ~(h.out_split < Len(h.out))
    BY DEF Ready, Heard, Queued, Late
  <2>2. h.out_split = Len(h.out)
    <3>1. h.out_split \in Nat /\ Len(h.out) \in Nat /\ h.out_split <= Len(h.out)
      BY <2>1 DEF Typed, InLine
    <3> QED BY <2>1, <3>1
  <2>3. ~h.hrr_seen /\ (h.cr_seen <=> h.state = "WAIT12_SHD") /\ h.cr_seen \in BOOLEAN
    BY <2>1 DEF Heard, Flags, Typed, Mid12
  <2> QED BY <2>1, <2>2, <2>3 DEF Typed
<1>2. /\ {"SHD", "C_EMPTY", "CKE", "C_CV"} \subseteq K
      /\ {"C_EMPTY", "CKE", "C_CV", "C_CERT"} \subseteq OwnKinds
  BY DEF ShdKinds, OwnKinds
<1>3. Kinds(h.th) = IF h.cr_seen THEN Base12 \o <<"CR">> ELSE Base12
  <2>1. Greeting(h) = <<"CH">>
    BY <1>1 DEF Greeting
  <2> QED BY <1>1, <2>1, Base12Does DEF Heard, Script
<1>4. Told(a, h, s, Append(Kinds(h.th), "SHD"), K)
  <2>1. Kind(m) = "SHD"
    BY DEF Kind
  <2>2. /\ Typed(a) /\ Same(a, h, {"th"}) /\ InLine(a, s)
        /\ Kinds(a.th) = Append(Kinds(h.th), Kind(m))
    BY <1>1, ThAddDoes
  <2>3. \A L : Kind(m) \in L => Adds(a.th, h.th, L)
    BY <1>1, ThAddDoes
  <2> HIDE DEF a
  <2>4. Adds(a.th, h.th, K)
    BY <1>2, <2>1, <2>3
  <2>5. a.out = h.out /\ a.out_split = h.out_split /\ Same(a, h, {"th", "out", "out_split"})
    BY <2>2 DEF Same, Fields
  <2> QED BY <1>1, <2>1, <2>2, <2>4, <2>5 DEF Told
<1>5. CASE ~h.cr_seen
  <2>1. b = a /\ ~ShdSends(h)
    BY <1>5 DEF ShdCert, ShdSends, signs
  <2>2. kx = queue(a, INITIAL, Flight("CKE")) /\ c = kx
    BY <2>1 DEF ShdKx, ShdClear
  <2> HIDE DEF a, b, kx, c
  <2>3. /\ Told(kx, h, s, Append(Append(Kinds(h.th), "SHD"), "CKE"), K)
        /\ Len(kx.th) \in DOMAIN kx.th /\ Kind(kx.th[Len(kx.th)]) = "CKE"
    BY <1>1, <1>2, <1>4, <2>2, TellsOne
  <2>4. ShdTranscript(h, Append(Append(Kinds(h.th), "SHD"), "CKE"))
    BY <1>3, <1>5, Base12Does, ShdAnswers DEF ShdTranscript
  <2> QED BY <2>2, <2>3, <2>4 DEF kx, c
<1>6. CASE h.cr_seen /\ ~ShdSends(h)
  <2>1. b = queue(a, INITIAL, Flight("C_EMPTY"))
    BY <1>6 DEF ShdCert
  <2>2. kx = queue(b, INITIAL, Flight("CKE")) /\ c = kx
    BY <1>6 DEF ShdKx, ShdClear
  <2> HIDE DEF a, b, kx, c
  <2>3. Told(b, h, s, Append(Append(Kinds(h.th), "SHD"), "C_EMPTY"), K)
    BY <1>1, <1>2, <1>4, <2>1, TellsOne
  <2>4. /\ Told(kx, h, s, Append(Append(Append(Kinds(h.th), "SHD"), "C_EMPTY"), "CKE"), K)
        /\ Len(kx.th) \in DOMAIN kx.th /\ Kind(kx.th[Len(kx.th)]) = "CKE"
    BY <1>1, <1>2, <2>2, <2>3, TellsOne
  <2>5. ShdTranscript(h, Append(Append(Append(Kinds(h.th), "SHD"), "C_EMPTY"), "CKE"))
    BY <1>3, <1>6, Base12Does, ShdAnswers DEF ShdTranscript
  <2> QED BY <2>2, <2>4, <2>5 DEF kx, c
<1>7. CASE h.cr_seen /\ ShdSends(h)
  <2>0. "C_CERT" \in K
    BY <1>7
  <2>1. b = queue(a, INITIAL, Flight("C_CERT"))
    BY <1>7 DEF ShdCert
  <2>2. kx = queue(b, INITIAL, Flight("CKE")) /\ c = queue(kx, INITIAL, Flight("C_CV"))
    BY <1>7 DEF ShdKx, ShdClear
  <2> HIDE DEF a, b, kx, c
  <2>3. Told(b, h, s, Append(Append(Kinds(h.th), "SHD"), "C_CERT"), K)
    BY <1>1, <1>2, <1>4, <2>0, <2>1, TellsOne
  <2>4. /\ Told(kx, h, s, Append(Append(Append(Kinds(h.th), "SHD"), "C_CERT"), "CKE"), K)
        /\ Len(kx.th) \in DOMAIN kx.th /\ Kind(kx.th[Len(kx.th)]) = "CKE"
    BY <1>1, <1>2, <2>2, <2>3, TellsOne
  <2>5. /\ Told(c, h, s, Append(Append(Append(Append(Kinds(h.th), "SHD"), "C_CERT"), "CKE"), "C_CV"), K)
        /\ Adds(c.th, kx.th, K)
    BY <1>1, <1>2, <2>2, <2>4, TellsOne
  <2>6. ShdTranscript(h, Append(Append(Append(Append(Kinds(h.th), "SHD"), "C_CERT"), "CKE"), "C_CV"))
    BY <1>3, <1>7, Base12Does, ShdAnswers DEF ShdTranscript
  <2> QED BY <2>4, <2>5, <2>6 DEF kx, c
<1> QED BY <1>1, <1>5, <1>6, <1>7

LEMMA ShdFlightDoes ==
    ASSUME NEW h, NEW s, Ready(h, s), h.state \in {"WAIT12_CR_SHD", "WAIT12_SHD"},
           NEW m \in Messages, m.t = "SHD"
    PROVE  LET f == ShdFlight(h, m)
               n == Len(ShdKx(h, m).th)
           IN  /\ Typed(f) /\ Same(f, h, {"th", "out", "out_split"}) /\ InLine(f, s)
               /\ Adds(f.th, h.th, ShdKinds \cup {"C_CERT"})
               /\ n \in DOMAIN f.th /\ Kind(f.th[n]) = "CKE"
               /\ Of(f.th, "C_CERT") # {} => h.cfg.client # "none"
               /\ Kinds(f.th) \in Transcripts12
<1> DEFINE c == ShdClear(h, m)
           kx == ShdKx(h, m)
           f == ShdFlight(h, m)
           K == IF ShdSends(h) THEN ShdKinds \cup {"C_CERT"} ELSE ShdKinds
           n == Len(kx.th)
<1>1. Typed(h) /\ Heard(h) /\ s \in SentType
  BY DEF Ready, Heard
<1>2. ShdKinds \subseteq K /\ (ShdSends(h) => "C_CERT" \in K) /\ "C_FIN" \in K
      /\ K \subseteq ShdKinds \cup {"C_CERT"}
  BY DEF ShdKinds
<1> HIDE DEF K
<1>3. /\ \E k : Told(c, h, s, k, K) /\ ShdTranscript(h, k)
      /\ n \in DOMAIN kx.th /\ Kind(kx.th[n]) = "CKE"
      /\ c = kx \/ Adds(c.th, kx.th, K)
  BY <1>2, ShdClearDoes
<1>4. f = queue(c, HANDSHAKE, Flight("C_FIN"))
  BY DEF ShdFlight
<1> HIDE DEF c, kx, f, n
<1>5. PICK k : Told(c, h, s, k, K) /\ ShdTranscript(h, k)
  BY <1>3
<1>6. /\ Typed(c) /\ Same(c, h, {"th", "out", "out_split"}) /\ InLine(c, s)
      /\ Adds(c.th, h.th, K) /\ Kinds(c.th) = k
  BY <1>5 DEF Told
<1>7. /\ Typed(f) /\ Same(f, c, {"th", "out", "out_split"}) /\ InLine(f, s)
      /\ Kinds(f.th) = Append(k, "C_FIN") /\ Adds(f.th, c.th, K)
  <2>1. /\ Flight("C_FIN") \in Transcript /\ Flight("C_FIN").t = "C_FIN" /\ "C_FIN" \in OwnKinds
        /\ HANDSHAKE \in Epochs /\ HANDSHAKE # INITIAL
    BY OwnTranscript DEF OwnKinds, Epochs, HANDSHAKE, INITIAL
  <2>2. LET q == queue(c, HANDSHAKE, Flight("C_FIN"))
        IN  /\ Typed(q) /\ Same(q, c, {"th", "out", "out_split"}) /\ InLine(q, s)
            /\ Kinds(q.th) = Append(Kinds(c.th), "C_FIN")
            /\ \A L : "C_FIN" \in L => Adds(q.th, c.th, L)
    BY <1>1, <1>6, <2>1, QueueKeeps
  <2> QED BY <1>2, <1>4, <1>6, <2>2
<1>8. Same(f, h, {"th", "out", "out_split"})
  BY <1>6, <1>7 DEF Same
<1>9. Adds(f.th, h.th, K) /\ Adds(f.th, h.th, ShdKinds \cup {"C_CERT"})
  <2>1. Adds(f.th, h.th, K)
    BY <1>6, <1>7, AddsMore
  <2> QED BY <1>2, <2>1, AddsWider
<1>10. n \in DOMAIN f.th /\ Kind(f.th[n]) = "CKE"
  <2>1. c = kx \/ Adds(f.th, kx.th, K)
    BY <1>3, <1>7, AddsMore
  <2>2. Adds(f.th, kx.th, K)
    BY <1>7, <2>1
  <2>3. /\ DOMAIN kx.th = 1..Len(kx.th) /\ DOMAIN f.th = 1..Len(f.th) /\ Len(kx.th) <= Len(f.th)
        /\ Len(kx.th) \in Nat /\ Len(f.th) \in Nat
    BY <2>2 DEF Adds
  <2>4. n \in 1..Len(kx.th) /\ n \in 1..Len(f.th)
    BY <1>3, <2>3
  <2>5. f.th[n] = kx.th[n]
    BY <2>2, <2>4 DEF Adds
  <2> QED BY <1>3, <2>3, <2>4, <2>5
<1>11. Of(f.th, "C_CERT") # {} => h.cfg.client # "none"
  <2>1. ShdSends(h) => h.cfg.client # "none"
    BY DEF ShdSends, signs
  <2>2. ASSUME ~ShdSends(h) PROVE Of(f.th, "C_CERT") = {}
    <3>1. "C_CERT" \notin K
      BY <2>2 DEF K, ShdKinds
    <3>2. Of(h.th, "C_CERT") = {}
      BY <1>1 DEF Heard, Unheard, Mid12
    <3> QED BY <1>9, <3>1, <3>2 DEF Adds
  <2> QED BY <2>1, <2>2
<1>12. Kinds(f.th) \in Transcripts12
  <2>1. k \in Seq(AllKinds)
    BY <1>6, KindsType DEF Typed
  <2>2. "C_FIN" \in AllKinds
    BY DEF AllKinds, OwnKinds
  <2>3. Append(k, "C_FIN") = k \o <<"C_FIN">>
    BY <2>1, <2>2, OneMore
  <2> QED BY <1>5, <1>7, <2>3, Whole12
<1> QED BY <1>7, <1>8, <1>9, <1>10, <1>11, <1>12 DEF f, kx, n

LEMMA ShdDoneDoes ==
    ASSUME NEW e, Shape(e)
    PROVE  LET r == ShdDone(e)
           IN  Shape(r) /\ Same(r, e, {"state"}) /\ r.state = "WAIT12_CCS"
<1>1. Shape(ShdDone(e))
  BY DEF Shape, ShdDone
<1>2. Same(ShdDone(e), e, {"state"})
  BY DEF Shape, Same, ShdDone
<1>3. ShdDone(e).state = "WAIT12_CCS"
  BY DEF Shape, Fields, ShdDone
<1> QED BY <1>1, <1>2, <1>3

LEMMA ShdKeeps ==
    ASSUME NEW h, NEW s, Ready(h, s), h.state \in {"WAIT12_CR_SHD", "WAIT12_SHD"},
           NEW env \in [Callbacks -> BOOLEAN], NEW m \in Messages, m.t = "SHD"
    PROVE  Handled(t12_on_shd(h, m, env), h, s)
<1> DEFINE K == ShdKinds \cup {"C_CERT"}
           f == ShdFlight(h, m)
           n == Len(ShdKx(h, m).th)
           e == exported(f, n, APP, "send", "recv", env)
           r == ShdDone(e)
<1>1. Typed(h) /\ Heard(h) /\ HandedInOrder(h) /\ h.state \notin Late \cup {"FAILED"} /\ s \in SentType
  BY DEF Ready, Heard, KeysBoundToTranscript, Late
<1>2. /\ Typed(f) /\ Same(f, h, {"th", "out", "out_split"}) /\ InLine(f, s)
      /\ Adds(f.th, h.th, K)
      /\ n \in DOMAIN f.th /\ Kind(f.th[n]) = "CKE"
      /\ Of(f.th, "C_CERT") # {} => h.cfg.client # "none"
      /\ Kinds(f.th) \in Transcripts12
  BY ShdFlightDoes
<1>3. \/ \E alert : t12_on_shd(h, m, env) = fail(h, alert)
      \/ e.state = "FAILED" /\ t12_on_shd(h, m, env) = e
      \/ e.state # "FAILED" /\ t12_on_shd(h, m, env) = r
  BY DEF t12_on_shd, ShdFlight, ShdClear, ShdKx, ShdCert, ShdSends, ShdDone
<1> HIDE DEF f, n
<1>4. /\ f.state = h.state /\ f.version = h.version /\ f.in_epoch = h.in_epoch
      /\ f.hrr_seen = h.hrr_seen /\ f.cr_seen = h.cr_seen /\ f.psk_ok = h.psk_ok
      /\ f.in_base = h.in_base /\ f.in_len = h.in_len /\ f.n_certs = h.n_certs
      /\ f.out_off = h.out_off /\ f.buf = h.buf /\ f.exports = h.exports
      /\ f.cfg = h.cfg /\ f.suite = h.suite /\ f.alpn_sel = h.alpn_sel
      /\ f.psk_suite = h.psk_suite /\ f.secrets = h.secrets
  BY <1>2 DEF Same, Fields
<1>5. h.version = "12" /\ h.exports = <<>> /\ h.in_epoch = INITIAL /\ h.state \in Mid12
  BY <1>1 DEF Heard, Flags, KeysAt, Mid12
<1>6. Of(f.th, "CKE") # {}
  BY <1>2 DEF Of
<1>7. Handover(f.th) = << <<APP, "send", "CKE">>, <<APP, "recv", "CKE">> >>
  BY <1>6 DEF Handover
<1>8. HandedInOrder(f)
  BY <1>4, <1>5, <1>7 DEF HandedInOrder
<1>9. \/ /\ e.state = "FAILED"
         /\ \E x, alert : e = fail(x, alert) /\ Typed(x) /\ HandedInOrder(x) /\ x.in_len = f.in_len
      \/ /\ e.state # "FAILED" /\ Typed(e) /\ HandedInOrder(e) /\ Same(e, f, {"exports"})
         /\ Len(e.exports) = 2
  <2> DEFINE k == 0
  <2>1. /\ APP \in Epochs /\ "recv" \in {"recv", "send"} /\ "send" \in {"recv", "send"} /\ k \in Nat
        /\ Len(f.exports) = k /\ k + 2 <= Len(Handover(f.th)) /\ n \in DOMAIN f.th
        /\ f.state # "FAILED" /\ k + 2 = 2
    BY <1>1, <1>2, <1>4, <1>5, <1>7 DEF Epochs
  <2>2. /\ <<APP, "send", Kind(f.th[n])>> = Handover(f.th)[k + 1]
        /\ <<APP, "recv", Kind(f.th[n])>> = Handover(f.th)[k + 2]
    BY <1>2, <1>7
  <2> HIDE DEF k
  <2>3. \/ /\ e.state = "FAILED"
           /\ \E x, alert : e = fail(x, alert) /\ Typed(x) /\ HandedInOrder(x) /\ x.in_len = f.in_len
        \/ /\ e.state # "FAILED" /\ Typed(e) /\ HandedInOrder(e) /\ Same(e, f, {"exports"})
           /\ Len(e.exports) = k + 2 /\ Holds(e, APP, "send") /\ Holds(e, APP, "recv")
    BY <1>2, <1>8, <2>1, <2>2, HandsOver
  <2> HIDE DEF e
  <2> QED BY <2>1, <2>3
<1> HIDE DEF e
<1>10. CASE \E alert : t12_on_shd(h, m, env) = fail(h, alert)
  BY <1>10, FailHandled
<1>11. CASE e.state = "FAILED" /\ t12_on_shd(h, m, env) = e
  <2>1. PICK x, alert : e = fail(x, alert) /\ Typed(x) /\ HandedInOrder(x) /\ x.in_len = f.in_len
    BY <1>9, <1>11
  <2>2. Handled(fail(x, alert), h, s)
    BY <1>1, <1>4, <2>1, FailsLater
  <2> QED BY <1>11, <2>1, <2>2
<1>12. CASE e.state # "FAILED" /\ t12_on_shd(h, m, env) = r
  <2>1. Typed(e) /\ HandedInOrder(e) /\ Same(e, f, {"exports"}) /\ Len(e.exports) = 2
    BY <1>9, <1>12
  <2>2. Shape(r) /\ Same(r, e, {"state"}) /\ r.state = "WAIT12_CCS"
    BY <2>1, ShdDoneDoes DEF Typed
  <2> HIDE DEF r
  <2>3. /\ r.version = h.version /\ r.hrr_seen = h.hrr_seen /\ r.cr_seen = h.cr_seen
        /\ r.psk_ok = h.psk_ok /\ r.in_base = h.in_base /\ r.in_len = h.in_len
        /\ r.n_certs = h.n_certs /\ r.buf = h.buf /\ r.exports = e.exports
        /\ r.out_off = f.out_off /\ r.out = f.out /\ r.out_split = f.out_split
        /\ r.th = f.th /\ r.th = e.th /\ r.in_epoch = h.in_epoch /\ r.secrets = h.secrets
        /\ r.cfg = h.cfg /\ r.suite = h.suite /\ r.alpn_sel = h.alpn_sel /\ r.psk_suite = h.psk_suite
    BY <1>4, <2>1, <2>2 DEF Same, Fields
  <2>4. Typed(r)
    <3>1. r.exports \in Seq(Epochs \X {"recv", "send"} \X Nat) /\ "WAIT12_CCS" \in States
      BY <2>1, <2>3 DEF Typed, States, ServerStates12
    <3> QED BY <1>1, <1>2, <2>2, <2>3, <3>1 DEF Typed
  <2>5. Sound(r)
    <3>1. Agreed(r) /\ NotDowngraded(r)
      BY <1>1, <1>2, <2>3, AgreedFrom DEF ShdKinds
    <3>2. The(r.th, "SKE").verdict = "none"
      <4>1. Of(h.th, "SKE") # {} /\ The(h.th, "SKE").verdict = "none"
        BY <1>1 DEF Heard, Chosen
      <4>2. "SKE" \notin K
        BY DEF ShdKinds
      <4> QED BY <1>2, <2>3, <4>1, <4>2 DEF Adds
    <3> QED BY <1>2, <1>5, <2>3, <3>1, <3>2 DEF Sound, Authenticated
  <2>6. Script(r) /\ Flags(r) /\ Offered(r) /\ Retried(r) /\ Chosen(r)
    BY <1>5, <2>2, <2>3 DEF Script, Flags, Offered, Retried, Chosen, Early, Mid13, Mid12, Open
  <2>7. Unheard(r)
    BY <1>5, <1>6, <2>2, <2>3 DEF Unheard, Early, Mid13, Mid12, Late
  <2>8. KeysBoundToTranscript(r)
    <3>1. HandedInOrder(r)
      <4>1. r.exports = e.exports /\ r.th = e.th
        BY <2>3
      <4>2. HandedInOrder(e)
        BY <2>1
      <4> QED BY <4>1, <4>2 DEF HandedInOrder
    <3> QED BY <1>5, <2>3, <3>1 DEF KeysBoundToTranscript
  <2>9. KeysAt(r)
    BY <1>5, <2>1, <2>2, <2>3 DEF KeysAt, Early, Mid13, Mid12
  <2>10. SecretsAt(r)
    BY <1>1, <2>2, <2>3 DEF Heard, SecretsAt, Mid13
  <2>11. Certs(r)
    BY <1>1, <2>2, <2>3 DEF Heard, Certs
  <2>12. Queued(r, s) /\ SentRight(r, s)
    <3>1. InLine(r, s) /\ r.state \in Late
      BY <1>2, <1>4, <2>2, <2>3 DEF InLine, Pending, Late
    <3>2. SentRight(r, s)
      BY <1>1, StillRight
    <3> QED BY <3>1, <3>2 DEF Queued
  <2> QED BY <1>1, <1>12, <2>3, <2>4, <2>5, <2>6, <2>7, <2>8, <2>9, <2>10, <2>11, <2>12
          DEF Heard, Handled, Ready
<1> QED BY <1>3, <1>10, <1>11, <1>12

-----------------------------------------------------------------------------
(* What changes little *)

LEMMA SentSame ==
    ASSUME NEW h, NEW s, SentRight(h, s), NEW r, r.th = h.th, r.exports = h.exports,
           h.state \in Late \cup {"FAILED"} => r.state \in Late \cup {"FAILED"}
    PROVE  SentRight(r, s)
BY DEF SentRight, SentAs, Holds

LEMMA SoundSame ==
    ASSUME NEW h, Sound(h), NEW r, r.th = h.th, r.cfg = h.cfg, r.version = h.version,
           r.suite = h.suite, r.alpn_sel = h.alpn_sel, r.psk_ok = h.psk_ok, r.psk_suite = h.psk_suite
    PROVE  Sound(r)
<1>1. Authenticated(r)
  BY DEF Sound, Authenticated
<1>2. Agreed(r)
  BY DEF Sound, Agreed
<1>3. NotDowngraded(r)
  BY DEF Sound, NotDowngraded
<1> QED BY <1>1, <1>2, <1>3 DEF Sound

LEMMA OrderSame ==
    ASSUME NEW h, HandedInOrder(h), NEW r, r.th = h.th, r.exports = h.exports
    PROVE  HandedInOrder(r)
BY DEF HandedInOrder

\* A note for the record layer.
LEMMA NotesKeep ==
    ASSUME NEW h, NEW s, Ready(h, s), NEW r, Shape(r), Same(r, h, {"ku"})
    PROVE  Handled(r, h, s) /\ (Partial(h) => Partial(r))
<1>1. Heard(h) /\ Typed(h)
  BY DEF Ready, Heard
<1>2. /\ r.cfg = h.cfg /\ r.state = h.state /\ r.version = h.version /\ r.suite = h.suite
      /\ r.in_epoch = h.in_epoch /\ r.hrr_seen = h.hrr_seen /\ r.hrr_group = h.hrr_group
      /\ r.cookie = h.cookie /\ r.psk_suite = h.psk_suite /\ r.psk_ok = h.psk_ok
      /\ r.tls12_offered = h.tls12_offered /\ r.offer = h.offer
      /\ r.share_group = h.share_group /\ r.in_len = h.in_len /\ r.out = h.out
      /\ r.out_off = h.out_off /\ r.out_split = h.out_split /\ r.exports = h.exports
      /\ r.cr_seen = h.cr_seen /\ r.secrets = h.secrets /\ r.buf = h.buf
      /\ r.in_base = h.in_base /\ r.n_certs = h.n_certs /\ r.alpn_sel = h.alpn_sel /\ r.th = h.th
  BY DEF Same, Fields
<1>3. Typed(r)
  BY <1>1, <1>2 DEF Typed
<1>4. Script(r) /\ Flags(r) /\ Offered(r) /\ Retried(r)
  <2>1. Script(r)
    BY <1>1, <1>2 DEF Heard, Script, Greeting, Met, Proof13
  <2>2. Flags(r)
    BY <1>1, <1>2 DEF Heard, Flags
  <2>3. Offered(r)
    BY <1>1, <1>2 DEF Heard, Offered
  <2>4. Retried(r)
    BY <1>1, <1>2 DEF Heard, Retried
  <2> QED BY <2>1, <2>2, <2>3, <2>4
<1>5. Unheard(r) /\ Chosen(r)
  BY <1>1, <1>2 DEF Heard, Unheard, Chosen
<1>6. KeysAt(r) /\ SecretsAt(r) /\ Certs(r)
  BY <1>1, <1>2 DEF Heard, KeysAt, SecretsAt, Certs
<1>7. KeysBoundToTranscript(r)
  <2>1. HandedInOrder(r)
    BY <1>1, <1>2, OrderSame DEF Heard, KeysBoundToTranscript
  <2> QED BY <1>1, <1>2, <2>1 DEF Heard, KeysBoundToTranscript, Holds
<1>8. r.state \in Late => Sound(r)
  BY <1>1, <1>2, SoundSame DEF Heard
<1>9. Queued(r, s)
  BY <1>2 DEF Ready, Queued, InLine, Pending
<1>10. SentRight(r, s)
  BY <1>2, SentSame DEF Ready
<1>11. Partial(h) => Partial(r)
  BY <1>2 DEF Partial, Begun
<1> QED BY <1>2, <1>3, <1>4, <1>5, <1>6, <1>7, <1>8, <1>9, <1>10, <1>11 DEF Heard, Handled, Ready

LEMMA KuShape ==
    ASSUME NEW h, Shape(h), NEW ku
    PROVE  Shape([h EXCEPT !.ku = ku]) /\ Same([h EXCEPT !.ku = ku], h, {"ku"})
BY DEF Shape, Same

\* A later step of the same handshake: r has what h had, and only moves on.
LEMMA MovesOn ==
    ASSUME NEW h, NEW s, Ready(h, s), h.state \in Late, h.version = "12", NEW r, Shape(r),
           Same(r, h, {"state", "in_epoch", "secrets"}), r.in_epoch = APP,
           r.state \in {"WAIT12_FIN", "CONNECTED"},
           r.state = "WAIT12_FIN" => r.secrets \subseteq {"main"},
           r.state = "CONNECTED" => r.secrets \subseteq {"exp", "res"}
    PROVE  Handled(r, h, s)
<1>1. Heard(h) /\ Typed(h)
  BY DEF Ready, Heard
<1>2. /\ r.cfg = h.cfg /\ r.version = h.version /\ r.suite = h.suite
      /\ r.hrr_seen = h.hrr_seen /\ r.psk_suite = h.psk_suite /\ r.psk_ok = h.psk_ok
      /\ r.in_len = h.in_len /\ r.out = h.out
      /\ r.out_off = h.out_off /\ r.out_split = h.out_split /\ r.exports = h.exports
      /\ r.cr_seen = h.cr_seen /\ r.buf = h.buf
      /\ r.in_base = h.in_base /\ r.n_certs = h.n_certs /\ r.alpn_sel = h.alpn_sel /\ r.th = h.th
  BY DEF Same, Fields
<1>3. Typed(r)
  BY <1>1, <1>2 DEF Typed, States, ServerStates12, Epochs
<1>4. Script(r) /\ Flags(r) /\ Offered(r) /\ Retried(r) /\ Chosen(r)
  BY <1>2 DEF Script, Flags, Offered, Retried, Chosen, Early, Mid13, Mid12, Open
<1>5. Unheard(r)
  BY <1>1, <1>2 DEF Heard, Unheard, Early, Mid13, Mid12, Late
<1>6. Len(h.exports) = 2 /\ Of(h.th, "CKE") # {}
  BY <1>1 DEF Heard, KeysAt, Unheard, Late
<1>7. KeysAt(r) /\ SecretsAt(r) /\ Certs(r)
  <2>1. KeysAt(r)
    BY <1>2, <1>6 DEF KeysAt, Early, Mid13, Mid12
  <2>2. SecretsAt(r)
    BY DEF SecretsAt, Mid13
  <2>3. Certs(r)
    BY <1>1, <1>2 DEF Heard, Certs, Late
  <2> QED BY <2>1, <2>2, <2>3
<1>8. KeysBoundToTranscript(r)
  <2>1. HandedInOrder(h)
    BY <1>1 DEF Heard, KeysBoundToTranscript
  <2>2. Handover(h.th) = << <<APP, "send", "CKE">>, <<APP, "recv", "CKE">> >>
    BY <1>6 DEF Handover
  <2>3. 2 \in DOMAIN h.exports
    BY <1>1, <1>6 DEF Typed
  <2>4. h.exports[2][1] = APP /\ h.exports[2][2] = "recv"
    BY <2>1, <2>2, <2>3 DEF HandedInOrder
  <2>5. Holds(r, APP, "recv")
    BY <1>2, <2>3, <2>4 DEF Holds
  <2>6. HandedInOrder(r)
    BY <1>2, <2>1, OrderSame
  <2> QED BY <2>5, <2>6 DEF KeysBoundToTranscript
<1>9. Sound(r)
  BY <1>1, <1>2, SoundSame DEF Heard
<1>10. Queued(r, s)
  <2>1. InLine(h, s)
    BY DEF Ready, Queued, Late
  <2> QED BY <1>2, <2>1 DEF Queued, InLine, Pending, Late
<1>11. SentRight(r, s)
  BY <1>2, SentSame DEF Ready, Late
<1> QED BY <1>2, <1>3, <1>4, <1>5, <1>7, <1>8, <1>9, <1>10, <1>11 DEF Heard, Handled, Ready

LEMMA T12FinKeeps ==
    ASSUME NEW h, NEW s, Ready(h, s), h.state = "WAIT12_FIN", NEW m
    PROVE  Handled(t12_on_fin(h, m), h, s)
<1> DEFINE r == [h EXCEPT !.secrets = @ \ {"main"}, !.state = "CONNECTED"]
<1>1. Heard(h) /\ Shape(h)
  BY DEF Ready, Heard, Typed
<1>2. (\E alert : t12_on_fin(h, m) = fail(h, alert)) \/ t12_on_fin(h, m) = r
  BY DEF t12_on_fin
<1>3. Shape(r)
  BY <1>1 DEF Shape
<1>4. Same(r, h, {"state", "secrets"})
  BY <1>1 DEF Shape, Same
<1>5. r.state = "CONNECTED" /\ r.secrets = h.secrets \ {"main"}
  BY <1>1 DEF Shape, Fields
<1> HIDE DEF r
<1>6. r.in_epoch = h.in_epoch /\ Same(r, h, {"state", "in_epoch", "secrets"})
  <2>1. r.in_epoch = h.in_epoch
    BY <1>4 DEF Same, Fields
  <2> QED BY <1>4, <2>1 DEF Same
<1>7. h.state \in Late /\ h.version = "12" /\ h.in_epoch = APP /\ h.secrets \subseteq {"main"}
  BY <1>1 DEF Heard, Late, Flags, KeysAt, SecretsAt
<1>8. r.secrets \subseteq {"exp", "res"}
  BY <1>5, <1>7
<1>9. Handled(r, h, s)
  BY <1>3, <1>5, <1>6, <1>7, <1>8, MovesOn
<1> QED BY <1>2, <1>9, FailHandled

LEMMA CcsKeeps ==
    ASSUME NEW h, NEW s, Ready(h, s), Partial(h)
    PROVE  Ready(tls12_on_ccs(h), s) /\ Partial(tls12_on_ccs(h))
<1> DEFINE r == [h EXCEPT !.state = "WAIT12_FIN", !.in_epoch = APP]
<1>1. Heard(h) /\ Shape(h)
  BY DEF Ready, Heard, Typed
<1>2. \/ tls12_on_ccs(h) = h
      \/ tls12_on_ccs(h) = fail(h, "unexpected_message")
      \/ tls12_on_ccs(h) = r /\ h.version = "12" /\ h.state = "WAIT12_CCS" /\ h.in_len = 0
  BY DEF tls12_on_ccs
<1>3. Shape(r)
  BY <1>1 DEF Shape
<1>4. Same(r, h, {"state", "in_epoch"})
  BY <1>1 DEF Shape, Same
<1>5. r.state = "WAIT12_FIN" /\ r.in_epoch = APP
  BY <1>1 DEF Shape, Fields
<1> HIDE DEF r
<1>6. CASE tls12_on_ccs(h) = h
  BY <1>6
<1>7. CASE tls12_on_ccs(h) = fail(h, "unexpected_message")
  <2>1. Handled(fail(h, "unexpected_message"), h, s)
    BY FailHandled
  <2>2. fail(h, "unexpected_message").state = "FAILED"
    BY <1>1, FailDoes DEF Fallen
  <2> QED BY <1>7, <2>1, <2>2 DEF Handled, Partial
<1>8. CASE tls12_on_ccs(h) = r /\ h.version = "12" /\ h.state = "WAIT12_CCS" /\ h.in_len = 0
  <2>1. Same(r, h, {"state", "in_epoch", "secrets"}) /\ r.secrets = h.secrets /\ r.in_len = h.in_len
    BY <1>4 DEF Same, Fields
  <2>2. h.state \in Late /\ h.secrets \subseteq {"main"}
    BY <1>1, <1>8 DEF Heard, Late, SecretsAt
  <2>3. Handled(r, h, s)
    BY <1>3, <1>5, <1>8, <2>1, <2>2, MovesOn
  <2>4. Partial(r)
    BY <1>8, <2>1 DEF Partial
  <2> QED BY <1>8, <2>3, <2>4 DEF Handled
<1> QED BY <1>2, <1>6, <1>7, <1>8

LEMMA Unchanged ==
    ASSUME NEW h, NEW s, Ready(h, s)
    PROVE  Handled(h, h, s)
BY DEF Handled

LEMMA NstKeeps ==
    ASSUME NEW h, NEW s, Ready(h, s), NEW m, NEW env
    PROVE  Handled(hs_on_nst(h, m, env), h, s)
<1>1. (\E alert : hs_on_nst(h, m, env) = fail(h, alert)) \/ hs_on_nst(h, m, env) = h
  BY DEF hs_on_nst
<1> QED BY <1>1, FailHandled, Unchanged

LEMMA KuKeeps ==
    ASSUME NEW h, NEW s, Ready(h, s), NEW m
    PROVE  Handled(hs_on_ku(h, m), h, s)
<1> DEFINE ku == h.ku \cup {"rotate"} \cup (IF m.requested THEN {"reply"} ELSE {})
<1>1. (\E alert : hs_on_ku(h, m) = fail(h, alert)) \/ hs_on_ku(h, m) = [h EXCEPT !.ku = ku]
  BY DEF hs_on_ku
<1> HIDE DEF ku
<1>2. Handled([h EXCEPT !.ku = ku], h, s)
  BY KuShape, NotesKeep DEF Ready, Heard, Typed
<1> QED BY <1>1, <1>2, FailHandled

LEMMA HreqKeeps ==
    ASSUME NEW h, NEW s, Ready(h, s), NEW m
    PROVE  Handled(t12_on_hreq(h, m), h, s)
<1> DEFINE ku == h.ku \cup {"hr"}
<1>1. \/ \E alert : t12_on_hreq(h, m) = fail(h, alert)
      \/ t12_on_hreq(h, m) = [h EXCEPT !.ku = ku]
      \/ t12_on_hreq(h, m) = h
  BY DEF t12_on_hreq
<1> HIDE DEF ku
<1>2. Handled([h EXCEPT !.ku = ku], h, s)
  BY KuShape, NotesKeep DEF Ready, Heard, Typed
<1> QED BY <1>1, <1>2, FailHandled, Unchanged

LEMMA Dispatch12Keeps ==
    ASSUME NEW h, NEW s, Ready(h, s), NEW env \in [Callbacks -> BOOLEAN],
           NEW m \in Messages, Begun(h, m, m.sz)
    PROVE  Handled(t12_dispatch(h, m, env), h, s)
<1>1. CASE m.t = "HREQ"
  <2>1. t12_dispatch(h, m, env) = t12_on_hreq(h, m)
    BY <1>1 DEF t12_dispatch
  <2> QED BY <2>1, HreqKeeps
<1>2. CASE m.t = "CERT" /\ h.state = "WAIT12_CERT"
  <2>1. t12_dispatch(h, m, env) = t12_on_cert(h, m)
    BY <1>2 DEF t12_dispatch
  <2> QED BY <1>2, <2>1, T12CertKeeps
<1>3. CASE m.t = "SKE" /\ h.state = "WAIT12_SKE"
  <2>1. t12_dispatch(h, m, env) = t12_on_ske(h, m)
    BY <1>3 DEF t12_dispatch
  <2> QED BY <1>3, <2>1, SkeKeeps
<1>4. CASE m.t = "CR" /\ h.state = "WAIT12_CR_SHD"
  <2>1. t12_dispatch(h, m, env) = t12_on_cr(h, m)
    BY <1>4 DEF t12_dispatch
  <2> QED BY <1>4, <2>1, T12CrKeeps
<1>5. CASE m.t = "SHD" /\ h.state \in {"WAIT12_CR_SHD", "WAIT12_SHD"}
  <2>1. t12_dispatch(h, m, env) = t12_on_shd(h, m, env)
    BY <1>5 DEF t12_dispatch
  <2> QED BY <1>5, <2>1, ShdKeeps
<1>6. CASE m.t = "FIN" /\ h.state = "WAIT12_FIN"
  <2>1. t12_dispatch(h, m, env) = t12_on_fin(h, m)
    BY <1>6 DEF t12_dispatch
  <2> QED BY <1>6, <2>1, T12FinKeeps
<1>7. CASE /\ m.t # "HREQ" /\ ~(m.t = "CERT" /\ h.state = "WAIT12_CERT")
           /\ ~(m.t = "SKE" /\ h.state = "WAIT12_SKE") /\ ~(m.t = "CR" /\ h.state = "WAIT12_CR_SHD")
           /\ ~(m.t = "SHD" /\ h.state \in {"WAIT12_CR_SHD", "WAIT12_SHD"})
           /\ ~(m.t = "FIN" /\ h.state = "WAIT12_FIN")
  <2>1. t12_dispatch(h, m, env) = fail(h, "unexpected_message")
    BY <1>7 DEF t12_dispatch
  <2> QED BY <2>1, FailHandled
<1> QED BY <1>1, <1>2, <1>3, <1>4, <1>5, <1>6, <1>7

LEMMA Dispatch13Keeps ==
    ASSUME NEW h, NEW s, Ready(h, s), NEW env \in [Callbacks -> BOOLEAN],
           NEW m \in Messages, Begun(h, m, m.sz)
    PROVE  Handled(t13_dispatch(h, m, env), h, s)
<1>1. CASE m.t = "SH" /\ h.state = "WAIT_SH"
  <2>1. t13_dispatch(h, m, env) = hs_on_sh(h, m, env)
    BY <1>1 DEF t13_dispatch
  <2> QED BY <1>1, <2>1, ShKeeps
<1>2. CASE m.t = "EE" /\ h.state = "WAIT_EE"
  <2>1. t13_dispatch(h, m, env) = hs_on_ee(h, m, env)
    BY <1>2 DEF t13_dispatch
  <2> QED BY <1>2, <2>1, EeKeeps
<1>3. CASE m.t = "CR" /\ h.state = "WAIT_CERT_CR"
  <2>1. t13_dispatch(h, m, env) = hs_on_cr(h, m)
    BY <1>3 DEF t13_dispatch
  <2> QED BY <1>3, <2>1, CrKeeps
<1>4. CASE m.t = "CERT" /\ h.state \in {"WAIT_CERT_CR", "WAIT_CERT"}
  <2>1. t13_dispatch(h, m, env) = hs_on_cert(h, m)
    BY <1>4 DEF t13_dispatch
  <2> QED BY <1>4, <2>1, CertKeeps
<1>5. CASE m.t = "CV" /\ h.state = "WAIT_CV"
  <2>1. t13_dispatch(h, m, env) = hs_on_cv(h, m)
    BY <1>5 DEF t13_dispatch
  <2> QED BY <1>5, <2>1, CvKeeps
<1>6. CASE m.t = "FIN" /\ h.state = "WAIT_FIN"
  <2>1. t13_dispatch(h, m, env) = hs_on_fin(h, m, env)
    BY <1>6 DEF t13_dispatch
  <2> QED BY <1>6, <2>1, FinKeeps
<1>7. CASE m.t = "NST" /\ h.state = "CONNECTED"
  <2>1. t13_dispatch(h, m, env) = hs_on_nst(h, m, env)
    BY <1>7 DEF t13_dispatch
  <2> QED BY <2>1, NstKeeps
<1>8. CASE m.t = "KU" /\ h.state = "CONNECTED"
  <2>1. t13_dispatch(h, m, env) = hs_on_ku(h, m)
    BY <1>8 DEF t13_dispatch
  <2> QED BY <2>1, KuKeeps
<1>9. CASE /\ ~(m.t = "SH" /\ h.state = "WAIT_SH") /\ ~(m.t = "EE" /\ h.state = "WAIT_EE")
           /\ ~(m.t = "CR" /\ h.state = "WAIT_CERT_CR")
           /\ ~(m.t = "CERT" /\ h.state \in {"WAIT_CERT_CR", "WAIT_CERT"})
           /\ ~(m.t = "CV" /\ h.state = "WAIT_CV") /\ ~(m.t = "FIN" /\ h.state = "WAIT_FIN")
           /\ ~(m.t = "NST" /\ h.state = "CONNECTED") /\ ~(m.t = "KU" /\ h.state = "CONNECTED")
  <2>1. t13_dispatch(h, m, env) = fail(h, "unexpected_message")
    BY <1>9 DEF t13_dispatch
  <2> QED BY <2>1, FailHandled
<1> QED BY <1>1, <1>2, <1>3, <1>4, <1>5, <1>6, <1>7, <1>8, <1>9

\* Whatever a whole message says, its handler leaves the engine in order.
LEMMA DispatchKeeps ==
    ASSUME NEW h, NEW s, Ready(h, s), NEW env \in [Callbacks -> BOOLEAN],
           NEW m \in Messages, Begun(h, m, m.sz)
    PROVE  Handled(dispatch(h, m, env), h, s)
BY Dispatch12Keeps, Dispatch13Keeps DEF dispatch

-----------------------------------------------------------------------------
(* The owner's calls *)

LEMMA SetPskKeeps ==
    ASSUME NEW h, NEW s, Ready(h, s), Partial(h), h.state = "START", NEW suite
    PROVE  /\ Ready(set_psk(h, suite), s) /\ Partial(set_psk(h, suite))
           /\ Ready(set_tls12_key(h), s) /\ Partial(set_tls12_key(h))
<1>1. Heard(h) /\ Typed(h) /\ Shape(h)
  BY DEF Ready, Heard, Typed
<1>2. ASSUME NEW r, Shape(r), Same(r, h, {"psk_suite", "psk_len", "secrets"}),
             r.secrets \subseteq {"psk", "p256", "priv"}
      PROVE  Ready(r, s) /\ Partial(r)
  <2>1. /\ r.cfg = h.cfg /\ r.state = "START" /\ r.version = h.version /\ r.suite = h.suite
        /\ r.in_epoch = h.in_epoch /\ r.hrr_seen = h.hrr_seen /\ r.hrr_group = h.hrr_group
        /\ r.cookie = h.cookie /\ r.psk_ok = h.psk_ok
        /\ r.tls12_offered = h.tls12_offered /\ r.offer = h.offer
        /\ r.share_group = h.share_group /\ r.in_len = h.in_len /\ r.out = h.out
        /\ r.out_off = h.out_off /\ r.out_split = h.out_split /\ r.exports = h.exports
        /\ r.cr_seen = h.cr_seen /\ r.buf = h.buf
        /\ r.in_base = h.in_base /\ r.n_certs = h.n_certs /\ r.alpn_sel = h.alpn_sel /\ r.th = h.th
    BY <1>2 DEF Same, Fields
  <2>2. Typed(r)
    BY <1>1, <1>2, <2>1 DEF Typed
  <2>3. Script(r)
    BY <1>1, <2>1 DEF Heard, Script
  <2>4. Flags(r)
    BY <1>1, <2>1 DEF Heard, Flags, Early, Mid13, Mid12
  <2>5. Offered(r) /\ Retried(r)
    BY <1>1, <2>1 DEF Heard, Offered, Retried, Open, Mid13, Mid12
  <2>6. Unheard(r) /\ Chosen(r)
    BY <1>1, <2>1 DEF Heard, Unheard, Chosen, Early, Mid13, Mid12, Late
  <2>7. KeysAt(r)
    BY <1>1, <2>1 DEF Heard, KeysAt, Early
  <2>8. KeysBoundToTranscript(r)
    <3>1. HandedInOrder(r)
      BY <1>1, <2>1, OrderSame DEF Heard, KeysBoundToTranscript
    <3>2. r.in_epoch = INITIAL
      BY <1>1, <2>1 DEF Heard, KeysAt, Early
    <3> QED BY <3>1, <3>2 DEF KeysBoundToTranscript
  <2>9. SecretsAt(r) /\ Certs(r) /\ r.state \notin Late
    BY <1>1, <1>2, <2>1 DEF Heard, SecretsAt, Certs, Late, Mid13
  <2>10. Queued(r, s)
    BY <2>1 DEF Ready, Queued, InLine, Pending, Late
  <2>11. SentRight(r, s)
    BY StillRight DEF Late
  <2>12. Partial(r)
    BY <2>1 DEF Partial, Begun
  <2> QED BY <2>2, <2>3, <2>4, <2>5, <2>6, <2>7, <2>8, <2>9, <2>10, <2>11, <2>12 DEF Ready, Heard
<1>3. h.secrets \subseteq {"psk", "p256", "priv"}
  BY <1>1 DEF Heard, SecretsAt
<1>4. Ready(set_psk(h, suite), s) /\ Partial(set_psk(h, suite))
  <2> DEFINE r == set_psk(h, suite)
  <2>1. Shape(r)
    BY <1>1 DEF Shape, set_psk
  <2>2. Same(r, h, {"psk_suite", "psk_len", "secrets"})
    BY <1>1 DEF Shape, Same, set_psk
  <2>3. r.secrets = h.secrets \cup {"psk"}
    BY <1>1 DEF Shape, Fields, set_psk
  <2> HIDE DEF r
  <2>4. r.secrets \subseteq {"psk", "p256", "priv"}
    BY <1>3, <2>3
  <2>5. Ready(r, s) /\ Partial(r)
    BY <1>2, <2>1, <2>2, <2>4
  <2> QED BY <2>5 DEF r
<1>5. Ready(set_tls12_key(h), s) /\ Partial(set_tls12_key(h))
  <2> DEFINE r == set_tls12_key(h)
  <2>1. Shape(r)
    BY <1>1 DEF Shape, set_tls12_key
  <2>2. Same(r, h, {"psk_suite", "psk_len", "secrets"})
    BY <1>1 DEF Shape, Same, set_tls12_key
  <2>3. r.secrets = h.secrets \cup {"p256"}
    BY <1>1 DEF Shape, Fields, set_tls12_key
  <2> HIDE DEF r
  <2>4. r.secrets \subseteq {"psk", "p256", "priv"}
    BY <1>3, <2>3
  <2>5. Ready(r, s) /\ Partial(r)
    BY <1>2, <2>1, <2>2, <2>4
  <2> QED BY <2>5 DEF r
<1> QED BY <1>4, <1>5

LEMMA TakeKuKeeps ==
    ASSUME NEW h, NEW s, Ready(h, s), Partial(h)
    PROVE  Ready([h EXCEPT !.ku = {}], s) /\ Partial([h EXCEPT !.ku = {}])
<1>1. Handled([h EXCEPT !.ku = {}], h, s) /\ Partial([h EXCEPT !.ku = {}])
  BY KuShape, NotesKeep DEF Ready, Heard, Typed
<1> QED BY <1>1 DEF Handled

HelloDone(g, h, ch) ==
    [g EXCEPT
       !.session_id = ch.sid, !.share_group = ch.group, !.psk_offered = "psk" \in ch.exts,
       !.psk_len = IF "psk" \in ch.exts THEN @ ELSE 0,
       !.secrets = (IF "psk" \in ch.exts THEN @ ELSE @ \ {"psk"}) \cup {"priv"},
       !.tls12_offered = ch.tls12 /\ ch.suites \cap Suites12 # {},
       !.offer = [exts |-> ch.exts, suites |-> ch.suites, groups |-> ch.groups,
                  alpn |-> ch.alpn],
       !.state = "WAIT_SH"]

LEMMA HelloDoneDoes ==
    ASSUME NEW g, NEW h, NEW ch, Shape(g)
    PROVE  LET r == HelloDone(g, h, ch)
           IN  /\ Shape(r)
               /\ Same(r, g, {"session_id", "share_group", "psk_offered", "psk_len", "secrets",
                              "tls12_offered", "offer", "state"})
               /\ r.share_group = ch.group /\ r.state = "WAIT_SH"
               /\ r.offer = [exts |-> ch.exts, suites |-> ch.suites, groups |-> ch.groups,
                             alpn |-> ch.alpn]
               /\ r.tls12_offered = (ch.tls12 /\ ch.suites \cap Suites12 # {})
               /\ r.secrets = (IF "psk" \in ch.exts THEN g.secrets ELSE g.secrets \ {"psk"}) \cup {"priv"}
<1> DEFINE r == HelloDone(g, h, ch)
<1>1. Shape(r)
  BY DEF Shape, HelloDone
<1>2. Same(r, g, {"session_id", "share_group", "psk_offered", "psk_len", "secrets",
                  "tls12_offered", "offer", "state"})
  BY DEF Shape, Same, HelloDone
<1>3. /\ r.share_group = ch.group /\ r.state = "WAIT_SH"
      /\ r.offer = [exts |-> ch.exts, suites |-> ch.suites, groups |-> ch.groups,
                    alpn |-> ch.alpn]
      /\ r.tls12_offered = (ch.tls12 /\ ch.suites \cap Suites12 # {})
      /\ r.secrets = (IF "psk" \in ch.exts THEN g.secrets ELSE g.secrets \ {"psk"}) \cup {"priv"}
  BY DEF Shape, Fields, HelloDone
<1> QED BY <1>1, <1>2, <1>3

LEMMA HelloKinds ==
    /\ Append(<<>>, "CH") = <<"CH">>
    /\ Append(<<"CH", "HRR">>, "CH") = <<"CH", "HRR", "CH">>
<1>1. Append(<<>>, "CH") = <<"CH">>
  OBVIOUS
<1>2. Append(<<"CH", "HRR">>, "CH") = <<"CH", "HRR", "CH">>
  <2> DEFINE S == {"CH", "HRR"}
             k == <<"CH">>
  <2>1. k \in Seq(S) /\ "CH" \in S /\ "HRR" \in S
    OBVIOUS
  <2>2. k \o <<"HRR">> = <<"CH", "HRR">> /\ k \o <<"HRR", "CH">> = <<"CH", "HRR", "CH">>
    BY Pair, Triple
  <2> HIDE DEF S, k
  <2>3. Append(Append(k, "HRR"), "CH") = k \o <<"HRR", "CH">> /\ Append(k, "HRR") = k \o <<"HRR">>
    BY <2>1, TwoMore, OneMore
  <2> QED BY <2>2, <2>3
<1> QED BY <1>1, <1>2

LEMMA ClientHelloKeeps ==
    ASSUME NEW h, NEW s, Ready(h, s), Partial(h), NEW ch \in Hellos, accepts_hello(h, ch)
    PROVE  Ready(client_hello(h, ch), s) /\ Partial(client_hello(h, ch))
<1> DEFINE g == queue(h, INITIAL, ch)
           r == HelloDone(g, h, ch)
<1>1. /\ Heard(h) /\ Typed(h) /\ s \in SentType /\ h.state \in {"START", "WAIT_CH2"}
      /\ h.th \in Seq(Transcript) /\ InLine(h, s) /\ h.out_split = Len(h.out)
  <2>1. Heard(h) /\ Typed(h) /\ s \in SentType /\ h.state \in {"START", "WAIT_CH2"}
    BY DEF Ready, Heard, accepts_hello
  <2>2. InLine(h, s) /\ ~(h.out_split < Len(h.out))
    BY <2>1 DEF Ready, Queued, Late
  <2>3. h.out_split \in Nat /\ Len(h.out) \in Nat /\ h.out_split <= Len(h.out) /\ h.th \in Seq(Transcript)
    BY <2>1, <2>2 DEF Typed, InLine
  <2> QED BY <2>1, <2>2, <2>3
<1>2. ch \in Transcript /\ ch.t = "CH" /\ "CH" \in OwnKinds /\ INITIAL \in Epochs
  BY HandshakeAssumption DEF Transcript, OwnKinds, Epochs
<1>3. /\ Typed(g) /\ Same(g, h, {"th", "out", "out_split"}) /\ InLine(g, s)
      /\ g.th = Append(h.th, ch) /\ Kinds(g.th) = Append(Kinds(h.th), "CH")
      /\ Of(g.th, "CH") # {} /\ The(g.th, "CH") = ch /\ g.out_split = Len(g.out)
  <2>1. LET q == queue(h, INITIAL, ch)
        IN  /\ Typed(q) /\ Same(q, h, {"th", "out", "out_split"}) /\ InLine(q, s)
            /\ q.th = Append(h.th, ch) /\ Kinds(q.th) = Append(Kinds(h.th), ch.t)
            /\ Of(q.th, ch.t) # {} /\ The(q.th, ch.t) = ch /\ q.out_split = Len(q.out)
    BY <1>1, <1>2, QueueKeeps
  <2> QED BY <1>2, <2>1
<1>4. client_hello(h, ch) = r
  BY DEF client_hello, HelloDone
<1> HIDE DEF g
<1>5. /\ Shape(r)
      /\ Same(r, g, {"session_id", "share_group", "psk_offered", "psk_len", "secrets",
                     "tls12_offered", "offer", "state"})
      /\ r.share_group = ch.group /\ r.state = "WAIT_SH"
      /\ r.offer = [exts |-> ch.exts, suites |-> ch.suites, groups |-> ch.groups,
                    alpn |-> ch.alpn]
      /\ r.tls12_offered = (ch.tls12 /\ ch.suites \cap Suites12 # {})
      /\ r.secrets = (IF "psk" \in ch.exts THEN g.secrets ELSE g.secrets \ {"psk"}) \cup {"priv"}
  BY <1>3, HelloDoneDoes DEF Typed
<1> HIDE DEF r
<1>6. /\ r.cfg = h.cfg /\ r.version = h.version /\ r.suite = h.suite /\ g.secrets = h.secrets
      /\ r.in_epoch = h.in_epoch /\ r.hrr_seen = h.hrr_seen /\ r.hrr_group = h.hrr_group
      /\ r.cookie = h.cookie /\ r.psk_ok = h.psk_ok /\ r.in_len = h.in_len /\ r.out = g.out
      /\ r.out_off = g.out_off /\ r.out_split = g.out_split /\ r.exports = h.exports
      /\ r.cr_seen = h.cr_seen /\ r.buf = h.buf /\ r.in_base = h.in_base
      /\ r.n_certs = h.n_certs /\ r.alpn_sel = h.alpn_sel /\ r.th = g.th
  BY <1>3, <1>5, ZenonT(60) DEF Same, Fields
<1>7. /\ \A kind : kind # "CH" => /\ Of(r.th, kind) = Of(h.th, kind)
                                  /\ Of(h.th, kind) # {} => The(r.th, kind) = The(h.th, kind)
      /\ Of(r.th, "CH") # {} /\ The(r.th, "CH") = ch
      /\ h.th = <<>> => r.th[1] = ch
      /\ h.th # <<>> => r.th[1] = h.th[1]
  <2>1. Kind(ch) = "CH"
    BY <1>2 DEF Kind
  <2>2. \A kind : kind # Kind(ch) => /\ Of(r.th, kind) = Of(h.th, kind)
                                     /\ Of(h.th, kind) # {} => The(r.th, kind) = The(h.th, kind)
    BY <1>1, <1>2, <1>3, <1>6, Other
  <2>3. /\ r.th[Len(h.th) + 1] = ch
        /\ h.th # <<>> => r.th[1] = h.th[1]
    BY <1>1, <1>2, <1>3, <1>6, Appended
  <2>4. h.th = <<>> => Len(h.th) + 1 = 1
    OBVIOUS
  <2> QED BY <1>3, <1>6, <2>1, <2>2, <2>3, <2>4
<1>8. /\ ch.group \in ShareGroups
      /\ ch.suites \cap Suites12 # {} => ch.tls12 /\ ~h.cfg.quic
      /\ h.state = "WAIT_CH2" =>
            /\ ch.group = IF h.hrr_group # "none" THEN h.hrr_group ELSE h.share_group
            /\ ch.cookie = h.cookie
  BY <1>1 DEF accepts_hello, parse_ch, matches_hrr
<1>9. h.hrr_seen <=> h.state = "WAIT_CH2"
  BY <1>1 DEF Heard, Script
<1>10. Typed(r)
  BY <1>1, <1>3, <1>5, <1>6 DEF Typed, States, ServerStates13
<1>11. Script(r)
  <2>1. CASE h.state = "START"
    <3>1. Kinds(h.th) = <<>>
      BY <1>1, <2>1 DEF Heard, Script, Kinds
    <3>2. Kinds(r.th) = <<"CH">>
      BY <1>3, <1>6, <3>1, HelloKinds
    <3>3. Greeting(r) = <<"CH">>
      BY <1>6, <1>9, <2>1 DEF Greeting
    <3> QED BY <1>5, <3>2, <3>3 DEF Script
  <2>2. CASE h.state = "WAIT_CH2"
    <3>1. Kinds(h.th) = <<"CH", "HRR">>
      BY <1>1, <2>2 DEF Heard, Script
    <3>2. Kinds(r.th) = <<"CH", "HRR", "CH">>
      BY <1>3, <1>6, <3>1, HelloKinds
    <3>3. Greeting(r) = <<"CH", "HRR", "CH">>
      BY <1>6, <1>9, <2>2 DEF Greeting
    <3> QED BY <1>5, <3>2, <3>3 DEF Script
  <2> QED BY <1>1, <2>1, <2>2
<1>12. Flags(r)
  BY <1>1, <1>5, <1>6 DEF Heard, Flags, Early, Mid13, Mid12
<1>13. Offered(r)
  <2>1. ~r.hrr_seen => r.share_group = r.th[1].group
    <3>1. ASSUME ~r.hrr_seen PROVE h.th = <<>>
      BY <1>1, <1>6, <1>9, <3>1 DEF Heard, Script
    <3> QED BY <1>5, <1>7, <3>1
  <2>2. r.offer.exts = ch.exts /\ r.offer.suites = ch.suites /\ r.offer.alpn = ch.alpn
    BY <1>5
  <2> QED BY <1>5, <1>6, <1>7, <1>8, <2>1, <2>2 DEF Offered
<1>14. Retried(r)
  <2>1. CASE ~h.hrr_seen
    <3>1. Of(h.th, "HRR") = {}
      BY <1>1, <1>9, <2>1 DEF Heard, Retried
    <3> QED BY <1>6, <1>7, <2>1, <3>1 DEF Retried
  <2>2. CASE h.hrr_seen
    <3>1. h.state = "WAIT_CH2" /\ h.state \in Open
      BY <1>9, <2>2 DEF Open
    <3>2. /\ Of(h.th, "HRR") # {} /\ The(h.th, "HRR").suite = h.suite
          /\ h.cookie = The(h.th, "HRR").cookie
          /\ h.hrr_group = IF "key_share" \in The(h.th, "HRR").exts THEN The(h.th, "HRR").group ELSE "none"
          /\ "key_share" \in The(h.th, "HRR").exts =>
                The(h.th, "HRR").group \in ShareGroups /\ The(h.th, "HRR").group # h.th[1].group
      BY <1>1, <2>2, <3>1 DEF Heard, Retried
    <3>3. h.th # <<>> /\ h.share_group = h.th[1].group
      <4>1. Of(h.th, "CH") # {} /\ h.share_group = h.th[1].group
        BY <1>1, <3>1 DEF Heard, Offered
      <4> QED BY <4>1 DEF Of
    <3>4. "none" \notin ShareGroups
      BY DEF ShareGroups
    <3>5. ch.group = IF "key_share" \in The(h.th, "HRR").exts THEN The(h.th, "HRR").group ELSE h.th[1].group
      BY <1>8, <3>1, <3>2, <3>3, <3>4
    <3>6. Of(r.th, "HRR") # {} /\ The(r.th, "HRR") = The(h.th, "HRR") /\ r.th[1] = h.th[1]
      BY <1>7, <3>2, <3>3
    <3> QED BY <1>5, <1>6, <1>7, <1>8, <2>2, <3>1, <3>2, <3>5, <3>6 DEF Retried
  <2> QED BY <2>1, <2>2
<1>15. Unheard(r)
  BY <1>1, <1>5, <1>7 DEF Heard, Unheard, Early, Mid13, Mid12, Late
<1>16. Chosen(r)
  BY <1>1, <1>5, <1>6 DEF Heard, Chosen, Early, Mid13, Mid12
<1>17. KeysAt(r) /\ KeysBoundToTranscript(r)
  <2>1. h.exports = <<>> /\ h.in_epoch = INITIAL
    BY <1>1 DEF Heard, KeysAt, Early
  <2>2. Len(Handover(r.th)) \in Nat
    BY DEF Handover
  <2> QED BY <1>5, <1>6, <2>1, <2>2 DEF KeysAt, KeysBoundToTranscript, HandedInOrder, Early, Mid13, Mid12
<1>18. SecretsAt(r)
  <2>1. h.secrets \subseteq {"psk", "p256", "priv"}
    BY <1>1 DEF Heard, SecretsAt
  <2>2. r.secrets \subseteq {"psk", "p256", "priv"}
    BY <1>5, <1>6, <2>1
  <2>3. "psk" \in r.secrets => "psk" \in r.offer.exts
    <3>1. r.offer.exts = ch.exts
      BY <1>5
    <3> QED BY <1>5, <3>1
  <2> QED BY <1>5, <2>2, <2>3 DEF SecretsAt, Mid13
<1>19. Certs(r) /\ r.state \notin Late
  BY <1>1, <1>5, <1>6 DEF Heard, Certs, Late
<1>20. Queued(r, s) /\ SentRight(r, s)
  <2>1. InLine(r, s)
    BY <1>3, <1>6 DEF InLine, Pending
  <2>2. ~(r.out_split < Len(r.out))
    <3>1. Len(g.out) \in Nat
      BY <1>3, OutLength
    <3> QED BY <1>3, <1>6, <3>1
  <2>3. SentRight(r, s)
    BY <1>1, StillRight DEF Late
  <2> QED BY <2>1, <2>2, <2>3 DEF Queued
<1>21. Partial(r)
  BY <1>1, <1>5, <1>6 DEF Partial, Begun
<1> QED BY <1>1, <1>4, <1>10, <1>11, <1>12, <1>13, <1>14, <1>15, <1>16, <1>17, <1>18, <1>19, <1>20, <1>21
        DEF Heard, Ready

LEMMA NamesSame ==
    ASSUME NEW n \in Nat, NEW a, NEW b, DOMAIN a = 1..n, DOMAIN b = 1..n,
           \A i \in 1..n : a[i].m = b[i].m
    PROVE  Names(a) = Names(b)
BY DEF Names

\* Of what waits in the queue o behind off, the first n units leave.
LEMMA PendingSplits ==
    ASSUME NEW o \in Seq([m : OwnKinds, ep : Epochs]), NEW off \in Nat, NEW n \in Nat,
           off + n <= Len(o)
    PROVE  LET p == SubSeq(o, off + 1, Len(o))
               u == SubSeq(o, off + 1, off + n)
               q == SubSeq(o, off + n + 1, Len(o))
           IN  /\ u \in Seq([m : OwnKinds, ep : Epochs]) /\ Len(u) = n
               /\ \A i \in 1..n : u[i] = o[off + i]
               /\ q \in Seq([m : OwnKinds, ep : Epochs])
               /\ off + n = Len(o) => q = <<>>
               /\ Names(p) = Names(u) \o Names(q)
<1> DEFINE T == [m : OwnKinds, ep : Epochs]
           p == SubSeq(o, off + 1, Len(o))
           u == SubSeq(o, off + 1, off + n)
           q == SubSeq(o, off + n + 1, Len(o))
<1>0. \A x \in T : x.m \in OwnKinds
  OBVIOUS
<1>1. o \in Seq(T) /\ Len(o) \in Nat
  OBVIOUS
<1> HIDE DEF T
<1>2. \A i \in 1..Len(o) : o[i] \in T
  BY <1>1
<1>3. u \in Seq(T) /\ Len(u) = n /\ \A i \in 1..n : u[i] = o[off + i]
  <2>1. \A i \in (off + 1)..(off + n) : o[i] \in T
    BY <1>1, <1>2
  <2>2. off + 1 \in Int /\ off + n \in Int
    OBVIOUS
  <2>3. /\ u \in Seq(T)
        /\ Len(u) = IF off + 1 <= off + n THEN (off + n) - (off + 1) + 1 ELSE 0
        /\ \A i \in 1..(off + n) - (off + 1) + 1 : u[i] = o[(off + 1) + i - 1]
    BY <1>1, <2>1, <2>2, SubSeqProperties
  <2> HIDE DEF u
  <2>4. Len(u) = n
    BY <2>3
  <2>5. \A i \in 1..n : u[i] = o[off + i]
    <3> TAKE i \in 1..n
    <3>1. i \in 1..(off + n) - (off + 1) + 1 /\ (off + 1) + i - 1 = off + i
      OBVIOUS
    <3> QED BY <2>3, <3>1
  <2> QED BY <2>3, <2>4, <2>5
<1>4. q \in Seq(T) /\ Len(q) = Len(o) - (off + n) /\ \A i \in 1..Len(o) - (off + n) : q[i] = o[off + n + i]
  <2>1. \A i \in (off + n + 1)..Len(o) : o[i] \in T
    BY <1>1, <1>2
  <2>2. off + n + 1 \in Int /\ Len(o) \in Int
    BY <1>1
  <2>3. /\ q \in Seq(T)
        /\ Len(q) = IF off + n + 1 <= Len(o) THEN Len(o) - (off + n + 1) + 1 ELSE 0
        /\ \A i \in 1..Len(o) - (off + n + 1) + 1 : q[i] = o[(off + n + 1) + i - 1]
    BY <1>1, <2>1, <2>2, SubSeqProperties
  <2> HIDE DEF q
  <2>4. Len(q) = Len(o) - (off + n)
    BY <1>1, <2>3
  <2>5. \A i \in 1..Len(o) - (off + n) : q[i] = o[off + n + i]
    <3> TAKE i \in 1..Len(o) - (off + n)
    <3>1. i \in 1..Len(o) - (off + n + 1) + 1 /\ (off + n + 1) + i - 1 = off + n + i
      BY <1>1
    <3> QED BY <2>3, <3>1
  <2> QED BY <2>3, <2>4, <2>5
<1>5. p \in Seq(T) /\ Len(p) = Len(o) - off /\ \A i \in 1..Len(o) - off : p[i] = o[off + i]
  <2>1. \A i \in (off + 1)..Len(o) : o[i] \in T
    BY <1>1, <1>2
  <2>2. off + 1 \in Int /\ Len(o) \in Int
    BY <1>1
  <2>3. /\ p \in Seq(T)
        /\ Len(p) = IF off + 1 <= Len(o) THEN Len(o) - (off + 1) + 1 ELSE 0
        /\ \A i \in 1..Len(o) - (off + 1) + 1 : p[i] = o[(off + 1) + i - 1]
    BY <1>1, <2>1, <2>2, SubSeqProperties
  <2> HIDE DEF p
  <2>4. Len(p) = Len(o) - off
    BY <1>1, <2>3
  <2>5. \A i \in 1..Len(o) - off : p[i] = o[off + i]
    <3> TAKE i \in 1..Len(o) - off
    <3>1. i \in 1..Len(o) - (off + 1) + 1 /\ (off + 1) + i - 1 = off + i
      BY <1>1
    <3> QED BY <2>3, <3>1
  <2> QED BY <2>3, <2>4, <2>5
<1> HIDE DEF p, q, u
<1>6. p = u \o q
  <2>1. /\ u \o q \in Seq(T) /\ Len(u \o q) = Len(u) + Len(q)
        /\ \A i \in 1..Len(u) + Len(q) : (u \o q)[i] = IF i <= Len(u) THEN u[i] ELSE q[i - Len(u)]
    BY <1>3, <1>4, ConcatProperties
  <2>2. Len(u) + Len(q) = Len(o) - off
    BY <1>1, <1>3, <1>4
  <2>3. ASSUME NEW i \in 1..Len(o) - off PROVE p[i] = (u \o q)[i]
    <3>1. (u \o q)[i] = IF i <= n THEN u[i] ELSE q[i - n]
      BY <1>3, <2>1, <2>2
    <3>2. CASE i <= n
      <4>1. i \in 1..n
        BY <3>2
      <4> QED BY <1>3, <1>5, <3>1, <3>2, <4>1
    <3>3. CASE ~(i <= n)
      <4>1. i - n \in 1..Len(o) - (off + n) /\ off + n + (i - n) = off + i
        BY <1>1, <3>3
      <4> QED BY <1>4, <1>5, <3>1, <3>3, <4>1
    <3> QED BY <3>2, <3>3
  <2>4. Len(u \o q) = Len(p)
    BY <1>5, <2>1, <2>2
  <2> QED BY <1>5, <2>1, <2>3, <2>4, SeqEqual
<1>7. Names(p) = Names(u) \o Names(q)
  BY <1>0, <1>3, <1>4, <1>6, NamesConcat
<1>8. off + n = Len(o) => q = <<>>
  <2>1. ASSUME off + n = Len(o) PROVE q = <<>>
    <3>0. Len(o) - (off + n) = 0
      BY <1>1, <2>1
    <3>1. Len(q) = 0
      BY <1>4, <3>0
    <3> QED BY <1>4, <3>1
  <2> QED BY <2>1
<1> QED BY <1>3, <1>4, <1>7, <1>8 DEF p, q, u, T

PulledUnits(h, cap) ==
    LET p == pulled(h, cap)
    IN  [i \in 1..p.n |-> [m |-> p.units[i].m, queued |-> p.units[i].ep, as |-> p.ep]]

\* What pull takes from the queue, all of it in the clear or none.
LEMMA PulledDoes ==
    ASSUME NEW h, Typed(h), h.out_off <= Len(h.out), h.out_split <= Len(h.out), NEW cap \in Nat
    PROVE  LET p == pulled(h, cap)
           IN  /\ p.n \in Nat /\ h.out_off + p.n <= Len(h.out)
               /\ p.units = SubSeq(h.out, h.out_off + 1, h.out_off + p.n)
               /\ \/ h.out_off + p.n <= h.out_split /\ p.ep = INITIAL
                  \/ /\ h.out_split <= h.out_off
                     /\ p.ep = IF h.version = "12" THEN APP ELSE HANDSHAKE
<1> DEFINE clear == h.out_off < h.out_split
           avail == (IF clear THEN h.out_split ELSE Len(h.out)) - h.out_off
           n     == IF avail < cap THEN avail ELSE cap
           p     == pulled(h, cap)
<1>1. h.out_off \in Nat /\ h.out_split \in Nat /\ Len(h.out) \in Nat
  BY OutLength DEF Typed
<1>2. /\ p.n = n /\ p.units = SubSeq(h.out, h.out_off + 1, h.out_off + n)
      /\ p.ep = IF clear THEN INITIAL ELSE IF h.version = "12" THEN APP ELSE HANDSHAKE
  BY DEF pulled
<1> HIDE DEF p
<1>3. n \in Nat /\ h.out_off + n <= Len(h.out)
  BY <1>1
<1>4. CASE clear
  <2>1. h.out_off + n <= h.out_split
    BY <1>1, <1>4
  <2> HIDE DEF n
  <2> QED BY <1>2, <1>3, <1>4, <2>1 DEF p
<1>5. CASE ~clear
  <2>1. h.out_split <= h.out_off
    BY <1>1, <1>5
  <2> HIDE DEF n
  <2> QED BY <1>2, <1>3, <1>5, <2>1 DEF p
<1> QED BY <1>4, <1>5

LEMMA PullDoes ==
    ASSUME NEW h, NEW cap, Shape(h)
    PROVE  LET r == pull(h, cap)
               off == h.out_off + pulled(h, cap).n
           IN  /\ Shape(r) /\ Same(r, h, {"out", "out_off", "out_split"})
               /\ \/ off = Len(h.out) /\ r.out = <<>> /\ r.out_off = 0 /\ r.out_split = 0
                  \/ off # Len(h.out) /\ r.out = h.out /\ r.out_off = off /\ r.out_split = h.out_split
<1> DEFINE off == h.out_off + pulled(h, cap).n
           a == [h EXCEPT !.out = <<>>, !.out_off = 0, !.out_split = 0]
           b == [h EXCEPT !.out_off = off]
<1>1. pull(h, cap) = IF off = Len(h.out) THEN a ELSE b
  BY DEF pull
<1> HIDE DEF off
<1>2. Shape(a) /\ Shape(b)
  BY DEF Shape
<1>3. Same(a, h, {"out", "out_off", "out_split"}) /\ Same(b, h, {"out", "out_off", "out_split"})
  BY DEF Shape, Same
<1>4. /\ a.out = <<>> /\ a.out_off = 0 /\ a.out_split = 0
      /\ b.out = h.out /\ b.out_off = off /\ b.out_split = h.out_split
  BY DEF Shape, Fields
<1> HIDE DEF a, b
<1> QED BY <1>1, <1>2, <1>3, <1>4 DEF off

\* The TLS 1.2 engine sends under the APP keys, the TLS 1.3 one under the HANDSHAKE keys, and
\* both have them when they have something to send under them.
LEMMA LateHolds ==
    ASSUME NEW h, Heard(h), h.state \in Late
    PROVE  LET ep == IF h.version = "12" THEN APP ELSE HANDSHAKE
           IN  /\ Holds(h, ep, "send")
               /\ \A queued : queued # INITIAL => SentAs(h, queued) = ep
<1>1. /\ HandedInOrder(h) /\ h.exports \in Seq(Epochs \X {"recv", "send"} \X Nat)
      /\ KeysAt(h) /\ Unheard(h) /\ Flags(h)
  BY DEF Heard, Typed, KeysBoundToTranscript
<1>2. CASE h.version = "12"
  <2>1. Of(h.th, "CKE") # {}
    BY <1>1, <1>2 DEF Unheard
  <2>2. Len(h.exports) = 2
    BY <1>1, <1>2 DEF KeysAt, Late
  <2>3. 1 \in DOMAIN h.exports
    BY <1>1, <2>2
  <2>4. <<h.exports[1][1], h.exports[1][2], Kind(h.th[h.exports[1][3]])>> = <<APP, "send", "CKE">>
    <3>1. Handover(h.th)[1] = <<APP, "send", "CKE">>
      BY <2>1 DEF Handover
    <3> QED BY <1>1, <2>3, <3>1 DEF HandedInOrder
  <2>5. h.exports[1][1] = APP /\ h.exports[1][2] = "send"
    BY <2>4
  <2> QED BY <1>2, <2>1, <2>3, <2>5 DEF Holds, SentAs
<1>3. CASE h.version # "12"
  <2>1. h.state = "CONNECTED" /\ h.version = "13"
    BY <1>1, <1>3 DEF Flags, Late
  <2>2. Of(h.th, "CKE") = {}
    BY <1>1, <2>1 DEF Unheard
  <2>3. Len(h.exports) = 4
    BY <1>1, <2>1 DEF KeysAt
  <2>4. 2 \in DOMAIN h.exports
    BY <1>1, <2>3
  <2>5. <<h.exports[2][1], h.exports[2][2], Kind(h.th[h.exports[2][3]])>> = <<HANDSHAKE, "send", "SH">>
    <3>1. Handover(h.th)[2] = <<HANDSHAKE, "send", "SH">>
      BY <2>2 DEF Handover
    <3> QED BY <1>1, <2>4, <3>1 DEF HandedInOrder
  <2>6. h.exports[2][1] = HANDSHAKE /\ h.exports[2][2] = "send"
    BY <2>5
  <2> QED BY <1>3, <2>2, <2>4, <2>6 DEF Holds, SentAs
<1> QED BY <1>2, <1>3

\* Only the output queue is different.
LEMMA QueueOnly ==
    ASSUME NEW h, Heard(h), NEW r, Shape(r), Same(r, h, {"out", "out_off", "out_split"}),
           r.out_off \in Nat, r.out_split \in Nat, r.out \in Seq([m : OwnKinds, ep : Epochs]),
           h.state # "FAILED"
    PROVE  Heard(r) /\ (Partial(h) => Partial(r))
<1>2. /\ r.cfg = h.cfg /\ r.state = h.state /\ r.version = h.version /\ r.suite = h.suite
      /\ r.in_epoch = h.in_epoch /\ r.hrr_seen = h.hrr_seen /\ r.hrr_group = h.hrr_group
      /\ r.cookie = h.cookie /\ r.psk_suite = h.psk_suite /\ r.psk_ok = h.psk_ok
      /\ r.tls12_offered = h.tls12_offered /\ r.offer = h.offer
      /\ r.share_group = h.share_group /\ r.in_len = h.in_len /\ r.exports = h.exports
      /\ r.cr_seen = h.cr_seen /\ r.secrets = h.secrets /\ r.buf = h.buf
      /\ r.in_base = h.in_base /\ r.n_certs = h.n_certs /\ r.alpn_sel = h.alpn_sel /\ r.th = h.th
  BY DEF Same, Fields
<1>3. Typed(r)
  BY <1>2 DEF Heard, Typed
<1>4. Script(r) /\ Flags(r) /\ Offered(r) /\ Retried(r)
  <2>1. Script(r)
    BY <1>2 DEF Heard, Script, Greeting, Met, Proof13
  <2>2. Flags(r)
    BY <1>2 DEF Heard, Flags
  <2>3. Offered(r)
    BY <1>2 DEF Heard, Offered
  <2>4. Retried(r)
    BY <1>2 DEF Heard, Retried
  <2> QED BY <2>1, <2>2, <2>3, <2>4
<1>5. Unheard(r) /\ Chosen(r)
  BY <1>2 DEF Heard, Unheard, Chosen
<1>6. KeysAt(r) /\ SecretsAt(r) /\ Certs(r)
  BY <1>2 DEF Heard, KeysAt, SecretsAt, Certs
<1>7. KeysBoundToTranscript(r)
  <2>1. HandedInOrder(r)
    BY <1>2, OrderSame DEF Heard, KeysBoundToTranscript
  <2> QED BY <1>2, <2>1 DEF Heard, KeysBoundToTranscript, Holds
<1>8. r.state \in Late => Sound(r)
  BY <1>2, SoundSame DEF Heard
<1>11. Partial(h) => Partial(r)
  BY <1>2 DEF Partial, Begun
<1> QED BY <1>3, <1>4, <1>5, <1>6, <1>7, <1>8, <1>11 DEF Heard

\* pull moves units from the queue to what has left, under keys that their owner has.
LEMMA PullKeeps ==
    ASSUME NEW h, NEW s, Ready(h, s), Partial(h), h.state # "FAILED", NEW cap \in Nat
    PROVE  /\ Ready(pull(h, cap), s \o PulledUnits(h, cap))
           /\ Partial(pull(h, cap))
<1> DEFINE r   == pull(h, cap)
           p   == pulled(h, cap)
           n   == p.n
           off == h.out_off
           new == PulledUnits(h, cap)
           T   == [m : OwnKinds, ep : Epochs]
           U   == [m : OwnKinds, queued : Epochs, as : Epochs]
           u   == SubSeq(h.out, off + 1, off + n)
           q   == SubSeq(h.out, off + n + 1, Len(h.out))
<1>1. /\ Heard(h) /\ Typed(h) /\ Shape(h) /\ s \in Seq(U) /\ InLine(h, s) /\ SentRight(h, s)
      /\ h.out \in Seq(T) /\ Len(h.out) \in Nat /\ off \in Nat /\ h.out_split \in Nat
      /\ off <= Len(h.out) /\ h.out_split <= Len(h.out)
      /\ h.out_split < Len(h.out) => h.state \in Late
  <2>1. Heard(h) /\ Typed(h) /\ Shape(h)
    BY DEF Ready, Heard, Typed
  <2>2. InLine(h, s) /\ SentRight(h, s) /\ s \in Seq(U) /\ (h.out_split < Len(h.out) => h.state \in Late)
    BY DEF Ready, Queued, SentType
  <2> QED BY <2>1, <2>2, OutLength DEF Typed, InLine
<1>2. /\ n \in Nat /\ off + n <= Len(h.out) /\ p.units = u
      /\ \/ off + n <= h.out_split /\ p.ep = INITIAL
         \/ h.out_split <= off /\ p.ep = IF h.version = "12" THEN APP ELSE HANDSHAKE
  <2> HIDE DEF p
  <2>1. /\ p.n \in Nat /\ off + p.n <= Len(h.out)
        /\ p.units = SubSeq(h.out, off + 1, off + p.n)
        /\ \/ off + p.n <= h.out_split /\ p.ep = INITIAL
           \/ h.out_split <= off /\ p.ep = IF h.version = "12" THEN APP ELSE HANDSHAKE
    BY <1>1, PulledDoes DEF p
  <2> QED BY <2>1
<1>3. /\ Shape(r) /\ Same(r, h, {"out", "out_off", "out_split"})
      /\ \/ off + n = Len(h.out) /\ r.out = <<>> /\ r.out_off = 0 /\ r.out_split = 0
         \/ off + n # Len(h.out) /\ r.out = h.out /\ r.out_off = off + n /\ r.out_split = h.out_split
  BY <1>1, PullDoes
<1>4. new = [i \in 1..n |-> [m |-> u[i].m, queued |-> u[i].ep, as |-> p.ep]]
  BY <1>2 DEF PulledUnits
<1> HIDE DEF p, n, r, new
<1>5. /\ u \in Seq(T) /\ Len(u) = n
      /\ \A i \in 1..n : u[i] = h.out[off + i]
      /\ q \in Seq(T)
      /\ off + n = Len(h.out) => q = <<>>
      /\ Names(Pending(h)) = Names(u) \o Names(q)
  BY <1>1, <1>2, PendingSplits, ZenonT(60) DEF Pending
<1> HIDE DEF u
<1>6. \A i \in 1..n : /\ off + i \in 1..Len(h.out) /\ h.out[off + i] \in T
                      /\ new[i].m = u[i].m /\ new[i].queued = h.out[off + i].ep /\ new[i].as = p.ep
                      /\ u[i].m \in OwnKinds /\ h.out[off + i].ep \in Epochs
  <2> TAKE i \in 1..n
  <2>1. off + i \in 1..Len(h.out)
    BY <1>1, <1>2, SMTT(30)
  <2>2. h.out[off + i] \in T
    <3> HIDE DEF T
    <3> QED BY <1>1, <2>1
  <2>3. /\ new[i].m = u[i].m /\ new[i].queued = u[i].ep /\ new[i].as = p.ep
        /\ u[i] = h.out[off + i]
    BY <1>4, <1>5
  <2>4. h.out[off + i].m \in OwnKinds /\ h.out[off + i].ep \in Epochs
    BY <2>2
  <2> QED BY <2>1, <2>2, <2>3, <2>4
<1>7. p.ep \in Epochs
  BY <1>2 DEF Epochs
<1>8. new \in Seq(U) /\ Len(new) = n /\ DOMAIN new = 1..n
  <2>1. \A i \in 1..n : [m |-> u[i].m, queued |-> u[i].ep, as |-> p.ep] \in U
    <3> TAKE i \in 1..n
    <3>1. u[i].m \in OwnKinds /\ u[i].ep \in Epochs
      BY <1>5, <1>6
    <3> QED BY <1>7, <3>1
  <2> HIDE DEF U
  <2>2. new \in [1..n -> U]
    BY <1>4, <2>1
  <2> QED BY <1>2, <2>2
<1>9. Names(new) = Names(u)
  <2>1. DOMAIN u = 1..n
    BY <1>2, <1>5
  <2>2. \A i \in 1..n : new[i].m = u[i].m
    BY <1>6
  <2> QED BY <1>2, <1>8, <2>1, <2>2, NamesSame
<1>10. Names(s \o new) = Names(s) \o Names(new)
  <2>1. \A x \in U : x.m \in OwnKinds
    OBVIOUS
  <2> HIDE DEF U
  <2> QED BY <1>1, <1>8, <2>1, NamesConcat
<1>11. Pending(r) = q
  <2>1. CASE off + n = Len(h.out)
    <3>1. Pending(r) = SubSeq(<<>>, 1, 0)
      BY <1>3, <2>1 DEF Pending
    <3>2. SubSeq(<<>>, 1, 0) = <<>>
      OBVIOUS
    <3> QED BY <1>5, <2>1, <3>1, <3>2
  <2>2. CASE off + n # Len(h.out)
    BY <1>3, <2>2 DEF Pending
  <2> QED BY <2>1, <2>2
<1>12. /\ r.th = h.th /\ r.exports = h.exports /\ r.state = h.state /\ r.version = h.version
  BY <1>3 DEF Same, Fields
<1>13. /\ r.out \in Seq(T) /\ Len(r.out) \in Nat /\ r.out_off \in Nat /\ r.out_split \in Nat
       /\ r.out_off <= Len(r.out) /\ r.out_split <= Len(r.out)
       /\ \A j \in 1..Len(r.out) : (r.out[j].ep = INITIAL) <=> (j <= r.out_split)
       /\ r.out_split < Len(r.out) => r.state \in Late
  <2>1. \A j \in 1..Len(h.out) : (h.out[j].ep = INITIAL) <=> (j <= h.out_split)
    BY <1>1 DEF InLine
  <2>2. CASE off + n = Len(h.out)
    <3>1. r.out = <<>> /\ r.out_off = 0 /\ r.out_split = 0
      BY <1>3, <2>2
    <3>2. <<>> \in Seq(T) /\ Len(<<>>) = 0
      OBVIOUS
    <3> HIDE DEF T
    <3> QED BY <3>1, <3>2
  <2>3. CASE off + n # Len(h.out)
    <3>1. r.out = h.out /\ r.out_off = off + n /\ r.out_split = h.out_split
      BY <1>3, <2>3
    <3> HIDE DEF T
    <3> QED BY <1>1, <1>2, <1>12, <2>1, <3>1
  <2> QED BY <2>2, <2>3
<1> HIDE DEF q
<1>14. Names(s \o new) \o Names(Pending(r)) = OwnUnits(r.th)
  <2> DEFINE a == Names(s)
             b == Names(u)
             c == Names(q)
  <2>1. a \in Seq(OwnKinds) /\ b \in Seq(OwnKinds) /\ c \in Seq(OwnKinds)
    <3>0. (\A x \in T : x.m \in OwnKinds) /\ (\A x \in U : x.m \in OwnKinds)
      OBVIOUS
    <3> HIDE DEF T, U
    <3>1. Len(s) \in Nat /\ DOMAIN s = 1..Len(s) /\ \A i \in 1..Len(s) : s[i].m \in OwnKinds
      <4>1. \A i \in 1..Len(s) : s[i] \in U
        BY <1>1
      <4> QED BY <1>1, <3>0, <4>1
    <3>2. Len(u) \in Nat /\ DOMAIN u = 1..Len(u) /\ \A i \in 1..Len(u) : u[i].m \in OwnKinds
      <4>1. \A i \in 1..Len(u) : u[i] \in T
        BY <1>5
      <4> QED BY <1>5, <3>0, <4>1
    <3>3. Len(q) \in Nat /\ DOMAIN q = 1..Len(q) /\ \A i \in 1..Len(q) : q[i].m \in OwnKinds
      <4>1. \A i \in 1..Len(q) : q[i] \in T
        BY <1>5
      <4> QED BY <1>5, <3>0, <4>1
    <3> QED BY <3>1, <3>2, <3>3, NamesDoes
  <2>2. Names(s \o new) = a \o b /\ Names(Pending(r)) = c
    BY <1>9, <1>10, <1>11
  <2>3. a \o (b \o c) = OwnUnits(h.th)
    BY <1>1, <1>5 DEF InLine
  <2> HIDE DEF a, b, c
  <2>4. (a \o b) \o c = a \o (b \o c)
    BY <2>1, ConcatAssociative
  <2> QED BY <1>12, <2>2, <2>3, <2>4
<1>15. InLine(r, s \o new)
  BY <1>13, <1>14 DEF InLine
<1>16. SentRight(r, s)
  BY <1>1, <1>12, SentSame
<1>17. \A i \in 1..n : /\ new[i].as = SentAs(r, new[i].queued)
                       /\ new[i].queued # INITIAL => r.state \in Late \cup {"FAILED"} /\ Holds(r, new[i].as, "send")
  <2> TAKE i \in 1..n
  <2>0. new[i].as = p.ep /\ new[i].queued = h.out[off + i].ep /\ off + i \in 1..Len(h.out)
    BY <1>6
  <2>1. (h.out[off + i].ep = INITIAL) <=> (off + i <= h.out_split)
    BY <1>1, <2>0 DEF InLine
  <2>2. CASE off + n <= h.out_split /\ p.ep = INITIAL
    <3>1. off + i <= h.out_split
      BY <1>1, <1>2, <2>2
    <3>2. new[i].queued = INITIAL /\ new[i].as = INITIAL
      BY <2>0, <2>1, <2>2, <3>1
    <3> QED BY <3>2 DEF SentAs
  <2>3. CASE h.out_split <= off /\ p.ep = IF h.version = "12" THEN APP ELSE HANDSHAKE
    <3>1. ~(off + i <= h.out_split) /\ h.out_split < Len(h.out)
      BY <1>1, <2>0, <2>3
    <3>2. new[i].queued # INITIAL /\ h.state \in Late
      BY <1>1, <2>0, <2>1, <3>1
    <3>3. Holds(h, p.ep, "send") /\ SentAs(h, new[i].queued) = p.ep
      BY <1>1, <2>3, <3>2, LateHolds
    <3>4. Holds(r, p.ep, "send") /\ SentAs(r, new[i].queued) = p.ep
      BY <1>12, <3>3 DEF Holds, SentAs
    <3> QED BY <1>12, <2>0, <3>2, <3>4
  <2> QED BY <1>2, <2>2, <2>3
<1>18. /\ s \o new \in Seq(U) /\ Len(s \o new) = Len(s) + n
       /\ \A j \in 1..Len(s) + n : (s \o new)[j] = IF j <= Len(s) THEN s[j] ELSE new[j - Len(s)]
       /\ Len(s) \in Nat
  <2> HIDE DEF U
  <2>1. /\ s \o new \in Seq(U) /\ Len(s \o new) = Len(s) + Len(new)
        /\ \A j \in 1..Len(s) + Len(new) : (s \o new)[j] = IF j <= Len(s) THEN s[j] ELSE new[j - Len(s)]
    BY <1>1, <1>8, ConcatProperties, ZenonT(60)
  <2> QED BY <1>1, <1>8, <2>1
<1>19. SentRight(r, s \o new)
  <2> DEFINE t == s \o new
  <2> HIDE DEF t
  <2>1. ASSUME NEW j \in 1..Len(s) + n
        PROVE  /\ t[j].as = SentAs(r, t[j].queued)
               /\ t[j].queued # INITIAL => r.state \in Late \cup {"FAILED"} /\ Holds(r, t[j].as, "send")
    <3>1. CASE j <= Len(s)
      <4>1. j \in 1..Len(s) /\ t[j] = s[j]
        BY <1>18, <3>1 DEF t
      <4> QED BY <1>16, <4>1 DEF SentRight
    <3>2. CASE ~(j <= Len(s))
      <4>1. j - Len(s) \in 1..n
        BY <1>2, <1>18, <3>2
      <4>2. t[j] = new[j - Len(s)]
        BY <1>18, <3>2 DEF t
      <4> QED BY <1>17, <4>1, <4>2
    <3> QED BY <3>1, <3>2
  <2>2. Len(t) = Len(s) + n
    BY <1>18 DEF t
  <2>3. SentRight(r, t)
    BY <2>1, <2>2 DEF SentRight
  <2> QED BY <2>3 DEF t
<1>20. Heard(r) /\ Partial(r)
  BY <1>1, <1>3, <1>13, QueueOnly
<1>21. Ready(r, s \o new)
  BY <1>13, <1>15, <1>18, <1>19, <1>20 DEF Ready, Queued, SentType
<1> QED BY <1>20, <1>21 DEF r, new

-----------------------------------------------------------------------------
(* Reassembly *)

Cells == [m : Messages, k : Nat, ep : Epochs]

\* Only the buffer is different, and the certificates are still in it.
LEMMA BufferOnly ==
    ASSUME NEW h, NEW s, Ready(h, s), NEW r, Shape(r), Same(r, h, {"buf", "in_len"}),
           r.buf \in Seq(Cells), r.in_len \in Nat, Certs(r)
    PROVE  Ready(r, s)
<1>1. Heard(h) /\ Typed(h)
  BY DEF Ready, Heard
<1>2. /\ r.cfg = h.cfg /\ r.state = h.state /\ r.version = h.version /\ r.suite = h.suite
      /\ r.in_epoch = h.in_epoch /\ r.hrr_seen = h.hrr_seen /\ r.hrr_group = h.hrr_group
      /\ r.cookie = h.cookie /\ r.psk_suite = h.psk_suite /\ r.psk_ok = h.psk_ok
      /\ r.tls12_offered = h.tls12_offered /\ r.offer = h.offer
      /\ r.share_group = h.share_group /\ r.out = h.out
      /\ r.out_off = h.out_off /\ r.out_split = h.out_split /\ r.exports = h.exports
      /\ r.cr_seen = h.cr_seen /\ r.secrets = h.secrets
      /\ r.in_base = h.in_base /\ r.n_certs = h.n_certs /\ r.alpn_sel = h.alpn_sel /\ r.th = h.th
  BY DEF Same, Fields
<1>3. Typed(r)
  BY <1>1, <1>2 DEF Typed, Cells
<1>4. Script(r) /\ Flags(r) /\ Offered(r) /\ Retried(r)
  <2>1. Script(r)
    BY <1>1, <1>2 DEF Heard, Script, Greeting, Met, Proof13
  <2>2. Flags(r)
    BY <1>1, <1>2 DEF Heard, Flags
  <2>3. Offered(r)
    BY <1>1, <1>2 DEF Heard, Offered
  <2>4. Retried(r)
    BY <1>1, <1>2 DEF Heard, Retried
  <2> QED BY <2>1, <2>2, <2>3, <2>4
<1>5. Unheard(r) /\ Chosen(r)
  BY <1>1, <1>2 DEF Heard, Unheard, Chosen
<1>6. KeysAt(r) /\ SecretsAt(r)
  BY <1>1, <1>2 DEF Heard, KeysAt, SecretsAt
<1>7. KeysBoundToTranscript(r)
  <2>1. HandedInOrder(r)
    BY <1>1, <1>2, OrderSame DEF Heard, KeysBoundToTranscript
  <2> QED BY <1>1, <1>2, <2>1 DEF Heard, KeysBoundToTranscript, Holds
<1>8. r.state \in Late => Sound(r)
  BY <1>1, <1>2, SoundSame DEF Heard
<1>9. Queued(r, s)
  BY <1>2 DEF Ready, Queued, InLine, Pending
<1>10. SentRight(r, s)
  BY <1>2, SentSame DEF Ready
<1> QED BY <1>3, <1>4, <1>5, <1>6, <1>7, <1>8, <1>9, <1>10 DEF Heard, Ready

Stored(h, ep, m, k) ==
    [h EXCEPT !.buf = Append(SubSeq(@, 1, h.in_base + h.in_len), [m |-> m, k |-> k, ep |-> ep]),
              !.in_len = @ + 1]
Kept(h) == [h EXCEPT !.buf = IF h.n_certs = 0 /\ h.in_base = 0 THEN <<>> ELSE @]

LEMMA StoredDoes ==
    ASSUME NEW h, Shape(h), NEW ep, NEW m, NEW k
    PROVE  LET r == Stored(h, ep, m, k)
               x == [r EXCEPT !.in_len = 0]
           IN  /\ Shape(r) /\ Same(r, h, {"buf", "in_len"}) /\ r.in_len = h.in_len + 1
               /\ r.buf = Append(SubSeq(h.buf, 1, h.in_base + h.in_len), [m |-> m, k |-> k, ep |-> ep])
               /\ Shape(x) /\ Same(x, h, {"buf", "in_len"}) /\ x.in_len = 0 /\ x.buf = r.buf
<1> DEFINE r == Stored(h, ep, m, k)
           x == [r EXCEPT !.in_len = 0]
<1>1. Shape(r)
  BY DEF Shape, Stored
<1>2. Same(r, h, {"buf", "in_len"})
  BY DEF Shape, Same, Stored
<1>3. /\ r.in_len = h.in_len + 1
      /\ r.buf = Append(SubSeq(h.buf, 1, h.in_base + h.in_len), [m |-> m, k |-> k, ep |-> ep])
  BY DEF Shape, Fields, Stored
<1> HIDE DEF r
<1>4. Shape(x)
  BY <1>1 DEF Shape
<1>5. Same(x, r, {"in_len"})
  BY <1>1 DEF Shape, Same
<1>6. x.in_len = 0 /\ x.buf = r.buf
  BY <1>1 DEF Shape, Fields
<1> HIDE DEF x
<1>7. Same(x, h, {"buf", "in_len"})
  BY <1>2, <1>5 DEF Same
<1> QED BY <1>1, <1>2, <1>3, <1>4, <1>6, <1>7 DEF x, r

LEMMA KeptDoes ==
    ASSUME NEW h, Shape(h)
    PROVE  LET r == Kept(h)
           IN  /\ Shape(r) /\ Same(r, h, {"buf"})
               /\ r.buf = IF h.n_certs = 0 /\ h.in_base = 0 THEN <<>> ELSE h.buf
<1>1. Shape(Kept(h))
  BY DEF Shape, Kept
<1>2. Same(Kept(h), h, {"buf"})
  BY DEF Shape, Same, Kept
<1>3. Kept(h).buf = IF h.n_certs = 0 /\ h.in_base = 0 THEN <<>> ELSE h.buf
  BY DEF Shape, Fields, Kept
<1> QED BY <1>1, <1>2, <1>3

\* A buffer of which the first n cells stay and to which one is added.
LEMMA BufferGrows ==
    ASSUME NEW b \in Seq(Cells), NEW n \in Nat, n <= Len(b), NEW c \in Cells
    PROVE  LET r == Append(SubSeq(b, 1, n), c)
           IN  /\ r \in Seq(Cells) /\ Len(r) = n + 1 /\ r[n + 1] = c
               /\ \A i \in 1..n : r[i] = b[i]
<1> DEFINE u == SubSeq(b, 1, n)
<1>1. u \in Seq(Cells) /\ Len(u) = n /\ \A i \in 1..n : u[i] = b[i]
  <2>1. Len(b) \in Nat /\ \A i \in 1..n : b[i] \in Cells
    OBVIOUS
  <2>2. /\ u \in Seq(Cells)
        /\ Len(u) = IF 1 <= n THEN n - 1 + 1 ELSE 0
        /\ \A i \in 1..n - 1 + 1 : u[i] = b[1 + i - 1]
    BY <2>1, SubSeqProperties
  <2> HIDE DEF u
  <2>3. Len(u) = n
    BY <2>2
  <2>4. \A i \in 1..n : u[i] = b[i]
    <3> TAKE i \in 1..n
    <3>1. i \in 1..n - 1 + 1 /\ 1 + i - 1 = i
      OBVIOUS
    <3> QED BY <2>2, <3>1
  <2> QED BY <2>2, <2>3, <2>4
<1> HIDE DEF u
<1>2. /\ Append(u, c) \in Seq(Cells) /\ Len(Append(u, c)) = n + 1 /\ Append(u, c)[n + 1] = c
      /\ \A i \in 1..n : Append(u, c)[i] = u[i]
  BY <1>1
<1> QED BY <1>1, <1>2 DEF u

\* The next unit of a call continues what the buffer holds.
Continues(h, m, k) ==
    m \in Messages /\ k = h.in_len + 1 /\ k <= m.sz /\ Begun(h, m, h.in_len)

LEMMA StoredKeeps ==
    ASSUME NEW h, NEW s, Ready(h, s), h.state # "FAILED", NEW m, NEW k, Continues(h, m, k)
    PROVE  LET r == Stored(h, h.in_epoch, m, k)
               x == [r EXCEPT !.in_len = 0]
           IN  /\ Ready(r, s) /\ r.state = h.state /\ r.in_len = k /\ r.in_epoch = h.in_epoch
               /\ Begun(r, m, k)
               /\ Ready(x, s) /\ x.in_len = 0 /\ Begun(x, m, k)
<1> DEFINE r == Stored(h, h.in_epoch, m, k)
           x == [r EXCEPT !.in_len = 0]
           n == h.in_base + h.in_len
           c == [m |-> m, k |-> k, ep |-> h.in_epoch]
<1>1. /\ Typed(h) /\ Shape(h) /\ Certs(h) /\ h.buf \in Seq(Cells) /\ Len(h.buf) \in Nat
      /\ h.in_base \in Nat /\ h.in_len \in Nat /\ h.in_epoch \in Epochs
  <2>1. Typed(h) /\ Certs(h)
    BY DEF Ready, Heard
  <2>2. h.buf \in Seq(Cells) /\ h.in_base \in Nat /\ h.in_len \in Nat /\ h.in_epoch \in Epochs /\ Shape(h)
    BY <2>1 DEF Typed, Cells
  <2> QED BY <2>1, <2>2
<1>2. m \in Messages /\ k = h.in_len + 1 /\ n \in Nat /\ n <= Len(h.buf) /\ k \in Nat
      /\ \A i \in 1..h.in_len : h.buf[h.in_base + i] = [m |-> m, k |-> i, ep |-> h.in_epoch]
  BY <1>1 DEF Continues, Begun
<1>3. /\ Shape(r) /\ Same(r, h, {"buf", "in_len"}) /\ r.in_len = h.in_len + 1
      /\ r.buf = Append(SubSeq(h.buf, 1, n), c)
      /\ Shape(x) /\ Same(x, h, {"buf", "in_len"}) /\ x.in_len = 0 /\ x.buf = r.buf
  BY <1>1, StoredDoes, SMTT(30)
<1> HIDE DEF r, x
<1>4. c \in Cells
  BY <1>1, <1>2 DEF Cells
<1> DEFINE b == r.buf
<1>5. b \in Seq(Cells) /\ Len(b) = n + 1 /\ b[n + 1] = c /\ \A i \in 1..n : b[i] = h.buf[i]
  <2> HIDE DEF c, n
  <2>1. LET y == Append(SubSeq(h.buf, 1, n), c)
        IN  y \in Seq(Cells) /\ Len(y) = n + 1 /\ y[n + 1] = c /\ \A i \in 1..n : y[i] = h.buf[i]
    BY <1>1, <1>2, <1>4, BufferGrows
  <2> QED BY <1>3, <2>1
<1> HIDE DEF b
<1>6. \A i \in 1..k : b[h.in_base + i] = [m |-> m, k |-> i, ep |-> h.in_epoch]
  <2> TAKE i \in 1..k
  <2>1. CASE i <= h.in_len
    <3>1. i \in 1..h.in_len /\ h.in_base + i \in 1..n
      BY <1>1, <2>1
    <3> QED BY <1>2, <1>5, <3>1
  <2>2. CASE ~(i <= h.in_len)
    <3>1. i = k /\ h.in_base + i = n + 1
      BY <1>1, <1>2, <2>2
    <3> QED BY <1>5, <3>1
  <2> QED BY <2>1, <2>2
<1>7. h.in_base + k <= Len(b)
  BY <1>1, <1>2, <1>5
<1>8. ASSUME NEW y, y.buf = b, Same(y, h, {"buf", "in_len"}), Shape(y), y.in_len \in Nat
      PROVE  Ready(y, s) /\ Begun(y, m, k) /\ y.state = h.state /\ y.in_epoch = h.in_epoch
  <2>1. /\ y.in_base = h.in_base /\ y.in_epoch = h.in_epoch /\ y.state = h.state
        /\ y.n_certs = h.n_certs /\ y.th = h.th
    BY <1>8 DEF Same, Fields
  <2>2. Begun(y, m, k)
    BY <1>6, <1>7, <1>8, <2>1 DEF Begun
  <2>3. Certs(y)
    <3>1. h.in_base <= Len(b) /\ \A i \in 1..h.in_base : b[i] = h.buf[i]
      <4>1. \A i \in 1..h.in_base : i \in 1..n
        BY <1>1, <1>2
      <4> QED BY <1>1, <1>5, <4>1
    <3>2. h.n_certs # 0 =>
              \A i \in 1..h.in_base : h.buf[i].m = The(h.th, "CERT") /\ h.buf[i].k = i
      BY <1>1 DEF Certs
    <3>3. h.n_certs # 0 =>
              \A i \in 1..h.in_base : y.buf[i].m = The(h.th, "CERT") /\ y.buf[i].k = i
      BY <1>8, <3>1, <3>2
    <3> QED BY <1>1, <1>8, <2>1, <3>1, <3>3 DEF Certs
  <2>4. Ready(y, s)
    BY <1>5, <1>8, <2>3, BufferOnly
  <2> QED BY <2>1, <2>2, <2>4
<1>9. Ready(r, s) /\ Begun(r, m, k) /\ r.state = h.state /\ r.in_epoch = h.in_epoch
  <2>1. r.in_len \in Nat
    BY <1>1, <1>3
  <2> QED BY <1>3, <1>8, <2>1 DEF b
<1>10. Ready(x, s) /\ Begun(x, m, k)
  <2>1. x.in_len \in Nat
    BY <1>3
  <2> QED BY <1>3, <1>8, <2>1 DEF b
<1> QED BY <1>2, <1>3, <1>9, <1>10 DEF r, x

LEMMA KeptKeeps ==
    ASSUME NEW h, NEW s, Ready(h, s)
    PROVE  LET r == Kept(h)
           IN  /\ Ready(r, s) /\ r.state = h.state /\ r.in_len = h.in_len
               /\ r.in_epoch = h.in_epoch
<1> DEFINE r == Kept(h)
<1>1. /\ Typed(h) /\ Shape(h) /\ Certs(h) /\ h.buf \in Seq(Cells) /\ h.in_len \in Nat /\ h.in_base \in Nat
  BY DEF Ready, Heard, Typed, Cells
<1>2. /\ Shape(r) /\ Same(r, h, {"buf"})
      /\ r.buf = IF h.n_certs = 0 /\ h.in_base = 0 THEN <<>> ELSE h.buf
  BY <1>1, KeptDoes
<1> HIDE DEF r
<1>3. /\ r.in_base = h.in_base /\ r.in_epoch = h.in_epoch /\ r.state = h.state
      /\ r.n_certs = h.n_certs /\ r.th = h.th /\ r.in_len = h.in_len
  BY <1>2 DEF Same, Fields
<1>4. Same(r, h, {"buf", "in_len"})
  BY <1>2 DEF Same
<1>5. <<>> \in Seq(Cells) /\ Len(<<>>) = 0
  OBVIOUS
<1>6. r.buf \in Seq(Cells)
  BY <1>1, <1>2, <1>5
<1>7. Certs(r)
  BY <1>1, <1>2, <1>3, <1>5 DEF Certs
<1> QED BY <1>1, <1>2, <1>3, <1>4, <1>6, <1>7, BufferOnly DEF r


\* After its last unit a message is dispatched, and another may start.
LEMMA TakeKeeps ==
    ASSUME NEW h, NEW s, Ready(h, s), h.state # "FAILED", NEW m, NEW k, Continues(h, m, k),
           NEW more \in BOOLEAN, NEW env \in [Callbacks -> BOOLEAN]
    PROVE  LET r == take(h, h.in_epoch, m, k, more, env)
           IN  /\ Ready(r, s) /\ Partial(r)
               /\ r.state # "FAILED" /\ more => r.in_epoch = h.in_epoch
               /\ r.state # "FAILED" /\ k < m.sz => r.in_len = k /\ Begun(r, m, k)
               /\ r.state # "FAILED" /\ k >= m.sz => r.in_len = 0
<1> DEFINE ep     == h.in_epoch
           stored == Stored(h, ep, m, k)
           x      == [stored EXCEPT !.in_len = 0]
           done   == dispatch(x, m, env)
           kept   == Kept(done)
           r      == take(h, ep, m, k, more, env)
<1>1. r = IF k = 1 /\ (m.sz > MAX_MSG \/ m.sz > IN_CAP - h.in_base)
          THEN fail(stored, "illegal_parameter")
          ELSE IF k < m.sz THEN stored
          ELSE IF kept.state # "FAILED" /\ more /\ crosses(kept, ep, m) THEN boundary(kept, ep)
          ELSE kept
  BY DEF take, Stored, Kept
<1>2. /\ Ready(stored, s) /\ stored.state = h.state /\ stored.in_len = k
      /\ stored.in_epoch = ep /\ Begun(stored, m, k)
      /\ Ready(x, s) /\ x.in_len = 0 /\ Begun(x, m, k)
  BY StoredKeeps
<1>3. m \in Messages /\ m.sz \in Nat /\ k \in Nat /\ k <= m.sz /\ k # 0
  <2>1. h.in_len \in Nat
    BY DEF Ready, Heard, Typed
  <2> QED BY <2>1, HandshakeAssumption DEF Continues
<1> HIDE DEF x, stored, done, kept, r
<1>4. ASSUME NEW g, Ready(g, s), NEW alert
      PROVE  /\ Ready(fail(g, alert), s) /\ Partial(fail(g, alert)) /\ fail(g, alert).state = "FAILED"
  <2>1. fail(g, alert).state = "FAILED"
    <3>1. Shape(g)
      BY <1>4 DEF Ready, Heard, Typed
    <3> QED BY <3>1, FailDoes DEF Fallen
  <2>2. Ready(fail(g, alert), s)
    BY <1>4, FailHandled DEF Handled
  <2> QED BY <2>1, <2>2 DEF Partial
<1>5. CASE k = 1 /\ (m.sz > MAX_MSG \/ m.sz > IN_CAP - h.in_base)
  <2>1. r = fail(stored, "illegal_parameter")
    BY <1>1, <1>5
  <2>2. Ready(r, s) /\ Partial(r) /\ r.state = "FAILED"
    BY <1>2, <1>4, <2>1
  <2> QED BY <2>2 DEF r
<1>6. CASE ~(k = 1 /\ (m.sz > MAX_MSG \/ m.sz > IN_CAP - h.in_base)) /\ k < m.sz
  <2>1. r = stored
    BY <1>1, <1>6
  <2>2. Partial(r)
    BY <1>2, <1>3, <1>6, <2>1 DEF Partial
  <2>3. ~(k >= m.sz)
    BY <1>3, <1>6
  <2> QED BY <1>2, <1>6, <2>1, <2>2, <2>3 DEF r
<1>7. CASE ~(k = 1 /\ (m.sz > MAX_MSG \/ m.sz > IN_CAP - h.in_base)) /\ ~(k < m.sz)
  <2>1. k = m.sz
    BY <1>3, <1>7
  <2>2. Begun(x, m, m.sz)
    BY <1>2, <2>1
  <2>3. Ready(done, s) /\ done.in_len = 0
    <3>1. Handled(done, x, s)
      BY <1>2, <1>3, <2>2, DispatchKeeps DEF done
    <3> QED BY <1>2, <3>1 DEF Handled
  <2>4. Ready(kept, s) /\ kept.in_len = 0
    BY <2>3, KeptKeeps DEF kept
  <2>5. CASE kept.state # "FAILED" /\ more /\ crosses(kept, ep, m)
    <3>1. r = boundary(kept, ep)
      BY <1>1, <1>7, <2>5
    <3>2. Ready(r, s) /\ Partial(r) /\ r.state = "FAILED"
      BY <1>4, <2>4, <3>1 DEF boundary
    <3> QED BY <3>2 DEF r
  <2>6. CASE ~(kept.state # "FAILED" /\ more /\ crosses(kept, ep, m))
    <3>1. r = kept
      BY <1>1, <1>7, <2>6
    <3>2. Partial(r)
      BY <2>4, <3>1 DEF Partial
    <3>3. r.state # "FAILED" /\ more => r.in_epoch = ep
      BY <2>6, <3>1 DEF crosses
    <3> QED BY <1>7, <2>4, <3>1, <3>2, <3>3 DEF r
  <2> QED BY <2>5, <2>6
<1> QED BY <1>5, <1>6, <1>7

\* f is the engine after each of the first n units.
Turns(f, h, ep, units, env, n) ==
    f = [i \in 0..n |-> IF i = 0 THEN h ELSE hs_turn(f[i - 1], ep, units, i, env)]

LEMMA TurnsStep ==
    ASSUME NEW f, NEW h, NEW ep, NEW units, NEW env, NEW n \in Nat, Turns(f, h, ep, units, env, n)
    PROVE  /\ f[0] = h
           /\ \A i \in 1..n : f[i] = hs_turn(f[i - 1], ep, units, i, env)
<1>1. \A i \in 0..n : f[i] = IF i = 0 THEN h ELSE hs_turn(f[i - 1], ep, units, i, env)
  BY DEF Turns
<1>2. 0 \in 0..n /\ \A i \in 1..n : i \in 0..n /\ i # 0
  OBVIOUS
<1> QED BY <1>1, <1>2

LEMMA TurnsExist ==
    ASSUME NEW h, NEW ep, NEW units, NEW env, NEW n \in Nat
    PROVE  \E f : Turns(f, h, ep, units, env, n)
<1> DEFINE Bad == {k \in Nat : ~\E f : Turns(f, h, ep, units, env, k)}
<1>1. Bad = {}
  <2> SUFFICES ASSUME Bad # {} PROVE FALSE
    OBVIOUS
  <2>0. Bad \in SUBSET Nat
    OBVIOUS
  <2>1. PICK k \in Bad : \A j \in Bad : k <= j
    <3> HIDE DEF Bad
    <3> QED BY <2>0, LeastNatural
  <2>2. k # 0
    <3>1. Turns([i \in 0..0 |-> h], h, ep, units, env, 0)
      BY DEF Turns
    <3> QED BY <3>1, <2>1
  <2>3. k - 1 \in Nat /\ k - 1 \notin Bad
    <3>1. k \in Nat
      OBVIOUS
    <3> HIDE DEF Bad
    <3> QED BY <2>1, <2>2, <3>1
  <2>4. PICK f : Turns(f, h, ep, units, env, k - 1)
    BY <2>3
  <2> DEFINE g == [i \in 0..k |-> IF i = k THEN hs_turn(f[k - 1], ep, units, k, env) ELSE f[i]]
  <2>5. \A i \in 0..k : g[i] = IF i = 0 THEN h ELSE hs_turn(g[i - 1], ep, units, i, env)
    <3> TAKE i \in 0..k
    <3>1. f[0] = h /\ \A j \in 1..(k - 1) : f[j] = hs_turn(f[j - 1], ep, units, j, env)
      <4> HIDE DEF Bad
      <4> QED BY <2>3, <2>4, TurnsStep
    <3>2. CASE i = k
      BY <3>2, <2>3, <2>2
    <3>3. CASE i = 0
      BY <3>1, <3>3, <2>2
    <3>4. CASE i # k /\ i # 0
      <4>1. i \in 1..(k - 1) /\ i - 1 \in 0..k /\ i - 1 # k
        BY <3>4, <2>3
      <4> QED BY <4>1, <3>1
    <3> QED BY <3>2, <3>3, <3>4
  <2>6. Turns(g, h, ep, units, env, k)
    <3>1. g = [i \in 0..k |-> g[i]]
      OBVIOUS
    <3> HIDE DEF g
    <3> QED BY <2>5, <3>1 DEF Turns
  <2> QED BY <2>6
<1> QED BY <1>1

LEMMA TurnsEnd ==
    ASSUME NEW h, NEW ep, NEW units, NEW env, Len(units) \in Nat
    PROVE  \E f : Turns(f, h, ep, units, env, Len(units)) /\ hs_turns(h, ep, units, env) = f[Len(units)]
<1> DEFINE g == CHOOSE f : Turns(f, h, ep, units, env, Len(units))
<1>1. Turns(g, h, ep, units, env, Len(units))
  <2>1. \E f : Turns(f, h, ep, units, env, Len(units))
    BY TurnsExist
  <2> QED BY <2>1
<1>2. hs_turns(h, ep, units, env) = g[Len(units)]
  BY DEF hs_turns, Turns
<1> HIDE DEF g
<1> QED BY <1>1, <1>2

\* What one call brings: the units of a message in order, then those of another.
Runs(units) ==
    /\ Len(units) \in Nat /\ Len(units) # 0
    /\ \A i \in 1..Len(units) :
          units[i][1] \in Messages /\ units[i][2] \in Nat /\ units[i][2] <= units[i][1].sz
    /\ \A i \in 1..Len(units) - 1 :
          IF units[i][2] < units[i][1].sz
          THEN units[i + 1][1] = units[i][1] /\ units[i + 1][2] = units[i][2] + 1
          ELSE units[i + 1][2] = 1

\* The engine between two units of a call at the epoch ep.
Between(g, s, ep, units, i) ==
    /\ Ready(g, s) /\ Partial(g)
    /\ g.state # "FAILED" /\ i <= Len(units) =>
          g.in_epoch = ep /\ Continues(g, units[i][1], units[i][2])

LEMMA TurnKeeps ==
    ASSUME NEW g, NEW s, NEW ep, NEW units, Runs(units), NEW i \in 1..Len(units),
           Between(g, s, ep, units, i), NEW env \in [Callbacks -> BOOLEAN]
    PROVE  Between(hs_turn(g, ep, units, i, env), s, ep, units, i + 1)
<1> DEFINE m    == units[i][1]
           k    == units[i][2]
           more == i < Len(units)
           r    == hs_turn(g, ep, units, i, env)
<1>1. Len(units) \in Nat /\ m \in Messages /\ k \in Nat /\ k <= m.sz /\ m.sz \in Nat
  BY HandshakeAssumption DEF Runs
<1>2. CASE g.state = "FAILED"
  <2>1. r = g
    BY <1>2 DEF hs_turn
  <2> HIDE DEF r
  <2> QED BY <1>2, <2>1 DEF Between, r
<1>3. CASE g.state # "FAILED"
  <2>1. /\ Ready(g, s) /\ g.in_epoch = ep /\ Continues(g, m, k)
    BY <1>1, <1>3 DEF Between
  <2>2. r = take(g, g.in_epoch, m, k, more, env)
    BY <1>3, <2>1 DEF hs_turn
  <2>3. more \in BOOLEAN
    OBVIOUS
  <2>4. i + 1 <= Len(units) => more /\ i \in 1..Len(units) - 1 /\ i + 1 \in 1..Len(units)
    BY <1>1
  <2>5. i + 1 <= Len(units) =>
            IF k < m.sz THEN units[i + 1][1] = m /\ units[i + 1][2] = k + 1
            ELSE units[i + 1][2] = 1
    BY <2>4 DEF Runs
  <2>6. i + 1 <= Len(units) =>
            units[i + 1][1] \in Messages /\ units[i + 1][2] <= units[i + 1][1].sz
    BY <2>4 DEF Runs
  <2> HIDE DEF m, k, more, r
  <2>7. /\ Ready(r, s) /\ Partial(r)
        /\ r.state # "FAILED" /\ more => r.in_epoch = g.in_epoch
        /\ r.state # "FAILED" /\ k < m.sz => r.in_len = k /\ Begun(r, m, k)
        /\ r.state # "FAILED" /\ k >= m.sz => r.in_len = 0
    <3>1. LET q == take(g, g.in_epoch, m, k, more, env)
          IN  /\ Ready(q, s) /\ Partial(q)
              /\ q.state # "FAILED" /\ more => q.in_epoch = g.in_epoch
              /\ q.state # "FAILED" /\ k < m.sz => q.in_len = k /\ Begun(q, m, k)
              /\ q.state # "FAILED" /\ k >= m.sz => q.in_len = 0
      BY <1>3, <2>1, <2>3, TakeKeeps
    <3> QED BY <2>2, <3>1
  <2>8. ASSUME r.state # "FAILED", i + 1 <= Len(units)
        PROVE  r.in_epoch = ep /\ Continues(r, units[i + 1][1], units[i + 1][2])
    <3>1. r.in_epoch = ep
      BY <2>1, <2>4, <2>7, <2>8
    <3>2. CASE k < m.sz
      <4>1. units[i + 1][1] = m /\ units[i + 1][2] = k + 1 /\ r.in_len = k /\ Begun(r, m, k)
        BY <2>5, <2>7, <2>8, <3>2
      <4> QED BY <2>6, <2>8, <3>1, <4>1 DEF Continues
    <3>3. CASE ~(k < m.sz)
      <4>1. k >= m.sz
        BY <1>1, <3>3
      <4>2. units[i + 1][2] = 1 /\ r.in_len = 0
        BY <2>5, <2>7, <2>8, <3>3, <4>1
      <4>3. Begun(r, units[i + 1][1], 0)
        <5>1. Certs(r) /\ r.in_base \in Nat
          BY <2>7 DEF Ready, Heard, Typed
        <5>2. r.in_base + 0 <= Len(r.buf)
          BY <2>8, <5>1 DEF Certs
        <5> QED BY <5>2 DEF Begun
      <4> QED BY <2>6, <2>8, <3>1, <4>2, <4>3 DEF Continues
    <3> QED BY <3>2, <3>3
  <2> QED BY <2>7, <2>8 DEF Between, r
<1> QED BY <1>2, <1>3

LEMMA TurnsKeep ==
    ASSUME NEW h, NEW s, NEW ep, NEW units, Runs(units), Between(h, s, ep, units, 1),
           NEW env \in [Callbacks -> BOOLEAN]
    PROVE  LET r == hs_turns(h, ep, units, env) IN Ready(r, s) /\ Partial(r)
<1>0. Len(units) \in Nat
  BY DEF Runs
<1>1. PICK f : Turns(f, h, ep, units, env, Len(units)) /\ hs_turns(h, ep, units, env) = f[Len(units)]
  BY <1>0, TurnsEnd
<1>2. f[0] = h /\ \A i \in 1..Len(units) : f[i] = hs_turn(f[i - 1], ep, units, i, env)
  BY <1>0, <1>1, TurnsStep
<1> DEFINE Bad == {i \in 0..Len(units) : ~Between(f[i], s, ep, units, i + 1)}
<1>3. Bad = {}
  <2> SUFFICES ASSUME Bad # {} PROVE FALSE
    OBVIOUS
  <2>0. Bad \in SUBSET Nat
    OBVIOUS
  <2>1. PICK i \in Bad : \A j \in Bad : i <= j
    <3> HIDE DEF Bad
    <3> QED BY <2>0, LeastNatural
  <2>2. i \in 1..Len(units)
    <3>1. Between(f[0], s, ep, units, 0 + 1)
      BY <1>2
    <3>2. i # 0
      BY <3>1
    <3> QED BY <1>0, <3>2
  <2>3. i - 1 \in 0..Len(units) /\ i - 1 \notin Bad /\ (i - 1) + 1 = i
    BY <2>1, <2>2
  <2>4. Between(f[i - 1], s, ep, units, i)
    BY <2>3
  <2>5. Between(hs_turn(f[i - 1], ep, units, i, env), s, ep, units, i + 1)
    <3> HIDE DEF Bad
    <3> QED BY <2>2, <2>4, TurnKeeps
  <2>6. Between(f[i], s, ep, units, i + 1)
    BY <1>2, <2>2, <2>5
  <2> QED BY <2>6
<1>4. Len(units) \in 0..Len(units) /\ Len(units) \notin Bad
  BY <1>0, <1>3
<1>5. Between(f[Len(units)], s, ep, units, Len(units) + 1)
  BY <1>4
<1> QED BY <1>1, <1>5 DEF Between

LEMMA PartsDoes ==
    ASSUME NEW m \in Messages, NEW first \in Nat \ {0}, NEW last \in Nat, first <= last
    PROVE  LET u == Parts(m, first, last)
               n == last - first + 1
           IN  /\ u \in Seq(Messages \X Nat) /\ n \in Nat /\ Len(u) = n /\ n # 0
               /\ \A i \in 1..n : u[i][1] = m /\ u[i][2] = first + i - 1
<1> DEFINE u == Parts(m, first, last)
           n == last - first + 1
<1>1. n \in Nat /\ n # 0
  OBVIOUS
<1>2. u = [i \in 1..n |-> <<m, first + i - 1>>]
  BY DEF Parts
<1> HIDE DEF u, n
<1> DEFINE S == Messages \X Nat
<1>3. \A i \in 1..n : <<m, first + i - 1>> \in S
  BY <1>1
<1> HIDE DEF S
<1>4. u \in [1..n -> S]
  BY <1>2, <1>3
<1>5. u \in Seq(S) /\ Len(u) = n
  <2>1. n \in Nat
    BY <1>1
  <2>2. u \in Seq(S) /\ DOMAIN u = 1..n
    BY <1>4, <2>1
  <2> QED BY <2>1, <2>2
<1>6. \A i \in 1..n : u[i][1] = m /\ u[i][2] = first + i - 1
  BY <1>2
<1> QED BY <1>1, <1>5, <1>6 DEF u, n, S

LEMMA PartsFromOne ==
    ASSUME NEW m \in Messages, NEW last \in Nat, 1 <= last
    PROVE  LET u == Parts(m, 1, last)
           IN  /\ u \in Seq(Messages \X Nat) /\ Len(u) = last
               /\ \A i \in 1..last : u[i][1] = m /\ u[i][2] = i
<1> DEFINE one == 1
           u   == Parts(m, one, last)
           n   == last - one + 1
<1>1. one \in Nat \ {0} /\ one <= last /\ n = last /\ \A i \in 1..last : one + i - 1 = i
  OBVIOUS
<1> HIDE DEF one
<1>2. /\ u \in Seq(Messages \X Nat) /\ n \in Nat /\ Len(u) = n /\ n # 0
      /\ \A i \in 1..n : u[i][1] = m /\ u[i][2] = one + i - 1
  BY <1>1, PartsDoes, ZenonT(60)
<1> HIDE DEF u, n
<1>3. u \in Seq(Messages \X Nat) /\ Len(u) = last
  BY <1>1, <1>2
<1>4. ASSUME NEW i \in 1..last PROVE u[i][1] = m /\ u[i][2] = i
  <2>1. i \in 1..n /\ one + i - 1 = i
    BY <1>1
  <2> QED BY <1>2, <2>1
<1> QED BY <1>3, <1>4 DEF u, one

\* A part of a message that begins where the buffer ends.
LEMMA PartsRun ==
    ASSUME NEW m \in Messages, NEW first \in Nat \ {0}, NEW last \in Nat, first <= last, last <= m.sz
    PROVE  LET u == Parts(m, first, last)
           IN  Runs(u) /\ u[1][1] = m /\ u[1][2] = first
<1> DEFINE u == Parts(m, first, last)
           n == last - first + 1
<1>1. /\ u \in Seq(Messages \X Nat) /\ n \in Nat /\ Len(u) = n /\ n # 0
      /\ \A i \in 1..n : u[i][1] = m /\ u[i][2] = first + i - 1
  BY PartsDoes, ZenonT(60)
<1>2. m.sz \in Nat
  BY HandshakeAssumption
<1> HIDE DEF u
<1>3. \A i \in 1..n : first + i - 1 \in Nat /\ first + i - 1 <= m.sz
  BY <1>2
<1>4. \A i \in 1..n - 1 : /\ i \in 1..n /\ i + 1 \in 1..n /\ first + i - 1 < m.sz
                          /\ first + (i + 1) - 1 = first + i - 1 + 1
  BY <1>2
<1>5. 1 \in 1..n /\ first + 1 - 1 = first
  BY <1>1
<1> HIDE DEF n
<1>6. Len(u) \in Nat /\ Len(u) # 0
  BY <1>1
<1>7. \A i \in 1..Len(u) : u[i][1] \in Messages /\ u[i][2] \in Nat /\ u[i][2] <= u[i][1].sz
  BY <1>1, <1>3
<1>8. ASSUME NEW i \in 1..Len(u) - 1
      PROVE  u[i][2] < u[i][1].sz /\ u[i + 1][1] = u[i][1] /\ u[i + 1][2] = u[i][2] + 1
  <2>1. i \in 1..n - 1
    BY <1>1
  <2>2. /\ u[i][1] = m /\ u[i][2] = first + i - 1
        /\ u[i + 1][1] = m /\ u[i + 1][2] = first + (i + 1) - 1
    BY <1>1, <1>4, <2>1
  <2>3. first + i - 1 < m.sz /\ first + (i + 1) - 1 = first + i - 1 + 1
    BY <1>4, <2>1
  <2> HIDE DEF n
  <2> QED BY <2>2, <2>3
<1>9. Runs(u)
  BY <1>6, <1>7, <1>8 DEF Runs
<1> QED BY <1>1, <1>5, <1>9 DEF u

\* The rest of a message and the start of another.
RestAnd(m, first, f) == Parts(m, first, m.sz) \o Parts(f, 1, 1)
LEMMA RunsOn ==
    ASSUME NEW m \in Messages, NEW first \in Nat \ {0}, first <= m.sz, NEW f \in Messages
    PROVE  LET w == RestAnd(m, first, f)
           IN  Runs(w) /\ w[1][1] = m /\ w[1][2] = first
<1> DEFINE u == Parts(m, first, m.sz)
           v == Parts(f, 1, 1)
           w == u \o v
           n == m.sz - first + 1
<1>1. m.sz \in Nat /\ f.sz \in Nat /\ 1 <= f.sz
  BY HandshakeAssumption
<1>2. /\ u \in Seq(Messages \X Nat) /\ n \in Nat /\ Len(u) = n /\ n # 0
      /\ \A i \in 1..n : u[i][1] = m /\ u[i][2] = first + i - 1
  BY <1>1, PartsDoes, ZenonT(60)
<1>3. v \in Seq(Messages \X Nat) /\ Len(v) = 1 /\ v[1][1] = f /\ v[1][2] = 1
  <2>1. 1 \in Nat /\ 1 <= 1 /\ 1 \in 1..1
    OBVIOUS
  <2>2. v \in Seq(Messages \X Nat) /\ Len(v) = 1 /\ \A i \in 1..1 : v[i][1] = f /\ v[i][2] = i
    BY <2>1, PartsFromOne
  <2> HIDE DEF v
  <2> QED BY <2>1, <2>2
<1> HIDE DEF u, v, w
<1>4. /\ Len(w) = n + 1
      /\ \A i \in 1..n + 1 : w[i] = IF i <= n THEN u[i] ELSE v[i - n]
  <2>1. /\ Len(u \o v) = Len(u) + Len(v)
        /\ \A i \in 1..Len(u) + Len(v) : (u \o v)[i] = IF i <= Len(u) THEN u[i] ELSE v[i - Len(u)]
    BY <1>2, <1>3, ConcatProperties, ZenonT(60)
  <2> QED BY <1>2, <1>3, <2>1 DEF w
<1>5. /\ \A i \in 1..n : first + i - 1 \in Nat /\ first + i - 1 <= m.sz /\ i \in 1..n + 1 /\ i <= n
      /\ \A i \in 1..n - 1 : /\ i \in 1..n /\ i + 1 \in 1..n /\ first + i - 1 < m.sz
                             /\ first + (i + 1) - 1 = first + i - 1 + 1
      /\ first + n - 1 = m.sz /\ n \in 1..n /\ 1 \in 1..n /\ first + 1 - 1 = first
      /\ n + 1 \in 1..n + 1 /\ ~(n + 1 <= n) /\ (n + 1) - n = 1 /\ n + 1 \in Nat /\ n + 1 # 0
      /\ \A i \in 1..n + 1 : i \in 1..n \/ i = n + 1
      /\ \A i \in 1..(n + 1) - 1 : i \in 1..n - 1 \/ i = n
  <2>1. n \in Nat /\ n # 0 /\ m.sz \in Nat /\ n = m.sz - first + 1
    BY <1>1, <1>2
  <2>2. first + n - 1 = m.sz /\ first + 1 - 1 = first
    BY <2>1
  <2> HIDE DEF n
  <2>3. \A i \in 1..n : first + i - 1 \in Nat /\ first + i - 1 <= m.sz /\ i \in 1..n + 1 /\ i <= n
    BY <2>1
  <2>4. n \in 1..n /\ 1 \in 1..n
        /\ n + 1 \in 1..n + 1 /\ ~(n + 1 <= n) /\ (n + 1) - n = 1 /\ n + 1 \in Nat /\ n + 1 # 0
    BY <2>1
  <2>5. \A i \in 1..n - 1 : /\ i \in 1..n /\ i + 1 \in 1..n /\ first + i - 1 < m.sz
                            /\ first + (i + 1) - 1 = first + i - 1 + 1
    BY <2>1
  <2>6. \A i \in 1..n + 1 : i \in 1..n \/ i = n + 1
    BY <2>1
  <2>7. \A i \in 1..(n + 1) - 1 : i \in 1..n - 1 \/ i = n
    BY <2>1
  <2> QED BY <2>2, <2>3, <2>4, <2>5, <2>6, <2>7
<1> HIDE DEF n
<1>6. \A i \in 1..n : w[i][1] = m /\ w[i][2] = first + i - 1
  BY <1>2, <1>4, <1>5
<1>7. w[n + 1][1] = f /\ w[n + 1][2] = 1
  BY <1>3, <1>4, <1>5
<1>8. \A i \in 1..Len(w) : w[i][1] \in Messages /\ w[i][2] \in Nat /\ w[i][2] <= w[i][1].sz
  <2> TAKE i \in 1..Len(w)
  <2>1. CASE i \in 1..n
    BY <1>5, <1>6, <2>1
  <2>2. CASE i = n + 1
    BY <1>1, <1>7, <2>2
  <2> QED BY <1>4, <1>5, <2>1, <2>2
<1>9. ASSUME NEW i \in 1..Len(w) - 1
      PROVE  IF w[i][2] < w[i][1].sz
             THEN w[i + 1][1] = w[i][1] /\ w[i + 1][2] = w[i][2] + 1
             ELSE w[i + 1][2] = 1
  <2>1. CASE i \in 1..n - 1
    <3>1. /\ w[i][1] = m /\ w[i][2] = first + i - 1
          /\ w[i + 1][1] = m /\ w[i + 1][2] = first + i - 1 + 1 /\ w[i][2] < m.sz
      BY <1>5, <1>6, <2>1
    <3> QED BY <3>1
  <2>2. CASE i = n
    <3>1. w[i][1] = m /\ w[i][2] = m.sz /\ w[i + 1][2] = 1
      BY <1>5, <1>6, <1>7, <2>2
    <3>2. ~(m.sz < m.sz)
      BY <1>1
    <3> QED BY <3>1, <3>2
  <2> QED BY <1>4, <1>5, <2>1, <2>2
<1>10. Runs(w)
  BY <1>4, <1>5, <1>8, <1>9 DEF Runs
<1>11. w[1][1] = m /\ w[1][2] = first
  BY <1>5, <1>6
<1> QED BY <1>10, <1>11 DEF w, u, v, RestAnd

\* Whatever one call may bring continues what the buffer holds.
LEMMA ChunksContinue ==
    ASSUME NEW h, NEW s, Ready(h, s), Partial(h), h.state # "FAILED", NEW units \in Chunks(h)
    PROVE  Runs(units) /\ Continues(h, units[1][1], units[1][2])
<1>1. Certs(h) /\ h.in_len \in Nat /\ h.in_base \in Nat
  BY DEF Ready, Heard, Typed
<1>2. CASE h.in_len = 0
  <2>1. PICK m \in Messages, k \in 1..MAX_MSG : units = Parts(m, 1, k) /\ Len(units) <= units[1][1].sz
    BY <1>2 DEF Chunks, Starts
  <2>2. k \in Nat /\ 1 <= k /\ 1 \in Nat \ {0} /\ m.sz \in Nat /\ 1 <= m.sz
    BY EngineAssumption, HandshakeAssumption
  <2>3. Len(units) = k /\ \A i \in 1..k : units[i][1] = m /\ units[i][2] = i
    BY <2>1, <2>2, PartsFromOne
  <2>4. 1 \in 1..k
    BY <2>2
  <2>5. k <= m.sz
    BY <2>1, <2>3, <2>4
  <2>6. Runs(units) /\ units[1][1] = m /\ units[1][2] = 1
    BY <2>1, <2>2, <2>5, PartsRun
  <2>7. Begun(h, m, 0)
    <3>1. h.in_base + 0 <= Len(h.buf)
      BY <1>1 DEF Certs
    <3> QED BY <3>1 DEF Begun
  <2> QED BY <1>2, <2>2, <2>6, <2>7 DEF Continues
<1>3. CASE h.in_len # 0
  <2>1. PICK m \in Messages : h.in_len < m.sz /\ Begun(h, m, h.in_len)
    BY <1>3 DEF Partial
  <2>2. h.buf[h.in_base + h.in_len].m = m
    <3>1. h.in_len \in 1..h.in_len
      BY <1>1, <1>3
    <3>2. h.buf[h.in_base + h.in_len] = [m |-> m, k |-> h.in_len, ep |-> h.in_epoch]
      BY <2>1, <3>1 DEF Begun
    <3> QED BY <3>2
  <2>3. /\ m.sz \in Nat /\ h.in_len + 1 \in Nat \ {0} /\ h.in_len + 1 <= m.sz
    BY <1>1, <2>1, HandshakeAssumption
  <2>4. \/ \E k \in (h.in_len + 1)..m.sz : units = Parts(m, h.in_len + 1, k)
        \/ \E f \in Followers : units = Parts(m, h.in_len + 1, m.sz) \o Parts(f, 1, 1)
    BY <1>3, <2>2 DEF Chunks
  <2>5. Runs(units) /\ units[1][1] = m /\ units[1][2] = h.in_len + 1
    <3>1. ASSUME NEW k \in (h.in_len + 1)..m.sz, units = Parts(m, h.in_len + 1, k)
          PROVE  Runs(units) /\ units[1][1] = m /\ units[1][2] = h.in_len + 1
      <4>1. k \in Nat /\ h.in_len + 1 <= k /\ k <= m.sz
        BY <2>3
      <4> QED BY <2>3, <3>1, <4>1, PartsRun
    <3>2. ASSUME NEW f \in Followers, units = Parts(m, h.in_len + 1, m.sz) \o Parts(f, 1, 1)
          PROVE  Runs(units) /\ units[1][1] = m /\ units[1][2] = h.in_len + 1
      <4>1. f \in Messages
        BY HandshakeAssumption
      <4>2. units = RestAnd(m, h.in_len + 1, f)
        BY <3>2 DEF RestAnd
      <4> QED BY <2>3, <4>1, <4>2, RunsOn
    <3> QED BY <2>4, <3>1, <3>2
  <2> QED BY <2>1, <2>3, <2>5 DEF Continues
<1> QED BY <1>2, <1>3

LEMMA EnvsType == ASSUME NEW t PROVE Envs(t) \subseteq [Callbacks -> BOOLEAN]
<1>1. Accepting \in [Callbacks -> BOOLEAN]
  BY DEF Accepting
<1>2. \A c : [Accepting EXCEPT ![c] = FALSE] \in [Callbacks -> BOOLEAN]
  BY <1>1
<1> QED BY <1>1, <1>2 DEF Envs

LEMMA FailKeeps ==
    ASSUME NEW h, NEW s, NEW alert, Ready(h, s)
    PROVE  Ready(fail(h, alert), s) /\ Partial(fail(h, alert))
<1>1. Shape(h)
  BY DEF Ready, Heard, Typed
<1>2. fail(h, alert).state = "FAILED"
  BY <1>1, FailDoes DEF Fallen
<1> QED BY <1>2, FailHandled DEF Handled, Partial

LEMMA FeedKeeps ==
    ASSUME NEW h, NEW s, Ready(h, s), Partial(h), h.state # "FAILED", NEW units \in Chunks(h),
           NEW env \in [Callbacks -> BOOLEAN]
    PROVE  LET r == feed(h, h.in_epoch, units, env) IN Ready(r, s) /\ Partial(r)
<1>1. Runs(units) /\ Continues(h, units[1][1], units[1][2])
  BY ChunksContinue
<1>2. Len(units) # 0
  BY <1>1 DEF Runs
<1>3. CASE h.state \in {"START", "WAIT_CH2"}
  <2>1. feed(h, h.in_epoch, units, env) = boundary(h, h.in_epoch)
    BY <1>2, <1>3 DEF feed
  <2> QED BY <2>1, FailKeeps DEF boundary
<1>4. CASE h.state \notin {"START", "WAIT_CH2"}
  <2>1. feed(h, h.in_epoch, units, env) = hs_turns(h, h.in_epoch, units, env)
    BY <1>2, <1>4 DEF feed
  <2>2. Between(h, s, h.in_epoch, units, 1)
    BY <1>1 DEF Between
  <2>3. LET r == hs_turns(h, h.in_epoch, units, env) IN Ready(r, s) /\ Partial(r)
    BY <1>1, <2>2, TurnsKeep
  <2> QED BY <2>1, <2>3
<1> QED BY <1>3, <1>4

LEMMA FeedElsewhereKeeps ==
    ASSUME NEW h, NEW s, Ready(h, s), Partial(h), NEW ep, ep = h.in_epoch => h.state = "FAILED",
           NEW units, NEW env
    PROVE  LET r == feed(h, ep, units, env) IN Ready(r, s) /\ Partial(r)
<1>1. CASE h.state = "FAILED" \/ Len(units) = 0
  <2>1. feed(h, ep, units, env) = h
    BY <1>1 DEF feed
  <2> QED BY <2>1
<1>2. CASE ~(h.state = "FAILED" \/ Len(units) = 0)
  <2>1. feed(h, ep, units, env) = boundary(h, ep)
    BY <1>2 DEF feed
  <2> QED BY <2>1, FailKeeps DEF boundary
<1> QED BY <1>1, <1>2

-----------------------------------------------------------------------------
(* The theorems *)

\* An engine that has just been set up satisfies the invariant.
LEMMA InitReady == Init => IInv
<1> SUFFICES ASSUME Init PROVE IInv
  OBVIOUS
<1>1. PICK cfg \in Cfgs : hs = hs_init(cfg)
  BY DEF Init
<1>2. sent = <<>>
  BY DEF Init
<1>3. Shape(hs)
  BY <1>1 DEF hs_init, Shape, Fields
<1>4. /\ hs.state = "START" /\ hs.version = "none" /\ hs.in_epoch = INITIAL /\ hs.hrr_seen = FALSE
      /\ hs.cr_seen = FALSE /\ hs.psk_ok = FALSE /\ hs.alpn_sel = "none" /\ hs.secrets = {}
      /\ hs.buf = <<>> /\ hs.in_base = 0 /\ hs.in_len = 0 /\ hs.n_certs = 0 /\ hs.out = <<>>
      /\ hs.out_off = 0 /\ hs.out_split = 0 /\ hs.th = <<>> /\ hs.exports = <<>>
  BY <1>1 DEF hs_init
<1>5. Typed(hs)
  <2>1. /\ hs.buf \in Seq([m : Messages, k : Nat, ep : Epochs]) /\ hs.th \in Seq(Transcript)
        /\ hs.out \in Seq([m : OwnKinds, ep : Epochs])
        /\ hs.exports \in Seq(Epochs \X {"recv", "send"} \X Nat)
    <3>1. \A S : <<>> \in Seq(S)
      OBVIOUS
    <3> QED BY <1>4, <3>1
  <2>2. /\ hs.state \in States /\ hs.version \in {"none", "12", "13"} /\ hs.in_epoch \in Epochs
        /\ hs.hrr_seen \in BOOLEAN /\ hs.cr_seen \in BOOLEAN /\ hs.psk_ok \in BOOLEAN
        /\ hs.in_base \in Nat /\ hs.in_len \in Nat /\ hs.n_certs \in {0, 1}
        /\ hs.out_off \in Nat /\ hs.out_split \in Nat
    <3>1. "START" \in States /\ INITIAL \in Epochs
      BY DEF States, Epochs
    <3>2. /\ hs.state = "START" /\ hs.version = "none" /\ hs.in_epoch = INITIAL /\ hs.hrr_seen = FALSE
          /\ hs.cr_seen = FALSE /\ hs.psk_ok = FALSE
          /\ hs.in_base = 0 /\ hs.in_len = 0 /\ hs.n_certs = 0 /\ hs.out_off = 0 /\ hs.out_split = 0
      BY <1>1 DEF hs_init
    <3>3. hs.hrr_seen \in BOOLEAN /\ hs.cr_seen \in BOOLEAN /\ hs.psk_ok \in BOOLEAN
      BY <3>2
    <3>4. /\ hs.in_base \in Nat /\ hs.in_len \in Nat /\ hs.n_certs \in {0, 1}
          /\ hs.out_off \in Nat /\ hs.out_split \in Nat
      BY <3>2
    <3>5. hs.state \in States /\ hs.in_epoch \in Epochs /\ hs.version \in {"none", "12", "13"}
      BY <3>1, <3>2
    <3> QED BY <3>3, <3>4, <3>5
  <2> QED BY <1>3, <2>1, <2>2 DEF Typed
<1>6. \A kind : Of(hs.th, kind) = {}
  BY <1>4 DEF Of
<1>7. Script(hs) /\ Flags(hs) /\ Offered(hs) /\ Retried(hs)
  <2>1. Script(hs) /\ Flags(hs)
    BY <1>4 DEF Script, Flags, Early, Mid13, Mid12
  <2>2. Offered(hs)
    BY <1>4 DEF Offered, Open, Mid13, Mid12
  <2>3. Retried(hs)
    BY <1>4, <1>6 DEF Retried
  <2> QED BY <2>1, <2>2, <2>3
<1>8. Unheard(hs) /\ Chosen(hs)
  <2>1. Unheard(hs)
    BY <1>4, <1>6 DEF Unheard, Late
  <2>2. Chosen(hs)
    BY <1>4 DEF Chosen, Mid13, Mid12
  <2> QED BY <2>1, <2>2
<1>9. KeysAt(hs) /\ SecretsAt(hs) /\ KeysBoundToTranscript(hs)
  <2>1. KeysAt(hs)
    BY <1>4 DEF KeysAt, Mid13
  <2>2. SecretsAt(hs)
    BY <1>4 DEF SecretsAt, Mid13
  <2>3. KeysBoundToTranscript(hs)
    <3>1. Len(Handover(hs.th)) \in Nat
      BY DEF Handover
    <3> QED BY <1>4, <3>1 DEF KeysBoundToTranscript, HandedInOrder
  <2> QED BY <2>1, <2>2, <2>3
<1>10. Certs(hs) /\ hs.state \notin Late
  BY <1>4 DEF Certs, Late
<1>11. Queued(hs, sent)
  <2>1. Pending(hs) = <<>>
    <3>1. Pending(hs) = SubSeq(<<>>, 1, 0)
      BY <1>4 DEF Pending
    <3> QED BY <3>1
  <2>2. Names(<<>>) = <<>>
    BY DEF Names
  <2>3. OwnUnits(hs.th) = <<>>
    BY <1>4, OwnUnitsEmpty
  <2>4. <<>> \o <<>> = <<>>
    OBVIOUS
  <2>5. Names(sent) \o Names(Pending(hs)) = OwnUnits(hs.th)
    BY <1>2, <2>1, <2>2, <2>3, <2>4
  <2>6. Len(hs.out) = 0 /\ hs.out_off = 0 /\ hs.out_split = 0
    BY <1>4
  <2> QED BY <2>5, <2>6 DEF Queued, InLine
<1>12. sent \in SentType /\ SentRight(hs, sent)
  <2>1. <<>> \in Seq([m : OwnKinds, queued : Epochs, as : Epochs])
    OBVIOUS
  <2> QED BY <1>2, <2>1 DEF SentType, SentRight
<1>13. Partial(hs)
  BY <1>4 DEF Partial
<1> QED BY <1>5, <1>7, <1>8, <1>9, <1>10, <1>11, <1>12, <1>13 DEF IInv, Ready, Heard

\* Every step of the owner keeps it, whatever the server sends.
LEMMA StepKeeps == IInv /\ [Next]_vars => IInv'
<1> SUFFICES ASSUME IInv, [Next]_vars PROVE IInv'
  OBVIOUS
<1>0. Ready(hs, sent) /\ Partial(hs)
  BY SMTT(30) DEF IInv
<1> SUFFICES Ready(hs', sent') /\ Partial(hs')
  BY DEF IInv, Ready, Heard, Typed, Script, Flags, Offered, Retried, Unheard, Chosen
<1>1. CASE SetPsk
  BY <1>0, <1>1, SetPskKeeps DEF SetPsk
<1>2. CASE SetTls12Key
  BY <1>0, <1>2, SetPskKeeps DEF SetTls12Key
<1>3. CASE ClientHello
  BY <1>0, <1>3, ClientHelloKeeps DEF ClientHello
<1>4. CASE Feed
  <2>0. PICK units \in Chunks(hs) :
            \E env \in Envs(units[1][1].t) : hs' = feed(hs, hs.in_epoch, units, env)
    BY <1>4 DEF Feed
  <2>1. PICK env \in Envs(units[1][1].t) : hs' = feed(hs, hs.in_epoch, units, env)
    BY <2>0
  <2>2. env \in [Callbacks -> BOOLEAN]
    BY EnvsType
  <2>3. hs.state # "FAILED" /\ sent' = sent
    BY <1>4 DEF Feed
  <2> QED BY <1>0, <2>1, <2>2, <2>3, FeedKeeps
<1>5. CASE FeedElsewhere
  <2>1. PICK ep \in Epochs :
            /\ ep = hs.in_epoch => hs.state = "FAILED"
            /\ hs' = feed(hs, ep, << <<CHOOSE m \in Messages : TRUE, 1>> >>, Accepting)
    BY <1>5 DEF FeedElsewhere
  <2>2. sent' = sent
    BY <1>5 DEF FeedElsewhere
  <2> QED BY <1>0, <2>1, <2>2, FeedElsewhereKeeps
<1>6. CASE ChangeCipherSpec
  BY <1>0, <1>6, CcsKeeps DEF ChangeCipherSpec
<1>7. CASE Pull
  <2>1. PICK cap \in Caps : hs' = pull(hs, cap) /\ sent' = sent \o PulledUnits(hs, cap)
    BY <1>7 DEF Pull, PulledUnits
  <2>2. cap \in Nat /\ hs.state # "FAILED"
    BY <1>7, HandshakeAssumption DEF Pull
  <2> QED BY <1>0, <2>1, <2>2, PullKeeps
<1>8. CASE TakeKu
  BY <1>0, <1>8, TakeKuKeeps DEF TakeKu
<1>9. CASE UNCHANGED vars
  BY <1>0, <1>9 DEF vars
<1> QED BY <1>1, <1>2, <1>3, <1>4, <1>5, <1>6, <1>7, <1>8, <1>9 DEF Next

\* The invariant holds in every reachable state: state by state, what has been heard and said,
\* which secrets exist and which have been handed over, what the buffer and the queue hold.
THEOREM EngineInvariant == Spec => []IInv
<1>1. Init => IInv
  BY InitReady
<1>2. IInv /\ [Next]_vars => IInv'
  BY StepKeeps
<1> QED BY <1>1, <1>2, PTL DEF Spec

\* CONNECTED is reported only after a whole handshake with an authenticated server, every
\* parameter agreed and TLS 1.2 only when nothing pointed to 1.3.
THEOREM ConnectedSoundHolds == Spec => []ConnectedSound
<1>1. IInv => ConnectedSound
  BY DEF IInv, Ready, Heard, ConnectedSound, Late
<1> QED BY <1>1, EngineInvariant, PTL

\* Every secret covers the transcript it is named for, is handed over in order, and lives no
\* longer than the step that needs it.
THEOREM SecretsInStepHolds == Spec => []SecretsInStep
<1>1. ASSUME IInv PROVE SecretsInStep
  <2>1. /\ Heard(hs) /\ KeysBoundToTranscript(hs) /\ SecretsAt(hs) /\ Flags(hs) /\ Typed(hs)
        /\ Unheard(hs) /\ Offered(hs)
    BY <1>1 DEF IInv, Ready, Heard
  <2>2. hs.state = "FAILED" => hs.secrets = {} /\ hs.out = <<>>
    BY <2>1 DEF SecretsAt
  <2>3. hs.state = "CONNECTED" => hs.secrets \subseteq {"exp", "res"}
    BY <2>1 DEF SecretsAt
  <2>4. hs.state = "WAIT_CH2" => hs.secrets \cap {"priv", "p256"} = {}
    BY <2>1 DEF SecretsAt
  <2>5. hs.state \in States \ {"START", "WAIT_SH", "WAIT_CH2"} => "psk" \notin hs.secrets
    BY <2>1 DEF SecretsAt, States, ServerStates13, ServerStates12, Mid13
  <2>6. Of(hs.th, "SKE") # {} \/ hs.version = "13" => hs.secrets \cap {"priv", "p256"} = {}
    BY <2>1 DEF SecretsAt, Flags, Unheard, Typed, States, ServerStates13, ServerStates12, Early,
                Mid13, Mid12
  <2>7. "psk" \in hs.secrets /\ hs.state = "WAIT_SH" => "psk" \in The(hs.th, "CH").exts
    BY <2>1 DEF SecretsAt, Offered, Open
  <2> QED BY <2>1, <2>2, <2>3, <2>4, <2>5, <2>6, <2>7 DEF SecretsInStep, SecretsWiped
<1> QED BY <1>1, EngineInvariant, PTL

\* No message in the buffer spans a key change, and the certificates stay where they are
\* pointed at until the signature over them is checked.
THEOREM ReassemblySoundHolds == Spec => []ReassemblySound
<1>1. ASSUME IInv PROVE ReassemblySound
  <2>1. Certs(hs) /\ Partial(hs) /\ Typed(hs)
    BY <1>1 DEF IInv, Ready, Heard
  <2>2. NoMessageSpansKeyChange(hs)
    <3> SUFFICES ASSUME hs.state # "FAILED", NEW k \in 1..hs.in_len
                 PROVE  hs.buf[hs.in_base + k].ep = hs.in_epoch
      BY DEF NoMessageSpansKeyChange
    <3>1. hs.in_len # 0
      BY <2>1 DEF Typed
    <3>2. PICK m \in Messages : Begun(hs, m, hs.in_len)
      BY <2>1, <3>1 DEF Partial
    <3>3. hs.buf[hs.in_base + k] = [m |-> m, k |-> k, ep |-> hs.in_epoch]
      BY <3>2 DEF Begun
    <3> QED BY <3>3
  <2>3. CertsStayInBuffer(hs)
    <3>1. hs.n_certs # 0 => hs.state # "FAILED"
      BY <1>1 DEF IInv, Ready, Heard, Certs
    <3> QED BY <2>1, <3>1 DEF Certs, CertsStayInBuffer
  <2> QED BY <2>2, <2>3 DEF ReassemblySound
<1> QED BY <1>1, EngineInvariant, PTL

\* The client's messages leave once each, in the order of the transcript, each under the keys
\* it was queued for and after its owner has them.
THEOREM FlightInOrderHolds == Spec => []FlightInOrder
<1>1. ASSUME IInv PROVE FlightInOrder
  <2>1. Queued(hs, sent) /\ SentRight(hs, sent) /\ sent \in SentType
    BY <1>1 DEF IInv, Ready
  <2>2. DOMAIN sent = 1..Len(sent)
    BY <2>1 DEF SentType
  <2>3. hs.state # "FAILED" => Names(sent) \o Names(Pending(hs)) = OwnUnits(hs.th)
    BY <2>1 DEF Queued, InLine
  <2>4. ASSUME NEW i \in DOMAIN sent
        PROVE  /\ sent[i].as = SentAs(hs, sent[i].queued)
               /\ sent[i].as # INITIAL => Holds(hs, sent[i].as, "send")
    <3>1. /\ sent[i].as = SentAs(hs, sent[i].queued)
          /\ sent[i].queued # INITIAL => Holds(hs, sent[i].as, "send")
      BY <2>1, <2>2 DEF SentRight
    <3>2. sent[i].queued = INITIAL => sent[i].as = INITIAL
      BY <3>1 DEF SentAs
    <3> QED BY <3>1, <3>2
  <2> QED BY <2>3, <2>4 DEF FlightInOrder
<1> QED BY <1>1, EngineInvariant, PTL
=============================================================================
