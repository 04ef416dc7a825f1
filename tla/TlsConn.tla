------------------------------ MODULE TlsConn ------------------------------
(***************************************************************************)
(* The TLS connection over TCP: the record layer tls/record.c, with the    *)
(* handshake engine inside it (TlsEngine), and the public calls tls/conn.c *)
(* adds, against a server that cuts its flights into any records and may   *)
(* break off with a stray message, and a path that may forge records.      *)
(* (Any message in any state is TlsHandshake's question.)                  *)
(*                                                                         *)
(* A record is two units of the stream, its header and its body.  A key is *)
(* its place in the key schedule: [epoch, suite, n], n counting KeyUpdates. *)
(* A record opens if key and sequence number are those it was sealed with. *)
(***************************************************************************)
EXTENDS TlsEngine

CONSTANTS
    Handshakes,     \* [offer, flight]: what the application configures, [hello, ticket, client],
                    \* and a server's answer, the sequence of its messages
    Posts,          \* what it may send after its handshake
    Strays,         \* what it may send instead, once
    Caps,           \* room for records the application's buffer may have, in units
    CONN_TX,        \* BRISK__CONN_TX, the blocking API's own buffer
    MAX_PLAIN,      \* BRISK__TLS_MAX_PLAIN, in units
    TLS_REKEY_SEQ,  \* BRISK__TLS_REKEY_SEQ
    REC_MAX_UPDATES,
    MaxRx,          \* bound: units on their way to the client
    MaxExtra        \* bound: records besides the flight, the forged ones among them

ASSUME ConnAssumption ==
    /\ {CONN_TX, MAX_PLAIN, TLS_REKEY_SEQ, REC_MAX_UPDATES, MaxRx, MaxExtra} \subseteq Nat
    /\ Caps \subseteq Nat /\ MAX_PLAIN > 0 /\ TLS_REKEY_SEQ > 0

VARIABLES
    c,              \* struct brisk__tls13_conn and the struct brisk_conn around it
    rx,             \* the units on their way to the client: <<record, 1>> and <<record, 2>>
    srv,            \* the server: the keys it uses, and its view of what the client sent
    got             \* history: units of data the application has read

vars == <<c, rx, srv, got>>

Clear == [epoch |-> INITIAL, suite |-> "none", n |-> 0, seq |-> 0]
Dir(epoch, suite) == [Clear EXCEPT !.epoch = epoch, !.suite = suite]
Updated(dir) == [dir EXCEPT !.n = @ + 1, !.seq = 0]
Counted(dir) == IF dir = Clear THEN dir ELSE [dir EXCEPT !.seq = @ + 1]

\* type is the content type, inside the protection where there is one.
Record(type, dir) ==
    [type |-> type, dir |-> dir, flaw |-> "none", forged |-> FALSE, parts |-> <<>>, desc |-> "none",
     len |-> 0]

conn_init(offer) ==
    [offer |-> offer, hs |-> hs_init([quic |-> FALSE, client |-> offer.client]),
     err |-> "OK", alert |-> "none", alert_sent |-> FALSE, peer_alert |-> "none", close |-> 0, eof |-> FALSE,
     rd |-> Clear, wr |-> Clear, pend |-> Clear, rpend |-> Clear,
     ccs_sent |-> FALSE, ku_owe |-> FALSE, hr |-> 0, in |-> 0, clobbered |-> FALSE, app |-> 0]

-----------------------------------------------------------------------------
(* Failure *)

hs_wipe(h) == hs_init(h.cfg)
conn_forget(s) ==
    [s EXCEPT !.rd = Clear, !.pend = Clear, !.rpend = Clear, !.hs = hs_wipe(@), !.in = 0, !.app = 0]
conn_fail(s, alert, err) ==
    IF s.err # "OK" THEN s ELSE [conn_forget(s) EXCEPT !.alert = alert, !.err = err]
unexpected(s) == conn_fail(s, "unexpected_message", "E_PROTO")
internal(s) == conn_fail(s, "internal_error", "E_ARG")
conn_peer_fatal(s, desc) ==
    [conn_forget(s) EXCEPT !.wr = Clear, !.peer_alert = desc, !.alert_sent = TRUE,
                           !.err = "E_PEER_ALERT"]

-----------------------------------------------------------------------------
(* Keys from the engine *)

\* A TLS 1.3 application key waits for the whole flight, any other for the plaintext run.
flushable(s) ==
    IF s.pend.epoch = APP /\ s.pend.suite # "12" THEN s.hs.out_off = Len(s.hs.out)
    ELSE s.hs.out_off >= s.hs.out_split
conn_flush_pend(s) ==
    IF s.pend # Clear /\ flushable(s) THEN [s EXCEPT !.wr = s.pend, !.pend = Clear] ELSE s

\* A secret the engine hands over; an application one comes with its flight already queued.
on_secret(s, dir, is_send) ==
    IF is_send THEN LET t == [s EXCEPT !.pend = dir]
                    IN  IF dir.epoch = HANDSHAKE THEN conn_flush_pend(t) ELSE t
    ELSE IF dir.suite = "12" THEN [s EXCEPT !.rpend = dir] ELSE [s EXCEPT !.rd = dir]

\* What on_secret answers the engine; the other callbacks accept.
Answers(s) == [recv |-> s.rpend = Clear, send |-> s.pend = Clear,
               peer_tp |-> TRUE, ticket |-> TRUE, sign |-> TRUE]

\* The secrets of one call come back while the engine, now h, works.
given(s, h) ==
    LET suite == IF h.version = "12" THEN "12" ELSE "13"
        new   == SubSeq(h.exports, Len(s.hs.exports) + 1, Len(h.exports))
    IN  [FoldLeft(LAMBDA t, e : on_secret(t, Dir(e[1], suite), e[2] = "send"), s, new)
            EXCEPT !.hs = h]

\* KeyUpdate and HelloRequest, noted by the engine.
ku_taken(s) ==
    LET noted == [s EXCEPT !.ku_owe = @ \/ "reply" \in s.hs.ku,
                           !.hr = IF "hr" \in s.hs.ku /\ @ = 0 THEN 1 ELSE @, !.hs.ku = {}]
    IN  IF "rotate" \notin s.hs.ku THEN noted
        ELSE IF s.rd.epoch # APP THEN internal(s)
        ELSE [noted EXCEPT !.rd = Updated(@)]

-----------------------------------------------------------------------------
(* Receiving *)

\* The alert of a record that does not open; short and empty ones are the flaws "empty".
rec_open(dir, r) ==
    IF dir # Clear /\ (r.dir # dir \/ r.flaw = "mac") THEN "bad_record_mac"
    ELSE IF r.flaw = "empty" THEN "unexpected_message"
    ELSE "none"

conn_ccs12(s, r) ==
    LET h == tls12_on_ccs(s.hs)
    IN  IF r.flaw # "none" \/ s.rd # Clear \/ s.rpend = Clear THEN unexpected(s)
        ELSE IF h.state = "FAILED" THEN conn_fail(s, h.alert, h.err)
        ELSE [s EXCEPT !.hs = h, !.rd = s.rpend, !.rpend = Clear]
conn_ccs13(s, r) ==
    IF r.flaw = "none" /\ s.hs.state \notin {"START", "CONNECTED", "FAILED"} THEN s
    ELSE unexpected(s)

conn_alert(s, r) ==
    IF r.flaw = "short" THEN conn_fail(s, "decode_error", "E_PROTO")
    ELSE IF r.desc \notin {"close_notify", "user_canceled"} \/ s.hs.state # "CONNECTED"
         THEN conn_peer_fatal(s, r.desc)
    ELSE IF r.desc = "close_notify" THEN [s EXCEPT !.eof = TRUE, !.rd = Clear]
    ELSE s

\* Exactly one record goes to the engine in a call.
taken(s) == IF s.hs.state = "FAILED" THEN conn_fail(s, s.hs.alert, s.hs.err) ELSE ku_taken(s)
conn_content(s, r) ==
    IF r.type = "HS" THEN taken(given(s, feed(s.hs, s.rd.epoch, r.parts, Answers(s))))
    ELSE IF s.hs.in_len # 0 THEN unexpected(s)
    ELSE IF r.type = "ALERT" THEN conn_alert(s, r)
    ELSE IF r.type # "APP" \/ s.rd.epoch # APP \/ s.hs.state # "CONNECTED" THEN unexpected(s)
    ELSE [s EXCEPT !.app = r.len]

\* TLS 1.2 shows the content type of a protected record, TLS 1.3 shows application data.
Outer(r) == IF r.dir # Clear /\ r.dir.suite = "13" THEN "APP" ELSE r.type
conn_record(s, r) ==
    LET alert == rec_open(s.rd, r)
    IN  IF Outer(r) = "CCS" /\ s.hs.version = "12" THEN conn_ccs12(s, r)
        ELSE IF Outer(r) = "CCS" THEN conn_ccs13(s, r)
        ELSE IF s.rd.suite # "12" /\ (Outer(r) = "APP") # (s.rd # Clear) THEN unexpected(s)
        ELSE IF alert # "none"
             THEN conn_fail(s, alert, IF alert = "bad_record_mac" THEN "E_AUTH" ELSE "E_PROTO")
        ELSE conn_content([s EXCEPT !.rd = Counted(@)], r)

\* One unit of the stream: the header decides alone what it can, the body completes the record.
conn_unit(s, unit) ==
    LET r == unit[1]
    IN  IF s.eof THEN s
        ELSE IF s.in = 0 THEN
            CASE r.flaw = "unknown_type" -> unexpected(s)
              [] r.flaw = "too_long"     -> conn_fail(s, "record_overflow", "E_PROTO")
              [] OTHER                   -> [s EXCEPT !.in = 1]
        ELSE conn_record([s EXCEPT !.in = 0], r)

stops_never(s) == s.err # "OK"

\* Undelivered plaintext lives in the receive buffer, so nothing is read over it.
stops(s) == s.err # "OK" \/ s.app # 0
fed(f, unit) == IF stops(f.c) THEN f ELSE [c |-> conn_unit(f.c, unit), used |-> f.used + 1]
conn_feed(s, units) ==
    LET after[i \in 0..Len(units)] ==
            IF i = 0 THEN [c |-> s, used |-> 0] ELSE fed(after[i - 1], units[i])
    IN  after[Len(units)]

-----------------------------------------------------------------------------
(* The ClientHello pair *)

hello(s, psk) ==
    LET h == s.hs
        x == s.offer.hello.exts
            \cup (IF h.cookie # "none" THEN {"cookie"} ELSE {})
            \cup (IF psk THEN {"psk"} ELSE {})
            \cup (IF psk \/ (h.state = "WAIT_CH2" /\ h.psk_offered) THEN {"psk_modes"} ELSE {})
    IN  [s.offer.hello EXCEPT
            !.exts = x, !.cookie = h.cookie,
            !.group = IF h.hrr_group # "none" THEN h.hrr_group ELSE @]

keeps_psk(s) ==
    IF s.hs.state = "WAIT_CH2" THEN s.hs.psk_offered /\ alg(s.hs.suite) = alg(s.hs.psk_suite)
    ELSE s.offer.ticket # "none"

\* Built in the receive buffer.  The first one is tried again without a PSK that does not fit.
conn_hello(s) ==
    LET first  == s.hs.state = "START"
        with   == IF first THEN set_tls12_key(set_psk(s.hs, s.offer.ticket)) ELSE s.hs
        bare   == IF first THEN set_tls12_key(s.hs) ELSE s.hs
        built  == [s EXCEPT !.clobbered = @ \/ s.in # 0]
    IN  IF keeps_psk(s) /\ accepts_hello(with, hello(s, TRUE))
        THEN [built EXCEPT !.hs = client_hello(with, hello(s, TRUE))]
        ELSE IF (first \/ ~keeps_psk(s)) /\ accepts_hello(bare, hello(s, FALSE))
        THEN [built EXCEPT !.hs = client_hello(IF keeps_psk(s) THEN with ELSE bare, hello(s, FALSE))]
        ELSE internal(built)

one_call_all(s, n) == n

\* Until the ServerHello one record at a time, so that the buffer is empty after a retry.
one_call(s, n) == IF s.hs.state = "WAIT_SH" /\ s.err = "OK" /\ n > 1 THEN 1 ELSE n
answered(s) == IF s.hs.state = "WAIT_CH2" /\ s.err = "OK" THEN conn_hello(s) ELSE s
turned(s, used, f, left) ==
    [c |-> s, used |-> used + f.used, done |-> s.err # "OK" \/ f.used \in {0, left}]
feed_turn(t, units) ==
    LET left == Len(units) - t.used
        next(f) == turned(answered(f.c), t.used, f, left)
    IN  IF t.done THEN t
        ELSE next(conn_feed(t.c, SubSeq(units, t.used + 1, t.used + one_call(t.c, left))))
brisk_feed(s, units) ==
    LET turn[i \in 0..Len(units)] ==
            IF i = 0 THEN [c |-> s, used |-> 0, done |-> FALSE] ELSE feed_turn(turn[i - 1], units)
    IN  turn[Len(units)]

-----------------------------------------------------------------------------
(* Sending *)

\* A sealed record, under the key and number it carries; units is its content.
Sealed(s, type, units) == [type |-> type, dir |-> s.wr, units |-> units]
CCS == [type |-> "CCS", dir |-> Clear, units |-> <<>>]
Cost(recs) == FoldLeft(LAMBDA acc, r : acc + 1 + Len(r.units), 0, recs)

\* P is a connection and what it has put into the buffer so far.
Room(p, cap) == cap - Cost(p.out)
Emit(p, type, units) == [p EXCEPT !.out = Append(@, Sealed(p.c, type, units)), !.c.wr = Counted(@)]
Fits(p, cap, n) == n + 1 <= Room(p, cap)

\* One record of the handshake flight, behind the CCS when it is the first one protected.
pull_flight(p, cap) ==
    LET s    == conn_flush_pend(p.c)
        ccs  == IF s.wr # Clear /\ ~s.ccs_sent /\ (s.hs.session_id \/ s.wr.suite = "12") THEN 1 ELSE 0
        room == Room(p, cap) - 1 - ccs
        out  == pulled(s.hs, IF room < MAX_PLAIN THEN room ELSE MAX_PLAIN)
        took == [c |-> [s EXCEPT !.hs = pull(@, out.n), !.ccs_sent = @ \/ ccs = 1],
                 out |-> p.out \o (IF ccs = 1 THEN <<CCS>> ELSE <<>>)]
    IN  IF s.hs.out_off = Len(s.hs.out) \/ room <= 0 THEN [p EXCEPT !.c = s]
        ELSE IF out.ep # s.wr.epoch THEN [p EXCEPT !.c = internal([s EXCEPT !.hs = pull(@, out.n)])]
        ELSE Emit(took, "HS", [i \in 1..out.n |-> out.units[i].m])
pull_turn(p, cap) == IF p.c.err # "OK" THEN p ELSE pull_flight(p, cap)
pull_flights(p, cap) ==
    LET after[i \in 0..(OUT_MAX + 1)] == IF i = 0 THEN p ELSE pull_turn(after[i - 1], cap)
    IN  after[OUT_MAX + 1]

ku_rotated_first(p) ==
    [Emit([p EXCEPT !.c.wr = Updated(@)], "HS", <<"KU">>) EXCEPT !.c.ku_owe = FALSE]

\* The KeyUpdate goes out under the old key, then the key changes.
ku_sent(p) ==
    LET sent == Emit(p, "HS", <<"KU">>) IN [sent EXCEPT !.c.ku_owe = FALSE, !.c.wr = Updated(@)]

capped_owes(s) == s

\* At the cap of key updates an answer is dropped, and the connection ends at the AEAD limit.
capped(s) == IF s.wr.seq < TLS_REKEY_SEQ THEN [s EXCEPT !.ku_owe = FALSE] ELSE internal(s)

conn_ku(p, cap) ==
    LET owed == [p EXCEPT !.c.ku_owe = @ \/ p.c.wr.seq >= TLS_REKEY_SEQ]
    IN  IF p.c.err # "OK" \/ p.c.close = 2 \/ p.c.wr.epoch # APP \/ p.c.wr.suite = "12" THEN p
        ELSE IF ~owed.c.ku_owe THEN p
        ELSE IF p.c.wr.n >= REC_MAX_UPDATES THEN [owed EXCEPT !.c = capped(@)]
        ELSE IF Fits(p, cap, 1) THEN ku_sent(owed) ELSE owed

\* The refusal of a renegotiation, once per connection, and the close_notify.
pull_hr(p, cap) ==
    IF p.c.hr = 1 /\ p.c.close = 0 /\ p.c.err = "OK" /\ Fits(p, cap, 1)
    THEN [Emit(p, "ALERT", <<"no_renegotiation">>) EXCEPT !.c.hr = 2] ELSE p
pull_close(p, cap) ==
    IF p.c.close = 1 /\ ~p.c.ku_owe /\ p.c.err = "OK" /\ Fits(p, cap, 1)
    THEN [Emit(p, "ALERT", <<"close_notify">>) EXCEPT !.c.close = 2] ELSE p

\* After a failure the one fatal alert, and nothing at all after the close_notify.
pull_alert(p, cap) ==
    IF p.c.alert_sent \/ p.c.close = 2 \/ ~Fits(p, cap, 1)
    THEN [p EXCEPT !.c.wr = IF p.c.close = 2 THEN Clear ELSE @]
    ELSE [Emit(p, "ALERT", <<p.c.alert>>) EXCEPT !.c.alert_sent = TRUE, !.c.wr = Clear]

\* The flight goes first and is not overtaken.
pull_behind(p, cap) ==
    IF p.c.err # "OK" \/ p.c.hs.out_off # Len(p.c.hs.out) \/ p.c.pend # Clear THEN p
    ELSE pull_close(pull_hr(conn_ku(p, cap), cap), cap)
pull_into(p, cap) ==
    IF p.c.err # "OK" THEN pull_alert(p, cap)
    ELSE IF p.c.close = 2 THEN p
    ELSE pull_behind(pull_flights(p, cap), cap)
conn_pull(s, cap) == pull_into([c |-> s, out |-> <<>>], cap)

\* One record of application data: w is what was put out, and the data left.
write_record(w, p, cap) ==
    LET room == Room(p, cap) - 1
        n    == CHOOSE k \in 0..w.left : /\ k <= MAX_PLAIN /\ k <= room
                                         /\ k = w.left \/ k = MAX_PLAIN \/ k = room
    IN  IF p.c.err # "OK" \/ p.c.ku_owe \/ p.c.pend # Clear \/ p.c.wr.epoch # APP \/ room <= 0
        THEN [w EXCEPT !.p = p, !.done = TRUE]
        ELSE [w EXCEPT !.p = Emit(p, "APP", [i \in 1..n |-> "data"]), !.left = @ - n]
closed_at(p, cap) == pull_into([p EXCEPT !.c.close = IF @ = 0 THEN 1 ELSE @], cap)
write_turn(w, cap) ==
    IF w.done \/ w.left = 0 \/ w.p.c.err # "OK" THEN w
    ELSE IF w.p.c.wr.suite = "12" /\ w.p.c.wr.seq >= TLS_REKEY_SEQ
    THEN [w EXCEPT !.p = closed_at(@, cap), !.done = TRUE]
    ELSE write_record(w, conn_ku(w.p, cap), cap)
conn_write(s, len, cap) ==
    LET after[i \in 0..(len + 1)] ==
            IF i = 0 THEN [p |-> conn_pull(s, cap), left |-> len, done |-> FALSE]
            ELSE write_turn(after[i - 1], cap)
    IN  after[len + 1].p

-----------------------------------------------------------------------------
(* The server.  It derives its keys as RFC 9846 7 and RFC 5246 6.3 say, and may send anything     *)
(* under them; what it receives it holds against the same rules.                                  *)

SrvInit(flight) ==
    [version |-> "none", wr |-> Clear, rd |-> Clear, ch |-> 0, asked |-> FALSE, ccs |-> FALSE,
     fin |-> FALSE, ended |-> FALSE, ok |-> TRUE, heard |-> TRUE, flight |-> flight, part |-> 0,
     data |-> 0, extra |-> 0, closed |-> FALSE, stopped |-> FALSE]

\* The keys after the last unit of m was sent.
SrvKeys(v, m) ==
    CASE m.t = "SH" /\ m.hrr -> [v EXCEPT !.asked = TRUE]
      [] m.t = "SH" /\ ~m.hrr /\ m.version = "13" ->
            [v EXCEPT !.version = "13", !.wr = Dir(HANDSHAKE, "13"), !.rd = Dir(HANDSHAKE, "13")]
      [] m.t = "SH" /\ ~m.hrr /\ m.version # "13" -> [v EXCEPT !.version = "12"]
      [] m.t = "FIN" /\ v.wr.epoch = HANDSHAKE -> [v EXCEPT !.wr = Dir(APP, "13")]
      [] m.t = "KU" /\ v.wr.suite = "13" /\ v.wr.epoch = APP -> [v EXCEPT !.wr = Updated(@)]
      [] OTHER -> v

Parts(m, first, last) == [i \in 1..(last - first + 1) |-> <<m, first + i - 1>>]

\* A ServerHello answers a ClientHello, and a TLS 1.2 Finished covers the client's.
Answered(v, m) ==
    /\ v.ch > 0
    /\ m.t = "SH" => v.ch = IF v.asked THEN 4 ELSE 2
    /\ m.t = "FIN" /\ v.version = "12" => v.fin

\* The next record of the flight: more of the message that has begun, and the next one behind it.
SrvCuts(v) ==
    LET m == v.flight[1]
    IN  {Parts(m, v.part + 1, k) : k \in (v.part + 1)..m.sz}
        \cup IF Len(v.flight) = 1 \/ ~Answered(v, v.flight[2]) THEN {}
             ELSE {Parts(m, v.part + 1, m.sz) \o Parts(v.flight[2], 1, k) : k \in 1..v.flight[2].sz}

SrvSent(v, parts) ==
    LET whole == Cardinality({i \in DOMAIN parts : parts[i][2] = parts[i][1].sz})
        last  == parts[Len(parts)]
    IN  FoldLeft(LAMBDA w, p : IF p[2] = p[1].sz THEN SrvKeys(w, p[1]) ELSE w,
                 [v EXCEPT !.wr = Counted(@), !.flight = SubSeq(@, whole + 1, Len(@)),
                           !.part = IF last[2] = last[1].sz THEN 0 ELSE last[2]],
                 parts)

\* What the server makes of one record of the client: whether it opens there, in its place.
Opens(v, r) ==
    CASE r.type = "CCS" -> ~v.ccs /\ (v.rd = Dir(HANDSHAKE, "13") \/ (v.version = "12" /\ v.rd = Clear))
      [] r.type = "ALERT" /\ r.dir = Clear -> v.rd \in {Clear, Dir(HANDSHAKE, "13")}
      [] r.type = "APP" -> v.fin /\ r.dir = v.rd
      [] OTHER -> r.dir = v.rd
Fatal(r) == r.type = "ALERT" /\ r.units[1] \notin {"no_renegotiation", "close_notify"}
Consumed(v, r) ==
    LET w == [v EXCEPT !.rd = Counted(@), !.ok = @ /\ ~v.ended /\ (Fatal(r) \/ Opens(v, r)),
                       !.heard = @ /\ (Fatal(r) => Opens(v, r))]
    IN  CASE r.type = "CCS" -> [v EXCEPT !.ccs = TRUE, !.ok = w.ok,
                                         !.rd = IF v.version = "12" THEN Dir(APP, "12") ELSE @]
          [] r.type = "ALERT" -> [w EXCEPT !.ended = @ \/ r.units # <<"no_renegotiation">>]
          [] r.type = "HS" /\ "KU" \in ToSet(r.units) -> [w EXCEPT !.rd = Updated(@)]
          [] r.type = "HS" /\ "C_FIN" \in ToSet(r.units) ->
                [w EXCEPT !.fin = TRUE, !.rd = IF v.version = "13" THEN Dir(APP, "13") ELSE @]
          [] r.type = "HS" /\ "CH" \in ToSet(r.units) -> [w EXCEPT !.ch = @ + Len(r.units)]
          [] OTHER -> w

-----------------------------------------------------------------------------
(* The actions *)

Init ==
    /\ \E x \in Handshakes : c = conn_hello(conn_init(x.offer)) /\ srv = SrvInit(x.flight)
    /\ rx = <<>> /\ got = 0

InTransit(r) == Len(rx) + 2 <= MaxRx /\ rx' = rx \o << <<r, 1>>, <<r, 2>> >>
Listening == c.err = "OK" /\ ~c.eof /\ ~srv.stopped
Sends(r) == Listening /\ InTransit(r) /\ UNCHANGED <<c, got>>

\* The server once it has sent a record that is not of its flight.
MaySend == srv.ch > 0 /\ srv.extra < MaxExtra
Extra(v) == [v EXCEPT !.wr = Counted(@), !.extra = @ + 1]

SrvFlight ==
    /\ srv.flight # <<>>
    /\ srv.part = 0 => Answered(srv, srv.flight[1])
    /\ \E parts \in SrvCuts(srv) :
          /\ Sends([Record("HS", srv.wr) EXCEPT !.parts = parts])
          /\ srv' = SrvSent(srv, parts)

SrvPost ==
    /\ srv.flight = <<>> /\ MaySend
    /\ \E m \in Posts :
          /\ Sends([Record("HS", srv.wr) EXCEPT !.parts = Parts(m, 1, m.sz)])
          /\ srv' = SrvKeys(Extra(srv), m)

SrvStray ==
    /\ srv.part = 0 /\ MaySend
    /\ \E m \in Strays :
          /\ Sends([Record("HS", srv.wr) EXCEPT !.parts = Parts(m, 1, m.sz)])
          /\ srv' = [Extra(srv) EXCEPT !.stopped = TRUE]

\* In TLS 1.2 it has no keys before the client's flight, so an early one is all it can send.
SrvChangeCipherSpec ==
    /\ srv.version = "12" /\ MaySend
    /\ Sends(Record("CCS", srv.wr))
    /\ srv' = [Extra(srv) EXCEPT !.wr = IF srv.wr = Clear THEN Dir(APP, "12") ELSE @,
                                 !.stopped = ~srv.fin]

\* A close_notify or a fatal alert is the last record.
SrvAlert ==
    /\ MaySend
    /\ \E desc \in {"close_notify", "user_canceled", "decode_error"}, flaw \in {"none", "short"} :
          /\ flaw = "short" => desc = "close_notify"
          /\ Sends([Record("ALERT", srv.wr) EXCEPT !.desc = desc, !.flaw = flaw])
          /\ srv' = [Extra(srv) EXCEPT !.closed = desc = "close_notify",
                                       !.stopped = desc # "user_canceled" \/ flaw # "none"]

SrvData ==
    /\ MaySend
    /\ \E len \in 0..MAX_PLAIN :
          /\ Sends([Record("APP", srv.wr) EXCEPT !.len = len])
          /\ srv' = [Extra(srv) EXCEPT !.data = @ + len, !.stopped = srv.flight # <<>>]

\* Somebody on the path, who has no keys.
Forged ==
    {[Record("CCS", Clear) EXCEPT !.forged = TRUE, !.flaw = f] : f \in {"none", "empty"}}
    \cup {[Record("ALERT", Clear) EXCEPT !.forged = TRUE, !.desc = "close_notify"],
          [Record("APP", Dir(APP, "13")) EXCEPT !.forged = TRUE, !.flaw = "mac", !.len = 1]}
    \cup {[Record("HS", Clear) EXCEPT !.forged = TRUE, !.flaw = f]
            : f \in {"empty", "too_long", "unknown_type"}}
Forge ==
    /\ Listening /\ MaySend
    /\ \E r \in Forged : /\ r.type = "CCS" => srv.version # "12"
                         /\ InTransit(r)
    /\ srv' = [srv EXCEPT !.extra = @ + 1]
    /\ UNCHANGED <<c, got>>

Feed ==
    /\ c.err = "OK"
    /\ \E n \in 1..Len(rx) :
          \E f \in {brisk_feed(c, SubSeq(rx, 1, n))} :
              /\ f.used # 0
              /\ c' = f.c
              /\ rx' = IF f.c.err = "OK" THEN SubSeq(rx, f.used + 1, Len(rx)) ELSE <<>>
    /\ UNCHANGED <<srv, got>>

Delivered(p) == c' = p.c /\ srv' = FoldLeft(Consumed, srv, p.out) /\ UNCHANGED <<rx, got>>

Pull(cap) == Delivered(conn_pull(c, cap))

AppWrite ==
    /\ c.err = "OK" /\ c.hs.state = "CONNECTED" /\ c.close = 0
    /\ \E cap \in Caps \cup {CONN_TX} : Delivered(conn_write(c, MAX_PLAIN + 1, cap))

AppRead ==
    /\ c.app # 0
    /\ \E k \in 1..c.app : c' = [c EXCEPT !.app = @ - k] /\ got' = got + k
    /\ UNCHANGED <<rx, srv>>

CloseNotify ==
    /\ c.err = "OK" /\ c.hs.state = "CONNECTED" /\ c.close = 0
    /\ c' = [c EXCEPT !.close = 1]
    /\ UNCHANGED <<rx, srv, got>>

Next ==
    \/ SrvFlight
    \/ SrvPost
    \/ SrvStray
    \/ SrvChangeCipherSpec
    \/ SrvAlert
    \/ SrvData
    \/ Forge
    \/ Feed
    \/ \E cap \in Caps \cup {CONN_TX} : Pull(cap)
    \/ AppWrite
    \/ AppRead
    \/ CloseNotify

\* The blocking API pulls until nothing is left after every call (linux_net.c net_flush): this is
\* WF_vars(Pull(CONN_TX)) with its ENABLED spelled out.
CanPull == conn_pull(c, CONN_TX).c # c
Fairness == []<>~CanPull \/ []<><<Pull(CONN_TX)>>_vars
Spec == Init /\ [][Next]_vars /\ Fairness

-----------------------------------------------------------------------------
Bodies == SelectSeq(rx, LAMBDA u : u[2] = 2 /\ ~u[1].forged)

\* Receive keys stay in step: whatever the server sends and however the stream is cut, the next
\* record is read under the key and number it was sealed with, after the ServerHello, the server's
\* Finished, its ChangeCipherSpec and each KeyUpdate (record.c conn_record, on_secret), and what
\* the buffer holds of it is not written over by a second ClientHello (conn.c conn_hello).
NextRecordOpens ==
    c.err = "OK" /\ ~c.eof =>
        /\ c.rd = IF Bodies = <<>> THEN srv.wr ELSE Bodies[1][1].dir
        /\ ~c.clobbered

\* Send keys stay in step: every record opens at the server, application data only after the
\* client's Finished, the ChangeCipherSpec once and in its place, a KeyUpdate under the old key
\* and all after it under the new one, and nothing behind an alert or close_notify (record.c
\* conn_pull, conn_flush_pend, conn_ku).  A fatal alert may be lost on a TLS 1.2 server that waits
\* for the ChangeCipherSpec: see FatalAlertOpens.
PeerAccepts == srv.ok /\ (srv.heard \/ (srv.version = "12" /\ ~srv.ccs))

\* The TLS 1.2 send key is used after the mandatory ChangeCipherSpec (brisk_int.h:2259), so the
\* one fatal alert opens at the server as well.
FatalAlertOpens == srv.heard

\* Application data arrives once and whole, and the end of data is the server's close_notify,
\* never a forged or truncated one: what was read, what waits in the buffer and what is on its way
\* add up to what the server sent (record.c conn_feed, conn_read, conn_record).
AppDelivered ==
    c.err = "OK" =>
        /\ srv.data = got + c.app + FoldLeft(LAMBDA acc, u : acc + u[1].len, 0, Bodies)
        /\ c.eof => srv.closed

\* internal_error is the connection's own fault, and the peer cannot provoke it: engine and record
\* layer agree on the epoch of what is queued, one slot for the pending send secret is enough, and
\* the engine accepts the second ClientHello after every HelloRetryRequest it accepted.  The one
\* exception is a key at its AEAD limit that cannot be updated any more (record.c conn_ku).
InternalErrorIsLocal ==
    c.alert = "internal_error" /\ ~c.alert_sent =>
        c.wr.n >= REC_MAX_UPDATES /\ c.wr.seq >= TLS_REKEY_SEQ

\* Whatever is owed is sent by an application that pulls: the flight, the answer to a KeyUpdate,
\* the close_notify, the fatal alert; none waits on another forever (record.c conn_pull).
Owed ==
    IF c.close = 2 THEN FALSE
    ELSE IF c.err # "OK" THEN ~c.alert_sent
    ELSE c.hs.out_off # Len(c.hs.out) \/ c.pend # Clear \/ c.ku_owe \/ c.close = 1
OwedIsSent == []<>~Owed

\* The send side keeps in step with the handshake and with the server that reads it.
SendSideInStep == PeerAccepts /\ InternalErrorIsLocal
=============================================================================
