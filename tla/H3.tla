------------------------------- MODULE H3 -------------------------------
(***************************************************************************)
(* The HTTP/3 client, http/h3.c: the unidirectional streams, SETTINGS,     *)
(* GOAWAY, the request streams and the blocking calls over them, with the  *)
(* field compression of Qpack.                                             *)
(*                                                                         *)
(* c is struct brisk_h3 with, in q, what brisk__h3_io shows of every QUIC  *)
(* stream.  Between two waits a call does no I/O, so a step is one turn of *)
(* a call, from the end of a wait to the next one; while it waits the      *)
(* server delivers any octets, FIN, reset, STOP_SENDING or credit of the   *)
(* plan, in any order across streams and cut anywhere in a frame.          *)
(*                                                                         *)
(* Octets are counted, not written: a frame header takes two, the type of  *)
(* a unidirectional stream one, or two for the types we skip.              *)
(***************************************************************************)
EXTENDS Qpack, FiniteSets, Functions

CONSTANTS
    H3_NS,          \* request slots
    H3_UNI,         \* server unidirectional streams tracked
    UNI_CREDIT,     \* initial_max_streams_uni: what the server may have open
    H3_SET_MAX, H3_IDLE_MAX, H3_1XX_MAX,
    NREQ, NUNI,     \* streams the client, and the server, open in the model
    ROOM,           \* BRISK_QUIC_STREAM_BUF in the units written
    Plans           \* what the application and the server do in a run

Slots   == 1..H3_NS
ReqIds  == {4 * i : i \in 0..NREQ - 1}
UniIds  == {4 * i + 3 : i \in 0..NUNI - 1}
CTL     == 2
PREFACE == 3        \* the stream type and SETTINGS
Ids     == ReqIds \cup UniIds \cup {CTL}

ASSUME H3Assumption ==
    /\ {H3_NS, H3_UNI, UNI_CREDIT, H3_SET_MAX, H3_IDLE_MAX, H3_1XX_MAX, NREQ, NUNI, ROOM}
            \subseteq Nat \ {0}
    /\ UNI_CREDIT < H3_UNI

VARIABLES
    c,              \* struct brisk_h3, the QUIC streams, the call in progress and the history
    plan, left,     \* the plan of this behaviour, the deliveries the server has left
    turn            \* changes with every turn of a call: what the fairness is about
vars == <<c, plan, left, turn>>

Script == Plans[plan]

NoSection == [ric |-> 0, sign |-> 0, lines |-> <<>>]
NoFrame == [t |-> "none", len |-> 0, sec |-> NoSection, set |-> <<>>, n |-> 0]
Kinds == {"ctl", "push", "enc", "dec", "skip"}
Instructions == {"cap0", "insert", "cancel", "ack", "octets"}
Hdr(f)  == IF f.t \in Instructions THEN 0 ELSE IF f.t \in Kinds \ {"skip"} THEN 1 ELSE 2
Size(f) == Hdr(f) + f.len

\* One QUIC stream: what the server sent (the last frame up to octet cut), how far we have read
\* (octet rp of frame rn, in once its header was judged), and what we wrote.
Quic0 == [open |-> FALSE, sent |-> <<>>, cut |-> 0, fin |-> FALSE, rst |-> "none", done |-> FALSE,
          rn |-> 1, rp |-> 0, in |-> FALSE, stop |-> FALSE, ab |-> FALSE, room |-> ROOM, wr |-> 0,
          wfin |-> FALSE]
Slot0 == [used |-> FALSE, id |-> 0, state |-> "HDR", fl |-> {}, err |-> "OK", cl |-> 0, got |-> 0,
          hdr |-> FALSE, n1xx |-> 0]
Uni0  == [used |-> FALSE, id |-> 0, kind |-> "NEW"]
NoReq == [hlen |-> 0, body |-> 0, head |-> FALSE, list |-> 0, fields |-> <<>>]
NoCall == [op |-> "none", k |-> 0, ph |-> "none", n |-> 0, cap |-> 0, stall |-> 0, w |-> FALSE,
           req |-> NoReq]
\* History: of each request the octets the application read, whether an end it was told was the
\* whole body and a RETRY it was told true, and the section the request was sent as.
History0 == [read |-> [id \in ReqIds |-> 0], whole |-> TRUE, retry |-> TRUE,
             sec |-> [id \in ReqIds |-> NoSection], fields |-> [id \in ReqIds |-> <<>>],
             total |-> [id \in ReqIds |-> 0]]

h3_setup ==
    [err |-> "OK", dead |-> "OK", r |-> "WANT", m |-> 0, q |-> [id \in Ids |-> Quic0], credit |-> 0,
     nreq |-> 0, nuni |-> 0, accepted |-> 0, ctl |-> FALSE, unicredit |-> 0, idle |-> 0,
     p_list |-> 99, goaway |-> FALSE, goaway_id |-> 0, got |-> {}, got_settings |-> FALSE,
     u |-> [i \in 1..H3_UNI |-> Uni0], s |-> [k \in Slots |-> Slot0], call |-> NoCall, g |-> History0]

\* The handle brisk_h3_open returns.
started == [h3_setup EXCEPT !.ctl = TRUE, !.credit = 1, !.q[CTL].open = TRUE, !.q[CTL].wr = PREFACE]

Has(s, flag) == flag \in s.fl
Checked(s)   == Has(s, "CL") /\ ~Has(s, "NOCL")
Smaller(a, b) == IF a < b THEN a ELSE b

-----------------------------------------------------------------------------
(* The QUIC streams: stream.c through the seam *)

Avail(s) == (IF s.rn < Len(s.sent) THEN Size(s.sent[s.rn])
             ELSE IF s.rn = Len(s.sent) THEN s.cut ELSE 0) - s.rp
\* brisk__quic_stream_read: r is SOME, FIN, WANT or RESET, m the octets read.
take(d, id, k) ==
    LET s == d.q[id]
        n == Smaller(k, Avail(s))
    IN  IF s.rst # "none" THEN [d EXCEPT !.q[id].done = TRUE, !.r = "RESET"]
        ELSE IF n > 0 THEN [d EXCEPT !.q[id].rp = @ + n, !.r = "SOME", !.m = n]
        ELSE IF s.fin THEN [d EXCEPT !.q[id].done = TRUE, !.r = "FIN"]
        ELSE [d EXCEPT !.r = "WANT"]
\* brisk__quic_stream_write
put(d, id, n, fin) ==
    LET s == d.q[id]
        k == Smaller(n, s.room)
    IN  IF d.dead # "OK" THEN [d EXCEPT !.r = "ARG"]
        ELSE IF s.stop THEN [d EXCEPT !.r = "STOPPED"]
        ELSE [d EXCEPT !.q[id].room = @ - k, !.q[id].wr = @ + k, !.q[id].wfin = fin /\ k = n,
                       !.r = "SOME", !.m = k]

-----------------------------------------------------------------------------
(* Errors *)

h3_conn_err(d) ==
    IF d.err = "OK" THEN [d EXCEPT !.err = "PROTO", !.dead = IF @ = "OK" THEN "PROTO" ELSE @] ELSE d
h3_dead(d) == IF d.err # "OK" THEN d.err ELSE d.dead

h3_stream_err(d, k) ==
    LET failed == [d EXCEPT !.s[k].err = IF @ = "OK" THEN "PROTO" ELSE @, !.s[k].fl = @ \cup {"ABORT"}]
    IN  IF Has(d.s[k], "ABORT") THEN failed ELSE [failed EXCEPT !.q[d.s[k].id].ab = TRUE]

-----------------------------------------------------------------------------
(* Frames *)

Reading(d, id) == d.q[id].sent[d.q[id].rn]
RECURSIVE h3_fhdr(_, _)
h3_fhdr(d, id) ==
    LET e == take(d, id, 2 - d.q[id].rp)
    IN  IF e.r # "SOME" THEN e
        ELSE IF e.q[id].rp = 2 THEN [e EXCEPT !.q[id].in = TRUE]
        ELSE h3_fhdr(e, id)
h3_fr_next(d, id) == [d EXCEPT !.q[id].in = FALSE, !.q[id].rn = @ + 1, !.q[id].rp = 0]
OfHttp2 == {"priority", "ping", "window_update", "continuation"}

-----------------------------------------------------------------------------
(* The control stream *)

h3_settings_end(d, f) ==
    LET ids == [i \in DOMAIN f.set |-> f.set[i].id]
    IN  IF "h2" \in Range(ids) \/ \E i, j \in DOMAIN ids : i < j /\ ids[i] = ids[j]
        THEN h3_conn_err(d)
        ELSE IF \E i \in DOMAIN ids : ids[i] = "list"
        THEN [d EXCEPT !.p_list = f.set[CHOOSE i \in DOMAIN ids : ids[i] = "list"].v]
        ELSE d

\* Mutant: a GOAWAY with a larger identifier is taken as well.
h3_goaway_end_any(d, f) ==
    [d EXCEPT !.goaway = TRUE, !.goaway_id = f.n,
              !.s = [k \in Slots |-> IF @[k].used /\ @[k].id >= f.n /\ @[k].state # "END" /\ @[k].err = "OK"
                                     THEN [@[k] EXCEPT !.err = "RETRY"] ELSE @[k]]]
\* Mutant: every request under way counts as not processed.
h3_goaway_end_all(d, f) ==
    [d EXCEPT !.goaway = TRUE, !.goaway_id = f.n,
              !.s = [k \in Slots |-> IF @[k].used /\ @[k].state # "END" /\ @[k].err = "OK"
                                     THEN [@[k] EXCEPT !.err = "RETRY"] ELSE @[k]]]
h3_goaway_end(d, f) ==
    IF f.n % 4 # 0 \/ (d.goaway /\ f.n > d.goaway_id) THEN h3_conn_err(d)
    ELSE [d EXCEPT !.goaway = TRUE, !.goaway_id = f.n,
                   !.s = [k \in Slots |->
                        IF @[k].used /\ @[k].id >= f.n /\ @[k].state # "END" /\ @[k].err = "OK"
                        THEN [@[k] EXCEPT !.err = "RETRY"] ELSE @[k]]]

NotOnControl == {"DATA", "HEADERS", "PUSH", "MAXPUSH", "CANCEL"} \cup OfHttp2
h3_ctl_start(d, f) ==
    LET n == [d EXCEPT !.idle = @ + 1]
    IN  IF \/ n.idle > H3_IDLE_MAX
           \/ ~d.got_settings /\ f.t # "SETTINGS"
           \/ d.got_settings /\ f.t = "SETTINGS"
           \/ f.t = "SETTINGS" /\ f.len > H3_SET_MAX
           \/ f.t = "GOAWAY" /\ f.len = 0
           \/ f.t \in NotOnControl
        THEN h3_conn_err([n EXCEPT !.got_settings = @ \/ f.t = "SETTINGS"])
        ELSE [n EXCEPT !.got_settings = TRUE]
ctl_end(d, f) ==
    CASE f.t = "SETTINGS" -> h3_settings_end(d, f)
      [] f.t = "GOAWAY"   -> h3_goaway_end(d, f)
      [] OTHER            -> d
\* A read that gave nothing: the end of a critical stream is an error.
critical(d) == IF d.r = "WANT" THEN d ELSE h3_conn_err(d)

RECURSIVE h3_ctl(_, _)
ctl_on(d, id) == IF d.err = "OK" THEN h3_ctl(d, id) ELSE d
ctl_read(e, id) == IF e.r = "SOME" THEN h3_ctl(e, id) ELSE critical(e)
ctl_header(e, id) ==
    IF e.r = "SOME" THEN ctl_on(h3_ctl_start(e, Reading(e, id)), id) ELSE critical(e)
h3_ctl(d, id) ==
    IF ~d.q[id].in THEN ctl_header(h3_fhdr(d, id), id)
    ELSE IF d.q[id].rp < Size(Reading(d, id))
    THEN ctl_read(take(d, id, Size(Reading(d, id)) - d.q[id].rp), id)
    ELSE ctl_on(h3_fr_next(ctl_end(d, Reading(d, id)), id), id)

-----------------------------------------------------------------------------
(* Unidirectional streams *)

uni_kind(d, i, kind) ==
    LET known == h3_fr_next([d EXCEPT !.u[i].kind = kind, !.got = @ \cup ({kind} \ {"skip"})], d.u[i].id)
    IN  IF kind = "push" \/ kind \in d.got THEN h3_conn_err(known) ELSE known
uni_ended(d, i) == IF d.u[i].kind # "skip" THEN h3_conn_err(d) ELSE [d EXCEPT !.u[i] = Uni0]
uni_judged(d, i, x) ==
    IF (d.u[i].kind = "enc" /\ qpack_enc_stream(x) # "OK") \/ (d.u[i].kind = "dec" /\ qpack_dec_stream(x) # "OK")
    THEN h3_conn_err(d) ELSE d

RECURSIVE h3_uni_one(_, _)
uni_on(d, i) == IF d.err = "OK" THEN h3_uni_one(d, i) ELSE d
uni_typed(e, i) ==
    LET id == e.u[i].id
    IN  IF e.r = "SOME"
        THEN uni_on(IF e.q[id].rp = Size(Reading(e, id)) THEN uni_kind(e, i, Reading(e, id).t) ELSE e, i)
        ELSE IF e.r = "WANT" THEN e
        ELSE [e EXCEPT !.u[i] = Uni0]           \* ended before its type
uni_data(e, i) ==
    LET id == e.u[i].id
        f  == Reading(e, id)
    IN  IF e.r = "SOME"
        THEN uni_on(uni_judged(IF e.q[id].rp = Size(f) THEN h3_fr_next(e, id) ELSE e, i, f.t), i)
        ELSE IF e.r = "WANT" THEN e
        ELSE uni_ended(e, i)
h3_uni_one(d, i) ==
    LET id == d.u[i].id
    IN  CASE d.u[i].kind = "NEW" -> uni_typed(take(d, id, 2), i)
          [] d.u[i].kind = "ctl" -> h3_ctl(d, id)
          [] OTHER               -> uni_data(take(d, id, 2), i)

accept(d) ==
    IF d.accepted = d.nuni THEN d
    ELSE LET i  == CHOOSE j \in 1..H3_UNI : ~d.u[j].used /\ \A l \in 1..j - 1 : d.u[l].used
             id == 4 * d.accepted + 3
         IN  IF \A j \in 1..H3_UNI : d.u[j].used THEN h3_conn_err([d EXCEPT !.accepted = @ + 1])
             ELSE [d EXCEPT !.accepted = @ + 1, !.u[i] = [used |-> TRUE, id |-> id, kind |-> "NEW"]]
accept_all(d) ==
    LET after[n \in 0..d.nuni - d.accepted] == IF n = 0 THEN d ELSE accept(after[n - 1])
    IN  after[d.nuni - d.accepted]
serve(d, i) == IF d.err = "OK" /\ d.u[i].used THEN h3_uni_one(d, i) ELSE d
\* A stream of ours that the server stops is probed with an empty write before anything is read.
h3_uni(d) ==
    IF h3_dead(d) # "OK" THEN d
    ELSE IF d.ctl /\ d.q[CTL].stop THEN h3_conn_err(d)
    ELSE LET a == accept_all(d)
             after[i \in 0..H3_UNI] == IF i = 0 THEN a ELSE serve(after[i - 1], i)
         IN  IF a.err # "OK" THEN a ELSE after[H3_UNI]

-----------------------------------------------------------------------------
(* Request streams *)

\* RFC 9114 4.2 and 4.3 on one field of a section.
Judged0(s) == [bad |-> FALSE, seen |-> FALSE, reg |-> FALSE, park |-> FALSE, status |-> 0,
               has |-> FALSE, cl |-> 0, trailer |-> s.state = "BODY"]
Status(v) == CASE v = "s200" -> 200 [] v = "s204" -> 204 [] v = "s103" -> 103 [] OTHER -> 0
ContentLength(v) == CASE v = "cl0" -> 0 [] v = "cl1" -> 1 [] v = "cl2" -> 2 [] OTHER -> -1
h3_on_field(j, f) ==
    LET bad == [j EXCEPT !.bad = TRUE]
        reg == [j EXCEPT !.reg = TRUE]
    IN  IF j.bad THEN j
        ELSE IF f.n = "BAD" THEN bad
        ELSE IF f.n \in {":status", ":path"}
        THEN IF j.trailer \/ j.seen \/ j.reg \/ f.n # ":status" \/ Status(f.v) = 0 THEN bad
             ELSE [j EXCEPT !.seen = TRUE, !.status = Status(f.v), !.park = Status(f.v) >= 200]
        ELSE IF (~j.trailer /\ ~j.seen) \/ f.n \in {"connection", "te"} THEN bad
        ELSE IF ~j.park \/ f.n # "content-length" THEN reg
        ELSE IF ContentLength(f.v) = -1 \/ (j.has /\ ContentLength(f.v) # j.cl) THEN bad
        ELSE [reg EXCEPT !.cl = ContentLength(f.v), !.has = TRUE]

response_judged(d, k, j) ==
    LET seen == [d EXCEPT !.s[k].fl = @ \cup {"SEEN"}]
        flags == (IF j.has THEN {"CL"} ELSE {})
                 \cup (IF j.status = 204 \/ Has(d.s[k], "HEAD") THEN {"NOCL"} ELSE {})
    IN  IF j.bad \/ ~j.seen THEN h3_stream_err(seen, k)
        ELSE IF j.status >= 200
        THEN [seen EXCEPT !.s[k].state = "BODY", !.s[k].hdr = TRUE, !.s[k].fl = @ \cup flags,
                          !.s[k].cl = IF j.has THEN j.cl ELSE @, !.idle = 0]
        ELSE IF d.s[k].n1xx = H3_1XX_MAX THEN h3_conn_err(seen)
        ELSE [seen EXCEPT !.s[k].n1xx = @ + 1]
section_judged(d, k, x) ==
    LET j == FoldLeft(h3_on_field, Judged0(d.s[k]), x.fields)
    IN  IF x.rc = "PROTO" THEN h3_conn_err(d)
        ELSE IF x.rc = "LIMIT" THEN h3_stream_err(d, k)
        ELSE IF ~j.trailer THEN response_judged(d, k, j)
        ELSE IF j.bad THEN h3_stream_err(d, k)
        ELSE [d EXCEPT !.s[k].state = "TRAIL"]
h3_block(d, k, f) == section_judged(d, k, qpack_decode(f.sec))

NotOnRequest == {"PUSH", "CANCEL", "SETTINGS", "GOAWAY", "MAXPUSH"} \cup OfHttp2
h3_rs_start(d, k, f) ==
    LET s == d.s[k]
        n == [d EXCEPT !.idle = @ + 1]
        over == Checked(s) /\ s.got + f.len > s.cl
    IN  IF \/ n.idle > H3_IDLE_MAX \/ f.t \in NotOnRequest
           \/ f.t \in {"DATA", "HEADERS"} /\ s.state = "TRAIL"
           \/ f.t = "DATA" /\ s.state = "HDR" /\ ~Has(s, "SEEN")
        THEN h3_conn_err(n)
        ELSE IF f.t = "DATA"
        THEN IF s.state = "HDR" THEN h3_stream_err(n, k)
             ELSE IF over THEN h3_stream_err([n EXCEPT !.s[k].got = @ + f.len], k)
             ELSE [n EXCEPT !.s[k].got = @ + f.len]
        ELSE IF f.t = "HEADERS" /\ f.len > L THEN h3_stream_err(n, k)
        ELSE n

h3_rs_reset(d, k) ==
    LET s == d.s[k]
    IN  [d EXCEPT !.s[k].fl = @ \cup {"ABORT"},
                  !.s[k].err = IF s.state = "END" \/ @ # "OK" THEN @
                               ELSE IF d.q[s.id].rst = "REJECTED" THEN "RETRY" ELSE "PEER_ALERT"]
h3_rs_ready(d, k, data) ==
    LET s == d.s[k]
        q == d.q[s.id]
    IN  \/ s.err # "OK" \/ s.state = "END"
        \/ ~data /\ s.state # "HDR"
        \/ data /\ q.in /\ q.sent[q.rn].t = "DATA" /\ q.rp < Size(q.sent[q.rn])
\* FIN between two frames.
rs_finished(d, k) ==
    LET s == d.s[k]
    IN  IF s.state = "HDR" \/ (Checked(s) /\ s.got # s.cl) THEN h3_stream_err(d, k)
        ELSE [d EXCEPT !.s[k].state = "END"]

RECURSIVE h3_rs(_, _, _)
rs_on(d, k, data) == IF d.err = "OK" THEN h3_rs(d, k, data) ELSE d
rs_stopped(e, k) == IF e.r = "RESET" THEN h3_rs_reset(e, k) ELSE e
rs_header(e, k, data) ==
    LET id == e.s[k].id
    IN  CASE e.r = "SOME" -> rs_on(h3_rs_start(e, k, Reading(e, id)), k, data)
          [] e.r = "FIN"  -> IF e.q[id].rp # 0 THEN h3_conn_err(e) ELSE rs_finished(e, k)
          [] OTHER        -> rs_stopped(e, k)
rs_payload(e, k, data) ==
    CASE e.r = "SOME" -> h3_rs(e, k, data)
      [] e.r = "FIN"  -> h3_conn_err(e)         \* a truncated last frame
      [] OTHER        -> rs_stopped(e, k)
rs_frame_end(d, k, f) ==
    LET next == h3_fr_next(d, d.s[k].id)
    IN  IF f.t = "HEADERS" THEN h3_block(next, k, f) ELSE next
h3_rs(d, k, data) ==
    LET id == d.s[k].id
        f  == Reading(d, id)
    IN  IF h3_rs_ready(d, k, data) \/ Has(d.s[k], "ABORT") THEN d
        ELSE IF ~d.q[id].in THEN rs_header(h3_fhdr(d, id), k, data)
        ELSE IF d.q[id].rp = Size(f) THEN rs_on(rs_frame_end(d, k, f), k, data)
        ELSE IF f.t = "DATA" THEN d
        ELSE rs_payload(take(d, id, Size(f) - d.q[id].rp), k, data)

-----------------------------------------------------------------------------
(* The blocking calls.  c.call.w: the call is inside op->wait. *)

Return(d) == [d EXCEPT !.call = NoCall, !.r = "WANT", !.m = 0]
Wiped == [h3_setup EXCEPT !.call.op = "closed"]
Wait(d)   == [d EXCEPT !.call.w = TRUE, !.r = "WANT", !.m = 0]
Restart(d) == [d EXCEPT !.call.stall = Script.stall]
Failed(d) == h3_dead(d) # "OK"

\* History: BRISK_E_RETRY reaches the application.
Unprocessed(d, id) ==
    \/ d.q[id].rst = "REJECTED"
    \/ \E u \in UniIds : \E i \in DOMAIN d.q[u].sent : d.q[u].sent[i].t = "GOAWAY" /\ d.q[u].sent[i].n <= id
Told(d, k) == IF d.s[k].err # "RETRY" THEN d
              ELSE [d EXCEPT !.g.retry = @ /\ Unprocessed(d, d.s[k].id)]

h3_release(d, k) ==
    LET s == d.s[k]
        open == ~Failed(d) /\ ~Has(s, "ABORT") /\ ~(s.state = "END" /\ Has(s, "SENT"))
    IN  [d EXCEPT !.q[s.id].ab = @ \/ open, !.s[k] = Slot0]

\* What h3_send writes in each phase of a call, and what comes after it.
StreamOf(d) == IF d.call.op = "start" THEN CTL ELSE d.s[d.call.k].id
LastPhase(l) == l.ph = "body" \/ (l.ph = "section" /\ l.req.body = 0)
NextPhase(l) == IF l.ph = "section" THEN [l EXCEPT !.ph = "dh", !.n = 1]
                ELSE [l EXCEPT !.ph = "body", !.n = l.req.body]
request_sent(d) == Return([d EXCEPT !.s[d.call.k].fl = @ \cup {"SENT"}])
start_done(d) == IF Failed(d) THEN Wiped ELSE Return(d)
\* Ends a call that fails: what was sent of a request is cancelled, a handle that did not open is gone.
give_up(d) ==
    IF d.call.op = "start" THEN Wiped
    ELSE Return(IF d.call.op = "request" /\ d.call.ph # "open" THEN h3_release(d, d.call.k) ELSE d)

\* Mutant: any round restarts the stall clock.
waiting_turn_restarted(d) == LET e == h3_uni(Restart(d)) IN IF Failed(e) THEN give_up(e) ELSE Wait(e)
waiting_turn(d) == LET e == h3_uni(d) IN IF Failed(e) THEN give_up(e) ELSE Wait(e)
RECURSIVE h3_send(_)
h3_sent(e) ==       \* after one write
    LET l == e.call
    IN  IF e.r = "STOPPED"
        THEN IF l.op = "start" THEN Wiped ELSE request_sent(e)
        ELSE IF e.r = "ARG" THEN give_up(e)
        ELSE IF e.m < l.n
        THEN waiting_turn([(IF e.m > 0 THEN Restart(e) ELSE e) EXCEPT !.call.n = @ - e.m])
        ELSE IF l.op = "start" THEN start_done(h3_uni(e))
        ELSE IF LastPhase(l) THEN request_sent(e)
        ELSE h3_send([e EXCEPT !.call = NextPhase(l)])
h3_send(d) == h3_sent(put(d, StreamOf(d), d.call.n, d.call.op = "request" /\ LastPhase(d.call)))

start_turn(d) ==
    IF d.call.ph # "open" THEN h3_send(d)
    ELSE IF Failed(d) THEN Wiped
    ELSE IF d.unicredit = 0 THEN waiting_turn(d)
    ELSE h3_send([d EXCEPT !.unicredit = @ - 1, !.ctl = TRUE, !.q[CTL].open = TRUE,
                           !.call.ph = "pre", !.call.n = PREFACE])

opened(d) ==
    LET id == 4 * d.nreq
        k  == d.call.k
        sec == qpack_encode(d.call.req.fields)
    IN  [d EXCEPT !.credit = @ - 1, !.nreq = @ + 1, !.q[id].open = TRUE,
                  !.s[k] = [Slot0 EXCEPT !.used = TRUE, !.id = id,
                                         !.fl = IF d.call.req.head THEN {"HEAD"} ELSE {}],
                  !.call.ph = "section", !.call.n = d.call.req.hlen,
                  !.g.sec[id] = sec, !.g.fields[id] = d.call.req.fields,
                  !.g.total[id] = d.call.req.hlen + (IF d.call.req.body = 0 THEN 0 ELSE d.call.req.body + 1)]
open_turn(d) ==
    IF Failed(d) THEN Return(d)
    ELSE IF d.credit = 0 THEN waiting_turn(d)
    ELSE h3_send(opened(d))
\* A turn after a wait.
request_turn(d) ==
    IF d.call.ph # "open" THEN h3_send(d)
    ELSE IF d.goaway THEN Return(d)             \* BRISK_E_RETRY, never sent
    ELSE open_turn(d)

response_done(d, k) ==
    Return(IF d.s[k].err # "OK" THEN Told(d, k)
           ELSE [d EXCEPT !.s[k].hdr = FALSE, !.s[k].fl = @ \cup {"RESP"}])
DataSent(q) == FoldLeft(LAMBDA n, f : n + (IF f.t = "DATA" THEN f.len ELSE 0), 0, q.sent)
end_told(d, k) ==
    LET id == d.s[k].id
    IN  [d EXCEPT !.g.whole = @ /\ d.q[id].fin /\ d.g.read[id] = DataSent(d.q[id])
                                /\ (Checked(d.s[k]) => d.g.read[id] = d.s[k].cl)]
read_taken(e, k) ==
    LET id == e.s[k].id
    IN  CASE e.r = "SOME"  -> Return([e EXCEPT !.idle = 0, !.g.read[id] = @ + e.m])
          [] e.r = "RESET" -> Return(Told(h3_rs_reset(e, k), k))
          [] e.r = "FIN"   -> Return(h3_conn_err(e))
          [] OTHER         -> Wait(e)
read_turn(d, k) ==
    LET id == d.s[k].id
    IN  IF d.s[k].err # "OK" THEN Return(Told(d, k))
        ELSE IF d.s[k].state = "END" THEN Return(end_told(d, k))
        ELSE read_taken(take(d, id, Smaller(d.call.cap, Size(Reading(d, id)) - d.q[id].rp)), k)
\* h3_wait up to its wait, and what the call does when its condition holds.
waited_turn(e, k, data) ==
    IF Failed(e) THEN Return(e)
    ELSE IF ~h3_rs_ready(e, k, data) THEN Wait(e)
    ELSE IF data THEN read_turn(e, k) ELSE response_done(e, k)
h3_wait_turn(d, k, data) ==
    LET u == h3_uni(d) IN IF Failed(u) THEN Return(u) ELSE waited_turn(h3_rs(u, k, data), k, data)

Turn(d) ==
    CASE d.call.op = "start"    -> start_turn(d)
      [] d.call.op = "request"  -> request_turn(d)
      [] d.call.op = "response" -> h3_wait_turn(d, d.call.k, FALSE)
      [] d.call.op = "read"     -> h3_wait_turn(d, d.call.k, TRUE)

\* The end of a wait: a round, the stall limit, or the connection's own failure.
WaitOk ==
    /\ c.call.w /\ c.dead = "OK" /\ c.call.stall > 0
    /\ c' = Turn([c EXCEPT !.call.w = FALSE, !.call.stall = @ - 1])
WaitFailed ==       \* BRISK_E_TIMEOUT, or the sticky error
    /\ c.call.w
    /\ c' = give_up([c EXCEPT !.call.w = FALSE])

-----------------------------------------------------------------------------
(* The application *)

Called(op, k) == [NoCall EXCEPT !.op = op, !.k = k, !.stall = Script.stall]
Start ==
    /\ ~c.ctl /\ ~Failed(c)
    /\ c' = Turn([c EXCEPT !.idle = 0, !.call = [Called("start", 0) EXCEPT !.ph = "open"]])
Free == {k \in Slots : ~c.s[k].used}
\* What is served before a request is checked.
Request(req) ==
    /\ c.ctl /\ Free # {} /\ c.nreq < Script.nreq
    /\ LET e == h3_uni(c)
           k == CHOOSE k \in Free : \A j \in Free : k <= j
       IN  c' = IF Failed(e) \/ e.goaway \/ req.list > e.p_list THEN e
                ELSE open_turn([e EXCEPT !.idle = 0, !.call = [Called("request", k) EXCEPT !.ph = "open", !.req = req]])
Response(k) ==
    /\ c.s[k].used /\ ~Has(c.s[k], "RESP")
    /\ c' = Turn([c EXCEPT !.idle = 0, !.call = Called("response", k)])
Read(k, cap) ==
    /\ c.s[k].used /\ Has(c.s[k], "RESP")
    /\ c' = Turn([c EXCEPT !.idle = 0, !.call = [Called("read", k) EXCEPT !.cap = cap]])
StreamClose(k) == c.s[k].used /\ c' = h3_release(c, k)
Close == c.ctl /\ c' = Wiped

-----------------------------------------------------------------------------
(* The server and the network, while a call waits *)

Live(id) == c.q[id].open /\ ~c.q[id].fin /\ c.q[id].rst = "none" /\ ~c.q[id].ab
Whole(id) == LET q == c.q[id] IN IF q.sent = <<>> THEN TRUE ELSE q.cut = Size(q.sent[Len(q.sent)])
Cuts(f) == IF Script.cuts THEN 1..Size(f) ELSE {Size(f)}
FramesOf(id) ==
    IF id = CTL THEN {}
    ELSE IF id \in ReqIds THEN Script.req
    ELSE IF c.q[id].sent = <<>> THEN {} ELSE Script.uni[c.q[id].sent[1].t]
UniOpen == Cardinality({id \in UniIds : c.q[id].open /\ ~c.q[id].done})
ServerSteps ==
    \/ \E id \in Ids : Live(id) /\ Whole(id) /\ \E f \in FramesOf(id) : \E p \in Cuts(f) :
            c' = [c EXCEPT !.q[id].sent = Append(@, f), !.q[id].cut = p]
    \/ \E f \in Script.kinds : \E p \in Cuts(f) :
            /\ UniOpen < UNI_CREDIT /\ c.nuni < NUNI
            /\ c' = [c EXCEPT !.nuni = @ + 1, !.q[4 * c.nuni + 3] =
                        [Quic0 EXCEPT !.open = TRUE, !.sent = <<f>>, !.cut = p]]
    \/ \E id \in Ids \ {CTL} : Script.fin /\ Live(id) /\ c' = [c EXCEPT !.q[id].fin = TRUE]
    \/ \E id \in Ids \ {CTL}, code \in Script.rst :
            Live(id) /\ c' = [c EXCEPT !.q[id].rst = code]
    \/ \E id \in Ids \ UniIds : Script.stop /\ Live(id) /\ ~c.q[id].stop /\ c' = [c EXCEPT !.q[id].stop = TRUE]
    \/ Script.die /\ c.dead = "OK" /\ \E e \in {"PEER_ALERT", "IO"} : c' = [c EXCEPT !.dead = e]
\* What costs the server nothing: the rest of a frame, credit, and acknowledgements.
NetworkSteps ==
    \/ \E id \in Ids \ {CTL} :
            /\ Live(id) /\ ~Whole(id)
            /\ \E p \in c.q[id].cut + 1..Size(c.q[id].sent[Len(c.q[id].sent)]) :
                    c' = [c EXCEPT !.q[id].cut = p]
    \/ c.credit = 0 /\ c.nreq < Script.nreq /\ c' = [c EXCEPT !.credit = 1]
    \/ ~c.ctl /\ c.unicredit = 0 /\ c' = [c EXCEPT !.unicredit = 1]
    \/ \E id \in Ids : c.q[id].open /\ c.q[id].room < ROOM /\ c' = [c EXCEPT !.q[id].room = ROOM]
Deliver ==
    /\ c.call.w /\ c.dead = "OK" /\ UNCHANGED <<plan, turn>>
    /\ \/ left > 0 /\ left' = left - 1 /\ ServerSteps
       \/ UNCHANGED left /\ NetworkSteps

Init ==
    /\ plan \in DOMAIN Plans /\ left = Plans[plan].n /\ turn = 0
    /\ c = IF Plans[plan].started THEN started ELSE h3_setup
CallStep == (WaitOk \/ WaitFailed) /\ turn' = 1 - turn /\ UNCHANGED <<plan, left>>
AppStep ==
    /\ c.call.op = "none" /\ UNCHANGED <<plan, left, turn>>
    /\ \/ Start \/ Close
       \/ \E req \in Script.reqs : Request(req)
       \/ \E k \in Slots : Response(k) \/ StreamClose(k) \/ \E cap \in Script.caps : Read(k, cap)
Closed == c.call.op = "closed" /\ UNCHANGED vars
Next == CallStep \/ AppStep \/ Deliver \/ Closed
Spec == Init /\ [][Next]_vars

\* The thread of a call runs, and a wait ends: poll has a timeout.
CallTurn == c.call.w /\ turn' = 1 - turn
FairSpec == Spec /\ WF_turn(CallTurn)

-----------------------------------------------------------------------------
(* Properties *)

\* The grammar of RFC 9114 on what was read of a stream, judged as a whole.
HeadersRead(id) == {i \in DOMAIN c.q[id].sent : i < c.q[id].rn \/ (i = c.q[id].rn /\ c.q[id].in)}
FramesRead(id)  == {i \in DOMAIN c.q[id].sent : i < c.q[id].rn}
At(id, i)       == c.q[id].sent[i]
Sections(id)    == {i \in FramesRead(id) : At(id, i).t = "HEADERS"}
Fields(id, i)   == qpack_decode(At(id, i).sec)

RegularOk(fs) == \A x \in Range(fs) : x.n \notin {"BAD", ":path", "connection", "te"}
Lengths(fs)   == {ContentLength(x.v) : x \in {y \in Range(fs) : y.n = "content-length"}}
ResponseOk(fs) ==
    /\ fs # <<>> /\ fs[1].n = ":status" /\ Status(fs[1].v) # 0
    /\ \A i \in 2..Len(fs) : fs[i].n # ":status"
    /\ RegularOk(fs)
    /\ Status(fs[1].v) >= 200 => Cardinality(Lengths(fs)) <= 1 /\ -1 \notin Lengths(fs)
TrailerOk(fs) == RegularOk(fs) /\ \A x \in Range(fs) : x.n # ":status"
Heads(id) == {i \in Sections(id) : Fields(id, i).rc = "OK" /\ ResponseOk(Fields(id, i).fields)}
IsFinal(id, i)   == Status(Fields(id, i).fields[1].v) >= 200
Before(id, i, S) == \E j \in S : j < i
Final(id)        == {i \in Heads(id) : IsFinal(id, i) /\ \A j \in Heads(id) : j < i => ~IsFinal(id, j)}
Interim(id)      == {i \in Heads(id) : ~IsFinal(id, i) /\ ~Before(id, i, Final(id))}
Trailers(id) == {i \in Sections(id) : Before(id, i, Final(id))}
DataLen(id) == FoldLeft(LAMBDA n, i : n + (IF i \in HeadersRead(id) /\ At(id, i).t = "DATA" THEN At(id, i).len ELSE 0),
                        0, [i \in DOMAIN c.q[id].sent |-> i])

ControlBroken(id) ==
    LET frames == {i \in HeadersRead(id) : i > 1}
        ends   == {i \in FramesRead(id) : i > 1}
        goes   == {i \in ends : At(id, i).t = "GOAWAY"}
    IN  \/ c.q[id].done
        \/ \E i \in frames :
                \/ (i = 2) # (At(id, i).t = "SETTINGS")
                \/ At(id, i).t \in NotOnControl
                \/ At(id, i).t = "GOAWAY" /\ At(id, i).len = 0
                \/ At(id, i).len > H3_SET_MAX /\ At(id, i).t = "SETTINGS"
        \/ \E i \in goes : At(id, i).n % 4 # 0 \/ \E j \in goes : j < i /\ At(id, j).n < At(id, i).n
        \/ \E i \in ends : At(id, i).t = "SETTINGS"
                /\ \E x, y \in DOMAIN At(id, i).set :
                        At(id, i).set[x].id = "h2" \/ (x # y /\ At(id, i).set[x].id = At(id, i).set[y].id)
Typed(kind) == {id \in UniIds : 1 \in FramesRead(id) /\ At(id, 1).t = kind}
UniBroken ==
    \/ Typed("push") # {}
    \/ \E kind \in {"ctl", "enc", "dec"} : Cardinality(Typed(kind)) > 1
    \/ \E id \in Typed("ctl") : ControlBroken(id)
    \/ \E id \in Typed("enc") \cup Typed("dec") :
            \/ c.q[id].done
            \/ \E i \in DOMAIN c.q[id].sent : (i < c.q[id].rn \/ (i = c.q[id].rn /\ c.q[id].rp > 0))
                                              /\ At(id, i).t \in {"insert", "ack"}
RequestBroken(id) ==
    \/ \E i \in HeadersRead(id) :
            \/ At(id, i).t \in NotOnRequest
            \/ At(id, i).t = "DATA" /\ ~Before(id, i, Sections(id))
            \/ At(id, i).t \in {"DATA", "HEADERS"} /\ Before(id, i, Trailers(id))
    \/ \E i \in Sections(id) : Fields(id, i).rc = "PROTO"
    \/ c.q[id].fin /\ c.q[id].done /\ c.q[id].rp > 0
    \/ Cardinality(Interim(id)) > H3_1XX_MAX
Flooded == H3_IDLE_MAX < FoldLeft(LAMBDA n, id : n + Cardinality(HeadersRead(id)), 0, SetToSeq(ReqIds \cup Typed("ctl")))
\* What breaks one request: of the slot that read stream id.
ResponseBroken(id, s) ==
    \/ \E i \in Sections(id) :
            \/ Fields(id, i).rc = "LIMIT"
            \/ ~(IF Before(id, i, Final(id)) THEN TrailerOk(Fields(id, i).fields) ELSE ResponseOk(Fields(id, i).fields))
    \/ \E i \in HeadersRead(id) :
            \/ At(id, i).t = "HEADERS" /\ At(id, i).len > L
            \/ At(id, i).t = "DATA" /\ ~Before(id, i, Final(id))
    \/ Checked(s) /\ (DataLen(id) > s.cl \/ (c.q[id].done /\ DataLen(id) # s.cl))
    \/ c.q[id].done /\ c.q[id].fin /\ Final(id) = {}
ConnectionBroken == UniBroken \/ \E id \in ReqIds : RequestBroken(id)

\* However the octets were cut, delayed and interleaved, the connection fails for, and only for,
\* what RFC 9114 forbids in what was read, and a request for what its own stream said.
VerdictIsRight ==
    /\ c.err = "PROTO" => ConnectionBroken \/ Flooded \/ c.q[CTL].stop
    /\ ConnectionBroken => Failed(c)
    /\ \A k \in Slots : c.s[k].used /\ ~Failed(c) =>
            /\ c.s[k].err = "PROTO" => ResponseBroken(c.s[k].id, c.s[k])
            /\ ResponseBroken(c.s[k].id, c.s[k]) => c.s[k].err # "OK"

\* brisk_h3_read says 0 only when the server finished the stream, every octet of its DATA went to
\* the application, and their number is the content-length.
EndIsWhole == c.g.whole

\* BRISK_E_RETRY reaches the application only for a request the server said it did not process.
RetrySafe == c.g.retry

\* A stream whose slot is freed while the connection lives is finished both ways, or cancelled,
\* or was reset by the server: no QUIC stream is left to linger.
NoHalfOpen ==
    ~Failed(c) /\ c.call.op = "none" =>
        \A id \in ReqIds :
            \/ ~c.q[id].open \/ c.q[id].ab \/ c.q[id].rst # "none"
            \/ c.q[id].done /\ (c.q[id].stop \/ (c.q[id].wfin /\ c.q[id].wr = c.g.total[id]))
            \/ \E k \in Slots : c.s[k].used /\ c.s[k].id = id

\* A server's decoder gets back the fields of the request, and no field the caller called
\* sensitive is sent as an index of the table.
RequestDecodes ==
    \A id \in ReqIds : c.q[id].open =>
        /\ qpack_decode(c.g.sec[id]).fields = [i \in DOMAIN c.g.fields[id] |->
                                                [n |-> c.g.fields[id][i].n, v |-> c.g.fields[id][i].v]]
        /\ \A i \in DOMAIN c.g.fields[id] : c.g.fields[id][i].never => c.g.sec[id].lines[i].never

\* Every call returns: the stall limit ends the waits, whatever the server sends meanwhile.
CallsReturn == []<>(~c.call.w)

\* Every request has an end that both sides agree on: 0 only at a whole body, repeated only if the
\* server did not process it, and no stream left half open.
RequestsConcluded == EndIsWhole /\ RetrySafe /\ NoHalfOpen
=============================================================================
