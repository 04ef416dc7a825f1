------------------------------- MODULE H2 -------------------------------
(***************************************************************************)
(* The HTTP/2 client, http/h2.c: frames, streams, flow control and the     *)
(* blocking calls over them, with the header compression of Hpack.         *)
(*                                                                         *)
(* c is struct brisk_h2; a function of the source is an operator of the    *)
(* same name from one value of c to the next.  One step is one call of the *)
(* application, one turn of the loop of h2_wait, or one turn of the loop   *)
(* that sends a body; the server sends any frame of the plan at any time,  *)
(* which covers every delay of its answers, and the transport may cut a    *)
(* frame, time out, end, or fail a write between any two turns.            *)
(*                                                                         *)
(* Octets are counted, not written.  A control frame takes one unit of tx, *)
(* a frame with a payload one unit more than its payload.  A connection    *)
(* error is the sticky "PROTO" whatever code its GOAWAY carries.           *)
(***************************************************************************)
EXTENDS Hpack, FiniteSets, Functions

CONSTANTS
    N,              \* BRISK_H2_MAX_STREAMS
    W,              \* BRISK_H2_STREAM_WINDOW
    WIN0,           \* 65535, the windows of a new connection
    MAXWIN,         \* 2^31-1
    TX,             \* BRISK__H2_TX in units
    RESERVE,        \* H2_RESERVE: the frames one server frame may cause
    IDLE_MAX, CONT_MAX, N1XX_MAX,
    MAX_ID,         \* last stream id the model opens
    Plans           \* what the application, the server and the transport do in a run

CREDIT   == W \div 2
CONN_WIN == IF N * W > WIN0 THEN N * W ELSE WIN0
Slots    == 1..N
Ids      == {id \in 1..MAX_ID : id % 2 = 1}

ASSUME H2Assumption ==
    /\ {N, W, WIN0, MAXWIN, TX, RESERVE, IDLE_MAX, CONT_MAX, N1XX_MAX, MAX_ID} \subseteq Nat \ {0}
    /\ W > 1 /\ CONN_WIN <= MAXWIN /\ N <= CREDIT      \* brisk_config.h: at most 64, at least 512
    /\ RESERVE >= 4                     \* RST_STREAM, two WINDOW_UPDATE, GOAWAY
    /\ TX >= 4 * N + RESERVE            \* what reads queue before the next flush

Representations == [t : {"size", "index", "lit"}, ins : BOOLEAN, i : Nat,
                    n : DOMAIN Length, v : DOMAIN Length, m : Nat]
SettingList == [id : {"table", "conc", "window", "list", "bad", "other"}, v : Nat]
FrameKinds == {"DATA", "HEADERS", "CONT", "RST", "WU", "SETTINGS", "PING", "GOAWAY", "FLAWED"}
Frames ==
    {fr \in [t : FrameKinds, sid : Nat, len : Nat, pad : Nat \cup {-1}, es : BOOLEAN, eh : BOOLEAN,
             v : Seq(Representations \cup SettingList), n : Nat, code : STRING] :
        /\ fr.t \in {"HEADERS", "CONT"} => fr.v \in Seq(Representations)
        /\ fr.t = "SETTINGS" => fr.v \in Seq(SettingList)}
ASSUME PlansAssumption ==
    \A p \in DOMAIN Plans :
        /\ Plans[p].n \in Nat /\ Plans[p].last_id \in 0..MAX_ID /\ Plans[p].caps \subseteq Nat
        /\ {Plans[p].cuts, Plans[p].staged, Plans[p].eof, Plans[p].wr} \subseteq BOOLEAN
        /\ Plans[p].frames \subseteq Frames /\ Plans[p].free \subseteq Frames
        /\ Plans[p].reqs \subseteq [body : Nat, hlen : Nat, list : Nat, head : BOOLEAN]

VARIABLES
    c,              \* struct brisk_h2, and in g the history the properties judge by
    call,           \* the call in progress: [op, k slot, left octets of the body, cap]
    plan, left,     \* the plan of this behaviour, the frames the server may still send
    turn            \* changes with every turn of a call: what the fairness is about
vars == <<c, call, plan, left, turn>>

Script == Plans[plan]

NoCall == [op |-> "none", k |-> 0, left |-> 0, cap |-> 0]
NoFrame == [t |-> "none", sid |-> 0, len |-> 0, pad |-> -1, es |-> FALSE, eh |-> FALSE,
            v |-> <<>>, n |-> 0, code |-> "none"]
Slot0 == [id |-> 0, swin |-> 0, rwin |-> 0, pend |-> 0, rlen |-> 0, hdr |-> 0, ready |-> 0,
          got |-> 0, cl |-> 0, n1xx |-> 0, err |-> "OK", fl |-> {}]
Block0 == [in |-> FALSE, sid |-> 0, s |-> 0, es |-> FALSE, cont |-> 0, trailer |-> FALSE,
           pre |-> 0, len |-> 0, rep |-> <<>>]

\* The history of a stream: what we sent, what the server sent, what the application was told.
Stream0 == [ph |-> "idle", sent |-> 0, wu |-> 0, dat |-> 0, es |-> FALSE, unproc |-> FALSE,
            read |-> 0, whole |-> TRUE, retry |-> TRUE]
History0 == [st |-> [id \in Ids |-> Stream0], wire |-> TRUE, extra |-> 0,
             tab |-> [tab |-> <<>>, max |-> hpack_dec_init.max], believed |-> TABLE0, low |-> TABLE0]

setup ==
    [err |-> "OK", eof |-> "no", goaway |-> FALSE, goaway_err |-> FALSE, last_id |-> 0,
     next_id |-> 1, p_conc |-> MAXWIN, p_win |-> WIN0, p_list |-> MAXWIN, cwin |-> WIN0,
     crwin |-> CONN_WIN, cpend |-> 0, got_settings |-> FALSE, idle |-> 0, tx |-> 2,
     fault |-> FALSE, rx |-> FALSE, fh |-> 0, f |-> NoFrame, pos |-> 0, fs |-> 0, dat |-> 0,
     b |-> Block0, dec |-> hpack_dec_init, enc |-> hpack_enc_init, s |-> [k \in Slots |-> Slot0],
     g |-> History0]

-----------------------------------------------------------------------------
(* Output queue *)

Has(s, flag) == flag \in s.fl
BothEnds(s)  == {"SENT_END", "RECV_END"} \subseteq s.fl

\* History: a frame of ours on stream id, legal in the phases ok, moves it to phase ph.
Wire(d, id, ok, ph) ==
    [d EXCEPT !.g = [d.g EXCEPT !.wire = d.g.wire /\ d.g.st[id].ph \in ok, !.st[id].ph = ph]]

h2_ctrl(d) == [d EXCEPT !.fault = @ \/ d.tx = TX, !.tx = @ + 1]
h2_conn_err(d) == IF d.err = "OK" THEN [h2_ctrl(d) EXCEPT !.err = "PROTO"] ELSE d

rst_stream(d, k) == Wire(h2_ctrl(d), d.s[k].id, {"open", "ended"}, "reset")
h2_stream_err(d, k) ==
    LET failed == [d EXCEPT !.s[k].err = IF @ = "OK" THEN "PROTO" ELSE @,
                            !.s[k].fl  = @ \cup {"RST"}]
    IN  IF Has(d.s[k], "RST") \/ BothEnds(d.s[k]) THEN failed ELSE rst_stream(failed, k)

credit_stream(d, k) ==
    IF k # 0 /\ d.s[k].pend >= CREDIT /\ ~Has(d.s[k], "RECV_END") /\ ~Has(d.s[k], "RST")
    THEN [Wire(h2_ctrl(d), d.s[k].id, {"open", "ended"}, d.g.st[d.s[k].id].ph)
            EXCEPT !.s[k].rwin = @ + d.s[k].pend, !.s[k].pend = 0]
    ELSE d
credit_conn(d) ==
    IF d.cpend >= CREDIT THEN [h2_ctrl(d) EXCEPT !.crwin = @ + d.cpend, !.cpend = 0] ELSE d
h2_credit(d, k) == credit_conn(credit_stream(d, k))

\* w: the transport takes the octets.  A failed write is final for the handle.
h2_flush(d, w) ==
    IF d.tx = 0 THEN d
    ELSE [d EXCEPT !.tx = 0, !.err = IF ~w /\ @ = "OK" THEN "IO" ELSE @]
Flushed(d, w) == d.tx = 0 \/ w

-----------------------------------------------------------------------------
(* Receive side *)

ring_put_octets(d, k, n) ==
    IF n > W + MAX_LIST - d.s[k].rlen THEN [d EXCEPT !.fault = TRUE]
    ELSE [d EXCEPT !.s[k].rlen = @ + n]

ZeroOrIdle(d, sid) == sid = 0 \/ sid % 2 = 0 \/ sid >= d.next_id
Idle(d, sid) == sid # 0 /\ ZeroOrIdle(d, sid)
\* The live slot of a stream, 0 when it is reset, closed both ways, or no longer tracked.
Live(d, sid) ==
    LET live == {k \in Slots : d.s[k].id = sid /\ ~Has(d.s[k], "RST") /\ ~BothEnds(d.s[k])}
    IN  IF sid = 0 \/ live = {} THEN 0 ELSE CHOOSE k \in live : TRUE

ClChecked(s) == Has(s, "HAS_CL") /\ ~Has(s, "NOCL")
\* Mutant: the content-length is not compared at the end.
h2_recv_end_short(d, k) == [d EXCEPT !.s[k].fl = @ \cup {"RECV_END"}]
h2_recv_end(d, k) ==
    LET ended == [d EXCEPT !.s[k].fl = @ \cup {"RECV_END"}]
    IN  IF ClChecked(d.s[k]) /\ d.s[k].got # d.s[k].cl THEN h2_stream_err(ended, k) ELSE ended

\* RFC 9113 8.2 and 8.3 on one field of a block for a live stream.
Judged0(b) == [bad |-> FALSE, seen |-> FALSE, reg |-> FALSE, park |-> FALSE, status |-> 0,
               has |-> FALSE, cl |-> 0, parked |-> 0, trailer |-> b.trailer]
Status(v) == CASE v = "s200" -> 200 [] v = "s204" -> 204 [] v = "s103" -> 103 [] OTHER -> 0
ContentLength(v) == CASE v = "cl0" -> 0 [] v = "cl1" -> 1 [] v = "cl2" -> 2 [] OTHER -> -1
Pseudo(n) == n \in {":status", ":path"}
h2_on_field(j, f) ==
    LET bad == [j EXCEPT !.bad = TRUE]
        reg == [j EXCEPT !.reg = TRUE]
        put == [reg EXCEPT !.parked = @ + ENTRY_HDR + Length[f.n] + Length[f.v]]
    IN  IF j.bad THEN j
        ELSE IF f.n = "BAD" THEN bad
        ELSE IF Pseudo(f.n)
        THEN IF j.trailer \/ j.seen \/ j.reg \/ f.n # ":status" \/ Status(f.v) = 0 THEN bad
             ELSE [j EXCEPT !.seen = TRUE, !.status = Status(f.v), !.park = Status(f.v) >= 200]
        ELSE IF (~j.trailer /\ ~j.seen) \/ f.n \in {"connection", "te"} THEN bad
        ELSE IF ~j.park THEN reg
        ELSE IF f.n = "content-length"
        THEN IF ContentLength(f.v) = -1 \/ (j.has /\ ContentLength(f.v) # j.cl) THEN bad
             ELSE [put EXCEPT !.cl = ContentLength(f.v), !.has = TRUE]
        ELSE put

judged(b, fields) ==
    LET after[i \in 0..Len(fields)] ==
            IF i = 0 THEN Judged0(b) ELSE h2_on_field(after[i - 1], fields[i])
    IN  after[Len(fields)]

\* The rules on the whole block: 1xx never ends a stream, trailers always do.
Malformed(b, j) ==
    \/ j.bad
    \/ ~b.trailer /\ (~j.seen \/ (j.status < 200 /\ b.es))
    \/ b.trailer /\ ~b.es
block_judged(d, k, b, j) ==
    LET s     == d.s[k]
        reset == [d EXCEPT !.idle = IF b.trailer \/ j.status >= 200 THEN 0 ELSE @]
        final == [reset EXCEPT !.s[k] =
                    [s EXCEPT !.rlen = @ + j.parked, !.hdr = s.rlen + j.parked,
                              !.cl = IF j.has THEN j.cl ELSE @,
                              !.fl = @ \cup {"FINAL"} \cup (IF j.has THEN {"HAS_CL"} ELSE {})
                                       \cup (IF j.status = 204 \/ Has(s, "HEAD")
                                             THEN {"NOCL"} ELSE {})]]
        told  == IF b.trailer THEN reset ELSE final
    IN  IF Malformed(b, j)
        THEN h2_stream_err([reset EXCEPT !.s[k].rlen = b.pre, !.g.extra = @ + b.pre - s.rlen], k)
        ELSE IF ~b.trailer /\ j.status < 200
        THEN IF s.n1xx = N1XX_MAX THEN h2_conn_err(reset) ELSE [reset EXCEPT !.s[k].n1xx = @ + 1]
        ELSE IF b.es THEN h2_recv_end(told, k) ELSE told
\* Mutant: a block of a stream that is no longer there skips the decoder.
block_decoded_live(d, b, x) ==
    IF b.s = 0 THEN d
    ELSE IF ~x.ok THEN h2_conn_err(d)
    ELSE block_judged([d EXCEPT !.dec = x.d], b.s, b, judged(b, x.fields))
block_decoded(d, b, x) ==
    IF ~x.ok THEN h2_conn_err(d)
    ELSE IF b.s = 0 THEN [d EXCEPT !.dec = x.d]
    ELSE block_judged([d EXCEPT !.dec = x.d], b.s, b, judged(b, x.fields))
h2_block_end(d) ==
    block_decoded([d EXCEPT !.b = Block0], d.b, hpack_decode(d.dec, d.b.rep))

\* Mutant: streams already open keep their send window.
SetWindow_new(d, v) == [d EXCEPT !.p_win = v]
SetWindow(d, v) ==
    LET w == [k \in Slots |-> d.s[k].swin + v - d.p_win]
    IN  IF \E k \in Slots : d.s[k].id # 0 /\ w[k] > MAXWIN THEN h2_conn_err(d)
        ELSE [d EXCEPT !.p_win = v,
                       !.s = [k \in Slots |-> IF d.s[k].id = 0 THEN d.s[k]
                                              ELSE [d.s[k] EXCEPT !.swin = w[k]]]]
h2_setting(d, p) ==
    CASE p.id = "table"  -> [d EXCEPT !.enc = hpack_enc_peer_max(@, p.v),
                                      !.g.low = IF p.v < @ THEN p.v ELSE @]
      [] p.id = "conc"   -> [d EXCEPT !.p_conc = p.v]
      [] p.id = "window" -> SetWindow(d, p.v)
      [] p.id = "list"   -> [d EXCEPT !.p_list = p.v]
      [] p.id = "bad"    -> h2_conn_err(d)
      [] OTHER           -> d

\* Mutant: every open stream counts as not processed.
h2_goaway_all(d, last, code) ==
    [d EXCEPT !.goaway = TRUE,
              !.s = [k \in Slots |-> IF d.s[k].id = 0 THEN d.s[k]
                                     ELSE [d.s[k] EXCEPT !.fl = @ \cup {"RST"}, !.err = "RETRY"]]]
h2_goaway(d, last, code) ==
    LET low  == IF ~d.goaway \/ last < d.last_id THEN last ELSE d.last_id
        lost == {k \in Slots : d.s[k].id > low /\ ~Has(d.s[k], "RST") /\ ~Has(d.s[k], "RECV_END")}
    IN  [d EXCEPT !.goaway = TRUE, !.last_id = low, !.goaway_err = @ \/ code # "NO_ERROR",
                  !.s = [k \in Slots |->
                    IF k \in lost
                    THEN [d.s[k] EXCEPT !.fl = @ \cup {"RST"}, !.err = IF @ = "OK" THEN "RETRY" ELSE @]
                    ELSE d.s[k]],
                  !.g.st = [id \in Ids |-> IF \E k \in lost : d.s[k].id = id
                                           THEN [@[id] EXCEPT !.ph = "reset"] ELSE @[id]]]

h2_rst_recv(s, code) ==
    LET rst == [s EXCEPT !.fl = @ \cup {"RST"}]
    IN  IF s.err # "OK" THEN rst
        ELSE IF code = "REFUSED" THEN [rst EXCEPT !.err = "RETRY"]
        ELSE IF code = "NO_ERROR" /\ Has(s, "RECV_END") THEN [rst EXCEPT !.fl = @ \cup {"SENT_END"}]
        ELSE [rst EXCEPT !.err = "PEER_ALERT"]

-----------------------------------------------------------------------------
(* Frames *)

\* History: what the server says with a frame on a stream we opened.
FrameData(fr, p) ==     \* octets of data among the first p of the payload
    LET pfx == IF fr.pad < 0 THEN 0 ELSE 1
        end == IF fr.pad < 0 THEN fr.len ELSE fr.len - fr.pad
        q   == IF p < end THEN p ELSE end
    IN  IF q < pfx THEN 0 ELSE q - pfx
Said(st, fr) ==
    IF fr.t \in {"DATA", "HEADERS"} /\ ~st.es
    THEN [st EXCEPT !.dat = @ + (IF fr.t = "DATA" THEN FrameData(fr, fr.len) ELSE 0), !.es = fr.es]
    ELSE IF fr.t = "RST" /\ fr.code = "REFUSED" THEN [st EXCEPT !.unproc = TRUE]
    ELSE st
server_said(g, fr) ==
    IF fr.t = "GOAWAY"
    THEN [g EXCEPT !.st = [id \in Ids |-> IF id > fr.n THEN [@[id] EXCEPT !.unproc = TRUE]
                                          ELSE @[id]]]
    ELSE IF fr.sid \in Ids
    THEN [g EXCEPT !.st[fr.sid] = Said(@, fr),
                   !.tab = IF fr.t \in {"HEADERS", "CONT"} /\ Sendable(@, fr.v)
                           THEN FoldLeft(Encoded, @, fr.v) ELSE @]
    ELSE g

\* A DATA frame we do not take counts against the connection and is credited at its end.
data_start(d, fr, k) ==
    LET s       == d.s[k]
        counted == [d EXCEPT !.crwin = @ - fr.len]
        dropped == [counted EXCEPT !.cpend = @ + fr.len]
    IN  IF ZeroOrIdle(d, fr.sid) \/ fr.len > d.crwin THEN h2_conn_err(d)
        ELSE IF k = 0 THEN dropped
        ELSE IF Has(s, "RECV_END") \/ ~Has(s, "FINAL") \/ fr.len > s.rwin
        THEN h2_stream_err(dropped, k)
        ELSE [counted EXCEPT !.s[k].rwin = @ - fr.len, !.fs = k]

headers_start(d, fr, k) ==
    LET opened == [d EXCEPT !.b = [Block0 EXCEPT !.in = TRUE, !.sid = fr.sid, !.es = fr.es]]
    IN  IF ZeroOrIdle(d, fr.sid) THEN h2_conn_err(d)
        ELSE IF k = 0 THEN opened
        ELSE IF Has(d.s[k], "RECV_END") THEN h2_stream_err(opened, k)
        ELSE [opened EXCEPT !.b.s = k, !.b.trailer = Has(d.s[k], "FINAL"), !.b.pre = d.s[k].rlen]

cont_start(d) ==
    IF d.b.cont = CONT_MAX THEN h2_conn_err(d) ELSE [d EXCEPT !.b.cont = @ + 1]

\* Every check that needs only the header.  "FLAWED" stands for the frames no state accepts:
\* too long, of a wrong length, on a wrong stream, PUSH_PROMISE.
frame_class(d, fr, k) ==
    IF \/ d.idle > IDLE_MAX
       \/ fr.t = "FLAWED"
       \/ ~d.got_settings /\ fr.t # "SETTINGS"
       \/ d.b.in /\ (fr.t # "CONT" \/ fr.sid # d.b.sid)
       \/ ~d.b.in /\ fr.t = "CONT"
    THEN h2_conn_err(d)
    ELSE CASE fr.t = "DATA"    -> data_start(d, fr, k)
           [] fr.t = "HEADERS" -> headers_start(d, fr, k)
           [] fr.t = "CONT"    -> cont_start(d)
           [] fr.t = "RST"     -> IF ZeroOrIdle(d, fr.sid) THEN h2_conn_err(d) ELSE d
           [] fr.t = "WU"      -> IF Idle(d, fr.sid) THEN h2_conn_err(d) ELSE d
           [] OTHER            -> d
\* Mutant: frames without progress are not counted.
h2_frame_start_uncounted(d, fr) ==
    frame_class([d EXCEPT !.f = fr, !.pos = 0, !.fs = 0, !.dat = 0, !.fh = 9,
                          !.g = server_said(@, fr)], fr, Live(d, fr.sid))
h2_frame_start(d, fr) ==
    frame_class([d EXCEPT !.f = fr, !.pos = 0, !.fs = 0, !.dat = 0, !.idle = @ + 1, !.fh = 9,
                          !.g = server_said(@, fr)], fr, Live(d, fr.sid))

\* The payload up to octet p (up to setting p of a SETTINGS frame).
data_payload(d, p) ==
    LET n == FrameData(d.f, p) - d.dat
    IN  IF d.f.pad >= d.f.len THEN h2_conn_err(d)       \* padding as long as the payload
        ELSE IF d.fs = 0 \/ n = 0 THEN d
        ELSE [ring_put_octets(d, d.fs, n) EXCEPT !.dat = @ + n]
\* Of a field block each octet is kept once, whatever the pieces; what the frame's representations
\* say can be told with its last octet, nothing is decoded before.
BlockOctets(d, p) == FrameData(d.f, p) - FrameData(d.f, d.pos)
BlockFields(d, p) == IF p = d.f.len THEN d.f.v ELSE <<>>
block_payload_whole(d, p) ==            \* mutant: a piece brings all that the frame says
    IF d.f.pad >= d.f.len \/ d.b.len + BlockOctets(d, p) > MAX_LIST THEN h2_conn_err(d)
    ELSE [d EXCEPT !.b.len = @ + BlockOctets(d, p), !.b.rep = @ \o d.f.v]
block_payload(d, p) ==
    IF d.f.pad >= d.f.len \/ d.b.len + BlockOctets(d, p) > MAX_LIST THEN h2_conn_err(d)
    ELSE [d EXCEPT !.b.len = @ + BlockOctets(d, p), !.b.rep = @ \o BlockFields(d, p)]
set_payload(d, p) ==
    LET after[i \in d.pos..p] ==
            IF i = d.pos THEN d
            ELSE IF after[i - 1].err = "OK" THEN h2_setting(after[i - 1], d.f.v[i])
            ELSE after[i - 1]
    IN  after[p]
h2_payload(d, p) ==
    IF p = d.pos THEN d
    ELSE [(CASE d.f.t = "DATA" -> data_payload(d, p)
             [] d.f.t \in {"HEADERS", "CONT"} -> block_payload(d, p)
             [] d.f.t = "SETTINGS" -> set_payload(d, p)
             [] OTHER -> d) EXCEPT !.pos = p]

\* Only whole frames become readable; the padding is credited at once.
data_counted(d, k) ==
    LET data == FrameData(d.f, d.f.len)
        s    == d.s[k]
    IN  [d EXCEPT !.s[k] = [s EXCEPT !.ready = s.rlen - s.hdr, !.pend = @ + d.f.len - data,
                                     !.got = @ + data],
                  !.cpend = @ + d.f.len - data,
                  !.idle = IF data > 0 \/ d.f.es THEN 0 ELSE @]
data_judged(d, k) ==
    IF ClChecked(d.s[k]) /\ d.s[k].got > d.s[k].cl THEN h2_stream_err(d, k)
    ELSE IF d.f.es THEN h2_recv_end(d, k) ELSE d
\* Mutant: DATA that is dropped is not credited at its end.
data_end_dropped(d) ==
    IF d.fs = 0 THEN d
    ELSE h2_credit(data_judged(data_counted([d EXCEPT !.fs = 0], d.fs), d.fs), d.fs)
data_end(d) ==
    IF d.fs = 0 THEN h2_credit(d, 0)
    ELSE h2_credit(data_judged(data_counted([d EXCEPT !.fs = 0], d.fs), d.fs), d.fs)

wu_end(d, k) ==
    LET v == d.f.n
    IN  IF d.f.sid = 0
        THEN IF v = 0 \/ d.cwin + v > MAXWIN THEN h2_conn_err(d) ELSE [d EXCEPT !.cwin = @ + v]
        ELSE IF k = 0 THEN d
        ELSE IF v = 0 \/ d.s[k].swin + v > MAXWIN THEN h2_stream_err(d, k)
        ELSE [d EXCEPT !.s[k].swin = @ + v, !.g.st[d.f.sid].wu = @ + v]

h2_frame_end(d, k) ==
    CASE d.f.t = "DATA"              -> data_end(d)
      [] d.f.t \in {"HEADERS", "CONT"} -> IF d.f.eh THEN h2_block_end(d) ELSE d
      [] d.f.t = "RST" /\ k # 0      -> [d EXCEPT !.s[k] = h2_rst_recv(@, d.f.code),
                                                        !.g.st[d.f.sid].ph = "reset"]
      [] d.f.t = "SETTINGS"          -> [h2_ctrl(d) EXCEPT !.got_settings = TRUE]
      [] d.f.t = "PING"              -> h2_ctrl(d)
      [] d.f.t = "GOAWAY"            -> h2_goaway(d, d.f.n, d.f.code)
      [] d.f.t = "WU"                -> wu_end(d, k)
      [] OTHER                       -> d

FrameEnd(fr) == IF fr.t = "SETTINGS" THEN Len(fr.v) ELSE fr.len
\* What brisk__h2_feed does with the rest of the frame up to octet p of its payload.
frame_fed(d, p) ==
    LET paid == h2_payload(d, p)
        clear(e) == [e EXCEPT !.f = NoFrame, !.pos = 0, !.dat = 0]
    IN  IF d.err # "OK" \/ paid.err # "OK" \/ p < FrameEnd(d.f) THEN paid
        ELSE clear(h2_frame_end([paid EXCEPT !.fh = 0], Live(paid, d.f.sid)))

-----------------------------------------------------------------------------
(* The blocking calls *)

\* Mutant: the rest of the frame under way is credited without what the ring already counts.
h2_release_whole(d, k, w) ==
    LET s     == d.s[k]
        rst   == IF Has(s, "RST") \/ BothEnds(s) THEN d ELSE rst_stream(d, k)
        owed  == [rst EXCEPT !.cpend = @ + s.rlen - s.hdr + (IF d.fs = k THEN d.f.len ELSE 0),
                             !.fs = IF @ = k THEN 0 ELSE @]
        freed == IF d.err = "OK" THEN h2_flush(h2_credit(owed, 0), w) ELSE d
    IN  [freed EXCEPT !.s[k] = Slot0, !.b.s = IF @ = k THEN 0 ELSE @]
h2_release(d, k, w) ==
    LET s     == d.s[k]
        room  == IF TX - d.tx < 2 THEN h2_flush(d, w) ELSE d
        rst   == IF Has(s, "RST") \/ BothEnds(s) THEN d ELSE rst_stream(room, k)
        owed  == [rst EXCEPT !.cpend = @ + s.rlen - s.hdr + (IF d.fs = k THEN d.f.len - d.dat ELSE 0),
                             !.fs = IF @ = k THEN 0 ELSE @]
        freed == IF d.err = "OK" THEN h2_flush(h2_credit(owed, 0), w) ELSE d
    IN  [freed EXCEPT !.s[k] = Slot0, !.b.s = IF @ = k THEN 0 ELSE @]

Return(d)       == c' = d /\ call' = NoCall
\* History: RETRY reaches the application.
Refused(d, k)   == IF d.s[k].err # "RETRY" THEN d
                   ELSE [d EXCEPT !.g.st[d.s[k].id].retry = @ /\ d.g.st[d.s[k].id].unproc]

Open == {k \in Slots : c.s[k].id # 0}
CanRequest(req) ==
    /\ c.err = "OK" /\ c.eof = "no" /\ ~c.goaway
    /\ req.list <= c.p_list /\ c.next_id <= Script.last_id
    /\ Cardinality(Open) < N /\ Cardinality(Open) < c.p_conc
FreeSlot == CHOOSE k \in (Slots \ Open) : \A j \in (Slots \ Open) : k <= j

\* The header block: the units left in tx once the frames that filled it are shipped.
block_spill(tx, n) ==
    IF tx + 1 + n <= TX THEN tx + 1 + n ELSE 2 + ((n - (TX - tx - 1) - 1) % (TX - 1))
request_headers(d, k, req) ==
    LET update == IF d.enc.pending THEN 0 ELSE d.g.believed
    IN  [Wire(d, d.s[k].id, {"idle"}, IF req.body = 0 THEN "ended" ELSE "open")
            EXCEPT !.tx = block_spill(@, req.hlen), !.enc.pending = FALSE,
                   !.g.wire = @ /\ update <= d.g.low, !.g.believed = update,
                   !.s[k].fl = IF req.body = 0 THEN @ \cup {"SENT_END"} ELSE @]
Request(req, w) ==
    /\ call.op = "none"
    /\ CanRequest(req)
    /\ LET k      == FreeSlot
           opened == [c EXCEPT !.s[k] = [Slot0 EXCEPT !.id = c.next_id, !.swin = c.p_win, !.rwin = W,
                                                      !.fl = IF req.head THEN {"HEAD"} ELSE {}],
                               !.next_id = @ + 2, !.idle = 0]
           room   == IF TX - c.tx < 2 THEN h2_flush(opened, w) ELSE opened
           full   == room.tx + 1 + req.hlen > TX
       IN  IF room.err # "OK" THEN Return(h2_release(room, k, w))
           ELSE IF full /\ ~w THEN Return(h2_release(h2_flush(room, w), k, w))
           ELSE c' = request_headers(room, k, req)
                /\ call' = [op |-> "body", k |-> k, left |-> req.body, cap |-> 0]

\* One turn of the loop that sends the body, and what follows it.
BodyStopped(s) == s.err # "OK" \/ Has(s, "SENT_END") \/ Has(s, "RST")
least(S) == CHOOSE x \in S : \A y \in S : x <= y
DataSent(d, k, n, last) ==
    LET s  == d.s[k]
        st == d.g.st[s.id]
    IN  [d  EXCEPT !.tx = @ + 1 + n, !.cwin = @ - n, !.idle = 0,
                   !.s[k] = [s EXCEPT !.swin = @ - n, !.fl = IF last THEN @ \cup {"SENT_END"} ELSE @],
                   !.g.st[s.id] = [st EXCEPT !.sent = @ + n, !.ph = IF last THEN "ended" ELSE @],
                   !.g.wire = @ /\ st.ph = "open" /\ st.sent + n <= d.p_win + st.wu]
BodyDone(w) ==
    LET k == call.k
        d == h2_flush(c, w)
    IN  IF d.err # "OK" \/ d.s[k].err # "OK" THEN Return(h2_release(Refused(d, k), k, w)) ELSE Return(d)
Body(w) ==
    /\ call.op = "body"
    /\ LET s    == c.s[call.k]
           room == TX - c.tx
           n    == least({call.left, room - 1, s.swin, c.cwin})
       IN  IF call.left = 0 \/ BodyStopped(s) THEN BodyDone(w)
           ELSE IF room < 2
           THEN IF w THEN c' = h2_flush(c, w) /\ UNCHANGED call
                ELSE Return(h2_release(h2_flush(c, w), call.k, w))
           ELSE IF s.swin <= 0 \/ c.cwin <= 0 THEN call' = [call EXCEPT !.op = "window"] /\ UNCHANGED c
           ELSE /\ c' = DataSent(c, call.k, n, n = call.left)
                /\ call' = [call EXCEPT !.left = @ - n]

response_fields(d, k) ==
    LET s == d.s[k]
    IN  [d EXCEPT !.s[k] = [s EXCEPT !.rlen = @ - s.hdr, !.hdr = 0, !.fl = @ \cup {"RESP"}]]
read_out(d, k, cap) ==
    LET s == d.s[k]
        n == IF cap < s.ready THEN cap ELSE s.ready
    IN  IF s.err # "OK" THEN Refused(d, k)
        ELSE IF s.ready = 0
        THEN [d EXCEPT !.g.st[s.id].whole = @ /\ d.g.st[s.id].es /\ d.g.st[s.id].read = d.g.st[s.id].dat
                                            /\ (ClChecked(s) => d.g.st[s.id].read = s.cl)]
        ELSE h2_credit([d EXCEPT !.s[k] = [s EXCEPT !.rlen = @ - n, !.ready = @ - n, !.pend = @ + n],
                                 !.cpend = @ + n, !.g.st[s.id].read = @ + n], k)

\* What a call does when its h2_wait returns BRISK_OK (ok) or an error.
Resume(d, ok, w) ==
    LET k == call.k
    IN  CASE call.op = "window" /\ ok -> c' = d /\ call' = [call EXCEPT !.op = "body"]
          [] call.op = "window" /\ ~ok -> Return(h2_release(d, k, w))
          [] call.op = "response" /\ ok ->
                Return(IF d.s[k].err # "OK" THEN Refused(d, k) ELSE response_fields(d, k))
          [] call.op = "read" /\ ok -> Return(read_out(d, k, call.cap))
          [] call.op = "start" /\ ~ok -> c' = d /\ call' = [NoCall EXCEPT !.op = "closed"]
          [] OTHER -> Return(d)

Cond(d) ==
    LET s == d.s[call.k]
    IN  CASE call.op = "start"    -> d.got_settings
          [] call.op = "response" -> Has(s, "FINAL") \/ s.err # "OK"
          [] call.op = "read"     -> s.ready # 0 \/ Has(s, "RECV_END") \/ s.err # "OK"
          [] call.op = "window"   -> (s.swin > 0 /\ d.cwin > 0) \/ BodyStopped(s)

\* The turns of h2_wait.
Waiting == call.op \in {"start", "response", "read", "window"}
WaitFailed(w) == Waiting /\ c.err # "OK" /\ Resume(h2_flush(c, w), FALSE, w)
Met     == c.err = "OK" /\ c.fh = 0 /\ Cond(c)
WaitMet(w) == Waiting /\ Met /\ Resume(h2_flush(c, w), Flushed(c, w), w)
Reading == Waiting /\ c.err = "OK" /\ ~Met /\ c.eof = "no"
WaitEnded(w) == Waiting /\ c.err = "OK" /\ ~Met /\ c.eof # "no" /\ Resume(c, FALSE, w)

\* Octets already staged in rx are fed without a flush; a full tx is flushed first.
CutsOf(fr) == IF Script.cuts THEN 0..FrameEnd(fr) ELSE {FrameEnd(fr)}
Feed(d) ==
    \E staged \in (IF Script.staged /\ left > 1 THEN BOOLEAN ELSE {FALSE}) :
        IF d.fh = 9
        THEN /\ \E p \in CutsOf(d.f) : p > d.pos /\ c' = [frame_fed(d, p) EXCEPT !.rx = staged]
             /\ UNCHANGED left
        ELSE \/ Script.cuts /\ d.fh = 0 /\ c' = [d EXCEPT !.fh = 1, !.rx = staged] /\ UNCHANGED left
             \/ \E fr \in Script.frames \cup Script.free :
                    /\ fr \in Script.frames => left > 0
                    /\ left' = IF fr \in Script.frames THEN left - 1 ELSE left
                    /\ \E p \in CutsOf(fr) :
                            c' = [frame_fed(h2_frame_start(d, fr), p) EXCEPT !.rx = staged]
WaitFeed(w) ==
    /\ Reading /\ c.rx
    /\ IF c.fh = 0 /\ TX - c.tx < RESERVE
       THEN /\ UNCHANGED left
            /\ IF w THEN c' = h2_flush(c, w) /\ UNCHANGED call ELSE Resume(h2_flush(c, w), FALSE, w)
       ELSE Feed(c) /\ UNCHANGED call
WaitRead(w) ==
    /\ Reading /\ ~c.rx
    /\ LET d == h2_flush(c, w)
       IN  IF d.err # "OK" THEN Resume(d, FALSE, w) /\ UNCHANGED left
           ELSE \/ Feed(d) /\ UNCHANGED call
                \/ Resume(d, FALSE, w) /\ UNCHANGED left                        \* BRISK_E_TIMEOUT
                \/ /\ Script.eof
                   /\ c' = [d EXCEPT !.eof = IF d.goaway_err THEN "PEER_ALERT" ELSE "IO"]
                   /\ UNCHANGED <<call, left>>

-----------------------------------------------------------------------------
(* The application *)

Start ==
    /\ call.op = "none" /\ ~c.got_settings
    /\ c' = [c EXCEPT !.idle = 0]
    /\ call' = [NoCall EXCEPT !.op = "start"]
Response(k) ==
    /\ call.op = "none" /\ c.s[k].id # 0 /\ ~Has(c.s[k], "RESP")
    /\ c' = [c EXCEPT !.idle = 0]
    /\ call' = [NoCall EXCEPT !.op = "response", !.k = k]
Read(k, cap) ==
    /\ call.op = "none" /\ c.s[k].id # 0 /\ Has(c.s[k], "RESP") /\ c.err = "OK"
    /\ IF c.s[k].ready = 0 /\ ~Has(c.s[k], "RECV_END") /\ c.s[k].err = "OK"
       THEN /\ c' = [c EXCEPT !.idle = 0]
            /\ call' = [op |-> "read", k |-> k, left |-> 0, cap |-> cap]
       ELSE c' = read_out(c, k, cap) /\ UNCHANGED call
StreamClose(k, w) ==
    /\ call.op = "none" /\ c.s[k].id # 0
    /\ c' = h2_release(c, k, w) /\ UNCHANGED call
\* GOAWAY, best effort, and the memory is wiped.
Close == call.op = "none" /\ c' = setup /\ call' = [NoCall EXCEPT !.op = "closed"]

Wrs == IF Script.wr /\ c.tx > 0 THEN BOOLEAN ELSE {TRUE}
CallStep ==
    \E w \in Wrs :
        /\ UNCHANGED plan /\ turn' = 1 - turn
        /\ \/ (Body(w) \/ WaitFailed(w) \/ WaitMet(w) \/ WaitEnded(w)) /\ UNCHANGED left
           \/ WaitFeed(w)
           \/ WaitRead(w)
AppStep ==
    /\ UNCHANGED <<plan, left, turn>>
    /\ \/ Start \/ Close
       \/ \E k \in Slots : Response(k) \/ \E cap \in Script.caps : Read(k, cap)
       \/ \E w \in Wrs :
            \/ \E req \in Script.reqs : c.got_settings /\ Request(req, w)
            \/ \E k \in Slots : StreamClose(k, w)

Init ==
    /\ plan \in DOMAIN Plans /\ left = Plans[plan].n /\ turn = 0
    /\ c = setup /\ call = NoCall
Closed == call.op = "closed" /\ UNCHANGED vars
Next == CallStep \/ AppStep \/ Closed
Spec == Init /\ [][Next]_vars

\* A call that is in progress goes on: the thread runs, and the transport's reads and writes return
\* (with octets, at their timeout, or with an error).
CallTurn == call.op \notin {"none", "closed"} /\ turn' = 1 - turn
FairSpec == Spec /\ WF_turn(CallTurn)

-----------------------------------------------------------------------------
(* Properties *)

Unread(d, k) == d.s[k].rlen - d.s[k].hdr
Coming(d, k) == IF d.fs = k THEN d.f.len - d.dat ELSE 0
Held(d) == SumFunctionOnSet([k \in Slots |-> Unread(d, k) + Coming(d, k)], Slots)
LiveSlots == {k \in Slots : c.s[k].id # 0 /\ ~Has(c.s[k], "RST") /\ ~Has(c.s[k], "RECV_END")}

\* No receive credit is lost or granted twice: what the server may still send, what we owe it and
\* what the rings hold make up the windows we advertised, at every cut of every frame, through
\* padding, dropped DATA and streams closed with DATA unread or half a frame in.  extra is what
\* the malformed trailers of h2_block_end give back a second time.
CreditConserved ==
    c.err = "OK" =>
        /\ c.crwin + c.cpend + Held(c) = CONN_WIN + c.g.extra
        /\ \A k \in LiveSlots : c.s[k].rwin + c.s[k].pend + Unread(c, k) + Coming(c, k) = W

\* The server is never left without the credit it needs: on a frame boundary nothing of a
\* WINDOW_UPDATE step or more is still owed.
NeverStarved ==
    c.err = "OK" /\ c.fh = 0 =>
        c.cpend < CREDIT /\ \A k \in LiveSlots : c.s[k].pend < CREDIT

\* brisk_h2_read says 0 only when the server ended the stream, every octet of its DATA went to
\* the application, and their number is the content-length.
EndIsWhole == \A id \in Ids : c.g.st[id].whole

\* BRISK_E_RETRY reaches the application only for a request the server said it did not process.
RetrySafe == \A id \in Ids : c.g.st[id].retry

\* What we put on the wire is legal: one HEADERS a stream, DATA within what the server granted and
\* not after END_STREAM or RST_STREAM, no WINDOW_UPDATE after RST_STREAM, a lower table limit
\* acknowledged before the next block; and the queue always has room for it.
WireLegal == c.g.wire /\ ~c.fault

\* A stream whose slot is freed while the connection lives is closed at both ends or reset.
NoHalfOpen ==
    c.err = "OK" /\ call.op = "none" =>
        \A id \in Ids :
            \/ c.g.st[id].ph \in {"idle", "reset"}
            \/ c.g.st[id].ph = "ended" /\ c.g.st[id].es
            \/ \E k \in Slots : c.s[k].id = id

\* The decoder's table is the one the server's encoder has, whatever became of the streams whose
\* blocks changed it.
TableInSync == c.err = "OK" /\ ~c.b.in /\ c.fh = 0 => Table(c.dec) = c.g.tab.tab

\* Every call returns, whatever the server floods the connection with.
CallsReturn == []<>(call.op \in {"none", "closed"})

\* The comment on h2_credit: "Windows stay <= max(65535, n*W)".
WindowCapped == c.crwin <= CONN_WIN

\* The comment in h2_wait, "what completed stays readable": when the transport has ended, a call
\* for the response of a stream that was received whole delivers it.
CompletedStaysReadable ==
    [][call.op = "response" /\ call'.op = "none" /\ c.eof # "no" /\ c.err = "OK"
            /\ Has(c.s[call.k], "RECV_END") /\ c.s[call.k].err = "OK"
       => Has(c'.s[call.k], "RESP")]_vars

\* Every request has an end that both sides agree on: repeated only if the server did not process
\* it, and closed at both ends or reset.
RequestsConcluded == RetrySafe /\ NoHalfOpen
=============================================================================
