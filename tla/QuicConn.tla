------------------------------ MODULE QuicConn ------------------------------
(***************************************************************************)
(* One QUIC connection of the client, quic/conn.c below the public calls   *)
(* of quic/api.c, as operators from one value of the struct                *)
(* brisk__quic_conn (with the owe flag of struct brisk_quic) to the next:  *)
(* CRYPTO reassembly over the encryption levels, Retry and Version         *)
(* Negotiation, connection IDs, key update, the close, and the choice of   *)
(* what a datagram carries.  QuicClient calls them.                        *)
(*                                                                         *)
(* A key is named by what it was derived from, [k |-> "init", n |-> i] for *)
(* the Initial keys of the connection ID i, "hs", or "app" with its        *)
(* generation: a packet opens with the key it was sealed with and no       *)
(* other.  A CRYPTO byte is its offset in the level's stream.  The tables  *)
(* of loss recovery, of received packet numbers and of the streams are     *)
(* modelled in QuicRecovery, QuicAckRanges and QuicStreams: here the probe *)
(* timeout is the constant PTO after the last ack-eliciting packet, an ACK *)
(* may declare any older packet lost, a packet number is remembered for    *)
(* good, and the streams are two flags, something to send and something to *)
(* read.                                                                   *)
(* Sizes are left out: a packet has room for the frames that are due.      *)
(*                                                                         *)
(* Name_variant(...) is a copy of Name with one mistake, never used by the *)
(* specification: PROJECT.json says which property notices it.             *)
(***************************************************************************)
EXTENDS Integers, FiniteSets, FiniteSetsExt, SequencesExt

CONSTANTS
    RING,           \* QC_RING, the reassembly buffer
    FLIGHT,         \* per level: length of the server's CRYPTO stream (engine)
    CIDS,           \* BRISK__QUIC_CIDS
    RETIRE,         \* BRISK__QUIC_RETIRE
    CID_LIMIT,      \* my_tp.active_connection_id_limit
    SENT,           \* BRISK__QUIC_SENT, the records of packets in flight
    WINDOW,         \* the congestion window, in packets
    BURST,          \* QC_BURST, in datagrams
    KEY_LIMIT,      \* packets one key may protect (2^23)
    KEY_SOFT,       \* packets after which an update is wanted (2^23 - 2^16)
    PTO,            \* the probe timeout
    MAX_DELAY,      \* my_tp.max_ack_delay
    IDLE,           \* the idle timeout both sides agreed on
    NEVER           \* INT64_MAX, QC_NONE

ASSUME ConnAssumption ==
    /\ RING \in Nat \ {0} /\ FLIGHT \in [0..2 -> Nat \ {0}]
    /\ CIDS \in Nat /\ CID_LIMIT \in 2..CIDS /\ RETIRE >= 2 * CID_LIMIT
    /\ SENT > 2 /\ WINDOW \in Nat \ {0} /\ BURST \in Nat \ {0}
    /\ KEY_SOFT < KEY_LIMIT - 1 /\ PTO \in Nat \ {0} /\ MAX_DELAY \in Nat /\ IDLE \in Nat

Levels  == 0..2
WAIT    == NEVER - 1            \* QC_KU_WAIT: held, the timer not armed yet
CLEAR   == -1                   \* a ring cell whose bit is not set
NO_PN   == -1                   \* largest_acked before any ACK
Name(k, n) == [k |-> k, n |-> n]        \* a connection ID, a key
None    == Name("none", 0)
Initial(cid) == Name("init" \o cid.k, cid.n)
HsKey(scid) == Name("hs", scid.n)         \* the key exchange with that server connection
App(g)  == Name("app", g)
Phase(key) == key.n % 2
Issued(seq) == Name("issued", seq)
ODCID   == Name("o", 0)
NoCid   == [used |-> FALSE, seq |-> 0, cid |-> None]
NoRq    == [state |-> 0, seq |-> 0, pn |-> 0]
EmptyRing == [i \in 0..RING - 1 |-> CLEAR]

conn_init ==
    [now |-> 0, err |-> "OK", cc |-> 0, ccl |-> {}, code |-> "none",
     hs |-> [state |-> "WAIT_SH", fed |-> [l \in Levels |-> 0], out |-> [l \in 0..1 |-> 1 - l],
             pref |-> FALSE, hrr |-> FALSE],
     rx |-> <<Initial(ODCID), None, None>>, tx |-> <<Initial(ODCID), None, None>>, rx_ku |-> None,
     ku_until |-> NEVER, ku_min |-> NEVER, ku_max |-> 0, ku_tx_first |-> 0, ku_ack_at |-> 0,
     n_sealed |-> 0, crx |-> [l \in Levels |-> 0], rx_level |-> 0, ring_pos |-> 0,
     ring |-> EmptyRing, dcid |-> ODCID, server_scid |-> None, retry_scid |-> None, token |-> 0,
     got_initial |-> FALSE, opened |-> FALSE, established |-> FALSE, confirmed |-> FALSE,
     cids |-> [i \in 1..CIDS |-> NoCid], rpt_max |-> 0, rq |-> [i \in 1..RETIRE |-> NoRq],
     dcid_unsent |-> FALSE, tx_pn |-> [l \in Levels |-> 0], seen |-> [l \in Levels |-> {}],
     pending |-> [l \in Levels |-> 0], ack_due |-> [l \in Levels |-> NEVER],
     largest_acked |-> [l \in Levels |-> NO_PN], rec |-> {}, last_elicit |-> NEVER,
     ret_len |-> [l \in 0..1 |-> 0], ret_sent |-> [l \in 0..1 |-> 0],
     probe |-> [l \in Levels |-> 0], path_resp |-> 0, streams |-> FALSE, unread |-> FALSE,
     idle_start |-> NEVER, idle_rx |-> TRUE, burst |-> 0, burst_t |-> -1, owe |-> TRUE]

\* The levels' arrays are sequences, level l at l + 1.
Rx(c, l) == c.rx[l + 1]
Tx(c, l) == c.tx[l + 1]

-----------------------------------------------------------------------------
(* The end *)

\* Every key and secret goes; what is left is the error and the close.
wipe_all(c) ==
    [conn_init EXCEPT !.now = c.now, !.err = c.err, !.cc = c.cc, !.ccl = c.ccl, !.owe = c.owe,
        !.hs = [c.hs EXCEPT !.state = "WIPED", !.out = [l \in 0..1 |-> 0]],
        !.rx = <<None, None, None>>, !.tx = <<None, None, None>>,
        !.established = c.established, !.confirmed = c.confirmed]

\* A CONNECTION_CLOSE in every level that still has send keys, unless its key is used up.
cc_build(c) ==
    {[lvl |-> l, key |-> Tx(c, l), pn |-> c.tx_pn[l], dcid |-> c.dcid,
      token |-> IF l = 0 THEN c.token ELSE 0, off |-> 0, len |-> 0, ret |-> {}, acks |-> {},
      elicit |-> FALSE] :
        l \in {m \in Levels : Tx(c, m) # None /\ (m = 2 => c.n_sealed < KEY_LIMIT)}}

\* The sticky end: the close is built while the keys exist.
q_end(c, rc, with_close) ==
    LET close == IF with_close THEN cc_build(c) ELSE {}
    IN  wipe_all([c EXCEPT !.err = rc, !.ccl = close, !.cc = IF close # {} THEN 1 ELSE 0])

q_fail(c, code) == q_end(c, code, TRUE)

\* brisk__quic_close: nothing if the connection is over.
close(c) == IF c.err = "OK" THEN q_end(c, "CLOSED", TRUE) ELSE c

-----------------------------------------------------------------------------
(* The CRYPTO streams *)

\* The engine hands over the next level's keys from inside hs_feed: data still buffered at
\* the old level is a violation, and the ring starts afresh.
on_secret(c, lvl) ==
    IF c.ring # EmptyRing \/ lvl <= c.rx_level THEN [c EXCEPT !.code = "PROTOCOL_VIOLATION"]
    ELSE [c EXCEPT !.rx_level = lvl, !.ring_pos = 0,
                   !.rx[lvl + 1] = IF lvl = 1 THEN HsKey(c.server_scid) ELSE App(0),
                   !.tx[lvl + 1] = IF lvl = 1 THEN HsKey(c.server_scid) ELSE App(0)]
\* The engine (TlsEngine): it takes the stream of the level it reads, in order, and its state
\* advances when a flight is complete.  Anything else fails it.
InEpoch(c, lvl) == CASE c.hs.state \in {"WAIT_SH", "WAIT_CH2"} -> lvl = 0
                     [] c.hs.state = "WAIT_FIN"                -> lvl = 1
                     [] c.hs.state = "CONNECTED"               -> lvl = 2
                     [] OTHER                                  -> FALSE
hs_feed(c, lvl, data) ==
    LET fed == c.hs.fed[lvl] + Len(data)
        took == [c EXCEPT !.hs.fed[lvl] = fed]
    IN  IF data = <<>> \/ c.code # "none" THEN c
        ELSE IF ~InEpoch(c, lvl) \/ fed > FLIGHT[lvl]
                \/ \E i \in 1..Len(data) : data[i] # c.hs.fed[lvl] + i - 1
                \/ c.hs.state = "WAIT_CH2"
             THEN [c EXCEPT !.code = "CRYPTO"]
        ELSE IF lvl = 0 /\ c.hs.hrr /\ c.hs.fed[0] = 0
             THEN IF fed > 1 THEN [c EXCEPT !.code = "CRYPTO"]
                  ELSE [took EXCEPT !.hs.state = "WAIT_CH2"]
        ELSE IF fed < FLIGHT[lvl] \/ lvl = 2 THEN took
        ELSE IF lvl = 0 THEN on_secret([took EXCEPT !.hs.state = "WAIT_FIN"], 1)
        ELSE on_secret([took EXCEPT !.hs.state = "CONNECTED", !.hs.out[1] = 1], 2)

\* The contiguous prefix of the ring goes to the engine, in two parts where it wraps.
Cell(c, j) == c.ring[(c.ring_pos + j) % RING]
Ready(c) == CHOOSE k \in 0..RING :
                /\ \A j \in 0..k - 1 : Cell(c, j) # CLEAR
                /\ k = RING \/ Cell(c, k) = CLEAR
deliver_from(c, lvl, k, a) ==
    LET data == [j \in 1..k |-> Cell(c, j - 1)]
        taken == [c EXCEPT !.crx[lvl] = @ + k, !.ring_pos = (@ + k) % RING,
                           !.ring = [i \in 0..RING - 1 |->
                                        IF (i + RING - c.ring_pos) % RING < k THEN CLEAR ELSE @[i]]]
    IN  hs_feed(hs_feed(taken, lvl, SubSeq(data, 1, a)), lvl, SubSeq(data, a + 1, k))

deliver(c, lvl) ==
    LET k == Ready(c)
    IN  IF k = 0 THEN c ELSE deliver_from(c, lvl, k, Min({k, RING - c.ring_pos}))
\* Bytes off..end-1 of a CRYPTO frame, as many at a time as the ring has room for; the first
\* copy of a byte wins.
Store(c, lvl, off, n) ==
    [c EXCEPT !.ring = [i \in 0..RING - 1 |->
        LET j == (i + RING - c.ring_pos) % RING        \* distance from the next byte
            o == c.crx[lvl] + j
        IN  IF off <= o /\ o < off + n /\ @[i] = CLEAR THEN o ELSE @[i]]]
RECURSIVE Pieces(_, _, _, _)
Pieces(c, lvl, off, end) ==
    LET rel == off - c.crx[lvl]
        n == Min({RING - rel, end - off})
    IN  IF off = end THEN c
        ELSE IF rel >= RING THEN [c EXCEPT !.code = "CRYPTO_BUFFER_EXCEEDED"]
        ELSE LET d == deliver(Store(c, lvl, off, n), lvl)
             IN  IF d.code # "none" THEN d
                 ELSE IF d.rx_level # lvl
                 THEN IF off + n < end THEN [d EXCEPT !.code = "PROTOCOL_VIOLATION"] ELSE d
                 ELSE Pieces(d, lvl, off + n, end)
crypto_in(c, lvl, off, n) ==
    IF lvl # c.rx_level
    THEN IF lvl < c.rx_level /\ off + n <= c.crx[lvl] THEN c
         ELSE [c EXCEPT !.code = "PROTOCOL_VIOLATION"]
    ELSE IF off + n <= c.crx[lvl] THEN c
    ELSE Pieces(c, lvl, Max({off, c.crx[lvl]}), off + n)
-----------------------------------------------------------------------------
(* Connection IDs *)

\* Queue RETIRE_CONNECTION_ID for a sequence number, once.
Owed(c) == {j \in 1..RETIRE : c.rq[j].state # 0}
retire(c, seq) ==
    IF \E j \in Owed(c) : c.rq[j].seq = seq THEN c
    ELSE IF Cardinality(Owed(c)) >= 2 * CID_LIMIT THEN [c EXCEPT !.code = "CONNECTION_ID_LIMIT"]
    ELSE [c EXCEPT !.rq[Min(1..RETIRE \ Owed(c))] = [state |-> 1, seq |-> seq, pn |-> 0]]
Active(c) == {i \in 1..CIDS : c.cids[i].used}
retire_below(c, rpt) ==
    LET one(x, i) ==
            IF x.code # "none" \/ ~x.cids[i].used \/ x.cids[i].seq >= rpt THEN x
            ELSE LET y == retire(x, x.cids[i].seq)
                 IN  IF y.code = "none" THEN [y EXCEPT !.cids[i].used = FALSE] ELSE y
    IN  IF rpt <= c.rpt_max THEN c
        ELSE FoldLeft(one, [c EXCEPT !.rpt_max = rpt], [i \in 1..CIDS |-> i])

\* The new ID is already below Retire Prior To, known, or takes a free slot.
add_cid(c, seq, cid) ==
    IF c.code # "none" THEN c
    ELSE IF seq < c.rpt_max THEN retire(c, seq)
    ELSE IF \E i \in Active(c) : c.cids[i].seq = seq THEN c
    ELSE IF Active(c) = 1..CIDS THEN [c EXCEPT !.code = "CONNECTION_ID_LIMIT"]
    ELSE [c EXCEPT !.cids[Min(1..CIDS \ Active(c))] = [used |-> TRUE, seq |-> seq, cid |-> cid]]

\* If the ID in use was retired, the lowest active one takes over.
switch_cid(c) ==
    LET lo == CHOOSE i \in Active(c) : \A j \in Active(c) : c.cids[i].seq <= c.cids[j].seq
    IN  IF c.code # "none" THEN c
        ELSE IF Cardinality(Active(c)) > CID_LIMIT THEN [c EXCEPT !.code = "CONNECTION_ID_LIMIT"]
        ELSE IF Active(c) = {} \/ \E i \in Active(c) : c.cids[i].cid = c.dcid THEN c
        ELSE [c EXCEPT !.dcid = c.cids[lo].cid, !.dcid_unsent = TRUE]
new_cid(c, seq, rpt, cid) ==
    IF \E i \in Active(c) : (c.cids[i].seq = seq) # (c.cids[i].cid = cid)
    THEN [c EXCEPT !.code = "PROTOCOL_VIOLATION"]
    ELSE switch_cid(add_cid(retire_below(c, rpt), seq, cid))

\* 10.3.1: is this the stateless reset token of the ID in use?  It is the ID's own here.
qc_reset_match(c, cid) ==
    /\ c.established /\ ~c.dcid_unsent
    /\ \E i \in Active(c) : c.cids[i].cid = c.dcid
    /\ cid = c.dcid

-----------------------------------------------------------------------------
(* Records of packets in flight *)

\* Records acknowledged or lost: CRYPTO data goes out again from the lost offset, a
\* RETIRE_CONNECTION_ID until it is acknowledged, stream data too.
Names(recs, e) == \E s \in recs : s.ret /\ s.pn = e.pn
\* Acknowledged or lost, it is done.
reap_rq_done(e, acked, lost) ==
    IF e.state # 2 \/ ~Names(acked \cup lost, e) THEN e ELSE NoRq
reap_rq(e, acked, lost) ==
    IF e.state # 2 \/ ~Names(acked \cup lost, e) THEN e
    ELSE IF Names(acked, e) THEN NoRq ELSE [e EXCEPT !.state = 1]
reap(c, acked, lost) ==
    [c EXCEPT !.rec = @ \ (acked \cup lost),
        !.ret_sent = [l \in 0..1 |-> IF Tx(c, l) = None THEN @[l]
                        ELSE Min({@[l]} \cup {s.off : s \in {x \in lost : x.lvl = l /\ x.len # 0}})],
        !.rq = [j \in 1..RETIRE |-> reap_rq(@[j], acked, lost)],
        !.streams = @ \/ \E s \in lost : s.data]

qc_ku_drop_at(c) == c.now + 3 * PTO

\* An ACK frame for some of the packets sent at lvl; lost are older ones it gives up.
on_ack(c, lvl, pns, lost) ==
    LET acked == {s \in c.rec : s.lvl = lvl /\ s.pn \in pns}
        top == Max(pns \cup {c.largest_acked[lvl]})
        confirms == lvl = 2 /\ c.ku_ack_at = NEVER /\ top >= c.ku_tx_first
    IN  reap([c EXCEPT !.largest_acked[lvl] = top,
                       !.ku_ack_at = IF confirms THEN qc_ku_drop_at(c) ELSE @,
                       !.burst = IF acked # {} THEN 0 ELSE @],
             acked, {s \in lost : s.lvl = lvl /\ s.pn < top} \ acked)
can_send(c) == Cardinality(c.rec) < WINDOW
rec_free(c) == SENT - Cardinality(c.rec)
rec_deadline(c) == IF \E s \in c.rec : s.elicit THEN c.last_elicit + PTO ELSE NEVER

idle_deadline(c) ==
    IF c.idle_start = NEVER THEN NEVER ELSE c.idle_start + Max({IDLE, 3 * PTO})

-----------------------------------------------------------------------------
(* Key update *)

\* The next receive keys, from the current ones.
qc_ku_next(c) == [c EXCEPT !.rx_ku = App(Rx(c, 2).n + 1), !.ku_until = NEVER]

\* The next keys become the current ones, the old receive keys stay in rx_ku; pn is the packet
\* that showed them, NEVER when the client starts.
promoted(c, pn, min) ==
    [c EXCEPT !.rx[3] = c.rx_ku, !.rx_ku = Rx(c, 2), !.tx[3] = App(Tx(c, 2).n + 1), !.n_sealed = 0,
              !.ku_until = IF pn = NEVER THEN WAIT ELSE qc_ku_drop_at(c),
              !.ku_min = min, !.ku_max = IF pn = NEVER THEN 0 ELSE pn + 1,
              !.ku_tx_first = c.tx_pn[2], !.ku_ack_at = NEVER]
\* The lowest packet number of the phase before is kept.
qc_ku_promote_min(c, pn) == promoted(c, pn, c.ku_min)
qc_ku_promote(c, pn) == promoted(c, pn, pn)

\* A 1-RTT packet opened with the current keys, or with the others: next or previous.
qc_ku_opened(c, other, pn) ==
    IF ~other
    THEN [c EXCEPT !.ku_until = IF @ = WAIT THEN qc_ku_drop_at(c) ELSE @,
                   !.ku_min = Min({@, pn}), !.ku_max = Max({@, pn + 1})]
    ELSE IF c.ku_until # NEVER
    THEN IF pn > c.ku_min THEN [c EXCEPT !.code = "KEY_UPDATE"] ELSE c
    ELSE IF pn + 1 < c.ku_max THEN [c EXCEPT !.code = "KEY_UPDATE"]
    ELSE qc_ku_promote(c, pn)

\* When the client may start: confirmed, the next keys ready, an ACK of this phase and 3 PTO
\* after it.
ku_allowed(c) ==
    /\ c.confirmed /\ c.ku_until = NEVER /\ c.rx_ku # None
    /\ c.largest_acked[2] # NO_PN /\ c.largest_acked[2] >= c.ku_tx_first
    /\ c.now >= c.ku_ack_at
\* brisk__quic_key_update.
key_update(c) == IF c.err = "OK" /\ ku_allowed(c) THEN qc_ku_promote(c, NEVER) ELSE c

\* Before each datagram: update before the key is used up, or close while it can protect that.
tx_limit(c, last) ==
    IF ~c.established \/ c.n_sealed < KEY_SOFT THEN c
    ELSE IF ku_allowed(c) THEN qc_ku_promote(c, NEVER)
    ELSE IF c.n_sealed >= last THEN q_fail(c, "AEAD_LIMIT_REACHED")
    ELSE c
\* Closed one packet later, when the key is used up.
qc_tx_limit_late(c) == tx_limit(c, KEY_LIMIT)
qc_tx_limit(c) == tx_limit(c, KEY_LIMIT - 1)

-----------------------------------------------------------------------------
(* Time *)

set_now(c, t) == [c EXCEPT !.now = Max({@, t})]

\* The loss timer gives up what was sent before an acknowledged packet; the probe timer owes
\* a packet at a level and sends its unacknowledged CRYPTO data again.
loss_timer(c) ==
    {reap(c, {}, old) : old \in {o \in {{s \in c.rec : s.lvl = l /\ s.pn < c.largest_acked[l]} : l \in Levels} : o # {}}}
probe_timer(c, l) ==
    [c EXCEPT !.probe[l] = Min({2, @ + 1}), !.last_elicit = c.now,
              !.ret_sent = [m \in 0..1 |-> IF m # l THEN @[m]
                  ELSE Min({@[m]} \cup {s.off : s \in {x \in c.rec : x.lvl = m /\ x.len # 0}})]]
rec_timer(c) ==
    IF rec_deadline(c) > c.now THEN {c}
    ELSE loss_timer(c) \cup {probe_timer(c, s.lvl) : s \in {x \in c.rec : x.elicit}}

ku_timer(c) == IF c.ku_until <= c.now THEN qc_ku_next(c) ELSE c

\* Every outcome of the due timers: idle expiry ends the connection without a word.
run_timers(c) ==
    IF c.err # "OK" THEN {c}
    ELSE IF idle_deadline(c) <= c.now THEN {q_end(c, "IDLE", FALSE)}
    ELSE rec_timer(ku_timer(c))

-----------------------------------------------------------------------------
(* Received packets *)

Frame(f, a, b, s) == [f |-> f, a |-> a, b |-> b, s |-> s]
Eliciting(f) == f.f \notin {"ack", "close"}

frame(c, lvl, f, lost) ==
    CASE f.f = "crypto"    -> crypto_in(c, lvl, f.a, f.b)
      [] f.f = "ack"       -> on_ack(c, lvl, f.s, lost)
      [] f.f = "new_cid"   -> new_cid(c, f.a, f.b, Issued(f.a))
      [] f.f = "challenge" -> [c EXCEPT !.path_resp = Min({2, @ + 1})]
      [] f.f = "stream"    -> [c EXCEPT !.unread = TRUE]
      [] f.f = "close"     -> [c EXCEPT !.err = "PEER_ALERT"]
      [] f.f = "done"      -> IF c.confirmed THEN c
                              ELSE [c EXCEPT !.confirmed = TRUE, !.rx[2] = None, !.tx[2] = None,
                                        !.ret_len[1] = 0, !.ret_sent[1] = 0,
                                        !.rec = {s \in @ : s.lvl # 1}, !.seen[1] = {},
                                        !.pending[1] = 0, !.ack_due[1] = NEVER, !.probe[1] = 0]
      [] OTHER             -> c                             \* PING

\* The frames of one packet in order, until one of them ends the connection.
frames(c, lvl, fs, lost) ==
    LET next(x, f) == IF x.code # "none" \/ x.err # "OK" THEN x ELSE frame(x, lvl, f, lost)
    IN  FoldLeft(next, c, fs)

\* rxack_add: Initial and Handshake packets are acknowledged at once, 1-RTT packets within
\* MAX_DELAY, the second or one out of order at once.
rxack_add(c, lvl, pn, elicit) ==
    LET count == Min({2, c.pending[lvl] + 1})
        gap == c.seen[lvl] # {} /\ pn # Max(c.seen[lvl]) + 1
        due == IF lvl < 2 \/ count = 2 \/ gap THEN c.now ELSE c.now + MAX_DELAY
        add == [c EXCEPT !.seen[lvl] = @ \cup {pn}]
    IN  IF elicit THEN [add EXCEPT !.pending[lvl] = count, !.ack_due[lvl] = Min({@, due})] ELSE add

\* What the server that answers from scid says of itself in its transport parameters, all of
\* it authenticated by the handshake: Retry i leads to the server connection i, i # 0.
ServerTp(scid) == [odcid |-> ODCID, iscid |-> scid,
                   retry |-> IF scid.n = 0 THEN None ELSE Name("r", scid.n)]
cids_ok(c) ==
    LET tp == ServerTp(Name("s", Tx(c, 1).n))
    IN  tp.odcid = ODCID /\ tp.iscid = c.server_scid /\ tp.retry = c.retry_scid

\* The handshake is complete: its connection ID is number 0, a preferred address brings 1.
establish(c) ==
    IF c.established \/ c.hs.state # "CONNECTED" THEN c
    ELSE IF ~cids_ok(c) THEN q_fail(c, "TRANSPORT_PARAMETER")
    ELSE qc_ku_next([c EXCEPT !.established = TRUE,
            !.cids[1] = [used |-> TRUE, seq |-> 0, cid |-> c.dcid],
            !.cids[2] = IF c.hs.pref THEN [used |-> TRUE, seq |-> 1, cid |-> Issued(1)] ELSE @])

\* The current keys, or by the Key Phase bit the others.
OpensWith(c, p) ==
    IF p.lvl = 2 /\ c.rx_ku # None /\ Phase(p.key) # Phase(Rx(c, 2)) THEN c.rx_ku ELSE Rx(c, p.lvl)
Opens(c, p) ==
    /\ p.lvl < 2 /\ c.got_initial => p.scid = c.server_scid
    /\ Rx(c, p.lvl) # None
    /\ p.lvl = 2 => c.hs.state = "CONNECTED"
    /\ p.key = OpensWith(c, p)

\* A packet that opened, and is new.
packet(c0, p, lost) ==
    LET kp  == IF p.lvl = 2 THEN qc_ku_opened(c0, p.key # Rx(c0, 2), p.pn) ELSE c0
        c   == IF p.lvl = 0 /\ ~kp.got_initial
               THEN [kp EXCEPT !.dcid = p.scid, !.server_scid = p.scid, !.got_initial = TRUE] ELSE kp
        fr  == frames(c, p.lvl, p.frames, lost)
        ack == [rxack_add(fr, p.lvl, p.pn, \E i \in 1..Len(p.frames) : Eliciting(p.frames[i]))
                    EXCEPT !.idle_start = c.now, !.idle_rx = TRUE]
    IN  IF kp.code # "none" THEN q_fail(kp, kp.code)
        ELSE IF fr.err # "OK" THEN wipe_all(fr)
        ELSE IF fr.code # "none" THEN q_fail(fr, fr.code)
        ELSE establish(ack)
one_packet(c, p, lost) ==
    LET o == [c EXCEPT !.opened = TRUE] IN IF p.pn \in c.seen[p.lvl] THEN o ELSE packet(o, p, lost)

\* A Retry: one at most, before any other packet, from another ID than the one we sent to.
RetryOk(c, p) == c.retry_scid = None /\ ~c.got_initial /\ ~c.opened /\ p.scid # c.dcid
retried(c, p, key) ==
    [c EXCEPT !.token = p.scid.n, !.retry_scid = p.scid, !.dcid = p.scid,
              !.tx[1] = key, !.rx[1] = key,
              !.ret_sent[0] = 0, !.rec = {}, !.last_elicit = NEVER,
              !.largest_acked = [l \in Levels |-> NO_PN], !.probe[0] = 0, !.seen[0] = {},
              !.pending[0] = 0, !.ack_due[0] = NEVER]
\* The Initial keys stay those of the first DCID.
qc_retry_in_keys(c, p) == retried(c, p, Tx(c, 0))
qc_retry_in(c, p) == retried(c, p, Initial(p.scid))

\* Version Negotiation: only as the first answer, to the ID we sent to, without our version.
qc_vn_in(c, p) ==
    IF c.retry_scid # None \/ c.opened \/ p.scid # c.dcid THEN c
    ELSE q_end(c, "VERSION_NEGOTIATION", FALSE)

\* brisk__quic_recv after its timers, a datagram of one packet.
recv(c, p, lost) ==
    CASE c.err # "OK"   -> c
      [] p.type = "vn"    -> qc_vn_in(c, p)
      [] p.type = "retry" -> IF RetryOk(c, p) THEN qc_retry_in(c, p) ELSE c
      [] p.type = "reset" -> IF qc_reset_match(c, p.scid) THEN q_end(c, "RESET", FALSE) ELSE c
      [] OTHER            -> IF Opens(c, p) THEN one_packet(c, p, lost) ELSE c

\* brisk_quic_feed: the second ClientHello follows a HelloRetryRequest before anything is sent.
feed(c, p, lost) ==
    LET r == [recv(c, p, lost) EXCEPT !.owe = TRUE]
    IN  IF r.err = "OK" /\ r.hs.state = "WAIT_CH2"
        THEN [r EXCEPT !.hs.state = "WAIT_SH", !.hs.out[0] = @ + 1] ELSE r

-----------------------------------------------------------------------------
(* Datagrams to send *)

\* The engine's output joins the level's stream.
hs_pull(c) ==
    IF \E l \in 0..1 : c.hs.out[l] # 0 /\ Tx(c, l) = None THEN q_fail(c, "INTERNAL")
    ELSE [c EXCEPT !.ret_len = [l \in 0..1 |-> @[l] + c.hs.out[l]], !.hs.out = [l \in 0..1 |-> 0]]

\* The ack-eliciting frames of the next packet at a level.
Nothing == [off |-> 0, len |-> 0, ret |-> {}, data |-> FALSE, path |-> 0, elicit |-> FALSE]
elicit_frames(c, l) ==
    LET len  == IF l < 2 THEN c.ret_len[l] - c.ret_sent[l] ELSE 0
        path == IF l = 2 THEN c.path_resp ELSE 0
        ret  == IF l = 2 THEN {c.rq[j].seq : j \in {i \in 1..RETIRE : c.rq[i].state = 1}} ELSE {}
        data == l = 2 /\ c.streams
    IN  [off |-> IF len = 0 THEN 0 ELSE c.ret_sent[l], len |-> len, ret |-> ret, data |-> data,
         path |-> path,
         elicit |-> len # 0 \/ path # 0 \/ ret # {} \/ data \/ c.probe[l] # 0]
elicited(c, l, e) ==
    [c EXCEPT !.ret_sent = [m \in 0..1 |-> IF m = l THEN @[m] + e.len ELSE @[m]],
              !.path_resp = @ - e.path, !.streams = @ /\ ~e.data,
              !.rq = [j \in 1..RETIRE |-> IF l = 2 /\ @[j].state = 1
                                          THEN [@[j] EXCEPT !.state = 2, !.pn = c.tx_pn[2]] ELSE @[j]],
              !.probe[l] = IF e.elicit /\ @ # 0 THEN @ - 1 ELSE @]

\* The packet of one level, if something is due there: b carries the connection, the packets
\* so far, the free records and whether the datagram is padded.
MayElicit(b, l) == (b.cc_ok /\ b.free > 2) \/ (b.c.probe[l] # 0 /\ b.free # 0)
level_add(b, l, e) ==
    LET c == b.c
        ack == c.pending[l] # 0
        padded == b.pad \/ e.path # 0
    IN  IF ~e.elicit /\ (~ack \/ c.ack_due[l] > c.now) THEN b
        ELSE IF ~e.elicit /\ (padded \/ l = 0) /\ b.free <= 2 THEN b
        ELSE [c |-> [elicited(c, l, e) EXCEPT
                        !.pending[l] = 0, !.ack_due[l] = NEVER],
              pk |-> Append(b.pk, [lvl |-> l, e |-> e, acks |-> IF ack THEN c.seen[l] ELSE {}]),
              free |-> IF e.elicit \/ padded \/ l = 0 THEN b.free - 1 ELSE b.free,
              pad |-> padded \/ l = 0, cc_ok |-> b.cc_ok]
level(b, l) ==
    IF Tx(b.c, l) = None \/ (l = 2 /\ ~b.c.established) THEN b
    ELSE level_add(b, l, IF MayElicit(b, l) THEN elicit_frames(b.c, l) ELSE Nothing)
coalesce(c) ==
    FoldLeft(level, [c |-> c, pk |-> <<>>, free |-> rec_free(c), pad |-> FALSE, cc_ok |-> can_send(c)],
             <<0, 1, 2>>)

\* pkt_finish: sealed with the level's key under the next number, to the ID in use.
sealed(c, k) ==
    [lvl |-> k.lvl, key |-> Tx(c, k.lvl), pn |-> c.tx_pn[k.lvl], dcid |-> c.dcid,
     token |-> IF k.lvl = 0 THEN c.token ELSE 0, off |-> k.e.off, len |-> k.e.len,
     ret |-> k.e.ret, acks |-> k.acks, elicit |-> k.e.elicit]
record(c, k) ==
    [lvl |-> k.lvl, pn |-> c.tx_pn[k.lvl], off |-> k.e.off, len |-> k.e.len, ret |-> k.e.ret # {},
     data |-> k.e.data, elicit |-> k.e.elicit]
pkt_finish(c, k, inflight) ==
    [c EXCEPT !.tx_pn[k.lvl] = @ + 1, !.n_sealed = IF k.lvl = 2 THEN @ + 1 ELSE @,
              !.dcid_unsent = @ /\ k.lvl # 2,
              !.rec = IF inflight THEN @ \cup {record(c, k)} ELSE @,
              !.last_elicit = IF k.e.elicit THEN c.now ELSE @]

\* The first Handshake packet ends the Initial keys and all that belongs to them.
drop_initial(c) ==
    [c EXCEPT !.rx[1] = None, !.tx[1] = None, !.ret_len[0] = 0, !.ret_sent[0] = 0,
              !.rec = {s \in @ : s.lvl # 0}, !.seen[0] = {}, !.pending[0] = 0, !.ack_due[0] = NEVER,
              !.probe[0] = 0]

finish(b) ==
    LET one(x, i) == pkt_finish(x, b.pk[i], b.pk[i].e.elicit \/ (b.pad /\ i = Len(b.pk)))
        c == FoldLeft(one, b.c, [i \in 1..Len(b.pk) |-> i])
        h == IF Tx(c, 0) # None /\ \E i \in 1..Len(b.pk) : b.pk[i].lvl = 1 THEN drop_initial(c) ELSE c
        first == c.idle_rx /\ \E i \in 1..Len(b.pk) : b.pk[i].e.elicit
    IN  [h EXCEPT !.idle_start = IF first THEN c.now ELSE @, !.idle_rx = @ /\ ~first,
                  !.burst = @ + 1]

\* brisk__quic_send after its timers: the connection after it, and the packets of the datagram.
prepared(c) ==
    LET p == IF c.err = "OK" THEN hs_pull(c) ELSE c
        l == IF p.err = "OK" THEN qc_tx_limit(p) ELSE p
    IN  IF l.err # "OK" \/ l.burst_t = l.now THEN l ELSE [l EXCEPT !.burst_t = l.now, !.burst = 0]
Paced(c) == c.burst >= BURST
KeyUsedUp(c, b) == c.n_sealed >= KEY_LIMIT /\ \E i \in 1..Len(b.pk) : b.pk[i].lvl = 2
built(c, b) ==
    IF b.pk = <<>> THEN [c |-> c, dgram |-> {}]
    ELSE IF KeyUsedUp(c, b) THEN [c |-> q_end(c, "AEAD_LIMIT_REACHED", FALSE), dgram |-> {}]
    ELSE [c |-> finish(b), dgram |-> {sealed(c, b.pk[i]) : i \in 1..Len(b.pk)}]
send(c0) ==
    LET c == prepared(c0)
    IN  IF c.err # "OK"
        THEN [c |-> [c EXCEPT !.cc = IF @ = 1 THEN 2 ELSE @, !.ccl = {}],
              dgram |-> IF c.cc = 1 THEN c.ccl ELSE {}]
        ELSE IF Paced(c) THEN [c |-> c, dgram |-> {}]
        ELSE built(c, coalesce(c))

\* brisk_quic_pull: nothing more is owed once it returned nothing.
pull(c) ==
    LET s == send(c) IN [s EXCEPT !.c.owe = @ /\ s.dgram # {}]

\* brisk__quic_deadline, and brisk_quic_deadline over it.
deadline_of(c, pace) ==
    IF c.err # "OK" THEN IF c.cc = 1 THEN c.now ELSE NEVER
    ELSE IF (\E l \in Levels : c.probe[l] # 0) \/ (c.path_resp # 0 /\ can_send(c)) THEN c.now
    ELSE Min({idle_deadline(c), rec_deadline(c), IF c.ku_until = WAIT THEN NEVER ELSE c.ku_until}
             \cup {c.ack_due[l] : l \in {m \in Levels : Tx(c, m) # None /\ c.pending[m] # 0}}
             \cup pace)
\* The pacing wait is no timer.
conn_deadline_unpaced(c) == deadline_of(c, {})
conn_deadline(c) == deadline_of(c, IF c.burst >= BURST THEN {c.burst_t + 1} ELSE {})
deadline(c) == IF c.owe THEN Min({c.now, conn_deadline(c)}) ELSE conn_deadline(c)

=============================================================================
