---------------------------- MODULE QuicRecovery ----------------------------
(***************************************************************************)
(* Loss recovery and congestion control of the client, the send side of    *)
(* quic/recovery.c with what conn.c does around it: the table of           *)
(* sent-packet records over the three packet number spaces, loss detection *)
(* by packet number and by time, the probe timeout, NewReno, the           *)
(* retransmission of CRYPTO data, and the choice of packets in one         *)
(* datagram.                                                               *)
(*                                                                         *)
(* The struct brisk__quic_rec is the variable rec.  The functions of       *)
(* recovery.c are operators from one value of it to the next, and an       *)
(* action is one call of brisk__quic_recv or brisk__quic_send, which both  *)
(* begin with run_timers.  The network may lose, delay and reorder         *)
(* packets; the peer may acknowledge any packet that was sent.  What       *)
(* 1-RTT packets carry is left to QuicStreams, when ACKs are due to        *)
(* QuicAckRanges.  Sizes count in units of which a datagram holds MDS.     *)
(* The pacing limit of a burst is left out, a call may always send less;   *)
(* the end of the connection, which may come at any time, ends a behaviour.*)
(*                                                                         *)
(* Name_variant(...) is a copy of Name with one mistake, never used by the *)
(* specification: PROJECT.json says which property notices it.             *)
(***************************************************************************)
EXTENDS Integers, FiniteSets, Functions

CONSTANTS
    SENT,           \* BRISK__QUIC_SENT, the records
    MDS,            \* BRISK__QUIC_MDS, the size of a full datagram
    CWND0,          \* the initial window (12000 bytes)
    RTT0, RTTVAR0,  \* the initial estimates (333 ms and 166 ms)
    PTO_CAP,        \* QR_PTO_CAP
    RANGES,         \* BRISK__QUIC_RANGES, what is remembered of one ACK frame
    MAD,            \* peer_tp.max_ack_delay
    INT64_MAX,      \* the time that means never
    Sizes,          \* packet sizes before padding
    Crypto,         \* per handshake level: length of its CRYPTO stream
    Delays,         \* ACK delays the peer reports
    MaxPn,          \* bound, per level: packets sent
    MaxTime         \* bound: the caller's clock

Lvls   == 0..2
NONE   == -1                \* QR_NONE, INT64_MIN
MINWIN == 2 * MDS           \* BRISK__QUIC_MINWIN
Slots  == 1..SENT

ASSUME RecoveryAssumption ==
    /\ SENT \in Nat /\ SENT > 2
    /\ MDS \in Nat \ {0} /\ CWND0 \in Nat /\ CWND0 >= MINWIN
    /\ RTT0 \in Nat /\ RTTVAR0 \in Nat /\ PTO_CAP \in Nat /\ RANGES \in Nat \ {0} /\ MAD \in Nat
    /\ INT64_MAX \in Nat /\ MaxTime \in Nat /\ MaxTime < INT64_MAX
    /\ Sizes \subseteq 1..MDS /\ Delays \subseteq Nat
    /\ Crypto \in [{0, 1} -> Nat \ {0}] /\ MaxPn \in [Lvls -> Nat]

MaxOf(a, b) == IF a >= b THEN a ELSE b
MinOf(a, b) == IF a <= b THEN a ELSE b

\* A record of a packet in flight: its CRYPTO data are bytes off..off+len-1 of its level.
Sent == [lvl : Lvls, pn : Nat, t : Nat, size : 1..MDS, elicit : BOOLEAN, off : Nat, len : Nat]
Free == [lvl |-> 0, pn |-> NONE, t |-> 0, size |-> 0, elicit |-> FALSE, off |-> 0, len |-> 0]

VARIABLES
    rec,            \* brisk__quic_rec
    probe,          \* per level: probe packets owed
    ret_sent,       \* per handshake level: CRYPTO bytes sent (or not lost yet)
    ret_len,        \* per handshake level: CRYPTO bytes to send
    tx,             \* the levels with send keys
    opened,         \* a packet of the server was opened: n_opened # 0
    retry_done,     \* a Retry was accepted
    established,    \* the handshake is complete
    confirmed,      \* HANDSHAKE_DONE arrived
    tx_pn,          \* per level: the next packet number
    now,            \* the last time the caller told
    crypto_acked,   \* history, per handshake level: CRYPTO bytes the peer acknowledged
    unrecorded      \* history: a packet in flight found no record

conn == <<ret_len, tx, established, confirmed, tx_pn>>
vars == <<rec, probe, ret_sent, conn, opened, retry_done, now, crypto_acked, unrecorded>>

\* What the timers and an ACK can change, as one value to pass on within a call.
State == [rec |-> rec, probe |-> probe, ret_sent |-> ret_sent, crypto_acked |-> crypto_acked]

Becomes(q) ==
    /\ rec' = q.rec /\ probe' = q.probe
    /\ ret_sent' = q.ret_sent /\ crypto_acked' = q.crypto_acked

-----------------------------------------------------------------------------
(* Records *)

Outstanding(r) == {i \in Slots : r.s[i] # Free}
OutstandingAt(r, l) == {i \in Outstanding(r) : r.s[i].lvl = l}
Eliciting(r, l) == {i \in OutstandingAt(r, l) : r.s[i].elicit}
elicit_out(r, l) == Eliciting(r, l) # {}
rec_free(r) == Cardinality(Slots \ Outstanding(r))

SizeOf(r, S) == SumFunctionOnSet([i \in Slots |-> r.s[i].size], S)

LeastTime(T) == CHOOSE t \in T : \A u \in T : t <= u
LastTime(T)  == CHOOSE t \in T : \A u \in T : t >= u

tadd(t, d) == IF t > INT64_MAX - 1 - d THEN INT64_MAX - 1 ELSE t + d

rec_init ==
    [s |-> [i \in Slots |-> Free],
     largest_acked |-> [l \in Lvls |-> NONE],
     loss_time |-> [l \in Lvls |-> INT64_MAX],
     last_elicit |-> [l \in Lvls |-> NONE],
     recovery_start |-> NONE, first_sample_t |-> INT64_MAX,
     srtt |-> RTT0, rttvar |-> RTTVAR0, min_rtt |-> 0, latest_rtt |-> 0,
     cwnd |-> CWND0, ssthresh |-> INT64_MAX, in_flight |-> 0, ca_acc |-> 0,
     has_sample |-> FALSE, pto_count |-> 0, hs_acked |-> FALSE]

can_send_above(r) == r.in_flight <= r.cwnd
can_send(r) == r.in_flight + MDS <= r.cwnd

\* A record takes the first free entry; without one the packet goes unrecorded.
on_sent(r, x) ==
    LET free == Slots \ Outstanding(r)
        i    == CHOOSE j \in free : \A k \in free : j <= k
    IN  IF free = {} THEN r
        ELSE [r EXCEPT !.s[i] = x,
                       !.in_flight = @ + x.size,
                       !.last_elicit[x.lvl] = IF x.elicit THEN x.t ELSE @]

\* A level's keys are gone: so are its packets, its timers and the backoff.
rec_discard_flight(r, l) ==
    [r EXCEPT !.s = [i \in Slots |-> IF r.s[i].lvl = l THEN Free ELSE r.s[i]],
              !.loss_time[l] = INT64_MAX, !.last_elicit[l] = NONE, !.pto_count = 0]
rec_discard(r, l) ==
    [r EXCEPT !.s = [i \in Slots |-> IF r.s[i].lvl = l THEN Free ELSE r.s[i]],
              !.in_flight = @ - SizeOf(r, OutstandingAt(r, l)),
              !.loss_time[l] = INT64_MAX, !.last_elicit[l] = NONE, !.pto_count = 0]

-----------------------------------------------------------------------------
(* Congestion *)

\* At most one reduction per recovery period.
congestion(r, sent_t) ==
    IF sent_t <= r.recovery_start THEN r
    ELSE [r EXCEPT !.recovery_start = now, !.ssthresh = r.cwnd \div 2,
                   !.cwnd = MaxOf(r.cwnd \div 2, MINWIN), !.ca_acc = 0]

\* One acknowledged packet opens the window w, unless it was sent before the recovery period or
\* the window was not the limit.  The loop around congestion avoidance turns at most once, a
\* packet being smaller than the window.
Opened(w, r, x, cwnd_limited) ==
    LET acc == w.ca_acc + x.size
    IN  IF x.t <= r.recovery_start \/ ~cwnd_limited THEN w
        ELSE IF w.cwnd < r.ssthresh THEN [w EXCEPT !.cwnd = @ + x.size]
        ELSE IF acc >= w.cwnd THEN [cwnd |-> w.cwnd + MDS, ca_acc |-> acc - w.cwnd]
        ELSE [w EXCEPT !.ca_acc = acc]

\* The order in which the ranges of an ACK frame for the packets S, highest first, meet records.
MarkedBefore(r, S, i, j) ==
    LET a == r.s[i].pn  b == r.s[j].pn
    IN  IF MinOf(a, b)..MaxOf(a, b) \subseteq S THEN i < j ELSE a > b
LastMarked(r, S, T) == CHOOSE i \in T : \A j \in T \ {i} : MarkedBefore(r, S, j, i)

\* The window after the records A were acknowledged one after the other.
Window(r, S, A, cwnd_limited) ==
    MapThenFoldSet(LAMBDA i, w : Opened(w, r, r.s[i], cwnd_limited),
                   [cwnd |-> r.cwnd, ca_acc |-> r.ca_acc],
                   LAMBDA i : i, LAMBDA T : LastMarked(r, S, T), A)

\* An ACK frame, the set of packet numbers in it, as far as its first RANGES ranges tell: below
\* them everything may have been acknowledged.
Lows(S) == {p \in S : p - 1 \notin S}
Known(S) == {p \in S : Cardinality({q \in Lows(S) : q > p}) < RANGES}
between(S, a, b) ==
    \/ \E p \in Known(S) : a < p /\ p < b
    \/ Known(S) # S /\ \A p \in Known(S) : a < p

\* Two packets just lost, further apart than three PTOs, with nothing acknowledged in between.
persistent(r, lost, acks) ==
    LET pto == r.srtt + MaxOf(4 * r.rttvar, 1) + MAD
        L   == {r.s[i] : i \in {j \in lost : r.s[j].elicit /\ r.s[j].t > r.first_sample_t}}
    IN  /\ r.has_sample
        /\ \E x, y \in L : x.pn < y.pn /\ y.t - x.t > 3 * pto /\ ~between(acks, x.pn, y.pn)

Collapsed(r) ==
    [r EXCEPT !.cwnd = MINWIN, !.recovery_start = NONE, !.ca_acc = 0, !.min_rtt = r.latest_rtt]

-----------------------------------------------------------------------------
(* Loss *)

\* The CRYPTO offset to send from, moved back to the first of the records in S.
Resume_last(q, r, l, S) ==
    LET offs == {r.s[i].off : i \in {j \in S : r.s[j].len > 0}}
    IN  IF l = 2 \/ l \notin tx \/ offs = {} THEN q
        ELSE [q EXCEPT !.ret_sent[l] = MinOf(@, LastTime(offs))]
Resume(q, r, l, S) ==
    LET offs == {r.s[i].off : i \in {j \in S : r.s[j].len > 0}} \cup {q.ret_sent[l]}
    IN  IF l = 2 \/ l \notin tx THEN q
        ELSE [q EXCEPT !.ret_sent[l] = LeastTime(offs)]

Freed(r, S) == [r EXCEPT !.s = [i \in Slots |-> IF i \in S THEN Free ELSE r.s[i]]]

\* Packets below the largest acknowledged one are lost when three are above them or when they
\* are old; else the loss timer waits for the first of them.  acks is the ACK frame being
\* processed, empty when the timer calls.  What reap does for the lost ones follows.
detect_lost(q, l, acks) ==
    LET r     == q.rec
        x     == MaxOf(r.latest_rtt, r.srtt)
        delay == MaxOf(x + x \div 8, 1)
        la    == r.largest_acked[l]
        below == {i \in OutstandingAt(r, l) : r.s[i].pn <= la}
        lost  == {i \in below : r.s[i].t <= now - delay \/ la >= r.s[i].pn + 3}
        due   == {tadd(r.s[i].t, delay) : i \in below \ lost}
        r1    == [r EXCEPT !.loss_time[l] = IF due = {} THEN INT64_MAX ELSE LeastTime(due),
                           !.in_flight = @ - SizeOf(r, lost)]
        r2    == congestion(r1, LastTime({r.s[i].t : i \in lost}))
        r3    == IF acks # {} /\ persistent(r2, lost, acks) THEN Collapsed(r2) ELSE r2
    IN  IF lost = {} THEN [q EXCEPT !.rec = r1]
        ELSE Resume([q EXCEPT !.rec = Freed(r3, lost)], r, l, lost)

update_rtt(r, lat, ad) ==
    LET min  == MinOf(lat, r.min_rtt)
        del  == IF confirmed THEN MinOf(ad, MAD) ELSE ad
        adj  == IF lat >= min + del THEN lat - del ELSE lat
        diff == MaxOf(r.srtt, adj) - MinOf(r.srtt, adj)
    IN  IF r.has_sample
        THEN [r EXCEPT !.latest_rtt = lat, !.min_rtt = min,
                       !.rttvar = (3 * @ + diff) \div 4, !.srtt = (7 * @ + adj) \div 8]
        ELSE [r EXCEPT !.latest_rtt = lat, !.min_rtt = lat, !.srtt = lat, !.rttvar = lat \div 2,
                       !.has_sample = TRUE, !.first_sample_t = now]

CryptoBytes(r, A, l) ==
    UNION {r.s[i].off..(r.s[i].off + r.s[i].len - 1) : i \in A}

\* A frame that acknowledges the packets S of level l, all of them sent, and reap.
rec_on_ack(q, l, S, ad) ==
    LET r0      == [q.rec EXCEPT !.hs_acked = @ \/ l = 1,
                                 !.largest_acked[l] = MaxOf(@, LastTime(S))]
        r       == q.rec
        A       == {i \in OutstandingAt(r, l) : r.s[i].pn \in S}
        limited == r.in_flight + MDS > r.cwnd
        w       == Window(r, S, A, limited)
        r2      == [Freed(r0, A) EXCEPT !.in_flight = @ - SizeOf(r, A),
                                        !.cwnd = w.cwnd, !.ca_acc = w.ca_acc]
        newest  == {i \in A : r.s[i].pn = LastTime(S)}
        sampled == newest # {} /\ \E i \in A : r.s[i].elicit
        lat     == now - r.s[CHOOSE i \in newest : TRUE].t
        r3      == IF sampled THEN update_rtt(r2, lat, IF l = 0 THEN 0 ELSE ad) ELSE r2
        q1      == detect_lost([q EXCEPT !.rec = r3,
                                         !.crypto_acked[l] = @ \cup CryptoBytes(r, A, l)], l, S)
    IN  IF A = {} THEN [q EXCEPT !.rec = r0]
        ELSE IF r0.hs_acked \/ confirmed THEN [q1 EXCEPT !.rec.pto_count = 0]
        ELSE q1

-----------------------------------------------------------------------------
(* Timers *)

Backoff(d, r) == d * 2 ^ r.pto_count

\* The probe timeout and its level; INT64_MAX when none is armed.
pto_time(r) ==
    LET any  == \E l \in Lvls : elicit_out(r, l)
        dur  == Backoff(r.srtt + MaxOf(4 * r.rttvar, 1), r)
        last == LastTime({r.last_elicit[l] : l \in Lvls})
        wait == {l \in Lvls : elicit_out(r, l) /\ (l = 2 => confirmed)}
        at   == [l \in Lvls |-> tadd(r.last_elicit[l],
                                     IF l = 2 THEN dur + Backoff(MAD, r) ELSE dur)]
        lvl  == CHOOSE l \in wait : \A k \in wait : at[l] < at[k] \/ (at[l] = at[k] /\ l <= k)
    IN  IF ~any
        THEN [lvl |-> IF 1 \in tx THEN 1 ELSE 0,
              t |-> IF r.hs_acked \/ confirmed \/ last = NONE THEN INT64_MAX ELSE tadd(last, dur)]
        ELSE IF wait = {} THEN [lvl |-> 0, t |-> INT64_MAX]
        ELSE [lvl |-> lvl, t |-> at[lvl]]

\* The level whose loss timer is the first, if one is armed.
loss_armed(r) == {l \in Lvls : r.loss_time[l] # INT64_MAX}
LossLvl(r) ==
    CHOOSE l \in loss_armed(r) : \A k \in loss_armed(r) :
        r.loss_time[l] < r.loss_time[k] \/ (r.loss_time[l] = r.loss_time[k] /\ l <= k)

rec_deadline(r) ==
    IF loss_armed(r) # {} THEN r.loss_time[LossLvl(r)] ELSE pto_time(r).t

\* A PTO declares nothing lost: it owes a probe, which carries the unacknowledged CRYPTO data.
Expired(q) ==
    LET l  == pto_time(q.rec).lvl
        q1 == [q EXCEPT !.rec.pto_count = MinOf(@ + 1, PTO_CAP)]
    IN  IF l \notin tx THEN q1
        ELSE Resume([q1 EXCEPT !.probe[l] = MinOf(@ + 1, 2)], q.rec, l, OutstandingAt(q.rec, l))

run_timers(q) ==
    IF rec_deadline(q.rec) > now THEN q
    ELSE IF loss_armed(q.rec) # {} THEN detect_lost(q, LossLvl(q.rec), {})
    ELSE Expired(q)

-----------------------------------------------------------------------------
(* One call of brisk__quic_send *)

\* What a call may find: ACKs due, 1-RTT data to send, and how much fits each packet.
Calls == [acks : SUBSET tx, data : IF established THEN BOOLEAN ELSE {FALSE},
          size : [Lvls -> Sizes]]

\* Ack-eliciting frames go out within the window, the last two records left to probes; a probe
\* needs neither.
Elicits(d, l, ch) ==
    /\ (d.cc_ok /\ d.free > 2) \/ (d.q.probe[l] # 0 /\ d.free # 0)
    /\ \/ d.q.probe[l] # 0
       \/ IF l = 2 THEN ch.data ELSE d.q.ret_sent[l] < ret_len[l]

\* An ACK alone in a datagram that will be padded is in flight: it needs a record too.
AckAlone(d, l, ch) == l \in ch.acks /\ (d.pad \/ l = 0 => d.free > 2)

NoPacket == [elicit |-> FALSE, size |-> 0, off |-> 0, len |-> 0]

\* A packet's share of the CRYPTO stream of its level.
LenOf(d, l, ch) ==
    IF Elicits(d, l, ch) /\ l < 2 THEN MinOf(ret_len[l] - d.q.ret_sent[l], ch.size[l]) ELSE 0
OffOf(d, l, ch) == IF LenOf(d, l, ch) > 0 THEN d.q.ret_sent[l] ELSE 0

\* What a packet uses up: the probe that is owed, the CRYPTO bytes it sends.
Spent(d, l, ch) ==
    [d.q EXCEPT !.probe[l] = IF Elicits(d, l, ch) /\ @ > 0 THEN @ - 1 ELSE @,
                !.ret_sent = IF LenOf(d, l, ch) > 0
                             THEN [@ EXCEPT ![l] = OffOf(d, l, ch) + LenOf(d, l, ch)] ELSE @]

Joined(d, l, ch) ==
    [d EXCEPT !.pos = @ + ch.size[l],
              !.free = IF Elicits(d, l, ch) \/ d.pad \/ l = 0 THEN @ - 1 ELSE @,
              !.pad = @ \/ l = 0,
              !.q = Spent(d, l, ch),
              !.pk[l] = [elicit |-> Elicits(d, l, ch), size |-> ch.size[l],
                         off |-> OffOf(d, l, ch), len |-> LenOf(d, l, ch)]]

\* The level's packet joins the datagram; one that has no room ends it.
WithPacket(d, l, ch) ==
    LET full == d.pos + ch.size[l] > MDS
    IN  IF d.full \/ l \notin tx \/ (l = 2 /\ ~established) THEN d
        ELSE IF full \/ (~Elicits(d, l, ch) /\ ~AckAlone(d, l, ch)) THEN [d EXCEPT !.full = full]
        ELSE Joined(d, l, ch)

Datagram(q, ch) ==
    LET d0 == [q |-> q, pos |-> 0, free |-> rec_free(q.rec), pad |-> FALSE, full |-> FALSE,
               cc_ok |-> can_send(q.rec), pk |-> [l \in Lvls |-> NoPacket]]
    IN  WithPacket(WithPacket(WithPacket(d0, 0, ch), 1, ch), 2, ch)

\* The last packet is padded to a full datagram.  In flight are what must be acknowledged and
\* what was padded.
Built(d) == {l \in Lvls : d.pk[l] # NoPacket}
Padding(d) == {l \in Built(d) : d.pad /\ d.pos < MDS /\ \A k \in Built(d) : k <= l}
InFlight(d) == {l \in Built(d) : d.pk[l].elicit} \cup Padding(d)

Record(d, l) ==
    [lvl |-> l, pn |-> tx_pn[l], t |-> now,
     size |-> IF l \in Padding(d) THEN d.pk[l].size + MDS - d.pos ELSE d.pk[l].size,
     elicit |-> d.pk[l].elicit, off |-> d.pk[l].off, len |-> d.pk[l].len]

Recorded(r, d, l) == IF l \in InFlight(d) THEN on_sent(r, Record(d, l)) ELSE r

\* The first Handshake packet ends the Initial space; the timer that keeps the server's
\* amplification limit from stopping both sides starts here if it ran on that space.
InitialDone_noanchor(q) ==
    [q EXCEPT !.rec = rec_discard(q.rec, 0), !.probe[0] = 0, !.ret_sent[0] = 0]
InitialDone(q) ==
    LET r == rec_discard(q.rec, 0)
    IN  [q EXCEPT !.rec = IF ~r.hs_acked /\ r.last_elicit[1] = NONE
                          THEN [r EXCEPT !.last_elicit[1] = now] ELSE r,
                  !.probe[0] = 0, !.ret_sent[0] = 0]

send(timed, ch) ==
    LET d == Datagram(timed, ch)
        q == [d.q EXCEPT !.rec = Recorded(Recorded(Recorded(@, d, 0), d, 1), d, 2)]
        first_handshake == 1 \in Built(d) /\ 0 \in tx
    IN  /\ \A l \in Built(d) : tx_pn[l] < MaxPn[l]
        /\ tx_pn' = [l \in Lvls |-> IF l \in Built(d) THEN tx_pn[l] + 1 ELSE tx_pn[l]]
        /\ unrecorded' = (unrecorded \/ Cardinality(InFlight(d)) > rec_free(d.q.rec))
        /\ IF first_handshake
           THEN Becomes(InitialDone(q)) /\ tx' = tx \ {0} /\ ret_len' = [ret_len EXCEPT ![0] = 0]
           ELSE Becomes(q) /\ UNCHANGED <<tx, ret_len>>
        /\ UNCHANGED <<opened, retry_done, established, confirmed, now>>

-----------------------------------------------------------------------------
(* One call of brisk__quic_recv *)

\* Any datagram, one that nothing of comes through too.
recv_other ==
    /\ Becomes(run_timers(State))
    /\ opened' \in {opened, TRUE}
    /\ UNCHANGED <<conn, retry_done, now, unrecorded>>

recv_ack(timed, l, S, ad) ==
    /\ l \in tx /\ (l = 2 => established)
    /\ S # {}
    /\ Becomes(rec_on_ack(timed, l, S, ad))
    /\ opened' = TRUE
    /\ UNCHANGED <<conn, retry_done, now, unrecorded>>

\* A Retry, one at most and before anything else of the server: the same ClientHello again, by
\* way of a table without packets, timers or RTT; the packet numbers go on.
Retried_kept(q) == [q EXCEPT !.rec = rec_init, !.probe[0] = 0]
Retried(q) == [q EXCEPT !.rec = rec_init, !.probe[0] = 0, !.ret_sent[0] = 0]
recv_retry ==
    /\ ~retry_done /\ ~opened
    /\ retry_done' = TRUE
    /\ Becomes(Retried(run_timers(State)))
    /\ UNCHANGED <<conn, opened, now, unrecorded>>

\* The engine reads the ServerHello: Handshake keys.
recv_server_hello ==
    /\ 0 \in tx /\ 1 \notin tx /\ ~established
    /\ tx' = tx \cup {1} /\ opened' = TRUE
    /\ Becomes(run_timers(State))
    /\ UNCHANGED <<ret_len, retry_done, established, confirmed, tx_pn, now, unrecorded>>

\* The engine reads the server's Finished and writes its own: 1-RTT keys.  (conn.c fetches the
\* engine's output when it next sends; nothing looks at ret_len before.)
recv_finished ==
    /\ 1 \in tx /\ ~established
    /\ established' = TRUE /\ tx' = tx \cup {2}
    /\ ret_len' = [ret_len EXCEPT ![1] = Crypto[1]]
    /\ Becomes(run_timers(State))
    /\ UNCHANGED <<opened, retry_done, confirmed, tx_pn, now, unrecorded>>

HandshakeDone(q) ==
    [q EXCEPT !.rec = rec_discard(q.rec, 1), !.probe[1] = 0, !.ret_sent[1] = 0]

\* An honest server sends HANDSHAKE_DONE when it has the client's Finished; the code does not
\* ask.
recv_handshake_done ==
    /\ established /\ ~confirmed
    /\ confirmed' = TRUE /\ tx' = tx \ {1}
    /\ ret_len' = [ret_len EXCEPT ![1] = 0]
    /\ Becomes(HandshakeDone(run_timers(State)))
    /\ UNCHANGED <<opened, retry_done, established, tx_pn, now, unrecorded>>

set_now ==
    /\ now < MaxTime /\ now' = now + 1
    /\ UNCHANGED <<rec, probe, ret_sent, conn, opened, retry_done, crypto_acked, unrecorded>>

Init ==
    /\ rec = rec_init
    /\ probe = [l \in Lvls |-> 0]
    /\ ret_sent = [l \in {0, 1} |-> 0]
    /\ ret_len = [l \in {0, 1} |-> IF l = 0 THEN Crypto[0] ELSE 0]
    /\ tx = {0} /\ opened = FALSE /\ retry_done = FALSE
    /\ established = FALSE /\ confirmed = FALSE
    /\ tx_pn = [l \in Lvls |-> 0] /\ now = 0
    /\ crypto_acked = [l \in Lvls |-> {}] /\ unrecorded = FALSE

Next ==
    \/ LET timed == run_timers(State) IN
         \/ \E ch \in Calls : send(timed, ch)
         \/ \E l \in tx, ad \in Delays : \E S \in SUBSET (0..(tx_pn[l] - 1)) :
                recv_ack(timed, l, S, ad)
    \/ recv_other \/ recv_retry \/ recv_server_hello \/ recv_finished \/ recv_handshake_done
    \/ set_now

Spec == Init /\ [][Next]_vars

-----------------------------------------------------------------------------
(* Properties *)

Recovery ==
    [s : [Slots -> Sent \cup {Free}], largest_acked : [Lvls -> Nat \cup {NONE}],
     loss_time : [Lvls -> 0..INT64_MAX], last_elicit : [Lvls -> Nat \cup {NONE}],
     recovery_start : Nat \cup {NONE}, first_sample_t : 0..INT64_MAX,
     srtt : Nat, rttvar : Nat, min_rtt : Nat, latest_rtt : Nat,
     cwnd : Nat, ssthresh : Nat, in_flight : Nat, ca_acc : Nat,
     has_sample : BOOLEAN, pto_count : 0..PTO_CAP, hs_acked : BOOLEAN]

States == [rec : Recovery, probe : [Lvls -> 0..2], ret_sent : [{0, 1} -> Nat],
           crypto_acked : [Lvls -> SUBSET Nat]]

\* Types, among them the caps of the PTO counter and of the probes owed.
TypeOK ==
    /\ State \in States
    /\ ret_len \in [{0, 1} -> Nat] /\ tx \subseteq Lvls
    /\ opened \in BOOLEAN /\ retry_done \in BOOLEAN
    /\ established \in BOOLEAN /\ confirmed \in BOOLEAN
    /\ tx_pn \in [Lvls -> Nat] /\ now \in 0..MaxTime /\ unrecorded \in BOOLEAN

\* bytes_in_flight is the sum of the packets in flight, over every ACK, loss and discarded
\* space: an unsigned counter that drifts either stops sending or wraps (on_sent, mark_range,
\* detect_lost, rec_discard).
Accounted(r) == r.in_flight = SizeOf(r, Outstanding(r))
InFlightIsSum == Accounted(rec)

\* Every packet in flight has a record, the one that conn.c's reservation keeps for it: the
\* return value of rec_on_sent may be dropped ("one is always kept free").
AlwaysRecorded == ~unrecorded

\* A CRYPTO byte counted as sent is acknowledged or in a packet still in flight: none is
\* forgotten when losses, probes and acknowledgements of several copies interleave.
Unforgotten(q, l) ==
    \A b \in 0..(q.ret_sent[l] - 1) :
        b \in q.crypto_acked[l] \cup CryptoBytes(q.rec, OutstandingAt(q.rec, l), l)
CryptoNotForgotten == \A l \in {0, 1} : Unforgotten(State, l)

\* The loss timer of a space waits for a packet that an acknowledgement has overtaken: a stale
\* one would suppress the probe timeout.
Overtaken(r) ==
    \A l \in loss_armed(r) : \E i \in OutstandingAt(r, l) : r.s[i].pn <= r.largest_acked[l]
LossTimerHasPacket == Overtaken(rec)

\* What an accepted Retry leaves and the next call of brisk__quic_send ends: no packet, no timer,
\* the whole ClientHello to be sent.
Restarted(q, keys) ==
    retry_done /\ 0 \in keys /\ Outstanding(q.rec) = {} /\ q.ret_sent[0] = 0

\* Until the server has validated the client's address, a client that sent anything has a
\* timer that makes it send again, at a level with keys, even with nothing in flight; but for a
\* Retry just accepted, after which the window lets the ClientHello go out at once.
KeepsProbing ==
    (\E l \in Lvls : tx_pn[l] > 0) /\ ~rec.hs_acked /\ ~confirmed =>
        \/ rec_deadline(rec) # INT64_MAX /\ (loss_armed(rec) = {} => pto_time(rec).lvl \in tx)
        \/ Restarted(State, tx) /\ ret_len[0] > 0 /\ can_send(rec)

\* A probe is owed only where it can be built: one owed at a level without keys would keep
\* brisk__quic_deadline at "now" for ever.
ProbesHaveKeys == \A l \in Lvls : probe[l] # 0 => l \in tx

\* Only a probe, or an ACK that had to be padded, takes bytes_in_flight past the window.
WindowRespected ==
    [][ rec'.in_flight > rec'.cwnd =>
          \A l \in Lvls :
              \/ ~\E i \in Eliciting(rec', l) : rec'.s[i].pn = tx_pn[l]
              \/ run_timers(State).probe[l] > 0 ]_vars

\* A probe that is owed finds a record: "the last two records are the PTO probes', so a full
\* table cannot stall recovery" (conn.c).
ProbeHasRecord == (\E l \in Lvls : probe[l] # 0) => rec_free(rec) # 0

\* The table of records accounts for every byte in flight, and nothing flies without a record.
FlightAccounted == InFlightIsSum /\ AlwaysRecorded

\* Each timer that is armed has something to act on, and one is armed while it must be.
TimersHaveWork == LossTimerHasPacket /\ KeepsProbing /\ ProbesHaveKeys

\* What the steps keep, stated for a value q of the state as it changes within a call, the
\* levels with keys, the next packet numbers and the lengths of the CRYPTO streams.  Records and
\* marks are about packets that were sent, at levels with keys.
Booked(q, keys, pns) ==
    /\ \A i \in Outstanding(q.rec) : LET x == q.rec.s[i] IN
         x.lvl \in keys /\ x.pn < pns[x.lvl] /\ x.t <= now /\ (x.len > 0 => x.elicit)
    /\ \A l \in Lvls :
         /\ q.rec.largest_acked[l] < pns[l] /\ q.rec.last_elicit[l] <= now
         /\ q.probe[l] # 0 => l \in keys
         /\ pns[l] = 0 => q.crypto_acked[l] = {}
    /\ q.rec.recovery_start <= now /\ q.rec.cwnd >= MINWIN

Resent(q, len) == \A l \in {0, 1} : q.ret_sent[l] <= len[l] /\ Unforgotten(q, l)

\* Before the server has validated the address: no Handshake packet was acknowledged, so none
\* was lost, and 1-RTT packets, for which no probe runs, only follow Handshake packets.
Unvalidated(q) ==
    q.rec.hs_acked \/ confirmed \/
        /\ q.rec.largest_acked[1] = NONE /\ q.crypto_acked[1] = {} /\ q.probe[2] = 0
        /\ Eliciting(q.rec, 2) # {} => Eliciting(q.rec, 1) # {}

\* The probe timeout counts from a packet of the lowest level that has keys, sent since the
\* Retry if there was one.
Anchored(q, keys, pns) ==
    q.rec.hs_acked \/ confirmed \/
        /\ 0 \in keys /\ (\E l \in Lvls : pns[l] > 0) =>
              q.rec.last_elicit[0] # NONE \/ Restarted(q, keys)
        /\ 0 \notin keys => 1 \in keys /\ q.rec.last_elicit[1] # NONE

Levels ==
    /\ ~opened => tx = {0} /\ ~established /\ tx_pn[1] = 0
    /\ 0 \in tx => ret_len[0] > 0
    /\ ~established => ret_len[1] = 0
    /\ established /\ ~confirmed => 1 \in tx /\ ret_len[1] > 0

Sound(q, keys, pns, len) ==
    /\ Booked(q, keys, pns) /\ Accounted(q.rec) /\ Resent(q, len) /\ Overtaken(q.rec)
    /\ Unvalidated(q) /\ Anchored(q, keys, pns)

\* The inductive invariant.
IInv == TypeOK /\ Sound(State, tx, tx_pn, ret_len) /\ Levels /\ AlwaysRecorded
=============================================================================
