---------------------------- MODULE QuicStreams ----------------------------
(***************************************************************************)
(* The stream layer of one client connection, quic/stream.c: QS_N slots    *)
(* of brisk__quic_conn, each with a receive ring and a send ring, stream   *)
(* counts, flow control in both directions, and what a sent packet's       *)
(* record does when the packet is acknowledged or lost.                    *)
(*                                                                         *)
(* One action per function conn.c or the application calls.  The peer's    *)
(* frames are arbitrary: what is shown here holds for every peer.  Bytes   *)
(* are abstracted to their stream offset, so a ring position holds the     *)
(* offset whose byte was copied into it; frame sizes are abstracted to one *)
(* unit per header and one per byte.  Error codes an application passes    *)
(* through (tx_err, rx_err) are left out.                                  *)
(*                                                                         *)
(* Name_variant(...) is a copy of Name with one mistake, never used by the *)
(* specification: PROJECT.json says which property notices it.             *)
(***************************************************************************)
EXTENDS Integers, FiniteSets, Functions

CONSTANTS
    QS_N,           \* stream slots (BRISK_QUIC_MAX_STREAMS)
    QS_BUF,         \* ring size (BRISK_QUIC_STREAM_BUF)
    QUIC_SENT,      \* sent-packet records (BRISK__QUIC_SENT)
    my_tp,          \* limits this client advertised
    peer_tp,        \* limits the peer advertised
    Indexes,        \* stream numbers the peer's frames use
    Offsets,        \* offsets, sizes and limits the peer's frames use
    Chunks,         \* byte counts of one write or one read
    Rooms,          \* room of one packet, in units
    MaxTxLen,       \* bound: bytes written to one stream
    MaxPn           \* bound: packets sent

BIDI == 0
UNI  == 1
Dirs == {BIDI, UNI}

Limits == [max_data : Nat, bidi_local : Nat, bidi_remote : Nat, uni : Nat,
           streams : [Dirs -> Nat]]

\* What brisk__quic_conn_init refuses to advertise otherwise.
ASSUME TpAssumption ==
    /\ QS_N \in Nat /\ QS_BUF \in Nat \ {0} /\ QUIC_SENT \in Nat
    /\ my_tp \in Limits /\ peer_tp \in Limits
    /\ my_tp.bidi_local <= QS_BUF /\ my_tp.bidi_remote <= QS_BUF /\ my_tp.uni <= QS_BUF
    /\ my_tp.max_data <= QS_N * QS_BUF
    /\ my_tp.streams[BIDI] + my_tp.streams[UNI] <= QS_N

ASSUME BoundsAssumption ==
    /\ Indexes \subseteq Nat /\ Offsets \subseteq Nat /\ Chunks \subseteq Nat
    /\ Rooms \subseteq Nat /\ MaxTxLen \in Nat /\ MaxPn \in Nat

Slots   == 1..QS_N
Ring    == 0..(QS_BUF - 1)
QS_NONE == -1
NoSlot  == 0            \* BRISK__QS_NONE: a record that carries no stream data
NatOrNone == Nat \cup {QS_NONE}

VARIABLES
    st,                 \* the slots
    next_local,         \* per direction: streams this client opened
    next_peer,          \* per direction: streams the peer opened
    accepted,           \* per direction: peer streams handed to the application
    peer_max_streams,   \* per direction: the peer's MAX_STREAMS
    my_max_streams,     \* per direction: our MAX_STREAMS
    ms_pend, ms_pn,     \* a MAX_STREAMS is owed; the packet that carried the last one
    max_data_tx,        \* the peer's MAX_DATA
    sent_tx,            \* new bytes sent on all streams
    max_data_rx,        \* our MAX_DATA
    sum_rx,             \* sum of the highest offsets received
    consumed,           \* bytes read, dropped or reset
    md_pend, md_pn,     \* as ms_pend, ms_pn, for MAX_DATA
    rec,                \* outstanding sent-packet records
    tx_pn,              \* next packet number
    err                 \* the sticky error

counts  == <<next_local, next_peer, accepted, peer_max_streams>>
credits == <<my_max_streams, ms_pend>>
rxflow  == <<max_data_rx, sum_rx, consumed, md_pend>>
txflow  == <<max_data_tx, sent_tx>>
pns     == <<ms_pn, md_pn, tx_pn>>
vars    == <<st, counts, credits, rxflow, txflow, pns, rec, err>>

NoErr == "none"
Errors == {NoErr, "STREAM_STATE", "STREAM_LIMIT", "FINAL_SIZE", "FLOW_CONTROL", "INTERNAL"}

MinOf(a, b) == IF a <= b THEN a ELSE b
MaxOf(a, b) == IF a >= b THEN a ELSE b

-----------------------------------------------------------------------------
(* Slots *)

StreamIds == [d : Dirs, peer : BOOLEAN, n : Nat]

Flags == {"USED", "RX", "TX", "TX_FIN", "FIN_SENT", "FIN_ACKED", "RX_RESET", "RX_DONE",
          "STOP", "RST_PEND", "RST_ACKED", "MSD_PEND", "RX_ABORT", "SS_PEND"}

Empty == [p \in Ring |-> QS_NONE]

Stream ==
    [id : StreamIds, flags : SUBSET Flags,
     rx_read : Nat, rx_hi : Nat, rx_max : Nat, rx_final : NatOrNone,
     rx_pos : Ring, rx_ring : [Ring -> NatOrNone],
     tx_base : Nat, tx_next : Nat, tx_len : Nat, tx_hi : Nat, tx_max : Nat,
     tx_pos : Ring, tx_ring : [Ring -> NatOrNone],
     ack_lo : Nat, ack_hi : Nat,
     reset_pn : NatOrNone, msd_pn : NatOrNone, ss_pn : NatOrNone]

rx_window(id) == IF id.d = UNI THEN my_tp.uni
                 ELSE IF id.peer THEN my_tp.bidi_remote ELSE my_tp.bidi_local

tx_limit(id) == IF id.d = UNI THEN peer_tp.uni
                ELSE IF id.peer THEN peer_tp.bidi_local ELSE peer_tp.bidi_remote

\* A local unidirectional stream only sends, a peer one only receives.
NewStream(id) ==
    [id |-> id,
     flags |-> {"USED"} \cup (IF id.d = UNI /\ ~id.peer THEN {} ELSE {"RX"})
                        \cup (IF id.d = UNI /\ id.peer THEN {} ELSE {"TX"}),
     rx_read |-> 0, rx_hi |-> 0, rx_max |-> rx_window(id), rx_final |-> QS_NONE,
     rx_pos |-> 0, rx_ring |-> Empty,
     tx_base |-> 0, tx_next |-> 0, tx_len |-> 0, tx_hi |-> 0, tx_max |-> tx_limit(id),
     tx_pos |-> 0, tx_ring |-> Empty, ack_lo |-> 0, ack_hi |-> 0,
     reset_pn |-> QS_NONE, msd_pn |-> QS_NONE, ss_pn |-> QS_NONE]

\* A freed slot is zeroed.
FreeSlot ==
    [NewStream([d |-> BIDI, peer |-> FALSE, n |-> 0]) EXCEPT
        !.flags = {}, !.rx_max = 0, !.tx_max = 0, !.rx_final = 0,
        !.reset_pn = 0, !.msd_pn = 0, !.ss_pn = 0]

Has(s, flag) == flag \in s.flags
Set(s, fs)   == [s EXCEPT !.flags = @ \cup fs]
Clear(s, fs) == [s EXCEPT !.flags = @ \ fs]
Final(s)     == s.rx_final # QS_NONE

Used(slots)       == {i \in Slots : Has(slots[i], "USED")}
free_slots(slots) == Slots \ Used(slots)
find(slots, id)   == {i \in Used(slots) : slots[i].id = id}

\* Slots the peer's MAX_STREAMS credit promises.
reserved == (my_max_streams[BIDI] - next_peer[BIDI]) + (my_max_streams[UNI] - next_peer[UNI])

\* The k slots alloc takes one after the other: always the lowest free one.
alloc(slots, k) ==
    {f \in [1..k -> Slots] :
        /\ \A a, b \in 1..k : a < b => f[a] < f[b]
        /\ \A a \in 1..k : f[a] \in free_slots(slots)
        /\ \A i \in free_slots(slots) : (\E a \in 1..k : f[a] = i) \/ (\A a \in 1..k : f[a] < i)}

tx_done(s) == ~Has(s, "TX") \/ Has(s, "RST_ACKED")
                \/ (Has(s, "FIN_ACKED") /\ s.tx_base >= s.tx_len)
rx_done(s) == ~Has(s, "RX") \/ Has(s, "RX_DONE")

\* maybe_free for every slot of T: a finished stream gives its slot back, a peer's one
\* raises our MAX_STREAMS, and the records that still name the slot are detached.
\* `owed`: directions whose MAX_STREAMS must be sent again anyway.
Freed(slots, T) == {i \in T \cap Used(slots) : tx_done(slots[i]) /\ rx_done(slots[i])}

PeerOnes_all(slots, F, d) == {i \in F : slots[i].id.d = d}
PeerOnes(slots, F, d) == {i \in F : slots[i].id.peer /\ slots[i].id.d = d}

Detached_not(records, F) == records
Detached(records, F) == {[r EXCEPT !.slot = IF @ \in F THEN NoSlot ELSE @] : r \in records}

maybe_free(slots, T, records, owed) ==
    LET F == Freed(slots, T) IN
    /\ st' = [i \in Slots |-> IF i \in F THEN FreeSlot ELSE slots[i]]
    /\ my_max_streams' = [d \in Dirs |-> my_max_streams[d] + Cardinality(PeerOnes(slots, F, d))]
    /\ ms_pend' = [d \in Dirs |-> ms_pend[d] \/ d \in owed \/ PeerOnes(slots, F, d) # {}]
    /\ rec' = Detached(records, F)

-----------------------------------------------------------------------------
(* Opening streams *)

\* q_fail: the error is sticky, the slots and the records are wiped.  The counters of a
\* failed connection are never used again and keep their values.
q_fail(code) ==
    /\ err' = code
    /\ st' = [i \in Slots |-> FreeSlot]
    /\ rec' = {}
    /\ UNCHANGED <<next_local, accepted, peer_max_streams, credits, rxflow, txflow, pns>>

Id(peer, d, n) == [d |-> d, peer |-> peer, n |-> n]

stream_open_greedy(d) ==
    /\ err = NoErr
    /\ next_local[d] < peer_max_streams[d]
    /\ free_slots(st) # {}
    /\ \E f \in alloc(st, 1) :
         st' = [st EXCEPT ![f[1]] = NewStream(Id(FALSE, d, next_local[d]))]
    /\ next_local' = [next_local EXCEPT ![d] = @ + 1]
    /\ UNCHANGED <<next_peer, accepted, peer_max_streams, credits, rxflow, txflow, pns, rec, err>>

\* The application opens a stream: it needs a slot beyond those promised to the peer.
stream_open(d) ==
    /\ err = NoErr
    /\ next_local[d] < peer_max_streams[d]
    /\ Cardinality(free_slots(st)) > reserved
    /\ \E f \in alloc(st, 1) :
         st' = [st EXCEPT ![f[1]] = NewStream(Id(FALSE, d, next_local[d]))]
    /\ next_local' = [next_local EXCEPT ![d] = @ + 1]
    /\ UNCHANGED <<next_peer, accepted, peer_max_streams, credits, rxflow, txflow, pns, rec, err>>

\* The application takes the next stream the peer opened, bidirectional ones first.
stream_accept(d) ==
    /\ accepted[d] < next_peer[d]
    /\ d = UNI => accepted[BIDI] >= next_peer[BIDI]
    /\ accepted' = [accepted EXCEPT ![d] = @ + 1]
    /\ UNCHANGED <<st, next_local, next_peer, peer_max_streams, credits, rxflow, txflow, pns,
                   rec, err>>

\* How many peer streams a frame on id opens: every lower one of its type with it.
Opens(id) == IF id.peer /\ id.n >= next_peer[id.d] THEN id.n + 1 - next_peer[id.d] ELSE 0

\* rx: the frame is about the peer's sending part, else about ours.
LookupErr(id, rx) ==
    IF ~id.peer
    THEN IF id.n >= next_local[id.d] \/ (rx /\ id.d = UNI) THEN "STREAM_STATE" ELSE NoErr
    ELSE IF ~rx /\ id.d = UNI THEN "STREAM_STATE"
    ELSE IF id.n >= my_max_streams[id.d] THEN "STREAM_LIMIT"
    ELSE IF Opens(id) > Cardinality(free_slots(st)) THEN "INTERNAL"
    ELSE NoErr

Opened(f, id) ==
    LET k == Opens(id) IN
    [i \in Slots |->
        IF \E a \in 1..k : f[a] = i
        THEN NewStream(Id(TRUE, id.d, next_peer[id.d] - 1 + CHOOSE a \in 1..k : f[a] = i))
        ELSE st[i]]

\* The slots after lookup opened what the frame opens; none when lookup fails.
lookup(id, rx) ==
    IF LookupErr(id, rx) = NoErr THEN {Opened(f, id) : f \in alloc(st, Opens(id))} ELSE {}

LookupFails(id, rx) ==
    /\ LookupErr(id, rx) # NoErr
    /\ q_fail(LookupErr(id, rx))
    /\ UNCHANGED next_peer

OpenedPeer(id) == next_peer' = [next_peer EXCEPT ![id.d] = @ + Opens(id)]

\* A frame on a stream that is already closed is ignored.
ClosedStream(slots, id) ==
    /\ find(slots, id) = {}
    /\ st' = slots
    /\ UNCHANGED <<credits, rxflow, txflow, rec, err>>

-----------------------------------------------------------------------------
(* Receiving *)

\* credit(): more connection credit once half a window was consumed.
CreditConn(c) ==
    LET win == my_tp.max_data
        up  == c + win > max_data_rx /\ c + win - max_data_rx >= win \div 2
    IN  /\ consumed' = c
        /\ max_data_rx' = IF up THEN c + win ELSE max_data_rx
        /\ md_pend' = (md_pend \/ up)

\* credit(): the same for one stream, until its final size is known.
CreditStream(s) ==
    LET win == rx_window(s.id)
        new == s.rx_read + win
    IN  IF ~Final(s) /\ new > s.rx_max /\ new - s.rx_max >= win \div 2
        THEN Set([s EXCEPT !.rx_max = new], {"MSD_PEND"}) ELSE s

\* The highest offset grows to `end`, within the stream's and the connection's limit.
GrowErr(s, end) ==
    \/ end > s.rx_max
    \/ end > s.rx_hi /\ sum_rx + (end - s.rx_hi) > max_data_rx

Grow(s, end) == [s EXCEPT !.rx_hi = MaxOf(@, end)]

GrowSum(s, end) == sum_rx' = sum_rx + (MaxOf(s.rx_hi, end) - s.rx_hi)

rx_drop_unread(s) ==
    IF Final(s) /\ s.rx_hi = s.rx_final THEN Clear(Set(s, {"RX_DONE"}), {"SS_PEND"}) ELSE s

\* An aborted receiving part: everything received counts as read, and it is done once the
\* final size is reached.
rx_drop(s) ==
    LET t == [s EXCEPT !.rx_read = s.rx_hi] IN
    IF Final(t) /\ t.rx_read = t.rx_final
    THEN Clear(Set(t, {"RX_DONE"}), {"SS_PEND"}) ELSE t

\* The bytes off..end-1 not read yet go into the ring; of overlapping data the first copy wins.
\* `end <= rx_read + QS_BUF` gives every byte a position of its own.
At(pos, k) == (pos + k) % QS_BUF

Fill_from_off(s, off, end) ==
    LET Into(p) == {o \in off..(end - 1) : At(s.rx_pos, o - s.rx_read) = p} IN
    [s EXCEPT !.rx_ring = [p \in Ring |-> IF @[p] # QS_NONE \/ Into(p) = {} THEN @[p]
                                          ELSE CHOOSE o \in Into(p) : TRUE]]

Fill(s, off, end) ==
    LET Into(p) == {o \in MaxOf(off, s.rx_read)..(end - 1) : At(s.rx_pos, o - s.rx_read) = p}
    IN  [s EXCEPT !.rx_ring =
            [p \in Ring |-> IF s.rx_ring[p] # QS_NONE \/ Into(p) = {} THEN s.rx_ring[p]
                            ELSE CHOOSE o \in Into(p) : TRUE]]

FinalSizeErr(s, end, fin) ==
    \/ Final(s) /\ (end > s.rx_final \/ (fin /\ end # s.rx_final))
    \/ fin /\ end < s.rx_hi

\* A STREAM frame on the stream of slot i.
RecvData(slots, i, off, end, fin) ==
    LET s == slots[i]
        g == [Grow(s, end) EXCEPT !.rx_final = IF fin THEN end ELSE @]
        Put(t) == [slots EXCEPT ![i] = t]
    IN
    IF FinalSizeErr(s, end, fin) THEN q_fail("FINAL_SIZE")
    ELSE IF GrowErr(s, end) THEN q_fail("FLOW_CONTROL")
    ELSE
    /\ GrowSum(s, end)
    /\ IF Has(s, "RX_ABORT") /\ ~Has(s, "RX_DONE")
       THEN /\ CreditConn(consumed + (g.rx_hi - g.rx_read))
            /\ maybe_free(Put(rx_drop(g)), IF Has(rx_drop(g), "RX_DONE") THEN {i} ELSE {}, rec, {})
       ELSE /\ st' = Put(IF Has(s, "RX_ABORT") \/ Has(s, "RX_RESET") \/ Has(s, "RX_DONE")
                            \/ end <= s.rx_read
                         THEN g ELSE Fill(g, off, end))
            /\ UNCHANGED <<consumed, max_data_rx, md_pend, credits, rec>>
    /\ UNCHANGED <<next_local, accepted, peer_max_streams, txflow, pns, err>>

stream_frame(id, off, n, fin) ==
    /\ err = NoErr
    /\ \/ LookupFails(id, TRUE)
       \/ \E slots \in lookup(id, TRUE) :
            /\ OpenedPeer(id)
            /\ \/ /\ ClosedStream(slots, id)
                  /\ UNCHANGED <<next_local, accepted, peer_max_streams, pns>>
               \/ \E i \in find(slots, id) : RecvData(slots, i, off, off + n, fin)

\* RESET_STREAM with final size b: the data is dropped, its connection credit released.
RecvReset(slots, i, b) ==
    LET s == slots[i]
        g == [Grow(s, b) EXCEPT !.rx_final = b]
        r == Set([g EXCEPT !.rx_ring = Empty, !.rx_read = b], {"RX_RESET"})
        t == IF Has(s, "RX_ABORT") THEN Clear(Set(r, {"RX_DONE"}), {"SS_PEND"}) ELSE r
        Put(x) == [slots EXCEPT ![i] = x]
    IN
    IF (Final(s) /\ b # s.rx_final) \/ b < s.rx_hi THEN q_fail("FINAL_SIZE")
    ELSE IF GrowErr(s, b) THEN q_fail("FLOW_CONTROL")
    ELSE
    /\ GrowSum(s, b)
    /\ IF Has(s, "RX_RESET") \/ Has(s, "RX_DONE")
       THEN st' = Put(g) /\ UNCHANGED <<consumed, max_data_rx, md_pend, credits, rec>>
       ELSE /\ CreditConn(consumed + (b - s.rx_read))
            /\ maybe_free(Put(t), IF Has(s, "RX_ABORT") THEN {i} ELSE {}, rec, {})
    /\ UNCHANGED <<next_local, accepted, peer_max_streams, txflow, pns, err>>

\* STOP_SENDING: answered with RESET_STREAM unless everything was acknowledged or it already is.
StopStream(s) ==
    IF Has(s, "STOP") \/ Has(s, "FIN_ACKED") THEN s ELSE Set(s, {"STOP", "RST_PEND"})

RaiseTxMax(s, a) == [s EXCEPT !.tx_max = MaxOf(@, a)]

OnlySlot(slots, i, s) ==
    /\ st' = [slots EXCEPT ![i] = s]
    /\ UNCHANGED <<next_local, accepted, peer_max_streams, credits, rxflow, txflow, pns, rec, err>>

\* RESET_STREAM, STOP_SENDING, MAX_STREAM_DATA and STREAM_DATA_BLOCKED.
stream_ctl(type, id, a) ==
    LET rx == type \in {"RESET_STREAM", "STREAM_DATA_BLOCKED"} IN
    /\ err = NoErr
    /\ \/ LookupFails(id, rx)
       \/ \E slots \in lookup(id, rx) :
            /\ OpenedPeer(id)
            /\ \/ /\ ClosedStream(slots, id)
                  /\ UNCHANGED <<next_local, accepted, peer_max_streams, pns>>
               \/ \E i \in find(slots, id) :
                    \/ type = "RESET_STREAM" /\ RecvReset(slots, i, a)
                    \/ type = "STOP_SENDING" /\ OnlySlot(slots, i, StopStream(slots[i]))
                    \/ type = "MAX_STREAM_DATA" /\ OnlySlot(slots, i, RaiseTxMax(slots[i], a))
                    \/ type = "STREAM_DATA_BLOCKED" /\ OnlySlot(slots, i, slots[i])

\* MAX_DATA and MAX_STREAMS: only an increase counts.
max_data_frame(v) ==
    /\ err = NoErr
    /\ max_data_tx' = MaxOf(max_data_tx, v)
    /\ UNCHANGED <<st, counts, credits, rxflow, sent_tx, pns, rec, err>>

max_streams_frame(d, v) ==
    /\ err = NoErr
    /\ peer_max_streams' = [peer_max_streams EXCEPT ![d] = MaxOf(@, v)]
    /\ UNCHANGED <<st, next_local, next_peer, accepted, credits, rxflow, txflow, pns, rec, err>>

-----------------------------------------------------------------------------
(* The application's reads, writes and aborts *)

\* The application knows the streams it opened and those it accepted.
Known(i) == Has(st[i], "USED") /\ (st[i].id.peer => st[i].id.n < accepted[st[i].id.d])

\* At most n bytes, room permitting, go into the send ring; fin counts when all fit.
Written(s, k, fin) ==
    [s EXCEPT !.tx_len = @ + k,
              !.tx_ring = [p \in Ring |->
                  IF \E j \in 0..(k - 1) : At(s.tx_pos, s.tx_len - s.tx_base + j) = p
                  THEN s.tx_len + CHOOSE j \in 0..(k - 1) :
                                      At(s.tx_pos, s.tx_len - s.tx_base + j) = p
                  ELSE @[p]],
              !.flags = IF fin THEN @ \cup {"TX_FIN"} ELSE @]

stream_write(i, n, fin) ==
    LET s == st[i]
        k == MinOf(n, QS_BUF - (s.tx_len - s.tx_base))
    IN
    /\ err = NoErr /\ Known(i)
    /\ Has(s, "TX") /\ ~Has(s, "TX_FIN") /\ ~Has(s, "STOP")
    /\ s.tx_len + n <= MaxTxLen
    /\ st' = [st EXCEPT ![i] = Written(s, k, fin /\ k = n)]
    /\ UNCHANGED <<counts, credits, rxflow, txflow, pns, rec, err>>

\* n is the number of bytes at the head of the ring that arrived, up to cap.
Readable(s, cap, n) ==
    /\ n <= cap
    /\ \A k \in 0..(n - 1) : s.rx_ring[At(s.rx_pos, k)] # QS_NONE
    /\ n = cap \/ n = QS_BUF \/ s.rx_ring[At(s.rx_pos, n)] = QS_NONE

Drained(s, n) ==
    [s EXCEPT !.rx_read = @ + n, !.rx_pos = At(@, n),
              !.rx_ring = [p \in Ring |->
                  IF \E k \in 0..(n - 1) : At(s.rx_pos, k) = p THEN QS_NONE ELSE @[p]]]

stream_read(i, cap) ==
    LET s == st[i] IN
    /\ err = NoErr /\ Known(i) /\ Has(s, "RX") /\ ~Has(s, "RX_ABORT")
    /\ \/ \* the peer's reset, or the end of the stream, reaches the application
          /\ \/ Has(s, "RX_RESET")
             \/ ~Has(s, "RX_DONE") /\ Readable(s, cap, 0) /\ s.rx_final = s.rx_read
          /\ maybe_free([st EXCEPT ![i] = Set(s, {"RX_DONE"})], {i}, rec, {})
          /\ UNCHANGED <<consumed, max_data_rx, md_pend>>
       \/ \E n \in 1..QS_BUF :
          /\ ~Has(s, "RX_RESET") /\ ~Has(s, "RX_DONE") /\ Readable(s, cap, n)
          /\ CreditConn(consumed + n)
          /\ st' = [st EXCEPT ![i] = CreditStream(Drained(s, n))]
          /\ UNCHANGED <<credits, rec>>
    /\ UNCHANGED <<counts, sum_rx, txflow, pns, err>>

\* Cancel: reset the sending part (tx), stop reading the receiving part (rx), as far as each
\* is not already over.
AbortTx(s) ==
    IF Has(s, "TX") /\ ~Has(s, "STOP") /\ ~Has(s, "FIN_ACKED")
    THEN Set(s, {"STOP", "RST_PEND"}) ELSE s

AbortRx(s) ==
    LET a == Set([s EXCEPT !.rx_ring = Empty], {"RX_ABORT"})
        b == IF Has(s, "RX_RESET") \/ (Final(s) /\ s.rx_hi = s.rx_final)
             THEN a ELSE Set(a, {"SS_PEND"})
    IN  IF Has(s, "RX_RESET") THEN Set(b, {"RX_DONE"}) ELSE rx_drop(b)

stream_abort(i, tx, rx) ==
    LET s == IF tx THEN AbortTx(st[i]) ELSE st[i]
        stops == rx /\ Has(s, "RX") /\ ~Has(s, "RX_ABORT") /\ ~Has(s, "RX_DONE")
        t == IF stops THEN AbortRx(s) ELSE s
    IN
    /\ err = NoErr /\ Known(i)
    /\ IF stops /\ ~Has(s, "RX_RESET") THEN CreditConn(consumed + (s.rx_hi - s.rx_read))
                                       ELSE UNCHANGED <<consumed, max_data_rx, md_pend>>
    /\ maybe_free([st EXCEPT ![i] = t], IF stops /\ ~Has(t, "RX_DONE") THEN {} ELSE {i}, rec, {})
    /\ UNCHANGED <<counts, sum_rx, txflow, pns, err>>

-----------------------------------------------------------------------------
(* Sending one packet *)

\* Control frames, in the order stream_out writes them: by kind, then by slot or direction.
Kinds == {"RESET", "STOP", "MAXDATA", "MSD", "MAXSTR"}
Rank  == [k \in Kinds |-> CASE k = "RESET" -> 1 [] k = "STOP" -> 2 [] k = "MAXDATA" -> 3
                            [] k = "MSD" -> 4 [] k = "MAXSTR" -> 5]

\* A MAX_STREAM_DATA nobody needs any more is dropped instead of sent.
MsdMoot(s) == Final(s) \/ Has(s, "RX_RESET") \/ Has(s, "RX_DONE") \/ Has(s, "RX_ABORT")

Pending ==
    {<<"RESET", i>>   : i \in {j \in Slots : Has(st[j], "RST_PEND")}} \cup
    {<<"STOP", i>>    : i \in {j \in Slots : Has(st[j], "SS_PEND")}} \cup
    {<<"MAXDATA", i>> : i \in IF md_pend THEN {0} ELSE {}} \cup
    {<<"MSD", i>>     : i \in {j \in Slots : Has(st[j], "MSD_PEND") /\ ~MsdMoot(st[j])}} \cup
    {<<"MAXSTR", d>>  : d \in {e \in Dirs : ms_pend[e]}}

Before(x, y) == Rank[x[1]] < Rank[y[1]] \/ (x[1] = y[1] /\ x[2] < y[2])

\* The control frames that fit.
Control(room) == {x \in Pending : Cardinality({y \in Pending : Before(y, x)}) < room}

AfterControl(i, ctl) ==
    LET s == st[i]
        Sent(k) == <<k, i>> \in ctl
    IN  [s EXCEPT
           !.flags = @ \ ((IF Sent("RESET") THEN {"RST_PEND"} ELSE {})
                          \cup (IF Sent("STOP") THEN {"SS_PEND"} ELSE {})
                          \cup (IF Sent("MSD") \/ MsdMoot(s) THEN {"MSD_PEND"} ELSE {})),
           !.reset_pn = IF Sent("RESET") THEN tx_pn ELSE @,
           !.ss_pn    = IF Sent("STOP") THEN tx_pn ELSE @,
           !.msd_pn   = IF Sent("MSD") THEN tx_pn ELSE @]

Sends_reset(s) == Has(s, "TX")
Sends(s) == Has(s, "TX") /\ ~Has(s, "STOP")

\* The acknowledged range above the prefix is not sent again.
HasRange(s) == s.ack_hi # s.ack_lo
SkipAcked(s) ==
    IF HasRange(s) /\ s.tx_next >= s.ack_lo /\ s.tx_next < s.ack_hi
    THEN [s EXCEPT !.tx_next = s.ack_hi] ELSE s

\* Bytes that may go out from tx_next: what was written, within the stream's limit, up to the
\* acknowledged range, and new bytes within the connection's limit.
Avail(s) ==
    LET upto == MinOf(s.tx_len, s.tx_max)
        stop == IF HasRange(s) /\ s.tx_next < s.ack_lo /\ s.ack_lo < upto THEN s.ack_lo ELSE upto
        conn == MaxOf(s.tx_hi - s.tx_next, 0) + (max_data_tx - sent_tx)
    IN  MinOf(MaxOf(stop - s.tx_next, 0), conn)

FinDue(s) == Has(s, "TX_FIN") /\ ~Has(s, "FIN_SENT")

\* One STREAM frame with `left` units of room: a header, then n bytes, FIN with the last one.
DataLen(s, left) == MinOf(Avail(s), left - 1)
DataFin(s, left) == FinDue(s) /\ s.tx_next + DataLen(s, left) = s.tx_len
CanSend(s, left) ==
    /\ Sends(s)
    /\ left >= 1
    /\ Avail(s) # 0 \/ (FinDue(s) /\ s.tx_next = s.tx_len)
    /\ DataLen(s, left) # 0 \/ DataFin(s, left)

AfterData(s, n, fin) ==
    [s EXCEPT !.tx_next = @ + n, !.tx_hi = MaxOf(@, s.tx_next + n),
              !.flags = IF fin THEN @ \cup {"FIN_SENT"} ELSE @]

Records ==
    [pn : Nat, id : StreamIds, slot : Slots \cup {NoSlot}, off : Nat, len : Nat,
     fin : BOOLEAN, ctl : SUBSET Kinds]

\* What the packet with `room` units carries: control frames, then data of the first stream
\* that has something to send.
Unit(room) ==
    LET ctl   == Control(room)
        ready == {i \in Slots :
                    CanSend(SkipAcked(AfterControl(i, ctl)), room - Cardinality(Pending))}
        first == {i \in ready : \A j \in ready : i <= j}
    IN  [ctl |-> ctl, left |-> room - Cardinality(Pending), slot |-> first]

stream_out(room) ==
    LET u == Unit(room)
        \* the slots the data scan visits before it stops
        Scanned(i) == \A j \in u.slot : i <= j
        ready(i) == LET s == AfterControl(i, u.ctl) IN
                    IF Scanned(i) /\ Sends(s) THEN SkipAcked(s) ELSE s
        Rec(id, slot, off, len, fin) ==
            [pn |-> tx_pn, id |-> id, slot |-> slot, off |-> off, len |-> len, fin |-> fin,
             ctl |-> {x[1] : x \in u.ctl}]
    IN
    /\ err = NoErr
    /\ Cardinality(rec) < QUIC_SENT /\ tx_pn < MaxPn
    /\ \/ /\ u.slot = {}
          /\ st' = [i \in Slots |-> ready(i)]
          /\ rec' = rec \cup IF u.ctl = {} THEN {}
                                ELSE {Rec(Id(FALSE, BIDI, 0), NoSlot, 0, 0, FALSE)}
          /\ tx_pn' = IF u.ctl = {} THEN tx_pn ELSE tx_pn + 1
          /\ UNCHANGED sent_tx
       \/ \E i \in u.slot :
            LET s == ready(i)
                n == DataLen(s, u.left)
                fin == DataFin(s, u.left)
            IN  /\ st' = [j \in Slots |-> IF j = i THEN AfterData(s, n, fin) ELSE ready(j)]
                /\ rec' = rec \cup {Rec(s.id, i, s.tx_next, n, fin)}
                /\ tx_pn' = tx_pn + 1
                /\ sent_tx' = sent_tx + (MaxOf(s.tx_hi, s.tx_next + n) - s.tx_hi)
    /\ md_pend' = (md_pend /\ <<"MAXDATA", 0>> \notin u.ctl)
    /\ md_pn' = IF <<"MAXDATA", 0>> \in u.ctl THEN tx_pn ELSE md_pn
    /\ ms_pend' = [d \in Dirs |-> ms_pend[d] /\ <<"MAXSTR", d>> \notin u.ctl]
    /\ ms_pn' = [d \in Dirs |-> IF <<"MAXSTR", d>> \in u.ctl THEN tx_pn ELSE ms_pn[d]]
    /\ UNCHANGED <<counts, my_max_streams, max_data_rx, sum_rx, consumed, max_data_tx, err>>

-----------------------------------------------------------------------------
(* The fate of a packet *)

\* The acknowledged prefix moves up to `to`.
tx_advance(s, to) ==
    LET n == to - s.tx_base IN
    IF n <= 0 THEN s
    ELSE [s EXCEPT !.tx_base = to, !.tx_pos = At(@, n),
                   !.tx_next = MaxOf(@, to),
                   !.tx_ring = [p \in Ring |->
                       IF \E k \in 0..(n - 1) : At(s.tx_pos, k) = p THEN QS_NONE ELSE @[p]]]

\* Bytes off..end-1 arrived: they extend the prefix, or the one range kept above it, or are
\* forgotten and sent again.
AckBytes(s, off, end) ==
    IF off <= s.tx_base THEN tx_advance(s, end)
    ELSE IF ~HasRange(s) THEN [s EXCEPT !.ack_lo = off, !.ack_hi = end]
    ELSE IF off <= s.ack_hi /\ end >= s.ack_lo
         THEN [s EXCEPT !.ack_lo = MinOf(@, off), !.ack_hi = MaxOf(@, end)]
    ELSE [s EXCEPT !.tx_next = MinOf(@, off)]

\* The range joins the prefix once it touches it.
JoinRange(s) ==
    IF HasRange(s) /\ s.ack_lo <= s.tx_base
    THEN [tx_advance(s, s.ack_hi) EXCEPT !.ack_lo = 0, !.ack_hi = 0] ELSE s

AckData(s, r) ==
    JoinRange(AckBytes(IF r.fin THEN Set(s, {"FIN_ACKED"}) ELSE s, r.off, r.off + r.len))

LoseData_last(s, r) ==
    IF r.off + r.len > s.tx_base \/ r.fin
    THEN [s EXCEPT !.tx_next = MaxOf(r.off, s.tx_base),
                   !.flags = IF r.fin THEN @ \ {"FIN_SENT"} ELSE @]
    ELSE s

\* Go back to the lowest lost offset.
LoseData(s, r) ==
    IF r.off + r.len > s.tx_base \/ r.fin
    THEN [s EXCEPT !.tx_next = IF r.off < @ THEN MaxOf(r.off, s.tx_base) ELSE @,
                   !.flags = IF r.fin THEN @ \ {"FIN_SENT"} ELSE @]
    ELSE s

AfterRecord(i, r, acked) ==
    LET s == st[i]
        d == IF r.slot # i THEN s ELSE IF acked THEN AckData(s, r) ELSE LoseData(s, r)
        Carried(k, pn) == k \in r.ctl /\ pn = r.pn
        final == Final(d) /\ d.rx_hi = d.rx_final
        Again(k) ==
            CASE k = "RST_PEND" -> Carried("RESET", d.reset_pn) /\ ~Has(d, "RST_ACKED")
              [] k = "MSD_PEND" -> Carried("MSD", d.msd_pn)
              [] k = "SS_PEND"  -> /\ Carried("STOP", d.ss_pn) /\ Has(d, "RX_ABORT")
                                   /\ ~Has(d, "RX_DONE") /\ ~Has(d, "RX_RESET") /\ ~final
    IN  IF ~Has(s, "USED") THEN s
        ELSE IF acked THEN IF Carried("RESET", d.reset_pn) THEN Set(d, {"RST_ACKED"}) ELSE d
        ELSE Set(d, {k \in {"RST_PEND", "MSD_PEND", "SS_PEND"} : Again(k)})

\* Record r is acknowledged, or declared lost: what it carried goes out again unless a newer
\* packet carries it.
stream_record(r, acked) ==
    LET slots == [i \in Slots |-> AfterRecord(i, r, acked)]
        again(k, pn) == ~acked /\ k \in r.ctl /\ pn = r.pn
    IN
    /\ err = NoErr
    /\ r \in rec
    /\ maybe_free(slots,
                  {i \in Slots : i = r.slot \/ (acked /\ "RESET" \in r.ctl /\ slots[i].reset_pn = r.pn)},
                  rec \ {r}, {d \in Dirs : again("MAXSTR", ms_pn[d])})
    /\ md_pend' = (md_pend \/ again("MAXDATA", md_pn))
    /\ UNCHANGED <<counts, max_data_rx, sum_rx, consumed, txflow, pns, err>>

-----------------------------------------------------------------------------
streams_init ==
    /\ st = [i \in Slots |-> FreeSlot]
    /\ next_local = [d \in Dirs |-> 0] /\ next_peer = [d \in Dirs |-> 0]
    /\ accepted = [d \in Dirs |-> 0]
    /\ peer_max_streams = peer_tp.streams /\ my_max_streams = my_tp.streams
    /\ ms_pend = [d \in Dirs |-> FALSE] /\ ms_pn = [d \in Dirs |-> QS_NONE]
    /\ max_data_tx = peer_tp.max_data /\ sent_tx = 0
    /\ max_data_rx = my_tp.max_data /\ sum_rx = 0 /\ consumed = 0
    /\ md_pend = FALSE /\ md_pn = QS_NONE
    /\ rec = {} /\ tx_pn = 0 /\ err = NoErr

Init == streams_init

App ==
    \/ \E d \in Dirs : stream_open(d) \/ stream_accept(d)
    \/ \E i \in Slots, n \in Chunks, fin \in BOOLEAN : stream_write(i, n, fin)
    \/ \E i \in Slots, n \in Chunks : stream_read(i, n)
    \/ \E i \in Slots, tx, rx \in BOOLEAN : stream_abort(i, tx, rx)

FrameIds == [d : Dirs, peer : BOOLEAN, n : Indexes]

CtlTypes == {"RESET_STREAM", "STOP_SENDING", "MAX_STREAM_DATA", "STREAM_DATA_BLOCKED"}

Peer ==
    \/ \E id \in FrameIds, off \in Offsets, n \in Chunks, fin \in BOOLEAN :
         stream_frame(id, off, n, fin)
    \/ \E type \in CtlTypes, id \in FrameIds, a \in Offsets : stream_ctl(type, id, a)
    \/ \E v \in Offsets : max_data_frame(v)
    \/ \E d \in Dirs, v \in Offsets : max_streams_frame(d, v)

Packets ==
    \/ \E room \in Rooms : stream_out(room)
    \/ \E r \in rec, acked \in BOOLEAN : stream_record(r, acked)

Next == App \/ Peer \/ Packets

Spec == Init /\ [][Next]_vars

-----------------------------------------------------------------------------
(* Properties *)

\* Every field of the stream layer keeps its type.
TypeOK ==
    /\ st \in [Slots -> Stream]
    /\ next_local \in [Dirs -> Nat] /\ next_peer \in [Dirs -> Nat]
    /\ accepted \in [Dirs -> Nat]
    /\ peer_max_streams \in [Dirs -> Nat] /\ my_max_streams \in [Dirs -> Nat]
    /\ ms_pend \in [Dirs -> BOOLEAN] /\ ms_pn \in [Dirs -> NatOrNone]
    /\ max_data_tx \in Nat /\ sent_tx \in Nat
    /\ max_data_rx \in Nat /\ sum_rx \in Nat /\ consumed \in Nat
    /\ md_pend \in BOOLEAN /\ md_pn \in NatOrNone
    /\ rec \in SUBSET Records /\ tx_pn \in Nat
    /\ err \in Errors

\* The header comment's promise: behind every stream the peer was allowed to open there is a
\* free slot, so implicit opening never runs out of slots, whatever mix of local opens, implicit
\* opens, aborts and late acknowledgements happens.
ReservationHolds ==
    err = NoErr => Cardinality(free_slots(st)) >= reserved

\* lookup's "the reservation makes this unreachable": no frame of any peer ends the connection
\* with INTERNAL_ERROR.
NeverInternal == err # "INTERNAL"

LivePeer(slots, d) == {i \in Used(slots) : slots[i].id.peer /\ slots[i].id.d = d}

CreditKept(slots, opened, allowed) ==
    \A d \in Dirs :
        /\ opened[d] <= allowed[d]
        /\ Cardinality(LivePeer(slots, d)) + (allowed[d] - opened[d]) = my_tp.streams[d]

\* Stream-count credit is conserved: a peer stream that ends gives back exactly one, however its
\* two halves end, so a long connection neither starves the peer nor overcommits the slots.
StreamCreditConserved ==
    err = NoErr => CreditKept(st, next_peer, my_max_streams)

\* A slot that was reused is not touched by the fate of packets of the stream it held before.
RecordsNameTheirStream ==
    \A r \in rec : r.slot # NoSlot => Has(st[r.slot], "USED") /\ st[r.slot].id = r.id

\* A stream's window never exceeds its ring and data never exceeds the window: the ring's
\* "every byte has a ring slot".
WindowFitsRing ==
    \A i \in Used(st) :
        /\ st[i].rx_max <= st[i].rx_read + QS_BUF
        /\ st[i].rx_read <= st[i].rx_hi /\ st[i].rx_hi <= st[i].rx_max
        /\ Final(st[i]) => st[i].rx_hi <= st[i].rx_final

\* Reads return the stream's own bytes in order: every receive-ring position in use holds the
\* byte of its offset, across wraps, gaps and overlapping retransmissions.
RxRingInOrder ==
    \A i \in Used(st) : \A k \in Ring :
        st[i].rx_ring[At(st[i].rx_pos, k)] \in {QS_NONE, st[i].rx_read + k}

\* A retransmission carries the bytes written at its offset: the send ring holds every byte not
\* yet acknowledged at its position, although acknowledgements free the ring out of order.
TxRingHoldsUnacked ==
    \A i \in Used(st) : \A k \in 0..(st[i].tx_len - st[i].tx_base - 1) :
        st[i].tx_ring[At(st[i].tx_pos, k)] = st[i].tx_base + k

\* The bytes received and not read, and the bytes sent, of all streams together.
Unread(s) == IF Has(s, "USED") THEN s.rx_hi - s.rx_read ELSE 0
SentOn(s) == IF Has(s, "USED") THEN s.tx_hi ELSE 0

AllUnread(slots) == SumFunction([i \in Slots |-> Unread(slots[i])])
AllSent(slots)   == SumFunction([i \in Slots |-> SentOn(slots[i])])

\* No connection credit leaks: what the peer sent and nobody consumed sits in a live stream,
\* so reset, aborted and freed streams handed all of theirs back; and the peer stays within
\* what it was allowed, which never passes consumed + window.
ConnCreditConserved ==
    err = NoErr =>
        /\ sum_rx - consumed = AllUnread(st)
        /\ sum_rx <= max_data_rx
        /\ max_data_rx <= consumed + my_tp.max_data

\* Nothing is sent past the peer's stream or connection limit, and retransmissions are not
\* charged twice.
SendWithinLimits ==
    /\ sent_tx <= max_data_tx
    /\ AllSent(st) <= sent_tx
    /\ \A i \in Used(st) : LET s == st[i] IN
         /\ s.tx_base <= s.tx_next /\ s.tx_next <= s.tx_hi
         /\ s.tx_hi <= s.tx_max /\ s.tx_hi <= s.tx_len

\* No sent byte is forgotten: until the prefix passes it, it is in flight, in the acknowledged
\* range, or at or after the offset sending resumes from.  The same for FIN and RESET_STREAM.
InFlight(i, o, records) == \E r \in records : r.slot = i /\ r.off <= o /\ o < r.off + r.len

BytesKept(i, s, records) ==
    Sends(s) => \A o \in s.tx_base..(s.tx_hi - 1) :
        o >= s.tx_next \/ (s.ack_lo <= o /\ o < s.ack_hi) \/ InFlight(i, o, records)

FinKept(i, s, records) ==
    Has(s, "FIN_SENT") => Has(s, "FIN_ACKED") \/ \E r \in records : r.slot = i /\ r.fin

ResetKept(s, records) ==
    Has(s, "STOP") => \/ Has(s, "RST_PEND") \/ Has(s, "RST_ACKED")
                      \/ \E r \in records : "RESET" \in r.ctl /\ r.pn = s.reset_pn

Remembered(i, s, records) == BytesKept(i, s, records) /\ FinKept(i, s, records) /\ ResetKept(s, records)

\* Nothing sent on a live stream is forgotten before it is acknowledged.
NothingForgotten == \A i \in Used(st) : Remembered(i, st[i], rec)

\* What is sent and not acknowledged is remembered, and on behalf of the stream it was sent for:
\* out of order acknowledgements lose nothing, and a reused slot never answers for its predecessor.
SentIsRemembered == RecordsNameTheirStream /\ NothingForgotten

\* A stream the peer opened keeps its slot until the application accepts it.
Waiting(slots, opened, taken) ==
    \A d \in Dirs : \A n \in taken[d]..(opened[d] - 1) : find(slots, Id(TRUE, d, n)) # {}

UnacceptedHaveSlots == err = NoErr => Waiting(st, next_peer, accepted)

\* What every handler relies on and keeps, stated so that each action preserves it: the offsets
\* of a slot in order and within its rings and limits, the records within what their stream
\* sent, and slots behind every stream the peer may still open.
SlotOK(s) ==
    /\ s.rx_read <= s.rx_hi /\ s.rx_hi <= s.rx_max /\ s.rx_max <= s.rx_read + QS_BUF
    /\ Final(s) => s.rx_hi <= s.rx_final
    /\ s.tx_base <= s.tx_next /\ s.tx_next <= s.tx_hi
    /\ s.tx_hi <= s.tx_max /\ s.tx_hi <= s.tx_len /\ s.tx_len <= s.tx_base + QS_BUF
    /\ s.ack_lo <= s.ack_hi /\ s.ack_hi <= s.tx_hi
    /\ Has(s, "TX") => Has(s, "USED")

RingsOK(s) ==
    /\ \A k \in Ring : LET o == s.rx_ring[At(s.rx_pos, k)] IN
          o = QS_NONE \/ (o = s.rx_read + k /\ o < s.rx_hi)
    /\ Has(s, "RX_ABORT") => s.rx_ring = Empty
    /\ \A k \in 0..(s.tx_len - s.tx_base - 1) : s.tx_ring[At(s.tx_pos, k)] = s.tx_base + k

RecordOK(r, slots) ==
    r.slot # NoSlot => /\ Has(slots[r.slot], "USED") /\ slots[r.slot].id = r.id
                       /\ r.off + r.len <= slots[r.slot].tx_hi

Backed(slots, opened, allowed) ==
    /\ \A d \in Dirs : opened[d] <= allowed[d]
    /\ (allowed[BIDI] - opened[BIDI]) + (allowed[UNI] - opened[UNI])
          <= Cardinality(free_slots(slots))

IInv ==
    /\ TypeOK
    /\ \A i \in Slots : SlotOK(st[i]) /\ RingsOK(st[i])
    /\ \A r \in rec : RecordOK(r, st)
    /\ sent_tx <= max_data_tx
    /\ err = NoErr => Backed(st, next_peer, my_max_streams)
    /\ NeverInternal

SameStream(i) == i \in Used(st) /\ i \in Used(st)' /\ st'[i].id = st[i].id

\* Final sizes never change once chosen: a reset stream sends no more data (the size its
\* RESET_STREAM named stays the highest offset sent, also when it is sent again), and the
\* peer's final size stays what it was.
SizesKept(s, t) ==
    /\ Has(s, "STOP") => t.tx_hi = s.tx_hi
    /\ Has(s, "TX_FIN") => t.tx_len = s.tx_len
    /\ Final(s) => t.rx_final = s.rx_final

\* No step changes a final size of a stream that lives on.
FinalSizesFixed ==
    [][\A i \in Slots : SameStream(i) => SizesKept(st[i], st'[i])]_vars

\* Flow control of the connection is kept on both sides: no byte received is counted into the
\* window and never given back, none is sent above what the peer allowed.
FlowControlKept == ConnCreditConserved /\ SendWithinLimits

\* Every stream the peer opened is served or gives its credit back, in a slot of its own.
PeerStreamsKept == StreamCreditConserved /\ UnacceptedHaveSlots

\* Both rings hold each byte at the position of its offset.
RingsInOrder == RxRingInOrder /\ TxRingHoldsUnacked

\* What conservation rests on beyond IInv: a receiving part that is over was read to its end,
\* only a local unidirectional stream has none, and one nobody accepted yet is not over.
RxOK(s) ==
    /\ Has(s, "RX_RESET") \/ Has(s, "RX_DONE") =>
          s.rx_final = s.rx_hi /\ s.rx_read = s.rx_hi
    /\ ~Has(s, "RX") => s.rx_read = s.rx_hi /\ s.id.d = UNI /\ ~s.id.peer

Untouched(s, taken) ==
    s.id.peer /\ s.id.n >= taken[s.id.d] => ~Has(s, "RX_DONE") /\ ~Has(s, "RX_ABORT")

\* Flow control, stream credit and what is remembered of sent packets, with what they rest on.
CInv ==
    /\ IInv
    /\ \A i \in Used(st) : RxOK(st[i]) /\ Untouched(st[i], accepted)
    /\ FlowControlKept /\ PeerStreamsKept /\ NothingForgotten
=============================================================================
