--------------------------- MODULE MCQuicStreams ---------------------------
(***************************************************************************)
(* A small instance of QuicStreams. A behaviour follows one plan: "slots"  *)
(* opens, ends and aborts bidirectional streams that carry no data, "late" *)
(* does so with packets that arrive late, "send" sends on one              *)
(* unidirectional stream of the client, "recv" receives on one of each     *)
(* kind. A plan chooses the inputs; what the code does with them is        *)
(* QuicStreams.                                                            *)
(***************************************************************************)
EXTENDS QuicStreams

CONSTANTS
    Plans,          \* the plans checked
    PlanPn          \* bound, per plan: packets sent

VARIABLE plan

Tp(data, win, bidi, uni) ==
    [max_data |-> data, bidi_local |-> win, bidi_remote |-> win, uni |-> win,
     streams |-> [d \in Dirs |-> IF d = BIDI THEN bidi ELSE uni]]

\* Three slots: one bidirectional and one unidirectional stream are promised to the peer, with
\* as much connection credit as one of them has.  The peer grants two bidirectional streams,
\* a unidirectional one later, and its data credit step by step.
MC_my == Tp(4, 4, 1, 1)
MC_peer == Tp(1, 2, 2, 0)
MC_pns == [slots |-> 1, late |-> 4, send |-> 4, recv |-> 1]

Only(p, S) == IF plan = p THEN S ELSE {}
Either(p, q, S) == Only(p, S) \cup Only(q, S)

Opens_in == Either("slots", "late", {BIDI}) \cup Only("send", {UNI})
Accepts_in == Only("slots", {BIDI}) \cup Only("recv", Dirs)
Writes_in == Either("slots", "late", Slots \X {0} \X {TRUE}) \cup Only("send", {1} \X {0, 1, 4} \X BOOLEAN)
Reads_in == Only("slots", Slots \X {4}) \cup Only("recv", Slots \X {2, 4})
Aborts_in ==
    Either("slots", "late", Slots \X {TRUE} \X {TRUE}) \cup Only("send", {<<1, TRUE, FALSE>>})
        \cup Only("recv", Slots \X {FALSE} \X {TRUE})
Ids_slots == {Id(peer, BIDI, n) : peer \in BOOLEAN, n \in Indexes}
Frames_in ==
    Only("slots", Ids_slots \X {0} \X {0} \X BOOLEAN)
        \cup Only("recv", {Id(TRUE, UNI, 0)} \X {0, 2, 4} \X {0, 2} \X BOOLEAN)
        \cup Only("recv", {Id(TRUE, UNI, 0)} \X {0} \X {4} \X {FALSE})
        \cup Only("recv", {Id(TRUE, BIDI, 0)} \X {0, 2} \X {2} \X BOOLEAN)
Ctls_in ==
    Only("slots", {"RESET_STREAM", "STOP_SENDING"} \X Ids_slots \X {0})
        \cup Only("late", {"RESET_STREAM", "STOP_SENDING"} \X {Id(FALSE, BIDI, 0), Id(FALSE, BIDI, 1)} \X {0})
        \cup Only("send", {"STOP_SENDING", "MAX_STREAM_DATA"} \X {Id(FALSE, UNI, 0)} \X {5})
        \cup Only("recv", {"RESET_STREAM"} \X {Id(TRUE, UNI, 0)} \X {0, 2, 4})
        \cup Only("recv", {"STREAM_DATA_BLOCKED"} \X {Id(TRUE, BIDI, 0)} \X {0})
Rooms_in == Either("slots", "late", {2}) \cup Only("send", {2, 3}) \cup Only("recv", {3})

MCInit == Init /\ plan \in Plans
MCNext ==
    \/ \E d \in Opens_in : stream_open(d) /\ UNCHANGED plan
    \/ \E d \in Accepts_in : stream_accept(d) /\ UNCHANGED plan
    \/ \E w \in Writes_in : stream_write(w[1], w[2], w[3]) /\ UNCHANGED plan
    \/ \E r \in Reads_in : stream_read(r[1], r[2]) /\ UNCHANGED plan
    \/ \E a \in Aborts_in : stream_abort(a[1], a[2], a[3]) /\ UNCHANGED plan
    \/ \E f \in Frames_in : stream_frame(f[1], f[2], f[3], f[4]) /\ UNCHANGED plan
    \/ \E f \in Ctls_in : stream_ctl(f[1], f[2], f[3]) /\ UNCHANGED plan
    \/ plan = "send" /\ max_data_frame(5) /\ UNCHANGED plan
    \/ plan = "send" /\ max_streams_frame(UNI, 1) /\ UNCHANGED plan
    \/ tx_pn < PlanPn[plan] /\ (\E room \in Rooms_in : stream_out(room)) /\ UNCHANGED plan
    \/ \E r \in rec, acked \in BOOLEAN : stream_record(r, acked) /\ UNCHANGED plan
MCSpec == MCInit /\ [][MCNext]_<<vars, plan>>

\* One bidirectional stream of the client, which it only ever cancels in both directions.
Abort_my == Tp(0, 0, 0, 0)
Abort_peer == Tp(2, 2, 1, 0)

AbortNext ==
    \/ stream_open(BIDI)
    \/ \E n \in Chunks, fin \in BOOLEAN : stream_write(1, n, fin)
    \/ stream_abort(1, TRUE, TRUE)
    \/ Packets
AbortSpec == Init /\ plan = "abort" /\ [][AbortNext /\ UNCHANGED plan]_<<vars, plan>>

\* The comment on abort's sending half, "nothing once every byte and the FIN are acknowledged":
\* as long as a byte of a cancelled stream is not acknowledged, the stream is being reset.
CancelledIsReset ==
    \A i \in Slots : Has(st[i], "RX_ABORT") =>
        \/ Has(st[i], "STOP")
        \/ Has(st[i], "FIN_ACKED") /\ st[i].tx_base >= st[i].tx_len
=============================================================================
