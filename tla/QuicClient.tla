----------------------------- MODULE QuicClient -----------------------------
(***************************************************************************)
(* A client connection (QuicConn) driven through brisk_quic_feed, _pull    *)
(* and _deadline by its application, over a network that loses, repeats,   *)
(* delays and reorders, towards a server that keeps to RFC 9000 and 9001.  *)
(* Every packet sent stays where it may be delivered at any later time,    *)
(* any number of times.  The clock is the caller's.                        *)
(*                                                                         *)
(* A behaviour follows one plan: how far the connection is, and what the   *)
(* server and the application do.  QuicUdp says who calls Feed and Pull.   *)
(***************************************************************************)
EXTENDS QuicConn

CONSTANTS
    Plans,          \* the plans checked
    PacketBound,    \* bound, per plan: packets of the server
    SendBound,      \* bound, per plan: datagrams of the client
    TimeBound,      \* bound, per plan: the clock
    TimeStep,       \* bound, per plan: how far the clock moves at once
    MaxRetry        \* bound: Retry packets, each to a server of its own

VARIABLES
    plan,           \* what happens in this behaviour
    c,              \* the client: brisk__quic_conn and the owe flag
    srv,            \* the server
    net,            \* packets of the server, delivered or not
    wire,           \* packets of the client, delivered or not
    clock           \* the caller's clock

vars == <<plan, c, srv, net, wire, clock>>

\* pn: next packet number per level; got: 1-RTT packets of the client that were received; gen,
\* prev_until: the key generation, and until when the one before is kept (NEVER: as long as the
\* client has not followed); hs, fin: connections that saw a Handshake packet, the client's
\* Finished; issued, rpt: connection IDs; retired: RETIRE_CONNECTION_ID received; acked: the
\* last generation of which a packet was acknowledged; lost: its state is gone, it can only
\* reset; ch2: a second ClientHello came.
Server0 ==
    [pn |-> [l \in Levels |-> 0], got |-> {}, gen |-> 0, prev_until |-> 0, hs |-> {}, fin |-> {},
     issued |-> 0, rpt |-> 0, retired |-> {}, acked |-> -1, lost |-> FALSE, ch2 |-> FALSE]

ServerCid(n) == Name("s", n)
RetryCid(n)  == Name("r", n)

\* A connection that is established and confirmed: of the client a packet was acknowledged, in
\* plan keys 3 PTO ago, of the server HANDSHAKE_DONE and that ACK came.
OpenConn(pref) ==
    [conn_init EXCEPT !.hs = [@ EXCEPT !.state = "CONNECTED", !.fed = FLIGHT,
                                       !.out = [l \in 0..1 |-> 0], !.pref = pref],
        !.crx = FLIGHT, !.rx_level = 2, !.rx = <<None, None, App(0)>>, !.tx = <<None, None, App(0)>>,
        !.rx_ku = App(1), !.dcid = ServerCid(0), !.server_scid = ServerCid(0),
        !.got_initial = TRUE, !.opened = TRUE, !.established = TRUE, !.confirmed = TRUE,
        !.cids[1] = [used |-> TRUE, seq |-> 0, cid |-> ServerCid(0)],
        !.cids[2] = IF pref THEN [used |-> TRUE, seq |-> 1, cid |-> Issued(1)] ELSE NoCid,
        !.tx_pn[2] = 1, !.n_sealed = 1, !.seen[2] = {0, 1}, !.largest_acked[2] = 0, !.ku_min = 0,
        !.ku_max = 2, !.ku_ack_at = IF plan = "keys" THEN 0 ELSE 3 * PTO, !.idle_start = 0,
        !.owe = FALSE]

Handshakes == {"crypto", "retry", "connect"}
Blocking   == {"connect", "udp"}         \* driven by QuicUdp
Init ==
    /\ plan \in Plans
    /\ \E pref \in IF plan = "cids" THEN BOOLEAN ELSE {FALSE},
          hrr \in IF plan = "crypto" THEN BOOLEAN ELSE {FALSE} :
         /\ c = IF plan \in Handshakes THEN [conn_init EXCEPT !.hs.hrr = hrr] ELSE OpenConn(pref)
         /\ srv = IF plan \in Handshakes THEN Server0
                  ELSE [Server0 EXCEPT !.pn[2] = 2, !.got = {0}, !.acked = 0, !.hs = {0},
                                       !.fin = {0}, !.issued = IF pref THEN 1 ELSE 0]
    /\ net = {} /\ wire = {} /\ clock = 0

-----------------------------------------------------------------------------
(* The server *)

Packet(type, lvl, key, scid, fs) ==
    [type |-> type, lvl |-> lvl, key |-> key, scid |-> scid, pn |-> srv.pn[lvl], frames |-> fs]
Budget == Cardinality(net) < PacketBound[plan] /\ c.err = "OK"     \* nothing matters after the end
post(p) ==
    /\ Budget /\ ~srv.lost
    /\ net' = net \cup {p}
    /\ srv' = [srv EXCEPT !.pn[p.lvl] = @ + 1]
    /\ UNCHANGED <<plan, c, wire, clock>>

timed == run_timers(set_now(c, clock))

Acking(fs) == IF srv.got = {} THEN fs ELSE <<Frame("ack", 0, 0, srv.got)>> \o fs
AppPacket(fs) == Packet("packet", 2, App(srv.gen), ServerCid(0), Acking(fs))

\* Plan crypto: any piece of the server's CRYPTO streams, again and again, sent and received
\* in one step: the order of the steps is the order the network makes of it.
LevelKey(l) == CASE l = 0 -> Initial(ODCID) [] l = 1 -> HsKey(ServerCid(0)) [] l = 2 -> App(0)
SrvCrypto(l, off, n) ==
    /\ plan = "crypto" /\ c.err = "OK"
    /\ off + n <= FLIGHT[l]
    /\ c.hs.hrr /\ (l > 0 \/ off > 0) => srv.ch2
    /\ l = 0 /\ c.hs.hrr /\ off = 0 => n = 1
    /\ l = 2 => 0 \in srv.fin
    /\ srv.pn[0] + srv.pn[1] + srv.pn[2] < PacketBound[plan]
    /\ srv' = [srv EXCEPT !.pn[l] = @ + 1]
    /\ \E p \in {Packet("packet", l, LevelKey(l), ServerCid(0), <<Frame("crypto", off, n, {})>>)} :
         \E t \in timed : c' = feed(t, p, {})
    /\ UNCHANGED <<plan, net, wire, clock>>

\* Plan retry: what a server may answer to an Initial it received.
Answers(i, w) == w.lvl = 0 /\ w.token = i /\ w.key = Initial(IF i = 0 THEN ODCID ELSE RetryCid(i))
SrvRetry(i) ==
    /\ plan = "retry" /\ \E w \in wire : Answers(0, w)
    /\ post(Packet("retry", 0, None, RetryCid(i), <<>>))
SrvHello(i) ==
    /\ plan \in {"retry", "connect"}
    /\ \E w \in wire :
         /\ Answers(i, w)
         /\ post(Packet("packet", 0, w.key, ServerCid(i),
                        <<Frame("ack", 0, 0, {w.pn}), Frame("crypto", 0, FLIGHT[0], {})>>))
SrvFlight(i) ==
    /\ plan \in {"retry", "connect"} /\ \E w \in wire : Answers(i, w)
    /\ post(Packet("packet", 1, HsKey(ServerCid(i)), ServerCid(i), <<Frame("crypto", 0, FLIGHT[1], {})>>))
SrvDone(i) ==
    /\ plan = "retry" /\ i \in srv.fin
    /\ post(Packet("packet", 2, App(0), ServerCid(i), <<Frame("done", 0, 0, {})>>))
\* An answer of a server without our version, which another Initial met.
SrvVersion ==
    /\ plan = "retry" /\ \E w \in wire : Answers(0, w)
    /\ post(Packet("vn", 0, None, ODCID, <<>>))

\* Plans keys and wake: application data, a challenge of the path, the end.
SrvSend(f) ==
    /\ f \in CASE plan \in {"keys", "cids"} -> {"ping"}
              [] plan = "wake" -> {"ping", "challenge", "close"}
              [] plan = "udp"  -> {"stream", "close"}
              [] OTHER          -> {}
    /\ post(AppPacket(<<Frame(f, 0, 0, {})>>))
\* RFC 9001 6.1: an update of its own once a packet of this generation was acknowledged.
SrvUpdate ==
    /\ plan = "keys" /\ c.err = "OK"
    /\ srv.prev_until <= clock
    /\ srv.acked = srv.gen
    /\ srv' = [srv EXCEPT !.gen = @ + 1, !.prev_until = NEVER]
    /\ UNCHANGED <<plan, c, net, wire, clock>>

\* Plan cids: a new connection ID, or an old frame again, within the client's limit, which
\* counts what is to be retired by the same frame as gone.
Outstanding(rpt) == (0..rpt - 1) \ srv.retired
SrvIssue(rpt) ==
    /\ plan = "cids"
    /\ rpt \in srv.rpt..srv.issued + 1
    /\ srv.issued + 2 - rpt <= CID_LIMIT
    /\ Cardinality(Outstanding(rpt)) <= 2 * CID_LIMIT
    /\ Budget /\ ~srv.lost
    /\ net' = net \cup {AppPacket(<<Frame("new_cid", srv.issued + 1, rpt, {})>>)}
    /\ srv' = [srv EXCEPT !.pn[2] = @ + 1, !.issued = @ + 1, !.rpt = rpt]
    /\ UNCHANGED <<plan, c, wire, clock>>
SrvIssueAgain(p) ==
    /\ plan = "cids" /\ p.frames # <<>> /\ p.type = "packet"
    /\ Last(p.frames).f = "new_cid"
    /\ post(AppPacket(<<Last(p.frames)>>))
\* Its state is gone: it answers a packet with the reset token of the ID it came to.
SrvReset(w) ==
    /\ plan = "cids" /\ Budget
    /\ srv' = [srv EXCEPT !.lost = TRUE]
    /\ net' = net \cup {Packet("reset", 2, None, w.dcid, <<>>)}
    /\ UNCHANGED <<plan, c, wire, clock>>

\* The server's 1-RTT keys: the current ones, and by the Key Phase bit the previous or the next.
HoldsPrev == srv.prev_until > clock
SrvOpens(w) ==
    CASE w.lvl = 0 -> w.key.n \notin srv.hs /\ w.token = w.key.n
      [] w.lvl = 1 -> w.key.n \notin srv.fin
      [] w.lvl = 2 -> /\ srv.fin # {}
                      /\ w.key.n \in {srv.gen} \cup {IF HoldsPrev THEN srv.gen - 1 ELSE srv.gen + 1}

\* A packet of the client arrives: a flip of the phase is followed, its frames are taken.
SrvGet(w) ==
    /\ w.lvl < 2 \/ w.pn \notin srv.got
    /\ c.err = "OK" \/ c.cc = 1
    /\ SrvOpens(w) /\ ~srv.lost
    /\ srv' =
         CASE w.lvl = 0 -> [srv EXCEPT !.ch2 = @ \/ w.off + w.len > 1]
           [] w.lvl = 1 -> [srv EXCEPT !.hs = @ \cup {w.key.n},
                                       !.fin = IF w.len # 0 THEN @ \cup {w.key.n} ELSE @]
           [] w.lvl = 2 ->
                [srv EXCEPT !.got = @ \cup {w.pn}, !.retired = @ \cup w.ret, 
                    !.acked = Max({@} \cup {p.key.n : p \in {q \in net : q.lvl = 2 /\ q.pn \in w.acks}}),
                    !.gen = IF w.key.n > @ THEN w.key.n ELSE @,
                    !.prev_until = IF w.key.n > srv.gen \/ (w.key.n = srv.gen /\ @ = NEVER)
                                   THEN clock + 3 * PTO ELSE @]
    /\ srv' # srv
    /\ UNCHANGED <<plan, c, net, wire, clock>>

-----------------------------------------------------------------------------
(* The client *)

\* brisk_quic_feed with a datagram of one packet; an ACK in it may give up older packets.
Lost(x, p) == IF plan \in Blocking THEN {{}} ELSE {{}, {s \in x.rec : s.lvl = p.lvl}}
Feed(p) ==
    /\ \E t \in timed : \E lost \in Lost(t, p) : c' = feed(t, p, lost)
    /\ UNCHANGED <<plan, srv, net, wire, clock>>

\* brisk_quic_pull: a datagram that is lost is one the server never gets.
MaySend == Cardinality(wire) < SendBound[plan] \/ c.err # "OK"
Pull ==
    /\ \E t \in timed : \E s \in {pull(t)} :
         /\ c' = s.c
         /\ wire' = wire \cup s.dgram
    /\ UNCHANGED <<plan, srv, net, clock>>

\* brisk_quic_stream_write: something to send.
Write ==
    /\ plan \in {"keys", "wake"} /\ c.err = "OK" /\ c.established /\ ~c.streams
    /\ c' = [c EXCEPT !.streams = TRUE, !.owe = TRUE]
    /\ UNCHANGED <<plan, srv, net, wire, clock>>

KeyUpdate ==
    /\ plan = "keys"
    /\ c' = key_update(c) /\ c' # c
    /\ UNCHANGED <<plan, srv, net, wire, clock>>

\* brisk_quic_close.
Close ==
    /\ plan \notin Blocking
    /\ c.err = "OK"
    /\ c' = [close(c) EXCEPT !.owe = TRUE]
    /\ UNCHANGED <<plan, srv, net, wire, clock>>

Tick ==
    /\ clock < TimeBound[plan] /\ c.err = "OK"
    /\ clock' = clock + TimeStep[plan]
    /\ UNCHANGED <<plan, c, srv, net, wire>>

ServerNext ==
    \/ \E l \in Levels : \E off, n \in 0..FLIGHT[l] : n # 0 /\ SrvCrypto(l, off, n)
    \/ \E i \in 1..MaxRetry : SrvRetry(i)
    \/ \E i \in 0..MaxRetry : SrvHello(i) \/ SrvFlight(i) \/ SrvDone(i)
    \/ SrvVersion
    \/ \E f \in {"ping", "stream", "challenge", "close"} : SrvSend(f)
    \/ SrvUpdate
    \/ \E rpt \in 0..PacketBound[plan] : SrvIssue(rpt)
    \/ \E p \in net : SrvIssueAgain(p)
    \/ \E w \in wire : SrvReset(w) \/ SrvGet(w)
ApplicationNext == Write \/ KeyUpdate \/ Close

-----------------------------------------------------------------------------
(* Properties *)

\* The connection never fails on a server that keeps to the RFCs, whatever the network does
\* with the packets: no KEY_UPDATE_ERROR for a late packet of the phase before (qc_ku_opened),
\* no refusal of a repeated or divided CRYPTO frame (crypto_in), of NEW_CONNECTION_ID frames
\* within the limit in any order (new_cid), no connection ID mismatch after a Retry (cids_ok).
\* It ends as its application, the server or the clock asks, on CRYPTO data too far ahead for
\* the buffer, or when a key is used up and no update was possible.
Refusals == {"PROTOCOL_VIOLATION", "KEY_UPDATE", "CONNECTION_ID_LIMIT", "TRANSPORT_PARAMETER",
             "CRYPTO", "INTERNAL"}
NotRefused ==
    /\ c.err \notin Refusals
    /\ c.err = "RESET" => srv.lost
    /\ c.err = "CRYPTO_BUFFER_EXCEEDED" => plan = "crypto"

\* The engine has every byte that arrived in order, and no byte twice: nothing contiguous is
\* held back in the ring, across the wrap and the switch of levels inside a delivery (deliver).
EngineFed ==
    c.err = "OK" =>
        /\ \A l \in Levels : c.hs.fed[l] = c.crx[l]
        /\ Cell(c, 0) = CLEAR

\* Every packet the client sent can still be opened by a server that has not moved on: an
\* Initial carries the keys, the ID and the token of one and the same server (qc_retry_in,
\* pkt_finish), a 1-RTT packet is never sealed with keys the server cannot have yet, nor while
\* it holds its previous ones under the same Key Phase bit (qc_tx_limit).  An acknowledgement
\* goes out under keys no older than those of the packet it names (RFC 9001 6.2).
PeerCanOpen ==
    \A w \in wire :
        /\ w.lvl = 0 => \E i \in 0..MaxRetry : Answers(i, w) /\ w.dcid \in {ODCID, RetryCid(i), ServerCid(i)}
        /\ w.lvl = 2 => w.key.n <= srv.gen + (IF HoldsPrev THEN 0 ELSE 1)
        /\ w.lvl = 2 => \A p \in net : p.type = "packet" /\ p.lvl = 2 /\ p.pn \in w.acks => p.key.n <= w.key.n

\* The connection ID in use is active and was never retired; every ID below Retire Prior To is
\* gone or its RETIRE_CONNECTION_ID is queued, in flight or received, through losses (new_cid,
\* retire, reap); a stateless reset is believed only for an ID that was sent on (10.3.1).
Known == {0} \cup {Last(p.frames).a : p \in {q \in net : /\ q.lvl = 2 /\ q.pn \in c.seen[2]
                                                        /\ q.frames # <<>> /\ Last(q.frames).f = "new_cid"}}
CidsAccounted ==
    plan = "cids" /\ c.err = "OK" =>
        /\ \E i \in Active(c) :
             /\ c.cids[i].cid = c.dcid
             /\ \A w \in wire : c.cids[i].seq \notin w.ret
        /\ \A seq \in Known :
             \/ \E i \in Active(c) : c.cids[i].seq = seq
             \/ seq \in srv.retired
             \/ \E j \in 1..RETIRE :
                  /\ c.rq[j].seq = seq
                  /\ \/ c.rq[j].state = 1
                     \/ c.rq[j].state = 2 /\ \E s \in c.rec : s.ret /\ s.pn = c.rq[j].pn
        /\ qc_reset_match(c, c.dcid) =>
             c.dcid = ServerCid(0) \/ \E w \in wire : w.lvl = 2 /\ w.dcid = c.dcid

\* An end that announces itself leaves a CONNECTION_CLOSE the server can read, whatever it has
\* received and whichever keys it has dropped by then (cc_build, RFC 9000 10.2.3): a close never
\* falls between the levels, and the last packet a key may protect is left for it.
Silent == {"OK", "IO", "PEER_ALERT", "RESET", "VERSION_NEGOTIATION", "IDLE"}
CloseReadable ==
    /\ c.err \notin Silent => c.cc # 0
    /\ c.cc = 1 /\ ~srv.lost => \E k \in c.ccl : SrvOpens(k)

\* A caller that waits until brisk_quic_deadline misses nothing: as long as the deadline has
\* not come, brisk_quic_pull would return nothing (the owe flag, brisk__quic_deadline), save for
\* the close that ends a worn key, which waits for the next call whatever that is.
NothingOwedSleeps ==
    \A t \in clock..TimeBound[plan] :
        t < deadline(c) => \A x \in run_timers(set_now(c, t)) :
                                send(x).dgram = {} \/ send(x).c.err = "AEAD_LIMIT_REACHED"

\* What a lawful server sends, in any order and in any pieces, is understood: no error is raised
\* for it and the handshake engine is fed its very bytes.
PeerUnderstood == NotRefused /\ EngineFed
=============================================================================
