# Brisk-SSL in TLA+

Brisk-SSL is a C99 client library: TLS 1.3 and 1.2 over TCP, QUIC v1, HTTP/2 and HTTP/3, with no
malloc, no threads and no clock in its core. Every protocol engine is a passive state machine
("sans-I/O"): the application calls it, hands it received bytes and the time, and collects bytes
to send. What makes it hard is therefore not threads. It is the *order* of three streams of
events that nobody controls: calls of the application, messages of a peer that may send anything,
and packets that are lost, reordered and acknowledged late. All tables (streams, sent packets,
connection ids, rings) have a small fixed size.

Paths below are relative to the library's source directory `src/src/`.

## Inventory

| Component | State | Operations | Correct when |
|---|---|---|---|
| QUIC streams, `quic/stream.c` | `QS_N` slots, each with a receive ring, its bitmap and a send ring; stream counts and credit; connection flow control both ways | open, accept, write, read, abort; STREAM, RESET_STREAM, STOP_SENDING, MAX_*; building a packet's frames; acknowledgement and loss of a packet's record | no slot shortage, no byte lost, out of order or past a limit, credit conserved, final sizes fixed |
| QUIC recovery, `quic/recovery.c` | 32 sent-packet records, received ranges per space, RTT, congestion window, timers | on_sent, on_ack, deadline, on_timeout, discard; rxack_add, ack_write | a packet is acknowledged or lost once, bytes in flight are the records', a timer runs while something is outstanding, duplicates are never processed |
| QUIC connection, `quic/conn.c` | three packet-number spaces and their keys, CRYPTO ring, connection ids, key-update phase, close state, idle timer | recv (datagram), send, set_now / timers, close, key_update, Retry, Version Negotiation | keys are used and dropped in order, one error is final, ids are retired once, key phases do not run ahead |
| QUIC packets, `quic/packet.c` | none | header parsing and protection, AEAD | (bytes only) |
| QUIC API, `quic/api.c` | the public handle over both | open, read, write, close | (forwards to conn.c and stream.c) |
| TLS 1.3 engine, `tls/handshake.c`, `tls/keyschedule.c` | message state, transcript, reassembly buffer, output queue | client hello, input of a message, output, post-handshake | each message only in its state, nothing accepted before Finished, at most one HelloRetryRequest |
| TLS 1.2, `tls/tls12.c` | the same engine's 1.2 states | server messages, client flight | no renegotiation, downgrade refused |
| Record layer, `tls/record.c` | per direction: key, sequence number, pending key change; alerts | open, seal, feed, key update | a sequence number is used once, keys change between messages only |
| TLS connection, `tls/conn.c` | the public connection over both | feed, pull, app_read, app_write, close | no application data before authentication, close and errors are final |
| HTTP/2, `http/h2.c` | streams, windows both ways, output buffer, peer SETTINGS, GOAWAY | request, response, read, write, close | windows respected and given back, stream ids and counts in limits |
| HPACK, `http/hpack.c`, `http/huffman.c` | dynamic table ring | decode a header block | table size never above the limit, entries whole |
| HTTP/3, `http/h3.c`, `http/qpack.c` | unidirectional stream roles, per-request parser state | request, response, body, cancel, control stream | SETTINGS first and once, critical streams never closed, GOAWAY only decreases |
| Certificates, `x509/` | none beyond a call | parse, path building, name match, time policy | path building terminates and accepts exactly the valid paths |
| Cryptography, `crypto/` | none beyond a call | primitives | (vectors, constant-time tests, fiat-crypto) |
| Sockets, `os/linux_net.c`, `os/linux_udp.c` | the blocking handle, deadlines | connect, read, write, close loops | every loop ends, deadlines hold |
| Random, CA bundle, `os/linux_rand.c`, `os/linux_ca.c` | a cached decision | fill, find | fails closed |

How they interact: `os/` calls the public connections; those call the TLS engine (records for TCP,
CRYPTO frames for QUIC) through callbacks for secrets and transport parameters; `quic/conn.c` owns
the streams and the recovery state, hands received frames to `stream.c`, asks it for the frames of
each packet, and hands it every record that `recovery.c` marks acknowledged or lost (`reap`).
HTTP/2 sits on the TLS connection, HTTP/3 on the QUIC streams.

## What is modelled

### QuicStreams: `quic/stream.c`

`QuicStreams.tla` has the state of the stream layer under the source's names: `st` is the slot
table, each slot a record with the fields of `brisk__quic_stream` and its two rings; `next_local`,
`next_peer`, `accepted`, `peer_max_streams`, `my_max_streams` are pairs by direction; `max_data_tx`,
`sent_tx`, `max_data_rx`, `sum_rx`, `consumed` the connection's flow control; `rec` the outstanding
sent-packet records, as far as streams look at them. One action per function:

| Action | Code |
|---|---|
| `stream_open`, `stream_accept`, `stream_write`, `stream_read`, `stream_abort` | the application's calls of the same names |
| `stream_frame`, `stream_ctl`, `max_data_frame`, `max_streams_frame` | what `frames` in conn.c calls for each frame type |
| `stream_out` | the frames of one 1-RTT packet: all control frames that fit, then one STREAM frame |
| `stream_record` | what `reap` calls for an acknowledged or lost packet |

A byte is its stream offset: a ring position holds the offset whose byte the code copied into it,
or nothing. So "reads return the right bytes" is a statement about positions, and wraps, gaps and
overlaps are all there. A frame costs one unit of packet room per header and one per byte, which
keeps what matters of the room computation: frames that do not fit stay pending, data is cut. The
ring's positions are `(head + k) % QS_BUF`, the source's stepwise wrap. Errors end the connection
(`q_fail` wipes slots and records). The bitmap and the ring are one function: a position is empty
or holds an offset. The parameter `ctl_only` of `stream_out` is left out: its only caller passes 0.

The peer is unconstrained: any frame on any stream with any offset at any time. All safety
properties hold against every peer.

### QuicAckRanges: the receive side of `quic/recovery.c`

One packet-number space: the table of received ranges with its floor, the count of ack-eliciting
packets waiting and the time their ACK is due. `packet` is `one_packet` of conn.c as far as this
state goes (duplicate check, frames, `rxack_add`), `send_ack` the ACK of `brisk__quic_send`,
`discard` the end of the space. History variables remember which packet numbers were processed and
forgotten, and `named` what the last ACK frame named (`ack_write`, as the set of numbers it
stands for). The clock saturates as `tadd` does. The encoding of the frame and its delay field
are left out.

`AckReceiver.tla` is what this component promises, without a table: a receiver that remembers
every packet, processes each at most once, acknowledges processed packets only and the highest
among them, and owes its ACK in time. `Receiver == INSTANCE AckReceiver` maps to it: what the
table has refused for lack of room counts as seen, so a packet below the floor may never be
processed but is never processed twice. `ImplementsReceiver` says every step of QuicAckRanges is a
step of it or leaves it as it is.

### QuicRecovery: the send side of `quic/recovery.c` and the datagrams of `quic/conn.c`

`rec` is `struct brisk__quic_rec`; each function of recovery.c is an operator from one value of it
to the next, under the source's name. What conn.c does with them is in the actions: a call of
`brisk__quic_send` runs the timers, builds at most one packet per level in one datagram, pads it,
records what is in flight and, with the first Handshake packet, discards the Initial space; a call
of `brisk__quic_recv` runs the timers and takes an ACK of any packets that were sent, or a
handshake step, or a Retry, or nothing. `recv_retry` is the end of `qc_retry_in`: at most one Retry
(`retry_done`) and none after a packet of the server was opened (`opened`, which is `n_opened # 0`)
puts recovery and `ret_sent[0]` back to the start, while the packet numbers go on. CRYPTO data is its offsets: `ret_sent` moves back when a packet is
lost or a probe is due. Window, loss delay, RTT and backoff are the source's integer arithmetic.
What 1-RTT packets carry and when ACKs are owed is left to the two modules above: a call may have
either or not. Widths are not modelled for the window and the times (they saturate in the source
far above any bound here).

`KeepsProbing`, a part of `TimersHaveWork`, says that a client that sent something has a timer until
its address is validated. An accepted Retry is the exception, and the property names it: all
timers are gone and brisk__quic_deadline does not say "now", so it is the next call of
brisk__quic_send that goes on. Of that state (`Restarted`) the property demands that the whole
ClientHello is to be sent and that the window lets it go at once. The drivers do make that call: they
pull after every datagram they feed.

### TlsEngine and TlsHandshake: `tls/handshake.c`, `tls/tls12.c`

`TlsEngine.tla` is the client's handshake engine for TLS 1.3 and 1.2 as operators from one value
of `struct brisk__tls13_hs` to the next, under the names of the source: `hs_on_sh`, `hs_on_hrr`,
`hs_on_ee`, ..., `t12_on_ske`, `t12_on_shd`, `tls12_on_ccs`, the reassembly (`take`, `feed`, with
`crosses` and `boundary` for the rule that nothing may follow a message before a key change), and
the owner's calls `client_hello`, `pull`, `set_psk`, `set_tls12_key`. It has no variables, so that
the record layer's module can use it as TlsHandshake does. `TlsHandshake.tla` has the engine `hs`
and a history of what `pull` handed out; its actions are the owner's calls in any order:

| Action | Code |
|---|---|
| `SetPsk`, `SetTls12Key`, `ClientHello` | `brisk__tls13_hs_set_psk`, `brisk__tls13_hs_set_tls12_key`, `brisk__tls13_hs_client_hello` |
| `Feed`, `FeedElsewhere` | `brisk__tls13_hs_feed`, at the level that is in use and at another one |
| `ChangeCipherSpec` | `brisk__tls12_on_ccs`, at any moment |
| `Pull`, `TakeKu` | `brisk__tls13_hs_pull`, and the record layer's read of `ku` |

The server may send every message of `Messages` in every state, in fragments of any number of
units, with another message begun behind it in the same call; a callback of the owner may refuse.
Abstractions: a message is a record of what its handler looks at, with at most one thing wrong in
its encoding, so the order of two checks matters only where both look at different fields. Its
length is a few units, the first of which holds the header. A signature, a MAC and the certificate
path are verdicts the message carries; a secret is a name in `secrets`, live or wiped. The
transcript is the sequence of messages, and keeps the first ClientHello where the code puts its
hash (RFC 9846 4.4.1). Writing a ClientHello is outside: the engine is given one, as in the code,
and checks it. Lengths in an allowed encoding (session ids, cookies) do not run over any limit.
The key_share of a HelloRetryRequest is a group and never has another length (handshake.c:470,
decode_error): it fails as the other malformed ones do.

### TlsConn: `tls/record.c`, `tls/conn.c`

`c` is `struct brisk__tls13_conn` with the engine `c.hs` inside (the operators of TlsEngine) and
what `struct brisk_conn` adds; the operators have the names of the source (`conn_record`,
`conn_flush_pend`, `conn_ku`, `conn_hello`, ...). A record is two units of the stream `rx`, its header and its body,
and reaches the client in any pieces. A key is its place in the key schedule: the epoch, the
version and the number of KeyUpdates; a record carries the key and the sequence number it was
sealed with, and opens only under the same ones. The receive buffer is what of it matters: whether
a header is in it (`in`) and how much plaintext (`app`).

| Action | Code |
|---|---|
| `Feed` | `brisk_feed` on any prefix of the units that have arrived |
| `Pull(cap)` | `brisk_pull` with a buffer of `cap` units |
| `AppWrite`, `AppRead`, `CloseNotify` | `brisk_app_write`, `brisk_app_read`, `brisk_close_notify` |
| `SrvFlight`, `SrvPost`, `SrvChangeCipherSpec`, `SrvData`, `SrvAlert` | an external server: its flight cut into any records, then KeyUpdates, HelloRequests, data, alerts |
| `SrvStray`, `Forge` | one message the server should not send; a record of somebody without keys |

`srv` is also the judge of what the client sends: it holds its own receive key and number, by the
rules of the RFCs, and notes whether each record opened in its place. The server commits to what
it has seen: a ServerHello answers the last ClientHello, a TLS 1.2 Finished covers the client's,
and before the client's TLS 1.2 flight it has no keys. (Any message in any state is the question
of TlsHandshake.) After a failure the transport is closed. Left out: record_size_limit (this
client never offers it), padding, the
legacy version bytes, the wrap of a sequence number at 2^64, and in conn.c the validation of the
configuration, ALPN encoding, trust anchors and the QUIC setup.

### QuicConn, QuicClient, QuicUdp: `quic/conn.c`, `quic/packet.c`, `quic/api.c`, `os/linux_udp.c`

`QuicConn.tla` is one connection as operators from one value of `struct brisk__quic_conn` to the
next. A key is the name of what it was derived from (the Initial keys of a connection ID, the
Handshake keys of a server, the 1-RTT keys of a generation), and a packet opens with its own key
only. `QuicClient.tla` puts the connection between its application, a network and a server: every
packet sent stays in `net` or `wire` and may be delivered at any later time, any number of times or
never, which is loss, repetition, delay and reordering at once. The server is *lawful*: it sends
what RFC 9000 and 9001 allow, so a refusal of the client is an error of the client. `QuicUdp.tla` is
the blocking driver: its steps end at system calls, between which the clock, the network and the
server move.

| Operators and actions | Code |
|---|---|
| `feed`, `packet`, `frame` and what they call; `Feed` | `brisk_quic_feed`, `brisk__quic_recv`, `one_packet`, `frames` |
| `crypto_in`, `deliver`, `hs_feed` | CRYPTO reassembly: the ring, the bitmap, the switch of levels inside a delivery |
| `qc_retry_in`, `qc_vn_in`, `cids_ok` | Retry, Version Negotiation, the connection IDs of the transport parameters |
| `qc_ku_opened`, `qc_ku_promote`, `key_update`, `qc_tx_limit` | key updates of both sides and the end of a key |
| `new_cid`, `retire`, `reap_rq`, `qc_reset_match` | connection IDs, their retirement through losses, stateless resets |
| `pull`, `send`, `pkt_finish`, `cc_build`; `Pull` | `brisk_quic_pull`, `brisk__quic_send`, the close |
| `run_timers`, `conn_deadline`, `deadline`, `set_now` | the timers and `brisk_quic_deadline` |
| `Socket`, `Try`, `DriverPull`, `Poll`, `DriverFeed`, `Drained`, `GiveUp`, `Call` | `brisk__quic_connect_ex`, the loops of `brisk_quic_stream_read` and `_write`, `udp_flush`, `udp_round`, `udp_drain`, `udp_io` |

The three tables that have modules of their own are cut short here, in the direction that allows
more: an ACK may declare any older packets lost, the probe timeout is a constant, the streams are a
flag for something to send and one for something to read. A packet number on the wire is the whole
number: its truncation and reconstruction (`brisk__quic_pn_decode`) are taken as exact. ICMP errors and name resolution are not
modelled; a datagram that meets a broken socket stays on the wire of the model.

### Hpack and H2: `http/hpack.c`, `http/h2.c`

`Hpack.tla` has the decoder with its table in a ring of octets (insertion, eviction, size updates,
lookup of an index) and the encoder's size updates, next to the table as RFC 7541 defines it. In
`H2.tla` a step is one call of the application, one turn of the loop of `h2_wait`, or one turn of
the loop that sends a body; a function of h2.c is an operator of the same name. The server sends
any frame of the plan at any time; the transport cuts a frame anywhere, times out, ends, or fails a
write. Octets are counted, not written; a field is a symbol. `c.g` is the history the properties
judge by: what was sent, granted, read and told per stream, and the table of the server's encoder.
The frames of a plan are of the set `Frames` (`PlansAssumption`): any kind, length, padding, flags,
settings and representations. Octets of a HEADERS or CONTINUATION frame are counted once each, in
whatever pieces they come, without the padding; the representations they spell are added with the
last of them, as nothing is decoded before the block ends. What goes over the fields of a block and the settings of a frame is
a recursive function on positions.

### Qpack and H3: `http/qpack.c`, `http/h3.c`

`Qpack.tla` is the static-table codec. In `H3.tla` a step is one turn of a call between two waits
(a call does no I/O between them); while it waits the server's octets arrive on any stream, cut
anywhere, with FIN, reset, STOP_SENDING or credit, in any order across streams. The QUIC streams
are what `brisk__h3_io` shows of them: a queue each, its ends and its room. SETTINGS and GOAWAY
whose payload ends in the middle of a field are one kind of malformed frame: each is a connection
error at the same place.

### X509Chain: `x509/chain.c`

`brisk__x509_chain_verify` as the state machine it is: the depth-first search with its whole search
state (`chosen`, `depth`, `resume`, `below`, `pin_mask`, the budgets `work` and `lookups`), one
action per turn: ask the anchors (`Arrive`, `TryAnchor`, `NoMoreAnchors`), try a certificate of the
server (`TryPeer`), give a level up (`DeadEnd`). A certificate is what the search looks at: subject
and issuer, key, the key that made its signature, CA flag, path length, key usage, version and
validity. `conn_anchor` and `Named` are the lookup in the application's and the system's store.
`Trusted` is the reference: a trusted path is defined without any search.

## Runs

| Run | Instance | Shows |
|---|---|---|
| `streams` | 3 slots, rings of 4, four plans: slots without data, the same with late packets, one sending stream, two receiving streams | `ReservationHolds`, `PeerStreamsKept`, `SentIsRemembered`, `RingsInOrder`, `FlowControlKept`, `FinalSizesFixed` |
| `ack_ranges` | 3 ranges, 8 packet numbers in any order and repetition, a clock that saturates at 4 | `LargestIsNew`, and the refinement `ImplementsReceiver` |
| `recovery` | 5 records, datagrams of 2 units, window of 2 datagrams; three initial states | `FlightAccounted`, `CryptoNotForgotten`, `TimersHaveWork`, `WindowRespected` |
| `tls_handshake` | two TCP clients and a QUIC client, buffer of 4 units, queue of 5, about 70 server messages | `ConnectedSound`, `SecretsInStep`, `ReassemblySound`, `FlightInOrder` |
| `tls_conn` | seven handshakes (1.3 with certificates, PSK, retries; 1.2; a retry the client refuses), 2 records on their way, 2 records besides the flight, buffers of 2, 3 and 12 units | `NextRecordOpens`, `SendSideInStep`, `AppDelivered`, `OwedIsSent` (liveness) |
| `h2` | 2 slots, windows of 4, five plans of 2 to 6 server frames | `CreditConserved`, `NeverStarved`, `EndIsWhole`, `RequestsConcluded`, `WireLegal`, `TableInSync`, `CallsReturn` (liveness) |
| `h3` | 2 slots, 4 server streams, eight plans of 2 to 5 deliveries | `VerdictIsRight`, `RequestsConcluded`, `RequestDecodes`, `CallsReturn` (liveness) |
| `quic_conn` | seven plans: CRYPTO pieces, Retry, keys, connection IDs, the deadline, connect, blocking calls | `PeerUnderstood`, `PeerCanOpen`, `CidsAccounted`, `CloseReadable`, `NothingOwedSleeps`, `TimeoutIsTrue`, `ServerTold` |
| `x509_chain` | every list of up to 3 of 11 certificates, every store of up to 2 of 4 roots, 3 pin sets | `OkIsTrusted`, `AuthIsHopeless` |
| `tls_alert` | as `tls_conn` | finding: `FatalAlertOpens` is violated |
| `probe_stall` | 3 records, a confirmed connection | finding: `ProbeHasRecord` is violated |
| `h2_trailers` | as `h2` | finding: `WindowCapped` is violated |

A property that is a conjunction (`PeerStreamsKept`, `SentIsRemembered`, `RingsInOrder`, `FlowControlKept`,
`FlightAccounted`, `TimersHaveWork`, `SecretsInStep`, `ReassemblySound`, `SendSideInStep`,
`RequestsConcluded`, `PeerUnderstood`) has named parts, each stated with its reason
in the module. Three configurations are not among the runs and show observations described below:
`MCAbort.cfg` (module MCQuicStreams), `MCLostFlight.cfg` (MCQuicRecovery), `MCH2Eof.cfg` (MCH2).

Why the bounds are enough to be interesting. `streams`: two streams are promised to the peer and
the third slot is the client's, the least in which a promised slot and a used one compete and a
slot is reused while a record of its former stream is outstanding (plan `late`); rings of 4 wrap
under 5 bytes and reads stop at gaps; 4 packets allow losses and acknowledgements out of order
around one range plus the retransmissions; the connection window equals one stream's window, so
two streams compete for it. A plan chooses which inputs a behaviour has, never what the code does
with them. Bounds are constants: `MaxTxLen` (bytes written), `MaxPn` and `PlanPn` (packets sent),
`QUIC_SENT` (records), `Offsets`, `Indexes`, `Chunks`, `Rooms` (inputs). The runs do not check
deadlock where a bounded instance stops because its packets are used up, or a failed connection
stops by design; `h2` and `h3` do.

`ack_ranges`: eight packet numbers over three ranges overflow the table several times, join ranges
from both sides and fall below the floor. `recovery`: with five records, three are for data, as
many as the window allows, and two for probes, so both limits bind. `MCQuicRecovery` adds two
initial states to the start of the handshake, states that the connection reaches after more
packets than `MaxPn` allows: `Confirmed`, where slow start, congestion avoidance, losses by number
and time and persistent congestion happen with five 1-RTT packets, and `Silence`, in the middle of
unanswered probes. Its `Bound` splits the packets and milliseconds between the three (after a
Retry the clock stops at the first millisecond: its timer and one probe; from `Confirmed`
no more packets go out than milliseconds have passed); the initial
RTT is 0 so that a PTO is one millisecond and four back-offs fit the clock.

`tls_handshake`: `MAX_MSG` is 3 and `IN_CAP` 4 units, so behind a Certificate of 3 a
CertificateVerify of 2 no longer fits and one of 1 does: the two ways to share the buffer both
happen. `OUT_MAX` is 5 units: the flight of a client with a certificate takes 4, so it fits, but
not behind a ClientHello of 2 that was never drained. Every good handshake completes: each
transcript that `ConnectedSound` lists is reached, and so is CONNECTED over QUIC. The run takes two
minutes and bounds no number of steps: every message moves the state on or ends it, but for those
after the handshake, which leave no trace once the KeyUpdate is taken.

`tls_conn`: a record's content is at most 2 units and a buffer of 3 holds one such record, so
flights are pulled in pieces, between which everything else may happen; in a buffer of 2 the
ChangeCipherSpec leaves no room for the record behind it. `TLS_REKEY_SEQ` is 2 and
`REC_MAX_UPDATES` 1: the client updates its key once, and then meets the AEAD limit with no
update left; in TLS 1.2 the limit closes the connection. `MaxExtra`, the records besides the
flight, is 2: a KeyUpdate and data after it, data and a close, a ChangeCipherSpec and data or a
HelloRequest. With 3 the safety properties hold as well (0.6 million states).

`h2`: windows of 4 under a connection window of 8 make each frame matter; a table of 8 octets
holds one or two entries and wraps. It is of the size both sides start with, as by default
(BRISK_H2_HEADER_TABLE_SIZE is 4096): a smaller one, which the server must confirm with a size
update, is in `Hpack.tla` (`need_update`) but not in the run. Each plan asks one question: responses,
header block and padding included, cut anywhere with streams closed in between; uploads under windows that move, with GOAWAY and resets; blocks split
over CONTINUATION with table changes; trailers; floods, whose frames the server may send without
end. `h3` likewise: server streams and their instructions; the control stream; opening; a response
cut anywhere; content with trailers; 25 malformed sections and frames; uploads under GOAWAY,
STOP_SENDING and resets; floods.

`quic_conn`: the ring of 4 is shorter than the Handshake flight of 5, so it wraps; `KEY_LIMIT` is 4
packets, so keys wear out within the bound; `CID_LIMIT` is 2, the least the RFC allows; the window
is 3 packets and a burst 2 datagrams, so probes, pacing and the record limit all bind. In the plan
`keys` the clock moves by 3 PTO at once, the time old keys are kept. `PacketBound`, `SendBound`,
`TimeBound`, `CallBound` and `MaxRetry` bound packets, datagrams, time, calls and Retries per plan.
The plans other than `crypto`, `retry` and `connect` begin with a confirmed connection (`OpenConn`).

`x509_chain`: the pool has a key rollover, a circle of two CAs, a self-issued certificate, an
expired twin, a wrong key usage and two path lengths; `MAX_VERIFY` is small enough to run out.
That the search ends is no property: its budgets make it evident. The system's store is empty in
the run and the time is one value; the theorems are about any store and any time.

Fairness. `tls_conn` assumes that a client keeps pulling into its own buffer of `CONN_TX`. The
blocking API does so after each call (`net_flush` in `os/linux_net.c` pulls until nothing comes),
and brisk.h asks it of everybody else. `Fairness` is weak fairness of `Pull(CONN_TX)` with its
ENABLED written out as `CanPull`, because TLC evaluates the operator ENABLED on this action too
slowly. `h2` and `h3` assume in `FairSpec` that a call in progress goes on: its thread runs and each
read, write or poll of the transport returns, with something, at its timeout, or with an error;
all of them have timeouts in the code. The variable `turn` changes with each turn of a call, and
weak fairness is of that change. Nothing is assumed of a server or a network anywhere. The other
modules are without fairness: nothing in them happens by itself.

## Findings

`probe_stall`: the comment in `quic/conn.c:1703` says the last two of the 32 records are the
probes', "so a full table cannot stall recovery". A PTO declares nothing lost, and a probe keeps
its record until it is acknowledged or overtaken. Two unanswered probes on a table that is full of
data therefore use both; the third is owed but `free_recs != 0` fails (conn.c:1706). If all 32
packets were lost, nothing ack-eliciting is sent any more, even when the path works again, until
the idle timeout ends the connection; and because a probe is owed, `brisk__quic_deadline`
(conn.c:1399) answers "now" to every call, so the loop in `os/linux_udp.c` polls without waiting.

`tls_alert`: `conn_flush_pend` installs the TLS 1.2 send key once the plaintext part of the flight
is pulled; the ChangeCipherSpec goes out in front of the next record. If a pull ends between the
two, because the buffer is full, and the connection then fails, the fatal alert is sealed with
that key and no ChangeCipherSpec precedes it. The server still reads in the clear and cannot
read the alert. brisk_int.h:2259 says the key is used *after the mandatory CCS*. Only the
diagnosis is lost: the connection ends on both sides. `PeerAccepts` therefore excepts this alert.

`h2_trailers`: `h2_block_end` sets the ring of a stream with malformed trailers back to `b_pre`, its
length when the HEADERS frame came. A call may time out between HEADERS and CONTINUATION, which
brisk.h calls harmless, and the application may read from the ring meanwhile. Then the ring counts
octets that were consumed and credited already, and `h2_release` credits them to the connection
again: the server may send more than "max(65535, n*W)", which the comment on `h2_credit` promises.
`CreditConserved` counts these octets in `extra` and holds otherwise.

### Observations without a run

- Cancelling a stream (`MCAbort.cfg`, property `CancelledIsReset`). The comment in
  `quic/stream.c:541` (and brisk_int.h:2815) says an abort of the sending half does nothing only
  once *every byte and the FIN* are acknowledged. The code tests `ST_FIN_ACKED`, which is set as
  soon as the packet carrying the FIN is acknowledged; an earlier packet may be unacknowledged or
  lost. Such a stream is not reset: its data is retransmitted until it is acknowledged.
- A lost part of the client flight (`MCLostFlight.cfg`, `LostFlightIsResent`). A client with a
  certificate sends its flight in several packets, then 1-RTT data that fills the window. One
  Handshake packet is lost and a later one acknowledged: loss detection gives the bytes back, but the
  window is full of 1-RTT packets, which the server cannot read without the flight and so does not
  acknowledge, and for which no probe timeout runs before HANDSHAKE_DONE (`pto_time`,
  recovery.c:608). No timer is armed: the flight waits for the idle timeout. RFC 9002 leaves the
  same gap.
- The end of the transport (`MCH2Eof.cfg`, `CompletedStaysReadable`). h2.c says "what completed
  stays readable", but `h2_wait` looks at its condition on frame boundaries only: when the transport
  ends inside a frame of another stream, `brisk_h2_response` of a stream received whole returns
  BRISK_E_IO.
- `quic/api.c` says of the blocking calls that what they give is on the wire when they return; under
  the congestion window or flow control it is not, and `brisk_quic_stream_write` does not look at
  what its last flush returned.
- `brisk_quic_stream_read` does not set `owe` when it returns a reset that frees a unidirectional
  slot: the MAX_STREAMS that follows waits for the next call.
- `brisk__quic_deadline` answers "now" while `brisk__quic_send` cannot send: a path response with
  two or fewer records free, or a probe at the end of a burst. A caller without a wait of its own
  spins until something changes.
- A key at its limit ends the connection with AEAD_LIMIT_REACHED in the next call, whatever that is:
  no deadline asks for one (`NothingOwedSleeps` excepts it).
- A stall limit that passed before the first poll of a call ends it without a look at the socket.
- A second Retry accepted by mistake would be noticed by no property here.

## Proofs

`QuicStreamsProofs.tla` says first what each operation does to one slot, then lifts
it to the table and proves the theorems. TLAPS checks them for every number of slots, ring size,
record count, limits and peer, from `TpAssumption` (what `brisk__quic_conn_init` refuses
otherwise: windows within the ring, promised streams within the slots) and `BoundsAssumption` (the
bounds are naturals).

The invariant `IInv` is what makes the properties inductive. Three facts depend on each other:

- `SlotOK` orders a slot's offsets: `rx_read <= rx_hi <= rx_max <= rx_read + QS_BUF` and
  `tx_base <= tx_next <= tx_hi <= tx_len <= tx_base + QS_BUF`. It is why ring positions are
  distinct (`AtInjective`), so that filling, draining and advancing a ring keep `RingsOK`.
- `RecordOK` ties a record to the stream it was sent for and to `tx_hi`: an acknowledgement never
  moves the prefix past what was sent. It needs that freeing a slot detaches its records.
- `Backed` is the reservation in the form the code preserves: promised minus opened streams never
  exceed the free slots. A local open keeps it by its guard, an implicit open uses as much credit
  as slots, a freed peer stream gives one of each.

Theorems: `Invariance` (`Spec => []IInv`), and from it `TypeCorrect`, `Reservation`, `Unreachable`,
`RecordsName`, `WindowsFit`, `ReceiveInOrder`, `SendRingComplete` and, of the last two, `RingsCorrect`.

The second half of the module proves the properties that add up over the slots, from a second
inductive invariant, `CInv`, that rests on the first and that TLC checked as an invariant of the run's model
before the proof. It counts per slot what the connection counts at once: the bytes of a slot that
are received and unread (their sum is `sum_rx - consumed`), the bytes charged to the peer's limit
(their sum is `sent_tx`, each byte once although lost bytes are written again), the peer's streams
that have not given their credit back, and those the application has not accepted; and it says where
everything that was sent is: acknowledged, in a record, or pending again. A stream that is promised,
open or finished moves through these counts by exactly one, which is what `PeerStreams` needs when
the two halves of a stream end in either order. Theorems: `Conserved` (`Spec => []CInv`), and from
it `FlowControl`, `PeerStreams`, `NotForgotten`, with `RecordsName` `Remembers`, and the action property
`FinalSizes`.

`SetSums.tla` has the lemmas on `SumFunctionOnSet` over finite sets that these proofs and the next
need: a sum splits at an element or at a part, changes by what one summand changes, is monotone.
The fold is defined by a recursive function with CHOOSE, over which the library has no induction
without an operator parameter; each lemma is proved by a least counterexample instead, the smallest
cardinality for which it fails.

`QuicRecoveryProofs.tla` proves all four properties of the run `recovery`, for every number of
records above two, datagram size, window, RTT estimate, backoff cap, CRYPTO length, ACK delay and
clock, and for every order of sends, acknowledgements of any packets, timers and ends of a packet
number space, from `RecoveryAssumption`. The invariant (`IInv` in QuicRecovery, which TLC checked
first on the run's model) is a conjunction of parts that need each other:

- `Booked`: a record is of a packet that was sent, at a level with keys, not after now, and carries
  CRYPTO data only if it is ack-eliciting; marks and timers are about packets that were sent. It is
  why an acknowledgement never frees a packet the same call sends, and why a probe has keys.
- `Accounted` and `AlwaysRecorded`: bytes in flight are the sum over the records. `AlwaysRecorded` is
  the reservation of conn.c: `Counts` follows the free records through the three levels of a datagram,
  so that padding the last packet, decided after all of them, still finds one.
- `Resent`: bytes counted as sent are acknowledged or in a record (`Unforgotten`). Losing records or
  acknowledging them (`LosesKeeps`) is one lemma for detect_lost and for rec_on_ack.
- `Overtaken`: an armed loss timer has a packet. detect_lost sets its level's timer anew; an
  acknowledgement frees packets of that level only.
- `Unvalidated` and `Anchored`: until the address is validated, 1-RTT packets in flight imply a
  Handshake packet in flight, and the first level with keys has a packet the probe timeout counts
  from, or the client is `Restarted` by a Retry. That ends with the next datagram, which has the
  ClientHello: with no record in use the window is open (`NothingFlies`), and all of it is to be
  sent (`SendAnchored`); the same argument starts the connection. The first is the least obvious: it holds because Finished goes before 1-RTT data in a datagram
  (`Firsts`), bytes of it that count as sent are in a record (`Resent`), and nothing of that level can
  be lost before something is acknowledged.

One lemma per operator says that it keeps these parts (`DetectKeeps`, `AckKeeps`, `TimersKeep`,
`DatagramFilled` with `DatagramRecorded`, `SendKeeps`, `EndedKeeps`), one per action that the action
does (`SendStep`, `AckStep`, ...). Theorems: `Invariance`, and from it `TypeCorrect`, `Accounts`,
`CryptoKept`, `Timers` and the action property `WindowHolds`.

`QuicAckRangesProofs.tla` proves both properties of `ack_ranges`, for every number of ranges, packets
and times. The invariant has three parts: `TypeOK`; the table (ranges apart and above the floor,
everything in them processed, everything processed in them or below the floor); and the waiting
packets (the count, the due time against the oldest of them). The one step that needs more than set
reasoning is the eviction: that a full table has a lowest range, by well-foundedness of the naturals.
`ReceiverImplemented` (`Spec => ImplementsReceiver`) shows that the initial states are the receiver's
and that each action is one of its actions or a stutter: `packet` is `Receive` when the number is new
and nothing when `rxack_dup` refuses it, `send_ack` is `Acknowledge`, which needs from the invariant
that the highest range holds the highest packet ever processed. `NoPacketTwice`, `AcksTrue`,
`RangesStayApart`, `AcksInTime` and `LargestIsAlwaysNew` are the invariant's consequences one by one.

`X509ChainProofs.tla` proves `OkIsTrusted` for every set of certificates, store, pins, clock, policy
and budgets that `ChainAssumption` allows. The invariant says what the search state means while the
search moves up and down: `chosen[0..depth-1]` is a path in which each certificate is signed by the
next, is in time and may issue with as many certificates below it as there are; `below` is their
number; a bit of `pin_mask` is set exactly for the pinned keys on the path. `DeadEnd` is the step that
needs it all: after a level is undone the shorter path has every one of these again.

`RefusedIsHopeless` is about the paths that were not taken. A shortest trusted path visits no
certificate twice (`StraightSuffices`: cutting a circle out leaves a trusted path, and every length
has a least one), so it is one the search could follow. The search visits paths in lexicographic
order: `HopeInv` says that no straight trusted path is behind it, each either agrees with `chosen` up
to where it takes a certificate that `resume` has not passed (`Ahead`), or ends at an anchor not yet
offered. Each action keeps that, and at BRISK_E_AUTH nothing is ahead (`NothingAhead`).

`TlsHandshakeProofs.tla` proves all four properties of the run `tls_handshake`: for every set of
server messages, ClientHellos, configurations, PSK suites and sizes of the queue, the buffer and
the owner's `pull`, and for every order of the owner's calls and fragmentation of the messages that
`Chunks` allows. It rests on `EngineAssumption` (the sizes are naturals, and the buffer is larger
than the largest message: `HS_IN_CAP`, `tls/handshake.c:173`, has room for a signature behind it) and `HandshakeAssumption` (messages are of the
kinds the server may send and have at least one unit; a ServerHello without the cookie extension
carries no cookie). The invariant `IInv`, which TLC checked on the run's model before the proof, says
state by state what the one variable `state` stands for:

- `Script`: the kinds of the messages in the transcript, as a function of the state, `hrr_seen`,
  `cr_seen` and `psk_ok`. It is what "each message only in its state" comes to, and from it the
  transcript at CONNECTED is one of those the two RFCs allow.
- `Flags`, `Unheard`: which version, which flags, and which messages have not come yet, so that
  "the last CertificateVerify" in `Sound` is the one hs_on_cv checked.
- `Offered`, `Retried`, `Chosen`: the offer the engine holds is the last ClientHello's; a retry asked
  for another group or gave a cookie and the second ClientHello complied; suite, group, ALPN and PSK
  are among those offered; the ServerHello of TLS 1.2 had no downgrade sentinel.
- `KeysBoundToTranscript`, `KeysAt`, `SecretsAt`: how many secrets are handed over in each state, which
  part of the transcript each covers, and which secrets are still held.
- `Certs` and `Partial`: the buffer is the Certificate message while `n_certs` points into it, then a
  beginning of one message whose units all came under the keys in use. `Partial` is not true in the
  middle of a call of `feed`, so it is no part of what the handlers keep.
- `Queued`, `SentRight`: what was pulled and what is queued is, in order, the units of the client's own
  messages in the transcript; beyond `out_split` they belong to the later epoch, and they exist only
  in states that have its keys (`Late`).

A handler (`hs_on_sh`, `t12_on_ske`, ...) has two lemmas: what it does when no rule refuses (`EeDoes`),
and that it keeps `Ready`, everything but `Partial` (`EeKeeps`); a refusal is one lemma for all
(`FailDoes`, `FallenKeeps`). `DispatchKeeps` joins them, `TakeKeeps` adds the storing of a piece and
what stays in the buffer, and `TurnsKeep` follows the loop of `feed` over its units (`hs_turns` is a
recursive function over the pieces, so the argument is again a least counterexample: the first turn
after which `Between`, the invariant of the loop, would fail). `StepKeeps` has one case per action.
Theorems: `EngineInvariant`, and from it `ConnectedSoundHolds`, `SecretsInStepHolds`,
`ReassemblySoundHolds`, `FlightInOrderHolds`.

`H2Frames.tla` (what the handlers of frames keep) and `H2Proofs.tla` (the calls and the theorems)
prove five of the six safety properties of the run `h2`, for every number of
slots, window, queue, limit, plan and frame, and every way the transport cuts, ends and fails. They
rest on three assumptions. `H2Assumption` has the sizes: a connection window that fits 31 bits, no
more slots than half a window has octets (brisk_config.h: at most 64 slots, windows of at least
1024), four frames of reserve (`H2_RESERVE`), and a queue for four frames per slot above it (64
slots, 13 octets a frame: 3328 of the 4096 octets of `BRISK__H2_TX` in brisk_int.h). `HpackAssumption` and
`PlansAssumption` say what lengths, representations and frames are. The invariant `IInv`, which TLC checked on the run's model before the proof, has
these parts:

- `Kept` holds of failed connections too: types, no overrun of the queue or of a ring, nothing
  illegal on the wire, nothing false told to the application. Everything else is about a connection
  without an error.
- `Conn`: two slots never have one stream (`Distinct`), streams not opened yet have no history
  (`Fresh`), a stream that is open has a slot or both its ends (`Concluded`), the connection's window,
  the octets to credit and those held in rings add up to what was advertised (`Sum`, with `SetSums`),
  what a DATA frame and a header block in progress mean for their stream (`Taking`, `InBlock`), what
  GOAWAY and REFUSED_STREAM said (`Told`), and what the server believes of our table (`Encoding`).
- `SlotOK`, per slot: `Closing` ties the flags to what was sent and received, `Counting` the window,
  the ring, the octets read and the content-length to each other, `Granted` the send window to the
  server's updates. Both are stated with the part of a DATA frame still to come (`Part`), since a call
  may time out in the middle of one.
- `Owing`: no WINDOW_UPDATE that is due is left out, except on the slot a step is working on. At the
  end of a step there is none, which is `NeverStarved`.
- `Queue`, with `Potential`: the least obvious part. `brisk_h2_read` queues WINDOW_UPDATEs and does not
  flush, so nothing in the call bounds the queue. What does is that an update needs half a window of
  octets: the frames in the queue, each counted as half a window, and the octets that reads can
  still turn into updates together never exceed two windows per slot plus half a window (`Room`). A read moves
  octets from one side to the other; only a flush makes room for new ones. With N at most half a
  window that is less than the queue holds.

Each handler has a lemma that it keeps `Good`, the invariant in the middle of a step (`StartDone`,
`EndDone`, ...); most change one slot, and `OneSlot`, `OneSlotPaid` lift what is shown of that slot to the
connection. `CallStep` and `AppStep` put them together, one case per action, and `NextKeeps` joins
them. Theorems: `InvariantHolds`, and from it `CreditIsConserved`, `ServerIsNeverStarved`,
`EndMeansWhole`, `RequestsAreConcluded`, `WireIsLegal`. `TableInSync` stays with TLC: both tables are
computed by recursion over the representations of a block, which is induction over data.

TlsConn, H3, QuicClient and QuicUdp are model-checked only: their sizes would need proofs as long as
that of H2, and none of their properties follows from those proved here. TlsConn uses the
same engine operators as TlsHandshake, so a proof can start from the lemmas of TlsHandshakeProofs.
Liveness (`OwedIsSent`, `CallsReturn`) stays with TLC because the prover cannot state it: fairness
is defined with ENABLED.

## Plan

| | Module | Content | Checks | Theorems |
|---|---|---|---|---|
| done | QuicStreams | stream layer | 1 run | two invariants, every property of the run |
| done | QuicAckRanges, AckReceiver | received ranges, ACK timer | 1 run, refinement | invariant, refinement |
| done | QuicRecovery | records, loss, PTO, congestion | 2 runs | invariant, every property of the run |
| done | TlsEngine, TlsHandshake | the handshake engine of both versions | 1 run | invariant, every property of the run |
| done | TlsConn | record layer and connection around TlsEngine | 2 runs, fairness of pulling | planned: `AppDelivered` |
| done | QuicConn, QuicClient, QuicUdp | the connection, a lossy network, the blocking driver | 1 run | planned: `CidsAccounted` |
| done | Hpack, H2 | HTTP/2 | 2 runs, liveness of calls | invariant, every safety property of the run but `TableInSync` |
| done | Qpack, H3 | HTTP/3 | 1 run, liveness of calls | |
| done | X509Chain | path building | 1 run | invariant, both properties of the run |
| next | QuicTransfer | QuicStreams and an honest peer over a lossy network, refining a reliable byte stream | refinement, liveness under fair delivery and retransmission | steps map to steps |
| next | smaller parts | the loops of `os/linux_net.c`, tickets, random source | the deadlines of the loops | |

## Not modelled

PROJECT.json has each part with its reason. The blocking TCP transport (`os/linux_net.c`) is the
largest that could be: it is the UDP loop over another connection, without a deadline of the
protocol. Bytes on the wire, cryptographic functions, DER, names, PEM, text parsers and tickets
have no state to explore and are tested by vectors in the repository. Left to TLC because the prover
cannot state them: liveness under fairness and ENABLED; what a recursive definition computes for
every input.
