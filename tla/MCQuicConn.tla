----------------------------- MODULE MCQuicConn -----------------------------
(* The QUIC connection on small instances: see QuicClient and QuicUdp for the plans. *)
EXTENDS QuicUdp

MCFlight == [l \in 0..2 |-> CASE l = 0 -> 3 [] l = 1 -> 5 [] l = 2 -> 1]
MCPackets == [crypto |-> 5, retry |-> 5, keys |-> 2, cids |-> 3, wake |-> 2, connect |-> 3, udp |-> 2]
MCSends == [crypto |-> 3, retry |-> 4, keys |-> 3, cids |-> 3, wake |-> 2, connect |-> 3, udp |-> 3]
MCTime == [crypto |-> 0, retry |-> 0, keys |-> 3, cids |-> 0, wake |-> 2, connect |-> 2, udp |-> 2]
MCStep == [crypto |-> 1, retry |-> 1, keys |-> 3, cids |-> 1, wake |-> 1, connect |-> 1, udp |-> 1]
=============================================================================
