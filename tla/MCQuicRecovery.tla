--------------------------- MODULE MCQuicRecovery ---------------------------
(* Small instances of QuicRecovery: values of the constants that are        *)
(* functions, named in the configurations, and two more initial states.      *)
EXTENDS QuicRecovery, TLC

\* Handshake: two bytes of ClientHello, one of Finished.
Crypto_values == 0 :> 2 @@ 1 :> 1
MaxPn_values == 0 :> 3 @@ 1 :> 2 @@ 2 :> 6

\* A connection whose handshake, with more Initial packets than the bound above, is confirmed
\* and whose handshake packets are all acknowledged, the last within a millisecond.
Confirmed ==
    /\ rec = [rec_init EXCEPT !.hs_acked = TRUE, !.has_sample = TRUE, !.first_sample_t = 0,
                              !.srtt = 0, !.rttvar = 0,
                              !.largest_acked = [l \in Lvls |-> IF l = 2 THEN NONE ELSE 3]]
    /\ probe = [l \in Lvls |-> 0]
    /\ ret_sent = [l \in {0, 1} |-> 0] /\ ret_len = [l \in {0, 1} |-> 0]
    /\ tx = {2} /\ established = TRUE /\ confirmed = TRUE
    /\ opened = TRUE /\ retry_done = FALSE
    /\ tx_pn = [l \in Lvls |-> IF l = 2 THEN 0 ELSE 4] /\ now = 1
    /\ crypto_acked = [l \in Lvls |-> {}] /\ unrecorded = FALSE

\* The same two milliseconds later if nothing came back: three packets and their probe are in
\* flight, and a second probe is owed since a datagram without ACK ran the timers.
Silence ==
    LET packet(n, at) == [lvl |-> 2, pn |-> n, t |-> at, size |-> 1, elicit |-> TRUE,
                          off |-> 0, len |-> 0]
    IN  /\ rec = [rec_init EXCEPT !.hs_acked = TRUE, !.has_sample = TRUE, !.first_sample_t = 0,
                      !.srtt = 0, !.rttvar = 0, !.in_flight = 4, !.pto_count = 2,
                      !.largest_acked = [l \in Lvls |-> IF l = 2 THEN NONE ELSE 4],
                      !.last_elicit[2] = 1,
                      !.s = [i \in Slots |-> IF i < 4 THEN packet(i - 1, 0)
                                             ELSE IF i = 4 THEN packet(3, 1) ELSE Free]]
        /\ probe = [l \in Lvls |-> IF l = 2 THEN 1 ELSE 0]
        /\ ret_sent = [l \in {0, 1} |-> 0] /\ ret_len = [l \in {0, 1} |-> 0]
        /\ tx = {2} /\ established = TRUE /\ confirmed = TRUE
        /\ opened = TRUE /\ retry_done = FALSE
        /\ tx_pn = [l \in Lvls |-> IF l = 2 THEN 4 ELSE 5] /\ now = 3
        /\ crypto_acked = [l \in Lvls |-> {}] /\ unrecorded = FALSE

\* From Init, no 1-RTT packet and fewer milliseconds, fewest after a Retry; from Confirmed, no
\* more packets than milliseconds have passed.
Bound ==
    /\ tx_pn[0] <= 3 => tx_pn[2] = 0 /\ now <= 3
    /\ retry_done => now <= 1
    /\ tx_pn[0] = 4 => tx_pn[2] <= now

MCSpec == (Init \/ Confirmed \/ Silence) /\ [][Next /\ Bound']_vars

\* A confirmed connection on a path that may lose everything.
ProbeSpec == Confirmed /\ [][Next]_vars

\* A client whose flight takes two packets sends 1-RTT data behind the first of them; the server
\* has the second.
Crypto_flight == 0 :> 2 @@ 1 :> 2
MaxPn_flight == 0 :> 1 @@ 1 :> 3 @@ 2 :> 3
Flight ==
    /\ rec = [rec_init EXCEPT !.has_sample = TRUE, !.first_sample_t = 0, !.srtt = 0, !.rttvar = 0,
                              !.last_elicit[1] = 0]
    /\ probe = [l \in Lvls |-> 0]
    /\ ret_sent = [l \in {0, 1} |-> 0] /\ ret_len = [l \in {0, 1} |-> IF l = 1 THEN 2 ELSE 0]
    /\ tx = {1, 2} /\ established = TRUE /\ confirmed = FALSE
    /\ opened = TRUE /\ retry_done = FALSE
    /\ tx_pn = [l \in Lvls |-> IF l = 2 THEN 0 ELSE 1] /\ now = 0
    /\ crypto_acked = [l \in Lvls |-> {}] /\ unrecorded = FALSE
FlightSpec == Flight /\ [][Next]_vars

\* Lost handshake data can be sent now, or a timer will make it so: false once 1-RTT packets fill
\* the window, for which no probe timeout runs before HANDSHAKE_DONE (pto_time).
LostFlightIsResent ==
    \A l \in {0, 1} : l \in tx /\ ret_sent[l] < ret_len[l] =>
        can_send(rec) \/ probe[l] # 0 \/ rec_deadline(rec) # INT64_MAX
=============================================================================
