SPECIFICATION MCSpec
CONSTANTS
    QS_N = 3
    QS_BUF = 4
    QUIC_SENT = 5
    my_tp <- MC_my
    peer_tp <- MC_peer
    Indexes = {0, 1}
    Offsets = {0, 2, 4, 5}
    Chunks = {0, 1, 2, 4}
    Rooms = {2, 3}
    MaxTxLen = 5
    MaxPn = 5
    Plans = {"slots", "late", "send", "recv"}
    PlanPn <- MC_pns
INVARIANTS ReservationHolds PeerStreamsKept SentIsRemembered RingsInOrder FlowControlKept
PROPERTY FinalSizesFixed
CHECK_DEADLOCK FALSE
