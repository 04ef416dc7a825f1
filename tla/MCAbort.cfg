CONSTANTS
    QS_N = 1
    QS_BUF = 2
    QUIC_SENT = 2
    my_tp <- Abort_my
    peer_tp <- Abort_peer
    Indexes = {0}
    Offsets = {0}
    Chunks = {1}
    Rooms = {2}
    MaxTxLen = 2
    MaxPn = 4
    Plans = {"abort"}
    PlanPn <- MC_pns
SPECIFICATION AbortSpec
INVARIANT CancelledIsReset
CHECK_DEADLOCK FALSE
