SPECIFICATION DriverSpec
CONSTANTS
    RING = 4
    FLIGHT <- MCFlight
    CIDS = 4
    RETIRE = 8
    CID_LIMIT = 2
    SENT = 5
    WINDOW = 3
    BURST = 2
    KEY_LIMIT = 4
    KEY_SOFT = 2
    PTO = 1
    MAX_DELAY = 1
    IDLE = 7
    NEVER = 99
    Plans = {"crypto", "retry", "keys", "cids", "wake", "connect", "udp"}
    PacketBound <- MCPackets
    SendBound <- MCSends
    TimeBound <- MCTime
    TimeStep <- MCStep
    MaxRetry = 2
    DRAIN = 2
    TIMEOUT = 2
    CallBound = 2
INVARIANTS PeerUnderstood PeerCanOpen CidsAccounted CloseReadable NothingOwedSleeps TimeoutIsTrue ServerTold
CHECK_DEADLOCK FALSE
