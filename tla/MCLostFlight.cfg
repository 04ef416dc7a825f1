CONSTANTS
    SENT = 7
    MDS = 2
    CWND0 = 4
    RTT0 = 0
    RTTVAR0 = 0
    PTO_CAP = 2
    MAD = 0
    RANGES = 2
    INT64_MAX = 40
    Sizes = {1}
    Crypto <- Crypto_flight
    Delays = {0}
    MaxPn <- MaxPn_flight
    MaxTime = 5
SPECIFICATION FlightSpec
INVARIANT LostFlightIsResent
CHECK_DEADLOCK FALSE
