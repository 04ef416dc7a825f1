CONSTANTS
    SENT = 3
    MDS = 2
    CWND0 = 4
    RTT0 = 0
    RTTVAR0 = 0
    PTO_CAP = 3
    MAD = 0
    RANGES = 2
    INT64_MAX = 40
    Sizes = {1}
    Crypto <- Crypto_values
    Delays = {0}
    MaxPn <- MaxPn_values
    MaxTime = 9
SPECIFICATION ProbeSpec
INVARIANT ProbeHasRecord
CHECK_DEADLOCK FALSE
