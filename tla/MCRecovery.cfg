CONSTANTS
    SENT = 5
    MDS = 2
    CWND0 = 4
    RTT0 = 0
    RTTVAR0 = 0
    PTO_CAP = 2
    MAD = 0
    RANGES = 2
    INT64_MAX = 40
    Sizes = {1}
    Crypto <- Crypto_values
    Delays = {0}
    MaxPn <- MaxPn_values
    MaxTime = 5
SPECIFICATION MCSpec
INVARIANTS FlightAccounted CryptoNotForgotten TimersHaveWork
PROPERTIES WindowRespected
CHECK_DEADLOCK FALSE
