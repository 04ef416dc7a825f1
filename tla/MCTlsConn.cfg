SPECIFICATION Spec
CONSTANTS
    OUT_MAX = 5
    MAX_MSG = 3
    IN_CAP = 4
    Handshakes <- MCHandshakes
    Posts <- MCPosts
    Strays <- MCStrays
    Caps = {2, 3}
    CONN_TX = 12
    MAX_PLAIN = 2
    TLS_REKEY_SEQ = 2
    REC_MAX_UPDATES = 1
    MaxRx = 4
    MaxExtra = 2
INVARIANTS NextRecordOpens SendSideInStep AppDelivered
PROPERTY OwedIsSent
CHECK_DEADLOCK FALSE
