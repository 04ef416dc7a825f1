SPECIFICATION Spec
CONSTANTS
    MAX_CHAIN = 3
    MAX_VERIFY = 6
    MAX_LOOKUPS = 4
    MAX_ANCHORS = 2
    TIME_POLICY = "floor"
    TIME_FLOOR = 2
    NoName = ""
    Cert <- MCCert
    Inputs <- MCInputs
INVARIANTS OkIsTrusted AuthIsHopeless
CHECK_DEADLOCK FALSE
