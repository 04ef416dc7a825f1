SPECIFICATION Spec
CONSTANTS
    OUT_MAX = 5
    MAX_MSG = 3
    IN_CAP = 4
    Cfgs <- MCCfgs
    Hellos <- MCHellos
    Psks = {"chacha13"}
    Messages <- MCMessages
    Followers <- MCFollowers
    Caps = {9}
INVARIANTS ConnectedSound SecretsInStep ReassemblySound FlightInOrder
