SPECIFICATION KeysSpec
CONSTANTS
    Server = {"p1", "p2"}
    MaxPairs = 3
INVARIANTS KeysTypeOK HalvesMatch SettledAccepted
