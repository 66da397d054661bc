SPECIFICATION MCSpec
CONSTANTS
    Settings = {"shared", "nested"}
    Vcpus = {0, 1}
    Pins = {10, 11}
    IoVectors = {33}
    MsiVectors = {49}
    Dests <- MCDests
    Tprs = {0, 32}
    Sharers = 2
    MaskFirst = TRUE
INVARIANT NoLostLevel
INVARIANT TmrCurrent
INVARIANT RemoteIrr
INVARIANT IsrStack
PROPERTY SentAsLevel
