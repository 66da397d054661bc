SPECIFICATION MCSpec
CONSTANTS
    Settings = {"shared"}
    Vcpus = {0, 1}
    Pins = {10}
    IoVectors = {33}
    MsiVectors = {}
    Dests <- MCDests
    Tprs = {0}
    Sharers = 1
    MaskFirst = FALSE
INVARIANT RemoteIrr
