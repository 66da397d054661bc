CONSTANTS
    N = 1
    Events = {"intr"}
    Exits = {"x_hlt"}
    Reasons = {}
SPECIFICATION Safety
INVARIANT NoMissedWakeup
