CONSTANTS
    N = 3
    Events = {}
    Exits = {"x_ioapic", "x_user"}
    Reasons = {"RESET"}
SPECIFICATION Safety
INVARIANTS TypeOK RendezvousSync LeaveTogether CleanExit
