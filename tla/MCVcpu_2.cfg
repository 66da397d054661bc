CONSTANTS
    N = 2
    Events = {"nmi", "intr"}
    Exits = {"x_hlt", "x_ioapic", "x_user", "x_other"}
    Reasons = {"RESET", "TRIPLEFAULT"}
SPECIFICATION Safety
INVARIANTS IInv HaltedInHlt
PROPERTY LegalTransitions
