CONSTANTS
    N = 2
    Events = {"intr"}
    Exits = {"x_ioapic", "x_hlt", "x_user"}
    Reasons = {"RESET"}
SPECIFICATION Spec
PROPERTIES SuspendExits ImplementsRendezvous PendingWakes
