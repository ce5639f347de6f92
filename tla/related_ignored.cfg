SPECIFICATION Spec
\* Two messages, codes and devices, two drains of two events.
CONSTANTS
    Parts = {"related"}
    Sends = {"s"}
    Backlog = 2
    Upsets = 2
    EditCount = 1
    RefIds = 2
    Troubles = 2
    Texts = {"m"}
    Cuts = 2
    Timeouts = 1
    Name = {"m", "n"}
    Forks = 1
    Faults = 2
    Restarts = 1
    Changes = 3
    Attempts = 3
    Drains = 2
    Events = 2
    BadWrites = 1
INVARIANTS RelatedReachesAll
CHECK_DEADLOCK FALSE
