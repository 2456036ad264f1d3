CONSTANTS
    a = a
    b = b
    x = x
    p = p
    q = q
    Conns = {a, b, x}
    Foreign = {x}
    Profiles = {p, q}
    Ovpn = {q}
    NoProfile = NoProfile
    Unknown = Unknown
    NoAnswer = NoAnswer
    Faults = {"gone", "upFails", "downFails", "drop"}
    MaxRequests <- RequestBudget
SPECIFICATION FairSpec
INVARIANTS TypeOK SnapshotHolds JournalCoversKernel
PROPERTIES EveryRequestIsTaken ServiceKept
CHECK_DEADLOCK FALSE
