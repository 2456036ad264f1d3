SPECIFICATION Spec
CONSTANTS
    t1 = t1
    t2 = t2
    Tunnels = {t1, t2}
    Backend = "nftables"
    Faults = {"external", "enable", "remove", "record", "crash", "unprivileged"}
INVARIANT TypeOK
INVARIANT EngagedIsRecorded
INVARIANT NotBlockingIsOpen
INVARIANT BlockingIsEnforced
INVARIANT NoStaleAccept
PROPERTY AutoEngagesOnlyOnDrop
