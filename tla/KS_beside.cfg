SPECIFICATION Spec
CONSTANTS
    t1 = t1
    t2 = t2
    Tunnels = {t1, t2}
    Backend = "iptables"
    Faults = {"beside", "enable", "unprivileged"}
SYMMETRY Symmetry
INVARIANT ModeStateCoherent
PROPERTY ArmedDropBlocks
