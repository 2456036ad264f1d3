CONSTANTS
    c1 = c1
    c2 = c2
    wg = wg
    ovpn = ovpn
    Procs = {c1, c2}
    w1 = w1
    Workers = {w1}
    Free = Free
    Profiles = {wg, ovpn}
    OpenVpn = {ovpn}
    Clash <- BothClash
    Commands = {"up", "upYes", "down", "reconnect"}
    Faults = {"tui", "hang", "drop", "fail"}
SPECIFICATION Spec
INVARIANT OneEach
