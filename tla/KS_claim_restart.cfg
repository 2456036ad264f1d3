SPECIFICATION Spec
CONSTANTS
    t1 = t1
    t2 = t2
    Tunnels = {t1, t2}
    Backend = "iptables"
    Faults = {"external"}
PROPERTY RulesSurviveRestart
