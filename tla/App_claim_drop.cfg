CONSTANTS
    NumProfiles = 2
    DefaultRoute = {1, 2}
    MaxRetries = 1
    AutoReconnect = TRUE
    Keys = {"toggle"}
    MaxUser = 1
    Faults = {}
    MaxEnv = 0
SPECIFICATION Spec
PROPERTY DropIsReal
