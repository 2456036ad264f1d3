CONSTANTS
    NumProfiles = 2
    DefaultRoute = {1, 2}
    MaxRetries = 1
    AutoReconnect = TRUE
    Keys = {"toggle", "cancel"}
    MaxUser = 3
    Faults = {}
    MaxEnv = 0
SPECIFICATION Spec
INVARIANT SingleDefaultRoute
