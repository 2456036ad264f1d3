CONSTANTS
    NumProfiles = 2
    DefaultRoute = {1, 2}
    MaxRetries = 1
    AutoReconnect = TRUE
    Keys <- AllKeys
    MaxUser = 3
    Faults <- QuickFaults
    MaxEnv = 1
SPECIFICATION Spec
INVARIANTS TypeOK PrimaryIsUp ConnectingHasJob
PROPERTY NoSilentTakeover
