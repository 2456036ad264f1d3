CONSTANTS
    NumProfiles = 2
    DefaultRoute = {1}
    MaxRetries = 1
    AutoReconnect = TRUE
    Keys <- NoSwitch
    MaxUser = 2
    Faults = {"linger", "stuck", "drop"}
    MaxEnv = 1
SPECIFICATION FairSpec
PROPERTIES ConnectEnds QueueDrains TeardownEnds GhostIsNoticed
