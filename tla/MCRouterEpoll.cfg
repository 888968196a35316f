CONSTANTS
    Ports = {0, 1, 2, 3}
    MinPort = 2
    DefPort = 4
    Cores = 2
    Asks <- MCAsks
    Lowest <- MCLowest
    Highest <- MCHighest
    Defaults <- MCDefaults
    MaxChanges = 2
    MaxListens = 2
SPECIFICATION Spec
INVARIANTS NothingLeftOpen ConfigurationHolds
PROPERTIES StopIsFollowed
CHECK_DEADLOCK FALSE
