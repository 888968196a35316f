CONSTANTS
    Requests = {r1, r2, r3, r4}
    Threads = 2
    Keys = {0, 2}
    MaxTime = 7
    Versions <- MCVersions
    SizeOf <- MCSizeOf
    MTimeOf <- MCMTimeOf
    Registrations <- MCRegistrations
    Chains <- MCChains
    Programs <- MCPrograms
    Asked <- MCAsked
    FirstDisk <- MCFirstDisk
    MaxRoutes = 2
    MaxRequests = 2
    MaxDeploys = 1
SPECIFICATION MCSpec
SYMMETRY Symmetry
INVARIANTS
    StaticIsFallback
CHECK_DEADLOCK FALSE
