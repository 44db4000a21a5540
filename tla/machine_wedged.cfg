CONSTANTS
    Machines = {"cp"}
    Pools <- TwoPools
    Ignition = TRUE
    MayDelete = {"cp"}
    MaxBirths = 2
    MaxInstances = 2
    FaultKinds = {}
    MaxFaults = 0
SPECIFICATION FairSpec
PROPERTIES UnknownIsTransient
