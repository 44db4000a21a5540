CONSTANTS
    Machines = {"cp"}
    Pools <- TwoPools
    Ignition = TRUE
    MayDelete = {"cp"}
    MaxBirths = 1
    MaxInstances = 2
    FaultKinds = {}
    MaxFaults = 0
SPECIFICATION Spec
PROPERTIES NoLeak
