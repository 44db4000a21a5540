CONSTANTS
    Specs <- PooledOnly
    MayDelete = FALSE
    MayPause = FALSE
    FaultKinds = {}
    MaxFaults = 0
    MaxInstances = 2
    MaxVolumes = 4
SPECIFICATION Spec
INVARIANT ReadyHasAddress
