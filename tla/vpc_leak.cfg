CONSTANTS
    Specs <- ManagedOnly
    MayDelete = TRUE
    MayPause = FALSE
    FaultKinds = {}
    MaxFaults = 0
SPECIFICATION Spec
INVARIANT NothingLeft
