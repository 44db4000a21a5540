CONSTANTS
    Specs <- AllSpecs
    MayDelete = TRUE
    MayPause = TRUE
    FaultKinds = {"api", "lost", "patch", "crash", "cloud"}
    MaxFaults = 1
    MaxInstances = 2
    MaxVolumes = 4
SPECIFICATION FairSpec
INVARIANTS ServesBeforeReady NothingRecordedLeft
PROPERTIES ProviderOutlivesInstance EventuallyReady DeletionCompletes
