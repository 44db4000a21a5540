CONSTANTS
    Specs <- StorageOnly
    MayDelete = FALSE
    MayPause = FALSE
    FaultKinds = {"api"}
    MaxFaults = 1
    MaxInstances = 2
    MaxVolumes = 4
SPECIFICATION FairSpec
PROPERTY ReadyAfterFaults
