CONSTANTS
    Machines = {"cp"}
    Pools <- TwoPools
    Ignition = TRUE
    MayDelete = {"cp", "image"}
    MaxBirths = 2
    MaxInstances = 4
    FaultKinds = {"api", "lost", "late", "patch", "crash", "fail", "stop"}
    MaxFaults = 1
SPECIFICATION FairSpec
INVARIANTS OneInstance AddressIsOwn ReadyIsRegistered
PROPERTIES DeletesWhatItRecorded EventuallyServing DeletionCompletes
