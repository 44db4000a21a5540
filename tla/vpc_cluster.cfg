CONSTANTS
    Specs <- AllSpecs
    MayDelete = TRUE
    MayPause = TRUE
    FaultKinds = {"api", "lost", "patch", "crash", "cloud"}
    MaxFaults = 2
SPECIFICATION FairSpec
INVARIANTS LoadBalancerFirst
PROPERTIES EndpointIsStable NothingLeftOnceWaited DeletionCompletes
