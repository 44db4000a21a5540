CONSTANTS
    Specs <- SpecsDef
    Zone <- ZoneDef
    ZoneSubnets <- ZoneSubnetsDef
    Groups = {"g"}
    LoadBalancers <- LoadBalancersDef
    MaxCopies = 3
    MayPause = TRUE
    MayDelete = TRUE
    FaultKinds = {"api", "lost", "busy", "patch", "crash"}
    MaxFaults = 2
SPECIFICATION FairSpec
INVARIANTS OneNetwork SpansControlPlane
PROPERTIES ReadyIsComplete EventuallyReady
