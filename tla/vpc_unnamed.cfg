CONSTANTS
    Specs <- SpecsDef
    Zone <- ZoneDef
    ZoneSubnets <- ZoneSubnetsDef
    Groups = {"g"}
    LoadBalancers <- LoadBalancersDef
    MaxCopies = 3
    MayPause = FALSE
    MayDelete = FALSE
    FaultKinds = {"api", "lost", "busy", "patch", "crash"}
    MaxFaults = 1
SPECIFICATION FairSpec
PROPERTY ReadyAfterFaults
