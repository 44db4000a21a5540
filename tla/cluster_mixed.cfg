CONSTANTS
    Topology = "LoadBalancer"
    Subnets <- TwoSubnets
    SecurityGroups <- TwoGroups
    LoadBalancers <- TwoLBs
    Referenced <- MixedReferences
    HasCOS = TRUE
    UnnamedLBs = {"lb1"}
    PrivateLBs = {"lb1"}
    Preexisting = {}
    Images = {}
    OwnedImages = {}
    MayDelete = TRUE
    FaultKinds = {"api", "lost", "patch", "crash", "vanish", "pause"}
    MaxFaults = 1
SPECIFICATION Spec
INVARIANTS TypeOK NoForeignDelete
