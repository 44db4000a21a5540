CONSTANTS
    Topology = "LoadBalancer"
    Subnets <- OneSubnet
    SecurityGroups <- OneGroup
    LoadBalancers <- OneLB
    Referenced <- OnlyGroup
    HasCOS = TRUE
    UnnamedLBs = {}
    PrivateLBs = {}
    Preexisting = {}
    Images = {"img0"}
    OwnedImages = {"img0"}
    MayDelete = TRUE
    FaultKinds = {"patch", "lost", "crash"}
    MaxFaults = 1
SPECIFICATION Spec
INVARIANTS NoRefusedDelete NoDuplicates ReadyIsBacked ProvisionedMeansReady
PROPERTIES NeverForgetsLive ImplementsContract
