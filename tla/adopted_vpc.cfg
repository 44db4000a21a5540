CONSTANTS
    Topology = "LoadBalancer"
    Subnets <- OneSubnet
    SecurityGroups <- OneGroup
    LoadBalancers <- OneLB
    Referenced <- OnlyGroup
    HasCOS = FALSE
    UnnamedLBs = {}
    PrivateLBs = {}
    Preexisting = {"vpc"}
    Images = {}
    OwnedImages = {}
    MayDelete = TRUE
    FaultKinds = {}
    MaxFaults = 0
SPECIFICATION Spec
PROPERTIES DeletesOnlyCreated
