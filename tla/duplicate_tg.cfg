CONSTANTS
    Topology = "LoadBalancer"
    Subnets <- OneSubnet
    SecurityGroups <- OneGroup
    LoadBalancers <- OneLB
    Referenced <- OnlyGatewayOwn
    HasCOS = FALSE
    UnnamedLBs = {}
    PrivateLBs = {}
    Preexisting = {}
    Images = {}
    OwnedImages = {}
    MayDelete = TRUE
    FaultKinds = {"api", "patch"}
    MaxFaults = 2
SPECIFICATION Spec
INVARIANTS NoDuplicates
