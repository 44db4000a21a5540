CONSTANTS
    Topology = "LoadBalancer"
    Subnets <- OneSubnet
    SecurityGroups <- OneGroup
    LoadBalancers <- OneLB
    Referenced <- AllButCOS
    HasCOS = TRUE
    UnnamedLBs = {}
    PrivateLBs = {}
    Preexisting = {}
    Images = {}
    OwnedImages = {}
    MayDelete = FALSE
    FaultKinds = {"patch"}
    MaxFaults = 1
SPECIFICATION FairSpec
PROPERTIES EventuallyProvisioned
