CONSTANTS
    Topology = "LoadBalancer"
    Subnets <- OneSubnet
    SecurityGroups <- NoList
    LoadBalancers <- OneLB
    Referenced <- UserGateway
    HasCOS = FALSE
    UnnamedLBs = {}
    PrivateLBs = {}
    Preexisting = {}
    Images = {}
    OwnedImages = {}
    MayDelete = TRUE
    FaultKinds = {"api", "lost", "patch", "crash", "fail"}
    MaxFaults = 1
SPECIFICATION FairSpec
PROPERTIES EventuallyProvisioned DeletionCompletes
