CONSTANTS
    Specs <- PortlessLists
    CIDR <- CIDRDef
    Names <- NamesDef
    MaxRules = 7
    FaultKinds = {}
    MaxFaults = 0
SPECIFICATION Spec
PROPERTY EveryGroupSettles
