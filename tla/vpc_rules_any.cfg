CONSTANTS
    Specs <- ShadowLists
    CIDR <- CIDRDef
    Names <- NamesDef
    MaxRules = 7
    FaultKinds = {}
    MaxFaults = 0
SPECIFICATION Spec
INVARIANT EveryRuleStands
