CONSTANTS
    Specs <- AllLists
    CIDR <- CIDRDef
    Names <- NamesDef
    MaxRules = 7
    FaultKinds = {"api", "lost", "crash"}
    MaxFaults = 3
SPECIFICATION Spec
INVARIANTS RulesStand
PROPERTIES Settles
