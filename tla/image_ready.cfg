CONSTANTS
    Images <- TwoImages
    ByID = {}
    Labelled = {"b"}
    Retain = {"b"}
    MayDelete = {}
    MaxJobs = 4
    FaultKinds = {}
    MaxFaults = 1
SPECIFICATION Spec
INVARIANT ReadyMeansActive
