CONSTANTS
    Images <- TwoImages
    ByID = {"b"}
    Labelled = {"b"}
    Retain = {"b"}
    MayDelete = {"a"}
    MaxJobs = 4
    FaultKinds = {"api", "lost", "nil", "patch", "crash", "fail"}
    MaxFaults = 1
SPECIFICATION FairSpec
PROPERTIES EventuallyActive DeletionCompletes
