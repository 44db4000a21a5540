CONSTANTS
    Images <- TwoImages
    ByID = {}
    Labelled = {"b"}
    Retain = {"b"}
    MayDelete = {"a", "b", "cluster"}
    MaxJobs = 4
    FaultKinds = {"api", "lost", "patch", "crash", "fail"}
    MaxFaults = 1
SPECIFICATION Spec
INVARIANTS OneImportAtATime ActiveIsReal
PROPERTIES NoStrandedImport
