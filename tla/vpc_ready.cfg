CONSTANTS
    Specs <- GivenOnly
    MayDelete = FALSE
    MayPause = FALSE
    FaultKinds = {"api"}
    MaxFaults = 1
SPECIFICATION Spec
INVARIANT ReadyMeansRecorded
