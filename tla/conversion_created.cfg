SPECIFICATION Spec
CONSTANTS
    Fields <- VPCOnly
    Ids = {"i1"}
    Names = {"n1"}
    Extras = {"e1"}
PROPERTY ControllerCreatedDecides
