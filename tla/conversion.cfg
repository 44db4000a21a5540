SPECIFICATION Spec
CONSTANTS
    Fields <- AllFields
    Ids = {"i1", "i2"}
    Names = {"n1", "n2"}
    Extras = {"e1"}
PROPERTIES NoDrift ReferenceByIDKept
