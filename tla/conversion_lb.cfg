SPECIFICATION Spec
CONSTANTS
    Fields <- LoadBalancerOnly
    Ids = {"i1"}
    Names = {"n1"}
    Extras = {"e1"}
PROPERTY LoadBalancerByIDKept
