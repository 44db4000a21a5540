---------------------------- MODULE MCConversion -----------------------------
(***************************************************************************)
(* Instances of Conversion for TLC: every field, the VPC and the load       *)
(* balancer alone.                                                         *)
(***************************************************************************)
EXTENDS Conversion

VPCOnly == {<<"cluster", "vpc">>}
LoadBalancerOnly == {<<"cluster", "loadBalancer">>}
=============================================================================
