--------------------------- MODULE MCVPCClusterV2 ----------------------------
(***************************************************************************)
(* Instances of VPCClusterV2 for TLC: two subnets in one zone that both    *)
(* planes share in part, a group or none, and a private and a public load  *)
(* balancer.                                                               *)
(***************************************************************************)
EXTENDS VPCClusterV2

ZoneDef == [s \in {"s1", "s2"} |-> "z"]
ZoneSubnetsDef == <<"s1">>
LoadBalancersDef == <<"private", "public">>

Spec1 == [vpc |-> "unnamed", image |-> "name", control |-> <<>>, worker |-> <<"s1", "s2">>,
          groups |-> <<"g">>, lbSubnets |-> {}, lbGroups |-> {"g"}, public |-> {"public"}, existing |-> {}]
Spec2 == [vpc |-> "name", image |-> "unnamed", control |-> <<"s2">>, worker |-> <<>>,
          groups |-> <<"g">>, lbSubnets |-> {"s1"}, lbGroups |-> {}, public |-> {"public"}, existing |-> {}]
Spec3 == [vpc |-> "given", image |-> "none", control |-> <<>>, worker |-> <<>>,
          groups |-> <<>>, lbSubnets |-> {}, lbGroups |-> {}, public |-> {}, existing |-> {"s1", "private"}]
SpecsDef == {Spec1, Spec2, Spec3}
=============================================================================
