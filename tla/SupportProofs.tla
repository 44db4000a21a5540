---------------------------- MODULE SupportProofs ----------------------------
(***************************************************************************)
(* Proofs about the two parts that every controller rests on: Conversion,  *)
(* for every field and every set of strings, and Paging, for collections,  *)
(* pages and lookups of any number.                                        *)
(***************************************************************************)
EXTENDS Conversion, Paging, WellFoundedInduction, TLAPS

\* A reference that refers to nothing.
EmptyReference(g) == g.type = "Reference" /\ g.id = "" /\ g.name = ""

\* What the copies of v1beta2 clients have in common, whether written or read:
\* a pointer to a boolean is one, a rule has the prototype of its direction, an
\* entry of a map has a key.
Fits(k, s) ==
    /\ k \in {"network", "transitGateway", "loadBalancer"} => s.extra \in {"", "true", "false"}
    /\ k = "rule" => /\ s.extra # "Reference"
                     /\ s.extra # "inbound" => s.name = ""
                     /\ s.extra # "outbound" => s.alt = ""
    /\ k \in {"subnetStatus", "namedStatus"} => s.name # "" \/ (s.id = "" /\ s.extra = "")

\* What reaches the conversion has the defaults.
Sent(k, s) ==
    /\ Fits(k, s)
    /\ k = "loadBalancer" => s.extra # ""
    /\ k = "network" /\ s.set => s.extra # ""

\* The defaults make what fits fit to be sent.
LEMMA DefaultedIsSent ==
    ASSUME NEW k, NEW s, Fits(k, s)
    PROVE  Sent(k, Defaulted(k, s))
BY DEF Sent, Fits, Defaulted, Spoke

\* There are no defaults for the others.
LEMMA NoDefaults ==
    ASSUME NEW k, k # "loadBalancer", k # "network"
    PROVE  \A x : Defaulted(k, x) = x
BY DEF Defaulted

----------------------------------------------------------------------------
(* One lemma per kind of field: what was written through v1beta2 is the    *)
(* same after it was read and written again.                               *)

\* A workspace.
LEMMA WorkspaceSettles ==
    ASSUME NEW s
    PROVE  LET g == WorkspaceToHub(s) IN
           EmptyReference(g) \/ WorkspaceToHub(WorkspaceToSpoke(g)) = g
BY DEF EmptyReference, WorkspaceToHub, WorkspaceToSpoke, Referenced, Spoke, EmptySpoke,
       Reference, Provision, Hub

\* A resource group.
LEMMA ResourceGroupSettles ==
    ASSUME NEW s
    PROVE  LET g == ResourceGroupToHub(s) IN
           EmptyReference(g) \/ ResourceGroupToHub(ResourceGroupToSpoke(g)) = g
BY DEF EmptyReference, ResourceGroupToHub, ResourceGroupToSpoke, Referenced, Spoke,
       EmptySpoke, Reference, Hub, EmptyHub

\* A network.
LEMMA NetworkSettles ==
    ASSUME NEW s, Sent("network", s)
    PROVE  LET g == NetworkToHub(s) IN
           EmptyReference(g) \/ NetworkToHub(Defaulted("network", NetworkToSpoke(g))) = g
<1>0. PICK g : g = NetworkToHub(s)
  OBVIOUS
<1>1. CASE s.id # "" \/ s.name # ""
  BY <1>1 DEF NetworkToHub, NetworkToSpoke, Defaulted, Reference, Hub, Spoke
<1>2. CASE s.id = "" /\ s.name = "" /\ s.set
  <2>1. s.extra \in {"true", "false"}
    BY <1>2 DEF Sent, Fits
  <2>2. g = Provision(s.alt, ToEnum(s.extra, "Enabled", "Disabled"))
    BY <1>0, <1>2 DEF NetworkToHub, DHCPServerToHub
  <2>3. ToBool(ToEnum(s.extra, "Enabled", "Disabled"), "Enabled") = s.extra
    BY <2>1 DEF ToEnum, ToBool
  <2>4. PICK x : x = NetworkToSpoke(g)
    OBVIOUS
  <2>5. x.set /\ x.id = "" /\ x.name = "" /\ x.alt = s.alt /\ x.extra = s.extra
    <3>1. /\ g.type = "Provision" /\ g.alt = s.alt
          /\ g.extra = ToEnum(s.extra, "Enabled", "Disabled")
      BY <2>2 DEF Provision, Hub
    <3>2. x = DHCPServerToSpoke(g)
      BY <2>4, <3>1 DEF NetworkToSpoke
    <3>3. x.set
      BY <3>2 DEF DHCPServerToSpoke, Spoke
    <3>4. x.id = "" /\ x.name = "" /\ x.alt = g.alt /\ x.extra = ToBool(g.extra, "Enabled")
      BY <3>2 DEF DHCPServerToSpoke, Spoke
    <3>. QED BY <2>3, <3>1, <3>3, <3>4
  <2>6. Defaulted("network", x) = x
    BY <2>1, <2>5 DEF Defaulted
  <2>7. NetworkToHub(x) = Provision(s.alt, ToEnum(s.extra, "Enabled", "Disabled"))
    BY <2>5 DEF NetworkToHub, DHCPServerToHub
  <2>. QED BY <1>0, <2>2, <2>4, <2>6, <2>7
<1>3. CASE s.id = "" /\ s.name = "" /\ ~s.set
  BY <1>3 DEF NetworkToHub, NetworkToSpoke, Defaulted, EmptyHub, EmptySpoke
<1>. QED BY <1>1, <1>2, <1>3

\* A transit gateway.
LEMMA TransitGatewaySettles ==
    ASSUME NEW s, Fits("transitGateway", s)
    PROVE  LET g == TransitGatewayToHub(s) IN
           EmptyReference(g) \/ TransitGatewayToHub(TransitGatewayToSpoke(g)) = g
BY DEF Fits, EmptyReference, TransitGatewayToHub, TransitGatewayToSpoke, ToEnum,
       ToBool, NilIfEmpty, TheName, Spoke, EmptySpoke, Reference, Provision, Hub,
       EmptyHub

\* A VPC.
LEMMA VPCSettles ==
    ASSUME NEW s
    PROVE  LET g == VPCToHub(s) IN
           EmptyReference(g) \/ VPCToHub(VPCToSpoke(g)) = g
BY DEF EmptyReference, VPCToHub, VPCToSpoke, NilIfEmpty, TheName, Spoke, EmptySpoke,
       Reference, Provision, Hub

\* A subnet.
LEMMA SubnetSettles ==
    ASSUME NEW s
    PROVE  LET g == SubnetToHub(s) IN
           EmptyReference(g) \/ SubnetToHub(SubnetToSpoke(g)) = g
BY DEF EmptyReference, SubnetToHub, SubnetToSpoke, TheName, Spoke, Reference,
       Provision, Hub

\* A load balancer.
LEMMA LoadBalancerSettles ==
    ASSUME NEW s, Sent("loadBalancer", s)
    PROVE  LET g == LoadBalancerToHub(s) IN
           EmptyReference(g)
           \/ LoadBalancerToHub(Defaulted("loadBalancer", LoadBalancerToSpoke(g))) = g
BY DEF Sent, Fits, Defaulted, EmptyReference, LoadBalancerToHub, LoadBalancerToSpoke, ToEnum, ToBool,
       TheName, Spoke, Reference, Provision, Hub, EmptyHub

\* A security group.
LEMMA SecurityGroupSettles ==
    ASSUME NEW s
    PROVE  LET g == SecurityGroupToHub(s) IN
           EmptyReference(g) \/ SecurityGroupToHub(SecurityGroupToSpoke(g)) = g
BY DEF EmptyReference, SecurityGroupToHub, SecurityGroupToSpoke, TheName, Spoke,
       Reference, Provision, Hub

\* A rule of a security group.
LEMMA RuleSettles ==
    ASSUME NEW s, Fits("rule", s)
    PROVE  LET g == RuleToHub(s) IN
           EmptyReference(g) \/ RuleToHub(RuleToSpoke(g)) = g
BY DEF Fits, EmptyReference, RuleToHub, RuleToSpoke, Spoke, Hub

\* A rule prototype.
LEMMA PrototypeSettles ==
    ASSUME NEW s
    PROVE  LET g == PrototypeToHub(s) IN
           EmptyReference(g) \/ PrototypeToHub(PrototypeToSpoke(g)) = g
BY DEF EmptyReference, PrototypeToHub, PrototypeToSpoke, Spoke, Hub

\* A COS instance.
LEMMA CosInstanceSettles ==
    ASSUME NEW s
    PROVE  LET g == CosInstanceToHub(s) IN
           EmptyReference(g) \/ CosInstanceToHub(CosInstanceToSpoke(g)) = g
BY DEF EmptyReference, CosInstanceToHub, CosInstanceToSpoke, Spoke, EmptySpoke,
       Provision, Hub, EmptyHub

\* A reference in the status.
LEMMA StatusReferenceSettles ==
    ASSUME NEW s
    PROVE  LET g == StatusReferenceToHub(s) IN
           EmptyReference(g) \/ StatusReferenceToHub(StatusReferenceToSpoke(g)) = g
BY DEF EmptyReference, StatusReferenceToHub, StatusReferenceToSpoke, Spoke, EmptySpoke,
       Hub

\* A subnet in the status.
LEMMA SubnetStatusSettles ==
    ASSUME NEW s, Fits("subnetStatus", s)
    PROVE  LET g == SubnetStatusToHub(s) IN
           EmptyReference(g) \/ SubnetStatusToHub(EntryToSpoke(g)) = g
BY DEF Fits, EmptyReference, SubnetStatusToHub, EntryToSpoke, Spoke, EmptySpoke, Hub,
       EmptyHub

\* A load balancer or security group in the status.
LEMMA NamedStatusSettles ==
    ASSUME NEW s, Fits("namedStatus", s)
    PROVE  LET g == NamedStatusToHub(s) IN
           EmptyReference(g) \/ NamedStatusToHub(EntryToSpoke(g)) = g
BY DEF Fits, EmptyReference, NamedStatusToHub, EntryToSpoke, Spoke, EmptySpoke, Hub

\* A image of a machine.
LEMMA ImageSettles ==
    ASSUME NEW s
    PROVE  LET g == ImageToHub(s) IN
           EmptyReference(g) \/ ImageToHub(ImageToSpoke(g)) = g
BY DEF EmptyReference, ImageToHub, ImageToSpoke, Spoke, EmptySpoke, Reference, Hub,
       EmptyHub

\* A workspace of a machine or image.
LEMMA IdentifierSettles ==
    ASSUME NEW s
    PROVE  LET g == IdentifierToHub(s) IN
           EmptyReference(g) \/ IdentifierToHub(IdentifierToSpoke(g)) = g
BY DEF EmptyReference, IdentifierToHub, IdentifierToSpoke, Spoke, EmptySpoke, Hub

\* A resource group of a template, which is nil when it has neither id nor name.
LEMMA TemplateResourceGroupSettles ==
    ASSUME NEW s
    PROVE  LET g == ResourceGroupToHub(s) IN
           EmptyReference(g) \/ ResourceGroupToHub(NilIfEmpty(ResourceGroupToSpoke(g))) = g
BY DEF EmptyReference, ResourceGroupToHub, ResourceGroupToSpoke, NilIfEmpty, Referenced, Spoke,
       EmptySpoke, Reference, Hub, EmptyHub

----------------------------------------------------------------------------
(* One lemma per union: a reference by ID stays one.                       *)

\* A workspace.
LEMMA WorkspaceKept ==
    ASSUME NEW h, h.type = "Reference", h.id # ""
    PROVE  LET g == WorkspaceToHub(WorkspaceToSpoke(h)) IN g.type = "Reference" /\ g.id = h.id
BY DEF WorkspaceToHub, WorkspaceToSpoke, Referenced, Spoke, EmptySpoke, Reference,
       Provision, Hub

\* A resource group.
LEMMA ResourceGroupKept ==
    ASSUME NEW h, h.type = "Reference", h.id # ""
    PROVE  LET g == ResourceGroupToHub(ResourceGroupToSpoke(h)) IN g.type = "Reference" /\ g.id = h.id
BY DEF ResourceGroupToHub, ResourceGroupToSpoke, Referenced, Spoke, EmptySpoke,
       Reference, Hub, EmptyHub

\* A network.
LEMMA NetworkKept ==
    ASSUME NEW h, h.type = "Reference", h.id # ""
    PROVE  LET g == NetworkToHub(Defaulted("network", NetworkToSpoke(h))) IN
           g.type = "Reference" /\ g.id = h.id
BY DEF Defaulted, NetworkToHub, NetworkToSpoke, DHCPServerToHub, DHCPServerToSpoke, ToEnum,
       ToBool, Spoke, EmptySpoke, Reference, Provision, Hub, EmptyHub

\* A transit gateway.
LEMMA TransitGatewayKept ==
    ASSUME NEW h, h.type = "Reference", h.id # ""
    PROVE  LET g == TransitGatewayToHub(TransitGatewayToSpoke(h)) IN g.type = "Reference" /\ g.id = h.id
BY DEF TransitGatewayToHub, TransitGatewayToSpoke, ToEnum, ToBool, NilIfEmpty, TheName,
       Spoke, EmptySpoke, Reference, Provision, Hub, EmptyHub

\* A VPC.
LEMMA VPCKept ==
    ASSUME NEW h, h.type = "Reference", h.id # ""
    PROVE  LET g == VPCToHub(VPCToSpoke(h)) IN g.type = "Reference" /\ g.id = h.id
BY DEF VPCToHub, VPCToSpoke, NilIfEmpty, TheName, Spoke, EmptySpoke, Reference,
       Provision, Hub

\* A subnet.
LEMMA SubnetKept ==
    ASSUME NEW h, h.type = "Reference", h.id # ""
    PROVE  LET g == SubnetToHub(SubnetToSpoke(h)) IN g.type = "Reference" /\ g.id = h.id
BY DEF SubnetToHub, SubnetToSpoke, TheName, Spoke, Reference, Provision, Hub

\* A security group.
LEMMA SecurityGroupKept ==
    ASSUME NEW h, h.type = "Reference", h.id # ""
    PROVE  LET g == SecurityGroupToHub(SecurityGroupToSpoke(h)) IN g.type = "Reference" /\ g.id = h.id
BY DEF SecurityGroupToHub, SecurityGroupToSpoke, TheName, Spoke, Reference, Provision,
       Hub

\* A image of a machine.
LEMMA ImageKept ==
    ASSUME NEW h, h.type = "Reference", h.id # ""
    PROVE  LET g == ImageToHub(ImageToSpoke(h)) IN g.type = "Reference" /\ g.id = h.id
BY DEF ImageToHub, ImageToSpoke, Spoke, EmptySpoke, Reference, Hub, EmptyHub

\* A resource group of a template.
LEMMA TemplateResourceGroupKept ==
    ASSUME NEW h, h.type = "Reference", h.id # ""
    PROVE  LET g == ResourceGroupToHub(NilIfEmpty(ResourceGroupToSpoke(h))) IN
           g.type = "Reference" /\ g.id = h.id
BY DEF ResourceGroupToHub, ResourceGroupToSpoke, NilIfEmpty, Referenced, Spoke,
       EmptySpoke, Reference, Hub, EmptyHub

----------------------------------------------------------------------------
(* The spec of a cluster.                                                  *)

\* Each field of the spec settles.
LEMMA SpecSettles ==
    ASSUME NEW k \in ClusterSpecFields, NEW s, Sent(k, s)
    PROVE  LET g == ClusterSpecToHub(k, s) IN
           EmptyReference(g) \/ ClusterSpecToHub(k, Defaulted(k, ClusterSpecToSpoke(k, g))) = g
<1>1. CASE k = "workspace"
  <2>1. /\ \A x : ClusterSpecToHub(k, x) = WorkspaceToHub(x)
        /\ \A x : ClusterSpecToSpoke(k, x) = WorkspaceToSpoke(x)
    BY <1>1 DEF ClusterSpecToHub, ClusterSpecToSpoke
  <2>2. Defaulted(k, WorkspaceToSpoke(WorkspaceToHub(s))) = WorkspaceToSpoke(WorkspaceToHub(s))
    BY <1>1 DEF Defaulted
  <2>3. ClusterSpecToHub(k, Defaulted(k, ClusterSpecToSpoke(k, WorkspaceToHub(s))))
           = WorkspaceToHub(WorkspaceToSpoke(WorkspaceToHub(s)))
    BY <2>1, <2>2, Zenon
  <2>. QED BY <2>1, <2>3, WorkspaceSettles
<1>2. CASE k = "resourceGroup"
  <2>1. /\ \A x : ClusterSpecToHub(k, x) = ResourceGroupToHub(x)
        /\ \A x : ClusterSpecToSpoke(k, x) = ResourceGroupToSpoke(x)
    BY <1>2 DEF ClusterSpecToHub, ClusterSpecToSpoke
  <2>2. Defaulted(k, ResourceGroupToSpoke(ResourceGroupToHub(s))) = ResourceGroupToSpoke(ResourceGroupToHub(s))
    BY <1>2 DEF Defaulted
  <2>3. ClusterSpecToHub(k, Defaulted(k, ClusterSpecToSpoke(k, ResourceGroupToHub(s))))
           = ResourceGroupToHub(ResourceGroupToSpoke(ResourceGroupToHub(s)))
    BY <2>1, <2>2, Zenon
  <2>. QED BY <2>1, <2>3, ResourceGroupSettles
<1>3. CASE k = "network"
  <2>1. /\ \A x : ClusterSpecToHub(k, x) = NetworkToHub(x)
        /\ \A x : ClusterSpecToSpoke(k, x) = NetworkToSpoke(x)
    BY <1>3 DEF ClusterSpecToHub, ClusterSpecToSpoke
  <2>. QED BY <1>3, <2>1, NetworkSettles, Zenon
<1>4. CASE k = "transitGateway"
  <2>1. /\ \A x : ClusterSpecToHub(k, x) = TransitGatewayToHub(x)
        /\ \A x : ClusterSpecToSpoke(k, x) = TransitGatewayToSpoke(x)
    BY <1>4 DEF ClusterSpecToHub, ClusterSpecToSpoke
  <2>2. Defaulted(k, TransitGatewayToSpoke(TransitGatewayToHub(s))) = TransitGatewayToSpoke(TransitGatewayToHub(s))
    BY <1>4 DEF Defaulted
  <2>3. ClusterSpecToHub(k, Defaulted(k, ClusterSpecToSpoke(k, TransitGatewayToHub(s))))
           = TransitGatewayToHub(TransitGatewayToSpoke(TransitGatewayToHub(s)))
    BY <2>1, <2>2, Zenon
  <2>. QED BY <1>4, <2>1, <2>3, TransitGatewaySettles DEF Sent
<1>5. CASE k = "vpc"
  <2>1. /\ \A x : ClusterSpecToHub(k, x) = VPCToHub(x)
        /\ \A x : ClusterSpecToSpoke(k, x) = VPCToSpoke(x)
    BY <1>5 DEF ClusterSpecToHub, ClusterSpecToSpoke
  <2>2. Defaulted(k, VPCToSpoke(VPCToHub(s))) = VPCToSpoke(VPCToHub(s))
    BY <1>5 DEF Defaulted
  <2>3. ClusterSpecToHub(k, Defaulted(k, ClusterSpecToSpoke(k, VPCToHub(s))))
           = VPCToHub(VPCToSpoke(VPCToHub(s)))
    BY <2>1, <2>2, Zenon
  <2>. QED BY <2>1, <2>3, VPCSettles
<1>6. CASE k = "subnet"
  <2>1. /\ \A x : ClusterSpecToHub(k, x) = SubnetToHub(x)
        /\ \A x : ClusterSpecToSpoke(k, x) = SubnetToSpoke(x)
    BY <1>6 DEF ClusterSpecToHub, ClusterSpecToSpoke
  <2>2. Defaulted(k, SubnetToSpoke(SubnetToHub(s))) = SubnetToSpoke(SubnetToHub(s))
    BY <1>6 DEF Defaulted
  <2>3. ClusterSpecToHub(k, Defaulted(k, ClusterSpecToSpoke(k, SubnetToHub(s))))
           = SubnetToHub(SubnetToSpoke(SubnetToHub(s)))
    BY <2>1, <2>2, Zenon
  <2>. QED BY <2>1, <2>3, SubnetSettles
<1>7. CASE k = "loadBalancer"
  <2>1. /\ \A x : ClusterSpecToHub(k, x) = LoadBalancerToHub(x)
        /\ \A x : ClusterSpecToSpoke(k, x) = LoadBalancerToSpoke(x)
    BY <1>7 DEF ClusterSpecToHub, ClusterSpecToSpoke
  <2>. QED BY <1>7, <2>1, LoadBalancerSettles, Zenon
<1>8. CASE k = "securityGroup"
  <2>1. /\ \A x : ClusterSpecToHub(k, x) = SecurityGroupToHub(x)
        /\ \A x : ClusterSpecToSpoke(k, x) = SecurityGroupToSpoke(x)
    BY <1>8 DEF ClusterSpecToHub, ClusterSpecToSpoke
  <2>2. Defaulted(k, SecurityGroupToSpoke(SecurityGroupToHub(s))) = SecurityGroupToSpoke(SecurityGroupToHub(s))
    BY <1>8 DEF Defaulted
  <2>3. ClusterSpecToHub(k, Defaulted(k, ClusterSpecToSpoke(k, SecurityGroupToHub(s))))
           = SecurityGroupToHub(SecurityGroupToSpoke(SecurityGroupToHub(s)))
    BY <2>1, <2>2, Zenon
  <2>. QED BY <2>1, <2>3, SecurityGroupSettles
<1>9. CASE k = "rule"
  <2>1. /\ \A x : ClusterSpecToHub(k, x) = RuleToHub(x)
        /\ \A x : ClusterSpecToSpoke(k, x) = RuleToSpoke(x)
    BY <1>9 DEF ClusterSpecToHub, ClusterSpecToSpoke
  <2>2. Defaulted(k, RuleToSpoke(RuleToHub(s))) = RuleToSpoke(RuleToHub(s))
    BY <1>9 DEF Defaulted
  <2>3. ClusterSpecToHub(k, Defaulted(k, ClusterSpecToSpoke(k, RuleToHub(s))))
           = RuleToHub(RuleToSpoke(RuleToHub(s)))
    BY <2>1, <2>2, Zenon
  <2>. QED BY <1>9, <2>1, <2>3, RuleSettles DEF Sent
<1>10. CASE k = "prototype"
  <2>1. /\ \A x : ClusterSpecToHub(k, x) = PrototypeToHub(x)
        /\ \A x : ClusterSpecToSpoke(k, x) = PrototypeToSpoke(x)
    BY <1>10 DEF ClusterSpecToHub, ClusterSpecToSpoke
  <2>2. Defaulted(k, PrototypeToSpoke(PrototypeToHub(s))) = PrototypeToSpoke(PrototypeToHub(s))
    BY <1>10 DEF Defaulted
  <2>3. ClusterSpecToHub(k, Defaulted(k, ClusterSpecToSpoke(k, PrototypeToHub(s))))
           = PrototypeToHub(PrototypeToSpoke(PrototypeToHub(s)))
    BY <2>1, <2>2, Zenon
  <2>. QED BY <2>1, <2>3, PrototypeSettles
<1>11. CASE k = "cosInstance"
  <2>1. /\ \A x : ClusterSpecToHub(k, x) = CosInstanceToHub(x)
        /\ \A x : ClusterSpecToSpoke(k, x) = CosInstanceToSpoke(x)
    BY <1>11 DEF ClusterSpecToHub, ClusterSpecToSpoke
  <2>2. Defaulted(k, CosInstanceToSpoke(CosInstanceToHub(s))) = CosInstanceToSpoke(CosInstanceToHub(s))
    BY <1>11 DEF Defaulted
  <2>3. ClusterSpecToHub(k, Defaulted(k, ClusterSpecToSpoke(k, CosInstanceToHub(s))))
           = CosInstanceToHub(CosInstanceToSpoke(CosInstanceToHub(s)))
    BY <2>1, <2>2, Zenon
  <2>. QED BY <2>1, <2>3, CosInstanceSettles
<1>. QED BY <1>1, <1>2, <1>3, <1>4, <1>5, <1>6, <1>7, <1>8, <1>9, <1>10, <1>11 DEF ClusterSpecFields, Unions

\* A reference by ID in the spec is kept.
LEMMA SpecKept ==
    ASSUME NEW k \in Unions \ {"cosInstance", "loadBalancer"}, NEW h,
           h.type = "Reference", h.id # ""
    PROVE  LET g == ClusterSpecToHub(k, Defaulted(k, ClusterSpecToSpoke(k, h))) IN
           g.type = "Reference" /\ g.id = h.id
<1>1. CASE k = "workspace"
  <2>1. /\ \A x : ClusterSpecToHub(k, x) = WorkspaceToHub(x)
        /\ \A x : ClusterSpecToSpoke(k, x) = WorkspaceToSpoke(x)
    BY <1>1 DEF ClusterSpecToHub, ClusterSpecToSpoke
  <2>2. Defaulted(k, WorkspaceToSpoke(h)) = WorkspaceToSpoke(h)
    BY <1>1 DEF Defaulted
  <2>3. ClusterSpecToHub(k, Defaulted(k, ClusterSpecToSpoke(k, h)))
           = WorkspaceToHub(WorkspaceToSpoke(h))
    BY <2>1, <2>2, Zenon
  <2>. QED BY <2>1, <2>3, WorkspaceKept
<1>2. CASE k = "resourceGroup"
  <2>1. /\ \A x : ClusterSpecToHub(k, x) = ResourceGroupToHub(x)
        /\ \A x : ClusterSpecToSpoke(k, x) = ResourceGroupToSpoke(x)
    BY <1>2 DEF ClusterSpecToHub, ClusterSpecToSpoke
  <2>2. Defaulted(k, ResourceGroupToSpoke(h)) = ResourceGroupToSpoke(h)
    BY <1>2 DEF Defaulted
  <2>3. ClusterSpecToHub(k, Defaulted(k, ClusterSpecToSpoke(k, h)))
           = ResourceGroupToHub(ResourceGroupToSpoke(h))
    BY <2>1, <2>2, Zenon
  <2>. QED BY <2>1, <2>3, ResourceGroupKept
<1>3. CASE k = "network"
  <2>1. /\ \A x : ClusterSpecToHub(k, x) = NetworkToHub(x)
        /\ \A x : ClusterSpecToSpoke(k, x) = NetworkToSpoke(x)
    BY <1>3 DEF ClusterSpecToHub, ClusterSpecToSpoke
  <2>. QED BY <1>3, <2>1, NetworkKept
<1>4. CASE k = "transitGateway"
  <2>1. /\ \A x : ClusterSpecToHub(k, x) = TransitGatewayToHub(x)
        /\ \A x : ClusterSpecToSpoke(k, x) = TransitGatewayToSpoke(x)
    BY <1>4 DEF ClusterSpecToHub, ClusterSpecToSpoke
  <2>2. Defaulted(k, TransitGatewayToSpoke(h)) = TransitGatewayToSpoke(h)
    BY <1>4 DEF Defaulted
  <2>3. ClusterSpecToHub(k, Defaulted(k, ClusterSpecToSpoke(k, h)))
           = TransitGatewayToHub(TransitGatewayToSpoke(h))
    BY <2>1, <2>2, Zenon
  <2>. QED BY <2>1, <2>3, TransitGatewayKept
<1>5. CASE k = "vpc"
  <2>1. /\ \A x : ClusterSpecToHub(k, x) = VPCToHub(x)
        /\ \A x : ClusterSpecToSpoke(k, x) = VPCToSpoke(x)
    BY <1>5 DEF ClusterSpecToHub, ClusterSpecToSpoke
  <2>2. Defaulted(k, VPCToSpoke(h)) = VPCToSpoke(h)
    BY <1>5 DEF Defaulted
  <2>3. ClusterSpecToHub(k, Defaulted(k, ClusterSpecToSpoke(k, h)))
           = VPCToHub(VPCToSpoke(h))
    BY <2>1, <2>2, Zenon
  <2>. QED BY <2>1, <2>3, VPCKept
<1>6. CASE k = "subnet"
  <2>1. /\ \A x : ClusterSpecToHub(k, x) = SubnetToHub(x)
        /\ \A x : ClusterSpecToSpoke(k, x) = SubnetToSpoke(x)
    BY <1>6 DEF ClusterSpecToHub, ClusterSpecToSpoke
  <2>2. Defaulted(k, SubnetToSpoke(h)) = SubnetToSpoke(h)
    BY <1>6 DEF Defaulted
  <2>3. ClusterSpecToHub(k, Defaulted(k, ClusterSpecToSpoke(k, h)))
           = SubnetToHub(SubnetToSpoke(h))
    BY <2>1, <2>2, Zenon
  <2>. QED BY <2>1, <2>3, SubnetKept
<1>7. CASE k = "securityGroup"
  <2>1. /\ \A x : ClusterSpecToHub(k, x) = SecurityGroupToHub(x)
        /\ \A x : ClusterSpecToSpoke(k, x) = SecurityGroupToSpoke(x)
    BY <1>7 DEF ClusterSpecToHub, ClusterSpecToSpoke
  <2>2. Defaulted(k, SecurityGroupToSpoke(h)) = SecurityGroupToSpoke(h)
    BY <1>7 DEF Defaulted
  <2>3. ClusterSpecToHub(k, Defaulted(k, ClusterSpecToSpoke(k, h)))
           = SecurityGroupToHub(SecurityGroupToSpoke(h))
    BY <2>1, <2>2, Zenon
  <2>. QED BY <2>1, <2>3, SecurityGroupKept
<1>. QED BY <1>1, <1>2, <1>3, <1>4, <1>5, <1>6, <1>7 DEF Unions

----------------------------------------------------------------------------
(* All the objects.                                                        *)

\* What a v1beta2 client stores when it writes back what it has read.
Back(f, h) == ConvertTo(f, Defaulted(f[2], ConvertFrom(f, h)), MarshalData(f, h))

\* NoDrift for one stored value.
Settled(f, g) == f = <<"cluster", "topology">> \/ EmptyReference(g) \/ Back(f, g) = g

\* Where there are references.
RefShape(f, h) == h.type = "Reference" => f[2] \in Unions \cup {"image"}

\* The fields of each object.
LEMMA FieldsOf ==
    ASSUME NEW f \in AllFields
    PROVE  /\ f = <<f[1], f[2]>>
           /\ \/ f[1] = "cluster" /\ f[2] \in ClusterFields
              \/ f[1] = "clusterTemplate" /\ f[2] \in ClusterSpecFields
              \/ f[1] = "machine" /\ f[2] \in {"identifier", "image", "provisioned"}
              \/ f[1] = "machineTemplate" /\ f[2] \in {"identifier", "image"}
              \/ f[1] = "image" /\ f[2] = "identifier"
BY DEF AllFields

\* What a client of v1beta2 writes fits.
LEMMA WrittenFits ==
    ASSUME NEW f \in AllFields, NEW s \in SpokeValues[f[2]]
    PROVE  Fits(f[2], s)
<1>. DEFINE Bool == {"", "true", "false"}
<1>1. CASE f[2] = "transitGateway"
  <2>1. SpokeValues["transitGateway"] = Set(Opt(Ids), Opt(Names), {""}, Bool) \cup Nil({""}, {""})
    BY DEF SpokeValues
  <2>2. s \in Set(Opt(Ids), Opt(Names), {""}, Bool) \cup Nil({""}, {""})
    BY <1>1, <2>1
  <2>3. s.extra \in Bool
    BY <2>2 DEF Set, Nil, Spokes
  <2>. QED BY <1>1, <2>3 DEF Fits
<1>2. CASE f[2] = "loadBalancer"
  <2>1. SpokeValues["loadBalancer"] = Set(Opt(Ids), Opt(Names), {""}, Bool)
    BY DEF SpokeValues
  <2>2. s \in Set(Opt(Ids), Opt(Names), {""}, Bool)
    BY <1>2, <2>1
  <2>3. s.extra \in Bool
    BY <2>2 DEF Set, Spokes
  <2>. QED BY <1>2, <2>3 DEF Fits
<1>3. CASE f[2] = "rule"
  <2>1. SpokeValues["rule"] = Set(Opt(Ids), Names, {""}, {"inbound"})
                                   \cup Set(Opt(Ids), {""}, Names, {"outbound"})
    BY DEF SpokeValues
  <2>2. s \in Set(Opt(Ids), Names, {""}, {"inbound"})
                \cup Set(Opt(Ids), {""}, Names, {"outbound"})
    BY <1>3, <2>1
  <2>3. \/ s.extra = "inbound" /\ s.alt = ""
        \/ s.extra = "outbound" /\ s.name = ""
    BY <2>2 DEF Set, Spokes
  <2>. QED BY <1>3, <2>3 DEF Fits
<1>4. CASE f[2] = "subnetStatus"
  <2>1. SpokeValues["subnetStatus"] = Set(Opt(Ids), Names, {""}, {""})
    BY DEF SpokeValues
  <2>2. s \in Set(Opt(Ids), Names, {""}, {""})
    BY <1>4, <2>1
  <2>3. s.name # ""
    BY <2>2, StringsAssumption DEF Set, Spokes
  <2>. QED BY <1>4, <2>3 DEF Fits
<1>5. CASE f[2] = "namedStatus"
  <2>1. SpokeValues["namedStatus"] = Set(Opt(Ids), Names, {""}, Opt(Extras))
    BY DEF SpokeValues
  <2>2. s \in Set(Opt(Ids), Names, {""}, Opt(Extras))
    BY <1>5, <2>1
  <2>3. s.name # ""
    BY <2>2, StringsAssumption DEF Set, Spokes
  <2>. QED BY <1>5, <2>3 DEF Fits
<1>6. CASE f[2] = "network"
  <2>1. SpokeValues["network"] = Spokes({TRUE}, Opt(Ids), Opt(Names), Opt(Names), Bool)
                                   \cup Spokes({FALSE}, Opt(Ids), Opt(Names), {""}, {""})
    BY DEF SpokeValues
  <2>2. s \in Spokes({TRUE}, Opt(Ids), Opt(Names), Opt(Names), Bool)
                \cup Spokes({FALSE}, Opt(Ids), Opt(Names), {""}, {""})
    BY <1>6, <2>1
  <2>3. s.extra \in Bool
    BY <2>2 DEF Spokes
  <2>. QED BY <1>6, <2>3 DEF Fits
<1>. QED BY <1>1, <1>2, <1>3, <1>4, <1>5, <1>6 DEF Fits

\* So does what it reads.
LEMMA ReadFits ==
    ASSUME NEW f \in AllFields, NEW h, RefShape(f, h)
    PROVE  Fits(f[2], ConvertFrom(f, h))
<1>. DEFINE k == f[2]
<1>1. CASE k \in {"network", "transitGateway", "loadBalancer", "rule"}
  <2>1. k \in ClusterSpecFields /\ k # "resourceGroup" /\ k # "topology" /\ k # "provisioned"
    BY <1>1 DEF ClusterSpecFields, Unions
  <2>2. ConvertFrom(f, h) = ClusterSpecToSpoke(k, h)
    BY <1>1, <2>1, FieldsOf DEF ConvertFrom, ClusterConvertFrom, ClusterTemplateConvertFrom
  <2>3. CASE k = "transitGateway"
    <3>1. Fits("transitGateway", TransitGatewayToSpoke(h))
      BY DEF Fits, TransitGatewayToSpoke, NilIfEmpty, Spoke, EmptySpoke, ToBool
    <3>2. ConvertFrom(f, h) = TransitGatewayToSpoke(h)
      BY <2>2, <2>3 DEF ClusterSpecToSpoke
    <3>. QED BY <2>3, <3>1, <3>2
  <2>4. CASE k = "loadBalancer"
    <3>1. Fits("loadBalancer", LoadBalancerToSpoke(h))
      BY DEF Fits, LoadBalancerToSpoke, Spoke, ToBool
    <3>2. ConvertFrom(f, h) = LoadBalancerToSpoke(h)
      BY <2>2, <2>4 DEF ClusterSpecToSpoke
    <3>. QED BY <2>4, <3>1, <3>2
  <2>5. CASE k = "rule"
    <3>1. h.type # "Reference"
      BY <2>5 DEF RefShape, Unions
    <3>2. Fits("rule", RuleToSpoke(h))
      BY <3>1 DEF Fits, RuleToSpoke, Spoke
    <3>3. ConvertFrom(f, h) = RuleToSpoke(h)
      BY <2>2, <2>5 DEF ClusterSpecToSpoke
    <3>. QED BY <2>5, <3>2, <3>3
  <2>6. CASE k = "network"
    <3>1. Fits("network", NetworkToSpoke(h))
      BY DEF Fits, NetworkToSpoke, DHCPServerToSpoke, Spoke, EmptySpoke, ToBool
    <3>2. ConvertFrom(f, h) = NetworkToSpoke(h)
      BY <2>2, <2>6 DEF ClusterSpecToSpoke
    <3>. QED BY <2>6, <3>1, <3>2
  <2>. QED BY <1>1, <2>3, <2>4, <2>5, <2>6
<1>2. CASE k \in {"subnetStatus", "namedStatus"}
  <2>1. k \notin ClusterSpecFields /\ f[1] = "cluster"
    BY <1>2, FieldsOf DEF ClusterSpecFields, Unions
  <2>2. ConvertFrom(f, h) = EntryToSpoke(h)
    BY <1>2, <2>1 DEF ConvertFrom, ClusterConvertFrom, ClusterStatusToSpoke
  <2>3. Fits("subnetStatus", EntryToSpoke(h)) /\ Fits("namedStatus", EntryToSpoke(h))
    BY DEF Fits, EntryToSpoke, Spoke, EmptySpoke
  <2>. QED BY <1>2, <2>2, <2>3
<1>. QED BY <1>1, <1>2 DEF Fits

\* Whatever is sent through v1beta2 is not moved by writing it back.
LEMMA Settles ==
    ASSUME NEW f \in AllFields, NEW s, Sent(f[2], s), NEW h,
           NEW n \in {NoNote, MarshalData(f, h)}
    PROVE  Settled(f, ConvertTo(f, s, n))
<1>. DEFINE k == f[2]
            g == ConvertTo(f, s, n)
<1>1. CASE f[1] = "cluster" /\ k \in ClusterSpecFields
  <2>1. k # "topology" /\ k # "provisioned"
    BY <1>1 DEF ClusterSpecFields, Unions
  <2>2. /\ \A x, m : ConvertTo(f, x, m) = ClusterSpecToHub(k, x)
        /\ \A x : ConvertFrom(f, x) = ClusterSpecToSpoke(k, x)
    BY <1>1, <2>1 DEF ConvertTo, ConvertFrom, ClusterConvertTo, ClusterConvertFrom
  <2>3. EmptyReference(g) \/ ClusterSpecToHub(k, Defaulted(k, ClusterSpecToSpoke(k, g))) = g
    BY <1>1, <2>2, SpecSettles
  <2>. QED BY <2>2, <2>3, Zenon DEF Settled, Back
<1>2. CASE f[1] = "cluster" /\ k \in {"statusReference", "subnetStatus", "namedStatus"}
  <2>1. k # "topology" /\ k # "provisioned" /\ k \notin ClusterSpecFields
    BY <1>2 DEF ClusterSpecFields, Unions
  <2>2. /\ \A x, m : ConvertTo(f, x, m) = ClusterStatusToHub(k, x)
        /\ \A x : ConvertFrom(f, x) = ClusterStatusToSpoke(k, x)
    BY <1>2, <2>1 DEF ConvertTo, ConvertFrom, ClusterConvertTo, ClusterConvertFrom
  <2>3. CASE k = "statusReference"
    <3>1. /\ \A x : ClusterStatusToHub(k, x) = StatusReferenceToHub(x)
          /\ \A x : ClusterStatusToSpoke(k, x) = StatusReferenceToSpoke(x)
      BY <2>3 DEF ClusterStatusToHub, ClusterStatusToSpoke
    <3>. QED BY <2>2, <2>3, <3>1, NoDefaults, StatusReferenceSettles DEF Settled, Back
  <2>4. CASE k = "subnetStatus"
    <3>1. /\ \A x : ClusterStatusToHub(k, x) = SubnetStatusToHub(x)
          /\ \A x : ClusterStatusToSpoke(k, x) = EntryToSpoke(x)
      BY <2>4 DEF ClusterStatusToHub, ClusterStatusToSpoke
    <3>. QED BY <2>2, <2>4, <3>1, NoDefaults, SubnetStatusSettles DEF Sent, Settled, Back
  <2>5. CASE k = "namedStatus"
    <3>1. /\ \A x : ClusterStatusToHub(k, x) = NamedStatusToHub(x)
          /\ \A x : ClusterStatusToSpoke(k, x) = EntryToSpoke(x)
      BY <2>5 DEF ClusterStatusToHub, ClusterStatusToSpoke
    <3>. QED BY <2>2, <2>5, <3>1, NoDefaults, NamedStatusSettles DEF Sent, Settled, Back
  <2>. QED BY <1>2, <2>3, <2>4, <2>5
<1>3. CASE f[1] = "clusterTemplate" /\ k \in ClusterSpecFields
  <2>1. \A x, m : ConvertTo(f, x, m) = ClusterSpecToHub(k, x)
    BY <1>3 DEF ConvertTo, ClusterTemplateConvertTo
  <2>2. CASE k # "resourceGroup"
    <3>1. \A x : ConvertFrom(f, x) = ClusterSpecToSpoke(k, x)
      BY <1>3, <2>2 DEF ConvertFrom, ClusterTemplateConvertFrom
    <3>2. EmptyReference(g) \/ ClusterSpecToHub(k, Defaulted(k, ClusterSpecToSpoke(k, g))) = g
      BY <1>3, <2>1, SpecSettles
    <3>. QED BY <2>1, <3>1, <3>2, Zenon DEF Settled, Back
  <2>3. CASE k = "resourceGroup"
    <3>1. /\ \A x : ClusterSpecToHub(k, x) = ResourceGroupToHub(x)
          /\ \A x : ConvertFrom(f, x) = NilIfEmpty(ResourceGroupToSpoke(x))
      BY <1>3, <2>3 DEF ConvertFrom, ClusterTemplateConvertFrom, ClusterSpecToHub
    <3>. QED BY <2>1, <2>3, <3>1, NoDefaults, TemplateResourceGroupSettles DEF Settled, Back
  <2>. QED BY <2>2, <2>3
<1>4. CASE f[1] \in {"machine", "machineTemplate"} /\ k = "image"
  <2>1. /\ \A x, m : ConvertTo(f, x, m) = ImageToHub(x)
        /\ \A x : ConvertFrom(f, x) = ImageToSpoke(x)
    BY <1>4 DEF ConvertTo, ConvertFrom, MachineConvertTo, MachineConvertFrom,
                MachineTemplateConvertTo, MachineTemplateConvertFrom
  <2>. QED BY <1>4, <2>1, NoDefaults, ImageSettles DEF Settled, Back
<1>5. CASE f[1] \in {"machine", "machineTemplate"} /\ k = "identifier"
  <2>1. /\ \A x, m : ConvertTo(f, x, m) = IdentifierToHub(x)
        /\ \A x : ConvertFrom(f, x) = IdentifierToSpoke(x)
    BY <1>5 DEF ConvertTo, ConvertFrom, MachineConvertTo, MachineConvertFrom,
                MachineTemplateConvertTo, MachineTemplateConvertFrom
  <2>. QED BY <1>5, <2>1, NoDefaults, IdentifierSettles DEF Settled, Back
<1>6. CASE f[1] \in {"cluster", "machine"} /\ k = "provisioned"
  <2>1. /\ \A x, m : ConvertTo(f, x, m) = BoolToPointer(x, m)
        /\ \A x : ConvertFrom(f, x) = PointerToBool(x)
    BY <1>6 DEF ConvertTo, ConvertFrom, ClusterConvertTo, ClusterConvertFrom,
                MachineConvertTo, MachineConvertFrom, ClusterSpecFields, Unions
  <2>0. Back(f, g) = BoolToPointer(PointerToBool(g), MarshalData(f, g))
    <3>1. Defaulted(k, PointerToBool(g)) = PointerToBool(g)
      BY <1>6 DEF Defaulted
    <3>. QED BY <2>1, <3>1 DEF Back
  <2>2. CASE f[1] = "cluster"
    <3>1. MarshalData(f, g) = NoNote /\ n = NoNote
      BY <2>2 DEF MarshalData
    <3>2. LET b == BoolToPointer(s, NoNote) IN BoolToPointer(PointerToBool(b), NoNote) = b
      BY DEF BoolToPointer, PointerToBool, Spoke, Hub, NoNote
    <3>. QED BY <2>0, <2>1, <3>1, <3>2 DEF Settled
  <2>3. CASE f[1] = "machine"
    <3>1. MarshalData(f, g) = [ok |-> TRUE, hub |-> g]
      BY <2>3 DEF MarshalData
    <3>2. LET b == BoolToPointer(s, n) IN
          BoolToPointer(PointerToBool(b), [ok |-> TRUE, hub |-> b]) = b
      BY DEF BoolToPointer, PointerToBool, Spoke, Hub
    <3>. QED BY <2>0, <2>1, <3>1, <3>2 DEF Settled
  <2>. QED BY <1>6, <2>2, <2>3
<1>7. CASE f[1] = "image"
  <2>1. Back(f, g) = g
    BY <1>7 DEF Back, ConvertTo, ImageConvertTo, MarshalData
  <2>. QED BY <2>1 DEF Settled
<1>8. CASE f[1] = "cluster" /\ k = "topology"
  BY <1>8, FieldsOf DEF Settled
<1>. QED BY <1>1, <1>2, <1>3, <1>4, <1>5, <1>6, <1>7, <1>8, FieldsOf DEF ClusterFields

\* A v1beta3 client writes references where there are some.
LEMMA HubValuesShape ==
    ASSUME NEW f \in AllFields, NEW h \in HubValues[f[2]]
    PROVE  RefShape(f, h)
<1>1. CASE f[2] = "rule"
  <2>1. HubValues["rule"] = Hubs({"inbound"}, Opt(Ids), Names, {""}, {""})
                               \cup Hubs({"outbound"}, Opt(Ids), {""}, Names, {""})
    BY DEF HubValues
  <2>2. h \in Hubs({"inbound"}, Opt(Ids), Names, {""}, {""})
                \cup Hubs({"outbound"}, Opt(Ids), {""}, Names, {""})
    BY <1>1, <2>1
  <2>3. h.type # "Reference"
    BY <2>2 DEF Hubs
  <2>. QED BY <2>3 DEF RefShape
<1>2. CASE f[2] \in {"prototype", "provisioned", "statusReference", "subnetStatus", "namedStatus"}
  <2>1. /\ HubValues["prototype"] = Hubs({""}, Opt(Ids), Opt(Names), Opt(Names), Opt(Extras))
        /\ HubValues["provisioned"] = Hubs({""}, {""}, {""}, {""}, {"", "true", "false"})
        /\ HubValues["statusReference"] = Hubs({""}, Ids, Names, {""}, {""})
        /\ HubValues["subnetStatus"] = Hubs({""}, Ids, Names, {""}, {""})
        /\ HubValues["namedStatus"] = Hubs({""}, Opt(Ids), Names, {""}, Opt(Extras))
    BY DEF HubValues
  <2>2. \/ h \in Hubs({""}, Opt(Ids), Opt(Names), Opt(Names), Opt(Extras))
        \/ h \in Hubs({""}, {""}, {""}, {""}, {"", "true", "false"})
        \/ h \in Hubs({""}, Ids, Names, {""}, {""})
        \/ h \in Hubs({""}, Opt(Ids), Names, {""}, Opt(Extras))
    BY <1>2, <2>1
  <2>3. h.type = ""
    BY <2>2 DEF Hubs
  <2>. QED BY <2>3 DEF RefShape
<1>3. CASE f[2] = "topology"
  <2>1. HubValues["topology"] = Hubs({"LoadBalancer", "VirtualIP"}, {""}, {""}, {""}, {""})
    BY DEF HubValues
  <2>2. h \in Hubs({"LoadBalancer", "VirtualIP"}, {""}, {""}, {""}, {""})
    BY <1>3, <2>1
  <2>3. h.type # "Reference"
    BY <2>2 DEF Hubs
  <2>. QED BY <2>3 DEF RefShape
<1>4. CASE f[2] = "identifier"
  <2>1. HubValues["identifier"] = Identifiers("", {""})
    BY DEF HubValues
  <2>2. h \in Identifiers("", {""})
    BY <1>4, <2>1
  <2>3. h.type = ""
    BY <2>2 DEF Identifiers, Hubs
  <2>. QED BY <2>3 DEF RefShape
<1>. QED BY <1>1, <1>2, <1>3, <1>4, FieldsOf
         DEF RefShape, ClusterFields, ClusterSpecFields, Unions

\* So does a v1beta2 client.
LEMMA WrittenShape ==
    ASSUME NEW f \in AllFields, NEW s, Fits(f[2], s), NEW h, RefShape(f, h),
           NEW n \in {NoNote, MarshalData(f, h)}
    PROVE  RefShape(f, ConvertTo(f, s, n))
<1>. DEFINE k == f[2]
<1>1. CASE k = "rule"
  <2>1. ConvertTo(f, s, n) = RuleToHub(s)
    BY <1>1, FieldsOf
       DEF ConvertTo, ClusterConvertTo, ClusterTemplateConvertTo, ClusterSpecToHub,
           ClusterSpecFields
  <2>2. RefShape(f, RuleToHub(s))
    BY <1>1 DEF RuleToHub, RefShape, Hub, Fits
  <2>. QED BY <2>1, <2>2
<1>2. CASE k = "prototype"
  <2>1. ConvertTo(f, s, n) = PrototypeToHub(s)
    BY <1>2, FieldsOf
       DEF ConvertTo, ClusterConvertTo, ClusterTemplateConvertTo, ClusterSpecToHub,
           ClusterSpecFields
  <2>2. RefShape(f, PrototypeToHub(s))
    BY DEF PrototypeToHub, RefShape, Hub
  <2>. QED BY <2>1, <2>2
<1>3. CASE k = "topology"
  <2>1. f[1] = "cluster"
    BY <1>3, FieldsOf DEF ClusterSpecFields, Unions
  <2>2. ConvertTo(f, s, n) = Hub(ToEnum(s.extra, "LoadBalancer", "VirtualIP"), "", "", "", "")
    BY <1>3, <2>1 DEF ConvertTo, ClusterConvertTo, ClusterSpecFields, Unions
  <2>3. RefShape(f, Hub(ToEnum(s.extra, "LoadBalancer", "VirtualIP"), "", "", "", ""))
    BY DEF RefShape, Hub, ToEnum
  <2>. QED BY <2>2, <2>3
<1>4. CASE k = "provisioned"
  <2>1. f[1] \in {"cluster", "machine"}
    BY <1>4, FieldsOf DEF ClusterSpecFields, Unions
  <2>2. ConvertTo(f, s, n) = BoolToPointer(s, n)
    BY <1>4, <2>1
       DEF ConvertTo, ClusterConvertTo, MachineConvertTo, ClusterSpecFields, Unions
  <2>3. RefShape(f, BoolToPointer(s, n))
    BY DEF RefShape, BoolToPointer, Hub
  <2>. QED BY <2>2, <2>3
<1>5. CASE k \in {"statusReference", "subnetStatus", "namedStatus"}
  <2>1. f[1] = "cluster" /\ k \notin ClusterSpecFields
    BY <1>5, FieldsOf DEF ClusterSpecFields, Unions
  <2>2. ConvertTo(f, s, n) = ClusterStatusToHub(k, s)
    BY <1>5, <2>1 DEF ConvertTo, ClusterConvertTo
  <2>3. RefShape(f, ClusterStatusToHub(k, s))
    BY <1>5 DEF RefShape, ClusterStatusToHub, StatusReferenceToHub,
           SubnetStatusToHub, NamedStatusToHub, Hub, EmptyHub
  <2>. QED BY <2>2, <2>3
<1>6. CASE k = "identifier" /\ f[1] # "image"
  <2>1. f[1] \in {"machine", "machineTemplate"}
    BY <1>6, FieldsOf DEF ClusterFields, ClusterSpecFields, Unions
  <2>2. ConvertTo(f, s, n) = IdentifierToHub(s)
    BY <1>6, <2>1 DEF ConvertTo, MachineConvertTo, MachineTemplateConvertTo
  <2>3. RefShape(f, IdentifierToHub(s))
    BY DEF RefShape, IdentifierToHub, Hub
  <2>. QED BY <2>2, <2>3
<1>7. CASE f[1] = "image"
  <2>1. ConvertTo(f, s, n) = IF n.ok THEN n.hub ELSE IdentifierToHub(s)
    BY <1>7 DEF ConvertTo, ImageConvertTo
  <2>2. RefShape(f, IdentifierToHub(s))
    BY DEF RefShape, IdentifierToHub, Hub
  <2>3. n.ok => n.hub = h
    BY <1>7 DEF NoNote, MarshalData
  <2>. QED BY <2>1, <2>2, <2>3
<1>. QED BY <1>1, <1>2, <1>3, <1>4, <1>5, <1>6, <1>7, FieldsOf
         DEF RefShape, ClusterFields, ClusterSpecFields, Unions

\* Writing a reference by ID back keeps it.
LEMMA Kept ==
    ASSUME NEW f \in AllFields, NEW h, RefShape(f, h), h.type = "Reference", h.id # "",
           f[2] \notin {"cosInstance", "loadBalancer"}
    PROVE  Back(f, h).type = "Reference" /\ Back(f, h).id = h.id
<1>. DEFINE k == f[2]
<1>1. k \in Unions \cup {"image"}
  BY DEF RefShape
<1>2. CASE k \in Unions
  <2>1. k \in Unions \ {"cosInstance", "loadBalancer"} /\ k \in ClusterSpecFields
        /\ k # "topology" /\ k # "provisioned"
    BY <1>2 DEF Unions, ClusterSpecFields
  <2>2. f[1] \in {"cluster", "clusterTemplate"}
    BY <1>2, FieldsOf DEF Unions
  <2>3. \A x, m : ConvertTo(f, x, m) = ClusterSpecToHub(k, x)
    BY <2>1, <2>2 DEF ConvertTo, ClusterConvertTo, ClusterTemplateConvertTo
  <2>4. CASE ~(f[1] = "clusterTemplate" /\ k = "resourceGroup")
    <3>1. ConvertFrom(f, h) = ClusterSpecToSpoke(k, h)
      BY <2>1, <2>2, <2>4 DEF ConvertFrom, ClusterConvertFrom, ClusterTemplateConvertFrom
    <3>2. Back(f, h) = ClusterSpecToHub(k, Defaulted(k, ClusterSpecToSpoke(k, h)))
      BY <2>3, <3>1, Zenon DEF Back
    <3>3. LET g == ClusterSpecToHub(k, Defaulted(k, ClusterSpecToSpoke(k, h))) IN
          g.type = "Reference" /\ g.id = h.id
      BY <1>1, <2>1, SpecKept
    <3>. QED BY <3>2, <3>3
  <2>5. CASE f[1] = "clusterTemplate" /\ k = "resourceGroup"
    <3>1. ConvertFrom(f, h) = NilIfEmpty(ResourceGroupToSpoke(h))
      BY <2>5 DEF ConvertFrom, ClusterTemplateConvertFrom
    <3>2. \A x : ClusterSpecToHub(k, x) = ResourceGroupToHub(x)
      BY <2>5 DEF ClusterSpecToHub
    <3>3. Back(f, h) = ResourceGroupToHub(NilIfEmpty(ResourceGroupToSpoke(h)))
      BY <2>3, <2>5, <3>1, <3>2, NoDefaults DEF Back
    <3>. QED BY <3>3, TemplateResourceGroupKept
  <2>. QED BY <2>4, <2>5
<1>3. CASE k = "image"
  <2>1. f[1] \in {"machine", "machineTemplate"}
    BY <1>3, FieldsOf DEF ClusterFields, ClusterSpecFields, Unions
  <2>2. Back(f, h) = ImageToHub(ImageToSpoke(h))
    BY <1>3, <2>1, NoDefaults
       DEF Back, ConvertTo, ConvertFrom, MachineConvertTo, MachineConvertFrom,
           MachineTemplateConvertTo, MachineTemplateConvertFrom
  <2>. QED BY <2>2, ImageKept
<1>. QED BY <1>1, <1>2, <1>3

----------------------------------------------------------------------------
(* The invariant of the conversions.                                       *)

ConversionInv ==
    /\ field \in Fields
    /\ pc \in {"stored", "read", "edited"}
    /\ RefShape(field, hub)
    /\ pc = "read" => spoke = ConvertFrom(field, hub) /\ note = MarshalData(field, hub)
    /\ pc = "edited" => Fits(field[2], spoke) /\ note \in {NoNote, MarshalData(field, hub)}
    /\ tripped => Settled(field, hub)

\* The first state satisfies it.
LEMMA InitConversion == Init => ConversionInv
<1>. SUFFICES ASSUME Init PROVE ConversionInv
  OBVIOUS
<1>1. field \in Fields /\ field \in AllFields /\ ~tripped /\ note = NoNote
  BY FieldsAssumption DEF Init
<1>2. CASE hub \in HubValues[field[2]] /\ pc = "stored"
  BY <1>1, <1>2, HubValuesShape DEF ConversionInv
<1>3. CASE hub = EmptyHub /\ spoke \in SpokeValues[field[2]] /\ pc = "edited"
  <2>1. RefShape(field, hub)
    BY <1>3 DEF RefShape, EmptyHub
  <2>. QED BY <1>1, <1>3, <2>1, WrittenFits DEF ConversionInv
<1>. QED BY <1>2, <1>3 DEF Init

\* What a client holds fits, whether it was read or edited.
LEMMA HeldFits ==
    ASSUME ConversionInv, pc \in {"read", "edited"}
    PROVE  Fits(field[2], spoke) /\ note \in {NoNote, MarshalData(field, hub)}
BY FieldsAssumption, ReadFits DEF ConversionInv

\* Every step keeps the invariant.
LEMMA ConversionStep == ConversionInv /\ [Next]_vars => ConversionInv'
<1>. SUFFICES ASSUME ConversionInv, [Next]_vars PROVE ConversionInv'
  OBVIOUS
<1>0. field \in AllFields /\ RefShape(field, hub)
  BY FieldsAssumption DEF ConversionInv
<1>1. CASE Get
  BY <1>1, Zenon DEF ConversionInv, Get
<1>2. CASE Edit
  <2>1. field' = field /\ hub' = hub /\ tripped' = tripped /\ pc' = "edited"
    BY <1>2 DEF Edit
  <2>2. Fits(field[2], spoke')
    BY <1>0, <1>2, WrittenFits DEF Edit
  <2>3. note' \in {NoNote, MarshalData(field, hub)}
    BY <1>2 DEF Edit, ConversionInv
  <2>. QED BY <2>1, <2>2, <2>3 DEF ConversionInv
<1>3. CASE Put
  <2>. DEFINE sent == Defaulted(field[2], spoke)
  <2>1. /\ field' = field /\ hub' = ConvertTo(field, sent, note) /\ pc' = "stored"
        /\ pc \in {"read", "edited"}
    BY <1>3 DEF Put
  <2>2. Sent(field[2], sent) /\ note \in {NoNote, MarshalData(field, hub)}
    BY <2>1, HeldFits, DefaultedIsSent
  <2>3. RefShape(field, hub')
    BY <1>0, <2>1, <2>2, WrittenShape DEF Sent
  <2>4. Settled(field, hub')
    BY <1>0, <2>1, <2>2, Settles
  <2>. QED BY <2>1, <2>3, <2>4 DEF ConversionInv
<1>4. CASE HubPut
  <2>1. field' = field /\ hub' \in HubValues[field[2]] /\ pc' = "stored" /\ ~tripped'
    BY <1>4 DEF HubPut
  <2>2. RefShape(field, hub')
    BY <1>0, <2>1, HubValuesShape
  <2>. QED BY <2>1, <2>2 DEF ConversionInv
<1>5. CASE UNCHANGED vars
  BY <1>5, Zenon DEF ConversionInv, vars
<1>. QED BY <1>1, <1>2, <1>3, <1>4, <1>5 DEF Next

\* A client that writes back what it has read stores Back of what was there.
LEMMA PutBackStores ==
    ASSUME ConversionInv, PutBack
    PROVE  hub' = Back(field, hub) /\ field \in AllFields
BY FieldsAssumption, Zenon DEF ConversionInv, PutBack, Put, Back

----------------------------------------------------------------------------
(* The theorems about the conversions.                                     *)

\* ConvertTo and ConvertFrom, for every field of every PowerVS kind and any
\* identifiers and names: what a v1beta2 client has written is not moved by
\* clients that read it and write it back, however often.
THEOREM ConversionSettles == Spec => NoDrift
<1>. DEFINE A == (/\ PutBack /\ tripped
                  /\ field # <<"cluster", "topology">>
                  /\ (hub.type = "Reference") => (hub.id # "" \/ hub.name # ""))
                 => hub' = hub
<1>1. ConversionInv /\ [Next]_vars => [A]_vars
  <2>. SUFFICES ASSUME ConversionInv, PutBack, tripped, field # <<"cluster", "topology">>,
                       (hub.type = "Reference") => (hub.id # "" \/ hub.name # "")
                PROVE  hub' = hub
    OBVIOUS
  <2>1. hub' = Back(field, hub)
    BY PutBackStores
  <2>2. Settled(field, hub) /\ ~EmptyReference(hub)
    BY DEF ConversionInv, EmptyReference
  <2>. QED BY <2>1, <2>2 DEF Settled
<1>. QED BY InitConversion, ConversionStep, <1>1, PTL DEF Spec, NoDrift

\* The same conversions, with the schema's defaults before them, keep every
\* reference by ID a reference to that ID, except to a COS instance or a load
\* balancer: writing back through v1beta2 does not make the controllers own, and
\* later delete, any other thing that the user only refers to.
THEOREM ReferencesSurvive == Spec => ReferenceByIDKept
<1>. DEFINE A == (/\ PutBack /\ hub.type = "Reference" /\ hub.id # ""
                  /\ field[2] \notin {"cosInstance", "loadBalancer"})
                 => (hub'.type = "Reference" /\ hub'.id = hub.id)
<1>1. ConversionInv /\ [Next]_vars => [A]_vars
  <2>. SUFFICES ASSUME ConversionInv, PutBack, hub.type = "Reference", hub.id # "",
                       field[2] \notin {"cosInstance", "loadBalancer"}
                PROVE  hub'.type = "Reference" /\ hub'.id = hub.id
    OBVIOUS
  <2>1. hub' = Back(field, hub) /\ field \in AllFields
    BY PutBackStores
  <2>2. RefShape(field, hub)
    BY DEF ConversionInv
  <2>. QED BY <2>1, <2>2, Kept
<1>. QED BY InitConversion, ConversionStep, <1>1, PTL DEF Spec, ReferenceByIDKept

----------------------------------------------------------------------------
(* Paging: the pages.                                                      *)

\* A set of places that has a member has a first one.
LEMMA FirstPlace ==
    ASSUME NEW T \in SUBSET Place, T # {}
    PROVE  \E p \in T : \A q \in T : p <= q
<1>1. T \subseteq Nat
  BY SizeAssumption DEF Place
<1>2. PICK p \in T : \A q \in T : <<q, p>> \notin OpToRel(<, Nat)
  BY <1>1, NatLessThanWellFounded, WFMin, Zenon
<1>3. ASSUME NEW q \in T PROVE p <= q
  <2>1. p \in Nat /\ q \in Nat
    BY <1>1
  <2>2. <<q, p>> \in Nat \X Nat /\ <<q, p>>[1] = q /\ <<q, p>>[2] = p
    BY <2>1
  <2>3. ~(q < p)
    BY <1>2, <2>2 DEF OpToRel
  <2>. QED BY <2>1, <2>3
<1>. QED BY <1>3

\* Every lookup has one of the shapes.
LEMMA LookupsHaveShape == Lookups \subseteq Shapes
BY LookupsAssumption
   DEF Shapes, URLLookups, TokenLookups, FirstMatch, EachMatch, UniqueMatch,
       GetDedicatedHostByName, GetVPCByName, GetImageByName, GetVPCPublicGatewayByName,
       GetVPCSubnetByName, GetLoadBalancerByName, GetTransitGatewayByName, EnsureVPCUnique,
       GetSubnetAddrPrefix, EnsureSubnetUnique, SubnetToDelete, GetLoadBalancerByHostname,
       EnsureLoadBalancerUnique, LoadBalancerToDelete, EnsureInstanceUnique, FetchKeyID,
       FetchImageID, ListKeys, ListImages, GetServiceInstance, GetInstanceByName,
       GetResourceInstanceByFilter

\* A page ends at or after the place it begins after.
LEMMA PageIsAhead ==
    ASSUME LookupTypeOK, NEW to \in PageEnds(start)
    PROVE  to \in 0..Slots /\ start <= to
BY SizeAssumption DEF LookupTypeOK, PageEnds, After, Place

\* f takes matches of the page and nothing else, and something when there is one.
LEMMA HitsOfPage ==
    ASSUME LookupTypeOK, NEW to \in PageEnds(start)
    PROVE  LET page == Page(start, to) IN
           /\ Hits(page) \subseteq {q \in Place : items[q] = "match" /\ start < q /\ q <= to}
           /\ \A q \in Place : items[q] = "match" /\ start < q /\ q <= to =>
                 /\ Hits(page) # {}
                 /\ lookup.scan # "first" => q \in Hits(page)
<1>. DEFINE page == Page(start, to)
            all == {q \in page : items[q] = "match"}
<1>1. all = {q \in Place : items[q] = "match" /\ start < q /\ q <= to}
  BY SizeAssumption DEF Page, After, Place, LookupTypeOK
<1>2. Hits(page) \subseteq all /\ (lookup.scan # "first" => Hits(page) = all)
  BY DEF Hits
<1>3. ASSUME NEW q \in all PROVE Hits(page) # {}
  <2>1. CASE lookup.scan # "first"
    BY <1>2, <1>3, <2>1
  <2>2. CASE lookup.scan = "first"
    <3>1. PICK p \in all : \A r \in all : p <= r
      BY <1>1, <1>3, FirstPlace
    <3>2. p \in Hits(page)
      BY <2>2, <3>1 DEF Hits
    <3>. QED BY <3>2
  <2>. QED BY <2>1, <2>2
<1>. QED BY <1>1, <1>2, <1>3

----------------------------------------------------------------------------
(* The invariant of a lookup.                                              *)

\* While it lists, a lookup that follows the links has taken what it passed, and
\* nothing ahead; one that does not begins every page at the top; and what was
\* there all the time is there.
ListInv ==
    phase = "list" =>
        /\ stayed \subseteq Matches
        /\ lookup.scan = "first" => found = {}
        /\ IF lookup.next = "url"
           THEN /\ \A p \in found : p <= start
                /\ lookup.scan = "first" => \A p \in stayed : p > start
                /\ lookup.scan # "first" => \A p \in stayed : p <= start => p \in found
           ELSE start = 0

PagingInv == LookupTypeOK /\ ListInv /\ FoundIfThere /\ TakenOnce

\* The first state satisfies it.
LEMMA InitPaging == LookupInit => PagingInv
<1>. SUFFICES ASSUME LookupInit PROVE PagingInv
  OBVIOUS
<1>1. start \in 0..Slots
  BY SizeAssumption DEF LookupInit, FromTheTop
<1>2. LookupTypeOK
  BY <1>1, LookupsHaveShape, Zenon DEF LookupInit, LookupTypeOK
<1>3. ListInv /\ FoundIfThere /\ TakenOnce
  BY DEF LookupInit, ListInv, FoundIfThere, TakenOnce
<1>. QED BY <1>2, <1>3 DEF PagingInv

\* What the other users do to the collection keeps it: only what is removed stops
\* being there all the time.
LEMMA CollectionKeeps ==
    ASSUME PagingInv, NEW p \in Place,
           Remove(p) \/ (\E kind \in {"match", "other"} : Add(p, kind))
    PROVE  PagingInv'
<1>1. LookupTypeOK'
  BY DEF PagingInv, LookupTypeOK, Remove, Add, ctlVars
<1>2. ListInv'
  BY DEF PagingInv, LookupTypeOK, ListInv, Matches, Remove, Add, ctlVars
<1>3. FoundIfThere' /\ TakenOnce'
  BY DEF PagingInv, FoundIfThere, TakenOnce, Remove, Add, ctlVars
<1>. QED BY <1>1, <1>2, <1>3 DEF PagingInv

\* A lookup begins with nothing taken and everything ahead.
LEMMA BeginKeeps ==
    ASSUME PagingInv, NEW l \in Lookups, Begin(l)
    PROVE  PagingInv'
<1>1. LookupTypeOK'
  <2>1. start' \in 0..Slots /\ stayed' \subseteq Place
    BY SizeAssumption DEF Begin, FromTheTop, Matches
  <2>. QED BY <2>1, LookupsHaveShape, Zenon DEF PagingInv, LookupTypeOK, Begin
<1>2. ListInv'
  BY SizeAssumption DEF ListInv, Begin, FromTheTop, Matches, Place
<1>3. FoundIfThere' /\ TakenOnce'
  BY DEF FoundIfThere, TakenOnce, Begin
<1>. QED BY <1>1, <1>2, <1>3 DEF PagingInv

\* A page keeps it, and the last page leaves nothing behind that was there.
LEMMA ListPageKeeps ==
    ASSUME PagingInv, NEW to \in PageEnds(start), ListPage(to)
    PROVE  PagingInv'
<1>. DEFINE page == Page(start, to)
<1>1. LookupTypeOK /\ ListInv /\ TakenOnce /\ phase = "list"
  BY DEF PagingInv, ListPage
<1>2. /\ to \in 0..Slots /\ start <= to /\ start \in Nat /\ to \in Nat
      /\ \A q \in Place : q \in Nat /\ 0 < q
  BY <1>1, PageIsAhead, SizeAssumption DEF LookupTypeOK, Place
<1>3. /\ Hits(page) \subseteq {q \in Place : items[q] = "match" /\ start < q /\ q <= to}
      /\ \A q \in Place : items[q] = "match" /\ start < q /\ q <= to =>
            /\ Hits(page) # {}
            /\ lookup.scan # "first" => q \in Hits(page)
  BY <1>1, HitsOfPage
<1>4. /\ found' = found \cup Hits(page)
      /\ repeated' = (repeated \/ found \cap Hits(page) # {})
      /\ UNCHANGED <<items, lookup, stayed>>
  BY DEF ListPage
<1>5. stayed \subseteq Place /\ \A q \in stayed : items[q] = "match"
  BY <1>1 DEF ListInv, Matches, LookupTypeOK
<1>6. TakenOnce'
  <2>1. lookup.next = "url" => found \cap Hits(page) = {}
    BY <1>1, <1>2, <1>3 DEF ListInv, LookupTypeOK
  <2>. QED BY <1>1, <1>4, <2>1 DEF TakenOnce
<1>7. CASE IsDone(page) \/ After(to) = {}
  <2>1. phase' = "idle" /\ answer' = Found(found', repeated') /\ start' = start
    BY <1>4, <1>7 DEF ListPage, Return
  <2>2. LookupTypeOK'
    BY <1>1, <1>3, <1>4, <2>1 DEF LookupTypeOK, Found
  <2>3. ASSUME lookup.scan = "first", found' = {} PROVE stayed = {}
    <3>1. Hits(page) = {} /\ After(to) = {}
      BY <1>4, <1>7, <2>3 DEF IsDone
    <3>2. ASSUME NEW q \in stayed PROVE FALSE
      <4>1. q \in Place /\ items[q] = "match" /\ start < q
        BY <1>1, <1>2, <1>5, <2>3 DEF ListInv, LookupTypeOK, Shapes
      <4>2. ~(q <= to)
        BY <1>3, <3>1, <4>1
      <4>3. q \in After(to)
        BY <1>2, <4>1, <4>2 DEF After
      <4>. QED BY <3>1, <4>3
    <3>. QED BY <3>2
  <2>4. ASSUME lookup.scan # "first", NEW q \in stayed PROVE q \in found'
    <3>1. After(to) = {}
      BY <1>7, <2>4 DEF IsDone
    <3>2. q \in Place /\ items[q] = "match" /\ q <= to
      BY <1>2, <1>5, <3>1 DEF After
    <3>3. start < q => q \in Hits(page)
      BY <1>3, <2>4, <3>2
    <3>4. ~(start < q) => q \in found
      BY <1>1, <1>2, <2>4, <3>2 DEF ListInv, LookupTypeOK, Shapes
    <3>. QED BY <1>4, <3>3, <3>4
  <2>5. FoundIfThere'
    BY <1>4, <2>3, <2>4 DEF FoundIfThere
  <2>. QED BY <1>6, <2>1, <2>2, <2>5 DEF PagingInv, ListInv
<1>8. CASE ~(IsDone(page) \/ After(to) = {})
  <2>1. start' = GetStartToken(to) /\ phase' = "list" /\ answer' = answer
    BY <1>1, <1>8 DEF ListPage
  <2>2. LookupTypeOK'
    <3>1. start' \in 0..Slots /\ found' \subseteq Place
      BY <1>1, <1>2, <1>3, <1>4, <2>1, SizeAssumption DEF LookupTypeOK, GetStartToken, FromTheTop
    <3>2. repeated' \in BOOLEAN
      BY <1>4, Zenon
    <3>. QED BY <1>1, <1>4, <2>1, <3>1, <3>2, Zenon DEF LookupTypeOK
  <2>3. lookup.scan = "first" => Hits(page) = {}
    BY <1>8 DEF IsDone
  <2>4. /\ stayed' \subseteq Matches'
        /\ lookup'.scan = "first" => found' = {}
    BY <1>1, <1>4, <2>3 DEF ListInv, Matches
  <2>5. ASSUME lookup.next = "url"
        PROVE  /\ \A p \in found' : p <= start'
               /\ lookup.scan = "first" => \A p \in stayed : p > start'
               /\ lookup.scan # "first" => \A p \in stayed : p <= start' => p \in found'
    <3>1. start' = to
      BY <2>1, <2>5 DEF GetStartToken
    <3>2. \A p \in found : p <= to
      BY <1>1, <1>2, <2>5 DEF ListInv, LookupTypeOK
    <3>3. ASSUME lookup.scan = "first", NEW p \in stayed PROVE p > to
      BY <1>1, <1>2, <1>3, <1>5, <2>3, <2>5, <3>3 DEF ListInv
    <3>4. ASSUME lookup.scan # "first", NEW p \in stayed, p <= to
          PROVE p \in found'
      <4>1. start < p => p \in Hits(page)
        BY <1>3, <1>5, <3>4
      <4>2. ~(start < p) => p \in found
        BY <1>1, <1>2, <1>5, <2>5, <3>4 DEF ListInv
      <4>. QED BY <1>4, <4>1, <4>2
    <3>. QED BY <1>3, <1>4, <3>1, <3>2, <3>3, <3>4
  <2>6. lookup.next # "url" => start' = 0
    BY <2>1 DEF GetStartToken, FromTheTop
  <2>7. ListInv'
    BY <1>4, <2>4, <2>5, <2>6 DEF ListInv
  <2>8. FoundIfThere'
    BY <2>1 DEF FoundIfThere
  <2>. QED BY <1>6, <2>2, <2>7, <2>8 DEF PagingInv
<1>. QED BY <1>7, <1>8

\* So does a list call that fails: an error says nothing about the collection.
LEMMA ListFailsKeeps ==
    ASSUME PagingInv, ListFails
    PROVE  PagingInv'
BY DEF PagingInv, LookupTypeOK, ListInv, FoundIfThere, TakenOnce, ListFails, Return

\* Every step keeps the invariant.
LEMMA PagingStep == PagingInv /\ [LookupNext]_lookupVars => PagingInv'
<1>. SUFFICES ASSUME PagingInv, [LookupNext]_lookupVars PROVE PagingInv'
  OBVIOUS
<1>1. CASE UNCHANGED lookupVars
  BY <1>1 DEF PagingInv, LookupTypeOK, ListInv, FoundIfThere, TakenOnce, Matches, lookupVars, ctlVars
<1>2. CASE LookupNext
  BY <1>2, CollectionKeeps, BeginKeeps, ListPageKeeps, ListFailsKeeps DEF LookupNext
<1>. QED BY <1>1, <1>2

----------------------------------------------------------------------------
(* The theorems about lookups.                                             *)

\* PagingHelper with any of the lookups: a lookup that says there is nothing, or
\* that goes through all the pages, passed over nothing that was there all the
\* time, whatever the size of the pages and however the collection changed.
THEOREM NothingIsPassedOver == LookupSpec => []FoundIfThere
<1>1. PagingInv => FoundIfThere
  BY DEF PagingInv
<1>. QED BY InitPaging, PagingStep, <1>1, PTL DEF LookupSpec

\* PagingHelper with a lookup that follows the links takes no match twice.
THEOREM NothingIsTakenTwice == LookupSpec => []TakenOnce
<1>1. PagingInv => TakenOnce
  BY DEF PagingInv
<1>. QED BY InitPaging, PagingStep, <1>1, PTL DEF LookupSpec
=============================================================================
