----------------------- MODULE MCVPCSecurityGroupRules -----------------------
(***************************************************************************)
(* Instances of VPCSecurityGroupRules for TLC: lists in which the kinds of *)
(* protocol and of remote meet.                                            *)
(***************************************************************************)
EXTENDS VPCSecurityGroupRules

CIDRDef == [s \in {"s1", "s2"} |-> IF s = "s1" THEN "10.1.0.0/24" ELSE "10.2.0.0/24"]

NamesDef == {"10.1.0.0/24", "10.2.0.0/24", "10.0.0.9", "g"}

R(direction, protocol, ports, icmp, remotes) ==
    [direction |-> direction, protocol |-> protocol, ports |-> ports, icmp |-> icmp,
     remotes |-> remotes]

AnyRemote == <<"any", Nil>>
Subnet1 == <<"cidr", "s1">>
Subnet2 == <<"cidr", "s2">>
Host == <<"address", "10.0.0.9">>
Group == <<"sg", "g">>

\* The rules of a control plane: the API server, peers, outbound traffic.
Usual ==
    <<R("inbound", "tcp", 1, 0, <<AnyRemote>>),
      R("inbound", "tcp", 2, 0, <<Subnet1, Group>>),
      R("inbound", "udp", 2, 0, <<Subnet1, Host>>),
      R("outbound", "all", 0, 0, <<AnyRemote>>)>>

\* The same protocol for a subnet and for any remote, in both orders.
SubnetThenAny ==
    <<R("inbound", "any", 0, 0, <<Subnet1, Host>>),
      R("inbound", "any", 0, 0, <<Subnet2, AnyRemote>>)>>
AnyThenSubnet ==
    <<R("inbound", "esp", 0, 0, <<AnyRemote, Group>>),
      R("inbound", "esp", 0, 0, <<Subnet2>>)>>

\* ICMP with a code before and after ICMP without, and a rule without ports.
CodeFirst ==
    <<R("inbound", "icmp", 0, 8, <<AnyRemote>>), R("inbound", "icmp", 0, 0, <<AnyRemote>>)>>
CodeLast ==
    <<R("inbound", "icmp", 0, 0, <<AnyRemote>>), R("inbound", "icmp", 0, 8, <<AnyRemote>>)>>
NoPorts == <<R("inbound", "tcp", 0, 0, <<Host>>), R("inbound", "tcp", 1, 0, <<Host>>)>>

AllLists == {Usual, SubnetThenAny, AnyThenSubnet, CodeFirst, CodeLast, NoPorts}
ShadowLists == {SubnetThenAny}
PortlessLists == {NoPorts}
=============================================================================
