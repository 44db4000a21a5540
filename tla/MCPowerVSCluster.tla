--------------------------- MODULE MCPowerVSCluster --------------------------
(***************************************************************************)
(* Instances of PowerVSCluster for TLC: the lists of the spec and who owns *)
(* what, chosen by each configuration.                                     *)
(***************************************************************************)
EXTENDS PowerVSCluster

NoList == <<>>
OneSubnet == <<"subnet0">>
TwoSubnets == <<"subnet0", "subnet1">>
OneGroup == <<"sg0">>
TwoGroups == <<"sg0", "sg1">>
OneLB == <<"lb0">>
TwoLBs == <<"lb0", "lb1">>

\* Everything provisioned but the resource group.
OnlyGroup == {"resourceGroup"}

\* The user's own transit gateway and connections.
UserGateway == {"resourceGroup", "tg", "vpcConn", "pvsConn"}

\* Own DHCP server in the user's workspace, own connections on the user's
\* gateway, one subnet, security group and load balancer of each kind.
MixedReferences == {"resourceGroup", "workspace", "vpc", "tg", "subnet0", "sg0", "lb0"}

\* Everything exists but the COS instance, the gateway and its connections,
\* or the workspace and its network.
AllButCOS == Res \ {"cos"}
OnlyGatewayOwn == Res \ {"tg", "vpcConn", "pvsConn"}
OnlyWorkspaceOwn == Res \ {"workspace", "network"}
=============================================================================
