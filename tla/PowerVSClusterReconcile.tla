----------------------- MODULE PowerVSClusterReconcile -----------------------
(***************************************************************************)
(* The create path of the IBMPowerVSCluster controller: reconcile, its two *)
(* concurrent goroutines and the scope's Reconcile* methods.  One action   *)
(* per method, or per iteration of a method's loop.  A branch guarded by   *)
(* Fault("api") stands for every error a call of the method can return.    *)
(***************************************************************************)
EXTENDS PowerVSClusterState

\* The status records the ID of r.
Record(r) == local' = [local EXCEPT !.id = @ \cup {r}]

\* The hostname of a load balancer: IBM Cloud has it once it is active.
HostnameChoices(l) == IF cloud[l] = "active" THEN {TRUE} ELSE BOOLEAN

SetLoadBalancerStatus(l, hostname) ==
    local' = [local EXCEPT !.id = @ \cup {l},
                           !.host = IF hostname THEN @ \cup {l} ELSE @ \ {l}]

----------------------------------------------------------------------------
(* reconcile, up to the goroutines: the topology switch,                   *)
(* ValidateZoneSupportsPER and ReconcileResourceGroup.                     *)

\* Mutant: a VirtualIP cluster is never marked provisioned.
PrepareUnmarked ==
    /\ pc = "prepare" /\ Topology = "VirtualIP"
    /\ pc' = "patch"
    /\ NoFault
    /\ UNCHANGED <<cloudVars, apiVars, local, bound, pvs, vpc, loop, res>>

Prepare ==
    /\ pc = "prepare"
    /\ \/ /\ Topology = "VirtualIP"
          /\ local' = [local EXCEPT !.provisioned = TRUE]
          /\ pc' = "patch"
          /\ NoFault
          /\ UNCHANGED <<pvs, vpc>>
       \/ /\ Topology = "LoadBalancer"
          /\ Record("resourceGroup")
          /\ pc' = "components" /\ pvs' = "workspace" /\ vpc' = "vpc"
          /\ NoFault
       \/ /\ Topology = "LoadBalancer"
          /\ Fault("api")
          /\ pc' = "patch"
          /\ UNCHANGED <<local, pvs, vpc>>
    /\ UNCHANGED <<cloudVars, apiVars, bound, loop, res>>

----------------------------------------------------------------------------
(* reconcilePowerVSResources.                                              *)

PowerVSFails(c) ==
    /\ pvs' = "done"
    /\ res' = [res EXCEPT !.cond[c] = "false", !.err = TRUE]

PowerVSRequeues ==
    /\ pvs' = "done"
    /\ res' = [res EXCEPT !.requeue = TRUE]

\* ReconcileWorkspace with a known ID: checkWorkspaceState.
VerifyWorkspace ==
    /\ "workspace" \in local.id
    /\ NoFault
    /\ \/ /\ cloud["workspace"] = "active"
          /\ pvs' = "network"
          /\ res' = [res EXCEPT !.cond["WorkspaceReady"] = "true"]
       \/ cloud["workspace"] = "pending" /\ PowerVSRequeues
       \/ cloud["workspace"] \notin {"active", "pending"} /\ PowerVSFails("WorkspaceReady")
    /\ UNCHANGED <<cloudVars, local>>

\* Mutant: a workspace that was just found counts as verified.
ResolveWorkspaceProceeds ==
    /\ "workspace" \notin local.id
    /\ Exists("workspace")
    /\ NoFault
    /\ Record("workspace")
    /\ pvs' = "network"
    /\ res' = [res EXCEPT !.cond["WorkspaceReady"] = "true"]
    /\ UNCHANGED cloudVars

\* reconcileWorkspaceReference, or a workspace recovered by its name: the ID is
\* recorded and the state is left to the next reconcile.
ResolveWorkspace ==
    /\ "workspace" \notin local.id
    /\ Exists("workspace")
    /\ NoFault
    /\ Record("workspace")
    /\ PowerVSRequeues
    /\ UNCHANGED cloudVars

\* reconcileWorkspaceProvision: no instance has the name.
CreateWorkspace ==
    /\ "workspace" \notin local.id
    /\ Provision("workspace") /\ ~Exists("workspace")
    /\ CreateAs("workspace", "pending")
    /\ \/ NoFault /\ Record("workspace") /\ PowerVSRequeues
       \/ Fault("lost") /\ PowerVSFails("WorkspaceReady") /\ UNCHANGED local
    /\ UNCHANGED <<keys, secret>>

WorkspaceError ==
    /\ Fault("api")
    /\ PowerVSFails("WorkspaceReady")
    /\ UNCHANGED <<cloudVars, local>>

ReconcileWorkspace ==
    /\ pc = "components" /\ pvs = "workspace"
    /\ VerifyWorkspace \/ ResolveWorkspace \/ CreateWorkspace \/ WorkspaceError
    /\ UNCHANGED <<apiVars, bound, pc, vpc, loop>>

\* A network that is still building neither requeues nor touches its condition.
NetworkPending ==
    /\ pvs' = "done"
    /\ UNCHANGED res

\* ReconcileNetwork with a known ID; a provisioned one checks its DHCP server.
VerifyNetwork ==
    /\ "network" \in local.id
    /\ NoFault
    /\ \/ /\ cloud["network"] = "active"
          /\ pvs' = "done"
          /\ res' = [res EXCEPT !.cond["NetworkReady"] = "true"]
       \/ cloud["network"] = "pending" /\ NetworkPending
       \/ cloud["network"] \notin {"active", "pending"} /\ PowerVSFails("NetworkReady")
    /\ UNCHANGED <<cloudVars, local>>

\* reconcileNetworkReference, or a DHCP server recovered by its network's name.
ResolveNetwork ==
    /\ "network" \notin local.id
    /\ Exists("network")
    /\ NoFault
    /\ Record("network")
    /\ NetworkPending
    /\ UNCHANGED cloudVars

\* reconcileNetworkProvision: the DHCP server and its network are created.
CreateNetwork ==
    /\ "network" \notin local.id
    /\ Provision("network") /\ ~Exists("network")
    /\ CreateAs("network", "pending")
    /\ \/ NoFault /\ Record("network") /\ NetworkPending
       \/ Fault("lost") /\ PowerVSFails("NetworkReady") /\ UNCHANGED local
    /\ UNCHANGED <<keys, secret>>

NetworkError ==
    /\ Fault("api")
    /\ PowerVSFails("NetworkReady")
    /\ UNCHANGED <<cloudVars, local>>

ReconcileNetwork ==
    /\ pc = "components" /\ pvs = "network"
    /\ VerifyNetwork \/ ResolveNetwork \/ CreateNetwork \/ NetworkError
    /\ UNCHANGED <<apiVars, bound, pc, vpc, loop>>

----------------------------------------------------------------------------
(* reconcileVPCResources.                                                  *)

VPCFails(c) ==
    /\ vpc' = "done"
    /\ loop' = NoLoop
    /\ res' = [res EXCEPT !.cond[c] = "false", !.err = TRUE]

VPCRequeues ==
    /\ vpc' = "done"
    /\ loop' = NoLoop
    /\ res' = [res EXCEPT !.requeue = TRUE]

VPCProceeds(c, next) ==
    /\ vpc' = next
    /\ loop' = NoLoop
    /\ res' = [res EXCEPT !.cond[c] = "true"]

\* One iteration of a loop over a list: flag is what the iteration adds to
\* anyPending or isAnyLoadBalancerNotReady.
NextIteration(flag) ==
    /\ loop' = [loop EXCEPT !.i = @ + 1, !.flag = @ \/ flag]
    /\ UNCHANGED <<vpc, res>>

\* ReconcileVPC with a known ID: only "pending" is waited for.
VerifyVPC ==
    /\ "vpc" \in local.id
    /\ NoFault
    /\ \/ cloud["vpc"] = "pending" /\ VPCRequeues
       \/ cloud["vpc"] \notin {"pending", "absent"} /\ VPCProceeds("VPCReady", "subnet")
    /\ UNCHANGED <<cloudVars, local>>

\* reconcileVPCReference, or a VPC recovered by its name whatever its state.
ResolveVPC ==
    /\ "vpc" \notin local.id
    /\ Exists("vpc")
    /\ NoFault
    /\ Record("vpc")
    /\ VPCProceeds("VPCReady", "subnet")
    /\ UNCHANGED cloudVars

\* reconcileVPCProvision and createVPC: the VPC, then the rule on its default
\* security group.  The status is written only when both calls succeed.
CreateVPC ==
    /\ "vpc" \notin local.id
    /\ Provision("vpc") /\ ~Exists("vpc")
    /\ CreateAs("vpc", "pending")
    /\ \/ NoFault /\ Record("vpc") /\ VPCRequeues
       \/ /\ Fault("lost") \/ Fault("api")
          /\ VPCFails("VPCReady")
          /\ UNCHANGED local
    /\ UNCHANGED <<keys, secret>>

VPCError ==
    /\ \/ Fault("api")
       \/ NoFault /\ "vpc" \in local.id /\ ~Exists("vpc")
    /\ VPCFails("VPCReady")
    /\ UNCHANGED <<cloudVars, local>>

ReconcileVPC ==
    /\ pc = "components" /\ vpc = "vpc"
    /\ VerifyVPC \/ ResolveVPC \/ CreateVPC \/ VPCError
    /\ UNCHANGED <<apiVars, bound, pc, pvs>>

\* A subnet in the status is only checked to exist.  Any other one is resolved
\* or created, and a provisioned one makes the whole reconcile come back.
VerifySubnet(s) ==
    /\ s \in local.id
    /\ Exists(s)
    /\ NoFault
    /\ NextIteration(FALSE)
    /\ UNCHANGED <<cloudVars, local>>

\* Mutant: a subnet found by name is not written to the status.
ResolveSubnetUnrecorded(s) ==
    /\ s \notin local.id
    /\ Exists(s)
    /\ NoFault
    /\ NextIteration(Provision(s))
    /\ UNCHANGED <<cloudVars, local>>

ResolveSubnet(s) ==
    /\ s \notin local.id
    /\ Exists(s)
    /\ NoFault
    /\ Record(s)
    /\ NextIteration(Provision(s))
    /\ UNCHANGED cloudVars

\* Mutant: a subnet is created without looking its name up.
CreateSubnetBlindly(s) ==
    /\ s \notin local.id
    /\ Provision(s)
    /\ CreateAs(s, "pending")
    /\ \/ NoFault /\ Record(s) /\ NextIteration(TRUE)
       \/ Fault("lost") /\ VPCFails("VPCSubnetReady") /\ UNCHANGED local
    /\ UNCHANGED <<keys, secret>>

CreateSubnet(s) ==
    /\ s \notin local.id
    /\ Provision(s) /\ ~Exists(s)
    /\ CreateAs(s, "pending")
    /\ \/ NoFault /\ Record(s) /\ NextIteration(TRUE)
       \/ Fault("lost") /\ VPCFails("VPCSubnetReady") /\ UNCHANGED local
    /\ UNCHANGED <<keys, secret>>

SubnetError(s) ==
    /\ \/ Fault("api")
       \/ NoFault /\ s \in local.id /\ ~Exists(s)
    /\ VPCFails("VPCSubnetReady")
    /\ UNCHANGED <<cloudVars, local>>

ReconcileVPCSubnets ==
    /\ pc = "components" /\ vpc = "subnet"
    /\ \/ /\ loop.i \in DOMAIN Subnets
          /\ LET s == Subnets[loop.i]
             IN VerifySubnet(s) \/ ResolveSubnet(s) \/ CreateSubnet(s) \/ SubnetError(s)
       \/ /\ loop.i \notin DOMAIN Subnets
          /\ NoFault
          /\ IF loop.flag THEN VPCRequeues ELSE VPCProceeds("VPCSubnetReady", "sg")
          /\ UNCHANGED <<cloudVars, local>>
    /\ UNCHANGED <<apiVars, bound, pc, pvs>>

\* reconcileVPCSecurityGroupReference, or reconcileVPCSecurityGroupProvision:
\* looked up by name or created, read back, its rules created.
ResolveSecurityGroup(g) ==
    /\ Exists(g)
    /\ NoFault
    /\ NextIteration(FALSE)
    /\ UNCHANGED cloudVars

CreateSecurityGroup(g) ==
    /\ Provision(g) /\ ~Exists(g)
    /\ CreateAs(g, "active")
    /\ \/ NoFault /\ NextIteration(FALSE)
       \/ (Fault("lost") \/ Fault("api")) /\ VPCFails("VPCSecurityGroupReady")
    /\ UNCHANGED <<keys, secret>>

SecurityGroupError ==
    /\ Fault("api")
    /\ VPCFails("VPCSecurityGroupReady")
    /\ UNCHANGED cloudVars

\* The status lists the security groups only once every one of them succeeded.
ReconcileVPCSecurityGroups ==
    /\ pc = "components" /\ vpc = "sg"
    /\ \/ /\ loop.i \in DOMAIN SecurityGroups
          /\ LET g == SecurityGroups[loop.i]
             IN ResolveSecurityGroup(g) \/ CreateSecurityGroup(g) \/ SecurityGroupError
          /\ UNCHANGED local
       \/ /\ loop.i \notin DOMAIN SecurityGroups
          /\ NoFault
          /\ local' = [local EXCEPT !.id = @ \cup SecurityGroupSet]
          /\ VPCProceeds("VPCSecurityGroupReady", "lb")
          /\ UNCHANGED cloudVars
    /\ UNCHANGED <<apiVars, bound, pc, pvs>>

\* A referenced load balancer, or one in the status: checkLoadBalancerState.
VerifyLoadBalancer(l) ==
    /\ l \in Referenced \/ l \in local.id
    /\ Exists(l)
    /\ NoFault
    /\ \E hostname \in HostnameChoices(l) : SetLoadBalancerStatus(l, hostname)
    /\ NextIteration(cloud[l] # "active")
    /\ UNCHANGED cloudVars

\* checkLoadBalancer: found by name, recorded, its state not looked at.
RecoverLoadBalancer(l) ==
    /\ l \notin Referenced \cup local.id
    /\ Exists(l)
    /\ NoFault
    /\ \E hostname \in HostnameChoices(l) : SetLoadBalancerStatus(l, hostname)
    /\ NextIteration(FALSE)
    /\ UNCHANGED cloudVars

CreateLoadBalancer(l) ==
    /\ l \notin Referenced \cup local.id
    /\ ~Exists(l)
    /\ CreateAs(l, "pending")
    /\ \/ /\ NoFault
          /\ \E hostname \in BOOLEAN : SetLoadBalancerStatus(l, hostname)
          /\ NextIteration(TRUE)
       \/ Fault("lost") /\ VPCFails("VPCLoadBalancerReady") /\ UNCHANGED local
    /\ UNCHANGED <<keys, secret>>

LoadBalancerError(l) ==
    /\ \/ Fault("api")
       \/ NoFault /\ l \in local.id /\ ~Exists(l)
    /\ VPCFails("VPCLoadBalancerReady")
    /\ UNCHANGED <<cloudVars, local>>

\* A load balancer that is not ready neither requeues nor touches its condition.
LoadBalancersReconciled ==
    /\ NoFault
    /\ vpc' = "done"
    /\ loop' = NoLoop
    /\ res' = IF loop.flag THEN res
              ELSE [res EXCEPT !.cond["VPCLoadBalancerReady"] = "true"]
    /\ UNCHANGED <<cloudVars, local>>

ReconcileLoadBalancers ==
    /\ pc = "components" /\ vpc = "lb"
    /\ \/ /\ loop.i \in DOMAIN LoadBalancers
          /\ LET l == LoadBalancers[loop.i]
             IN \/ VerifyLoadBalancer(l) \/ RecoverLoadBalancer(l)
                \/ CreateLoadBalancer(l) \/ LoadBalancerError(l)
       \/ loop.i \notin DOMAIN LoadBalancers /\ LoadBalancersReconciled
    /\ UNCHANGED <<apiVars, bound, pc, pvs>>

----------------------------------------------------------------------------
(* reconcile, from wg.Wait on.                                             *)

SetCondition(c, v) == [local EXCEPT !.cond[c] = v]

\* Mutant: the collected conditions replace the object's.
JoinReplaces ==
    /\ pc = "components" /\ pvs = "done" /\ vpc = "done"
    /\ local' = [local EXCEPT !.cond = res.cond]
    /\ pc' = IF res.err \/ res.requeue THEN "patch" ELSE "tg"
    /\ res' = NoResult
    /\ NoFault
    /\ UNCHANGED <<cloudVars, apiVars, bound, pvs, vpc, loop>>

\* Both results are in: their conditions are set, then errors and requeues count.
Join ==
    /\ pc = "components" /\ pvs = "done" /\ vpc = "done"
    /\ local' = [local EXCEPT !.cond =
                    [c \in Conditions |-> IF c \in ConditionTypes /\ res.cond[c] # "none"
                                          THEN res.cond[c] ELSE @[c]]]
    /\ pc' = IF res.err \/ res.requeue THEN "patch" ELSE "tg"
    /\ res' = NoResult
    /\ NoFault
    /\ UNCHANGED <<cloudVars, apiVars, bound, pvs, vpc, loop>>

TransitGatewayFails ==
    /\ local' = SetCondition("TransitGatewayReady", "false")
    /\ pc' = "patch"
    /\ loop' = NoLoop

TransitGatewayRequeues ==
    /\ pc' = "patch"
    /\ loop' = NoLoop

\* checkTransitGatewayStatus of a gateway in the status, or of a referenced
\* one, which is recorded first; an available one goes on to its connections.
CheckTransitGateway ==
    /\ "tg" \in local.id \/ "tg" \in Referenced
    /\ LET o == [local EXCEPT !.id = @ \cup {"tg"}]
       IN \/ cloud["tg"] = "active" /\ local' = o /\ pc' = "vpcConn" /\ UNCHANGED loop
          \/ cloud["tg"] = "pending" /\ local' = o /\ TransitGatewayRequeues
          \/ /\ cloud["tg"] \notin {"active", "pending"}
             /\ local' = [o EXCEPT !.cond["TransitGatewayReady"] = "false"]
             /\ pc' = "patch"
             /\ loop' = NoLoop
    /\ NoFault
    /\ UNCHANGED cloudVars

\* provisionTransitGateway: a lookup by name whose error is dropped, then the
\* create.  Either way the status is written and the reconcile comes back.
RecoverTransitGateway ==
    /\ Provision("tg") /\ "tg" \notin local.id
    /\ Exists("tg")
    /\ NoFault
    /\ Record("tg")
    /\ TransitGatewayRequeues
    /\ UNCHANGED cloudVars

CreateTransitGateway ==
    /\ Provision("tg") /\ "tg" \notin local.id
    /\ CreateAs("tg", "pending")
    /\ \/ ~Exists("tg") /\ NoFault /\ Record("tg") /\ TransitGatewayRequeues
       \/ Exists("tg") /\ Fault("api") /\ Record("tg") /\ TransitGatewayRequeues
       \/ ~Exists("tg") /\ Fault("lost") /\ TransitGatewayFails
    /\ UNCHANGED <<keys, secret>>

TransitGatewayError ==
    /\ Fault("api")
    /\ TransitGatewayFails
    /\ UNCHANGED cloudVars

ReconcileTransitGateway ==
    /\ pc = "tg"
    /\ \/ CheckTransitGateway \/ RecoverTransitGateway
       \/ CreateTransitGateway \/ TransitGatewayError
    /\ UNCHANGED <<apiVars, bound, pvs, vpc, res>>

\* After the last connection: a requeue leaves the condition alone.
ConnectionDone(c, o, requeue) ==
    IF c = "vpcConn"
    THEN local' = o /\ pc' = "pvsConn" /\ loop' = [loop EXCEPT !.flag = requeue]
    ELSE IF loop.flag \/ requeue
    THEN local' = o /\ pc' = "patch" /\ loop' = NoLoop
    ELSE /\ local' = [o EXCEPT !.cond["TransitGatewayReady"] = "true"]
         /\ pc' = IF HasCOS THEN "cos" ELSE "finish"
         /\ loop' = NoLoop

\* reconcileConnectionReference, or one that already joins the network:
\* recorded, then checkTransitGatewayConnectionStatus.
CheckConnection(c) ==
    /\ Exists(c)
    /\ NoFault
    /\ LET o == [local EXCEPT !.id = @ \cup {c}]
       IN \/ cloud[c] \in {"active", "pending"} /\ ConnectionDone(c, o, cloud[c] = "pending")
          \/ /\ cloud[c] \notin {"active", "pending"}
             /\ local' = [o EXCEPT !.cond["TransitGatewayReady"] = "false"]
             /\ pc' = "patch"
             /\ loop' = NoLoop
    /\ UNCHANGED cloudVars

CreateConnection(c) ==
    /\ Provision(c) /\ ~Exists(c)
    /\ CreateAs(c, "pending")
    /\ \/ NoFault /\ ConnectionDone(c, [local EXCEPT !.id = @ \cup {c}], TRUE)
       \/ Fault("lost") /\ TransitGatewayFails
    /\ UNCHANGED <<keys, secret>>

ConnectionError ==
    /\ Fault("api")
    /\ TransitGatewayFails
    /\ UNCHANGED cloudVars

ReconcileConnection ==
    /\ pc \in {"vpcConn", "pvsConn"}
    /\ CheckConnection(pc) \/ CreateConnection(pc) \/ ConnectionError
    /\ UNCHANGED <<apiVars, bound, pvs, vpc, res>>

COSFails(o) ==
    /\ local' = [o EXCEPT !.cond["COSInstanceReady"] = "false"]
    /\ pc' = "patch"

\* resolveCOSInstance of an instance that exists: its ID is recorded whether or
\* not it is active, and only an active one goes on.
ResolveCOSInstance ==
    /\ Exists("cos")
    /\ NoFault
    /\ LET o == [local EXCEPT !.id = @ \cup {"cos"}]
       IN IF cloud["cos"] = "active" THEN local' = o /\ pc' = "hmac" ELSE COSFails(o)
    /\ UNCHANGED cloudVars

\* reconcileCOSProvision: the new instance may be active at once or not.
CreateCOSInstance ==
    /\ "cos" \notin local.id
    /\ Provision("cos") /\ ~Exists("cos")
    /\ \E state \in {"pending", "active"} :
         /\ CreateAs("cos", state)
         /\ LET o == [local EXCEPT !.id = @ \cup {"cos"}]
            IN \/ /\ NoFault
                  /\ IF state = "active" THEN local' = o /\ pc' = "hmac" ELSE COSFails(o)
               \/ Fault("lost") /\ COSFails(local)
    /\ UNCHANGED <<keys, secret>>

COSError ==
    /\ \/ Fault("api")
       \/ NoFault /\ pc = "cos" /\ "cos" \in local.id /\ ~Exists("cos")
    /\ COSFails(local)
    /\ UNCHANGED cloudVars

ReconcileCOSInstance ==
    /\ pc = "cos"
    /\ ResolveCOSInstance \/ CreateCOSInstance \/ COSError
    /\ UNCHANGED <<apiVars, bound, pvs, vpc, loop, res>>

COSReady(hmac) ==
    /\ local' = [local EXCEPT !.hmac = hmac, !.cond["COSInstanceReady"] = "true"]
    /\ pc' = "finish"

IssueKey == keys' = IF keys < MaxKeys THEN keys + 1 ELSE keys

\* The bucket, then reconcileCOSHMACKey.  A name in the status and the Secret
\* it names end the step; otherwise a key is issued, the Secret is created (an
\* error if it exists) and its name recorded.
KeepHMACKey ==
    /\ local.hmac /\ secret
    /\ NoFault
    /\ COSReady(TRUE)
    /\ UNCHANGED cloudVars

IssueHMACKey ==
    /\ \/ ~(local.hmac /\ secret) /\ NoFault
       \/ local.hmac /\ secret /\ Fault("api")
    /\ IssueKey
    /\ IF secret THEN COSFails(local) ELSE COSReady(TRUE)
    /\ secret' = TRUE
    /\ UNCHANGED <<cloud, created, dup>>

\* The key is issued and the answer, or the Secret's creation, or the answer
\* to that, is lost.
HMACKeyLost ==
    /\ ~(local.hmac /\ secret)
    /\ IssueKey
    /\ \/ Fault("api") /\ UNCHANGED secret
       \/ Fault("lost") /\ secret' \in {secret, TRUE}
    /\ COSFails(local)
    /\ UNCHANGED <<cloud, created, dup>>

ReconcileCOSHMACKey ==
    /\ pc = "hmac"
    /\ KeepHMACKey \/ IssueHMACKey \/ HMACKeyLost \/ COSError
    /\ UNCHANGED <<apiVars, bound, pvs, vpc, loop, res>>

----------------------------------------------------------------------------
(* Load balancer names.  ReconcileLoadBalancers and the hostname lookup    *)
(* build the name of an unnamed load balancer each in its own way.         *)

LoadBalancerName(i) ==
    LET l == LoadBalancers[i] IN
    IF l \notin UnnamedLBs THEN [name |-> l, index |-> 0]
    ELSE [name |-> IF l \in PrivateLBs THEN "lb-private" ELSE "lb-public",
          index |-> IF i = 1 THEN 0 ELSE i]

HostnameLookupName(i) ==
    LET l == LoadBalancers[i] IN
    IF l \notin UnnamedLBs THEN [name |-> l, index |-> 0]
    ELSE [name |-> "lb-public", index |-> i]

GetPublicLoadBalancerHostName ==
    \E i, j \in DOMAIN LoadBalancers :
        /\ LoadBalancers[i] \notin PrivateLBs
        /\ LoadBalancers[j] \in local.host
        /\ HostnameLookupName(i) = LoadBalancerName(j)

\* Mutant: the end of reconcile does not look at NetworkReady.
FinishWithoutNetwork ==
    /\ pc = "finish"
    /\ NoFault
    /\ local' = IF local.cond["VPCLoadBalancerReady"] = "true" /\ GetPublicLoadBalancerHostName
                THEN [local EXCEPT !.endpoint = TRUE, !.provisioned = TRUE] ELSE local
    /\ pc' = "patch"
    /\ UNCHANGED <<cloudVars, apiVars, bound, pvs, vpc, loop, res>>

\* The end of reconcile: the two conditions nobody waited for, the hostname,
\* the endpoint and Initialization.Provisioned.
Finish ==
    /\ pc = "finish"
    /\ \/ NoFault
          /\ local' = IF /\ local.cond["NetworkReady"] = "true"
                         /\ local.cond["VPCLoadBalancerReady"] = "true"
                         /\ GetPublicLoadBalancerHostName
                      THEN [local EXCEPT !.endpoint = TRUE, !.provisioned = TRUE]
                      ELSE local
       \/ Fault("api") /\ UNCHANGED local
    /\ pc' = "patch"
    /\ UNCHANGED <<cloudVars, apiVars, bound, pvs, vpc, loop, res>>

ReconcileStep ==
    \/ Prepare \/ ReconcileWorkspace \/ ReconcileNetwork
    \/ ReconcileVPC \/ ReconcileVPCSubnets \/ ReconcileVPCSecurityGroups
    \/ ReconcileLoadBalancers \/ Join
    \/ ReconcileTransitGateway \/ ReconcileConnection
    \/ ReconcileCOSInstance \/ ReconcileCOSHMACKey \/ Finish
=============================================================================
