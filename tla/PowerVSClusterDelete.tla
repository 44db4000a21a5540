------------------------ MODULE PowerVSClusterDelete -------------------------
(***************************************************************************)
(* The delete path: reconcileDelete, deleteIBMPowerVSImage and the scope's *)
(* Delete* methods, in the order reconcileDelete calls them.  An error is  *)
(* kept in allErrs (res.err) and the next method runs; a pending deletion  *)
(* ends the reconcile.                                                     *)
(***************************************************************************)
EXTENDS PowerVSClusterReconcile

\* The condition reconcileDelete sets just before the method at pc runs.
DeletingCondition ==
    [delTG |-> "TransitGatewayReady", delLB |-> "VPCLoadBalancerReady",
     delSG |-> "VPCSecurityGroupReady", delSubnet |-> "VPCSubnetReady",
     delVPC |-> "VPCReady", delDHCP |-> "NetworkReady",
     delWorkspace |-> "WorkspaceReady", delCOS |-> "COSInstanceReady"]

Deleting(o) == [o EXCEPT !.cond[DeletingCondition[pc]] = "false"]

\* The method returns an error, returns with nothing left to do, or asks to
\* come back later.
DeleteFails(next) ==
    /\ local' = Deleting(local)
    /\ res' = [res EXCEPT !.err = TRUE]
    /\ pc' = next
    /\ loop' = NoLoop

DeleteDone(next, o) ==
    /\ local' = Deleting(o)
    /\ pc' = next
    /\ loop' = NoLoop
    /\ UNCHANGED res

DeleteRequeues ==
    /\ local' = Deleting(local)
    /\ pc' = "patch"
    /\ loop' = NoLoop
    /\ UNCHANGED res

\* IBM Cloud accepts the delete call for r.
StartDelete(r) ==
    /\ ~InUse(r)
    /\ cloud' = [cloud EXCEPT ![r] = "deleting"]
    /\ UNCHANGED <<created, dup, keys, secret>>

\* A call of the method for r fails: any call, or the delete call because r is in use.
CallFails(r) ==
    /\ \/ Fault("api")
       \/ NoFault /\ Exists(r) /\ cloud[r] # "deleting" /\ InUse(r)
    /\ UNCHANGED cloudVars

----------------------------------------------------------------------------

\* deleteIBMPowerVSImage: the owned images not yet being deleted are deleted
\* (the calls for some of them may fail), and any image left ends the reconcile.
\* So does a list call that fails.
DeleteImages ==
    /\ pc = "images"
    /\ LET left == {m \in Images : images[m] # "gone"}
           children == {m \in left \cap OwnedImages : images[m] = "live"}
       IN \/ Fault("api") /\ pc' = "patch" /\ UNCHANGED <<local, images>>
          \/ /\ left # {}
             /\ \E ok \in SUBSET children :
                  /\ IF ok = children THEN NoFault ELSE Fault("api")
                  /\ images' = [m \in Images |-> IF m \in ok THEN "deleting" ELSE images[m]]
             /\ pc' = "patch"
             /\ UNCHANGED local
          \/ /\ left = {} /\ NoFault
             /\ IF Topology = "LoadBalancer"
                THEN pc' = "delTG" /\ UNCHANGED local
                ELSE pc' = "patch" /\ local' = [local EXCEPT !.finalizer = FALSE]
             /\ UNCHANGED images
    /\ UNCHANGED <<cloudVars, stored, phase, gate, recorded, bound, pvs, vpc, loop, res>>

----------------------------------------------------------------------------
\* DeleteTransitGateway and deleteTransitGatewayConnections.  The connections
\* go first, the PowerVS one before the VPC one, each with its own requeue.
NoTransitGateway == [local EXCEPT !.id = @ \ {"tg", "vpcConn", "pvsConn"}]

OwnedConnection(c) == Provision(c) /\ c \in local.id /\ Exists(c)

ConnectionToDelete ==
    IF OwnedConnection("pvsConn") THEN "pvsConn"
    ELSE IF OwnedConnection("vpcConn") THEN "vpcConn" ELSE "none"

DeleteTransitGatewayConnection(c) ==
    /\ \/ cloud[c] = "deleting" /\ UNCHANGED cloudVars
       \/ cloud[c] # "deleting" /\ StartDelete(c)
    /\ NoFault
    /\ DeleteRequeues

DeleteTransitGateway ==
    /\ pc = "delTG"
    /\ \/ /\ "tg" \notin local.id \/ ~Exists("tg")
          /\ NoFault
          /\ DeleteDone("delLB", IF "tg" \in local.id THEN NoTransitGateway ELSE local)
          /\ UNCHANGED cloudVars
       \/ /\ "tg" \in local.id /\ cloud["tg"] = "deleting"
          /\ NoFault
          /\ DeleteRequeues
          /\ UNCHANGED cloudVars
       \/ /\ "tg" \in local.id /\ Exists("tg") /\ cloud["tg"] # "deleting"
          /\ \/ ConnectionToDelete # "none" /\ DeleteTransitGatewayConnection(ConnectionToDelete)
             \/ /\ ConnectionToDelete = "none" /\ ~Provision("tg")
                /\ NoFault
                /\ DeleteDone("delLB", NoTransitGateway)
                /\ UNCHANGED cloudVars
             \/ /\ ConnectionToDelete = "none" /\ Provision("tg")
                /\ NoFault
                /\ StartDelete("tg")
                /\ DeleteRequeues
       \/ /\ "tg" \in local.id
          /\ IF Provision("tg") /\ ConnectionToDelete = "none"
             THEN CallFails("tg") ELSE Fault("api") /\ UNCHANGED cloudVars
          /\ DeleteFails("delLB")
    /\ UNCHANGED <<apiVars, bound, pvs, vpc>>

----------------------------------------------------------------------------
\* A delete loop goes on to the next element, remembering errors and requeues;
\* after the last one, errors win over requeues.
NextDelete(requeue, err) ==
    /\ loop' = [loop EXCEPT !.i = @ + 1, !.flag = @ \/ requeue, !.err = @ \/ err]
    /\ UNCHANGED <<pc, res>>

DeleteLoopEnds(next) ==
    /\ NoFault
    /\ IF loop.err THEN DeleteFails(next)
       ELSE IF loop.flag THEN DeleteRequeues ELSE DeleteDone(next, local)
    /\ UNCHANGED cloudVars

\* Mutant: a referenced load balancer is deleted like any other.
DeleteAnyLoadBalancer(l) ==
    /\ NoFault
    /\ \/ ~Exists(l) /\ NextDelete(FALSE, FALSE) /\ UNCHANGED cloudVars
       \/ cloud[l] = "deleting" /\ NextDelete(TRUE, FALSE) /\ UNCHANGED cloudVars
       \/ Exists(l) /\ cloud[l] # "deleting" /\ StartDelete(l) /\ NextDelete(TRUE, FALSE)

\* Mutant: the deletion of a load balancer is not waited for.
DeleteLoadBalancerUnwaited(l) ==
    /\ NoFault
    /\ NextDelete(FALSE, FALSE)
    /\ IF l \in Referenced \/ cloud[l] \in {"absent", "deleting"}
       THEN UNCHANGED cloudVars ELSE StartDelete(l)

\* One load balancer of DeleteLoadBalancer: found by ID or, failing that, by name.
DeleteOneLoadBalancer(l) ==
    \/ /\ l \in Referenced \/ ~Exists(l)
       /\ NoFault
       /\ NextDelete(FALSE, FALSE)
       /\ UNCHANGED cloudVars
    \/ /\ l \notin Referenced /\ Exists(l)
       /\ NoFault
       /\ \/ cloud[l] = "deleting" /\ UNCHANGED cloudVars
          \/ cloud[l] # "deleting" /\ StartDelete(l)
       /\ NextDelete(TRUE, FALSE)
    \/ /\ l \notin Referenced
       /\ CallFails(l)
       /\ NextDelete(FALSE, TRUE)

DeleteLoadBalancer ==
    /\ pc = "delLB"
    /\ \/ /\ loop.i \in DOMAIN LoadBalancers
          /\ DeleteOneLoadBalancer(LoadBalancers[loop.i])
          /\ UNCHANGED local
       \/ loop.i \notin DOMAIN LoadBalancers /\ DeleteLoopEnds("delSG")
    /\ UNCHANGED <<apiVars, bound, pvs, vpc>>

\* One entry of the status in DeleteVPCSecurityGroups: the delete takes effect
\* at once, and the first error ends the method.
DeleteOneSecurityGroup(g) ==
    \/ /\ ~(g \in local.id /\ Provision(g) /\ Exists(g))
       /\ NoFault
       /\ NextDelete(FALSE, FALSE)
       /\ UNCHANGED <<cloudVars, local>>
    \/ /\ g \in local.id /\ Provision(g) /\ Exists(g)
       /\ NoFault
       /\ cloud' = [cloud EXCEPT ![g] = "absent"]
       /\ NextDelete(FALSE, FALSE)
       /\ UNCHANGED <<created, dup, keys, secret, local>>
    \/ /\ g \in local.id /\ Provision(g)
       /\ Fault("api")
       /\ DeleteFails("delSubnet")
       /\ UNCHANGED cloudVars

DeleteVPCSecurityGroups ==
    /\ pc = "delSG"
    /\ \/ /\ loop.i \in DOMAIN SecurityGroups
          /\ DeleteOneSecurityGroup(SecurityGroups[loop.i])
       \/ loop.i \notin DOMAIN SecurityGroups /\ DeleteLoopEnds("delSubnet")
    /\ UNCHANGED <<apiVars, bound, pvs, vpc>>

\* Mutant: a subnet leaves the status as soon as its delete call is accepted.
DeleteSubnetForgets(s) ==
    /\ NoFault
    /\ local' = [local EXCEPT !.id = @ \ {s}]
    /\ \/ s \in local.id /\ Exists(s) /\ StartDelete(s) /\ NextDelete(TRUE, FALSE)
       \/ ~(s \in local.id /\ Exists(s)) /\ NextDelete(FALSE, FALSE) /\ UNCHANGED cloudVars

\* Mutant: a subnet IBM Cloud no longer knows is an error.
DeleteSubnetMustExist(s) ==
    /\ \/ s \notin local.id /\ NoFault /\ NextDelete(FALSE, FALSE) /\ UNCHANGED cloudVars
       \/ /\ s \in local.id /\ Exists(s)
          /\ NoFault
          /\ IF cloud[s] = "deleting" THEN UNCHANGED cloudVars ELSE StartDelete(s)
          /\ NextDelete(TRUE, FALSE)
       \/ /\ s \in local.id
          /\ CallFails(s) \/ (~Exists(s) /\ NoFault /\ UNCHANGED cloudVars)
          /\ NextDelete(FALSE, TRUE)
    /\ UNCHANGED local

\* One entry of the status in DeleteVPCSubnets; updatedStatus drops the ones
\* that are not managed and the ones IBM Cloud no longer knows.
DeleteOneSubnet(s) ==
    \/ /\ ~(s \in local.id /\ Provision(s) /\ Exists(s))
       /\ NoFault
       /\ local' = [local EXCEPT !.id = @ \ {s}]
       /\ NextDelete(FALSE, FALSE)
       /\ UNCHANGED cloudVars
    \/ /\ s \in local.id /\ Provision(s) /\ Exists(s)
       /\ NoFault
       /\ \/ cloud[s] = "deleting" /\ UNCHANGED cloudVars
          \/ cloud[s] # "deleting" /\ StartDelete(s)
       /\ NextDelete(TRUE, FALSE)
       /\ UNCHANGED local
    \/ /\ s \in local.id /\ Provision(s)
       /\ CallFails(s)
       /\ NextDelete(FALSE, TRUE)
       /\ UNCHANGED local

DeleteVPCSubnets ==
    /\ pc = "delSubnet"
    /\ \/ loop.i \in DOMAIN Subnets /\ DeleteOneSubnet(Subnets[loop.i])
       \/ loop.i \notin DOMAIN Subnets /\ DeleteLoopEnds("delVPC")
    /\ UNCHANGED <<apiVars, bound, pvs, vpc>>

----------------------------------------------------------------------------
DeleteVPC ==
    /\ pc = "delVPC"
    /\ \/ /\ ~(Provision("vpc") /\ "vpc" \in local.id /\ Exists("vpc"))
          /\ NoFault
          /\ DeleteDone("delDHCP", IF Provision("vpc")
                                   THEN [local EXCEPT !.id = @ \ {"vpc"}] ELSE local)
          /\ UNCHANGED cloudVars
       \/ /\ Provision("vpc") /\ "vpc" \in local.id /\ Exists("vpc")
          /\ NoFault
          /\ \/ cloud["vpc"] = "deleting" /\ UNCHANGED cloudVars
             \/ cloud["vpc"] # "deleting" /\ StartDelete("vpc")
          /\ DeleteRequeues
       \/ /\ Provision("vpc") /\ "vpc" \in local.id
          /\ CallFails("vpc")
          /\ DeleteFails("delDHCP")
    /\ UNCHANGED <<apiVars, bound, pvs, vpc>>

\* DeleteDHCPServer: only where the workspace's own deletion would not take the
\* network along; the deletion is not waited for.
ManagedDHCPServer == Provision("network") /\ ~Provision("workspace") /\ "network" \in local.id

DeleteDHCPServer ==
    /\ pc = "delDHCP"
    /\ \/ /\ ~(ManagedDHCPServer /\ Exists("network"))
          /\ NoFault
          /\ DeleteDone("delWorkspace", local)
          /\ UNCHANGED cloudVars
       \/ /\ ManagedDHCPServer /\ Exists("network")
          /\ NoFault
          /\ StartDelete("network")
          /\ DeleteDone("delWorkspace", local)
       \/ /\ ManagedDHCPServer
          /\ CallFails("network")
          /\ DeleteFails("delWorkspace")
    /\ UNCHANGED <<apiVars, bound, pvs, vpc>>

AfterWorkspace == IF HasCOS THEN "delCOS" ELSE "delEnd"

\* DeleteWorkspace: every error of the lookup is an error, not-found included,
\* and only the state "removed" ends it.
DeleteWorkspace ==
    /\ pc = "delWorkspace"
    /\ \/ /\ \/ ~(Provision("workspace") /\ "workspace" \in local.id)
             \/ cloud["workspace"] = "removed"
          /\ NoFault
          /\ DeleteDone(AfterWorkspace, local)
          /\ UNCHANGED cloudVars
       \/ /\ Provision("workspace") /\ "workspace" \in local.id
          /\ cloud["workspace"] \notin {"absent", "removed"}
          /\ NoFault
          /\ StartDelete("workspace")
          /\ DeleteRequeues
       \/ /\ Provision("workspace") /\ "workspace" \in local.id
          /\ Fault("api") \/ (NoFault /\ ~Exists("workspace"))
          /\ DeleteFails(AfterWorkspace)
          /\ UNCHANGED cloudVars
    /\ UNCHANGED <<apiVars, bound, pvs, vpc>>

ManagedCOS == Provision("cos") /\ "cos" \in local.id

\* DeleteCOSInstance: the HMAC Secret best effort, then the instance with all
\* it holds; the deletion is not waited for.
DeleteCOSInstance ==
    /\ pc = "delCOS"
    /\ \/ /\ ~ManagedCOS \/ cloud["cos"] \in {"absent", "deleting", "removed"}
          /\ NoFault
          /\ DeleteDone("delEnd", local)
          /\ UNCHANGED cloudVars
       \/ /\ ManagedCOS /\ cloud["cos"] \notin {"absent", "deleting", "removed"}
          /\ \/ NoFault /\ secret' = (secret /\ ~local.hmac)
             \/ Fault("api") /\ local.hmac /\ secret /\ UNCHANGED secret
          /\ cloud' = [cloud EXCEPT !["cos"] = "deleting"]
          /\ DeleteDone("delEnd", local)
          /\ UNCHANGED <<created, dup, keys>>
       \/ /\ ManagedCOS
          /\ Fault("api")
          /\ DeleteFails("delEnd")
          /\ secret' \in {secret, secret /\ ~local.hmac}
          /\ UNCHANGED <<cloud, created, dup, keys>>
    /\ UNCHANGED <<apiVars, bound, pvs, vpc>>

\* The end of reconcileDelete: the finalizer goes only when nothing failed.
DeleteEnds ==
    /\ pc = "delEnd"
    /\ local' = IF res.err THEN local ELSE [local EXCEPT !.finalizer = FALSE]
    /\ pc' = "patch"
    /\ res' = NoResult
    /\ NoFault
    /\ UNCHANGED <<cloudVars, apiVars, bound, pvs, vpc, loop>>

DeleteStep ==
    \/ DeleteImages \/ DeleteTransitGateway \/ DeleteLoadBalancer
    \/ DeleteVPCSecurityGroups \/ DeleteVPCSubnets \/ DeleteVPC
    \/ DeleteDHCPServer \/ DeleteWorkspace \/ DeleteCOSInstance \/ DeleteEnds
=============================================================================
