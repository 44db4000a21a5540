------------------------------ MODULE VPCCluster -----------------------------
(***************************************************************************)
(* The IBMVPCCluster controller for a cluster without Spec.Network: one    *)
(* VPC, one subnet with a public gateway, and a load balancer that the     *)
(* controller creates ("own") or that the user names by the hostname of    *)
(* the control plane endpoint ("given").  A resource is one value here,    *)
(* since every name belongs to one cluster; a load balancer stands for its *)
(* hostname and its ID.                                                    *)
(***************************************************************************)
EXTENDS Naturals

CONSTANTS
    Specs,       \* the specs the user may write
    MayDelete,   \* whether the user deletes the cluster
    MayPause,    \* whether the user pauses it
    FaultKinds,  \* the kinds of failure that may happen
    MaxFaults    \* bound on the number of failures

NoLB == "none"
LBs == {"own", "given"}

\* Whether there is a Spec.ControlPlaneLoadBalancer, and the load balancer of
\* Spec.ControlPlaneEndpoint.Host; the webhook wants one of them.
SpecType == {s \in [lb : BOOLEAN, host : {NoLB, "given"}] : s.lb \/ s.host # NoLB}

ASSUME SpecAssumption == Specs \subseteq SpecType
ASSUME BoundAssumption == MaxFaults \in Nat /\ MayDelete \in BOOLEAN /\ MayPause \in BOOLEAN
ASSUME FaultAssumption == FaultKinds \subseteq {"api", "lost", "patch", "crash", "cloud"}

VARIABLES
    \* IBM Cloud
    vpc,        \* whether the VPC exists
    rule,       \* whether its default security group admits the API server port
    subnet,     \* whether the subnet exists
    gateway,    \* its public gateway: "absent", "detached" or "attached"
    lbs,        \* provisioning status of each load balancer
    instances,  \* whether machines run in the VPC
    \* the API server
    spec,       \* the spec the user wrote
    stored,     \* the persisted IBMVPCCluster
    phase,      \* "live", "deleting" or "gone"
    gate,       \* "unowned", "paused" or "open"
    \* the controller
    local,      \* the in-memory copy
    pc,         \* where the reconcile stands
    \* failures
    faults      \* failures so far

networkVars == <<vpc, rule, subnet, gateway>>
cloudVars == <<networkVars, lbs, instances>>
apiVars == <<spec, stored, phase, gate>>
ctlVars == <<local, pc>>
vars == <<cloudVars, apiVars, ctlVars, faults>>

Status == {"none", "unknown", "true", "false"}
LBStates == {"absent", "create_pending", "active", "update_pending", "delete_pending"}

\* An IBMVPCCluster: finalizer and endpoint host; whether the VPC and the subnet
\* are recorded; load balancer ID and state; Ready; the three conditions.
ObjectType ==
    [finalizer : BOOLEAN, host : LBs \cup {NoLB},
     vpc : BOOLEAN, subnet : BOOLEAN, lb : LBs \cup {NoLB}, lbState : LBStates, ready : BOOLEAN,
     vpcReady : Status, subnetReady : Status, lbReady : Status]

NewObject ==
    [finalizer |-> FALSE, host |-> NoLB,
     vpc |-> FALSE, subnet |-> FALSE, lb |-> NoLB, lbState |-> "absent", ready |-> FALSE,
     vpcReady |-> "none", subnetReady |-> "none", lbReady |-> "none"]

CloudTypeOK ==
    /\ vpc \in BOOLEAN /\ rule \in BOOLEAN /\ subnet \in BOOLEAN
    /\ gateway \in {"absent", "detached", "attached"}
    /\ lbs \in [LBs -> LBStates]
    /\ instances \in BOOLEAN

ApiTypeOK ==
    /\ spec \in Specs
    /\ stored \in ObjectType
    /\ phase \in {"live", "deleting", "gone"}
    /\ gate \in {"unowned", "paused", "open"}

ControllerTypeOK ==
    /\ local \in ObjectType
    /\ pc \in {"idle", "host", "vpc", "createVPC", "rule", "subnet", "createSubnet",
               "gateway", "attach", "lb", "createLB", "instances", "findLB", "deleteLB",
               "findSubnet", "findGateway", "unset", "deleteGateway", "deleteSubnet",
               "deleteVPC", "patch"}
    /\ pc = "host" => local.host # NoLB

TypeOK == CloudTypeOK /\ ApiTypeOK /\ ControllerTypeOK /\ faults \in 0..MaxFaults

Init ==
    /\ vpc = FALSE /\ rule = FALSE /\ subnet = FALSE /\ gateway = "absent"
    /\ lbs = [b \in LBs |-> IF b = "given" THEN "active" ELSE "absent"]
    /\ instances = FALSE
    /\ spec \in Specs
    /\ stored = [NewObject EXCEPT !.host = spec.host]
    /\ phase = "live" /\ gate = "unowned"
    /\ local = NewObject /\ pc = "idle"
    /\ faults = 0

----------------------------------------------------------------------------
(* Failures.  "api": a call fails and has no effect; "lost": it takes      *)
(* effect and its answer is lost; "patch", "crash": as for the PowerVS     *)
(* cluster; "cloud": an active load balancer is updated for a while.       *)

NoFault == faults' = faults

Fault(kind) ==
    /\ kind \in FaultKinds
    /\ faults < MaxFaults
    /\ faults' = faults + 1

----------------------------------------------------------------------------
(* IBM Cloud, the user and the machines.                                   *)

\* A load balancer becomes active, or goes away once it was deleted.
LBProgress(b) ==
    /\ \/ /\ lbs[b] \in {"create_pending", "update_pending"}
          /\ lbs' = [lbs EXCEPT ![b] = "active"]
       \/ /\ lbs[b] = "delete_pending"
          /\ lbs' = [lbs EXCEPT ![b] = "absent"]
    /\ UNCHANGED <<networkVars, instances, apiVars, ctlVars, faults>>

LBUpdates(b) ==
    /\ lbs[b] = "active"
    /\ lbs' = [lbs EXCEPT ![b] = "update_pending"] /\ Fault("cloud")
    /\ UNCHANGED <<networkVars, instances, apiVars, ctlVars>>

\* Machines come up in the subnet of a ready cluster, and are deleted again.
StartInstances ==
    /\ stored.ready /\ phase = "live" /\ subnet /\ ~instances
    /\ instances' = TRUE
    /\ UNCHANGED <<networkVars, lbs, apiVars, ctlVars, faults>>

StopInstances ==
    /\ instances
    /\ instances' = FALSE
    /\ UNCHANGED <<networkVars, lbs, apiVars, ctlVars, faults>>

SetOwner ==
    /\ gate = "unowned" /\ gate' = "open"
    /\ UNCHANGED <<cloudVars, spec, stored, phase, ctlVars, faults>>

TogglePause ==
    /\ \/ MayPause /\ gate = "open" /\ gate' = "paused"
       \/ gate = "paused" /\ gate' = "open"
    /\ UNCHANGED <<cloudVars, spec, stored, phase, ctlVars, faults>>

DeleteObject ==
    /\ MayDelete /\ phase = "live"
    /\ phase' = IF stored.finalizer THEN "deleting" ELSE "gone"
    /\ UNCHANGED <<cloudVars, spec, stored, gate, ctlVars, faults>>

----------------------------------------------------------------------------
(* Reconcile up to the scope.                                              *)

\* No object, no owner, or a paused cluster: nothing is done.
ReconcileReturns ==
    /\ pc = "idle"
    /\ phase = "gone" \/ gate = "unowned" \/ (gate = "paused" /\ stored.finalizer)
    /\ UNCHANGED vars

EnsureFinalizer ==
    /\ pc = "idle" /\ phase = "live" /\ gate # "unowned" /\ ~stored.finalizer
    /\ stored' = [stored EXCEPT !.finalizer = TRUE]
    /\ UNCHANGED <<cloudVars, spec, phase, gate, ctlVars, faults>>

\* Reconcile and the first branch of reconcile and reconcileDelete.
StartReconcile ==
    /\ pc = "idle" /\ phase # "gone" /\ gate = "open" /\ stored.finalizer
    /\ local' = stored
    /\ pc' = CASE phase = "deleting" -> "instances"
               [] stored.host # NoLB -> "host"
               [] OTHER -> "vpc"
    /\ UNCHANGED <<cloudVars, apiVars, faults>>

----------------------------------------------------------------------------
(* reconcile.                                                              *)

\* The reconcile returns an error and leaves the copy as o.
Fails(o) == local' = o /\ pc' = "patch"

\* reconcileLBState: ID and state are recorded; only an active load balancer
\* makes the cluster ready.
ReconcileLBState(o, b) ==
    [o EXCEPT !.lb = b, !.lbState = lbs[b],
        !.ready = (lbs[b] = "active"),
        !.lbReady = CASE lbs[b] = "create_pending" -> "false"
                      [] lbs[b] = "active" -> "true"
                      [] OTHER -> "unknown"]

\* GetLoadBalancerByHostname for a host that is set: it has to be there.
GetLoadBalancerByHostname ==
    /\ pc = "host"
    /\ \/ /\ Fault("api") \/ (lbs[local.host] = "absent" /\ NoFault)
          /\ Fails(local)
       \/ /\ lbs[local.host] # "absent" /\ NoFault
          /\ local' = ReconcileLBState(local, local.host)
          /\ pc' = "vpc"
    /\ UNCHANGED <<cloudVars, apiVars>>

\* Mutant: the load balancer of the spec is made although the endpoint has a host.
LoadBalancerAnyway(o) == IF spec.lb /\ o.host # "own" THEN "lb" ELSE "patch"

\* After CreateVPC: the VPC is recorded and the subnet is next, unless the
\* status has one; then the load balancer, unless the endpoint has a host.
AfterSubnet(o) == IF spec.lb /\ o.host = NoLB THEN "lb" ELSE "patch"
AfterVPC(o) == IF o.subnet THEN AfterSubnet(o) ELSE "subnet"

VPCFound == [local EXCEPT !.vpc = TRUE, !.vpcReady = "true"]
VPCFailed == [local EXCEPT !.vpcReady = "false"]

\* CreateVPC, ensureVPCUnique: a VPC of this name is taken as it is.
FindVPC ==
    /\ pc = "vpc"
    /\ \/ Fault("api") /\ Fails(VPCFailed)
       \/ vpc /\ NoFault /\ local' = VPCFound /\ pc' = AfterVPC(local)
       \/ ~vpc /\ NoFault /\ pc' = "createVPC" /\ UNCHANGED local
    /\ UNCHANGED <<cloudVars, apiVars>>

CreateVPC ==
    /\ pc = "createVPC"
    /\ \/ Fault("api") /\ Fails(VPCFailed) /\ UNCHANGED vpc
       \/ /\ vpc' = TRUE
          /\ \/ NoFault /\ pc' = "rule" /\ UNCHANGED local
             \/ Fault("lost") /\ Fails(VPCFailed)
    /\ UNCHANGED <<rule, subnet, gateway, lbs, instances, apiVars>>

\* updateDefaultSG, tried once: the next reconcile finds the VPC.
UpdateDefaultSG ==
    /\ pc = "rule"
    /\ \/ Fault("api") /\ Fails(VPCFailed) /\ UNCHANGED rule
       \/ /\ rule' = TRUE
          /\ \/ NoFault /\ local' = VPCFound /\ pc' = AfterVPC(local)
             \/ Fault("lost") /\ Fails(VPCFailed)
    /\ UNCHANGED <<vpc, subnet, gateway, lbs, instances, apiVars>>

SubnetFound == [local EXCEPT !.subnet = TRUE, !.subnetReady = "true"]
SubnetFailed == [local EXCEPT !.subnetReady = "false"]

\* CreateSubnet, ensureSubnetUnique: a subnet of this name is taken as it is.
FindSubnet ==
    /\ pc = "subnet"
    /\ \/ Fault("api") /\ Fails(SubnetFailed)
       \/ subnet /\ NoFault /\ local' = SubnetFound /\ pc' = AfterSubnet(local)
       \/ ~subnet /\ NoFault /\ pc' = "createSubnet" /\ UNCHANGED local
    /\ UNCHANGED <<cloudVars, apiVars>>

\* getSubnetAddrPrefix and the creation.
CreateSubnet ==
    /\ pc = "createSubnet"
    /\ \/ Fault("api") /\ Fails(SubnetFailed) /\ UNCHANGED subnet
       \/ /\ subnet' = TRUE
          /\ \/ NoFault /\ pc' = "gateway" /\ UNCHANGED local
             \/ Fault("lost") /\ Fails(SubnetFailed)
    /\ UNCHANGED <<vpc, rule, gateway, lbs, instances, apiVars>>

CreatePublicGateWay ==
    /\ pc = "gateway"
    /\ \/ Fault("api") /\ Fails(SubnetFailed) /\ UNCHANGED gateway
       \/ /\ gateway' = "detached"
          /\ \/ NoFault /\ pc' = "attach" /\ UNCHANGED local
             \/ Fault("lost") /\ Fails(SubnetFailed)
    /\ UNCHANGED <<vpc, rule, subnet, lbs, instances, apiVars>>

AttachPublicGateWay ==
    /\ pc = "attach"
    /\ \/ Fault("api") /\ Fails(SubnetFailed) /\ UNCHANGED gateway
       \/ /\ gateway' = "attached"
          /\ \/ NoFault /\ local' = SubnetFound /\ pc' = AfterSubnet(local)
             \/ Fault("lost") /\ Fails(SubnetFailed)
    /\ UNCHANGED <<vpc, rule, subnet, lbs, instances, apiVars>>

\* CreateLoadBalancer, ensureLoadBalancerUnique; its hostname is the endpoint.
FindLoadBalancer ==
    /\ pc = "lb"
    /\ \/ Fault("api") /\ Fails(local)
       \/ /\ lbs["own"] # "absent" /\ NoFault
          /\ local' = ReconcileLBState([local EXCEPT !.host = "own"], "own")
          /\ pc' = "patch"
       \/ lbs["own"] = "absent" /\ NoFault /\ pc' = "createLB" /\ UNCHANGED local
    /\ UNCHANGED <<cloudVars, apiVars>>

CreateLoadBalancer ==
    /\ pc = "createLB"
    /\ \/ Fault("api") /\ UNCHANGED <<lbs, local>>
       \/ /\ lbs' = [lbs EXCEPT !["own"] = "create_pending"]
          /\ \/ /\ NoFault
                /\ local' = [local EXCEPT !.host = "own", !.lb = "own", !.ready = FALSE,
                                 !.lbState = "create_pending", !.lbReady = "false"]
             \/ Fault("lost") /\ UNCHANGED local
    /\ pc' = "patch"
    /\ UNCHANGED <<networkVars, instances, apiVars>>

----------------------------------------------------------------------------
(* reconcileDelete.                                                        *)

Finalized(o) == [o EXCEPT !.finalizer = FALSE]

\* Machines in the VPC are waited for.  A cluster with an endpoint host and no
\* load balancer of its own is let go at once.
ListInstances ==
    /\ pc = "instances"
    /\ \/ /\ Fault("api") \/ (instances /\ NoFault)
          /\ Fails(local)
       \/ /\ ~instances /\ NoFault
          /\ IF spec.lb THEN pc' = "findLB" /\ UNCHANGED local
             ELSE IF local.host # NoLB THEN Fails(Finalized(local))
             ELSE pc' = "findSubnet" /\ UNCHANGED local
    /\ UNCHANGED <<cloudVars, apiVars>>

\* Mutant: a load balancer that is being deleted is not waited for.
DeletePendingIsGone ==
    /\ pc = "findLB" /\ NoFault
    /\ IF local.host # "own" \/ lbs["own"] \in {"absent", "delete_pending"}
       THEN pc' = "findSubnet" /\ UNCHANGED local
       ELSE pc' = "deleteLB" /\ local' = [local EXCEPT !.lbState = lbs["own"]]
    /\ UNCHANGED <<cloudVars, apiVars>>

\* GetLoadBalancerByHostname of the endpoint, which may have no host yet.  Not
\* found: the cluster is let go, unless the status says delete_pending.  Found
\* under a name that is not the spec's: let go too.
FindLoadBalancerToDelete ==
    /\ pc = "findLB"
    /\ LET found == local.host # NoLB /\ lbs[local.host] # "absent" IN
       \/ Fault("api") /\ Fails(local)
       \/ /\ ~found /\ NoFault
          /\ IF local.lbState = "delete_pending"
             THEN pc' = "findSubnet" /\ UNCHANGED local
             ELSE Fails(Finalized(local))
       \/ /\ found /\ NoFault
          /\ LET o == [local EXCEPT !.lbState = lbs[local.host]] IN
             IF local.host # "own" THEN Fails(Finalized(o))
             ELSE pc' = "deleteLB" /\ local' = [o EXCEPT !.lbReady = "false"]
    /\ UNCHANGED <<cloudVars, apiVars>>

\* DeleteLoadBalancer, by the ID of the status: while it is there the reconcile
\* ends; without an ID, or when it is gone, the subnet is next.
DeleteLoadBalancer ==
    /\ pc = "deleteLB"
    /\ LET there == local.lb # NoLB /\ lbs[local.lb] # "absent" IN
       \/ Fault("api") /\ Fails(local) /\ UNCHANGED lbs
       \/ /\ ~there /\ NoFault
          /\ pc' = "findSubnet" /\ UNCHANGED <<local, lbs>>
       \/ /\ there /\ lbs[local.lb] = "delete_pending" /\ NoFault
          /\ Fails(local) /\ UNCHANGED lbs
       \/ /\ there /\ lbs[local.lb] # "delete_pending"
          /\ NoFault \/ Fault("lost")
          /\ lbs' = [lbs EXCEPT ![local.lb] = "delete_pending"]
          /\ Fails(local)
    /\ UNCHANGED <<networkVars, instances, apiVars>>

\* Mutant: a recorded subnet has to be there.
SubnetMustExist ==
    /\ pc = "findSubnet" /\ NoFault
    /\ pc' = CASE ~local.subnet -> "deleteVPC"
               [] local.subnet /\ subnet -> "findGateway"
               [] OTHER -> "patch"
    /\ local' = SubnetFailed
    /\ UNCHANGED <<cloudVars, apiVars>>

\* DeleteSubnet lists the subnets to see whether the recorded one is there.
FindSubnetToDelete ==
    /\ pc = "findSubnet"
    /\ \/ local.subnet /\ Fault("api") /\ pc' = "patch"
       \/ NoFault /\ pc' = IF local.subnet /\ subnet THEN "findGateway" ELSE "deleteVPC"
    /\ local' = SubnetFailed
    /\ UNCHANGED <<cloudVars, apiVars>>

\* A subnet without a gateway is answered with none, or with not found, which is
\* an error like any other.
GetSubnetPublicGateway ==
    /\ pc = "findGateway"
    /\ \/ Fault("api") /\ pc' = "patch"
       \/ gateway = "attached" /\ NoFault /\ pc' = "unset"
       \/ gateway # "attached" /\ NoFault /\ pc' \in {"deleteSubnet", "patch"}
    /\ UNCHANGED <<cloudVars, apiVars, local>>

\* detachPublicGateway, in two calls.
UnsetPublicGateway ==
    /\ pc = "unset"
    /\ \/ Fault("api") /\ pc' = "patch" /\ UNCHANGED gateway
       \/ /\ gateway' = "detached"
          /\ \/ NoFault /\ pc' = "deleteGateway"
             \/ Fault("lost") /\ pc' = "patch"
    /\ UNCHANGED <<vpc, rule, subnet, lbs, instances, apiVars, local>>

DeletePublicGateway ==
    /\ pc = "deleteGateway"
    /\ \/ Fault("api") /\ pc' = "patch" /\ UNCHANGED gateway
       \/ /\ gateway' = "absent"
          /\ \/ NoFault /\ pc' = "deleteSubnet"
             \/ Fault("lost") /\ pc' = "patch"
    /\ UNCHANGED <<vpc, rule, subnet, lbs, instances, apiVars, local>>

\* IBM Cloud refuses to delete a subnet in use, and a VPC with resources in it.
SubnetInUse == instances \/ lbs["own"] # "absent"
VPCInUse == subnet \/ gateway # "absent" \/ instances

DeleteSubnet ==
    /\ pc = "deleteSubnet"
    /\ \/ /\ Fault("api") \/ (NoFault /\ (SubnetInUse \/ ~subnet))
          /\ pc' = "patch" /\ UNCHANGED subnet
       \/ /\ ~SubnetInUse /\ subnet
          /\ subnet' = FALSE
          /\ \/ NoFault /\ pc' = "deleteVPC"
             \/ Fault("lost") /\ pc' = "patch"
    /\ UNCHANGED <<vpc, rule, gateway, lbs, instances, apiVars, local>>

\* Mutant: an error of the deletion is logged and no more.
DeleteVPCAnyway ==
    /\ pc = "deleteVPC" /\ NoFault
    /\ Fails(Finalized(VPCFailed))
    /\ UNCHANGED <<cloudVars, apiVars>>

\* DeleteVPC, by the ID of the status; a VPC that is gone is an error.
DeleteVPC ==
    /\ pc = "deleteVPC"
    /\ \/ /\ ~local.vpc /\ NoFault
          /\ Fails(Finalized(VPCFailed)) /\ UNCHANGED <<vpc, rule>>
       \/ /\ local.vpc
          /\ Fault("api") \/ (NoFault /\ (VPCInUse \/ ~vpc))
          /\ Fails(VPCFailed) /\ UNCHANGED <<vpc, rule>>
       \/ /\ local.vpc /\ ~VPCInUse /\ vpc
          /\ vpc' = FALSE /\ rule' = FALSE
          /\ \/ NoFault /\ Fails(Finalized(VPCFailed))
             \/ Fault("lost") /\ Fails(VPCFailed)
    /\ UNCHANGED <<subnet, gateway, lbs, instances, apiVars>>

----------------------------------------------------------------------------
(* The deferred patch, and the whole.                                      *)

Forget == local' = NewObject /\ pc' = "idle"

PatchParts == {"conditions", "object", "status"}

\* patchIBMVPCCluster: three requests, each of which may fail on its own.
Patched(parts) ==
    LET part(p) == IF p \in parts THEN local ELSE stored IN
    [finalizer |-> part("object").finalizer, host |-> part("object").host,
     vpc |-> part("status").vpc, subnet |-> part("status").subnet, lb |-> part("status").lb,
     lbState |-> part("status").lbState, ready |-> part("status").ready,
     vpcReady |-> part("conditions").vpcReady, subnetReady |-> part("conditions").subnetReady,
     lbReady |-> part("conditions").lbReady]

Patch ==
    /\ pc = "patch"
    /\ \E parts \in SUBSET PatchParts :
         /\ IF parts = PatchParts THEN NoFault ELSE Fault("patch")
         /\ stored' = Patched(parts)
    /\ phase' = IF phase = "deleting" /\ ~stored'.finalizer THEN "gone" ELSE phase
    /\ Forget
    /\ UNCHANGED <<cloudVars, spec, gate>>

Crash ==
    /\ pc # "idle"
    /\ Fault("crash")
    /\ Forget
    /\ UNCHANGED <<cloudVars, apiVars>>

ReconcileSteps ==
    \/ GetLoadBalancerByHostname
    \/ FindVPC \/ CreateVPC \/ UpdateDefaultSG
    \/ FindSubnet \/ CreateSubnet \/ CreatePublicGateWay \/ AttachPublicGateWay
    \/ FindLoadBalancer \/ CreateLoadBalancer

DeleteSteps ==
    \/ ListInstances \/ FindLoadBalancerToDelete \/ DeleteLoadBalancer
    \/ FindSubnetToDelete \/ GetSubnetPublicGateway
    \/ UnsetPublicGateway \/ DeletePublicGateway
    \/ DeleteSubnet \/ DeleteVPC

Steps == ReconcileSteps \/ DeleteSteps \/ Patch

Environment ==
    \/ \E b \in LBs : LBProgress(b) \/ LBUpdates(b)
    \/ StartInstances \/ StopInstances \/ SetOwner

Next ==
    \/ Environment \/ TogglePause \/ DeleteObject
    \/ ReconcileReturns \/ EnsureFinalizer \/ StartReconcile
    \/ Steps \/ Crash

Spec == Init /\ [][Next]_vars

\* A cluster that is not ready or being deleted keeps coming up in the work
\* queue (requeues and error retries), a reconcile that has begun goes on, load
\* balancers and machines make progress and a pause ends.
FairSpec ==
    /\ Spec
    /\ WF_vars(Steps) /\ WF_vars(SetOwner)
    /\ \A b \in LBs : WF_vars(LBProgress(b))
    /\ SF_vars(StopInstances)
    /\ SF_vars(EnsureFinalizer \/ StartReconcile)
    /\ WF_vars(gate = "paused" /\ TogglePause)

----------------------------------------------------------------------------
(* Properties.                                                             *)

Recorded(o) == o.vpc /\ o.subnet /\ o.lb # NoLB

\* Status.Ready, which lets machines be created, comes with the VPC, the subnet
\* and the load balancer that they are created in.
ReadyMeansRecorded == stored.ready => Recorded(stored)

\* The load balancer the status names is gone before anything under it is
\* touched, although it takes minutes to go and is deleted asynchronously.
LoadBalancerFirst ==
    pc \in {"findGateway", "unset", "deleteGateway", "deleteSubnet"} /\ local.lb # NoLB
    => lbs["own"] = "absent"

\* The endpoint that kubeconfigs and certificates are made for never changes,
\* whichever part of a patch failed and whatever was found again by name.
EndpointIsStable == [][stored.host # NoLB => stored'.host = stored.host]_vars

NetworkLeft == vpc \/ subnet \/ gateway # "absent" \/ lbs["own"] # "absent"

\* A cluster that has seen its load balancer in deletion leaves with its whole
\* network, whatever failed on the way.
NothingLeftOnceWaited ==
    [][/\ phase = "deleting" /\ phase' = "gone"
       /\ stored.host = "own" /\ stored.vpc /\ stored.lb # NoLB
       /\ stored.lbState = "delete_pending"
       => ~NetworkLeft]_vars

\* The finalizer holds the cluster until its resources are cleaned up.
NothingLeft == phase = "gone" => ~NetworkLeft

\* What a failure may leave behind that the deletion cannot get past: a VPC that was
\* deleted unnoticed, a gateway nothing refers to any more, a subnet without one, a
\* subnet whose ID was not persisted, and a load balancer whose hostname was
\* persisted without its ID.
Stuck ==
    /\ faults > 0
    /\ \/ stored.vpc /\ ~vpc
       \/ subnet /\ (~stored.subnet \/ gateway = "absent")
       \/ gateway = "detached"
       \/ stored.host = "own" /\ stored.lb = NoLB

\* A deleted cluster goes away once its machines are, after any failures.  Known not
\* to hold: vpc_cluster.cfg with this property.
DeletionAfterFaults == phase = "deleting" ~> phase = "gone"

\* A deleted cluster goes away once its machines are, unless a failure left it
\* stuck for good.
DeletionCompletes == DeletionAfterFaults \/ <>[]Stuck
=============================================================================
