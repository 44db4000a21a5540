------------------------- MODULE PowerVSClusterState -------------------------
(***************************************************************************)
(* State of one IBMPowerVSCluster: the API object, the controller's        *)
(* in-memory copy of it during a reconcile, and the IBM Cloud resources it *)
(* stands for.  The actions here are the ones the controller does not      *)
(* take: IBM Cloud's progress, and the user's and Cluster API's writes.    *)
(***************************************************************************)
EXTENDS Naturals, Sequences

CONSTANTS
    Topology,        \* Spec.Topology: "LoadBalancer" or "VirtualIP"
    Subnets,         \* the desired VPC subnets, in the order they are visited
    SecurityGroups,  \* Spec.VPCSecurityGroups, in order
    LoadBalancers,   \* the desired load balancers, in order
    Referenced,      \* resources whose spec source type is Reference
    HasCOS,          \* Spec.COSInstance.Type is not empty
    UnnamedLBs,      \* listed in Spec.LoadBalancers without Provision.Name
    PrivateLBs,      \* provisioned with type Private
    Preexisting,     \* Provision resources whose name is already taken in the cloud
    Images,          \* IBMPowerVSImages carrying the cluster-name label
    OwnedImages,     \* the ones with an owner reference to this cluster
    MayDelete,       \* whether the user may delete the object
    FaultKinds,      \* the kinds of failure that may happen
    MaxFaults        \* bound on the number of failures

Elems(s) == {s[i] : i \in DOMAIN s}

SubnetSet == Elems(Subnets)
SecurityGroupSet == Elems(SecurityGroups)
LoadBalancerSet == Elems(LoadBalancers)
Singletons == {"resourceGroup", "workspace", "network", "vpc", "tg",
               "vpcConn", "pvsConn", "cos"}
Res == Singletons \cup SubnetSet \cup SecurityGroupSet \cup LoadBalancerSet

Provision(r) == r \notin Referenced

CloudStates == {"absent", "pending", "active", "failed", "deleting", "removed"}
ConditionTypes == {"WorkspaceReady", "NetworkReady", "VPCReady",
                   "VPCSubnetReady", "VPCSecurityGroupReady",
                   "VPCLoadBalancerReady", "TransitGatewayReady",
                   "COSInstanceReady"}
Conditions == ConditionTypes \cup {"Ready"}
ConditionStatus == {"none", "unknown", "true", "false"}
AllFaultKinds == {"api", "lost", "patch", "crash", "fail", "vanish", "pause"}

\* Bound: the count of resource keys saturates here.
MaxKeys == 2

ASSUME TopologyAssumption == Topology \in {"LoadBalancer", "VirtualIP"}
ASSUME ListAssumption ==
    /\ Subnets \in Seq(STRING)
    /\ SecurityGroups \in Seq(STRING)
    /\ LoadBalancers \in Seq(STRING)
ASSUME DistinctAssumption ==
    /\ Singletons \cap (SubnetSet \cup SecurityGroupSet \cup LoadBalancerSet) = {}
    /\ SubnetSet \cap SecurityGroupSet = {}
    /\ (SubnetSet \cup SecurityGroupSet) \cap LoadBalancerSet = {}
ASSUME ReferenceAssumption ==
    /\ Referenced \subseteq Res
    /\ "resourceGroup" \in Referenced
    /\ Preexisting \subseteq Res \ Referenced
    /\ UnnamedLBs \cup PrivateLBs \subseteq LoadBalancerSet \ Referenced
\* A referenced resource lives inside a referenced parent: it exists before
\* the cluster does, so its parent does too.
ASSUME NestingAssumption ==
    /\ "network" \in Referenced => "workspace" \in Referenced
    /\ Referenced \cap (SubnetSet \cup SecurityGroupSet) # {} => "vpc" \in Referenced
    /\ Referenced \cap {"vpcConn", "pvsConn"} # {} => "tg" \in Referenced
ASSUME FlagAssumption == HasCOS \in BOOLEAN /\ MayDelete \in BOOLEAN
ASSUME ImageAssumption == OwnedImages \subseteq Images
ASSUME FaultAssumption == FaultKinds \subseteq AllFaultKinds /\ MaxFaults \in Nat

VARIABLES
    \* IBM Cloud and the HMAC Secret
    cloud,        \* state of each resource (of the instance the status tracks)
    created,      \* resources some call of this controller created
    dup,          \* resources with a second, untracked instance
    keys,         \* HMAC resource keys issued, saturating at MaxKeys
    secret,       \* the <cluster>-cos-hmac Secret exists
    \* the API server
    stored,       \* the persisted IBMPowerVSCluster
    phase,        \* "live", "deleting" (deletionTimestamp set) or "gone"
    gate,         \* "noOwner", "paused" or "open"
    images,       \* state of each labelled IBMPowerVSImage
    recorded,     \* history: resources whose ID the status ever persisted
    \* the controller
    local,        \* the object being reconciled
    bound,        \* the PowerVS client was built with a workspace ID
    pc,           \* where the reconcile stands
    pvs,          \* where reconcilePowerVSResources stands
    vpc,          \* where reconcileVPCResources stands
    loop,         \* the running loop: index, and what it accumulates
    res,          \* the collected componentResults, or the delete's allErrs
    \* failures
    faults        \* failures so far

cloudVars == <<cloud, created, dup, keys, secret>>
apiVars == <<stored, phase, gate, images, recorded>>
ctlVars == <<local, bound, pc, pvs, vpc, loop, res>>
vars == <<cloudVars, apiVars, ctlVars, faults>>

(***************************************************************************)
(* An IBMPowerVSCluster: the finalizer and Spec.ControlPlaneEndpoint, the  *)
(* conditions, and the status (IDs and load balancer hostnames recorded,   *)
(* HMACSecretName set, Initialization.Provisioned).                        *)
(***************************************************************************)
ObjectType == [finalizer : BOOLEAN, endpoint : BOOLEAN,
               cond : [Conditions -> ConditionStatus],
               id : SUBSET Res, host : SUBSET LoadBalancerSet,
               hmac : BOOLEAN, provisioned : BOOLEAN]

NewObject == [finalizer |-> FALSE, endpoint |-> FALSE,
              cond |-> [c \in Conditions |-> "none"],
              id |-> {}, host |-> {}, hmac |-> FALSE, provisioned |-> FALSE]

ResultType == [cond : [ConditionTypes -> ConditionStatus],
               err : BOOLEAN, requeue : BOOLEAN]
LoopType == [i : Nat \ {0}, flag : BOOLEAN, err : BOOLEAN]

NoResult == [cond |-> [c \in ConditionTypes |-> "none"],
             err |-> FALSE, requeue |-> FALSE]
NoLoop == [i |-> 1, flag |-> FALSE, err |-> FALSE]

PC == {"idle", "prepare", "components", "tg", "vpcConn", "pvsConn", "cos",
       "hmac", "finish", "images", "delTG", "delLB", "delSG", "delSubnet",
       "delVPC", "delDHCP", "delWorkspace", "delCOS", "delEnd", "patch"}

CloudTypeOK ==
    /\ cloud \in [Res -> CloudStates]
    /\ created \subseteq Res /\ dup \subseteq Res
    /\ secret \in BOOLEAN
    /\ keys \in 0..MaxKeys

ApiTypeOK ==
    /\ stored \in ObjectType
    /\ phase \in {"live", "deleting", "gone"}
    /\ gate \in {"noOwner", "paused", "open"}
    /\ images \in [Images -> {"live", "deleting", "gone"}]
    /\ recorded \subseteq Res

ControllerTypeOK ==
    /\ local \in ObjectType /\ bound \in BOOLEAN
    /\ pc \in PC
    /\ pvs \in {"workspace", "network", "done"}
    /\ vpc \in {"vpc", "subnet", "sg", "lb", "done"}
    /\ loop \in LoopType /\ res \in ResultType

\* Every variable has its type: the object written back is always well formed,
\* and no step leaves the controller between two program points.
TypeOK == CloudTypeOK /\ ApiTypeOK /\ ControllerTypeOK /\ faults \in 0..MaxFaults

Init ==
    /\ cloud = [r \in Res |-> IF r \in Referenced \cup Preexisting
                              THEN "active" ELSE "absent"]
    /\ created = {} /\ dup = {} /\ recorded = {}
    /\ keys = 0 /\ secret = FALSE
    /\ stored = NewObject /\ phase = "live" /\ gate = "noOwner"
    /\ images \in [Images -> {"live", "gone"}]
    /\ local = NewObject /\ bound = FALSE
    /\ pc = "idle" /\ pvs = "done" /\ vpc = "done"
    /\ loop = NoLoop /\ res = NoResult
    /\ faults = 0

----------------------------------------------------------------------------
(* Failures.  "api": a call fails and has no effect; "lost": a create      *)
(* takes effect and its answer is lost; "patch": one of the patches fails; *)
(* "crash": the manager stops; "fail": a resource ends up failed;          *)
(* "vanish": somebody else deletes a resource this controller created;     *)
(* "pause": the cluster is paused.                                         *)

NoFault == faults' = faults

Fault(kind) ==
    /\ kind \in FaultKinds
    /\ faults < MaxFaults
    /\ faults' = faults + 1

----------------------------------------------------------------------------
(* IBM Cloud.                                                              *)

Exists(r) == cloud[r] # "absent"

\* A create call made while r exists makes a second instance, and the status
\* tracks the new one from then on.
CreateAs(r, state) ==
    /\ cloud' = [cloud EXCEPT ![r] = state]
    /\ created' = created \cup {r}
    /\ dup' = IF Exists(r) THEN dup \cup {r} ELSE dup

\* What the cloud still finds attached to r, and refuses to delete r for.
Blockers(r) ==
    IF r \in SubnetSet THEN LoadBalancerSet
    ELSE IF r = "vpc" THEN SubnetSet
    ELSE IF r = "tg" THEN {"vpcConn", "pvsConn"}
    ELSE {}

InUse(r) == \E b \in Blockers(r) : Exists(b)

\* What goes away with r: a workspace takes its networks, a VPC its security groups.
Cascade(r) ==
    IF r = "workspace" THEN {"network"}
    ELSE IF r = "vpc" THEN SecurityGroupSet
    ELSE {}

CloudReady(r) ==
    /\ cloud[r] = "pending"
    /\ cloud' = [cloud EXCEPT ![r] = "active"]
    /\ UNCHANGED <<created, dup, keys, secret, apiVars, ctlVars, faults>>

CloudFail(r) ==
    /\ cloud[r] = "pending"
    /\ Fault("fail")
    /\ cloud' = [cloud EXCEPT ![r] = "failed"]
    /\ UNCHANGED <<created, dup, keys, secret, apiVars, ctlVars>>

CloudVanish(r) ==
    /\ r \in created
    /\ cloud[r] \in {"pending", "active", "failed"} /\ ~InUse(r)
    /\ Fault("vanish")
    /\ cloud' = [x \in Res |-> IF x \in {r} \cup Cascade(r) THEN "absent" ELSE cloud[x]]
    /\ UNCHANGED <<created, dup, keys, secret, apiVars, ctlVars>>

\* A deletion completes.  Resource-controller instances stay visible as "removed".
CloudDeleted(r) ==
    /\ cloud[r] = "deleting"
    /\ cloud' = [x \in Res |-> IF x = r
                               THEN IF r \in {"workspace", "cos"} THEN "removed" ELSE "absent"
                               ELSE IF x \in Cascade(r) THEN "absent" ELSE cloud[x]]
    /\ UNCHANGED <<created, dup, keys, secret, apiVars, ctlVars, faults>>

----------------------------------------------------------------------------
(* The user, Cluster API and the image controller.                         *)

\* kubectl delete: with no finalizer the API server removes the object at once.
RequestDelete ==
    /\ MayDelete
    /\ phase = "live"
    /\ phase' = IF stored.finalizer THEN "deleting" ELSE "gone"
    /\ UNCHANGED <<cloudVars, stored, gate, images, recorded, ctlVars, faults>>

\* The owner reference is set, or the cluster is unpaused.
OpenGate ==
    /\ gate # "open"
    /\ gate' = "open"
    /\ UNCHANGED <<cloudVars, stored, phase, images, recorded, ctlVars, faults>>

Pause ==
    /\ gate = "open"
    /\ Fault("pause")
    /\ gate' = "paused"
    /\ UNCHANGED <<cloudVars, stored, phase, images, recorded, ctlVars>>

\* The image controller finishes deleting an image; an image that is not this
\* cluster's child is deleted by its own owner.
ImageDeleted(m) ==
    /\ \/ images[m] = "deleting"
       \/ images[m] = "live" /\ m \notin OwnedImages
    /\ images' = [images EXCEPT ![m] = "gone"]
    /\ UNCHANGED <<cloudVars, stored, phase, gate, recorded, ctlVars, faults>>

Environment ==
    \/ \E r \in Res : CloudReady(r) \/ CloudFail(r) \/ CloudVanish(r) \/ CloudDeleted(r)
    \/ \E m \in Images : ImageDeleted(m)
    \/ RequestDelete \/ OpenGate \/ Pause

\* IBM Cloud and the other controllers eventually finish what they started.
EnvironmentFairness ==
    /\ WF_vars(\E r \in Res : CloudReady(r) \/ CloudDeleted(r))
    /\ WF_vars(\E m \in OwnedImages : ImageDeleted(m))
    /\ WF_vars(OpenGate)
=============================================================================
