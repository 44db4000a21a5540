----------------------------- MODULE VPCClusterV2 ----------------------------
(***************************************************************************)
(* The IBMVPCCluster controller for a cluster with Spec.Network: the VPC,  *)
(* a custom image, subnets with their public gateways, security groups     *)
(* with their rules, load balancers, and at last the endpoint.  A          *)
(* reconcile goes through a plan of items, stage by stage; each item is    *)
(* looked for, else created, recorded and tagged.                          *)
(***************************************************************************)
EXTENDS Naturals, Sequences, Functions

CONSTANTS
    Specs,          \* what the user may write
    Zone,           \* the zone of each subnet
    ZoneSubnets,    \* the default subnets, one for each zone of the region, in order
    Groups,         \* the security groups
    LoadBalancers,  \* the load balancers, in order
    MaxCopies,      \* bound on the copies of the image
    MayPause,       \* whether the user pauses the cluster
    MayDelete,      \* whether the user deletes the cluster
    FaultKinds,     \* the kinds of failure that may happen
    MaxFaults       \* bound on the number of failures

Subnets == DOMAIN Zone
Gateways == Range(Zone)
LBs == Range(LoadBalancers)
Things == Subnets \cup Gateways \cup Groups \cup LBs

\* The VPC and the image; of an image there may be several copies.
Kinds == {"vpc", "image"}

\* The VPC and the image: "given" is an existing one, by ID or CRN, "name" one by
\* its name, "unnamed" has no name to look for, and "none" is no image.  The
\* subnets of the two planes; the security groups; the subnets and groups the load
\* balancers ask for; which of them are public; and what existed before the cluster.
SpecType ==
    [vpc : {"given", "name", "unnamed"}, image : {"given", "name", "unnamed", "none"},
     control : Seq(Subnets), worker : Seq(Subnets), groups : Seq(Groups),
     lbSubnets : SUBSET Subnets, lbGroups : SUBSET Groups,
     public : SUBSET LBs, existing : SUBSET Things]

\* buildSubnetsForZones: a plane without subnets gets those of the zones.
SubnetsOf(given) == IF given = <<>> THEN ZoneSubnets ELSE given
ControlPlaneSubnets(s) == SubnetsOf(s.control)
WorkerSubnets(s) == SubnetsOf(s.worker)

ASSUME SpecAssumption ==
    \A s \in Specs :
        /\ s \in SpecType
        /\ s.existing # {} => s.vpc = "given"
        /\ s.lbSubnets \subseteq
              Range(ControlPlaneSubnets(s)) \cup Range(WorkerSubnets(s)) \cup s.existing
        /\ s.lbGroups \subseteq Range(s.groups) \cup s.existing
\* Things are told apart by what they are, not only by their name.
ASSUME NetworkAssumption ==
    /\ ZoneSubnets \in Seq(Subnets) /\ ZoneSubnets # <<>>
    /\ LoadBalancers \in Seq(LBs) /\ Len(LoadBalancers) \in 1..2
    /\ Kinds \cap Things = {} /\ "none" \notin Things
    /\ Subnets \cap (Gateways \cup Groups \cup LBs) = {}
    /\ Gateways \cap (Groups \cup LBs) = {} /\ Groups \cap LBs = {}
ASSUME BoundAssumption ==
    /\ MaxCopies \in Nat \ {0} /\ MaxFaults \in Nat
    /\ MayPause \in BOOLEAN /\ MayDelete \in BOOLEAN
ASSUME FaultAssumption == FaultKinds \subseteq {"api", "lost", "busy", "patch", "crash"}

\* What a reconcile goes through: kind and name of each item.
ItemsOf(kind, names) == [i \in DOMAIN names |-> <<kind, names[i]>>]
PlanOf(s) ==
    <<<<"vpc", "vpc">>, <<"image", "image">>>>
    \o ItemsOf("control", ControlPlaneSubnets(s)) \o ItemsOf("worker", WorkerSubnets(s))
    \o ItemsOf("group", s.groups) \o ItemsOf("rules", s.groups)
    \o ItemsOf("lb", LoadBalancers)
Plans == [s \in Specs |-> PlanOf(s)]
Items == UNION {Range(Plans[s]) : s \in Specs}

Stages == {"vpc", "image", "subnets", "groups", "lbs"}
StageOf(kind) ==
    CASE kind \in {"control", "worker"} -> "subnets"
      [] kind \in {"group", "rules"} -> "groups"
      [] kind = "lb" -> "lbs"
      [] OTHER -> kind

VARIABLES
    \* IBM Cloud
    copies,  \* states of the VPCs and of the images, oldest first
    cloud,   \* state of each thing
    home,    \* number of the VPC it was created in
    on,      \* the subnets and groups each load balancer was created on
    tagged,  \* what carries the tag of the cluster
    \* the API server
    spec,    \* the spec the user wrote
    stored,  \* the persisted IBMVPCCluster
    phase,   \* "live", "deleting" or "gone"
    held,    \* whether the cluster has no owner yet or is paused
    \* the controller
    local,   \* the in-memory copy
    at,      \* the item of the plan it works on, 0 when idle
    pc,      \* where it stands with the item
    wait,    \* whether the stage has to be come back to
    \* failures
    faults

cloudVars == <<copies, cloud, home, on, tagged>>
apiVars == <<spec, stored, phase, held>>
ctlVars == <<local, at, pc, wait>>
vars == <<cloudVars, apiVars, ctlVars, faults>>

Plan == Plans[spec]

\* How the spec refers to the VPC and to the image.
Ref == [k \in Kinds |-> IF k = "vpc" THEN spec.vpc ELSE spec.image]

States == {"absent", "pending", "available"}
Status == {"none", "true", "false"}

\* An IBMVPCCluster: finalizer; the load balancer of the endpoint; whether the
\* resource group is known; IDs of the VPC and of the image; what the status says
\* of each item; Ready; the condition of each stage.
ObjectType ==
    [finalizer : BOOLEAN, host : LBs \cup {"none"}, rg : BOOLEAN,
     id : [Kinds -> 0..MaxCopies], rec : [Items -> States], ready : BOOLEAN,
     cond : [Stages -> Status]]

NewObject ==
    [finalizer |-> FALSE, host |-> "none", rg |-> FALSE,
     id |-> [k \in Kinds |-> 0], rec |-> [i \in Items |-> "absent"], ready |-> FALSE,
     cond |-> [s \in Stages |-> "none"]]

CloudTypeOK ==
    /\ copies \in [Kinds -> Seq({"pending", "available"})]
    /\ \A k \in Kinds : Len(copies[k]) <= MaxCopies
    /\ cloud \in [Things -> States]
    /\ home \in [Things -> 0..MaxCopies]
    /\ on \in [LBs -> SUBSET (Subnets \cup Groups)]
    /\ tagged \subseteq Kinds \cup Things

ApiTypeOK ==
    /\ spec \in Specs
    /\ stored \in ObjectType
    /\ phase \in {"live", "deleting", "gone"}
    /\ held \in BOOLEAN

ControllerTypeOK ==
    /\ local \in ObjectType
    /\ at \in 0..Len(Plan)
    /\ pc \in {"idle", "find", "gateway", "createGateway", "tagGateway",
               "create", "tag", "host", "patch"}
    /\ wait \in BOOLEAN

\* Every variable has its type, and an ID, persisted or not, is that of a VPC
\* or image that was created.
TypeOK ==
    /\ CloudTypeOK /\ ApiTypeOK /\ ControllerTypeOK /\ faults \in 0..MaxFaults
    /\ \A k \in Kinds : stored.id[k] <= Len(copies[k]) /\ local.id[k] <= Len(copies[k])

Init ==
    /\ spec \in Specs
    /\ copies = [k \in Kinds |-> IF Ref[k] = "given" THEN <<"available">> ELSE <<>>]
    /\ cloud = [t \in Things |-> IF t \in spec.existing THEN "available" ELSE "absent"]
    /\ home = [t \in Things |-> IF t \in spec.existing THEN 1 ELSE 0]
    /\ on = [lb \in LBs |-> {}] /\ tagged = {}
    /\ stored = NewObject /\ phase = "live" /\ held = TRUE
    /\ local = NewObject /\ at = 0 /\ pc = "idle" /\ wait = FALSE
    /\ faults = 0

----------------------------------------------------------------------------
(* Failures, as for the cluster without Spec.Network.                      *)

NoFault == faults' = faults

Fault(kind) ==
    /\ kind \in FaultKinds
    /\ faults < MaxFaults
    /\ faults' = faults + 1

----------------------------------------------------------------------------
(* IBM Cloud and the user.                                                 *)

CopyReady(k, n) ==
    /\ copies[k][n] = "pending"
    /\ copies' = [copies EXCEPT ![k][n] = "available"]
    /\ UNCHANGED <<cloud, home, on, tagged, apiVars, ctlVars, faults>>

ThingReady(t) ==
    /\ cloud[t] = "pending"
    /\ cloud' = [cloud EXCEPT ![t] = "available"]
    /\ UNCHANGED <<copies, home, on, tagged, apiVars, ctlVars, faults>>

\* The owner is set, or the pause is lifted.
Release ==
    /\ held /\ held' = FALSE
    /\ UNCHANGED <<cloudVars, spec, stored, phase, ctlVars, faults>>

\* The cluster is paused; a reconcile that has begun has read the annotation.
Pause ==
    /\ MayPause /\ ~held /\ pc = "idle" /\ held' = TRUE
    /\ UNCHANGED <<cloudVars, spec, stored, phase, ctlVars, faults>>

DeleteObject ==
    /\ MayDelete /\ phase = "live"
    /\ phase' = IF stored.finalizer THEN "deleting" ELSE "gone"
    /\ UNCHANGED <<cloudVars, spec, stored, held, ctlVars, faults>>

----------------------------------------------------------------------------
(* reconcileV2.                                                            *)

\* No object, or a cluster without its owner, or a paused one.
ReconcileReturns ==
    /\ pc = "idle"
    /\ phase = "gone" \/ (stored.finalizer /\ held)
    /\ UNCHANGED vars

EnsureFinalizer ==
    /\ pc = "idle" /\ phase = "live" /\ ~stored.finalizer
    /\ stored' = [stored EXCEPT !.finalizer = TRUE]
    /\ UNCHANGED <<cloudVars, spec, phase, held, ctlVars, faults>>

StartReconcile ==
    /\ pc = "idle" /\ phase = "live" /\ stored.finalizer /\ ~held
    /\ local' = stored /\ at' = 1 /\ pc' = "find"
    /\ UNCHANGED <<cloudVars, apiVars, wait, faults>>

\* reconcileDeleteV2 deletes nothing: it only removes the finalizer.
ReconcileDeleteV2 ==
    /\ pc = "idle" /\ phase = "deleting" /\ ~held
    /\ local' = [stored EXCEPT !.finalizer = FALSE] /\ pc' = "patch"
    /\ UNCHANGED <<cloudVars, apiVars, at, wait, faults>>

----------------------------------------------------------------------------
(* reconcileCluster: the plan.                                             *)

Kind == Plan[at][1]
Name == Plan[at][2]
LastOfStage == IF at = Len(Plan) THEN TRUE ELSE StageOf(Plan[at + 1][1]) # StageOf(Kind)

\* The stage fails: its condition is False and the error is returned.
Fails(o) ==
    /\ local' = [o EXCEPT !.cond[StageOf(Kind)] = "false"] /\ pc' = "patch"
    /\ UNCHANGED <<at, wait>>

\* The stage is over, and that of the groups with it when it is next and empty.
StageDone(o) ==
    LET over == {StageOf(Kind)} \cup
                {s \in {"groups"} : StageOf(Kind) = "subnets" /\ spec.groups = <<>>}
    IN [o EXCEPT !.cond = [s \in Stages |-> IF s \in over THEN "true" ELSE o.cond[s]]]

\* Mutant: the next stage does not wait for what was just created.
DoneAtOnce(o, requeue) ==
    /\ pc' = IF at = Len(Plan) THEN "host" ELSE "find"
    /\ local' = IF LastOfStage THEN StageDone(o) ELSE o
    /\ at' = IF at < Len(Plan) THEN at + 1 ELSE at
    /\ UNCHANGED wait

\* The item is done.  The items of a stage are all gone through; then the
\* reconcile ends if one of them is pending, else the condition is True and the
\* next stage begins.
Done(o, requeue) ==
    \/ /\ ~LastOfStage
       /\ local' = o /\ at' = at + 1 /\ pc' = "find" /\ wait' = (wait \/ requeue)
    \/ /\ LastOfStage /\ (wait \/ requeue)
       /\ local' = o /\ pc' = "patch" /\ wait' = FALSE /\ UNCHANGED at
    \/ /\ LastOfStage /\ ~(wait \/ requeue)
       /\ local' = StageDone(o)
       /\ at' = IF at = Len(Plan) THEN at ELSE at + 1
       /\ pc' = IF at = Len(Plan) THEN "host" ELSE "find"
       /\ wait' = FALSE

\* SetResourceStatus and setLoadBalancerStatus: the entry of the item.
Recorded(o, state) == [o EXCEPT !.rec[Plan[at]] = state]

\* GetResourceGroupID: looked up once, then in the status.
Grouped(o) == [o EXCEPT !.rg = TRUE]

\* A creation fails, at the resource group or after it.
CreationFails == Fault("api") /\ \E o \in {local, Grouped(local)} : Fails(o)

\* TagResource, tried once, at the end of every creation; what was created is come
\* back to, but for a group.
TagResource ==
    /\ pc = "tag"
    /\ \/ Fault("api") /\ Fails(local) /\ UNCHANGED tagged
       \/ /\ NoFault /\ tagged' = tagged \cup {Name}
          /\ Done(local, Kind # "group")
    /\ UNCHANGED <<copies, cloud, home, on, apiVars>>

----------------------------------------------------------------------------
(* ReconcileVPC and ReconcileVPCCustomImage.                               *)

Identified(o, k, n, state) == [Recorded(o, state) EXCEPT !.id[k] = n]

\* Mutant: what was found is always come back to.
FetchedRequeues(k, n) == Done(Identified(local, k, n, copies[k][n]), TRUE)

\* The copy of the ID is fetched and recorded.
Fetched(k, n) == Done(Identified(local, k, n, copies[k][n]), copies[k][n] # "available")

Absent == pc' = "create" /\ UNCHANGED <<local, at, wait>>

\* The ID of the status, that of the spec, or the first one of the name in the
\* spec; 0 when there is none.
GetVPCID ==
    IF local.id["vpc"] # 0 THEN local.id["vpc"]
    ELSE IF spec.vpc = "given" \/ (spec.vpc = "name" /\ copies["vpc"] # <<>>) THEN 1
    ELSE 0

\* A VPC found by its name is recorded as ready before it is fetched.
FindVPC ==
    /\ pc = "find" /\ Kind = "vpc"
    /\ \/ Fault("api") /\ Fails(local)
       \/ /\ Fault("api") /\ spec.vpc = "name" /\ local.id["vpc"] = 0 /\ GetVPCID # 0
          /\ Fails(Identified(local, "vpc", GetVPCID, "available"))
       \/ NoFault /\ GetVPCID = 0 /\ Absent
       \/ NoFault /\ GetVPCID # 0 /\ Fetched("vpc", GetVPCID)
    /\ UNCHANGED <<cloudVars, apiVars>>

\* As for the VPC; without an image in the spec there is nothing to do.
GetImageID ==
    IF local.id["image"] # 0 THEN local.id["image"]
    ELSE IF spec.image = "given" \/ (spec.image = "name" /\ copies["image"] # <<>>) THEN 1
    ELSE 0

FindCustomImage ==
    /\ pc = "find" /\ Kind = "image"
    /\ \/ NoFault /\ spec.image = "none" /\ Done(local, FALSE)
       \/ Fault("api") /\ spec.image # "none" /\ Fails(local)
       \/ NoFault /\ spec.image # "none" /\ GetImageID = 0 /\ Absent
       \/ NoFault /\ GetImageID # 0 /\ Fetched("image", GetImageID)
    /\ UNCHANGED <<cloudVars, apiVars>>

\* A new copy, recorded before it is tagged; or the answer is lost.
NewCopy(k) ==
    /\ Len(copies[k]) < MaxCopies
    /\ copies' = [copies EXCEPT ![k] = Append(@, "pending")]
    /\ \/ Fault("lost") /\ Fails(Grouped(local))
       \/ /\ NoFault /\ local' = Identified(Grouped(local), k, Len(copies[k]) + 1, "pending")
          /\ pc' = "tag" /\ UNCHANGED <<at, wait>>

\* A VPC without a name in the spec gets the same generated one every time, which
\* GetVPCID does not look for; IBM Cloud refuses it when there is a VPC of that name.
CreateVPC ==
    /\ pc = "create" /\ Kind = "vpc"
    /\ \/ CreationFails /\ UNCHANGED copies
       \/ copies["vpc"] = <<>> /\ NewCopy("vpc")
       \/ copies["vpc"] # <<>> /\ NoFault /\ Fails(Grouped(local)) /\ UNCHANGED copies
    /\ UNCHANGED <<cloud, home, on, tagged, apiVars>>

\* An image without a name in the spec is named by IBM Cloud, a new one each time.
CreateCustomImage ==
    /\ pc = "create" /\ Kind = "image"
    /\ \/ CreationFails /\ UNCHANGED copies
       \/ NewCopy("image")
    /\ UNCHANGED <<cloud, home, on, tagged, apiVars>>

----------------------------------------------------------------------------
(* reconcileSubnet and findOrCreatePublicGateway.                          *)

\* What was found is recorded; it is come back to until it is available.
Found == NoFault /\ cloud[Name] # "absent"
         /\ Done(Recorded(local, cloud[Name]), cloud[Name] # "available")

\* Creation of t in the VPC of the status, recorded before it is tagged.
Created(t, state) ==
    /\ cloud' = [cloud EXCEPT ![t] = state]
    /\ home' = [home EXCEPT ![t] = GetVPCID]

CreatedItem(state) ==
    /\ Created(Name, state)
    /\ \/ Fault("lost") /\ Fails(Grouped(local))
       \/ /\ NoFault /\ local' = Recorded(Grouped(local), state)
          /\ pc' = "tag" /\ UNCHANGED <<at, wait>>

FindSubnet ==
    /\ pc = "find" /\ Kind \in {"control", "worker"}
    /\ \/ Fault("api") /\ Fails(local)
       \/ Found
       \/ /\ NoFault /\ cloud[Name] = "absent"
          /\ pc' = "gateway" /\ UNCHANGED <<local, at, wait>>
    /\ UNCHANGED <<cloudVars, apiVars>>

\* findOrCreatePublicGateway: one gateway in each zone, not in the status.
FindPublicGateway ==
    /\ pc = "gateway"
    /\ \/ CreationFails
       \/ /\ NoFault /\ local' = Grouped(local)
          /\ pc' = IF cloud[Zone[Name]] = "absent" THEN "createGateway" ELSE "create"
          /\ UNCHANGED <<at, wait>>
    /\ UNCHANGED <<cloudVars, apiVars>>

CreatePublicGateway ==
    /\ pc = "createGateway"
    /\ \/ Fault("api") /\ Fails(local) /\ UNCHANGED <<cloud, home>>
       \/ /\ Created(Zone[Name], "available")
          /\ \/ Fault("lost") /\ Fails(local)
             \/ NoFault /\ pc' = "tagGateway" /\ UNCHANGED <<local, at, wait>>
    /\ UNCHANGED <<copies, on, tagged, apiVars>>

TagPublicGateway ==
    /\ pc = "tagGateway"
    /\ \/ Fault("api") /\ Fails(local) /\ UNCHANGED tagged
       \/ /\ NoFault /\ tagged' = tagged \cup {Zone[Name]}
          /\ pc' = "create" /\ UNCHANGED <<local, at, wait>>
    /\ UNCHANGED <<copies, cloud, home, on, apiVars>>

CreateSubnet ==
    /\ pc = "create" /\ Kind \in {"control", "worker"}
    /\ \/ Fault("api") /\ Fails(local) /\ UNCHANGED <<cloud, home>>
       \/ CreatedItem("pending")
    /\ UNCHANGED <<copies, on, tagged, apiVars>>

----------------------------------------------------------------------------
(* ReconcileSecurityGroups and ReconcileLoadBalancers.                     *)

\* A security group has no state to wait for.
FindSecurityGroup ==
    /\ pc = "find" /\ Kind = "group"
    /\ \/ Fault("api") /\ Fails(local)
       \/ Found
       \/ NoFault /\ cloud[Name] = "absent" /\ Absent
    /\ UNCHANGED <<cloudVars, apiVars>>

CreateSecurityGroup ==
    /\ pc = "create" /\ Kind = "group"
    /\ \/ CreationFails /\ UNCHANGED <<cloud, home>>
       \/ CreatedItem("available")
    /\ UNCHANGED <<copies, on, tagged, apiVars>>

\* reconcileSecurityGroupRules, in VPCSecurityGroupRules.
ReconcileSecurityGroupRules ==
    /\ pc = "find" /\ Kind = "rules"
    /\ \/ Fault("api") /\ Fails(local)
       \/ NoFault /\ Done(local, FALSE)
    /\ UNCHANGED <<cloudVars, apiVars>>

\* getLoadBalancer and isLoadBalancerReady: a load balancer that is being updated
\* is not ready either.
FindLoadBalancer ==
    /\ pc = "find" /\ Kind = "lb"
    /\ \/ Fault("api") /\ Fails(local)
       \/ Found
       \/ /\ Fault("busy") /\ cloud[Name] = "available"
          /\ Done(Recorded(local, "pending"), TRUE)
       \/ NoFault /\ cloud[Name] = "absent" /\ Absent
    /\ UNCHANGED <<cloudVars, apiVars>>

\* Mutant: the subnets of the workers.
WorkerSubnetIDs == {s \in Subnets : <<"worker", s>> \in Items /\ local.rec[<<"worker", s>>] # "absent"}

\* getLoadBalancerSubnetIDs: those of the spec, else the control plane subnets of
\* the status.
GetLoadBalancerSubnetIDs ==
    IF spec.lbSubnets # {} THEN spec.lbSubnets
    ELSE {s \in Subnets : <<"control", s>> \in Items /\ local.rec[<<"control", s>>] # "absent"}

\* getLoadBalancerSecurityGroupIDs: those of the spec, in the status or the cloud.
GetLoadBalancerSecurityGroupIDs == {g \in spec.lbGroups : cloud[g] # "absent"}

CreateLoadBalancer ==
    /\ pc = "create" /\ Kind = "lb"
    /\ \/ CreationFails /\ UNCHANGED <<cloud, home, on>>
       \/ /\ CreatedItem("pending")
          /\ on' = [on EXCEPT ![Name] =
                       GetLoadBalancerSubnetIDs \cup GetLoadBalancerSecurityGroupIDs]
    /\ UNCHANGED <<copies, tagged, apiVars>>

----------------------------------------------------------------------------
(* The end of reconcileCluster, the deferred patch, and the whole.         *)

\* The host name of the endpoint is that of the only load balancer, else of the
\* first public one.
IsEndpoint(i) ==
    \/ Len(LoadBalancers) = 1
    \/ /\ LoadBalancers[i] \in spec.public
       /\ \A j \in 1..(i - 1) : LoadBalancers[j] \notin spec.public

\* GetLoadBalancerHostName, which looks a public load balancer up; the host name
\* may not be there yet; then the cluster is ready.
MarkReady ==
    /\ pc = "host"
    /\ \/ Len(LoadBalancers) > 1 /\ Fault("api") /\ UNCHANGED local
       \/ Fault("busy") /\ UNCHANGED local
       \/ Len(LoadBalancers) > 1 /\ spec.public = {} /\ NoFault /\ UNCHANGED local
       \/ /\ NoFault
          /\ \E i \in DOMAIN LoadBalancers :
                /\ IsEndpoint(i)
                /\ local' = [local EXCEPT !.host = LoadBalancers[i], !.ready = TRUE]
    /\ pc' = "patch"
    /\ UNCHANGED <<cloudVars, apiVars, at, wait>>

Forget == local' = NewObject /\ at' = 0 /\ pc' = "idle" /\ wait' = FALSE

PatchParts == {"conditions", "object", "status"}

\* patchIBMVPCCluster: three requests, each of which may fail on its own.
Patched(parts) ==
    LET part(p) == IF p \in parts THEN local ELSE stored IN
    [finalizer |-> part("object").finalizer, host |-> part("object").host,
     rg |-> part("status").rg, id |-> part("status").id, rec |-> part("status").rec, ready |-> part("status").ready,
     cond |-> part("conditions").cond]

Patch ==
    /\ pc = "patch"
    /\ \E parts \in SUBSET PatchParts :
         /\ IF parts = PatchParts THEN NoFault ELSE Fault("patch")
         /\ stored' = Patched(parts)
    /\ phase' = IF phase = "deleting" /\ ~stored'.finalizer THEN "gone" ELSE phase
    /\ Forget
    /\ UNCHANGED <<cloudVars, spec, held>>

Crash ==
    /\ pc # "idle"
    /\ Fault("crash")
    /\ Forget
    /\ UNCHANGED <<cloudVars, apiVars>>

Steps ==
    \/ FindVPC \/ CreateVPC \/ FindCustomImage \/ CreateCustomImage
    \/ FindSubnet \/ FindPublicGateway \/ CreatePublicGateway \/ TagPublicGateway
    \/ CreateSubnet \/ FindSecurityGroup \/ CreateSecurityGroup
    \/ ReconcileSecurityGroupRules \/ FindLoadBalancer \/ CreateLoadBalancer
    \/ TagResource \/ MarkReady \/ Patch

CloudProgress ==
    \/ \E k \in Kinds : \E n \in DOMAIN copies[k] : CopyReady(k, n)
    \/ \E t \in Things : ThingReady(t)

Next ==
    \/ CloudProgress \/ Release \/ Pause \/ DeleteObject
    \/ ReconcileReturns \/ EnsureFinalizer \/ StartReconcile \/ ReconcileDeleteV2
    \/ Steps \/ Crash

Spec == Init /\ [][Next]_vars

\* The cluster keeps coming up in the work queue (requeues and error retries),
\* a reconcile that has begun goes on, and what is pending becomes available.
FairSpec ==
    /\ Spec
    /\ WF_vars(Steps) /\ WF_vars(Release) /\ WF_vars(CloudProgress)
    /\ SF_vars(EnsureFinalizer \/ StartReconcile \/ ReconcileDeleteV2)

----------------------------------------------------------------------------
(* Properties.                                                             *)

\* Everything is created in one VPC that later reconciles find again: the ID of the
\* status is that of the VPC, or not there yet and the spec has a name to look for.
\* Nothing is put into a VPC whose ID a lost answer, patch or crash may still lose.
OneNetwork ==
    \A t \in Things : home[t] # 0 =>
        /\ stored.id["vpc"] \in {0, home[t]}
        /\ local.id["vpc"] \in {0, home[t]}
        /\ stored.id["vpc"] = 0 => Ref["vpc"] # "unnamed"

\* A load balancer is created on every subnet and group it asks for, each of them
\* available, although what it is created on is read from a status that failed
\* reconciles left behind.
SpansControlPlane ==
    \A lb \in LBs : cloud[lb] # "absent" /\ lb \notin spec.existing =>
        /\ on[lb] = spec.lbGroups \cup (IF spec.lbSubnets # {} THEN spec.lbSubnets
                                        ELSE Range(ControlPlaneSubnets(spec)))
        /\ \A t \in on[lb] : cloud[t] = "available"

\* A cluster becomes ready with all of it recorded as available, at the endpoint of
\* a load balancer that is.
ReadyIsComplete ==
    [][~stored.ready /\ stored'.ready =>
         /\ \A i \in Range(Plan) : i[1] # "rules" /\ (i[1] \in Kinds => Ref[i[1]] # "none")
                                   => stored'.rec[i] = "available"
         /\ stored'.host # "none" => cloud[stored'.host] = "available"]_vars

\* The VPC was created under its generated name and its ID was lost.
VPCLost == faults > 0 /\ spec.vpc = "unnamed" /\ copies["vpc"] # <<>> /\ stored.id["vpc"] = 0

\* A cluster nobody deletes becomes ready after any failures, unless it has two load
\* balancers and neither is public.  Known not to hold: see vpc_unnamed.cfg.
ReadyAfterFaults ==
    <>(phase # "live" \/ stored.ready \/ (Len(LoadBalancers) > 1 /\ spec.public = {}))

\* A cluster nobody deletes becomes ready, unless it has two load balancers and
\* neither is public, or a failure lost the ID of a VPC without a name in the spec
\* for good: then every retry of its creation is refused.
EventuallyReady == ReadyAfterFaults \/ <>[]VPCLost
=============================================================================
