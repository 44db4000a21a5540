------------------------------ MODULE VPCMachine -----------------------------
(***************************************************************************)
(* The IBMVPCMachine controller and its scope: one machine, whose virtual  *)
(* server instance is found by its name, becomes a member of load balancer *)
(* pools and gets additional volumes.  An instance, its primary IP address *)
(* and its provider ID are one number; a pool stands for its load balancer *)
(* as well, and the pool "api" is the first one of the cluster's own load  *)
(* balancer.                                                               *)
(***************************************************************************)
EXTENDS Naturals, Sequences

CONSTANTS
    Specs,         \* the machines the user may write
    MayDelete,     \* whether the user deletes the machine
    MayPause,      \* whether the user pauses the cluster
    FaultKinds,    \* the kinds of failure that may happen
    MaxFaults,     \* bound on the number of failures
    MaxInstances,  \* bound on the instances ever made
    MaxVolumes     \* bound on the volumes ever made

Pools == {"api", "extra"}
MaxSlots == 2

Instances == 1..MaxInstances
Volumes == 1..MaxVolumes
Slots == 1..MaxSlots

\* Whether the machine has the control plane label; Spec.LoadBalancerPoolMembers;
\* the number of Spec.AdditionalVolumes.
SpecType ==
    [controlPlane : BOOLEAN,
     pools : {<<>>, <<"api">>, <<"extra">>, <<"api", "extra">>},
     volumes : 0..MaxSlots]

ASSUME SpecAssumption == Specs \subseteq SpecType
ASSUME BoundAssumption ==
    /\ MayDelete \in BOOLEAN /\ MayPause \in BOOLEAN /\ MaxFaults \in Nat
    /\ MaxInstances \in Nat /\ MaxInstances > MaxFaults
    /\ MaxVolumes \in Nat /\ MaxVolumes >= MaxSlots * (MaxFaults + 1)
ASSUME FaultAssumption == FaultKinds \subseteq {"api", "lost", "patch", "crash", "cloud"}

VARIABLES
    \* IBM Cloud
    inst,       \* state of each instance
    addressed,  \* the instances that have their primary IP address
    members,    \* state of the pool members, by pool and target address
    lbs,        \* whether the load balancer of each pool is active
    volumes,    \* state of each volume
    attached,   \* the volume attached under the name of each slot, or 0
    \* the API server
    spec,       \* the machine the user wrote
    stored,     \* the persisted IBMVPCMachine
    phase,      \* "live", "deleting" or "gone"
    gate,       \* "unowned", "paused" or "open"
    bootstrap,  \* whether the Machine names its bootstrap data secret
    \* the controller
    local,      \* the in-memory copy
    seen,       \* the instance as the reconcile read it: number, state, address
    listed,     \* the slots whose volume attachment was listed
    at,         \* position in the list the reconcile goes through
    flag,       \* whether something in that list is not finished or failed
    pc,         \* where the reconcile stands
    \* failures
    faults      \* failures so far

instVars == <<inst, addressed>>
poolVars == <<members, lbs>>
volumeVars == <<volumes, attached>>
cloudVars == <<instVars, poolVars, volumeVars>>
apiVars == <<spec, stored, phase, gate, bootstrap>>
ctlVars == <<local, seen, listed, at, flag, pc>>
vars == <<cloudVars, apiVars, ctlVars, faults>>

InstanceStates == {"none", "pending", "starting", "running", "stopped", "restarting",
                   "failed", "deleting", "gone"}
Ready == {"none", "true", "false"}

\* An IBMVPCMachine: finalizer and provider ID; Status: instance ID, its state
\* and internal address, Ready, failure reason, LoadBalancerPoolMembers and
\* AdditionalVolumeIDs; the InstanceReady condition.
ObjectType ==
    [finalizer : BOOLEAN, provider : 0..MaxInstances,
     id : 0..MaxInstances, state : InstanceStates, ip : 0..MaxInstances,
     ready : BOOLEAN, failed : BOOLEAN, members : SUBSET Pools,
     volumes : [Slots -> 0..MaxVolumes], condition : Ready]

NewObject ==
    [finalizer |-> FALSE, provider |-> 0, id |-> 0, state |-> "none", ip |-> 0,
     ready |-> FALSE, failed |-> FALSE, members |-> {},
     volumes |-> [v \in Slots |-> 0], condition |-> "none"]

Nothing == [id |-> 0, state |-> "none", ip |-> 0]

CloudTypeOK ==
    /\ inst \in [Instances -> InstanceStates]
    /\ addressed \in SUBSET Instances
    /\ members \in [Pools -> [0..MaxInstances -> {"absent", "pending", "active"}]]
    /\ lbs \in [Pools -> BOOLEAN]
    /\ volumes \in [Volumes -> {"none", "pending", "available", "attached", "failed", "gone"}]
    /\ attached \in [Slots -> 0..MaxVolumes]

ApiTypeOK ==
    /\ spec \in Specs
    /\ stored \in ObjectType
    /\ phase \in {"live", "deleting", "gone"}
    /\ gate \in {"unowned", "paused", "open"}
    /\ bootstrap \in BOOLEAN

ControllerTypeOK ==
    /\ local \in ObjectType
    /\ seen \in [id : 0..MaxInstances, state : InstanceStates, ip : 0..MaxInstances]
    /\ listed \in SUBSET Slots /\ at \in Slots /\ flag \in BOOLEAN
    /\ pc \in {"idle", "find", "network", "source", "create", "tag", "provider",
               "member", "addMember",
               "loadBalancer", "bind", "volumes", "volume", "attach",
               "deleteMembers", "deleteMember", "unbind", "deleteInstance", "patch"}
    /\ pc \in {"tag", "provider"} => seen.id # 0
    /\ pc \in {"member", "addMember"} => at <= Len(spec.pools)
    /\ pc = "deleteMember" => at <= Len(spec.pools) /\ local.id # 0
    /\ pc \in {"volume", "attach"} => at <= spec.volumes /\ local.id # 0
    /\ pc = "attach" => local.volumes[at] # 0
    /\ pc = "unbind" => local.id # 0

TypeOK == CloudTypeOK /\ ApiTypeOK /\ ControllerTypeOK /\ faults \in 0..MaxFaults

Init ==
    /\ inst = [i \in Instances |-> "none"] /\ addressed = {}
    /\ members = [p \in Pools |-> [i \in 0..MaxInstances |-> "absent"]]
    /\ lbs = [p \in Pools |-> TRUE]
    /\ volumes = [v \in Volumes |-> "none"] /\ attached = [v \in Slots |-> 0]
    /\ spec \in Specs
    /\ stored = NewObject /\ phase = "live" /\ gate = "unowned" /\ bootstrap = FALSE
    /\ local = NewObject /\ seen = Nothing /\ listed = {} /\ at = 1 /\ flag = FALSE /\ pc = "idle"
    /\ faults = 0

----------------------------------------------------------------------------
(* Failures.  "api": a call fails and has no effect; "lost": it takes      *)
(* effect and its answer is lost; "patch", "crash": as for the PowerVS     *)
(* cluster; "cloud": an instance fails, stops, restarts or is deleted      *)
(* behind the controller's back, or a volume fails.                        *)

NoFault == faults' = faults

Fault(kind) ==
    /\ kind \in FaultKinds
    /\ faults < MaxFaults
    /\ faults' = faults + 1

----------------------------------------------------------------------------
(* IBM Cloud and the user.                                                 *)

Exists(i) == inst[i] \notin {"none", "gone"}

\* The instance comes up, or goes away with the volumes attached to it.
InstanceProgress(i) ==
    /\ \/ /\ inst[i] \in {"pending", "starting", "restarting"}
          /\ inst' = [inst EXCEPT ![i] = IF inst[i] = "pending" THEN "starting" ELSE "running"]
          /\ UNCHANGED volumeVars
       \/ /\ inst[i] = "deleting"
          /\ inst' = [inst EXCEPT ![i] = "gone"]
          /\ volumes' = [v \in Volumes |-> IF volumes[v] = "attached" THEN "gone" ELSE volumes[v]]
          /\ attached' = [v \in Slots |-> 0]
    /\ UNCHANGED <<addressed, poolVars, apiVars, ctlVars, faults>>

\* Until then the address reads 0.0.0.0.
AssignAddress(i) ==
    /\ Exists(i) /\ i \notin addressed
    /\ addressed' = addressed \cup {i}
    /\ UNCHANGED <<inst, poolVars, volumeVars, apiVars, ctlVars, faults>>

InstanceDisturbed(i) ==
    /\ Exists(i) /\ inst[i] # "deleting"
    /\ \E s \in {"failed", "stopped", "restarting", "deleting"} :
         /\ s \in {"stopped", "restarting"} => inst[i] = "running"
         /\ s = "failed" => inst[i] \in {"pending", "starting"}
         /\ inst' = [inst EXCEPT ![i] = s]
    /\ Fault("cloud")
    /\ UNCHANGED <<addressed, poolVars, volumeVars, apiVars, ctlVars>>

StartInstance(i) ==
    /\ inst[i] = "stopped"
    /\ inst' = [inst EXCEPT ![i] = "starting"]
    /\ UNCHANGED <<addressed, poolVars, volumeVars, apiVars, ctlVars, faults>>

\* A load balancer has applied a change of its members.
LBProgress(p) ==
    /\ ~lbs[p]
    /\ lbs' = [lbs EXCEPT ![p] = TRUE]
    /\ members' = [members EXCEPT ![p] =
                     [i \in 0..MaxInstances |-> IF @[i] = "pending" THEN "active" ELSE @[i]]]
    /\ UNCHANGED <<instVars, volumeVars, apiVars, ctlVars, faults>>

VolumeProgress(v) ==
    /\ volumes[v] = "pending"
    /\ \/ volumes' = [volumes EXCEPT ![v] = "available"] /\ NoFault
       \/ volumes' = [volumes EXCEPT ![v] = "failed"] /\ Fault("cloud")
    /\ UNCHANGED <<instVars, poolVars, attached, apiVars, ctlVars>>

SetOwner ==
    /\ gate = "unowned" /\ gate' = "open"
    /\ UNCHANGED <<cloudVars, spec, stored, phase, bootstrap, ctlVars, faults>>

SetDataSecretName ==
    /\ ~bootstrap /\ bootstrap' = TRUE
    /\ UNCHANGED <<cloudVars, spec, stored, phase, gate, ctlVars, faults>>

TogglePause ==
    /\ \/ MayPause /\ gate = "open" /\ gate' = "paused"
       \/ gate = "paused" /\ gate' = "open"
    /\ UNCHANGED <<cloudVars, spec, stored, phase, bootstrap, ctlVars, faults>>

DeleteObject ==
    /\ MayDelete /\ phase = "live"
    /\ phase' = IF stored.finalizer THEN "deleting" ELSE "gone"
    /\ UNCHANGED <<cloudVars, spec, stored, gate, bootstrap, ctlVars, faults>>

----------------------------------------------------------------------------
(* Reconcile up to the scope.                                              *)

\* No object, no owner or cluster, or a paused cluster: nothing is done.
ReconcileReturns ==
    /\ pc = "idle"
    /\ phase = "gone" \/ gate = "unowned" \/ (gate = "paused" /\ stored.finalizer)
    /\ UNCHANGED vars

EnsureFinalizer ==
    /\ pc = "idle" /\ phase = "live" /\ gate # "unowned" /\ ~stored.finalizer
    /\ stored' = [stored EXCEPT !.finalizer = TRUE]
    /\ UNCHANGED <<cloudVars, spec, phase, gate, bootstrap, ctlVars, faults>>

\* Reconcile and the first branches of reconcileNormal and reconcileDelete:
\* without bootstrap data there is nothing to do yet, and only a control plane
\* machine with a recorded instance has pool members to delete.
StartReconcile ==
    /\ pc = "idle" /\ phase # "gone" /\ gate = "open" /\ stored.finalizer
    /\ local' = stored
    /\ pc' = CASE phase = "live" -> IF bootstrap THEN "find" ELSE "patch"
               [] phase = "deleting" /\ spec.controlPlane /\ stored.id # 0 -> "deleteMembers"
               [] OTHER -> "deleteInstance"
    /\ UNCHANGED <<cloudVars, apiVars, seen, listed, at, flag, faults>>

----------------------------------------------------------------------------
(* reconcileNormal: the instance.                                          *)

\* The reconcile ends with the copy o: an error, or a requeue.
Ends(o) == local' = o /\ pc' = "patch"

Address(i) == IF i \in addressed THEN i ELSE 0
Read(i) == [id |-> i, state |-> inst[i], ip |-> Address(i)]

\* Mutant: an instance that is being deleted does not count.
FoundUndeleted == {i \in Instances : Exists(i) /\ inst[i] # "deleting"}

\* ensureInstanceUnique: the instances of this name, whatever state they are in.
FoundInstances == {i \in Instances : Exists(i)}

EnsureInstanceUnique ==
    /\ pc = "find"
    /\ \/ Fault("api") /\ Ends(local) /\ UNCHANGED seen
       \/ /\ NoFault /\ UNCHANGED local
          /\ IF FoundInstances = {}
             THEN pc' = "network" /\ UNCHANGED seen
             ELSE pc' = "tag" /\ \E i \in FoundInstances : seen' = Read(i)
    /\ UNCHANGED <<cloudVars, apiVars, listed, at, flag>>

\* CreateMachine, once no instance was found: what the prototype names is looked
\* up, and anything that is missing or cannot be read ends the reconcile.
LookUp(from, to) ==
    /\ pc = from
    /\ \/ Fault("api") /\ Ends(local)
       \/ NoFault /\ pc' = to /\ UNCHANGED local
    /\ UNCHANGED <<cloudVars, apiVars, seen, listed, at, flag>>

\* The bootstrap data; the subnet and the security groups, from the status of the
\* cluster or by name.
LookUpNetwork == LookUp("network", "source")

\* The dedicated host, the SSH keys, and the image or catalog offering.
LookUpSource == LookUp("source", "create")

CreateMachine ==
    /\ pc = "create"
    /\ \/ Fault("api") /\ Ends(local) /\ UNCHANGED <<inst, seen>>
       \/ \E i \in Instances :
            /\ inst[i] = "none" /\ \A j \in Instances : j < i => inst[j] # "none"
            /\ inst' = [inst EXCEPT ![i] = "pending"]
            /\ \/ /\ NoFault /\ pc' = "tag" /\ UNCHANGED local
                  /\ seen' = [id |-> i, state |-> "pending", ip |-> 0]
               \/ Fault("lost") /\ Ends(local) /\ UNCHANGED seen
    /\ UNCHANGED <<addressed, poolVars, volumeVars, apiVars, listed, at, flag>>

\* TagResource comes before SetInstanceID: a failure leaves the instance unrecorded.
TagResource ==
    /\ pc = "tag"
    /\ \/ Fault("api") /\ Ends(local)
       \/ NoFault /\ local' = [local EXCEPT !.id = seen.id] /\ pc' = "provider"
    /\ UNCHANGED <<cloudVars, apiVars, seen, listed, at, flag>>

\* SetProviderID, SetAddresses and SetInstanceStatus.
Recorded == [local EXCEPT !.provider = seen.id, !.state = seen.state, !.ip = seen.ip]

\* Only a running instance goes on, to the pool members of the spec, or to the
\* cluster's load balancer if it is a control plane, or to the volumes.  Ready
\* is left alone while an instance is being deleted.
RecordInstance ==
    /\ pc = "provider"
    /\ \/ Fault("api") /\ Ends(local)
       \/ NoFault /\ CASE seen.state = "running" ->
                            /\ local' = Recorded
                            /\ pc' = CASE spec.pools # <<>> -> "member"
                                       [] spec.pools = <<>> /\ spec.controlPlane -> "loadBalancer"
                                       [] OTHER -> "volumes"
                       [] seen.state = "deleting" ->
                            Ends([Recorded EXCEPT !.condition = "false"])
                       [] OTHER ->
                            Ends([Recorded EXCEPT !.ready = FALSE, !.condition = "false",
                                                  !.failed = @ \/ seen.state = "failed"])
    /\ UNCHANGED <<cloudVars, apiVars, seen, listed, at, flag>>

----------------------------------------------------------------------------
(* reconcileNormal: load balancer pool members.                            *)

\* What follows the pool member of the list at "at".
AfterMember(unfinished) ==
    /\ flag' = (flag \/ unfinished)
    /\ IF at < Len(spec.pools)
       THEN at' = at + 1 /\ pc' = "member"
       ELSE at' = 1 /\ pc' = IF flag' THEN "patch" ELSE "volumes"

\* Mutant: a member that exists is good enough.
AnyMemberWillDo(p) == AfterMember(FALSE)

\* Mutant: the member is waited for whatever its state.
WaitAlways(p) == AfterMember(TRUE)

\* The member exists: a pending one causes a requeue.
MemberExists(p) == AfterMember(members[p][local.ip] # "active")

\* ReconcileVPCLoadBalancerPoolMember, the check.
CheckPoolMemberExists ==
    /\ pc = "member"
    /\ LET p == spec.pools[at] IN
       \/ Fault("api") /\ pc' = "patch" /\ UNCHANGED <<at, flag>>
       \/ members[p][local.ip] # "absent" /\ NoFault /\ MemberExists(p)
       \/ members[p][local.ip] = "absent" /\ NoFault /\ pc' = "addMember" /\ UNCHANGED <<at, flag>>
    /\ UNCHANGED <<cloudVars, apiVars, local, seen, listed>>

\* IBM Cloud refuses to change a load balancer that is not active.
AddMember(p, ip) ==
    /\ lbs[p]
    /\ members' = [members EXCEPT ![p][ip] = "pending"]
    /\ lbs' = [lbs EXCEPT ![p] = FALSE]

RemoveMember(p, ip) ==
    /\ lbs[p]
    /\ members' = [members EXCEPT ![p][ip] = "absent"]
    /\ lbs' = [lbs EXCEPT ![p] = FALSE]

Refused(p) == Fault("api") \/ (~lbs[p] /\ NoFault)

\* createVPCLoadBalancerPoolMember: the member goes to the status of the machine.
CreatePoolMember ==
    /\ pc = "addMember"
    /\ LET p == spec.pools[at] IN
       \/ Refused(p) /\ Ends(local) /\ UNCHANGED <<poolVars, at, flag>>
       \/ /\ AddMember(p, local.ip)
          /\ \/ NoFault /\ local' = [local EXCEPT !.members = @ \cup {p}] /\ AfterMember(TRUE)
             \/ Fault("lost") /\ Ends(local) /\ UNCHANGED <<at, flag>>
    /\ UNCHANGED <<instVars, volumeVars, apiVars, seen, listed>>

\* CreateVPCLoadBalancerPoolMember for the cluster's load balancer: it wants an
\* address and an active load balancer; a member that exists needs no waiting.
GetLoadBalancer ==
    /\ pc = "loadBalancer"
    /\ \/ Refused("api") /\ pc' = "patch"
       \/ seen.ip = 0 /\ NoFault /\ pc' = "patch"
       \/ /\ seen.ip # 0 /\ lbs["api"] /\ NoFault
          /\ pc' = IF members["api"][seen.ip] = "absent" THEN "bind" ELSE "volumes"
    /\ UNCHANGED <<cloudVars, apiVars, local, seen, listed, at, flag>>

BindPoolMember ==
    /\ pc = "bind" /\ pc' = "patch"
    /\ \/ Refused("api") /\ UNCHANGED poolVars
       \/ AddMember("api", seen.ip) /\ (NoFault \/ Fault("lost"))
    /\ UNCHANGED <<instVars, volumeVars, apiVars, local, seen, listed, at, flag>>

----------------------------------------------------------------------------
(* reconcileAdditionalVolumes.                                             *)

MarkReady(o) == [o EXCEPT !.ready = TRUE, !.condition = "true"]

\* The machine is read again, which drops what this reconcile has put in the
\* copy; the attachments are listed for the instance ID that was persisted.
GetVolumeAttachments ==
    /\ pc = "volumes"
    /\ \/ Fault("api") /\ Ends(local) /\ UNCHANGED listed
       \/ spec.volumes = 0 /\ NoFault /\ Ends(MarkReady(local)) /\ UNCHANGED listed
       \/ /\ spec.volumes > 0 /\ Ends(stored) /\ UNCHANGED listed
          /\ Fault("api") \/ (NoFault /\ stored.id \notin FoundInstances)
       \/ /\ spec.volumes > 0 /\ stored.id \in FoundInstances /\ NoFault
          /\ listed' = {v \in Slots : attached[v] # 0}
          /\ local' = stored /\ pc' = "volume"
    /\ UNCHANGED <<cloudVars, apiVars, seen, at, flag>>

\* The volume at "at" is done with, leaving the copy o; errors are collected,
\* and without one the machine is ready, attached or not.
AfterVolume(o, error) ==
    /\ flag' = (flag \/ error)
    /\ IF at < spec.volumes
       THEN at' = at + 1 /\ pc' = "volume" /\ local' = o
       ELSE at' = 1 /\ Ends(IF flag' THEN o ELSE MarkReady(o))

\* CreateVolume: nothing ties the new volume to the machine.
CreateVolume(v, w) ==
    /\ volumes' = [volumes EXCEPT ![w] = "pending"]
    /\ UNCHANGED attached

\* No attachment and no recorded volume: one is created.
NewVolume ==
    /\ pc = "volume" /\ at \notin listed /\ local.volumes[at] = 0
    /\ \/ Fault("api") /\ AfterVolume(local, TRUE) /\ UNCHANGED volumeVars
       \/ \E w \in Volumes :
            /\ volumes[w] = "none" /\ \A u \in Volumes : u < w => volumes[u] # "none"
            /\ CreateVolume(at, w)
            /\ \/ NoFault /\ AfterVolume([local EXCEPT !.volumes[at] = w], FALSE)
               \/ Fault("lost") /\ AfterVolume(local, TRUE)
    /\ UNCHANGED <<instVars, poolVars, apiVars, seen, listed>>

\* GetVolumeState of a recorded volume; one that is gone is an error.
GetVolumeState ==
    /\ pc = "volume"
    /\ \/ at \in listed /\ NoFault /\ AfterVolume(local, FALSE)
       \/ at \notin listed /\ local.volumes[at] # 0 /\ Fault("api") /\ AfterVolume(local, TRUE)
       \/ /\ at \notin listed /\ local.volumes[at] # 0 /\ NoFault
          /\ LET state == volumes[local.volumes[at]] IN
             IF state = "available"
             THEN pc' = "attach" /\ UNCHANGED <<local, at, flag>>
             ELSE AfterVolume(local, state # "pending")
    /\ UNCHANGED <<cloudVars, apiVars, seen, listed>>

AttachVolume ==
    /\ pc = "attach"
    /\ LET w == local.volumes[at] IN
       \/ /\ Fault("api") \/ (NoFault /\ local.id \notin FoundInstances)
          /\ AfterVolume(local, TRUE) /\ UNCHANGED volumeVars
       \/ /\ local.id \in FoundInstances
          /\ volumes' = [volumes EXCEPT ![w] = "attached"]
          /\ attached' = [attached EXCEPT ![at] = w]
          /\ \/ NoFault /\ AfterVolume(local, FALSE)
             \/ Fault("lost") /\ AfterVolume(local, TRUE)
    /\ UNCHANGED <<instVars, poolVars, apiVars, seen, listed>>

----------------------------------------------------------------------------
(* reconcileDelete.                                                        *)

\* DeleteVPCLoadBalancerPoolMember: the members of the status, or the one in the
\* cluster's load balancer.  An instance that is gone is an error.
DeletePoolMembers ==
    /\ pc = "deleteMembers"
    /\ \/ /\ Fault("api") \/ (NoFault /\ local.id \notin FoundInstances)
          /\ pc' = "patch" /\ UNCHANGED seen
       \/ /\ local.id \in FoundInstances /\ NoFault
          /\ seen' = Read(local.id)
          /\ pc' = CASE local.members # {} -> "deleteMember"
                     [] local.members = {} /\ members["api"][seen'.ip] # "absent" -> "unbind"
                     [] OTHER -> "deleteInstance"
    /\ UNCHANGED <<cloudVars, apiVars, local, listed, at, flag>>

\* Mutant: a load balancer that is not active is passed over in silence.
PassOver(incomplete) ==
    IF at < Len(spec.pools) THEN at' = at + 1 /\ pc' = "deleteMember" /\ UNCHANGED flag
                            ELSE at' = 1 /\ pc' = "deleteInstance" /\ UNCHANGED flag

AfterDelete(incomplete) ==
    /\ flag' = (flag \/ incomplete)
    /\ IF at < Len(spec.pools)
       THEN at' = at + 1 /\ pc' = "deleteMember"
       ELSE at' = 1 /\ pc' = IF flag' THEN "patch" ELSE "deleteInstance"

\* deleteVPCLoadBalancerPoolMembers, one member of the status after the other.
DeletePoolMember ==
    /\ pc = "deleteMember"
    /\ LET p == spec.pools[at] IN
       \/ p \in local.members /\ Fault("api") /\ pc' = "patch" /\ UNCHANGED <<poolVars, at, flag>>
       \/ /\ p \in local.members /\ members[p][seen.ip] # "absent" /\ RemoveMember(p, seen.ip)
          /\ \/ NoFault /\ AfterDelete(FALSE)
             \/ Fault("lost") /\ pc' = "patch" /\ UNCHANGED <<at, flag>>
       \/ /\ p \in local.members => members[p][seen.ip] = "absent" \/ ~lbs[p]
          /\ NoFault /\ UNCHANGED poolVars
          /\ AfterDelete(p \in local.members /\ members[p][seen.ip] # "absent")
    /\ UNCHANGED <<instVars, volumeVars, apiVars, local, seen, listed>>

UnbindPoolMember ==
    /\ pc = "unbind"
    /\ \/ Refused("api") /\ pc' = "patch" /\ UNCHANGED poolVars
       \/ /\ RemoveMember("api", seen.ip)
          /\ \/ NoFault /\ pc' = "deleteInstance"
             \/ Fault("lost") /\ pc' = "patch"
    /\ UNCHANGED <<instVars, volumeVars, apiVars, local, seen, listed, at, flag>>

\* Mutant: the finalizer is not removed.
KeepFinalizer == local

Finalized == [local EXCEPT !.finalizer = FALSE]

\* DeleteMachine and the removal of the finalizer.  Without an instance ID there
\* is nothing to delete; an instance that is gone is an error, and so may be one
\* that is being deleted.
DeleteMachine ==
    /\ pc = "deleteInstance"
    /\ \/ local.id = 0 /\ NoFault /\ Ends(Finalized) /\ UNCHANGED inst
       \/ /\ local.id # 0 /\ Ends(local) /\ UNCHANGED inst
          /\ \/ Fault("api")
             \/ NoFault /\ (local.id \notin FoundInstances \/ inst[local.id] = "deleting")
       \/ /\ local.id \in FoundInstances
          /\ inst' = [inst EXCEPT ![local.id] = "deleting"]
          /\ (NoFault /\ Ends(Finalized)) \/ (Fault("lost") /\ Ends(local))
    /\ UNCHANGED <<addressed, poolVars, volumeVars, apiVars, seen, listed, at, flag>>

----------------------------------------------------------------------------
(* The deferred patch, and the whole.                                      *)

Forget ==
    /\ local' = NewObject /\ seen' = Nothing /\ listed' = {}
    /\ at' = 1 /\ flag' = FALSE /\ pc' = "idle"

PatchParts == {"conditions", "object", "status"}

\* patchIBMVPCMachine: the condition is always set; three requests follow, each
\* of which may fail on its own.
Patched(parts) ==
    LET part(p) == IF p \in parts THEN local ELSE stored
        condition == IF local.condition # "none" THEN local.condition
                     ELSE IF local.ready THEN "true" ELSE "false" IN
    [finalizer |-> part("object").finalizer, provider |-> part("object").provider,
     id |-> part("status").id, state |-> part("status").state, ip |-> part("status").ip,
     ready |-> part("status").ready, failed |-> part("status").failed,
     members |-> part("status").members, volumes |-> part("status").volumes,
     condition |-> IF "conditions" \in parts THEN condition ELSE stored.condition]

Patch ==
    /\ pc = "patch"
    /\ \E parts \in SUBSET PatchParts :
         /\ IF parts = PatchParts THEN NoFault ELSE Fault("patch")
         /\ stored' = Patched(parts)
    /\ phase' = IF phase = "deleting" /\ ~stored'.finalizer THEN "gone" ELSE phase
    /\ Forget
    /\ UNCHANGED <<cloudVars, spec, gate, bootstrap>>

Crash ==
    /\ pc # "idle"
    /\ Fault("crash")
    /\ Forget
    /\ UNCHANGED <<cloudVars, apiVars>>

NormalSteps ==
    \/ EnsureInstanceUnique \/ LookUpNetwork \/ LookUpSource \/ CreateMachine \/ TagResource \/ RecordInstance
    \/ CheckPoolMemberExists \/ CreatePoolMember \/ GetLoadBalancer \/ BindPoolMember
    \/ GetVolumeAttachments \/ NewVolume \/ GetVolumeState \/ AttachVolume

DeleteSteps == DeletePoolMembers \/ DeletePoolMember \/ UnbindPoolMember \/ DeleteMachine

Steps == NormalSteps \/ DeleteSteps \/ Patch

Cloud ==
    \/ \E i \in Instances :
         InstanceProgress(i) \/ AssignAddress(i) \/ InstanceDisturbed(i) \/ StartInstance(i)
    \/ \E p \in Pools : LBProgress(p)
    \/ \E v \in Volumes : VolumeProgress(v)

Next ==
    \/ Cloud \/ SetOwner \/ SetDataSecretName \/ TogglePause \/ DeleteObject
    \/ ReconcileReturns \/ EnsureFinalizer \/ StartReconcile
    \/ Steps \/ Crash

Spec == Init /\ [][Next]_vars

\* A machine that is not ready or being deleted keeps coming up in the work
\* queue, a reconcile that has begun goes on, a pause ends, and instances, load
\* balancers and volumes make progress.
FairSpec ==
    /\ Spec
    /\ WF_vars(Steps) /\ WF_vars(SetOwner) /\ WF_vars(SetDataSecretName)
    /\ SF_vars(EnsureFinalizer \/ StartReconcile)
    /\ WF_vars(gate = "paused" /\ TogglePause)
    /\ \A i \in Instances : WF_vars(InstanceProgress(i)) /\ WF_vars(AssignAddress(i))
    /\ \A p \in Pools : WF_vars(LBProgress(p))
    /\ \A v \in Volumes : WF_vars(VolumeProgress(v))

----------------------------------------------------------------------------
(* Properties.                                                             *)

\* A reconcile marks the machine ready.
BecomesReady == pc = "patch" /\ phase = "live" /\ local.ready /\ ~stored.ready

\* A reconcile only marks a machine ready that serves: a control plane machine
\* without pools of its own has its address in the pool of the cluster's load
\* balancer; any other that has an address is active under it in every pool the
\* spec names.  One without an address is excepted: see ReadyHasAddress.
ServesBeforeReady ==
    BecomesReady =>
    IF spec.pools = <<>>
    THEN spec.controlPlane => seen.ip # 0 /\ members["api"][seen.ip] # "absent"
    ELSE seen.ip # 0 => \A k \in 1..Len(spec.pools) : members[spec.pools[k]][seen.ip] = "active"

\* No machine becomes ready that is in its pools under 0.0.0.0, which is an invalid
\* address to the path without pools.  Known not to hold: see vpc_address.cfg.
ReadyHasAddress == BecomesReady /\ spec.pools # <<>> => seen.ip # 0

\* The provider ID, by which Cluster API ties a Machine to its Node, moves to
\* another instance only when the one it named no longer exists.
ProviderOutlivesInstance ==
    [][stored.provider \notin {0, stored'.provider} => inst[stored.provider] = "gone"]_vars

\* The pools in which the deletion looks for the instance.
RecordedPools == IF stored.members = {} THEN {"api"} ELSE stored.members

\* The finalizer goes only once the recorded instance is being deleted, and for
\* a control plane machine after the pools it is recorded in have let go of the
\* address, so that no traffic goes to whoever gets it next.
NothingRecordedLeft ==
    phase = "gone" /\ stored.id # 0 =>
    /\ inst[stored.id] \in {"deleting", "gone"}
    /\ spec.controlPlane => \A p \in RecordedPools : members[p][stored.id] = "absent"

\* What a failure may leave behind that a machine cannot get past: volumes of the
\* status that it can no longer have, an instance ID that is not recorded since the
\* volumes come first, and an instance that is not fit to run.
VolumeLost == \E v \in Slots : stored.volumes[v] # 0 /\ volumes[stored.volumes[v]] \in {"failed", "gone"}
NeverRecorded ==
    spec.volumes > 0 /\ FoundInstances # {} /\ stored.id \notin FoundInstances
Unfit == \E i \in Instances : inst[i] \in {"failed", "stopped"}

\* A machine nobody deletes becomes ready after any failures.  Known not to hold:
\* see vpc_volumes.cfg.
ReadyAfterFaults == <>(phase # "live" \/ stored.ready)

\* A machine nobody deletes becomes ready, unless after a failure its instance or its
\* volumes stand in the way for good.
EventuallyReady ==
    ReadyAfterFaults \/ <>[](faults > 0 /\ (VolumeLost \/ NeverRecorded \/ Unfit))

\* The deletion asks in vain for the recorded instance: a failure kept the object
\* although the instance went.
AskedInVain == faults > 0 /\ stored.id # 0 /\ inst[stored.id] = "gone"

\* A deleted machine goes away after any failures.  Known not to hold: vpc_machine.cfg
\* with this property.
DeletionAfterFaults == phase = "deleting" ~> phase = "gone"

\* A deleted machine goes away after its instance, unless a failure left it asking
\* for that instance for good.
DeletionCompletes == DeletionAfterFaults \/ <>[]AskedInVain
=============================================================================
